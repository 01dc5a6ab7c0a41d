------------------------------- MODULE Stream -------------------------------
(***************************************************************************)
(* What a session promises to readLoop: the messages the peer has sent     *)
(* come out of Recv in their order, each at most once, and only those are  *)
(* missing that were lost with a response the session gave up on.          *)
(***************************************************************************)
EXTENDS Naturals, Sequences, FiniteSetsExt

VARIABLES
    sent,      \* messages the peer has sent: 1..sent
    lost,      \* those that will never be received
    received   \* what Recv has returned, in order

vars == <<sent, lost, received>>

LastReceived == IF received = <<>> THEN 0 ELSE received[Len(received)]

Init == sent = 0 /\ lost = {} /\ received = <<>>

Send ==
    /\ sent' = sent + 1
    /\ UNCHANGED <<lost, received>>

Lose ==
    /\ \E S \in SUBSET ((LastReceived + 1)..sent) : lost' = lost \cup S
    /\ UNCHANGED <<sent, received>>

Recv ==
    LET left == {m \in (LastReceived + 1)..sent : m \notin lost}
    IN  /\ left # {}
        /\ received' = Append(received, Min(left))
        /\ UNCHANGED <<sent, lost>>

Next == Send \/ Lose \/ Recv

Spec == Init /\ [][Next]_vars
=============================================================================
