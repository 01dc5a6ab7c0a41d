----------------------------- MODULE MethodCall -----------------------------
(***************************************************************************)
(* What a client promises the callers of Go and Tell: a call is refused at *)
(* once, and then never runs, or it is made; a call that was made gets at  *)
(* most one answer, and the remote kite runs its method at most once.  A   *)
(* result means that it ran, a failure that it may have, or may yet.       *)
(***************************************************************************)
EXTENDS Naturals

CONSTANT Calls

VARIABLES
    call,   \* "idle", "refused", "made", "failed" or answered with a "result"
    runs    \* how often the remote kite has run the method

vars == <<call, runs>>

Init ==
    /\ call = [c \in Calls |-> "idle"]
    /\ runs = [c \in Calls |-> 0]

Make(c) ==
    /\ call[c] = "idle"
    /\ call' = [call EXCEPT ![c] = "made"]
    /\ UNCHANGED runs

Refuse(c) ==
    /\ call[c] = "idle"
    /\ call' = [call EXCEPT ![c] = "refused"]
    /\ UNCHANGED runs

Run(c) ==
    /\ call[c] \in {"made", "failed"} /\ runs[c] = 0
    /\ runs' = [runs EXCEPT ![c] = 1]
    /\ UNCHANGED call

Succeed(c) ==
    /\ call[c] = "made" /\ runs[c] = 1
    /\ call' = [call EXCEPT ![c] = "result"]
    /\ UNCHANGED runs

Fail(c) ==
    /\ call[c] = "made"
    /\ call' = [call EXCEPT ![c] = "failed"]
    /\ UNCHANGED runs

Next == \E c \in Calls : Make(c) \/ Refuse(c) \/ Run(c) \/ Succeed(c) \/ Fail(c)

Spec == Init /\ [][Next]_vars
=============================================================================
