---------------------------- MODULE SessionProofs ----------------------------
(***************************************************************************)
(* Session implements Stream, for any number of messages and both          *)
(* transports.                                                             *)
(***************************************************************************)
EXTENDS Session, SequenceTheorems, TLAPS

Frames == [type : FrameTypes, messages : Seq(Messages)]

(* The messages of at most two frames, in order. *)
MessagesAt(w, i) == IF i \in 1..Len(w) THEN w[i].messages ELSE <<>>
MessagesOf(w) == MessagesAt(w, 1) \o MessagesAt(w, 2)

(* What Recv has yet to return, in order. *)
Pending == messages \o (MessagesOf(wire) \o outbox)

Increasing(s) == \A i, j \in 1..Len(s) : i < j => s[i] < s[j]

(* s is what comes after last, up to n, without the messages in L, in order. *)
Remains(s, last, n, L) ==
    /\ last \in 0..n /\ L \subseteq 1..n
    /\ Increasing(s)
    /\ ToSet(s) = {m \in (last + 1)..n : m \notin L}

PendingInv == Remains(Pending, Promise!LastReceived, sent, lost)

(* There are at most two frames, and only those have messages that Recv    *)
(* returns or gives up on.                                                 *)
WireInv ==
    /\ Len(wire) \in 0..2
    /\ transport = "xhr" => Len(wire) \in 0..1
    /\ \A i \in 1..Len(wire) :
          /\ wire[i].type \in {"a", "m"} => wire[i].messages # <<>>
          /\ wire[i].type \notin {"a", "m", "timeout"} => wire[i].messages = <<>>

-----------------------------------------------------------------------------
(* Sequences. *)

LEMMA ToSetConcat ==
    ASSUME NEW s \in Seq(Nat), NEW t \in Seq(Nat)
    PROVE  ToSet(s \o t) = ToSet(s) \cup ToSet(t)
<1>1. ToSet(s) \cup ToSet(t) \subseteq ToSet(s \o t)
  <2>1. ASSUME NEW i \in DOMAIN s PROVE s[i] \in ToSet(s \o t)
    <3>1. i \in DOMAIN (s \o t) /\ (s \o t)[i] = s[i]
      BY <2>1
    <3>2. QED
      BY <3>1 DEF ToSet
  <2>2. ASSUME NEW i \in DOMAIN t PROVE t[i] \in ToSet(s \o t)
    <3>1. Len(s) + i \in DOMAIN (s \o t) /\ (s \o t)[Len(s) + i] = t[i]
      BY <2>2
    <3>2. QED
      BY <3>1 DEF ToSet
  <2>3. QED
    BY <2>1, <2>2 DEF ToSet
<1>2. ASSUME NEW i \in DOMAIN (s \o t) PROVE (s \o t)[i] \in ToSet(s) \cup ToSet(t)
  <2>1. CASE i <= Len(s)
    BY <2>1 DEF ToSet
  <2>2. CASE i > Len(s)
    <3>1. i - Len(s) \in DOMAIN t /\ (s \o t)[i] = t[i - Len(s)]
      BY <2>2
    <3>2. QED
      BY <3>1 DEF ToSet
  <2>3. QED
    BY <2>1, <2>2
<1>3. QED
  BY <1>1, <1>2 DEF ToSet

LEMMA ToSetSmall ==
    /\ ToSet(<<>>) = {}
    /\ \A x : ToSet(<<x>>) = {x}
  BY DEF ToSet

(* A concatenation increases when its parts do and one is below the other. *)
LEMMA IncreasingConcat ==
    ASSUME NEW s \in Seq(Nat), NEW t \in Seq(Nat)
    PROVE  Increasing(s \o t) <=>
             /\ Increasing(s) /\ Increasing(t)
             /\ \A x \in ToSet(s), y \in ToSet(t) : x < y
<1>1. ASSUME Increasing(s \o t)
      PROVE  /\ Increasing(s) /\ Increasing(t)
             /\ \A x \in ToSet(s), y \in ToSet(t) : x < y
  <2>1. Increasing(s)
    BY <1>1 DEF Increasing
  <2>2. ASSUME NEW i \in 1..Len(t), NEW j \in 1..Len(t), i < j PROVE t[i] < t[j]
    <3>1. /\ Len(s) + i \in 1..Len(s \o t) /\ Len(s) + j \in 1..Len(s \o t)
          /\ (s \o t)[Len(s) + i] = t[i] /\ (s \o t)[Len(s) + j] = t[j]
          /\ Len(s) + i < Len(s) + j
      BY <2>2
    <3>2. QED
      BY <1>1, <3>1 DEF Increasing
  <2>3. ASSUME NEW i \in DOMAIN s, NEW j \in DOMAIN t PROVE s[i] < t[j]
    <3>1. /\ i \in 1..Len(s \o t) /\ Len(s) + j \in 1..Len(s \o t)
          /\ (s \o t)[i] = s[i] /\ (s \o t)[Len(s) + j] = t[j]
          /\ i < Len(s) + j
      BY <2>3
    <3>2. QED
      BY <1>1, <3>1 DEF Increasing
  <2>4. QED
    BY <2>1, <2>2, <2>3 DEF Increasing, ToSet
<1>2. ASSUME Increasing(s), Increasing(t),
             \A x \in ToSet(s), y \in ToSet(t) : x < y,
             NEW i \in 1..Len(s \o t), NEW j \in 1..Len(s \o t), i < j
      PROVE  (s \o t)[i] < (s \o t)[j]
  <2>1. CASE j <= Len(s)
    BY <1>2, <2>1 DEF Increasing
  <2>2. CASE i <= Len(s) /\ j > Len(s)
    <3>1. /\ (s \o t)[i] = s[i] /\ (s \o t)[j] = t[j - Len(s)]
          /\ i \in DOMAIN s /\ j - Len(s) \in DOMAIN t
      BY <2>2
    <3>2. QED
      BY <1>2, <3>1 DEF ToSet
  <2>3. CASE i > Len(s)
    <3>1. /\ (s \o t)[i] = t[i - Len(s)] /\ (s \o t)[j] = t[j - Len(s)]
          /\ i - Len(s) \in 1..Len(t) /\ j - Len(s) \in 1..Len(t)
          /\ i - Len(s) < j - Len(s)
      BY <1>2, <2>3
    <3>2. QED
      BY <1>2, <3>1 DEF Increasing
  <2>4. QED
    BY <2>1, <2>2, <2>3
<1>3. QED
  BY <1>1, <1>2 DEF Increasing

-----------------------------------------------------------------------------
(* What the steps do to the messages that remain. *)

LEMMA RemainsMore ==
    ASSUME NEW s \in Seq(Nat), NEW n \in Nat, NEW last, NEW L, Remains(s, last, n, L)
    PROVE  Remains(Append(s, n + 1), last, n + 1, L)
<1>1. /\ Append(s, n + 1) = s \o <<n + 1>> /\ <<n + 1>> \in Seq(Nat)
      /\ Increasing(<<n + 1>>) /\ ToSet(<<n + 1>>) = {n + 1}
  BY ToSetSmall DEF Increasing
<1>2. \A x \in ToSet(s) : x < n + 1
  BY DEF Remains
<1>3. Increasing(s \o <<n + 1>>)
  BY <1>1, <1>2, IncreasingConcat DEF Remains
<1>4. ToSet(s \o <<n + 1>>) = ToSet(s) \cup {n + 1}
  BY <1>1, ToSetConcat
<1>5. {m \in (last + 1)..(n + 1) : m \notin L} =
          {m \in (last + 1)..n : m \notin L} \cup {n + 1}
  BY DEF Remains
<1>6. last \in 0..(n + 1) /\ L \subseteq 1..(n + 1)
  BY DEF Remains
<1>7. QED
  BY <1>1, <1>3, <1>4, <1>5, <1>6 DEF Remains

LEMMA RemainsTaken ==
    ASSUME NEW m \in Nat, NEW t \in Seq(Nat), NEW n \in Nat, NEW last, NEW L,
           Remains(<<m>> \o t, last, n, L)
    PROVE  /\ m \in {x \in (last + 1)..n : x \notin L}
           /\ \A x \in {x \in (last + 1)..n : x \notin L} : m <= x
           /\ Remains(t, m, n, L)
<1>1. /\ <<m>> \in Seq(Nat) /\ ToSet(<<m>>) = {m}
  BY ToSetSmall
<1>2. /\ Increasing(t) /\ \A y \in ToSet(t) : m < y
  BY <1>1, IncreasingConcat DEF Remains
<1>3. {x \in (last + 1)..n : x \notin L} = {m} \cup ToSet(t)
  BY <1>1, ToSetConcat DEF Remains
<1>4. {x \in (m + 1)..n : x \notin L} = ToSet(t)
  <2>1. last \in Nat /\ m \in (last + 1)..n
    BY <1>3 DEF Remains
  <2>2. ASSUME NEW x \in (m + 1)..n, x \notin L PROVE x \in ToSet(t)
    BY <1>3, <2>1, <2>2
  <2>3. ASSUME NEW x \in ToSet(t) PROVE x \in (m + 1)..n /\ x \notin L
    BY <1>2, <1>3, <2>1, <2>3
  <2>4. QED
    BY <2>2, <2>3
<1>5. m \in 0..n
  BY <1>3 DEF Remains
<1>6. QED
  BY <1>2, <1>3, <1>4, <1>5 DEF Remains

LEMMA RemainsLost ==
    ASSUME NEW s \in Seq(Nat), NEW t \in Seq(Nat), NEW u \in Seq(Nat),
           NEW n \in Nat, NEW last, NEW L,
           Remains(s \o (t \o u), last, n, L)
    PROVE  /\ ToSet(t) \in SUBSET ((last + 1)..n)
           /\ Remains(s \o u, last, n, L \cup ToSet(t))
<1>1. t \o u \in Seq(Nat) /\ ToSet(t \o u) = ToSet(t) \cup ToSet(u)
  BY ToSetConcat
<1>2. ToSet(s \o (t \o u)) = ToSet(s) \cup ToSet(t) \cup ToSet(u)
  <2>1. ToSet(s \o (t \o u)) = ToSet(s) \cup ToSet(t \o u)
    BY <1>1, ToSetConcat
  <2>2. QED
    BY <1>1, <2>1
<1>3. ToSet(s \o u) = ToSet(s) \cup ToSet(u)
  BY ToSetConcat
<1>4. /\ Increasing(s) /\ Increasing(t \o u)
      /\ \A x \in ToSet(s), y \in ToSet(t \o u) : x < y
  BY <1>1, IncreasingConcat DEF Remains
<1>5. ToSet(t \o u) = ToSet(t) \cup ToSet(u)
  BY <1>1
<1>6. /\ Increasing(u)
      /\ \A x \in ToSet(t), y \in ToSet(u) : x < y
  BY <1>4, IncreasingConcat
<1>7. Increasing(s \o u)
  BY <1>4, <1>5, <1>6, IncreasingConcat
<1>8. ToSet(t) \in SUBSET ((last + 1)..n)
  BY <1>2 DEF Remains
<1>9. ToSet(t) \cap (ToSet(s) \cup ToSet(u)) = {}
  <2>1. ToSet(s) \cup ToSet(t) \cup ToSet(u) \subseteq Nat
    BY <1>2 DEF Remains
  <2>2. QED
    BY <1>4, <1>5, <1>6, <2>1
<1>10. ToSet(s \o u) = {m \in (last + 1)..n : m \notin L \cup ToSet(t)}
  BY <1>2, <1>3, <1>9 DEF Remains
<1>11. L \cup ToSet(t) \subseteq 1..n
  <2>1. last \in Nat /\ L \subseteq 1..n
    BY DEF Remains
  <2>2. ASSUME NEW x \in ToSet(t) PROVE x \in 1..n
    BY <1>8, <2>1
  <2>3. QED
    BY <2>1, <2>2
<1>12. QED
  BY <1>7, <1>8, <1>10, <1>11 DEF Remains

-----------------------------------------------------------------------------
(* Types. *)

LEMMA MessagesNat == Messages \subseteq Nat /\ Seq(Messages) \subseteq Seq(Nat)
  BY SessionAssumption DEF Messages

LEMMA FrameType ==
    ASSUME NEW t \in FrameTypes, NEW ms \in Seq(Messages) PROVE Frame(t, ms) \in Frames
  BY DEF Frame, Frames

LEMMA PutType ==
    ASSUME TypeOK, NEW f \in Frames, wire' = Append(wire, f) PROVE wire' \in Seq(Frames)
<1>1. wire \in Seq(Frames)
  BY DEF TypeOK, Frames
<1>2. QED
  BY <1>1

LEMMA TypeInit == Init => TypeOK
<1> SUFFICES ASSUME Init PROVE TypeOK
  OBVIOUS
<1>1. "o" \in FrameTypes /\ <<>> \in Seq(Messages)
  BY DEF FrameTypes
<1>2. Frame("o", <<>>) \in Frames
  BY <1>1, FrameType
<1>3. wire \in Seq(Frames)
  BY <1>2 DEF Init
<1>4. 0 \in 0..MaxMessages /\ 0 \in 0..1
  BY SessionAssumption
<1>5. QED
  BY <1>1, <1>3, <1>4 DEF Init, TypeOK, Frames

LEMMA TypePeer ==
    ASSUME TypeOK,
           \/ Produce \/ WriteMessages \/ Reopen \/ SlowBody
           \/ \E t \in FrameTypes : WriteOther(t)
    PROVE  TypeOK'
<1> USE DEF TypeOK, peerVars, recvVars, closeVars
<1>1. CASE Produce
  <2>1. sent + 1 \in Messages /\ sent' \in 0..MaxMessages
    BY <1>1, SessionAssumption DEF Produce, Messages
  <2>2. outbox' \in Seq(Messages)
    BY <1>1, <2>1 DEF Produce
  <2>3. QED
    BY <1>1, <2>1, <2>2 DEF Produce
<1>2. CASE WriteMessages
  <2>0. outbox # <<>> /\ Head(outbox) \in Messages /\ Tail(outbox) \in Seq(Messages)
    BY <1>2 DEF WriteMessages
  <2>1. /\ <<Head(outbox)>> \in Seq(Messages) /\ outbox' \in Seq(Messages)
        /\ "a" \in FrameTypes /\ "m" \in FrameTypes
    <3>1. <<Head(outbox)>> \in Seq(Messages) /\ <<>> \in Seq(Messages)
      BY <2>0
    <3>2. QED
      BY <1>2, <2>0, <3>1 DEF WriteMessages, FrameTypes
  <2>2. Frame("a", outbox) \in Frames /\ Frame("m", <<Head(outbox)>>) \in Frames
    BY <2>1, FrameType
  <2>3. wire' \in Seq(Frames)
    BY <1>2, <2>2, PutType DEF WriteMessages
  <2>4. QED
    BY <1>2, <2>1, <2>3 DEF WriteMessages, Frames
<1>3. CASE Reopen
  <2>1. <<>> \in Seq(Messages) /\ "o" \in FrameTypes
    BY DEF FrameTypes
  <2>2. wire' \in Seq(Frames)
    BY <1>3, <2>1, FrameType, PutType DEF Reopen
  <2>3. lost' \subseteq Messages /\ outbox' \in Seq(Messages)
    BY <1>3 DEF Reopen, ToSet
  <2>4. QED
    BY <1>3, <2>2, <2>3 DEF Reopen, Frames
<1>4. CASE SlowBody
  <2>1. outbox' \in Seq(Messages) /\ "timeout" \in FrameTypes
    BY <1>4 DEF SlowBody, FrameTypes
  <2>2. wire' \in Seq(Frames)
    BY <1>4, <2>1, FrameType, PutType DEF SlowBody
  <2>3. QED
    BY <1>4, <2>1, <2>2 DEF SlowBody, Frames
<1>5. ASSUME NEW t \in FrameTypes, WriteOther(t) PROVE TypeOK'
  <2>1. <<>> \in Seq(Messages)
    OBVIOUS
  <2>2. wire' \in Seq(Frames)
    BY <1>5, <2>1, FrameType, PutType DEF WriteOther
  <2>3. QED
    BY <1>5, <2>2 DEF WriteOther, Frames
<1>6. QED
  BY <1>1, <1>2, <1>3, <1>4, <1>5

(* A frame that has arrived, and the others. *)
LEMMA ArrivedType ==
    ASSUME TypeOK, NEW types, Arrived(types)
    PROVE  /\ wire # <<>> /\ Head(wire) \in Frames /\ Head(wire).type \in types
           /\ wire' = Tail(wire) /\ wire' \in Seq(Frames)
           /\ Head(wire).messages \in Seq(Messages)
<1>1. wire \in Seq(Frames) /\ wire # <<>> /\ wire' = Tail(wire)
  BY DEF TypeOK, Frames, Arrived
<1>2. Head(wire) \in Frames /\ Tail(wire) \in Seq(Frames)
  BY <1>1
<1>3. QED
  BY <1>1, <1>2 DEF Arrived, Frames

LEMMA ReturnFirstType ==
    ASSUME TypeOK, NEW b \in Seq(Messages), b # <<>>, ReturnFirst(b)
    PROVE  /\ received' \in Seq(Messages) /\ messages' \in Seq(Messages)
           /\ reader' = "idle"
  BY DEF TypeOK, ReturnFirst

LEMMA FirstFrame ==
    ASSUME TypeOK, WireInv, wire # <<>>
    PROVE  /\ Head(wire).type \in {"a", "m"} => Head(wire).messages # <<>>
           /\ Head(wire).type \notin {"a", "m", "timeout"} => Head(wire).messages = <<>>
<1>1. wire \in Seq(Frames)
  BY DEF TypeOK, Frames
<1>2. 1 \in 1..Len(wire) /\ Head(wire) = wire[1]
  BY <1>1
<1>3. QED
  BY <1>2 DEF WireInv

LEMMA TypeRecv == ASSUME TypeOK, WireInv, Recv \/ RecvAborted PROVE TypeOK'
<1> USE DEF TypeOK, peerVars, recvVars, closeVars
<1>1. CASE RecvBuffered
  BY <1>1, ReturnFirstType DEF RecvBuffered
<1>2. CASE RecvClosed \/ RecvWaits \/ RecvResponse \/ ReadFails \/ RecvAborted
  BY <1>2 DEF RecvClosed, RecvWaits, RecvResponse, ReadFails, RecvAborted
<1>3. CASE RecvMessages
  <2>1. /\ wire' \in Seq(Frames) /\ Head(wire).messages \in Seq(Messages)
        /\ Head(wire).type \in {"a", "m"} /\ wire # <<>>
    BY <1>3, ArrivedType DEF RecvMessages
  <2>2. Head(wire).messages # <<>>
    BY <2>1, FirstFrame
  <2>3. /\ messages \o Head(wire).messages \in Seq(Messages)
        /\ messages \o Head(wire).messages # <<>>
    BY <2>1, <2>2
  <2>4. /\ received' \in Seq(Messages) /\ messages' \in Seq(Messages)
        /\ reader' = "idle"
    BY <1>3, <2>3, ReturnFirstType DEF RecvMessages
  <2>5. QED
    BY <1>3, <2>1, <2>4 DEF RecvMessages, Frames
<1>4. CASE RecvAgain
  <2>1. wire' \in Seq(Frames) /\ Head(wire).messages \in Seq(Messages)
    BY <1>4, ArrivedType DEF RecvAgain
  <2>2. lost' \subseteq Messages
    BY <1>4, <2>1 DEF RecvAgain, ToSet
  <2>3. QED
    BY <1>4, <2>1, <2>2 DEF RecvAgain, Frames
<1>5. CASE RecvCloseFrame
  BY <1>5, ArrivedType DEF RecvCloseFrame, Frames
<1>6. CASE RecvNotFound
  BY <1>6, ArrivedType DEF RecvNotFound, Frames
<1>7. CASE RecvInvalid
  BY <1>7, ArrivedType DEF RecvInvalid, Frames
<1>8. QED
  BY <1>1, <1>2, <1>3, <1>4, <1>5, <1>6, <1>7 DEF Recv

LEMMA TypeClose ==
    ASSUME TypeOK, SendPosts \/ SendDone \/ SendNotFound \/ Close PROVE TypeOK'
<1> USE DEF TypeOK, peerVars, recvVars, closeVars
<1>1. CASE SendPosts
  BY <1>1 DEF SendPosts
<1>2. CASE SendDone
  BY <1>2 DEF SendDone
<1>3. CASE SendNotFound
  BY <1>3 DEF SendNotFound
<1>4. CASE Close
  <2>1. CASE transport = "xhr"
    BY <1>4, <2>1 DEF Close, CloseXHR
  <2>2. CASE transport # "xhr"
    BY <1>4, <2>2 DEF Close
  <2>3. QED
    BY <2>1, <2>2
<1>5. QED
  BY <1>1, <1>2, <1>3, <1>4

LEMMA TypeStep == TypeOK /\ WireInv /\ [Next]_vars => TypeOK'
<1> SUFFICES ASSUME TypeOK, WireInv, [Next]_vars PROVE TypeOK'
  OBVIOUS
<1>1. CASE UNCHANGED vars
  BY <1>1 DEF TypeOK, vars, peerVars, recvVars, closeVars
<1>2. CASE Next
  BY <1>2, TypePeer, TypeRecv, TypeClose DEF Next
<1>3. QED
  BY <1>1, <1>2

-----------------------------------------------------------------------------
(* Frames. *)

LEMMA ConcatEmpty ==
    ASSUME NEW s \in Seq(Messages) PROVE <<>> \o s = s /\ s \o <<>> = s
  BY ConcatEmptySeq

LEMMA MessagesAtType ==
    ASSUME NEW w \in Seq(Frames), NEW i \in Nat
    PROVE  MessagesAt(w, i) \in Seq(Messages)
<1>1. CASE i \in 1..Len(w)
  <2>1. w[i] \in Frames
    BY <1>1
  <2>2. QED
    BY <1>1, <2>1 DEF MessagesAt, Frames
<1>2. CASE i \notin 1..Len(w)
  BY <1>2 DEF MessagesAt
<1>3. QED
  BY <1>1, <1>2

LEMMA MessagesOfType ==
    ASSUME NEW w \in Seq(Frames) PROVE MessagesOf(w) \in Seq(Messages)
<1>1. MessagesAt(w, 1) \in Seq(Messages) /\ MessagesAt(w, 2) \in Seq(Messages)
  BY MessagesAtType
<1>2. QED
  BY <1>1 DEF MessagesOf

LEMMA MessagesOfAppend ==
    ASSUME NEW w \in Seq(Frames), NEW f \in Frames, Len(w) \in 0..1
    PROVE  MessagesOf(Append(w, f)) = MessagesOf(w) \o f.messages
<1>1. f.messages \in Seq(Messages)
  BY DEF Frames
<1>2. CASE Len(w) = 0
  <2>1. Len(Append(w, f)) = 1 /\ Append(w, f)[1] = f
    BY <1>2
  <2>2. MessagesAt(Append(w, f), 1) = f.messages /\ MessagesAt(Append(w, f), 2) = <<>>
    BY <2>1 DEF MessagesAt
  <2>3. MessagesAt(w, 1) = <<>> /\ MessagesAt(w, 2) = <<>>
    BY <1>2 DEF MessagesAt
  <2>4. QED
    <3>1. <<>> \in Seq(Messages) /\ <<>> \o <<>> = <<>>
      OBVIOUS
    <3>2. MessagesOf(Append(w, f)) = f.messages /\ MessagesOf(w) = <<>>
      BY <1>1, <2>2, <2>3, <3>1, ConcatEmpty DEF MessagesOf
    <3>3. QED
      BY <1>1, <3>2, ConcatEmpty
<1>3. CASE Len(w) = 1
  <2>1. Len(Append(w, f)) = 2 /\ Append(w, f)[1] = w[1] /\ Append(w, f)[2] = f
    <3>1. /\ Len(Append(w, f)) = Len(w) + 1 /\ Append(w, f)[Len(w) + 1] = f
          /\ \A i \in 1..Len(w) : Append(w, f)[i] = w[i]
      BY AppendProperties
    <3>2. QED
      BY <1>3, <3>1
  <2>2. /\ MessagesAt(Append(w, f), 1) = MessagesAt(w, 1)
        /\ MessagesAt(Append(w, f), 2) = f.messages
        /\ MessagesAt(w, 2) = <<>>
    BY <1>3, <2>1 DEF MessagesAt
  <2>3. MessagesAt(w, 1) \in Seq(Messages)
    BY MessagesAtType
  <2>4. QED
    BY <1>1, <2>2, <2>3, ConcatEmpty DEF MessagesOf
<1>4. Len(w) \in Nat
  OBVIOUS
<1>5. QED
  BY <1>2, <1>3, <1>4

LEMMA MessagesOfTail ==
    ASSUME NEW w \in Seq(Frames), w # <<>>, Len(w) \in 0..2
    PROVE  MessagesOf(w) = Head(w).messages \o MessagesOf(Tail(w))
<1>1. Len(w) \in 1..2 /\ Head(w) = w[1] /\ Len(Tail(w)) = Len(w) - 1
  OBVIOUS
<1>2. MessagesAt(w, 1) = Head(w).messages /\ MessagesAt(Tail(w), 2) = <<>>
  BY <1>1 DEF MessagesAt
<1>3. MessagesAt(Tail(w), 1) = MessagesAt(w, 2)
  <2>1. CASE Len(w) = 1
    <3>0. Len(Tail(w)) = 0 /\ 1 \notin 1..0
      BY <1>1, <2>1
    <3>1. MessagesAt(Tail(w), 1) = <<>>
      BY <3>0 DEF MessagesAt
    <3>2. MessagesAt(w, 2) = <<>>
      BY <2>1 DEF MessagesAt
    <3>3. QED
      BY <3>1, <3>2
  <2>2. CASE Len(w) = 2
    <3>1. Tail(w)[1] = w[2]
      BY <2>2
    <3>2. QED
      BY <1>1, <2>2, <3>1 DEF MessagesAt
  <2>3. QED
    BY <1>1, <2>1, <2>2
<1>4. MessagesAt(w, 2) \in Seq(Messages)
  BY MessagesAtType
<1>5. MessagesOf(Tail(w)) = MessagesAt(w, 2)
  BY <1>2, <1>3, <1>4, ConcatEmpty DEF MessagesOf
<1>6. QED
  BY <1>2, <1>5 DEF MessagesOf

(* The frames the peer writes. *)
LEMMA PutKeepsWire ==
    ASSUME TypeOK, WireInv, NEW f \in Frames, wire' = Append(wire, f), CanWrite,
           f.type \in {"a", "m"} => f.messages # <<>>,
           f.type \notin {"a", "m", "timeout"} => f.messages = <<>>,
           UNCHANGED transport
    PROVE  WireInv' /\ Len(wire) \in 0..1
<1>1. wire \in Seq(Frames)
  BY DEF TypeOK, Frames
<1>2. Len(wire) \in 0..1 /\ (transport = "xhr" => wire = <<>>)
  <2>1. PICK n \in Nat : n = Len(wire)
    BY <1>1
  <2>2. CASE transport = "xhr"
    BY <2>2 DEF CanWrite
  <2>3. CASE transport # "xhr"
    BY <2>1, <2>3 DEF CanWrite
  <2>4. QED
    BY <2>2, <2>3
<1>3. Len(wire') = Len(wire) + 1 /\ (transport = "xhr" => Len(wire') \in 0..1)
  BY <1>1, <1>2
<1>4. ASSUME NEW i \in 1..Len(wire')
      PROVE  /\ wire'[i].type \in {"a", "m"} => wire'[i].messages # <<>>
             /\ wire'[i].type \notin {"a", "m", "timeout"} => wire'[i].messages = <<>>
  <2>1. CASE i \in 1..Len(wire)
    <3>1. wire'[i] = wire[i]
      BY <1>1, <2>1
    <3>2. QED
      BY <2>1, <3>1 DEF WireInv
  <2>2. CASE i = Len(wire) + 1
    <3>1. wire'[i] = f
      BY <1>1, <2>2
    <3>2. QED
      BY <3>1
  <2>3. QED
    BY <1>1, <1>3, <2>1, <2>2
<1>5. QED
  BY <1>1, <1>2, <1>3, <1>4 DEF WireInv

LEMMA ArrivedKeepsWire ==
    ASSUME TypeOK, WireInv, NEW types, Arrived(types), UNCHANGED transport
    PROVE  WireInv'
<1>1. wire \in Seq(Frames) /\ wire # <<>> /\ wire' = Tail(wire)
  BY DEF TypeOK, Frames, Arrived
<1>2. /\ Len(wire') = Len(wire) - 1 /\ Len(wire) \in Nat
      /\ \A i \in 1..Len(wire') : i + 1 \in 1..Len(wire) /\ wire'[i] = wire[i + 1]
  BY <1>1
<1>3. QED
  BY <1>2 DEF WireInv

LEMMA WireStep == TypeOK /\ WireInv /\ [Next]_vars => WireInv'
<1> SUFFICES ASSUME TypeOK, WireInv, [Next]_vars PROVE WireInv'
  OBVIOUS
<1>0. <<>> \in Seq(Messages)
  OBVIOUS
<1>1. CASE WriteMessages
  <2>1. CanWrite /\ outbox \in Seq(Messages) /\ outbox # <<>> /\ UNCHANGED transport
    BY <1>1 DEF WriteMessages, TypeOK
  <2>2. <<Head(outbox)>> \in Seq(Messages) /\ <<Head(outbox)>> # <<>>
    BY <2>1
  <2>3. /\ Frame("a", outbox) \in Frames /\ Frame("m", <<Head(outbox)>>) \in Frames
    BY <2>1, <2>2, FrameType DEF FrameTypes
  <2>4. CASE wire' = Append(wire, Frame("a", outbox))
    BY <2>1, <2>3, <2>4, PutKeepsWire DEF Frame
  <2>5. CASE wire' = Append(wire, Frame("m", <<Head(outbox)>>))
    BY <2>1, <2>2, <2>3, <2>5, PutKeepsWire DEF Frame
  <2>6. QED
    BY <1>1, <2>4, <2>5 DEF WriteMessages
<1>2. CASE Reopen
  <2>1. Frame("o", <<>>) \in Frames
    BY <1>0, FrameType DEF FrameTypes
  <2>2. QED
    BY <1>2, <2>1, PutKeepsWire DEF Reopen, Frame
<1>3. CASE SlowBody
  <2>1. Frame("timeout", outbox) \in Frames
    BY FrameType DEF FrameTypes, TypeOK
  <2>2. QED
    BY <1>3, <2>1, PutKeepsWire DEF SlowBody, Frame
<1>4. ASSUME NEW t \in FrameTypes, WriteOther(t) PROVE WireInv'
  <2>1. Frame(t, <<>>) \in Frames /\ t \notin {"a", "m"}
    BY <1>0, <1>4, FrameType DEF WriteOther
  <2>2. QED
    BY <1>4, <2>1, PutKeepsWire DEF WriteOther, Frame
<1>5. CASE RecvMessages \/ RecvAgain \/ RecvCloseFrame \/ RecvNotFound \/ RecvInvalid
  BY <1>5, ArrivedKeepsWire
  DEF RecvMessages, RecvAgain, RecvCloseFrame, RecvNotFound, RecvInvalid
<1>6. CASE UNCHANGED <<transport, wire>>
  BY <1>6 DEF WireInv
<1>7. CASE Produce \/ RecvBuffered \/ RecvClosed \/ RecvWaits \/ RecvResponse \/ ReadFails \/ RecvAborted
  BY <1>6, <1>7 DEF Produce, RecvBuffered, RecvClosed, RecvWaits, RecvResponse, ReadFails,
                    RecvAborted, peerVars
<1>8. CASE SendPosts \/ SendDone \/ SendNotFound \/ Close \/ UNCHANGED vars
  BY <1>6, <1>8 DEF SendPosts, SendDone, SendNotFound, Close, vars, peerVars
<1>9. QED
  BY <1>1, <1>2, <1>3, <1>4, <1>5, <1>7, <1>8 DEF Next, Recv

-----------------------------------------------------------------------------
(* The four things a step can do to what is pending, and what each is to   *)
(* the stream.                                                             *)

LEMMA PendingType ==
    TypeOK => /\ Pending \in Seq(Nat) /\ messages \in Seq(Nat) /\ outbox \in Seq(Nat)
              /\ MessagesOf(wire) \in Seq(Nat) /\ received \in Seq(Nat) /\ sent \in Nat
<1> SUFFICES ASSUME TypeOK PROVE
              /\ Pending \in Seq(Nat) /\ messages \in Seq(Nat) /\ outbox \in Seq(Nat)
              /\ MessagesOf(wire) \in Seq(Nat) /\ received \in Seq(Nat) /\ sent \in Nat
  OBVIOUS
<1>1. wire \in Seq(Frames) /\ sent \in Nat
  BY SessionAssumption DEF TypeOK, Frames
<1>2. MessagesOf(wire) \in Seq(Nat)
  BY <1>1, MessagesOfType, MessagesNat
<1>3. messages \in Seq(Nat) /\ outbox \in Seq(Nat) /\ received \in Seq(Nat)
  BY MessagesNat DEF TypeOK
<1>4. MessagesOf(wire) \o outbox \in Seq(Nat)
  BY <1>2, <1>3
<1>5. QED
  BY <1>1, <1>2, <1>3, <1>4 DEF Pending

StreamStep == PendingInv' /\ [Promise!Next]_(Promise!vars)

LEMMA Same ==
    ASSUME PendingInv, Pending' = Pending, UNCHANGED <<sent, lost, received>>
    PROVE  StreamStep
  BY DEF StreamStep, PendingInv, Promise!LastReceived, Promise!vars

LEMMA More ==
    ASSUME TypeOK, PendingInv, Pending' = Append(Pending, sent + 1),
           sent' = sent + 1, UNCHANGED <<lost, received>>
    PROVE  StreamStep
<1>1. Pending \in Seq(Nat) /\ sent \in Nat
  BY PendingType
<1>2. UNCHANGED Promise!LastReceived
  BY DEF Promise!LastReceived
<1>3. Remains(Append(Pending, sent + 1), Promise!LastReceived, sent + 1, lost)
  BY <1>1, RemainsMore DEF PendingInv
<1>4. PendingInv'
  BY <1>2, <1>3 DEF PendingInv
<1>5. QED
  BY <1>4 DEF StreamStep, Promise!Next, Promise!Send

LEMMA Taken ==
    ASSUME TypeOK, PendingInv, NEW m \in Nat, Pending' \in Seq(Nat),
           Pending = <<m>> \o Pending',
           received' = Append(received, m), UNCHANGED <<sent, lost>>
    PROVE  StreamStep
<1> DEFINE last == Promise!LastReceived
           left == {x \in (last + 1)..sent : x \notin lost}
<1>1. sent \in Nat /\ received \in Seq(Nat)
  BY PendingType
<1>2. Remains(<<m>> \o Pending', last, sent, lost)
  BY DEF PendingInv
<1>3. m \in left /\ (\A x \in left : m <= x) /\ Remains(Pending', m, sent, lost)
  <2> HIDE DEF last
  <2> QED
    BY <1>1, <1>2, RemainsTaken
<1>4. Promise!LastReceived' = m
  <2>1. received' # <<>> /\ received'[Len(received')] = m
    BY <1>1, AppendProperties
  <2>2. QED
    BY <2>1 DEF Promise!LastReceived
<1>5. PendingInv'
  BY <1>3, <1>4 DEF PendingInv
<1>6. left \subseteq Nat
  BY <1>1, <1>2 DEF Remains
<1>7. Promise!Min(left) = m
  <2> HIDE DEF left
  <2>1. \A x \in left : (\A y \in left : x <= y) => x = m
    BY <1>3, <1>6
  <2> QED
    BY <1>3, <2>1 DEF Promise!Min
<1>8. Promise!Recv
  BY <1>3, <1>7 DEF Promise!Recv
<1>9. QED
  BY <1>5, <1>8 DEF StreamStep, Promise!Next

LEMMA Dropped ==
    ASSUME TypeOK, PendingInv, NEW s \in Seq(Nat), NEW t \in Seq(Nat), NEW u \in Seq(Nat),
           Pending = s \o (t \o u), Pending' = s \o u,
           lost' = lost \cup ToSet(t), UNCHANGED <<sent, received>>
    PROVE  StreamStep
<1> DEFINE last == Promise!LastReceived
<1>1. sent \in Nat
  BY PendingType
<1>2. /\ ToSet(t) \in SUBSET ((last + 1)..sent)
      /\ Remains(s \o u, last, sent, lost \cup ToSet(t))
  <2>1. Remains(s \o (t \o u), last, sent, lost)
    BY DEF PendingInv
  <2> HIDE DEF last
  <2> QED
    BY <1>1, <2>1, RemainsLost
<1>3. UNCHANGED Promise!LastReceived
  BY DEF Promise!LastReceived
<1>4. PendingInv'
  BY <1>2, <1>3 DEF PendingInv
<1>5. Promise!Lose
  BY <1>2 DEF Promise!Lose
<1>6. QED
  BY <1>4, <1>5 DEF StreamStep, Promise!Next

-----------------------------------------------------------------------------
(* The steps. *)

LEMMA Associative ==
    ASSUME NEW s \in Seq(Nat), NEW t \in Seq(Nat), NEW u \in Seq(Nat)
    PROVE  (s \o t) \o u = s \o (t \o u)
  BY ConcatAssociative

LEMMA HeadAndTail ==
    ASSUME NEW s \in Seq(Nat), s # <<>>
    PROVE  Head(s) \in Nat /\ Tail(s) \in Seq(Nat) /\ s = <<Head(s)>> \o Tail(s)
  OBVIOUS

(* A frame takes messages from the front of the outbox. *)
LEMMA PutKeepsPending ==
    ASSUME TypeOK, TypeOK', NEW f \in Frames, wire' = Append(wire, f),
           Len(wire) \in 0..1, f.messages \o outbox' = outbox, UNCHANGED messages
    PROVE  Pending' = Pending
<1>1. /\ wire \in Seq(Frames) /\ f.messages \in Seq(Nat) /\ MessagesOf(wire) \in Seq(Nat)
      /\ outbox' \in Seq(Nat)
  BY PendingType, MessagesNat DEF TypeOK, Frames
<1>2. MessagesOf(wire)' = MessagesOf(wire) \o f.messages
  <2>1. MessagesOf(Append(wire, f)) = MessagesOf(wire) \o f.messages
    BY <1>1, MessagesOfAppend
  <2>2. MessagesOf(wire)' = MessagesOf(Append(wire, f))
    BY DEF MessagesOf, MessagesAt
  <2>3. QED
    BY <2>1, <2>2
<1>3. MessagesOf(wire)' \o outbox' = MessagesOf(wire) \o outbox
  <2>1. (MessagesOf(wire) \o f.messages) \o outbox' = MessagesOf(wire) \o (f.messages \o outbox')
    BY <1>1, Associative
  <2>2. QED
    BY <1>2, <2>1
<1>4. QED
  BY <1>3 DEF Pending

(* A frame that arrives had its messages at the front of the wire. *)
LEMMA ArrivedPending ==
    ASSUME TypeOK, TypeOK', WireInv, NEW types, Arrived(types), UNCHANGED outbox
    PROVE  LET h == Head(wire).messages
               rest == MessagesOf(wire)' \o outbox'
           IN  /\ h \in Seq(Nat) /\ rest \in Seq(Nat)
               /\ Pending = messages \o (h \o rest)
<1> DEFINE h == Head(wire).messages
           rest == MessagesOf(wire)' \o outbox'
<1>1. /\ wire \in Seq(Frames) /\ wire # <<>> /\ wire' = Tail(wire) /\ h \in Seq(Nat)
      /\ Len(wire) \in 0..2
  BY ArrivedType, MessagesNat DEF TypeOK, Frames, WireInv
<1>2. MessagesOf(wire)' \in Seq(Nat) /\ outbox' \in Seq(Nat) /\ rest \in Seq(Nat)
  <2>1. wire' \in Seq(Frames) /\ outbox' \in Seq(Nat)
    BY ArrivedType, MessagesNat DEF TypeOK
  <2>2. MessagesOf(wire') \in Seq(Nat) /\ MessagesOf(wire)' = MessagesOf(wire')
    BY <2>1, MessagesOfType, MessagesNat DEF MessagesOf, MessagesAt
  <2>3. QED
    BY <2>1, <2>2
<1>3. MessagesOf(wire) = h \o MessagesOf(wire)'
  <2>1. MessagesOf(wire) = h \o MessagesOf(Tail(wire))
    BY <1>1, MessagesOfTail
  <2>2. MessagesOf(wire)' = MessagesOf(Tail(wire))
    BY <1>1 DEF MessagesOf, MessagesAt
  <2>3. QED
    BY <2>1, <2>2
<1>4. MessagesOf(wire) \o outbox = h \o rest
  <2>1. (h \o MessagesOf(wire)') \o outbox' = h \o rest
    BY <1>1, <1>2, Associative
  <2>2. QED
    BY <1>3, <2>1
<1>5. QED
  BY <1>1, <1>2, <1>4 DEF Pending

LEMMA StreamPeer ==
    ASSUME TypeOK, TypeOK', WireInv, PendingInv,
           \/ Produce \/ WriteMessages \/ Reopen \/ SlowBody
           \/ \E t \in FrameTypes : WriteOther(t)
    PROVE  StreamStep
<1>0. /\ <<>> \in Seq(Messages) /\ outbox \in Seq(Messages) /\ outbox \in Seq(Nat)
      /\ MessagesOf(wire) \in Seq(Nat) /\ messages \in Seq(Nat) /\ sent \in Nat
      /\ Pending \in Seq(Nat)
  BY PendingType DEF TypeOK
<1>1. CASE Produce
  <2>1. /\ sent' = sent + 1 /\ outbox' = Append(outbox, sent + 1)
        /\ UNCHANGED <<wire, messages, lost, received>>
    BY <1>1 DEF Produce, recvVars
  <2>2. Pending' = messages \o (MessagesOf(wire) \o Append(outbox, sent + 1))
    BY <2>1 DEF Pending, MessagesOf, MessagesAt
  <2>3. /\ <<sent + 1>> \in Seq(Nat) /\ Append(outbox, sent + 1) = outbox \o <<sent + 1>>
        /\ Append(Pending, sent + 1) = Pending \o <<sent + 1>>
    <3>1. sent + 1 \in Nat /\ <<sent + 1>> \in Seq(Nat)
      BY <1>0
    <3>2. \A t \in Seq(Nat) : Append(t, sent + 1) = t \o <<sent + 1>>
      BY <3>1, AppendIsConcat
    <3>3. QED
      BY <1>0, <3>1, <3>2
  <2>4. Pending \o <<sent + 1>> = messages \o ((MessagesOf(wire) \o outbox) \o <<sent + 1>>)
    <3>1. MessagesOf(wire) \o outbox \in Seq(Nat)
      BY <1>0
    <3>2. (messages \o (MessagesOf(wire) \o outbox)) \o <<sent + 1>>
            = messages \o ((MessagesOf(wire) \o outbox) \o <<sent + 1>>)
      BY <1>0, <2>3, <3>1, Associative
    <3>3. QED
      BY <3>2 DEF Pending
  <2>5. (MessagesOf(wire) \o outbox) \o <<sent + 1>> = MessagesOf(wire) \o (outbox \o <<sent + 1>>)
    BY <1>0, <2>3, Associative
  <2>6. Pending' = Append(Pending, sent + 1)
    BY <2>2, <2>3, <2>4, <2>5
  <2>7. QED
    BY <2>1, <2>6, More
<1>2. CASE WriteMessages
  <2>1. CanWrite /\ outbox # <<>> /\ UNCHANGED <<transport, messages, sent, lost, received>>
    BY <1>2 DEF WriteMessages, recvVars
  <2>2. <<Head(outbox)>> \in Seq(Messages) /\ <<Head(outbox)>> \o Tail(outbox) = outbox
    BY <1>0, <2>1, HeadAndTail
  <2>3. /\ Frame("a", outbox) \in Frames /\ Frame("m", <<Head(outbox)>>) \in Frames
    BY <1>0, <2>2, FrameType DEF FrameTypes
  <2>4. CASE wire' = Append(wire, Frame("a", outbox)) /\ outbox' = <<>>
    <3>1. Len(wire) \in 0..1
      BY <2>1, <2>3, <2>4, PutKeepsWire DEF Frame
    <3>2. Frame("a", outbox).messages \o outbox' = outbox
      BY <1>0, <2>4, ConcatEmpty DEF Frame
    <3>3. QED
      BY <2>1, <2>3, <2>4, <3>1, <3>2, PutKeepsPending, Same
  <2>5. CASE wire' = Append(wire, Frame("m", <<Head(outbox)>>)) /\ outbox' = Tail(outbox)
    <3>1. Len(wire) \in 0..1
      BY <2>1, <2>3, <2>5, PutKeepsWire DEF Frame
    <3>2. Frame("m", <<Head(outbox)>>).messages \o outbox' = outbox
      BY <2>2, <2>5 DEF Frame
    <3>3. QED
      BY <2>1, <2>3, <2>5, <3>1, <3>2, PutKeepsPending, Same
  <2>6. QED
    BY <1>2, <2>4, <2>5 DEF WriteMessages
<1>3. CASE SlowBody
  <2>1. /\ CanWrite /\ UNCHANGED <<transport, messages, sent, lost, received>>
        /\ wire' = Append(wire, Frame("timeout", outbox)) /\ outbox' = <<>>
    BY <1>3 DEF SlowBody, recvVars
  <2>2. Frame("timeout", outbox) \in Frames
    BY <1>0, FrameType DEF FrameTypes
  <2>3. Len(wire) \in 0..1
    BY <2>1, <2>2, PutKeepsWire DEF Frame
  <2>4. Frame("timeout", outbox).messages \o outbox' = outbox
    BY <1>0, <2>1, ConcatEmpty DEF Frame
  <2>5. QED
    BY <2>1, <2>2, <2>3, <2>4, PutKeepsPending, Same
<1>4. ASSUME NEW t \in FrameTypes, WriteOther(t) PROVE StreamStep
  <2>1. /\ CanWrite /\ UNCHANGED <<transport, outbox, messages, sent, lost, received>>
        /\ wire' = Append(wire, Frame(t, <<>>)) /\ t \notin {"a", "m"}
    BY <1>4 DEF WriteOther, recvVars
  <2>2. Frame(t, <<>>) \in Frames
    BY <1>0, FrameType
  <2>3. Len(wire) \in 0..1
    BY <2>1, <2>2, PutKeepsWire DEF Frame
  <2>4. Frame(t, <<>>).messages \o outbox' = outbox
    BY <1>0, <2>1, ConcatEmpty DEF Frame
  <2>5. QED
    BY <2>1, <2>2, <2>3, <2>4, PutKeepsPending, Same
<1>5. CASE Reopen
  <2>1. /\ CanWrite /\ UNCHANGED <<transport, messages, sent, received>>
        /\ wire' = Append(wire, Frame("o", <<>>)) /\ outbox' = <<>>
        /\ lost' = lost \cup ToSet(outbox)
    BY <1>5 DEF Reopen, recvVars
  <2>2. Frame("o", <<>>) \in Frames /\ wire \in Seq(Frames)
    BY <1>0, FrameType DEF FrameTypes, TypeOK, Frames
  <2>3. Len(wire) \in 0..1
    BY <2>1, <2>2, PutKeepsWire DEF Frame
  <2>4. MessagesOf(Append(wire, Frame("o", <<>>))) = MessagesOf(wire) \o <<>>
    BY <2>2, <2>3, MessagesOfAppend DEF Frame
  <2>5. MessagesOf(wire)' = MessagesOf(wire) \o <<>>
    BY <2>1, <2>4 DEF MessagesOf, MessagesAt
  <2>6. MessagesOf(wire) \o <<>> = MessagesOf(wire) /\ outbox \o <<>> = outbox
    BY <1>0, ConcatEmptySeq
  <2>7. Pending' = messages \o MessagesOf(wire)
    BY <2>1, <2>5, <2>6 DEF Pending
  <2>8. /\ messages \o MessagesOf(wire) \in Seq(Nat) /\ <<>> \in Seq(Nat)
        /\ Pending' = (messages \o MessagesOf(wire)) \o <<>>
    BY <1>0, <2>7, ConcatEmptySeq
  <2>9. Pending = (messages \o MessagesOf(wire)) \o (outbox \o <<>>)
    <3>1. (messages \o MessagesOf(wire)) \o outbox = messages \o (MessagesOf(wire) \o outbox)
      BY <1>0, Associative
    <3>2. QED
      BY <2>6, <3>1 DEF Pending
  <2>10. QED
    BY <1>0, <2>1, <2>8, <2>9, Dropped
<1>6. QED
  BY <1>1, <1>2, <1>3, <1>4, <1>5

LEMMA StreamTakes ==
    ASSUME TypeOK, TypeOK', PendingInv, NEW b \in Seq(Nat), b # <<>>, NEW rest \in Seq(Nat),
           Pending = b \o rest, ReturnFirst(b), UNCHANGED <<sent, lost>>,
           MessagesOf(wire)' \o outbox' = rest
    PROVE  StreamStep
<1>1. Head(b) \in Nat /\ Tail(b) \in Seq(Nat) /\ b = <<Head(b)>> \o Tail(b)
  BY HeadAndTail
<1>2. Pending' = Tail(b) \o rest
  BY DEF ReturnFirst, Pending
<1>3. <<Head(b)>> \in Seq(Nat) /\ Tail(b) \o rest \in Seq(Nat)
  BY <1>1
<1>4. (<<Head(b)>> \o Tail(b)) \o rest = <<Head(b)>> \o (Tail(b) \o rest)
  BY <1>1, <1>3, Associative
<1>5. Pending = <<Head(b)>> \o Pending' /\ Pending' \in Seq(Nat)
  BY <1>1, <1>2, <1>3, <1>4
<1>6. received' = Append(received, Head(b))
  BY DEF ReturnFirst
<1>7. QED
  BY <1>1, <1>5, <1>6, Taken

LEMMA StreamRecv ==
    ASSUME TypeOK, TypeOK', WireInv, PendingInv, Recv \/ RecvAborted
    PROVE  StreamStep
<1> DEFINE h == Head(wire).messages
           rest == MessagesOf(wire)' \o outbox'
<1>0. messages \in Seq(Nat) /\ MessagesOf(wire) \in Seq(Nat) /\ outbox \in Seq(Nat)
  BY PendingType
<1>1. CASE RecvBuffered
  <2>1. /\ messages # <<>> /\ ReturnFirst(messages)
        /\ UNCHANGED <<sent, lost, outbox, wire>>
    BY <1>1 DEF RecvBuffered, peerVars
  <2>2. rest = MessagesOf(wire) \o outbox
    BY <2>1 DEF MessagesOf, MessagesAt
  <2>3. rest \in Seq(Nat) /\ Pending = messages \o rest
    BY <1>0, <2>2 DEF Pending
  <2>4. QED
    BY <1>0, <2>1, <2>3, StreamTakes
<1>2. CASE UNCHANGED <<sent, lost, outbox, wire, messages, received>>
  <2>1. Pending' = Pending
    BY <1>2 DEF Pending, MessagesOf, MessagesAt
  <2>2. QED
    BY <1>2, <2>1, Same
<1>3. CASE RecvClosed \/ RecvWaits \/ RecvResponse \/ ReadFails \/ RecvAborted
  BY <1>2, <1>3 DEF RecvClosed, RecvWaits, RecvResponse, ReadFails, RecvAborted, peerVars
<1>4. CASE RecvMessages
  <2>1. /\ Arrived({"a", "m"}) /\ ReturnFirst(messages \o h)
        /\ UNCHANGED <<sent, lost, outbox>>
    BY <1>4 DEF RecvMessages
  <2>2. h \in Seq(Nat) /\ rest \in Seq(Nat) /\ Pending = messages \o (h \o rest)
    BY <2>1, ArrivedPending
  <2>3. h # <<>>
    BY <2>1, ArrivedType, FirstFrame
  <2>4. messages \o h \in Seq(Nat) /\ messages \o h # <<>>
    BY <1>0, <2>2, <2>3
  <2>5. Pending = (messages \o h) \o rest
    BY <1>0, <2>2, Associative
  <2>6. QED
    BY <2>1, <2>2, <2>4, <2>5, StreamTakes
<1>5. CASE RecvAgain
  <2>1. /\ Arrived({"o", "h", "timeout"}) /\ lost' = lost \cup ToSet(h)
        /\ UNCHANGED <<sent, outbox, messages, received>>
    BY <1>5 DEF RecvAgain
  <2>2. h \in Seq(Nat) /\ rest \in Seq(Nat) /\ Pending = messages \o (h \o rest)
    BY <2>1, ArrivedPending
  <2>3. Pending' = messages \o rest
    BY <2>1 DEF Pending
  <2>4. QED
    BY <1>0, <2>1, <2>2, <2>3, Dropped
<1>6. ASSUME NEW types, Arrived(types), types \cap {"a", "m", "timeout"} = {},
             UNCHANGED <<sent, lost, outbox, messages, received>>
      PROVE  StreamStep
  <2>1. h \in Seq(Nat) /\ rest \in Seq(Nat) /\ Pending = messages \o (h \o rest)
    BY <1>6, ArrivedPending
  <2>2. h = <<>>
    BY <1>6, ArrivedType, FirstFrame
  <2>3. <<>> \o rest = rest
    BY <2>1, ConcatEmptySeq
  <2>4. Pending' = Pending
    BY <1>6, <2>1, <2>2, <2>3 DEF Pending
  <2>5. QED
    BY <1>6, <2>4, Same
<1>7. CASE RecvCloseFrame
  BY <1>6, <1>7 DEF RecvCloseFrame
<1>8. CASE RecvNotFound
  BY <1>6, <1>8 DEF RecvNotFound
<1>9. CASE RecvInvalid
  BY <1>6, <1>9 DEF RecvInvalid
<1>10. QED
  BY <1>1, <1>3, <1>4, <1>5, <1>7, <1>8, <1>9 DEF Recv

-----------------------------------------------------------------------------
Inv == TypeOK /\ WireInv /\ PendingInv

LEMMA InitInv == Init => Inv /\ Promise!Init
<1> SUFFICES ASSUME Init PROVE Inv /\ Promise!Init
  OBVIOUS
<1>1. TypeOK
  BY TypeInit
<1>2. WireInv /\ MessagesOf(wire) = <<>>
  <2>1. CASE transport = "xhr"
    <3>1. wire = <<>>
      BY <2>1 DEF Init
    <3>2. QED
      BY <2>1, <3>1 DEF WireInv, MessagesOf, MessagesAt
  <2>2. CASE transport # "xhr"
    <3>1. /\ wire = <<Frame("o", <<>>)>> /\ Len(wire) = 1 /\ wire[1] = Frame("o", <<>>)
      BY <2>2 DEF Init
    <3>2. wire[1].type = "o" /\ wire[1].messages = <<>>
      BY <3>1 DEF Frame
    <3>3. WireInv
      BY <2>2, <3>1, <3>2 DEF WireInv
    <3>4. MessagesAt(wire, 1) = <<>> /\ MessagesAt(wire, 2) = <<>>
      BY <3>1, <3>2 DEF MessagesAt
    <3>5. QED
      BY <3>3, <3>4 DEF MessagesOf
  <2>3. QED
    BY <2>1, <2>2
<1>3. Pending = <<>>
  BY <1>2 DEF Init, Pending
<1>4. PendingInv
  <2>1. Promise!LastReceived = 0 /\ sent = 0 /\ lost = {}
    BY DEF Init, Promise!LastReceived
  <2>2. Increasing(<<>>) /\ ToSet(<<>>) = {}
    BY ToSetSmall DEF Increasing
  <2>3. Remains(<<>>, 0, 0, {})
    BY <2>2 DEF Remains
  <2>4. QED
    BY <1>3, <2>1, <2>3 DEF PendingInv
<1>5. Promise!Init
  BY DEF Init, Promise!Init
<1>6. QED
  BY <1>1, <1>2, <1>4, <1>5 DEF Inv

LEMMA Step == Inv /\ [Next]_vars => Inv' /\ [Promise!Next]_(Promise!vars)
<1> SUFFICES ASSUME Inv, [Next]_vars PROVE Inv' /\ [Promise!Next]_(Promise!vars)
  OBVIOUS
<1>1. TypeOK' /\ WireInv'
  BY TypeStep, WireStep DEF Inv
<1>2. CASE UNCHANGED <<sent, lost, outbox, wire, messages, received>>
  <2>1. Pending' = Pending
    BY <1>2 DEF Pending, MessagesOf, MessagesAt
  <2>2. QED
    BY <1>1, <1>2, <2>1, Same DEF Inv, StreamStep
<1>3. CASE SendPosts \/ SendDone \/ SendNotFound \/ Close \/ UNCHANGED vars
  BY <1>2, <1>3 DEF SendPosts, SendDone, SendNotFound, Close, vars, peerVars, recvVars
<1>4. CASE Recv \/ RecvAborted
  BY <1>1, <1>4, StreamRecv DEF Inv, StreamStep
<1>5. CASE \/ Produce \/ WriteMessages \/ Reopen \/ SlowBody
           \/ \E t \in FrameTypes : WriteOther(t)
  BY <1>1, <1>5, StreamPeer DEF Inv, StreamStep
<1>6. QED
  BY <1>3, <1>4, <1>5 DEF Next

(* The variables of Session keep their types: no frame that Recv opens for *)
(* its first message is empty.                                             *)
THEOREM TypeCorrect == Spec => []TypeOK
<1>1. Inv => TypeOK
  BY DEF Inv
<1>2. QED
  BY <1>1, InitInv, Step, PTL DEF Spec

(* Over either transport and for any number of messages, a session that is *)
(* polled, times out, is reopened, aborted or closed at any moment returns *)
(* from Recv what the peer sent, in order and at most once, and passes     *)
(* over a message only when a response it gave up on, or a session the     *)
(* server dropped, took it along.                                          *)
THEOREM SessionImplementsStream == Spec => ImplementsStream
<1>1. Spec => [][Promise!Next]_(Promise!vars)
  BY InitInv, Step, PTL DEF Spec
<1>2. QED
  BY <1>1, InitInv, PTL DEF Spec, ImplementsStream, Promise!Spec

-----------------------------------------------------------------------------
(* What Close leaves to the reader until it has failed: the token in       *)
(* x.abort, or the connection that is closed.  The state alone would not   *)
(* do, as the open frame of a reopened session resets it.                  *)
CloseKept ==
    called /\ reader # "failed" =>
        IF transport = "xhr" THEN abort = 1 ELSE closed = TRUE

LEMMA KeptStep == CloseKept /\ [Next]_vars => CloseKept'
<1> SUFFICES ASSUME CloseKept, [Next]_vars PROVE CloseKept'
  OBVIOUS
<1> USE DEF CloseKept, recvVars, closeVars, ReturnFirst
<1>1. CASE Produce \/ WriteMessages \/ Reopen \/ SlowBody \/ UNCHANGED vars
  BY <1>1 DEF Produce, WriteMessages, Reopen, SlowBody, vars
<1>2. CASE \E t \in FrameTypes : WriteOther(t)
  BY <1>2 DEF WriteOther
<1>3. CASE RecvBuffered \/ RecvClosed \/ RecvWaits \/ RecvResponse \/ ReadFails \/ RecvAborted
  BY <1>3 DEF RecvBuffered, RecvClosed, RecvWaits, RecvResponse, ReadFails, RecvAborted
<1>4. CASE RecvMessages \/ RecvAgain \/ RecvCloseFrame \/ RecvNotFound \/ RecvInvalid
  BY <1>4 DEF RecvMessages, RecvAgain, RecvCloseFrame, RecvNotFound, RecvInvalid, Arrived
<1>5. CASE SendPosts \/ SendDone \/ SendNotFound
  BY <1>5 DEF SendPosts, SendDone, SendNotFound
<1>6. CASE Close
  BY <1>6 DEF Close, CloseXHR
<1>7. QED
  BY <1>1, <1>2, <1>3, <1>4, <1>5, <1>6 DEF Next, Recv

(* Until its reader has failed, a session that Close was called on has     *)
(* what ends the reader at its next select or read (xhr.go:128 and 296-303,*)
(* sockjsclient.go): no poll in flight, reopened session, 404 or earlier   *)
(* abort uses it up.  CloseEndsReader adds the fairness of the reader, and *)
(* that the reader gets back to its select.                                *)
THEOREM CloseNeverLost == Spec => []CloseKept
<1>1. Init => CloseKept
  BY DEF Init, CloseKept
<1>2. QED
  BY <1>1, KeptStep, PTL DEF Spec
=============================================================================
