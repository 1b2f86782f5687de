--------------------------- MODULE SemaphoreProofs ---------------------------
(***************************************************************************)
(* The safety of the upstream gate, for every set of calls and every       *)
(* limit.                                                                  *)
(*                                                                         *)
(* None of the three invariants is inductive by itself: that a handed-over *)
(* slot leaves the number of holders alone needs the first in line to be   *)
(* no holder yet, and that needs each line to hold only waiting calls,     *)
(* each once.  IInv adds what the two lines hold.                          *)
(***************************************************************************)
EXTENDS Semaphore, FiniteSetTheorems, SequenceTheorems, TLAPS

(* A line holds each of its calls once; all of them wait, with its         *)
(* priority.                                                               *)
LineOf(q, isLow) ==
  /\ \A i \in 1..Len(q) : pc[q[i]] = "waiting" /\ low[q[i]] = isLow
  /\ \A i, j \in 1..Len(q) : q[i] = q[j] => i = j

(* Every waiting call stands in the line of its priority. *)
WaitersQueue ==
  \A c \in Calls : pc[c] = "waiting" =>
    IF low[c] THEN \E i \in 1..Len(lowQ) : lowQ[i] = c
              ELSE \E i \in 1..Len(highQ) : highQ[i] = c

Counted ==
  /\ IsFiniteSet(Holding)
  /\ active = Cardinality(Holding)
  /\ active <= Limit

IInv ==
  /\ TypeOK
  /\ Counted
  /\ NoIdleSlotWhileWaiting
  /\ LineOf(highQ, FALSE)
  /\ LineOf(lowQ, TRUE)
  /\ WaitersQueue

-----------------------------------------------------------------------------
(* The first of a line, and the line without it. *)
LEMMA FirstInLine ==
  ASSUME NEW q \in Seq(Calls), q # <<>>
  PROVE  /\ Head(q) = q[1]
         /\ Head(q) \in Calls
         /\ Len(q) \in Nat \ {0}
         /\ Tail(q) \in Seq(Calls)
         /\ Len(Tail(q)) = Len(q) - 1
         /\ \A i \in 1..Len(Tail(q)) : Tail(q)[i] = q[i + 1]
  BY HeadTailProperties, EmptySeq

(* A call joining a line stands behind everybody in it. *)
LEMMA LastInLine ==
  ASSUME NEW q \in Seq(Calls), NEW c \in Calls
  PROVE  /\ Append(q, c) \in Seq(Calls)
         /\ Len(q) \in Nat
         /\ Len(Append(q, c)) = Len(q) + 1
         /\ \A i \in 1..Len(q) : Append(q, c)[i] = q[i]
         /\ Append(q, c)[Len(q) + 1] = c
  BY AppendProperties

(* At first nobody holds a slot and nobody waits. *)
LEMMA InitIInv == Init => IInv
  <1>. SUFFICES ASSUME Init PROVE IInv
    OBVIOUS
  <1>1. TypeOK
    BY DEF Init, TypeOK
  <1>2. Holding = {}
    BY DEF Init, Holding
  <1>3. Counted
    BY <1>2, FS_EmptySet, LimitAssumption DEF Init, Counted
  <1>4. NoIdleSlotWhileWaiting
    BY DEF Init, NoIdleSlotWhileWaiting
  <1>5. LineOf(highQ, FALSE) /\ LineOf(lowQ, TRUE)
    BY DEF Init, LineOf
  <1>6. WaitersQueue
    BY DEF Init, WaitersQueue
  <1>. QED
    BY <1>1, <1>3, <1>4, <1>5, <1>6 DEF IInv

(* run() with a free slot: one more holder, and it is a new one. *)
LEMMA EnterKeepsIInv ==
  ASSUME IInv, NEW c \in Calls, NEW isLow \in BOOLEAN, Enter(c, isLow)
  PROVE  IInv'
  <1>. USE DEF IInv
  <1>1. TypeOK'
    BY DEF TypeOK, Enter
  <1>2. Holding' = Holding \cup {c} /\ c \notin Holding
    BY DEF TypeOK, Enter, Holding
  <1>3. Counted'
    BY <1>2, FS_AddElement, LimitAssumption DEF Counted, Enter, TypeOK
  <1>4. highQ = <<>> /\ lowQ = <<>>
    BY LimitAssumption DEF NoIdleSlotWhileWaiting, Enter, TypeOK
  <1>5. NoIdleSlotWhileWaiting' /\ LineOf(highQ, FALSE)' /\ LineOf(lowQ, TRUE)'
    BY <1>4 DEF NoIdleSlotWhileWaiting, LineOf, Enter
  <1>6. WaitersQueue'
    BY DEF WaitersQueue, Enter, TypeOK
  <1>. QED
    BY <1>1, <1>3, <1>5, <1>6

(* run() with every slot taken: one more in one of the lines. *)
LEMMA EnqueueKeepsIInv ==
  ASSUME IInv, NEW c \in Calls, NEW isLow \in BOOLEAN, Enqueue(c, isLow)
  PROVE  IInv'
  <1>. USE DEF IInv
  <1>1. TypeOK'
    BY LastInLine DEF TypeOK, Enqueue
  <1>2. Holding' = Holding
    BY DEF TypeOK, Enqueue, Holding
  <1>3. Counted'
    BY <1>2 DEF Counted, Enqueue
  <1>4. NoIdleSlotWhileWaiting'
    BY LimitAssumption DEF NoIdleSlotWhileWaiting, Enqueue, Counted, TypeOK
  <1>5. LineOf(highQ, FALSE)'
    BY LastInLine DEF LineOf, Enqueue, TypeOK
  <1>6. LineOf(lowQ, TRUE)'
    BY LastInLine DEF LineOf, Enqueue, TypeOK
  <1>7. WaitersQueue'
    <2>. SUFFICES ASSUME NEW d \in Calls, pc'[d] = "waiting"
                  PROVE  IF low'[d] THEN \E i \in 1..Len(lowQ') : lowQ'[i] = d
                                    ELSE \E i \in 1..Len(highQ') : highQ'[i] = d
      BY DEF WaitersQueue
    <2>1. CASE d = c
      BY <2>1, LastInLine DEF Enqueue, TypeOK
    <2>2. CASE d # c
      BY <2>2, LastInLine DEF Enqueue, TypeOK, WaitersQueue
    <2>. QED
      BY <2>1, <2>2
  <1>. QED
    BY <1>1, <1>3, <1>4, <1>5, <1>6, <1>7

(* The started body changes nothing that is counted. *)
LEMMA ResumeKeepsIInv ==
  ASSUME IInv, NEW c \in Calls, Resume(c)
  PROVE  IInv'
  <1>. USE DEF IInv
  <1>1. TypeOK'
    BY DEF TypeOK, Resume
  <1>2. Holding' = Holding
    BY DEF TypeOK, Resume, Holding
  <1>3. Counted' /\ NoIdleSlotWhileWaiting'
    BY <1>2 DEF Counted, NoIdleSlotWhileWaiting, Resume
  <1>4. LineOf(highQ, FALSE)' /\ LineOf(lowQ, TRUE)'
    BY DEF LineOf, Resume, TypeOK
  <1>5. WaitersQueue'
    BY DEF WaitersQueue, Resume, TypeOK
  <1>. QED
    BY <1>1, <1>3, <1>4, <1>5

(* A slot changes hands: one holder leaves, one that held nothing enters. *)
LEMMA HandOver ==
  ASSUME TypeOK, Counted,
         NEW c \in Calls, NEW d \in Calls, pc[c] = "running", pc[d] = "waiting",
         pc' = [pc EXCEPT ![c] = "idle", ![d] = "granted"], active' = active
  PROVE  Counted'
  <1>1. Holding' = (Holding \ {c}) \cup {d}
    BY DEF TypeOK, Holding
  <1>2. c \in Holding /\ d \notin Holding \ {c}
    BY DEF Holding
  <1>. DEFINE rest == Holding \ {c}
  <1>3. IsFiniteSet(rest) /\ Cardinality(rest) = Cardinality(Holding) - 1
    BY <1>2, FS_RemoveElement DEF Counted
  <1>4. IsFiniteSet(rest \cup {d}) /\ Cardinality(rest \cup {d}) = Cardinality(rest) + 1
    BY <1>2, <1>3, FS_AddElement
  <1>5. Cardinality(Holding) \in Nat
    BY FS_CardinalityType DEF Counted
  <1>. QED
    BY <1>1, <1>3, <1>4, <1>5 DEF Counted

(* The first of the interactive line takes the slot over. *)
LEMMA HandToHighKeepsIInv ==
  ASSUME IInv, NEW c \in Calls, HandToHigh(c)
  PROVE  IInv'
  <1>. USE DEF IInv
  <1>. DEFINE d == Head(highQ)
  <1>1. highQ \in Seq(Calls) /\ highQ # <<>>
    BY DEF TypeOK, HandToHigh
  <1>2. d \in Calls /\ pc[d] = "waiting" /\ ~low[d] /\ d = highQ[1]
    BY <1>1, FirstInLine DEF LineOf
  <1>3. TypeOK'
    BY <1>1, <1>2, FirstInLine DEF TypeOK, HandToHigh
  <1>4. Counted'
    BY <1>2, HandOver DEF HandToHigh
  <1>5. NoIdleSlotWhileWaiting'
    BY <1>1 DEF NoIdleSlotWhileWaiting, HandToHigh
  <1>6. LineOf(highQ, FALSE)'
    BY <1>1, <1>2, FirstInLine DEF LineOf, HandToHigh, TypeOK
  <1>7. LineOf(lowQ, TRUE)'
    BY <1>2 DEF LineOf, HandToHigh, TypeOK
  <1>8. WaitersQueue'
    <2>. SUFFICES ASSUME NEW e \in Calls, pc'[e] = "waiting"
                  PROVE  IF low'[e] THEN \E i \in 1..Len(lowQ') : lowQ'[i] = e
                                    ELSE \E i \in 1..Len(highQ') : highQ'[i] = e
      BY DEF WaitersQueue
    <2>1. e # d /\ pc[e] = "waiting" /\ low' = low /\ lowQ' = lowQ /\ highQ' = Tail(highQ)
      BY <1>2 DEF HandToHigh, TypeOK
    <2>2. CASE low[e]
      BY <2>1, <2>2 DEF WaitersQueue
    <2>3. CASE ~low[e]
      <3>1. PICK i \in 1..Len(highQ) : highQ[i] = e
        BY <2>1, <2>3 DEF WaitersQueue
      <3>2. i - 1 \in 1..Len(Tail(highQ)) /\ Tail(highQ)[i - 1] = e
        BY <3>1, <2>1, <1>1, <1>2, FirstInLine
      <3>. QED
        BY <3>2, <2>1, <2>3
    <2>. QED
      BY <2>2, <2>3
  <1>. QED
    BY <1>3, <1>4, <1>5, <1>6, <1>7, <1>8

(* The same in the background line, nobody interactive waiting. *)
LEMMA HandToLowKeepsIInv ==
  ASSUME IInv, NEW c \in Calls, HandToLow(c)
  PROVE  IInv'
  <1>. USE DEF IInv
  <1>. DEFINE d == Head(lowQ)
  <1>1. lowQ \in Seq(Calls) /\ lowQ # <<>>
    BY DEF TypeOK, HandToLow
  <1>2. d \in Calls /\ pc[d] = "waiting" /\ low[d] /\ d = lowQ[1]
    BY <1>1, FirstInLine DEF LineOf
  <1>3. TypeOK'
    BY <1>1, <1>2, FirstInLine DEF TypeOK, HandToLow
  <1>4. Counted'
    BY <1>2, HandOver DEF HandToLow
  <1>5. NoIdleSlotWhileWaiting'
    BY <1>1 DEF NoIdleSlotWhileWaiting, HandToLow
  <1>6. LineOf(lowQ, TRUE)'
    BY <1>1, <1>2, FirstInLine DEF LineOf, HandToLow, TypeOK
  <1>7. LineOf(highQ, FALSE)'
    BY <1>2 DEF LineOf, HandToLow, TypeOK
  <1>8. WaitersQueue'
    <2>. SUFFICES ASSUME NEW e \in Calls, pc'[e] = "waiting"
                  PROVE  IF low'[e] THEN \E i \in 1..Len(lowQ') : lowQ'[i] = e
                                    ELSE \E i \in 1..Len(highQ') : highQ'[i] = e
      BY DEF WaitersQueue
    <2>1. e # d /\ pc[e] = "waiting" /\ low' = low /\ highQ' = highQ /\ lowQ' = Tail(lowQ)
      BY <1>2 DEF HandToLow, TypeOK
    <2>2. CASE ~low[e]
      BY <2>1, <2>2 DEF WaitersQueue
    <2>3. CASE low[e]
      <3>1. PICK i \in 1..Len(lowQ) : lowQ[i] = e
        BY <2>1, <2>3 DEF WaitersQueue
      <3>2. i - 1 \in 1..Len(Tail(lowQ)) /\ Tail(lowQ)[i - 1] = e
        BY <3>1, <2>1, <1>1, <1>2, FirstInLine
      <3>. QED
        BY <3>2, <2>1, <2>3
    <2>. QED
      BY <2>2, <2>3
  <1>. QED
    BY <1>3, <1>4, <1>5, <1>6, <1>7, <1>8

(* With nobody waiting, the last holder of the slot gives it back. *)
LEMMA GiveBackKeepsIInv ==
  ASSUME IInv, NEW c \in Calls, GiveBack(c)
  PROVE  IInv'
  <1>. USE DEF IInv
  <1>1. Holding' = Holding \ {c} /\ c \in Holding
    BY DEF TypeOK, GiveBack, Holding
  <1>2. IsFiniteSet(Holding \ {c}) /\ Cardinality(Holding \ {c}) = Cardinality(Holding) - 1
    BY <1>1, FS_RemoveElement DEF Counted
  <1>3. Cardinality(Holding \ {c}) \in Nat
    BY <1>2, FS_CardinalityType
  <1>4. active' = Cardinality(Holding') /\ active' \in Nat /\ active' <= Limit
    BY <1>1, <1>2, <1>3, LimitAssumption DEF Counted, GiveBack, TypeOK
  <1>5. TypeOK'
    BY <1>4 DEF TypeOK, GiveBack
  <1>6. Counted'
    BY <1>1, <1>2, <1>4 DEF Counted
  <1>7. NoIdleSlotWhileWaiting' /\ LineOf(highQ, FALSE)' /\ LineOf(lowQ, TRUE)'
    BY DEF NoIdleSlotWhileWaiting, LineOf, GiveBack
  <1>8. WaitersQueue'
    BY DEF WaitersQueue, GiveBack, TypeOK
  <1>. QED
    BY <1>5, <1>6, <1>7, <1>8

(* Every step keeps the inductive invariant. *)
LEMMA StepKeepsIInv == IInv /\ [Next]_vars => IInv'
  <1>. SUFFICES ASSUME IInv, [Next]_vars PROVE IInv'
    OBVIOUS
  <1>1. ASSUME NEW c \in Calls, NEW isLow \in BOOLEAN, Enter(c, isLow) \/ Enqueue(c, isLow)
        PROVE  IInv'
    BY <1>1, EnterKeepsIInv, EnqueueKeepsIInv
  <1>2. ASSUME NEW c \in Calls, Resume(c) PROVE IInv'
    BY <1>2, ResumeKeepsIInv
  <1>3. ASSUME NEW c \in Calls, Finish(c) PROVE IInv'
    BY <1>3, HandToHighKeepsIInv, HandToLowKeepsIInv, GiveBackKeepsIInv DEF Finish
  <1>4. CASE UNCHANGED vars
    BY <1>4 DEF vars, IInv, TypeOK, Counted, Holding, NoIdleSlotWhileWaiting, LineOf, WaitersQueue
  <1>. QED
    BY <1>1, <1>2, <1>3, <1>4 DEF Next

(* Every behaviour of the gate keeps the inductive invariant. *)
THEOREM Inductive == Spec => []IInv
  BY InitIInv, StepKeepsIInv, PTL DEF Spec

-----------------------------------------------------------------------------
(* Type correctness of the gate. *)
THEOREM TypeCorrect == Spec => []TypeOK
  <1>1. IInv => TypeOK
    BY DEF IInv
  <1>. QED
    BY <1>1, Inductive, PTL

(* The comment of Semaphore.run(): a slot handed straight to the next in   *)
(* line never lets a new caller slip in and exceed the limit.              *)
THEOREM LimitHolds == Spec => []NeverOverLimit
  <1>1. IInv => NeverOverLimit
    BY DEF IInv, Counted, NeverOverLimit
  <1>. QED
    BY <1>1, Inductive, PTL

(* No handoff is ever lost: a slot is free only when nobody waits. *)
THEOREM SlotsAreUsed == Spec => []NoIdleSlotWhileWaiting
  <1>1. IInv => NoIdleSlotWhileWaiting
    BY DEF IInv
  <1>. QED
    BY <1>1, Inductive, PTL

(* A backlog of background refreshes never delays a reader's request: no   *)
(* refresh is granted a slot while a reader waits for one.                 *)
THEOREM ReadersComeFirst == Spec => ReaderFirst
  <1>. DEFINE First == \A c \in Calls : pc[c] = "waiting" /\ pc'[c] = "granted" /\ low[c]
                         => \A d \in Calls : pc[d] = "waiting" => low[d]
  <1>1. IInv /\ [Next]_vars => [First]_vars
    <2>. SUFFICES ASSUME IInv, Next,
                         NEW c \in Calls, pc[c] = "waiting", pc'[c] = "granted", low[c],
                         NEW d \in Calls, pc[d] = "waiting"
                  PROVE  low[d]
      OBVIOUS
    <2>. USE DEF IInv
    <2>1. ~\E e \in Calls : \E isLow \in BOOLEAN : Enter(e, isLow) \/ Enqueue(e, isLow)
      BY DEF Enter, Enqueue, TypeOK
    <2>2. ~\E e \in Calls : Resume(e) \/ GiveBack(e)
      BY DEF Resume, GiveBack, TypeOK
    <2>3. ~\E e \in Calls : HandToHigh(e)
      <3>. SUFFICES ASSUME NEW e \in Calls, HandToHigh(e) PROVE FALSE
        OBVIOUS
      <3>1. c = Head(highQ)
        BY DEF HandToHigh, TypeOK
      <3>2. Head(highQ) = highQ[1] /\ 1 \in 1..Len(highQ)
        BY FirstInLine DEF HandToHigh, TypeOK
      <3>. QED
        BY <3>1, <3>2 DEF LineOf
    <2>4. highQ = <<>>
      BY <2>1, <2>2, <2>3 DEF Next, Finish, HandToLow
    <2>. QED
      BY <2>4, EmptySeq DEF WaitersQueue
  <1>. QED
    BY <1>1, Inductive, PTL DEF Spec, ReaderFirst
=============================================================================
