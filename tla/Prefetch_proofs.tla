---------------------------- MODULE Prefetch_proofs ----------------------------
(***************************************************************************)
(* Proofs about Prefetch, for every dataset size, batch size, read-ahead   *)
(* and set of consumers.                                                   *)
(***************************************************************************)
EXTENDS Prefetch, TLAPS

LEMMA StartStep ==
    /\ Start(0) = 0
    /\ \A k \in Nat : Start(k) \in Nat /\ Start(k + 1) = Start(k) + BatchSize
BY PrefetchAssumption DEF PrefetchAssumption, Start

-----------------------------------------------------------------------------
(* Type correctness.  The two flags are proved apart from the rest: their  *)
(* type is a matter for Zenon, the others' for SMT.                        *)

FlagsOK == stop \in BOOLEAN /\ done \in BOOLEAN

StateOK ==
    /\ prefetch \in Prefetches
    /\ cursor \in 0..(Size + BatchSize)
    /\ queue \in Seq(0..Size)
    /\ wpc \in {"top", "parked", "fetching", "exited"}
    /\ wcur \in 0..Size
    /\ cpc \in [Consumers -> {"idle", "next", "parked"}]
    /\ ret \in [Consumers -> {"none", "batch", "empty"}]
    /\ said \in [Consumers -> {"none", "yes", "no"}]
    /\ delivered \in Seq(0..Size)
    /\ dtor \in {"alive", "stopping", "joining", "joined"}

LEMMA TypeParts == TypeOK <=> FlagsOK /\ StateOK
BY Zenon DEF TypeOK, FlagsOK, StateOK

LEMMA FlagsNext == FlagsOK /\ [Next]_vars => FlagsOK'
BY Zenon DEF FlagsOK, Next, Worker, WorkerPark, WorkerStop, WorkerTurn, WorkerPush,
   CallNext, HasNext, Consumer, NextSync, NextPark, NextEmpty, NextPop, SpuriousWake,
   DestroyStop, DestroyNotify, DestroyJoin, Destroyed, vars, shared, worker, client

LEMMA StateNext == StateOK /\ [Next]_vars => StateOK'
<1> SUFFICES ASSUME StateOK, [Next]_vars PROVE StateOK'
  OBVIOUS
<1> USE PrefetchAssumption DEF PrefetchAssumption, StateOK
<1>1. CASE WorkerPark
  BY <1>1 DEF WorkerPark, shared, client
<1>2. CASE WorkerStop
  BY <1>2 DEF WorkerStop, shared, client
<1>3. CASE WorkerTurn
  <2>1. CASE cursor >= Size
    BY <1>3, <2>1 DEF WorkerTurn, NotifyAllConsumers, client
  <2>2. CASE ~(cursor >= Size)
    BY <1>3, <2>2 DEF WorkerTurn, client
  <2>. QED
    BY <2>1, <2>2
<1>4. CASE WorkerPush
  <2>1. queue' \in Seq(0..Size)
    BY <1>4 DEF WorkerPush
  <2>2. cpc' \in [Consumers -> {"idle", "next", "parked"}]
    BY <1>4 DEF WorkerPush, NotifyAllConsumers, NotifyOneConsumer
  <2>. QED
    BY <1>4, <2>1, <2>2 DEF WorkerPush, client
<1>5. ASSUME NEW c \in Consumers, CallNext(c) PROVE StateOK'
  BY <1>5 DEF CallNext, shared, worker, client
<1>6. ASSUME NEW c \in Consumers, HasNext(c) PROVE StateOK'
  BY <1>6 DEF HasNext, shared, worker
<1>7. ASSUME NEW c \in Consumers, NextSync(c) PROVE StateOK'
  <2>1. cursor' \in 0..(Size + BatchSize)
    BY <1>7 DEF NextSync
  <2>2. delivered' \in Seq(0..Size)
    <3>1. CASE cursor >= Size
      BY <1>7, <3>1 DEF NextSync
    <3>2. CASE cursor \in 0..Size /\ delivered' = Append(delivered, cursor)
      BY <3>2
    <3>. QED
      BY <1>7, <3>1, <3>2 DEF NextSync
  <2>3. /\ cpc' \in [Consumers -> {"idle", "next", "parked"}]
        /\ ret' \in [Consumers -> {"none", "batch", "empty"}]
        /\ said' \in [Consumers -> {"none", "yes", "no"}]
    BY <1>7 DEF NextSync, Return
  <2>. QED
    BY <1>7, <2>1, <2>2, <2>3 DEF NextSync, worker
<1>8. ASSUME NEW c \in Consumers, NextPark(c) PROVE StateOK'
  BY <1>8 DEF NextPark, shared, worker, client
<1>9. ASSUME NEW c \in Consumers, NextEmpty(c) PROVE StateOK'
  BY <1>9 DEF NextEmpty, Return, shared, worker
<1>10. ASSUME NEW c \in Consumers, NextPop(c) PROVE StateOK'
  BY <1>10 DEF NextPop, Return, NotifyWorker
<1>11. CASE SpuriousWake
  BY <1>11 DEF SpuriousWake, shared, worker, client
<1>12. CASE DestroyStop
  BY <1>12 DEF DestroyStop, worker, client
<1>13. CASE DestroyNotify
  BY <1>13 DEF DestroyNotify, NotifyWorker, NotifyAllConsumers, shared, client
<1>14. CASE DestroyJoin
  BY <1>14 DEF DestroyJoin, shared, worker, client
<1>15. CASE UNCHANGED vars
  BY <1>15 DEF vars, shared, worker, client
<1>16. CASE Destroyed
  BY <1>15, <1>16 DEF Destroyed
<1>. QED
  BY <1>1, <1>2, <1>3, <1>4, <1>5, <1>6, <1>7, <1>8, <1>9, <1>10, <1>11, <1>12,
     <1>13, <1>14, <1>15, <1>16 DEF Next, Worker, Consumer

(***************************************************************************)
(* Every reachable state of the loader is well typed, whatever the sizes.  *)
(***************************************************************************)
THEOREM TypeCorrect == Spec => []TypeOK
<1>1. Init => FlagsOK
  BY Zenon DEF Init, FlagsOK
<1>2. Init => StateOK
  BY PrefetchAssumption DEF PrefetchAssumption, Init, StateOK
<1>. QED
  BY <1>1, <1>2, FlagsNext, StateNext, TypeParts, PTL DEF Spec

-----------------------------------------------------------------------------
(* The stream.  InOrder speaks of the concatenation of what was popped,    *)
(* what is queued and what is being read; the inductive invariant says the *)
(* same of each piece by the position of its batches, and adds why a batch *)
(* being read always finds room and why an empty queue with done_ set is   *)
(* the end of the stream.                                                  *)

Reading == IF wpc = "fetching" THEN 1 ELSE 0

Positions ==
    /\ \A i \in 1..Len(delivered) : delivered[i] = Start(i - 1)
    /\ \A i \in 1..Len(queue) : queue[i] = Start(Len(delivered) + i - 1)
    /\ wpc = "fetching" => wcur = Start(Len(delivered) + Len(queue))
    /\ cursor = Start(Len(delivered) + Len(queue) + Reading)

Room ==
    /\ wpc = "fetching" => Len(queue) < prefetch
    /\ Len(queue) <= prefetch
    /\ prefetch = 0 => wpc = "exited"

Exhausted == done => cursor >= Size /\ wpc # "fetching"

IInv == StateOK /\ Positions /\ Room /\ Exhausted /\ EmptyIsEnd

LEMMA IInvInit == Init => IInv
<1> SUFFICES ASSUME Init PROVE IInv
  OBVIOUS
<1>1. StateOK
  BY PrefetchAssumption DEF PrefetchAssumption, Init, StateOK
<1>2. Positions /\ Room
  BY StartStep, PrefetchAssumption DEF PrefetchAssumption, Init, Positions, Reading, Room
<1>3. Exhausted /\ EmptyIsEnd
  BY DEF Init, Exhausted, EmptyIsEnd
<1>. QED
  BY <1>1, <1>2, <1>3 DEF IInv

\* A step that leaves the stream and the worker's place in it alone.
LEMMA Elsewhere ==
    ASSUME IInv, StateOK', UNCHANGED <<prefetch, cursor, queue, delivered, done, wcur>>,
           wpc = "fetching" <=> wpc' = "fetching",
           prefetch = 0 => wpc' = wpc,
           \A c \in Consumers : ret'[c] = "empty" => ret[c] = "empty"
    PROVE  IInv'
<1>1. Positions'
  BY DEF IInv, Positions, Reading
<1>2. Room'
  BY DEF IInv, Room
<1>3. Exhausted'
  BY DEF IInv, Exhausted
<1>4. EmptyIsEnd'
  BY DEF IInv, EmptyIsEnd
<1>. QED
  BY <1>1, <1>2, <1>3, <1>4 DEF IInv

LEMMA IInvNext == IInv /\ [Next]_vars => IInv'
<1> SUFFICES ASSUME IInv, [Next]_vars PROVE IInv'
  OBVIOUS
<1>0. StateOK /\ StateOK'
  BY StateNext DEF IInv
<1>1. CASE WorkerPark
  BY <1>0, <1>1, Elsewhere DEF WorkerPark, shared, client, IInv, Room
<1>2. CASE WorkerStop
  BY <1>0, <1>2, Elsewhere DEF WorkerStop, shared, client, IInv, Room
<1>3. CASE WorkerTurn
  <2>1. CASE cursor >= Size
    <3>1. Positions' /\ Room'
      BY <1>3, <2>1 DEF WorkerTurn, client, IInv, Positions, Reading, Room
    <3>2. Exhausted' /\ EmptyIsEnd'
      BY <1>3, <2>1 DEF WorkerTurn, client, IInv, Exhausted, EmptyIsEnd
    <3>. QED
      BY <1>0, <3>1, <3>2 DEF IInv
  <2>2. CASE ~(cursor >= Size)
    <3>0. Len(delivered) + Len(queue) \in Nat
      BY <1>0 DEF StateOK
    <3>1. Positions'
      BY <1>3, <2>2, <3>0, StartStep DEF WorkerTurn, client, IInv, Positions, Reading
    <3>2. Room'
      BY <1>0, <1>3, <2>2, PrefetchAssumption
      DEF WorkerTurn, WorkerRoom, client, IInv, Room, StateOK, PrefetchAssumption
    <3>3. Exhausted' /\ EmptyIsEnd'
      BY <1>3, <2>2 DEF WorkerTurn, client, IInv, Exhausted, EmptyIsEnd
    <3>. QED
      BY <1>0, <3>1, <3>2, <3>3 DEF IInv
  <2>. QED
    BY <2>1, <2>2
<1>4. CASE WorkerPush
  <2>1. /\ Len(queue') = Len(queue) + 1
        /\ \A i \in 1..Len(queue) : queue'[i] = queue[i]
        /\ queue'[Len(queue) + 1] = wcur
    BY <1>0, <1>4 DEF WorkerPush, StateOK
  <2>2. Positions'
    <3>0. /\ UNCHANGED <<cursor, delivered>> /\ Reading = 1 /\ Reading' = 0
          /\ wcur = Start(Len(delivered) + Len(queue))
          /\ Len(delivered) \in Nat /\ Len(queue) \in Nat
      BY <1>0, <1>4 DEF WorkerPush, client, IInv, Positions, Reading, StateOK
    <3>1. \A i \in 1..Len(queue') : queue'[i] = Start(Len(delivered') + i - 1)
      <4>1. TAKE i \in 1..Len(queue')
      <4>2. CASE i \in 1..Len(queue)
        BY <2>1, <3>0, <4>2 DEF IInv, Positions
      <4>3. CASE i = Len(queue) + 1
        BY <2>1, <3>0, <4>3
      <4>. QED
        BY <2>1, <3>0, <4>2, <4>3
    <3>2. cursor' = Start(Len(delivered') + Len(queue') + Reading')
      BY <2>1, <3>0 DEF IInv, Positions
    <3>. QED
      BY <1>4, <3>0, <3>1, <3>2 DEF WorkerPush, IInv, Positions
  <2>3. Room'
    BY <1>0, <1>4, <2>1, PrefetchAssumption
    DEF WorkerPush, IInv, Room, StateOK, PrefetchAssumption
  <2>4. Exhausted' /\ EmptyIsEnd'
    BY <1>4 DEF WorkerPush, client, IInv, Exhausted, EmptyIsEnd
  <2>. QED
    BY <1>0, <2>2, <2>3, <2>4 DEF IInv
<1>5. ASSUME NEW c \in Consumers, CallNext(c) PROVE IInv'
  BY <1>0, <1>5, Elsewhere DEF CallNext, shared, worker, client
<1>6. ASSUME NEW c \in Consumers, HasNext(c) PROVE IInv'
  BY <1>0, <1>6, Elsewhere DEF HasNext, shared, worker
<1>7. ASSUME NEW c \in Consumers, NextSync(c) PROVE IInv'
  <2>0. queue = <<>> /\ Len(queue) = 0 /\ wpc # "fetching" /\ Len(delivered) \in Nat
    BY <1>0, <1>7 DEF NextSync, IInv, Room, StateOK
  <2>1. CASE cursor >= Size /\ Return(c, "empty") /\ UNCHANGED <<cursor, delivered>>
    <3>1. Positions' /\ Room' /\ Exhausted'
      BY <1>7, <2>1 DEF NextSync, worker, IInv, Positions, Reading, Room, Exhausted
    <3>2. cursor = Start(Len(delivered))
      BY <2>0 DEF IInv, Positions, Reading
    <3>3. EmptyIsEnd'
      BY <2>1, <3>2 DEF EmptyIsEnd
    <3>. QED
      BY <1>0, <3>1, <3>3 DEF IInv
  <2>2. CASE /\ cursor < Size /\ Return(c, "batch")
             /\ delivered' = Append(delivered, cursor)
             /\ cursor' = cursor + BatchSize
    <3>1. /\ Len(delivered') = Len(delivered) + 1
          /\ \A i \in 1..Len(delivered) : delivered'[i] = delivered[i]
          /\ delivered'[Len(delivered) + 1] = cursor
      BY <1>0, <2>2 DEF StateOK
    <3>2. cursor = Start(Len(delivered)) /\ cursor' = Start(Len(delivered) + 1)
      BY <2>0, <2>2, StartStep DEF IInv, Positions, Reading
    <3>3. UNCHANGED <<prefetch, queue, done, wpc, wcur>>
      BY <1>7 DEF NextSync, worker
    <3>4. Positions'
      BY <2>0, <3>1, <3>2, <3>3 DEF IInv, Positions, Reading
    <3>5. Room'
      BY <3>3 DEF IInv, Room
    <3>6. Exhausted'
      BY <1>0, <2>2, <3>3, PrefetchAssumption
      DEF IInv, Exhausted, StateOK, PrefetchAssumption
    <3>7. EmptyIsEnd'
      <4>1. \A d \in Consumers : ret[d] # "empty"
        BY <1>0, <2>2, <3>2, PrefetchAssumption
        DEF IInv, EmptyIsEnd, StateOK, PrefetchAssumption
      <4>2. \A d \in Consumers : ret'[d] # "empty"
        BY <1>0, <2>2, <4>1 DEF Return, StateOK
      <4>. QED
        BY <4>2 DEF EmptyIsEnd
    <3>. QED
      BY <1>0, <3>4, <3>5, <3>6, <3>7 DEF IInv
  <2>. QED
    BY <1>7, <2>1, <2>2 DEF NextSync
<1>8. ASSUME NEW c \in Consumers, NextPark(c) PROVE IInv'
  BY <1>0, <1>8, Elsewhere DEF NextPark, shared, worker, client
<1>9. ASSUME NEW c \in Consumers, NextEmpty(c) PROVE IInv'
  <2>1. Positions' /\ Room' /\ Exhausted'
    BY <1>9 DEF NextEmpty, shared, worker, IInv, Positions, Reading, Room, Exhausted
  <2>2. Start(Len(delivered)) >= Size
    BY <1>0, <1>9 DEF NextEmpty, IInv, Positions, Reading, Exhausted, StateOK
  <2>3. EmptyIsEnd'
    BY <1>9, <2>2 DEF NextEmpty, EmptyIsEnd
  <2>. QED
    BY <1>0, <2>1, <2>3 DEF IInv
<1>10. ASSUME NEW c \in Consumers, NextPop(c) PROVE IInv'
  <2>0. /\ UNCHANGED <<prefetch, cursor, done, wcur>>
        /\ wpc = "fetching" <=> wpc' = "fetching"
        /\ wpc' = wpc \/ wpc = "parked"
    BY <1>10 DEF NextPop, NotifyWorker
  <2>1. /\ Len(delivered') = Len(delivered) + 1
        /\ \A i \in 1..Len(delivered) : delivered'[i] = delivered[i]
        /\ delivered'[Len(delivered) + 1] = queue[1]
    BY <1>0, <1>10 DEF NextPop, StateOK
  <2>2. /\ Len(queue) \in Nat \ {0}
        /\ Len(queue') = Len(queue) - 1
        /\ \A i \in 1..Len(queue') : queue'[i] = queue[i + 1]
    BY <1>0, <1>10 DEF NextPop, StateOK
  <2>3. Len(delivered) \in Nat
    BY <1>0 DEF StateOK
  <2>4. queue[1] = Start(Len(delivered))
    BY <2>2, <2>3 DEF IInv, Positions
  <2>5. Positions'
    <3>1. \A i \in 1..Len(delivered') : delivered'[i] = Start(i - 1)
      BY <2>1, <2>3, <2>4 DEF IInv, Positions
    <3>2. \A i \in 1..Len(queue') : queue'[i] = Start(Len(delivered') + i - 1)
      <4>1. TAKE i \in 1..Len(queue')
      <4>2. i + 1 \in 1..Len(queue) /\ Len(delivered) + (i + 1) - 1 = Len(delivered') + i - 1
        BY <2>1, <2>2, <2>3
      <4>. QED
        BY <2>2, <4>2 DEF IInv, Positions
    <3>3. Len(delivered') + Len(queue') = Len(delivered) + Len(queue)
      BY <2>1, <2>2, <2>3
    <3>4. Reading' = Reading
      BY <2>0 DEF Reading
    <3>. QED
      BY <2>0, <3>1, <3>2, <3>3, <3>4 DEF IInv, Positions
  <2>6. Room'
    BY <1>0, <2>0, <2>2, PrefetchAssumption DEF IInv, StateOK, Room, PrefetchAssumption
  <2>7. Exhausted'
    BY <2>0 DEF IInv, Exhausted
  <2>8. EmptyIsEnd'
    <3>1. Start(Len(delivered')) >= Start(Len(delivered)) /\ Start(Len(delivered)) \in Nat
      BY <2>1, <2>3, StartStep, PrefetchAssumption DEF PrefetchAssumption
    <3>2. \A d \in Consumers : ret'[d] = "empty" => ret[d] = "empty"
      BY <1>0, <1>10 DEF NextPop, Return, StateOK
    <3>3. Start(Len(delivered')) \in Nat
      BY <2>1, <2>3, StartStep
    <3>4. Start(Len(delivered)) >= Size => Start(Len(delivered')) >= Size
      BY <3>1, <3>3, PrefetchAssumption DEF PrefetchAssumption
    <3>. QED
      BY <3>2, <3>4 DEF IInv, EmptyIsEnd
  <2>. QED
    BY <1>0, <2>5, <2>6, <2>7, <2>8 DEF IInv
<1>11. CASE SpuriousWake
  BY <1>0, <1>11, Elsewhere DEF SpuriousWake, shared, worker, client, IInv, Room
<1>12. CASE DestroyStop
  BY <1>0, <1>12, Elsewhere DEF DestroyStop, worker, client
<1>13. CASE DestroyNotify
  BY <1>0, <1>13, Elsewhere DEF DestroyNotify, NotifyWorker, shared, client, IInv, Room
<1>14. CASE DestroyJoin
  BY <1>0, <1>14, Elsewhere DEF DestroyJoin, shared, worker, client
<1>15. CASE UNCHANGED vars
  BY <1>0, <1>15, Elsewhere DEF vars, shared, worker, client
<1>16. CASE Destroyed
  BY <1>15, <1>16 DEF Destroyed
<1>. QED
  BY <1>1, <1>2, <1>3, <1>4, <1>5, <1>6, <1>7, <1>8, <1>9, <1>10, <1>11, <1>12,
     <1>13, <1>14, <1>15, <1>16 DEF Next, Worker, Consumer

LEMMA Inductive == Spec => []IInv
BY IInvInit, IInvNext, PTL DEF Spec

(***************************************************************************)
(* The invariant implies the order property: the concatenation of the      *)
(* three pieces is the file order.                                         *)
(***************************************************************************)
LEMMA PositionsInOrder == IInv => InOrder
<1> SUFFICES ASSUME IInv PROVE InOrder
  OBVIOUS
<1>1. delivered \in Seq(Nat) /\ queue \in Seq(Nat) /\ InFlight \in Seq(Nat)
  BY PrefetchAssumption DEF IInv, StateOK, InFlight, PrefetchAssumption
<1>2. Len(InFlight) = Reading /\ \A i \in 1..Len(InFlight) : InFlight[i] = wcur /\ i = 1
  BY DEF InFlight, Reading
<1> DEFINE d == Len(delivered)
           q == Len(queue)
<1>3. d \in Nat /\ q \in Nat /\ Reading \in Nat
  BY <1>1 DEF Reading
<1>4. Len(Taken) = d + q + Reading
  BY <1>1, <1>2, <1>3 DEF Taken
<1>5. ASSUME NEW i \in 1..Len(Taken) PROVE Taken[i] = Start(i - 1)
  <2>1. CASE i \in 1..d
    BY <1>1, <2>1 DEF Taken, IInv, Positions
  <2>2. CASE i \in (d + 1)..(d + q)
    <3>1. Taken[i] = queue[i - d]
      BY <1>1, <1>3, <2>2 DEF Taken
    <3>2. i - d \in 1..q /\ d + (i - d) - 1 = i - 1
      BY <1>3, <2>2
    <3>. QED
      BY <3>1, <3>2 DEF IInv, Positions
  <2>3. CASE i = d + q + 1 /\ wpc = "fetching"
    <3>1. Taken[i] = InFlight[1]
      BY <1>1, <1>2, <1>3, <2>3 DEF Taken, Reading
    <3>2. InFlight[1] = wcur /\ i - 1 = d + q
      BY <1>2, <1>3, <2>3 DEF InFlight
    <3>. QED
      BY <2>3, <3>1, <3>2 DEF IInv, Positions
  <2>. QED
    BY <1>3, <1>4, <1>5, <2>1, <2>2, <2>3 DEF Reading
<1>. QED
  BY <1>4, <1>5 DEF InOrder, IInv, Positions

(***************************************************************************)
(* No batch is lost, repeated or overtaken, for every number of consumers  *)
(* and every read-ahead, under any scheduling of the threads.              *)
(***************************************************************************)
THEOREM StreamInOrder == Spec => []InOrder
BY Inductive, PositionsInOrder, PTL

(***************************************************************************)
(* The worker never reads more than prefetch_ batches ahead.               *)
(***************************************************************************)
THEOREM BoundedReadAhead == Spec => []ReadAheadBounded
<1>1. IInv => ReadAheadBounded
  BY PrefetchAssumption
  DEF IInv, Room, StateOK, ReadAheadBounded, InFlight, PrefetchAssumption
<1>. QED
  BY <1>1, Inductive, PTL

(***************************************************************************)
(* An empty batch from next() always means the end of the stream.          *)
(***************************************************************************)
THEOREM EmptyBatchIsEnd == Spec => []EmptyIsEnd
<1>1. IInv => EmptyIsEnd
  BY DEF IInv
<1>. QED
  BY <1>1, Inductive, PTL

-----------------------------------------------------------------------------
(* has_next.  A consumer told "yes" is owed a batch: one that is not yet   *)
(* delivered begins within the dataset.  For this every batch that was     *)
(* taken must.                                                             *)

LEMMA StartGrows ==
  ASSUME NEW a \in Nat, NEW b \in Nat, a <= b
  PROVE  Start(a) \in Nat /\ Start(b) \in Nat /\ Start(a) <= Start(b)
<1>1. \A m, n, k \in Nat : m <= n => m * k <= n * k
  OBVIOUS
<1>. QED
  BY <1>1, StartStep, PrefetchAssumption DEF PrefetchAssumption, Start

LEMMA StartStrict ==
  ASSUME NEW a \in Nat, NEW b \in Nat
  PROVE  (a < b <=> Start(a) < Start(b)) /\ (a = b <=> Start(a) = Start(b))
<1>1. ASSUME NEW m \in Nat, NEW n \in Nat, m < n PROVE Start(m) < Start(n)
  <2>1. Start(m) + BatchSize = Start(m + 1) /\ Start(m + 1) <= Start(n)
    BY <1>1, StartGrows, StartStep
  <2>. QED
    BY <2>1, StartStep, PrefetchAssumption DEF PrefetchAssumption
<1>2. Start(a) \in Nat /\ Start(b) \in Nat
  BY StartStep
<1>3. a < b \/ a = b \/ b < a
  OBVIOUS
<1>. QED
  BY <1>1, <1>2, <1>3

TakenSoFar == Len(delivered) + Len(queue) + Reading

Begun == TakenSoFar > 0 => Start(TakenSoFar - 1) < Size

Owed == \A c \in Consumers : said[c] = "yes" => Start(Len(delivered)) < Size

LEMMA TakenNat == IInv => TakenSoFar \in Nat /\ Len(delivered) \in Nat /\ Len(queue) \in Nat
BY DEF IInv, StateOK, TakenSoFar, Reading

LEMMA BegunNext == IInv /\ IInv' /\ Begun /\ [Next]_vars => Begun'
<1> SUFFICES ASSUME IInv, IInv', Begun, [Next]_vars PROVE Begun'
  OBVIOUS
<1>0. /\ cursor = Start(TakenSoFar) /\ cursor' = Start(TakenSoFar')
      /\ TakenSoFar \in Nat /\ TakenSoFar' \in Nat
  BY TakenNat DEF IInv, Positions, TakenSoFar, StateOK, Reading
<1>1. CASE cursor' = cursor
  <2>1. TakenSoFar' = TakenSoFar
    BY <1>0, <1>1, StartStrict
  <2>. QED
    BY <2>1 DEF Begun
<1>2. CASE cursor < Size /\ cursor' = cursor + BatchSize
  <2>1. TakenSoFar' = TakenSoFar + 1
    <3>1. TakenSoFar + 1 \in Nat /\ Start(TakenSoFar + 1) = Start(TakenSoFar')
      BY <1>0, <1>2, StartStep
    <3>. QED
      BY <1>0, <3>1, StartStrict
  <2>. QED
    BY <1>0, <1>2, <2>1 DEF Begun
<1>3. cursor' = cursor \/ (cursor < Size /\ cursor' = cursor + BatchSize)
  <2>1. cursor \in Nat
    BY DEF IInv, StateOK
  <2>. QED
    BY <2>1, PrefetchAssumption DEF PrefetchAssumption, Next, Worker, WorkerPark, WorkerStop,
     WorkerTurn, WorkerPush, CallNext, HasNext, Consumer, NextSync, NextPark, NextEmpty,
     NextPop, SpuriousWake, DestroyStop, DestroyNotify, DestroyJoin, Destroyed, vars, shared
<1>. QED
  BY <1>1, <1>2, <1>3

LEMMA QueueOwed == IInv /\ Begun /\ Answer => Start(Len(delivered)) < Size
<1> SUFFICES ASSUME IInv, Begun, Answer PROVE Start(Len(delivered)) < Size
  OBVIOUS
<1>1. TakenSoFar \in Nat /\ Len(delivered) \in Nat /\ Len(queue) \in Nat /\ Reading \in {0, 1}
  BY TakenNat DEF Reading
<1>2. CASE cursor < Size
  <2>1. cursor = Start(TakenSoFar) /\ Len(delivered) <= TakenSoFar
    BY <1>1 DEF IInv, Positions, TakenSoFar
  <2>2. Start(Len(delivered)) <= Start(TakenSoFar)
    BY <1>1, <2>1, StartGrows
  <2>3. Start(Len(delivered)) \in Nat /\ Start(TakenSoFar) \in Nat
    BY <1>1, StartStep
  <2>. QED
    BY <1>2, <2>1, <2>2, <2>3, PrefetchAssumption DEF PrefetchAssumption
<1>3. CASE queue # <<>>
  <2>1. Len(queue) > 0
    BY <1>3 DEF IInv, StateOK
  <2>2. TakenSoFar - 1 \in Nat /\ Len(delivered) <= TakenSoFar - 1 /\ TakenSoFar > 0
    BY <1>1, <2>1 DEF TakenSoFar
  <2>3. Start(Len(delivered)) <= Start(TakenSoFar - 1) /\ Start(TakenSoFar - 1) < Size
    BY <1>1, <2>2, StartGrows DEF Begun
  <2>4. Start(Len(delivered)) \in Nat /\ Start(TakenSoFar - 1) \in Nat
    BY <1>1, <2>2, StartStep
  <2>. QED
    BY <2>3, <2>4, PrefetchAssumption DEF PrefetchAssumption
<1>. QED
  BY <1>2, <1>3 DEF Answer

LEMMA OwedNext == IInv /\ Begun /\ Owed /\ [Next]_vars => Owed'
<1> SUFFICES ASSUME IInv, Begun, Owed, [Next]_vars PROVE Owed'
  OBVIOUS
<1>1. ASSUME NEW c \in Consumers, HasNext(c) PROVE Owed'
  <2>1. /\ delivered' = delivered
        /\ said' = [said EXCEPT ![c] = IF Answer THEN "yes" ELSE "no"]
        /\ said \in [Consumers -> {"none", "yes", "no"}]
    BY <1>1 DEF HasNext, IInv, StateOK
  <2>2. CASE Answer
    BY <2>1, <2>2, QueueOwed DEF Owed
  <2>3. CASE ~Answer
    BY <2>1, <2>3 DEF Owed
  <2>. QED
    BY <2>2, <2>3
<1>2. CASE UNCHANGED <<said, delivered>>
  BY <1>2 DEF Owed
<1>3. ASSUME NEW c \in Consumers, Consumer(c) PROVE Owed'
  <2>1. UNCHANGED <<said, delivered>> \/ said' = [d \in Consumers |-> "none"]
    BY <1>3 DEF Consumer, NextSync, NextPark, NextEmpty, NextPop, Return, client
  <2>. QED
    BY <2>1 DEF Owed
<1>. QED
  BY <1>1, <1>2, <1>3 DEF Next, Worker, WorkerPark, WorkerStop, WorkerTurn, WorkerPush,
     CallNext, SpuriousWake, DestroyStop, DestroyNotify, DestroyJoin, Destroyed, vars, client

\* An empty batch is only returned when none is owed to anybody.
LEMMA EmptyMeansNoneLeft ==
  ASSUME IInv, NEW c \in Consumers, NextEmpty(c) \/ (NextSync(c) /\ cursor >= Size)
  PROVE  Start(Len(delivered)) >= Size
<1>1. Len(queue) = 0 /\ wpc # "fetching" /\ cursor >= Size
  BY DEF NextEmpty, NextSync, IInv, Room, Exhausted, StateOK
<1>. QED
  BY <1>1, TakenNat DEF IInv, Positions, Reading

LEMMA PromiseKept ==
  ASSUME IInv, Owed, [Next]_vars,
         NEW c \in Consumers, said[c] = "yes", cpc[c] = "next", cpc'[c] = "idle"
  PROVE  ret'[c] = "batch"
<1>0. /\ cpc \in [Consumers -> {"idle", "next", "parked"}]
      /\ ret \in [Consumers -> {"none", "batch", "empty"}]
      /\ Start(Len(delivered)) < Size /\ Start(Len(delivered)) \in Nat
  BY TakenNat, StartStep DEF IInv, StateOK, Owed
<1>1. ASSUME NEW d \in Consumers, Consumer(d) PROVE ret'[c] = "batch"
  <2>1. ~NextEmpty(d) /\ ~(NextSync(d) /\ cursor >= Size)
    <3>1. ~(Start(Len(delivered)) >= Size)
      BY <1>0, PrefetchAssumption DEF PrefetchAssumption
    <3>. QED
      BY <3>1, EmptyMeansNoneLeft
  <2>2. CASE NextSync(d) \/ NextPop(d)
    <3>1. Return(d, "batch")
      BY <2>1, <2>2 DEF NextSync, NextPop
    <3>2. c = d
      BY <1>0, <3>1 DEF Return
    <3>. QED
      BY <1>0, <3>1, <3>2 DEF Return
  <2>3. CASE NextPark(d)
    BY <1>0, <2>3 DEF NextPark
  <2>. QED
    BY <1>1, <2>1, <2>2, <2>3 DEF Consumer
<1>2. cpc' = cpc => FALSE
  BY <1>0
<1>3. ~NotifyOneConsumer /\ ~NotifyAllConsumers
  BY <1>0 DEF NotifyOneConsumer, NotifyAllConsumers
<1>4. ASSUME NEW d \in Consumers, cpc' = [cpc EXCEPT ![d] = "next"] PROVE FALSE
  BY <1>0, <1>4
<1>. QED
  BY <1>1, <1>2, <1>3, <1>4 DEF Next, Worker, WorkerPark, WorkerStop, WorkerTurn, WorkerPush,
     CallNext, HasNext, SpuriousWake, DestroyStop, DestroyNotify, DestroyJoin, Destroyed, vars

LEMMA OwedInductive == Spec => [](IInv /\ Begun /\ Owed)
<1>1. Init => Begun /\ Owed
  BY DEF Init, Begun, Owed, TakenSoFar, Reading
<1>. QED
  BY <1>1, IInvInit, IInvNext, BegunNext, OwedNext, PTL DEF Spec

(***************************************************************************)
(* has_next() = true is a promise the next call of next() keeps, whatever  *)
(* the worker is doing, for all sizes and any number of consumers.         *)
(***************************************************************************)
THEOREM HasNextIsPromise == Spec => HasNextKept
<1>1. IInv /\ Begun /\ Owed /\ [Next]_vars =>
        [\A c \in Consumers :
           said[c] = "yes" /\ cpc[c] = "next" /\ cpc'[c] = "idle" => ret'[c] = "batch"]_vars
  BY PromiseKept
<1>. QED
  BY <1>1, OwedInductive, PTL DEF Spec, HasNextKept

-----------------------------------------------------------------------------
(* The sequential loader.  A step that delivers a batch is its NextBatch,  *)
(* one that returns an empty batch its NextEmpty, all others stutter.      *)

LEMMA BatchesOfFile ==
  /\ Len(Loader!order) \in Nat
  /\ \A d \in Nat : /\ d < Len(Loader!order) <=> Start(d) < Size
                    /\ d < Len(Loader!order) => Loader!order[d + 1] = Start(d)
<1> DEFINE n == Loader!NumBatches
           B == BatchSize
<1>1. B \in Nat /\ B > 0 /\ Size \in Nat /\ Size > 0
  BY PrefetchAssumption DEF PrefetchAssumption
<1>2. n \in Nat /\ n * B <= Size + B - 1 /\ Size + B - 1 < (n + 1) * B
  BY <1>1 DEF Loader!NumBatches
<1>3. Len(Loader!order) = n /\ \A i \in 1..n : Loader!order[i] = (i - 1) * B
  BY <1>2 DEF Loader!order
<1> HIDE DEF n
<1>4. ASSUME NEW d \in Nat PROVE d < n <=> Start(d) < Size
  <2>1. Start(d) = d * B /\ Start(d) \in Nat
    BY <1>1 DEF Start
  <2>2. CASE d < n
    <3>1. (d + 1) * B <= n * B
      BY <1>1, <1>2, <2>2
    <3>. QED
      BY <1>1, <1>2, <2>1, <2>2, <3>1
  <2>3. CASE n <= d
    <3>1. n * B <= d * B
      BY <1>1, <1>2, <2>3
    <3>. QED
      BY <1>1, <1>2, <2>1, <2>3, <3>1
  <2>. QED
    BY <1>2, <2>2, <2>3
<1>. QED
  BY <1>2, <1>3, <1>4 DEF Start

Emptied == \E c \in Consumers : ret[c] = "empty"

LEMMA LoaderInit == Init => Loader!Init
BY DEF Init, Loader!Init

LEMMA BatchIsNext ==
  ASSUME IInv, IInv', NEW c \in Consumers, Return(c, "batch"),
         Start(Len(delivered)) < Size, delivered' = Append(delivered, Start(Len(delivered)))
  PROVE  Loader!NextBatch
<1> DEFINE d == Len(delivered)
<1>1. d \in Nat /\ Start(d) \in Nat /\ Size \in Nat
  BY TakenNat, StartStep, PrefetchAssumption DEF PrefetchAssumption
<1>2. d < Len(Loader!order) /\ Loader!order[d + 1] = Start(d)
  BY <1>1, BatchesOfFile
<1>3. Len(delivered') = d + 1
  BY DEF IInv, StateOK
<1>4. ~Emptied
  BY <1>1 DEF IInv, EmptyIsEnd, Emptied
<1>5. ~Emptied'
  BY <1>4 DEF Return, IInv, StateOK, Emptied
<1>. QED
  BY <1>2, <1>3, <1>4, <1>5 DEF Loader!NextBatch, Emptied

LEMMA EmptyIsNext ==
  ASSUME IInv, NEW c \in Consumers, Return(c, "empty"), delivered' = delivered,
         Start(Len(delivered)) >= Size
  PROVE  Loader!NextEmpty
<1> DEFINE d == Len(delivered)
<1>1. d \in Nat /\ Start(d) \in Nat /\ Size \in Nat
  BY TakenNat, StartStep, PrefetchAssumption DEF PrefetchAssumption
<1>2. d >= Len(Loader!order)
  BY <1>1, BatchesOfFile
<1>3. ret'[c] = "empty"
  BY DEF Return, IInv, StateOK
<1>. QED
  BY <1>2, <1>3 DEF Loader!NextEmpty

LEMMA LoaderStep == IInv /\ Begun /\ IInv' /\ [Next]_vars => [Loader!Next]_(Loader!vars)
<1> SUFFICES ASSUME IInv, Begun, IInv', [Next]_vars PROVE [Loader!Next]_(Loader!vars)
  OBVIOUS
<1>1. CASE UNCHANGED <<delivered, ret>>
  BY <1>1 DEF Loader!vars
<1>2. ASSUME NEW c \in Consumers, NextSync(c) PROVE Loader!Next
  <2>1. CASE cursor >= Size
    <3>1. Return(c, "empty") /\ delivered' = delivered
      BY <1>2, <2>1, PrefetchAssumption DEF PrefetchAssumption, NextSync, IInv, StateOK
    <3>. QED
      BY <1>2, <2>1, <3>1, EmptyMeansNoneLeft, EmptyIsNext DEF Loader!Next
  <2>2. CASE cursor < Size
    <3>1. Return(c, "batch") /\ delivered' = Append(delivered, cursor)
      BY <1>2, <2>2, PrefetchAssumption DEF PrefetchAssumption, NextSync, IInv, StateOK
    <3>2. Len(queue) = 0 /\ wpc # "fetching"
      BY <1>2 DEF NextSync, IInv, Room, StateOK
    <3>3. cursor = Start(Len(delivered))
      BY <3>2, TakenNat DEF IInv, Positions, Reading
    <3>. QED
      BY <2>2, <3>1, <3>3, BatchIsNext DEF Loader!Next
  <2>. QED
    BY <1>2, <2>1, <2>2 DEF NextSync
<1>3. ASSUME NEW c \in Consumers, NextEmpty(c) PROVE Loader!Next
  BY <1>3, EmptyMeansNoneLeft, EmptyIsNext DEF NextEmpty, Loader!Next
<1>4. ASSUME NEW c \in Consumers, NextPop(c) PROVE Loader!Next
  <2>1. Len(queue) > 0 /\ Head(queue) = queue[1]
    BY <1>4 DEF NextPop, IInv, StateOK
  <2>2. Head(queue) = Start(Len(delivered))
    BY <2>1, TakenNat DEF IInv, Positions
  <2>3. Start(Len(delivered)) < Size
    BY <1>4, QueueOwed DEF NextPop, Answer
  <2>. QED
    BY <1>4, <2>2, <2>3, BatchIsNext DEF NextPop, Loader!Next
<1>. QED
  BY <1>1, <1>2, <1>3, <1>4 DEF Next, Worker, WorkerPark, WorkerStop, WorkerTurn, WorkerPush,
     CallNext, HasNext, Consumer, NextPark, SpuriousWake, DestroyStop, DestroyNotify,
     DestroyJoin, Destroyed, vars, client

(***************************************************************************)
(* The worker, the queue and any number of consumers together are the      *)
(* sequential DataLoader.                                                  *)
(***************************************************************************)
THEOREM ImplementsLoader == Spec => IsSequentialLoader
<1>. QED
  BY LoaderInit, LoaderStep, IInvNext, OwedInductive, PTL
  DEF Spec, IsSequentialLoader, Loader!Spec

=============================================================================
