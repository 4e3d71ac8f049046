------------------------------- MODULE Prefetch -------------------------------
(***************************************************************************)
(* PrefetchLoader (src/src/prefetch.cpp): a worker thread reads batches    *)
(* ahead of the consumers into a bounded queue.  The worker and the        *)
(* consumers synchronise with one mutex, mtx_, and two condition           *)
(* variables.  Every access to the shared state is made under mtx_, so one *)
(* action is one critical section: from taking mtx_ to releasing it, by    *)
(* unlocking or by parking in a condition variable.  The read of the       *)
(* dataset happens between two critical sections of the worker.            *)
(*                                                                         *)
(* A batch is named by the index of its first token; prefetch = 0 is the   *)
(* synchronous mode, without a worker.                                     *)
(***************************************************************************)
EXTENDS Naturals, Sequences

CONSTANTS
    Consumers,  \* the threads that call next() and has_next()
    Size,       \* ds_.size(), in tokens
    BatchSize,  \* batch_size_
    Prefetches  \* the read-aheads a loader is constructed with

\* A Dataset is never empty: its constructor falls back to a stub text.
ASSUME PrefetchAssumption ==
    /\ Size \in Nat \ {0}
    /\ BatchSize \in Nat \ {0}
    /\ Prefetches \subseteq Nat

VARIABLES
    prefetch,   \* prefetch_: batches the worker may be ahead; never changes
    cursor,     \* cursor_: first token no get_batch was asked for
    queue,      \* queue_
    stop,       \* stop_
    done,       \* done_
    wpc,        \* the worker: "top" of its loop, "parked", "fetching", "exited"
    wcur,       \* the worker's local cur
    cpc,        \* each consumer: "idle" outside the loader, in "next", "parked"
    ret,        \* what each consumer's last next() returned: "batch" or "empty"
    said,       \* what has_next() last told each consumer, until a next() returns
    delivered,  \* every batch next() returned, in the order of the pops
    dtor        \* the destructor: "alive", "stopping", "joining", "joined"

shared == <<cursor, queue, stop, done>>
worker == <<wpc, wcur>>
client == <<ret, said, delivered>>
vars == <<prefetch, shared, worker, cpc, client, dtor>>

-----------------------------------------------------------------------------
Init == /\ prefetch \in Prefetches
        /\ cursor = 0
        /\ queue = <<>>
        /\ stop = FALSE
        /\ done = FALSE
        /\ wpc = IF prefetch > 0 THEN "top" ELSE "exited"
        /\ wcur = 0
        /\ cpc = [c \in Consumers |-> "idle"]
        /\ ret = [c \in Consumers |-> "none"]
        /\ said = [c \in Consumers |-> "none"]
        /\ delivered = <<>>
        /\ dtor = "alive"

\* cv_consumer_.notify_one(): wakes one parked consumer, or nobody.
NotifyOneConsumer ==
    IF \E c \in Consumers : cpc[c] = "parked"
    THEN \E c \in Consumers : /\ cpc[c] = "parked"
                              /\ cpc' = [cpc EXCEPT ![c] = "next"]
    ELSE UNCHANGED cpc

\* cv_consumer_.notify_all()
NotifyAllConsumers ==
    cpc' = [c \in Consumers |-> IF cpc[c] = "parked" THEN "next" ELSE cpc[c]]

\* cv_producer_.notify_one() and notify_all(): only the worker ever waits.
NotifyWorker == wpc' = IF wpc = "parked" THEN "top" ELSE wpc

-----------------------------------------------------------------------------
(* worker_loop                                                             *)

\* Mutant: room for one batch too many.
WorkerRoomOneMore == stop \/ Len(queue) <= prefetch \/ done

WorkerRoom == stop \/ Len(queue) < prefetch \/ done

WorkerPark ==
    /\ wpc = "top"
    /\ ~WorkerRoom
    /\ wpc' = "parked"
    /\ UNCHANGED <<prefetch, shared, wcur, cpc, client, dtor>>

WorkerStop ==
    /\ wpc = "top"
    /\ stop \/ done
    /\ wpc' = "exited"
    /\ UNCHANGED <<prefetch, shared, wcur, cpc, client, dtor>>

\* Mutant: cursor_ moves on only when the batch has been read.
WorkerTurnLate ==
    /\ wpc = "top"
    /\ WorkerRoom /\ ~stop /\ ~done
    /\ cursor < Size
    /\ wcur' = cursor
    /\ wpc' = "fetching"
    /\ UNCHANGED <<prefetch, shared, cpc, client, dtor>>

\* There is room: end the stream, or reserve the next batch.  cursor_ moves on
\* before the batch is read: until WorkerPush the batch is in nobody's hands.
WorkerTurn ==
    /\ wpc = "top"
    /\ WorkerRoom /\ ~stop /\ ~done
    /\ IF cursor >= Size
       THEN /\ done' = TRUE
            /\ NotifyAllConsumers
            /\ wpc' = "exited"
            /\ UNCHANGED <<cursor, wcur>>
       ELSE /\ wcur' = cursor
            /\ cursor' = cursor + BatchSize
            /\ wpc' = "fetching"
            /\ UNCHANGED <<done, cpc>>
    /\ UNCHANGED <<prefetch, queue, stop, client, dtor>>

\* Mutant: the last batch ends the stream without waking the other consumers.
WorkerPushOneWoken ==
    /\ wpc = "fetching"
    /\ queue' = Append(queue, wcur)
    /\ done' = (done \/ cursor >= Size)
    /\ NotifyOneConsumer
    /\ wpc' = "top"
    /\ UNCHANGED <<prefetch, cursor, stop, wcur, client, dtor>>

WorkerPush ==
    /\ wpc = "fetching"
    /\ queue' = Append(queue, wcur)
    /\ IF cursor >= Size
       THEN done' = TRUE /\ NotifyAllConsumers
       ELSE done' = done /\ NotifyOneConsumer
    /\ wpc' = "top"
    /\ UNCHANGED <<prefetch, cursor, stop, wcur, client, dtor>>

Worker == WorkerPark \/ WorkerStop \/ WorkerTurn \/ WorkerPush

-----------------------------------------------------------------------------
(* Consumers.  The loader must outlive the calls on it, so a consumer      *)
(* takes no step once the destructor runs.                                 *)

CallNext(c) ==
    /\ dtor = "alive"
    /\ cpc[c] = "idle"
    /\ cpc' = [cpc EXCEPT ![c] = "next"]
    /\ UNCHANGED <<prefetch, shared, worker, client, dtor>>

\* next() returns to its caller.
Return(c, r) == /\ cpc' = [cpc EXCEPT ![c] = "idle"]
                /\ ret' = [ret EXCEPT ![c] = r]
                /\ said' = [d \in Consumers |-> "none"]

\* Mutant: the synchronous next() does not move the cursor past a short batch.
NextSyncStuck(c) ==
    /\ prefetch = 0
    /\ cpc[c] = "next"
    /\ cursor < Size
    /\ Return(c, "batch")
    /\ delivered' = Append(delivered, cursor)
    /\ cursor' = IF cursor + BatchSize > Size THEN cursor ELSE cursor + BatchSize
    /\ UNCHANGED <<prefetch, queue, stop, done, worker, dtor>>

\* next() in the synchronous mode: the whole call is one critical section.
NextSync(c) ==
    /\ prefetch = 0
    /\ cpc[c] = "next"
    /\ \/ /\ cursor >= Size
          /\ Return(c, "empty")
          /\ UNCHANGED <<cursor, delivered>>
       \/ /\ cursor < Size
          /\ Return(c, "batch")
          /\ delivered' = Append(delivered, cursor)
          /\ cursor' = cursor + BatchSize
    /\ UNCHANGED <<prefetch, queue, stop, done, worker, dtor>>

NextPark(c) ==
    /\ prefetch > 0
    /\ cpc[c] = "next"
    /\ queue = <<>> /\ ~done
    /\ cpc' = [cpc EXCEPT ![c] = "parked"]
    /\ UNCHANGED <<prefetch, shared, worker, client, dtor>>

\* Mutant: an empty queue taken for the end of the stream.
NextEmptyEarly(c) ==
    /\ prefetch > 0
    /\ cpc[c] = "next"
    /\ queue = <<>>
    /\ Return(c, "empty")
    /\ UNCHANGED <<prefetch, shared, worker, delivered, dtor>>

NextEmpty(c) ==
    /\ prefetch > 0
    /\ cpc[c] = "next"
    /\ queue = <<>> /\ done
    /\ Return(c, "empty")
    /\ UNCHANGED <<prefetch, shared, worker, delivered, dtor>>

NextPop(c) ==
    /\ prefetch > 0
    /\ cpc[c] = "next"
    /\ queue # <<>>
    /\ delivered' = Append(delivered, Head(queue))
    /\ queue' = Tail(queue)
    /\ NotifyWorker
    /\ Return(c, "batch")
    /\ UNCHANGED <<prefetch, cursor, stop, done, wcur, dtor>>

\* Mutant: has_next() counts only whole batches.
AnswerShort == queue # <<>> \/ cursor + BatchSize <= Size

\* Mutant: has_next() with an inclusive bound.
AnswerInclusive == queue # <<>> \/ cursor < Size + BatchSize

\* has_next()
Answer == queue # <<>> \/ cursor < Size

HasNext(c) ==
    /\ dtor = "alive"
    /\ cpc[c] = "idle"
    /\ said' = [said EXCEPT ![c] = IF Answer THEN "yes" ELSE "no"]
    /\ UNCHANGED <<prefetch, shared, worker, cpc, ret, delivered, dtor>>

\* A condition variable may wake a thread nobody notified.
SpuriousWake ==
    \/ /\ wpc = "parked"
       /\ wpc' = "top"
       /\ UNCHANGED <<prefetch, shared, wcur, cpc, client, dtor>>
    \/ \E c \in Consumers :
         /\ cpc[c] = "parked"
         /\ cpc' = [cpc EXCEPT ![c] = "next"]
         /\ UNCHANGED <<prefetch, shared, worker, client, dtor>>

-----------------------------------------------------------------------------
(* ~PrefetchLoader: stop_ is set under mtx_, the notifications and the     *)
(* join follow without it.                                                 *)

DestroyStop ==
    /\ dtor = "alive"
    /\ \A c \in Consumers : cpc[c] = "idle"
    /\ stop' = TRUE
    /\ dtor' = "stopping"
    /\ UNCHANGED <<prefetch, cursor, queue, done, worker, cpc, client>>

\* Mutant: stop_ is set, but a parked worker is not woken.
DestroyNotifyNobody ==
    /\ dtor = "stopping"
    /\ dtor' = "joining"
    /\ UNCHANGED <<prefetch, shared, worker, cpc, client>>

DestroyNotify ==
    /\ dtor = "stopping"
    /\ NotifyWorker
    /\ NotifyAllConsumers
    /\ dtor' = "joining"
    /\ UNCHANGED <<prefetch, shared, wcur, client>>

DestroyJoin ==
    /\ dtor = "joining"
    /\ wpc = "exited"
    /\ dtor' = "joined"
    /\ UNCHANGED <<prefetch, shared, worker, cpc, client>>

Destroyed == dtor = "joined" /\ UNCHANGED vars

Consumer(c) == NextSync(c) \/ NextPark(c) \/ NextEmpty(c) \/ NextPop(c)

Next == \/ Worker
        \/ \E c \in Consumers : CallNext(c) \/ HasNext(c) \/ Consumer(c)
        \/ SpuriousWake
        \/ DestroyStop \/ DestroyNotify \/ DestroyJoin
        \/ Destroyed

Spec == Init /\ [][Next]_vars

\* The threads run: the worker, a consumer inside next(), and the destructor
\* once it has started.  Nobody has to call next(), has_next() or destroy.
FairSpec == /\ Spec
            /\ WF_vars(Worker)
            /\ \A c \in Consumers : WF_vars(Consumer(c))
            /\ WF_vars(DestroyNotify \/ DestroyJoin)
-----------------------------------------------------------------------------
TypeOK ==
    /\ prefetch \in Prefetches
    /\ cursor \in 0..(Size + BatchSize)
    /\ queue \in Seq(0..Size)
    /\ stop \in BOOLEAN
    /\ done \in BOOLEAN
    /\ wpc \in {"top", "parked", "fetching", "exited"}
    /\ wcur \in 0..Size
    /\ cpc \in [Consumers -> {"idle", "next", "parked"}]
    /\ ret \in [Consumers -> {"none", "batch", "empty"}]
    /\ said \in [Consumers -> {"none", "yes", "no"}]
    /\ delivered \in Seq(0..Size)
    /\ dtor \in {"alive", "stopping", "joining", "joined"}

\* The first token of the batch with k batches before it.
Start(k) == k * BatchSize

\* The batch the worker is reading, outside the lock.
InFlight == IF wpc = "fetching" THEN <<wcur>> ELSE <<>>

\* The batches taken from the dataset, oldest first: popped, queued, being read.
Taken == delivered \o queue \o InFlight

(***************************************************************************)
(* No batch is lost, repeated or overtaken between the worker's read, the  *)
(* queue and the consumers' pops, and cursor_ is exactly past them.        *)
(***************************************************************************)
InOrder ==
    /\ \A i \in 1..Len(Taken) : Taken[i] = Start(i - 1)
    /\ cursor = Start(Len(Taken))

(***************************************************************************)
(* The worker is never more than prefetch_ batches ahead of the consumers, *)
(* counting the one it is reading while other threads hold the lock.       *)
(***************************************************************************)
ReadAheadBounded == prefetch > 0 => Len(queue) + Len(InFlight) <= prefetch

(***************************************************************************)
(* next() returns an empty batch only at the end of the stream: by then    *)
(* every batch of the dataset was returned by some next().                 *)
(***************************************************************************)
EmptyIsEnd ==
    (\E c \in Consumers : ret[c] = "empty") => Start(Len(delivered)) >= Size

(***************************************************************************)
(* A consumer that was told has_next() = true is not then handed an empty  *)
(* batch, though the batch may still have to be read, unless a next() of   *)
(* another consumer has returned in between.                               *)
(***************************************************************************)
HasNextKept ==
    [][\A c \in Consumers :
         said[c] = "yes" /\ cpc[c] = "next" /\ cpc'[c] = "idle"
           => ret'[c] = "batch"]_vars

(***************************************************************************)
(* Every call of next() returns: no wake-up is lost between the worker and *)
(* the parked consumers.                                                   *)
(***************************************************************************)
NextReturns == \A c \in Consumers : cpc[c] # "idle" ~> cpc[c] = "idle"

(***************************************************************************)
(* The destructor ends, whatever the worker was doing: parked on a full    *)
(* queue, reading a batch, or already gone.                                *)
(***************************************************************************)
DestructorReturns == dtor = "stopping" ~> dtor = "joined"

(***************************************************************************)
(* The threads together are a DataLoader without shuffling: the popped     *)
(* batches are those of next_batch, one at a time and in file order.       *)
(***************************************************************************)
Loader == INSTANCE DataLoader WITH
            cursor <- Len(delivered),
            given <- delivered,
            ended <- \E c \in Consumers : ret[c] = "empty"

IsSequentialLoader == Loader!Spec
=============================================================================
