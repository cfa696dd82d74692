------------------------------ MODULE CommandQueue ------------------------------
(***************************************************************************)
(* AtomicCircularQueue<Header> (src/src/util/util_atomiccircularqueue.h):  *)
(* the single-producer single-consumer ring of command headers in shared   *)
(* memory.  One process pushes, the other peeks and pulls.  The shared     *)
(* indices keep the names of the code: m_read is the index the producer    *)
(* publishes (what may be READ) and m_write the index the consumer frees   *)
(* (what may be WRITTEN).  Each end keeps a private copy of the other's    *)
(* index and looks at the shared one only when the copy says full (push)   *)
(* or empty (peek, pull); the producer publishes once every m_publishBatch *)
(* pushes, when it finds the queue full, or on flush().                    *)
(*                                                                         *)
(* Every access to shared memory is a step of its own.                     *)
(***************************************************************************)
EXTENDS Naturals, Sequences

CONSTANTS Values,        \* the headers
          Invalid,       \* Bridge_Invalid: the header of a default-constructed slot
          QueueSize,     \* m_queueSize: slots in the ring
          PublishBatches,\* the configured batches: 32 on the client's device channel, else 1
          PushTimeouts   \* whether timeoutMS # 0, so that push, peek and pull may give up

ASSUME QueueAssumption ==
  /\ Invalid \notin Values
  /\ QueueSize \in Nat /\ QueueSize >= 2
  /\ PublishBatches \subseteq Nat \ {0}
  /\ PushTimeouts \in BOOLEAN

VARIABLES
  m_data,            \* shared: the slots
  m_read,            \* shared: index one past the last published entry
  m_write,           \* shared: index of the next entry to consume
  m_localWrite,      \* producer: index of the next slot to fill
  m_pending,         \* producer: entries filled and not published
  m_publishBatch,    \* producer: entries to a batch, set before the first push
  m_cachedConsumer,  \* producer: copy of m_write
  obj,               \* producer: the argument of the push under way
  ppc,               \* producer: where it is in push()
  m_cachedProducer,  \* consumer: copy of m_read
  m_lastPulled,      \* consumer: the header pull() copied out
  call,              \* consumer: which of peek() and pull() runs
  cpc                \* consumer: where it is in the call

producerVars == <<m_localWrite, m_pending, m_publishBatch, m_cachedConsumer, obj, ppc>>
consumerVars == <<m_cachedProducer, m_lastPulled, call, cpc>>
circularVars == <<m_data, m_read, m_write, producerVars, consumerVars>>

Index == 0 .. QueueSize - 1

Header == Values \cup {Invalid}

queueIdxInc(idx) == IF idx + 1 < QueueSize THEN idx + 1 ELSE 0

(* How many steps of queueIdxInc lead from index a to index b. *)
Distance(a, b) == IF a <= b THEN b - a ELSE b + QueueSize - a

(* The constructor of the writer's side; the reader only attaches. *)
InitQueue ==
  /\ m_data = [i \in Index |-> Invalid]
  /\ m_read = 0 /\ m_write = 0
  /\ m_localWrite = 0 /\ m_pending = 0 /\ m_cachedConsumer = 0
  /\ m_publishBatch \in PublishBatches
  /\ obj = Invalid /\ ppc = "idle"
  /\ m_cachedProducer = 0 /\ m_lastPulled = Invalid
  /\ call = "none" /\ cpc = "idle"

---------------------------------------------------------------------------
(* Producer *)

(* Variant with a bug: no look at how full the ring is. *)
PushUnchecked(v) ==
  /\ ppc = "idle"
  /\ obj' = v
  /\ ppc' = "store"
  /\ UNCHANGED <<m_data, m_read, m_write, m_localWrite, m_pending, m_publishBatch, m_cachedConsumer,
                 consumerVars>>

(* push(obj): the copy of the consumer's index decides which way to go. *)
Push(v) ==
  /\ ppc = "idle"
  /\ obj' = v
  /\ ppc' = IF queueIdxInc(m_localWrite) = m_cachedConsumer THEN "reload" ELSE "store"
  /\ UNCHANGED <<m_data, m_read, m_write, m_localWrite, m_pending, m_publishBatch, m_cachedConsumer,
                 consumerVars>>

(* The copy says full: read the shared index. *)
Reload ==
  /\ ppc = "reload"
  /\ m_cachedConsumer' = m_write
  /\ ppc' = IF queueIdxInc(m_localWrite) = m_write THEN "full" ELSE "store"
  /\ UNCHANGED <<m_data, m_read, m_write, m_localWrite, m_pending, m_publishBatch, obj, consumerVars>>

(* Variant with a bug: the slot is taken from the published index. *)
StoreAtPublished ==
  /\ ppc = "store"
  /\ m_data' = [m_data EXCEPT ![m_read] = obj]
  /\ m_localWrite' = queueIdxInc(m_localWrite)
  /\ m_pending' = m_pending + 1
  /\ ppc' = IF m_pending + 1 >= m_publishBatch THEN "publish" ELSE "idle"
  /\ UNCHANGED <<m_read, m_write, m_publishBatch, m_cachedConsumer, obj, consumerVars>>

(* Fill the slot; publish when a batch is complete. *)
Store ==
  /\ ppc = "store"
  /\ m_data' = [m_data EXCEPT ![m_localWrite] = obj]
  /\ m_localWrite' = queueIdxInc(m_localWrite)
  /\ m_pending' = m_pending + 1
  /\ ppc' = IF m_pending + 1 >= m_publishBatch THEN "publish" ELSE "idle"
  /\ UNCHANGED <<m_read, m_write, m_publishBatch, m_cachedConsumer, obj, consumerVars>>

(* A batch is complete. *)
PublishBatchFull ==
  /\ ppc = "publish"
  /\ m_read' = m_localWrite
  /\ m_pending' = 0
  /\ ppc' = "idle"
  /\ UNCHANGED <<m_data, m_write, m_localWrite, m_publishBatch, m_cachedConsumer, obj, consumerVars>>

(* flush() itself: publish whatever is pending, if anything is. *)
flush ==
  /\ m_read' = IF m_pending # 0 THEN m_localWrite ELSE m_read
  /\ m_pending' = 0

(* Variant with a bug: a full producer waits without publishing. *)
WaitHoldingBack ==
  /\ ppc = "full"
  /\ \/ ppc' = "reload"
     \/ PushTimeouts /\ ppc' = "idle"
  /\ UNCHANGED <<m_data, m_read, m_write, m_localWrite, m_pending, m_publishBatch, m_cachedConsumer, obj,
                 consumerVars>>

(* Full: publish what is held back, then try again or report Failure. *)
WaitWhileFull ==
  /\ ppc = "full"
  /\ flush
  /\ \/ ppc' = "reload"
     \/ PushTimeouts /\ ppc' = "idle"
  /\ UNCHANGED <<m_data, m_write, m_localWrite, m_publishBatch, m_cachedConsumer, obj, consumerVars>>

(* flushWriter(): the producer publishes before it blocks on the consumer. *)
Flush ==
  /\ ppc = "idle"
  /\ m_pending # 0
  /\ flush
  /\ UNCHANGED <<m_data, m_write, m_localWrite, m_publishBatch, m_cachedConsumer, obj, ppc, consumerVars>>

---------------------------------------------------------------------------
(* Consumer *)

(* peek() or pull(): the copy of the producer's index decides. *)
Operation(c) ==
  /\ cpc = "idle"
  /\ call' = c
  /\ cpc' = IF m_write = m_cachedProducer THEN "poll" ELSE "read"
  /\ UNCHANGED <<m_data, m_read, m_write, producerVars, m_cachedProducer, m_lastPulled>>

(* The copy says empty: read the shared index; if it says so too, spin, or *)
(* give up on a timeout or on the early-out signal.                        *)
Poll ==
  /\ cpc = "poll"
  /\ m_cachedProducer' = m_read
  /\ \/ m_write # m_read /\ cpc' = "read" /\ UNCHANGED call
     \/ m_write = m_read /\ cpc' = "poll" /\ UNCHANGED call
     \/ m_write = m_read /\ PushTimeouts /\ cpc' = "idle" /\ call' = "none"
  /\ UNCHANGED <<m_data, m_read, m_write, producerVars, m_lastPulled>>

(* peek() returns a reference to the slot and leaves it queued: the caller *)
(* goes on reading that slot until it pulls.                               *)
PeekReturns ==
  /\ cpc = "read" /\ call = "peek"
  /\ cpc' = "idle" /\ call' = "none"
  /\ UNCHANGED <<m_data, m_read, m_write, producerVars, m_cachedProducer, m_lastPulled>>

(* Variant with a bug: the index is taken as that of the slot before. *)
CopyOutNext ==
  /\ cpc = "read" /\ call = "pull"
  /\ m_lastPulled' = m_data[queueIdxInc(m_write)]
  /\ cpc' = "advance"
  /\ UNCHANGED <<m_data, m_read, m_write, producerVars, m_cachedProducer, call>>

(* pull() copies the header out, and only then gives the slot back. *)
CopyOut ==
  /\ cpc = "read" /\ call = "pull"
  /\ m_lastPulled' = m_data[m_write]
  /\ cpc' = "advance"
  /\ UNCHANGED <<m_data, m_read, m_write, producerVars, m_cachedProducer, call>>

Advance ==
  /\ cpc = "advance"
  /\ m_write' = queueIdxInc(m_write)
  /\ cpc' = "idle" /\ call' = "none"
  /\ UNCHANGED <<m_data, m_read, producerVars, m_cachedProducer, m_lastPulled>>

---------------------------------------------------------------------------
Producer ==
  \/ \E v \in Values : Push(v)
  \/ Reload
  \/ Store
  \/ PublishBatchFull
  \/ WaitWhileFull
  \/ Flush

Consumer ==
  \/ \E c \in {"peek", "pull"} : Operation(c)
  \/ Poll
  \/ PeekReturns
  \/ CopyOut
  \/ Advance

QueueNext == Producer \/ Consumer

QueueSpec == InitQueue /\ [][QueueNext]_circularVars

(* A process inside push() keeps running; the consumer keeps pulling, as   *)
(* ProcessDeviceCommandQueue and processModuleCommandQueue do.             *)
QueueFairSpec ==
  /\ QueueSpec
  /\ WF_circularVars(Reload) /\ WF_circularVars(Store)
  /\ WF_circularVars(PublishBatchFull) /\ WF_circularVars(WaitWhileFull)
  /\ SF_circularVars(Operation("pull")) /\ WF_circularVars(Poll) /\ WF_circularVars(PeekReturns)
  /\ WF_circularVars(CopyOut) /\ WF_circularVars(Advance)

---------------------------------------------------------------------------
(* Properties *)

TypeOK ==
  /\ m_data \in [Index -> Header]
  /\ m_read \in Index /\ m_write \in Index /\ m_localWrite \in Index
  /\ m_cachedConsumer \in Index /\ m_cachedProducer \in Index
  /\ m_pending \in 0 .. QueueSize - 1 /\ m_publishBatch \in PublishBatches
  /\ obj \in Header /\ m_lastPulled \in Header
  /\ ppc # "idle" => obj \in Values
  /\ ppc \in {"idle", "reload", "store", "publish", "full"}
  /\ cpc \in {"idle", "poll", "read", "advance"}
  /\ call \in {"none", "peek", "pull"}

(* Slots holding an entry the consumer has not given back yet. *)
Unread == {i \in Index : Distance(m_write, i) < Distance(m_write, m_localWrite)}

(* push() never stores into a slot whose entry has not been pulled, however *)
(* stale the producer's copy of the consumer's index is.  The reference     *)
(* peek() hands out therefore stays valid until the pull.                   *)
UnreadNeverOverwritten == [][\A i \in Unread : m_data'[i] = m_data[i]]_circularVars

(* The private copies err only on the safe side: the producer's makes the   *)
(* queue look at least as full as it is, the consumer's at least as empty.  *)
CopiesConservative ==
  /\ Distance(m_cachedConsumer, m_localWrite) >= Distance(m_write, m_localWrite)
  /\ Distance(m_write, m_cachedProducer) <= Distance(m_write, m_read)

(* What pull() copied out is still the entry at the head of the queue when  *)
(* the slot is given back (the comment at pull(): the old code returned a   *)
(* reference the producer could overwrite).                                 *)
PulledIsHead == cpc = "advance" => m_lastPulled = m_data[m_write]

(* m_pending counts exactly the entries between the published index and the *)
(* private one, so flush() publishes nothing too few and nothing twice.     *)
PendingIsUnpublished == m_pending = Distance(m_read, m_localWrite)

(* The inductive invariant behind the properties above.  Going round the   *)
(* ring from the producer's copy of the consumer's index one meets, in     *)
(* this order, m_write, m_cachedProducer, m_read and m_localWrite; whoever *)
(* is about to touch a slot has just established that it may.              *)
IInv ==
  /\ TypeOK
  /\ PendingIsUnpublished
  /\ Distance(m_write, m_localWrite) = Distance(m_write, m_read) + Distance(m_read, m_localWrite)
  /\ Distance(m_cachedConsumer, m_localWrite)
       = Distance(m_cachedConsumer, m_write) + Distance(m_write, m_localWrite)
  /\ Distance(m_write, m_cachedProducer) <= Distance(m_write, m_read)
  /\ ppc = "store" => queueIdxInc(m_localWrite) # m_cachedConsumer
  /\ cpc \in {"read", "advance"} => m_write # m_cachedProducer
  /\ PulledIsHead

(* A push() always returns, and not only by its timeout, because a full     *)
(* producer publishes what it holds back before it waits for the consumer.  *)
PushReturns == (ppc # "idle") ~> (ppc = "idle")

(* The k-th slot after index a, and what n slots of d hold from a on. *)
Slot(a, k) == IF a + k < QueueSize THEN a + k ELSE a + k - QueueSize
Entries(d, a, n) == [i \in 1 .. n |-> d[Slot(a, i - 1)]]

(* The ring is a queue: the entries between m_write and m_read are what the *)
(* consumer can see, those between m_read and m_localWrite are held back.   *)
Visible == Entries(m_data, m_write, Distance(m_write, m_read))
Held == Entries(m_data, m_read, Distance(m_read, m_localWrite))

Abstract == INSTANCE Fifo WITH
  Capacity <- QueueSize - 1, held <- Held, visible <- Visible

(* The ring with its cached indices and its batched publish implements the  *)
(* bounded first-in first-out queue.                                        *)
ImplementsFifo == Abstract!Spec
=================================================================================
