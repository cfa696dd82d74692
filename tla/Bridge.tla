---------------------------------- MODULE Bridge ----------------------------------
(***************************************************************************)
(* The device bridge as the threads of the game see it: Bridge::Command    *)
(* and waitForCommand (src/src/util/util_bridgecommand.{h,cpp}), the state *)
(* batch of the device (client/d3d9_device.h), the recursive writer lock   *)
(* (util/util_fastlock.h) and, on the other side, the loop of              *)
(* ProcessDeviceCommandQueue (server/main.cpp) that applies commands in    *)
(* the order of their headers and answers those that want an answer.       *)
(*                                                                         *)
(* Three kinds of calls stand for the device methods: a `set` (SetTexture, *)
(* SetRenderState, ...) appends a record to the batch under the device     *)
(* lock; a `send` (DrawPrimitive, Clear, ...) is a command without an      *)
(* answer; an `ask` (GetDisplayMode, ShowCursor, a query's GetData, ...)   *)
(* waits for its answer, identified by the number of its header.           *)
(*                                                                         *)
(* The two command queues are the Fifo that module CommandQueue            *)
(* implements.                                                             *)
(***************************************************************************)
EXTENDS Naturals, Sequences

CONSTANTS
  Threads,        \* threads of the game that call the device
  NoThread,       \* m_owner of a free lock
  Askers,         \* the threads that also make calls that wait for an answer
  MaxCalls,       \* calls of one thread, at most
  BatchCapacity,  \* records the batch buffer takes (kBatchWords)
  PublishBatch,   \* headers pushed before they are published
  QueueCapacity,  \* headers the command queue holds
  MaxAttempts,    \* getCommandRetries
  Timeouts        \* whether a push to a full queue and a peek of an empty one may time out

ASSUME BridgeAssumption ==
  /\ NoThread \notin Threads /\ Askers \subseteq Threads
  /\ MaxCalls \in Nat /\ BatchCapacity \in Nat \ {0}
  /\ PublishBatch \in Nat \ {0} /\ QueueCapacity \in Nat \ {0}
  /\ MaxAttempts \in Nat /\ Timeouts \in BOOLEAN

VARIABLES
  owner,          \* m_mutex of the writer channel: the thread that holds it
  batch,          \* m_batchBuf: the records not sent yet
  pending,        \* g_stateBatchPending
  running,        \* gbBridgeRunning
  inProgress,     \* pbCmdInProgress
  cmdUID,         \* s_cmdUID: headers pushed so far
  held, visible,  \* Client2Server headers: not yet published, published
  serverUID,      \* headers the server has pulled
  applied,        \* the calls in the order the server applied them
  responses,      \* Server2Client headers
  data,           \* Server2Client data ring: one payload per response
  pc,             \* where each thread is
  calls,          \* calls each thread has made
  kind,           \* the kind of its current call
  uid,            \* currentUID of its call
  attempts,       \* attemptNum of its waitForCommand
  got             \* the payload its last answer carried

lockVars == <<batch, pending, running, inProgress, cmdUID>>
queueVars == <<held, visible>>
serverVars == <<serverUID, applied>>
answerVars == <<responses, data>>
callVars == <<calls, kind>>
waitVars == <<uid, attempts, got>>
vars == <<owner, lockVars, queueVars, serverVars, answerVars, pc, callVars, waitVars>>

(* What identifies a call: the thread and its count of calls. *)
Call(t) == [by |-> t, n |-> calls[t]]
NoCall == [by |-> NoThread, n |-> 0]

Init ==
  /\ owner = NoThread
  /\ batch = <<>> /\ pending = FALSE
  /\ running = TRUE /\ inProgress = FALSE /\ cmdUID = 0
  /\ held = <<>> /\ visible = <<>>
  /\ serverUID = 0 /\ applied = <<>>
  /\ responses = <<>> /\ data = <<>>
  /\ pc = [t \in Threads |-> "idle"]
  /\ calls = [t \in Threads |-> 0]
  /\ kind = [t \in Threads |-> "none"]
  /\ uid = [t \in Threads |-> 0]
  /\ attempts = [t \in Threads |-> 0]
  /\ got = [t \in Threads |-> NoCall]

Goto(t, l) == pc' = [pc EXCEPT ![t] = l]

---------------------------------------------------------------------------
(* The lock and the queue *)

Acquire(t) == owner = NoThread /\ owner' = t
Release(t) == owner = t /\ owner' = NoThread

(* Where a thread is inside a Command, its own or the batch's. *)
Building == {"sendset", "sendpending", "build"}

(* push() of a header, published when it completes a batch. *)
PushHeader(h) ==
  /\ Len(held) + Len(visible) < QueueCapacity
  /\ IF Len(held) + 1 >= PublishBatch
     THEN visible' = visible \o Append(held, h) /\ held' = <<>>
     ELSE held' = Append(held, h) /\ UNCHANGED visible
  /\ cmdUID' = cmdUID + 1
  /\ UNCHANGED running

(* push() while the queue is full publishes what is held back and spins. *)
PushSpins(t) ==
  /\ pc[t] \in Building /\ running
  /\ Len(held) + Len(visible) = QueueCapacity
  /\ held # <<>>
  /\ visible' = visible \o held /\ held' = <<>>
  /\ UNCHANGED <<owner, lockVars, serverVars, answerVars, pc, callVars, waitVars>>

(* The constructor once it has the lock: a command already in progress is   *)
(* fatal.                                                                   *)
Open(t, next) ==
  /\ Goto(t, IF inProgress THEN "fatal" ELSE next)
  /\ inProgress' = TRUE

(* The destructor: the header is pushed; or all retries failed and the      *)
(* bridge is turned off; or it was off already.                             *)
Close(h) ==
  /\ inProgress' = FALSE
  /\ \/ running /\ PushHeader(h)
     \/ /\ running /\ Timeouts
        /\ Len(held) + Len(visible) = QueueCapacity /\ held = <<>>
        /\ running' = FALSE
        /\ UNCHANGED <<cmdUID, queueVars>>
     \/ ~running /\ UNCHANGED <<running, cmdUID, queueVars>>

(* flushStateBatch() forgets the batch first, then sends it: one command    *)
(* with all its records.  An empty batch is nothing to send.                *)
flushStateBatch(t, sending, after) ==
  /\ pending' = FALSE
  /\ IF batch = <<>>
     THEN Goto(t, after) /\ UNCHANGED inProgress
     ELSE Open(t, sending)
  /\ UNCHANGED <<batch, running, cmdUID>>

---------------------------------------------------------------------------
(* A set *)

(* The method takes the device lock; batchCmd finds room or does not. *)
Set(t) ==
  /\ pc[t] = "idle" /\ calls[t] < MaxCalls
  /\ Acquire(t)
  /\ calls' = [calls EXCEPT ![t] = @ + 1]
  /\ kind' = [kind EXCEPT ![t] = "set"]
  /\ Goto(t, IF Len(batch) = BatchCapacity THEN "full" ELSE "append")
  /\ UNCHANGED <<lockVars, queueVars, serverVars, answerVars, waitVars>>

(* No room: flush first. *)
SetFlush(t) ==
  /\ pc[t] = "full"
  /\ flushStateBatch(t, "sendset", "append")
  /\ UNCHANGED <<owner, queueVars, serverVars, answerVars, callVars, waitVars>>

SetFlushed(t) ==
  /\ pc[t] = "sendset"
  /\ Close([wants |-> FALSE, records |-> batch])
  /\ batch' = <<>>
  /\ Goto(t, "append")
  /\ UNCHANGED <<owner, pending, serverVars, answerVars, callVars, waitVars>>

(* The record, the flag, and the lock is dropped. *)
SetAppend(t) ==
  /\ pc[t] = "append"
  /\ batch' = Append(batch, Call(t))
  /\ pending' = TRUE
  /\ Release(t)
  /\ Goto(t, "idle")
  /\ UNCHANGED <<running, inProgress, cmdUID, queueVars, serverVars, answerVars, callVars, waitVars>>

---------------------------------------------------------------------------
(* A command: a send or an ask *)

(* Variant with a bug: the batch is left for later. *)
BeginUnflushed(t, k) ==
  /\ pc[t] = "idle" /\ calls[t] < MaxCalls
  /\ k = "ask" => t \in Askers
  /\ calls' = [calls EXCEPT ![t] = @ + 1]
  /\ kind' = [kind EXCEPT ![t] = k]
  /\ Goto(t, "ctor")
  /\ UNCHANGED <<owner, lockVars, queueVars, serverVars, answerVars, waitVars>>

(* Command's constructor looks at the flag before it has the lock. *)
Begin(t, k) ==
  /\ pc[t] = "idle" /\ calls[t] < MaxCalls
  /\ k = "ask" => t \in Askers
  /\ calls' = [calls EXCEPT ![t] = @ + 1]
  /\ kind' = [kind EXCEPT ![t] = k]
  /\ Goto(t, IF pending THEN "pending" ELSE "ctor")
  /\ UNCHANGED <<owner, lockVars, queueVars, serverVars, answerVars, waitVars>>

PendingLock(t) ==
  /\ pc[t] = "pending"
  /\ Acquire(t)
  /\ Goto(t, "flush")
  /\ UNCHANGED <<lockVars, queueVars, serverVars, answerVars, callVars, waitVars>>

(* ...and again once it has it.  Nothing left to flush: drop the lock. *)
PendingGone(t) ==
  /\ pc[t] = "flush" /\ ~pending
  /\ Release(t)
  /\ Goto(t, "ctor")
  /\ UNCHANGED <<lockVars, queueVars, serverVars, answerVars, callVars, waitVars>>

PendingFlush(t) ==
  /\ pc[t] = "flush" /\ pending
  /\ flushStateBatch(t, "sendpending", "flush")
  /\ UNCHANGED <<owner, queueVars, serverVars, answerVars, callVars, waitVars>>

(* The batch goes out as a command of its own. *)
PendingFlushed(t) ==
  /\ pc[t] = "sendpending"
  /\ Close([wants |-> FALSE, records |-> batch])
  /\ batch' = <<>>
  /\ Release(t)
  /\ Goto(t, "ctor")
  /\ UNCHANGED <<pending, serverVars, answerVars, callVars, waitVars>>

(* Variant with a bug: the lock is not taken. *)
ConstructUnlocked(t) ==
  /\ pc[t] = "ctor"
  /\ owner' = t
  /\ Open(t, "build")
  /\ uid' = [uid EXCEPT ![t] = cmdUID]
  /\ UNCHANGED <<batch, pending, running, cmdUID, queueVars, serverVars, answerVars, callVars, attempts, got>>

(* The rest of the constructor, and the caller's get_uid(). *)
Construct(t) ==
  /\ pc[t] = "ctor"
  /\ Acquire(t)
  /\ Open(t, "build")
  /\ uid' = [uid EXCEPT ![t] = cmdUID]
  /\ UNCHANGED <<batch, pending, running, cmdUID, queueVars, serverVars, answerVars, callVars, attempts, got>>

(* The destructor drops the lock; a caller that wants an answer goes on to  *)
(* wait for it.                                                             *)
Destruct(t) ==
  /\ pc[t] = "build"
  /\ Close([wants |-> kind[t] = "ask", records |-> <<Call(t)>>])
  /\ Release(t)
  /\ attempts' = [attempts EXCEPT ![t] = 0]
  /\ Goto(t, IF kind[t] = "ask" THEN "publish" ELSE "idle")
  /\ UNCHANGED <<batch, pending, serverVars, answerVars, callVars, uid, got>>

---------------------------------------------------------------------------
(* waitForCommand *)

(* Variant with a bug: the wait starts with headers still held back. *)
WaitUnpublished(t) ==
  /\ pc[t] = "publish"
  /\ Goto(t, "wait")
  /\ UNCHANGED <<owner, lockVars, queueVars, serverVars, answerVars, callVars, waitVars>>

(* flushAllBridgeWriters: under the lock, if headers can be held at all. *)
PublishForWait(t) ==
  /\ pc[t] = "publish"
  /\ PublishBatch > 1 => owner = NoThread
  /\ visible' = visible \o held /\ held' = <<>>
  /\ Goto(t, "wait")
  /\ UNCHANGED <<owner, lockVars, serverVars, answerVars, callVars, waitVars>>

(* Variant with a bug: any answer will do. *)
PeekAny(t) ==
  /\ pc[t] = "wait"
  /\ responses # <<>>
  /\ Goto(t, "take")
  /\ UNCHANGED <<owner, lockVars, queueVars, serverVars, answerVars, callVars, waitVars>>

(* The answer at the head is ours. *)
PeekMine(t) ==
  /\ pc[t] = "wait"
  /\ responses # <<>> /\ Head(responses) = uid[t]
  /\ Goto(t, "take")
  /\ UNCHANGED <<owner, lockVars, queueVars, serverVars, answerVars, callVars, waitVars>>

(* One attempt is over without our answer: try again, or fail when they are *)
(* used up or the bridge is off.                                            *)
Missed(t) ==
  /\ attempts' = [attempts EXCEPT ![t] = @ + 1]
  /\ Goto(t, IF attempts[t] <= MaxAttempts /\ running THEN "wait" ELSE "failed")
  /\ UNCHANGED <<owner, lockVars, queueVars, serverVars, answerVars, callVars, uid, got>>

(* It is another thread's: sleep and look again. *)
PeekOther(t) ==
  /\ pc[t] = "wait"
  /\ responses # <<>> /\ Head(responses) # uid[t]
  /\ Missed(t)

(* Nothing there until the peek timed out. *)
PeekTimeout(t) ==
  /\ pc[t] = "wait"
  /\ Timeouts /\ responses = <<>>
  /\ Missed(t)

(* "no response from server": the call returns an error. *)
Fail(t) ==
  /\ pc[t] = "failed"
  /\ Goto(t, "idle")
  /\ UNCHANGED <<owner, lockVars, queueVars, serverVars, answerVars, callVars, waitVars>>

(* get_data() reads the payload that is next in the ring... *)
TakeData(t) ==
  /\ pc[t] = "take"
  /\ got' = [got EXCEPT ![t] = Head(data)]
  /\ data' = Tail(data)
  /\ Goto(t, "pop")
  /\ UNCHANGED <<owner, lockVars, queueVars, serverVars, responses, callVars, uid, attempts>>

(* ...and pop_front() removes the header at the head. *)
PopFront(t) ==
  /\ pc[t] = "pop"
  /\ responses' = Tail(responses)
  /\ Goto(t, "idle")
  /\ UNCHANGED <<owner, lockVars, queueVars, serverVars, data, callVars, waitVars>>

---------------------------------------------------------------------------
(* The server pulls a header, counts it, replays its records and answers    *)
(* with its own count.                                                      *)
Process ==
  /\ visible # <<>>
  /\ visible' = Tail(visible)
  /\ serverUID' = serverUID + 1
  /\ applied' = applied \o Head(visible).records
  /\ IF Head(visible).wants
     THEN /\ responses' = Append(responses, serverUID)
          /\ data' = Append(data, Head(Head(visible).records))
     ELSE UNCHANGED answerVars
  /\ UNCHANGED <<owner, lockVars, held, pc, callVars, waitVars>>

---------------------------------------------------------------------------
Step(t) ==
  \/ Set(t) \/ SetFlush(t) \/ SetFlushed(t) \/ SetAppend(t)
  \/ \E k \in {"send", "ask"} : Begin(t, k)
  \/ PendingLock(t) \/ PendingGone(t) \/ PendingFlush(t) \/ PendingFlushed(t)
  \/ Construct(t) \/ Destruct(t) \/ PushSpins(t)
  \/ PublishForWait(t) \/ PeekMine(t) \/ PeekOther(t) \/ PeekTimeout(t) \/ Fail(t)
  \/ TakeData(t) \/ PopFront(t)

Next == Process \/ \E t \in Threads : Step(t)

Spec == Init /\ [][Next]_vars

(* What a thread inside a call does; no wait is ended by a timeout as long  *)
(* as the bridge is on.                                                     *)
Inside(t) == pc[t] # "idle" /\ Step(t) /\ ~(running /\ PeekTimeout(t))

(* The server keeps pulling, and a thread inside a call keeps running.  The *)
(* calls are bounded, so nobody can keep a spinning thread off the lock.    *)
FairSpec ==
  /\ Spec
  /\ WF_vars(Process)
  /\ \A t \in Threads : WF_vars(Inside(t))

---------------------------------------------------------------------------
(* Properties *)

Locked == {"append", "full", "flush"} \cup Building

Locations == Locked \cup {"idle", "pending", "ctor", "fatal", "publish", "wait", "failed", "take", "pop"}

(* The writer lock keeps commands apart: no constructor finds another       *)
(* command in progress (the fatal MultipleActiveCommands).                  *)
NoCommandOverlaps == \A t \in Threads : pc[t] # "fatal"

(* Why: only the owner of the lock is at a place where it must have it, and *)
(* pbCmdInProgress is set only while such a thread is inside a Command.     *)
LockInv ==
  /\ owner \in Threads \cup {NoThread} /\ inProgress \in BOOLEAN
  /\ pc \in [Threads -> Locations]
  /\ \A t \in Threads : pc[t] \in Locked => owner = t
  /\ inProgress => \E t \in Threads : pc[t] \in Building
  /\ NoCommandOverlaps

(* s has the calls of thread t from lo + 1 to hi, each once and in order. *)
Numbered(s, t, lo, hi) ==
  /\ lo <= hi
  /\ \A i \in DOMAIN s : s[i].by = t => s[i].n \in (lo + 1)..hi
  /\ \A n \in (lo + 1)..hi : \E i \in DOMAIN s : s[i] = [by |-> t, n |-> n]
  /\ \A i, j \in DOMAIN s : i < j /\ s[i].by = t /\ s[j].by = t => s[i].n < s[j].n

(* The server applies the calls of a thread in the order the thread made    *)
(* them, each once and none left out: a command never overtakes a batched   *)
(* setter of its own thread, whoever flushes the batch, and after a header  *)
(* that could not be pushed nothing gets through any more.                  *)
ThreadOrder == \A t \in Threads : \E last \in 0..calls[t] : Numbered(applied, t, 0, last)

(* The answer a thread takes is the answer to its call, though the number   *)
(* that identifies it is counted separately by client and server and the    *)
(* payload is found by position only.                                       *)
OwnAnswer == \A t \in Threads : pc[t] = "pop" => got[t] = Call(t)

(* Every call returns, with its answer or without: also when two threads    *)
(* wait and each finds the other's answer at the head of the queue, where   *)
(* one of them may leave its own for good.                                  *)
CallsReturn == \A t \in Threads : (pc[t] # "idle") ~> (pc[t] = "idle")

(* What the comment on the numbers of the calls says: they are there "to    *)
(* allow misorder responses to be handled correctly", so that with the      *)
(* timeouts disabled every wait would end with its answer.  But a thread    *)
(* that meets another's answer uses up an attempt on it, and with the       *)
(* timeouts disabled it does not even sleep in between: it gives up, and    *)
(* its answer stays in the queue.                                           *)
NoAnswerAbandoned == ~Timeouts => \A t \in Threads : pc[t] # "failed"
===================================================================================
