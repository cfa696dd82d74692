------------------------------ MODULE BridgeProofs ------------------------------
(***************************************************************************)
(* For any number of threads, queue size and batch size: the writer lock   *)
(* keeps the commands of the client apart; the server applies the calls of *)
(* a thread in their order; and a thread takes the answer to its own call. *)
(***************************************************************************)
EXTENDS Bridge, SequenceTheorems, TLAPS

(* The locks are free and no command is open at the start. *)
LEMMA InitLockInv == Init => LockInv
BY BridgeAssumption DEF Init, LockInv, NoCommandOverlaps, Locked, Building, Locations

(* A step that does not touch the lock, the flag or the critical places     *)
(* keeps LockInv: thread t moves between places where it holds no lock.     *)
LEMMA OutsideMove ==
  ASSUME NEW t \in Threads, LockInv, NEW l \in Locations \ (Locked \cup {"fatal"}),
         Goto(t, l), pc[t] \notin Locked, UNCHANGED <<owner, inProgress>>
  PROVE  LockInv'
BY DEF LockInv, NoCommandOverlaps, Goto, Locked, Building, Locations

(* Thread t gives up the lock and leaves the critical places. *)
LEMMA LeaveMove ==
  ASSUME NEW t \in Threads, LockInv, NEW l \in Locations \ (Locked \cup {"fatal"}),
         Goto(t, l), Release(t), inProgress' = FALSE \/ (inProgress' = inProgress /\ pc[t] \notin Building)
  PROVE  LockInv'
<1>1. \A u \in Threads \ {t} : pc[u] \notin Locked
  BY DEF LockInv, Release
<1>2. inProgress' = FALSE
  BY <1>1 DEF LockInv, Locked
<1>3. pc' \in [Threads -> Locations] /\ \A u \in Threads : pc'[u] \notin Locked /\ pc'[u] # "fatal"
  BY <1>1 DEF LockInv, NoCommandOverlaps, Goto
<1> QED
  BY <1>2, <1>3 DEF LockInv, NoCommandOverlaps, Release

(* Thread t takes the free lock: no command can be open, for its thread     *)
(* would own the lock.                                                      *)
LEMMA EnterMove ==
  ASSUME NEW t \in Threads, LockInv, NEW l \in Locked,
         Goto(t, l), Acquire(t), inProgress' = inProgress \/ (inProgress' = TRUE /\ l \in Building)
  PROVE  LockInv'
<1>1. \A u \in Threads : pc[u] \notin Locked
  BY BridgeAssumption DEF LockInv, Acquire
<1>2. inProgress = FALSE
  BY <1>1 DEF LockInv, Locked
<1> QED
  BY <1>1, <1>2 DEF LockInv, NoCommandOverlaps, Goto, Acquire, Locked, Building, Locations

(* Thread t, which owns the lock, moves between critical places and opens   *)
(* or closes a command.                                                     *)
LEMMA InsideMove ==
  ASSUME NEW t \in Threads, LockInv, NEW l \in Locked, pc[t] \in Locked,
         Goto(t, l), UNCHANGED owner,
         inProgress' = FALSE \/ (inProgress' = TRUE /\ l \in Building)
  PROVE  LockInv'
<1>1. pc' \in [Threads -> Locations] /\ pc'[t] = l
  BY DEF LockInv, Goto, Locations
<1>2. \A u \in Threads : pc'[u] \in Locked => owner' = u
  BY DEF LockInv, Goto
<1>3. NoCommandOverlaps'
  BY DEF LockInv, NoCommandOverlaps, Goto, Locked, Building
<1> QED
  BY <1>1, <1>2, <1>3 DEF LockInv

(* A thread that holds the lock outside a Command finds none in progress.   *)
LEMMA NoneOpen ==
  ASSUME NEW t \in Threads, LockInv, pc[t] \in Locked \ Building
  PROVE  inProgress = FALSE
BY DEF LockInv, Locked

(* Every step keeps LockInv. *)
LEMMA NextLockInv == LockInv /\ [Next]_vars => LockInv'
<1> SUFFICES ASSUME LockInv, [Next]_vars PROVE LockInv'
  OBVIOUS
<1>1. CASE UNCHANGED vars
  BY <1>1 DEF LockInv, NoCommandOverlaps, vars, lockVars
<1>2. CASE Process
  BY <1>2 DEF Process, LockInv, NoCommandOverlaps, lockVars
<1>3. ASSUME NEW t \in Threads, Step(t) PROVE LockInv'
  <2>1. CASE Set(t)
    <3>1. PICK l \in Locked : Goto(t, l)
      BY <2>1 DEF Set, Locked
    <3> QED BY <2>1, <3>1, EnterMove DEF Set, lockVars
  <2>2. CASE SetFlush(t)
    <3>1. inProgress = FALSE
      BY <2>2, NoneOpen DEF SetFlush, Locked, Building
    <3>2. PICK l \in {"sendset", "append"} : Goto(t, l) /\ inProgress' = (l = "sendset")
      BY <2>2, <3>1 DEF SetFlush, flushStateBatch, Open
    <3>3. pc[t] = "full" /\ UNCHANGED owner
      BY <2>2 DEF SetFlush
    <3> QED BY <3>2, <3>3, InsideMove DEF Locked, Building
  <2>3. CASE SetFlushed(t)
    BY <2>3, InsideMove DEF SetFlushed, Close, Locked, Building
  <2>4. CASE SetAppend(t)
    BY <2>4, LeaveMove DEF SetAppend, Locked, Building, Locations
  <2>5. ASSUME NEW k, Begin(t, k) PROVE LockInv'
    <3>1. PICK l \in {"pending", "ctor"} : Goto(t, l)
      BY <2>5 DEF Begin
    <3> QED BY <2>5, <3>1, OutsideMove DEF Begin, lockVars, Locked, Building, Locations
  <2>6. CASE PendingLock(t)
    BY <2>6, EnterMove DEF PendingLock, lockVars, Locked
  <2>7. CASE PendingGone(t)
    BY <2>7, LeaveMove DEF PendingGone, lockVars, Locked, Building, Locations
  <2>8. CASE PendingFlush(t)
    <3>1. inProgress = FALSE
      BY <2>8, NoneOpen DEF PendingFlush, Locked, Building
    <3>2. PICK l \in {"sendpending", "flush"} : Goto(t, l) /\ inProgress' = (l = "sendpending")
      BY <2>8, <3>1 DEF PendingFlush, flushStateBatch, Open
    <3>3. pc[t] = "flush" /\ UNCHANGED owner
      BY <2>8 DEF PendingFlush
    <3> QED BY <3>2, <3>3, InsideMove DEF Locked, Building
  <2>9. CASE PendingFlushed(t)
    BY <2>9, LeaveMove DEF PendingFlushed, Close, Locked, Building, Locations
  <2>10. CASE Construct(t)
    <3>1. \A u \in Threads : pc[u] \notin Locked
      BY <2>10, BridgeAssumption DEF Construct, Acquire, LockInv
    <3>2. Goto(t, "build") /\ inProgress' = TRUE
      BY <2>10, <3>1 DEF Construct, Open, LockInv, Locked
    <3> QED BY <2>10, <3>2, EnterMove DEF Construct, Locked, Building
  <2>11. CASE Destruct(t)
    <3>1. PICK l \in {"publish", "idle"} : Goto(t, l)
      BY <2>11 DEF Destruct
    <3>2. Release(t) /\ inProgress' = FALSE
      BY <2>11 DEF Destruct, Close
    <3> QED BY <3>1, <3>2, LeaveMove DEF Locked, Building, Locations
  <2>12. CASE PushSpins(t)
    BY <2>12 DEF PushSpins, LockInv, NoCommandOverlaps, lockVars
  <2>13. CASE PublishForWait(t)
    BY <2>13, OutsideMove DEF PublishForWait, lockVars, Locked, Building, Locations
  <2>14. CASE PeekMine(t)
    BY <2>14, OutsideMove DEF PeekMine, lockVars, Locked, Building, Locations
  <2>15. CASE PeekOther(t) \/ PeekTimeout(t)
    <3>1. PICK l \in {"wait", "failed"} : Goto(t, l)
      BY <2>15 DEF PeekOther, PeekTimeout, Missed
    <3>2. pc[t] = "wait" /\ UNCHANGED <<owner, inProgress>>
      BY <2>15 DEF PeekOther, PeekTimeout, Missed, lockVars
    <3> QED BY <3>1, <3>2, OutsideMove DEF Locked, Building, Locations
  <2>16. CASE Fail(t)
    BY <2>16, OutsideMove DEF Fail, lockVars, Locked, Building, Locations
  <2>17. CASE TakeData(t)
    BY <2>17, OutsideMove DEF TakeData, lockVars, Locked, Building, Locations
  <2>18. CASE PopFront(t)
    BY <2>18, OutsideMove DEF PopFront, lockVars, Locked, Building, Locations
  <2> QED
    BY <1>3, <2>1, <2>2, <2>3, <2>4, <2>5, <2>6, <2>7, <2>8, <2>9, <2>10, <2>11, <2>12, <2>13, <2>14,
       <2>15, <2>16, <2>17, <2>18 DEF Step
<1> QED
  BY <1>1, <1>2, <1>3 DEF Next

(* However many threads call the device, the constructor never finds        *)
(* another command in progress: MultipleActiveCommands cannot happen.       *)
THEOREM CommandsNeverOverlap == Spec => []NoCommandOverlaps
<1>1. LockInv => NoCommandOverlaps
  BY DEF LockInv
<1> QED
  BY InitLockInv, NextLockInv, <1>1, PTL DEF Spec

---------------------------------------------------------------------------
(* What is on its way *)

(* Headers on their way, as one queue. *)
Queue == visible \o held

CallType == [by : Threads, n : 1..MaxCalls]
Header == {h \in [wants : BOOLEAN, records : Seq(CallType)] : h.wants => Len(h.records) = 1}

BridgeType ==
  /\ batch \in Seq(CallType) /\ pending \in BOOLEAN /\ running \in BOOLEAN
  /\ cmdUID \in Nat /\ serverUID \in Nat
  /\ held \in Seq(Header) /\ visible \in Seq(Header)
  /\ applied \in Seq(CallType) /\ responses \in Seq(Nat) /\ data \in Seq(CallType)
  /\ calls \in [Threads -> 0..MaxCalls] /\ kind \in [Threads -> {"none", "set", "send", "ask"}]
  /\ uid \in [Threads -> Nat] /\ got \in [Threads -> CallType \cup {NoCall}]
  /\ attempts \in [Threads -> Nat]
  /\ \A t \in Threads : pc[t] # "idle" => calls[t] >= 1

(* A call that is neither in the batch nor on its way yet. *)
Owing == {"append", "full", "sendset", "pending", "flush", "sendpending", "ctor", "build"}
Sent(t) == IF pc[t] \in Owing THEN calls[t] - 1 ELSE calls[t]

(* b[k] is the last call of t in the first k headers (b[0] in what has been *)
(* applied); the batch has the rest, unless the bridge has been turned off. *)
Split(t, b) ==
  /\ Numbered(applied, t, 0, b[0])
  /\ \A k \in 1..Len(Queue) : Numbered(Queue[k].records, t, b[k - 1], b[k])
  /\ \A k \in 0..Len(Queue) : b[k] <= Sent(t)
  /\ running => Numbered(batch, t, b[Len(Queue)], Sent(t))
OrderInv == \A t \in Threads : \E b \in [0..Len(Queue) -> 0..MaxCalls] : Split(t, b)

Sending == {"sendset", "sendpending"}
NoneOf(s, t) == \A i \in DOMAIN s : s[i].by # t
(* Who passes the constructor's look at the flag leaves no setter of its    *)
(* own behind.                                                              *)
BatchInv ==
  /\ batch # <<>> /\ ~pending => \E u \in Threads : pc[u] \in Sending
  /\ \A t \in Threads : pc[t] = "ctor" => NoneOf(batch, t) \/ \E u \in Threads : pc[u] \in Sending
  /\ \A t \in Threads : pc[t] = "build" => NoneOf(batch, t)

Waiting == {"publish", "wait", "take", "pop"}
(* A payload has been read whose response is still at the front. *)
Lag == IF \E t \in Threads : pc[t] = "pop" THEN 1 ELSE 0

(* The two counts of headers agree, a number is waited for by one thread,   *)
(* and by none once the bridge is off and its header was never pushed.      *)
UIDInv ==
  /\ cmdUID = serverUID + Len(Queue)
  /\ \A t, u \in Threads : t # u /\ pc[t] \in Waiting /\ pc[u] \in Waiting /\ uid[t] = uid[u] => uid[t] >= cmdUID
  /\ \A t \in Threads : pc[t] \in Waiting /\ uid[t] >= cmdUID => ~running
  /\ \A t \in Threads : pc[t] = "build" => uid[t] = cmdUID

(* The header with the number a thread waits for carries its call, and so   *)
(* does the payload of the response with that number.                       *)
PayloadInv ==
  /\ \A k \in 1..Len(Queue), t \in Threads :
       pc[t] \in {"publish", "wait"} /\ uid[t] = serverUID + k - 1 => Queue[k].records = <<Call(t)>>
  /\ \A j \in 1..Len(responses) : responses[j] < serverUID
  /\ Len(responses) = Len(data) + Lag
  /\ \A j \in 1..Len(responses), t \in Threads :
       pc[t] \in {"publish", "wait", "take"} /\ uid[t] = responses[j] => j > Lag /\ data[j - Lag] = Call(t)

(* Who takes a payload or drops a response has found its own in front. *)
FrontInv ==
  /\ \A t \in Threads : pc[t] \in {"take", "pop"} => responses # <<>> /\ responses[1] = uid[t]
  /\ OwnAnswer

AnswerInv == UIDInv /\ PayloadInv /\ FrontInv

IInv == LockInv /\ BridgeType /\ OrderInv /\ BatchInv /\ AnswerInv

---------------------------------------------------------------------------
(* Sequences *)

(* The elements of a sequence with one more at its end.                     *)
LEMMA AppendLast ==
  ASSUME NEW S, NEW s \in Seq(S), NEW e \in S
  PROVE  /\ Append(s, e) \in Seq(S) /\ Len(Append(s, e)) = Len(s) + 1
         /\ \A i \in 1..Len(s) + 1 : Append(s, e)[i] = IF i <= Len(s) THEN s[i] ELSE e
BY AppendProperties

(* What the writer has held back becomes visible: the queue is the same.    *)
LEMMA PublishQueue ==
  ASSUME BridgeType, visible' = visible \o held, held' = <<>>
  PROVE  Queue' = Queue /\ held' \in Seq(Header) /\ visible' \in Seq(Header)
BY ConcatProperties, ConcatEmptySeq, EmptySeq DEF BridgeType, Queue

(* A header written is the last of the queue, whether visible yet or not.   *)
LEMMA PushQueue ==
  ASSUME BridgeType, NEW h \in Header, PushHeader(h)
  PROVE  Queue' = Append(Queue, h) /\ held' \in Seq(Header) /\ visible' \in Seq(Header)
<1>1. held \in Seq(Header) /\ visible \in Seq(Header) /\ <<h>> \in Seq(Header)
  BY DEF BridgeType
<1>2. Append(held, h) = held \o <<h>> /\ Append(held, h) \in Seq(Header)
  BY <1>1, AppendIsConcat, AppendProperties
<1>3. Append(visible \o held, h) = (visible \o held) \o <<h>> /\ visible \o held \in Seq(Header)
  BY <1>1, AppendIsConcat, ConcatProperties
<1>4. (visible \o held) \o <<h>> = visible \o (held \o <<h>>)
  BY <1>1, ConcatAssociative
<1>5. (visible \o Append(held, h)) \o <<>> = visible \o Append(held, h) /\ visible \o Append(held, h) \in Seq(Header)
  BY <1>1, <1>2, ConcatProperties, ConcatEmptySeq
<1> QED
  BY <1>1, <1>2, <1>3, <1>4, <1>5, EmptySeq DEF PushHeader, Queue

(* A header read was the first of the queue.                                *)
LEMMA PullQueue ==
  ASSUME BridgeType, visible # <<>>, visible' = Tail(visible), UNCHANGED held
  PROVE  /\ Head(visible) \in Header /\ Head(visible) = Queue[1] /\ visible' \in Seq(Header)
         /\ Len(Queue) \in Nat \ {0} /\ Len(Queue') = Len(Queue) - 1
         /\ \A k \in 1..Len(Queue') : Queue'[k] = Queue[k + 1]
<1>1. held \in Seq(Header) /\ visible \in Seq(Header) /\ Len(visible) \in Nat \ {0}
  BY EmptySeq DEF BridgeType
<1>2. /\ Head(visible) = visible[1] /\ Head(visible) \in Header /\ visible' \in Seq(Header)
      /\ Len(visible') = Len(visible) - 1 /\ \A i \in 1..Len(visible') : visible'[i] = visible[i + 1]
  BY <1>1, HeadTailProperties
<1>3. /\ Len(Queue) = Len(visible) + Len(held)
      /\ \A i \in 1..Len(visible) + Len(held) : Queue[i] = IF i <= Len(visible) THEN visible[i] ELSE held[i - Len(visible)]
  BY <1>1, ConcatProperties DEF Queue
<1>4. /\ Len(Queue') = Len(visible') + Len(held)
      /\ \A i \in 1..Len(visible') + Len(held) : Queue'[i] = IF i <= Len(visible') THEN visible'[i] ELSE held[i - Len(visible')]
  BY <1>1, <1>2, ConcatProperties DEF Queue
<1>5. Len(held) \in Nat
  BY <1>1
<1>6. Len(Queue) \in Nat \ {0} /\ Len(Queue') = Len(Queue) - 1
  BY <1>1, <1>2, <1>3, <1>4, <1>5
<1>7. ASSUME NEW k \in 1..Len(Queue') PROVE Queue'[k] = Queue[k + 1]
  <2>1. k \in 1..Len(visible') + Len(held) /\ k + 1 \in 1..Len(visible) + Len(held)
    BY <1>1, <1>2, <1>3, <1>4, <1>5, <1>6, <1>7
  <2>2. CASE k <= Len(visible')
    <3>1. Queue'[k] = visible'[k] /\ Queue[k + 1] = visible[k + 1]
      BY <1>1, <1>2, <1>3, <1>4, <2>1, <2>2
    <3> QED BY <1>1, <1>2, <2>2, <3>1
  <2>3. CASE k > Len(visible')
    <3>1. Queue'[k] = held[k - Len(visible')] /\ Queue[k + 1] = held[k + 1 - Len(visible)]
      BY <1>1, <1>2, <1>3, <1>4, <2>1, <2>3
    <3>2. k - Len(visible') = k + 1 - Len(visible)
      BY <1>1, <1>2, <2>1
    <3> QED BY <3>1, <3>2
  <2> QED BY <1>1, <1>2, <2>1, <2>2, <2>3
<1>8. Head(visible) = Queue[1]
  BY <1>1, <1>2, <1>3, <1>5
<1> QED
  BY <1>2, <1>6, <1>7, <1>8

---------------------------------------------------------------------------
(* Numbered *)

(* A sequence without calls of a thread adds none to its count.             *)
LEMMA NumberedNone ==
  ASSUME NEW t, NEW x \in Nat, NEW s, NoneOf(s, t)
  PROVE  Numbered(s, t, x, x)
BY DEF Numbered, NoneOf

(* A sequence that adds none has none.                                      *)
LEMMA NoneNumbered ==
  ASSUME NEW t, NEW x \in Nat, NEW y \in Nat, NEW s, NoneOf(s, t), Numbered(s, t, x, y)
  PROVE  x = y
<1> SUFFICES ASSUME x # y PROVE FALSE
  OBVIOUS
<1>1. y \in (x + 1)..y
  BY DEF Numbered
<1>2. PICK i \in DOMAIN s : s[i] = [by |-> t, n |-> y]
  BY <1>1 DEF Numbered
<1> QED BY <1>2 DEF NoneOf

(* Numbered calls after numbered calls.                                     *)
LEMMA NumberedConcat ==
  ASSUME NEW t \in Threads, NEW r \in Seq(CallType), NEW s \in Seq(CallType),
         NEW x \in Nat, NEW y \in Nat, NEW z \in Nat,
         Numbered(r, t, x, y), Numbered(s, t, y, z)
  PROVE  Numbered(r \o s, t, x, z)
<1>1. /\ Len(r) \in Nat /\ Len(s) \in Nat /\ DOMAIN r = 1..Len(r) /\ DOMAIN s = 1..Len(s)
      /\ DOMAIN (r \o s) = 1..Len(r) + Len(s)
      /\ \A i \in 1..Len(r) + Len(s) : (r \o s)[i] = IF i <= Len(r) THEN r[i] ELSE s[i - Len(r)]
  BY ConcatProperties, LenProperties
<1>2. x <= y /\ y <= z
  BY DEF Numbered
<1>3. \A i \in DOMAIN (r \o s) : (r \o s)[i].by = t => (r \o s)[i].n \in (x + 1)..z
  BY <1>1, <1>2 DEF Numbered
<1>4. ASSUME NEW n \in (x + 1)..z PROVE \E i \in DOMAIN (r \o s) : (r \o s)[i] = [by |-> t, n |-> n]
  <2>1. CASE n <= y
    <3>1. PICK i \in DOMAIN r : r[i] = [by |-> t, n |-> n]
      BY <2>1 DEF Numbered
    <3> QED BY <1>1, <3>1
  <2>2. CASE n > y
    <3>1. PICK i \in DOMAIN s : s[i] = [by |-> t, n |-> n]
      BY <2>2 DEF Numbered
    <3>2. i + Len(r) \in DOMAIN (r \o s) /\ (r \o s)[i + Len(r)] = s[i]
      BY <1>1
    <3> QED BY <3>1, <3>2
  <2> QED BY <2>1, <2>2
<1>5. ASSUME NEW i \in DOMAIN (r \o s), NEW j \in DOMAIN (r \o s), i < j,
             (r \o s)[i].by = t, (r \o s)[j].by = t
      PROVE  (r \o s)[i].n < (r \o s)[j].n
  <2>1. CASE j <= Len(r)
    BY <1>1, <1>5, <2>1 DEF Numbered
  <2>2. CASE i > Len(r)
    <3>1. i - Len(r) \in DOMAIN s /\ j - Len(r) \in DOMAIN s /\ i - Len(r) < j - Len(r)
      BY <1>1, <1>5, <2>2
    <3> QED BY <1>1, <1>5, <2>2, <3>1 DEF Numbered
  <2>3. CASE i <= Len(r) /\ j > Len(r)
    <3>1. i \in DOMAIN r /\ j - Len(r) \in DOMAIN s
      BY <1>1, <2>3
    <3>2. r[i].n <= y /\ s[j - Len(r)].n >= y + 1
      BY <1>1, <1>5, <2>3, <3>1 DEF Numbered
    <3>3. r[i].n \in Nat /\ s[j - Len(r)].n \in Nat
      <4>1. \A e \in CallType : e.n \in Nat
        BY DEF CallType
      <4>2. r[i] \in CallType
        BY <1>1, <3>1
      <4>3. s[j - Len(r)] \in CallType
        BY <1>1, <3>1
      <4> QED BY <4>1, <4>2, <4>3
    <3> QED BY <1>1, <2>3, <3>2, <3>3
  <2> QED BY <1>1, <2>1, <2>2, <2>3
<1>6. x <= z
  BY <1>2
<1> DEFINE w == r \o s
<1>7. /\ \A i \in DOMAIN w : w[i].by = t => w[i].n \in (x + 1)..z
      /\ \A n \in (x + 1)..z : \E i \in DOMAIN w : w[i] = [by |-> t, n |-> n]
      /\ \A i, j \in DOMAIN w : i < j /\ w[i].by = t /\ w[j].by = t => w[i].n < w[j].n
  BY <1>3, <1>4, <1>5, Zenon
<1> HIDE DEF w
<1>8. Numbered(w, t, x, z)
  BY <1>6, <1>7 DEF Numbered
<1> QED BY <1>8 DEF w

(* One call.                                                                *)
LEMMA NumberedOne ==
  ASSUME NEW t, NEW n \in Nat \ {0}
  PROVE  Numbered(<<[by |-> t, n |-> n]>>, t, n - 1, n)
BY DEF Numbered

---------------------------------------------------------------------------
(* What a step of one thread does to the places and to the queue *)

(* A step moves its own thread only.                                        *)
LEMMA Moved ==
  ASSUME LockInv, NEW t \in Threads, NEW l, Goto(t, l)
  PROVE  \A u \in Threads : pc'[u] = IF u = t THEN l ELSE pc[u]
BY DEF LockInv, Goto

(* The end of a Command: its header is in the queue, or the bridge is down. *)
LEMMA Closed ==
  ASSUME BridgeType, NEW h \in Header, Close(h)
  PROVE  /\ held' \in Seq(Header) /\ visible' \in Seq(Header)
         /\ cmdUID' \in Nat /\ running' \in BOOLEAN
         /\ \/ running /\ running' /\ cmdUID' = cmdUID + 1 /\ Queue' = Append(Queue, h)
            \/ ~running' /\ cmdUID' = cmdUID /\ Queue' = Queue
<1>1. CASE running /\ PushHeader(h)
  <2>1. held' \in Seq(Header) /\ visible' \in Seq(Header) /\ Queue' = Append(Queue, h)
    BY <1>1, PushQueue
  <2>2. cmdUID' = cmdUID + 1 /\ running' = running /\ cmdUID \in Nat /\ running \in BOOLEAN
    BY <1>1 DEF PushHeader, BridgeType
  <2> QED BY <1>1, <2>1, <2>2
<1>2. CASE ~running' /\ UNCHANGED <<cmdUID, queueVars>>
  <2>1. held' = held /\ visible' = visible /\ Queue' = Queue
    BY <1>2 DEF queueVars, Queue
  <2>2. cmdUID' = cmdUID /\ cmdUID \in Nat /\ held \in Seq(Header) /\ visible \in Seq(Header)
    BY <1>2 DEF BridgeType
  <2>3. running' \in BOOLEAN
    BY DEF Close, BridgeType, PushHeader
  <2> QED BY <1>2, <2>1, <2>2, <2>3
<1> QED
  BY <1>1, <1>2 DEF Close, BridgeType

(* The call a thread is in the middle of can be a record of a header.       *)
LEMMA CallIsCall ==
  ASSUME BridgeType, LockInv, NEW t \in Threads, pc[t] # "idle"
  PROVE  /\ Call(t) \in CallType
         /\ <<Call(t)>> \in Seq(CallType) /\ Len(<<Call(t)>>) = 1
         /\ \A w \in BOOLEAN : [wants |-> w, records |-> <<Call(t)>>] \in Header
<1>1. calls[t] \in 1..MaxCalls
  BY DEF BridgeType
<1>2. Call(t) \in CallType
  BY <1>1 DEF Call, CallType
<1>3. <<Call(t)>> \in Seq(CallType) /\ Len(<<Call(t)>>) = 1
  BY <1>2
<1> DEFINE q == <<Call(t)>>
<1> HIDE DEF q
<1>4. q \in Seq(CallType) /\ Len(q) = 1
  BY <1>3 DEF q
<1>5. \A w \in BOOLEAN : [wants |-> w, records |-> q] \in Header
  BY <1>4 DEF Header
<1> QED
  BY <1>2, <1>3, <1>5 DEF q

(* A thread has sent no more calls than it made.                            *)
LEMMA SentBounds ==
  ASSUME BridgeType, NEW t \in Threads
  PROVE  Sent(t) \in 0..calls[t] /\ calls[t] \in 0..MaxCalls
<1>1. calls[t] \in 0..MaxCalls /\ calls[t] \in Nat /\ (pc[t] # "idle" => calls[t] >= 1)
  BY BridgeAssumption DEF BridgeType
<1>2. pc[t] \in Owing => pc[t] # "idle"
  BY DEF Owing
<1> QED
  BY <1>1, <1>2 DEF Sent

---------------------------------------------------------------------------
(* OrderInv, by what a step does to the records on their way *)

(* Nothing. *)
LEMMA SplitKept ==
  ASSUME NEW t \in Threads, OrderInv, UNCHANGED <<applied, batch>>,
         Queue' = Queue, Sent(t)' = Sent(t), running' => running
  PROVE  \E b \in [0..Len(Queue') -> 0..MaxCalls] : Split(t, b)'
<1>1. PICK b \in [0..Len(Queue) -> 0..MaxCalls] : Split(t, b)
  BY DEF OrderInv
<1>2. Split(t, b)'
  BY <1>1 DEF Split
<1> QED BY <1>2

(* The command that is closed carries the calls of t up to v. *)
LEMMA SplitClosed ==
  ASSUME BridgeType, NEW t \in Threads, NEW h \in Header, Close(h), UNCHANGED applied,
         NEW b \in [0..Len(Queue) -> 0..MaxCalls], Split(t, b), NEW v \in 0..MaxCalls,
         v <= Sent(t)', Sent(t) <= Sent(t)', Sent(t) \in Nat, Sent(t)' \in Nat,
         running => Numbered(h.records, t, b[Len(Queue)], v) /\ Numbered(batch', t, v, Sent(t)')
  PROVE  \E c \in [0..Len(Queue') -> 0..MaxCalls] : Split(t, c)'
<1>1. CASE ~running' /\ Queue' = Queue
  <2>1. Len(Queue) \in Nat
    BY ConcatProperties DEF Queue, BridgeType
  <2>2. \A k \in 0..Len(Queue) : b[k] \in Nat /\ b[k] <= Sent(t)'
    BY <2>1, BridgeAssumption DEF Split
  <2>3. Split(t, b)'
    BY <1>1, <2>2 DEF Split
  <2> QED BY <1>1, <2>3
<1>2. CASE running /\ Queue' = Append(Queue, h)
  <2>1. Queue \in Seq(Header)
    BY ConcatProperties DEF Queue, BridgeType
  <2>2. /\ Len(Queue) \in Nat /\ Len(Queue') = Len(Queue) + 1
        /\ \A k \in 1..Len(Queue) + 1 : Queue'[k] = IF k <= Len(Queue) THEN Queue[k] ELSE h
    BY <1>2, <2>1, AppendLast
  <2>3. PICK c \in [0..Len(Queue') -> 0..MaxCalls] :
          \A k \in 0..Len(Queue') : c[k] = IF k <= Len(Queue) THEN b[k] ELSE v
    <3> DEFINE f == [k \in 0..Len(Queue') |-> IF k <= Len(Queue) THEN b[k] ELSE v]
    <3>1. f \in [0..Len(Queue') -> 0..MaxCalls]
      BY <2>2
    <3> QED BY <3>1
  <2>4. Numbered(applied', t, 0, c[0])
    <3>1. c[0] = b[0]
      BY <2>2, <2>3
    <3> QED BY <3>1 DEF Split
  <2>5. ASSUME NEW k \in 1..Len(Queue') PROVE Numbered(Queue'[k].records, t, c[k - 1], c[k])
    <3>1. CASE k <= Len(Queue)
      <4>1. Queue'[k] = Queue[k] /\ c[k] = b[k] /\ c[k - 1] = b[k - 1] /\ k \in 1..Len(Queue)
        BY <2>2, <2>3, <2>5, <3>1
      <4> QED BY <4>1 DEF Split
    <3>2. CASE k = Len(Queue) + 1
      <4>1. Queue'[k] = h /\ c[k] = v /\ c[k - 1] = b[Len(Queue)]
        BY <2>2, <2>3, <3>2
      <4> QED BY <1>2, <4>1
    <3> QED BY <2>2, <2>5, <3>1, <3>2
  <2>6. Numbered(batch', t, c[Len(Queue')], Sent(t)')
    <3>1. c[Len(Queue')] = v
      BY <2>2, <2>3
    <3> QED BY <1>2, <3>1
  <2>7. \A k \in 0..Len(Queue') : c[k] <= Sent(t)'
    <3>1. \A k \in 0..Len(Queue) : b[k] \in Nat
      <4>1. \A x \in 0..MaxCalls : x \in Nat
        OBVIOUS
      <4>2. \A k \in 0..Len(Queue) : b[k] \in 0..MaxCalls
        OBVIOUS
      <4> QED BY <4>1, <4>2
    <3>2. \A k \in 0..Len(Queue) : b[k] <= Sent(t)
      BY DEF Split
    <3> QED BY <2>2, <2>3, <3>1, <3>2
  <2>8. Split(t, c)'
    BY <2>4, <2>5, <2>6, <2>7 DEF Split
  <2> QED BY <2>8
<1> QED
  BY <1>1, <1>2, Closed

(* A record of u joins the batch. *)
LEMMA SplitAppended ==
  ASSUME BridgeType, LockInv, OrderInv, NEW t \in Threads, NEW u \in Threads, SetAppend(u)
  PROVE  \E b \in [0..Len(Queue') -> 0..MaxCalls] : Split(t, b)'
<1>1. PICK b \in [0..Len(Queue) -> 0..MaxCalls] : Split(t, b)
  BY DEF OrderInv
<1>2. pc[u] = "append" /\ \A x \in Threads : pc'[x] = IF x = u THEN "idle" ELSE pc[x]
  BY Moved DEF SetAppend
<1>3. Queue' = Queue /\ UNCHANGED <<applied, running, calls>>
  BY DEF SetAppend, queueVars, serverVars, callVars, Queue
<1>4. <<Call(u)>> \in Seq(CallType) /\ Call(u) \in CallType /\ batch' = batch \o <<Call(u)>>
  BY <1>2, CallIsCall, AppendIsConcat DEF SetAppend, BridgeType
<1>5. Queue \in Seq(Header) /\ Len(Queue) \in Nat
  BY ConcatProperties DEF Queue, BridgeType
<1>6. ASSUME running PROVE Numbered(batch', t, b[Len(Queue)], Sent(t)')
  <2>1. Numbered(batch, t, b[Len(Queue)], Sent(t)) /\ b[Len(Queue)] \in Nat /\ Sent(t) \in Nat
    BY <1>1, <1>5, <1>6, SentBounds DEF Split
  <2>2. Numbered(<<Call(u)>>, t, Sent(t), Sent(t)') /\ Sent(t)' \in Nat
    <3>1. CASE t = u
      <4>1. Sent(t) = calls[t] - 1 /\ Sent(t)' = calls[t] /\ calls[t] \in Nat \ {0}
        BY <1>2, <1>3, <3>1 DEF Sent, Owing, BridgeType
      <4> QED BY <3>1, <4>1, NumberedOne DEF Call
    <3>2. CASE t # u
      <4>1. Sent(t)' = Sent(t)
        BY <1>2, <1>3, <3>2 DEF Sent
      <4>2. NoneOf(<<Call(u)>>, t)
        BY <3>2 DEF NoneOf, Call
      <4> QED BY <2>1, <4>1, <4>2, NumberedNone
    <3> QED BY <3>1, <3>2
  <2> QED BY <1>4, <2>1, <2>2, NumberedConcat DEF BridgeType
<1>7. \A k \in 0..Len(Queue) : b[k] <= Sent(t)'
  <2>1. \A k \in 0..Len(Queue) : b[k] \in Nat /\ b[k] <= Sent(t)
    BY <1>1, <1>5, BridgeAssumption DEF Split
  <2>2. Sent(t) <= Sent(t)' /\ Sent(t) \in Nat /\ Sent(t)' \in Nat
    <3>1. calls[t] \in Nat /\ (pc[t] # "idle" => calls[t] >= 1)
      BY BridgeAssumption DEF BridgeType
    <3>2. pc'[t] \in Owing => pc[t] \in Owing
      BY <1>2 DEF Owing
    <3>3. pc[t] \in Owing => pc[t] # "idle"
      BY DEF Owing
    <3> QED BY <1>3, <3>1, <3>2, <3>3 DEF Sent
  <2> QED BY <2>1, <2>2
<1>8. Split(t, b)'
  BY <1>1, <1>3, <1>6, <1>7 DEF Split
<1> QED BY <1>3, <1>8

(* The server replays the records of the header at the front. *)
LEMMA SplitProcessed ==
  ASSUME BridgeType, OrderInv, NEW t \in Threads, Process
  PROVE  \E b \in [0..Len(Queue') -> 0..MaxCalls] : Split(t, b)'
<1>1. PICK b \in [0..Len(Queue) -> 0..MaxCalls] : Split(t, b)
  BY DEF OrderInv
<1>2. /\ Head(visible) \in Header /\ Head(visible) = Queue[1] /\ Len(Queue) \in Nat \ {0}
      /\ Len(Queue') = Len(Queue) - 1 /\ \A k \in 1..Len(Queue') : Queue'[k] = Queue[k + 1]
  BY PullQueue DEF Process
<1>3. UNCHANGED <<batch, running>> /\ Sent(t)' = Sent(t) /\ applied' = applied \o Queue[1].records
  BY <1>2 DEF Process, lockVars, callVars, Sent
<1>4. PICK c \in [0..Len(Queue') -> 0..MaxCalls] : \A k \in 0..Len(Queue') : c[k] = b[k + 1]
  <2> DEFINE f == [k \in 0..Len(Queue') |-> b[k + 1]]
  <2>1. f \in [0..Len(Queue') -> 0..MaxCalls]
    BY <1>2
  <2> QED BY <2>1
<1>5. Numbered(applied', t, 0, c[0])
  <2>1. Numbered(applied, t, 0, b[0]) /\ Numbered(Queue[1].records, t, b[0], b[1])
    BY <1>1, <1>2 DEF Split
  <2>2. applied \in Seq(CallType) /\ Queue[1].records \in Seq(CallType) /\ b[0] \in Nat /\ b[1] \in Nat
    <3>1. Queue[1] \in Header /\ applied \in Seq(CallType)
      BY <1>2 DEF BridgeType
    <3>2. Queue[1].records \in Seq(CallType)
      BY <3>1 DEF Header
    <3>3. b[0] \in Nat /\ b[1] \in Nat
      BY <1>2, BridgeAssumption
    <3> QED BY <3>1, <3>2, <3>3
  <2>3. Numbered(applied \o Queue[1].records, t, 0, b[1])
    BY <2>1, <2>2, NumberedConcat
  <2>4. c[0] = b[1]
    BY <1>2, <1>4
  <2> QED BY <1>3, <2>3, <2>4
<1>6. ASSUME NEW k \in 1..Len(Queue') PROVE Numbered(Queue'[k].records, t, c[k - 1], c[k])
  <2>1. c[k - 1] = b[k] /\ c[k] = b[k + 1] /\ Queue'[k] = Queue[k + 1] /\ k + 1 \in 1..Len(Queue)
    BY <1>2, <1>4, <1>6
  <2>2. Numbered(Queue[k + 1].records, t, b[(k + 1) - 1], b[k + 1])
    BY <1>1, <2>1 DEF Split
  <2>3. (k + 1) - 1 = k
    BY <1>6
  <2> QED BY <2>1, <2>2, <2>3
<1>7. running' => Numbered(batch', t, c[Len(Queue')], Sent(t)')
  <2>1. c[Len(Queue')] = b[Len(Queue)]
    BY <1>2, <1>4
  <2> QED BY <1>1, <1>3, <2>1 DEF Split
<1>8. \A k \in 0..Len(Queue') : c[k] <= Sent(t)'
  <2>1. \A k \in 0..Len(Queue') : c[k] = b[k + 1] /\ k + 1 \in 0..Len(Queue)
    BY <1>2, <1>4
  <2>2. \A k \in 0..Len(Queue) : b[k] <= Sent(t)
    BY <1>1 DEF Split
  <2> QED BY <1>3, <2>1, <2>2
<1>9. Split(t, c)'
  BY <1>5, <1>6, <1>7, <1>8 DEF Split
<1> QED BY <1>9

---------------------------------------------------------------------------
(* BridgeType *)

(* The types hold at the start.                                             *)
LEMMA InitBridgeType == Init => BridgeType
<1> SUFFICES ASSUME Init PROVE BridgeType
  OBVIOUS
<1>1. /\ batch \in Seq(CallType) /\ held \in Seq(Header) /\ visible \in Seq(Header)
      /\ applied \in Seq(CallType) /\ responses \in Seq(Nat) /\ data \in Seq(CallType)
  BY DEF Init
<1>2. calls \in [Threads -> 0..MaxCalls] /\ \A t \in Threads : pc[t] = "idle"
  BY BridgeAssumption DEF Init
<1> QED
  BY <1>1, <1>2 DEF Init, BridgeType

(* Who waits or takes finds the payload of its call in front. *)
(* No number is waited for twice below the client's count. *)
LEMMA UIDUnique ==
  ASSUME BridgeType, AnswerInv, NEW t \in Threads, NEW u \in Threads, t # u,
         pc[t] \in Waiting, pc[u] \in Waiting, NEW j \in 1..Len(responses), responses[j] = uid[t]
  PROVE  uid[u] # uid[t]
<1>1. Len(Queue) \in Nat /\ serverUID \in Nat /\ cmdUID \in Nat
  BY ConcatProperties DEF Queue, BridgeType
<1>2. responses[j] < serverUID /\ serverUID <= cmdUID
  BY <1>1 DEF AnswerInv, UIDInv, PayloadInv
<1>3. uid[t] \in Nat
  BY DEF BridgeType
<1> QED BY <1>1, <1>2, <1>3 DEF AnswerInv, UIDInv

(* Who takes finds the payload of its call in front. *)
LEMMA OwnPayload ==
  ASSUME BridgeType, AnswerInv, NEW t \in Threads, pc[t] = "take"
  PROVE  Lag = 0 /\ Len(responses) = Len(data) /\ data # <<>> /\ Head(data) = Call(t)
<1>1. responses # <<>> /\ responses[1] = uid[t] /\ responses \in Seq(Nat) /\ data \in Seq(CallType)
  BY DEF AnswerInv, FrontInv, BridgeType
<1>2. Len(responses) \in Nat \ {0} /\ Len(data) \in Nat /\ 1 \in 1..Len(responses)
  BY <1>1, EmptySeq
<1>3. ASSUME NEW u \in Threads, pc[u] = "pop" PROVE FALSE
  <2>1. responses[1] = uid[u] /\ t # u
    BY <1>3 DEF AnswerInv, FrontInv
  <2> QED BY <1>1, <1>2, <1>3, <2>1, UIDUnique DEF Waiting
<1>4. Lag = 0
  BY <1>3 DEF Lag
<1>5. Len(responses) = Len(data)
  BY <1>2, <1>4 DEF AnswerInv, PayloadInv
<1>6. data[1 - 0] = Call(t)
  BY <1>1, <1>2, <1>4 DEF AnswerInv, PayloadInv
<1> QED
  BY <1>1, <1>2, <1>4, <1>5, <1>6, EmptySeq

(* Every step keeps the types.                                              *)
LEMMA NextBridgeType == LockInv /\ BridgeType /\ AnswerInv /\ [Next]_vars => BridgeType'
<1> SUFFICES ASSUME LockInv, BridgeType, AnswerInv, [Next]_vars PROVE BridgeType'
  OBVIOUS
<1> USE DEF lockVars, queueVars, serverVars, answerVars, callVars, waitVars
<1>1. CASE UNCHANGED vars
  BY <1>1 DEF BridgeType, vars
<1>2. CASE Process
  <2>1. /\ Head(visible) \in [wants : BOOLEAN, records : Seq(CallType)]
        /\ Head(visible).wants => Len(Head(visible).records) = 1
        /\ visible' \in Seq(Header)
    BY <1>2, PullQueue DEF Process, Header
  <2>2. applied' \in Seq(CallType)
    BY <1>2, <2>1, ConcatProperties DEF Process, BridgeType
  <2>3. responses' \in Seq(Nat) /\ data' \in Seq(CallType)
    <3>1. CASE Head(visible).wants
      <4>1. Head(Head(visible).records) \in CallType
        BY <2>1, <3>1
      <4>2. responses' = Append(responses, serverUID) /\ data' = Append(data, Head(Head(visible).records))
        BY <1>2, <3>1 DEF Process
      <4>3. responses \in Seq(Nat) /\ serverUID \in Nat /\ data \in Seq(CallType)
        BY DEF BridgeType
      <4> QED BY <4>1, <4>2, <4>3, AppendProperties
    <3>2. CASE ~Head(visible).wants
      BY <1>2, <3>2 DEF Process, BridgeType
    <3> QED BY <3>1, <3>2
  <2> QED BY <1>2, <2>1, <2>2, <2>3 DEF Process, BridgeType
<1>3. ASSUME NEW t \in Threads, Step(t) PROVE BridgeType'
  <2>1. CASE Set(t)
    <3>1. calls' \in [Threads -> 0..MaxCalls] /\ \A u \in Threads : calls'[u] = IF u = t THEN calls[u] + 1 ELSE calls[u]
      BY <2>1, BridgeAssumption DEF Set, BridgeType
    <3>2. kind' \in [Threads -> {"none", "set", "send", "ask"}]
      BY <2>1 DEF Set, BridgeType
    <3>3. \A u \in Threads : pc'[u] # "idle" => calls'[u] >= 1
      <4>1. \A u \in Threads : u # t => pc'[u] = pc[u]
        BY <2>1 DEF Set, LockInv, Goto
      <4>2. \A u \in Threads : calls[u] \in Nat /\ (pc[u] # "idle" => calls[u] >= 1)
        BY DEF BridgeType
      <4> QED BY <3>1, <4>1, <4>2
    <3> QED BY <2>1, <3>1, <3>2, <3>3 DEF Set, BridgeType
  <2>2. CASE SetFlush(t)
    <3>1. PICK l : Goto(t, l)
      BY <2>2 DEF SetFlush, flushStateBatch, Open
    <3> QED BY <2>2, <3>1, Moved DEF SetFlush, flushStateBatch, BridgeType
  <2>3. CASE SetFlushed(t)
    <3>1. [wants |-> FALSE, records |-> batch] \in Header
      BY DEF Header, BridgeType
    <3>2. held' \in Seq(Header) /\ visible' \in Seq(Header) /\ cmdUID' \in Nat /\ running' \in BOOLEAN
      BY <2>3, <3>1, Closed DEF SetFlushed
    <3>3. batch' \in Seq(CallType)
      BY <2>3 DEF SetFlushed
    <3>4. \A u \in Threads : pc'[u] # "idle" => calls'[u] >= 1
      BY <2>3, Moved DEF SetFlushed, BridgeType
    <3> QED BY <2>3, <3>2, <3>3, <3>4 DEF SetFlushed, BridgeType
  <2>4. CASE SetAppend(t)
    <3>1. batch' \in Seq(CallType)
      BY <2>4, CallIsCall DEF SetAppend, BridgeType
    <3> QED BY <2>4, <3>1, Moved DEF SetAppend, BridgeType
  <2>5. ASSUME NEW k \in {"send", "ask"}, Begin(t, k) PROVE BridgeType'
    <3>1. calls' \in [Threads -> 0..MaxCalls] /\ \A u \in Threads : calls'[u] = IF u = t THEN calls[u] + 1 ELSE calls[u]
      BY <2>5, BridgeAssumption DEF Begin, BridgeType
    <3>2. kind' \in [Threads -> {"none", "set", "send", "ask"}]
      BY <2>5 DEF Begin, BridgeType
    <3>3. \A u \in Threads : pc'[u] # "idle" => calls'[u] >= 1
      <4>1. \A u \in Threads : u # t => pc'[u] = pc[u]
        BY <2>5 DEF Begin, LockInv, Goto
      <4>2. \A u \in Threads : calls[u] \in Nat /\ (pc[u] # "idle" => calls[u] >= 1)
        BY DEF BridgeType
      <4> QED BY <3>1, <4>1, <4>2
    <3> QED BY <2>5, <3>1, <3>2, <3>3 DEF Begin, BridgeType
  <2>6. CASE PendingLock(t)
    BY <2>6, Moved DEF PendingLock, BridgeType
  <2>7. CASE PendingGone(t)
    BY <2>7, Moved DEF PendingGone, BridgeType
  <2>8. CASE PendingFlush(t)
    <3>1. PICK l : Goto(t, l)
      BY <2>8 DEF PendingFlush, flushStateBatch, Open
    <3> QED BY <2>8, <3>1, Moved DEF PendingFlush, flushStateBatch, BridgeType
  <2>9. CASE PendingFlushed(t)
    <3>1. [wants |-> FALSE, records |-> batch] \in Header
      BY DEF Header, BridgeType
    <3>2. held' \in Seq(Header) /\ visible' \in Seq(Header) /\ cmdUID' \in Nat /\ running' \in BOOLEAN
      BY <2>9, <3>1, Closed DEF PendingFlushed
    <3>3. batch' \in Seq(CallType)
      BY <2>9 DEF PendingFlushed
    <3>4. \A u \in Threads : pc'[u] # "idle" => calls'[u] >= 1
      BY <2>9, Moved DEF PendingFlushed, BridgeType
    <3> QED BY <2>9, <3>2, <3>3, <3>4 DEF PendingFlushed, BridgeType
  <2>10. CASE Construct(t)
    <3>1. PICK l : Goto(t, l)
      BY <2>10 DEF Construct, Open
    <3> QED BY <2>10, <3>1, Moved DEF Construct, BridgeType
  <2>11. CASE Destruct(t)
    <3>1. PICK h \in Header : Close(h)
      BY <2>11, CallIsCall DEF Destruct
    <3>2. PICK l : Goto(t, l)
      BY <2>11 DEF Destruct
    <3> QED BY <2>11, <3>1, <3>2, Closed, Moved DEF Destruct, BridgeType
  <2>12. CASE PushSpins(t)
    <3>1. held' \in Seq(Header) /\ visible' \in Seq(Header)
      BY <2>12, PublishQueue DEF PushSpins
    <3> QED BY <2>12, <3>1 DEF PushSpins, BridgeType
  <2>13. CASE PublishForWait(t)
    <3>1. held' \in Seq(Header) /\ visible' \in Seq(Header)
      BY <2>13, PublishQueue DEF PublishForWait
    <3> QED BY <2>13, <3>1, Moved DEF PublishForWait, BridgeType
  <2>14. CASE PeekMine(t)
    BY <2>14, Moved DEF PeekMine, BridgeType
  <2>15. CASE PeekOther(t) \/ PeekTimeout(t)
    <3>1. PICK l : Goto(t, l)
      BY <2>15 DEF PeekOther, PeekTimeout, Missed
    <3>2. attempts' \in [Threads -> Nat]
      <4>1. attempts' = [attempts EXCEPT ![t] = attempts[t] + 1]
        BY <2>15 DEF PeekOther, PeekTimeout, Missed
      <4>2. attempts \in [Threads -> Nat]
        BY DEF BridgeType
      <4> QED BY <4>1, <4>2
    <3>3. \A u \in Threads : pc'[u] # "idle" => calls'[u] >= 1
      BY <2>15, <3>1, Moved DEF PeekOther, PeekTimeout, Missed, BridgeType
    <3> QED BY <2>15, <3>2, <3>3 DEF PeekOther, PeekTimeout, Missed, BridgeType
  <2>16. CASE Fail(t)
    BY <2>16, Moved DEF Fail, BridgeType
  <2>17. CASE TakeData(t)
    <3>1. Head(data) \in CallType /\ data' \in Seq(CallType)
      BY <2>17, OwnPayload DEF TakeData, BridgeType
    <3> QED BY <2>17, <3>1, Moved DEF TakeData, BridgeType
  <2>18. CASE PopFront(t)
    <3>1. responses' \in Seq(Nat)
      BY <2>18 DEF PopFront, AnswerInv, FrontInv, BridgeType
    <3> QED BY <2>18, <3>1, Moved DEF PopFront, BridgeType
  <2> QED
    BY <1>3, <2>1, <2>2, <2>3, <2>4, <2>5, <2>6, <2>7, <2>8, <2>9, <2>10, <2>11, <2>12, <2>13, <2>14,
       <2>15, <2>16, <2>17, <2>18 DEF Step
<1> QED
  BY <1>1, <1>2, <1>3 DEF Next

---------------------------------------------------------------------------
(* BatchInv *)

(* The batch is empty at the start.                                         *)
LEMMA InitBatchInv == Init => BatchInv
BY DEF Init, BatchInv

(* Only who is inside a flush may leave the batch without its flag. *)
LEMMA NextBatchInv == LockInv /\ BridgeType /\ BatchInv /\ [Next]_vars => BatchInv'
<1> SUFFICES ASSUME LockInv, BridgeType, BatchInv, [Next]_vars PROVE BatchInv'
  OBVIOUS
<1> USE DEF lockVars, queueVars, serverVars, answerVars, callVars, waitVars
<1>1. CASE UNCHANGED vars
  BY <1>1 DEF BatchInv, NoneOf, vars
<1>2. CASE Process
  BY <1>2 DEF Process, BatchInv, NoneOf
<1>3. ASSUME NEW t \in Threads, Step(t) PROVE BatchInv'
  <2>1. ASSUME NEW l, Goto(t, l), pc[t] \notin Sending, l \notin {"ctor", "build"}, UNCHANGED <<batch, pending>>
        PROVE  BatchInv'
    BY <2>1, Moved DEF BatchInv, NoneOf, Sending
  <2>2. CASE SetFlush(t) \/ PendingFlush(t)
    <3>1. CASE batch = <<>>
      BY <2>2, <3>1, Moved DEF SetFlush, PendingFlush, flushStateBatch, BatchInv, NoneOf
    <3>2. CASE batch # <<>>
      <4>1. inProgress = FALSE
        BY <2>2, NoneOpen DEF SetFlush, PendingFlush, Locked, Building
      <4>2. PICK l \in Sending : Goto(t, l)
        BY <2>2, <3>2, <4>1 DEF SetFlush, PendingFlush, flushStateBatch, Open, Sending
      <4>3. pc'[t] \in Sending /\ UNCHANGED batch
        BY <2>2, <4>2, Moved DEF SetFlush, PendingFlush, flushStateBatch
      <4>4. \A u \in Threads : pc'[u] = "build" => pc[u] = "build"
        BY <4>2, Moved DEF Sending
      <4> QED BY <4>3, <4>4 DEF BatchInv, NoneOf
    <3> QED BY <3>1, <3>2
  <2>3. CASE SetFlushed(t) \/ PendingFlushed(t)
    BY <2>3, Moved DEF SetFlushed, PendingFlushed, BatchInv, NoneOf
  <2>4. CASE SetAppend(t)
    <3>1. \A u \in Threads : pc[u] \in Locked => u = t
      BY <2>4 DEF SetAppend, Release, LockInv
    <3>2. pc[t] = "append" /\ pending' = TRUE /\ batch' = Append(batch, Call(t)) /\ batch \in Seq(CallType)
      BY <2>4 DEF SetAppend, BridgeType
    <3>3. \A u \in Threads : pc'[u] = IF u = t THEN "idle" ELSE pc[u]
      BY <2>4, Moved DEF SetAppend
    <3>4. \A u \in Threads : pc[u] \notin Sending /\ pc[u] # "build"
      BY <3>1, <3>2 DEF Locked, Building, Sending
    <3>5. ASSUME NEW u \in Threads, pc'[u] = "ctor" PROVE NoneOf(batch', u)
      <4>1. u # t /\ NoneOf(batch, u)
        BY <3>3, <3>4, <3>5 DEF BatchInv
      <4>2. Call(t).by # u /\ Call(t) \in CallType
        BY <3>2, <4>1, CallIsCall DEF Call
      <4>3. DOMAIN batch = 1..Len(batch) /\ DOMAIN batch' = 1..Len(batch')
        BY <3>2, <4>2, LenProperties
      <4> QED BY <3>2, <4>1, <4>2, <4>3, AppendLast DEF NoneOf
    <3> QED BY <3>2, <3>3, <3>4, <3>5 DEF BatchInv
  <2>5. ASSUME NEW k, Begin(t, k) PROVE BatchInv'
    <3>1. pc[t] = "idle" /\ UNCHANGED <<batch, pending>> /\ Goto(t, IF pending THEN "pending" ELSE "ctor")
      BY <2>5 DEF Begin
    <3>2. \A u \in Threads : pc'[u] = IF u = t THEN IF pending THEN "pending" ELSE "ctor" ELSE pc[u]
      BY <3>1, Moved
    <3>3. \A u \in Threads : pc[u] \in Sending => pc'[u] \in Sending
      BY <3>1, <3>2 DEF Sending
    <3>4. pc'[t] = "ctor" => NoneOf(batch, t) \/ \E u \in Threads : pc'[u] \in Sending
      BY <3>1, <3>2, <3>3 DEF BatchInv, NoneOf
    <3> QED BY <3>1, <3>2, <3>3, <3>4 DEF BatchInv, NoneOf
  <2>6. CASE PendingGone(t)
    <3>1. \A u \in Threads : pc[u] \in Locked => u = t
      BY <2>6 DEF PendingGone, Release, LockInv
    <3>2. batch = <<>>
      BY <2>6, <3>1 DEF PendingGone, BatchInv, Sending, Locked, Building
    <3> QED BY <2>6, <3>2, Moved DEF PendingGone, BatchInv, NoneOf
  <2>7. CASE Construct(t)
    <3>1. \A u \in Threads : pc[u] \notin Locked
      BY <2>7, BridgeAssumption DEF Construct, Acquire, LockInv
    <3>2. NoneOf(batch, t) /\ UNCHANGED <<batch, pending>>
      BY <2>7, <3>1 DEF Construct, BatchInv, Sending, Locked, Building
    <3>3. PICK l \in {"build", "fatal"} : Goto(t, l)
      BY <2>7 DEF Construct, Open
    <3>4. \A u \in Threads : pc'[u] = IF u = t THEN l ELSE pc[u]
      BY <3>3, Moved
    <3>5. ~ \E u \in Threads : pc[u] \in Sending
      BY <3>1 DEF Locked, Building, Sending
    <3> QED BY <3>2, <3>4, <3>5 DEF BatchInv, NoneOf
  <2>8. CASE PushSpins(t)
    BY <2>8 DEF PushSpins, BatchInv, NoneOf
  <2>9. CASE Set(t) \/ PendingLock(t) \/ Destruct(t)
    <3>1. PICK l \in {"full", "append", "flush", "publish", "idle"} : Goto(t, l)
      BY <2>9 DEF Set, PendingLock, Destruct
    <3> QED BY <2>1, <2>9, <3>1 DEF Set, PendingLock, Destruct, Sending
  <2>10. CASE PublishForWait(t) \/ PeekMine(t) \/ PeekOther(t) \/ PeekTimeout(t) \/ Fail(t) \/ TakeData(t) \/ PopFront(t)
    <3>1. PICK l \in {"wait", "take", "failed", "idle", "pop"} : Goto(t, l)
      BY <2>10 DEF PublishForWait, PeekMine, PeekOther, PeekTimeout, Missed, Fail, TakeData, PopFront
    <3>2. pc[t] \notin Sending /\ UNCHANGED <<batch, pending>>
      BY <2>10 DEF PublishForWait, PeekMine, PeekOther, PeekTimeout, Missed, Fail, TakeData, PopFront, Sending
    <3> QED BY <2>1, <3>1, <3>2
  <2> QED
    BY <1>3, <2>2, <2>3, <2>4, <2>5, <2>6, <2>7, <2>8, <2>9, <2>10 DEF Step
<1> QED
  BY <1>1, <1>2, <1>3 DEF Next

---------------------------------------------------------------------------
(* OrderInv *)

(* No call is made at the start.                                            *)
LEMMA InitOrderInv == Init => OrderInv
<1> SUFFICES ASSUME Init, NEW t \in Threads
             PROVE  \E b \in [0..Len(Queue) -> 0..MaxCalls] : Split(t, b)
  BY DEF OrderInv
<1>1. Queue = <<>> /\ Len(Queue) = 0
  BY ConcatEmptySeq DEF Init, Queue
<1>2. Sent(t) = 0 /\ NoneOf(<<>>, t)
  BY DEF Init, Sent, Owing, NoneOf
<1>3. PICK b \in [0..Len(Queue) -> 0..MaxCalls] : b[0] = 0
  <2> DEFINE f == [k \in 0..0 |-> 0]
  <2>1. f \in [0..Len(Queue) -> 0..MaxCalls] /\ f[0] = 0
    BY <1>1, BridgeAssumption
  <2> QED BY <2>1
<1>4. Numbered(<<>>, t, 0, 0)
  BY <1>2, NumberedNone
<1>5. Split(t, b)
  BY <1>1, <1>2, <1>3, <1>4 DEF Init, Split
<1> QED BY <1>5

(* A flush sends the batch as it is. *)
LEMMA SplitFlushed ==
  ASSUME BridgeType, LockInv, OrderInv, NEW t \in Threads, NEW u \in Threads,
         SetFlushed(u) \/ PendingFlushed(u)
  PROVE  \E b \in [0..Len(Queue') -> 0..MaxCalls] : Split(t, b)'
<1>1. PICK b \in [0..Len(Queue) -> 0..MaxCalls] : Split(t, b)
  BY DEF OrderInv
<1> DEFINE h == [wants |-> FALSE, records |-> batch]
<1>2. h \in Header /\ h.records = batch
  BY DEF Header, BridgeType
<1>3. Close(h) /\ batch' = <<>> /\ UNCHANGED <<applied, calls>>
  BY DEF SetFlushed, PendingFlushed, serverVars, callVars
<1>4. PICK l \in {"append", "ctor"} : Goto(u, l) /\ pc[u] \in Sending
  BY DEF SetFlushed, PendingFlushed, Sending
<1>5. Sent(t)' = Sent(t)
  BY <1>3, <1>4, Moved DEF Sent, Owing, Sending
<1>6. Sent(t) \in 0..MaxCalls /\ Sent(t) \in Nat
  BY SentBounds, BridgeAssumption
<1>7. Numbered(batch', t, Sent(t), Sent(t)')
  <2>1. NoneOf(<<>>, t)
    BY DEF NoneOf
  <2>2. Numbered(<<>>, t, Sent(t), Sent(t))
    BY <1>6, <2>1, NumberedNone
  <2> QED BY <1>3, <1>5, <2>2
<1>8. running => Numbered(h.records, t, b[Len(Queue)], Sent(t)) /\ Numbered(batch', t, Sent(t), Sent(t)')
  BY <1>1, <1>2, <1>7 DEF Split
<1>9. Sent(t) <= Sent(t)' /\ Sent(t) \in Nat /\ Sent(t)' \in Nat
  BY <1>5, <1>6, BridgeAssumption
<1> HIDE DEF h
<1> QED BY <1>1, <1>2, <1>3, <1>6, <1>8, <1>9, SplitClosed

(* A command carries the call of its thread, which has nothing in the batch. *)
LEMMA SplitDestructed ==
  ASSUME BridgeType, LockInv, OrderInv, BatchInv, NEW t \in Threads, NEW u \in Threads, Destruct(u)
  PROVE  \E b \in [0..Len(Queue') -> 0..MaxCalls] : Split(t, b)'
<1>1. PICK b \in [0..Len(Queue) -> 0..MaxCalls] : Split(t, b)
  BY DEF OrderInv
<1> DEFINE h == [wants |-> kind[u] = "ask", records |-> <<Call(u)>>]
<1>2. pc[u] = "build" /\ Close(h) /\ UNCHANGED <<applied, calls, batch>>
  BY DEF Destruct, serverVars, callVars
<1>3. h \in Header /\ h.records = <<Call(u)>>
  BY <1>2, CallIsCall
<1>4. PICK l \in {"publish", "idle"} : Goto(u, l)
  BY DEF Destruct
<1>5. \A x \in Threads : pc'[x] = IF x = u THEN l ELSE pc[x]
  BY <1>4, Moved
<1>6. Queue \in Seq(Header) /\ Len(Queue) \in Nat
  BY ConcatProperties DEF Queue, BridgeType
<1>7. Sent(t)' \in 0..MaxCalls /\ Sent(t) \in Nat /\ Sent(t)' \in Nat /\ Sent(t) <= Sent(t)'
  <2>1. calls[t] \in Nat /\ calls[t] <= MaxCalls /\ MaxCalls \in Nat /\ (pc[t] # "idle" => calls[t] >= 1)
    BY BridgeAssumption DEF BridgeType
  <2>2. pc'[t] \in Owing => pc[t] \in Owing
    BY <1>2, <1>5 DEF Owing
  <2>3. pc[t] \in Owing => pc[t] # "idle"
    BY DEF Owing
  <2> QED BY <1>2, <2>1, <2>2, <2>3 DEF Sent
<1>8. \E v \in 0..MaxCalls :
        /\ v <= Sent(t)'
        /\ running => Numbered(h.records, t, b[Len(Queue)], v) /\ Numbered(batch', t, v, Sent(t)')
  <2>1. running => Numbered(batch, t, b[Len(Queue)], Sent(t))
    BY <1>1 DEF Split
  <2>2. b[Len(Queue)] \in 0..MaxCalls /\ b[Len(Queue)] \in Nat /\ b[Len(Queue)] <= Sent(t)'
    BY <1>1, <1>6, <1>7, BridgeAssumption DEF Split
  <2>3. CASE t = u
    <3>1. NoneOf(batch, t)
      BY <1>2, <2>3 DEF BatchInv
    <3>2. running => b[Len(Queue)] = Sent(t)
      BY <1>7, <2>1, <2>2, <3>1, NoneNumbered
    <3>3. Sent(t) = calls[t] - 1 /\ Sent(t)' = calls[t] /\ calls[t] \in Nat \ {0}
      BY <1>2, <1>5, <2>3 DEF Sent, Owing, BridgeType
    <3>4. Numbered(<<Call(u)>>, t, calls[t] - 1, calls[t])
      BY <2>3, <3>3, NumberedOne DEF Call
    <3>5. Numbered(batch, t, calls[t], calls[t])
      BY <3>1, <3>3, NumberedNone
    <3> QED BY <1>2, <1>3, <1>7, <3>2, <3>3, <3>4, <3>5
  <2>4. CASE t # u
    <3>1. Sent(t)' = Sent(t)
      BY <1>2, <1>5, <2>4 DEF Sent
    <3>2. NoneOf(<<Call(u)>>, t)
      BY <2>4 DEF NoneOf, Call
    <3>3. Numbered(<<Call(u)>>, t, b[Len(Queue)], b[Len(Queue)])
      BY <2>2, <3>2, NumberedNone
    <3> QED BY <1>2, <1>3, <2>1, <2>2, <3>1, <3>3
  <2> QED BY <2>3, <2>4
<1>9. PICK v \in 0..MaxCalls :
        /\ v <= Sent(t)'
        /\ running => Numbered(h.records, t, b[Len(Queue)], v) /\ Numbered(batch', t, v, Sent(t)')
  BY <1>8
<1> HIDE DEF h
<1> QED BY <1>1, <1>2, <1>3, <1>7, <1>9, SplitClosed

(* The steps that change neither what is on its way nor what is owed. *)
LEMMA NextOrderInv == LockInv /\ BridgeType /\ OrderInv /\ BatchInv /\ [Next]_vars => OrderInv'
<1> SUFFICES ASSUME LockInv, BridgeType, OrderInv, BatchInv, [Next]_vars, NEW t \in Threads
             PROVE  \E b \in [0..Len(Queue') -> 0..MaxCalls] : Split(t, b)'
  BY DEF OrderInv
<1> USE DEF lockVars, queueVars, serverVars, answerVars, callVars, waitVars
<1>1. CASE UNCHANGED vars
  <2>1. UNCHANGED <<applied, batch, running>> /\ Queue' = Queue /\ Sent(t)' = Sent(t)
    BY <1>1 DEF vars, Queue, Sent
  <2> QED BY <2>1, SplitKept
<1>2. CASE Process
  BY <1>2, SplitProcessed
<1>3. ASSUME NEW u \in Threads, Step(u) PROVE \E b \in [0..Len(Queue') -> 0..MaxCalls] : Split(t, b)'
  <2>1. ASSUME NEW l, Goto(u, l), UNCHANGED calls, pc[u] \in Owing <=> l \in Owing,
               UNCHANGED <<applied, batch, running>>, Queue' = Queue
        PROVE  \E b \in [0..Len(Queue') -> 0..MaxCalls] : Split(t, b)'
    <3>1. Sent(t)' = Sent(t)
      BY <2>1, Moved DEF Sent
    <3> QED BY <2>1, <3>1, SplitKept
  <2>2. CASE Set(u) \/ \E k \in {"send", "ask"} : Begin(u, k)
    <3>1. PICK l \in Owing : Goto(u, l)
      BY <2>2 DEF Set, Begin, Owing
    <3>2. pc[u] = "idle" /\ calls' = [calls EXCEPT ![u] = calls[u] + 1] /\ UNCHANGED <<applied, batch, running>> /\ Queue' = Queue
      BY <2>2 DEF Set, Begin, Queue
    <3>3. calls[t] \in Nat /\ calls[u] \in Nat /\ calls'[t] = IF t = u THEN calls[t] + 1 ELSE calls[t]
      BY <3>2, BridgeAssumption DEF BridgeType
    <3>4. Sent(t)' = Sent(t)
      BY <3>1, <3>2, <3>3, Moved DEF Sent, Owing
    <3> QED BY <3>2, <3>4, SplitKept
  <2>3. CASE SetFlush(u) \/ PendingFlush(u)
    <3>1. inProgress = FALSE
      BY <2>3, NoneOpen DEF SetFlush, PendingFlush, Locked, Building
    <3>2. PICK l \in {"sendset", "sendpending", "append", "flush"} : Goto(u, l)
      BY <2>3, <3>1 DEF SetFlush, PendingFlush, flushStateBatch, Open
    <3>3. pc[u] \in Owing /\ l \in Owing /\ UNCHANGED <<calls, applied, batch, running>> /\ Queue' = Queue
      BY <2>3 DEF SetFlush, PendingFlush, flushStateBatch, Owing, Queue
    <3> QED BY <2>1, <3>2, <3>3
  <2>4. CASE SetFlushed(u) \/ PendingFlushed(u)
    BY <2>4, SplitFlushed
  <2>5. CASE SetAppend(u)
    BY <2>5, SplitAppended
  <2>6. CASE PendingLock(u) \/ PendingGone(u)
    <3>1. PICK l \in {"flush", "ctor"} : Goto(u, l)
      BY <2>6 DEF PendingLock, PendingGone
    <3>2. pc[u] \in Owing /\ l \in Owing /\ UNCHANGED <<calls, applied, batch, running>> /\ Queue' = Queue
      BY <2>6 DEF PendingLock, PendingGone, Owing, Queue
    <3> QED BY <2>1, <3>1, <3>2
  <2>7. CASE Construct(u)
    <3>1. \A x \in Threads : pc[x] \notin Locked
      BY <2>7, BridgeAssumption DEF Construct, Acquire, LockInv
    <3>2. Goto(u, "build")
      BY <2>7, <3>1 DEF Construct, Open, LockInv, Locked
    <3>3. pc[u] \in Owing /\ "build" \in Owing /\ UNCHANGED <<calls, applied, batch, running>> /\ Queue' = Queue
      BY <2>7 DEF Construct, Owing, Queue
    <3> QED BY <2>1, <3>2, <3>3
  <2>8. CASE Destruct(u)
    BY <2>8, SplitDestructed
  <2>9. CASE PushSpins(u)
    <3>1. Queue' = Queue /\ UNCHANGED <<applied, batch, running>> /\ Sent(t)' = Sent(t)
      BY <2>9, PublishQueue DEF PushSpins, Sent
    <3> QED BY <3>1, SplitKept
  <2>10. CASE PublishForWait(u)
    <3>1. Queue' = Queue /\ UNCHANGED <<calls, applied, batch, running>> /\ Goto(u, "wait") /\ pc[u] = "publish"
      BY <2>10, PublishQueue DEF PublishForWait
    <3> QED BY <2>1, <3>1 DEF Owing
  <2>11. CASE PeekMine(u) \/ PeekOther(u) \/ PeekTimeout(u) \/ Fail(u) \/ TakeData(u) \/ PopFront(u)
    <3>1. PICK l \in {"wait", "take", "failed", "idle", "pop"} : Goto(u, l)
      BY <2>11 DEF PeekMine, PeekOther, PeekTimeout, Missed, Fail, TakeData, PopFront
    <3>2. pc[u] \notin Owing /\ UNCHANGED <<calls, applied, batch, running>> /\ Queue' = Queue
      BY <2>11 DEF PeekMine, PeekOther, PeekTimeout, Missed, Fail, TakeData, PopFront, Queue, Owing
    <3> QED BY <2>1, <3>1, <3>2 DEF Owing
  <2> QED
    BY <1>3, <2>2, <2>3, <2>4, <2>5, <2>6, <2>7, <2>8, <2>9, <2>10, <2>11 DEF Step
<1> QED
  BY <1>1, <1>2, <1>3 DEF Next

(* What has been applied is a part of what was called. *)
LEMMA OrderInvOrders == BridgeType /\ OrderInv => ThreadOrder
<1> SUFFICES ASSUME BridgeType, OrderInv, NEW t \in Threads
             PROVE  \E last \in 0..calls[t] : Numbered(applied, t, 0, last)
  BY DEF ThreadOrder
<1>1. PICK b \in [0..Len(Queue) -> 0..MaxCalls] : Split(t, b)
  BY DEF OrderInv
<1>2. Len(Queue) \in Nat
  BY ConcatProperties DEF Queue, BridgeType
<1>3. b[0] \in Nat /\ b[0] <= Sent(t) /\ Sent(t) \in 0..calls[t] /\ calls[t] \in 0..MaxCalls
  BY <1>1, <1>2, SentBounds, BridgeAssumption DEF Split
<1>4. b[0] \in 0..calls[t]
  BY <1>3, BridgeAssumption
<1> QED BY <1>1, <1>4 DEF Split

---------------------------------------------------------------------------
(* AnswerInv, by what a step does to the places and the numbers *)

(* No answer is owed at the start.                                          *)
LEMMA InitAnswerInv == Init => AnswerInv
<1> SUFFICES ASSUME Init PROVE AnswerInv
  OBVIOUS
<1>1. Queue = <<>> /\ Len(Queue) = 0
  BY ConcatEmptySeq DEF Init, Queue
<1>2. \A t \in Threads : pc[t] = "idle"
  BY DEF Init
<1>3. Lag = 0
  BY <1>2 DEF Lag
<1> QED
  BY <1>1, <1>2, <1>3 DEF Init, AnswerInv, UIDInv, PayloadInv, FrontInv, OwnAnswer, Waiting

(* Thread t moves outside the wait, gives it up, or stays where it polls. *)
LEMMA AnswerAside ==
  ASSUME BridgeType, LockInv, AnswerInv, NEW t \in Threads, NEW l, Goto(t, l), pc[t] # "pop",
         \/ l \notin Waiting \cup {"build"}
         \/ l = "wait" /\ pc[t] \in {"publish", "wait"} /\ UNCHANGED calls
         \/ l = "take" /\ pc[t] = "wait" /\ UNCHANGED calls /\ responses # <<>> /\ responses[1] = uid[t],
         Queue' = Queue, UNCHANGED <<cmdUID, serverUID, responses, data, uid, got>>,
         running' => running, \A u \in Threads : u # t => calls'[u] = calls[u]
  PROVE  AnswerInv'
<1>1. \A u \in Threads : pc'[u] = IF u = t THEN l ELSE pc[u]
  BY Moved
<1>2. \A u \in Threads : pc'[u] \in Waiting => pc[u] \in Waiting /\ Call(u)' = Call(u)
  BY <1>1 DEF Waiting, Call
<1>3. \A u \in Threads : pc'[u] \in {"publish", "wait", "take"} => pc[u] \in {"publish", "wait", "take"}
  BY <1>1 DEF Waiting
<1>4. \A u \in Threads : pc'[u] = "pop" <=> pc[u] = "pop"
  BY <1>1 DEF Waiting
<1>5. Lag' = Lag
  BY <1>4 DEF Lag
<1>6. \A u \in Threads : pc'[u] \in {"publish", "wait"} => pc[u] \in {"publish", "wait"}
  BY <1>1 DEF Waiting
<1>7. \A u \in Threads : pc'[u] = "build" => pc[u] = "build"
  BY <1>1
<1>8. UIDInv'
  BY <1>2, <1>7 DEF AnswerInv, UIDInv
<1>9. PayloadInv'
  BY <1>2, <1>3, <1>5, <1>6 DEF AnswerInv, PayloadInv, Waiting
<1>10. FrontInv'
  BY <1>1, <1>2, <1>4 DEF AnswerInv, FrontInv, OwnAnswer, Waiting
<1> QED
  BY <1>8, <1>9, <1>10 DEF AnswerInv

(* Nobody moves and nothing is pushed or pulled. *)
LEMMA AnswerStill ==
  ASSUME AnswerInv, Queue' = Queue, UNCHANGED <<pc, calls, running, cmdUID, serverUID, responses, data, uid, got>>
  PROVE  AnswerInv'
BY DEF AnswerInv, UIDInv, PayloadInv, FrontInv, OwnAnswer, Waiting, Lag, Call

(* The owner of the lock closes a command: the batch's, or its own, for     *)
(* which it then waits or does not.                                         *)
LEMMA AnswerClosed ==
  ASSUME BridgeType, LockInv, AnswerInv, NEW t \in Threads, pc[t] \in Building, NEW l, Goto(t, l),
         \/ l \notin Waiting \cup {"build"}
         \/ l = "publish" /\ pc[t] = "build",
         NEW h \in Header, Close(h), l = "publish" => h.records = <<Call(t)>>,
         UNCHANGED <<calls, serverUID, responses, data, uid, got>>
  PROVE  AnswerInv'
<1>1. \A u \in Threads : pc'[u] = IF u = t THEN l ELSE pc[u]
  BY Moved
<1>2. \A u \in Threads : Call(u)' = Call(u)
  BY DEF Call
<1>3. Queue \in Seq(Header) /\ Len(Queue) \in Nat /\ cmdUID \in Nat /\ serverUID \in Nat
  BY ConcatProperties DEF Queue, BridgeType
<1>4. \A u \in Threads : uid[u] \in Nat
  BY DEF BridgeType
<1>5. l = "publish" => uid[t] = cmdUID
  BY DEF AnswerInv, UIDInv, Waiting
<1>6. \A u \in Threads : pc'[u] # "build"
  <2>1. \A u \in Threads : u # t => pc[u] \notin Locked
    BY DEF LockInv, Locked
  <2> QED BY <1>1, <2>1 DEF Locked, Building
<1>7. \A u \in Threads : pc'[u] \in {"take", "pop"} => pc[u] = pc'[u]
  BY <1>1 DEF Waiting
<1>8. \A u \in Threads : pc'[u] = "pop" <=> pc[u] = "pop"
  BY <1>1 DEF Waiting, Building
<1>9. Lag' = Lag
  BY <1>8 DEF Lag
<1>10. FrontInv'
  BY <1>2, <1>7 DEF AnswerInv, FrontInv, OwnAnswer
<1>11. \A u \in Threads : u # t /\ pc'[u] \in Waiting => pc[u] \in Waiting
  BY <1>1
<1>12. pc'[t] \in Waiting => pc'[t] = "publish" /\ l = "publish"
  BY <1>1
<1>13. ASSUME NEW j \in 1..Len(responses), NEW u \in Threads, pc'[u] \in {"publish", "wait", "take"}, uid[u] = responses[j]
       PROVE  j > Lag /\ data[j - Lag] = Call(u)
  <2>1. u # t
    <3> SUFFICES ASSUME u = t PROVE FALSE
      OBVIOUS
    <3>1. uid[t] = cmdUID
      BY <1>5, <1>12, <1>13 DEF Waiting
    <3>2. responses[j] < serverUID /\ cmdUID = serverUID + Len(Queue)
      BY DEF AnswerInv, UIDInv, PayloadInv
    <3> QED BY <1>3, <1>13, <3>1, <3>2
  <2>2. pc[u] \in {"publish", "wait", "take"}
    BY <1>1, <1>13, <2>1
  <2> QED BY <1>13, <2>2 DEF AnswerInv, PayloadInv
<1>14. CASE ~running' /\ cmdUID' = cmdUID /\ Queue' = Queue
  <2>1. UIDInv'
    BY <1>1, <1>3, <1>4, <1>5, <1>6, <1>11, <1>12, <1>14 DEF AnswerInv, UIDInv
  <2>2. ASSUME NEW k \in 1..Len(Queue), NEW u \in Threads, pc'[u] \in {"publish", "wait"}, uid[u] = serverUID + k - 1
        PROVE  Queue[k].records = <<Call(u)>>
    <3>1. u # t
      BY <1>3, <1>5, <1>12, <2>2 DEF AnswerInv, UIDInv, Waiting
    <3> QED BY <1>1, <2>2, <3>1 DEF AnswerInv, PayloadInv
  <2>3. PayloadInv'
    BY <1>2, <1>9, <1>13, <1>14, <2>2 DEF AnswerInv, PayloadInv
  <2> QED BY <1>10, <2>1, <2>3 DEF AnswerInv
<1>15. CASE running /\ cmdUID' = cmdUID + 1 /\ Queue' = Append(Queue, h)
  <2>1. /\ Len(Queue') = Len(Queue) + 1
        /\ \A k \in 1..Len(Queue) + 1 : Queue'[k] = IF k <= Len(Queue) THEN Queue[k] ELSE h
    BY <1>3, <1>15, AppendLast
  <2>2. \A u \in Threads : pc[u] \in Waiting => uid[u] < cmdUID
    BY <1>3, <1>4, <1>15 DEF AnswerInv, UIDInv
  <2>3. UIDInv'
    <3>1. cmdUID' = serverUID' + Len(Queue')
      BY <1>3, <1>15, <2>1 DEF AnswerInv, UIDInv
    <3>2. \A u \in Threads : pc'[u] \in Waiting => uid'[u] < cmdUID'
      BY <1>3, <1>4, <1>5, <1>11, <1>12, <1>15, <2>2
    <3>3. ASSUME NEW u \in Threads, NEW v \in Threads, u # v, pc'[u] \in Waiting, pc'[v] \in Waiting PROVE uid'[u] # uid'[v]
      <4>1. CASE u # t /\ v # t
        BY <1>3, <1>4, <1>11, <2>2, <3>3, <4>1 DEF AnswerInv, UIDInv
      <4>2. CASE u = t \/ v = t
        BY <1>3, <1>4, <1>5, <1>11, <1>12, <2>2, <3>3, <4>2
      <4> QED BY <4>1, <4>2
    <3> QED BY <1>3, <1>4, <1>6, <1>15, <3>1, <3>2, <3>3 DEF UIDInv
  <2>4. ASSUME NEW k \in 1..Len(Queue'), NEW u \in Threads, pc'[u] \in {"publish", "wait"}, uid[u] = serverUID + k - 1
        PROVE  Queue'[k].records = <<Call(u)>>
    <3>1. CASE u = t
      <4>1. l = "publish" /\ uid[t] = cmdUID
        BY <1>5, <1>12, <2>4, <3>1 DEF Waiting
      <4>2. k = Len(Queue) + 1
        BY <1>3, <2>1, <2>4, <3>1, <4>1 DEF AnswerInv, UIDInv
      <4> QED BY <1>3, <2>1, <3>1, <4>1, <4>2
    <3>2. CASE u # t
      <4>1. pc[u] \in {"publish", "wait"}
        BY <1>1, <2>4, <3>2
      <4>2. uid[u] < cmdUID
        BY <2>2, <4>1 DEF Waiting
      <4>3. k \in 1..Len(Queue)
        BY <1>3, <1>4, <2>1, <2>4, <4>2 DEF AnswerInv, UIDInv
      <4>4. Queue[k].records = <<Call(u)>>
        BY <2>4, <4>1, <4>3 DEF AnswerInv, PayloadInv
      <4> QED BY <1>3, <2>1, <4>3, <4>4
    <3> QED BY <3>1, <3>2
  <2>5. PayloadInv'
    BY <1>2, <1>9, <1>13, <2>4 DEF AnswerInv, PayloadInv
  <2> QED BY <1>10, <2>3, <2>5 DEF AnswerInv
<1> QED
  BY <1>14, <1>15, Closed

(* The constructor notes the number its header is going to have. *)
LEMMA AnswerConstructed ==
  ASSUME BridgeType, LockInv, AnswerInv, NEW t \in Threads, Construct(t)
  PROVE  AnswerInv'
<1>1. \A u \in Threads : pc[u] \notin Locked
  BY BridgeAssumption DEF Construct, Acquire, LockInv
<1>2. Goto(t, "build") /\ pc[t] = "ctor"
  BY <1>1 DEF Construct, Open, LockInv, Locked
<1>3. \A u \in Threads : pc'[u] = IF u = t THEN "build" ELSE pc[u]
  BY <1>2, Moved
<1>4. \A u \in Threads : uid'[u] = IF u = t THEN cmdUID ELSE uid[u]
  BY DEF Construct, BridgeType
<1>5. \A u \in Threads : pc'[u] \in Waiting => pc[u] = pc'[u] /\ uid'[u] = uid[u]
  BY <1>3, <1>4 DEF Waiting
<1>6. /\ UNCHANGED <<cmdUID, serverUID, responses, data, got, running, calls>> /\ Queue' = Queue
      /\ \A u \in Threads : Call(u)' = Call(u)
  BY DEF Construct, queueVars, serverVars, answerVars, callVars, Queue, Call
<1>7. \A u \in Threads : pc'[u] = "pop" <=> pc[u] = "pop"
  BY <1>2, <1>3
<1>8. Lag' = Lag
  BY <1>7 DEF Lag
<1>9. \A u \in Threads : pc'[u] = "build" => uid'[u] = cmdUID
  BY <1>1, <1>3, <1>4 DEF Locked, Building
<1>10. UIDInv'
  BY <1>5, <1>6, <1>9 DEF AnswerInv, UIDInv
<1>11. PayloadInv'
  BY <1>5, <1>6, <1>8 DEF AnswerInv, PayloadInv, Waiting
<1>12. FrontInv'
  BY <1>5, <1>6 DEF AnswerInv, FrontInv, OwnAnswer, Waiting
<1> QED
  BY <1>10, <1>11, <1>12 DEF AnswerInv

(* The server's count is the number of the header it pulls. *)
LEMMA AnswerProcessed ==
  ASSUME BridgeType, AnswerInv, Process
  PROVE  AnswerInv'
<1>1. /\ Head(visible) \in Header /\ Head(visible) = Queue[1] /\ Len(Queue) \in Nat \ {0}
      /\ Len(Queue') = Len(Queue) - 1 /\ \A k \in 1..Len(Queue') : Queue'[k] = Queue[k + 1]
  BY PullQueue DEF Process
<1>2. UNCHANGED <<pc, uid, got, calls, running, cmdUID>> /\ serverUID' = serverUID + 1 /\ Lag' = Lag
  BY DEF Process, lockVars, callVars, waitVars, Lag
<1>3. \A u \in Threads : Call(u)' = Call(u) /\ uid[u] \in Nat
  BY <1>2 DEF Call, BridgeType
<1>4. serverUID \in Nat /\ cmdUID \in Nat /\ responses \in Seq(Nat) /\ data \in Seq(CallType)
  BY DEF BridgeType
<1>5. UIDInv'
  BY <1>1, <1>2, <1>4 DEF AnswerInv, UIDInv
<1>6. ASSUME NEW k \in 1..Len(Queue'), NEW t \in Threads, pc[t] \in {"publish", "wait"}, uid[t] = serverUID' + k - 1
      PROVE  Queue'[k].records = <<Call(t)>>
  <2>1. k + 1 \in 1..Len(Queue) /\ uid[t] = serverUID + (k + 1) - 1 /\ Queue'[k] = Queue[k + 1]
    BY <1>1, <1>2, <1>4, <1>6
  <2> QED BY <1>6, <2>1 DEF AnswerInv, PayloadInv
<1>7. CASE ~Head(visible).wants
  <2>1. UNCHANGED <<responses, data>>
    BY <1>7 DEF Process, answerVars
  <2>2. \A j \in 1..Len(responses) : responses[j] < serverUID'
    BY <1>2, <1>4 DEF AnswerInv, PayloadInv
  <2>3. PayloadInv'
    BY <1>2, <1>3, <1>6, <2>1, <2>2 DEF AnswerInv, PayloadInv
  <2>4. FrontInv'
    BY <1>2, <1>3, <2>1 DEF AnswerInv, FrontInv, OwnAnswer
  <2> QED BY <1>5, <2>3, <2>4 DEF AnswerInv
<1>8. CASE Head(visible).wants
  <2> DEFINE e == Head(Head(visible).records)
  <2>1. responses' = Append(responses, serverUID) /\ data' = Append(data, e)
    BY <1>8 DEF Process
  <2>2. e \in CallType
    <3>1. Head(visible).records \in Seq(CallType) /\ Len(Head(visible).records) = 1
      BY <1>1, <1>8 DEF Header
    <3> QED BY <3>1
  <2>3. /\ Len(responses') = Len(responses) + 1 /\ Len(data') = Len(data) + 1
        /\ \A j \in 1..Len(responses) + 1 : responses'[j] = IF j <= Len(responses) THEN responses[j] ELSE serverUID
        /\ \A j \in 1..Len(data) + 1 : data'[j] = IF j <= Len(data) THEN data[j] ELSE e
    BY <1>4, <2>1, <2>2, AppendLast
  <2>4. Lag \in {0, 1} /\ Len(responses) = Len(data) + Lag /\ Len(data) \in Nat /\ Len(responses) \in Nat
    BY <1>4 DEF Lag, AnswerInv, PayloadInv
  <2>5. \A j \in 1..Len(responses') : responses'[j] < serverUID'
    BY <1>2, <1>4, <2>3, <2>4 DEF AnswerInv, PayloadInv
  <2>6. ASSUME NEW j \in 1..Len(responses'), NEW t \in Threads, pc[t] \in {"publish", "wait", "take"}, uid[t] = responses'[j]
        PROVE  j > Lag /\ data'[j - Lag] = Call(t)
    <3>1. CASE j <= Len(responses)
      <4>1. j \in 1..Len(responses) /\ uid[t] = responses[j]
        BY <2>3, <2>4, <2>6, <3>1
      <4>2. j > Lag /\ data[j - Lag] = Call(t)
        BY <2>6, <4>1 DEF AnswerInv, PayloadInv
      <4>3. j - Lag \in 1..Len(data)
        BY <2>4, <3>1, <4>2
      <4> QED BY <2>3, <2>4, <4>2, <4>3
    <3>2. CASE j = Len(responses) + 1
      <4>1. uid[t] = serverUID
        BY <2>3, <2>4, <2>6, <3>2
      <4>2. pc[t] # "take"
        <5> SUFFICES ASSUME pc[t] = "take" PROVE FALSE
          OBVIOUS
        <5>1. responses # <<>> /\ responses[1] = uid[t]
          BY DEF AnswerInv, FrontInv
        <5>2. 1 \in 1..Len(responses)
          BY <1>4, <5>1, EmptySeq
        <5> QED BY <1>4, <4>1, <5>1, <5>2 DEF AnswerInv, PayloadInv
      <4>3. Queue[1].records = <<Call(t)>>
        <5>1. 1 \in 1..Len(Queue) /\ uid[t] = serverUID + 1 - 1
          BY <1>1, <1>4, <4>1
        <5> QED BY <2>6, <4>2, <5>1 DEF AnswerInv, PayloadInv
      <4>4. e = Call(t)
        BY <1>1, <4>3
      <4> QED BY <2>3, <2>4, <3>2, <4>4
    <3> QED BY <2>3, <2>4, <2>6, <3>1, <3>2
  <2>7. PayloadInv'
    BY <1>2, <1>3, <1>6, <2>3, <2>4, <2>5, <2>6 DEF PayloadInv
  <2>8. FrontInv'
    <3>1. ASSUME NEW t \in Threads, pc'[t] \in {"take", "pop"} PROVE responses' # <<>> /\ responses'[1] = uid'[t]
      <4>1. responses # <<>> /\ responses[1] = uid[t]
        BY <1>2, <3>1 DEF AnswerInv, FrontInv
      <4>2. Len(responses) >= 1 /\ Len(responses') # 0
        BY <1>4, <2>3, <2>4, <4>1, EmptySeq
      <4> QED BY <1>2, <2>3, <2>4, <4>1, <4>2, EmptySeq
    <3> QED BY <1>2, <1>3, <3>1 DEF AnswerInv, FrontInv, OwnAnswer
  <2> QED BY <1>5, <2>7, <2>8 DEF AnswerInv
<1> QED
  BY <1>7, <1>8

(* The payload in front belongs to the response in front, and to nobody else. *)
LEMMA AnswerTaken ==
  ASSUME BridgeType, LockInv, AnswerInv, NEW t \in Threads, TakeData(t)
  PROVE  AnswerInv'
<1>1. pc[t] = "take" /\ Goto(t, "pop") /\ data' = Tail(data)
  BY DEF TakeData
<1>2. \A u \in Threads : pc'[u] = IF u = t THEN "pop" ELSE pc[u]
  BY <1>1, Moved
<1>3. Lag = 0 /\ Len(responses) = Len(data) /\ data # <<>> /\ Head(data) = Call(t)
  BY <1>1, OwnPayload
<1>4. Lag' = 1
  BY <1>2 DEF Lag
<1>5. /\ UNCHANGED <<cmdUID, serverUID, responses, uid, running, calls>> /\ Queue' = Queue
      /\ \A u \in Threads : Call(u)' = Call(u)
      /\ \A u \in Threads : got'[u] = IF u = t THEN Call(t) ELSE got[u]
  BY <1>3 DEF TakeData, lockVars, queueVars, serverVars, callVars, Queue, Call, BridgeType
<1>6. responses \in Seq(Nat) /\ data \in Seq(CallType) /\ Len(data) \in Nat \ {0}
  BY <1>3, EmptySeq DEF BridgeType
<1>7. Len(data') = Len(data) - 1 /\ \A i \in 1..Len(data') : data'[i] = data[i + 1]
  BY <1>1, <1>6, HeadTailProperties
<1>8. responses # <<>> /\ responses[1] = uid[t] /\ 1 \in 1..Len(responses)
  BY <1>1, <1>3, <1>6 DEF AnswerInv, FrontInv
<1>9. \A u \in Threads : pc'[u] \in Waiting => pc[u] \in Waiting
  BY <1>1, <1>2 DEF Waiting
<1>10. UIDInv'
  BY <1>2, <1>5, <1>9 DEF AnswerInv, UIDInv
<1>11. FrontInv'
  BY <1>1, <1>2, <1>5 DEF AnswerInv, FrontInv, OwnAnswer
<1>12. ASSUME NEW j \in 1..Len(responses), NEW u \in Threads, pc'[u] \in {"publish", "wait", "take"}, uid[u] = responses[j]
       PROVE  j > 1 /\ data'[j - 1] = Call(u)
  <2>1. u # t /\ pc[u] \in {"publish", "wait", "take"}
    BY <1>2, <1>12
  <2>2. j > Lag /\ data[j - Lag] = Call(u)
    BY <1>12, <2>1 DEF AnswerInv, PayloadInv
  <2>3. j # 1
    BY <1>1, <1>8, <1>12, <2>1, UIDUnique DEF Waiting
  <2>4. j - 1 \in 1..Len(data') /\ (j - 1) + 1 = j - Lag
    BY <1>3, <1>6, <1>7, <1>12, <2>3
  <2> QED BY <1>3, <1>6, <1>7, <1>12, <2>2, <2>3, <2>4
<1>13. PayloadInv'
  <2>1. Len(responses) = Len(data') + 1
    BY <1>3, <1>6, <1>7
  <2>2. \A u \in Threads : pc'[u] \in {"publish", "wait"} => pc[u] \in {"publish", "wait"}
    BY <1>2
  <2> QED BY <1>4, <1>5, <1>12, <2>1, <2>2 DEF AnswerInv, PayloadInv
<1> QED
  BY <1>10, <1>11, <1>13 DEF AnswerInv

(* The response that is dropped is the one whose payload has been read. *)
LEMMA AnswerPopped ==
  ASSUME BridgeType, LockInv, AnswerInv, NEW t \in Threads, PopFront(t)
  PROVE  AnswerInv'
<1>1. pc[t] = "pop" /\ Goto(t, "idle") /\ responses' = Tail(responses)
  BY DEF PopFront
<1>2. \A u \in Threads : pc'[u] = IF u = t THEN "idle" ELSE pc[u]
  BY <1>1, Moved
<1>3. responses # <<>> /\ responses[1] = uid[t] /\ responses \in Seq(Nat)
  BY <1>1 DEF AnswerInv, FrontInv, BridgeType
<1>4. Len(responses) \in Nat \ {0} /\ Len(data) \in Nat /\ 1 \in 1..Len(responses)
  BY <1>3, EmptySeq DEF BridgeType
<1>5. /\ UNCHANGED <<cmdUID, serverUID, data, uid, running, calls, got>> /\ Queue' = Queue
      /\ \A u \in Threads : Call(u)' = Call(u)
  BY DEF PopFront, lockVars, queueVars, serverVars, callVars, waitVars, Queue, Call
<1>6. Len(responses') = Len(responses) - 1 /\ \A i \in 1..Len(responses') : responses'[i] = responses[i + 1]
  BY <1>1, <1>3, HeadTailProperties
<1>7. \A u \in Threads : pc'[u] \notin {"take", "pop"}
  <2> SUFFICES ASSUME NEW u \in Threads, pc'[u] \in {"take", "pop"} PROVE FALSE
    OBVIOUS
  <2>1. u # t /\ pc[u] \in {"take", "pop"}
    BY <1>2
  <2>2. responses[1] = uid[u]
    BY <2>1 DEF AnswerInv, FrontInv
  <2> QED BY <1>1, <1>3, <1>4, <2>1, <2>2, UIDUnique DEF Waiting
<1>8. Lag = 1 /\ Lag' = 0
  BY <1>1, <1>7 DEF Lag
<1>9. \A u \in Threads : pc'[u] \in Waiting \cup {"build"} => pc'[u] = pc[u]
  BY <1>2 DEF Waiting
<1>10. UIDInv'
  BY <1>5, <1>9 DEF AnswerInv, UIDInv
<1>11. FrontInv'
  BY <1>7 DEF FrontInv, OwnAnswer
<1>12. PayloadInv'
  <2>1. Len(responses') = Len(data) + 0
    BY <1>4, <1>6, <1>8 DEF AnswerInv, PayloadInv
  <2>2. ASSUME NEW j \in 1..Len(responses') PROVE j + 1 \in 1..Len(responses) /\ responses'[j] = responses[j + 1] /\ (j + 1) - Lag = j /\ j > 0 /\ j - 0 = j
    BY <1>4, <1>6, <1>8, <2>2
  <2>3. \A j \in 1..Len(responses') : responses'[j] < serverUID
    BY <2>2 DEF AnswerInv, PayloadInv
  <2>4. ASSUME NEW j \in 1..Len(responses'), NEW u \in Threads, pc'[u] \in {"publish", "wait", "take"}, uid[u] = responses'[j]
        PROVE  j > 0 /\ data[j - 0] = Call(u)
    <3>1. pc[u] \in {"publish", "wait", "take"}
      BY <1>9, <2>4 DEF Waiting
    <3>2. data[(j + 1) - Lag] = Call(u)
      BY <2>2, <2>4, <3>1 DEF AnswerInv, PayloadInv
    <3> QED BY <2>2, <2>4, <3>2
  <2>5. \A u \in Threads : pc'[u] \in {"publish", "wait"} => pc[u] \in {"publish", "wait"}
    BY <1>9 DEF Waiting
  <2> QED BY <1>5, <1>8, <2>1, <2>3, <2>4, <2>5 DEF AnswerInv, PayloadInv
<1> QED
  BY <1>10, <1>11, <1>12 DEF AnswerInv

(* Every step keeps the numbers of commands and answers in line.            *)
LEMMA NextAnswerInv == LockInv /\ BridgeType /\ AnswerInv /\ [Next]_vars => AnswerInv'
<1> SUFFICES ASSUME LockInv, BridgeType, AnswerInv, [Next]_vars PROVE AnswerInv'
  OBVIOUS
<1> USE DEF lockVars, queueVars, serverVars, answerVars, callVars, waitVars
<1>1. CASE UNCHANGED vars
  <2>1. Queue' = Queue /\ UNCHANGED <<pc, calls, running, cmdUID, serverUID, responses, data, uid, got>>
    BY <1>1 DEF vars, Queue
  <2> QED BY <2>1, AnswerStill
<1>2. CASE Process
  BY <1>2, AnswerProcessed
<1>3. ASSUME NEW t \in Threads, Step(t) PROVE AnswerInv'
  <2> DEFINE Aside == /\ pc[t] # "pop" /\ Queue' = Queue /\ UNCHANGED <<cmdUID, serverUID, responses, data, uid, got>>
                      /\ running' => running
  <2>1. CASE Set(t) \/ \E k \in {"send", "ask"} : Begin(t, k)
    <3>1. PICK l \in {"full", "append", "pending", "ctor"} : Goto(t, l)
      BY <2>1 DEF Set, Begin
    <3>2. Aside /\ \A u \in Threads : u # t => calls'[u] = calls[u]
      <4>1. Aside /\ calls' = [calls EXCEPT ![t] = calls[t] + 1]
        BY <2>1 DEF Set, Begin, Queue
      <4>2. calls \in [Threads -> 0..MaxCalls]
        BY DEF BridgeType
      <4> QED BY <4>1, <4>2
    <3> QED BY <3>1, <3>2, AnswerAside DEF Waiting
  <2>2. CASE SetFlush(t) \/ PendingFlush(t)
    <3>1. inProgress = FALSE
      BY <2>2, NoneOpen DEF SetFlush, PendingFlush, Locked, Building
    <3>2. PICK l \in {"sendset", "sendpending", "append", "flush"} : Goto(t, l)
      BY <2>2, <3>1 DEF SetFlush, PendingFlush, flushStateBatch, Open
    <3>3. Aside /\ UNCHANGED calls
      BY <2>2 DEF SetFlush, PendingFlush, flushStateBatch, Queue
    <3> QED BY <3>2, <3>3, AnswerAside DEF Waiting
  <2>3. CASE SetAppend(t) \/ PendingLock(t) \/ PendingGone(t) \/ Fail(t)
    <3>1. PICK l \in {"idle", "flush", "ctor"} : Goto(t, l)
      BY <2>3 DEF SetAppend, PendingLock, PendingGone, Fail
    <3>2. Aside /\ UNCHANGED calls
      BY <2>3 DEF SetAppend, PendingLock, PendingGone, Fail, Queue
    <3> QED BY <3>1, <3>2, AnswerAside DEF Waiting
  <2>4. CASE SetFlushed(t) \/ PendingFlushed(t)
    <3> DEFINE h == [wants |-> FALSE, records |-> batch]
    <3>1. h \in Header
      BY DEF Header, BridgeType
    <3>2. PICK l \in {"append", "ctor"} : Goto(t, l)
      BY <2>4 DEF SetFlushed, PendingFlushed
    <3>3. Close(h) /\ pc[t] \in Building /\ UNCHANGED <<calls, serverUID, responses, data, uid, got>>
      BY <2>4 DEF SetFlushed, PendingFlushed, Building
    <3>4. l \notin Waiting \cup {"build"} /\ l # "publish"
      BY <3>2 DEF Waiting
    <3> HIDE DEF h
    <3> QED BY <3>1, <3>2, <3>3, <3>4, AnswerClosed
  <2>5. CASE Construct(t)
    BY <2>5, AnswerConstructed
  <2>6. CASE Destruct(t)
    <3> DEFINE h == [wants |-> kind[t] = "ask", records |-> <<Call(t)>>]
    <3>1. pc[t] = "build" /\ Close(h) /\ UNCHANGED <<calls, serverUID, responses, data, uid, got>>
      BY <2>6 DEF Destruct
    <3>2. h \in Header /\ h.records = <<Call(t)>>
      BY <3>1, CallIsCall
    <3>3. PICK l \in {"publish", "idle"} : Goto(t, l)
      BY <2>6 DEF Destruct
    <3> HIDE DEF h
    <3> QED BY <3>1, <3>2, <3>3, AnswerClosed DEF Waiting, Building
  <2>7. CASE PushSpins(t)
    <3>1. Queue' = Queue /\ UNCHANGED <<pc, calls, running, cmdUID, serverUID, responses, data, uid, got>>
      BY <2>7, PublishQueue DEF PushSpins
    <3> QED BY <3>1, AnswerStill
  <2>8. CASE PublishForWait(t)
    <3>1. Goto(t, "wait") /\ pc[t] = "publish" /\ Queue' = Queue /\ Aside /\ UNCHANGED calls
      BY <2>8, PublishQueue DEF PublishForWait
    <3> QED BY <3>1, AnswerAside
  <2>9. CASE PeekMine(t)
    <3>1. Goto(t, "take") /\ pc[t] = "wait" /\ Aside /\ UNCHANGED calls
      BY <2>9 DEF PeekMine, Queue
    <3>2. responses # <<>> /\ responses[1] = uid[t]
      BY <2>9 DEF PeekMine, BridgeType
    <3> QED BY <3>1, <3>2, AnswerAside
  <2>10. CASE PeekOther(t) \/ PeekTimeout(t)
    <3>1. PICK l \in {"wait", "failed"} : Goto(t, l)
      BY <2>10 DEF PeekOther, PeekTimeout, Missed
    <3>2. pc[t] = "wait" /\ Aside /\ UNCHANGED calls
      BY <2>10 DEF PeekOther, PeekTimeout, Missed, Queue
    <3> QED BY <3>1, <3>2, AnswerAside DEF Waiting
  <2>11. CASE TakeData(t)
    BY <2>11, AnswerTaken
  <2>12. CASE PopFront(t)
    BY <2>12, AnswerPopped
  <2> QED
    BY <1>3, <2>1, <2>2, <2>3, <2>4, <2>5, <2>6, <2>7, <2>8, <2>9, <2>10, <2>11, <2>12 DEF Step
<1> QED
  BY <1>1, <1>2, <1>3 DEF Next

---------------------------------------------------------------------------
(* The whole invariant holds at the start.                                  *)
LEMMA InitIInv == Init => IInv
BY InitLockInv, InitBridgeType, InitOrderInv, InitBatchInv, InitAnswerInv DEF IInv

(* Every step keeps the whole invariant.                                    *)
LEMMA NextIInv == IInv /\ [Next]_vars => IInv'
BY NextLockInv, NextBridgeType, NextOrderInv, NextBatchInv, NextAnswerInv DEF IInv

(* However many threads call the device, whoever flushes the batch and      *)
(* whatever times out: the server applies the calls of a thread in the      *)
(* order the thread made them, each once and none left out.                 *)
THEOREM CallsInOrder == Spec => []ThreadOrder
<1>1. IInv => ThreadOrder
  BY OrderInvOrders DEF IInv
<1> QED
  BY InitIInv, NextIInv, <1>1, PTL DEF Spec

(* The payload a thread takes from the ring is the answer to its own call,  *)
(* also when answers that nobody waits for any more are left in the queue.  *)
THEOREM AnswersOwn == Spec => []OwnAnswer
<1>1. IInv => OwnAnswer
  BY DEF IInv, AnswerInv, FrontInv
<1> QED
  BY InitIInv, NextIInv, <1>1, PTL DEF Spec
=================================================================================
