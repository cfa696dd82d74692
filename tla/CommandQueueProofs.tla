--------------------------- MODULE CommandQueueProofs ---------------------------
(***************************************************************************)
(* Proofs about CommandQueue for every queue size, every publish batch and *)
(* every set of headers.                                                   *)
(***************************************************************************)
EXTENDS CommandQueue, TLAPS

(* The ring arithmetic: a distance is at most QueueSize - 1, is 0 only     *)
(* between equal indices, and one queueIdxInc changes it by one.           *)
LEMMA DistanceFacts ==
  ASSUME NEW a \in Index, NEW b \in Index
  PROVE  /\ Distance(a, b) \in 0 .. QueueSize - 1
         /\ Distance(a, b) = 0 <=> a = b
         /\ queueIdxInc(a) \in Index
         /\ queueIdxInc(b) # a => Distance(a, queueIdxInc(b)) = Distance(a, b) + 1
         /\ a # b => Distance(queueIdxInc(a), b) = Distance(a, b) - 1
  BY QueueAssumption DEF Index, Distance, queueIdxInc

(* The constructor establishes the inductive invariant. *)
LEMMA InitIInv == InitQueue => IInv
  BY QueueAssumption DEF InitQueue, IInv, TypeOK, PendingIsUnpublished, PulledIsHead, Index,
     Header, Distance

(* Every step of the producer and of the consumer preserves it. *)
LEMMA NextIInv == IInv /\ [QueueNext]_circularVars => IInv'
<1> SUFFICES ASSUME IInv, [QueueNext]_circularVars PROVE IInv'
  OBVIOUS
<1> USE QueueAssumption DEF IInv, TypeOK, PendingIsUnpublished, PulledIsHead, Index, Header,
                            Distance, queueIdxInc
<1>1. ASSUME NEW v \in Values, Push(v) PROVE IInv'
  BY <1>1 DEF Push, consumerVars
<1>2. CASE Reload
  BY <1>2 DEF Reload, consumerVars
<1>3. CASE Store
  BY <1>3 DEF Store, consumerVars
<1>4. CASE PublishBatchFull
  BY <1>4 DEF PublishBatchFull, consumerVars
<1>5. CASE WaitWhileFull
  BY <1>5 DEF WaitWhileFull, flush, consumerVars
<1>6. CASE Flush
  BY <1>6 DEF Flush, flush, consumerVars
<1>7. ASSUME NEW c \in {"peek", "pull"}, Operation(c) PROVE IInv'
  BY <1>7 DEF Operation, producerVars
<1>8. CASE Poll
  BY <1>8 DEF Poll, producerVars
<1>9. CASE PeekReturns
  BY <1>9 DEF PeekReturns, producerVars
<1>10. CASE CopyOut
  BY <1>10 DEF CopyOut, producerVars
<1>11. CASE Advance
  BY <1>11 DEF Advance, producerVars
<1>12. CASE UNCHANGED circularVars
  BY <1>12 DEF circularVars, producerVars, consumerVars
<1>. QED
  BY <1>1, <1>2, <1>3, <1>4, <1>5, <1>6, <1>7, <1>8, <1>9, <1>10, <1>11, <1>12
  DEF QueueNext, Producer, Consumer

---------------------------------------------------------------------------
(* Safety *)

(* The inductive invariant holds in every reachable state. *)
LEMMA Invariance == QueueSpec => []IInv
  BY InitIInv, NextIInv, PTL DEF QueueSpec

(* Every variable keeps its type: in particular no index leaves the ring   *)
(* and m_pending never exceeds what the ring can hold.                     *)
THEOREM TypeCorrect == QueueSpec => []TypeOK
<1>1. IInv => TypeOK
  BY DEF IInv
<1>. QED
  BY <1>1, Invariance, PTL

(* Stale as they may be, the copies of the indices never make the queue    *)
(* look emptier to the producer or fuller to the consumer than it is.      *)
THEOREM CopiesAreConservative == QueueSpec => []CopiesConservative
<1>1. IInv => CopiesConservative
  BY QueueAssumption DEF IInv, TypeOK, CopiesConservative, Distance, Index
<1>. QED
  BY <1>1, Invariance, PTL

(* The header pull() copied out is the head of the queue. *)
THEOREM PullReturnsHead == QueueSpec => []PulledIsHead
<1>1. IInv => PulledIsHead
  BY DEF IInv
<1>. QED
  BY <1>1, Invariance, PTL

(* No push ever overwrites an entry that has not been pulled. *)
THEOREM NoOverwrite == QueueSpec => UnreadNeverOverwritten
<1>1. IInv /\ [QueueNext]_circularVars => [\A i \in Unread : m_data'[i] = m_data[i]]_circularVars
  <2> SUFFICES ASSUME IInv, QueueNext, NEW i \in Unread PROVE m_data'[i] = m_data[i]
    OBVIOUS
  <2>1. CASE Store
    <3>1. i # m_localWrite
      BY QueueAssumption DEF Unread, Distance, Index, IInv, TypeOK
    <3>. QED
      BY <2>1, <3>1 DEF Store, Unread, IInv, TypeOK
  <2>2. CASE ~Store
    BY <2>2 DEF QueueNext, Producer, Consumer, Push, Reload, PublishBatchFull, WaitWhileFull, Flush,
       Operation, Poll, PeekReturns, CopyOut, Advance
  <2>. QED
    BY <2>1, <2>2
<1>. QED
  BY <1>1, Invariance, PTL DEF QueueSpec, UnreadNeverOverwritten

---------------------------------------------------------------------------
(* Refinement *)

(* The n entries of a ring d from index a on are a sequence of length n. *)
LEMMA EntriesSeq ==
  ASSUME NEW d \in [Index -> Header], NEW a \in Index, NEW n \in Nat, n \in Index
  PROVE  /\ Entries(d, a, n) \in Seq(Header)
         /\ Len(Entries(d, a, n)) = n
         /\ \A i \in 1 .. n : Slot(a, i - 1) \in Index /\ Entries(d, a, n)[i] = d[Slot(a, i - 1)]
<1>1. \A i \in 1 .. n : Slot(a, i - 1) \in Index
  BY QueueAssumption DEF Slot, Index
<1>2. Entries(d, a, n) \in [1 .. n -> Header]
  BY <1>1 DEF Entries
<1>. QED
  BY <1>1, <1>2 DEF Entries

(* When a sequence is an Append, a concatenation or a Tail, elementwise. *)
LEMMA AppendIs ==
  ASSUME NEW S, NEW s \in Seq(S), NEW t \in Seq(S), NEW v \in S,
         Len(t) = Len(s) + 1, t[Len(s) + 1] = v,
         \A i \in 1 .. Len(s) : t[i] = s[i]
  PROVE  t = Append(s, v)
  OBVIOUS

(* A sequence is known as a concatenation by its elements.                  *)
LEMMA ConcatIs ==
  ASSUME NEW S, NEW s \in Seq(S), NEW t \in Seq(S), NEW u \in Seq(S),
         Len(u) = Len(s) + Len(t),
         \A i \in 1 .. Len(s) : u[i] = s[i],
         \A i \in 1 .. Len(t) : u[Len(s) + i] = t[i]
  PROVE  u = s \o t
<1> DEFINE w == s \o t
<1>1. w \in Seq(S) /\ Len(w) = Len(u)
  OBVIOUS
<1>2. ASSUME NEW i \in 1 .. Len(u) PROVE u[i] = w[i]
  <2>1. CASE i <= Len(s)
    BY <2>1
  <2>2. CASE i > Len(s)
    <3>1. i - Len(s) \in 1 .. Len(t) /\ i = Len(s) + (i - Len(s))
      BY <2>2
    <3>2. u[i] = t[i - Len(s)]
      BY <3>1
    <3>3. w[i] = t[i - Len(s)]
      BY <2>2, <3>1
    <3> QED
      BY <3>2, <3>3
  <2> QED
    BY <2>1, <2>2
<1> HIDE DEF w
<1>3. u = w
  BY <1>1, <1>2
<1> QED
  BY <1>3 DEF w

(* And as a tail.                                                           *)
LEMMA TailIs ==
  ASSUME NEW S, NEW s \in Seq(S), NEW t \in Seq(S),
         Len(s) = Len(t) + 1,
         \A i \in 1 .. Len(t) : t[i] = s[i + 1]
  PROVE  s # <<>> /\ t = Tail(s)
  OBVIOUS

(* One more entry at the end: the abstract Append. *)
LEMMA EntriesAppend ==
  ASSUME NEW d \in [Index -> Header], NEW e \in [Index -> Header],
         NEW a \in Index, NEW n \in Nat, n + 1 \in Index,
         \A k \in 0 .. n - 1 : e[Slot(a, k)] = d[Slot(a, k)]
  PROVE  Entries(e, a, n + 1) = Append(Entries(d, a, n), e[Slot(a, n)])
<1> DEFINE s == Entries(d, a, n)
           t == Entries(e, a, n + 1)
           v == e[Slot(a, n)]
<1>1. n \in Index /\ v \in Header
  BY QueueAssumption DEF Index, Slot
<1>2. /\ s \in Seq(Header) /\ Len(s) = n /\ \A i \in 1 .. n : s[i] = d[Slot(a, i - 1)]
      /\ t \in Seq(Header) /\ Len(t) = n + 1 /\ \A i \in 1 .. n + 1 : t[i] = e[Slot(a, i - 1)]
  BY <1>1, EntriesSeq
<1>3. ASSUME NEW i \in 1 .. n PROVE t[i] = s[i]
  <2>1. i - 1 \in 0 .. n - 1 /\ i \in 1 .. n + 1
    OBVIOUS
  <2>. QED
    BY <2>1, <1>2
<1>4. t[n + 1] = v
  <2>1. n + 1 \in 1 .. n + 1 /\ (n + 1) - 1 = n
    OBVIOUS
  <2>. QED
    BY <2>1, <1>2
<1> HIDE DEF s, t, v
<1>5. t = Append(s, v)
  BY <1>1, <1>2, <1>3, <1>4, AppendIs
<1>. QED
  BY <1>5 DEF s, t, v

(* The entries of two adjacent stretches: the abstract concatenation. *)
LEMMA EntriesConcat ==
  ASSUME NEW d \in [Index -> Header], NEW a \in Index,
         NEW n \in Nat, NEW h \in Nat, n + h \in Index
  PROVE  Entries(d, a, n + h) = Entries(d, a, n) \o Entries(d, Slot(a, n), h)
<1> DEFINE s == Entries(d, a, n)
           t == Entries(d, Slot(a, n), h)
           u == Entries(d, a, n + h)
<1>1. n \in Index /\ h \in Index /\ Slot(a, n) \in Index
  BY QueueAssumption DEF Index, Slot
<1>2. /\ s \in Seq(Header) /\ Len(s) = n /\ \A i \in 1 .. n : s[i] = d[Slot(a, i - 1)]
      /\ t \in Seq(Header) /\ Len(t) = h /\ \A i \in 1 .. h : t[i] = d[Slot(Slot(a, n), i - 1)]
      /\ u \in Seq(Header) /\ Len(u) = n + h /\ \A i \in 1 .. n + h : u[i] = d[Slot(a, i - 1)]
  <2>1. /\ s \in Seq(Header) /\ Len(s) = n /\ \A i \in 1 .. n : s[i] = d[Slot(a, i - 1)]
    BY <1>1, EntriesSeq
  <2>2. /\ t \in Seq(Header) /\ Len(t) = h /\ \A i \in 1 .. h : t[i] = d[Slot(Slot(a, n), i - 1)]
    BY <1>1, EntriesSeq
  <2>3. /\ u \in Seq(Header) /\ Len(u) = n + h /\ \A i \in 1 .. n + h : u[i] = d[Slot(a, i - 1)]
    BY EntriesSeq
  <2>. QED
    BY <2>1, <2>2, <2>3
<1>3. ASSUME NEW i \in 1 .. n PROVE u[i] = s[i]
  <2>1. i \in 1 .. n + h
    OBVIOUS
  <2>. QED
    BY <2>1, <1>2
<1>4. ASSUME NEW i \in 1 .. h PROVE u[n + i] = t[i]
  <2>1. n + i \in 1 .. n + h
    OBVIOUS
  <2>2. Slot(Slot(a, n), i - 1) = Slot(a, (n + i) - 1)
    BY QueueAssumption DEF Slot, Index
  <2>. QED
    BY <2>1, <2>2, <1>2
<1> HIDE DEF s, t, u
<1>5. u = s \o t
  BY <1>2, <1>3, <1>4, ConcatIs
<1>. QED
  BY <1>5 DEF s, t, u

(* All entries but the first: the abstract Tail. *)
LEMMA EntriesTail ==
  ASSUME NEW d \in [Index -> Header], NEW a \in Index, NEW n \in Nat, n + 1 \in Index
  PROVE  /\ Entries(d, a, n + 1) # <<>>
         /\ Entries(d, queueIdxInc(a), n) = Tail(Entries(d, a, n + 1))
<1> DEFINE s == Entries(d, a, n + 1)
           t == Entries(d, queueIdxInc(a), n)
<1>1. n \in Index /\ queueIdxInc(a) \in Index
  BY QueueAssumption DEF Index, queueIdxInc
<1>2. /\ s \in Seq(Header) /\ Len(s) = n + 1 /\ \A i \in 1 .. n + 1 : s[i] = d[Slot(a, i - 1)]
      /\ t \in Seq(Header) /\ Len(t) = n
      /\ \A i \in 1 .. n : t[i] = d[Slot(queueIdxInc(a), i - 1)]
  <2>1. /\ s \in Seq(Header) /\ Len(s) = n + 1 /\ \A i \in 1 .. n + 1 : s[i] = d[Slot(a, i - 1)]
    BY EntriesSeq
  <2>2. /\ t \in Seq(Header) /\ Len(t) = n
        /\ \A i \in 1 .. n : t[i] = d[Slot(queueIdxInc(a), i - 1)]
    BY <1>1, EntriesSeq
  <2>. QED
    BY <2>1, <2>2
<1>3. ASSUME NEW i \in 1 .. n PROVE t[i] = s[i + 1]
  <2>1. Slot(queueIdxInc(a), i - 1) = Slot(a, (i + 1) - 1)
    BY QueueAssumption DEF Slot, queueIdxInc, Index
  <2>2. i + 1 \in 1 .. n + 1
    OBVIOUS
  <2>. QED
    BY <2>1, <2>2, <1>2
<1> HIDE DEF s, t
<1>4. s # <<>> /\ t = Tail(s)
  BY <1>2, <1>3, TailIs
<1>. QED
  BY <1>4 DEF s, t

(* The empty queue of the constructor is the empty abstract queue. *)
LEMMA InitRefines == InitQueue => Abstract!Init
  BY QueueAssumption DEF InitQueue, Abstract!Init, Held, Visible, Entries, Distance

(* A distance is a number. *)
LEMMA DistanceNat ==
  ASSUME NEW a \in Index, NEW b \in Index
  PROVE  Distance(a, b) \in Nat
  BY QueueAssumption DEF Distance, Index

(* Filling a slot is a Put of the abstract queue. *)
LEMMA StoreRefines ==
  ASSUME IInv, IInv', Store
  PROVE  Abstract!Put(obj)
<1>a. Distance(m_read, m_localWrite) \in Nat /\ Distance(m_write, m_read) \in Nat
  <2>1. m_read \in Index /\ m_localWrite \in Index /\ m_write \in Index
    BY DEF IInv, TypeOK
  <2>. QED
    BY <2>1, DistanceNat
<1>b. PICK h \in Nat, n \in Nat : h = Distance(m_read, m_localWrite) /\ n = Distance(m_write, m_read)
  BY <1>a
<1>1. /\ h = Distance(m_read, m_localWrite) /\ n = Distance(m_write, m_read)
      /\ h + n < QueueSize - 1 /\ h + 1 \in Index /\ h \in Index /\ n \in Index
      /\ Distance(m_read, m_localWrite)' = h + 1 /\ Distance(m_write, m_read)' = n
  BY <1>b, QueueAssumption DEF IInv, TypeOK, Store, Distance, queueIdxInc, Index
<1>2. /\ UNCHANGED <<m_read, m_write>>
      /\ m_read \in Index /\ m_write \in Index /\ m_localWrite \in Index
      /\ m_data \in [Index -> Header] /\ m_data' \in [Index -> Header]
      /\ m_data' = [m_data EXCEPT ![m_localWrite] = obj]
  BY DEF IInv, TypeOK, Store
<1>3. \A k \in 0 .. h - 1 : Slot(m_read, k) \in Index \ {m_localWrite}
  BY <1>1, <1>2, QueueAssumption DEF Slot, Distance, Index
<1>4. \A k \in 0 .. n - 1 : Slot(m_write, k) \in Index \ {m_localWrite}
  BY <1>1, <1>2, QueueAssumption DEF Slot, Distance, Index, IInv
<1>5. Slot(m_read, h) = m_localWrite
  BY <1>1, <1>2, QueueAssumption DEF Slot, Distance, Index
<1>6. Held' = Append(Held, obj)
  <2>1. Held' = Entries(m_data', m_read, h + 1) /\ Held = Entries(m_data, m_read, h)
    BY <1>1, <1>2 DEF Held, Entries, Slot
  <2>2. \A k \in 0 .. h - 1 : m_data'[Slot(m_read, k)] = m_data[Slot(m_read, k)]
    BY <1>2, <1>3
  <2>3. m_data'[Slot(m_read, h)] = obj
    BY <1>2, <1>5
  <2>4. Entries(m_data', m_read, h + 1) = Append(Entries(m_data, m_read, h), m_data'[Slot(m_read, h)])
    <3>1. m_data \in [Index -> Header] /\ m_data' \in [Index -> Header] /\ m_read \in Index
      BY <1>2
    <3>2. h + 1 \in Index
      BY <1>1
    <3>. QED
      BY <2>2, <3>1, <3>2, EntriesAppend, Zenon
  <2>. QED
    BY <2>1, <2>3, <2>4
<1>7. Visible' = Visible
  <2>1. \A i \in 1 .. n : m_data'[Slot(m_write, i - 1)] = m_data[Slot(m_write, i - 1)]
    <3> SUFFICES ASSUME NEW i \in 1 .. n
                 PROVE  m_data'[Slot(m_write, i - 1)] = m_data[Slot(m_write, i - 1)]
      OBVIOUS
    <3>1. i - 1 \in 0 .. n - 1
      BY QueueAssumption DEF Index
    <3>. QED
      BY <3>1, <1>2, <1>4
  <2>. QED
    BY <2>1, <1>1, <1>2 DEF Visible, Entries, Slot
<1>8. Len(Held) = h /\ Len(Visible) = n
  BY <1>1, <1>2, EntriesSeq DEF Held, Visible
<1>. QED
  BY <1>1, <1>6, <1>7, <1>8 DEF Abstract!Put

(* Storing the private index into the shared one is a Publish. *)
LEMMA PublishRefines ==
  ASSUME IInv, IInv', UNCHANGED <<m_data, m_write, m_localWrite>>, m_read' = m_localWrite
  PROVE  Abstract!Publish
<1>a. Distance(m_read, m_localWrite) \in Nat /\ Distance(m_write, m_read) \in Nat
  <2>1. m_read \in Index /\ m_localWrite \in Index /\ m_write \in Index
    BY DEF IInv, TypeOK
  <2>. QED
    BY <2>1, DistanceNat
<1>b. PICK h \in Nat, n \in Nat : h = Distance(m_read, m_localWrite) /\ n = Distance(m_write, m_read)
  BY <1>a
<1>1. /\ h = Distance(m_read, m_localWrite) /\ n = Distance(m_write, m_read) /\ n + h \in Index
      /\ Distance(m_read, m_localWrite)' = 0 /\ Distance(m_write, m_read)' = n + h
      /\ Slot(m_write, n) = m_read
  BY <1>b, QueueAssumption DEF IInv, TypeOK, Distance, Index, Slot
<1>2. Held' = <<>>
  BY <1>1 DEF Held, Entries
<1>3. Visible' = Visible \o Held
  <2>1. Visible' = Entries(m_data, m_write, n + h)
    BY <1>1 DEF Visible, Entries, Slot
  <2>2. Visible = Entries(m_data, m_write, n) /\ Held = Entries(m_data, Slot(m_write, n), h)
    BY <1>1 DEF Visible, Held
  <2>3. m_data \in [Index -> Header] /\ m_write \in Index
    BY DEF IInv, TypeOK
  <2>4. n + h \in Index
    BY <1>1
  <2>5. Entries(m_data, m_write, n + h) = Entries(m_data, m_write, n) \o Entries(m_data, Slot(m_write, n), h)
    BY <2>3, <2>4, EntriesConcat, Zenon
  <2>. QED
    BY <2>1, <2>2, <2>5
<1>. QED
  BY <1>2, <1>3 DEF Abstract!Publish

(* Giving a slot back is a Take. *)
LEMMA AdvanceRefines ==
  ASSUME IInv, IInv', Advance
  PROVE  Abstract!Take
<1>a. Distance(m_write', m_read) \in Nat
  BY QueueAssumption DEF IInv, TypeOK, Distance, Index, Advance, queueIdxInc
<1>b. PICK n \in Nat : n = Distance(m_write', m_read)
  BY <1>a
<1>1. /\ n + 1 = Distance(m_write, m_read) /\ n + 1 \in Index
      /\ n = Distance(m_write, m_read)'
  BY <1>b, QueueAssumption DEF IInv, TypeOK, Distance, Advance, producerVars, queueIdxInc, Index
<1>2. /\ m_write' = queueIdxInc(m_write) /\ UNCHANGED <<m_data, m_read, m_localWrite>>
      /\ m_data \in [Index -> Header] /\ m_write \in Index
  BY DEF Advance, producerVars, IInv, TypeOK
<1>3. Held' = Held
  BY <1>2 DEF Held, Entries, Distance, Slot
<1>4. Visible = Entries(m_data, m_write, n + 1) /\ Visible' = Entries(m_data, queueIdxInc(m_write), n)
  BY <1>1, <1>2 DEF Visible, Entries, Slot
<1>. QED
  BY <1>1, <1>2, <1>3, <1>4, EntriesTail DEF Abstract!Take

(* A step that leaves the slots and the three indices alone is a stutter. *)
LEMMA OthersStutter ==
  ASSUME UNCHANGED <<m_data, m_read, m_write, m_localWrite>>
  PROVE  UNCHANGED Abstract!fifoVars
  BY DEF Abstract!fifoVars, Held, Visible, Entries, Slot, Distance

(* The ring implements the bounded first-in first-out queue: every step is *)
(* a Put, a Publish or a Take of it, or changes nothing it can see.        *)
THEOREM Refinement == QueueSpec => ImplementsFifo
<1>1. IInv /\ IInv' /\ [QueueNext]_circularVars => [Abstract!Next]_(Abstract!fifoVars)
  <2> SUFFICES ASSUME IInv, IInv', [QueueNext]_circularVars PROVE [Abstract!Next]_(Abstract!fifoVars)
    OBVIOUS
  <2>1. CASE Store
    <3>1. obj \in Values
      BY <2>1 DEF Store, IInv, TypeOK
    <3>. QED
      BY <2>1, <3>1, StoreRefines DEF Abstract!Next
  <2>2. CASE PublishBatchFull
    BY <2>2, PublishRefines DEF PublishBatchFull, Abstract!Next
  <2>3. CASE WaitWhileFull \/ Flush
    <3>1. CASE m_pending = 0
      BY <2>3, <3>1, OthersStutter DEF WaitWhileFull, Flush, flush
    <3>2. CASE m_pending # 0
      BY <2>3, <3>2, PublishRefines DEF WaitWhileFull, Flush, flush, Abstract!Next
    <3>. QED
      BY <3>1, <3>2
  <2>4. CASE Advance
    BY <2>4, AdvanceRefines DEF Abstract!Next
  <2>5. CASE \/ \E v \in Values : Push(v)
             \/ Reload
             \/ \E c \in {"peek", "pull"} : Operation(c)
             \/ Poll \/ PeekReturns \/ CopyOut
             \/ UNCHANGED circularVars
    <3>1. UNCHANGED <<m_data, m_read, m_write, m_localWrite>>
      BY <2>5 DEF Push, Reload, Operation, Poll, PeekReturns, CopyOut, circularVars, producerVars
    <3>. QED
      BY <3>1, OthersStutter
  <2>. QED
    BY <2>1, <2>2, <2>3, <2>4, <2>5 DEF QueueNext, Producer, Consumer
<1>. QED
  BY <1>1, InitRefines, Invariance, PTL DEF QueueSpec, Abstract!Spec, ImplementsFifo
=================================================================================
