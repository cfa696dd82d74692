---------------------------- MODULE LockableProofs ----------------------------
(***************************************************************************)
(* What games write through a lock.  For every size of heap, segment and   *)
(* resource and any number of resources: allocations of the shared heap    *)
(* never overlap, and the server copies what was written through each      *)
(* lock.  For surfaces of any size and format: the bytes that are copied   *)
(* are those of the rectangle, in the rows and columns they belong to.     *)
(***************************************************************************)
EXTENDS Lockable, Images, SequenceTheorems, FiniteSetTheorems, TLAPS

\* The client's segments follow one another below m_nChunks.
SegmentsInv ==
    /\ nChunks \in Nat
    /\ segments \in Seq([base : Nat, size : Nat])
    /\ \A j \in DOMAIN segments :
        /\ segments[j].base \in Nat
        /\ segments[j].size \in Nat
        /\ segments[j].base + segments[j].size =< nChunks

\* The allocations are ordered by their first chunks, each inside one segment.
AllocationsInv ==
    /\ \A c \in DOMAIN allocations :
        /\ c \in Nat
        /\ allocations[c] \in Nat
        /\ c =< allocations[c]
        /\ \E j \in DOMAIN segments :
            /\ segments[j].base =< c
            /\ allocations[c] < segments[j].base + segments[j].size
    /\ \A c, d \in DOMAIN allocations : c < d => allocations[c] < d

\* The ids in use are below m_nextUid and name the allocations one to one.
CacheInv ==
    /\ nextUid \in Nat
    /\ \A id \in DOMAIN cache :
        /\ id \in Nat
        /\ id < nextUid
        /\ cache[id] \in DOMAIN allocations
    /\ \A c \in DOMAIN allocations : \E id \in DOMAIN cache : cache[id] = c
    /\ \A i, j \in DOMAIN cache : cache[i] = cache[j] => i = j

\* A Lock that is about to take the chunks at call.first has all allocations
\* below them.
CallInv ==
    /\ call.pc \in {"idle", "search", "grow", "place"}
    /\ call.pc # "idle" => call.request.res \in Resources
    /\ call.pc = "place" =>
        /\ call.first \in Nat
        /\ \A c \in DOMAIN allocations : allocations[c] < call.first

HeapInv == SegmentsInv /\ AllocationsInv /\ CacheInv /\ CallInv

\* Chunks that no allocation holds.
Free(a) == \A c \in DOMAIN allocations : allocations[c] < a.first \/ a.final < c

(* Ordered, valid allocations share no chunk.                               *)
LEMMA InvImpliesDisjoint == HeapInv => Disjoint
<1> SUFFICES ASSUME HeapInv PROVE Disjoint
  OBVIOUS
<1> USE DEF HeapInv
<1>1. ASSUME NEW c \in DOMAIN allocations, NEW d \in DOMAIN allocations, c # d
      PROVE  Span(c) \cap Span(d) = {}
  BY <1>1 DEF AllocationsInv, Span
<1>2. ASSUME NEW c \in DOMAIN allocations
      PROVE  \E j \in DOMAIN segments : \A x \in Span(c) : InSegment(segments, j, x)
  <2>1. PICK j \in DOMAIN segments :
            /\ segments[j].base =< c
            /\ allocations[c] < segments[j].base + segments[j].size
    BY DEF AllocationsInv
  <2>2. /\ c \in Nat /\ allocations[c] \in Nat
        /\ segments[j].base \in Nat /\ segments[j].size \in Nat
    BY DEF AllocationsInv, SegmentsInv
  <2>3. \A x \in Span(c) : InSegment(segments, j, x)
    BY <2>1, <2>2 DEF Span, InSegment
  <2> QED
    BY <2>3
<1>3. DOMAIN allocations = {cache[id] : id \in DOMAIN cache}
  BY DEF CacheInv
<1> QED
  BY <1>1, <1>2, <1>3 DEF Disjoint, CacheInv

\* What findAllocation's search returns is valid and free.
LEMMA FoundIsFree ==
    ASSUME HeapInv, NEW n \in Nat \ {0}, NEW a \in Found(n)
    PROVE  /\ a.first \in Nat /\ a.final \in Nat
           /\ isValidAllocation(a)
           /\ Free(a)
<1> USE DEF HeapInv
<1>1. CASE a \in ValidInMiddle(n)
  <2>1. isValidAllocation(a) /\ a \in findFreeInMiddle(n)
    BY <1>1 DEF ValidInMiddle
  <2>2. PICK s \in StripsBefore : s[2] - s[1] >= n /\ a = createAllocation(s[1], n)
    BY <2>1 DEF findFreeInMiddle
  <2>3. s[1] \in Nat /\ s[2] \in Nat /\ s[2] \in DOMAIN allocations
    BY DEF StripsBefore, AllocationsInv
  <2>4. a.first = s[1] /\ a.final = s[1] + n - 1
    BY <2>2 DEF createAllocation
  <2>5. ASSUME NEW c \in DOMAIN allocations
        PROVE  allocations[c] < a.first \/ a.final < c
    <3>1. c \in Nat /\ allocations[c] \in Nat
      BY DEF AllocationsInv
    <3>2. CASE s[2] =< c
      BY <2>2, <2>3, <2>4, <3>1, <3>2
    <3>3. CASE c < s[2]
      <4>1. PICK b \in DOMAIN allocations :
                s[1] = allocations[b] + 1 /\ c =< b
        BY <2>3, <3>1, <3>3 DEF StripsBefore
      <4>2. b \in Nat /\ allocations[b] \in Nat /\ b =< allocations[b]
        BY DEF AllocationsInv
      <4>3. allocations[c] =< allocations[b]
        BY <3>1, <4>1, <4>2 DEF AllocationsInv
      <4> QED
        BY <2>4, <3>1, <4>1, <4>2, <4>3
    <3> QED
      BY <2>3, <3>1, <3>2, <3>3
  <2> QED
    BY <2>1, <2>3, <2>4, <2>5 DEF Free
<1>2. CASE a \in ValidOnEnd(n)
  <2>1. isValidAllocation(a) /\ a \in findFreeOnEnd(n)
    BY <1>2 DEF ValidOnEnd
  <2>2. CASE DOMAIN allocations = {}
    <3>1. PICK c \in 0 .. MaxHeap : a = createAllocation(c, n)
      BY <2>1, <2>2 DEF findFreeOnEnd
    <3> QED
      BY <2>1, <2>2, <3>1, HeapAssumption DEF createAllocation, Free
  <2>3. CASE DOMAIN allocations # {}
    <3>1. PICK b \in DOMAIN allocations :
              /\ a = createAllocation(allocations[b] + 1, n)
              /\ \A c \in DOMAIN allocations : c =< b
      BY <2>1, <2>3 DEF findFreeOnEnd
    <3>2. b \in Nat /\ allocations[b] \in Nat /\ b =< allocations[b]
      BY DEF AllocationsInv
    <3>3. a.first = allocations[b] + 1 /\ a.final = allocations[b] + n
      BY <3>1, <3>2 DEF createAllocation
    <3>4. ASSUME NEW c \in DOMAIN allocations PROVE allocations[c] < a.first
      BY <3>1, <3>2, <3>3 DEF AllocationsInv
    <3> QED
      BY <2>1, <3>2, <3>3, <3>4 DEF Free
  <2> QED
    BY <2>2, <2>3
<1> QED
  BY <1>1, <1>2 DEF Found

\* A Lock that takes free, valid chunks leaves a sound heap.
LEMMA LockedKeepsInv ==
    ASSUME HeapInv, NEW a, a.first \in Nat, a.final \in Nat,
           isValidAllocation(a), Free(a), Locked(a)
    PROVE  HeapInv'
<1> USE DEF HeapInv
<1>1. a.first =< a.final /\ a.first \notin DOMAIN allocations
  BY DEF isValidAllocation, Free, AllocationsInv
<1>2. PICK j \in DOMAIN segments :
          InSegment(segments, j, a.first) /\ InSegment(segments, j, a.final)
  BY DEF isValidAllocation, chunkIdToSegId
<1>3. UNCHANGED <<segments, nChunks, defaultSize>> /\ call' = NoCall
  BY DEF Locked
<1>4. /\ nextUid' = nextUid + 1
      /\ DOMAIN cache' = DOMAIN cache \cup {nextUid}
      /\ cache'[nextUid] = a.first
      /\ \A id \in DOMAIN cache : id # nextUid /\ cache'[id] = cache[id]
  BY DEF Locked, TakeChunks, CacheInv
<1>5. /\ DOMAIN allocations' = DOMAIN allocations \cup {a.first}
      /\ allocations'[a.first] = a.final
      /\ \A c \in DOMAIN allocations : allocations'[c] = allocations[c]
  BY <1>1 DEF Locked, TakeChunks
<1>6. SegmentsInv'
  BY <1>3 DEF SegmentsInv
<1>7. AllocationsInv'
  <2>1. ASSUME NEW c \in DOMAIN allocations'
        PROVE  /\ c \in Nat
               /\ allocations'[c] \in Nat
               /\ c =< allocations'[c]
               /\ \E k \in DOMAIN segments :
                   /\ segments[k].base =< c
                   /\ allocations'[c] < segments[k].base + segments[k].size
    <3>1. CASE c = a.first
      BY <1>1, <1>2, <1>5, <3>1 DEF InSegment
    <3>2. CASE c \in DOMAIN allocations
      BY <1>5, <3>2 DEF AllocationsInv
    <3> QED
      BY <1>5, <3>1, <3>2
  <2>2. ASSUME NEW c \in DOMAIN allocations', NEW d \in DOMAIN allocations', c < d
        PROVE  allocations'[c] < d
    BY <1>1, <1>5, <2>2 DEF AllocationsInv, Free
  <2> QED
    BY <1>3, <2>1, <2>2 DEF AllocationsInv
<1>8. CacheInv'
  <2>1. nextUid \in Nat
    BY DEF CacheInv
  <2>2. ASSUME NEW id \in DOMAIN cache'
        PROVE  id \in Nat /\ id < nextUid' /\ cache'[id] \in DOMAIN allocations'
    BY <1>4, <1>5, <2>1 DEF CacheInv
  <2>3. ASSUME NEW c \in DOMAIN allocations'
        PROVE  \E id \in DOMAIN cache' : cache'[id] = c
    BY <1>4, <1>5 DEF CacheInv
  <2>4. ASSUME NEW i \in DOMAIN cache', NEW k \in DOMAIN cache', cache'[i] = cache'[k]
        PROVE  i = k
    BY <1>1, <1>4, <2>4 DEF CacheInv
  <2> QED
    BY <1>4, <2>1, <2>2, <2>3, <2>4 DEF CacheInv
<1>9. CallInv'
  BY <1>3 DEF CallInv, NoCall
<1> QED
  BY <1>6, <1>7, <1>8, <1>9

(* Every resource has chunks.                                               *)
LEMMA SizeIsPositive == ASSUME NEW r \in Resources PROVE Size[r] \in Nat \ {0}
  BY LockableAssumption

(* The size of a segment that was mapped.                                   *)
LEMMA SegmentSizesAreNat ==
    ASSUME NEW total, NEW size, NEW s \in SegmentSizes(total, size)
    PROVE  s \in Nat
  BY DEF SegmentSizes

\* At the start there is one segment and no allocation.
LEMMA InitHeapInv == InitLockable => HeapInv
<1> SUFFICES ASSUME InitLockable PROVE HeapInv
  OBVIOUS
<1>1. PICK size \in SegmentSizes(0, FirstSegment) :
          segments = <<[base |-> 0, size |-> size]>> /\ nChunks = size
  BY DEF InitLockable
<1>2. size \in Nat
  BY SegmentSizesAreNat, HeapAssumption
<1>3. SegmentsInv
  BY <1>1, <1>2, HeapAssumption DEF InitLockable, SegmentsInv
<1>4. DOMAIN allocations = {} /\ DOMAIN cache = {} /\ nextUid = 0 /\ call.pc = "idle"
  BY DEF InitLockable, NoCall
<1> QED
  BY <1>3, <1>4 DEF HeapInv, AllocationsInv, CacheInv, CallInv

\* Every step keeps the heap sound.
LEMMA NextHeapInv == HeapInv /\ [LockableNext]_lockableVars => HeapInv'
<1> SUFFICES ASSUME HeapInv, [LockableNext]_lockableVars PROVE HeapInv'
  OBVIOUS
<1> USE DEF HeapInv
<1>1. CASE UNCHANGED <<clientHeap, call>>
  BY <1>1 DEF clientHeap, SegmentsInv, AllocationsInv, CacheInv, CallInv
<1>2. ASSUME NEW r \in Resources, NEW readonly \in BOOLEAN, LockAllocates(r, readonly)
      PROVE  HeapInv'
  <2>1. UNCHANGED <<segments, nChunks, cache, allocations, nextUid>>
    BY <1>2 DEF LockAllocates
  <2>2. CallInv'
    BY <1>2, <2>1 DEF LockAllocates, CallInv
  <2> QED
    BY <2>1, <2>2 DEF SegmentsInv, AllocationsInv, CacheInv
<1>3. CASE SearchFinds
  <2>1. call.request.res \in Resources
    BY <1>3 DEF SearchFinds, CallInv
  <2>2. PICK a \in Found(Size[call.request.res]) : Locked(a)
    BY <1>3 DEF SearchFinds
  <2> QED
    BY <2>1, <2>2, SizeIsPositive, FoundIsFree, LockedKeepsInv
<1>4. CASE SearchFails
  <2>1. /\ DOMAIN cache' = DOMAIN cache \ Returned
        /\ \A id \in DOMAIN cache' : cache'[id] = cache[id]
        /\ DOMAIN allocations' = DOMAIN allocations \ {cache[id] : id \in Returned}
        /\ \A c \in DOMAIN allocations' : allocations'[c] = allocations[c]
    BY <1>4 DEF SearchFails, freeDeallocations
  <2>2. UNCHANGED <<segments, nChunks, defaultSize, nextUid>>
    BY <1>4 DEF SearchFails
  <2>3. SegmentsInv' /\ AllocationsInv'
    BY <2>1, <2>2 DEF SegmentsInv, AllocationsInv
  <2>4. CacheInv'
    BY <2>1, <2>2 DEF CacheInv, Returned
  <2>5. CallInv'
    <3>1. CASE call.failed = 2
      BY <1>4, <3>1 DEF SearchFails, CallInv
    <3>2. CASE call' = [call EXCEPT !.failed = IF @ < 3 THEN @ + 1 ELSE 3]
      BY <1>4, <3>2 DEF SearchFails, CallInv
    <3>3. CASE LockFails
      BY <3>3 DEF LockFails, CallInv, NoCall
    <3> QED
      BY <1>4, <3>1, <3>2, <3>3 DEF SearchFails
  <2> QED
    BY <2>3, <2>4, <2>5
<1>5. CASE Grow
  <2>1. PICK size \in SegmentSizes(nChunks, defaultSize) : addNewHeapSegment(size)
    BY <1>5 DEF Grow
  <2>2. size \in Nat /\ nChunks \in Nat
    BY SegmentSizesAreNat DEF SegmentsInv
  <2>3. UNCHANGED <<defaultSize, cache, allocations, nextUid>>
    BY <1>5 DEF Grow
  <2>4. /\ segments' = Append(segments, [base |-> nChunks, size |-> size])
        /\ nChunks' = nChunks + size
    BY <2>1 DEF addNewHeapSegment
  <2>5. /\ segments' \in Seq([base : Nat, size : Nat])
        /\ DOMAIN segments' = DOMAIN segments \cup {Len(segments) + 1}
        /\ segments'[Len(segments) + 1] = [base |-> nChunks, size |-> size]
        /\ \A j \in DOMAIN segments : segments'[j] = segments[j]
    BY <2>2, <2>4 DEF SegmentsInv
  <2>6. SegmentsInv'
    <3>1. ASSUME NEW j \in DOMAIN segments'
          PROVE  /\ segments'[j].base \in Nat
                 /\ segments'[j].size \in Nat
                 /\ segments'[j].base + segments'[j].size =< nChunks'
      <4>1. CASE j \in DOMAIN segments
        <5>1. /\ segments[j].base \in Nat
              /\ segments[j].size \in Nat
              /\ segments[j].base + segments[j].size =< nChunks
          BY <4>1 DEF SegmentsInv
        <5>2. segments'[j] = segments[j]
          BY <2>5, <4>1
        <5> QED
          BY <2>2, <2>4, <5>1, <5>2
      <4>2. CASE j = Len(segments) + 1
        BY <2>2, <2>4, <2>5, <4>2
      <4> QED
        BY <2>5, <4>1, <4>2
    <3>2. nChunks' \in Nat
      BY <2>2, <2>4
    <3> QED
      BY <2>5, <3>1, <3>2 DEF SegmentsInv
  <2>7. AllocationsInv' /\ CacheInv'
    BY <2>3, <2>5 DEF AllocationsInv, CacheInv
  <2>8. ASSUME NEW c \in DOMAIN allocations PROVE allocations[c] < nChunks
    <3>1. PICK j \in DOMAIN segments :
              allocations[c] < segments[j].base + segments[j].size
      BY DEF AllocationsInv
    <3>2. allocations[c] \in Nat
      BY DEF AllocationsInv
    <3>3. /\ segments[j].base \in Nat /\ segments[j].size \in Nat
          /\ segments[j].base + segments[j].size =< nChunks
      BY DEF SegmentsInv
    <3> QED
      BY <2>2, <3>1, <3>2, <3>3
  <2>9. CallInv'
    BY <1>5, <2>2, <2>3, <2>8 DEF Grow, CallInv
  <2> QED
    BY <2>6, <2>7, <2>9
<1>6. CASE GrowFails
  <2>1. UNCHANGED clientHeap
    BY <1>6 DEF GrowFails
  <2>2. CallInv'
    BY <1>6 DEF GrowFails, LockFails, CallInv, NoCall
  <2> QED
    BY <2>1, <2>2 DEF clientHeap, SegmentsInv, AllocationsInv, CacheInv
<1>7. CASE Place
  <2> DEFINE a == createAllocation(call.first, Size[call.request.res])
  <2>1. CASE isValidAllocation(a) /\ Locked(a)
    <3>1. call.first \in Nat /\ Size[call.request.res] \in Nat \ {0}
      BY <1>7, SizeIsPositive DEF Place, CallInv
    <3>2. a.first \in Nat /\ a.final \in Nat /\ Free(a)
      BY <1>7, <3>1 DEF Place, CallInv, createAllocation, Free
    <3> QED
      BY <2>1, <3>2, LockedKeepsInv
  <2>2. CASE UNCHANGED clientHeap /\ LockFails
    BY <2>2 DEF clientHeap, LockFails, NoCall, SegmentsInv, AllocationsInv, CacheInv, CallInv
  <2> QED
    BY <1>7, <2>1, <2>2 DEF Place
<1> QED
  BY <1>1, <1>2, <1>3, <1>4, <1>5, <1>6, <1>7
     DEF LockableNext, lockableVars, LockAgain, Unlock, WriteLock, Destroy, Serve

\* No two allocations of the shared heap ever share a chunk.
THEOREM AllocationsDisjoint == LockableSpec => []Disjoint
<1>1. LockableSpec => []HeapInv
  BY InitHeapInv, NextHeapInv, PTL DEF LockableSpec
<1> QED
  BY <1>1, InvImpliesDisjoint, PTL

---------------------------------------------------------------------------
(* Behind the allocator: what the server sees of it *)

Messages ==
    [op : {"AddSeg"}, size : Nat] \cup [op : {"Alloc"}, id : Nat, first : Nat]
        \cup [op : {"Unlock", "Dealloc"}, id : Nat]
Infos == [id : Nat, at : Nat, discarded : Nat \cup {None}, readonly : BOOLEAN]

LockType ==
    /\ queue \in Seq(Messages)
    /\ srvSegments \in Seq([base : Nat, size : Nat]) /\ srvChunks \in Nat
    /\ bufferId \in [Resources -> Nat \cup {None}]
    /\ lockInfos \in [Resources -> Seq(Infos)]
    /\ DOMAIN chunk = Chunks /\ DOMAIN memory = Chunks
    /\ nChunks =< MaxHeap

\* The segments announced by the first i commands; whether none was missed.
Announced(i) == Cardinality({j \in 1 .. i : queue[j].op = "AddSeg"})
Mapped == Len(srvSegments) + Announced(Len(queue)) = Len(segments)

\* The segments follow one another, and a server that has missed none has a
\* beginning of them and is told the rest in order.
BaseOf(j) == IF j =< Len(segments) THEN segments[j].base ELSE nChunks
MapInv ==
    /\ \A j \in DOMAIN segments :
        /\ BaseOf(j + 1) = segments[j].base + segments[j].size
        /\ \A k \in j + 1 .. Len(segments) :
            segments[j].base + segments[j].size =< segments[k].base
    /\ Len(srvSegments) + Announced(Len(queue)) =< Len(segments)
    /\ Mapped =>
        /\ \A j \in DOMAIN srvSegments : srvSegments[j] = segments[j]
        /\ srvChunks = BaseOf(Len(srvSegments) + 1)
        /\ \A i \in DOMAIN queue : queue[i].op = "AddSeg" =>
            /\ Len(srvSegments) + Announced(i) \in DOMAIN segments
            /\ queue[i].size = segments[Len(srvSegments) + Announced(i)].size

\* An allocation that was not given back; one the server knows, or will know
\* before its i-th command; one it is told to give back before that.
Live(id) == id \in DOMAIN cache /\ chunk[cache[id]] # "Deallocated"
Known(i, id) ==
    \/ id \in DOMAIN srvCache /\ srvCache[id] = cache[id]
    \/ \E j \in 1 .. i - 1 : queue[j].op = "Alloc" /\ queue[j].id = id
Returning(i, id) == \E j \in 1 .. i - 1 : queue[j].op = "Dealloc" /\ queue[j].id = id

AllocInv ==
    \A j \in DOMAIN queue : queue[j].op = "Alloc" =>
        /\ queue[j].id < nextUid
        /\ queue[j].id \in DOMAIN cache => queue[j].first = cache[queue[j].id]

\* The bytes of an allocation are those written through its own lock, and it
\* lies in a segment the server has by its i-th command.
Written(id) == \A c \in Span(cache[id]) : memory[c] = id
Within(j, id) ==
    /\ segments[j].base =< cache[id]
    /\ allocations[cache[id]] < segments[j].base + segments[j].size
Reached(i, id) ==
    Mapped => \E j \in DOMAIN segments : j =< Len(srvSegments) + Announced(i) /\ Within(j, id)

\* An Unlock or Dealloc on its way is about an allocation that is neither
\* given back nor will be before; what an Unlock copies stays as written.
Sent(i, m) ==
    /\ m.op \in {"Unlock", "Dealloc"} => Live(m.id) /\ Known(i, m.id) /\ ~Returning(i, m.id)
    /\ m.op = "Unlock" => Written(m.id) /\ Reached(i, m.id)
SentInv == \A i \in DOMAIN queue : Sent(i, queue[i])

\* What a resource has, has locked or is going to discard is its own, and
\* nothing has been sent that gives it back.
Holds(r, id) ==
    \/ bufferId[r] = id
    \/ \E k \in DOMAIN lockInfos[r] : id \in {lockInfos[r][k].id, lockInfos[r][k].discarded}
Own(r, id) ==
    /\ Live(id)
    /\ Known(Len(queue) + 1, id)
    /\ ~Returning(Len(queue) + 1, id)
    /\ allocations[cache[id]] = cache[id] + Size[r] - 1
    /\ \A s \in Resources : Holds(s, id) => s = r
HeldInv == \A r \in Resources, id \in Nat : Holds(r, id) => Own(r, id)

\* A lock discards what no later lock and no other one is about.
InfoInv ==
    \A r \in Resources : \A k \in DOMAIN lockInfos[r] :
        /\ lockInfos[r][k].at = cache[lockInfos[r][k].id]
        /\ lockInfos[r][k].discarded # None =>
            /\ lockInfos[r][k].discarded # bufferId[r]
            /\ \A m \in DOMAIN lockInfos[r] :
                /\ lockInfos[r][m].id = lockInfos[r][k].discarded => m < k
                /\ lockInfos[r][m].discarded = lockInfos[r][k].discarded => m = k

RequestInv ==
    call.pc # "idle" =>
        call.request.discarded = bufferId[call.request.res] /\ call.request.readonly \in BOOLEAN

LockInv ==
    /\ HeapInv /\ LockType /\ MapInv /\ AllocInv /\ SentInv
    /\ HeldInv /\ InfoInv /\ RequestInv

(* The queue only gets longer: what was sent stays where it is.               *)
Grows ==
    /\ queue' \in Seq(Messages) /\ Len(queue) =< Len(queue')
    /\ \A j \in 1 .. Len(queue) : queue'[j] = queue[j]

(* Commands that announce no segment leave the announcements as they were.  *)
LEMMA Extended ==
    ASSUME queue \in Seq(Messages), Grows
    PROVE  /\ \A i \in 0 .. Len(queue) : Announced(i)' = Announced(i) /\ Announced(i) \in Nat
           /\ \A i \in 1 .. Len(queue) + 1 : \A id :
                (Returning(i, id)' <=> Returning(i, id))
           /\ (\A j \in Len(queue) + 1 .. Len(queue') : queue'[j].op # "AddSeg") =>
                \A i \in Len(queue) .. Len(queue') : Announced(i)' = Announced(Len(queue))
<1> DEFINE A(q, i) == {j \in 1 .. i : q[j].op = "AddSeg"}
<1>0. Len(queue) \in Nat /\ Len(queue') \in Nat
  BY LenProperties DEF Grows
<1>1. ASSUME NEW i \in 0 .. Len(queue)
      PROVE  Announced(i)' = Announced(i) /\ Announced(i) \in Nat
  <2>1. A(queue', i) = A(queue, i)
    BY <1>0 DEF Grows
  <2>2. IsFiniteSet(A(queue, i))
    <3>1. IsFiniteSet(1 .. i)
      BY <1>0, FS_Interval
    <3> QED BY <3>1, FS_Subset
  <2> QED BY <2>1, <2>2, FS_CardinalityType DEF Announced
<1>2. ASSUME NEW i \in 1 .. Len(queue) + 1, NEW id
      PROVE  Returning(i, id)' <=> Returning(i, id)
  <2>1. \A j \in 1 .. i - 1 : queue'[j] = queue[j]
    BY <1>0 DEF Grows
  <2> QED BY <2>1 DEF Returning
<1>3. ASSUME \A j \in Len(queue) + 1 .. Len(queue') : queue'[j].op # "AddSeg",
             NEW i \in Len(queue) .. Len(queue')
      PROVE  Announced(i)' = Announced(Len(queue))
  <2>1. A(queue', i) = A(queue, Len(queue))
    BY <1>0, <1>3 DEF Grows
  <2> QED BY <2>1 DEF Announced
<1> QED BY <1>1, <1>2, <1>3

(* Adding a command at the end.                                             *)
LEMMA AppendGrows ==
    ASSUME queue \in Seq(Messages), NEW m \in Messages, queue' = Append(queue, m)
    PROVE  /\ Grows /\ Len(queue') = Len(queue) + 1 /\ queue'[Len(queue) + 1] = m
           /\ m.op = "AddSeg" =>
                \A i \in Nat : i = Len(queue) + 1 => Announced(i)' = Announced(Len(queue)) + 1
<1> DEFINE A(q, i) == {j \in 1 .. i : q[j].op = "AddSeg"}
<1>1. Grows /\ Len(queue') = Len(queue) + 1 /\ queue'[Len(queue) + 1] = m
  BY AppendProperties, LenProperties DEF Grows
<1>2. ASSUME m.op = "AddSeg", NEW i \in Nat, i = Len(queue) + 1
      PROVE  Announced(i)' = Announced(Len(queue)) + 1
  <2>0. Len(queue) \in Nat
    BY LenProperties
  <2>1. A(queue', i) = A(queue, Len(queue)) \cup {Len(queue) + 1}
    BY <1>1, <1>2, <2>0 DEF Grows
  <2>2. IsFiniteSet(A(queue, Len(queue)))
    <3>1. IsFiniteSet(1 .. Len(queue))
      BY <2>0, FS_Interval
    <3> QED BY <3>1, FS_Subset
  <2>3. Len(queue) + 1 \notin A(queue, Len(queue))
    BY <2>0
  <2>4. Cardinality(A(queue, Len(queue)) \cup {Len(queue) + 1})
          = Cardinality(A(queue, Len(queue))) + 1
    BY <2>2, <2>3, FS_AddElement
  <2> QED BY <2>1, <2>4 DEF Announced
<1> QED BY <1>1, <1>2

(* Taking the first command.                                                *)
LEMMA TailShifts ==
    ASSUME queue \in Seq(Messages), queue # <<>>, queue' = Tail(queue)
    PROVE  /\ queue' \in Seq(Messages) /\ Len(queue) \in Nat \ {0} /\ Len(queue') = Len(queue) - 1
           /\ \A i \in 1 .. Len(queue') : queue'[i] = queue[i + 1]
           /\ \A i \in 0 .. Len(queue') :
                Announced(i + 1) = Announced(i)' + (IF queue[1].op = "AddSeg" THEN 1 ELSE 0)
           /\ \A i \in 0 .. Len(queue') : Announced(i)' \in Nat
<1> DEFINE A(q, i) == {j \in 1 .. i : q[j].op = "AddSeg"}
<1>1. /\ queue' \in Seq(Messages) /\ Len(queue) \in Nat \ {0} /\ Len(queue') = Len(queue) - 1
      /\ \A i \in 1 .. Len(queue') : queue'[i] = queue[i + 1]
  BY HeadTailProperties, EmptySeq, LenProperties
<1>2. ASSUME NEW i \in 0 .. Len(queue')
      PROVE  /\ Announced(i + 1) = Announced(i)' + (IF queue[1].op = "AddSeg" THEN 1 ELSE 0)
             /\ Announced(i)' \in Nat
  <2>1. IsFiniteSet(A(queue', i)) /\ IsFiniteSet(A(queue, i + 1))
    <3>1. IsFiniteSet(1 .. i) /\ IsFiniteSet(1 .. i + 1)
      BY <1>1, FS_Interval
    <3> QED BY <3>1, FS_Subset
  <2> DEFINE B == A(queue, i + 1) \ {1}
             f == [j \in A(queue', i) |-> j + 1]
  <2>2. f \in Bijection(A(queue', i), B)
    <3>1. \A j \in A(queue', i) : j + 1 \in B
      BY <1>1
    <3>2. \A k \in B : k - 1 \in A(queue', i)
      BY <1>1
    <3>3. \A j \in A(queue', i) : f[j] = j + 1 /\ j \in Nat
      BY <1>1
    <3>4. \A k \in B : k \in Nat /\ k - 1 + 1 = k
      BY <1>1
    <3>5. f = [j \in A(queue', i) |-> f[j]]
      OBVIOUS
    <3> HIDE DEF A, B, f
    <3>6. f \in [A(queue', i) -> B]
      BY <3>1, <3>3, <3>5
    <3>7. \A k \in B : \E j \in A(queue', i) : f[j] = k
      BY <3>2, <3>3, <3>4
    <3>8. \A a, b \in A(queue', i) : f[a] = f[b] => a = b
      BY <3>3
    <3>9. f \in Injection(A(queue', i), B)
      BY <3>6, <3>8 DEF Injection, IsInjective
    <3>10. f \in Surjection(A(queue', i), B)
      BY <3>6, <3>7 DEF Surjection
    <3> QED BY <3>9, <3>10 DEF Bijection
  <2>3. Cardinality(B) = Cardinality(A(queue', i))
    <3> HIDE DEF B, f, A
    <3> QED BY <2>1, <2>2, FS_Bijection DEF ExistsBijection
  <2>4. Cardinality(B) = IF 1 \in A(queue, i + 1) THEN Cardinality(A(queue, i + 1)) - 1
                         ELSE Cardinality(A(queue, i + 1))
    BY <2>1, FS_RemoveElement
  <2>5. 1 \in A(queue, i + 1) <=> queue[1].op = "AddSeg"
    BY <1>1
  <2>6. Cardinality(A(queue', i)) \in Nat /\ Cardinality(A(queue, i + 1)) \in Nat
    BY <2>1, FS_CardinalityType
  <2>7. Announced(i)' = Cardinality(A(queue', i)) /\ Announced(i + 1) = Cardinality(A(queue, i + 1))
    BY DEF Announced
  <2> HIDE DEF A, B
  <2> QED BY <2>3, <2>4, <2>5, <2>6, <2>7
<1> QED BY <1>1, <1>2

(* A step of the client neither moves nor gives back a live allocation.     *)
Steady(id) ==
    Live(id)' /\ cache'[id] = cache[id] /\ allocations'[cache[id]] = allocations[cache[id]]

(* A command on its way stays right while live allocations stay.            *)
LEMMA SentKept ==
    ASSUME LockInv, Grows, UNCHANGED <<srvCache, srvSegments>>, Mapped' => Mapped,
           \A j \in DOMAIN segments : j \in DOMAIN segments' /\ segments'[j] = segments[j],
           NEW i \in DOMAIN queue, Live(queue[i].id) => Steady(queue[i].id),
           \A id : queue[i].op = "Unlock" /\ queue[i].id = id => Written(id)'
    PROVE  Sent(i, queue[i])'
<1>1. queue \in Seq(Messages) /\ DOMAIN queue = 1 .. Len(queue) /\ Len(queue) \in Nat
  BY LenProperties DEF LockInv, LockType
<1>2. i \in 1 .. Len(queue) /\ queue'[i] = queue[i]
  BY <1>1 DEF Grows
<1> DEFINE id == queue[i].id
<1>3. Sent(i, queue[i])
  BY DEF LockInv, SentInv
<1>4. ASSUME queue[i].op \in {"Unlock", "Dealloc"}
      PROVE  Live(queue[i].id)' /\ Known(i, queue[i].id)' /\ ~Returning(i, queue[i].id)'
  <2>1. Live(id) /\ Known(i, id) /\ ~Returning(i, id)
    BY <1>3, <1>4 DEF Sent
  <2>2. Live(id)' /\ cache'[id] = cache[id]
    BY <2>1 DEF Steady
  <2>3. queue'[i].id = id
    BY <1>2
  <2>4. PICK x : x = id
    OBVIOUS
  <2>5. Live(x)' /\ cache'[x] = cache[x]
    BY <1>2, <2>2, <2>3, <2>4 DEF Live
  <2>6. Known(i, x)'
    BY <1>1, <1>2, <2>1, <2>4, <2>5 DEF Known, Grows
  <2>7. ~Returning(i, x)'
    <3>1. ~Returning(i, x) /\ i \in 1 .. Len(queue) + 1
      BY <1>1, <1>2, <2>1, <2>4
    <3>2. Returning(i, x)' <=> Returning(i, x)
      BY <1>1, <3>1, Extended
    <3> QED BY <3>1, <3>2
  <2> QED BY <2>3, <2>4, <2>5, <2>6, <2>7 DEF Live, Known, Returning
<1>5. ASSUME queue[i].op = "Unlock"
      PROVE  Written(queue[i].id)' /\ Reached(i, queue[i].id)'
  <2>1. PICK x : x = queue[i].id
    OBVIOUS
  <2>2. Written(x)' /\ x = queue'[i].id
    BY <1>2, <1>5, <2>1
  <2>3. Reached(i, x) /\ Live(x)
    BY <1>3, <1>5, <2>1 DEF Sent
  <2>4. cache'[x] = cache[x] /\ allocations'[cache[x]] = allocations[cache[x]]
    BY <2>1, <2>3 DEF Steady
  <2>5. Announced(i)' = Announced(i)
    BY <1>1, <1>2, Extended
  <2>6. ASSUME Mapped'
        PROVE  \E j \in DOMAIN segments' : j =< Len(srvSegments') + Announced(i)' /\ Within(j, x)'
    <3>1. PICK j \in DOMAIN segments : j =< Len(srvSegments) + Announced(i) /\ Within(j, x)
      BY <2>3, <2>6 DEF Reached
    <3>2. Within(j, x)'
      BY <2>4, <3>1 DEF Within
    <3> QED BY <2>5, <3>1, <3>2
  <2>7. Reached(i, x)'
    BY <2>6 DEF Reached
  <2> QED BY <2>2, <2>7 DEF Written, Reached, Within, Span
<1>6. queue'[i].op = queue[i].op
  BY <1>2
<1> QED BY <1>4, <1>5, <1>6 DEF Sent

(* So do the numbers of the allocations on their way.                       *)
LEMMA AllocKept ==
    ASSUME LockInv, Grows, nextUid' \in Nat, nextUid =< nextUid',
           \A id \in DOMAIN cache' : id < nextUid => id \in DOMAIN cache /\ cache'[id] = cache[id],
           \A j \in Len(queue) + 1 .. Len(queue') : queue'[j].op = "Alloc" =>
                /\ queue'[j].id < nextUid'
                /\ queue'[j].id \in DOMAIN cache' => queue'[j].first = cache'[queue'[j].id]
    PROVE  AllocInv'
<1>1. queue \in Seq(Messages) /\ DOMAIN queue = 1 .. Len(queue) /\ Len(queue) \in Nat
  BY LenProperties DEF LockInv, LockType
<1>2. DOMAIN queue' = 1 .. Len(queue') /\ Len(queue') \in Nat
  BY LenProperties DEF Grows
<1> SUFFICES ASSUME NEW j \in DOMAIN queue', queue'[j].op = "Alloc"
             PROVE  /\ queue'[j].id < nextUid'
                    /\ queue'[j].id \in DOMAIN cache' => queue'[j].first = cache'[queue'[j].id]
  BY DEF AllocInv
<1> SUFFICES ASSUME j =< Len(queue)
             PROVE  /\ queue'[j].id < nextUid'
                    /\ queue'[j].id \in DOMAIN cache' => queue'[j].first = cache'[queue'[j].id]
  BY <1>1, <1>2
<1>3. j \in DOMAIN queue /\ queue'[j] = queue[j]
  BY <1>1, <1>2 DEF Grows
<1>4. /\ queue[j].id < nextUid
      /\ queue[j].id \in DOMAIN cache => queue[j].first = cache[queue[j].id]
  BY <1>3 DEF LockInv, AllocInv
<1>5. queue[j].id \in Nat /\ nextUid \in Nat
  <2>1. queue[j] \in Messages
    BY <1>1, <1>3, ElementOfSeq
  <2> QED BY <1>3, <2>1 DEF Messages, LockInv, HeapInv, CacheInv
<1> QED BY <1>3, <1>4, <1>5

(* And what a resource holds.                                               *)
LEMMA OwnKept ==
    ASSUME LockInv, Grows, UNCHANGED srvCache, NEW r \in Resources, NEW id \in Nat,
           Own(r, id), Steady(id), \A s \in Resources : Holds(s, id)' => s = r,
           \A j \in Len(queue) + 1 .. Len(queue') : ~(queue'[j].op = "Dealloc" /\ queue'[j].id = id)
    PROVE  Own(r, id)'
<1>1. queue \in Seq(Messages) /\ DOMAIN queue = 1 .. Len(queue) /\ Len(queue) \in Nat
  BY LenProperties DEF LockInv, LockType
<1>2. DOMAIN queue' = 1 .. Len(queue') /\ Len(queue') \in Nat /\ Len(queue) =< Len(queue')
  BY LenProperties DEF Grows
<1>3. Live(id)' /\ cache'[id] = cache[id] /\ allocations'[cache[id]] = allocations[cache[id]]
  BY DEF Steady
<1>4. Known(Len(queue) + 1, id)'
  BY <1>1, <1>2, <1>3 DEF Known, Own, Grows
<1>5. ~Returning(Len(queue) + 1, id)'
  <2>1. ~Returning(Len(queue) + 1, id)
    BY DEF Own
  <2>2. ASSUME NEW j \in 1 .. Len(queue'), queue'[j].op = "Dealloc" /\ queue'[j].id = id
        PROVE  FALSE
    <3>1. CASE j \in 1 .. Len(queue)
      BY <1>1, <2>1, <2>2, <3>1 DEF Returning, Grows
    <3>2. CASE j \in Len(queue) + 1 .. Len(queue')
      BY <2>2, <3>2
    <3> QED BY <1>1, <1>2, <3>1, <3>2
  <2> QED BY <1>2, <2>2 DEF Returning
<1>6. allocations'[cache'[id]] = cache'[id] + Size[r] - 1
  BY <1>3 DEF Own
<1> QED BY <1>3, <1>4, <1>5, <1>6 DEF Own

(* The segments, while neither side has a new one.                          *)
LEMMA MapKept ==
    ASSUME LockInv, Grows, UNCHANGED <<segments, nChunks, srvSegments, srvChunks>>,
           \A j \in Len(queue) + 1 .. Len(queue') : queue'[j].op # "AddSeg"
    PROVE  MapInv' /\ (Mapped' => Mapped)
<1>1. queue \in Seq(Messages) /\ DOMAIN queue = 1 .. Len(queue) /\ Len(queue) \in Nat
  BY LenProperties DEF LockInv, LockType
<1>2. DOMAIN queue' = 1 .. Len(queue') /\ Len(queue') \in Nat /\ Len(queue) =< Len(queue')
  BY LenProperties DEF Grows
<1>3. Announced(Len(queue))' = Announced(Len(queue))
  <2>1. PICK n \in Nat : n = Len(queue')
    BY <1>2
  <2>2. Announced(n)' = Announced(Len(queue))
    BY <1>1, <1>2, <2>1, Extended
  <2> QED BY <2>1, <2>2 DEF Announced
<1>4. \A i \in 0 .. Len(queue) : Announced(i)' = Announced(i)
  BY <1>1, Extended
<1>5. Mapped' <=> Mapped
  BY <1>3 DEF Mapped
<1>6. \A j : BaseOf(j)' = BaseOf(j)
  BY DEF BaseOf
<1>7. Mapped' => \A i \in DOMAIN queue' : queue'[i].op = "AddSeg" =>
                   /\ Len(srvSegments') + Announced(i)' \in DOMAIN segments'
                   /\ queue'[i].size = segments'[Len(srvSegments') + Announced(i)'].size
  BY <1>1, <1>2, <1>4, <1>5 DEF LockInv, MapInv, Grows
<1>8. MapInv
  BY DEF LockInv
<1> QED BY <1>3, <1>5, <1>6, <1>7, <1>8 DEF MapInv

---------------------------------------------------------------------------
(* One step after the other *)

(* Every allocation begins at a chunk there is.                             *)
LEMMA FirstChunks ==
    ASSUME LockInv, NEW c \in DOMAIN allocations
    PROVE  c \in Chunks /\ allocations[c] \in Chunks
<1>1. PICK j \in DOMAIN segments :
          segments[j].base =< c /\ allocations[c] < segments[j].base + segments[j].size
  BY DEF LockInv, HeapInv, AllocationsInv
<1>2. c \in Nat /\ allocations[c] \in Nat /\ c =< allocations[c]
  BY DEF LockInv, HeapInv, AllocationsInv
<1>3. /\ segments[j].base \in Nat /\ segments[j].size \in Nat /\ nChunks \in Nat
      /\ segments[j].base + segments[j].size =< nChunks
  BY DEF LockInv, HeapInv, SegmentsInv
<1>4. nChunks =< MaxHeap /\ MaxHeap \in Nat
  BY HeapAssumption DEF LockInv, LockType
<1> QED BY <1>1, <1>2, <1>3, <1>4 DEF Chunks

(* What the resources and the commands name is in the client's cache.       *)
LEMMA Named ==
    ASSUME LockInv
    PROVE  /\ \A r \in Resources :
                /\ bufferId[r] # None => bufferId[r] \in DOMAIN cache
                /\ Len(lockInfos[r]) \in Nat /\ DOMAIN lockInfos[r] = 1 .. Len(lockInfos[r])
                /\ \A k \in DOMAIN lockInfos[r] :
                    /\ lockInfos[r][k] \in Infos
                    /\ lockInfos[r][k].id \in DOMAIN cache
                    /\ lockInfos[r][k].discarded # None =>
                        lockInfos[r][k].discarded \in DOMAIN cache
           /\ \A i \in DOMAIN queue :
                queue[i].op \in {"Unlock", "Dealloc"} => queue[i].id \in DOMAIN cache
           /\ nextUid \in Nat /\ \A id \in DOMAIN cache : id \in Nat /\ id < nextUid
<1>1. ASSUME NEW r \in Resources
      PROVE  /\ bufferId[r] # None => bufferId[r] \in DOMAIN cache
             /\ Len(lockInfos[r]) \in Nat /\ DOMAIN lockInfos[r] = 1 .. Len(lockInfos[r])
             /\ \A k \in DOMAIN lockInfos[r] :
                 /\ lockInfos[r][k] \in Infos
                 /\ lockInfos[r][k].id \in DOMAIN cache
                 /\ lockInfos[r][k].discarded # None => lockInfos[r][k].discarded \in DOMAIN cache
  <2>1. ASSUME NEW id \in Nat, Holds(r, id) PROVE id \in DOMAIN cache
    BY <2>1 DEF LockInv, HeldInv, Own, Live
  <2>2. bufferId[r] \in Nat \cup {None} /\ lockInfos[r] \in Seq(Infos)
    BY DEF LockInv, LockType
  <2>3. ASSUME NEW k \in DOMAIN lockInfos[r]
        PROVE  /\ lockInfos[r][k] \in Infos
               /\ lockInfos[r][k].id \in Nat /\ lockInfos[r][k].discarded \in Nat \cup {None}
    <3>1. lockInfos[r][k] \in Infos
      BY <2>2, LenProperties, ElementOfSeq
    <3> QED BY <3>1 DEF Infos
  <2> QED BY <2>1, <2>2, <2>3, LenProperties DEF Holds
<1>2. \A i \in DOMAIN queue : queue[i].op \in {"Unlock", "Dealloc"} => queue[i].id \in DOMAIN cache
  BY DEF LockInv, SentInv, Sent, Live
<1> QED BY <1>1, <1>2 DEF LockInv, HeapInv, CacheInv

(* What was written stays while neither place nor bytes change.             *)
LEMMA WrittenStill ==
    ASSUME LockInv, UNCHANGED memory, NEW i \in DOMAIN queue, queue[i].op = "Unlock",
           NEW id, queue[i].id = id, Live(id) => Steady(id)
    PROVE  Written(id)'
<1>1. Live(id) /\ Written(id)
  BY DEF LockInv, SentInv, Sent
<1> QED BY <1>1 DEF Steady, Written, Span

(* A Lock that got its chunks.                                              *)
LEMMA LockedKeeps ==
    ASSUME LockInv, HeapInv', call.pc # "idle", NEW a, a.first \in Nat, a.final \in Nat,
           a.final = a.first + Size[call.request.res] - 1,
           isValidAllocation(a), Free(a), Locked(a)
    PROVE  LockInv'
<1>0. PICK r0 \in Resources : r0 = call.request.res /\ call.request.discarded = bufferId[r0]
  BY DEF LockInv, HeapInv, CallInv, RequestInv
<1> DEFINE n == nextUid
           m == [op |-> "Alloc", id |-> nextUid, first |-> a.first]
           L == Len(lockInfos[r0])
           info == [id |-> nextUid, at |-> a.first, discarded |-> bufferId[r0],
                    readonly |-> call.request.readonly]
<1>1. /\ UNCHANGED <<segments, nChunks, srvSegments, srvChunks, srvCache, memory>>
      /\ call'.pc = "idle"
  BY DEF Locked, serverHeap, NoCall
<1>2. /\ queue' = Append(queue, m) /\ nextUid' = n + 1 /\ n \in Nat
      /\ DOMAIN cache' = DOMAIN cache \cup {n} /\ cache'[n] = a.first
      /\ \A id \in DOMAIN cache : cache'[id] = cache[id]
      /\ n \notin DOMAIN cache
  BY Named DEF Locked, TakeChunks
<1>3. a.first \notin DOMAIN allocations
  BY DEF isValidAllocation, Free, LockInv, HeapInv, AllocationsInv
<1>4. /\ allocations'[a.first] = a.final
      /\ \A c \in DOMAIN allocations : allocations'[c] = allocations[c]
  BY <1>3 DEF Locked, TakeChunks
<1>5. a.first \in Chunks
  BY HeapAssumption DEF isValidAllocation, LockInv, LockType, Chunks, HeapInv, SegmentsInv
<1>6. /\ DOMAIN chunk' = Chunks /\ chunk'[a.first] = "Allocated"
      /\ \A c \in DOMAIN allocations : chunk'[c] = chunk[c]
  BY <1>3, <1>5, FirstChunks DEF Locked, TakeChunks, LockInv, LockType
<1>7. \A id : Live(id) => Steady(id)
  BY <1>2, <1>4, <1>6 DEF Live, Steady, LockInv, HeapInv, CacheInv
<1>8. m \in Messages /\ m.op = "Alloc" /\ m.id = n /\ m.first = a.first
  BY <1>2 DEF Messages
<1>9. queue \in Seq(Messages) /\ DOMAIN queue = 1 .. Len(queue) /\ Len(queue) \in Nat
  BY LenProperties DEF LockInv, LockType
<1>10. /\ Grows /\ Len(queue') = Len(queue) + 1 /\ queue'[Len(queue) + 1] = m
  <2> HIDE DEF m
  <2> QED BY <1>2, <1>8, <1>9, AppendGrows
<1>11. /\ bufferId' = [bufferId EXCEPT ![r0] = n]
       /\ lockInfos' = [lockInfos EXCEPT ![r0] = Append(lockInfos[r0], info)]
  BY <1>0 DEF Locked
<1>12. info \in Infos
  BY <1>0, <1>2 DEF Infos, LockInv, LockType, RequestInv

<1>13. ASSUME NEW r \in Resources, r # r0
       PROVE  bufferId'[r] = bufferId[r] /\ lockInfos'[r] = lockInfos[r]
  BY <1>11, <1>13 DEF LockInv, LockType
<1>14. /\ bufferId'[r0] = n /\ lockInfos[r0] \in Seq(Infos)
       /\ lockInfos'[r0] = Append(lockInfos[r0], info)
       /\ L \in Nat /\ DOMAIN lockInfos[r0] = 1 .. L
  BY <1>0, <1>11, LenProperties DEF LockInv, LockType
<1>15. /\ lockInfos'[r0] \in Seq(Infos) /\ DOMAIN lockInfos'[r0] = 1 .. L + 1
       /\ \A k \in 1 .. L : lockInfos'[r0][k] = lockInfos[r0][k]
       /\ lockInfos'[r0][L + 1] = info
  <2> HIDE DEF info
  <2> QED BY <1>12, <1>14, AppendProperties, LenProperties
<1> HIDE DEF info, m
<1>16. LockType'
  <2>1. bufferId' \in [Resources -> Nat \cup {None}]
    BY <1>2, <1>11 DEF LockInv, LockType
  <2>2. lockInfos' \in [Resources -> Seq(Infos)]
    <3>1. Append(lockInfos[r0], info) \in Seq(Infos)
      BY <1>14, <1>15
    <3> QED BY <3>1, <1>11 DEF LockInv, LockType
  <2> QED BY <1>1, <1>6, <1>10, <2>1, <2>2 DEF LockInv, LockType, Grows
<1>17. \A j \in Len(queue) + 1 .. Len(queue') : queue'[j] = m
  BY <1>9, <1>10
<1>18. MapInv' /\ (Mapped' => Mapped)
  BY <1>1, <1>8, <1>10, <1>17, MapKept
<1>19. AllocInv'
  <2>1. \A id \in DOMAIN cache' : id < nextUid => id \in DOMAIN cache /\ cache'[id] = cache[id]
    BY <1>2
  <2>2. nextUid' \in Nat /\ nextUid =< nextUid' /\ n < nextUid'
    BY <1>2
  <2> QED BY <1>2, <1>8, <1>10, <1>17, <2>1, <2>2, AllocKept
<1>20. SentInv'
  <2>1. ASSUME NEW i \in DOMAIN queue PROVE Sent(i, queue[i])'
    <3>1. \A id : queue[i].op = "Unlock" /\ queue[i].id = id => Written(id)'
      BY <1>1, <1>7, WrittenStill
    <3> QED BY <1>1, <1>7, <1>10, <1>18, <3>1, SentKept
  <2>2. DOMAIN queue' = DOMAIN queue \cup {Len(queue) + 1}
    BY <1>9, <1>10, LenProperties DEF Grows
  <2>3. ASSUME NEW i, i = Len(queue) + 1 PROVE Sent(i, queue[i])'
    BY <1>8, <1>10, <2>3 DEF Sent
  <2> QED BY <2>1, <2>2, <2>3 DEF SentInv
<1>21. ASSUME NEW r \in Resources, NEW id \in Nat, Holds(r, id)'
       PROVE  Holds(r, id) \/ (r = r0 /\ id = n)
  <2>1. CASE r # r0
    BY <1>13, <1>21, <2>1 DEF Holds
  <2>2. CASE r = r0
    <3>1. CASE \E k \in 1 .. L : id \in {lockInfos[r0][k].id, lockInfos[r0][k].discarded}
      BY <1>14, <2>2, <3>1 DEF Holds
    <3>2. CASE id \in {info.id, info.discarded}
      <4>1. id = n \/ id = bufferId[r0]
        BY <3>2 DEF info
      <4> QED BY <2>2, <4>1 DEF Holds
    <3>3. CASE bufferId'[r0] = id
      BY <1>14, <2>2, <3>3
    <3>4. \A k \in DOMAIN lockInfos'[r0] : k \in 1 .. L \/ k = L + 1
      BY <1>14, <1>15
    <3> QED BY <1>15, <1>21, <2>2, <3>1, <3>2, <3>3, <3>4 DEF Holds
  <2> QED BY <2>1, <2>2
<1>22. \A r \in Resources : ~Holds(r, n)
  BY <1>2 DEF LockInv, HeldInv, Own, Live
<1>23. HeldInv'
  <2>1. ASSUME NEW r \in Resources, NEW id \in Nat, Holds(r, id)', Holds(r, id)
        PROVE  Own(r, id)'
    <3>1. Own(r, id)
      BY <2>1 DEF LockInv, HeldInv
    <3>2. id # n
      BY <1>22, <2>1
    <3>3. \A s \in Resources : Holds(s, id)' => s = r
      BY <1>21, <3>1, <3>2 DEF Own
    <3>4. Steady(id)
      BY <1>7, <3>1 DEF Own
    <3> QED BY <1>1, <1>8, <1>10, <1>17, <3>1, <3>3, <3>4, OwnKept
  <2>2. ASSUME NEW x, x = n PROVE Own(r0, x)'
    <3>1. Live(x)' /\ cache'[x] = a.first /\ x \in Nat
      BY <1>2, <1>6, <2>2 DEF Live
    <3>2. Known(Len(queue) + 1, x)'
      BY <1>8, <1>9, <1>10, <2>2 DEF Known
    <3>3. ~Returning(Len(queue) + 1, x)'
      <4>1. \A j \in 1 .. Len(queue) : ~(queue[j].op = "Dealloc" /\ queue[j].id = x)
        BY <1>2, <1>9, <2>2, Named
      <4>2. \A j \in 1 .. Len(queue') : ~(queue'[j].op = "Dealloc" /\ queue'[j].id = x)
        BY <1>8, <1>9, <1>10, <1>17, <4>1 DEF Grows
      <4> QED BY <1>9, <1>10, <4>2 DEF Returning
    <3>4. allocations'[cache'[x]] = cache'[x] + Size[r0] - 1
      BY <1>0, <1>4, <3>1
    <3>5. \A s \in Resources : Holds(s, x)' => s = r0
      BY <1>21, <1>22, <2>2, <3>1
    <3> QED BY <3>1, <3>2, <3>3, <3>4, <3>5 DEF Own
  <2> QED BY <1>21, <2>1, <2>2 DEF HeldInv
<1>24. InfoInv'
  <2>1. ASSUME NEW r \in Resources, r # r0, NEW k \in DOMAIN lockInfos'[r]
        PROVE  /\ lockInfos'[r][k].at = cache'[lockInfos'[r][k].id]
               /\ lockInfos'[r][k].discarded # None =>
                   /\ lockInfos'[r][k].discarded # bufferId'[r]
                   /\ \A j \in DOMAIN lockInfos'[r] :
                       /\ lockInfos'[r][j].id = lockInfos'[r][k].discarded => j < k
                       /\ lockInfos'[r][j].discarded = lockInfos'[r][k].discarded => j = k
    <3>1. /\ bufferId'[r] = bufferId[r] /\ lockInfos'[r] = lockInfos[r]
          /\ k \in DOMAIN lockInfos[r]
      BY <1>13, <2>1
    <3>2. cache'[lockInfos[r][k].id] = cache[lockInfos[r][k].id]
      BY <1>2, <3>1, Named
    <3>3. /\ lockInfos[r][k].at = cache[lockInfos[r][k].id]
          /\ lockInfos[r][k].discarded # None =>
              /\ lockInfos[r][k].discarded # bufferId[r]
              /\ \A j \in DOMAIN lockInfos[r] :
                  /\ lockInfos[r][j].id = lockInfos[r][k].discarded => j < k
                  /\ lockInfos[r][j].discarded = lockInfos[r][k].discarded => j = k
      BY <3>1 DEF LockInv, InfoInv
    <3> QED BY <3>1, <3>2, <3>3
  <2>2. ASSUME NEW k \in 1 .. L
        PROVE  /\ lockInfos'[r0][k].at = cache'[lockInfos'[r0][k].id]
               /\ lockInfos'[r0][k].discarded # None =>
                   /\ lockInfos'[r0][k].discarded # n
                   /\ \A j \in 1 .. L + 1 :
                       /\ lockInfos'[r0][j].id = lockInfos'[r0][k].discarded => j < k
                       /\ lockInfos'[r0][j].discarded = lockInfos'[r0][k].discarded => j = k
    <3>1. info.id = n /\ info.discarded = bufferId[r0]
      BY DEF info
    <3>2. /\ lockInfos[r0][k].at = cache[lockInfos[r0][k].id]
          /\ lockInfos[r0][k].discarded # None =>
              /\ lockInfos[r0][k].discarded # bufferId[r0]
              /\ \A j \in 1 .. L :
                  /\ lockInfos[r0][j].id = lockInfos[r0][k].discarded => j < k
                  /\ lockInfos[r0][j].discarded = lockInfos[r0][k].discarded => j = k
      BY <1>14 DEF LockInv, InfoInv
    <3>4. /\ lockInfos[r0][k].id \in DOMAIN cache
          /\ lockInfos[r0][k].discarded # None => lockInfos[r0][k].discarded \in DOMAIN cache
      BY <1>14, Named
    <3>5. lockInfos'[r0][k] = lockInfos[r0][k]
      BY <1>15
    <3>3. \A j \in 1 .. L + 1 : j \in 1 .. L \/ j = L + 1
      BY <1>14
    <3>6. lockInfos'[r0][k].at = cache'[lockInfos'[r0][k].id]
      BY <1>2, <3>2, <3>4, <3>5
    <3>7. ASSUME lockInfos'[r0][k].discarded # None
          PROVE  /\ lockInfos'[r0][k].discarded # n
                 /\ \A j \in 1 .. L + 1 :
                     /\ lockInfos'[r0][j].id = lockInfos'[r0][k].discarded => j < k
                     /\ lockInfos'[r0][j].discarded = lockInfos'[r0][k].discarded => j = k
      <4>1. lockInfos[r0][k].discarded # n /\ lockInfos[r0][k].discarded # bufferId[r0]
        BY <1>2, <3>2, <3>4, <3>5, <3>7
      <4> QED BY <1>15, <3>1, <3>2, <3>3, <3>5, <3>7, <4>1
    <3> QED BY <3>6, <3>7
  <2>3. /\ info.at = cache'[info.id]
        /\ info.discarded # None =>
            /\ info.discarded # n
            /\ \A j \in 1 .. L + 1 :
                /\ lockInfos'[r0][j].id = info.discarded => j < L + 1
                /\ lockInfos'[r0][j].discarded = info.discarded => j = L + 1
    <3>1. info.id = n /\ info.discarded = bufferId[r0] /\ info.at = a.first
      BY DEF info
    <3>2. bufferId[r0] # None => bufferId[r0] \in DOMAIN cache
      BY <1>0, Named
    <3>3. \A j \in 1 .. L : bufferId[r0] # None => lockInfos[r0][j].discarded # bufferId[r0]
      BY <1>0, <1>14 DEF LockInv, InfoInv
    <3>4. \A j \in 1 .. L + 1 : (j \in 1 .. L /\ j < L + 1) \/ j = L + 1
      BY <1>14
    <3> QED BY <1>2, <1>15, <3>1, <3>2, <3>3, <3>4
  <2>4. \A k \in 1 .. L + 1 : k \in 1 .. L \/ k = L + 1
    BY <1>14
  <2>5. ASSUME NEW k \in DOMAIN lockInfos'[r0]
        PROVE  /\ lockInfos'[r0][k].at = cache'[lockInfos'[r0][k].id]
               /\ lockInfos'[r0][k].discarded # None =>
                   /\ lockInfos'[r0][k].discarded # bufferId'[r0]
                   /\ \A j \in DOMAIN lockInfos'[r0] :
                       /\ lockInfos'[r0][j].id = lockInfos'[r0][k].discarded => j < k
                       /\ lockInfos'[r0][j].discarded = lockInfos'[r0][k].discarded => j = k
    BY <1>14, <1>15, <2>2, <2>3, <2>4
  <2> QED BY <2>1, <2>5 DEF InfoInv
<1>25. RequestInv'
  BY <1>1 DEF RequestInv
<1> QED BY <1>16, <1>18, <1>19, <1>20, <1>23, <1>24, <1>25 DEF LockInv

(* No command is added.                                                     *)
LEMMA QueueStill ==
    ASSUME LockInv, UNCHANGED queue
    PROVE  Grows /\ Len(queue) + 1 .. Len(queue') = {}
<1>1. queue \in Seq(Messages) /\ Len(queue) \in Nat
  BY LenProperties DEF LockInv, LockType
<1> QED BY <1>1 DEF Grows

(* Nothing is allocated or freed.                                           *)
LEMMA AllSteady ==
    ASSUME UNCHANGED <<cache, allocations, chunk>>, NEW id, Live(id)
    PROVE  Steady(id)
  BY DEF Live, Steady

(* The resources hold nothing new, and give back nothing they still hold.   *)
LEMMA HeldKept ==
    ASSUME LockInv, Grows, UNCHANGED srvCache, \A id : Live(id) => Steady(id),
           \A r \in Resources, id \in Nat : Holds(r, id)' =>
                /\ Holds(r, id)
                /\ \A j \in Len(queue) + 1 .. Len(queue') :
                    ~(queue'[j].op = "Dealloc" /\ queue'[j].id = id)
    PROVE  HeldInv'
<1> SUFFICES ASSUME NEW r \in Resources, NEW id \in Nat, Holds(r, id)' PROVE Own(r, id)'
  BY DEF HeldInv
<1>1. Own(r, id)
  BY DEF LockInv, HeldInv
<1>2. \A s \in Resources : Holds(s, id)' => s = r
  BY <1>1 DEF Own
<1>3. Steady(id)
  BY <1>1 DEF Own
<1> QED BY <1>1, <1>2, <1>3, OwnKept

(* A step that leaves the heap alone and adds Unlocks and Deallocs only.    *)
LEMMA HeapStill ==
    ASSUME LockInv, Grows,
           UNCHANGED <<cache, allocations, chunk, nextUid, segments, nChunks,
                       srvCache, srvSegments, srvChunks>>,
           \A j \in Len(queue) + 1 .. Len(queue') :
                queue'[j].op \in {"Unlock", "Dealloc"} /\ Sent(j, queue[j])',
           \A i \in DOMAIN queue : \A id : queue[i].op = "Unlock" /\ queue[i].id = id => Written(id)'
    PROVE  MapInv' /\ AllocInv' /\ SentInv'
<1>1. queue \in Seq(Messages) /\ DOMAIN queue = 1 .. Len(queue) /\ Len(queue) \in Nat
  BY LenProperties DEF LockInv, LockType
<1>2. DOMAIN queue' = 1 .. Len(queue') /\ Len(queue') \in Nat /\ Len(queue) =< Len(queue')
  BY LenProperties DEF Grows
<1>3. MapInv' /\ (Mapped' => Mapped)
  BY MapKept
<1>4. AllocInv'
  BY AllocKept, Named
<1>5. ASSUME NEW i \in DOMAIN queue PROVE Sent(i, queue[i])'
  BY <1>3, <1>5, AllSteady, SentKept
<1>6. \A i \in DOMAIN queue' : i \in DOMAIN queue \/ i \in Len(queue) + 1 .. Len(queue')
  BY <1>1, <1>2
<1>7. SentInv'
  BY <1>5, <1>6 DEF SentInv
<1> QED BY <1>3, <1>4, <1>7

(* A step that leaves heap, queue and memory alone.                         *)
LEMMA HeapAside ==
    ASSUME LockInv, UNCHANGED <<cache, allocations, chunk, nextUid, segments, nChunks,
                                srvCache, srvSegments, srvChunks, queue, memory>>
    PROVE  /\ MapInv' /\ AllocInv' /\ SentInv' /\ Grows
           /\ (\A r \in Resources, id \in Nat : Holds(r, id)' => Holds(r, id)) => HeldInv'
<1>1. Grows /\ Len(queue) + 1 .. Len(queue') = {}
  BY QueueStill
<1>2. \A id : Live(id) => Steady(id)
  BY AllSteady
<1>3. MapInv' /\ AllocInv' /\ SentInv'
  BY <1>1, <1>2, HeapStill, WrittenStill
<1>4. (\A r \in Resources, id \in Nat : Holds(r, id)' => Holds(r, id)) => HeldInv'
  BY <1>1, <1>2, HeldKept
<1> QED BY <1>1, <1>3, <1>4

(* A Lock that got no chunks.                                               *)
LEMMA FailKeeps ==
    ASSUME LockInv, LockFails
    PROVE  /\ bufferId' \in [Resources -> Nat \cup {None}]
           /\ \A r \in Resources, id \in Nat : Holds(r, id)' => Holds(r, id)
           /\ \A r \in Resources : bufferId'[r] \in {bufferId[r], None}
           /\ UNCHANGED <<lockInfos, memory>> /\ RequestInv'
<1>1. bufferId' \in [Resources -> Nat \cup {None}]
  BY DEF LockFails, LockInv, LockType
<1>2. \A r \in Resources : bufferId'[r] \in {bufferId[r], None}
  BY DEF LockFails, LockInv, LockType
<1>3. None \notin Nat
  BY DEF None
<1>4. UNCHANGED <<lockInfos, memory>> /\ call' = NoCall
  BY DEF LockFails
<1>5. RequestInv'
  BY <1>4 DEF RequestInv, NoCall
<1>6. \A r \in Resources, id \in Nat : Holds(r, id)' => Holds(r, id)
  BY <1>2, <1>3, <1>4 DEF Holds
<1> QED BY <1>1, <1>2, <1>4, <1>5, <1>6

(* The records of the locks, while the resources keep theirs.               *)
LEMMA InfoKept ==
    ASSUME LockInv, UNCHANGED lockInfos,
           \A r \in Resources : bufferId'[r] \in {bufferId[r], None},
           \A id : Live(id) => Steady(id)
    PROVE  InfoInv'
<1> SUFFICES ASSUME NEW r \in Resources, NEW k \in DOMAIN lockInfos[r]
             PROVE  /\ lockInfos[r][k].at = cache'[lockInfos[r][k].id]
                    /\ lockInfos[r][k].discarded # None =>
                        /\ lockInfos[r][k].discarded # bufferId'[r]
                        /\ \A m \in DOMAIN lockInfos[r] :
                            /\ lockInfos[r][m].id = lockInfos[r][k].discarded => m < k
                            /\ lockInfos[r][m].discarded = lockInfos[r][k].discarded => m = k
  BY DEF InfoInv
<1>1. lockInfos[r][k].id \in Nat
  BY Named
<1>2. Holds(r, lockInfos[r][k].id)
  BY DEF Holds
<1>3. Live(lockInfos[r][k].id)
  BY <1>1, <1>2 DEF LockInv, HeldInv, Own
<1>4. cache'[lockInfos[r][k].id] = cache[lockInfos[r][k].id]
  BY <1>3 DEF Steady
<1> QED BY <1>4 DEF LockInv, InfoInv

(* A Lock of memory the resource has.                                       *)
LEMMA AgainKeeps ==
    ASSUME LockInv, HeapInv', NEW r \in Resources, NEW readonly \in BOOLEAN, LockAgain(r, readonly)
    PROVE  LockInv'
<1> DEFINE info == [id |-> bufferId[r], at |-> cache[bufferId[r]],
                    discarded |-> None, readonly |-> readonly]
           L == Len(lockInfos[r])
<1>1. /\ UNCHANGED <<cache, allocations, chunk, nextUid, segments, nChunks, defaultSize,
                     srvCache, srvSegments, srvChunks, queue, memory, bufferId, call>>
      /\ bufferId[r] # None /\ lockInfos' = [lockInfos EXCEPT ![r] = Append(lockInfos[r], info)]
  BY DEF LockAgain, clientHeap, serverHeap
<1>2. bufferId[r] \in DOMAIN cache /\ bufferId[r] \in Nat /\ cache[bufferId[r]] \in Nat
  <2>1. bufferId[r] \in DOMAIN cache
    BY <1>1, Named
  <2> QED BY <2>1, Named DEF LockInv, HeapInv, CacheInv, AllocationsInv
<1>3. info \in Infos
  BY <1>2 DEF Infos
<1>4. lockInfos[r] \in Seq(Infos) /\ L \in Nat /\ DOMAIN lockInfos[r] = 1 .. L
  BY LenProperties DEF LockInv, LockType
<1>5. /\ lockInfos'[r] \in Seq(Infos) /\ DOMAIN lockInfos'[r] = 1 .. L + 1
      /\ \A k \in 1 .. L : lockInfos'[r][k] = lockInfos[r][k]
      /\ lockInfos'[r][L + 1] = info
      /\ lockInfos' \in [Resources -> Seq(Infos)]
      /\ \A s \in Resources \ {r} : lockInfos'[s] = lockInfos[s]
  <2>1. lockInfos \in [Resources -> Seq(Infos)]
    BY DEF LockInv, LockType
  <2> HIDE DEF info
  <2>2. /\ Append(lockInfos[r], info) \in Seq(Infos)
        /\ DOMAIN Append(lockInfos[r], info) = 1 .. L + 1
        /\ \A k \in 1 .. L : Append(lockInfos[r], info)[k] = lockInfos[r][k]
        /\ Append(lockInfos[r], info)[L + 1] = info
    BY <1>3, <1>4, AppendProperties, LenProperties
  <2> QED BY <1>1, <2>1, <2>2
<1>6. info.id = bufferId[r] /\ info.discarded = None /\ info.at = cache[bufferId[r]]
  OBVIOUS
<1> HIDE DEF info
<1>7. \A k \in 1 .. L + 1 : k \in 1 .. L \/ k = L + 1
  BY <1>4
<1>8. ASSUME NEW s \in Resources, NEW id \in Nat, Holds(s, id)' PROVE Holds(s, id)
  <2>1. CASE s # r
    BY <1>1, <1>5, <1>8, <2>1 DEF Holds
  <2>2. CASE s = r
    <3>1. None # id
      BY DEF None
    <3> QED BY <1>1, <1>4, <1>5, <1>6, <1>7, <1>8, <2>2, <3>1 DEF Holds
  <2> QED BY <2>1, <2>2
<1>9. MapInv' /\ AllocInv' /\ SentInv' /\ HeldInv' /\ Grows
  BY <1>1, <1>8, HeapAside
<1>10. LockType'
  BY <1>1, <1>5, <1>9 DEF LockInv, LockType, Grows
<1>11. InfoInv'
  <2>1. ASSUME NEW s \in Resources, s # r, NEW k \in DOMAIN lockInfos'[s]
        PROVE  /\ lockInfos'[s][k].at = cache'[lockInfos'[s][k].id]
               /\ lockInfos'[s][k].discarded # None =>
                   /\ lockInfos'[s][k].discarded # bufferId'[s]
                   /\ \A m \in DOMAIN lockInfos'[s] :
                       /\ lockInfos'[s][m].id = lockInfos'[s][k].discarded => m < k
                       /\ lockInfos'[s][m].discarded = lockInfos'[s][k].discarded => m = k
    BY <1>1, <1>5, <2>1 DEF LockInv, InfoInv
  <2>2. ASSUME NEW k \in 1 .. L + 1
        PROVE  /\ lockInfos'[r][k].at = cache'[lockInfos'[r][k].id]
               /\ lockInfos'[r][k].discarded # None =>
                   /\ lockInfos'[r][k].discarded # bufferId'[r]
                   /\ \A m \in 1 .. L + 1 :
                       /\ lockInfos'[r][m].id = lockInfos'[r][k].discarded => m < k
                       /\ lockInfos'[r][m].discarded = lockInfos'[r][k].discarded => m = k
    <3>1. CASE k = L + 1
      BY <1>1, <1>5, <1>6, <3>1
    <3>2. CASE k \in 1 .. L
      <4>1. /\ lockInfos[r][k].at = cache[lockInfos[r][k].id]
            /\ lockInfos[r][k].discarded # None =>
                /\ lockInfos[r][k].discarded # bufferId[r]
                /\ \A m \in 1 .. L :
                    /\ lockInfos[r][m].id = lockInfos[r][k].discarded => m < k
                    /\ lockInfos[r][m].discarded = lockInfos[r][k].discarded => m = k
        BY <1>4, <3>2 DEF LockInv, InfoInv
      <4> QED BY <1>1, <1>5, <1>6, <1>7, <3>2, <4>1
    <3> QED BY <1>7, <3>1, <3>2
  <2>3. ASSUME NEW k \in DOMAIN lockInfos'[r]
        PROVE  /\ lockInfos'[r][k].at = cache'[lockInfos'[r][k].id]
               /\ lockInfos'[r][k].discarded # None =>
                   /\ lockInfos'[r][k].discarded # bufferId'[r]
                   /\ \A m \in DOMAIN lockInfos'[r] :
                       /\ lockInfos'[r][m].id = lockInfos'[r][k].discarded => m < k
                       /\ lockInfos'[r][m].discarded = lockInfos'[r][k].discarded => m = k
    <3>1. DOMAIN lockInfos'[r] = 1 .. L + 1
      BY <1>5
    <3> HIDE DEF L
    <3> QED BY <2>2, <2>3, <3>1
  <2> QED BY <2>1, <2>3 DEF InfoInv
<1>12. RequestInv'
  BY <1>1 DEF LockInv, RequestInv
<1> QED BY <1>9, <1>10, <1>11, <1>12 DEF LockInv

(* A Lock that begins to look for chunks.                                   *)
LEMMA AllocatesKeeps ==
    ASSUME LockInv, HeapInv', NEW r \in Resources, NEW readonly \in BOOLEAN,
           LockAllocates(r, readonly)
    PROVE  LockInv'
<1>1. UNCHANGED <<cache, allocations, chunk, nextUid, segments, nChunks,
                  srvCache, srvSegments, srvChunks, queue, memory, bufferId, lockInfos>>
  BY DEF LockAllocates, serverHeap
<1>2. \A s \in Resources, id \in Nat : Holds(s, id)' => Holds(s, id)
  BY <1>1 DEF Holds
<1>3. MapInv' /\ AllocInv' /\ SentInv' /\ HeldInv' /\ Grows
  BY <1>1, <1>2, HeapAside
<1>4. LockType'
  BY <1>1 DEF LockInv, LockType
<1>5. InfoInv'
  BY <1>1 DEF LockInv, InfoInv
<1>6. RequestInv'
  BY <1>1 DEF LockAllocates, RequestInv
<1> QED BY <1>3, <1>4, <1>5, <1>6 DEF LockInv

(* A search that found nothing: what is freed was given back.               *)
LEMMA SearchFailsKeeps ==
    ASSUME LockInv, HeapInv', SearchFails
    PROVE  LockInv'
<1> DEFINE firsts == {cache[id] : id \in Returned}
<1>1. UNCHANGED <<nextUid, segments, nChunks, srvCache, srvSegments, srvChunks, queue>>
  BY DEF SearchFails, serverHeap
<1>2. /\ DOMAIN cache' = DOMAIN cache \ Returned
      /\ \A id \in DOMAIN cache' : cache'[id] = cache[id]
      /\ DOMAIN allocations' = DOMAIN allocations \ firsts
      /\ \A c \in DOMAIN allocations' : allocations'[c] = allocations[c]
      /\ DOMAIN chunk' = DOMAIN chunk
      /\ \A c \in DOMAIN chunk \ firsts : chunk'[c] = chunk[c]
  BY DEF SearchFails, freeDeallocations
<1>3. ASSUME NEW id, Live(id) PROVE Steady(id)
  <2>1. id \in DOMAIN cache /\ id \notin Returned
    BY <1>3 DEF Live, Returned
  <2>2. cache[id] \notin firsts
    BY <2>1 DEF LockInv, HeapInv, CacheInv, Returned
  <2>3. cache[id] \in DOMAIN allocations /\ cache[id] \in DOMAIN chunk
    BY <2>1, FirstChunks DEF LockInv, HeapInv, CacheInv, LockType
  <2> QED BY <1>2, <1>3, <2>1, <2>2, <2>3 DEF Live, Steady
<1>4. /\ bufferId' \in [Resources -> Nat \cup {None}]
      /\ \A r \in Resources, id \in Nat : Holds(r, id)' => Holds(r, id)
      /\ \A r \in Resources : bufferId'[r] \in {bufferId[r], None}
      /\ UNCHANGED <<lockInfos, memory>> /\ RequestInv'
  <2>1. CASE LockFails
    BY <2>1, FailKeeps
  <2>2. CASE UNCHANGED <<bufferId, lockInfos, memory>>
    <3>1. call.pc = "search"
      BY DEF SearchFails
    <3>2. RequestInv'
      <4>1. CASE call' = [pc |-> "grow", request |-> call.request]
        BY <2>2, <3>1, <4>1 DEF LockInv, RequestInv
      <4>2. CASE call' = [call EXCEPT !.failed = IF @ < 3 THEN @ + 1 ELSE 3]
        BY <2>2, <3>1, <4>2 DEF LockInv, RequestInv
      <4>3. CASE LockFails
        BY <4>3, FailKeeps
      <4> QED BY <4>1, <4>2, <4>3 DEF SearchFails
    <3> QED BY <2>2, <3>2 DEF Holds, LockInv, LockType
  <2> QED BY <2>1, <2>2 DEF SearchFails
<1>5. Grows /\ Len(queue) + 1 .. Len(queue') = {}
  BY <1>1, QueueStill
<1>6. MapInv' /\ (Mapped' => Mapped)
  BY <1>1, <1>5, MapKept
<1>7. AllocInv'
  BY <1>1, <1>2, <1>5, AllocKept, Named
<1>8. SentInv'
  <2>1. ASSUME NEW i \in DOMAIN queue PROVE Sent(i, queue[i])'
    BY <1>1, <1>3, <1>4, <1>5, <1>6, SentKept, WrittenStill
  <2> QED BY <1>1, <2>1 DEF SentInv
<1>9. HeldInv'
  BY <1>1, <1>3, <1>4, <1>5, HeldKept
<1>10. InfoInv'
  BY <1>3, <1>4, InfoKept
<1>11. LockType'
  BY <1>1, <1>2, <1>4 DEF LockInv, LockType
<1> QED BY <1>4, <1>6, <1>7, <1>8, <1>9, <1>10, <1>11 DEF LockInv

(* A Lock that gives up, or looks again, without touching the heap.         *)
LEMMA CallKeeps ==
    ASSUME LockInv, HeapInv', UNCHANGED <<clientHeap, serverHeap, chunk, queue>>,
           \/ LockFails
           \/ /\ call.pc # "idle" /\ UNCHANGED <<bufferId, lockInfos, memory>>
              /\ call' = [pc |-> "search", failed |-> 3, request |-> call.request]
    PROVE  LockInv'
<1>1. UNCHANGED <<cache, allocations, chunk, nextUid, segments, nChunks,
                  srvCache, srvSegments, srvChunks, queue>>
  BY DEF clientHeap, serverHeap
<1>2. /\ bufferId' \in [Resources -> Nat \cup {None}]
      /\ \A r \in Resources, id \in Nat : Holds(r, id)' => Holds(r, id)
      /\ \A r \in Resources : bufferId'[r] \in {bufferId[r], None}
      /\ UNCHANGED <<lockInfos, memory>> /\ RequestInv'
  <2>1. CASE LockFails
    BY <2>1, FailKeeps
  <2>2. CASE /\ call.pc # "idle" /\ UNCHANGED <<bufferId, lockInfos, memory>>
             /\ call' = [pc |-> "search", failed |-> 3, request |-> call.request]
    <3>1. RequestInv'
      BY <2>2 DEF LockInv, RequestInv
    <3> QED BY <2>2, <3>1 DEF Holds, LockInv, LockType
  <2> QED BY <2>1, <2>2
<1>3. MapInv' /\ AllocInv' /\ SentInv' /\ HeldInv'
  BY <1>1, <1>2, HeapAside
<1>4. InfoInv'
  BY <1>1, <1>2, AllSteady, InfoKept
<1>5. LockType'
  BY <1>1, <1>2 DEF LockInv, LockType
<1> QED BY <1>2, <1>3, <1>4, <1>5 DEF LockInv

(* A new segment is announced.                                              *)
LEMMA GrowKeeps ==
    ASSUME LockInv, HeapInv', Grow
    PROVE  LockInv'
<1>1. PICK size \in SegmentSizes(nChunks, defaultSize) : addNewHeapSegment(size)
  BY DEF Grow
<1> DEFINE m == [op |-> "AddSeg", size |-> size]
           n == Len(segments)
           seg == [base |-> nChunks, size |-> size]
<1>2. /\ segments' = Append(segments, seg) /\ nChunks' = nChunks + size /\ queue' = Append(queue, m)
      /\ UNCHANGED <<cache, allocations, nextUid, chunk, srvSegments, srvChunks, srvCache,
                     bufferId, lockInfos, memory>>
  BY <1>1 DEF addNewHeapSegment, Grow, serverHeap
<1>3. nChunks \in Nat /\ MaxHeap \in Nat /\ size \in Nat /\ nChunks + size =< MaxHeap
  BY HeapAssumption DEF SegmentSizes, LockInv, HeapInv, SegmentsInv
<1>4. m \in Messages /\ m.op = "AddSeg" /\ m.size = size
  BY <1>3 DEF Messages
<1>5. seg \in [base : Nat, size : Nat] /\ seg.base = nChunks /\ seg.size = size
  BY <1>3
<1>6. queue \in Seq(Messages) /\ DOMAIN queue = 1 .. Len(queue) /\ Len(queue) \in Nat
  BY LenProperties DEF LockInv, LockType
<1>7. Grows /\ Len(queue') = Len(queue) + 1 /\ queue'[Len(queue) + 1] = m
  <2> HIDE DEF m
  <2> QED BY <1>2, <1>4, <1>6, AppendGrows
<1>8. \A i \in Nat : i = Len(queue) + 1 => Announced(i)' = Announced(Len(queue)) + 1
  <2> HIDE DEF m
  <2> QED BY <1>2, <1>4, <1>6, AppendGrows
<1>9. \A i \in 0 .. Len(queue) : Announced(i)' = Announced(i) /\ Announced(i) \in Nat
  BY <1>6, <1>7, Extended
<1>10. /\ n \in Nat /\ DOMAIN segments = 1 .. n /\ DOMAIN segments' = 1 .. n + 1 /\ Len(segments') = n + 1
       /\ \A j \in 1 .. n : segments'[j] = segments[j]
       /\ segments'[n + 1] = seg
  <2>1. segments \in Seq([base : Nat, size : Nat])
    BY DEF LockInv, HeapInv, SegmentsInv
  <2> HIDE DEF seg
  <2> QED BY <1>2, <1>5, <2>1, AppendProperties, LenProperties
<1> HIDE DEF m, seg
<1>11. Announced(Len(queue))' = Announced(Len(queue)) + 1
  <2>1. PICK x \in Nat : x = Len(queue')
    BY <1>6, <1>7
  <2>2. Announced(x)' = Announced(Len(queue)) + 1
    BY <1>7, <1>8, <2>1
  <2> QED BY <2>1, <2>2 DEF Announced
<1>12. Len(srvSegments) \in Nat /\ Announced(Len(queue)) \in Nat
  BY <1>6, <1>9, LenProperties DEF LockInv, LockType
<1>13. Mapped' <=> Mapped
  BY <1>2, <1>10, <1>11, <1>12 DEF Mapped
<1>14. MapInv'
  <2>1. \A j \in DOMAIN segments :
          /\ segments[j].base \in Nat /\ segments[j].size \in Nat
          /\ segments[j].base + segments[j].size =< nChunks
          /\ BaseOf(j + 1) = segments[j].base + segments[j].size
          /\ \A k \in j + 1 .. n : segments[j].base + segments[j].size =< segments[k].base
    BY DEF LockInv, MapInv, HeapInv, SegmentsInv
  <2>2. \A j \in 1 .. n + 1 : BaseOf(j)' = BaseOf(j)
    BY <1>5, <1>10 DEF BaseOf
  <2>3. BaseOf(n + 2)' = nChunks + size
    BY <1>2, <1>10 DEF BaseOf
  <2>4. ASSUME NEW j \in DOMAIN segments'
        PROVE  /\ BaseOf(j + 1)' = segments'[j].base + segments'[j].size
               /\ \A k \in j + 1 .. n + 1 : segments'[j].base + segments'[j].size =< segments'[k].base
    <3>1. CASE j = n + 1
      <4>1. PICK x : x = n + 1 /\ x + 1 = n + 2
        BY <1>10
      <4>2. BaseOf(x + 1)' = nChunks + size
        BY <1>2, <1>10, <4>1 DEF BaseOf
      <4> QED BY <1>5, <1>10, <3>1, <4>1, <4>2
    <3>2. CASE j \in 1 .. n
      <4>1. BaseOf(j + 1)' = segments'[j].base + segments'[j].size
        BY <1>10, <2>1, <2>2, <3>2
      <4>2. ASSUME NEW k \in j + 1 .. n + 1
            PROVE  segments'[j].base + segments'[j].size =< segments'[k].base
        BY <1>5, <1>10, <2>1, <3>2
      <4> QED BY <4>1, <4>2
    <3> QED BY <1>10, <3>1, <3>2
  <2>5. Len(srvSegments') + Announced(Len(queue))' =< Len(segments')
    BY <1>2, <1>10, <1>11, <1>12 DEF LockInv, MapInv
  <2>6. ASSUME Mapped
        PROVE  /\ \A j \in DOMAIN srvSegments : srvSegments[j] = segments'[j]
               /\ srvChunks = BaseOf(Len(srvSegments) + 1)'
               /\ \A i \in DOMAIN queue' : queue'[i].op = "AddSeg" =>
                   /\ Len(srvSegments) + Announced(i)' \in DOMAIN segments'
                   /\ queue'[i].size = segments'[Len(srvSegments) + Announced(i)'].size
    <3>1. Len(srvSegments) + Announced(Len(queue)) = n
      BY <2>6 DEF Mapped
    <3>2. DOMAIN srvSegments = 1 .. Len(srvSegments) /\ Len(srvSegments) =< n
      BY <1>10, <1>12, <3>1, LenProperties DEF LockInv, LockType
    <3>3. \A j \in DOMAIN srvSegments : srvSegments[j] = segments'[j]
      BY <1>10, <1>12, <2>6, <3>2 DEF LockInv, MapInv
    <3>4. srvChunks = BaseOf(Len(srvSegments) + 1)'
      <4>1. PICK x \in 1 .. n + 1 : x = Len(srvSegments) + 1
        BY <1>10, <1>12, <3>2
      <4>2. srvChunks = BaseOf(x)
        BY <2>6, <4>1 DEF LockInv, MapInv
      <4>3. BaseOf(x)' = BaseOf(x)
        BY <2>2
      <4> QED BY <1>2, <4>1, <4>2, <4>3
    <3>5. ASSUME NEW i \in DOMAIN queue', queue'[i].op = "AddSeg"
          PROVE  /\ Len(srvSegments) + Announced(i)' \in DOMAIN segments'
                 /\ queue'[i].size = segments'[Len(srvSegments) + Announced(i)'].size
      <4>1. DOMAIN queue' = 1 .. Len(queue) + 1
        BY <1>7, LenProperties DEF Grows
      <4>2. CASE i \in 1 .. Len(queue)
        <5>1. queue'[i] = queue[i] /\ Announced(i)' = Announced(i)
          BY <1>6, <1>7, <1>9, <4>2 DEF Grows
        <5>2. /\ Len(srvSegments) + Announced(i) \in DOMAIN segments
              /\ queue[i].size = segments[Len(srvSegments) + Announced(i)].size
          BY <1>6, <2>6, <3>5, <4>2, <5>1 DEF LockInv, MapInv
        <5> QED BY <1>10, <5>1, <5>2
      <4>3. CASE i = Len(queue) + 1
        <5>1. Announced(i)' = Announced(Len(queue)) + 1 /\ queue'[i] = m
          BY <1>6, <1>7, <1>8, <4>3
        <5>2. Len(srvSegments) + Announced(i)' = n + 1
          BY <1>10, <1>12, <3>1, <5>1
        <5> QED BY <1>4, <1>5, <1>10, <5>1, <5>2
      <4> QED BY <1>6, <4>1, <4>2, <4>3
    <3> QED BY <3>3, <3>4, <3>5
  <2> QED BY <1>2, <1>10, <1>13, <2>4, <2>5, <2>6 DEF MapInv
<1>15. \A id : Live(id) => Steady(id)
  BY <1>2, AllSteady
<1>16. \A j \in Len(queue) + 1 .. Len(queue') : queue'[j] = m
  BY <1>6, <1>7
<1>17. AllocInv'
  BY <1>2, <1>4, <1>7, <1>16, AllocKept, Named
<1>18. SentInv'
  <2>1. ASSUME NEW i \in DOMAIN queue PROVE Sent(i, queue[i])'
    <3>1. \A id : queue[i].op = "Unlock" /\ queue[i].id = id => Written(id)'
      BY <1>2, <1>15, WrittenStill
    <3> QED BY <1>2, <1>7, <1>10, <1>13, <1>15, <3>1, SentKept
  <2>2. DOMAIN queue' = DOMAIN queue \cup {Len(queue) + 1}
    BY <1>6, <1>7, LenProperties DEF Grows
  <2>3. ASSUME NEW i, i = Len(queue) + 1 PROVE Sent(i, queue[i])'
    BY <1>4, <1>7, <2>3 DEF Sent
  <2> QED BY <2>1, <2>2, <2>3 DEF SentInv
<1>19. HeldInv'
  <2>1. \A r \in Resources, id \in Nat : Holds(r, id)' => Holds(r, id)
    BY <1>2 DEF Holds
  <2> QED BY <1>2, <1>4, <1>7, <1>15, <1>16, <2>1, HeldKept
<1>20. InfoInv'
  BY <1>2 DEF LockInv, InfoInv
<1>21. RequestInv'
  BY <1>2 DEF Grow, LockInv, RequestInv
<1>22. LockType'
  BY <1>2, <1>3, <1>7 DEF LockInv, LockType, Grows
<1> QED BY <1>14, <1>17, <1>18, <1>19, <1>20, <1>21, <1>22 DEF LockInv

(* What the server knows or will know, it knows by later commands too.      *)
LEMMA KnownLater ==
    ASSUME queue \in Seq(Messages), Grows, UNCHANGED <<srvCache, cache>>,
           NEW id, Known(Len(queue) + 1, id), NEW j \in Nat, Len(queue) < j
    PROVE  Known(j, id)'
<1>1. Len(queue) \in Nat
  BY LenProperties
<1>2. CASE id \in DOMAIN srvCache /\ srvCache[id] = cache[id]
  BY <1>2 DEF Known
<1>3. CASE \E k \in 1 .. Len(queue) : queue[k].op = "Alloc" /\ queue[k].id = id
  <2>1. PICK k \in 1 .. Len(queue) : queue[k].op = "Alloc" /\ queue[k].id = id
    BY <1>3
  <2>2. k \in 1 .. j - 1 /\ queue'[k] = queue[k]
    BY <1>1, <2>1 DEF Grows
  <2> QED BY <2>1, <2>2 DEF Known
<1> QED BY <1>1, <1>2, <1>3 DEF Known

(* The commands of an Unlock.                                               *)
LEMMA UnlockSends ==
    ASSUME queue \in Seq(Messages), NEW info \in Infos, queue' = queue \o Commands(info)
    PROVE  /\ Grows /\ Len(queue') \in {Len(queue) + 1, Len(queue) + 2}
           /\ queue'[Len(queue) + 1] = [op |-> "Unlock", id |-> info.id]
           /\ info.discarded = None => Len(queue') = Len(queue) + 1
           /\ info.discarded # None =>
                /\ Len(queue') = Len(queue) + 2
                /\ queue'[Len(queue) + 2] = [op |-> "Dealloc", id |-> info.discarded]
<1> DEFINE u == [op |-> "Unlock", id |-> info.id]
           d == [op |-> "Dealloc", id |-> info.discarded]
<1>1. u \in Messages /\ (info.discarded # None => d \in Messages)
  BY DEF Infos, Messages
<1>2. CASE info.discarded = None
  <2>1. Commands(info) = <<u>> \o <<>>
    BY <1>2 DEF Commands
  <2> HIDE DEF u, d
  <2>2. Commands(info) = <<u>> /\ <<u>> \in Seq(Messages)
    BY <1>1, <2>1, ConcatEmptySeq
  <2> QED BY <1>1, <1>2, <2>2, ConcatProperties, LenProperties DEF Grows, u, d
<1>3. CASE info.discarded # None
  <2>1. Commands(info) = <<u>> \o <<d>>
    BY <1>3 DEF Commands
  <2> HIDE DEF u, d
  <2>2. Commands(info) \in Seq(Messages) /\ Len(Commands(info)) = 2
        /\ Commands(info)[1] = u /\ Commands(info)[2] = d
    BY <1>1, <1>3, <2>1
  <2>3. /\ queue' \in Seq(Messages) /\ Len(queue') = Len(queue) + 2
        /\ \A i \in 1 .. Len(queue) : queue'[i] = queue[i]
        /\ queue'[Len(queue) + 1] = u /\ queue'[Len(queue) + 2] = d
    <3>1. PICK c : c = Commands(info)
      OBVIOUS
    <3>2. /\ queue' = queue \o c /\ c \in Seq(Messages) /\ Len(c) = 2 /\ c[1] = u /\ c[2] = d
      BY <2>2, <3>1
    <3>3. Len(queue) \in Nat
      BY LenProperties
    <3>4. /\ queue' \in Seq(Messages) /\ Len(queue') = Len(queue) + Len(c)
          /\ \A i \in 1 .. Len(queue) + Len(c) :
               queue'[i] = IF i =< Len(queue) THEN queue[i] ELSE c[i - Len(queue)]
      <4>1. /\ (queue \o c) \in Seq(Messages) /\ Len(queue \o c) = Len(queue) + Len(c)
            /\ \A i \in 1 .. Len(queue) + Len(c) :
                 (queue \o c)[i] = IF i <= Len(queue) THEN queue[i] ELSE c[i - Len(queue)]
        <5>1. c \in Seq(Messages)
          BY <3>2
        <5> HIDE <3>1
        <5> QED BY <5>1, ConcatProperties
      <4> QED BY <3>2, <4>1
    <3>5. /\ Len(queue) + 1 \in 1 .. Len(queue) + Len(c) /\ Len(queue) + 2 \in 1 .. Len(queue) + Len(c)
          /\ Len(queue) + 1 - Len(queue) = 1 /\ Len(queue) + 2 - Len(queue) = 2
      BY <3>2, <3>3
    <3> QED BY <3>2, <3>3, <3>4, <3>5
  <2> QED BY <1>3, <2>3, LenProperties DEF Grows, u, d
<1> QED BY <1>2, <1>3

(* The oldest lock is undone.                                               *)
LEMMA UnlockKeeps ==
    ASSUME LockInv, HeapInv', NEW r \in Resources, Unlock(r)
    PROVE  LockInv'
<1>1. PICK info : info = Head(lockInfos[r])
  OBVIOUS
<1> DEFINE L == Len(lockInfos[r])
<1>2. /\ UNCHANGED <<cache, allocations, chunk, nextUid, segments, nChunks,
                     srvCache, srvSegments, srvChunks, bufferId, call>>
      /\ lockInfos[r] # <<>> /\ lockInfos' = [lockInfos EXCEPT ![r] = Tail(lockInfos[r])]
      /\ queue' = IF info.readonly THEN queue ELSE queue \o Commands(info)
      /\ memory' = [c \in Chunks |-> IF ~info.readonly /\ c \in info.at .. info.at + Size[r] - 1
                                     THEN info.id ELSE memory[c]]
  BY <1>1 DEF Unlock, StoreTo, clientHeap, serverHeap
<1>3. lockInfos[r] \in Seq(Infos) /\ L \in Nat \ {0} /\ DOMAIN lockInfos[r] = 1 .. L
  BY <1>2, EmptySeq, LenProperties DEF LockInv, LockType
<1>4. info = lockInfos[r][1] /\ info \in Infos
  BY <1>1, <1>2, <1>3, HeadTailProperties
<1>5. /\ lockInfos'[r] \in Seq(Infos) /\ DOMAIN lockInfos'[r] = 1 .. L - 1
      /\ \A k \in 1 .. L - 1 : lockInfos'[r][k] = lockInfos[r][k + 1]
      /\ lockInfos' \in [Resources -> Seq(Infos)]
      /\ \A s \in Resources \ {r} : lockInfos'[s] = lockInfos[s]
  <2>1. lockInfos \in [Resources -> Seq(Infos)]
    BY DEF LockInv, LockType
  <2>2. /\ Tail(lockInfos[r]) \in Seq(Infos) /\ DOMAIN Tail(lockInfos[r]) = 1 .. L - 1
        /\ \A k \in 1 .. L - 1 : Tail(lockInfos[r])[k] = lockInfos[r][k + 1]
    BY <1>2, <1>3, HeadTailProperties, LenProperties
  <2> QED BY <1>2, <2>1, <2>2
<1>6. queue \in Seq(Messages) /\ DOMAIN queue = 1 .. Len(queue) /\ Len(queue) \in Nat
  BY LenProperties DEF LockInv, LockType
<1>7. info.id \in Nat /\ info.discarded \in Nat \cup {None} /\ info.readonly \in BOOLEAN
  BY <1>4 DEF Infos
<1>8. Holds(r, info.id) /\ (info.discarded # None => Holds(r, info.discarded))
  BY <1>3, <1>4 DEF Holds
<1>9. Own(r, info.id) /\ (info.discarded # None => Own(r, info.discarded))
  BY <1>7, <1>8 DEF LockInv, HeldInv
<1>10. info.at = cache[info.id] /\ allocations[cache[info.id]] = cache[info.id] + Size[r] - 1
  BY <1>3, <1>4, <1>9 DEF LockInv, InfoInv, Own
<1>11. ASSUME NEW x \in Nat, x # info.id, Live(x)
       PROVE  \A c \in Span(cache[x]) : c \in Chunks /\ memory'[c] = memory[c]
  <2>1. /\ cache[x] \in DOMAIN allocations /\ cache[info.id] \in DOMAIN allocations
        /\ cache[x] # cache[info.id]
    BY <1>9, <1>11 DEF LockInv, HeapInv, CacheInv, Live, Own
  <2>2. Span(cache[x]) \cap Span(cache[info.id]) = {}
    BY <2>1, InvImpliesDisjoint DEF LockInv, Disjoint
  <2>3. Span(cache[info.id]) = info.at .. info.at + Size[r] - 1
    BY <1>10 DEF Span
  <2>4. cache[x] \in Chunks /\ allocations[cache[x]] \in Chunks
    BY <2>1, FirstChunks
  <2>5. \A c \in Span(cache[x]) : c \in Chunks
    BY <2>4, HeapAssumption DEF Span, Chunks
  <2> QED BY <1>2, <2>2, <2>3, <2>5
<1>12. ASSUME ~info.readonly PROVE \A c \in Span(cache[info.id]) : memory'[c] = info.id
  <2>1. Span(cache[info.id]) = info.at .. info.at + Size[r] - 1
    BY <1>10 DEF Span
  <2>2. cache[info.id] \in DOMAIN allocations
    BY <1>9 DEF LockInv, HeapInv, CacheInv, Live, Own
  <2>3. cache[info.id] \in Chunks /\ allocations[cache[info.id]] \in Chunks
    BY <2>2, FirstChunks
  <2>4. \A c \in Span(cache[info.id]) : c \in Chunks
    BY <2>3, HeapAssumption DEF Span, Chunks
  <2> QED BY <1>2, <1>12, <2>1, <2>4
<1>13. ASSUME NEW i \in DOMAIN queue, NEW id, queue[i].op = "Unlock" /\ queue[i].id = id
       PROVE  Written(id)'
  <2>1. Live(id) /\ Written(id)
    BY <1>13 DEF LockInv, SentInv, Sent
  <2>2. id \in Nat
    BY <2>1, Named DEF Live
  <2>3. \A c \in Span(cache[id]) : memory'[c] = id
    <3>1. CASE id # info.id
      BY <1>11, <2>1, <2>2, <3>1 DEF Written
    <3>2. CASE id = info.id /\ ~info.readonly
      BY <1>12, <3>2
    <3>3. CASE id = info.id /\ info.readonly
      <4>1. cache[id] \in Chunks /\ allocations[cache[id]] \in Chunks
        BY <2>1, FirstChunks DEF LockInv, HeapInv, CacheInv, Live
      <4>2. \A c \in Span(cache[id]) : c \in Chunks
        BY <4>1, HeapAssumption DEF Span, Chunks
      <4> QED BY <1>2, <2>1, <3>3, <4>2 DEF Written
    <3> QED BY <1>7, <3>1, <3>2, <3>3
  <2> QED BY <1>2, <2>3 DEF Written, Span
<1>14. \A s \in Resources, id \in Nat : Holds(s, id)' => Holds(s, id)
  <2>1. \A k \in 1 .. L - 1 : k + 1 \in 1 .. L
    BY <1>3
  <2>2. \A id : Holds(r, id)' => Holds(r, id)
    BY <1>2, <1>3, <1>5, <2>1 DEF Holds
  <2>3. \A s \in Resources \ {r} : \A id : Holds(s, id)' => Holds(s, id)
    BY <1>2, <1>5 DEF Holds
  <2> QED BY <2>2, <2>3
<1>15. ASSUME info.discarded # None, NEW s \in Resources, Holds(s, info.discarded)
       PROVE  \A x : x = info.discarded => ~Holds(s, x)'
  <2>1. s = r
    BY <1>9, <1>15 DEF Own
  <2>2. /\ info.discarded # bufferId[r]
        /\ \A m \in 1 .. L : /\ lockInfos[r][m].id = info.discarded => m < 1
                             /\ lockInfos[r][m].discarded = info.discarded => m = 1
    BY <1>3, <1>4, <1>15 DEF LockInv, InfoInv
  <2>3. \A k \in 1 .. L - 1 : k + 1 \in 1 .. L /\ k + 1 # 1 /\ ~(k + 1 < 1)
    BY <1>3
  <2> QED BY <1>2, <1>5, <2>1, <2>2, <2>3 DEF Holds
<1>16. /\ Grows
       /\ \A j \in Len(queue) + 1 .. Len(queue') :
            queue'[j].op \in {"Unlock", "Dealloc"} /\ Sent(j, queue[j])'
       /\ \A s \in Resources, id \in Nat : Holds(s, id)' =>
            \A j \in Len(queue) + 1 .. Len(queue') : ~(queue'[j].op = "Dealloc" /\ queue'[j].id = id)
  <2>1. CASE info.readonly
    BY <1>2, <2>1, QueueStill
  <2>2. CASE ~info.readonly
    <3>1. queue' = queue \o Commands(info)
      BY <1>2, <2>2
    <3>2. /\ Grows /\ Len(queue') \in {Len(queue) + 1, Len(queue) + 2}
          /\ queue'[Len(queue) + 1] = [op |-> "Unlock", id |-> info.id]
          /\ info.discarded = None => Len(queue') = Len(queue) + 1
          /\ info.discarded # None =>
               /\ Len(queue') = Len(queue) + 2
               /\ queue'[Len(queue) + 2] = [op |-> "Dealloc", id |-> info.discarded]
      BY <1>4, <1>6, <3>1, UnlockSends
    <3>3. \A j \in Len(queue) + 1 .. Len(queue') :
            j = Len(queue) + 1 \/ (j = Len(queue) + 2 /\ info.discarded # None)
      BY <1>6, <3>2
    <3>4. \A j \in Len(queue) + 1 .. Len(queue') : queue'[j].op \in {"Unlock", "Dealloc"}
      BY <3>2, <3>3
    <3>5. \A i \in 1 .. Len(queue) + 1 : \A id : Returning(i, id)' <=> Returning(i, id)
      BY <1>6, <3>2, Extended
    <3>6. ASSUME NEW j, j = Len(queue) + 1 PROVE Sent(j, queue[j])'
      <4>1. PICK x : x = info.id
        OBVIOUS
      <4>2. queue'[j].op = "Unlock" /\ queue'[j].id = x
        BY <3>2, <3>6, <4>1
      <4>3. Live(x)' /\ ~Returning(j, x)'
        BY <1>2, <1>6, <1>9, <3>5, <3>6, <4>1 DEF Own, Live
      <4>4. j \in Nat /\ Len(queue) < j
        BY <1>6, <3>6
      <4>5. Known(j, x)'
        BY <1>2, <1>6, <1>9, <3>2, <4>1, <4>4, KnownLater DEF Own
      <4>6. Written(x)'
        BY <1>2, <1>12, <2>2, <4>1 DEF Written, Span
      <4>7. Reached(j, x)'
        <5>1. SUFFICES ASSUME Mapped'
                       PROVE  \E k \in DOMAIN segments :
                                k =< Len(srvSegments) + Announced(j)' /\ Within(k, x)
          BY <1>2 DEF Reached, Within
        <5>2. Mapped
          BY <1>2, <3>2, <3>4, <5>1, MapKept
        <5>3. Announced(j)' = Announced(Len(queue))
          BY <1>6, <3>2, <3>4, <3>6, Extended
        <5>4. cache[x] \in DOMAIN allocations
          BY <1>9, <4>1 DEF LockInv, HeapInv, CacheInv, Live, Own
        <5>5. PICK k \in DOMAIN segments : Within(k, x)
          BY <5>4 DEF LockInv, HeapInv, AllocationsInv, Within
        <5>6. k =< Len(segments)
          BY LenProperties DEF LockInv, HeapInv, SegmentsInv
        <5> QED BY <5>2, <5>3, <5>5, <5>6 DEF Mapped
      <4> QED BY <4>2, <4>3, <4>5, <4>6, <4>7
                 DEF Sent, Live, Known, Returning, Written, Reached, Within, Span
    <3>7. ASSUME NEW j, j = Len(queue) + 2, info.discarded # None PROVE Sent(j, queue[j])'
      <4>1. PICK x : x = info.discarded
        OBVIOUS
      <4>2. queue'[j].op = "Dealloc" /\ queue'[j].id = x
        BY <3>2, <3>7, <4>1
      <4>3. Own(r, x)
        BY <1>9, <3>7, <4>1
      <4>4. Live(x)'
        BY <1>2, <4>3 DEF Own, Live
      <4>5. ~Returning(j, x)'
        <5>1. \A k \in 1 .. Len(queue) : ~(queue[k].op = "Dealloc" /\ queue[k].id = x)
          BY <1>6, <4>3 DEF Own, Returning
        <5>2. \A k \in 1 .. Len(queue) + 1 : ~(queue'[k].op = "Dealloc" /\ queue'[k].id = x)
          BY <1>6, <3>2, <5>1 DEF Grows
        <5> QED BY <1>6, <3>7, <5>2 DEF Returning
      <4>6. j \in Nat /\ Len(queue) < j
        BY <1>6, <3>7
      <4>7. Known(j, x)'
        BY <1>2, <1>6, <4>3, <3>2, <4>6, KnownLater DEF Own
      <4> QED BY <4>2, <4>4, <4>5, <4>7 DEF Sent, Live, Known, Returning
    <3>8. ASSUME NEW s \in Resources, NEW id \in Nat, Holds(s, id)',
                 NEW j \in Len(queue) + 1 .. Len(queue'), queue'[j].op = "Dealloc" /\ queue'[j].id = id
          PROVE  FALSE
      <4>1. info.discarded # None /\ id = info.discarded
        BY <3>2, <3>3, <3>8
      <4> QED BY <1>14, <1>15, <3>8, <4>1
    <3> QED BY <3>2, <3>3, <3>4, <3>6, <3>7, <3>8
  <2> QED BY <1>7, <2>1, <2>2
<1>17. MapInv' /\ AllocInv' /\ SentInv'
  BY <1>2, <1>13, <1>16, HeapStill
<1>18. HeldInv'
  BY <1>2, <1>14, <1>16, AllSteady, HeldKept
<1>19. InfoInv'
  <2>1. ASSUME NEW s \in Resources, s # r, NEW k \in DOMAIN lockInfos'[s]
        PROVE  /\ lockInfos'[s][k].at = cache'[lockInfos'[s][k].id]
               /\ lockInfos'[s][k].discarded # None =>
                   /\ lockInfos'[s][k].discarded # bufferId'[s]
                   /\ \A m \in DOMAIN lockInfos'[s] :
                       /\ lockInfos'[s][m].id = lockInfos'[s][k].discarded => m < k
                       /\ lockInfos'[s][m].discarded = lockInfos'[s][k].discarded => m = k
    BY <1>2, <1>5, <2>1 DEF LockInv, InfoInv
  <2>2. ASSUME NEW k \in 1 .. L - 1
        PROVE  /\ lockInfos'[r][k].at = cache'[lockInfos'[r][k].id]
               /\ lockInfos'[r][k].discarded # None =>
                   /\ lockInfos'[r][k].discarded # bufferId'[r]
                   /\ \A m \in 1 .. L - 1 :
                       /\ lockInfos'[r][m].id = lockInfos'[r][k].discarded => m < k
                       /\ lockInfos'[r][m].discarded = lockInfos'[r][k].discarded => m = k
    <3>1. \A m \in 1 .. L - 1 : m \in Nat /\ m + 1 \in 1 .. L
      BY <1>3
    <3>2. /\ lockInfos[r][k + 1].at = cache[lockInfos[r][k + 1].id]
          /\ lockInfos[r][k + 1].discarded # None =>
              /\ lockInfos[r][k + 1].discarded # bufferId[r]
              /\ \A m \in 1 .. L :
                  /\ lockInfos[r][m].id = lockInfos[r][k + 1].discarded => m < k + 1
                  /\ lockInfos[r][m].discarded = lockInfos[r][k + 1].discarded => m = k + 1
      BY <1>3, <3>1 DEF LockInv, InfoInv
    <3>3. lockInfos'[r][k] = lockInfos[r][k + 1]
      BY <1>5
    <3>5. lockInfos'[r][k].at = cache'[lockInfos'[r][k].id]
      BY <1>2, <3>2, <3>3
    <3>6. ASSUME lockInfos'[r][k].discarded # None
          PROVE  /\ lockInfos'[r][k].discarded # bufferId'[r]
                 /\ \A m \in 1 .. L - 1 :
                     /\ lockInfos'[r][m].id = lockInfos'[r][k].discarded => m < k
                     /\ lockInfos'[r][m].discarded = lockInfos'[r][k].discarded => m = k
      <4>1. lockInfos'[r][k].discarded # bufferId'[r]
        BY <1>2, <3>2, <3>3, <3>6
      <4>2. ASSUME NEW m \in 1 .. L - 1
            PROVE  /\ lockInfos'[r][m].id = lockInfos'[r][k].discarded => m < k
                   /\ lockInfos'[r][m].discarded = lockInfos'[r][k].discarded => m = k
        <5>1. /\ lockInfos[r][m + 1].id = lockInfos[r][k + 1].discarded => m + 1 < k + 1
              /\ lockInfos[r][m + 1].discarded = lockInfos[r][k + 1].discarded => m + 1 = k + 1
          BY <3>1, <3>2, <3>3, <3>6
        <5>2. lockInfos'[r][m] = lockInfos[r][m + 1]
          BY <1>5
        <5>3. m \in Nat /\ k \in Nat
          BY <3>1
        <5> QED BY <3>3, <5>1, <5>2, <5>3
      <4> QED BY <4>1, <4>2
    <3> QED BY <3>5, <3>6
  <2>3. ASSUME NEW k \in DOMAIN lockInfos'[r]
        PROVE  /\ lockInfos'[r][k].at = cache'[lockInfos'[r][k].id]
               /\ lockInfos'[r][k].discarded # None =>
                   /\ lockInfos'[r][k].discarded # bufferId'[r]
                   /\ \A m \in DOMAIN lockInfos'[r] :
                       /\ lockInfos'[r][m].id = lockInfos'[r][k].discarded => m < k
                       /\ lockInfos'[r][m].discarded = lockInfos'[r][k].discarded => m = k
    BY <1>5, <2>2
  <2> QED BY <2>1, <2>3 DEF InfoInv
<1>20. RequestInv'
  BY <1>2 DEF LockInv, RequestInv
<1>21. LockType'
  BY <1>2, <1>5, <1>16 DEF LockInv, LockType, Grows
<1> QED BY <1>17, <1>18, <1>19, <1>20, <1>21 DEF LockInv

(* What is written through a lock goes to the bytes of its allocation only. *)
LEMMA StoredStays ==
    ASSUME LockInv, NEW r \in Resources, NEW info, info \in Infos, Own(r, info.id),
           info.at = cache[info.id], memory' = StoreTo(info, r),
           UNCHANGED <<cache, allocations>>
    PROVE  /\ DOMAIN memory' = Chunks
           /\ \A id : Live(id) /\ Written(id) => Written(id)'
           /\ ~info.readonly => Written(info.id)'
<1>1. info.id \in Nat /\ Live(info.id) /\ cache[info.id] \in DOMAIN allocations
  BY DEF Infos, LockInv, HeapInv, CacheInv, Live, Own
<1>2. Span(cache[info.id]) = info.at .. info.at + Size[r] - 1
  BY DEF Span, Own
<1>4. \A c \in Chunks : memory'[c] = IF ~info.readonly /\ c \in Span(cache[info.id])
                                     THEN info.id ELSE memory[c]
  BY <1>2 DEF StoreTo
<1>5. ASSUME NEW id, Live(id)
      PROVE  /\ \A c \in Span(cache[id]) : c \in Chunks
             /\ id # info.id => Span(cache[id]) \cap Span(cache[info.id]) = {}
  <2>1. cache[id] \in DOMAIN allocations /\ (id # info.id => cache[id] # cache[info.id])
    BY <1>1, <1>5 DEF LockInv, HeapInv, CacheInv, Live
  <2>2. cache[id] \in Chunks /\ allocations[cache[id]] \in Chunks
    BY <2>1, FirstChunks
  <2>3. \A c \in Span(cache[id]) : c \in Chunks
    BY <2>2, HeapAssumption DEF Span, Chunks
  <2> QED BY <1>1, <2>1, <2>3, InvImpliesDisjoint DEF LockInv, Disjoint
<1>6. ASSUME NEW id, Live(id), Written(id) PROVE Written(id)'
  <2>1. \A c \in Span(cache[id]) : memory'[c] = id
    BY <1>4, <1>5, <1>6 DEF Written
  <2> QED BY <2>1 DEF Written, Span
<1>7. ASSUME ~info.readonly PROVE Written(info.id)'
  <2>1. \A c \in Span(cache[info.id]) : memory'[c] = info.id
    BY <1>1, <1>4, <1>5, <1>7
  <2> QED BY <2>1 DEF Written, Span
<1>8. DOMAIN memory' = Chunks
  BY DEF StoreTo
<1> QED BY <1>6, <1>7, <1>8

(* The game writes through a lock that is open.                             *)
LEMMA WriteKeeps ==
    ASSUME LockInv, HeapInv', NEW r \in Resources, NEW k, WriteLock(r, k)
    PROVE  LockInv'
<1>1. PICK info : info = lockInfos[r][k]
  OBVIOUS
<1>2. /\ UNCHANGED <<cache, allocations, chunk, nextUid, segments, nChunks, queue,
                     srvCache, srvSegments, srvChunks, bufferId, lockInfos, call>>
      /\ k \in DOMAIN lockInfos[r] /\ memory' = StoreTo(info, r)
  BY <1>1 DEF WriteLock, clientHeap, serverHeap
<1>3. lockInfos[r] \in Seq(Infos) /\ info \in Infos
  BY <1>1, <1>2, ElementOfSeq, LenProperties DEF LockInv, LockType
<1>4. Own(r, info.id) /\ info.at = cache[info.id]
  <2>1. info.id \in Nat /\ Holds(r, info.id)
    BY <1>1, <1>2, <1>3 DEF Infos, Holds
  <2> QED BY <1>1, <1>2, <2>1 DEF LockInv, HeldInv, InfoInv
<1>5. /\ DOMAIN memory' = Chunks
      /\ \A id : Live(id) /\ Written(id) => Written(id)'
  BY <1>2, <1>3, <1>4, StoredStays
<1>6. Grows /\ Len(queue) + 1 .. Len(queue') = {}
  BY <1>2, QueueStill
<1>7. \A i \in DOMAIN queue : \A id : queue[i].op = "Unlock" /\ queue[i].id = id => Written(id)'
  BY <1>5 DEF LockInv, SentInv, Sent
<1>8. MapInv' /\ AllocInv' /\ SentInv'
  BY <1>2, <1>6, <1>7, HeapStill
<1>9. \A s \in Resources, id \in Nat : Holds(s, id)' => Holds(s, id)
  BY <1>2 DEF Holds
<1>10. HeldInv'
  BY <1>2, <1>6, <1>9, AllSteady, HeldKept
<1>11. LockType' /\ InfoInv' /\ RequestInv'
  BY <1>2, <1>5 DEF LockInv, LockType, InfoInv, RequestInv
<1> QED BY <1>8, <1>10, <1>11 DEF LockInv

(* A resource is destroyed, whatever locks are left.                        *)
LEMMA DestroyKeeps ==
    ASSUME LockInv, HeapInv', NEW r \in Resources, Destroy(r)
    PROVE  LockInv'
<1>1. PICK b : b = bufferId[r]
  OBVIOUS
<1> DEFINE d == [op |-> "Dealloc", id |-> b]
<1>2. /\ UNCHANGED <<cache, allocations, chunk, nextUid, segments, nChunks,
                     srvCache, srvSegments, srvChunks, memory, call>>
      /\ bufferId' = [bufferId EXCEPT ![r] = None]
      /\ lockInfos' = [lockInfos EXCEPT ![r] = <<>>]
      /\ queue' = IF b = None THEN queue ELSE Append(queue, d)
  BY <1>1 DEF Destroy, clientHeap, serverHeap
<1>3. /\ bufferId' \in [Resources -> Nat \cup {None}] /\ bufferId'[r] = None
      /\ lockInfos' \in [Resources -> Seq(Infos)] /\ lockInfos'[r] = <<>>
      /\ \A s \in Resources \ {r} : bufferId'[s] = bufferId[s] /\ lockInfos'[s] = lockInfos[s]
      /\ b \in Nat \cup {None}
  <2>1. bufferId \in [Resources -> Nat \cup {None}] /\ lockInfos \in [Resources -> Seq(Infos)]
    BY DEF LockInv, LockType
  <2>2. <<>> \in Seq(Infos)
    BY EmptySeq
  <2> QED BY <1>1, <1>2, <2>1, <2>2
<1>4. queue \in Seq(Messages) /\ DOMAIN queue = 1 .. Len(queue) /\ Len(queue) \in Nat
  BY LenProperties DEF LockInv, LockType
<1>5. \A s \in Resources, id \in Nat : Holds(s, id)' => Holds(s, id) /\ s # r
  <2>1. DOMAIN lockInfos'[r] = {}
    BY <1>3, EmptySeq
  <2>2. \A id \in Nat : ~Holds(r, id)'
    BY <1>3, <2>1 DEF Holds, None
  <2>3. \A s \in Resources \ {r} : \A id : Holds(s, id)' => Holds(s, id)
    BY <1>3 DEF Holds
  <2> QED BY <2>2, <2>3
<1>6. ASSUME NEW i \in DOMAIN queue, NEW id, queue[i].op = "Unlock" /\ queue[i].id = id
      PROVE  Written(id)'
  BY <1>2, <1>6, AllSteady, WrittenStill
<1>7. /\ Grows
      /\ \A j \in Len(queue) + 1 .. Len(queue') :
           queue'[j].op \in {"Unlock", "Dealloc"} /\ Sent(j, queue[j])'
      /\ \A s \in Resources, id \in Nat : Holds(s, id)' =>
           \A j \in Len(queue) + 1 .. Len(queue') : ~(queue'[j].op = "Dealloc" /\ queue'[j].id = id)
  <2>1. CASE b = None
    BY <1>2, <2>1, QueueStill
  <2>2. CASE b # None
    <3>1. d \in Messages /\ d.op = "Dealloc" /\ d.id = b /\ queue' = Append(queue, d) /\ b \in Nat
      BY <1>2, <1>3, <2>2 DEF Messages
    <3> HIDE DEF d
    <3>2. Grows /\ Len(queue') = Len(queue) + 1 /\ queue'[Len(queue) + 1] = d
      BY <1>4, <3>1, AppendGrows
    <3>3. Holds(r, b) /\ Own(r, b)
      BY <1>1, <3>1 DEF Holds, LockInv, HeldInv
    <3>4. ASSUME NEW j, j = Len(queue) + 1 PROVE queue'[j].op = "Dealloc" /\ Sent(j, queue[j])'
      <4>1. queue'[j].op = "Dealloc" /\ queue'[j].id = b
        BY <3>1, <3>2, <3>4
      <4>2. Live(b)'
        BY <1>2, <3>3 DEF Own, Live
      <4>3. ~Returning(j, b)'
        BY <1>4, <3>2, <3>3, <3>4, Extended DEF Own
      <4>4. j \in Nat /\ Len(queue) < j
        BY <1>4, <3>4
      <4>5. Known(j, b)'
        BY <1>2, <1>4, <3>2, <3>3, <4>4, KnownLater DEF Own
      <4> QED BY <4>1, <4>2, <4>3, <4>5 DEF Sent, Live, Known, Returning
    <3>5. \A j \in Len(queue) + 1 .. Len(queue') : j = Len(queue) + 1
      BY <1>4, <3>2
    <3>6. \A s \in Resources, id \in Nat : Holds(s, id)' => id # b
      BY <1>5, <3>3 DEF Own
    <3> QED BY <3>1, <3>2, <3>4, <3>5, <3>6
  <2> QED BY <2>1, <2>2
<1>8. MapInv' /\ AllocInv' /\ SentInv'
  BY <1>2, <1>6, <1>7, HeapStill
<1>9. HeldInv'
  BY <1>2, <1>5, <1>7, AllSteady, HeldKept
<1>10. InfoInv'
  <2>1. DOMAIN lockInfos'[r] = {}
    BY <1>3, EmptySeq
  <2> QED BY <1>2, <1>3, <2>1 DEF LockInv, InfoInv
<1>11. RequestInv'
  <2>1. call.pc = "idle"
    BY DEF Destroy, Room, NoCall
  <2> QED BY <1>2, <2>1 DEF RequestInv
<1>12. LockType'
  BY <1>2, <1>3, <1>7 DEF LockInv, LockType, Grows
<1> QED BY <1>8, <1>9, <1>10, <1>11, <1>12 DEF LockInv

---------------------------------------------------------------------------
(* The server *)

(* What the command m, the first one, does at the server.                   *)
LEMMA Served ==
    ASSUME LockInv, Serve, NEW m, m = queue[1]
    PROVE  /\ UNCHANGED <<cache, allocations, nextUid, segments, nChunks, bufferId, lockInfos, call, memory>>
           /\ queue # <<>> /\ queue' = Tail(queue) /\ m \in Messages
           /\ \A x \in DOMAIN srvCache : ~(m.op \in {"Alloc", "Dealloc"} /\ x = m.id) =>
                x \in DOMAIN srvCache' /\ srvCache'[x] = srvCache[x]
           /\ m.op = "Alloc" => m.id \in DOMAIN srvCache' /\ srvCache'[m.id] = m.first
           /\ DOMAIN chunk' = Chunks
           /\ \A id : Live(id) /\ ~(m.op = "Dealloc" /\ m.id = id) => Live(id)'
           /\ m.op # "AddSeg" => UNCHANGED <<srvSegments, srvChunks>>
           /\ m.op = "AddSeg" => ServerAddSeg(m)
<1>1. queue # <<>> /\ queue' = Tail(queue)
  BY DEF Serve
<1>2. queue \in Seq(Messages) /\ 1 \in DOMAIN queue
  BY <1>1, EmptySeq, LenProperties DEF LockInv, LockType
<1>3. m \in Messages /\ Head(queue) = m
  BY <1>1, <1>2, ElementOfSeq, HeadTailProperties, LenProperties
<1>4. UNCHANGED <<cache, allocations, nextUid, segments, nChunks, bufferId, lockInfos, call, memory>>
  BY DEF Serve, clientHeap
<1>5. DOMAIN chunk = Chunks
  BY DEF LockInv, LockType
<1>6. CASE m.op = "AddSeg"
  BY <1>1, <1>3, <1>4, <1>5, <1>6 DEF Serve, ServerAddSeg, Live
<1>7. CASE m.op = "Alloc"
  BY <1>1, <1>3, <1>4, <1>5, <1>7 DEF Serve, ServerAllocate, Live
<1>8. CASE m.op = "Unlock"
  BY <1>1, <1>3, <1>4, <1>5, <1>8 DEF Serve, ServerUnlock, serverHeap, Live
<1>9. CASE m.op = "Dealloc"
  <2>1. ServerDeallocate(m)
    BY <1>3, <1>9 DEF Serve
  <2>2. Live(m.id) /\ Known(1, m.id)
    BY <1>2, <1>9 DEF LockInv, SentInv, Sent
  <2>3. SrvFirst(m.id) = cache[m.id]
    BY <2>2 DEF Known, SrvFirst
  <2>4. cache[m.id] \in Chunks
    BY <2>2, FirstChunks DEF Live, LockInv, HeapInv, CacheInv
  <2>5. chunk' = [chunk EXCEPT ![cache[m.id]] = "Deallocated"]
    BY <2>1, <2>3 DEF ServerDeallocate
  <2>6. ASSUME NEW id, Live(id), m.id # id PROVE Live(id)'
    <3>1. cache[id] # cache[m.id] /\ cache[id] \in Chunks
      BY <2>2, <2>6, FirstChunks DEF Live, LockInv, HeapInv, CacheInv
    <3> QED BY <1>4, <1>5, <2>5, <2>6, <3>1 DEF Live
  <2> QED BY <1>1, <1>3, <1>4, <1>5, <1>9, <2>1, <2>5, <2>6 DEF ServerDeallocate
<1>10. m.op \in {"AddSeg", "Alloc", "Unlock", "Dealloc"}
  BY <1>3 DEF Messages
<1> QED BY <1>6, <1>7, <1>8, <1>9, <1>10

(* What the server knows of a live allocation it still knows.               *)
LEMMA StillKnown ==
    ASSUME LockInv, Serve, NEW id, Live(id), ~(queue[1].op = "Dealloc" /\ queue[1].id = id),
           NEW i \in 1 .. Len(queue), Known(i + 1, id)
    PROVE  Known(i, id)'
<1>1. PICK m : m = queue[1]
  OBVIOUS
<1>2. /\ UNCHANGED cache /\ queue # <<>> /\ queue' = Tail(queue)
      /\ \A x \in DOMAIN srvCache : ~(m.op \in {"Alloc", "Dealloc"} /\ x = m.id) =>
           x \in DOMAIN srvCache' /\ srvCache'[x] = srvCache[x]
      /\ m.op = "Alloc" => m.id \in DOMAIN srvCache' /\ srvCache'[m.id] = m.first
  BY <1>1, Served
<1>3. /\ Len(queue) \in Nat \ {0} /\ Len(queue') = Len(queue) - 1
      /\ \A k \in 1 .. Len(queue') : queue'[k] = queue[k + 1]
  BY <1>2, TailShifts DEF LockInv, LockType
<1>4. m.op = "Alloc" /\ m.id = id => m.first = cache[id]
  <2>1. 1 \in DOMAIN queue
    BY <1>3, LenProperties DEF LockInv, LockType
  <2> QED BY <1>1, <2>1 DEF LockInv, AllocInv, Live
<1>5. CASE m.op = "Alloc" /\ m.id = id
  BY <1>2, <1>4, <1>5 DEF Known
<1>6. CASE ~(m.op = "Alloc" /\ m.id = id)
  <2>1. CASE id \in DOMAIN srvCache /\ srvCache[id] = cache[id]
    BY <1>1, <1>2, <1>6, <2>1 DEF Known
  <2>2. CASE \E j \in 1 .. i : queue[j].op = "Alloc" /\ queue[j].id = id
    <3>1. PICK j \in 1 .. i : queue[j].op = "Alloc" /\ queue[j].id = id
      BY <2>2
    <3>2. j # 1
      BY <1>1, <1>6, <3>1
    <3>3. j - 1 \in 1 .. i - 1 /\ j - 1 \in 1 .. Len(queue') /\ j - 1 + 1 = j
      BY <1>3, <3>1, <3>2
    <3>4. queue'[j - 1] = queue[j]
      BY <1>3, <3>3
    <3> QED BY <3>1, <3>3, <3>4 DEF Known
  <2> QED BY <2>1, <2>2 DEF Known
<1> QED BY <1>5, <1>6

(* The segments when the server takes its first command.                    *)
LEMMA MapServed ==
    ASSUME LockInv, Serve, SegmentsInv'
    PROVE  /\ MapInv' /\ (Mapped' => Mapped)
           /\ srvSegments' \in Seq([base : Nat, size : Nat]) /\ srvChunks' \in Nat
           /\ \A i \in 0 .. Len(queue') :
                Mapped' => Len(srvSegments') + Announced(i)' = Len(srvSegments) + Announced(i + 1)
<1>1. PICK m : m = queue[1]
  OBVIOUS
<1>2. /\ UNCHANGED <<segments, nChunks>> /\ queue # <<>> /\ queue' = Tail(queue) /\ m \in Messages
      /\ m.op # "AddSeg" => UNCHANGED <<srvSegments, srvChunks>>
      /\ m.op = "AddSeg" => ServerAddSeg(m)
  BY <1>1, Served
<1>3. /\ queue' \in Seq(Messages) /\ Len(queue) \in Nat \ {0} /\ Len(queue') = Len(queue) - 1
      /\ \A i \in 1 .. Len(queue') : queue'[i] = queue[i + 1]
      /\ \A i \in 0 .. Len(queue') :
           Announced(i + 1) = Announced(i)' + (IF m.op = "AddSeg" THEN 1 ELSE 0)
      /\ \A i \in 0 .. Len(queue') : Announced(i)' \in Nat
  BY <1>1, <1>2, TailShifts DEF LockInv, LockType
<1>4. /\ Announced(Len(queue)) = Announced(Len(queue))' + (IF m.op = "AddSeg" THEN 1 ELSE 0)
      /\ Announced(Len(queue))' \in Nat
  <2>1. PICK n \in Nat : n = Len(queue') /\ n + 1 = Len(queue)
    BY <1>3
  <2>2. /\ Announced(n + 1) = Announced(n)' + (IF m.op = "AddSeg" THEN 1 ELSE 0)
        /\ Announced(n)' \in Nat
    BY <1>3, <2>1
  <2>3. Announced(n)' = Announced(Len(queue))'
    BY <2>1 DEF Announced
  <2> QED BY <2>1, <2>2, <2>3
<1>5. /\ DOMAIN queue = 1 .. Len(queue) /\ DOMAIN queue' = 1 .. Len(queue')
      /\ Len(srvSegments) \in Nat /\ DOMAIN srvSegments = 1 .. Len(srvSegments)
      /\ srvSegments \in Seq([base : Nat, size : Nat])
      /\ Len(segments) \in Nat /\ DOMAIN segments = 1 .. Len(segments)
      /\ \A j \in DOMAIN segments : segments[j] \in [base : Nat, size : Nat]
  BY <1>3, LenProperties, ElementOfSeq DEF LockInv, LockType, HeapInv, SegmentsInv
<1>6. /\ Len(srvSegments) + Announced(Len(queue)) =< Len(segments)
      /\ \A j \in DOMAIN segments :
          /\ BaseOf(j + 1) = segments[j].base + segments[j].size
          /\ \A k \in j + 1 .. Len(segments) :
              segments[j].base + segments[j].size =< segments[k].base
  BY DEF LockInv, MapInv
<1>7. \A j : BaseOf(j)' = BaseOf(j)
  BY <1>2 DEF BaseOf
<1>8. CASE m.op # "AddSeg"
  <2>1. UNCHANGED <<srvSegments, srvChunks>>
    BY <1>2, <1>8
  <2>2. Mapped' <=> Mapped
    BY <1>2, <1>4, <1>8, <2>1 DEF Mapped
  <2>3. ASSUME Mapped, NEW i \in DOMAIN queue', queue'[i].op = "AddSeg"
        PROVE  /\ Len(srvSegments') + Announced(i)' \in DOMAIN segments'
               /\ queue'[i].size = segments'[Len(srvSegments') + Announced(i)'].size
    <3>1. i + 1 \in DOMAIN queue /\ queue'[i] = queue[i + 1] /\ Announced(i + 1) = Announced(i)'
      BY <1>3, <1>5, <1>8
    <3> QED BY <1>2, <2>1, <2>3, <3>1 DEF LockInv, MapInv
  <2>4. MapInv'
    <3>1. Mapped => (\A j \in DOMAIN srvSegments : srvSegments[j] = segments[j])
                    /\ srvChunks = BaseOf(Len(srvSegments) + 1)
      BY DEF LockInv, MapInv
    <3> QED BY <1>2, <1>4, <1>6, <1>7, <1>8, <2>1, <2>2, <2>3, <3>1 DEF MapInv
  <2> QED BY <1>3, <1>8, <2>1, <2>2, <2>4 DEF LockInv, LockType
<1>9. CASE m.op = "AddSeg" /\ UNCHANGED <<srvSegments, srvChunks>>
  <2>1. ~Mapped'
    BY <1>2, <1>4, <1>5, <1>6, <1>9 DEF Mapped
  <2>2. Len(srvSegments') + Announced(Len(queue))' =< Len(segments')
    BY <1>2, <1>4, <1>5, <1>6, <1>9
  <2>3. MapInv'
    BY <1>2, <1>6, <1>7, <2>1, <2>2 DEF MapInv
  <2> QED BY <1>9, <2>1, <2>3 DEF LockInv, LockType
<1>10. CASE /\ m.op = "AddSeg"
            /\ srvSegments' = Append(srvSegments, [base |-> srvChunks, size |-> m.size])
            /\ srvChunks' = srvChunks + m.size
  <2> DEFINE seg == [base |-> srvChunks, size |-> m.size]
             S == Len(srvSegments)
  <2>1. m.size \in Nat /\ srvChunks \in Nat
    BY <1>2, <1>10 DEF Messages, LockInv, LockType
  <2>2. seg \in [base : Nat, size : Nat] /\ seg.base = srvChunks /\ seg.size = m.size
    BY <2>1
  <2>3. /\ srvSegments' \in Seq([base : Nat, size : Nat]) /\ Len(srvSegments') = S + 1
        /\ DOMAIN srvSegments' = 1 .. S + 1
        /\ \A j \in 1 .. S : srvSegments'[j] = srvSegments[j]
        /\ srvSegments'[S + 1] = seg
    <3>1. srvSegments' = Append(srvSegments, seg)
      BY <1>10
    <3> HIDE DEF seg
    <3> QED BY <1>5, <2>2, <3>1, AppendProperties, LenProperties
  <2>4. Mapped' <=> Mapped
    BY <1>2, <1>4, <1>5, <1>10, <2>3 DEF Mapped
  <2>5. Len(srvSegments') + Announced(Len(queue))' =< Len(segments')
    BY <1>2, <1>4, <1>5, <1>6, <1>10, <2>3
  <2>6. ASSUME NEW i \in 0 .. Len(queue')
        PROVE  Len(srvSegments') + Announced(i)' = S + Announced(i + 1)
    BY <1>3, <1>5, <1>10, <2>3
  <2>7. ASSUME Mapped
        PROVE  /\ \A j \in DOMAIN srvSegments' : srvSegments'[j] = segments[j]
               /\ srvChunks' = BaseOf(S + 2)
               /\ \A i \in DOMAIN queue' : queue'[i].op = "AddSeg" =>
                   /\ Len(srvSegments') + Announced(i)' \in DOMAIN segments
                   /\ queue'[i].size = segments[Len(srvSegments') + Announced(i)'].size
    <3>1. /\ \A j \in DOMAIN srvSegments : srvSegments[j] = segments[j]
          /\ srvChunks = BaseOf(S + 1)
          /\ \A i \in DOMAIN queue : queue[i].op = "AddSeg" =>
              /\ S + Announced(i) \in DOMAIN segments
              /\ queue[i].size = segments[S + Announced(i)].size
      BY <2>7 DEF LockInv, MapInv
    <3>2. Announced(1) = 1
      <4>1. {j \in 1 .. 1 : queue[j].op = "AddSeg"} = {1}
        BY <1>1, <1>10
      <4> QED BY <4>1, FS_Singleton DEF Announced
    <3>3. S + 1 \in DOMAIN segments /\ m.size = segments[S + 1].size
      <4>1. 1 \in DOMAIN queue /\ queue[1] = m
        BY <1>1, <1>3, <1>5
      <4>2. /\ S + Announced(1) \in DOMAIN segments
            /\ queue[1].size = segments[S + Announced(1)].size
        BY <1>10, <3>1, <4>1
      <4> QED BY <3>2, <4>1, <4>2
    <3>4. seg = segments[S + 1]
      <4>1. segments[S + 1] \in [base : Nat, size : Nat] /\ segments[S + 1].base = srvChunks
        BY <1>5, <3>1, <3>3 DEF BaseOf
      <4> QED BY <3>3, <4>1
    <3>5. \A j \in DOMAIN srvSegments' : srvSegments'[j] = segments[j]
      <4>1. \A j \in 1 .. S + 1 : j \in 1 .. S \/ j = S + 1
        BY <1>5
      <4> HIDE DEF seg
      <4> QED BY <1>5, <2>3, <3>1, <3>4, <4>1
    <3>6. srvChunks' = BaseOf(S + 2)
      <4>1. BaseOf(S + 1 + 1) = segments[S + 1].base + segments[S + 1].size
        BY <1>6, <3>3
      <4>2. S + 1 + 1 = S + 2
        BY <1>5
      <4>3. segments[S + 1].base = srvChunks
        BY <1>5, <3>1, <3>3 DEF BaseOf
      <4> QED BY <1>10, <3>3, <4>1, <4>2, <4>3
    <3>7. ASSUME NEW i \in DOMAIN queue', queue'[i].op = "AddSeg"
          PROVE  /\ Len(srvSegments') + Announced(i)' \in DOMAIN segments
                 /\ queue'[i].size = segments[Len(srvSegments') + Announced(i)'].size
      <4>1. i + 1 \in DOMAIN queue /\ queue'[i] = queue[i + 1] /\ i \in 0 .. Len(queue')
        BY <1>3, <1>5
      <4>2. Len(srvSegments') + Announced(i)' = S + Announced(i + 1)
        BY <2>6, <4>1
      <4> QED BY <3>1, <3>7, <4>1, <4>2
    <3> QED BY <3>5, <3>6, <3>7
  <2>8. MapInv'
    <3>1. Mapped => srvChunks' = BaseOf(Len(srvSegments) + 1)'
      <4>1. Len(srvSegments') + 1 = S + 2
        BY <1>5, <2>3
      <4>2. PICK x : x = S + 2
        OBVIOUS
      <4>3. BaseOf(x)' = BaseOf(x)
        BY <1>7
      <4>4. BaseOf(Len(srvSegments) + 1)' = BaseOf(x)'
        BY <4>1, <4>2 DEF BaseOf
      <4> QED BY <2>7, <4>2, <4>3, <4>4
    <3> QED BY <1>2, <1>6, <1>7, <2>4, <2>5, <2>7, <3>1 DEF MapInv
  <2>9. srvChunks' \in Nat
    BY <1>10, <2>1
  <2> QED BY <2>3, <2>4, <2>6, <2>8, <2>9
<1> QED BY <1>2, <1>8, <1>9, <1>10 DEF ServerAddSeg

(* A command is carried out.                                                *)
LEMMA ServeKeeps ==
    ASSUME LockInv, HeapInv', Serve
    PROVE  LockInv'
<1>1. PICK m : m = queue[1]
  OBVIOUS
<1>2. /\ UNCHANGED <<cache, allocations, nextUid, segments, nChunks, bufferId, lockInfos, call, memory>>
      /\ queue # <<>> /\ queue' = Tail(queue) /\ m \in Messages /\ DOMAIN chunk' = Chunks
      /\ \A id : Live(id) /\ ~(m.op = "Dealloc" /\ m.id = id) => Live(id)'
  BY <1>1, Served
<1>3. /\ queue' \in Seq(Messages) /\ Len(queue) \in Nat \ {0} /\ Len(queue') = Len(queue) - 1
      /\ \A i \in 1 .. Len(queue') : queue'[i] = queue[i + 1]
  BY <1>1, <1>2, TailShifts DEF LockInv, LockType
<1>4. DOMAIN queue = 1 .. Len(queue) /\ DOMAIN queue' = 1 .. Len(queue')
  BY <1>3, LenProperties DEF LockInv, LockType
<1>5. /\ MapInv' /\ (Mapped' => Mapped)
      /\ srvSegments' \in Seq([base : Nat, size : Nat]) /\ srvChunks' \in Nat
      /\ \A i \in 0 .. Len(queue') :
           Mapped' => Len(srvSegments') + Announced(i)' = Len(srvSegments) + Announced(i + 1)
  BY MapServed DEF HeapInv
<1>6. LockType'
  BY <1>2, <1>3, <1>5 DEF LockInv, LockType
<1>7. AllocInv'
  <2>1. ASSUME NEW j \in DOMAIN queue' PROVE j + 1 \in DOMAIN queue /\ queue'[j] = queue[j + 1]
    BY <1>3, <1>4
  <2> QED BY <1>2, <2>1 DEF LockInv, AllocInv
<1>8. ASSUME NEW i \in 0 .. Len(queue'), NEW id, ~Returning(i + 2, id)
      PROVE  ~Returning(i + 1, id)' /\ ~(m.op = "Dealloc" /\ m.id = id)
  <2>1. \A j \in 1 .. i : j + 1 \in 1 .. i + 1 /\ queue'[j] = queue[j + 1]
    BY <1>3
  <2>2. 1 \in 1 .. i + 1
    BY <1>3
  <2> QED BY <1>1, <1>8, <2>1, <2>2 DEF Returning
<1>9. SentInv'
  <2> SUFFICES ASSUME NEW i \in DOMAIN queue' PROVE Sent(i, queue[i])'
    BY DEF SentInv
  <2>1. i + 1 \in DOMAIN queue /\ queue'[i] = queue[i + 1] /\ i \in 1 .. Len(queue) /\ i - 1 \in 0 .. Len(queue')
        /\ i \in 0 .. Len(queue')
    BY <1>3, <1>4
  <2>2. PICK x : x = queue[i + 1]
    OBVIOUS
  <2>3. Sent(i + 1, x)
    BY <2>1, <2>2 DEF LockInv, SentInv
  <2>4. ASSUME x.op \in {"Unlock", "Dealloc"}
        PROVE  Live(x.id)' /\ Known(i, x.id)' /\ ~Returning(i, x.id)'
    <3>1. Live(x.id) /\ Known(i + 1, x.id) /\ ~Returning(i + 1, x.id)
      BY <2>3, <2>4 DEF Sent
    <3>2. i - 1 + 2 = i + 1 /\ i - 1 + 1 = i
      BY <2>1
    <3>3. ~Returning(i, x.id)' /\ ~(m.op = "Dealloc" /\ m.id = x.id)
      <4>1. PICK k \in 0 .. Len(queue') : k = i - 1
        BY <2>1
      <4>2. k + 2 = i + 1 /\ k + 1 = i
        BY <3>2, <4>1
      <4>3. ~Returning(k + 1, x.id)' /\ ~(m.op = "Dealloc" /\ m.id = x.id)
        BY <1>8, <3>1, <4>2
      <4> QED BY <4>2, <4>3
    <3>4. Known(i, x.id)'
      BY <1>1, <2>1, <3>1, <3>3, StillKnown
    <3> QED BY <1>2, <3>1, <3>3, <3>4
  <2>5. ASSUME x.op = "Unlock"
        PROVE  Written(x.id)' /\ Reached(i, x.id)'
    <3>1. Written(x.id) /\ Reached(i + 1, x.id)
      BY <2>3, <2>5 DEF Sent
    <3>2. Written(x.id)'
      BY <1>2, <3>1 DEF Written, Span
    <3>3. ASSUME Mapped'
          PROVE  \E j \in DOMAIN segments' : j =< Len(srvSegments') + Announced(i)' /\ Within(j, x.id)'
      <4>1. PICK j \in DOMAIN segments : j =< Len(srvSegments) + Announced(i + 1) /\ Within(j, x.id)
        BY <1>5, <3>1, <3>3 DEF Reached
      <4>2. Within(j, x.id)'
        BY <1>2, <4>1 DEF Within
      <4> QED BY <1>2, <1>5, <2>1, <3>3, <4>1, <4>2
    <3>4. Reached(i, x.id)'
      BY <3>3 DEF Reached
    <3> QED BY <3>2, <3>4
  <2>6. queue'[i] = x
    BY <2>1, <2>2
  <2> QED BY <2>4, <2>5, <2>6 DEF Sent
<1>10. HeldInv'
  <2> SUFFICES ASSUME NEW r \in Resources, NEW id \in Nat, Holds(r, id)' PROVE Own(r, id)'
    BY DEF HeldInv
  <2>1. Holds(r, id) /\ \A s \in Resources : Holds(s, id)' => Holds(s, id)
    BY <1>2 DEF Holds
  <2>2. Own(r, id)
    BY <2>1 DEF LockInv, HeldInv
  <2>3. PICK n \in 0 .. Len(queue') : n = Len(queue') /\ n + 2 = Len(queue) + 1 /\ n + 1 = Len(queue)
    BY <1>3
  <2>4. ~Returning(n + 1, id)' /\ ~(m.op = "Dealloc" /\ m.id = id)
    BY <1>8, <2>2, <2>3 DEF Own
  <2>5. Live(id)'
    BY <1>2, <2>2, <2>4 DEF Own
  <2>6. Known(n + 1, id)'
    <3>1. n + 1 \in 1 .. Len(queue) /\ n + 1 + 1 = Len(queue) + 1
      BY <1>3, <2>3
    <3>2. PICK k \in 1 .. Len(queue) : k = n + 1
      BY <3>1
    <3>3. Known(k + 1, id) /\ Live(id)
      BY <2>2, <3>1, <3>2 DEF Own
    <3>4. Known(k, id)'
      BY <1>1, <2>4, <3>3, StillKnown
    <3> QED BY <3>2, <3>4
  <2>7. Known(Len(queue) + 1, id)' /\ ~Returning(Len(queue) + 1, id)'
    BY <2>3, <2>4, <2>6 DEF Known, Returning
  <2>8. /\ allocations'[cache'[id]] = cache'[id] + Size[r] - 1
        /\ \A s \in Resources : Holds(s, id)' => s = r
    BY <1>2, <2>1, <2>2 DEF Own
  <2> QED BY <2>5, <2>7, <2>8 DEF Own
<1>11. InfoInv' /\ RequestInv'
  BY <1>2 DEF LockInv, InfoInv, RequestInv
<1> QED BY <1>5, <1>6, <1>7, <1>9, <1>10, <1>11 DEF LockInv

---------------------------------------------------------------------------
(* The server copies what was written *)

(* At the start the first segment is on its way and nothing else.           *)
LEMMA InitLockInv == InitLockable => LockInv
<1> SUFFICES ASSUME InitLockable PROVE LockInv
  OBVIOUS
<1>1. PICK size \in SegmentSizes(0, FirstSegment) :
          /\ segments = <<[base |-> 0, size |-> size]>> /\ nChunks = size
          /\ queue = <<[op |-> "AddSeg", size |-> size]>>
  BY DEF InitLockable
<1> DEFINE m == [op |-> "AddSeg", size |-> size]
           seg == [base |-> 0, size |-> size]
<1>2. MaxHeap \in Nat /\ size \in Nat /\ size =< MaxHeap
  BY HeapAssumption DEF SegmentSizes
<1>3. HeapInv
  BY InitHeapInv
<1>4. m \in Messages /\ m.op = "AddSeg" /\ m.size = size /\ seg.base = 0 /\ seg.size = size
  BY <1>2 DEF Messages
<1>5. /\ queue \in Seq(Messages) /\ Len(queue) = 1 /\ DOMAIN queue = {1} /\ queue[1] = m
      /\ Len(segments) = 1 /\ DOMAIN segments = {1} /\ segments[1] = seg
  <2> HIDE DEF m, seg
  <2> QED BY <1>1, <1>4 DEF m, seg
<1> HIDE DEF m, seg
<1>6. /\ srvSegments = <<>> /\ Len(srvSegments) = 0 /\ DOMAIN srvSegments = {} /\ srvChunks = 0
      /\ srvSegments \in Seq([base : Nat, size : Nat])
  BY EmptySeq DEF InitLockable
<1>7. Announced(1) = 1
  <2>1. {j \in 1 .. 1 : queue[j].op = "AddSeg"} = {1}
    BY <1>4, <1>5
  <2> QED BY <2>1, FS_Singleton DEF Announced
<1>8. LockType
  <2>1. <<>> \in Seq(Infos)
    BY EmptySeq
  <2> QED BY <1>1, <1>2, <1>5, <1>6, <2>1 DEF InitLockable, LockType
<1>9. MapInv
  BY <1>1, <1>2, <1>4, <1>5, <1>6, <1>7 DEF MapInv, BaseOf
<1>10. AllocInv /\ SentInv
  BY <1>4, <1>5 DEF AllocInv, SentInv, Sent
<1>11. HeldInv /\ InfoInv
  <2>1. \A r \in Resources : bufferId[r] = None /\ DOMAIN lockInfos[r] = {}
    BY EmptySeq DEF InitLockable
  <2> QED BY <2>1 DEF HeldInv, InfoInv, Holds, None
<1>12. RequestInv
  BY DEF InitLockable, NoCall, RequestInv
<1> QED BY <1>3, <1>8, <1>9, <1>10, <1>11, <1>12 DEF LockInv

(* Every step keeps it.                                                     *)
LEMMA NextLockInv == LockInv /\ [LockableNext]_lockableVars => LockInv'
<1> SUFFICES ASSUME LockInv, [LockableNext]_lockableVars PROVE LockInv'
  OBVIOUS
<1>1. HeapInv'
  BY NextHeapInv DEF LockInv
<1>2. CASE UNCHANGED lockableVars
  <2>1. UNCHANGED <<cache, allocations, chunk, nextUid, segments, nChunks, srvCache, srvSegments,
                    srvChunks, queue, memory, bufferId, lockInfos, call>>
    BY <1>2 DEF lockableVars, clientHeap, serverHeap
  <2>2. \A r \in Resources, id \in Nat : Holds(r, id)' => Holds(r, id)
    BY <2>1 DEF Holds
  <2>3. MapInv' /\ AllocInv' /\ SentInv' /\ HeldInv'
    BY <2>1, <2>2, HeapAside
  <2>4. LockType' /\ InfoInv' /\ RequestInv'
    BY <2>1 DEF LockInv, LockType, InfoInv, RequestInv
  <2> QED BY <1>1, <2>3, <2>4 DEF LockInv
<1>3. ASSUME NEW r \in Resources, NEW readonly \in BOOLEAN,
             LockAgain(r, readonly) \/ LockAllocates(r, readonly)
      PROVE  LockInv'
  BY <1>1, <1>3, AgainKeeps, AllocatesKeeps
<1>4. ASSUME NEW r \in Resources, Unlock(r) \/ Destroy(r) PROVE LockInv'
  BY <1>1, <1>4, UnlockKeeps, DestroyKeeps
<1>5. CASE SearchFinds
  <2>1. call.pc = "search" /\ Size[call.request.res] \in Nat \ {0}
    BY <1>5, SizeIsPositive DEF SearchFinds, LockInv, HeapInv, CallInv
  <2>2. PICK a \in Found(Size[call.request.res]) : Locked(a)
    BY <1>5 DEF SearchFinds
  <2>3. a.first \in Nat /\ a.final \in Nat /\ isValidAllocation(a) /\ Free(a)
    BY <2>1, FoundIsFree DEF LockInv
  <2>4. a.final = a.first + Size[call.request.res] - 1
    BY DEF Found, ValidInMiddle, ValidOnEnd, findFreeInMiddle, findFreeOnEnd, createAllocation
  <2> QED BY <1>1, <2>1, <2>2, <2>3, <2>4, LockedKeeps
<1>6. CASE SearchFails
  BY <1>1, <1>6, SearchFailsKeeps
<1>7. CASE Grow
  BY <1>1, <1>7, GrowKeeps
<1>8. CASE GrowFails
  BY <1>1, <1>8, CallKeeps DEF GrowFails
<1>9. CASE Place
  <2>1. PICK a : a = createAllocation(call.first, Size[call.request.res])
    OBVIOUS
  <2>2. CASE isValidAllocation(a) /\ Locked(a)
    <3>1. call.first \in Nat /\ Size[call.request.res] \in Nat \ {0} /\ call.pc # "idle"
      BY <1>9, SizeIsPositive DEF Place, LockInv, HeapInv, CallInv
    <3>2. a.first = call.first /\ a.final = call.first + Size[call.request.res] - 1
      BY <2>1 DEF createAllocation
    <3>3. a.first \in Nat /\ a.final \in Nat /\ Free(a)
      BY <1>9, <3>1, <3>2 DEF Place, LockInv, HeapInv, CallInv, Free
    <3> QED BY <1>1, <2>2, <3>1, <3>2, <3>3, LockedKeeps
  <2>3. CASE LockFails /\ UNCHANGED <<clientHeap, serverHeap, chunk, queue>>
    BY <1>1, <2>3, CallKeeps
  <2> QED BY <1>9, <2>1, <2>2, <2>3 DEF Place
<1>10. CASE Serve
  BY <1>1, <1>10, ServeKeeps
<1>11. ASSUME NEW r \in Resources, NEW k, WriteLock(r, k) PROVE LockInv'
  BY <1>1, <1>11, WriteKeeps
<1> QED
  BY <1>2, <1>3, <1>4, <1>5, <1>6, <1>7, <1>8, <1>9, <1>10, <1>11 DEF LockableNext

(* The Unlock the server is about to carry out finds the bytes the game     *)
(* wrote through that lock, whatever was discarded, destroyed, freed and    *)
(* allocated since, as long as the server could map every segment.          *)
LEMMA InvImpliesCopies == LockInv => ServerCopies
<1> SUFFICES ASSUME LockInv, queue # <<>>, Head(queue).op = "Unlock", EverySegmentMapped,
                    NEW id, id = Head(queue).id
             PROVE  /\ id \in DOMAIN srvCache
                    /\ id \in DOMAIN cache
                    /\ \A c \in Span(cache[id]) :
                        {memory[x] : x \in SeenByServer(srvCache[id] + (c - cache[id]))} = {id}
  BY DEF ServerCopies
<1>1. queue \in Seq(Messages) /\ DOMAIN queue = 1 .. Len(queue) /\ 1 \in DOMAIN queue /\ Head(queue) = queue[1]
  BY EmptySeq, LenProperties, HeadTailProperties DEF LockInv, LockType
<1>2. Mapped
  BY <1>1 DEF EverySegmentMapped, Mapped, Announced
<1>3. Live(id) /\ Known(1, id) /\ Written(id) /\ Reached(1, id)
  BY <1>1 DEF LockInv, SentInv, Sent
<1>4. id \in DOMAIN cache /\ id \in DOMAIN srvCache /\ srvCache[id] = cache[id]
  BY <1>3 DEF Live, Known
<1>5. Announced(1) = 0
  <2>1. {j \in 1 .. 1 : queue[j].op = "AddSeg"} = {}
    BY <1>1
  <2> QED BY <2>1, FS_EmptySet DEF Announced
<1>6. /\ Len(srvSegments) \in Nat /\ DOMAIN srvSegments = 1 .. Len(srvSegments)
      /\ DOMAIN segments = 1 .. Len(segments) /\ Len(segments) \in Nat
  BY LenProperties DEF LockInv, LockType, HeapInv, SegmentsInv
<1>7. PICK j \in DOMAIN segments : j =< Len(srvSegments) /\ Within(j, id)
  BY <1>2, <1>3, <1>5, <1>6 DEF Reached
<1>8. \A k \in DOMAIN srvSegments : k \in DOMAIN segments /\ srvSegments[k] = segments[k]
  <2>1. Announced(Len(queue)) \in Nat
    <3>1. IsFiniteSet(1 .. Len(queue))
      BY <1>1, FS_Interval, LenProperties
    <3> QED BY <3>1, FS_Subset, FS_CardinalityType DEF Announced
  <2> QED BY <1>2, <1>6, <2>1 DEF LockInv, MapInv, Mapped
<1>9. cache[id] \in DOMAIN allocations /\ cache[id] \in Nat /\ allocations[cache[id]] \in Nat
  BY <1>4 DEF LockInv, HeapInv, CacheInv, AllocationsInv
<1>10. ASSUME NEW c \in Span(cache[id])
       PROVE  {memory[x] : x \in SeenByServer(srvCache[id] + (c - cache[id]))} = {id}
  <2>1. c \in Int /\ cache[id] =< c /\ c =< allocations[cache[id]] /\ srvCache[id] + (c - cache[id]) = c
    BY <1>4, <1>9 DEF Span
  <2>2. \A k \in DOMAIN segments :
          /\ segments[k].base \in Nat /\ segments[k].size \in Nat
          /\ \A l \in k + 1 .. Len(segments) :
              segments[k].base + segments[k].size =< segments[l].base
    BY DEF LockInv, MapInv, HeapInv, SegmentsInv
  <2>3. j \in chunkIdToSegId(srvSegments, c)
    BY <1>6, <1>7, <1>8, <1>9, <2>1, <2>2 DEF chunkIdToSegId, InSegment, Within
  <2>4. ASSUME NEW k \in chunkIdToSegId(srvSegments, c) PROVE k = j
    <3>1. k \in DOMAIN segments /\ segments[k].base =< c /\ c < segments[k].base + segments[k].size
      BY <1>8, <2>4 DEF chunkIdToSegId, InSegment
    <3>2. segments[j].base =< c /\ c < segments[j].base + segments[j].size
      BY <1>7, <1>9, <2>1, <2>2 DEF Within
    <3>3. k < j => j \in k + 1 .. Len(segments)
      BY <1>6, <1>7, <3>1
    <3>4. j < k => k \in j + 1 .. Len(segments)
      BY <1>6, <1>7, <3>1
    <3>5. /\ segments[k].base \in Nat /\ segments[k].size \in Nat
          /\ segments[j].base \in Nat /\ segments[j].size \in Nat /\ c \in Int
      BY <2>1, <2>2, <3>1
    <3>6. k < j => segments[k].base + segments[k].size =< segments[j].base
      BY <2>2, <3>1, <3>3
    <3>7. j < k => segments[j].base + segments[j].size =< segments[k].base
      BY <2>2, <3>1, <3>4
    <3>8. ~(k < j) /\ ~(j < k)
      BY <3>1, <3>2, <3>5, <3>6, <3>7
    <3> QED BY <1>6, <1>7, <3>1, <3>8
  <2>5. chunkIdToSegId(srvSegments, c) = {j}
    BY <2>3, <2>4
  <2>6. segments[j].base + (c - srvSegments[j].base) = c
    BY <1>6, <1>7, <1>8, <2>1, <2>2
  <2>7. SeenByServer(c) = {c}
    BY <2>5, <2>6 DEF SeenByServer
  <2> QED BY <1>3, <2>1, <2>7 DEF Written
<1> QED BY <1>4, <1>10

\* Whatever the game locks, discards, unlocks and destroys, and whenever the
\* server works: it copies the bytes the game wrote, never another resource's.
THEOREM UnlocksAreCopied == LockableSpec => []ServerCopies
<1>1. LockableSpec => []LockInv
  BY InitLockInv, NextLockInv, PTL DEF LockableSpec
<1> QED
  BY <1>1, InvImpliesCopies, PTL

------------------------------------------------------------------------------
(* The picture of a surface.  First what holds of it between steps; then   *)
(* rows and the bytes of a rectangle; then the commands under way; then    *)
(* the calls of the game; then the server.                                 *)

(* Every rectangle the game locks has rows of at least eight bytes, so     *)
(* that neither process rounds the size of a row up.                       *)
WideRows ==
    \A s \in Shapes : \A r \in s.rects :
        calcStride(r[3] - r[1], s.format) * getBytesFromFormat(s.format) >= MinSurfacePitch["Server"]

(* A byte says which write it is from and which row and column of the      *)
(* picture it shows; and so many of them.                                  *)
Byte == Int \X Int \X Int
ByteArray(n) == [0 .. (n - 1) -> Byte]

(* Where a copy with the given pitch has the cell c; and that it shows the *)
(* write there.                                                            *)
At(pitch, c) == c[1] * pitch + c[2]

Seen(bytes, pitch, c, write) == bytes[At(pitch, c)] = <<write, c[1], c[2]>>

(* A rectangle, in blocks and bytes: its first row and column, its rows    *)
(* and the bytes of a row.                                                 *)
Top(rect) == BlocksOf(rect[2])
Left(rect) == BlocksOf(rect[1]) * getBytesFromFormat(format)
RectRows(rect) == calcStride(Height(rect), format)
RectBytes(rect) == calcRowSize("Client", Width(rect), format)

(* What is locked and what is sent. *)
Flags == {"0", "READONLY", "DISCARD"}

Locks == [rect : surface.rects, flags : Flags, bufId : Nat]

ImageCommands ==
    [cmd : {"UnlockRect", "LockRect", "GetRenderTargetData", "Draw"}, rect : surface.rects,
     flags : Flags, bufId : Nat, pitch : Nat, blob : {<<>>} \cup UNION {ByteArray(n) : n \in Nat}, write : Nat]

(* What an UnlockRect under way says of its bytes: a whole buffer, or the  *)
(* rows of the rectangle.                                                  *)
CommandInv(m) ==
    m.cmd = "UnlockRect" =>
        /\ m.flags = "DISCARD" => m.rect = Whole
        /\ m.bufId \in 1 .. Len(buffers)
        /\ m.pitch = IF useSharedHeap THEN Pitch ELSE RectBytes(m.rect)
        /\ ~useSharedHeap => m.blob \in ByteArray(RectRows(m.rect) * RectBytes(m.rect))

CommandsInv(chain) == chain \in Seq(ImageCommands) /\ \A i \in 1 .. Len(chain) : CommandInv(chain[i])

(* The types of the variables. *)
ImageType ==
    /\ surface \in Shapes
    /\ useSharedHeap \in BOOLEAN /\ captured \in BOOLEAN
    /\ captured => ~useSharedHeap
    /\ buffers \in Seq(ByteArray(SurfaceSize))
    /\ m_bufferId \in 0 .. Len(buffers)
    /\ m_lockInfoQueue \in Seq(Locks)
    /\ CommandsInv(flight)
    /\ image \in ByteArray(Rows * ServerPitch)
    /\ meant \in [Cells -> Nat]
    /\ writes \in Nat
    /\ astray = FALSE

(* The game holds one lock at a time; an answer of the server leaves the   *)
(* lock of the whole surface's rectangle in its place.                     *)
LockHeld(locked, locks, id) ==
    /\ locked[1] \in surface.rects
    /\ id # 0
    /\ \E lock \in Locks :
        /\ locks = <<lock>>
        /\ lock.bufId = id
        /\ lock.flags = "DISCARD" => lock.rect = Whole
        /\ locked[2] # "READONLY" => lock.flags # "READONLY" /\ CellsOf(locked[1]) \subseteq CellsOf(lock.rect)

LockedInv ==
    /\ held = <<>> => m_lockInfoQueue = <<>>
    /\ held # <<>> => LockHeld(held, m_lockInfoQueue, m_bufferId)

(* The command the client waits for is the last one under way, and when    *)
(* its answer is there nothing is under way and the answer shows what is   *)
(* meant.                                                                  *)
AskedInv ==
    /\ asks \in {"none", "LockRect", "GetRenderTargetData"}
    /\ asks = "LockRect" => captured /\ held # <<>>
    /\ asks = "GetRenderTargetData" => held = <<>>
    /\ \A i \in 1 .. Len(flight) :
        flight[i].cmd \in {"LockRect", "GetRenderTargetData"} =>
            i = Len(flight) /\ asks = flight[i].cmd /\ reply = <<>>
    /\ reply # <<>> =>
        /\ asks # "none" /\ flight = <<>>
        /\ reply \in ByteArray(Rows * RowBytes)
        /\ \A c \in Cells : meant[c] # 0 => Seen(reply, RowBytes, c, meant[c])

(* The client's buffer shows what is meant, except while the client waits  *)
(* and, of a captured surface, between two locks.                          *)
ShadowInv ==
    asks = "none" /\ (held # <<>> \/ ~captured) =>
        \A c \in Cells : meant[c] # 0 => m_bufferId # 0 /\ Seen(buffers[m_bufferId], Pitch, c, meant[c])

(* The command m writes the cell c of the server; and writes it so that it *)
(* shows the write.                                                        *)
Covers(m, c) ==
    \/ m.cmd = "UnlockRect" /\ c \in CellsOf(m.rect)
    \/ m.cmd \in {"GetRenderTargetData", "Draw"}

Shows(m, c, write) ==
    CASE m.cmd # "UnlockRect" -> m.write = write
      [] m.cmd = "UnlockRect" /\ useSharedHeap -> Seen(buffers[m.bufId], Pitch, c, write)
      [] OTHER ->
          m.blob[(c[1] - Top(m.rect)) * RectBytes(m.rect)
                   + (c[2] - Left(m.rect))] = <<write, c[1], c[2]>>

(* The cells the game may be writing, which no command has taken yet.      *)
Open == IF held # <<>> /\ asks = "none" /\ held[2] # "READONLY" THEN CellsOf(held[1]) ELSE {}

(* The last command under way to reach the cell c shows the write; when    *)
(* none does, the server's surface shows it.                               *)
Settled(chain, c, write) ==
    /\ \A i \in 1 .. Len(chain) :
        Covers(chain[i], c) /\ (\A j \in i + 1 .. Len(chain) : ~Covers(chain[j], c))
            => Shows(chain[i], c, write)
    /\ (\A i \in 1 .. Len(chain) : ~Covers(chain[i], c)) => Seen(image, ServerPitch, c, write)

FlightInv == \A c \in Cells \ Open : meant[c] # 0 => Settled(flight, c, meant[c])

(* The inductive invariant. *)
ImageInv == ImageType /\ LockedInv /\ AskedInv /\ ShadowInv /\ FlightInv

------------------------------------------------------------------------------
(* Rows *)

(* Rows of one pitch do not overlap: a place is in one row, at one column. *)
LEMMA ProductGrows ==
    ASSUME NEW a \in Nat, NEW b \in Nat, NEW n \in Nat, a =< b
    PROVE  a * n \in Nat /\ b * n \in Nat /\ a * n =< b * n
<1>1. PICK d \in Nat : b = a + d
  <2>1. b - a \in Nat /\ b = a + (b - a)
    OBVIOUS
  <2> QED BY <2>1
<1>2. b * n = a * n + d * n
  BY <1>1
<1>3. a * n \in Nat /\ d * n \in Nat
  OBVIOUS
<1> QED BY <1>2, <1>3

LEMMA RowApart ==
    ASSUME NEW pitch \in Nat, NEW y \in Int, NEW z \in Int,
           NEW x \in 0 .. pitch - 1, NEW u \in 0 .. pitch - 1, y < z
    PROVE  y * pitch + x < z * pitch + u
<1>1. PICK d \in Nat : z = y + 1 + d
  <2>1. z - y - 1 \in Nat /\ z = y + 1 + (z - y - 1)
    OBVIOUS
  <2> QED BY <2>1
<1>2. z * pitch = y * pitch + pitch + d * pitch
  BY <1>1
<1>3. d * pitch \in Nat /\ y * pitch \in Int
  OBVIOUS
<1> QED BY <1>2, <1>3

LEMMA RowUnique ==
    ASSUME NEW pitch \in Nat, NEW y \in Int, NEW z \in Int,
           NEW x \in 0 .. pitch - 1, NEW u \in 0 .. pitch - 1,
           y * pitch + x = z * pitch + u
    PROVE  y = z /\ x = u
<1>1. ~(y < z)
  <2>1. y * pitch \in Int /\ z * pitch \in Int OBVIOUS
  <2> QED BY <2>1, RowApart
<1>2. ~(z < y)
  <2>1. y * pitch \in Int /\ z * pitch \in Int OBVIOUS
  <2> QED BY <2>1, RowApart
<1>3. y = z BY <1>1, <1>2
<1>4. y * pitch \in Int OBVIOUS
<1> QED BY <1>3, <1>4

LEMMA RowInside ==
    ASSUME NEW rows \in Nat, NEW pitch \in Nat, NEW y \in 0 .. rows - 1, NEW x \in 0 .. pitch - 1
    PROVE  y * pitch + x \in 0 .. rows * pitch - 1
<1>1. y * pitch \in Nat /\ y \in Nat
  OBVIOUS
<1>2. (y + 1) * pitch =< rows * pitch
  BY ProductGrows
<1>3. (y + 1) * pitch = y * pitch + pitch /\ rows * pitch \in Nat
  BY <1>1
<1> QED BY <1>1, <1>2, <1>3

LEMMA RowDivision ==
    ASSUME NEW pitch \in Nat \ {0}, NEW y \in Nat, NEW x \in 0 .. pitch - 1
    PROVE  (y * pitch + x) \div pitch = y /\ (y * pitch + x) % pitch = x
<1>1. y * pitch + x \in Nat
  OBVIOUS
<1> DEFINE n == y * pitch + x
           q == n \div pitch
           m == n % pitch
<1>2. n = y * pitch + x /\ n \in Nat
  BY <1>1
<1>3. q \in Int /\ m \in 0 .. pitch - 1 /\ n = q * pitch + m
  <2> HIDE DEF n
  <2> QED BY <1>2
<1> HIDE DEF n, q, m
<1>4. q = y /\ m = x
  BY <1>2, <1>3, RowUnique
<1> QED BY <1>4 DEF n, q, m

(* A copy of rows has the bytes it had or those of its source. *)
LEMMA ByteAtType ==
    ASSUME NEW k \in Nat, NEW from \in ByteArray(k), NEW p
    PROVE  ByteAt(from, p) \in Byte
<1>1. Undefined \in Byte BY DEF Undefined, Byte
<1>2. p \in DOMAIN from => from[p] \in Byte BY DEF ByteArray
<1> HIDE DEF Byte
<1> QED BY <1>1, <1>2 DEF ByteAt

LEMMA RowsCopiedType ==
    ASSUME NEW n \in Nat, NEW to \in ByteArray(n), NEW k \in Nat, NEW from \in ByteArray(k),
           NEW start, NEW toPitch, NEW fromStart, NEW fromPitch, NEW rows, NEW size
    PROVE  RowsCopied(to, start, toPitch, from, fromStart, fromPitch, rows, size) \in ByteArray(n)
<1>1. \A p : ByteAt(from, p) \in Byte
  BY ByteAtType
<1>2. DOMAIN to = 0 .. n - 1 /\ \A p \in DOMAIN to : to[p] \in Byte
  BY DEF ByteArray
<1> QED BY <1>1, <1>2 DEF RowsCopied, ByteArray

(* Copying rows, at places of their own in both memories: a cell inside of *)
(* the rows is the source's, any other stays.                              *)
CopyArgs(n, to, toPitch, from, fromStart, fromPitch, top, left, rows, size, y, x, after) ==
    /\ n \in Nat /\ to \in ByteArray(n) /\ toPitch \in Nat /\ fromStart \in Int /\ fromPitch \in Int
    /\ top \in Nat /\ left \in Nat /\ rows \in Nat /\ size \in Nat /\ left + size =< toPitch
    /\ y \in Nat /\ x \in 0 .. toPitch - 1 /\ y * toPitch + x \in 0 .. n - 1
    /\ after = RowsCopied(to, top * toPitch + left, toPitch, from, fromStart, fromPitch, rows, size)

CopyResult(n, to, toPitch, from, fromStart, fromPitch, top, left, rows, size, y, x, after) ==
    /\ y \in top .. top + rows - 1 /\ x \in left .. left + size - 1 =>
         after[y * toPitch + x] = ByteAt(from, fromStart + (y - top) * fromPitch + (x - left))
    /\ ~(y \in top .. top + rows - 1 /\ x \in left .. left + size - 1) =>
         after[y * toPitch + x] = to[y * toPitch + x]

LEMMA CellCopied ==
    \A n, to, toPitch, from, fromStart, fromPitch, top, left, rows, size, y, x, after :
        CopyArgs(n, to, toPitch, from, fromStart, fromPitch, top, left, rows, size, y, x, after) =>
        CopyResult(n, to, toPitch, from, fromStart, fromPitch, top, left, rows, size, y, x, after)
<1> SUFFICES ASSUME NEW n, NEW to, NEW toPitch, NEW from, NEW fromStart, NEW fromPitch, NEW top, NEW left,
                    NEW rows, NEW size, NEW y, NEW x, NEW after,
                    CopyArgs(n, to, toPitch, from, fromStart, fromPitch, top, left, rows, size, y, x, after)
             PROVE  CopyResult(n, to, toPitch, from, fromStart, fromPitch, top, left, rows, size, y, x, after)
  BY Zenon
<1> DEFINE start == top * toPitch + left
<1>0. /\ n \in Nat /\ to \in ByteArray(n) /\ toPitch \in Nat /\ fromStart \in Int /\ fromPitch \in Int
      /\ top \in Nat /\ left \in Nat /\ rows \in Nat /\ size \in Nat /\ left + size =< toPitch
      /\ y \in Nat /\ x \in 0 .. toPitch - 1 /\ y * toPitch + x \in 0 .. n - 1
      /\ after = RowsCopied(to, start, toPitch, from, fromStart, fromPitch, rows, size)
  BY DEF CopyArgs
<1> DEFINE p == y * toPitch + x
           Row == {z \in 0 .. rows - 1 : p - start - z * toPitch \in 0 .. size - 1}
           Last == CHOOSE a \in Row : \A z \in Row : z <= a
<1>1. p \in DOMAIN to /\ p \in Int /\ start \in Int
  BY <1>0 DEF ByteArray
<1>2. after[p] = IF Row = {} THEN to[p]
                 ELSE ByteAt(from, fromStart + Last * fromPitch + p - start - Last * toPitch)
  BY <1>0, <1>1 DEF RowsCopied
<1>3. \A z \in Row : z = y - top /\ y = top + z /\ x \in left .. left + size - 1
  <2> TAKE z \in Row
  <2>1. z \in 0 .. rows - 1 /\ p - start - z * toPitch \in 0 .. size - 1
    OBVIOUS
  <2>2. PICK u \in 0 .. size - 1 : u = p - start - z * toPitch
    BY <1>0, <2>1
  <2>3. (top + z) * toPitch = top * toPitch + z * toPitch /\ top * toPitch \in Int /\ z * toPitch \in Int
        /\ y * toPitch \in Int
    BY <1>0, <2>1
  <2>4. y * toPitch + x = (top + z) * toPitch + (left + u)
    BY <1>0, <2>2, <2>3
  <2>5. y = top + z /\ x = left + u
    BY <1>0, <2>1, <2>2, <2>4, RowUnique
  <2> QED BY <1>0, <2>1, <2>2, <2>5
<1>4. ASSUME y \in top .. top + rows - 1, x \in left .. left + size - 1
      PROVE  after[p] = ByteAt(from, fromStart + (y - top) * fromPitch + (x - left))
  <2>1. y - top \in 0 .. rows - 1
    BY <1>0, <1>4
  <2>2. /\ top * toPitch + (y - top) * toPitch = y * toPitch
        /\ top * toPitch \in Int /\ (y - top) * toPitch \in Int /\ (y - top) * fromPitch \in Int
    <3>1. PICK z \in Int : z = y - top
      BY <1>0
    <3>2. y = top + z
      BY <1>0, <3>1
    <3> QED BY <1>0, <3>1, <3>2
  <2>3. p - start - (y - top) * toPitch = x - left
    BY <1>0, <2>2
  <2>4. x - left \in 0 .. size - 1
    BY <1>0, <1>4
  <2>5. y - top \in Row
    BY <1>0, <2>1, <2>3, <2>4
  <2>6. Last \in Row
    <3>1. \A z \in Row : z <= y - top
      BY <1>0, <1>3, <2>1
    <3>2. \E a \in Row : \A z \in Row : z <= a
      BY <1>0, <2>5, <3>1
    <3> HIDE DEF Row
    <3> QED BY <1>0, <3>2
  <2>7. Last = y - top
    <3> HIDE DEF Row, Last
    <3> QED BY <1>0, <1>3, <2>6
  <2>8. after[p] = ByteAt(from, fromStart + Last * fromPitch + p - start - Last * toPitch)
    <3> HIDE DEF Row, Last
    <3> QED BY <1>0, <1>2, <2>5
  <2>9. fromStart + Last * fromPitch + p - start - Last * toPitch
          = fromStart + (y - top) * fromPitch + (x - left)
    <3> HIDE DEF Last, p
    <3>1. p - start - (y - top) * toPitch = x - left
      BY <1>0, <2>3
    <3> QED BY <1>0, <1>1, <2>2, <2>7, <3>1
  <2> HIDE DEF Last
  <2> QED BY <1>0, <2>8, <2>9
<1>5. ASSUME ~(y \in top .. top + rows - 1 /\ x \in left .. left + size - 1)
      PROVE  after[p] = to[p]
  <2>1. \A z \in Row : z \in 0 .. rows - 1
    OBVIOUS
  <2>2. Row = {}
    <3> HIDE DEF Row
    <3>1. \A z \in Row : z \in 0 .. rows - 1 /\ y = top + z /\ x \in left .. left + size - 1
      BY <1>0, <1>3, <2>1
    <3>2. \A z \in Row : y \in top .. top + rows - 1
      BY <1>0, <3>1
    <3> QED BY <1>0, <1>5, <3>1, <3>2
  <2> QED BY <1>0, <1>2, <2>2
<1> QED BY <1>0, <1>4, <1>5 DEF CopyResult

(* Arithmetic of rows and columns. *)
LEMMA FromOrigin ==
    ASSUME NEW n \in Nat, NEW k \in Nat, NEW y \in 0 .. n - 1, NEW x \in 0 .. k - 1
    PROVE  /\ 0 + k =< k /\ 0 = 0 * k + 0
           /\ y \in 0 .. 0 + n - 1 /\ x \in 0 .. 0 + k - 1 /\ 0 \in Nat
           /\ y - 0 = y /\ x - 0 = x
  OBVIOUS

LEMMA ShiftedRow ==
    ASSUME NEW a \in Int, NEW q \in Int, NEW n \in Int, NEW l \in Int, NEW m \in Int
    PROVE  (a + q) * n + (l + m) = (a * n + l) + (q * n + m) /\ q * n + m \in Int /\ a * n + l \in Int
<1>1. (a + q) * n = a * n + q * n /\ a * n \in Int /\ q * n \in Int
  OBVIOUS
<1> QED BY <1>1

LEMMA Division ==
    ASSUME NEW n \in Nat \ {0}, NEW z \in Nat
    PROVE  z \div n \in Int /\ z % n \in 0 .. n - 1 /\ z = (z \div n) * n + (z % n)
  OBVIOUS

LEMMA Shifted ==
    ASSUME NEW t \in Nat, NEW n \in Nat, NEW z, z \in t .. t + n - 1
    PROVE  z - t \in 0 .. n - 1 /\ z - t \in Nat
  OBVIOUS

(* A rectangle that begins at a block has as many blocks as lie between    *)
(* its ends.                                                               *)
LEMMA Strides ==
    ASSUME NEW b \in {1, 4}, NEW l \in Nat, NEW r \in Nat, NEW w \in Nat, l < r, r =< w, l % b = 0
    PROVE  /\ (l + b - 1) \div b \in Nat /\ (r + b - 1) \div b \in Nat /\ (w + b - 1) \div b \in Nat
           /\ (r - l + b - 1) \div b \in Nat
           /\ (l + b - 1) \div b + (r - l + b - 1) \div b = (r + b - 1) \div b
           /\ (r + b - 1) \div b =< (w + b - 1) \div b
<1>1. CASE b = 1
  BY <1>1
<1>2. CASE b = 4
  BY <1>2
<1> QED BY <1>1, <1>2

LEMMA CeilIsStride ==
    ASSUME NEW b \in {1, 4}, NEW n \in Nat
    PROVE  (IF n % b = 0 THEN n \div b ELSE n \div b + 1) = (n + b - 1) \div b
<1>1. CASE b = 1
  BY <1>1
<1>2. CASE b = 4
  BY <1>2
<1> QED BY <1>1, <1>2

LEMMA BlockSizes == \A f : getBlockSize(f) \in {1, 4}
  BY DEF getBlockSize

LEMMA BlocksAreStrides == \A n \in Nat : BlocksOf(n) = calcStride(n, format) /\ calcStride(n, format) \in Nat
<1> TAKE n \in Nat
<1>1. PICK b \in {1, 4} : b = getBlockSize(surface.format)
  BY BlockSizes
<1>2. (n + b - 1) \div b \in Nat
  <2>1. CASE b = 1
    BY <2>1
  <2>2. CASE b = 4
    BY <2>2
  <2> QED BY <2>1, <2>2
<1> QED BY <1>1, <1>2, CeilIsStride DEF BlocksOf, calcStride, format

LEMMA Extent ==
    ASSUME NEW l \in Nat, NEW r \in Nat, NEW w \in Nat, l < r, r =< w, l % getBlockSize(format) = 0
    PROVE  /\ BlocksOf(l) \in Nat /\ BlocksOf(r) \in Nat /\ BlocksOf(w) \in Nat
           /\ calcStride(r - l, format) \in Nat
           /\ BlocksOf(l) + calcStride(r - l, format) = BlocksOf(r)
           /\ BlocksOf(r) =< BlocksOf(w)
<1>1. PICK b \in {1, 4} : b = getBlockSize(format)
  BY BlockSizes
<1>2. BlocksOf(l) = (l + b - 1) \div b /\ BlocksOf(r) = (r + b - 1) \div b /\ BlocksOf(w) = (w + b - 1) \div b
  BY <1>1, BlocksAreStrides DEF calcStride
<1>3. calcStride(r - l, format) = (r - l + b - 1) \div b
  BY <1>1 DEF calcStride
<1>4. l % b = 0
  BY <1>1
<1>5. /\ (l + b - 1) \div b \in Nat /\ (r + b - 1) \div b \in Nat /\ (w + b - 1) \div b \in Nat
      /\ (r - l + b - 1) \div b \in Nat
      /\ (l + b - 1) \div b + (r - l + b - 1) \div b = (r + b - 1) \div b
      /\ (r + b - 1) \div b =< (w + b - 1) \div b
  BY <1>4, Strides, Zenon
<1> QED BY <1>2, <1>3, <1>5

LEMMA BytesOfFormat ==
    ASSUME surface \in Shapes
    PROVE  getBytesFromFormat(format) \in Nat
  BY ShapesAssumption DEF format

LEMMA Widths ==
    ASSUME NEW a \in Nat, NEW d \in Nat, NEW b \in Nat, NEW w \in Nat, NEW n \in Nat, a + d = b, b =< w
    PROVE  /\ a * n \in Nat /\ d * n \in Nat /\ b * n \in Nat /\ w * n \in Nat
           /\ a * n + d * n = b * n /\ b * n =< w * n
<1>1. b * n = a * n + d * n
  <2>1. (a + d) * n = a * n + d * n
    OBVIOUS
  <2> QED BY <2>1
<1>2. a * n \in Nat /\ d * n \in Nat
  OBVIOUS
<1> QED BY <1>1, <1>2, ProductGrows

------------------------------------------------------------------------------
(* Rectangles *)

(* What follows for a rectangle of the surface: it lies inside of the      *)
(* picture, its rows are the same to both processes.                       *)
RectFact(r) ==
    /\ Top(r) \in Nat /\ Left(r) \in Nat /\ RectRows(r) \in Nat /\ RectBytes(r) \in Nat
    /\ Top(r) + RectRows(r) =< Rows /\ Left(r) + RectBytes(r) =< RowBytes /\ RectBytes(r) >= 8
    /\ RectRows(r) >= 1
    /\ calcRowSize("Client", Width(r), format) = RectBytes(r)
    /\ calcRowSize("Server", Width(r), format) = RectBytes(r)
    /\ calcStride(Height(r), format) = RectRows(r)
    /\ CellsOf(r) = {c \in Cells : /\ c[1] \in Top(r) .. Top(r) + RectRows(r) - 1
                                   /\ c[2] \in Left(r) .. Left(r) + RectBytes(r) - 1}
    /\ calcTotalSizeOfRect("Client", Width(r), Height(r), format) = RectRows(r) * RectBytes(r)

LEMMA ByteOffset ==
    ASSUME NEW r, NEW pitch, surface \in Shapes, r \in surface.rects
    PROVE  calcImageByteOffset(pitch, r, format) = Top(r) * pitch + Left(r)
<1>1. r[1] \in Nat /\ r[2] \in Nat
  BY ShapesAssumption
<1>2. calcStride(r[1], format) = BlocksOf(r[1]) /\ calcStride(r[2], format) = BlocksOf(r[2]) /\ BlocksOf(r[1]) \in Nat
  BY <1>1, BlocksAreStrides
<1>3. getBytesFromFormat(format) * BlocksOf(r[1]) = BlocksOf(r[1]) * getBytesFromFormat(format)
  BY <1>2, BytesOfFormat
<1> QED BY <1>2, <1>3 DEF calcImageByteOffset, Top, Left

LEMMA RectFacts ==
    ASSUME WideRows, surface \in Shapes, NEW r \in surface.rects
    PROVE  RectFact(r)
<1>1. /\ r[1] \in Nat /\ r[2] \in Nat /\ r[3] \in Nat /\ r[4] \in Nat
      /\ r[1] < r[3] /\ r[3] <= surface.width /\ r[2] < r[4] /\ r[4] <= surface.height
      /\ r[1] % getBlockSize(format) = 0 /\ r[2] % getBlockSize(format) = 0
      /\ surface.width \in Nat /\ surface.height \in Nat
  BY ShapesAssumption DEF format
<1> DEFINE n == getBytesFromFormat(format)
           dx == calcStride(r[3] - r[1], format)
           dy == calcStride(r[4] - r[2], format)
<1>2. n \in Nat
  BY BytesOfFormat
<1>3. /\ BlocksOf(r[1]) \in Nat /\ BlocksOf(r[3]) \in Nat /\ BlocksOf(surface.width) \in Nat
      /\ dx \in Nat /\ BlocksOf(r[1]) + dx = BlocksOf(r[3]) /\ BlocksOf(r[3]) =< BlocksOf(surface.width)
  BY <1>1, Extent
<1>4. /\ BlocksOf(r[2]) \in Nat /\ BlocksOf(r[4]) \in Nat /\ BlocksOf(surface.height) \in Nat
      /\ dy \in Nat /\ BlocksOf(r[2]) + dy = BlocksOf(r[4]) /\ BlocksOf(r[4]) =< BlocksOf(surface.height)
  BY <1>1, Extent
<1>5. dx * n >= 8
  BY DEF WideRows, MinSurfacePitch, format
<1> HIDE DEF n, dx, dy
<1>6. /\ BlocksOf(r[1]) * n \in Nat /\ dx * n \in Nat /\ BlocksOf(r[3]) * n \in Nat /\ BlocksOf(surface.width) * n \in Nat
      /\ BlocksOf(r[1]) * n + dx * n = BlocksOf(r[3]) * n /\ BlocksOf(r[3]) * n =< BlocksOf(surface.width) * n
  BY <1>2, <1>3, Widths
<1>7. calcRowSize("Client", Width(r), format) = dx * n
  <2>1. calcRowSize("Client", Width(r), format) = Larger(4, dx * n)
    BY DEF calcRowSize, MinSurfacePitch, Width, dx, n
  <2> QED BY <1>5, <1>6, <2>1 DEF Larger
<1>8. calcRowSize("Server", Width(r), format) = dx * n
  <2>1. calcRowSize("Server", Width(r), format) = Larger(8, dx * n)
    BY DEF calcRowSize, MinSurfacePitch, Width, dx, n
  <2> QED BY <1>5, <1>6, <2>1 DEF Larger
<1>9. RectBytes(r) = dx * n /\ RectRows(r) = dy /\ Top(r) = BlocksOf(r[2]) /\ Left(r) = BlocksOf(r[1]) * n
  BY <1>7 DEF RectBytes, RectRows, Top, Left, Height, dy, n
<1>10. RectRows(r) >= 1
  <2>1. PICK b \in {1, 4} : b = getBlockSize(format)
    BY BlockSizes
  <2>2. dy = (r[4] - r[2] + b - 1) \div b
    BY <2>1 DEF calcStride, dy
  <2>3. r[4] - r[2] >= 1 /\ r[4] - r[2] \in Nat
    BY <1>1
  <2>4. CASE b = 1
    BY <1>9, <2>2, <2>3, <2>4
  <2>5. CASE b = 4
    BY <1>9, <2>2, <2>3, <2>5
  <2> QED BY <2>4, <2>5
<1>11. CellsOf(r) = {c \in Cells : /\ c[1] \in Top(r) .. Top(r) + RectRows(r) - 1
                                   /\ c[2] \in Left(r) .. Left(r) + RectBytes(r) - 1}
  <2>1. Top(r) + RectRows(r) - 1 = BlocksOf(r[4]) - 1 /\ Left(r) + RectBytes(r) - 1 = BlocksOf(r[3]) * n - 1
    BY <1>3, <1>4, <1>6, <1>9
  <2>2. CellsOf(r) = {c \in Cells : /\ c[1] \in BlocksOf(r[2]) .. (BlocksOf(r[4]) - 1)
                                    /\ c[2] \in (BlocksOf(r[1]) * n) .. (BlocksOf(r[3]) * n - 1)}
    BY DEF CellsOf, n
  <2> QED BY <1>9, <2>1, <2>2
<1>12. calcTotalSizeOfRect("Client", Width(r), Height(r), format) = RectRows(r) * RectBytes(r)
  BY DEF calcTotalSizeOfRect, RectRows, RectBytes
<1>13. Rows = BlocksOf(surface.height) /\ RowBytes = BlocksOf(surface.width) * n
  BY DEF Rows, RowBytes, n, format
<1>14. calcStride(Height(r), format) = RectRows(r)
  BY DEF RectRows
<1>15. /\ Top(r) \in Nat /\ Left(r) \in Nat /\ RectRows(r) \in Nat /\ RectBytes(r) \in Nat
       /\ Top(r) + RectRows(r) =< Rows /\ Left(r) + RectBytes(r) =< RowBytes /\ RectBytes(r) >= 8
  BY <1>3, <1>4, <1>5, <1>6, <1>9, <1>13
<1> QED BY <1>7, <1>8, <1>9, <1>10, <1>11, <1>12, <1>14, <1>15 DEF RectFact

(* And for the surface itself. *)
WholeFact ==
    /\ Whole \in surface.rects
    /\ Rows \in Nat /\ RowBytes \in Nat /\ ServerPitch \in Nat
    /\ Rows >= 1 /\ RowBytes >= 8 /\ Pitch = RowBytes /\ ServerPitch >= RowBytes
    /\ SurfaceSize = Rows * RowBytes
    /\ calcRowSize("Client", surface.width, format) = RowBytes
    /\ calcRowSize("Server", surface.width, format) = RowBytes
    /\ calcTotalSizeOfRect("Server", surface.width, surface.height, format) = Rows * RowBytes
    /\ calcStride(surface.height, format) = Rows
    /\ CellsOf(Whole) = Cells
    /\ Top(Whole) = 0 /\ Left(Whole) = 0 /\ RectRows(Whole) = Rows /\ RectBytes(Whole) = RowBytes

LEMMA WholeFacts ==
    ASSUME WideRows, surface \in Shapes
    PROVE  WholeFact
<1>1. Whole \in surface.rects
  BY ShapesAssumption DEF Whole
<1>2. RectFact(Whole)
  BY <1>1, RectFacts
<1>3. Width(Whole) = surface.width /\ Height(Whole) = surface.height
  <2>1. surface.width \in Nat /\ surface.height \in Nat
    BY ShapesAssumption
  <2> QED BY <2>1 DEF Width, Height, Whole
<1>4. surface.width \in Nat /\ surface.height \in Nat
  BY ShapesAssumption
<1>5. Rows = calcStride(surface.height, format) /\ BlocksOf(surface.width) = calcStride(surface.width, format)
      /\ Rows \in Nat /\ BlocksOf(surface.width) \in Nat
  BY <1>4, BlocksAreStrides DEF Rows
<1>6. RowBytes \in Nat
  <2>1. RowBytes = BlocksOf(surface.width) * getBytesFromFormat(format)
    BY DEF RowBytes, format
  <2> QED BY <1>5, <2>1, BytesOfFormat
<1>7. Top(Whole) = 0 /\ Left(Whole) = 0
  <2>1. BlocksOf(0) = 0
    <3>1. PICK b \in {1, 4} : b = getBlockSize(surface.format)
      BY BlockSizes
    <3>2. CASE b = 1
      BY <3>1, <3>2 DEF BlocksOf
    <3>3. CASE b = 4
      BY <3>1, <3>3 DEF BlocksOf
    <3> QED BY <3>2, <3>3
  <2>2. Whole[1] = 0 /\ Whole[2] = 0
    BY DEF Whole
  <2> QED BY <2>1, <2>2, BytesOfFormat DEF Top, Left
<1>8. RectRows(Whole) = Rows
  BY <1>3, <1>5 DEF RectRows
<1>9. RectBytes(Whole) = RowBytes
  <2>1. calcRowSize("Client", surface.width, format) = Larger(4, RowBytes)
    BY <1>5 DEF calcRowSize, MinSurfacePitch, RowBytes, format
  <2>2. RowBytes =< Larger(4, RowBytes)
    BY <1>6 DEF Larger
  <2>3. RectBytes(Whole) = Larger(4, RowBytes)
    BY <1>3, <2>1 DEF RectBytes
  <2> QED BY <1>2, <1>6, <1>7, <2>2, <2>3 DEF RectFact
<1>10. ServerPitch \in Nat /\ ServerPitch >= RowBytes
  BY <1>6 DEF ServerPitch
<1>11. Pitch = RowBytes
  BY <1>3, <1>9 DEF Pitch, RectBytes
<1>12. CellsOf(Whole) = Cells
  <2>1. CellsOf(Whole) = {c \in Cells : c[1] \in 0 .. 0 + Rows - 1 /\ c[2] \in 0 .. 0 + RowBytes - 1}
    BY <1>2, <1>7, <1>8, <1>9 DEF RectFact
  <2>2. \A c \in Cells : c[1] \in 0 .. 0 + Rows - 1 /\ c[2] \in 0 .. 0 + RowBytes - 1
    BY <1>5, <1>6 DEF Cells
  <2> QED BY <2>1, <2>2
<1>13. SurfaceSize = Rows * RowBytes
  BY <1>3, <1>2, <1>8, <1>9 DEF SurfaceSize, RectFact
<1>14. calcRowSize("Server", surface.width, format) = RowBytes
  BY <1>2, <1>3, <1>9 DEF RectFact
<1>15. calcTotalSizeOfRect("Server", surface.width, surface.height, format) = Rows * RowBytes
  BY <1>5, <1>14 DEF calcTotalSizeOfRect
<1>16. calcRowSize("Client", surface.width, format) = RowBytes
  BY <1>11 DEF Pitch
<1>17. Rows >= 1 /\ RowBytes >= 8
  BY <1>2, <1>8, <1>9 DEF RectFact
<1> QED
  BY <1>1, <1>5, <1>6, <1>7, <1>8, <1>9, <1>10, <1>11, <1>12, <1>13, <1>14, <1>15, <1>16, <1>17 DEF WholeFact

(* The cells of a rectangle are the places of its rows and columns. *)
LEMMA CellFacts ==
    ASSUME WideRows, surface \in Shapes, NEW c \in Cells
    PROVE  /\ c[1] \in 0 .. Rows - 1 /\ c[2] \in 0 .. RowBytes - 1 /\ c = <<c[1], c[2]>>
           /\ c[1] \in Nat /\ c[2] \in Nat /\ c[2] \in 0 .. ServerPitch - 1
           /\ At(RowBytes, c) \in 0 .. Rows * RowBytes - 1
           /\ At(ServerPitch, c) \in 0 .. Rows * ServerPitch - 1
<1>1. WholeFact
  BY WholeFacts
<1>2. c[1] \in 0 .. Rows - 1 /\ c[2] \in 0 .. RowBytes - 1 /\ c = <<c[1], c[2]>>
  BY DEF Cells
<1>3. Rows \in Nat /\ RowBytes \in Nat /\ ServerPitch \in Nat /\ ServerPitch >= RowBytes
  BY <1>1 DEF WholeFact
<1>4. c[2] \in 0 .. ServerPitch - 1
  BY <1>2, <1>3
<1>5. At(RowBytes, c) \in 0 .. Rows * RowBytes - 1
  BY <1>2, <1>3, RowInside DEF At
<1>6. At(ServerPitch, c) \in 0 .. Rows * ServerPitch - 1
  BY <1>2, <1>3, <1>4, RowInside DEF At
<1> QED BY <1>2, <1>3, <1>4, <1>5, <1>6

LEMMA ByteInside ==
    ASSUME NEW n \in Nat, NEW from \in ByteArray(n), NEW p \in 0 .. n - 1
    PROVE  ByteAt(from, p) = from[p]
  BY DEF ByteAt, ByteArray

(* A rectangle is copied between two pictures, or from its rows alone.     *)
LEMMA RectCopied ==
    ASSUME WideRows, surface \in Shapes, NEW r \in surface.rects, NEW c \in Cells,
           NEW pitch \in Nat, pitch >= RowBytes, NEW to \in ByteArray(Rows * pitch),
           NEW from, NEW fromStart \in Int, NEW fromPitch \in Int,
           NEW after, after = RowsCopied(to, calcImageByteOffset(pitch, r, format), pitch, from, fromStart, fromPitch,
                                         RectRows(r), RectBytes(r))
    PROVE  /\ c \in CellsOf(r) =>
                after[At(pitch, c)] = ByteAt(from, fromStart + (c[1] - Top(r)) * fromPitch + (c[2] - Left(r)))
           /\ c \notin CellsOf(r) => after[At(pitch, c)] = to[At(pitch, c)]
<1>1. RectFact(r) /\ WholeFact
  BY RectFacts, WholeFacts
<1>2. calcImageByteOffset(pitch, r, format) = Top(r) * pitch + Left(r)
  BY ByteOffset
<1>3. /\ Top(r) \in Nat /\ Left(r) \in Nat /\ RectRows(r) \in Nat /\ RectBytes(r) \in Nat
      /\ Left(r) + RectBytes(r) =< RowBytes /\ RowBytes \in Nat /\ Rows \in Nat
  BY <1>1 DEF RectFact, WholeFact
<1>4. c[1] \in Nat /\ c[2] \in 0 .. pitch - 1 /\ c[1] \in 0 .. Rows - 1
  BY <1>3, CellFacts
<1>5. c[1] * pitch + c[2] \in 0 .. Rows * pitch - 1
  BY <1>3, <1>4, RowInside
<1>6. PICK start : start = Top(r) * pitch + Left(r)
  OBVIOUS
<1>7. after = RowsCopied(to, start, pitch, from, fromStart, fromPitch, RectRows(r), RectBytes(r))
  BY <1>2, <1>6
<1>8. Left(r) + RectBytes(r) =< pitch /\ Rows * pitch \in Nat
  BY <1>3
<1>9. /\ c[1] \in Top(r) .. Top(r) + RectRows(r) - 1 /\ c[2] \in Left(r) .. Left(r) + RectBytes(r) - 1 =>
           after[c[1] * pitch + c[2]] = ByteAt(from, fromStart + (c[1] - Top(r)) * fromPitch + (c[2] - Left(r)))
      /\ ~(c[1] \in Top(r) .. Top(r) + RectRows(r) - 1 /\ c[2] \in Left(r) .. Left(r) + RectBytes(r) - 1) =>
           after[c[1] * pitch + c[2]] = to[c[1] * pitch + c[2]]
  <2>1. CopyArgs(Rows * pitch, to, pitch, from, fromStart, fromPitch, Top(r), Left(r), RectRows(r), RectBytes(r),
                 c[1], c[2], after)
    BY <1>3, <1>4, <1>5, <1>6, <1>7, <1>8 DEF CopyArgs
  <2>2. CopyResult(Rows * pitch, to, pitch, from, fromStart, fromPitch, Top(r), Left(r), RectRows(r), RectBytes(r),
                 c[1], c[2], after)
    BY <2>1, CellCopied, Zenon
  <2> QED BY <2>2 DEF CopyResult
<1>10. c \in CellsOf(r) <=>
         c[1] \in Top(r) .. Top(r) + RectRows(r) - 1 /\ c[2] \in Left(r) .. Left(r) + RectBytes(r) - 1
  BY <1>1 DEF RectFact
<1> QED BY <1>9, <1>10, Zenon DEF At

LEMMA SameRows ==
    ASSUME WideRows, surface \in Shapes, NEW r \in surface.rects, NEW c \in CellsOf(r),
           NEW pitch \in Nat
    PROVE  calcImageByteOffset(pitch, r, format) + (c[1] - Top(r)) * pitch + (c[2] - Left(r)) = At(pitch, c)
<1>1. Top(r) \in Nat /\ Left(r) \in Nat
  BY RectFacts DEF RectFact
<1>2. c[1] \in Nat /\ c[2] \in Nat
  BY CellFacts DEF CellsOf
<1>3. PICK d \in Int : d = c[1] - Top(r)
  BY <1>1, <1>2
<1>4. c[1] = Top(r) + d
  BY <1>1, <1>2, <1>3
<1>5. (Top(r) + d) * pitch = Top(r) * pitch + d * pitch /\ Top(r) * pitch \in Int /\ d * pitch \in Int
  BY <1>1
<1>6. c[1] * pitch = Top(r) * pitch + d * pitch
  BY <1>4, <1>5
<1>7. calcImageByteOffset(pitch, r, format) = Top(r) * pitch + Left(r)
  BY ByteOffset
<1>8. (c[1] - Top(r)) * pitch = d * pitch
  BY <1>3
<1>9. PICK a \in Int, b \in Int : a = Top(r) * pitch /\ b = d * pitch
  BY <1>5
<1>10. At(pitch, c) = a + b + c[2]
  BY <1>6, <1>9 DEF At
<1> QED BY <1>1, <1>2, <1>7, <1>8, <1>9, <1>10

(* The rows of a rectangle, and rows of their own size, are inside of the  *)
(* memory they are in.                                                     *)
LEMMA RectInside ==
    ASSUME WideRows, surface \in Shapes, NEW r \in surface.rects,
           NEW pitch \in Nat, pitch >= RowBytes, NEW copies \in ByteArray(Rows * pitch)
    PROVE  ~LeavesMemory(copies, calcImageByteOffset(pitch, r, format), pitch, RectRows(r), RectBytes(r))
<1>1. /\ Top(r) \in Nat /\ Left(r) \in Nat /\ RectRows(r) \in Nat /\ RectBytes(r) \in Nat
      /\ Left(r) + RectBytes(r) =< RowBytes /\ Top(r) + RectRows(r) =< Rows /\ RectBytes(r) >= 8
      /\ RowBytes \in Nat /\ Rows \in Nat
  BY RectFacts, WholeFacts DEF RectFact, WholeFact
<1>2. ASSUME NEW y \in 0 .. RectRows(r) - 1
      PROVE  calcImageByteOffset(pitch, r, format) + y * pitch + RectBytes(r) - 1 \in DOMAIN copies
  <2>1. Top(r) + y \in 0 .. Rows - 1 /\ Left(r) + RectBytes(r) - 1 \in 0 .. pitch - 1
    BY <1>1
  <2>2. (Top(r) + y) * pitch + (Left(r) + RectBytes(r) - 1) \in 0 .. Rows * pitch - 1
    BY <1>1, <2>1, RowInside
  <2>3. (Top(r) + y) * pitch = Top(r) * pitch + y * pitch /\ Top(r) * pitch \in Int /\ y * pitch \in Int
    BY <1>1
  <2>4. calcImageByteOffset(pitch, r, format) + y * pitch + RectBytes(r) - 1
          = (Top(r) + y) * pitch + (Left(r) + RectBytes(r) - 1)
    BY <1>1, <2>3, ByteOffset
  <2> QED BY <2>2, <2>4 DEF ByteArray
<1> QED BY <1>2 DEF LeavesMemory

LEMMA RowsInside ==
    ASSUME NEW rows \in Nat, NEW size \in Nat, size >= 1, NEW copies \in ByteArray(rows * size)
    PROVE  ~LeavesMemory(copies, 0, size, rows, size)
<1>1. ASSUME NEW y \in 0 .. rows - 1
      PROVE  0 + y * size + size - 1 \in DOMAIN copies
  <2>1. y * size + (size - 1) \in 0 .. rows * size - 1
    BY RowInside
  <2>2. y * size \in Int
    OBVIOUS
  <2>3. 0 + y * size + size - 1 = y * size + (size - 1)
    BY <2>2
  <2> QED BY <2>1, <2>3 DEF ByteArray
<1> QED BY <1>1 DEF LeavesMemory

(* A buffer nobody has written. *)
LEMMA BlankType ==
    ASSUME NEW n \in Nat
    PROVE  Blank(n) \in ByteArray(n)
<1>1. Undefined \in Byte
  BY DEF Undefined, Byte
<1> QED BY <1>1 DEF Blank, ByteArray

(* The buffers a lock finds or makes. *)
LEMMA LockedBuffers ==
    ASSUME WideRows, ImageType, NEW flags
    PROVE  /\ BuffersFor(flags) \in Seq(ByteArray(SurfaceSize))
           /\ Len(buffers) \in Nat /\ Len(BuffersFor(flags)) \in Nat
           /\ BufferFor(flags) \in 1 .. Len(BuffersFor(flags))
           /\ Len(buffers) =< Len(BuffersFor(flags))
           /\ \A i \in 1 .. Len(buffers) : BuffersFor(flags)[i] = buffers[i]
           /\ m_bufferId # 0 /\ ~useSharedHeap => BuffersFor(flags) = buffers /\ BufferFor(flags) = m_bufferId
           /\ m_bufferId # 0 /\ flags # "DISCARD" => BuffersFor(flags) = buffers /\ BufferFor(flags) = m_bufferId
<1>1. SurfaceSize \in Nat
  BY WholeFacts DEF ImageType, WholeFact
<1>2. Blank(SurfaceSize) \in ByteArray(SurfaceSize)
  BY <1>1, BlankType
<1>3. buffers \in Seq(ByteArray(SurfaceSize)) /\ m_bufferId \in 0 .. Len(buffers) /\ Len(buffers) \in Nat
  BY LenProperties DEF ImageType
<1>4. CASE NeedsBuffer(flags)
  <2>1. BuffersFor(flags) = Append(buffers, Blank(SurfaceSize)) /\ BufferFor(flags) = Len(buffers) + 1
    BY <1>4 DEF BuffersFor, BufferFor
  <2>2. /\ Append(buffers, Blank(SurfaceSize)) \in Seq(ByteArray(SurfaceSize))
        /\ Len(Append(buffers, Blank(SurfaceSize))) = Len(buffers) + 1
        /\ \A i \in 1 .. Len(buffers) : Append(buffers, Blank(SurfaceSize))[i] = buffers[i]
    BY <1>2, <1>3, AppendProperties
  <2>3. ~(m_bufferId # 0 /\ ~useSharedHeap) /\ ~(m_bufferId # 0 /\ flags # "DISCARD")
    BY <1>4 DEF NeedsBuffer
  <2> QED BY <1>3, <2>1, <2>2, <2>3
<1>5. CASE ~NeedsBuffer(flags)
  <2>1. BuffersFor(flags) = buffers /\ BufferFor(flags) = m_bufferId /\ m_bufferId # 0
    BY <1>5 DEF BuffersFor, BufferFor, NeedsBuffer
  <2> QED BY <1>3, <2>1
<1> QED BY <1>4, <1>5

(* What the client sends of a lock: the bytes of the rectangle as they are *)
(* when it unlocks.                                                        *)
Carries(m, lock, copies) ==
    /\ m \in ImageCommands
    /\ m.cmd = "UnlockRect" /\ m.rect = lock.rect /\ m.flags = lock.flags /\ m.bufId = lock.bufId
    /\ m.pitch = IF useSharedHeap THEN Pitch ELSE RectBytes(m.rect)
    /\ ~useSharedHeap =>
         /\ m.blob \in ByteArray(RectRows(m.rect) * RectBytes(m.rect))
         /\ \A c \in CellsOf(m.rect) :
              m.blob[(c[1] - Top(m.rect)) * RectBytes(m.rect) + (c[2] - Left(m.rect))]
                = copies[lock.bufId][At(Pitch, c)]

LEMMA UnlockRectSends ==
    ASSUME WideRows, surface \in Shapes, useSharedHeap \in BOOLEAN, NEW copies \in Seq(ByteArray(SurfaceSize)),
           NEW lock \in Locks, lock.bufId \in 1 .. Len(copies)
    PROVE  Carries(UnlockCommand(lock, copies), lock, copies)
<1>0. PICK m : m = UnlockCommand(lock, copies)
  OBVIOUS
<1> DEFINE r == lock.rect
           total == RectRows(r) * RectBytes(r)
           start == calcImageByteOffset(Pitch, r, format)
           blob == RowsCopied(Blank(total), 0, RectBytes(r), copies[lock.bufId], start, Pitch,
                              RectRows(r), RectBytes(r))
<1>1. r \in surface.rects /\ lock.flags \in Flags /\ lock.bufId \in Nat
  BY DEF Locks
<1>2. RectFact(r) /\ WholeFact
  BY <1>1, RectFacts, WholeFacts
<1>3. m = [cmd |-> "UnlockRect", rect |-> r, flags |-> lock.flags, bufId |-> lock.bufId,
           pitch |-> IF useSharedHeap THEN Pitch ELSE RectBytes(r),
           blob |-> IF useSharedHeap THEN <<>> ELSE blob,
           write |-> 0]
  <2>1. /\ calcRowSize("Client", Width(r), format) = RectBytes(r)
        /\ calcTotalSizeOfRect("Client", Width(r), Height(r), format) = total
        /\ calcStride(Height(r), format) = RectRows(r)
    BY <1>2 DEF RectFact
  <2> QED BY <1>0, <2>1 DEF UnlockCommand
<1>4. total \in Nat /\ SurfaceSize = Rows * Pitch /\ SurfaceSize \in Nat /\ Pitch \in Nat /\ RectBytes(r) \in Nat
  BY <1>2 DEF RectFact, WholeFact
<1>5. copies[lock.bufId] \in ByteArray(SurfaceSize)
  BY ElementOfSeq
<1>6. blob \in ByteArray(total)
  BY <1>4, <1>5, BlankType, RowsCopiedType
<1>7. ASSUME NEW c \in CellsOf(r)
      PROVE  blob[(c[1] - Top(r)) * RectBytes(r) + (c[2] - Left(r))] = copies[lock.bufId][At(Pitch, c)]
  <2> DEFINE y == c[1] - Top(r)
             x == c[2] - Left(r)
  <2>1. /\ Top(r) \in Nat /\ Left(r) \in Nat /\ RectRows(r) \in Nat
        /\ c \in Cells /\ c[1] \in Top(r) .. Top(r) + RectRows(r) - 1
        /\ c[2] \in Left(r) .. Left(r) + RectBytes(r) - 1
        /\ c[1] \in Int /\ c[2] \in Int
    BY <1>2 DEF RectFact
  <2>2. y \in 0 .. RectRows(r) - 1 /\ x \in 0 .. RectBytes(r) - 1 /\ y \in Nat
    BY <1>4, <2>1, Shifted, Zenon
  <2>3. y * RectBytes(r) + x \in 0 .. total - 1
    BY <1>4, <2>1, <2>2, RowInside
  <2>4. start + y * Pitch + x = At(Pitch, c)
    BY <1>1, <1>4, SameRows
  <2>5. start \in Int
    <3>1. start = Top(r) * Pitch + Left(r)
      BY <1>1, ByteOffset
    <3> HIDE DEF start
    <3> QED BY <1>4, <2>1, <3>1
  <2>6. At(Pitch, c) \in 0 .. SurfaceSize - 1
    BY <1>2, <2>1, CellFacts DEF WholeFact
  <2> HIDE DEF y, x, start
  <2>7. Blank(total) \in ByteArray(total)
    BY <1>4, BlankType
  <2>8. blob[y * RectBytes(r) + x] = ByteAt(copies[lock.bufId], start + (y - 0) * Pitch + (x - 0))
    <3> HIDE DEF total
    <3>1. /\ 0 + RectBytes(r) =< RectBytes(r) /\ 0 = 0 * RectBytes(r) + 0
          /\ y \in 0 .. 0 + RectRows(r) - 1 /\ x \in 0 .. 0 + RectBytes(r) - 1 /\ 0 \in Nat
          /\ y - 0 = y /\ x - 0 = x
      <4>1. PICK n, k \in Nat : n = RectRows(r) /\ k = RectBytes(r)
        BY <1>4, <2>1
      <4>2. y \in 0 .. n - 1 /\ x \in 0 .. k - 1
        BY <2>2, <4>1
      <4>3. /\ 0 + k =< k /\ 0 = 0 * k + 0
            /\ y \in 0 .. 0 + n - 1 /\ x \in 0 .. 0 + k - 1 /\ 0 \in Nat
            /\ y - 0 = y /\ x - 0 = x
        BY <4>2, FromOrigin, Zenon
      <4> QED BY <4>1, <4>3
    <3>2. blob = RowsCopied(Blank(total), 0, RectBytes(r), copies[lock.bufId], start, Pitch,
                              RectRows(r), RectBytes(r))
      OBVIOUS
    <3> HIDE DEF blob, total
    <3>3. CopyArgs(total, Blank(total), RectBytes(r), copies[lock.bufId], start, Pitch, 0, 0,
                   RectRows(r), RectBytes(r), y, x, blob)
      BY <1>4, <2>1, <2>2, <2>3, <2>5, <2>7, <3>1, <3>2 DEF CopyArgs
    <3>4. CopyResult(total, Blank(total), RectBytes(r), copies[lock.bufId], start, Pitch, 0, 0,
                   RectRows(r), RectBytes(r), y, x, blob)
      BY <3>3, CellCopied, Zenon
    <3> QED BY <3>1, <3>4 DEF CopyResult
  <2>9. y - 0 = y /\ x - 0 = x
    BY <2>2
  <2>10. blob[y * RectBytes(r) + x] = ByteAt(copies[lock.bufId], At(Pitch, c))
    BY <2>4, <2>8, <2>9
  <2>11. ByteAt(copies[lock.bufId], At(Pitch, c)) = copies[lock.bufId][At(Pitch, c)]
    BY <1>4, <1>5, <2>6, ByteInside
  <2> QED BY <2>10, <2>11 DEF y, x
<1> HIDE DEF blob, start
<1>8. m \in ImageCommands
  <2>1. (IF useSharedHeap THEN <<>> ELSE blob) \in {<<>>} \cup UNION {ByteArray(n) : n \in Nat}
    BY <1>4, <1>6
  <2>2. (IF useSharedHeap THEN Pitch ELSE RectBytes(r)) \in Nat
    BY <1>4
  <2> HIDE DEF total
  <2> QED BY <1>1, <1>3, <2>1, <2>2 DEF ImageCommands
<1>9. /\ m.cmd = "UnlockRect" /\ m.rect = r /\ m.flags = lock.flags /\ m.bufId = lock.bufId
      /\ m.pitch = (IF useSharedHeap THEN Pitch ELSE RectBytes(r))
      /\ m.blob = (IF useSharedHeap THEN <<>> ELSE blob)
  BY <1>3
<1> HIDE DEF total
<1>10. m.pitch = IF useSharedHeap THEN Pitch ELSE RectBytes(m.rect)
  BY <1>9
<1>11. ASSUME ~useSharedHeap
       PROVE  /\ m.blob \in ByteArray(RectRows(m.rect) * RectBytes(m.rect))
              /\ \A c \in CellsOf(m.rect) :
                     m.blob[(c[1] - Top(m.rect)) * RectBytes(m.rect) + (c[2] - Left(m.rect))]
                       = copies[lock.bufId][At(Pitch, c)]
  <2>1. m.blob = blob
    BY <1>9, <1>11
  <2> QED BY <1>6, <1>7, <1>9, <2>1 DEF total
<1>12. Carries(m, lock, copies)
  BY <1>8, <1>9, <1>10, <1>11 DEF Carries
<1> QED BY <1>0, <1>12

(* The server's answer becomes the client's buffer. *)
LEMMA WholeCopied ==
    ASSUME WideRows, surface \in Shapes, NEW c \in Cells,
           NEW pitch \in Nat, pitch >= RowBytes, NEW to \in ByteArray(Rows * pitch),
           NEW from, NEW fromPitch \in Int,
           NEW after, after = RowsCopied(to, 0, pitch, from, 0, fromPitch, Rows, RowBytes)
    PROVE  after[At(pitch, c)] = ByteAt(from, At(fromPitch, c))
<1>1. WholeFact
  BY WholeFacts
<1>2. calcImageByteOffset(pitch, Whole, format) = 0
  <2>1. calcImageByteOffset(pitch, Whole, format) = Top(Whole) * pitch + Left(Whole)
    BY <1>1, ByteOffset DEF WholeFact
  <2> QED BY <1>1, <2>1 DEF WholeFact
<1>3. Whole \in surface.rects /\ c \in CellsOf(Whole) /\ Top(Whole) = 0 /\ Left(Whole) = 0
      /\ RectRows(Whole) = Rows /\ RectBytes(Whole) = RowBytes
  BY <1>1 DEF WholeFact
<1>4. after = RowsCopied(to, calcImageByteOffset(pitch, Whole, format), pitch, from, 0, fromPitch,
                         RectRows(Whole), RectBytes(Whole))
  BY <1>2, <1>3
<1>5. after[At(pitch, c)] = ByteAt(from, 0 + (c[1] - Top(Whole)) * fromPitch + (c[2] - Left(Whole)))
  <2>1. 0 \in Int
    OBVIOUS
  <2> QED BY <1>3, <1>4, <2>1, RectCopied
<1>6. 0 + (c[1] - Top(Whole)) * fromPitch + (c[2] - Left(Whole)) = At(fromPitch, c)
  <2>1. c[1] \in Nat /\ c[2] \in Nat
    BY CellFacts
  <2>2. c[1] - Top(Whole) = c[1] /\ c[2] - Left(Whole) = c[2]
    BY <1>3, <2>1
  <2>3. c[1] * fromPitch \in Int
    BY <2>1
  <2> QED BY <2>1, <2>2, <2>3 DEF At
<1> QED BY <1>5, <1>6

------------------------------------------------------------------------------
(* Commands under way *)

(* The surface stays what it is, and so does what depends on it alone.     *)
LEMMA SameSurface ==
    ASSUME constantsOfSurface' = constantsOfSurface
    PROVE  /\ surface' = surface /\ useSharedHeap' = useSharedHeap /\ captured' = captured
           /\ Rows' = Rows /\ RowBytes' = RowBytes /\ Cells' = Cells /\ Pitch' = Pitch /\ ServerPitch' = ServerPitch
           /\ SurfaceSize' = SurfaceSize /\ Whole' = Whole /\ format' = format
           /\ Locks' = Locks /\ ImageCommands' = ImageCommands
           /\ \A r : /\ CellsOf(r)' = CellsOf(r) /\ Top(r)' = Top(r) /\ Left(r)' = Left(r)
                     /\ RectRows(r)' = RectRows(r) /\ RectBytes(r)' = RectBytes(r)
<1>1. surface' = surface /\ useSharedHeap' = useSharedHeap /\ captured' = captured
  BY DEF constantsOfSurface
<1>2. format' = format
  BY <1>1 DEF format
<1>3. \A n : BlocksOf(n)' = BlocksOf(n)
  BY <1>1 DEF BlocksOf
<1>4. Rows' = Rows
  BY <1>1, <1>3 DEF Rows
<1>5. RowBytes' = RowBytes
  BY <1>1, <1>3 DEF RowBytes
<1>6. Cells' = Cells
  BY <1>4, <1>5 DEF Cells
<1>7. Pitch' = Pitch
  BY <1>1, <1>2 DEF Pitch
<1>8. ServerPitch' = ServerPitch
  BY <1>5 DEF ServerPitch
<1>9. SurfaceSize' = SurfaceSize
  BY <1>1, <1>2 DEF SurfaceSize
<1>10. Whole' = Whole
  BY <1>1 DEF Whole
<1>11. Locks' = Locks /\ ImageCommands' = ImageCommands
  BY <1>1 DEF Locks, ImageCommands
<1>12. \A r : CellsOf(r)' = CellsOf(r)
  BY <1>2, <1>3, <1>6 DEF CellsOf
<1>13. \A r : Top(r)' = Top(r) /\ Left(r)' = Left(r)
  BY <1>2, <1>3 DEF Top, Left
<1>14. \A r : RectRows(r)' = RectRows(r) /\ RectBytes(r)' = RectBytes(r)
  BY <1>2 DEF RectRows, RectBytes
<1> QED
  BY <1>1, <1>2, <1>4, <1>5, <1>6, <1>7, <1>8, <1>9, <1>10, <1>11, <1>12, <1>13, <1>14, Zenon

(* A command covers the same cells after a step, and shows the same in     *)
(* them when the bytes it refers to stay.                                  *)
LEMMA SameCovers ==
    ASSUME constantsOfSurface' = constantsOfSurface
    PROVE  \A m, c : Covers(m, c)' <=> Covers(m, c)
  BY SameSurface DEF Covers

LEMMA SameShows ==
    ASSUME constantsOfSurface' = constantsOfSurface, NEW m, NEW c, NEW write,
           m.cmd = "UnlockRect" /\ useSharedHeap =>
               buffers'[m.bufId][At(Pitch, c)] = buffers[m.bufId][At(Pitch, c)]
    PROVE  Shows(m, c, write)' <=> Shows(m, c, write)
<1>1. /\ useSharedHeap' = useSharedHeap /\ Pitch' = Pitch /\ RectBytes(m.rect)' = RectBytes(m.rect)
      /\ Top(m.rect)' = Top(m.rect) /\ Left(m.rect)' = Left(m.rect)
  BY SameSurface
<1> QED BY <1>1 DEF Shows, Seen

(* Nothing is sent; one more command is sent; the server has served the    *)
(* first.                                                                  *)
LEMMA StaysSettled ==
    ASSUME constantsOfSurface' = constantsOfSurface, NEW chain, Len(chain) \in Nat, NEW c, NEW write,
           image'[At(ServerPitch, c)] = image[At(ServerPitch, c)], Settled(chain, c, write),
           \A i \in 1 .. Len(chain) : Shows(chain[i], c, write) => Shows(chain[i], c, write)'
    PROVE  Settled(chain, c, write)'
<1>1. ServerPitch' = ServerPitch
  BY SameSurface
<1>2. \A m : Covers(m, c)' <=> Covers(m, c)
  BY SameCovers
<1>3. Seen(image, ServerPitch, c, write)' <=> Seen(image, ServerPitch, c, write)
  BY <1>1 DEF Seen
<1>4. PICK n \in Nat : n = Len(chain)
  OBVIOUS
<1>5. /\ \A i \in 1 .. n : Covers(chain[i], c) /\ (\A j \in i + 1 .. n : ~Covers(chain[j], c))
                           => Shows(chain[i], c, write)
      /\ (\A i \in 1 .. n : ~Covers(chain[i], c)) => Seen(image, ServerPitch, c, write)
  BY <1>4 DEF Settled
<1>6. /\ \A i \in 1 .. n : Covers(chain[i], c)' /\ (\A j \in i + 1 .. n : ~Covers(chain[j], c)')
                           => Shows(chain[i], c, write)'
      /\ (\A i \in 1 .. n : ~Covers(chain[i], c)') => Seen(image, ServerPitch, c, write)'
  BY <1>2, <1>3, <1>4, <1>5
<1> QED BY <1>4, <1>6 DEF Settled

LEMMA AppendSettled ==
    ASSUME constantsOfSurface' = constantsOfSurface, NEW chain, NEW longer, NEW m, NEW n \in Nat,
           Len(chain) = n, Len(longer) = n + 1, longer[n + 1] = m, \A i \in 1 .. n : longer[i] = chain[i],
           NEW c, NEW write,
           Covers(m, c) => Shows(m, c, write)',
           ~Covers(m, c) =>
               /\ image'[At(ServerPitch, c)] = image[At(ServerPitch, c)]
               /\ Settled(chain, c, write)
               /\ \A i \in 1 .. n : Shows(chain[i], c, write) => Shows(chain[i], c, write)'
    PROVE  Settled(longer, c, write)'
<1>1. ServerPitch' = ServerPitch
  BY SameSurface
<1>2. \A d : Covers(d, c)' <=> Covers(d, c)
  BY SameCovers
<1>3. ASSUME NEW i \in 1 .. n + 1, Covers(longer[i], c), \A j \in i + 1 .. n + 1 : ~Covers(longer[j], c)
      PROVE  Shows(longer[i], c, write)'
  <2>1. CASE i = n + 1
    BY <1>3, <2>1
  <2>2. CASE i # n + 1
    <3>1. i \in 1 .. n /\ n + 1 \in i + 1 .. n + 1
      BY <2>2
    <3>2. ~Covers(m, c)
      BY <1>3, <3>1
    <3>3. Covers(chain[i], c) /\ longer[i] = chain[i]
      BY <1>3, <3>1
    <3>4. \A j \in i + 1 .. n : ~Covers(chain[j], c)
      BY <1>3, <3>1
    <3>5. Shows(chain[i], c, write)
      BY <3>1, <3>2, <3>3, <3>4 DEF Settled
    <3> QED BY <3>1, <3>2, <3>3, <3>5
  <2> QED BY <2>1, <2>2
<1>4. ASSUME \A i \in 1 .. n + 1 : ~Covers(longer[i], c)
      PROVE  Seen(image, ServerPitch, c, write)'
  <2>1. ~Covers(m, c)
    BY <1>4
  <2>2. \A i \in 1 .. n : ~Covers(chain[i], c)
    BY <1>4
  <2>3. Seen(image, ServerPitch, c, write)
    BY <2>1, <2>2 DEF Settled
  <2> QED BY <1>1, <2>1, <2>3 DEF Seen
<1>5. /\ \A i \in 1 .. n + 1 : Covers(longer[i], c)' /\ (\A j \in i + 1 .. n + 1 : ~Covers(longer[j], c)')
                           => Shows(longer[i], c, write)'
      /\ (\A i \in 1 .. n + 1 : ~Covers(longer[i], c)') => Seen(image, ServerPitch, c, write)'
  BY <1>2, <1>3, <1>4
<1> QED BY <1>5 DEF Settled

LEMMA TailSettled ==
    ASSUME constantsOfSurface' = constantsOfSurface, NEW chain, NEW shorter, NEW m, NEW n \in Nat,
           Len(chain) = n + 1, Len(shorter) = n, chain[1] = m, \A i \in 1 .. n : shorter[i] = chain[i + 1],
           NEW c, NEW write,
           Settled(chain, c, write),
           Covers(m, c) /\ Shows(m, c, write) => Seen(image, ServerPitch, c, write)',
           ~Covers(m, c) => image'[At(ServerPitch, c)] = image[At(ServerPitch, c)],
           \A i \in 1 .. n : Shows(shorter[i], c, write) => Shows(shorter[i], c, write)'
    PROVE  Settled(shorter, c, write)'
<1>1. ServerPitch' = ServerPitch
  BY SameSurface
<1>2. \A d : Covers(d, c)' <=> Covers(d, c)
  BY SameCovers
<1>3. ASSUME NEW i \in 1 .. n, Covers(shorter[i], c), \A j \in i + 1 .. n : ~Covers(shorter[j], c)
      PROVE  Shows(shorter[i], c, write)'
  <2>1. i + 1 \in 1 .. n + 1 /\ Covers(chain[i + 1], c)
    BY <1>3
  <2>2. ASSUME NEW j \in (i + 1) + 1 .. n + 1
        PROVE  ~Covers(chain[j], c)
    <3>1. j - 1 \in i + 1 .. n /\ j - 1 \in 1 .. n /\ (j - 1) + 1 = j
      OBVIOUS
    <3>2. shorter[j - 1] = chain[j]
      BY <3>1
    <3> QED BY <1>3, <3>1, <3>2
  <2>3. Shows(chain[i + 1], c, write)
    BY <2>1, <2>2 DEF Settled
  <2> QED BY <2>3
<1>4. ASSUME \A i \in 1 .. n : ~Covers(shorter[i], c)
      PROVE  Seen(image, ServerPitch, c, write)'
  <2>1. \A j \in 2 .. n + 1 : ~Covers(chain[j], c)
    <3> TAKE j \in 2 .. n + 1
    <3>1. j - 1 \in 1 .. n /\ (j - 1) + 1 = j
      OBVIOUS
    <3>2. shorter[j - 1] = chain[j]
      BY <3>1
    <3> QED BY <1>4, <3>1, <3>2
  <2>2. CASE Covers(m, c)
    <3>1. 1 \in 1 .. n + 1 /\ 1 + 1 = 2
      OBVIOUS
    <3>2. Shows(m, c, write)
      BY <2>1, <2>2, <3>1 DEF Settled
    <3> QED BY <2>2, <3>2
  <2>3. CASE ~Covers(m, c)
    <3>1. \A j \in 1 .. n + 1 : ~Covers(chain[j], c)
      BY <2>1, <2>3
    <3>2. Seen(image, ServerPitch, c, write)
      BY <3>1 DEF Settled
    <3> QED BY <1>1, <2>3, <3>2 DEF Seen
  <2> QED BY <2>2, <2>3
<1>5. /\ \A i \in 1 .. n : Covers(shorter[i], c)' /\ (\A j \in i + 1 .. n : ~Covers(shorter[j], c)')
                           => Shows(shorter[i], c, write)'
      /\ (\A i \in 1 .. n : ~Covers(shorter[i], c)') => Seen(image, ServerPitch, c, write)'
  BY <1>2, <1>3, <1>4
<1> QED BY <1>5 DEF Settled

(* Commands under way keep their types, and find their bytes where they    *)
(* were, when buffers are only added.                                      *)
LEMMA CommandType ==
    ASSUME WideRows, surface \in Shapes, NEW name \in {"LockRect", "GetRenderTargetData", "Draw"}, NEW write \in Nat
    PROVE  /\ ImageCommand(name, write) \in ImageCommands
           /\ ImageCommand(name, write).cmd = name /\ ImageCommand(name, write).write = write
<1>1. Whole \in surface.rects
  BY WholeFacts DEF WholeFact
<1>2. <<>> \in {<<>>} \cup UNION {ByteArray(n) : n \in Nat}
  OBVIOUS
<1>3. "0" \in Flags /\ 0 \in Nat
  BY DEF Flags
<1> QED BY <1>1, <1>2, <1>3 DEF ImageCommand, ImageCommands

LEMMA SameCommand ==
    ASSUME constantsOfSurface' = constantsOfSurface, Len(buffers) \in Nat, Len(buffers') \in Nat,
           Len(buffers) =< Len(buffers')
    PROVE  \A m : CommandInv(m) => CommandInv(m)'
<1>1. /\ useSharedHeap' = useSharedHeap /\ Pitch' = Pitch /\ Whole' = Whole
      /\ \A r : RectRows(r)' = RectRows(r) /\ RectBytes(r)' = RectBytes(r)
  BY SameSurface
<1>2. \A i : i \in 1 .. Len(buffers) => i \in 1 .. Len(buffers')
  OBVIOUS
<1> QED BY <1>1, <1>2 DEF CommandInv

LEMMA SameFlight ==
    ASSUME constantsOfSurface' = constantsOfSurface, Len(buffers) \in Nat, Len(buffers') \in Nat,
           Len(buffers) =< Len(buffers'), NEW chain, CommandsInv(chain), NEW longer,
           \/ longer = chain
           \/ \E m \in ImageCommands : longer = Append(chain, m) /\ CommandInv(m)'
    PROVE  CommandsInv(longer)'
<1>1. ImageCommands' = ImageCommands
  BY SameSurface
<1>2. \A m : CommandInv(m) => CommandInv(m)'
  BY SameCommand
<1>3. chain \in Seq(ImageCommands) /\ \A i \in 1 .. Len(chain) : CommandInv(chain[i])
  BY DEF CommandsInv
<1>4. CASE longer = chain
  BY <1>1, <1>2, <1>3, <1>4 DEF CommandsInv
<1>5. CASE \E m \in ImageCommands : longer = Append(chain, m) /\ CommandInv(m)'
  <2>1. PICK m \in ImageCommands : longer = Append(chain, m) /\ CommandInv(m)'
    BY <1>5
  <2>2. PICK n \in Nat : n = Len(chain)
    BY <1>3, LenProperties
  <2>3. longer \in Seq(ImageCommands) /\ Len(longer) = n + 1 /\ longer[n + 1] = m
        /\ \A i \in 1 .. n : longer[i] = chain[i]
    BY <1>3, <2>1, <2>2, AppendProperties
  <2>4. \A i \in 1 .. n + 1 : CommandInv(longer[i])'
    <3> TAKE i \in 1 .. n + 1
    <3>1. CASE i = n + 1
      BY <2>1, <2>3, <3>1
    <3>2. CASE i # n + 1
      <4>1. i \in 1 .. n
        BY <3>2
      <4>2. CommandInv(chain[i])
        BY <1>3, <2>2, <4>1
      <4>3. CommandInv(chain[i])'
        BY <1>2, <4>2
      <4> QED BY <2>3, <4>1, <4>3
    <3> QED BY <3>1, <3>2
  <2> QED BY <1>1, <2>3, <2>4 DEF CommandsInv
<1> QED BY <1>4, <1>5

LEMMA ShowsStay ==
    ASSUME constantsOfSurface' = constantsOfSurface,
           \A i \in 1 .. Len(buffers) : buffers'[i] = buffers[i]
    PROVE  \A m, c, write : CommandInv(m) /\ Shows(m, c, write) => Shows(m, c, write)'
<1> SUFFICES ASSUME NEW m, NEW c, NEW write, CommandInv(m), Shows(m, c, write) PROVE Shows(m, c, write)'
  BY Zenon
<1>1. m.cmd = "UnlockRect" /\ useSharedHeap => buffers'[m.bufId][At(Pitch, c)] = buffers[m.bufId][At(Pitch, c)]
  BY DEF CommandInv
<1> QED BY <1>1, SameShows

------------------------------------------------------------------------------
(* The game *)

(* LockRect. *)
LEMMA LockRectInv ==
    ASSUME WideRows, ImageInv, NEW rect \in surface.rects, NEW flags \in Flags, LockRect(rect, flags)
    PROVE  ImageInv'
<1> USE DEF ImageInv
<1>1. /\ held = <<>> /\ asks = "none"
      /\ flags = "DISCARD" => rect = Whole
      /\ held' = <<rect, flags>> /\ m_bufferId' = BufferFor(flags) /\ buffers' = BuffersFor(flags)
      /\ m_lockInfoQueue' = Append(m_lockInfoQueue, LockInfo(rect, flags))
      /\ meant' = IF flags = "DISCARD" THEN [c \in Cells |-> 0] ELSE meant
      /\ constantsOfSurface' = constantsOfSurface /\ reply' = reply /\ image' = image /\ writes' = writes
      /\ astray' = astray
  BY DEF LockRect
<1>2. \/ captured /\ flags # "DISCARD" /\ asks' = "LockRect" /\ flight' = Append(flight, ImageCommand("LockRect", 0))
      \/ ~(captured /\ flags # "DISCARD") /\ asks' = "none" /\ flight' = flight
  BY <1>1 DEF LockRect
<1>3. m_lockInfoQueue = <<>> /\ reply = <<>>
  BY <1>1 DEF LockedInv, AskedInv
<1>4. /\ buffers' \in Seq(ByteArray(SurfaceSize))
      /\ Len(buffers) \in Nat /\ Len(buffers') \in Nat
      /\ m_bufferId' \in 1 .. Len(buffers')
      /\ Len(buffers) =< Len(buffers')
      /\ \A i \in 1 .. Len(buffers) : buffers'[i] = buffers[i]
      /\ m_bufferId # 0 /\ flags # "DISCARD" => buffers' = buffers /\ m_bufferId' = m_bufferId
  BY <1>1, LockedBuffers
<1>5. PICK m \in ImageCommands : m = ImageCommand("LockRect", 0) /\ m.cmd = "LockRect"
  <2>1. "LockRect" \in {"LockRect", "GetRenderTargetData", "Draw"} /\ 0 \in Nat
    OBVIOUS
  <2> QED BY <2>1, CommandType DEF ImageType
<1>6. flight \in Seq(ImageCommands) /\ (\A i \in 1 .. Len(flight) : CommandInv(flight[i])) /\ meant \in [Cells -> Nat]
  BY DEF ImageType, CommandsInv
<1>7. PICK n \in Nat : n = Len(flight)
  BY <1>6, LenProperties
<1>8. ImageType'
  <2>1. CommandInv(m)'
    BY <1>5 DEF CommandInv
  <2>2. CommandsInv(flight)'
    <3>1. PICK chain : chain = flight
      OBVIOUS
    <3>2. PICK longer : longer = flight'
      OBVIOUS
    <3>3. CommandsInv(chain)
      BY <3>1 DEF ImageType
    <3>4. longer = chain \/ \E d \in ImageCommands : longer = Append(chain, d) /\ CommandInv(d)'
      BY <1>2, <1>5, <2>1, <3>1, <3>2
    <3>5. CommandsInv(longer)'
      BY <1>1, <1>4, <3>3, <3>4, SameFlight
    <3> QED BY <3>2, <3>5
  <2>3. m_lockInfoQueue' \in Seq(Locks)
    <3>1. LockInfo(rect, flags) \in Locks
      BY <1>1, <1>4 DEF LockInfo, Locks
    <3>2. m_lockInfoQueue \in Seq(Locks)
      BY DEF ImageType
    <3> QED BY <1>1, <3>1, <3>2, AppendProperties
  <2>4. meant' \in [Cells -> Nat]
    BY <1>1, <1>6
  <2>5. /\ surface' = surface /\ useSharedHeap' = useSharedHeap /\ captured' = captured
        /\ Rows' = Rows /\ Cells' = Cells /\ ServerPitch' = ServerPitch
        /\ SurfaceSize' = SurfaceSize /\ Locks' = Locks
    BY <1>1, SameSurface
  <2>6. m_bufferId' \in 0 .. Len(buffers')
    BY <1>4
  <2> QED BY <1>1, <1>4, <2>2, <2>3, <2>4, <2>5, <2>6 DEF ImageType
<1>9. LockedInv'
  <2>1. PICK lock \in Locks : lock = LockInfo(rect, flags)
    BY <1>1, <1>4 DEF LockInfo, Locks
  <2>2. lock.rect = rect /\ lock.flags = flags /\ lock.bufId = m_bufferId'
    BY <1>1, <2>1 DEF LockInfo
  <2>3. m_lockInfoQueue' = <<lock>>
    BY <1>1, <1>3, <2>1
  <2>4. held' # <<>> /\ held'[1] = rect /\ held'[2] = flags
    BY <1>1
  <2>5. surface' = surface /\ Whole' = Whole /\ Locks' = Locks
    BY <1>1, SameSurface
  <2>6. PICK locked : locked = held'
    OBVIOUS
  <2>7. m_bufferId' # 0 /\ locked[1] \in surface'.rects
    BY <1>4, <2>4, <2>5, <2>6
  <2>8. locked[1] = lock.rect /\ (lock.flags = "READONLY" => locked[2] = "READONLY")
    BY <2>2, <2>4, <2>6
  <2>9. PICK locks, id : locks = m_lockInfoQueue' /\ id = m_bufferId'
    OBVIOUS
  <2>10. LockHeld(locked, locks, id)'
    BY <1>1, <2>2, <2>3, <2>5, <2>7, <2>8, <2>9 DEF LockHeld
  <2>11. LockHeld(held, m_lockInfoQueue, m_bufferId)'
    BY <2>6, <2>9, <2>10
  <2> QED BY <2>4, <2>11 DEF LockedInv
<1>10. AskedInv'
  <2>1. ASSUME NEW i \in 1 .. n
        PROVE  flight[i].cmd \notin {"LockRect", "GetRenderTargetData"}
    BY <1>1, <1>7 DEF AskedInv
  <2>2. CASE captured /\ flags # "DISCARD" /\ asks' = "LockRect" /\ flight' = Append(flight, ImageCommand("LockRect", 0))
    <3>1. Len(flight') = n + 1 /\ flight'[n + 1] = m /\ \A i \in 1 .. n : flight'[i] = flight[i]
      BY <1>5, <1>6, <1>7, <2>2, AppendProperties
    <3>2. \A i \in 1 .. n + 1 : i # n + 1 => i \in 1 .. n
      OBVIOUS
    <3>3. \A i \in 1 .. n + 1 : flight'[i].cmd \in {"LockRect", "GetRenderTargetData"} => i = n + 1 /\ asks' = flight'[i].cmd
      BY <1>5, <2>1, <2>2, <3>1, <3>2
    <3>4. captured' = captured /\ held' # <<>> /\ reply' = <<>>
      BY <1>1, <1>3, SameSurface
    <3> QED BY <2>2, <3>1, <3>3, <3>4 DEF AskedInv
  <2>3. CASE ~(captured /\ flags # "DISCARD") /\ asks' = "none" /\ flight' = flight
    <3>1. reply' = <<>>
      BY <1>1, <1>3
    <3> QED BY <1>7, <2>1, <2>3, <3>1 DEF AskedInv
  <2> QED BY <1>2, <2>2, <2>3
<1>11. ShadowInv'
  <2>1. captured' = captured /\ Cells' = Cells /\ Pitch' = Pitch
    BY <1>1, SameSurface
  <2> SUFFICES ASSUME asks' = "none", NEW c \in Cells, meant'[c] # 0
               PROVE  m_bufferId' # 0 /\ Seen(buffers'[m_bufferId'], Pitch, c, meant'[c])
    BY <2>1, Zenon DEF ShadowInv, Seen, At
  <2>2. flags # "DISCARD" /\ meant' = meant
    BY <1>1
  <2>3. ~captured
    BY <1>2, <2>2
  <2>4. m_bufferId # 0 /\ Seen(buffers[m_bufferId], Pitch, c, meant[c])
    BY <1>1, <2>2, <2>3 DEF ShadowInv
  <2> QED BY <1>4, <2>2, <2>4
<1>12. FlightInv'
  <2>1. Cells' = Cells
    BY <1>1, SameSurface
  <2> SUFFICES ASSUME NEW c \in Cells, meant'[c] # 0, NEW chain, chain = flight', NEW write, write = meant'[c]
               PROVE  Settled(chain, c, write)'
    BY <2>1 DEF FlightInv
  <2>2. meant' = meant
    BY <1>1
  <2>3. Settled(flight, c, write)
    BY <1>1, <2>2 DEF FlightInv, Open
  <2>4. image' = image
    BY <1>1
  <2>5. \A d, e, w : CommandInv(d) /\ Shows(d, e, w) => Shows(d, e, w)'
    BY <1>1, <1>4, ShowsStay
  <2>6. PICK before : before = flight
    OBVIOUS
  <2>7. \A i \in 1 .. n : Shows(before[i], c, write) => Shows(before[i], c, write)'
    BY <1>6, <1>7, <2>5, <2>6
  <2>8. CASE flight' = flight
    BY <1>1, <1>7, <2>3, <2>4, <2>6, <2>7, <2>8, StaysSettled
  <2>9. CASE flight' = Append(flight, ImageCommand("LockRect", 0))
    <3>1. Len(chain) = n + 1 /\ chain[n + 1] = m /\ \A i \in 1 .. n : chain[i] = before[i]
      BY <1>5, <1>6, <1>7, <2>6, <2>9, AppendProperties
    <3>2. ~Covers(m, c)
      BY <1>5 DEF Covers
    <3> QED BY <1>1, <1>7, <2>3, <2>4, <2>6, <2>7, <3>1, <3>2, AppendSettled
  <2> QED BY <1>2, <2>8, <2>9
<1> QED BY <1>8, <1>9, <1>10, <1>11, <1>12

(* A rectangle inside of another has its cells. *)
LEMMA BlocksGrow ==
    ASSUME NEW m \in Nat, NEW n \in Nat, m =< n
    PROVE  BlocksOf(m) \in Nat /\ BlocksOf(n) \in Nat /\ BlocksOf(m) =< BlocksOf(n)
<1>1. PICK b \in {1, 4} : b = getBlockSize(format)
  BY BlockSizes
<1>2. BlocksOf(m) = (m + b - 1) \div b /\ BlocksOf(n) = (n + b - 1) \div b
  BY <1>1, BlocksAreStrides DEF calcStride
<1>3. (m + b - 1) \div b \in Nat /\ (n + b - 1) \div b \in Nat /\ (m + b - 1) \div b =< (n + b - 1) \div b
  <2>1. CASE b = 1
    BY <2>1
  <2>2. CASE b = 4
    BY <2>2
  <2> QED BY <2>1, <2>2
<1> QED BY <1>2, <1>3

LEMMA InsideCells ==
    ASSUME surface \in Shapes, NEW r \in surface.rects, NEW s \in surface.rects, Inside(s, r)
    PROVE  CellsOf(s) \subseteq CellsOf(r)
<1> DEFINE n == getBytesFromFormat(format)
<1>1. /\ r[1] \in Nat /\ r[2] \in Nat /\ r[3] \in Nat /\ r[4] \in Nat
      /\ s[1] \in Nat /\ s[2] \in Nat /\ s[3] \in Nat /\ s[4] \in Nat
  BY ShapesAssumption
<1>2. s[1] >= r[1] /\ s[2] >= r[2] /\ s[3] <= r[3] /\ s[4] <= r[4]
  BY DEF Inside
<1>3. /\ BlocksOf(r[1]) \in Nat /\ BlocksOf(r[2]) \in Nat /\ BlocksOf(r[3]) \in Nat /\ BlocksOf(r[4]) \in Nat
      /\ BlocksOf(s[1]) \in Nat /\ BlocksOf(s[2]) \in Nat /\ BlocksOf(s[3]) \in Nat /\ BlocksOf(s[4]) \in Nat
      /\ BlocksOf(r[1]) =< BlocksOf(s[1]) /\ BlocksOf(r[2]) =< BlocksOf(s[2])
      /\ BlocksOf(s[3]) =< BlocksOf(r[3]) /\ BlocksOf(s[4]) =< BlocksOf(r[4])
  BY <1>1, <1>2, BlocksGrow
<1>4. n \in Nat
  BY BytesOfFormat
<1> HIDE DEF n
<1>5. /\ BlocksOf(r[1]) * n \in Nat /\ BlocksOf(s[1]) * n \in Nat /\ BlocksOf(r[1]) * n =< BlocksOf(s[1]) * n
      /\ BlocksOf(s[3]) * n \in Nat /\ BlocksOf(r[3]) * n \in Nat /\ BlocksOf(s[3]) * n =< BlocksOf(r[3]) * n
  BY <1>3, <1>4, ProductGrows
<1>6. \A q : CellsOf(q) = {c \in Cells : /\ c[1] \in BlocksOf(q[2]) .. (BlocksOf(q[4]) - 1)
                                        /\ c[2] \in (BlocksOf(q[1]) * n) .. (BlocksOf(q[3]) * n - 1)}
  BY DEF CellsOf, n
<1>7. PICK i1, i2, j1, j2 \in Nat : i1 = BlocksOf(s[2]) /\ i2 = BlocksOf(s[4]) /\ j1 = BlocksOf(r[2]) /\ j2 = BlocksOf(r[4])
  BY <1>3
<1>8. \A x : x \in BlocksOf(s[2]) .. (BlocksOf(s[4]) - 1) => x \in BlocksOf(r[2]) .. (BlocksOf(r[4]) - 1)
  BY <1>3, <1>7
<1>9. \A x : x \in (BlocksOf(s[1]) * n) .. (BlocksOf(s[3]) * n - 1) => x \in (BlocksOf(r[1]) * n) .. (BlocksOf(r[3]) * n - 1)
  BY <1>5
<1> QED BY <1>6, <1>8, <1>9

(* The game writes a rectangle at the pointer it was given; the bytes it   *)
(* reaches are the rectangle's cells.                                      *)
WriteInto(old, locked, rect, write) ==
    LET bits == calcImageByteOffset(Pitch, locked, format)
        Cell(x) == <<BlocksOf(locked[2]) + x \div Pitch, BlocksOf(locked[1]) * getBytesFromFormat(format) + (x % Pitch)>>
    IN [p \in DOMAIN old |-> IF p >= bits /\ Cell(p - bits) \in CellsOf(rect)
                             THEN <<write, Cell(p - bits)[1], Cell(p - bits)[2]>> ELSE old[p]]

LEMMA WrittenInto ==
    ASSUME WideRows, surface \in Shapes, NEW locked \in surface.rects, NEW rect \in surface.rects,
           Inside(rect, locked), NEW old \in ByteArray(SurfaceSize), NEW write \in Nat,
           NEW new, new = WriteInto(old, locked, rect, write)
    PROVE  /\ new \in ByteArray(SurfaceSize)
           /\ \A c \in CellsOf(rect) : Seen(new, Pitch, c, write)
           /\ \A c \in Cells \ CellsOf(rect) : new[At(Pitch, c)] = old[At(Pitch, c)]
<1> DEFINE bits == calcImageByteOffset(Pitch, locked, format)
           Cell(x) == <<Top(locked) + x \div Pitch, Left(locked) + (x % Pitch)>>
<1>1. new = [p \in DOMAIN old |-> IF p >= bits /\ Cell(p - bits) \in CellsOf(rect)
                                 THEN <<write, Cell(p - bits)[1], Cell(p - bits)[2]>> ELSE old[p]]
  BY DEF WriteInto, Top, Left
<1>2. /\ Pitch = RowBytes /\ RowBytes \in Nat \ {0} /\ Rows \in Nat /\ SurfaceSize = Rows * Pitch /\ SurfaceSize \in Nat
      /\ Pitch \in Nat \ {0}
  BY WholeFacts DEF WholeFact
<1>3. /\ Top(locked) \in Nat /\ Left(locked) \in Nat /\ RectRows(locked) \in Nat /\ RectBytes(locked) \in Nat
      /\ Left(locked) + RectBytes(locked) =< Pitch
  BY <1>2, RectFacts DEF RectFact
<1>4. bits = Top(locked) * Pitch + Left(locked)
  BY ByteOffset
<1>5. Top(locked) * Pitch \in Nat /\ bits \in Nat
  <2> HIDE DEF bits
  <2>1. Top(locked) * Pitch \in Nat
    BY <1>2, <1>3
  <2> QED BY <1>3, <1>4, <2>1
<1>6. CellsOf(rect) \subseteq CellsOf(locked)
  BY InsideCells
<1>7. DOMAIN old = 0 .. SurfaceSize - 1 /\ \A p \in DOMAIN old : old[p] \in Byte
  BY DEF ByteArray
<1>8. \A c \in CellsOf(rect) : c \in Cells /\ c[1] \in Int /\ c[2] \in Int
  BY CellFacts DEF CellsOf
<1> HIDE DEF bits, Cell
<1>9. new \in ByteArray(SurfaceSize)
  <2>1. \A p \in DOMAIN old : new[p] \in Byte
    <3> TAKE p \in DOMAIN old
    <3>1. CASE p >= bits /\ Cell(p - bits) \in CellsOf(rect)
      <4>1. new[p] = <<write, Cell(p - bits)[1], Cell(p - bits)[2]>>
        BY <1>1, <3>1
      <4>2. Cell(p - bits)[1] \in Int /\ Cell(p - bits)[2] \in Int
        BY <1>8, <3>1
      <4>3. write \in Int
        OBVIOUS
      <4> QED BY <4>1, <4>2, <4>3 DEF Byte
    <3>2. CASE ~(p >= bits /\ Cell(p - bits) \in CellsOf(rect))
      <4>1. new[p] = old[p]
        BY <1>1, <3>2
      <4> QED BY <1>7, <4>1
    <3> QED BY <3>1, <3>2
  <2>2. new = [p \in 0 .. SurfaceSize - 1 |-> new[p]]
    BY <1>1, <1>7
  <2>3. DOMAIN new = 0 .. SurfaceSize - 1
    BY <1>1, <1>7
  <2> QED BY <1>7, <2>1, <2>2, <2>3 DEF ByteArray
<1>10. ASSUME NEW c \in CellsOf(rect)
       PROVE  Seen(new, Pitch, c, write)
  <2>1. c \in Cells /\ c \in CellsOf(locked)
    BY <1>6, <1>8
  <2>2. /\ c[1] \in Top(locked) .. Top(locked) + RectRows(locked) - 1
        /\ c[2] \in Left(locked) .. Left(locked) + RectBytes(locked) - 1
    BY <2>1, RectFacts DEF RectFact
  <2>3. c = <<c[1], c[2]>> /\ At(Pitch, c) \in DOMAIN old /\ c[1] \in Nat /\ c[2] \in Nat
    BY <1>2, <1>7, <2>1, CellFacts
  <2>4. PICK y, x \in Nat : y = c[1] - Top(locked) /\ x = c[2] - Left(locked) /\ x \in 0 .. Pitch - 1
    <3>1. c[1] - Top(locked) \in Nat /\ c[2] - Left(locked) \in Nat
      BY <1>3, <2>2, <2>3
    <3>2. c[2] - Left(locked) \in 0 .. Pitch - 1
      BY <1>2, <1>3, <2>2, <2>3
    <3> QED BY <3>1, <3>2
  <2>5. c[1] = Top(locked) + y /\ c[2] = Left(locked) + x
    BY <1>3, <2>3, <2>4
  <2>6. At(Pitch, c) = bits + (y * Pitch + x)
    <3>1. (Top(locked) + y) * Pitch = Top(locked) * Pitch + y * Pitch /\ y * Pitch \in Nat
      BY <1>2, <1>3, <2>4
    <3>2. c[1] * Pitch = Top(locked) * Pitch + y * Pitch
      BY <2>5, <3>1
    <3> QED BY <1>3, <1>4, <1>5, <2>4, <2>5, <3>1, <3>2 DEF At
  <2>7. At(Pitch, c) - bits = y * Pitch + x /\ At(Pitch, c) >= bits
    <3>1. PICK z \in Nat : z = y * Pitch + x
      <4>1. y * Pitch \in Nat
        BY <1>2, <2>4
      <4> QED BY <2>4, <4>1
    <3>2. At(Pitch, c) = bits + z
      BY <2>6, <3>1
    <3> QED BY <1>5, <3>1, <3>2
  <2>8. (y * Pitch + x) \div Pitch = y /\ (y * Pitch + x) % Pitch = x
    BY <1>2, <2>4, RowDivision
  <2>9. Cell(At(Pitch, c) - bits) = c
    BY <2>3, <2>5, <2>7, <2>8 DEF Cell
  <2> QED BY <1>1, <2>3, <2>7, <2>9 DEF Seen
<1>11. ASSUME NEW c \in Cells \ CellsOf(rect)
       PROVE  new[At(Pitch, c)] = old[At(Pitch, c)]
  <2>1. At(Pitch, c) \in DOMAIN old /\ c[1] \in Nat /\ c[2] \in 0 .. Pitch - 1 /\ c = <<c[1], c[2]>>
    BY <1>2, <1>7, CellFacts
  <2>2. ~(At(Pitch, c) >= bits /\ Cell(At(Pitch, c) - bits) \in CellsOf(rect))
    <3> SUFFICES ASSUME At(Pitch, c) >= bits, Cell(At(Pitch, c) - bits) \in CellsOf(rect)
                 PROVE  FALSE
      OBVIOUS
    <3>1. PICK z \in Nat : z = At(Pitch, c) - bits
      <4>1. At(Pitch, c) \in Int
        BY <1>2, <1>7, <2>1
      <4> QED BY <1>5, <4>1
    <3>2. PICK q, m \in Int : q = z \div Pitch /\ m = z % Pitch /\ z = q * Pitch + m /\ m \in 0 .. Pitch - 1
      <4>1. z \div Pitch \in Int /\ z % Pitch \in 0 .. Pitch - 1 /\ z = (z \div Pitch) * Pitch + (z % Pitch)
        BY <1>2, Division
      <4> QED BY <4>1
    <3>3. PICK d : d = Cell(z) /\ d \in CellsOf(rect)
      BY <3>1
    <3>4. d[1] = Top(locked) + q /\ d[2] = Left(locked) + m
      BY <3>2, <3>3 DEF Cell
    <3>5. d \in Cells /\ d = <<d[1], d[2]>> /\ d[1] \in Nat /\ d[2] \in 0 .. Pitch - 1
      <4>1. d \in Cells
        BY <1>8, <3>3
      <4> QED BY <1>2, <4>1, CellFacts
    <3>6. At(Pitch, d) = At(Pitch, c)
      <4>1. (Top(locked) + q) * Pitch + (Left(locked) + m) = (Top(locked) * Pitch + Left(locked)) + (q * Pitch + m)
        <5>1. Top(locked) \in Int /\ Left(locked) \in Int /\ Pitch \in Int /\ q \in Int /\ m \in Int
          BY <1>2, <1>3
        <5>2. PICK a, l, n \in Int : a = Top(locked) /\ l = Left(locked) /\ n = Pitch
          BY <5>1
        <5>3. (a + q) * n + (l + m) = (a * n + l) + (q * n + m)
          BY <5>1, ShiftedRow
        <5> QED BY <5>2, <5>3
      <4>2. d[1] * Pitch + d[2] = (Top(locked) + q) * Pitch + (Left(locked) + m)
        BY <3>4
      <4>3. q * Pitch + m = z
        BY <3>2
      <4>4. At(Pitch, d) = bits + z
        BY <1>4, <4>1, <4>2, <4>3 DEF At
      <4>5. At(Pitch, c) \in Int
        BY <1>2, <1>7, <2>1
      <4> QED BY <1>5, <3>1, <4>4, <4>5
    <3>7. d[1] = c[1] /\ d[2] = c[2]
      <4>1. d[1] * Pitch + d[2] = c[1] * Pitch + c[2] /\ d[1] \in Int /\ c[1] \in Int /\ Pitch \in Nat
        BY <1>2, <2>1, <3>5, <3>6 DEF At
      <4> QED BY <2>1, <3>5, <4>1, RowUnique
    <3>8. d = c
      BY <2>1, <3>5, <3>7
    <3> QED BY <3>3, <3>8
  <2> QED BY <1>1, <2>1, <2>2
<1> QED BY <1>9, <1>10, <1>11

(* The game writes what it has locked. *)
LEMMA WriteLockedInv ==
    ASSUME WideRows, ImageInv, NEW rect \in surface.rects, WriteLocked(rect)
    PROVE  ImageInv'
<1> USE DEF ImageInv
<1>1. /\ held # <<>> /\ asks = "none" /\ held[2] # "READONLY" /\ Inside(rect, held[1])
      /\ buffers' = [buffers EXCEPT ![m_bufferId] = WriteInto(@, held[1], rect, writes + 1)]
      /\ meant' = [c \in Cells |-> IF c \in CellsOf(rect) THEN writes + 1 ELSE meant[c]]
      /\ writes' = writes + 1
      /\ constantsOfSurface' = constantsOfSurface /\ m_bufferId' = m_bufferId
      /\ m_lockInfoQueue' = m_lockInfoQueue /\ held' = held /\ flight' = flight /\ asks' = asks
      /\ reply' = reply /\ image' = image /\ astray' = astray
  BY DEF WriteLocked, WriteInto
<1>2. /\ surface \in Shapes /\ buffers \in Seq(ByteArray(SurfaceSize)) /\ m_bufferId \in 0 .. Len(buffers)
      /\ CommandsInv(flight) /\ meant \in [Cells -> Nat] /\ writes \in Nat
  BY DEF ImageType
<1>3. held[1] \in surface.rects /\ m_bufferId # 0 /\ reply = <<>>
  BY <1>1 DEF LockedInv, LockHeld, AskedInv
<1>4. PICK n \in Nat : n = Len(buffers)
  BY <1>2, LenProperties
<1>5. DOMAIN buffers = 1 .. n /\ m_bufferId \in 1 .. n
  BY <1>2, <1>3, <1>4, LenProperties
<1>6. PICK old \in ByteArray(SurfaceSize) : old = buffers[m_bufferId]
  BY <1>2, <1>4, <1>5, ElementOfSeq
<1>7. PICK new : new = WriteInto(old, held[1], rect, writes + 1)
  OBVIOUS
<1>8. /\ new \in ByteArray(SurfaceSize)
      /\ \A c \in CellsOf(rect) : Seen(new, Pitch, c, writes + 1)
      /\ \A c \in Cells \ CellsOf(rect) : new[At(Pitch, c)] = old[At(Pitch, c)]
  <2>1. PICK write \in Nat, locked \in surface.rects : write = writes + 1 /\ locked = held[1]
    BY <1>2, <1>3
  <2>2. new = WriteInto(old, locked, rect, write) /\ Inside(rect, locked)
    BY <1>1, <1>7, <2>1
  <2>3. /\ new \in ByteArray(SurfaceSize)
        /\ \A c \in CellsOf(rect) : Seen(new, Pitch, c, write)
        /\ \A c \in Cells \ CellsOf(rect) : new[At(Pitch, c)] = old[At(Pitch, c)]
    <3>1. surface \in Shapes
      BY <1>2
    <3> QED BY <2>2, <3>1, WrittenInto, SMTT(30)
  <2> QED BY <2>1, <2>3
<1>9. buffers' = [buffers EXCEPT ![m_bufferId] = new]
  BY <1>1, <1>6, <1>7
<1>10. buffers' \in Seq(ByteArray(SurfaceSize)) /\ Len(buffers') = n
  BY <1>2, <1>4, <1>5, <1>8, <1>9, ExceptSeq
<1>11. buffers'[m_bufferId] = new /\ \A i \in 1 .. n : i # m_bufferId => buffers'[i] = buffers[i]
  BY <1>5, <1>9
<1>12. \A i \in 1 .. n : \A c \in Cells \ CellsOf(rect) : buffers'[i][At(Pitch, c)] = buffers[i][At(Pitch, c)]
  BY <1>6, <1>8, <1>11
<1>13. /\ surface' = surface /\ useSharedHeap' = useSharedHeap /\ captured' = captured
       /\ Rows' = Rows /\ RowBytes' = RowBytes /\ Cells' = Cells /\ ServerPitch' = ServerPitch
       /\ Pitch' = Pitch /\ SurfaceSize' = SurfaceSize /\ Locks' = Locks /\ Whole' = Whole
       /\ \A r : CellsOf(r)' = CellsOf(r)
  BY <1>1, SameSurface
<1>14. ImageType'
  <2>1. CommandsInv(flight)'
    <3>1. PICK chain : chain = flight
      OBVIOUS
    <3>2. CommandsInv(chain)
      BY <1>2, <3>1
    <3>3. CommandsInv(chain)'
      <4>1. Len(buffers) \in Nat /\ Len(buffers') \in Nat /\ Len(buffers) =< Len(buffers')
        BY <1>4, <1>10
      <4> QED BY <1>1, <3>2, <4>1, SameFlight
    <3> QED BY <1>1, <3>1, <3>3
  <2>2. meant' \in [Cells -> Nat] /\ writes' \in Nat
    BY <1>1, <1>2
  <2>3. m_bufferId' \in 0 .. Len(buffers')
    BY <1>1, <1>5, <1>10
  <2> QED BY <1>1, <1>10, <1>13, <2>1, <2>2, <2>3 DEF ImageType
<1>15. LockedInv'
  <2>1. PICK locked, locks, id : locked = held /\ locks = m_lockInfoQueue /\ id = m_bufferId
    OBVIOUS
  <2>2. LockHeld(locked, locks, id)
    BY <1>1, <2>1 DEF LockedInv
  <2>3. LockHeld(locked, locks, id)'
    BY <1>13, <2>2 DEF LockHeld
  <2>4. LockHeld(held, m_lockInfoQueue, m_bufferId)'
    BY <1>1, <2>1, <2>3
  <2> QED BY <1>1, <2>4 DEF LockedInv
<1>16. AskedInv'
  <2>1. Len(flight') = Len(flight) /\ asks' = "none" /\ reply' = <<>> /\ captured' = captured
    BY <1>1, <1>3, <1>13
  <2> QED BY <1>1, <2>1 DEF AskedInv
<1>17. ShadowInv'
  <2> SUFFICES ASSUME NEW c \in Cells, meant'[c] # 0
               PROVE  m_bufferId # 0 /\ Seen(buffers'[m_bufferId], Pitch, c, meant'[c])
    BY <1>1, <1>13, Zenon DEF ShadowInv, Seen, At
  <2>1. CASE c \in CellsOf(rect)
    BY <1>1, <1>3, <1>8, <1>11, <2>1
  <2>2. CASE c \notin CellsOf(rect)
    <3>1. meant'[c] = meant[c]
      BY <1>1, <2>2
    <3>2. Seen(buffers[m_bufferId], Pitch, c, meant[c])
      BY <1>1, <3>1 DEF ShadowInv
    <3> QED BY <1>3, <1>5, <1>12, <2>2, <3>1, <3>2 DEF Seen
  <2> QED BY <2>1, <2>2
<1>18. FlightInv'
  <2>1. Open' = CellsOf(held[1]) /\ Open = CellsOf(held[1])
    <3>1. Open = CellsOf(held[1])
      BY <1>1 DEF Open
    <3>2. PICK r : r = held[1] /\ r = held'[1]
      BY <1>1
    <3>3. CellsOf(r)' = CellsOf(r)
      BY <1>13
    <3>4. Open' = CellsOf(r)'
      BY <1>1, <3>2 DEF Open
    <3> QED BY <3>1, <3>2, <3>3, <3>4
  <2> SUFFICES ASSUME NEW c \in Cells, c \notin CellsOf(held[1]), meant'[c] # 0,
                      NEW chain, chain = flight, NEW write, write = meant'[c]
               PROVE  Settled(chain, c, write)'
    BY <1>1, <1>13, <2>1 DEF FlightInv
  <2>2. c \notin CellsOf(rect)
    BY <1>1, <1>2, <1>3, InsideCells
  <2>3. write = meant[c]
    BY <1>1, <2>2
  <2>4. Settled(chain, c, write)
    BY <2>1, <2>3 DEF FlightInv
  <2>5. \A i \in 1 .. Len(chain) : Shows(chain[i], c, write) => Shows(chain[i], c, write)'
    <3> TAKE i \in 1 .. Len(chain)
    <3>1. PICK m : m = chain[i]
      OBVIOUS
    <3>2. CommandInv(m)
      BY <1>2, <3>1 DEF CommandsInv
    <3>3. m.cmd = "UnlockRect" => m.bufId \in 1 .. n
      BY <1>4, <3>2 DEF CommandInv
    <3>4. m.cmd = "UnlockRect" /\ useSharedHeap => buffers'[m.bufId][At(Pitch, c)] = buffers[m.bufId][At(Pitch, c)]
      BY <1>12, <2>2, <3>3
    <3>5. Shows(m, c, write)' <=> Shows(m, c, write)
      BY <1>1, <3>4, SameShows
    <3> QED BY <3>1, <3>5
  <2>6. Len(chain) \in Nat
    BY <1>2, LenProperties DEF CommandsInv
  <2> QED BY <1>1, <2>4, <2>5, <2>6, StaysSettled
<1> QED BY <1>14, <1>15, <1>16, <1>17, <1>18

(* A queue of one lock, and what an unlock sends of it. *)
LEMMA OneUnlocked ==
    ASSUME NEW lock, NEW copies
    PROVE  /\ <<lock>> # <<>> /\ Tail(<<lock>>) = <<>>
           /\ Unlocked(<<lock>>, copies) = IF lock.flags = "READONLY" THEN <<>> ELSE <<UnlockCommand(lock, copies)>>
           /\ Unlocked(<<>>, copies) = <<>>
<1>1. <<lock>> # <<>> /\ Head(<<lock>>) = lock
  OBVIOUS
<1>2. Tail(<<lock>>) = <<>>
  OBVIOUS
<1> QED BY <1>1, <1>2 DEF Unlocked

LEMMA SentOne ==
    ASSUME NEW chain \in Seq(ImageCommands), NEW m \in ImageCommands
    PROVE  chain \o <<>> = chain /\ chain \o <<m>> = Append(chain, m)
<1>1. chain \o <<>> = chain
  BY ConcatEmptySeq
<1>2. chain \o <<m>> = Append(chain, m)
  BY AppendIsConcat
<1> QED BY <1>1, <1>2

(* UnlockRect: either nothing is sent and no cell was open, or all of the  *)
(* open cells are.                                                         *)
LEMMA UnlockRectInv ==
    ASSUME WideRows, ImageInv, UnlockRect
    PROVE  ImageInv'
<1> USE DEF ImageInv
<1>1. /\ asks = "none" /\ held' = <<>>
      /\ m_lockInfoQueue' = IF m_lockInfoQueue = <<>> THEN <<>> ELSE Tail(m_lockInfoQueue)
      /\ flight' = flight \o Unlocked(m_lockInfoQueue, buffers)
      /\ constantsOfSurface' = constantsOfSurface /\ m_bufferId' = m_bufferId /\ buffers' = buffers
      /\ asks' = asks /\ reply' = reply /\ image' = image /\ meant' = meant /\ writes' = writes /\ astray' = astray
  BY DEF UnlockRect
<1>2. /\ surface \in Shapes /\ buffers \in Seq(ByteArray(SurfaceSize)) /\ m_bufferId \in 0 .. Len(buffers)
      /\ CommandsInv(flight) /\ meant \in [Cells -> Nat] /\ useSharedHeap \in BOOLEAN
      /\ flight \in Seq(ImageCommands)
  BY DEF ImageType, CommandsInv
<1>3. /\ surface' = surface /\ useSharedHeap' = useSharedHeap /\ captured' = captured
      /\ Rows' = Rows /\ RowBytes' = RowBytes /\ Cells' = Cells /\ ServerPitch' = ServerPitch
      /\ Pitch' = Pitch /\ SurfaceSize' = SurfaceSize /\ Locks' = Locks /\ Whole' = Whole
      /\ \A r : CellsOf(r)' = CellsOf(r)
  BY <1>1, SameSurface
<1>4. reply = <<>>
  BY <1>1 DEF AskedInv
<1>5. Len(buffers) \in Nat /\ Len(buffers') \in Nat /\ Len(buffers) =< Len(buffers')
  BY <1>1, <1>2, LenProperties
<1>6. PICK n \in Nat : n = Len(flight)
  BY <1>2, LenProperties
<1>7. \A i \in 1 .. n : flight[i].cmd \notin {"LockRect", "GetRenderTargetData"}
  BY <1>1, <1>6 DEF AskedInv
<1>8. /\ m_lockInfoQueue' = <<>>
      /\ \/ flight' = flight /\ Open = {}
         \/ \E m \in ImageCommands :
              /\ flight' = Append(flight, m)
              /\ m.cmd = "UnlockRect" /\ CommandInv(m)'
              /\ Open \subseteq CellsOf(m.rect)
              /\ \A c \in CellsOf(m.rect) : meant[c] # 0 => Shows(m, c, meant[c])
  <2>1. CASE held = <<>>
    <3>1. m_lockInfoQueue = <<>>
      BY <2>1 DEF LockedInv
    <3>2. Open = {}
      BY <2>1 DEF Open
    <3>3. flight' = flight
      <4>1. Unlocked(m_lockInfoQueue, buffers) = <<>>
        BY <3>1 DEF Unlocked
      <4>2. flight \o <<>> = flight
        BY <1>2, ConcatEmptySeq
      <4> QED BY <1>1, <4>1, <4>2
    <3> QED BY <1>1, <3>1, <3>2, <3>3
  <2>2. CASE held # <<>>
    <3>1. LockHeld(held, m_lockInfoQueue, m_bufferId)
      BY <2>2 DEF LockedInv
    <3>2. PICK lock \in Locks :
            /\ m_lockInfoQueue = <<lock>> /\ lock.bufId = m_bufferId
            /\ lock.flags = "DISCARD" => lock.rect = Whole
            /\ held[2] # "READONLY" => lock.flags # "READONLY" /\ CellsOf(held[1]) \subseteq CellsOf(lock.rect)
      BY <3>1 DEF LockHeld
    <3>3. m_bufferId # 0
      BY <3>1 DEF LockHeld
    <3>4. m_lockInfoQueue' = <<>>
      BY <1>1, <3>2, OneUnlocked
    <3>5. Open \subseteq CellsOf(lock.rect)
      BY <3>2 DEF Open
    <3>6. CASE lock.flags = "READONLY"
      <4>1. Unlocked(m_lockInfoQueue, buffers) = <<>>
        BY <3>2, <3>6, OneUnlocked
      <4>2. flight' = flight
        <5>1. flight \o <<>> = flight
          BY <1>2, ConcatEmptySeq
        <5> QED BY <1>1, <4>1, <5>1
      <4>3. Open = {}
        BY <3>2, <3>6 DEF Open
      <4> QED BY <3>4, <4>2, <4>3
    <3>7. CASE lock.flags # "READONLY"
      <4>1. PICK m : m = UnlockCommand(lock, buffers)
        OBVIOUS
      <4>2. Unlocked(m_lockInfoQueue, buffers) = <<m>>
        BY <3>2, <3>7, <4>1, OneUnlocked
      <4>3. lock.bufId \in 1 .. Len(buffers)
        BY <1>2, <1>5, <3>2, <3>3
      <4>4. Carries(m, lock, buffers)
        BY <1>2, <4>1, <4>3, UnlockRectSends
      <4>5. CommandInv(m)
        BY <3>2, <4>3, <4>4 DEF CommandInv, Carries
      <4>6. CommandInv(m)'
        BY <1>1, <1>5, <4>5, SameCommand
      <4>7. ASSUME NEW c \in CellsOf(m.rect), meant[c] # 0
            PROVE  Shows(m, c, meant[c])
        <5>1. c \in Cells
          BY DEF CellsOf
        <5>2. Seen(buffers[m_bufferId], Pitch, c, meant[c])
          BY <1>1, <2>2, <4>7, <5>1 DEF ShadowInv
        <5> QED BY <3>2, <4>4, <5>2 DEF Shows, Seen, Carries
      <4>8. flight' = Append(flight, m)
        <5>1. flight \o <<m>> = Append(flight, m)
          BY <1>2, <4>4, SentOne DEF Carries
        <5> QED BY <1>1, <4>2, <5>1
      <4> QED BY <3>4, <3>5, <4>4, <4>6, <4>7, <4>8 DEF Carries
    <3> QED BY <3>6, <3>7
  <2> QED BY <2>1, <2>2
<1>9. ImageType'
  <2>1. CommandsInv(flight)'
    <3>1. PICK chain, longer : chain = flight /\ longer = flight'
      OBVIOUS
    <3>2. CommandsInv(chain) /\ (longer = chain \/ \E m \in ImageCommands : longer = Append(chain, m) /\ CommandInv(m)')
      BY <1>2, <1>8, <3>1
    <3>3. CommandsInv(longer)'
      BY <1>1, <1>5, <3>2, SameFlight
    <3> QED BY <3>1, <3>3
  <2>2. m_lockInfoQueue' \in Seq(Locks)
    BY <1>8
  <2> QED BY <1>1, <1>3, <2>1, <2>2 DEF ImageType
<1>10. LockedInv'
  BY <1>1, <1>8 DEF LockedInv
<1>11. AskedInv'
  <2>1. \A i \in 1 .. Len(flight') : flight'[i].cmd \notin {"LockRect", "GetRenderTargetData"}
    <3>1. CASE flight' = flight
      BY <1>6, <1>7, <3>1
    <3>2. CASE \E m \in ImageCommands : flight' = Append(flight, m) /\ m.cmd = "UnlockRect"
      <4>1. PICK m \in ImageCommands : flight' = Append(flight, m) /\ m.cmd = "UnlockRect"
        BY <3>2
      <4>2. Len(flight') = n + 1 /\ flight'[n + 1] = m /\ \A i \in 1 .. n : flight'[i] = flight[i]
        BY <1>2, <1>6, <4>1, AppendProperties
      <4>3. \A i \in 1 .. n + 1 : i # n + 1 => i \in 1 .. n
        OBVIOUS
      <4> QED BY <1>7, <4>1, <4>2, <4>3
    <3> QED BY <1>8, <3>1, <3>2
  <2>2. asks' = "none" /\ reply' = <<>>
    BY <1>1, <1>4
  <2> QED BY <2>1, <2>2 DEF AskedInv
<1>12. ShadowInv'
  BY <1>1, <1>3, Zenon DEF ShadowInv, Seen, At
<1>13. FlightInv'
  <2> SUFFICES ASSUME NEW c \in Cells, meant[c] # 0, NEW chain, chain = flight', NEW write, write = meant[c]
               PROVE  Settled(chain, c, write)'
    BY <1>1, <1>3 DEF FlightInv
  <2>1. PICK before : before = flight
    OBVIOUS
  <2>2. \A d, w : Shows(d, c, w)' <=> Shows(d, c, w)
    BY <1>1, SameShows
  <2>3. c \notin Open => Settled(before, c, write)
    BY <2>1 DEF FlightInv
  <2>4. CASE flight' = flight /\ Open = {}
    <3>1. Settled(chain, c, write) /\ Len(chain) \in Nat
      BY <1>6, <2>1, <2>3, <2>4
    <3>2. \A i \in 1 .. Len(chain) : Shows(chain[i], c, write) => Shows(chain[i], c, write)'
      BY <2>2
    <3> QED BY <1>1, <3>1, <3>2, StaysSettled
  <2>5. CASE \E m \in ImageCommands :
              /\ flight' = Append(flight, m)
              /\ m.cmd = "UnlockRect" /\ CommandInv(m)'
              /\ Open \subseteq CellsOf(m.rect)
              /\ \A d \in CellsOf(m.rect) : meant[d] # 0 => Shows(m, d, meant[d])
    <3>1. PICK m \in ImageCommands :
              /\ flight' = Append(flight, m)
              /\ m.cmd = "UnlockRect" /\ CommandInv(m)'
              /\ Open \subseteq CellsOf(m.rect)
              /\ \A d \in CellsOf(m.rect) : meant[d] # 0 => Shows(m, d, meant[d])
      BY <2>5
    <3>2. Len(chain) = n + 1 /\ chain[n + 1] = m /\ \A i \in 1 .. n : chain[i] = before[i]
      BY <1>2, <1>6, <2>1, <3>1, AppendProperties
    <3>3. Covers(m, c) => Shows(m, c, write)'
      BY <2>2, <3>1 DEF Covers
    <3>4. ~Covers(m, c) => Settled(before, c, write)
      BY <2>3, <3>1 DEF Covers
    <3>5. \A i \in 1 .. n : Shows(before[i], c, write) => Shows(before[i], c, write)'
      BY <2>2
    <3>6. Len(before) = n
      BY <1>6, <2>1
    <3>7. ~Covers(m, c) =>
               /\ image'[At(ServerPitch, c)] = image[At(ServerPitch, c)]
               /\ Settled(before, c, write)
               /\ \A i \in 1 .. n : Shows(before[i], c, write) => Shows(before[i], c, write)'
      BY <1>1, <3>4, <3>5
    <3>8. constantsOfSurface' = constantsOfSurface
      BY <1>1
    <3> QED BY <3>2, <3>3, <3>6, <3>7, <3>8, AppendSettled, Zenon
  <2> QED BY <1>8, <2>4, <2>5
<1> QED BY <1>9, <1>10, <1>11, <1>12, <1>13

(* The server's surface will be written from one end to the other. *)
LEMMA RepaintedInv ==
    ASSUME WideRows, ImageInv, NEW name \in {"GetRenderTargetData", "Draw"},
           held = <<>>, asks = "none", name = "Draw" => captured,
           writes' = writes + 1,
           asks' = IF name = "Draw" THEN asks ELSE name,
           flight' = Append(flight, ImageCommand(name, writes + 1)),
           meant' = [c \in Cells |-> writes + 1],
           constantsOfSurface' = constantsOfSurface, m_bufferId' = m_bufferId, buffers' = buffers,
           m_lockInfoQueue' = m_lockInfoQueue, held' = held, reply' = reply, image' = image, astray' = astray
    PROVE  ImageInv'
<1> USE DEF ImageInv
<1>1. /\ surface \in Shapes /\ buffers \in Seq(ByteArray(SurfaceSize)) /\ m_bufferId \in 0 .. Len(buffers)
      /\ CommandsInv(flight) /\ flight \in Seq(ImageCommands) /\ writes \in Nat
  BY DEF ImageType, CommandsInv
<1>2. /\ surface' = surface /\ useSharedHeap' = useSharedHeap /\ captured' = captured
      /\ Rows' = Rows /\ RowBytes' = RowBytes /\ Cells' = Cells /\ ServerPitch' = ServerPitch
      /\ Pitch' = Pitch /\ SurfaceSize' = SurfaceSize /\ Locks' = Locks /\ Whole' = Whole
      /\ \A r : CellsOf(r)' = CellsOf(r)
  BY SameSurface
<1>3. m_lockInfoQueue = <<>> /\ reply = <<>>
  BY DEF LockedInv, AskedInv
<1>4. PICK n \in Nat : n = Len(flight)
  BY <1>1, LenProperties
<1>5. \A i \in 1 .. n : flight[i].cmd \notin {"LockRect", "GetRenderTargetData"}
  BY <1>4 DEF AskedInv
<1>6. PICK write \in Nat : write = writes + 1
  BY <1>1
<1>7. PICK m \in ImageCommands : m = ImageCommand(name, write) /\ m.cmd = name /\ m.write = write
  <2>1. name \in {"LockRect", "GetRenderTargetData", "Draw"}
    OBVIOUS
  <2> QED BY <1>1, <2>1, CommandType
<1>8. /\ flight' = Append(flight, m) /\ Len(flight') = n + 1 /\ flight'[n + 1] = m
      /\ \A i \in 1 .. n : flight'[i] = flight[i]
  BY <1>1, <1>4, <1>6, <1>7, AppendProperties
<1>9. ImageType'
  <2>1. CommandsInv(flight)'
    <3>1. PICK chain, longer : chain = flight /\ longer = flight'
      OBVIOUS
    <3>2. CommandInv(m)'
      BY <1>7 DEF CommandInv
    <3>3. CommandsInv(chain) /\ (longer = chain \/ \E d \in ImageCommands : longer = Append(chain, d) /\ CommandInv(d)')
      BY <1>1, <1>8, <3>1, <3>2
    <3>4. Len(buffers) \in Nat /\ Len(buffers') \in Nat /\ Len(buffers) =< Len(buffers')
      BY <1>1, LenProperties
    <3>5. CommandsInv(longer)'
      BY <3>3, <3>4, SameFlight
    <3> QED BY <3>1, <3>5
  <2>2. meant' \in [Cells -> Nat] /\ writes' \in Nat
    BY <1>6
  <2> QED BY <1>2, <1>3, <2>1, <2>2 DEF ImageType
<1>10. LockedInv'
  BY <1>3 DEF LockedInv
<1>11. AskedInv'
  <2>1. \A i \in 1 .. n + 1 : i # n + 1 => i \in 1 .. n
    OBVIOUS
  <2>2. CASE name = "Draw"
    <3>1. \A i \in 1 .. n + 1 : flight'[i].cmd \notin {"LockRect", "GetRenderTargetData"}
      BY <1>5, <1>7, <1>8, <2>1, <2>2
    <3>2. asks' = "none" /\ reply' = <<>>
      BY <1>3, <2>2
    <3> QED BY <1>8, <3>1, <3>2 DEF AskedInv
  <2>3. CASE name = "GetRenderTargetData"
    <3>1. \A i \in 1 .. n + 1 : flight'[i].cmd \in {"LockRect", "GetRenderTargetData"} =>
             i = n + 1 /\ asks' = flight'[i].cmd
      BY <1>5, <1>7, <1>8, <2>1, <2>3
    <3>2. asks' = "GetRenderTargetData" /\ reply' = <<>> /\ held' = <<>>
      BY <1>3, <2>3
    <3> QED BY <1>8, <3>1, <3>2 DEF AskedInv
  <2> QED BY <2>2, <2>3
<1>12. ShadowInv'
  <2>1. ~(asks' = "none" /\ (held' # <<>> \/ ~captured'))
    BY <1>2
  <2> QED BY <2>1 DEF ShadowInv
<1>13. FlightInv'
  <2> SUFFICES ASSUME NEW c \in Cells, NEW chain, chain = flight'
               PROVE  Settled(chain, c, write)'
    <3>1. \A c \in Cells : meant'[c] = write
      BY <1>6
    <3> QED BY <1>2, <3>1 DEF FlightInv
  <2>1. Covers(m, c)
    BY <1>7 DEF Covers
  <2>2. Shows(m, c, write)'
    BY <1>7 DEF Shows
  <2>3. PICK before : before = flight
    OBVIOUS
  <2>4. Len(before) = n /\ Len(chain) = n + 1 /\ chain[n + 1] = m /\ \A i \in 1 .. n : chain[i] = before[i]
    BY <1>4, <1>8, <2>3
  <2> QED BY <2>1, <2>2, <2>4, AppendSettled
<1> QED BY <1>9, <1>10, <1>11, <1>12, <1>13

LEMMA GetRenderTargetDataInv ==
    ASSUME WideRows, ImageInv, GetRenderTargetData
    PROVE  ImageInv'
<1>1. PICK name \in {"GetRenderTargetData", "Draw"} : name = "GetRenderTargetData"
  OBVIOUS
<1>2. /\ held = <<>> /\ asks = "none" /\ (name = "Draw" => captured)
      /\ writes' = writes + 1
      /\ asks' = IF name = "Draw" THEN asks ELSE name
      /\ flight' = Append(flight, ImageCommand(name, writes + 1))
      /\ meant' = [c \in Cells |-> writes + 1]
      /\ constantsOfSurface' = constantsOfSurface /\ m_bufferId' = m_bufferId /\ buffers' = buffers
      /\ m_lockInfoQueue' = m_lockInfoQueue /\ held' = held /\ reply' = reply /\ image' = image
      /\ astray' = astray
  BY <1>1 DEF GetRenderTargetData
<1> QED BY <1>2, RepaintedInv

LEMMA DrawInv ==
    ASSUME WideRows, ImageInv, Draw
    PROVE  ImageInv'
<1>1. PICK name \in {"GetRenderTargetData", "Draw"} : name = "Draw"
  OBVIOUS
<1>2. /\ held = <<>> /\ asks = "none" /\ (name = "Draw" => captured)
      /\ writes' = writes + 1
      /\ asks' = IF name = "Draw" THEN asks ELSE name
      /\ flight' = Append(flight, ImageCommand(name, writes + 1))
      /\ meant' = [c \in Cells |-> writes + 1]
      /\ constantsOfSurface' = constantsOfSurface /\ m_bufferId' = m_bufferId /\ buffers' = buffers
      /\ m_lockInfoQueue' = m_lockInfoQueue /\ held' = held /\ reply' = reply /\ image' = image
      /\ astray' = astray
  BY <1>1 DEF Draw
<1> QED BY <1>2, RepaintedInv

(* The answer is copied into the buffer of the lock that waits. *)
LEMMA ReadBackInv ==
    ASSUME WideRows, ImageInv, copyServerSurfaceRawData
    PROVE  ImageInv'
<1> USE DEF ImageInv
<1> DEFINE id == BufferFor("DISCARD")
           filled == RowsCopied(BuffersFor("DISCARD")[id], 0, Pitch, reply, 0, RowBytes, Rows, RowBytes)
           copies == [BuffersFor("DISCARD") EXCEPT ![id] = filled]
           locks == Append(m_lockInfoQueue, LockInfo(Whole, "DISCARD"))
<1>1. WholeFact /\ surface \in Shapes
  BY WholeFacts DEF ImageType
<1>2. /\ reply # <<>> /\ buffers' = copies /\ m_lockInfoQueue' = Tail(locks)
      /\ flight' = flight \o Unlocked(locks, copies) /\ m_bufferId' = id
      /\ asks' = "none" /\ reply' = <<>> /\ constantsOfSurface' = constantsOfSurface
      /\ held' = held /\ image' = image /\ meant' = meant /\ writes' = writes /\ astray' = astray
  <2>1. calcRowSize("Client", surface.width, format) = RowBytes /\ calcStride(surface.height, format) = Rows
    BY <1>1 DEF WholeFact
  <2> QED BY <2>1 DEF copyServerSurfaceRawData
<1>3. /\ asks # "none" /\ flight = <<>> /\ reply \in ByteArray(Rows * RowBytes)
      /\ \A c \in Cells : meant[c] # 0 => Seen(reply, RowBytes, c, meant[c])
  BY <1>2 DEF AskedInv
<1>4. /\ BuffersFor("DISCARD") \in Seq(ByteArray(SurfaceSize))
      /\ Len(BuffersFor("DISCARD")) \in Nat
      /\ id \in 1 .. Len(BuffersFor("DISCARD"))
      /\ m_bufferId # 0 /\ ~useSharedHeap => id = m_bufferId
  BY LockedBuffers
<1>5. /\ Rows \in Nat /\ RowBytes \in Nat /\ Pitch = RowBytes /\ SurfaceSize = Rows * Pitch /\ SurfaceSize \in Nat
      /\ Pitch \in Nat /\ RowBytes \in Int /\ Whole \in surface.rects
  BY <1>1 DEF WholeFact
<1>6. BuffersFor("DISCARD")[id] \in ByteArray(SurfaceSize)
  BY <1>4, ElementOfSeq
<1>7. filled \in ByteArray(SurfaceSize)
  <2>1. Rows * RowBytes \in Nat
    BY <1>5
  <2> QED BY <1>3, <1>5, <1>6, <2>1, RowsCopiedType
<1>8. ASSUME NEW c \in Cells, meant[c] # 0
      PROVE  Seen(filled, Pitch, c, meant[c])
  <2>1. PICK to \in ByteArray(Rows * Pitch) : to = BuffersFor("DISCARD")[id]
    BY <1>5, <1>6
  <2>2. PICK after : after = filled
    OBVIOUS
  <2>3. after = RowsCopied(to, 0, Pitch, reply, 0, RowBytes, Rows, RowBytes)
    BY <2>1, <2>2
  <2>4. Pitch >= RowBytes
    BY <1>5
  <2> HIDE DEF filled
  <2>5. after[At(Pitch, c)] = ByteAt(reply, At(RowBytes, c))
    BY <1>1, <1>5, <2>3, <2>4, WholeCopied
  <2>6. At(RowBytes, c) \in 0 .. Rows * RowBytes - 1
    BY <1>1, CellFacts
  <2>7. ByteAt(reply, At(RowBytes, c)) = reply[At(RowBytes, c)]
    <3>1. Rows * RowBytes \in Nat
      BY <1>5
    <3> QED BY <1>3, <2>6, <3>1, ByteInside
  <2> QED BY <1>3, <1>8, <2>2, <2>5, <2>7 DEF Seen
<1> HIDE DEF filled
<1>9. /\ copies \in Seq(ByteArray(SurfaceSize)) /\ Len(copies) = Len(BuffersFor("DISCARD"))
      /\ copies[id] = filled
  BY <1>4, <1>7, ExceptSeq
<1> HIDE DEF copies
<1>10. /\ surface' = surface /\ useSharedHeap' = useSharedHeap /\ captured' = captured
      /\ Rows' = Rows /\ RowBytes' = RowBytes /\ Cells' = Cells /\ ServerPitch' = ServerPitch
      /\ Pitch' = Pitch /\ SurfaceSize' = SurfaceSize /\ Locks' = Locks /\ Whole' = Whole
      /\ \A r : CellsOf(r)' = CellsOf(r)
  BY <1>2, SameSurface
<1>11. PICK own \in Locks : own = LockInfo(Whole, "DISCARD") /\ own.rect = Whole /\ own.flags = "DISCARD" /\ own.bufId = id
  <2>1. LockInfo(Whole, "DISCARD") \in Locks
    BY <1>4, <1>5 DEF LockInfo, Locks, Flags
  <2> QED BY <2>1 DEF LockInfo
<1>12. \E first \in Locks :
         /\ first.bufId = id /\ (first.flags = "DISCARD" => first.rect = Whole)
         /\ Unlocked(locks, copies) = IF first.flags = "READONLY" THEN <<>> ELSE <<UnlockCommand(first, copies)>>
         /\ held = <<>> => m_lockInfoQueue' = <<>>
         /\ held # <<>> => m_lockInfoQueue' = <<own>> /\ held[1] \in surface.rects
  <2>1. CASE held = <<>>
    <3>1. locks = <<own>>
      BY <1>11, <2>1 DEF LockedInv
    <3> QED BY <1>2, <1>11, <2>1, <3>1, OneUnlocked
  <2>2. CASE held # <<>>
    <3>1. LockHeld(held, m_lockInfoQueue, m_bufferId)
      BY <2>2 DEF LockedInv
    <3>2. PICK lock \in Locks :
            /\ m_lockInfoQueue = <<lock>> /\ lock.bufId = m_bufferId
            /\ lock.flags = "DISCARD" => lock.rect = Whole
      BY <3>1 DEF LockHeld
    <3>3. captured /\ ~useSharedHeap
      BY <1>3, <2>2 DEF AskedInv, ImageType
    <3>4. id = m_bufferId
      BY <1>4, <3>1, <3>3 DEF LockHeld
    <3>5. <<lock>> \in Seq(Locks) /\ <<lock>> # <<>> /\ Head(<<lock>>) = lock /\ Tail(<<lock>>) = <<>>
      BY OneUnlocked
    <3>6. locks # <<>> /\ Head(locks) = lock /\ Tail(locks) = <<own>>
      <4>1. locks = Append(<<lock>>, own)
        BY <1>11, <3>2
      <4>2. Head(locks) = lock /\ Tail(locks) = Append(<<>>, own)
        BY <3>5, <4>1, HeadTailAppend
      <4>3. Append(<<>>, own) = <<own>>
        OBVIOUS
      <4>4. locks # <<>>
        BY <3>5, <4>1, AppendProperties
      <4> QED BY <4>2, <4>3, <4>4
    <3>7. Unlocked(locks, copies) = IF lock.flags = "READONLY" THEN <<>> ELSE <<UnlockCommand(lock, copies)>>
      BY <3>6 DEF Unlocked
    <3>8. held[1] \in surface.rects
      BY <3>1 DEF LockHeld
    <3> QED BY <1>2, <2>2, <3>2, <3>4, <3>6, <3>7, <3>8
  <2> QED BY <2>1, <2>2
<1> HIDE DEF locks
<1>13. \/ flight' = <<>>
       \/ \E m \in ImageCommands :
            /\ flight' = <<m>> /\ m.cmd = "UnlockRect" /\ CommandInv(m)'
            /\ \A c \in CellsOf(m.rect) : meant[c] # 0 => Shows(m, c, meant[c])'
  <2>1. PICK first \in Locks :
         /\ first.bufId = id /\ (first.flags = "DISCARD" => first.rect = Whole)
         /\ Unlocked(locks, copies) = IF first.flags = "READONLY" THEN <<>> ELSE <<UnlockCommand(first, copies)>>
    BY <1>12
  <2>2. CASE first.flags = "READONLY"
    <3>1. flight' = <<>> \o <<>>
      BY <1>2, <1>3, <2>1, <2>2
    <3>2. <<>> \in Seq(ImageCommands)
      OBVIOUS
    <3>3. <<>> \o <<>> = <<>>
      BY <3>2, ConcatEmptySeq
    <3> QED BY <3>1, <3>3
  <2>3. CASE first.flags # "READONLY"
    <3>1. PICK m : m = UnlockCommand(first, copies)
      OBVIOUS
    <3>2. first.bufId \in 1 .. Len(copies)
      BY <1>4, <1>9, <2>1
    <3>3. PICK bytes : bytes = copies
      OBVIOUS
    <3>4. useSharedHeap \in BOOLEAN
      BY DEF ImageType
    <3>5. Carries(m, first, bytes)
      <4>1. bytes \in Seq(ByteArray(SurfaceSize)) /\ first.bufId \in 1 .. Len(bytes)
        BY <1>9, <3>2, <3>3
      <4>2. surface \in Shapes
        BY <1>1
      <4>3. Carries(UnlockCommand(first, bytes), first, bytes)
        BY <3>4, <4>1, <4>2, UnlockRectSends, Zenon
      <4> QED BY <3>1, <3>3, <4>3
    <3>14. m \in ImageCommands /\ m.cmd = "UnlockRect" /\ m.rect = first.rect /\ m.flags = first.flags /\ m.bufId = first.bufId
      BY <3>5 DEF Carries
    <3>6. PICK r, x, y, high, wide : r = m.rect /\ x = Left(r) /\ y = Top(r) /\ high = RectRows(r) /\ wide = RectBytes(r)
      OBVIOUS
    <3>7. /\ RectRows(r)' = high /\ RectBytes(r)' = wide /\ Top(r)' = y /\ Left(r)' = x
      BY <1>2, <3>6, SameSurface
    <3>15. /\ RectBytes(m.rect) = wide /\ RectRows(m.rect) = high /\ Top(m.rect) = y /\ Left(m.rect) = x
      BY <3>6
    <3>16. m.pitch = IF useSharedHeap THEN Pitch ELSE wide
      BY <3>5, <3>15 DEF Carries
    <3>17. ASSUME ~useSharedHeap
           PROVE  /\ m.blob \in ByteArray(high * wide)
                  /\ \A c \in CellsOf(m.rect) : m.blob[(c[1] - y) * wide + (c[2] - x)] = bytes[first.bufId][At(Pitch, c)]
      BY <3>5, <3>15, <3>17 DEF Carries
    <3>8. CommandInv(m)'
      <4>1. m.bufId \in 1 .. Len(buffers')
        BY <1>2, <3>2, <3>14
      <4>2. m.flags = "DISCARD" => m.rect = Whole'
        BY <1>10, <2>1, <3>14
      <4>3. m.pitch = IF useSharedHeap' THEN Pitch' ELSE RectBytes(m.rect)'
        BY <1>10, <3>6, <3>7, <3>16, <3>17, Zenon
      <4>4. ~useSharedHeap' => m.blob \in ByteArray(RectRows(m.rect)' * RectBytes(m.rect)')
        BY <1>10, <3>6, <3>7, <3>16, <3>17, Zenon
      <4> QED BY <4>1, <4>2, <4>3, <4>4 DEF CommandInv
    <3>9. ASSUME NEW c \in CellsOf(m.rect), meant[c] # 0
          PROVE  Shows(m, c, meant[c])'
      <4>1. c \in Cells
        BY DEF CellsOf
      <4>2. bytes[first.bufId][At(Pitch, c)] = <<meant[c], c[1], c[2]>>
        BY <1>8, <1>9, <2>1, <3>3, <3>9, <4>1 DEF Seen
      <4>3. meant'[c] = meant[c] /\ buffers' = bytes
        BY <1>2, <3>3
      <4>4. PICK write : write = meant[c]
        OBVIOUS
      <4>5. CASE useSharedHeap
        <5>1. Seen(bytes[m.bufId], Pitch, c, write)
          BY <2>1, <3>14, <4>2, <4>4 DEF Seen
        <5>2. Seen(buffers[m.bufId], Pitch, c, write)'
          BY <1>10, <4>3, <5>1 DEF Seen
        <5>3. Shows(m, c, write)'
          BY <1>10, <3>14, <4>5, <5>2 DEF Shows
        <5> QED BY <4>3, <4>4, <5>3
      <4>6. CASE ~useSharedHeap
        <5>1. m.blob[(c[1] - y) * wide + (c[2] - x)] = <<write, c[1], c[2]>>
          BY <3>17, <4>2, <4>4, <4>6
        <5>2. m.blob[(c[1] - Top(m.rect)') * RectBytes(m.rect)' + (c[2] - Left(m.rect)')] = <<write, c[1], c[2]>>
          BY <3>6, <3>7, <5>1, Zenon
        <5>3. Shows(m, c, write)'
          BY <1>10, <3>14, <4>6, <5>2 DEF Shows
        <5> QED BY <4>3, <4>4, <5>3
      <4> QED BY <4>5, <4>6
    <3>10. flight' = <<m>>
      <4>1. flight' = <<>> \o <<m>>
        BY <1>2, <1>3, <2>1, <2>3, <3>1
      <4>2. <<m>> \in Seq(ImageCommands)
        BY <3>14
      <4>3. <<>> \o <<m>> = <<m>>
        BY <4>2, ConcatEmptySeq
      <4> QED BY <4>1, <4>3
    <3>11. \A c \in CellsOf(m.rect) : meant[c] # 0 => Shows(m, c, meant[c])'
      BY <3>9
    <3> QED BY <3>14, <3>8, <3>10, <3>11
  <2> QED BY <2>2, <2>3
<1>14. ImageType'
  <2>1. CommandsInv(flight)'
    <3>1. ImageCommands' = ImageCommands
      BY <1>2, SameSurface
    <3>2. CASE flight' = <<>>
      <4>1. <<>> \in Seq(ImageCommands) /\ Len(<<>>) = 0
        OBVIOUS
      <4> QED BY <3>1, <3>2, <4>1 DEF CommandsInv
    <3>3. CASE \E m \in ImageCommands : flight' = <<m>> /\ CommandInv(m)'
      <4>1. PICK m \in ImageCommands : flight' = <<m>> /\ CommandInv(m)'
        BY <3>3
      <4>2. <<m>> \in Seq(ImageCommands) /\ Len(<<m>>) = 1 /\ <<m>>[1] = m
        OBVIOUS
      <4>3. \A i \in 1 .. 1 : i = 1
        OBVIOUS
      <4>4. PICK chain : chain = flight'
        OBVIOUS
      <4>5. chain \in Seq(ImageCommands)' /\ \A i \in 1 .. Len(chain) : chain[i] = m
        BY <3>1, <4>1, <4>2, <4>3, <4>4
      <4>6. CommandsInv(chain)'
        BY <4>1, <4>5 DEF CommandsInv
      <4> QED BY <4>4, <4>6
    <3> QED BY <1>13, <3>2, <3>3
  <2>2. m_lockInfoQueue' \in Seq(Locks)
    <3>1. m_lockInfoQueue' = <<>> \/ m_lockInfoQueue' = <<own>>
      BY <1>12
    <3>2. <<>> \in Seq(Locks) /\ <<own>> \in Seq(Locks)
      OBVIOUS
    <3> QED BY <3>1, <3>2
  <2>3. m_bufferId' \in 0 .. Len(buffers')
    BY <1>2, <1>4, <1>9
  <2> QED BY <1>2, <1>9, <1>10, <2>1, <2>2, <2>3 DEF ImageType
<1>15. LockedInv'
  <2>1. CASE held = <<>>
    BY <1>2, <1>12, <2>1 DEF LockedInv
  <2>2. CASE held # <<>>
    <3>1. m_lockInfoQueue' = <<own>> /\ held[1] \in surface.rects
      BY <1>12, <2>2
    <3>2. PICK locked, chain, buffer : locked = held /\ chain = <<own>> /\ buffer = id
      OBVIOUS
    <3>3. CellsOf(locked[1]) \subseteq CellsOf(own.rect)
      <4>1. CellsOf(own.rect) = Cells
        BY <1>1, <1>11 DEF WholeFact
      <4> QED BY <4>1 DEF CellsOf
    <3>4. buffer # 0
      BY <1>4, <3>2
    <3>5. PICK r, s : r = locked[1] /\ s = own.rect
      OBVIOUS
    <3>6. CellsOf(r)' \subseteq CellsOf(s)'
      BY <1>10, <3>3, <3>5
    <3>7. /\ own \in Locks' /\ chain = <<own>> /\ own.bufId = buffer /\ own.rect = Whole'
          /\ own.flags # "READONLY" /\ CellsOf(locked[1])' \subseteq CellsOf(own.rect)'
          /\ locked[1] \in surface'.rects
      BY <1>10, <1>11, <3>1, <3>2, <3>5, <3>6
    <3>8. LockHeld(locked, chain, buffer)'
      BY <3>4, <3>7 DEF LockHeld
    <3>9. LockHeld(held, m_lockInfoQueue, m_bufferId)'
      BY <1>2, <3>1, <3>2, <3>8
    <3> QED BY <1>2, <2>2, <3>9 DEF LockedInv
  <2> QED BY <2>1, <2>2
<1>16. AskedInv'
  <2>1. \A i \in 1 .. Len(flight') : flight'[i].cmd \notin {"LockRect", "GetRenderTargetData"}
    <3>1. CASE flight' = <<>>
      <4>1. Len(<<>>) = 0
        OBVIOUS
      <4> QED BY <3>1, <4>1
    <3>2. CASE \E m \in ImageCommands : flight' = <<m>> /\ m.cmd = "UnlockRect"
      <4>1. PICK m \in ImageCommands : flight' = <<m>> /\ m.cmd = "UnlockRect"
        BY <3>2
      <4>2. Len(<<m>>) = 1 /\ <<m>>[1] = m
        OBVIOUS
      <4>3. \A i \in 1 .. 1 : i = 1
        OBVIOUS
      <4> QED BY <4>1, <4>2, <4>3
    <3> QED BY <1>13, <3>1, <3>2
  <2> QED BY <1>2, <2>1 DEF AskedInv
<1>17. ShadowInv'
  <2>1. buffers'[m_bufferId'] = filled /\ m_bufferId' # 0
    BY <1>2, <1>4, <1>9
  <2> SUFFICES ASSUME NEW c \in Cells, meant[c] # 0
               PROVE  m_bufferId' # 0 /\ Seen(buffers'[m_bufferId'], Pitch, c, meant[c])
    BY <1>2, <1>10, Zenon DEF ShadowInv, Seen, At
  <2> QED BY <1>8, <2>1
<1>18. FlightInv'
  <2> SUFFICES ASSUME NEW c \in Cells, meant[c] # 0, NEW chain, chain = flight', NEW write, write = meant[c]
               PROVE  Settled(chain, c, write)'
    BY <1>2, <1>10 DEF FlightInv
  <2>1. Seen(image, ServerPitch, c, write)'
    <3>1. Open = {}
      BY <1>3 DEF Open
    <3>2. Settled(flight, c, write)
      BY <3>1 DEF FlightInv
    <3>3. Len(flight) = 0
      <4>1. Len(<<>>) = 0
        OBVIOUS
      <4> QED BY <1>3, <4>1
    <3>4. Seen(image, ServerPitch, c, write)
      BY <3>2, <3>3 DEF Settled
    <3> QED BY <1>2, <1>10, <3>4 DEF Seen
  <2>2. CASE flight' = <<>>
    <3>1. Len(<<>>) = 0
      OBVIOUS
    <3> QED BY <2>1, <2>2, <3>1 DEF Settled
  <2>3. CASE \E m \in ImageCommands :
            /\ flight' = <<m>> /\ m.cmd = "UnlockRect" /\ CommandInv(m)'
            /\ \A d \in CellsOf(m.rect) : meant[d] # 0 => Shows(m, d, meant[d])'
    <3>1. PICK m \in ImageCommands :
            /\ flight' = <<m>> /\ m.cmd = "UnlockRect"
            /\ \A d \in CellsOf(m.rect) : meant[d] # 0 => Shows(m, d, meant[d])'
      BY <2>3
    <3>2. Len(<<m>>) = 1 /\ <<m>>[1] = m
      OBVIOUS
    <3>3. \A i \in 1 .. 1 : i = 1
      OBVIOUS
    <3>4. Len(chain) = 1 /\ \A i \in 1 .. 1 : chain[i] = m
      BY <3>1, <3>2, <3>3
    <3>5. Covers(m, c)' => c \in CellsOf(m.rect)
      <4>1. Covers(m, c)' <=> Covers(m, c)
        BY <1>2, SameCovers
      <4> QED BY <3>1, <4>1 DEF Covers
    <3>6. Covers(m, c)' => Shows(m, c, write)'
      BY <1>2, <3>1, <3>5
    <3> QED BY <2>1, <3>4, <3>6 DEF Settled
  <2> QED BY <1>13, <2>2, <2>3
<1> QED BY <1>14, <1>15, <1>16, <1>17, <1>18

------------------------------------------------------------------------------
(* The server *)

(* What is drawn, and the answer, which shows what the picture shows.      *)
LEMMA PaintedCell ==
    ASSUME WideRows, surface \in Shapes, image \in ByteArray(Rows * ServerPitch), NEW write \in Nat
    PROVE  /\ Painted(write) \in ByteArray(Rows * ServerPitch)
           /\ \A c \in Cells : Seen(Painted(write), ServerPitch, c, write)
<1>1. WholeFact
  BY WholeFacts
<1>2. ServerPitch \in Nat \ {0} /\ RowBytes \in Nat /\ Rows \in Nat /\ Rows * ServerPitch \in Nat
  <2>1. ServerPitch \in Nat /\ RowBytes \in Nat /\ Rows \in Nat /\ ServerPitch >= RowBytes /\ RowBytes >= 8
    BY <1>1 DEF WholeFact
  <2> QED BY <2>1
<1>3. DOMAIN image = 0 .. Rows * ServerPitch - 1
  BY DEF ByteArray
<1>4. \A p \in DOMAIN image : Painted(write)[p] \in Byte
  <2> TAKE p \in DOMAIN image
  <2>1. p \in Nat
    BY <1>2, <1>3
  <2>2. p \div ServerPitch \in Int /\ p % ServerPitch \in Int
    BY <1>2, <2>1, Division
  <2> QED BY <2>2 DEF Painted, Byte, Undefined
<1>5. Painted(write) \in ByteArray(Rows * ServerPitch)
  BY <1>3, <1>4 DEF Painted, ByteArray
<1>6. ASSUME NEW c \in Cells
      PROVE  Seen(Painted(write), ServerPitch, c, write)
  <2>1. /\ c[1] \in Nat /\ c[2] \in 0 .. RowBytes - 1 /\ c[2] \in 0 .. ServerPitch - 1
        /\ At(ServerPitch, c) \in 0 .. Rows * ServerPitch - 1
    BY CellFacts
  <2>2. PICK p : p = At(ServerPitch, c)
    OBVIOUS
  <2>3. p \div ServerPitch = c[1] /\ p % ServerPitch = c[2] /\ p \in DOMAIN image
    <3>1. (c[1] * ServerPitch + c[2]) \div ServerPitch = c[1] /\ (c[1] * ServerPitch + c[2]) % ServerPitch = c[2]
      BY <1>2, <2>1, RowDivision
    <3> QED BY <1>3, <2>1, <2>2, <3>1 DEF At
  <2>4. p % ServerPitch < RowBytes
    BY <1>2, <2>1, <2>3
  <2>5. Painted(write)[p] = <<write, c[1], c[2]>>
    BY <2>3, <2>4 DEF Painted
  <2> QED BY <2>2, <2>5 DEF Seen
<1> QED BY <1>5, <1>6

LEMMA PictureReturned ==
    ASSUME WideRows, surface \in Shapes, NEW picture \in ByteArray(Rows * ServerPitch), astray = FALSE,
           ReturnSurfaceDataToClient(picture)
    PROVE  /\ reply' \in ByteArray(Rows * RowBytes) /\ astray' = FALSE
           /\ \A c \in Cells : reply'[At(RowBytes, c)] = picture[At(ServerPitch, c)]
<1>1. WholeFact
  BY WholeFacts
<1>2. /\ RowBytes \in Nat /\ Rows \in Nat /\ ServerPitch \in Nat /\ ServerPitch >= RowBytes /\ RowBytes >= 8
      /\ Rows * RowBytes \in Nat /\ Rows * ServerPitch \in Nat /\ Whole \in surface.rects
  BY <1>1 DEF WholeFact
<1>3. /\ reply' = RowsCopied(Blank(Rows * RowBytes), 0, RowBytes, picture, 0, ServerPitch, Rows, RowBytes)
      /\ astray' = (astray \/ LeavesMemory(picture, 0, ServerPitch, Rows, RowBytes))
  BY <1>1 DEF ReturnSurfaceDataToClient, WholeFact
<1>4. Blank(Rows * RowBytes) \in ByteArray(Rows * RowBytes)
  BY <1>2, BlankType
<1>5. reply' \in ByteArray(Rows * RowBytes)
  BY <1>2, <1>3, <1>4, RowsCopiedType
<1>6. ASSUME NEW c \in Cells
      PROVE  reply'[At(RowBytes, c)] = picture[At(ServerPitch, c)]
  <2>1. PICK after, blank : after = reply' /\ blank = Blank(Rows * RowBytes)
    OBVIOUS
  <2>2. /\ after = RowsCopied(blank, 0, RowBytes, picture, 0, ServerPitch, Rows, RowBytes)
        /\ blank \in ByteArray(Rows * RowBytes) /\ ServerPitch \in Int /\ RowBytes >= RowBytes
    BY <1>2, <1>3, <1>4, <2>1
  <2>3. after[At(RowBytes, c)] = ByteAt(picture, At(ServerPitch, c))
    BY <1>2, <2>2, WholeCopied
  <2>4. At(ServerPitch, c) \in 0 .. Rows * ServerPitch - 1
    BY CellFacts
  <2>5. ByteAt(picture, At(ServerPitch, c)) = picture[At(ServerPitch, c)]
    BY <1>2, <2>4, ByteInside
  <2> QED BY <2>1, <2>3, <2>5
<1>7. ~LeavesMemory(picture, 0, ServerPitch, Rows, RowBytes)
  <2>1. ~LeavesMemory(picture, calcImageByteOffset(ServerPitch, Whole, format), ServerPitch,
                      RectRows(Whole), RectBytes(Whole))
    BY <1>2, RectInside
  <2>2. calcImageByteOffset(ServerPitch, Whole, format) = 0
    <3>1. calcImageByteOffset(ServerPitch, Whole, format) = Top(Whole) * ServerPitch + Left(Whole)
      BY <1>2, ByteOffset
    <3>2. Top(Whole) = 0 /\ Left(Whole) = 0
      BY <1>1 DEF WholeFact
    <3> QED BY <1>2, <3>1, <3>2
  <2> QED BY <1>1, <2>1, <2>2 DEF WholeFact
<1> QED BY <1>3, <1>5, <1>6, <1>7

(* The rows of an unlock reach the server's surface, and only they do.     *)
LEMMA ServerCopied ==
    ASSUME WideRows, ImageType, NEW m \in ImageCommands, m.cmd = "UnlockRect", CommandInv(m), ServerUnlockRect(m)
    PROVE  /\ image' \in ByteArray(Rows * ServerPitch) /\ astray' = FALSE /\ reply' = reply
           /\ \A write : \A c \in CellsOf(m.rect) : Shows(m, c, write) => Seen(image', ServerPitch, c, write)
           /\ \A c \in Cells \ CellsOf(m.rect) : image'[At(ServerPitch, c)] = image[At(ServerPitch, c)]
<1> DEFINE r == m.rect
           start == calcImageByteOffset(ServerPitch, r, format)
<1>1. WholeFact /\ surface \in Shapes /\ r \in surface.rects /\ RectFact(r)
  <2>1. surface \in Shapes /\ r \in surface.rects
    BY DEF ImageType, ImageCommands
  <2> QED BY <2>1, WholeFacts, RectFacts
<1>2. /\ RowBytes \in Nat /\ Rows \in Nat /\ ServerPitch \in Nat /\ ServerPitch >= RowBytes
      /\ Pitch = RowBytes /\ SurfaceSize = Rows * Pitch /\ SurfaceSize \in Nat /\ Pitch \in Nat
      /\ Rows * ServerPitch \in Nat /\ Pitch >= RowBytes
  BY <1>1 DEF WholeFact
<1>3. /\ Top(r) \in Nat /\ Left(r) \in Nat /\ RectRows(r) \in Nat /\ RectBytes(r) \in Nat /\ RectBytes(r) >= 1
      /\ RectRows(r) * RectBytes(r) \in Nat
  BY <1>1 DEF RectFact
<1>4. PICK from, fromStart, locked :
        /\ from = IF useSharedHeap THEN buffers[m.bufId] ELSE m.blob
        /\ fromStart = IF useSharedHeap THEN calcImageByteOffset(m.pitch, r, format) ELSE 0
        /\ locked = IF m.flags = "DISCARD" THEN Blank(Rows * ServerPitch) ELSE image
  OBVIOUS
<1>5. /\ image' = RowsCopied(locked, start, ServerPitch, from, fromStart, m.pitch, RectRows(r), RectBytes(r))
      /\ astray' = (astray \/ LeavesMemory(image, start, ServerPitch, RectRows(r), RectBytes(r))
                           \/ LeavesMemory(from, fromStart, m.pitch, RectRows(r), RectBytes(r)))
      /\ reply' = reply
  <2>1. calcRowSize("Server", Width(r), format) = RectBytes(r) /\ calcStride(Height(r), format) = RectRows(r)
    BY <1>1 DEF RectFact
  <2> QED BY <1>4, <2>1 DEF ServerUnlockRect
<1>6. image \in ByteArray(Rows * ServerPitch) /\ locked \in ByteArray(Rows * ServerPitch)
  <2>1. image \in ByteArray(Rows * ServerPitch) /\ Blank(Rows * ServerPitch) \in ByteArray(Rows * ServerPitch)
    BY <1>2, BlankType DEF ImageType
  <2> QED BY <1>4, <2>1
<1>7. /\ fromStart \in Int /\ m.pitch \in Int
      /\ ~LeavesMemory(from, fromStart, m.pitch, RectRows(r), RectBytes(r))
      /\ \A write : \A c \in CellsOf(r) : Shows(m, c, write) =>
           ByteAt(from, fromStart + (c[1] - Top(r)) * m.pitch + (c[2] - Left(r))) = <<write, c[1], c[2]>>
  <2>1. CASE useSharedHeap
    <3>1. /\ from = buffers[m.bufId] /\ fromStart = calcImageByteOffset(Pitch, r, format) /\ m.pitch = Pitch
      BY <1>4, <2>1 DEF CommandInv
    <3>2. from \in ByteArray(SurfaceSize)
      <4>1. m.bufId \in 1 .. Len(buffers) /\ buffers \in Seq(ByteArray(SurfaceSize))
        BY DEF CommandInv, ImageType
      <4> QED BY <3>1, <4>1, ElementOfSeq
    <3>3. ~LeavesMemory(from, fromStart, m.pitch, RectRows(r), RectBytes(r))
      <4>1. from \in ByteArray(Rows * Pitch)
        BY <1>2, <3>2
      <4> QED BY <1>1, <1>2, <3>1, <4>1, RectInside
    <3>4. fromStart \in Int
      <4>1. fromStart = Top(r) * Pitch + Left(r)
        BY <1>1, <3>1, ByteOffset
      <4> QED BY <1>2, <1>3, <4>1
    <3>5. ASSUME NEW c \in CellsOf(r), NEW write, Shows(m, c, write)
          PROVE  ByteAt(from, fromStart + (c[1] - Top(r)) * m.pitch + (c[2] - Left(r))) = <<write, c[1], c[2]>>
      <4>1. from[At(Pitch, c)] = <<write, c[1], c[2]>>
        BY <2>1, <3>1, <3>5 DEF Shows, Seen
      <4>2. fromStart + (c[1] - Top(r)) * m.pitch + (c[2] - Left(r)) = At(Pitch, c)
        BY <1>1, <1>2, <3>1, SameRows
      <4>3. At(Pitch, c) \in 0 .. SurfaceSize - 1
        <5>1. c \in Cells
          BY DEF CellsOf
        <5> QED BY <1>1, <1>2, <5>1, CellFacts
      <4>4. ByteAt(from, At(Pitch, c)) = from[At(Pitch, c)]
        BY <1>2, <3>2, <4>3, ByteInside
      <4> QED BY <4>1, <4>2, <4>4
    <3> QED BY <1>2, <3>1, <3>3, <3>4, <3>5
  <2>2. CASE ~useSharedHeap
    <3>1. from = m.blob /\ fromStart = 0 /\ m.pitch = RectBytes(r)
      BY <1>4, <2>2 DEF CommandInv
    <3>2. from \in ByteArray(RectRows(r) * RectBytes(r))
      BY <2>2, <3>1 DEF CommandInv
    <3>3. ~LeavesMemory(from, fromStart, m.pitch, RectRows(r), RectBytes(r))
      BY <1>3, <3>1, <3>2, RowsInside
    <3>4. ASSUME NEW c \in CellsOf(r), NEW write, Shows(m, c, write)
          PROVE  ByteAt(from, fromStart + (c[1] - Top(r)) * m.pitch + (c[2] - Left(r))) = <<write, c[1], c[2]>>
      <4>1. from[(c[1] - Top(r)) * RectBytes(r) + (c[2] - Left(r))] = <<write, c[1], c[2]>>
        BY <2>2, <3>1, <3>4 DEF Shows
      <4>2. /\ c \in Cells /\ c[1] \in Top(r) .. Top(r) + RectRows(r) - 1
            /\ c[2] \in Left(r) .. Left(r) + RectBytes(r) - 1
        BY <1>1 DEF RectFact
      <4>3. PICK y, x : y = c[1] - Top(r) /\ x = c[2] - Left(r)
        OBVIOUS
      <4>4. y \in 0 .. RectRows(r) - 1 /\ x \in 0 .. RectBytes(r) - 1 /\ y \in Nat /\ x \in Nat
        BY <1>3, <4>2, <4>3, Shifted
      <4>5. y * RectBytes(r) + x \in 0 .. RectRows(r) * RectBytes(r) - 1
        BY <1>3, <4>4, RowInside
      <4>6. fromStart + y * m.pitch + x = y * RectBytes(r) + x
        <5>1. y * RectBytes(r) \in Nat
          BY <1>3, <4>4
        <5> QED BY <3>1, <4>4, <5>1
      <4>7. ByteAt(from, y * RectBytes(r) + x) = from[y * RectBytes(r) + x]
        BY <1>3, <3>2, <4>5, ByteInside
      <4> QED BY <4>1, <4>3, <4>6, <4>7
    <3> QED BY <1>3, <3>1, <3>3, <3>4
  <2> QED BY <2>1, <2>2
<1>8. image' \in ByteArray(Rows * ServerPitch)
  <2>1. \A p : ByteAt(from, p) \in Byte
    <3>1. CASE useSharedHeap
      <4>1. from \in ByteArray(SurfaceSize)
        <5>1. m.bufId \in 1 .. Len(buffers) /\ buffers \in Seq(ByteArray(SurfaceSize))
          BY DEF CommandInv, ImageType
        <5> QED BY <1>4, <3>1, <5>1, ElementOfSeq
      <4> QED BY <1>2, <4>1, ByteAtType
    <3>2. CASE ~useSharedHeap
      <4>1. from \in ByteArray(RectRows(r) * RectBytes(r))
        BY <1>4, <3>2 DEF CommandInv
      <4> QED BY <1>3, <4>1, ByteAtType
    <3> QED BY <3>1, <3>2
  <2>2. DOMAIN locked = 0 .. Rows * ServerPitch - 1 /\ \A p \in DOMAIN locked : locked[p] \in Byte
    BY <1>6 DEF ByteArray
  <2> HIDE DEF start
  <2> QED BY <1>5, <2>1, <2>2 DEF RowsCopied, ByteArray
<1>9. astray' = FALSE
  <2>1. ~LeavesMemory(image, start, ServerPitch, RectRows(r), RectBytes(r))
    BY <1>1, <1>2, <1>6, RectInside
  <2>2. astray = FALSE
    BY DEF ImageType
  <2> QED BY <1>5, <1>7, <2>1, <2>2
<1>10. PICK after, fromPitch : after = image' /\ fromPitch = m.pitch
  OBVIOUS
<1>11. ASSUME NEW c \in Cells
       PROVE  /\ c \in CellsOf(r) =>
                    after[At(ServerPitch, c)]
                      = ByteAt(from, fromStart + (c[1] - Top(r)) * fromPitch + (c[2] - Left(r)))
              /\ c \notin CellsOf(r) => after[At(ServerPitch, c)] = locked[At(ServerPitch, c)]
  <2>1. /\ after = RowsCopied(locked, start, ServerPitch, from, fromStart, fromPitch, RectRows(r), RectBytes(r))
        /\ fromStart \in Int /\ fromPitch \in Int
    BY <1>5, <1>7, <1>10
  <2> QED BY <1>1, <1>2, <1>6, <2>1, RectCopied
<1>12. ASSUME NEW write, NEW c \in CellsOf(r), Shows(m, c, write)
       PROVE  Seen(image', ServerPitch, c, write)
  <2>1. c \in Cells
    BY DEF CellsOf
  <2> QED BY <1>7, <1>10, <1>11, <1>12, <2>1 DEF Seen
<1>13. ASSUME NEW c \in Cells \ CellsOf(r)
       PROVE  image'[At(ServerPitch, c)] = image[At(ServerPitch, c)]
  <2>1. m.flags # "DISCARD"
    BY <1>1, <1>13 DEF CommandInv, WholeFact
  <2>2. locked = image
    BY <1>4, <2>1
  <2> QED BY <1>10, <1>11, <2>2
<1> QED BY <1>5, <1>8, <1>9, <1>12, <1>13

(* The commands, as the server serves them; and what one does to its       *)
(* surface and answers.                                                    *)
ServeUnlock(m) == m.cmd = "UnlockRect" /\ ServerUnlockRect(m)
ServeLock(m) == m.cmd = "LockRect" /\ ReturnSurfaceDataToClient(image) /\ UNCHANGED image
ServeTarget(m) ==
    /\ m.cmd = "GetRenderTargetData"
    /\ image' = Painted(m.write)
    /\ ReturnSurfaceDataToClient(Painted(m.write))
ServeDraw(m) == m.cmd = "Draw" /\ image' = Painted(m.write) /\ UNCHANGED <<reply, astray>>

LEMMA ServedOne ==
    ASSUME WideRows, ImageInv, NEW m \in ImageCommands, CommandInv(m), NEW n \in Nat,
           Len(flight) = n + 1, flight[1] = m,
           ServeUnlock(m) \/ ServeLock(m) \/ ServeTarget(m) \/ ServeDraw(m)
    PROVE  /\ image' \in ByteArray(Rows * ServerPitch) /\ astray' = FALSE
           /\ \A write : \A c \in Cells : Covers(m, c) /\ Shows(m, c, write) => Seen(image', ServerPitch, c, write)
           /\ \A c \in Cells : ~Covers(m, c) => image'[At(ServerPitch, c)] = image[At(ServerPitch, c)]
           /\ \/ reply' = <<>> /\ m.cmd \in {"UnlockRect", "Draw"}
              \/ /\ n = 0 /\ asks # "none" /\ reply' \in ByteArray(Rows * RowBytes)
                 /\ \A c \in Cells : meant[c] # 0 => Seen(reply', RowBytes, c, meant[c])
<1> USE DEF ImageInv
<1>1. /\ surface \in Shapes /\ image \in ByteArray(Rows * ServerPitch) /\ astray = FALSE /\ ImageType
      /\ meant \in [Cells -> Nat]
  BY DEF ImageType
<1>2. reply = <<>>
  <2>1. flight # <<>>
    <3>1. Len(<<>>) = 0
      OBVIOUS
    <3> QED BY <3>1
  <2> QED BY <2>1 DEF AskedInv
<1>3. m.write \in Nat
  BY DEF ImageCommands
<1>4. ASSUME m.cmd \in {"LockRect", "GetRenderTargetData"}
      PROVE  n = 0 /\ asks # "none" /\ \A c \in Cells : meant[c] # 0 => Settled(flight, c, meant[c])
  <2>1. 1 \in 1 .. Len(flight)
    OBVIOUS
  <2>2. 1 = Len(flight) /\ asks = m.cmd
    BY <1>4, <2>1 DEF AskedInv
  <2>3. asks # "none"
    BY <1>4, <2>2
  <2>4. Open = {}
    BY <2>3 DEF Open
  <2> QED BY <2>2, <2>3, <2>4 DEF FlightInv
<1>5. CASE ServeUnlock(m)
  <2>1. m.cmd = "UnlockRect" /\ ServerUnlockRect(m)
    BY <1>5 DEF ServeUnlock
  <2>2. /\ image' \in ByteArray(Rows * ServerPitch) /\ astray' = FALSE /\ reply' = reply
        /\ \A write : \A c \in CellsOf(m.rect) : Shows(m, c, write) => Seen(image', ServerPitch, c, write)
        /\ \A c \in Cells \ CellsOf(m.rect) : image'[At(ServerPitch, c)] = image[At(ServerPitch, c)]
    BY <1>1, <2>1, ServerCopied
  <2>3. \A c : Covers(m, c) <=> c \in CellsOf(m.rect)
    BY <2>1 DEF Covers
  <2> QED BY <1>2, <2>1, <2>2, <2>3
<1>6. CASE ServeDraw(m)
  <2>1. m.cmd = "Draw" /\ image' = Painted(m.write) /\ reply' = <<>> /\ astray' = FALSE
    BY <1>1, <1>2, <1>6 DEF ServeDraw
  <2>2. image' \in ByteArray(Rows * ServerPitch) /\ \A c \in Cells : Seen(image', ServerPitch, c, m.write)
    BY <1>1, <1>3, <2>1, PaintedCell
  <2>3. \A c : Covers(m, c) /\ \A write : Shows(m, c, write) => m.write = write
    BY <2>1 DEF Covers, Shows
  <2> QED BY <2>1, <2>2, <2>3
<1>7. CASE ServeLock(m)
  <2>1. m.cmd = "LockRect" /\ ReturnSurfaceDataToClient(image) /\ image' = image
    BY <1>7 DEF ServeLock
  <2>2. PICK picture \in ByteArray(Rows * ServerPitch) : picture = image
    BY <1>1
  <2>3. /\ reply' \in ByteArray(Rows * RowBytes) /\ astray' = FALSE
        /\ \A c \in Cells : reply'[At(RowBytes, c)] = picture[At(ServerPitch, c)]
    <3>1. ReturnSurfaceDataToClient(picture)
      BY <2>1, <2>2
    <3> QED BY <1>1, <3>1, PictureReturned
  <2>4. n = 0 /\ asks # "none" /\ \A c \in Cells : meant[c] # 0 => Settled(flight, c, meant[c])
    BY <1>4, <2>1
  <2>5. \A c : ~Covers(m, c)
    BY <2>1 DEF Covers
  <2>6. ASSUME NEW c \in Cells, meant[c] # 0
        PROVE  Seen(reply', RowBytes, c, meant[c])
    <3>1. \A i \in 1 .. Len(flight) : flight[i] = m
      BY <2>4
    <3>2. Settled(flight, c, meant[c])
      BY <2>4, <2>6
    <3>3. Seen(image, ServerPitch, c, meant[c])
      BY <2>5, <3>1, <3>2 DEF Settled
    <3> QED BY <2>2, <2>3, <3>3 DEF Seen
  <2> QED BY <1>1, <2>1, <2>3, <2>4, <2>5, <2>6
<1>8. CASE ServeTarget(m)
  <2>1. m.cmd = "GetRenderTargetData" /\ image' = Painted(m.write) /\ ReturnSurfaceDataToClient(Painted(m.write))
    BY <1>8 DEF ServeTarget
  <2>2. Painted(m.write) \in ByteArray(Rows * ServerPitch) /\ \A c \in Cells : Seen(Painted(m.write), ServerPitch, c, m.write)
    BY <1>1, <1>3, PaintedCell
  <2>3. PICK picture \in ByteArray(Rows * ServerPitch) : picture = Painted(m.write)
    BY <2>2
  <2>4. /\ reply' \in ByteArray(Rows * RowBytes) /\ astray' = FALSE
        /\ \A c \in Cells : reply'[At(RowBytes, c)] = picture[At(ServerPitch, c)]
    <3>1. ReturnSurfaceDataToClient(picture)
      BY <2>1, <2>3
    <3> QED BY <1>1, <3>1, PictureReturned
  <2>5. n = 0 /\ asks # "none" /\ \A c \in Cells : meant[c] # 0 => Settled(flight, c, meant[c])
    BY <1>4, <2>1
  <2>6. \A c : Covers(m, c) /\ \A write : Shows(m, c, write) => m.write = write
    BY <2>1 DEF Covers, Shows
  <2>7. ASSUME NEW c \in Cells, meant[c] # 0
        PROVE  Seen(reply', RowBytes, c, meant[c])
    <3>1. flight[1] = m /\ 1 \in 1 .. Len(flight) /\ \A j \in 1 + 1 .. Len(flight) : ~Covers(flight[j], c)
      BY <2>5
    <3>2. Settled(flight, c, meant[c])
      BY <2>5, <2>7
    <3>3. Shows(m, c, meant[c])
      BY <2>6, <3>1, <3>2 DEF Settled
    <3>4. m.write = meant[c]
      BY <2>6, <3>3
    <3> QED BY <2>2, <2>3, <2>4, <3>4 DEF Seen
  <2> QED BY <2>1, <2>2, <2>4, <2>5, <2>6, <2>7
<1> QED BY <1>5, <1>6, <1>7, <1>8

(* The server serves a command. *)
LEMMA ServeImageInv ==
    ASSUME WideRows, ImageInv, ServeImage
    PROVE  ImageInv'
<1> USE DEF ImageInv
<1>1. PICK m : m = Head(flight)
  OBVIOUS
<1>2. /\ flight # <<>> /\ flight' = Tail(flight)
      /\ ServeUnlock(m) \/ ServeLock(m) \/ ServeTarget(m) \/ ServeDraw(m)
      /\ constantsOfSurface' = constantsOfSurface /\ m_bufferId' = m_bufferId /\ buffers' = buffers
      /\ m_lockInfoQueue' = m_lockInfoQueue /\ held' = held /\ asks' = asks /\ meant' = meant /\ writes' = writes
  BY <1>1 DEF ServeImage, ServeUnlock, ServeLock, ServeTarget, ServeDraw
<1>3. /\ CommandsInv(flight) /\ flight \in Seq(ImageCommands) /\ buffers \in Seq(ByteArray(SurfaceSize))
      /\ \A i \in 1 .. Len(flight) : CommandInv(flight[i])
  BY DEF ImageType, CommandsInv
<1>4. PICK n \in Nat : Len(flight) = n + 1
  <2>1. Len(flight) \in Nat /\ Len(flight) # 0
    BY <1>2, <1>3, EmptySeq, LenProperties
  <2>2. Len(flight) - 1 \in Nat /\ Len(flight) = (Len(flight) - 1) + 1
    BY <2>1
  <2> QED BY <2>2
<1>5. /\ flight[1] = m /\ flight' \in Seq(ImageCommands) /\ Len(flight') = n
      /\ \A i \in 1 .. n : flight'[i] = flight[i + 1]
  <2>1. Head(flight) = flight[1]
    BY <1>2, <1>3
  <2>2. /\ Tail(flight) \in Seq(ImageCommands) /\ Len(Tail(flight)) = Len(flight) - 1
        /\ \A i \in 1 .. Len(Tail(flight)) : Tail(flight)[i] = flight[i + 1]
    BY <1>2, <1>3, HeadTailProperties
  <2>3. Len(flight) - 1 = n
    BY <1>4
  <2> QED BY <1>1, <1>2, <2>1, <2>2, <2>3
<1>6. m \in ImageCommands /\ CommandInv(m)
  <2>1. 1 \in 1 .. Len(flight)
    BY <1>4
  <2> QED BY <1>3, <1>5, <2>1, ElementOfSeq
<1>7. /\ image' \in ByteArray(Rows * ServerPitch) /\ astray' = FALSE
      /\ \A write : \A c \in Cells : Covers(m, c) /\ Shows(m, c, write) => Seen(image', ServerPitch, c, write)
      /\ \A c \in Cells : ~Covers(m, c) => image'[At(ServerPitch, c)] = image[At(ServerPitch, c)]
      /\ \/ reply' = <<>> /\ m.cmd \in {"UnlockRect", "Draw"}
         \/ /\ n = 0 /\ asks # "none" /\ reply' \in ByteArray(Rows * RowBytes)
            /\ \A c \in Cells : meant[c] # 0 => Seen(reply', RowBytes, c, meant[c])
  BY <1>2, <1>4, <1>5, <1>6, ServedOne
<1>8. /\ surface' = surface /\ useSharedHeap' = useSharedHeap /\ captured' = captured
      /\ Rows' = Rows /\ RowBytes' = RowBytes /\ Cells' = Cells /\ ServerPitch' = ServerPitch
      /\ Pitch' = Pitch /\ SurfaceSize' = SurfaceSize /\ Locks' = Locks /\ Whole' = Whole /\ ImageCommands' = ImageCommands
      /\ \A r : CellsOf(r)' = CellsOf(r)
  BY <1>2, SameSurface
<1>9. ImageType'
  <2>1. CommandsInv(flight)'
    <3>1. PICK shorter : shorter = flight'
      OBVIOUS
    <3>2. \A d : CommandInv(d) => CommandInv(d)'
      <4>1. Len(buffers) \in Nat /\ Len(buffers') \in Nat /\ Len(buffers) =< Len(buffers')
        BY <1>2, <1>3, LenProperties
      <4> QED BY <1>2, <4>1, SameCommand
    <3>3. \A i \in 1 .. n : CommandInv(shorter[i])'
      <4> TAKE i \in 1 .. n
      <4>1. i + 1 \in 1 .. Len(flight)
        BY <1>4
      <4>2. CommandInv(flight[i + 1])
        BY <1>3, <4>1
      <4>3. PICK d : d = flight[i + 1] /\ d = shorter[i]
        BY <1>5, <3>1
      <4> QED BY <3>2, <4>2, <4>3
    <3>4. CommandsInv(shorter)'
      BY <1>5, <1>8, <3>1, <3>3 DEF CommandsInv
    <3> QED BY <3>1, <3>4
  <2> QED BY <1>2, <1>7, <1>8, <2>1 DEF ImageType
<1>10. LockedInv'
  <2>1. CASE held = <<>>
    BY <1>2, <2>1 DEF LockedInv
  <2>2. CASE held # <<>>
    <3>1. PICK locked, locks, id : locked = held /\ locks = m_lockInfoQueue /\ id = m_bufferId
      OBVIOUS
    <3>2. LockHeld(locked, locks, id)
      BY <2>2, <3>1 DEF LockedInv
    <3>3. LockHeld(locked, locks, id)'
      BY <1>8, <3>2 DEF LockHeld
    <3>4. LockHeld(held, m_lockInfoQueue, m_bufferId)'
      BY <1>2, <3>1, <3>3
    <3> QED BY <1>2, <2>2, <3>4 DEF LockedInv
  <2> QED BY <2>1, <2>2
<1>11. AskedInv'
  <2>1. /\ asks' \in {"none", "LockRect", "GetRenderTargetData"}
        /\ asks' = "LockRect" => captured' /\ held' # <<>>
        /\ asks' = "GetRenderTargetData" => held' = <<>>
    BY <1>2, <1>8 DEF AskedInv
  <2>2. CASE reply' = <<>> /\ m.cmd \in {"UnlockRect", "Draw"}
    <3>1. \A i \in 1 .. Len(flight') :
        flight'[i].cmd \in {"LockRect", "GetRenderTargetData"} =>
            i = Len(flight') /\ asks' = flight'[i].cmd /\ reply' = <<>>
      <4> TAKE i \in 1 .. Len(flight')
      <4>1. i \in 1 .. n /\ i + 1 \in 1 .. Len(flight)
        BY <1>4, <1>5
      <4>2. flight'[i] = flight[i + 1]
        BY <1>5, <4>1
      <4>3. flight[i + 1].cmd \in {"LockRect", "GetRenderTargetData"} =>
              i + 1 = Len(flight) /\ asks = flight[i + 1].cmd
        BY <4>1 DEF AskedInv
      <4>4. i + 1 = Len(flight) => i = Len(flight')
        BY <1>4, <1>5, <4>1
      <4> QED BY <1>2, <2>2, <4>2, <4>3, <4>4
    <3> QED BY <2>1, <2>2, <3>1 DEF AskedInv
  <2>3. CASE /\ n = 0 /\ asks # "none" /\ reply' \in ByteArray(Rows * RowBytes)
             /\ \A c \in Cells : meant[c] # 0 => Seen(reply', RowBytes, c, meant[c])
    <3>1. flight' = <<>>
      BY <1>5, <2>3, EmptySeq
    <3>2. Len(flight') = 0
      BY <1>5, <2>3
    <3>3. \A c \in Cells' : meant'[c] # 0 => Seen(reply, RowBytes, c, meant[c])'
      BY <1>2, <1>8, <2>3 DEF Seen, At
    <3>4. asks' # "none" /\ reply' \in ByteArray(Rows' * RowBytes')
      BY <1>2, <1>8, <2>3
    <3> QED BY <2>1, <3>1, <3>2, <3>3, <3>4 DEF AskedInv, ByteArray, Byte
  <2> QED BY <1>7, <2>2, <2>3
<1>12. ShadowInv'
  BY <1>2, <1>8, Zenon DEF ShadowInv, Seen, At
<1>13. FlightInv'
  <2>1. Open' = Open
    <3>1. PICK r : r = held[1]
      OBVIOUS
    <3>2. CellsOf(r)' = CellsOf(r)
      BY <1>8
    <3>3. CellsOf(held[1])' = CellsOf(held[1])
      BY <1>2, <3>1, <3>2
    <3> QED BY <1>2, <3>3 DEF Open
  <2> SUFFICES ASSUME NEW c \in Cells \ Open, meant[c] # 0, NEW chain, chain = flight, NEW shorter, shorter = flight',
                      NEW write, write = meant[c]
               PROVE  Settled(shorter, c, write)'
    BY <1>2, <1>8, <2>1 DEF FlightInv
  <2>2. Settled(chain, c, write)
    BY DEF FlightInv
  <2>3. \A d, w : Shows(d, c, w)' <=> Shows(d, c, w)
    BY <1>2, SameShows
  <2>4. Covers(m, c) /\ Shows(m, c, write) => Seen(image, ServerPitch, c, write)'
    <3>1. Covers(m, c) /\ Shows(m, c, write) => Seen(image', ServerPitch, c, write)
      BY <1>7
    <3> QED BY <1>8, <3>1 DEF Seen, At
  <2>5. ~Covers(m, c) => image'[At(ServerPitch, c)] = image[At(ServerPitch, c)]
    BY <1>7
  <2>6. /\ Len(chain) = n + 1 /\ Len(shorter) = n /\ chain[1] = m
        /\ \A i \in 1 .. n : shorter[i] = chain[i + 1]
    BY <1>4, <1>5
  <2>7. \A i \in 1 .. n : Shows(shorter[i], c, write) => Shows(shorter[i], c, write)'
    BY <2>3
  <2>8. constantsOfSurface' = constantsOfSurface
    BY <1>2
  <2> QED BY <2>2, <2>4, <2>5, <2>6, <2>7, <2>8, TailSettled, Zenon
<1> QED BY <1>9, <1>10, <1>11, <1>12, <1>13

------------------------------------------------------------------------------
(* All steps *)

(* A new surface. *)
LEMMA InitImageInv ==
    ASSUME WideRows, InitImages
    PROVE  ImageInv
<1> USE DEF InitImages
<1>1. WholeFact /\ surface \in Shapes
  BY WholeFacts
<1>2. Rows * ServerPitch \in Nat
  BY <1>1 DEF WholeFact
<1>3. image \in ByteArray(Rows * ServerPitch)
  BY <1>2, BlankType
<1>4. \A S : <<>> \in Seq(S)
  OBVIOUS
<1>5. Len(<<>>) = 0
  OBVIOUS
<1>6. CommandsInv(flight)
  BY <1>4, <1>5 DEF CommandsInv
<1>7. meant \in [Cells -> Nat] /\ \A c \in Cells : meant[c] = 0
  OBVIOUS
<1>8. ImageType
  BY <1>3, <1>4, <1>5, <1>6, <1>7 DEF ImageType
<1>9. LockedInv /\ AskedInv
  BY <1>5 DEF LockedInv, AskedInv
<1>10. ShadowInv /\ FlightInv
  BY <1>7 DEF ShadowInv, FlightInv
<1> QED BY <1>8, <1>9, <1>10 DEF ImageInv

(* A step of others. *)
LEMMA IdleImageInv ==
    ASSUME ImageInv, UNCHANGED imageVars
    PROVE  ImageInv'
<1> USE DEF ImageInv
<1>1. /\ constantsOfSurface' = constantsOfSurface /\ m_bufferId' = m_bufferId /\ buffers' = buffers
      /\ m_lockInfoQueue' = m_lockInfoQueue /\ held' = held /\ flight' = flight /\ asks' = asks
      /\ reply' = reply /\ image' = image /\ meant' = meant /\ writes' = writes /\ astray' = astray
  BY DEF imageVars, constantsOfSurface
<1>2. /\ surface' = surface /\ useSharedHeap' = useSharedHeap /\ captured' = captured
      /\ Rows' = Rows /\ RowBytes' = RowBytes /\ Cells' = Cells /\ ServerPitch' = ServerPitch
      /\ Pitch' = Pitch /\ SurfaceSize' = SurfaceSize /\ Locks' = Locks /\ Whole' = Whole /\ ImageCommands' = ImageCommands
      /\ \A r : CellsOf(r)' = CellsOf(r)
  BY <1>1, SameSurface
<1>3. ImageType'
  <2>1. CommandsInv(flight)'
    <3>1. PICK chain : chain = flight
      OBVIOUS
    <3>2. CommandsInv(chain)
      BY <3>1 DEF ImageType
    <3>3. CommandsInv(chain)'
      <4>1. Len(buffers) \in Nat /\ Len(buffers') \in Nat /\ Len(buffers) =< Len(buffers')
        BY <1>1, LenProperties DEF ImageType
      <4> QED BY <1>1, <3>2, <4>1, SameFlight
    <3> QED BY <1>1, <3>1, <3>3
  <2> QED BY <1>1, <1>2, <2>1 DEF ImageType
<1>4. LockedInv'
  <2>1. CASE held = <<>>
    BY <1>1, <2>1 DEF LockedInv
  <2>2. CASE held # <<>>
    <3>1. PICK locked, locks, id : locked = held /\ locks = m_lockInfoQueue /\ id = m_bufferId
      OBVIOUS
    <3>2. LockHeld(locked, locks, id)
      BY <2>2, <3>1 DEF LockedInv
    <3>3. LockHeld(locked, locks, id)'
      BY <1>2, <3>2 DEF LockHeld
    <3>4. LockHeld(held, m_lockInfoQueue, m_bufferId)'
      BY <1>1, <3>1, <3>3
    <3> QED BY <1>1, <2>2, <3>4 DEF LockedInv
  <2> QED BY <2>1, <2>2
<1>5. AskedInv'
  BY <1>1, <1>2, Zenon DEF AskedInv, Seen, At, ByteArray, Byte
<1>6. ShadowInv'
  BY <1>1, <1>2, Zenon DEF ShadowInv, Seen, At
<1>7. FlightInv'
  <2>1. Open' = Open
    <3>1. PICK r : r = held[1]
      OBVIOUS
    <3>2. CellsOf(r)' = CellsOf(r)
      BY <1>2
    <3>3. CellsOf(held[1])' = CellsOf(held[1])
      BY <1>1, <3>1, <3>2
    <3> QED BY <1>1, <3>3 DEF Open
  <2> SUFFICES ASSUME NEW c \in Cells \ Open, meant[c] # 0, NEW chain, chain = flight, NEW write, write = meant[c]
               PROVE  Settled(chain, c, write)'
    BY <1>1, <1>2, <2>1 DEF FlightInv
  <2>2. Settled(chain, c, write)
    BY DEF FlightInv
  <2>3. \A d, w : Shows(d, c, w)' <=> Shows(d, c, w)
    BY <1>1, SameShows
  <2>4. Len(chain) \in Nat
    BY LenProperties DEF ImageType, CommandsInv
  <2>5. \A i \in 1 .. Len(chain) : Shows(chain[i], c, write) => Shows(chain[i], c, write)'
    BY <2>3
  <2> QED BY <1>1, <2>2, <2>4, <2>5, StaysSettled
<1> QED BY <1>3, <1>4, <1>5, <1>6, <1>7

(* Every step keeps the invariant. *)
LEMMA NextImageInv ==
    ASSUME WideRows, ImageInv, [ImagesNext]_imageVars
    PROVE  ImageInv'
<1>1. Whole \in surface.rects
  BY WholeFacts DEF ImageInv, ImageType, WholeFact
<1>2. ASSUME NEW rect \in surface.rects, NEW flags \in {"0", "READONLY", "DISCARD"}, LockRect(rect, flags)
      PROVE  ImageInv'
  BY <1>2, LockRectInv DEF Flags
<1>3. ASSUME NEW rect \in surface.rects, WriteLocked(rect)
      PROVE  ImageInv'
  BY <1>3, WriteLockedInv
<1>4. CASE GetDC
  BY <1>1, <1>4, LockRectInv DEF GetDC, Flags
<1>5. CASE ReleaseDC
  BY <1>5, UnlockRectInv DEF ReleaseDC
<1>6. CASE UnlockRect
  BY <1>6, UnlockRectInv
<1>7. CASE GetRenderTargetData
  BY <1>7, GetRenderTargetDataInv
<1>8. CASE Draw
  BY <1>8, DrawInv
<1>9. CASE copyServerSurfaceRawData
  BY <1>9, ReadBackInv
<1>10. CASE ServeImage
  BY <1>10, ServeImageInv
<1>11. CASE UNCHANGED imageVars
  BY <1>11, IdleImageInv
<1> QED
  BY <1>2, <1>3, <1>4, <1>5, <1>6, <1>7, <1>8, <1>9, <1>10, <1>11 DEF ImagesNext

(* The invariant implies what is promised. *)
LEMMA InvImpliesCopied ==
    ASSUME WideRows, ImageInv
    PROVE  ImageCopied
<1> USE DEF ImageInv
<1>1. /\ surface \in Shapes /\ image \in ByteArray(Rows * ServerPitch) /\ astray = FALSE
      /\ buffers \in Seq(ByteArray(SurfaceSize)) /\ m_bufferId \in 0 .. Len(buffers)
  BY DEF ImageType
<1>2. WholeFact
  BY <1>1, WholeFacts
<1>3. /\ Rows \in Nat /\ RowBytes \in Nat /\ ServerPitch \in Nat /\ Pitch = RowBytes /\ SurfaceSize = Rows * RowBytes
      /\ Rows * ServerPitch \in Nat /\ Rows * RowBytes \in Nat
  BY <1>2 DEF WholeFact
<1>4. ASSUME held = <<>>, flight = <<>>, asks = "none", NEW c \in Cells, meant[c] # 0
      PROVE  ByteAt(image, c[1] * ServerPitch + c[2]) = <<meant[c], c[1], c[2]>>
  <2>1. Open = {}
    BY <1>4 DEF Open
  <2>2. Settled(flight, c, meant[c])
    BY <1>4, <2>1 DEF FlightInv
  <2>3. Len(flight) = 0
    <3>1. Len(<<>>) = 0
      OBVIOUS
    <3> QED BY <1>4, <3>1
  <2>4. Seen(image, ServerPitch, c, meant[c])
    BY <2>2, <2>3 DEF Settled
  <2>5. At(ServerPitch, c) \in 0 .. Rows * ServerPitch - 1
    BY <1>1, CellFacts
  <2>6. ByteAt(image, At(ServerPitch, c)) = image[At(ServerPitch, c)]
    BY <1>1, <1>3, <2>5, ByteInside
  <2> QED BY <2>4, <2>6 DEF Seen, At
<1>5. ASSUME held # <<>>, captured, asks = "none", NEW c \in CellsOf(held[1]), meant[c] # 0
      PROVE  ByteAt(buffers[m_bufferId], c[1] * Pitch + c[2]) = <<meant[c], c[1], c[2]>>
  <2>1. c \in Cells
    BY DEF CellsOf
  <2>2. m_bufferId # 0 /\ Seen(buffers[m_bufferId], Pitch, c, meant[c])
    BY <1>5, <2>1 DEF ShadowInv
  <2>3. buffers[m_bufferId] \in ByteArray(SurfaceSize)
    <3>1. Len(buffers) \in Nat
      BY <1>1, LenProperties
    <3>2. m_bufferId \in 1 .. Len(buffers)
      BY <1>1, <2>2, <3>1
    <3> QED BY <1>1, <3>2, ElementOfSeq
  <2>4. At(Pitch, c) \in 0 .. Rows * RowBytes - 1
    BY <1>1, <1>3, <2>1, CellFacts
  <2>5. ByteAt(buffers[m_bufferId], At(Pitch, c)) = buffers[m_bufferId][At(Pitch, c)]
    BY <1>3, <2>3, <2>4, ByteInside
  <2> QED BY <2>2, <2>5 DEF Seen, At
<1> QED BY <1>1, <1>4, <1>5 DEF ImageCopied

LEMMA InvImpliesFits ==
    ASSUME WideRows, ImageInv
    PROVE  PulledSizeFits
<1>1. surface \in Shapes
  BY DEF ImageInv, ImageType
<1>2. /\ calcStride(surface.height, format) = Rows /\ calcRowSize("Client", surface.width, format) = RowBytes
      /\ Rows * RowBytes \in Nat
  BY <1>1, WholeFacts DEF WholeFact
<1>3. ASSUME reply # <<>>
      PROVE  Cardinality(DOMAIN reply) = Rows * RowBytes
  <2>1. DOMAIN reply = 0 .. Rows * RowBytes - 1
    BY <1>3 DEF ImageInv, AskedInv, ByteArray
  <2>2. PICK n \in Nat : n = Rows * RowBytes
    BY <1>2
  <2>3. Cardinality(0 .. n - 1) = n
    <3>1. 0 \in Int /\ n - 1 \in Int
      OBVIOUS
    <3>2. Cardinality(0 .. n - 1) = IF 0 > n - 1 THEN 0 ELSE n - 1 - 0 + 1
      BY <3>1, FS_Interval
    <3> QED BY <3>2
  <2> QED BY <2>1, <2>2, <2>3
<1> QED BY <1>2, <1>3 DEF PulledSizeFits

(* ImageCopied, for surfaces of any size and format and any rectangles of  *)
(* them whose rows have eight bytes or more, any number of buffers, of     *)
(* writes and of commands under way: whatever the game locks, writes and   *)
(* unlocks, through the data queue or the shared heap, captured back       *)
(* buffers and read-backs included, when the server has caught up its      *)
(* surface shows the last write of every byte, and so does the buffer a    *)
(* lock returns; no copy leaves the memory it is meant for.                *)
THEOREM ImagesAreCopied ==
    ASSUME WideRows
    PROVE  ImagesSpec => []ImageCopied
<1>1. InitImages => ImageInv
  BY InitImageInv
<1>2. ImageInv /\ [ImagesNext]_imageVars => ImageInv'
  BY NextImageInv
<1>3. ImageInv => ImageCopied
  BY InvImpliesCopied
<1> QED BY <1>1, <1>2, <1>3, PTL DEF ImagesSpec

(* PulledSizeFits for the same surfaces: the rows the server answers with  *)
(* have the size the client reads.  Narrower rows are what the assertion   *)
(* of copyServerSurfaceRawData fails on.                                   *)
THEOREM AnswersFit ==
    ASSUME WideRows
    PROVE  ImagesSpec => []PulledSizeFits
<1>1. InitImages => ImageInv
  BY InitImageInv
<1>2. ImageInv /\ [ImagesNext]_imageVars => ImageInv'
  BY NextImageInv
<1>3. ImageInv => PulledSizeFits
  BY InvImpliesFits
<1> QED BY <1>1, <1>2, <1>3, PTL DEF ImagesSpec
================================================================================
