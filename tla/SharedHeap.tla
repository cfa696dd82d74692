------------------------------ MODULE SharedHeap ------------------------------
(***************************************************************************)
(* The shared heap of util_sharedheap.cpp: shared-memory segments carved   *)
(* into chunks, which the client allocates and the server gives back.      *)
(*                                                                         *)
(* The client keeps the allocator (m_segments, m_nChunks, m_cache,         *)
(* m_allocations, m_nextUid); the server keeps its own list of segments    *)
(* and its own m_cache, brought up to date by the commands                 *)
(* Bridge_SharedHeap_AddSeg, _Alloc and _Dealloc of the device queue.      *)
(* They share one byte of state per chunk (m_metaShMem).  Only the server  *)
(* marks an allocation Deallocated, when the Dealloc command reaches it    *)
(* behind every Unlock that reads the memory; only the client turns it     *)
(* back to Unallocated, the next time a request does not fit.              *)
(*                                                                         *)
(* Sizes are in chunks.  Results of a search are sets: empty when nothing  *)
(* is found, one element when something is, several only where the code    *)
(* reads an uninitialised value.                                           *)
(***************************************************************************)
EXTENDS Integers, Sequences

CONSTANTS
    FirstSegment,   \* sharedHeapDefaultSegmentSize
    MaxHeap         \* kMax32BitHeapSize

ASSUME HeapAssumption ==
    /\ FirstSegment \in Nat \ {0, 1}
    /\ MaxHeap \in Nat
    /\ FirstSegment =< MaxHeap

None == -1                      \* kInvalidId
Chunks == 0 .. MaxHeap - 1
VARIABLES
    segments,       \* client: m_segments, each its base chunk and its size
    nChunks,        \* client: m_nChunks
    defaultSize,    \* client: m_defaultSegmentSize
    cache,          \* client: m_cache, allocation id -> first chunk
    allocations,    \* client: m_allocations, first chunk -> final chunk
    nextUid,        \* client: m_nextUid
    chunk,          \* shared: the state of every chunk
    srvSegments,    \* server: m_segments
    srvChunks,      \* server: m_nChunks
    srvCache,       \* server: m_cache
    queue           \* the commands the server has still to process

clientHeap == <<segments, nChunks, defaultSize, cache, allocations, nextUid>>
serverHeap == <<srvSegments, srvChunks, srvCache>>

---------------------------------------------------------------------------
(* Segments *)

\* The sizes addNewHeapSegment may end up with: what is left of the heap, at
\* most the default size, halved as often as the system refuses to map it.
SegmentSizes(total, size) ==
    LET most == IF MaxHeap - total < size THEN MaxHeap - total ELSE size
    IN  {s \in 1 .. MaxHeap - total :
            \E k \in 0 .. most : 2 ^ k < most /\ s = most \div (2 ^ k)}

InSegment(segs, j, c) ==
    segs[j].base =< c /\ c < segs[j].base + segs[j].size

chunkIdToSegId(segs, c) == {j \in DOMAIN segs : InSegment(segs, j, c)}

---------------------------------------------------------------------------
(* The client's search for free chunks *)

createAllocation(first, n) == [first |-> first, final |-> first + n - 1]

isValidAllocation(a) ==
    /\ a.first < nChunks
    /\ a.final < nChunks
    /\ a.first =< a.final
    /\ chunkIdToSegId(segments, a.first) \cap chunkIdToSegId(segments, a.final) # {}

\* The free strips that lie before an allocation: the chunk after the previous
\* one (chunk 0 for the first) up to the allocation, when not empty.
StripsBefore ==
    {s \in ({0} \cup {allocations[b] + 1 : b \in DOMAIN allocations})
              \X DOMAIN allocations :
        /\ s[1] < s[2]
        /\ \/ /\ s[1] = 0
              /\ \A c \in DOMAIN allocations : s[2] =< c
           \/ \E b \in DOMAIN allocations :
                /\ b < s[2]
                /\ s[1] = allocations[b] + 1
                /\ \A c \in DOMAIN allocations : c < s[2] => c =< b}

\* The first strip long enough is the answer, whether or not the allocation it
\* gives is a valid one.
findFreeInMiddle(n) ==
    LET fitting == {s \in StripsBefore : s[2] - s[1] >= n}
    IN  {createAllocation(s[1], n) :
            s \in {t \in fitting : \A u \in fitting : t[2] =< u[2]}}

\* A mutant of findFreeOnEnd: the chunk after the last allocation's first one.
FreeAfterFirst(n) ==
    IF DOMAIN allocations = {}
    THEN {createAllocation(c, n) : c \in 0 .. MaxHeap}
    ELSE {createAllocation(b + 1, n) :
            b \in {d \in DOMAIN allocations : \A c \in DOMAIN allocations : c =< d}}

\* The chunks after the last allocation.  Without any, the code reads the
\* element before the end of an empty map: the value is whatever is there.
findFreeOnEnd(n) ==
    IF DOMAIN allocations = {}
    THEN {createAllocation(c, n) : c \in 0 .. MaxHeap}
    ELSE {createAllocation(allocations[b] + 1, n) :
            b \in {d \in DOMAIN allocations : \A c \in DOMAIN allocations : c =< d}}

ValidInMiddle(n) == {a \in findFreeInMiddle(n) : isValidAllocation(a)}
ValidOnEnd(n) == {a \in findFreeOnEnd(n) : isValidAllocation(a)}

Found(n) == IF ValidInMiddle(n) # {} THEN ValidInMiddle(n) ELSE ValidOnEnd(n)

NotFound(n) ==
    /\ ValidInMiddle(n) = {}
    /\ ValidOnEnd(n) # findFreeOnEnd(n)

\* The ids whose first chunk the server has marked.
Returned == {id \in DOMAIN cache : chunk[cache[id]] = "Deallocated"}

\* They are erased from both maps, and the mark is cleared.
freeDeallocations ==
    LET firsts == {cache[id] : id \in Returned}
    IN  /\ cache' = [id \in DOMAIN cache \ Returned |-> cache[id]]
        /\ allocations' = [c \in DOMAIN allocations \ firsts |-> allocations[c]]
        /\ chunk' = [c \in DOMAIN chunk |->
                        IF c \in firsts THEN "Unallocated" ELSE chunk[c]]

\* The end of allocate, once chunks are found: a fresh id, both maps, the
\* Alloc command and the first chunk's mark.
TakeChunks(a) ==
    /\ nextUid' = nextUid + 1
    /\ cache' = [id \in DOMAIN cache \cup {nextUid} |->
                    IF id = nextUid THEN a.first ELSE cache[id]]
    /\ allocations' = [c \in DOMAIN allocations \cup {a.first} |->
                          IF c = a.first THEN a.final ELSE allocations[c]]
    /\ queue' = Append(queue, [op |-> "Alloc", id |-> nextUid, first |-> a.first])
    /\ chunk' = [chunk EXCEPT ![a.first] = "Allocated"]

addNewHeapSegment(size) ==
    /\ segments' = Append(segments, [base |-> nChunks, size |-> size])
    /\ nChunks' = nChunks + size
    /\ queue' = Append(queue, [op |-> "AddSeg", size |-> size])

\* A request larger than the default segment size doubles it until it fits.
Grown(n) ==
    CHOOSE s \in {defaultSize * 2 ^ k : k \in 0 .. n} :
        /\ s >= n
        /\ \A k \in 0 .. n : defaultSize * 2 ^ k >= n => s =< defaultSize * 2 ^ k

---------------------------------------------------------------------------
(* The server's side *)

\* m_cache[id] of an id the server does not know creates it with chunk 0.
SrvFirst(id) == IF id \in DOMAIN srvCache THEN srvCache[id] ELSE 0

\* Mapping a segment the client has created may fail at the server, which
\* then goes on without it.
ServerAddSeg(m) ==
    /\ \/ /\ srvSegments' = Append(srvSegments, [base |-> srvChunks, size |-> m.size])
          /\ srvChunks' = srvChunks + m.size
       \/ UNCHANGED <<srvSegments, srvChunks>>
    /\ UNCHANGED <<srvCache, chunk>>

ServerAllocate(m) ==
    /\ srvCache' = [id \in DOMAIN srvCache \cup {m.id} |->
                       IF id = m.id THEN m.first ELSE srvCache[id]]
    /\ UNCHANGED <<srvSegments, srvChunks, chunk>>

ServerDeallocate(m) ==
    /\ chunk' = [chunk EXCEPT ![SrvFirst(m.id)] = "Deallocated"]
    /\ srvCache' = [id \in DOMAIN srvCache \ {m.id} |-> srvCache[id]]
    /\ UNCHANGED <<srvSegments, srvChunks>>

\* The client's chunks that lie at the address where the server looks for
\* chunk c: a segment is opened by its number, so the number and the offset
\* decide (none when the server has mapped no such segment).
SeenByServer(c) ==
    {segments[j].base + (c - srvSegments[j].base) :
        j \in chunkIdToSegId(srvSegments, c)}
==============================================================================
