------------------------------- MODULE Lockable -------------------------------
(***************************************************************************)
(* Buffers and surfaces that live in the shared heap: lock, unlock and the *)
(* destructors of lockable_buffer.h and d3d9_surface.cpp, which handle the *)
(* heap alike, over the allocator of SharedHeap, and the server's Unlock   *)
(* and heap commands.                                                      *)
(*                                                                         *)
(* Lock and Unlock of the client run under the device's lock, one at a     *)
(* time; the server runs beside them.  A Lock that needs memory takes      *)
(* several steps (findAllocation's loop), between which the server works   *)
(* its queue off.  A resource that was destroyed stands for the next one   *)
(* of the same size.                                                       *)
(***************************************************************************)
EXTENDS SharedHeap, FiniteSets

CONSTANTS
    Resources,
    Size,           \* [Resources -> chunks]: m_desc.Size, or the surface's size
    MaxLocks,       \* bound: nested locks of one resource
    MaxUid,         \* bound: allocation ids handed out
    MaxQueue        \* bound: commands pending when a call begins

ASSUME LockableAssumption ==
    /\ Size \in [Resources -> Nat \ {0}]
    /\ {MaxLocks, MaxUid, MaxQueue} \subseteq Nat

VARIABLES
    bufferId,       \* m_bufferId of each resource
    lockInfos,      \* m_lockInfos / m_lockInfoQueue of each resource
    call,           \* the Lock that is searching the heap, if any
    memory          \* which allocation the bytes of a chunk were written for

lockableVars == <<clientHeap, serverHeap, chunk, queue, bufferId, lockInfos, call, memory>>

NoCall == [pc |-> "idle"]

Room == call = NoCall /\ Len(queue) =< MaxQueue

---------------------------------------------------------------------------

InitLockable ==
    /\ \E size \in SegmentSizes(0, FirstSegment) :
        /\ segments = <<[base |-> 0, size |-> size]>>
        /\ nChunks = size
        /\ queue = <<[op |-> "AddSeg", size |-> size]>>
    /\ defaultSize = FirstSegment
    /\ cache = <<>>
    /\ allocations = <<>>
    /\ nextUid = 0
    /\ chunk = [c \in Chunks |-> "Unallocated"]
    /\ srvSegments = <<>>
    /\ srvChunks = 0
    /\ srvCache = <<>>
    /\ bufferId = [r \in Resources |-> None]
    /\ lockInfos = [r \in Resources |-> <<>>]
    /\ call = NoCall
    /\ memory = [c \in Chunks |-> None]

\* Lock of memory the resource has: a plain Lock after the first one.
LockAgain(r, readonly) ==
    /\ Room
    /\ bufferId[r] # None
    /\ Len(lockInfos[r]) < MaxLocks
    /\ lockInfos' = [lockInfos EXCEPT ![r] =
            Append(@, [id |-> bufferId[r], at |-> cache[bufferId[r]],
                       discarded |-> None, readonly |-> readonly])]
    /\ UNCHANGED <<clientHeap, serverHeap, chunk, queue, bufferId, call, memory>>

\* A mutant of LockAllocates: what is discarded is given back at once, not
\* with the Unlock.
LockGivesBack(r, readonly) ==
    /\ Room
    /\ nextUid < MaxUid
    /\ Len(lockInfos[r]) < MaxLocks
    /\ defaultSize' = IF Size[r] > defaultSize THEN Grown(Size[r]) ELSE defaultSize
    /\ LET request == [res |-> r, readonly |-> readonly, discarded |-> None]
       IN  call' = IF DOMAIN allocations = {}
                   THEN [pc |-> "place", first |-> 0, request |-> request]
                   ELSE [pc |-> "search", failed |-> 0, request |-> request]
    /\ queue' = IF bufferId[r] = None THEN queue
                ELSE Append(queue, [op |-> "Dealloc", id |-> bufferId[r]])
    /\ UNCHANGED <<segments, nChunks, cache, allocations, nextUid, serverHeap,
                   chunk, bufferId, lockInfos, memory>>

\* Lock that needs memory, the first one or one with D3DLOCK_DISCARD: the
\* beginning of allocate.  With no allocation at all chunk 0 is tried at once.
LockAllocates(r, readonly) ==
    /\ Room
    /\ nextUid < MaxUid
    /\ Len(lockInfos[r]) < MaxLocks
    /\ defaultSize' = IF Size[r] > defaultSize THEN Grown(Size[r]) ELSE defaultSize
    /\ LET request == [res |-> r, readonly |-> readonly, discarded |-> bufferId[r]]
       IN  call' = IF DOMAIN allocations = {}
                   THEN [pc |-> "place", first |-> 0, request |-> request]
                   ELSE [pc |-> "search", failed |-> 0, request |-> request]
    /\ UNCHANGED <<segments, nChunks, cache, allocations, nextUid, serverHeap,
                   chunk, queue, bufferId, lockInfos, memory>>

\* The end of a Lock that got chunks: the resource's id is the new one, and
\* the discarded id waits in the lock's record for the Unlock.
Locked(a) ==
    LET req == call.request
        r == req.res
    IN  /\ TakeChunks(a)
        /\ bufferId' = [bufferId EXCEPT ![r] = nextUid]
        /\ lockInfos' = [lockInfos EXCEPT ![r] =
                Append(@, [id |-> nextUid, at |-> a.first,
                           discarded |-> req.discarded, readonly |-> req.readonly])]
        /\ call' = NoCall
        /\ UNCHANGED <<segments, nChunks, defaultSize, serverHeap, memory>>

\* The end of a Lock that got none: m_bufferId has been overwritten with the
\* invalid id.
LockFails ==
    /\ bufferId' = [bufferId EXCEPT ![call.request.res] = None]
    /\ call' = NoCall
    /\ UNCHANGED <<lockInfos, memory>>

SearchFinds ==
    /\ call.pc = "search"
    /\ \E a \in Found(Size[call.request.res]) : Locked(a)

\* A search that finds nothing frees what the server has returned; the third
\* failure goes on to add a segment, any other tries again unless the time is
\* over.  (Failures are counted to 3: the code only tests for the third.)
SearchFails ==
    /\ call.pc = "search"
    /\ NotFound(Size[call.request.res])
    /\ freeDeallocations
    /\ \/ /\ call.failed = 2
          /\ call' = [pc |-> "grow", request |-> call.request]
          /\ UNCHANGED <<bufferId, lockInfos, memory>>
       \/ /\ call.failed # 2
          /\ call' = [call EXCEPT !.failed = IF @ < 3 THEN @ + 1 ELSE 3]
          /\ UNCHANGED <<bufferId, lockInfos, memory>>
       \/ /\ call.failed # 2
          /\ LockFails
    /\ UNCHANGED <<segments, nChunks, defaultSize, nextUid, serverHeap, queue>>

Grow ==
    /\ call.pc = "grow"
    /\ \E size \in SegmentSizes(nChunks, defaultSize) : addNewHeapSegment(size)
    /\ call' = [pc |-> "place", first |-> nChunks, request |-> call.request]
    /\ UNCHANGED <<defaultSize, cache, allocations, nextUid, chunk, serverHeap,
                   bufferId, lockInfos, memory>>

\* No segment of any size: because the heap is at its limit or because the
\* system has no memory left.
GrowFails ==
    /\ call.pc = "grow"
    /\ \/ /\ call' = [pc |-> "search", failed |-> 3, request |-> call.request]
          /\ UNCHANGED <<bufferId, lockInfos, memory>>
       \/ LockFails
    /\ UNCHANGED <<clientHeap, serverHeap, chunk, queue>>

\* Chunk 0 of an empty heap, or the first chunk of a new segment.
Place ==
    /\ call.pc = "place"
    /\ LET a == createAllocation(call.first, Size[call.request.res])
       IN  \/ isValidAllocation(a) /\ Locked(a)
           \/ /\ ~isValidAllocation(a)
              /\ LockFails
              /\ UNCHANGED <<clientHeap, serverHeap, chunk, queue>>

Commands(info) ==
    <<[op |-> "Unlock", id |-> info.id]>>
        \o (IF info.discarded = None THEN <<>>
            ELSE <<[op |-> "Dealloc", id |-> info.discarded]>>)

\* The memory once the game has written what a lock gave it; what was locked
\* for reading is left alone.
StoreTo(info, r) ==
    [c \in Chunks |-> IF ~info.readonly /\ c \in info.at .. info.at + Size[r] - 1
                      THEN info.id ELSE memory[c]]

\* The game writes through the pointer of any lock that is open, at any time:
\* no lock of the device is held between Lock and Unlock.
WriteLock(r, k) ==
    /\ k \in DOMAIN lockInfos[r]
    /\ memory' = StoreTo(lockInfos[r][k], r)
    /\ UNCHANGED <<clientHeap, serverHeap, chunk, queue, bufferId, lockInfos, call>>

\* The oldest lock is the one undone.  The game has written through it by now,
\* and may write on through the ones that stay open; a read-only lock sends
\* nothing at all.
Unlock(r) ==
    /\ Room
    /\ lockInfos[r] # <<>>
    /\ LET info == Head(lockInfos[r])
       IN  /\ queue' = IF info.readonly THEN queue ELSE queue \o Commands(info)
           /\ memory' = StoreTo(info, r)
    /\ lockInfos' = [lockInfos EXCEPT ![r] = Tail(@)]
    /\ UNCHANGED <<clientHeap, serverHeap, chunk, bufferId, call>>

\* The destructor, whatever locks are left.
Destroy(r) ==
    /\ Room
    /\ \/ bufferId[r] # None
       \/ lockInfos[r] # <<>>
    /\ queue' = IF bufferId[r] = None THEN queue
                ELSE Append(queue, [op |-> "Dealloc", id |-> bufferId[r]])
    /\ bufferId' = [bufferId EXCEPT ![r] = None]
    /\ lockInfos' = [lockInfos EXCEPT ![r] = <<>>]
    /\ UNCHANGED <<clientHeap, serverHeap, chunk, call, memory>>

\* Unlock copies out of the heap into the real resource.
ServerUnlock(m) == UNCHANGED <<serverHeap, chunk>>

Serve ==
    /\ queue # <<>>
    /\ LET m == Head(queue)
       IN  \/ m.op = "AddSeg" /\ ServerAddSeg(m)
           \/ m.op = "Alloc" /\ ServerAllocate(m)
           \/ m.op = "Dealloc" /\ ServerDeallocate(m)
           \/ m.op = "Unlock" /\ ServerUnlock(m)
    /\ queue' = Tail(queue)
    /\ UNCHANGED <<clientHeap, bufferId, lockInfos, call, memory>>

LockableNext ==
    \/ \E r \in Resources, readonly \in BOOLEAN :
        LockAgain(r, readonly) \/ LockAllocates(r, readonly)
    \/ \E r \in Resources : Unlock(r) \/ Destroy(r)
    \/ \E r \in Resources, k \in 1 .. MaxLocks : WriteLock(r, k)
    \/ SearchFinds
    \/ SearchFails
    \/ Grow
    \/ GrowFails
    \/ Place
    \/ Serve

LockableSpec == InitLockable /\ [][LockableNext]_lockableVars

---------------------------------------------------------------------------
(* Properties *)

Span(first) == first .. allocations[first]

\* Allocations never overlap: not when a strip between two others is reused,
\* not when the search goes wrong on an empty heap, not across segments, each
\* of which is a mapping of its own; and every id names one of them.
Disjoint ==
    /\ \A c, d \in DOMAIN allocations : c # d => Span(c) \cap Span(d) = {}
    /\ \A c \in DOMAIN allocations :
        \E j \in DOMAIN segments : \A x \in Span(c) : InSegment(segments, j, x)
    /\ DOMAIN allocations = {cache[id] : id \in DOMAIN cache}
    /\ \A i, j \in DOMAIN cache : cache[i] = cache[j] => i = j

EverySegmentMapped ==
    Len(srvSegments) + Cardinality({i \in DOMAIN queue : queue[i].op = "AddSeg"})
        = Len(segments)

\* The Unlock the server is about to execute copies the bytes the game wrote
\* through that lock's allocation: the memory is not handed to another
\* resource, and no lock that is still open writes into it, whatever was
\* discarded, destroyed and allocated since, before the server has copied it
\* (as long as the server could map every segment).  Which of several nested
\* locks an Unlock is about is UnlocksMostRecent.
ServerCopies ==
    (queue # <<>> /\ Head(queue).op = "Unlock" /\ EverySegmentMapped) =>
        LET id == Head(queue).id
        IN  /\ id \in DOMAIN srvCache
            /\ id \in DOMAIN cache
            /\ \A c \in Span(cache[id]) :
                LET offset == c - cache[id]
                IN  {memory[x] : x \in SeenByServer(srvCache[id] + offset)} = {id}

\* Unlock is to "get most recent locked buffer": the other locks stay open.
UnlocksMostRecent ==
    [][\A r \in Resources : Unlock(r) =>
          lockInfos'[r] = SubSeq(lockInfos[r], 1, Len(lockInfos[r]) - 1)]_lockableVars

==============================================================================
