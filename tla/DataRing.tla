-------------------------------- MODULE DataRing --------------------------------
(***************************************************************************)
(* The data ring of the Client2Server device channel and the protocol that *)
(* keeps the client from overwriting data the server has not processed:    *)
(* CircularQueue/CircularBuffer (util_circularqueue.h,                     *)
(* util_circularbuffer.h), Bridge::syncDataQueue (util_bridgecommand.cpp)  *)
(* on the client, get_data/copy_data and the end of the loop of            *)
(* ProcessDeviceCommandQueue (server/main.cpp) on the server.              *)
(*                                                                         *)
(* Each process keeps its own position in the ring and both move it by the *)
(* same rules, so nothing but the headers is synchronised.  The words of   *)
(* the ring are abstracted to the command they belong to.                  *)
(***************************************************************************)
EXTENDS Integers, Sequences, FiniteSetsExt

CONSTANTS
  Rings,         \* sizes to consider: words in the ring, headers in the command queue
  Words,         \* the word counts of send_data(w) and send_many(...)
  Blobs,         \* the word counts of send_data(size, obj) and begin_data_blob
  MaxPushes,     \* pushes of one command, at most
  RingPublishBatch, \* headers pushed before the client publishes them
  RefreshEvery   \* 64: pushes between two looks at serverDataPos

ASSUME RingAssumption ==
  /\ Rings \subseteq [TotalSize : Nat \ {0}, CmdCapacity : Nat \ {0}]
  /\ \A r \in Rings : Words \subseteq 1 .. r.TotalSize /\ Blobs \subseteq 0 .. r.TotalSize - 1
  /\ Blobs # {}
  /\ MaxPushes \in Nat /\ RingPublishBatch \in Nat \ {0} /\ RefreshEvery \in Nat \ {0}

VARIABLES
  ring,                   \* the sizes, options read at start
  \* shared memory
  serverDataPos,          \* -1, or where the server stands after its last command
  clientDataExpectedPos,  \* -1, or the position the client waits for the server to pass
  serverResetPosRequired, \* the server still has to roll over
  dataSemaphore,          \* count of the semaphore, at most 1
  unpublished, inQueue,   \* headers pushed: not yet published, published
  occupant,               \* occupant[p]: the unprocessed command whose data is at p, or 0
  \* the client
  clientPos,              \* m_pos of the writer
  startPos,               \* s_curBatchStartPos: -1 outside a command
  id,                     \* tag of the command being built
  layout,                 \* the pushes of the command being built
  push,                   \* the push under way
  expectedPos,            \* expectedClientDataPos
  cachedServerPos,        \* s_cachedServerPos
  cachedAge,              \* s_cachedServerPosAge
  clientPc,               \* where the client is
  resumeAt,               \* where it goes on after handleOverwriteCondition
  \* the server
  serverPos,              \* m_pos of the reader
  header,                 \* the header being processed
  toRead,                 \* the pushes of it still to read
  serverPc                \* where the server is

clientRingVars == <<clientPos, startPos, id, layout, push, expectedPos, cachedServerPos, cachedAge, clientPc,
                resumeAt>>
serverRingVars == <<serverPos, header, toRead, serverPc>>
syncVars == <<serverDataPos, clientDataExpectedPos, serverResetPosRequired, dataSemaphore>>
ringVars == <<ring, syncVars, unpublished, inQueue, occupant, clientRingVars, serverRingVars>>

TotalSize == ring.TotalSize
CmdCapacity == ring.CmdCapacity

Pos == 0 .. TotalSize - 1

(* Tags that tell outstanding commands apart: those in the queue, the one  *)
(* the server processes and the one the client builds.                     *)
Ids == 1 .. CmdCapacity + 2

---------------------------------------------------------------------------
(* CircularQueue and CircularBuffer, the same for both ends *)

(* pop(), and push_many() word by word. *)
After(pos, n) == (pos + n) % TotalSize

(* ensure_space(): roll over when the space would touch the end. *)
ensure_space(pos, n) == IF pos + n >= TotalSize THEN 0 ELSE pos

(* Where the words of a push go when it starts at pos. *)
Places(p, pos) ==
  IF p.kind = "words" THEN {After(pos, k) : k \in 0 .. p.n - 1}
  ELSE LET base == ensure_space(After(pos, 1), p.n)
       IN  {pos} \cup {base + k : k \in 0 .. p.n - 1}

(* Variant with a bug: the size word is not counted. *)
NextPosNoSize(p, pos) ==
  IF p.kind = "words" THEN After(pos, p.n)
  ELSE ensure_space(pos, p.n) + p.n

(* Where a push, or the pull that mirrors it, leaves m_pos. *)
NextPos(p, pos) ==
  IF p.kind = "words" THEN After(pos, p.n)
  ELSE ensure_space(After(pos, 1), p.n) + p.n

(* A null object is pushed as the size 0 alone, and pulled as such. *)
Pushes == [kind : {"words"}, n : Words] \cup [kind : {"blob"}, n : Blobs]

(* memUsed: what the push tells syncDataQueue. *)
MemUsed(p) == IF p.kind = "words" THEN p.n ELSE p.n + 1

---------------------------------------------------------------------------
(* The constructors: the writer initialises the shared words. *)
NoPush == [kind |-> "none", n |-> 0]
NoHeader == [id |-> 0, layout |-> <<>>, dataOffset |-> 0]

InitRing ==
  /\ ring \in Rings
  /\ serverDataPos = -1 /\ clientDataExpectedPos = -1
  /\ serverResetPosRequired = FALSE /\ dataSemaphore = 0
  /\ unpublished = <<>> /\ inQueue = <<>>
  /\ occupant = [p \in Pos |-> 0]
  /\ clientPos = 0 /\ startPos = -1 /\ id = 0 /\ layout = <<>>
  /\ push = NoPush /\ expectedPos = 0
  /\ cachedServerPos = -1 /\ cachedAge = 0
  /\ clientPc = "idle" /\ resumeAt = "none"
  /\ serverPos = 0 /\ header = NoHeader /\ toRead = <<>> /\ serverPc = "idle"

---------------------------------------------------------------------------
(* Client *)

(* Tags of the commands still in the queue or in the server's hands. *)
Outstanding ==
  {unpublished[i].id : i \in DOMAIN unpublished} \cup {inQueue[i].id : i \in DOMAIN inQueue} \cup {header.id}

(* Command's constructor. *)
BeginCommand ==
  /\ clientPc = "idle"
  /\ id' = CHOOSE i \in Ids : i \notin Outstanding
  /\ startPos' = clientPos
  /\ clientPc' = "command"
  /\ UNCHANGED <<syncVars, unpublished, inQueue, occupant, serverRingVars, clientPos, layout, push,
                 expectedPos, cachedServerPos, cachedAge, resumeAt>>

(* syncDataQueue, up to the look at serverResetPosRequired: refresh the    *)
(* copy of the server's position every RefreshEvery pushes, and see where  *)
(* the push would end.                                                     *)
Send(p) ==
  /\ clientPc = "command" /\ Len(layout) < MaxPushes
  /\ push' = p
  /\ IF cachedAge + 1 >= RefreshEvery
     THEN cachedServerPos' = serverDataPos /\ cachedAge' = 0
     ELSE UNCHANGED cachedServerPos /\ cachedAge' = cachedAge + 1
  /\ expectedPos' = clientPos + MemUsed(p) - 1
  /\ clientPc' = IF clientPos + MemUsed(p) - 1 >= TotalSize THEN "wrap" ELSE "test"
  /\ UNCHANGED <<syncVars, unpublished, inQueue, occupant, serverRingVars, clientPos, startPos, id,
                 layout, resumeAt>>

(* The push would pass the end.  If the server has not even completed the  *)
(* previous lap, wait for it first ("double overflow").                    *)
Wrap ==
  /\ clientPc = "wrap"
  /\ IF serverResetPosRequired
     THEN /\ clientPc' = "overwrite" /\ resumeAt' = "wrapped"
          /\ UNCHANGED <<serverResetPosRequired, expectedPos>>
     ELSE /\ clientPc' = "test" /\ UNCHANGED resumeAt
          /\ expectedPos' = IF push.kind = "blob" THEN MemUsed(push) - 1 ELSE expectedPos - TotalSize
          /\ serverResetPosRequired' = TRUE
  /\ UNCHANGED <<serverDataPos, clientDataExpectedPos, dataSemaphore, unpublished, inQueue, occupant,
                 serverRingVars, clientPos, startPos, id, layout, push, cachedServerPos, cachedAge>>

(* ...and the rest of that branch once the wait is over. *)
Wrapped ==
  /\ clientPc = "wrapped"
  /\ expectedPos' = IF push.kind = "blob" THEN MemUsed(push) - 1 ELSE expectedPos - TotalSize
  /\ serverResetPosRequired' = TRUE
  /\ clientPc' = "test"
  /\ UNCHANGED <<serverDataPos, clientDataExpectedPos, dataSemaphore, unpublished, inQueue, occupant,
                 serverRingVars, clientPos, startPos, id, layout, push, cachedServerPos, cachedAge,
                 resumeAt>>

(* wouldOverwrite(sc): sc = -1 is compared as the largest unsigned number. *)
wouldOverwrite(sc) ==
  /\ sc # -1 /\ expectedPos >= sc
  /\ \/ startPos < sc
     \/ startPos > sc /\ expectedPos < startPos
     \/ startPos <= sc /\ serverResetPosRequired

(* The test against the copy... *)
Test ==
  /\ clientPc = "test"
  /\ clientPc' = IF wouldOverwrite(cachedServerPos) THEN "reread" ELSE "write"
  /\ UNCHANGED <<syncVars, unpublished, inQueue, occupant, serverRingVars, clientPos, startPos, id,
                 layout, push, expectedPos, cachedServerPos, cachedAge, resumeAt>>

(* ...is repeated against the live position before stalling. *)
Reread ==
  /\ clientPc = "reread"
  /\ cachedServerPos' = serverDataPos /\ cachedAge' = 0
  /\ clientPc' = "retest"
  /\ UNCHANGED <<syncVars, unpublished, inQueue, occupant, serverRingVars, clientPos, startPos, id,
                 layout, push, expectedPos, resumeAt>>

Retest ==
  /\ clientPc = "retest"
  /\ IF wouldOverwrite(cachedServerPos)
     THEN clientPc' = "overwrite" /\ resumeAt' = "write"
     ELSE clientPc' = "write" /\ UNCHANGED resumeAt
  /\ UNCHANGED <<syncVars, unpublished, inQueue, occupant, serverRingVars, clientPos, startPos, id,
                 layout, push, expectedPos, cachedServerPos, cachedAge>>

(* handleOverwriteCondition: tell the server what to wait for, exit when   *)
(* the command could never fit, publish everything, wait.  With            *)
(* infiniteRetries, an option that is also set while the game has no focus *)
(* and is looked at here once, the wait has no last retry.                 *)
Waits == {"wait", "waitForever"}

RequestSpace ==
  /\ clientPc = "overwrite"
  /\ clientDataExpectedPos' = startPos - 1
  /\ IF MemUsed(push) + ((clientPos - startPos) % TotalSize) > TotalSize
     THEN clientPc' = "exited" /\ UNCHANGED <<unpublished, inQueue>>
     ELSE clientPc' \in Waits /\ inQueue' = inQueue \o unpublished /\ unpublished' = <<>>
  /\ UNCHANGED <<serverDataPos, serverResetPosRequired, dataSemaphore, occupant, serverRingVars,
                 clientPos, startPos, id, layout, push, expectedPos, cachedServerPos, cachedAge,
                 resumeAt>>

Granted ==
  /\ clientPc \in Waits
  /\ dataSemaphore > 0
  /\ dataSemaphore' = dataSemaphore - 1
  /\ clientPc' = "granted"
  /\ UNCHANGED <<serverDataPos, clientDataExpectedPos, serverResetPosRequired, unpublished, inQueue,
                 occupant, serverRingVars, clientPos, startPos, id, layout, push, expectedPos,
                 cachedServerPos, cachedAge, resumeAt>>

(* Variant with a bug: the wait starts over when the retries are used up. *)
RetriesStartOver ==
  /\ clientPc = "wait"
  /\ clientPc' = "wait"
  /\ UNCHANGED <<syncVars, unpublished, inQueue, occupant, serverRingVars, clientPos, startPos, id,
                 layout, push, expectedPos, cachedServerPos, cachedAge, resumeAt>>

(* Out of retries: only logged. *)
RetriesExhausted ==
  /\ clientPc = "wait"
  /\ clientPc' = "granted"
  /\ UNCHANGED <<syncVars, unpublished, inQueue, occupant, serverRingVars, clientPos, startPos, id,
                 layout, push, expectedPos, cachedServerPos, cachedAge, resumeAt>>

ResumePush ==
  /\ clientPc = "granted"
  /\ clientDataExpectedPos' = -1
  /\ serverResetPosRequired' = FALSE
  /\ clientPc' = resumeAt
  /\ UNCHANGED <<serverDataPos, dataSemaphore, unpublished, inQueue, occupant, serverRingVars,
                 clientPos, startPos, id, layout, push, expectedPos, cachedServerPos, cachedAge,
                 resumeAt>>

(* The push itself. *)
Write ==
  /\ clientPc = "write"
  /\ occupant' = [p \in Pos |-> IF p \in Places(push, clientPos) THEN id ELSE occupant[p]]
  /\ clientPos' = NextPos(push, clientPos)
  /\ layout' = Append(layout, push)
  /\ push' = NoPush /\ expectedPos' = 0 /\ resumeAt' = "none"
  /\ clientPc' = "command"
  /\ UNCHANGED <<syncVars, unpublished, inQueue, serverRingVars, startPos, id, cachedServerPos,
                 cachedAge>>

(* ~Command: push the header with the position reached; it is published    *)
(* when the batch is full.                                                 *)
EndCommand ==
  /\ clientPc = "command"
  /\ Len(unpublished) + Len(inQueue) < CmdCapacity
  /\ LET all == Append(unpublished, [id |-> id, layout |-> layout, dataOffset |-> clientPos])
     IN  IF Len(all) >= RingPublishBatch
         THEN inQueue' = inQueue \o all /\ unpublished' = <<>>
         ELSE unpublished' = all /\ UNCHANGED inQueue
  /\ startPos' = -1 /\ id' = 0 /\ layout' = <<>>
  /\ clientPc' = "idle"
  /\ UNCHANGED <<syncVars, occupant, serverRingVars, clientPos, push, expectedPos, cachedServerPos,
                 cachedAge, resumeAt>>

(* push() finds the command queue full, or the client waits for a reply. *)
FlushBatch ==
  /\ unpublished # <<>>
  /\ \/ clientPc = "idle"
     \/ clientPc = "command" /\ Len(unpublished) + Len(inQueue) = CmdCapacity
  /\ inQueue' = inQueue \o unpublished /\ unpublished' = <<>>
  /\ UNCHANGED <<syncVars, occupant, clientRingVars, serverRingVars>>

---------------------------------------------------------------------------
(* Server *)

PopHeader ==
  /\ serverPc = "idle"
  /\ inQueue # <<>>
  /\ header' = Head(inQueue) /\ inQueue' = Tail(inQueue)
  /\ toRead' = Head(inQueue).layout
  /\ serverPc' = "read"
  /\ UNCHANGED <<syncVars, unpublished, occupant, clientRingVars, serverPos>>

(* Variant with a bug: the pull does not roll over where the push did. *)
PullUnaligned ==
  /\ serverPc = "read"
  /\ toRead # <<>>
  /\ serverPos' = After(serverPos, MemUsed(Head(toRead)))
  /\ serverResetPosRequired' =
       (serverResetPosRequired /\ ~(NextPos(Head(toRead), serverPos) < serverPos))
  /\ toRead' = Tail(toRead)
  /\ UNCHANGED <<serverDataPos, clientDataExpectedPos, dataSemaphore, unpublished, inQueue, occupant,
                 clientRingVars, header, serverPc>>

(* get_data / copy_data: the pull, and the lap it may complete. *)
Pull ==
  /\ serverPc = "read"
  /\ toRead # <<>>
  /\ serverPos' = NextPos(Head(toRead), serverPos)
  /\ serverResetPosRequired' =
       (serverResetPosRequired /\ ~(NextPos(Head(toRead), serverPos) < serverPos))
  /\ toRead' = Tail(toRead)
  /\ UNCHANGED <<serverDataPos, clientDataExpectedPos, dataSemaphore, unpublished, inQueue, occupant,
                 clientRingVars, header, serverPc>>

(* The command is done: the data it pointed to is free, the position is    *)
(* published.                                                              *)
Processed ==
  /\ serverPc = "read"
  /\ toRead = <<>>
  /\ serverDataPos' = serverPos
  /\ occupant' = [p \in Pos |-> IF occupant[p] = header.id THEN 0 ELSE occupant[p]]
  /\ serverPc' = "check"
  /\ UNCHANGED <<clientDataExpectedPos, serverResetPosRequired, dataSemaphore, unpublished, inQueue,
                 clientRingVars, serverPos, header, toRead>>

(* Does the client wait? *)
CheckRequest ==
  /\ serverPc = "check"
  /\ header' = NoHeader
  /\ serverPc' = IF clientDataExpectedPos # -1 THEN "compare" ELSE "idle"
  /\ UNCHANGED <<syncVars, unpublished, inQueue, occupant, clientRingVars, serverPos, toRead>>

(* Release it if the awaited position has been passed and no lap is owed. *)
Compare ==
  /\ serverPc = "compare"
  /\ IF serverDataPos > clientDataExpectedPos /\ ~serverResetPosRequired
     THEN dataSemaphore' = 1 /\ serverPc' = "clear"
     ELSE UNCHANGED dataSemaphore /\ serverPc' = "idle"
  /\ UNCHANGED <<serverDataPos, clientDataExpectedPos, serverResetPosRequired, unpublished, inQueue,
                 occupant, clientRingVars, serverPos, header, toRead>>

(* ...and take the request back, after the client may have gone on. *)
ClearRequest ==
  /\ serverPc = "clear"
  /\ clientDataExpectedPos' = -1
  /\ serverPc' = "idle"
  /\ UNCHANGED <<serverDataPos, serverResetPosRequired, dataSemaphore, unpublished, inQueue, occupant,
                 clientRingVars, serverPos, header, toRead>>

---------------------------------------------------------------------------
Client ==
  \/ BeginCommand
  \/ \E p \in Pushes : Send(p)
  \/ Wrap \/ Wrapped \/ Test \/ Reread \/ Retest
  \/ RequestSpace \/ Granted \/ RetriesExhausted \/ ResumePush
  \/ Write \/ EndCommand \/ FlushBatch

Server == PopHeader \/ Pull \/ Processed \/ CheckRequest \/ Compare \/ ClearRequest

RingNext == (Client \/ Server) /\ UNCHANGED ring

RingSpec == InitRing /\ [][RingNext]_ringVars

(* A client inside syncDataQueue keeps running, and a wait whose retries    *)
(* are counted runs out of them.  Nothing is assumed of the server.         *)
At(step) == step /\ UNCHANGED ring

RingFairSpec ==
  /\ RingSpec
  /\ WF_ringVars(At(Wrap))
  /\ WF_ringVars(At(Wrapped))
  /\ WF_ringVars(At(Test))
  /\ WF_ringVars(At(Reread))
  /\ WF_ringVars(At(Retest))
  /\ WF_ringVars(At(RequestSpace))
  /\ WF_ringVars(At(RetriesExhausted))
  /\ WF_ringVars(At(ResumePush))
  /\ WF_ringVars(At(Write))

---------------------------------------------------------------------------
(* Properties *)

(* After a command the two ends agree on the position, though each moved    *)
(* its own by its own calls and nothing but the header says where the       *)
(* client was: the assertion CHECK_DATA_OFFSET at the end of the server's   *)
(* loop.                                                                    *)
PositionsAgree == serverPc = "read" /\ toRead = <<>> => serverPos = header.dataOffset

(* syncDataQueue returns, or the process exits, although the server may be  *)
(* gone or the permit lost: the retries run out.  A wait without a last     *)
(* retry (waitForever) is all that can keep a push from ending.             *)
SyncReturns ==
  clientPc \in {"wrap", "wrapped", "test", "reread", "retest", "overwrite", "wait", "granted", "write"}
    ~> clientPc \in {"command", "exited", "waitForever"}

(* What the comment of syncDataQueue says of serverResetPosRequired, that it *)
(* is "set when the server needs to complete a loop to get to the client's  *)
(* expected position": the client cannot be a lap ahead without it.  A push *)
(* that ends exactly at the end of the ring rolls the client over and       *)
(* leaves the flag alone.                                                   *)
LapIsFlagged == clientPc \in {"idle", "command"} /\ clientPos < serverPos => serverResetPosRequired

(* A ring that can take everything the command queue lets through: one      *)
(* command per header, the one being processed, the one being built and the *)
(* words a roll-over leaves unused.                                         *)
Wide == TotalSize >= (CmdCapacity + 2) * MaxPushes * Max({MemUsed(p) : p \in Pushes}) + Max(Blobs)

(* In a ring that is wide enough for its command queue no push overwrites   *)
(* data of a command the server has not finished, which is what the "buffer *)
(* override protection" is for, nor does it ever make the client wait,      *)
(* however the two ends stand to each other and old its copy of the         *)
(* server's position is.  In a narrower one a wait that runs out overwrites.*)
NoUnreadOverwritten ==
  [][Wide => /\ \A p \in Pos : occupant[p] # 0 => occupant'[p] \in {0, occupant[p]}
             /\ clientPc' # "overwrite"]_ringVars

=================================================================================
