-------------------------------- MODULE Calls --------------------------------
(***************************************************************************)
(* The client's methods run against the server's handlers.                 *)
(*                                                                         *)
(* A method names an object by a handle (the client's id of its wrapper);  *)
(* the server keeps, in one table per kind of object, the D3D9 object that *)
(* goes by a handle.  Both sides have to agree on what a command carries,  *)
(* on which calls are answered (which depends on options both read) and    *)
(* on when a handle is entered and erased.  Nothing in the program says    *)
(* so in one place: the client's half of the protocol is spread over the   *)
(* methods (ClientDevice, ClientObjects, ClientModule), the server's over  *)
(* the cases of one switch (ServerDevice, ServerObjects, ServerModule).    *)
(*                                                                         *)
(* The client is one thread at a time (BRIDGE_DEVICE_LOCKGUARD; what       *)
(* several threads do to each other's commands and answers is the subject  *)
(* of module Bridge) and the queue is in order, so a command is served in  *)
(* the order it was sent, up to Depth commands behind.                     *)
(***************************************************************************)
EXTENDS Wire, FiniteSets, SequencesExt, TLC

CD == INSTANCE ClientDevice
CO == INSTANCE ClientObjects
CM == INSTANCE ClientModule
SD == INSTANCE ServerDevice
SO == INSTANCE ServerObjects
SM == INSTANCE ServerModule
Enum == INSTANCE Commands

CONSTANTS
  Made,              \* handles for the objects a game makes
  Depth,             \* commands in the queue at a time
  Together,          \* types of which a game has objects at the same time
  Excluded,          \* methods this run leaves out
  SendReadOnlyCalls  \* GlobalOptions::getSendReadOnlyCalls

\* The handles of the module, the device and the objects that come with it:
\* swap chain, its back buffer, render target, depth stencil
Module == "module"
Dev == "dev"
Implicit == {"sc", "bb", "rt", "ds"}
Ids == Made \cup Implicit \cup {Module, Dev}

ASSUME CallsAssumption ==
  /\ Made \cap (Implicit \cup {Module, Dev}) = {}
  /\ Depth \in Nat \ {0}
  /\ SendReadOnlyCalls \in BOOLEAN

\* Which optional answers are switched on: none, those of the creations
\* (sendCreateFunctionServerResponses), all (sendAllServerResponses)
Responses == {"none", "create", "all"}

Methods == CD!DeviceMethods @@ CO!ObjectMethods @@ CM!ModuleMethods
Client == Methods @@ CD!DeviceSteps @@ CO!ObjectSteps @@ CM!ModuleSteps

\* The cases of the two switches: those that do something, and those that
\* break at once and leave what the command carried where it is
Handlers ==
  SD!DeviceHandlers @@ SO!ObjectHandlers @@ SM!ModuleHandlers @@ SD!UnsentDeviceHandlers
  @@ SO!UnsentObjectHandlers @@ SM!UnsentModuleHandlers
Passed == SD!DevicePassed \cup SO!ObjectsPassed \cup SM!ModulePassed
Server == Handlers @@ [c \in Passed |-> Pulls("none", {}, <<>>)]

\* "every call in the D3D9 interface is mapped here": to one case, and none is
\* left over but the end of the module (module Lifecycle)
ASSUME EveryCommandMapped ==
  /\ DOMAIN Handlers \cap Passed = {}
  /\ (Enum!ModuleCommands \cup Enum!DeviceCommands \cup Enum!ObjectCommands \cup Enum!ApiCommands)
       \ {"Module_Destroy"} \subseteq DOMAIN Server
  /\ Passed \subseteq Enum!ModuleCommands \cup Enum!DeviceCommands \cup Enum!ObjectCommands

VARIABLES
  responses, \* the options, the same for both processes
  objs,      \* the client's objects: handle -> type and container
  queue,     \* commands sent and not served
  todo,      \* commands the method under way has still to send
  waiting,   \* the command whose answer the client waits for, in a set
  answers,   \* answers sent and not taken
  known,     \* the server's tables: handle, table, type
  failed,    \* handles whose creation failed at the server
  up         \* the server has not gone through a null pointer

vars == <<responses, objs, queue, todo, waiting, answers, known, failed, up>>

None == "none"
Of(types) == {o \in DOMAIN objs : objs[o].type \in types}
Children(o) == {c \in DOMAIN objs : objs[c].parent = o}

Step(name, on, new) == [name |-> name, on |-> on, new |-> new]

-----------------------------------------------------------------------------
(* Items and words *)

Block == <<"len", "body">>
NullBlock == <<"null">>

\* The words an item may become: the caller's choice of argument
WordsOf(item, new) ==
  CASE item.kind = "word" -> {<<"w">>}
    [] item.kind = "block" -> {Block}
    [] item.kind = "blockOrNull" -> {Block, NullBlock}
    [] item.kind = "object" -> {<<o>> : o \in Of(item.of)}
    [] item.kind = "objectOrNull" -> {<<o>> : o \in Of(item.of)} \cup {<<"null">>}
    [] item.kind = "new" -> {<<new>>}
    [] item.kind = "chain" -> {<<"end">>, <<"more", "w">> \o Block \o <<"end">>}

Encodings(items, new) ==
  FoldLeft(LAMBDA acc, item : {p \o w : p \in acc, w \in WordsOf(item, new)},
           {<<>>}, items)

\* How many words a read of the item takes; 0 if it takes a value that is not
\* a length for one and ends anywhere
Width(item, rest) ==
  CASE rest = <<>> -> 0
    [] rest # <<>> /\ item.kind = "block" ->
         (IF Head(rest) = "len" THEN 2 ELSE IF Head(rest) = "null" THEN 1 ELSE 0)
    [] rest # <<>> /\ item.kind = "chain" ->
         (IF Head(rest) = "more" THEN 5 ELSE IF Head(rest) = "end" THEN 1 ELSE 0)
    [] OTHER -> 1

\* The reader's position after its reads, and the first word of each item
Read(items, words) ==
  FoldLeft(LAMBDA acc, item :
             LET n == Width(item, acc.rest) IN
             IF n = 0 \/ n > Len(acc.rest)
             THEN [acc EXCEPT !.ok = FALSE]
             ELSE [ok |-> acc.ok, got |-> Append(acc.got, Head(acc.rest)),
                   rest |-> SubSeq(acc.rest, n + 1, Len(acc.rest))],
           [ok |-> TRUE, got |-> <<>>, rest |-> words], items)

Exact(items, words) == LET r == Read(items, words) IN r.ok /\ r.rest = <<>>

-----------------------------------------------------------------------------
(* The client *)

Waits(when) ==
  \/ when = "always"
  \/ when = "all" /\ responses = "all"
  \/ when = "create" /\ responses \in {"create", "all"}

CommandOf(name) ==
  IF Client[name].command = "none" THEN name ELSE Client[name].command

\* D3dBaseIdFactory::getNextId: a handle that is not in use on either side
Free == {o \in Made : o \notin DOMAIN objs /\ \A k \in known : k.id # o}
Fresh == CHOOSE o \in Free : TRUE

\* The bound on what a game makes: one object, or two of types in Together,
\* and children within Made
Room(type) ==
  /\ Free # {}
  /\ \A o \in {p \in Made \cap DOMAIN objs : objs[p].parent = None} :
       objs[o].type # type /\ {objs[o].type, type} \in Together

\* The client's objects after the step: one more, one less
ObjsAfter(s) ==
  LET c == Client[s.name] IN
  CASE c.makes # "none" ->
         (s.new :> [type |-> c.makes, parent |-> IF c.child THEN s.on ELSE None]) @@ objs
    [] c.ends ->
         LET gone == IF s.new # None THEN s.new ELSE s.on IN
         [o \in DOMAIN objs \ {gone} |-> objs[o]]
    [] OTHER -> objs

\* ClientMessage, its data, and the wait after it
Send(s) ==
  LET c == Client[s.name] IN
  \E words \in Encodings(c.sends, s.new) :
    LET cmd == [name |-> CommandOf(s.name), by |-> s.name, on |-> s.on,
                new |-> s.new, words |-> words] IN
    /\ queue' = IF c.silent THEN queue ELSE Append(queue, cmd)
    /\ waiting' = IF Waits(c.waits) THEN {cmd} ELSE {}
    /\ objs' = ObjsAfter(s)
    /\ UNCHANGED <<responses, answers, known, failed, up>>

Idle == up /\ todo = <<>> /\ waiting = {} /\ Len(queue) < Depth

\* A method that sends one command
Call(m) ==
  /\ Idle
  /\ ~Client[m].readOnly \/ SendReadOnlyCalls
  /\ \E o \in Of(Client[m].on) :
       /\ CASE Client[m].child -> Free # {} /\ Children(o) = {}
            [] Client[m].makes # "none" /\ ~Client[m].child -> Room(Client[m].makes)
            [] OTHER -> TRUE
       /\ Send(Step(m, o, IF Client[m].makes # "none" THEN Fresh ELSE None))
  /\ todo' = todo

\* The next command of a method that sends several
Continue ==
  /\ up /\ todo # <<>> /\ waiting = {} /\ Len(queue) < Depth
  /\ Send(Head(todo))
  /\ todo' = Tail(todo)

Begin(steps) ==
  /\ Idle
  /\ todo' = steps
  /\ UNCHANGED <<responses, objs, queue, waiting, answers, known, failed, up>>

\* Direct3D9Ex_LSS::createDevice; the handle is in the header
createDevice(name) ==
  /\ Dev \notin DOMAIN objs
  /\ Begin(<<Step(name, Dev, Dev)>>)

CreateDevice == createDevice("CreateDevice")
CreateDeviceEx == createDevice("CreateDeviceEx")

\* The constructor of a swap chain links it to the server's first chain and
\* its back buffers to that chain's
ConstructSwapChain(sc, bb) ==
  <<Step("LinkSwapchain", Dev, sc), Step("SwapChain_GetBackBuffer", sc, bb)>>

\* initImplicitObjects; the gamma ramp is set again when the window mode changes
InitImplicitObjects(depth, toggled) ==
  ConstructSwapChain("sc", "bb")
    \o (IF toggled THEN <<Step("SetGammaRamp", Dev, None)>> ELSE <<>>)
    \o <<Step("LinkBackBuffer", Dev, "rt")>>
    \o (IF depth THEN <<Step("LinkAutoDepthStencil", Dev, "ds")>> ELSE <<>>)

\* destroyImplicitObjects
DestroyImplicitObjects ==
  <<Step("Surface_Destroy", "rt", None)>>
    \o (IF "ds" \in DOMAIN objs THEN <<Step("Surface_Destroy", "ds", None)>> ELSE <<>>)
    \o <<Step("SwapChain_Destroy", "sc", None), Step("UnlinkResource", "bb", None)>>

CreateAdditionalSwapChain ==
  /\ Dev \in DOMAIN objs /\ Room("SwapChain")
  /\ \E sc, bb \in Free :
       /\ sc # bb /\ sc = Fresh
       /\ Begin(ConstructSwapChain(sc, bb)
                  \o <<Step("CreateAdditionalSwapChain", Dev, sc)>>)

Reset(name) ==
  /\ Dev \in DOMAIN objs
  /\ \E depth, toggled \in BOOLEAN :
       Begin(DestroyImplicitObjects \o <<Step(name, Dev, None)>>
               \o InitImplicitObjects(depth, toggled))

\* The last Release of an object: onDestroy, then the container's destructor
\* destroys its children
DestroyName(type) ==
  IF type \in RemixTypes THEN "remixapi_Destroy" \o type ELSE type \o "_Destroy"
UnlinkName(type) == IF type = "Volume" THEN "UnlinkVolumeResource" ELSE "UnlinkResource"

Release(o) ==
  /\ objs[o].parent = None /\ objs[o].type # "Orphan"
  /\ Begin((IF objs[o].type \in RemixTypes
            THEN <<Step(DestroyName(objs[o].type), Module, o)>>
            ELSE <<Step(DestroyName(objs[o].type), o, None)>>)
           \o SetToSeq({Step(UnlinkName(objs[c].type), c, None) : c \in Children(o)}))

\* The device goes when the last object made with it has
ReleaseDevice ==
  /\ Dev \in DOMAIN objs
  /\ \A o \in Made \cap DOMAIN objs : objs[o].type \in RemixTypes \cup {"Orphan"}
  /\ Begin(DestroyImplicitObjects \o <<Step("Device_Destroy", Dev, None)>>)

\* A creation the game is told has failed: it never touches the object again,
\* and its wrapper is never released
Forget(o) ==
  LET mine == {o} \cup Children(o) IN
  IF \E k \in known : k.id \in mine
  THEN [p \in DOMAIN objs |->
          IF p \in mine THEN [objs[p] EXCEPT !.type = "Orphan"] ELSE objs[p]]
  ELSE [p \in DOMAIN objs \ mine |-> objs[p]]

\* The surface that the data of an answer is copied into
Target(cmd) == IF cmd.words = <<>> THEN cmd.on ELSE Last(cmd.words)

\* The wait ends: the client takes the result and what it expects behind it
Receive ==
  /\ up /\ answers # <<>>
  /\ \E cmd \in waiting :
       LET c == Client[cmd.by]
           ok == Head(answers).ok
           refused == ~ok /\ c.makes # "none" /\ ~c.child IN
       /\ objs' = IF refused THEN Forget(cmd.new) ELSE objs
       /\ failed' = IF refused THEN failed \ {cmd.new} ELSE failed
       /\ IF ok /\ cmd.new = Dev
          THEN \E depth \in BOOLEAN : todo' = InitImplicitObjects(depth, FALSE)
          ELSE IF ok /\ c.copies
          THEN \E unlock \in {"Surface_UnlockRect", "Surface_UnlockRect_heap"} :
                 todo' = <<Step(unlock, Target(cmd), None)>>
          ELSE todo' = todo
  /\ waiting' = {}
  /\ answers' = Tail(answers)
  /\ UNCHANGED <<responses, queue, known, up>>

-----------------------------------------------------------------------------
(* The server *)

Resolves(id, table, types) ==
  \E k \in known : k.id = id /\ k.table = table /\ k.type \in types

HasReceiver(cmd) ==
  LET h == Server[cmd.name] IN
  h.table = "none" \/ Resolves(cmd.on, h.table, h.cast)

\* The handles of a command that are looked up and not found
Unresolved(cmd) ==
  LET h == Server[cmd.name]
      got == Read(h.reads, cmd.words).got IN
  {got[i] : i \in {j \in 1..Len(got) :
              /\ h.reads[j].kind = "lookup" /\ got[j] # "null"
              /\ ~Resolves(got[j], h.reads[j].table, h.reads[j].of)}}

\* The handle a handler enters: of its New item, or the one in the header
Entered(h, got, cmd) ==
  IF \E i \in 1..Len(h.reads) : h.reads[i].kind = "new"
  THEN got[CHOOSE i \in 1..Len(h.reads) : h.reads[i].kind = "new"]
  ELSE cmd.on

\* One turn of ProcessDeviceCommandQueue: pull, look up, call D3D9 (which
\* succeeds or fails), enter or erase, answer
Serve ==
  /\ up /\ queue # <<>>
  /\ LET cmd == Head(queue)
         h == Server[cmd.name]
         got == Read(h.reads, cmd.words).got IN
     IF ~Exact(h.reads, cmd.words) \/ (~HasReceiver(cmd) /\ ~h.skips)
     THEN up' = FALSE /\ UNCHANGED <<known, failed, answers>>
     ELSE IF ~HasReceiver(cmd)
     THEN /\ failed' = IF h.erases THEN failed \ {cmd.on} ELSE failed
          /\ UNCHANGED <<known, answers, up>>
     ELSE \E ok \in BOOLEAN :
       LET id == Entered(h, got, cmd)
           erased == IF h.erases THEN {cmd.on} ELSE IF h.drops THEN {got[1]} ELSE {} IN
       /\ known' =
            {k \in known : ~(k.id \in erased /\ (h.drops \/ k.table = h.table))}
              \cup (IF h.enters # "none" /\ ok
                    THEN {[id |-> id, table |-> h.enters, type |-> h.as]} ELSE {})
       /\ failed' =
            IF h.enters = "none" THEN failed \ erased
            ELSE IF ok THEN failed \ {id}
            ELSE IF \E k \in known : k.id = id THEN failed ELSE failed \cup {id}
       /\ answers' =
            IF Waits(h.answers)
            THEN Append(answers, [ok |-> ok, words |->
                   CHOOSE w \in Encodings(IF ok THEN h.ok ELSE h.fail, None) : TRUE])
            ELSE answers
       /\ up' = up
  /\ queue' = Tail(queue)
  /\ UNCHANGED <<responses, objs, todo, waiting>>

Down == ~up /\ UNCHANGED vars

-----------------------------------------------------------------------------

Init ==
  /\ responses \in Responses
  /\ objs = (Module :> [type |-> "Module", parent |-> None])
  /\ queue = <<>> /\ todo = <<>> /\ answers = <<>> /\ waiting = {}
  /\ known = {[id |-> Module, table |-> "gpD3D", type |-> "Module"]}
  /\ failed = {} /\ up = TRUE

Next ==
  \/ \E m \in DOMAIN Methods \ Excluded : Call(m)
  \/ Continue
  \/ CreateDevice \/ CreateDeviceEx
  \/ CreateAdditionalSwapChain
  \/ \E name \in {"Reset", "ResetEx"} : Reset(name)
  \/ \E o \in Made \cap DOMAIN objs : Release(o)
  \/ ReleaseDevice
  \/ Serve
  \/ Receive
  \/ Down

Spec == Init /\ [][Next]_vars

-----------------------------------------------------------------------------
(* Properties *)

Commands == {Head(queue) : i \in {j \in {1} : queue # <<>>}}

\* A handler pulls exactly the words its command was sent with, whatever the
\* method, its optional arguments and the objects it names ("Ensure the data
\* position between client and server is in sync after processing the command").
InSync ==
  \A cmd \in Commands : Exact(Server[cmd.name].reads, cmd.words)

\* No method sends a command whose case does nothing, and every handle a
\* command carries is, when the server gets to it, in the table the handler
\* looks in and of the type it casts to, unless the server's own creation of
\* the object failed and the options in force say not to tell.
HandlesResolve ==
  \A cmd \in Commands :
    /\ cmd.name \notin Passed
    /\ HasReceiver(cmd) \/ cmd.on \in failed
    /\ Unresolved(cmd) \subseteq failed

\* A client that waits is answered: the two sides agree, per method and
\* option, on whether there is an answer, there is never a second one, and
\* what the client takes out of it, on success and on failure, is everything
\* the server put in.  Two calls violate it: GetDepthStencilSurface_none waits
\* for an answer to nothing, Query_GetData_null leaves data unread.
Answered ==
  up => /\ waiting # {} => queue # <<>> \/ answers # <<>>
        /\ waiting = {} => answers = <<>>
        /\ \A cmd \in waiting : answers # <<>> =>
             LET c == Client[cmd.by] IN
             Exact(IF Head(answers).ok THEN c.ok ELSE c.fail, Head(answers).words)

\* Between calls the server's tables hold one entry for every object of the
\* client, under the object's own type, and nothing else: what is left at the
\* end are no leaks but objects the game has not released (dumpLeakedObjects).
TablesAgree ==
  up /\ queue = <<>> /\ todo = <<>> /\ waiting = {} =>
    /\ \A k \in known : k.id \in DOMAIN objs
    /\ \A o \in DOMAIN objs \ failed :
         objs[o].type # "Orphan" =>
           \E k \in known : /\ k.id = o /\ k.type = objs[o].type
                            /\ \A l \in known : l.id = o => l = k

=============================================================================
