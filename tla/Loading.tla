-------------------------------- MODULE Loading --------------------------------
(***************************************************************************)
(* How the client gets into a game and out again: the launcher             *)
(* (launcher/launcher.cpp), DllMain (client/d3d9_bootstrap.cpp),           *)
(* RemixAttach and RemixDetach (client/d3d9_lss.cpp) and the detours they  *)
(* put on Direct3D, the window functions (client/window.cpp) and the input *)
(* functions (client/di_hook.cpp).                                         *)
(*                                                                         *)
(* Detours is external.  A transaction that met an error, a pointer        *)
(* without a function, a function it cannot patch, a detour that was never *)
(* made, refuses everything after it and changes nothing when committed;   *)
(* any other leads every attached function into the client, or back.       *)
(* The game makes no Direct3D object while it frees the library.           *)
(***************************************************************************)
EXTENDS Naturals, Sequences, SequencesExt

CONSTANTS
  Machines,       \* what the client may find: systemD3D9, missing exports, refused functions, directInput per
                  \* version, foreign detours, the options hookMessagePump and overrideCustomWinHooks, helper
  ModulePath,     \* path of the client's library, a sequence of names and "\\"
  CommandLines,   \* arguments the launcher may get
  Directories,    \* those among them that are directories
  MaxLoads        \* how often the game loads the library, at most

--------------------------------------------------------------------------------
(* Functions that are detoured, the two forms of a window function as one.  *)
SystemD3D9 == {"Direct3DCreate9Ex", "Direct3DCreate9"}
WindowLong == {"SetWindowLong", "GetWindowLong"}
Conventional == {"GetCursorPos", "SetCursorPos", "GetKeyState", "GetAsyncKeyState", "GetKeyboardState",
                 "GetRawInputData"}
Pump == {"PeekMessageA", "PeekMessageW", "GetMessageA", "GetMessageW"}
Methods == [v \in {"dinput8", "dinput"} |->
              IF v = "dinput8"
              THEN {"SetProperty8", "Acquire8", "Unacquire8", "GetDeviceState8", "GetDeviceData8",
                    "SetCooperativeLevel8"}
              ELSE {"SetProperty7", "Acquire7", "Unacquire7", "GetDeviceState7", "GetDeviceData7",
                    "SetCooperativeLevel7"}]
Creates == [v \in {"dinput8", "dinput"} |->
              IF v = "dinput8" THEN {"DirectInput8Create"} ELSE {"DirectInputCreateA", "DirectInputCreateW"}]

DirectInputs == DOMAIN Methods
FirstCreate == [v \in DirectInputs |-> IF v = "dinput8" THEN "DirectInput8Create" ELSE "DirectInputCreateA"]

InputFunctions == Conventional \cup Pump \cup UNION {Methods[v] \cup Creates[v] : v \in DirectInputs}
Functions == SystemD3D9 \cup WindowLong \cup InputFunctions

(* What is looked up by name may be missing; every other function the       *)
(* client is linked with or finds in an object it has made.                 *)
ASSUME LoadingAssumption ==
  /\ MaxLoads \in Nat /\ \A line \in CommandLines : line \in Seq(STRING)
  /\ \A mc \in Machines : mc.missing \subseteq SystemD3D9 \cup UNION {Creates[v] : v \in DirectInputs}

VARIABLES
  machine,         \* of Machines
  route,           \* external: whom a call of a function passes, "own" being the function itself
  orig,            \* the Orig pointers: "null", "function", "trampoline" once detoured
  stage,           \* where the loader is with the library
  loads,           \* how often it was loaded
  gIsAttached,
  gRemixAttached,
  gWinHooks,       \* the bridge's windows hooks are set
  remixProc,       \* RemixWndProc is in front of a window of the game
  gRemixFolder,
  server,          \* path of the server that was started, empty if none was
  launcher,        \* where the launcher is
  game,            \* external: the game's process
  argv,            \* the launcher's arguments
  result           \* what the launcher returned

detourVars == <<route, orig>>
processVars == <<launcher, game, argv, result>>
loadingVars == <<machine, detourVars, stage, loads, gIsAttached, gRemixAttached, gWinHooks, remixProc,
                 gRemixFolder, server, processVars>>

(* Calls of a function pass another tool's detour first, if there is one.   *)
Untouched(mc, f) == IF f \in mc.foreign THEN <<"tool", "own">> ELSE <<"own">>

NoOrig == [f \in Functions |-> "null"]

InitLoading ==
  /\ machine \in Machines
  /\ route = [f \in Functions |-> Untouched(machine, f)]
  /\ orig = NoOrig
  /\ stage = "out" /\ loads = 0
  /\ gIsAttached = FALSE /\ gRemixAttached = FALSE /\ gWinHooks = FALSE /\ remixProc = FALSE
  /\ gRemixFolder = <<>> /\ server = <<>>
  /\ argv \in CommandLines
  /\ launcher = "start" /\ game = "none" /\ result = "none"

--------------------------------------------------------------------------------
(* The launcher *)

(* The loop over the arguments, from the i-th: where the command line       *)
(* starts, and what -w and -i said before it.                               *)
ParseFrom ==
  LET Scan[i \in 1..(Len(argv) + 2)] ==
        IF i > Len(argv) THEN [arg |-> 0, cwd |-> "", inject |-> FALSE]
        ELSE CASE argv[i] = "-w" ->
                    LET rest == Scan[i + 2]
                    IN IF rest.cwd = "" THEN [rest EXCEPT !.cwd = argv[i + 1]] ELSE rest
               [] argv[i] = "-i" -> [Scan[i + 1] EXCEPT !.inject = TRUE]
               [] OTHER -> [arg |-> i, cwd |-> "", inject |-> FALSE]
  IN Scan[1]

Usable == argv # <<>> /\ ParseFrom.arg # 0

(* An executable's own folder is the working directory nobody gave.         *)
WorkingDirectory == IF ParseFrom.cwd = "" THEN "folder" ELSE ParseFrom.cwd

Return(r) == launcher' = "returned" /\ result' = r

(* main: up to CreateProcess, which makes a suspended process.  Its errors  *)
(* are all found before there is one.                                       *)
LauncherMain ==
  /\ launcher = "start"
  /\ CASE ~Usable -> Return("usage") /\ UNCHANGED game
       [] Usable /\ WorkingDirectory \notin Directories -> Return("directory") /\ UNCHANGED game
       [] OTHER ->
            \/ Return("create") /\ UNCHANGED game
            \/ ParseFrom.inject /\ Return("injection") /\ UNCHANGED game
            \/ launcher' = "created" /\ game' = "suspended" /\ UNCHANGED result
  /\ UNCHANGED <<machine, detourVars, stage, loads, gIsAttached, gRemixAttached, gWinHooks, remixProc,
                 gRemixFolder, server, argv>>

(* ResumeThread, then the wait for the game.                                *)
Resume ==
  /\ launcher = "created"
  /\ launcher' = "waiting" /\ game' = "running"
  /\ UNCHANGED <<machine, detourVars, stage, loads, gIsAttached, gRemixAttached, gWinHooks, remixProc,
                 gRemixFolder, server, argv, result>>

Waited ==
  /\ launcher = "waiting" /\ game = "ended"
  /\ \/ Return("game's")
     \/ Return("unknown")    \* GetExitCodeProcess failed
  /\ UNCHANGED <<machine, detourVars, stage, loads, gIsAttached, gRemixAttached, gWinHooks, remixProc,
                 gRemixFolder, server, game, argv>>

--------------------------------------------------------------------------------
(* Transactions of detours *)

(* DetourRetrieveOriginal: behind another tool's detour made the same way,  *)
(* so that the client comes after the tool; in front of everything else.    *)
RetrievesOriginal(f) == f \in machine.foreign /\ f \in {FirstCreate[v] : v \in DirectInputs}

WithClient(f) == IF RetrievesOriginal(f) THEN InsertAt(route[f], 2, "client") ELSE <<"client">> \o route[f]

WithoutClient(f) == RemoveFirst(route[f], "client")

Fails(attached, detached, o) ==
  \/ \E f \in attached : o[f] = "null" \/ f \in machine.refused
  \/ \E f \in detached : o[f] # "trampoline"

(* DetourTransactionBegin to Commit with the pointers o.                    *)
Routed(attached, detached, o) ==
  IF Fails(attached, detached, o) THEN route
  ELSE [f \in Functions |-> CASE f \in attached -> WithClient(f)
                              [] f \in detached -> WithoutClient(f)
                              [] OTHER -> route[f]]

Pointers(attached, detached, o) ==
  IF Fails(attached, detached, o) THEN o
  ELSE [f \in Functions |-> CASE f \in attached -> "trampoline"
                              [] f \in detached -> "function"
                              [] OTHER -> o[f]]

Transaction(attached, detached, o) ==
  /\ route' = Routed(attached, detached, o)
  /\ orig' = Pointers(attached, detached, o)

Found(fs, o) == [f \in Functions |-> IF f \in fs THEN (IF f \in machine.missing THEN "null" ELSE "function")
                                     ELSE o[f]]

--------------------------------------------------------------------------------
(* Attaching *)

(* InitRemixFolder: the library's path up to the last separator.            *)
FolderOf(path) ==
  LET seps == { i \in DOMAIN path : path[i] = "\\" }
  IN IF seps = {} THEN path ELSE SubSeq(path, 1, CHOOSE i \in seps : \A j \in seps : j <= i)

(* DllMain, DLL_PROCESS_ATTACH, to its transaction.  A library that refuses *)
(* to load is told to detach at once.  Detours' helper process loads it for *)
(* nothing.                                                                 *)
DllProcessAttach ==
  LET o == Found(SystemD3D9, orig) IN
  /\ game = "running" /\ stage = "out" /\ loads < MaxLoads
  /\ loads' = loads + 1
  /\ IF machine.helper
     THEN stage' = "helper" /\ UNCHANGED <<detourVars, gRemixFolder>>
     ELSE /\ gRemixFolder' = FolderOf(ModulePath)
          /\ IF machine.systemD3D9
             THEN /\ Transaction(SystemD3D9, {}, o)
                  /\ stage' = IF Fails(SystemD3D9, {}, o) THEN "detached" ELSE "bootstrapped"
             ELSE stage' = "detached" /\ UNCHANGED detourVars
  /\ UNCHANGED <<machine, gIsAttached, gRemixAttached, gWinHooks, remixProc, server, processVars>>

(* WndProc::init; the client goes on without.                               *)
AttachWindow ==
  /\ stage = "bootstrapped" /\ ~gIsAttached
  /\ Transaction(WindowLong, {}, Found(WindowLong, orig))
  /\ stage' = "windowed"
  /\ UNCHANGED <<machine, loads, gIsAttached, gRemixAttached, gWinHooks, remixProc, gRemixFolder, server,
                 processVars>>

(* DirectInput8Hook::attach and DirectInput7Hook::attach look for the first *)
(* creating function and make a mouse with it to find the methods; without, *)
(* they attach nothing.  The wide form is looked for only then.             *)
Offers(v) == FirstCreate[v] \notin machine.missing /\ machine.directInput[v]

DirectInput8HookAttach == IF Offers("dinput8") THEN Methods["dinput8"] \cup Creates["dinput8"] ELSE {}

DirectInput7HookAttach ==
  IF Offers("dinput") THEN Methods["dinput"] \cup (Creates["dinput"] \ machine.missing) ELSE {}

VersionFinds(v) == IF Offers(v) THEN Methods[v] \cup Creates[v] ELSE {FirstCreate[v]}

AttachConventionalInput == Conventional \cup (IF machine.hookMessagePump THEN Pump ELSE {})

(* DInputHookAttach, with InputWinHooksAttach, which is of no transaction.  *)
DInputHookAttach ==
  LET attached == AttachConventionalInput \cup DirectInput8HookAttach \cup DirectInput7HookAttach
      found == AttachConventionalInput \cup UNION {VersionFinds(v) : v \in DirectInputs}
  IN /\ stage = "windowed"
     /\ Transaction(attached, {}, Found(found, orig))
     /\ gWinHooks' = machine.overrideCustomWinHooks
     /\ stage' = "hooked"
     /\ UNCHANGED <<machine, loads, gIsAttached, gRemixAttached, remixProc, gRemixFolder, server, processVars>>

(* The rest of RemixAttach, channels, bridges and options, and of DllMain.  *)
FinishAttach ==
  /\ stage = "hooked"
  /\ gIsAttached' = TRUE /\ gRemixAttached' = TRUE
  /\ stage' = "attached"
  /\ UNCHANGED <<machine, detourVars, loads, gWinHooks, remixProc, gRemixFolder, server, processVars>>

--------------------------------------------------------------------------------
(* A call of Direct3DCreate9 gets to the client by its own export, or by    *)
(* the system's function.                                                   *)
Reaches(f) == ~ParseFrom.inject \/ Contains(route[f], "client")

(* LssDirect3DCreate9 and its extended form: InitServer starts one server.  *)
LssDirect3DCreate9(f) ==
  /\ stage = "attached" /\ gIsAttached
  /\ Reaches(f)
  /\ server' = IF server = <<>> THEN gRemixFolder \o <<".trex", "\\", "NvRemixBridge.exe">> ELSE server
  /\ UNCHANGED <<machine, detourVars, stage, loads, gIsAttached, gRemixAttached, gWinHooks, remixProc,
                 gRemixFolder, processVars>>

(* A device: WndProc::set, with or without the detours.                     *)
SetProc ==
  /\ stage = "attached" /\ server # <<>>
  /\ remixProc' = TRUE
  /\ UNCHANGED <<machine, detourVars, stage, loads, gIsAttached, gRemixAttached, gWinHooks, gRemixFolder,
                 server, processVars>>

--------------------------------------------------------------------------------
(* Detaching *)

(* RemixDetach: WndProc::terminate, which leaves the window procedure when  *)
(* it cannot detach.                                                        *)
TerminateWndProc ==
  /\ stage = "attached" /\ gRemixAttached /\ gIsAttached
  /\ Transaction({}, WindowLong, orig)
  /\ remixProc' = (remixProc /\ Fails({}, WindowLong, orig))
  /\ stage' = "terminated"
  /\ UNCHANGED <<machine, loads, gIsAttached, gRemixAttached, gWinHooks, gRemixFolder, server, processVars>>

(* The server is told to end and waited for, or ended.                      *)
EndServer ==
  /\ stage = "terminated"
  /\ server' = <<>>
  /\ stage' = "serverless"
  /\ UNCHANGED <<machine, detourVars, loads, gIsAttached, gRemixAttached, gWinHooks, remixProc,
                 gRemixFolder, processVars>>

(* Variant with a bug: the message pump stays detoured. *)
DetachConventionalButPump == Conventional

DetachConventionalInput == Conventional \cup (IF machine.hookMessagePump THEN Pump ELSE {})

DirectInput8HookDetach == Creates["dinput8"] \cup Methods["dinput8"]

DirectInput7HookDetach == Creates["dinput"] \cup Methods["dinput"]

(* DInputHookDetach, every version's functions whether attached or not.     *)
DInputHookDetach ==
  /\ stage = "serverless"
  /\ Transaction({}, DetachConventionalInput \cup DirectInput8HookDetach \cup DirectInput7HookDetach, orig)
  /\ gWinHooks' = FALSE /\ gIsAttached' = FALSE
  /\ stage' = "detached"
  /\ UNCHANGED <<machine, loads, gRemixAttached, remixProc, gRemixFolder, server, processVars>>

(* The end of DLL_PROCESS_DETACH, and the library's data with it.           *)
DllProcessDetach ==
  /\ stage \in {"detached", "helper"}
  /\ route' = IF stage = "helper" THEN route ELSE Routed({}, SystemD3D9, orig)
  /\ orig' = NoOrig
  /\ gRemixAttached' = FALSE /\ gRemixFolder' = <<>>
  /\ stage' = "out"
  /\ UNCHANGED <<machine, loads, gIsAttached, gWinHooks, remixProc, server, processVars>>

(* The game ends; the loader has told the libraries.                        *)
GameEnds ==
  /\ game = "running" /\ stage = "out"
  /\ game' = "ended"
  /\ UNCHANGED <<machine, detourVars, stage, loads, gIsAttached, gRemixAttached, gWinHooks, remixProc,
                 gRemixFolder, server, launcher, argv, result>>

LoadingNext ==
  \/ LauncherMain \/ Resume \/ Waited
  \/ DllProcessAttach \/ AttachWindow \/ DInputHookAttach \/ FinishAttach
  \/ (\E f \in SystemD3D9 : LssDirect3DCreate9(f)) \/ SetProc
  \/ TerminateWndProc \/ EndServer \/ DInputHookDetach \/ DllProcessDetach
  \/ GameEnds

LoadingSpec == InitLoading /\ [][LoadingNext]_loadingVars

--------------------------------------------------------------------------------
(* What DInputHookDetach needs to find attached, of what a machine has.     *)
Complete ==
  \A v \in DirectInputs : Offers(v) /\ Creates[v] \cap machine.missing = {}

(* The client leaves nothing behind.  A call of a detoured function passes  *)
(* the client once, whatever another tool did to the function before, and   *)
(* never after the library has gone, however far attaching came and         *)
(* whatever could not be attached; nor does a window procedure, a windows   *)
(* hook or a server remain.  The launcher never gives up on a game that     *)
(* still waits to be resumed.  (Two gaps: a version of DirectInput that     *)
(* was not there makes the transaction that takes the input detours back    *)
(* fail as a whole, and a window function that cannot be detoured makes     *)
(* terminate() keep the window procedure.)                                  *)
NothingLeftBehind ==
  /\ stage = "out" =>
       /\ \A f \in Functions \ (IF Complete THEN {} ELSE InputFunctions) : route[f] = Untouched(machine, f)
       /\ ~gWinHooks /\ ~gIsAttached /\ server = <<>>
       /\ remixProc => WindowLong \cap machine.refused # {}
  /\ \A f \in Functions :
       Complete \/ f \notin InputFunctions =>
         /\ \A i, j \in DOMAIN route[f] : route[f][i] = "client" /\ route[f][j] = "client" => i = j
         /\ Last(route[f]) = "own"
         /\ Contains(route[f], "client") => orig[f] = "trampoline"
  /\ launcher = "returned" => game \in {"none", "ended"}
================================================================================
