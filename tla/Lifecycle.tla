-------------------------------- MODULE Lifecycle --------------------------------
(***************************************************************************)
(* How the two processes of the bridge come up and go down: InitServer,    *)
(* OnServerExited and RemixDetach on the client (client/d3d9_lss.cpp),     *)
(* wWinMain and OnClientExited on the server (server/main.cpp), and the    *)
(* child process with its exit callback (util/util_process.cpp).           *)
(*                                                                         *)
(* The two command queues are the Fifo of module CommandQueue.  Either     *)
(* process may die without warning at any point.                           *)
(***************************************************************************)
EXTENDS Naturals, Sequences

CONSTANT MaxCommands   \* device commands the game issues, at most

ASSUME LifecycleAssumption == MaxCommands \in Nat

VARIABLES
  toServer, toClient,  \* the command queues, with the client's number of each command
  s_cmdUID,            \* s_cmdUID: headers the client has pushed
  issued,              \* commands the game has issued
  timeouts,            \* ~disableTimeouts: whether a wait ever looks up from an empty queue
  \* the client
  clientAt,            \* where its main thread is: attached, launched, awaitAck, continue, running,
                       \* ask, failed, detach, terminate, awaitDone, release, exited
  clientState,         \* BridgeState: m_clientState
  serverState,         \* BridgeState: m_serverState
  clientRunning,       \* gbBridgeRunning
  infiniteRetries,     \* GlobalOptions: the window has no focus
  watching,            \* exit callback on the server: "no", "yes": registered, "called": it runs
  clean,               \* the wait for the final Ack succeeded
  \* the server
  serverAt,            \* where its main thread is: none, starting, awaitSyn, initD3D, awaitContinue,
                       \* processing, join, unregister, finalAck, exited
  rxUID,               \* g_rxUID: headers it has pulled
  miscounted,          \* it has taken a command for another one
  ghModule,            \* the d3d9 module is loaded
  watched,             \* "no", "yes": the callback is registered, "called": it runs
  serverRunning        \* its gbBridgeRunning

messageVars == <<toServer, toClient, s_cmdUID, issued, timeouts>>
clientProcessVars == <<clientAt, clientState, serverState, clientRunning, infiniteRetries, watching, clean>>
serverProcessVars == <<serverAt, rxUID, miscounted, ghModule, watched, serverRunning>>
lifecycleVars == <<messageVars, clientProcessVars, serverProcessVars>>

(* RemixAttach has run: the options are read and the channels exist. *)
InitLifecycle ==
  /\ toServer = <<>> /\ toClient = <<>> /\ s_cmdUID = 0 /\ issued = 0
  /\ timeouts \in BOOLEAN
  /\ clientAt = "attached" /\ clientState = "Init" /\ serverState = "NotInit"
  /\ clientRunning = TRUE /\ infiniteRetries = FALSE /\ watching = "no" /\ clean = FALSE
  /\ serverAt = "none" /\ rxUID = 0 /\ miscounted = FALSE /\ ghModule = FALSE
  /\ watched = "no" /\ serverRunning = TRUE

ClientGone == clientAt = "exited"
ServerGone == serverAt = "exited"

---------------------------------------------------------------------------
(* Client *)

(* A Command object: sent only while the bridge is running, and the last    *)
(* one sent if the server is known to be through.                           *)
Message(m) ==
  IF clientRunning
  THEN /\ toServer' = Append(toServer, [m |-> m, uid |-> s_cmdUID])
       /\ s_cmdUID' = s_cmdUID + 1
       /\ clientRunning' = (serverState \notin {"DoneProcessing", "Exited"})
  ELSE UNCHANGED <<toServer, s_cmdUID, clientRunning>>

(* waitForCommand(m): the answer at the head is it; or the wait times out,  *)
(* after its attempts, or after the first one when the bridge is off.  With *)
(* timeouts disabled peek() waits on an empty queue for ever.               *)
Arrived(m) == toClient # <<>> /\ Head(toClient) = m

TimedOut(m) ==
  /\ ~Arrived(m)
  /\ timeouts
  /\ infiniteRetries => ~clientRunning

(* InitServer: the child process and the callback on its exit.              *)
Launch ==
  /\ clientAt = "attached"
  /\ \/ serverAt' = "starting" /\ watching' = "yes"
     \/ serverAt' = "exited" /\ UNCHANGED watching    \* CreateProcess failed
  /\ clientAt' = "launched"
  /\ UNCHANGED <<messageVars, clientState, serverState, clientRunning, infiniteRetries, clean, rxUID,
                 miscounted, ghModule, watched, serverRunning>>

SendSyn ==
  /\ clientAt = "launched"
  /\ serverState' = "Init"
  /\ IF clientRunning
     THEN toServer' = Append(toServer, [m |-> "Syn", uid |-> s_cmdUID]) /\ s_cmdUID' = s_cmdUID + 1
     ELSE UNCHANGED <<toServer, s_cmdUID>>
  /\ clientState' = "Handshaking"
  /\ clientAt' = "awaitAck"
  /\ UNCHANGED <<timeouts, toClient, issued, clientRunning, infiniteRetries, watching, clean,
                 serverProcessVars>>

AckArrives ==
  /\ clientAt = "awaitAck"
  /\ Arrived("Ack")
  /\ toClient' = Tail(toClient)
  /\ serverState' = "Handshaking"
  /\ clientAt' = "continue"
  /\ UNCHANGED <<timeouts, toServer, s_cmdUID, issued, clientState, clientRunning, infiniteRetries,
                 watching, clean, serverProcessVars>>

AckTimesOut ==
  /\ clientAt = "awaitAck"
  /\ TimedOut("Ack")
  /\ serverState' = "DoneProcessing" /\ clientRunning' = FALSE
  /\ clientAt' = "failed"
  /\ UNCHANGED <<messageVars, clientState, infiniteRetries, watching, clean, serverProcessVars>>

Continue ==
  /\ clientAt = "continue"
  /\ Message("Continue")
  /\ clientState' = "Running" /\ serverState' = "Running"
  /\ clientAt' = "running"
  /\ UNCHANGED <<timeouts, toClient, issued, infiniteRetries, watching, clean, serverProcessVars>>

(* The game uses the device: commands with and without an answer. *)
Issue ==
  /\ clientAt = "running" /\ issued < MaxCommands
  /\ issued' = issued + 1
  /\ \/ Message("Command") /\ UNCHANGED clientAt
     \/ Message("Ask") /\ clientAt' = "ask"
  /\ UNCHANGED <<timeouts, toClient, clientState, serverState, infiniteRetries, watching, clean,
                 serverProcessVars>>

Answered ==
  /\ clientAt = "ask"
  /\ Arrived("Response") /\ toClient' = Tail(toClient)
  /\ clientAt' = "running"
  /\ UNCHANGED <<timeouts, toServer, s_cmdUID, issued, clientState, serverState, clientRunning,
                 infiniteRetries, watching, clean, serverProcessVars>>

(* The answer may still arrive, and stay in the queue. *)
NoAnswer ==
  /\ clientAt = "ask"
  /\ TimedOut("Response")
  /\ clientAt' = "running"
  /\ UNCHANGED <<messageVars, clientState, serverState, clientRunning, infiniteRetries, watching, clean,
                 serverProcessVars>>

(* WM_KILLFOCUS and WM_SETFOCUS in the game's window. *)
Focus ==
  /\ clientAt \in {"running", "ask"}
  /\ infiniteRetries' = ~infiniteRetries
  /\ UNCHANGED <<messageVars, clientAt, clientState, serverState, clientRunning, watching, clean,
                 serverProcessVars>>

(* The game exits: RemixDetach.  Without a server there is nothing to end. *)
Detach ==
  /\ clientAt \in {"attached", "running", "failed"}
  /\ IF clientAt = "attached"
     THEN clientAt' = "exited" /\ clientState' = "Exited"
     ELSE clientAt' = "detach" /\ clientState' = "DoneProcessing"
  /\ UNCHANGED <<messageVars, serverState, clientRunning, infiniteRetries, watching, clean,
                 serverProcessVars>>

(* UnregisterExitCallback first, so that the server's exit is no surprise;  *)
(* it waits for a callback that runs.                                       *)
Unwatch ==
  /\ clientAt = "detach"
  /\ watching # "called"
  /\ watching' = "no"
  /\ clientAt' = "terminate"
  /\ UNCHANGED <<messageVars, clientState, serverState, clientRunning, infiniteRetries, clean,
                 serverProcessVars>>

Terminate ==
  /\ clientAt = "terminate"
  /\ Message("Terminate")
  /\ clientAt' = "awaitDone"
  /\ UNCHANGED <<timeouts, toClient, issued, clientState, serverState, infiniteRetries, watching, clean,
                 serverProcessVars>>

DoneArrives ==
  /\ clientAt = "awaitDone"
  /\ Arrived("Ack") /\ toClient' = Tail(toClient)
  /\ clean' = TRUE
  /\ clientAt' = "release"
  /\ UNCHANGED <<timeouts, toServer, s_cmdUID, issued, clientState, serverState, clientRunning,
                 infiniteRetries, watching, serverProcessVars>>

DoneTimesOut ==
  /\ clientAt = "awaitDone"
  /\ TimedOut("Ack")
  /\ clientAt' = "release"
  /\ UNCHANGED <<messageVars, clientState, serverState, clientRunning, infiniteRetries, watching, clean,
                 serverProcessVars>>

(* Variant with a bug: a server that does not exit by itself is waited for. *)
ReleaseWaits ==
  /\ clientAt = "release"
  /\ ServerGone
  /\ clientState' = "Exited"
  /\ clientAt' = "exited"
  /\ UNCHANGED <<messageVars, serverState, clientRunning, infiniteRetries, watching, clean,
                 serverProcessVars>>

(* releaseChildProcess: three seconds to exit by itself, then it is killed. *)
ReleaseModule ==
  /\ clientAt = "release"
  /\ serverAt' = "exited"
  /\ clientState' = "Exited"
  /\ clientAt' = "exited"
  /\ UNCHANGED <<messageVars, serverState, clientRunning, infiniteRetries, watching, clean, rxUID,
                 miscounted, ghModule, watched, serverRunning>>

(* Variant with a bug: only a client that is up and running is ended. *)
OnServerExitedIfRunning ==
  /\ watching = "yes" /\ ServerGone /\ ~ClientGone
  /\ serverState' = "Exited"
  /\ clientRunning' = FALSE
  /\ watching' = IF clientState # "Running" THEN "no" ELSE "called"
  /\ UNCHANGED <<messageVars, clientAt, clientState, infiniteRetries, clean, serverProcessVars>>

(* OnServerExited, on a thread of its own.  Unless the client is going down *)
(* already the thread shows its message box, while the others run on...     *)
OnServerExited ==
  /\ watching = "yes" /\ ServerGone /\ ~ClientGone
  /\ serverState' = "Exited"
  /\ clientRunning' = FALSE
  /\ watching' = IF clientState = "DoneProcessing" THEN "no" ELSE "called"
  /\ UNCHANGED <<messageVars, clientAt, clientState, infiniteRetries, clean, serverProcessVars>>

(* ...and exits the process, which runs RemixDetach.  The system is taken   *)
(* to let UnregisterExitCallback return when a process exits.               *)
ExitClient ==
  /\ watching = "called" /\ ~ClientGone
  /\ clientState' = "DoneProcessing"
  /\ watching' = "no"
  /\ clientAt' = "terminate"
  /\ UNCHANGED <<messageVars, serverState, clientRunning, infiniteRetries, clean, serverProcessVars>>

ClientDies ==
  /\ clientAt # "exited"
  /\ clientAt' = "exited"
  /\ UNCHANGED <<messageVars, clientState, serverState, clientRunning, infiniteRetries, watching, clean,
                 serverProcessVars>>

---------------------------------------------------------------------------
(* Server *)

NextIs(m) == toServer # <<>> /\ Head(toServer).m = m

(* pop_front and the count of headers: the number of this command. *)
Pop ==
  /\ toServer' = Tail(toServer)
  /\ rxUID' = rxUID + 1
  /\ miscounted' = (miscounted \/ Head(toServer).uid # rxUID)
  /\ UNCHANGED <<s_cmdUID, issued>>

(* A wrong GUID or version ends the server at once. *)
Start ==
  /\ serverAt = "starting"
  /\ serverAt' \in {"awaitSyn", "exited"}
  /\ UNCHANGED <<messageVars, clientProcessVars, rxUID, miscounted, ghModule, watched, serverRunning>>

(* Whether the server could register for the client's end or not, it goes   *)
(* on.                                                                      *)
RegisterExitCallback == watched' \in {"yes", "no"}

(* The server's waits never time out (getInfiniteRetries).  The Syn carries *)
(* the handle of the client process.                                        *)
SynArrives ==
  /\ serverAt = "awaitSyn"
  /\ NextIs("Syn") /\ Pop
  /\ RegisterExitCallback
  /\ serverAt' = "initD3D"
  /\ UNCHANGED <<timeouts, toClient, clientProcessVars, ghModule, serverRunning>>

InitializeD3D ==
  /\ serverAt = "initD3D"
  /\ \/ /\ ghModule' = TRUE
        /\ toClient' = Append(toClient, "Ack")
        /\ serverAt' = "awaitContinue"
     \/ serverAt' = "exited" /\ UNCHANGED <<ghModule, toClient>>
  /\ UNCHANGED <<timeouts, toServer, s_cmdUID, issued, clientProcessVars, rxUID, miscounted, watched,
                 serverRunning>>

waitForCommandAndDiscard(m) == NextIs(m) /\ Pop

ContinueArrives ==
  /\ serverAt = "awaitContinue"
  /\ waitForCommandAndDiscard("Continue")
  /\ serverAt' = "processing"
  /\ UNCHANGED <<timeouts, toClient, clientProcessVars, ghModule, watched, serverRunning>>

(* Variant with a bug: the case of Terminate answers at once. *)
ProcessAcksTerminate ==
  /\ serverAt = "processing"
  /\ toServer # <<>> /\ Pop
  /\ toClient' = CASE Head(toServer).m = "Ask" -> Append(toClient, "Response")
                   [] Head(toServer).m = "Terminate" -> Append(toClient, "Ack")
                   [] OTHER -> toClient
  /\ serverAt' = IF Head(toServer).m = "Terminate" THEN "join" ELSE "processing"
  /\ UNCHANGED <<timeouts, clientProcessVars, ghModule, watched, serverRunning>>

ProcessHeader ==
  /\ serverAt = "processing"
  /\ toServer # <<>> /\ Pop
  /\ toClient' = IF Head(toServer).m = "Ask" THEN Append(toClient, "Response") ELSE toClient
  /\ serverAt' = IF Head(toServer).m = "Terminate" THEN "join" ELSE "processing"
  /\ UNCHANGED <<timeouts, clientProcessVars, ghModule, watched, serverRunning>>

(* The client is gone and a wait has timed out: the loop ends; before the   *)
(* loop the process does.                                                   *)
BridgeDisabled ==
  /\ serverAt \in {"awaitContinue", "processing"}
  /\ timeouts /\ ~serverRunning /\ toServer = <<>>
  /\ serverAt' = IF serverAt = "processing" THEN "join" ELSE "exited"
  /\ UNCHANGED <<messageVars, clientProcessVars, rxUID, miscounted, ghModule, watched, serverRunning>>

(* The module thread is told to stop and joined; the d3d9 module is done. *)
Join ==
  /\ serverAt = "join"
  /\ ghModule' = FALSE
  /\ serverAt' = "unregister"
  /\ UNCHANGED <<messageVars, clientProcessVars, rxUID, miscounted, watched, serverRunning>>

(* UnregisterWaitEx waits for a callback that runs. *)
Unregister ==
  /\ serverAt = "unregister"
  /\ watched # "called"
  /\ watched' = "no"
  /\ serverAt' = "finalAck"
  /\ UNCHANGED <<messageVars, clientProcessVars, rxUID, miscounted, ghModule, serverRunning>>

FinalAck ==
  /\ serverAt = "finalAck"
  /\ toClient' = Append(toClient, "Ack")
  /\ serverAt' = "exited"
  /\ UNCHANGED <<timeouts, toServer, s_cmdUID, issued, clientProcessVars, rxUID, miscounted, ghModule,
                 watched, serverRunning>>

(* OnClientExited, on a thread of its own: turn the bridge off... *)
OnClientExited ==
  /\ watched = "yes" /\ ClientGone /\ ~ServerGone
  /\ watched' = "called"
  /\ serverRunning' = FALSE
  /\ UNCHANGED <<messageVars, clientProcessVars, serverAt, rxUID, miscounted, ghModule>>

(* ...and when the module is not unloaded in time, force quit. *)
ForceQuit ==
  /\ watched = "called" /\ ~ServerGone
  /\ \/ ghModule /\ serverAt' = "exited" /\ UNCHANGED watched
     \/ ~ghModule /\ watched' = "no" /\ UNCHANGED serverAt
  /\ UNCHANGED <<messageVars, clientProcessVars, rxUID, miscounted, ghModule, serverRunning>>

ServerDies ==
  /\ serverAt \notin {"none", "exited"}
  /\ serverAt' = "exited"
  /\ UNCHANGED <<messageVars, clientProcessVars, rxUID, miscounted, ghModule, watched, serverRunning>>

---------------------------------------------------------------------------
ClientStep ==
  \/ Launch \/ SendSyn \/ AckArrives \/ AckTimesOut \/ Continue \/ Issue \/ Answered \/ NoAnswer \/ Focus \/ Detach
  \/ Unwatch \/ Terminate \/ DoneArrives \/ DoneTimesOut \/ ReleaseModule

ServerStep ==
  \/ Start \/ SynArrives \/ InitializeD3D \/ ContinueArrives \/ ProcessHeader \/ BridgeDisabled \/ Join
  \/ Unregister \/ FinalAck

LifecycleNext ==
  \/ ClientStep \/ OnServerExited \/ ExitClient \/ ClientDies
  \/ ServerStep \/ OnClientExited \/ ForceQuit \/ ServerDies

LifecycleSpec == InitLifecycle /\ [][LifecycleNext]_lifecycleVars

(* Every thread keeps running and the message box is closed.  The game need *)
(* not start, issue commands or exit; nobody has to die.                    *)
LifecycleFairSpec ==
  /\ LifecycleSpec
  /\ WF_lifecycleVars(SendSyn) /\ WF_lifecycleVars(AckArrives \/ AckTimesOut) /\ WF_lifecycleVars(Continue)
  /\ WF_lifecycleVars(Answered \/ NoAnswer)
  /\ WF_lifecycleVars(Unwatch) /\ WF_lifecycleVars(Terminate)
  /\ WF_lifecycleVars(DoneArrives \/ DoneTimesOut) /\ WF_lifecycleVars(ReleaseModule)
  /\ WF_lifecycleVars(OnServerExited) /\ WF_lifecycleVars(ExitClient)
  /\ WF_lifecycleVars(ServerStep) /\ WF_lifecycleVars(OnClientExited) /\ WF_lifecycleVars(ForceQuit)

---------------------------------------------------------------------------
(* Properties *)

(* The number the server derives by counting headers is the client's number *)
(* of the command, the headers of the handshake included ("the client no    *)
(* longer sends a UID word; count the header instead"); and the final Ack   *)
(* means what the client logs, "Server notified that it has cleanly         *)
(* terminated": every command it sent has been processed and the server is  *)
(* through.  (With timeouts the late Ack of a handshake that was given up   *)
(* is taken for it.)                                                        *)
CleanMeansDone ==
  /\ ~miscounted
  /\ clean /\ ~timeouts => ServerGone /\ toServer = <<>> /\ rxUID = s_cmdUID

(* The waits of the client's main thread do not end by themselves: timeouts *)
(* are disabled, or the window has no focus.                                *)
Patient == ~timeouts \/ infiniteRetries

(* Starting the server ends, with a bridge or without one. *)
HandshakeEnds ==
  (clientAt = "launched" /\ ~Patient) ~> (clientAt \notin {"launched", "awaitAck", "continue"})

(* A client that dies once the server watches it and has loaded d3d9 takes  *)
(* the server with it, whatever the server is doing and whether or not its  *)
(* waits time out; and a server that exits while the client watches it      *)
(* takes the client along, as far as RemixDetach's wait for a final Ack     *)
(* nobody will send: by default, with timeouts disabled, it stays in that   *)
(* wait for good, although OnServerExited is there to "disable the bridge   *)
(* to terminate any ongoing processing".                                    *)
ProcessesFollow ==
  /\ (ClientGone /\ watched = "yes" /\ ghModule) ~> ServerGone
  /\ (ServerGone /\ watching = "yes") ~> (ClientGone \/ (Patient /\ clientAt = "awaitDone"))

(* A client that goes down gets there: neither a dead server nor one that   *)
(* does not answer keeps it, as long as the waits end by themselves.        *)
DetachEndsInTime == (clientAt \in {"detach", "terminate"} /\ ~Patient) ~> ClientGone

(* Both: neither the start nor the end of the client waits for ever. *)
StartAndStopEnd == HandshakeEnds /\ DetachEndsInTime
===================================================================================
