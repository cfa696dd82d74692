--------------------------- MODULE LifecycleProofs ---------------------------
(***************************************************************************)
(* The two processes agree on the number of every command, and the Ack     *)
(* that ends a session means that the server is through with all of them:  *)
(* CleanMeansDone, for any number of commands and any process dying at any *)
(* point.  And the library leaves nothing behind in the game's process,    *)
(* NothingLeftBehind, for every machine and any number of loads.           *)
(***************************************************************************)
EXTENDS Lifecycle, Loading, SequenceTheorems, TLAPS

Commands == {"Syn", "Continue", "Command", "Ask", "Terminate"}

ClientPlaces == {"attached", "launched", "awaitAck", "continue", "running", "ask", "failed", "detach",
                 "terminate", "awaitDone", "release", "exited"}

ServerPlaces == {"none", "starting", "awaitSyn", "initD3D", "awaitContinue", "processing", "join",
                 "unregister", "finalAck", "exited"}

(* The types of what the argument looks at.                                 *)
LifecycleType ==
  /\ toServer \in Seq([m : Commands, uid : Nat])
  /\ toClient \in Seq({"Ack", "Response"})
  /\ s_cmdUID \in Nat /\ rxUID \in Nat
  /\ timeouts \in BOOLEAN /\ clientRunning \in BOOLEAN /\ clean \in BOOLEAN /\ miscounted \in BOOLEAN
  /\ clientAt \in ClientPlaces /\ serverAt \in ServerPlaces
  /\ watching \in {"no", "yes", "called"}
  /\ serverState \in {"NotInit", "Init", "Handshaking", "Running", "DoneProcessing", "Exited"}

(* The commands on their way to the server are the ones it has not counted  *)
(* yet, in the order of their numbers.                                      *)
CountInv ==
  /\ ~miscounted
  /\ s_cmdUID = rxUID + Len(toServer)
  /\ \A i \in 1..Len(toServer) : toServer[i].uid = rxUID + i - 1

NoAck == \A i \in 1..Len(toClient) : toClient[i] # "Ack"
NoTerminate == \A i \in 1..Len(toServer) : toServer[i].m # "Terminate"
TerminateLast == \A i \in 1..Len(toServer) : toServer[i].m = "Terminate" => i = Len(toServer)

(* The bridge is turned off in the client only when the server is gone, and *)
(* a callback that runs has turned it off.                                  *)
OffInv ==
  /\ ~clientRunning => ServerGone
  /\ watching = "called" => ServerGone /\ ~clientRunning
  /\ clientRunning => serverState \notin {"DoneProcessing", "Exited"}
  /\ clientAt \in {"terminate", "awaitDone", "release"} => watching = "no"
  /\ clientAt # "failed"
  /\ clean => clientAt = "release"

(* How far the server can be and what can be under way, for every place of  *)
(* the client.  The handshake's Ack is answered to a queue that holds the   *)
(* Syn alone; Terminate is the last command.                                *)
StageInv ==
  /\ clientAt \in {"attached", "launched"} =>
       /\ toServer = <<>> /\ toClient = <<>>
       /\ serverAt \in IF clientAt = "attached" THEN {"none"} ELSE {"starting", "awaitSyn", "exited"}
       /\ watched = "no"
  /\ clientAt = "awaitAck" =>
       /\ serverAt \in {"starting", "awaitSyn", "initD3D", "awaitContinue", "exited"}
       /\ Len(toServer) <= 1 /\ Len(toClient) <= 1
       /\ serverAt = "initD3D" => toServer = <<>> /\ toClient = <<>>
       /\ serverAt \in {"starting", "awaitSyn"} => toClient = <<>>
       /\ serverAt = "awaitContinue" => toServer = <<>>
       /\ NoTerminate
  /\ clientAt = "continue" => toServer = <<>> /\ serverAt \in {"awaitContinue", "exited"}
  /\ clientAt \in {"continue", "running", "ask", "detach"} => NoAck
  /\ clientAt \in {"running", "ask", "detach"} => serverAt \in {"awaitContinue", "processing", "exited"}
  /\ clientAt \in {"continue", "running", "ask", "detach", "terminate"} => NoTerminate
  /\ clientAt = "terminate" => serverAt \in {"awaitContinue", "processing", "exited"}
  /\ clientAt = "awaitDone" =>
       /\ serverAt \in {"awaitContinue", "processing", "join", "unregister", "finalAck", "exited"}
       /\ serverAt \in {"join", "unregister", "finalAck"} => toServer = <<>>
       /\ TerminateLast
  /\ clientAt = "terminate" => NoAck \/ ~clientRunning
  /\ clientAt = "awaitDone" => NoAck \/ ServerGone
  /\ clientAt = "release" => ServerGone /\ toServer = <<>>

AckInv == NoAck \/ toServer = <<>>

(* What holds of the sessions without timeouts while the client lives, and  *)
(* what its end leaves.                                                     *)
ShutdownInv ==
  ~timeouts => IF clientAt = "exited"
               THEN clean => ServerGone /\ toServer = <<>>
               ELSE OffInv /\ StageInv /\ AckInv

(* The inductive invariant.                                                 *)
IInv == LifecycleType /\ CountInv /\ ShutdownInv

-----------------------------------------------------------------------------
(* Sequences *)

(* What Append adds to a queue.                                             *)
LEMMA Pushed ==
  ASSUME NEW S, NEW q \in Seq(S), NEW e \in S
  PROVE  /\ Append(q, e) \in Seq(S)
         /\ Len(q) \in Nat /\ Len(Append(q, e)) = Len(q) + 1
         /\ \A i \in 1..Len(q) : Append(q, e)[i] = q[i]
         /\ Append(q, e)[Len(q) + 1] = e
         /\ Append(q, e) # <<>>
BY AppendProperties, LenProperties

(* What Tail takes from a queue.                                            *)
LEMMA Popped ==
  ASSUME NEW S, NEW q \in Seq(S), q # <<>>
  PROVE  /\ Head(q) \in S /\ Head(q) = q[1]
         /\ Tail(q) \in Seq(S)
         /\ Len(q) \in Nat \ {0} /\ Len(Tail(q)) = Len(q) - 1
         /\ \A i \in 1..Len(Tail(q)) : Tail(q)[i] = q[i + 1]
BY HeadTailProperties, LenProperties, EmptySeq

(* A queue without elements is the empty one.                               *)
LEMMA NothingLeft == ASSUME NEW S, NEW q \in Seq(S) PROVE Len(q) = 0 <=> q = <<>>
BY EmptySeq

-----------------------------------------------------------------------------
(* The numbers of the commands *)

(* What pushing a command does to the types and the count.                  *)
LEMMA PushCounts ==
  ASSUME LifecycleType, CountInv, NEW m \in Commands,
         toServer' = Append(toServer, [m |-> m, uid |-> s_cmdUID]), s_cmdUID' = s_cmdUID + 1,
         UNCHANGED <<rxUID, miscounted>>
  PROVE  /\ toServer' \in Seq([m : Commands, uid : Nat]) /\ s_cmdUID' \in Nat
         /\ CountInv'
<1> DEFINE S == [m : Commands, uid : Nat]
           e == [m |-> m, uid |-> s_cmdUID]
<1>1. toServer \in Seq(S) /\ e \in S
  BY DEF LifecycleType
<1> HIDE DEF S
<1>2. /\ toServer' \in Seq(S) /\ Len(toServer) \in Nat /\ Len(toServer') = Len(toServer) + 1
      /\ \A i \in 1..Len(toServer) : toServer'[i] = toServer[i]
      /\ toServer'[Len(toServer) + 1] = e
  BY <1>1, Pushed
<1>3. ASSUME NEW i \in 1..Len(toServer') PROVE toServer'[i].uid = rxUID' + i - 1
  BY <1>2 DEF CountInv, LifecycleType
<1> QED
  BY <1>2, <1>3 DEF CountInv, LifecycleType, S

(* What popping one does.                                                   *)
LEMMA PopCounts ==
  ASSUME LifecycleType, CountInv, toServer # <<>>, Pop
  PROVE  /\ toServer' \in Seq([m : Commands, uid : Nat]) /\ s_cmdUID' \in Nat
         /\ rxUID' \in Nat /\ miscounted' \in BOOLEAN
         /\ CountInv'
<1> DEFINE S == [m : Commands, uid : Nat]
<1>1. toServer \in Seq(S)
  BY DEF LifecycleType
<1>2. /\ Head(toServer) \in S /\ Head(toServer) = toServer[1]
      /\ toServer' \in Seq(S) /\ Len(toServer) \in Nat \ {0} /\ Len(toServer') = Len(toServer) - 1
      /\ \A i \in 1..Len(toServer') : toServer'[i] = toServer[i + 1]
  <2> HIDE DEF S
  <2> QED BY <1>1, Popped DEF Pop
<1>3. toServer[1].uid = rxUID
  BY <1>2 DEF CountInv, LifecycleType
<1>4. miscounted' = FALSE
  BY <1>2, <1>3 DEF CountInv, Pop
<1>5. ASSUME NEW i \in 1..Len(toServer') PROVE toServer'[i].uid = rxUID' + i - 1
  <2>1. i + 1 \in 1..Len(toServer)
    BY <1>2
  <2> QED BY <1>2, <2>1 DEF CountInv, LifecycleType, Pop
<1> QED
  BY <1>2, <1>4, <1>5 DEF CountInv, LifecycleType, Pop

(* What a Command object does, sent or not.                                 *)
LEMMA MessageCounts ==
  ASSUME LifecycleType, CountInv, NEW m \in Commands, Message(m), UNCHANGED <<rxUID, miscounted>>
  PROVE  /\ toServer' \in Seq([m : Commands, uid : Nat]) /\ s_cmdUID' \in Nat /\ clientRunning' \in BOOLEAN
         /\ CountInv'
<1>1. CASE clientRunning
  <2>1. clientRunning' \in BOOLEAN
    BY <1>1 DEF Message
  <2> QED BY <1>1, <2>1, PushCounts DEF Message
<1>2. CASE ~clientRunning
  BY <1>2 DEF Message, CountInv, LifecycleType
<1> QED BY <1>1, <1>2

(* What an answer does to the queue of the client.                          *)
LEMMA Answers ==
  ASSUME LifecycleType
  PROVE  /\ \A a \in {"Ack", "Response"} : Append(toClient, a) \in Seq({"Ack", "Response"})
         /\ toClient # <<>> => Tail(toClient) \in Seq({"Ack", "Response"})
<1> DEFINE S == {"Ack", "Response"}
<1>1. toClient \in Seq(S)
  BY DEF LifecycleType
<1> HIDE DEF S
<1>2. \A a \in S : Append(toClient, a) \in Seq(S)
  BY <1>1, Pushed
<1>3. toClient # <<>> => Tail(toClient) \in Seq(S)
  BY <1>1, Popped
<1> QED BY <1>2, <1>3 DEF S

(* Every step of the client keeps the types and the count.                  *)
LEMMA ClientCounts ==
  ASSUME LifecycleType, CountInv, ClientStep \/ OnServerExited \/ ExitClient \/ ClientDies
  PROVE  LifecycleType' /\ CountInv'
<1> USE DEF messageVars, clientProcessVars, serverProcessVars
<1>1. CASE Launch
  BY <1>1 DEF Launch, LifecycleType, CountInv, ClientPlaces, ServerPlaces
<1>2. CASE SendSyn
  <2>1. CASE clientRunning
    <3>1. toServer' \in Seq([m : Commands, uid : Nat]) /\ s_cmdUID' \in Nat /\ CountInv'
      BY <1>2, <2>1, PushCounts DEF SendSyn, Commands
    <3> QED BY <1>2, <3>1 DEF SendSyn, LifecycleType, ClientPlaces
  <2>2. CASE ~clientRunning
    BY <1>2, <2>2 DEF SendSyn, LifecycleType, CountInv, ClientPlaces
  <2> QED BY <2>1, <2>2
<1>3. CASE AckArrives
  BY <1>3, Answers DEF AckArrives, Arrived, LifecycleType, CountInv, ClientPlaces
<1>4. CASE AckTimesOut
  BY <1>4 DEF AckTimesOut, LifecycleType, CountInv, ClientPlaces
<1>5. CASE Continue
  <2>1. toServer' \in Seq([m : Commands, uid : Nat]) /\ s_cmdUID' \in Nat /\ clientRunning' \in BOOLEAN /\ CountInv'
    BY <1>5, MessageCounts DEF Continue, Commands
  <2> QED BY <1>5, <2>1 DEF Continue, LifecycleType, ClientPlaces
<1>6. CASE Issue
  <2>1. PICK m \in {"Command", "Ask"} : Message(m)
    BY <1>6 DEF Issue
  <2>2. toServer' \in Seq([m : Commands, uid : Nat]) /\ s_cmdUID' \in Nat /\ clientRunning' \in BOOLEAN /\ CountInv'
    BY <1>6, <2>1, MessageCounts DEF Issue, Commands
  <2> QED BY <1>6, <2>2 DEF Issue, LifecycleType, ClientPlaces
<1>7. CASE Answered
  BY <1>7, Answers DEF Answered, Arrived, LifecycleType, CountInv, ClientPlaces
<1>8. CASE NoAnswer \/ Focus
  BY <1>8 DEF NoAnswer, Focus, LifecycleType, CountInv, ClientPlaces
<1>9. CASE Detach
  BY <1>9 DEF Detach, LifecycleType, CountInv, ClientPlaces
<1>10. CASE Unwatch
  BY <1>10 DEF Unwatch, LifecycleType, CountInv, ClientPlaces
<1>11. CASE Terminate
  <2>1. toServer' \in Seq([m : Commands, uid : Nat]) /\ s_cmdUID' \in Nat /\ clientRunning' \in BOOLEAN /\ CountInv'
    BY <1>11, MessageCounts DEF Terminate, Commands
  <2> QED BY <1>11, <2>1 DEF Terminate, LifecycleType, ClientPlaces
<1>12. CASE DoneArrives
  BY <1>12, Answers DEF DoneArrives, Arrived, LifecycleType, CountInv, ClientPlaces
<1>13. CASE DoneTimesOut \/ ReleaseModule
  BY <1>13 DEF DoneTimesOut, ReleaseModule, LifecycleType, CountInv, ClientPlaces, ServerPlaces
<1>14. CASE OnServerExited
  BY <1>14 DEF OnServerExited, LifecycleType, CountInv
<1>15. CASE ExitClient \/ ClientDies
  BY <1>15 DEF ExitClient, ClientDies, LifecycleType, CountInv, ClientPlaces
<1> QED
  BY <1>1, <1>2, <1>3, <1>4, <1>5, <1>6, <1>7, <1>8, <1>9, <1>10, <1>11, <1>12, <1>13, <1>14, <1>15
  DEF ClientStep

(* Every step of the server does.                                           *)
LEMMA ServerCounts ==
  ASSUME LifecycleType, CountInv, ServerStep \/ OnClientExited \/ ForceQuit \/ ServerDies
  PROVE  LifecycleType' /\ CountInv'
<1> USE DEF messageVars, clientProcessVars, serverProcessVars
<1>1. CASE Start
  BY <1>1 DEF Start, LifecycleType, CountInv, ServerPlaces
<1>2. CASE SynArrives \/ ContinueArrives
  <2>1. toServer # <<>> /\ Pop
    BY <1>2 DEF SynArrives, ContinueArrives, waitForCommandAndDiscard, NextIs
  <2>2. UNCHANGED <<timeouts, toClient, clientProcessVars>> /\ serverAt' \in {"initD3D", "processing"}
    BY <1>2 DEF SynArrives, ContinueArrives
  <2>3. /\ toServer' \in Seq([m : Commands, uid : Nat]) /\ s_cmdUID' \in Nat
        /\ rxUID' \in Nat /\ miscounted' \in BOOLEAN
        /\ CountInv'
    BY <2>1, PopCounts
  <2> QED
    BY <2>2, <2>3 DEF LifecycleType, ServerPlaces
<1>3. CASE InitializeD3D
  BY <1>3, Answers DEF InitializeD3D, LifecycleType, CountInv, ServerPlaces
<1>4. CASE ProcessHeader
  <2>1. toServer # <<>> /\ Pop
    BY <1>4 DEF ProcessHeader
  <2>2. toClient' \in Seq({"Ack", "Response"})
    BY <1>4, Answers DEF ProcessHeader, LifecycleType
  <2> QED
    BY <1>4, <2>1, <2>2, PopCounts DEF ProcessHeader, LifecycleType, ServerPlaces
<1>5. CASE BridgeDisabled \/ Join \/ Unregister
  BY <1>5 DEF BridgeDisabled, Join, Unregister, LifecycleType, CountInv, ServerPlaces
<1>6. CASE FinalAck
  BY <1>6, Answers DEF FinalAck, LifecycleType, CountInv, ServerPlaces
<1>7. CASE OnClientExited \/ ServerDies
  BY <1>7 DEF OnClientExited, ServerDies, LifecycleType, CountInv, ServerPlaces
<1>8. CASE ForceQuit
  BY <1>8 DEF ForceQuit, LifecycleType, CountInv, ServerPlaces
<1> QED
  BY <1>1, <1>2, <1>3, <1>4, <1>5, <1>6, <1>7, <1>8 DEF ServerStep

-----------------------------------------------------------------------------
(* The end of a session without timeouts *)

(* A living client's invariant, which is what its steps are shown to keep.  *)
AliveInv == OffInv /\ StageInv /\ AckInv

(* Queues that stay as they are, or are empty.                              *)
LEMMA Queues ==
  ASSUME TRUE
  PROVE  /\ UNCHANGED toClient => (NoAck' <=> NoAck)
         /\ UNCHANGED toServer => (NoTerminate' <=> NoTerminate) /\ (TerminateLast' <=> TerminateLast)
         /\ toClient = <<>> => NoAck
         /\ toClient' = <<>> => NoAck'
         /\ toServer = <<>> => NoTerminate /\ TerminateLast
         /\ toServer' = <<>> => NoTerminate' /\ TerminateLast'
<1>1. UNCHANGED toClient => (NoAck' <=> NoAck)
  BY DEF NoAck
<1>2. UNCHANGED toServer => (NoTerminate' <=> NoTerminate) /\ (TerminateLast' <=> TerminateLast)
  BY DEF NoTerminate, TerminateLast
<1>3. toClient = <<>> => NoAck
  BY DEF NoAck
<1>4. toClient' = <<>> => NoAck'
  BY DEF NoAck
<1>5. toServer = <<>> => NoTerminate /\ TerminateLast
  BY DEF NoTerminate, TerminateLast
<1>6. toServer' = <<>> => NoTerminate' /\ TerminateLast'
  BY DEF NoTerminate, TerminateLast
<1> QED BY <1>1, <1>2, <1>3, <1>4, <1>5, <1>6

(* A command the client sends: Terminate stays the last of them.            *)
LEMMA Sends ==
  ASSUME LifecycleType, OffInv, NEW m \in Commands, Message(m), NoTerminate, UNCHANGED serverAt
  PROVE  /\ UNCHANGED clientRunning
         /\ ~clientRunning => UNCHANGED toServer
         /\ m # "Terminate" => NoTerminate'
         /\ TerminateLast'
<1>1. CASE clientRunning
  <2> DEFINE S == [m : Commands, uid : Nat]
             e == [m |-> m, uid |-> s_cmdUID]
  <2>1. toServer \in Seq(S) /\ e \in S /\ toServer' = Append(toServer, e)
    BY <1>1 DEF LifecycleType, Message
  <2> HIDE DEF S
  <2>2. /\ Len(toServer) \in Nat /\ Len(toServer') = Len(toServer) + 1
        /\ \A i \in 1..Len(toServer) : toServer'[i] = toServer[i]
        /\ toServer'[Len(toServer) + 1] = e
    BY <2>1, Pushed
  <2>3. m # "Terminate" => NoTerminate'
    BY <2>2 DEF NoTerminate
  <2>4. TerminateLast'
    BY <2>2 DEF NoTerminate, TerminateLast
  <2>5. clientRunning' = TRUE
    BY <1>1 DEF Message, OffInv
  <2>6. UNCHANGED clientRunning
    BY <1>1, <2>5 DEF LifecycleType
  <2> QED BY <1>1, <2>3, <2>4, <2>6
<1>2. CASE ~clientRunning
  <2>1. UNCHANGED <<toServer, clientRunning>>
    BY <1>2 DEF Message
  <2> QED BY <2>1 DEF NoTerminate, TerminateLast
<1> QED BY <1>1, <1>2

(* Every step of the client while it lives.                                 *)
LEMMA ClientShutdown ==
  ASSUME LifecycleType, ~timeouts, clientAt # "exited", AliveInv,
         ClientStep \/ OnServerExited \/ ExitClient \/ ClientDies
  PROVE  ShutdownInv'
<1> USE Queues DEF messageVars, clientProcessVars, serverProcessVars, ServerGone, ClientGone
<1>0. OffInv /\ StageInv /\ AckInv /\ clientRunning \in BOOLEAN /\ clean \in BOOLEAN
      /\ clientAt \in ClientPlaces
  BY DEF AliveInv, LifecycleType
<1>1. CASE Launch
  <2>5. OffInv'
    BY <1>1, <1>0 DEF Launch, OffInv, StageInv
  <2>6. StageInv'
    BY <1>1, <1>0 DEF Launch, OffInv, StageInv
  <2>7. AckInv'
    BY <1>1, <1>0 DEF Launch, OffInv, StageInv, AckInv
  <2>8. clientAt' # "exited"
    BY <1>0, <1>1 DEF Launch
  <2> QED BY <2>5, <2>6, <2>7, <2>8 DEF ShutdownInv
<1>2. CASE SendSyn
  <2>1. NoTerminate' /\ Len(toServer') <= 1 /\ (~clientRunning => toServer' = <<>>)
    <3>1. CASE clientRunning
      <4>1. toServer' = <<[m |-> "Syn", uid |-> s_cmdUID]>>
        BY <1>0, <1>2, <3>1 DEF SendSyn, StageInv
      <4> QED BY <3>1, <4>1 DEF NoTerminate
    <3>2. CASE ~clientRunning
      BY <1>0, <1>2, <3>2 DEF SendSyn, StageInv
    <3> QED BY <3>1, <3>2
  <2>5. OffInv'
    BY <1>2, <1>0, <2>1 DEF SendSyn, OffInv
  <2>6. StageInv'
    BY <1>2, <1>0, <2>1 DEF SendSyn, OffInv, StageInv
  <2>7. AckInv'
    BY <1>2, <1>0, <2>1 DEF SendSyn, OffInv, StageInv, AckInv
  <2>8. clientAt' # "exited"
    BY <1>0, <1>2 DEF SendSyn
  <2> QED BY <2>5, <2>6, <2>7, <2>8 DEF ShutdownInv
<1>3. CASE AckArrives
  <2>1. toClient # <<>> /\ toClient[1] = "Ack" /\ Len(toClient) = 1
    <3>1. toClient # <<>> /\ Head(toClient) = "Ack" /\ Len(toClient) <= 1
      BY <1>0, <1>3 DEF AckArrives, Arrived, StageInv
    <3>2. Head(toClient) = toClient[1] /\ Len(toClient) \in Nat \ {0}
      BY <3>1, Popped DEF LifecycleType
    <3> QED BY <3>1, <3>2
  <2>2. ~NoAck
    BY <2>1 DEF NoAck
  <2>3. toClient' = <<>>
    BY <1>3, <2>1, Popped, NothingLeft DEF AckArrives, LifecycleType
  <2>5. OffInv'
    BY <1>3, <1>0, <2>2, <2>3 DEF AckArrives, OffInv
  <2>6. StageInv'
    BY <1>3, <1>0, <2>2, <2>3 DEF AckArrives, OffInv, StageInv, AckInv
  <2>7. AckInv'
    BY <1>3, <1>0, <2>2, <2>3 DEF AckArrives, OffInv, StageInv, AckInv
  <2>8. clientAt' # "exited"
    BY <1>0, <1>3 DEF AckArrives
  <2> QED BY <2>5, <2>6, <2>7, <2>8 DEF ShutdownInv
<1>4. CASE AckTimesOut \/ NoAnswer \/ DoneTimesOut
  BY <1>4 DEF AckTimesOut, NoAnswer, DoneTimesOut, TimedOut
<1>5. CASE Continue
  <2>1. UNCHANGED clientRunning /\ (~clientRunning => UNCHANGED toServer) /\ NoTerminate' /\ TerminateLast'
    BY <1>0, <1>5, Sends DEF Continue, Commands, StageInv
  <2>5. OffInv'
    BY <1>5, <1>0, <2>1 DEF Continue, OffInv
  <2>6. StageInv'
    BY <1>5, <1>0, <2>1 DEF Continue, OffInv, StageInv
  <2>7. AckInv'
    BY <1>5, <1>0, <2>1 DEF Continue, OffInv, StageInv, AckInv
  <2>8. clientAt' # "exited"
    BY <1>0, <1>5 DEF Continue
  <2> QED BY <2>5, <2>6, <2>7, <2>8 DEF ShutdownInv
<1>6. CASE Issue
  <2>1. UNCHANGED clientRunning /\ (~clientRunning => UNCHANGED toServer) /\ NoTerminate' /\ TerminateLast'
    BY <1>0, <1>6, Sends DEF Issue, Commands, StageInv
  <2>5. OffInv'
    BY <1>6, <1>0, <2>1 DEF Issue, OffInv
  <2>6. StageInv'
    BY <1>6, <1>0, <2>1 DEF Issue, OffInv, StageInv
  <2>7. AckInv'
    BY <1>6, <1>0, <2>1 DEF Issue, OffInv, StageInv, AckInv
  <2>8. clientAt' # "exited"
    BY <1>0, <1>6 DEF Issue
  <2> QED BY <2>5, <2>6, <2>7, <2>8 DEF ShutdownInv
<1>7. CASE Answered
  <2>1. NoAck'
    <3>1. NoAck /\ toClient # <<>>
      BY <1>0, <1>7 DEF Answered, Arrived, StageInv
    <3>2. Len(toClient) \in Nat \ {0} /\ Len(toClient') = Len(toClient) - 1
          /\ \A i \in 1..Len(toClient') : toClient'[i] = toClient[i + 1]
      BY <1>7, <3>1, Popped DEF Answered, LifecycleType
    <3> QED BY <3>1, <3>2 DEF NoAck
  <2>5. OffInv'
    BY <1>7, <1>0, <2>1 DEF Answered, OffInv
  <2>6. StageInv'
    BY <1>7, <1>0, <2>1 DEF Answered, OffInv, StageInv
  <2>7. AckInv'
    BY <1>7, <1>0, <2>1 DEF Answered, OffInv, StageInv, AckInv
  <2>8. clientAt' # "exited"
    BY <1>0, <1>7 DEF Answered
  <2> QED BY <2>5, <2>6, <2>7, <2>8 DEF ShutdownInv
<1>8. CASE Focus
  <2>5. OffInv'
    BY <1>8, <1>0 DEF Focus, OffInv
  <2>6. StageInv'
    BY <1>8, <1>0 DEF Focus, OffInv, StageInv
  <2>7. AckInv'
    BY <1>8, <1>0 DEF Focus, OffInv, StageInv, AckInv
  <2>8. clientAt' # "exited"
    BY <1>0, <1>8 DEF Focus
  <2> QED BY <2>5, <2>6, <2>7, <2>8 DEF ShutdownInv
<1>9. CASE Detach
  <2>1. CASE clientAt = "attached"
    BY <1>0, <1>9, <2>1 DEF Detach, ShutdownInv, OffInv
  <2>2. CASE clientAt # "attached"
    <3>1. OffInv'
      BY <1>0, <1>9, <2>2 DEF Detach, OffInv
    <3>2. StageInv'
      BY <1>0, <1>9, <2>2 DEF Detach, OffInv, StageInv
    <3>3. AckInv'
      BY <1>0, <1>9, <2>2 DEF Detach, AckInv
    <3>4. clientAt' # "exited"
      BY <1>9, <2>2 DEF Detach
    <3> QED BY <3>1, <3>2, <3>3, <3>4 DEF ShutdownInv
  <2> QED BY <2>1, <2>2
<1>10. CASE Unwatch
  <2>5. OffInv'
    BY <1>10, <1>0 DEF Unwatch, OffInv
  <2>6. StageInv'
    BY <1>10, <1>0 DEF Unwatch, OffInv, StageInv
  <2>7. AckInv'
    BY <1>10, <1>0 DEF Unwatch, OffInv, StageInv, AckInv
  <2>8. clientAt' # "exited"
    BY <1>0, <1>10 DEF Unwatch
  <2> QED BY <2>5, <2>6, <2>7, <2>8 DEF ShutdownInv
<1>11. CASE Terminate
  <2>1. UNCHANGED clientRunning /\ (~clientRunning => UNCHANGED toServer) /\ TerminateLast'
    BY <1>0, <1>11, Sends DEF Terminate, Commands, StageInv
  <2>5. OffInv'
    BY <1>11, <1>0, <2>1 DEF Terminate, OffInv
  <2>6. StageInv'
    BY <1>11, <1>0, <2>1 DEF Terminate, OffInv, StageInv
  <2>7. AckInv'
    BY <1>11, <1>0, <2>1 DEF Terminate, OffInv, StageInv, AckInv
  <2>8. clientAt' # "exited"
    BY <1>0, <1>11 DEF Terminate
  <2> QED BY <2>5, <2>6, <2>7, <2>8 DEF ShutdownInv
<1>12. CASE DoneArrives
  <2>1. ~NoAck /\ ServerGone /\ toServer = <<>>
    <3>1. toClient # <<>> /\ toClient[1] = "Ack" /\ Len(toClient) \in Nat \ {0}
      BY <1>12, Popped DEF DoneArrives, Arrived, LifecycleType
    <3>2. ~NoAck
      BY <3>1 DEF NoAck
    <3> QED BY <1>0, <1>12, <3>2 DEF DoneArrives, StageInv, AckInv
  <2>5. OffInv'
    BY <1>12, <1>0, <2>1 DEF DoneArrives, OffInv
  <2>6. StageInv'
    BY <1>12, <1>0, <2>1 DEF DoneArrives, OffInv, StageInv
  <2>7. AckInv'
    BY <1>12, <1>0, <2>1 DEF DoneArrives, OffInv, StageInv, AckInv
  <2>8. clientAt' # "exited"
    BY <1>0, <1>12 DEF DoneArrives
  <2> QED BY <2>5, <2>6, <2>7, <2>8 DEF ShutdownInv
<1>13. CASE ReleaseModule
  BY <1>0, <1>13 DEF ReleaseModule, ShutdownInv, StageInv
<1>14. CASE OnServerExited
  <2>5. OffInv'
    BY <1>14, <1>0 DEF OnServerExited, OffInv
  <2>6. StageInv'
    BY <1>14, <1>0 DEF OnServerExited, OffInv, StageInv
  <2>7. AckInv'
    BY <1>14, <1>0 DEF OnServerExited, OffInv, StageInv, AckInv
  <2>8. clientAt' # "exited"
    BY <1>0, <1>14 DEF OnServerExited
  <2> QED BY <2>5, <2>6, <2>7, <2>8 DEF ShutdownInv
<1>15. CASE ExitClient
  <2>5. OffInv'
    BY <1>15, <1>0 DEF ExitClient, OffInv
  <2>6. StageInv'
    BY <1>15, <1>0 DEF ExitClient, OffInv, StageInv, ClientPlaces
  <2>7. AckInv'
    BY <1>15, <1>0 DEF ExitClient, OffInv, StageInv, AckInv
  <2>8. clientAt' # "exited"
    BY <1>0, <1>15 DEF ExitClient
  <2> QED BY <2>5, <2>6, <2>7, <2>8 DEF ShutdownInv
<1>16. CASE ClientDies
  BY <1>0, <1>16 DEF ClientDies, ShutdownInv, OffInv, StageInv
<1> QED
  BY <1>1, <1>2, <1>3, <1>4, <1>5, <1>6, <1>7, <1>8, <1>9, <1>10, <1>11, <1>12, <1>13, <1>14, <1>15,
     <1>16
  DEF ClientStep

(* A command the server takes: what is left holds no other commands, and    *)
(* nothing if it was Terminate or the only one.                             *)
LEMMA Takes ==
  ASSUME LifecycleType, toServer # <<>>, toServer' = Tail(toServer)
  PROVE  /\ NoTerminate => NoTerminate'
         /\ TerminateLast => TerminateLast'
         /\ NoTerminate => Head(toServer).m # "Terminate"
         /\ TerminateLast /\ Head(toServer).m = "Terminate" => toServer' = <<>>
         /\ Len(toServer) <= 1 => toServer' = <<>>
<1> DEFINE S == [m : Commands, uid : Nat]
<1>1. toServer \in Seq(S)
  BY DEF LifecycleType
<1> HIDE DEF S
<1>2. /\ Head(toServer) = toServer[1] /\ toServer' \in Seq(S)
      /\ Len(toServer) \in Nat \ {0} /\ Len(toServer') = Len(toServer) - 1
      /\ \A i \in 1..Len(toServer') : toServer'[i] = toServer[i + 1]
  BY <1>1, Popped
<1>3. \A i \in 1..Len(toServer') : i + 1 \in 1..Len(toServer)
  BY <1>2
<1>4. 1 \in 1..Len(toServer)
  BY <1>2
<1>5. NoTerminate => NoTerminate' /\ Head(toServer).m # "Terminate"
  BY <1>2, <1>3, <1>4 DEF NoTerminate
<1>6. TerminateLast => TerminateLast'
  <2> SUFFICES ASSUME TerminateLast, NEW i \in 1..Len(toServer'), toServer'[i].m = "Terminate"
               PROVE  i = Len(toServer')
    BY DEF TerminateLast
  <2>1. i + 1 \in 1..Len(toServer) /\ toServer[i + 1].m = "Terminate"
    BY <1>2, <1>3
  <2>2. i + 1 = Len(toServer)
    BY <2>1 DEF TerminateLast
  <2>3. i \in Nat /\ Len(toServer') = Len(toServer) - 1
    BY <1>2
  <2> QED BY <2>2, <2>3
<1>7. TerminateLast /\ Head(toServer).m = "Terminate" => Len(toServer) = 1
  BY <1>2, <1>4 DEF TerminateLast
<1>8. Len(toServer) <= 1 => toServer' = <<>>
  BY <1>2, NothingLeft
<1> QED BY <1>5, <1>6, <1>7, <1>8

(* An answer that is no Ack.                                                *)
LEMMA Responds ==
  ASSUME LifecycleType, toClient' \in {toClient, Append(toClient, "Response")}
  PROVE  NoAck => NoAck'
<1>1. CASE toClient' = toClient
  BY <1>1 DEF NoAck
<1>2. CASE toClient' = Append(toClient, "Response")
  <2> DEFINE S == {"Ack", "Response"}
  <2>1. toClient \in Seq(S) /\ "Response" \in S
    BY DEF LifecycleType
  <2> HIDE DEF S
  <2>2. /\ Len(toClient) \in Nat /\ Len(toClient') = Len(toClient) + 1
        /\ \A i \in 1..Len(toClient) : toClient'[i] = toClient[i]
        /\ toClient'[Len(toClient) + 1] = "Response"
    BY <1>2, <2>1, Pushed
  <2> QED BY <2>2 DEF NoAck
<1> QED BY <1>1, <1>2

(* Every step of the server while the client lives.                         *)
LEMMA ServerShutdown ==
  ASSUME LifecycleType, ~timeouts, clientAt # "exited", AliveInv,
         ServerStep \/ OnClientExited \/ ForceQuit \/ ServerDies
  PROVE  AliveInv'
<1> USE Queues DEF messageVars, clientProcessVars, serverProcessVars, ServerGone, ClientGone
<1>0. OffInv /\ StageInv /\ AckInv /\ clientRunning \in BOOLEAN /\ clean \in BOOLEAN
      /\ clientAt \in ClientPlaces
  BY DEF AliveInv, LifecycleType
<1>1. CASE Start
  <2>5. OffInv'
    BY <1>1, <1>0 DEF Start, OffInv
  <2>6. StageInv'
    BY <1>1, <1>0 DEF Start, OffInv, StageInv, ClientPlaces
  <2>7. AckInv'
    BY <1>1, <1>0 DEF Start, OffInv, StageInv, AckInv, ClientPlaces
  <2> QED BY <2>5, <2>6, <2>7 DEF AliveInv
<1>2. CASE SynArrives
  <2>1. toServer # <<>> /\ toServer' = Tail(toServer)
    BY <1>2 DEF SynArrives, NextIs, Pop
  <2>2. (NoTerminate => NoTerminate') /\ (Len(toServer) <= 1 => toServer' = <<>>)
    BY <2>1, Takes
  <2>5. OffInv'
    BY <1>2, <1>0, <2>1, <2>2 DEF SynArrives, OffInv
  <2>6. StageInv'
    BY <1>2, <1>0, <2>1, <2>2 DEF SynArrives, OffInv, StageInv, ClientPlaces
  <2>7. AckInv'
    BY <1>2, <1>0, <2>1, <2>2 DEF SynArrives, OffInv, StageInv, AckInv, ClientPlaces
  <2> QED BY <2>5, <2>6, <2>7 DEF AliveInv
<1>3. CASE InitializeD3D
  <2>1. toClient' = toClient \/ (toClient = <<>> => Len(toClient') = 1)
    <3>1. Len(Append(<<>>, "Ack")) = 1
      OBVIOUS
    <3> QED BY <1>3, <3>1 DEF InitializeD3D
  <2>5. OffInv'
    BY <1>3, <1>0, <2>1 DEF InitializeD3D, OffInv
  <2>6. StageInv'
    BY <1>3, <1>0, <2>1 DEF InitializeD3D, OffInv, StageInv, ClientPlaces
  <2>7. AckInv'
    BY <1>3, <1>0, <2>1 DEF InitializeD3D, OffInv, StageInv, AckInv, ClientPlaces
  <2> QED BY <2>5, <2>6, <2>7 DEF AliveInv
<1>4. CASE ContinueArrives
  <2>1. toServer # <<>> /\ toServer' = Tail(toServer)
    BY <1>4 DEF ContinueArrives, waitForCommandAndDiscard, NextIs, Pop
  <2>2. (NoTerminate => NoTerminate') /\ (TerminateLast => TerminateLast')
    BY <2>1, Takes
  <2>5. OffInv'
    BY <1>4, <1>0, <2>1, <2>2 DEF ContinueArrives, OffInv
  <2>6. StageInv'
    BY <1>4, <1>0, <2>1, <2>2 DEF ContinueArrives, OffInv, StageInv, ClientPlaces
  <2>7. AckInv'
    BY <1>4, <1>0, <2>1, <2>2 DEF ContinueArrives, OffInv, StageInv, AckInv, ClientPlaces
  <2> QED BY <2>5, <2>6, <2>7 DEF AliveInv
<1>5. CASE ProcessHeader
  <2>1. toServer # <<>> /\ toServer' = Tail(toServer)
    BY <1>5 DEF ProcessHeader, Pop
  <2>2. /\ NoTerminate => NoTerminate' /\ Head(toServer).m # "Terminate"
        /\ TerminateLast => TerminateLast'
        /\ TerminateLast /\ Head(toServer).m = "Terminate" => toServer' = <<>>
    BY <2>1, Takes
  <2>3. NoAck => NoAck'
    BY <1>5, Responds DEF ProcessHeader
  <2>5. OffInv'
    BY <1>5, <1>0, <2>1, <2>2, <2>3 DEF ProcessHeader, OffInv
  <2>6. StageInv'
    BY <1>5, <1>0, <2>1, <2>2, <2>3 DEF ProcessHeader, OffInv, StageInv, ClientPlaces
  <2>7. AckInv'
    BY <1>5, <1>0, <2>1, <2>2, <2>3 DEF ProcessHeader, OffInv, StageInv, AckInv, ClientPlaces
  <2> QED BY <2>5, <2>6, <2>7 DEF AliveInv
<1>6. CASE BridgeDisabled
  BY <1>6 DEF BridgeDisabled
<1>7. CASE Join
  <2>5. OffInv'
    BY <1>7, <1>0 DEF Join, OffInv
  <2>6. StageInv'
    BY <1>7, <1>0 DEF Join, OffInv, StageInv, ClientPlaces
  <2>7. AckInv'
    BY <1>7, <1>0 DEF Join, OffInv, StageInv, AckInv, ClientPlaces
  <2> QED BY <2>5, <2>6, <2>7 DEF AliveInv
<1>8. CASE Unregister
  <2>5. OffInv'
    BY <1>8, <1>0 DEF Unregister, OffInv
  <2>6. StageInv'
    BY <1>8, <1>0 DEF Unregister, OffInv, StageInv, ClientPlaces
  <2>7. AckInv'
    BY <1>8, <1>0 DEF Unregister, OffInv, StageInv, AckInv, ClientPlaces
  <2> QED BY <2>5, <2>6, <2>7 DEF AliveInv
<1>9. CASE FinalAck
  <2>5. OffInv'
    BY <1>9, <1>0 DEF FinalAck, OffInv
  <2>6. StageInv'
    BY <1>9, <1>0 DEF FinalAck, OffInv, StageInv, ClientPlaces
  <2>7. AckInv'
    BY <1>9, <1>0 DEF FinalAck, OffInv, StageInv, AckInv, ClientPlaces
  <2> QED BY <2>5, <2>6, <2>7 DEF AliveInv
<1>10. CASE ForceQuit
  <2>5. OffInv'
    BY <1>10, <1>0 DEF ForceQuit, OffInv
  <2>6. StageInv'
    BY <1>10, <1>0 DEF ForceQuit, OffInv, StageInv, ClientPlaces
  <2>7. AckInv'
    BY <1>10, <1>0 DEF ForceQuit, OffInv, StageInv, AckInv, ClientPlaces
  <2> QED BY <2>5, <2>6, <2>7 DEF AliveInv
<1>11. CASE ServerDies
  <2>5. OffInv'
    BY <1>11, <1>0 DEF ServerDies, OffInv
  <2>6. StageInv'
    BY <1>11, <1>0 DEF ServerDies, OffInv, StageInv, ClientPlaces
  <2>7. AckInv'
    BY <1>11, <1>0 DEF ServerDies, OffInv, StageInv, AckInv, ClientPlaces
  <2> QED BY <2>5, <2>6, <2>7 DEF AliveInv
<1>12. CASE OnClientExited
  BY <1>12 DEF OnClientExited
<1> QED
  BY <1>1, <1>2, <1>3, <1>4, <1>5, <1>6, <1>7, <1>8, <1>9, <1>10, <1>11, <1>12 DEF ServerStep

-----------------------------------------------------------------------------
(* The processes start with nothing sent.                                   *)
LEMMA InitIInv == InitLifecycle => IInv
<1> SUFFICES ASSUME InitLifecycle PROVE IInv
  OBVIOUS
<1>1. toServer = <<>> /\ toClient = <<>>
  BY DEF InitLifecycle
<1>2. timeouts \in BOOLEAN
  BY Zenon DEF InitLifecycle
<1>3. LifecycleType
  <2>1. toServer \in Seq([m : Commands, uid : Nat]) /\ toClient \in Seq({"Ack", "Response"})
    BY <1>1
  <2>2. clientRunning \in BOOLEAN /\ clean \in BOOLEAN /\ miscounted \in BOOLEAN
    BY DEF InitLifecycle
  <2> QED BY <1>2, <2>1, <2>2 DEF InitLifecycle, LifecycleType, ClientPlaces, ServerPlaces
<1>4. CountInv
  BY DEF InitLifecycle, CountInv
<1>5. OffInv /\ StageInv /\ AckInv
  BY DEF InitLifecycle, OffInv, StageInv, AckInv, NoAck, ServerGone
<1>6. clientAt # "exited"
  BY DEF InitLifecycle
<1> QED BY <1>3, <1>4, <1>5, <1>6 DEF IInv, ShutdownInv

(* Every step of either process keeps the invariant.  After the client's    *)
(* end only the server steps, and not once it is through.                   *)
LEMMA NextIInv == IInv /\ [LifecycleNext]_lifecycleVars => IInv'
<1> SUFFICES ASSUME IInv, [LifecycleNext]_lifecycleVars PROVE IInv'
  OBVIOUS
<1>0. LifecycleType /\ CountInv /\ ShutdownInv
  BY DEF IInv
<1>1. CASE ClientStep \/ OnServerExited \/ ExitClient \/ ClientDies
  <2>1. LifecycleType' /\ CountInv'
    BY <1>0, <1>1, ClientCounts
  <2>2. UNCHANGED timeouts
    BY <1>1 DEF ClientStep, Launch, SendSyn, AckArrives, AckTimesOut, Continue, Issue, Answered,
                NoAnswer, Focus, Detach, Unwatch, Terminate, DoneArrives, DoneTimesOut, ReleaseModule,
                OnServerExited, ExitClient, ClientDies, messageVars
  <2>3. clientAt # "exited"
    BY <1>1 DEF ClientStep, Launch, SendSyn, AckArrives, AckTimesOut, Continue, Issue, Answered,
                NoAnswer, Focus, Detach, Unwatch, Terminate, DoneArrives, DoneTimesOut, ReleaseModule,
                OnServerExited, ExitClient, ClientDies, ClientGone
  <2>4. ~timeouts => ShutdownInv'
    BY <1>0, <1>1, <2>3, ClientShutdown DEF ShutdownInv, AliveInv
  <2> QED BY <2>1, <2>2, <2>4 DEF IInv, ShutdownInv
<1>2. CASE ServerStep \/ OnClientExited \/ ForceQuit \/ ServerDies
  <2>1. LifecycleType' /\ CountInv'
    BY <1>0, <1>2, ServerCounts
  <2>2. UNCHANGED <<timeouts, clientAt, clean>>
    BY <1>2 DEF ServerStep, Start, SynArrives, InitializeD3D, ContinueArrives, ProcessHeader, BridgeDisabled,
                Join, Unregister, FinalAck, OnClientExited, ForceQuit, ServerDies, messageVars, clientProcessVars
  <2>3. ~ServerGone
    BY <1>2 DEF ServerStep, Start, SynArrives, InitializeD3D, ContinueArrives, ProcessHeader, BridgeDisabled,
                Join, Unregister, FinalAck, OnClientExited, ForceQuit, ServerDies, ServerGone
  <2>4. CASE clientAt = "exited"
    BY <1>0, <2>1, <2>2, <2>3, <2>4 DEF IInv, ShutdownInv
  <2>5. CASE clientAt # "exited" /\ ~timeouts
    <3>1. AliveInv'
      BY <1>0, <1>2, <2>5, ServerShutdown DEF ShutdownInv, AliveInv
    <3> QED BY <2>1, <2>2, <2>5, <3>1 DEF IInv, ShutdownInv, AliveInv
  <2>6. CASE timeouts
    BY <2>1, <2>2, <2>6 DEF IInv, ShutdownInv
  <2> QED BY <2>4, <2>5, <2>6
<1>3. CASE UNCHANGED lifecycleVars
  BY <1>0, <1>3
  DEF lifecycleVars, messageVars, clientProcessVars, serverProcessVars, IInv, LifecycleType, CountInv, ShutdownInv, OffInv,
      StageInv, AckInv, NoAck, NoTerminate, TerminateLast, ServerGone
<1> QED BY <1>1, <1>2, <1>3 DEF LifecycleNext

(* CleanMeansDone, for any number of commands: the server's count of the    *)
(* headers is the client's number of each command, and where waits do not   *)
(* time out the final Ack reaches the client only when the server is gone   *)
(* and has taken every command.                                             *)
THEOREM CleanSessions == LifecycleSpec => []CleanMeansDone
<1>1. IInv => CleanMeansDone
  <2> SUFFICES ASSUME IInv PROVE CleanMeansDone
    OBVIOUS
  <2>1. clean /\ ~timeouts => ServerGone /\ toServer = <<>>
    BY DEF IInv, ShutdownInv, OffInv, StageInv
  <2>2. toServer = <<>> => rxUID = s_cmdUID
    BY DEF IInv, CountInv, LifecycleType
  <2> QED BY <2>1, <2>2 DEF CleanMeansDone, IInv, CountInv
<1> QED BY <1>1, InitIInv, NextIInv, PTL DEF LifecycleSpec

--------------------------------------------------------------------------------
(* The library.  Detours come and go in three groups, each by transactions  *)
(* that succeed or fail as a whole: a group is detoured altogether or not   *)
(* at all.                                                                  *)

(* A call of f as it goes through the client.                               *)
Passing(f) ==
  IF f \in machine.foreign
  THEN IF RetrievesOriginal(f) THEN <<"tool", "client", "own">> ELSE <<"client", "tool", "own">>
  ELSE <<"client", "own">>

Free(f) == route[f] = Untouched(machine, f) /\ orig[f] # "trampoline"
Detoured(f) == route[f] = Passing(f) /\ orig[f] = "trampoline"

AllFree(fs) == \A f \in fs : Free(f)
AllDetoured(fs) == \A f \in fs : Detoured(f)

(* The input functions of a complete machine that the client detours.       *)
Inputs == AttachConventionalInput \cup UNION {Methods[v] \cup Creates[v] : v \in DirectInputs}

WindowRefused == WindowLong \cap machine.refused # {}

LoadingType ==
  /\ machine \in Machines
  /\ DOMAIN route = Functions /\ DOMAIN orig = Functions
  /\ stage \in {"out", "helper", "bootstrapped", "windowed", "hooked", "attached", "terminated",
                "serverless", "detached"}
  /\ launcher \in {"start", "created", "waiting", "returned"}

SystemInv ==
  /\ AllFree(SystemD3D9) \/ AllDetoured(SystemD3D9)
  /\ stage \in {"out", "helper"} => AllFree(SystemD3D9)

WindowInv ==
  /\ AllFree(WindowLong) \/ AllDetoured(WindowLong)
  /\ stage \in {"windowed", "hooked", "attached"} => AllDetoured(WindowLong) \/ WindowRefused
  /\ stage \notin {"windowed", "hooked", "attached"} => AllFree(WindowLong)

DetouredInputs ==
  Complete =>
    /\ AllFree(Inputs) \/ AllDetoured(Inputs)
    /\ AllFree(InputFunctions \ Inputs)
    /\ stage \notin {"hooked", "attached", "terminated", "serverless"} => AllFree(Inputs)

FlagInv ==
  /\ stage \notin {"attached", "terminated", "serverless"} => ~gIsAttached
  /\ stage \notin {"attached", "terminated"} => server = <<>>
  /\ stage \notin {"hooked", "attached", "terminated", "serverless"} => ~gWinHooks
  /\ remixProc => stage = "attached" \/ WindowRefused

GameInv ==
  /\ launcher = "start" => game = "none"
  /\ launcher = "created" => game = "suspended"
  /\ launcher = "waiting" => game \in {"running", "ended"}
  /\ launcher = "returned" => game \in {"none", "ended"}

LoadingInv == LoadingType /\ SystemInv /\ WindowInv /\ DetouredInputs /\ FlagInv /\ GameInv

(* What the calls of a function pass.                                       *)
Names == {"client", "tool", "own"}

(* A sequence is the other two put together.                                *)
LEMMA Joined ==
    ASSUME NEW t \in Seq(Names), NEW u \in Seq(Names), NEW v \in Seq(Names), Len(v) = Len(t) + Len(u),
           \A i \in 1 .. Len(t) : v[i] = t[i], \A i \in 1 .. Len(u) : v[Len(t) + i] = u[i]
    PROVE  t \o u = v
<1>1. PICK w : w = t \o u
  OBVIOUS
<1>2. Len(t) \in Nat /\ Len(u) \in Nat
  BY LenProperties
<1>3. /\ w \in Seq(Names) /\ Len(w) = Len(t) + Len(u)
      /\ \A i \in 1 .. Len(t) + Len(u) : w[i] = IF i <= Len(t) THEN t[i] ELSE u[i - Len(t)]
  BY <1>1, ConcatProperties
<1>4. ASSUME NEW i \in 1 .. Len(v) PROVE v[i] = w[i]
  <2>1. CASE i <= Len(t)
    <3>1. i \in 1 .. Len(t)
      BY <1>2, <2>1
    <3> QED BY <1>2, <1>3, <2>1, <3>1
  <2>2. CASE ~(i <= Len(t))
    <3>1. i - Len(t) \in 1 .. Len(u) /\ Len(t) + (i - Len(t)) = i
      BY <1>2, <2>2
    <3>2. v[i] = u[i - Len(t)]
      BY <3>1
    <3> QED BY <1>3, <2>2, <3>2
  <2> QED BY <2>1, <2>2
<1>5. v = w
  BY <1>3, <1>4, SeqEqual
<1> QED BY <1>1, <1>5

(* An element put in where it is not in front of everything.                *)
LEMMA PutIn ==
    ASSUME NEW s \in Seq(Names), NEW x \in Names, NEW v \in Seq(Names), NEW k \in 2 .. Len(s),
           Len(v) = Len(s) + 1, \A i \in 1 .. k - 1 : v[i] = s[i], v[k] = x,
           \A i \in k .. Len(s) : v[i + 1] = s[i]
    PROVE  InsertAt(s, k, x) = v
<1>1. Len(s) \in Nat /\ k \in Int /\ k - 1 \in 1 .. Len(s) /\ \A i \in 1 .. Len(s) : s[i] \in Names
  BY LenProperties
<1>2. PICK a : a = SubSeq(s, 1, k - 1)
  OBVIOUS
<1>3. PICK b : b = SubSeq(s, k, Len(s))
  OBVIOUS
<1>4. PICK c : c = <<x>>
  OBVIOUS
<1>5. a \in Seq(Names) /\ Len(a) = k - 1 /\ \A i \in 1 .. k - 1 : a[i] = s[i]
  <2>1. \A i \in 1 .. k - 1 : s[i] \in Names
    BY <1>1
  <2>2. /\ a \in Seq(Names) /\ Len(a) = IF 1 <= k - 1 THEN (k - 1) - 1 + 1 ELSE 0
        /\ \A i \in 1 .. (k - 1) - 1 + 1 : a[i] = s[1 + i - 1]
    BY <1>1, <1>2, <2>1, SubSeqProperties
  <2> QED BY <1>1, <2>2
<1>6. b \in Seq(Names) /\ Len(b) = Len(s) - k + 1 /\ \A i \in 1 .. Len(s) - k + 1 : b[i] = s[k + i - 1]
  <2>1. \A i \in k .. Len(s) : s[i] \in Names
    BY <1>1
  <2>2. /\ b \in Seq(Names) /\ Len(b) = IF k <= Len(s) THEN Len(s) - k + 1 ELSE 0
        /\ \A i \in 1 .. Len(s) - k + 1 : b[i] = s[k + i - 1]
    BY <1>1, <1>3, <2>1, SubSeqProperties
  <2> QED BY <1>1, <2>2
<1>7. c \in Seq(Names) /\ Len(c) = 1 /\ c[1] = x
  BY <1>4
<1>8. PICK d : d = a \o c
  OBVIOUS
<1>9. d \in Seq(Names) /\ Len(d) = k /\ d[k] = x /\ \A i \in 1 .. k - 1 : d[i] = s[i]
  <2>1. /\ d \in Seq(Names) /\ Len(d) = Len(a) + Len(c)
        /\ \A i \in 1 .. Len(a) + Len(c) : d[i] = IF i <= Len(a) THEN a[i] ELSE c[i - Len(a)]
    BY <1>5, <1>7, <1>8, ConcatProperties
  <2>2. k \in 1 .. Len(a) + Len(c) /\ ~(k <= Len(a)) /\ k - Len(a) = 1 /\ Len(a) + Len(c) = k
    BY <1>1, <1>5, <1>7
  <2>3. \A i \in 1 .. k - 1 : i \in 1 .. Len(a) + Len(c) /\ i <= Len(a)
    BY <1>1, <1>5, <1>7
  <2>4. d[k] = x
    BY <1>7, <2>1, <2>2
  <2>5. \A i \in 1 .. k - 1 : d[i] = s[i]
    BY <1>5, <2>1, <2>3
  <2> QED BY <2>1, <2>2, <2>4, <2>5
<1>10. \A i \in 1 .. Len(d) : v[i] = d[i]
  BY <1>1, <1>9
<1>11. ASSUME NEW i \in 1 .. Len(b) PROVE v[Len(d) + i] = b[i]
  <2>1. k + i - 1 \in k .. Len(s) /\ (k + i - 1) + 1 = Len(d) + i /\ i \in 1 .. Len(s) - k + 1
    BY <1>1, <1>6, <1>9
  <2>2. v[(k + i - 1) + 1] = s[k + i - 1]
    BY <2>1
  <2> QED BY <1>6, <2>1, <2>2
<1>12. Len(v) = Len(d) + Len(b)
  BY <1>1, <1>6, <1>9
<1>13. d \o b = v
  BY <1>6, <1>9, <1>10, <1>11, <1>12, Joined
<1> QED BY <1>2, <1>3, <1>4, <1>8, <1>13 DEF InsertAt

(* The first of a sequence's elements that is x is where it is taken out.   *)
LEMMA TakenOut ==
    ASSUME NEW s \in Seq(Names), NEW x, NEW v \in Seq(Names), NEW k \in 1 .. Len(s), s[k] = x,
           \A i \in 1 .. Len(s) : s[i] = x => k =< i,
           Len(v) = Len(s) - 1, \A i \in 1 .. k - 1 : v[i] = s[i],
           \A i \in k .. Len(s) - 1 : v[i] = s[i + 1]
    PROVE  RemoveFirst(s, x) = v
<1> DEFINE I == {i \in 1 .. Len(s) : s[i] = x}
<1>1. Len(s) \in Nat /\ k \in Int /\ Len(s) # 0 /\ \A i \in 1 .. Len(s) : s[i] \in Names
  BY LenProperties
<1>2. SelectInSeq(s, LAMBDA w : w = x) = k
  <2>1. k \in I /\ k \in Nat /\ \A i \in I : k =< i /\ i \in Nat
    BY <1>1
  <2>2. SelectInSeq(s, LAMBDA w : w = x) = Min(I)
    BY <2>1 DEF SelectInSeq
  <2> HIDE DEF I
  <2>3. \E i \in I : \A j \in I : i =< j
    BY <2>1
  <2>4. PICK m : m = Min(I)
    OBVIOUS
  <2>5. m \in I /\ \A j \in I : m =< j
    <3>1. Min(I) \in I /\ \A j \in I : Min(I) =< j
      BY <2>3, Zenon DEF Min
    <3> QED BY <2>4, <3>1
  <2>6. m = k
    BY <2>1, <2>5
  <2> QED BY <2>2, <2>4, <2>6
<1>3. PICK a : a = SubSeq(s, 1, k - 1)
  OBVIOUS
<1>4. PICK b : b = SubSeq(s, k + 1, Len(s))
  OBVIOUS
<1>5. RemoveFirst(s, x) = a \o b
  BY <1>2, <1>3, <1>4 DEF RemoveFirst, RemoveAt
<1>6. a \in Seq(Names) /\ Len(a) = k - 1 /\ \A i \in 1 .. k - 1 : a[i] = s[i]
  <2>1. \A i \in 1 .. k - 1 : s[i] \in Names
    BY <1>1
  <2>2. /\ a \in Seq(Names) /\ Len(a) = IF 1 <= k - 1 THEN (k - 1) - 1 + 1 ELSE 0
        /\ \A i \in 1 .. (k - 1) - 1 + 1 : a[i] = s[1 + i - 1]
    BY <1>1, <1>3, <2>1, SubSeqProperties
  <2> QED BY <1>1, <2>2
<1>7. b \in Seq(Names) /\ Len(b) = Len(s) - k /\ \A i \in 1 .. Len(s) - k : b[i] = s[k + i]
  <2>1. \A i \in k + 1 .. Len(s) : s[i] \in Names
    BY <1>1
  <2>2. /\ b \in Seq(Names) /\ Len(b) = IF k + 1 <= Len(s) THEN Len(s) - (k + 1) + 1 ELSE 0
        /\ \A i \in 1 .. Len(s) - (k + 1) + 1 : b[i] = s[(k + 1) + i - 1]
    BY <1>1, <1>4, <2>1, SubSeqProperties
  <2> QED BY <1>1, <2>2
<1>8. ASSUME NEW i \in 1 .. Len(b) PROVE v[Len(a) + i] = b[i]
  <2>1. /\ Len(a) + i \in k .. Len(s) - 1 /\ (Len(a) + i) + 1 = k + i
        /\ i \in 1 .. Len(s) - k
    BY <1>1, <1>6, <1>7
  <2> QED BY <1>7, <2>1
<1>9. \A i \in 1 .. Len(a) : v[i] = a[i]
  BY <1>6
<1>10. Len(v) = Len(a) + Len(b)
  BY <1>1, <1>6, <1>7
<1>11. a \o b = v
  BY <1>6, <1>7, <1>8, <1>9, <1>10, Joined
<1> QED BY <1>5, <1>11

(* Short routes and their words.                                            *)
LEMMA Routes ==
    /\ \A a \in Names : <<a>> \in Seq(Names) /\ Len(<<a>>) = 1 /\ <<a>>[1] = a
    /\ \A a, b \in Names :
         <<a, b>> \in Seq(Names) /\ Len(<<a, b>>) = 2 /\ <<a, b>>[1] = a /\ <<a, b>>[2] = b
    /\ \A a, b, c \in Names :
         /\ <<a, b, c>> \in Seq(Names) /\ Len(<<a, b, c>>) = 3
         /\ <<a, b, c>>[1] = a /\ <<a, b, c>>[2] = b /\ <<a, b, c>>[3] = c
  OBVIOUS

(* What a transaction puts in front of a function, and takes away again.    *)
LEMMA ClientPutIn ==
    ASSUME NEW f, route[f] = Untouched(machine, f)
    PROVE  WithClient(f) = Passing(f)
<1>1. "client" \in Names /\ "tool" \in Names /\ "own" \in Names
  BY DEF Names
<1>2. CASE f \notin machine.foreign
  <2>1. PICK c, t, v : c = <<"client">> /\ t = <<"own">> /\ v = <<"client", "own">>
    OBVIOUS
  <2>2. c \in Seq(Names) /\ Len(c) = 1 /\ c[1] = "client"
    BY <1>1, <2>1, Routes
  <2>3. t \in Seq(Names) /\ Len(t) = 1 /\ t[1] = "own"
    BY <1>1, <2>1, Routes
  <2>4. v \in Seq(Names) /\ Len(v) = 2 /\ v[1] = "client" /\ v[2] = "own"
    BY <1>1, <2>1, Routes
  <2>5. c \o t = v
    <3>1. /\ Len(v) = Len(c) + Len(t) /\ (\A i \in 1 .. Len(c) : v[i] = c[i])
          /\ (\A i \in 1 .. Len(t) : v[Len(c) + i] = t[i])
      BY <2>2, <2>3, <2>4
    <3> QED BY <2>2, <2>3, <2>4, <3>1, Joined
  <2> QED BY <1>2, <2>1, <2>5 DEF WithClient, RetrievesOriginal, Untouched, Passing
<1>3. CASE f \in machine.foreign /\ ~RetrievesOriginal(f)
  <2>1. PICK c, t, v : c = <<"client">> /\ t = <<"tool", "own">> /\ v = <<"client", "tool", "own">>
    OBVIOUS
  <2>2. c \in Seq(Names) /\ Len(c) = 1 /\ c[1] = "client"
    BY <1>1, <2>1, Routes
  <2>3. t \in Seq(Names) /\ Len(t) = 2 /\ t[1] = "tool" /\ t[2] = "own"
    BY <1>1, <2>1, Routes
  <2>4. v \in Seq(Names) /\ Len(v) = 3 /\ v[1] = "client" /\ v[2] = "tool" /\ v[3] = "own"
    BY <1>1, <2>1, Routes
  <2>5. c \o t = v
    <3>1. /\ Len(v) = Len(c) + Len(t) /\ (\A i \in 1 .. Len(c) : v[i] = c[i])
          /\ (\A i \in 1 .. Len(t) : v[Len(c) + i] = t[i])
      BY <2>2, <2>3, <2>4
    <3> QED BY <2>2, <2>3, <2>4, <3>1, Joined
  <2> QED BY <1>3, <2>1, <2>5 DEF WithClient, Untouched, Passing
<1>4. CASE f \in machine.foreign /\ RetrievesOriginal(f)
  <2>1. PICK t, v : t = <<"tool", "own">> /\ v = <<"tool", "client", "own">>
    OBVIOUS
  <2>2. t \in Seq(Names) /\ Len(t) = 2 /\ t[1] = "tool" /\ t[2] = "own"
    BY <1>1, <2>1, Routes
  <2>3. v \in Seq(Names) /\ Len(v) = 3 /\ v[1] = "tool" /\ v[2] = "client" /\ v[3] = "own"
    BY <1>1, <2>1, Routes
  <2>4. InsertAt(t, 2, "client") = v
    <3>1. 2 \in 2 .. Len(t) /\ Len(v) = Len(t) + 1
      BY <2>2, <2>3
    <3>2. (\A i \in 1 .. 2 - 1 : v[i] = t[i]) /\ (\A i \in 2 .. Len(t) : v[i + 1] = t[i])
      BY <2>2, <2>3
    <3> QED BY <1>1, <2>2, <2>3, <3>1, <3>2, PutIn
  <2> QED BY <1>4, <2>1, <2>4 DEF WithClient, Untouched, Passing
<1> QED BY <1>2, <1>3, <1>4

(* Taking the client out again leaves what was there before.              *)
LEMMA ClientTakenOut ==
    ASSUME NEW f, route[f] = Passing(f)
    PROVE  WithoutClient(f) = Untouched(machine, f)
<1>1. "client" \in Names /\ "tool" \in Names /\ "own" \in Names
  BY DEF Names
<1>2. CASE f \notin machine.foreign
  <2>1. PICK s, v : s = <<"client", "own">> /\ v = <<"own">>
    OBVIOUS
  <2>2. s \in Seq(Names) /\ Len(s) = 2 /\ s[1] = "client" /\ s[2] = "own"
    BY <1>1, <2>1, Routes
  <2>3. v \in Seq(Names) /\ Len(v) = 1 /\ v[1] = "own"
    BY <1>1, <2>1, Routes
  <2>4. RemoveFirst(s, "client") = v
    <3>1. PICK k : k = 1
      OBVIOUS
    <3>2. /\ k \in 1 .. Len(s) /\ s[k] = "client" /\ Len(v) = Len(s) - 1
          /\ \A i \in 1 .. Len(s) : s[i] = "client" => k =< i
      BY <2>2, <2>3, <3>1
    <3>3. (\A i \in 1 .. k - 1 : v[i] = s[i]) /\ (\A i \in k .. Len(s) - 1 : v[i] = s[i + 1])
      BY <2>2, <2>3, <3>1
    <3>4. s \in Seq(Names) /\ v \in Seq(Names)
      BY <2>2, <2>3
    <3> QED BY <3>2, <3>3, <3>4, TakenOut
  <2> QED BY <1>2, <2>1, <2>4 DEF WithoutClient, Untouched, Passing
<1>3. CASE f \in machine.foreign /\ ~RetrievesOriginal(f)
  <2>1. PICK s, v : s = <<"client", "tool", "own">> /\ v = <<"tool", "own">>
    OBVIOUS
  <2>2. s \in Seq(Names) /\ Len(s) = 3 /\ s[1] = "client" /\ s[2] = "tool" /\ s[3] = "own"
    BY <1>1, <2>1, Routes
  <2>3. v \in Seq(Names) /\ Len(v) = 2 /\ v[1] = "tool" /\ v[2] = "own"
    BY <1>1, <2>1, Routes
  <2>4. RemoveFirst(s, "client") = v
    <3>1. PICK k : k = 1
      OBVIOUS
    <3>2. /\ k \in 1 .. Len(s) /\ s[k] = "client" /\ Len(v) = Len(s) - 1
          /\ \A i \in 1 .. Len(s) : s[i] = "client" => k =< i
      BY <2>2, <2>3, <3>1
    <3>3. (\A i \in 1 .. k - 1 : v[i] = s[i]) /\ (\A i \in k .. Len(s) - 1 : v[i] = s[i + 1])
      BY <2>2, <2>3, <3>1
    <3>4. s \in Seq(Names) /\ v \in Seq(Names)
      BY <2>2, <2>3
    <3> QED BY <3>2, <3>3, <3>4, TakenOut
  <2> QED BY <1>3, <2>1, <2>4 DEF WithoutClient, Untouched, Passing
<1>4. CASE f \in machine.foreign /\ RetrievesOriginal(f)
  <2>1. PICK s, v : s = <<"tool", "client", "own">> /\ v = <<"tool", "own">>
    OBVIOUS
  <2>2. s \in Seq(Names) /\ Len(s) = 3 /\ s[1] = "tool" /\ s[2] = "client" /\ s[3] = "own"
    BY <1>1, <2>1, Routes
  <2>3. v \in Seq(Names) /\ Len(v) = 2 /\ v[1] = "tool" /\ v[2] = "own"
    BY <1>1, <2>1, Routes
  <2>4. RemoveFirst(s, "client") = v
    <3>1. /\ 2 \in 1 .. Len(s) /\ Len(v) = Len(s) - 1
          /\ \A i \in 1 .. Len(s) : s[i] = "client" => 2 =< i
      BY <2>2, <2>3
    <3>2. (\A i \in 1 .. 2 - 1 : v[i] = s[i]) /\ (\A i \in 2 .. Len(s) - 1 : v[i] = s[i + 1])
      BY <2>2, <2>3
    <3> QED BY <2>2, <2>3, <3>1, <3>2, TakenOut
  <2> QED BY <1>4, <2>1, <2>4 DEF WithoutClient, Untouched, Passing
<1> QED BY <1>2, <1>3, <1>4

(* What happens to the machine: nothing.                                    *)
LEMMA MachineKept ==
    ASSUME machine' = machine
    PROVE  (Complete' <=> Complete) /\ Inputs' = Inputs /\ (WindowRefused' <=> WindowRefused)
<1>1. Complete' <=> Complete
  BY DEF Complete, Offers
<1>2. Inputs' = Inputs
  BY DEF Inputs, AttachConventionalInput
<1> QED BY <1>1, <1>2 DEF WindowRefused

(* A function whose calls go where they went is as free as it was.         *)
LEMMA DetourKept ==
    ASSUME machine' = machine, NEW f, route'[f] = route[f], orig'[f] = orig[f]
    PROVE  (Free(f)' <=> Free(f)) /\ (Detoured(f)' <=> Detoured(f))
  BY DEF Free, Detoured, Passing, RetrievesOriginal, Untouched

(* The groups are three.                                                    *)
LEMMA Groups ==
    /\ SystemD3D9 \cap WindowLong = {} /\ SystemD3D9 \cap InputFunctions = {}
    /\ WindowLong \cap InputFunctions = {} /\ Inputs \subseteq InputFunctions
    /\ SystemD3D9 \subseteq Functions /\ WindowLong \subseteq Functions /\ InputFunctions \subseteq Functions
    /\ \A v \in DirectInputs : Methods[v] \subseteq InputFunctions /\ Creates[v] \subseteq InputFunctions
    /\ Conventional \subseteq InputFunctions /\ Pump \subseteq InputFunctions
    /\ "GetCursorPos" \in Inputs /\ "SetWindowLong" \in WindowLong
    /\ "dinput8" \in DirectInputs /\ "dinput" \in DirectInputs
    /\ \A v \in DirectInputs : v = "dinput8" \/ v = "dinput"
<1>1. DirectInputs = {"dinput8", "dinput"}
  BY DEF DirectInputs, Methods
<1>2. /\ \A v \in DirectInputs : Methods[v] \subseteq InputFunctions /\ Creates[v] \subseteq InputFunctions
      /\ Conventional \subseteq InputFunctions /\ Pump \subseteq InputFunctions
  BY DEF InputFunctions
<1>3. Inputs \subseteq InputFunctions
  BY <1>2 DEF Inputs, AttachConventionalInput
<1>4. ASSUME NEW f \in InputFunctions, f \in SystemD3D9 \cup WindowLong PROVE FALSE
  <2>1. ASSUME NEW v \in DirectInputs
        PROVE  /\ Methods[v] \cap (SystemD3D9 \cup WindowLong) = {}
               /\ Creates[v] \cap (SystemD3D9 \cup WindowLong) = {}
    <3>1. CASE v = "dinput8"
      BY <1>1, <3>1 DEF Methods, Creates, SystemD3D9, WindowLong, DirectInputs
    <3>2. CASE v = "dinput"
      BY <1>1, <3>2 DEF Methods, Creates, SystemD3D9, WindowLong, DirectInputs
    <3> QED BY <1>1, <3>1, <3>2
  <2>2. (Conventional \cup Pump) \cap (SystemD3D9 \cup WindowLong) = {}
    BY DEF Conventional, Pump, SystemD3D9, WindowLong
  <2>3. f \in Conventional \cup Pump \/ \E v \in DirectInputs : f \in Methods[v] \cup Creates[v]
    BY DEF InputFunctions
  <2> QED BY <1>4, <2>1, <2>2, <2>3
<1>5. SystemD3D9 \cap WindowLong = {}
  BY DEF SystemD3D9, WindowLong
<1>6. "GetCursorPos" \in Inputs /\ "SetWindowLong" \in WindowLong
  BY DEF Inputs, AttachConventionalInput, Conventional, WindowLong
<1> QED BY <1>1, <1>2, <1>3, <1>4, <1>5, <1>6 DEF Functions

(* A group that a step does not touch.                                      *)
LEMMA SystemKept ==
    ASSUME SystemInv, machine' = machine,
           \A f \in SystemD3D9 : route'[f] = route[f] /\ orig'[f] = orig[f],
           stage' \in {"out", "helper"} => AllFree(SystemD3D9)
    PROVE  SystemInv'
  BY DetourKept DEF SystemInv, AllFree, AllDetoured

(* The same of the window functions ...                                    *)
LEMMA WindowKept ==
    ASSUME WindowInv, machine' = machine,
           \A f \in WindowLong : route'[f] = route[f] /\ orig'[f] = orig[f],
           stage' \in {"windowed", "hooked", "attached"} <=> stage \in {"windowed", "hooked", "attached"}
    PROVE  WindowInv'
  BY DetourKept, MachineKept DEF WindowInv, AllFree, AllDetoured

(* ... and of the input functions.                                         *)
LEMMA InputsKept ==
    ASSUME DetouredInputs, machine' = machine,
           \A f \in InputFunctions : route'[f] = route[f] /\ orig'[f] = orig[f],
           stage' \notin {"hooked", "attached", "terminated", "serverless"} =>
             stage \notin {"hooked", "attached", "terminated", "serverless"}
    PROVE  DetouredInputs'
<1>1. PICK I : I = Inputs
  OBVIOUS
<1>2. Inputs' = I /\ (Complete' <=> Complete) /\ I \subseteq InputFunctions
  BY <1>1, MachineKept, Groups
<1>3. \A f \in InputFunctions : (Free(f)' <=> Free(f)) /\ (Detoured(f)' <=> Detoured(f))
  BY DetourKept
<1> QED BY <1>1, <1>2, <1>3 DEF DetouredInputs, AllFree, AllDetoured

(* A transaction that detours functions, and one that gives them back.      *)
LEMMA Attaches ==
    ASSUME LoadingType, NEW fs, fs \subseteq Functions, AllFree(fs), machine' = machine,
           NEW o, DOMAIN o = Functions, Transaction(fs, {}, o)
    PROVE  /\ DOMAIN route' = Functions /\ DOMAIN orig' = Functions
           /\ \A f \in Functions \ fs : route'[f] = route[f] /\ orig'[f] = o[f]
           /\ Fails(fs, {}, o) => route' = route /\ orig' = o
           /\ ~Fails(fs, {}, o) => AllDetoured(fs)'
<1>1. CASE Fails(fs, {}, o)
  BY <1>1 DEF Transaction, Routed, Pointers, LoadingType
<1>2. CASE ~Fails(fs, {}, o)
  <2>1. /\ route' = [f \in Functions |-> IF f \in fs THEN WithClient(f) ELSE route[f]]
        /\ orig' = [f \in Functions |-> IF f \in fs THEN "trampoline" ELSE o[f]]
    BY <1>2 DEF Transaction, Routed, Pointers
  <2>2. ASSUME NEW f \in fs PROVE Detoured(f)'
    <3>1. route'[f] = Passing(f) /\ orig'[f] = "trampoline"
      BY <2>1, ClientPutIn DEF AllFree, Free
    <3> QED BY <3>1 DEF Detoured, Passing, RetrievesOriginal
  <2> QED BY <1>2, <2>1, <2>2 DEF AllDetoured
<1> QED BY <1>1, <1>2

(* Giving functions back fails only when none of them is detoured.         *)
LEMMA Detaches ==
    ASSUME LoadingType, NEW fs, fs \subseteq Functions, NEW g \in fs, AllFree(fs) \/ AllDetoured(fs)
    PROVE  /\ Fails({}, fs, orig) => AllFree(fs)
           /\ ~Fails({}, fs, orig) => AllDetoured(fs)
           /\ DOMAIN Routed({}, fs, orig) = Functions
           /\ \A f \in fs : Routed({}, fs, orig)[f] = Untouched(machine, f)
           /\ \A f \in Functions \ fs : Routed({}, fs, orig)[f] = route[f]
<1>1. CASE AllFree(fs)
  <2>1. Fails({}, fs, orig)
    BY <1>1 DEF Fails, AllFree, Free
  <2> QED BY <1>1, <2>1 DEF Routed, AllFree, Free, LoadingType
<1>2. CASE AllDetoured(fs)
  <2>1. ~Fails({}, fs, orig)
    BY <1>2 DEF Fails, AllDetoured, Detoured
  <2>2. Routed({}, fs, orig) = [f \in Functions |-> IF f \in fs THEN WithoutClient(f) ELSE route[f]]
    BY <2>1 DEF Routed
  <2> QED BY <1>2, <2>1, <2>2, ClientTakenOut DEF AllDetoured, Detoured
<1> QED BY <1>1, <1>2

(* After it they are free either way.                                      *)
LEMMA GivenBack ==
    ASSUME LoadingType, NEW fs, fs \subseteq Functions, NEW g \in fs, AllFree(fs) \/ AllDetoured(fs),
           machine' = machine, Transaction({}, fs, orig)
    PROVE  /\ AllFree(fs)' /\ DOMAIN route' = Functions /\ DOMAIN orig' = Functions
           /\ \A f \in Functions \ fs : route'[f] = route[f] /\ orig'[f] = orig[f]
<1>1. /\ DOMAIN route' = Functions /\ \A f \in fs : route'[f] = Untouched(machine, f)
      /\ \A f \in Functions \ fs : route'[f] = route[f]
  BY Detaches DEF Transaction
<1>2. CASE Fails({}, fs, orig)
  BY <1>1, <1>2, Detaches DEF Transaction, Pointers, AllFree, Free, LoadingType
<1>3. CASE ~Fails({}, fs, orig)
  <2>1. orig' = [f \in Functions |-> IF f \in fs THEN "function" ELSE orig[f]]
    BY <1>3 DEF Transaction, Pointers
  <2> QED BY <1>1, <2>1 DEF AllFree, Free
<1> QED BY <1>2, <1>3

(* Steps that touch neither the detours nor the place in the loader.        *)
LEMMA LibraryStill ==
    ASSUME LoadingInv, UNCHANGED <<machine, detourVars, stage, gIsAttached, gWinHooks>>,
           server' = server \/ stage \in {"attached", "terminated"},
           remixProc' => remixProc \/ stage = "attached",
           launcher' \in {"start", "created", "waiting", "returned"}, GameInv'
    PROVE  LoadingInv'
<1>1. LoadingType'
  BY DEF LoadingInv, LoadingType, detourVars
<1>2. SystemInv'
  BY SystemKept DEF LoadingInv, SystemInv, detourVars
<1>3. WindowInv'
  BY WindowKept DEF LoadingInv, detourVars
<1>4. DetouredInputs'
  BY InputsKept DEF LoadingInv, detourVars
<1>5. FlagInv'
  BY MachineKept DEF LoadingInv, FlagInv
<1> QED BY <1>1, <1>2, <1>3, <1>4, <1>5 DEF LoadingInv

(* The library loaded.                                                      *)
LEMMA DllProcessAttachKeeps == ASSUME LoadingInv, DllProcessAttach PROVE LoadingInv'
<1> DEFINE o == Found(SystemD3D9, orig)
<1>1. /\ stage = "out" /\ game = "running" /\ machine' = machine
      /\ UNCHANGED <<gIsAttached, gWinHooks, remixProc, server, launcher, game>>
      /\ stage' \in {"helper", "bootstrapped", "detached"}
      /\ stage' = "helper" => route' = route /\ orig' = orig
  BY DEF DllProcessAttach, detourVars, processVars
<1>2. FlagInv' /\ GameInv'
  BY <1>1, MachineKept DEF LoadingInv, FlagInv, GameInv
<1>3. /\ SystemInv' /\ DOMAIN route' = Functions /\ DOMAIN orig' = Functions
      /\ \A f \in Functions \ SystemD3D9 : route'[f] = route[f] /\ orig'[f] = orig[f]
  <2>1. CASE route' = route /\ orig' = orig
    BY <1>1, <2>1, SystemKept DEF LoadingInv, LoadingType, SystemInv
  <2>2. CASE Transaction(SystemD3D9, {}, o) /\ stage' # "helper"
    <3>1. AllFree(SystemD3D9)
      BY <1>1 DEF LoadingInv, SystemInv
    <3>2. /\ DOMAIN o = Functions /\ \A f \in Functions \ SystemD3D9 : o[f] = orig[f]
          /\ \A f \in SystemD3D9 : o[f] # "trampoline"
      BY Groups DEF Found
    <3> HIDE DEF o
    <3>3. /\ DOMAIN route' = Functions /\ DOMAIN orig' = Functions
          /\ \A f \in Functions \ SystemD3D9 : route'[f] = route[f] /\ orig'[f] = o[f]
          /\ Fails(SystemD3D9, {}, o) => route' = route /\ orig' = o
          /\ ~Fails(SystemD3D9, {}, o) => AllDetoured(SystemD3D9)'
      BY <1>1, <2>2, <3>1, <3>2, Attaches, Groups DEF LoadingInv
    <3>4. CASE Fails(SystemD3D9, {}, o)
      <4>1. AllFree(SystemD3D9)'
        BY <1>1, <3>1, <3>2, <3>3, <3>4 DEF AllFree, Free, Untouched
      <4> QED BY <3>2, <3>3, <4>1 DEF SystemInv
    <3>5. CASE ~Fails(SystemD3D9, {}, o)
      BY <1>1, <2>2, <3>2, <3>3, <3>5 DEF SystemInv
    <3> QED BY <3>4, <3>5
  <2> QED BY <1>1, <2>1, <2>2 DEF DllProcessAttach, detourVars
<1>4. WindowInv'
  <2>1. \A f \in WindowLong : f \in Functions \ SystemD3D9
    BY Groups
  <2> QED BY <1>1, <1>3, <2>1, WindowKept DEF LoadingInv
<1>5. DetouredInputs'
  <2>1. \A f \in InputFunctions : f \in Functions \ SystemD3D9
    BY Groups
  <2> QED BY <1>1, <1>3, <2>1, InputsKept DEF LoadingInv
<1>6. LoadingType'
  BY <1>1, <1>3 DEF LoadingInv, LoadingType
<1> QED BY <1>2, <1>3, <1>4, <1>5, <1>6 DEF LoadingInv

(* The window functions, which cannot be missing.                           *)
LEMMA AttachWindowKeeps == ASSUME LoadingInv, AttachWindow PROVE LoadingInv'
<1> DEFINE o == Found(WindowLong, orig)
<1>1. /\ stage = "bootstrapped" /\ stage' = "windowed" /\ machine' = machine
      /\ UNCHANGED <<gIsAttached, gWinHooks, remixProc, server, launcher, game>>
      /\ Transaction(WindowLong, {}, o)
  BY DEF AttachWindow, processVars
<1>2. FlagInv' /\ GameInv'
  BY <1>1, MachineKept DEF LoadingInv, FlagInv, GameInv
<1>3. AllFree(WindowLong)
  BY <1>1 DEF LoadingInv, WindowInv
<1>4. WindowLong \cap machine.missing = {}
  <2>1. machine.missing \subseteq SystemD3D9 \cup UNION {Creates[v] : v \in DirectInputs}
    BY LoadingAssumption DEF LoadingInv, LoadingType
  <2> QED BY <2>1, Groups
<1>5. /\ DOMAIN o = Functions /\ \A f \in Functions \ WindowLong : o[f] = orig[f]
      /\ \A f \in WindowLong : o[f] = "function"
  BY <1>4, Groups DEF Found
<1> HIDE DEF o
<1>6. /\ DOMAIN route' = Functions /\ DOMAIN orig' = Functions
      /\ \A f \in Functions \ WindowLong : route'[f] = route[f] /\ orig'[f] = orig[f]
      /\ Fails(WindowLong, {}, o) => route' = route /\ orig' = o
      /\ ~Fails(WindowLong, {}, o) => AllDetoured(WindowLong)'
  BY <1>1, <1>3, <1>5, Attaches, Groups DEF LoadingInv
<1>7. WindowInv'
  <2>1. CASE Fails(WindowLong, {}, o)
    <3>1. AllFree(WindowLong)'
      BY <1>1, <1>3, <1>5, <1>6, <2>1 DEF AllFree, Free, Untouched
    <3>2. WindowRefused
      BY <1>5, <2>1 DEF Fails, WindowRefused
    <3> QED BY <1>1, <3>1, <3>2, MachineKept DEF WindowInv
  <2>2. CASE ~Fails(WindowLong, {}, o)
    BY <1>1, <1>6, <2>2 DEF WindowInv
  <2> QED BY <2>1, <2>2
<1>8. SystemInv'
  <2>1. \A f \in SystemD3D9 : f \in Functions \ WindowLong
    BY Groups
  <2> QED BY <1>1, <1>6, <2>1, SystemKept DEF LoadingInv
<1>9. DetouredInputs'
  <2>1. \A f \in InputFunctions : f \in Functions \ WindowLong
    BY Groups
  <2> QED BY <1>1, <1>6, <2>1, InputsKept DEF LoadingInv
<1>10. LoadingType'
  BY <1>1, <1>6 DEF LoadingInv, LoadingType
<1> QED BY <1>2, <1>7, <1>8, <1>9, <1>10 DEF LoadingInv

(* The input functions.                                                     *)
LEMMA DInputHookAttachKeeps == ASSUME LoadingInv, DInputHookAttach PROVE LoadingInv'
<1> DEFINE attached == AttachConventionalInput \cup DirectInput8HookAttach \cup DirectInput7HookAttach
           found == AttachConventionalInput \cup UNION {VersionFinds(v) : v \in DirectInputs}
           o == Found(found, orig)
<1>1. /\ stage = "windowed" /\ stage' = "hooked" /\ machine' = machine
      /\ UNCHANGED <<gIsAttached, remixProc, server, launcher, game>>
      /\ Transaction(attached, {}, o)
  BY DEF DInputHookAttach, processVars
<1>2. FlagInv' /\ GameInv'
  BY <1>1, MachineKept DEF LoadingInv, FlagInv, GameInv
<1>3. attached \subseteq InputFunctions /\ found \subseteq InputFunctions
  <2>1. \A v \in DirectInputs : FirstCreate[v] \in Creates[v]
    BY DEF FirstCreate, Creates, DirectInputs, Methods
  <2> QED BY <2>1, Groups DEF AttachConventionalInput, DirectInput8HookAttach, DirectInput7HookAttach,
             VersionFinds
<1>4. ASSUME Complete PROVE attached = Inputs /\ found = Inputs
  <2>1. \A v \in DirectInputs : VersionFinds(v) = Methods[v] \cup Creates[v]
    BY <1>4 DEF Complete, VersionFinds
  <2>2. /\ DirectInput8HookAttach = Methods["dinput8"] \cup Creates["dinput8"]
        /\ DirectInput7HookAttach = Methods["dinput"] \cup Creates["dinput"]
    BY <1>4, Groups DEF Complete, DirectInput8HookAttach, DirectInput7HookAttach
  <2>3. found = Inputs
    BY <2>1 DEF Inputs
  <2>4. attached = Inputs
    BY <2>2, Groups DEF Inputs
  <2> QED BY <2>3, <2>4
<1>5. /\ DOMAIN o = Functions /\ \A f \in Functions \ found : o[f] = orig[f]
      /\ \A f \in Functions \cap found : o[f] # "trampoline"
  BY DEF Found
<1> HIDE DEF attached, found, o
<1>6. /\ DOMAIN route' = Functions /\ DOMAIN orig' = Functions
      /\ \A f \in Functions \ InputFunctions : route'[f] = route[f] /\ orig'[f] = orig[f]
  <2>1. CASE Fails(attached, {}, o)
    BY <1>1, <1>3, <1>5, <2>1 DEF Transaction, Routed, Pointers, LoadingInv, LoadingType
  <2>2. CASE ~Fails(attached, {}, o)
    BY <1>1, <1>3, <1>5, <2>2 DEF Transaction, Routed, Pointers
  <2> QED BY <2>1, <2>2
<1>7. DetouredInputs'
  <2>1. PICK I : I = Inputs
    OBVIOUS
  <2>2. Inputs' = I /\ (Complete' <=> Complete) /\ I \subseteq InputFunctions /\ I \subseteq Functions
    BY <1>1, <2>1, MachineKept, Groups
  <2>3. SUFFICES ASSUME Complete PROVE (AllFree(I) \/ AllDetoured(I))' /\ AllFree(InputFunctions \ I)'
    BY <1>1, <2>1, <2>2 DEF DetouredInputs
  <2>4. AllFree(I) /\ AllFree(InputFunctions \ I) /\ attached = I /\ found = I
    BY <1>1, <1>4, <2>1, <2>3 DEF LoadingInv, DetouredInputs
  <2>5. /\ \A f \in Functions \ I : route'[f] = route[f] /\ orig'[f] = o[f]
        /\ Fails(I, {}, o) => route' = route /\ orig' = o
        /\ ~Fails(I, {}, o) => AllDetoured(I)'
    BY <1>1, <1>5, <2>2, <2>4, Attaches DEF LoadingInv
  <2>6. AllFree(InputFunctions \ I)'
    BY <1>1, <1>5, <2>4, <2>5, Groups DEF AllFree, Free, Untouched
  <2>7. CASE Fails(I, {}, o)
    <3>1. AllFree(I)'
      BY <1>1, <1>5, <2>2, <2>4, <2>5, <2>7 DEF AllFree, Free, Untouched
    <3> QED BY <2>6, <3>1
  <2>8. CASE ~Fails(I, {}, o)
    BY <2>5, <2>6, <2>8
  <2> QED BY <2>7, <2>8
<1>8. SystemInv'
  <2>1. \A f \in SystemD3D9 : f \in Functions \ InputFunctions
    BY Groups
  <2> QED BY <1>1, <1>6, <2>1, SystemKept DEF LoadingInv
<1>9. WindowInv'
  <2>1. \A f \in WindowLong : f \in Functions \ InputFunctions
    BY Groups
  <2> QED BY <1>1, <1>6, <2>1, WindowKept DEF LoadingInv
<1>10. LoadingType'
  BY <1>1, <1>6 DEF LoadingInv, LoadingType
<1> QED BY <1>2, <1>7, <1>8, <1>9, <1>10 DEF LoadingInv

(* RemixDetach.                                                             *)
LEMMA TerminateWndProcKeeps == ASSUME LoadingInv, TerminateWndProc PROVE LoadingInv'
<1>1. /\ stage = "attached" /\ stage' = "terminated" /\ machine' = machine
      /\ UNCHANGED <<gIsAttached, gWinHooks, server, launcher, game>>
      /\ Transaction({}, WindowLong, orig)
      /\ remixProc' = (remixProc /\ Fails({}, WindowLong, orig))
  BY DEF TerminateWndProc, processVars
<1>2. AllFree(WindowLong) \/ AllDetoured(WindowLong)
  BY DEF LoadingInv, WindowInv
<1>3. /\ AllFree(WindowLong)' /\ DOMAIN route' = Functions /\ DOMAIN orig' = Functions
      /\ \A f \in Functions \ WindowLong : route'[f] = route[f] /\ orig'[f] = orig[f]
  BY <1>1, <1>2, GivenBack, Groups DEF LoadingInv
<1>4. Fails({}, WindowLong, orig) => WindowRefused
  <2>1. Fails({}, WindowLong, orig) => AllFree(WindowLong)
    BY <1>2, Detaches, Groups DEF LoadingInv
  <2>2. ~(AllFree(WindowLong) /\ AllDetoured(WindowLong))
    BY Groups DEF AllFree, AllDetoured, Free, Detoured
  <2> QED BY <1>1, <2>1, <2>2 DEF LoadingInv, WindowInv
<1>5. FlagInv' /\ GameInv'
  BY <1>1, <1>4, MachineKept DEF LoadingInv, FlagInv, GameInv
<1>6. WindowInv'
  BY <1>1, <1>3 DEF WindowInv
<1>7. SystemInv'
  <2>1. \A f \in SystemD3D9 : f \in Functions \ WindowLong
    BY Groups
  <2> QED BY <1>1, <1>3, <2>1, SystemKept DEF LoadingInv
<1>8. DetouredInputs'
  <2>1. \A f \in InputFunctions : f \in Functions \ WindowLong
    BY Groups
  <2> QED BY <1>1, <1>3, <2>1, InputsKept DEF LoadingInv
<1>9. LoadingType'
  BY <1>1, <1>3 DEF LoadingInv, LoadingType
<1> QED BY <1>5, <1>6, <1>7, <1>8, <1>9 DEF LoadingInv

(* The input functions given back.                                         *)
LEMMA DInputHookDetachKeeps == ASSUME LoadingInv, DInputHookDetach PROVE LoadingInv'
<1> DEFINE fs == DetachConventionalInput \cup DirectInput8HookDetach \cup DirectInput7HookDetach
<1>1. /\ stage = "serverless" /\ stage' = "detached" /\ machine' = machine
      /\ gIsAttached' = FALSE /\ gWinHooks' = FALSE
      /\ UNCHANGED <<remixProc, server, launcher, game>>
      /\ Transaction({}, fs, orig)
  BY DEF DInputHookDetach, processVars
<1>2. FlagInv' /\ GameInv'
  BY <1>1, MachineKept DEF LoadingInv, FlagInv, GameInv
<1>3. fs = Inputs
  BY Groups DEF Inputs, DetachConventionalInput, AttachConventionalInput, DirectInput8HookDetach,
                DirectInput7HookDetach
<1>4. fs \subseteq InputFunctions /\ fs \subseteq Functions /\ "GetCursorPos" \in fs
  BY <1>3, Groups
<1> HIDE DEF fs
<1>5. /\ DOMAIN route' = Functions /\ DOMAIN orig' = Functions
      /\ \A f \in Functions \ fs : route'[f] = route[f] /\ orig'[f] = orig[f]
  <2>1. CASE Fails({}, fs, orig)
    BY <1>1, <2>1 DEF Transaction, Routed, Pointers, LoadingInv, LoadingType
  <2>2. CASE ~Fails({}, fs, orig)
    BY <1>1, <2>2 DEF Transaction, Routed, Pointers
  <2> QED BY <2>1, <2>2
<1>6. DetouredInputs'
  <2>1. PICK I : I = Inputs
    OBVIOUS
  <2>2. /\ Inputs' = I /\ (Complete' <=> Complete) /\ I \subseteq InputFunctions /\ I \subseteq Functions
        /\ "GetCursorPos" \in I /\ InputFunctions \subseteq Functions
    BY <1>1, <2>1, MachineKept, Groups
  <2>3. SUFFICES ASSUME Complete PROVE AllFree(I)' /\ AllFree(InputFunctions \ I)'
    BY <1>1, <2>1, <2>2 DEF DetouredInputs
  <2>4. AllFree(I) \/ AllDetoured(I)
    BY <2>1, <2>3 DEF LoadingInv, DetouredInputs
  <2>5. AllFree(InputFunctions \ I) /\ fs = I
    BY <1>3, <2>1, <2>3 DEF LoadingInv, DetouredInputs
  <2>6. AllFree(I)'
    BY <1>1, <2>2, <2>4, <2>5, GivenBack DEF LoadingInv
  <2>7. AllFree(InputFunctions \ I)'
    BY <1>1, <1>5, <2>2, <2>5 DEF AllFree, Free, Untouched
  <2> QED BY <2>6, <2>7
<1>7. SystemInv'
  <2>1. \A f \in SystemD3D9 : f \in Functions \ fs
    BY <1>4, Groups
  <2> QED BY <1>1, <1>5, <2>1, SystemKept DEF LoadingInv
<1>8. WindowInv'
  <2>1. \A f \in WindowLong : f \in Functions \ fs
    BY <1>4, Groups
  <2> QED BY <1>1, <1>5, <2>1, WindowKept DEF LoadingInv
<1>9. LoadingType'
  BY <1>1, <1>5 DEF LoadingInv, LoadingType
<1> QED BY <1>2, <1>6, <1>7, <1>8, <1>9 DEF LoadingInv

(* The library gone: its pointers are with it.                              *)
LEMMA DllProcessDetachKeeps == ASSUME LoadingInv, DllProcessDetach PROVE LoadingInv'
<1>1. /\ stage \in {"detached", "helper"} /\ stage' = "out" /\ machine' = machine /\ orig' = NoOrig
      /\ UNCHANGED <<gIsAttached, gWinHooks, remixProc, server, launcher, game>>
      /\ route' = IF stage = "helper" THEN route ELSE Routed({}, SystemD3D9, orig)
  BY DEF DllProcessDetach, processVars
<1>2. FlagInv' /\ GameInv'
  BY <1>1, MachineKept DEF LoadingInv, FlagInv, GameInv
<1>3. /\ DOMAIN route' = Functions /\ \A f \in Functions \ SystemD3D9 : route'[f] = route[f]
      /\ \A f \in SystemD3D9 : route'[f] = Untouched(machine, f)
  <2>1. CASE stage = "helper"
    BY <1>1, <2>1, Groups DEF LoadingInv, LoadingType, SystemInv, AllFree, Free
  <2>2. CASE stage # "helper"
    <3>1. "Direct3DCreate9" \in SystemD3D9
      BY DEF SystemD3D9
    <3>2. AllFree(SystemD3D9) \/ AllDetoured(SystemD3D9)
      BY DEF LoadingInv, SystemInv
    <3> QED BY <1>1, <2>2, <3>1, <3>2, Detaches, Groups DEF LoadingInv
  <2> QED BY <2>1, <2>2
<1>4. DOMAIN orig' = Functions /\ \A f \in Functions : orig'[f] # "trampoline"
  BY <1>1 DEF NoOrig
<1>5. ASSUME NEW f \in Functions, f \in SystemD3D9 \/ Free(f) PROVE Free(f)'
  BY <1>1, <1>3, <1>4, <1>5 DEF Free, Untouched
<1>6. SystemInv'
  BY <1>5, Groups DEF SystemInv, AllFree
<1>7. WindowInv'
  <2>1. AllFree(WindowLong)
    BY <1>1 DEF LoadingInv, WindowInv
  <2>2. AllFree(WindowLong)'
    BY <1>5, <2>1, Groups DEF AllFree
  <2> QED BY <1>1, <2>2 DEF WindowInv
<1>8. DetouredInputs'
  <2>1. PICK I : I = Inputs
    OBVIOUS
  <2>2. Inputs' = I /\ (Complete' <=> Complete) /\ InputFunctions \subseteq Functions /\ I \subseteq InputFunctions
    BY <1>1, <2>1, MachineKept, Groups
  <2>3. SUFFICES ASSUME Complete PROVE AllFree(I)' /\ AllFree(InputFunctions \ I)'
    BY <1>1, <2>1, <2>2 DEF DetouredInputs
  <2>4. AllFree(I) /\ AllFree(InputFunctions \ I)
    BY <1>1, <2>1, <2>3 DEF LoadingInv, DetouredInputs
  <2>5. \A f \in InputFunctions : Free(f)'
    BY <1>5, <2>2, <2>4 DEF AllFree
  <2> QED BY <2>2, <2>5 DEF AllFree
<1>9. LoadingType'
  BY <1>1, <1>3, <1>4 DEF LoadingInv, LoadingType
<1> QED BY <1>2, <1>6, <1>7, <1>8, <1>9 DEF LoadingInv

(* FinishAttach and EndServer only go on.                                   *)
LEMMA GoesOnKeeps == ASSUME LoadingInv, FinishAttach \/ EndServer PROVE LoadingInv'
<1>1. UNCHANGED <<machine, route, orig, gWinHooks, remixProc, launcher, game>>
  BY DEF FinishAttach, EndServer, detourVars, processVars
<1>2. \/ stage = "hooked" /\ stage' = "attached" /\ server' = server
      \/ stage = "terminated" /\ stage' = "serverless" /\ server' = <<>> /\ gIsAttached' = gIsAttached
  BY DEF FinishAttach, EndServer
<1>3. LoadingType'
  BY <1>1, <1>2 DEF LoadingInv, LoadingType
<1>4. SystemInv'
  BY <1>1, <1>2, SystemKept DEF LoadingInv
<1>5. WindowInv'
  BY <1>1, <1>2, WindowKept DEF LoadingInv
<1>6. DetouredInputs'
  BY <1>1, <1>2, InputsKept DEF LoadingInv
<1>7. FlagInv' /\ GameInv'
  BY <1>1, <1>2, MachineKept DEF LoadingInv, FlagInv, GameInv
<1> QED BY <1>3, <1>4, <1>5, <1>6, <1>7 DEF LoadingInv

(* Before the library is loaded for the first time.                        *)
LEMMA InitLoadingInv == InitLoading => LoadingInv
<1> SUFFICES ASSUME InitLoading PROVE LoadingInv
  OBVIOUS
<1>1. \A f \in Functions : Free(f)
  BY DEF InitLoading, Free, NoOrig
<1>2. LoadingType
  BY DEF InitLoading, LoadingType, NoOrig
<1>3. SystemInv /\ WindowInv /\ DetouredInputs
  BY <1>1, Groups DEF SystemInv, WindowInv, DetouredInputs, AllFree, InitLoading
<1>4. FlagInv /\ GameInv
  BY DEF InitLoading, FlagInv, GameInv
<1> QED BY <1>2, <1>3, <1>4 DEF LoadingInv

(* Every step.                                                              *)
LEMMA NextLoadingInv == LoadingInv /\ [LoadingNext]_loadingVars => LoadingInv'
<1> SUFFICES ASSUME LoadingInv, [LoadingNext]_loadingVars PROVE LoadingInv'
  OBVIOUS
<1>1. CASE LauncherMain \/ Resume \/ Waited \/ GameEnds
  <2>1. /\ UNCHANGED <<machine, route, orig, stage, gIsAttached, gWinHooks, server, remixProc>>
    BY <1>1 DEF LauncherMain, Resume, Waited, GameEnds, detourVars
  <2>2. launcher' \in {"start", "created", "waiting", "returned"} /\ GameInv'
    <3>1. CASE LauncherMain
      <4>1. launcher = "start" /\ game = "none"
        BY <3>1 DEF LauncherMain, LoadingInv, GameInv
      <4>2. \/ launcher' = "returned" /\ game' = game
            \/ launcher' = "created" /\ game' = "suspended"
        BY <3>1 DEF LauncherMain, Return
      <4> QED BY <4>1, <4>2 DEF GameInv
    <3>2. CASE Resume
      BY <3>2 DEF Resume, GameInv
    <3>3. CASE Waited
      BY <3>3 DEF Waited, Return, GameInv
    <3>4. CASE GameEnds
      BY <3>4 DEF GameEnds, LoadingInv, LoadingType, GameInv
    <3> QED BY <1>1, <3>1, <3>2, <3>3, <3>4
  <2> QED BY <2>1, <2>2, LibraryStill DEF detourVars
<1>2. CASE (\E f \in SystemD3D9 : LssDirect3DCreate9(f)) \/ SetProc
  <2>1. /\ UNCHANGED <<machine, detourVars, stage, gIsAttached, gWinHooks, launcher, game>>
        /\ stage = "attached"
    BY <1>2 DEF LssDirect3DCreate9, SetProc, processVars
  <2>2. GameInv' /\ launcher' \in {"start", "created", "waiting", "returned"}
    BY <2>1 DEF LoadingInv, GameInv, LoadingType
  <2> QED BY <2>1, <2>2, LibraryStill
<1>3. CASE UNCHANGED loadingVars
  <2>1. UNCHANGED <<machine, detourVars, stage, gIsAttached, gWinHooks, server, remixProc, launcher,
                    game>>
    BY <1>3 DEF loadingVars, processVars
  <2>2. GameInv' /\ launcher' \in {"start", "created", "waiting", "returned"}
    BY <2>1 DEF LoadingInv, GameInv, LoadingType
  <2> QED BY <2>1, <2>2, LibraryStill
<1> QED BY <1>1, <1>2, <1>3, DllProcessAttachKeeps, AttachWindowKeeps, DInputHookAttachKeeps, GoesOnKeeps,
           TerminateWndProcKeeps, DInputHookDetachKeeps, DllProcessDetachKeeps DEF LoadingNext

(* What the invariant is for.                                              *)
LEMMA LoadingInvCleans == LoadingInv => NothingLeftBehind
<1> SUFFICES ASSUME LoadingInv PROVE NothingLeftBehind
  OBVIOUS
<1>1. ASSUME NEW f \in Functions, Complete \/ f \notin InputFunctions PROVE Free(f) \/ Detoured(f)
  <2>1. f \in SystemD3D9 \/ f \in WindowLong \/ f \in InputFunctions
    BY DEF Functions
  <2>2. CASE f \in SystemD3D9
    BY <2>2 DEF LoadingInv, SystemInv, AllFree, AllDetoured
  <2>3. CASE f \in WindowLong
    BY <2>3 DEF LoadingInv, WindowInv, AllFree, AllDetoured
  <2>4. CASE f \in InputFunctions
    BY <1>1, <2>4 DEF LoadingInv, DetouredInputs, AllFree, AllDetoured
  <2> QED BY <2>1, <2>2, <2>3, <2>4
<1>2. ASSUME NEW f \in Functions, Complete \/ f \notin InputFunctions, stage = "out" PROVE Free(f)
  <2>1. f \in SystemD3D9 \/ f \in WindowLong \/ f \in InputFunctions
    BY DEF Functions
  <2>2. CASE f \in SystemD3D9
    BY <1>2, <2>2 DEF LoadingInv, SystemInv, AllFree
  <2>3. CASE f \in WindowLong
    BY <1>2, <2>3 DEF LoadingInv, WindowInv, AllFree
  <2>4. CASE f \in InputFunctions
    BY <1>2, <2>4 DEF LoadingInv, DetouredInputs, AllFree
  <2> QED BY <2>1, <2>2, <2>3, <2>4
<1>3. stage = "out" =>
        /\ ~gWinHooks /\ ~gIsAttached /\ server = <<>>
        /\ remixProc => WindowLong \cap machine.refused # {}
  BY DEF LoadingInv, FlagInv, WindowRefused
<1>4. ASSUME NEW f \in Functions, Complete \/ f \notin InputFunctions
      PROVE  /\ \A i, j \in DOMAIN route[f] : route[f][i] = "client" /\ route[f][j] = "client" => i = j
             /\ Last(route[f]) = "own"
             /\ Contains(route[f], "client") => orig[f] = "trampoline"
  <2>1. /\ "client" \in Names /\ "tool" \in Names /\ "own" \in Names
        /\ "client" # "tool" /\ "client" # "own"
    BY DEF Names
  <2>2. CASE Free(f)
    <3>1. CASE route[f] = <<"own">>
      <4>1. PICK s : s = route[f]
        OBVIOUS
      <4>2. s \in Seq(Names) /\ Len(s) = 1 /\ s[1] = "own"
        BY <2>1, <3>1, <4>1, Routes
      <4>3. \A i \in 1 .. Len(s) : s[i] # "client"
        BY <2>1, <4>2
      <4> QED BY <4>1, <4>2, <4>3, LenProperties DEF Last, Contains
    <3>2. CASE route[f] = <<"tool", "own">>
      <4>1. PICK s : s = route[f]
        OBVIOUS
      <4>2. s \in Seq(Names) /\ Len(s) = 2 /\ s[1] = "tool" /\ s[2] = "own"
        BY <2>1, <3>2, <4>1, Routes
      <4>3. \A i \in 1 .. Len(s) : s[i] # "client"
        BY <2>1, <4>2
      <4> QED BY <4>1, <4>2, <4>3, LenProperties DEF Last, Contains
    <3> QED BY <2>2, <3>1, <3>2 DEF Free, Untouched
  <2>3. CASE Detoured(f)
    <3>1. CASE route[f] = <<"client", "own">>
      <4>1. PICK s : s = route[f]
        OBVIOUS
      <4>2. s \in Seq(Names) /\ Len(s) = 2 /\ s[1] = "client" /\ s[2] = "own"
        BY <2>1, <3>1, <4>1, Routes
      <4>3. \A i \in 1 .. Len(s) : s[i] = "client" => i = 1
        BY <2>1, <4>2
      <4> QED BY <2>3, <4>1, <4>2, <4>3, LenProperties DEF Last, Detoured
    <3>2. CASE route[f] = <<"tool", "client", "own">>
      <4>1. PICK s : s = route[f]
        OBVIOUS
      <4>2. s \in Seq(Names) /\ Len(s) = 3 /\ s[1] = "tool" /\ s[2] = "client" /\ s[3] = "own"
        BY <2>1, <3>2, <4>1, Routes
      <4>3. \A i \in 1 .. Len(s) : s[i] = "client" => i = 2
        BY <2>1, <4>2
      <4> QED BY <2>3, <4>1, <4>2, <4>3, LenProperties DEF Last, Detoured
    <3>3. CASE route[f] = <<"client", "tool", "own">>
      <4>1. PICK s : s = route[f]
        OBVIOUS
      <4>2. s \in Seq(Names) /\ Len(s) = 3 /\ s[1] = "client" /\ s[2] = "tool" /\ s[3] = "own"
        BY <2>1, <3>3, <4>1, Routes
      <4>3. \A i \in 1 .. Len(s) : s[i] = "client" => i = 1
        BY <2>1, <4>2
      <4> QED BY <2>3, <4>1, <4>2, <4>3, LenProperties DEF Last, Detoured
    <3> QED BY <2>3, <3>1, <3>2, <3>3 DEF Detoured, Passing
  <2> QED BY <1>1, <1>4, <2>2, <2>3
<1>5. launcher = "returned" => game \in {"none", "ended"}
  BY DEF LoadingInv, GameInv
<1>6. ASSUME stage = "out", NEW f \in Functions \ (IF Complete THEN {} ELSE InputFunctions)
      PROVE  route[f] = Untouched(machine, f)
  BY <1>2, <1>6 DEF Free
<1> QED BY <1>3, <1>4, <1>5, <1>6 DEF NothingLeftBehind

(* Whatever a machine lacks, refuses or has patched already, and however    *)
(* often the game loads the library: when it is gone, no windows hook and   *)
(* no server remains, and calls of the functions of the system and of the   *)
(* windows pass nothing of it; calls of the input functions do not where    *)
(* both versions of DirectInput were there with all their creating          *)
(* functions (Complete), and the window procedure is the game's where the   *)
(* window functions can be patched.  Nothing is said of the input functions *)
(* of an incomplete machine, nor of the window procedure where they cannot. *)
(* No game is left suspended by a launcher that has returned.               *)
THEOREM LibraryLeavesNothing == LoadingSpec => []NothingLeftBehind
<1>1. LoadingInv /\ [LoadingNext]_loadingVars => LoadingInv'
  BY NextLoadingInv
<1> QED BY <1>1, InitLoadingInv, LoadingInvCleans, PTL DEF LoadingSpec
================================================================================
