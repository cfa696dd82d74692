------------------------------ MODULE MCProcesses ------------------------------
(***************************************************************************)
(* The two processes for TLC.  A behaviour is about one thing: the         *)
(* commands of the client's threads, the life of the two processes, or the *)
(* library in the game's process (the processes start where attaching      *)
(* ends).  What one of these changes, no step of the others reads.         *)
(***************************************************************************)
EXTENDS Bridge, Lifecycle, Loading

VARIABLE about

mcVars == <<vars, lifecycleVars, loadingVars, about>>

(* Machines on which everything is there, and those on which one thing or   *)
(* two are not.                                                             *)
Exports == {"Direct3DCreate9Ex", "DirectInput8Create", "DirectInputCreateA", "DirectInputCreateW"}
Unpatchable == {"Direct3DCreate9", "SetWindowLong", "GetCursorPos", "Acquire8", "DirectInputCreateW"}

MCMachines ==
  LET Whole(pump, hooks) ==
        [systemD3D9 |-> TRUE, helper |-> FALSE, missing |-> {}, refused |-> {}, foreign |-> {},
         directInput |-> [v \in {"dinput8", "dinput"} |-> TRUE],
         hookMessagePump |-> pump, overrideCustomWinHooks |-> hooks]
      Good == {Whole(pump, hooks) : pump, hooks \in BOOLEAN}
      Lacking == UNION {{[m EXCEPT !.missing = x, !.refused = r, !.foreign = f] :
                           x \in {{}} \cup {{e} : e \in Exports},
                           r \in {{}} \cup {{u} : u \in Unpatchable},
                           f \in {{}, {"DirectInput8Create"}, {"GetCursorPos"}}} : m \in Good}
  IN Lacking
     \cup {[m EXCEPT !.systemD3D9 = FALSE] : m \in Good}
     \cup {[m EXCEPT !.helper = TRUE] : m \in Good}
     \cup {[m EXCEPT !.directInput[v] = FALSE] : m \in Good, v \in {"dinput8", "dinput"}}

MCModulePath == <<"C:", "\\", "Game", "\\", "d3d9.dll">>

MCCommandLines ==
  {<<>>, <<"-i">>, <<"game.exe">>, <<"-i", "game.exe", "level">>, <<"-w", "folder", "game.exe">>,
   <<"-w", "nowhere", "game.exe">>, <<"-w", "nowhere", "-w", "folder", "-i", "game.exe">>}

--------------------------------------------------------------------------------
(* A behaviour leaves what it is not about as it is at first.               *)
MCInit ==
  /\ about \in {"commands", "processes", "library"}
  /\ Init /\ InitLifecycle /\ InitLoading
  /\ about = "processes" \/ timeouts
  /\ about = "library" \/ (argv = <<>> /\ machine.helper /\ ~machine.hookMessagePump
                            /\ ~machine.overrideCustomWinHooks)

Others(own) ==
  LET Kept(name, group) == IF name = own THEN TRUE ELSE UNCHANGED group
  IN /\ UNCHANGED about
     /\ Kept("commands", vars)
     /\ Kept("processes", lifecycleVars)
     /\ Kept("library", loadingVars)

MCNext ==
  \/ about = "commands" /\ Next /\ Others("commands")
  \/ about = "processes" /\ LifecycleNext /\ Others("processes")
  \/ about = "library" /\ LoadingNext /\ Others("library")

(* The fairness of FairSpec and LifecycleFairSpec, each in the behaviours   *)
(* that are about its component.                                            *)
Commanding(A) == about = "commands" /\ A
Living(A) == about = "processes" /\ A

MCFairSpec ==
  /\ MCInit /\ [][MCNext]_mcVars
  /\ WF_vars(Commanding(Process)) /\ \A t \in Threads : WF_vars(Commanding(Inside(t)))
  /\ WF_lifecycleVars(Living(SendSyn)) /\ WF_lifecycleVars(Living(AckArrives \/ AckTimesOut))
  /\ WF_lifecycleVars(Living(Continue)) /\ WF_lifecycleVars(Living(Answered \/ NoAnswer))
  /\ WF_lifecycleVars(Living(Unwatch)) /\ WF_lifecycleVars(Living(Terminate))
  /\ WF_lifecycleVars(Living(DoneArrives \/ DoneTimesOut)) /\ WF_lifecycleVars(Living(ReleaseModule))
  /\ WF_lifecycleVars(Living(OnServerExited)) /\ WF_lifecycleVars(Living(ExitClient))
  /\ WF_lifecycleVars(Living(ServerStep)) /\ WF_lifecycleVars(Living(OnClientExited))
  /\ WF_lifecycleVars(Living(ForceQuit))
================================================================================
