-------------------------------- MODULE MCScreen -------------------------------
(***************************************************************************)
(* Frames, what carries them and where they are shown, for TLC.  A         *)
(* behaviour is about one thing: the wait for the server in Present, the   *)
(* frame cap after it, the monitor's mode, the references and levels of    *)
(* one object, or the procedures and messages of the game's windows.  None *)
(* of these reads what another changes.                                    *)
(***************************************************************************)
EXTENDS PresentSync, Display, Interfaces, WindowProc

VARIABLE about

mcVars == <<vars, displayVars, pacerVars, interfaceVars, windowVars, about>>

(* A texture whose levels the game sees, and one whose levels it does not.  *)
MCDescs == {[levels |-> 2, autogen |-> FALSE], [levels |-> 2, autogen |-> TRUE]}

MCDesktop == [size |-> 1, rate |-> 60]

(* A behaviour leaves what it is not about as it is at first.               *)
MCInit ==
  /\ about \in {"present", "pacer", "display", "interfaces", "windows"}
  /\ Init /\ InitDisplay /\ InitPacer /\ InitInterfaces /\ InitWindows
  /\ about = "display" \/ (~forced /\ \A d \in Chains : ~keeps[d])
  /\ about = "interfaces" \/ (class = "IDirect3DQuery9" /\ ~ex)

Others(own) ==
  LET Kept(name, group) == IF name = own THEN TRUE ELSE UNCHANGED group
  IN /\ UNCHANGED about
     /\ Kept("present", vars)
     /\ Kept("pacer", pacerVars)
     /\ Kept("display", displayVars)
     /\ Kept("interfaces", interfaceVars)
     /\ Kept("windows", windowVars)

MCNext ==
  \/ about = "present" /\ Next /\ Others("present")
  \/ about = "pacer" /\ PacerNext /\ Others("pacer")
  \/ about = "display" /\ DisplayNext /\ Others("display")
  \/ about = "interfaces" /\ InterfacesNext /\ Others("interfaces")
  \/ about = "windows" /\ WindowNext /\ Others("windows")

(* The fairness of PresentSync's FairSpec; and the game's message loop goes *)
(* on.                                                                      *)
Presenting(A) == about = "present" /\ A

MCFairSpec ==
  /\ MCInit /\ [][MCNext]_mcVars
  /\ WF_vars(Presenting(Acquire)) /\ WF_vars(Presenting(WaitTimesOut)) /\ WF_vars(Presenting(Abort))
  /\ WF_vars(Presenting(ServerPresents)) /\ WF_vars(Presenting(OnServerExited))
  /\ WF_windowVars(about = "windows" /\ Dispatch)
================================================================================
