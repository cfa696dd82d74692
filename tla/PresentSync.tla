------------------------------ MODULE PresentSync ------------------------------
(***************************************************************************)
(* The client is kept from running ahead of the server: Present sends its  *)
(* command, publishes it and waits for a permit of the Present semaphore   *)
(* (syncOnPresent, client/d3d9_device.cpp), which the server releases when *)
(* it has presented that frame or an earlier one (server/main.cpp).  The   *)
(* semaphore is a Windows semaphore: a release beyond its maximum is       *)
(* dropped (util/util_semaphore.cpp).                                      *)
(*                                                                         *)
(* Frames are counted; one thread presents.                                *)
(***************************************************************************)
EXTENDS Naturals

CONSTANTS
  MaxFrames,    \* presentSemaphoreMaxFrames, the semaphore's maximum
  MaxRetries,   \* commandRetries
  FrameBound    \* presents the game makes, at most

ASSUME PresentAssumption ==
  /\ MaxFrames \in 1 .. 255 /\ MaxRetries \in Nat /\ FrameBound \in Nat

VARIABLES
  pc,          \* the client: "idle" or "wait", inside syncOnPresent
  infinite,    \* this Present found infiniteRetries set: its retries do not run out
  numRetries,  \* waits of this Present that have failed
  running,     \* the client's gbBridgeRunning
  serverUp,    \* the server processes commands
  permits,     \* the semaphore's count
  sent,        \* Present commands sent
  presented,   \* Present commands the server has processed
  acquired,    \* permits the client has taken
  gaveUp,      \* Presents that returned without a permit
  dropped      \* releases beyond the maximum

vars == <<pc, infinite, numRetries, running, serverUp, permits, sent, presented, acquired, gaveUp, dropped>>

(* The client creates the semaphore, with no permit, before it launches the *)
(* server, whose initial count is ignored: it opens the existing one.       *)
Init ==
  /\ pc = "idle" /\ infinite = FALSE /\ numRetries = 0 /\ running = TRUE /\ serverUp = TRUE
  /\ permits = 0 /\ sent = 0 /\ presented = 0 /\ acquired = 0 /\ gaveUp = 0 /\ dropped = 0

(* The swap chain's Present.  With the bridge off it returns at once.       *)
(* getCommandRetries() is read once, the window being in focus or not.      *)
SwapChainPresent ==
  /\ pc = "idle" /\ running /\ sent < FrameBound
  /\ sent' = sent + 1
  /\ numRetries' = 0 /\ infinite' \in BOOLEAN
  /\ pc' = "wait"
  /\ UNCHANGED <<running, serverUp, permits, presented, acquired, gaveUp, dropped>>

(* The device's Present and PresentEx look at the bridge themselves and     *)
(* then present the implicit chain.                                         *)
Present == running /\ SwapChainPresent
PresentEx == running /\ SwapChainPresent

Acquire ==
  /\ pc = "wait" /\ running
  /\ permits > 0
  /\ permits' = permits - 1 /\ acquired' = acquired + 1
  /\ pc' = "idle"
  /\ UNCHANGED <<infinite, numRetries, running, serverUp, sent, presented, gaveUp, dropped>>

(* A wait lasts getSemaphoreTimeout(), which is never disabled.  The last   *)
(* retry gives up; infinite retries only look at the bridge again.          *)
WaitTimesOut ==
  /\ pc = "wait" /\ running
  /\ permits = 0
  /\ IF infinite
     THEN UNCHANGED <<numRetries, pc, gaveUp>>
     ELSE IF numRetries < MaxRetries
     THEN numRetries' = numRetries + 1 /\ UNCHANGED <<pc, gaveUp>>
     ELSE pc' = "idle" /\ gaveUp' = gaveUp + 1 /\ UNCHANGED numRetries
  /\ UNCHANGED <<infinite, running, serverUp, permits, sent, presented, acquired, dropped>>

(* Variant with a bug: infinite retries do not look at the bridge. *)
AbortUnlessInfinite ==
  /\ pc = "wait" /\ ~running
  /\ ~infinite
  /\ pc' = "idle" /\ gaveUp' = gaveUp + 1
  /\ UNCHANGED <<infinite, numRetries, running, serverUp, permits, sent, presented, acquired, dropped>>

(* The bridge was turned off while the client waited. *)
Abort ==
  /\ pc = "wait" /\ ~running
  /\ pc' = "idle" /\ gaveUp' = gaveUp + 1
  /\ UNCHANGED <<infinite, numRetries, running, serverUp, permits, sent, presented, acquired, dropped>>

(* Variant with a bug: the semaphore is released when the Present arrives   *)
(* and again when it is done.                                               *)
ServerReleasesTwice ==
  /\ serverUp /\ presented < sent
  /\ presented' = presented + 1
  /\ IF permits + 1 < MaxFrames
     THEN permits' = permits + 2 /\ UNCHANGED dropped
     ELSE dropped' = dropped + 1 /\ UNCHANGED permits
  /\ UNCHANGED <<pc, infinite, numRetries, running, serverUp, sent, acquired, gaveUp>>

(* The server processes a Present: it presents, whether or not that         *)
(* succeeds, and releases the semaphore.                                    *)
ServerPresents ==
  /\ serverUp /\ presented < sent
  /\ presented' = presented + 1
  /\ IF permits < MaxFrames
     THEN permits' = permits + 1 /\ UNCHANGED dropped
     ELSE dropped' = dropped + 1 /\ UNCHANGED permits
  /\ UNCHANGED <<pc, infinite, numRetries, running, serverUp, sent, acquired, gaveUp>>

(* The server's process ends... *)
ServerExits ==
  /\ serverUp
  /\ serverUp' = FALSE
  /\ UNCHANGED <<pc, infinite, numRetries, running, permits, sent, presented, acquired, gaveUp, dropped>>

(* ...and OnServerExited turns the bridge off. *)
OnServerExited ==
  /\ ~serverUp /\ running
  /\ running' = FALSE
  /\ UNCHANGED <<pc, infinite, numRetries, serverUp, permits, sent, presented, acquired, gaveUp, dropped>>

Next ==
  \/ Present \/ PresentEx \/ SwapChainPresent \/ Acquire \/ WaitTimesOut \/ Abort
  \/ ServerPresents \/ ServerExits \/ OnServerExited

Spec == Init /\ [][Next]_vars

(* The waiting thread, the server and the exit callback keep running; the   *)
(* game need not present and the server need not exit.                      *)
FairSpec ==
  /\ Spec
  /\ WF_vars(Acquire) /\ WF_vars(WaitTimesOut) /\ WF_vars(Abort)
  /\ WF_vars(ServerPresents) /\ WF_vars(OnServerExited)

---------------------------------------------------------------------------
(* Properties *)

Waiting == IF pc = "wait" THEN 1 ELSE 0

TypeOK ==
  /\ pc \in {"idle", "wait"} /\ numRetries \in 0 .. MaxRetries
  /\ running \in BOOLEAN /\ serverUp \in BOOLEAN /\ infinite \in BOOLEAN
  /\ permits \in 0 .. MaxFrames
  /\ sent \in Nat /\ presented \in Nat
  /\ acquired \in Nat /\ gaveUp \in Nat /\ dropped \in Nat

(* Every permit stands for a frame the server has presented: none is made   *)
(* up and none is lost but those the full semaphore dropped.                *)
PermitsAccounted == presented = acquired + permits + dropped

(* The client is ahead of the server by the frame it waits for and by one   *)
(* for each Present that gave up, never by more.  The semaphore starts with *)
(* no permit, so that this holds whatever presentSemaphoreMaxFrames, which  *)
(* the documentation says is how far ahead the client may be.               *)
FrameLead == sent <= presented + gaveUp + Waiting

(* presentSemaphoreMaxFrames is "the maximum latency in number of frames    *)
(* the client can be ahead of the server before it blocks": a Present that  *)
(* waits for a permit is that many frames ahead of a server that is up.     *)
BlocksAtMaxFrames ==
  pc = "wait" /\ permits = 0 /\ running /\ serverUp => sent - presented >= MaxFrames

(* Every Present returns, also when the server dies while it waits and no   *)
(* retry runs out.                                                          *)
PresentReturns == (pc = "wait") ~> (pc = "idle")

(* The inductive invariant: every Present ended with a permit or gave up,   *)
(* but the one that waits, and the server presents only what was sent.      *)
IInv ==
  /\ TypeOK
  /\ PermitsAccounted
  /\ sent = acquired + gaveUp + Waiting
  /\ presented <= sent
================================================================================
