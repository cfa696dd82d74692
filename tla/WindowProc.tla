------------------------------ MODULE WindowProc ------------------------------
(***************************************************************************)
(* The window procedure of the game's window (client/window.cpp).  The     *)
(* client puts RemixWndProc in front of the game's procedure when a device *)
(* is created, keeps the game's procedure in g_gameWndProc, and hides the  *)
(* exchange from the game by detours of SetWindowLong and GetWindowLong.   *)
(* Creation and reset of a device run on the window's thread, as Direct3D  *)
(* asks, so each call here is one step.                                    *)
(***************************************************************************)
EXTENDS Naturals, Sequences

CONSTANTS
  Windows,    \* window handles; none is used again for another window
  Procs,      \* the game's window procedures
  Devices,    \* the game's devices
  Windowed,   \* those of them that are not full screen
  NoWindowChanges,  \* those made with D3DCREATE_NOWINDOWCHANGES
  MaxActs     \* activations and resizes by the user, at most

NoWindow == "no window"
NoProc == "no procedure"
NoDevice == "no device"
Remix == "RemixWndProc"

(* The game has a procedure for its windows, and none is the client's.      *)
ASSUME WindowAssumption == /\ Procs # {} /\ Remix \notin Procs /\ NoProc \notin Procs
                           /\ NoWindow \notin Windows

VARIABLES
  alive,                 \* windows that exist
  proc,                  \* per window: the procedure the system calls
  wanted,                \* per window: the procedure the game last asked for
  g_hwnd,                \* the window RemixWndProc is in front of
  g_gameWndProc,         \* the procedure it calls
  attached,              \* the detours are in place
  made,                  \* per device: its window
  gSwapChainMap,         \* per window: the device whose implicit swap chain presents to it
  g_bActivateProcessed,  \* the window was put in place since its activation
  posted,                \* messages on their way to the windows, oldest first
  acts                   \* what the user has done to them

windowVars == <<alive, proc, wanted, g_hwnd, g_gameWndProc, attached, made, gSwapChainMap,
                g_bActivateProcessed, posted, acts>>

InitWindows ==
  /\ alive = Windows
  /\ proc = [w \in Windows |-> CHOOSE p \in Procs : TRUE] /\ wanted = proc
  /\ g_hwnd = NoWindow /\ g_gameWndProc = NoProc
  /\ attached = FALSE
  /\ made = [d \in Devices |-> NoWindow]
  /\ gSwapChainMap = [w \in Windows |-> NoDevice]
  /\ g_bActivateProcessed = FALSE
  /\ posted = <<>> /\ acts = 0

--------------------------------------------------------------------------------
(* What set and unset change, as functions of it: a reset does one after    *)
(* the other.                                                               *)
Hook == [proc |-> proc, hwnd |-> g_hwnd, game |-> g_gameWndProc]

HookBecomes(h) == /\ proc' = h.proc /\ g_hwnd' = h.hwnd /\ g_gameWndProc' = h.game

(* SetWindowLong of the system: fails for a window that is gone.            *)
OrigSetWindowLong(h, w, p) == IF w \in alive THEN [h EXCEPT !.proc[w] = p] ELSE h

UnsetForgets(h) == [h EXCEPT !.hwnd = NoWindow, !.game = NoProc]

unset(h) == [OrigSetWindowLong(h, h.hwnd, h.game) EXCEPT !.hwnd = NoWindow, !.game = NoProc]

(* A second set takes the first back, whichever window it was for.          *)
set(h, w) ==
  LET implicit == h.game # NoProc \/ (h.hwnd # NoWindow /\ h.hwnd # w)
      u == IF implicit THEN unset(h) ELSE h
  IN [OrigSetWindowLong(u, w, Remix) EXCEPT
        !.hwnd = w, !.game = IF w \in alive THEN u.proc[w] ELSE NoProc]

isSet == g_hwnd # NoWindow /\ g_gameWndProc # NoProc

(* init() from RemixAttach, after which the game goes on if the detours     *)
(* fail; only a client with its detours is followed.                        *)
Attach ==
  /\ ~attached
  /\ attached' = TRUE
  /\ UNCHANGED <<alive, proc, wanted, g_hwnd, g_gameWndProc, made, gSwapChainMap,
                 g_bActivateProcessed, posted, acts>>

(* terminate() from RemixDetach: first the detours, then the procedure.     *)
Terminate ==
  /\ attached
  /\ attached' = FALSE
  /\ HookBecomes(IF g_gameWndProc = NoProc THEN Hook
                 ELSE IF g_hwnd \in alive THEN unset(Hook) ELSE [Hook EXCEPT !.game = NoProc])
  /\ UNCHANGED <<alive, wanted, made, gSwapChainMap, g_bActivateProcessed, posted, acts>>

--------------------------------------------------------------------------------
(* The device's constructor: set, ask the server, unset when it refuses or  *)
(* does not answer.  A device that was made has an implicit swap chain.     *)
CreateDevice(d, w, ok) ==
  /\ attached /\ made[d] = NoWindow /\ w \in alive
  /\ HookBecomes(IF ok THEN set(Hook, w) ELSE unset(set(Hook, w)))
  /\ made' = [made EXCEPT ![d] = IF ok THEN w ELSE @]
  /\ gSwapChainMap' = [gSwapChainMap EXCEPT ![w] = IF ok THEN d ELSE @]
  /\ UNCHANGED <<alive, wanted, attached, g_bActivateProcessed, posted, acts>>

(* ~Direct3DSwapChain9_LSS leaves an entry another chain has taken over.    *)
Unmapped(d) == [w \in Windows |-> IF w = made[d] /\ gSwapChainMap[w] = d THEN NoDevice
                                  ELSE gSwapChainMap[w]]

(* Reset and ResetEx: the implicit chain goes, its window may be another    *)
(* one afterwards.  unset with no window set changes nothing.               *)
Reset(d, w) ==
  /\ attached /\ made[d] # NoWindow /\ w \in alive
  /\ HookBecomes(set(unset(Hook), w))
  /\ made' = [made EXCEPT ![d] = w]
  /\ gSwapChainMap' = [Unmapped(d) EXCEPT ![w] = d]
  /\ UNCHANGED <<alive, wanted, attached, g_bActivateProcessed, posted, acts>>

(* The last Release of a device leaves RemixWndProc where it is.            *)
ReleaseDevice(d) ==
  /\ made[d] # NoWindow
  /\ made' = [made EXCEPT ![d] = NoWindow]
  /\ gSwapChainMap' = Unmapped(d)
  /\ UNCHANGED <<alive, proc, wanted, g_hwnd, g_gameWndProc, attached, g_bActivateProcessed,
                 posted, acts>>

--------------------------------------------------------------------------------
(* The game replaces the procedure of a window.                             *)
NewSetWindowLong(w, p) ==
  /\ w \in alive
  /\ HookBecomes(IF attached /\ isSet /\ w = g_hwnd THEN [Hook EXCEPT !.game = p]
                 ELSE OrigSetWindowLong(Hook, w, p))
  /\ wanted' = [wanted EXCEPT ![w] = p]
  /\ UNCHANGED <<alive, attached, made, gSwapChainMap, g_bActivateProcessed, posted, acts>>

(* What the game is told the procedure is.                                  *)
NewGetWindowLong(w) == IF attached /\ isSet /\ w = g_hwnd THEN g_gameWndProc ELSE proc[w]

(* The procedure of the game that a message to a window ends at when        *)
(* RemixWndProc does not swallow it.                                        *)
Called(w) == IF proc[w] = Remix THEN g_gameWndProc ELSE proc[w]

(* windowMsg places the window: its device was not made to leave it alone.  *)
Placed(w) == proc[w] = Remix /\ gSwapChainMap[w] \in Devices \ NoWindowChanges

FollowsAlways(w, msg) ==
  LET d == gSwapChainMap[w] IN
  IF ~Placed(w) THEN {<<>>}
  ELSE CASE msg = "activate" /\ d \notin Windowed -> {<<>>, <<<<w, "size">>>>}
         [] msg = "size" -> {<<>>, <<<<w, "activate">>>>}
         [] OTHER -> {<<>>}

--------------------------------------------------------------------------------
(* windowMsg, for messages that pass RemixWndProc: a full screen window is  *)
(* put in place once per activation, which may resize it, and every resize  *)
(* is answered with an activation.                                          *)
Follows(w, msg) ==
  LET d == gSwapChainMap[w] IN
  IF ~Placed(w) THEN {<<>>}
  ELSE CASE msg = "activate" /\ d \notin Windowed /\ ~g_bActivateProcessed -> {<<>>, <<<<w, "size">>>>}
         [] msg = "size" -> {<<>>, <<<<w, "activate">>>>}    \* none while it is an icon
         [] OTHER -> {<<>>}

ActivateProcessed(w, msg) ==
  IF Placed(w) /\ gSwapChainMap[w] \notin Windowed /\ msg \in {"activate", "deactivate"}
  THEN msg = "activate" ELSE g_bActivateProcessed

Dispatch ==
  /\ posted # <<>>
  /\ LET w == Head(posted)[1]
         msg == Head(posted)[2]
     IN /\ g_bActivateProcessed' = ActivateProcessed(w, msg)
        /\ \E more \in Follows(w, msg) : posted' = Tail(posted) \o more
  /\ UNCHANGED <<alive, proc, wanted, g_hwnd, g_gameWndProc, attached, made, gSwapChainMap, acts>>

(* The user activates, leaves or resizes a window.                          *)
UserActs(w, msg) ==
  /\ acts < MaxActs /\ w \in alive
  /\ acts' = acts + 1
  /\ posted' = Append(posted, <<w, msg>>)
  /\ UNCHANGED <<alive, proc, wanted, g_hwnd, g_gameWndProc, attached, made, gSwapChainMap,
                 g_bActivateProcessed>>

(* The game destroys a window: WM_DESTROY passes its procedure before the   *)
(* handle dies with the messages under way.                                 *)
DestroyWindow(w) ==
  /\ w \in alive
  /\ alive' = alive \ {w}
  /\ gSwapChainMap' = IF proc[w] = Remix THEN [gSwapChainMap EXCEPT ![w] = NoDevice] ELSE gSwapChainMap
  /\ posted' = SelectSeq(posted, LAMBDA m : m[1] # w)
  /\ UNCHANGED <<proc, wanted, g_hwnd, g_gameWndProc, attached, made, g_bActivateProcessed, acts>>

WindowNext ==
  \/ Attach \/ Terminate \/ Dispatch
  \/ \E d \in Devices : ReleaseDevice(d) \/ \E w \in Windows :
       Reset(d, w) \/ \E ok \in BOOLEAN : CreateDevice(d, w, ok)
  \/ \E w \in Windows :
       \/ DestroyWindow(w)
       \/ \E p \in Procs : NewSetWindowLong(w, p)
       \/ \E msg \in {"activate", "deactivate", "size"} : UserActs(w, msg)

WindowSpec == InitWindows /\ [][WindowNext]_windowVars

--------------------------------------------------------------------------------
(* Whatever devices come, fail, move to another window and go, and whenever *)
(* the game changes its procedures in between: a message to a window of the *)
(* game ends at the procedure the game last gave it, the game is told of no *)
(* other, and RemixWndProc never calls itself.                              *)
GameProcKept == \A w \in alive : Called(w) = wanted[w] /\ NewGetWindowLong(w) = wanted[w]

(* The activations that answer resizes and the resizes that answer          *)
(* activations come to an end once the user leaves the windows alone.       *)
Settles == <>[](posted = <<>>)
================================================================================
