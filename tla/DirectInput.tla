----------------------------- MODULE DirectInput ------------------------------
(***************************************************************************)
(* The hooks of DirectInput (client/di_hook.cpp).  A device the game has   *)
(* acquired exclusively keeps its input from the window, so the client     *)
(* forwards it to the renderer's UI; while the UI is active the client     *)
(* takes the devices out of exclusive mode, and the game gets no input.    *)
(* One device of each type, of one version of the interface.  DirectInput  *)
(* itself is external: it may refuse any level it is asked to set, which   *)
(* the code never looks at.                                                *)
(***************************************************************************)
EXTENDS Naturals

CONSTANTS
  DeviceType,            \* "Mouse" and "Keyboard"
  Policy,                \* per type: the option client.DirectInput.forward
  DisableExclusiveInput  \* the option client.DirectInput.disableExclusiveInput

Levels == {"exclusive", "nonexclusive"}

kDefaultCooperativeLevel == "nonexclusive"

VARIABLES
  m_state,             \* RemixState: the UI is active
  level,               \* external, per device: its cooperative level
  acquired,            \* external, per device: the game has it
  owned,               \* MouseDevice and KeyboardDevice: the device the hooks know of
  ogCooperativeLevel,  \* the level the game asked of a device the hooks knew of
  ExclusiveMode,       \* the last level set, or "unset"
  s_bIsExclusive,      \* the forwarder's belief
  s_hwnd,              \* the forwarder has a window
  s_KS,                \* the device is as the forwarder last saw it: s_KS, s_mouseButtons
  stateUsed,           \* MouseDeviceStateUsed and KeyboardDeviceStateUsed
  relevelled,          \* history: the game set the level of a device it had while the UI was active
  refused              \* history: DirectInput refused the last level asked of the device

inputVars == <<m_state, level, acquired, owned, ogCooperativeLevel, ExclusiveMode, s_bIsExclusive,
               s_hwnd, s_KS, stateUsed, relevelled, refused>>

All(x) == [d \in DeviceType |-> x]

InitDirectInput ==
  /\ m_state = FALSE
  /\ level = All(kDefaultCooperativeLevel) /\ acquired = All(FALSE) /\ owned = All(FALSE)
  /\ ogCooperativeLevel = All(kDefaultCooperativeLevel) /\ ExclusiveMode = All("unset")
  /\ s_bIsExclusive = All(FALSE) /\ s_hwnd = FALSE
  /\ s_KS = All(TRUE) /\ stateUsed = All(FALSE)
  /\ relevelled = All(FALSE) /\ refused = All(FALSE)

(* evaluatePolicy: what is forwarded, given the UI.                         *)
evaluatePolicy(d) == \/ Policy[d] = "Always"
                     \/ Policy[d] # "Never" /\ (Policy[d] = "RemixUIActive") = m_state

(* forwardMessage hands a message to remixMsg or drops it.                  *)
Forwards(d) == s_bIsExclusive[d] /\ evaluatePolicy(d)

(* DInputSetDefaultWindow, when a window procedure was set: exclusive until *)
(* an acquisition shows otherwise.                                          *)
DInputSetDefaultWindow ==
  /\ s_hwnd' = TRUE
  /\ s_bIsExclusive' = All(TRUE)
  /\ UNCHANGED <<m_state, level, acquired, owned, ogCooperativeLevel, ExclusiveMode, s_KS,
                 stateUsed, relevelled, refused>>

(* Whether DirectInput takes the level or not (ok), the hooks note it.      *)
HookedSetCooperativeLevel(d, l, ok) ==
  LET given == IF DisableExclusiveInput THEN "nonexclusive" ELSE l IN
  /\ ogCooperativeLevel' = [ogCooperativeLevel EXCEPT ![d] = IF owned[d] THEN l ELSE @]
  /\ ExclusiveMode' = [ExclusiveMode EXCEPT ![d] = given]
  /\ level' = [level EXCEPT ![d] = IF ok THEN given ELSE @]
  /\ refused' = [refused EXCEPT ![d] = ~ok]
  /\ relevelled' = [relevelled EXCEPT ![d] = @ \/ (owned[d] /\ m_state)]
  /\ UNCHANGED <<m_state, acquired, owned, s_bIsExclusive, s_hwnd, s_KS, stateUsed>>

AcquireOriginalLevel(d, ok) ==
  /\ acquired' = [acquired EXCEPT ![d] = @ \/ ok]
  /\ owned' = [owned EXCEPT ![d] = TRUE]
  /\ s_bIsExclusive' = IF ~owned[d] /\ ExclusiveMode[d] # "unset"
                       THEN [s_bIsExclusive EXCEPT ![d] = (ogCooperativeLevel[d] = "exclusive")]
                       ELSE s_bIsExclusive
  /\ UNCHANGED <<m_state, level, ogCooperativeLevel, ExclusiveMode, s_hwnd, s_KS, stateUsed,
                 relevelled, refused>>

(* The hooks take the device for theirs whether or not the call succeeds,   *)
(* and look at its level only when they did not have it.                    *)
HookedAcquire(d, ok) ==
  /\ acquired' = [acquired EXCEPT ![d] = @ \/ ok]
  /\ owned' = [owned EXCEPT ![d] = TRUE]
  /\ s_bIsExclusive' = IF ~owned[d] /\ ExclusiveMode[d] # "unset"
                       THEN [s_bIsExclusive EXCEPT ![d] = (ExclusiveMode[d] = "exclusive")]
                       ELSE s_bIsExclusive
  /\ UNCHANGED <<m_state, level, ogCooperativeLevel, ExclusiveMode, s_hwnd, s_KS, stateUsed,
                 relevelled, refused>>

HookedUnacquire(d) ==
  /\ acquired[d] \/ owned[d]
  /\ acquired' = [acquired EXCEPT ![d] = FALSE]
  /\ owned' = [owned EXCEPT ![d] = FALSE]
  /\ relevelled' = [relevelled EXCEPT ![d] = FALSE]
  /\ UNCHANGED <<m_state, level, ogCooperativeLevel, ExclusiveMode, s_bIsExclusive, s_hwnd,
                 s_KS, stateUsed, refused>>

(* External: the system takes a device away, no hook sees it.               *)
LoseDevice(d) ==
  /\ acquired[d]
  /\ acquired' = [acquired EXCEPT ![d] = FALSE]
  /\ UNCHANGED <<m_state, level, owned, ogCooperativeLevel, ExclusiveMode, s_bIsExclusive, s_hwnd,
                 s_KS, stateUsed, relevelled, refused>>

(* The user presses or lets go, or moves.                                   *)
Change(d) ==
  /\ s_KS' = [s_KS EXCEPT ![d] = FALSE]
  /\ UNCHANGED <<m_state, level, acquired, owned, ogCooperativeLevel, ExclusiveMode, s_bIsExclusive,
                 s_hwnd, stateUsed, relevelled, refused>>

(* updateKeyState and updateMouseState: the forwarder keeps what it saw and *)
(* forwards what changed.                                                   *)
UpdateState(d) == s_KS' = [s_KS EXCEPT ![d] = TRUE]

(* HookedGetDeviceState forwards and then wipes what the game gets; a game  *)
(* that also reads the buffered data has that forwarded no more.            *)
HookedGetDeviceState(d) ==
  /\ acquired[d]
  /\ UpdateState(d)
  /\ stateUsed' = [stateUsed EXCEPT ![d] = TRUE]
  /\ UNCHANGED <<m_state, level, acquired, owned, ogCooperativeLevel, ExclusiveMode, s_bIsExclusive,
                 s_hwnd, relevelled, refused>>

HookedGetDeviceData(d) ==
  /\ acquired[d]
  /\ owned[d] /\ ~stateUsed[d]
  /\ UpdateState(d)
  /\ UNCHANGED <<m_state, level, acquired, owned, ogCooperativeLevel, ExclusiveMode, s_bIsExclusive,
                 s_hwnd, stateUsed, relevelled, refused>>

(* unsetCooperativeLevel and resetCooperativeLevel, of the devices the      *)
(* hooks know of; some of them take the level (takers), and ExclusiveMode   *)
(* is set all the same.  The forwarder's belief stays as it is.             *)
SetLevels(l) ==
  LET asked == {d \in DeviceType : s_hwnd /\ owned[d]} IN
  \E takers \in SUBSET asked :
    /\ level' = [d \in DeviceType |-> IF d \in takers THEN l[d] ELSE level[d]]
    /\ refused' = [d \in DeviceType |-> IF d \in asked THEN d \notin takers ELSE refused[d]]
    /\ ExclusiveMode' = [d \in DeviceType |-> IF d \in asked THEN l[d] ELSE ExclusiveMode[d]]

(* RemixState's handler of the renderer's message.                          *)
OnUIActive(active) ==
  /\ m_state' = active
  /\ SetLevels(IF active THEN All(kDefaultCooperativeLevel) ELSE ogCooperativeLevel)
  /\ relevelled' = IF active /\ ~m_state THEN All(FALSE) ELSE relevelled
  /\ UNCHANGED <<acquired, owned, ogCooperativeLevel, s_bIsExclusive, s_hwnd, s_KS, stateUsed>>

DeviceNext ==
  \E d \in DeviceType :
    \/ \E l \in Levels, ok \in BOOLEAN : HookedSetCooperativeLevel(d, l, ok)
    \/ \E ok \in BOOLEAN : HookedAcquire(d, ok)
    \/ HookedUnacquire(d) \/ LoseDevice(d) \/ Change(d)
    \/ HookedGetDeviceState(d) \/ HookedGetDeviceData(d)

--------------------------------------------------------------------------------
(* The device keeps its input from the window, and the hooks forward none.  *)
Deaf(d) == m_state /\ acquired[d] /\ level[d] = "exclusive" /\ ~Forwards(d)

(* While the UI is active, a device the game holds exclusively, so that the *)
(* window gets none of its input, is one whose input the hooks forward: a   *)
(* device taken for shared when it was acquired, and made exclusive by a UI *)
(* that closed, is shared again when the UI opens.  Not claimed of a device *)
(* whose level the game has set under the active UI, without acquiring it   *)
(* anew (relevelled), nor of one for which DirectInput has refused a level  *)
(* (refused): the results are not looked at, and the UI is deaf for both.   *)
UIHears == \A d \in DeviceType : Deaf(d) => relevelled[d] \/ refused[d]
================================================================================
