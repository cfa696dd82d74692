--------------------------- MODULE WindowProcProofs ----------------------------
(***************************************************************************)
(* The client's window and input, for every value of the constants.  The   *)
(* game's procedure is kept, for any windows, procedures and devices; the  *)
(* UI hears every device the game holds; client and server agree on their  *)
(* retries, however focus changes race the messages; the game gets no      *)
(* input while the UI is active; the getters of the device answer what its *)
(* setters stored; a shader is copied to its end.                          *)
(***************************************************************************)
EXTENDS WindowProc, Input, Shadow, Shaders, SequenceTheorems, WellFoundedInduction, TLAPS

--------------------------------------------------------------------------------
(* The window procedure *)

(* What set, unset and the detours keep true of the window procedures: each *)
(* window that exists has the game's procedure, but for the one behind      *)
(* RemixWndProc, whose procedure is in g_gameWndProc.                       *)
HookType(h) == h \in [proc : [Windows -> Procs \cup {Remix}],
                      hwnd : Windows \cup {NoWindow}, game : Procs \cup {NoProc}]

Kept(h) == \A w \in alive : IF w = h.hwnd THEN h.proc[w] = Remix /\ h.game = wanted[w]
                                          ELSE h.proc[w] = wanted[w]

HookInv ==
  /\ alive \subseteq Windows /\ wanted \in [Windows -> Procs]
  /\ HookType(Hook) /\ Kept(Hook)
  /\ ~attached => g_hwnd \notin alive

(* unset leaves no window behind RemixWndProc.                              *)
LEMMA UnsetKeeps ==
  ASSUME NEW h, HookType(h), Kept(h), alive \subseteq Windows, wanted \in [Windows -> Procs]
  PROVE  HookType(unset(h)) /\ Kept(unset(h)) /\ unset(h).hwnd = NoWindow
BY WindowAssumption DEF HookType, Kept, unset, OrigSetWindowLong

(* set leaves the window it was asked for behind RemixWndProc and the one   *)
(* before it as the game wants it.                                          *)
LEMMA SetKeeps ==
  ASSUME NEW h, HookType(h), Kept(h), alive \subseteq Windows, wanted \in [Windows -> Procs],
         NEW w \in alive
  PROVE  HookType(set(h, w)) /\ Kept(set(h, w))
<1> DEFINE implicit == h.game # NoProc \/ (h.hwnd # NoWindow /\ h.hwnd # w)
           u == IF implicit THEN unset(h) ELSE h
<1>1. HookType(u) /\ Kept(u) /\ (u.hwnd \notin alive)
  <2>1. CASE implicit
    BY <2>1, UnsetKeeps, WindowAssumption
  <2>2. CASE ~implicit
    BY <2>2, WindowAssumption DEF HookType, Kept
  <2> QED BY <2>1, <2>2
<1> HIDE DEF u
<1>2. set(h, w) = [proc |-> [u.proc EXCEPT ![w] = Remix], hwnd |-> w, game |-> u.proc[w]]
  <2>1. set(h, w) = [OrigSetWindowLong(u, w, Remix) EXCEPT !.hwnd = w, !.game = u.proc[w]]
    BY DEF set, u
  <2>2. OrigSetWindowLong(u, w, Remix) = [u EXCEPT !.proc[w] = Remix]
    BY DEF OrigSetWindowLong
  <2> QED BY <1>1, <2>1, <2>2 DEF HookType
<1>3. u.proc[w] = wanted[w] /\ wanted[w] \in Procs
  BY <1>1 DEF Kept
<1>4. HookType(set(h, w))
  BY <1>1, <1>2, <1>3 DEF HookType
<1>5. Kept(set(h, w))
  BY <1>1, <1>2, <1>3 DEF HookType, Kept
<1> QED BY <1>4, <1>5

--------------------------------------------------------------------------------
(* No window is hooked at the start.                                        *)
LEMMA HookInvInit == InitWindows => HookInv
<1> SUFFICES ASSUME InitWindows PROVE HookInv
  OBVIOUS
<1>1. (CHOOSE p \in Procs : TRUE) \in Procs
  BY WindowAssumption
<1>2. HookType(Hook)
  BY <1>1 DEF InitWindows, HookType, Hook
<1>3. Kept(Hook) /\ wanted \in [Windows -> Procs] /\ g_hwnd \notin alive
  BY <1>1, WindowAssumption DEF InitWindows, Kept, Hook
<1> QED BY <1>2, <1>3 DEF InitWindows, HookInv

(* A step that gives the hook a value that keeps the game's procedures, and *)
(* leaves the rest alone, keeps the invariant.                              *)
LEMMA HookStep ==
  ASSUME HookInv, NEW h, HookType(h), Kept(h), HookBecomes(h),
         UNCHANGED <<alive, wanted>>, ~attached' => h.hwnd \notin alive
  PROVE  HookInv'
<1>1. Hook' = h
  BY DEF HookBecomes, Hook, HookType
<1>2. HookType(Hook)' /\ Kept(Hook)'
  BY <1>1 DEF HookType, Kept
<1> QED BY <1>1, <1>2 DEF HookInv, HookBecomes

(* Every step keeps the hook on a window that lives.                        *)
LEMMA HookInvNext == HookInv /\ [WindowNext]_windowVars => HookInv'
<1> SUFFICES ASSUME HookInv, [WindowNext]_windowVars PROVE HookInv'
  OBVIOUS
<1> USE DEF HookInv
<1>1. CASE Terminate
  <2> DEFINE h == IF g_gameWndProc = NoProc THEN Hook
                  ELSE IF g_hwnd \in alive THEN unset(Hook) ELSE [Hook EXCEPT !.game = NoProc]
  <2>1. HookType(h) /\ Kept(h) /\ h.hwnd \notin alive
    <3>1. CASE g_gameWndProc = NoProc
      BY <3>1, WindowAssumption DEF HookType, Kept, Hook
    <3>2. CASE g_gameWndProc # NoProc /\ g_hwnd \in alive
      BY <3>2, UnsetKeeps, WindowAssumption
    <3>3. CASE g_gameWndProc # NoProc /\ g_hwnd \notin alive
      BY <3>3 DEF HookType, Kept, Hook
    <3> QED BY <3>1, <3>2, <3>3
  <2> HIDE DEF h
  <2>2. HookBecomes(h) /\ UNCHANGED <<alive, wanted>>
    BY <1>1 DEF Terminate, h
  <2> QED BY <2>1, <2>2, HookStep
<1>2. ASSUME NEW d \in Devices, NEW w \in Windows, NEW ok \in BOOLEAN, CreateDevice(d, w, ok)
      PROVE  HookInv'
  <2> DEFINE h == IF ok THEN set(Hook, w) ELSE unset(set(Hook, w))
  <2>1. HookType(h) /\ Kept(h)
    BY <1>2, SetKeeps, UnsetKeeps DEF CreateDevice
  <2> HIDE DEF h
  <2>2. HookBecomes(h) /\ UNCHANGED <<alive, wanted>> /\ attached'
    BY <1>2 DEF CreateDevice, h
  <2> QED BY <2>1, <2>2, HookStep
<1>3. ASSUME NEW d \in Devices, NEW w \in Windows, Reset(d, w)
      PROVE  HookInv'
  <2> DEFINE h == set(unset(Hook), w)
  <2>1. HookType(h) /\ Kept(h)
    BY <1>3, SetKeeps, UnsetKeeps DEF Reset
  <2> HIDE DEF h
  <2>2. HookBecomes(h) /\ UNCHANGED <<alive, wanted>> /\ attached'
    BY <1>3 DEF Reset, h
  <2> QED BY <2>1, <2>2, HookStep
<1>4. ASSUME NEW w \in Windows, NEW p \in Procs, NewSetWindowLong(w, p)
      PROVE  HookInv'
  <2> USE <1>4 DEF NewSetWindowLong, HookBecomes
  <2>0. wanted' \in [Windows -> Procs] /\ alive' = alive /\ attached' = attached
    OBVIOUS
  <2>1. CASE attached /\ isSet /\ w = g_hwnd
    BY <2>0, <2>1 DEF HookType, Kept, Hook
  <2>2. CASE ~(attached /\ isSet /\ w = g_hwnd)
    <3>1. w # g_hwnd
      BY <2>2, WindowAssumption DEF Kept, Hook, isSet
    <3>2. proc' = [proc EXCEPT ![w] = p] /\ g_hwnd' = g_hwnd /\ g_gameWndProc' = g_gameWndProc
      BY <2>2 DEF OrigSetWindowLong, Hook
    <3> QED BY <2>0, <3>1, <3>2 DEF HookType, Kept, Hook
  <2> QED BY <2>1, <2>2
<1>5. CASE UNCHANGED <<proc, wanted, g_hwnd, g_gameWndProc>> /\ alive' \subseteq alive
           /\ (attached' = attached \/ attached')
  BY <1>5 DEF HookType, Kept, Hook
<1>6. ASSUME NEW w \in Windows, DestroyWindow(w) PROVE HookInv'
  BY <1>5, <1>6 DEF DestroyWindow
<1>7. CASE Attach \/ Dispatch \/ UNCHANGED windowVars
  BY <1>5, <1>7 DEF Attach, Dispatch, windowVars
<1>8. ASSUME NEW d \in Devices, ReleaseDevice(d) PROVE HookInv'
  BY <1>5, <1>8 DEF ReleaseDevice
<1>9. ASSUME NEW w \in Windows, NEW msg, UserActs(w, msg) PROVE HookInv'
  BY <1>5, <1>9 DEF UserActs
<1> QED BY <1>1, <1>2, <1>3, <1>4, <1>6, <1>7, <1>8, <1>9 DEF WindowNext

(* RemixWndProc and the two detours keep the game's window procedures, for  *)
(* any number of windows, procedures and devices: every message ends at the *)
(* procedure the game last asked for and the game is told of no other       *)
(* (window.cpp, set, unset, NewSetWindowLong and NewGetWindowLong).         *)
THEOREM WindowProcedureKept == WindowSpec => []GameProcKept
<1>1. HookInv => GameProcKept
  BY WindowAssumption DEF HookInv, HookType, Kept, Hook, GameProcKept, Called, NewGetWindowLong, isSet
<1> QED BY <1>1, HookInvInit, HookInvNext, PTL DEF WindowSpec

--------------------------------------------------------------------------------
(* The devices of DirectInput *)

DeviceTypeInv ==
  /\ m_state \in BOOLEAN /\ s_hwnd \in BOOLEAN
  /\ level \in [DeviceType -> Levels] /\ ogCooperativeLevel \in [DeviceType -> Levels]
  /\ ExclusiveMode \in [DeviceType -> Levels \cup {"unset"}]
  /\ acquired \in [DeviceType -> BOOLEAN] /\ owned \in [DeviceType -> BOOLEAN]
  /\ s_bIsExclusive \in [DeviceType -> BOOLEAN]
  /\ relevelled \in [DeviceType -> BOOLEAN] /\ refused \in [DeviceType -> BOOLEAN]

(* The hooks know every device the game has and the level it was given,     *)
(* unless it was refused; and while the UI is active they believe the       *)
(* devices exclusive that are.                                              *)
BeliefInv ==
  /\ m_state => s_hwnd
  /\ \A d \in DeviceType :
       /\ acquired[d] => owned[d]
       /\ level[d] = "exclusive" => ExclusiveMode[d] = "exclusive" \/ refused[d]
       /\ m_state /\ owned[d] /\ level[d] = "exclusive"
            => s_bIsExclusive[d] \/ relevelled[d] \/ refused[d]

(* The inductive invariant of the hooks of DirectInput.                     *)
DevicesInv == DeviceTypeInv /\ BeliefInv

(* Every step of the game, the window or the renderer keeps it.             *)
LEMMA NextDevicesInv == DevicesInv /\ [DevicesNext]_allInputVars => DevicesInv'
<1> SUFFICES ASSUME DevicesInv, [DevicesNext]_allInputVars PROVE DevicesInv'
  OBVIOUS
<1> USE DEF DevicesInv, Levels
<1>1. ASSUME NEW d \in DeviceType, NEW l \in Levels, NEW ok \in BOOLEAN, HookedSetCooperativeLevel(d, l, ok)
      PROVE  DevicesInv'
  <2> DEFINE given == IF DisableExclusiveInput THEN "nonexclusive" ELSE l
  <2>0. given \in Levels
    OBVIOUS
  <2>1. /\ ogCooperativeLevel' = [ogCooperativeLevel EXCEPT ![d] = IF owned[d] THEN l ELSE @]
        /\ ExclusiveMode' = [ExclusiveMode EXCEPT ![d] = given]
        /\ level' = [level EXCEPT ![d] = IF ok THEN given ELSE @]
        /\ refused' = [refused EXCEPT ![d] = ~ok]
        /\ relevelled' = [relevelled EXCEPT ![d] = @ \/ (owned[d] /\ m_state)]
        /\ UNCHANGED <<m_state, acquired, owned, s_bIsExclusive, s_hwnd>>
    BY <1>1 DEF HookedSetCooperativeLevel
  <2> HIDE DEF given
  <2>2. DeviceTypeInv'
    <3>1. (IF owned[d] THEN l ELSE ogCooperativeLevel[d]) \in Levels
      BY DEF DeviceTypeInv
    <3>2. (IF ok THEN given ELSE level[d]) \in Levels
      BY <2>0 DEF DeviceTypeInv
    <3> QED BY <2>0, <2>1, <3>1, <3>2 DEF DeviceTypeInv
  <2>3. BeliefInv'
    BY <2>1 DEF DeviceTypeInv, BeliefInv
  <2> QED BY <2>2, <2>3
<1>2. ASSUME NEW d \in DeviceType, NEW ok \in BOOLEAN, HookedAcquire(d, ok) PROVE DevicesInv'
  <2>1. DeviceTypeInv'
    BY <1>2 DEF HookedAcquire, DeviceTypeInv
  <2>2. BeliefInv'
    BY <1>2 DEF HookedAcquire, DeviceTypeInv, BeliefInv
  <2> QED BY <2>1, <2>2
<1>3. ASSUME NEW d \in DeviceType, HookedUnacquire(d) PROVE DevicesInv'
  BY <1>3 DEF HookedUnacquire, DeviceTypeInv, BeliefInv
<1>4. ASSUME NEW d \in DeviceType, LoseDevice(d) PROVE DevicesInv'
  BY <1>4 DEF LoseDevice, DeviceTypeInv, BeliefInv
<1>5. ASSUME NEW d \in DeviceType, Change(d) \/ HookedGetDeviceState(d) \/ HookedGetDeviceData(d)
      PROVE  DevicesInv'
  BY <1>5 DEF Change, HookedGetDeviceState, HookedGetDeviceData, DeviceTypeInv, BeliefInv
<1>6. CASE DInputSetDefaultWindow
  BY <1>6 DEF DInputSetDefaultWindow, All, DeviceTypeInv, BeliefInv
<1>7. ASSUME s_hwnd, NEW active \in BOOLEAN, OnUIActive(active) PROVE DevicesInv'
  <2> DEFINE l == IF active THEN All(kDefaultCooperativeLevel) ELSE ogCooperativeLevel
  <2>0. PICK takers \in SUBSET {d \in DeviceType : s_hwnd /\ owned[d]} :
          /\ level' = [d \in DeviceType |-> IF d \in takers THEN l[d] ELSE level[d]]
          /\ refused' = [d \in DeviceType |-> IF s_hwnd /\ owned[d] THEN d \notin takers ELSE refused[d]]
          /\ ExclusiveMode' = [d \in DeviceType |-> IF s_hwnd /\ owned[d] THEN l[d] ELSE ExclusiveMode[d]]
    BY <1>7 DEF OnUIActive, SetLevels
  <2>1. /\ m_state' = active
        /\ level' = [d \in DeviceType |-> IF d \in takers THEN l[d] ELSE level[d]]
        /\ refused' = [d \in DeviceType |-> IF owned[d] THEN d \notin takers ELSE refused[d]]
        /\ ExclusiveMode' = [d \in DeviceType |-> IF owned[d] THEN l[d] ELSE ExclusiveMode[d]]
        /\ relevelled' = IF active /\ ~m_state THEN All(FALSE) ELSE relevelled
        /\ UNCHANGED <<acquired, owned, ogCooperativeLevel, s_bIsExclusive, s_hwnd>>
    BY <1>7, <2>0 DEF OnUIActive
  <2>2. l \in [DeviceType -> Levels] /\ (active => \A d \in DeviceType : l[d] = "nonexclusive")
    BY DEF All, kDefaultCooperativeLevel, DeviceTypeInv
  <2> HIDE DEF l
  <2>3. DeviceTypeInv'
    BY <2>1, <2>2 DEF DeviceTypeInv, All
  <2>4. BeliefInv'
    BY <1>7, <2>1, <2>2 DEF BeliefInv
  <2> QED BY <2>3, <2>4
<1>8. CASE UNCHANGED allInputVars
  BY <1>8 DEF allInputVars, inputVars, DeviceTypeInv, BeliefInv
<1> QED BY <1>1, <1>2, <1>3, <1>4, <1>5, <1>6, <1>7, <1>8 DEF DevicesNext, DeviceNext

(* UIHears, for any devices and whether or not exclusive input is disabled, *)
(* where the option forwards a device's input to an active UI (it does by   *)
(* default): the hooks of di_hook.cpp leave the UI deaf for no device whose *)
(* level DirectInput took when it was last asked and the game did not set   *)
(* under the active UI without acquiring the device anew.                   *)
THEOREM UIHearsDevices ==
  ASSUME \A d \in DeviceType : Policy[d] \in {"Always", "RemixUIActive"}
  PROVE  DevicesSpec => []UIHears
<1>1. InitInput => DevicesInv
  <2> SUFFICES ASSUME InitDirectInput PROVE DevicesInv
    BY DEF InitInput
  <2>1. DeviceTypeInv
    BY DEF InitDirectInput, All, kDefaultCooperativeLevel, DeviceTypeInv, Levels
  <2>2. BeliefInv
    BY DEF InitDirectInput, All, kDefaultCooperativeLevel, BeliefInv
  <2> QED BY <2>1, <2>2 DEF DevicesInv
<1>2. DevicesInv => UIHears
  BY DEF DevicesInv, DeviceTypeInv, BeliefInv, UIHears, Forwards, evaluatePolicy, Deaf
<1> QED BY <1>1, <1>2, NextDevicesInv, PTL DEF DevicesSpec

--------------------------------------------------------------------------------
(* The focus *)

FocusType ==
  /\ worker \in [Channels -> {"none", "started", "handshaking", "listening", "ended"}]
  /\ m_serverThreadId \in [Channels -> BOOLEAN]
  /\ inbox \in [Channels -> Seq({"killfocus", "setfocus"})]
  /\ DOMAIN m_handlers = {"client", "server"}
  /\ infiniteRetries \in [{"client", "server"} -> BOOLEAN]
  /\ missed \in BOOLEAN

(* The client learns of the server's worker when that has its handlers, and *)
(* only then registers its own.                                             *)
HandlersInv == m_serverThreadId["server"] => {"killfocus", "setfocus"} \subseteq m_handlers["server"]

PostedInv == inbox["server"] # <<>> => m_serverThreadId["server"]

(* The inductive invariant of the focus messages.                           *)
ChannelInv == FocusType /\ HandlersInv /\ PostedInv /\ FocusAgrees

(* What the server will have, from the end of its worker's inbox.           *)
WillHave(q, now) == IF q = <<>> THEN now ELSE q[Len(q)] = "killfocus"

(* It is what the model says it will have.                                  *)
LEMMA LastOneWins ==
  ASSUME NEW q \in Seq({"killfocus", "setfocus"}), NEW now
  PROVE  (LET focus == {i \in DOMAIN q : q[i] \in {"killfocus", "setfocus"}}
          IN IF focus = {} THEN now
             ELSE q[CHOOSE i \in focus : \A j \in focus : j <= i] = "killfocus") = WillHave(q, now)
<1> DEFINE focus == {i \in DOMAIN q : q[i] \in {"killfocus", "setfocus"}}
           n == Len(q)
<1>1. n \in Nat /\ focus = 1..n
  BY LenProperties, ElementOfSeq
<1>2. q = <<>> <=> n = 0
  BY EmptySeq
<1> HIDE DEF focus, n
<1>3. CASE n = 0
  BY <1>1, <1>2, <1>3 DEF WillHave, focus
<1>4. CASE n # 0
  <2>1. (CHOOSE i \in 1..n : \A j \in 1..n : j <= i) = n
    <3>1. n \in 1..n /\ \A j \in 1..n : j <= n
      BY <1>1, <1>4
    <3>2. \A i \in 1..n : (\A j \in 1..n : j <= i) => i = n
      BY <1>1, <1>4
    <3> QED BY <3>1, <3>2
  <2>2. focus # {}
    <3>1. 1 \in 1..n
      BY <1>1, <1>4
    <3> QED BY <1>1, <3>1
  <2> QED BY <1>1, <1>2, <1>4, <2>1, <2>2 DEF WillHave, focus, n
<1> QED BY <1>3, <1>4

(* What FocusAgrees says, with the last message named.                      *)
LEMMA Agreement ==
  ASSUME inbox["server"] \in Seq({"killfocus", "setfocus"})
  PROVE  ServerWillHave = WillHave(inbox["server"], infiniteRetries["server"])
BY LastOneWins DEF ServerWillHave

(* The same of the next state.                                              *)
LEMMA AgreementNext ==
  ASSUME inbox'["server"] \in Seq({"killfocus", "setfocus"})
  PROVE  ServerWillHave' = WillHave(inbox'["server"], infiniteRetries'["server"])
BY LastOneWins DEF ServerWillHave

(* Steps that leave the server's end of the channel alone.                  *)
LEMMA ChannelUntouched ==
  ASSUME ChannelInv, FocusType', UNCHANGED <<inbox, infiniteRetries, missed>>,
         worker'["server"] = worker["server"] \/ worker'["server"] = "ended" \/ worker["server"] # "ended",
         m_serverThreadId["server"] => m_serverThreadId'["server"], HandlersInv'
  PROVE  ChannelInv'
<1>1. PostedInv'
  BY DEF PostedInv, ChannelInv
<1>2. FocusAgrees'
  <2>1. ServerWillHave' = ServerWillHave
    BY DEF ServerWillHave
  <2> QED BY <2>1 DEF FocusAgrees, ChannelInv
<1> QED BY <1>1, <1>2 DEF ChannelInv

(* A focus change at the client: its option and the message agree.          *)
LEMMA FocusStep ==
  ASSUME ChannelInv, NEW m \in {"killfocus", "setfocus"}, m_serverThreadId["server"], OnFocus(m),
         UNCHANGED <<worker, m_serverThreadId, m_handlers>>
  PROVE  ChannelInv'
<1>1. CASE OnMessage("client", m)
  <2>1. /\ infiniteRetries' = [infiniteRetries EXCEPT !["client"] = (m = "killfocus")]
        /\ inbox' = Posted("server", m)
        /\ missed' = (missed \/ worker["server"] # "listening")
    BY <1>1 DEF OnFocus
  <2>2. inbox["server"] \in Seq({"killfocus", "setfocus"}) /\ "server" \in Channels
    BY DEF ChannelInv, FocusType, Channels
  <2>3. CASE worker["server"] = "listening"
    <3> DEFINE S == {"killfocus", "setfocus"}
    <3>1. inbox' = [inbox EXCEPT !["server"] = Append(@, m)]
      BY <2>1, <2>3 DEF Posted, CanPost
    <3>2. inbox'["server"] = Append(inbox["server"], m)
      BY <2>2, <3>1 DEF ChannelInv, FocusType
    <3>3. /\ inbox'["server"] \in Seq(S) /\ inbox'["server"] # <<>>
          /\ inbox'["server"][Len(inbox'["server"])] = m
      <4> HIDE DEF S
      <4>1. m \in S /\ inbox["server"] \in Seq(S)
        BY <2>2 DEF S
      <4> QED BY <3>2, <4>1, AppendProperties, LenProperties
    <3>4. infiniteRetries'["client"] = (m = "killfocus")
      BY <2>1 DEF ChannelInv, FocusType
    <3>5. ServerWillHave' = (m = "killfocus")
      BY <3>3, AgreementNext DEF WillHave
    <3>6. FocusType'
      <4>1. inbox' \in [Channels -> Seq(S)]
        BY <2>2, <3>1, <3>2, <3>3 DEF ChannelInv, FocusType
      <4>2. infiniteRetries' \in [{"client", "server"} -> BOOLEAN] /\ missed' \in BOOLEAN
        BY <2>1 DEF ChannelInv, FocusType
      <4> QED BY <4>1, <4>2 DEF ChannelInv, FocusType
    <3>7. HandlersInv' /\ PostedInv'
      BY DEF ChannelInv, HandlersInv, PostedInv
    <3> QED BY <3>4, <3>5, <3>6, <3>7 DEF ChannelInv, FocusAgrees
  <2>4. CASE worker["server"] # "listening"
    <3>1. UNCHANGED inbox /\ missed' = TRUE
      BY <2>1, <2>4 DEF Posted, CanPost
    <3>2. FocusType'
      <4>1. infiniteRetries' \in [{"client", "server"} -> BOOLEAN]
        BY <2>1 DEF ChannelInv, FocusType
      <4> QED BY <3>1, <4>1 DEF ChannelInv, FocusType
    <3>3. HandlersInv' /\ PostedInv'
      BY <3>1 DEF ChannelInv, HandlersInv, PostedInv
    <3> QED BY <3>1, <3>2, <3>3 DEF ChannelInv, FocusAgrees
  <2> QED BY <2>3, <2>4
<1>2. CASE ~OnMessage("client", m)
  <2>1. UNCHANGED <<infiniteRetries, inbox, missed>>
    BY <1>2 DEF OnFocus
  <2>2. FocusType' /\ HandlersInv'
    BY <2>1 DEF ChannelInv, FocusType, HandlersInv
  <2> QED BY <2>1, <2>2, ChannelUntouched
<1> QED BY <1>1, <1>2

(* The server's worker takes a message: the option becomes what the last    *)
(* message under way stood for.                                             *)
LEMMA TakeStep ==
  ASSUME ChannelInv, NEW c \in Channels, WorkerTakes(c)
  PROVE  ChannelInv'
<1> DEFINE S == {"killfocus", "setfocus"}
           q == inbox[c]
<1>0. q \in Seq(S) /\ q # <<>> /\ worker[c] = "listening"
  BY DEF ChannelInv, FocusType, WorkerTakes
<1>1. inbox' = [inbox EXCEPT ![c] = Tail(q)] /\ UNCHANGED <<worker, m_serverThreadId, m_handlers, missed>>
  BY DEF WorkerTakes
<1>2. /\ Tail(q) \in Seq(S) /\ Head(q) \in S /\ Head(q) = q[1]
      /\ Len(q) \in Nat \ {0} /\ Len(Tail(q)) = Len(q) - 1
      /\ \A i \in 1..Len(Tail(q)) : Tail(q)[i] = q[i + 1]
  <2> HIDE DEF S, q
  <2> QED BY <1>0, HeadTailProperties, LenProperties, EmptySeq
<1>3. inbox' \in [Channels -> Seq(S)]
  <2> HIDE DEF S
  <2>1. inbox \in [Channels -> Seq(S)]
    BY DEF ChannelInv, FocusType, S
  <2> HIDE DEF q
  <2> QED BY <1>1, <1>2, <2>1
<1>4. inbox \in [Channels -> Seq(S)]
  BY DEF ChannelInv, FocusType
<1>5. PostedInv' /\ HandlersInv'
  <2>1. inbox'["server"] # <<>> => inbox["server"] # <<>>
    <3>1. CASE c = "server"
      BY <1>0, <3>1
    <3>2. CASE c # "server"
      BY <1>1, <1>4, <3>2 DEF Channels
    <3> QED BY <3>1, <3>2
  <2> QED BY <1>1, <2>1 DEF ChannelInv, PostedInv, HandlersInv
<1>6. CASE c # "server"
  <2>1. UNCHANGED infiniteRetries
    BY <1>6 DEF WorkerTakes
  <2>2. inbox'["server"] = inbox["server"]
    BY <1>1, <1>4, <1>6 DEF Channels
  <2>3. FocusType'
    BY <1>1, <1>3, <2>1 DEF ChannelInv, FocusType
  <2>4. ServerWillHave' = ServerWillHave
    BY <2>1, <2>2 DEF ServerWillHave
  <2> QED BY <1>1, <1>5, <2>1, <2>3, <2>4 DEF ChannelInv, FocusAgrees
<1>7. CASE c = "server"
  <2>1. m_serverThreadId["server"] /\ OnMessage("server", Head(q))
    BY <1>0, <1>2, <1>7 DEF ChannelInv, PostedInv, HandlersInv, OnMessage
  <2>2. infiniteRetries' = [infiniteRetries EXCEPT !["server"] = (Head(q) = "killfocus")]
    BY <1>7, <2>1 DEF WorkerTakes
  <2>3. /\ infiniteRetries' \in [{"client", "server"} -> BOOLEAN]
        /\ infiniteRetries'["server"] = (Head(q) = "killfocus")
        /\ infiniteRetries'["client"] = infiniteRetries["client"]
    <3>1. infiniteRetries \in [{"client", "server"} -> BOOLEAN]
      BY DEF ChannelInv, FocusType
    <3> QED BY <2>2, <3>1
  <2>4. FocusType'
    BY <1>1, <1>3, <2>3 DEF ChannelInv, FocusType
  <2>5. inbox'["server"] = Tail(q) /\ inbox["server"] = q
    BY <1>1, <1>4, <1>7
  <2>6. ServerWillHave = (q[Len(q)] = "killfocus")
    BY <1>0, <2>5, Agreement DEF WillHave
  <2>7. ServerWillHave' = WillHave(Tail(q), Head(q) = "killfocus")
    BY <1>2, <2>3, <2>5, AgreementNext
  <2>8. WillHave(Tail(q), Head(q) = "killfocus") = (q[Len(q)] = "killfocus")
    <3>1. CASE Tail(q) = <<>>
      <4>1. Len(Tail(q)) = 0
        BY <1>2, <3>1, EmptySeq
      <4>2. Len(q) = 1
        BY <1>2, <4>1
      <4> QED BY <1>2, <3>1, <4>2 DEF WillHave
    <3>2. CASE Tail(q) # <<>>
      <4> DEFINE n == Len(Tail(q))
      <4>1. n \in Nat \ {0} /\ n + 1 = Len(q)
        <5>1. Len(Tail(q)) # 0
          BY <1>2, <3>2, EmptySeq
        <5> HIDE DEF q
        <5> QED BY <1>2, <5>1
      <4>2. n \in 1..n
        <5> HIDE DEF n
        <5> QED BY <4>1
      <4>3. Tail(q)[n] = q[n + 1]
        BY <1>2, <4>2
      <4>4. Tail(q)[n] = q[Len(q)]
        BY <4>1, <4>3
      <4> QED BY <3>2, <4>4 DEF WillHave
    <3> QED BY <3>1, <3>2
  <2> QED BY <1>1, <1>5, <2>3, <2>4, <2>6, <2>7, <2>8 DEF ChannelInv, FocusAgrees
<1> QED BY <1>6, <1>7

(* Every step of the threads of the channels and of the window keeps the    *)
(* invariant.                                                               *)
LEMMA NextChannelInv == ChannelInv /\ [ChannelNext]_allInputVars => ChannelInv'
<1> SUFFICES ASSUME ChannelInv, [ChannelNext]_allInputVars PROVE ChannelInv'
  OBVIOUS
<1>0. FocusType /\ HandlersInv /\ Channels = {"server", "remix"}
  BY DEF ChannelInv, Channels
<1>1. ASSUME NEW c \in Channels, InitWorker(c) PROVE ChannelInv'
  <2>1. /\ worker[c] = "none" /\ worker' = [worker EXCEPT ![c] = "started"]
        /\ UNCHANGED <<m_serverThreadId, inbox, m_handlers, infiniteRetries, missed>>
    BY <1>1 DEF InitWorker
  <2>2. FocusType' /\ HandlersInv'
    BY <1>0, <2>1 DEF FocusType, HandlersInv
  <2>3. worker'["server"] = worker["server"] \/ worker["server"] # "ended"
    BY <1>0, <2>1 DEF FocusType
  <2> QED BY <2>1, <2>2, <2>3, ChannelUntouched
<1>2. ASSUME NEW p \in {"client", "server"}, RegisterHandler(p) PROVE ChannelInv'
  <2>1. /\ m_handlers' = [m_handlers EXCEPT ![p] = @ \cup {Focus[Cardinality(@) + 1]}]
        /\ UNCHANGED <<worker, m_serverThreadId, inbox, infiniteRetries, missed>>
    BY <1>2 DEF RegisterHandler
  <2>2. DOMAIN m_handlers' = {"client", "server"} /\ m_handlers["server"] \subseteq m_handlers'["server"]
    BY <1>0, <2>1 DEF FocusType
  <2>3. FocusType' /\ HandlersInv'
    BY <1>0, <2>1, <2>2 DEF FocusType, HandlersInv
  <2> QED BY <2>1, <2>3, ChannelUntouched
<1>3. CASE InitServerMessageChannel
  <2>1. /\ m_handlers["server"] = Range(Focus)
        /\ m_serverThreadId' = [m_serverThreadId EXCEPT !["server"] = TRUE]
        /\ UNCHANGED <<worker, inbox, m_handlers, infiniteRetries, missed>>
    BY <1>3 DEF InitServerMessageChannel
  <2>2. {"killfocus", "setfocus"} \subseteq Range(Focus)
    <3>1. Focus[1] = "killfocus" /\ Focus[2] = "setfocus" /\ DOMAIN Focus = 1..2
      BY DEF Focus
    <3> QED BY <3>1 DEF Range
  <2>3. FocusType' /\ HandlersInv' /\ m_serverThreadId'["server"]
    BY <1>0, <2>1, <2>2 DEF FocusType, HandlersInv
  <2> QED BY <2>1, <2>3, ChannelUntouched
<1>4. CASE WorkerListens \/ SendHandshake \/ HandshakeTimesOut
  <2>1. PICK c \in Channels, x \in {"listening", "handshaking", "ended"} :
          /\ worker' = [worker EXCEPT ![c] = x]
          /\ c = "server" => worker["server"] = "started"
    BY <1>0, <1>4 DEF WorkerListens, SendHandshake, HandshakeTimesOut
  <2>2. UNCHANGED <<m_serverThreadId, inbox, m_handlers, infiniteRetries, missed>>
    BY <1>4 DEF WorkerListens, SendHandshake, HandshakeTimesOut
  <2>3. FocusType' /\ HandlersInv'
    BY <1>0, <2>1, <2>2 DEF FocusType, HandlersInv
  <2>4. worker'["server"] = worker["server"] \/ worker["server"] # "ended"
    BY <1>0, <2>1 DEF FocusType
  <2> QED BY <2>2, <2>3, <2>4, ChannelUntouched
<1>5. CASE OnHandshake
  <2>1. /\ m_serverThreadId' = [m_serverThreadId EXCEPT !["remix"] = TRUE]
        /\ worker' = [worker EXCEPT !["remix"] = IF @ = "handshaking" THEN "listening" ELSE @]
        /\ UNCHANGED <<inbox, m_handlers, infiniteRetries, missed>>
    BY <1>5 DEF OnHandshake
  <2>2. worker'["server"] = worker["server"] /\ m_serverThreadId'["server"] = m_serverThreadId["server"]
    BY <1>0, <2>1 DEF FocusType
  <2>3. FocusType' /\ HandlersInv'
    BY <1>0, <2>1, <2>2 DEF FocusType, HandlersInv
  <2> QED BY <2>1, <2>2, <2>3, ChannelUntouched
<1>6. ASSUME NEW c \in Channels, CloseChannel(c) PROVE ChannelInv'
  <2>1. /\ worker' = [worker EXCEPT ![c] = "ended"]
        /\ UNCHANGED <<m_serverThreadId, inbox, m_handlers, infiniteRetries, missed>>
    BY <1>6 DEF CloseChannel
  <2>2. FocusType' /\ HandlersInv'
    BY <1>0, <2>1 DEF FocusType, HandlersInv
  <2>3. worker'["server"] = worker["server"] \/ worker'["server"] = "ended"
    BY <1>0, <2>1 DEF FocusType
  <2> QED BY <2>1, <2>2, <2>3, ChannelUntouched
<1>7. ASSUME UNCHANGED channelVars PROVE ChannelInv'
  <2>1. UNCHANGED <<worker, m_serverThreadId, inbox, m_handlers, infiniteRetries, missed>>
    BY <1>7 DEF channelVars
  <2>2. FocusType' /\ HandlersInv'
    BY <1>0, <2>1 DEF FocusType, HandlersInv
  <2> QED BY <2>1, <2>2, ChannelUntouched
<1>8. ASSUME NEW m, remixMsg(m) PROVE ChannelInv'
  <2>1. CASE UNCHANGED channelVars
    BY <1>7, <2>1
  <2>2. CASE /\ m[1] \in {"killfocus", "setfocus"} /\ m_serverThreadId["server"] /\ OnFocus(m[1])
             /\ UNCHANGED <<worker, m_serverThreadId, m_handlers>>
    BY <2>2, FocusStep
  <2> QED BY <1>8, <2>1, <2>2 DEF remixMsg
<1>9. CASE Listens
  BY <1>8, <1>9 DEF Listens, PumpTakes, RemixWndProc
<1>10. ASSUME NEW m, SystemPosts(m) PROVE ChannelInv'
  BY <1>7, <1>10 DEF SystemPosts, PostToWindow
<1>11. CASE UNCHANGED allInputVars
  BY <1>7, <1>11 DEF allInputVars
<1>12. CASE ChannelStep
  BY <1>1, <1>2, <1>3, <1>4, <1>5, <1>6, <1>12, TakeStep DEF ChannelStep
<1> QED BY <1>9, <1>10, <1>11, <1>12 DEF ChannelNext

(* FocusAgrees, for any number of messages under way: once the server's     *)
(* worker listens, the two processes have or are about to have the same     *)
(* retry option, whatever focus changes race the registration of handlers,  *)
(* the worker and the messages (message_channels.h).                        *)
THEOREM FocusIsAgreed == ChannelSpec => []FocusAgrees
<1>1. InitInput => ChannelInv
  <2> SUFFICES ASSUME InitChannels PROVE ChannelInv
    BY DEF InitInput
  <2>1. /\ worker = [c \in Channels |-> "none"] /\ m_serverThreadId = [c \in Channels |-> FALSE]
        /\ inbox = [c \in Channels |-> <<>>] /\ m_handlers = [p \in {"client", "server"} |-> {}]
        /\ infiniteRetries = [p \in {"client", "server"} |-> FALSE] /\ missed = FALSE
    BY DEF InitChannels
  <2>2. FocusType
    <3>1. inbox \in [Channels -> Seq({"killfocus", "setfocus"})]
      BY <2>1
    <3>2. m_serverThreadId \in [Channels -> BOOLEAN]
          /\ infiniteRetries \in [{"client", "server"} -> BOOLEAN] /\ missed \in BOOLEAN
      BY <2>1
    <3> QED BY <2>1, <3>1, <3>2 DEF FocusType
  <2>3. inbox["server"] = <<>> /\ m_serverThreadId["server"] = FALSE
    BY <2>1 DEF Channels
  <2>4. HandlersInv /\ PostedInv
    BY <2>3 DEF HandlersInv, PostedInv
  <2>5. ServerWillHave = infiniteRetries["client"]
    <3>1. inbox["server"] \in Seq({"killfocus", "setfocus"})
      BY <2>3
    <3>2. ServerWillHave = infiniteRetries["server"]
      BY <2>3, <3>1, Agreement DEF WillHave
    <3>3. infiniteRetries["server"] = infiniteRetries["client"]
      BY <2>1
    <3> QED BY <3>2, <3>3
  <2> QED BY <2>2, <2>4, <2>5 DEF ChannelInv, FocusAgrees
<1>2. ChannelInv => FocusAgrees
  BY DEF ChannelInv
<1> QED BY <1>1, <1>2, NextChannelInv, PTL DEF ChannelSpec

--------------------------------------------------------------------------------
(* The game's windows hooks *)

Once(c) == \A i, j \in 1..Len(c) : c[i] = c[j] => i = j

(* A hook that is set once is gone when it is removed.                      *)
LEMMA Removed ==
  ASSUME NEW S, NEW c \in Seq(S), Once(c), NEW h
  PROVE  /\ RemoveFirst(c, h) \in Seq(S) /\ Once(RemoveFirst(c, h))
         /\ ~Contains(RemoveFirst(c, h), h)
<1>1. CASE ~\E i \in 1..Len(c) : c[i] = h
  BY <1>1 DEF RemoveFirst, Contains
<1>2. CASE \E i \in 1..Len(c) : c[i] = h
  <2> DEFINE n == Len(c)
  <2>0. n \in Nat
    BY LenProperties
  <2>1. PICK i \in 1..n : c[i] = h
    BY <1>2
  <2>2. {x \in 1..n : c[x] = h} = {i}
    BY <2>1 DEF Once
  <2>3. Min({i}) = i
    <3>1. i \in Int
      BY <2>0
    <3> QED BY <3>1 DEF Min
  <2>4. SelectInSeq(c, LAMBDA v : v = h) = i
    BY <2>2, <2>3 DEF SelectInSeq
  <2> DEFINE a == SubSeq(c, 1, i - 1)
             b == SubSeq(c, i + 1, n)
             r == a \o b
  <2>5. RemoveFirst(c, h) = r
    BY <1>2, <2>4 DEF RemoveFirst, RemoveAt
  <2>6. /\ a \in Seq(S) /\ Len(a) = i - 1
        /\ \A j \in 1..(i - 1) : a[j] = c[j]
    <3>1. 1 \in Int /\ i - 1 \in Int /\ \A j \in 1..(i - 1) : c[j] \in S
      BY <2>0, ElementOfSeq
    <3>2. /\ a \in Seq(S) /\ Len(a) = (IF 1 <= i - 1 THEN (i - 1) - 1 + 1 ELSE 0)
          /\ \A j \in 1..((i - 1) - 1 + 1) : a[j] = c[1 + j - 1]
      BY <3>1, SubSeqProperties
    <3> QED BY <2>0, <3>2
  <2>7. /\ b \in Seq(S) /\ Len(b) = n - i
        /\ \A j \in 1..(n - i) : b[j] = c[i + j]
    <3>1. i + 1 \in Int /\ n \in Int /\ \A j \in (i + 1)..n : c[j] \in S
      BY <2>0, ElementOfSeq
    <3>2. /\ b \in Seq(S) /\ Len(b) = (IF i + 1 <= n THEN n - (i + 1) + 1 ELSE 0)
          /\ \A j \in 1..(n - (i + 1) + 1) : b[j] = c[(i + 1) + j - 1]
      BY <3>1, SubSeqProperties
    <3> QED BY <2>0, <3>2
  <2> HIDE DEF a, b
  <2>8. /\ r \in Seq(S) /\ Len(r) = n - 1
        /\ \A j \in 1..(n - 1) : r[j] = IF j < i THEN c[j] ELSE c[j + 1]
    <3>1. /\ r \in Seq(S) /\ Len(r) = Len(a) + Len(b)
          /\ \A j \in 1..(Len(a) + Len(b)) : r[j] = IF j <= Len(a) THEN a[j] ELSE b[j - Len(a)]
      BY <2>6, <2>7, ConcatProperties
    <3>2. ASSUME NEW j \in 1..(n - 1) PROVE r[j] = IF j < i THEN c[j] ELSE c[j + 1]
      <4>1. CASE j < i
        BY <2>0, <2>6, <2>7, <3>1, <4>1
      <4>2. CASE ~(j < i)
        <5>1. j - (i - 1) \in 1..(n - i) /\ ~(j <= i - 1) /\ j \in 1..(i - 1 + (n - i))
              /\ i + (j - (i - 1)) = j + 1
          BY <2>0, <4>2
        <5>2. b[j - (i - 1)] = c[i + (j - (i - 1))]
          BY <2>7, <5>1
        <5>3. r[j] = b[j - (i - 1)]
          BY <2>6, <2>7, <3>1, <5>1
        <5> QED BY <4>2, <5>1, <5>2, <5>3
      <4> QED BY <4>1, <4>2
    <3> QED BY <2>0, <2>6, <2>7, <3>1, <3>2
  <2> HIDE DEF r
  <2>9. Once(r)
    <3> SUFFICES ASSUME NEW j \in 1..(n - 1), NEW k \in 1..(n - 1), r[j] = r[k] PROVE j = k
      BY <2>8 DEF Once
    <3>1. PICK x \in 1..n : r[j] = c[x] /\ x = IF j < i THEN j ELSE j + 1
      BY <2>0, <2>8
    <3>2. PICK y \in 1..n : r[k] = c[y] /\ y = IF k < i THEN k ELSE k + 1
      BY <2>0, <2>8
    <3>3. x = y
      BY <3>1, <3>2 DEF Once
    <3> QED BY <2>0, <3>1, <3>2, <3>3
  <2>10. ~Contains(r, h)
    <3> SUFFICES ASSUME NEW j \in 1..(n - 1), r[j] = h PROVE FALSE
      BY <2>8 DEF Contains
    <3>1. PICK x \in 1..n : r[j] = c[x] /\ x = IF j < i THEN j ELSE j + 1
      BY <2>0, <2>8
    <3>2. x = i
      BY <2>1, <3>1 DEF Once
    <3> QED BY <2>0, <3>1, <3>2
  <2> QED BY <2>5, <2>8, <2>9, <2>10
<1> QED BY <1>1, <1>2

HookNames == {"app", "bridge"}

(* Each hook is set once at most, and under an active UI the game's hears   *)
(* nothing, once the bridge's is there and was set after it.                *)
ChainInv ==
  /\ chain \in Seq(HookNames) /\ Once(chain)
  /\ late \in BOOLEAN
  /\ m_state /\ Contains(chain, "bridge") /\ ~late => ~AppHears

(* A hook in front of the others.                                           *)
LEMMA Fronted ==
  ASSUME NEW c \in Seq(HookNames), Once(c), NEW h \in HookNames, ~Contains(c, h)
  PROVE  /\ <<h>> \o c \in Seq(HookNames) /\ Once(<<h>> \o c)
         /\ (<<h>> \o c)[1] = h
         /\ DOMAIN (<<h>> \o c) = 1..(Len(c) + 1)
         /\ \A i \in 2..(Len(c) + 1) : (<<h>> \o c)[i] = c[i - 1]
<1> DEFINE r == <<h>> \o c
           n == Len(c)
<1>0. n \in Nat /\ <<h>> \in Seq(HookNames) /\ Len(<<h>>) = 1 /\ <<h>>[1] = h
  BY LenProperties
<1>1. /\ r \in Seq(HookNames) /\ Len(r) = 1 + n
      /\ \A i \in 1..(1 + n) : r[i] = IF i <= 1 THEN <<h>>[i] ELSE c[i - 1]
  <2> HIDE DEF HookNames
  <2> QED BY <1>0, ConcatProperties
<1> HIDE DEF r
<1>2. r[1] = h /\ \A i \in 2..(n + 1) : r[i] = c[i - 1]
  BY <1>0, <1>1
<1>3. DOMAIN r = 1..(n + 1)
  BY <1>0, <1>1
<1>4. Once(r)
  <2> SUFFICES ASSUME NEW j \in 1..(n + 1), NEW k \in 1..(n + 1), r[j] = r[k] PROVE j = k
    BY <1>0, <1>1 DEF Once
  <2>1. CASE j = 1 /\ k = 1
    BY <2>1
  <2>2. CASE j = 1 /\ k # 1
    BY <1>0, <1>2, <2>2 DEF Contains
  <2>3. CASE j # 1 /\ k = 1
    BY <1>0, <1>2, <2>3 DEF Contains
  <2>4. CASE j # 1 /\ k # 1
    <3>1. j - 1 \in 1..n /\ k - 1 \in 1..n /\ c[j - 1] = c[k - 1]
      BY <1>0, <1>2, <2>4
    <3>2. j - 1 = k - 1
      BY <3>1 DEF Once
    <3> QED BY <1>0, <3>2
  <2> QED BY <2>1, <2>2, <2>3, <2>4
<1> QED BY <1>1, <1>2, <1>3, <1>4 DEF r

(* Behind the bridge's hook the game's hears nothing under an active UI.    *)
LEMMA Reattached ==
  ASSUME ChainInv, chain' \in InputWinHooksReattach(chain), m_state',
         late' = (late /\ ~Contains(chain', "bridge"))
  PROVE  ChainInv'
<1> DEFINE c == RemoveFirst(chain, "bridge")
<1>1. c \in Seq(HookNames) /\ Once(c) /\ ~Contains(c, "bridge")
  BY Removed DEF ChainInv
<1>2. chain' = c \/ chain' = <<"bridge">> \o c
  BY DEF InputWinHooksReattach, InputWinHooksAttach, InputWinHooksDetach
<1>3. late' \in BOOLEAN
  BY DEF ChainInv
<1> HIDE DEF c
<1>4. CASE chain' = c
  BY <1>1, <1>3, <1>4 DEF ChainInv
<1>5. CASE chain' = <<"bridge">> \o c
  <2>1. "bridge" \in HookNames
    BY DEF HookNames
  <2>2. chain' \in Seq(HookNames) /\ Once(chain') /\ chain'[1] = "bridge" /\ Len(c) \in Nat
        /\ DOMAIN chain' = 1..(Len(c) + 1)
    BY <1>1, <1>5, <2>1, Fronted, LenProperties
  <2>3. ~AppHears'
    <3> SUFFICES ASSUME NEW i \in DOMAIN chain', chain'[i] = "app"
                 PROVE  \E j \in 1..(i - 1) : chain'[j] = "bridge"
      BY DEF AppHears
    <3>1. i # 1 /\ i \in Nat /\ i >= 1
      BY <2>2
    <3>2. 1 \in 1..(i - 1)
      BY <3>1
    <3> QED BY <2>2, <3>2
  <2> QED BY <1>3, <2>2, <2>3 DEF ChainInv
<1> QED BY <1>2, <1>4, <1>5

(* The game sets its hook, or takes it away.                                *)
LEMMA AppHooksKeeps ==
  ASSUME ChainInv, AppHooks, UNCHANGED m_state
  PROVE  ChainInv'
<1>1. late' \in BOOLEAN
  BY DEF AppHooks
<1>2. CASE Contains(chain, "app")
  <2>1. chain' = RemoveFirst(chain, "app")
    BY <1>2 DEF AppHooks
  <2>2. chain' \in Seq(HookNames) /\ Once(chain') /\ ~Contains(chain', "app")
    BY <2>1, Removed DEF ChainInv
  <2>3. ~AppHears'
    <3>1. DOMAIN chain' = 1..Len(chain')
      BY <2>2
    <3> QED BY <2>2, <3>1 DEF AppHears, Contains
  <2> QED BY <1>1, <2>2, <2>3 DEF ChainInv
<1>3. CASE ~Contains(chain, "app")
  <2>1. chain' = <<"app">> \o chain /\ late' = TRUE
    BY <1>3 DEF AppHooks
  <2>2. "app" \in HookNames
    BY DEF HookNames
  <2>3. chain' \in Seq(HookNames) /\ Once(chain')
    BY <1>3, <2>1, <2>2, Fronted DEF ChainInv
  <2> QED BY <2>1, <2>3 DEF ChainInv
<1> QED BY <1>2, <1>3

--------------------------------------------------------------------------------
(* What the game is told of the cursor and of raw input *)

Told == [pos : Positions \cup {"zero", "unasked"}, raw : RawStates \cup {"zero", "unasked"}]

(* Cursor and raw input were last told the game as the hooks keep them, and *)
(* under an active UI as they were when it opened; if the game ever asked.  *)
ToldInv ==
  /\ told \in Told /\ lastKnown \in Told /\ opened \in Told
  /\ cursor \in Positions /\ gClientUsesDirectInput \in BOOLEAN
  /\ NothingNew(lastKnown.pos, told.pos)
  /\ NothingNew(lastKnown.raw, told.raw) \/ gClientUsesDirectInput
  /\ m_state => /\ NothingNew(told.pos, opened.pos)
                /\ NothingNew(told.raw, opened.raw) \/ gClientUsesDirectInput

(* The hooks of the polling functions keep it.                              *)
LEMMA PollsKeep ==
  ASSUME ToldInv, ChainInv, Polls
  PROVE  ToldInv' /\ ChainInv'
<1>0. UNCHANGED m_state
  BY DEF Polls, inputVars
<1>1. CASE AppHooks
  <2>1. ToldInv'
    BY <1>0, <1>1 DEF AppHooks, ToldInv, NothingNew
  <2> QED BY <1>0, <1>1, <2>1, AppHooksKeeps
<1>2. ASSUME UNCHANGED <<chain, late>> PROVE ChainInv'
  BY <1>0, <1>2 DEF ChainInv, AppHears, Contains, Once
<1>3. CASE HookedGetCursorPos
  <2> DEFINE p == IF m_state THEN lastKnown.pos ELSE cursor
  <2>1. lastKnown' = [lastKnown EXCEPT !.pos = p] /\ told' = [told EXCEPT !.pos = lastKnown'.pos]
        /\ UNCHANGED <<chain, late, gClientUsesDirectInput, cursor, opened>>
    BY <1>3 DEF HookedGetCursorPos
  <2>2. p \in Positions \cup {"zero", "unasked"}
    BY DEF ToldInv, NothingNew, Told
  <2> HIDE DEF p
  <2>3. /\ lastKnown' \in Told /\ lastKnown'.pos = p /\ lastKnown'.raw = lastKnown.raw
    BY <2>1, <2>2 DEF ToldInv, NothingNew, Told
  <2>4. /\ told' \in Told /\ told'.pos = p /\ told'.raw = told.raw
    BY <2>1, <2>2, <2>3 DEF ToldInv, NothingNew, Told
  <2>5. ToldInv'
    BY <1>0, <2>1, <2>3, <2>4 DEF ToldInv, NothingNew, p
  <2> QED BY <1>2, <2>1, <2>5
<1>4. CASE HookedDirectInputCreate
  BY <1>0, <1>2, <1>4 DEF HookedDirectInputCreate, ToldInv, NothingNew
<1>5. ASSUME NEW p \in Positions, MoveCursor(p) \/ HookedSetCursorPos(p) PROVE ToldInv' /\ ChainInv'
  BY <1>0, <1>2, <1>5 DEF MoveCursor, HookedSetCursorPos, ToldInv, NothingNew
<1>6. ASSUME NEW r \in RawStates, HookedGetRawInputData(r) PROVE ToldInv' /\ ChainInv'
  <2> DEFINE x == IF m_state \/ gClientUsesDirectInput THEN lastKnown.raw ELSE r
             y == IF m_state /\ ~gClientUsesDirectInput THEN lastKnown.raw ELSE r
  <2>1. lastKnown' = [lastKnown EXCEPT !.raw = x] /\ told' = [told EXCEPT !.raw = y]
        /\ UNCHANGED <<chain, late, gClientUsesDirectInput, cursor, opened>>
    BY <1>6 DEF HookedGetRawInputData
  <2>2. x \in RawStates \cup {"zero", "unasked"} /\ y \in RawStates \cup {"zero", "unasked"}
    BY DEF ToldInv, NothingNew, Told
  <2> HIDE DEF x, y
  <2>3. /\ lastKnown' \in Told /\ lastKnown'.raw = x /\ lastKnown'.pos = lastKnown.pos
        /\ told' \in Told /\ told'.raw = y /\ told'.pos = told.pos
    BY <2>1, <2>2 DEF ToldInv, NothingNew, Told
  <2>4. ToldInv'
    BY <1>0, <2>1, <2>3 DEF ToldInv, NothingNew, x, y
  <2> QED BY <1>2, <2>1, <2>4
<1> QED BY <1>1, <1>3, <1>4, <1>5, <1>6 DEF Polls

--------------------------------------------------------------------------------
(* The keyboard *)

Messages ==
  ({"keydown", "keyup", "syskeyup"} \X (Keys \cup {VK_MENU})) \cup ({"ui"} \X BOOLEAN)
    \cup {<<"frame">>, <<"input">>}

KeyType ==
  /\ m_state \in BOOLEAN /\ hookMessagePump \in BOOLEAN
  /\ posts \in Seq(Messages) /\ pulled \in Messages \cup {NoMessage}

(* A message the pump let pass is still one to pass when it is dispatched.  *)
PulledInv == pulled # NoMessage => hookMessagePump /\ ~Swallows(pulled)

IsPress(m, k) == m[1] = "keydown" /\ m[2] = k
ReleaseFrom(k, i) == \E j \in i..Len(posts) : posts[j] = <<"keyup", k>>

(* A press on its way is of a key that is down or is let go behind it.      *)
PressInv ==
  \A k \in Modifiers :
    /\ \A i \in 1..Len(posts) : IsPress(posts[i], k) => k \in down \/ ReleaseFrom(k, i + 1)
    /\ IsPress(pulled, k) => k \in down \/ ReleaseFrom(k, 1)

(* The game has no modifier down under an active UI, and at other times     *)
(* none that is neither down nor let go by a message under way.             *)
HeldInv ==
  \A k \in Modifiers \cap gameKeys :
    ~m_state /\ (k \in down \/ pulled = <<"keyup", k>> \/ ReleaseFrom(k, 1))

KeyInv == KeyType /\ PulledInv /\ PressInv /\ HeldInv

(* What remixMsg does to the UI, the hooks and what the game was told.      *)
LEMMA Heard ==
  ASSUME NEW m, remixMsg(m)
  PROVE  /\ UIMessage(m) =>
              /\ m_state' = m[2]
              /\ UNCHANGED <<told, lastKnown, cursor, gClientUsesDirectInput>>
              /\ IF m[2] /\ ~m_state
                 THEN /\ chain' \in InputWinHooksReattach(chain)
                      /\ late' = (late /\ ~Contains(chain', "bridge"))
                      /\ opened' = told
                 ELSE UNCHANGED <<chain, late, opened>>
         /\ ~UIMessage(m) =>
              UNCHANGED <<m_state, told, lastKnown, cursor, gClientUsesDirectInput, chain, late, opened>>
<1>1. CASE UIMessage(m) /\ OnUIActive(m[2])
  BY <1>1 DEF remixMsg, OnUIActive, UIMessage
<1>2. CASE ~UIMessage(m)
  BY <1>2 DEF remixMsg, inputVars, hookVars
<1> QED BY <1>1, <1>2 DEF remixMsg, UIMessage

(* A message the window hears keeps what the game's hooks and polls are     *)
(* told.                                                                    *)
LEMMA HeardKeeps ==
  ASSUME ToldInv, ChainInv, NEW m \in Messages \cup {NoMessage}, remixMsg(m), m_state \in BOOLEAN
  PROVE  ToldInv' /\ ChainInv' /\ m_state' \in BOOLEAN
<1>1. CASE ~UIMessage(m)
  <2>1. UNCHANGED <<m_state, told, lastKnown, cursor, gClientUsesDirectInput, chain, late, opened>>
    BY <1>1, Heard
  <2> QED BY <2>1 DEF ToldInv, NothingNew, ChainInv, AppHears, Contains, Once
<1>2. CASE UIMessage(m)
  <2>1. m[2] \in BOOLEAN
    BY <1>2 DEF UIMessage, Messages, NoMessage
  <2>2. m_state' = m[2] /\ UNCHANGED <<told, lastKnown, cursor, gClientUsesDirectInput>>
    BY <1>2, Heard
  <2>3. CASE m[2] /\ ~m_state
    <3>1. /\ chain' \in InputWinHooksReattach(chain)
          /\ late' = (late /\ ~Contains(chain', "bridge"))
          /\ opened' = told
      BY <1>2, <2>3, Heard
    <3>2. ChainInv'
      BY <2>2, <2>3, <3>1, Reattached
    <3>3. ToldInv'
      BY <2>2, <3>1 DEF ToldInv, NothingNew
    <3> QED BY <2>1, <2>2, <3>2, <3>3
  <2>4. CASE ~(m[2] /\ ~m_state)
    <3>1. UNCHANGED <<chain, late, opened>>
      BY <1>2, <2>4, Heard
    <3>2. m_state' => m_state
      BY <2>2, <2>4
    <3>3. ToldInv'
      BY <2>2, <3>1, <3>2 DEF ToldInv, NothingNew
    <3>4. ChainInv'
      BY <3>1, <3>2 DEF ChainInv, AppHears, Contains, Once
    <3> QED BY <2>1, <2>2, <3>3, <3>4
  <2> QED BY <2>3, <2>4
<1> QED BY <1>1, <1>2

(* Taking the oldest message leaves every release behind a press in place.  *)
LEMMA TakeOldest ==
  ASSUME KeyInv, posts # <<>>, posts' = Tail(posts), UNCHANGED down, NEW k \in Modifiers
  PROVE  /\ Head(posts) \in Messages /\ posts' \in Seq(Messages)
         /\ \A i \in 1..Len(posts') : IsPress(posts'[i], k) => k \in down' \/ ReleaseFrom(k, i + 1)'
         /\ IsPress(Head(posts), k) => k \in down' \/ ReleaseFrom(k, 1)'
         /\ ReleaseFrom(k, 1) => Head(posts) = <<"keyup", k>> \/ ReleaseFrom(k, 1)'
<1> DEFINE n == Len(posts)
<1>1. /\ Head(posts) \in Messages /\ posts' \in Seq(Messages) /\ Head(posts) = posts[1]
      /\ n \in Nat \ {0} /\ Len(posts') = n - 1
      /\ \A i \in 1..(n - 1) : posts'[i] = posts[i + 1]
  <2>1. posts \in Seq(Messages)
    BY DEF KeyInv, KeyType
  <2> QED BY <2>1, HeadTailProperties, LenProperties, EmptySeq
<1> HIDE DEF n
<1>2. ASSUME NEW i \in 2..(n + 1), \E j \in i..n : posts[j] = <<"keyup", k>>
      PROVE  ReleaseFrom(k, i - 1)'
  <2>1. PICK j \in i..n : posts[j] = <<"keyup", k>>
    BY <1>2
  <2>2. j - 1 \in (i - 1)..(n - 1) /\ j - 1 \in 1..(n - 1) /\ (j - 1) + 1 = j
    BY <1>1
  <2>3. posts'[j - 1] = <<"keyup", k>>
    BY <1>1, <2>1, <2>2
  <2> QED BY <1>1, <2>2, <2>3 DEF ReleaseFrom
<1>3. ASSUME NEW i \in 1..n, IsPress(posts[i], k)
      PROVE  k \in down' \/ ReleaseFrom(k, i)'
  <2>1. k \in down \/ \E j \in (i + 1)..n : posts[j] = <<"keyup", k>>
    BY <1>3 DEF KeyInv, PressInv, ReleaseFrom, n
  <2>2. i + 1 \in 2..(n + 1) /\ (i + 1) - 1 = i
    BY <1>1
  <2> QED BY <1>2, <2>1, <2>2
<1>4. ASSUME NEW i \in 1..Len(posts'), IsPress(posts'[i], k)
      PROVE  k \in down' \/ ReleaseFrom(k, i + 1)'
  <2>1. i + 1 \in 1..n /\ posts'[i] = posts[i + 1]
    BY <1>1
  <2> QED BY <1>3, <1>4, <2>1
<1>5. IsPress(Head(posts), k) => k \in down' \/ ReleaseFrom(k, 1)'
  <2>1. 1 \in 1..n
    BY <1>1
  <2> QED BY <1>1, <1>3, <2>1
<1>6. ASSUME ReleaseFrom(k, 1) PROVE Head(posts) = <<"keyup", k>> \/ ReleaseFrom(k, 1)'
  <2>1. PICK j \in 1..n : posts[j] = <<"keyup", k>>
    BY <1>6 DEF ReleaseFrom, n
  <2>2. CASE j = 1
    BY <1>1, <2>1, <2>2
  <2>3. CASE j # 1
    <3>1. 2 \in 2..(n + 1) /\ j \in 2..n /\ 2 - 1 = 1
      BY <1>1, <2>3
    <3>2. ReleaseFrom(k, 2 - 1)'
      BY <1>2, <2>1, <3>1
    <3> QED BY <3>1, <3>2
  <2> QED BY <2>2, <2>3
<1> QED BY <1>1, <1>4, <1>5, <1>6

(* Where unstick leaves the game a modifier, the UI is and stays closed.    *)
LEMMA Delivered ==
  ASSUME KeyInv, NEW m \in Messages, remixMsg(m), NEW k \in Modifiers, k \in gameKeys \ Unsticks(m)
  PROVE  ~m_state /\ ~m_state'
<1>1. ~m_state
  BY DEF KeyInv, HeldInv
<1>2. CASE UIMessage(m)
  <2>1. ~m[2]
    BY <1>1, <1>2 DEF Unsticks
  <2> QED BY <1>1, <1>2, <2>1, Heard
<1>3. CASE ~UIMessage(m)
  BY <1>1, <1>3, Heard
<1> QED BY <1>2, <1>3

(* A modifier the game takes for down after a message was one before, and   *)
(* the message is not its release, or the message is its press.             *)
LEMMA HeldAfter ==
  ASSUME KeyInv, NEW m \in Messages, remixMsg(m), NEW k \in Modifiers, k \in GameHears(m)
  PROVE  /\ ~m_state'
         /\ (k \in gameKeys /\ m # <<"keyup", k>>) \/ IsPress(m, k)
<1> DEFINE left == gameKeys \ Unsticks(m)
<1>1. CASE k \in left
  <2>1. ~m_state /\ ~m_state'
    BY <1>1, Delivered
  <2>2. m # <<"keyup", k>>
    <3> SUFFICES ASSUME m = <<"keyup", k>> PROVE FALSE
      OBVIOUS
    <3>1. m[1] = "keyup" /\ m[2] = k
      OBVIOUS
    <3>2. ~Swallows(m)
      BY <2>1, <3>1 DEF Swallows, UIMessage
    <3>3. GameHears(m) = left \ {k}
      BY <3>1, <3>2 DEF GameHears
    <3> QED BY <3>3
  <2> QED BY <1>1, <2>1, <2>2
<1>2. CASE k \notin left
  <2>1. ~Swallows(m) /\ m[1] = "keydown" /\ m[2] = k
    <3>1. Swallows(m) => GameHears(m) = left
      BY DEF GameHears
    <3>2. ~Swallows(m) /\ m[1] = "keydown" => GameHears(m) = left \cup {m[2]}
      BY DEF GameHears
    <3>3. ~Swallows(m) /\ m[1] # "keydown" => GameHears(m) \subseteq left
      BY DEF GameHears
    <3> HIDE DEF left
    <3> QED BY <1>2, <3>1, <3>2, <3>3
  <2>2. ~m_state /\ ~UIMessage(m)
    BY <2>1 DEF Swallows, isInputMessage, UIMessage
  <2>3. m_state' = m_state
    BY <2>2, Heard
  <2> QED BY <2>1, <2>2, <2>3 DEF IsPress
<1> QED BY <1>1, <1>2

(* The hooked pump keeps the invariant.                                     *)
LEMMA PumpKeeps ==
  ASSUME KeyInv, PumpTakes, m_state' \in BOOLEAN
  PROVE  KeyInv'
<1> DEFINE m == Head(posts)
<1>0. /\ posts # <<>> /\ pulled = NoMessage /\ hookMessagePump /\ remixMsg(m)
      /\ pulled' = (IF Swallows(m) THEN NoMessage ELSE m)
      /\ gameKeys' = gameKeys \ Unsticks(m)
      /\ posts' = Tail(posts) /\ UNCHANGED <<down, hookMessagePump>>
  BY DEF PumpTakes
<1>1. m \in Messages /\ posts' \in Seq(Messages)
  BY <1>0, HeadTailProperties DEF KeyInv, KeyType
<1>2. \A k \in Modifiers :
        /\ \A i \in 1..Len(posts') : IsPress(posts'[i], k) => k \in down' \/ ReleaseFrom(k, i + 1)'
        /\ IsPress(m, k) => k \in down' \/ ReleaseFrom(k, 1)'
        /\ ReleaseFrom(k, 1) => m = <<"keyup", k>> \/ ReleaseFrom(k, 1)'
  BY <1>0, TakeOldest
<1> HIDE DEF m
<1>3. KeyType'
  BY <1>0, <1>1 DEF KeyInv, KeyType
<1>4. PulledInv'
  <2> SUFFICES ASSUME pulled' # NoMessage PROVE hookMessagePump' /\ ~Swallows(pulled)'
    BY DEF PulledInv
  <2>1. pulled' = m /\ ~Swallows(m)
    BY <1>0
  <2>2. m_state' = m_state
    BY <1>0, <2>1, Heard DEF Swallows
  <2>3. ~Swallows(pulled)'
    BY <2>1, <2>2 DEF Swallows, UIMessage, isInputMessage
  <2> QED BY <1>0, <2>3
<1>5. PressInv'
  <2> SUFFICES ASSUME NEW k \in Modifiers, IsPress(pulled', k) PROVE k \in down' \/ ReleaseFrom(k, 1)'
    BY <1>2 DEF PressInv, IsPress
  <2>1. pulled' = m
    BY <1>0 DEF IsPress, NoMessage
  <2> QED BY <1>2, <2>1
<1>6. HeldInv'
  <2> SUFFICES ASSUME NEW k \in Modifiers, k \in gameKeys'
               PROVE  ~m_state' /\ (k \in down' \/ pulled' = <<"keyup", k>> \/ ReleaseFrom(k, 1)')
    BY DEF HeldInv
  <2>1. ~m_state /\ ~m_state'
    BY <1>0, <1>1, Delivered
  <2>2. pulled # <<"keyup", k>>
    BY <1>0 DEF NoMessage
  <2>3. k \in down \/ ReleaseFrom(k, 1)
    BY <1>0, <2>2 DEF KeyInv, HeldInv
  <2>4. CASE m = <<"keyup", k>>
    <3>1. ~Swallows(m)
      BY <2>1, <2>4 DEF Swallows, UIMessage
    <3> QED BY <1>0, <2>1, <2>4, <3>1
  <2>5. CASE m # <<"keyup", k>>
    BY <1>0, <1>2, <2>1, <2>3, <2>5
  <2> QED BY <2>4, <2>5
<1> QED BY <1>3, <1>4, <1>5, <1>6 DEF KeyInv

(* The window procedure keeps the invariant.                                *)
LEMMA ProcKeeps ==
  ASSUME KeyInv, RemixWndProc, m_state' \in BOOLEAN
  PROVE  KeyInv'
<1> DEFINE m == IF hookMessagePump THEN pulled ELSE Head(posts)
<1>0. /\ IF hookMessagePump THEN pulled # NoMessage ELSE posts # <<>>
      /\ remixMsg(m) /\ gameKeys' = GameHears(m) /\ pulled' = NoMessage
      /\ posts' = (IF hookMessagePump THEN posts ELSE Tail(posts))
      /\ UNCHANGED <<down, hookMessagePump>>
  BY DEF RemixWndProc
<1>1. m \in Messages /\ posts' \in Seq(Messages)
  BY <1>0, HeadTailProperties DEF KeyInv, KeyType
<1>2. ASSUME NEW k \in Modifiers
      PROVE  /\ \A i \in 1..Len(posts') : IsPress(posts'[i], k) => k \in down' \/ ReleaseFrom(k, i + 1)'
             /\ IsPress(m, k) => k \in down' \/ ReleaseFrom(k, 1)'
             /\ k \in gameKeys /\ m # <<"keyup", k>> => k \in down' \/ ReleaseFrom(k, 1)'
  <2>1. CASE hookMessagePump
    <3>1. m = pulled /\ UNCHANGED <<posts, down>>
      BY <1>0, <2>1
    <3>2. \A i \in Nat : ReleaseFrom(k, i)' <=> ReleaseFrom(k, i)
      BY <3>1 DEF ReleaseFrom
    <3>3. \A i \in 1..Len(posts) : IsPress(posts[i], k) => k \in down \/ ReleaseFrom(k, i + 1)
      BY DEF KeyInv, PressInv
    <3>4. \A i \in 1..Len(posts') : IsPress(posts'[i], k) => k \in down' \/ ReleaseFrom(k, i + 1)'
      BY <3>1, <3>2, <3>3
    <3>5. /\ IsPress(m, k) => k \in down \/ ReleaseFrom(k, 1)
          /\ k \in gameKeys /\ m # <<"keyup", k>> => k \in down \/ ReleaseFrom(k, 1)
      BY <3>1 DEF KeyInv, PressInv, HeldInv
    <3>6. ReleaseFrom(k, 1)' <=> ReleaseFrom(k, 1)
      BY <3>2
    <3> QED BY <3>1, <3>4, <3>5, <3>6
  <2>2. CASE ~hookMessagePump
    <3>1. m = Head(posts) /\ posts # <<>> /\ posts' = Tail(posts) /\ UNCHANGED down
      BY <1>0, <2>2
    <3>2. pulled # <<"keyup", k>>
      BY <2>2 DEF KeyInv, PulledInv, NoMessage
    <3> QED BY <3>1, <3>2, TakeOldest DEF KeyInv, HeldInv
  <2> QED BY <2>1, <2>2
<1> HIDE DEF m
<1>3. KeyType'
  BY <1>0, <1>1 DEF KeyInv, KeyType
<1>4. PulledInv'
  BY <1>0 DEF PulledInv
<1>5. PressInv'
  BY <1>0, <1>2 DEF PressInv, IsPress, NoMessage
<1>6. HeldInv'
  <2> SUFFICES ASSUME NEW k \in Modifiers, k \in GameHears(m)
               PROVE  ~m_state' /\ (k \in down' \/ ReleaseFrom(k, 1)')
    BY <1>0 DEF HeldInv
  <2> QED BY <1>0, <1>1, <1>2, HeldAfter
<1> QED BY <1>3, <1>4, <1>5, <1>6 DEF KeyInv

(* A message posted behind the others: what is under way stays so, and a    *)
(* press is of a key that went down, a release is under way itself.         *)
LEMMA PostKeeps ==
  ASSUME KeyInv, NEW m \in Messages, PostToWindow(m), NEW k \in Modifiers,
         k \in down => k \in down' \/ m = <<"keyup", k>>,
         IsPress(m, k) => k \in down'
  PROVE  /\ \A i \in 1..Len(posts') : IsPress(posts'[i], k) => k \in down' \/ ReleaseFrom(k, i + 1)'
         /\ IsPress(pulled', k) => k \in down' \/ ReleaseFrom(k, 1)'
         /\ k \in gameKeys' => ~m_state' /\ (k \in down' \/ pulled' = <<"keyup", k>> \/ ReleaseFrom(k, 1)')
<1> DEFINE n == Len(posts)
<1>0. posts' = Append(posts, m) /\ UNCHANGED <<m_state, pulled, gameKeys, hookMessagePump>>
  BY DEF PostToWindow, inputVars
<1>1. /\ posts' \in Seq(Messages) /\ n \in Nat /\ Len(posts') = n + 1 /\ posts'[n + 1] = m
      /\ \A i \in 1..n : posts'[i] = posts[i]
  BY <1>0, AppendProperties, LenProperties DEF KeyInv, KeyType
<1>2. ASSUME NEW i \in 1..(n + 1), k \in down \/ ReleaseFrom(k, i) PROVE k \in down' \/ ReleaseFrom(k, i)'
  <2>1. CASE ReleaseFrom(k, i)
    <3>1. PICK j \in i..n : posts[j] = <<"keyup", k>>
      BY <2>1 DEF ReleaseFrom
    <3>2. j \in i..(n + 1) /\ j \in 1..n
      BY <1>1
    <3>3. posts'[j] = <<"keyup", k>>
      BY <1>1, <3>1, <3>2
    <3> QED BY <1>1, <3>2, <3>3 DEF ReleaseFrom
  <2>2. CASE m = <<"keyup", k>>
    <3>1. n + 1 \in i..(n + 1)
      BY <1>1
    <3> QED BY <1>1, <2>2, <3>1 DEF ReleaseFrom
  <2> QED BY <1>2, <2>1, <2>2
<1>3. ASSUME NEW i \in 1..Len(posts'), IsPress(posts'[i], k) PROVE k \in down' \/ ReleaseFrom(k, i + 1)'
  <2>1. CASE i = n + 1
    BY <1>1, <1>3, <2>1
  <2>2. CASE i # n + 1
    <3>1. i \in 1..n /\ i + 1 \in 1..(n + 1)
      BY <1>1, <2>2
    <3>2. k \in down \/ ReleaseFrom(k, i + 1)
      BY <1>1, <1>3, <3>1 DEF KeyInv, PressInv
    <3> QED BY <1>2, <3>1, <3>2
  <2> QED BY <2>1, <2>2
<1>4. 1 \in 1..(n + 1)
  BY <1>1
<1>5. IsPress(pulled', k) => k \in down' \/ ReleaseFrom(k, 1)'
  BY <1>0, <1>2, <1>4 DEF KeyInv, PressInv
<1>6. k \in gameKeys' => ~m_state' /\ (k \in down' \/ pulled' = <<"keyup", k>> \/ ReleaseFrom(k, 1)')
  BY <1>0, <1>2, <1>4 DEF KeyInv, HeldInv
<1> QED BY <1>3, <1>5, <1>6

(* The posted message keeps the invariant.                                  *)
LEMMA PostKeepsKeys ==
  ASSUME KeyInv, NEW m \in Messages, PostToWindow(m),
         \A k \in Modifiers : (k \in down => k \in down' \/ m = <<"keyup", k>>) /\ (IsPress(m, k) => k \in down')
  PROVE  KeyInv'
<1>0. posts' = Append(posts, m) /\ UNCHANGED <<m_state, pulled, gameKeys, hookMessagePump>>
  BY DEF PostToWindow, inputVars
<1>1. KeyType'
  BY <1>0, AppendProperties DEF KeyInv, KeyType
<1>2. PulledInv'
  BY <1>0 DEF KeyInv, PulledInv, Swallows, UIMessage, isInputMessage
<1>3. PressInv' /\ HeldInv'
  BY PostKeeps DEF PressInv, HeldInv, IsPress
<1> QED BY <1>1, <1>2, <1>3 DEF KeyInv

(* The inductive invariant of what is withheld from the game.               *)
InputInv == KeyInv /\ ChainInv /\ ToldInv

(* Every step of the user, the window, the renderer or the game's polls     *)
(* keeps it.                                                                *)
LEMMA NextInputInv == InputInv /\ [KeyboardNext \/ PollingNext]_allInputVars => InputInv'
<1> SUFFICES ASSUME InputInv, [KeyboardNext \/ PollingNext]_allInputVars PROVE InputInv'
  OBVIOUS
<1>0. KeyInv /\ ChainInv /\ ToldInv /\ m_state \in BOOLEAN
  BY DEF InputInv, KeyInv, KeyType
<1>1. CASE PumpTakes
  <2>1. Head(posts) \in Messages /\ remixMsg(Head(posts))
    BY <1>0, <1>1, HeadTailProperties DEF PumpTakes, KeyInv, KeyType
  <2> QED BY <1>0, <1>1, <2>1, HeardKeeps, PumpKeeps DEF InputInv
<1>2. CASE RemixWndProc
  <2>1. PICK m \in Messages \cup {NoMessage} : remixMsg(m)
    <3>1. (IF hookMessagePump THEN pulled ELSE Head(posts)) \in Messages \cup {NoMessage}
      BY <1>0, <1>2, HeadTailProperties DEF RemixWndProc, KeyInv, KeyType
    <3> QED BY <1>2, <3>1 DEF RemixWndProc
  <2> QED BY <1>0, <1>2, <2>1, HeardKeeps, ProcKeeps DEF InputInv
<1>3. ASSUME NEW m \in Messages, PostToWindow(m) PROVE ChainInv' /\ ToldInv'
  <2>1. UNCHANGED <<m_state, chain, late, told, lastKnown, opened, cursor, gClientUsesDirectInput>>
    BY <1>3 DEF PostToWindow, inputVars, hookVars
  <2> QED BY <1>0, <2>1 DEF ToldInv, NothingNew, ChainInv, AppHears, Contains, Once
<1>4. ASSUME NEW k \in Keys, Press(k) PROVE InputInv'
  <2>1. /\ <<"keydown", k>> \in Messages /\ PostToWindow(<<"keydown", k>>) /\ down' = down \cup {k}
        /\ <<"keydown", k>>[2] = k
    BY <1>4 DEF Press, Messages
  <2>2. \A j \in Modifiers : (j \in down => j \in down') /\ (IsPress(<<"keydown", k>>, j) => j \in down')
    BY <2>1 DEF IsPress
  <2> QED BY <1>0, <1>3, <2>1, <2>2, PostKeepsKeys DEF InputInv
<1>5. ASSUME NEW k \in Keys, ReleaseKey(k, "keyup") PROVE InputInv'
  <2>1. <<"keyup", k>> \in Messages /\ PostToWindow(<<"keyup", k>>) /\ down' = down \ {k}
    BY <1>5 DEF ReleaseKey, Messages
  <2>2. \A j \in Modifiers : /\ j \in down => j \in down' \/ <<"keyup", k>> = <<"keyup", j>>
                             /\ ~IsPress(<<"keyup", k>>, j)
    BY <2>1 DEF IsPress
  <2> QED BY <1>0, <1>3, <2>1, <2>2, PostKeepsKeys DEF InputInv
<1>6. CASE ReleaseKey(VK_MENU, "syskeyup")
  <2>1. /\ <<"syskeyup", VK_MENU>> \in Messages /\ PostToWindow(<<"syskeyup", VK_MENU>>)
        /\ down' = down \ {VK_MENU}
    BY <1>6 DEF ReleaseKey, Messages
  <2>2. \A j \in Modifiers : (j \in down => j \in down') /\ ~IsPress(<<"syskeyup", VK_MENU>>, j)
    BY <2>1 DEF IsPress, Modifiers, VK_MENU
  <2> QED BY <1>0, <1>3, <2>1, <2>2, PostKeepsKeys DEF InputInv
<1>7. ASSUME NEW active \in BOOLEAN, RendererPosts(active) PROVE InputInv'
  <2>1. <<"ui", active>> \in Messages /\ PostToWindow(<<"ui", active>>) /\ UNCHANGED down
    BY <1>7 DEF RendererPosts, Messages
  <2>2. \A j \in Modifiers : ~IsPress(<<"ui", active>>, j)
    BY DEF IsPress
  <2> QED BY <1>0, <1>3, <2>1, <2>2, PostKeepsKeys DEF InputInv
<1>8. ASSUME NEW f \in FrameMessages, SystemPosts(f) PROVE InputInv'
  <2>1. <<f>> \in Messages /\ PostToWindow(<<f>>) /\ UNCHANGED down
    BY <1>8 DEF SystemPosts, FrameMessages, Messages
  <2>2. \A j \in Modifiers : ~IsPress(<<f>>, j)
    BY DEF IsPress, FrameMessages
  <2> QED BY <1>0, <1>3, <2>1, <2>2, PostKeepsKeys DEF InputInv
<1>9. ASSUME UNCHANGED <<m_state, keyVars>> PROVE KeyInv'
  <2>1. \A k, i : ReleaseFrom(k, i)' <=> ReleaseFrom(k, i)
    BY <1>9 DEF keyVars, ReleaseFrom
  <2>2. KeyType' /\ PulledInv'
    BY <1>0, <1>9 DEF keyVars, KeyInv, KeyType, PulledInv, Swallows, UIMessage, isInputMessage
  <2>3. PressInv' /\ HeldInv'
    BY <1>0, <1>9, <2>1 DEF keyVars, KeyInv, PressInv, HeldInv, IsPress
  <2> QED BY <2>2, <2>3 DEF KeyInv
<1>10. CASE Polls
  <2>1. UNCHANGED <<m_state, keyVars>>
    BY <1>10 DEF Polls, inputVars
  <2> QED BY <1>0, <1>9, <1>10, <2>1, PollsKeep DEF InputInv
<1>11. CASE UNCHANGED allInputVars
  <2>1. UNCHANGED <<m_state, keyVars>>
    BY <1>11 DEF allInputVars, inputVars
  <2>2. UNCHANGED <<m_state, chain, late, told, lastKnown, opened, cursor, gClientUsesDirectInput>>
    BY <1>11 DEF allInputVars, inputVars, hookVars
  <2>3. ChainInv' /\ ToldInv'
    BY <1>0, <2>2 DEF ToldInv, NothingNew, ChainInv, AppHears, Contains, Once
  <2> QED BY <1>9, <2>1, <2>3 DEF InputInv
<1>12. KeyboardNext => InputInv'
  BY <1>1, <1>2, <1>4, <1>5, <1>6, <1>7, <1>8 DEF KeyboardNext, Listens
<1>13. PollingNext => InputInv'
  BY <1>1, <1>2, <1>7, <1>10 DEF PollingNext, Listens
<1> QED BY <1>11, <1>12, <1>13

(* It holds at first.                                                       *)
LEMMA InitInputInv == InitInput => InputInv
<1> SUFFICES ASSUME InitInput PROVE InputInv
  OBVIOUS
<1>0. m_state = FALSE
  BY DEF InitInput, InitDirectInput
<1>1. KeyInv
  <2>1. posts \in Seq(Messages) /\ pulled = NoMessage /\ hookMessagePump \in BOOLEAN
    <3> HIDE DEF Messages
    <3> QED BY DEF InitInput
  <2>11. KeyType /\ PulledInv
    BY <1>0, <2>1 DEF KeyType, PulledInv
  <2>2. PressInv
    BY DEF InitInput, PressInv, IsPress, NoMessage
  <2>3. HeldInv
    BY DEF InitInput, HeldInv
  <2> QED BY <2>11, <2>2, <2>3 DEF KeyInv
<1>2. ChainInv
  <2> DEFINE e == <<>>
  <2>1. e \in Seq(HookNames) /\ Len(e) = 0 /\ Once(e) /\ ~Contains(e, "bridge") /\ "bridge" \in HookNames
    BY DEF Once, Contains, HookNames
  <2>2. chain = e \/ chain = <<"bridge">> \o e
    BY DEF InitInput, InputWinHooksAttach
  <2> HIDE DEF e
  <2>3. chain \in Seq(HookNames) /\ Once(chain)
    BY <2>1, <2>2, Fronted
  <2> QED BY <1>0, <2>3 DEF ChainInv, InitInput
<1>3. ToldInv
  BY <1>0 DEF InitInput, ToldInv, NothingNew, Told, Nothing, Unasked, Positions, RawStates
<1> QED BY <1>1, <1>2, <1>3 DEF InputInv

(* InputWithheld, for any keys and any length of the window's queue, by     *)
(* either way of hooking: under an active UI remixMsg and the input hooks   *)
(* keep CONTROL, SHIFT and INSERT from the game, and none of them is stuck  *)
(* afterwards; its windows hooks are silent where the bridge's were set     *)
(* after them; the cursor and, without DirectInput, raw input tell nothing  *)
(* new.                                                                     *)
THEOREM InputIsWithheld == KeyboardSpec => []InputWithheld
<1>1. InputInv => InputWithheld
  <2> SUFFICES ASSUME InputInv PROVE InputWithheld
    OBVIOUS
  <2>1. NoKeyStuck
    <3> SUFFICES ASSUME NEW k \in Modifiers, k \in gameKeys \cup PolledKeys
                 PROVE  /\ ~m_state
                        /\ \/ k \in down
                           \/ pulled = <<"keyup", k>>
                           \/ \E i \in DOMAIN posts : posts[i] = <<"keyup", k>>
      BY DEF NoKeyStuck
    <3>1. DOMAIN posts = 1..Len(posts)
      BY DEF InputInv, KeyInv, KeyType
    <3>2. CASE k \in gameKeys
      BY <3>1, <3>2 DEF InputInv, KeyInv, HeldInv, ReleaseFrom
    <3>3. CASE k \in PolledKeys
      BY <3>3 DEF PolledKeys
    <3> QED BY <3>2, <3>3
  <2> QED BY <2>1 DEF InputInv, ChainInv, ToldInv, NothingNew, InputWithheld
<1> QED BY <1>1, InitInputInv, NextInputInv, PTL DEF KeyboardSpec

--------------------------------------------------------------------------------
(* The addresses of the shadow state *)

(* Numbers a setter has no parameter for are 0.                             *)
Argument(a) ==
  /\ a = <<a[1], a[2]>> /\ a[1] \in 0..SizeT - 1 /\ a[2] \in 0..SizeT - 1
  /\ slot \notin Paired => a[2] = 0
  /\ slot \in Unnumbered => a[1] = 0

(* What a getter shows of an element: lights are on or off.                 *)
Content(e) == IF e \in DOMAIN elements THEN elements[e] ELSE Default
Shown(v) == IF slot = "bLightEnables" THEN (IF v # 0 THEN 128 ELSE 0) ELSE v

(* Each element that was written shows what was last stored under the one   *)
(* argument, or for constants the one register, that has it.                *)
ElementsInv ==
  slot \notin Constants =>
    /\ DOMAIN said \subseteq Arguments[slot]
    /\ \A a \in DOMAIN said :
         /\ Within(a) /\ ElementOf(a) # NoElement /\ ElementOf(a) \in DOMAIN elements
         /\ said[a] = Shown(elements[ElementOf(a)])
    /\ \A e \in DOMAIN elements : \E a \in DOMAIN said : e = ElementOf(a)

RegistersInv ==
  slot \in Constants =>
    /\ \A x \in DOMAIN said :
         /\ x = <<x[1], 0>> /\ x[1] \in 0..getHardwareRegCount[slot] - 1
         /\ Register(slot, x[1]) \in DOMAIN elements
         /\ said[x] = elements[Register(slot, x[1])]
    /\ \A e \in DOMAIN elements : \E x \in DOMAIN said : e = Register(slot, x[1])

(* Of a shadow that was written outside its arrays nothing is said.         *)
ShadowInv ==
  /\ slot \in DOMAIN Arguments /\ strayed \in BOOLEAN
  /\ ~strayed => ElementsInv /\ RegistersInv

LEMMA ArgumentFacts ==
    ASSUME slot \in DOMAIN Arguments, NEW a \in Arguments[slot]
    PROVE  Argument(a)
  BY ShadowAssumption DEF Argument

(* The samplers of the arrays: 16 of pixel shaders, the displacement map's  *)
(* and 4 of vertex shaders.                                                 *)
LEMMA Samplers ==
    ASSUME NEW x \in Nat, ~isInvalidSamplerStage(x)
    PROVE  /\ mapSamplerStageToIdx(x) \in 0..kNumStageSamplers - 1
           /\ \A y \in Nat : ~isInvalidSamplerStage(y) /\ mapSamplerStageToIdx(y) = mapSamplerStageToIdx(x)
                => y = x
  BY DEF isInvalidSamplerStage, mapSamplerStageToIdx, kNumStageSamplers, MaxTexturesPS, MaxTexturesVS,
         D3DDMAPSAMPLER, D3DVERTEXTEXTURESAMPLER3

(* Valid transforms are numbered without gaps.                              *)
LEMMA Transforms ==
    ASSUME NEW x \in Nat, isValidD3drtansformstatetype(x)
    PROVE  /\ mapXformStateTypeToIdx(x) \in 0..MaxTransforms - 1
           /\ \A y \in Nat : isValidD3drtansformstatetype(y)
                             /\ mapXformStateTypeToIdx(y) = mapXformStateTypeToIdx(x) => y = x
  BY ShadowAssumption DEF isValidD3drtansformstatetype, mapXformStateTypeToIdx, size_t, MaxTransforms, D3DTS_VIEW,
         D3DTS_PROJECTION, D3DTS_TEXTURE0, D3DTS_TEXTURE7, D3DTS_WORLD

(* So are the texture stage states that are not refused.                    *)
LEMMA TexStageStates ==
    ASSUME NEW x \in Nat, ~(TexStageStateTypeToIdx(x) >= kMaxTexStageStateTypes)
    PROVE  /\ TexStageStateTypeToIdx(x) \in 0..kMaxTexStageStateTypes - 1
           /\ \A y \in Nat : TexStageStateTypeToIdx(y) = TexStageStateTypeToIdx(x) => y = x
  BY ShadowAssumption DEF TexStageStateTypeToIdx, kMaxTexStageStateTypes, size_t

(* And the sampler states.                                                  *)
LEMMA SamplerStates ==
    ASSUME NEW x \in 0..SizeT - 1, ~(size_t(x - 1) >= kMaxStageSamplerStateTypes)
    PROVE  x - 1 \in 0..kMaxStageSamplerStateTypes - 1
  BY ShadowAssumption DEF size_t, kMaxStageSamplerStateTypes

(* No two arguments share an element.                                       *)
LEMMA OneArgumentEach ==
    ASSUME slot \in DOMAIN Arguments, slot \notin Constants,
           NEW a \in Arguments[slot], ElementOf(a) # NoElement,
           NEW b \in Arguments[slot], ElementOf(b) = ElementOf(a)
    PROVE  b = a
<1>1. Argument(a) /\ Argument(b) /\ a[1] \in Nat /\ b[1] \in Nat /\ a[2] \in Nat /\ b[2] \in Nat
  BY ArgumentFacts, ShadowAssumption DEF Argument
<1>2. slot \in Unnumbered \cup Numbered \cup {"textureStageStates", "samplerStates"}
  BY ShadowAssumption DEF Paired
<1>3. CASE slot \in Unnumbered
  BY <1>1, <1>3 DEF Argument, Unnumbered, Paired, Constants, getHardwareRegCount
<1>4. CASE slot = "transforms"
  BY <1>1, <1>4, Transforms DEF ElementOf, NoElement, Argument, Paired, Constants, getHardwareRegCount
<1>5. CASE slot \in {"lights", "bLightEnables", "clipPlanes", "renderStates", "streams", "streamFreqs"}
  BY <1>1, <1>5 DEF ElementOf, NoElement, Argument, Paired, Constants, getHardwareRegCount
<1>6. CASE slot = "textures"
  BY <1>1, <1>6, Samplers DEF ElementOf, NoElement, Argument, Paired, Constants, getHardwareRegCount
<1>7. CASE slot = "paletteEntries"
  BY <1>1, <1>7 DEF ElementOf, SetPaletteEntries, NoElement, Argument, Paired, Constants, getHardwareRegCount
<1>8. CASE slot = "textureStageStates"
  <2>1. \A c \in {a, b} : c[1] < MaxSimultaneousTextures => ~isInvalidSamplerStage(c[1])
    BY <1>1 DEF isInvalidSamplerStage, MaxSimultaneousTextures, D3DDMAPSAMPLER, D3DVERTEXTEXTURESAMPLER3
  <2>2. \A c \in {a, b} : /\ ~(c[1] >= MaxSimultaneousTextures)
                         /\ ~(TexStageStateTypeToIdx(c[2]) >= kMaxTexStageStateTypes)
                         /\ ElementOf(c) = <<mapSamplerStageToIdx(c[1]), TexStageStateTypeToIdx(c[2])>>
    BY <1>8 DEF ElementOf
  <2>3. ~isInvalidSamplerStage(a[1]) /\ ~isInvalidSamplerStage(b[1])
    BY <1>1, <2>1, <2>2 DEF MaxSimultaneousTextures
  <2>4. mapSamplerStageToIdx(b[1]) = mapSamplerStageToIdx(a[1])
        /\ TexStageStateTypeToIdx(b[2]) = TexStageStateTypeToIdx(a[2])
    BY <2>2
  <2>5. b[1] = a[1] /\ b[2] = a[2]
    BY <1>1, <2>2, <2>3, <2>4, Samplers, TexStageStates
  <2>. QED
    BY <1>1, <2>5 DEF Argument
<1>9. CASE slot = "samplerStates"
  BY <1>1, <1>9, Samplers DEF ElementOf, NoElement, Argument
<1>. QED
  BY <1>2, <1>3, <1>4, <1>5, <1>6, <1>7, <1>8, <1>9 DEF Numbered

(* An accepted argument stays in its array.                                 *)
LEMMA InExtent ==
    ASSUME slot \in DOMAIN Arguments, slot \notin Constants, Extent # <<0, 0>>,
           NEW a \in Arguments[slot], Within(a), ElementOf(a) # NoElement
    PROVE  ElementOf(a) \in (0..(Extent[1] - 1)) \X (0..(Extent[2] - 1))
<1>1. Argument(a) /\ a[1] \in Nat /\ a[2] \in Nat
  BY ArgumentFacts, ShadowAssumption DEF Argument
<1>2. slot \in Unnumbered \cup Numbered \cup {"textureStageStates", "samplerStates"}
  BY ShadowAssumption DEF Paired
<1>3. CASE slot \in Unnumbered
  <2>1. Extent = <<1, 1>>
    BY <1>3 DEF Extent, Unnumbered
  <2>2. ElementOf(a) = <<0, 0>>
    BY <1>3 DEF ElementOf, Unnumbered, SetClipStatus, SetCurrentTexturePalette, SetGPUThreadPriority,
                SetMaximumFrameLatency
  <2>. QED
    BY <2>1, <2>2
<1>4. CASE slot = "transforms"
  <2>1. Extent = <<MaxTransforms, 1>> /\ MaxTransforms = 266
    BY <1>4 DEF Extent, MaxTransforms
  <2>. QED
    BY <1>1, <1>4, <2>1, Transforms DEF ElementOf
<1>5. CASE slot \in {"clipPlanes", "renderStates", "streams", "streamFreqs"}
  <2>1. ElementOf(a) = <<a[1], 0>>
    BY <1>5 DEF ElementOf
  <2>2. CASE slot = "clipPlanes"
    BY <1>1, <2>1, <2>2 DEF Extent, Within, MaxClipPlanes
  <2>3. CASE slot = "renderStates"
    BY <1>1, <2>1, <2>3 DEF Extent, Within, kNumRenderStates
  <2>4. CASE slot \in {"streams", "streamFreqs"}
    <3>1. Extent = <<MaxStreams, 1>>
      BY <2>4 DEF Extent
    <3>. QED
      BY <1>1, <2>1, <2>4, <3>1 DEF Within, MaxStreams
  <2>. QED
    BY <1>5, <2>2, <2>3, <2>4
<1>6. CASE slot = "textures"
  <2>1. Extent = <<kNumStageSamplers, 1>>
    BY <1>6 DEF Extent
  <2>. QED
    BY <1>1, <1>6, <2>1, Samplers DEF ElementOf
<1>7. CASE slot \in {"paletteEntries", "lights", "bLightEnables"}
  BY <1>7 DEF Extent
<1>8. CASE slot = "textureStageStates"
  <2>1. Extent = <<kNumStageSamplers, kMaxTexStageStateTypes>>
    BY <1>8 DEF Extent
  <2>2. ~isInvalidSamplerStage(a[1])
    BY <1>1, <1>8 DEF ElementOf, isInvalidSamplerStage, MaxSimultaneousTextures, D3DDMAPSAMPLER,
                      D3DVERTEXTEXTURESAMPLER3
  <2>3. /\ ~(TexStageStateTypeToIdx(a[2]) >= kMaxTexStageStateTypes)
        /\ ElementOf(a) = <<mapSamplerStageToIdx(a[1]), TexStageStateTypeToIdx(a[2])>>
    BY <1>8 DEF ElementOf
  <2>. QED
    BY <1>1, <2>1, <2>2, <2>3, Samplers, TexStageStates
<1>9. CASE slot = "samplerStates"
  <2>1. Extent = <<kNumStageSamplers, kMaxStageSamplerStateTypes>>
    BY <1>9 DEF Extent
  <2>. QED
    BY <1>1, <1>9, <2>1, Samplers, SamplerStates DEF ElementOf, Argument
<1>. QED
  BY <1>2, <1>3, <1>4, <1>5, <1>6, <1>7, <1>8, <1>9 DEF Numbered

(* A getter reads the element its setter writes.                            *)
LEMMA GetReads ==
    ASSUME slot \in DOMAIN Arguments, slot \notin Constants,
           NEW a \in Arguments[slot], ElementOf(a) # NoElement
    PROVE  Get(a) = Shown(Content(ElementOf(a)))
<1>1. Argument(a) /\ a[1] \in Nat /\ a[2] \in Nat
  BY ArgumentFacts, ShadowAssumption DEF Argument
<1>2. slot \in Unnumbered \cup Numbered \cup {"textureStageStates", "samplerStates"}
  BY ShadowAssumption DEF Paired
<1>3. CASE slot \in Unnumbered
  <2>1. ElementOf(a) = <<0, 0>>
    BY <1>3 DEF ElementOf, Unnumbered, SetClipStatus, SetCurrentTexturePalette, SetGPUThreadPriority,
                SetMaximumFrameLatency
  <2>2. Get(a) = At(0, 0)
    <3>1. CASE slot \in {"viewport", "material", "scissorRect", "vertexDecl", "vertexShader", "pixelShader",
                         "indices"}
      BY <3>1 DEF Get, GetViewport, GetMaterial, GetScissorRect, GetVertexDeclaration, GetVertexShader,
                  GetPixelShader, GetIndices
    <3>2. CASE slot \in {"clipStatus", "curTexPalette", "bSoftwareVtxProcessing", "NPatchMode", "FVF",
                         "gpuThreadPriority", "maxFrameLatency"}
      BY <3>2 DEF Get, GetClipStatus, GetCurrentTexturePalette, GetSoftwareVertexProcessing, GetNPatchMode,
                  GetFVF, GetGPUThreadPriority, GetMaximumFrameLatency
    <3>. QED
      BY <1>3, <3>1, <3>2 DEF Unnumbered
  <2>. QED
    BY <1>3, <2>1, <2>2 DEF At, Content, Shown, Unnumbered
<1>4. CASE slot = "transforms"
  <2>1. ElementOf(a) = <<mapXformStateTypeToIdx(a[1]), 0>>
    BY <1>4 DEF ElementOf
  <2>2. Get(a) = At(mapXformStateTypeToIdx(a[1]), 0)
    BY <1>4 DEF Get, GetTransform
  <2>. QED
    BY <1>4, <2>1, <2>2 DEF At, Content, Shown
<1>5. CASE slot \in {"lights", "clipPlanes", "renderStates", "streams", "streamFreqs", "paletteEntries"}
  <2>1. ElementOf(a) = <<a[1], 0>>
    BY <1>5 DEF ElementOf, SetPaletteEntries
  <2>2. Get(a) = At(a[1], 0)
    BY <1>5 DEF Get, GetLight, GetClipPlane, GetRenderState, GetStreamSource, GetStreamSourceFreq,
                GetPaletteEntries
  <2>. QED
    BY <1>5, <2>1, <2>2 DEF At, Content, Shown
<1>6. CASE slot = "bLightEnables"
  <2>1. ElementOf(a) = <<a[1], 0>>
    BY <1>6 DEF ElementOf
  <2>2. Get(a) = IF At(a[1], 0) # 0 THEN 128 ELSE 0
    BY <1>6 DEF Get, GetLightEnable
  <2>. QED
    BY <1>6, <2>1, <2>2 DEF At, Content, Shown
<1>7. CASE slot = "textures"
  <2>1. ~isInvalidSamplerStage(a[1]) /\ ElementOf(a) = <<mapSamplerStageToIdx(a[1]), 0>>
    BY <1>7 DEF ElementOf
  <2>2. Get(a) = At(mapSamplerStageToIdx(a[1]), 0)
    BY <1>7, <2>1 DEF Get, GetTexture
  <2>. QED
    BY <1>7, <2>1, <2>2 DEF At, Content, Shown
<1>8. CASE slot = "textureStageStates"
  <2>1. /\ ~(a[1] >= MaxSimultaneousTextures)
        /\ ~(TexStageStateTypeToIdx(a[2]) >= kMaxTexStageStateTypes)
        /\ ElementOf(a) = <<mapSamplerStageToIdx(a[1]), TexStageStateTypeToIdx(a[2])>>
    BY <1>8 DEF ElementOf
  <2>2. ~isInvalidSamplerStage(a[1])
    BY <1>1, <2>1 DEF isInvalidSamplerStage, MaxSimultaneousTextures, D3DDMAPSAMPLER, D3DVERTEXTEXTURESAMPLER3
  <2>3. Get(a) = At(mapSamplerStageToIdx(a[1]), TexStageStateTypeToIdx(a[2]))
    BY <1>8, <2>1, <2>2 DEF Get, GetTextureStageState
  <2>. QED
    BY <1>8, <2>1, <2>3 DEF At, Content, Shown
<1>9. CASE slot = "samplerStates"
  <2>1. /\ ~(isInvalidSamplerStage(a[1]) \/ size_t(a[2] - 1) >= kMaxStageSamplerStateTypes)
        /\ ElementOf(a) = <<mapSamplerStageToIdx(a[1]), a[2] - 1>>
    BY <1>9 DEF ElementOf
  <2>2. Get(a) = At(mapSamplerStageToIdx(a[1]), a[2] - 1)
    BY <1>9, <2>1 DEF Get, GetSamplerState
  <2>. QED
    BY <1>9, <2>1, <2>2 DEF At, Content, Shown
<1>. QED
  BY <1>2, <1>3, <1>4, <1>5, <1>6, <1>7, <1>8, <1>9 DEF Numbered

(* Shader constants: a range is cut at the hardware's registers, and every  *)
(* register has an element of its own, inside the array.                    *)
LEMMA Registers ==
    ASSUME slot \in Constants
    PROVE  /\ getHardwareRegCount[slot] \in Nat
           /\ \A r, s \in 0..getHardwareRegCount[slot] - 1 : Register(slot, r) = Register(slot, s) => r = s
           /\ \A r \in 0..getHardwareRegCount[slot] - 1 :
                Register(slot, r) \in (0..(Extent[1] - 1)) \X (0..(Extent[2] - 1))
<1>1. slot \in {"vertexF", "vertexI", "vertexB", "pixelF", "pixelI", "pixelB"}
  BY DEF Constants, getHardwareRegCount
<1>2. CASE slot \in {"vertexB", "pixelB"}
  <2>1. getHardwareRegCount[slot] = 16
    BY <1>2 DEF getHardwareRegCount
  <2>2. \A r \in 0..15 : Register(slot, r) = <<0, r>>
    BY <1>2, ShadowAssumption DEF Register, size_t
  <2>3. Extent = <<64, 32>> \/ Extent = <<1, 32>>
    <3>1. CASE slot = "vertexB"
      <4>1. 2048 \div 32 = 64
        OBVIOUS
      <4>. QED
        BY <3>1, <4>1 DEF Extent
    <3>2. CASE slot = "pixelB"
      BY <3>2 DEF Extent
    <3>. QED
      BY <1>2, <3>1, <3>2
  <2>. QED
    BY <2>1, <2>2, <2>3
<1>3. CASE slot \in {"vertexF", "vertexI", "pixelF", "pixelI"}
  <2>1. \A r : Register(slot, r) = <<size_t(r), 0>>
    BY <1>3 DEF Register
  <2>2. Extent = <<getSoftwareRegCount[slot], 1>>
    BY <1>3 DEF Extent
  <2>3. /\ getHardwareRegCount[slot] \in Nat /\ getSoftwareRegCount[slot] \in Nat
        /\ getHardwareRegCount[slot] <= getSoftwareRegCount[slot]
        /\ getSoftwareRegCount[slot] <= 8192
    BY <1>3 DEF getHardwareRegCount, getSoftwareRegCount
  <2>4. \A r \in 0..getHardwareRegCount[slot] - 1 : size_t(r) = r
    BY <2>3, ShadowAssumption DEF size_t
  <2>. QED
    BY <2>1, <2>2, <2>3, <2>4
<1>. QED
  BY <1>1, <1>2, <1>3

(* The INT difference of two numbers of registers is the difference.        *)
LEMMA SmallMod ==
    ASSUME NEW size \in Nat, size > 32768, NEW d \in Nat, d <= 8192
    PROVE  d % size = d /\ d < size \div 2
  OBVIOUS

LEMMA NegativeMod ==
    ASSUME NEW size \in Nat, size > 32768, NEW d \in Nat, d <= 8192, d > 0
    PROVE  (-d) % size = size - d /\ size - d >= size \div 2
  OBVIOUS

LEMMA SignedDifference ==
    ASSUME NEW x \in Nat, NEW y \in Nat, x <= 8192, y <= 8192
    PROVE  Signed(size_t(x - y)) = x - y
<1>1. SizeT \in Nat /\ SizeT > 32768
  BY ShadowAssumption
<1>2. CASE x >= y
  <2>1. PICK d \in Nat : d = x - y /\ d <= 8192
    BY <1>2
  <2>2. d % SizeT = d /\ d < SizeT \div 2
    BY <1>1, <2>1, SmallMod
  <2>. QED
    BY <1>1, <2>1, <2>2 DEF Signed, size_t
<1>3. CASE x < y
  <2>1. PICK d \in Nat : x - y = -d /\ d <= 8192 /\ d > 0
    BY <1>3
  <2>2. (-d) % SizeT = SizeT - d /\ SizeT - d >= SizeT \div 2
    BY <1>1, <2>1, NegativeMod
  <2>3. size_t(x - y) = SizeT - d
    BY <2>1, <2>2 DEF size_t
  <2>. QED
    BY <1>1, <2>1, <2>2, <2>3 DEF Signed
<1>. QED
  BY <1>2, <1>3

(* A sum that is not refused and where it is cut.                           *)
LEMMA CutFacts ==
    ASSUME NEW x \in Nat, NEW y \in Nat, NEW h \in Nat, NEW s \in Nat, h <= s, s <= 8192, x + y <= s,
           NEW end, end = IF x + y > h THEN h ELSE x + y
    PROVE  x <= 8192 /\ end \in Nat /\ end <= 8192 /\ end <= h
  OBVIOUS

LEMMA Ranges ==
    ASSUME slot \in DOMAIN Arguments, slot \in Constants, NEW a \in Arguments[slot], Within(a),
           commonGetSetConstants(slot, a[1], a[2]) # Refused
    PROVE  /\ a[1] \in Nat /\ commonGetSetConstants(slot, a[1], a[2]) \in Nat
           /\ a[1]..(a[1] + commonGetSetConstants(slot, a[1], a[2]) - 1) \subseteq 0..getHardwareRegCount[slot] - 1
<1>1. a[1] \in Nat /\ a[2] \in Nat
  BY ArgumentFacts, ShadowAssumption DEF Argument
<1>2. /\ getHardwareRegCount[slot] \in Nat /\ getSoftwareRegCount[slot] \in Nat
      /\ getHardwareRegCount[slot] <= getSoftwareRegCount[slot]
      /\ getSoftwareRegCount[slot] <= 8192
  BY DEF Constants, getHardwareRegCount, getSoftwareRegCount
<1>3. size_t(a[1] + a[2]) = a[1] + a[2]
  <2>1. a[1] + a[2] \in 0..SizeT - 1 /\ SizeT \in Nat
    BY <1>1, ShadowAssumption DEF Within
  <2>. QED
    BY <2>1 DEF size_t
<1>4. a[1] + a[2] <= getSoftwareRegCount[slot]
  BY <1>1, <1>2, <1>3 DEF commonGetSetConstants, Refused
<1>5. PICK end : end = IF a[1] + a[2] > getHardwareRegCount[slot] THEN getHardwareRegCount[slot] ELSE a[1] + a[2]
  OBVIOUS
<1>6. a[1] <= 8192 /\ end \in Nat /\ end <= 8192 /\ end <= getHardwareRegCount[slot]
  BY <1>1, <1>2, <1>4, <1>5, CutFacts
<1>7. commonGetSetConstants(slot, a[1], a[2])
        = IF Signed(size_t(end - a[1])) < 0 THEN 0 ELSE Signed(size_t(end - a[1]))
  BY <1>1, <1>2, <1>3, <1>4, <1>5 DEF commonGetSetConstants
<1>8. Signed(size_t(end - a[1])) = end - a[1]
  BY <1>1, <1>6, SignedDifference
<1>. QED
  BY <1>1, <1>2, <1>6, <1>7, <1>8

(* Storing a value in an argument's element and writing it down keeps the   *)
(* other arguments' values, since their elements are others.                *)
LEMMA StoredElement ==
    ASSUME ShadowInv, slot \notin Constants, NEW a \in Arguments[slot], ElementOf(a) # NoElement, NEW v,
           elements' = With(elements, ElementOf(a), v), said' = With(said, a, Shown(v)), slot' = slot,
           strayed' = (strayed \/ ~Within(a))
    PROVE  ShadowInv'
<1>0. SUFFICES ASSUME ~strayed' PROVE (ElementsInv /\ RegistersInv)'
  BY DEF ShadowInv
<1>in. Within(a) /\ ~strayed
  BY <1>0 DEF ShadowInv
<1>1. /\ DOMAIN elements' = DOMAIN elements \cup {ElementOf(a)}
      /\ elements'[ElementOf(a)] = v
      /\ \A e \in DOMAIN elements \ {ElementOf(a)} : elements'[e] = elements[e]
  BY DEF With, Overwritten
<1>2. /\ DOMAIN said' = DOMAIN said \cup {a}
      /\ said'[a] = Shown(v)
      /\ \A b \in DOMAIN said \ {a} : said'[b] = said[b]
  BY DEF With, Overwritten
<1>3. \A b : ElementOf(b)' = ElementOf(b) /\ (Within(b)' <=> Within(b))
  BY DEF ElementOf, Within
<1>4. \A w : Shown(w)' = Shown(w)
  BY DEF Shown
<1>5. ASSUME NEW b \in DOMAIN said'
      PROVE  /\ b \in Arguments[slot]
             /\ Within(b) /\ ElementOf(b) # NoElement /\ ElementOf(b) \in DOMAIN elements'
             /\ said'[b] = Shown(elements'[ElementOf(b)])
  <2>1. CASE b = a
    BY <1>1, <1>2, <1>in, <2>1
  <2>2. CASE b # a
    <3>1. b \in DOMAIN said
      BY <1>2, <2>2
    <3>2. /\ b \in Arguments[slot] /\ Within(b)
          /\ ElementOf(b) # NoElement /\ ElementOf(b) \in DOMAIN elements
          /\ said[b] = Shown(elements[ElementOf(b)])
      BY <1>in, <3>1 DEF ShadowInv, ElementsInv
    <3>3. ElementOf(b) # ElementOf(a)
      BY <2>2, <3>2, OneArgumentEach DEF ShadowInv
    <3>4. elements'[ElementOf(b)] = elements[ElementOf(b)] /\ said'[b] = said[b]
      BY <1>1, <1>2, <2>2, <3>1, <3>2, <3>3
    <3>. QED
      BY <1>1, <3>2, <3>4
  <2>. QED
    BY <2>1, <2>2
<1>6. ASSUME NEW e \in DOMAIN elements'
      PROVE  \E b \in DOMAIN said' : e = ElementOf(b)
  <2>1. CASE e = ElementOf(a)
    BY <1>2, <2>1
  <2>2. CASE e # ElementOf(a)
    BY <1>1, <1>2, <1>in, <2>2 DEF ShadowInv, ElementsInv
  <2>. QED
    BY <2>1, <2>2
<1>7. ElementsInv'
  BY <1>3, <1>4, <1>5, <1>6 DEF ElementsInv
<1>8. RegistersInv'
  BY DEF RegistersInv
<1>. QED
  BY <1>7, <1>8

(* Storing a range of constants keeps the registers outside it.             *)
LEMMA StoredRange ==
    ASSUME ShadowInv, NEW a \in Arguments[slot], NEW v, setShaderConstants(a, v)
    PROVE  ShadowInv'
<1> DEFINE range == a[1]..(a[1] + commonGetSetConstants(slot, a[1], a[2]) - 1)
           Value(r) == (v + r - a[1]) % 2
           g == [e \in {Register(slot, r) : r \in range} |->
                   (v + (CHOOSE r \in range : Register(slot, r) = e) - a[1]) % 2]
           h == [r \in {<<x, 0>> : x \in range} |-> (v + r[1] - a[1]) % 2]
<1>0. SUFFICES ASSUME ~strayed' PROVE (ElementsInv /\ RegistersInv)'
  BY DEF ShadowInv, setShaderConstants
<1>in. Within(a) /\ ~strayed
  BY <1>0 DEF ShadowInv, setShaderConstants
<1>1. /\ slot \in Constants /\ slot' = slot /\ slot \in DOMAIN Arguments
      /\ elements' = Overwritten(elements, g) /\ said' = Overwritten(said, h)
      /\ range \subseteq 0..getHardwareRegCount[slot] - 1
  BY <1>in, Ranges DEF setShaderConstants, ShadowInv
<1>2. \A r, s \in 0..getHardwareRegCount[slot] - 1 : Register(slot, r) = Register(slot, s) => r = s
  BY <1>1, Registers
<1>3. ASSUME NEW r \in range
      PROVE  Register(slot, r) \in DOMAIN g /\ g[Register(slot, r)] = Value(r)
  <2>1. (CHOOSE s \in range : Register(slot, s) = Register(slot, r)) = r
    BY <1>1, <1>2
  <2>2. g[Register(slot, r)] = (v + (CHOOSE s \in range : Register(slot, s) = Register(slot, r)) - a[1]) % 2
    OBVIOUS
  <2>. QED
    BY <2>1, <2>2
<1>4. \A r \in range : <<r, 0>> \in DOMAIN h /\ h[<<r, 0>>] = Value(r)
  OBVIOUS
<1>5. /\ \A e \in DOMAIN g : \E r \in range : e = Register(slot, r)
      /\ \A x \in DOMAIN h : \E r \in range : x = <<r, 0>>
  OBVIOUS
<1>6. /\ DOMAIN elements' = DOMAIN elements \cup DOMAIN g
      /\ \A e \in DOMAIN g : elements'[e] = g[e]
      /\ \A e \in DOMAIN elements \ DOMAIN g : elements'[e] = elements[e]
      /\ DOMAIN said' = DOMAIN said \cup DOMAIN h
      /\ \A x \in DOMAIN h : said'[x] = h[x]
      /\ \A x \in DOMAIN said \ DOMAIN h : said'[x] = said[x]
  <2> HIDE DEF range, Value, g, h
  <2> QED
    BY <1>1 DEF Overwritten
<1> HIDE DEF range, Value, g, h
<1>7. ASSUME NEW x \in DOMAIN said'
      PROVE  /\ x = <<x[1], 0>> /\ x[1] \in 0..getHardwareRegCount[slot] - 1
             /\ Register(slot, x[1]) \in DOMAIN elements'
             /\ said'[x] = elements'[Register(slot, x[1])]
  <2>1. CASE x \in DOMAIN h
    <3>1. PICK r \in range : x = <<r, 0>>
      BY <1>5, <2>1
    <3>2. x = <<x[1], 0>> /\ x[1] = r
      BY <3>1
    <3>3. Register(slot, r) \in DOMAIN g /\ elements'[Register(slot, r)] = Value(r) /\ said'[x] = Value(r)
      BY <1>3, <1>4, <1>6, <2>1, <3>1
    <3>. QED
      BY <1>1, <1>6, <3>2, <3>3
  <2>2. CASE x \notin DOMAIN h
    <3>1. /\ x \in DOMAIN said
          /\ x = <<x[1], 0>> /\ x[1] \in 0..getHardwareRegCount[slot] - 1
          /\ Register(slot, x[1]) \in DOMAIN elements
          /\ said[x] = elements[Register(slot, x[1])]
      BY <1>in, <1>1, <1>6, <2>2 DEF ShadowInv, RegistersInv
    <3>2. Register(slot, x[1]) \notin DOMAIN g
      <4>1. SUFFICES ASSUME Register(slot, x[1]) \in DOMAIN g PROVE FALSE
        OBVIOUS
      <4>2. PICK r \in range : Register(slot, x[1]) = Register(slot, r)
        BY <1>5, <4>1
      <4>3. x[1] = r
        BY <1>1, <1>2, <3>1, <4>2
      <4>. QED
        BY <1>4, <2>2, <3>1, <4>3
    <3>. QED
      BY <1>6, <2>2, <3>1, <3>2
  <2>. QED
    BY <2>1, <2>2
<1>8. ASSUME NEW e \in DOMAIN elements'
      PROVE  \E x \in DOMAIN said' : e = Register(slot, x[1])
  <2>1. CASE e \in DOMAIN g
    <3>1. PICK r \in range : e = Register(slot, r)
      BY <1>5, <2>1
    <3>2. <<r, 0>> \in DOMAIN said' /\ <<r, 0>>[1] = r
      BY <1>4, <1>6
    <3>. QED
      BY <3>1, <3>2
  <2>2. CASE e \notin DOMAIN g
    BY <1>in, <1>1, <1>6, <2>2 DEF ShadowInv, RegistersInv
  <2>. QED
    BY <2>1, <2>2
<1>9. RegistersInv'
  BY <1>1, <1>7, <1>8 DEF RegistersInv
<1>10. ElementsInv'
  BY <1>1 DEF ElementsInv
<1>. QED
  BY <1>9, <1>10

(* A shadow without elements answers the default for everything.            *)
LEMMA InitShadowInv == InitShadow => ShadowInv
<1> SUFFICES ASSUME InitShadow PROVE ShadowInv
  OBVIOUS
<1>1. slot \in DOMAIN Arguments /\ strayed = FALSE /\ DOMAIN said = {} /\ DOMAIN elements = {}
  BY DEF InitShadow
<1>2. ElementsInv
  BY <1>1 DEF ElementsInv
<1>3. RegistersInv
  BY <1>1 DEF RegistersInv
<1>. QED
  BY <1>1, <1>2, <1>3 DEF ShadowInv

LEMMA NextShadowInv == ShadowInv /\ [ShadowNext]_shadowVars => ShadowInv'
<1> SUFFICES ASSUME ShadowInv, [ShadowNext]_shadowVars PROVE ShadowInv'
  OBVIOUS
<1>1. ASSUME NEW a \in Arguments[slot], NEW v \in 0..1, Set(a, v)
      PROVE  ShadowInv'
  <2>1. (IF slot = "bLightEnables" /\ v # 0 THEN 128 ELSE v) = Shown(v)
    BY DEF Shown
  <2>. QED
    BY <1>1, <2>1, StoredElement DEF Set
<1>2. ASSUME NEW a \in Arguments[slot], NEW v \in 0..1, setShaderConstants(a, v)
      PROVE  ShadowInv'
  BY <1>2, StoredRange
<1>3. ASSUME NEW a \in Arguments[slot], NEW v \in 0..1, MultiplyTransform(a, v)
      PROVE  ShadowInv'
  <2>1. PICK product : /\ elements' = With(elements, <<mapXformStateTypeToIdx(a[1]), 0>>, product)
                       /\ said' = With(said, a, product)
    BY <1>3 DEF MultiplyTransform
  <2>2. slot = "transforms" /\ slot' = slot /\ strayed' = (strayed \/ ~Within(a))
    BY <1>3 DEF MultiplyTransform
  <2> SUFFICES ASSUME Within(a) PROVE ShadowInv'
    BY <2>2 DEF ShadowInv
  <2>v. isValidD3drtansformstatetype(a[1])
    BY <2>2 DEF Within
  <2>3. ElementOf(a) = <<mapXformStateTypeToIdx(a[1]), 0>> /\ Shown(product) = product
    BY <2>2, <2>v DEF ElementOf, Shown
  <2>4. a[1] \in Nat
    BY ArgumentFacts, ShadowAssumption DEF Argument, ShadowInv
  <2>5. ElementOf(a) # NoElement
    BY <2>2, <2>v, <2>3, <2>4, Transforms DEF NoElement
  <2>6. slot \notin Constants
    BY <2>2 DEF Constants, getHardwareRegCount
  <2>. QED
    BY <2>1, <2>2, <2>3, <2>5, <2>6, StoredElement
<1>4. CASE UNCHANGED <<slot, elements, said, strayed>>
  <2>1. \A a : ElementOf(a)' = ElementOf(a) /\ (Within(a)' <=> Within(a))
    BY <1>4 DEF ElementOf, Within
  <2>2. \A v : Shown(v)' = Shown(v)
    BY <1>4 DEF Shown
  <2>. QED
    BY <1>4, <2>1, <2>2 DEF ShadowInv, ElementsInv, RegistersInv
<1>5. CASE ReleaseObject \/ \E a \in Arguments[slot] : GetObject(a)
  BY <1>4, <1>5 DEF ReleaseObject, GetObject
<1>6. CASE UNCHANGED shadowVars
  BY <1>4, <1>6 DEF shadowVars
<1>. QED
  BY <1>1, <1>2, <1>3, <1>5, <1>6 DEF ShadowNext

(* For any arguments and any number of calls, as long as none of the        *)
(* unchecked setters gets an argument Direct3D does not have and no range   *)
(* of constants wraps: a getter answers what was last stored under its      *)
(* arguments, register by register for constants, and no setter writes      *)
(* outside its array.                                                       *)
THEOREM GettersAnswer == ShadowSpec => []GetReturnsSet
<1>1. ASSUME ShadowInv PROVE GetReturnsSet
  <2> SUFFICES ASSUME ~strayed PROVE GetReturnsSet
    BY DEF GetReturnsSet
  <2>1. ASSUME Extent # <<0, 0>>
        PROVE  DOMAIN elements \subseteq (0..(Extent[1] - 1)) \X (0..(Extent[2] - 1))
    <3>1. CASE slot \in Constants
      BY <1>1, <3>1, Registers DEF ShadowInv, RegistersInv
    <3>2. CASE slot \notin Constants
      BY <1>1, <2>1, <3>2, InExtent DEF ShadowInv, ElementsInv
    <3>. QED
      BY <3>1, <3>2
  <2>2. ASSUME slot \notin Constants, NEW a \in Arguments[slot], Within(a), ElementOf(a) # NoElement
        PROVE  Get(a) = IF a \in DOMAIN said THEN said[a] ELSE Default
    <3>1. Get(a) = Shown(Content(ElementOf(a)))
      BY <1>1, <2>2, GetReads DEF ShadowInv
    <3>2. CASE a \in DOMAIN said
      BY <1>1, <2>2, <3>1, <3>2 DEF ShadowInv, ElementsInv, Content
    <3>3. CASE a \notin DOMAIN said
      <4>1. ElementOf(a) \notin DOMAIN elements
        BY <1>1, <2>2, <3>3, OneArgumentEach DEF ShadowInv, ElementsInv
      <4>. QED
        BY <3>1, <3>3, <4>1 DEF Content, Shown, Default
    <3>. QED
      BY <3>2, <3>3
  <2>3. ASSUME slot \in Constants, NEW a \in Arguments[slot], Within(a),
               commonGetSetConstants(slot, a[1], a[2]) # Refused
        PROVE  \A r \in DOMAIN GetRange(a) :
                 GetRange(a)[r] = IF <<r, 0>> \in DOMAIN said THEN said[<<r, 0>>] ELSE Default
    <3> DEFINE range == a[1]..(a[1] + commonGetSetConstants(slot, a[1], a[2]) - 1)
    <3>1. GetRange(a) = getShaderConstants(slot, a)
      BY <2>3 DEF GetRange, Constants, getHardwareRegCount, GetVertexShaderConstantF, GetVertexShaderConstantI,
                  GetVertexShaderConstantB, GetPixelShaderConstantF, GetPixelShaderConstantI,
                  GetPixelShaderConstantB
    <3>2. \A r : Register(slot, r) = <<Register(slot, r)[1], Register(slot, r)[2]>>
      BY DEF Register
    <3>3. /\ DOMAIN GetRange(a) = range
          /\ \A r \in range : GetRange(a)[r] = Content(Register(slot, r))
      BY <3>1, <3>2 DEF getShaderConstants, At, Content
    <3>4. range \subseteq 0..getHardwareRegCount[slot] - 1
      BY <1>1, <2>3, Ranges DEF ShadowInv
    <3> HIDE DEF range
    <3>5. ASSUME NEW r \in range
          PROVE  Content(Register(slot, r)) = IF <<r, 0>> \in DOMAIN said THEN said[<<r, 0>>] ELSE Default
      <4>1. CASE <<r, 0>> \in DOMAIN said
        <5>1. <<r, 0>>[1] = r
          OBVIOUS
        <5>. QED
          BY <1>1, <2>3, <4>1, <5>1 DEF ShadowInv, RegistersInv, Content
      <4>2. CASE <<r, 0>> \notin DOMAIN said
        <5>1. Register(slot, r) \notin DOMAIN elements
          BY <1>1, <2>3, <3>4, <4>2, Registers DEF ShadowInv, RegistersInv
        <5>. QED
          BY <4>2, <5>1 DEF Content
      <4>. QED
        BY <4>1, <4>2
    <3>. QED
      BY <3>3, <3>5
  <2>. QED
    BY <2>1, <2>2, <2>3 DEF GetReturnsSet
<1>. QED
  BY <1>1, InitShadowInv, NextShadowInv, PTL DEF ShadowSpec

--------------------------------------------------------------------------------
(* The size of a shader *)

(* Induction over the numbers, as a fact about a set of them.               *)
LEMMA LessWF == IsWellFoundedOn({p \in Nat \X Nat : p[1] < p[2]}, Nat)
  BY NatLessThanWellFounded DEF OpToRel

LEMMA NatSetInduction ==
  ASSUME NEW S, 0 \in S, \A n \in Nat : n \in S => n + 1 \in S
  PROVE  Nat \subseteq S
<1> DEFINE T == Nat \ S
           R == {p \in Nat \X Nat : p[1] < p[2]}
<1> SUFFICES ASSUME T # {} PROVE FALSE
  OBVIOUS
<1>1. T \subseteq Nat /\ IsWellFoundedOn(R, Nat)
  BY LessWF
<1>2. \E x \in T : \A y \in T : ~(<<y, x>> \in R)
  <2> HIDE DEF T, R
  <2> QED BY <1>1, WFMin, Zenon
<1>3. PICK x \in T : \A y \in T : ~(<<y, x>> \in R)
  BY <1>2
<1>4. x \in Nat /\ x # 0
  OBVIOUS
<1>5. x - 1 \in Nat /\ x - 1 + 1 = x /\ x - 1 < x
  BY <1>4
<1>6. x - 1 \in T
  BY <1>5, <1>4
<1>7. <<x - 1, x>> \in R
  BY <1>4, <1>5
<1> QED BY <1>3, <1>6, <1>7

(* FlattenSeq's partial results: the function it is defined by exists for   *)
(* any sequence of sequences.                                               *)
Flattened(seqs, n, f) ==
  f = [i \in 1..n |-> IF i = 1 THEN seqs[i] ELSE f[i-1] \o seqs[i]]

LEMMA FlattenedExists ==
  ASSUME NEW seqs
  PROVE  \A n \in Nat : \E f : Flattened(seqs, n, f)
<1> DEFINE S == {n \in Nat : \E f : Flattened(seqs, n, f)}
<1>1. 0 \in S
  <2>1. Flattened(seqs, 0, [i \in 1..0 |-> seqs[i]])
    BY DEF Flattened
  <2> QED BY <2>1
<1>2. ASSUME NEW n \in Nat, n \in S
      PROVE  n + 1 \in S
  <2>1. PICK f : Flattened(seqs, n, f)
    BY <1>2
  <2> DEFINE g == [i \in 1..(n + 1) |-> IF i = n + 1 THEN IF i = 1 THEN seqs[i] ELSE f[i-1] \o seqs[i] ELSE f[i]]
  <2>2. \A i \in 1..(n+1) : g[i] = IF i = 1 THEN seqs[i] ELSE g[i-1] \o seqs[i]
    <3> TAKE i \in 1..(n+1)
    <3>1. CASE i = n + 1
      <4>1. CASE i = 1 BY <3>1, <4>1
      <4>2. CASE i # 1
        <5>1. i - 1 \in 1..n /\ i - 1 # n + 1 BY <3>1, <4>2
        <5>2. g[i-1] = f[i-1] BY <5>1
        <5> QED BY <3>1, <4>2, <5>2
      <4> QED BY <4>1, <4>2
    <3>2. CASE i # n + 1
      <4>0. i \in 1..n BY <3>2
      <4>1. f[i] = IF i = 1 THEN seqs[i] ELSE f[i-1] \o seqs[i]
        BY <2>1, <4>0 DEF Flattened
      <4>2. CASE i = 1 BY <3>2, <4>1, <4>2
      <4>3. CASE i # 1
        <5>1. i - 1 \in 1..(n+1) /\ i - 1 # n + 1 BY <4>3
        <5>2. g[i-1] = f[i-1] BY <5>1
        <5> QED BY <3>2, <4>1, <4>3, <5>2
      <4> QED BY <4>2, <4>3
    <3> QED BY <3>1, <3>2
  <2>3. Flattened(seqs, n + 1, g)
    <3> HIDE DEF g
    <3>1. g = [i \in 1..(n + 1) |-> g[i]]
      BY DEF g
    <3> QED BY <2>2, <3>1 DEF Flattened
  <2> QED BY <2>3
<1>3. Nat \subseteq S
  <2> HIDE DEF S
  <2> QED BY <1>1, <1>2, NatSetInduction
<1> QED BY <1>3

LEMMA FlattenSeqIs ==
  ASSUME NEW seqs, Len(seqs) \in Nat \ {0}
  PROVE  \E f : Flattened(seqs, Len(seqs), f) /\ FlattenSeq(seqs) = f[Len(seqs)]
<1> DEFINE n == Len(seqs)
<1>1. PICK f : Flattened(seqs, n, f)
  BY FlattenedExists
<1>2. Flattened(seqs, n, CHOOSE g : g = [i \in 1..n |-> IF i = 1 THEN seqs[i] ELSE g[i-1] \o seqs[i]])
  BY <1>1 DEF Flattened
<1> QED BY <1>2 DEF FlattenSeq

(* A token, as the walk looks at it.                                        *)
Token == [opcode : Nat, length : Nat]

(* A step over the first token comes to the end of the instruction, or to  *)
(* its last word and then to its end.                                      *)
Stepped(v, s) ==
  LET size == getShaderInstructionSize(v, s[1])
  IN \/ size = Len(s)
     \/ /\ size = Len(s) - 1 /\ size >= 1
        /\ s[Len(s)].opcode # D3DSIO_END
        /\ getShaderInstructionSize(v, s[Len(s)]) = 1

(* What the walk relies on of an instruction: it does not begin like an END *)
(* and is stepped over.                                                     *)
Instruction(v, s) ==
  /\ s \in Seq(Token) /\ Len(s) >= 1
  /\ s[1].opcode # D3DSIO_END
  /\ Stepped(v, s)

(* The first token, the size and the rest of a sequence, as one fact.       *)
FirstAndRest(s, first, n, w) ==
  /\ s \in Seq(Token) /\ Len(s) = n + 1 /\ s[1] = first
  /\ \A i \in 1..n : s[i + 1] = w[i]

(* An instruction is its first token and the words after it.                *)
LEMMA FirstAndRestOf ==
  ASSUME NEW first \in Token, NEW n \in Nat, NEW w \in Seq(Token), Len(w) = n
  PROVE  FirstAndRest(<<first>> \o w, first, n, w)
<1>1. <<first>> \in Seq(Token) /\ Len(<<first>>) = 1 /\ <<first>>[1] = first
  OBVIOUS
<1> QED BY <1>1, ConcatProperties DEF FirstAndRest

LEMMA WordsAre ==
  ASSUME NEW n \in Nat, NEW low \in Nat
  PROVE  /\ Words(n, low) \in Seq(Token) /\ Len(Words(n, low)) = n
         /\ \A i \in 1..n : Words(n, low)[i] = [opcode |-> low, length |-> 0]
<1>1. [opcode |-> low, length |-> 0] \in Token
  BY DEF Token
<1> HIDE DEF Token
<1> QED BY <1>1 DEF Words

LEMMA FirstOfWords ==
  ASSUME NEW first \in Token, NEW n \in Nat, NEW low \in Nat
  PROVE  \E w : FirstAndRest(<<first>> \o Words(n, low), first, n, w)
<1>1. PICK w : w = Words(n, low)
  OBVIOUS
<1>2. w \in Seq(Token) /\ Len(w) = n
  BY <1>1, WordsAre, Zenon
<1> QED BY <1>1, <1>2, FirstAndRestOf, Zenon

(* The table of sizes agrees with the instruction set, but for a def: it    *)
(* has one word more than the table says.                                   *)
LEMMA OperandSizes ==
  ASSUME NEW n \in 0..5, NEW op \in OperandTable[n], NEW token, token.opcode = op
  PROVE  /\ op \in Nat /\ op # D3DSIO_END
         /\ op # D3DSIO_DEF => n # 5
         /\ getShaderInstructionSize(1, token) = IF op = D3DSIO_DEF THEN 5 ELSE n + 1
<1>1. op \in Nat /\ op # D3DSIO_END /\ op # D3DSIO_COMMENT
  BY DEF OperandTable, D3DSIO_END, D3DSIO_COMMENT, D3DSIO_DEF
<1>2. op = D3DSIO_DEF <=> n = 5
  BY DEF OperandTable, D3DSIO_DEF
<1>3. op # \hFFFD => \A m \in 1..5 : op \in SizeTable[m] <=> m = IF n = 5 THEN 5 ELSE n + 1
  <2>1. n = 0 /\ op # \hFFFD => \A m \in 1..5 : op \in SizeTable[m] <=> m = 1
    BY DEF OperandTable, SizeTable
  <2>2. n = 1 => \A m \in 1..5 : op \in SizeTable[m] <=> m = 2
    BY DEF OperandTable, SizeTable
  <2>3. n = 2 => \A m \in 1..5 : op \in SizeTable[m] <=> m = 3
    BY DEF OperandTable, SizeTable
  <2>4. n = 3 => \A m \in 1..5 : op \in SizeTable[m] <=> m = 4
    BY DEF OperandTable, SizeTable
  <2>5. n = 4 => \A m \in 1..5 : op \in SizeTable[m] <=> m = 5
    BY DEF OperandTable, SizeTable
  <2>6. n = 5 => \A m \in 1..5 : op \in SizeTable[m] <=> m = 5
    BY DEF OperandTable, SizeTable, D3DSIO_DEF
  <2> QED BY <2>1, <2>2, <2>3, <2>4, <2>5, <2>6
<1>4. op = \hFFFD => n = 0 /\ \A m \in 1..5 : op \notin SizeTable[m]
  BY DEF OperandTable, SizeTable, D3DSIO_DEF
<1>5. DOMAIN SizeTable = 1..5
  BY DEF SizeTable
<1>6. getShaderInstructionSize(1, token) = IF n = 5 THEN 5 ELSE n + 1
  <2> HIDE DEF SizeTable
  <2>1. getShaderInstructionSize(1, token) =
          IF \E m \in 1..5 : op \in SizeTable[m] THEN CHOOSE m \in 1..5 : op \in SizeTable[m] ELSE 1
    BY <1>1, <1>5 DEF getShaderInstructionSize
  <2>2. CASE op = \hFFFD
    BY <2>1, <2>2, <1>4
  <2>3. CASE op # \hFFFD
    <3> DEFINE size == IF n = 5 THEN 5 ELSE n + 1
    <3>1. size \in 1..5 /\ \A m \in 1..5 : op \in SizeTable[m] <=> m = size
      BY <2>3, <1>3
    <3> HIDE DEF size
    <3>2. (CHOOSE m \in 1..5 : op \in SizeTable[m]) = size
      BY <3>1
    <3> QED BY <2>1, <3>1, <3>2 DEF size
  <2> QED BY <2>2, <2>3
<1> QED BY <1>1, <1>2, <1>6

LEMMA OperandsIs ==
  ASSUME NEW op \in DOMAIN Operands
  PROVE  Operands[op] \in 0..5 /\ op \in OperandTable[Operands[op]]
<1>1. op \in UNION {OperandTable[n] : n \in 0..5} /\ Operands[op] = CHOOSE n \in 0..5 : op \in OperandTable[n]
  BY DEF Operands
<1>2. PICK n \in 0..5 : op \in OperandTable[n]
  BY <1>1
<1> HIDE DEF OperandTable
<1> QED BY <1>1, <1>2

(* Every instruction of the model is one the walk steps over.               *)
LEMMA CommentIs ==
  ASSUME NEW v \in 1..3, NEW n \in Lengths, NEW low \in Look
  PROVE  Instruction(v, Comment(n, low))
<1> DEFINE first == [opcode |-> D3DSIO_COMMENT, length |-> n]
<1>1. n \in Nat /\ low \in Nat
  BY ShadersAssumption DEF Look, D3DSIO_END, D3DSIO_NOP
<1>2. first \in Token
  BY <1>1 DEF Token, D3DSIO_COMMENT
<1>3. getShaderInstructionSize(v, first) = n + 1 /\ first.opcode # D3DSIO_END
  BY DEF getShaderInstructionSize, D3DSIO_COMMENT, D3DSIO_END
<1>4. Comment(n, low) = <<first>> \o Words(n, low)
  BY DEF Comment
<1> HIDE DEF first
<1>5. \E w : FirstAndRest(Comment(n, low), first, n, w)
  BY <1>1, <1>2, <1>4, FirstOfWords, Zenon
<1> QED BY <1>1, <1>3, <1>5 DEF Instruction, Stepped, FirstAndRest

LEMMA WithLengthIs ==
  ASSUME NEW v \in 2..3, NEW op \in {\h1, D3DSIO_DEF}, NEW n \in Lengths, NEW low \in Look
  PROVE  Instruction(v, WithLength(op, n, low))
<1> DEFINE first == [opcode |-> op, length |-> n]
<1>1. n \in Nat /\ low \in Nat
  BY ShadersAssumption DEF Look, D3DSIO_END, D3DSIO_NOP
<1>2. first \in Token
  BY <1>1 DEF Token, D3DSIO_DEF
<1>3. getShaderInstructionSize(v, first) = n + 1 /\ first.opcode # D3DSIO_END
  BY DEF getShaderInstructionSize, D3DSIO_DEF, D3DSIO_END
<1>4. WithLength(op, n, low) = <<first>> \o Words(n, low)
  BY DEF WithLength
<1> HIDE DEF first
<1>5. \E w : FirstAndRest(WithLength(op, n, low), first, n, w)
  BY <1>1, <1>2, <1>4, FirstOfWords, Zenon
<1> QED BY <1>1, <1>3, <1>5 DEF Instruction, Stepped, FirstAndRest

LEMMA FromTableIs ==
  ASSUME NEW op \in DOMAIN Operands, op # D3DSIO_DEF, NEW low \in Look
  PROVE  Instruction(1, FromTable(op, low))
<1> DEFINE first == [opcode |-> op, length |-> 0]
           n == Operands[op]
<1>0. low \in Nat
  BY DEF Look, D3DSIO_END, D3DSIO_NOP
<1>1. n \in 0..5 /\ op \in OperandTable[n]
  BY OperandsIs
<1>2. first.opcode = op
  OBVIOUS
<1>3. /\ op \in Nat /\ op # D3DSIO_END
      /\ getShaderInstructionSize(1, first) = n + 1
  BY <1>1, <1>2, OperandSizes
<1>4. first \in Token
  BY <1>3 DEF Token
<1>5. FromTable(op, low) = <<first>> \o Words(n, low)
  BY DEF FromTable
<1> HIDE DEF first, n
<1>6. n \in Nat
  BY <1>1
<1>7. \E w : FirstAndRest(FromTable(op, low), first, n, w)
  BY <1>0, <1>4, <1>5, <1>6, FirstOfWords, Zenon
<1> QED BY <1>1, <1>2, <1>3, <1>7 DEF Instruction, Stepped, FirstAndRest

(* The words of an instruction the table is a word short of.                *)
WordsThen(w, k, low, last) ==
  /\ w = Words(k, low) \o Words(1, last)
  /\ w \in Seq(Token) /\ Len(w) = k + 1 /\ w[k + 1].opcode = last

LEMMA ShortWords ==
  ASSUME NEW k \in Nat, NEW low \in Nat, NEW last \in Nat
  PROVE  \E w : WordsThen(w, k, low, last)
<1>1. PICK a, b, t : a = Words(k, low) /\ b = Words(1, last) /\ t = [opcode |-> last, length |-> 0]
  OBVIOUS
<1>2. 1 \in Nat /\ 1 \in 1..1 /\ t.opcode = last
  BY <1>1
<1>3. a \in Seq(Token) /\ Len(a) = k
  BY <1>1, WordsAre, Zenon
<1>4. b \in Seq(Token) /\ Len(b) = 1 /\ \A i \in 1..1 : b[i] = t
  BY <1>1, <1>2, WordsAre, Zenon
<1>5. PICK w : w = a \o b
  OBVIOUS
<1>6. /\ w \in Seq(Token) /\ Len(w) = Len(a) + Len(b)
      /\ \A i \in 1..Len(a) + Len(b) : w[i] = IF i <= Len(a) THEN a[i] ELSE b[i - Len(a)]
  BY <1>3, <1>4, <1>5, ConcatProperties, Zenon
<1>7. Len(w) = k + 1 /\ w[k + 1] = b[1]
  <2>1. k + 1 \in 1..(k + 1) /\ ~(k + 1 <= k) /\ (k + 1) - k = 1
    OBVIOUS
  <2> QED BY <1>3, <1>4, <1>6, <2>1
<1>8. b[1] = t
  BY <1>2, <1>4
<1>9. w = Words(k, low) \o Words(1, last)
  BY <1>1, <1>5
<1> QED BY <1>2, <1>6, <1>7, <1>8, <1>9 DEF WordsThen

(* Its first token, its size by the table and its last word.                *)
ShortHas(s, op, k, last) ==
  /\ s \in Seq(Token) /\ Len(s) = k + 2
  /\ op # D3DSIO_END /\ s[1].opcode = op
  /\ getShaderInstructionSize(1, s[1]) = k + 1
  /\ s[k + 2].opcode = last

LEMMA ShortOfAWordHas ==
  ASSUME NEW op \in {D3DSIO_DEF, D3DSIO_TEXCRD, D3DSIO_TEXLD}, NEW low \in Look, NEW last \in Look \cup {1}
  PROVE  \E k \in {1, 4} : ShortHas(ShortOfAWord(op, low, last), op, k, last)
<1>1. PICK first : first = [opcode |-> op, length |-> 0]
  OBVIOUS
<1>2. PICK k \in Nat : k = (IF op = D3DSIO_DEF THEN 4 ELSE 1) /\ k \in {1, 4}
  OBVIOUS
<1>3. low \in Nat /\ last \in Nat /\ k + 1 \in Nat
  BY DEF Look, D3DSIO_END, D3DSIO_NOP
<1>4. /\ op \in Nat /\ op # D3DSIO_END /\ first.opcode = op
      /\ getShaderInstructionSize(1, first) = k + 1
  <2>1. CASE op = D3DSIO_DEF
    <3>1. 5 \in 0..5 /\ op \in OperandTable[5] /\ first.opcode = op
      BY <1>1, <2>1 DEF OperandTable
    <3> QED BY <1>2, <2>1, <3>1, OperandSizes
  <2>2. CASE op \in {D3DSIO_TEXCRD, D3DSIO_TEXLD}
    <3>1. 1 \in 0..5 /\ op \in OperandTable[1] /\ first.opcode = op /\ op # D3DSIO_DEF
      BY <1>1, <2>2 DEF OperandTable, D3DSIO_TEXCRD, D3DSIO_TEXLD, D3DSIO_DEF
    <3> QED BY <1>2, <3>1, OperandSizes
  <2> QED BY <2>1, <2>2
<1>5. first \in Token
  BY <1>1, <1>4 DEF Token
<1>6. PICK w : WordsThen(w, k, low, last)
  BY <1>3, ShortWords, Zenon
<1>7. w = Words(k, low) \o Words(1, last) /\ w \in Seq(Token) /\ Len(w) = k + 1 /\ w[k + 1].opcode = last
  BY <1>6 DEF WordsThen
<1>8. PICK s : s = <<first>> \o w
  OBVIOUS
<1>9. FirstAndRest(s, first, k + 1, w)
  BY <1>3, <1>5, <1>7, <1>8, FirstAndRestOf, Zenon
<1>10. s = ShortOfAWord(op, low, last)
  BY <1>1, <1>2, <1>7, <1>8 DEF ShortOfAWord
<1>11. s \in Seq(Token) /\ Len(s) = k + 2 /\ s[1] = first /\ s[k + 2].opcode = last
  <2>1. /\ s \in Seq(Token) /\ Len(s) = (k + 1) + 1 /\ s[1] = first
        /\ \A i \in 1..(k + 1) : s[i + 1] = w[i]
    BY <1>9 DEF FirstAndRest
  <2>2. k + 1 \in 1..(k + 1) /\ (k + 1) + 1 = k + 2
    BY <1>3
  <2>3. s[(k + 1) + 1] = w[k + 1]
    BY <2>1, <2>2
  <2> QED BY <1>7, <2>1, <2>2, <2>3
<1> QED BY <1>2, <1>4, <1>10, <1>11 DEF ShortHas

(* The walk stops at the last word and steps over it if it is a nop.        *)
LEMMA ShortOfAWordIs ==
  ASSUME NEW s, NEW op, NEW k \in {1, 4}, ShortHas(s, op, k, D3DSIO_NOP)
  PROVE  Instruction(1, s)
<1>1. getShaderInstructionSize(1, s[k + 2]) = 1 /\ s[k + 2].opcode # D3DSIO_END
  <2>1. /\ 0 \in 0..5 /\ D3DSIO_NOP \in OperandTable[0] /\ D3DSIO_NOP # D3DSIO_DEF
        /\ D3DSIO_NOP # D3DSIO_END
    BY DEF OperandTable, D3DSIO_DEF, D3DSIO_NOP, D3DSIO_END
  <2> QED BY <2>1, OperandSizes DEF ShortHas
<1>2. Len(s) = k + 2 /\ Len(s) - 1 = k + 1 /\ k + 1 >= 1 /\ Len(s) >= 1
  BY DEF ShortHas
<1>3. Stepped(1, s)
  BY <1>1, <1>2 DEF Stepped, ShortHas
<1> QED BY <1>2, <1>3 DEF Instruction, ShortHas

LEMMA InstructionsAre ==
  ASSUME NEW version \in Versions, NEW s \in Instructions(version), ~Astray(version, s)
  PROVE  Instruction(version.major, s)
<1>1. version.major \in 1..3 /\ (version.major = 1 \/ version.major \in 2..3)
  BY DEF Versions
<1>2. (version.major = 1 => ~(version.major >= 2)) /\ (version.major \in 2..3 => version.major >= 2)
  BY <1>1
<1>3. CASE \E n \in Lengths, low \in Look : s = Comment(n, low)
  BY <1>1, <1>3, CommentIs, Zenon
<1>4. CASE /\ version.major \in 2..3
           /\ \E op \in {\h1, D3DSIO_DEF}, n \in Lengths, low \in Look : s = WithLength(op, n, low)
  BY <1>4, WithLengthIs, Zenon
<1>5. CASE /\ version.major = 1
           /\ \E op \in DOMAIN Operands \ OneShort(version.minor), low \in Look : s = FromTable(op, low)
  <2>1. PICK op \in DOMAIN Operands \ OneShort(version.minor), low \in Look : s = FromTable(op, low)
    BY <1>5
  <2>2. op \in DOMAIN Operands /\ op # D3DSIO_DEF
    BY <2>1 DEF OneShort
  <2> QED BY <1>5, <2>1, <2>2, FromTableIs, Zenon
<1>6. CASE /\ version.major = 1
           /\ \E op \in OneShort(version.minor), low \in Look, last \in Look \cup {1} :
                s = ShortOfAWord(op, low, last)
  <2>1. PICK op \in OneShort(version.minor), low \in Look, last \in Look \cup {1} :
                s = ShortOfAWord(op, low, last)
    BY <1>6
  <2>2. op \in {D3DSIO_DEF, D3DSIO_TEXCRD, D3DSIO_TEXLD}
    BY DEF OneShort
  <2>3. PICK k \in {1, 4} : ShortHas(s, op, k, last)
    BY <2>1, <2>2, ShortOfAWordHas
  <2>4. s[Len(s)].opcode = last /\ s[1].opcode = op
    BY <2>3 DEF ShortHas
  <2>5. last = D3DSIO_NOP
    BY <1>6, <2>1, <2>4 DEF Astray
  <2> QED BY <1>6, <2>3, <2>5, ShortOfAWordIs, Zenon
<1> QED BY <1>1, <1>2, <1>3, <1>4, <1>5, <1>6 DEF Instructions

(* Places of t the walk may stand at: none looks like the END, and each is  *)
(* followed by another or by the end of t.                                 *)
WalkOf(v, t, places) ==
  /\ places \subseteq 1..Len(t)
  /\ 1 \in places \cup {Len(t) + 1}
  /\ \A p \in places :
       /\ t[p].opcode # D3DSIO_END
       /\ p + getShaderInstructionSize(v, t[p]) \in places \cup {Len(t) + 1}

Walkable(v, t) == t \in Seq(Token) /\ \E places : WalkOf(v, t, places)

(* An instruction can be walked; so can two things one after the other, and *)
(* so any number of instructions.                                           *)
LEMMA InstructionWalkable ==
  ASSUME NEW v, NEW t, Instruction(v, t)
  PROVE  Walkable(v, t)
<1>1. t \in Seq(Token) /\ Len(t) \in Nat /\ Len(t) >= 1 /\ t[1].opcode # D3DSIO_END /\ Stepped(v, t)
  BY DEF Instruction
<1> DEFINE size == getShaderInstructionSize(v, t[1])
           last == getShaderInstructionSize(v, t[Len(t)])
<1>2. CASE size = Len(t)
  <2>1. WalkOf(v, t, {1})
    <3> HIDE DEF last
    <3>1. {1} \subseteq 1..Len(t) /\ 1 + size = Len(t) + 1
      BY <1>1, <1>2
    <3> QED BY <1>1, <3>1 DEF WalkOf
  <2> QED BY <1>1, <2>1 DEF Walkable
<1>3. CASE /\ size = Len(t) - 1 /\ size >= 1
           /\ t[Len(t)].opcode # D3DSIO_END
           /\ last = 1
  <2>1. WalkOf(v, t, {1, Len(t)})
    <3>1. {1, Len(t)} \subseteq 1..Len(t) /\ 1 + size = Len(t) /\ Len(t) + last = Len(t) + 1
      BY <1>1, <1>3
    <3>2. ASSUME NEW p \in {1, Len(t)}
          PROVE  t[p].opcode # D3DSIO_END /\ p + getShaderInstructionSize(v, t[p]) \in {1, Len(t)} \cup {Len(t) + 1}
      <4>1. CASE p = 1
        BY <1>1, <3>1, <4>1
      <4>2. CASE p = Len(t)
        BY <1>3, <3>1, <4>2
      <4> QED BY <4>1, <4>2
    <3> QED BY <3>1, <3>2 DEF WalkOf
  <2> QED BY <1>1, <2>1 DEF Walkable
<1> QED BY <1>1, <1>2, <1>3 DEF Stepped

(* The places moved behind n tokens.                                        *)
Shifted(places, n) == {p \in Nat : p > n /\ p - n \in places}

LEMMA SizeIsNat ==
  ASSUME NEW v, NEW token \in Token
  PROVE  getShaderInstructionSize(v, token) \in Nat
<1>1. token.length \in Nat
  BY DEF Token
<1>2. DOMAIN SizeTable = 1..5
  BY DEF SizeTable
<1> HIDE DEF SizeTable
<1> QED BY <1>1, <1>2 DEF getShaderInstructionSize

LEMMA ConcatWalkable ==
  ASSUME NEW v, NEW a, NEW b, Walkable(v, a), Walkable(v, b)
  PROVE  Walkable(v, a \o b)
<1>1. PICK c : c = a \o b
  OBVIOUS
<1>2. a \in Seq(Token) /\ b \in Seq(Token)
  BY DEF Walkable
<1>3. /\ c \in Seq(Token) /\ Len(c) = Len(a) + Len(b)
      /\ \A i \in 1..Len(a) + Len(b) : c[i] = IF i <= Len(a) THEN a[i] ELSE b[i - Len(a)]
  BY <1>1, <1>2, ConcatProperties, Zenon
<1>4. PICK P : WalkOf(v, a, P)
  BY DEF Walkable
<1>5. PICK Q : WalkOf(v, b, Q)
  BY DEF Walkable
<1>20. PICK n \in Nat : n = Len(a)
  BY <1>2, LenProperties, Zenon
<1>21. PICK m \in Nat : m = Len(b)
  BY <1>2, LenProperties, Zenon
<1>6. n = Len(a) /\ m = Len(b) /\ n \in Nat /\ m \in Nat
  BY <1>20, <1>21
<1> DEFINE S == Shifted(Q, n)
<1>7. /\ P \subseteq 1..n /\ 1 \in P \cup {n + 1}
      /\ \A p \in P : a[p].opcode # D3DSIO_END /\ p + getShaderInstructionSize(v, a[p]) \in P \cup {n + 1}
  BY <1>4, <1>6, Zenon DEF WalkOf
<1>8. /\ Q \subseteq 1..m /\ 1 \in Q \cup {m + 1}
      /\ \A p \in Q : b[p].opcode # D3DSIO_END /\ p + getShaderInstructionSize(v, b[p]) \in Q \cup {m + 1}
  BY <1>5, <1>6, Zenon DEF WalkOf
<1>9. /\ \A i \in 1..n : c[i] = a[i]
      /\ \A i \in 1..(n + m) : i > n => c[i] = b[i - n]
      /\ Len(c) = n + m
  BY <1>3, <1>6
<1>10. /\ P \cup S \subseteq 1..(n + m)
       /\ n + 1 \in S \cup {n + m + 1}
       /\ 1 \in P \cup S \cup {n + m + 1}
  <2>1. S \subseteq (n + 1)..(n + m)
    <3>1. \A p \in S : p \in Nat /\ p > n /\ p - n \in 1..m
      BY <1>8 DEF Shifted
    <3> HIDE DEF S
    <3> QED BY <3>1, <1>6
  <2>2. n + 1 \in S \cup {n + m + 1}
    <3>1. CASE 1 \in Q
      <4>1. n + 1 \in Nat /\ n + 1 > n /\ n + 1 - n = 1
        BY <1>6
      <4> QED BY <3>1, <4>1 DEF Shifted
    <3>2. CASE m = 0
      BY <3>2, <1>6
    <3> QED BY <1>6, <1>8, <3>1, <3>2
  <2>3. 1 \in P \cup S \cup {n + m + 1}
    <3> HIDE DEF S
    <3> QED BY <1>6, <1>7, <2>2
  <2>4. P \cup S \subseteq 1..(n + m)
    <3> HIDE DEF S
    <3>1. P \subseteq 1..(n + m)
      BY <1>6, <1>7
    <3>2. (n + 1)..(n + m) \subseteq 1..(n + m)
      BY <1>6
    <3> QED BY <2>1, <3>1, <3>2
  <2> QED BY <2>2, <2>3, <2>4
<1>11. ASSUME NEW p \in P
       PROVE  c[p].opcode # D3DSIO_END /\ p + getShaderInstructionSize(v, c[p]) \in P \cup S \cup {n + m + 1}
  <2>1. c[p] = a[p]
    BY <1>7, <1>9
  <2> QED BY <2>1, <1>7, <1>10
<1>12. ASSUME NEW p \in S
       PROVE  c[p].opcode # D3DSIO_END /\ p + getShaderInstructionSize(v, c[p]) \in P \cup S \cup {n + m + 1}
  <2>1. p \in 1..(n + m) /\ p > n /\ p - n \in Q /\ p - n \in 1..m
    BY <1>8, <1>10 DEF Shifted
  <2>2. c[p] = b[p - n]
    BY <2>1, <1>9
  <2>3. PICK k : k = getShaderInstructionSize(v, b[p - n])
    OBVIOUS
  <2>4. b[p - n].opcode # D3DSIO_END /\ (p - n) + k \in Q \cup {m + 1}
    BY <2>1, <2>3, <1>8
  <2>5. k \in Int
    <3>1. b[p - n] \in Token
      BY <1>2, <1>6, <2>1
    <3> QED BY <3>1, <2>3, SizeIsNat
  <2>6. p + k \in S \cup {n + m + 1}
    BY <2>1, <2>4, <2>5, <1>6, <1>8 DEF Shifted
  <2> QED BY <2>2, <2>3, <2>4, <2>6
<1>13. WalkOf(v, c, P \cup S)
  <2> HIDE DEF S
  <2> QED BY <1>9, <1>10, <1>11, <1>12 DEF WalkOf
<1> QED BY <1>1, <1>3, <1>13 DEF Walkable

LEMMA FlattenedWalkable ==
  ASSUME NEW v, NEW n \in Nat, NEW body, \A i \in 1..n : Walkable(v, body[i]), NEW f, Flattened(body, n, f)
  PROVE  \A m \in 1..n : Walkable(v, f[m])
<1> DEFINE S == {m \in Nat : m \in 1..n => Walkable(v, f[m])}
<1>1. 0 \in S
  OBVIOUS
<1>2. ASSUME NEW m \in Nat, m \in S
      PROVE  m + 1 \in S
  <2> SUFFICES ASSUME m + 1 \in 1..n
               PROVE  Walkable(v, f[m + 1])
    OBVIOUS
  <2>0. \A i \in 1..n : (i = 1 => f[i] = body[i]) /\ (i # 1 => f[i] = f[i - 1] \o body[i])
    BY Zenon DEF Flattened
  <2> DEFINE k == m + 1
  <2>1. k \in 1..n /\ k - 1 = m /\ (k # 1 => m \in 1..n)
    OBVIOUS
  <2>2. k # 1 => Walkable(v, f[m])
    BY <1>2, <2>1
  <2> HIDE DEF k
  <2>3. k = 1 => Walkable(v, f[k])
    BY <2>0, <2>1, Zenon
  <2>4. ASSUME k # 1
        PROVE  Walkable(v, f[k])
    <3>1. f[k] = f[m] \o body[k]
      BY <2>0, <2>1, <2>4, Zenon
    <3> QED BY <3>1, <2>1, <2>2, <2>4, ConcatWalkable, Zenon
  <2>5. Walkable(v, f[k])
    BY <2>3, <2>4
  <2> QED BY <2>5 DEF k
<1>3. Nat \subseteq S
  <2> HIDE DEF S
  <2> QED BY <1>1, <1>2, NatSetInduction
<1> QED BY <1>3

LEMMA EmptyWalkable ==
  ASSUME NEW v
  PROVE  Walkable(v, <<>>)
<1>1. WalkOf(v, <<>>, {})
  BY DEF WalkOf
<1>2. <<>> \in Seq(Token)
  OBVIOUS
<1> QED BY <1>1, <1>2 DEF Walkable

LEMMA BodyWalkable ==
  ASSUME NEW version \in Versions, NEW n \in Nat, NEW body \in [1..n -> Instructions(version)],
         \A i \in 1..n : ~Astray(version, body[i])
  PROVE  Walkable(version.major, FlattenSeq(body))
<1>v. PICK v : v = version.major
  OBVIOUS
<1>1. ASSUME NEW i \in 1..n PROVE Walkable(v, body[i])
  <2>1. body[i] \in Instructions(version) /\ ~Astray(version, body[i])
    OBVIOUS
  <2> QED BY <1>v, <2>1, InstructionsAre, InstructionWalkable, Zenon
<1>2. Len(body) = n /\ DOMAIN body = 1..n
  <2> HIDE DEF Instructions
  <2> QED BY SMT
<1>3. CASE n = 0
  <2>1. body = <<>>
    BY <1>3
  <2>2. FlattenSeq(body) = <<>>
    BY <2>1 DEF FlattenSeq
  <2> QED BY <2>2, EmptyWalkable, Zenon
<1>4. CASE n # 0
  <2>1. PICK f : Flattened(body, Len(body), f) /\ FlattenSeq(body) = f[Len(body)]
    BY <1>2, <1>4, FlattenSeqIs
  <2>2. n \in 1..n
    BY <1>4
  <2>3. Flattened(body, n, f) /\ FlattenSeq(body) = f[n]
    BY <1>2, <2>1
  <2>4. \A i \in 1..n : Walkable(v, body[i])
    BY <1>1
  <2>5. \A m \in 1..n : Walkable(v, f[m])
    BY <2>3, <2>4, FlattenedWalkable, Zenon
  <2> QED BY <1>v, <2>2, <2>3, <2>5, Zenon
<1> QED BY <1>3, <1>4

(* Places of a whole shader: the walk stands at END only at its end.        *)
ShaderPlaces(s, places) ==
  /\ 2 \in places /\ places \subseteq 1..Len(s)
  /\ \A p \in places :
       \/ p = Len(s) /\ s[p].opcode = D3DSIO_END
       \/ /\ s[p].opcode # D3DSIO_END
          /\ p + getShaderInstructionSize(s[1].opcode, s[p]) \in places

(* Every shader has places the walk stays in, until it stands at the END.   *)
LEMMA ShadersHavePlaces ==
  ASSUME NEW version \in Versions, NEW body \in Bodies(version),
         \A i \in DOMAIN body : ~Astray(version, body[i])
  PROVE  \E s : /\ s = Shader(version, body)
               /\ s \in Seq(Token) /\ Len(s) > 0 /\ \E places : ShaderPlaces(s, places)
<1>v. PICK v, s : v = version.major /\ s = Shader(version, body)
  OBVIOUS
<1> DEFINE header == [opcode |-> version.major, length |-> version.minor]
           end == [opcode |-> D3DSIO_END, length |-> 0]
<1>1. PICK l \in Nat : body \in [1..l -> Instructions(version)]
  BY ShadersAssumption DEF Bodies
<1>2. PICK t : Walkable(v, t) /\ s = <<header>> \o t \o <<end>>
  <2>1. DOMAIN body = 1..l
    BY <1>1
  <2>2. Walkable(v, FlattenSeq(body))
    BY <1>v, <1>1, <2>1, BodyWalkable, Zenon
  <2>3. s = <<header>> \o FlattenSeq(body) \o <<end>>
    BY <1>v DEF Shader
  <2> HIDE DEF header, end
  <2> QED BY <2>2, <2>3
<1>3. header \in Token /\ end \in Token
  BY DEF Token, D3DSIO_END, Versions
<1>4. t \in Seq(Token)
  BY <1>2 DEF Walkable
<1>5. PICK places : WalkOf(v, t, places)
  BY <1>2 DEF Walkable
<1>6. PICK h : h = <<header>> \o t
  OBVIOUS
<1>7. FirstAndRest(h, header, Len(t), t)
  <2> HIDE DEF header
  <2>1. PICK n \in Nat : n = Len(t)
    BY <1>4
  <2> QED BY <1>3, <1>4, <1>6, <2>1, FirstAndRestOf, Zenon
<1>8. PICK e : e = <<end>> /\ e \in Seq(Token) /\ Len(e) = 1 /\ e[1] = end
  <2>1. PICK x \in Token : x = end
    BY <1>3
  <2>2. <<x>> \in Seq(Token) /\ Len(<<x>>) = 1 /\ <<x>>[1] = x
    <3> HIDE DEF end
    <3> QED OBVIOUS
  <2> HIDE DEF end
  <2> QED BY <2>1, <2>2, Zenon
<1> HIDE DEF header, end
<1>9. s = h \o e
  BY <1>2, <1>6, <1>8
<1>10. /\ s \in Seq(Token) /\ Len(s) = Len(h) + Len(e)
       /\ \A i \in 1..Len(h) + Len(e) : s[i] = IF i <= Len(h) THEN h[i] ELSE e[i - Len(h)]
  <2>1. h \in Seq(Token) BY <1>7 DEF FirstAndRest
  <2> QED BY <1>8, <1>9, <2>1, ConcatProperties, Zenon
<1>11. PICK n \in Nat : n = Len(t)
  BY <1>4
<1>12. Len(h) = n + 1 /\ Len(s) = n + 2 /\ h[1] = header /\ \A i \in 1..n : h[i + 1] = t[i]
  BY <1>7, <1>8, <1>10, <1>11 DEF FirstAndRest
<1>13. /\ s[1] = header /\ s[n + 2] = end
       /\ \A i \in 1..n : s[i + 1] = t[i]
  BY <1>8, <1>10, <1>11, <1>12
<1>14. s[1].opcode = v /\ s[n + 2].opcode = D3DSIO_END
  BY <1>v, <1>13 DEF header, end
<1>15. /\ places \subseteq 1..n /\ 1 \in places \cup {n + 1}
       /\ \A p \in places : t[p].opcode # D3DSIO_END /\ p + getShaderInstructionSize(v, t[p]) \in places \cup {n + 1}
  BY <1>5, <1>11, Zenon DEF WalkOf
<1> DEFINE S == Shifted(places, 1) \cup {n + 2}
<1>16. 2 \in S /\ S \subseteq 1..(n + 2)
  BY <1>15 DEF Shifted
<1>17. ASSUME NEW p \in S, p # n + 2
       PROVE  s[p].opcode # D3DSIO_END /\ p + getShaderInstructionSize(v, s[p]) \in S
  <2>1. p \in 2..(n + 1) /\ p - 1 \in places /\ p - 1 \in 1..n /\ p - 1 + 1 = p
    BY <1>15, <1>16, <1>17 DEF Shifted
  <2>2. s[p] = t[p - 1]
    BY <2>1, <1>13
  <2>3. PICK k : k = getShaderInstructionSize(v, t[p - 1])
    OBVIOUS
  <2>4. t[p - 1].opcode # D3DSIO_END /\ (p - 1) + k \in places \cup {n + 1}
    BY <2>1, <2>3, <1>15
  <2>5. k \in Int
    <3>1. t[p - 1] \in Token
      BY <1>4, <1>11, <2>1
    <3> QED BY <3>1, <2>3, SizeIsNat
  <2>6. p + k \in S
    BY <2>1, <2>4, <2>5, <1>15 DEF Shifted
  <2> QED BY <2>2, <2>3, <2>4, <2>6
<1>18. ShaderPlaces(s, S)
  <2> HIDE DEF S
  <2>1. n + 2 = Len(s) BY <1>12
  <2> QED BY <1>14, <1>16, <1>17, <2>1 DEF ShaderPlaces
<1> QED BY <1>v, <1>10, <1>12, <1>18

(* Inductive invariant of the walk; nothing is said of one that goes astray.*)
Walking ==
  \/ pFunction = <<>> /\ pTokens = 0 /\ m_code = <<>>
  \/ astray /\ (pFunction = <<>> => m_code = <<>>)
  \/ /\ pFunction \in Seq(Token) /\ Len(pFunction) > 0
     /\ \E places : ShaderPlaces(pFunction, places) /\ pTokens \in places
     /\ m_code # <<>> => m_code = pFunction

(* ShaderCopiedWhole: the walk of CommonShader stays in the shader, and     *)
(* what it copies is all of it: for shaders of any number of instructions   *)
(* and any lengths, of which none is a def, texcrd or texld of model 1      *)
(* whose last word looks like an instruction (Astray).                      *)
THEOREM ShadersCopiedWhole == ShaderSpec => []ShaderCopiedWhole
<1>1. InitShaders => Walking
  BY DEF InitShaders, Walking
<1>2. Walking /\ [ShaderNext]_shaderVars => Walking'
  <2> SUFFICES ASSUME Walking, [ShaderNext]_shaderVars
               PROVE  Walking'
    OBVIOUS
  <2>1. ASSUME NEW version \in Versions, NEW body \in Bodies(version), Analyze(version, body)
        PROVE  Walking'
    <3>1. PICK s : s = Shader(version, body)
      OBVIOUS
    <3>2. pFunction' = s /\ pTokens' = 2 /\ m_code' = <<>>
      BY <2>1, <3>1 DEF Walking, Analyze
    <3>3. astray' = (\E i \in DOMAIN body : Astray(version, body[i]))
      BY <2>1 DEF Analyze
    <3>4. CASE astray'
      BY <3>2, <3>4 DEF Walking
    <3>5. CASE ~astray'
      <4>1. \A i \in DOMAIN body : ~Astray(version, body[i])
        BY <3>3, <3>5
      <4>2. s \in Seq(Token) /\ Len(s) > 0 /\ \E places : ShaderPlaces(s, places)
        BY <3>1, <4>1, ShadersHavePlaces, Zenon
      <4>3. \E places : ShaderPlaces(s, places) /\ 2 \in places
        BY <4>2 DEF ShaderPlaces
      <4> QED BY <3>2, <4>2, <4>3 DEF Walking
    <3> QED BY <3>4, <3>5
  <2>2. ASSUME pFunction # <<>>, ~astray
        PROVE  /\ pFunction \in Seq(Token) /\ Len(pFunction) > 0
               /\ \E places : ShaderPlaces(pFunction, places) /\ pTokens \in places
               /\ m_code # <<>> => m_code = pFunction
    BY <2>2 DEF Walking
  <2>a. CASE astray /\ (StepOver \/ Copy)
    <3>1. pFunction # <<>> /\ pFunction' = pFunction /\ astray'
      BY <2>a DEF StepOver, Copy
    <3> QED BY <3>1 DEF Walking
  <2>3. CASE StepOver /\ ~astray
    <3>1. pFunction # <<>> /\ pFunction[pTokens].opcode # D3DSIO_END
      BY <2>3 DEF StepOver
    <3>2. PICK places : ShaderPlaces(pFunction, places) /\ pTokens \in places
      BY <2>2, <2>3, <3>1
    <3>3. pTokens + getShaderInstructionSize(pFunction[1].opcode, pFunction[pTokens]) \in places
      BY <3>1, <3>2 DEF ShaderPlaces
    <3>4. pTokens' \in places /\ pFunction' = pFunction /\ m_code' = m_code
      BY <2>3, <3>3 DEF StepOver
    <3> QED BY <2>2, <2>3, <3>1, <3>2, <3>4 DEF Walking
  <2>4. CASE Copy /\ ~astray
    <3>1. pFunction # <<>> /\ pFunction[pTokens].opcode = D3DSIO_END
      BY <2>4 DEF Copy
    <3>2. PICK places : ShaderPlaces(pFunction, places) /\ pTokens \in places
      BY <2>2, <2>4, <3>1
    <3>3. pTokens = Len(pFunction)
      BY <3>1, <3>2 DEF ShaderPlaces
    <3>4. SubSeq(pFunction, 1, Len(pFunction)) = pFunction
      BY <2>2, <2>4, <3>1
    <3>5. m_code' = pFunction /\ pFunction' = pFunction /\ pTokens' = pTokens
      BY <2>4, <3>3, <3>4 DEF Copy
    <3> QED BY <2>2, <2>4, <3>1, <3>2, <3>5 DEF Walking
  <2>5. CASE UNCHANGED shaderVars
    <3>1. pFunction' = pFunction /\ pTokens' = pTokens /\ m_code' = m_code /\ astray' = astray
      BY <2>5 DEF shaderVars
    <3> QED BY <3>1 DEF Walking
  <2> QED BY <2>1, <2>a, <2>3, <2>4, <2>5, Zenon DEF ShaderNext
<1>3. Walking => ShaderCopiedWhole
  <2>1. CASE pFunction = <<>>
    BY <2>1 DEF Walking, ShaderCopiedWhole
  <2>2. CASE pFunction # <<>>
    BY <2>2 DEF Walking, ShaderCopiedWhole, ShaderPlaces
  <2> QED BY <2>1, <2>2
<1> QED BY <1>1, <1>2, <1>3, PTL DEF ShaderSpec
================================================================================
