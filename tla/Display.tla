------------------------------- MODULE Display -------------------------------
(***************************************************************************)
(* What a swap chain does to the monitor and the window, and when Present  *)
(* lets the game go on: Direct3DSwapChain9_LSS (d3d9_swapchain.cpp), the   *)
(* monitor's helpers (util_monitor.cpp) and the frame cap.                 *)
(*                                                                         *)
(* A device's implicit chain is made with it, and destroyed and made again *)
(* by Reset with new parameters.  The new chain's reset() changes the      *)
(* monitor's mode; only a chain's destructor changes it back, and no chain *)
(* knows what the one before it did.                                       *)
(*                                                                         *)
(* One monitor, whose modes are a size (with its depth) and a rate; the    *)
(* system takes the registry's mode at any time, and may refuse any other. *)
(* The game has one full-screen device at a time, keeps its windows, and   *)
(* does not change the mode itself.                                        *)
(***************************************************************************)
EXTENDS Naturals, Sequences

CONSTANTS
  Chains,          \* devices, each with its implicit chain and its window
  Sizes, Rates,    \* modes of the monitor, positive numbers
  DesktopMode,     \* the mode in the registry
  Period,          \* m_period, in ticks of the clock
  SpinTicks,       \* m_spinTicks
  SleepCap,        \* the 50 ms of WaitForSingleObject
  MaxClock         \* the clock stops here

Modes == [size : Sizes, rate : Rates]

ASSUME DisplayAssumption ==
  /\ Sizes \subseteq Nat \ {0} /\ Rates \subseteq Nat \ {0} /\ DesktopMode \in Modes
  /\ Period \in Nat \ {0} /\ SpinTicks \in Nat /\ SleepCap \in Nat /\ MaxClock \in Nat

VARIABLES
  mode,     \* the monitor's mode
  chain,    \* per device: its implicit chain
  asked,    \* per device: the Windowed of m_previousPresentParams
  window,   \* per device: the size of its window
  refused,  \* per device: the monitor took no mode its chain asked for
  forced,   \* client.forceWindowed
  keeps     \* per device: D3DCREATE_NOWINDOWCHANGES

displayVars == <<mode, chain, asked, window, refused, forced, keeps>>

\* 0 stands for a parameter the game leaves open
Params == {p \in [windowed : BOOLEAN, size : Sizes \cup {0}, rate : Rates \cup {0}] :
             p.windowed \/ p.size # 0}

NoChain == [live |-> FALSE, windowed |-> TRUE, size |-> DesktopMode.size, monitor |-> FALSE]
FullScreen(d) == chain[d].live /\ ~chain[d].windowed

-----------------------------------------------------------------------------
(* The monitor *)

\* ChangeDisplaySettingsExW, when it does not refuse
ChangeDisplaySettings(size, rate) == {m \in Modes : m.size = size /\ rate \in {0, m.rate}}

\* From mode m: it already is as asked; or the mode asked for, the size at
\* whatever rate, or neither
SetMonitorDisplayMode(m, size, rate) ==
  IF m.size = size /\ rate \in {0, m.rate}
  THEN {[ok |-> TRUE, mode |-> m]}
  ELSE {[ok |-> TRUE, mode |-> n] :
          n \in ChangeDisplaySettings(size, rate) \cup ChangeDisplaySettings(size, 0)}
         \cup {[ok |-> FALSE, mode |-> m]}

RestoreMonitorDisplayMode == DesktopMode

-----------------------------------------------------------------------------
(* Chains *)

sanitizePresentationParameters(d, p) ==
  LET q == IF forced THEN [p EXCEPT !.windowed = TRUE, !.rate = 0] ELSE p
  IN IF q.windowed /\ p.size = 0 THEN [q EXCEPT !.size = window[d]] ELSE q

Construct(p) ==
  [live |-> TRUE, windowed |-> p.windowed, size |-> p.size, monitor |-> ~p.windowed]

\* Variant with a bug: the mode is left to the next chain's reset
DestructLeaving(c) == mode

\* ~Direct3DSwapChain9_LSS: the monitor's mode when the chain is gone
Destruct(c) == IF c.monitor THEN RestoreMonitorDisplayMode ELSE mode

\* reset() of chain c, the monitor being in mode m.  To a window: c has no
\* monitor then, and what the chain before it changed is its destructor's to
\* restore.
ResetWindowed(d, c, m, previous) ==
  LET toggles == ~keeps[d] /\ previous # c.windowed IN
  /\ mode' = IF toggles /\ c.monitor THEN RestoreMonitorDisplayMode ELSE m
  /\ chain' = [chain EXCEPT ![d] = [c EXCEPT !.monitor = @ /\ ~toggles]]
  /\ refused' = [refused EXCEPT ![d] = FALSE]

\* A mode that is refused ends it before the window is moved
ResetFullScreen(d, c, m, rate, size) ==
  \E change \in IF keeps[d] THEN {[ok |-> TRUE, mode |-> m]}
                ELSE SetMonitorDisplayMode(m, c.size, rate) :
    /\ mode' = change.mode
    /\ refused' = [refused EXCEPT ![d] = ~change.ok]
    /\ chain' = [chain EXCEPT ![d] = c]
    /\ window' = [window EXCEPT ![d] =
                    IF change.ok /\ ~keeps[d] THEN change.mode.size ELSE size]

\* The window has the size given, the chain before was windowed or not
initImplicitSwapchain(d, p, m, size, previous) ==
  IF p.windowed
  THEN ResetWindowed(d, Construct(p), m, previous) /\ window' = [window EXCEPT ![d] = size]
  ELSE ResetFullScreen(d, Construct(p), m, p.rate, size)

\* One full-screen device at a time
Alone(d, p) == p.windowed \/ forced \/ \A e \in Chains \ {d} : ~FullScreen(e)

\* The window's size, as createDevice forces it on a full-screen device
SetWindowMode(d, windowed, size) == IF windowed THEN window[d] ELSE size

\* The window is sized also when the server then refuses the device
CreateChain(d, p, ok) ==
  LET q == sanitizePresentationParameters(d, p)
      size == SetWindowMode(d, q.windowed, q.size) IN
  /\ ~chain[d].live /\ Alone(d, p)
  /\ IF ok
     THEN /\ initImplicitSwapchain(d, q, mode, size, q.windowed)
          /\ asked' = [asked EXCEPT ![d] = q.windowed]
     ELSE window' = [window EXCEPT ![d] = size] /\ UNCHANGED <<mode, chain, asked, refused>>
  /\ UNCHANGED <<forced, keeps>>

\* Reset and ResetEx: the chain goes, its successor is told what the game asked
\* for before, and then that is replaced, by the parameters as they came
ResetChain(d, p) ==
  /\ chain[d].live /\ Alone(d, p)
  /\ initImplicitSwapchain(d, sanitizePresentationParameters(d, p), Destruct(chain[d]), window[d],
                           asked[d])
  /\ asked' = [asked EXCEPT ![d] = p.windowed]
  /\ UNCHANGED <<forced, keeps>>

ReleaseChain(d) ==
  /\ chain[d].live
  /\ mode' = Destruct(chain[d])
  /\ chain' = [chain EXCEPT ![d] = NoChain]
  /\ refused' = [refused EXCEPT ![d] = FALSE]
  /\ UNCHANGED <<asked, window, forced, keeps>>

\* The game or the user sizes a window that is not full screen
SizeWindow(d, size) ==
  /\ ~FullScreen(d)
  /\ window' = [window EXCEPT ![d] = size]
  /\ UNCHANGED <<mode, chain, asked, refused, forced, keeps>>

InitDisplay ==
  /\ mode = DesktopMode
  /\ chain = [d \in Chains |-> NoChain]
  /\ asked = [d \in Chains |-> TRUE]
  /\ window \in [Chains -> {CHOOSE s \in Sizes : TRUE}]
  /\ refused = [d \in Chains |-> FALSE]
  /\ forced \in BOOLEAN
  /\ keeps \in [Chains -> BOOLEAN]

DisplayNext ==
  \E d \in Chains :
    \/ \E p \in Params : ResetChain(d, p) \/ \E ok \in BOOLEAN : CreateChain(d, p, ok)
    \/ ReleaseChain(d)
    \/ \E size \in Sizes : SizeWindow(d, size)

DisplaySpec == InitDisplay /\ [][DisplayNext]_displayVars

-----------------------------------------------------------------------------
(* The frame cap: FramePacer::wait, at the end of every Present             *)

VARIABLES
  clock,    \* the performance counter
  pacing,   \* the game's thread: "game", or in wait() "sleep" or "spin"
  m_next,   \* when the next frame is due, 0 before the first
  target,   \* when this one is
  wakes,    \* when its timer fires, or its wait gives up
  frames    \* history: when each wait returned, and whether it found the frame late

pacerVars == <<clock, pacing, m_next, target, wakes, frames>>

Returns(late) ==
  frames' = Append(frames, [at |-> clock, late |-> late]) /\ pacing' = "game"

\* Variant with a bug: a late frame is paid back with a short one
LatePaidBack ==
  /\ m_next' = m_next + Period
  /\ Returns(TRUE)
  /\ UNCHANGED <<target, wakes>>

\* The frame is late, and the cadence starts again from here
Late ==
  /\ m_next' = clock + Period
  /\ Returns(TRUE)
  /\ UNCHANGED <<target, wakes>>

\* wait() of a frame that is due later: by the timer all but the last ticks,
\* if there is a timer and it can be set
Early(due, timer) ==
  /\ target' = due
  /\ m_next' = due + Period
  /\ IF timer /\ due - clock > SpinTicks
     THEN /\ pacing' = "sleep"
          /\ wakes' = IF due - SpinTicks < clock + SleepCap THEN due - SpinTicks ELSE clock + SleepCap
     ELSE pacing' = "spin" /\ UNCHANGED wakes
  /\ UNCHANGED frames

\* The first call makes the first frame due a period later
Wait(timer) ==
  /\ pacing = "game"
  /\ IF m_next = 0 THEN Early(clock + Period, timer)
     ELSE IF clock >= m_next THEN Late ELSE Early(m_next, timer)
  /\ UNCHANGED clock

\* The timer fires, or the wait times out; the thread may run later than that
Wake ==
  /\ pacing = "sleep" /\ clock >= wakes
  /\ pacing' = "spin"
  /\ UNCHANGED <<clock, m_next, target, wakes, frames>>

Spun ==
  /\ pacing = "spin" /\ clock >= target
  /\ Returns(FALSE)
  /\ UNCHANGED <<clock, m_next, target, wakes>>

Tick ==
  /\ clock < MaxClock
  /\ clock' = clock + 1
  /\ UNCHANGED <<pacing, m_next, target, wakes, frames>>

InitPacer ==
  clock = 1 /\ pacing = "game" /\ m_next = 0 /\ target = 0 /\ wakes = 0 /\ frames = <<>>

PacerNext == Tick \/ Wake \/ Spun \/ \E timer \in BOOLEAN : Wait(timer)

PacerSpec == InitPacer /\ [][PacerNext]_pacerVars

-----------------------------------------------------------------------------
(* Properties *)

\* Through every sequence of devices made, reset, toggled and released: the
\* monitor is in the registry's mode when no chain is full screen, also when
\* the mode one asked for was refused or it may not change it; otherwise in the
\* size of the full-screen chain, whose window then covers it.
ModeFollows ==
  /\ (\A d \in Chains : ~FullScreen(d)) => mode = DesktopMode
  /\ \A d \in Chains :
       FullScreen(d) =>
         IF refused[d] \/ keeps[d] THEN mode = DesktopMode
         ELSE mode.size = chain[d].size /\ window[d] = mode.size

\* "A late frame restarts the cadence instead of being paid back with a short
\* frame": the frame after a late one takes a whole period, and however late
\* timers fire, no frame ends before as many periods have passed as there were
\* frames.
CadenceKept ==
  \A i \in DOMAIN frames :
    /\ frames[i].at > i * Period
    /\ i > 1 /\ frames[i - 1].late => frames[i].at >= frames[i - 1].at + Period
=============================================================================
