---------------------------- MODULE PresentSyncProofs ----------------------------
(***************************************************************************)
(* Frames, for every value of the constants.  For every maximum of the     *)
(* semaphore and every number of retries: how far the client can run ahead *)
(* of the server.  For every period: the cadence of the frame cap.  For    *)
(* any devices and modes: the monitor's mode.  And what is presented: the  *)
(* device's objects, with any number of references and levels: what their  *)
(* counts tell the game, and what the server knows of the levels.          *)
(***************************************************************************)
EXTENDS PresentSync, Display, Interfaces, SequenceTheorems, FiniteSetTheorems, TLAPS

-----------------------------------------------------------------------------
(* The wait for the server *)

(* At the start no frame and no permit exists. *)
LEMMA InitIInv == Init => IInv
<1> SUFFICES ASSUME Init PROVE IInv
  OBVIOUS
<1>1. running \in BOOLEAN /\ serverUp \in BOOLEAN /\ infinite \in BOOLEAN
  BY Zenon DEF Init
<1>2. PermitsAccounted /\ sent = acquired + gaveUp + Waiting /\ presented <= sent
  BY DEF Init, PermitsAccounted, Waiting
<1>. QED
  BY <1>1, <1>2, PresentAssumption DEF Init, IInv, TypeOK

(* Every step keeps the accounts of frames and permits. *)
LEMMA NextIInv == IInv /\ [Next]_vars => IInv'
<1> SUFFICES ASSUME IInv, [Next]_vars PROVE IInv'
  OBVIOUS
<1> USE PresentAssumption DEF IInv, TypeOK, PermitsAccounted, Waiting
<1>1. CASE Present \/ PresentEx \/ SwapChainPresent
  BY <1>1 DEF Present, PresentEx, SwapChainPresent
<1>2. CASE Acquire
  BY <1>2 DEF Acquire
<1>3. CASE WaitTimesOut
  <2>1. CASE pc' = pc
    BY <1>3, <2>1 DEF WaitTimesOut
  <2>2. CASE pc' # pc
    BY <1>3, <2>2 DEF WaitTimesOut
  <2>. QED
    BY <2>1, <2>2
<1>4. CASE Abort
  BY <1>4 DEF Abort
<1>5. CASE ServerPresents
  BY <1>5 DEF ServerPresents
<1>6. CASE ServerExits
  BY <1>6 DEF ServerExits
<1>7. CASE OnServerExited
  BY <1>7 DEF OnServerExited
<1>8. CASE UNCHANGED vars
  BY <1>8 DEF vars
<1>. QED
  BY <1>1, <1>2, <1>3, <1>4, <1>5, <1>6, <1>7, <1>8 DEF Next

(* The invariant always holds.                                              *)
LEMMA Invariance == Spec => []IInv
  BY InitIInv, NextIInv, PTL DEF Spec

(* No permit is made up, and none is lost but those a full semaphore drops. *)
THEOREM PermitsConserved == Spec => []PermitsAccounted
<1>1. IInv => PermitsAccounted
  BY DEF IInv
<1>. QED
  BY <1>1, Invariance, PTL

(* The client is ahead of the server by the frame it waits for and by one   *)
(* frame for each Present that gave up: what bounds the lead is the permit, *)
(* not the semaphore's maximum.                                             *)
THEOREM LeadBounded == Spec => []FrameLead
<1>1. IInv => FrameLead
  BY PresentAssumption DEF IInv, TypeOK, PermitsAccounted, FrameLead, Waiting
<1>. QED
  BY <1>1, Invariance, PTL

-----------------------------------------------------------------------------
(* The frame cap *)

PacerType ==
  /\ clock \in Nat \ {0} /\ m_next \in Nat /\ target \in Nat
  /\ pacing \in {"game", "sleep", "spin"}
  /\ frames \in Seq([at : Nat, late : BOOLEAN])

(* When the frame that comes next is due: m_next between two calls of       *)
(* wait(), its target during one.                                           *)
Due == IF pacing = "game" THEN m_next ELSE target

(* The next frame is due after one more period than there were frames, and  *)
(* a whole period after a late one; the frame behind it a period later.     *)
DueInv ==
  /\ m_next = 0 => pacing = "game" /\ frames = <<>>
  /\ m_next # 0 => /\ Due > (Len(frames) + 1) * Period
                   /\ frames # <<>> /\ frames[Len(frames)].late =>
                        Due >= frames[Len(frames)].at + Period
  /\ pacing # "game" => m_next = target + Period

(* The inductive invariant of the frame cap.                                *)
PacerInv == PacerType /\ DueInv /\ CadenceKept

(* A frame that ends when it is due, or later.                              *)
LEMMA FrameEnds ==
  ASSUME PacerInv, NEW late \in BOOLEAN, Returns(late), m_next # 0, clock >= Due
  PROVE  /\ frames' \in Seq([at : Nat, late : BOOLEAN]) /\ CadenceKept'
         /\ Len(frames) \in Nat /\ Len(frames') = Len(frames) + 1
         /\ frames'[Len(frames')] = [at |-> clock, late |-> late]
<1> DEFINE S == [at : Nat, late : BOOLEAN]
           e == [at |-> clock, late |-> late]
           n == Len(frames)
<1>1. frames \in Seq(S) /\ e \in S
  BY DEF PacerInv, PacerType
<1>2. /\ frames' \in Seq(S) /\ n \in Nat /\ Len(frames') = n + 1
      /\ \A i \in 1..n : frames'[i] = frames[i]
      /\ frames'[n + 1] = e
  <2> HIDE DEF S
  <2> QED BY <1>1, AppendProperties, LenProperties DEF Returns
<1>3. DOMAIN frames = 1..n /\ DOMAIN frames' = 1..(n + 1)
  BY <1>1, <1>2
<1> HIDE DEF S
<1>4. Due > (n + 1) * Period /\ (n # 0 /\ frames[n].late => Due >= frames[n].at + Period)
  BY <1>1, <1>2, EmptySeq DEF PacerInv, DueInv
<1>5. clock \in Nat /\ Due \in Nat /\ Period \in Nat
  BY DisplayAssumption DEF PacerInv, PacerType, Due
<1>6. ASSUME NEW i \in 1..(n + 1)
      PROVE  /\ frames'[i].at > i * Period
             /\ i > 1 /\ frames'[i - 1].late => frames'[i].at >= frames'[i - 1].at + Period
  <2>1. CASE i \in 1..n
    <3>1. /\ frames[i].at > i * Period
          /\ i > 1 /\ frames[i - 1].late => frames[i].at >= frames[i - 1].at + Period
      BY <1>3, <2>1 DEF PacerInv, CadenceKept
    <3>2. frames'[i] = frames[i] /\ (i > 1 => frames'[i - 1] = frames[i - 1])
      BY <1>2, <2>1
    <3> QED BY <3>1, <3>2
  <2>2. CASE i = n + 1
    <3>1. frames'[i].at = clock
      BY <1>2, <2>2
    <3>2. frames'[i].at > i * Period
      <4>1. clock > (n + 1) * Period
        <5> DEFINE x == (n + 1) * Period
        <5>1. x \in Nat
          BY <1>2, <1>5
        <5> HIDE DEF x
        <5> QED BY <1>4, <1>5, <5>1 DEF x
      <4> QED BY <2>2, <3>1, <4>1
    <3>3. ASSUME i > 1, frames'[i - 1].late PROVE frames'[i].at >= frames'[i - 1].at + Period
      <4>1. n # 0 /\ n \in 1..n /\ i - 1 = n /\ frames'[i - 1] = frames[n] /\ frames[n] \in S
        BY <1>1, <1>2, <2>2, <3>3, ElementOfSeq
      <4>2. frames[n].at \in Nat
        BY <4>1 DEF S
      <4> QED BY <1>4, <1>5, <3>1, <3>3, <4>1, <4>2
    <3> QED BY <3>2, <3>3
  <2> QED BY <1>2, <2>1, <2>2
<1> QED BY <1>2, <1>3, <1>6 DEF CadenceKept, S

(* A frame that is due later starts to be waited for.                       *)
LEMMA FrameWaits ==
  ASSUME PacerInv, pacing = "game", NEW due \in Nat, NEW timer \in BOOLEAN, Early(due, timer),
         due > (Len(frames) + 1) * Period, UNCHANGED clock,
         frames # <<>> /\ frames[Len(frames)].late => due >= frames[Len(frames)].at + Period
  PROVE  PacerInv'
<1>1. pacing' \in {"sleep", "spin"} /\ target' = due /\ m_next' = due + Period /\ UNCHANGED frames
  BY DEF Early
<1>2. Period \in Nat \ {0}
  BY DisplayAssumption
<1>3. PacerType' /\ m_next' # 0
  BY <1>1, <1>2 DEF PacerInv, PacerType
<1>4. Due' = due
  BY <1>1 DEF Due
<1>5. DueInv'
  BY <1>1, <1>3, <1>4 DEF DueInv
<1> QED BY <1>1, <1>3, <1>5 DEF PacerInv, CadenceKept

(* Every step of the frame cap keeps its invariant.                         *)
LEMMA NextPacerInv == PacerInv /\ [PacerNext]_pacerVars => PacerInv'
<1> SUFFICES ASSUME PacerInv, [PacerNext]_pacerVars PROVE PacerInv'
  OBVIOUS
<1>0. PacerType /\ DueInv /\ Period \in Nat \ {0} /\ Len(frames) \in Nat
  BY DisplayAssumption, LenProperties DEF PacerInv, PacerType
<1>1. CASE Tick
  <2>1. clock' = clock + 1 /\ UNCHANGED <<pacing, m_next, target, frames>>
    BY <1>1 DEF Tick
  <2>2. Due' = Due
    BY <2>1 DEF Due
  <2> QED BY <1>0, <2>1, <2>2 DEF PacerInv, PacerType, DueInv, CadenceKept
<1>2. CASE Wake
  <2>1. pacing = "sleep" /\ pacing' = "spin" /\ UNCHANGED <<clock, m_next, target, frames>>
    BY <1>2 DEF Wake
  <2>2. Due' = Due
    BY <2>1 DEF Due
  <2> QED BY <1>0, <2>1, <2>2 DEF PacerInv, PacerType, DueInv, CadenceKept
<1>3. CASE Spun
  <2>1. Returns(FALSE) /\ m_next # 0 /\ clock >= Due /\ pacing # "game"
    BY <1>0, <1>3 DEF Spun, DueInv, Due
  <2>2. /\ frames' \in Seq([at : Nat, late : BOOLEAN]) /\ CadenceKept'
        /\ Len(frames') = Len(frames) + 1
        /\ frames'[Len(frames')] = [at |-> clock, late |-> FALSE]
    BY <2>1, FrameEnds
  <2>3. pacing' = "game" /\ UNCHANGED <<clock, m_next, target>>
    BY <1>3 DEF Spun, Returns
  <2>4. PacerType'
    BY <1>0, <2>2, <2>3 DEF PacerType
  <2>5. m_next > (Len(frames) + 2) * Period
    <3>1. target > (Len(frames) + 1) * Period /\ m_next = target + Period
      BY <1>0, <2>1 DEF DueInv, Due
    <3>2. (Len(frames) + 2) * Period = (Len(frames) + 1) * Period + Period
      BY <1>0
    <3>3. (Len(frames) + 1) * Period \in Nat /\ target \in Nat
      BY <1>0 DEF PacerType
    <3> QED BY <1>0, <3>1, <3>2, <3>3
  <2>6. Due' = m_next /\ Len(frames') + 1 = Len(frames) + 2
    BY <1>0, <2>2, <2>3 DEF Due
  <2>7. DueInv'
    BY <2>1, <2>2, <2>3, <2>5, <2>6 DEF DueInv
  <2> QED BY <2>2, <2>4, <2>7 DEF PacerInv
<1>4. ASSUME NEW timer \in BOOLEAN, Wait(timer) PROVE PacerInv'
  <2>0. pacing = "game" /\ UNCHANGED clock
    BY <1>4 DEF Wait
  <2>1. CASE m_next = 0
    <3>1. Early(clock + Period, timer)
      BY <1>4, <2>1 DEF Wait
    <3>2. frames = <<>> /\ Len(frames) = 0
      BY <1>0, <2>1 DEF DueInv
    <3>3. clock + Period > (Len(frames) + 1) * Period /\ clock + Period \in Nat
      BY <1>0, <3>2 DEF PacerType
    <3> QED BY <2>0, <3>1, <3>2, <3>3, FrameWaits
  <2>2. CASE m_next # 0 /\ clock < m_next
    <3>1. Early(m_next, timer)
      BY <1>0, <1>4, <2>2 DEF Wait, PacerType
    <3>2. Due = m_next /\ m_next \in Nat
      BY <1>0, <2>0 DEF Due, PacerType
    <3> QED BY <1>0, <2>0, <2>2, <3>1, <3>2, FrameWaits DEF DueInv
  <2>3. CASE m_next # 0 /\ clock >= m_next
    <3>1. m_next' = clock + Period /\ Returns(TRUE) /\ UNCHANGED target
      BY <1>4, <2>3 DEF Wait, Late
    <3>2. Due = m_next /\ m_next > (Len(frames) + 1) * Period
      BY <1>0, <2>0, <2>3 DEF Due, DueInv
    <3>3. /\ frames' \in Seq([at : Nat, late : BOOLEAN]) /\ CadenceKept'
          /\ Len(frames') = Len(frames) + 1
          /\ frames'[Len(frames')] = [at |-> clock, late |-> TRUE]
      BY <2>3, <3>1, <3>2, FrameEnds
    <3>4. pacing' = "game" /\ Due' = clock + Period
      BY <3>1 DEF Returns, Due
    <3>5. PacerType' /\ m_next' # 0
      BY <1>0, <2>0, <3>1, <3>3, <3>4 DEF PacerType
    <3>6. clock + Period > (Len(frames') + 1) * Period
      <4>1. (Len(frames) + 2) * Period = (Len(frames) + 1) * Period + Period
        BY <1>0
      <4>2. (Len(frames) + 1) * Period \in Nat /\ m_next \in Nat /\ clock \in Nat
        BY <1>0 DEF PacerType
      <4>3. Len(frames') + 1 = Len(frames) + 2
        BY <1>0, <3>3
      <4> QED BY <1>0, <2>3, <3>2, <4>1, <4>2, <4>3
    <3>7. DueInv'
      BY <1>0, <3>3, <3>4, <3>5, <3>6 DEF DueInv, PacerType
    <3> QED BY <3>3, <3>5, <3>7 DEF PacerInv
  <2> QED BY <1>0, <2>1, <2>2, <2>3 DEF PacerType
<1>5. CASE UNCHANGED pacerVars
  <2>1. UNCHANGED <<clock, pacing, m_next, target, frames>>
    BY <1>5 DEF pacerVars
  <2>2. Due' = Due
    BY <2>1 DEF Due
  <2> QED BY <1>0, <2>1, <2>2 DEF PacerInv, PacerType, DueInv, CadenceKept
<1> QED BY <1>1, <1>2, <1>3, <1>4, <1>5 DEF PacerNext

(* CadenceKept, for every period, spin margin and sleep cap, however late   *)
(* the timer fires and the thread runs: FramePacer::wait never makes up for *)
(* a late frame with a short one.                                           *)
THEOREM CadenceIsKept == PacerSpec => []CadenceKept
<1>1. InitPacer => PacerInv
  BY DEF InitPacer, PacerInv, PacerType, DueInv, CadenceKept
<1>2. PacerInv => CadenceKept
  BY DEF PacerInv
<1> QED BY <1>1, <1>2, NextPacerInv, PTL DEF PacerSpec

-----------------------------------------------------------------------------
(* The monitor's mode *)

ChainType == [live : BOOLEAN, windowed : BOOLEAN, size : Sizes, monitor : BOOLEAN]

DisplayType ==
  /\ mode \in Modes
  /\ chain \in [Chains -> ChainType]
  /\ window \in [Chains -> Sizes]
  /\ refused \in [Chains -> BOOLEAN]
  /\ keeps \in [Chains -> BOOLEAN] /\ forced \in BOOLEAN

(* One chain is full screen at most, and it is the one whose destructor     *)
(* restores the mode.                                                       *)
OwnerInv ==
  /\ \A d \in Chains : chain[d].monitor <=> FullScreen(d)
  /\ \A d, e \in Chains : FullScreen(d) /\ FullScreen(e) => d = e

(* The inductive invariant of the display.                                  *)
DisplayInv == DisplayType /\ OwnerInv /\ ModeFollows

(* A chain that goes leaves the registry's mode behind, unless another one  *)
(* is full screen.                                                          *)
LEMMA DestructRestores ==
  ASSUME DisplayInv, NEW d \in Chains
  PROVE  /\ Destruct(chain[d]) \in Modes
         /\ (\A e \in Chains \ {d} : ~FullScreen(e)) => Destruct(chain[d]) = DesktopMode
         /\ FullScreen(d) => \A e \in Chains \ {d} : ~FullScreen(e)
         /\ ~FullScreen(d) => Destruct(chain[d]) = mode
<1>1. chain[d].monitor <=> FullScreen(d)
  BY DEF DisplayInv, OwnerInv
<1>2. FullScreen(d) => Destruct(chain[d]) = DesktopMode /\ \A e \in Chains \ {d} : ~FullScreen(e)
  BY <1>1 DEF Destruct, RestoreMonitorDisplayMode, DisplayInv, OwnerInv
<1>3. ~FullScreen(d) => Destruct(chain[d]) = mode
  BY <1>1 DEF Destruct
<1>4. ~FullScreen(d) /\ (\A e \in Chains \ {d} : ~FullScreen(e)) => mode = DesktopMode
  BY DEF DisplayInv, ModeFollows
<1> QED BY <1>2, <1>3, <1>4, DisplayAssumption DEF DisplayInv, DisplayType

(* What the parameters are made into: full screen only if they ask for it   *)
(* and the option does not forbid it.                                       *)
LEMMA Sanitized ==
  ASSUME DisplayType, NEW d \in Chains, NEW p \in Params
  PROVE  /\ sanitizePresentationParameters(d, p) \in [windowed : BOOLEAN, size : Sizes, rate : Rates \cup {0}]
         /\ sanitizePresentationParameters(d, p).windowed <=> (p.windowed \/ forced)
<1> DEFINE q == IF forced THEN [p EXCEPT !.windowed = TRUE, !.rate = 0] ELSE p
<1>1. p \in [windowed : BOOLEAN, size : Sizes \cup {0}, rate : Rates \cup {0}]
      /\ (p.windowed \/ p.size # 0)
  BY DEF Params
<1>2. q \in [windowed : BOOLEAN, size : Sizes \cup {0}, rate : Rates \cup {0}]
      /\ (q.windowed <=> (p.windowed \/ forced)) /\ q.size = p.size
  <2>1. CASE forced
    BY <1>1, <2>1
  <2>2. CASE ~forced
    BY <1>1, <2>2
  <2> QED BY <2>1, <2>2
<1>3. window[d] \in Sizes
  BY DEF DisplayType
<1>4. sanitizePresentationParameters(d, p) =
        IF q.windowed /\ p.size = 0 THEN [q EXCEPT !.size = window[d]] ELSE q
  BY DEF sanitizePresentationParameters
<1> HIDE DEF q
<1>5. CASE q.windowed /\ p.size = 0
  BY <1>2, <1>3, <1>4, <1>5
<1>6. CASE ~(q.windowed /\ p.size = 0)
  <2>1. p.size # 0
    BY <1>1, <1>2, <1>6
  <2> QED BY <1>2, <1>4, <1>6, <2>1
<1> QED BY <1>5, <1>6

(* What a request for a mode can end with.                                  *)
LEMMA ModeSet ==
  ASSUME NEW m \in Modes, NEW size, NEW rate, NEW change \in SetMonitorDisplayMode(m, size, rate)
  PROVE  /\ change.mode \in Modes /\ change.ok \in BOOLEAN
         /\ IF change.ok THEN change.mode.size = size ELSE change.mode = m
<1> DEFINE same == m.size = size /\ rate \in {0, m.rate}
           Got == ChangeDisplaySettings(size, rate) \cup ChangeDisplaySettings(size, 0)
<1>1. \A n \in Got : n \in Modes /\ n.size = size
  BY DEF ChangeDisplaySettings
<1>2. CASE same
  <2>1. change = [ok |-> TRUE, mode |-> m]
    BY <1>2 DEF SetMonitorDisplayMode
  <2> QED BY <1>2, <2>1
<1>3. CASE ~same
  <2>1. change \in {[ok |-> TRUE, mode |-> n] : n \in Got} \cup {[ok |-> FALSE, mode |-> m]}
    BY <1>3 DEF SetMonitorDisplayMode
  <2> HIDE DEF Got
  <2>2. CASE change = [ok |-> FALSE, mode |-> m]
    BY <2>2
  <2>3. CASE change \in {[ok |-> TRUE, mode |-> n] : n \in Got}
    <3>1. PICK n \in Got : change = [ok |-> TRUE, mode |-> n]
      BY <2>3
    <3> QED BY <1>1, <3>1
  <2> QED BY <2>1, <2>2, <2>3
<1> QED BY <1>2, <1>3

(* The new chain's reset(), on the mode and the window it finds.            *)
LEMMA ChainMade ==
  ASSUME DisplayInv, NEW d \in Chains, NEW m \in Modes, NEW size \in Sizes, NEW previous,
         NEW q \in [windowed : BOOLEAN, size : Sizes, rate : Rates \cup {0}],
         initImplicitSwapchain(d, q, m, size, previous), UNCHANGED <<forced, keeps>>,
         (\A e \in Chains \ {d} : ~FullScreen(e)) => m = DesktopMode,
         (\E e \in Chains \ {d} : FullScreen(e)) => m = mode,
         q.windowed \/ \A e \in Chains \ {d} : ~FullScreen(e)
  PROVE  DisplayInv'
<1> DEFINE c == Construct(q)
<1>0. c = [live |-> TRUE, windowed |-> q.windowed, size |-> q.size, monitor |-> ~q.windowed]
      /\ c \in ChainType
  BY DEF Construct, ChainType
<1> HIDE DEF c
<1>1. CASE q.windowed
  <2>1. ResetWindowed(d, c, m, previous) /\ window' = [window EXCEPT ![d] = size]
    BY <1>1 DEF initImplicitSwapchain, c
  <2>2. mode' = m
    BY <1>0, <1>1, <2>1 DEF ResetWindowed
  <2>3. c = [live |-> TRUE, windowed |-> TRUE, size |-> q.size, monitor |-> FALSE]
    <3>1. q.windowed = TRUE
      BY <1>1
    <3> QED BY <1>0, <3>1
  <2>4. c.live /\ c.windowed /\ c.monitor = FALSE /\ [c EXCEPT !.monitor = FALSE] = c
    <3>1. c.live /\ c.windowed /\ c.monitor = FALSE
      BY <2>3
    <3>2. [c EXCEPT !.monitor = FALSE] = c
      BY <1>0, <3>1 DEF ChainType
    <3> QED BY <3>1, <3>2
  <2>5. chain' = [chain EXCEPT ![d] = c]
    <3>1. \E b \in BOOLEAN : chain' = [chain EXCEPT ![d] = [c EXCEPT !.monitor = @ /\ b]]
      BY <2>1 DEF ResetWindowed
    <3> QED BY <2>3, <2>4, <3>1
  <2>6. refused' = [refused EXCEPT ![d] = FALSE]
    BY <2>1 DEF ResetWindowed
  <2>7. DisplayType'
    BY <1>0, <2>1, <2>2, <2>5, <2>6 DEF DisplayInv, DisplayType
  <2>8. /\ ~FullScreen(d)' /\ chain'[d] = c
        /\ \A e \in Chains \ {d} : chain'[e] = chain[e] /\ (FullScreen(e)' <=> FullScreen(e))
    BY <2>4, <2>5 DEF FullScreen, DisplayInv, DisplayType
  <2>9. OwnerInv'
    BY <2>4, <2>8 DEF OwnerInv, DisplayInv
  <2>10. \A e \in Chains \ {d} : window'[e] = window[e] /\ refused'[e] = refused[e] /\ keeps'[e] = keeps[e]
    BY <2>1, <2>6 DEF DisplayInv, DisplayType
  <2>11. ModeFollows'
    BY <2>2, <2>8, <2>10 DEF ModeFollows, DisplayInv
  <2> QED BY <2>7, <2>9, <2>11 DEF DisplayInv
<1>2. CASE ~q.windowed
  <2>1. ResetFullScreen(d, c, m, q.rate, size)
    BY <1>2 DEF initImplicitSwapchain, c
  <2>2. PICK change \in (IF keeps[d] THEN {[ok |-> TRUE, mode |-> m]}
                         ELSE SetMonitorDisplayMode(m, c.size, q.rate)) :
          /\ mode' = change.mode
          /\ refused' = [refused EXCEPT ![d] = ~change.ok]
          /\ chain' = [chain EXCEPT ![d] = c]
          /\ window' = [window EXCEPT ![d] = IF change.ok /\ ~keeps[d] THEN change.mode.size ELSE size]
    BY <2>1 DEF ResetFullScreen
  <2>3. /\ change.mode \in Modes /\ change.ok \in BOOLEAN
        /\ keeps[d] => change.mode = m /\ change.ok
        /\ ~keeps[d] => IF change.ok THEN change.mode.size = c.size ELSE change.mode = m
    <3>1. CASE keeps[d]
      <4>1. change = [ok |-> TRUE, mode |-> m]
        BY <2>2, <3>1
      <4> QED BY <3>1, <4>1
    <3>2. CASE ~keeps[d]
      <4>1. change \in SetMonitorDisplayMode(m, c.size, q.rate)
        BY <2>2, <3>2
      <4> QED BY <3>2, <4>1, ModeSet
    <3> QED BY <3>1, <3>2
  <2>4. m = DesktopMode /\ \A e \in Chains \ {d} : ~FullScreen(e)
    BY <1>2
  <2>5. c.live /\ ~c.windowed /\ c.monitor
    BY <1>0, <1>2
  <2>6. (IF change.ok /\ ~keeps[d] THEN change.mode.size ELSE size) \in Sizes
    BY <2>3 DEF Modes
  <2>7. DisplayType'
    BY <1>0, <2>2, <2>3, <2>6 DEF DisplayInv, DisplayType
  <2>8. /\ FullScreen(d)' /\ chain'[d] = c
        /\ \A e \in Chains \ {d} : chain'[e] = chain[e] /\ (FullScreen(e)' <=> FullScreen(e))
    BY <2>2, <2>5 DEF FullScreen, DisplayInv, DisplayType
  <2>9. OwnerInv'
    <3>1. \A e \in Chains : chain'[e].monitor <=> FullScreen(e)'
      BY <2>5, <2>8 DEF OwnerInv, DisplayInv
    <3>2. \A e \in Chains : FullScreen(e)' => e = d
      BY <2>4, <2>8
    <3> QED BY <3>1, <3>2 DEF OwnerInv
  <2>10. /\ refused'[d] = ~change.ok /\ keeps'[d] = keeps[d]
         /\ window'[d] = IF change.ok /\ ~keeps[d] THEN change.mode.size ELSE size
    BY <2>2 DEF DisplayInv, DisplayType
  <2>11. IF refused'[d] \/ keeps'[d] THEN mode' = DesktopMode
         ELSE mode'.size = c.size /\ window'[d] = mode'.size
    BY <2>2, <2>3, <2>4, <2>10
  <2>12. ModeFollows'
    BY <2>4, <2>8, <2>11 DEF ModeFollows
  <2> QED BY <2>7, <2>9, <2>12 DEF DisplayInv
<1> QED BY <1>1, <1>2

(* Every step of a device or a window keeps the invariant.                  *)
LEMMA NextDisplayInv == DisplayInv /\ [DisplayNext]_displayVars => DisplayInv'
<1> SUFFICES ASSUME DisplayInv, [DisplayNext]_displayVars PROVE DisplayInv'
  OBVIOUS
<1>0. DisplayType /\ OwnerInv /\ ModeFollows
  BY DEF DisplayInv
<1>1. ASSUME NEW d \in Chains, NEW p \in Params, ResetChain(d, p) PROVE DisplayInv'
  <2> DEFINE q == sanitizePresentationParameters(d, p)
             m == Destruct(chain[d])
  <2>1. /\ q \in [windowed : BOOLEAN, size : Sizes, rate : Rates \cup {0}]
        /\ q.windowed <=> (p.windowed \/ forced)
    BY <1>0, Sanitized
  <2>2. /\ initImplicitSwapchain(d, q, m, window[d], asked[d]) /\ UNCHANGED <<forced, keeps>>
        /\ Alone(d, p)
    BY <1>1 DEF ResetChain
  <2>3. /\ m \in Modes
        /\ (\A e \in Chains \ {d} : ~FullScreen(e)) => m = DesktopMode
        /\ (\E e \in Chains \ {d} : FullScreen(e)) => m = mode
    BY DestructRestores
  <2>4. q.windowed \/ \A e \in Chains \ {d} : ~FullScreen(e)
    BY <2>1, <2>2 DEF Alone
  <2>5. window[d] \in Sizes
    BY <1>0 DEF DisplayType
  <2> HIDE DEF q, m
  <2> QED BY <2>1, <2>2, <2>3, <2>4, <2>5, ChainMade
<1>2. ASSUME NEW d \in Chains, NEW p \in Params, NEW ok \in BOOLEAN, CreateChain(d, p, ok)
      PROVE  DisplayInv'
  <2> DEFINE q == sanitizePresentationParameters(d, p)
             size == SetWindowMode(d, q.windowed, q.size)
  <2>1. /\ q \in [windowed : BOOLEAN, size : Sizes, rate : Rates \cup {0}]
        /\ q.windowed <=> (p.windowed \/ forced)
    BY <1>0, Sanitized
  <2>2. size \in Sizes
    BY <1>0, <2>1 DEF SetWindowMode, DisplayType
  <2>3. ~FullScreen(d) /\ Alone(d, p) /\ UNCHANGED <<forced, keeps>>
    BY <1>2 DEF CreateChain, FullScreen
  <2>4. CASE ok
    <3>1. initImplicitSwapchain(d, q, mode, size, q.windowed)
      BY <1>2, <2>4 DEF CreateChain
    <3>2. mode \in Modes /\ ((\A e \in Chains \ {d} : ~FullScreen(e)) => mode = DesktopMode)
      BY <1>0, <2>3 DEF DisplayType, ModeFollows
    <3>3. q.windowed \/ \A e \in Chains \ {d} : ~FullScreen(e)
      BY <2>1, <2>3 DEF Alone
    <3> HIDE DEF q, size
    <3> QED BY <2>1, <2>2, <2>3, <3>1, <3>2, <3>3, ChainMade
  <2>5. CASE ~ok
    <3>1. window' = [window EXCEPT ![d] = size] /\ UNCHANGED <<mode, chain, refused>>
      BY <1>2, <2>5 DEF CreateChain
    <3> HIDE DEF size
    <3> QED BY <1>0, <2>2, <2>3, <3>1
            DEF DisplayInv, DisplayType, OwnerInv, ModeFollows, FullScreen
  <2> QED BY <2>4, <2>5
<1>3. ASSUME NEW d \in Chains, ReleaseChain(d) PROVE DisplayInv'
  <2>1. /\ mode' = Destruct(chain[d]) /\ chain' = [chain EXCEPT ![d] = NoChain]
        /\ refused' = [refused EXCEPT ![d] = FALSE] /\ UNCHANGED <<window, forced, keeps>>
    BY <1>3 DEF ReleaseChain
  <2>2. NoChain \in ChainType /\ ~NoChain.live /\ ~NoChain.monitor
    BY DisplayAssumption DEF NoChain, ChainType, Modes
  <2>3. DisplayType'
    BY <1>0, <2>1, <2>2, DestructRestores DEF DisplayType
  <2>4. /\ ~FullScreen(d)' /\ chain'[d] = NoChain
        /\ \A e \in Chains \ {d} : chain'[e] = chain[e] /\ (FullScreen(e)' <=> FullScreen(e))
    BY <1>0, <2>1, <2>2 DEF FullScreen, DisplayType
  <2>5. OwnerInv'
    BY <1>0, <2>2, <2>4 DEF OwnerInv
  <2>6. \A e \in Chains \ {d} : refused'[e] = refused[e]
    BY <1>0, <2>1 DEF DisplayType
  <2>7. /\ (\A e \in Chains \ {d} : ~FullScreen(e)) => mode' = DesktopMode
        /\ (\E e \in Chains \ {d} : FullScreen(e)) => mode' = mode
    BY <2>1, DestructRestores
  <2>8. ModeFollows'
    BY <1>0, <2>1, <2>4, <2>6, <2>7 DEF ModeFollows
  <2> QED BY <2>3, <2>5, <2>8 DEF DisplayInv
<1>4. ASSUME NEW d \in Chains, NEW size \in Sizes, SizeWindow(d, size) PROVE DisplayInv'
  <2>1. /\ ~FullScreen(d) /\ window' = [window EXCEPT ![d] = size]
        /\ UNCHANGED <<mode, chain, refused, forced, keeps>>
    BY <1>4 DEF SizeWindow
  <2> QED BY <1>0, <2>1 DEF DisplayInv, DisplayType, OwnerInv, ModeFollows, FullScreen
<1>5. CASE UNCHANGED displayVars
  BY <1>0, <1>5 DEF displayVars, DisplayInv, DisplayType, OwnerInv, ModeFollows, FullScreen
<1> QED BY <1>1, <1>2, <1>3, <1>4, <1>5 DEF DisplayNext

(* ModeFollows, for any number of devices and any modes of the monitor:     *)
(* whatever sequence of devices, resets, refusals and releases, the chains' *)
(* constructors, resets and destructors leave the monitor in the right mode.*)
THEOREM ModeIsRestored == DisplaySpec => []ModeFollows
<1>1. InitDisplay => DisplayInv
  <2> SUFFICES ASSUME InitDisplay PROVE DisplayInv
    OBVIOUS
  <2>1. NoChain \in ChainType /\ ~NoChain.live /\ ~NoChain.monitor /\ DesktopMode.size \in Sizes
    BY DisplayAssumption DEF NoChain, ChainType, Modes
  <2>2. (CHOOSE x \in Sizes : TRUE) \in Sizes
    BY <2>1
  <2>3. DisplayType
    BY <2>1, <2>2, DisplayAssumption DEF InitDisplay, DisplayType
  <2>4. \A d \in Chains : ~FullScreen(d) /\ chain[d] = NoChain
    BY <2>1 DEF InitDisplay, FullScreen
  <2> QED BY <2>1, <2>3, <2>4 DEF InitDisplay, DisplayInv, OwnerInv, ModeFollows
<1>2. DisplayInv => ModeFollows
  BY DEF DisplayInv
<1> QED BY <1>1, <1>2, NextDisplayInv, PTL DEF DisplaySpec

-----------------------------------------------------------------------------
(* Objects, their references and their levels.  First the protocol about   *)
(* levels, for any commands under way and any handles; then the counts;    *)
(* then the calls.                                                         *)

(* The commands about an object and its levels, and the entries of the     *)
(* server.                                                                 *)
Commands ==
  [op : {"Destroy"}] \cup [op : {"Use", "Unlink"}, id : Nat]
    \cup [op : {"Link"}, id : Nat, face : Nat, level : Nat]
Entries == [id : Nat, face : Nat, level : Nat]

(* When the server comes to the k-th command of s it has a handle x: it    *)
(* has it now, or is sent it before.                                       *)
Known(s, T, x, k) ==
  \/ \E e \in T : e.id = x
  \/ \E j \in 1..k - 1 : s[j].op = "Link" /\ s[j].id = x
(* The entry e is in the table or will be. *)
Linked(s, T, e) ==
  \/ e \in T
  \/ \E k \in 1..Len(s) : s[k] = LinkLevel(e.id, e.face, e.level)
(* The handle x will be taken back. *)
Unlinked(s, x) == \E k \in 1..Len(s) : s[k] = UnlinkLevel(x)

(* Entries with handles given out so far, each handle once. *)
Names(T, n) == T \subseteq Entries /\ \A e, g \in T : e.id < n /\ (e.id = g.id => e = g)

(* A handle is used and taken back when it is known, and stands for one    *)
(* level; after Destroy only Unlinks follow, one for each handle.          *)
InOrder(s, T, n) ==
  \A k \in 1..Len(s) :
    /\ s[k].op \in {"Use", "Unlink"} => Known(s, T, s[k].id, k)
    /\ s[k].op = "Link" => ~Known(s, T, s[k].id, k) /\ s[k].id < n
    /\ \A j \in 1..k - 1 : s[j].op \in {"Destroy", "Unlink"} =>
         s[k].op = "Unlink" /\ (s[j].op = "Unlink" => s[j].id # s[k].id)

(* The references to the server's object: the client's and one for each    *)
(* level, all of them until Destroy, which has been sent or served when    *)
(* the client's object (a: alive) is gone.                                 *)
Serving(s, T, v, a) ==
  /\ IsFiniteSet(T) /\ v \in Nat
  /\ v # 0 => v = 1 + Cardinality(T)
  /\ v = 0 => ~a /\ \A k \in 1..Len(s) : s[k].op = "Unlink"
  /\ a => \A k \in 1..Len(s) : s[k].op \in {"Use", "Link"}
  /\ ~a /\ v # 0 => \E k \in 1..Len(s) : s[k].op = "Destroy"

(* What the table and the commands promise is what the client has, N, or,  *)
(* when its object is gone, will all be taken back.                        *)
Promised(s, T, N, a) ==
  /\ a => \A e \in Entries : Linked(s, T, e) <=> e \in N
  /\ ~a => N = {} /\ \A e \in Entries : Linked(s, T, e) => Unlinked(s, e.id)

\* t is s, Destroy and the Unlinks of u; t is s without its first command
(* t is s, Destroy and the Unlinks of u; t is s without its first command  *)
(* c.                                                                      *)
Closed(s, t, m, u) ==
  /\ t \in Seq(Commands) /\ Len(s) \in Nat /\ Len(t) = Len(s) + 1 + m
  /\ \A i \in 1..Len(s) : t[i] = s[i]
  /\ t[Len(s) + 1] = DestroyObject
  /\ \A k \in 1..m : t[Len(s) + 1 + k] = UnlinkLevel(u[k])
Served(s, t, c) ==
  /\ t \in Seq(Commands) /\ Len(s) \in Nat \ {0} /\ Len(t) = Len(s) - 1
  /\ \A i \in 1..Len(t) : t[i] = s[i + 1]
  /\ c = s[1] /\ c \in Commands

(* The protocol between client and server about levels.  It takes what it  *)
(* is about as parameters, so that one step can be stated for each of      *)
(* them.                                                                   *)
Agree(s, T, v, N, n, a) ==
  /\ s \in Seq(Commands) /\ n \in Nat \ {0} /\ Names(T, n) /\ Names(N, n)
  /\ InOrder(s, T, n) /\ Serving(s, T, v, a) /\ Promised(s, T, N, a)

-----------------------------------------------------------------------------

(* One more command at the end. *)
LEMMA OneMore ==
  ASSUME NEW s \in Seq(Commands), NEW c \in Commands
  PROVE  /\ Append(s, c) \in Seq(Commands) /\ Len(s) \in Nat /\ Len(Append(s, c)) = Len(s) + 1
         /\ \A i \in 1..Len(s) : Append(s, c)[i] = s[i] /\ s[i] \in Commands
         /\ Append(s, c)[Len(s) + 1] = c
BY AppendProperties

(* Agree asks of the object only whether it is alive. *)
LEMMA AgreeAlive ==
  ASSUME NEW s, NEW T, NEW v, NEW N, NEW n, NEW a, NEW b, Agree(s, T, v, N, n, a), a <=> b
  PROVE  Agree(s, T, v, N, n, b)
BY DEF Agree, Serving, Promised

(* A command that uses a handle the client has finds it. *)
LEMMA AgreeUse ==
  ASSUME NEW s, NEW T, NEW v, NEW N, NEW n, NEW a, Agree(s, T, v, N, n, a), a, NEW e \in N
  PROVE  Agree(Append(s, UseLevel(e.id)), T, v, N, n, a)
<1> DEFINE c == UseLevel(e.id)
           t == Append(s, c)
<1>1. e \in Entries /\ e.id \in Nat /\ c \in Commands /\ c.op = "Use" /\ c.id = e.id
  BY DEF Agree, Names, Entries, Commands, UseLevel
<1>2. s \in Seq(Commands)
  BY DEF Agree
<1>3. /\ t \in Seq(Commands) /\ Len(s) \in Nat /\ Len(t) = Len(s) + 1
      /\ \A i \in 1..Len(s) : t[i] = s[i] /\ s[i] \in Commands
      /\ t[Len(s) + 1] = c
  BY <1>1, <1>2, OneMore
<1> HIDE DEF c, t
<1>4. \A x, k : k \in 1..Len(s) + 1 => (Known(t, T, x, k) <=> Known(s, T, x, k))
  BY <1>3 DEF Known
<1>5. \A g : Linked(t, T, g) <=> Linked(s, T, g)
  <2>1. ASSUME NEW g PROVE c # LinkLevel(g.id, g.face, g.level)
    BY <1>1 DEF LinkLevel
  <2> QED BY <1>3, <2>1 DEF Linked
<1>6. Known(s, T, e.id, Len(s) + 1)
  <2>1. Linked(s, T, e)
    BY <1>1 DEF Agree, Promised
  <2>2. CASE e \in T
    BY <2>2 DEF Known
  <2>3. CASE \E k \in 1..Len(s) : s[k] = LinkLevel(e.id, e.face, e.level)
    BY <1>3, <2>3 DEF Known, LinkLevel
  <2> QED BY <2>1, <2>2, <2>3 DEF Linked
<1>7. \A k \in 1..Len(s) : s[k].op \in {"Use", "Link"}
  BY DEF Agree, Serving
<1>8. InOrder(t, T, n)
  <2> SUFFICES ASSUME NEW k \in 1..Len(t)
               PROVE  /\ t[k].op \in {"Use", "Unlink"} => Known(t, T, t[k].id, k)
                      /\ t[k].op = "Link" => ~Known(t, T, t[k].id, k) /\ t[k].id < n
                      /\ \A j \in 1..k - 1 : t[j].op \in {"Destroy", "Unlink"} =>
                           t[k].op = "Unlink" /\ (t[j].op = "Unlink" => t[j].id # t[k].id)
    BY DEF InOrder
  <2>1. CASE k \in 1..Len(s)
    <3>1. t[k] = s[k] /\ (\A x : Known(t, T, x, k) <=> Known(s, T, x, k)) /\ \A j \in 1..k - 1 : t[j] = s[j]
      BY <1>3, <1>4, <2>1
    <3> QED BY <2>1, <3>1 DEF Agree, InOrder
  <2>2. CASE k = Len(s) + 1
    <3>1. t[k] = c /\ Known(t, T, e.id, k) /\ \A j \in 1..k - 1 : t[j].op \in {"Use", "Link"}
      BY <1>3, <1>4, <1>6, <1>7, <2>2
    <3> QED BY <1>1, <3>1
  <2> QED BY <1>3, <2>1, <2>2
<1>9. Serving(t, T, v, a)
  <2>1. \A k \in 1..Len(t) : t[k].op \in {"Use", "Link"}
    BY <1>1, <1>3, <1>7
  <2> QED BY <2>1 DEF Agree, Serving
<1>10. Promised(t, T, N, a)
  BY <1>5 DEF Agree, Promised
<1> QED
  BY <1>3, <1>8, <1>9, <1>10 DEF Agree, t, c

(* A new level: its handle is new to the server. *)
LEMMA AgreeLink ==
  ASSUME NEW s, NEW T, NEW v, NEW N, NEW n, NEW a, Agree(s, T, v, N, n, a), a, NEW f \in Nat, NEW l \in Nat
  PROVE  Agree(Append(s, LinkLevel(n, f, l)), T, v, N \cup {Entry(n, f, l)}, n + 1, a)
<1> DEFINE c == LinkLevel(n, f, l)
           d == Entry(n, f, l)
           t == Append(s, c)
<1>1. /\ c \in Commands /\ c.op = "Link" /\ c.id = n /\ n \in Nat \ {0}
      /\ d \in Entries /\ d.id = n
  BY DEF Agree, Entries, Commands, LinkLevel, Entry
<1>2. s \in Seq(Commands)
  BY DEF Agree
<1>3. /\ t \in Seq(Commands) /\ Len(s) \in Nat /\ Len(t) = Len(s) + 1
      /\ \A i \in 1..Len(s) : t[i] = s[i] /\ s[i] \in Commands
      /\ t[Len(s) + 1] = c
  BY <1>1, <1>2, OneMore
<1>4. \A g \in Entries : c = LinkLevel(g.id, g.face, g.level) <=> g = d
  BY DEF LinkLevel, Entry, Entries
<1> HIDE DEF c, t, d
<1>5. \A x, k : k \in 1..Len(s) + 1 => (Known(t, T, x, k) <=> Known(s, T, x, k))
  BY <1>3 DEF Known
<1>6. \A g \in Entries : Linked(t, T, g) <=> Linked(s, T, g) \/ g = d
  BY <1>3, <1>4 DEF Linked
<1>7. /\ \A k \in 1..Len(s) : s[k].op \in {"Use", "Link"} /\ (s[k].op = "Link" => s[k].id < n)
      /\ \A e \in T : e.id < n
  BY DEF Agree, Serving, InOrder, Names
<1>8. ~Known(s, T, n, Len(s) + 1)
  BY <1>3, <1>7, <1>1 DEF Known
<1>9. InOrder(t, T, n + 1)
  <2> SUFFICES ASSUME NEW k \in 1..Len(t)
               PROVE  /\ t[k].op \in {"Use", "Unlink"} => Known(t, T, t[k].id, k)
                      /\ t[k].op = "Link" => ~Known(t, T, t[k].id, k) /\ t[k].id < n + 1
                      /\ \A j \in 1..k - 1 : t[j].op \in {"Destroy", "Unlink"} =>
                           t[k].op = "Unlink" /\ (t[j].op = "Unlink" => t[j].id # t[k].id)
    BY DEF InOrder
  <2>1. CASE k \in 1..Len(s)
    <3>1. t[k] = s[k] /\ (\A x : Known(t, T, x, k) <=> Known(s, T, x, k)) /\ \A j \in 1..k - 1 : t[j] = s[j]
      BY <1>3, <1>5, <2>1
    <3>2. t[k].op = "Link" => t[k].id \in Nat
      BY <1>3, <2>1, <3>1 DEF Commands
    <3> QED BY <1>1, <2>1, <3>1, <3>2 DEF Agree, InOrder
  <2>2. CASE k = Len(s) + 1
    <3>1. t[k] = c /\ ~Known(t, T, n, k) /\ \A j \in 1..k - 1 : t[j].op \in {"Use", "Link"}
      BY <1>3, <1>5, <1>7, <1>8, <2>2
    <3> QED BY <1>1, <3>1
  <2> QED BY <1>3, <2>1, <2>2
<1>10. Serving(t, T, v, a)
  <2>1. \A k \in 1..Len(t) : t[k].op \in {"Use", "Link"}
    BY <1>1, <1>3, <1>7
  <2> QED BY <2>1 DEF Agree, Serving
<1>11. Promised(t, T, N \cup {d}, a)
  BY <1>6 DEF Agree, Promised
<1>12. Names(T, n + 1) /\ Names(N \cup {d}, n + 1)
  BY <1>1 DEF Agree, Names, Entries
<1>13. n + 1 \in Nat \ {0}
  BY <1>1
<1>14. Agree(t, T, v, N \cup {d}, n + 1, a)
  BY <1>3, <1>9, <1>10, <1>11, <1>12, <1>13, Zenon DEF Agree
<1> QED
  BY <1>14 DEF t, c, d

(* What Dereferences sends when the object dies. *)
LEMMA Closes ==
  ASSUME NEW s \in Seq(Commands), NEW m \in Nat, NEW u \in [1..m -> Nat]
  PROVE  Closed(s, s \o (<<DestroyObject>> \o [k \in 1..m |-> UnlinkLevel(u[k])]), m, u)
<1> DEFINE q == [k \in 1..m |-> UnlinkLevel(u[k])]
           d == <<DestroyObject>>
           r == d \o q
           t == s \o r
<1>1. q \in Seq(Commands) /\ Len(q) = m /\ \A k \in 1..m : q[k] = UnlinkLevel(u[k])
  BY DEF UnlinkLevel, Commands
<1>2. d \in Seq(Commands) /\ Len(d) = 1 /\ d[1] = DestroyObject
  BY DEF DestroyObject, Commands
<1> HIDE DEF q, d
<1>3. r \in Seq(Commands) /\ Len(r) = 1 + m /\ \A i \in 1..1 + m : r[i] = IF i <= 1 THEN d[i] ELSE q[i - 1]
  <2>1. /\ d \o q \in Seq(Commands) /\ Len(d \o q) = Len(d) + Len(q)
        /\ \A i \in 1..Len(d) + Len(q) : (d \o q)[i] = IF i <= Len(d) THEN d[i] ELSE q[i - Len(d)]
    BY <1>1, <1>2, ConcatProperties, Zenon
  <2> QED BY <1>1, <1>2, <2>1
<1> HIDE DEF r
<1>4. /\ t \in Seq(Commands) /\ Len(t) = Len(s) + (1 + m) /\ Len(s) \in Nat
      /\ \A i \in 1..Len(s) + (1 + m) : t[i] = IF i <= Len(s) THEN s[i] ELSE r[i - Len(s)]
  <2>1. /\ s \o r \in Seq(Commands) /\ Len(s \o r) = Len(s) + Len(r)
        /\ \A i \in 1..Len(s) + Len(r) : (s \o r)[i] = IF i <= Len(s) THEN s[i] ELSE r[i - Len(s)]
    BY <1>3, ConcatProperties, Zenon
  <2> QED BY <1>3, <2>1
<1> HIDE DEF t
<1>5. Closed(s, t, m, u)
  <2>1. PICK w \in Nat : w = Len(s)
    BY <1>4
  <2>2. ASSUME NEW k \in 1..m PROVE t[Len(s) + 1 + k] = UnlinkLevel(u[k])
    <3>1. w + 1 + k \in 1..w + (1 + m) /\ ~(w + 1 + k <= w) /\ (w + 1 + k) - w = 1 + k
      OBVIOUS
    <3>2. 1 + k \in 1..1 + m /\ ~(1 + k <= 1) /\ (1 + k) - 1 = k
      OBVIOUS
    <3> QED BY <1>1, <1>3, <1>4, <2>1, <3>1, <3>2
  <2>3. w + 1 \in 1..w + (1 + m) /\ ~(w + 1 <= w) /\ (w + 1) - w = 1 /\ 1 \in 1..1 + m
    OBVIOUS
  <2>4. t[Len(s) + 1] = DestroyObject
    BY <1>2, <1>3, <1>4, <2>1, <2>3
  <2>5. \A i \in 1..w : t[i] = s[i]
    BY <1>4, <2>1
  <2> QED BY <1>4, <2>1, <2>2, <2>4, <2>5 DEF Closed
<1> QED
  BY <1>5 DEF t, r, q, d

(* The object dies: Destroy, and one Unlink for each handle the client     *)
(* had.                                                                    *)
LEMMA AgreeDies ==
  ASSUME NEW s, NEW T, NEW v, NEW N, NEW n, NEW a, Agree(s, T, v, N, n, a), a, NEW b, ~b,
         NEW m \in Nat, NEW u \in [1..m -> Nat],
         \A j, k \in 1..m : u[j] = u[k] => j = k,
         \A k \in 1..m : \E e \in N : e.id = u[k],
         \A e \in N : \E k \in 1..m : u[k] = e.id,
         NEW t, Closed(s, t, m, u)
  PROVE  Agree(t, T, v, {}, n, b)
<1>1. PICK x \in Nat, y \in Nat : x = Len(s) /\ y = Len(t)
  BY DEF Closed
<1>3. x \in Nat /\ y = x + 1 + m
  BY <1>1 DEF Closed
<1>7. /\ \A i \in 1..x : t[i] = s[i]
      /\ t[x + 1] = DestroyObject
      /\ \A k \in 1..m : t[x + 1 + k] = UnlinkLevel(u[k])
  BY <1>1 DEF Closed
<1>8. \A k \in 1..x : s[k].op \in {"Use", "Link"}
  BY <1>1 DEF Agree, Serving
<1>9. \A z, k : k \in 1..x => (Known(t, T, z, k) <=> Known(s, T, z, k))
  <2> SUFFICES ASSUME NEW z, NEW k \in 1..x PROVE Known(t, T, z, k) <=> Known(s, T, z, k)
    OBVIOUS
  <2>1. \A j \in 1..k - 1 : j \in 1..x
    BY <1>3
  <2>2. \A j \in 1..k - 1 : t[j] = s[j]
    BY <1>7, <2>1
  <2> QED BY <2>2 DEF Known
<1>10. ASSUME NEW e \in Entries PROVE Linked(t, T, e) => e \in N
  <2>1. ASSUME NEW k \in 1..y, t[k] = LinkLevel(e.id, e.face, e.level) PROVE Linked(s, T, e)
    <3>1. CASE k \in 1..x
      BY <1>1, <1>7, <2>1, <3>1 DEF Linked
    <3>2. CASE k = x + 1
      BY <1>7, <2>1, <3>2 DEF LinkLevel, DestroyObject
    <3>3. CASE k > x + 1
      <4>1. k - (x + 1) \in 1..m /\ x + 1 + (k - (x + 1)) = k
        BY <1>3, <3>3
      <4>2. t[k] = UnlinkLevel(u[k - (x + 1)])
        BY <1>7, <4>1
      <4> QED BY <2>1, <4>2 DEF LinkLevel, UnlinkLevel
    <3> QED BY <1>3, <3>1, <3>2, <3>3
  <2> QED BY <1>1, <1>10, <2>1 DEF Linked, Agree, Promised
<1>11. ASSUME NEW e \in N, NEW k \in 1..y, k > x PROVE Known(t, T, e.id, k)
  <2>1. Linked(s, T, e)
    BY DEF Agree, Promised, Names
  <2>2. CASE e \in T
    BY <2>2 DEF Known
  <2>3. CASE \E j \in 1..x : s[j] = LinkLevel(e.id, e.face, e.level)
    <3>1. PICK j \in 1..x : s[j] = LinkLevel(e.id, e.face, e.level)
      BY <2>3
    <3>2. j \in 1..k - 1 /\ t[j] = s[j]
      BY <1>3, <1>7, <1>11, SMT
    <3>3. s[j].op = "Link" /\ s[j].id = e.id
      BY <3>1 DEF LinkLevel
    <3> QED BY <3>2, <3>3 DEF Known
  <2> QED BY <1>1, <2>1, <2>2, <2>3 DEF Linked
<1>12. ASSUME NEW k \in 1..y, k > x + 1
       PROVE  \E i \in 1..m : k = x + 1 + i /\ t[k].op = "Unlink" /\ t[k].id = u[i]
  <2>1. k - (x + 1) \in 1..m /\ x + 1 + (k - (x + 1)) = k
    BY <1>3, <1>12
  <2>2. PICK i \in 1..m : k = x + 1 + i
    BY <2>1
  <2>3. t[k] = UnlinkLevel(u[i])
    BY <1>7, <2>2
  <2> QED BY <2>2, <2>3 DEF UnlinkLevel
<1>13. t[x + 1].op = "Destroy"
  BY <1>7 DEF DestroyObject
<1>14. InOrder(t, T, n)
  <2> SUFFICES ASSUME NEW k \in 1..y
               PROVE  /\ t[k].op \in {"Use", "Unlink"} => Known(t, T, t[k].id, k)
                      /\ t[k].op = "Link" => ~Known(t, T, t[k].id, k) /\ t[k].id < n
                      /\ \A j \in 1..k - 1 : t[j].op \in {"Destroy", "Unlink"} =>
                           t[k].op = "Unlink" /\ (t[j].op = "Unlink" => t[j].id # t[k].id)
    BY <1>1 DEF InOrder
  <2>1. CASE k \in 1..x
    <3>1. t[k] = s[k] /\ (\A z : Known(t, T, z, k) <=> Known(s, T, z, k)) /\ \A j \in 1..k - 1 : t[j] = s[j]
      BY <1>3, <1>7, <1>9, <2>1
    <3> QED BY <1>1, <2>1, <3>1 DEF Agree, InOrder
  <2>2. CASE k = x + 1
    <3>1. \A j \in 1..k - 1 : t[j].op \in {"Use", "Link"}
      <4>1. \A j \in 1..k - 1 : j \in 1..x
        BY <1>3, <2>2
      <4> QED BY <1>7, <1>8, <4>1
    <3> QED BY <1>13, <2>2, <3>1
  <2>3. CASE k > x + 1
    <3>1. PICK i \in 1..m : k = x + 1 + i /\ t[k].op = "Unlink" /\ t[k].id = u[i]
      BY <1>12, <2>3
    <3>2. Known(t, T, t[k].id, k)
      <4>1. PICK e \in N : e.id = u[i]
        OBVIOUS
      <4>2. k > x
        BY <1>3, <2>3
      <4> QED BY <1>11, <3>1, <4>1, <4>2
    <3>3. ASSUME NEW j \in 1..k - 1, t[j].op = "Unlink" PROVE t[j].id # t[k].id
      <4>1. j > x + 1 /\ j \in 1..y
        <5>1. j \notin 1..x
          BY <1>7, <1>8, <3>3
        <5>2. j # x + 1
          BY <1>13, <3>3
        <5> QED BY <1>3, <5>1, <5>2
      <4>2. PICK h \in 1..m : j = x + 1 + h /\ t[j].id = u[h]
        BY <1>12, <4>1
      <4>3. h # i
        BY <3>1, <4>2
      <4> QED BY <3>1, <4>2, <4>3
    <3> QED BY <3>1, <3>2, <3>3
  <2> QED BY <1>3, <2>1, <2>2, <2>3
<1>15. Serving(t, T, v, b)
  <2>1. x + 1 \in 1..y
    BY <1>3
  <2> QED BY <1>1, <1>13, <2>1 DEF Agree, Serving
<1>16. Promised(t, T, {}, b)
  <2>1. ASSUME NEW e \in Entries, Linked(t, T, e) PROVE Unlinked(t, e.id)
    <3>1. e \in N
      BY <1>10, <2>1
    <3>2. PICK k \in 1..m : u[k] = e.id
      BY <3>1
    <3>3. x + 1 + k \in 1..y
      BY <1>3
    <3>4. t[x + 1 + k] = UnlinkLevel(u[k])
      BY <1>7
    <3> QED BY <1>1, <3>2, <3>3, <3>4 DEF Unlinked
  <2> QED BY <2>1 DEF Promised
<1>17. Names({}, n)
  BY DEF Names
<1> QED
  BY <1>14, <1>15, <1>16, <1>17 DEF Agree, Closed

(* The first of the commands and the rest. *)
LEMMA FirstCommand ==
  ASSUME NEW s \in Seq(Commands), s # <<>>
  PROVE  /\ Tail(s) \in Seq(Commands) /\ Len(s) \in Nat \ {0} /\ Len(Tail(s)) = Len(s) - 1
         /\ \A i \in 1..Len(Tail(s)) : Tail(s)[i] = s[i + 1]
         /\ Head(s) = s[1] /\ \A i \in 1..Len(s) : s[i] \in Commands
BY HeadTailProperties, EmptySeq

(* The server serves one command: its handles are again those the rest     *)
(* needs.                                                                  *)
LEMMA AgreeServes ==
  ASSUME NEW s, NEW T, NEW v, NEW N, NEW n, NEW a, Agree(s, T, v, N, n, a),
         NEW t, NEW c, Served(s, t, c), NEW U, NEW w,
         \/ c.op = "Destroy" /\ w = 0 /\ U = T
         \/ c.op = "Link" /\ U = T \cup {Entry(c.id, c.face, c.level)} /\ w = v + 1
         \/ c.op = "Unlink" /\ U = {e \in T : e.id # c.id} /\ w = v
         \/ c.op = "Use" /\ U = T /\ w = v
  PROVE  Agree(t, U, w, N, n, a)
<1>1. v \in Nat /\ IsFiniteSet(T)
  BY DEF Agree, Serving
<1>2. /\ Len(s) \in Nat \ {0} /\ Len(t) = Len(s) - 1
      /\ \A i \in 1..Len(t) : t[i] = s[i + 1]
      /\ c = s[1] /\ c \in Commands /\ 1 \in 1..Len(s)
  BY DEF Served
<1>3. \A i \in 1..Len(t) : i + 1 \in 1..Len(s) /\ t[i] = s[i + 1]
  BY <1>2
<1>4. \A i \in 2..Len(s) : i - 1 \in 1..Len(t) /\ t[i - 1] = s[i]
  BY <1>2
<1>5. Names(U, n)
  <2>1. CASE c.op = "Link" /\ U = T \cup {Entry(c.id, c.face, c.level)}
    <3>1. c.id \in Nat /\ Entry(c.id, c.face, c.level) \in Entries /\ Entry(c.id, c.face, c.level).id = c.id
      BY <1>2, <2>1 DEF Commands, Entry, Entries
    <3>2. c.id < n /\ ~Known(s, T, c.id, 1)
      BY <1>2, <2>1 DEF Agree, InOrder
    <3>3. \A e \in T : e.id # c.id
      BY <3>2 DEF Known
    <3> QED BY <2>1, <3>1, <3>2, <3>3 DEF Agree, Names
  <2>2. CASE U \subseteq T
    BY <2>2 DEF Agree, Names
  <2> QED BY <2>1, <2>2
<1>6. ASSUME NEW x, NEW k \in 2..Len(s), c.op # "Unlink" \/ x # c.id
      PROVE  Known(t, U, x, k - 1) <=> Known(s, T, x, k)
  <2>1. (\E j \in 1..(k - 1) - 1 : t[j].op = "Link" /\ t[j].id = x)
          <=> \E j \in 2..k - 1 : s[j].op = "Link" /\ s[j].id = x
    <3>1. ASSUME NEW j \in 1..(k - 1) - 1 PROVE j + 1 \in 2..k - 1 /\ t[j] = s[j + 1]
      BY <1>2
    <3>2. ASSUME NEW j \in 2..k - 1 PROVE j - 1 \in 1..(k - 1) - 1 /\ t[j - 1] = s[j]
      BY <1>2, <1>4
    <3>3. (\E j \in 1..(k - 1) - 1 : t[j].op = "Link" /\ t[j].id = x)
            => \E j \in 2..k - 1 : s[j].op = "Link" /\ s[j].id = x
      <4> SUFFICES ASSUME NEW j \in 1..(k - 1) - 1, t[j].op = "Link" /\ t[j].id = x
                   PROVE  \E i \in 2..k - 1 : s[i].op = "Link" /\ s[i].id = x
        OBVIOUS
      <4> WITNESS j + 1 \in 2..k - 1
      <4> QED BY <3>1
    <3>4. (\E j \in 2..k - 1 : s[j].op = "Link" /\ s[j].id = x)
            => \E j \in 1..(k - 1) - 1 : t[j].op = "Link" /\ t[j].id = x
      <4> SUFFICES ASSUME NEW j \in 2..k - 1, s[j].op = "Link" /\ s[j].id = x
                   PROVE  \E i \in 1..(k - 1) - 1 : t[i].op = "Link" /\ t[i].id = x
        OBVIOUS
      <4> WITNESS j - 1 \in 1..(k - 1) - 1
      <4> QED BY <3>2
    <3> QED BY <3>3, <3>4
  <2>2. (\E e \in U : e.id = x) <=> (\E e \in T : e.id = x) \/ (c.op = "Link" /\ c.id = x)
    <3>1. CASE c.op = "Link" /\ U = T \cup {Entry(c.id, c.face, c.level)}
      <4>1. Entry(c.id, c.face, c.level).id = c.id
        BY DEF Entry
      <4> QED BY <3>1, <4>1
    <3>2. CASE c.op = "Unlink" /\ U = {e \in T : e.id # c.id}
      BY <1>6, <3>2
    <3>3. CASE c.op \in {"Destroy", "Use"} /\ U = T
      BY <3>3
    <3> QED BY <3>1, <3>2, <3>3
  <2>3. (\E j \in 1..k - 1 : s[j].op = "Link" /\ s[j].id = x)
          <=> (c.op = "Link" /\ c.id = x) \/ \E j \in 2..k - 1 : s[j].op = "Link" /\ s[j].id = x
    <3>1. 1 \in 1..k - 1 /\ \A j \in 1..k - 1 : j = 1 \/ j \in 2..k - 1
      BY <1>2
    <3> QED BY <1>2, <3>1
  <2> QED BY <2>1, <2>2, <2>3 DEF Known
<1>7. \A k \in 2..Len(s) : 1 \in 1..k - 1
  BY <1>2
<1>8. c.op \in {"Destroy", "Unlink"} => \A k \in 2..Len(s) : s[k].op = "Unlink" /\ (c.op = "Unlink" => s[k].id # c.id)
  BY <1>2, <1>7 DEF Agree, InOrder
<1>9. InOrder(t, U, n)
  <2> SUFFICES ASSUME NEW k \in 1..Len(t)
               PROVE  /\ t[k].op \in {"Use", "Unlink"} => Known(t, U, t[k].id, k)
                      /\ t[k].op = "Link" => ~Known(t, U, t[k].id, k) /\ t[k].id < n
                      /\ \A j \in 1..k - 1 : t[j].op \in {"Destroy", "Unlink"} =>
                           t[k].op = "Unlink" /\ (t[j].op = "Unlink" => t[j].id # t[k].id)
    BY DEF InOrder
  <2>1. k + 1 \in 2..Len(s) /\ k + 1 \in 1..Len(s) /\ t[k] = s[k + 1] /\ (k + 1) - 1 = k
    BY <1>2
  <2>2. c.op # "Unlink" \/ s[k + 1].id # c.id
    BY <1>8, <2>1
  <2>3. Known(t, U, t[k].id, k) <=> Known(s, T, s[k + 1].id, k + 1)
    BY <1>6, <2>1, <2>2
  <2>4. \A j \in 1..k - 1 : t[j] = s[j + 1] /\ j + 1 \in 1..(k + 1) - 1
    BY <1>3, <2>1
  <2> QED BY <2>1, <2>3, <2>4 DEF Agree, InOrder
<1>10. Serving(t, U, w, a)
  <2>1. CASE c.op = "Use" /\ U = T /\ w = v
    <3>1. Serving(s, T, v, a)
      BY DEF Agree
    <3>2. (\E k \in 1..Len(s) : s[k].op = "Destroy") => \E k \in 1..Len(t) : t[k].op = "Destroy"
      BY <1>2, <1>4, <2>1
    <3>3. /\ (\A k \in 1..Len(s) : s[k].op = "Unlink") => \A k \in 1..Len(t) : t[k].op = "Unlink"
          /\ (\A k \in 1..Len(s) : s[k].op \in {"Use", "Link"}) => \A k \in 1..Len(t) : t[k].op \in {"Use", "Link"}
      BY <1>3
    <3> QED BY <2>1, <3>1, <3>2, <3>3 DEF Serving
  <2>2. CASE c.op = "Destroy" /\ w = 0 /\ U = T
    BY <1>1, <1>2, <1>3, <1>8, <2>2 DEF Agree, Serving
  <2>3. CASE c.op = "Unlink" /\ U = {e \in T : e.id # c.id} /\ w = v
    <3>1. IsFiniteSet(U)
      BY <1>1, <2>3, FS_Subset
    <3>2. ~a
      BY <1>2, <2>3 DEF Agree, Serving
    <3>3. \A k \in 1..Len(s) : s[k].op = "Unlink"
      BY <1>2, <1>8, <2>3
    <3>4. v = 0
      BY <3>2, <3>3 DEF Agree, Serving
    <3> QED BY <1>1, <1>3, <2>3, <3>1, <3>2, <3>3, <3>4 DEF Serving
  <2>4. CASE c.op = "Link" /\ U = T \cup {Entry(c.id, c.face, c.level)} /\ w = v + 1
    <3>1. v # 0
      BY <1>2, <2>4 DEF Agree, Serving
    <3>2. ~Known(s, T, c.id, 1)
      BY <1>2, <2>4 DEF Agree, InOrder
    <3>3. Entry(c.id, c.face, c.level) \notin T
      BY <3>2 DEF Known, Entry
    <3>4. IsFiniteSet(U) /\ Cardinality(U) = Cardinality(T) + 1 /\ Cardinality(T) \in Nat
      BY <1>1, <2>4, <3>3, FS_AddElement, FS_CardinalityType
    <3>5. Serving(s, T, v, a)
      BY DEF Agree
    <3>6. (\E k \in 1..Len(s) : s[k].op = "Destroy") => \E k \in 1..Len(t) : t[k].op = "Destroy"
      BY <1>2, <1>4, <2>4
    <3>7. (\A k \in 1..Len(s) : s[k].op \in {"Use", "Link"}) => \A k \in 1..Len(t) : t[k].op \in {"Use", "Link"}
      BY <1>3
    <3>8. w \in Nat /\ w # 0 /\ w = 1 + Cardinality(U)
      BY <1>1, <2>4, <3>1, <3>4, <3>5 DEF Serving
    <3> QED BY <3>1, <3>4, <3>5, <3>6, <3>7, <3>8 DEF Serving
  <2> QED BY <2>1, <2>2, <2>3, <2>4
<1>11. ASSUME NEW e \in Entries, c.op # "Unlink" \/ e.id # c.id PROVE Linked(t, U, e) <=> Linked(s, T, e)
  <2>1. (\E k \in 1..Len(s) : s[k] = LinkLevel(e.id, e.face, e.level))
          <=> c = LinkLevel(e.id, e.face, e.level) \/ \E k \in 1..Len(t) : t[k] = LinkLevel(e.id, e.face, e.level)
    BY <1>2, <1>3, <1>4
  <2>2. e \in U <=> e \in T \/ (c.op = "Link" /\ e = Entry(c.id, c.face, c.level))
    BY <1>11
  <2>3. c.op = "Link" /\ e = Entry(c.id, c.face, c.level) <=> c = LinkLevel(e.id, e.face, e.level)
    BY <1>2 DEF Entry, Entries, LinkLevel, Commands
  <2> QED BY <2>1, <2>2, <2>3 DEF Linked
<1>12. Promised(t, U, N, a)
  <2>1. CASE a
    <3>1. c.op # "Unlink"
      BY <1>2, <2>1 DEF Agree, Serving
    <3> QED BY <1>11, <2>1, <3>1 DEF Agree, Promised
  <2>2. CASE ~a
    <3>1. ASSUME NEW e \in Entries, Linked(t, U, e) PROVE Unlinked(t, e.id)
      <4>1. c.op # "Unlink" \/ e.id # c.id
        <5> SUFFICES ASSUME c.op = "Unlink" PROVE e.id # c.id
          OBVIOUS
        <5>1. \A k \in 1..Len(t) : t[k].op = "Unlink"
          BY <1>2, <1>3, <1>8
        <5>2. \A k \in 1..Len(t) : t[k] # LinkLevel(e.id, e.face, e.level)
          BY <5>1 DEF LinkLevel
        <5> QED BY <3>1, <5>2 DEF Linked
      <4>2. PICK k \in 1..Len(s) : s[k] = UnlinkLevel(e.id)
        BY <1>11, <2>2, <3>1, <4>1 DEF Agree, Promised, Unlinked
      <4>3. k # 1
        BY <1>2, <4>1, <4>2 DEF UnlinkLevel
      <4> QED BY <1>4, <4>2, <4>3 DEF Unlinked
    <3> QED BY <2>2, <3>1 DEF Agree, Promised
  <2> QED BY <2>1, <2>2
<1> QED
  BY <1>5, <1>9, <1>10, <1>12 DEF Agree, Served

(* What the protocol promises: a handle is there when it is used, the      *)
(* object when it is, and nothing is left over in the end.                 *)
LEMMA AgreeMeans ==
  ASSUME NEW s, NEW T, NEW v, NEW N, NEW n, NEW a, Agree(s, T, v, N, n, a)
  PROVE  /\ s # <<>> => /\ Head(s).op \in {"Use", "Unlink"} => \E e \in T : e.id = Head(s).id
                        /\ Head(s).op \in {"Use", "Link"} => v > 0
         /\ s = <<>> => T = N /\ v = IF a THEN 1 + Cardinality(T) ELSE 0
<1>1. s \in Seq(Commands) /\ v \in Nat
  BY DEF Agree, Serving
<1>2. CASE s # <<>>
  <2>1. Head(s) = s[1] /\ 1 \in 1..Len(s)
    BY <1>1, <1>2, FirstCommand
  <2>2. Head(s).op \in {"Use", "Unlink"} => Known(s, T, Head(s).id, 1)
    BY <2>1 DEF Agree, InOrder
  <2>3. v = 0 => Head(s).op = "Unlink"
    BY <2>1 DEF Agree, Serving
  <2> QED BY <1>1, <1>2, <2>2, <2>3 DEF Known
<1>3. CASE s = <<>>
  <2>1. 1..Len(s) = {}
    BY <1>3
  <2>2. T \subseteq Entries /\ N \subseteq Entries /\ \A e : Linked(s, T, e) <=> e \in T
    BY <2>1 DEF Agree, Names, Linked
  <2>3. \A x : ~Unlinked(s, x)
    BY <2>1 DEF Unlinked
  <2>4. CASE a
    BY <1>3, <2>2, <2>4 DEF Agree, Promised, Serving
  <2>5. CASE ~a
    BY <1>3, <2>1, <2>2, <2>3, <2>5 DEF Agree, Promised, Serving
  <2> QED BY <2>4, <2>5
<1> QED
  BY <1>2, <1>3

-----------------------------------------------------------------------------
(* The counts *)

(* The pointers whose references are the object's; and what the game is    *)
(* due of the device: its own references and the object's.                 *)
Shared == Pointers \ {Dev}
Owing == refs[Dev] + (IF Alive(Obj) THEN 1 ELSE 0)

(* The types of the two objects. *)
InterfacesType ==
  /\ class \in ClassIIDs /\ desc \in [levels : Nat, autogen : BOOLEAN] /\ ex \in BOOLEAN
  /\ count \in [Owners -> Nat] /\ refs \in [Pointers -> Nat] /\ child \in [Children -> Nat]

(* An object has as many references as the game was given, and the game is *)
(* told as much.                                                           *)
Balance ==
  /\ IsFiniteSet(Given(Shared)) /\ count[Obj] = Held(Shared)
  /\ count[Dev] = IF Owing = 0 THEN 0 ELSE ImplicitRefs + Owing
  /\ answer # Silent => answer.count = IF answer.from = Dev THEN Owing ELSE Held(Shared)

(* The inductive invariant. *)
ComInv == InterfacesType /\ Balance /\ Agree(commands, table, server, Named, nextId, Alive(Obj))

-----------------------------------------------------------------------------

(* Every class answers QueryInterface with the interfaces its own is       *)
(* derived from.                                                           *)
LEMMA AnswersDerived ==
  ASSUME class \in ClassIIDs, ex \in BOOLEAN, NEW p \in Pointers
  PROVE  ClassOf(p).answers = Derived(Iid(p))
<1> USE DEF Derived, Base, TextureIIDs, ResourceIIDs, Class, Resource, BaseTexture
<1>1. CASE p = Dev
  BY <1>1 DEF ClassOf, Iid, Direct3DDevice9
<1>2. CASE p = Obj
  <2>1. ClassOf(p) = Classes(class) /\ Iid(p) = class
    BY <1>2 DEF ClassOf, Iid, Dev, Obj
  <2>2. Classes("IDirect3DTexture9").answers = Derived("IDirect3DTexture9")
    BY DEF Classes, Direct3DTexture9
  <2>3. Classes("IDirect3DCubeTexture9").answers = Derived("IDirect3DCubeTexture9")
    BY DEF Classes, Direct3DCubeTexture9
  <2>4. Classes("IDirect3DVolumeTexture9").answers = Derived("IDirect3DVolumeTexture9")
    BY DEF Classes, Direct3DVolumeTexture9
  <2>5. Classes("IDirect3DSurface9").answers = Derived("IDirect3DSurface9")
    BY DEF Classes, Direct3DSurface9
  <2>6. Classes("IDirect3DVertexBuffer9").answers = Derived("IDirect3DVertexBuffer9")
    BY DEF Classes, Direct3DVertexBuffer9
  <2>7. Classes("IDirect3DIndexBuffer9").answers = Derived("IDirect3DIndexBuffer9")
    BY DEF Classes, Direct3DIndexBuffer9
  <2>8. Classes("IDirect3DQuery9").answers = Derived("IDirect3DQuery9")
    BY DEF Classes, Direct3DQuery9
  <2>9. Classes("IDirect3DStateBlock9").answers = Derived("IDirect3DStateBlock9")
    BY DEF Classes, Direct3DStateBlock9
  <2>10. Classes("IDirect3DVertexDeclaration9").answers = Derived("IDirect3DVertexDeclaration9")
    BY DEF Classes, Direct3DVertexDeclaration9
  <2>11. Classes("IDirect3DVertexShader9").answers = Derived("IDirect3DVertexShader9")
    BY DEF Classes, Direct3DVertexShader9
  <2>12. Classes("IDirect3DPixelShader9").answers = Derived("IDirect3DPixelShader9")
    BY DEF Classes, Direct3DPixelShader9
  <2>13. Classes("IDirect3DSwapChain9").answers = Derived("IDirect3DSwapChain9")
    BY DEF Classes, Direct3DSwapChain9
  <2> HIDE DEF Derived
  <2> QED BY <2>1, <2>2, <2>3, <2>4, <2>5, <2>6, <2>7, <2>8, <2>9, <2>10, <2>11, <2>12, <2>13, Zenon
          DEF ClassIIDs, OtherIIDs
<1>3. CASE p # Dev /\ p # Obj
  <2>1. Direct3DVolume9.answers = Derived("IDirect3DVolume9")
    BY DEF Direct3DVolume9
  <2>2. Direct3DSurface9.answers = Derived("IDirect3DSurface9")
    BY DEF Direct3DSurface9
  <2> HIDE DEF Derived
  <2> QED BY <1>3, <2>1, <2>2 DEF ClassOf, Iid
<1> QED
  BY <1>1, <1>2, <1>3

(* getCubeSurfaceIndex and its like: one index for each face and level,    *)
(* none left over.                                                         *)
LEMMA Indices ==
  ASSUME InterfacesType, IsTexture
  PROVE  /\ \A f \in Faces, l \in 0..GetLevelCount - 1 : Index(f, l) \in Children
         /\ \A f, g \in Faces, l, m \in 0..GetLevelCount - 1 : Index(f, l) = Index(g, m) => f = g /\ l = m
         /\ \A i \in Children : \E f \in Faces, l \in 0..GetLevelCount - 1 : i = Index(f, l)
<1>1. GetLevelCount \in Nat
  BY DEF InterfacesType, GetLevelCount
<1>2. CASE class = "IDirect3DCubeTexture9"
  <2>1. FaceCount = 6 /\ Faces = 0..5 /\ Children = 0..GetLevelCount * 6 - 1 /\ \A f, l : Index(f, l) = f + l * 6
    BY <1>2 DEF FaceCount, Faces, Children, Index, getCubeSurfaceIndex
  <2>2. ASSUME NEW i \in Children PROVE \E f \in Faces, l \in 0..GetLevelCount - 1 : i = Index(f, l)
    <3>1. i % 6 \in 0..5 /\ i \div 6 \in 0..GetLevelCount - 1 /\ i = (i % 6) + (i \div 6) * 6
      BY <1>1, <2>1
    <3> QED BY <2>1, <3>1
  <2>3. \A f \in 0..5, l \in 0..GetLevelCount - 1 : f + l * 6 \in 0..GetLevelCount * 6 - 1
    BY <1>1
  <2>4. \A f, g \in 0..5, l, m \in 0..GetLevelCount - 1 : f + l * 6 = g + m * 6 => f = g /\ l = m
    BY <1>1
  <2>5. \A f \in Faces, l \in 0..GetLevelCount - 1 : Index(f, l) \in Children
    BY <2>1, <2>3
  <2>6. \A f, g \in Faces, l, m \in 0..GetLevelCount - 1 : Index(f, l) = Index(g, m) => f = g /\ l = m
    BY <2>1, <2>4
  <2> QED BY <2>2, <2>5, <2>6
<1>3. CASE class # "IDirect3DCubeTexture9"
  <2>1. FaceCount = 1 /\ Faces = {0} /\ Children = 0..GetLevelCount - 1 /\ \A f, l : Index(f, l) = l
    BY <1>1, <1>3 DEF FaceCount, Faces, Children, Index
  <2> QED BY <2>1
<1> QED
  BY <1>2, <1>3

(* The object and its description stay what they are. *)
LEMMA Fixes ==
  ASSUME UNCHANGED <<class, desc, ex>>
  PROVE  /\ Children' = Children /\ Pointers' = Pointers /\ Shared' = Shared /\ Faces' = Faces
         /\ GetLevelCount' = GetLevelCount /\ (IsTexture' <=> IsTexture)
         /\ child' = child => Named' = Named
<1>1. /\ Children' = Children /\ Pointers' = Pointers /\ Shared' = Shared /\ Faces' = Faces
      /\ GetLevelCount' = GetLevelCount /\ (IsTexture' <=> IsTexture)
  BY DEF Children, Pointers, Shared, Faces, FaceCount, GetLevelCount, IsTexture
<1>2. ASSUME child' = child PROVE Named' = Named
  <2>1. \A f, l : Index(f, l)' = Index(f, l)
    BY DEF Index
  <2> DEFINE S == {Entry(child[Index(f, l)], f, l) : f \in Faces, l \in 0..GetLevelCount - 1}
  <2>3. S = {Entry(child'[Index(f, l)'], f, l) : f \in Faces', l \in 0..GetLevelCount' - 1}
    BY <1>1, <1>2, <2>1
  <2>4. Named = IF IsTexture THEN {e \in S : e.id # 0} ELSE {}
    BY DEF Named
  <2> HIDE DEF S
  <2>5. Named' = IF IsTexture' THEN {e \in S : e.id # 0} ELSE {}
    BY <2>3 DEF Named
  <2> QED BY <1>1, <2>4, <2>5
<1> QED
  BY <1>1, <1>2

(* The device, the object and its levels are told apart. *)
LEMMA Kinds ==
  /\ Dev # Obj /\ (\A i : Level(i) # Dev /\ Level(i) # Obj) /\ Dev \in Pointers /\ Obj \in Shared
  /\ \A p \in Pointers : (p \in Shared <=> p # Dev) /\ Owner(p) = IF p = Dev THEN Dev ELSE Obj
<1>1. Dev # Obj /\ \A i : Level(i) # Dev /\ Level(i) # Obj
  BY DEF Dev, Obj, Level
<1> QED
  BY <1>1 DEF Pointers, Owners, Shared, Owner

(* What a reference is. *)
LEMMA GivenOf == \A t : t \in Given(Shared) <=> \E q \in Shared : \E k \in 1..refs[q] : t = <<q, k>>
BY DEF Given

(* One more reference, one less; and how many there are then. *)
LEMMA GivenMore ==
  ASSUME InterfacesType, UNCHANGED <<class, desc, ex>>, NEW p \in Pointers, refs' = [refs EXCEPT ![p] = @ + 1]
  PROVE  Given(Shared)' = IF p = Dev THEN Given(Shared) ELSE Given(Shared) \cup {<<p, refs[p] + 1>>}
<1>1. Shared' = Shared /\ \A q \in Shared : q \in Pointers
  BY Fixes DEF Shared
<1>2. \A q \in Shared : refs[q] \in Nat /\ refs'[q] = IF q = p THEN refs[q] + 1 ELSE refs[q]
  BY <1>1 DEF InterfacesType
<1>3. \A t : t \in Given(Shared)' <=> \E q \in Shared : \E k \in 1..refs'[q] : t = <<q, k>>
  BY <1>1 DEF Given
<1>4. \A q \in Shared : q # p => 1..refs'[q] = 1..refs[q]
  BY <1>2
<1>5. p \in Shared => 1..refs'[p] = (1..refs[p]) \cup {refs[p] + 1}
  BY <1>2
<1>6. CASE p = Dev
  BY <1>3, <1>4, <1>6, GivenOf DEF Shared
<1>7. CASE p # Dev
  <2>1. p \in Shared
    BY <1>7, Kinds
  <2>2. \A t : t \in Given(Shared)' <=> t \in Given(Shared) \/ t = <<p, refs[p] + 1>>
    BY <1>3, <1>4, <1>5, <2>1, GivenOf
  <2> QED BY <1>7, <2>2
<1> QED
  BY <1>6, <1>7

LEMMA GivenLess ==
  ASSUME InterfacesType, UNCHANGED <<class, desc, ex>>, NEW p \in Pointers, refs[p] > 0,
         refs' = [refs EXCEPT ![p] = @ - 1]
  PROVE  Given(Shared)' = IF p = Dev THEN Given(Shared) ELSE Given(Shared) \ {<<p, refs[p]>>}
<1>1. Shared' = Shared /\ \A q \in Shared : q \in Pointers
  BY Fixes DEF Shared
<1>2. \A q \in Shared : refs[q] \in Nat /\ refs'[q] = IF q = p THEN refs[q] - 1 ELSE refs[q]
  BY <1>1 DEF InterfacesType
<1>3. \A t : t \in Given(Shared)' <=> \E q \in Shared : \E k \in 1..refs'[q] : t = <<q, k>>
  BY <1>1 DEF Given
<1>4. \A q \in Shared : q # p => 1..refs'[q] = 1..refs[q]
  BY <1>2
<1>5. p \in Shared => 1..refs'[p] = (1..refs[p]) \ {refs[p]}
  BY <1>2
<1>6. CASE p = Dev
  BY <1>3, <1>4, <1>6, GivenOf DEF Shared
<1>7. CASE p # Dev
  <2>1. p \in Shared
    BY <1>7, Kinds
  <2>2. \A t : t \in Given(Shared)' <=> t \in Given(Shared) /\ t # <<p, refs[p]>>
    BY <1>3, <1>4, <1>5, <2>1, GivenOf
  <2> QED BY <1>7, <2>2
<1> QED
  BY <1>6, <1>7

LEMMA HeldMore ==
  ASSUME InterfacesType, UNCHANGED <<class, desc, ex>>, IsFiniteSet(Given(Shared)), NEW p \in Pointers,
         refs' = [refs EXCEPT ![p] = @ + 1]
  PROVE  /\ IsFiniteSet(Given(Shared)') /\ Held(Shared) \in Nat /\ refs' \in [Pointers -> Nat]
         /\ Held(Shared)' = Held(Shared) + (IF p = Dev THEN 0 ELSE 1)
         /\ refs'[Dev] = refs[Dev] + (IF p = Dev THEN 1 ELSE 0) /\ refs[Dev] \in Nat
<1>1. <<p, refs[p] + 1>> \notin Given(Shared)
  <2>1. refs[p] \in Nat
    BY DEF InterfacesType
  <2> QED BY <2>1, GivenOf
<1>2. Held(Shared) \in Nat
  BY FS_CardinalityType DEF Held
<1>3. /\ IsFiniteSet(Given(Shared)')
      /\ Cardinality(Given(Shared)') = Cardinality(Given(Shared)) + (IF p = Dev THEN 0 ELSE 1)
  <2>1. CASE p = Dev
    <3>1. Given(Shared)' = Given(Shared)
      BY <2>1, GivenMore
    <3>2. Cardinality(Given(Shared)) \in Nat
      BY <1>2 DEF Held
    <3> QED BY <2>1, <3>1, <3>2
  <2>2. CASE p # Dev
    <3>1. Given(Shared)' = Given(Shared) \cup {<<p, refs[p] + 1>>}
      BY <2>2, GivenMore
    <3> QED BY <1>1, <2>2, <3>1, FS_AddElement
  <2> QED BY <2>1, <2>2
<1>4. Held(Shared)' = Cardinality(Given(Shared)')
  BY DEF Held
<1>5. refs' \in [Pointers -> Nat] /\ refs'[Dev] = refs[Dev] + (IF p = Dev THEN 1 ELSE 0) /\ refs[Dev] \in Nat
  BY Kinds DEF InterfacesType
<1> QED
  BY <1>2, <1>3, <1>4, <1>5 DEF Held

LEMMA HeldLess ==
  ASSUME InterfacesType, UNCHANGED <<class, desc, ex>>, IsFiniteSet(Given(Shared)), NEW p \in Pointers,
         refs[p] > 0, refs' = [refs EXCEPT ![p] = @ - 1]
  PROVE  /\ IsFiniteSet(Given(Shared)') /\ Held(Shared) \in Nat /\ refs' \in [Pointers -> Nat]
         /\ Held(Shared)' = Held(Shared) - (IF p = Dev THEN 0 ELSE 1)
         /\ refs'[Dev] = refs[Dev] - (IF p = Dev THEN 1 ELSE 0) /\ refs[Dev] \in Nat
         /\ p # Dev => Held(Shared) > 0
<1>1. p # Dev => <<p, refs[p]>> \in Given(Shared)
  <2>1. refs[p] \in 1..refs[p]
    BY DEF InterfacesType
  <2> QED BY <2>1, GivenOf, Kinds
<1>2. Held(Shared) \in Nat
  BY FS_CardinalityType DEF Held
<1>3. /\ IsFiniteSet(Given(Shared)')
      /\ Cardinality(Given(Shared)') = Cardinality(Given(Shared)) - (IF p = Dev THEN 0 ELSE 1)
  <2>1. CASE p = Dev
    <3>1. Given(Shared)' = Given(Shared)
      BY <2>1, GivenLess
    <3>2. Cardinality(Given(Shared)) \in Nat
      BY <1>2 DEF Held
    <3> QED BY <2>1, <3>1, <3>2
  <2>2. CASE p # Dev
    <3>1. Given(Shared)' = Given(Shared) \ {<<p, refs[p]>>}
      BY <2>2, GivenLess
    <3> QED BY <1>1, <2>2, <3>1, FS_RemoveElement
  <2> QED BY <2>1, <2>2
<1>4. Held(Shared)' = Cardinality(Given(Shared)')
  BY DEF Held
<1>5. refs' \in [Pointers -> Nat] /\ refs'[Dev] = refs[Dev] - (IF p = Dev THEN 1 ELSE 0) /\ refs[Dev] \in Nat
  BY Kinds DEF InterfacesType
<1>6. p # Dev => Held(Shared) > 0
  BY <1>1, <1>2, FS_EmptySet DEF Held
<1> QED
  BY <1>2, <1>3, <1>4, <1>5, <1>6 DEF Held

(* A pointer the game may use has an object behind it. *)
LEMMA InUse ==
  ASSUME InterfacesType, Balance, NEW p \in Pointers, refs[p] > 0
  PROVE  /\ count[Owner(p)] > 0 /\ count[Dev] > 0 /\ Owing > 0 /\ refs[Dev] \in Nat
         /\ count[Dev] = ImplicitRefs + Owing /\ (p # Dev => Alive(Obj)) /\ ImplicitRefs \in Nat
<1>1. refs[Dev] \in Nat /\ refs[p] \in Nat /\ ImplicitRefs \in Nat
  BY Kinds, InterfacesAssumption DEF InterfacesType
<1>2. CASE p # Dev
  <2>1. <<p, 1>> \in Given(Shared)
    <3>1. 1 \in 1..refs[p]
      BY <1>1
    <3> QED BY <1>2, <3>1, GivenOf, Kinds
  <2>2. Held(Shared) # 0 /\ Held(Shared) \in Nat
    BY <2>1, FS_EmptySet, FS_CardinalityType DEF Held, Balance
  <2>3. count[Obj] > 0 /\ Owner(p) = Obj
    BY <1>2, <2>2, Kinds DEF Balance
  <2> QED BY <1>1, <1>2, <2>3 DEF Balance, Owing, Alive
<1>3. CASE p = Dev
  <2>1. Owner(p) = Dev
    BY <1>3, Kinds
  <2> QED BY <1>1, <1>3, <2>1 DEF Balance, Owing, Alive
<1> QED
  BY <1>2, <1>3

(* One more reference to an object that has one. *)
LEMMA CountsMore ==
  ASSUME InterfacesType, Balance, UNCHANGED <<class, desc, ex>>, NEW p \in Pointers, AddRef(p), count[Owner(p)] > 0,
         NoCount \/ Counts(p, Told(Owner(p)) + 1)
  PROVE  /\ count' \in [Owners -> Nat] /\ refs' \in [Pointers -> Nat]
         /\ Balance' /\ (Alive(Obj)' <=> Alive(Obj))
<1>1. /\ IsFiniteSet(Given(Shared)') /\ Held(Shared) \in Nat /\ refs' \in [Pointers -> Nat]
      /\ Held(Shared)' = Held(Shared) + (IF p = Dev THEN 0 ELSE 1)
      /\ refs'[Dev] = refs[Dev] + (IF p = Dev THEN 1 ELSE 0) /\ refs[Dev] \in Nat
  BY HeldMore DEF AddRef, Balance
<1>2. /\ Owner(p) = (IF p = Dev THEN Dev ELSE Obj) /\ Dev # Obj /\ ImplicitRefs \in Nat
      /\ count[Dev] \in Nat /\ count[Obj] \in Nat
  BY Kinds, InterfacesAssumption DEF InterfacesType, Owners
<1>3. /\ count' \in [Owners -> Nat]
      /\ count'[Dev] = count[Dev] + (IF p = Dev THEN 1 ELSE 0)
      /\ count'[Obj] = count[Obj] + (IF p = Dev THEN 0 ELSE 1)
  BY <1>2 DEF AddRef, InterfacesType, Owners
<1>4. Alive(Obj)' <=> Alive(Obj)
  BY <1>2, <1>3 DEF Alive
<1>5. Owing' = Owing + (IF p = Dev THEN 1 ELSE 0) /\ Owing \in Nat
  BY <1>1, <1>4 DEF Owing
<1>6. count'[Dev] = (IF Owing' = 0 THEN 0 ELSE ImplicitRefs + Owing') /\ count'[Obj] = Held(Shared)'
  BY <1>1, <1>2, <1>3, <1>5 DEF Balance
<1>7. answer' # Silent => answer'.count = IF answer'.from = Dev THEN Owing' ELSE Held(Shared)'
  <2> SUFFICES ASSUME Counts(p, Told(Owner(p)) + 1)
               PROVE  answer'.count = IF answer'.from = Dev THEN Owing' ELSE Held(Shared)'
    BY DEF NoCount
  <2>1. answer'.from = Owner(p) /\ answer'.count = Told(Owner(p)) + 1
    BY DEF Counts
  <2> QED BY <1>1, <1>2, <1>3, <1>5, <2>1 DEF Told, Balance
<1>8. Silent' = Silent
  BY DEF Silent
<1> QED
  BY <1>1, <1>3, <1>4, <1>6, <1>7, <1>8 DEF Balance

(* A call that gives no reference. *)
LEMMA CountsSame ==
  ASSUME InterfacesType, Balance, UNCHANGED <<class, desc, ex, count, refs>>, NoCount \/ answer' = answer
  PROVE  /\ count' \in [Owners -> Nat] /\ refs' \in [Pointers -> Nat]
         /\ Balance' /\ (Alive(Obj)' <=> Alive(Obj))
<1>1. Shared' = Shared /\ Silent' = Silent
  BY Fixes DEF Silent
<1>2. Given(Shared)' = Given(Shared) /\ Owing' = Owing
  BY <1>1 DEF Given, Owing, Alive
<1>3. Held(Shared)' = Held(Shared)
  BY <1>2 DEF Held
<1> QED
  BY <1>1, <1>2, <1>3 DEF Balance, InterfacesType, NoCount, Alive

(* Release, the object's last one and the device's included. *)
LEMMA CountsLess ==
  ASSUME InterfacesType, Balance, NEW p \in Pointers, Dereferences(p)
  PROVE  /\ count' \in [Owners -> Nat] /\ refs' \in [Pointers -> Nat] /\ Balance'
         /\ Alive(Obj)' <=> Alive(Obj) /\ ~(p # Dev /\ count[Obj] = 1)
         /\ p # Dev => Alive(Obj)
<1> DEFINE dies == Owner(p) = Obj /\ count[Obj] = 1
           left == count[Dev] - (IF Owner(p) = Dev \/ dies THEN 1 ELSE 0)
<1>1. /\ UNCHANGED <<class, desc, ex>> /\ refs[p] > 0
      /\ count' = [count EXCEPT ![Obj] = IF Owner(p) = Obj THEN @ - 1 ELSE @,
                                ![Dev] = IF left = ImplicitRefs THEN 0 ELSE left]
      /\ refs' = [refs EXCEPT ![p] = @ - 1]
      /\ Counts(p, Told(Owner(p)) - 1)
  BY DEF Dereferences, Using, Fixed
<1>2. /\ IsFiniteSet(Given(Shared)') /\ Held(Shared) \in Nat /\ refs' \in [Pointers -> Nat]
      /\ Held(Shared)' = Held(Shared) - (IF p = Dev THEN 0 ELSE 1)
      /\ refs'[Dev] = refs[Dev] - (IF p = Dev THEN 1 ELSE 0) /\ refs[Dev] \in Nat
      /\ p # Dev => Held(Shared) > 0
  BY <1>1, HeldLess DEF Balance
<1>3. /\ Owner(p) = (IF p = Dev THEN Dev ELSE Obj) /\ Dev # Obj
      /\ count[Dev] \in Nat /\ count[Obj] \in Nat
  BY Kinds DEF InterfacesType, Owners
<1>4. /\ count[Owner(p)] > 0 /\ Owing > 0 /\ count[Dev] = ImplicitRefs + Owing
      /\ ImplicitRefs \in Nat /\ (p # Dev => Alive(Obj))
  BY <1>1, InUse
<1>5. count'[Obj] = count[Obj] - (IF p = Dev THEN 0 ELSE 1) /\ count'[Dev] = IF left = ImplicitRefs THEN 0 ELSE left
  BY <1>1, <1>3 DEF InterfacesType, Owners
<1>6. (dies <=> p # Dev /\ count[Obj] = 1) /\ left = count[Dev] - (IF p = Dev \/ dies THEN 1 ELSE 0)
  BY <1>3
<1> HIDE DEF dies, left
<1>7. count[Obj] = Held(Shared) /\ (p # Dev => count[Obj] > 0) /\ count'[Obj] = Held(Shared)' /\ count'[Obj] \in Nat
  BY <1>2, <1>3, <1>5 DEF Balance
<1>8. (Alive(Obj)' <=> count'[Obj] > 0) /\ (Alive(Obj) <=> count[Obj] > 0)
  BY DEF Alive
<1>9. Alive(Obj)' <=> Alive(Obj) /\ ~dies
  BY <1>3, <1>5, <1>6, <1>7, <1>8
<1>10. Owing = refs[Dev] + (IF Alive(Obj) THEN 1 ELSE 0) /\ Owing' = refs'[Dev] + (IF Alive(Obj)' THEN 1 ELSE 0)
  BY DEF Owing
<1>11. Owing' = Owing - (IF p = Dev \/ dies THEN 1 ELSE 0) /\ Owing \in Nat
  BY <1>2, <1>4, <1>6, <1>9, <1>10
<1>12. left = ImplicitRefs + Owing' /\ Owing' \in Nat /\ left \in Nat /\ (left = ImplicitRefs <=> Owing' = 0)
  BY <1>2, <1>4, <1>6, <1>11
<1>13. count'[Dev] = (IF Owing' = 0 THEN 0 ELSE ImplicitRefs + Owing') /\ count'[Dev] \in Nat
  BY <1>5, <1>12
<1>14. count' \in [Owners -> Nat]
  BY <1>1, <1>7, <1>13 DEF InterfacesType, Owners
<1>15. answer'.count = IF answer'.from = Dev THEN Owing' ELSE Held(Shared)'
  <2>1. answer'.from = Owner(p) /\ answer'.count = Told(Owner(p)) - 1
    BY <1>1 DEF Counts
  <2>2. CASE p = Dev
    BY <1>3, <1>4, <1>11, <2>1, <2>2 DEF Told
  <2>3. CASE p # Dev
    BY <1>2, <1>3, <1>7, <2>1, <2>3 DEF Told
  <2> QED BY <2>2, <2>3
<1> QED
  BY <1>2, <1>4, <1>6, <1>7, <1>9, <1>13, <1>14, <1>15 DEF Balance

-----------------------------------------------------------------------------
(* The levels *)

(* The levels of a texture that have a surface or a volume of their own. *)
Levels == 0..GetLevelCount - 1

(* Commands sent one or two at a time. *)
LEMMA TwoMore ==
  ASSUME NEW s \in Seq(Commands), NEW c \in Commands, NEW d \in Commands
  PROVE  s \o <<c>> = Append(s, c) /\ s \o <<c, d>> = Append(Append(s, c), d)
<1>1. s \o <<c>> = Append(s, c)
  BY AppendIsConcat
<1>2. Append(Append(s, c), d) = (s \o <<c>>) \o <<d>>
  BY AppendIsConcat, AppendProperties
<1>3. (s \o <<c>>) \o <<d>> = s \o (<<c>> \o <<d>>)
  BY ConcatAssociative
<1>4. <<c>> \o <<d>> = <<c, d>>
  <2>1. <<c>> \in Seq(Commands) /\ <<d>> \in Seq(Commands) /\ <<c, d>> \in Seq(Commands) /\ Len(<<c, d>>) = 2
    OBVIOUS
  <2>2. /\ <<c>> \o <<d>> \in Seq(Commands) /\ Len(<<c>> \o <<d>>) = Len(<<c>>) + Len(<<d>>)
        /\ \A i \in 1..Len(<<c>>) + Len(<<d>>) : (<<c>> \o <<d>>)[i] =
             IF i <= Len(<<c>>) THEN <<c>>[i] ELSE <<d>>[i - Len(<<c>>)]
    BY <2>1, ConcatProperties, Zenon
  <2>3. Len(<<c>>) = 1 /\ Len(<<d>>) = 1 /\ <<c>>[1] = c /\ <<d>>[1] = d /\ <<c, d>>[1] = c /\ <<c, d>>[2] = d
    OBVIOUS
  <2>4. PICK r : r = <<c>> \o <<d>>
    OBVIOUS
  <2>5. Len(r) = 2 /\ r[1] = c /\ r[2] = d
    BY <2>2, <2>3, <2>4
  <2>6. PICK q : q = <<c, d>>
    OBVIOUS
  <2>7. r \in Seq(Commands) /\ q \in Seq(Commands) /\ Len(q) = 2 /\ Len(r) = Len(q)
    BY <2>1, <2>2, <2>4, <2>5, <2>6
  <2>8. q[1] = c /\ q[2] = d
    BY <2>3, <2>6
  <2>9. \A i \in 1..Len(r) : r[i] = q[i]
    BY <2>5, <2>8
  <2>10. r = q
    BY <2>7, <2>9, SeqEqual, Zenon
  <2> QED BY <2>4, <2>6, <2>10
<1> QED
  BY <1>1, <1>2, <1>3, <1>4

(* The client's handles, by face and level. *)
LEMMA NamedIs ==
  \A e : e \in Named <=> \E f \in Faces, l \in Levels :
                       IsTexture /\ child[Index(f, l)] # 0 /\ e = Entry(child[Index(f, l)], f, l)
<1>1. \A f, l : Entry(child[Index(f, l)], f, l).id = child[Index(f, l)]
  BY DEF Entry
<1> QED
  BY <1>1 DEF Named, Levels

LEMMA NamedMore ==
  ASSUME InterfacesType, IsTexture, UNCHANGED <<class, desc, ex>>, NEW f \in Faces, NEW l \in Levels,
         child[Index(f, l)] = 0, nextId \in Nat \ {0}, child' = [child EXCEPT ![Index(f, l)] = nextId]
  PROVE  child' \in [Children -> Nat] /\ Named' = Named \cup {Entry(nextId, f, l)}
<1>1. Index(f, l) \in Children
  BY Indices DEF Levels
<1>2. \A i \in Children : child'[i] = IF i = Index(f, l) THEN nextId ELSE child[i]
  BY <1>1 DEF InterfacesType
<1>3. \A e : e \in Named' <=> \E g \in Faces, m \in Levels :
                             child'[Index(g, m)] # 0 /\ e = Entry(child'[Index(g, m)], g, m)
  <2>1. /\ Faces' = Faces /\ GetLevelCount' = GetLevelCount /\ (IsTexture' <=> IsTexture)
        /\ \A g, m : Index(g, m)' = Index(g, m)
    BY Fixes DEF Index
  <2>2. \A g, m : Entry(child'[Index(g, m)], g, m).id = child'[Index(g, m)]
    BY DEF Entry
  <2> QED BY <2>1, <2>2 DEF Named, Levels
<1>4. \A g \in Faces, m \in Levels : Index(g, m) \in Children /\ (Index(g, m) = Index(f, l) <=> g = f /\ m = l)
  BY Indices DEF Levels
<1>5. \A e : e \in Named' <=> e \in Named \/ e = Entry(nextId, f, l)
  <2> TAKE e
  <2>1. ASSUME NEW g \in Faces, NEW m \in Levels, child'[Index(g, m)] # 0, e = Entry(child'[Index(g, m)], g, m)
        PROVE  e \in Named \/ e = Entry(nextId, f, l)
    BY <1>2, <1>4, <2>1, NamedIs
  <2>2. ASSUME NEW g \in Faces, NEW m \in Levels, child[Index(g, m)] # 0, e = Entry(child[Index(g, m)], g, m)
        PROVE  child'[Index(g, m)] # 0 /\ e = Entry(child'[Index(g, m)], g, m)
    BY <1>2, <1>4, <2>2
  <2>3. child'[Index(f, l)] # 0 /\ Entry(nextId, f, l) = Entry(child'[Index(f, l)], f, l)
    BY <1>1, <1>2
  <2> QED BY <1>3, <2>1, <2>2, <2>3, NamedIs
<1> QED
  BY <1>1, <1>5 DEF InterfacesType

(* Calls that make no level and send nothing; a lock of a level that is    *)
(* there; a new level.                                                     *)
LEMMA QuietAgrees ==
  ASSUME ComInv, UNCHANGED <<class, desc, ex, table, server, child, nextId, commands>>, Alive(Obj)' <=> Alive(Obj)
  PROVE  Agree(commands, table, server, Named, nextId, Alive(Obj))'
<1>1. Named' = Named
  BY Fixes
<1>2. Agree(commands, table, server, Named, nextId, Alive(Obj)')
  BY AgreeAlive DEF ComInv
<1>3. Agree(commands', table', server', Named', nextId', Alive(Obj)')
  BY <1>1, <1>2
<1> QED
  BY <1>3

LEMMA UseAgrees ==
  ASSUME ComInv, IsTexture, Alive(Obj), UNCHANGED <<class, desc, ex, table, server, child, nextId>>,
         Alive(Obj)' <=> Alive(Obj), NEW f \in Faces, NEW l \in Levels, child[Index(f, l)] # 0,
         commands' = commands \o <<UseLevel(child[Index(f, l)])>>
  PROVE  Agree(commands', table', server', Named', nextId', Alive(Obj)')
<1> DEFINE e == Entry(child[Index(f, l)], f, l)
<1>1. e \in Named /\ e.id = child[Index(f, l)]
  BY NamedIs DEF Entry
<1>2. Agree(commands, table, server, Named, nextId, Alive(Obj)) /\ commands \in Seq(Commands) /\ e.id \in Nat
  BY <1>1 DEF ComInv, Agree, Names, Entries
<1> HIDE DEF e
<1>3. Agree(Append(commands, UseLevel(e.id)), table, server, Named, nextId, Alive(Obj))
  BY <1>1, <1>2, AgreeUse
<1>4. commands' = Append(commands, UseLevel(e.id))
  <2>1. UseLevel(e.id) \in Commands
    BY <1>2 DEF UseLevel, Commands
  <2> QED BY <1>1, <1>2, <2>1, TwoMore
<1>5. Named' = Named
  BY Fixes
<1> QED
  BY <1>3, <1>4, <1>5, AgreeAlive

LEMMA LinkAgrees ==
  ASSUME ComInv, IsTexture, Alive(Obj), UNCHANGED <<class, desc, ex, table, server>>,
         Alive(Obj)' <=> Alive(Obj), NEW f \in Faces, NEW l \in Levels, child[Index(f, l)] = 0,
         NEW use, MakeLevel(Index(f, l), f, l, use)
  PROVE  child' \in [Children -> Nat] /\ Agree(commands', table', server', Named', nextId', Alive(Obj)')
<1>1. /\ Agree(commands, table, server, Named, nextId, Alive(Obj)) /\ commands \in Seq(Commands)
      /\ nextId \in Nat \ {0} /\ f \in Nat /\ l \in Nat
  BY DEF ComInv, Agree, Faces, FaceCount, Levels, InterfacesType, GetLevelCount
<1> DEFINE e == Entry(nextId, f, l)
           s == Append(commands, LinkLevel(nextId, f, l))
<1>2. /\ child' = [child EXCEPT ![Index(f, l)] = nextId] /\ nextId' = nextId + 1
      /\ commands' = commands \o (IF use THEN <<LinkLevel(nextId, f, l), UseLevel(nextId)>>
                               ELSE <<LinkLevel(nextId, f, l)>>)
  BY DEF MakeLevel, Send
<1>3. child' \in [Children -> Nat] /\ Named' = Named \cup {e}
  BY <1>1, <1>2, NamedMore DEF ComInv
<1>4. Agree(s, table, server, Named \cup {e}, nextId + 1, Alive(Obj))
  BY <1>1, AgreeLink
<1>5. e.id = nextId /\ e \in Named \cup {e}
  BY DEF Entry
<1>6. LinkLevel(nextId, f, l) \in Commands /\ UseLevel(nextId) \in Commands
  BY <1>1 DEF LinkLevel, UseLevel, Commands
<1> HIDE DEF e
<1>7. CASE use
  <2>1. commands' = Append(s, UseLevel(nextId))
    BY <1>1, <1>2, <1>6, <1>7, TwoMore
  <2>2. Agree(Append(s, UseLevel(e.id)), table, server, Named \cup {e}, nextId + 1, Alive(Obj))
    BY <1>4, <1>5, AgreeUse
  <2>3. Agree(commands', table', server', Named', nextId', Alive(Obj))
    BY <1>2, <1>3, <1>5, <2>1, <2>2
  <2> QED BY <1>3, <2>3, AgreeAlive
<1>8. CASE ~use
  <2>1. commands' = s
    BY <1>1, <1>2, <1>6, <1>8, TwoMore
  <2>3. Agree(commands', table', server', Named', nextId', Alive(Obj))
    BY <1>2, <1>3, <1>4, <2>1
  <2> QED BY <1>3, <2>3, AgreeAlive
<1> QED
  BY <1>7, <1>8

(* The levels that were made: each has a handle of its own. *)
LevelsMade == {i \in Children : child[i] # 0}

LEMMA OwnHandles ==
  ASSUME ComInv
  PROVE  /\ IsFiniteSet(LevelsMade) /\ \A i \in LevelsMade : child[i] \in Nat
         /\ \A i, j \in LevelsMade : child[i] = child[j] => i = j
         /\ \A i \in LevelsMade : \E e \in Named : e.id = child[i]
         /\ \A e \in Named : \E i \in LevelsMade : e.id = child[i]
<1>1. InterfacesType /\ Names(Named, nextId) /\ \A i \in LevelsMade : i \in Children /\ child[i] # 0
  BY DEF ComInv, Agree, LevelsMade
<1>2. \A i \in LevelsMade : child[i] \in Nat
  BY <1>1 DEF InterfacesType
<1>3. IsFiniteSet(LevelsMade)
  <2>1. CASE IsTexture
    <3>1. GetLevelCount * FaceCount - 1 \in Int
      BY <1>1 DEF InterfacesType, GetLevelCount, FaceCount
    <3>2. IsFiniteSet(0..GetLevelCount * FaceCount - 1)
      BY <3>1, FS_Interval
    <3>3. LevelsMade \subseteq 0..GetLevelCount * FaceCount - 1
      BY <2>1 DEF LevelsMade, Children
    <3> QED BY <3>2, <3>3, FS_Subset
  <2>2. CASE ~IsTexture
    <3>1. LevelsMade = {}
      BY <2>2 DEF LevelsMade, Children
    <3> QED BY <3>1, FS_EmptySet
  <2> QED BY <2>1, <2>2
<1>4. ASSUME NEW i \in LevelsMade
      PROVE  \E f \in Faces, l \in Levels : i = Index(f, l) /\ Entry(child[i], f, l) \in Named
  <2>1. IsTexture
    BY <1>1 DEF Children
  <2>2. PICK f \in Faces, l \in Levels : i = Index(f, l)
    BY <1>1, <2>1, Indices DEF Levels
  <2> QED BY <1>1, <2>1, <2>2, NamedIs
<1>5. ASSUME NEW i \in LevelsMade, NEW j \in LevelsMade, child[i] = child[j] PROVE i = j
  <2>1. PICK f \in Faces, l \in Levels : i = Index(f, l) /\ Entry(child[i], f, l) \in Named
    BY <1>4
  <2>2. PICK g \in Faces, k \in Levels : j = Index(g, k) /\ Entry(child[j], g, k) \in Named
    BY <1>4
  <2>3. Entry(child[i], f, l).id = Entry(child[j], g, k).id
    BY <1>5 DEF Entry
  <2>4. Entry(child[i], f, l) = Entry(child[j], g, k)
    BY <1>1, <2>1, <2>2, <2>3 DEF Names
  <2>5. f = g /\ l = k
    BY <2>4 DEF Entry
  <2> QED BY <2>1, <2>2, <2>5
<1>6. ASSUME NEW i \in LevelsMade PROVE \E e \in Named : e.id = child[i]
  <2>1. PICK f \in Faces, l \in Levels : i = Index(f, l) /\ Entry(child[i], f, l) \in Named
    BY <1>4
  <2>2. Entry(child[i], f, l).id = child[i]
    BY DEF Entry
  <2> QED BY <2>1, <2>2
<1>7. ASSUME NEW e \in Named PROVE \E i \in LevelsMade : e.id = child[i]
  <2>1. PICK f \in Faces, l \in Levels : IsTexture /\ child[Index(f, l)] # 0 /\ e = Entry(child[Index(f, l)], f, l)
    BY NamedIs
  <2>2. Index(f, l) \in LevelsMade
    BY <1>1, <2>1, Indices DEF Levels, LevelsMade
  <2> QED BY <2>1, <2>2 DEF Entry
<1> QED
  BY <1>2, <1>3, <1>5, <1>6, <1>7

(* The last Release, whose Unlinks name the handles of the levels made. *)
LEMMA DiesAgrees ==
  ASSUME ComInv, NEW p \in Pointers, Dereferences(p), p # Dev, count[Obj] = 1
  PROVE  child' \in [Children -> Nat] /\ Agree(commands', table', server', Named', nextId', Alive(Obj)')
<1>1. /\ UNCHANGED <<class, desc, ex, table, server, nextId>> /\ child' = [i \in Children |-> 0]
      /\ \E order \in [1..Cardinality(LevelsMade) -> LevelsMade] :
           /\ \A j, k \in DOMAIN order : j < k => order[j] < order[k]
           /\ \A i \in LevelsMade : \E k \in DOMAIN order : order[k] = i
           /\ commands' = commands \o (<<DestroyObject>> \o [k \in DOMAIN order |-> UnlinkLevel(child[order[k]])])
  <2>1. Owner(p) = Obj
    BY Kinds
  <2> QED BY <2>1 DEF Dereferences, Using, Fixed, Send, LevelsMade
<1>2. PICK m \in Nat : m = Cardinality(LevelsMade)
  BY OwnHandles, FS_CardinalityType
<1>3. PICK order \in [1..m -> LevelsMade] :
           /\ \A j, k \in 1..m : j < k => order[j] < order[k]
           /\ \A i \in LevelsMade : \E k \in 1..m : order[k] = i
           /\ commands' = commands \o (<<DestroyObject>> \o [k \in 1..m |-> UnlinkLevel(child[order[k]])])
  BY <1>1, <1>2
<1> DEFINE u == [k \in 1..m |-> child[order[k]]]
<1>4. u \in [1..m -> Nat] /\ \A k \in 1..m : u[k] = child[order[k]] /\ order[k] \in LevelsMade
  BY OwnHandles
<1>5. [k \in 1..m |-> UnlinkLevel(child[order[k]])] = [k \in 1..m |-> UnlinkLevel(u[k])]
  OBVIOUS
<1> HIDE DEF u
<1>6. commands \in Seq(Commands)
  BY DEF ComInv, Agree
<1>7. Closed(commands, commands', m, u)
  <2>1. commands' = commands \o (<<DestroyObject>> \o [k \in 1..m |-> UnlinkLevel(u[k])])
    BY <1>3, <1>5
  <2> QED BY <1>4, <1>6, <2>1, Closes, Zenon
<1>8. \A j, k \in 1..m : u[j] = u[k] => j = k
  <2> SUFFICES ASSUME NEW j \in 1..m, NEW k \in 1..m, u[j] = u[k] PROVE j = k
    OBVIOUS
  <2>1. order[j] = order[k]
    BY <1>4, OwnHandles
  <2>2. order[j] \in Nat
    BY <1>4 DEF LevelsMade, Children
  <2>3. ~(order[j] < order[k]) /\ ~(order[k] < order[j])
    BY <2>1, <2>2
  <2> QED BY <1>3, <2>3
<1>9. \A k \in 1..m : \E e \in Named : e.id = u[k]
  <2> TAKE k \in 1..m
  <2>1. PICK e \in Named : e.id = child[order[k]]
    BY <1>4, OwnHandles
  <2> QED BY <1>4, <2>1
<1>10. \A e \in Named : \E k \in 1..m : u[k] = e.id
  <2> TAKE e \in Named
  <2>1. PICK i \in LevelsMade : e.id = child[i]
    BY OwnHandles
  <2>2. PICK k \in 1..m : order[k] = i
    BY <1>3
  <2> QED BY <1>4, <2>1, <2>2
<1>11. Alive(Obj) /\ ~Alive(Obj)'
  BY CountsLess DEF ComInv
<1>12. Agree(commands', table, server, {}, nextId, Alive(Obj)')
  <2>1. Agree(commands, table, server, Named, nextId, Alive(Obj))
    BY DEF ComInv
  <2>2. PICK b : b <=> Alive(Obj)'
    OBVIOUS
  <2>3. PICK a : a <=> Alive(Obj)
    OBVIOUS
  <2>4. Agree(commands, table, server, Named, nextId, a)
    BY <2>1, <2>3, AgreeAlive
  <2>5. a /\ ~b
    BY <1>11, <2>2, <2>3
  <2>6. m \in Nat /\ u \in [1..m -> Nat]
    BY <1>4
  <2>7. Agree(commands', table, server, {}, nextId, b)
    BY <1>7, <1>8, <1>9, <1>10, <2>4, <2>5, <2>6, AgreeDies, Zenon
  <2> QED BY <2>2, <2>7, AgreeAlive
<1>13. Named' = {} /\ child' \in [Children -> Nat]
  <2>1. /\ Faces' = Faces /\ GetLevelCount' = GetLevelCount /\ (IsTexture' <=> IsTexture)
        /\ \A g, l : Index(g, l)' = Index(g, l)
    BY <1>1, Fixes DEF Index
  <2>2. \A g \in Faces, l \in Levels : IsTexture => Index(g, l) \in Children
    BY Indices DEF Levels, ComInv
  <2>3. \A g, l : Entry(child'[Index(g, l)], g, l).id = child'[Index(g, l)]
    BY DEF Entry
  <2> QED BY <1>1, <2>1, <2>2, <2>3 DEF Named, Levels
<1> QED
  BY <1>1, <1>12, <1>13

(* A step of the server. *)
LEMMA ServeAgrees ==
  ASSUME ComInv, Serve
  PROVE  Agree(commands', table', server', Named', nextId', Alive(Obj)')
<1>1. commands \in Seq(Commands) /\ commands # <<>> /\ commands' = Tail(commands)
  BY DEF ComInv, Agree, Serve
<1>2. PICK c : c = Head(commands)
  OBVIOUS
<1>3. Served(commands, commands', c)
  <2>1. 1 \in 1..Len(commands)
    BY <1>1, FirstCommand
  <2> QED BY <1>1, <1>2, <2>1, FirstCommand DEF Served
<1>4. UNCHANGED <<class, desc, ex, count, child, nextId>>
  BY DEF Serve
<1>5. \/ c.op = "Destroy" /\ server' = 0 /\ table' = table
      \/ c.op = "Link" /\ table' = table \cup {Entry(c.id, c.face, c.level)} /\ server' = server + 1
      \/ c.op = "Unlink" /\ table' = {e \in table : e.id # c.id} /\ server' = server
      \/ c.op = "Use" /\ table' = table /\ server' = server
  BY <1>2 DEF Serve, Destroy, Link, Unlink
<1>6. Agree(commands, table, server, Named, nextId, Alive(Obj))
  BY DEF ComInv
<1>7. Agree(commands', table', server', Named, nextId, Alive(Obj))
  BY <1>3, <1>5, <1>6, AgreeServes, Zenon
<1>8. Named' = Named /\ nextId' = nextId /\ (Alive(Obj)' <=> Alive(Obj))
  BY <1>4, Fixes DEF Alive
<1> QED
  BY <1>7, <1>8, AgreeAlive

-----------------------------------------------------------------------------
(* The calls *)

(* Types are kept if the counts and the levels have theirs. *)
LEMMA ComTyped ==
  ASSUME InterfacesType, UNCHANGED <<class, desc, ex>>, count' \in [Owners -> Nat], refs' \in [Pointers -> Nat],
         child' \in [Children -> Nat]
  PROVE  InterfacesType'
BY Fixes DEF InterfacesType

(* What the calls keep: one that gives a reference, one that changes       *)
(* nothing, one that is refused, QueryInterface.                           *)
LEMMA MoreKeeps ==
  ASSUME ComInv, Fixed, NoLevel, NEW p \in Pointers, AddRef(p), count[Owner(p)] > 0,
         NoCount \/ Counts(p, Told(Owner(p)) + 1)
  PROVE  ComInv'
<1>1. UNCHANGED <<class, desc, ex, table, server, child, nextId, commands>> /\ InterfacesType /\ Balance
  BY DEF Fixed, NoLevel, ComInv
<1>2. /\ count' \in [Owners -> Nat] /\ refs' \in [Pointers -> Nat]
      /\ Balance' /\ (Alive(Obj)' <=> Alive(Obj))
  BY <1>1, CountsMore
<1>3. InterfacesType'
  BY <1>1, <1>2, ComTyped DEF InterfacesType
<1> QED
  BY <1>1, <1>2, <1>3, QuietAgrees DEF ComInv

LEMMA SameKeeps ==
  ASSUME ComInv, UNCHANGED <<class, desc, ex, table, server, child, nextId, commands, count, refs>>,
         NoCount \/ answer' = answer
  PROVE  ComInv'
<1>1. InterfacesType /\ Balance
  BY DEF ComInv
<1>2. /\ count' \in [Owners -> Nat] /\ refs' \in [Pointers -> Nat]
      /\ Balance' /\ (Alive(Obj)' <=> Alive(Obj))
  BY <1>1, CountsSame
<1>3. InterfacesType'
  BY <1>1, <1>2, ComTyped DEF InterfacesType
<1> QED
  BY <1>2, <1>3, QuietAgrees DEF ComInv

LEMMA RefusedKeeps == ASSUME ComInv, Fixed, Refused PROVE ComInv'
BY SameKeeps DEF Fixed, Refused, NoLevel

LEMMA AnswersKeeps ==
  ASSUME ComInv, Fixed, NEW p \in Pointers, count[Owner(p)] > 0, NEW iid, Answers(p, iid)
  PROVE  ComInv'
BY MoreKeeps, RefusedKeeps DEF Answers

(* A level is a pointer of its texture. *)
LEMMA LevelPointers ==
  ASSUME ComInv, IsTexture, NEW f \in Faces, NEW l \in Levels
  PROVE  Index(f, l) \in Children /\ Level(Index(f, l)) \in Pointers /\ Owner(Level(Index(f, l))) = Obj
<1>1. Index(f, l) \in Children
  BY Indices DEF ComInv, Levels
<1> QED
  BY <1>1, Kinds DEF Pointers

(* GetSurfaceLevel and its like; LockRect and its like. *)
LEMMA GetLevelKeeps ==
  ASSUME ComInv, Fixed, IsTexture, Alive(Obj), NEW f \in Faces, NEW l \in Levels, GetLevel(f, l)
  PROVE  ComInv'
<1> DEFINE p == Level(Index(f, l))
<1>1. p \in Pointers /\ Owner(p) = Obj /\ count[Owner(p)] > 0
  BY LevelPointers DEF Alive
<1>2. AddRef(p) /\ NoCount
  BY DEF GetLevel
<1>3. CASE child[Index(f, l)] # 0
  <2>1. NoLevel
    BY <1>3 DEF GetLevel
  <2> QED BY <1>1, <1>2, <2>1, MoreKeeps
<1>4. CASE child[Index(f, l)] = 0
  <2>1. UNCHANGED <<class, desc, ex, table, server>> /\ InterfacesType /\ Balance
    BY DEF Fixed, ComInv
  <2>2. /\ count' \in [Owners -> Nat] /\ refs' \in [Pointers -> Nat]
        /\ Balance' /\ (Alive(Obj)' <=> Alive(Obj))
    BY <1>1, <1>2, <2>1, CountsMore
  <2>3. PICK use : MakeLevel(Index(f, l), f, l, use)
    BY <1>4 DEF GetLevel
  <2>4. child' \in [Children -> Nat] /\ Agree(commands', table', server', Named', nextId', Alive(Obj)')
    BY <1>4, <2>1, <2>2, <2>3, LinkAgrees
  <2>5. InterfacesType'
    BY <2>1, <2>2, <2>4, ComTyped
  <2> QED BY <2>2, <2>4, <2>5 DEF ComInv
<1> QED
  BY <1>3, <1>4

LEMMA LockLevelKeeps ==
  ASSUME ComInv, Fixed, IsTexture, Alive(Obj), NEW f \in Faces, NEW l \in Levels, LockLevel(f, l)
  PROVE  ComInv'
<1>1. UNCHANGED <<class, desc, ex, table, server, count, refs>> /\ InterfacesType /\ Balance /\ NoCount
  BY DEF Fixed, ComInv, LockLevel
<1>2. /\ count' \in [Owners -> Nat] /\ refs' \in [Pointers -> Nat]
      /\ Balance' /\ (Alive(Obj)' <=> Alive(Obj))
  BY <1>1, CountsSame
<1>3. child' \in [Children -> Nat] /\ Agree(commands', table', server', Named', nextId', Alive(Obj)')
  <2>1. CASE child[Index(f, l)] # 0
    <3>1. UNCHANGED <<child, nextId>> /\ commands' = commands \o <<UseLevel(child[Index(f, l)])>>
      BY <2>1 DEF LockLevel, Send
    <3>2. child' \in [Children -> Nat]
      BY <1>1, <3>1 DEF InterfacesType
    <3> QED BY <1>1, <1>2, <2>1, <3>1, <3>2, UseAgrees
  <2>2. CASE child[Index(f, l)] = 0
    <3>1. PICK use : MakeLevel(Index(f, l), f, l, use)
      BY <2>2 DEF LockLevel
    <3> QED BY <1>1, <1>2, <2>2, <3>1, LinkAgrees
  <2> QED BY <2>1, <2>2
<1>4. InterfacesType'
  BY <1>1, <1>2, <1>3, ComTyped
<1> QED
  BY <1>2, <1>3, <1>4 DEF ComInv

(* Release. *)
LEMMA DereferencesKeeps ==
  ASSUME ComInv, NEW p \in Pointers, Dereferences(p)
  PROVE  ComInv'
<1>1. InterfacesType /\ Balance /\ UNCHANGED <<class, desc, ex, table, server, nextId>>
  BY DEF ComInv, Dereferences, Using, Fixed
<1>2. /\ count' \in [Owners -> Nat] /\ refs' \in [Pointers -> Nat] /\ Balance'
      /\ Alive(Obj)' <=> Alive(Obj) /\ ~(p # Dev /\ count[Obj] = 1)
  BY <1>1, CountsLess
<1>3. child' \in [Children -> Nat] /\ Agree(commands', table', server', Named', nextId', Alive(Obj)')
  <2>1. CASE p # Dev /\ count[Obj] = 1
    BY <2>1, DiesAgrees
  <2>2. CASE ~(p # Dev /\ count[Obj] = 1)
    <3>1. ~(Owner(p) = Obj /\ count[Obj] = 1)
      BY <2>2, Kinds
    <3>2. UNCHANGED <<child, commands>>
      BY <3>1 DEF Dereferences
    <3>3. Alive(Obj)' <=> Alive(Obj)
      BY <1>2, <2>2
    <3>4. child' \in [Children -> Nat]
      BY <1>1, <3>2 DEF InterfacesType
    <3>5. Agree(commands, table, server, Named, nextId, Alive(Obj))'
      BY <1>1, <3>2, <3>3, QuietAgrees
    <3> QED BY <3>4, <3>5
  <2> QED BY <2>1, <2>2
<1>4. InterfacesType'
  BY <1>1, <1>2, <1>3, ComTyped
<1> QED
  BY <1>2, <1>3, <1>4 DEF ComInv

(* The calls of a pointer, and those of a texture that name a level. *)
LEMMA PointerCallsKeep ==
  ASSUME ComInv, NEW p \in Pointers,
         \/ References(p) \/ Dereferences(p)
         \/ \E iid \in IIDs : QueryInterface(p, iid) \/ VolumeGetContainer(p, iid)
         \/ \E iid \in IIDs, null \in BOOLEAN : GetContainer(p, iid, null)
         \/ \E null \in BOOLEAN : GetDevice(p, null)
  PROVE  ComInv'
<1>1. CASE Dereferences(p)
  BY <1>1, DereferencesKeeps
<1>2. CASE Using(p) /\ ~Dereferences(p)
  <2>1. Fixed /\ count[Owner(p)] > 0 /\ count[Dev] > 0 /\ (p # Dev => Alive(Obj))
    BY <1>2, InUse DEF Using, ComInv
  <2>2. Owner(Dev) = Dev /\ Owner(Obj) = Obj /\ Dev \in Pointers /\ Obj \in Pointers /\ Obj # Dev
    BY Kinds DEF Shared
  <2>3. CASE References(p)
    BY <2>1, <2>3, MoreKeeps DEF References
  <2>4. ASSUME NEW iid \in IIDs, QueryInterface(p, iid) PROVE ComInv'
    BY <2>1, <2>4, AnswersKeeps DEF QueryInterface
  <2>5. ASSUME NEW iid \in IIDs, VolumeGetContainer(p, iid) PROVE ComInv'
    <3>1. p # Dev
      BY <2>5 DEF VolumeGetContainer, Iid
    <3> QED BY <2>1, <2>2, <2>5, <3>1, AnswersKeeps DEF VolumeGetContainer, Alive
  <2>6. ASSUME NEW iid \in IIDs, NEW null \in BOOLEAN, GetContainer(p, iid, null) PROVE ComInv'
    <3>1. p # Dev
      BY <2>6 DEF GetContainer, Iid
    <3>2. Refused \/ Answers(Dev, iid) \/ Answers(Obj, iid)
      BY <2>6 DEF GetContainer
    <3> QED BY <2>1, <2>2, <3>1, <3>2, AnswersKeeps, RefusedKeeps DEF Alive
  <2>7. ASSUME NEW null \in BOOLEAN, GetDevice(p, null) PROVE ComInv'
    <3>1. Refused \/ (AddRef(Dev) /\ NoCount /\ NoLevel)
      BY <2>7 DEF GetDevice
    <3> QED BY <2>1, <2>2, <3>1, MoreKeeps, RefusedKeeps
  <2> QED BY <1>2, <2>3, <2>4, <2>5, <2>6, <2>7
<1> QED
  BY <1>1, <1>2 DEF References, QueryInterface, VolumeGetContainer, GetContainer, GetDevice

LEMMA LevelCallsKeep ==
  ASSUME ComInv, NEW level \in AskedLevels,
         \/ GetSurfaceLevel(level) \/ LockRect(level) \/ UnlockRect(level)
         \/ GetVolumeLevel(level) \/ LockBox(level) \/ UnlockBox(level)
         \/ \E face \in AskedFaces :
              \/ GetCubeMapSurface(face, level)
              \/ CubeLockRect(face, level) \/ CubeUnlockRect(face, level)
  PROVE  ComInv'
<1>1. level \in Nat /\ desc.levels \in Nat /\ GetLevelCount \in Nat /\ AskedFaces \subseteq Nat
  BY InterfacesAssumption DEF ComInv, InterfacesType, GetLevelCount
<1>2. /\ ~(level >= GetLevelCount) => level \in Levels
      /\ ~(level >= desc.levels) /\ InRange(level) => level \in Levels
  BY <1>1 DEF Levels, InRange
<1>3. /\ class # "IDirect3DCubeTexture9" => 0 \in Faces
      /\ class = "IDirect3DCubeTexture9" => \A f \in Nat : ~(f > 5) \/ ~(f >= 6) => f \in Faces
  BY DEF Faces, FaceCount
<1>4. ASSUME NEW c, Is(c) PROVE Fixed /\ class = c /\ Alive(Obj)
  <2>1. Obj \in Pointers /\ Obj # Dev
    BY Kinds DEF Shared
  <2> QED BY <1>4, <2>1, InUse DEF Is, Using, ComInv
<1>5. ASSUME Refused, Fixed PROVE ComInv'
  BY <1>5, RefusedKeeps
<1>6. CASE GetSurfaceLevel(level)
  <2>1. Fixed /\ class = "IDirect3DTexture9" /\ Alive(Obj) /\ IsTexture
    BY <1>4, <1>6 DEF GetSurfaceLevel, IsTexture, TextureIIDs
  <2> QED BY <1>2, <1>3, <1>5, <1>6, <2>1, GetLevelKeeps DEF GetSurfaceLevel
<1>7. CASE LockRect(level)
  <2>1. Fixed /\ class = "IDirect3DTexture9" /\ Alive(Obj) /\ IsTexture
    BY <1>4, <1>7 DEF LockRect, IsTexture, TextureIIDs
  <2> QED BY <1>2, <1>3, <1>5, <1>7, <2>1, LockLevelKeeps DEF LockRect
<1>8. CASE UnlockRect(level)
  BY <1>4, <1>5, <1>8 DEF UnlockRect
<1>9. CASE GetVolumeLevel(level)
  <2>1. Fixed /\ class = "IDirect3DVolumeTexture9" /\ Alive(Obj) /\ IsTexture
    BY <1>4, <1>9 DEF GetVolumeLevel, IsTexture, TextureIIDs
  <2> QED BY <1>2, <1>3, <1>5, <1>9, <2>1, GetLevelKeeps DEF GetVolumeLevel
<1>10. CASE LockBox(level)
  <2>1. Fixed /\ class = "IDirect3DVolumeTexture9" /\ Alive(Obj) /\ IsTexture
    BY <1>4, <1>10 DEF LockBox, IsTexture, TextureIIDs
  <2> QED BY <1>2, <1>3, <1>5, <1>10, <2>1, LockLevelKeeps DEF LockBox
<1>11. CASE UnlockBox(level)
  BY <1>4, <1>5, <1>11 DEF UnlockBox
<1>12. ASSUME NEW face \in AskedFaces, GetCubeMapSurface(face, level) PROVE ComInv'
  <2>1. Fixed /\ class = "IDirect3DCubeTexture9" /\ Alive(Obj) /\ IsTexture /\ face \in Nat
    BY <1>1, <1>4, <1>12 DEF GetCubeMapSurface, IsTexture, TextureIIDs
  <2> QED BY <1>2, <1>3, <1>5, <1>12, <2>1, GetLevelKeeps DEF GetCubeMapSurface
<1>13. ASSUME NEW face \in AskedFaces, CubeLockRect(face, level) PROVE ComInv'
  <2>1. Fixed /\ class = "IDirect3DCubeTexture9" /\ Alive(Obj) /\ IsTexture /\ face \in Nat
    BY <1>1, <1>4, <1>13 DEF CubeLockRect, IsTexture, TextureIIDs
  <2> QED BY <1>2, <1>3, <1>5, <1>13, <2>1, LockLevelKeeps DEF CubeLockRect
<1>14. ASSUME NEW face \in AskedFaces, CubeUnlockRect(face, level) PROVE ComInv'
  BY <1>4, <1>5, <1>14 DEF CubeUnlockRect
<1> QED
  BY <1>6, <1>7, <1>8, <1>9, <1>10, <1>11, <1>12, <1>13, <1>14

(* The server. *)
LEMMA ServeKeeps == ASSUME ComInv, Serve PROVE ComInv'
<1>1. UNCHANGED <<class, desc, ex, count, child, refs, answer>> /\ InterfacesType /\ Balance
  BY DEF Serve, ComInv
<1>2. /\ count' \in [Owners -> Nat] /\ refs' \in [Pointers -> Nat] /\ Balance'
  BY <1>1, CountsSame
<1>3. InterfacesType'
  BY <1>1, <1>2, ComTyped DEF InterfacesType
<1>4. Agree(commands', table', server', Named', nextId', Alive(Obj)')
  BY ServeAgrees
<1> QED
  BY <1>2, <1>3, <1>4 DEF ComInv

(* A new object. *)
LEMMA ComInvInit == ASSUME InitInterfaces PROVE ComInv
<1>1. /\ class \in ClassIIDs /\ desc \in [levels : Nat, autogen : BOOLEAN] /\ ex \in BOOLEAN
      /\ ImplicitRefs \in Nat
  BY InterfacesAssumption DEF InitInterfaces
<1>2. /\ count = [x \in Owners |-> IF x = Dev THEN ImplicitRefs + 2 ELSE 1]
      /\ refs = [p \in Pointers |-> IF p \in Owners THEN 1 ELSE 0]
      /\ child = [i \in Children |-> 0]
  BY DEF InitInterfaces
<1>3. InterfacesType
  BY <1>1, <1>2 DEF InterfacesType
<1>4. refs[Dev] = 1 /\ refs[Obj] = 1 /\ count[Dev] = ImplicitRefs + 2 /\ count[Obj] = 1
  BY <1>2, Kinds DEF Pointers, Owners
<1>5. \A q \in Shared : refs[q] = IF q = Obj THEN 1 ELSE 0
  BY <1>2 DEF Shared, Owners
<1>6. Given(Shared) = {<<Obj, 1>>}
  <2>1. \A t : t \in Given(Shared) <=> t = <<Obj, 1>>
    <3>1. \A q \in Shared : \A k \in 1..refs[q] : q = Obj /\ k = 1
      BY <1>5
    <3>2. Obj \in Shared /\ 1 \in 1..refs[Obj]
      BY <1>4, Kinds
    <3> QED BY <3>1, <3>2, GivenOf
  <2> QED BY <2>1
<1>7. IsFiniteSet(Given(Shared)) /\ Held(Shared) = 1
  BY <1>6, FS_Singleton DEF Held
<1>8. Owing = 2
  BY <1>4 DEF Owing, Alive
<1>9. Balance
  BY <1>1, <1>4, <1>7, <1>8 DEF Balance, InitInterfaces
<1>10. Named = {}
  <2>1. IsTexture => \A f \in Faces, l \in Levels : child[Index(f, l)] = 0
    BY <1>2, <1>3, Indices DEF Levels
  <2> QED BY <2>1, NamedIs
<1>11. Agree(<<>>, {}, 1, {}, 1, Alive(Obj))
  <2>1. <<>> \in Seq(Commands) /\ 1..Len(<<>>) = {}
    OBVIOUS
  <2>2. Names({}, 1)
    BY DEF Names
  <2>3. InOrder(<<>>, {}, 1)
    BY <2>1 DEF InOrder
  <2>4. Alive(Obj)
    BY <1>4 DEF Alive
  <2>5. Serving(<<>>, {}, 1, Alive(Obj))
    BY <2>1, <2>4, FS_EmptySet DEF Serving
  <2>6. Promised(<<>>, {}, {}, Alive(Obj))
    BY <2>1, <2>4 DEF Promised, Linked
  <2> QED BY <2>1, <2>2, <2>3, <2>5, <2>6 DEF Agree
<1> QED
  BY <1>3, <1>9, <1>10, <1>11 DEF ComInv, InitInterfaces

(* The invariant implies what is promised. *)
LEMMA ComInvMeans == ASSUME ComInv PROVE ComRules
<1>1. InterfacesType /\ Balance /\ Agree(commands, table, server, Named, nextId, Alive(Obj))
  BY DEF ComInv
<1>2. ReferencesMatch
  BY <1>1, AnswersDerived DEF ReferencesMatch, Balance, Owing, Shared, InterfacesType
<1>3. LevelsAgree
  BY <1>1, AgreeMeans DEF LevelsAgree
<1> QED
  BY <1>2, <1>3 DEF ComRules

(* ComRules, for an object of any class, a texture of any size, any number *)
(* of references and levels, and a server that is behind by any number of  *)
(* commands: the counts of AddRef and Release are the references the game  *)
(* holds, QueryInterface grants what the interface is derived from, and no *)
(* command about a level finds the server without it, whatever the game    *)
(* calls and in whatever order; when the server has caught up its handles  *)
(* are the client's, and an object the game has given up is gone with its  *)
(* levels.                                                                 *)
THEOREM ReferencesAndLevels == InterfacesSpec => []ComRules
<1>1. InitInterfaces => ComInv
  BY ComInvInit
<1>2. ComInv /\ [InterfacesNext]_interfaceVars => ComInv'
  <2> SUFFICES ASSUME ComInv, [InterfacesNext]_interfaceVars PROVE ComInv'
    OBVIOUS
  <2>1. CASE GameCalls
    BY <2>1, PointerCallsKeep, LevelCallsKeep DEF GameCalls
  <2>2. CASE Serve
    BY <2>2, ServeKeeps
  <2>3. CASE UNCHANGED interfaceVars
    BY <2>3, SameKeeps DEF interfaceVars
  <2> QED BY <2>1, <2>2, <2>3 DEF InterfacesNext
<1>3. ComInv => ComRules
  BY ComInvMeans
<1> QED
  BY <1>1, <1>2, <1>3, PTL DEF InterfacesSpec
==================================================================================
