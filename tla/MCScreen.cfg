CONSTANTS
  MaxFrames = 2
  MaxRetries = 1
  FrameBound = 5
  Chains = {"d1", "d2"}
  Sizes = {1, 2, 3}
  Rates = {60, 75}
  DesktopMode <- MCDesktop
  Period = 3
  SpinTicks = 1
  SleepCap = 1
  MaxClock = 16
  Descs <- MCDescs
  ImplicitRefs = 2
  MaxHeld = 3
  AskedFaces = {0, 1, 6}
  AskedLevels = {0, 1, 2}
  MaxLevels = 2
  MaxSent = 3
  Windows = {"w1", "w2"}
  Procs = {"p", "q"}
  Devices = {"d1", "d2", "d3"}
  Windowed = {"d2"}
  NoWindowChanges = {"d3"}
  MaxActs = 1
SPECIFICATION MCFairSpec
INVARIANTS FrameLead ModeFollows CadenceKept ComRules GameProcKept
PROPERTIES PresentReturns Settles
CHECK_DEADLOCK FALSE
