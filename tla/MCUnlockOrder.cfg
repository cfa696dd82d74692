SPECIFICATION AllSpec
CONSTANTS
  FirstSegment = 2
  MaxHeap = 6
  Resources = {"one", "three"}
  Size <- MCSize
  MaxLocks = 2
  MaxUid = 3
  MaxQueue = 1
  GameThreads = {t1, t2, t3}
  Main = t1
  RefBits = 3
  MaxRefs = 2
  Careful = TRUE
  Shapes <- WideShapes
  MaxWrites = 3
  MaxFlight = 2
  MaxBuffers = 2
  Threads = {t1, t2}
  Slots = {"textureStageStates", "transforms"}
  Values = {0, 1}
  Default = 0
  Blocks = {x}
  NoBlock = NoBlock
  BatchCapacity = 2
PROPERTY UnlocksMostRecent
