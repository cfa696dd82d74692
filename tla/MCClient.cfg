CONSTANTS
  Subjects = {"calls", "keyboard", "focus", "polling", "devices", "structures", "shadow", "shaders", "options"}
  Made = {"o1", "o2"}
  Depth = 1
  Together = {{"VertexBuffer", "VertexDeclaration"}}
  Excluded = {"VolumeTexture_AddDirtyBox", "GetDepthStencilSurface_none",
              "Query_GetData_null"}
  SendReadOnlyCalls = TRUE
  DeviceType = {"Mouse", "Keyboard"}
  Policy <- DefaultPolicy
  DisableExclusiveInput = FALSE
  MaxInbox = 2
  Keys = {"VK_CONTROL", "VK_MENU", "other"}
  MaxQueue = 2
  Surfaces <- MCSurfaces
  PathSizes = {0, 1, 3}
  Arguments <- MCArguments
  MaxSets = 2
  SizeT = 1073741824
  MaxInstructions = 2
  Lengths = {0, 1, 3}
  Files <- MCFiles
SPECIFICATION MCSpec
INVARIANTS InSync HandlesResolve Answered TablesAgree UIHears FocusAgrees InputWithheld RoundTrip GetReturnsSet ShaderCopiedWhole ProcessesAgree
