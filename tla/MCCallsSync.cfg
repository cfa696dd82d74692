SPECIFICATION Spec
CONSTANTS
  Made = {"o1", "o2"}
  Depth = 1
  Together = {{"VertexBuffer", "VertexDeclaration"}}
  Excluded = {"GetDepthStencilSurface_none",
              "Query_GetData_null"}
  SendReadOnlyCalls = TRUE
INVARIANT InSync
