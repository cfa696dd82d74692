---------------------------- MODULE ClientObjects ----------------------------
(***************************************************************************)
(* The methods of the client's resources, state blocks, shaders, queries   *)
(* and swap chains that reach the server (d3d9_texture.cpp, ...), named    *)
(* Interface_Method.                                                       *)
(***************************************************************************)
EXTENDS Wire

LOCAL Destroy(type) == Destroys({type}, <<>>)

-----------------------------------------------------------------------------
(* onDestroy of the stand-alone objects, and the two unlinks of children *)

Texture_Destroy == Destroy("Texture")
CubeTexture_Destroy == Destroy("CubeTexture")
VolumeTexture_Destroy == Destroy("VolumeTexture")
VertexBuffer_Destroy == Destroy("VertexBuffer")
IndexBuffer_Destroy == Destroy("IndexBuffer")
Surface_Destroy == Destroy("Surface")
StateBlock_Destroy == Destroy("StateBlock")
VertexDeclaration_Destroy == Destroy("VertexDeclaration")
VertexShader_Destroy == Destroy("VertexShader")
PixelShader_Destroy == Destroy("PixelShader")
SwapChain_Destroy == Destroy("SwapChain")
Query_Destroy == Destroy("Query")
UnlinkResource == Destroy("Surface")
UnlinkVolumeResource == Destroy("Volume")

-----------------------------------------------------------------------------
(* Resources *)

Resource_SetPriority == Sends(Resources, <<W>>)
Resource_PreLoad == Sends(Resources, <<>>)
BaseTexture_SetLOD == Sends(Textures, <<W>>)
BaseTexture_SetAutoGenFilterType == Optional(Textures, <<W>>)
BaseTexture_GenerateMipSubLevels == Sends(Textures, <<>>)

Texture_GetLevelDesc == ReadOnly({"Texture"}, <<B, W>>)
Texture_GetSurfaceLevel == LinksChild({"Texture"}, <<W, New>>, "Surface")
Texture_AddDirtyRect == Optional({"Texture"}, <<BOrNull>>)

CubeTexture_GetLevelDesc == ReadOnly({"CubeTexture"}, <<B, W>>)
CubeTexture_GetCubeMapSurface == LinksChild({"CubeTexture"}, <<W, W, New>>, "Surface")
CubeTexture_AddDirtyRect == Optional({"CubeTexture"}, <<W, BOrNull>>)

VolumeTexture_GetLevelDesc == ReadOnly({"VolumeTexture"}, <<B, W>>)
VolumeTexture_GetVolumeLevel == LinksChild({"VolumeTexture"}, <<W, New>>, "Volume")
VolumeTexture_AddDirtyBox == Optional({"VolumeTexture"}, <<BOrNull>>)

VertexBuffer_GetDesc == ReadOnly({"VertexBuffer"}, <<B>>)
IndexBuffer_GetDesc == ReadOnly({"IndexBuffer"}, <<B>>)
Surface_GetDesc == ReadOnly({"Surface"}, <<B>>)

-----------------------------------------------------------------------------
(* What an unlock sends: the place written and then the data, as a block,  *)
(* as the identifier of a shared heap buffer, or (buffers only) as the     *)
(* offset of a block reserved in the ring by the lock                      *)

LOCAL Unlocks(type, data) == Sends({type}, Ws(3) \o <<data>>)
VertexBuffer_Unlock == Unlocks("VertexBuffer", B)
VertexBuffer_Unlock_heap == Unlocks("VertexBuffer", W)
VertexBuffer_Unlock_reserved == Unlocks("VertexBuffer", W)
IndexBuffer_Unlock == Unlocks("IndexBuffer", B)
IndexBuffer_Unlock_heap == Unlocks("IndexBuffer", W)
IndexBuffer_Unlock_reserved == Unlocks("IndexBuffer", W)

Surface_UnlockRect == Sends({"Surface"}, <<B, W, W, W, B>>)
Surface_UnlockRect_heap == Sends({"Surface"}, <<B, W, W, W, W>>)
Volume_UnlockBox == Sends({"Volume"}, <<B, W>> \o Ws(4) \o <<B>>)

\* A lock of a back buffer with enableBackbufferCapture, not with DISCARD
Surface_LockRect == CopiesSurface({"Surface"}, <<>>)

-----------------------------------------------------------------------------
(* State blocks, queries, swap chains *)

StateBlock_Capture == Sends({"StateBlock"}, <<>>)
StateBlock_Apply == Sends({"StateBlock"}, <<>>)

Query_Issue == Optional({"Query"}, <<W>>)
Query_GetData == Asks({"Query"}, <<W, W>>, <<B>>)
\* dwSize = 0: the game only polls
Query_GetData_poll == Asks({"Query"}, <<W, W>>, <<>>)
\* dwSize > 0 and pData = NULL: the block in the answer is not read
Query_GetData_null ==
  [Asks({"Query"}, <<W, W>>, <<>>) EXCEPT !.command = "Query_GetData"]

SwapChain_Present == Sends({"SwapChain"}, <<BOrNull, BOrNull, W, BOrNull, W>>)
SwapChain_GetFrontBufferData == CopiesSurface({"SwapChain"}, <<Obj({"Surface"})>>)
\* Also the constructor's loop over the back buffers
SwapChain_GetBackBuffer ==
  [LinksChild({"SwapChain"}, <<W, W, New>>, "Surface") EXCEPT !.waits = "all"]

ObjectMethods ==
  [ Resource_SetPriority |-> Resource_SetPriority, Resource_PreLoad |-> Resource_PreLoad,
    BaseTexture_SetLOD |-> BaseTexture_SetLOD,
    BaseTexture_SetAutoGenFilterType |-> BaseTexture_SetAutoGenFilterType,
    BaseTexture_GenerateMipSubLevels |-> BaseTexture_GenerateMipSubLevels,
    Texture_GetLevelDesc |-> Texture_GetLevelDesc,
    Texture_GetSurfaceLevel |-> Texture_GetSurfaceLevel,
    Texture_AddDirtyRect |-> Texture_AddDirtyRect,
    CubeTexture_GetLevelDesc |-> CubeTexture_GetLevelDesc,
    CubeTexture_GetCubeMapSurface |-> CubeTexture_GetCubeMapSurface,
    CubeTexture_AddDirtyRect |-> CubeTexture_AddDirtyRect,
    VolumeTexture_GetLevelDesc |-> VolumeTexture_GetLevelDesc,
    VolumeTexture_GetVolumeLevel |-> VolumeTexture_GetVolumeLevel,
    VolumeTexture_AddDirtyBox |-> VolumeTexture_AddDirtyBox,
    VertexBuffer_GetDesc |-> VertexBuffer_GetDesc,
    IndexBuffer_GetDesc |-> IndexBuffer_GetDesc, Surface_GetDesc |-> Surface_GetDesc,
    VertexBuffer_Unlock |-> VertexBuffer_Unlock,
    VertexBuffer_Unlock_heap |-> VertexBuffer_Unlock_heap,
    VertexBuffer_Unlock_reserved |-> VertexBuffer_Unlock_reserved,
    IndexBuffer_Unlock |-> IndexBuffer_Unlock,
    IndexBuffer_Unlock_heap |-> IndexBuffer_Unlock_heap,
    IndexBuffer_Unlock_reserved |-> IndexBuffer_Unlock_reserved,
    Surface_UnlockRect |-> Surface_UnlockRect,
    Surface_UnlockRect_heap |-> Surface_UnlockRect_heap,
    Volume_UnlockBox |-> Volume_UnlockBox, Surface_LockRect |-> Surface_LockRect,
    StateBlock_Capture |-> StateBlock_Capture, StateBlock_Apply |-> StateBlock_Apply,
    Query_Issue |-> Query_Issue, Query_GetData |-> Query_GetData,
    Query_GetData_poll |-> Query_GetData_poll, Query_GetData_null |-> Query_GetData_null,
    SwapChain_Present |-> SwapChain_Present,
    SwapChain_GetFrontBufferData |-> SwapChain_GetFrontBufferData ]

ObjectSteps ==
  [ Texture_Destroy |-> Texture_Destroy, CubeTexture_Destroy |-> CubeTexture_Destroy,
    VolumeTexture_Destroy |-> VolumeTexture_Destroy,
    VertexBuffer_Destroy |-> VertexBuffer_Destroy,
    IndexBuffer_Destroy |-> IndexBuffer_Destroy, Surface_Destroy |-> Surface_Destroy,
    StateBlock_Destroy |-> StateBlock_Destroy,
    VertexDeclaration_Destroy |-> VertexDeclaration_Destroy,
    VertexShader_Destroy |-> VertexShader_Destroy,
    PixelShader_Destroy |-> PixelShader_Destroy, SwapChain_Destroy |-> SwapChain_Destroy,
    Query_Destroy |-> Query_Destroy, UnlinkResource |-> UnlinkResource,
    UnlinkVolumeResource |-> UnlinkVolumeResource,
    SwapChain_GetBackBuffer |-> SwapChain_GetBackBuffer ]

=============================================================================
