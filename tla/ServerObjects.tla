---------------------------- MODULE ServerObjects ----------------------------
(***************************************************************************)
(* The handlers of the server's command switch for the commands of the     *)
(* resources, state blocks, shaders, queries and swap chains               *)
(* (server/main.cpp, ProcessDeviceCommandQueue).                           *)
(***************************************************************************)
EXTENDS Wire

LOCAL Res(types, items) == Pulls("gpD3DResources", types, items)
LOCAL ResAck(types, items) == Acks("gpD3DResources", types, items)
LOCAL SurfaceData == <<W, W, W, B>>

-----------------------------------------------------------------------------
(* The end of an object *)

Texture_Destroy == Erases("gpD3DResources", {"Texture"})
CubeTexture_Destroy == Erases("gpD3DResources", {"CubeTexture"})
VolumeTexture_Destroy == Erases("gpD3DResources", {"VolumeTexture"})
VertexBuffer_Destroy == Erases("gpD3DResources", {"VertexBuffer"})
IndexBuffer_Destroy == Erases("gpD3DResources", {"IndexBuffer"})
Surface_Destroy == Erases("gpD3DResources", {"Surface"})
StateBlock_Destroy == Erases("gpD3DStateBlocks", {"StateBlock"})
VertexDeclaration_Destroy == Erases("gpD3DVertexDeclarations", {"VertexDeclaration"})
VertexShader_Destroy == Erases("gpD3DVertexShaders", {"VertexShader"})
PixelShader_Destroy == Erases("gpD3DPixelShaders", {"PixelShader"})
SwapChain_Destroy == Erases("gpD3DSwapChains", {"SwapChain"})
Query_Destroy == Erases("gpD3DQuery", {"Query"})
\* Mutant: the link goes, the table entry stays
UnlinkKeeps == Skips(Res({"Surface"}, <<>>))
UnlinkResource == Erases("gpD3DResources", {"Surface"})
UnlinkVolumeResource == Erases("gpD3DVolumes", {"Volume"})

-----------------------------------------------------------------------------
(* Resources *)

Resource_SetPriority == Res(Resources, <<W>>)
Resource_PreLoad == Res(Resources, <<>>)
BaseTexture_SetLOD == Skips(Res(Textures, <<W>>))
\* The answer is inside the test for the texture
BaseTexture_SetAutoGenFilterType == Skips(ResAck(Textures, <<W>>))
BaseTexture_GenerateMipSubLevels == Skips(Res(Textures, <<>>))

Texture_GetLevelDesc == Res({"Texture"}, <<B, W>>)
\* Mutant: the level is not pulled
SurfaceLevelUnread == Enters(Res({"Texture"}, <<New>>), "gpD3DResources", "Surface")
Texture_GetSurfaceLevel ==
  Enters(Res({"Texture"}, <<W, New>>), "gpD3DResources", "Surface")
Texture_AddDirtyRect == ResAck({"Texture"}, <<B>>)

CubeTexture_GetLevelDesc == Res({"CubeTexture"}, <<B, W>>)
CubeTexture_GetCubeMapSurface ==
  Enters(Res({"CubeTexture"}, <<W, W, New>>), "gpD3DResources", "Surface")
CubeTexture_AddDirtyRect == ResAck({"CubeTexture"}, <<W, B>>)

VolumeTexture_GetLevelDesc == Res({"VolumeTexture"}, <<B, W>>)
VolumeTexture_GetVolumeLevel ==
  Enters(Res({"VolumeTexture"}, <<W, New>>), "gpD3DVolumes", "Volume")
\* A level is pulled before the box
VolumeTexture_AddDirtyBox == ResAck({"VolumeTexture"}, <<W, B>>)

VertexBuffer_GetDesc == Res({"VertexBuffer"}, <<B>>)
IndexBuffer_GetDesc == Res({"IndexBuffer"}, <<B>>)
Surface_GetDesc == Res({"Surface"}, <<B>>)

\* The flags of the header say how the data came
LOCAL Unlocked(type, data) == Res({type}, Ws(3) \o <<data>>)
VertexBuffer_Unlock == Unlocked("VertexBuffer", B)
VertexBuffer_Unlock_heap == Unlocked("VertexBuffer", W)
VertexBuffer_Unlock_reserved == Unlocked("VertexBuffer", W)
IndexBuffer_Unlock == Unlocked("IndexBuffer", B)
IndexBuffer_Unlock_heap == Unlocked("IndexBuffer", W)
IndexBuffer_Unlock_reserved == Unlocked("IndexBuffer", W)
Surface_UnlockRect == Res({"Surface"}, <<B, W, W, W, B>>)
Surface_UnlockRect_heap == Res({"Surface"}, <<B, W, W, W, W>>)
Volume_UnlockBox == Pulls("gpD3DVolumes", {"Volume"}, <<B, W>> \o Ws(4) \o <<B>>)
Surface_LockRect == Replies("gpD3DResources", {"Surface"}, <<>>, SurfaceData)

-----------------------------------------------------------------------------
(* State blocks, queries, swap chains *)

StateBlock_Capture == Pulls("gpD3DStateBlocks", {"StateBlock"}, <<>>)
StateBlock_Apply == Pulls("gpD3DStateBlocks", {"StateBlock"}, <<>>)
Query_Issue == Acks("gpD3DQuery", {"Query"}, <<W>>)
Query_GetData == Replies("gpD3DQuery", {"Query"}, <<W, W>>, <<B>>)
Query_GetData_poll == Replies("gpD3DQuery", {"Query"}, <<W, W>>, <<>>)

LOCAL Chn(items) == Pulls("gpD3DSwapChains", {"SwapChain"}, items)
SwapChain_Present == Chn(<<B, B, W, B, W>>)
SwapChain_GetFrontBufferData ==
  Replies("gpD3DSwapChains", {"SwapChain"}, <<In("gpD3DResources", {"Surface"})>>,
          SurfaceData)
SwapChain_GetBackBuffer ==
  Enters(Acks("gpD3DSwapChains", {"SwapChain"}, <<W, W, New>>), "gpD3DResources",
         "Surface")

ObjectHandlers ==
  [ Texture_Destroy |-> Texture_Destroy, CubeTexture_Destroy |-> CubeTexture_Destroy,
    VolumeTexture_Destroy |-> VolumeTexture_Destroy,
    VertexBuffer_Destroy |-> VertexBuffer_Destroy,
    IndexBuffer_Destroy |-> IndexBuffer_Destroy, Surface_Destroy |-> Surface_Destroy,
    StateBlock_Destroy |-> StateBlock_Destroy,
    VertexDeclaration_Destroy |-> VertexDeclaration_Destroy,
    VertexShader_Destroy |-> VertexShader_Destroy,
    PixelShader_Destroy |-> PixelShader_Destroy,
    SwapChain_Destroy |-> SwapChain_Destroy, Query_Destroy |-> Query_Destroy,
    UnlinkResource |-> UnlinkResource, UnlinkVolumeResource |-> UnlinkVolumeResource,
    Resource_SetPriority |-> Resource_SetPriority,
    Resource_PreLoad |-> Resource_PreLoad, BaseTexture_SetLOD |-> BaseTexture_SetLOD,
    BaseTexture_SetAutoGenFilterType |-> BaseTexture_SetAutoGenFilterType,
    BaseTexture_GenerateMipSubLevels |-> BaseTexture_GenerateMipSubLevels,
    Texture_GetLevelDesc |-> Texture_GetLevelDesc,
    Texture_GetSurfaceLevel |-> Texture_GetSurfaceLevel,
    Texture_AddDirtyRect |-> Texture_AddDirtyRect,
    CubeTexture_GetLevelDesc |-> CubeTexture_GetLevelDesc,
    CubeTexture_GetCubeMapSurface |-> CubeTexture_GetCubeMapSurface,
    CubeTexture_AddDirtyRect |-> CubeTexture_AddDirtyRect,
    VolumeTexture_GetLevelDesc |-> VolumeTexture_GetLevelDesc,
    VolumeTexture_GetVolumeLevel |-> VolumeTexture_GetVolumeLevel,
    VolumeTexture_AddDirtyBox |-> VolumeTexture_AddDirtyBox,
    VertexBuffer_GetDesc |-> VertexBuffer_GetDesc,
    IndexBuffer_GetDesc |-> IndexBuffer_GetDesc, Surface_GetDesc |-> Surface_GetDesc,
    VertexBuffer_Unlock |-> VertexBuffer_Unlock,
    VertexBuffer_Unlock_heap |-> VertexBuffer_Unlock_heap,
    VertexBuffer_Unlock_reserved |-> VertexBuffer_Unlock_reserved,
    IndexBuffer_Unlock |-> IndexBuffer_Unlock,
    IndexBuffer_Unlock_heap |-> IndexBuffer_Unlock_heap,
    IndexBuffer_Unlock_reserved |-> IndexBuffer_Unlock_reserved,
    Surface_UnlockRect |-> Surface_UnlockRect,
    Surface_UnlockRect_heap |-> Surface_UnlockRect_heap,
    Volume_UnlockBox |-> Volume_UnlockBox, Surface_LockRect |-> Surface_LockRect,
    StateBlock_Capture |-> StateBlock_Capture, StateBlock_Apply |-> StateBlock_Apply,
    Query_Issue |-> Query_Issue, Query_GetData |-> Query_GetData,
    Query_GetData_poll |-> Query_GetData_poll,
    SwapChain_Present |-> SwapChain_Present,
    SwapChain_GetFrontBufferData |-> SwapChain_GetFrontBufferData,
    SwapChain_GetBackBuffer |-> SwapChain_GetBackBuffer ]

-----------------------------------------------------------------------------
(* Cases no method of the client sends any more: reference counts are the  *)
(* client's alone and locks are sent when they end                         *)

LOCAL Refs(table, type) == Pulls(table, {type}, <<>>)
Texture_AddRef == Refs("gpD3DResources", "Texture")
CubeTexture_AddRef == Refs("gpD3DResources", "CubeTexture")
VolumeTexture_AddRef == Refs("gpD3DResources", "VolumeTexture")
VertexBuffer_AddRef == Refs("gpD3DResources", "VertexBuffer")
IndexBuffer_AddRef == Refs("gpD3DResources", "IndexBuffer")
Surface_AddRef == Refs("gpD3DResources", "Surface")
Volume_AddRef == Refs("gpD3DVolumes", "Volume")
VertexDeclaration_AddRef == Refs("gpD3DVertexDeclarations", "VertexDeclaration")
VertexShader_AddRef == Refs("gpD3DVertexShaders", "VertexShader")
PixelShader_AddRef == Refs("gpD3DPixelShaders", "PixelShader")
Volume_Destroy == Erases("gpD3DVolumes", {"Volume"})

Texture_GetLevelCount == Res({"Texture"}, <<W>>)
CubeTexture_GetLevelCount == Res({"CubeTexture"}, <<W>>)
VolumeTexture_GetLevelCount == Res({"VolumeTexture"}, <<W>>)
Volume_GetDesc == Pulls("gpD3DVolumes", {"Volume"}, <<B>>)
VolumeTexture_UnlockBox == Res({"VolumeTexture"}, <<W, B, W>> \o Ws(4) \o <<B>>)
VertexBuffer_Lock == Pulls("none", {}, <<B>>)
IndexBuffer_Lock == Pulls("none", {}, <<B>>)

UnsentObjectHandlers ==
  [ Texture_AddRef |-> Texture_AddRef, CubeTexture_AddRef |-> CubeTexture_AddRef,
    VolumeTexture_AddRef |-> VolumeTexture_AddRef, VertexBuffer_AddRef |-> VertexBuffer_AddRef,
    IndexBuffer_AddRef |-> IndexBuffer_AddRef, Surface_AddRef |-> Surface_AddRef,
    Volume_AddRef |-> Volume_AddRef, VertexDeclaration_AddRef |-> VertexDeclaration_AddRef,
    VertexShader_AddRef |-> VertexShader_AddRef, PixelShader_AddRef |-> PixelShader_AddRef,
    Volume_Destroy |-> Volume_Destroy, Texture_GetLevelCount |-> Texture_GetLevelCount,
    CubeTexture_GetLevelCount |-> CubeTexture_GetLevelCount,
    VolumeTexture_GetLevelCount |-> VolumeTexture_GetLevelCount,
    Volume_GetDesc |-> Volume_GetDesc, VolumeTexture_UnlockBox |-> VolumeTexture_UnlockBox,
    VertexBuffer_Lock |-> VertexBuffer_Lock, IndexBuffer_Lock |-> IndexBuffer_Lock ]

-----------------------------------------------------------------------------
(* Cases that break at once, per interface: the client answers by itself   *)

LOCAL Of(interface, methods) == {interface \o m : m \in methods}
LOCAL PrivateData == {"SetPrivateData", "GetPrivateData", "FreePrivateData"}
LOCAL ResourceMethods == {"GetDevice", "SetPriority", "GetPriority", "PreLoad", "GetType"} \cup PrivateData
LOCAL LODMethods == {"SetLOD", "GetLOD"}
LOCAL MipMethods == {"SetAutoGenFilterType", "GetAutoGenFilterType", "GenerateMipSubLevels"}

StateBlockPassed == Of("StateBlock_", {"QueryInterface", "AddRef", "GetDevice"})
SwapChainPassed ==
  Of("SwapChain_", {"QueryInterface", "AddRef", "GetRasterStatus", "GetDisplayMode", "GetDevice",
                    "GetPresentParameters"})
ResourcePassed ==
  Of("Resource_", {"QueryInterface", "AddRef", "Destroy", "GetDevice", "GetPriority", "GetType"} \cup PrivateData)
VertexDeclarationPassed == Of("VertexDeclaration_", {"QueryInterface", "GetDevice", "GetDeclaration"})
VertexShaderPassed == Of("VertexShader_", {"QueryInterface", "GetDevice", "GetFunction"})
PixelShaderPassed == Of("PixelShader_", {"QueryInterface", "GetDevice", "GetFunction"})
BaseTexturePassed ==
  Of("BaseTexture_", {"QueryInterface", "AddRef", "Destroy", "GetLOD", "GetLevelCount",
                      "GetAutoGenFilterType"} \cup ResourceMethods)
\* UnlockRect asserts that it is never sent
TexturePassed ==
  Of("Texture_", {"QueryInterface", "LockRect", "UnlockRect"}
                   \cup ResourceMethods \cup LODMethods \cup MipMethods)
CubeTexturePassed ==
  Of("CubeTexture_", {"QueryInterface", "LockRect", "UnlockRect"}
                       \cup ResourceMethods \cup LODMethods \cup MipMethods)
VolumeTexturePassed ==
  Of("VolumeTexture_", {"QueryInterface", "LockBox"} \cup ResourceMethods \cup LODMethods \cup MipMethods)
VertexBufferPassed == Of("VertexBuffer_", {"QueryInterface"} \cup ResourceMethods)
IndexBufferPassed == Of("IndexBuffer_", {"QueryInterface"} \cup ResourceMethods)
SurfacePassed == Of("Surface_", {"QueryInterface", "GetContainer", "GetDC", "ReleaseDC"} \cup ResourceMethods)
VolumePassed == Of("Volume_", {"QueryInterface", "GetDevice", "GetContainer", "LockBox"} \cup PrivateData)
QueryPassed == Of("Query_", {"QueryInterface", "AddRef", "GetDevice", "GetType", "GetDataSize"})

ObjectsPassed ==
  StateBlockPassed \cup SwapChainPassed \cup ResourcePassed \cup VertexDeclarationPassed
  \cup VertexShaderPassed \cup PixelShaderPassed \cup BaseTexturePassed \cup TexturePassed
  \cup CubeTexturePassed \cup VolumeTexturePassed \cup VertexBufferPassed \cup IndexBufferPassed
  \cup SurfacePassed \cup VolumePassed \cup QueryPassed

=============================================================================
