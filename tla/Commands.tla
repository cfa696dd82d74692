------------------------------ MODULE Commands ------------------------------
(***************************************************************************)
(* The commands of the bridge (util/util_commands.h, enum D3D9Command):    *)
(* for every interface its methods, in the order of the enumeration.  An   *)
(* interface repeats the methods of the one it derives from.  A command is *)
(* named Interface_Method, a command of the device by its method alone.    *)
(***************************************************************************)
EXTENDS Sequences, SequencesExt

Bridge ==
  <<"Terminate", "Invalid", "Syn", "Ack", "Continue", "Any", "Response", "DebugMessage">>
RemixApi ==
  <<"CreateMaterial", "DestroyMaterial", "CreateMesh", "DestroyMesh", "DrawInstance", "CreateLight",
    "DestroyLight", "DrawLightInstance", "SetConfigVariable", "CreateD3D9", "RegisterDevice">>
SharedHeap == <<"SharedHeap_AddSeg", "SharedHeap_Alloc", "SharedHeap_Dealloc">>
Unlink == <<"UnlinkResource", "UnlinkVolumeResource">>
Link == <<"LinkSwapchain", "LinkBackBuffer", "LinkAutoDepthStencil">>

LOCAL Unknown == <<"QueryInterface", "AddRef", "Destroy">>

IDirect3D9Ex == Unknown \o
  <<"RegisterSoftwareDevice", "GetAdapterCount", "GetAdapterIdentifier", "GetAdapterModeCount",
    "EnumAdapterModes", "GetAdapterDisplayMode", "CheckDeviceType", "CheckDeviceFormat",
    "CheckDeviceMultiSampleType", "CheckDepthStencilMatch", "CheckDeviceFormatConversion", "GetDeviceCaps",
    "GetAdapterMonitor", "CreateDevice", "GetAdapterModeCountEx", "EnumAdapterModesEx",
    "GetAdapterDisplayModeEx", "CreateDeviceEx", "GetAdapterLUID">>

IDirect3DDevice9Ex == Unknown \o
  <<"TestCooperativeLevel", "GetAvailableTextureMem", "EvictManagedResources", "GetDirect3D", "GetDeviceCaps",
    "GetDisplayMode", "GetCreationParameters", "SetCursorProperties", "SetCursorPosition", "ShowCursor",
    "CreateAdditionalSwapChain", "GetSwapChain", "GetNumberOfSwapChains", "Reset", "Present", "GetBackBuffer",
    "GetRasterStatus", "SetDialogBoxMode", "SetGammaRamp", "GetGammaRamp", "CreateTexture",
    "CreateVolumeTexture", "CreateCubeTexture", "CreateVertexBuffer", "CreateIndexBuffer",
    "CreateRenderTarget", "CreateDepthStencilSurface", "UpdateSurface", "UpdateTexture",
    "GetRenderTargetData", "GetFrontBufferData", "StretchRect", "ColorFill", "CreateOffscreenPlainSurface",
    "SetRenderTarget", "GetRenderTarget", "SetDepthStencilSurface", "GetDepthStencilSurface", "BeginScene",
    "EndScene", "Clear", "SetTransform", "GetTransform", "MultiplyTransform", "SetViewport", "GetViewport",
    "SetMaterial", "GetMaterial", "SetLight", "GetLight", "LightEnable", "GetLightEnable", "SetClipPlane",
    "GetClipPlane", "SetRenderState", "GetRenderState", "CreateStateBlock", "BeginStateBlock",
    "EndStateBlock", "SetClipStatus", "GetClipStatus", "GetTexture", "SetTexture", "GetTextureStageState",
    "SetTextureStageState", "GetSamplerState", "SetSamplerState", "ValidateDevice", "SetPaletteEntries",
    "GetPaletteEntries", "SetCurrentTexturePalette", "GetCurrentTexturePalette", "SetScissorRect",
    "GetScissorRect", "SetSoftwareVertexProcessing", "GetSoftwareVertexProcessing", "SetNPatchMode",
    "GetNPatchMode", "DrawPrimitive", "DrawIndexedPrimitive", "DrawPrimitiveUP", "DrawIndexedPrimitiveUP",
    "ProcessVertices", "CreateVertexDeclaration", "SetVertexDeclaration", "GetVertexDeclaration", "SetFVF",
    "GetFVF", "CreateVertexShader", "SetVertexShader", "GetVertexShader", "SetVertexShaderConstantF",
    "GetVertexShaderConstantF", "SetVertexShaderConstantI", "GetVertexShaderConstantI",
    "SetVertexShaderConstantB", "GetVertexShaderConstantB", "SetStreamSource", "GetStreamSource",
    "SetStreamSourceFreq", "GetStreamSourceFreq", "SetIndices", "GetIndices", "CreatePixelShader",
    "SetPixelShader", "GetPixelShader", "SetPixelShaderConstantF", "GetPixelShaderConstantF",
    "SetPixelShaderConstantI", "GetPixelShaderConstantI", "SetPixelShaderConstantB",
    "GetPixelShaderConstantB", "DrawRectPatch", "DrawTriPatch", "DeletePatch", "CreateQuery",
    "SetConvolutionMonoKernel", "ComposeRects", "PresentEx", "GetGPUThreadPriority", "SetGPUThreadPriority",
    "WaitForVBlank", "CheckResourceResidency", "SetMaximumFrameLatency", "GetMaximumFrameLatency",
    "CheckDeviceState", "CreateRenderTargetEx", "CreateOffscreenPlainSurfaceEx",
    "CreateDepthStencilSurfaceEx", "ResetEx", "GetDisplayModeEx">>
StateBatch == <<"StateBatch">>

IDirect3DStateBlock9 == Unknown \o <<"GetDevice", "Capture", "Apply">>
IDirect3DSwapChain9 == Unknown \o
  <<"Present", "GetFrontBufferData", "GetBackBuffer", "GetRasterStatus", "GetDisplayMode", "GetDevice",
    "GetPresentParameters">>
IDirect3DResource9 == Unknown \o
  <<"GetDevice", "SetPrivateData", "GetPrivateData", "FreePrivateData", "SetPriority", "GetPriority",
    "PreLoad", "GetType">>
IDirect3DVertexDeclaration9 == Unknown \o <<"GetDevice", "GetDeclaration">>
IDirect3DVertexShader9 == Unknown \o <<"GetDevice", "GetFunction">>
IDirect3DPixelShader9 == Unknown \o <<"GetDevice", "GetFunction">>
IDirect3DBaseTexture9 == IDirect3DResource9 \o
  <<"SetLOD", "GetLOD", "GetLevelCount", "SetAutoGenFilterType", "GetAutoGenFilterType",
    "GenerateMipSubLevels">>
IDirect3DTexture9 == IDirect3DBaseTexture9 \o
  <<"GetLevelDesc", "GetSurfaceLevel", "LockRect", "UnlockRect", "AddDirtyRect">>
IDirect3DVolumeTexture9 == IDirect3DBaseTexture9 \o
  <<"GetLevelDesc", "GetVolumeLevel", "LockBox", "UnlockBox", "AddDirtyBox">>
IDirect3DCubeTexture9 == IDirect3DBaseTexture9 \o
  <<"GetLevelDesc", "GetCubeMapSurface", "LockRect", "UnlockRect", "AddDirtyRect">>
IDirect3DVertexBuffer9 == IDirect3DResource9 \o <<"Lock", "Unlock", "GetDesc">>
IDirect3DIndexBuffer9 == IDirect3DResource9 \o <<"Lock", "Unlock", "GetDesc">>
IDirect3DSurface9 == IDirect3DResource9 \o
  <<"GetContainer", "GetDesc", "LockRect", "UnlockRect", "GetDC", "ReleaseDC">>
IDirect3DVolume9 == Unknown \o
  <<"GetDevice", "SetPrivateData", "GetPrivateData", "FreePrivateData", "GetContainer", "GetDesc", "LockBox",
    "UnlockBox">>
IDirect3DQuery9 == Unknown \o <<"GetDevice", "GetType", "GetDataSize", "Issue", "GetData">>

LOCAL Named(prefix, methods) == {prefix \o m : m \in ToSet(methods)}

(* What the two switches of the server may be asked to do.  A method the    *)
(* module or the device shares with another interface carries its own.      *)
ModuleCommands ==
  LET shared == ToSet(Unknown) \cup {"GetDeviceCaps"} IN
  (ToSet(IDirect3D9Ex) \ shared) \cup {"Module_" \o m : m \in shared}

ObjectCommands ==
  Named("StateBlock_", IDirect3DStateBlock9) \cup Named("SwapChain_", IDirect3DSwapChain9)
  \cup Named("Resource_", IDirect3DResource9) \cup Named("VertexDeclaration_", IDirect3DVertexDeclaration9)
  \cup Named("VertexShader_", IDirect3DVertexShader9) \cup Named("PixelShader_", IDirect3DPixelShader9)
  \cup Named("BaseTexture_", IDirect3DBaseTexture9) \cup Named("Texture_", IDirect3DTexture9)
  \cup Named("VolumeTexture_", IDirect3DVolumeTexture9) \cup Named("CubeTexture_", IDirect3DCubeTexture9)
  \cup Named("VertexBuffer_", IDirect3DVertexBuffer9) \cup Named("IndexBuffer_", IDirect3DIndexBuffer9)
  \cup Named("Surface_", IDirect3DSurface9) \cup Named("Volume_", IDirect3DVolume9)
  \cup Named("Query_", IDirect3DQuery9) \cup ToSet(Unlink)

DeviceCommands ==
  (ToSet(IDirect3DDevice9Ex) \ ToSet(Unknown)) \cup Named("Device_", Unknown) \cup ToSet(Link \o StateBatch)

ApiCommands == Named("remixapi_", RemixApi)
=============================================================================
