---------------------------- MODULE ServerDevice ----------------------------
(***************************************************************************)
(* The handlers of the server's command switch for the commands of         *)
(* IDirect3DDevice9Ex (server/main.cpp, ProcessDeviceCommandQueue), each   *)
(* as what it pulls, which tables it reads and writes, and what it         *)
(* answers.  The result of the D3D9 call behind it is success or failure,  *)
(* chosen in module Calls.                                                 *)
(***************************************************************************)
EXTENDS Wire

LOCAL Dev(items) == Pulls("gpD3DDevices", {"Device"}, items)
LOCAL DevAck(items) == Acks("gpD3DDevices", {"Device"}, items)
LOCAL DevReply(items, payload) == Replies("gpD3DDevices", {"Device"}, items, payload)
LOCAL Res(types) == In("gpD3DResources", types)
LOCAL S == {"Surface"}

\* SEND_OPTIONAL_CREATE_FUNCTION_SERVER_RESPONSE after the entry
LOCAL DevCreate(items, table, type) ==
  Enters([Dev(items) EXCEPT !.answers = "create"], table, type)
LOCAL DevResource(items, type) == DevCreate(items, "gpD3DResources", type)

-----------------------------------------------------------------------------
(* Objects *)

CreateTexture == DevResource(Ws(6) \o <<New>>, "Texture")
CreateVolumeTexture == DevResource(Ws(7) \o <<New>>, "VolumeTexture")
CreateCubeTexture == DevResource(Ws(5) \o <<New>>, "CubeTexture")
CreateVertexBuffer == DevResource(Ws(4) \o <<New>>, "VertexBuffer")
CreateIndexBuffer == DevResource(Ws(4) \o <<New>>, "IndexBuffer")
CreateRenderTarget == DevResource(Ws(6) \o <<New>>, "Surface")
CreateRenderTargetEx == DevResource(Ws(7) \o <<New>>, "Surface")
CreateDepthStencilSurface == DevResource(Ws(6) \o <<New>>, "Surface")
CreateDepthStencilSurfaceEx == DevResource(Ws(7) \o <<New>>, "Surface")
CreateOffscreenPlainSurface == DevResource(Ws(4) \o <<New>>, "Surface")
CreateOffscreenPlainSurfaceEx == DevResource(Ws(5) \o <<New>>, "Surface")
CreateAdditionalSwapChain == DevCreate(<<New, B>>, "gpD3DSwapChains", "SwapChain")
CreateStateBlock == DevCreate(<<W, New>>, "gpD3DStateBlocks", "StateBlock")
\* Mutant: entered in the table of the vertex shaders
DeclarationMisfiled ==
  DevCreate(<<W, B, New>>, "gpD3DVertexShaders", "VertexDeclaration")
CreateVertexDeclaration ==
  DevCreate(<<W, B, New>>, "gpD3DVertexDeclarations", "VertexDeclaration")
CreateVertexShader == DevCreate(<<New, W, B>>, "gpD3DVertexShaders", "VertexShader")
CreatePixelShader == DevCreate(<<New, W, B>>, "gpD3DPixelShaders", "PixelShader")
CreateQuery == Enters(Dev(<<W, New>>), "gpD3DQuery", "Query")
BeginStateBlock == DevAck(<<>>)
EndStateBlock == Enters(DevAck(<<New>>), "gpD3DStateBlocks", "StateBlock")

\* The device's handle is in the header
LOCAL DeviceOf(items) ==
  Enters(Replies("none", {}, items, <<>>), "gpD3DDevices", "Device")
CreateDevice == DeviceOf(Ws(4) \o <<B>>)
CreateDeviceEx == DeviceOf(Ws(4) \o <<B, B>>)
Device_Destroy == Erases("gpD3DDevices", {"Device"})
Reset == DevAck(<<B>>)
ResetEx == DevAck(<<B, B>>)

\* The handles of the implicit objects are entered without an answer
LinkSwapchain == Enters(Dev(<<New>>), "gpD3DSwapChains", "SwapChain")
LinkBackBuffer == Enters(Dev(<<W, New>>), "gpD3DResources", "Surface")
LinkAutoDepthStencil == Enters(Dev(<<New>>), "gpD3DResources", "Surface")

-----------------------------------------------------------------------------
(* Questions *)

GetAvailableTextureMem == DevReply(<<>>, <<>>)
ShowCursor == DevReply(<<W>>, <<>>)
CheckDeviceState == DevReply(<<W>>, <<>>)
SetSoftwareVertexProcessing == DevReply(<<W>>, <<>>)
GetDeviceCaps == DevReply(<<>>, <<B>>)
GetDisplayMode == DevReply(<<W>>, <<B>>)
GetDisplayModeEx == DevReply(<<W>>, <<B, B>>)

\* ReturnSurfaceDataToClient
ReturnSurfaceData == <<W, W, W, B>>
GetRenderTargetData == DevReply(<<Res(S), Res(S)>>, ReturnSurfaceData)
GetFrontBufferData == DevReply(<<W, Res(S)>>, ReturnSurfaceData)
GetDirect3D == Dev(<<>>)
GetSwapChain == Dev(<<W>>)
GetNumberOfSwapChains == Dev(<<W>>)
GetGammaRamp == Dev(<<W>>)
GetRenderTarget == Enters(DevAck(<<W, New>>), "gpD3DResources", "Surface")
GetDepthStencilSurface == Enters(DevAck(<<New>>), "gpD3DResources", "Surface")

-----------------------------------------------------------------------------
(* Setters *)

SetCursorProperties == DevAck(<<W, W, Res(S)>>)
SetCursorPosition == Dev(Ws(3))
SetDialogBoxMode == DevAck(<<W>>)
SetGammaRamp == Dev(<<W, W, B>>)
SetRenderTarget == DevAck(<<W, Res(S)>>)
SetDepthStencilSurface == DevAck(<<Res(S)>>)
SetTransform == DevAck(<<W, B>>)
SetViewport == DevAck(<<B>>)
SetMaterial == DevAck(<<B>>)
SetLight == DevAck(<<W, B>>)
LightEnable == DevAck(<<W, W>>)
SetClipPlane == DevAck(<<W, B>>)
SetRenderState == DevAck(<<W, W>>)
SetTexture == DevAck(<<W, Res(Textures)>>)
SetTextureStageState == DevAck(Ws(3))
SetSamplerState == DevAck(Ws(3))
SetScissorRect == DevAck(<<B>>)
SetNPatchMode == DevAck(<<B>>)
SetVertexDeclaration ==
  DevAck(<<In("gpD3DVertexDeclarations", {"VertexDeclaration"})>>)
SetFVF == DevAck(<<W>>)
SetVertexShader == DevAck(<<In("gpD3DVertexShaders", {"VertexShader"})>>)
SetPixelShader == DevAck(<<In("gpD3DPixelShaders", {"PixelShader"})>>)
SetVertexShaderConstantF == DevAck(<<W, W, B>>)
SetVertexShaderConstantI == DevAck(<<W, W, B>>)
SetVertexShaderConstantB == DevAck(<<W, W, B>>)
SetPixelShaderConstantF == DevAck(<<W, W, B>>)
SetPixelShaderConstantI == DevAck(<<W, W, B>>)
SetPixelShaderConstantB == DevAck(<<W, W, B>>)
SetStreamSource == DevAck(<<W, Res({"VertexBuffer"}), W, W>>)
SetStreamSourceFreq == DevAck(<<W, W>>)
SetIndices == DevAck(<<Res({"IndexBuffer"})>>)
SetConvolutionMonoKernel == DevAck(<<W, W, B, B>>)
StateBatch == Dev(<<B>>)

-----------------------------------------------------------------------------
(* Drawing and copying *)

EvictManagedResources == DevAck(<<>>)
BeginScene == DevAck(<<>>)
EndScene == DevAck(<<>>)
Clear == DevAck(<<W, W, B, W, B, B>>)
DrawPrimitive == DevAck(Ws(3))
DrawIndexedPrimitive == DevAck(Ws(6))
DrawPrimitiveUP == DevAck(<<W, W, B, W>>)
DrawIndexedPrimitiveUP == DevAck(Ws(6) \o <<B, B>>)
ProcessVertices ==
  DevAck(Ws(3) \o <<Res({"VertexBuffer"}),
                    In("gpD3DVertexDeclarations", {"VertexDeclaration"}), W>>)
UpdateSurface == DevAck(<<Res(S), B, Res(S), B>>)
UpdateTexture == DevAck(<<Res(Textures), Res(Textures)>>)
StretchRect == DevAck(<<Res(S), B, Res(S), B, W>>)
ColorFill == DevAck(<<Res(S), B, B>>)
ComposeRects ==
  DevAck(<<Res(S), Res(S), Res({"VertexBuffer"}), Res({"VertexBuffer"})>> \o Ws(4))

DeviceHandlers ==
  [ CreateTexture |-> CreateTexture, CreateVolumeTexture |-> CreateVolumeTexture,
    CreateCubeTexture |-> CreateCubeTexture,
    CreateVertexBuffer |-> CreateVertexBuffer,
    CreateIndexBuffer |-> CreateIndexBuffer,
    CreateRenderTarget |-> CreateRenderTarget,
    CreateRenderTargetEx |-> CreateRenderTargetEx,
    CreateDepthStencilSurface |-> CreateDepthStencilSurface,
    CreateDepthStencilSurfaceEx |-> CreateDepthStencilSurfaceEx,
    CreateOffscreenPlainSurface |-> CreateOffscreenPlainSurface,
    CreateOffscreenPlainSurfaceEx |-> CreateOffscreenPlainSurfaceEx,
    CreateAdditionalSwapChain |-> CreateAdditionalSwapChain,
    CreateStateBlock |-> CreateStateBlock,
    CreateVertexDeclaration |-> CreateVertexDeclaration,
    CreateVertexShader |-> CreateVertexShader,
    CreatePixelShader |-> CreatePixelShader, CreateQuery |-> CreateQuery,
    BeginStateBlock |-> BeginStateBlock, EndStateBlock |-> EndStateBlock,
    CreateDevice |-> CreateDevice, CreateDeviceEx |-> CreateDeviceEx,
    Device_Destroy |-> Device_Destroy, Reset |-> Reset, ResetEx |-> ResetEx,
    LinkSwapchain |-> LinkSwapchain, LinkBackBuffer |-> LinkBackBuffer,
    LinkAutoDepthStencil |-> LinkAutoDepthStencil,
    GetAvailableTextureMem |-> GetAvailableTextureMem, ShowCursor |-> ShowCursor,
    CheckDeviceState |-> CheckDeviceState,
    SetSoftwareVertexProcessing |-> SetSoftwareVertexProcessing,
    GetDeviceCaps |-> GetDeviceCaps,
    GetDisplayMode |-> GetDisplayMode, GetDisplayModeEx |-> GetDisplayModeEx,
    GetRenderTargetData |-> GetRenderTargetData,
    GetFrontBufferData |-> GetFrontBufferData, GetDirect3D |-> GetDirect3D,
    GetSwapChain |-> GetSwapChain, GetNumberOfSwapChains |-> GetNumberOfSwapChains,
    GetGammaRamp |-> GetGammaRamp, GetRenderTarget |-> GetRenderTarget,
    GetDepthStencilSurface |-> GetDepthStencilSurface,
    SetCursorProperties |-> SetCursorProperties,
    SetCursorPosition |-> SetCursorPosition, SetDialogBoxMode |-> SetDialogBoxMode,
    SetGammaRamp |-> SetGammaRamp, SetRenderTarget |-> SetRenderTarget,
    SetDepthStencilSurface |-> SetDepthStencilSurface, SetTransform |-> SetTransform,
    SetViewport |-> SetViewport, SetMaterial |-> SetMaterial, SetLight |-> SetLight,
    LightEnable |-> LightEnable, SetClipPlane |-> SetClipPlane,
    SetRenderState |-> SetRenderState, SetTexture |-> SetTexture,
    SetTextureStageState |-> SetTextureStageState,
    SetSamplerState |-> SetSamplerState, SetScissorRect |-> SetScissorRect,
    SetNPatchMode |-> SetNPatchMode, SetVertexDeclaration |-> SetVertexDeclaration,
    SetFVF |-> SetFVF, SetVertexShader |-> SetVertexShader,
    SetPixelShader |-> SetPixelShader,
    SetVertexShaderConstantF |-> SetVertexShaderConstantF,
    SetVertexShaderConstantI |-> SetVertexShaderConstantI,
    SetVertexShaderConstantB |-> SetVertexShaderConstantB,
    SetPixelShaderConstantF |-> SetPixelShaderConstantF,
    SetPixelShaderConstantI |-> SetPixelShaderConstantI,
    SetPixelShaderConstantB |-> SetPixelShaderConstantB,
    SetStreamSource |-> SetStreamSource, SetStreamSourceFreq |-> SetStreamSourceFreq,
    SetIndices |-> SetIndices, SetConvolutionMonoKernel |-> SetConvolutionMonoKernel,
    StateBatch |-> StateBatch, EvictManagedResources |-> EvictManagedResources,
    BeginScene |-> BeginScene, EndScene |-> EndScene, Clear |-> Clear,
    DrawPrimitive |-> DrawPrimitive, DrawIndexedPrimitive |-> DrawIndexedPrimitive,
    DrawPrimitiveUP |-> DrawPrimitiveUP,
    DrawIndexedPrimitiveUP |-> DrawIndexedPrimitiveUP,
    ProcessVertices |-> ProcessVertices, UpdateSurface |-> UpdateSurface,
    UpdateTexture |-> UpdateTexture, StretchRect |-> StretchRect,
    ColorFill |-> ColorFill, ComposeRects |-> ComposeRects ]

-----------------------------------------------------------------------------
(* Cases no method of the client sends any more                            *)

TestCooperativeLevel == Dev(<<>>)
\* The present of a swap chain is sent in its place
Present == Dev(<<B, B, W, B>>)
GetBackBuffer == Enters(Dev(<<W, W, New>>), "gpD3DResources", "Surface")
WaitForVBlank == Dev(<<W>>)

UnsentDeviceHandlers ==
  [ TestCooperativeLevel |-> TestCooperativeLevel, Present |-> Present,
    GetBackBuffer |-> GetBackBuffer, WaitForVBlank |-> WaitForVBlank ]

(* Cases that break at once: the client answers by itself, from the state  *)
(* it keeps                                                                *)

IdentityPassed == {"Device_QueryInterface", "Device_AddRef", "GetCreationParameters", "GetRasterStatus"}
TransformPassed == {"GetTransform", "MultiplyTransform"}
StatePassed ==
  {"GetViewport", "GetMaterial", "GetLight", "GetLightEnable", "GetClipPlane", "GetRenderState",
   "GetTexture", "GetTextureStageState", "GetSamplerState", "GetScissorRect",
   "GetSoftwareVertexProcessing", "GetNPatchMode", "GetVertexDeclaration", "GetFVF", "GetStreamSource",
   "GetStreamSourceFreq", "GetIndices"}
ShaderPassed ==
  {"GetVertexShader", "GetPixelShader"}
  \cup {"GetVertexShaderConstant" \o k : k \in {"F", "I", "B"}}
  \cup {"GetPixelShaderConstant" \o k : k \in {"F", "I", "B"}}
ClipStatusPassed == {"SetClipStatus", "GetClipStatus"}
PalettePassed ==
  {"ValidateDevice", "SetPaletteEntries", "GetPaletteEntries", "SetCurrentTexturePalette",
   "GetCurrentTexturePalette"}
PatchPassed == {"DrawRectPatch", "DrawTriPatch", "DeletePatch"}

\* No case of their own
DefaultPassed ==
  {"PresentEx", "GetGPUThreadPriority", "SetGPUThreadPriority", "CheckResourceResidency",
   "SetMaximumFrameLatency", "GetMaximumFrameLatency"}

DevicePassed ==
  IdentityPassed \cup TransformPassed \cup StatePassed \cup ShaderPassed \cup ClipStatusPassed
  \cup PalettePassed \cup PatchPassed \cup DefaultPassed

=============================================================================
