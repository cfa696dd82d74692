---------------------------- MODULE ClientDevice ----------------------------
(***************************************************************************)
(* The methods of the client's IDirect3DDevice9Ex that reach the server,   *)
(* each as what it puts on the bridge (d3d9_device.cpp; the names are the  *)
(* methods').  A call that is refused before anything is sent (a null      *)
(* argument, an index out of range, a setter elided because the value is   *)
(* already there) puts nothing on it and is a stuttering step; the shadow  *)
(* state the setters keep is the subject of module DeviceState.            *)
(***************************************************************************)
EXTENDS Wire

LOCAL D == {"Device"}
LOCAL S == {"Surface"}

-----------------------------------------------------------------------------
(* Objects *)

CreateTexture == Creates(Ws(6) \o <<New>>, "Texture")
CreateVolumeTexture == Creates(Ws(7) \o <<New>>, "VolumeTexture")
CreateCubeTexture == Creates(Ws(5) \o <<New>>, "CubeTexture")
CreateVertexBuffer == Creates(Ws(4) \o <<New>>, "VertexBuffer")
CreateIndexBuffer == Creates(Ws(4) \o <<New>>, "IndexBuffer")
CreateRenderTarget == Creates(Ws(6) \o <<New>>, "Surface")
CreateRenderTargetEx == Creates(Ws(7) \o <<New>>, "Surface")
CreateDepthStencilSurface == Creates(Ws(6) \o <<New>>, "Surface")
CreateDepthStencilSurfaceEx == Creates(Ws(7) \o <<New>>, "Surface")
CreateOffscreenPlainSurface == Creates(Ws(4) \o <<New>>, "Surface")
CreateOffscreenPlainSurfaceEx == Creates(Ws(5) \o <<New>>, "Surface")
CreateAdditionalSwapChain == Creates(<<New, B>>, "SwapChain")
CreateStateBlock == Creates(<<W, New>>, "StateBlock")
CreateVertexDeclaration == Creates(<<W, B, New>>, "VertexDeclaration")
CreateVertexShader == Creates(<<New, W, B>>, "VertexShader")
CreatePixelShader == Creates(<<New, W, B>>, "PixelShader")

\* The client makes the query and waits for nothing
CreateQuery == [Sends(D, <<W, New>>) EXCEPT !.makes = "Query"]

\* The recorded block is made here; BeginStateBlock only told the server to record
BeginStateBlock == Optional(D, <<>>)
EndStateBlock == [Optional(D, <<New>>) EXCEPT !.makes = "StateBlock"]

-----------------------------------------------------------------------------
(* Questions *)

GetAvailableTextureMem == Asks(D, <<>>, <<>>)
ShowCursor == Asks(D, <<W>>, <<>>)
CheckDeviceState == Asks(D, <<W>>, <<>>)
SetSoftwareVertexProcessing == Asks(D, <<W>>, <<>>)
internalGetDeviceCaps == [Asks(D, <<>>, <<B>>) EXCEPT !.command = "GetDeviceCaps"]
GetDisplayMode == Asks(D, <<W>>, <<B>>)
GetDisplayModeEx == Asks(D, <<W>>, <<B, B>>)
GetRenderTargetData == CopiesSurface(D, <<Obj(S), Obj(S)>>)
GetFrontBufferData == CopiesSurface(D, <<W, Obj(S)>>)

GetDirect3D == ReadOnly(D, <<>>)
GetSwapChain == ReadOnly(D, <<W>>)
GetNumberOfSwapChains == ReadOnly(D, <<W>>)
GetGammaRamp == ReadOnly(D, <<W>>)

\* The surface is the client's own; the command re-enters it at the server
GetRenderTarget == Optional(D, <<W, Obj(S)>>)
GetDepthStencilSurface == Optional(D, <<Obj(S)>>)

\* With no depth stencil bound the branch that sends the command is not taken,
\* and the wait after it is
GetDepthStencilSurface_none == [Optional(D, <<>>) EXCEPT !.silent = TRUE]

-----------------------------------------------------------------------------
(* Setters *)

SetCursorProperties == Optional(D, <<W, W, Obj(S)>>)
SetCursorPosition == Sends(D, Ws(3))
SetDialogBoxMode == Optional(D, <<W>>)
SetGammaRamp == Sends(D, <<W, W, B>>)
SetRenderTarget == Optional(D, <<W, ObjOrNull(S)>>)
SetDepthStencilSurface == Optional(D, <<ObjOrNull(S)>>)
SetTransform == Optional(D, <<W, B>>)
SetViewport == Optional(D, <<B>>)
SetMaterial == Optional(D, <<B>>)
SetLight == Optional(D, <<W, B>>)
LightEnable == Optional(D, <<W, W>>)
SetClipPlane == Optional(D, <<W, B>>)
SetRenderState == Optional(D, <<W, W>>)
SetTexture == Optional(D, <<W, ObjOrNull(Textures)>>)
SetTextureStageState == Optional(D, Ws(3))
SetSamplerState == Optional(D, Ws(3))
SetScissorRect == Optional(D, <<B>>)
SetNPatchMode == Optional(D, <<B>>)
SetVertexDeclaration == Optional(D, <<ObjOrNull({"VertexDeclaration"})>>)
SetFVF == Optional(D, <<W>>)
SetVertexShader == Optional(D, <<ObjOrNull({"VertexShader"})>>)
SetPixelShader == Optional(D, <<ObjOrNull({"PixelShader"})>>)
SetVertexShaderConstantF == Optional(D, <<W, W, B>>)
SetVertexShaderConstantI == Optional(D, <<W, W, B>>)
SetVertexShaderConstantB == Optional(D, <<W, W, B>>)
SetPixelShaderConstantF == Optional(D, <<W, W, B>>)
SetPixelShaderConstantI == Optional(D, <<W, W, B>>)
SetPixelShaderConstantB == Optional(D, <<W, W, B>>)
SetStreamSource == Optional(D, <<W, ObjOrNull({"VertexBuffer"}), W, W>>)
SetStreamSourceFreq == Optional(D, <<W, W>>)
SetIndices == Optional(D, <<ObjOrNull({"IndexBuffer"})>>)
SetConvolutionMonoKernel == Optional(D, <<W, W, B, B>>)

\* flushStateBatch: the setters of a batch travel as one block
StateBatch == Sends(D, <<B>>)

-----------------------------------------------------------------------------
(* Drawing and copying *)

EvictManagedResources == Optional(D, <<>>)
BeginScene == Optional(D, <<>>)
EndScene == Optional(D, <<>>)
Clear == Optional(D, <<W, W, B, W, BOrNull, B>>)
DrawPrimitive == Optional(D, Ws(3))
DrawIndexedPrimitive == Optional(D, Ws(6))
DrawPrimitiveUP == Optional(D, <<W, W, B, W>>)
DrawIndexedPrimitiveUP == Optional(D, Ws(6) \o <<B, B>>)
ProcessVertices ==
  Optional(D, Ws(3) \o <<Obj({"VertexBuffer"}), Obj({"VertexDeclaration"}), W>>)
UpdateSurface == Optional(D, <<Obj(S), BOrNull, Obj(S), BOrNull>>)
UpdateTextureImpl(type) ==
  [Optional(D, <<Obj({type}), Obj({type})>>) EXCEPT !.command = "UpdateTexture"]

\* One instance for each type a texture may have; both have the same
UpdateTexture == [type \in Textures |-> UpdateTextureImpl(type)]
StretchRect == Optional(D, <<Obj(S), BOrNull, Obj(S), BOrNull, W>>)
ColorFill == Optional(D, <<Obj(S), BOrNull, B>>)
ComposeRects ==
  Optional(D, <<Obj(S), Obj(S), ObjOrNull({"VertexBuffer"}),
                ObjOrNull({"VertexBuffer"})>> \o Ws(4))

-----------------------------------------------------------------------------
(* Steps of methods that send several commands (module Calls) *)

CreateDevice == [Asks({"Module"}, Ws(4) \o <<B>>, <<>>) EXCEPT !.makes = "Device"]
CreateDeviceEx ==
  [Asks({"Module"}, Ws(4) \o <<BOrNull, B>>, <<>>) EXCEPT !.makes = "Device"]
Reset == Optional(D, <<B>>)
ResetEx == Optional(D, <<B, BOrNull>>)
LinkSwapchain == [Sends(D, <<New>>) EXCEPT !.makes = "SwapChain"]
LinkBackBuffer == [Sends(D, <<W, New>>) EXCEPT !.makes = "Surface"]
LinkAutoDepthStencil == [Sends(D, <<New>>) EXCEPT !.makes = "Surface"]
Device_Destroy == Destroys(D, <<>>)

\* The methods a game calls for their own sake
DeviceMethods ==
  [ CreateTexture |-> CreateTexture, CreateVolumeTexture |-> CreateVolumeTexture,
    CreateCubeTexture |-> CreateCubeTexture, CreateVertexBuffer |-> CreateVertexBuffer,
    CreateIndexBuffer |-> CreateIndexBuffer, CreateRenderTarget |-> CreateRenderTarget,
    CreateRenderTargetEx |-> CreateRenderTargetEx,
    CreateDepthStencilSurface |-> CreateDepthStencilSurface,
    CreateDepthStencilSurfaceEx |-> CreateDepthStencilSurfaceEx,
    CreateOffscreenPlainSurface |-> CreateOffscreenPlainSurface,
    CreateOffscreenPlainSurfaceEx |-> CreateOffscreenPlainSurfaceEx,
    CreateStateBlock |-> CreateStateBlock,
    CreateVertexDeclaration |-> CreateVertexDeclaration,
    CreateVertexShader |-> CreateVertexShader, CreatePixelShader |-> CreatePixelShader,
    CreateQuery |-> CreateQuery, BeginStateBlock |-> BeginStateBlock,
    EndStateBlock |-> EndStateBlock, GetAvailableTextureMem |-> GetAvailableTextureMem,
    ShowCursor |-> ShowCursor, CheckDeviceState |-> CheckDeviceState,
    SetSoftwareVertexProcessing |-> SetSoftwareVertexProcessing,
    internalGetDeviceCaps |-> internalGetDeviceCaps, GetDisplayMode |-> GetDisplayMode,
    GetDisplayModeEx |-> GetDisplayModeEx, GetRenderTargetData |-> GetRenderTargetData,
    GetFrontBufferData |-> GetFrontBufferData, GetDirect3D |-> GetDirect3D,
    GetSwapChain |-> GetSwapChain, GetNumberOfSwapChains |-> GetNumberOfSwapChains,
    GetGammaRamp |-> GetGammaRamp, GetRenderTarget |-> GetRenderTarget,
    GetDepthStencilSurface |-> GetDepthStencilSurface,
    GetDepthStencilSurface_none |-> GetDepthStencilSurface_none,
    SetCursorProperties |-> SetCursorProperties, SetCursorPosition |-> SetCursorPosition,
    SetDialogBoxMode |-> SetDialogBoxMode, SetGammaRamp |-> SetGammaRamp,
    SetRenderTarget |-> SetRenderTarget, SetDepthStencilSurface |-> SetDepthStencilSurface,
    SetTransform |-> SetTransform, SetViewport |-> SetViewport,
    SetMaterial |-> SetMaterial, SetLight |-> SetLight, LightEnable |-> LightEnable,
    SetClipPlane |-> SetClipPlane, SetRenderState |-> SetRenderState,
    SetTexture |-> SetTexture, SetTextureStageState |-> SetTextureStageState,
    SetSamplerState |-> SetSamplerState, SetScissorRect |-> SetScissorRect,
    SetNPatchMode |-> SetNPatchMode, SetVertexDeclaration |-> SetVertexDeclaration,
    SetFVF |-> SetFVF, SetVertexShader |-> SetVertexShader,
    SetPixelShader |-> SetPixelShader,
    SetVertexShaderConstantF |-> SetVertexShaderConstantF,
    SetVertexShaderConstantI |-> SetVertexShaderConstantI,
    SetVertexShaderConstantB |-> SetVertexShaderConstantB,
    SetPixelShaderConstantF |-> SetPixelShaderConstantF,
    SetPixelShaderConstantI |-> SetPixelShaderConstantI,
    SetPixelShaderConstantB |-> SetPixelShaderConstantB,
    SetStreamSource |-> SetStreamSource, SetStreamSourceFreq |-> SetStreamSourceFreq,
    SetIndices |-> SetIndices, SetConvolutionMonoKernel |-> SetConvolutionMonoKernel,
    StateBatch |-> StateBatch, EvictManagedResources |-> EvictManagedResources,
    BeginScene |-> BeginScene, EndScene |-> EndScene, Clear |-> Clear,
    DrawPrimitive |-> DrawPrimitive, DrawIndexedPrimitive |-> DrawIndexedPrimitive,
    DrawPrimitiveUP |-> DrawPrimitiveUP,
    DrawIndexedPrimitiveUP |-> DrawIndexedPrimitiveUP,
    ProcessVertices |-> ProcessVertices, UpdateSurface |-> UpdateSurface,
    UpdateTexture_Texture |-> UpdateTexture["Texture"], UpdateTexture_Cube |-> UpdateTexture["CubeTexture"],
    UpdateTexture_Volume |-> UpdateTexture["VolumeTexture"], StretchRect |-> StretchRect,
    ColorFill |-> ColorFill, ComposeRects |-> ComposeRects ]

\* The commands that are steps of a longer method
DeviceSteps ==
  [ CreateAdditionalSwapChain |-> CreateAdditionalSwapChain,
    CreateDevice |-> CreateDevice, CreateDeviceEx |-> CreateDeviceEx,
    Reset |-> Reset, ResetEx |-> ResetEx, LinkSwapchain |-> LinkSwapchain,
    LinkBackBuffer |-> LinkBackBuffer, LinkAutoDepthStencil |-> LinkAutoDepthStencil,
    Device_Destroy |-> Device_Destroy ]

=============================================================================
