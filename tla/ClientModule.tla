---------------------------- MODULE ClientModule ----------------------------
(***************************************************************************)
(* The methods of the client's IDirect3D9Ex (d3d9_module.cpp), which go    *)
(* through the module bridge and always wait, and the functions of the     *)
(* client's Remix API (remix_api.cpp), which go through the device bridge  *)
(* and never do.  GetAdapterIdentifier, EnumAdapterModes and the like ask  *)
(* once and answer from a cache afterwards, a call that sends nothing.     *)
(***************************************************************************)
EXTENDS Wire

LOCAL M == {"Module"}

GetAdapterCount == Asks(M, <<>>, <<>>)
GetAdapterIdentifier == Asks(M, Ws(2), <<B>>)
GetAdapterModeCount == Asks(M, Ws(2), <<>>)
EnumAdapterModes == Asks(M, Ws(3), <<B>>)
GetAdapterDisplayMode == Asks(M, Ws(1), <<B>>)
CheckDeviceType == Asks(M, Ws(5), <<>>)
CheckDeviceFormat == Asks(M, Ws(6), <<>>)
\* The quality levels follow the result whatever it is
CheckDeviceMultiSampleType == [Asks(M, Ws(5), <<W>>) EXCEPT !.fail = <<W>>]
CheckDepthStencilMatch == Asks(M, Ws(5), <<>>)
CheckDeviceFormatConversion == Asks(M, Ws(4), <<>>)
Module_GetDeviceCaps == Asks(M, Ws(2), <<B>>)
GetAdapterMonitor == Asks(M, Ws(1), <<>>)
GetAdapterModeCountEx == Asks(M, <<W, BOrNull>>, <<>>)
EnumAdapterModesEx == Asks(M, <<W, W, BOrNull>>, <<B>>)
GetAdapterDisplayModeEx == Asks(M, <<W, BOrNull, BOrNull>>, <<B, B>>)
GetAdapterLUID == Asks(M, Ws(1), <<B>>)

-----------------------------------------------------------------------------
(* Remix API: a structure is its type and its serialised bytes *)

LOCAL Info == <<W, B>>
LOCAL Makes(items, type) == [Sends(M, items) EXCEPT !.makes = type]

remixapi_CreateMaterial == Makes(Info \o <<Chain, New>>, "Material")
\* No extension of a mesh is known, and none is sent
remixapi_CreateMesh == Makes(Info \o <<New>>, "Mesh")
remixapi_CreateLight == Makes(Info \o <<Chain, New>>, "Light")
remixapi_DrawInstance == Sends(M, Info \o <<Chain>>)
remixapi_DrawLightInstance == Sends(M, <<Obj({"Light"})>>)
remixapi_SetConfigVariable == Sends(M, <<B, B>>)
remixapi_DestroyMaterial == Destroys(M, <<New>>)
remixapi_DestroyMesh == Destroys(M, <<New>>)
remixapi_DestroyLight == Destroys(M, <<New>>)

ModuleMethods ==
  [ GetAdapterCount |-> GetAdapterCount, GetAdapterIdentifier |-> GetAdapterIdentifier,
    GetAdapterModeCount |-> GetAdapterModeCount, EnumAdapterModes |-> EnumAdapterModes,
    GetAdapterDisplayMode |-> GetAdapterDisplayMode, CheckDeviceType |-> CheckDeviceType,
    CheckDeviceFormat |-> CheckDeviceFormat,
    CheckDeviceMultiSampleType |-> CheckDeviceMultiSampleType,
    CheckDepthStencilMatch |-> CheckDepthStencilMatch,
    CheckDeviceFormatConversion |-> CheckDeviceFormatConversion,
    Module_GetDeviceCaps |-> Module_GetDeviceCaps, GetAdapterMonitor |-> GetAdapterMonitor,
    GetAdapterModeCountEx |-> GetAdapterModeCountEx,
    EnumAdapterModesEx |-> EnumAdapterModesEx,
    GetAdapterDisplayModeEx |-> GetAdapterDisplayModeEx,
    GetAdapterLUID |-> GetAdapterLUID, remixapi_CreateMaterial |-> remixapi_CreateMaterial,
    remixapi_CreateMesh |-> remixapi_CreateMesh,
    remixapi_CreateLight |-> remixapi_CreateLight,
    remixapi_DrawInstance |-> remixapi_DrawInstance,
    remixapi_DrawLightInstance |-> remixapi_DrawLightInstance,
    remixapi_SetConfigVariable |-> remixapi_SetConfigVariable ]

ModuleSteps ==
  [ remixapi_DestroyMaterial |-> remixapi_DestroyMaterial,
    remixapi_DestroyMesh |-> remixapi_DestroyMesh,
    remixapi_DestroyLight |-> remixapi_DestroyLight ]

=============================================================================
