---------------------------- MODULE ServerModule ----------------------------
(***************************************************************************)
(* The handlers of the server's module thread (server/module_processing.   *)
(* cpp) and those of the Remix API in the device's switch                  *)
(* (server/main.cpp).                                                      *)
(***************************************************************************)
EXTENDS Wire

LOCAL Mod(items, payload) == Replies("gpD3D", {"Module"}, items, payload)

GetAdapterCount == Mod(<<>>, <<>>)
GetAdapterIdentifier == Mod(Ws(2), <<B>>)
GetAdapterModeCount == Mod(Ws(2), <<>>)
EnumAdapterModes == Mod(Ws(3), <<B>>)
GetAdapterDisplayMode == Mod(Ws(1), <<B>>)
CheckDeviceType == Mod(Ws(5), <<>>)
CheckDeviceFormat == Mod(Ws(6), <<>>)
\* Mutant: the quality levels only with a success
QualityOnSuccess == Mod(Ws(5), <<W>>)
CheckDeviceMultiSampleType == [Mod(Ws(5), <<W>>) EXCEPT !.fail = <<W>>]
CheckDepthStencilMatch == Mod(Ws(5), <<>>)
CheckDeviceFormatConversion == Mod(Ws(4), <<>>)
Module_GetDeviceCaps == Mod(Ws(2), <<B>>)
GetAdapterMonitor == Mod(Ws(1), <<>>)
GetAdapterModeCountEx == Mod(<<W, B>>, <<>>)
EnumAdapterModesEx == Mod(<<W, W, B>>, <<B>>)
GetAdapterDisplayModeEx == Mod(<<W, B, B>>, <<B, B>>)
GetAdapterLUID == Mod(Ws(1), <<B>>)

-----------------------------------------------------------------------------
(* Remix API: the handles of materials, meshes and lights are words of the *)
(* data, each kind in a map of its own; an unknown one is logged           *)

LOCAL Remix(items) == Pulls("gpD3D", {"Module"}, items)
LOCAL Known(type) == In(type \o "Handle::s_handleMap", {type})
LOCAL Gives(items, type) == Enters(Remix(items), type \o "Handle::s_handleMap", type)
LOCAL Drops(type) == [Remix(<<Known(type)>>) EXCEPT !.drops = TRUE]

remixapi_CreateMaterial == Gives(<<W, B, Chain, New>>, "Material")
remixapi_CreateMesh == Gives(<<W, B, New>>, "Mesh")
remixapi_CreateLight == Gives(<<W, B, Chain, New>>, "Light")
remixapi_DrawInstance == Remix(<<W, B, Chain>>)
remixapi_DrawLightInstance == Remix(<<Known("Light")>>)
remixapi_SetConfigVariable == Remix(<<B, B>>)
remixapi_DestroyMaterial == Drops("Material")
remixapi_DestroyMesh == Drops("Mesh")
remixapi_DestroyLight == Drops("Light")
\* Refused with a line in the log
remixapi_CreateD3D9 == Pulls("none", {}, <<>>)
remixapi_RegisterDevice == Pulls("none", {}, <<>>)

ModuleHandlers ==
  [ GetAdapterCount |-> GetAdapterCount,
    GetAdapterIdentifier |-> GetAdapterIdentifier,
    GetAdapterModeCount |-> GetAdapterModeCount,
    EnumAdapterModes |-> EnumAdapterModes,
    GetAdapterDisplayMode |-> GetAdapterDisplayMode,
    CheckDeviceType |-> CheckDeviceType, CheckDeviceFormat |-> CheckDeviceFormat,
    CheckDeviceMultiSampleType |-> CheckDeviceMultiSampleType,
    CheckDepthStencilMatch |-> CheckDepthStencilMatch,
    CheckDeviceFormatConversion |-> CheckDeviceFormatConversion,
    Module_GetDeviceCaps |-> Module_GetDeviceCaps,
    GetAdapterMonitor |-> GetAdapterMonitor,
    GetAdapterModeCountEx |-> GetAdapterModeCountEx,
    EnumAdapterModesEx |-> EnumAdapterModesEx,
    GetAdapterDisplayModeEx |-> GetAdapterDisplayModeEx,
    GetAdapterLUID |-> GetAdapterLUID,
    remixapi_CreateMaterial |-> remixapi_CreateMaterial,
    remixapi_CreateMesh |-> remixapi_CreateMesh,
    remixapi_CreateLight |-> remixapi_CreateLight,
    remixapi_DrawInstance |-> remixapi_DrawInstance,
    remixapi_DrawLightInstance |-> remixapi_DrawLightInstance,
    remixapi_SetConfigVariable |-> remixapi_SetConfigVariable,
    remixapi_DestroyMaterial |-> remixapi_DestroyMaterial,
    remixapi_DestroyMesh |-> remixapi_DestroyMesh,
    remixapi_DestroyLight |-> remixapi_DestroyLight ]

UnsentModuleHandlers ==
  [ remixapi_CreateD3D9 |-> remixapi_CreateD3D9, remixapi_RegisterDevice |-> remixapi_RegisterDevice ]

\* Cases that break at once ("The server controls its own device lifetime")
ModulePassed == {"Module_QueryInterface", "Module_AddRef", "RegisterSoftwareDevice"}

=============================================================================
