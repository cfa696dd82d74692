-------------------------------- MODULE Shadow --------------------------------
(***************************************************************************)
(* How the client's device addresses its shadow state (d3d9_device.cpp).   *)
(* Every setter turns its arguments into the element of an array or a map  *)
(* it stores the value in; the getter of the same name finds it again and  *)
(* answers without asking the server.  Transforms, samplers and texture    *)
(* stage states are numbered with gaps by Direct3D and without by the      *)
(* arrays, and shader constants are set and read in ranges that may reach  *)
(* over the registers the hardware has.                                    *)
(*                                                                         *)
(* An argument is a pair of numbers, the second 0 where a setter has one,  *)
(* an element a pair of indices.  What goes to the server, state blocks    *)
(* and the threads' interleaving are the subject of modules Calls and      *)
(* DeviceState.                                                            *)
(***************************************************************************)
EXTENDS Integers, FiniteSets

CONSTANTS
  Arguments,  \* of each piece of state: the arguments games pass
  MaxSets,    \* calls of setters in a behaviour
  SizeT       \* 2^32, the numbers a size_t has (TLC's are smaller: any beyond
              \* the arrays tells a wrapped index from one of an array)

MaxTexturesPS == 16
MaxTexturesVS == 4
MaxTransforms == 10 + 256
MaxSimultaneousTextures == 8
MaxStreams == 16
MaxClipPlanes == 6
kNumRenderStates == 256
kNumStageSamplers == MaxTexturesPS + MaxTexturesVS + 1
kMaxTexStageStateTypes == 18
kMaxStageSamplerStateTypes == 13 + 1

(* ConstantLayout, and what each kind of shader constant is stored in.      *)
getHardwareRegCount ==
  [vertexF |-> 256, vertexI |-> 16, vertexB |-> 16, pixelF |-> 224, pixelI |-> 16, pixelB |-> 16]
getSoftwareRegCount ==
  [vertexF |-> 8192, vertexI |-> 2048, vertexB |-> 2048, pixelF |-> 224, pixelI |-> 16, pixelB |-> 16]

Constants == DOMAIN getHardwareRegCount
Objects == {"textures", "vertexDecl", "vertexShader", "pixelShader", "streams", "indices"}

D3DTS_VIEW == 2
D3DTS_PROJECTION == 3
D3DTS_TEXTURE0 == 16
D3DTS_TEXTURE7 == 23
D3DTS_WORLD == 256
D3DDMAPSAMPLER == 256
D3DVERTEXTEXTURESAMPLER3 == 260

\* Pieces of state whose setters have no number, one, and two
Unnumbered == {"viewport", "material", "scissorRect", "vertexDecl", "vertexShader", "pixelShader", "indices",
              "clipStatus", "curTexPalette", "bSoftwareVtxProcessing", "NPatchMode", "FVF",
              "gpuThreadPriority", "maxFrameLatency"}
Numbered == {"transforms", "lights", "bLightEnables", "clipPlanes", "renderStates", "textures",
            "paletteEntries", "streams", "streamFreqs"}
Paired == {"textureStageStates", "samplerStates"} \cup Constants

ASSUME ShadowAssumption ==
  /\ SizeT \in Nat /\ SizeT > 4 * 8192
  /\ DOMAIN Arguments \subseteq Unnumbered \cup Numbered \cup Paired
  /\ \A s \in DOMAIN Arguments :
       /\ Arguments[s] \subseteq (0..SizeT - 1) \X (0..SizeT - 1)
       /\ \A a \in Arguments[s] :
            /\ s \notin Paired => a[2] = 0
            /\ s \in Unnumbered => a[1] = 0

VARIABLES
  slot,      \* the piece of state the behaviour is about
  elements,  \* of m_state: its elements that were written: <<i, j>> |-> value
  said,      \* ghost: what the game last stored under each argument
  refs,      \* references the game got from getters and has not released
  sets,      \* calls of setters so far
  strayed    \* ghost: a setter took an argument Direct3D does not have

shadowVars == <<slot, elements, said, refs, sets, strayed>>

--------------------------------------------------------------------------------
(* From arguments to indices.                                               *)
size_t(x) == x % SizeT

mapXformStateTypeToIdx(Type) ==
  IF Type = D3DTS_VIEW THEN 0
  ELSE IF Type = D3DTS_PROJECTION THEN 1
  ELSE IF Type \in D3DTS_TEXTURE0..D3DTS_TEXTURE7 THEN 2 + (Type - D3DTS_TEXTURE0)
  ELSE size_t(10 + (Type - D3DTS_WORLD))

isValidD3drtansformstatetype(Type) ==
  Type \in {D3DTS_VIEW, D3DTS_PROJECTION} \cup D3DTS_TEXTURE0..D3DTS_TEXTURE7
           \cup D3DTS_WORLD..(D3DTS_WORLD + 255)

isInvalidSamplerStage(stage) == stage \in 16..(D3DDMAPSAMPLER - 1) \/ stage > D3DVERTEXTEXTURESAMPLER3

(* Variant with a bug: the displacement sampler is stored where the last    *)
(* pixel sampler is.                                                        *)
mapSamplerStageShifted(stage) ==
  IF stage >= D3DDMAPSAMPLER THEN MaxTexturesPS - 1 + (stage - D3DDMAPSAMPLER) ELSE stage

mapSamplerStageToIdx(stage) ==
  IF stage >= D3DDMAPSAMPLER THEN MaxTexturesPS + (stage - D3DDMAPSAMPLER) ELSE stage

(* D3DTSS_COLOROP to D3DTSS_TEXCOORDINDEX are consecutive, the others not.  *)
TexStageStateTypeToIdx(type) ==
  CASE type \in 1..11 -> type - 1
    [] type = 22 -> 11
    [] type = 23 -> 12
    [] type = 24 -> 13
    [] type \in 26..28 -> type - 12
    [] type = 32 -> 17
    [] OTHER -> size_t(-1)

(* How many registers of a range are there, or Refused: D3DERR_INVALIDCALL. *)
Refused == -1

(* The sum is a uint32_t, the difference an INT.                            *)
Signed(x) == IF x >= SizeT \div 2 THEN x - SizeT ELSE x

commonGetSetConstants(kind, start, count) ==
  LET sum == size_t(start + count)
      end == IF sum > getHardwareRegCount[kind] THEN getHardwareRegCount[kind] ELSE sum
      left == Signed(size_t(end - start))
  IN IF sum > getSoftwareRegCount[kind] THEN Refused
     ELSE IF left < 0 THEN 0 ELSE left

(* Arguments that Direct3D has.  Clip planes, render states and streams are *)
(* not checked by their methods, a range that wraps is taken, and           *)
(* MultiplyTransform takes any state.                                       *)
Within(a) ==
  /\ slot = "clipPlanes" => a[1] < MaxClipPlanes
  /\ slot = "renderStates" => a[1] < kNumRenderStates
  /\ slot \in {"streams", "streamFreqs"} => a[1] < MaxStreams
  /\ slot = "transforms" => isValidD3drtansformstatetype(a[1])
  /\ slot \in Constants => a[1] + a[2] < SizeT

--------------------------------------------------------------------------------
(* Getters: what a call answers, or Refused.                                *)
Default == 0

At(i, j) == IF <<i, j>> \in DOMAIN elements THEN elements[<<i, j>>] ELSE Default

GetTransform(a) == At(mapXformStateTypeToIdx(a[1]), 0)
GetViewport(a) == At(0, 0)
GetMaterial(a) == At(0, 0)
GetLight(a) == At(a[1], 0)
GetLightEnable(a) == IF At(a[1], 0) # 0 THEN 128 ELSE 0
GetClipPlane(a) == At(a[1], 0)
GetRenderState(a) == At(a[1], 0)
GetTexture(a) == IF isInvalidSamplerStage(a[1]) THEN Refused ELSE At(mapSamplerStageToIdx(a[1]), 0)
GetTextureStageState(a) ==
  IF isInvalidSamplerStage(a[1]) \/ TexStageStateTypeToIdx(a[2]) >= kMaxTexStageStateTypes THEN Refused
  ELSE At(mapSamplerStageToIdx(a[1]), TexStageStateTypeToIdx(a[2]))
GetSamplerState(a) ==
  IF isInvalidSamplerStage(a[1]) \/ size_t(a[2] - 1) >= kMaxStageSamplerStateTypes THEN Refused
  ELSE At(mapSamplerStageToIdx(a[1]), a[2] - 1)
GetScissorRect(a) == At(0, 0)
GetVertexDeclaration(a) == At(0, 0)
GetVertexShader(a) == At(0, 0)
GetPixelShader(a) == At(0, 0)
GetStreamSource(a) == At(a[1], 0)
GetStreamSourceFreq(a) == At(a[1], 0)
GetIndices(a) == At(0, 0)
SetClipStatus(a) == <<0, 0>>
GetClipStatus(a) == At(0, 0)
SetPaletteEntries(a) == <<a[1], 0>>
GetPaletteEntries(a) == At(a[1], 0)
SetCurrentTexturePalette(a) == <<0, 0>>
GetCurrentTexturePalette(a) == At(0, 0)
GetSoftwareVertexProcessing(a) == At(0, 0)
GetNPatchMode(a) == At(0, 0)
GetFVF(a) == At(0, 0)
SetGPUThreadPriority(a) == <<0, 0>>
GetGPUThreadPriority(a) == At(0, 0)
SetMaximumFrameLatency(a) == <<0, 0>>
GetMaximumFrameLatency(a) == At(0, 0)

(* A bool constant is a bit of a word.  Ranges go on from the last number   *)
(* of 32 bits to 0.                                                         *)
Register(kind, r) ==
  IF kind \in {"vertexB", "pixelB"} THEN <<size_t(r) \div 32, size_t(r) % 32>> ELSE <<size_t(r), 0>>

(* The answer of a range that is not refused: its registers' values.        *)
getShaderConstants(kind, a) ==
  LET count == commonGetSetConstants(kind, a[1], a[2])
  IN [r \in a[1]..(a[1] + count - 1) |-> At(Register(kind, r)[1], Register(kind, r)[2])]

GetVertexShaderConstantF(a) == getShaderConstants("vertexF", a)
GetVertexShaderConstantI(a) == getShaderConstants("vertexI", a)
GetVertexShaderConstantB(a) == getShaderConstants("vertexB", a)
GetPixelShaderConstantF(a) == getShaderConstants("pixelF", a)
GetPixelShaderConstantI(a) == getShaderConstants("pixelI", a)
GetPixelShaderConstantB(a) == getShaderConstants("pixelB", a)

GetRange(a) ==
  CASE slot = "vertexF" -> GetVertexShaderConstantF(a)
    [] slot = "vertexI" -> GetVertexShaderConstantI(a)
    [] slot = "vertexB" -> GetVertexShaderConstantB(a)
    [] slot = "pixelF" -> GetPixelShaderConstantF(a)
    [] slot = "pixelI" -> GetPixelShaderConstantI(a)
    [] slot = "pixelB" -> GetPixelShaderConstantB(a)

Get(a) ==
  CASE slot = "transforms" -> GetTransform(a)
    [] slot = "viewport" -> GetViewport(a)
    [] slot = "material" -> GetMaterial(a)
    [] slot = "lights" -> GetLight(a)
    [] slot = "bLightEnables" -> GetLightEnable(a)
    [] slot = "clipPlanes" -> GetClipPlane(a)
    [] slot = "renderStates" -> GetRenderState(a)
    [] slot = "textures" -> GetTexture(a)
    [] slot = "textureStageStates" -> GetTextureStageState(a)
    [] slot = "samplerStates" -> GetSamplerState(a)
    [] slot = "scissorRect" -> GetScissorRect(a)
    [] slot = "vertexDecl" -> GetVertexDeclaration(a)
    [] slot = "vertexShader" -> GetVertexShader(a)
    [] slot = "pixelShader" -> GetPixelShader(a)
    [] slot = "streams" -> GetStreamSource(a)
    [] slot = "streamFreqs" -> GetStreamSourceFreq(a)
    [] slot = "indices" -> GetIndices(a)
    [] slot = "clipStatus" -> GetClipStatus(a)
    [] slot = "paletteEntries" -> GetPaletteEntries(a)
    [] slot = "curTexPalette" -> GetCurrentTexturePalette(a)
    [] slot = "bSoftwareVtxProcessing" -> GetSoftwareVertexProcessing(a)
    [] slot = "NPatchMode" -> GetNPatchMode(a)
    [] slot = "FVF" -> GetFVF(a)
    [] slot = "gpuThreadPriority" -> GetGPUThreadPriority(a)
    [] slot = "maxFrameLatency" -> GetMaximumFrameLatency(a)

--------------------------------------------------------------------------------
(* Setters: the element a call stores its value in, or <<-1, -1>> when it   *)
(* is refused.                                                              *)
NoElement == <<-1, -1>>

ElementOf(a) ==
  CASE slot = "transforms" ->
         IF isValidD3drtansformstatetype(a[1]) THEN <<mapXformStateTypeToIdx(a[1]), 0>> ELSE NoElement
    [] slot \in {"lights", "bLightEnables", "clipPlanes", "renderStates", "streams", "streamFreqs"} -> <<a[1], 0>>
    [] slot = "textures" ->
         IF isInvalidSamplerStage(a[1]) THEN NoElement ELSE <<mapSamplerStageToIdx(a[1]), 0>>
    [] slot = "textureStageStates" ->
         IF a[1] >= MaxSimultaneousTextures \/ TexStageStateTypeToIdx(a[2]) >= kMaxTexStageStateTypes THEN NoElement
         ELSE <<mapSamplerStageToIdx(a[1]), TexStageStateTypeToIdx(a[2])>>
    [] slot = "samplerStates" ->
         IF isInvalidSamplerStage(a[1]) \/ size_t(a[2] - 1) >= kMaxStageSamplerStateTypes THEN NoElement
         ELSE <<mapSamplerStageToIdx(a[1]), a[2] - 1>>
    [] slot = "clipStatus" -> SetClipStatus(a)
    [] slot = "paletteEntries" -> SetPaletteEntries(a)
    [] slot = "curTexPalette" -> SetCurrentTexturePalette(a)
    [] slot = "gpuThreadPriority" -> SetGPUThreadPriority(a)
    [] slot = "maxFrameLatency" -> SetMaximumFrameLatency(a)
    [] OTHER -> <<0, 0>>

(* A map with g's values in place of its own. *)
Overwritten(f, g) == [x \in DOMAIN f \cup DOMAIN g |-> IF x \in DOMAIN g THEN g[x] ELSE f[x]]
With(f, x, v) == Overwritten(f, [y \in {x} |-> v])

Set(a, v) ==
  /\ slot \notin Constants /\ sets < MaxSets
  /\ ElementOf(a) # NoElement
  /\ elements' = With(elements, ElementOf(a), v)
  /\ said' = With(said, a, IF slot = "bLightEnables" /\ v # 0 THEN 128 ELSE v)
  /\ sets' = sets + 1 /\ strayed' = (strayed \/ ~Within(a))
  /\ UNCHANGED <<slot, refs>>

(* setShaderConstants: the first register of the range gets v, the others   *)
(* its successors.                                                          *)
setShaderConstants(a, v) ==
  LET count == commonGetSetConstants(slot, a[1], a[2])
      range == a[1]..(a[1] + count - 1)
  IN /\ slot \in Constants /\ sets < MaxSets
     /\ count # Refused
     /\ elements' = Overwritten(elements,
           [e \in {Register(slot, r) : r \in range} |->
              (v + (CHOOSE r \in range : Register(slot, r) = e) - a[1]) % 2])
     /\ said' = Overwritten(said, [r \in {<<x, 0>> : x \in range} |-> (v + r[1] - a[1]) % 2])
     /\ sets' = sets + 1 /\ strayed' = (strayed \/ ~Within(a))
     /\ UNCHANGED <<slot, refs>>

(* The product is computed from the shadow and stored in it, whatever the   *)
(* state: this method does not check it.                                    *)
MultiplyTransform(a, v) ==
  /\ slot = "transforms" /\ sets < MaxSets
  /\ LET product == GetTransform(a) * v
     IN /\ elements' = With(elements, <<mapXformStateTypeToIdx(a[1]), 0>>, product)
        /\ said' = With(said, a, product)
  /\ sets' = sets + 1 /\ strayed' = (strayed \/ ~Within(a))
  /\ UNCHANGED <<slot, refs>>

(* A getter of an object that is there adds a reference for the game.       *)
GetObject(a) ==
  /\ slot \in Objects /\ refs < MaxSets
  /\ Get(a) \notin {Refused, 0}
  /\ refs' = refs + 1
  /\ UNCHANGED <<slot, elements, said, sets, strayed>>

ReleaseObject ==
  /\ refs > 0
  /\ refs' = refs - 1
  /\ UNCHANGED <<slot, elements, said, sets, strayed>>

--------------------------------------------------------------------------------
InitShadow ==
  /\ slot \in DOMAIN Arguments
  /\ elements = <<>> /\ said = <<>>
  /\ refs = 0 /\ sets = 0 /\ strayed = FALSE

ShadowNext ==
  \/ ReleaseObject
  \/ \E a \in Arguments[slot], v \in 0..1 :
       Set(a, v) \/ setShaderConstants(a, v) \/ MultiplyTransform(a, v)
  \/ \E a \in Arguments[slot] : GetObject(a)

ShadowSpec == InitShadow /\ [][ShadowNext]_shadowVars

(* The size of the array that holds a piece of state, <<0, 0>> for a map.   *)
Extent ==
  CASE slot = "transforms" -> <<MaxTransforms, 1>>
    [] slot = "clipPlanes" -> <<MaxClipPlanes, 1>>
    [] slot = "renderStates" -> <<kNumRenderStates, 1>>
    [] slot = "textures" -> <<kNumStageSamplers, 1>>
    [] slot = "textureStageStates" -> <<kNumStageSamplers, kMaxTexStageStateTypes>>
    [] slot = "samplerStates" -> <<kNumStageSamplers, kMaxStageSamplerStateTypes>>
    [] slot \in {"streams", "streamFreqs"} -> <<MaxStreams, 1>>
    [] slot \in {"vertexF", "vertexI", "pixelF", "pixelI"} -> <<getSoftwareRegCount[slot], 1>>
    [] slot = "vertexB" -> <<2048 \div 32, 32>>
    [] slot = "pixelB" -> <<1, 32>>
    [] slot \in {"lights", "bLightEnables", "paletteEntries"} -> <<0, 0>>
    [] OTHER -> <<1, 1>>

(* A getter answers what the game last stored under the same arguments, or  *)
(* the default, however the two number the states and ranges overlap: no    *)
(* two arguments share an element, every range is cut at the same register  *)
(* by both, and a setter that refuses some arguments refuses all that would *)
(* leave its array.  Of the setters that refuse none (clip planes, render   *)
(* states, streams, MultiplyTransform) and of ranges that wrap it says      *)
(* nothing: from the first argument Direct3D does not have, the shadow is   *)
(* written outside its arrays.                                              *)
GetReturnsSet ==
  ~strayed =>
  /\ Extent # <<0, 0>> => DOMAIN elements \subseteq (0..(Extent[1] - 1)) \X (0..(Extent[2] - 1))
  /\ slot \notin Constants =>
       \A a \in Arguments[slot] :
         Within(a) /\ ElementOf(a) # NoElement => Get(a) = IF a \in DOMAIN said THEN said[a] ELSE Default
  /\ slot \in Constants =>
       \A a \in Arguments[slot] :
         Within(a) /\ commonGetSetConstants(slot, a[1], a[2]) # Refused =>
           \A r \in DOMAIN GetRange(a) :
             GetRange(a)[r] = IF <<r, 0>> \in DOMAIN said THEN said[<<r, 0>>] ELSE Default
================================================================================
