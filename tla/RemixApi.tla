------------------------------- MODULE RemixApi -------------------------------
(***************************************************************************)
(* The structures of the Remix API on their way to the server              *)
(* (util/util_remixapi.cpp over util/util_serializable.h).  The client     *)
(* computes the size of a structure, writes it into a buffer of that size  *)
(* and sends the buffer as one block; the server reads it back, allocating *)
(* what the structure points to, and frees that with the structure.        *)
(*                                                                         *)
(* A value is a pair of a name and a number; written with n bytes it is n  *)
(* bytes that each know their place in it, so that a read at the wrong     *)
(* position or of the wrong size returns something else.                   *)
(***************************************************************************)
EXTENDS Naturals, Sequences, SequencesExt, TLC

CONSTANTS
  Surfaces,   \* of MeshInfo: [vertices, indices, skin], skin <<>> or [bones, weights, indices]
  PathSizes   \* characters of a path with its terminator, 0 for a null path

Null == <<"null", 0>>
Garbage == <<"garbage", 0>>

Bytes(v, n) == [k \in 1..n |-> <<v, k>>]

(* deserialize(from, to, size): the value when exactly its bytes are there. *)
ReadAt(b, p, n) ==
  IF p < Len(b) /\ SubSeq(b, p + 1, p + n) = Bytes(b[p + 1][1], n) THEN b[p + 1][1] ELSE Garbage

--------------------------------------------------------------------------------
(* What the structures are made of, by the size of its encoding.  A bool    *)
(* the bridge adds is one byte, whatever the compilers' own size; a handle  *)
(* is four in both processes.                                               *)
LightShaping == 12 + 3 * 4

HardcodedVertex == 12 + 12 + 8 + 4   \* position, normal, texcoord, color

HandleSize == 4

sizeOf == [u8 |-> 1, u32 |-> 4, u64 |-> 8, Float3D |-> 12, Transform |-> 48, Handle |-> HandleSize,
           bool |-> 1, Vertex |-> HardcodedVertex, Shaping |-> LightShaping, wchar |-> 2]

As(kind, names) == [i \in DOMAIN names |-> <<names[i], kind>>]

MaterialInfo ==
  As("u32", <<"sType">>) \o As("u64", <<"hash">>)
  \o As("path", <<"albedoTexture", "normalTexture", "tangentTexture", "emissiveTexture">>)
  \o As("u32", <<"emissiveIntensity">>) \o As("Float3D", <<"emissiveColorConstant">>)
  \o As("u8", <<"spriteSheetRow", "spriteSheetCol", "spriteSheetFps", "filterMode", "wrapModeU", "wrapModeV">>)

MaterialInfoOpaque ==
  As("u32", <<"sType">>) \o As("path", <<"roughnessTexture", "metallicTexture">>)
  \o As("u32", <<"anisotropy">>) \o As("Float3D", <<"albedoConstant">>)
  \o As("u32", <<"opacityConstant", "roughnessConstant", "metallicConstant", "thinFilmThickness_hasvalue",
                 "thinFilmThickness_value", "alphaIsThinFilmThickness">>)
  \o As("path", <<"heightTexture">>)
  \o As("u32", <<"displaceIn", "useDrawCallAlphaState", "blendType_hasvalue", "blendType_value",
                 "invertedBlend", "alphaTestType">>)
  \o As("u8", <<"alphaReferenceValue">>) \o As("u32", <<"displaceOut">>)

MaterialInfoOpaqueSubsurface ==
  As("u32", <<"sType">>)
  \o As("path", <<"subsurfaceTransmittanceTexture", "subsurfaceThicknessTexture",
                  "subsurfaceSingleScatteringAlbedoTexture">>)
  \o As("Float3D", <<"subsurfaceTransmittanceColor">>) \o As("u32", <<"subsurfaceMeasurementDistance">>)
  \o As("Float3D", <<"subsurfaceSingleScatteringAlbedo">>) \o As("u32", <<"subsurfaceVolumetricAnisotropy">>)

MaterialInfoTranslucent ==
  As("u32", <<"sType">>) \o As("path", <<"transmittanceTexture">>) \o As("u32", <<"refractiveIndex">>)
  \o As("Float3D", <<"transmittanceColor">>)
  \o As("u32", <<"transmittanceMeasurementDistance", "thinWallThickness_hasvalue",
                 "thinWallThickness_value", "useDiffuseLayer">>)

MaterialInfoPortal == As("u32", <<"sType">>) \o As("u8", <<"rayPortalIndex">>) \o As("u32", <<"rotationSpeed">>)

InstanceInfo ==
  As("u32", <<"sType", "categoryFlags">>) \o As("Handle", <<"mesh">>) \o As("Transform", <<"transform">>)
  \o As("u32", <<"doubleSided">>)

(* The only structure whose sType is not written.                           *)
InstanceInfoObjectPicking == As("u32", <<"objectPickingValue">>)

InstanceInfoBlend ==
  As("u32", <<"sType", "alphaTestEnabled">>) \o As("u8", <<"alphaTestReferenceValue">>)
  \o As("u32", <<"alphaTestCompareOp", "alphaBlendEnabled", "srcColorBlendFactor", "dstColorBlendFactor",
                 "colorBlendOp", "textureColorArg1Source", "textureColorArg2Source", "textureColorOperation",
                 "textureAlphaArg1Source", "textureAlphaArg2Source", "textureAlphaOperation", "tFactor",
                 "isTextureFactorBlend">>)

LightInfo == As("u32", <<"sType">>) \o As("u64", <<"hash">>) \o As("Float3D", <<"radiance">>)

LightInfoSphere ==
  As("u32", <<"sType">>) \o As("Float3D", <<"position">>) \o As("u32", <<"radius", "shaping_hasvalue">>)
  \o As("Shaping", <<"shaping_value">>)

LightInfoRect ==
  As("u32", <<"sType">>) \o As("Float3D", <<"position", "xAxis">>) \o As("u32", <<"xSize">>)
  \o As("Float3D", <<"yAxis">>) \o As("u32", <<"ySize">>) \o As("Float3D", <<"direction">>)
  \o As("u32", <<"shaping_hasvalue">>) \o As("Shaping", <<"shaping_value">>)

LightInfoDisk ==
  As("u32", <<"sType">>) \o As("Float3D", <<"position", "xAxis">>) \o As("u32", <<"xRadius">>)
  \o As("Float3D", <<"yAxis">>) \o As("u32", <<"yRadius">>) \o As("Float3D", <<"direction">>)
  \o As("u32", <<"shaping_hasvalue">>) \o As("Shaping", <<"shaping_value">>)

LightInfoCylinder ==
  As("u32", <<"sType">>) \o As("Float3D", <<"position">>) \o As("u32", <<"radius">>)
  \o As("Float3D", <<"axis">>) \o As("u32", <<"axisLength">>)

LightInfoDistant == As("u32", <<"sType">>) \o As("Float3D", <<"direction">>) \o As("u32", <<"angularDiameterDegrees">>)

LightInfoDome == As("u32", <<"sType">>) \o As("Transform", <<"transform">>) \o As("path", <<"colorTexture">>)

(* An optional member is a bool and, if it points to something, that.       *)
LightInfoUSD ==
  As("u32", <<"sType", "lightType">>) \o As("Transform", <<"transform">>)
  \o As("optional u32", <<"pRadius", "pWidth", "pHeight", "pLength", "pAngleRadians", "pEnableColorTemp">>)
  \o As("optional Float3D", <<"pColor">>)
  \o As("optional u32", <<"pColorTemp", "pExposure", "pIntensity", "pConeAngleRadians", "pConeSoftness", "pFocus">>)

Structures ==
  [MaterialInfo |-> MaterialInfo, MaterialInfoOpaque |-> MaterialInfoOpaque,
   MaterialInfoOpaqueSubsurface |-> MaterialInfoOpaqueSubsurface,
   MaterialInfoTranslucent |-> MaterialInfoTranslucent, MaterialInfoPortal |-> MaterialInfoPortal,
   InstanceInfo |-> InstanceInfo, InstanceInfoObjectPicking |-> InstanceInfoObjectPicking,
   InstanceInfoBlend |-> InstanceInfoBlend, LightInfo |-> LightInfo, LightInfoSphere |-> LightInfoSphere,
   LightInfoRect |-> LightInfoRect, LightInfoDisk |-> LightInfoDisk, LightInfoCylinder |-> LightInfoCylinder,
   LightInfoDistant |-> LightInfoDistant, LightInfoDome |-> LightInfoDome, LightInfoUSD |-> LightInfoUSD]

--------------------------------------------------------------------------------
(* Members.  A path of n characters is the number of bytes up to and with   *)
(* its terminator.                                                          *)
OptionalSizes == [k \in {"optional u32", "optional Float3D"} |-> IF k = "optional u32" THEN 4 ELSE 12]

Sizes == sizeOf @@ OptionalSizes

Bool(b) == Bytes(<<"bool", IF b THEN 1 ELSE 0>>, 1)

Characters(n) == FlattenSeq([i \in 1..n |-> Bytes(<<"wchar", n - i>>, 2)])

pathSize(x) == x[2] * sizeOf["wchar"]

MemberSize(kind, x) ==
  IF kind = "path" THEN sizeOf["bool"] + pathSize(x)
  ELSE IF kind \in DOMAIN OptionalSizes THEN sizeOf["bool"] + (IF x = Null THEN 0 ELSE OptionalSizes[kind])
  ELSE sizeOf[kind]

MemberBytes(kind, x) ==
  IF kind = "path" THEN Bool(x # Null) \o Characters(x[2])
  ELSE IF kind \in DOMAIN OptionalSizes THEN Bool(x # Null) \o (IF x = Null THEN <<>> ELSE Bytes(x, OptionalSizes[kind]))
  ELSE Bytes(x, sizeOf[kind])

(* wcslen on the bytes that follow, and the value read.                     *)
Terminator(b, p) == CHOOSE q \in p..Len(b) : /\ SubSeq(b, q + 1, q + 2) = Bytes(<<"wchar", 0>>, 2)
                                             /\ \A r \in p..(q - 1) : SubSeq(b, r + 1, r + 2) # Bytes(<<"wchar", 0>>, 2)

PathAt(b, p) == <<"path", (Terminator(b, p) - p) \div 2 + 1>>

IsTrue(b, p) == ReadAt(b, p, 1) = <<"bool", 1>>

MemberRead(kind, b, p) ==
  IF kind = "path" THEN IF IsTrue(b, p) THEN PathAt(b, p + 1) ELSE Null
  ELSE IF kind \in DOMAIN OptionalSizes THEN IF IsTrue(b, p) THEN ReadAt(b, p + 1, OptionalSizes[kind]) ELSE Null
  ELSE ReadAt(b, p, sizeOf[kind])

(* fold_helper over the members of a structure.                             *)
FoldSize(members, v) == FoldLeft(LAMBDA n, m : n + MemberSize(m[2], v[m[1]]), 0, members)

FoldSerialize(members, v) == FlattenSeq([i \in DOMAIN members |-> MemberBytes(members[i][2], v[members[i][1]])])

FoldDeserialize(members, b, start) ==
  FoldLeft(LAMBDA r, m : LET x == MemberRead(m[2], b, r[1])
                         IN <<r[1] + MemberSize(m[2], x), (m[1] :> x) @@ r[2]>>,
           <<start, <<>>>>, members)

--------------------------------------------------------------------------------
(* MeshInfo and InstanceInfoTransforms have arrays with their counts.       *)
Count(n, size) == Bytes(<<"count", n>>, size)

Array(name, n, size) == FlattenSeq([i \in 1..n |-> Bytes(<<name, i>>, size)])

ReadArray(b, p, n, size) == [i \in 1..n |-> ReadAt(b, p + (i - 1) * size, size)]

(* blendWeightSizePerVtx and blendIndicesSizePerVtx, per surface.           *)
BlendSize(vertices, count, bones) == vertices * count * bones * 4

SurfaceSizeNoMaterial(s) ==
  8 + s.vertices * sizeOf["Vertex"] + 8 + s.indices * 4 + 4
  + (IF s.skin = <<>> THEN 0
     ELSE 4 + 4 + BlendSize(s.vertices, s.skin.weights, s.skin.bones)
            + 4 + BlendSize(s.vertices, s.skin.indices, s.skin.bones))

SurfaceSize(s) ==
  8 + s.vertices * sizeOf["Vertex"] + 8 + s.indices * 4 + 4
  + (IF s.skin = <<>> THEN 0
     ELSE 4 + 4 + BlendSize(s.vertices, s.skin.weights, s.skin.bones)
            + 4 + BlendSize(s.vertices, s.skin.indices, s.skin.bones))
  + 4

(* The game's array has as many elements as its count says; what lies       *)
(* behind it is not the array's.                                            *)
Blend(name, count, size) ==
  FlattenSeq([i \in 1..(size \div 4) |-> Bytes(IF i <= count THEN <<name, i>> ELSE Garbage, 4)])

SurfaceBytes(s) ==
  Count(s.vertices, 8) \o Array("vertex", s.vertices, sizeOf["Vertex"])
  \o Count(s.indices, 8) \o Array("index", s.indices, 4)
  \o Bytes(<<"count", IF s.skin = <<>> THEN 0 ELSE 1>>, 4)
  \o (IF s.skin = <<>> THEN <<>>
      ELSE Count(s.skin.bones, 4)
           \o Count(s.skin.weights, 4)
           \o Blend("weight", s.skin.weights, BlendSize(s.vertices, s.skin.weights, s.skin.bones))
           \o Count(s.skin.indices, 4)
           \o Blend("blendIndex", s.skin.indices, BlendSize(s.vertices, s.skin.indices, s.skin.bones)))
  \o Bytes(<<"material", 0>>, sizeOf["Handle"])

SurfaceRead(b, start) ==
  LET nv == ReadAt(b, start, 8)[2]
      p1 == start + 8 + nv * sizeOf["Vertex"]
      ni == ReadAt(b, p1, 8)[2]
      p2 == p1 + 8 + ni * 4
      skinned == ReadAt(b, p2, 4)[2] = 1
      bones == ReadAt(b, p2 + 4, 4)[2]
      nw == ReadAt(b, p2 + 8, 4)[2]
      p3 == p2 + 12 + BlendSize(nv, nw, bones)
      nb == ReadAt(b, p3, 4)[2]
      p4 == IF skinned THEN p3 + 4 + BlendSize(nv, nb, bones) ELSE p2 + 4
  IN <<p4 + 4,
       <<ReadArray(b, start + 8, nv, sizeOf["Vertex"]),
         ReadArray(b, p1 + 8, ni, 4),
         IF skinned THEN ReadArray(b, p2 + 12, BlendSize(nv, nw, bones) \div 4, 4) ELSE <<>>,
         IF skinned THEN ReadArray(b, p3 + 4, BlendSize(nv, nb, bones) \div 4, 4) ELSE <<>>,
         ReadAt(b, p4, sizeOf["Handle"])>>>>

(* What the game handed over, in the form the server should see it.         *)
SurfaceGiven(s) ==
  LET Elements(name, n) == [i \in 1..n |-> <<name, i>>]
  IN <<Elements("vertex", s.vertices), Elements("index", s.indices),
       IF s.skin = <<>> THEN <<>> ELSE Elements("weight", s.skin.weights),
       IF s.skin = <<>> THEN <<>> ELSE Elements("blendIndex", s.skin.indices),
       <<"material", 0>>>>

MeshHead == As("u32", <<"sType">>) \o As("u64", <<"hash">>)

MeshInfoSize(surfaces) ==
  4 + 8 + 4 + FoldLeft(LAMBDA n, s : n + SurfaceSize(s), 0, surfaces)

MeshInfoBytes(surfaces, head) ==
  FoldSerialize(MeshHead, head) \o Count(Len(surfaces), 4)
  \o FlattenSeq([i \in DOMAIN surfaces |-> SurfaceBytes(surfaces[i])])

MeshInfoRead(b, start) ==
  LET head == FoldDeserialize(MeshHead, b, start)
      n == ReadAt(b, head[1], 4)[2]
      all == FoldLeft(LAMBDA r, i : LET s == SurfaceRead(b, r[1]) IN <<s[1], Append(r[2], s[2])>>,
                      <<head[1] + 4, <<>>>>, [i \in 1..n |-> i])
  IN <<all[1], <<head[2], all[2]>>>>

TransformsSize(n) == 4 + 4 + n * sizeOf["Transform"]

TransformsBytes(n, sType) == Bytes(sType, 4) \o Count(n, 4) \o Array("bone", n, sizeOf["Transform"])

TransformsRead(b, start) ==
  LET n == ReadAt(b, start + 4, 4)[2]
  IN <<start + 8 + n * sizeOf["Transform"],
       <<ReadAt(b, start, 4), ReadArray(b, start + 8, n, sizeOf["Transform"])>>>>

--------------------------------------------------------------------------------
(* The values a game may give: every member its own, paths and pointers     *)
(* present or null, at most two of the optional ones differing from the     *)
(* rest.                                                                    *)
Paths == {Null} \cup {<<"path", n>> : n \in PathSizes \ {0}}

MembersOf(s, kinds) == {m[1] : m \in {x \in ToSet(Structures[s]) : x[2] \in kinds}}

Values(s) ==
  LET opt == MembersOf(s, DOMAIN OptionalSizes)
      path == MembersOf(s, {"path"})
      all == MembersOf(s, DOMAIN Sizes \cup {"path"})
      Few == {{x, y} : x, y \in opt} \cup {{}}
  IN {[f \in all |-> IF f \in path THEN p[f] ELSE IF f \in absent THEN Null ELSE <<f, 0>>] :
        p \in [path -> Paths], absent \in Few \cup {opt \ S : S \in Few}}

VARIABLES
  g_bInterfaceInitialized,  \* the game has the interface
  exposeRemixApi,           \* the option of that name
  given,                    \* what the game passed: its type and value, or <<>>
  blob,                     \* the block sent, or <<>>
  got,                      \* where the server stopped reading and what it read, or <<>>
  allocated                 \* what the server's structure points to: members it allocated

remixVars == <<g_bInterfaceInitialized, exposeRemixApi, given, blob, got, allocated>>

InitRemix ==
  /\ g_bInterfaceInitialized = FALSE
  /\ exposeRemixApi \in BOOLEAN
  /\ given = <<>> /\ blob = <<>> /\ got = <<>> /\ allocated = {}

InitializeLibrary ==
  /\ ~g_bInterfaceInitialized /\ exposeRemixApi
  /\ g_bInterfaceInitialized' = TRUE
  /\ UNCHANGED <<exposeRemixApi, given, blob, got, allocated>>

(* Serializable::calcSize and serialize: the size in front.                 *)
Size(x) == 4 + CASE x[1] = "MeshInfo" -> MeshInfoSize(x[2][2])
                 [] x[1] = "InstanceInfoTransforms" -> TransformsSize(x[2][2])
                 [] OTHER -> FoldSize(Structures[x[1]], x[2])

Serialize(x) ==
  Bytes(<<"count", Size(x)>>, 4)
  \o CASE x[1] = "MeshInfo" -> MeshInfoBytes(x[2][2], x[2][1])
       [] x[1] = "InstanceInfoTransforms" -> TransformsBytes(x[2][2], x[2][1])
       [] OTHER -> FoldSerialize(Structures[x[1]], x[2])

(* serializeAndSend sends size() bytes of the buffer it made that large.    *)
serializeAndSend(x) ==
  /\ g_bInterfaceInitialized /\ blob = <<>> /\ got = <<>>
  /\ given' = x
  /\ blob' = Serialize(x)
  /\ UNCHANGED <<g_bInterfaceInitialized, exposeRemixApi, got, allocated>>

(* Serializable::deserialize.                                               *)
Deserialize(struct, b) ==
  CASE struct = "MeshInfo" -> MeshInfoRead(b, 4)
    [] struct = "InstanceInfoTransforms" -> TransformsRead(b, 4)
    [] OTHER -> FoldDeserialize(Structures[struct], b, 4)

(* What the members of a structure read back own, by the surface they are   *)
(* of: a path and an optional value that is there, and every array.         *)
Allocates(x) ==
  CASE x[1] = "MeshInfo" ->
         LET s == x[2][2] IN
         {<<0, "surfaces_values">>}
         \cup {<<i, m>> : i \in DOMAIN s, m \in {"vertices_values", "indices_values"}}
         \cup {<<i, m>> : i \in {j \in DOMAIN s : s[j].skin # <<>>}, m \in {"blendWeights_values", "blendIndices_values"}}
    [] x[1] = "InstanceInfoTransforms" -> {<<0, "boneTransforms_values">>}
    [] OTHER -> {<<0, m>> : m \in {f \in MembersOf(x[1], {"path"} \cup DOMAIN OptionalSizes) : x[2][f] # Null}}

LightInfoUSDDeletes ==
  {"pRadius", "pWidth", "pHeight", "pLength", "pAngleRadians", "pEnableColorTemp", "pColor",
   "pColorTemp", "pExposure", "pIntensity", "pConeAngleRadians", "pConeSoftness", "pFocus"}

(* _dtor of each structure: the members it deletes.                         *)
Deletes ==
  [MaterialInfo |-> {"albedoTexture", "normalTexture", "tangentTexture", "emissiveTexture"},
   MaterialInfoOpaque |-> {"roughnessTexture", "metallicTexture", "heightTexture"},
   MaterialInfoOpaqueSubsurface |-> {"subsurfaceTransmittanceTexture", "subsurfaceThicknessTexture",
                                     "subsurfaceSingleScatteringAlbedoTexture"},
   MaterialInfoTranslucent |-> {"transmittanceTexture"},
   MeshInfo |-> {"vertices_values", "indices_values", "blendWeights_values", "blendIndices_values"},
   InstanceInfoTransforms |-> {"boneTransforms_values"},
   LightInfoDome |-> {"colorTexture"},
   LightInfoUSD |-> LightInfoUSDDeletes]

(* deserializeFromQueue, and the end of the structure with the handler.     *)
deserializeFromQueue ==
  /\ blob # <<>> /\ got = <<>>
  /\ got' = Deserialize(given[1], blob)
  /\ allocated' = Allocates(given)
  /\ UNCHANGED <<g_bInterfaceInitialized, exposeRemixApi, given, blob>>

EndOfStructure ==
  /\ got # <<>>
  /\ allocated' = IF given[1] \in DOMAIN Deletes
                  THEN {a \in allocated : a[2] \notin Deletes[given[1]]} ELSE allocated
  /\ given' = <<>> /\ blob' = <<>> /\ got' = <<>>
  /\ UNCHANGED <<g_bInterfaceInitialized, exposeRemixApi>>

RemixNext ==
  \/ InitializeLibrary \/ deserializeFromQueue \/ EndOfStructure
  \/ \E s \in DOMAIN Structures : \E v \in Values(s) : serializeAndSend(<<s, v>>)
  \/ \E surfaces \in {<<>>} \cup [1..1 -> Surfaces] \cup [1..2 -> Surfaces] :
       serializeAndSend(<<"MeshInfo", <<[f \in {"sType", "hash"} |-> <<f, 0>>], surfaces>>>>)
  \/ \E n \in 0..2 :
       serializeAndSend(<<"InstanceInfoTransforms", <<<<"sType", 0>>, n>>>>)

--------------------------------------------------------------------------------
(* What the server has read is what the game gave.                          *)
ReadBack ==
  LET struct == given[1]  value == given[2]  read == got[2]
  IN CASE struct = "MeshInfo" ->
            /\ read[1] = value[1]
            /\ read[2] = [i \in DOMAIN value[2] |-> SurfaceGiven(value[2][i])]
       [] struct = "InstanceInfoTransforms" ->
            read = <<value[1], [i \in 1..value[2] |-> <<"bone", i>>]>>
       [] OTHER -> read = value

(* The skins whose arrays are as large as they are taken for: a vertex's    *)
(* tuple is counted once more for each vertex and for each bone.            *)
Fits(s) ==
  s.skin # <<>> => /\ BlendSize(s.vertices, s.skin.weights, s.skin.bones) = s.skin.weights * 4
                   /\ BlendSize(s.vertices, s.skin.indices, s.skin.bones) = s.skin.indices * 4

(* A structure fills the buffer that was made for it to the last byte; the  *)
(* server reads every member that is sent as the game gave it, whichever    *)
(* paths, optional values and arrays are there and however long they are,   *)
(* and ends at the end of the block; it frees what it allocated (the mesh's *)
(* array of surfaces is the one it keeps).  Not claimed: the members no     *)
(* list has (pNext, the volumetric radiance scales, the diffusion profile), *)
(* and the contents of a mesh with a skin that does not fit, which is every *)
(* one of several vertices or bones whose arrays have the size that         *)
(* remix_c.h asks for.                                                      *)
RoundTrip ==
  /\ blob # <<>> => Len(blob) = Size(given)
  /\ got # <<>> =>
       /\ got[1] = Len(blob)
       /\ \/ ReadBack
          \/ given[1] = "MeshInfo" /\ \E i \in DOMAIN given[2][2] : ~Fits(given[2][2][i])
  /\ got = <<>> => allocated \subseteq {<<0, "surfaces_values">>}
================================================================================
