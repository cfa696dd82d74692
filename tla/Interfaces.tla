----------------------------- MODULE Interfaces -----------------------------
(***************************************************************************)
(* What the client's objects promise as COM objects, and the levels of a   *)
(* texture.  QueryInterface, GetContainer, GetDevice, GetSurfaceLevel and  *)
(* its kin each hand out a reference: a level has no count of its own, its *)
(* references are its texture's; an object's are also one to the device;   *)
(* and the device subtracts from what it tells the game the references its *)
(* implicit objects hold.  Games read those numbers (while Release()).     *)
(*                                                                         *)
(* Levels are made when first asked for, and a command then tells the      *)
(* server which level the new handle stands for; the server's reference to *)
(* the level is one to its texture, which safeDestroy must give back.      *)
(*                                                                         *)
(* One behaviour is about a device and one object of some class, called by *)
(* one thread; the command queue keeps the commands' order.                *)
(***************************************************************************)
EXTENDS Naturals, Sequences, FiniteSets

CONSTANTS
  Descs,         \* TEXTURE_DESCs: their levels, and whether AUTOGENMIPMAP is set
  ImplicitRefs,  \* m_implicitRefCnt: the device's swap chain and surfaces
  MaxHeld,       \* references the game holds at a time
  AskedFaces, AskedLevels,  \* faces and levels it asks for, some of them out of range
  MaxLevels,     \* levels made
  MaxSent        \* commands under way

ASSUME InterfacesAssumption ==
  /\ Descs # {} /\ Descs \subseteq [levels : Nat, autogen : BOOLEAN]
  /\ ImplicitRefs \in Nat /\ MaxHeld \in Nat /\ MaxLevels \in Nat /\ MaxSent \in Nat
  /\ AskedFaces \subseteq Nat /\ AskedLevels \subseteq Nat

-----------------------------------------------------------------------------
(* What each class answers QueryInterface with, itself with one reference   *)
(* more, and whether its GetDevice refuses a null pointer (the others       *)
(* write through it).                                                       *)

Class(answers, checked) == [answers |-> answers, checked |-> checked]

Resource == {"IUnknown", "IDirect3DResource9"}
BaseTexture == Resource \cup {"IDirect3DBaseTexture9"}

Direct3DResource9 == Class(Resource, TRUE)
Direct3DTexture9 == Class(BaseTexture \cup {"IDirect3DTexture9"}, Direct3DResource9.checked)
Direct3DCubeTexture9 == Class(BaseTexture \cup {"IDirect3DCubeTexture9"}, Direct3DResource9.checked)
Direct3DVolumeTexture9 == Class(BaseTexture \cup {"IDirect3DVolumeTexture9"}, Direct3DResource9.checked)
Direct3DSurface9 == Class(Resource \cup {"IDirect3DSurface9"}, Direct3DResource9.checked)
Direct3DVertexBuffer9 == Class(Resource \cup {"IDirect3DVertexBuffer9"}, Direct3DResource9.checked)
Direct3DIndexBuffer9 == Class(Resource \cup {"IDirect3DIndexBuffer9"}, Direct3DResource9.checked)
Direct3DVolume9 == Class({"IUnknown", "IDirect3DVolume9"}, FALSE)
Direct3DQuery9 == Class({"IUnknown", "IDirect3DQuery9"}, FALSE)
Direct3DStateBlock9 == Class({"IUnknown", "IDirect3DStateBlock9"}, TRUE)
Direct3DVertexDeclaration9 == Class({"IUnknown", "IDirect3DVertexDeclaration9"}, FALSE)
Direct3DVertexShader9 == Class({"IUnknown", "IDirect3DVertexShader9"}, TRUE)
Direct3DPixelShader9 == Class({"IUnknown", "IDirect3DPixelShader9"}, FALSE)
Direct3DSwapChain9 == Class({"IUnknown", "IDirect3DSwapChain9"}, TRUE)
Direct3DDevice9(ex) ==
  Class({"IUnknown", "IDirect3DDevice9"} \cup (IF ex THEN {"IDirect3DDevice9Ex"} ELSE {}), TRUE)

TextureIIDs == {"IDirect3DTexture9", "IDirect3DCubeTexture9", "IDirect3DVolumeTexture9"}
Classes(iid) ==
  CASE iid = "IDirect3DTexture9" -> Direct3DTexture9
    [] iid = "IDirect3DCubeTexture9" -> Direct3DCubeTexture9
    [] iid = "IDirect3DVolumeTexture9" -> Direct3DVolumeTexture9
    [] iid = "IDirect3DSurface9" -> Direct3DSurface9
    [] iid = "IDirect3DVertexBuffer9" -> Direct3DVertexBuffer9
    [] iid = "IDirect3DIndexBuffer9" -> Direct3DIndexBuffer9
    [] iid = "IDirect3DQuery9" -> Direct3DQuery9
    [] iid = "IDirect3DStateBlock9" -> Direct3DStateBlock9
    [] iid = "IDirect3DVertexDeclaration9" -> Direct3DVertexDeclaration9
    [] iid = "IDirect3DVertexShader9" -> Direct3DVertexShader9
    [] iid = "IDirect3DPixelShader9" -> Direct3DPixelShader9
    [] iid = "IDirect3DSwapChain9" -> Direct3DSwapChain9

ResourceIIDs == {"IDirect3DSurface9", "IDirect3DVertexBuffer9", "IDirect3DIndexBuffer9"}
OtherIIDs == {"IDirect3DQuery9", "IDirect3DStateBlock9", "IDirect3DVertexDeclaration9",
              "IDirect3DVertexShader9", "IDirect3DPixelShader9", "IDirect3DSwapChain9"}
ClassIIDs == TextureIIDs \cup ResourceIIDs \cup OtherIIDs
IIDs == ClassIIDs \cup {"IUnknown", "IDirect3DResource9", "IDirect3DBaseTexture9",
                        "IDirect3DVolume9", "IDirect3DDevice9", "IDirect3DDevice9Ex"}

\* d3d9.h: what each interface is derived from, in three steps at most
Base(iid) ==
  IF iid \in TextureIIDs THEN "IDirect3DBaseTexture9"
  ELSE IF iid \in {"IDirect3DBaseTexture9"} \cup ResourceIIDs THEN "IDirect3DResource9"
  ELSE IF iid = "IDirect3DDevice9Ex" THEN "IDirect3DDevice9" ELSE "IUnknown"
Derived(iid) == {iid, Base(iid), Base(Base(iid)), Base(Base(Base(iid)))}

-----------------------------------------------------------------------------
VARIABLES
  class,     \* the object's class
  desc,      \* m_desc of a texture
  ex,        \* m_ex of the device
  count,     \* interface counts of the two
  child,     \* m_children: the handles of the levels made, 0 for none
  nextId,    \* the next handle
  refs,      \* the game's references, per pointer it was given
  answer,    \* what the last call told the game
  commands,      \* commands under way
  table,     \* the server's handles of levels: handle -> face and level
  server     \* references to the server's object, 0 when it is gone

interfaceVars == <<class, desc, ex, count, child, nextId, refs, answer, commands, table, server>>

Dev == <<"device", 0>>
Obj == <<"object", 0>>
Level(i) == <<"level", i>>
Owners == {Dev, Obj}

IsTexture == class \in TextureIIDs

\* getCubeSurfaceIndex; the other textures have one face
getCubeSurfaceIndex(face, level) == face + level * 6
FaceCount == IF class = "IDirect3DCubeTexture9" THEN 6 ELSE 1
Faces == 0..FaceCount - 1
Index(face, level) ==
  IF class = "IDirect3DCubeTexture9" THEN getCubeSurfaceIndex(face, level) ELSE level

\* AUTOGENMIPMAP textures show one level
GetLevelCount == IF desc.autogen THEN 1 ELSE desc.levels
Children == IF IsTexture THEN 0..GetLevelCount * FaceCount - 1 ELSE {}
Pointers == Owners \cup {Level(i) : i \in Children}

Owner(p) == IF p \in Owners THEN p ELSE Obj
ClassOf(p) ==
  IF p = Dev THEN Direct3DDevice9(ex)
  ELSE IF p = Obj THEN Classes(class)
  ELSE IF class = "IDirect3DVolumeTexture9" THEN Direct3DVolume9 ELSE Direct3DSurface9
Iid(p) ==
  IF p = Dev THEN IF ex THEN "IDirect3DDevice9Ex" ELSE "IDirect3DDevice9"
  ELSE IF p = Obj THEN class
  ELSE IF class = "IDirect3DVolumeTexture9" THEN "IDirect3DVolume9" ELSE "IDirect3DSurface9"

\* The game's references to ps, one by one, and how many they are
Given(ps) == UNION {{p} \X (1..refs[p]) : p \in ps}
Held(ps) == Cardinality(Given(ps))
Alive(x) == count[x] > 0

-----------------------------------------------------------------------------
(* What the calls do                                                        *)

\* The number AddRef and Release answer; nothing is kept of other calls
Counts(p, n) == answer' = [from |-> Owner(p), count |-> n]
Silent == [from |-> Dev, count |-> ImplicitRefs + MaxHeld + 2]
NoCount == answer' = Silent

\* D3DBase::AddRef of an object that is referenced, on behalf of a pointer
AddRef(p) ==
  /\ count' = [count EXCEPT ![Owner(p)] = @ + 1]
  /\ refs' = [refs EXCEPT ![p] = @ + 1]

Told(x) == IF x = Dev THEN count[Dev] - ImplicitRefs ELSE count[x]

\* Commands, and the entries the server keeps of its handles of levels
DestroyObject == [op |-> "Destroy"]
UnlinkLevel(id) == [op |-> "Unlink", id |-> id]
UseLevel(id) == [op |-> "Use", id |-> id]
LinkLevel(id, face, level) == [op |-> "Link", id |-> id, face |-> face, level |-> level]
Entry(id, face, level) == [id |-> id, face |-> face, level |-> level]

Send(cmds) == Len(commands) + Len(cmds) <= MaxSent /\ commands' = commands \o cmds

Fixed == UNCHANGED <<class, desc, ex, table, server>>
NoLevel == UNCHANGED <<child, nextId, commands>>
Using(p) == refs[p] > 0 /\ Fixed
Room == Held(Pointers) < MaxHeld

\* The game's own AddRef; the device tells its count without the implicit objects'
References(p) ==
  /\ Using(p) /\ Room
  /\ AddRef(p)
  /\ Counts(p, Told(Owner(p)) + 1)
  /\ NoLevel

\* D3DBase::Release.  The object's last reference gives back the device's,
\* sends its Destroy and destroys its levels, each of which unlinks itself.
\* The device's own Release compares what is left with the implicit objects'
\* references, and takes those with it.
Dereferences(p) ==
  LET x == Owner(p)
      dies == x = Obj /\ count[Obj] = 1
      made == {i \in Children : child[i] # 0}
      left == count[Dev] - (IF x = Dev \/ dies THEN 1 ELSE 0) IN
  /\ Using(p)
  /\ count' = [count EXCEPT ![Obj] = IF x = Obj THEN @ - 1 ELSE @,
                            ![Dev] = IF left = ImplicitRefs THEN 0 ELSE left]
  /\ refs' = [refs EXCEPT ![p] = @ - 1]
  /\ Counts(p, Told(x) - 1)
  /\ child' = IF dies THEN [i \in Children |-> 0] ELSE child
  /\ IF dies
     THEN \E order \in [1..Cardinality(made) -> made] :
            /\ \A j, k \in DOMAIN order : j < k => order[j] < order[k]
            /\ \A i \in made : \E k \in DOMAIN order : order[k] = i
            /\ Send(<<DestroyObject>> \o [k \in DOMAIN order |-> UnlinkLevel(child[order[k]])])
     ELSE UNCHANGED commands
  /\ UNCHANGED nextId

\* A call that leaves everything as it is
Refused ==
  NoCount /\ UNCHANGED <<count, refs>> /\ NoLevel

\* QueryInterface of the object behind p
Answers(p, iid) ==
  IF iid \in ClassOf(p).answers
  THEN Room /\ AddRef(p) /\ NoCount /\ NoLevel
  ELSE Refused

QueryInterface(p, iid) == Using(p) /\ Answers(p, iid)

\* The parent of a level is its texture, of a surface of its own the device
GetContainer(p, iid, null) ==
  /\ Using(p) /\ Iid(p) = "IDirect3DSurface9"
  /\ IF null THEN Refused ELSE Answers(IF p = Obj THEN Dev ELSE Obj, iid)
VolumeGetContainer(p, iid) ==
  Using(p) /\ Iid(p) = "IDirect3DVolume9" /\ Answers(Obj, iid)

GetDevice(p, null) ==
  /\ Using(p) /\ p # Dev
  /\ null => ClassOf(p).checked
  /\ IF null THEN Refused
     ELSE Room /\ AddRef(Dev) /\ NoCount /\ NoLevel

-----------------------------------------------------------------------------
(* Levels                                                                   *)

\* The client's new handle and the command that says what it stands for
MakeLevel(i, face, level, use) ==
  /\ Cardinality({j \in Children : child[j] # 0}) < MaxLevels
  /\ child' = [child EXCEPT ![i] = nextId]
  /\ nextId' = nextId + 1
  /\ Send(IF use THEN <<LinkLevel(nextId, face, level), UseLevel(nextId)>>
          ELSE <<LinkLevel(nextId, face, level)>>)

\* The level that is there, or a new one, with a reference for the game
GetLevel(face, level) ==
  LET i == Index(face, level) IN
  /\ Room
  /\ AddRef(Level(i))
  /\ NoCount
  /\ IF child[i] # 0 THEN NoLevel ELSE MakeLevel(i, face, level, FALSE)

\* A lock of the texture's and the unlock that follows: the level is made if
\* need be, with a reference that is given back
LockLevel(face, level) ==
  LET i == Index(face, level) IN
  /\ NoCount
  /\ UNCHANGED <<count, refs>>
  /\ IF child[i] # 0
     THEN Send(<<UseLevel(child[i])>>) /\ UNCHANGED <<child, nextId>>
     ELSE MakeLevel(i, face, level, TRUE)

Is(c) == Using(Obj) /\ class = c

\* Of an AUTOGENMIPMAP texture with more levels the locks do not refuse those
\* but the first, and index the children out of range: the game locks none
InRange(level) == level < GetLevelCount \/ level >= desc.levels
Made(face, level) == level < desc.levels /\ face \in Faces /\ child[Index(face, level)] # 0

GetSurfaceLevel(level) ==
  /\ Is("IDirect3DTexture9")
  /\ IF level >= GetLevelCount THEN Refused ELSE GetLevel(0, level)
LockRect(level) ==
  /\ Is("IDirect3DTexture9") /\ InRange(level)
  /\ IF level >= desc.levels THEN Refused ELSE LockLevel(0, level)
UnlockRect(level) ==
  Is("IDirect3DTexture9") /\ InRange(level) /\ ~Made(0, level) /\ Refused

GetCubeMapSurface(face, level) ==
  /\ Is("IDirect3DCubeTexture9")
  /\ IF level >= GetLevelCount \/ face > 5 THEN Refused ELSE GetLevel(face, level)
CubeLockRect(face, level) ==
  /\ Is("IDirect3DCubeTexture9") /\ InRange(level)
  /\ IF level >= desc.levels \/ face >= 6 THEN Refused ELSE LockLevel(face, level)
CubeUnlockRect(face, level) ==
  Is("IDirect3DCubeTexture9") /\ InRange(level) /\ ~Made(face, level) /\ Refused

GetVolumeLevel(level) ==
  /\ Is("IDirect3DVolumeTexture9")
  /\ IF level >= GetLevelCount THEN Refused ELSE GetLevel(0, level)
LockBox(level) ==
  /\ Is("IDirect3DVolumeTexture9") /\ InRange(level)
  /\ IF level >= desc.levels THEN Refused ELSE LockLevel(0, level)
UnlockBox(level) ==
  Is("IDirect3DVolumeTexture9") /\ InRange(level) /\ ~Made(0, level) /\ Refused

-----------------------------------------------------------------------------
(* The server                                                               *)

\* Variant with a bug: one Release of the server's object is enough
DestroyReleasingOnce == server' = server - 1 /\ UNCHANGED table

\* safeDestroy releases until nothing is left
Destroy == server' = 0 /\ UNCHANGED table

Link(id, face, level) ==
  /\ table' = table \cup {Entry(id, face, level)}
  /\ server' = server + 1

Unlink(id) == table' = {e \in table : e.id # id} /\ UNCHANGED server

Serve ==
  /\ commands # <<>>
  /\ commands' = Tail(commands)
  /\ LET c == Head(commands) IN
     \/ c.op = "Destroy" /\ Destroy
     \/ c.op = "Link" /\ Link(c.id, c.face, c.level)
     \/ c.op = "Unlink" /\ Unlink(c.id)
     \/ c.op = "Use" /\ UNCHANGED <<table, server>>
  /\ UNCHANGED <<class, desc, ex, count, child, nextId, refs, answer>>

-----------------------------------------------------------------------------

InitInterfaces ==
  /\ class \in ClassIIDs
  /\ desc \in Descs
  /\ ~IsTexture => desc = (CHOOSE d \in Descs : TRUE)
  /\ ex \in BOOLEAN
  /\ count = [x \in Owners |-> IF x = Dev THEN ImplicitRefs + 2 ELSE 1]
  /\ child = [i \in Children |-> 0]
  /\ nextId = 1
  /\ refs = [p \in Pointers |-> IF p \in Owners THEN 1 ELSE 0]
  /\ answer = Silent
  /\ commands = <<>>
  /\ table = {}
  /\ server = 1

GameCalls ==
  \/ \E p \in Pointers :
       \/ References(p) \/ Dereferences(p)
       \/ \E iid \in IIDs : QueryInterface(p, iid) \/ VolumeGetContainer(p, iid)
       \/ \E iid \in IIDs, null \in BOOLEAN : GetContainer(p, iid, null)
       \/ \E null \in BOOLEAN : GetDevice(p, null)
  \/ \E level \in AskedLevels :
       \/ GetSurfaceLevel(level) \/ LockRect(level) \/ UnlockRect(level)
       \/ GetVolumeLevel(level) \/ LockBox(level) \/ UnlockBox(level)
       \/ \E face \in AskedFaces :
            \/ GetCubeMapSurface(face, level)
            \/ CubeLockRect(face, level) \/ CubeUnlockRect(face, level)

InterfacesNext == GameCalls \/ Serve

InterfacesSpec == InitInterfaces /\ [][InterfacesNext]_interfaceVars

-----------------------------------------------------------------------------
(* Properties *)

\* Whatever a game asks of a texture, a level, a surface or the device, in
\* whatever order: an object's count is the number of references the game was
\* given to it and to its levels, the device's that and one for the object, so
\* that both die with the last of them; the numbers AddRef and Release answer
\* are the game's own; and an interface is granted when the object's interface
\* is derived from it, never otherwise.
ReferencesMatch ==
  /\ count[Obj] = Held(Pointers \ {Dev})
  /\ LET due == refs[Dev] + (IF Alive(Obj) THEN 1 ELSE 0) IN
       count[Dev] = IF due = 0 THEN 0 ELSE ImplicitRefs + due
  /\ answer # Silent =>
       answer.count = IF answer.from = Dev
                      THEN refs[Dev] + (IF Alive(Obj) THEN 1 ELSE 0)
                      ELSE Held(Pointers \ {Dev})
  /\ \A p \in Pointers : ClassOf(p).answers = Derived(Iid(p))

\* The levels the client has handles of
Named ==
  IF IsTexture
  THEN {e \in {Entry(child[Index(f, l)], f, l) : f \in Faces, l \in 0..GetLevelCount - 1} : e.id # 0}
  ELSE {}

\* No command finds a handle of a level the server does not know, or whose
\* object it has destroyed; once it has caught up, its handles stand for the
\* faces and levels at which the client keeps them, and an object the game has
\* given up holds no reference any more and has left no handle behind.
LevelsAgree ==
  /\ commands # <<>> =>
       LET c == Head(commands) IN
       /\ c.op \in {"Use", "Unlink"} => \E e \in table : e.id = c.id
       /\ c.op \in {"Use", "Link"} => server > 0
  /\ commands = <<>> =>
       /\ table = Named
       /\ server = IF Alive(Obj) THEN 1 + Cardinality(table) ELSE 0

\* Both: references are counted and levels named as COM and the server expect
ComRules == ReferencesMatch /\ LevelsAgree
=============================================================================
