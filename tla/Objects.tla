------------------------------- MODULE Objects -------------------------------
(***************************************************************************)
(* Life and death of the client's objects: D3DRefCounted, D3DAutoPtr and   *)
(* D3DBase (base.h), containers (d3d9_resource.h) and the device's own     *)
(* objects (d3d9_device.cpp).                                              *)
(*                                                                         *)
(* An object has two counts fused into one word: the interface count is    *)
(* what the game sees, the object count also has the references of the     *)
(* device's state.  It is destroyed when the object count is 0.  Its first *)
(* interface reference references its parent, its last releases it.        *)
(* Children of a container have no count of their own.  The device owns    *)
(* objects that reference it: its last release by the game must find out   *)
(* that only those are left, and a Reset takes them all away and makes new *)
(* ones without letting the device go.                                     *)
(*                                                                         *)
(* AddRef and Release take no lock: their steps, one atomic access each,   *)
(* interleave with each other and with the methods of other threads, which *)
(* hold the device lock.  A thread's steps still to be taken are its todo. *)
(***************************************************************************)
EXTENDS Naturals, FiniteSets, SequencesExt, FiniteSetsExt

CONSTANTS
  GameThreads,
  Main,      \* the thread that created the device and resets it
  RefBits,   \* width of one count (RefBitwidth, 16 in the code)
  MaxRefs,   \* references a game holds on one object
  Careful    \* see NoOther

ASSUME ObjectsAssumption ==
  Main \in GameThreads /\ RefBits \in Nat \ {0} /\ MaxRefs \in Nat /\ Careful \in BOOLEAN

Nobody == "none"
Dev == "dev"

\* The implicit swap chain and render target (the depth stencil is one more
\* like the latter), a texture of the game's, a child of each container
Implicit == {"sc", "rt"}
Tex == "tex"
Counted == Implicit \cup {Dev, Tex}
Child == [sc |-> {"bb"}, rt |-> {}, tex |-> {"level"}, dev |-> {}]
Objects == Counted \cup {"bb", "level"}
Places == {"texture", "renderTarget"}

VARIABLES
  cnt,            \* m_fusedRefCnt
  state,          \* "none" (not made yet), "live", "dead"
  implicitRefCnt, \* m_implicitRefCnt
  isDestroying,   \* m_bIsDestroying
  slot,           \* m_state.textures[0], m_state.renderTargets[0]
  lock,           \* the device lock
  refs,           \* references each thread of the game owns
  todo            \* the steps a thread has still to take

objectVars == <<cnt, state, implicitRefCnt, isDestroying, slot, lock, refs, todo>>

-----------------------------------------------------------------------------
(* The fused count *)

Half == 2^RefBits
Object(c) == c % Half                    \* toRefValue<Ref::Object>
Interface(c) == (c \div Half) % Half     \* toRefValue<Ref::Interface>
Both == 1 + Half                         \* toAdjValue<Ref::Both>(1)
Plus(c, adj) == (c + adj) % (Half * Half)
Minus(c, adj) == (c + Half * Half - adj) % (Half * Half)

-----------------------------------------------------------------------------
(* Steps: what is left to do, first things first *)

Op(op, x) == [op |-> op, x |-> x]
AddRef(x) == <<Op("AddRef", x)>>
Release(x) == <<Op("Release", x)>>
Times(n, ops) == FlattenSeq([i \in 1..n |-> ops])

\* destroyImplicitObjects: the back buffers' references are the chain's
DestroyImplicitObjects ==
  Release("rt") \o <<Op("ImplicitGone", Dev), Op("Reset", "renderTarget")>>
    \o Release("sc") \o Release("sc") \o <<Op("ImplicitGone", Dev)>>

\* releaseInternalObjects
ReleaseInternalObjects ==
  Times(implicitRefCnt, <<Op("BaseAddRef", Dev)>>)
    \o DestroyImplicitObjects
    \o <<Op("Reset", "texture"), Op("Reset", "renderTarget")>>
    \o Times(implicitRefCnt, <<Op("BaseRelease", Dev)>>)

\* initImplicitObjects: a chain with one back buffer, a bound render target
InitImplicitObjects ==
  <<Op("Construct", "sc")>> \o AddRef("sc")
    \o <<Op("SetChild", "sc")>> \o AddRef("sc") \o <<Op("ImplicitMade", Dev)>>
    \o <<Op("Construct", "rt")>> \o AddRef("rt")
    \o <<Op("Bind", "rt"), Op("Assign", "renderTarget"), Op("ImplicitMade", Dev)>>

UnlockDevice == <<Op("Unlock", Dev)>>

-----------------------------------------------------------------------------
(* What a step does to the counts and objects, and the steps that follow it *)

Keep == UNCHANGED <<implicitRefCnt, isDestroying, slot, lock, refs>>

Then(t, ops) == todo' = [todo EXCEPT ![t] = ops \o Tail(@)]

Parent(x) == IF x = Dev THEN Nobody ELSE Dev

\* D3DBase::AddRef: the first interface reference counts on the parent
DoAddRef(t, x) ==
  LET c == Plus(cnt[x], Both) IN
  /\ cnt' = [cnt EXCEPT ![x] = c]
  /\ Then(t, IF Interface(c) = 1 /\ Parent(x) # Nobody THEN AddRef(Parent(x)) ELSE <<>>)
  /\ UNCHANGED state /\ Keep

\* D3DBase::Release: the test, and the decrement after it
DoTest(t, x, dec) ==
  /\ Then(t, IF Interface(cnt[x]) # 0 THEN <<Op(dec, x)>> ELSE <<>>)
  /\ UNCHANGED <<cnt, state>> /\ Keep

\* decRef<Interface> and the release of the parent; the device's own Release
\* goes on to look at what is left
DoDec(t, x, virtual) ==
  LET c == Minus(cnt[x], Both) IN
  /\ cnt' = [cnt EXCEPT ![x] = c]
  /\ Then(t, (IF c = 0 THEN <<Op("Destroy", x)>> ELSE <<>>)
             \o (IF Interface(c) = 0 /\ Parent(x) # Nobody THEN Release(Parent(x)) ELSE <<>>)
             \o (IF x = Dev /\ virtual
                 THEN <<[op |-> "Left", x |-> Dev, cnt |-> Interface(c)]>> ELSE <<>>))
  /\ UNCHANGED state /\ Keep

\* Direct3DDevice9Ex_LSS::Release after D3DBase::Release
DoLeft(t, n) ==
  LET destroy == ~isDestroying /\ n = implicitRefCnt IN
  /\ isDestroying' = (isDestroying \/ destroy)
  /\ Then(t, IF destroy THEN ReleaseInternalObjects ELSE <<>>)
  /\ UNCHANGED <<cnt, state, implicitRefCnt, slot, lock, refs>>

\* D3DAutoPtr(obj)
DoBind(t, x) ==
  /\ cnt' = [cnt EXCEPT ![x] = Plus(@, 1)]
  /\ Then(t, <<>>)
  /\ UNCHANGED state /\ Keep

\* Mutant: the last reference of the device's state destroys nothing
DoResetLeaks(t, s) ==
  /\ slot' = [slot EXCEPT ![s] = Nobody]
  /\ cnt' = IF slot[s] = Nobody THEN cnt ELSE [cnt EXCEPT ![slot[s]] = Minus(@, 1)]
  /\ Then(t, <<>>)
  /\ UNCHANGED <<state, implicitRefCnt, isDestroying, lock, refs>>

\* D3DAutoPtr::reset(nullptr)
DoReset(t, s) ==
  LET x == slot[s] IN
  /\ slot' = [slot EXCEPT ![s] = Nobody]
  /\ IF x = Nobody
     THEN Then(t, <<>>) /\ UNCHANGED cnt
     ELSE /\ cnt' = [cnt EXCEPT ![x] = Minus(@, 1)]
          /\ Then(t, IF Object(Minus(cnt[x], 1)) = 0 THEN <<Op("Destroy", x)>> ELSE <<>>)
  /\ UNCHANGED <<state, implicitRefCnt, isDestroying, lock, refs>>

\* The move into the slot that reset(nullptr) has emptied
DoAssign(t, s) ==
  /\ slot' = [slot EXCEPT ![s] = IF s = "texture" THEN Tex ELSE "rt"]
  /\ Then(t, <<>>)
  /\ UNCHANGED <<cnt, state, implicitRefCnt, isDestroying, lock, refs>>

\* destroy(): onDestroy, delete, and the destructor of a container
DoDestroy(t, x) ==
  /\ state' = [y \in Objects |->
                 IF y = x \/ (y \in Child[x] /\ state[y] = "live") THEN "dead" ELSE state[y]]
  /\ Then(t, <<>>)
  /\ UNCHANGED cnt /\ Keep

DoConstruct(t, x) ==
  /\ state' = [y \in Objects |->
                 IF y = x THEN "live" ELSE IF y \in Child[x] THEN "none" ELSE state[y]]
  /\ cnt' = [cnt EXCEPT ![x] = 0]
  /\ Then(t, <<>>) /\ Keep

\* setChild, after the child's constructor
DoSetChild(t, x) ==
  /\ state' = [y \in Objects |-> IF y \in Child[x] THEN "live" ELSE state[y]]
  /\ Then(t, <<>>)
  /\ UNCHANGED cnt /\ Keep

DoImplicit(t, n) ==
  /\ implicitRefCnt' = n
  /\ Then(t, <<>>)
  /\ UNCHANGED <<cnt, state, isDestroying, slot, lock, refs>>

DoUnlock(t) ==
  /\ lock' = Nobody
  /\ Then(t, <<>>)
  /\ UNCHANGED <<cnt, state, implicitRefCnt, isDestroying, slot, refs>>

Step(t) ==
  /\ todo[t] # <<>>
  /\ LET o == Head(todo[t]) IN
     \/ o.op \in {"AddRef", "BaseAddRef"} /\ DoAddRef(t, o.x)
     \/ o.op = "Release" /\ DoTest(t, o.x, "Dec")
     \/ o.op = "BaseRelease" /\ DoTest(t, o.x, "BaseDec")
     \/ o.op = "Dec" /\ DoDec(t, o.x, TRUE)
     \/ o.op = "BaseDec" /\ DoDec(t, o.x, FALSE)
     \/ o.op = "Left" /\ DoLeft(t, o.cnt)
     \/ o.op = "Bind" /\ DoBind(t, o.x)
     \/ o.op = "Reset" /\ DoReset(t, o.x)
     \/ o.op = "Assign" /\ DoAssign(t, o.x)
     \/ o.op = "Destroy" /\ DoDestroy(t, o.x)
     \/ o.op = "Construct" /\ DoConstruct(t, o.x)
     \/ o.op = "SetChild" /\ DoSetChild(t, o.x)
     \/ o.op = "ImplicitMade" /\ DoImplicit(t, implicitRefCnt + 1)
     \/ o.op = "ImplicitGone" /\ DoImplicit(t, implicitRefCnt - 1)
     \/ o.op = "Unlock" /\ DoUnlock(t)

-----------------------------------------------------------------------------
(* The game: every thread uses objects it owns a reference to *)

NotBusy(t) == todo[t] = <<>>
Owns(t, x) == refs[t][x] > 0
HeldByGame(x) == FoldSet(LAMBDA t, n : refs[t][x] + n, 0, GameThreads)

Doing(t, ops) == \E i \in 1..Len(todo[t]) : todo[t][i].op \in ops
Releasing(t) == Doing(t, {"Release", "Dec", "Left"})
Resetting(t) == Doing(t, {"ImplicitMade", "ImplicitGone"})
Leaving(t) ==
  HeldByGame(Dev) = 0 /\ \E i \in 1..Len(todo[t]) :
    todo[t][i].x = Dev /\ todo[t][i].op \in {"Release", "Dec", "Left"}

\* What a careful game sees to: no Release runs while another thread resets
\* the device or gives up the game's last reference to it, and only one
\* thread at a time asks for a level that is not there yet
NoOther(t, P(_)) == Careful => \A u \in GameThreads \ {t} : ~P(u)

Game(t, ops, gain, lose, locked) ==
  /\ NotBusy(t)
  /\ locked => lock = Nobody
  /\ lock' = IF locked THEN t ELSE lock
  /\ todo' = [todo EXCEPT ![t] = ops \o (IF locked THEN UnlockDevice ELSE <<>>)]
  /\ refs' = [refs EXCEPT ![t] = [x \in DOMAIN @ |->
                @[x] + (IF x \in gain THEN 1 ELSE 0) - (IF x \in lose THEN 1 ELSE 0)]]
  /\ UNCHANGED <<cnt, state, implicitRefCnt, isDestroying, slot>>

References(t, x) ==
  Owns(t, x) /\ HeldByGame(x) < MaxRefs /\ Game(t, AddRef(x), {x}, {}, FALSE)

\* The child forwards its AddRef and Release: a texture's reference is also
\* one to its level
Dereferences(t, x) ==
  /\ Owns(t, x)
  /\ NoOther(t, Resetting) /\ NoOther(t, Leaving)
  /\ x = Dev /\ HeldByGame(Dev) = 1 => NoOther(t, Releasing)
  /\ Game(t, Release(x), {}, {x}, FALSE)

\* A reference is handed to another thread
HandsOver(t, u, x) ==
  /\ t # u /\ NotBusy(t) /\ Owns(t, x)
  /\ refs' = [refs EXCEPT ![t][x] = @ - 1, ![u][x] = @ + 1]
  /\ UNCHANGED <<cnt, state, implicitRefCnt, isDestroying, slot, lock, todo>>

CreateTexture(t) ==
  /\ Owns(t, Dev) /\ state[Tex] # "live"
  /\ \A u \in GameThreads : NotBusy(u)
  /\ Game(t, <<Op("Construct", Tex)>> \o AddRef(Tex), {Tex}, {}, FALSE)

\* GetSurfaceLevel: the child that is there, or a new one (no lock around the
\* two)
GetSurfaceLevel(t) ==
  /\ Owns(t, Tex) /\ HeldByGame(Tex) < MaxRefs
  /\ IF state["level"] = "live"
     THEN Game(t, AddRef(Tex), {Tex}, {}, FALSE)
     ELSE /\ NoOther(t, LAMBDA u : Doing(u, {"SetChild"}))
          /\ Game(t, AddRef(Tex) \o <<Op("SetChild", Tex)>>, {Tex}, {}, FALSE)

PutTexture(t) ==
  /\ Owns(t, Dev) /\ Owns(t, Tex)
  /\ Game(t, <<Op("Bind", Tex), Op("Reset", "texture"), Op("Assign", "texture")>>,
          {}, {}, TRUE)

ClearTexture(t) ==
  Owns(t, Dev) /\ Game(t, <<Op("Reset", "texture")>>, {}, {}, TRUE)

\* GetTexture may bring an object back that the game holds no reference to
GetTexture(t) ==
  /\ Owns(t, Dev) /\ slot["texture"] = Tex /\ HeldByGame(Tex) < MaxRefs
  /\ Game(t, AddRef(Tex), {Tex}, {}, TRUE)

\* GetRenderTarget reads the slot under the lock and references what it read
\* after it; the game uses the surface and releases it
GetRenderTarget(t) ==
  /\ Owns(t, Dev) /\ slot["renderTarget"] = "rt" /\ lock = Nobody
  /\ NoOther(t, Resetting)
  /\ Game(t, AddRef("rt") \o Release("rt"), {}, {}, FALSE)

ResetDevice ==
  /\ Owns(Main, Dev) /\ NoOther(Main, Releasing)
  /\ Game(Main, ReleaseInternalObjects \o InitImplicitObjects, {}, {}, TRUE)

Terminated ==
  /\ \A t \in GameThreads : NotBusy(t) /\ \A x \in {Dev, Tex} : refs[t][x] = 0
  /\ UNCHANGED objectVars

-----------------------------------------------------------------------------

\* The device just constructed, its implicit objects about to be made
InitObjects ==
  /\ cnt = [x \in Counted |-> IF x = Dev THEN Both ELSE 0]
  /\ state = [x \in Objects |-> IF x = Dev THEN "live" ELSE "none"]
  /\ implicitRefCnt = 0 /\ isDestroying = FALSE
  /\ slot = [s \in Places |-> Nobody] /\ lock = Nobody
  /\ refs = [t \in GameThreads |-> [x \in {Dev, Tex} |-> IF t = Main /\ x = Dev THEN 1 ELSE 0]]
  /\ todo = [t \in GameThreads |-> IF t = Main THEN InitImplicitObjects ELSE <<>>]

ObjectsNext ==
  \/ \E t \in GameThreads :
       \/ Step(t)
       \/ \E x \in {Dev, Tex} :
            References(t, x) \/ Dereferences(t, x) \/ \E u \in GameThreads : HandsOver(t, u, x)
       \/ CreateTexture(t) \/ GetSurfaceLevel(t) \/ PutTexture(t) \/ ClearTexture(t)
       \/ GetTexture(t) \/ GetRenderTarget(t)
  \/ ResetDevice
  \/ Terminated


-----------------------------------------------------------------------------
(* Properties *)

Pending(ops, x) ==
  FoldSet(LAMBDA t, n : n + Cardinality({i \in 1..Len(todo[t]) :
            todo[t][i].op \in ops /\ todo[t][i].x = x}), 0, GameThreads)
Due(x) == Pending({"Release", "Dec", "BaseRelease", "BaseDec"}, x)
Coming(x) == Pending({"AddRef", "BaseAddRef"}, x)

\* Part of LifetimesExact: the device's interface count is, at every step of
\* every thread, the game's references and one for each object of which the
\* game or the device has a reference, up to the calls of AddRef and Release
\* under way; likewise the texture's two counts, of which the object count also
\* has the binding.  In particular neither count runs over into the other.
CountsExact ==
  /\ state[Dev] = "live" =>
       Interface(cnt[Dev]) + Coming(Dev)
         = HeldByGame(Dev) + Due(Dev)
             + Cardinality({x \in Counted \ {Dev} : Interface(cnt[x]) > 0})
  /\ state[Tex] = "live" =>
       /\ Interface(cnt[Tex]) + Coming(Tex) = HeldByGame(Tex) + Due(Tex)
       /\ Object(cnt[Tex]) + Pending({"Bind"}, Tex)
            = Interface(cnt[Tex])
                + Cardinality({s \in Places : slot[s] = Tex})
                + (IF lock = Nobody THEN 0 ELSE Pending({"Assign"}, "texture"))

\* Part of LifetimesExact: no thread is about to touch an object that another
\* one, or an earlier step of its own call, has destroyed.
NoUseAfterFree ==
  \A t \in GameThreads : ~NotBusy(t) =>
    LET o == Head(todo[t]) IN
    o.op \notin {"Construct", "Unlock", "Reset", "Assign"} => state[o.x] = "live"

\* Second half: when no thread is in a call an object lives exactly as long as
\* somebody refers to it, and children exactly as long as their container: the
\* last reference of all takes the device, its implicit objects and what is
\* still bound with it, and a Reset leaves the device and a full set of them.
LivesWhileReferenced ==
  (\A t \in GameThreads : NotBusy(t)) =>
    /\ \A x \in Counted : (state[x] = "live") = (cnt[x] > 0)
    /\ \A x \in Counted, y \in Objects : y \in Child[x] /\ state[y] = "live" => state[x] = "live"
    /\ \A x \in Implicit \cup {Dev} : (state[x] = "live") = (HeldByGame(Dev) + HeldByGame(Tex) > 0)

\* Objects of a careful game (NoOther) are never used too late and never live
\* too long: AddRef, Release, Reset and the pointers of the state destroy each
\* object when its last reference of any kind goes, no thread touches it
\* afterwards, and the two counts in one word are what the references make
\* them.  A Release that runs while another thread resets the device is not
\* among its claims: it takes no lock, and in the middle of the Reset it finds
\* the count of a device that nobody holds.
LifetimesExact == CountsExact /\ NoUseAfterFree /\ LivesWhileReferenced

=============================================================================
