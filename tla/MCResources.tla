------------------------------ MODULE MCResources ------------------------------
(***************************************************************************)
(* The device and its resources for TLC.  A behaviour is about the shared  *)
(* heap and the locks of buffers in it, about the reference counts of a    *)
(* device and its objects under three threads, about the bytes of one      *)
(* surface, or about the device's state; what one of them changes, no step *)
(* of the others reads.                                                    *)
(***************************************************************************)
EXTENDS Lockable, Objects, Images, DeviceState

VARIABLE about

allVars == <<lockableVars, objectVars, imageVars, stateVars, about>>

(* A small heap: resources of one and three chunks, a first segment of two. *)
Sizes == ("one" :> 1) @@ ("two" :> 2) @@ ("three" :> 3)
MCSize == [r \in Resources |-> Sizes[r]]

(* Whole surfaces and parts of them, of pixels and of blocks, with a block  *)
(* at the edge and with rows the server pads; every row has at least eight  *)
(* bytes.                                                                   *)
Shape(f, w, h, r) == [format |-> f, width |-> w, height |-> h, rects |-> r \cup {<<0, 0, w, h>>}]

WideShapes ==
  {Shape("A8R8G8B8", 3, 2, {<<1, 0, 3, 2>>, <<0, 1, 2, 2>>}),
   Shape("DXT1", 6, 6, {<<4, 4, 6, 6>>, <<0, 0, 4, 6>>}),
   Shape("R8G8B8", 3, 2, {<<0, 1, 3, 2>>})}

(* One pixel, as games read an average back.                                *)
NarrowShapes == {Shape("A8R8G8B8", 1, 2, {})}

--------------------------------------------------------------------------------
InitAll ==
  /\ about \in {"heap", "objects", "images", "state"}
  /\ InitLockable /\ InitObjects /\ InitImages /\ InitState
  /\ about = "images" \/ (surface = (CHOOSE s \in Shapes : TRUE) /\ ~useSharedHeap /\ ~captured)

(* The game may leave a heap and a surface alone; a thread that waits for   *)
(* the device's lock must get it.                                           *)
NextAll ==
  \/ about = "heap" /\ LockableNext /\ UNCHANGED <<objectVars, imageVars, stateVars, about>>
  \/ about = "objects" /\ ObjectsNext /\ UNCHANGED <<lockableVars, imageVars, stateVars, about>>
  \/ about = "images" /\ ImagesNext /\ UNCHANGED <<lockableVars, objectVars, stateVars, about>>
  \/ about = "state" /\ StateNext /\ UNCHANGED <<lockableVars, objectVars, imageVars, about>>
  \/ about \in {"heap", "images"} /\ UNCHANGED allVars

AllSpec == InitAll /\ [][NextAll]_allVars

(* Taint never goes away, and a state in which every slot is tainted        *)
(* satisfies the safety properties of DeviceState as all its successors do: *)
(* nothing is lost by stopping.                                             *)
Untainted == about = "state" => tainted # Slots

================================================================================
