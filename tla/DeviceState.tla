---------------------------- MODULE DeviceState ----------------------------
(***************************************************************************)
(* The Direct3D device of a game lives in the server.  The client keeps a  *)
(* shadow of its state, m_state, to answer the game's getters and to drop  *)
(* setter calls that would store what is stored already; it keeps a shadow *)
(* of every state block too.  Hot setters are collected in a batch that    *)
(* goes to the server before the next command of any other kind.           *)
(*                                                                         *)
(* A slot is one piece of device state and is named after its setter.  The *)
(* setters differ in when they elide a call, in how many lock scopes they  *)
(* store and forward it, and in whether they batch it: Setter says how.    *)
(* The commands reach the server in the order in which they are completed  *)
(* (ThreadOrder of module Bridge), so the server's device is updated in    *)
(* the step that sends a command.  Values stand for the arguments of a     *)
(* setter, Default for the value of a slot on a new device.                *)
(***************************************************************************)
EXTENDS Naturals, Sequences, FiniteSets, FiniteSetsExt

CONSTANTS
    Threads,        \* the game's threads that use the device
    Slots,          \* the modelled pieces of device state
    Values,         \* what a setter may write
    Default,        \* the value of every slot of a new or reset device
    Blocks,         \* handles of IDirect3DStateBlock9 objects
    NoBlock,
    BatchCapacity   \* records that fit in m_batchBuf

VARIABLES
    m_state,          \* the client's shadow of the device
    m_stateRecording, \* the block being recorded by the client, or NoBlock
    blocks,           \* the client's state blocks: dirty slot |-> captured value
    batch,            \* records appended to m_batchBuf since the last flush
    pending,          \* the call of a thread between its two lock scopes
    server,           \* the device, its recorder and its blocks in the server
    tainted           \* ghost: slots in which a known gap parted the two sides

stateVars == <<m_state, m_stateRecording, blocks, batch, pending, server, tainted>>

-----------------------------------------------------------------------------
(* The setters of the device *)

Trait(elides, second, batched, records) ==
    [elides |-> elides, second |-> second, batched |-> batched,
     records |-> records]

\* elides : "always", "live" (only outside a recording) or "never";
\* second : "none" (one scope), "locked" (a second scope of the same lock) or
\*          "unlocked" (a Command on its own after the scope);
\* batched: outside a recording the call becomes a record of the batch;
\* records: during a recording the call goes to the block, not to m_state.
SetRenderState        == Trait("always", "none", TRUE, TRUE)
SetSamplerState       == Trait("always", "none", TRUE, TRUE)
SetTextureStageState  == Trait("always", "locked", TRUE, TRUE)
SetTexture            == Trait("live", "none", TRUE, TRUE)
SetVertexShader       == Trait("live", "none", TRUE, TRUE)
SetPixelShader        == Trait("live", "none", TRUE, TRUE)
SetStreamSource       == Trait("live", "none", TRUE, TRUE)
SetStreamSourceFreq   == Trait("live", "none", TRUE, TRUE)
SetIndices            == Trait("live", "none", TRUE, TRUE)
SetVertexDeclaration  == Trait("live", "none", TRUE, FALSE)
SetVertexShaderConstantF == Trait("live", "unlocked", TRUE, TRUE)
SetPixelShaderConstantF  == Trait("live", "unlocked", TRUE, TRUE)
SetVertexShaderConstantI == Trait("never", "unlocked", FALSE, TRUE)
SetVertexShaderConstantB == Trait("never", "unlocked", FALSE, TRUE)
SetPixelShaderConstantI  == Trait("never", "unlocked", FALSE, TRUE)
SetPixelShaderConstantB  == Trait("never", "unlocked", FALSE, TRUE)
SetTransform          == Trait("always", "unlocked", FALSE, TRUE)
SetLight              == Trait("always", "unlocked", FALSE, TRUE)
LightEnable           == Trait("always", "unlocked", FALSE, TRUE)
SetViewport           == Trait("live", "unlocked", FALSE, TRUE)
SetMaterial           == Trait("never", "unlocked", FALSE, TRUE)
SetClipPlane          == Trait("never", "unlocked", FALSE, TRUE)
SetScissorRect        == Trait("never", "unlocked", FALSE, TRUE)

Setter ==
    [renderStates |-> SetRenderState, samplerStates |-> SetSamplerState,
     textureStageStates |-> SetTextureStageState, textures |-> SetTexture,
     vertexShader |-> SetVertexShader, pixelShader |-> SetPixelShader,
     streams |-> SetStreamSource, streamFreqs |-> SetStreamSourceFreq,
     indices |-> SetIndices, vertexDecl |-> SetVertexDeclaration,
     vertexFConsts |-> SetVertexShaderConstantF,
     vertexIConsts |-> SetVertexShaderConstantI,
     vertexBConsts |-> SetVertexShaderConstantB,
     pixelFConsts |-> SetPixelShaderConstantF,
     pixelIConsts |-> SetPixelShaderConstantI,
     pixelBConsts |-> SetPixelShaderConstantB,
     transforms |-> SetTransform, lights |-> SetLight,
     bLightEnables |-> LightEnable, viewport |-> SetViewport,
     material |-> SetMaterial, clipPlanes |-> SetClipPlane,
     scissorRect |-> SetScissorRect]

\* The slots ResetState and releaseInternalObjects write, and those the base
\* constructor initialises to the device's defaults once (lights live in a map
\* whose entries start out zeroed).  Materials, clip planes and shader
\* constants are neither initialised nor reset.
ResetState ==
    Slots \cap {"renderStates", "samplerStates", "textureStageStates",
                "bLightEnables", "streamFreqs"}

releaseInternalObjects ==
    Slots \cap {"textures", "streams", "indices", "vertexShader",
                "pixelShader", "vertexDecl"}

BaseDirect3DDevice9Ex_LSS ==
    Slots \cap {"transforms", "viewport", "scissorRect", "lights"}

\* The slots a block created with D3DSBT_ALL captures in the client.
\* (A sampler state is flagged one index above the one its setter writes:
\* "samplerStates" is the first of them, which no flag covers.)
StateBlockSetPixelCaptureFlags ==
    {"renderStates", "textureStageStates",
     "pixelFConsts", "pixelIConsts", "pixelBConsts"}

StateBlockSetVertexCaptureFlags ==
    {"renderStates", "vertexDecl", "streamFreqs",
     "vertexFConsts", "vertexIConsts", "vertexBConsts"}

StateBlockSetCaptureFlags ==
    Slots \cap (StateBlockSetPixelCaptureFlags
                  \cup StateBlockSetVertexCaptureFlags
                  \cup {"textures", "streams", "indices", "viewport",
                        "scissorRect", "clipPlanes", "transforms", "material"})

ASSUME SlotsAssumption == Slots \subseteq DOMAIN Setter
ASSUME ValuesAssumption == Default \in Values
ASSUME BlocksAssumption == NoBlock \notin Blocks
ASSUME CapacityAssumption == BatchCapacity \in Nat \ {0}

-----------------------------------------------------------------------------
(* The server's side *)

Nothing == [s \in {} |-> Default]

\* A map with one entry, and a map whose entries hide those of another.
Entry(k, v) == [x \in {k} |-> v]
Over(f, g)  == [x \in DOMAIN f \cup DOMAIN g |-> IF x \in DOMAIN f THEN f[x] ELSE g[x]]

\* The device stores a value, or records it between Begin- and EndStateBlock.
Write(srv, writes) ==
    IF srv.isRecording THEN [srv EXCEPT !.recorded = Over(writes, @)]
                       ELSE [srv EXCEPT !.device = Over(writes, @)]

\* What the records of the batch leave behind when they are replayed in order.
LastWrites(records) ==
    [s \in {records[i].slot : i \in DOMAIN records} |->
        records[Max({i \in DOMAIN records : records[i].slot = s})].value]

StateBatch(srv) ==
    IF srv.down THEN srv ELSE Write(srv, LastWrites(batch))

\* CreateStateBlock, Capture and Apply fail during a recording, EndStateBlock
\* outside one.  Capture and Apply of a handle the server does not know go
\* through a null pointer.
BeginStateBlock_server(srv) ==
    IF srv.isRecording THEN srv
    ELSE [srv EXCEPT !.isRecording = TRUE, !.recorded = Nothing]

EndStateBlock_server(srv, b) ==
    IF ~srv.isRecording THEN srv
    ELSE [srv EXCEPT !.isRecording = FALSE, !.recorded = Nothing,
                     !.blocks = Over(Entry(b, srv.recorded), @)]

CreateStateBlock_server(srv, b) ==
    IF srv.isRecording THEN srv
    ELSE [srv EXCEPT !.blocks = Over(Entry(b, srv.device), @)]

Capture_server(srv, b) ==
    IF b \notin DOMAIN srv.blocks THEN [srv EXCEPT !.down = TRUE]
    ELSE IF srv.isRecording THEN srv
    ELSE [srv EXCEPT !.blocks[b] = [s \in DOMAIN @ |-> srv.device[s]]]

Apply_server(srv, b) ==
    IF b \notin DOMAIN srv.blocks THEN [srv EXCEPT !.down = TRUE]
    ELSE IF srv.isRecording THEN srv
    ELSE [srv EXCEPT !.device = Over(srv.blocks[b], @)]

Destroy_server(srv, b) ==
    [srv EXCEPT !.blocks = [x \in DOMAIN @ \ {b} |-> @[x]]]

Reset_server(srv) == [srv EXCEPT !.device = [s \in Slots |-> Default]]

Deliver(srv, m) ==
    IF srv.down THEN srv ELSE
    CASE m.op = "set" -> Write(srv, Entry(m.slot, m.value))
      [] m.op = "begin" -> BeginStateBlock_server(srv)
      [] m.op = "end" -> EndStateBlock_server(srv, m.block)
      [] m.op = "create" -> CreateStateBlock_server(srv, m.block)
      [] m.op = "capture" -> Capture_server(srv, m.block)
      [] m.op = "apply" -> Apply_server(srv, m.block)
      [] m.op = "destroy" -> Destroy_server(srv, m.block)
      [] m.op = "reset" -> Reset_server(srv)

-----------------------------------------------------------------------------
(* Messages, the batch and the two ways to send *)

NoMessage == [op |-> "none"]

Setting(slot, v) == [op |-> "set", slot |-> slot, value |-> v]
About(op, b)     == [op |-> op, block |-> b]

NotSent(m) == [msg |-> m, flushed |-> FALSE]
Idle(t)    == pending[t] = NotSent(NoMessage)
Done(t)    == pending' = [pending EXCEPT ![t] = NotSent(NoMessage)]
Later(t, m) == pending' = [pending EXCEPT ![t] = NotSent(m)]

Recording   == m_stateRecording # NoBlock
batchActive == ~Recording

flushStateBatch == server' = StateBatch(server) /\ batch' = <<>>

\* A Command constructed while its thread holds the device lock: nothing comes
\* between the flush of the batch and the message.
Command(m) ==
    /\ server' = Deliver(StateBatch(server), m)
    /\ batch' = <<>>

batchCmd(slot, v) ==
    LET record == [slot |-> slot, value |-> v]
    IN  IF Len(batch) = BatchCapacity
        THEN /\ server' = StateBatch(server)
             /\ batch' = <<record>>
        ELSE /\ batch' = Append(batch, record)
             /\ UNCHANGED server

Forward(slot, v) ==
    IF Setter[slot].batched /\ batchActive
    THEN batchCmd(slot, v)
    ELSE Command(Setting(slot, v))

-----------------------------------------------------------------------------
(* Ghost: the known gaps between the two sides *)

\* The slots a message reads or writes in the server or in the client.
BlockSlots(b) ==
    (IF b \in DOMAIN blocks THEN DOMAIN blocks[b] ELSE {})
      \cup (IF b \in DOMAIN server.blocks THEN DOMAIN server.blocks[b] ELSE {})

Touched(m) ==
    CASE m.op \in {"none", "destroy"} -> {}
      [] m.op = "set" -> {m.slot}
      [] m.op \in {"capture", "apply"} -> BlockSlots(m.block)
      [] m.op \in {"begin", "create"} -> Slots

\* The slots of X that a call of another thread is in the middle of.
Raced(t, X) ==
    X \cap UNION {Touched(pending[u].msg) : u \in Threads \ {t}}

-----------------------------------------------------------------------------
(* The client's calls *)

\* An elided call returns S_OK and changes nothing: it is a stuttering step.
Redundant(slot, v) ==
    \/ /\ ~Recording
       /\ Setter[slot].elides \in {"always", "live"}
       /\ m_state[slot] = v
    \/ /\ Recording
       /\ Setter[slot].elides = "always"
       /\ slot \in DOMAIN blocks[m_stateRecording]
       /\ blocks[m_stateRecording][slot] = v

Store(slot, v) ==
    IF Recording /\ Setter[slot].records
    THEN /\ blocks' = [blocks EXCEPT ![m_stateRecording] = Over(Entry(slot, v), @)]
         /\ UNCHANGED m_state
    ELSE /\ m_state' = [m_state EXCEPT ![slot] = v]
         /\ UNCHANGED blocks

Set(t, slot, v) ==
    /\ Idle(t)
    /\ ~Redundant(slot, v)
    /\ Store(slot, v)
    /\ IF Setter[slot].second = "none"
       THEN Forward(slot, v) /\ UNCHANGED pending
       ELSE Later(t, Setting(slot, v)) /\ UNCHANGED <<batch, server>>
    /\ tainted' = tainted \cup Raced(t, {slot})
                    \cup (IF Recording /\ ~Setter[slot].records THEN {slot} ELSE {})
    /\ UNCHANGED m_stateRecording

\* The second scope of a batched setter: the batch is open, or the setter still
\* holds the lock when it constructs its Command.
ForwardPending(t) ==
    LET m == pending[t].msg
    IN  /\ m.op = "set" /\ ~pending[t].flushed
        /\ Setter[m.slot].batched
        /\ Setter[m.slot].second = "locked" \/ batchActive
        /\ Forward(m.slot, m.value)
        /\ Done(t)
        /\ UNCHANGED <<m_state, m_stateRecording, blocks, tainted>>

(* Variant with a bug: the constructor of a Command leaves the batch alone. *)
FlushForgotten(t) ==
    /\ ~Idle(t) /\ ~pending[t].flushed
    /\ pending[t].msg.op = "set" => ~Setter[pending[t].msg.slot].batched
    /\ pending' = [pending EXCEPT ![t].flushed = TRUE]
    /\ UNCHANGED <<m_state, m_stateRecording, blocks, batch, server, tainted>>

\* The constructor of a Command flushes the batch in a critical section of its
\* own; the message follows in another.
FlushBefore(t) ==
    LET m == pending[t].msg
    IN  /\ ~Idle(t) /\ ~pending[t].flushed
        /\ m.op = "set" => /\ ~(Setter[m.slot].batched /\ batchActive)
                           /\ ~(Setter[m.slot].batched
                                  /\ Setter[m.slot].second = "locked")
        /\ flushStateBatch
        /\ pending' = [pending EXCEPT ![t].flushed = TRUE]
        /\ UNCHANGED <<m_state, m_stateRecording, blocks, tainted>>

Send(t) ==
    LET m == pending[t].msg
    IN  /\ pending[t].flushed
        /\ server' = Deliver(server, m)
        /\ Done(t)
        /\ UNCHANGED <<m_state, m_stateRecording, batch, blocks, tainted>>

\* The product is computed and stored in the client; no message is sent.
MultiplyTransform(t, v) ==
    /\ "transforms" \in Slots
    /\ Idle(t)
    /\ Store("transforms", v)
    /\ tainted' = tainted \cup {"transforms"}
    /\ UNCHANGED <<m_stateRecording, batch, pending, server>>

\* A handle is fresh when neither side holds it and no message carries it.
Fresh(b) ==
    /\ b \notin DOMAIN blocks \cup DOMAIN server.blocks
    /\ \A t \in Threads :
          pending[t].msg.op \in {"create", "destroy"} => pending[t].msg.block # b

\* The game holds a block after CreateStateBlock or EndStateBlock returned it
\* and until its last Release.
Held(b) ==
    /\ b \in DOMAIN blocks /\ b # m_stateRecording
    /\ \A t \in Threads : pending[t].msg # About("create", b)

CreateStateBlock(t, b) ==
    /\ Idle(t) /\ Fresh(b)
    /\ ~Recording                  \* the game creates no block in a recording
    /\ blocks' = Over(Entry(b, [s \in StateBlockSetCaptureFlags |-> m_state[s]]), blocks)
    /\ Later(t, About("create", b))
    /\ tainted' = tainted \cup Raced(t, Slots)
    /\ UNCHANGED <<m_state, m_stateRecording, batch, server>>

BeginStateBlock(t, b) ==
    /\ Idle(t) /\ Fresh(b)
    /\ ~Recording
    /\ m_stateRecording' = b
    /\ blocks' = Over(Entry(b, Nothing), blocks)
    /\ Later(t, [op |-> "begin"])
    /\ tainted' = tainted \cup Raced(t, Slots)
    /\ UNCHANGED <<m_state, batch, server>>

EndStateBlock(t) ==
    /\ Idle(t)
    /\ Recording
    /\ Command(About("end", m_stateRecording))
    /\ m_stateRecording' = NoBlock
    /\ tainted' = tainted \cup Raced(t, Slots)
    /\ UNCHANGED <<m_state, blocks, pending>>

(* Variant with a bug: the block keeps what it had captured before.         *)
LocalCaptureNothing(b) == UNCHANGED blocks

\* StateTransfer copies the dirty slots from one state to the other.
LocalCapture(b) ==
    blocks' = [blocks EXCEPT ![b] = [s \in DOMAIN @ |-> m_state[s]]]

Capture(t, b) ==
    /\ Idle(t) /\ Held(b)
    /\ ~Recording
    /\ LocalCapture(b)
    /\ Later(t, About("capture", b))
    /\ tainted' = tainted \cup Raced(t, BlockSlots(b))
    /\ UNCHANGED <<m_state, m_stateRecording, batch, server>>

Apply(t, b) ==
    /\ Idle(t) /\ Held(b)
    /\ ~Recording                  \* the game applies no block in a recording
    /\ m_state' = Over(blocks[b], m_state)
    /\ Later(t, About("apply", b))
    /\ tainted' = tainted \cup Raced(t, BlockSlots(b))
                    \cup (BlockSlots(b) \ DOMAIN blocks[b])
    /\ UNCHANGED <<m_stateRecording, blocks, batch, server>>

\* The last Release: no other call uses the block any more.
onDestroy(t, b) ==
    /\ Idle(t) /\ Held(b)
    /\ \A u \in Threads :
          pending[u].msg.op \in {"capture", "apply"} => pending[u].msg.block # b
    /\ blocks' = [x \in DOMAIN blocks \ {b} |-> blocks[x]]
    /\ Later(t, About("destroy", b))
    /\ UNCHANGED <<m_state, m_stateRecording, batch, server, tainted>>

\* The game releases its state blocks before it resets the device.
Reset(t) ==
    /\ Idle(t)
    /\ ~Recording /\ DOMAIN blocks = {}
    /\ m_state' = [s \in Slots |-> IF s \in ResetState \cup releaseInternalObjects
                                   THEN Default ELSE m_state[s]]
    /\ Command([op |-> "reset"])
    /\ tainted' = tainted \cup Raced(t, Slots)
                    \cup {s \in Slots : m_state'[s] # Default}
    /\ UNCHANGED <<m_stateRecording, blocks, pending>>

-----------------------------------------------------------------------------
\* What the constructors do not write is indeterminate in the client.
InitState ==
    /\ m_state \in {f \in [Slots -> Values] :
                      \A s \in ResetState \cup releaseInternalObjects
                                         \cup BaseDirect3DDevice9Ex_LSS :
                         f[s] = Default}
    /\ m_stateRecording = NoBlock
    /\ blocks = Nothing
    /\ batch = <<>>
    /\ pending = [t \in Threads |-> NotSent(NoMessage)]
    /\ server = [device |-> [s \in Slots |-> Default], isRecording |-> FALSE,
                 recorded |-> Nothing, blocks |-> Nothing, down |-> FALSE]
    /\ tainted = {s \in Slots : m_state[s] # Default}

Call(t) ==
    \/ \E slot \in Slots, v \in Values : Set(t, slot, v)
    \/ \E v \in Values : MultiplyTransform(t, v)
    \/ \E b \in Blocks : CreateStateBlock(t, b)
    \/ \E b \in Blocks : BeginStateBlock(t, b)
    \/ EndStateBlock(t)
    \/ \E b \in Blocks : Capture(t, b)
    \/ \E b \in Blocks : Apply(t, b)
    \/ \E b \in Blocks : onDestroy(t, b)
    \/ Reset(t)

StateNext == \E t \in Threads :
           \/ Call(t)
           \/ ForwardPending(t)
           \/ FlushBefore(t)
           \/ Send(t)

StateSpec == InitState /\ [][StateNext]_stateVars

-----------------------------------------------------------------------------
(* Properties *)

\* What the server stores in a slot once it has replayed the open batch.
Stored == Over(LastWrites(batch), server.device)

\* The slots no thread is in the middle of a call on.
Settled(X) == \A t \in Threads : Touched(pending[t].msg) \cap X = {}

\* Outside the known gaps (a race of two threads' calls between their lock
\* scopes, MultiplyTransform, a vertex declaration set in a recording, a state
\* left out by Reset or by a created block, an uninitialised shadow) the
\* client's shadow of a slot is what the server's device holds as soon as no
\* call on that slot is under way: elision, batching and state blocks together
\* never lose or reorder a write.
Coherent ==
    \A s \in Slots \ tainted : Settled({s}) => Stored[s] = m_state[s]

\* Second half of BlocksAgree: the server never captures or applies a block it does not have, unless
\* BeginStateBlock or CreateStateBlock of one thread raced a call of another.
ServerSurvives == server.down => tainted = Slots

\* Outside the same gaps a state block holds the same slots with the same
\* values on both sides; the server's half of a created block may capture
\* slots the client's flags leave out.  Nor is the server ever asked for a
\* block it does not have.
BlocksAgree ==
    /\ ServerSurvives
    /\ \A b \in DOMAIN blocks :
          Held(b) =>
             \A s \in Slots \ tainted :
                Settled({s}) =>
                   /\ s \in DOMAIN blocks[b] =>
                         /\ b \in DOMAIN server.blocks
                         /\ s \in DOMAIN server.blocks[b]
                         /\ server.blocks[b][s] = blocks[b][s]
                   /\ s \in StateBlockSetCaptureFlags \ DOMAIN blocks[b] =>
                         s \notin BlockSlots(b)

=============================================================================
