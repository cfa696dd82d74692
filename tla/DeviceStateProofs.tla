------------------------- MODULE DeviceStateProofs -------------------------
(***************************************************************************)
(* Proofs about the shadow state: for any threads, slots, values, blocks   *)
(* and capacity of the batch, and any interleaving of the calls' lock      *)
(* scopes, the client's shadow and its state blocks are the server's,      *)
(* outside the known gaps.  Neither property is inductive: while a call is *)
(* under way the two sides differ by what the call still owes the server.  *)
(***************************************************************************)
EXTENDS DeviceState, SequenceTheorems, TLAPS

Fields == {"device", "isRecording", "recorded", "blocks", "down"}
Ops    == {"none", "set", "begin", "create", "capture", "apply", "destroy"}
Records == [slot : Slots, value : Values]

Op(t) == pending[t].msg.op
Of(t) == pending[t].msg.block
Touches(t, s) == s \in Touched(pending[t].msg)
InBatch == {batch[i].slot : i \in DOMAIN batch}

--------------------------------------------------------------------------------
(* Shapes *)

(* The device, the recorder and the blocks of the server are about slots.   *)
ServerShape(srv) ==
  /\ DOMAIN srv = Fields
  /\ DOMAIN srv.device = Slots
  /\ DOMAIN srv.recorded \subseteq Slots
  /\ \A b \in DOMAIN srv.blocks : DOMAIN srv.blocks[b] \subseteq Slots
  /\ srv.isRecording \in BOOLEAN /\ srv.down \in BOOLEAN

MessageShape(m) ==
  /\ m.op \in Ops
  /\ m.op = "none" => m = NoMessage
  /\ m.op = "set" => m.slot \in Slots /\ m.value \in Values
  /\ m.op \in {"create", "capture", "apply", "destroy"} => m = About(m.op, m.block)

ClientShape ==
  /\ DOMAIN m_state = Slots
  /\ DOMAIN blocks \subseteq Blocks
  /\ \A b \in DOMAIN blocks : DOMAIN blocks[b] \subseteq Slots
  /\ Recording => m_stateRecording \in DOMAIN blocks
  /\ tainted \subseteq Slots

PendingShape ==
  /\ DOMAIN pending = Threads
  /\ \A t \in Threads :
       /\ DOMAIN pending[t] = {"msg", "flushed"}
       /\ MessageShape(pending[t].msg)
       /\ pending[t].flushed \in BOOLEAN
       /\ Op(t) = "none" => Idle(t)

(* Every slot in the batch has a last record there.                         *)
BatchShape ==
  /\ batch \in Seq(Records)
  /\ \A s \in InBatch :
       \E i \in DOMAIN batch : batch[i].slot = s /\ \A j \in DOMAIN batch : batch[j].slot = s => j <= i

Shape == ClientShape /\ PendingShape /\ BatchShape /\ ServerShape(server)

(* What the server does with a message keeps the shape of its state.        *)
LEMMA WriteShape ==
  ASSUME NEW srv, ServerShape(srv), NEW w, DOMAIN w \subseteq Slots
  PROVE  ServerShape(Write(srv, w))
<1>1. DOMAIN Over(w, srv.recorded) \subseteq Slots /\ DOMAIN Over(w, srv.device) = Slots
  BY DEF Over, ServerShape
<1>2. CASE srv.isRecording
  <2>1. Write(srv, w) = [srv EXCEPT !.recorded = Over(w, srv.recorded)]
    BY <1>2 DEF Write
  <2> QED BY <1>1, <2>1 DEF ServerShape, Fields
<1>3. CASE ~srv.isRecording
  <2>1. Write(srv, w) = [srv EXCEPT !.device = Over(w, srv.device)]
    BY <1>3 DEF Write
  <2> QED BY <1>1, <2>1 DEF ServerShape, Fields
<1> QED BY <1>2, <1>3

(* The same of a flush of the batch.                                        *)
LEMMA FlushShape ==
  ASSUME ServerShape(server), BatchShape
  PROVE  ServerShape(StateBatch(server))
<1>1. DOMAIN LastWrites(batch) = InBatch
  BY DEF LastWrites, InBatch
<1>2. InBatch \subseteq Slots
  <2>1. \A i \in DOMAIN batch : batch[i] \in Records
    BY ElementOfSeq, LenProperties DEF BatchShape
  <2> QED BY <2>1 DEF InBatch, Records
<1> QED BY <1>1, <1>2, WriteShape DEF StateBatch

(* And of every message.                                                    *)
LEMMA DeliverShape ==
  ASSUME NEW srv, ServerShape(srv), NEW m,
         m.op \in (Ops \ {"none"}) \cup {"end", "reset"}, m.op = "set" => m.slot \in Slots
  PROVE  ServerShape(Deliver(srv, m))
<1>1. CASE srv.down
  BY <1>1 DEF Deliver
<1> SUFFICES ASSUME ~srv.down PROVE ServerShape(Deliver(srv, m))
  BY <1>1
<1>2. CASE m.op = "set"
  <2>1. DOMAIN Entry(m.slot, m.value) \subseteq Slots
    BY <1>2 DEF Entry
  <2>2. Deliver(srv, m) = Write(srv, Entry(m.slot, m.value))
    BY <1>2 DEF Deliver
  <2> QED BY <2>1, <2>2, WriteShape
<1>3. CASE m.op = "begin"
  <2>1. Deliver(srv, m) = BeginStateBlock_server(srv)
    BY <1>3 DEF Deliver
  <2>2. CASE srv.isRecording
    BY <2>1, <2>2 DEF BeginStateBlock_server
  <2>3. CASE ~srv.isRecording
    <3>1. Deliver(srv, m) = [srv EXCEPT !.isRecording = TRUE, !.recorded = Nothing]
      BY <2>1, <2>3 DEF BeginStateBlock_server
    <3>2. DOMAIN Nothing = {}
      BY DEF Nothing
    <3> QED BY <3>1, <3>2 DEF ServerShape, Fields
  <2> QED BY <2>2, <2>3
<1>4. CASE m.op = "end"
  <2>1. Deliver(srv, m) = EndStateBlock_server(srv, m.block)
    BY <1>4 DEF Deliver
  <2>2. \A b \in DOMAIN Over(Entry(m.block, srv.recorded), srv.blocks) :
          DOMAIN Over(Entry(m.block, srv.recorded), srv.blocks)[b] \subseteq Slots
    BY DEF ServerShape, Over, Entry
  <2>3. CASE ~srv.isRecording
    BY <2>1, <2>3 DEF EndStateBlock_server
  <2>4. CASE srv.isRecording
    <3> DEFINE B == Over(Entry(m.block, srv.recorded), srv.blocks)
    <3>1. Deliver(srv, m) = [srv EXCEPT !.isRecording = FALSE, !.recorded = Nothing, !.blocks = B]
      BY <2>1, <2>4 DEF EndStateBlock_server
    <3>2. DOMAIN Nothing = {}
      BY DEF Nothing
    <3> HIDE DEF B
    <3>3. \A b \in DOMAIN B : DOMAIN B[b] \subseteq Slots
      BY <2>2 DEF B
    <3> QED BY <3>1, <3>2, <3>3 DEF ServerShape, Fields
  <2> QED BY <2>3, <2>4
<1>5. CASE m.op = "create"
  <2>1. Deliver(srv, m) = CreateStateBlock_server(srv, m.block)
    BY <1>5 DEF Deliver
  <2>2. \A b \in DOMAIN Over(Entry(m.block, srv.device), srv.blocks) :
          DOMAIN Over(Entry(m.block, srv.device), srv.blocks)[b] \subseteq Slots
    BY DEF ServerShape, Over, Entry
  <2> QED BY <2>1, <2>2 DEF CreateStateBlock_server, ServerShape, Fields
<1>6. CASE m.op = "capture"
  <2>1. Deliver(srv, m) = Capture_server(srv, m.block)
    BY <1>6 DEF Deliver
  <2>2. CASE m.block \notin DOMAIN srv.blocks
    BY <2>1, <2>2 DEF Capture_server, ServerShape, Fields
  <2>3. CASE m.block \in DOMAIN srv.blocks /\ srv.isRecording
    BY <2>1, <2>3 DEF Capture_server
  <2>4. CASE m.block \in DOMAIN srv.blocks /\ ~srv.isRecording
    <3> DEFINE B == [srv.blocks EXCEPT ![m.block] = [s \in DOMAIN @ |-> srv.device[s]]]
    <3>1. Deliver(srv, m) = [srv EXCEPT !.blocks = B]
      BY <2>1, <2>4 DEF Capture_server
    <3>2. \A b \in DOMAIN B : DOMAIN B[b] \subseteq Slots
      BY DEF ServerShape
    <3> HIDE DEF B
    <3> QED BY <3>1, <3>2 DEF ServerShape, Fields
  <2> QED BY <2>2, <2>3, <2>4
<1>7. CASE m.op = "apply"
  <2>1. Deliver(srv, m) = Apply_server(srv, m.block)
    BY <1>7 DEF Deliver
  <2>2. m.block \in DOMAIN srv.blocks => DOMAIN Over(srv.blocks[m.block], srv.device) = Slots
    BY DEF ServerShape, Over
  <2> QED BY <2>1, <2>2 DEF Apply_server, ServerShape, Fields
<1>8. CASE m.op = "destroy"
  <2>1. Deliver(srv, m) = Destroy_server(srv, m.block)
    BY <1>8 DEF Deliver
  <2> QED BY <2>1 DEF Destroy_server, ServerShape, Fields
<1>9. CASE m.op = "reset"
  <2>1. Deliver(srv, m) = Reset_server(srv)
    BY <1>9 DEF Deliver
  <2> QED BY <2>1 DEF Reset_server, ServerShape, Fields
<1> QED BY <1>2, <1>3, <1>4, <1>5, <1>6, <1>7, <1>8, <1>9 DEF Ops

--------------------------------------------------------------------------------
(* The batch *)

(* The value the batch leaves in a slot is that of the slot's last record.  *)
LEMMA LastIs ==
  ASSUME NEW q \in Seq(Records), NEW i \in DOMAIN q, \A j \in DOMAIN q : q[j].slot = q[i].slot => j <= i
  PROVE  q[i].slot \in DOMAIN LastWrites(q) /\ LastWrites(q)[q[i].slot] = q[i].value
<1> DEFINE s == q[i].slot
           I == {j \in DOMAIN q : q[j].slot = s}
<1>1. s \in DOMAIN LastWrites(q) /\ LastWrites(q)[s] = q[Max(I)].value
  BY DEF LastWrites
<1>2. DOMAIN q \subseteq Nat
  BY LenProperties
<1>3. i \in I /\ \A j \in I : i >= j
  BY <1>2
<1>4. I \subseteq Nat
  BY <1>2
<1> HIDE DEF I, s
<1>5. \A x \in I : (\A y \in I : x >= y) => x = i
  BY <1>3, <1>4
<1>6. Max(I) = i
  BY <1>3, <1>5 DEF Max
<1> QED BY <1>1, <1>6 DEF s

(* A record behind the others.                                              *)
LEMMA Appended ==
  ASSUME BatchShape, NEW x \in Slots, NEW v \in Values,
         batch' = Append(batch, [slot |-> x, value |-> v])
  PROVE  /\ BatchShape' /\ InBatch' = InBatch \cup {x}
         /\ LastWrites(batch')[x] = v
         /\ \A s \in InBatch \ {x} : LastWrites(batch')[s] = LastWrites(batch)[s]
<1> DEFINE r == [slot |-> x, value |-> v]
           n == Len(batch)
           q == Append(batch, r)
<1>0. r \in Records /\ r.slot = x /\ r.value = v
  BY DEF Records
<1> HIDE DEF r
<1>1. /\ q \in Seq(Records) /\ n \in Nat /\ DOMAIN batch = 1..n /\ DOMAIN q = 1..(n + 1)
      /\ q[n + 1] = r /\ \A i \in 1..n : q[i] = batch[i]
  BY <1>0, AppendProperties, LenProperties DEF BatchShape
<1> HIDE DEF n, q
<1>2. batch' = q
  BY DEF q, r
<1>3. InBatch' = InBatch \cup {x}
  <2>1. InBatch' = {q[i].slot : i \in 1..(n + 1)} /\ InBatch = {batch[i].slot : i \in 1..n}
    BY <1>1, <1>2 DEF InBatch
  <2>2. n + 1 \in 1..(n + 1) /\ \A i \in 1..n : i \in 1..(n + 1)
    BY <1>1
  <2>3. \A i \in 1..(n + 1) : i = n + 1 \/ i \in 1..n
    BY <1>1
  <2>4. ASSUME NEW s \in InBatch' PROVE s \in InBatch \cup {x}
    <3>1. PICK i \in 1..(n + 1) : s = q[i].slot
      BY <2>1
    <3> QED BY <1>0, <1>1, <2>1, <2>3, <3>1
  <2>5. x \in InBatch'
    BY <1>0, <1>1, <2>1, <2>2
  <2>6. ASSUME NEW s \in InBatch PROVE s \in InBatch'
    <3>1. PICK i \in 1..n : s = batch[i].slot
      BY <2>1
    <3> QED BY <1>1, <2>1, <2>2, <3>1
  <2> QED BY <2>4, <2>5, <2>6
<1>4. n + 1 \in DOMAIN q /\ q[n + 1].slot = x /\ \A j \in DOMAIN q : q[j].slot = x => j <= n + 1
  BY <1>0, <1>1
<1>5. LastWrites(q)[x] = v
  BY <1>0, <1>1, <1>4, LastIs
<1>6. ASSUME NEW s \in InBatch, s # x
      PROVE  \E i \in DOMAIN q : /\ q[i].slot = s /\ \A j \in DOMAIN q : q[j].slot = s => j <= i
                                 /\ LastWrites(q)[s] = LastWrites(batch)[s]
  <2>1. PICK i \in DOMAIN batch : batch[i].slot = s /\ \A j \in DOMAIN batch : batch[j].slot = s => j <= i
    BY <1>6 DEF BatchShape
  <2>2. i \in DOMAIN q /\ q[i] = batch[i]
    BY <1>1
  <2>3. ASSUME NEW j \in DOMAIN q, q[j].slot = s PROVE j <= i
    <3>1. j # n + 1
      BY <1>0, <1>1, <1>6, <2>3
    <3>2. j \in 1..n
      BY <1>1, <3>1
    <3> QED BY <1>1, <2>1, <2>3, <3>2
  <2>4. LastWrites(q)[s] = q[i].value
    BY <1>1, <2>1, <2>2, <2>3, LastIs
  <2>5. LastWrites(batch)[s] = batch[i].value
    BY <2>1, LastIs DEF BatchShape
  <2> QED BY <2>1, <2>2, <2>3, <2>4, <2>5
<1>7. BatchShape'
  <2> SUFFICES ASSUME NEW s \in InBatch'
               PROVE  \E i \in DOMAIN q : q[i].slot = s /\ \A j \in DOMAIN q : q[j].slot = s => j <= i
    BY <1>1, <1>2 DEF BatchShape
  <2> QED BY <1>3, <1>4, <1>6
<1> QED BY <1>2, <1>3, <1>5, <1>6, <1>7

(* A batch of one record.                                                   *)
LEMMA Restarted ==
  ASSUME NEW x \in Slots, NEW v \in Values, batch' = <<[slot |-> x, value |-> v]>>
  PROVE  BatchShape' /\ InBatch' = {x} /\ LastWrites(batch')[x] = v
<1> DEFINE r == [slot |-> x, value |-> v]
<1>0. r \in Records /\ r.slot = x /\ r.value = v
  BY DEF Records
<1> HIDE DEF r
<1>1. batch' = <<r>>
  BY DEF r
<1>2. batch' \in Seq(Records) /\ DOMAIN batch' = {1} /\ batch'[1] = r
  <2>1. <<r>> \in Seq(Records) /\ DOMAIN <<r>> = 1..1 /\ <<r>>[1] = r
    BY <1>0
  <2> QED BY <1>1, <2>1
<1>3. InBatch' = {x}
  BY <1>0, <1>2 DEF InBatch
<1>4. \A j \in DOMAIN batch' : j <= 1
  BY <1>2
<1>5. BatchShape'
  BY <1>0, <1>2, <1>3, <1>4 DEF BatchShape
<1>6. LastWrites(batch')[x] = v
  <2>1. 1 \in DOMAIN batch' /\ batch'[1].slot = x /\ batch'[1].value = v
    BY <1>0, <1>2
  <2> QED BY <1>2, <1>4, <2>1, LastIs
<1> QED BY <1>3, <1>5, <1>6

(* An empty one.                                                            *)
LEMMA Emptied ==
  ASSUME batch' = <<>>
  PROVE  BatchShape' /\ InBatch' = {}
<1>1. <<>> \in Seq(Records) /\ DOMAIN <<>> = {}
  BY EmptySeq, LenProperties
<1>2. InBatch' = {}
  BY <1>1 DEF InBatch
<1> QED BY <1>1, <1>2 DEF BatchShape

--------------------------------------------------------------------------------
(* The invariant *)

(* The blocks that calls under way are about.                               *)
BlockUse ==
  \A t \in Threads :
    /\ Op(t) = "create" => /\ Of(t) \in DOMAIN blocks /\ Of(t) # m_stateRecording
                           /\ DOMAIN blocks[Of(t)] = StateBlockSetCaptureFlags
    /\ Op(t) \in {"capture", "apply"} => Held(Of(t))
    /\ Op(t) = "destroy" => Of(t) \notin DOMAIN blocks

(* Both sides record or neither does, but for a BeginStateBlock under way;  *)
(* the batch is empty while the server records; and the server has the      *)
(* blocks the game holds.  So it is as long as there is a slot without gap. *)
Synced ==
  /\ ~server.down
  /\ server.isRecording <=> Recording /\ \A t \in Threads : Op(t) # "begin"
  /\ server.isRecording => batch = <<>>
  /\ \A t \in Threads :
       /\ Op(t) = "begin" => Recording /\ (pending[t].flushed => batch = <<>>)
       /\ Op(t) = "create" => ~Recording
  /\ \A b \in DOMAIN blocks : Held(b) => b \in DOMAIN server.blocks

InStep == tainted # Slots => Synced

Agree(f, g, s) == (s \in DOMAIN f <=> s \in DOMAIN g) /\ (s \in DOMAIN f => f[s] = g[s])

(* One call at most is under way on a slot without a gap.                   *)
Alone(s) == \A t, u \in Threads : Touches(t, s) /\ Touches(u, s) => t = u

(* The client has done already what the message will make the server do;    *)
(* once the batch is flushed for the message no record overtakes it.        *)
CallInv(t, s) ==
  Touches(t, s) =>
    /\ pending[t].flushed => s \notin InBatch
    /\ Op(t) = "set" =>
         IF Recording
         THEN s \in DOMAIN blocks[m_stateRecording] /\ blocks[m_stateRecording][s] = pending[t].msg.value
         ELSE m_state[s] = pending[t].msg.value
    /\ Op(t) = "begin" => Recording /\ s \notin DOMAIN blocks[m_stateRecording]
    /\ Op(t) \in {"create", "capture"} => (s \in DOMAIN blocks[Of(t)] => blocks[Of(t)][s] = m_state[s])
    /\ Op(t) = "apply" => s \in DOMAIN blocks[Of(t)] /\ blocks[Of(t)][s] = m_state[s]
    /\ Op(t) \in {"create", "capture", "apply"} => ~Recording

(* The server's device has the shadow's value, or is owed it.               *)
Owed(s) == \E t \in Threads : Touches(t, s) /\ (Op(t) = "apply" \/ (Op(t) = "set" /\ ~Recording))

DeviceInv(s) == Owed(s) \/ Stored[s] = m_state[s]

(* What both sides have recorded agrees.                                    *)
RecordInv(s) ==
  server.isRecording =>
    (\E t \in Threads : Touches(t, s)) \/ Agree(server.recorded, blocks[m_stateRecording], s)

(* What both sides have in a block agrees, but for a Capture under way.     *)
BlockInv(s) ==
  \A b \in DOMAIN blocks :
    Held(b) =>
      /\ s \in DOMAIN blocks[b] =>
           /\ s \in DOMAIN server.blocks[b]
           /\ (\E t \in Threads : Op(t) = "capture" /\ Of(t) = b) \/ server.blocks[b][s] = blocks[b][s]
      /\ s \in StateBlockSetCaptureFlags \ DOMAIN blocks[b] => s \notin DOMAIN server.blocks[b]

SlotInv(s) ==
  Alone(s) /\ (\A t \in Threads : CallInv(t, s)) /\ DeviceInv(s) /\ RecordInv(s) /\ BlockInv(s)

IInv == Shape /\ BlockUse /\ InStep /\ \A s \in Slots \ tainted : SlotInv(s)

--------------------------------------------------------------------------------
(* Reading the invariant *)

(* The slots a call under way touches.                                      *)
LEMMA TouchesIs ==
  ASSUME PendingShape, NEW t \in Threads, NEW s
  PROVE  Touches(t, s) <=> \/ Op(t) = "set" /\ pending[t].msg.slot = s
                           \/ Op(t) \in {"capture", "apply"} /\ s \in BlockSlots(Of(t))
                           \/ Op(t) \in {"begin", "create"} /\ s \in Slots
<1>1. Op(t) \in Ops
  BY DEF PendingShape, MessageShape, Op
<1>2. CASE Op(t) \in {"none", "destroy"}
  BY <1>2 DEF Touches, Touched, Op
<1>3. CASE Op(t) = "set"
  BY <1>3 DEF Touches, Touched, Op
<1>4. CASE Op(t) \in {"capture", "apply"}
  BY <1>4 DEF Touches, Touched, Op, Of
<1>5. CASE Op(t) \in {"begin", "create"}
  BY <1>5 DEF Touches, Touched, Op
<1> QED BY <1>1, <1>2, <1>3, <1>4, <1>5 DEF Ops

(* The same of the next state.                                              *)
LEMMA TouchesIsNext ==
  ASSUME PendingShape', NEW t \in Threads, NEW s
  PROVE  Touches(t, s)' <=> \/ Op(t)' = "set" /\ pending'[t].msg.slot = s
                            \/ Op(t)' \in {"capture", "apply"} /\ s \in BlockSlots(Of(t))'
                            \/ Op(t)' \in {"begin", "create"} /\ s \in Slots
<1>1. Op(t)' \in Ops
  BY DEF PendingShape, MessageShape, Op
<1>2. CASE Op(t)' \in {"none", "destroy"}
  BY <1>2 DEF Touches, Touched, Op
<1>3. CASE Op(t)' = "set"
  BY <1>3 DEF Touches, Touched, Op
<1>4. CASE Op(t)' \in {"capture", "apply"}
  BY <1>4 DEF Touches, Touched, Op, Of, BlockSlots
<1>5. CASE Op(t)' \in {"begin", "create"}
  BY <1>5 DEF Touches, Touched, Op
<1> QED BY <1>1, <1>2, <1>3, <1>4, <1>5 DEF Ops

(* The blocks the game holds.                                               *)
LEMMA HeldIs ==
  ASSUME PendingShape, NEW b
  PROVE  Held(b) <=> /\ b \in DOMAIN blocks /\ b # m_stateRecording
                     /\ \A t \in Threads : Op(t) = "create" => Of(t) # b
<1>1. ASSUME NEW t \in Threads
      PROVE  pending[t].msg # About("create", b) <=> (Op(t) = "create" => Of(t) # b)
  <2>1. Op(t) = "create" => pending[t].msg = About("create", Of(t))
    BY DEF PendingShape, MessageShape, Op, Of
  <2>2. About("create", b).op = "create" /\ About("create", b).block = b
    BY DEF About
  <2> QED BY <2>1, <2>2 DEF Op, Of
<1> QED BY <1>1 DEF Held

(* The same of the next state.                                              *)
LEMMA HeldIsNext ==
  ASSUME PendingShape', NEW b
  PROVE  Held(b)' <=> /\ b \in DOMAIN blocks' /\ b # m_stateRecording'
                      /\ \A t \in Threads : Op(t)' = "create" => Of(t)' # b
<1>1. ASSUME NEW t \in Threads
      PROVE  pending'[t].msg # About("create", b) <=> (Op(t)' = "create" => Of(t)' # b)
  <2>1. Op(t)' = "create" => pending'[t].msg = About("create", Of(t)')
    BY DEF PendingShape, MessageShape, Op, Of
  <2>2. About("create", b).op = "create" /\ About("create", b).block = b
    BY DEF About
  <2> QED BY <2>1, <2>2 DEF Op, Of
<1> QED BY <1>1 DEF Held

--------------------------------------------------------------------------------
(* What reaches the server *)

(* What the server stores in a slot, batch included.                        *)
LEMMA StoredIs ==
  ASSUME ServerShape(server), NEW s \in Slots
  PROVE  Stored[s] = IF s \in InBatch THEN LastWrites(batch)[s] ELSE server.device[s]
<1>1. DOMAIN LastWrites(batch) = InBatch
  BY DEF LastWrites, InBatch
<1> QED BY <1>1 DEF Stored, Over, ServerShape

(* The same of the next state.                                              *)
LEMMA StoredIsNext ==
  ASSUME ServerShape(server'), NEW s \in Slots
  PROVE  Stored'[s] = IF s \in InBatch' THEN LastWrites(batch')[s] ELSE server'.device[s]
<1>1. DOMAIN LastWrites(batch') = InBatch'
  BY DEF LastWrites, InBatch
<1> QED BY <1>1 DEF Stored, Over, ServerShape

(* The batch is replayed.                                                   *)
LEMMA FlushEffect ==
  ASSUME ServerShape(server), BatchShape, ~server.down, server.isRecording => batch = <<>>,
         NEW srv, srv = StateBatch(server)
  PROVE  /\ ServerShape(srv) /\ srv.isRecording = server.isRecording /\ ~srv.down
         /\ srv.blocks = server.blocks
         /\ \A s : Agree(srv.recorded, server.recorded, s)
         /\ \A s \in Slots : srv.device[s] = Stored[s]
<1> DEFINE w == LastWrites(batch)
<1>0. ServerShape(srv)
  BY FlushShape
<1>1. DOMAIN w = InBatch
  BY DEF LastWrites, InBatch
<1>2. srv = Write(server, w)
  BY DEF StateBatch
<1>3. \A s \in Slots : Over(w, server.device)[s] = Stored[s]
  BY DEF Stored
<1> HIDE DEF w
<1>4. CASE server.isRecording
  <2>1. InBatch = {}
    <3>1. batch = <<>>
      BY <1>4
    <3> QED BY <3>1, EmptySeq DEF InBatch
  <2>2. srv = [server EXCEPT !.recorded = Over(w, server.recorded)]
    BY <1>2, <1>4 DEF Write
  <2>3. \A s : Agree(Over(w, server.recorded), server.recorded, s)
    BY <1>1, <2>1 DEF Agree, Over
  <2>4. /\ srv.isRecording = server.isRecording /\ srv.down = server.down /\ srv.blocks = server.blocks
        /\ srv.recorded = Over(w, server.recorded) /\ srv.device = server.device
    BY <2>2 DEF ServerShape, Fields
  <2> QED BY <1>0, <2>1, <2>3, <2>4, StoredIs
<1>5. CASE ~server.isRecording
  <2>1. srv = [server EXCEPT !.device = Over(w, server.device)]
    BY <1>2, <1>5 DEF Write
  <2>2. /\ srv.isRecording = server.isRecording /\ srv.down = server.down /\ srv.blocks = server.blocks
        /\ srv.recorded = server.recorded /\ srv.device = Over(w, server.device)
    BY <2>1 DEF ServerShape, Fields
  <2> QED BY <1>0, <1>3, <2>2 DEF Agree
<1> QED BY <1>4, <1>5

(* A setter is carried out.                                                 *)
LEMMA SetEffect ==
  ASSUME NEW srv, ServerShape(srv), ~srv.down, NEW x \in Slots, NEW v, NEW d, d = Deliver(srv, Setting(x, v))
  PROVE  /\ ServerShape(d) /\ d.isRecording = srv.isRecording /\ ~d.down /\ d.blocks = srv.blocks
         /\ \A s : s # x => Agree(d.recorded, srv.recorded, s)
         /\ \A s \in Slots : s # x => d.device[s] = srv.device[s]
         /\ srv.isRecording => /\ x \in DOMAIN d.recorded /\ d.recorded[x] = v
                               /\ d.device[x] = srv.device[x]
         /\ ~srv.isRecording => d.device[x] = v /\ Agree(d.recorded, srv.recorded, x)
<1> DEFINE w == Entry(x, v)
<1>0. Setting(x, v).op = "set" /\ Setting(x, v).slot = x /\ Setting(x, v).value = v
  BY DEF Setting
<1>1. d = Write(srv, w)
  BY <1>0 DEF Deliver
<1>2. DOMAIN w = {x} /\ w[x] = v
  BY DEF Entry
<1>3. ServerShape(d)
  BY <1>1, <1>2, WriteShape
<1> HIDE DEF w
<1>4. CASE srv.isRecording
  <2>1. d = [srv EXCEPT !.recorded = Over(w, srv.recorded)]
    BY <1>1, <1>4 DEF Write
  <2>2. /\ d.isRecording = srv.isRecording /\ d.down = srv.down /\ d.blocks = srv.blocks
        /\ d.recorded = Over(w, srv.recorded) /\ d.device = srv.device
    BY <2>1 DEF ServerShape, Fields
  <2>3. /\ \A s : s # x => Agree(Over(w, srv.recorded), srv.recorded, s)
        /\ x \in DOMAIN Over(w, srv.recorded) /\ Over(w, srv.recorded)[x] = v
    BY <1>2 DEF Agree, Over
  <2> QED BY <1>3, <1>4, <2>2, <2>3
<1>5. CASE ~srv.isRecording
  <2>1. d = [srv EXCEPT !.device = Over(w, srv.device)]
    BY <1>1, <1>5 DEF Write
  <2>2. /\ d.isRecording = srv.isRecording /\ d.down = srv.down /\ d.blocks = srv.blocks
        /\ d.recorded = srv.recorded /\ d.device = Over(w, srv.device)
    BY <2>1 DEF ServerShape, Fields
  <2>3. Over(w, srv.device)[x] = v /\ \A s \in Slots : s # x => Over(w, srv.device)[s] = srv.device[s]
    BY <1>2 DEF Over, ServerShape
  <2> QED BY <1>3, <1>5, <2>2, <2>3 DEF Agree
<1> QED BY <1>4, <1>5

(* A setter goes on to the server or into the batch.                        *)
LEMMA ForwardShape ==
  ASSUME Shape, NEW x \in Slots, NEW v \in Values, Forward(x, v)
  PROVE  ServerShape(server') /\ BatchShape'
<1>1. ServerShape(StateBatch(server))
  BY FlushShape DEF Shape
<1>2. CASE Setter[x].batched /\ batchActive /\ Len(batch) = BatchCapacity
  BY <1>1, <1>2, Restarted DEF Forward, batchCmd
<1>3. CASE Setter[x].batched /\ batchActive /\ Len(batch) # BatchCapacity
  BY <1>3, Appended DEF Forward, batchCmd, Shape
<1>4. CASE ~(Setter[x].batched /\ batchActive)
  <2>1. server' = Deliver(StateBatch(server), Setting(x, v)) /\ batch' = <<>>
    BY <1>4 DEF Forward, Command
  <2>2. Setting(x, v).op = "set" /\ Setting(x, v).slot = x
    BY DEF Setting
  <2> QED BY <1>1, <2>1, <2>2, DeliverShape, Emptied DEF Ops
<1> QED BY <1>2, <1>3, <1>4

(* With both sides in step it changes its own slot only.                    *)
LEMMA ForwardEffect ==
  ASSUME Shape, ~server.down, server.isRecording => batch = <<>> /\ Recording,
         NEW x \in Slots, NEW v \in Values, Forward(x, v)
  PROVE  /\ server'.isRecording = server.isRecording /\ ~server'.down /\ server'.blocks = server.blocks
         /\ InBatch' \subseteq InBatch \cup {x} /\ (Recording => batch' = <<>>)
         /\ \A s \in Slots : s # x => Stored'[s] = Stored[s] /\ Agree(server'.recorded, server.recorded, s)
         /\ server.isRecording => /\ x \in DOMAIN server'.recorded /\ server'.recorded[x] = v
                                  /\ Stored'[x] = Stored[x]
         /\ ~server.isRecording => Stored'[x] = v /\ Agree(server'.recorded, server.recorded, x)
<1>0. ServerShape(server) /\ BatchShape /\ ServerShape(server') /\ BatchShape'
  BY ForwardShape DEF Shape
<1> DEFINE srv == StateBatch(server)
<1>1. /\ ServerShape(srv) /\ srv.isRecording = server.isRecording /\ ~srv.down
      /\ srv.blocks = server.blocks
      /\ \A s : Agree(srv.recorded, server.recorded, s)
      /\ \A s \in Slots : srv.device[s] = Stored[s]
  BY <1>0, FlushEffect
<1> HIDE DEF srv
<1>2. CASE Setter[x].batched /\ batchActive /\ Len(batch) = BatchCapacity
  <2>1. server' = srv /\ batch' = <<[slot |-> x, value |-> v]>> /\ ~Recording
    BY <1>2 DEF Forward, batchCmd, srv, batchActive
  <2>2. InBatch' = {x} /\ LastWrites(batch')[x] = v
    BY <2>1, Restarted
  <2>3. \A s \in Slots : Stored'[s] = IF s = x THEN v ELSE Stored[s]
    BY <1>0, <1>1, <2>1, <2>2, StoredIsNext
  <2> QED BY <1>1, <2>1, <2>2, <2>3
<1>3. CASE Setter[x].batched /\ batchActive /\ Len(batch) # BatchCapacity
  <2>1. server' = server /\ batch' = Append(batch, [slot |-> x, value |-> v]) /\ ~Recording
    BY <1>3 DEF Forward, batchCmd, batchActive
  <2>2. /\ InBatch' = InBatch \cup {x} /\ LastWrites(batch')[x] = v
        /\ \A s \in InBatch \ {x} : LastWrites(batch')[s] = LastWrites(batch)[s]
    BY <1>0, <2>1, Appended
  <2>3. \A s \in Slots : Stored'[s] = IF s = x THEN v ELSE Stored[s]
    BY <1>0, <2>1, <2>2, StoredIs, StoredIsNext
  <2> QED BY <2>1, <2>2, <2>3 DEF Agree
<1>4. CASE ~(Setter[x].batched /\ batchActive)
  <2>1. server' = Deliver(srv, Setting(x, v)) /\ batch' = <<>>
    BY <1>4 DEF Forward, Command, srv
  <2>2. InBatch' = {}
    BY <2>1, Emptied
  <2>3. \A s \in Slots : Stored'[s] = server'.device[s]
    BY <1>0, <2>2, StoredIsNext
  <2> DEFINE d == Deliver(srv, Setting(x, v))
  <2>4. /\ ServerShape(d) /\ d.isRecording = srv.isRecording /\ ~d.down /\ d.blocks = srv.blocks
        /\ \A s : s # x => Agree(d.recorded, srv.recorded, s)
        /\ \A s \in Slots : s # x => d.device[s] = srv.device[s]
        /\ srv.isRecording => /\ x \in DOMAIN d.recorded /\ d.recorded[x] = v
                              /\ d.device[x] = srv.device[x]
        /\ ~srv.isRecording => d.device[x] = v /\ Agree(d.recorded, srv.recorded, x)
    BY <1>1, SetEffect
  <2> HIDE DEF d
  <2>5. server' = d
    BY <2>1 DEF d
  <2>6. \A s : Agree(d.recorded, srv.recorded, s) => Agree(d.recorded, server.recorded, s)
    BY <1>1 DEF Agree
  <2> QED BY <1>1, <2>1, <2>2, <2>3, <2>4, <2>5, <2>6
<1> QED BY <1>2, <1>3, <1>4

(* A flush of the batch by itself.                                          *)
LEMMA FlushStep ==
  ASSUME Shape, ~server.down, server.isRecording => batch = <<>>, flushStateBatch
  PROVE  /\ server'.isRecording = server.isRecording /\ ~server'.down /\ server'.blocks = server.blocks
         /\ InBatch' = {} /\ batch' = <<>>
         /\ \A s \in Slots : Stored'[s] = Stored[s] /\ Agree(server'.recorded, server.recorded, s)
<1>1. server' = StateBatch(server) /\ batch' = <<>> /\ InBatch' = {}
  BY Emptied DEF flushStateBatch
<1>2. /\ ServerShape(server') /\ server'.isRecording = server.isRecording /\ ~server'.down
      /\ server'.blocks = server.blocks
      /\ \A s : Agree(server'.recorded, server.recorded, s)
      /\ \A s \in Slots : server'.device[s] = Stored[s]
  BY <1>1, FlushEffect DEF Shape
<1> QED BY <1>1, <1>2, StoredIsNext

--------------------------------------------------------------------------------
(* Steps that leave a slot alone, and steps on a slot that is free *)

(* A slot without a gap is touched by no other thread's call when a call    *)
(* begins on it.                                                            *)
LEMMA NotRaced ==
  ASSUME NEW t \in Threads, NEW X, NEW s \in X, s \notin Raced(t, X), NEW u \in Threads \ {t}
  PROVE  ~Touches(u, s)
BY DEF Raced, Touches

(* After a step of a thread it alone touches the slot.                      *)
LEMMA Solo ==
  ASSUME NEW t \in Threads, NEW s, \A u \in Threads \ {t} : ~Touches(u, s)',
         CallInv(t, s)', DeviceInv(s)', RecordInv(s)', BlockInv(s)'
  PROVE  SlotInv(s)'
<1>1. Alone(s)'
  BY DEF Alone
<1>2. \A u \in Threads : CallInv(u, s)'
  BY DEF CallInv
<1> QED BY <1>1, <1>2 DEF SlotInv

(* Where nobody touches a slot both sides have the same.                    *)
LEMMA Free ==
  ASSUME NEW s, SlotInv(s), \A u \in Threads : ~Touches(u, s)
  PROVE  /\ Stored[s] = m_state[s]
         /\ server.isRecording => Agree(server.recorded, blocks[m_stateRecording], s)
BY DEF SlotInv, DeviceInv, Owed, RecordInv

(* The blocks the game holds are as they were.                              *)
LEMMA BlockFrame ==
  ASSUME NEW s, BlockInv(s),
         \A b \in DOMAIN blocks' :
           Held(b)' => /\ b \in DOMAIN blocks /\ Held(b)
                       /\ Agree(blocks'[b], blocks[b], s) /\ Agree(server'.blocks[b], server.blocks[b], s),
         \A u \in Threads : Op(u) = "capture" => \/ Op(u)' = "capture" /\ Of(u)' = Of(u)
                                                 \/ s \notin DOMAIN blocks[Of(u)]
  PROVE  BlockInv(s)'
<1> SUFFICES ASSUME NEW b \in DOMAIN blocks', Held(b)'
             PROVE  /\ s \in DOMAIN blocks'[b] =>
                         /\ s \in DOMAIN server'.blocks[b]
                         /\ \/ \E t \in Threads : Op(t)' = "capture" /\ Of(t)' = b
                            \/ server'.blocks[b][s] = blocks'[b][s]
                    /\ s \in StateBlockSetCaptureFlags \ DOMAIN blocks'[b] => s \notin DOMAIN server'.blocks[b]
  BY DEF BlockInv
<1>1. b \in DOMAIN blocks /\ Held(b) /\ Agree(blocks'[b], blocks[b], s) /\ Agree(server'.blocks[b], server.blocks[b], s)
  OBVIOUS
<1>2. /\ s \in DOMAIN blocks[b] =>
           /\ s \in DOMAIN server.blocks[b]
           /\ (\E t \in Threads : Op(t) = "capture" /\ Of(t) = b) \/ server.blocks[b][s] = blocks[b][s]
      /\ s \in StateBlockSetCaptureFlags \ DOMAIN blocks[b] => s \notin DOMAIN server.blocks[b]
  BY <1>1 DEF BlockInv
<1>3. ASSUME s \in DOMAIN blocks[b], \E t \in Threads : Op(t) = "capture" /\ Of(t) = b
      PROVE  \E t \in Threads : Op(t)' = "capture" /\ Of(t)' = b
  BY <1>3
<1> QED BY <1>1, <1>2, <1>3 DEF Agree

(* Nothing at the slot changes, and the step's thread does not touch it.    *)
LEMMA Frame ==
  ASSUME NEW t \in Threads, NEW s, SlotInv(s), ~Touches(t, s)', ~Touches(t, s),
         \A u \in Threads \ {t} : pending'[u] = pending[u] /\ (Touches(u, s)' => Touches(u, s)),
         \A u \in Threads \ {t} : Touches(u, s) => Touches(u, s)' /\ m_stateRecording' = m_stateRecording,
         \A u \in Threads \ {t} : Touches(u, s) /\ Op(u) \in {"create", "capture", "apply"}
             => Agree(blocks'[Of(u)], blocks[Of(u)], s),
         Recording' => \/ m_stateRecording' # m_stateRecording
                       \/ Agree(blocks'[m_stateRecording], blocks[m_stateRecording], s),
         m_state'[s] = m_state[s], Stored'[s] = Stored[s], s \in InBatch' => s \in InBatch,
         server'.isRecording => /\ server.isRecording /\ m_stateRecording' = m_stateRecording /\ Recording'
                                /\ Agree(server'.recorded, server.recorded, s),
         BlockInv(s)'
  PROVE  SlotInv(s)'
<1>0. \A u \in Threads \ {t} : Op(u)' = Op(u) /\ Of(u)' = Of(u)
  BY DEF Op, Of
<1>1. Alone(s)'
  BY DEF Alone, SlotInv
<1>2. ASSUME NEW u \in Threads PROVE CallInv(u, s)'
  <2> SUFFICES ASSUME Touches(u, s)' PROVE CallInv(u, s)'
    BY DEF CallInv
  <2>1. u # t /\ Touches(u, s) /\ m_stateRecording' = m_stateRecording /\ pending'[u] = pending[u]
        /\ Op(u)' = Op(u) /\ Of(u)' = Of(u) /\ CallInv(u, s)
    BY <1>0 DEF SlotInv
  <2>2. Recording' <=> Recording
    BY <2>1 DEF Recording
  <2>3. Op(u) \in {"create", "capture", "apply"} => Agree(blocks'[Of(u)], blocks[Of(u)], s)
    BY <2>1
  <2>4. Recording => Agree(blocks'[m_stateRecording], blocks[m_stateRecording], s)
    BY <2>1, <2>2
  <2>5. CASE Op(u) = "set"
    BY <2>1, <2>2, <2>4, <2>5 DEF CallInv, Agree
  <2>6. CASE Op(u) = "begin"
    BY <2>1, <2>2, <2>4, <2>6 DEF CallInv, Agree
  <2>7. CASE Op(u) \in {"create", "capture", "apply"}
    BY <2>1, <2>2, <2>3, <2>7 DEF CallInv, Agree
  <2>8. CASE Op(u) \notin {"set", "begin", "create", "capture", "apply"}
    BY <2>1, <2>2, <2>8 DEF CallInv
  <2> QED BY <2>5, <2>6, <2>7, <2>8
<1>3. DeviceInv(s)'
  <2>1. CASE Owed(s)
    <3>1. PICK u \in Threads : Touches(u, s) /\ (Op(u) = "apply" \/ (Op(u) = "set" /\ ~Recording))
      BY <2>1 DEF Owed
    <3>2. u # t /\ Touches(u, s)' /\ Op(u)' = Op(u) /\ m_stateRecording' = m_stateRecording
      BY <1>0, <3>1
    <3> QED BY <3>1, <3>2 DEF DeviceInv, Owed, Recording
  <2>2. CASE ~Owed(s)
    BY <2>2 DEF SlotInv, DeviceInv
  <2> QED BY <2>1, <2>2
<1>4. RecordInv(s)'
  <2> SUFFICES ASSUME server'.isRecording, \A u \in Threads : ~Touches(u, s)'
               PROVE  Agree(server'.recorded, blocks'[m_stateRecording'], s)
    BY DEF RecordInv
  <2>1. \A u \in Threads : ~Touches(u, s)
    OBVIOUS
  <2>2. Agree(server.recorded, blocks[m_stateRecording], s)
    BY <2>1, Free
  <2>3. Agree(blocks'[m_stateRecording], blocks[m_stateRecording], s) /\ m_stateRecording' = m_stateRecording
    OBVIOUS
  <2>4. Agree(server'.recorded, server.recorded, s)
    OBVIOUS
  <2> QED BY <2>2, <2>3, <2>4 DEF Agree
<1> QED BY <1>1, <1>2, <1>3, <1>4 DEF SlotInv

(* A thread's call begins, is done, or has its batch flushed.               *)
LEMMA PendingSet ==
  ASSUME PendingShape, NEW t \in Threads, NEW m, MessageShape(m),
         pending' = [pending EXCEPT ![t] = NotSent(m)]
  PROVE  /\ PendingShape' /\ pending'[t].msg = m /\ Op(t)' = m.op /\ pending'[t].flushed = FALSE
         /\ \A u \in Threads \ {t} : pending'[u] = pending[u] /\ Op(u)' = Op(u) /\ Of(u)' = Of(u)
<1>1. /\ DOMAIN NotSent(m) = {"msg", "flushed"} /\ NotSent(m).msg = m /\ NotSent(m).flushed = FALSE
  BY DEF NotSent
<1>2. pending'[t] = NotSent(m) /\ \A u \in Threads \ {t} : pending'[u] = pending[u]
  BY DEF PendingShape
<1>3. PendingShape'
  <2> SUFFICES ASSUME NEW u \in Threads
               PROVE  /\ DOMAIN pending'[u] = {"msg", "flushed"}
                      /\ MessageShape(pending'[u].msg)
                      /\ pending'[u].flushed \in BOOLEAN
                      /\ pending'[u].msg.op = "none" => pending'[u] = NotSent(NoMessage)
    BY DEF PendingShape, Op, Idle
  <2>1. CASE u = t
    BY <1>1, <1>2, <2>1 DEF MessageShape
  <2>2. CASE u # t
    BY <1>2, <2>2 DEF PendingShape, Op, Idle
  <2> QED BY <2>1, <2>2
<1> QED BY <1>1, <1>2, <1>3 DEF Op, Of

(* The batch of a call is flushed.                                          *)
LEMMA PendingFlushed ==
  ASSUME PendingShape, NEW t \in Threads, Op(t) # "none",
         pending' = [pending EXCEPT ![t].flushed = TRUE]
  PROVE  /\ PendingShape' /\ pending'[t].flushed = TRUE
         /\ \A u \in Threads : pending'[u].msg = pending[u].msg /\ Op(u)' = Op(u) /\ Of(u)' = Of(u)
         /\ \A u \in Threads \ {t} : pending'[u] = pending[u]
<1>1. /\ pending'[t] = [pending[t] EXCEPT !.flushed = TRUE]
      /\ \A u \in Threads \ {t} : pending'[u] = pending[u]
  BY DEF PendingShape
<1>2. DOMAIN pending'[t] = {"msg", "flushed"} /\ pending'[t].msg = pending[t].msg
      /\ pending'[t].flushed = TRUE
  BY <1>1 DEF PendingShape
<1>3. PendingShape'
  <2> SUFFICES ASSUME NEW u \in Threads
               PROVE  /\ DOMAIN pending'[u] = {"msg", "flushed"}
                      /\ MessageShape(pending'[u].msg)
                      /\ pending'[u].flushed \in BOOLEAN
                      /\ pending'[u].msg.op = "none" => pending'[u] = NotSent(NoMessage)
    BY DEF PendingShape, Op, Idle
  <2>1. CASE u = t
    BY <1>2, <2>1 DEF PendingShape, Op
  <2>2. CASE u # t
    BY <1>1, <2>2 DEF PendingShape, Op, Idle
  <2> QED BY <2>1, <2>2
<1> QED BY <1>1, <1>2, <1>3 DEF Op, Of

(* An idle thread touches nothing.                                          *)
LEMMA IdleIs ==
  ASSUME NEW t \in Threads, Idle(t)
  PROVE  Op(t) = "none" /\ pending[t].flushed = FALSE /\ \A s : ~Touches(t, s)
BY DEF Idle, NotSent, NoMessage, Op, Touches, Touched

(* No message, and a setter's, have the shape of a message.                 *)
LEMMA MessageShapes ==
  /\ MessageShape(NoMessage) /\ NoMessage.op = "none"
  /\ \A x \in Slots, v \in Values : /\ MessageShape(Setting(x, v)) /\ Setting(x, v).op = "set"
                                    /\ Setting(x, v).slot = x /\ Setting(x, v).value = v
  /\ \A b : \A op \in {"create", "capture", "apply", "destroy"} :
       MessageShape(About(op, b)) /\ About(op, b).op = op /\ About(op, b).block = b
  /\ MessageShape([op |-> "begin"])
BY DEF MessageShape, NoMessage, Setting, About, Ops

(* The blocks stay, but for the values in them and what is recorded.        *)
LEMMA SameBlocks ==
  ASSUME PendingShape, PendingShape', BlockUse, NEW t \in Threads,
         \A u \in Threads \ {t} : Op(u)' = Op(u) /\ Of(u)' = Of(u),
         DOMAIN blocks' = DOMAIN blocks, m_stateRecording' = m_stateRecording,
         \A b \in DOMAIN blocks : b # m_stateRecording => DOMAIN blocks'[b] = DOMAIN blocks[b],
         \/ Op(t) # "create" /\ Op(t)' \in {"none", "set"}
         \/ Op(t) # "create" /\ Op(t)' \in {"capture", "apply"} /\ Held(Of(t)')
         \/ Op(t)' = Op(t) /\ Of(t)' = Of(t)
  PROVE  BlockUse' /\ \A b : Held(b)' <=> Held(b)
<1>1. \A b : Held(b)' <=> Held(b)
  <2> TAKE b
  <2>1. \A u \in Threads : (Op(u)' = "create" => Of(u)' # b) <=> (Op(u) = "create" => Of(u) # b)
    OBVIOUS
  <2> QED BY <2>1, HeldIs, HeldIsNext
<1>2. ASSUME NEW u \in Threads
      PROVE  /\ Op(u)' = "create" => /\ Of(u)' \in DOMAIN blocks' /\ Of(u)' # m_stateRecording'
                                     /\ DOMAIN blocks'[Of(u)'] = StateBlockSetCaptureFlags
             /\ Op(u)' \in {"capture", "apply"} => Held(Of(u)')
             /\ Op(u)' = "destroy" => Of(u)' \notin DOMAIN blocks'
  <2>1. CASE Op(u)' = Op(u) /\ Of(u)' = Of(u)
    BY <2>1 DEF BlockUse
  <2>2. CASE u = t /\ ~(Op(u)' = Op(u) /\ Of(u)' = Of(u))
    BY <2>2
  <2> QED BY <2>1, <2>2
<1> QED BY <1>1, <1>2 DEF BlockUse

(* A call touches the slots it touched, as long as its block has the same.  *)
LEMMA SameTouch ==
  ASSUME PendingShape, PendingShape', BlockUse, BlockUse', NEW u \in Threads,
         pending'[u].msg = pending[u].msg,
         Op(u) \in {"capture", "apply"} =>
           /\ Of(u) \in DOMAIN blocks' /\ DOMAIN blocks'[Of(u)] = DOMAIN blocks[Of(u)]
           /\ Of(u) \in DOMAIN server'.blocks <=> Of(u) \in DOMAIN server.blocks
           /\ Of(u) \in DOMAIN server.blocks => DOMAIN server'.blocks[Of(u)] = DOMAIN server.blocks[Of(u)]
  PROVE  \A s : Touches(u, s)' <=> Touches(u, s)
<1>1. Op(u)' = Op(u) /\ Of(u)' = Of(u)
  BY DEF Op, Of
<1>2. CASE Op(u) \in {"capture", "apply"}
  <2>1. Of(u) \in DOMAIN blocks
    BY <1>2, HeldIs DEF BlockUse
  <2>2. BlockSlots(Of(u))' = BlockSlots(Of(u))
    BY <1>1, <1>2, <2>1 DEF BlockSlots
  <2> QED BY <1>1, <1>2, <2>2, TouchesIs, TouchesIsNext
<1>3. CASE Op(u) \notin {"capture", "apply"}
  BY <1>1, <1>3, TouchesIs, TouchesIsNext
<1> QED BY <1>2, <1>3

--------------------------------------------------------------------------------
(* Setters *)

(* What the client stores.                                                  *)
LEMMA StoreEffect ==
  ASSUME ClientShape, NEW x \in Slots, NEW v, Store(x, v), UNCHANGED m_stateRecording
  PROVE  /\ DOMAIN m_state' = Slots /\ DOMAIN blocks' = DOMAIN blocks
         /\ \A b \in DOMAIN blocks : /\ DOMAIN blocks'[b] \subseteq Slots
                                     /\ b # m_stateRecording => blocks'[b] = blocks[b]
         /\ \A s : s # x => /\ s \in Slots => m_state'[s] = m_state[s]
                            /\ \A b \in DOMAIN blocks : Agree(blocks'[b], blocks[b], s)
         /\ Recording /\ Setter[x].records => /\ x \in DOMAIN blocks'[m_stateRecording]
                                              /\ blocks'[m_stateRecording][x] = v
                                              /\ m_state' = m_state
         /\ ~Recording => m_state'[x] = v
<1>1. CASE Recording /\ Setter[x].records
  <2> DEFINE f == Over(Entry(x, v), blocks[m_stateRecording])
  <2>1. blocks' = [blocks EXCEPT ![m_stateRecording] = f] /\ m_state' = m_state
    BY <1>1 DEF Store
  <2>2. /\ DOMAIN f = {x} \cup DOMAIN blocks[m_stateRecording] /\ f[x] = v
        /\ \A s : s # x => Agree(f, blocks[m_stateRecording], s)
    BY DEF Over, Entry, Agree
  <2> HIDE DEF f
  <2>3. m_stateRecording \in DOMAIN blocks
    BY <1>1 DEF ClientShape
  <2>4. DOMAIN blocks' = DOMAIN blocks /\ blocks'[m_stateRecording] = f
        /\ \A b \in DOMAIN blocks : b # m_stateRecording => blocks'[b] = blocks[b]
    BY <2>1, <2>3
  <2>5. \A s : s # x => \A b \in DOMAIN blocks : Agree(blocks'[b], blocks[b], s)
    BY <2>2, <2>4 DEF Agree
  <2>6. \A b \in DOMAIN blocks : DOMAIN blocks'[b] \subseteq Slots
    BY <2>2, <2>3, <2>4 DEF ClientShape
  <2> QED BY <1>1, <2>1, <2>2, <2>4, <2>5, <2>6 DEF ClientShape
<1>2. CASE ~(Recording /\ Setter[x].records)
  <2>1. m_state' = [m_state EXCEPT ![x] = v] /\ blocks' = blocks
    BY <1>2 DEF Store
  <2>2. DOMAIN m_state' = Slots /\ m_state'[x] = v /\ \A s \in Slots : s # x => m_state'[s] = m_state[s]
    BY <2>1 DEF ClientShape
  <2> QED BY <1>2, <2>1, <2>2 DEF ClientShape, Agree
<1> QED BY <1>1, <1>2

(* What the invariant says before a step that leaves some slot without gap. *)
LEMMA Together ==
  ASSUME IInv, tainted \subseteq tainted', tainted' \subseteq Slots, tainted' # Slots
  PROVE  Synced
BY DEF IInv, InStep

(* The same of a step on another slot that leaves the blocks' domains and   *)
(* the recorders as they are.                                               *)
LEMMA OtherSlot ==
  ASSUME Shape, PendingShape', BlockUse, BlockUse', Synced, NEW t \in Threads, NEW s, SlotInv(s),
         ~Touches(t, s), ~Touches(t, s)',
         \A u \in Threads \ {t} : pending'[u] = pending[u],
         Op(t) = "capture" => Op(t)' = "capture" /\ Of(t)' = Of(t),
         m_stateRecording' = m_stateRecording, DOMAIN blocks' = DOMAIN blocks,
         \A b \in DOMAIN blocks : /\ Agree(blocks'[b], blocks[b], s)
                                  /\ b # m_stateRecording => DOMAIN blocks'[b] = DOMAIN blocks[b],
         \A b : Held(b)' => Held(b),
         m_state'[s] = m_state[s], Stored'[s] = Stored[s], s \in InBatch' => s \in InBatch,
         server'.isRecording = server.isRecording, server'.blocks = server.blocks,
         Agree(server'.recorded, server.recorded, s)
  PROVE  SlotInv(s)'
<1>0. PendingShape /\ ClientShape /\ \A u \in Threads \ {t} : Op(u)' = Op(u) /\ Of(u)' = Of(u)
  BY DEF Shape, Op, Of
<1>1. \A u \in Threads \ {t} : Touches(u, s)' <=> Touches(u, s)
  <2> TAKE u \in Threads \ {t}
  <2>1. Op(u) \in {"capture", "apply"} => Of(u) \in DOMAIN blocks /\ Of(u) # m_stateRecording
    BY <1>0, HeldIs DEF BlockUse
  <2> QED BY <1>0, <2>1, SameTouch
<1>2. BlockInv(s)'
  <2>1. ASSUME NEW b \in DOMAIN blocks', Held(b)'
        PROVE  /\ b \in DOMAIN blocks /\ Held(b)
               /\ Agree(blocks'[b], blocks[b], s) /\ Agree(server'.blocks[b], server.blocks[b], s)
    BY <2>1 DEF Agree
  <2>2. \A u \in Threads : Op(u) = "capture" => Op(u)' = "capture" /\ Of(u)' = Of(u)
    BY <1>0
  <2> QED BY <2>1, <2>2, BlockFrame DEF SlotInv
<1>3. Recording' => Agree(blocks'[m_stateRecording], blocks[m_stateRecording], s)
  BY <1>0 DEF ClientShape, Recording
<1>4. \A u \in Threads \ {t} : Touches(u, s) /\ Op(u) \in {"create", "capture", "apply"}
         => Agree(blocks'[Of(u)], blocks[Of(u)], s)
  BY <1>0, HeldIs DEF BlockUse
<1>5. server'.isRecording => server.isRecording /\ Recording'
  BY DEF Synced, Recording
<1> QED BY <1>1, <1>2, <1>3, <1>4, <1>5, Frame

(* A setter that stores now and sends later.                                *)
LEMMA SetLaterKeeps ==
  ASSUME IInv, NEW t \in Threads, NEW x \in Slots, NEW v \in Values, Set(t, x, v), Setter[x].second # "none"
  PROVE  IInv'
<1>0. Shape /\ ClientShape /\ PendingShape /\ BlockUse
  BY DEF IInv, Shape
<1>1. /\ Idle(t) /\ Store(x, v) /\ pending' = [pending EXCEPT ![t] = NotSent(Setting(x, v))]
      /\ UNCHANGED <<batch, server, m_stateRecording>>
      /\ tainted' = tainted \cup Raced(t, {x}) \cup (IF Recording /\ ~Setter[x].records THEN {x} ELSE {})
  BY DEF Set, Later
<1>2. Op(t) = "none" /\ \A s : ~Touches(t, s)
  BY <1>1, IdleIs
<1>3. /\ PendingShape' /\ pending'[t].msg = Setting(x, v) /\ Op(t)' = "set" /\ pending'[t].flushed = FALSE
      /\ pending'[t].msg.slot = x /\ pending'[t].msg.value = v
      /\ \A u \in Threads \ {t} : pending'[u] = pending[u] /\ Op(u)' = Op(u) /\ Of(u)' = Of(u)
  <2>1. /\ MessageShape(Setting(x, v)) /\ Setting(x, v).op = "set" /\ Setting(x, v).slot = x
        /\ Setting(x, v).value = v
    BY MessageShapes
  <2> QED BY <1>0, <1>1, <2>1, PendingSet
<1>4. /\ DOMAIN m_state' = Slots /\ DOMAIN blocks' = DOMAIN blocks
      /\ \A b \in DOMAIN blocks : /\ DOMAIN blocks'[b] \subseteq Slots
                                  /\ b # m_stateRecording => blocks'[b] = blocks[b]
      /\ \A s : s # x => /\ s \in Slots => m_state'[s] = m_state[s]
                         /\ \A b \in DOMAIN blocks : Agree(blocks'[b], blocks[b], s)
      /\ Recording /\ Setter[x].records => /\ x \in DOMAIN blocks'[m_stateRecording]
                                           /\ blocks'[m_stateRecording][x] = v
                                           /\ m_state' = m_state
      /\ ~Recording => m_state'[x] = v
  BY <1>0, <1>1, StoreEffect
<1>5. tainted \subseteq tainted' /\ tainted' \subseteq Slots /\ (Recording' <=> Recording)
  BY <1>0, <1>1 DEF ClientShape, Raced, Recording
<1>6. Shape'
  <2>1. ClientShape'
    BY <1>0, <1>1, <1>4, <1>5 DEF ClientShape
  <2>2. BatchShape' /\ ServerShape(server')
    BY <1>0, <1>1 DEF Shape, BatchShape, InBatch
  <2> QED BY <1>3, <2>1, <2>2 DEF Shape
<1>7. BlockUse' /\ \A b : Held(b)' <=> Held(b)
  BY <1>0, <1>1, <1>2, <1>3, <1>4, SameBlocks
<1>8. InStep'
  <2> SUFFICES ASSUME tainted' # Slots PROVE Synced'
    BY DEF InStep
  <2>1. Synced
    BY <1>5, Together
  <2> QED BY <1>1, <1>2, <1>3, <1>4, <1>5, <1>7, <2>1 DEF Synced
<1>9. ASSUME NEW s \in Slots \ tainted' PROVE SlotInv(s)'
  <2>0. SlotInv(s) /\ s \in Slots /\ Synced
    BY <1>5, Together DEF IInv
  <2>1. Touches(t, s)' <=> s = x
    BY <1>3, TouchesIsNext
  <2>2. UNCHANGED Stored /\ UNCHANGED InBatch
    BY <1>1 DEF Stored, InBatch
  <2>3. CASE s # x
    <3>1. \A b \in DOMAIN blocks : /\ Agree(blocks'[b], blocks[b], s)
                                   /\ b # m_stateRecording => DOMAIN blocks'[b] = DOMAIN blocks[b]
      BY <1>4, <2>3
    <3>2. Agree(server'.recorded, server.recorded, s) /\ m_state'[s] = m_state[s]
      BY <1>1, <1>4, <2>0, <2>3 DEF Agree
    <3> QED BY <1>0, <1>1, <1>2, <1>3, <1>4, <1>7, <2>0, <2>1, <2>2, <2>3, <3>1, <3>2, OtherSlot
  <2>4. CASE s = x
    <3>1. \A u \in Threads \ {t} : ~Touches(u, x)
      BY <1>1, <2>4, NotRaced
    <3>2. \A u \in Threads \ {t} : ~Touches(u, x)'
      <4> TAKE u \in Threads \ {t}
      <4>1. Op(u) \in {"capture", "apply"} => Of(u) \in DOMAIN blocks /\ Of(u) # m_stateRecording
        BY <1>0, HeldIs DEF BlockUse
      <4> QED BY <1>0, <1>1, <1>3, <1>4, <1>7, <3>1, <4>1, SameTouch
    <3>3. Stored[x] = m_state[x]
      BY <1>2, <2>0, <2>4, <3>1, Free
    <3>4. Recording => Setter[x].records
      BY <1>1, <2>4
    <3>5. CallInv(t, x)'
      BY <1>1, <1>3, <1>4, <1>5, <3>4 DEF CallInv
    <3>6. DeviceInv(x)'
      <4>1. CASE Recording
        BY <1>4, <2>2, <3>3, <3>4, <4>1 DEF DeviceInv
      <4>2. CASE ~Recording
        BY <1>3, <1>5, <2>1, <2>4, <4>2 DEF DeviceInv, Owed
      <4> QED BY <4>1, <4>2
    <3>7. RecordInv(x)'
      BY <2>1, <2>4 DEF RecordInv
    <3>8. BlockInv(x)'
      <4>1. ASSUME NEW b \in DOMAIN blocks', Held(b)'
            PROVE  /\ b \in DOMAIN blocks /\ Held(b)
                   /\ Agree(blocks'[b], blocks[b], x) /\ Agree(server'.blocks[b], server.blocks[b], x)
        <5>1. b \in DOMAIN blocks /\ Held(b) /\ b # m_stateRecording
          BY <1>0, <1>7, <4>1, HeldIs
        <5> QED BY <1>1, <1>4, <5>1 DEF Agree
      <4>2. \A u \in Threads : Op(u) = "capture" => Op(u)' = "capture" /\ Of(u)' = Of(u)
        BY <1>2, <1>3
      <4> QED BY <2>0, <2>4, <4>1, <4>2, BlockFrame DEF SlotInv
    <3> QED BY <2>4, <3>2, <3>5, <3>6, <3>7, <3>8, Solo
  <2> QED BY <2>3, <2>4
<1> QED BY <1>6, <1>7, <1>8, <1>9 DEF IInv

(* A setter that stores and sends in one scope.                             *)
LEMMA SetNowKeeps ==
  ASSUME IInv, NEW t \in Threads, NEW x \in Slots, NEW v \in Values, Set(t, x, v), Setter[x].second = "none"
  PROVE  IInv'
<1>0. Shape /\ ClientShape /\ PendingShape /\ BlockUse
  BY DEF IInv, Shape
<1>1. /\ Idle(t) /\ Store(x, v) /\ Forward(x, v) /\ UNCHANGED <<pending, m_stateRecording>>
      /\ tainted' = tainted \cup Raced(t, {x}) \cup (IF Recording /\ ~Setter[x].records THEN {x} ELSE {})
  BY DEF Set
<1>2. Op(t) = "none" /\ \A s : ~Touches(t, s)
  BY <1>1, IdleIs
<1>3. PendingShape' /\ \A u \in Threads : pending'[u] = pending[u] /\ Op(u)' = Op(u) /\ Of(u)' = Of(u)
  BY <1>0, <1>1 DEF PendingShape, Op, Of, Idle
<1>4. /\ DOMAIN m_state' = Slots /\ DOMAIN blocks' = DOMAIN blocks
      /\ \A b \in DOMAIN blocks : /\ DOMAIN blocks'[b] \subseteq Slots
                                  /\ b # m_stateRecording => blocks'[b] = blocks[b]
      /\ \A s : s # x => /\ s \in Slots => m_state'[s] = m_state[s]
                         /\ \A b \in DOMAIN blocks : Agree(blocks'[b], blocks[b], s)
      /\ Recording /\ Setter[x].records => /\ x \in DOMAIN blocks'[m_stateRecording]
                                           /\ blocks'[m_stateRecording][x] = v
                                           /\ m_state' = m_state
      /\ ~Recording => m_state'[x] = v
  BY <1>0, <1>1, StoreEffect
<1>5. tainted \subseteq tainted' /\ tainted' \subseteq Slots /\ (Recording' <=> Recording)
  BY <1>0, <1>1 DEF ClientShape, Raced, Recording
<1>6. Shape'
  <2>1. ClientShape'
    BY <1>0, <1>1, <1>4, <1>5 DEF ClientShape
  <2>2. BatchShape' /\ ServerShape(server')
    BY <1>0, <1>1, ForwardShape
  <2> QED BY <1>3, <2>1, <2>2 DEF Shape
<1>7. BlockUse' /\ \A b : Held(b)' <=> Held(b)
  BY <1>0, <1>1, <1>2, <1>3, <1>4, SameBlocks
<1>e. ASSUME Synced
      PROVE  /\ server'.isRecording = server.isRecording /\ ~server'.down /\ server'.blocks = server.blocks
             /\ InBatch' \subseteq InBatch \cup {x} /\ (Recording => batch' = <<>>)
             /\ \A s \in Slots : s # x => Stored'[s] = Stored[s] /\ Agree(server'.recorded, server.recorded, s)
             /\ server.isRecording => /\ x \in DOMAIN server'.recorded /\ server'.recorded[x] = v
                                      /\ Stored'[x] = Stored[x]
             /\ ~server.isRecording => Stored'[x] = v /\ Agree(server'.recorded, server.recorded, x)
  <2>1. ~server.down /\ (server.isRecording => batch = <<>> /\ Recording)
    BY <1>e DEF Synced
  <2> QED BY <1>0, <1>1, <2>1, ForwardEffect
<1>8. InStep'
  <2> SUFFICES ASSUME tainted' # Slots PROVE Synced'
    BY DEF InStep
  <2>1. Synced
    BY <1>5, Together
  <2> QED BY <1>1, <1>3, <1>4, <1>5, <1>7, <1>e, <2>1 DEF Synced
<1>9. ASSUME NEW s \in Slots \ tainted' PROVE SlotInv(s)'
  <2>0. SlotInv(s) /\ s \in Slots /\ Synced
    BY <1>5, Together DEF IInv
  <2>1. ~Touches(t, s)'
    BY <1>2, <1>3, TouchesIsNext
  <2>2. /\ server'.isRecording = server.isRecording /\ ~server'.down /\ server'.blocks = server.blocks
        /\ InBatch' \subseteq InBatch \cup {x} /\ (Recording => batch' = <<>>)
        /\ s # x => Stored'[s] = Stored[s] /\ Agree(server'.recorded, server.recorded, s)
        /\ server.isRecording => /\ x \in DOMAIN server'.recorded /\ server'.recorded[x] = v
                                 /\ Stored'[x] = Stored[x]
        /\ ~server.isRecording => Stored'[x] = v
    BY <1>e, <2>0
  <2>3. CASE s # x
    <3>1. \A b \in DOMAIN blocks : /\ Agree(blocks'[b], blocks[b], s)
                                   /\ b # m_stateRecording => DOMAIN blocks'[b] = DOMAIN blocks[b]
      BY <1>4, <2>3
    <3>2. m_state'[s] = m_state[s] /\ (s \in InBatch' => s \in InBatch)
      BY <1>4, <2>0, <2>2, <2>3
    <3> QED BY <1>0, <1>1, <1>2, <1>3, <1>4, <1>7, <2>0, <2>1, <2>2, <2>3, <3>1, <3>2, OtherSlot
  <2>4. CASE s = x
    <3>1. \A u \in Threads \ {t} : ~Touches(u, x)
      BY <1>1, <2>4, NotRaced
    <3>2. \A u \in Threads \ {t} : ~Touches(u, x)'
      <4> TAKE u \in Threads \ {t}
      <4>1. Op(u) \in {"capture", "apply"} => Of(u) \in DOMAIN blocks /\ Of(u) # m_stateRecording
        BY <1>0, HeldIs DEF BlockUse
      <4> QED BY <1>0, <1>1, <1>3, <1>4, <1>7, <2>2, <3>1, <4>1, SameTouch
    <3>3. Stored[x] = m_state[x]
      BY <1>2, <2>0, <2>4, <3>1, Free
    <3>4. Recording => Setter[x].records
      BY <1>1, <2>4
    <3>5. Recording <=> server.isRecording
      <4>1. \A u \in Threads : Op(u) # "begin"
        BY <1>0, <1>2, <3>1, TouchesIs
      <4> QED BY <2>0, <4>1 DEF Synced
    <3>6. CallInv(t, x)'
      BY <2>1, <2>4 DEF CallInv
    <3>7. DeviceInv(x)'
      BY <1>4, <2>2, <3>3, <3>4, <3>5 DEF DeviceInv
    <3>8. RecordInv(x)'
      BY <1>1, <1>4, <2>2, <3>4, <3>5 DEF RecordInv, Agree
    <3>9. BlockInv(x)'
      <4>1. ASSUME NEW b \in DOMAIN blocks', Held(b)'
            PROVE  /\ b \in DOMAIN blocks /\ Held(b)
                   /\ Agree(blocks'[b], blocks[b], x) /\ Agree(server'.blocks[b], server.blocks[b], x)
        <5>1. b \in DOMAIN blocks /\ Held(b) /\ b # m_stateRecording
          BY <1>0, <1>7, <4>1, HeldIs
        <5> QED BY <1>4, <2>2, <5>1 DEF Agree
      <4>2. \A u \in Threads : Op(u) = "capture" => Op(u)' = "capture" /\ Of(u)' = Of(u)
        BY <1>3
      <4> QED BY <2>0, <2>4, <4>1, <4>2, BlockFrame DEF SlotInv
    <3> QED BY <2>4, <3>2, <3>6, <3>7, <3>8, <3>9, Solo
  <2> QED BY <2>3, <2>4
<1> QED BY <1>6, <1>7, <1>8, <1>9 DEF IInv

(* MultiplyTransform, whose slot has a gap from then on.                    *)
LEMMA MultiplyKeeps ==
  ASSUME IInv, NEW t \in Threads, NEW v \in Values, MultiplyTransform(t, v)
  PROVE  IInv'
<1> DEFINE x == "transforms"
<1>0. Shape /\ ClientShape /\ PendingShape /\ BlockUse
  BY DEF IInv, Shape
<1>1. /\ x \in Slots /\ Idle(t) /\ Store(x, v) /\ UNCHANGED <<pending, m_stateRecording, batch, server>>
      /\ tainted' = tainted \cup {x}
  BY DEF MultiplyTransform
<1>2. Op(t) = "none" /\ \A s : ~Touches(t, s)
  BY <1>1, IdleIs
<1>3. PendingShape' /\ \A u \in Threads : pending'[u] = pending[u] /\ Op(u)' = Op(u) /\ Of(u)' = Of(u)
  BY <1>0, <1>1 DEF PendingShape, Op, Of, Idle
<1>4. /\ DOMAIN m_state' = Slots /\ DOMAIN blocks' = DOMAIN blocks
      /\ \A b \in DOMAIN blocks : /\ DOMAIN blocks'[b] \subseteq Slots
                                  /\ b # m_stateRecording => blocks'[b] = blocks[b]
      /\ \A s : s # x => /\ s \in Slots => m_state'[s] = m_state[s]
                         /\ \A b \in DOMAIN blocks : Agree(blocks'[b], blocks[b], s)
  BY <1>0, <1>1, StoreEffect
<1> HIDE DEF x
<1>5. tainted \subseteq tainted' /\ tainted' \subseteq Slots /\ (Recording' <=> Recording)
  BY <1>0, <1>1 DEF ClientShape, Recording
<1>6. Shape'
  <2>1. ClientShape'
    BY <1>0, <1>1, <1>4, <1>5 DEF ClientShape
  <2>2. BatchShape' /\ ServerShape(server')
    BY <1>0, <1>1 DEF Shape, BatchShape, InBatch
  <2> QED BY <1>3, <2>1, <2>2 DEF Shape
<1>7. BlockUse' /\ \A b : Held(b)' <=> Held(b)
  BY <1>0, <1>1, <1>2, <1>3, <1>4, SameBlocks
<1>8. InStep'
  <2> SUFFICES ASSUME tainted' # Slots PROVE Synced'
    BY DEF InStep
  <2>1. Synced
    BY <1>5, Together
  <2> QED BY <1>1, <1>3, <1>4, <1>5, <1>7, <2>1 DEF Synced
<1>9. ASSUME NEW s \in Slots \ tainted' PROVE SlotInv(s)'
  <2>0. SlotInv(s) /\ s \in Slots /\ Synced /\ s # x
    BY <1>1, <1>5, Together DEF IInv
  <2>1. ~Touches(t, s)'
    BY <1>2, <1>3, TouchesIsNext
  <2>2. UNCHANGED Stored /\ UNCHANGED InBatch
    BY <1>1 DEF Stored, InBatch
  <2>3. \A b \in DOMAIN blocks : /\ Agree(blocks'[b], blocks[b], s)
                                 /\ b # m_stateRecording => DOMAIN blocks'[b] = DOMAIN blocks[b]
    BY <1>4, <2>0
  <2>4. Agree(server'.recorded, server.recorded, s) /\ m_state'[s] = m_state[s]
    BY <1>1, <1>4, <2>0 DEF Agree
  <2> QED BY <1>0, <1>1, <1>2, <1>3, <1>4, <1>7, <2>0, <2>1, <2>2, <2>3, <2>4, OtherSlot
<1> QED BY <1>6, <1>7, <1>8, <1>9 DEF IInv

--------------------------------------------------------------------------------
(* Second scopes *)

(* A thread that is done has no message.                                    *)
LEMMA DoneIs ==
  ASSUME PendingShape, NEW t \in Threads, Done(t)
  PROVE  /\ PendingShape' /\ Op(t)' = "none" /\ \A s : ~Touches(t, s)'
         /\ \A u \in Threads \ {t} : pending'[u] = pending[u] /\ Op(u)' = Op(u) /\ Of(u)' = Of(u)
<1>1. MessageShape(NoMessage) /\ NoMessage.op = "none"
  BY MessageShapes
<1>2. /\ PendingShape' /\ Op(t)' = "none"
      /\ \A u \in Threads \ {t} : pending'[u] = pending[u] /\ Op(u)' = Op(u) /\ Of(u)' = Of(u)
  BY <1>1, PendingSet DEF Done
<1>3. \A s : ~Touches(t, s)'
  BY <1>2, TouchesIsNext
<1> QED BY <1>2, <1>3

(* The second scope of a setter is done with: what it carried has reached   *)
(* the server or the batch, behind the records of the batch.                *)
LEMMA SetArrives ==
  ASSUME IInv, NEW t \in Threads, Op(t) = "set", Done(t),
         UNCHANGED <<m_state, m_stateRecording, blocks, tainted>>,
         NEW x \in Slots, NEW v \in Values, pending[t].msg.slot = x, pending[t].msg.value = v,
         ServerShape(server'), BatchShape',
         Synced =>
           /\ server'.isRecording = server.isRecording /\ ~server'.down /\ server'.blocks = server.blocks
           /\ InBatch' \subseteq InBatch \cup {x} /\ (Recording /\ batch = <<>> => batch' = <<>>)
           /\ \A s \in Slots : s # x => Stored'[s] = Stored[s] /\ Agree(server'.recorded, server.recorded, s)
           /\ x \notin tainted =>
                /\ server.isRecording => /\ x \in DOMAIN server'.recorded /\ server'.recorded[x] = v
                                         /\ Stored'[x] = Stored[x]
                /\ ~server.isRecording => Stored'[x] = v
  PROVE  IInv'
<1>0. Shape /\ ClientShape /\ PendingShape /\ BlockUse
  BY DEF IInv, Shape
<1>3. /\ PendingShape' /\ Op(t)' = "none" /\ \A s : ~Touches(t, s)'
      /\ \A u \in Threads \ {t} : pending'[u] = pending[u] /\ Op(u)' = Op(u) /\ Of(u)' = Of(u)
  BY <1>0, DoneIs
<1>4. \A s : Touches(t, s) <=> s = x
  BY <1>0, TouchesIs
<1>5. tainted \subseteq tainted' /\ tainted' \subseteq Slots /\ (Recording' <=> Recording)
  BY <1>0 DEF ClientShape, Recording
<1>6. Shape'
  <2>1. ClientShape'
    BY <1>0 DEF ClientShape, Recording
  <2> QED BY <1>3, <2>1 DEF Shape
<1>7. BlockUse' /\ \A b : Held(b)' <=> Held(b)
  BY <1>0, <1>3, SameBlocks
<1>8. InStep'
  <2> SUFFICES ASSUME tainted' # Slots PROVE Synced'
    BY DEF InStep
  <2>1. Synced
    BY <1>5, Together
  <2> QED BY <1>3, <1>5, <1>7, <2>1 DEF Synced
<1>9. ASSUME NEW s \in Slots \ tainted' PROVE SlotInv(s)'
  <2>0. SlotInv(s) /\ s \in Slots /\ Synced
    BY <1>5, Together DEF IInv
  <2>2. /\ server'.isRecording = server.isRecording /\ ~server'.down /\ server'.blocks = server.blocks
        /\ InBatch' \subseteq InBatch \cup {x}
        /\ s # x => Stored'[s] = Stored[s] /\ Agree(server'.recorded, server.recorded, s)
        /\ s = x => /\ server.isRecording => /\ x \in DOMAIN server'.recorded /\ server'.recorded[x] = v
                                             /\ Stored'[x] = Stored[x]
                    /\ ~server.isRecording => Stored'[x] = v
    BY <2>0
  <2>3. CASE s # x
    <3>1. \A b \in DOMAIN blocks : /\ Agree(blocks'[b], blocks[b], s)
                                   /\ b # m_stateRecording => DOMAIN blocks'[b] = DOMAIN blocks[b]
      BY DEF Agree
    <3> QED BY <1>0, <1>3, <1>4, <1>7, <2>0, <2>2, <2>3, <3>1, OtherSlot
  <2>4. CASE s = x
    <3>1. \A u \in Threads \ {t} : ~Touches(u, x)
      BY <1>4, <2>0, <2>4 DEF SlotInv, Alone
    <3>2. \A u \in Threads \ {t} : ~Touches(u, x)'
      <4> TAKE u \in Threads \ {t}
      <4>1. Op(u) \in {"capture", "apply"} => Of(u) \in DOMAIN blocks
        BY <1>0, HeldIs DEF BlockUse
      <4> QED BY <1>0, <1>3, <1>7, <2>2, <3>1, <4>1, SameTouch
    <3>3. IF Recording THEN x \in DOMAIN blocks[m_stateRecording] /\ blocks[m_stateRecording][x] = v
          ELSE m_state[x] = v
      BY <1>4, <2>0, <2>4 DEF SlotInv, CallInv
    <3>4. Recording => Stored[x] = m_state[x]
      BY <2>0, <2>4, <3>1 DEF SlotInv, DeviceInv, Owed
    <3>5. Recording <=> server.isRecording
      <4>1. \A u \in Threads : Op(u) # "begin"
        BY <1>0, <3>1, TouchesIs
      <4> QED BY <2>0, <4>1 DEF Synced
    <3>6. CallInv(t, x)'
      BY <1>3 DEF CallInv
    <3>a. /\ server'.isRecording = server.isRecording
          /\ server.isRecording => /\ x \in DOMAIN server'.recorded /\ server'.recorded[x] = v
                                   /\ Stored'[x] = Stored[x]
          /\ ~server.isRecording => Stored'[x] = v
      BY <2>2, <2>4
    <3>7. DeviceInv(x)'
      <4>1. m_state' = m_state
        OBVIOUS
      <4>2. Stored'[x] = m_state[x]
        BY <3>3, <3>4, <3>5, <3>a
      <4> QED BY <4>1, <4>2 DEF DeviceInv
    <3>8. RecordInv(x)'
      <4>1. blocks' = blocks /\ m_stateRecording' = m_stateRecording
        OBVIOUS
      <4>2. server.isRecording => Agree(server'.recorded, blocks[m_stateRecording], x)
        BY <3>3, <3>5, <3>a DEF Agree
      <4> QED BY <3>a, <4>1, <4>2 DEF RecordInv
    <3>9. BlockInv(x)'
      <4>1. ASSUME NEW b \in DOMAIN blocks', Held(b)'
            PROVE  /\ b \in DOMAIN blocks /\ Held(b)
                   /\ Agree(blocks'[b], blocks[b], x) /\ Agree(server'.blocks[b], server.blocks[b], x)
        BY <1>7, <2>2, <4>1 DEF Agree
      <4>2. \A u \in Threads : Op(u) = "capture" => Op(u)' = "capture" /\ Of(u)' = Of(u)
        BY <1>3
      <4> QED BY <2>0, <2>4, <4>1, <4>2, BlockFrame DEF SlotInv
    <3> QED BY <2>4, <3>2, <3>6, <3>7, <3>8, <3>9, Solo
  <2> QED BY <2>3, <2>4
<1> QED BY <1>6, <1>7, <1>8, <1>9 DEF IInv

(* The second scope of a batched setter.                                    *)
LEMMA ForwardKeeps ==
  ASSUME IInv, NEW t \in Threads, ForwardPending(t)
  PROVE  IInv'
<1>0. Shape /\ PendingShape
  BY DEF IInv, Shape
<1>1. Op(t) = "set"
  BY DEF ForwardPending, Op
<1>2. PICK x \in Slots, v \in Values : pending[t].msg.slot = x /\ pending[t].msg.value = v
  BY <1>0, <1>1 DEF PendingShape, MessageShape, Op
<1>3. Forward(x, v) /\ Done(t) /\ UNCHANGED <<m_state, m_stateRecording, blocks, tainted>>
  BY <1>2 DEF ForwardPending
<1>4. BatchShape' /\ ServerShape(server')
  BY <1>0, <1>3, ForwardShape
<1>5. ASSUME Synced
      PROVE  /\ server'.isRecording = server.isRecording /\ ~server'.down /\ server'.blocks = server.blocks
             /\ InBatch' \subseteq InBatch \cup {x} /\ (Recording => batch' = <<>>)
             /\ \A s \in Slots : s # x => Stored'[s] = Stored[s] /\ Agree(server'.recorded, server.recorded, s)
             /\ server.isRecording => /\ x \in DOMAIN server'.recorded /\ server'.recorded[x] = v
                                      /\ Stored'[x] = Stored[x]
             /\ ~server.isRecording => Stored'[x] = v /\ Agree(server'.recorded, server.recorded, x)
  <2>1. ~server.down /\ (server.isRecording => batch = <<>> /\ Recording)
    BY <1>5 DEF Synced
  <2> QED BY <1>0, <1>3, <2>1, ForwardEffect
<1> QED BY <1>1, <1>2, <1>3, <1>4, <1>5, SetArrives

(* The constructor of a Command flushes the batch.                          *)
LEMMA FlushKeeps ==
  ASSUME IInv, NEW t \in Threads, FlushBefore(t)
  PROVE  IInv'
<1>0. Shape /\ ClientShape /\ PendingShape /\ BlockUse
  BY DEF IInv, Shape
<1>1. /\ flushStateBatch /\ pending' = [pending EXCEPT ![t].flushed = TRUE]
      /\ UNCHANGED <<m_state, m_stateRecording, blocks, tainted>>
      /\ ~Idle(t) /\ ~pending[t].flushed
  BY DEF FlushBefore
<1>2. Op(t) # "none"
  BY <1>0, <1>1 DEF PendingShape
<1>3. /\ PendingShape' /\ pending'[t].flushed = TRUE
      /\ \A u \in Threads : pending'[u].msg = pending[u].msg /\ Op(u)' = Op(u) /\ Of(u)' = Of(u)
      /\ \A u \in Threads \ {t} : pending'[u] = pending[u]
  BY <1>0, <1>1, <1>2, PendingFlushed
<1>5. Recording' <=> Recording
  BY <1>1 DEF Recording
<1>6. Shape'
  <2>1. ClientShape'
    BY <1>0, <1>1, <1>5 DEF ClientShape
  <2>2. BatchShape' /\ ServerShape(server')
    BY <1>0, <1>1, FlushShape, Emptied DEF flushStateBatch, Shape
  <2> QED BY <1>3, <2>1, <2>2 DEF Shape
<1>7. BlockUse' /\ \A b : Held(b)' <=> Held(b)
  BY <1>0, <1>1, <1>3, SameBlocks
<1>e. ASSUME Synced
      PROVE  /\ server'.isRecording = server.isRecording /\ ~server'.down /\ server'.blocks = server.blocks
             /\ InBatch' = {} /\ batch' = <<>>
             /\ \A s \in Slots : Stored'[s] = Stored[s] /\ Agree(server'.recorded, server.recorded, s)
  <2>1. ~server.down /\ (server.isRecording => batch = <<>>)
    BY <1>e DEF Synced
  <2> QED BY <1>0, <1>1, <2>1, FlushStep
<1>8. InStep'
  <2> SUFFICES ASSUME tainted' # Slots PROVE Synced'
    BY DEF InStep
  <2>1. Synced
    BY <1>1 DEF IInv, InStep
  <2> QED BY <1>1, <1>3, <1>5, <1>7, <1>e, <2>1 DEF Synced
<1>9. ASSUME NEW s \in Slots \ tainted' PROVE SlotInv(s)'
  <2>0. SlotInv(s) /\ s \in Slots /\ Synced
    BY <1>1 DEF IInv, InStep
  <2>1. \A u \in Threads : Touches(u, s)' <=> Touches(u, s)
    <3> TAKE u \in Threads
    <3>1. Op(u) \in {"capture", "apply"} => Of(u) \in DOMAIN blocks
      BY <1>0, HeldIs DEF BlockUse
    <3> QED BY <1>0, <1>1, <1>3, <1>7, <1>e, <2>0, <3>1, SameTouch
  <2>2. /\ server'.isRecording = server.isRecording /\ server'.blocks = server.blocks
        /\ InBatch' = {} /\ Stored'[s] = Stored[s] /\ Agree(server'.recorded, server.recorded, s)
    BY <1>e, <2>0
  <2>3. ASSUME NEW u \in Threads PROVE CallInv(u, s)'
    BY <1>1, <1>3, <1>5, <2>0, <2>1, <2>2 DEF SlotInv, CallInv
  <2>4. DeviceInv(s)'
    BY <1>1, <1>3, <1>5, <2>0, <2>1, <2>2 DEF SlotInv, DeviceInv, Owed
  <2>5. RecordInv(s)'
    BY <1>1, <2>0, <2>1, <2>2 DEF SlotInv, RecordInv, Agree
  <2>6. BlockInv(s)'
    <3>1. ASSUME NEW b \in DOMAIN blocks', Held(b)'
          PROVE  /\ b \in DOMAIN blocks /\ Held(b)
                 /\ Agree(blocks'[b], blocks[b], s) /\ Agree(server'.blocks[b], server.blocks[b], s)
      BY <1>1, <1>7, <2>2, <3>1 DEF Agree
    <3>2. \A u \in Threads : Op(u) = "capture" => Op(u)' = "capture" /\ Of(u)' = Of(u)
      BY <1>3
    <3> QED BY <2>0, <3>1, <3>2, BlockFrame DEF SlotInv
  <2> QED BY <2>0, <2>1, <2>3, <2>4, <2>5, <2>6 DEF SlotInv, Alone
<1> QED BY <1>6, <1>7, <1>8, <1>9 DEF IInv

(* What every message has in common on its way.                             *)
LEMMA SendIs ==
  ASSUME Shape, NEW t \in Threads, Send(t)
  PROVE  /\ Op(t) \in Ops \ {"none"} /\ pending[t].flushed /\ server' = Deliver(server, pending[t].msg)
         /\ UNCHANGED <<m_state, m_stateRecording, batch, blocks, tainted>> /\ UNCHANGED InBatch
         /\ Done(t) /\ Shape' /\ (Recording' <=> Recording)
<1>0. PendingShape /\ ClientShape /\ BatchShape /\ ServerShape(server)
  BY DEF Shape
<1>1. /\ pending[t].flushed /\ server' = Deliver(server, pending[t].msg) /\ Done(t)
      /\ UNCHANGED <<m_state, m_stateRecording, batch, blocks, tainted>>
  BY DEF Send
<1>2. Op(t) \in Ops \ {"none"} /\ (Op(t) = "set" => pending[t].msg.slot \in Slots)
  BY <1>0, <1>1, IdleIs DEF PendingShape, MessageShape, Op
<1>3. ServerShape(server')
  BY <1>0, <1>1, <1>2, DeliverShape DEF Op
<1>4. PendingShape'
  BY <1>0, <1>1, DoneIs
<1>5. ClientShape' /\ BatchShape' /\ (Recording' <=> Recording) /\ UNCHANGED InBatch
  BY <1>0, <1>1 DEF ClientShape, Recording, BatchShape, InBatch
<1> QED BY <1>1, <1>2, <1>3, <1>4, <1>5 DEF Shape

(* A setter's.                                                              *)
LEMMA SendSetKeeps ==
  ASSUME IInv, NEW t \in Threads, Send(t), Op(t) = "set"
  PROVE  IInv'
<1>0. Shape /\ PendingShape /\ ServerShape(server) /\ ServerShape(server') /\ BatchShape'
  BY SendIs DEF IInv, Shape
<1>1. PICK x \in Slots, v \in Values : pending[t].msg.slot = x /\ pending[t].msg.value = v
  BY <1>0 DEF PendingShape, MessageShape, Op
<1>2. /\ UNCHANGED <<m_state, m_stateRecording, batch, blocks, tainted>> /\ InBatch' = InBatch /\ Done(t)
      /\ pending[t].flushed /\ server' = Deliver(server, pending[t].msg)
  BY <1>0, SendIs
<1>3. server' = Deliver(server, Setting(x, v))
  <2>1. Setting(x, v).op = "set" /\ Setting(x, v).slot = x /\ Setting(x, v).value = v
    BY DEF Setting
  <2> QED BY <1>1, <1>2, <2>1 DEF Deliver, Op
<1>4. ASSUME Synced
      PROVE  /\ server'.isRecording = server.isRecording /\ ~server'.down /\ server'.blocks = server.blocks
             /\ InBatch' \subseteq InBatch \cup {x} /\ (Recording /\ batch = <<>> => batch' = <<>>)
             /\ \A s \in Slots : s # x => Stored'[s] = Stored[s] /\ Agree(server'.recorded, server.recorded, s)
             /\ x \notin tainted =>
                  /\ server.isRecording => /\ x \in DOMAIN server'.recorded /\ server'.recorded[x] = v
                                           /\ Stored'[x] = Stored[x]
                  /\ ~server.isRecording => Stored'[x] = v
  <2>0. PICK srv : srv = server
    OBVIOUS
  <2> DEFINE d == Deliver(srv, Setting(x, v))
  <2>1. ~server.down /\ (server.isRecording => batch = <<>>)
    BY <1>4 DEF Synced
  <2>a. ServerShape(srv) /\ ~srv.down
    BY <1>0, <2>0, <2>1
  <2>b. /\ ServerShape(d) /\ d.isRecording = srv.isRecording /\ ~d.down /\ d.blocks = srv.blocks
        /\ \A s : s # x => Agree(d.recorded, srv.recorded, s)
        /\ \A s \in Slots : s # x => d.device[s] = srv.device[s]
        /\ srv.isRecording => /\ x \in DOMAIN d.recorded /\ d.recorded[x] = v
                              /\ d.device[x] = srv.device[x]
        /\ ~srv.isRecording => d.device[x] = v /\ Agree(d.recorded, srv.recorded, x)
    BY <2>a, SetEffect
  <2> HIDE DEF d
  <2>2. /\ d.isRecording = server.isRecording /\ ~d.down /\ d.blocks = server.blocks
        /\ \A s : s # x => Agree(d.recorded, server.recorded, s)
        /\ \A s \in Slots : s # x => d.device[s] = server.device[s]
        /\ server.isRecording => x \in DOMAIN d.recorded /\ d.recorded[x] = v /\ d.device[x] = server.device[x]
        /\ ~server.isRecording => d.device[x] = v
    BY <2>0, <2>b
  <2>3. server' = d /\ batch' = batch /\ InBatch' = InBatch
    BY <1>2, <1>3, <2>0 DEF d
  <2>4. \A s \in Slots : s # x => Stored'[s] = Stored[s]
    BY <1>0, <2>2, <2>3, StoredIs, StoredIsNext
  <2>5. ASSUME x \notin tainted PROVE x \notin InBatch
    <3>1. SlotInv(x) /\ Touches(t, x)
      BY <1>0, <1>1, <2>5, TouchesIs DEF IInv
    <3> QED BY <1>2, <3>1 DEF SlotInv, CallInv
  <2>6. x \notin InBatch => Stored'[x] = server'.device[x] /\ Stored[x] = server.device[x]
    BY <1>0, <2>3, StoredIs, StoredIsNext
  <2> QED BY <2>2, <2>3, <2>4, <2>5, <2>6
<1> QED BY <1>0, <1>1, <1>2, <1>4, SetArrives

(* The slots of a message other than a setter's or destroy's are free when  *)
(* it has arrived, and so are those of any other thread's.                  *)
LEMMA SendFrees ==
  ASSUME IInv, NEW t \in Threads, Send(t),
         DOMAIN blocks' = DOMAIN blocks,
         \A u \in Threads \ {t} : Op(u) \in {"capture", "apply"} =>
           /\ Of(u) \in DOMAIN server'.blocks <=> Of(u) \in DOMAIN server.blocks
           /\ Of(u) \in DOMAIN server.blocks => DOMAIN server'.blocks[Of(u)] = DOMAIN server.blocks[Of(u)],
         BlockUse'
  PROVE  /\ \A u \in Threads \ {t} : \A s : Touches(u, s)' <=> Touches(u, s)
         /\ \A s \in Slots \ tainted : Touches(t, s) => \A u \in Threads : ~Touches(u, s)'
         /\ \A s : ~Touches(t, s)'
<1>0. PendingShape /\ PendingShape' /\ BlockUse /\ Done(t) /\ blocks' = blocks
  BY SendIs DEF IInv, Shape
<1>1. /\ \A s : ~Touches(t, s)'
      /\ \A u \in Threads \ {t} : pending'[u] = pending[u]
  BY <1>0, DoneIs
<1>2. \A u \in Threads \ {t} : \A s : Touches(u, s)' <=> Touches(u, s)
  <2> TAKE u \in Threads \ {t}
  <2>1. Op(u) \in {"capture", "apply"} => Of(u) \in DOMAIN blocks
    BY <1>0, HeldIs DEF BlockUse
  <2> QED BY <1>0, <1>1, <2>1, SameTouch
<1>3. \A s \in Slots \ tainted : Touches(t, s) => \A u \in Threads \ {t} : ~Touches(u, s)
  BY DEF IInv, SlotInv, Alone
<1> QED BY <1>1, <1>2, <1>3

(* BeginStateBlock's: the server records from now on.                       *)
LEMMA SendBeginKeeps ==
  ASSUME IInv, NEW t \in Threads, Send(t), Op(t) = "begin"
  PROVE  IInv'
<1>0. Shape /\ PendingShape /\ ServerShape(server) /\ ClientShape /\ BlockUse /\ Shape' /\ ServerShape(server')
  BY SendIs DEF IInv, Shape
<1>1. /\ UNCHANGED <<m_state, m_stateRecording, batch, blocks, tainted>> /\ InBatch' = InBatch /\ Done(t)
      /\ pending[t].flushed /\ server' = Deliver(server, pending[t].msg) /\ (Recording' <=> Recording)
  BY <1>0, SendIs
<1>2. /\ PendingShape' /\ Op(t)' = "none"
      /\ \A u \in Threads \ {t} : pending'[u] = pending[u] /\ Op(u)' = Op(u) /\ Of(u)' = Of(u)
  BY <1>0, <1>1, DoneIs
<1>3. BlockUse' /\ \A b : Held(b)' <=> Held(b)
  BY <1>0, <1>1, <1>2, SameBlocks
<1>4. ASSUME Synced
      PROVE  /\ server'.isRecording /\ ~server'.down /\ server'.blocks = server.blocks
             /\ server'.recorded = Nothing /\ server'.device = server.device
             /\ Recording /\ batch = <<>>
  <2>1. ~server.down /\ ~server.isRecording /\ Recording /\ batch = <<>>
    BY <1>1, <1>4 DEF Synced
  <2>2. server' = [server EXCEPT !.isRecording = TRUE, !.recorded = Nothing]
    BY <1>1, <2>1 DEF Deliver, BeginStateBlock_server, Op
  <2> QED BY <1>0, <2>1, <2>2 DEF ServerShape, Fields
<1>5. ASSUME NEW s \in Slots \ tainted
      PROVE  Synced /\ SlotInv(s) /\ Touches(t, s)
  <2>1. tainted # Slots
    OBVIOUS
  <2>2. Touches(t, s)
    BY <1>0, TouchesIs
  <2> QED BY <2>1, <2>2 DEF IInv, InStep
<1>6. ASSUME tainted # Slots
      PROVE  \A u \in Threads \ {t} : Op(u) # "begin"
  <2>1. PICK s \in Slots : s \notin tainted
    BY <1>0, <1>6 DEF ClientShape
  <2>2. Alone(s) /\ Touches(t, s)
    BY <1>5, <2>1 DEF SlotInv
  <2> QED BY <1>0, <2>1, <2>2, TouchesIs DEF Alone
<1>7. InStep'
  <2> SUFFICES ASSUME tainted' # Slots PROVE Synced'
    BY DEF InStep
  <2>1. Synced /\ \A u \in Threads \ {t} : Op(u) # "begin"
    BY <1>1, <1>6 DEF IInv, InStep
  <2> QED BY <1>1, <1>2, <1>3, <1>4, <2>1 DEF Synced
<1>8. ASSUME NEW s \in Slots \ tainted' PROVE SlotInv(s)'
  <2>0. SlotInv(s) /\ s \in Slots /\ Synced /\ Touches(t, s)
    BY <1>1, <1>5
  <2>1. /\ server'.isRecording /\ server'.blocks = server.blocks
        /\ server'.recorded = Nothing /\ server'.device = server.device
    BY <1>4, <2>0
  <2>2. \A u \in Threads : ~Touches(u, s)'
    <3>1. \A u \in Threads \ {t} : Op(u) \in {"capture", "apply"} =>
            /\ Of(u) \in DOMAIN server'.blocks <=> Of(u) \in DOMAIN server.blocks
            /\ Of(u) \in DOMAIN server.blocks => DOMAIN server'.blocks[Of(u)] = DOMAIN server.blocks[Of(u)]
      BY <2>1
    <3> QED BY <1>1, <1>3, <2>0, <3>1, SendFrees
  <2>3. s \notin InBatch /\ s \notin DOMAIN blocks[m_stateRecording] /\ ~Owed(s)
    <3>1. CallInv(t, s) /\ Alone(s)
      BY <2>0 DEF SlotInv
    <3>2. s \notin InBatch /\ s \notin DOMAIN blocks[m_stateRecording]
      BY <1>1, <2>0, <3>1 DEF CallInv
    <3>3. ~Owed(s)
      BY <2>0, <3>1 DEF Owed, Alone
    <3> QED BY <3>2, <3>3
  <2>4. Stored'[s] = m_state[s]
    <3>1. Stored[s] = m_state[s]
      BY <2>0, <2>3 DEF SlotInv, DeviceInv
    <3> QED BY <1>0, <1>1, <2>1, <2>3, <3>1, StoredIs, StoredIsNext
  <2>5. \A u \in Threads : CallInv(u, s)'
    BY <2>2 DEF CallInv
  <2>6. DeviceInv(s)'
    BY <1>1, <2>4 DEF DeviceInv
  <2>7. RecordInv(s)'
    BY <1>1, <2>1, <2>3 DEF RecordInv, Agree, Nothing
  <2>8. BlockInv(s)'
    <3>1. ASSUME NEW b \in DOMAIN blocks', Held(b)'
          PROVE  /\ b \in DOMAIN blocks /\ Held(b)
                 /\ Agree(blocks'[b], blocks[b], s) /\ Agree(server'.blocks[b], server.blocks[b], s)
      BY <1>1, <1>3, <2>1, <3>1 DEF Agree
    <3>2. \A u \in Threads : Op(u) = "capture" => Op(u)' = "capture" /\ Of(u)' = Of(u)
      BY <1>2
    <3> QED BY <2>0, <3>1, <3>2, BlockFrame DEF SlotInv
  <2> QED BY <2>2, <2>5, <2>6, <2>7, <2>8, Solo
<1> QED BY <1>0, <1>3, <1>7, <1>8 DEF IInv

(* CreateStateBlock's: the game holds the block from now on.                *)
LEMMA SendCreateKeeps ==
  ASSUME IInv, NEW t \in Threads, Send(t), Op(t) = "create"
  PROVE  IInv'
<1>0. Shape /\ PendingShape /\ ServerShape(server) /\ ClientShape /\ BlockUse /\ Shape' /\ ServerShape(server')
  BY SendIs DEF IInv, Shape
<1>1. /\ UNCHANGED <<m_state, m_stateRecording, batch, blocks, tainted>> /\ InBatch' = InBatch /\ Done(t)
      /\ pending[t].flushed /\ server' = Deliver(server, pending[t].msg) /\ (Recording' <=> Recording)
  BY <1>0, SendIs
<1>2. /\ PendingShape' /\ Op(t)' = "none"
      /\ \A u \in Threads \ {t} : pending'[u] = pending[u] /\ Op(u)' = Op(u) /\ Of(u)' = Of(u)
  BY <1>0, <1>1, DoneIs
<1>n. PICK n : n = Of(t)
  OBVIOUS
<1>3. n \in DOMAIN blocks /\ n # m_stateRecording /\ DOMAIN blocks[n] = StateBlockSetCaptureFlags
  BY <1>0, <1>n DEF BlockUse
<1>4. \A b : (Held(b) => b # n /\ Held(b)') /\ (Held(b)' /\ b # n => Held(b))
  <2> TAKE b
  <2>1. Held(b) => b # n /\ Held(b)'
    BY <1>0, <1>1, <1>2, <1>n, HeldIs, HeldIsNext
  <2>2. Held(b)' /\ b # n => Held(b)
    BY <1>0, <1>1, <1>2, <1>n, HeldIs, HeldIsNext
  <2> QED BY <2>1, <2>2
<1>5. BlockUse'
  <2> SUFFICES ASSUME NEW u \in Threads
               PROVE  /\ Op(u)' = "create" => /\ Of(u)' \in DOMAIN blocks' /\ Of(u)' # m_stateRecording'
                                              /\ DOMAIN blocks'[Of(u)'] = StateBlockSetCaptureFlags
                      /\ Op(u)' \in {"capture", "apply"} => Held(Of(u))'
                      /\ Op(u)' = "destroy" => Of(u)' \notin DOMAIN blocks'
    BY DEF BlockUse
  <2>1. CASE u = t
    BY <1>2, <2>1
  <2>2. CASE u # t
    BY <1>0, <1>1, <1>2, <1>4, <2>2 DEF BlockUse
  <2> QED BY <2>1, <2>2
<1>6. ASSUME Synced
      PROVE  /\ ~server'.isRecording /\ ~server'.down /\ server'.device = server.device
             /\ DOMAIN server'.blocks = DOMAIN server.blocks \cup {n} /\ server'.blocks[n] = server.device
             /\ \A b : b # n /\ b \in DOMAIN server.blocks => server'.blocks[b] = server.blocks[b]
             /\ ~Recording
  <2>1. ~server.down /\ ~server.isRecording /\ ~Recording
    BY <1>1, <1>6 DEF Synced
  <2> DEFINE B == Over(Entry(n, server.device), server.blocks)
  <2>2. server' = [server EXCEPT !.blocks = B]
    BY <1>1, <1>n, <2>1 DEF Deliver, CreateStateBlock_server, Op, Of
  <2>3. /\ DOMAIN B = DOMAIN server.blocks \cup {n} /\ B[n] = server.device
        /\ \A b : b # n /\ b \in DOMAIN server.blocks => B[b] = server.blocks[b]
    BY DEF Over, Entry
  <2> HIDE DEF B
  <2>4. /\ server'.isRecording = server.isRecording /\ server'.down = server.down
        /\ server'.device = server.device /\ server'.blocks = B
    BY <1>0, <2>2 DEF ServerShape, Fields
  <2> QED BY <2>1, <2>3, <2>4
<1>7. InStep'
  <2> SUFFICES ASSUME tainted' # Slots PROVE Synced'
    BY DEF InStep
  <2>1. Synced
    BY <1>1 DEF IInv, InStep
  <2>2. ASSUME NEW b \in DOMAIN blocks', Held(b)' PROVE b \in DOMAIN server'.blocks
    BY <1>1, <1>4, <1>6, <2>1, <2>2 DEF Synced
  <2> QED BY <1>1, <1>2, <1>6, <2>1, <2>2 DEF Synced
<1>8. ASSUME NEW s \in Slots \ tainted' PROVE SlotInv(s)'
  <2>0. SlotInv(s) /\ s \in Slots /\ Synced
    BY <1>1 DEF IInv, InStep
  <2>1. Touches(t, s) /\ s \notin tainted
    BY <1>0, <1>1, TouchesIs
  <2>2. \A u \in Threads : ~Touches(u, s)'
    <3>1. \A u \in Threads \ {t} : Op(u) \in {"capture", "apply"} =>
            /\ Of(u) \in DOMAIN server'.blocks <=> Of(u) \in DOMAIN server.blocks
            /\ Of(u) \in DOMAIN server.blocks => DOMAIN server'.blocks[Of(u)] = DOMAIN server.blocks[Of(u)]
      BY <1>0, <1>4, <1>6, <2>0 DEF BlockUse
    <3> QED BY <1>1, <1>5, <2>0, <2>1, <3>1, SendFrees
  <2>3. s \notin InBatch /\ (s \in DOMAIN blocks[n] => blocks[n][s] = m_state[s]) /\ ~Owed(s)
    <3>1. CallInv(t, s) /\ Alone(s)
      BY <2>0 DEF SlotInv
    <3>2. s \notin InBatch /\ (s \in DOMAIN blocks[n] => blocks[n][s] = m_state[s])
      BY <1>1, <1>n, <2>1, <3>1 DEF CallInv
    <3>3. ~Owed(s)
      BY <2>1, <3>1 DEF Owed, Alone
    <3> QED BY <3>2, <3>3
  <2>4. Stored'[s] = m_state[s] /\ server.device[s] = m_state[s]
    <3>1. Stored[s] = m_state[s]
      BY <2>0, <2>3 DEF SlotInv, DeviceInv
    <3> QED BY <1>0, <1>1, <1>6, <2>0, <2>3, <3>1, StoredIs, StoredIsNext
  <2>5. \A u \in Threads : CallInv(u, s)'
    BY <2>2 DEF CallInv
  <2>6. DeviceInv(s)'
    BY <1>1, <2>4 DEF DeviceInv
  <2>7. RecordInv(s)'
    BY <1>6, <2>0 DEF RecordInv
  <2>8. BlockInv(s)'
    <3> SUFFICES ASSUME NEW b \in DOMAIN blocks', Held(b)'
                 PROVE  /\ s \in DOMAIN blocks'[b] =>
                             /\ s \in DOMAIN server'.blocks[b]
                             /\ \/ \E u \in Threads : Op(u)' = "capture" /\ Of(u)' = b
                                \/ server'.blocks[b][s] = blocks'[b][s]
                        /\ s \in StateBlockSetCaptureFlags \ DOMAIN blocks'[b] => s \notin DOMAIN server'.blocks[b]
      BY DEF BlockInv
    <3>1. CASE b = n
      <4>1. server'.blocks[b] = server.device /\ DOMAIN server.device = Slots
        BY <1>0, <1>6, <2>0, <3>1 DEF ServerShape
      <4>2. DOMAIN blocks'[b] = StateBlockSetCaptureFlags /\ blocks'[b] = blocks[n]
        BY <1>1, <1>3, <3>1
      <4> QED BY <2>0, <2>3, <2>4, <4>1, <4>2
    <3>2. CASE b # n
      <4>1. /\ b \in DOMAIN blocks /\ Held(b) /\ b \in DOMAIN server.blocks
            /\ server'.blocks[b] = server.blocks[b] /\ blocks'[b] = blocks[b]
        BY <1>1, <1>4, <1>6, <2>0, <3>2 DEF Synced
      <4>2. \A u \in Threads : Op(u) = "capture" => Op(u)' = "capture" /\ Of(u)' = Of(u)
        BY <1>2
      <4>3. /\ s \in DOMAIN blocks[b] =>
                 /\ s \in DOMAIN server.blocks[b]
                 /\ (\E u \in Threads : Op(u) = "capture" /\ Of(u) = b) \/ server.blocks[b][s] = blocks[b][s]
            /\ s \in StateBlockSetCaptureFlags \ DOMAIN blocks[b] => s \notin DOMAIN server.blocks[b]
        BY <2>0, <4>1 DEF SlotInv, BlockInv
      <4> QED BY <4>1, <4>2, <4>3
    <3> QED BY <3>1, <3>2
  <2> QED BY <2>2, <2>5, <2>6, <2>7, <2>8, Solo
<1> QED BY <1>0, <1>5, <1>7, <1>8 DEF IInv

(* Capture's: the server's block has what the client's has had since the    *)
(* call.                                                                    *)
LEMMA SendCaptureKeeps ==
  ASSUME IInv, NEW t \in Threads, Send(t), Op(t) = "capture"
  PROVE  IInv'
<1>0. Shape /\ PendingShape /\ ServerShape(server) /\ ClientShape /\ BlockUse /\ Shape' /\ ServerShape(server')
  BY SendIs DEF IInv, Shape
<1>1. /\ UNCHANGED <<m_state, m_stateRecording, batch, blocks, tainted>> /\ InBatch' = InBatch /\ Done(t)
      /\ pending[t].flushed /\ server' = Deliver(server, pending[t].msg) /\ (Recording' <=> Recording)
  BY <1>0, SendIs
<1>2. /\ PendingShape' /\ Op(t)' = "none" /\ \A s : ~Touches(t, s)'
      /\ \A u \in Threads \ {t} : pending'[u] = pending[u] /\ Op(u)' = Op(u) /\ Of(u)' = Of(u)
  BY <1>0, <1>1, DoneIs
<1>3. BlockUse' /\ \A b : Held(b)' <=> Held(b)
  BY <1>0, <1>1, <1>2, SameBlocks
<1>n. PICK n : n = Of(t)
  OBVIOUS
<1>4. Held(n) /\ n \in DOMAIN blocks /\ n # m_stateRecording
  BY <1>0, <1>n, HeldIs DEF BlockUse
<1>5. ASSUME Synced
      PROVE  /\ server'.isRecording = server.isRecording /\ ~server'.down /\ server'.device = server.device
             /\ server'.recorded = server.recorded
             /\ n \in DOMAIN server.blocks /\ DOMAIN server'.blocks = DOMAIN server.blocks
             /\ \A b : b # n /\ b \in DOMAIN server.blocks => server'.blocks[b] = server.blocks[b]
             /\ DOMAIN server'.blocks[n] = DOMAIN server.blocks[n]
             /\ ~server.isRecording => \A s \in DOMAIN server.blocks[n] : server'.blocks[n][s] = server.device[s]
             /\ server.isRecording => server'.blocks[n] = server.blocks[n]
  <2>1. ~server.down /\ n \in DOMAIN server.blocks
    BY <1>4, <1>5 DEF Synced
  <2>2. server' = Capture_server(server, n)
    BY <1>1, <1>n, <2>1 DEF Deliver, Op, Of
  <2>3. CASE server.isRecording
    <3>1. server' = server
      BY <2>1, <2>2, <2>3 DEF Capture_server
    <3> QED BY <2>1, <2>3, <3>1
  <2>4. CASE ~server.isRecording
    <3> DEFINE B == [server.blocks EXCEPT ![n] = [s \in DOMAIN @ |-> server.device[s]]]
    <3>1. server' = [server EXCEPT !.blocks = B]
      BY <2>1, <2>2, <2>4 DEF Capture_server
    <3>2. /\ DOMAIN B = DOMAIN server.blocks /\ DOMAIN B[n] = DOMAIN server.blocks[n]
          /\ \A s \in DOMAIN server.blocks[n] : B[n][s] = server.device[s]
          /\ \A b : b # n /\ b \in DOMAIN server.blocks => B[b] = server.blocks[b]
      BY <2>1
    <3> HIDE DEF B
    <3>3. /\ server'.isRecording = server.isRecording /\ server'.down = server.down
          /\ server'.device = server.device /\ server'.recorded = server.recorded /\ server'.blocks = B
      BY <1>0, <3>1 DEF ServerShape, Fields
    <3> QED BY <2>1, <2>4, <3>2, <3>3
  <2> QED BY <2>3, <2>4
<1>6. InStep'
  <2> SUFFICES ASSUME tainted' # Slots PROVE Synced'
    BY DEF InStep
  <2>1. Synced
    BY <1>1 DEF IInv, InStep
  <2> QED BY <1>1, <1>2, <1>3, <1>5, <2>1 DEF Synced
<1>7. ASSUME Synced
      PROVE  \A u \in Threads \ {t} : Op(u) \in {"capture", "apply"} =>
               /\ Of(u) \in DOMAIN server'.blocks <=> Of(u) \in DOMAIN server.blocks
               /\ Of(u) \in DOMAIN server.blocks => DOMAIN server'.blocks[Of(u)] = DOMAIN server.blocks[Of(u)]
  <2>1. /\ DOMAIN server'.blocks = DOMAIN server.blocks /\ DOMAIN server'.blocks[n] = DOMAIN server.blocks[n]
        /\ \A b : b # n /\ b \in DOMAIN server.blocks => server'.blocks[b] = server.blocks[b]
    BY <1>5, <1>7
  <2>2. \A b \in DOMAIN server.blocks : DOMAIN server'.blocks[b] = DOMAIN server.blocks[b]
    <3> TAKE b \in DOMAIN server.blocks
    <3>1. CASE b = n
      BY <2>1, <3>1
    <3>2. CASE b # n
      <4>1. server'.blocks[b] = server.blocks[b]
        BY <2>1, <3>2
      <4> QED BY <4>1
    <3> QED BY <3>1, <3>2
  <2> QED BY <2>1, <2>2
<1>8. ASSUME NEW s \in Slots \ tainted' PROVE SlotInv(s)'
  <2>0. SlotInv(s) /\ s \in Slots /\ Synced /\ s \notin tainted
    BY <1>1 DEF IInv, InStep
  <2>1. \A u \in Threads \ {t} : Touches(u, s)' <=> Touches(u, s)
    BY <1>1, <1>3, <1>7, <2>0, SendFrees
  <2>2. Touches(t, s) <=> s \in DOMAIN blocks[n] \cup DOMAIN server.blocks[n]
    <3>1. n \in DOMAIN server.blocks
      BY <1>5, <2>0
    <3> QED BY <1>0, <1>4, <1>n, <3>1, TouchesIs DEF BlockSlots
  <2>3. Stored'[s] = Stored[s]
    BY <1>0, <1>1, <1>5, <2>0, StoredIs, StoredIsNext
  <2>4. CASE ~Touches(t, s)
    <3>1. BlockInv(s)'
      <4>1. ASSUME NEW b \in DOMAIN blocks', Held(b)'
            PROVE  /\ b \in DOMAIN blocks /\ Held(b)
                   /\ Agree(blocks'[b], blocks[b], s) /\ Agree(server'.blocks[b], server.blocks[b], s)
        <5>1. b \in DOMAIN blocks /\ Held(b) /\ b \in DOMAIN server.blocks /\ blocks'[b] = blocks[b]
          BY <1>1, <1>3, <2>0, <4>1 DEF Synced
        <5>2. CASE b = n
          BY <1>5, <2>0, <2>2, <2>4, <5>1, <5>2 DEF Agree
        <5>3. CASE b # n
          BY <1>5, <2>0, <5>1, <5>3 DEF Agree
        <5> QED BY <5>1, <5>2, <5>3
      <4>2. \A u \in Threads : Op(u) = "capture" => \/ Op(u)' = "capture" /\ Of(u)' = Of(u)
                                                    \/ s \notin DOMAIN blocks[Of(u)]
        BY <1>2, <1>n, <2>2, <2>4
      <4> QED BY <2>0, <4>1, <4>2, BlockFrame DEF SlotInv
    <3>2. server'.isRecording => /\ server.isRecording /\ Recording'
                                 /\ Agree(server'.recorded, server.recorded, s)
      BY <1>1, <1>5, <2>0 DEF Synced, Agree
    <3>3. \A f : Agree(f, f, s)
      BY DEF Agree
    <3> QED BY <1>1, <1>2, <2>0, <2>1, <2>3, <2>4, <3>1, <3>2, <3>3, Frame
  <2>5. CASE Touches(t, s)
    <3>1. \A u \in Threads : ~Touches(u, s)'
      BY <1>1, <1>3, <1>7, <2>0, <2>5, SendFrees
    <3>2. s \notin InBatch /\ (s \in DOMAIN blocks[n] => blocks[n][s] = m_state[s]) /\ ~Owed(s) /\ ~Recording
      <4>1. CallInv(t, s) /\ Alone(s)
        BY <2>0 DEF SlotInv
      <4>2. s \notin InBatch /\ (s \in DOMAIN blocks[n] => blocks[n][s] = m_state[s]) /\ ~Recording
        BY <1>1, <1>n, <2>5, <4>1 DEF CallInv
      <4>3. ~Owed(s)
        BY <2>5, <4>1 DEF Owed, Alone
      <4> QED BY <4>2, <4>3
    <3>3. Stored[s] = m_state[s] /\ server.device[s] = m_state[s]
      <4>1. Stored[s] = m_state[s]
        BY <2>0, <3>2 DEF SlotInv, DeviceInv
      <4> QED BY <1>0, <2>0, <3>2, <4>1, StoredIs
    <3>4. ~server.isRecording /\ ~server'.isRecording
      BY <1>5, <2>0, <3>2 DEF Synced
    <3>5. CallInv(t, s)'
      BY <3>1 DEF CallInv
    <3>6. DeviceInv(s)'
      BY <1>1, <2>3, <3>3 DEF DeviceInv
    <3>7. RecordInv(s)'
      BY <3>4 DEF RecordInv
    <3>8. BlockInv(s)'
      <4> SUFFICES ASSUME NEW b \in DOMAIN blocks', Held(b)'
                   PROVE  /\ s \in DOMAIN blocks'[b] =>
                               /\ s \in DOMAIN server'.blocks[b]
                               /\ \/ \E u \in Threads : Op(u)' = "capture" /\ Of(u)' = b
                                  \/ server'.blocks[b][s] = blocks'[b][s]
                          /\ s \in StateBlockSetCaptureFlags \ DOMAIN blocks'[b] => s \notin DOMAIN server'.blocks[b]
        BY DEF BlockInv
      <4>1. b \in DOMAIN blocks /\ Held(b) /\ b \in DOMAIN server.blocks /\ blocks'[b] = blocks[b]
        BY <1>1, <1>3, <2>0 DEF Synced
      <4>2. /\ s \in DOMAIN blocks[b] =>
                 /\ s \in DOMAIN server.blocks[b]
                 /\ (\E u \in Threads : Op(u) = "capture" /\ Of(u) = b) \/ server.blocks[b][s] = blocks[b][s]
            /\ s \in StateBlockSetCaptureFlags \ DOMAIN blocks[b] => s \notin DOMAIN server.blocks[b]
        BY <2>0, <4>1 DEF SlotInv, BlockInv
      <4>3. CASE b = n
        <5>1. /\ DOMAIN server'.blocks[n] = DOMAIN server.blocks[n]
              /\ \A x \in DOMAIN server.blocks[n] : server'.blocks[n][x] = server.device[x]
          BY <1>5, <2>0, <3>4
        <5> QED BY <3>2, <3>3, <4>1, <4>2, <4>3, <5>1
      <4>4. CASE b # n
        <5>1. server'.blocks[b] = server.blocks[b]
          BY <1>5, <2>0, <4>1, <4>4
        <5>2. \A u \in Threads : Op(u) = "capture" /\ Of(u) = b => Op(u)' = "capture" /\ Of(u)' = b
          BY <1>2, <1>n, <4>4
        <5> QED BY <4>1, <4>2, <5>1, <5>2
      <4> QED BY <4>3, <4>4
    <3> QED BY <3>1, <3>5, <3>6, <3>7, <3>8, Solo
  <2> QED BY <2>4, <2>5
<1> QED BY <1>0, <1>3, <1>6, <1>8 DEF IInv

(* Apply's: the server's device takes the values the shadow took from the   *)
(* client's block.                                                          *)
LEMMA SendApplyKeeps ==
  ASSUME IInv, NEW t \in Threads, Send(t), Op(t) = "apply"
  PROVE  IInv'
<1>0. Shape /\ PendingShape /\ ServerShape(server) /\ ClientShape /\ BlockUse /\ Shape' /\ ServerShape(server')
  BY SendIs DEF IInv, Shape
<1>1. /\ UNCHANGED <<m_state, m_stateRecording, batch, blocks, tainted>> /\ InBatch' = InBatch /\ Done(t)
      /\ pending[t].flushed /\ server' = Deliver(server, pending[t].msg) /\ (Recording' <=> Recording)
  BY <1>0, SendIs
<1>2. /\ PendingShape' /\ Op(t)' = "none" /\ \A s : ~Touches(t, s)'
      /\ \A u \in Threads \ {t} : pending'[u] = pending[u] /\ Op(u)' = Op(u) /\ Of(u)' = Of(u)
  BY <1>0, <1>1, DoneIs
<1>3. BlockUse' /\ \A b : Held(b)' <=> Held(b)
  BY <1>0, <1>1, <1>2, SameBlocks
<1>n. PICK n : n = Of(t)
  OBVIOUS
<1>4. Held(n) /\ n \in DOMAIN blocks /\ n # m_stateRecording
  BY <1>0, <1>n, HeldIs DEF BlockUse
<1>5. ASSUME Synced
      PROVE  /\ server'.isRecording = server.isRecording /\ ~server'.down /\ server'.blocks = server.blocks
             /\ server'.recorded = server.recorded /\ n \in DOMAIN server.blocks
             /\ \A s \in Slots \ DOMAIN server.blocks[n] : server'.device[s] = server.device[s]
             /\ ~server.isRecording => \A s \in DOMAIN server.blocks[n] : server'.device[s] = server.blocks[n][s]
  <2>1. ~server.down /\ n \in DOMAIN server.blocks
    BY <1>4, <1>5 DEF Synced
  <2>2. server' = Apply_server(server, n)
    BY <1>1, <1>n, <2>1 DEF Deliver, Op, Of
  <2>3. CASE server.isRecording
    <3>1. server' = server
      BY <2>1, <2>2, <2>3 DEF Apply_server
    <3> QED BY <2>1, <2>3, <3>1
  <2>4. CASE ~server.isRecording
    <3> DEFINE D == Over(server.blocks[n], server.device)
    <3>1. server' = [server EXCEPT !.device = D]
      BY <2>1, <2>2, <2>4 DEF Apply_server
    <3>2. /\ \A s \in DOMAIN server.blocks[n] : D[s] = server.blocks[n][s]
          /\ \A s \in Slots \ DOMAIN server.blocks[n] : D[s] = server.device[s]
      BY <1>0 DEF Over, ServerShape
    <3> HIDE DEF D
    <3>3. /\ server'.isRecording = server.isRecording /\ server'.down = server.down
          /\ server'.device = D /\ server'.recorded = server.recorded /\ server'.blocks = server.blocks
      BY <1>0, <3>1 DEF ServerShape, Fields
    <3> QED BY <2>1, <2>4, <3>2, <3>3
  <2> QED BY <2>3, <2>4
<1>6. InStep'
  <2> SUFFICES ASSUME tainted' # Slots PROVE Synced'
    BY DEF InStep
  <2>1. Synced
    BY <1>1 DEF IInv, InStep
  <2> QED BY <1>1, <1>2, <1>3, <1>5, <2>1 DEF Synced
<1>8. ASSUME NEW s \in Slots \ tainted' PROVE SlotInv(s)'
  <2>0. SlotInv(s) /\ s \in Slots /\ Synced /\ s \notin tainted
    BY <1>1 DEF IInv, InStep
  <2>1. /\ \A u \in Threads \ {t} : Touches(u, s)' <=> Touches(u, s)
        /\ Touches(t, s) => \A u \in Threads : ~Touches(u, s)'
    <3>1. server'.blocks = server.blocks
      BY <1>5, <2>0
    <3> QED BY <1>1, <1>3, <2>0, <3>1, SendFrees
  <2>2. Touches(t, s) <=> s \in DOMAIN blocks[n] \cup DOMAIN server.blocks[n]
    <3>1. n \in DOMAIN server.blocks
      BY <1>5, <2>0
    <3> QED BY <1>0, <1>4, <1>n, <3>1, TouchesIs DEF BlockSlots
  <2>4. CASE ~Touches(t, s)
    <3>1. Stored'[s] = Stored[s]
      BY <1>0, <1>1, <1>5, <2>0, <2>2, <2>4, StoredIs, StoredIsNext
    <3>2. \A b \in DOMAIN blocks : /\ Agree(blocks'[b], blocks[b], s)
                                   /\ b # m_stateRecording => DOMAIN blocks'[b] = DOMAIN blocks[b]
      BY <1>1 DEF Agree
    <3>3. /\ server'.isRecording = server.isRecording /\ server'.blocks = server.blocks
          /\ Agree(server'.recorded, server.recorded, s)
      BY <1>5, <2>0 DEF Agree
    <3> QED BY <1>0, <1>1, <1>2, <1>3, <2>0, <2>4, <3>1, <3>2, <3>3, OtherSlot
  <2>5. CASE Touches(t, s)
    <3>1. \A u \in Threads : ~Touches(u, s)'
      BY <2>1, <2>5
    <3>2. s \notin InBatch /\ s \in DOMAIN blocks[n] /\ blocks[n][s] = m_state[s] /\ ~Recording
      <4>1. CallInv(t, s)
        BY <2>0 DEF SlotInv
      <4> QED BY <1>1, <1>n, <2>5, <4>1 DEF CallInv
    <3>3. s \in DOMAIN server.blocks[n] /\ server.blocks[n][s] = m_state[s]
      <4>1. /\ s \in DOMAIN server.blocks[n]
            /\ (\E u \in Threads : Op(u) = "capture" /\ Of(u) = n) \/ server.blocks[n][s] = blocks[n][s]
        BY <1>4, <2>0, <3>2 DEF SlotInv, BlockInv
      <4>2. ASSUME NEW u \in Threads, Op(u) = "capture", Of(u) = n PROVE FALSE
        <5>1. Touches(u, s)
          BY <1>0, <1>4, <3>2, <4>2, TouchesIs DEF BlockSlots
        <5>2. u = t
          BY <2>0, <2>5, <5>1 DEF SlotInv, Alone
        <5> QED BY <4>2, <5>2
      <4> QED BY <3>2, <4>1, <4>2
    <3>4. ~server.isRecording /\ ~server'.isRecording
      BY <1>5, <2>0, <3>2 DEF Synced
    <3>5. Stored'[s] = m_state[s]
      BY <1>0, <1>1, <1>5, <2>0, <3>2, <3>3, <3>4, StoredIsNext
    <3>6. CallInv(t, s)'
      BY <3>1 DEF CallInv
    <3>7. DeviceInv(s)'
      BY <1>1, <3>5 DEF DeviceInv
    <3>8. RecordInv(s)'
      BY <3>4 DEF RecordInv
    <3>9. BlockInv(s)'
      <4>1. ASSUME NEW b \in DOMAIN blocks', Held(b)'
            PROVE  /\ b \in DOMAIN blocks /\ Held(b)
                   /\ Agree(blocks'[b], blocks[b], s) /\ Agree(server'.blocks[b], server.blocks[b], s)
        BY <1>1, <1>3, <1>5, <2>0, <4>1 DEF Agree
      <4>2. \A u \in Threads : Op(u) = "capture" => Op(u)' = "capture" /\ Of(u)' = Of(u)
        BY <1>2
      <4> QED BY <2>0, <4>1, <4>2, BlockFrame DEF SlotInv
    <3> QED BY <3>1, <3>6, <3>7, <3>8, <3>9, Solo
  <2> QED BY <2>4, <2>5
<1> QED BY <1>0, <1>3, <1>6, <1>8 DEF IInv

(* The last Release's: the server drops a block the client has dropped.     *)
LEMMA SendDestroyKeeps ==
  ASSUME IInv, NEW t \in Threads, Send(t), Op(t) = "destroy"
  PROVE  IInv'
<1>0. Shape /\ PendingShape /\ ServerShape(server) /\ ClientShape /\ BlockUse /\ Shape' /\ ServerShape(server')
  BY SendIs DEF IInv, Shape
<1>1. /\ UNCHANGED <<m_state, m_stateRecording, batch, blocks, tainted>> /\ InBatch' = InBatch /\ Done(t)
      /\ pending[t].flushed /\ server' = Deliver(server, pending[t].msg) /\ (Recording' <=> Recording)
  BY <1>0, SendIs
<1>2. /\ PendingShape' /\ Op(t)' = "none" /\ \A s : ~Touches(t, s)'
      /\ \A u \in Threads \ {t} : pending'[u] = pending[u] /\ Op(u)' = Op(u) /\ Of(u)' = Of(u)
  BY <1>0, <1>1, DoneIs
<1>3. BlockUse' /\ \A b : Held(b)' <=> Held(b)
  BY <1>0, <1>1, <1>2, SameBlocks
<1>n. PICK n : n = Of(t)
  OBVIOUS
<1>4. n \notin DOMAIN blocks /\ \A b : Held(b) => b # n
  BY <1>0, <1>n, HeldIs DEF BlockUse
<1>5. ASSUME Synced
      PROVE  /\ server'.isRecording = server.isRecording /\ ~server'.down /\ server'.device = server.device
             /\ server'.recorded = server.recorded /\ DOMAIN server'.blocks = DOMAIN server.blocks \ {n}
             /\ \A b \in DOMAIN server.blocks \ {n} : server'.blocks[b] = server.blocks[b]
  <2>1. ~server.down
    BY <1>5 DEF Synced
  <2> DEFINE B == [x \in DOMAIN server.blocks \ {n} |-> server.blocks[x]]
  <2>2. server' = [server EXCEPT !.blocks = B]
    BY <1>1, <1>n, <2>1 DEF Deliver, Destroy_server, Op, Of
  <2>3. DOMAIN B = DOMAIN server.blocks \ {n} /\ \A b \in DOMAIN server.blocks \ {n} : B[b] = server.blocks[b]
    OBVIOUS
  <2> HIDE DEF B
  <2>4. /\ server'.isRecording = server.isRecording /\ server'.down = server.down
        /\ server'.device = server.device /\ server'.recorded = server.recorded /\ server'.blocks = B
    BY <1>0, <2>2 DEF ServerShape, Fields
  <2> QED BY <2>1, <2>3, <2>4
<1>6. InStep'
  <2> SUFFICES ASSUME tainted' # Slots PROVE Synced'
    BY DEF InStep
  <2>1. Synced
    BY <1>1 DEF IInv, InStep
  <2>2. ASSUME NEW b \in DOMAIN blocks', Held(b)' PROVE b \in DOMAIN server'.blocks
    BY <1>1, <1>3, <1>4, <1>5, <2>1, <2>2 DEF Synced
  <2> QED BY <1>1, <1>2, <1>5, <2>1, <2>2 DEF Synced
<1>8. ASSUME NEW s \in Slots \ tainted' PROVE SlotInv(s)'
  <2>0. SlotInv(s) /\ s \in Slots /\ Synced /\ s \notin tainted /\ ~Touches(t, s)
    BY <1>0, <1>1, TouchesIs DEF IInv, InStep
  <2>1. \A u \in Threads \ {t} : Touches(u, s)' <=> Touches(u, s)
    <3>1. \A u \in Threads \ {t} : Op(u) \in {"capture", "apply"} =>
            /\ Of(u) \in DOMAIN server'.blocks <=> Of(u) \in DOMAIN server.blocks
            /\ Of(u) \in DOMAIN server.blocks => DOMAIN server'.blocks[Of(u)] = DOMAIN server.blocks[Of(u)]
      BY <1>0, <1>4, <1>5, <2>0 DEF BlockUse
    <3> QED BY <1>1, <1>3, <2>0, <3>1, SendFrees
  <2>2. Stored'[s] = Stored[s]
    BY <1>0, <1>1, <1>5, <2>0, StoredIs, StoredIsNext
  <2>3. BlockInv(s)'
    <3>1. ASSUME NEW b \in DOMAIN blocks', Held(b)'
          PROVE  /\ b \in DOMAIN blocks /\ Held(b)
                 /\ Agree(blocks'[b], blocks[b], s) /\ Agree(server'.blocks[b], server.blocks[b], s)
      <4>1. b \in DOMAIN blocks /\ Held(b) /\ b # n /\ b \in DOMAIN server.blocks /\ blocks'[b] = blocks[b]
        BY <1>1, <1>3, <1>4, <2>0, <3>1 DEF Synced
      <4>2. server'.blocks[b] = server.blocks[b]
        BY <1>5, <2>0, <4>1
      <4> QED BY <4>1, <4>2 DEF Agree
    <3>2. \A u \in Threads : Op(u) = "capture" => Op(u)' = "capture" /\ Of(u)' = Of(u)
      BY <1>2
    <3> QED BY <2>0, <3>1, <3>2, BlockFrame DEF SlotInv
  <2>4. server'.isRecording => /\ server.isRecording /\ Recording'
                               /\ Agree(server'.recorded, server.recorded, s)
    BY <1>1, <1>5, <2>0 DEF Synced, Agree
  <2>5. \A f : Agree(f, f, s)
    BY DEF Agree
  <2> QED BY <1>1, <1>2, <2>0, <2>1, <2>2, <2>3, <2>4, <2>5, Frame
<1> QED BY <1>0, <1>3, <1>6, <1>8 DEF IInv

(* The message of a Command.                                                *)
LEMMA SendKeeps ==
  ASSUME IInv, NEW t \in Threads, Send(t)
  PROVE  IInv'
<1>1. Op(t) \in Ops \ {"none"}
  BY SendIs DEF IInv
<1> QED BY <1>1, SendSetKeeps, SendBeginKeeps, SendCreateKeeps, SendCaptureKeeps, SendApplyKeeps,
           SendDestroyKeeps DEF Ops

--------------------------------------------------------------------------------
(* State blocks and the device's reset *)

(* A call on slots of which one has no gap afterwards finds no other call   *)
(* under way on it.                                                         *)
LEMMA NobodyElse ==
  ASSUME Shape, NEW t \in Threads, tainted \cup Raced(t, Slots) \subseteq tainted',
         tainted' # Slots, tainted' \subseteq Slots
  PROVE  \A u \in Threads \ {t} : Op(u) \notin {"begin", "create"}
<1>1. PICK s \in Slots : s \notin tainted'
  OBVIOUS
<1>2. s \notin Raced(t, Slots)
  BY <1>1
<1> QED BY <1>1, <1>2, NotRaced, TouchesIs DEF Shape

(* A new block gets a name no block and no message has.                     *)
LEMMA FreshIs ==
  ASSUME Shape, BlockUse, NEW b \in Blocks, Fresh(b)
  PROVE  /\ b \notin DOMAIN blocks /\ b # NoBlock /\ ~Held(b)
         /\ \A u \in Threads : Op(u) \in {"create", "capture", "apply", "destroy"} => Of(u) # b
<1>1. b \notin DOMAIN blocks /\ b # NoBlock
  BY BlocksAssumption DEF Fresh
<1>2. \A u \in Threads : Op(u) \in {"capture", "apply"} => Of(u) \in DOMAIN blocks
  BY HeldIs DEF Shape, BlockUse
<1>3. \A u \in Threads : Op(u) \in {"create", "destroy"} => Of(u) # b
  BY DEF Fresh, Op, Of
<1> QED BY <1>1, <1>2, <1>3 DEF Held

(* CreateStateBlock: the client captures at once.                           *)
LEMMA CreateKeeps ==
  ASSUME IInv, NEW t \in Threads, NEW n \in Blocks, CreateStateBlock(t, n)
  PROVE  IInv'
<1>0. Shape /\ ClientShape /\ PendingShape /\ BlockUse
  BY DEF IInv, Shape
<1> DEFINE f == [s \in StateBlockSetCaptureFlags |-> m_state[s]]
<1>1. /\ Idle(t) /\ Fresh(n) /\ ~Recording /\ blocks' = Over(Entry(n, f), blocks)
      /\ pending' = [pending EXCEPT ![t] = NotSent(About("create", n))]
      /\ UNCHANGED <<m_state, m_stateRecording, batch, server>>
      /\ tainted' = tainted \cup Raced(t, Slots)
  BY DEF CreateStateBlock, Later
<1>a. DOMAIN f = StateBlockSetCaptureFlags /\ \A s \in DOMAIN f : f[s] = m_state[s]
  OBVIOUS
<1>b. StateBlockSetCaptureFlags \subseteq Slots
  BY DEF StateBlockSetCaptureFlags
<1> HIDE DEF f
<1>2. Op(t) = "none" /\ \A s : ~Touches(t, s)
  BY <1>1, IdleIs
<1>3. /\ PendingShape' /\ Op(t)' = "create" /\ Of(t)' = n /\ pending'[t].flushed = FALSE
      /\ \A u \in Threads \ {t} : pending'[u] = pending[u] /\ Op(u)' = Op(u) /\ Of(u)' = Of(u)
  <2>1. MessageShape(About("create", n)) /\ About("create", n).op = "create" /\ About("create", n).block = n
    BY MessageShapes
  <2>2. /\ PendingShape' /\ Op(t)' = "create" /\ pending'[t].msg = About("create", n)
        /\ pending'[t].flushed = FALSE
        /\ \A u \in Threads \ {t} : pending'[u] = pending[u] /\ Op(u)' = Op(u) /\ Of(u)' = Of(u)
    BY <1>0, <1>1, <2>1, PendingSet
  <2> QED BY <2>1, <2>2 DEF Of
<1>4. /\ n \notin DOMAIN blocks /\ n # NoBlock /\ ~Held(n)
      /\ \A u \in Threads : Op(u) \in {"create", "capture", "apply", "destroy"} => Of(u) # n
  BY <1>0, <1>1, FreshIs
<1>5. /\ DOMAIN blocks' = DOMAIN blocks \cup {n} /\ blocks'[n] = f
      /\ \A b \in DOMAIN blocks : b # n /\ blocks'[b] = blocks[b]
  BY <1>1, <1>4 DEF Over, Entry
<1>6. tainted \subseteq tainted' /\ tainted' \subseteq Slots /\ (Recording' <=> Recording) /\ n # m_stateRecording
  BY <1>0, <1>1, <1>4 DEF ClientShape, Raced, Recording
<1>7. Shape'
  <2>1. ClientShape'
    BY <1>0, <1>1, <1>a, <1>b, <1>5, <1>6 DEF ClientShape
  <2>2. BatchShape' /\ ServerShape(server')
    BY <1>0, <1>1 DEF Shape, BatchShape, InBatch
  <2> QED BY <1>3, <2>1, <2>2 DEF Shape
<1>8. \A b : Held(b)' <=> Held(b)
  <2> TAKE b
  <2>1. CASE b = n
    BY <1>0, <1>3, <1>4, <2>1, HeldIsNext
  <2>2. CASE b # n
    BY <1>0, <1>1, <1>2, <1>3, <1>5, <2>2, HeldIs, HeldIsNext
  <2> QED BY <2>1, <2>2
<1>9. BlockUse'
  <2> SUFFICES ASSUME NEW u \in Threads
               PROVE  /\ Op(u)' = "create" => /\ Of(u)' \in DOMAIN blocks' /\ Of(u)' # m_stateRecording'
                                              /\ DOMAIN blocks'[Of(u)'] = StateBlockSetCaptureFlags
                      /\ Op(u)' \in {"capture", "apply"} => Held(Of(u))'
                      /\ Op(u)' = "destroy" => Of(u)' \notin DOMAIN blocks'
    BY DEF BlockUse
  <2>1. CASE u = t
    BY <1>1, <1>3, <1>5, <1>6, <1>a, <2>1
  <2>2. CASE u # t
    BY <1>0, <1>1, <1>3, <1>4, <1>5, <1>8, <2>2 DEF BlockUse
  <2> QED BY <2>1, <2>2
<1>10. InStep'
  <2> SUFFICES ASSUME tainted' # Slots PROVE Synced'
    BY DEF InStep
  <2>1. Synced
    BY <1>6, Together
  <2>2. \A b \in DOMAIN blocks' : Held(b)' => b \in DOMAIN server'.blocks
    BY <1>1, <1>4, <1>5, <1>8, <2>1 DEF Synced
  <2> QED BY <1>1, <1>3, <1>6, <2>1, <2>2 DEF Synced
<1>11. ASSUME NEW s \in Slots \ tainted' PROVE SlotInv(s)'
  <2>0. SlotInv(s) /\ s \in Slots /\ Synced /\ s \notin Raced(t, Slots)
    BY <1>1, <1>6, Together DEF IInv
  <2>1. \A u \in Threads \ {t} : ~Touches(u, s)
    BY <2>0, NotRaced
  <2>2. \A u \in Threads \ {t} : ~Touches(u, s)'
    <3> TAKE u \in Threads \ {t}
    <3>1. Op(u) \in {"capture", "apply"} => Of(u) \in DOMAIN blocks /\ Of(u) # n
      BY <1>0, <1>4, HeldIs DEF BlockUse
    <3> QED BY <1>0, <1>1, <1>3, <1>5, <1>9, <2>1, <3>1, SameTouch
  <2>3. Stored'[s] = m_state'[s]
    <3>1. Stored[s] = m_state[s]
      BY <1>2, <2>0, <2>1, Free
    <3> QED BY <1>1, <3>1 DEF Stored
  <2>4. CallInv(t, s)'
    BY <1>1, <1>3, <1>5, <1>6, <1>a DEF CallInv
  <2>5. DeviceInv(s)'
    BY <2>3 DEF DeviceInv
  <2>6. RecordInv(s)'
    BY <1>1, <2>0 DEF RecordInv, Synced
  <2>7. BlockInv(s)'
    <3>1. ASSUME NEW b \in DOMAIN blocks', Held(b)'
          PROVE  /\ b \in DOMAIN blocks /\ Held(b)
                 /\ Agree(blocks'[b], blocks[b], s) /\ Agree(server'.blocks[b], server.blocks[b], s)
      BY <1>1, <1>4, <1>5, <1>8, <3>1 DEF Agree
    <3>2. \A u \in Threads : Op(u) = "capture" => Op(u)' = "capture" /\ Of(u)' = Of(u)
      BY <1>2, <1>3
    <3> QED BY <2>0, <3>1, <3>2, BlockFrame DEF SlotInv
  <2> QED BY <2>2, <2>4, <2>5, <2>6, <2>7, Solo
<1> QED BY <1>7, <1>9, <1>10, <1>11 DEF IInv

(* BeginStateBlock: the client records at once.                             *)
LEMMA BeginKeeps ==
  ASSUME IInv, NEW t \in Threads, NEW n \in Blocks, BeginStateBlock(t, n)
  PROVE  IInv'
<1>0. Shape /\ ClientShape /\ PendingShape /\ BlockUse
  BY DEF IInv, Shape
<1>1. /\ Idle(t) /\ Fresh(n) /\ ~Recording /\ blocks' = Over(Entry(n, Nothing), blocks)
      /\ pending' = [pending EXCEPT ![t] = NotSent([op |-> "begin"])]
      /\ m_stateRecording' = n /\ UNCHANGED <<m_state, batch, server>>
      /\ tainted' = tainted \cup Raced(t, Slots)
  BY DEF BeginStateBlock, Later
<1>a. DOMAIN Nothing = {}
  BY DEF Nothing
<1>2. Op(t) = "none" /\ \A s : ~Touches(t, s)
  BY <1>1, IdleIs
<1>3. /\ PendingShape' /\ Op(t)' = "begin" /\ pending'[t].flushed = FALSE
      /\ \A u \in Threads \ {t} : pending'[u] = pending[u] /\ Op(u)' = Op(u) /\ Of(u)' = Of(u)
  <2>1. MessageShape([op |-> "begin"])
    BY MessageShapes
  <2> QED BY <1>0, <1>1, <2>1, PendingSet
<1>4. /\ n \notin DOMAIN blocks /\ n # NoBlock /\ ~Held(n)
      /\ \A u \in Threads : Op(u) \in {"create", "capture", "apply", "destroy"} => Of(u) # n
  BY <1>0, <1>1, FreshIs
<1>5. /\ DOMAIN blocks' = DOMAIN blocks \cup {n} /\ blocks'[n] = Nothing
      /\ \A b \in DOMAIN blocks : b # n /\ b # m_stateRecording /\ blocks'[b] = blocks[b]
  <2>1. \A b \in DOMAIN blocks : b # NoBlock /\ m_stateRecording = NoBlock
    BY <1>0, <1>1, BlocksAssumption DEF ClientShape, Recording
  <2> QED BY <1>1, <1>4, <2>1 DEF Over, Entry
<1>6. tainted \subseteq tainted' /\ tainted' \subseteq Slots /\ Recording'
  BY <1>0, <1>1, <1>4 DEF ClientShape, Raced, Recording
<1>7. Shape'
  <2>1. ClientShape'
    BY <1>0, <1>1, <1>a, <1>5, <1>6 DEF ClientShape
  <2>2. BatchShape' /\ ServerShape(server')
    BY <1>0, <1>1 DEF Shape, BatchShape, InBatch
  <2> QED BY <1>3, <2>1, <2>2 DEF Shape
<1>8. \A b : Held(b)' <=> Held(b)
  <2> TAKE b
  <2>1. CASE b = n
    BY <1>0, <1>1, <1>3, <1>4, <2>1, HeldIsNext
  <2>2. CASE b # n
    BY <1>0, <1>1, <1>2, <1>3, <1>5, <2>2, HeldIs, HeldIsNext
  <2> QED BY <2>1, <2>2
<1>9. BlockUse'
  <2> SUFFICES ASSUME NEW u \in Threads
               PROVE  /\ Op(u)' = "create" => /\ Of(u)' \in DOMAIN blocks' /\ Of(u)' # m_stateRecording'
                                              /\ DOMAIN blocks'[Of(u)'] = StateBlockSetCaptureFlags
                      /\ Op(u)' \in {"capture", "apply"} => Held(Of(u))'
                      /\ Op(u)' = "destroy" => Of(u)' \notin DOMAIN blocks'
    BY DEF BlockUse
  <2>1. CASE u = t
    BY <1>3, <2>1
  <2>2. CASE u # t
    BY <1>0, <1>1, <1>3, <1>4, <1>5, <1>8, <2>2 DEF BlockUse
  <2> QED BY <2>1, <2>2
<1>10. InStep'
  <2> SUFFICES ASSUME tainted' # Slots PROVE Synced'
    BY DEF InStep
  <2>1. Synced
    BY <1>6, Together
  <2>2. \A b \in DOMAIN blocks' : Held(b)' => b \in DOMAIN server'.blocks
    BY <1>1, <1>4, <1>5, <1>8, <2>1 DEF Synced
  <2>3. \A u \in Threads \ {t} : Op(u) \notin {"begin", "create"}
    BY <1>0, <1>1, <1>6, NobodyElse
  <2> QED BY <1>1, <1>3, <1>6, <2>1, <2>2, <2>3 DEF Synced
<1>11. ASSUME NEW s \in Slots \ tainted' PROVE SlotInv(s)'
  <2>0. SlotInv(s) /\ s \in Slots /\ Synced /\ s \notin Raced(t, Slots)
    BY <1>1, <1>6, Together DEF IInv
  <2>1. \A u \in Threads \ {t} : ~Touches(u, s)
    BY <2>0, NotRaced
  <2>2. \A u \in Threads \ {t} : ~Touches(u, s)'
    <3> TAKE u \in Threads \ {t}
    <3>1. Op(u) \in {"capture", "apply"} => Of(u) \in DOMAIN blocks /\ Of(u) # n
      BY <1>0, <1>4, HeldIs DEF BlockUse
    <3> QED BY <1>0, <1>1, <1>3, <1>5, <1>9, <2>1, <3>1, SameTouch
  <2>3. Stored'[s] = m_state'[s]
    <3>1. Stored[s] = m_state[s]
      BY <1>2, <2>0, <2>1, Free
    <3> QED BY <1>1, <3>1 DEF Stored
  <2>4. CallInv(t, s)'
    BY <1>1, <1>3, <1>5, <1>6, <1>a DEF CallInv
  <2>5. DeviceInv(s)'
    BY <2>3 DEF DeviceInv
  <2>6. RecordInv(s)'
    BY <1>1, <2>0 DEF RecordInv, Synced
  <2>7. BlockInv(s)'
    <3>1. ASSUME NEW b \in DOMAIN blocks', Held(b)'
          PROVE  /\ b \in DOMAIN blocks /\ Held(b)
                 /\ Agree(blocks'[b], blocks[b], s) /\ Agree(server'.blocks[b], server.blocks[b], s)
      BY <1>1, <1>4, <1>5, <1>8, <3>1 DEF Agree
    <3>2. \A u \in Threads : Op(u) = "capture" => Op(u)' = "capture" /\ Of(u)' = Of(u)
      BY <1>2, <1>3
    <3> QED BY <2>0, <3>1, <3>2, BlockFrame DEF SlotInv
  <2> QED BY <2>2, <2>4, <2>5, <2>6, <2>7, Solo
<1> QED BY <1>7, <1>9, <1>10, <1>11 DEF IInv

(* EndStateBlock: both sides keep what they have recorded.                  *)
LEMMA EndKeeps ==
  ASSUME IInv, NEW t \in Threads, EndStateBlock(t)
  PROVE  IInv'
<1>0. Shape /\ ClientShape /\ PendingShape /\ BlockUse /\ BatchShape /\ ServerShape(server)
  BY DEF IInv, Shape
<1>n. PICK n : n = m_stateRecording
  OBVIOUS
<1> DEFINE srv == StateBatch(server)
<1>1. /\ Idle(t) /\ Recording /\ server' = Deliver(srv, About("end", n)) /\ batch' = <<>>
      /\ m_stateRecording' = NoBlock /\ UNCHANGED <<m_state, blocks, pending>>
      /\ tainted' = tainted \cup Raced(t, Slots)
  BY <1>n DEF EndStateBlock, Command
<1>2. Op(t) = "none" /\ \A s : ~Touches(t, s)
  BY <1>1, IdleIs
<1>3. PendingShape' /\ \A u \in Threads : pending'[u] = pending[u] /\ Op(u)' = Op(u) /\ Of(u)' = Of(u)
  BY <1>0, <1>1 DEF PendingShape, Op, Of, Idle
<1>4. n \in DOMAIN blocks /\ n # NoBlock /\ \A b \in DOMAIN blocks : b # NoBlock
  BY <1>0, <1>1, <1>n, BlocksAssumption DEF ClientShape, Recording
<1>5. tainted \subseteq tainted' /\ tainted' \subseteq Slots /\ ~Recording' /\ InBatch' = {} /\ BatchShape'
  BY <1>0, <1>1, Emptied DEF ClientShape, Raced, Recording
<1>e. About("end", n).op = "end" /\ About("end", n).block = n
  BY DEF About
<1>6. Shape'
  <2>1. ClientShape'
    BY <1>0, <1>1, <1>5 DEF ClientShape
  <2>2. ServerShape(server')
    BY <1>0, <1>1, <1>e, FlushShape, DeliverShape
  <2> QED BY <1>3, <1>5, <2>1, <2>2 DEF Shape
<1>7. /\ \A b : Held(b) => Held(b)'
      /\ \A b : Held(b)' => b \in DOMAIN blocks /\ (b # n => Held(b))
  <2>1. \A b : Held(b) => Held(b)'
    BY <1>0, <1>1, <1>3, <1>4, HeldIs, HeldIsNext
  <2>2. \A b : Held(b)' => b \in DOMAIN blocks /\ (b # n => Held(b))
    BY <1>0, <1>1, <1>3, <1>n, HeldIs, HeldIsNext
  <2> QED BY <2>1, <2>2
<1>8. BlockUse'
  BY <1>0, <1>1, <1>3, <1>4, <1>7 DEF BlockUse
<1>9. ASSUME Synced, tainted' # Slots
      PROVE  /\ \A u \in Threads : Op(u) \notin {"begin", "create"}
             /\ server.isRecording
             /\ ~server'.isRecording /\ ~server'.down
             /\ \A s \in Slots : server'.device[s] = Stored[s]
             /\ DOMAIN server'.blocks = DOMAIN server.blocks \cup {n}
             /\ \A b \in DOMAIN server.blocks : b # n => server'.blocks[b] = server.blocks[b]
             /\ \A s : Agree(server'.blocks[n], server.recorded, s)
  <2>1. \A u \in Threads : Op(u) \notin {"begin", "create"}
    BY <1>0, <1>1, <1>2, <1>5, <1>9, NobodyElse
  <2>2. server.isRecording /\ batch = <<>> /\ ~server.down
    BY <1>1, <1>9, <2>1 DEF Synced
  <2>3. /\ ServerShape(srv) /\ srv.isRecording = server.isRecording /\ ~srv.down
        /\ srv.blocks = server.blocks
        /\ \A s : Agree(srv.recorded, server.recorded, s)
        /\ \A s \in Slots : srv.device[s] = Stored[s]
    BY <1>0, <2>2, FlushEffect
  <2> HIDE DEF srv
  <2> DEFINE B == Over(Entry(n, srv.recorded), srv.blocks)
  <2>4. server' = [srv EXCEPT !.isRecording = FALSE, !.recorded = Nothing, !.blocks = B]
    BY <1>1, <1>e, <2>2, <2>3 DEF Deliver, EndStateBlock_server
  <2>5. /\ DOMAIN B = DOMAIN srv.blocks \cup {n} /\ B[n] = srv.recorded
        /\ \A b \in DOMAIN srv.blocks : b # n => B[b] = srv.blocks[b]
    BY DEF Over, Entry
  <2> HIDE DEF B
  <2>6. ~server'.isRecording /\ server'.down = srv.down /\ server'.device = srv.device /\ server'.blocks = B
    BY <2>3, <2>4 DEF ServerShape, Fields
  <2> QED BY <2>1, <2>2, <2>3, <2>5, <2>6
<1>10. InStep'
  <2> SUFFICES ASSUME tainted' # Slots PROVE Synced'
    BY DEF InStep
  <2>1. Synced
    BY <1>5, Together
  <2>2. \A b \in DOMAIN blocks' : Held(b)' => b \in DOMAIN server'.blocks
    BY <1>1, <1>7, <1>9, <2>1 DEF Synced
  <2> QED BY <1>1, <1>3, <1>5, <1>9, <2>1, <2>2 DEF Synced
<1>11. ASSUME NEW s \in Slots \ tainted' PROVE SlotInv(s)'
  <2>0. SlotInv(s) /\ s \in Slots /\ Synced /\ s \notin Raced(t, Slots) /\ tainted' # Slots
    BY <1>1, <1>5, Together DEF IInv
  <2>1. \A u \in Threads : ~Touches(u, s)
    BY <1>2, <2>0, NotRaced
  <2>e. /\ server.isRecording /\ ~server'.isRecording
        /\ server'.device[s] = Stored[s]
        /\ DOMAIN server'.blocks = DOMAIN server.blocks \cup {n}
        /\ \A b \in DOMAIN server.blocks : b # n => server'.blocks[b] = server.blocks[b]
        /\ Agree(server'.blocks[n], server.recorded, s)
    BY <1>9, <2>0
  <2>2. \A u \in Threads : ~Touches(u, s)'
    <3> TAKE u \in Threads
    <3>1. Op(u) \in {"capture", "apply"} => Of(u) \in DOMAIN blocks /\ Of(u) # n
      BY <1>0, <1>n, HeldIs DEF BlockUse
    <3> QED BY <1>0, <1>1, <1>3, <1>8, <2>1, <2>e, <3>1, SameTouch
  <2>3. Stored[s] = m_state[s] /\ Agree(server.recorded, blocks[n], s)
    BY <1>n, <2>0, <2>1, <2>e, Free
  <2>4. CallInv(t, s)'
    BY <2>2 DEF CallInv
  <2>5. DeviceInv(s)'
    <3>1. ServerShape(server')
      BY <1>6 DEF Shape
    <3> QED BY <1>1, <1>5, <2>0, <2>3, <2>e, <3>1, StoredIsNext DEF DeviceInv
  <2>6. RecordInv(s)'
    BY <2>e DEF RecordInv
  <2>7. BlockInv(s)'
    <3> SUFFICES ASSUME NEW b \in DOMAIN blocks', Held(b)'
                 PROVE  /\ s \in DOMAIN blocks'[b] =>
                             /\ s \in DOMAIN server'.blocks[b]
                             /\ \/ \E u \in Threads : Op(u)' = "capture" /\ Of(u)' = b
                                \/ server'.blocks[b][s] = blocks'[b][s]
                        /\ s \in StateBlockSetCaptureFlags \ DOMAIN blocks'[b] => s \notin DOMAIN server'.blocks[b]
      BY DEF BlockInv
    <3>1. CASE b = n
      <4>1. Agree(server'.blocks[b], blocks'[b], s)
        BY <1>1, <2>3, <2>e, <3>1 DEF Agree
      <4> QED BY <4>1 DEF Agree
    <3>2. CASE b # n
      <4>1. /\ b \in DOMAIN blocks /\ Held(b) /\ b \in DOMAIN server.blocks
            /\ server'.blocks[b] = server.blocks[b] /\ blocks'[b] = blocks[b]
        BY <1>1, <1>7, <2>0, <2>e, <3>2 DEF Synced
      <4>2. /\ s \in DOMAIN blocks[b] =>
                 /\ s \in DOMAIN server.blocks[b]
                 /\ (\E u \in Threads : Op(u) = "capture" /\ Of(u) = b) \/ server.blocks[b][s] = blocks[b][s]
            /\ s \in StateBlockSetCaptureFlags \ DOMAIN blocks[b] => s \notin DOMAIN server.blocks[b]
        BY <2>0, <4>1 DEF SlotInv, BlockInv
      <4> QED BY <1>3, <4>1, <4>2
    <3> QED BY <3>1, <3>2
  <2> QED BY <2>2, <2>4, <2>5, <2>6, <2>7, Solo
<1> QED BY <1>6, <1>8, <1>10, <1>11 DEF IInv

(* Capture: the client captures at once.                                    *)
LEMMA CaptureKeeps ==
  ASSUME IInv, NEW t \in Threads, NEW n \in Blocks, Capture(t, n)
  PROVE  IInv'
<1>0. Shape /\ ClientShape /\ PendingShape /\ BlockUse
  BY DEF IInv, Shape
<1>1. /\ Idle(t) /\ Held(n) /\ ~Recording
      /\ blocks' = [blocks EXCEPT ![n] = [s \in DOMAIN @ |-> m_state[s]]]
      /\ pending' = [pending EXCEPT ![t] = NotSent(About("capture", n))]
      /\ UNCHANGED <<m_state, m_stateRecording, batch, server>>
      /\ tainted' = tainted \cup Raced(t, BlockSlots(n))
  BY DEF Capture, LocalCapture, Later
<1>2. Op(t) = "none" /\ \A s : ~Touches(t, s)
  BY <1>1, IdleIs
<1>3. /\ PendingShape' /\ Op(t)' = "capture" /\ Of(t)' = n /\ pending'[t].flushed = FALSE
      /\ \A u \in Threads \ {t} : pending'[u] = pending[u] /\ Op(u)' = Op(u) /\ Of(u)' = Of(u)
  <2>1. MessageShape(About("capture", n)) /\ About("capture", n).op = "capture" /\ About("capture", n).block = n
    BY MessageShapes
  <2>2. /\ PendingShape' /\ Op(t)' = "capture" /\ pending'[t].msg = About("capture", n)
        /\ pending'[t].flushed = FALSE
        /\ \A u \in Threads \ {t} : pending'[u] = pending[u] /\ Op(u)' = Op(u) /\ Of(u)' = Of(u)
    BY <1>0, <1>1, <2>1, PendingSet
  <2> QED BY <2>1, <2>2 DEF Of
<1>4. n \in DOMAIN blocks /\ n # m_stateRecording
  BY <1>0, <1>1, HeldIs
<1>5. /\ DOMAIN blocks' = DOMAIN blocks /\ DOMAIN blocks'[n] = DOMAIN blocks[n]
      /\ \A s \in DOMAIN blocks[n] : blocks'[n][s] = m_state[s]
      /\ \A b \in DOMAIN blocks : b # n => blocks'[b] = blocks[b]
  BY <1>1, <1>4
<1>6. /\ tainted \subseteq tainted' /\ tainted' \subseteq Slots /\ (Recording' <=> Recording)
  <2>1. BlockSlots(n) \subseteq Slots
    BY <1>0, <1>4 DEF ClientShape, Shape, ServerShape, BlockSlots
  <2> QED BY <1>0, <1>1, <2>1 DEF ClientShape, Raced, Recording
<1>d. \A b \in DOMAIN blocks : DOMAIN blocks'[b] = DOMAIN blocks[b]
  <2> TAKE b \in DOMAIN blocks
  <2>1. CASE b = n
    BY <1>5, <2>1
  <2>2. CASE b # n
    BY <1>5, <2>2
  <2> QED BY <2>1, <2>2
<1>7. Shape'
  <2>1. ClientShape'
    BY <1>0, <1>1, <1>5, <1>d, <1>6 DEF ClientShape
  <2>2. BatchShape' /\ ServerShape(server')
    BY <1>0, <1>1 DEF Shape, BatchShape, InBatch
  <2> QED BY <1>3, <2>1, <2>2 DEF Shape
<1>8. BlockUse' /\ \A b : Held(b)' <=> Held(b)
  BY <1>0, <1>1, <1>2, <1>3, <1>5, <1>d, SameBlocks
<1>9. InStep'
  <2> SUFFICES ASSUME tainted' # Slots PROVE Synced'
    BY DEF InStep
  <2>1. Synced
    BY <1>6, Together
  <2> QED BY <1>1, <1>3, <1>5, <1>6, <1>8, <2>1 DEF Synced
<1>10. ASSUME NEW s \in Slots \ tainted' PROVE SlotInv(s)'
  <2>0. SlotInv(s) /\ s \in Slots /\ Synced /\ s \notin Raced(t, BlockSlots(n))
    BY <1>1, <1>6, Together DEF IInv
  <2>1. Touches(t, s)' <=> s \in BlockSlots(n)
    <3>1. BlockSlots(n)' = BlockSlots(n)
      BY <1>1, <1>5 DEF BlockSlots
    <3>2. Touches(t, s)' <=> s \in BlockSlots(Of(t))'
      BY <1>3, TouchesIsNext
    <3>3. BlockSlots(Of(t))' = BlockSlots(n)'
      BY <1>3 DEF BlockSlots
    <3> QED BY <3>1, <3>2, <3>3
  <2>2. Stored'[s] = Stored[s] /\ InBatch' = InBatch
    BY <1>1 DEF Stored, InBatch
  <2>3. CASE s \notin BlockSlots(n)
    <3>1. \A b \in DOMAIN blocks : /\ Agree(blocks'[b], blocks[b], s)
                                   /\ b # m_stateRecording => DOMAIN blocks'[b] = DOMAIN blocks[b]
      <4> TAKE b \in DOMAIN blocks
      <4>1. CASE b = n
        BY <1>4, <1>5, <2>3, <4>1 DEF Agree, BlockSlots
      <4>2. CASE b # n
        BY <1>5, <4>2 DEF Agree
      <4> QED BY <1>d, <4>1, <4>2
    <3>2. Agree(server'.recorded, server.recorded, s)
      BY <1>1 DEF Agree
    <3> QED BY <1>0, <1>1, <1>2, <1>3, <1>5, <1>8, <2>0, <2>1, <2>2, <2>3, <3>1, <3>2, OtherSlot
  <2>4. CASE s \in BlockSlots(n)
    <3>1. \A u \in Threads \ {t} : ~Touches(u, s)
      BY <2>0, <2>4, NotRaced
    <3>2. \A u \in Threads \ {t} : ~Touches(u, s)'
      <4> TAKE u \in Threads \ {t}
      <4>1. Op(u) \in {"capture", "apply"} => Of(u) \in DOMAIN blocks
        BY <1>0, HeldIs DEF BlockUse
      <4> QED BY <1>0, <1>1, <1>3, <1>5, <1>d, <1>8, <3>1, <4>1, SameTouch
    <3>3. Stored'[s] = m_state'[s]
      BY <1>1, <1>2, <2>0, <2>2, <3>1, Free
    <3>4. CallInv(t, s)'
      BY <1>1, <1>3, <1>5, <1>6 DEF CallInv
    <3>5. DeviceInv(s)'
      BY <3>3 DEF DeviceInv
    <3>6. RecordInv(s)'
      BY <1>1, <2>0 DEF RecordInv, Synced
    <3>7. BlockInv(s)'
      <4> SUFFICES ASSUME NEW b \in DOMAIN blocks', Held(b)'
                   PROVE  /\ s \in DOMAIN blocks'[b] =>
                               /\ s \in DOMAIN server'.blocks[b]
                               /\ \/ \E u \in Threads : Op(u)' = "capture" /\ Of(u)' = b
                                  \/ server'.blocks[b][s] = blocks'[b][s]
                          /\ s \in StateBlockSetCaptureFlags \ DOMAIN blocks'[b] => s \notin DOMAIN server'.blocks[b]
        BY DEF BlockInv
      <4>1. b \in DOMAIN blocks /\ Held(b) /\ server'.blocks = server.blocks /\ DOMAIN blocks'[b] = DOMAIN blocks[b]
        BY <1>1, <1>5, <1>d, <1>8
      <4>2. /\ s \in DOMAIN blocks[b] =>
                 /\ s \in DOMAIN server.blocks[b]
                 /\ (\E u \in Threads : Op(u) = "capture" /\ Of(u) = b) \/ server.blocks[b][s] = blocks[b][s]
            /\ s \in StateBlockSetCaptureFlags \ DOMAIN blocks[b] => s \notin DOMAIN server.blocks[b]
        BY <2>0, <4>1 DEF SlotInv, BlockInv
      <4>3. CASE b = n
        BY <1>3, <4>1, <4>2, <4>3
      <4>4. CASE b # n
        <5>1. blocks'[b] = blocks[b]
          BY <1>5, <4>1, <4>4
        <5>2. \A u \in Threads : Op(u) = "capture" => Op(u)' = "capture" /\ Of(u)' = Of(u)
          BY <1>2, <1>3
        <5> QED BY <4>1, <4>2, <5>1, <5>2
      <4> QED BY <4>3, <4>4
    <3> QED BY <3>2, <3>4, <3>5, <3>6, <3>7, Solo
  <2> QED BY <2>3, <2>4
<1> QED BY <1>7, <1>8, <1>9, <1>10 DEF IInv

(* Apply: the shadow takes the values of the client's block.                *)
LEMMA ApplyKeeps ==
  ASSUME IInv, NEW t \in Threads, NEW n \in Blocks, Apply(t, n)
  PROVE  IInv'
<1>0. Shape /\ ClientShape /\ PendingShape /\ BlockUse
  BY DEF IInv, Shape
<1>1. /\ Idle(t) /\ Held(n) /\ ~Recording /\ m_state' = Over(blocks[n], m_state)
      /\ pending' = [pending EXCEPT ![t] = NotSent(About("apply", n))]
      /\ UNCHANGED <<m_stateRecording, blocks, batch, server>>
      /\ tainted' = tainted \cup Raced(t, BlockSlots(n)) \cup (BlockSlots(n) \ DOMAIN blocks[n])
  BY DEF Apply, Later
<1>2. Op(t) = "none" /\ \A s : ~Touches(t, s)
  BY <1>1, IdleIs
<1>3. /\ PendingShape' /\ Op(t)' = "apply" /\ Of(t)' = n /\ pending'[t].flushed = FALSE
      /\ \A u \in Threads \ {t} : pending'[u] = pending[u] /\ Op(u)' = Op(u) /\ Of(u)' = Of(u)
  <2>1. MessageShape(About("apply", n)) /\ About("apply", n).op = "apply" /\ About("apply", n).block = n
    BY MessageShapes
  <2>2. /\ PendingShape' /\ Op(t)' = "apply" /\ pending'[t].msg = About("apply", n)
        /\ pending'[t].flushed = FALSE
        /\ \A u \in Threads \ {t} : pending'[u] = pending[u] /\ Op(u)' = Op(u) /\ Of(u)' = Of(u)
    BY <1>0, <1>1, <2>1, PendingSet
  <2> QED BY <2>1, <2>2 DEF Of
<1>4. n \in DOMAIN blocks /\ n # m_stateRecording
  BY <1>0, <1>1, HeldIs
<1>5. /\ DOMAIN m_state' = Slots /\ \A s \in DOMAIN blocks[n] : m_state'[s] = blocks[n][s]
      /\ \A s \in Slots \ DOMAIN blocks[n] : m_state'[s] = m_state[s]
  BY <1>0, <1>1, <1>4 DEF ClientShape, Over
<1>6. tainted \subseteq tainted' /\ tainted' \subseteq Slots /\ (Recording' <=> Recording)
  <2>1. BlockSlots(n) \subseteq Slots
    BY <1>0, <1>4 DEF ClientShape, Shape, ServerShape, BlockSlots
  <2> QED BY <1>0, <1>1, <2>1 DEF ClientShape, Raced, Recording
<1>7. Shape'
  <2>1. ClientShape'
    BY <1>0, <1>1, <1>5, <1>6 DEF ClientShape
  <2>2. BatchShape' /\ ServerShape(server')
    BY <1>0, <1>1 DEF Shape, BatchShape, InBatch
  <2> QED BY <1>3, <2>1, <2>2 DEF Shape
<1>8. BlockUse' /\ \A b : Held(b)' <=> Held(b)
  BY <1>0, <1>1, <1>2, <1>3, SameBlocks
<1>9. InStep'
  <2> SUFFICES ASSUME tainted' # Slots PROVE Synced'
    BY DEF InStep
  <2>1. Synced
    BY <1>6, Together
  <2> QED BY <1>1, <1>3, <1>6, <1>8, <2>1 DEF Synced
<1>10. ASSUME NEW s \in Slots \ tainted' PROVE SlotInv(s)'
  <2>0. SlotInv(s) /\ s \in Slots /\ Synced /\ s \notin Raced(t, BlockSlots(n))
    BY <1>1, <1>6, Together DEF IInv
  <2>1. Touches(t, s)' <=> s \in BlockSlots(n)
    <3>2. Touches(t, s)' <=> s \in BlockSlots(Of(t))'
      BY <1>3, TouchesIsNext
    <3>3. BlockSlots(Of(t))' = BlockSlots(n)
      BY <1>1, <1>3 DEF BlockSlots
    <3> QED BY <3>2, <3>3
  <2>2. Stored'[s] = Stored[s] /\ InBatch' = InBatch
    BY <1>1 DEF Stored, InBatch
  <2>a. \A b \in DOMAIN blocks : /\ Agree(blocks'[b], blocks[b], s)
                                 /\ b # m_stateRecording => DOMAIN blocks'[b] = DOMAIN blocks[b]
    BY <1>1 DEF Agree
  <2>3. CASE s \notin BlockSlots(n)
    <3>1. m_state'[s] = m_state[s]
      BY <1>4, <1>5, <2>0, <2>3 DEF BlockSlots
    <3>2. Agree(server'.recorded, server.recorded, s)
      BY <1>1 DEF Agree
    <3> QED BY <1>0, <1>1, <1>2, <1>3, <1>8, <2>0, <2>1, <2>2, <2>3, <2>a, <3>1, <3>2, OtherSlot
  <2>4. CASE s \in BlockSlots(n)
    <3>0. s \in DOMAIN blocks[n]
      BY <1>1, <2>4
    <3>1. \A u \in Threads \ {t} : ~Touches(u, s)
      BY <2>0, <2>4, NotRaced
    <3>2. \A u \in Threads \ {t} : ~Touches(u, s)'
      <4> TAKE u \in Threads \ {t}
      <4>1. Op(u) \in {"capture", "apply"} => Of(u) \in DOMAIN blocks
        BY <1>0, HeldIs DEF BlockUse
      <4> QED BY <1>0, <1>1, <1>3, <1>8, <3>1, <4>1, SameTouch
    <3>3. Touches(t, s)'
      BY <2>1, <2>4
    <3>4. CallInv(t, s)'
      BY <1>1, <1>3, <1>5, <1>6, <3>0 DEF CallInv
    <3>5. DeviceInv(s)'
      BY <1>3, <3>3 DEF DeviceInv, Owed
    <3>6. RecordInv(s)'
      BY <3>3 DEF RecordInv
    <3>7. BlockInv(s)'
      <4>1. ASSUME NEW b \in DOMAIN blocks', Held(b)'
            PROVE  /\ b \in DOMAIN blocks /\ Held(b)
                   /\ Agree(blocks'[b], blocks[b], s) /\ Agree(server'.blocks[b], server.blocks[b], s)
        BY <1>1, <1>8, <4>1 DEF Agree
      <4>2. \A u \in Threads : Op(u) = "capture" => Op(u)' = "capture" /\ Of(u)' = Of(u)
        BY <1>2, <1>3
      <4> QED BY <2>0, <4>1, <4>2, BlockFrame DEF SlotInv
    <3> QED BY <3>2, <3>4, <3>5, <3>6, <3>7, Solo
  <2> QED BY <2>3, <2>4
<1> QED BY <1>7, <1>8, <1>9, <1>10 DEF IInv

(* The last Release of a block no call uses.                                *)
LEMMA DestroyKeeps ==
  ASSUME IInv, NEW t \in Threads, NEW n \in Blocks, onDestroy(t, n)
  PROVE  IInv'
<1>0. Shape /\ ClientShape /\ PendingShape /\ BlockUse
  BY DEF IInv, Shape
<1>1. /\ Idle(t) /\ Held(n) /\ blocks' = [x \in DOMAIN blocks \ {n} |-> blocks[x]]
      /\ pending' = [pending EXCEPT ![t] = NotSent(About("destroy", n))]
      /\ UNCHANGED <<m_state, m_stateRecording, batch, server, tainted>>
      /\ \A u \in Threads : Op(u) \in {"capture", "apply"} => Of(u) # n
  BY DEF onDestroy, Later, Op, Of
<1>2. Op(t) = "none" /\ \A s : ~Touches(t, s)
  BY <1>1, IdleIs
<1>3. /\ PendingShape' /\ Op(t)' = "destroy" /\ Of(t)' = n /\ pending'[t].flushed = FALSE
      /\ \A u \in Threads \ {t} : pending'[u] = pending[u] /\ Op(u)' = Op(u) /\ Of(u)' = Of(u)
  <2>1. MessageShape(About("destroy", n)) /\ About("destroy", n).op = "destroy" /\ About("destroy", n).block = n
    BY MessageShapes
  <2>2. /\ PendingShape' /\ Op(t)' = "destroy" /\ pending'[t].msg = About("destroy", n)
        /\ pending'[t].flushed = FALSE
        /\ \A u \in Threads \ {t} : pending'[u] = pending[u] /\ Op(u)' = Op(u) /\ Of(u)' = Of(u)
    BY <1>0, <1>1, <2>1, PendingSet
  <2> QED BY <2>1, <2>2 DEF Of
<1>4. n \in DOMAIN blocks /\ n # m_stateRecording /\ \A u \in Threads : Op(u) = "create" => Of(u) # n
  BY <1>0, <1>1, HeldIs
<1>5. DOMAIN blocks' = DOMAIN blocks \ {n} /\ \A b \in DOMAIN blocks \ {n} : blocks'[b] = blocks[b]
  BY <1>1
<1>6. (Recording' <=> Recording) /\ UNCHANGED Stored /\ UNCHANGED InBatch
  BY <1>1 DEF Recording, Stored, InBatch
<1>7. Shape'
  <2>1. ClientShape'
    BY <1>0, <1>1, <1>4, <1>5, <1>6 DEF ClientShape
  <2>2. BatchShape' /\ ServerShape(server')
    BY <1>0, <1>1 DEF Shape, BatchShape, InBatch
  <2> QED BY <1>3, <2>1, <2>2 DEF Shape
<1>8. \A b : Held(b)' <=> Held(b) /\ b # n
  <2> TAKE b
  <2>1. CASE b = n
    BY <1>3, <1>5, <2>1, HeldIsNext
  <2>2. CASE b # n
    BY <1>0, <1>1, <1>2, <1>3, <1>5, <2>2, HeldIs, HeldIsNext
  <2> QED BY <2>1, <2>2
<1>9. BlockUse'
  <2> SUFFICES ASSUME NEW u \in Threads
               PROVE  /\ Op(u)' = "create" => /\ Of(u)' \in DOMAIN blocks' /\ Of(u)' # m_stateRecording'
                                              /\ DOMAIN blocks'[Of(u)'] = StateBlockSetCaptureFlags
                      /\ Op(u)' \in {"capture", "apply"} => Held(Of(u))'
                      /\ Op(u)' = "destroy" => Of(u)' \notin DOMAIN blocks'
    BY DEF BlockUse
  <2>1. CASE u = t
    BY <1>3, <1>5, <2>1
  <2>2. CASE u # t
    BY <1>0, <1>1, <1>3, <1>4, <1>5, <1>8, <2>2 DEF BlockUse
  <2> QED BY <2>1, <2>2
<1>10. InStep'
  <2> SUFFICES ASSUME tainted' # Slots PROVE Synced'
    BY DEF InStep
  <2>1. Synced
    BY <1>1 DEF IInv, InStep
  <2>2. \A b \in DOMAIN blocks' : Held(b)' => b \in DOMAIN server'.blocks
    BY <1>1, <1>5, <1>8, <2>1 DEF Synced
  <2> QED BY <1>1, <1>2, <1>3, <1>6, <2>1, <2>2 DEF Synced
<1>11. ASSUME NEW s \in Slots \ tainted' PROVE SlotInv(s)'
  <2>0. SlotInv(s) /\ s \in Slots /\ Synced
    BY <1>1 DEF IInv, InStep
  <2>1. ~Touches(t, s)'
    BY <1>3, TouchesIsNext
  <2>2. \A u \in Threads \ {t} : Touches(u, s)' <=> Touches(u, s)
    <3> TAKE u \in Threads \ {t}
    <3>1. Op(u) \in {"capture", "apply"} => Of(u) \in DOMAIN blocks \ {n}
      BY <1>0, <1>1, HeldIs DEF BlockUse
    <3> QED BY <1>0, <1>1, <1>3, <1>5, <1>9, <3>1, SameTouch
  <2>3. BlockInv(s)'
    <3>1. ASSUME NEW b \in DOMAIN blocks', Held(b)'
          PROVE  /\ b \in DOMAIN blocks /\ Held(b)
                 /\ Agree(blocks'[b], blocks[b], s) /\ Agree(server'.blocks[b], server.blocks[b], s)
      BY <1>1, <1>5, <1>8, <3>1 DEF Agree
    <3>2. \A u \in Threads : Op(u) = "capture" => Op(u)' = "capture" /\ Of(u)' = Of(u)
      BY <1>2, <1>3
    <3> QED BY <2>0, <3>1, <3>2, BlockFrame DEF SlotInv
  <2>4. \A u \in Threads \ {t} : Touches(u, s) /\ Op(u) \in {"create", "capture", "apply"}
             => Agree(blocks'[Of(u)], blocks[Of(u)], s)
    <3>1. \A u \in Threads : Op(u) \in {"create", "capture", "apply"} => Of(u) \in DOMAIN blocks \ {n}
      BY <1>0, <1>1, <1>4, HeldIs DEF BlockUse
    <3> QED BY <1>5, <3>1 DEF Agree
  <2>5. Recording' => Agree(blocks'[m_stateRecording], blocks[m_stateRecording], s)
    BY <1>0, <1>4, <1>5, <1>6 DEF ClientShape, Agree
  <2>6. server'.isRecording => /\ server.isRecording /\ Recording'
                               /\ Agree(server'.recorded, server.recorded, s)
    BY <1>1, <1>6, <2>0 DEF Synced, Agree
  <2> QED BY <1>1, <1>2, <1>3, <1>6, <2>0, <2>1, <2>2, <2>3, <2>4, <2>5, <2>6, Frame
<1> QED BY <1>7, <1>9, <1>10, <1>11 DEF IInv

(* Reset, before which the game has released its blocks.                    *)
LEMMA ResetKeeps ==
  ASSUME IInv, NEW t \in Threads, Reset(t)
  PROVE  IInv'
<1>0. Shape /\ ClientShape /\ PendingShape /\ BlockUse /\ BatchShape /\ ServerShape(server)
  BY DEF IInv, Shape
<1> DEFINE srv == StateBatch(server)
           m   == [op |-> "reset"]
<1>1. /\ Idle(t) /\ ~Recording /\ DOMAIN blocks = {} /\ server' = Deliver(srv, m) /\ batch' = <<>>
      /\ DOMAIN m_state' = Slots /\ UNCHANGED <<m_stateRecording, blocks, pending>>
      /\ tainted' = tainted \cup Raced(t, Slots) \cup {s \in Slots : m_state'[s] # Default}
  BY DEF Reset, Command
<1>2. Op(t) = "none" /\ \A s : ~Touches(t, s)
  BY <1>1, IdleIs
<1>3. PendingShape' /\ \A u \in Threads : pending'[u] = pending[u] /\ Op(u)' = Op(u) /\ Of(u)' = Of(u)
  BY <1>0, <1>1 DEF PendingShape, Op, Of, Idle
<1>5. /\ tainted \subseteq tainted' /\ tainted' \subseteq Slots /\ ~Recording' /\ InBatch' = {} /\ BatchShape'
  BY <1>0, <1>1, Emptied DEF ClientShape, Raced, Recording
<1>6. Shape'
  <2>1. ClientShape'
    BY <1>0, <1>1, <1>5 DEF ClientShape
  <2>2. ServerShape(server')
    BY <1>0, <1>1, FlushShape, DeliverShape
  <2> QED BY <1>3, <1>5, <2>1, <2>2 DEF Shape
<1>7. \A b : ~Held(b) /\ ~Held(b)'
  BY <1>1 DEF Held
<1>8. BlockUse'
  BY <1>0, <1>1, <1>3, <1>7 DEF BlockUse
<1>9. ASSUME Synced
      PROVE  /\ ~server'.isRecording /\ ~server'.down
             /\ \A s \in Slots : server'.device[s] = Default
  <2>1. ~server.isRecording /\ ~server.down
    BY <1>1, <1>9 DEF Synced
  <2>2. ServerShape(srv) /\ srv.isRecording = server.isRecording /\ ~srv.down
    BY <1>0, <2>1, FlushEffect
  <2> HIDE DEF srv
  <2>3. server' = [srv EXCEPT !.device = [s \in Slots |-> Default]]
    BY <1>1, <2>2 DEF Deliver, Reset_server
  <2>4. /\ server'.isRecording = srv.isRecording /\ server'.down = srv.down
        /\ server'.device = [s \in Slots |-> Default]
    BY <2>2, <2>3 DEF ServerShape, Fields
  <2> QED BY <2>1, <2>2, <2>4
<1>10. InStep'
  <2> SUFFICES ASSUME tainted' # Slots PROVE Synced'
    BY DEF InStep
  <2>1. Synced
    BY <1>5, Together
  <2> QED BY <1>1, <1>3, <1>5, <1>7, <1>9, <2>1 DEF Synced
<1>11. ASSUME NEW s \in Slots \ tainted' PROVE SlotInv(s)'
  <2>0. SlotInv(s) /\ s \in Slots /\ Synced /\ s \notin Raced(t, Slots) /\ m_state'[s] = Default
    BY <1>1, <1>5, Together DEF IInv
  <2>1. \A u \in Threads : ~Touches(u, s)
    BY <1>2, <2>0, NotRaced
  <2>2. \A u \in Threads : ~Touches(u, s)'
    <3> TAKE u \in Threads
    <3>1. Op(u) \notin {"capture", "apply"}
      BY <1>0, <1>7 DEF BlockUse
    <3> QED BY <1>0, <1>3, <1>8, <2>1, <3>1, SameTouch
  <2>3. Stored'[s] = m_state'[s]
    <3>1. ServerShape(server') /\ server'.device[s] = Default
      BY <1>6, <1>9, <2>0 DEF Shape
    <3> QED BY <1>5, <2>0, <3>1, StoredIsNext
  <2>4. CallInv(t, s)'
    BY <2>2 DEF CallInv
  <2>5. DeviceInv(s)'
    BY <2>3 DEF DeviceInv
  <2>6. RecordInv(s)'
    BY <1>9, <2>0 DEF RecordInv
  <2>7. BlockInv(s)'
    BY <1>7 DEF BlockInv
  <2> QED BY <2>2, <2>4, <2>5, <2>6, <2>7, Solo
<1> QED BY <1>6, <1>8, <1>10, <1>11 DEF IInv

--------------------------------------------------------------------------------
(* The invariant holds, and both properties follow from it                  *)

(* A new device has the defaults, and so has the shadow where they were     *)
(* written.                                                                 *)
LEMMA InitIInv ==
  InitState => IInv
<1> SUFFICES ASSUME InitState PROVE IInv
  OBVIOUS
<1>1. /\ m_state \in [Slots -> Values] /\ m_stateRecording = NoBlock /\ blocks = Nothing /\ batch = <<>>
      /\ pending = [t \in Threads |-> NotSent(NoMessage)]
      /\ tainted = {s \in Slots : m_state[s] # Default}
  BY DEF InitState
<1>2. /\ DOMAIN server = Fields /\ server.device = [s \in Slots |-> Default] /\ server.isRecording = FALSE
      /\ server.recorded = Nothing /\ server.blocks = Nothing /\ server.down = FALSE
  BY DEF InitState, Fields
<1>3. DOMAIN Nothing = {}
  BY DEF Nothing
<1>4. \A t \in Threads : Idle(t) /\ Op(t) = "none" /\ pending[t].flushed = FALSE /\ \A s : ~Touches(t, s)
  <2>1. \A t \in Threads : Idle(t)
    BY <1>1 DEF Idle
  <2> QED BY <2>1, IdleIs
<1>5. ~Recording /\ \A b : ~Held(b)
  BY <1>1, <1>3 DEF Recording, Held
<1>6. batch \in Seq(Records) /\ InBatch = {} /\ BatchShape
  <2>1. <<>> \in Seq(Records) /\ DOMAIN <<>> = {}
    BY EmptySeq, LenProperties
  <2>2. batch \in Seq(Records) /\ InBatch = {}
    BY <1>1, <2>1 DEF InBatch
  <2> QED BY <2>2 DEF BatchShape
<1>7. PendingShape
  <2>1. MessageShape(NoMessage)
    BY MessageShapes
  <2> SUFFICES ASSUME NEW t \in Threads
               PROVE  /\ DOMAIN pending[t] = {"msg", "flushed"} /\ MessageShape(pending[t].msg)
                      /\ pending[t].flushed \in BOOLEAN /\ (Op(t) = "none" => Idle(t))
    BY <1>1 DEF PendingShape
  <2>2. pending[t] = NotSent(NoMessage)
    BY <1>1
  <2> QED BY <1>4, <2>1, <2>2 DEF NotSent
<1>8. Shape
  BY <1>1, <1>2, <1>3, <1>5, <1>6, <1>7 DEF Shape, ClientShape, ServerShape
<1>9. BlockUse
  BY <1>4 DEF BlockUse
<1>10. InStep
  BY <1>1, <1>2, <1>3, <1>4, <1>5 DEF InStep, Synced
<1>11. ASSUME NEW s \in Slots \ tainted PROVE SlotInv(s)
  <2>1. m_state[s] = Default /\ server.device[s] = Default
    BY <1>1, <1>2
  <2>2. Stored[s] = m_state[s]
    BY <1>6, <1>8, <2>1, StoredIs DEF Shape
  <2>3. DeviceInv(s) /\ RecordInv(s) /\ BlockInv(s)
    BY <1>2, <1>5, <2>2 DEF DeviceInv, RecordInv, BlockInv
  <2> QED BY <1>4, <2>3 DEF SlotInv, Alone, CallInv
<1> QED BY <1>8, <1>9, <1>10, <1>11 DEF IInv

(* Every step keeps the invariant.                                          *)
LEMMA NextIInv ==
  IInv /\ [StateNext]_stateVars => IInv'
<1> SUFFICES ASSUME IInv, [StateNext]_stateVars PROVE IInv'
  OBVIOUS
<1>1. CASE UNCHANGED stateVars
  <2>1. UNCHANGED <<m_state, m_stateRecording, blocks, batch, pending, server, tainted>>
    BY <1>1 DEF stateVars
  <2>2. \A t : UNCHANGED <<Op(t), Of(t)>> /\ \A s : Touches(t, s)' <=> Touches(t, s)
    BY <2>1 DEF Op, Of, Touches, Touched, BlockSlots
  <2>3. UNCHANGED <<Stored, InBatch>> /\ (Recording' <=> Recording) /\ \A b : Held(b)' <=> Held(b)
    BY <2>1 DEF Stored, InBatch, Recording, Held
  <2>4. Shape'
    BY <2>1, <2>2, <2>3 DEF IInv, Shape, ClientShape, PendingShape, BatchShape, Idle
  <2>5. BlockUse'
    BY <2>1, <2>2, <2>3 DEF IInv, BlockUse
  <2>6. InStep'
    BY <2>1, <2>2, <2>3 DEF IInv, InStep, Synced
  <2>7. ASSUME NEW s \in Slots \ tainted' PROVE SlotInv(s)'
    <3>1. SlotInv(s)
      BY <2>1 DEF IInv
    <3>2. Alone(s)' /\ (\A t \in Threads : CallInv(t, s)')
      BY <2>1, <2>2, <2>3, <3>1 DEF SlotInv, Alone, CallInv
    <3>3. DeviceInv(s)' /\ RecordInv(s)'
      BY <2>1, <2>2, <2>3, <3>1 DEF SlotInv, DeviceInv, Owed, RecordInv, Agree
    <3>4. BlockInv(s)'
      BY <2>1, <2>2, <2>3, <3>1 DEF SlotInv, BlockInv
    <3> QED BY <3>2, <3>3, <3>4 DEF SlotInv
  <2> QED BY <2>4, <2>5, <2>6, <2>7 DEF IInv
<1>2. CASE StateNext
  <2>1. PICK t \in Threads : Call(t) \/ ForwardPending(t) \/ FlushBefore(t) \/ Send(t)
    BY <1>2 DEF StateNext
  <2>2. CASE ForwardPending(t)
    BY <2>2, ForwardKeeps
  <2>3. CASE FlushBefore(t)
    BY <2>3, FlushKeeps
  <2>4. CASE Send(t)
    BY <2>4, SendKeeps
  <2>5. CASE Call(t)
    <3>1. CASE \E x \in Slots, v \in Values : Set(t, x, v)
      BY <3>1, SetNowKeeps, SetLaterKeeps
    <3>2. CASE \E v \in Values : MultiplyTransform(t, v)
      BY <3>2, MultiplyKeeps
    <3>3. CASE \E b \in Blocks : CreateStateBlock(t, b)
      BY <3>3, CreateKeeps
    <3>4. CASE \E b \in Blocks : BeginStateBlock(t, b)
      BY <3>4, BeginKeeps
    <3>5. CASE EndStateBlock(t)
      BY <3>5, EndKeeps
    <3>6. CASE \E b \in Blocks : Capture(t, b)
      BY <3>6, CaptureKeeps
    <3>7. CASE \E b \in Blocks : Apply(t, b)
      BY <3>7, ApplyKeeps
    <3>8. CASE \E b \in Blocks : onDestroy(t, b)
      BY <3>8, DestroyKeeps
    <3>9. CASE Reset(t)
      BY <3>9, ResetKeeps
    <3> QED BY <2>5, <3>1, <3>2, <3>3, <3>4, <3>5, <3>6, <3>7, <3>8, <3>9 DEF Call
  <2> QED BY <2>1, <2>2, <2>3, <2>4, <2>5
<1> QED BY <1>1, <1>2

(* It always holds.                                                         *)
LEMMA Invariance ==
  StateSpec => []IInv
<1> QED BY InitIInv, NextIInv, PTL DEF StateSpec

(* Elision, batching and state blocks together never lose or reorder a      *)
(* write: outside the known gaps the client's shadow of a slot is what the  *)
(* server's device holds once it has replayed the batch, as soon as no call *)
(* on the slot is under way.                                                *)
THEOREM ShadowCoherent ==
  StateSpec => []Coherent
<1>1. IInv => Coherent
  <2> SUFFICES ASSUME IInv, NEW s \in Slots \ tainted, Settled({s}) PROVE Stored[s] = m_state[s]
    BY DEF Coherent
  <2>1. \A u \in Threads : ~Touches(u, s)
    BY DEF Settled, Touches
  <2> QED BY <2>1, Free DEF IInv
<1> QED BY <1>1, Invariance, PTL

(* Outside the same gaps a block the game holds has the same slots with the *)
(* same values on both sides, and the server is never asked for a block it  *)
(* does not have unless BeginStateBlock or CreateStateBlock raced a call.   *)
THEOREM BlocksCoherent ==
  StateSpec => []BlocksAgree
<1>1. IInv => BlocksAgree
  <2> SUFFICES ASSUME IInv PROVE BlocksAgree
    OBVIOUS
  <2>1. ServerSurvives
    BY DEF IInv, InStep, Synced, ServerSurvives
  <2>2. ASSUME NEW b \in DOMAIN blocks, Held(b), NEW s \in Slots \ tainted, Settled({s})
        PROVE  /\ s \in DOMAIN blocks[b] =>
                    /\ b \in DOMAIN server.blocks
                    /\ s \in DOMAIN server.blocks[b]
                    /\ server.blocks[b][s] = blocks[b][s]
               /\ s \in StateBlockSetCaptureFlags \ DOMAIN blocks[b] => s \notin BlockSlots(b)
    <3>1. /\ \A u \in Threads : ~Touches(u, s)
          /\ b \in DOMAIN server.blocks /\ BlockInv(s) /\ Shape
      BY <2>2 DEF IInv, InStep, Synced, SlotInv, Settled, Touches
    <3>2. ASSUME NEW u \in Threads, Op(u) = "capture", Of(u) = b PROVE s \notin DOMAIN blocks[b]
      BY <3>1, <3>2, TouchesIs DEF Shape, BlockSlots
    <3>3. /\ s \in DOMAIN blocks[b] =>
               /\ s \in DOMAIN server.blocks[b]
               /\ (\E u \in Threads : Op(u) = "capture" /\ Of(u) = b) \/ server.blocks[b][s] = blocks[b][s]
          /\ s \in StateBlockSetCaptureFlags \ DOMAIN blocks[b] => s \notin DOMAIN server.blocks[b]
      BY <2>2, <3>1 DEF BlockInv
    <3> QED BY <3>1, <3>2, <3>3 DEF BlockSlots
  <2> QED BY <2>1, <2>2 DEF BlocksAgree
<1> QED BY <1>1, Invariance, PTL
================================================================================
