----------------------------- MODULE DataRingProofs -----------------------------
(***************************************************************************)
(* For rings, command queues, batches and pushes of any size: after every  *)
(* command the two ends of the data ring stand at the same position.  The  *)
(* argument follows the pushes: the layout of a header leads from the      *)
(* offset of the header before it to its own.                              *)
(*                                                                         *)
(* And: in a ring that takes all the words the command queue lets through, *)
(* no push goes over data the server has not processed, and no push makes  *)
(* the client wait.  Here words are counted: each command leads on by so   *)
(* many at most, and all of them, the server's and the client's own, fit   *)
(* on the ring at once.                                                    *)
(***************************************************************************)
EXTENDS DataRing, SequenceTheorems, FiniteSetTheorems, WellFoundedInduction, TLAPS

(* Headers on their way, as one queue. *)
Queue == inQueue \o unpublished

Headers == [id : Ids, layout : Seq(Pushes), dataOffset : Int]

(* NextPos in a ring of the given size, which no step changes. *)
NextIn(size, p, x) ==
  IF p.kind = "words" THEN (x + p.n) % size
  ELSE (IF ((x + 1) % size) + p.n >= size THEN 0 ELSE (x + 1) % size) + p.n

(* The pushes of l lead from position x to position y. *)
Leads(size, l, x, y) ==
  \E w \in [0..Len(l) -> Int] :
    w[0] = x /\ w[Len(l)] = y /\ \A i \in 1..Len(l) : w[i] = NextIn(size, l[i], w[i - 1])

(* Where the server is going to be after k more headers. *)
Base == IF serverPc = "read" THEN header.dataOffset ELSE serverPos
Offset(k) == IF k = 0 THEN Base ELSE Queue[k].dataOffset

(* Where the push under way is kept. *)
Pushing == {"wrap", "wrapped", "test", "reread", "retest", "overwrite", "wait", "waitForever", "granted", "write"}

RingType ==
  /\ ring \in Rings
  /\ unpublished \in Seq(Headers) /\ inQueue \in Seq(Headers)
  /\ Len(unpublished) + Len(inQueue) <= CmdCapacity
  /\ clientPos \in Int /\ serverPos \in Int
  /\ layout \in Seq(Pushes) /\ toRead \in Seq(Pushes) /\ header.dataOffset \in Int
  /\ clientPc # "idle" => id \in Ids
  /\ clientPc \in Pushing => push \in Pushes
  /\ resumeAt \in {"none", "wrapped", "write"}
  /\ clientPc \in {"overwrite", "wait", "waitForever", "granted"} => resumeAt # "none"

(* Every header leads from where the one before it ends to its own offset,  *)
(* the command being built from the last of them to the client's position,  *)
(* and what is left to read of the header in the server's hands from the    *)
(* server's position to the offset of that header.                          *)
OffsetInv ==
  /\ \A k \in 1..Len(Queue) : Leads(TotalSize, Queue[k].layout, Offset(k - 1), Queue[k].dataOffset)
  /\ Leads(TotalSize, layout, Offset(Len(Queue)), clientPos)
  /\ serverPc = "read" => Leads(TotalSize, toRead, serverPos, header.dataOffset)

IInv == RingType /\ OffsetInv

---------------------------------------------------------------------------
(* Positions *)

(* NextIn is NextPos. *)
LEMMA NextPosIn == \A p, x : NextPos(p, x) = NextIn(TotalSize, p, x)
BY DEF NextPos, NextIn, After, ensure_space

(* A position stays a number. *)
LEMMA NextIsInt ==
  ASSUME NEW size \in Nat \ {0}, NEW p, p.n \in Nat, NEW x \in Int
  PROVE  NextIn(size, p, x) \in Int
BY DEF NextIn

(* The sizes of a ring of the model, and the counts of its pushes. *)
LEMMA Sizes ==
  ASSUME RingType
  PROVE  /\ TotalSize \in Nat \ {0} /\ CmdCapacity \in Nat \ {0}
         /\ \A p \in Pushes : p.n \in Nat
<1>1. ring \in [TotalSize : Nat \ {0}, CmdCapacity : Nat \ {0}]
  BY RingAssumption DEF RingType
<1>2. TotalSize \in Nat \ {0} /\ CmdCapacity \in Nat \ {0}
  BY <1>1 DEF TotalSize, CmdCapacity
<1>3. Words \subseteq 1 .. ring.TotalSize /\ Blobs \subseteq 0 .. ring.TotalSize - 1
  BY RingAssumption DEF RingType
<1>4. Words \subseteq Nat /\ Blobs \subseteq Nat
  BY <1>1, <1>3
<1>5. ASSUME NEW p \in Pushes PROVE p.n \in Nat
  BY <1>4, <1>5 DEF Pushes
<1> QED
  BY <1>2, <1>5

(* No push leads nowhere. *)
LEMMA LeadsNone ==
  ASSUME NEW size, NEW x \in Int
  PROVE  Leads(size, <<>>, x, x)
<1> DEFINE w == [i \in 0..0 |-> x]
<1>1. w \in [0..Len(<<>>) -> Int] /\ w[0] = x /\ w[Len(<<>>)] = x
  OBVIOUS
<1>2. \A i \in 1..Len(<<>>) : w[i] = NextIn(size, <<>>[i], w[i - 1])
  OBVIOUS
<1> QED
  BY <1>1, <1>2 DEF Leads

(* ...and nowhere else. *)
LEMMA NoneLeads ==
  ASSUME NEW size, NEW x, NEW y, Leads(size, <<>>, x, y)
  PROVE  x = y
BY DEF Leads

(* One more push leads one step further. *)
LEMMA LeadsFurther ==
  ASSUME NEW size \in Nat \ {0}, NEW S, NEW l \in Seq(S), NEW p \in S, p.n \in Nat,
         NEW x \in Int, NEW y \in Int, Leads(size, l, x, y)
  PROVE  Leads(size, Append(l, p), x, NextIn(size, p, y))
<1>1. PICK w \in [0..Len(l) -> Int] :
        w[0] = x /\ w[Len(l)] = y /\ \A i \in 1..Len(l) : w[i] = NextIn(size, l[i], w[i - 1])
  BY DEF Leads
<1>2. Len(l) \in Nat /\ Len(Append(l, p)) = Len(l) + 1
  BY AppendProperties
<1>3. \A i \in 1..Len(l) + 1 : Append(l, p)[i] = IF i <= Len(l) THEN l[i] ELSE p
  BY AppendProperties
<1> DEFINE z == NextIn(size, p, y)
           v == [i \in 0..Len(l) + 1 |-> IF i <= Len(l) THEN w[i] ELSE z]
<1>4. z \in Int
  BY NextIsInt
<1> HIDE DEF z
<1>5. v \in [0..Len(l) + 1 -> Int] /\ v[0] = x /\ v[Len(l) + 1] = z
  BY <1>1, <1>2, <1>4
<1>6. ASSUME NEW i \in 1..Len(l) + 1 PROVE v[i] = NextIn(size, Append(l, p)[i], v[i - 1])
  <2>1. CASE i <= Len(l)
    <3>1. v[i] = w[i] /\ v[i - 1] = w[i - 1] /\ Append(l, p)[i] = l[i] /\ i \in 1..Len(l)
      BY <1>2, <1>3, <1>6, <2>1
    <3> HIDE DEF v
    <3> QED BY <1>1, <3>1
  <2>2. CASE i = Len(l) + 1
    <3>1. v[i] = z /\ v[i - 1] = y /\ Append(l, p)[i] = p
      BY <1>1, <1>2, <1>3, <2>2
    <3> HIDE DEF v
    <3> QED BY <3>1 DEF z
  <2> QED BY <1>2, <1>6, <2>1, <2>2
<1> HIDE DEF v
<1> QED
  BY <1>2, <1>5, <1>6 DEF Leads, z

(* Without its first push the rest leads on from there. *)
LEMMA LeadsOn ==
  ASSUME NEW size, NEW S, NEW l \in Seq(S), l # <<>>, NEW x, NEW y, Leads(size, l, x, y)
  PROVE  Leads(size, Tail(l), NextIn(size, Head(l), x), y)
<1>1. PICK w \in [0..Len(l) -> Int] :
        w[0] = x /\ w[Len(l)] = y /\ \A i \in 1..Len(l) : w[i] = NextIn(size, l[i], w[i - 1])
  BY DEF Leads
<1>2. /\ Len(l) \in Nat \ {0} /\ Len(Tail(l)) = Len(l) - 1 /\ Head(l) = l[1]
      /\ \A i \in 1..Len(Tail(l)) : Tail(l)[i] = l[i + 1]
  BY HeadTailProperties, EmptySeq
<1> DEFINE v == [i \in 0..Len(l) - 1 |-> w[i + 1]]
<1>3. v \in [0..Len(l) - 1 -> Int] /\ v[0] = w[1] /\ v[Len(l) - 1] = y
  BY <1>1, <1>2
<1>4. w[1] = NextIn(size, Head(l), x)
  BY <1>1, <1>2
<1>5. ASSUME NEW i \in 1..Len(Tail(l)) PROVE v[i] = NextIn(size, Tail(l)[i], v[i - 1])
  <2>1. /\ v[i] = w[i + 1] /\ v[i - 1] = w[i] /\ Tail(l)[i] = l[i + 1]
        /\ i + 1 \in 1..Len(l) /\ (i + 1) - 1 = i
    BY <1>2, <1>5
  <2>2. w[i + 1] = NextIn(size, l[i + 1], w[(i + 1) - 1])
    BY <1>1, <2>1
  <2> HIDE DEF v
  <2> QED BY <2>1, <2>2
<1> HIDE DEF v
<1> QED
  BY <1>2, <1>3, <1>4, <1>5 DEF Leads

---------------------------------------------------------------------------
(* The queue *)

(* Publishing moves headers from one part of the queue to the other. *)
LEMMA PublishQueue ==
  ASSUME RingType, ring' = ring, inQueue' = inQueue \o unpublished, unpublished' = <<>>
  PROVE  /\ Queue' = Queue /\ unpublished' \in Seq(Headers) /\ inQueue' \in Seq(Headers)
         /\ Len(unpublished') + Len(inQueue') <= CmdCapacity
<1>1. unpublished \in Seq(Headers) /\ inQueue \in Seq(Headers) /\ Len(unpublished) + Len(inQueue) <= CmdCapacity
  BY DEF RingType
<1>2. inQueue' \in Seq(Headers) /\ Len(inQueue') = Len(inQueue) + Len(unpublished)
  BY <1>1, ConcatProperties
<1>3. inQueue' \o <<>> = inQueue' /\ Len(<<>>) = 0 /\ Len(unpublished) \in Nat /\ Len(inQueue) \in Nat
  BY <1>1, <1>2, ConcatEmptySeq
<1> QED
  BY <1>1, <1>2, <1>3 DEF Queue

(* The header the server pulls is the first of the queue. *)
LEMMA PullQueue ==
  ASSUME RingType, inQueue # <<>>, inQueue' = Tail(inQueue), UNCHANGED unpublished
  PROVE  /\ Head(inQueue) \in Headers /\ Head(inQueue) = Queue[1] /\ inQueue' \in Seq(Headers)
         /\ Len(inQueue') = Len(inQueue) - 1 /\ Len(inQueue) \in Nat
         /\ Len(Queue) \in Nat \ {0} /\ Len(Queue') = Len(Queue) - 1
         /\ \A k \in 1..Len(Queue') : Queue'[k] = Queue[k + 1]
<1>1. unpublished \in Seq(Headers) /\ inQueue \in Seq(Headers) /\ Len(inQueue) \in Nat \ {0} /\ Len(unpublished) \in Nat
  BY EmptySeq DEF RingType
<1>2. /\ Head(inQueue) = inQueue[1] /\ Head(inQueue) \in Headers /\ inQueue' \in Seq(Headers)
      /\ Len(inQueue') = Len(inQueue) - 1 /\ \A i \in 1..Len(inQueue') : inQueue'[i] = inQueue[i + 1]
  BY <1>1, HeadTailProperties
<1>3. /\ Len(Queue) = Len(inQueue) + Len(unpublished)
      /\ \A i \in 1..Len(inQueue) + Len(unpublished) : Queue[i] = IF i <= Len(inQueue) THEN inQueue[i] ELSE unpublished[i - Len(inQueue)]
  BY <1>1, ConcatProperties DEF Queue
<1>4. /\ Len(Queue') = Len(inQueue') + Len(unpublished)
      /\ \A i \in 1..Len(inQueue') + Len(unpublished) : Queue'[i] = IF i <= Len(inQueue') THEN inQueue'[i] ELSE unpublished[i - Len(inQueue')]
  BY <1>1, <1>2, ConcatProperties DEF Queue
<1>5. Len(Queue) \in Nat \ {0} /\ Len(Queue') = Len(Queue) - 1
  BY <1>1, <1>2, <1>3, <1>4
<1>6. ASSUME NEW k \in 1..Len(Queue') PROVE Queue'[k] = Queue[k + 1]
  <2>1. k \in 1..Len(inQueue') + Len(unpublished) /\ k + 1 \in 1..Len(inQueue) + Len(unpublished)
    BY <1>1, <1>2, <1>3, <1>4, <1>5, <1>6
  <2>2. CASE k <= Len(inQueue')
    <3>1. Queue'[k] = inQueue'[k] /\ Queue[k + 1] = inQueue[k + 1]
      BY <1>1, <1>2, <1>3, <1>4, <2>1, <2>2
    <3> QED BY <1>1, <1>2, <2>2, <3>1
  <2>3. CASE k > Len(inQueue')
    <3>1. Queue'[k] = unpublished[k - Len(inQueue')] /\ Queue[k + 1] = unpublished[k + 1 - Len(inQueue)]
      BY <1>1, <1>2, <1>3, <1>4, <2>1, <2>3
    <3>2. k - Len(inQueue') = k + 1 - Len(inQueue)
      BY <1>1, <1>2, <2>1
    <3> QED BY <3>1, <3>2
  <2> QED BY <1>1, <1>2, <2>1, <2>2, <2>3
<1>7. Head(inQueue) = Queue[1]
  BY <1>1, <1>2, <1>3
<1> QED
  BY <1>1, <1>2, <1>5, <1>6, <1>7

(* The header the client pushes is the last, published or not. *)
LEMMA EndQueue ==
  ASSUME RingType, EndCommand, ring' = ring,
         NEW h \in Headers, h = [id |-> id, layout |-> layout, dataOffset |-> clientPos]
  PROVE  /\ unpublished' \in Seq(Headers) /\ inQueue' \in Seq(Headers)
         /\ Len(unpublished') + Len(inQueue') <= CmdCapacity
         /\ Len(Queue) \in Nat /\ Len(Queue') = Len(Queue) + 1
         /\ \A k \in 1..Len(Queue) + 1 : Queue'[k] = IF k <= Len(Queue) THEN Queue[k] ELSE h
<1>1. unpublished \in Seq(Headers) /\ inQueue \in Seq(Headers) /\ Len(unpublished) + Len(inQueue) < CmdCapacity
  BY DEF RingType, EndCommand
<1>2. Append(unpublished, h) = unpublished \o <<h>> /\ Append(unpublished, h) \in Seq(Headers) /\ Len(Append(unpublished, h)) = Len(unpublished) + 1
  BY <1>1, AppendIsConcat, AppendProperties
<1>3. /\ inQueue \o unpublished \in Seq(Headers) /\ Append(inQueue \o unpublished, h) = (inQueue \o unpublished) \o <<h>>
      /\ <<h>> \in Seq(Headers) /\ Len(inQueue \o unpublished) = Len(inQueue) + Len(unpublished)
  BY <1>1, AppendIsConcat, ConcatProperties
<1>4. (inQueue \o unpublished) \o <<h>> = inQueue \o (unpublished \o <<h>>)
  BY <1>1, <1>3, ConcatAssociative
<1>5. /\ inQueue \o Append(unpublished, h) \in Seq(Headers)
      /\ (inQueue \o Append(unpublished, h)) \o <<>> = inQueue \o Append(unpublished, h)
      /\ Len(inQueue \o Append(unpublished, h)) = Len(inQueue) + Len(unpublished) + 1
  BY <1>1, <1>2, ConcatProperties, ConcatEmptySeq
<1>6. \/ inQueue' = inQueue \o Append(unpublished, h) /\ unpublished' = <<>>
      \/ unpublished' = Append(unpublished, h) /\ inQueue' = inQueue
  BY DEF EndCommand
<1>7. CmdCapacity \in Nat /\ CmdCapacity' = CmdCapacity /\ Len(unpublished) \in Nat /\ Len(inQueue) \in Nat /\ Len(<<>>) = 0
  BY <1>1, Sizes DEF CmdCapacity
<1>8. Queue' = Append(Queue, h) /\ Queue \in Seq(Headers)
  BY <1>2, <1>3, <1>4, <1>5, <1>6 DEF Queue
<1>9. /\ Len(Queue) \in Nat /\ Len(Queue') = Len(Queue) + 1
      /\ \A k \in 1..Len(Queue) + 1 : Queue'[k] = IF k <= Len(Queue) THEN Queue[k] ELSE h
  BY <1>8, AppendProperties
<1>10. unpublished' \in Seq(Headers) /\ inQueue' \in Seq(Headers)
  <2>1. <<>> \in Seq(Headers)
    OBVIOUS
  <2> QED BY <1>1, <1>2, <1>5, <1>6, <2>1, Zenon
<1>11. Len(unpublished') + Len(inQueue') <= CmdCapacity
  BY <1>1, <1>2, <1>5, <1>6, <1>7
<1> QED
  BY <1>9, <1>10, <1>11

(* There is a tag that no outstanding command has. *)
LEMMA FreshTag ==
  ASSUME RingType
  PROVE  \E i \in Ids : i \notin Outstanding
<1> SUFFICES ASSUME \A i \in Ids : i \in Outstanding PROVE FALSE
  OBVIOUS
<1>1. /\ unpublished \in Seq(Headers) /\ inQueue \in Seq(Headers) /\ Len(unpublished) \in Nat /\ Len(inQueue) \in Nat
      /\ DOMAIN unpublished = 1..Len(unpublished) /\ DOMAIN inQueue = 1..Len(inQueue)
      /\ CmdCapacity \in Nat /\ Len(unpublished) + Len(inQueue) <= CmdCapacity
  BY Sizes, LenProperties DEF RingType
<1> DEFINE slots == 1..CmdCapacity + 1
           tag(k) == IF k <= Len(unpublished) THEN unpublished[k].id
                     ELSE IF k <= Len(unpublished) + Len(inQueue) THEN inQueue[k - Len(unpublished)].id ELSE header.id
           f == [i \in Ids |-> CHOOSE k \in slots : tag(k) = i]
<1>2. ASSUME NEW i \in Ids PROVE \E k \in slots : tag(k) = i
  <2>1. CASE \E j \in DOMAIN unpublished : i = unpublished[j].id
    <3>1. PICK j \in 1..Len(unpublished) : i = unpublished[j].id
      BY <1>1, <2>1
    <3>2. j \in slots /\ tag(j) = i
      BY <1>1, <3>1
    <3> HIDE DEF slots, tag
    <3> QED BY <3>2
  <2>2. CASE \E j \in DOMAIN inQueue : i = inQueue[j].id
    <3>1. PICK j \in 1..Len(inQueue) : i = inQueue[j].id
      BY <1>1, <2>2
    <3>2. j + Len(unpublished) \in slots /\ ~(j + Len(unpublished) <= Len(unpublished)) /\ j + Len(unpublished) <= Len(unpublished) + Len(inQueue) /\ (j + Len(unpublished)) - Len(unpublished) = j
      BY <1>1, <3>1
    <3>3. tag(j + Len(unpublished)) = i
      BY <3>1, <3>2
    <3> HIDE DEF slots, tag
    <3> QED BY <3>2, <3>3
  <2>3. CASE i = header.id
    <3>1. CmdCapacity + 1 \in slots /\ tag(CmdCapacity + 1) = i
      BY <1>1, <2>3
    <3> HIDE DEF slots, tag
    <3> QED BY <3>1
  <2> QED BY <2>1, <2>2, <2>3 DEF Outstanding
<1> HIDE DEF tag
<1>3. \A i \in Ids : f[i] \in slots /\ tag(f[i]) = i
  BY <1>2
<1>4. f \in [Ids -> slots]
  BY <1>3
<1>5. IsFiniteSet(Ids) /\ Cardinality(Ids) = CmdCapacity + 2
  BY <1>1, FS_Interval DEF Ids
<1>6. IsFiniteSet(slots) /\ Cardinality(slots) = CmdCapacity + 1
  BY <1>1, FS_Interval
<1> HIDE DEF slots, f
<1>7. \E i, j \in Ids : i # j /\ f[i] = f[j]
  BY <1>1, <1>4, <1>5, <1>6, FS_PigeonHole
<1> QED
  BY <1>3, <1>7

---------------------------------------------------------------------------
(* The invariant *)

(* Nothing is on its way at the start. *)
LEMMA InitIInv == InitRing => IInv
<1> SUFFICES ASSUME InitRing PROVE IInv
  OBVIOUS
<1>1. Queue = <<>> /\ Len(Queue) = 0
  BY ConcatEmptySeq DEF InitRing, Queue
<1>2. RingType
  <2>1. ring \in Rings /\ ring.CmdCapacity \in Nat \ {0}
    BY RingAssumption DEF InitRing
  <2> QED BY <2>1 DEF InitRing, RingType, CmdCapacity, NoHeader, Pushing
<1>3. Leads(TotalSize, <<>>, 0, 0)
  BY LeadsNone
<1>4. OffsetInv
  BY <1>1, <1>3 DEF InitRing, OffsetInv, Offset, Base
<1> QED
  BY <1>2, <1>4 DEF IInv

(* A step that moves neither end and adds no header. *)
LEMMA OffsetsKept ==
  ASSUME OffsetInv, ring' = ring, Queue' = Queue, UNCHANGED <<layout, clientPos>>, Base' = Base,
         serverPc' = "read" => serverPc = "read" /\ UNCHANGED <<toRead, serverPos, header>>
  PROVE  OffsetInv'
<1>1. TotalSize' = TotalSize /\ \A k \in 0..Len(Queue) : Offset(k)' = Offset(k)
  BY DEF TotalSize, Offset
<1> QED
  BY <1>1 DEF OffsetInv, Offset

(* The client. *)
LEMMA ClientIInv ==
  ASSUME IInv, Client, ring' = ring
  PROVE  IInv'
<1> USE DEF clientRingVars, serverRingVars, syncVars
<1>1. RingType /\ OffsetInv /\ TotalSize' = TotalSize /\ CmdCapacity' = CmdCapacity
  BY DEF IInv, TotalSize, CmdCapacity
<1>2. Headers' = Headers /\ Ids' = Ids
  BY <1>1 DEF Headers, Ids
<1>3. CASE BeginCommand
  <2>1. id' \in Ids
    BY <1>1, <1>3, FreshTag DEF BeginCommand
  <2>2. RingType'
    BY <1>1, <1>2, <1>3, <2>1 DEF BeginCommand, RingType, Pushing
  <2>3. OffsetInv'
    BY <1>1, <1>3, OffsetsKept DEF BeginCommand, Queue, Base
  <2> QED BY <2>2, <2>3 DEF IInv
<1>4. ASSUME NEW p \in Pushes, Send(p) PROVE IInv'
  <2>1. RingType'
    BY <1>1, <1>2, <1>4 DEF Send, RingType, Pushing
  <2>2. OffsetInv'
    BY <1>1, <1>4, OffsetsKept DEF Send, Queue, Base
  <2> QED BY <2>1, <2>2 DEF IInv
<1>5. CASE Wrap \/ Wrapped \/ Test \/ Reread \/ Retest \/ Granted \/ RetriesExhausted \/ ResumePush
  <2>1. /\ UNCHANGED <<unpublished, inQueue, clientPos, serverPos, layout, toRead, header, serverPc, id,
                       push>>
        /\ clientPc \in Pushing /\ clientPc' \in Pushing /\ resumeAt' \in {"none", "wrapped", "write"}
        /\ clientPc' \in {"overwrite", "wait", "waitForever", "granted"} => resumeAt' # "none"
    BY <1>1, <1>5 DEF Wrap, Wrapped, Test, Reread, Retest, Granted, RetriesExhausted, ResumePush, Waits, RingType, Pushing
  <2>2. clientPc # "idle" /\ clientPc' # "idle"
    BY <2>1 DEF Pushing
  <2>3. RingType'
    BY <1>1, <1>2, <2>1, <2>2 DEF RingType
  <2>4. OffsetInv'
    BY <1>1, <2>1, OffsetsKept DEF Queue, Base
  <2> QED BY <2>3, <2>4 DEF IInv
<1>6. CASE RequestSpace \/ FlushBatch
  <2>1. /\ UNCHANGED <<clientPos, serverPos, layout, toRead, header, serverPc, id, push, resumeAt>>
        /\ \/ clientPc' = clientPc
           \/ clientPc = "overwrite" /\ clientPc' \in {"exited", "wait", "waitForever"}
    BY <1>6 DEF RequestSpace, FlushBatch, Waits
  <2>2. \/ UNCHANGED <<unpublished, inQueue>>
        \/ inQueue' = inQueue \o unpublished /\ unpublished' = <<>>
    BY <1>6 DEF RequestSpace, FlushBatch
  <2>3. Queue' = Queue /\ unpublished' \in Seq(Headers) /\ inQueue' \in Seq(Headers) /\ Len(unpublished') + Len(inQueue') <= CmdCapacity
    BY <1>1, <2>2, PublishQueue DEF RingType, Queue
  <2>4. RingType'
    BY <1>1, <1>2, <2>1, <2>3 DEF RingType, Pushing
  <2>5. OffsetInv'
    BY <1>1, <2>1, <2>3, OffsetsKept DEF Base
  <2> QED BY <2>4, <2>5 DEF IInv
<1>7. CASE Write
  <2>1. /\ UNCHANGED <<unpublished, inQueue, serverPos, toRead, header, serverPc, id>> /\ push \in Pushes /\ clientPc = "write" /\ clientPc' = "command"
        /\ layout' = Append(layout, push) /\ clientPos' = NextIn(TotalSize, push, clientPos) /\ resumeAt' = "none"
    BY <1>1, <1>7, NextPosIn DEF Write, RingType, Pushing
  <2>2. /\ TotalSize \in Nat \ {0} /\ push.n \in Nat /\ clientPos \in Int /\ layout \in Seq(Pushes)
        /\ Len(Queue) \in Nat /\ Offset(Len(Queue)) \in Int
    <3>1. TotalSize \in Nat \ {0} /\ push.n \in Nat
      BY <1>1, <2>1, Sizes
    <3>2. Queue \in Seq(Headers) /\ Base \in Int
      BY <1>1, ConcatProperties DEF RingType, Queue, Base
    <3>3. Len(Queue) \in Nat /\ (Len(Queue) # 0 => Queue[Len(Queue)] \in Headers)
      BY <3>2
    <3>4. Offset(Len(Queue)) \in Int
      BY <3>2, <3>3 DEF Offset, Headers
    <3> QED BY <1>1, <3>1, <3>3, <3>4 DEF RingType
  <2>3. clientPos' \in Int /\ layout' \in Seq(Pushes)
    BY <2>1, <2>2, NextIsInt, AppendProperties
  <2>4. RingType'
    BY <1>1, <1>2, <2>1, <2>3 DEF RingType, Pushing
  <2>5. Leads(TotalSize, layout', Offset(Len(Queue)), clientPos')
    BY <1>1, <2>1, <2>2, LeadsFurther DEF OffsetInv
  <2>6. Queue' = Queue /\ \A k \in 0..Len(Queue) : Offset(k)' = Offset(k)
    BY <2>1 DEF Queue, Offset, Base
  <2>7. Offset(Len(Queue))' = Offset(Len(Queue))
    BY <2>2, <2>6
  <2>8. \A k \in 1..Len(Queue) : Offset(k - 1)' = Offset(k - 1)
    BY <2>2, <2>6
  <2>9. OffsetInv'
    BY <1>1, <2>1, <2>5, <2>6, <2>7, <2>8 DEF OffsetInv
  <2> QED BY <2>4, <2>9 DEF IInv
<1>8. CASE EndCommand
  <2> DEFINE h == [id |-> id, layout |-> layout, dataOffset |-> clientPos]
  <2>1. h \in Headers /\ h.layout = layout /\ h.dataOffset = clientPos
    BY <1>1, <1>8 DEF Headers, RingType, EndCommand
  <2> HIDE DEF h
  <2>2. /\ unpublished' \in Seq(Headers) /\ inQueue' \in Seq(Headers)
        /\ Len(unpublished') + Len(inQueue') <= CmdCapacity
        /\ Len(Queue) \in Nat /\ Len(Queue') = Len(Queue) + 1
        /\ \A k \in 1..Len(Queue) + 1 : Queue'[k] = IF k <= Len(Queue) THEN Queue[k] ELSE h
    BY <1>1, <1>8, <2>1, EndQueue DEF h
  <2>3. /\ UNCHANGED <<clientPos, serverPos, toRead, header, serverPc, push, resumeAt>>
        /\ layout' = <<>> /\ clientPc' = "idle" /\ clientPc = "command"
    BY <1>8 DEF EndCommand
  <2>4. RingType'
    BY <1>1, <1>2, <2>2, <2>3 DEF RingType, Pushing
  <2>5. ASSUME NEW k \in 0..Len(Queue) PROVE Offset(k)' = Offset(k)
    BY <2>2, <2>3, <2>5 DEF Offset, Base
  <2>6. ASSUME NEW k \in 1..Len(Queue')
        PROVE  Leads(TotalSize, Queue'[k].layout, Offset(k - 1)', Queue'[k].dataOffset)
    <3>1. CASE k <= Len(Queue)
      <4>1. Queue'[k] = Queue[k] /\ Offset(k - 1)' = Offset(k - 1) /\ k \in 1..Len(Queue)
        BY <2>2, <2>5, <2>6, <3>1
      <4> QED BY <1>1, <4>1 DEF OffsetInv
    <3>2. CASE k = Len(Queue) + 1
      <4>1. Queue'[k] = h /\ k - 1 = Len(Queue) /\ Offset(k - 1)' = Offset(Len(Queue))
        BY <2>2, <2>5, <3>2
      <4> QED BY <1>1, <2>1, <4>1 DEF OffsetInv
    <3> QED BY <2>2, <2>6, <3>1, <3>2
  <2>7. Leads(TotalSize, layout', Offset(Len(Queue))', clientPos')
    <3>1. Queue'[Len(Queue')] = h /\ Len(Queue') # 0
      BY <2>2
    <3>2. Offset(Len(Queue))' = clientPos
      BY <2>1, <3>1 DEF Offset
    <3>3. clientPos \in Int
      BY <1>1 DEF RingType
    <3> QED BY <2>3, <3>2, <3>3, LeadsNone
  <2>8. OffsetInv'
    BY <1>1, <2>3, <2>6, <2>7 DEF OffsetInv
  <2> QED BY <2>4, <2>8 DEF IInv
<1> QED
  BY <1>3, <1>4, <1>5, <1>6, <1>7, <1>8 DEF Client

(* The server. *)
LEMMA ServerIInv ==
  ASSUME IInv, Server, ring' = ring
  PROVE  IInv'
<1> USE DEF clientRingVars, serverRingVars, syncVars
<1>1. RingType /\ OffsetInv /\ TotalSize' = TotalSize /\ CmdCapacity' = CmdCapacity
  BY DEF IInv, TotalSize, CmdCapacity
<1>2. Headers' = Headers /\ Ids' = Ids
  BY <1>1 DEF Headers, Ids
<1>3. CASE PopHeader
  <2>1. /\ UNCHANGED <<unpublished, clientPos, layout, push, resumeAt, clientPc, id, serverPos>>
        /\ inQueue # <<>> /\ inQueue' = Tail(inQueue) /\ serverPc = "idle" /\ serverPc' = "read"
        /\ header' = Head(inQueue) /\ toRead' = Head(inQueue).layout
    BY <1>3 DEF PopHeader
  <2>2. /\ Head(inQueue) \in Headers /\ Head(inQueue) = Queue[1] /\ inQueue' \in Seq(Headers)
        /\ Len(inQueue') = Len(inQueue) - 1 /\ Len(inQueue) \in Nat
        /\ Len(Queue) \in Nat \ {0} /\ Len(Queue') = Len(Queue) - 1
        /\ \A k \in 1..Len(Queue') : Queue'[k] = Queue[k + 1]
    BY <1>1, <2>1, PullQueue
  <2>3. header' \in Headers /\ header'.dataOffset \in Int /\ toRead' \in Seq(Pushes)
    BY <2>1, <2>2 DEF Headers
  <2>4. Len(unpublished') + Len(inQueue') <= CmdCapacity
    <3>1. Len(unpublished) + Len(inQueue) <= CmdCapacity /\ Len(unpublished) \in Nat /\ CmdCapacity \in Nat
      BY <1>1, Sizes DEF RingType
    <3> QED BY <2>1, <2>2, <3>1
  <2>5. RingType'
    BY <1>1, <1>2, <2>1, <2>2, <2>3, <2>4 DEF RingType
  <2>6. ASSUME NEW k \in 0..Len(Queue') PROVE Offset(k)' = Offset(k + 1)
    <3>1. CASE k = 0
      BY <2>1, <2>2, <3>1 DEF Offset, Base
    <3>2. CASE k # 0
      BY <2>2, <2>6, <3>2 DEF Offset
    <3> QED BY <3>1, <3>2
  <2>7. ASSUME NEW k \in 1..Len(Queue')
        PROVE  Leads(TotalSize, Queue'[k].layout, Offset(k - 1)', Queue'[k].dataOffset)
    <3>1. /\ Queue'[k] = Queue[k + 1] /\ k + 1 \in 1..Len(Queue) /\ Offset(k - 1)' = Offset((k - 1) + 1)
          /\ (k - 1) + 1 = (k + 1) - 1
      BY <2>2, <2>6, <2>7
    <3> QED BY <1>1, <3>1 DEF OffsetInv
  <2>8. Leads(TotalSize, layout', Offset(Len(Queue))', clientPos')
    <3>1. Offset(Len(Queue))' = Offset(Len(Queue))
      <4>1. Len(Queue') \in 0..Len(Queue') /\ Len(Queue') + 1 = Len(Queue)
        BY <2>2
      <4>2. CASE Len(Queue') = 0
        BY <2>1, <2>2, <4>1, <4>2 DEF Offset, Base
      <4>3. CASE Len(Queue') # 0
        BY <2>2, <4>1, <4>3 DEF Offset
      <4> QED BY <4>2, <4>3
    <3> QED BY <1>1, <2>1, <3>1 DEF OffsetInv
  <2>9. Leads(TotalSize, toRead', serverPos', header'.dataOffset)
    <3>1. Offset(1 - 1) = serverPos /\ 1 \in 1..Len(Queue)
      BY <2>1, <2>2 DEF Offset, Base
    <3>2. Leads(TotalSize, Queue[1].layout, Offset(1 - 1), Queue[1].dataOffset)
      BY <1>1, <3>1 DEF OffsetInv
    <3> QED BY <2>1, <2>2, <3>1, <3>2
  <2>10. OffsetInv'
    BY <1>1, <2>7, <2>8, <2>9 DEF OffsetInv
  <2> QED BY <2>5, <2>10 DEF IInv
<1>4. CASE Pull
  <2>1. /\ UNCHANGED <<unpublished, inQueue, clientPos, layout, push, resumeAt, clientPc, id, header,
                       serverPc>>
        /\ serverPc = "read" /\ toRead # <<>> /\ toRead' = Tail(toRead)
        /\ serverPos' = NextIn(TotalSize, Head(toRead), serverPos)
    BY <1>4, NextPosIn DEF Pull
  <2>2. toRead \in Seq(Pushes) /\ Head(toRead) \in Pushes /\ serverPos \in Int
    BY <1>1, <2>1 DEF RingType
  <2>3. serverPos' \in Int /\ toRead' \in Seq(Pushes)
    BY <1>1, <2>1, <2>2, NextIsInt, Sizes, HeadTailProperties
  <2>4. RingType'
    BY <1>1, <1>2, <2>1, <2>3 DEF RingType
  <2>5. Leads(TotalSize, toRead', serverPos', header.dataOffset)
    BY <1>1, <2>1, <2>2, LeadsOn DEF OffsetInv
  <2>6. Queue' = Queue /\ \A k \in 0..Len(Queue) : Offset(k)' = Offset(k)
    BY <2>1 DEF Queue, Offset, Base
  <2>7. Len(Queue) \in Nat
    BY <1>1, ConcatProperties DEF RingType, Queue
  <2>8. Offset(Len(Queue))' = Offset(Len(Queue)) /\ \A k \in 1..Len(Queue) : Offset(k - 1)' = Offset(k - 1)
    BY <2>6, <2>7
  <2>9. OffsetInv'
    BY <1>1, <2>1, <2>5, <2>6, <2>8 DEF OffsetInv
  <2> QED BY <2>4, <2>9 DEF IInv
<1>5. CASE Processed
  <2>1. /\ UNCHANGED <<unpublished, inQueue, clientPos, layout, push, resumeAt, clientPc, id, header,
                       serverPos, toRead>>
        /\ serverPc = "read" /\ toRead = <<>> /\ serverPc' = "check"
    BY <1>5 DEF Processed
  <2>2. RingType'
    BY <1>1, <1>2, <2>1 DEF RingType
  <2>3. serverPos = header.dataOffset
    BY <1>1, <2>1, NoneLeads DEF OffsetInv
  <2>4. Base' = Base /\ Queue' = Queue
    BY <2>1, <2>3 DEF Base, Queue
  <2>5. OffsetInv'
    BY <1>1, <2>1, <2>4, OffsetsKept
  <2> QED BY <2>2, <2>5 DEF IInv
<1>6. CASE CheckRequest \/ Compare \/ ClearRequest
  <2>1. /\ UNCHANGED <<unpublished, inQueue, clientPos, layout, push, resumeAt, clientPc, id, serverPos,
                       toRead>>
        /\ serverPc # "read" /\ serverPc' # "read" /\ header' \in {header, NoHeader}
    BY <1>6 DEF CheckRequest, Compare, ClearRequest
  <2>2. header'.dataOffset \in Int
    BY <1>1, <2>1 DEF RingType, NoHeader
  <2>3. RingType'
    BY <1>1, <1>2, <2>1, <2>2 DEF RingType
  <2>4. Base' = Base /\ Queue' = Queue
    BY <2>1 DEF Base, Queue
  <2>5. OffsetInv'
    BY <1>1, <2>1, <2>4, OffsetsKept
  <2> QED BY <2>3, <2>5 DEF IInv
<1> QED
  BY <1>3, <1>4, <1>5, <1>6 DEF Server

(* Every step keeps the invariant. *)
LEMMA NextIInv == IInv /\ [RingNext]_ringVars => IInv'
<1> SUFFICES ASSUME IInv, [RingNext]_ringVars PROVE IInv'
  OBVIOUS
<1>1. CASE UNCHANGED ringVars
  <2>1. UNCHANGED <<ring, unpublished, inQueue, clientPos, layout, push, resumeAt, clientPc, id, header,
                    serverPos, toRead, serverPc>>
    BY <1>1 DEF ringVars, clientRingVars, serverRingVars
  <2>2. Headers' = Headers /\ Ids' = Ids /\ CmdCapacity' = CmdCapacity
    BY <2>1 DEF Headers, Ids, CmdCapacity
  <2>3. RingType'
    BY <2>1, <2>2 DEF IInv, RingType
  <2>4. OffsetInv'
    BY <2>1, OffsetsKept DEF IInv, Queue, Base
  <2> QED BY <2>3, <2>4 DEF IInv
<1>2. CASE RingNext
  BY <1>2, ClientIInv, ServerIInv DEF RingNext
<1> QED
  BY <1>1, <1>2

(* When the server has read everything a header announces, it stands where  *)
(* the client stood when it sent the header: CHECK_DATA_OFFSET never fails, *)
(* whatever the sizes, whichever pushes roll over and however late headers  *)
(* are published.                                                           *)
THEOREM OffsetsAgree == RingSpec => []PositionsAgree
<1>1. IInv => PositionsAgree
  BY NoneLeads DEF IInv, OffsetInv, PositionsAgree
<1> QED
  BY InitIInv, NextIInv, <1>1, PTL DEF RingSpec

---------------------------------------------------------------------------
(* A ring that is wide enough *)

(* The pushes of the model fit, as the code requires. *)
LEMMA PushSizes ==
  ASSUME RingType, NEW p \in Pushes
  PROVE  \/ p.kind = "words" /\ p.n \in 1..TotalSize
         \/ p.kind = "blob" /\ p.n \in 0..TotalSize - 1
<1>1. Words \subseteq 1 .. ring.TotalSize /\ Blobs \subseteq 0 .. ring.TotalSize - 1
  BY RingAssumption DEF RingType
<1> QED
  BY <1>1 DEF Pushes, TotalSize

(* The longest push, the words a roll-over leaves unused and the longest    *)
(* command, at most.                                                        *)
Longest == Max({MemUsed(p) : p \in Pushes})
Skipped == Max(Blobs)
Command == MaxPushes * Longest

(* The numbers are well-founded... *)
LEMMA LessWF == IsWellFoundedOn({p \in Nat \X Nat : p[1] < p[2]}, Nat)
  BY NatLessThanWellFounded DEF OpToRel

(* ...so a set of them with a bound has a largest. *)
LEMMA BoundedMax ==
  ASSUME NEW S \in SUBSET Nat, S # {}, NEW b \in Nat, \A x \in S : x <= b
  PROVE  Max(S) \in S /\ \A x \in S : x <= Max(S)
<1> DEFINE U == {n \in Nat : b - n \in S}
           R == {p \in Nat \X Nat : p[1] < p[2]}
<1>1. U # {}
  <2>1. PICK x \in S : TRUE
    OBVIOUS
  <2>2. b - x \in Nat /\ b - (b - x) = x
    BY <2>1
  <2>3. b - x \in U
    BY <2>1, <2>2
  <2> QED BY <2>3
<1>2. \E m \in U : \A y \in U : ~(<<y, m>> \in R)
  <2>1. U \subseteq Nat /\ IsWellFoundedOn(R, Nat)
    BY LessWF
  <2> HIDE DEF U, R
  <2> QED BY <1>1, <2>1, WFMin, Zenon
<1>3. PICK m \in U : \A y \in U : ~(<<y, m>> \in R)
  BY <1>2
<1>4. m \in Nat /\ b - m \in S /\ b - m \in Nat
  OBVIOUS
<1>5. ASSUME NEW x \in S PROVE x <= b - m
  <2>1. x \in Nat /\ x <= b /\ b - x \in Nat /\ b - (b - x) = x
    OBVIOUS
  <2>2. b - x \in U
    BY <2>1
  <2>3. ~(b - x < m)
    BY <1>3, <1>4, <2>1, <2>2
  <2> QED BY <1>4, <2>1, <2>3
<1>6. \E x \in S : \A y \in S : x >= y
  BY <1>4, <1>5
<1>7. Max(S) \in S /\ \A y \in S : Max(S) >= y
  BY <1>6 DEF Max
<1> QED BY <1>7

(* No push is longer than the longest, no blob than the longest blob. *)
LEMMA LongestIs ==
  ASSUME RingType
  PROVE  /\ Longest \in Nat /\ Skipped \in Nat /\ MaxPushes \in Nat
         /\ \A p \in Pushes : MemUsed(p) \in Nat \ {0} /\ MemUsed(p) <= Longest
         /\ \A p \in Pushes : p.kind = "blob" => p.n <= Skipped
<1>1. TotalSize \in Nat \ {0}
  BY Sizes
<1>2. Words \subseteq 1..TotalSize /\ Blobs \subseteq 0..TotalSize - 1 /\ Blobs # {} /\ MaxPushes \in Nat
  BY RingAssumption DEF RingType, TotalSize
<1>3. ASSUME NEW p \in Pushes
      PROVE  /\ MemUsed(p) \in Nat \ {0} /\ MemUsed(p) <= TotalSize
             /\ p.kind = "blob" => p.n \in Blobs
  <2>1. (p.kind = "words" /\ p.n \in Words) \/ (p.kind = "blob" /\ p.n \in Blobs)
    BY DEF Pushes
  <2>2. CASE p.kind = "words" /\ p.n \in Words
    <3>1. p.n \in 1..TotalSize /\ MemUsed(p) = p.n /\ p.kind # "blob"
      BY <1>2, <2>2 DEF MemUsed
    <3> QED BY <1>1, <3>1
  <2>3. CASE p.kind = "blob" /\ p.n \in Blobs
    <3>1. p.n \in 0..TotalSize - 1 /\ MemUsed(p) = p.n + 1
      BY <1>2, <2>3 DEF MemUsed
    <3> QED BY <1>1, <2>3, <3>1
  <2> QED BY <2>1, <2>2, <2>3
<1> DEFINE S == {MemUsed(p) : p \in Pushes}
<1>4. S \in SUBSET Nat /\ \A x \in S : x <= TotalSize
  BY <1>3
<1>5. S # {}
  <2>1. PICK n \in Blobs : TRUE
    BY <1>2
  <2>2. [kind |-> "blob", n |-> n] \in Pushes
    BY <2>1 DEF Pushes
  <2>3. MemUsed([kind |-> "blob", n |-> n]) \in S
    BY <2>2
  <2> QED BY <2>3
<1>6. Longest \in S /\ \A x \in S : x <= Longest
  <2> HIDE DEF S
  <2>1. Max(S) \in S /\ \A x \in S : x <= Max(S)
    BY <1>1, <1>4, <1>5, BoundedMax
  <2> QED BY <2>1 DEF S, Longest
<1>7. Skipped \in Blobs /\ \A x \in Blobs : x <= Skipped
  <2>1. Blobs \in SUBSET Nat /\ \A x \in Blobs : x <= TotalSize
    BY <1>1, <1>2
  <2> QED BY <1>1, <1>2, <2>1, BoundedMax DEF Skipped
<1>8. Longest \in Nat /\ Skipped \in Nat
  BY <1>1, <1>2, <1>4, <1>6, <1>7
<1>9. \A p \in Pushes : MemUsed(p) <= Longest
  BY <1>6
<1> QED BY <1>2, <1>3, <1>7, <1>8, <1>9

(* A wide ring takes all commands there can be, and unused words once.      *)
LEMMA WideIs ==
  ASSUME RingType, Wide
  PROVE  /\ Command \in Nat /\ CmdCapacity \in Nat \ {0}
         /\ (CmdCapacity + 2) * Command + Skipped <= TotalSize
         /\ 3 * Command + Skipped <= TotalSize
<1>1. /\ Longest \in Nat /\ Skipped \in Nat /\ MaxPushes \in Nat
      /\ TotalSize \in Nat \ {0} /\ CmdCapacity \in Nat \ {0}
  BY LongestIs, Sizes
<1>2. TotalSize >= (CmdCapacity + 2) * MaxPushes * Longest + Skipped
  BY DEF Wide, Longest, Skipped
<1> HIDE DEF Longest, Skipped
<1>3. Command \in Nat /\ (CmdCapacity + 2) * MaxPushes * Longest = (CmdCapacity + 2) * Command
  BY <1>1 DEF Command
<1>4. \A n \in Nat, c \in Nat \ {0} : 3 * n <= (c + 2) * n
  <2> SUFFICES ASSUME NEW n \in Nat, NEW c \in Nat \ {0} PROVE 3 * n <= (c + 2) * n
    OBVIOUS
  <2>1. (c + 2) * n = 3 * n + (c - 1) * n
    OBVIOUS
  <2>2. (c - 1) * n \in Nat
    <3>1. c - 1 \in Nat OBVIOUS
    <3> QED BY <3>1
  <2> QED BY <2>1, <2>2
<1>5. 3 * Command <= (CmdCapacity + 2) * Command /\ (CmdCapacity + 2) * Command \in Nat
  BY <1>1, <1>3, <1>4
<1> QED BY <1>1, <1>2, <1>3, <1>5

(* Words pushed from x on lead to y: straight on, or over the end, where    *)
(* at most a blob's words are left unused.                                  *)
Advances(size, x, y, c) ==
  \/ x <= y /\ y <= x + c
  \/ y < c /\ size <= x + c /\ y + size <= x + c + Skipped

(* p is one of the words from x to y.                                       *)
Between(x, y, p) == IF x <= y THEN x <= p /\ p < y ELSE x <= p \/ p < y

(* A push of m words from x to y, and the places it is at.                  *)
Step(size, p, x, y) ==
  LET m == MemUsed(p) IN
  \/ y = x + m
  \/ y < m /\ size <= x + m /\ y + size <= x + m + Skipped

(* NextIn is such a step. *)
LEMMA StepIs ==
  ASSUME NEW size \in Nat \ {0}, NEW p, Skipped \in Nat,
         \/ p.kind = "words" /\ p.n \in 1..size - 1
         \/ p.kind = "blob" /\ p.n \in 0..size - 1 /\ p.n <= Skipped,
         NEW x \in 0..size - 1
  PROVE  NextIn(size, p, x) \in 0..size - 1 /\ Step(size, p, x, NextIn(size, p, x))
<1>0. \A a \in 0..size - 1 : a % size = a
  OBVIOUS
<1>1. \A a \in size..2 * size - 1 : a % size = a - size
  OBVIOUS
<1>3. CASE p.kind = "words" /\ p.n \in 1..size - 1
  <2>1. NextIn(size, p, x) = (x + p.n) % size /\ MemUsed(p) = p.n
    BY <1>3 DEF NextIn, MemUsed
  <2>2. CASE x + p.n < size
    <3>1. (x + p.n) % size = x + p.n
      BY <1>0, <1>3, <2>2
    <3> QED BY <1>3, <2>1, <2>2, <3>1 DEF Step
  <2>3. CASE x + p.n >= size
    <3>1. (x + p.n) % size = x + p.n - size
      BY <1>1, <1>3, <2>3
    <3> QED BY <1>3, <2>1, <2>3, <3>1 DEF Step
  <2> QED BY <1>3, <2>2, <2>3
<1>4. CASE p.kind = "blob" /\ p.n \in 0..size - 1 /\ p.n <= Skipped
  <2> DEFINE a == (x + 1) % size
  <2>1. NextIn(size, p, x) = (IF a + p.n >= size THEN 0 ELSE a) + p.n /\ MemUsed(p) = p.n + 1
    BY <1>4 DEF NextIn, MemUsed
  <2>2. x + 1 < size => a = x + 1
    BY <1>0
  <2>3. x + 1 = size => a = 0
    BY <1>1
  <2> HIDE DEF a
  <2> QED BY <1>4, <2>1, <2>2, <2>3 DEF Step
<1> QED BY <1>3, <1>4

(* ...and a step leads on by the words of the push. *)
LEMMA StepAdvances ==
  ASSUME NEW size \in Nat, NEW p, MemUsed(p) \in Nat, NEW x \in Nat, NEW y \in Nat, Step(size, p, x, y)
  PROVE  Advances(size, x, y, MemUsed(p))
BY DEF Step, Advances

(* The words of a push.                                                     *)
LEMMA PlacesAre ==
  ASSUME NEW p, Skipped \in Nat, TotalSize \in Nat \ {0},
         \/ p.kind = "words" /\ p.n \in 1..TotalSize - 1
         \/ p.kind = "blob" /\ p.n \in 0..TotalSize - 1,
         NEW x \in Pos, NEW q \in Places(p, x)
  PROVE  \/ x <= q /\ q < x + MemUsed(p)
         \/ NextPos(p, x) < MemUsed(p) /\ TotalSize <= x + MemUsed(p) /\ q < NextPos(p, x)
<1> DEFINE size == TotalSize
<1>0. \A a \in 0..size - 1 : a % size = a
  BY DEF Pos
<1>1. \A a \in size..2 * size - 1 : a % size = a - size
  BY DEF Pos
<1>2. x \in 0..size - 1
  BY DEF Pos
<1>3. CASE p.kind = "words" /\ p.n \in 1..size - 1
  <2>1. PICK k \in 0..p.n - 1 : q = (x + k) % size
    BY <1>3 DEF Places, After
  <2>2. NextPos(p, x) = (x + p.n) % size /\ MemUsed(p) = p.n
    BY <1>3 DEF NextPos, MemUsed, After
  <2>3. CASE x + k < size
    <3>1. q = x + k
      BY <1>0, <1>2, <1>3, <2>1, <2>3
    <3> QED BY <1>2, <1>3, <2>1, <2>2, <3>1
  <2>4. CASE x + k >= size
    <3>1. q = x + k - size
      BY <1>1, <1>2, <1>3, <2>1, <2>4
    <3>2. (x + p.n) % size = x + p.n - size
      BY <1>1, <1>2, <1>3, <2>1, <2>4
    <3> QED BY <1>2, <1>3, <2>1, <2>2, <2>4, <3>1, <3>2
  <2> QED BY <1>2, <1>3, <2>1, <2>3, <2>4
<1>4. CASE p.kind = "blob" /\ p.n \in 0..size - 1
  <2> DEFINE a == (x + 1) % size
             base == IF a + p.n >= size THEN 0 ELSE a
  <2>1. /\ NextPos(p, x) = base + p.n /\ MemUsed(p) = p.n + 1
        /\ q = x \/ \E k \in 0..p.n - 1 : q = base + k
    BY <1>4 DEF NextPos, MemUsed, Places, After, ensure_space
  <2>2. x + 1 < size => a = x + 1
    BY <1>0, <1>2
  <2>3. x + 1 = size => a = 0
    BY <1>1, <1>2
  <2>4. CASE q = x
    BY <1>2, <1>4, <2>1, <2>4
  <2>5. CASE \E k \in 0..p.n - 1 : q = base + k
    <3>1. PICK k \in 0..p.n - 1 : q = base + k
      BY <2>5
    <3> HIDE DEF a
    <3> QED BY <1>2, <1>4, <2>1, <2>2, <2>3, <3>1
  <2> QED BY <2>1, <2>4, <2>5
<1> QED BY <1>3, <1>4

(* No words lead nowhere, *)
LEMMA AdvanceNone ==
  ASSUME NEW size, NEW x \in Nat, NEW c \in Nat
  PROVE  Advances(size, x, x, c)
BY DEF Advances

(* what some words reach more words reach, *)
LEMMA AdvanceMore ==
  ASSUME NEW size \in Nat, NEW x \in Nat, NEW y \in Nat, NEW c \in Nat, NEW d \in Nat, c <= d, Skipped \in Nat,
         Advances(size, x, y, c)
  PROVE  Advances(size, x, y, d)
BY DEF Advances

(* and one lead follows another while the ring has room for both. *)
LEMMA AdvanceOn ==
  ASSUME NEW size \in Nat, NEW x \in Nat, NEW y \in Nat, NEW z \in Nat, NEW c \in Nat, NEW d \in Nat,
         Skipped \in Nat, c + d + Skipped <= size,
         Advances(size, x, y, c), Advances(size, y, z, d)
  PROVE  Advances(size, x, z, c + d)
BY DEF Advances

(* From the server's last position d to x, with a and b on the way, and m   *)
(* more words: all of it is on the ring at once.                            *)
Legs(size, d, a, b, x, m) ==
  \E i, j, k \in Nat :
    /\ Advances(size, d, a, i) /\ Advances(size, a, b, j) /\ Advances(size, b, x, k)
    /\ i + j + k + m + Skipped <= size

(* Where a push of m words from x is expected to end.                       *)
Expects(size, p, x, e) ==
  LET m == MemUsed(p) IN
  IF x + m - 1 < size THEN e = x + m - 1
  ELSE e = IF p.kind = "blob" THEN m - 1 ELSE x + m - 1 - size

(* What is expected to end behind the server's last position goes there     *)
(* straight on.                                                             *)
LEMMA LegsStraight ==
  ASSUME NEW size \in Nat, NEW d \in 0..size - 1, NEW a \in 0..size - 1, NEW b \in 0..size - 1, NEW x \in 0..size - 1,
         NEW p, MemUsed(p) \in Nat \ {0}, Skipped \in Nat, p.kind = "blob" => MemUsed(p) <= Skipped + 1,
         Legs(size, d, a, b, x, MemUsed(p)),
         NEW e, Expects(size, p, x, e), d <= e
  PROVE  x + MemUsed(p) - 1 < size /\ d <= a /\ a <= b /\ b <= x /\ e = x + MemUsed(p) - 1
<1>1. PICK i, j, k \in Nat :
        /\ Advances(size, d, a, i) /\ Advances(size, a, b, j) /\ Advances(size, b, x, k)
        /\ i + j + k + MemUsed(p) + Skipped <= size
  BY DEF Legs
<1>2. PICK m \in Nat \ {0} : m = MemUsed(p)
  OBVIOUS
<1>3. Advances(size, d, b, i + j)
  BY <1>1, <1>2 DEF Advances
<1>4. Advances(size, d, x, i + j + k)
  BY <1>1, <1>2, <1>3 DEF Advances
<1>5. ~(x + m + size <= d + i + j + k + m + Skipped)
  BY <1>1, <1>2, <1>4 DEF Expects, Advances
<1>6. x + m - 1 < size /\ e = x + m - 1
  BY <1>1, <1>2, <1>4, <1>5 DEF Expects, Advances
<1> QED BY <1>1, <1>2, <1>3, <1>4, <1>5, <1>6 DEF Advances

(* After a fall none follows.                                               *)
LEMMA LegsFall ==
  ASSUME NEW size \in Nat, NEW d \in 0..size - 1, NEW a \in 0..size - 1, NEW b \in 0..size - 1, NEW x \in 0..size - 1,
         NEW m \in Nat \ {0}, Skipped \in Nat, Legs(size, d, a, b, x, m), a > b
  PROVE  x + m - 1 < size
<1>1. PICK i, j, k \in Nat :
        /\ Advances(size, d, a, i) /\ Advances(size, a, b, j) /\ Advances(size, b, x, k)
        /\ i + j + k + m + Skipped <= size
  BY DEF Legs
<1> QED BY <1>1 DEF Advances

(* The words between a and b are not those of a push from x on.             *)
LEMMA LegsApart ==
  ASSUME NEW size \in Nat, NEW d \in 0..size - 1, NEW a \in 0..size - 1, NEW b \in 0..size - 1, NEW x \in 0..size - 1,
         NEW m \in Nat \ {0}, Skipped \in Nat, Legs(size, d, a, b, x, m),
         NEW y \in 0..size - 1,
         \/ y = x + m
         \/ y < m /\ size <= x + m /\ y + size <= x + m + Skipped,
         NEW q \in 0..size - 1, Between(a, b, q),
         \/ x <= q /\ q < x + m
         \/ y < m /\ size <= x + m /\ q < y
  PROVE  FALSE
<1>1. PICK i, j, k \in Nat :
        /\ Advances(size, d, a, i) /\ Advances(size, a, b, j) /\ Advances(size, b, x, k)
        /\ i + j + k + m + Skipped <= size
  BY DEF Legs
<1>2. CASE a <= b
  BY <1>1, <1>2 DEF Advances, Between
<1>3. CASE a > b
  BY <1>1, <1>3 DEF Advances, Between
<1> QED BY <1>2, <1>3

(* A command that takes up less than a third of the ring.                   *)
LEMMA OwnWords ==
  ASSUME NEW size \in Nat, NEW s \in 0..size - 1, NEW x \in 0..size - 1, NEW y \in 0..size - 1,
         NEW c \in Nat, NEW m \in Nat \ {0}, Skipped \in Nat, 3 * (c + m) + Skipped <= size,
         Advances(size, s, x, c),
         \/ y = x + m
         \/ y < m /\ size <= x + m /\ y + size <= x + m + Skipped
  PROVE  /\ \A q \in 0..size - 1 : Between(s, x, q) => Between(s, y, q)
         /\ \A q \in 0..size - 1 :
              (\/ x <= q /\ q < x + m
               \/ y < m /\ size <= x + m /\ q < y) => Between(s, y, q)
         /\ s > x => s > y
         /\ x + m - 1 >= size => s > y
BY DEF Advances, Between

(* A set of numbers with 0 and every successor holds them all. *)
LEMMA NatSetInduction ==
  ASSUME NEW S, 0 \in S, \A n \in Nat : n \in S => n + 1 \in S
  PROVE  Nat \subseteq S
<1> DEFINE T == Nat \ S
           R == {p \in Nat \X Nat : p[1] < p[2]}
<1> SUFFICES ASSUME T # {} PROVE FALSE
  OBVIOUS
<1>1. T \subseteq Nat /\ IsWellFoundedOn(R, Nat)
  BY LessWF
<1>2. \E x \in T : \A y \in T : ~(<<y, x>> \in R)
  <2> HIDE DEF T, R
  <2> QED BY <1>1, WFMin, Zenon
<1>3. PICK x \in T : \A y \in T : ~(<<y, x>> \in R)
  BY <1>2
<1>4. x \in Nat /\ x # 0
  OBVIOUS
<1>5. x - 1 \in Nat /\ x - 1 + 1 = x /\ x - 1 < x
  BY <1>4
<1>6. x - 1 \in T
  BY <1>5, <1>4
<1>7. <<x - 1, x>> \in R
  BY <1>4, <1>5
<1> QED BY <1>3, <1>6, <1>7

(* Products of numbers. *)
LEMMA Times ==
  /\ \A a, b, n \in Nat : a <= b => a * n <= b * n
  /\ \A a, n \in Nat : (a + 1) * n = a * n + n /\ a * n \in Nat
  /\ \A a, b, n \in Nat : (a + b) * n = a * n + b * n
<1>1. ASSUME NEW a \in Nat, NEW b \in Nat, NEW n \in Nat, a <= b PROVE a * n <= b * n
  <2>1. b - a \in Nat /\ b * n = a * n + (b - a) * n
    BY <1>1
  <2>2. (b - a) * n \in Nat
    BY <2>1
  <2>3. a * n \in Nat
    OBVIOUS
  <2> QED BY <2>1, <2>2, <2>3
<1>2. \A a, n \in Nat : (a + 1) * n = a * n + n /\ a * n \in Nat
  OBVIOUS
<1>3. \A a, b, n \in Nat : (a + b) * n = a * n + b * n
  OBVIOUS
<1> QED BY <1>1, <1>2, <1>3

(* One push of the model in a ring that is longer.                          *)
LEMMA PushStep ==
  ASSUME RingType, NEW p \in Pushes, Longest < TotalSize, NEW x \in Pos
  PROVE  /\ NextIn(TotalSize, p, x) \in Pos
         /\ Step(TotalSize, p, x, NextIn(TotalSize, p, x))
         /\ Advances(TotalSize, x, NextIn(TotalSize, p, x), Longest)
         /\ Skipped \in Nat /\ TotalSize \in Nat \ {0} /\ MemUsed(p) \in Nat \ {0} /\ MemUsed(p) <= Longest
         /\ \/ p.kind = "words" /\ p.n \in 1..TotalSize - 1
            \/ p.kind = "blob" /\ p.n \in 0..TotalSize - 1 /\ p.n <= Skipped /\ MemUsed(p) = p.n + 1
<1>1. /\ Longest \in Nat /\ Skipped \in Nat /\ TotalSize \in Nat \ {0}
      /\ MemUsed(p) \in Nat \ {0} /\ MemUsed(p) <= Longest /\ (p.kind = "blob" => p.n <= Skipped)
  BY LongestIs, Sizes
<1>2. \/ p.kind = "words" /\ p.n \in 1..TotalSize - 1
      \/ p.kind = "blob" /\ p.n \in 0..TotalSize - 1 /\ p.n <= Skipped /\ MemUsed(p) = p.n + 1
  <2>1. \/ p.kind = "words" /\ p.n \in 1..TotalSize
        \/ p.kind = "blob" /\ p.n \in 0..TotalSize - 1
    BY PushSizes
  <2>2. p.kind = "words" => MemUsed(p) = p.n
    BY DEF MemUsed
  <2>3. p.kind = "blob" => MemUsed(p) = p.n + 1
    BY DEF MemUsed
  <2> HIDE DEF Longest, Skipped
  <2> QED BY <1>1, <2>1, <2>2, <2>3
<1>3. x \in 0..TotalSize - 1 /\ x \in Nat
  BY DEF Pos
<1>4. PICK y : y = NextIn(TotalSize, p, x)
  OBVIOUS
<1>5. y \in 0..TotalSize - 1 /\ Step(TotalSize, p, x, y)
  BY <1>1, <1>2, <1>3, <1>4, StepIs
<1>6. y \in Nat /\ y \in Pos
  BY <1>5 DEF Pos
<1>7. Advances(TotalSize, x, y, MemUsed(p))
  BY <1>1, <1>3, <1>5, <1>6, StepAdvances
<1>8. Advances(TotalSize, x, y, Longest)
  BY <1>1, <1>3, <1>6, <1>7, AdvanceMore
<1> QED BY <1>1, <1>2, <1>4, <1>5, <1>6, <1>8

(* A list of pushes leads on by the words of its pushes. *)
LEMMA LeadsAdvance ==
  ASSUME RingType, NEW l \in Seq(Pushes), NEW x \in Pos, NEW y, Leads(TotalSize, l, x, y),
         Len(l) * Longest + Skipped <= TotalSize, Len(l) * Longest < TotalSize
  PROVE  y \in Pos /\ Advances(TotalSize, x, y, Len(l) * Longest)
<1>1. PICK w \in [0..Len(l) -> Int] :
        w[0] = x /\ w[Len(l)] = y /\ \A i \in 1..Len(l) : w[i] = NextIn(TotalSize, l[i], w[i - 1])
  BY DEF Leads
<1>2. PICK n \in Nat : n = Len(l)
  OBVIOUS
<1>3. Longest \in Nat /\ Skipped \in Nat /\ TotalSize \in Nat \ {0}
  BY LongestIs, Sizes
<1> DEFINE S == {i \in Nat : i <= n => w[i] \in Pos /\ Advances(TotalSize, x, w[i], i * Longest)}
<1>4. 0 \in S
  <2>1. x \in Nat /\ 0 * Longest = 0
    BY <1>3 DEF Pos
  <2> QED BY <1>1, <2>1, AdvanceNone
<1>5. ASSUME NEW i \in Nat, i \in S PROVE i + 1 \in S
  <2> SUFFICES ASSUME i + 1 <= n
               PROVE  w[i + 1] \in Pos /\ Advances(TotalSize, x, w[i + 1], (i + 1) * Longest)
    OBVIOUS
  <2>1. w[i] \in Pos /\ Advances(TotalSize, x, w[i], i * Longest)
    BY <1>5
  <2>2. PICK p \in Pushes : p = l[i + 1]
    BY <1>2
  <2>3. PICK z : z = w[i + 1]
    OBVIOUS
  <2>4. z = NextIn(TotalSize, p, w[i])
    <3>1. i + 1 \in 1..Len(l) /\ (i + 1) - 1 = i
      BY <1>2
    <3> QED BY <1>1, <2>2, <2>3, <3>1
  <2>5. /\ (i + 1) * Longest = i * Longest + Longest /\ i * Longest \in Nat
        /\ (i + 1) * Longest <= n * Longest /\ 1 * Longest <= n * Longest /\ 1 * Longest = Longest
    <3>1. i + 1 \in Nat /\ 1 \in Nat /\ 1 <= n
      OBVIOUS
    <3>2. 1 * Longest = Longest
      BY <1>3
    <3> QED BY <1>3, <3>1, <3>2, Times
  <2>6. Longest < TotalSize
    BY <1>2, <1>3, <2>5
  <2>7. z \in Pos /\ Advances(TotalSize, w[i], z, Longest)
    BY <2>1, <2>4, <2>6, PushStep
  <2>8. PICK c \in Nat : c = i * Longest
    BY <2>5
  <2>9. c + Longest + Skipped <= TotalSize
    BY <1>2, <1>3, <2>5, <2>8
  <2>10. x \in Nat /\ w[i] \in Nat /\ z \in Nat
    BY <2>1, <2>7 DEF Pos
  <2>11. Advances(TotalSize, x, z, c + Longest)
    BY <1>3, <2>1, <2>7, <2>8, <2>9, <2>10, AdvanceOn
  <2> QED BY <2>3, <2>5, <2>7, <2>8, <2>11
<1>6. Nat \subseteq S
  <2> HIDE DEF S
  <2> QED BY <1>4, <1>5, NatSetInduction
<1> QED BY <1>1, <1>2, <1>6

---------------------------------------------------------------------------
(* Where the server stood after its last command.                           *)
Done == IF serverDataPos = -1 THEN 0 ELSE serverDataPos

(* No command has more pushes than one may have. *)
CountInv ==
  /\ \A k \in 1..Len(Queue) : Len(Queue[k].layout) <= MaxPushes
  /\ Len(layout) <= MaxPushes /\ (clientPc \in Pushing => Len(layout) < MaxPushes)

(* The server publishes where it stands, and a command starts where the     *)
(* last one ended. *)
PlaceInv ==
  /\ clientPos \in Pos /\ serverPos \in Pos /\ serverDataPos \in Pos \cup {-1}
  /\ serverPc # "read" => serverPos = Done
  /\ IF clientPc = "idle" THEN layout = <<>> ELSE startPos = Offset(Len(Queue))

(* The server has pulled some pushes of its command.                        *)
PulledInv ==
  serverPc = "read" =>
    \E c \in 0..MaxPushes :
      Advances(TotalSize, Done, serverPos, c * Longest) /\ c + Len(toRead) <= MaxPushes

(* The data of a command lies between its start and its end. *)
OwnedInv ==
  \A p \in Pos : occupant[p] # 0 =>
    \/ serverPc = "read" /\ occupant[p] = header.id /\ Between(Done, header.dataOffset, p)
    \/ \E k \in 1..Len(Queue) : occupant[p] = Queue[k].id /\ Between(Offset(k - 1), Queue[k].dataOffset, p)
    \/ clientPc # "idle" /\ occupant[p] = id /\ Between(startPos, clientPos, p)

(* The push under way goes over the end, as syncDataQueue sees it.          *)
Over == clientPos + MemUsed(push) - 1 >= TotalSize

(* Past the look at serverResetPosRequired. *)
Synced == {"test", "reread", "retest", "write"}

(* Where the client is in a push: it never waits.                           *)
StepInv ==
  /\ clientPc \in {"idle", "command", "wrap"} \cup Synced
  /\ clientPc = "wrap" => Over /\ expectedPos = clientPos + MemUsed(push) - 1
  /\ clientPc \in Synced => Expects(TotalSize, push, clientPos, expectedPos)
  /\ clientPc = "retest" => ~wouldOverwrite(cachedServerPos)

(* A command the server still has to read goes over the end.                *)
FallAhead ==
  \/ serverPc = "read" /\ serverPos > header.dataOffset
  \/ \E k \in 1..Len(Queue) : Offset(k - 1) > Queue[k].dataOffset
  \/ clientPc # "idle" /\ startPos > clientPos

(* The lap a set flag is about is still ahead of the server.                *)
LapInv == serverResetPosRequired => FallAhead \/ (clientPc \in Synced /\ Over)

(* The inductive invariant: the order of all positions, and what depends on *)
(* it.                                                                      *)
OrderInv == CountInv /\ PlaceInv /\ PulledInv

WideInv == OrderInv /\ OwnedInv /\ StepInv /\ LapInv

(* What is used of the constants.                                           *)
LEMMA WideSizes ==
  ASSUME RingType, Wide
  PROVE  /\ Longest \in Nat /\ Skipped \in Nat /\ MaxPushes \in Nat /\ Command \in Nat
         /\ TotalSize \in Nat \ {0} /\ CmdCapacity \in Nat \ {0}
         /\ (CmdCapacity + 2) * Command + Skipped <= TotalSize
         /\ 3 * Command + Skipped <= TotalSize /\ Command < TotalSize
         /\ \A n \in 0..MaxPushes : n * Longest \in Nat /\ n * Longest <= Command
<1>1. /\ Longest \in Nat /\ Skipped \in Nat /\ MaxPushes \in Nat
      /\ TotalSize \in Nat \ {0} /\ CmdCapacity \in Nat \ {0}
  BY LongestIs, Sizes
<1>2. /\ Command \in Nat /\ (CmdCapacity + 2) * Command + Skipped <= TotalSize
      /\ 3 * Command + Skipped <= TotalSize
  BY WideIs
<1>3. Command < TotalSize
  BY <1>1, <1>2
<1>4. ASSUME NEW n \in 0..MaxPushes PROVE n * Longest \in Nat /\ n * Longest <= Command
  <2>1. n \in Nat /\ n <= MaxPushes
    OBVIOUS
  <2> QED BY <1>1, <2>1, Times DEF Command
<1> QED BY <1>1, <1>2, <1>3, <1>4

(* ...which are those of a command at most. *)
LEMMA CommandAdvances ==
  ASSUME RingType, Wide, NEW l \in Seq(Pushes), Len(l) <= MaxPushes, NEW x \in Pos, NEW y, Leads(TotalSize, l, x, y)
  PROVE  y \in Pos /\ Advances(TotalSize, x, y, Len(l) * Longest) /\ Advances(TotalSize, x, y, Command)
<1>1. /\ Longest \in Nat /\ Skipped \in Nat /\ Command \in Nat /\ TotalSize \in Nat \ {0}
      /\ 3 * Command + Skipped <= TotalSize /\ Command < TotalSize
  BY WideSizes
<1>2. PICK n \in Nat : n = Len(l)
  OBVIOUS
<1>3. n * Longest \in Nat /\ n * Longest <= Command
  BY <1>2, WideSizes
<1>4. n * Longest + Skipped <= TotalSize /\ n * Longest < TotalSize
  BY <1>1, <1>3
<1>5. y \in Pos /\ Advances(TotalSize, x, y, n * Longest)
  BY <1>2, <1>4, LeadsAdvance
<1>6. x \in Nat /\ y \in Nat
  BY <1>5 DEF Pos
<1>7. Advances(TotalSize, x, y, Command)
  BY <1>1, <1>3, <1>5, <1>6, AdvanceMore
<1> QED BY <1>2, <1>5, <1>7

(* The queue and its offsets. *)
LEMMA QueueIs ==
  ASSUME RingType
  PROVE  /\ Queue \in Seq(Headers) /\ Len(Queue) \in Nat /\ Len(Queue) <= CmdCapacity
         /\ \A k \in 1..Len(Queue) : Queue[k] \in Headers /\ Queue[k].layout \in Seq(Pushes) /\ Offset(k) = Queue[k].dataOffset
         /\ Offset(0) = Base
<1>1. Queue \in Seq(Headers) /\ Len(Queue) \in Nat
  BY ConcatProperties DEF RingType, Queue
<1>2. Len(Queue) <= CmdCapacity
  <2>1. unpublished \in Seq(Headers) /\ inQueue \in Seq(Headers) /\ Len(unpublished) + Len(inQueue) <= CmdCapacity
    BY DEF RingType
  <2>2. Len(Queue) = Len(inQueue) + Len(unpublished)
    BY <2>1, ConcatProperties DEF Queue
  <2>3. Len(unpublished) \in Nat /\ Len(inQueue) \in Nat
    BY <2>1
  <2> QED BY <2>1, <2>2, <2>3
<1>3. ASSUME NEW k \in 1..Len(Queue)
      PROVE  Queue[k] \in Headers /\ Queue[k].layout \in Seq(Pushes) /\ Offset(k) = Queue[k].dataOffset
  <2>1. Queue[k] \in Headers
    BY <1>1
  <2> QED BY <2>1 DEF Headers, Offset
<1> QED BY <1>1, <1>2, <1>3 DEF Offset

(* From the position the server has published to where it is going. *)
LEMMA DoneToBase ==
  ASSUME RingType, OffsetInv, Wide, OrderInv
  PROVE  /\ Done \in Pos /\ Base \in Pos
         /\ Advances(TotalSize, Done, Base, Command)
         /\ serverPc = "read" => \E i, j \in Nat :
              /\ Advances(TotalSize, Done, serverPos, i) /\ Advances(TotalSize, serverPos, header.dataOffset, j)
              /\ i + j <= Command
<1>1. /\ Longest \in Nat /\ Skipped \in Nat /\ MaxPushes \in Nat /\ Command \in Nat
      /\ TotalSize \in Nat \ {0} /\ 3 * Command + Skipped <= TotalSize
  BY WideSizes
<1>2. Done \in Pos /\ serverPos \in Pos
  BY <1>1 DEF OrderInv, PlaceInv, Done, Pos
<1>3. CASE serverPc # "read"
  <2>1. Base = Done
    BY <1>3 DEF OrderInv, PlaceInv, Base
  <2>2. Done \in Nat
    BY <1>2 DEF Pos
  <2> QED BY <1>1, <1>2, <1>3, <2>1, <2>2, AdvanceNone
<1>4. CASE serverPc = "read"
  <2>1. PICK c \in 0..MaxPushes : Advances(TotalSize, Done, serverPos, c * Longest) /\ c + Len(toRead) <= MaxPushes
    BY <1>4 DEF OrderInv, PulledInv
  <2>2. toRead \in Seq(Pushes) /\ Leads(TotalSize, toRead, serverPos, header.dataOffset)
    BY <1>4 DEF RingType, OffsetInv
  <2>3. PICK n \in Nat : n = Len(toRead)
    BY <2>2
  <2>4. n <= MaxPushes /\ c \in Nat
    BY <1>1, <2>1, <2>3
  <2>5. header.dataOffset \in Pos /\ Advances(TotalSize, serverPos, header.dataOffset, n * Longest)
    BY <1>2, <2>2, <2>3, <2>4, CommandAdvances
  <2>6. Base = header.dataOffset
    BY <1>4 DEF Base
  <2>7. c * Longest \in Nat /\ n * Longest \in Nat /\ c * Longest + n * Longest <= Command
    <3>1. c + n \in 0..MaxPushes
      BY <1>1, <2>1, <2>3, <2>4
    <3>2. (c + n) * Longest <= Command
      BY <3>1, WideSizes
    <3> QED BY <1>1, <2>4, <3>2, Times
  <2>8. PICK i, j \in Nat : i = c * Longest /\ j = n * Longest
    BY <2>7
  <2>9. i + j <= Command /\ Advances(TotalSize, Done, serverPos, i) /\ Advances(TotalSize, serverPos, Base, j)
    BY <2>1, <2>5, <2>6, <2>7, <2>8
  <2>10. Done \in Nat /\ serverPos \in Nat /\ Base \in Nat
    BY <1>2, <2>5, <2>6 DEF Pos
  <2>11. i + j + Skipped <= TotalSize
    BY <1>1, <2>9
  <2>12. Advances(TotalSize, Done, Base, i + j)
    BY <1>1, <2>9, <2>10, <2>11, AdvanceOn
  <2>13. Advances(TotalSize, Done, Base, Command)
    <3>1. i + j \in Nat
      OBVIOUS
    <3> QED BY <1>1, <2>9, <2>10, <2>12, <3>1, AdvanceMore
  <2> QED BY <1>2, <2>5, <2>6, <2>9, <2>13
<1> QED BY <1>3, <1>4

(* Every header leads on by a command at most, *)
LEMMA OffsetsAdvance ==
  ASSUME RingType, OffsetInv, Wide, OrderInv
  PROVE  /\ \A k \in 0..Len(Queue) : Offset(k) \in Pos
         /\ \A k \in 1..Len(Queue) : Advances(TotalSize, Offset(k - 1), Offset(k), Command)
<1>0. Len(Queue) \in Nat
  BY QueueIs
<1> DEFINE S == {k \in Nat : k <= Len(Queue) => Offset(k) \in Pos}
<1>1. ASSUME NEW k \in 1..Len(Queue), Offset(k - 1) \in Pos
      PROVE  Offset(k) \in Pos /\ Advances(TotalSize, Offset(k - 1), Offset(k), Command)
  <2>1. Queue[k].layout \in Seq(Pushes) /\ Offset(k) = Queue[k].dataOffset /\ Len(Queue[k].layout) <= MaxPushes
    BY QueueIs DEF OrderInv, CountInv
  <2>2. Leads(TotalSize, Queue[k].layout, Offset(k - 1), Offset(k))
    BY <2>1 DEF OffsetInv
  <2> QED BY <1>1, <2>1, <2>2, CommandAdvances
<1>2. 0 \in S
  BY QueueIs, DoneToBase
<1>3. ASSUME NEW k \in Nat, k \in S PROVE k + 1 \in S
  <2> SUFFICES ASSUME k + 1 <= Len(Queue) PROVE Offset(k + 1) \in Pos
    OBVIOUS
  <2>1. k + 1 \in 1..Len(Queue) /\ (k + 1) - 1 = k /\ Offset(k) \in Pos
    BY <1>0, <1>3
  <2> QED BY <1>1, <2>1
<1>4. Nat \subseteq S
  <2> HIDE DEF S
  <2> QED BY <1>2, <1>3, NatSetInduction
<1>5. \A k \in 0..Len(Queue) : Offset(k) \in Pos
  BY <1>0, <1>4
<1>6. ASSUME NEW k \in 1..Len(Queue) PROVE Advances(TotalSize, Offset(k - 1), Offset(k), Command)
  <2>1. k - 1 \in 0..Len(Queue)
    BY <1>0
  <2> QED BY <1>1, <1>5, <2>1
<1> QED BY <1>5, <1>6

(* and d of them by d commands. *)
LEMMA OffsetsChain ==
  ASSUME RingType, OffsetInv, Wide, OrderInv, NEW i \in 0..Len(Queue), NEW d \in 0..Len(Queue), i + d <= Len(Queue)
  PROVE  Advances(TotalSize, Offset(i), Offset(i + d), d * Command)
<1>1. /\ Skipped \in Nat /\ Command \in Nat /\ TotalSize \in Nat \ {0} /\ CmdCapacity \in Nat \ {0}
      /\ (CmdCapacity + 2) * Command + Skipped <= TotalSize
  BY WideSizes
<1>2. Len(Queue) \in Nat /\ Len(Queue) <= CmdCapacity
  BY QueueIs
<1> DEFINE S == {n \in Nat : i + n <= Len(Queue) => Advances(TotalSize, Offset(i), Offset(i + n), n * Command)}
<1>3. 0 \in S
  <2>1. Offset(i) \in Pos
    BY OffsetsAdvance
  <2>2. Offset(i) \in Nat /\ i + 0 = i /\ 0 * Command = 0
    BY <1>1, <2>1 DEF Pos
  <2> QED BY <2>2, AdvanceNone
<1>4. ASSUME NEW n \in Nat, n \in S PROVE n + 1 \in S
  <2> SUFFICES ASSUME i + (n + 1) <= Len(Queue)
               PROVE  Advances(TotalSize, Offset(i), Offset(i + (n + 1)), (n + 1) * Command)
    OBVIOUS
  <2>1. PICK k \in 1..Len(Queue) : k = i + (n + 1)
    BY <1>2
  <2>2. k - 1 = i + n /\ i + n \in 0..Len(Queue) /\ i + n <= Len(Queue) /\ k \in 0..Len(Queue)
    BY <1>2, <2>1
  <2>3. Advances(TotalSize, Offset(i), Offset(k - 1), n * Command)
    BY <1>4, <2>2
  <2>4. Advances(TotalSize, Offset(k - 1), Offset(k), Command)
    BY OffsetsAdvance
  <2>5. Offset(i) \in Pos /\ Offset(k - 1) \in Pos /\ Offset(k) \in Pos
    BY <2>2, OffsetsAdvance
  <2>6. n * Command \in Nat /\ (n + 1) * Command = n * Command + Command /\ n * Command + Command + Skipped <= TotalSize
    <3>1. (n + 1) * Command <= (CmdCapacity + 2) * Command
      <4>1. n + 1 \in Nat /\ CmdCapacity + 2 \in Nat /\ n + 1 <= CmdCapacity + 2
        BY <1>1, <1>2
      <4> QED BY <1>1, <4>1, Times
    <3>2. n * Command \in Nat /\ (n + 1) * Command = n * Command + Command
      BY <1>1, Times
    <3>3. (CmdCapacity + 2) * Command \in Nat
      BY <1>1, Times
    <3> QED BY <1>1, <3>1, <3>2, <3>3
  <2>7. PICK c \in Nat : c = n * Command
    BY <2>6
  <2>8. Offset(i) \in Nat /\ Offset(k - 1) \in Nat /\ Offset(k) \in Nat
    BY <2>5 DEF Pos
  <2>9. Advances(TotalSize, Offset(i), Offset(k), c + Command)
    BY <1>1, <2>3, <2>4, <2>6, <2>7, <2>8, AdvanceOn
  <2> QED BY <2>1, <2>6, <2>7, <2>9
<1>5. Nat \subseteq S
  <2> HIDE DEF S
  <2> QED BY <1>3, <1>4, NatSetInduction
<1> QED BY <1>5

(* The command being built, and a push of m words that it still has.        *)
LEMMA BuiltAdvances ==
  ASSUME RingType, OffsetInv, Wide, OrderInv, clientPc # "idle"
  PROVE  /\ startPos \in Pos /\ startPos = Offset(Len(Queue))
         /\ \E c \in Nat : /\ Advances(TotalSize, startPos, clientPos, c) /\ c <= Command
                           /\ Len(layout) < MaxPushes => c + Longest <= Command
<1>1. /\ Longest \in Nat /\ MaxPushes \in Nat /\ Command \in Nat
      /\ \A n \in 0..MaxPushes : n * Longest \in Nat /\ n * Longest <= Command
  BY WideSizes
<1>2. Len(Queue) \in 0..Len(Queue)
  BY QueueIs
<1>3. startPos \in Pos /\ startPos = Offset(Len(Queue))
  BY <1>2, OffsetsAdvance DEF OrderInv, PlaceInv
<1>4. layout \in Seq(Pushes) /\ Leads(TotalSize, layout, startPos, clientPos) /\ Len(layout) <= MaxPushes
  BY <1>3 DEF RingType, OffsetInv, OrderInv, CountInv
<1>5. PICK n \in Nat : n = Len(layout)
  BY <1>4
<1>6. Advances(TotalSize, startPos, clientPos, n * Longest)
  BY <1>3, <1>4, <1>5, CommandAdvances
<1>7. PICK c \in Nat : c = n * Longest
  BY <1>1, <1>4, <1>5
<1>8. c <= Command
  BY <1>1, <1>4, <1>5, <1>7
<1>9. n < MaxPushes => c + Longest <= Command
  <2> SUFFICES ASSUME n < MaxPushes PROVE c + Longest <= Command
    OBVIOUS
  <2>1. n + 1 \in 0..MaxPushes
    BY <1>1
  <2>2. (n + 1) * Longest <= Command
    BY <1>1, <2>1
  <2> QED BY <1>1, <1>7, <2>2, Times
<1> QED BY <1>3, <1>5, <1>6, <1>7, <1>8, <1>9

(* Legs from their lengths.                                                 *)
LEMMA LegsAre ==
  ASSUME NEW size, NEW d, NEW a, NEW b, NEW x, NEW m, NEW i \in Nat, NEW j \in Nat, NEW k \in Nat,
         Advances(size, d, a, i), Advances(size, a, b, j), Advances(size, b, x, k),
         i + j + k + m + Skipped <= size
  PROVE  Legs(size, d, a, b, x, m)
BY DEF Legs

(* The same for the data ring and the push under way.                       *)
LegsHere(a, b) == a \in Pos /\ b \in Pos /\ Legs(TotalSize, Done, a, b, clientPos, MemUsed(push))

(* All that is under way, and the push, are on the ring at once. *)
LEMMA AllLegs ==
  ASSUME RingType, OffsetInv, Wide, OrderInv, clientPc \in Pushing
  PROVE  /\ \A k \in 1..Len(Queue) : LegsHere(Offset(k - 1), Offset(k))
         /\ serverPc = "read" => LegsHere(Done, header.dataOffset) /\ LegsHere(serverPos, header.dataOffset)
         /\ LegsHere(startPos, clientPos)
<1>1. /\ Longest \in Nat /\ Skipped \in Nat /\ Command \in Nat /\ TotalSize \in Nat \ {0} /\ CmdCapacity \in Nat \ {0}
      /\ (CmdCapacity + 2) * Command + Skipped <= TotalSize
      /\ 3 * Command + Skipped <= TotalSize
  BY WideSizes
<1>2. Len(Queue) \in Nat /\ Len(Queue) <= CmdCapacity /\ Offset(0) = Base
  BY QueueIs
<1>3. PICK L \in Nat : L = Len(Queue)
  BY <1>2
<1>4. MemUsed(push) \in Nat \ {0} /\ MemUsed(push) <= Longest /\ Len(layout) < MaxPushes /\ clientPc # "idle"
  BY LongestIs DEF RingType, OrderInv, CountInv, Pushing
<1>5. PICK m \in Nat \ {0} : m = MemUsed(push)
  BY <1>4
<1>6. startPos \in Pos /\ startPos = Offset(L)
  BY <1>3, <1>4, BuiltAdvances
<1>7. PICK c \in Nat : Advances(TotalSize, startPos, clientPos, c) /\ c + Longest <= Command
  BY <1>4, BuiltAdvances
<1>8. c + m <= Command
  BY <1>1, <1>4, <1>5, <1>7
<1>9. /\ Done \in Pos /\ Base \in Pos /\ serverPos \in Pos /\ clientPos \in Pos
      /\ Advances(TotalSize, Done, Base, Command)
  BY DoneToBase DEF OrderInv, PlaceInv
<1>10. \A k \in 0..L : Offset(k) \in Pos
  BY <1>3, OffsetsAdvance
<1>11. Pos \subseteq Nat
  BY DEF Pos
<1>12. (L + 2) * Command + Skipped <= TotalSize /\ (L + 2) * Command = L * Command + Command + Command /\ L * Command \in Nat
  <2>1. L + 2 \in Nat /\ CmdCapacity + 2 \in Nat /\ L + 2 <= CmdCapacity + 2 /\ L + 1 \in Nat
    BY <1>1, <1>2, <1>3
  <2>2. (L + 2) * Command <= (CmdCapacity + 2) * Command
    BY <1>1, <2>1, Times
  <2>3. (L + 2) * Command = L * Command + Command + Command /\ L * Command \in Nat
    BY <1>1, Times
  <2>4. (CmdCapacity + 2) * Command \in Nat
    BY <1>1, Times
  <2> QED BY <1>1, <2>2, <2>3, <2>4
  (* From an offset to the client, and from the server to an offset. *)
<1>13. ASSUME NEW k \in 0..L
       PROVE  \E i, j \in Nat : /\ Advances(TotalSize, Done, Offset(k), i + Command) /\ Advances(TotalSize, Offset(k), startPos, j)
                                /\ i + j = L * Command /\ i = k * Command
  <2>1. L - k \in 0..L /\ k + (L - k) = L /\ k \in Nat /\ L - k \in Nat /\ 0 + k = k /\ 0 \in 0..L
    BY <1>3
  <2>2. Advances(TotalSize, Offset(k), Offset(L), (L - k) * Command)
    <3>1. k \in 0..Len(Queue) /\ L - k \in 0..Len(Queue) /\ k + (L - k) <= Len(Queue)
      BY <1>3, <2>1
    <3>2. Advances(TotalSize, Offset(k), Offset(k + (L - k)), (L - k) * Command)
      BY <3>1, OffsetsChain
    <3> QED BY <2>1, <3>2
  <2>3. Advances(TotalSize, Base, Offset(k), k * Command)
    <3>1. 0 \in 0..Len(Queue) /\ k \in 0..Len(Queue) /\ 0 + k <= Len(Queue)
      BY <1>3, <2>1
    <3>2. Advances(TotalSize, Offset(0), Offset(0 + k), k * Command)
      BY <3>1, OffsetsChain
    <3> QED BY <1>2, <2>1, <3>2
  <2>4. PICK i \in Nat : i = k * Command
    BY <1>1, <2>1, Times
  <2>5. PICK j \in Nat : j = (L - k) * Command
    BY <1>1, <2>1, Times
  <2>6. i + j = L * Command
    <3>1. (k + (L - k)) * Command = k * Command + (L - k) * Command
      BY <1>1, <2>1, Times
    <3> QED BY <2>1, <2>4, <2>5, <3>1
  <2>7. Command + i + Skipped <= TotalSize
    BY <1>1, <1>12, <2>6
  <2>8. Offset(k) \in Nat /\ Base \in Nat /\ Done \in Nat
    BY <1>9, <1>10, <1>11
  <2>9. Advances(TotalSize, Done, Offset(k), Command + i)
    BY <1>1, <1>9, <2>3, <2>4, <2>7, <2>8, AdvanceOn
  <2>10. Command + i = i + Command
    BY <1>1
  <2> QED BY <1>6, <2>2, <2>4, <2>5, <2>6, <2>9, <2>10
  (* The same from the offset to the client. *)
<1>14. ASSUME NEW k \in 0..L
       PROVE  \E i, j \in Nat : /\ Advances(TotalSize, Done, Offset(k), i + Command) /\ Advances(TotalSize, Offset(k), clientPos, j)
                                /\ i + j + m <= L * Command + Command /\ i = k * Command
  <2>1. PICK i, j \in Nat : /\ Advances(TotalSize, Done, Offset(k), i + Command) /\ Advances(TotalSize, Offset(k), startPos, j)
                            /\ i + j = L * Command /\ i = k * Command
    BY <1>13
  <2>2. Offset(k) \in Nat /\ startPos \in Nat /\ clientPos \in Nat
    BY <1>6, <1>9, <1>10, <1>11
  <2>3. j + c + Skipped <= TotalSize
    BY <1>1, <1>8, <1>12, <2>1
  <2>4. Advances(TotalSize, Offset(k), clientPos, j + c)
    BY <1>1, <1>7, <2>1, <2>2, <2>3, AdvanceOn
  <2>5. i + (j + c) + m <= L * Command + Command /\ j + c \in Nat
    BY <1>1, <1>8, <1>12, <2>1
  <2> QED BY <2>1, <2>4, <2>5
<1>15. ASSUME NEW k \in 1..Len(Queue) PROVE LegsHere(Offset(k - 1), Offset(k))
  <2>1. k - 1 \in 0..L /\ k \in 0..L /\ (k - 1) + 1 = k /\ k - 1 \in Nat
    BY <1>3
  <2>2. PICK i, j \in Nat : /\ Advances(TotalSize, Done, Offset(k - 1), i + Command)
                            /\ i = (k - 1) * Command
    BY <1>14, <2>1
  <2>3. PICK g, h \in Nat : /\ Advances(TotalSize, Offset(k), clientPos, h)
                            /\ g + h + m <= L * Command + Command /\ g = k * Command
    BY <1>14, <2>1
  <2>4. g = i + Command
    <3>1. ((k - 1) + 1) * Command = (k - 1) * Command + Command
      BY <1>1, <2>1, Times
    <3> QED BY <2>1, <2>2, <2>3, <3>1
  <2>5. Advances(TotalSize, Offset(k - 1), Offset(k), Command)
    BY OffsetsAdvance
  <2>6. (i + Command) + Command + h + m + Skipped <= TotalSize /\ i + Command \in Nat
    BY <1>1, <1>12, <2>3, <2>4
  <2>7. Legs(TotalSize, Done, Offset(k - 1), Offset(k), clientPos, m)
    BY <1>1, <2>2, <2>3, <2>5, <2>6, LegsAre
  <2> QED BY <1>5, <1>10, <2>1, <2>7 DEF LegsHere
<1>16. ASSUME serverPc = "read" PROVE LegsHere(Done, header.dataOffset) /\ LegsHere(serverPos, header.dataOffset)
  <2>1. PICK i, j \in Nat : /\ Advances(TotalSize, Done, serverPos, i) /\ Advances(TotalSize, serverPos, header.dataOffset, j)
                            /\ i + j <= Command
    BY <1>16, DoneToBase
  <2>2. Base = header.dataOffset /\ 0 \in 0..L
    BY <1>3, <1>16 DEF Base
  <2>3. PICK h \in Nat : Advances(TotalSize, Base, clientPos, h) /\ h + m <= L * Command + Command
    <3>1. PICK g, h \in Nat : Advances(TotalSize, Offset(0), clientPos, h) /\ g + h + m <= L * Command + Command
      BY <1>14, <2>2
    <3>2. h + m <= L * Command + Command
      BY <1>1, <1>12, <3>1
    <3> QED BY <1>2, <3>1, <3>2
  <2>4. i + j + h + m + Skipped <= TotalSize /\ 0 + Command + h + m + Skipped <= TotalSize
    BY <1>1, <1>12, <2>1, <2>3
  <2>5. Done \in Nat /\ 0 \in Nat
    BY <1>9, <1>11
  <2>6. Advances(TotalSize, Done, Done, 0)
    BY <2>5, AdvanceNone
  <2>7. Legs(TotalSize, Done, serverPos, header.dataOffset, clientPos, m)
    BY <2>1, <2>2, <2>3, <2>4, LegsAre
  <2>8. Legs(TotalSize, Done, Done, header.dataOffset, clientPos, m)
    BY <1>1, <1>9, <2>2, <2>3, <2>4, <2>5, <2>6, LegsAre
  <2> QED BY <1>5, <1>9, <2>2, <2>7, <2>8 DEF LegsHere
<1>17. LegsHere(startPos, clientPos)
  <2>1. L \in 0..L
    BY <1>3
  <2>2. PICK i, j \in Nat : Advances(TotalSize, Done, Offset(L), i + Command) /\ i + j = L * Command
    BY <1>13, <2>1
  <2>3. (i + Command) + c + 0 + m + Skipped <= TotalSize /\ i + Command \in Nat /\ 0 \in Nat
    BY <1>1, <1>8, <1>12, <2>2
  <2>4. Advances(TotalSize, clientPos, clientPos, 0)
    BY <1>9, <1>11, AdvanceNone
  <2>5. Legs(TotalSize, Done, startPos, clientPos, clientPos, m)
    BY <1>6, <1>7, <2>2, <2>3, <2>4, LegsAre
  <2> QED BY <1>5, <1>6, <1>9, <2>5 DEF LegsHere
<1> QED BY <1>15, <1>16, <1>17

(* The push under way. *)
LEMMA PushIs ==
  ASSUME RingType, Wide, OrderInv, clientPc \in Pushing
  PROVE  /\ push \in Pushes /\ Longest < TotalSize /\ TotalSize \in Nat \ {0} /\ Skipped \in Nat
         /\ MemUsed(push) \in Nat \ {0} /\ MemUsed(push) <= Longest
         /\ push.kind = "blob" => MemUsed(push) <= Skipped + 1
         /\ clientPos \in 0..TotalSize - 1 /\ Done \in 0..TotalSize - 1 /\ clientPc # "idle"
<1>1. push \in Pushes /\ clientPc # "idle" /\ Len(layout) < MaxPushes /\ layout \in Seq(Pushes) /\ Len(layout) \in Nat
  BY DEF RingType, OrderInv, CountInv, Pushing
<1>2. /\ Longest \in Nat /\ Skipped \in Nat /\ MaxPushes \in Nat /\ Command \in Nat
      /\ TotalSize \in Nat \ {0} /\ Command < TotalSize
  BY WideSizes
<1>3. Longest <= Command
  <2>1. 1 \in Nat /\ 1 <= MaxPushes /\ 1 * Longest = Longest
    BY <1>1, <1>2
  <2>2. 1 * Longest <= MaxPushes * Longest
    BY <1>2, <2>1, Times
  <2> QED BY <2>1, <2>2 DEF Command
<1>4. Longest < TotalSize
  BY <1>2, <1>3
<1>5. clientPos \in Pos /\ serverDataPos \in Pos \cup {-1}
  BY DEF OrderInv, PlaceInv
<1>6. /\ MemUsed(push) \in Nat \ {0} /\ MemUsed(push) <= Longest
      /\ \/ push.kind = "words"
         \/ push.kind = "blob" /\ push.n \in 0..TotalSize - 1 /\ push.n <= Skipped /\ MemUsed(push) = push.n + 1
  BY <1>1, <1>4, <1>5, PushStep
<1>7. Done \in 0..TotalSize - 1
  BY <1>2, <1>5 DEF Done, Pos
<1>8. push.kind = "blob" => MemUsed(push) <= Skipped + 1
  BY <1>2, <1>6
<1> QED BY <1>1, <1>2, <1>4, <1>5, <1>6, <1>7, <1>8 DEF Pos

(* A push that is over the end finds no fall on the way. *)
LEMMA OverStraight ==
  ASSUME RingType, OffsetInv, Wide, OrderInv, clientPc \in Pushing, Over
  PROVE  ~FallAhead
<1>1. PICK m \in Nat \ {0} : m = MemUsed(push)
  BY PushIs
<1>2. /\ TotalSize \in Nat \ {0} /\ Skipped \in Nat /\ clientPos \in 0..TotalSize - 1 /\ Done \in 0..TotalSize - 1 /\ clientPc # "idle"
  BY PushIs
<1>3. clientPos + m - 1 >= TotalSize
  BY <1>1 DEF Over
<1>4. ASSUME NEW a, NEW b, LegsHere(a, b), a > b PROVE FALSE
  <2>1. a \in 0..TotalSize - 1 /\ b \in 0..TotalSize - 1 /\ Legs(TotalSize, Done, a, b, clientPos, m)
    BY <1>1, <1>4 DEF LegsHere, Pos
  <2>2. clientPos + m - 1 < TotalSize
    BY <1>2, <1>4, <2>1, LegsFall
  <2> QED BY <1>2, <1>3, <2>2
<1>5. ~(serverPc = "read" /\ serverPos > header.dataOffset)
  BY <1>4, AllLegs
<1>6. ~(clientPc # "idle" /\ startPos > clientPos)
  BY <1>4, AllLegs
<1>7. ~\E k \in 1..Len(Queue) : Offset(k - 1) > Queue[k].dataOffset
  <2> SUFFICES ASSUME NEW k \in 1..Len(Queue), Offset(k - 1) > Queue[k].dataOffset PROVE FALSE
    OBVIOUS
  <2>1. Offset(k) = Queue[k].dataOffset
    BY QueueIs
  <2>2. LegsHere(Offset(k - 1), Offset(k))
    BY AllLegs
  <2> QED BY <1>4, <2>1, <2>2
<1> QED BY <1>5, <1>6, <1>7 DEF FallAhead

(* Nor one that ends behind the server's last position. *)
LEMMA BehindStraight ==
  ASSUME RingType, OffsetInv, Wide, OrderInv, clientPc \in Pushing,
         Expects(TotalSize, push, clientPos, expectedPos), Done <= expectedPos
  PROVE  ~FallAhead /\ ~Over /\ Done <= startPos /\ startPos <= expectedPos
<1>1. /\ TotalSize \in Nat \ {0} /\ Skipped \in Nat /\ clientPos \in 0..TotalSize - 1 /\ Done \in 0..TotalSize - 1 /\ clientPc # "idle"
      /\ MemUsed(push) \in Nat \ {0} /\ (push.kind = "blob" => MemUsed(push) <= Skipped + 1)
  BY PushIs
<1>4. ASSUME NEW a, NEW b, LegsHere(a, b)
      PROVE  /\ a \in 0..TotalSize - 1 /\ b \in 0..TotalSize - 1
             /\ clientPos + MemUsed(push) - 1 < TotalSize /\ Done <= a /\ a <= b /\ b <= clientPos
             /\ expectedPos = clientPos + MemUsed(push) - 1
  <2>1. a \in 0..TotalSize - 1 /\ b \in 0..TotalSize - 1 /\ Legs(TotalSize, Done, a, b, clientPos, MemUsed(push))
    BY <1>4 DEF LegsHere, Pos
  <2> QED BY <1>1, <2>1, LegsStraight
<1>5. ~(serverPc = "read" /\ serverPos > header.dataOffset)
  <2> SUFFICES ASSUME serverPc = "read" PROVE ~(serverPos > header.dataOffset)
    OBVIOUS
  <2>1. LegsHere(serverPos, header.dataOffset)
    BY AllLegs
  <2>2. serverPos \in 0..TotalSize - 1 /\ header.dataOffset \in 0..TotalSize - 1 /\ serverPos <= header.dataOffset
    BY <1>4, <2>1
  <2> QED BY <2>2
<1>6. LegsHere(startPos, clientPos)
  BY AllLegs
<1>7. startPos \in 0..TotalSize - 1 /\ clientPos + MemUsed(push) - 1 < TotalSize
      /\ Done <= startPos /\ startPos <= clientPos /\ expectedPos = clientPos + MemUsed(push) - 1
  BY <1>4, <1>6
<1>8. ~\E k \in 1..Len(Queue) : Offset(k - 1) > Queue[k].dataOffset
  <2> SUFFICES ASSUME NEW k \in 1..Len(Queue) PROVE ~(Offset(k - 1) > Queue[k].dataOffset)
    OBVIOUS
  <2>1. Offset(k) = Queue[k].dataOffset
    BY QueueIs
  <2>2. LegsHere(Offset(k - 1), Offset(k))
    BY AllLegs
  <2>3. Offset(k - 1) \in 0..TotalSize - 1 /\ Offset(k) \in 0..TotalSize - 1 /\ Offset(k - 1) <= Offset(k)
    BY <1>4, <2>2
  <2> QED BY <2>1, <2>3
<1>9. ~(startPos > clientPos)
  BY <1>1, <1>7
<1>10. startPos <= expectedPos
  BY <1>1, <1>7
<1>11. ~Over
  BY <1>1, <1>7 DEF Over
<1> QED BY <1>5, <1>7, <1>8, <1>9, <1>10, <1>11 DEF FallAhead

(* The live position never asks the client to wait. *)
LEMMA LiveFree ==
  ASSUME RingType, OffsetInv, Wide, OrderInv, LapInv, clientPc \in Synced,
         Expects(TotalSize, push, clientPos, expectedPos)
  PROVE  ~wouldOverwrite(serverDataPos)
<1> SUFFICES ASSUME wouldOverwrite(serverDataPos) PROVE FALSE
  OBVIOUS
<1>1. clientPc \in Pushing
  BY DEF Synced, Pushing
<1>2. serverDataPos = Done /\ Done <= expectedPos
  <2>1. serverDataPos # -1 /\ expectedPos >= serverDataPos
    BY DEF wouldOverwrite
  <2> QED BY <2>1 DEF Done
<1>3. ~FallAhead /\ ~Over /\ Done <= startPos /\ startPos <= expectedPos
  BY <1>1, <1>2, BehindStraight
<1>4. ~serverResetPosRequired
  BY <1>3 DEF LapInv
<1>5. \/ startPos < Done
      \/ startPos > Done /\ expectedPos < startPos
  BY <1>2, <1>4 DEF wouldOverwrite
<1>6. Done \in Int /\ startPos \in Int /\ expectedPos \in Int
  <2>1. Done \in Int /\ TotalSize \in Int /\ clientPos \in Int /\ MemUsed(push) \in Int
    BY <1>1, PushIs
  <2>2. startPos \in Int
    BY <1>1, AllLegs DEF LegsHere, Pos
  <2>3. expectedPos \in Int
    BY <2>1 DEF Expects
  <2> QED BY <2>1, <2>2, <2>3
<1> QED BY <1>3, <1>5, <1>6

(* Nor is a lap owed when the client wants to go over the end. *)
LEMMA LapFree ==
  ASSUME RingType, OffsetInv, Wide, OrderInv, StepInv, LapInv, clientPc = "wrap"
  PROVE  ~serverResetPosRequired
<1>1. clientPc \in Pushing /\ clientPc \notin Synced
  BY DEF Pushing, Synced
<1>2. ~FallAhead
  BY <1>1, OverStraight DEF StepInv
<1> QED BY <1>1, <1>2 DEF LapInv

(* A push finds no data but that of its own command. *)
LEMMA WriteFree ==
  ASSUME RingType, OffsetInv, Wide, OrderInv, OwnedInv, clientPc = "write",
         NEW q \in Pos, q \in Places(push, clientPos), occupant[q] # 0
  PROVE  occupant[q] = id
<1>1. clientPc \in Pushing
  BY DEF Pushing
<1>2. /\ push \in Pushes /\ Longest < TotalSize /\ TotalSize \in Nat \ {0} /\ Skipped \in Nat
      /\ MemUsed(push) \in Nat \ {0}
      /\ clientPos \in 0..TotalSize - 1 /\ Done \in 0..TotalSize - 1
  BY <1>1, PushIs
<1>3. clientPos \in Pos /\ q \in 0..TotalSize - 1
  BY <1>2 DEF Pos
<1>4. PICK y : y = NextPos(push, clientPos)
  OBVIOUS
<1>5. y = NextIn(TotalSize, push, clientPos)
  BY <1>4, NextPosIn
<1>6. /\ y \in Pos /\ Step(TotalSize, push, clientPos, y)
      /\ \/ push.kind = "words" /\ push.n \in 1..TotalSize - 1
         \/ push.kind = "blob" /\ push.n \in 0..TotalSize - 1
  BY <1>2, <1>3, <1>5, PushStep
<1>7. PICK m \in Nat \ {0} : m = MemUsed(push)
  BY <1>2
<1>8. \/ clientPos <= q /\ q < clientPos + m
      \/ y < m /\ TotalSize <= clientPos + m /\ q < y
  BY <1>2, <1>3, <1>4, <1>6, <1>7, PlacesAre
<1>9. y \in 0..TotalSize - 1
  BY <1>6 DEF Pos
<1>10. \/ y = clientPos + m
       \/ y < m /\ TotalSize <= clientPos + m /\ y + TotalSize <= clientPos + m + Skipped
  BY <1>6, <1>7 DEF Step
<1>11. ASSUME NEW a, NEW b, LegsHere(a, b), Between(a, b, q) PROVE FALSE
  <2>1. a \in 0..TotalSize - 1 /\ b \in 0..TotalSize - 1 /\ Legs(TotalSize, Done, a, b, clientPos, m)
    BY <1>7, <1>11 DEF LegsHere, Pos
  <2> QED BY <1>2, <1>3, <1>8, <1>9, <1>10, <1>11, <2>1, LegsApart
<1>12. ~(serverPc = "read" /\ Between(Done, header.dataOffset, q))
  BY <1>1, <1>11, AllLegs
<1>13. ASSUME NEW k \in 1..Len(Queue), Between(Offset(k - 1), Queue[k].dataOffset, q) PROVE FALSE
  <2>1. Offset(k) = Queue[k].dataOffset
    BY QueueIs
  <2>2. LegsHere(Offset(k - 1), Offset(k))
    BY <1>1, AllLegs
  <2> QED BY <1>11, <1>13, <2>1, <2>2
<1> QED BY <1>12, <1>13 DEF OwnedInv

(* What moves no position and no command keeps them in order. *)
LEMMA OrderKept ==
  ASSUME OrderInv, OwnedInv, ring' = ring, Queue' = Queue, Base' = Base,
         UNCHANGED <<occupant, clientPos, layout, serverDataPos, serverPos, startPos, id>>,
         (serverPc' = serverPc /\ UNCHANGED <<header, toRead>>) \/ (serverPc # "read" /\ serverPc' # "read"),
         clientPc' = "idle" <=> clientPc = "idle",
         clientPc' \in Pushing => Len(layout) < MaxPushes
  PROVE  OrderInv' /\ OwnedInv' /\ (FallAhead => FallAhead')
<1>1. TotalSize' = TotalSize /\ Pos' = Pos /\ Done' = Done
  BY DEF TotalSize, Pos, Done
<1>2. CountInv'
  BY DEF OrderInv, CountInv
<1>3. PlaceInv'
  BY <1>1 DEF OrderInv, PlaceInv, Offset
<1>4. PulledInv'
  BY <1>1 DEF OrderInv, PulledInv
<1>5. OwnedInv'
  BY <1>1 DEF OwnedInv, Offset
<1>6. FallAhead => FallAhead'
  BY DEF FallAhead, Offset
<1> QED BY <1>2, <1>3, <1>4, <1>5, <1>6 DEF OrderInv

(* The client begins a command, *)
LEMMA WideBegin ==
  ASSUME IInv, Wide, WideInv, BeginCommand, ring' = ring
  PROVE  WideInv'
<1> USE DEF clientRingVars, serverRingVars, syncVars
<1>1. RingType /\ OffsetInv /\ OrderInv /\ OwnedInv /\ LapInv
  BY DEF IInv, WideInv
<1>2. /\ clientPc = "idle" /\ clientPc' = "command" /\ startPos' = clientPos /\ Queue' = Queue /\ Base' = Base
      /\ UNCHANGED <<unpublished, inQueue, occupant, header, toRead, serverPc, serverPos, serverDataPos,
                     clientPos, layout, serverResetPosRequired>>
  BY DEF BeginCommand, Queue, Base
<1>3. TotalSize' = TotalSize /\ Pos' = Pos /\ Done' = Done
  BY <1>2 DEF TotalSize, Pos, Done
<1>4. layout = <<>> /\ Offset(Len(Queue)) = clientPos
  BY <1>1, <1>2, NoneLeads DEF OrderInv, PlaceInv, OffsetInv
<1>5. CountInv'
  BY <1>1, <1>2 DEF OrderInv, CountInv, Pushing
<1>6. PlaceInv'
  BY <1>1, <1>2, <1>3, <1>4 DEF OrderInv, PlaceInv, Offset
<1>7. PulledInv'
  BY <1>1, <1>2, <1>3 DEF OrderInv, PulledInv
<1>8. OwnedInv'
  BY <1>1, <1>2, <1>3 DEF OwnedInv, Offset
<1>9. StepInv'
  BY <1>2 DEF StepInv, Synced
<1>10. LapInv'
  BY <1>1, <1>2 DEF LapInv, FallAhead, Offset, Synced
<1> QED BY <1>5, <1>6, <1>7, <1>8, <1>9, <1>10 DEF WideInv, OrderInv

(* asks where a push would end, *)
LEMMA WideSend ==
  ASSUME IInv, Wide, WideInv, NEW p \in Pushes, Send(p), ring' = ring
  PROVE  WideInv'
<1> USE DEF clientRingVars, serverRingVars, syncVars
<1>1. RingType /\ OffsetInv /\ OrderInv /\ OwnedInv /\ LapInv
  BY DEF IInv, WideInv
<1>2. /\ clientPc = "command" /\ Len(layout) < MaxPushes /\ Queue' = Queue /\ Base' = Base
      /\ push' = p /\ expectedPos' = clientPos + MemUsed(p) - 1
      /\ clientPc' = IF clientPos + MemUsed(p) - 1 >= TotalSize THEN "wrap" ELSE "test"
      /\ UNCHANGED <<unpublished, inQueue, occupant, header, toRead, serverPc, serverPos, serverDataPos,
                     clientPos, layout, serverResetPosRequired, startPos, id>>
  BY DEF Send, Queue, Base
<1>3. OrderInv' /\ OwnedInv' /\ (FallAhead => FallAhead')
  BY <1>1, <1>2, OrderKept
<1>4. TotalSize' = TotalSize /\ MemUsed(push)' = MemUsed(p) /\ TotalSize \in Int /\ clientPos \in Int /\ MemUsed(p) \in Int
  BY <1>1, <1>2, LongestIs, Sizes DEF TotalSize, MemUsed, RingType
<1>5. StepInv'
  BY <1>2, <1>4 DEF StepInv, Synced, Over, Expects
<1>6. LapInv'
  BY <1>1, <1>2, <1>3 DEF LapInv, Synced
<1> QED BY <1>3, <1>5, <1>6 DEF WideInv

(* asks for the roll-over, and no lap is owed, *)
LEMMA WideWrap ==
  ASSUME IInv, Wide, WideInv, Wrap, ring' = ring
  PROVE  WideInv' /\ clientPc' # "overwrite"
<1> USE DEF clientRingVars, serverRingVars, syncVars
<1>1. RingType /\ OffsetInv /\ OrderInv /\ OwnedInv /\ StepInv /\ LapInv
  BY DEF IInv, WideInv
<1>2. clientPc = "wrap" /\ Over /\ expectedPos = clientPos + MemUsed(push) - 1
  BY <1>1 DEF Wrap, StepInv
<1>3. ~serverResetPosRequired
  BY <1>1, <1>2, LapFree
<1>4. /\ clientPc' = "test" /\ Queue' = Queue /\ Base' = Base /\ push' = push
      /\ expectedPos' = IF push.kind = "blob" THEN MemUsed(push) - 1 ELSE expectedPos - TotalSize
      /\ UNCHANGED <<unpublished, inQueue, occupant, header, toRead, serverPc, serverPos, serverDataPos,
                     clientPos, layout, startPos, id>>
  BY <1>3 DEF Wrap, Queue, Base
<1>5. Len(layout) < MaxPushes
  BY <1>1, <1>2 DEF OrderInv, CountInv, Pushing
<1>6. OrderInv' /\ OwnedInv'
  BY <1>1, <1>2, <1>4, <1>5, OrderKept
<1>7. TotalSize' = TotalSize /\ MemUsed(push)' = MemUsed(push)
  BY <1>4 DEF TotalSize, MemUsed
<1>8. Over'
  BY <1>2, <1>4, <1>7 DEF Over
<1>9. TotalSize \in Int /\ clientPos \in Int /\ MemUsed(push) \in Int
  BY <1>1, <1>2, PushIs DEF Pushing
<1>10. StepInv'
  <2>1. Expects(TotalSize, push, clientPos, expectedPos')
    BY <1>2, <1>4, <1>9 DEF Expects, Over
  <2> QED BY <1>4, <1>7, <2>1 DEF StepInv, Synced
<1>11. LapInv'
  BY <1>4, <1>8 DEF LapInv, Synced
<1> QED BY <1>4, <1>6, <1>10, <1>11 DEF WideInv

(* looks at the position of the server, its copy and the live one, *)
LEMMA WideTest ==
  ASSUME IInv, Wide, WideInv, Test \/ Reread \/ Retest, ring' = ring
  PROVE  WideInv' /\ clientPc' # "overwrite"
<1> USE DEF clientRingVars, serverRingVars, syncVars
<1>1. RingType /\ OffsetInv /\ OrderInv /\ OwnedInv /\ StepInv /\ LapInv
  BY DEF IInv, WideInv
<1>2. /\ clientPc \in Synced /\ Queue' = Queue /\ Base' = Base
      /\ UNCHANGED <<unpublished, inQueue, occupant, header, toRead, serverPc, serverPos, serverDataPos,
                     clientPos, layout, startPos, id, push, expectedPos, serverResetPosRequired>>
  BY DEF Test, Reread, Retest, Synced, Queue, Base
<1>3. Expects(TotalSize, push, clientPos, expectedPos)
  BY <1>1, <1>2 DEF StepInv
<1>4. ~wouldOverwrite(serverDataPos)
  BY <1>1, <1>2, <1>3, LiveFree
<1>5. clientPc = "retest" => ~wouldOverwrite(cachedServerPos)
  BY <1>1 DEF StepInv
<1>6. /\ clientPc' \in {"reread", "retest", "write"}
      /\ clientPc' = "retest" => ~wouldOverwrite(cachedServerPos')
  BY <1>4, <1>5 DEF Test, Reread, Retest
<1>7. Len(layout) < MaxPushes /\ clientPc # "idle"
  BY <1>1, <1>2 DEF OrderInv, CountInv, Pushing, Synced
<1>8. OrderInv' /\ OwnedInv' /\ (FallAhead => FallAhead')
  BY <1>1, <1>2, <1>6, <1>7, OrderKept
<1>9. TotalSize' = TotalSize
  BY DEF TotalSize
<1>10. StepInv'
  <2>1. clientPc' = "retest" => ~wouldOverwrite(cachedServerPos)'
    BY <1>2, <1>6 DEF wouldOverwrite
  <2>2. Expects(TotalSize, push, clientPos, expectedPos)'
    BY <1>2, <1>3, <1>9 DEF Expects, MemUsed
  <2> QED BY <1>6, <2>1, <2>2 DEF StepInv, Synced
<1>11. LapInv'
  BY <1>1, <1>2, <1>6, <1>8, <1>9 DEF LapInv, Synced, Over, MemUsed
<1> QED BY <1>6, <1>8, <1>10, <1>11 DEF WideInv

(* writes, over nothing the server has not processed, *)
LEMMA WideWrite ==
  ASSUME IInv, Wide, WideInv, Write, ring' = ring
  PROVE  WideInv' /\ \A p \in Pos : occupant[p] # 0 => occupant'[p] = occupant[p]
<1> USE DEF clientRingVars, serverRingVars, syncVars
<1>1. RingType /\ OffsetInv /\ OrderInv /\ OwnedInv /\ StepInv /\ LapInv
  BY DEF IInv, WideInv
<1>2. /\ clientPc = "write" /\ clientPc' = "command" /\ Queue' = Queue /\ Base' = Base
      /\ occupant' = [p \in Pos |-> IF p \in Places(push, clientPos) THEN id ELSE occupant[p]]
      /\ clientPos' = NextPos(push, clientPos) /\ layout' = Append(layout, push)
      /\ UNCHANGED <<unpublished, inQueue, header, toRead, serverPc, serverPos, serverDataPos, startPos,
                     id, serverResetPosRequired>>
  BY DEF Write, Queue, Base
<1>3. clientPc \in Pushing /\ clientPc # "idle" /\ clientPc \in Synced
  BY <1>2 DEF Pushing, Synced
<1>4. /\ push \in Pushes /\ Longest < TotalSize /\ TotalSize \in Nat \ {0} /\ Skipped \in Nat
      /\ MemUsed(push) \in Nat \ {0} /\ MemUsed(push) <= Longest /\ clientPos \in 0..TotalSize - 1
  BY <1>1, <1>3, PushIs
<1>5. PICK y : y = NextPos(push, clientPos)
  OBVIOUS
<1>6. y = NextIn(TotalSize, push, clientPos)
  BY <1>5, NextPosIn
<1>60. clientPos \in Pos
  BY <1>4 DEF Pos
<1>7. /\ y \in Pos /\ Step(TotalSize, push, clientPos, y)
      /\ \/ push.kind = "words" /\ push.n \in 1..TotalSize - 1
         \/ push.kind = "blob" /\ push.n \in 0..TotalSize - 1
  BY <1>1, <1>4, <1>6, <1>60, PushStep
<1>8. PICK m \in Nat \ {0} : m = MemUsed(push)
  BY <1>4
<1>9. y \in 0..TotalSize - 1
  BY <1>7 DEF Pos
<1>10. \/ y = clientPos + m
       \/ y < m /\ TotalSize <= clientPos + m /\ y + TotalSize <= clientPos + m + Skipped
  BY <1>7, <1>8 DEF Step
<1>11. Len(layout) < MaxPushes /\ layout \in Seq(Pushes)
  BY <1>1, <1>3 DEF RingType, OrderInv, CountInv
<1>12. PICK c \in Nat : Advances(TotalSize, startPos, clientPos, c) /\ c + Longest <= Command
  BY <1>1, <1>3, <1>11, BuiltAdvances
<1>13. startPos \in Pos
  BY <1>1, <1>3, BuiltAdvances
<1>14. 3 * (c + m) + Skipped <= TotalSize
  <2>1. Longest \in Nat /\ Command \in Nat /\ 3 * Command + Skipped <= TotalSize
    BY <1>1, WideSizes
  <2> QED BY <1>4, <1>8, <1>12, <2>1
<1>15. startPos \in 0..TotalSize - 1
  BY <1>13 DEF Pos
<1>16. /\ \A q \in 0..TotalSize - 1 : Between(startPos, clientPos, q) => Between(startPos, y, q)
       /\ \A q \in 0..TotalSize - 1 :
            (\/ clientPos <= q /\ q < clientPos + m
             \/ y < m /\ TotalSize <= clientPos + m /\ q < y) => Between(startPos, y, q)
       /\ startPos > clientPos => startPos > y
       /\ clientPos + m - 1 >= TotalSize => startPos > y
  BY <1>4, <1>8, <1>9, <1>10, <1>12, <1>14, <1>15, OwnWords
<1>17. \A q \in Pos : q \in Places(push, clientPos) => Between(startPos, y, q)
  <2> SUFFICES ASSUME NEW q \in Pos, q \in Places(push, clientPos) PROVE Between(startPos, y, q)
    OBVIOUS
  <2>1. \/ clientPos <= q /\ q < clientPos + m
        \/ y < m /\ TotalSize <= clientPos + m /\ q < y
    BY <1>4, <1>5, <1>6, <1>60, <1>7, <1>8, PlacesAre
  <2>2. q \in 0..TotalSize - 1
    BY DEF Pos
  <2> QED BY <1>16, <2>1, <2>2
<1>18. TotalSize' = TotalSize /\ Pos' = Pos /\ Done' = Done
  BY <1>2 DEF TotalSize, Pos, Done
<1>19. CountInv'
  <2>1. Len(layout') = Len(layout) + 1 /\ Len(layout) \in Nat /\ MaxPushes \in Nat
    BY <1>1, <1>2, <1>4, <1>11, AppendProperties, LongestIs
  <2>2. Len(layout') <= MaxPushes
    BY <1>11, <2>1
  <2> QED BY <1>1, <1>2, <2>2 DEF OrderInv, CountInv, Pushing
<1>20. PlaceInv'
  BY <1>1, <1>2, <1>3, <1>5, <1>7, <1>18 DEF OrderInv, PlaceInv, Offset
<1>21. PulledInv'
  BY <1>1, <1>2, <1>18 DEF OrderInv, PulledInv
<1>22. OwnedInv'
  <2>1. ASSUME NEW p \in Pos, occupant'[p] # 0
        PROVE  \/ serverPc = "read" /\ occupant'[p] = header.id /\ Between(Done, header.dataOffset, p)
               \/ \E k \in 1..Len(Queue) : occupant'[p] = Queue[k].id /\ Between(Offset(k - 1), Queue[k].dataOffset, p)
               \/ occupant'[p] = id /\ Between(startPos, y, p)
    <3>1. CASE p \in Places(push, clientPos)
      BY <1>2, <1>17, <3>1
    <3>2. CASE p \notin Places(push, clientPos)
      <4>1. occupant'[p] = occupant[p] /\ p \in 0..TotalSize - 1
        BY <1>2, <3>2 DEF Pos
      <4> QED BY <1>1, <1>16, <2>1, <4>1 DEF OwnedInv
    <3> QED BY <3>1, <3>2
  <2> QED BY <1>2, <1>3, <1>5, <1>18, <2>1 DEF OwnedInv, Offset
<1>23. StepInv'
  BY <1>2 DEF StepInv, Synced
<1>24. LapInv'
  <2>1. Over => startPos > y
    BY <1>8, <1>16 DEF Over
  <2>2. FallAhead \/ Over => FallAhead'
    BY <1>2, <1>3, <1>5, <1>16, <2>1 DEF FallAhead, Offset
  <2> QED BY <1>1, <1>2, <1>3, <2>2 DEF LapInv
<1>25. ASSUME NEW p \in Pos, occupant[p] # 0 PROVE occupant'[p] = occupant[p]
  <2>1. p \in Places(push, clientPos) => occupant[p] = id
    BY <1>1, <1>2, <1>25, WriteFree
  <2> QED BY <1>2, <2>1
<1> QED BY <1>19, <1>20, <1>21, <1>22, <1>23, <1>24, <1>25 DEF WideInv, OrderInv

(* ends the command, *)
LEMMA WideEnd ==
  ASSUME IInv, Wide, WideInv, EndCommand, ring' = ring
  PROVE  WideInv'
<1> USE DEF clientRingVars, serverRingVars, syncVars
<1>1. RingType /\ OffsetInv /\ OrderInv /\ OwnedInv /\ LapInv
  BY DEF IInv, WideInv
<1> DEFINE h == [id |-> id, layout |-> layout, dataOffset |-> clientPos]
<1>2. h \in Headers /\ h.layout = layout /\ h.dataOffset = clientPos /\ h.id = id
  BY <1>1 DEF Headers, RingType, EndCommand
<1> HIDE DEF h
<1>3. /\ Len(Queue) \in Nat /\ Len(Queue') = Len(Queue) + 1
      /\ \A k \in 1..Len(Queue) + 1 : Queue'[k] = IF k <= Len(Queue) THEN Queue[k] ELSE h
  BY <1>1, <1>2, EndQueue DEF h
<1>4. /\ clientPc = "command" /\ clientPc' = "idle" /\ Base' = Base /\ layout' = <<>>
      /\ UNCHANGED <<occupant, header, toRead, serverPc, serverPos, serverDataPos, clientPos,
                     serverResetPosRequired>>
  BY DEF EndCommand, Base
<1>5. PICK L \in Nat : L = Len(Queue)
  BY <1>3
<1>6. Len(Queue') = L + 1 /\ Queue'[L + 1] = h /\ \A k \in 1..L : Queue'[k] = Queue[k]
  BY <1>3, <1>5
<1>7. \A k \in 0..L : Offset(k)' = Offset(k)
  BY <1>4, <1>6 DEF Offset
<1>8. \A k \in 1..L : Offset(k - 1)' = Offset(k - 1)
  BY <1>5, <1>7
<1>9. startPos = Offset(L) /\ Offset((L + 1) - 1)' = startPos
  <2>1. startPos = Offset(L)
    BY <1>1, <1>4, <1>5 DEF OrderInv, PlaceInv
  <2>2. (L + 1) - 1 = L /\ L \in 0..L
    BY <1>5
  <2>3. Offset(L)' = Offset(L)
    BY <1>7, <2>2
  <2> QED BY <2>1, <2>2, <2>3
<1>10. TotalSize' = TotalSize /\ Pos' = Pos /\ Done' = Done
  BY <1>4 DEF TotalSize, Pos, Done
<1>11. CountInv'
  <2>1. Len(layout') <= MaxPushes /\ Len(h.layout) <= MaxPushes
    <3>1. Len(layout') = 0 /\ MaxPushes \in Nat
      BY <1>1, <1>4, LongestIs
    <3> QED BY <1>1, <1>2, <3>1 DEF OrderInv, CountInv
  <2>2. \A k \in 1..L + 1 : Len(Queue'[k].layout) <= MaxPushes
    <3> SUFFICES ASSUME NEW k \in 1..L + 1 PROVE Len(Queue'[k].layout) <= MaxPushes
      OBVIOUS
    <3>1. k = L + 1 \/ k \in 1..L
      BY <1>5
    <3> QED BY <1>1, <1>5, <1>6, <2>1, <3>1 DEF OrderInv, CountInv
  <2> QED BY <1>4, <1>6, <2>1, <2>2 DEF CountInv, Pushing
<1>12. PlaceInv'
  BY <1>1, <1>4, <1>10 DEF OrderInv, PlaceInv
<1>13. PulledInv'
  BY <1>1, <1>4, <1>10 DEF OrderInv, PulledInv
<1>14. OwnedInv'
  <2> SUFFICES ASSUME NEW p \in Pos, occupant[p] # 0
               PROVE  \/ serverPc = "read" /\ occupant[p] = header.id /\ Between(Done, header.dataOffset, p)
                      \/ \E k \in 1..L + 1 : occupant[p] = Queue'[k].id /\ Between(Offset(k - 1)', Queue'[k].dataOffset, p)
    BY <1>4, <1>6, <1>10 DEF OwnedInv
  <2>1. CASE serverPc = "read" /\ occupant[p] = header.id /\ Between(Done, header.dataOffset, p)
    BY <2>1
  <2>2. CASE \E k \in 1..L : occupant[p] = Queue[k].id /\ Between(Offset(k - 1), Queue[k].dataOffset, p)
    <3>1. PICK k \in 1..L : occupant[p] = Queue[k].id /\ Between(Offset(k - 1), Queue[k].dataOffset, p)
      BY <2>2
    <3>2. k \in 1..L + 1 /\ Queue'[k] = Queue[k] /\ Offset(k - 1)' = Offset(k - 1)
      BY <1>5, <1>6, <1>8
    <3> QED BY <3>1, <3>2
  <2>3. CASE occupant[p] = id /\ Between(startPos, clientPos, p)
    <3>1. L + 1 \in 1..L + 1
      BY <1>5
    <3> QED BY <1>2, <1>6, <1>9, <2>3, <3>1
  <2> QED BY <1>1, <1>5, <2>1, <2>2, <2>3 DEF OwnedInv
<1>15. StepInv'
  BY <1>4 DEF StepInv, Synced
<1>16. LapInv'
  <2> SUFFICES ASSUME FallAhead PROVE FallAhead'
    BY <1>1, <1>4 DEF LapInv, Synced
  <2>1. CASE serverPc = "read" /\ serverPos > header.dataOffset
    BY <1>4, <2>1 DEF FallAhead
  <2>2. CASE \E k \in 1..L : Offset(k - 1) > Queue[k].dataOffset
    <3>1. PICK k \in 1..L : Offset(k - 1) > Queue[k].dataOffset
      BY <2>2
    <3>2. k \in 1..L + 1 /\ Queue'[k] = Queue[k] /\ Offset(k - 1)' = Offset(k - 1)
      BY <1>5, <1>6, <1>8
    <3>3. \E j \in 1..Len(Queue') : Offset(j - 1)' > Queue'[j].dataOffset
      BY <1>6, <3>1, <3>2
    <3> QED BY <3>3 DEF FallAhead
  <2>3. CASE startPos > clientPos
    <3>1. L + 1 \in 1..L + 1
      BY <1>5
    <3>2. \E j \in 1..Len(Queue') : Offset(j - 1)' > Queue'[j].dataOffset
      BY <1>2, <1>6, <1>9, <2>3, <3>1
    <3> QED BY <3>2 DEF FallAhead
  <2> QED BY <1>5, <2>1, <2>2, <2>3 DEF FallAhead
<1> QED BY <1>11, <1>12, <1>13, <1>14, <1>15, <1>16 DEF WideInv, OrderInv

(* and publishes. *)
LEMMA WideFlush ==
  ASSUME IInv, Wide, WideInv, FlushBatch, ring' = ring
  PROVE  WideInv'
<1> USE DEF clientRingVars, serverRingVars, syncVars
<1>1. RingType /\ OffsetInv /\ OrderInv /\ OwnedInv /\ StepInv /\ LapInv
  BY DEF IInv, WideInv
<1>2. /\ Base' = Base /\ inQueue' = inQueue \o unpublished /\ unpublished' = <<>> /\ clientPc \in {"idle", "command"}
      /\ UNCHANGED <<occupant, header, toRead, serverPc, serverPos, serverDataPos, clientPos, layout,
                     startPos, id, serverResetPosRequired, clientPc>>
  BY DEF FlushBatch, Base
<1>3. Queue' = Queue
  BY <1>1, <1>2, PublishQueue
<1>4. OrderInv' /\ OwnedInv' /\ (FallAhead => FallAhead')
  <2>1. clientPc' \in Pushing => Len(layout) < MaxPushes
    BY <1>2 DEF Pushing
  <2> QED BY <1>1, <1>2, <1>3, <2>1, OrderKept
<1>5. StepInv'
  BY <1>2 DEF StepInv, Synced
<1>6. LapInv'
  BY <1>1, <1>2, <1>4 DEF LapInv, Synced
<1> QED BY <1>4, <1>5, <1>6 DEF WideInv

(* What the server does leaves the push under way alone. *)
LEMMA StepKept ==
  ASSUME StepInv, ring' = ring, UNCHANGED clientRingVars, serverResetPosRequired' => serverResetPosRequired
  PROVE  StepInv'
<1>1. TotalSize' = TotalSize
  BY DEF TotalSize
<1>2. UNCHANGED <<clientPc, push, clientPos, startPos, expectedPos, cachedServerPos>>
  BY DEF clientRingVars
<1>3. Over' <=> Over
  BY <1>1, <1>2 DEF Over, MemUsed
<1>4. Expects(TotalSize, push, clientPos, expectedPos)' <=> Expects(TotalSize, push, clientPos, expectedPos)
  BY <1>1, <1>2 DEF Expects, MemUsed
<1>5. wouldOverwrite(cachedServerPos)' => wouldOverwrite(cachedServerPos)
  BY <1>2 DEF wouldOverwrite
<1> QED BY <1>2, <1>3, <1>4, <1>5 DEF StepInv, MemUsed

(* The server takes a header, *)
LEMMA WidePop ==
  ASSUME IInv, Wide, WideInv, PopHeader, ring' = ring
  PROVE  WideInv'
<1> USE DEF clientRingVars, serverRingVars, syncVars
<1>1. RingType /\ OffsetInv /\ OrderInv /\ OwnedInv /\ StepInv /\ LapInv
  BY DEF IInv, WideInv
<1>2. /\ inQueue # <<>> /\ inQueue' = Tail(inQueue) /\ UNCHANGED unpublished
      /\ serverPc = "idle" /\ serverPc' = "read" /\ header' = Head(inQueue) /\ toRead' = Head(inQueue).layout
      /\ UNCHANGED <<occupant, serverPos, serverDataPos, clientPos, layout, startPos, id, clientPc,
                     push, serverResetPosRequired>>
  BY DEF PopHeader
<1>3. /\ header' = Queue[1] /\ toRead' = Queue[1].layout /\ Queue[1] \in Headers
      /\ Len(Queue) \in Nat \ {0} /\ Len(Queue') = Len(Queue) - 1
      /\ \A k \in 1..Len(Queue') : Queue'[k] = Queue[k + 1]
  BY <1>1, <1>2, PullQueue
<1>4. PICK M \in Nat : Len(Queue) = M + 1 /\ Len(Queue') = M
  <2>1. Len(Queue) - 1 \in Nat /\ (Len(Queue) - 1) + 1 = Len(Queue)
    BY <1>3
  <2> QED BY <1>3, <2>1
<1>5. \A k \in 1..M : Queue'[k] = Queue[k + 1]
  BY <1>3, <1>4
<1>6. ASSUME NEW k \in 0..M PROVE Offset(k)' = Offset(k + 1)
  <2>1. CASE k = 0
    BY <1>2, <1>3, <2>1 DEF Offset, Base
  <2>2. CASE k # 0
    <3>1. k \in 1..M /\ k + 1 # 0
      BY <2>2
    <3> QED BY <1>5, <2>2, <3>1 DEF Offset
  <2> QED BY <2>1, <2>2
<1>7. Offset(0) = serverPos /\ serverPos = Done /\ 1 - 1 = 0 /\ 1 \in 1..M + 1
  BY <1>1, <1>2, <1>4 DEF Offset, Base, OrderInv, PlaceInv
<1>8. ASSUME NEW j \in 1..M + 1
      PROVE  \/ j = 1
             \/ \E k \in 1..M : Queue[j] = Queue'[k] /\ Offset(j - 1) = Offset(k - 1)'
  <2> SUFFICES ASSUME j # 1 PROVE \E k \in 1..M : Queue[j] = Queue'[k] /\ Offset(j - 1) = Offset(k - 1)'
    OBVIOUS
  <2>1. PICK k \in 1..M : j = k + 1
    <3>1. j - 1 \in 1..M /\ j = (j - 1) + 1
      OBVIOUS
    <3> QED BY <3>1
  <2>2. k - 1 \in 0..M /\ j - 1 = (k - 1) + 1
    BY <2>1
  <2>3. Offset(k - 1)' = Offset(j - 1)
    BY <1>6, <2>2
  <2> QED BY <1>5, <2>1, <2>3
<1>9. TotalSize' = TotalSize /\ Pos' = Pos /\ Done' = Done
  BY <1>2 DEF TotalSize, Pos, Done
<1>10. Len(toRead') <= MaxPushes /\ CountInv'
  <2>1. \A k \in 1..M : k + 1 \in 1..M + 1
    OBVIOUS
  <2>2. \A k \in 1..M : Len(Queue'[k].layout) <= MaxPushes
    BY <1>1, <1>4, <1>5, <2>1 DEF OrderInv, CountInv
  <2>3. Len(toRead') <= MaxPushes
    BY <1>1, <1>3, <1>4, <1>7 DEF OrderInv, CountInv
  <2> QED BY <1>1, <1>2, <1>4, <2>2, <2>3 DEF OrderInv, CountInv
<1>11. PlaceInv'
  <2>1. Offset(M)' = Offset(M + 1)
    <3>1. M \in 0..M
      BY <1>4
    <3> QED BY <1>6, <3>1
  <2> QED BY <1>1, <1>2, <1>4, <1>9, <2>1 DEF OrderInv, PlaceInv
<1>12. PulledInv'
  <2>1. Longest \in Nat /\ MaxPushes \in Nat /\ TotalSize \in Nat
    BY <1>1, WideSizes
  <2>2. Done \in Nat
    BY <1>1, <2>1, DoneToBase DEF Pos
  <2>3. Advances(TotalSize, Done, serverPos, 0 * Longest)
    <3>1. 0 * Longest = 0 /\ 0 \in Nat
      BY <2>1
    <3> QED BY <1>7, <2>2, <3>1, AdvanceNone
  <2>4. toRead' \in Seq(Pushes)
    BY <1>3 DEF Headers
  <2>5. 0 \in 0..MaxPushes /\ 0 + Len(toRead') <= MaxPushes
    BY <1>10, <2>1, <2>4
  <2> QED BY <1>2, <1>9, <2>3, <2>5 DEF PulledInv
<1>13. OwnedInv'
  <2> SUFFICES ASSUME NEW p \in Pos, occupant[p] # 0
               PROVE  \/ occupant[p] = header'.id /\ Between(Done, header'.dataOffset, p)
                      \/ \E k \in 1..M : occupant[p] = Queue'[k].id /\ Between(Offset(k - 1)', Queue'[k].dataOffset, p)
                      \/ clientPc # "idle" /\ occupant[p] = id /\ Between(startPos, clientPos, p)
    BY <1>2, <1>4, <1>9 DEF OwnedInv
  <2>1. CASE \E k \in 1..M + 1 : occupant[p] = Queue[k].id /\ Between(Offset(k - 1), Queue[k].dataOffset, p)
    <3>1. PICK j \in 1..M + 1 : occupant[p] = Queue[j].id /\ Between(Offset(j - 1), Queue[j].dataOffset, p)
      BY <2>1
    <3>2. CASE j = 1
      BY <1>3, <1>7, <3>1, <3>2
    <3>3. CASE \E k \in 1..M : Queue[j] = Queue'[k] /\ Offset(j - 1) = Offset(k - 1)'
      BY <3>1, <3>3
    <3> QED BY <1>8, <3>2, <3>3
  <2>2. CASE clientPc # "idle" /\ occupant[p] = id /\ Between(startPos, clientPos, p)
    BY <2>2
  <2> QED BY <1>1, <1>2, <1>4, <2>1, <2>2 DEF OwnedInv
<1>14. StepInv'
  BY <1>1, StepKept DEF PopHeader
<1>15. LapInv'
  <2>1. FallAhead => FallAhead'
    <3>1. ASSUME NEW j \in 1..M + 1, Offset(j - 1) > Queue[j].dataOffset PROVE FallAhead'
      <4>1. CASE j = 1
        <5>1. serverPos > header'.dataOffset
          BY <1>3, <1>7, <3>1, <4>1
        <5> QED BY <1>2, <5>1 DEF FallAhead
      <4>2. CASE \E k \in 1..M : Queue[j] = Queue'[k] /\ Offset(j - 1) = Offset(k - 1)'
        <5>1. \E k \in 1..Len(Queue') : Offset(k - 1)' > Queue'[k].dataOffset
          BY <1>4, <3>1, <4>2
        <5> QED BY <5>1 DEF FallAhead
      <4> QED BY <1>8, <4>1, <4>2
    <3>2. clientPc # "idle" /\ startPos > clientPos => FallAhead'
      BY <1>2 DEF FallAhead
    <3> QED BY <1>2, <1>4, <3>1, <3>2 DEF FallAhead
  <2> QED BY <1>1, <1>2, <1>9, <2>1 DEF LapInv, Over, MemUsed
<1> QED BY <1>10, <1>11, <1>12, <1>13, <1>14, <1>15 DEF WideInv, OrderInv

(* pulls a push of it, and the lap it may complete, *)
LEMMA WidePull ==
  ASSUME IInv, Wide, WideInv, Pull, ring' = ring
  PROVE  WideInv'
<1> USE DEF clientRingVars, serverRingVars, syncVars
<1>1. RingType /\ OffsetInv /\ OrderInv /\ OwnedInv /\ StepInv /\ LapInv
  BY DEF IInv, WideInv
<1>2. /\ serverPc = "read" /\ toRead # <<>> /\ toRead' = Tail(toRead) /\ serverPos' = NextIn(TotalSize, Head(toRead), serverPos)
      /\ serverResetPosRequired' => serverResetPosRequired /\ ~(serverPos' < serverPos)
      /\ UNCHANGED <<unpublished, inQueue, occupant, header, serverPc, serverDataPos, clientPos, layout,
                     startPos, id, clientPc, push>>
  BY NextPosIn DEF Pull
<1>3. Queue' = Queue /\ Base' = Base
  BY <1>2 DEF Queue, Base
<1>4. TotalSize' = TotalSize /\ Pos' = Pos /\ Done' = Done
  BY <1>2 DEF TotalSize, Pos, Done
<1>5. /\ Head(toRead) \in Pushes /\ Len(toRead) \in Nat \ {0} /\ Len(toRead') = Len(toRead) - 1
  BY <1>1, <1>2, EmptySeq, HeadTailProperties DEF RingType
<1>6. PICK c \in 0..MaxPushes : Advances(TotalSize, Done, serverPos, c * Longest) /\ c + Len(toRead) <= MaxPushes
  BY <1>1, <1>2 DEF OrderInv, PulledInv
<1>7. /\ Longest \in Nat /\ Skipped \in Nat /\ MaxPushes \in Nat /\ Command \in Nat
      /\ TotalSize \in Nat \ {0} /\ 3 * Command + Skipped <= TotalSize /\ Command < TotalSize
  BY <1>1, WideSizes
<1>8. c + 1 \in 0..MaxPushes /\ c \in Nat /\ (c + 1) + Len(toRead') <= MaxPushes
  BY <1>5, <1>6, <1>7
<1>9. (c + 1) * Longest = c * Longest + Longest /\ c * Longest \in Nat /\ (c + 1) * Longest <= Command
  BY <1>1, <1>7, <1>8, Times, WideSizes
<1>10. PICK i \in Nat : i = c * Longest
  BY <1>9
<1>11. i + Longest <= Command /\ Longest < TotalSize /\ i + Longest + Skipped <= TotalSize
  BY <1>7, <1>9, <1>10
<1>12. serverPos \in Pos /\ Done \in Pos
  BY <1>1, DoneToBase DEF OrderInv, PlaceInv
<1>13. serverPos' \in Pos /\ Advances(TotalSize, serverPos, serverPos', Longest)
  BY <1>1, <1>2, <1>5, <1>11, <1>12, PushStep
<1>14. Done \in Nat /\ serverPos \in Nat /\ serverPos' \in Nat
  BY <1>12, <1>13 DEF Pos
<1>15. Advances(TotalSize, Done, serverPos', i + Longest)
  BY <1>6, <1>7, <1>10, <1>11, <1>13, <1>14, AdvanceOn
<1>16. CountInv'
  BY <1>1, <1>2, <1>3 DEF OrderInv, CountInv
<1>17. PlaceInv'
  BY <1>1, <1>2, <1>3, <1>4, <1>13 DEF OrderInv, PlaceInv, Offset
<1>18. PulledInv'
  <2>1. Advances(TotalSize, Done, serverPos', (c + 1) * Longest)
    BY <1>9, <1>10, <1>15
  <2> QED BY <1>2, <1>4, <1>8, <2>1 DEF PulledInv
<1>19. OwnedInv'
  BY <1>1, <1>2, <1>3, <1>4 DEF OwnedInv, Offset
<1>20. StepInv'
  BY <1>1, <1>2, StepKept DEF Pull
<1>21. LapInv'
  <2> SUFFICES ASSUME serverResetPosRequired' PROVE (FallAhead \/ (clientPc \in Synced /\ Over))'
    BY DEF LapInv
  <2>1. header.dataOffset \in Int
    BY <1>1 DEF RingType
  <2>2. serverPos > header.dataOffset => serverPos' > header.dataOffset
    BY <1>2, <1>14, <2>1
  <2>3. FallAhead => FallAhead'
    BY <1>2, <1>3, <2>2 DEF FallAhead, Offset
  <2>4. FallAhead \/ (clientPc \in Synced /\ Over)
    BY <1>1, <1>2 DEF LapInv
  <2> QED BY <1>2, <1>4, <2>3, <2>4 DEF Over, MemUsed
<1> QED BY <1>16, <1>17, <1>18, <1>19, <1>20, <1>21 DEF WideInv, OrderInv

(* frees the data of the command, *)
LEMMA WideProcessed ==
  ASSUME IInv, Wide, WideInv, Processed, ring' = ring
  PROVE  WideInv' /\ \A p \in Pos : occupant'[p] \in {0, occupant[p]}
<1> USE DEF clientRingVars, serverRingVars, syncVars
<1>1. RingType /\ OffsetInv /\ OrderInv /\ OwnedInv /\ StepInv /\ LapInv
  BY DEF IInv, WideInv
<1>2. /\ serverPc = "read" /\ toRead = <<>> /\ serverPc' = "check" /\ serverDataPos' = serverPos
      /\ occupant' = [p \in Pos |-> IF occupant[p] = header.id THEN 0 ELSE occupant[p]]
      /\ UNCHANGED <<unpublished, inQueue, header, toRead, serverPos, clientPos, layout, startPos, id,
                     clientPc, push, serverResetPosRequired>>
  BY DEF Processed
<1>3. serverPos = header.dataOffset
  BY <1>1, <1>2, NoneLeads DEF OffsetInv
<1>4. Queue' = Queue /\ Base' = Base
  BY <1>2, <1>3 DEF Queue, Base
<1>5. serverPos \in Pos /\ serverPos # -1 /\ serverPos \in Int
  BY <1>1 DEF OrderInv, PlaceInv, Pos
<1>6. TotalSize' = TotalSize /\ Pos' = Pos /\ Done' = serverPos
  BY <1>2, <1>5 DEF TotalSize, Pos, Done
<1>7. CountInv'
  BY <1>1, <1>2, <1>4 DEF OrderInv, CountInv
<1>8. PlaceInv'
  BY <1>1, <1>2, <1>4, <1>5, <1>6 DEF OrderInv, PlaceInv, Offset
<1>9. PulledInv'
  BY <1>2 DEF PulledInv
<1>10. \A p \in Pos : occupant'[p] = IF occupant[p] = header.id THEN 0 ELSE occupant[p]
  BY <1>2
<1>11. OwnedInv'
  BY <1>1, <1>2, <1>4, <1>6, <1>10 DEF OwnedInv, Offset
<1>12. StepInv'
  BY <1>1, <1>2, StepKept DEF Processed
<1>13. LapInv'
  <2>1. FallAhead => FallAhead'
    BY <1>2, <1>3, <1>4, <1>5 DEF FallAhead, Offset
  <2> QED BY <1>1, <1>2, <1>6, <2>1 DEF LapInv, Over, MemUsed
<1> QED BY <1>7, <1>8, <1>9, <1>10, <1>11, <1>12, <1>13 DEF WideInv, OrderInv

(* and looks for a request. *)
LEMMA WideCheck ==
  ASSUME IInv, Wide, WideInv, CheckRequest \/ Compare \/ ClearRequest, ring' = ring
  PROVE  WideInv'
<1> USE DEF clientRingVars, serverRingVars, syncVars
<1>1. RingType /\ OffsetInv /\ OrderInv /\ OwnedInv /\ StepInv /\ LapInv
  BY DEF IInv, WideInv
<1>2. /\ serverPc # "read" /\ serverPc' # "read" /\ Queue' = Queue /\ Base' = Base
      /\ UNCHANGED <<unpublished, inQueue, occupant, serverPos, serverDataPos, clientPos, layout,
                     startPos, id, clientPc, push, serverResetPosRequired>>
  BY DEF CheckRequest, Compare, ClearRequest, Queue, Base
<1>3. OrderInv' /\ OwnedInv' /\ (FallAhead => FallAhead')
  <2>1. clientPc' \in Pushing => Len(layout) < MaxPushes
    BY <1>1, <1>2 DEF OrderInv, CountInv
  <2> QED BY <1>1, <1>2, <2>1, OrderKept
<1>4. StepInv'
  BY <1>1, <1>2, StepKept DEF CheckRequest, Compare, ClearRequest
<1>5. TotalSize' = TotalSize
  BY DEF TotalSize
<1>6. LapInv'
  BY <1>1, <1>2, <1>3, <1>5 DEF LapInv, Over, MemUsed
<1> QED BY <1>3, <1>4, <1>6 DEF WideInv

(* Nothing is under way at the start. *)
LEMMA InitWide == InitRing => (Wide => WideInv)
<1> SUFFICES ASSUME InitRing, Wide PROVE WideInv
  OBVIOUS
<1>1. Queue = <<>> /\ Len(Queue) = 0
  BY ConcatEmptySeq DEF InitRing, Queue
<1>2. RingType
  BY InitIInv DEF IInv
<1>3. MaxPushes \in Nat /\ TotalSize \in Nat \ {0}
  BY <1>2, WideSizes
<1>4. CountInv
  BY <1>1, <1>3 DEF InitRing, CountInv, Pushing
<1>5. PlaceInv
  BY <1>3 DEF InitRing, PlaceInv, Pos, Done
<1>6. PulledInv /\ OwnedInv /\ StepInv /\ LapInv
  BY DEF InitRing, PulledInv, OwnedInv, StepInv, LapInv, Synced
<1> QED BY <1>4, <1>5, <1>6 DEF WideInv, OrderInv

(* A step is one of those that keep the invariant. *)
LEMMA WideStep ==
  ASSUME IInv, Wide, WideInv, RingNext
  PROVE  WideInv' /\ (\A p \in Pos : occupant[p] # 0 => occupant'[p] \in {0, occupant[p]}) /\ clientPc' # "overwrite"
<1> USE DEF clientRingVars, serverRingVars, syncVars
<1>1. ring' = ring /\ (Client \/ Server)
  BY DEF RingNext
<1>2. /\ clientPc \notin {"overwrite", "wait", "waitForever", "granted", "wrapped"}
  BY DEF WideInv, StepInv, Synced
<1>3. CASE BeginCommand
  <2>1. WideInv'
    BY <1>1, <1>3, WideBegin
  <2> QED BY <1>3, <2>1 DEF BeginCommand
<1>4. ASSUME NEW p \in Pushes, Send(p)
      PROVE  WideInv' /\ occupant' = occupant /\ clientPc' # "overwrite"
  <2>1. WideInv'
    BY <1>1, <1>4, WideSend
  <2> QED BY <1>4, <2>1 DEF Send
<1>5. CASE Wrap
  <2>1. WideInv' /\ clientPc' # "overwrite"
    BY <1>1, <1>5, WideWrap
  <2> QED BY <1>5, <2>1 DEF Wrap
<1>6. CASE Test \/ Reread \/ Retest
  <2>1. WideInv' /\ clientPc' # "overwrite"
    BY <1>1, <1>6, WideTest
  <2> QED BY <1>6, <2>1 DEF Test, Reread, Retest
<1>7. CASE Write
  <2>1. WideInv' /\ \A p \in Pos : occupant[p] # 0 => occupant'[p] = occupant[p]
    BY <1>1, <1>7, WideWrite
  <2> QED BY <1>7, <2>1 DEF Write
<1>8. CASE EndCommand
  <2>1. WideInv'
    BY <1>1, <1>8, WideEnd
  <2> QED BY <1>8, <2>1 DEF EndCommand
<1>9. CASE FlushBatch
  <2>1. WideInv'
    BY <1>1, <1>9, WideFlush
  <2> QED BY <1>2, <1>9, <2>1 DEF FlushBatch
<1>10. ~(Wrapped \/ RequestSpace \/ Granted \/ RetriesExhausted \/ ResumePush)
  BY <1>2 DEF Wrapped, RequestSpace, Granted, RetriesExhausted, ResumePush, Waits
<1>11. CASE PopHeader
  <2>1. WideInv'
    BY <1>1, <1>11, WidePop
  <2> QED BY <1>2, <1>11, <2>1 DEF PopHeader
<1>12. CASE Pull
  <2>1. WideInv'
    BY <1>1, <1>12, WidePull
  <2> QED BY <1>2, <1>12, <2>1 DEF Pull
<1>13. CASE Processed
  <2>1. WideInv' /\ \A p \in Pos : occupant'[p] \in {0, occupant[p]}
    BY <1>1, <1>13, WideProcessed
  <2> QED BY <1>2, <1>13, <2>1 DEF Processed
<1>14. CASE CheckRequest \/ Compare \/ ClearRequest
  <2>1. WideInv'
    BY <1>1, <1>14, WideCheck
  <2> QED BY <1>2, <1>14, <2>1 DEF CheckRequest, Compare, ClearRequest
<1>15. CASE \E p \in Pushes : Send(p)
  BY <1>4, <1>15
<1> QED
  BY <1>1, <1>3, <1>5, <1>6, <1>7, <1>8, <1>9, <1>10, <1>11, <1>12, <1>13, <1>14, <1>15 DEF Client, Server

(* In a ring that takes all the words the command queue lets through, no    *)
(* push of the client goes over data of a command the server has not        *)
(* processed, and syncDataQueue never makes the client wait: for rings,     *)
(* queues, batches and pushes of any size, and however old the client's     *)
(* copy of the server's position is.                                        *)
THEOREM WideNeverOverwrites == RingSpec => NoUnreadOverwritten
<1> DEFINE Inv == IInv /\ (Wide => WideInv)
           Free == Wide => /\ \A p \in Pos : occupant[p] # 0 => occupant'[p] \in {0, occupant[p]}
                           /\ clientPc' # "overwrite"
<1>1. InitRing => Inv
  BY InitIInv, InitWide
<1>2. Inv /\ [RingNext]_ringVars => Inv' /\ [Free]_ringVars
  <2> SUFFICES ASSUME Inv, [RingNext]_ringVars PROVE Inv' /\ [Free]_ringVars
    OBVIOUS
  <2>1. IInv'
    BY NextIInv
  <2>2. CASE UNCHANGED ringVars
    <3>1. (Wide => WideInv)'
      <4>1. UNCHANGED <<ring, unpublished, inQueue, occupant, header, toRead, serverPc, serverPos,
                        serverDataPos, clientPos, layout, startPos, id, clientPc, push,
                        serverResetPosRequired>>
        BY <2>2 DEF ringVars, clientRingVars, serverRingVars, syncVars
      <4>2. UNCHANGED clientRingVars
        BY <2>2 DEF ringVars
      <4>3. Wide' <=> Wide
        BY <4>1 DEF Wide, TotalSize, CmdCapacity, MemUsed, Pushes
      <4>4. Queue' = Queue /\ Base' = Base /\ TotalSize' = TotalSize
        BY <4>1 DEF Queue, Base, TotalSize
      <4>5. ASSUME WideInv PROVE WideInv'
        <5>1. OrderInv' /\ OwnedInv' /\ (FallAhead => FallAhead')
          <6>1. clientPc' \in Pushing => Len(layout) < MaxPushes
            BY <4>1, <4>5 DEF WideInv, OrderInv, CountInv
          <6> QED BY <4>1, <4>4, <4>5, <6>1, OrderKept DEF WideInv
        <5>2. StepInv'
          BY <4>1, <4>2, <4>5, StepKept DEF WideInv
        <5>3. LapInv'
          BY <4>1, <4>4, <4>5, <5>1 DEF WideInv, LapInv, Over, MemUsed
        <5> QED BY <5>1, <5>2, <5>3 DEF WideInv
      <4> QED BY <4>3, <4>5
    <3> QED BY <2>1, <2>2, <3>1
  <2>3. CASE RingNext
    <3>1. Wide' <=> Wide
      <4>1. ring' = ring
        BY <2>3 DEF RingNext
      <4> QED BY <4>1 DEF Wide, TotalSize, CmdCapacity, MemUsed, Pushes
    <3>2. Wide => WideInv' /\ (\A p \in Pos : occupant[p] # 0 => occupant'[p] \in {0, occupant[p]}) /\ clientPc' # "overwrite"
      BY <2>3, WideStep
    <3> QED BY <2>1, <3>1, <3>2
  <2> QED BY <2>2, <2>3
<1> QED
  BY <1>1, <1>2, PTL DEF RingSpec, NoUnreadOverwritten

=================================================================================
