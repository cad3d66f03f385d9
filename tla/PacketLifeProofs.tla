---------------------------- MODULE PacketLifeProofs ----------------------------
(***************************************************************************)
(* Proofs about PacketLife for any number of packets, any payloads, tags,  *)
(* nodes and deadlines, and any pool, lane and clock bounds: every handle  *)
(* and cell is accounted for, packets are values, and what they say of     *)
(* time survives copies, recycling and the wire.                           *)
(***************************************************************************)
EXTENDS PacketLife, FiniteSetTheorems, SequenceTheorems, TLAPS

-----------------------------------------------------------------------------
(* What a cell may hold.                                                   *)

MetaSet ==
    [session : Nat, ttl : 0 .. DefaultTtl, deadline : Nat \cup {NoDeadline}, created : Int,
     tracing : Tracing, trace : Seq(Nodes), stamps : Seq(Nat),
     pushed : BOOLEAN]
ValueSet ==
    [kind : {"packet"}, id : Nat, payload : Bodies \cup {EmptyPayload}, tags : SUBSET Tag, meta : MetaSet]
WireSet ==
    [kind : {"wire"}, value : ValueSet, expired : BOOLEAN, ago : Nat, left : SUBSET Nat]

(* The stamps of a trace are in order, none above age, and there is one for *)
(* each hop of a detailed trace that was recorded throughout.              *)
Timely(meta, age) ==
    /\ ~meta.pushed => Len(meta.stamps) = IF meta.tracing = "detailed" THEN Len(meta.trace) ELSE 0
    /\ \A i \in 1 .. Len(meta.stamps) :
         meta.stamps[i] <= age /\ \A j \in 1 .. i : meta.stamps[j] <= meta.stamps[i]

(* A packet made and changed by the operations of Packet alone, as seen at *)
(* instant t when n identities have been handed out.                       *)
Sound(v, t, n) ==
    /\ v \in ValueSet /\ v.id <= n /\ v.meta.session \in 1 .. n
    /\ v.meta.created <= t /\ Len(v.meta.trace) <= MaxHops
    /\ Timely(v.meta, MillisBetween(t, v.meta.created))

-----------------------------------------------------------------------------
(* The reference-counted cells.                                            *)

(* Every cell is referenced by the handles that point to it.               *)
Referenced ==
    /\ cell \in [Handles -> Cells \cup {0}]
    /\ heap \in [Cells -> ValueSet \cup {Nothing}]
    /\ \A c \in Cells : heap[c] # Nothing <=> \E h \in Handles : cell[h] = c

(* A packet is never mistaken for an empty cell.                           *)
LEMMA PacketsAreSomething == Nothing \notin ValueSet /\ \A v \in ValueSet : v # Nothing
<1>1. \A v \in ValueSet : v.kind = "packet"
  BY DEF ValueSet
<1>2. Nothing.kind = "none"
  BY DEF Nothing
<1>. QED
  BY <1>1, <1>2

(* There is one cell per packet that can exist.                            *)
LEMMA CellCount ==
  /\ IsFiniteSet(Cells) /\ Cardinality(Cells) = Cardinality(Handles)
  /\ Cardinality(Handles) \in Nat /\ 0 \notin Cells
<1>1. Cardinality(Handles) \in Nat
  BY PacketAssumption, FS_CardinalityType
<1>. QED
  BY <1>1, FS_Interval DEF Cells

(* A new packet finds a free cell, and so does the copy of a shared one:   *)
(* the packets besides it are too few to point to every cell.              *)
LEMMA FreeCellExists ==
  ASSUME Referenced, NEW h \in Handles, ~Exists(h) \/ Shared(h)
  PROVE  FreeCell \in Cells /\ heap[FreeCell] = Nothing
<1>. SUFFICES \E c \in Cells : heap[c] = Nothing
  BY DEF FreeCell
<1>. SUFFICES ASSUME \A c \in Cells : heap[c] # Nothing PROVE FALSE
  OBVIOUS
<1>. DEFINE S == {g \in Handles \ {h} : cell[g] # 0}
            f == [g \in S |-> cell[g]]
<1>1. \A c \in Cells : \E g \in S : f[g] = c
  <2>. TAKE c \in Cells
  <2>1. PICK g \in Handles : cell[g] = c
    BY DEF Referenced
  <2>2. c # 0
    BY CellCount
  <2>3. CASE g # h
    BY <2>1, <2>2, <2>3
  <2>4. CASE g = h
    <3>1. Shared(h)
      BY <2>1, <2>2, <2>4 DEF Exists
    <3>2. PICK k \in Handles \ {h} : cell[h] = cell[k]
      BY <3>1 DEF Shared
    <3>. QED
      BY <2>1, <2>2, <2>4, <3>2
  <2>. QED
    BY <2>3, <2>4
<1>2. f \in Surjection(S, Cells)
  <2>1. f \in [S -> Cells]
    BY DEF Referenced
  <2>. QED
    BY <1>1, <2>1 DEF Surjection
<1>3. IsFiniteSet(Handles \ {h}) /\ Cardinality(Handles \ {h}) = Cardinality(Handles) - 1
  BY PacketAssumption, FS_RemoveElement
<1>4. S \in SUBSET (Handles \ {h})
  OBVIOUS
<1>. HIDE DEF S, f
<1>5. IsFiniteSet(S) /\ Cardinality(S) <= Cardinality(Handles) - 1
  BY <1>3, <1>4, FS_Subset
<1>6. Cardinality(Cells) <= Cardinality(S)
  BY <1>2, <1>5, FS_Surjection
<1>7. Cardinality(S) \in Nat
  BY <1>5, FS_CardinalityType
<1>. QED
  BY <1>5, <1>6, <1>7, CellCount

(* Nobody but h is touched.                                                *)
OthersKept(h) ==
    \A g \in Handles \ {h} : cell'[g] = cell[g] /\ (Exists(g) => heap'[cell[g]] = heap[cell[g]])

(* Putting a value in a new cell, or in the place of what h pointed to     *)
(* after copying it if it is shared: no other handle sees it.              *)
LEMMA Written ==
  ASSUME Referenced, NEW h \in Handles, NEW v \in ValueSet,
         \/ ~Exists(h) /\ Allocate(h, v)
         \/ Exists(h) /\ MakeMut(h, v)
  PROVE  /\ Referenced' /\ OthersKept(h)
         /\ cell'[h] # 0 /\ heap'[cell'[h]] = v
<1>t. cell \in [Handles -> Cells \cup {0}] /\ heap \in [Cells -> ValueSet \cup {Nothing}] /\ 0 \notin Cells
  BY CellCount DEF Referenced
<1>v. v # Nothing
  BY PacketsAreSomething
<1>1. CASE ~Exists(h) \/ Shared(h)
  <2>1. FreeCell \in Cells /\ heap[FreeCell] = Nothing
    BY <1>1, FreeCellExists
  <2>2. Allocate(h, v)
    BY <1>1 DEF MakeMut
  <2>. DEFINE c == FreeCell
  <2>3. cell' = [cell EXCEPT ![h] = c] /\ heap' = [heap EXCEPT ![c] = v]
    BY <2>2 DEF Allocate
  <2>. HIDE DEF c
  <2>4. c \in Cells /\ heap[c] = Nothing
    BY <2>1 DEF c
  <2>5. \A g \in Handles : cell[g] # c
    BY <2>4 DEF Referenced
  <2>6. \A g \in Handles \ {h} : cell'[g] = cell[g] /\ (Exists(g) => heap'[cell[g]] = heap[cell[g]])
    BY <1>t, <2>3, <2>4, <2>5 DEF Exists
  <2>7. cell'[h] = c /\ heap'[c] = v /\ c # 0
    BY <1>t, <2>3, <2>4
  <2>8. ASSUME NEW d \in Cells PROVE heap'[d] # Nothing <=> \E g \in Handles : cell'[g] = d
    <3>1. CASE d = c
      BY <1>v, <2>7, <3>1
    <3>2. CASE d # c
      <4>1. heap'[d] = heap[d]
        BY <1>t, <2>3, <3>2
      <4>2. cell[h] = d => Exists(h)
        BY <1>t DEF Exists
      <4>3. cell[h] = d => \E g \in Handles \ {h} : cell[g] = d
        BY <1>1, <4>2 DEF Shared
      <4>. QED
        BY <2>6, <2>7, <3>2, <4>1, <4>3 DEF Referenced
    <3>. QED
      BY <3>1, <3>2
  <2>9. cell' \in [Handles -> Cells \cup {0}] /\ heap' \in [Cells -> ValueSet \cup {Nothing}]
    BY <1>t, <2>3, <2>4
  <2>. QED
    BY <2>6, <2>7, <2>8, <2>9 DEF Referenced, OthersKept
<1>2. CASE Exists(h) /\ ~Shared(h)
  <2>1. heap' = [heap EXCEPT ![cell[h]] = v] /\ cell' = cell
    BY <1>2 DEF MakeMut
  <2>2. cell[h] \in Cells /\ \A g \in Handles \ {h} : cell[g] # cell[h]
    BY <1>2, <1>t DEF Exists, Shared
  <2>. QED
    BY <1>t, <1>v, <2>1, <2>2 DEF Referenced, OthersKept, Exists
<1>. QED
  BY <1>1, <1>2

(* Dropping a handle frees its cell if nobody else points to it.           *)
LEMMA Freed ==
  ASSUME Referenced, NEW h \in Handles, Exists(h), Free(h)
  PROVE  Referenced' /\ OthersKept(h) /\ cell'[h] = 0
<1>t. cell \in [Handles -> Cells \cup {0}] /\ heap \in [Cells -> ValueSet \cup {Nothing}] /\ 0 \notin Cells
  BY CellCount DEF Referenced
<1>1. cell[h] \in Cells /\ cell' = [cell EXCEPT ![h] = 0]
  BY <1>t DEF Exists, Free
<1>2. CASE Shared(h)
  <2>1. heap' = heap
    BY <1>2 DEF Free
  <2>2. \E g \in Handles \ {h} : cell[g] = cell[h]
    BY <1>2 DEF Shared
  <2>. QED
    BY <1>t, <1>1, <2>1, <2>2 DEF Referenced, OthersKept
<1>3. CASE ~Shared(h)
  <2>1. heap' = [heap EXCEPT ![cell[h]] = Nothing]
    BY <1>3 DEF Free
  <2>2. \A g \in Handles \ {h} : cell[g] # cell[h]
    BY <1>3 DEF Shared
  <2>. QED
    BY <1>t, <1>1, <2>1, <2>2 DEF Referenced, OthersKept, Exists
<1>. QED
  BY <1>2, <1>3
-----------------------------------------------------------------------------
(* What the operations of Packet do to a packet.                           *)

(* Whole milliseconds between two instants: none before the first, more as *)
(* time passes, and exact over an even number of ticks.                    *)
LEMMA Millis ==
  /\ \A s, t \in Int : MillisBetween(s, t) \in Nat
  /\ \A s, t \in Int : s <= t => MillisBetween(s, t) = 0
  /\ \A s, t, u \in Int : s <= t => MillisBetween(s, u) <= MillisBetween(t, u)
  /\ \A t \in Int, k \in Nat : MillisBetween(t, t - TicksPerMs * k) = k
<1>. USE DEF MillisBetween, TicksPerMs
<1>1. \A s, t \in Int : MillisBetween(s, t) \in Nat
  OBVIOUS
<1>2. \A s, t \in Int : s <= t => MillisBetween(s, t) = 0
  OBVIOUS
<1>3. \A s, t, u \in Int : s <= t => MillisBetween(s, u) <= MillisBetween(t, u)
  OBVIOUS
<1>4. \A t \in Int, k \in Nat : MillisBetween(t, t - TicksPerMs * k) = k
  OBVIOUS
<1>. QED
  BY <1>1, <1>2, <1>3, <1>4

(* The clock and the counters, within their bounds.                        *)
Counters ==
    /\ now \in 0 .. MaxTime /\ ids \in 0 .. MaxIds /\ writes \in 0 .. MaxWrites
    /\ given \subseteq 1 .. ids

LEMMA CountersInt == Counters => now \in Int /\ ids \in Int /\ writes \in Int
<1>1. MaxIds \in Nat /\ MaxWrites \in Nat /\ MaxTime \in Nat
  BY PacketAssumption
<1>. QED
  BY <1>1 DEF Counters

(* A packet just made is sound.                                            *)
LEMMA NewSound ==
  ASSUME Counters, NEW body \in Bodies \cup {EmptyPayload}, NEW d \in Nat \cup {NoDeadline},
         NEW tracing \in Tracing, NEW session \in 1 .. ids + 1
  PROVE  LET v == PacketInner(body, Metadata(d, tracing, session))
         IN  v.id = ids + 1 /\ v.meta.session = session /\ Sound(v, now, ids + 1)
<1>. DEFINE m == Metadata(d, tracing, session)
<1>1. /\ m \in MetaSet /\ m.trace = <<>> /\ m.stamps = <<>> /\ m.created = now
      /\ m.session = session /\ m.pushed = FALSE
  <2>1. DefaultTtl \in 0 .. DefaultTtl
    BY PacketAssumption
  <2>2. <<>> \in Seq(Nodes) /\ <<>> \in Seq(Nat) /\ now \in Int /\ session \in Nat
    BY CountersInt
  <2>. QED
    BY <2>1, <2>2 DEF Metadata, MetaSet
<1>. HIDE DEF m
<1>2. LET v == PacketInner(body, m)
      IN  v \in ValueSet /\ v.id = ids + 1 /\ v.meta = m
  <2>1. ids + 1 \in Nat /\ {} \in SUBSET Tag
    BY CountersInt DEF Counters
  <2>. QED
    BY <1>1, <2>1 DEF PacketInner, ValueSet
<1>3. Timely(m, MillisBetween(now, m.created)) /\ m.created <= now /\ Len(m.trace) <= MaxHops
  <2>1. now \in Int /\ MaxHops \in Nat /\ Len(<<>>) = 0
    BY PacketAssumption, CountersInt
  <2>. QED
    BY <1>1, <2>1 DEF Timely
<1>4. ids + 1 \in Int
  BY CountersInt
<1>5. m.session = session
  BY <1>1
<1>. QED
  BY <1>2, <1>3, <1>4, <1>5 DEF m, Sound

(* The same trace and stamps, seen when the packet is older, are in order. *)
LEMMA OlderTimely ==
  ASSUME NEW meta \in MetaSet, NEW age \in Nat, NEW later \in Nat, age <= later,
         Timely(meta, age)
  PROVE  Timely(meta, later)
<1>1. \A i \in 1 .. Len(meta.stamps) : meta.stamps[i] \in Nat
  BY DEF MetaSet
<1>. QED
  BY <1>1 DEF Timely

(* What record_hop and trace_push do to the trace of a packet of this age. *)
Hopped(meta, m2, n, age) ==
    \/ /\ m2.pushed /\ m2.trace = Append(meta.trace, n) /\ m2.stamps = meta.stamps
    \/ /\ m2.pushed = meta.pushed
       /\ m2.trace = IF meta.tracing = "off" THEN meta.trace ELSE Append(meta.trace, n)
       /\ m2.stamps = IF meta.tracing = "detailed" THEN Append(meta.stamps, age) ELSE meta.stamps

(* A hop recorded, or pushed besides, keeps them in order.                 *)
LEMMA HopTimely ==
  ASSUME NEW meta \in MetaSet, NEW age \in Nat, Timely(meta, age), NEW n \in Nodes,
         NEW m2 \in MetaSet, m2.tracing = meta.tracing, Hopped(meta, m2, n, age)
  PROVE  Timely(m2, age) /\ Len(m2.trace) <= Len(meta.trace) + 1
<1>1. meta.trace \in Seq(Nodes) /\ meta.stamps \in Seq(Nat)
  BY DEF MetaSet
<1>2. /\ Len(meta.trace) \in Nat /\ Len(Append(meta.trace, n)) = Len(meta.trace) + 1
      /\ Len(meta.stamps) \in Nat /\ Len(Append(meta.stamps, age)) = Len(meta.stamps) + 1
      /\ \A i \in 1 .. Len(meta.stamps) :
           meta.stamps[i] \in Nat /\ Append(meta.stamps, age)[i] = meta.stamps[i]
      /\ Append(meta.stamps, age)[Len(meta.stamps) + 1] = age
  BY <1>1, AppendProperties, LenProperties, ElementOfSeq
<1>3. Len(m2.trace) <= Len(meta.trace) + 1
  <2>1. m2.trace = meta.trace \/ m2.trace = Append(meta.trace, n)
    BY DEF Hopped
  <2>. QED
    BY <1>2, <2>1
<1>4. ~m2.pushed => Len(m2.stamps) = IF m2.tracing = "detailed" THEN Len(m2.trace) ELSE 0
  BY <1>2 DEF Hopped, Timely
<1>5. ASSUME NEW i \in 1 .. Len(m2.stamps)
      PROVE  m2.stamps[i] <= age /\ \A j \in 1 .. i : m2.stamps[j] <= m2.stamps[i]
  <2>1. CASE m2.stamps = meta.stamps
    BY <2>1 DEF Timely
  <2>2. CASE m2.stamps = Append(meta.stamps, age)
    <3>1. CASE i = Len(meta.stamps) + 1
      <4>1. m2.stamps[i] = age
        BY <1>2, <2>2, <3>1
      <4>2. ASSUME NEW j \in 1 .. i PROVE m2.stamps[j] <= age
        BY <1>2, <2>2, <3>1 DEF Timely
      <4>. QED
        BY <4>1, <4>2
    <3>2. CASE i # Len(meta.stamps) + 1
      <4>1. i \in 1 .. Len(meta.stamps) /\ \A j \in 1 .. i : j \in 1 .. Len(meta.stamps)
        BY <1>2, <2>2, <3>2
      <4>2. m2.stamps[i] = meta.stamps[i] /\ \A j \in 1 .. i : m2.stamps[j] = meta.stamps[j]
        BY <1>2, <2>2, <4>1
      <4>. QED
        BY <4>1, <4>2 DEF Timely
    <3>. QED
      BY <3>1, <3>2
  <2>. QED
    BY <2>1, <2>2 DEF Hopped
<1>. QED
  BY <1>3, <1>4, <1>5 DEF Timely

(* The holder of a packet changes it to another one of the same identity,  *)
(* in the same session.                                                    *)
Rewrites(h) ==
    \E v \in ValueSet : /\ Change(h, v) /\ Sound(v, now, ids)
                       /\ v.id = Value(h).id /\ v.meta.session = Value(h).meta.session

LEMMA ChangeSound ==
  ASSUME Counters, NEW h \in Handles, Held(h), Sound(Value(h), now, ids),
         \/ TakePayload(h) \/ DecrementTtl(h) \/ ResetTtl(h)
         \/ \E b \in Bodies : SetPayload(h, b)
         \/ \E t \in UsedTags : InsertTag(h, t)
         \/ \E n \in Nodes : RecordHop(h, n) \/ TracePush(h, n)
  PROVE  Rewrites(h)
<1>. DEFINE v == Value(h)
            age == MillisBetween(now, v.meta.created)
<1>. HIDE DEF v
<1>v. /\ v \in ValueSet /\ v.meta \in MetaSet /\ v.id <= ids /\ v.meta.session \in 1 .. ids
      /\ v.meta.created <= now /\ Len(v.meta.trace) <= MaxHops /\ Timely(v.meta, age)
  BY DEF Sound, v, ValueSet
<1>a. age \in Nat
  BY <1>v, Millis, CountersInt DEF MetaSet
<1>t. DefaultTtl \in Nat /\ UsedTags \subseteq Tag /\ MaxHops \in Nat
  BY PacketAssumption
<1>1. ASSUME NEW b \in Bodies \cup {EmptyPayload}, SetPayload(h, b) PROVE Rewrites(h)
  <2>1. Change(h, [v EXCEPT !.payload = b])
    BY <1>1 DEF SetPayload, v
  <2>. DEFINE w == [v EXCEPT !.payload = b]
  <2>2. w \in ValueSet /\ w.id = v.id /\ w.meta = v.meta
    BY <1>v DEF ValueSet
  <2>. QED
    BY <1>v, <2>1, <2>2 DEF Rewrites, Sound, v
<1>2. ASSUME NEW t \in UsedTags, InsertTag(h, t) PROVE Rewrites(h)
  <2>1. Change(h, [v EXCEPT !.tags = @ \cup {t}])
    BY <1>2 DEF InsertTag, v
  <2>. DEFINE w == [v EXCEPT !.tags = @ \cup {t}]
  <2>2. w \in ValueSet /\ w.id = v.id /\ w.meta = v.meta
    BY <1>v, <1>t DEF ValueSet
  <2>. QED
    BY <1>v, <2>1, <2>2 DEF Rewrites, Sound, v
<1>3. ASSUME NEW k \in 0 .. DefaultTtl, Change(h, [v EXCEPT !.meta.ttl = k]) PROVE Rewrites(h)
  <2>. DEFINE w == [v EXCEPT !.meta.ttl = k]
  <2>1. w = [v EXCEPT !.meta = [v.meta EXCEPT !.ttl = k]]
    BY <1>v DEF ValueSet
  <2>2. /\ [v.meta EXCEPT !.ttl = k] \in MetaSet
        /\ [v.meta EXCEPT !.ttl = k].created = v.meta.created
        /\ [v.meta EXCEPT !.ttl = k].session = v.meta.session
        /\ [v.meta EXCEPT !.ttl = k].tracing = v.meta.tracing
        /\ [v.meta EXCEPT !.ttl = k].pushed = v.meta.pushed
        /\ [v.meta EXCEPT !.ttl = k].trace = v.meta.trace
        /\ [v.meta EXCEPT !.ttl = k].stamps = v.meta.stamps
    BY <1>v DEF MetaSet
  <2>3. w \in ValueSet /\ w.id = v.id /\ w.meta = [v.meta EXCEPT !.ttl = k]
    BY <1>v, <2>1, <2>2 DEF ValueSet
  <2>. HIDE DEF w
  <2>4. /\ Timely(w.meta, age) /\ w.meta.created = v.meta.created /\ w.meta.trace = v.meta.trace
        /\ w.meta.session = v.meta.session
    BY <1>v, <2>2, <2>3 DEF Timely
  <2>5. Sound(w, now, ids)
    BY <1>v, <2>3, <2>4 DEF Sound
  <2>6. Change(h, w)
    BY <1>3 DEF w
  <2>. QED
    BY <1>v, <2>3, <2>4, <2>5, <2>6 DEF Rewrites, v
<1>4. ASSUME NEW n \in Nodes, NEW tr, NEW st, NEW pu, Len(v.meta.trace) < MaxHops,
             Change(h, [v EXCEPT !.meta.trace = tr, !.meta.stamps = st, !.meta.pushed = pu]),
             \/ pu = TRUE /\ tr = Append(v.meta.trace, n) /\ st = v.meta.stamps
             \/ /\ pu = v.meta.pushed
                /\ tr = IF v.meta.tracing = "off" THEN v.meta.trace ELSE Append(v.meta.trace, n)
                /\ st = IF v.meta.tracing = "detailed" THEN Append(v.meta.stamps, age) ELSE v.meta.stamps
      PROVE  Rewrites(h)
  <2>. DEFINE w == [v EXCEPT !.meta.trace = tr, !.meta.stamps = st, !.meta.pushed = pu]
              m == [v.meta EXCEPT !.trace = tr, !.stamps = st, !.pushed = pu]
  <2>1. w = [v EXCEPT !.meta = m]
    BY <1>v DEF ValueSet
  <2>2. tr \in Seq(Nodes) /\ st \in Seq(Nat) /\ pu \in BOOLEAN
    <3>1. v.meta.trace \in Seq(Nodes) /\ v.meta.stamps \in Seq(Nat) /\ v.meta.pushed \in BOOLEAN
      BY <1>v DEF MetaSet
    <3>2. Append(v.meta.trace, n) \in Seq(Nodes) /\ Append(v.meta.stamps, age) \in Seq(Nat)
      BY <1>a, <3>1
    <3>. QED
      BY <1>4, <3>1, <3>2
  <2>3. /\ m \in MetaSet /\ m.created = v.meta.created /\ m.trace = tr /\ m.stamps = st
        /\ m.pushed = pu /\ m.tracing = v.meta.tracing /\ m.session = v.meta.session
    BY <1>v, <2>2 DEF MetaSet
  <2>. HIDE DEF m
  <2>h. Hopped(v.meta, m, n, age)
    BY <1>4, <2>3 DEF Hopped
  <2>4. Timely(m, age) /\ Len(m.trace) <= Len(v.meta.trace) + 1
    BY <1>v, <1>a, <2>3, <2>h, HopTimely
  <2>5. w \in ValueSet /\ w.id = v.id /\ w.meta = m
    BY <1>v, <2>1, <2>3 DEF ValueSet
  <2>6. Len(m.trace) \in Nat /\ Len(v.meta.trace) \in Nat
    BY <1>v, <2>3 DEF MetaSet
  <2>7. Len(m.trace) <= MaxHops
    BY <1>t, <1>4, <2>4, <2>6
  <2>. HIDE DEF w
  <2>8. Sound(w, now, ids)
    BY <1>v, <2>3, <2>4, <2>5, <2>7 DEF Sound
  <2>. QED
    BY <1>4, <2>3, <2>5, <2>8 DEF Rewrites, w, v
<1>5. CASE TakePayload(h)
  BY <1>1, <1>5 DEF TakePayload
<1>6. CASE DecrementTtl(h) \/ ResetTtl(h)
  <2>1. v.meta.ttl \in 0 .. DefaultTtl
    BY <1>v DEF MetaSet
  <2>2. (IF v.meta.ttl = 0 THEN 0 ELSE v.meta.ttl - 1) \in 0 .. DefaultTtl /\ DefaultTtl \in 0 .. DefaultTtl
    BY <1>t, <2>1
  <2>. QED
    BY <1>3, <1>6, <2>2 DEF DecrementTtl, ResetTtl, v
<1>7. ASSUME NEW n \in Nodes, RecordHop(h, n) \/ TracePush(h, n) PROVE Rewrites(h)
  <2>1. CASE RecordHop(h, n)
    <3>. DEFINE tr == IF v.meta.tracing = "off" THEN v.meta.trace ELSE Append(v.meta.trace, n)
                st == IF v.meta.tracing = "detailed" THEN Append(v.meta.stamps, age) ELSE v.meta.stamps
    <3>1. Len(v.meta.trace) < MaxHops
      BY <2>1 DEF RecordHop, Meta, v
    <3>2. [v EXCEPT !.meta.trace = IF v.meta.tracing = "off" THEN @ ELSE Append(@, n),
                    !.meta.stamps = IF v.meta.tracing = "detailed" THEN Append(@, age) ELSE @]
            = [v EXCEPT !.meta.trace = tr, !.meta.stamps = st, !.meta.pushed = v.meta.pushed]
      BY <1>v DEF ValueSet, MetaSet
    <3>3. Change(h, [v EXCEPT !.meta.trace = tr, !.meta.stamps = st, !.meta.pushed = v.meta.pushed])
      BY <2>1, <3>2 DEF RecordHop, Meta, v
    <3>4. /\ tr = IF v.meta.tracing = "off" THEN v.meta.trace ELSE Append(v.meta.trace, n)
          /\ st = IF v.meta.tracing = "detailed" THEN Append(v.meta.stamps, age) ELSE v.meta.stamps
      OBVIOUS
    <3>. HIDE DEF tr, st
    <3>. QED
      BY <1>4, <3>1, <3>3, <3>4
  <2>2. CASE TracePush(h, n)
    <3>. DEFINE tr == Append(v.meta.trace, n)
    <3>1. [v EXCEPT !.meta.trace = Append(@, n), !.meta.pushed = TRUE]
            = [v EXCEPT !.meta.trace = tr, !.meta.stamps = v.meta.stamps, !.meta.pushed = TRUE]
      BY <1>v DEF ValueSet, MetaSet
    <3>2. /\ Change(h, [v EXCEPT !.meta.trace = Append(@, n), !.meta.pushed = TRUE])
          /\ Len(v.meta.trace) < MaxHops
      BY <2>2 DEF TracePush, Meta, v
    <3>3. Change(h, [v EXCEPT !.meta.trace = tr, !.meta.stamps = v.meta.stamps, !.meta.pushed = TRUE])
      BY <3>1, <3>2
    <3>4. tr = Append(v.meta.trace, n)
      OBVIOUS
    <3>. HIDE DEF tr
    <3>. QED
      BY <1>4, <3>2, <3>3, <3>4
  <2>. QED
    BY <1>7, <2>1, <2>2
<1>. QED
  BY <1>1, <1>2, <1>5, <1>6, <1>7

(* A sound packet stays so as time passes and identities are handed out.   *)
LEMMA SoundLater ==
  ASSUME NEW v, NEW t \in Int, NEW n \in Int, NEW u \in Int, NEW m \in Int,
         t <= u, n <= m, Sound(v, t, n)
  PROVE  Sound(v, u, m)
<1>1. /\ v \in ValueSet /\ v.id \in Int /\ v.id <= n /\ v.meta \in MetaSet
      /\ v.meta.created \in Int /\ v.meta.created <= t /\ v.meta.session \in 1 .. m
  BY DEF Sound, ValueSet, MetaSet
<1>2. /\ MillisBetween(t, v.meta.created) \in Nat /\ MillisBetween(u, v.meta.created) \in Nat
      /\ MillisBetween(t, v.meta.created) <= MillisBetween(u, v.meta.created)
  BY <1>1, Millis
<1>3. Timely(v.meta, MillisBetween(u, v.meta.created))
  BY <1>1, <1>2, OlderTimely DEF Sound
<1>. QED
  BY <1>1, <1>3 DEF Sound

-----------------------------------------------------------------------------
(* The inductive invariant.                                                *)

(* Where handles are: held, in the pool once, or in the lanes.             *)
Placed ==
    /\ pool \in Seq(Handles) /\ IsInjective(pool) /\ Len(pool) <= PoolSize
    /\ lanes \in [1 .. 5 -> Seq(Handles)] /\ \A p \in 1 .. 5 : Len(lanes[p]) <= Capacity
    /\ \A h \in Handles : (Pooled(h) \/ Queued(h) => Exists(h)) /\ ~(Pooled(h) /\ Queued(h))

(* What an encoded packet says of itself, and of the time it was encoded.  *)
WireSound ==
    wire # Nothing =>
      /\ wire \in WireSet
      /\ wire.value.id <= ids /\ Len(wire.value.meta.trace) <= MaxHops
      /\ wire.value.meta.session \in 1 .. ids
      /\ Timely(wire.value.meta, wire.ago)
      /\ wire.left = {} \/ \E ms \in Nat : wire.left = {ms}
      /\ wire.expired => wire.value.meta.ttl = 0 \/ wire.left = {0}

HandlesSound == \A h \in Handles : Exists(h) => Sound(Value(h), now, ids)

LifeInv ==
    /\ Counters /\ open \in BOOLEAN
    /\ Referenced /\ HandlesSound /\ Placed
    /\ RecycledRenamed /\ SessionsApart /\ QueuedByTags /\ WireSound

(* What holds of every reachable state holds of the properties checked.    *)
LEMMA InvTypes == LifeInv => TypeOK
<1>. SUFFICES ASSUME LifeInv PROVE TypeOK
  OBVIOUS
<1>1. ASSUME NEW c \in Cells, heap[c] # Nothing PROVE MetadataType(heap[c].meta)
  <2>1. PICK h \in Handles : cell[h] = c
    BY <1>1 DEF LifeInv, Referenced
  <2>2. Exists(h) /\ Value(h) = heap[c]
    BY <2>1, CellCount DEF Exists, Value
  <2>3. Sound(heap[c], now, ids)
    BY <2>2 DEF LifeInv, HandlesSound
  <2>. QED
    BY <2>3 DEF Sound, ValueSet, MetaSet, MetadataType
<1>2. DOMAIN lanes = 1 .. 5
  BY DEF LifeInv, Placed
<1>. QED
  BY <1>1, <1>2 DEF LifeInv, Counters, Referenced, Placed, TypeOK

(* Whatever packet appears must be in no session of another one, or be     *)
(* given it.                                                               *)
Apart(x) ==
    \A w \in Seen : w.meta.session = x.meta.session /\ w.id # x.id => x.meta.session \in given'

LEMMA SeenApart ==
  ASSUME SessionsApart, given \subseteq given', NEW x, Seen' \subseteq Seen \cup {x}, Apart(x)
  PROVE  SessionsApart'
BY DEF SessionsApart, Apart

LEMMA SeenKept ==
  ASSUME SessionsApart, given \subseteq given', Seen' \subseteq Seen
  PROVE  SessionsApart'
BY DEF SessionsApart

(* A queued or pooled packet exists; one that is held is neither.          *)
LEMMA Whereabouts ==
  ASSUME Placed, NEW h \in Handles, ~Exists(h) \/ Held(h)
  PROVE  ~Pooled(h) /\ ~Queued(h)
BY DEF Placed, Held

-----------------------------------------------------------------------------
(* Steps that change one held packet, or make or drop it.                  *)

(* The rest of the state but the counters of identities and changes.       *)
rest == <<now, pool, lanes, open, wire>>

(* No packet, or none another one or the wire may be mistaken for when it  *)
(* is recycled.                                                            *)
Anonymous(h) ==
    cell'[h] # 0 =>
      /\ Sound(heap'[cell'[h]], now, ids')
      /\ \A g \in Handles : Pooled(g) => heap'[cell'[h]].id # Value(g).id
      /\ Apart(heap'[cell'[h]])

(* Such a step keeps what is true of every other packet.                   *)
LEMMA OneHandle ==
  ASSUME LifeInv, NEW h \in Handles, ~Pooled(h), ~Queued(h), OthersKept(h), Anonymous(h),
         UNCHANGED rest, Referenced', Counters', ids <= ids', given \subseteq given'
  PROVE  LifeInv'
<1>. /\ UNCHANGED now /\ UNCHANGED pool /\ UNCHANGED lanes /\ UNCHANGED open /\ UNCHANGED wire
  BY DEF rest
<1>i. now \in Int /\ ids \in Int /\ ids' \in Int
  BY CountersInt DEF LifeInv, Counters
<1>1. ASSUME NEW g \in Handles \ {h}
      PROVE  /\ Exists(g)' <=> Exists(g)
             /\ Exists(g) => Value(g)' = Value(g)
  BY DEF OthersKept, Exists, Value
<1>2. HandlesSound'
  <2>. SUFFICES ASSUME NEW g \in Handles, Exists(g)' PROVE Sound(Value(g)', now, ids')
    BY DEF HandlesSound
  <2>1. CASE g = h
    BY <2>1 DEF Anonymous, Exists, Value
  <2>2. CASE g # h
    <3>1. Sound(Value(g), now, ids) /\ Value(g)' = Value(g)
      BY <1>1, <2>2 DEF LifeInv, HandlesSound
    <3>2. Sound(Value(g), now, ids')
      BY <1>i, <3>1, SoundLater
    <3>. QED
      BY <3>1, <3>2
  <2>. QED
    BY <2>1, <2>2
<1>3. \A g \in Handles : (Pooled(g)' <=> Pooled(g)) /\ (Queued(g)' <=> Queued(g))
  BY DEF Pooled, Queued
<1>4. Placed'
  BY <1>1, <1>3 DEF LifeInv, Placed
<1>5. RecycledRenamed'
  <2>. SUFFICES ASSUME NEW g \in Handles, Pooled(g)
                PROVE  /\ Value(g)'.payload = EmptyPayload
                       /\ \A k \in Handles \ {g} : Exists(k)' => Value(k)'.id # Value(g)'.id
                       /\ wire # Nothing => wire.value.id # Value(g)'.id
    BY <1>3 DEF RecycledRenamed
  <2>1. g # h /\ Exists(g) /\ Value(g)' = Value(g)
    BY <1>1 DEF LifeInv, Placed
  <2>2. /\ Value(g).payload = EmptyPayload
        /\ \A k \in Handles \ {g} : Exists(k) => Value(k).id # Value(g).id
        /\ wire # Nothing => wire.value.id # Value(g).id
    BY DEF LifeInv, RecycledRenamed
  <2>3. ASSUME NEW k \in Handles \ {g}, Exists(k)' PROVE Value(k)'.id # Value(g).id
    <3>1. CASE k = h
      BY <2>3, <3>1 DEF Anonymous, Exists, Value
    <3>2. CASE k # h
      BY <1>1, <2>2, <2>3, <3>2
    <3>. QED
      BY <3>1, <3>2
  <2>. QED
    BY <2>1, <2>2, <2>3
<1>6. QueuedByTags'
  <2>. SUFFICES ASSUME NEW p \in 1 .. 5, NEW i \in 1 .. Len(lanes[p])
                PROVE  p \in Priorities(lanes[p][i])'
    BY DEF QueuedByTags, LifeInv, Placed
  <2>1. lanes[p][i] \in Handles /\ Queued(lanes[p][i])
    BY DEF LifeInv, Placed, Queued
  <2>2. Value(lanes[p][i])' = Value(lanes[p][i])
    BY <1>1, <2>1 DEF LifeInv, Placed, Value
  <2>3. p \in Priorities(lanes[p][i])
    BY DEF LifeInv, QueuedByTags, Placed
  <2>. QED
    BY <2>2, <2>3 DEF Priorities, FromTags
<1>7. WireSound'
  <2>1. WireSound
    BY DEF LifeInv
  <2>2. wire # Nothing => wire.value.id \in Int
    BY <2>1 DEF WireSound, WireSet, ValueSet
  <2>. QED
    BY <1>i, <2>1, <2>2 DEF WireSound
<1>8. SessionsApart'
  <2>1. CASE cell'[h] = 0
    <3>1. Seen' \subseteq Seen
      BY <1>1, <2>1 DEF Seen, Exists
    <3>. QED
      BY <3>1, SeenKept DEF LifeInv
  <2>2. CASE cell'[h] # 0
    <3>1. Seen' \subseteq Seen \cup {heap'[cell'[h]]}
      BY <1>1 DEF Seen, Value
    <3>. QED
      BY <2>2, <3>1, SeenApart DEF LifeInv, Anonymous
  <2>. QED
    BY <2>1, <2>2
<1>. QED
  BY <1>2, <1>4, <1>5, <1>6, <1>7, <1>8 DEF LifeInv

(* Identities handed out are new to every packet and to the wire.          *)
LEMMA FreshId ==
  ASSUME LifeInv, NEW g \in Handles, Exists(g)
  PROVE  /\ Value(g).id # ids + 1
         /\ Value(g) \in ValueSet /\ Sound(Value(g), now, ids)
<1>1. Sound(Value(g), now, ids)
  BY DEF LifeInv, HandlesSound
<1>2. Value(g).id \in Int /\ Value(g).id <= ids /\ ids \in Int
  BY <1>1, CountersInt DEF Sound, ValueSet, LifeInv
<1>. QED
  BY <1>1, <1>2 DEF Sound

(* Whatever can be seen is in a session founded before.                    *)
LEMMA SeenSession ==
  ASSUME LifeInv, NEW w \in Seen
  PROVE  w.meta.session # ids + 1 /\ w.meta.session \in 1 .. ids
<1>1. w.meta.session \in 1 .. ids
  <2>1. ASSUME NEW g \in Handles, Exists(g), w = Value(g) PROVE w.meta.session \in 1 .. ids
    BY <2>1, FreshId DEF Sound
  <2>2. ASSUME wire # Nothing, w = wire.value PROVE w.meta.session \in 1 .. ids
    BY <2>2 DEF LifeInv, WireSound
  <2>. QED
    BY <2>1, <2>2 DEF Seen
<1>2. ids \in Int
  BY CountersInt DEF LifeInv
<1>. QED
  BY <1>1, <1>2

(* A packet made anew, by new, with_metadata or an empty pool.             *)
LEMMA MakeInv ==
  ASSUME LifeInv, NEW h \in Handles, ~Exists(h), ids < MaxIds,
         NEW body \in Bodies \cup {EmptyPayload}, NEW d \in Nat \cup {NoDeadline},
         NEW tracing \in Tracing, NEW session \in 1 .. ids + 1,
         Allocate(h, PacketInner(body, Metadata(d, tracing, session))),
         ids' = ids + 1, given' = given \cup ({session} \ {Founded}), UNCHANGED rest, UNCHANGED writes
  PROVE  LifeInv' /\ OthersKept(h)
<1>. DEFINE v == PacketInner(body, Metadata(d, tracing, session))
<1>1. v.id = ids + 1 /\ v.meta.session = session /\ Sound(v, now, ids + 1)
  BY NewSound DEF LifeInv
<1>2. Allocate(h, v)
  OBVIOUS
<1>. HIDE DEF v
<1>3. v \in ValueSet
  BY <1>1 DEF Sound
<1>4. /\ Referenced' /\ OthersKept(h)
      /\ cell'[h] # 0 /\ heap'[cell'[h]] = v
  BY <1>2, <1>3, Written DEF LifeInv
<1>5. ~Pooled(h) /\ ~Queued(h)
  BY Whereabouts DEF LifeInv
<1>6. Anonymous(h)
  <2>1. \A g \in Handles : Pooled(g) => Value(g).id # ids + 1
    BY FreshId DEF LifeInv, Placed
  <2>2. Apart(v)
    BY <1>1, SeenSession DEF Apart, Founded
  <2>. QED
    BY <1>1, <1>4, <2>1, <2>2 DEF Anonymous
<1>7. Counters' /\ ids <= ids' /\ given \subseteq given'
  <2>1. ids \in Int /\ MaxIds \in Int
    BY PacketAssumption, CountersInt DEF LifeInv
  <2>2. given' \subseteq 1 .. ids + 1
    BY <2>1 DEF LifeInv, Counters, Founded
  <2>. QED
    BY <2>1, <2>2 DEF LifeInv, Counters, rest
<1>. QED
  BY <1>4, <1>5, <1>6, <1>7, OneHandle

(* What can be seen is apart, and so is a packet that says the same of     *)
(* itself.                                                                 *)
LEMMA KnownApart ==
  ASSUME LifeInv, NEW h \in Handles, Exists(h), NEW w \in Seen,
         w.meta.session = Value(h).meta.session, w.id # Value(h).id
  PROVE  w.meta.session \in given
BY DEF LifeInv, SessionsApart, Seen

(* A packet changed by its holder.                                         *)
LEMMA RewriteInv ==
  ASSUME LifeInv, NEW h \in Handles, Rewrites(h)
  PROVE  LifeInv' /\ OthersKept(h)
<1>. PICK v \in ValueSet : /\ Change(h, v) /\ Sound(v, now, ids)
                           /\ v.id = Value(h).id /\ v.meta.session = Value(h).meta.session
  BY DEF Rewrites
<1>1. /\ Held(h) /\ MakeMut(h, v) /\ writes < MaxWrites /\ writes' = writes + 1
      /\ UNCHANGED <<now, ids, given, pool, lanes, open, wire>>
  BY DEF Change
<1>2. Exists(h) /\ ~Pooled(h) /\ ~Queued(h)
  BY <1>1 DEF Held
<1>3. /\ Referenced' /\ OthersKept(h)
      /\ cell'[h] # 0 /\ heap'[cell'[h]] = v
  BY <1>1, <1>2, Written DEF LifeInv
<1>4. Anonymous(h)
  <2>1. \A g \in Handles : Pooled(g) => v.id # Value(g).id
    BY <1>2 DEF LifeInv, RecycledRenamed
  <2>2. Apart(v)
    BY <1>1, <1>2, KnownApart DEF Apart
  <2>. QED
    BY <1>1, <1>3, <2>1, <2>2 DEF Anonymous
<1>5. Counters' /\ ids <= ids' /\ UNCHANGED rest /\ UNCHANGED given
  <2>1. ids \in Int /\ writes \in Int /\ MaxWrites \in Int
    BY PacketAssumption, CountersInt DEF LifeInv
  <2>. QED
    BY <1>1, <2>1 DEF LifeInv, Counters, rest
<1>. QED
  BY <1>2, <1>3, <1>4, <1>5, OneHandle

(* A packet dropped, by its holder or by a full pool.                      *)
LEMMA FreeInv ==
  ASSUME LifeInv, NEW h \in Handles, Held(h), Free(h), UNCHANGED rest, Counters', ids <= ids', UNCHANGED given
  PROVE  LifeInv' /\ OthersKept(h)
<1>1. Exists(h) /\ ~Pooled(h) /\ ~Queued(h)
  BY DEF Held
<1>2. Referenced' /\ OthersKept(h) /\ cell'[h] = 0
  BY <1>1, Freed DEF LifeInv
<1>. QED
  BY <1>1, <1>2, OneHandle DEF Anonymous

(* A clone shares the cell of what it is a clone of.                       *)
LEMMA CloneInv ==
  ASSUME LifeInv, NEW h \in Handles, NEW g \in Handles, Clone(h, g)
  PROVE  LifeInv' /\ OthersKept(g)
<1>1. /\ Exists(h) /\ ~Pooled(h) /\ ~Exists(g) /\ h # g
      /\ cell' = [cell EXCEPT ![g] = cell[h]] /\ heap' = heap
      /\ UNCHANGED <<now, ids, given, writes, pool, lanes, open, wire>>
  BY DEF Clone, Held
<1>2. /\ cell \in [Handles -> Cells \cup {0}] /\ cell[h] # 0 /\ cell[g] = 0 /\ 0 \notin Cells
  BY <1>1, CellCount DEF LifeInv, Referenced, Exists
<1>3. OthersKept(g) /\ cell'[g] = cell[h]
  BY <1>1, <1>2 DEF OthersKept
<1>4. Referenced'
  BY <1>1, <1>2 DEF LifeInv, Referenced
<1>5. ~Pooled(g) /\ ~Queued(g)
  BY <1>1, Whereabouts DEF LifeInv
<1>6. Anonymous(g)
  <2>1. Sound(Value(h), now, ids)
    BY <1>1 DEF LifeInv, HandlesSound
  <2>2. \A k \in Handles : Pooled(k) => Value(h).id # Value(k).id
    BY <1>1 DEF LifeInv, RecycledRenamed
  <2>3. Apart(Value(h))
    BY <1>1, KnownApart DEF Apart
  <2>. QED
    BY <1>1, <1>3, <2>1, <2>2, <2>3 DEF Anonymous, Value
<1>7. Counters' /\ ids <= ids' /\ UNCHANGED rest /\ UNCHANGED given
  <2>1. ids \in Int
    BY CountersInt DEF LifeInv
  <2>. QED
    BY <1>1, <2>1 DEF LifeInv, Counters, rest
<1>. QED
  BY <1>3, <1>4, <1>5, <1>6, <1>7, OneHandle

-----------------------------------------------------------------------------
(* The wire.                                                               *)

(* An encoded packet says what it said, its instants rounded.              *)
LEMMA EncodeInv ==
  ASSUME LifeInv, NEW h \in Handles, Encode(h)
  PROVE  LifeInv'
<1>. DEFINE v == Value(h)
<1>1. /\ Held(h) /\ wire' = [kind |-> "wire", value |-> v, expired |-> IsExpired(v.meta),
                             ago |-> CreatedAgo(v.meta), left |-> DeadlineLeft(v.meta)]
      /\ UNCHANGED <<now, ids, given, writes, cell, heap, pool, lanes, open>>
  BY DEF Encode, Meta
<1>. HIDE DEF v
<1>2. Exists(h) /\ ~Pooled(h)
  BY <1>1 DEF Held
<1>3. Sound(v, now, ids) /\ v \in ValueSet /\ v.meta \in MetaSet /\ now \in Int
  BY <1>2, FreshId, CountersInt DEF v, LifeInv, ValueSet
<1>4. CreatedAgo(v.meta) = MillisBetween(now, v.meta.created) /\ CreatedAgo(v.meta) \in Nat
  BY <1>3, Millis DEF CreatedAgo, MetaSet
<1>5. /\ DeadlineLeft(v.meta) = {} \/ \E ms \in Nat : DeadlineLeft(v.meta) = {ms}
      /\ DeadlineLeft(v.meta) \in SUBSET Nat
      /\ IsExpired(v.meta) => v.meta.ttl = 0 \/ DeadlineLeft(v.meta) = {0}
  <2>1. CASE v.meta.deadline = NoDeadline
    BY <2>1 DEF DeadlineLeft, IsExpired
  <2>2. CASE v.meta.deadline # NoDeadline
    <3>1. v.meta.deadline \in Int
      BY <1>3, <2>2 DEF MetaSet
    <3>2. MillisBetween(v.meta.deadline, now) \in Nat
      BY <1>3, <3>1, Millis
    <3>3. v.meta.deadline <= now => MillisBetween(v.meta.deadline, now) = 0
      BY <1>3, <3>1, Millis
    <3>4. DeadlineLeft(v.meta) = {MillisBetween(v.meta.deadline, now)}
      BY <2>2 DEF DeadlineLeft
    <3>5. IsExpired(v.meta) => v.meta.ttl = 0 \/ v.meta.deadline <= now
      BY <1>3, <3>1 DEF IsExpired
    <3>. QED
      BY <3>2, <3>3, <3>4, <3>5
  <2>. QED
    BY <2>1, <2>2
<1>6. wire'.expired = IsExpired(v.meta) /\ wire'.value = v
      /\ wire'.ago = CreatedAgo(v.meta) /\ wire'.left = DeadlineLeft(v.meta)
  BY <1>1
<1>7. IsExpired(v.meta) \in BOOLEAN
  BY DEF IsExpired
<1>8. wire' \in WireSet
  BY <1>1, <1>3, <1>4, <1>5, <1>7 DEF WireSet
<1>9. WireSound'
  BY <1>1, <1>3, <1>4, <1>5, <1>6, <1>8 DEF WireSound, Sound
<1>10. RecycledRenamed'
  <2>1. \A g \in Handles : Pooled(g) => v.id # Value(g).id
    BY <1>2 DEF LifeInv, RecycledRenamed, v
  <2>. QED
    BY <1>1, <1>6, <2>1 DEF LifeInv, RecycledRenamed, Pooled, Value, Exists
<1>14. SessionsApart'
  <2>1. Seen' \subseteq Seen
    BY <1>1, <1>2, <1>6 DEF Seen, v, Exists, Value
  <2>. QED
    BY <1>1, <2>1, SeenKept DEF LifeInv
<1>11. Counters' /\ Referenced' /\ HandlesSound'
  BY <1>1 DEF LifeInv, Counters, Referenced, HandlesSound, Exists, Value
<1>12. Placed' /\ open' \in BOOLEAN
  BY <1>1 DEF LifeInv, Placed, Pooled, Queued, Exists
<1>13. QueuedByTags'
  BY <1>1 DEF LifeInv, QueuedByTags, Priorities, FromTags, Value
<1>. QED
  BY <1>9, <1>10, <1>11, <1>12, <1>13, <1>14 DEF LifeInv

(* A decoded packet is as old as it was, and expired if it was.            *)
LEMMA DecodeInv ==
  ASSUME LifeInv, NEW h \in Handles, Decode(h)
  PROVE  /\ LifeInv' /\ OthersKept(h)
         /\ wire.expired => IsExpired(heap'[cell'[h]].meta)
<1>. DEFINE m == [wire.value.meta EXCEPT !.created = CreatedAt(wire.ago), !.deadline = DeadlineAt(wire.left)]
            v == [wire.value EXCEPT !.meta = m]
<1>1. /\ ~Exists(h) /\ wire # Nothing
      /\ UNCHANGED <<now, ids, given, writes, pool, lanes, open, wire>>
  BY DEF Decode
<1>2. /\ wire \in WireSet /\ wire.value \in ValueSet /\ wire.value.meta \in MetaSet
      /\ wire.ago \in Nat /\ now \in Nat
      /\ wire.value.id <= ids /\ Len(wire.value.meta.trace) <= MaxHops
      /\ wire.value.meta.session \in 1 .. ids
      /\ Timely(wire.value.meta, wire.ago)
      /\ wire.left = {} \/ \E ms \in Nat : wire.left = {ms}
      /\ wire.expired => wire.value.meta.ttl = 0 \/ wire.left = {0}
  BY <1>1 DEF LifeInv, WireSound, WireSet, ValueSet, Counters
<1>3. Allocate(h, v)
  <2>1. [wire.value EXCEPT !.meta.created = CreatedAt(wire.ago), !.meta.deadline = DeadlineAt(wire.left)] = v
    BY <1>2 DEF ValueSet, MetaSet
  <2>. QED
    BY <2>1 DEF Decode
<1>4. CreatedAt(wire.ago) \in Int /\ CreatedAt(wire.ago) <= now
      /\ MillisBetween(now, CreatedAt(wire.ago)) = wire.ago
  <2>1. CreatedAt(wire.ago) = now - TicksPerMs * wire.ago
    BY DEF CreatedAt
  <2>2. MillisBetween(now, now - TicksPerMs * wire.ago) = wire.ago
    BY <1>2 DEF MillisBetween, TicksPerMs
  <2>3. now - TicksPerMs * wire.ago \in Int /\ now - TicksPerMs * wire.ago <= now
    BY <1>2 DEF TicksPerMs
  <2>. QED
    BY <2>1, <2>2, <2>3
<1>5. /\ DeadlineAt(wire.left) \in Nat \cup {NoDeadline}
      /\ wire.left = {0} => DeadlineAt(wire.left) = now
  <2>1. CASE wire.left = {}
    BY <2>1 DEF DeadlineAt
  <2>2. ASSUME NEW ms \in Nat, wire.left = {ms}
        PROVE  DeadlineAt(wire.left) \in Nat /\ (ms = 0 => DeadlineAt(wire.left) = now)
    <3>1. (CHOOSE k \in wire.left : TRUE) = ms /\ wire.left # {}
      BY <2>2
    <3>2. DeadlineAt(wire.left) = now + TicksPerMs * ms
      BY <3>1 DEF DeadlineAt
    <3>. QED
      BY <1>2, <3>2 DEF TicksPerMs
  <2>. QED
    BY <1>2, <2>1, <2>2
<1>6. /\ m \in MetaSet /\ m.created = CreatedAt(wire.ago) /\ m.deadline = DeadlineAt(wire.left)
      /\ m.ttl = wire.value.meta.ttl
      /\ m.trace = wire.value.meta.trace /\ m.stamps = wire.value.meta.stamps
      /\ m.tracing = wire.value.meta.tracing /\ m.pushed = wire.value.meta.pushed
      /\ m.session = wire.value.meta.session
  BY <1>2, <1>4, <1>5 DEF MetaSet
<1>. HIDE DEF m
<1>7. v \in ValueSet /\ v.id = wire.value.id /\ v.meta = m
  BY <1>2, <1>6 DEF ValueSet
<1>. HIDE DEF v
<1>8. Sound(v, now, ids)
  BY <1>2, <1>4, <1>6, <1>7 DEF Sound, Timely
<1>9. /\ Referenced' /\ OthersKept(h)
      /\ cell'[h] # 0 /\ heap'[cell'[h]] = v
  BY <1>1, <1>3, <1>7, Written DEF LifeInv
<1>10. ~Pooled(h) /\ ~Queued(h)
  BY <1>1, Whereabouts DEF LifeInv
<1>11. Anonymous(h)
  <2>1. \A g \in Handles : Pooled(g) => v.id # Value(g).id
    BY <1>1, <1>7 DEF LifeInv, RecycledRenamed
  <2>2. Apart(v)
    BY <1>1, <1>6, <1>7 DEF Apart, LifeInv, SessionsApart, Seen
  <2>. QED
    BY <1>1, <1>8, <1>9, <2>1, <2>2 DEF Anonymous
<1>12. Counters' /\ ids <= ids' /\ UNCHANGED rest /\ UNCHANGED given
  <2>1. ids \in Int
    BY CountersInt DEF LifeInv
  <2>. QED
    BY <1>1, <2>1 DEF LifeInv, Counters, rest
<1>13. LifeInv'
  BY <1>9, <1>10, <1>11, <1>12, OneHandle
<1>14. wire.expired => IsExpired(m)
  <2>1. now >= now /\ now # NoDeadline
    BY <1>2 DEF NoDeadline
  <2>2. wire.expired => m.ttl = 0 \/ m.deadline = now
    BY <1>2, <1>5, <1>6
  <2>. QED
    BY <2>1, <2>2 DEF IsExpired
<1>. QED
  BY <1>7, <1>9, <1>13, <1>14

-----------------------------------------------------------------------------
(* The pool and the lanes.                                                 *)

(* Handles change places, none being put in the pool: packets stay as they *)
(* are.                                                                    *)
LEMMA MovedInv ==
  ASSUME LifeInv, UNCHANGED <<now, ids, given, writes, cell, heap, wire>>, open' \in BOOLEAN,
         Placed', QueuedByTags', \A g \in Handles : Pooled(g)' => Pooled(g)
  PROVE  LifeInv'
<1>1. /\ \A g \in Handles : Exists(g)' = Exists(g) /\ Value(g)' = Value(g)
  BY DEF Exists, Value
<1>2. Counters' /\ Referenced' /\ HandlesSound' /\ WireSound'
  BY <1>1 DEF LifeInv, Counters, Referenced, HandlesSound, WireSound
<1>3. RecycledRenamed'
  BY <1>1 DEF LifeInv, RecycledRenamed
<1>4. SessionsApart'
  BY <1>1, SeenKept DEF LifeInv, Seen
<1>. QED
  BY <1>2, <1>3, <1>4 DEF LifeInv

(* What waits where is what waited there, or a packet put by its tags.     *)
LEMMA LanesByTags ==
  ASSUME LifeInv, UNCHANGED <<cell, heap>>, lanes' \in [1 .. 5 -> Seq(Handles)],
         \A p \in 1 .. 5 : \A i \in 1 .. Len(lanes'[p]) :
           \/ \E j \in 1 .. Len(lanes[p]) : lanes'[p][i] = lanes[p][j]
           \/ p \in Priorities(lanes'[p][i])
  PROVE  QueuedByTags'
<1>1. \A g \in Handles : Priorities(g)' = Priorities(g)
  BY DEF Priorities, FromTags, Value
<1>2. ASSUME NEW p \in 1 .. 5, NEW i \in 1 .. Len(lanes'[p])
      PROVE  p \in Priorities(lanes[p][i])'
  <2>1. lanes'[p][i] \in Handles
    OBVIOUS
  <2>2. p \in Priorities(lanes'[p][i])
    BY DEF LifeInv, QueuedByTags, Placed
  <2>. QED
    BY <1>1, <2>1, <2>2
<1>. QED
  BY <1>2 DEF QueuedByTags

(* The pool hands out the packet it took last, or one made anew.           *)
LEMMA AcquireInv ==
  ASSUME LifeInv, NEW h \in Handles, Acquire(h)
  PROVE  LifeInv' /\ OthersKept(h)
<1>1. CASE pool = <<>> /\ ~Exists(h)
  <2>1. /\ ids < MaxIds /\ ids' = ids + 1 /\ UNCHANGED rest /\ UNCHANGED writes
        /\ Allocate(h, PacketInner(EmptyPayload, Metadata(NoDeadline, "off", Founded)))
        /\ given' = given \cup ({Founded} \ {Founded})
    BY <1>1 DEF Acquire, rest
  <2>2. Founded \in 1 .. ids + 1 /\ "off" \in Tracing
    <3>1. ids \in Nat
      BY DEF LifeInv, Counters
    <3>. QED
      BY <3>1 DEF Founded, Tracing
  <2>. QED
    BY <1>1, <2>1, <2>2, MakeInv
<1>2. CASE pool # <<>>
  <2>1. UNCHANGED <<now, ids, given, writes, cell, heap, wire, lanes, open>> /\ pool' = Front(pool)
    BY <1>2 DEF Acquire
  <2>2. pool \in Seq(Handles) /\ Len(pool) \in Nat \ {0} /\ IsInjective(pool) /\ Len(pool) <= PoolSize
    BY <1>2, EmptySeq DEF LifeInv, Placed
  <2>3. /\ pool' \in Seq(Handles) /\ Len(pool') = Len(pool) - 1
        /\ \A i \in 1 .. Len(pool') : i \in 1 .. Len(pool) /\ pool'[i] = pool[i]
    <3>. DEFINE n == Len(pool) - 1
                short == SubSeq(pool, 1, n)
    <3>1. n \in Nat /\ \A i \in 1 .. n : i \in 1 .. Len(pool) /\ pool[i] \in Handles
      BY <2>2
    <3>2. pool' = short
      BY <2>1 DEF Front
    <3>. HIDE DEF n
    <3>3. /\ short \in Seq(Handles) /\ Len(short) = IF 1 <= n THEN n - 1 + 1 ELSE 0
          /\ \A i \in 1 .. n - 1 + 1 : short[i] = pool[1 + i - 1]
      BY <3>1, SubSeqProperties
    <3>4. n - 1 + 1 = n /\ Len(short) = n /\ \A i \in 1 .. n : 1 + i - 1 = i
      BY <3>1, <3>3
    <3>. HIDE DEF short
    <3>5. \A i \in 1 .. n : short[i] = pool[i]
      BY <3>3, <3>4
    <3>6. pool' \in Seq(Handles) /\ Len(pool') = n
      BY <3>2, <3>3, <3>4
    <3>7. \A i \in 1 .. Len(pool') : i \in 1 .. Len(pool) /\ pool'[i] = pool[i]
      BY <3>1, <3>2, <3>5, <3>6
    <3>. QED
      BY <3>6, <3>7 DEF n
  <2>4. IsInjective(pool') /\ Len(pool') <= PoolSize
    <3>1. PoolSize \in Nat
      BY PacketAssumption
    <3>2. \A a, b \in 1 .. Len(pool) : pool[a] = pool[b] => a = b
      BY <2>2 DEF IsInjective
    <3>3. \A a, b \in 1 .. Len(pool') : pool'[a] = pool'[b] => a = b
      BY <2>3, <3>2
    <3>4. DOMAIN pool' = 1 .. Len(pool')
      BY <2>3
    <3>5. IsInjective(pool')
      BY <3>3, <3>4 DEF IsInjective
    <3>. QED
      BY <2>2, <2>3, <3>1, <3>5
  <2>5. \A g \in Handles : (Pooled(g)' => Pooled(g)) /\ Queued(g)' = Queued(g) /\ Exists(g)' = Exists(g)
    BY <2>1, <2>3 DEF Pooled, Queued, Exists
  <2>6. Placed'
    BY <2>1, <2>3, <2>4, <2>5 DEF LifeInv, Placed
  <2>7. QueuedByTags'
    BY <2>1 DEF LifeInv, QueuedByTags, Priorities, FromTags, Value
  <2>8. LifeInv'
    BY <2>1, <2>5, <2>6, <2>7, MovedInv DEF LifeInv
  <2>. QED
    BY <2>1, <2>8 DEF OthersKept
<1>. QED
  BY <1>1, <1>2 DEF Acquire

(* A packet put in the pool is empty and has an identity nobody knows.     *)
LEMMA RecycleInv ==
  ASSUME LifeInv, NEW h \in Handles, Held(h), ids < MaxIds, Len(pool) < PoolSize,
         MakeMut(h, [Value(h) EXCEPT !.payload = EmptyPayload, !.id = ids + 1]),
         pool' = Append(pool, h), ids' = ids + 1, given' = given \cup {Meta(h).session},
         UNCHANGED <<now, writes, lanes, open, wire>>
  PROVE  LifeInv' /\ OthersKept(h)
<1>. DEFINE v == [Value(h) EXCEPT !.payload = EmptyPayload, !.id = ids + 1]
<1>1. Exists(h) /\ ~Pooled(h) /\ ~Queued(h)
  BY DEF Held
<1>i. ids \in Nat /\ MaxIds \in Nat /\ PoolSize \in Nat /\ now \in Int
  BY PacketAssumption, CountersInt DEF LifeInv, Counters
<1>2. /\ v \in ValueSet /\ v.id = ids + 1 /\ v.payload = EmptyPayload
      /\ v.meta = Value(h).meta /\ Sound(Value(h), now, ids)
  <2>1. Value(h) \in ValueSet /\ Sound(Value(h), now, ids)
    BY <1>1, FreshId
  <2>2. EmptyPayload \in Bodies \cup {EmptyPayload} /\ ids + 1 \in Nat
    BY <1>i
  <2>. QED
    BY <2>1, <2>2 DEF ValueSet
<1>3. MakeMut(h, v)
  OBVIOUS
<1>. HIDE DEF v
<1>4. Sound(v, now, ids + 1)
  BY <1>i, <1>2 DEF Sound
<1>5. /\ Referenced' /\ OthersKept(h)
      /\ cell'[h] # 0 /\ heap'[cell'[h]] = v
  BY <1>1, <1>2, <1>3, Written DEF LifeInv
<1>6. Exists(h)' /\ Value(h)' = v
  BY <1>5 DEF Exists, Value
<1>7. \A g \in Handles \ {h} : Exists(g)' = Exists(g) /\ (Exists(g) => Value(g)' = Value(g))
  BY <1>5 DEF OthersKept, Exists, Value
<1>8. HandlesSound'
  <2>. SUFFICES ASSUME NEW g \in Handles, Exists(g)' PROVE Sound(Value(g)', now, ids + 1)
    BY DEF HandlesSound
  <2>1. CASE g = h
    BY <1>4, <1>6, <2>1
  <2>2. CASE g # h
    <3>1. Sound(Value(g), now, ids) /\ Value(g)' = Value(g)
      BY <1>7, <2>2 DEF LifeInv, HandlesSound
    <3>2. Sound(Value(g), now, ids + 1)
      BY <1>i, <3>1, SoundLater
    <3>. QED
      BY <3>1, <3>2
  <2>. QED
    BY <2>1, <2>2
<1>9. /\ pool \in Seq(Handles) /\ IsInjective(pool) /\ pool' \in Seq(Handles)
      /\ Len(pool) \in Nat /\ Len(pool') = Len(pool) + 1
      /\ pool'[Len(pool) + 1] = h /\ \A i \in 1 .. Len(pool) : pool'[i] = pool[i] /\ pool[i] # h
  BY <1>1 DEF LifeInv, Placed, Pooled
<1>10. \A g \in Handles : (Pooled(g)' <=> Pooled(g) \/ g = h) /\ Queued(g)' = Queued(g)
  BY <1>9 DEF Pooled, Queued
<1>11. Placed'
  <2>1. IsInjective(pool')
    BY <1>9 DEF IsInjective
  <2>2. Len(pool') <= PoolSize
    BY <1>i, <1>9
  <2>3. \A g \in Handles : (Pooled(g)' \/ Queued(g)' => Exists(g)') /\ ~(Pooled(g)' /\ Queued(g)')
    BY <1>1, <1>6, <1>7, <1>10 DEF LifeInv, Placed
  <2>. QED
    BY <1>9, <2>1, <2>2, <2>3 DEF LifeInv, Placed
<1>12. wire # Nothing => wire.value.id \in Int /\ wire.value.id <= ids
  BY DEF LifeInv, WireSound, WireSet, ValueSet
<1>13. RecycledRenamed'
  <2>. SUFFICES ASSUME NEW g \in Handles, Pooled(g)'
                PROVE  /\ Value(g)'.payload = EmptyPayload
                       /\ \A k \in Handles \ {g} : Exists(k)' => Value(k)'.id # Value(g)'.id
                       /\ wire # Nothing => wire.value.id # Value(g)'.id
    BY DEF RecycledRenamed
  <2>1. \A k \in Handles \ {h} : Exists(k) => Value(k).id # ids + 1
    BY FreshId
  <2>2. CASE g = h
    BY <1>i, <1>2, <1>6, <1>7, <1>12, <2>1, <2>2
  <2>3. CASE g # h
    <3>1. Pooled(g) /\ Exists(g) /\ Value(g)' = Value(g)
      BY <1>7, <1>10, <2>3 DEF LifeInv, Placed
    <3>2. /\ Value(g).payload = EmptyPayload
          /\ \A k \in Handles \ {g} : Exists(k) => Value(k).id # Value(g).id
          /\ wire # Nothing => wire.value.id # Value(g).id
      BY <3>1 DEF LifeInv, RecycledRenamed
    <3>3. ASSUME NEW k \in Handles \ {g}, Exists(k)' PROVE Value(k)'.id # Value(g).id
      <4>1. CASE k = h
        BY <1>2, <1>6, <2>1, <2>3, <3>1, <4>1
      <4>2. CASE k # h
        BY <1>7, <3>2, <3>3, <4>2
      <4>. QED
        BY <4>1, <4>2
    <3>. QED
      BY <3>1, <3>2, <3>3
  <2>. QED
    BY <2>2, <2>3
<1>14. QueuedByTags'
  <2>. SUFFICES ASSUME NEW p \in 1 .. 5, NEW i \in 1 .. Len(lanes[p])
                PROVE  p \in Priorities(lanes[p][i])'
    BY DEF QueuedByTags, LifeInv, Placed
  <2>1. lanes[p][i] \in Handles /\ Queued(lanes[p][i])
    BY DEF LifeInv, Placed, Queued
  <2>2. Value(lanes[p][i])' = Value(lanes[p][i])
    BY <1>1, <1>7, <2>1 DEF LifeInv, Placed
  <2>3. p \in Priorities(lanes[p][i])
    BY DEF LifeInv, QueuedByTags, Placed
  <2>. QED
    BY <2>2, <2>3 DEF Priorities, FromTags
<1>15. WireSound'
  BY <1>i, <1>12 DEF LifeInv, WireSound
<1>16. Counters'
  BY <1>i, <1>2 DEF LifeInv, Counters, Sound, Meta
<1>17. SessionsApart'
  <2>1. Seen' \subseteq Seen \cup {v}
    BY <1>6, <1>7 DEF Seen
  <2>2. Apart(v)
    BY <1>2 DEF Apart, Meta
  <2>. QED
    BY <2>1, <2>2, SeenApart DEF LifeInv
<1>. QED
  BY <1>5, <1>8, <1>11, <1>13, <1>14, <1>15, <1>16, <1>17 DEF LifeInv

LEMMA ReleaseInv ==
  ASSUME LifeInv, NEW h \in Handles, Release(h)
  PROVE  LifeInv' /\ OthersKept(h)
<1>1. CASE Len(pool) < PoolSize
  BY <1>1, RecycleInv DEF Release
<1>2. CASE ~(Len(pool) < PoolSize)
  <2>1. /\ Held(h) /\ Free(h) /\ ids < MaxIds /\ ids' = ids + 1
        /\ UNCHANGED rest /\ UNCHANGED writes /\ UNCHANGED given
    BY <1>2 DEF Release, rest
  <2>2. Counters' /\ ids <= ids'
    <3>1. ids \in Int /\ MaxIds \in Int
      BY PacketAssumption, CountersInt DEF LifeInv
    <3>. QED
      BY <2>1, <3>1 DEF LifeInv, Counters, rest
  <2>. QED
    BY <2>1, <2>2, FreeInv
<1>. QED
  BY <1>1, <1>2

(* Clearing the pool drops what is in it, and leaves every other packet.   *)
LEMMA ClearInv ==
  ASSUME LifeInv, ClearPool
  PROVE  /\ LifeInv'
         /\ \A g \in Handles : cell'[g] # 0 => Exists(g) /\ heap'[cell'[g]] = Value(g)
<1>t. /\ cell \in [Handles -> Cells \cup {0}] /\ heap \in [Cells -> ValueSet \cup {Nothing}]
      /\ 0 \notin Cells
  BY CellCount DEF LifeInv, Referenced
<1>1. /\ pool' = <<>>
      /\ cell' = [h \in Handles |-> IF Pooled(h) THEN 0 ELSE cell[h]]
      /\ heap' = [c \in Cells |-> IF \E h \in Handles : cell'[h] = c THEN heap[c] ELSE Nothing]
      /\ UNCHANGED <<now, ids, given, writes, lanes, open, wire>>
  BY DEF ClearPool
<1>2. /\ cell' \in [Handles -> Cells \cup {0}] /\ heap' \in [Cells -> ValueSet \cup {Nothing}]
      /\ \A g \in Handles : cell'[g] = IF Pooled(g) THEN 0 ELSE cell[g]
  BY <1>t, <1>1
<1>3. \A g \in Handles : cell'[g] # 0 =>
        /\ cell[g] # 0 /\ cell'[g] = cell[g] /\ cell[g] \in Cells
        /\ heap'[cell'[g]] = heap[cell[g]]
  BY <1>t, <1>1, <1>2
<1>4. Referenced'
  <2>. SUFFICES ASSUME NEW c \in Cells PROVE heap'[c] # Nothing <=> \E g \in Handles : cell'[g] = c
    BY <1>2 DEF Referenced
  <2>1. CASE \E g \in Handles : cell'[g] = c
    <3>1. PICK g \in Handles : cell'[g] = c
      BY <2>1
    <3>2. cell[g] = c /\ heap'[c] = heap[c]
      BY <1>t, <1>3, <3>1
    <3>. QED
      BY <3>1, <3>2 DEF LifeInv, Referenced
  <2>2. CASE ~\E g \in Handles : cell'[g] = c
    BY <1>1, <2>2
  <2>. QED
    BY <2>1, <2>2
<1>5. \A g \in Handles : Exists(g)' => Exists(g) /\ Value(g)' = Value(g)
  BY <1>3 DEF Exists, Value
<1>6. /\ \A g \in Handles : ~Pooled(g)' /\ Queued(g)' = Queued(g)
      /\ \A g \in Handles : Queued(g) => Exists(g)'
  <2>1. \A g \in Handles : ~Pooled(g)' /\ Queued(g)' = Queued(g)
    BY <1>1 DEF Pooled, Queued
  <2>2. \A g \in Handles : Queued(g) => ~Pooled(g) /\ Exists(g)
    BY DEF LifeInv, Placed
  <2>. QED
    BY <1>2, <2>1, <2>2 DEF Exists
<1>7. HandlesSound' /\ WireSound' /\ Counters' /\ open' \in BOOLEAN
  BY <1>1, <1>5 DEF LifeInv, HandlesSound, WireSound, Counters
<1>8. Placed'
  <2>1. PoolSize \in Nat /\ pool' \in Seq(Handles) /\ Len(pool') = 0
    BY <1>1, PacketAssumption
  <2>2. IsInjective(pool')
    BY <1>1 DEF IsInjective
  <2>. QED
    BY <1>1, <1>6, <2>1, <2>2 DEF LifeInv, Placed
<1>9. RecycledRenamed'
  BY <1>6 DEF RecycledRenamed
<1>10. QueuedByTags'
  <2>. SUFFICES ASSUME NEW p \in 1 .. 5, NEW i \in 1 .. Len(lanes[p])
                PROVE  p \in Priorities(lanes[p][i])'
    BY <1>1 DEF QueuedByTags, LifeInv, Placed
  <2>1. lanes[p][i] \in Handles /\ Queued(lanes[p][i])
    BY DEF LifeInv, Placed, Queued
  <2>2. lanes' = lanes
    BY <1>1
  <2>3. Value(lanes[p][i])' = Value(lanes[p][i])
    BY <1>5, <1>6, <2>1, <2>2
  <2>4. p \in Priorities(lanes[p][i])
    BY DEF LifeInv, QueuedByTags, Placed
  <2>. QED
    BY <2>3, <2>4 DEF Priorities, FromTags
<1>11. SessionsApart'
  <2>1. Seen' \subseteq Seen
    BY <1>1, <1>5 DEF Seen
  <2>. QED
    BY <1>1, <2>1, SeenKept DEF LifeInv
<1>. QED
  BY <1>3, <1>4, <1>7, <1>8, <1>9, <1>10, <1>11 DEF LifeInv, Exists, Value

(* A packet is put in the lane its tags ask for, or one a caller chose.    *)
LEMMA SendInv ==
  ASSUME LifeInv, NEW h \in Handles, NEW p \in 1 .. 5, Send(h, p)
  PROVE  LifeInv'
<1>1. /\ Exists(h) /\ ~Pooled(h) /\ ~Queued(h) /\ p \in Priorities(h) /\ Len(lanes[p]) < Capacity
      /\ lanes' = [lanes EXCEPT ![p] = Append(@, h)]
      /\ UNCHANGED <<now, ids, given, writes, cell, heap, pool, open, wire>>
  BY DEF Send, Held
<1>t. /\ lanes \in [1 .. 5 -> Seq(Handles)] /\ Capacity \in Nat
      /\ \A q \in 1 .. 5 : lanes[q] \in Seq(Handles) /\ Len(lanes[q]) \in Nat /\ Len(lanes[q]) <= Capacity
  BY PacketAssumption DEF LifeInv, Placed
<1>2. /\ lanes' \in [1 .. 5 -> Seq(Handles)]
      /\ \A q \in (1 .. 5) \ {p} : lanes'[q] = lanes[q]
      /\ Len(lanes'[p]) = Len(lanes[p]) + 1 /\ lanes'[p][Len(lanes[p]) + 1] = h
      /\ \A i \in 1 .. Len(lanes[p]) : lanes'[p][i] = lanes[p][i]
  BY <1>1, <1>t
<1>3. \A q \in 1 .. 5 : Len(lanes'[q]) <= Capacity
  <2>1. Len(lanes[p]) + 1 <= Capacity
    BY <1>1, <1>t
  <2>. QED
    BY <1>t, <1>2, <2>1
<1>4. ASSUME NEW q \in 1 .. 5, NEW i \in 1 .. Len(lanes'[q])
      PROVE  \/ \E j \in 1 .. Len(lanes[q]) : lanes'[q][i] = lanes[q][j]
             \/ q = p /\ lanes'[q][i] = h
  <2>1. CASE q # p
    BY <1>2, <2>1
  <2>2. CASE q = p
    <3>1. i \in 1 .. Len(lanes[p]) \/ i = Len(lanes[p]) + 1
      BY <1>t, <1>2, <2>2
    <3>. QED
      BY <1>2, <2>2, <3>1
  <2>. QED
    BY <2>1, <2>2
<1>5. QueuedByTags'
  <2>1. UNCHANGED <<cell, heap>> /\ p \in Priorities(h)
    BY <1>1
  <2>2. \A q \in 1 .. 5 : \A i \in 1 .. Len(lanes'[q]) :
          \/ \E j \in 1 .. Len(lanes[q]) : lanes'[q][i] = lanes[q][j]
          \/ q \in Priorities(lanes'[q][i])
    BY <1>4, <2>1
  <2>. QED
    BY <1>2, <2>1, <2>2, LanesByTags
<1>6. \A g \in Handles : Pooled(g)' = Pooled(g) /\ (Queued(g)' => Queued(g) \/ g = h) /\ Exists(g)' = Exists(g)
  <2>1. \A g \in Handles : Pooled(g)' = Pooled(g) /\ Exists(g)' = Exists(g)
    BY <1>1 DEF Pooled, Exists
  <2>2. DOMAIN lanes = 1 .. 5 /\ DOMAIN lanes' = 1 .. 5
    BY <1>t, <1>2
  <2>3. ASSUME NEW g \in Handles, Queued(g)' PROVE Queued(g) \/ g = h
    <3>1. PICK q \in 1 .. 5 : \E i \in 1 .. Len(lanes'[q]) : lanes'[q][i] = g
      BY <2>2, <2>3 DEF Queued
    <3>2. (\E j \in 1 .. Len(lanes[q]) : lanes[q][j] = g) \/ g = h
      BY <1>4, <3>1
    <3>. QED
      BY <2>2, <3>2 DEF Queued
  <2>. QED
    BY <2>1, <2>3
<1>7. Placed'
  BY <1>1, <1>2, <1>3, <1>6 DEF LifeInv, Placed
<1>. QED
  BY <1>1, <1>5, <1>6, <1>7, MovedInv DEF LifeInv

(* The item a lane has waited with longest is handed out, or all of them.  *)
LEMMA ServeInv ==
  ASSUME LifeInv, Drain \/ \E p \in 1 .. 5 : Recv(p)
  PROVE  LifeInv'
<1>1. UNCHANGED <<now, ids, given, writes, cell, heap, pool, open, wire>>
  BY DEF Drain, Recv
<1>t. /\ lanes \in [1 .. 5 -> Seq(Handles)] /\ Capacity \in Nat
      /\ \A q \in 1 .. 5 : lanes[q] \in Seq(Handles) /\ Len(lanes[q]) \in Nat /\ Len(lanes[q]) <= Capacity
  BY PacketAssumption DEF LifeInv, Placed
<1>. DEFINE Fewer ==
              /\ lanes' \in [1 .. 5 -> Seq(Handles)]
              /\ \A q \in 1 .. 5 : Len(lanes'[q]) <= Capacity
              /\ \A q \in 1 .. 5 : \A i \in 1 .. Len(lanes'[q]) :
                   \E j \in 1 .. Len(lanes[q]) : lanes'[q][i] = lanes[q][j]
<1>2. Fewer
  <2>1. CASE Drain
    <3>1. lanes' = [q \in 1 .. 5 |-> <<>>]
      BY <1>t, <2>1 DEF Drain
    <3>. QED
      BY <1>t, <3>1
  <2>2. ASSUME NEW p \in 1 .. 5, Recv(p) PROVE Fewer
    <3>1. lanes[p] # <<>> /\ lanes' = [lanes EXCEPT ![p] = Tail(@)]
      BY <2>2 DEF Recv, Polls, Waiting
    <3>2. /\ Tail(lanes[p]) \in Seq(Handles) /\ Len(Tail(lanes[p])) = Len(lanes[p]) - 1
          /\ \A i \in 1 .. Len(Tail(lanes[p])) : Tail(lanes[p])[i] = lanes[p][i + 1]
      BY <1>t, <3>1
    <3>3. \A i \in 1 .. Len(Tail(lanes[p])) : i + 1 \in 1 .. Len(lanes[p])
      BY <1>t, <3>2
    <3>4. /\ lanes' \in [1 .. 5 -> Seq(Handles)] /\ lanes'[p] = Tail(lanes[p])
          /\ \A q \in (1 .. 5) \ {p} : lanes'[q] = lanes[q]
      BY <1>t, <3>1, <3>2
    <3>5. \A q \in 1 .. 5 : Len(lanes'[q]) <= Capacity
      <4>1. Len(lanes[p]) - 1 <= Capacity
        BY <1>t
      <4>2. Len(lanes'[p]) <= Capacity
        BY <3>2, <3>4, <4>1
      <4>. QED
        BY <1>t, <3>4, <4>2
    <3>6. ASSUME NEW q \in 1 .. 5, NEW i \in 1 .. Len(lanes'[q])
          PROVE  \E j \in 1 .. Len(lanes[q]) : lanes'[q][i] = lanes[q][j]
      BY <3>2, <3>3, <3>4
    <3>. QED
      BY <3>4, <3>5, <3>6
  <2>. QED
    BY <2>1, <2>2
<1>3. QueuedByTags'
  <2>1. UNCHANGED <<cell, heap>> /\ lanes' \in [1 .. 5 -> Seq(Handles)]
    BY <1>1, <1>2
  <2>2. \A p \in 1 .. 5 : \A i \in 1 .. Len(lanes'[p]) :
          \/ \E j \in 1 .. Len(lanes[p]) : lanes'[p][i] = lanes[p][j]
          \/ p \in Priorities(lanes'[p][i])
    BY <1>2
  <2>. QED
    BY <2>1, <2>2, LanesByTags
<1>4. \A g \in Handles : Pooled(g)' = Pooled(g) /\ (Queued(g)' => Queued(g)) /\ Exists(g)' = Exists(g)
  <2>1. \A g \in Handles : Pooled(g)' = Pooled(g) /\ Exists(g)' = Exists(g)
    BY <1>1 DEF Pooled, Exists
  <2>2. DOMAIN lanes = 1 .. 5 /\ DOMAIN lanes' = 1 .. 5
    BY <1>t, <1>2
  <2>3. ASSUME NEW g \in Handles, Queued(g)' PROVE Queued(g)
    <3>1. PICK p \in 1 .. 5 : \E i \in 1 .. Len(lanes'[p]) : lanes'[p][i] = g
      BY <2>2, <2>3 DEF Queued
    <3>2. \E j \in 1 .. Len(lanes[p]) : lanes[p][j] = g
      BY <1>2, <3>1
    <3>. QED
      BY <2>2, <3>2 DEF Queued
  <2>. QED
    BY <2>1, <2>3
<1>5. Placed'
  BY <1>1, <1>2, <1>4 DEF LifeInv, Placed
<1>. QED
  BY <1>1, <1>3, <1>4, <1>5, MovedInv DEF LifeInv

(* Time passes: packets age, and nothing else.                             *)
LEMMA TickInv ==
  ASSUME LifeInv, Tick
  PROVE  LifeInv'
<1>1. /\ now' = now + 1 /\ now < MaxTime
      /\ UNCHANGED <<ids, given, writes, cell, heap, pool, lanes, open, wire>>
  BY DEF Tick
<1>2. now \in Int /\ ids \in Int /\ MaxTime \in Nat
  BY CountersInt, PacketAssumption DEF LifeInv
<1>3. HandlesSound'
  <2>. SUFFICES ASSUME NEW h \in Handles, Exists(h) PROVE Sound(Value(h), now + 1, ids)
    BY <1>1 DEF HandlesSound, Exists, Value
  <2>1. Sound(Value(h), now, ids)
    BY DEF LifeInv, HandlesSound
  <2>. QED
    BY <1>2, <2>1, SoundLater
<1>4. Counters'
  BY <1>1, <1>2 DEF LifeInv, Counters
<1>5. /\ Referenced' /\ Placed' /\ RecycledRenamed' /\ WireSound' /\ open' \in BOOLEAN
  BY <1>1 DEF LifeInv, Referenced, Placed, Pooled, Queued, Exists, Value, RecycledRenamed, WireSound
<1>6. QueuedByTags'
  BY <1>1 DEF LifeInv, QueuedByTags, Priorities, FromTags, Value
<1>7. SessionsApart'
  BY <1>1, SeenKept DEF LifeInv, Seen, Exists, Value
<1>. QED
  BY <1>3, <1>4, <1>5, <1>6, <1>7 DEF LifeInv

-----------------------------------------------------------------------------
(* Every step.                                                             *)

LEMMA InitInv == Init => LifeInv
<1>. SUFFICES ASSUME Init PROVE LifeInv
  OBVIOUS
<1>1. /\ now = 0 /\ ids = 0 /\ given = {} /\ writes = 0 /\ cell = [h \in Handles |-> 0]
      /\ heap = [c \in Cells |-> Nothing] /\ pool = <<>> /\ open = TRUE /\ wire = Nothing
  BY DEF Init
<1>2. lanes = [p \in 1 .. 5 |-> <<>>] /\ DOMAIN lanes = 1 .. 5
  BY DEF Init, TaskPriority
<1>3. Counters
  BY <1>1, PacketAssumption DEF Counters
<1>4. \A h \in Handles : ~Exists(h) /\ ~Pooled(h) /\ ~Queued(h)
  BY <1>1, <1>2 DEF Exists, Pooled, Queued
<1>5. Referenced
  <2>1. 0 \notin Cells
    BY CellCount
  <2>. QED
    BY <1>1, <2>1 DEF Referenced
<1>6. Placed
  <2>1. PoolSize \in Nat /\ Capacity \in Nat
    BY PacketAssumption
  <2>2. pool \in Seq(Handles) /\ Len(pool) <= PoolSize /\ IsInjective(pool)
    BY <1>1, <2>1 DEF IsInjective
  <2>3. lanes \in [1 .. 5 -> Seq(Handles)] /\ \A p \in 1 .. 5 : Len(lanes[p]) <= Capacity
    BY <1>2, <2>1
  <2>. QED
    BY <1>4, <2>2, <2>3 DEF Placed
<1>7. HandlesSound /\ RecycledRenamed /\ SessionsApart /\ WireSound
  BY <1>1, <1>4 DEF HandlesSound, RecycledRenamed, SessionsApart, Seen, WireSound
<1>8. QueuedByTags
  BY <1>2 DEF QueuedByTags
<1>. QED
  BY <1>1, <1>3, <1>5, <1>6, <1>7, <1>8 DEF LifeInv

(* One handle at most is touched by a step that is not the pool's clearing,*)
(* and a packet that comes off the wire expired if it was sent expired.    *)
LEMMA StepInv ==
  ASSUME LifeInv, NEW h \in Handles, PacketStep(h)
  PROVE  LifeInv' /\ \E g \in Handles : OthersKept(g)
<1>t. Deadlines \subseteq Nat \cup {NoDeadline} /\ Modes \subseteq Tracing
  BY PacketAssumption
<1>1. ASSUME NEW b \in Bodies, NEW d \in Deadlines, NEW t \in Modes,
             NEW s \in Sessions \cup {Founded}, New(h, b, d, t, s)
      PROVE  LifeInv' /\ OthersKept(h)
  <2>1. /\ ~Exists(h) /\ ids < MaxIds /\ ids' = ids + 1 /\ UNCHANGED rest /\ UNCHANGED writes
        /\ Allocate(h, PacketInner(b, Metadata(d, t, s)))
        /\ given' = given \cup ({s} \ {Founded})
    BY <1>1 DEF New, rest
  <2>2. b \in Bodies \cup {EmptyPayload} /\ d \in Nat \cup {NoDeadline} /\ t \in Tracing
    BY <1>t
  <2>3. s \in 1 .. ids + 1
    <3>1. ids \in Nat
      BY DEF LifeInv, Counters
    <3>2. \A g \in Handles : Held(g) => Meta(g).session \in 1 .. ids
      BY FreshId DEF Held, Meta, Sound
    <3>. QED
      BY <3>1, <3>2 DEF Sessions, Founded
  <2>. QED
    BY <2>1, <2>2, <2>3, MakeInv
<1>2. ASSUME NEW g \in Handles, Clone(h, g) PROVE LifeInv' /\ OthersKept(g)
  BY <1>2, CloneInv
<1>3. CASE Drop(h)
  <2>1. Held(h) /\ Free(h) /\ UNCHANGED rest /\ Counters' /\ ids <= ids' /\ UNCHANGED given
    <3>1. ids \in Int
      BY CountersInt DEF LifeInv
    <3>. QED
      BY <1>3, <3>1 DEF Drop, rest, LifeInv, Counters
  <2>. QED
    BY <2>1, FreeInv
<1>4. CASE Encode(h)
  <2>1. OthersKept(h)
    BY <1>4 DEF Encode, OthersKept
  <2>. QED
    BY <1>4, <2>1, EncodeInv
<1>5. CASE Decode(h)
  BY <1>5, DecodeInv
<1>6. ASSUME Held(h),
             \/ TakePayload(h) \/ DecrementTtl(h) \/ ResetTtl(h)
             \/ \E b \in Bodies : SetPayload(h, b)
             \/ \E t \in UsedTags : InsertTag(h, t)
             \/ \E n \in Nodes : RecordHop(h, n) \/ TracePush(h, n)
      PROVE  LifeInv' /\ OthersKept(h)
  <2>1. Counters /\ Sound(Value(h), now, ids)
    BY <1>6 DEF LifeInv, HandlesSound, Held
  <2>2. Rewrites(h)
    BY <1>6, <2>1, ChangeSound
  <2>. QED
    BY <2>2, RewriteInv
<1>. QED
  BY <1>1, <1>2, <1>3, <1>4, <1>5, <1>6 DEF PacketStep

LEMMA NextInv ==
  ASSUME LifeInv, [Next]_vars
  PROVE  /\ LifeInv'
         /\ \/ \E g \in Handles : OthersKept(g)
            \/ \A g \in Handles : cell'[g] # 0 => Exists(g) /\ heap'[cell'[g]] = Value(g)
<1>d. DOMAIN lanes = 1 .. 5
  BY DEF LifeInv, Placed
<1>k. UNCHANGED <<cell, heap>> => \A g \in Handles : cell'[g] # 0 => Exists(g) /\ heap'[cell'[g]] = Value(g)
  BY DEF Exists, Value
<1>1. ASSUME NEW h \in Handles, PacketStep(h) \/ Acquire(h) \/ Release(h)
      PROVE  LifeInv' /\ \E g \in Handles : OthersKept(g)
  BY <1>1, StepInv, AcquireInv, ReleaseInv
<1>2. ASSUME NEW h \in Handles, NEW p \in 1 .. 5, Send(h, p)
      PROVE  LifeInv' /\ UNCHANGED <<cell, heap>>
  BY <1>2, SendInv DEF Send
<1>3. CASE Drain \/ \E p \in 1 .. 5 : Recv(p)
  <2>1. UNCHANGED <<cell, heap>>
    BY <1>3 DEF Drain, Recv
  <2>. QED
    BY <1>3, <1>k, <2>1, ServeInv
<1>4. CASE ClearPool
  BY <1>4, ClearInv
<1>5. CASE DropSenders \/ UNCHANGED vars
  <2>1. UNCHANGED <<now, ids, given, writes, cell, heap, pool, lanes, wire>> /\ open' \in BOOLEAN
    BY <1>5 DEF DropSenders, vars, LifeInv
  <2>2. LifeInv'
    BY <2>1 DEF LifeInv, Counters, Referenced, HandlesSound, Placed, Pooled, Queued, Exists, Value,
                RecycledRenamed, SessionsApart, Seen, QueuedByTags, Priorities, FromTags, WireSound
  <2>. QED
    BY <1>k, <2>1, <2>2
<1>6. CASE Tick
  <2>1. UNCHANGED <<cell, heap>>
    BY <1>6 DEF Tick
  <2>. QED
    BY <1>6, <1>k, <2>1, TickInv
<1>. QED
  BY <1>d, <1>k, <1>1, <1>2, <1>3, <1>4, <1>5, <1>6 DEF Next

-----------------------------------------------------------------------------
(* What follows for the properties of packets.                             *)

(* Only the packet a step is about reads differently after it.             *)
LEMMA StepIsolated ==
  ASSUME LifeInv, [Next]_vars
  PROVE  ClonesIsolated
<1>. DEFINE Changed == {h \in Handles : Exists(h) /\ cell'[h] # 0 /\ heap'[cell'[h]] # Value(h)}
<1>1. Changed = {} \/ \E g \in Handles : Changed \subseteq {g}
  <2>1. ASSUME NEW g \in Handles, OthersKept(g) PROVE Changed \subseteq {g}
    BY <2>1 DEF OthersKept, Value
  <2>. QED
    BY <2>1, NextInv
<1>2. Changed = {} \/ \E g \in Handles : Changed = {g}
  BY <1>1
<1>. HIDE DEF Changed
<1>3. Cardinality(Changed) <= 1
  <2>1. ASSUME NEW g \in Handles, Changed = {g} PROVE Cardinality(Changed) = 1
    BY <2>1, FS_Singleton
  <2>2. Changed = {} => Cardinality(Changed) = 0
    BY FS_EmptySet
  <2>. QED
    BY <1>2, <2>1, <2>2
<1>. QED
  BY <1>3 DEF ClonesIsolated, Changed

(* A decoded packet is expired if it was encoded expired.                  *)
LEMMA StepExpires ==
  ASSUME LifeInv
  PROVE  ExpiryTravels
BY DecodeInv DEF ExpiryTravels

(* The stamps of a packet that exists are in order, one for each hop.      *)
LEMMA InvTraces == LifeInv => TraceOrdered
<1>. SUFFICES ASSUME LifeInv, NEW h \in Handles, Exists(h)
              PROVE  LET s == Meta(h).stamps
                     IN  /\ ~Meta(h).pushed =>
                               Len(s) = IF Meta(h).tracing = "detailed"
                                        THEN Len(TraceSummary(Meta(h))) ELSE 0
                         /\ \A i \in 1 .. Len(s) : /\ s[i] <= MillisBetween(now, Meta(h).created)
                                                   /\ \A j \in 1 .. i : s[j] <= s[i]
  BY DEF TraceOrdered
<1>1. Meta(h) \in MetaSet /\ Timely(Meta(h), MillisBetween(now, Meta(h).created))
  BY FreshId DEF Sound, ValueSet, Meta
<1>2. Len(TraceSummary(Meta(h))) = Len(Meta(h).trace)
  <2>. DEFINE n == Len(Meta(h).trace)
              f == TraceSummary(Meta(h))
  <2>1. n \in Nat
    BY <1>1 DEF MetaSet
  <2>2. f \in [1 .. n -> {f[i] : i \in 1 .. n}]
    BY DEF TraceSummary
  <2>. HIDE DEF n, f
  <2>3. f \in Seq({f[i] : i \in 1 .. n})
    BY <2>1, <2>2
  <2>4. Len(f) = n
    BY <2>1, <2>2, <2>3, LenProperties
  <2>. QED
    BY <2>4 DEF n, f
<1>. QED
  BY <1>1, <1>2 DEF Timely

-----------------------------------------------------------------------------
(* Every handle is held, pooled once or queued, every cell is referenced,  *)
(* a packet in the pool is empty and carries an id that no other packet    *)
(* and no encoded one carries, whatever was cloned or encoded before, and  *)
(* no two packets are in one session unless one of them was given it.      *)
THEOREM PacketsAccounted == Spec => []HandlesAccounted
<1>1. Init => LifeInv
  BY InitInv
<1>2. LifeInv /\ [Next]_vars => LifeInv'
  BY NextInv
<1>3. LifeInv => HandlesAccounted
  BY InvTypes DEF HandlesAccounted, LifeInv
<1>. QED
  BY <1>1, <1>2, <1>3, PTL DEF Spec

(* A call on one packet never changes what another one reads, however the  *)
(* two share a cell; so a packet stays in the lane it was put in by rights.*)
THEOREM ValueSemantics == Spec => PacketsAreValues
<1>1. Init => LifeInv
  BY InitInv
<1>2. LifeInv /\ [Next]_vars => LifeInv'
  BY NextInv
<1>3. LifeInv /\ LifeInv' /\ [Next]_vars => [ClonesIsolated /\ QueuedByTags']_vars
  BY StepIsolated DEF LifeInv
<1>. QED
  BY <1>1, <1>2, <1>3, PTL DEF Spec, PacketsAreValues

(* A packet expired when encoded is expired when decoded, and the stamps   *)
(* of a trace stay in order, one for each hop and within the packet's age, *)
(* though instants are rounded to milliseconds and the clock goes on.      *)
THEOREM TimeSurvival == Spec => TimesSurvive
<1>1. Init => LifeInv
  BY InitInv
<1>2. LifeInv /\ [Next]_vars => LifeInv'
  BY NextInv
<1>3. LifeInv => TraceOrdered
  BY InvTraces
<1>4. LifeInv /\ LifeInv' /\ [Next]_vars => [ExpiryTravels /\ TraceOrdered']_vars
  <2>. SUFFICES ASSUME LifeInv, LifeInv' PROVE ExpiryTravels /\ TraceOrdered'
    OBVIOUS
  <2>1. ExpiryTravels
    BY StepExpires
  <2>2. TraceOrdered'
    BY <1>3, PTL
  <2>. QED
    BY <2>1, <2>2
<1>. QED
  BY <1>1, <1>2, <1>4, PTL DEF Spec, TimesSurvive
=============================================================================
