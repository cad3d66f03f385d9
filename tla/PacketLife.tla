------------------------------ MODULE PacketLife ------------------------------
(***************************************************************************)
(* Packets (nyarix-packet) and the queue that orders work by their tags    *)
(* (nyarix-runtime/priority.rs).                                           *)
(*                                                                         *)
(* A Packet is a handle on a reference-counted cell; every change goes     *)
(* through Arc::make_mut, which copies a shared cell first.  A handle is   *)
(* held by a task, kept by the PacketPool, or waits in a lane.  Time runs  *)
(* in ticks of half a millisecond, so that conversions to whole            *)
(* milliseconds round.  Tasks interleave between calls: each call owns     *)
(* its handle and takes at most one lock.                                  *)
(***************************************************************************)
EXTENDS Integers, Sequences, FiniteSets, SequencesExt

CONSTANTS
    Handles,    \* Packet values that can exist at once
    Bodies,     \* payloads besides the empty one
    UsedTags,   \* tags packets are given
    Modes,      \* how packets are traced
    Nodes,      \* nodes a packet may visit
    Deadlines,  \* instants a deadline is set to, or NoDeadline
    DefaultTtl, \* DEFAULT_TTL
    Maintenance,\* lanes callers choose themselves, instead of from_tags
    PoolSize,   \* PacketPool::max_size
    Capacity,   \* capacity of a lane
    MaxIds,     \* bound: PacketId::new calls
    MaxWrites,  \* bound: changes made to packets by their holders
    MaxHops,    \* bound: hops recorded on a packet
    MaxTime     \* bound: ticks of the clock

(* What from_tags and lane_for tell apart; the other tags they treat alike. *)
Tag == {"CONTROL", "HANDSHAKE", "REKEY", "INTERACTIVE", "BULK"}
Tracing == {"off", "hops", "detailed"}
EmptyPayload == "empty"
NoDeadline == -1

ASSUME PacketAssumption ==
    /\ IsFiniteSet(Handles)
    /\ DefaultTtl \in Nat \ {0} /\ PoolSize \in Nat /\ Capacity \in Nat \ {0}
    /\ MaxIds \in Nat /\ MaxWrites \in Nat /\ MaxHops \in Nat /\ MaxTime \in Nat
    /\ Deadlines \subseteq Nat \cup {NoDeadline} /\ EmptyPayload \notin Bodies
    /\ UsedTags \subseteq Tag /\ Modes \subseteq Tracing /\ Maintenance \subseteq {4, 5}

VARIABLES
    now,     \* Instant::now()
    ids,     \* PacketIds handed out; a new session is numbered by its first packet
    given,   \* observer: sessions a second packet was given, by its maker or the pool
    writes,  \* changes made so far
    cell,    \* [Handles -> cell its Arc points to, 0 if there is no such packet]
    heap,    \* [cells -> PacketInner]
    pool,    \* PacketPool::inner, last in first out
    lanes,   \* the five channels of a priority queue
    open,    \* a PrioritySender is left
    wire     \* the buffer encode returned (bound: one of them)

vars == <<now, ids, given, writes, cell, heap, pool, lanes, open, wire>>

TicksPerMs == 2
TaskPriority == <<"Realtime", "High", "Normal", "Low", "Background">>
Cells == 1 .. Cardinality(Handles)
Nothing == [kind |-> "none"]

-----------------------------------------------------------------------------
(* PacketInner with the Metadata that operations read or write.  session     *)
(* stands for session_id, flow_id and stream_id, which new makes together;  *)
(* pushed is an observer: trace_push was called.                            *)
Metadata(d, tracing, session) ==
    [session |-> session, ttl |-> DefaultTtl, deadline |-> d, created |-> now,
     tracing |-> tracing, trace |-> <<>>, stamps |-> <<>>, pushed |-> FALSE]

PacketInner(body, metadata) ==
    [kind |-> "packet", id |-> ids + 1, payload |-> body, tags |-> {}, meta |-> metadata]

MetadataType(meta) ==
    /\ meta.session \in 1 .. ids /\ meta.ttl \in 0 .. DefaultTtl
    /\ meta.created <= now /\ meta.deadline \in Nat \cup {NoDeadline}
    /\ meta.tracing \in Tracing /\ Len(meta.trace) <= MaxHops

Exists(h) == cell[h] # 0
Value(h) == heap[cell[h]]
Meta(h) == Value(h).meta
Pooled(h) == \E i \in 1 .. Len(pool) : pool[i] = h
Queued(h) == \E p \in DOMAIN lanes : \E i \in 1 .. Len(lanes[p]) : lanes[p][i] = h
Held(h) == Exists(h) /\ ~Pooled(h) /\ ~Queued(h)
Shared(h) == \E g \in Handles \ {h} : cell[g] = cell[h]
FreeCell == CHOOSE c \in Cells : heap[c] = Nothing

(* Arc::new, Arc::clone and the drop of an Arc.                             *)
Allocate(h, value) ==
    /\ cell' = [cell EXCEPT ![h] = FreeCell]
    /\ heap' = [heap EXCEPT ![FreeCell] = value]

Free(h) ==
    /\ cell' = [cell EXCEPT ![h] = 0]
    /\ heap' = IF Shared(h) THEN heap ELSE [heap EXCEPT ![cell[h]] = Nothing]

(* mutant: the cell is changed in place, whoever else points to it          *)
MakeMutInPlace(h, value) ==
    heap' = [heap EXCEPT ![cell[h]] = value] /\ UNCHANGED cell

(* Arc::make_mut, and the write through the reference it returns.           *)
MakeMut(h, value) ==
    IF Shared(h) THEN Allocate(h, value)
    ELSE heap' = [heap EXCEPT ![cell[h]] = value] /\ UNCHANGED cell

Change(h, value) ==
    /\ Held(h) /\ writes < MaxWrites
    /\ MakeMut(h, value) /\ writes' = writes + 1
    /\ UNCHANGED <<now, ids, given, pool, lanes, open, wire>>

-----------------------------------------------------------------------------
(* Packet.                                                                  *)

(* The sessions there are to join, and the one a new packet would found.    *)
Sessions == {Meta(g).session : g \in {f \in Handles : Held(f)}}
Founded == ids + 1

(* new and with_metadata, in a session of its own or, with_session, in one  *)
(* there is; tracing is sampled once, by with_tracing.                      *)
New(h, body, d, tracing, session) ==
    /\ ~Exists(h) /\ ids < MaxIds
    /\ Allocate(h, PacketInner(body, Metadata(d, tracing, session)))
    /\ ids' = ids + 1
    /\ given' = given \cup ({session} \ {Founded})
    /\ UNCHANGED <<now, writes, pool, lanes, open, wire>>

Clone(h, g) ==
    /\ Held(h) /\ ~Exists(g)
    /\ cell' = [cell EXCEPT ![g] = cell[h]]
    /\ UNCHANGED <<now, ids, given, writes, heap, pool, lanes, open, wire>>

Drop(h) ==
    /\ Held(h) /\ Free(h)
    /\ UNCHANGED <<now, ids, given, writes, pool, lanes, open, wire>>

SetPayload(h, body) == Change(h, [Value(h) EXCEPT !.payload = body])

TakePayload(h) == SetPayload(h, EmptyPayload)

InsertTag(h, t) ==
    Change(h, [Value(h) EXCEPT !.tags = @ \cup {t}])

(* decrement_ttl stops at zero.                                             *)
DecrementTtl(h) ==
    Change(h, [Value(h) EXCEPT !.meta.ttl = IF @ = 0 THEN 0 ELSE @ - 1])

ResetTtl(h) == Change(h, [Value(h) EXCEPT !.meta.ttl = DefaultTtl])

IsExpired(meta) == meta.ttl = 0 \/ (meta.deadline # NoDeadline /\ now >= meta.deadline)

(* millis_between: whole milliseconds, zero when there are none.            *)
MillisBetween(later, earlier) == IF later < earlier THEN 0 ELSE (later - earlier) \div TicksPerMs

(* record_hop: nothing unless traced, a time stamp too if detailed.         *)
RecordHop(h, n) ==
    /\ Len(Meta(h).trace) < MaxHops
    /\ Change(h, [Value(h) EXCEPT
                    !.meta.trace = IF Meta(h).tracing = "off" THEN @ ELSE Append(@, n),
                    !.meta.stamps = IF Meta(h).tracing = "detailed"
                                    THEN Append(@, MillisBetween(now, Meta(h).created)) ELSE @])

TracePush(h, n) ==
    /\ Len(Meta(h).trace) < MaxHops
    /\ Change(h, [Value(h) EXCEPT !.meta.trace = Append(@, n), !.meta.pushed = TRUE])

TraceSummary(meta) ==
    [i \in 1 .. Len(meta.trace) |->
        [node |-> meta.trace[i],
         elapsed |-> IF i <= Len(meta.stamps) THEN {meta.stamps[i]} ELSE {}]]

(* Instants travel as whole milliseconds: ago, or from now on.              *)
CreatedAgo(meta) == MillisBetween(now, meta.created)

CreatedAt(ago) == now - TicksPerMs * ago

DeadlineLeft(meta) ==
    IF meta.deadline = NoDeadline THEN {} ELSE {MillisBetween(meta.deadline, now)}

(* mutant: no time left reads as no deadline                                *)
DeadlineUnlessZero(left) ==
    IF left \in {{}, {0}} THEN NoDeadline ELSE now + TicksPerMs * (CHOOSE ms \in left : TRUE)

DeadlineAt(left) ==
    IF left = {} THEN NoDeadline ELSE now + TicksPerMs * (CHOOSE ms \in left : TRUE)

Encode(h) ==
    /\ Held(h) /\ wire = Nothing
    /\ wire' = [kind |-> "wire", value |-> Value(h), expired |-> IsExpired(Meta(h)),
                ago |-> CreatedAgo(Meta(h)), left |-> DeadlineLeft(Meta(h))]
    /\ UNCHANGED <<now, ids, given, writes, cell, heap, pool, lanes, open>>

Decode(h) ==
    /\ ~Exists(h) /\ wire # Nothing
    /\ Allocate(h, [wire.value EXCEPT !.meta.created = CreatedAt(wire.ago),
                                      !.meta.deadline = DeadlineAt(wire.left)])
    /\ UNCHANGED <<now, ids, given, writes, pool, lanes, open, wire>>

-----------------------------------------------------------------------------
(* PacketPool.                                                              *)

Acquire(h) ==
    /\ UNCHANGED <<now, writes, lanes, open, wire>>
    /\ \/ /\ pool # <<>> /\ h = Last(pool)
          /\ pool' = Front(pool)
          /\ UNCHANGED <<ids, given, cell, heap>>
       \/ /\ pool = <<>> /\ ~Exists(h) /\ ids < MaxIds
          /\ Allocate(h, PacketInner(EmptyPayload, Metadata(NoDeadline, "off", Founded)))
          /\ ids' = ids + 1 /\ UNCHANGED <<given, pool>>

(* mutant: a recycled packet keeps its identity                             *)
ReleaseKeepsId(h) ==
    /\ Held(h) /\ ids < MaxIds
    /\ IF Len(pool) < PoolSize
       THEN /\ MakeMut(h, [Value(h) EXCEPT !.payload = EmptyPayload])
            /\ pool' = Append(pool, h) /\ given' = given \cup {Meta(h).session}
       ELSE Free(h) /\ UNCHANGED <<given, pool>>
    /\ ids' = ids + 1
    /\ UNCHANGED <<now, writes, lanes, open, wire>>

(* release: payload and id are replaced, everything else is kept, session,  *)
(* flow and stream as well: whoever gets the packet next is in them.  A     *)
(* packet the full pool does not take is dropped.                           *)
Release(h) ==
    /\ Held(h) /\ ids < MaxIds
    /\ IF Len(pool) < PoolSize
       THEN /\ MakeMut(h, [Value(h) EXCEPT !.payload = EmptyPayload, !.id = ids + 1])
            /\ pool' = Append(pool, h) /\ given' = given \cup {Meta(h).session}
       ELSE Free(h) /\ UNCHANGED <<given, pool>>
    /\ ids' = ids + 1
    /\ UNCHANGED <<now, writes, lanes, open, wire>>

ClearPool ==
    /\ pool # <<>> /\ pool' = <<>>
    /\ cell' = [h \in Handles |-> IF Pooled(h) THEN 0 ELSE cell[h]]
    /\ heap' = [c \in Cells |-> IF \E h \in Handles : cell'[h] = c THEN heap[c] ELSE Nothing]
    /\ UNCHANGED <<now, ids, given, writes, lanes, open, wire>>

-----------------------------------------------------------------------------
(* A priority queue of packets.                                             *)

FromTags(tags) ==
    IF tags \cap {"CONTROL", "HANDSHAKE", "REKEY"} # {} THEN 1
    ELSE IF "INTERACTIVE" \in tags THEN 2 ELSE 3

(* Maintenance work is put in the two lanes no tag leads to.                *)
Priorities(h) == {FromTags(Value(h).tags)} \cup Maintenance

(* try_send, or send once there is space.                                   *)
Send(h, p) ==
    /\ Held(h) /\ open /\ p \in Priorities(h)
    /\ Len(lanes[p]) < Capacity
    /\ lanes' = [lanes EXCEPT ![p] = Append(@, h)]
    /\ UNCHANGED <<now, ids, given, writes, cell, heap, pool, open, wire>>

Waiting == {p \in DOMAIN lanes : lanes[p] # <<>>}

(* The branch a biased select! completes with: a closed, empty lane is as   *)
(* ready as one with an item, so without senders only Realtime is served.   *)
Polls(p) == p \in Waiting /\ (\A r \in Waiting : p <= r) /\ (open \/ p = 1)

Recv(p) ==
    /\ Polls(p)
    /\ lanes' = [lanes EXCEPT ![p] = Tail(@)]
    /\ UNCHANGED <<now, ids, given, writes, cell, heap, pool, open, wire>>

(* drain hands out everything there is.                                     *)
Drain ==
    /\ Waiting # {} /\ lanes' = [p \in DOMAIN lanes |-> <<>>]
    /\ UNCHANGED <<now, ids, given, writes, cell, heap, pool, open, wire>>

DropSenders == open /\ open' = FALSE /\ UNCHANGED <<now, ids, given, writes, cell, heap, pool, lanes, wire>>

Tick == now < MaxTime /\ now' = now + 1 /\ UNCHANGED <<ids, given, writes, cell, heap, pool, lanes, open, wire>>

-----------------------------------------------------------------------------
Init ==
    /\ now = 0 /\ ids = 0 /\ given = {} /\ writes = 0 /\ cell = [h \in Handles |-> 0]
    /\ heap = [c \in Cells |-> Nothing]
    /\ pool = <<>> /\ lanes = [p \in DOMAIN TaskPriority |-> <<>>] /\ open = TRUE
    /\ wire = Nothing

PacketStep(h) ==
    \/ \E b \in Bodies, d \in Deadlines, t \in Modes, s \in Sessions \cup {Founded} :
          New(h, b, d, t, s)
    \/ \E g \in Handles : Clone(h, g)
    \/ Drop(h) \/ Encode(h) \/ Decode(h)
    \/ Held(h) /\ ( \/ TakePayload(h) \/ DecrementTtl(h) \/ ResetTtl(h)
                    \/ \E b \in Bodies : SetPayload(h, b)
                    \/ \E t \in UsedTags : InsertTag(h, t)
                    \/ \E n \in Nodes : RecordHop(h, n) \/ TracePush(h, n))

Next ==
    \/ \E h \in Handles : \/ PacketStep(h) \/ Acquire(h) \/ Release(h)
                          \/ \E p \in DOMAIN lanes : Send(h, p)
    \/ \E p \in DOMAIN lanes : Recv(p)
    \/ ClearPool \/ Drain \/ DropSenders \/ Tick

Spec == Init /\ [][Next]_vars

-----------------------------------------------------------------------------
(* Types: every handle is in one place and every cell is referenced.        *)
TypeOK ==
    /\ now \in 0 .. MaxTime /\ ids \in 0 .. MaxIds /\ given \subseteq 1 .. ids
    /\ writes \in 0 .. MaxWrites /\ open \in BOOLEAN
    /\ cell \in [Handles -> Cells \cup {0}]
    /\ \A c \in Cells : heap[c] # Nothing <=> \E h \in Handles : cell[h] = c
    /\ \A c \in Cells : heap[c] # Nothing => MetadataType(heap[c].meta)
    /\ \A h \in Handles : (Pooled(h) \/ Queued(h) => Exists(h)) /\ ~(Pooled(h) /\ Queued(h))
    /\ IsInjective(pool) /\ Len(pool) <= PoolSize
    /\ \A p \in DOMAIN lanes : Len(lanes[p]) <= Capacity

(* Packets are values: no call changes what two handles read, however many   *)
(* clones, pooled and queued packets share their cell.                      *)
ClonesIsolated ==
    Cardinality({h \in Handles : /\ Exists(h) /\ cell'[h] # 0
                                 /\ heap'[cell'[h]] # Value(h)}) <= 1

(* What the pool hands out is empty, and its id nobody else's: no handle and *)
(* no encoded buffer carries it, though clones of it may still be about.    *)
RecycledRenamed ==
    \A h \in Handles : Pooled(h) =>
        /\ Value(h).payload = EmptyPayload
        /\ \A g \in Handles \ {h} : Exists(g) => Value(g).id # Value(h).id
        /\ wire # Nothing => wire.value.id # Value(h).id

(* Two packets, about or encoded, are in one session only if the second was   *)
(* put in it: by its maker, or by the pool, which recycles a packet with the *)
(* session, flow and stream it had.  No copy, change or decoding mixes them. *)
Seen == {Value(h) : h \in {g \in Handles : Exists(g)}}
        \cup (IF wire = Nothing THEN {} ELSE {wire.value})
SessionsApart ==
    \A v, w \in Seen : v.meta.session = w.meta.session /\ v.id # w.id => v.meta.session \in given

(* A packet waits in the lane its tags ask for: nobody can retag it there.  *)
QueuedByTags ==
    \A p \in DOMAIN lanes : \A i \in 1 .. Len(lanes[p]) :
        p \in Priorities(lanes[p][i])

(* A packet that had expired when it was encoded is expired as decoded,     *)
(* however late, though instants are rounded and travel relative to now.    *)
ExpiryTravels ==
    \A h \in Handles : Decode(h) /\ wire.expired => IsExpired(heap'[cell'[h]].meta)

(* The stamps of a trace never decrease, never exceed the packet's age, and   *)
(* there is one for each hop of a detailed trace and none in another, across *)
(* copies, recycling and encodings; unless trace_push added hops besides.   *)
TraceOrdered ==
    \A h \in Handles : Exists(h) =>
        LET s == Meta(h).stamps
        IN  /\ ~Meta(h).pushed =>
                  Len(s) = IF Meta(h).tracing = "detailed" THEN Len(TraceSummary(Meta(h))) ELSE 0
            /\ \A i \in 1 .. Len(s) : /\ s[i] <= MillisBetween(now, Meta(h).created)
                                      /\ \A j \in 1 .. i : s[j] <= s[i]

(* Nobody is left with another's packet: every handle is in one place, every *)
(* cell is referenced, what is recycled has an id of its own, and sessions   *)
(* mix nowhere but in the pool.                                             *)
HandlesAccounted == TypeOK /\ RecycledRenamed /\ SessionsApart

(* A packet is a value: its owner alone can change it, and so it waits in    *)
(* the lane it was put in by rights.                                        *)
PacketsAreValues == [][ClonesIsolated /\ QueuedByTags']_vars

(* What a packet says of time stays true, copied, recycled and on the wire.  *)
TimesSurvive == [][ExpiryTravels /\ TraceOrdered']_vars
==============================================================================
