--------------------------- MODULE ModuleApiProofs ---------------------------
(***************************************************************************)
(* Proofs about nyarix-module-api.                                         *)
(*                                                                         *)
(* ModuleAccess, for any modules, requests and grants: the token bucket    *)
(* bounds every window of time, connections are counted by who holds them, *)
(* an enforced module is denied nothing it declared, and what a context    *)
(* resolves was initialized.                                               *)
(*                                                                         *)
(* ModuleEvents, for any nodes, filters, events and ring: Running means    *)
(* initialized, no subscriber survives the shutdown of all nodes, and one   *)
(* is given what the ring kept for it, in order, once.                     *)
(***************************************************************************)
EXTENDS ModuleAccess, ModuleEvents, SequenceTheorems, FiniteSetTheorems, WellFoundedInduction, TLAPS

-----------------------------------------------------------------------------
(* What a context lets a module do: the bucket, the mask, the instances.    *)

(* Every capability has a bit in the mask.                                  *)
LEMMA MaskBits ==
    ASSUME NEW S \in SUBSET Capability
    PROVE  FromCapabilities(S) \subseteq 1 .. Len(Capabilities)
<1>1. \A c \in Capability : Mask(c) \in 1 .. Len(Capabilities)
    BY DEF Capability, Mask
<1>2. QED
    BY <1>1 DEF FromCapabilities

(* A refused check reports a capability that it asked for and the mask lacks. *)
LEMMA FirstRefusedIsRefused ==
    ASSUME NEW r \in Requests, Refused(r) # {}
    PROVE  FirstRefused(r) \in Capability /\ ~Has(granted, FirstRefused(r))
<1>1. /\ \A k \in 1 .. Len(Asks(r)) : Asks(r)[k] \in Capability
      /\ Len(Asks(r)) \in 1 .. 2
    <2>1. {"Filesystem", "Network", "Dns", "PrivilegedSockets"} \subseteq Capability
        BY DEF Capability, Capabilities
    <2>2. r.op \in {"file", "net", "dns", "bind"}
        BY AccessAssumption
    <2>3. Asks(r) \in {<<"Filesystem">>, <<"Network">>, <<"Dns">>,
                       <<"Network", "PrivilegedSockets">>}
        BY <2>2 DEF Asks
    <2>4. QED
        BY <2>1, <2>3
<1>2. Refused(r) \subseteq {1, 2}
    BY <1>1 DEF Refused
<1>3. \E k \in Refused(r) : \A l \in Refused(r) : k <= l
    BY <1>2
<1>4. PICK k \in Refused(r) : FirstRefused(r) = Asks(r)[k]
    BY <1>3 DEF FirstRefused
<1>5. QED
    BY <1>1, <1>4 DEF Refused

(* Stepwise forms of the two operators on records that the actions use.     *)
LEMMA TypeInit == Init => TypeOK
<1> SUFFICES ASSUME Init PROVE TypeOK
    OBVIOUS
<1>1. granted \subseteq 1 .. Len(Capabilities)
    BY AccessAssumption, MaskBits DEF Init
<1>2. (CHOOSE m \in Names : TRUE) \in Names
    BY AccessAssumption
<1>3. tokens \in 0 .. Capacity * Unit
    BY AccessAssumption DEF Init
<1>4. QED
    BY <1>1, <1>2, <1>3, AccessAssumption DEF Init, TypeOK, NotStarted

LEMMA TypeStart ==
    ASSUME TypeOK, NEW i \in Instances, NEW m \in Names,
           NEW st \in {"refused", "initializing"}, NEW e \in BOOLEAN, Start(i, m, st, e)
    PROVE  TypeOK'
<1>1. DependenciesFor(m) \subseteq Instances
    BY AccessAssumption DEF TypeOK, DependenciesFor
<1>2. [name |-> m, st |-> st, enforced |-> e, deps |-> DependenciesFor(m)]
        \in [name : Names, st : {"none", "refused", "initializing", "live", "failed", "crashed"},
             enforced : BOOLEAN, deps : SUBSET Instances]
    BY <1>1
<1>3. QED
    BY <1>2 DEF TypeOK, Start, limiter, table

LEMMA RefilledType ==
    ASSUME TypeOK
    PROVE  /\ Refilled \in 0 .. Capacity * Unit
           /\ Refilled <= tokens + (clock - lastRefill) * Rate
<1>1. (clock - lastRefill) * Rate \in Nat
    <2>1. clock - lastRefill \in Nat
        BY DEF TypeOK
    <2>2. QED
        BY <2>1, AccessAssumption
<1>2. Capacity * Unit \in Nat
    BY AccessAssumption
<1>3. QED
    BY <1>1, <1>2 DEF TypeOK, Refilled, LesserOf

LEMMA TypeAcquire ==
    ASSUME TypeOK, TryAcquire, clock' = clock
    PROVE  /\ tokens' \in 0 .. Capacity * Unit /\ lastRefill' \in 0 .. clock
           /\ acquired' \in Seq(0 .. clock)
<1> DEFINE full == Capacity * Unit
<1>1. Unit \in Nat /\ Refilled \in 0 .. full /\ full \in Nat
    BY AccessAssumption, RefilledType
<1>2. clock \in Nat /\ acquired \in Seq(0 .. clock)
    BY DEF TypeOK
<1> HIDE DEF full
<1>3. tokens' \in 0 .. full
    BY <1>1 DEF TryAcquire
<1>4. lastRefill' \in 0 .. clock /\ acquired' \in Seq(0 .. clock)
    BY <1>2 DEF TryAcquire
<1>5. QED
    BY <1>3, <1>4 DEF full

(* The outcome of every action has its type; the bucket is never above its   *)
(* capacity, whatever try_acquire refills.                                  *)
LEMMA TypeStep == TypeOK /\ [Next]_vars => TypeOK'
<1> SUFFICES ASSUME TypeOK, [Next]_vars PROVE TypeOK'
    OBVIOUS
<1>1. CASE Tick
    <2>1. 0 .. clock \subseteq 0 .. clock' /\ clock' \in 0 .. MaxTime
        <3>1. clock \in Nat /\ MaxTime \in Nat /\ clock < MaxTime /\ clock' = clock + 1
            BY <1>1, AccessAssumption DEF Tick, TypeOK
        <3>2. QED
            BY <3>1
    <2>2. acquired \in Seq(0 .. clock')
        <3>1. acquired \in Seq(0 .. clock)
            BY DEF TypeOK
        <3>2. QED
            BY <2>1, <3>1, SeqMonotonic
    <2>3. lastRefill \in 0 .. clock'
        BY <2>1 DEF TypeOK
    <2>4. QED
        BY <1>1, <2>1, <2>2, <2>3, Zenon DEF Tick, TypeOK, modules, limiter, table
<1>2. ASSUME NEW i \in Instances, NEW m \in Names, Enforce(i, m) \/ Register(i, m) PROVE TypeOK'
    BY <1>2, TypeStart DEF Enforce, Register
<1>3. ASSUME NEW i \in Instances, NEW o \in {"live", "failed", "crashed"}, Initialized(i, o)
      PROVE  TypeOK'
    BY <1>3 DEF TypeOK, Initialized, limiter, table
<1>4. ASSUME NEW i \in Instances, NEW r \in Requests, CheckDenied(i, r) PROVE TypeOK'
    <2>1. FirstRefused(r) \in Capability
        BY <1>4, FirstRefusedIsRefused DEF CheckDenied
    <2>2. QED
        BY <1>4, <2>1 DEF TypeOK, CheckDenied, modules, limiter, table
<1>5. ASSUME NEW i \in Instances, NEW r \in Requests, CheckLimited(i, r) PROVE TypeOK'
    <2>1. /\ tokens' \in 0 .. Capacity * Unit /\ lastRefill' \in 0 .. clock
          /\ acquired' \in Seq(0 .. clock)
        BY <1>5, TypeAcquire DEF CheckLimited
    <2>2. open' \in [Names -> Nat] /\ conns' \in [Instances -> 0 .. MaxConns]
        <3>1. /\ inst[i].name \in Names /\ MaxConns \in Nat
              /\ open \in [Names -> Nat] /\ conns \in [Instances -> 0 .. MaxConns]
            BY AccessAssumption DEF TypeOK
        <3>2. QED
            BY <1>5, <3>1 DEF CheckLimited, table
    <2>3. QED
        BY <1>5, <2>1, <2>2 DEF CheckLimited, TypeOK, modules
<1>6. ASSUME NEW i \in Instances, Close(i) PROVE TypeOK'
    <2>1. open' \in [Names -> Nat] /\ conns' \in [Instances -> 0 .. MaxConns]
        BY <1>6, AccessAssumption DEF Close, TrackConnectionClosed, TypeOK
    <2>2. QED
        BY <1>6, <2>1 DEF Close, TypeOK, modules, limiter
<1>7. CASE UNCHANGED vars
    BY <1>7 DEF TypeOK, vars
<1>8. QED
    BY <1>1, <1>2, <1>3, <1>4, <1>5, <1>6, <1>7 DEF Next

(* Every variable keeps its type in every behaviour, for any modules,        *)
(* requests, capacity and rate.                                             *)
THEOREM TypeCorrect == Spec => []TypeOK
    BY TypeInit, TypeStep, PTL DEF Spec

-----------------------------------------------------------------------------
(* The rate limiter.  What was taken since the i-th token, with what is left, *)
(* never exceeds a full bucket and what was refilled since; RateBound alone   *)
(* is not inductive, as it says nothing of the bucket.                        *)
TokensAccount ==
    \A i \in 1 .. Len(acquired) :
        /\ acquired[i] <= lastRefill
        /\ (Len(acquired) - i + 1) * Unit + tokens
              <= Capacity * Unit + (lastRefill - acquired[i]) * Rate

(* Refilling from l to c adds what the account allows for that time.         *)
LEMMA RefillKeepsAccount ==
    ASSUME NEW used \in Nat, NEW full \in Nat, NEW r \in Nat,
           NEW a \in Nat, NEW l \in Nat, NEW c \in Nat, a <= l, l <= c,
           NEW t \in Nat, NEW refilled \in Nat, refilled <= t + (c - l) * r,
           used + t <= full + (l - a) * r
    PROVE  used + refilled <= full + (c - a) * r
<1>1. (c - l) * r + (l - a) * r = (c - a) * r
    OBVIOUS
<1>2. (c - l) * r \in Int /\ (l - a) * r \in Int
    OBVIOUS
<1>3. QED
    BY <1>1, <1>2

LEMMA AccountAcquire ==
    ASSUME TypeOK, TokensAccount, RateBound, TryAcquire
    PROVE  TokensAccount' /\ RateBound'
<1> DEFINE full == Capacity * Unit
           n == Len(acquired)
<1>1. /\ Unit \in Nat /\ Rate \in Nat /\ full \in Nat
      /\ clock \in Nat /\ lastRefill \in Nat /\ lastRefill <= clock
      /\ tokens \in Nat /\ n \in Nat
    BY AccessAssumption DEF TypeOK
<1>2. /\ Refilled \in Nat /\ Refilled <= full
      /\ Refilled <= tokens + (clock - lastRefill) * Rate
    BY RefilledType, <1>1
<1>3. /\ acquired \in Seq(0 .. clock) /\ acquired \in Seq(Nat)
      /\ \A i \in 1 .. n : acquired[i] \in Nat /\ acquired[i] <= clock
    <2>1. acquired \in Seq(0 .. clock)
        BY DEF TypeOK
    <2>2. 0 .. clock \subseteq Nat
        BY <1>1
    <2>3. QED
        BY <2>1, <2>2, SeqMonotonic, ElementOfSeq, <1>1
<1>4. ASSUME NEW i \in 1 .. n
      PROVE  (n - i + 1) * Unit + Refilled <= full + (clock - acquired[i]) * Rate
    <2>1. acquired[i] <= lastRefill
          /\ (n - i + 1) * Unit + tokens <= full + (lastRefill - acquired[i]) * Rate
        BY DEF TokensAccount
    <2>2. (n - i + 1) * Unit \in Nat
        <3>1. n - i + 1 \in Nat
            BY <1>1
        <3>2. QED
            BY <3>1, <1>1
    <2>3. QED
        BY <1>1, <1>2, <1>3, <2>1, <2>2, RefillKeepsAccount
<1>5. CASE Refilled >= Unit
    <2>1. /\ tokens' = Refilled - Unit /\ lastRefill' = clock
          /\ acquired' = Append(acquired, clock)
        BY <1>5 DEF TryAcquire
    <2>2. /\ Len(acquired') = n + 1 /\ acquired'[n + 1] = clock
          /\ \A i \in 1 .. n : acquired'[i] = acquired[i]
        BY <2>1, <1>3
    <2>3. ASSUME NEW i \in 1 .. n + 1
          PROVE  /\ acquired'[i] <= clock
                 /\ (n + 1 - i + 1) * Unit + tokens' <= full + (clock - acquired'[i]) * Rate
        <3>1. CASE i = n + 1
            <4>1. n + 1 - i + 1 = 1 /\ clock - acquired'[i] = 0
                BY <3>1, <2>2, <1>1
            <4>2. (n + 1 - i + 1) * Unit = Unit /\ (clock - acquired'[i]) * Rate = 0
                BY <4>1, <1>1
            <4>3. QED
                BY <4>2, <3>1, <2>1, <2>2, <1>1, <1>2
        <3>2. CASE i \in 1 .. n
            <4>1. (n + 1 - i + 1) * Unit = (n - i + 1) * Unit + Unit /\ (n - i + 1) * Unit \in Int
                  /\ (clock - acquired[i]) * Rate \in Int
                BY <1>1, <1>3, <3>2
            <4>2. QED
                BY <4>1, <1>4, <3>2, <2>1, <2>2, <1>1, <1>2, <1>3
        <3>3. QED
            BY <3>1, <3>2, <1>1
    <2>4. TokensAccount'
        BY <2>1, <2>2, <2>3 DEF TokensAccount
    <2>5. ASSUME NEW i \in 1 .. n + 1, NEW j \in 1 .. n + 1, i <= j
          PROVE  (j - i + 1) * Unit <= full + (acquired'[j] - acquired'[i]) * Rate
        <3>1. CASE j \in 1 .. n
            BY <3>1, <2>2, <2>5, <1>1 DEF RateBound
        <3>2. CASE j = n + 1
            <4>1. tokens' \in Nat /\ (n + 1 - i + 1) * Unit \in Int
                  /\ (clock - acquired'[i]) * Rate \in Int
                BY <1>1, <1>2, <1>3, <1>5, <2>1, <2>2
            <4>2. QED
                BY <4>1, <3>2, <2>2, <2>3, <1>1
        <3>3. QED
            BY <3>1, <3>2, <1>1
    <2>6. RateBound'
        BY <2>2, <2>5 DEF RateBound
    <2>7. QED
        BY <2>4, <2>6
<1>6. CASE ~(Refilled >= Unit)
    <2>1. tokens' = Refilled /\ lastRefill' = clock /\ acquired' = acquired
        BY <1>6 DEF TryAcquire
    <2>2. TokensAccount'
        BY <2>1, <1>3, <1>4 DEF TokensAccount
    <2>3. QED
        BY <2>1, <2>2 DEF RateBound
<1>7. QED
    BY <1>5, <1>6

-----------------------------------------------------------------------------
(* The connection table.  An instance not started holds nothing: otherwise   *)
(* starting it would move its connections to another name.                  *)
NoneHeldBeforeStart == \A i \in Instances : inst[i].st = "none" => conns[i] = 0

LEMMA HeldFinite ==
    ASSUME NEW m \in Names
    PROVE  IsFiniteSet(HeldBy(m)) /\ Cardinality(HeldBy(m)) \in Nat
<1>1. IsFiniteSet(Instances) /\ IsFiniteSet(1 .. MaxConns)
    BY AccessAssumption, FS_Interval DEF Instances
<1>2. IsFiniteSet(Instances \X (1 .. MaxConns))
    BY <1>1, FS_Product
<1>3. HeldBy(m) \subseteq Instances \X (1 .. MaxConns)
    BY DEF HeldBy
<1>4. QED
    BY <1>2, <1>3, FS_Subset, FS_CardinalityType

(* Steps that open or close nothing and start nothing keep every count.      *)
LEMMA CountUndisturbed ==
    ASSUME TypeOK, ConnectionsCounted, NoneHeldBeforeStart, UNCHANGED table,
           \A i \in Instances : inst[i].st # "none" => inst'[i].st # "none"
                                                     /\ inst'[i].name = inst[i].name
    PROVE  ConnectionsCounted' /\ NoneHeldBeforeStart'
<1>1. conns' = conns /\ open' = open
    BY DEF table
<1>2. ASSUME NEW m \in Names PROVE HeldBy(m)' = HeldBy(m)
    <2>1. ASSUME NEW c \in Instances \X (1 .. MaxConns), c[2] <= conns[c[1]]
          PROVE  inst'[c[1]].name = inst[c[1]].name
        <3>1. c[1] \in Instances /\ c[2] \in 1 .. MaxConns
            BY <2>1
        <3>2. conns[c[1]] # 0
            BY <2>1, <3>1
        <3>3. QED
            BY <3>1, <3>2 DEF NoneHeldBeforeStart
    <2>2. QED
        BY <1>1, <2>1 DEF HeldBy
<1>3. ConnectionsCounted'
    BY <1>1, <1>2 DEF ConnectionsCounted, OpenConnectionCount
<1>4. QED
    BY <1>1, <1>3 DEF NoneHeldBeforeStart

LEMMA CountOpened ==
    ASSUME TypeOK, ConnectionsCounted, NEW i \in Instances, conns[i] < MaxConns,
           conns' = [conns EXCEPT ![i] = @ + 1],
           open' = [open EXCEPT ![inst[i].name] = @ + 1], inst' = inst
    PROVE  ConnectionsCounted'
<1> DEFINE new == <<i, conns[i] + 1>>
           n == inst[i].name
<1>1. /\ n \in Names /\ open \in [Names -> Nat] /\ conns \in [Instances -> 0 .. MaxConns]
      /\ MaxConns \in Nat
    BY AccessAssumption DEF TypeOK
<1>2. new \in Instances \X (1 .. MaxConns) /\ new \notin HeldBy(n)
    BY <1>1 DEF HeldBy
<1>3. ASSUME NEW c \in Instances \X (1 .. MaxConns)
      PROVE  c[2] <= conns'[c[1]] <=> c[2] <= conns[c[1]] \/ c = new
    BY <1>1
<1>4. HeldBy(n)' = HeldBy(n) \cup {new}
    BY <1>1, <1>2, <1>3 DEF HeldBy
<1>5. \A m \in Names \ {n} : HeldBy(m)' = HeldBy(m)
    BY <1>1, <1>3 DEF HeldBy
<1>6. Cardinality(HeldBy(n)') = Cardinality(HeldBy(n)) + 1
    BY <1>1, <1>2, <1>4, HeldFinite, FS_AddElement
<1>7. QED
    BY <1>1, <1>5, <1>6 DEF ConnectionsCounted, OpenConnectionCount

(* The count of the name is positive when one of its instances closes, so    *)
(* saturating_sub never saturates.                                          *)
LEMMA CountClosed ==
    ASSUME TypeOK, ConnectionsCounted, NEW i \in Instances, Close(i)
    PROVE  ConnectionsCounted'
<1> DEFINE old == <<i, conns[i]>>
           n == inst[i].name
<1>1. /\ n \in Names /\ open \in [Names -> Nat] /\ conns \in [Instances -> 0 .. MaxConns]
      /\ MaxConns \in Nat /\ conns[i] > 0
    BY AccessAssumption DEF TypeOK, Close
<1>2. /\ conns' = [conns EXCEPT ![i] = @ - 1] /\ inst' = inst
      /\ open' = [open EXCEPT ![n] = IF @ = 0 THEN 0 ELSE @ - 1]
    BY DEF Close, TrackConnectionClosed, modules
<1>3. old \in HeldBy(n)
    BY <1>1 DEF HeldBy
<1>4. ASSUME NEW c \in Instances \X (1 .. MaxConns)
      PROVE  c[2] <= conns'[c[1]] <=> c[2] <= conns[c[1]] /\ c # old
    BY <1>1, <1>2
<1>5. HeldBy(n)' = HeldBy(n) \ {old}
    BY <1>1, <1>2, <1>4 DEF HeldBy
<1>6. \A m \in Names \ {n} : HeldBy(m)' = HeldBy(m)
    BY <1>1, <1>2, <1>4 DEF HeldBy
<1>7. Cardinality(HeldBy(n)') = Cardinality(HeldBy(n)) - 1 /\ Cardinality(HeldBy(n)) # 0
    <2>1. Cardinality(HeldBy(n)') = Cardinality(HeldBy(n)) - 1
        <3>1. IsFiniteSet(HeldBy(n))
            BY <1>1, HeldFinite
        <3>2. Cardinality(HeldBy(n) \ {old}) = Cardinality(HeldBy(n)) - 1
            BY <1>3, <3>1, FS_RemoveElement
        <3>3. QED
            BY <1>5, <3>2
    <2>2. Cardinality(HeldBy(n)) # 0
        BY <1>1, <1>3, HeldFinite, FS_EmptySet
    <2>3. QED
        BY <2>1, <2>2
<1>8. open[n] = Cardinality(HeldBy(n))
    BY <1>1 DEF ConnectionsCounted, OpenConnectionCount
<1>9. QED
    BY <1>1, <1>2, <1>6, <1>7, <1>8 DEF ConnectionsCounted, OpenConnectionCount

AccountsInv == TypeOK /\ TokensAccount /\ RateBound /\ NoneHeldBeforeStart /\ ConnectionsCounted

LEMMA AccountsInit == Init => AccountsInv
<1> SUFFICES ASSUME Init PROVE AccountsInv
    OBVIOUS
<1>1. TokensAccount /\ RateBound
    BY DEF Init, TokensAccount, RateBound
<1>2. \A m \in Names : HeldBy(m) = {}
    BY DEF Init, HeldBy
<1>3. ConnectionsCounted
    BY <1>2, FS_EmptySet DEF Init, ConnectionsCounted, OpenConnectionCount
<1>4. QED
    BY <1>1, <1>3, TypeInit DEF AccountsInv, NoneHeldBeforeStart, Init

LEMMA AccountsStep == AccountsInv /\ [Next]_vars => AccountsInv'
<1> SUFFICES ASSUME AccountsInv, [Next]_vars PROVE AccountsInv'
    OBVIOUS
<1> USE DEF AccountsInv
<1>1. TypeOK'
    BY TypeStep
<1>2. CASE UNCHANGED limiter /\ UNCHANGED table
           /\ \A i \in Instances : inst[i].st # "none" =>
                 inst'[i].st # "none" /\ inst'[i].name = inst[i].name
    <2>1. TokensAccount' /\ RateBound'
        BY <1>2 DEF TokensAccount, RateBound, limiter
    <2>2. QED
        BY <1>1, <1>2, <2>1, CountUndisturbed
<1>3. CASE Tick \/ UNCHANGED vars
    BY <1>2, <1>3 DEF Tick, vars, modules, limiter, table
<1>4. ASSUME NEW i \in Instances, NEW m \in Names, Enforce(i, m) \/ Register(i, m)
      PROVE  AccountsInv'
    <2>1. PICK st, e : Start(i, m, st, e)
        BY <1>4 DEF Enforce, Register
    <2>2. UNCHANGED limiter /\ UNCHANGED table
          /\ \A j \in Instances : inst[j].st # "none" => inst'[j] = inst[j]
        BY <2>1 DEF Start, TypeOK
    <2>3. QED
        BY <1>2, <2>2
<1>5. ASSUME NEW i \in Instances, NEW o \in {"live", "failed", "crashed"}, Initialized(i, o)
      PROVE  AccountsInv'
    <2>1. UNCHANGED limiter /\ UNCHANGED table
          /\ \A j \in Instances : inst[j].st # "none" =>
                inst'[j].st # "none" /\ inst'[j].name = inst[j].name
        BY <1>5 DEF Initialized, TypeOK
    <2>2. QED
        BY <1>2, <2>1
<1>6. ASSUME NEW i \in Instances, NEW r \in Requests, CheckDenied(i, r) PROVE AccountsInv'
    BY <1>2, <1>6 DEF CheckDenied, modules
<1>7. ASSUME NEW i \in Instances, NEW r \in Requests, CheckLimited(i, r) PROVE AccountsInv'
    <2>1. TokensAccount' /\ RateBound'
        BY <1>7, AccountAcquire DEF CheckLimited
    <2>2. inst' = inst /\ inst[i].st # "none"
        BY <1>7 DEF CheckLimited, modules, Runs
    <2>3. CASE UNCHANGED table
        BY <1>1, <2>1, <2>2, <2>3, CountUndisturbed
    <2>4. CASE ~ UNCHANGED table
        <3>1. /\ conns[i] < MaxConns /\ conns' = [conns EXCEPT ![i] = @ + 1]
              /\ open' = [open EXCEPT ![inst[i].name] = @ + 1]
            BY <1>7, <2>4 DEF CheckLimited
        <3>2. ConnectionsCounted'
            BY <2>2, <3>1, CountOpened
        <3>3. NoneHeldBeforeStart'
            BY <2>2, <3>1 DEF NoneHeldBeforeStart, TypeOK
        <3>4. QED
            BY <1>1, <2>1, <3>2, <3>3
    <2>5. QED
        BY <2>3, <2>4
<1>8. ASSUME NEW i \in Instances, Close(i) PROVE AccountsInv'
    <2>1. TokensAccount' /\ RateBound'
        BY <1>8 DEF Close, limiter, TokensAccount, RateBound
    <2>2. ConnectionsCounted'
        BY <1>8, CountClosed
    <2>3. NoneHeldBeforeStart'
        BY <1>8 DEF Close, modules, NoneHeldBeforeStart, TypeOK
    <2>4. QED
        BY <1>1, <2>1, <2>2, <2>3
<1>9. QED
    BY <1>3, <1>4, <1>5, <1>6, <1>7, <1>8 DEF Next

(* The bucket bounds every window of time and the table counts connections,  *)
(* for any capacity, rate and number of instances.                          *)
THEOREM AccountsAreKept == Spec => []AccountsKept
<1>1. AccountsInv => AccountsKept
    BY DEF AccountsInv, AccountsKept
<1>2. QED
    BY <1>1, AccountsInit, AccountsStep, PTL DEF Spec

-----------------------------------------------------------------------------
(* Capabilities.  What an enforced instance declared is granted from its     *)
(* start on, and a denial names a capability that is not granted: with one   *)
(* mask that never changes, the check at start and those at each call agree. *)
DeclaredGranted ==
    \A i \in Instances :
        inst[i].enforced /\ inst[i].st # "refused" =>
            \A c \in Required[inst[i].name] : Has(granted, c)

DenialsFounded ==
    \A d \in denials : inst[d[1]].st \notin {"none", "refused"} /\ ~Has(granted, d[2])

AccessInv == TypeOK /\ DeclaredGranted /\ DenialsFounded

LEMMA AccessInit == Init => AccessInv
    BY TypeInit DEF Init, NotStarted, AccessInv, DeclaredGranted, DenialsFounded

LEMMA AccessStep == AccessInv /\ [Next]_vars => AccessInv'
<1> SUFFICES ASSUME AccessInv, [Next]_vars PROVE AccessInv'
    OBVIOUS
<1> USE DEF AccessInv
<1>1. TypeOK' /\ denials \subseteq Instances \X Capability
      /\ \A d \in denials : d[1] \in Instances
    BY TypeStep DEF TypeOK
<1>2. CASE UNCHANGED <<granted, inst, denials>>
    BY <1>1, <1>2 DEF DeclaredGranted, DenialsFounded, Has
<1>3. ASSUME NEW i \in Instances, NEW m \in Names, Enforce(i, m) \/ Register(i, m)
      PROVE  AccessInv'
    <2>1. PICK st \in {"refused", "initializing"}, e \in BOOLEAN :
              /\ Start(i, m, st, e)
              /\ e /\ st # "refused" => \A c \in Required[m] : Has(granted, c)
        BY <1>3 DEF Enforce, Register, Denied, Lacking
    <2>2. /\ inst[i].st = "none" /\ granted' = granted /\ denials' = denials
          /\ inst'[i].name = m /\ inst'[i].st = st /\ inst'[i].enforced = e
          /\ \A j \in Instances \ {i} : inst'[j] = inst[j]
        BY <2>1 DEF Start, TypeOK
    <2>3. DeclaredGranted'
        BY <2>1, <2>2 DEF DeclaredGranted, Has
    <2>4. DenialsFounded'
        BY <1>1, <2>2 DEF DenialsFounded, Has
    <2>5. QED
        BY <1>1, <2>3, <2>4
<1>4. ASSUME NEW i \in Instances, NEW o \in {"live", "failed", "crashed"}, Initialized(i, o)
      PROVE  AccessInv'
    <2>1. /\ inst[i].st = "initializing" /\ granted' = granted /\ denials' = denials
          /\ inst'[i].name = inst[i].name /\ inst'[i].enforced = inst[i].enforced
          /\ inst'[i].st = o
          /\ \A j \in Instances \ {i} : inst'[j] = inst[j]
        BY <1>4 DEF Initialized, TypeOK
    <2>2. DeclaredGranted'
        BY <2>1 DEF DeclaredGranted, Has
    <2>3. DenialsFounded'
        BY <1>1, <2>1 DEF DenialsFounded, Has
    <2>4. QED
        BY <1>1, <2>2, <2>3
<1>5. ASSUME NEW i \in Instances, NEW r \in Requests, CheckDenied(i, r) PROVE AccessInv'
    <2>1. ~Has(granted, FirstRefused(r))
        BY <1>5, FirstRefusedIsRefused DEF CheckDenied
    <2>2. /\ inst[i].st \notin {"none", "refused"} /\ inst' = inst /\ granted' = granted
          /\ denials' = denials \cup {<<i, FirstRefused(r)>>}
        BY <1>5 DEF CheckDenied, Runs, modules
    <2>3. DenialsFounded'
        BY <2>1, <2>2 DEF DenialsFounded, Has
    <2>4. QED
        BY <1>1, <2>2, <2>3 DEF DeclaredGranted, Has
<1>6. CASE \/ Tick \/ UNCHANGED vars
           \/ \E i \in Instances, r \in Requests : CheckLimited(i, r)
           \/ \E i \in Instances : Close(i)
    BY <1>2, <1>6 DEF Tick, CheckLimited, Close, modules, vars
<1>7. QED
    BY <1>3, <1>4, <1>5, <1>6 DEF Next

(* Whatever modules, grants and requests there are, an enforced module is    *)
(* never denied a capability it declared.                                   *)
THEOREM EnforcementHolds == Spec => []NoLateDenial
<1>1. AccessInv => NoLateDenial
    BY DEF AccessInv, TypeOK, DeclaredGranted, DenialsFounded, NoLateDenial
<1>2. QED
    BY <1>1, AccessInit, AccessStep, PTL DEF Spec

-----------------------------------------------------------------------------
(* Dependencies.  Only a live instance is registered, under its own name;    *)
(* since live is final, what a context was given stays live.                 *)
RegistryLive ==
    \A m \in Names : registry[m] # 0 =>
        inst[registry[m]].st = "live" /\ inst[registry[m]].name = m

DepsLive ==
    \A i \in Instances :
        /\ \A d \in inst[i].deps : inst[d].st = "live"
        /\ \A d, e \in inst[i].deps : inst[d].name = inst[e].name => d = e

DependencyInv == TypeOK /\ RegistryLive /\ DepsLive

LEMMA DependencyInit == Init => DependencyInv
    BY TypeInit DEF Init, NotStarted, DependencyInv, RegistryLive, DepsLive

LEMMA DependencyStep == DependencyInv /\ [Next]_vars => DependencyInv'
<1> SUFFICES ASSUME DependencyInv, [Next]_vars PROVE DependencyInv'
    OBVIOUS
<1> USE DEF DependencyInv
<1>1. TypeOK' /\ \A i \in Instances : inst[i].deps \subseteq Instances
      /\ registry \in [Names -> Instances \cup {0}] /\ 0 \notin Instances
    <2>1. 0 \notin Instances
        BY AccessAssumption DEF Instances
    <2>2. QED
        BY <2>1, TypeStep DEF TypeOK
<1>2. CASE UNCHANGED modules
    BY <1>1, <1>2 DEF RegistryLive, DepsLive, modules
<1>3. ASSUME NEW i \in Instances, NEW m \in Names, Enforce(i, m) \/ Register(i, m)
      PROVE  DependencyInv'
    <2>1. PICK st, e : Start(i, m, st, e)
        BY <1>3 DEF Enforce, Register
    <2>2. /\ inst[i].st = "none" /\ registry' = registry
          /\ inst'[i].deps = DependenciesFor(m)
          /\ \A j \in Instances \ {i} : inst'[j] = inst[j]
        BY <2>1 DEF Start, TypeOK
    <2>3. \A j \in Instances : inst[j].st = "live" => inst'[j] = inst[j]
        BY <2>2
    <2>4. RegistryLive'
        BY <1>1, <2>2, <2>3 DEF RegistryLive
    <2>5. \A d \in DependenciesFor(m) : d \in Instances /\ inst[d].st = "live"
        BY <1>1, AccessAssumption DEF DependenciesFor, RegistryLive
    <2>6. \A d, e2 \in DependenciesFor(m) : inst[d].name = inst[e2].name => d = e2
        BY <1>1, AccessAssumption DEF DependenciesFor, RegistryLive
    <2>7. ASSUME NEW j \in Instances
          PROVE  /\ \A d \in inst'[j].deps : inst'[d].st = "live"
                 /\ \A d, e2 \in inst'[j].deps : inst'[d].name = inst'[e2].name => d = e2
        <3>1. CASE j = i
            BY <2>2, <2>3, <2>5, <2>6, <3>1
        <3>2. CASE j # i
            BY <1>1, <2>2, <2>3, <3>2 DEF DepsLive
        <3>3. QED
            BY <3>1, <3>2
    <2>8. DepsLive'
        BY <2>7 DEF DepsLive
    <2>9. QED
        BY <1>1, <2>4, <2>8
<1>4. ASSUME NEW i \in Instances, NEW o \in {"live", "failed", "crashed"}, Initialized(i, o)
      PROVE  DependencyInv'
    <2>1. /\ inst[i].st = "initializing" /\ inst[i].name \in Names
          /\ inst'[i].name = inst[i].name /\ inst'[i].deps = inst[i].deps /\ inst'[i].st = o
          /\ \A j \in Instances \ {i} : inst'[j] = inst[j]
        BY <1>4 DEF Initialized, TypeOK
    <2>2. \A j \in Instances : inst[j].st = "live" => inst'[j] = inst[j]
        BY <2>1
    <2>3. \/ registry' = registry
          \/ o = "live" /\ registry' = [registry EXCEPT ![inst[i].name] = i]
        BY <1>4 DEF Initialized
    <2>4. RegistryLive'
        BY <1>1, <2>1, <2>2, <2>3 DEF RegistryLive
    <2>5. DepsLive'
        BY <1>1, <2>1, <2>2 DEF DepsLive
    <2>6. QED
        BY <1>1, <2>4, <2>5
<1>5. CASE \/ Tick \/ UNCHANGED vars
           \/ \E i \in Instances, r \in Requests : CheckDenied(i, r) \/ CheckLimited(i, r)
           \/ \E i \in Instances : Close(i)
    BY <1>2, <1>5 DEF Tick, CheckDenied, CheckLimited, Close, modules, vars
<1>6. QED
    BY <1>3, <1>4, <1>5 DEF Next

(* In every order of starts, failures and replacements, a context resolves a *)
(* name to at most one instance, and to an initialized one.                  *)
THEOREM ResolvesInitialized == Spec => []DependenciesInitialized
<1>1. ASSUME DependencyInv PROVE DependenciesInitialized
    <2>1. ASSUME NEW i \in Instances, NEW m \in Names
          PROVE  /\ \A d \in ResolveDependency(i, m) : inst[d].st = "live"
                 /\ Cardinality(ResolveDependency(i, m)) <= 1
        <3>1. \A d, e \in ResolveDependency(i, m) : d = e
            BY <1>1 DEF DependencyInv, DepsLive, ResolveDependency
        <3>2. CASE ResolveDependency(i, m) = {}
            BY <3>2, FS_EmptySet
        <3>3. CASE ResolveDependency(i, m) # {}
            <4>1. PICK d : ResolveDependency(i, m) = {d}
                BY <3>1, <3>3
            <4>2. Cardinality({d}) = 1
                BY FS_Singleton
            <4>3. Cardinality(ResolveDependency(i, m)) <= 1
                BY <4>1, <4>2
            <4>4. \A c \in ResolveDependency(i, m) : inst[c].st = "live"
                BY <1>1 DEF DependencyInv, DepsLive, ResolveDependency
            <4>5. QED
                BY <4>3, <4>4
        <3>4. QED
            BY <3>2, <3>3
    <2>2. QED
        BY <2>1 DEF DependenciesInitialized
<1>2. QED
    BY <1>1, DependencyInit, DependencyStep, PTL DEF Spec

-----------------------------------------------------------------------------
(* Events, their subscribers and the lifecycle of the nodes.                *)

(* Every nonempty set of natural numbers has a least element: what every     *)
(* CHOOSE of a first one rests on.                                          *)
LEMMA HasLeast ==
    ASSUME NEW S, S \subseteq Nat, S # {}
    PROVE  \E x \in S : \A y \in S : x <= y
<1> DEFINE R == OpToRel(<, Nat)
<1>1. \A x, y \in Nat : x < y => <<x, y>> \in R
    BY DEF OpToRel
<1>2. IsWellFoundedOn(R, Nat)
    BY NatLessThanWellFounded, Zenon
<1> HIDE DEF R
<1>3. PICK x \in S : \A y \in S : ~(<<y, x>> \in R)
    BY <1>2, WFMin
<1>4. \A y \in S : ~(y < x)
    BY <1>1, <1>3, Zenon
<1>5. QED
    BY <1>4

(* The task a subscription starts is one that did not run before.           *)
LEMMA NextTaskIsFresh ==
    ASSUME Fresh # {}
    PROVE  NextTask \in Tasks /\ task[NextTask].st = "unborn"
<1>1. Fresh \subseteq Nat
    BY EventsAssumption DEF Fresh, Tasks
<1>2. \E t \in Fresh : \A u \in Fresh : t <= u
    BY <1>1, HasLeast
<1>3. NextTask \in Fresh
    BY <1>2 DEF NextTask
<1>4. QED
    BY <1>3 DEF Fresh

TaskRecord == [st : {"unborn", "idle", "polling", "handling", "done"},
               start : Nat, next : Nat, filter : SUBSET Kinds,
               ctx : BOOLEAN, aborted : BOOLEAN]

(* A lifecycle call runs only while its context exists: without this the     *)
(* list of handles could grow after the context was dropped.                *)
TypeInv == EventTypeOK /\ (op.call # "none" => alive)

LEMMA EventTypeInit == EventInit => TypeInv
<1> SUFFICES ASSUME EventInit PROVE TypeInv
    OBVIOUS
<1>1. Unborn \in TaskRecord
    BY DEF Unborn, TaskRecord
<1>2. NoOp \in [call : {"none", "initialize", "migrate", "shutdown"}, node : Nodes]
    BY EventsAssumption DEF NoOp
<1>3. QED
    BY <1>1, <1>2 DEF EventInit, TypeInv, EventTypeOK, TaskRecord, NewNode, NodeState, NoOp

LEMMA SpawnType ==
    ASSUME EventTypeOK, NEW f \in Filters, NEW c \in BOOLEAN, Fresh # {}, Spawn(f, c)
    PROVE  task' \in [Tasks -> TaskRecord]
<1>1. Len(published) \in Nat /\ task \in [Tasks -> TaskRecord]
    BY DEF EventTypeOK, TaskRecord
<1>2. [st |-> "idle", start |-> Len(published), next |-> Len(published),
       filter |-> f, ctx |-> c, aborted |-> FALSE] \in TaskRecord
    BY <1>1, EventsAssumption DEF TaskRecord
<1>3. QED
    BY <1>1, <1>2 DEF Spawn

LEMMA PollType ==
    ASSUME EventTypeOK, NEW t \in Tasks, Poll(t)
    PROVE  task' \in [Tasks -> TaskRecord] /\ handled' \in [Tasks -> Seq(Nat)]
<1>1. /\ task \in [Tasks -> TaskRecord] /\ handled \in [Tasks -> Seq(Nat)]
      /\ Len(published) \in Nat /\ task[t].next \in Nat
    BY DEF EventTypeOK, TaskRecord
<1>2. CASE Lagged(t)
    <2>1. Oldest \in Nat
        BY <1>1, EventsAssumption DEF Oldest
    <2>2. QED
        BY <1>1, <1>2, <2>1 DEF Lagged, TaskRecord
<1>3. CASE Receive(t)
    <2>1. PICK st \in {"polling", "handling"} :
              task' = [task EXCEPT ![t] = [@ EXCEPT !.next = task[t].next + 1, !.st = st]]
        BY <1>3 DEF Receive
    <2>2. \/ handled' = handled
          \/ handled' = [handled EXCEPT ![t] = Append(@, task[t].next + 1)]
        BY <1>3 DEF Receive
    <2>3. task' \in [Tasks -> TaskRecord]
        <3>1. [task[t] EXCEPT !.next = task[t].next + 1, !.st = st] \in TaskRecord
            <4>1. task[t] \in TaskRecord /\ task[t].next + 1 \in Nat /\ st \in {"polling", "handling"}
                BY <1>1
            <4>2. [task[t] EXCEPT !.next = task[t].next + 1] \in TaskRecord
                BY <4>1 DEF TaskRecord
            <4>3. [[task[t] EXCEPT !.next = task[t].next + 1] EXCEPT !.st = st] \in TaskRecord
                BY <4>1, <4>2 DEF TaskRecord
            <4>4. QED
                BY <4>3
        <3>2. QED
            BY <1>1, <2>1, <3>1
    <2>4. Append(handled[t], task[t].next + 1) \in Seq(Nat)
        BY <1>1
    <2>5. handled' \in [Tasks -> Seq(Nat)]
        BY <1>1, <2>2, <2>4
    <2>6. QED
        BY <2>3, <2>5
<1>4. CASE Drained(t)
    <2>1. PICK st \in {"done", "idle"} : task' = [task EXCEPT ![t].st = st]
        BY <1>4 DEF Drained
    <2>2. [task[t] EXCEPT !.st = st] \in TaskRecord
        BY <1>1 DEF TaskRecord
    <2>3. task' = [task EXCEPT ![t] = [task[t] EXCEPT !.st = st]]
        BY <1>1, <2>1
    <2>4. task' \in [Tasks -> TaskRecord]
        BY <1>1, <2>2, <2>3
    <2>5. QED
        BY <1>1, <1>4, <2>4 DEF Drained
<1>5. QED
    BY <1>2, <1>3, <1>4 DEF Poll

LEMMA EventTypeStep == TypeInv /\ [EventNext]_eventVars => TypeInv'
<1> SUFFICES ASSUME TypeInv, [EventNext]_eventVars PROVE TypeInv'
    OBVIOUS
<1>1. /\ EventTypeOK /\ (op.call # "none" => alive) /\ task \in [Tasks -> TaskRecord]
      /\ handled \in [Tasks -> Seq(Nat)]
    BY DEF TypeInv, EventTypeOK, TaskRecord
<1>2. CASE \E k \in Event : Publish(k)
    BY <1>1, <1>2 DEF Publish, TypeInv, EventTypeOK, tasks, lifecycle
<1>3. ASSUME NEW f \in Filters, Subscribe(f) PROVE TypeInv'
    <2>1. task' \in [Tasks -> TaskRecord]
        BY <1>1, <1>3, SpawnType DEF Subscribe
    <2>2. QED
        BY <1>1, <1>3, <2>1 DEF Subscribe, lifecycle, TypeInv, EventTypeOK, TaskRecord
<1>4. ASSUME NEW f \in Filters, OnEvent(f) PROVE TypeInv'
    <2>1. task' \in [Tasks -> TaskRecord] /\ NextTask \in Tasks
        BY <1>1, <1>4, SpawnType, NextTaskIsFresh DEF OnEvent
    <2>2. QED
        BY <1>1, <1>4, <2>1 DEF OnEvent, lifecycle, TypeInv, EventTypeOK, TaskRecord
<1>5. ASSUME NEW t \in Tasks, AbortHandle(t) \/ Wake(t) \/ Resume(t) \/ Cancelled(t)
      PROVE  TypeInv'
    <2>1. \/ task' = [task EXCEPT ![t].aborted = TRUE]
          \/ \E st \in {"polling", "done"} : task' = [task EXCEPT ![t].st = st]
        BY <1>5 DEF AbortHandle, Wake, Resume, Cancelled
    <2>2. task' \in [Tasks -> TaskRecord]
        <3>1. CASE task' = [task EXCEPT ![t].aborted = TRUE]
            <4>1. [task[t] EXCEPT !.aborted = TRUE] \in TaskRecord
                BY <1>1 DEF TaskRecord
            <4>2. QED
                BY <1>1, <3>1, <4>1
        <3>2. ASSUME NEW st \in {"polling", "done"}, task' = [task EXCEPT ![t].st = st]
              PROVE  task' \in [Tasks -> TaskRecord]
            <4>1. [task[t] EXCEPT !.st = st] \in TaskRecord
                BY <1>1 DEF TaskRecord
            <4>2. QED
                BY <1>1, <3>2, <4>1
        <3>3. QED
            BY <2>1, <3>1, <3>2
    <2>3. UNCHANGED <<bus, published, handled, subs, lifecycle>>
        BY <1>5 DEF AbortHandle, Wake, Resume, Cancelled
    <2>4. QED
        BY <1>1, <2>2, <2>3 DEF lifecycle, TypeInv, EventTypeOK, TaskRecord
<1>6. ASSUME NEW t \in Tasks, Poll(t) PROVE TypeInv'
    <2>1. task' \in [Tasks -> TaskRecord] /\ handled' \in [Tasks -> Seq(Nat)]
        BY <1>1, <1>6, PollType
    <2>2. UNCHANGED <<bus, published, subs, lifecycle>>
        BY <1>6 DEF Poll
    <2>3. QED
        BY <1>1, <2>1, <2>2 DEF lifecycle, TypeInv, EventTypeOK, TaskRecord
<1>7. ASSUME NEW n \in Nodes, BeginInitialize(n) \/ BeginMigrate(n) \/ BeginShutdown(n)
      PROVE  TypeInv'
    <2>1. PICK call \in {"initialize", "migrate", "shutdown"}, state \in NodeState :
              Begin(n, call, state)
        BY <1>1, <1>7 DEF BeginInitialize, BeginMigrate, BeginShutdown, EventTypeOK, NodeState
    <2>2. QED
        BY <1>1, <2>1 DEF Begin, tasks, TypeInv, EventTypeOK
<1>8. ASSUME NEW ok \in BOOLEAN, EndInitialize(ok) PROVE TypeInv'
    BY <1>1, <1>8, EventTypeInit, EventsAssumption
    DEF EndInitialize, NoOp, tasks, TypeInv, EventTypeOK, NodeState
<1>9. CASE EndMigrate
    BY <1>1, <1>9, EventsAssumption
    DEF EndMigrate, NoOp, NewNode, tasks, TypeInv, EventTypeOK, NodeState
<1>10. ASSUME NEW ok \in BOOLEAN, EndShutdown(ok) PROVE TypeInv'
    <2>1. task' \in [Tasks -> TaskRecord]
        BY <1>1, <1>10 DEF EndShutdown, CancelSubscriptions, TaskRecord
    <2>2. QED
        BY <1>1, <1>10, <2>1, EventsAssumption
        DEF EndShutdown, CancelSubscriptions, NoOp, TypeInv, EventTypeOK, TaskRecord, NodeState
<1>11. CASE DropContext
    BY <1>1, <1>11, EventsAssumption 
    DEF DropContext, NoOp, NewNode, NodeState, tasks, TypeInv, EventTypeOK
<1>12. CASE DropBus
    BY <1>1, <1>12 DEF DropBus, tasks, lifecycle, TypeInv, EventTypeOK
<1>13. CASE UNCHANGED eventVars
    BY <1>1, <1>13 DEF eventVars, TypeInv, EventTypeOK
<1>14. QED
    BY <1>2, <1>3, <1>4, <1>5, <1>6, <1>7, <1>8, <1>9, <1>10, <1>11, <1>12, <1>13
    DEF EventNext, TaskStep, HandlerDone, HandlerTimeout

(* Every variable keeps its type, for any nodes, kinds, ring and filters.    *)
THEOREM EventTypeCorrect == EventSpec => []EventTypeOK
<1>1. TypeInv => EventTypeOK
    BY DEF TypeInv
<1>2. QED
    BY <1>1, EventTypeInit, EventTypeStep, PTL DEF EventSpec

-----------------------------------------------------------------------------
(* The lifecycle.  While its context exists, a task that was registered in   *)
(* it is in its list until it is aborted.  Between two calls the list is     *)
(* empty once every node has been shut down: a call that returns without     *)
(* emptying it leaves its own node in another state.                        *)
ListedUntilAborted ==
    alive => \A t \in Tasks : task[t].ctx => task[t].aborted \/ task[t].st = "done" \/ t \in subs

AllShutDown == \A n \in Nodes : node[n] \in {"Stopping", "Stopped"}

ListEmptyAtRest == alive /\ op.call = "none" /\ AllShutDown => subs = {}

CallMarksNode == op.call = "initialize" => node[op.node] = "Initializing"

LifecycleInv == /\ TypeInv
                /\ ListedUntilAborted
                /\ ListEmptyAtRest
                /\ CallMarksNode
                /\ RunningMeansInitialized

LEMMA LifecycleInit == EventInit => LifecycleInv
    BY EventTypeInit, EventsAssumption
    DEF EventInit, LifecycleInv, ListedUntilAborted, ListEmptyAtRest, AllShutDown, CallMarksNode,
        RunningMeansInitialized, Unborn, NewNode, NoOp

LEMMA LifecycleStep == LifecycleInv /\ [EventNext]_eventVars => LifecycleInv'
<1> SUFFICES ASSUME LifecycleInv, [EventNext]_eventVars PROVE LifecycleInv'
    OBVIOUS
<1>1. /\ TypeInv' /\ task \in [Tasks -> TaskRecord] /\ (op.call # "none" => alive)
      /\ node \in [Nodes -> NodeState] /\ op.node \in Nodes /\ NoOp.call = "none"
      /\ ListedUntilAborted /\ ListEmptyAtRest /\ CallMarksNode /\ RunningMeansInitialized
    BY EventTypeStep DEF LifecycleInv, TypeInv, EventTypeOK, TaskRecord, NoOp
<1> DEFINE Same(t) == /\ task'[t].ctx = task[t].ctx
                      /\ task[t].aborted => task'[t].aborted
                      /\ task[t].st = "done" => task'[t].st = "done"
<1>2. CASE UNCHANGED <<subs, lifecycle>> /\ \A t \in Tasks : Same(t)
    BY <1>1, <1>2 DEF lifecycle, LifecycleInv, ListedUntilAborted, ListEmptyAtRest,
                      AllShutDown, CallMarksNode, RunningMeansInitialized
<1>3. CASE DropBus \/ (\E k \in Event : Publish(k)) \/ UNCHANGED eventVars
    BY <1>2, <1>3 DEF DropBus, Publish, tasks, lifecycle, eventVars
<1>4. ASSUME NEW f \in Filters, NEW c \in BOOLEAN, Fresh # {}, Spawn(f, c)
      PROVE  /\ \A t \in Tasks \ {NextTask} : task'[t] = task[t]
             /\ NextTask \in Tasks /\ task'[NextTask].ctx = c /\ task[NextTask].st = "unborn"
    BY <1>1, <1>4, NextTaskIsFresh DEF Spawn
<1>5. ASSUME NEW f \in Filters, Subscribe(f) PROVE LifecycleInv'
    BY <1>1, <1>4, <1>5 DEF Subscribe, lifecycle, LifecycleInv, ListedUntilAborted,
                            ListEmptyAtRest,
                      AllShutDown, CallMarksNode, RunningMeansInitialized
<1>6. ASSUME NEW f \in Filters, OnEvent(f) PROVE LifecycleInv'
    BY <1>1, <1>4, <1>6 DEF OnEvent, lifecycle, LifecycleInv, ListedUntilAborted,
                            ListEmptyAtRest,
                      AllShutDown, CallMarksNode, RunningMeansInitialized
<1>7. ASSUME NEW t \in Tasks,
             AbortHandle(t) \/ Wake(t) \/ Resume(t) \/ Cancelled(t) \/ Poll(t)
      PROVE  LifecycleInv'
    <2>1. UNCHANGED <<subs, lifecycle>>
        BY <1>7 DEF AbortHandle, Wake, Resume, Cancelled, Poll
    <2>2. /\ \A u \in Tasks \ {t} : task'[u] = task[u]
          /\ task[t].st # "done"
          /\ task'[t].ctx = task[t].ctx /\ (task[t].aborted => task'[t].aborted)
        <3>1. CASE AbortHandle(t) \/ Wake(t) \/ Resume(t) \/ Cancelled(t)
            BY <1>1, <3>1 DEF AbortHandle, Wake, Resume, Cancelled, Live, TaskRecord
        <3>2. CASE Poll(t)
            BY <1>1, <3>2 DEF Poll, Lagged, Receive, Drained, TaskRecord
        <3>3. QED
            BY <1>7, <3>1, <3>2
    <2>3. QED
        BY <1>2, <2>1, <2>2
<1>8. ASSUME NEW n \in Nodes, BeginInitialize(n) \/ BeginMigrate(n) \/ BeginShutdown(n)
      PROVE  LifecycleInv'
    BY <1>1, <1>8 DEF BeginInitialize, BeginMigrate, BeginShutdown, Begin, tasks, LifecycleInv,
                      ListedUntilAborted, ListEmptyAtRest,
                      AllShutDown, CallMarksNode, RunningMeansInitialized
<1>9. ASSUME (\E ok \in BOOLEAN : EndInitialize(ok)) \/ EndMigrate PROVE LifecycleInv'
    BY <1>1, <1>9 DEF EndInitialize, EndMigrate, NewNode, tasks, LifecycleInv,
                      ListedUntilAborted, ListEmptyAtRest,
                      AllShutDown, CallMarksNode, RunningMeansInitialized
<1>10. ASSUME NEW ok \in BOOLEAN, EndShutdown(ok) PROVE LifecycleInv'
    <2>1. /\ \A t \in Tasks : Same(t) /\ (t \in subs => task'[t].aborted)
          /\ subs' = {} /\ alive' = alive /\ ready' = ready /\ op.call = "shutdown"
          /\ node' = IF ok THEN [node EXCEPT ![op.node] = "Stopped"] ELSE node
        BY <1>1, <1>10 DEF EndShutdown, CancelSubscriptions, TaskRecord
    <2>2. op'.call = "none"
        BY <1>1, <1>10 DEF EndShutdown
    <2>3. RunningMeansInitialized' /\ CallMarksNode'
        BY <1>1, <2>1, <2>2 DEF RunningMeansInitialized, CallMarksNode
    <2>4. QED
        BY <1>1, <2>1, <2>3 DEF LifecycleInv, ListedUntilAborted, ListEmptyAtRest
<1>11. CASE DropContext
    BY <1>1, <1>11 DEF DropContext, NewNode, tasks, LifecycleInv, ListedUntilAborted, ListEmptyAtRest,
                      AllShutDown, CallMarksNode, RunningMeansInitialized
<1>12. QED
    BY <1>3, <1>5, <1>6, <1>7, <1>8, <1>9, <1>10, <1>11
    DEF EventNext, TaskStep, HandlerDone, HandlerTimeout

(* Over any nodes, however often each is initialized, swapped and shut down, *)
(* and any number of subscribers: once all are shut down nothing they        *)
(* registered goes on, and Running means initialized.                       *)
THEOREM LifecycleHolds == EventSpec => []LifecycleKept
<1>1. LifecycleInv => LifecycleKept
    BY DEF LifecycleInv, LifecycleKept, ListedUntilAborted, ListEmptyAtRest, AllShutDown,
       ShutDownMeansSilent
<1>2. QED
    BY <1>1, LifecycleInit, LifecycleStep, PTL DEF EventSpec

-----------------------------------------------------------------------------
(* Delivery.  A receiver's position stays between where it started and the   *)
(* tail, and whatever was handled lies behind it.                           *)
Positioned(t) ==
    /\ task[t].start <= task[t].next /\ task[t].next <= Len(published)
    /\ \A k \in 1 .. Len(handled[t]) : handled[t][k] <= task[t].next
    /\ task[t].st = "unborn" => handled[t] = <<>>

Delivery(t) == Positioned(t) /\ DeliversTo(t)

DeliveryInv == TypeInv /\ \A t \in Tasks : Delivery(t)

LEMMA DeliveryInit == EventInit => DeliveryInv
    BY EventTypeInit DEF EventInit, DeliveryInv, Delivery, Positioned, DeliversTo, Unborn

(* What a receiver was given does not change when events are appended.       *)
LEMMA DeliveryKept ==
    ASSUME TypeInv, TypeInv', NEW t \in Tasks, Delivery(t),
           published' = published \/ \E k \in Event : published' = Append(published, k),
           handled'[t] = handled[t], task'[t].start = task[t].start,
           task'[t].next = task[t].next, task'[t].filter = task[t].filter,
           task'[t].st = "unborn" => task[t].st = "unborn"
    PROVE  Delivery(t)'
<1>1. /\ published \in Seq(Event) /\ Len(published) \in Nat /\ handled[t] \in Seq(Nat)
      /\ task[t].start \in Nat /\ task[t].next \in Nat /\ RingSize \in Nat
    BY EventsAssumption DEF TypeInv, EventTypeOK
<1>2. /\ Len(published') \in Nat /\ Len(published) <= Len(published')
      /\ \A i \in 1 .. Len(published) : published'[i] = published[i]
    BY <1>1
<1>3. Positioned(t)'
    BY <1>1, <1>2 DEF Delivery, Positioned
<1>4. \A k \in 1 .. Len(handled[t]) :
          /\ handled[t][k] \in 1 .. Len(published)
          /\ task[t].start < handled[t][k] /\ published[handled[t][k]] \in task[t].filter
    <2>1. \A k \in 1 .. Len(handled[t]) :
              /\ handled[t][k] <= task[t].next /\ task[t].next <= Len(published)
              /\ task[t].start < handled[t][k] /\ published[handled[t][k]] \in task[t].filter
        BY DEF Delivery, Positioned, DeliversTo
    <2>2. \A k \in 1 .. Len(handled[t]) : handled[t][k] \in Nat
        BY <1>1
    <2>3. ASSUME NEW k \in 1 .. Len(handled[t]) PROVE handled[t][k] \in 1 .. Len(published)
        <3>1. /\ handled[t][k] \in Nat /\ handled[t][k] <= Len(published)
              /\ task[t].start < handled[t][k]
            BY <1>1, <2>1, <2>2
        <3>2. QED
            BY <1>1, <3>1
    <2>4. QED
        BY <2>1, <2>3
<1>5. \A i \in task[t].start + 1 .. task[t].next :
          /\ i \in 1 .. Len(published)
          /\ \/ i \in {handled[t][k] : k \in 1 .. Len(handled[t])}
             \/ published[i] \notin task[t].filter
             \/ i + RingSize <= Len(published)
    BY <1>1 DEF Delivery, Positioned, DeliversTo
<1>6. DeliversTo(t)'
    <2>1. \A i, j \in 1 .. Len(handled[t]) : i < j => handled[t][i] < handled[t][j]
        BY DEF Delivery, DeliversTo
    <2>2. \A i \in {handled[t][k] : k \in 1 .. Len(handled[t])} :
              task[t].start < i /\ published'[i] \in task[t].filter
        BY <1>2, <1>4
    <2>3. \A i \in task[t].start + 1 .. task[t].next :
              \/ i \in {handled[t][k] : k \in 1 .. Len(handled[t])}
              \/ published'[i] \notin task[t].filter
              \/ i + RingSize <= Len(published')
        BY <1>1, <1>2, <1>5
    <2>4. QED
        BY <2>1, <2>2, <2>3 DEF DeliversTo
<1>7. QED
    BY <1>3, <1>6 DEF Delivery

(* A new receiver starts at the tail, with nothing handled.                  *)
LEMMA DeliverySpawn ==
    ASSUME TypeInv, NEW t \in Tasks, Delivery(t), task[t].st = "unborn",
           handled' = handled, published' = published, task'[t].st = "idle",
           task'[t].start = Len(published), task'[t].next = Len(published)
    PROVE  Delivery(t)'
<1>1. handled'[t] = <<>> /\ Len(published) \in Nat
    BY DEF Delivery, Positioned, TypeInv, EventTypeOK
<1>2. QED
    BY <1>1 DEF Delivery, Positioned, DeliversTo

(* Appending a position behind all others keeps them ascending.             *)
LEMMA AppendNewest ==
    ASSUME NEW h \in Seq(Nat), NEW n \in Nat, NEW g, g = Append(h, n + 1),
           \A k \in 1 .. Len(h) : h[k] <= n,
           \A i, j \in 1 .. Len(h) : i < j => h[i] < h[j]
    PROVE  /\ Len(g) = Len(h) + 1 /\ g[Len(g)] = n + 1 /\ Len(h) \in Nat
           /\ \A k \in 1 .. Len(h) : k \in 1 .. Len(g) /\ g[k] = h[k]
           /\ \A k \in 1 .. Len(g) : g[k] <= n + 1 /\ (k \in 1 .. Len(h) \/ k = Len(g))
           /\ \A i, j \in 1 .. Len(g) : i < j => g[i] < g[j]
<1>1. /\ Len(g) = Len(h) + 1 /\ g[Len(g)] = n + 1 /\ Len(h) \in Nat
      /\ \A k \in 1 .. Len(h) : k \in 1 .. Len(g) /\ g[k] = h[k] /\ h[k] \in Nat
    OBVIOUS
<1>2. \A k \in 1 .. Len(g) : k \in 1 .. Len(h) \/ k = Len(g)
    BY <1>1
<1>3. \A k \in 1 .. Len(g) : g[k] <= n + 1
    BY <1>1, <1>2
<1>4. ASSUME NEW i \in 1 .. Len(g), NEW j \in 1 .. Len(g), i < j PROVE g[i] < g[j]
    <2>1. i \in 1 .. Len(h) /\ g[i] = h[i] /\ h[i] \in Nat /\ h[i] <= n
        BY <1>1, <1>2, <1>4
    <2>2. CASE j = Len(g)
        BY <1>1, <2>1, <2>2
    <2>3. CASE j \in 1 .. Len(h)
        BY <1>1, <1>4, <2>1, <2>3
    <2>4. QED
        BY <1>2, <2>2, <2>3
<1>5. QED
    BY <1>1, <1>2, <1>3, <1>4

(* Lagged skips what the ring no longer holds, Receive takes the next event  *)
(* and hands it to the handler if it matches.                               *)
LEMMA DeliveryPolled ==
    ASSUME TypeInv, NEW t \in Tasks, Delivery(t), Poll(t)
    PROVE  Delivery(t)'
<1> DEFINE h == handled[t]
           s == task[t].start
           n == task[t].next
<1>1. /\ Len(published) \in Nat /\ h \in Seq(Nat) /\ s \in Nat /\ n \in Nat
      /\ RingSize \in Nat \ {0} /\ task \in [Tasks -> TaskRecord]
      /\ handled \in [Tasks -> Seq(Nat)] /\ published' = published
    BY EventsAssumption DEF TypeInv, EventTypeOK, TaskRecord, Poll
<1>2. /\ s <= n /\ n <= Len(published) /\ \A k \in 1 .. Len(h) : h[k] <= n
      /\ \A i, j \in 1 .. Len(h) : i < j => h[i] < h[j]
      /\ \A k \in 1 .. Len(h) : s < h[k] /\ published[h[k]] \in task[t].filter
      /\ \A i \in s + 1 .. n : \/ \E k \in 1 .. Len(h) : i = h[k]
                               \/ published[i] \notin task[t].filter
                               \/ i + RingSize <= Len(published)
    BY DEF Delivery, Positioned, DeliversTo
<1>3. CASE Lagged(t)
    <2>1. /\ task'[t].next = Oldest /\ task'[t].start = s /\ task'[t].filter = task[t].filter
          /\ task'[t].st # "unborn" /\ handled' = handled /\ n < Oldest
        BY <1>1, <1>3 DEF Lagged, TaskRecord, Poll
    <2>2. Oldest \in Nat /\ Oldest + RingSize = Len(published)
        BY <1>1, <2>1 DEF Oldest
    <2>3. Positioned(t)'
        <3>1. s <= Oldest /\ Oldest <= Len(published)
            BY <1>1, <1>2, <2>1, <2>2
        <3>2. \A k \in 1 .. Len(h) : h[k] <= Oldest
            <4>1. \A k \in 1 .. Len(h) : h[k] \in Nat /\ h[k] <= n
                BY <1>1, <1>2
            <4>2. QED
                BY <1>1, <2>1, <2>2, <4>1
        <3>3. QED
            BY <1>1, <2>1, <3>1, <3>2 DEF Positioned
    <2>4. \A i \in s + 1 .. Oldest : \/ \E k \in 1 .. Len(h) : i = h[k]
                                     \/ published[i] \notin task[t].filter
                                     \/ i + RingSize <= Len(published)
        BY <1>1, <1>2, <2>1, <2>2
    <2>5. DeliversTo(t)'
        BY <1>1, <1>2, <2>1, <2>4 DEF DeliversTo
    <2>6. QED
        BY <2>3, <2>5 DEF Delivery
<1>4. CASE Receive(t)
    <2>1. /\ task'[t].next = n + 1 /\ task'[t].start = s /\ task'[t].filter = task[t].filter
          /\ task'[t].st # "unborn" /\ n + 1 <= Len(published)
        BY <1>1, <1>4 DEF Receive, TaskRecord
    <2>2. CASE published[n + 1] \in task[t].filter
        <3>1. handled'[t] = Append(h, n + 1)
            BY <1>1, <1>4, <2>2 DEF Receive, Matches
        <3> DEFINE g == handled'[t]
        <3>2. /\ Len(g) = Len(h) + 1 /\ g[Len(g)] = n + 1 /\ Len(h) \in Nat
              /\ \A k \in 1 .. Len(h) : k \in 1 .. Len(g) /\ g[k] = h[k]
              /\ \A k \in 1 .. Len(g) : g[k] <= n + 1 /\ (k \in 1 .. Len(h) \/ k = Len(g))
              /\ \A i, j \in 1 .. Len(g) : i < j => g[i] < g[j]
            BY <1>1, <1>2, <3>1, AppendNewest
        <3>3. Positioned(t)'
            BY <1>1, <1>2, <2>1, <3>2 DEF Positioned
        <3>4. s < n + 1
            BY <1>1, <1>2
        <3>5. \A k \in 1 .. Len(g) : s < g[k] /\ published[g[k]] \in task[t].filter
            <4> HIDE DEF g, h, s, n
            <4> QED BY <1>2, <2>2, <3>2, <3>4
        <3>6. ASSUME NEW i \in s + 1 .. n + 1
              PROVE  \/ \E k \in 1 .. Len(g) : i = g[k]
                     \/ published[i] \notin task[t].filter
                     \/ i + RingSize <= Len(published)
            <4>1. CASE i = n + 1
                <5>1. Len(g) \in 1 .. Len(g)
                    BY <3>2
                <5>2. QED
                    BY <3>2, <4>1, <5>1
            <4>2. CASE i # n + 1
                <5>1. i \in s + 1 .. n
                    BY <1>1, <4>2
                <5>2. QED
                    BY <1>2, <3>2, <5>1
            <4>3. QED
                BY <4>1, <4>2
        <3>7. DeliversTo(t)'
            BY <1>1, <2>1, <3>2, <3>5, <3>6 DEF DeliversTo
        <3>8. QED
            BY <3>3, <3>7 DEF Delivery
    <2>3. CASE published[n + 1] \notin task[t].filter
        <3>1. handled' = handled
            BY <1>4, <2>3 DEF Receive, Matches
        <3>2. Positioned(t)'
            BY <1>1, <1>2, <2>1, <3>1 DEF Positioned
        <3>3. \A i \in s + 1 .. n + 1 : \/ \E k \in 1 .. Len(h) : i = h[k]
                                        \/ published[i] \notin task[t].filter
                                        \/ i + RingSize <= Len(published)
            <4>1. \A i \in s + 1 .. n + 1 : i \in s + 1 .. n \/ i = n + 1
                BY <1>1
            <4>2. QED
                BY <1>2, <2>3, <4>1
        <3>4. DeliversTo(t)'
            BY <1>1, <1>2, <2>1, <3>1, <3>3 DEF DeliversTo
        <3>5. QED
            BY <3>2, <3>4 DEF Delivery
    <2>4. QED
        BY <2>2, <2>3
<1>5. CASE Drained(t)
    <2>1. /\ task'[t].next = n /\ task'[t].start = s /\ task'[t].filter = task[t].filter
          /\ task'[t].st # "unborn" /\ handled' = handled
        BY <1>1, <1>5 DEF Drained, TaskRecord
    <2>2. QED
        BY <1>1, <1>2, <2>1 DEF Delivery, Positioned, DeliversTo
<1>6. QED
    BY <1>3, <1>4, <1>5 DEF Poll

LEMMA DeliveryStep == DeliveryInv /\ [EventNext]_eventVars => DeliveryInv'
<1> SUFFICES ASSUME DeliveryInv, [EventNext]_eventVars PROVE DeliveryInv'
    OBVIOUS
<1>1. /\ TypeInv /\ TypeInv' /\ task \in [Tasks -> TaskRecord]
      /\ handled \in [Tasks -> Seq(Nat)] /\ \A t \in Tasks : Delivery(t)
    BY EventTypeStep DEF DeliveryInv, TypeInv, EventTypeOK, TaskRecord
<1> DEFINE Same(t) == /\ handled'[t] = handled[t] /\ task'[t].start = task[t].start
                      /\ task'[t].next = task[t].next /\ task'[t].filter = task[t].filter
                      /\ task'[t].st = "unborn" => task[t].st = "unborn"
<1>2. CASE /\ published' = published \/ \E k \in Event : published' = Append(published, k)
           /\ \A t \in Tasks : Same(t)
    BY <1>1, <1>2, DeliveryKept DEF DeliveryInv
<1>3. CASE \/ \E k \in Event : Publish(k)
           \/ \E n \in Nodes : BeginInitialize(n) \/ BeginMigrate(n) \/ BeginShutdown(n)
           \/ \E ok \in BOOLEAN : EndInitialize(ok)
           \/ EndMigrate \/ DropContext \/ DropBus \/ UNCHANGED eventVars
    BY <1>2, <1>3 DEF Publish, BeginInitialize, BeginMigrate, BeginShutdown, Begin, EndInitialize,
                      EndMigrate, DropContext, DropBus, tasks, eventVars
<1>4. ASSUME NEW ok \in BOOLEAN, EndShutdown(ok) PROVE DeliveryInv'
    <2>1. \A t \in Tasks : Same(t)
        BY <1>1, <1>4 DEF EndShutdown, CancelSubscriptions, TaskRecord
    <2>2. QED
        BY <1>2, <1>4, <2>1 DEF EndShutdown
<1>5. ASSUME NEW f \in Filters, Subscribe(f) \/ OnEvent(f) PROVE DeliveryInv'
    <2>1. PICK c : Fresh # {} /\ Spawn(f, c) /\ handled' = handled /\ published' = published
        BY <1>5 DEF Subscribe, OnEvent
    <2>2. /\ NextTask \in Tasks /\ task[NextTask].st = "unborn"
          /\ task'[NextTask].st = "idle" /\ task'[NextTask].start = Len(published)
          /\ task'[NextTask].next = Len(published)
          /\ \A t \in Tasks \ {NextTask} : Same(t)
        BY <1>1, <2>1, NextTaskIsFresh DEF Spawn
    <2>3. ASSUME NEW t \in Tasks PROVE Delivery(t)'
        <3>1. CASE t = NextTask
            BY <1>1, <2>1, <2>2, <3>1, DeliverySpawn
        <3>2. CASE t # NextTask
            BY <1>1, <2>1, <2>2, <3>2, DeliveryKept
        <3>3. QED
            BY <3>1, <3>2
    <2>4. QED
        BY <1>1, <2>3 DEF DeliveryInv
<1>6. ASSUME NEW t \in Tasks, AbortHandle(t) \/ Wake(t) \/ Resume(t) \/ Cancelled(t)
      PROVE  DeliveryInv'
    <2>1. /\ published' = published /\ handled' = handled
          /\ \/ task' = [task EXCEPT ![t].aborted = TRUE]
             \/ \E st \in {"polling", "done"} : task' = [task EXCEPT ![t].st = st]
        BY <1>6 DEF AbortHandle, Wake, Resume, Cancelled
    <2>2. CASE task' = [task EXCEPT ![t].aborted = TRUE]
        BY <1>1, <1>2, <2>1, <2>2 DEF TaskRecord
    <2>3. CASE \E st \in {"polling", "done"} : task' = [task EXCEPT ![t].st = st]
        BY <1>1, <1>2, <2>1, <2>3 DEF TaskRecord
    <2>4. QED
        BY <2>1, <2>2, <2>3
<1>7. ASSUME NEW t \in Tasks, Poll(t) PROVE DeliveryInv'
    <2>1. published' = published /\ \A u \in Tasks \ {t} : Same(u)
        BY <1>1, <1>7 DEF Poll, Lagged, Receive, Drained, TaskRecord
    <2>2. Delivery(t)'
        BY <1>1, <1>7, DeliveryPolled
    <2>3. \A u \in Tasks \ {t} : Delivery(u)'
        BY <1>1, <2>1, DeliveryKept
    <2>4. QED
        BY <1>1, <2>2, <2>3 DEF DeliveryInv
<1>8. QED
    BY <1>3, <1>4, <1>5, <1>6, <1>7 DEF EventNext, TaskStep, HandlerDone, HandlerTimeout

(* For any ring, any number of subscribers, filters and events: each handler *)
(* sees matching events once and in order, and misses only overwritten ones. *)
THEOREM DeliveryHolds == EventSpec => []DeliversWhatIsKept
<1>1. DeliveryInv => DeliversWhatIsKept
    BY DEF DeliveryInv, Delivery, DeliversWhatIsKept
<1>2. QED
    BY <1>1, DeliveryInit, DeliveryStep, PTL DEF EventSpec
=============================================================================
