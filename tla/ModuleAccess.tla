---------------------------- MODULE ModuleAccess ----------------------------
(***************************************************************************)
(* What a RuntimeContext lets a module do: starting an instance behind the *)
(* capability check (nyarix-runtime, capability_enforcement.rs and         *)
(* sandbox.rs) or through the registry (nyarix-loader, instantiation.rs),  *)
(* and the mediated I/O checks of context.rs with the capability mask, the *)
(* token bucket and the whitelists behind them (nyarix-module-api).        *)
(*                                                                         *)
(* One context serves every module: one mask, one bucket, one connection   *)
(* table keyed by module name.  A check is one step: the mask and the      *)
(* whitelists never change, and the bucket is used under its own lock.     *)
(***************************************************************************)
EXTENDS Integers, Sequences, FiniteSets

CONSTANTS
    Names,         \* module names
    Required,      \* Required[m]: ModuleMetadata::required_capabilities
    Needs,         \* Needs[m]: names whose instances m's context is to resolve
    Grants,        \* what a policy may grant the context
    Requests,      \* the I/O requests modules make
    AllowedPaths,  \* paths under a prefix of the FilesystemPolicy
    AllowedNet,    \* NetworkPolicy::allowed; port 0 stands for any port
    Capacity,      \* RateLimiter::capacity, in tokens
    Unit,          \* the parts one token is counted in (tokens is an f64)
    Rate,          \* parts refilled per tick of the clock
    MaxTime,       \* bound: ticks
    MaxInstances,  \* bound: instances started
    MaxConns       \* bound: connections open at once

(* Capability, in declaration order: its place is its bit in a              *)
(* CapabilityMask.                                                          *)
Capabilities == <<"Filesystem", "Network", "Tun", "Random", "Crypto", "Clock", "Scheduler",
                  "Storage", "Metrics", "Dns", "UiHooks", "Background", "PrivilegedSockets">>
Capability == {Capabilities[b] : b \in 1 .. Len(Capabilities)}

ASSUME AccessAssumption ==
    /\ Names # {}
    /\ Required \in [Names -> SUBSET Capability] /\ Needs \in [Names -> SUBSET Names]
    /\ Grants \subseteq SUBSET Capability
    /\ \A r \in Requests : r.op \in {"file", "net", "dns", "bind"}
    /\ Capacity \in Nat /\ Unit \in Nat \ {0} /\ Rate \in Nat
    /\ MaxTime \in Nat /\ MaxInstances \in Nat /\ MaxConns \in Nat

VARIABLES
    granted,     \* RuntimeContext::granted_capabilities
    inst,        \* inst[i]: the i-th module instance
    registry,    \* ModuleRegistry::modules: instance registered under a name, or 0
    denials,     \* CapabilityDenied events published: <<instance, capability>>
    tokens,      \* State::tokens, in parts
    lastRefill,  \* State::last_refill
    clock,       \* Instant::now
    acquired,    \* observer: when each token was taken
    open,        \* RuntimeContext::open_connections
    conns        \* observer: connections instance i holds

limiter == <<tokens, lastRefill, acquired>>
modules == <<inst, registry>>
table == <<open, conns>>
vars == <<granted, inst, registry, denials, tokens, lastRefill, clock, acquired, open, conns>>

Mask(c) == CHOOSE b \in 1 .. Len(Capabilities) : Capabilities[b] = c
FromCapabilities(S) == {Mask(c) : c \in S}
Has(mask, c) == Mask(c) \in mask

Instances == 1 .. MaxInstances
NotStarted == [name |-> CHOOSE m \in Names : TRUE, st |-> "none", enforced |-> FALSE, deps |-> {}]

Init == /\ granted \in {FromCapabilities(S) : S \in Grants}
        /\ inst = [i \in Instances |-> NotStarted]
        /\ registry = [m \in Names |-> 0]
        /\ denials = {}
        /\ tokens = Capacity * Unit
        /\ lastRefill = 0
        /\ clock = 0
        /\ acquired = <<>>
        /\ open = [m \in Names |-> 0]
        /\ conns = [i \in Instances |-> 0]

Tick == /\ clock < MaxTime
        /\ clock' = clock + 1
        /\ UNCHANGED <<granted, modules, denials, limiter, table>>

-----------------------------------------------------------------------------
(* Starting instances.                                                      *)

(* CapabilityGrant::request: what was asked for and not granted.            *)
Lacking(required, mask) == {c \in required : ~Has(mask, c)}
Denied(m) == Lacking(Required[m], granted)

(* dependencies_for: those of the names that are registered now.            *)
DependenciesFor(m) == {registry[d] : d \in Needs[m]} \ {0}

Start(i, m, st, enforced) ==
    /\ inst[i].st = "none"
    /\ \A j \in Instances : j < i => inst[j].st # "none"
    /\ inst' = [inst EXCEPT ![i] = [name |-> m, st |-> st, enforced |-> enforced,
                                    deps |-> DependenciesFor(m)]]
    /\ UNCHANGED <<granted, registry, denials, limiter, clock, table>>

(* mutant: the check passes if anything that was asked for is granted       *)
EnforceSome(i, m) ==
    IF Denied(m) = Required[m] THEN Start(i, m, "refused", TRUE)
                                     ELSE Start(i, m, "initializing", TRUE)

(* enforce_and_instantiate: initialize never runs unless all is granted.    *)
Enforce(i, m) ==
    IF Denied(m) # {} THEN Start(i, m, "refused", TRUE)
                      ELSE Start(i, m, "initializing", TRUE)

(* instantiate_and_register, which checks no capability.                    *)
Register(i, m) == Start(i, m, "initializing", FALSE)

(* initialize returns: an error is reported, a panic is caught by           *)
(* catch_module_panic where the instance was enforced.                      *)
Outcomes(i) == {"live", "failed"} \cup (IF inst[i].enforced THEN {"crashed"} ELSE {})

(* mutant: the name is registered whatever initialize returned              *)
InitializedRegisters(i, outcome) ==
    /\ inst[i].st = "initializing" /\ outcome \in Outcomes(i)
    /\ inst' = [inst EXCEPT ![i].st = outcome]
    /\ registry' = IF ~inst[i].enforced THEN [registry EXCEPT ![inst[i].name] = i] ELSE registry
    /\ UNCHANGED <<granted, denials, limiter, clock, table>>

Initialized(i, outcome) ==
    /\ inst[i].st = "initializing" /\ outcome \in Outcomes(i)
    /\ inst' = [inst EXCEPT ![i].st = outcome]
    /\ registry' = IF outcome = "live" /\ ~inst[i].enforced
                   THEN [registry EXCEPT ![inst[i].name] = i] ELSE registry
    /\ UNCHANGED <<granted, denials, limiter, clock, table>>

(* resolve_dependency: the instance a context has under a name, if any.     *)
ResolveDependency(i, m) == {d \in inst[i].deps : inst[d].name = m}

-----------------------------------------------------------------------------
(* Checks on I/O.                                                           *)

Runs(i) == inst[i].st \in {"initializing", "live"}

(* The capabilities each check asks for, in order; low ports need two.      *)
Asks(r) ==
    CASE r.op = "file" -> <<"Filesystem">>
      [] r.op = "net"  -> <<"Network">>
      [] r.op = "dns"  -> <<"Dns">>
      [] r.op = "bind" -> IF r.port < 1024 THEN <<"Network", "PrivilegedSockets">>
                                           ELSE <<"Network">>

(* request_capability for each in turn: the first that is not granted.      *)
Refused(r) == {k \in 1 .. Len(Asks(r)) : ~Has(granted, Asks(r)[k])}
FirstRefused(r) == Asks(r)[CHOOSE k \in Refused(r) : \A l \in Refused(r) : k <= l]

(* The whitelists; check_bind_access consults none.                         *)
Whitelisted(r) ==
    CASE r.op = "file" -> r.path \in AllowedPaths
      [] r.op = "net"  -> <<r.host, 0>> \in AllowedNet \/ <<r.host, r.port>> \in AllowedNet
      [] r.op = "dns"  -> \E e \in AllowedNet : e[1] = r.host
      [] r.op = "bind" -> TRUE

LesserOf(a, b) == IF a < b THEN a ELSE b

(* try_acquire: refill for the time elapsed, ...                            *)
Refilled == LesserOf(tokens + (clock - lastRefill) * Rate, Capacity * Unit)

(* mutant: a refused call keeps the refill and forgets when it was made     *)
TryAcquireStale ==
    IF Refilled >= Unit
    THEN /\ tokens' = Refilled - Unit
         /\ lastRefill' = clock
         /\ acquired' = Append(acquired, clock)
    ELSE /\ tokens' = Refilled
         /\ UNCHANGED <<lastRefill, acquired>>

(* ... then take one token if there is a whole one.                         *)
TryAcquire ==
    /\ lastRefill' = clock
    /\ IF Refilled >= Unit
       THEN /\ tokens' = Refilled - Unit
            /\ acquired' = Append(acquired, clock)
       ELSE /\ tokens' = Refilled
            /\ UNCHANGED acquired

CheckDenied(i, r) ==
    /\ Runs(i) /\ Refused(r) # {}
    /\ denials' = denials \cup {<<i, FirstRefused(r)>>}
    /\ UNCHANGED <<granted, modules, limiter, clock, table>>

(* The bucket pays before the whitelist is looked at.  A connection the     *)
(* check allows may be opened and is then tracked under the module's name.  *)
Opens(r) == r.op = "net" /\ Whitelisted(r) /\ Refilled >= Unit

CheckLimited(i, r) ==
    /\ Runs(i) /\ Refused(r) = {}
    /\ TryAcquire
    /\ \/ UNCHANGED table
       \/ /\ Opens(r) /\ conns[i] < MaxConns
          /\ conns' = [conns EXCEPT ![i] = @ + 1]
          /\ open' = [open EXCEPT ![inst[i].name] = @ + 1]
    /\ UNCHANGED <<granted, modules, denials, clock>>

(* track_connection_closed: saturating_sub.                                 *)
TrackConnectionClosed(i) == [open EXCEPT ![inst[i].name] = IF @ = 0 THEN 0 ELSE @ - 1]

OpenConnectionCount(m) == open[m]

Close(i) ==
    /\ conns[i] > 0
    /\ conns' = [conns EXCEPT ![i] = @ - 1]
    /\ open' = TrackConnectionClosed(i)
    /\ UNCHANGED <<granted, modules, denials, limiter, clock>>

-----------------------------------------------------------------------------
Next == \/ Tick
        \/ \E i \in Instances, m \in Names : Enforce(i, m) \/ Register(i, m)
        \/ \E i \in Instances, o \in {"live", "failed", "crashed"} : Initialized(i, o)
        \/ \E i \in Instances, r \in Requests : CheckDenied(i, r) \/ CheckLimited(i, r)
        \/ \E i \in Instances : Close(i)

Spec == Init /\ [][Next]_vars

-----------------------------------------------------------------------------
(* Types; the bucket never holds more than its capacity.                    *)
TypeOK ==
    /\ granted \subseteq 1 .. Len(Capabilities)
    /\ inst \in [Instances -> [name : Names,
                               st : {"none", "refused", "initializing", "live", "failed", "crashed"},
                               enforced : BOOLEAN, deps : SUBSET Instances]]
    /\ registry \in [Names -> Instances \cup {0}]
    /\ denials \in SUBSET (Instances \X Capability)
    /\ tokens \in 0 .. Capacity * Unit
    /\ lastRefill \in 0 .. clock /\ clock \in 0 .. MaxTime
    /\ acquired \in Seq(0 .. clock)
    /\ open \in [Names -> Nat] /\ conns \in [Instances -> 0 .. MaxConns]

(* Between any two moments the checks let through at most a full bucket plus *)
(* what was refilled meanwhile, whatever mix of modules and of file, net,    *)
(* dns and bind requests asked, and however the time fell between them.     *)
RateBound ==
    \A i, j \in 1 .. Len(acquired) :
        i <= j => (j - i + 1) * Unit <= Capacity * Unit + (acquired[j] - acquired[i]) * Rate

(* A module that enforce_and_instantiate started is never refused, later, a *)
(* capability it declared: the load-time check and the check at each call    *)
(* agree.                                                                    *)
NoLateDenial ==
    \A d \in denials : inst[d[1]].enforced => d[2] \notin Required[inst[d[1]].name]

(* A dependency a context resolves was initialized before it was handed out, *)
(* and stays so whatever happens to a later instance of that name; a name    *)
(* never resolves to two.                                                    *)
DependenciesInitialized ==
    \A i \in Instances, m \in Names :
        /\ \A d \in ResolveDependency(i, m) : inst[d].st = "live"
        /\ Cardinality(ResolveDependency(i, m)) <= 1

(* The connections instances of a name hold, numbered by instance.          *)
HeldBy(m) == {c \in Instances \X (1 .. MaxConns) : inst[c[1]].name = m /\ c[2] <= conns[c[1]]}

(* open_connection_count of a name is the number of connections that all of  *)
(* its instances hold, through any mix of opens and closes.                 *)
ConnectionsCounted == \A m \in Names : OpenConnectionCount(m) = Cardinality(HeldBy(m))

(* What the one context counts for all modules, tokens and connections, is   *)
(* what they took and hold.                                                 *)
AccountsKept == RateBound /\ ConnectionsCounted
=============================================================================
