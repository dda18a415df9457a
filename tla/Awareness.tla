------------------------------- MODULE Awareness -------------------------------
(***************************************************************************)
(* ModuleAwarenessEngine (app/module_awareness.py): the registry of        *)
(* modules, the routes, the probes and the narrative memory of the process *)
(* and their copy in the encrypted state store (app/memory.py).            *)
(*                                                                         *)
(* Its endpoints await nothing, so a request is one step; it changes the   *)
(* memory of the process first and then saves all of it, or fails.         *)
(***************************************************************************)
EXTENDS Integers, Sequences, FiniteSets, TLC

CONSTANTS
    Service,       \* services a client registers, with the versions they have
    Version,
    Infrastructure,\* INFRASTRUCTURE_SERVICES
    BuiltIn,       \* services that __init__ registers
    Integrated,    \* services that enterprise_runtime registers on import
    Snapshots,     \* registry/load: [modules, baseline]
    Route, Session, Fact,
    Keyed,         \* may the process have a state store: subset of BOOLEAN
    MaxRequests, MaxStarts,   \* bounds of the model
    AwarenessEnv   \* what may happen: subset of {"error", "crash"}

ASSUME AwarenessAssumption == Keyed \subseteq BOOLEAN /\ "summary" \notin Fact

VARIABLES
    memory,    \* the engine: [registry, baseline, routes, probes, narrative, consolidated]
    stateStore, \* the record "module-awareness-v1" of the store, <<>> for none
    hasStore,   \* whether the process has a store
    told,      \* narrative entries and consolidations that were answered stored
    requests, starts

awarenessVars == <<memory, stateStore, hasStore, told, requests, starts>>

Registered(services, version, registry) == [s \in services |-> version] @@ registry

FreshMemory == [registry |-> Registered(BuiltIn, "built in", <<>>), baseline |-> {}, routes |-> {},
          probes |-> {}, narrative |-> [s \in Session |-> <<>>], consolidated |-> {}]

\* __init__ restores what was stored and enterprise_runtime registers its own.
Started(stored) ==
    LET m == IF stored = <<>> THEN FreshMemory ELSE stored
    IN [m EXCEPT !.registry = Registered(Integrated, "integrated", @)]

AwarenessInit ==
    /\ hasStore \in Keyed
    /\ memory = Started(<<>>)
    /\ stateStore = IF hasStore THEN memory ELSE <<>>
    /\ told = {} /\ requests = 0 /\ starts = 0

-----------------------------------------------------------------------------
\* Mutant of PersistState: what is saved is the state before the request.
PersistStateBefore(m, entry) ==
    /\ memory' = m
    /\ stateStore' = IF hasStore THEN memory ELSE stateStore
    /\ told' = told \cup entry

\* _persist_state after the change: saved, or an error that leaves the change
\* in memory and answers nothing.
PersistState(m, entry) ==
    /\ memory' = m
    /\ \/ stateStore' = (IF hasStore THEN m ELSE stateStore) /\ told' = told \cup entry
       \/ "error" \in AwarenessEnv /\ hasStore /\ UNCHANGED <<stateStore, told>>

Request(m, entry) ==
    /\ requests < MaxRequests
    /\ requests' = requests + 1
    /\ PersistState(m, entry)
    /\ UNCHANGED <<hasStore, starts>>

Register(s, v) == Request([memory EXCEPT !.registry = Registered({s}, v, @)], {})

LoadSnapshot(snapshot) ==
    Request([memory EXCEPT !.registry = snapshot.modules, !.baseline = snapshot.baseline], {})

Sovereign == DOMAIN memory.registry \ Infrastructure

EstablishBaseline == Request([memory EXCEPT !.baseline = Sovereign], {})

\* register_route and record_probe.
RegisterRoute(r) == Request([memory EXCEPT !.routes = @ \cup {r}], {})
RecordProbe(s) == Request([memory EXCEPT !.probes = @ \cup {s}], {})

AppendNarrative(s, fact) ==
    Request([memory EXCEPT !.narrative[s] = Append(@, fact)], {[session |-> s, fact |-> fact]})

Consolidate(s) == Request([memory EXCEPT !.consolidated = @ \cup {s}], {[session |-> s, fact |-> "summary"]})

\* The process ends; the next one has the stateStore or not as before.
AwarenessRestart ==
    /\ "crash" \in AwarenessEnv
    /\ starts < MaxStarts
    /\ starts' = starts + 1
    /\ memory' = Started(stateStore)
    /\ stateStore' = IF hasStore THEN memory' ELSE stateStore
    /\ told' = IF hasStore THEN told ELSE {}
    /\ UNCHANGED <<hasStore, requests>>

AwarenessNext ==
    \/ \E s \in Service : (\E v \in Version : Register(s, v)) \/ RecordProbe(s)
    \/ \E snapshot \in Snapshots : LoadSnapshot(snapshot)
    \/ EstablishBaseline
    \/ \E r \in Route : RegisterRoute(r)
    \/ \E s \in Session : (\E fact \in Fact : AppendNarrative(s, fact)) \/ Consolidate(s)
    \/ AwarenessRestart

AwarenessSpec == AwarenessInit /\ [][AwarenessNext]_awarenessVars

-----------------------------------------------------------------------------
\* continuity of a session.
Intact(s) == memory.narrative[s] # <<>> /\ s \in memory.consolidated

AwarenessTypeOK ==
    /\ memory.narrative \in [Session -> Seq(Fact)]
    /\ memory.consolidated \subseteq Session
    /\ memory.probes \subseteq Service /\ memory.routes \subseteq Route
    /\ stateStore = <<>> \/ DOMAIN stateStore = DOMAIN memory
    /\ hasStore \in BOOLEAN

\* What a client was told is stored outlives the process that has a store,
\* whatever requests failed in between, and a session that was told of a fact
\* and of its consolidation is intact.
MemoriesAreKept ==
    /\ \A t \in told : t.fact # "summary" =>
         \E i \in DOMAIN memory.narrative[t.session] : memory.narrative[t.session][i] = t.fact
    /\ \A s \in Session :
         {f \in Fact : [session |-> s, fact |-> f] \in told} # {} /\ [session |-> s, fact |-> "summary"] \in told
           => Intact(s)
=============================================================================
