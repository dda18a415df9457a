--------------------------------- MODULE Titan ---------------------------------
(***************************************************************************)
(* TitanEngine (app/titan.py): signed VOICE events in chains, the bus that *)
(* takes a chain's events in order, and the gates.                         *)
(*                                                                         *)
(* All of it is in the memory of one process; a request is one step.  The  *)
(* clients keep the events they were given, also when the process          *)
(* restarts.  A signature is the number of its event.                      *)
(***************************************************************************)
EXTENDS Integers, Sequences, FiniteSets, TLC, SequencesExt

CONSTANTS
    Chain,          \* chain ids of clients
    VoiceEvents,    \* VOICE_EVENTS, which are also REQUIRED_SEQUENCE
    MaxEvents, MaxGates, MaxSequenceNumber, MaxTitanStarts  \* bounds of the model

ASSUME TitanAssumption == {MaxTitanStarts, MaxSequenceNumber} \subseteq Nat

VARIABLES
    events,      \* all events that were signed, in order
    chains,      \* chain -> its events, sorted by sequence
    busLog,      \* chain -> events the bus accepted
    executeGates,   \* gates that authorized an execution: [chain, audited]
    titanStarts

titanVars == <<events, chains, busLog, executeGates, titanStarts>>

Unsigned == 0

TitanInit ==
    /\ events = <<>>
    /\ chains = [c \in Chain |-> <<>>] /\ busLog = [c \in Chain |-> <<>>]
    /\ executeGates = {} /\ titanStarts = 0

-----------------------------------------------------------------------------
\* emit: the event goes behind those of its sequence number and smaller ones.
Inserted(chain, e) ==
    LET k == Cardinality({i \in DOMAIN chain : chain[i].sequence <= e.sequence})
    IN InsertAt(chain, k + 1, e)

Emitted(c, type, n, previous) ==
    [chain |-> c, type |-> type, sequence |-> n, previous |-> previous, signature |-> Len(events) + 1]

Emit(c, type, n, previous) ==
    /\ Len(events) < MaxEvents
    /\ LET e == Emitted(c, type, n, previous)
       IN events' = Append(events, e) /\ chains' = [chains EXCEPT ![c] = Inserted(@, e)]
    /\ UNCHANGED <<busLog, executeGates, titanStarts>>

\* deployment_gate, with the architect's approval: a chain of its own.
DeploymentGate(c) ==
    /\ chains[c] = <<>>
    /\ Emit(c, "CERTIFY", 0, Unsigned)

\* publish: any event with a good signature, at the bus' next number.
Publish(e) ==
    /\ e.sequence = Len(busLog[e.chain])
    /\ busLog' = [busLog EXCEPT ![e.chain] = Append(@, e)]
    /\ UNCHANGED <<events, chains, executeGates, titanStarts>>

\* Mutant of ChainValid: the links of the events are not compared.
ChainValidUnlinked(chain) ==
    /\ \A i \in DOMAIN chain : chain[i].sequence = i - 1
    /\ VoiceEvents \subseteq {chain[i].type : i \in DOMAIN chain}

\* audit_events: numbered without gaps, each linked to the one before, and
\* every event type there, in whatever order.
ChainValid(chain) ==
    /\ \A i \in DOMAIN chain :
         /\ chain[i].sequence = i - 1
         /\ chain[i].previous = IF i = 1 THEN Unsigned ELSE chain[i - 1].signature
    /\ VoiceEvents \subseteq {chain[i].type : i \in DOMAIN chain}

\* execute_gate, with the architect's approval.
ExecuteGate(c) ==
    /\ Cardinality(executeGates) < MaxGates
    /\ ChainValid(chains[c])
    /\ executeGates' = executeGates \cup {[chain |-> c, audited |-> chains[c]]}
    /\ UNCHANGED <<events, chains, busLog, titanStarts>>

\* The process restarts: chains, bus and gates are gone, the events are not.
TitanRestart ==
    /\ titanStarts < MaxTitanStarts
    /\ titanStarts' = titanStarts + 1
    /\ chains' = [c \in Chain |-> <<>>] /\ busLog' = [c \in Chain |-> <<>>]
    /\ executeGates' = {}
    /\ UNCHANGED events

TitanNext ==
    \/ \E c \in Chain, type \in VoiceEvents, n \in 0..MaxSequenceNumber, previous \in 0..Len(events) :
         Emit(c, type, n, previous)
    \/ \E i \in DOMAIN events : Publish(events[i])
    \/ \E c \in Chain : DeploymentGate(c) \/ ExecuteGate(c)
    \/ TitanRestart

TitanSpec == TitanInit /\ [][TitanNext]_titanVars

-----------------------------------------------------------------------------
TitanTypeOK ==
    /\ \A i \in DOMAIN events : events[i].signature = i
    /\ \A c \in Chain : Range(chains[c]) \cup Range(busLog[c]) \subseteq {e \in Range(events) : e.chain = c}
    /\ titanStarts \in 0..MaxTitanStarts

\* What a gate authorized stays what it was: two gates of a chain audited one
\* history, the events of a gate are all still in their chain, each made after
\* the one it follows, and the bus has at most one event of each number.
GatesStand ==
    /\ \A g \in executeGates :
         /\ Range(g.audited) \subseteq Range(chains[g.chain])
         /\ \A i, j \in DOMAIN g.audited : i < j => g.audited[i].signature < g.audited[j].signature
    /\ \A g, h \in executeGates : g.chain = h.chain =>
         IsPrefix(g.audited, h.audited) \/ IsPrefix(h.audited, g.audited)
    /\ \A c \in Chain : \A e, f \in Range(busLog[c]) : e.sequence = f.sequence => e = f
=============================================================================
