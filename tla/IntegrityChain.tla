----------------------------- MODULE IntegrityChain -----------------------------
(***************************************************************************)
(* Durable records of the quantum-defense overlays: the integrity chain    *)
(* (03-sara-global-truth-protocol/integrity_patch.py), the seal store      *)
(* (05-sara-nexus-cipmu/cipmu_patch.py) and key rotation                   *)
(* (02-sara-security-fabric, 01-sara-nexus-ppsim).                         *)
(*                                                                         *)
(* A Firestore transaction is one step, and its answer may be lost.  The   *)
(* seal store is a file that a request loads and later replaces.  A state  *)
(* and its hash are one value; the hash of a chain entry is its sequence   *)
(* number, which the transaction makes unique.                             *)
(***************************************************************************)
EXTENDS Naturals, FiniteSets

CONSTANTS
    Operation,       \* operation ids of /v1/integrity/sign-state
    State,           \* the states that are signed
    Signing,         \* requests to sign-state
    Sealing,         \* requests to /v1/cipmu/seal
    Rotations,       \* bound on key rotations
    ChainEnv         \* what may happen: subset of {"lost", "error"}

ASSUME ChainAssumption == Rotations \in Nat

VARIABLES
    chain,       \* the integrity chain: operation -> set of its entry
    chainHead,   \* the _head document
    signing,     \* requests to sign a state
    signed,      \* states that were answered accepted: [operation, state]
    store,       \* the seal store: records by request
    sealing,     \* requests to seal: what they have loaded
    confirmed,   \* records that were answered sealed
    raced,       \* a seal was loaded while another was to be saved
    keys         \* the secret versions: [kem, signature], and those audited

chainVars == <<chain, chainHead, signing, signed>>
sealVars == <<store, sealing, confirmed, raced>>
integrityVars == <<chainVars, sealVars, keys>>

IntegrityInit ==
    /\ chain = [o \in Operation |-> {}]
    /\ chainHead = 0
    /\ signing \in [Signing -> [operation : Operation, state : State, step : {"sent"}]]
    /\ signed = {}
    /\ store = {}
    /\ sealing = [s \in Sealing |-> [step |-> "sent", loaded |-> {}]]
    /\ confirmed = {}
    /\ raced = FALSE
    /\ keys = [kem |-> 0, signature |-> 0, audited |-> 0]

-----------------------------------------------------------------------------
SigningGoes(r, step) == signing' = [signing EXCEPT ![r].step = step]
EntryOf(r) == chain[signing[r].operation]
Answered(r) == [operation |-> signing[r].operation, state |-> signing[r].state]

\* sign_state: an operation that exists is answered from the chain, or refused
\* if it was for another state; otherwise PPSIM signs.
LookUpOperation(r) ==
    /\ signing[r].step = "sent"
    /\ IF EntryOf(r) = {}
       THEN \E answers \in BOOLEAN : SigningGoes(r, IF answers THEN "signed" ELSE "refused")
       ELSE SigningGoes(r, IF \E e \in EntryOf(r) : e.state = signing[r].state THEN "done" ELSE "refused")
    /\ signed' = IF signing'[r].step = "done" THEN signed \cup {Answered(r)} ELSE signed
    /\ UNCHANGED <<chain, chainHead, sealVars, keys>>

\* _append_entry: the entry and the head change in one transaction.
AppendEntry(r) ==
    /\ signing[r].step = "signed"
    /\ IF EntryOf(r) = {}
       THEN /\ chain' = [chain EXCEPT ![signing[r].operation] =
                   {[state |-> signing[r].state, sequence |-> chainHead + 1, previous |-> chainHead]}]
            /\ chainHead' = chainHead + 1
            /\ \/ SigningGoes(r, "done")
               \/ "lost" \in ChainEnv /\ SigningGoes(r, "refused")
       ELSE /\ SigningGoes(r, IF \E e \in EntryOf(r) : e.state = signing[r].state THEN "done" ELSE "refused")
            /\ UNCHANGED <<chain, chainHead>>
    /\ signed' = IF signing'[r].step = "done" THEN signed \cup {Answered(r)} ELSE signed
    /\ UNCHANGED <<sealVars, keys>>

-----------------------------------------------------------------------------
\* seal: the store is loaded.  The attestation was verified before.
LoadStore(s) ==
    /\ sealing[s].step = "sent"
    /\ sealing' = [sealing EXCEPT ![s] = [step |-> "loaded", loaded |-> store]]
    /\ raced' = (raced \/ \E t \in Sealing : sealing[t].step = "loaded")
    /\ UNCHANGED <<store, confirmed, chainVars, keys>>

\* _save_seal_store replaces the file by what was loaded and the new record.
SaveStore(s) ==
    /\ sealing[s].step = "loaded"
    /\ \/ /\ store' = sealing[s].loaded \cup {s}
          /\ confirmed' = confirmed \cup {s}
          /\ sealing' = [sealing EXCEPT ![s] = [step |-> "done", loaded |-> {}]]
       \/ /\ "error" \in ChainEnv
          /\ sealing' = [sealing EXCEPT ![s] = [step |-> "failed", loaded |-> {}]]
          /\ UNCHANGED <<store, confirmed>>
    /\ UNCHANGED <<raced, chainVars, keys>>

-----------------------------------------------------------------------------
\* pqc_rotate: PPSIM adds a secret version for each key, and then the fabric
\* audits; the second version or the audit may fail.
RotateKem ==
    /\ keys.kem < Rotations
    /\ keys.kem = keys.signature
    /\ keys' = [keys EXCEPT !.kem = @ + 1]
    /\ UNCHANGED <<chainVars, sealVars>>

RotateSignature ==
    /\ keys.signature < keys.kem
    /\ \E audited \in {keys.audited} \cup {keys.kem} :
         keys' = [keys EXCEPT !.signature = keys.kem, !.audited = audited]
    /\ UNCHANGED <<chainVars, sealVars>>

IntegrityNext ==
    \/ \E r \in Signing : LookUpOperation(r) \/ AppendEntry(r)
    \/ \E s \in Sealing : LoadStore(s) \/ SaveStore(s)
    \/ RotateKem \/ RotateSignature

IntegritySpec == IntegrityInit /\ [][IntegrityNext]_integrityVars

-----------------------------------------------------------------------------
IntegrityTypeOK ==
    /\ \A r \in Signing : signing[r].step \in {"sent", "signed", "done", "refused"}
    /\ \A s \in Sealing : sealing[s].step \in {"sent", "loaded", "done", "failed"}
    /\ store \subseteq Sealing
    /\ keys.audited <= keys.kem

\* The integrity chain is one gapless line that ends at its head, and an
\* operation that was accepted stands in it with the state it was accepted for.  What was
\* answered sealed is in the store, unless two seals overlapped.
ChainIsLinked ==
    LET entries == UNION {chain[o] : o \in Operation}
    IN /\ {e.sequence : e \in entries} = 1..chainHead
       /\ Cardinality(entries) = chainHead
       /\ \A e \in entries : e.previous = e.sequence - 1
       /\ \A a \in signed : \E e \in chain[a.operation] : e.state = a.state
       /\ ~raced => confirmed = store
=============================================================================
