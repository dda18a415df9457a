---------------------------- MODULE GovernedStores ----------------------------
(***************************************************************************)
(* The mutations of three stores that share a protocol: vendor changes and *)
(* employer rules (app/ats_intelligence.py), feature and control records   *)
(* (app/enterprise_governance.py) and model digest approvals               *)
(* (app/model_sovereignty.py).  Each reserves the idempotency key, writes  *)
(* its row and completes the key, in separate SQLite transactions.         *)
(*                                                                         *)
(* The routes are plain `def`, so calls run on concurrent threads.  The    *)
(* connections are in sqlite3's legacy mode, where a SELECT takes no lock: *)
(* what it read may be gone when the statement that follows it runs.       *)
(***************************************************************************)
EXTENDS Naturals, FiniteSets

CONSTANTS
    Call,         \* calls of save_vendor_change, save_control, save_approval...
    Store,        \* the stores in use
    Key,          \* idempotency keys
    Item,         \* event ids, rule ids, record ids, model digests
    Body,         \* what a payload says about its item
    Unofficial,   \* the bodies that claim VERIFIED without official evidence
    None,
    Env,          \* what the environment may do in this instance
    MaxCrashes    \* bound: process restarts

Payload == [item : Item, body : Body]

Status == {"RESERVED", "ACCEPTED", "REJECTED", "SUBMISSION_UNVERIFIED"}

\* A row of ats_idempotency, governance_idempotency or
\* model_sovereignty_idempotency.
Record == [request : Payload, status : Status]

ASSUME StoresAssumption ==
    /\ Store \subseteq {"ats", "governance", "sovereignty"}
    /\ Unofficial \subseteq Body
    /\ Env \subseteq {"sqlite_error"}
    /\ MaxCrashes \in Nat
    /\ None \notin Record \cup Payload \cup Body \cup Store \cup Key
    /\ None \notin [request : Payload, status : {"pending", "done", "refused", "unknown"}]

VARIABLES
    call,     \* the threads: pc, store, key, payload, the status to write, the
              \* status answered, and whether the thread's write committed
    idem,     \* the idempotency tables
    row,      \* the tables of items: the body stored for an item
    crashes   \* number of restarts so far

vars == <<call, idem, row, crashes>>

New == [pc |-> "new", store |-> None, key |-> None, payload |-> None,
        verdict |-> "RESERVED", answer |-> None, wrote |-> FALSE]

Init ==
    /\ call    = [c \in Call |-> New]
    /\ idem    = [x \in Store \X Key |-> None]
    /\ row     = [x \in Store \X Item |-> None]
    /\ crashes = 0

-----------------------------------------------------------------------------
Slot(c) == <<call[c].store, call[c].key>>

Place(c) == <<call[c].store, call[c].payload.item>>

Goto(c, pc) == call' = [call EXCEPT ![c].pc = pc]

Conclude(c, s) == call' = [call EXCEPT ![c].pc = "complete", ![c].verdict = s]

\* Mutant of SameRequest: the payload hash is not compared.
SameKey(record, p) == TRUE

\* Whether a stored record is of this request.
SameRequest(record, p) == record.request = p

\* The SELECT of _reserve.  A record of the same request is replayed; in the
\* ATS store one that is still RESERVED is disowned first.
Lookup(c, s, k, p) ==
    LET found == idem[<<s, k>>] IN
    /\ call[c].pc = "new"
    /\ call' = [call EXCEPT ![c] =
         [@ EXCEPT !.store = s, !.key = k, !.payload = p,
                   !.pc = IF found = None THEN "insert"
                          ELSE IF ~SameRequest(found, p) THEN "failed"
                          ELSE IF s = "ats" /\ found.status = "RESERVED" THEN "disown"
                          ELSE "answered",
                   !.answer = IF found # None /\ SameRequest(found, p)
                              THEN found.status ELSE None]]
    /\ UNCHANGED <<idem, row, crashes>>

\* Where a fresh reservation goes on: the evidence check of a vendor change,
\* the conflict check, or (governance has none) the write.
Proceed(c) ==
    CASE call[c].store = "governance" -> [call[c] EXCEPT !.pc = "write"]
      [] call[c].store = "ats" /\ call[c].payload.body \in Unofficial ->
            [call[c] EXCEPT !.pc = "complete", !.verdict = "REJECTED"]
      [] OTHER -> [call[c] EXCEPT !.pc = "check"]

\* Mutant of Insert: INSERT OR REPLACE.
InsertOrReplace(c) ==
    /\ call[c].pc = "insert"
    /\ idem' = [idem EXCEPT ![Slot(c)] =
         [request |-> call[c].payload, status |-> "RESERVED"]]
    /\ call' = [call EXCEPT ![c] = Proceed(c)]
    /\ UNCHANGED <<row, crashes>>

\* The INSERT of _reserve; the primary key refuses the slower of two callers.
Insert(c) ==
    /\ call[c].pc = "insert"
    /\ IF idem[Slot(c)] # None
       THEN Goto(c, "failed") /\ UNCHANGED idem
       ELSE /\ idem' = [idem EXCEPT ![Slot(c)] =
                 [request |-> call[c].payload, status |-> "RESERVED"]]
            /\ call' = [call EXCEPT ![c] = Proceed(c)]
    /\ UNCHANGED <<row, crashes>>

\* Mutant of Disown: a status that no table knows.
DisownUnnamed(c) ==
    /\ call[c].pc = "disown"
    /\ idem' = [idem EXCEPT ![Slot(c)].status = "UNVERIFIED"]
    /\ call' = [call EXCEPT ![c].pc = "answered", ![c].answer = "SUBMISSION_UNVERIFIED"]
    /\ UNCHANGED <<row, crashes>>

\* Mutant of Disown: the earlier mutation is declared failed.
DisownAsRejected(c) ==
    /\ call[c].pc = "disown"
    /\ idem' = [idem EXCEPT ![Slot(c)].status = "REJECTED"]
    /\ call' = [call EXCEPT ![c].pc = "failed"]
    /\ UNCHANGED <<row, crashes>>

\* The UPDATE of the ATS _reserve: the earlier mutation is declared uncertain,
\* even if it has been completed since the SELECT.
Disown(c) ==
    /\ call[c].pc = "disown"
    /\ idem' = [idem EXCEPT ![Slot(c)].status = "SUBMISSION_UNVERIFIED"]
    /\ call' = [call EXCEPT ![c].pc = "answered", ![c].answer = "SUBMISSION_UNVERIFIED"]
    /\ UNCHANGED <<row, crashes>>

\* The SELECT that looks for a conflicting row.
Check(c) ==
    /\ call[c].pc = "check"
    /\ IF row[Place(c)] \notin {None, call[c].payload.body}
       THEN Conclude(c, "REJECTED")
       ELSE Goto(c, "write")
    /\ UNCHANGED <<idem, row, crashes>>

\* Mutant of Stored: INSERT OR REPLACE of the item.
StoredLast(s, old, body) == body

\* What a write leaves in the row: INSERT OR IGNORE keeps the row that is
\* there, the governance upsert replaces it.
Stored(s, old, body) ==
    IF s = "governance" \/ old = None THEN body ELSE old

\* Mutant of Write: the key's outcome is written before the row.
WriteLater(c) ==
    /\ call[c].pc = "write"
    /\ call' = [call EXCEPT ![c].pc = "complete", ![c].verdict = "ACCEPTED"]
    /\ UNCHANGED <<idem, row, crashes>>

\* The transaction that writes the row (and its audit row in the ATS store).
Write(c) ==
    /\ call[c].pc = "write"
    /\ row' = [row EXCEPT ![Place(c)] = Stored(call[c].store, @, call[c].payload.body)]
    /\ call' = [call EXCEPT ![c].pc = "complete", ![c].verdict = "ACCEPTED",
                            ![c].wrote = TRUE]
    /\ UNCHANGED <<idem, crashes>>

\* An SQLite error before the commit rolls the statement back.  Once it holds
\* the key the ATS store notes an uncertain outcome; otherwise the exception
\* passes, and the key stays as it is.
WriteError(c) ==
    /\ "sqlite_error" \in Env
    /\ call[c].pc \in {"insert", "disown", "check", "write"}
    /\ IF call[c].store = "ats" /\ call[c].pc \in {"check", "write"}
       THEN Conclude(c, "SUBMISSION_UNVERIFIED")
       ELSE Goto(c, "failed")
    /\ UNCHANGED <<idem, row, crashes>>

\* _complete, whatever the record says by now.  REJECTED and uncertain outcomes
\* are raised, ACCEPTED is returned.
Complete(c) ==
    LET ok == call[c].verdict = "ACCEPTED" IN
    /\ call[c].pc = "complete"
    /\ idem' = [idem EXCEPT ![Slot(c)].status = call[c].verdict]
    /\ call' = [call EXCEPT ![c].pc = IF ok THEN "answered" ELSE "failed",
                            ![c].answer = IF ok THEN "ACCEPTED" ELSE None]
    /\ UNCHANGED <<row, crashes>>

\* _complete fails.  In the ATS store a failed ACCEPTED is retried as an
\* uncertain outcome; otherwise the key stays RESERVED.
CompleteError(c) ==
    /\ "sqlite_error" \in Env
    /\ call[c].pc = "complete"
    /\ IF call[c].store = "ats" /\ call[c].verdict = "ACCEPTED"
       THEN Conclude(c, "SUBMISSION_UNVERIFIED")
       ELSE Goto(c, "failed")
    /\ UNCHANGED <<idem, row, crashes>>

InFlight(c) == call[c].pc \in {"insert", "disown", "check", "write", "complete"}

\* The process dies.
Crash ==
    /\ crashes < MaxCrashes
    /\ crashes' = crashes + 1
    /\ call' = [c \in Call |-> IF InFlight(c) THEN [call[c] EXCEPT !.pc = "failed"] ELSE call[c]]
    /\ UNCHANGED <<idem, row>>

-----------------------------------------------------------------------------
Step(c) ==
    \/ \E s \in Store, k \in Key, p \in Payload : Lookup(c, s, k, p)
    \/ Insert(c) \/ Disown(c) \/ Check(c) \/ Write(c) \/ WriteError(c)
    \/ Complete(c) \/ CompleteError(c)

Next == (\E c \in Call : Step(c)) \/ Crash

Spec == Init /\ [][Next]_vars

-----------------------------------------------------------------------------
(* Properties *)

Pc == {"insert", "disown", "check", "write", "complete", "answered", "failed"}

\* Every variable has its type.
StoresTypeOK ==
    /\ call \in [Call -> {New} \cup
                   [pc : Pc, store : Store, key : Key, payload : Payload,
                    verdict : Status, answer : Status \cup {None}, wrote : BOOLEAN]]
    /\ idem \in [Store \X Key -> Record \cup {None}]
    /\ row \in [Store \X Item -> Body \cup {None}]
    /\ crashes \in Nat

\* However often a request is repeated, at most one of the calls of a key writes.
OneWritePerKey ==
    \A c, d \in Call :
        (call[c].wrote /\ call[d].wrote /\ Slot(c) = Slot(d)) => c = d

\* An outcome on record is true: ACCEPTED was written by a call with this very
\* payload and its item is stored; a REJECTED request has written nothing.
OutcomeIsTrue ==
    \A s \in Store, k \in Key :
        LET here == {c \in Call : call[c].wrote /\ Slot(c) = <<s, k>>} IN
        idem[<<s, k>>] # None =>
            /\ idem[<<s, k>>].status = "ACCEPTED" =>
                  \E c \in here : /\ call[c].payload = idem[<<s, k>>].request
                                  /\ row[Place(c)] # None
            /\ idem[<<s, k>>].status = "REJECTED" => here = {}

\* A caller that is told ACCEPTED, now or by a replay, is told about its own
\* payload.
ReplayIsMine ==
    \A c \in Call : (call[c].pc = "answered" /\ call[c].answer = "ACCEPTED") =>
        \E d \in Call : call[d].wrote /\ Slot(d) = Slot(c) /\ call[d].payload = call[c].payload

\* ATS rows and model approvals are never replaced, not even by two calls that
\* both found no conflict.
FirstRowStays ==
    [][\A s \in Store \ {"governance"}, i \in Item :
          row[<<s, i>>] # None => row'[<<s, i>>] = row[<<s, i>>]]_vars

\* In the governance and sovereignty stores a recorded outcome is final.
RecordedIsFinal ==
    [][\A s \in Store \ {"ats"}, k \in Key :
          (idem[<<s, k>>] # None /\ idem[<<s, k>>].status # "RESERVED")
              => idem'[<<s, k>>] = idem[<<s, k>>]]_vars

\* "an interrupted/uncertain mutation becomes terminal SUBMISSION_UNVERIFIED".
UnverifiedIsTerminal ==
    [][\A k \in Key :
          (idem[<<"ats", k>>] # None /\ idem[<<"ats", k>>].status = "SUBMISSION_UNVERIFIED")
              => idem'[<<"ats", k>>] = idem[<<"ats", k>>]]_vars

\* The stores keep the promise of OneMutation, with outcomes that the ATS store
\* may revise in every direction but to "pending".
Outcome(s) == CASE s = "RESERVED"              -> "pending"
                [] s = "ACCEPTED"              -> "done"
                [] s = "REJECTED"              -> "refused"
                [] s = "SUBMISSION_UNVERIFIED" -> "unknown"

Claimed(x) == IF idem[x] = None THEN None
              ELSE [request |-> idem[x].request, status |-> Outcome(idem[x].status)]

Mutation == INSTANCE OneMutation WITH
    Key       <- Store \X Key,
    Request   <- Payload,
    Moves     <- {"pending", "unknown", "done", "refused"} \X {"done", "refused", "unknown"},
    record    <- [x \in Store \X Key |-> Claimed(x)],
    performed <- {Slot(c) : c \in {d \in Call : call[d].wrote}}

StoresMutateOnce == Mutation!MSpec

-----------------------------------------------------------------------------
(* The inductive invariant *)

Active(c) == call[c].pc \in {"check", "write", "complete"}

Owner(c) == Active(c) \/ call[c].wrote

\* The call that inserted a key's record is the only one past the INSERT, and
\* the record is of its payload.
OwnerHolds ==
    \A c \in Call : Owner(c) =>
        /\ idem[Slot(c)] # None
        /\ idem[Slot(c)].request = call[c].payload
        /\ \A d \in Call : (Owner(d) /\ Slot(d) = Slot(c)) => d = c

\* Nobody but a disowning retry settles the record of an owner at work, and what
\* the owner is about to record is what it did.
ActiveIsOpen ==
    \A c \in Call : Active(c) =>
        /\ \/ idem[Slot(c)].status = "RESERVED"
           \/ call[c].store = "ats" /\ idem[Slot(c)].status = "SUBMISSION_UNVERIFIED"
        /\ call[c].pc = "complete" => /\ call[c].verdict # "RESERVED"
                                      /\ call[c].verdict = "ACCEPTED" => call[c].wrote
                                      /\ call[c].verdict = "REJECTED" => ~call[c].wrote

\* A write is the last thing a call does before it records the outcome.
WriterIsPast ==
    \A c \in Call : call[c].wrote =>
        /\ call[c].pc \in {"complete", "answered", "failed"}
        /\ row[Place(c)] # None

\* A call about to disown a record has seen it in the ATS table.
DisownerFound ==
    \A c \in Call : call[c].pc = "disown" =>
        /\ call[c].store = "ats"
        /\ idem[Slot(c)] # None
        /\ idem[Slot(c)].request = call[c].payload

StoresInv ==
    /\ StoresTypeOK
    /\ OwnerHolds
    /\ ActiveIsOpen
    /\ WriterIsPast
    /\ DisownerFound
    /\ OutcomeIsTrue
    /\ ReplayIsMine
=============================================================================
