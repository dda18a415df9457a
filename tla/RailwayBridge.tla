---------------------------- MODULE RailwayBridge ----------------------------
(***************************************************************************)
(* RailwayControlBridge.deploy_exact_commit of app/control_plane.py and    *)
(* its IdempotencyLedger.  Callers run concurrently, each ledger method is *)
(* one transaction, and the deployment itself is a POST to Railway that    *)
(* may be lost, refused, performed without an answer, or performed after   *)
(* the caller has given up.  Others deploy to the same service.            *)
(*                                                                         *)
(* A deployment is named by what caused it: the call, or an outsider.      *)
(***************************************************************************)
EXTENDS Naturals, FiniteSets

CONSTANTS
    Call,        \* calls of deploy_exact_commit
    Key,         \* idempotency keys
    Commit,      \* commits
    Outsider,    \* deployments made by others; Initial is the first
    Initial,
    None,
    Env,         \* what the environment may do in this instance
    MaxCrashes   \* bound: process restarts

Deployment == Call \cup Outsider

\* What request_hash identifies.
Request == [commit : Commit, expected : Deployment]

EnvEvents == {"read_error", "no_answer", "ledger_error", "outsider"}

ASSUME RailwayAssumption ==
    /\ Initial \in Outsider
    /\ Call \cap Outsider = {}
    /\ None \notin Deployment
    /\ Env \subseteq EnvEvents
    /\ MaxCrashes \in Nat

Status == {"RESERVED", "COMPLETED", "REJECTED", "SUBMISSION_UNVERIFIED"}

\* A row of privileged_mutations, and the call that inserted it.
Record == [request : Request, status : Status, result : Deployment \cup {None}, by : Call]

ASSUME NoneAssumption ==
    None \notin Record \cup Key \cup Request
                \cup [request : Request, status : {"pending", "done", "refused", "unknown"}]

VARIABLES
    call,     \* the callers: pc, key, request, the status to write, the answer
    record,   \* table privileged_mutations
    sent,     \* the POST of each call: "no", "pending", "performed", "dropped"
    current,  \* Railway: the service's newest deployment
    past,     \* Railway: every deployment the service has had
    crashes   \* number of restarts so far

railwayVars == <<sent, current, past>>
vars == <<call, record, railwayVars, crashes>>

Init ==
    /\ call    = [c \in Call |-> [pc |-> "new", key |-> None, request |-> None,
                                  verdict |-> "RESERVED", answer |-> None]]
    /\ record  = [k \in Key |-> None]
    /\ sent    = [c \in Call |-> "no"]
    /\ current = Initial
    /\ past    = {Initial}
    /\ crashes = 0

-----------------------------------------------------------------------------
Goto(c, pc) == call' = [call EXCEPT ![c].pc = pc]

Row(c) == record[call[c].key]

\* Mutant of Replays: the request hash is not compared.
ReplaysAny(row, q) == row.status = "COMPLETED"

\* _existing_idempotency_result: the same request's result is replayed, and
\* anything else about the key is an error.
Replays(row, q) == row.request = q /\ row.status = "COMPLETED"

\* The caller names a key, a commit and a deployment it has seen.
Begin(c) ==
    /\ call[c].pc = "new"
    /\ \E k \in Key, m \in Commit, d \in past :
         LET q == [commit |-> m, expected |-> d] IN
         call' = [call EXCEPT ![c] =
           [pc      |-> IF record[k] = None THEN "check"
                        ELSE IF Replays(record[k], q) THEN "answered" ELSE "failed",
            key     |-> k,
            request |-> q,
            verdict |-> "RESERVED",
            answer  |-> IF record[k] # None /\ Replays(record[k], q)
                        THEN record[k].result ELSE None]]
    /\ UNCHANGED <<record, railwayVars, crashes>>

\* The first comparison with the current deployment.
Check(c) ==
    /\ call[c].pc = "check"
    /\ Goto(c, IF current = call[c].request.expected THEN "reserve" ELSE "failed")
    /\ UNCHANGED <<record, railwayVars, crashes>>

\* Mutant of Reserve: an interrupted reservation is taken over.
ReserveAgain(c) ==
    /\ call[c].pc = "reserve"
    /\ IF Row(c) # None /\ Row(c).status # "RESERVED"
       THEN Goto(c, "failed") /\ UNCHANGED record
       ELSE /\ record' = [record EXCEPT ![call[c].key] =
                 [request |-> call[c].request, status |-> "RESERVED", result |-> None, by |-> c]]
            /\ Goto(c, "recheck")
    /\ UNCHANGED <<railwayVars, crashes>>

\* IdempotencyLedger.reserve
Reserve(c) ==
    /\ call[c].pc = "reserve"
    /\ IF Row(c) # None
       THEN Goto(c, "failed") /\ UNCHANGED record
       ELSE /\ record' = [record EXCEPT ![call[c].key] =
                 [request |-> call[c].request, status |-> "RESERVED", result |-> None, by |-> c]]
            /\ Goto(c, "recheck")
    /\ UNCHANGED <<railwayVars, crashes>>

\* The second comparison; a mismatch is recorded as REJECTED.
Recheck(c) ==
    /\ call[c].pc = "recheck"
    /\ IF current = call[c].request.expected
       THEN Goto(c, "submit")
       ELSE call' = [call EXCEPT ![c].pc = "mark", ![c].verdict = "REJECTED"]
    /\ UNCHANGED <<record, railwayVars, crashes>>

\* _current_deployment fails: nothing is written, a reservation stays.
ReadError(c) ==
    /\ "read_error" \in Env
    /\ call[c].pc \in {"check", "recheck"}
    /\ Goto(c, "failed")
    /\ UNCHANGED <<record, railwayVars, crashes>>

\* The mutation is POSTed.
Submit(c) ==
    /\ call[c].pc = "submit"
    /\ sent' = [sent EXCEPT ![c] = "pending"]
    /\ Goto(c, "wait")
    /\ UNCHANGED <<record, current, past, crashes>>

\* Mutant of Verdict: a server error is taken for a refusal.
VerdictHasty(c) ==
    IF sent[c] = "performed" THEN {"COMPLETED"}
    ELSE IF sent[c] = "dropped" \/ "no_answer" \in Env THEN {"REJECTED"} ELSE {}

\* What the response lets the bridge conclude.  A transport error, a 5xx or an
\* ambiguous body tells nothing, and may come before Railway has acted.
Verdict(c) ==
    (IF sent[c] = "performed" THEN {"COMPLETED"}
     ELSE IF sent[c] = "dropped" THEN {"REJECTED"} ELSE {})
    \cup (IF "no_answer" \in Env THEN {"SUBMISSION_UNVERIFIED"} ELSE {})

Respond(c) ==
    /\ call[c].pc = "wait"
    /\ \E v \in Verdict(c) : call' = [call EXCEPT ![c].pc = "mark", ![c].verdict = v]
    /\ UNCHANGED <<record, railwayVars, crashes>>

\* Mutant of Mark: the result names the idempotency key.
MarkKey(c) ==
    LET done == call[c].verdict = "COMPLETED" IN
    /\ call[c].pc = "mark"
    /\ record' = [record EXCEPT ![call[c].key].status = call[c].verdict,
                                ![call[c].key].result = IF done THEN call[c].key ELSE None]
    /\ call' = [call EXCEPT ![c].pc = IF done THEN "answered" ELSE "failed",
                            ![c].answer = IF done THEN c ELSE None]
    /\ UNCHANGED <<railwayVars, crashes>>

\* IdempotencyLedger.mark, then the answer.
Mark(c) ==
    LET done == call[c].verdict = "COMPLETED" IN
    /\ call[c].pc = "mark"
    /\ record' = [record EXCEPT ![call[c].key].status = call[c].verdict,
                                ![call[c].key].result = IF done THEN c ELSE None]
    /\ call' = [call EXCEPT ![c].pc = IF done THEN "answered" ELSE "failed",
                            ![c].answer = IF done THEN c ELSE None]
    /\ UNCHANGED <<railwayVars, crashes>>

\* The ledger cannot be written, or the response is no JSON: an exception
\* leaves the row as it is.
LedgerError(c) ==
    /\ "ledger_error" \in Env
    /\ call[c].pc \in {"reserve", "mark"}
    /\ Goto(c, "failed")
    /\ UNCHANGED <<record, railwayVars, crashes>>

InFlight(c) == call[c].pc \in {"check", "reserve", "recheck", "submit", "wait", "mark"}

\* The process dies.
Crash ==
    /\ crashes < MaxCrashes
    /\ crashes' = crashes + 1
    /\ call' = [c \in Call |-> IF InFlight(c) THEN [call[c] EXCEPT !.pc = "failed"] ELSE call[c]]
    /\ UNCHANGED <<record, railwayVars>>

-----------------------------------------------------------------------------
(* Railway *)

RailwayPerform(c) ==
    /\ sent[c] = "pending"
    /\ sent' = [sent EXCEPT ![c] = "performed"]
    /\ current' = c
    /\ past' = past \cup {c}
    /\ UNCHANGED <<call, record, crashes>>

RailwayDrop(c) ==
    /\ sent[c] = "pending"
    /\ sent' = [sent EXCEPT ![c] = "dropped"]
    /\ UNCHANGED <<call, record, current, past, crashes>>

OutsiderDeploys(o) ==
    /\ "outsider" \in Env
    /\ o \notin past
    /\ current' = o
    /\ past' = past \cup {o}
    /\ UNCHANGED <<call, record, sent, crashes>>

-----------------------------------------------------------------------------
Bridge(c) ==
    \/ Begin(c) \/ Check(c) \/ Reserve(c) \/ Recheck(c) \/ ReadError(c)
    \/ Submit(c) \/ Respond(c) \/ Mark(c) \/ LedgerError(c)

Next ==
    \/ \E c \in Call : Bridge(c) \/ RailwayPerform(c) \/ RailwayDrop(c)
    \/ \E o \in Outsider : OutsiderDeploys(o)
    \/ Crash

Spec == Init /\ [][Next]_vars

-----------------------------------------------------------------------------
(* Properties *)

Pc == {"check", "reserve", "recheck", "submit", "wait", "mark", "answered", "failed"}

CallState ==
    {[pc |-> "new", key |-> None, request |-> None, verdict |-> "RESERVED", answer |-> None]}
        \cup [pc : Pc, key : Key, request : Request, verdict : Status,
              answer : Deployment \cup {None}]

\* Every variable has its type.
BridgeTypeOK ==
    /\ call \in [Call -> CallState]
    /\ record \in [Key -> Record \cup {None}]
    /\ sent \in [Call -> {"no", "pending", "performed", "dropped"}]
    /\ current \in Deployment
    /\ past \subseteq Deployment
    /\ crashes \in Nat

\* A key's mutation is POSTed at most once, whatever callers, crashes and
\* restarts repeat it.
OneSubmission ==
    \A c, d \in Call :
        (sent[c] # "no" /\ sent[d] # "no" /\ call[c].key = call[d].key) => c = d

\* A recorded outcome is true: COMPLETED names a deployment of this request
\* that happened, and what is REJECTED never reaches the service.
RecordIsTrue ==
    \A k \in Key : record[k] # None =>
        /\ record[k].status = "COMPLETED" =>
              /\ record[k].result \in past \cap Call
              /\ call[record[k].result].request = record[k].request
        /\ record[k].status = "REJECTED" =>
              \A c \in Call : call[c].key = k => sent[c] \in {"no", "dropped"}

\* A caller is only answered, now or by a replay, with a deployment that its own
\* request and key have made.
AnswerIsMine ==
    \A c \in Call : call[c].pc = "answered" =>
        /\ call[c].answer \in past \cap Call
        /\ call[call[c].answer].request = call[c].request
        /\ call[call[c].answer].key = call[c].key

\* An outcome, once recorded, is final.
OutcomeIsFinal ==
    [][\A k \in Key : (record[k] # None /\ record[k].status # "RESERVED")
                         => record'[k] = record[k]]_vars

\* The bridge keeps the promise of OneMutation; no outcome is ever revised.
Outcome(s) == CASE s = "RESERVED"              -> "pending"
                [] s = "COMPLETED"             -> "done"
                [] s = "REJECTED"              -> "refused"
                [] s = "SUBMISSION_UNVERIFIED" -> "unknown"

Claimed(k) == IF record[k] = None THEN None
              ELSE [request |-> record[k].request, status |-> Outcome(record[k].status)]

Mutation == INSTANCE OneMutation WITH
    Moves     <- {"pending"} \X {"done", "refused", "unknown"},
    record    <- [k \in Key |-> Claimed(k)],
    performed <- {call[c].key : c \in {d \in Call : sent[d] = "performed"}}

MutatesOnce == Mutation!MSpec

-----------------------------------------------------------------------------
(* The inductive invariant behind the safety properties. *)

\* A call past its reservation owns the row, which is still RESERVED.
OwnerHolds ==
    \A c \in Call : call[c].pc \in {"recheck", "submit", "wait", "mark"} =>
        /\ Row(c) # None
        /\ Row(c).by = c
        /\ Row(c).status = "RESERVED"
        /\ Row(c).request = call[c].request

\* Only the call that reserved the key POSTs, and only once.
SenderOwns ==
    \A c \in Call :
        /\ sent[c] # "no" =>
              /\ call[c].pc \in {"wait", "mark", "answered", "failed"}
              /\ Row(c) # None
              /\ Row(c).by = c
              /\ Row(c).request = call[c].request
        /\ call[c].pc = "wait" => sent[c] # "no"
        /\ sent[c] = "performed" => c \in past

\* A call concludes only what it knows.
VerdictIsKnown ==
    \A c \in Call : call[c].pc = "mark" =>
        /\ call[c].verdict # "RESERVED"
        /\ call[c].verdict = "COMPLETED" => sent[c] = "performed"
        /\ call[c].verdict = "REJECTED" => sent[c] \in {"no", "dropped"}

RowIsKnown ==
    \A k \in Key : record[k] # None =>
        LET b == record[k].by IN
        /\ call[b].pc # "new"
        /\ call[b].key = k
        /\ record[k].status = "COMPLETED" => record[k].result = b /\ sent[b] = "performed"
        /\ record[k].status = "REJECTED" => sent[b] \in {"no", "dropped"}
        /\ record[k].request = call[b].request

AnswerIsKnown ==
    \A c \in Call : call[c].pc = "answered" =>
        /\ call[c].answer \in Call
        /\ sent[call[c].answer] = "performed"
        /\ call[call[c].answer].request = call[c].request
        /\ call[call[c].answer].key = call[c].key

BridgeInv ==
    /\ BridgeTypeOK
    /\ OwnerHolds
    /\ SenderOwns
    /\ VerdictIsKnown
    /\ RowIsKnown
    /\ AnswerIsKnown
=============================================================================
