------------------------------ MODULE Enforcement ------------------------------
(***************************************************************************)
(* Execution enforcement (sara_unified/governance/enforcement.py), the     *)
(* governance kernel that decides (governance/unified_kernel.py), the      *)
(* audit ledger it commits to (evidence/audit.py) and the routes that pass *)
(* through it (sara_unified/app.py).                                       *)
(*                                                                         *)
(* FastAPI runs the routes in threads and the ledger has no lock: append   *)
(* reads the records, reads the text again, truncates the file and writes  *)
(* it, and other threads act between these steps.  An event hash is the    *)
(* number of the append.  Amounts are given by magnitude: magnitude d      *)
(* stands for 10^d - 1 records or dollars.                                 *)
(***************************************************************************)
EXTENDS Integers, Sequences, FiniteSets, FiniteSetsExt

CONSTANTS
    Caller,          \* threads that serve one request each
    Asked,           \* the requests that are explored
    EnforcementEnv   \* what may happen: subset of {"crash", "error"}

Routes == {"twin", "incident", "recovery", "voice"}

\* The InsurancePolicy and InsuranceRequirementSet fields that validate reads:
\* active and insured are the outcome of its date and name comparisons.
Insurance == {"active", "insured", "verified", "jurisdictions", "coverages"}

ASSUME EnforcementAssumption ==
    \A r \in Asked :
        /\ r.op \in Routes \cup {"direct"}
        /\ r.op \in Routes => r.reversible /\ r.production /\ r.permitted /\ r.provenance
        /\ r.op \in Routes => r.requirement = {} /\ (r.highImpact <=> r.op = "recovery")
        /\ r.records \in Nat /\ r.value \in Nat /\ r.anomaly \in 0..10
        /\ \A p \in r.policy : DOMAIN p = Insurance

VARIABLES
    signingKey,   \* SARA_GOVERNANCE_SIGNING_KEY
    mandatory,    \* governance_enforcement_required
    ledger,       \* the audit file: its lines, and whether a last one is torn
    caller,       \* the threads
    appended,     \* number of appends that made an event
    committed,    \* callers whose authorization was written
    executed,     \* side effects: [by, request]
    disturbed     \* appends have overlapped, failed or been cut off

enforcementVars == <<signingKey, mandatory, ledger, caller, appended, committed, executed, disturbed>>

Waiting == [phase |-> "new", purpose |-> "", request |-> {}, previous |-> 0, length |-> 0, text |-> <<>>]

EnforcementInit ==
    /\ signingKey \in {"", "short", "good"}
    /\ mandatory \in BOOLEAN
    /\ ledger = [lines |-> <<>>, torn |-> FALSE]
    /\ caller = [c \in Caller |-> Waiting]
    /\ appended = 0
    /\ committed = {}
    /\ executed = {}
    /\ disturbed = FALSE

\* ProductionEnforcementBoundary.__init__: a kernel needs a key of 16 bytes;
\* without any key an ephemeral one serves where enforcement is not required.
HasKernel == signingKey = "good" \/ (signingKey = "" /\ ~mandatory)

-----------------------------------------------------------------------------
\* InsuranceCoverageValidator.validate for a requirement set.  Of several
\* coverages of one name the largest counts.
Covers(policy, need) ==
    \E c \in policy.coverages :
        /\ c.name = need.name
        /\ \A d \in policy.coverages : d.name = c.name => d.limit <= c.limit
        /\ c.limit >= need.minimum
        /\ c.exclusions \cap need.forbidden = {}
        /\ need.endorsements \subseteq c.endorsements

Insured(r) ==
    \A required \in r.requirement :
        \E p \in r.policy :
            /\ p.active /\ p.insured
            /\ required.jurisdictions # {} => r.jurisdiction \in required.jurisdictions
            /\ p.jurisdictions # {} => r.jurisdiction \in p.jurisdictions
            /\ required.verification => p.verified
            /\ \A need \in required.coverages : Covers(p, need)

If(holds, weight) == IF holds THEN weight ELSE 0

\* CounterfactualRiskEngine.evaluate, in ten-thousandths.
Risk(r) ==
    Min({10000,
          If(r.production, 1000) + If(~r.reversible, 1800) + If(r.sensitive, 1200)
        + If(r.highImpact, 1800) + If(r.network, 800) + If(r.autonomous, 1000)
        + Min({1600, (r.records * 10000) \div 30}) + Min({1800, (r.value * 10000) \div 35})
        + 200 * r.anomaly})

\* DEFAULT_PRODUCTION_POLICY.
MaxRisk == 6000
QuarantineRisk == 9000
NeedsHuman(r) ==
    \/ ~r.reversible
    \/ r.highImpact
    \/ r.value >= 5
    \/ r.records >= 4
    \/ Risk(r) > MaxRisk /\ Risk(r) < QuarantineRisk

\* evaluate: the hard gates, and _aggregate_decision over all of them.
HardGates(r) ==
    /\ r.operator     \* identity and authority come with the role
    /\ r.permitted    \* action, tool, tags and state transition
    /\ r.provenance
    /\ Insured(r)

InReview(r) == (NeedsHuman(r) /\ ~r.approved) \/ Risk(r) > MaxRisk

Decision(r) ==
    IF ~HardGates(r) THEN "DENY"
    ELSE IF Risk(r) >= QuarantineRisk THEN "QUARANTINE"
    ELSE IF InReview(r) THEN "ESCALATE"
    ELSE "ALLOW"

-----------------------------------------------------------------------------
Appending == {"read", "reread", "truncated"}
AtPhase(c, p) == caller[c].phase = p
RequestOf(c) == CHOOSE r \in caller[c].request : TRUE

ToPhase(c, p) == caller' = [caller EXCEPT ![c].phase = p]
ToAppend(c, purpose) == caller' = [caller EXCEPT ![c].phase = "append", ![c].purpose = purpose]

\* A route checks the role, and twin and voice what they are given (verified
\* observation, voice enabled, text not empty and not too long), before they ask
\* the boundary.  For recovery, valid says that the action is registered.
Refused(r) == r.op \in Routes /\ ~(r.operator /\ (r.valid \/ r.op = "recovery"))

Arrive(c) ==
    /\ AtPhase(c, "new")
    /\ \E r \in Asked :
         caller' = [caller EXCEPT ![c].request = {r},
             ![c].phase = IF Refused(r) THEN "refused" ELSE "asked"]
    /\ UNCHANGED <<signingKey, mandatory, ledger, appended, committed, executed, disturbed>>

\* AuditLedger.verify.
Verifies ==
    /\ ~ledger.torn
    /\ \A i \in 1..Len(ledger.lines) :
         /\ ledger.lines[i].sequence = i
         /\ ledger.lines[i].previous = IF i = 1 THEN 0 ELSE ledger.lines[i - 1].hash

\* authorize without a kernel or with a chain that does not verify records a
\* diagnostic and answers 503; otherwise the decision goes to the ledger.
Authorize(c) ==
    /\ AtPhase(c, "asked")
    /\ ToAppend(c, IF HasKernel /\ Verifies THEN "authorization" ELSE "closed")
    /\ UNCHANGED <<signingKey, mandatory, ledger, appended, committed, executed, disturbed>>

\* What becomes of a request when the append for a purpose raises.
AppendRaised(purpose) == IF purpose = "report" THEN "failed" ELSE "refused"

\* append reads the records; a torn line makes it raise.
ReadRecords(c) ==
    /\ AtPhase(c, "append")
    /\ IF ledger.torn THEN ToPhase(c, AppendRaised(caller[c].purpose))
       ELSE caller' = [caller EXCEPT ![c].phase = "read", ![c].length = Len(ledger.lines),
              ![c].previous = IF ledger.lines = <<>> THEN 0 ELSE ledger.lines[Len(ledger.lines)].hash]
    /\ disturbed' = (disturbed \/ \E d \in Caller : caller[d].phase \in Appending)
    /\ UNCHANGED <<signingKey, mandatory, ledger, appended, committed, executed>>

ReadText(c) ==
    /\ AtPhase(c, "read")
    /\ caller' = [caller EXCEPT ![c].phase = "reread", ![c].text = ledger.lines]
    /\ UNCHANGED <<signingKey, mandatory, ledger, appended, committed, executed, disturbed>>

Truncate(c) ==
    /\ AtPhase(c, "reread")
    /\ ledger' = [lines |-> <<>>, torn |-> FALSE]
    /\ ToPhase(c, "truncated")
    /\ UNCHANGED <<signingKey, mandatory, appended, committed, executed, disturbed>>

\* Mutant of Appended: the line is not linked to the one before it.
AppendedUnlinked(c) ==
    Append(caller[c].text,
           [sequence |-> caller[c].length + 1, previous |-> 0, hash |-> appended + 1,
            about |-> c, kind |-> caller[c].purpose])

Appended(c) ==
    Append(caller[c].text,
           [sequence |-> caller[c].length + 1, previous |-> caller[c].previous, hash |-> appended + 1,
            about |-> c, kind |-> caller[c].purpose])

\* Where an append returns to.
AppendReturned(c) ==
    IF caller[c].purpose = "authorization" /\ Decision(RequestOf(c)) = "ALLOW" THEN "authorized"
    ELSE IF caller[c].purpose = "report" THEN "done"
    ELSE "refused"

\* The text and the new line are written from the start of the file.  When
\* another thread has written meanwhile, the end of its text may stay.
WriteText(c) ==
    /\ AtPhase(c, "truncated")
    /\ \E rest \in IF ledger.lines = <<>> THEN {FALSE} ELSE BOOLEAN :
         ledger' = [lines |-> Appended(c), torn |-> rest]
    /\ appended' = appended + 1
    /\ committed' = IF AppendReturned(c) = "authorized" THEN committed \cup {c} ELSE committed
    /\ caller' = [caller EXCEPT ![c].phase = AppendReturned(c), ![c].text = <<>>]
    /\ UNCHANGED <<signingKey, mandatory, executed, disturbed>>

\* The disk refuses the write: the file stays truncated.
WriteRaises(c) ==
    /\ "error" \in EnforcementEnv
    /\ AtPhase(c, "truncated")
    /\ caller' = [caller EXCEPT ![c].phase = AppendRaised(caller[c].purpose), ![c].text = <<>>]
    /\ disturbed' = TRUE
    /\ UNCHANGED <<signingKey, mandatory, ledger, appended, committed, executed>>

-----------------------------------------------------------------------------
\* The side effect: twin.observe, incidents.create, recovery.execute, the voice
\* service.  RecoveryRegistry runs registered actions, approved if they ask for
\* it; what it refuses is reported all the same.
Execute(c) ==
    LET r == RequestOf(c)
    IN /\ AtPhase(c, "authorized")
       /\ executed' = IF r.op = "recovery" /\ ~(r.valid /\ r.approved) THEN executed
                      ELSE executed \cup {[by |-> c, request |-> r]}
       /\ IF r.op = "direct" THEN ToPhase(c, "done") ELSE ToAppend(c, "report")
       /\ UNCHANGED <<signingKey, mandatory, ledger, appended, committed, disturbed>>

\* The voice service fails (502): nothing is reported.
SynthesisFails(c) ==
    /\ AtPhase(c, "authorized")
    /\ RequestOf(c).op = "voice"
    /\ ToPhase(c, "failed")
    /\ UNCHANGED <<signingKey, mandatory, ledger, appended, committed, executed, disturbed>>

\* The process dies.  A write that was under way has left nothing, a part that
\* does not parse, or all of its text but not of the last line.
EnforcementCrash ==
    /\ "crash" \in EnforcementEnv
    /\ \E c \in Caller : caller[c].phase \in Appending
    /\ \/ UNCHANGED ledger
       \/ \E c \in Caller, torn \in BOOLEAN :
            AtPhase(c, "truncated") /\ ledger' = [lines |-> caller[c].text, torn |-> torn]
    /\ caller' = [c \in Caller |->
         IF caller[c].phase \in {"new", "refused", "failed", "done"} THEN caller[c]
         ELSE [Waiting EXCEPT !.phase = "failed", !.request = caller[c].request]]
    /\ disturbed' = TRUE
    /\ UNCHANGED <<signingKey, mandatory, appended, committed, executed>>

EnforcementNext ==
    \/ \E c \in Caller :
         \/ Arrive(c) \/ Authorize(c)
         \/ ReadRecords(c) \/ ReadText(c) \/ Truncate(c) \/ WriteText(c) \/ WriteRaises(c)
         \/ Execute(c) \/ SynthesisFails(c)
    \/ EnforcementCrash

EnforcementSpec == EnforcementInit /\ [][EnforcementNext]_enforcementVars

-----------------------------------------------------------------------------
EnforcementTypeOK ==
    /\ \A c \in Caller :
         /\ caller[c].phase \in Appending \cup
              {"new", "asked", "append", "authorized", "refused", "failed", "done"}
         /\ caller[c].request \subseteq Asked /\ Cardinality(caller[c].request) <= 1
    /\ committed \subseteq Caller
    /\ Len(ledger.lines) <= appended

\* Nothing consequential is done without its evidence: the decision was written
\* before; the actor, the policy, the provenance and the insurance that is asked
\* for held; what is irreversible, of high impact, large or risky had a human's
\* approval.  As long as no two appends overlap and none is cut off, the chain
\* verifies and still holds the evidence of everything that was done.
EvidenceStands ==
    /\ \A e \in executed :
         LET r == e.request
         IN /\ e.by \in committed
            /\ signingKey # "short" /\ (mandatory => signingKey = "good")
            /\ r.operator /\ r.permitted /\ r.provenance
            /\ r.requirement # {} => \E p \in r.policy : p.active /\ p.insured
            /\ (~r.reversible \/ r.highImpact \/ r.records > 3 \/ r.value > 4) => r.approved
            /\ Risk(r) <= MaxRisk
    /\ ~disturbed =>
         /\ ~(\E c \in Caller : AtPhase(c, "truncated")) => Verifies
         /\ \A e \in executed :
              \E text \in {ledger.lines} \cup {caller[c].text : c \in Caller} :
                  \E i \in DOMAIN text : text[i].about = e.by /\ text[i].kind = "authorization"

-----------------------------------------------------------------------------
(* The invariant that it rests on. *)

Purposes == {"authorization", "closed", "report"}
Line == [sequence : Nat, previous : Nat, hash : Nat, about : Caller, kind : Purposes]
CallerRow ==
    [phase : Appending \cup {"new", "asked", "append", "authorized", "refused", "failed", "done"},
     purpose : Purposes \cup {""}, request : SUBSET Asked, previous : Nat, length : Nat,
     text : Seq(Line)]

EnforcementTyped ==
    /\ disturbed \in BOOLEAN
    /\ appended \in Nat
    /\ committed \subseteq Caller
    /\ ledger \in [lines : Seq(Line), torn : BOOLEAN]
    /\ caller \in [Caller -> CallerRow]

\* A caller asks for one request; what is being authorized or was has a kernel
\* behind it, and what was is an allowed request on record.
CallerStands(c) ==
    /\ caller[c].phase # "new" => \E r \in Asked : caller[c].request = {r}
    /\ caller[c].phase \in Appending \cup {"append"} =>
         /\ caller[c].purpose \in Purposes
         /\ caller[c].purpose = "authorization" => HasKernel
    /\ AtPhase(c, "authorized") => HasKernel /\ Decision(RequestOf(c)) = "ALLOW" /\ c \in committed

Chained(lines) ==
    \A i \in 1..Len(lines) :
        /\ lines[i].sequence = i
        /\ lines[i].previous = IF i = 1 THEN 0 ELSE lines[i - 1].hash

\* The whole file as the caller that appends has read it; from truncation on
\* it is in the caller's text alone.
Whole(c) == IF AtPhase(c, "truncated") THEN caller[c].text ELSE ledger.lines

AppendsAlone ==
    /\ \A c, d \in Caller : caller[c].phase \in Appending /\ caller[d].phase \in Appending => c = d
    /\ ~ledger.torn
    /\ \A c \in Caller : caller[c].phase \in Appending =>
         /\ Chained(Whole(c))
         /\ caller[c].length = Len(Whole(c))
         /\ caller[c].previous = IF Whole(c) = <<>> THEN 0 ELSE Whole(c)[Len(Whole(c))].hash
         /\ AtPhase(c, "reread") => caller[c].text = ledger.lines
         /\ AtPhase(c, "truncated") => ledger.lines = <<>>
    /\ (\A c \in Caller : ~AtPhase(c, "truncated")) => Chained(ledger.lines)

\* The evidence of a caller is in the file, or in the text that replaces it.
Attests(lines, c) == \E i \in DOMAIN lines : lines[i].about = c /\ lines[i].kind = "authorization"
Evident(c) ==
    IF \E d \in Caller : AtPhase(d, "truncated")
    THEN \E d \in Caller : AtPhase(d, "truncated") /\ Attests(caller[d].text, c)
    ELSE Attests(ledger.lines, c)

\* What was done had a kernel that allowed it.
EffectsAreAllowed ==
    \A e \in executed :
        e.by \in committed /\ e.request \in Asked /\ HasKernel /\ Decision(e.request) = "ALLOW"

EnforcementInv ==
    /\ EnforcementTyped
    /\ \A c \in Caller : CallerStands(c)
    /\ EffectsAreAllowed
    /\ ~disturbed => AppendsAlone /\ \A c \in committed : Evident(c)
=============================================================================
