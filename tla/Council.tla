-------------------------------- MODULE Council --------------------------------
(***************************************************************************)
(* SaraOmega.solve (app/orchestrator.py): one problem goes through the     *)
(* OMEGA council.  Governance may block it, specialists report, the judge  *)
(* synthesizes a candidate, the truth gate may have it corrected once, and *)
(* the verdict is signed and recorded.                                     *)
(*                                                                         *)
(* Several solves run in one event loop; a step is the code between two    *)
(* awaits.  A text is what the gates read off it: a candidate is universal *)
(* when it uses a universalizing marker, rootCause when it states that     *)
(* hardware has failed, gated when the IoT truth gate wrote it.            *)
(* Confidence is counted in hundredths.                                    *)
(***************************************************************************)
EXTENDS Integers, FiniteSets, FiniteSetsExt

CONSTANTS
    Solve,          \* calls of solve
    Problems,       \* [tags, action, level, needs, unverified]
    Rules,          \* policies.json: [tags, effect]
    Configured,     \* SaraOmega.providers
    Reports,        \* what a configured specialist returns: [success, claims, calculations]
    Candidates,     \* what the judge answers: [confidence, universal, rootCause, gated]
    CouncilEnv      \* what may happen: subset of {"judge", "error", "crash"}

NoNumber == -1     \* a confidence of which float() raises
NaN == -2          \* one that it takes, and that compares with nothing
CouncilText == [confidence : -2..100, universal : BOOLEAN, rootCause : BOOLEAN, gated : BOOLEAN]

ASSUME CouncilAssumption ==
    /\ Candidates \subseteq {c \in CouncilText : ~c.gated}
    /\ \A r \in Rules : r.effect \in {"BLOCK", "ESCALATE", "ALLOW"}

VARIABLES
    signer,         \* is a signer configured?
    solves,         \* the calls of solve: [step, problem, disposition, reports (pairs of a
                    \*   specialist and its report), judged, allowed, candidate, verdict,
                    \*   decision (was a decision id answered?)]
    recorded        \* decision ids in the signed ledger

councilVars == <<signer, solves, recorded>>

Plain(n) == [confidence |-> n, universal |-> FALSE, rootCause |-> FALSE, gated |-> FALSE]
NoText == Plain(NoNumber)
Unreported == [success |-> FALSE, claims |-> {}, calculations |-> {}]
AllSpecialists == UNION {p.needs : p \in Problems}
AllReports == (UNION {Reports[n] : n \in Configured}) \cup {Unreported}
NoProblem == [tags |-> {}, action |-> FALSE, level |-> 0, needs |-> {}, unverified |-> FALSE]
NewCall ==
    [step |-> "new", problem |-> NoProblem, disposition |-> "ALLOW", reports |-> {}, judged |-> 0,
     allowed |-> TRUE, candidate |-> NoText, verdict |-> NoText, decision |-> FALSE]
FailedCall == [NewCall EXCEPT !.step = "failed"]

CouncilInit ==
    /\ signer \in BOOLEAN
    /\ solves = [s \in Solve |-> NewCall]
    /\ recorded = {}

Goes(s, call) == solves' = [solves EXCEPT ![s] = call]

-----------------------------------------------------------------------------
\* GovernanceEngine.evaluate: the strictest effect of the rules that match.
Evaluate(p) ==
    LET effects == {r.effect : r \in {q \in Rules : q.tags \cap p.tags # {}}}
    IN IF "BLOCK" \in effects THEN "BLOCK"
       ELSE IF "ESCALATE" \in effects THEN "ESCALATE" ELSE "ALLOW"

\* AuthorityEngine.authorize, of the preliminary disposition.
Authorization(p, disposition) ==
    IF disposition # "BLOCK" /\ p.action /\ p.level < 3 THEN "ESCALATE" ELSE disposition

\* EvidenceVerifier: a ceiling for each claim that is not corroborated, and one
\* for a specialist whose evidence is missing.
Ceilings(reports) ==
    (UNION {{IF c.sources = 1 THEN 45 ELSE 25 : c \in {d \in r.claims : d.sources < 2}} :
            r \in {q \in reports : q.success}})
    \cup (IF \E r \in reports : ~r.success THEN {50} ELSE {})

\* HighLevelTruthGate.evaluate_claim, of the claim gate_analysis makes of a
\* calculation: may its conclusion be worded as a law?
Universality(c) ==
    IF \/ ~c.sourced
       \/ ~c.current
       \/ c.scope = "narrow" /\ ~c.dependencies
    THEN "INSUFFICIENT_EVIDENCE"
    ELSE IF c.scope = "law" THEN "UNIVERSAL_SUPPORTED" ELSE "SYSTEM_DEPENDENT"

\* evaluate_final_synthesis.
GateAllows(candidate, calculations) ==
    ~(candidate.universal /\ \E c \in calculations : Universality(c) # "UNIVERSAL_SUPPORTED")

\* Mutant of IoTGate: the answer is replaced, its confidence kept.
IoTGateUncapped(p, candidate) ==
    IF p.unverified /\ candidate.rootCause
    THEN [Plain(candidate.confidence) EXCEPT !.gated = TRUE] ELSE candidate

\* enforce_iot_truth: capped at 0.2, which min(nan, 0.2) is not; where float()
\* raises, synthesize has no answer.
IoTGate(p, candidate) ==
    IF ~(p.unverified /\ candidate.rootCause) THEN candidate
    ELSE IF candidate.confidence = NoNumber THEN NoText
    ELSE [Plain(IF candidate.confidence = NaN THEN NaN ELSE Min({candidate.confidence, 20}))
            EXCEPT !.gated = TRUE]

\* OpenAIJudge.synthesize: the answers it may return, NoText when it has none.
Synthesized(p) ==
    {IoTGate(p, c) : c \in Candidates} \cup (IF "judge" \in CouncilEnv THEN {NoText} ELSE {})

ReportsOf(s) == {report[2] : report \in solves[s].reports}
Reporters(s) == {report[1] : report \in solves[s].reports}
Calculations(s) == UNION {r.calculations : r \in ReportsOf(s)}

-----------------------------------------------------------------------------
\* OBSERVE, MAP and EVALUATE; a problem that is blocked reaches nobody.
Consider(s, p) ==
    /\ solves[s].step = "new"
    /\ Goes(s, [NewCall EXCEPT
            !.step = IF Evaluate(p) = "BLOCK" THEN "govern" ELSE "generate",
            !.problem = p, !.disposition = Evaluate(p), !.candidate = Plain(100)])
    /\ UNCHANGED <<signer, recorded>>

\* GENERATE: the specialists run together.  One that is not configured or
\* raises leaves an evidence gap.
Report(s, n) ==
    /\ solves[s].step = "generate"
    /\ n \in solves[s].problem.needs \ Reporters(s)
    /\ \E r \in (IF n \in Configured THEN Reports[n] ELSE {}) \cup {Unreported} :
         Goes(s, [solves[s] EXCEPT !.reports = @ \cup {<<n, r>>}])
    /\ UNCHANGED <<signer, recorded>>

\* SYNTHESIZE: the judge answers once every specialist has reported.
Synthesize(s) ==
    /\ solves[s].step = "generate"
    /\ Reporters(s) = solves[s].problem.needs
    /\ \E c \in Synthesized(solves[s].problem) :
         LET allowed == c = NoText \/ GateAllows(c, Calculations(s))
         IN Goes(s, [solves[s] EXCEPT !.step = IF allowed THEN "govern" ELSE "correct",
                                      !.judged = 1, !.candidate = c, !.allowed = allowed])
    /\ UNCHANGED <<signer, recorded>>

FailClosed == Plain(20)

\* Mutant of Correction: the correction is believed.
CorrectionBelieved(s, c) ==
    [solves[s] EXCEPT !.step = "govern", !.judged = 2, !.candidate = c, !.allowed = TRUE]

\* A rejected candidate is regenerated once and gated again.
Correction(s, c) ==
    LET good == c # NoText /\ GateAllows(c, Calculations(s))
    IN [solves[s] EXCEPT !.step = "govern", !.judged = 2, !.allowed = good,
                         !.candidate = IF good THEN c ELSE FailClosed]

Correct(s) ==
    /\ solves[s].step = "correct"
    /\ \E c \in Synthesized(solves[s].problem) : Goes(s, Correction(s, c))
    /\ UNCHANGED <<signer, recorded>>

\* max(0.0, min(1.0, confidence)), which is 1.0 of NaN.
Clamped(confidence) == IF confidence = NaN THEN 100 ELSE confidence

\* The verdict of a candidate, capped, or the fallback without one.
Verdict(s) ==
    LET c == solves[s].candidate
        usable == \E r \in ReportsOf(s) : r.success
    IN IF c = NoText
       THEN [NoText EXCEPT !.confidence = IF usable THEN 20 ELSE 5]
       ELSE [c EXCEPT !.confidence =
               Min({Clamped(@)} \cup Ceilings(ReportsOf(s)) \cup IF solves[s].allowed THEN {} ELSE {20})]

\* GOVERN and VERDICT.  float() raises on a confidence that is no number: the
\* request fails without a verdict.
Govern(s) ==
    /\ solves[s].step = "govern"
    /\ IF solves[s].candidate # NoText /\ solves[s].candidate.confidence = NoNumber
       THEN Goes(s, FailedCall)
       ELSE Goes(s, [solves[s] EXCEPT
              !.step = "record", !.verdict = Verdict(s),
              !.disposition = Authorization(solves[s].problem, @)])
    /\ UNCHANGED <<signer, recorded>>

\* RECORD: no signer, a failed append (which may have been committed before its
\* read-back failed), or a durable verdict.
Record(s) ==
    /\ solves[s].step = "record"
    /\ \/ ~signer /\ Goes(s, [solves[s] EXCEPT !.step = "answered"]) /\ UNCHANGED recorded
       \/ /\ signer
          /\ \/ /\ recorded' = recorded \cup {s}
                /\ Goes(s, [solves[s] EXCEPT !.step = "answered", !.decision = TRUE])
             \/ /\ "error" \in CouncilEnv
                /\ recorded' \in {recorded, recorded \cup {s}}
                /\ Goes(s, [solves[s] EXCEPT !.step = "answered"])
    /\ UNCHANGED signer

\* The process ends with its calls.
CouncilCrash ==
    /\ "crash" \in CouncilEnv
    /\ solves' = [s \in Solve |-> IF solves[s].step = "new" THEN solves[s] ELSE FailedCall]
    /\ UNCHANGED <<signer, recorded>>

CouncilNext ==
    \/ \E s \in Solve :
         \/ \E p \in Problems : Consider(s, p)
         \/ \E n \in AllSpecialists : Report(s, n)
         \/ Synthesize(s) \/ Correct(s) \/ Govern(s) \/ Record(s)
    \/ CouncilCrash

CouncilSpec == CouncilInit /\ [][CouncilNext]_councilVars

-----------------------------------------------------------------------------
CouncilTypeOK ==
    /\ recorded \subseteq Solve
    /\ \A s \in Solve : solves[s].step \in {"new", "generate", "correct", "govern", "record", "answered", "failed"}
    /\ \A s \in Solve : solves[s].step \in {"record", "answered"} => solves[s].verdict.confidence \in 0..100

VerdictIsBounded(s) ==
    LET p == solves[s].problem
        v == solves[s].verdict
    IN /\ \A r \in ReportsOf(s) : \A c \in r.claims :
            r.success /\ c.sources < 2 => v.confidence <= (IF c.sources = 1 THEN 45 ELSE 25)
       /\ (\E r \in ReportsOf(s) : ~r.success) => v.confidence <= 50
       /\ ~solves[s].allowed => v.confidence <= 20
       /\ v.gated /\ solves[s].candidate.confidence # NaN => v.confidence <= 20
       /\ solves[s].candidate = NoText =>
            v.confidence <= (IF \E r \in ReportsOf(s) : r.success THEN 20 ELSE 5)
       /\ v.universal => \A c \in Calculations(s) : c.scope = "law" /\ c.sourced /\ c.current
       /\ ~(v.rootCause /\ p.unverified)
       /\ solves[s].judged <= 2
       /\ solves[s].decision => s \in recorded
       /\ solves[s].disposition = "BLOCK" => solves[s].reports = {} /\ solves[s].judged = 0
       /\ p.action /\ p.level < 3 => solves[s].disposition # "ALLOW"

\* A verdict says no more than the council may: it stays under the ceiling of
\* each piece of evidence, under 0.2 when the truth gate rejected it, when the
\* IoT gate rewrote it (unless the judge's confidence was NaN, of which the cap
\* is lost) and when there was no judge, 0.05 with no specialist either; it
\* generalizes no claim that depends on its system, names no root cause that
\* telemetry alone suggests, took at most one correction, and carries a decision
\* id only when the ledger holds it.  What governance blocks reaches neither a
\* specialist nor the judge, and an action above the asker's authority is never
\* allowed.
VerdictsAreBounded ==
    \A s \in Solve : solves[s].step \in {"record", "answered"} => VerdictIsBounded(s)

-----------------------------------------------------------------------------
(* The inductive invariant. *)

CouncilCalls ==
    [step : {"new", "generate", "correct", "govern", "record", "answered", "failed"},
     problem : Problems \cup {NoProblem}, disposition : {"BLOCK", "ESCALATE", "ALLOW"},
     reports : SUBSET (AllSpecialists \X AllReports), judged : 0..2, allowed : BOOLEAN,
     candidate : CouncilText, verdict : CouncilText, decision : BOOLEAN]

\* What is judged was let through, and a candidate has passed the gates before
\* governance sees it.
CandidatePassed(s) ==
    /\ solves[s].step \in {"generate", "correct"} => solves[s].disposition # "BLOCK"
    /\ solves[s].step = "govern" =>
         /\ solves[s].disposition = "BLOCK" => solves[s].reports = {} /\ solves[s].judged = 0
         /\ GateAllows(solves[s].candidate, Calculations(s))
         /\ ~(solves[s].candidate.rootCause /\ solves[s].problem.unverified)
         /\ solves[s].candidate.gated => solves[s].candidate.confidence <= 20
    /\ solves[s].step \notin {"record", "answered"} => ~solves[s].decision

CouncilInv ==
    /\ recorded \subseteq Solve
    /\ solves \in [Solve -> CouncilCalls]
    /\ \A s \in Solve : CandidatePassed(s)
    /\ VerdictsAreBounded /\ CouncilTypeOK
=============================================================================
