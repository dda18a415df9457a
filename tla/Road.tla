---------------------------------- MODULE Road ----------------------------------
(***************************************************************************)
(* ROAD (road-mcp/src): the service that certifies a release from evidence *)
(* it gathers elsewhere: production's attestation and Context.dev status,  *)
(* the CI runs of GitHub, the Madhouse and Epistemic agents, and the gate  *)
(* review of production (app/road_gates.py).                               *)
(*                                                                         *)
(* It keeps nothing, and asks one after the other: between two answers     *)
(* production may be deployed again, and runs complete or are run again.   *)
(* Any of its requests may fail.  The roadmap file and the evidence of the *)
(* signed release are part of the build and always pass.                   *)
(***************************************************************************)
EXTENDS Naturals, Sequences, FiniteSets

CONSTANTS
    Inquiry,         \* calls of a tool
    Commit,          \* source commits
    Production,      \* deployments: [commit, ready, accepted, mounted, context, madhouse]
    CiRuns,          \* runs that may complete: [commit, canonical]
    MaxProductions, MaxRuns   \* bounds of the model

ASSUME RoadAssumption ==
    /\ "no commit" \notin Commit /\ MaxRuns \in Nat
    /\ Production \subseteq [commit : Commit \cup {"no commit"}, ready : BOOLEAN, accepted : BOOLEAN,
                             mounted : BOOLEAN, context : BOOLEAN, madhouse : {"unbounded", "blocks", "ready"}]
    /\ CiRuns \subseteq [commit : Commit, canonical : BOOLEAN]

VARIABLES
    serving,      \* the deployment that answers for production
    onVolume,     \* the evidence that the last successful preflight wrote
    ciRuns,       \* GitHub's completed runs: [commit, canonical, outcome]
    productions,
    inquiry       \* the calls: [step, tool, attested, run, records, witnesses]

roadVars == <<serving, onVolume, ciRuns, productions, inquiry>>

\* A preflight that failed names no commit; neither does one without a valid
\* SARA_SOURCE_COMMIT_SHA.
Unnamed == "no commit"
Unreached == [commit |-> Unnamed, ready |-> FALSE, accepted |-> FALSE, mounted |-> FALSE]

\* register_acceptance_routes: what /health/production-acceptance says.
Attested(d) ==
    IF d.ready
    THEN [commit |-> d.commit, ready |-> TRUE, accepted |-> d.accepted, mounted |-> d.mounted]
    ELSE Unreached

RoadInit ==
    /\ serving \in {d \in Production : d.ready}
    /\ onVolume = Attested(serving)
    /\ ciRuns = <<>>
    /\ productions = 0
    /\ inquiry = [q \in Inquiry |-> [step |-> "new"]]

-----------------------------------------------------------------------------
(* The world, between any two requests *)

\* A preflight that fails leaves the evidence on the volume as it was.
Redeploy(d) ==
    /\ productions < MaxProductions
    /\ productions' = productions + 1
    /\ serving' = d
    /\ onVolume' = IF d.ready THEN Attested(d) ELSE onVolume
    /\ UNCHANGED <<ciRuns, inquiry>>

\* outcome: "passed", "skipped" when the run succeeded without a required step,
\* or "failed".
CompleteRun(run, outcome) ==
    /\ Len(ciRuns) < MaxRuns
    /\ ciRuns' = Append(ciRuns, [commit |-> run.commit, canonical |-> run.canonical, outcome |-> outcome])
    /\ UNCHANGED <<serving, onVolume, productions, inquiry>>

RunAgain(i, outcome) ==
    /\ ciRuns' = [ciRuns EXCEPT ![i].outcome = outcome]
    /\ UNCHANGED <<serving, onVolume, productions, inquiry>>

-----------------------------------------------------------------------------
(* The tools *)

Passed(yes) == IF yes THEN "PASS" ELSE "UNVERIFIED"
Filed(id, status) == [x \in {id} |-> status]
\* The records with the new ones.
Filing(new, records) ==
    [id \in DOMAIN new \cup DOMAIN records |-> IF id \in DOMAIN new THEN new[id] ELSE records[id]]

\* The call goes on with what it heard, and from whom.
Hears(q, step, records, witnesses) ==
    /\ inquiry' = [inquiry EXCEPT ![q].step = step, ![q].records = Filing(records, @),
                                  ![q].witnesses = @ \cup witnesses]
    /\ UNCHANGED <<serving, onVolume, ciRuns, productions>>
Witness(source, commit) == {[source |-> source, commit |-> commit]}

\* createRoadServer: one server for each call.
Inquire(q, tool) ==
    /\ inquiry[q].step = "new"
    /\ inquiry' = [inquiry EXCEPT ![q] =
         [step |-> IF tool = "context" THEN "context" ELSE "attestation", tool |-> tool,
          attested |-> Unreached, run |-> 0, records |-> <<>>, witnesses |-> {}]]
    /\ UNCHANGED <<serving, onVolume, ciRuns, productions>>

\* loadProductionAttestationEvidence; get_production_acceptance and
\* get_live_runtime_status end here.
AskAttestation(q) ==
    /\ inquiry[q].step = "attestation"
    /\ \E a \in {Unreached, Attested(serving)} :
         inquiry' = [inquiry EXCEPT
           ![q].step = IF inquiry[q].tool = "acceptance" THEN "answered" ELSE "context",
           ![q].attested = a,
           ![q].records = Filed("attestation", Passed(a.accepted)),
           ![q].witnesses = Witness("attestation", a.commit)]
    /\ UNCHANGED <<serving, onVolume, ciRuns, productions>>

\* loadContextdevAuthorizationEvidence; get_contextdev_authorization ends here.
AskContext(q) ==
    /\ inquiry[q].step = "context"
    /\ \E verified \in {FALSE, serving.context} :
         Hears(q, IF inquiry[q].tool = "context" THEN "answered" ELSE "runs",
               Filed("context", Passed(verified)), {})

\* buildImplementationEvidence and buildSecurityAuditEvidence follow from the
\* test evidence without another request.
TestRecords(records, passed) ==
    [id \in {"test", "build", "security"} |->
       Passed(passed /\ (id = "security" => records["context"] = "PASS"))]

\* computeTestCiEvidence, the runs: exactly one successful run of the canonical
\* workflow for the attested commit.
CanonicalRuns(commit) ==
    {i \in DOMAIN ciRuns :
       ciRuns[i].commit = commit /\ ciRuns[i].canonical /\ ciRuns[i].outcome # "failed"}
AskRuns(q) ==
    /\ inquiry[q].step = "runs"
    /\ LET a == inquiry[q].attested
       IN \/ Hears(q, "madhouse", TestRecords(inquiry[q].records, FALSE), {})
          \/ /\ a.commit # Unnamed /\ a.ready
             /\ \E i \in CanonicalRuns(a.commit) :
                  /\ CanonicalRuns(a.commit) = {i}
                  /\ inquiry' = [inquiry EXCEPT ![q].step = "jobs", ![q].run = i]
             /\ UNCHANGED <<serving, onVolume, ciRuns, productions>>

\* computeTestCiEvidence, the jobs: the run may have been run again since.
AskJobs(q) ==
    /\ inquiry[q].step = "jobs"
    /\ LET run == ciRuns[inquiry[q].run]
       IN \E passed \in {FALSE, run.outcome = "passed"} :
            Hears(q, "madhouse", TestRecords(inquiry[q].records, passed),
                  IF passed THEN Witness("github", run.commit) ELSE {})

\* computeMadhouseAdversarialEvidence: the agent must be one that cannot pass
\* anything, and then review the attested commit.
Reviewable(a) == a.commit # Unnamed /\ a.accepted
AskMadhouse(q) ==
    /\ inquiry[q].step = "madhouse"
    /\ \/ Hears(q, "epistemic", Filed("madhouse", "UNVERIFIED"), {})
       \/ /\ Reviewable(inquiry[q].attested)
          /\ serving.madhouse # "unbounded"
          /\ Hears(q, "review", <<>>, {})

\* The review names the commit it was asked about, whatever is serving.
AskReview(q) ==
    /\ inquiry[q].step = "review"
    /\ \/ Hears(q, "epistemic", Filed("madhouse", "UNVERIFIED"), {})
       \/ /\ serving.madhouse = "blocks"
          /\ Hears(q, "epistemic", Filed("madhouse", "BLOCKED"), {})
       \/ /\ serving.madhouse = "ready"
          /\ Hears(q, "epistemic", Filed("madhouse", "PASS"), Witness("agent", serving.commit))

\* computeEpistemicEvidence: the claim comes with evidence that probePayload
\* says has passed, so that the agent supports it.
AskEpistemic(q) ==
    /\ inquiry[q].step = "epistemic"
    /\ \/ Hears(q, "gates", Filed("epistemic", "UNVERIFIED"), {})
       \/ /\ Reviewable(inquiry[q].attested)
          /\ Hears(q, "gates", Filed("epistemic", "PASS"), Witness("agent", serving.commit))

Reviewed == {"GOVERNANCE", "PRIVACY", "PERFORMANCE", "RECOVERY", "MULTI-CLOUD"}

\* Mutant of GateReview: the commit is not compared.
GateReviewOfAny(candidate, records) ==
    [g \in Reviewed |->
       /\ g = "GOVERNANCE" => /\ onVolume.accepted
                              /\ \A id \in {"context", "madhouse", "epistemic"} : records[id] = "PASS"
       /\ g = "PRIVACY" => records["context"] = "PASS"
       /\ g = "RECOVERY" => onVolume.accepted /\ onVolume.mounted]

\* RoadGateAgent: production compares the commit with the evidence on its
\* volume, and observes the records that ROAD sends.
GateReview(candidate, records) ==
    [g \in Reviewed |->
       /\ onVolume.commit = candidate
       /\ g = "GOVERNANCE" => /\ onVolume.accepted
                              /\ \A id \in {"context", "madhouse", "epistemic"} : records[id] = "PASS"
       /\ g = "PRIVACY" => records["context"] = "PASS"
       /\ g = "RECOVERY" => onVolume.accepted /\ onVolume.mounted]

\* buildRoadGateEvidence: a review in which one gate does not pass is BLOCKED,
\* and ROAD takes none of its gates.
AskGates(q) ==
    /\ inquiry[q].step = "gates"
    /\ LET a == inquiry[q].attested
           review == GateReview(a.commit, inquiry[q].records)
       IN \/ Hears(q, "answered", [g \in Reviewed |-> "UNVERIFIED"], {})
          \/ /\ Reviewable(a)
             /\ \A g \in Reviewed : review[g]
             /\ Hears(q, "answered", [g \in Reviewed |-> "PASS"], Witness("volume", onVolume.commit))

-----------------------------------------------------------------------------
(* What a call answers once it has its records *)

FinalGate == <<"BUILD", "TEST", "SECURITY", "ADVERSARIAL", "EPISTEMIC", "GOVERNANCE", "PRIVACY",
               "PERFORMANCE", "RECOVERY", "MULTI-CLOUD", "ACCEPTANCE", "SIGN", "RELEASE">>

\* certificationChecks; the evidence for SIGN and RELEASE always passes.
CertificationChecks(records) ==
    LET of == [BUILD |-> "build", TEST |-> "test", SECURITY |-> "security", ADVERSARIAL |-> "madhouse",
               EPISTEMIC |-> "epistemic", ACCEPTANCE |-> "attestation", SIGN |-> "attestation"]
    IN [i \in DOMAIN FinalGate |->
          IF FinalGate[i] \in Reviewed THEN records[FinalGate[i]]
          ELSE IF FinalGate[i] # "RELEASE" THEN records[of[FinalGate[i]]]
          ELSE IF records["attestation"] = "PASS" THEN "PASS" ELSE "BLOCKED"]

\* pushGate: the gates before it that a gate is prevented by.
PreventedByUpstream(checks, i) ==
    {FinalGate[j] : j \in {k \in 1..(i - 1) : checks[k] \in {"UNVERIFIED", "BLOCKED"}}}

\* The status of a set of checks or records: overallStatus, buildEvidenceRegistry.
StatusOf(statuses) ==
    IF "BLOCKED" \in statuses THEN "BLOCKED"
    ELSE IF statuses \subseteq {"PASS"} THEN "PASS" ELSE "PARTIAL"
StatusesIn(f) == {f[x] : x \in DOMAIN f}

\* The tools that build the registry: run_certification_check (as do
\* verify_release_candidate and generate_completion_manifest),
\* get_blocking_dependencies and get_gate_evidence.
Certifying == {"certify", "blocking", "evidence"}
ToolStatus(tool, records) ==
    LET checks == CertificationChecks(records)
    IN IF tool = "certify" THEN StatusOf(StatusesIn(checks))
       ELSE IF tool = "blocking"
       THEN IF StatusesIn(checks) \cap {"UNVERIFIED", "BLOCKED"} = {} THEN "PASS" ELSE "BLOCKED"
       ELSE StatusOf(StatusesIn(records))

-----------------------------------------------------------------------------
Outcome == {"passed", "skipped", "failed"}
RoadTool == {"acceptance", "context", "registry"}

RoadNext ==
    \/ \E d \in Production : Redeploy(d)
    \/ \E run \in CiRuns, outcome \in Outcome \ {"failed"} : CompleteRun(run, outcome)
    \/ \E i \in DOMAIN ciRuns, outcome \in Outcome : RunAgain(i, outcome)
    \/ \E q \in Inquiry :
         \/ \E tool \in RoadTool : Inquire(q, tool)
         \/ AskAttestation(q) \/ AskContext(q) \/ AskRuns(q) \/ AskJobs(q)
         \/ AskMadhouse(q) \/ AskReview(q) \/ AskEpistemic(q) \/ AskGates(q)

RoadSpec == RoadInit /\ [][RoadNext]_roadVars

-----------------------------------------------------------------------------
RoadTypeOK ==
    /\ serving \in Production
    /\ onVolume.commit \in Commit \cup {Unnamed}
    /\ \A q \in Inquiry : inquiry[q].step # "new" =>
         /\ inquiry[q].tool \in RoadTool
         /\ inquiry[q].run \in 0..MaxRuns
         /\ StatusesIn(inquiry[q].records) \subseteq {"PASS", "BLOCKED", "UNVERIFIED"}

Certificates == {q \in Inquiry : inquiry[q].step = "answered" /\ inquiry[q].tool = "registry"}
WitnessesBut(q, source) == {w \in inquiry[q].witnesses : w.source # source}

\* Whichever tool says PASS says it of one commit: production attested it, its
\* only canonical CI run passed, and the volume's evidence was of it when the
\* gates were reviewed, whatever was deployed or run again in the meantime.
PassIsOfOneCommit ==
    \A q \in Certificates, tool \in Certifying :
      ToolStatus(tool, inquiry[q].records) = "PASS" =>
        \E c \in Commit : WitnessesBut(q, "agent") =
             Witness("attestation", c) \cup Witness("github", c) \cup Witness("volume", c)

\* The tools agree: a certificate passes exactly if it has no blocker, if its
\* registry passes, and if nothing upstream prevents its last gate.
ToolsAgree ==
    \A q \in Certificates :
      LET records == inquiry[q].records
          checks == CertificationChecks(records)
          prevented == PreventedByUpstream(checks, Len(FinalGate))
      IN /\ ToolStatus("blocking", records) = "PASS" <=> ToolStatus("certify", records) = "PASS"
         /\ ToolStatus("evidence", records) = "PASS" <=> ToolStatus("certify", records) = "PASS"
         /\ ToolStatus("certify", records) = "PASS" <=> prevented = {}

RoadCertifies == PassIsOfOneCommit /\ ToolsAgree
=================================================================================
