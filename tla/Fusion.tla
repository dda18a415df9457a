--------------------------------- MODULE Fusion ---------------------------------
(***************************************************************************)
(* The engines that may only block: SaraFusionEngine and                   *)
(* CausalAuthorityEngine (app/unified_fusion.py), the Context.dev gate     *)
(* (context_dev_resolver.py), MadhouseAgent (app/madhouse.py) and          *)
(* EpistemicAgent (app/epistemic.py).                                      *)
(*                                                                         *)
(* Each answers a request from what it is given; what lasts is kept by the *)
(* caller: the graph of causal nodes, the reviewed licence record, and the *)
(* failures of earlier candidates.                                         *)
(***************************************************************************)
EXTENDS Integers, Sequences, FiniteSets

CONSTANTS
    FusionRequests,  \* [identified, action, scopes, feature, broken]
    CausalNodes,     \* node -> the nodes it depends on
    Alarms,          \* sets of nodes that turn out to be compromised
    AuthorizationRecords, \* authorization records: [defects, scopes]
    ContextRequests, \* [monetized, automated, rights, needsZdr, zdr, scopes]
    CommercialScopes, \* REQUIRED_COMMERCIAL_SCOPES
    MadhouseFindings, \* what a candidate can be found: [mark, family, severity]
    Threshold,       \* recurring_failure_threshold
    MaxCandidates,   \* bound of the model: candidates of one task
    CandidateFindings, \* sets of findings of a candidate
    ClaimSets,       \* sets of claims: [evidence: ids, production, everything]
    AgentEvidence,   \* id -> [passed, production, repository]
    CausalEffects    \* effects of a command

ASSUME FusionAssumption ==
    /\ Threshold \in Nat \ {0} /\ MaxCandidates \in Nat
    /\ IsFiniteSet(DOMAIN CausalNodes) /\ Alarms \subseteq SUBSET DOMAIN CausalNodes
    /\ IsFiniteSet(MadhouseFindings) /\ CandidateFindings \subseteq SUBSET MadhouseFindings

VARIABLES
    graph,       \* node -> [authority, compromised]
    licence,     \* CONTEXT_DEV_LICENSE, loaded when the process starts
    candidates,  \* the findings of earlier candidates: Seq(SUBSET findings)
    answered     \* the last answer of an engine

fusionVars == <<graph, licence, candidates, answered>>

CausalNode == DOMAIN CausalNodes
NoAnswer == [engine |-> "none"]

-----------------------------------------------------------------------------
\* SIOS.preflight: what it denies, and the blocker it only adds.
HighRisk == {"DEPLOY", "DELETE", "MODIFY_PRODUCTION", "RELEASE", "SIGN", "ROTATE_SECRET", "CHANGE_AUTHORITY"}
Fatal(r) == ~r.identified \/ (r.action \in HighRisk /\ "sara.execute" \notin r.scopes)
NeedsRoad(r) == r.action \in {"SIGN", "RELEASE"}

\* EnterpriseGovernance: the scope an action asks for.
ScopeOf == [ANALYZE |-> "sara.solve", GOVERNANCE_EVALUATE |-> "sara.governance.evaluate",
            MEMORY |-> "sara.memory", EXECUTE |-> "sara.execute"]
GovernanceBlocks(r) ==
    r.feature = "unknown" \/ (r.action \in DOMAIN ScopeOf /\ ScopeOf[r.action] \notin r.scopes)

\* The modules run together; one that raises has failed.  No other than
\* EnterpriseGovernance blocks, and none claims an authority.
ModuleStatuses(r) ==
    {"OK"} \cup (IF GovernanceBlocks(r) THEN {"BLOCKED"} ELSE {}) \cup (IF r.broken THEN {"FAILED"} ELSE {})

\* EpistemicResolver.resolve; no module brings evidence.
Resolved(statuses) == IF statuses \cap {"BLOCKED", "FAILED"} # {} THEN "UNVERIFIED" ELSE "INFERRED"

\* SaraFusionEngine.execute.  ROADClient never passes a candidate.
Decided(r) ==
    IF Fatal(r) \/ NeedsRoad(r) \/ Resolved(ModuleStatuses(r)) = "UNVERIFIED" \/ r.action = "DEPLOY" THEN "DENY"
    ELSE IF r.action = "MODIFY_PRODUCTION" THEN "REQUIRE_APPROVAL" ELSE "ALLOW"

Says(a) == answered' = a /\ UNCHANGED <<graph, licence, candidates>>

Fuse(r) == Says([engine |-> "fusion", request |-> r, decision |-> Decided(r)])

\* reconcile_finality.
Reconcile(approved, actual) ==
    Says([engine |-> "finality", approved |-> approved, actual |-> actual,
              decision |-> IF actual \ approved # {} \/ approved \ actual # {} THEN "QUARANTINE" ELSE "ACCEPT"])

-----------------------------------------------------------------------------
\* One pass over the nodes.
Spread(revoked) == revoked \cup {n \in CausalNode : CausalNodes[n] \cap revoked # {}}

\* Mutant of Revoked: a single pass.
RevokedOnce(given) == Spread(given)

\* revoke_transitive_authority: passes over the nodes until one changes nothing.
Revoked(given) ==
    LET rounds[k \in 0..Cardinality(CausalNode)] ==
          IF k = 0 THEN given ELSE Spread(rounds[k - 1])
    IN rounds[Cardinality(CausalNode)]

RevokeAlarmed(given) ==
    /\ graph' = [n \in CausalNode |->
         IF n \in Revoked(given) THEN [authority |-> FALSE, compromised |-> graph[n].compromised \/ n \in given]
         ELSE graph[n]]
    /\ answered' = NoAnswer
    /\ UNCHANGED <<licence, candidates>>

-----------------------------------------------------------------------------
\* load_context_dev_license: any defect of the record fails closed.
Load(record) ==
    IF record.defects = {} /\ CommercialScopes \subseteq record.scopes
    THEN [verified |-> TRUE, scopes |-> record.scopes, record |-> record]
    ELSE [verified |-> FALSE, scopes |-> {}, record |-> record]

Restart(record) ==
    /\ licence' = Load(record)
    /\ answered' = NoAnswer
    /\ UNCHANGED <<graph, candidates>>

\* evaluate_request: the denials of a request under a licence, whose evidence
\* approves the scopes it names.
Denials(q, l) ==
    {d \in {"commercial", "terms", "automated", "scope", "rights", "zdr"} :
       \/ d = "commercial" /\ q.monetized /\ ~l.verified
       \/ d = "terms" /\ ~l.verified
       \/ d = "automated" /\ q.automated /\ "automated_api_use" \notin l.scopes
       \/ d = "scope" /\ ~((q.scopes \cup IF q.monetized THEN CommercialScopes ELSE {}) \subseteq l.scopes)
       \/ d = "rights" /\ ~q.rights
       \/ d = "zdr" /\ q.needsZdr /\ ~q.zdr}

EvaluateContext(q) ==
    Says([engine |-> "context", request |-> q, record |-> licence.record,
              decision |-> IF Denials(q, licence) = {} THEN "ALLOW" ELSE "DENY"])

-----------------------------------------------------------------------------
\* How often the earlier failures carry a fingerprint or a family: a finding
\* that is its own family counts twice.
Times(x) == Cardinality({t \in (DOMAIN candidates) \X MadhouseFindings \X {"mark", "family"} :
                           t[2] \in candidates[t[1]] /\ t[2][t[3]] = x})

\* _recurring_findings: the candidate at hand counts too.
Recurring(f) == Times(f.mark) + 1 > Threshold \/ Times(f.family) + 1 > Threshold

\* MadhouseAgent.review; the caller keeps the findings for the next candidate.
ReviewCandidate(found) ==
    /\ Len(candidates) < MaxCandidates
    /\ candidates' = Append(candidates, found)
    /\ answered' = [engine |-> "madhouse", found |-> found,
                    decision |-> IF \E f \in found : f.severity = "BLOCKING" \/ Recurring(f)
                                 THEN "BLOCKED" ELSE "READY"]
    /\ UNCHANGED <<graph, licence>>

\* EpistemicAgent._audit_claim: a claim of all tests on the evidence of the
\* repository's, or of production on no evidence of production, overstates.
AuditedClaim(c) ==
    LET linked == c.evidence \cap DOMAIN AgentEvidence
    IN IF linked = {} \/ linked # c.evidence THEN "UNVERIFIED"
       ELSE IF \E e \in linked : ~AgentEvidence[e].passed THEN "CONTRADICTED"
       ELSE IF \/ c.everything /\ \E e \in linked : AgentEvidence[e].repository
               \/ c.production /\ \A e \in linked : ~AgentEvidence[e].production
       THEN "OVERSTATED" ELSE "SUPPORTED"

ReviewClaims(claims) ==
    Says([engine |-> "epistemic", claims |-> claims,
          decision |-> IF \A c \in claims : AuditedClaim(c) = "SUPPORTED" THEN "READY" ELSE "BLOCKED"])

-----------------------------------------------------------------------------
FusionInit ==
    /\ graph = [n \in CausalNode |-> [authority |-> TRUE, compromised |-> FALSE]]
    /\ licence \in {Load(r) : r \in AuthorizationRecords}
    /\ candidates = <<>>
    /\ answered = NoAnswer

FusionNext ==
    \/ \E r \in FusionRequests : Fuse(r)
    \/ \E approved, actual \in SUBSET CausalEffects : Reconcile(approved, actual)
    \/ \E given \in Alarms : RevokeAlarmed(given)
    \/ \E r \in AuthorizationRecords : Restart(r)
    \/ \E q \in ContextRequests : EvaluateContext(q)
    \/ \E found \in CandidateFindings : ReviewCandidate(found)
    \/ \E claims \in ClaimSets : ReviewClaims(claims)

FusionSpec == FusionInit /\ [][FusionNext]_fusionVars

-----------------------------------------------------------------------------
FusionTypeOK ==
    /\ graph \in [CausalNode -> [authority : BOOLEAN, compromised : BOOLEAN]]
    /\ licence.verified \in BOOLEAN /\ licence.record \in AuthorizationRecords
    /\ candidates \in Seq(SUBSET MadhouseFindings) /\ Len(candidates) <= MaxCandidates
    /\ answered.engine \in {"none", "fusion", "finality", "context", "madhouse", "epistemic"}

\* The nodes that every set closed under dependence on the compromised holds.
Compromised == {n \in CausalNode : graph[n].compromised}
Tainted ==
    {n \in CausalNode : \A S \in SUBSET CausalNode :
       /\ Compromised \subseteq S
       /\ \A m \in CausalNode : CausalNodes[m] \cap S # {} => m \in S
       => n \in S}

\* No authority outlives its grounds: a node that depends, however far and
\* around whatever cycle, on a compromised one has none, after any sequence of
\* revocations.
RevocationIsClosed == \A n \in Tainted : ~graph[n].authority

\* A family of findings that as many earlier candidates had as the threshold
\* says keeps a candidate out, however mild each finding is.
RecurrenceBlocks ==
    answered.engine = "madhouse" /\ answered.decision = "READY" =>
      \A f \in answered.found :
        Cardinality({i \in 1..(Len(candidates) - 1) : \E g \in candidates[i] : g.family = f.family}) < Threshold

\* What the engines allow has its grounds outside of them: no fusion allows a
\* release or what the asker has no scope for, no commercial use of Context.dev
\* passes on a defective record, what is accepted as final is what was
\* approved, and no claim passes on evidence that did not.
AnswersHaveGrounds ==
    /\ answered.engine = "fusion" /\ answered.decision # "DENY" =>
         /\ answered.request.action \notin {"DEPLOY", "SIGN", "RELEASE"}
         /\ answered.request.action \in HighRisk \cup {"EXECUTE"} => "sara.execute" \in answered.request.scopes
         /\ ~answered.request.broken
    /\ answered.engine = "context" /\ answered.decision = "ALLOW" => answered.record.defects = {}
    /\ answered.engine = "finality" /\ answered.decision = "ACCEPT" => answered.approved = answered.actual
    /\ answered.engine = "epistemic" /\ answered.decision = "READY" =>
         \A c \in answered.claims : \A e \in c.evidence : AgentEvidence[e].passed

FusionHolds == RevocationIsClosed /\ RecurrenceBlocks /\ AnswersHaveGrounds
=============================================================================
