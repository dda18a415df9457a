------------------------------ MODULE MCPlatform ------------------------------
(***************************************************************************)
(* The components of the deployment that share no state and call one       *)
(* another through nothing that they keep, each on a small instance.  part *)
(* is the one that runs; the others are at rest.  As no step of one reads  *)
(* or writes what another keeps, a behaviour of all of them together is an *)
(* interleaving of these.                                                  *)
(***************************************************************************)
EXTENDS Identity, Voice, FailSafe, Enforcement, Commercial, Votes, IntegrityChain, Devices,
        Tutor, Council, MCGateway, Assurance, Fusion, Awareness, Titan, Road

CONSTANT AtRest     \* the value of the variables of a component that does not run

VARIABLE part

-----------------------------------------------------------------------------
(* Identity: two OAuth clients, a client named twice, a bootstrap invitation *)

OAuthClient(c, scopes) ==
    [client |-> c, secretFits |-> TRUE, redirects |-> {"h1"}, scopes |-> scopes]
Deployed(owner, bootstrap, clients, legacy) ==
    [owner |-> owner, bootstrap |-> bootstrap, clients |-> clients, legacy |-> legacy]

MCSetups ==
    {Deployed("own", "", <<OAuthClient("c1", {"solve", "memory"})>>, <<OAuthClient("c2", {"solve"})>>),
     Deployed("shared", "own", <<OAuthClient("c1", {"solve"})>>, <<OAuthClient("c1", {"solve"})>>),
     Deployed("shared", "short", <<OAuthClient("c1", {"solve"})>>, <<>>)}
MCClimates == {{"lapses"}, {"guesses"}}

(* Voice: a long and a short text *)

MCLength == [j \in VoiceJob |-> IF j = "j1" THEN 2 ELSE 1]

(* FailSafe: one controller, or two on one root *)

MCControllers == {[s \in Saver |-> 1], [s \in Saver |-> IF s = "s1" THEN 1 ELSE 2]}

Presentation(status, authority, evidence, receipt) ==
    [status |-> status, authority |-> authority, evidence |-> evidence, receipt |-> receipt]
MCPresented ==
    {Presentation("CONTRADICTED", "OBSERVATIONAL", TRUE, TRUE),
     Presentation("SUPPORTED", "ADVISORY", FALSE, FALSE),
     Presentation("INFERRED", "ADVISORY", TRUE, FALSE),
     Presentation("VERIFIED", "EXECUTION", TRUE, FALSE),
     Presentation("VERIFIED", "EXECUTION", TRUE, TRUE),
     Presentation("SUPPORTED", "EXECUTION", TRUE, TRUE)}

(* Enforcement: requests of each route, and direct ones that miss one thing *)

PlainRequest ==
    [op |-> "twin", operator |-> TRUE, valid |-> TRUE, permitted |-> TRUE, provenance |-> TRUE,
     reversible |-> TRUE, production |-> TRUE, sensitive |-> FALSE, highImpact |-> FALSE,
     network |-> FALSE, autonomous |-> FALSE, records |-> 0, value |-> 0, anomaly |-> 0,
     approved |-> FALSE, jurisdiction |-> "here", policy |-> {}, requirement |-> {}]
DirectRequest == [PlainRequest EXCEPT !.op = "direct"]
InsuredBy(active, limit, exclusions) ==
    [DirectRequest EXCEPT
        !.requirement = {[jurisdictions |-> {"here"}, verification |-> TRUE,
                          coverages |-> {[name |-> "cyber", minimum |-> 2, forbidden |-> {"agents"},
                                          endorsements |-> {"ai"}]}]},
        !.policy = {[active |-> active, insured |-> TRUE, verified |-> TRUE, jurisdictions |-> {},
                     coverages |-> {[name |-> "cyber", limit |-> limit, exclusions |-> exclusions,
                                     endorsements |-> {"ai"}]}]}]
MCAsked ==
    {[PlainRequest EXCEPT !.op = "incident", !.records = 4],
     [PlainRequest EXCEPT !.op = "recovery", !.highImpact = TRUE, !.approved = TRUE],
     [PlainRequest EXCEPT !.op = "recovery", !.highImpact = TRUE],
     [PlainRequest EXCEPT !.op = "voice", !.network = TRUE],
     [DirectRequest EXCEPT !.operator = FALSE],
     [DirectRequest EXCEPT !.reversible = FALSE, !.approved = TRUE, !.sensitive = TRUE,
                           !.highImpact = TRUE, !.autonomous = TRUE, !.network = TRUE, !.anomaly = 10],
     InsuredBy(TRUE, 3, {}), InsuredBy(TRUE, 1, {}), InsuredBy(TRUE, 3, {"agents"})}

(* Commercial: two checkpoints and a restore; an answer, a defense and a    *)
(* restore; an ATS analysis between two restores                            *)

MCLimits == [tier \in {"free", "core", "pro", "elite", "resume", "ats"} |->
                IF tier \in {"free", "core"} THEN 1 ELSE 3]
KindsOf(a, b, c) == ("v1" :> a) @@ ("v2" :> b) @@ ("v3" :> c)
MCMixes ==
    {KindsOf("checkpoint", "checkpoint", "restore"), KindsOf("direct", "defense", "restore"),
     KindsOf("ats", "restore", "restore")}

(* Votes: two contents for one proposal *)

MCVote == [proposal : {"p1"}, content : {"x", "y"}]

(* Devices: one that must confirm, one that need not, a disabled one *)

Registration(enabled, allowed, confirm) ==
    [enabled |-> enabled, allowed |-> allowed, confirm |-> confirm]
MCRecords == {Registration(TRUE, {"on"}, {"on"}), Registration(TRUE, {"on"}, {}), Registration(FALSE, {}, {})}

(* Tutor: three items, the first two of which reason alike *)

TutorItem(difficulty, prompt, reasoning, answer) ==
    [competency |-> "k", difficulty |-> difficulty, prompt |-> prompt, reasoning |-> reasoning,
     archetype |-> reasoning, answer |-> answer, distractors |-> prompt, scenario |-> prompt,
     choices |-> prompt]
MCItem == {TutorItem(1, "p1", "r1", "a1"), TutorItem(1, "p2", "r2", "a2"), TutorItem(2, "p3", "r3", "a3")}
MCResembling == {{"r1", "r2"}}

(* Council: each authority level, tag and kind of evidence that matters, a  *)
(* judge whose confidence is a number, none or NaN                          *)

ProblemOf(tags, action, level, needs, unverified) ==
    [tags |-> tags, action |-> action, level |-> level, needs |-> needs, unverified |-> unverified]
MCProblems ==
    {ProblemOf({}, FALSE, 1, {"web", "maglev"}, FALSE), ProblemOf({}, TRUE, 1, {}, TRUE),
     ProblemOf({"pii"}, TRUE, 3, {"fusion"}, FALSE), ProblemOf({"illegal", "pii"}, FALSE, 5, {"web"}, FALSE)}
MCRules == {[tags |-> {"illegal"}, effect |-> "BLOCK"], [tags |-> {"pii"}, effect |-> "ESCALATE"]}

Claiming(n) == [success |-> TRUE, claims |-> {[sources |-> n]}, calculations |-> {}]
Computing(scope, sourced) ==
    [success |-> TRUE, claims |-> {},
     calculations |-> {[scope |-> scope, sourced |-> sourced, current |-> TRUE, dependencies |-> TRUE]}]
MCReports ==
    [web |-> {Claiming(2), Claiming(1), Claiming(0)},
     maglev |-> {Computing("law", TRUE), Computing("narrow", TRUE), Computing("law", FALSE)}]

CandidateText(confidence, universal, rootCause) ==
    [Plain(confidence) EXCEPT !.universal = universal, !.rootCause = rootCause]
MCCandidates ==
    {CandidateText(90, TRUE, FALSE), CandidateText(60, FALSE, TRUE),
     CandidateText(NoNumber, TRUE, FALSE), CandidateText(NoNumber, FALSE, TRUE),
     CandidateText(NaN, TRUE, FALSE), CandidateText(NaN, FALSE, TRUE)}

(* Assurance: claims that ask one service or two, that state something of  *)
(* the modules, and that ask nothing                                       *)

NoModuleTruth == [modules |-> <<>>, live |-> -1, historical |-> -1, enforced |-> -1]
ModuleTruth == [modules |-> ("m1" :> TRUE) @@ ("m2" :> FALSE), live |-> 1, historical |-> 2, enforced |-> 1]
ClaimAsking(asks) ==
    [asks |-> asks, stated |-> FALSE, modules |-> {}, counts |-> {}, asserts |-> "nothing"]
ClaimNaming(asks, modules, asserts) ==
    [ClaimAsking(asks) EXCEPT !.stated = TRUE, !.modules = modules, !.asserts = asserts]
ClaimCounting(counts) == [ClaimAsking(<<>>) EXCEPT !.stated = TRUE, !.counts = counts]
CountOf(all, of, n) == [all |-> all, of |-> of, n |-> n]
OutputOf(claims, given, truth, failClosed) ==
    [claims |-> claims, given |-> given, truth |-> truth, failClosed |-> failClosed]
MCOutputs ==
    {OutputOf(<<ClaimAsking(<<"law", "data">>), ClaimAsking(<<"law">>)>>, <<>>, NoModuleTruth, TRUE),
     OutputOf(<<ClaimAsking(<<"law">>), ClaimAsking(<<>>)>>, "law" :> "verified", NoModuleTruth, TRUE),
     OutputOf(<<ClaimNaming(<<"law">>, {"m1"}, "live")>>, <<>>, ModuleTruth, FALSE),
     OutputOf(<<ClaimNaming(<<>>, {"m2", "m3"}, "live")>>, <<>>, ModuleTruth, FALSE),
     OutputOf(<<ClaimNaming(<<>>, {"m1"}, "not live")>>, <<>>, ModuleTruth, TRUE),
     OutputOf(<<ClaimCounting({CountOf(TRUE, {"live"}, 2)}), ClaimCounting({CountOf(FALSE, {"inventory"}, 2)})>>,
              <<>>, ModuleTruth, FALSE),
     OutputOf(<<ClaimCounting({CountOf(FALSE, {"enforced", "inventory"}, 2)})>>, <<>>, NoModuleTruth, TRUE)}
MCAdapters == [law |-> {"verified", "disputed"}, data |-> {"verified", "review"}]

(* Fusion: a cyclic graph of causal nodes, two failures of one family *)

FusionRequest(identified, action, scopes, feature, broken) ==
    [identified |-> identified, action |-> action, scopes |-> scopes, feature |-> feature, broken |-> broken]
MCFusionRequests ==
    {FusionRequest(TRUE, action, {"sara.solve"}, "known", FALSE) : action \in {"ANALYZE", "DELETE", "EXECUTE"}}
    \cup {FusionRequest(TRUE, action, {"sara.execute"}, "known", FALSE) :
            action \in {"MODIFY_PRODUCTION", "RELEASE", "DEPLOY"}}
    \cup {FusionRequest(TRUE, "ANALYZE", {"sara.solve"}, "unknown", FALSE),
          FusionRequest(TRUE, "ANALYZE", {"sara.solve"}, "known", TRUE),
          FusionRequest(FALSE, "ANALYZE", {"sara.solve"}, "known", FALSE)}
MCCausalNodes == ("a" :> {"c"}) @@ ("b" :> {"a"}) @@ ("c" :> {"b"}) @@ ("d" :> {})
MCAlarms == {{"a"}, {"b", "d"}}
MCCommercialScopes == {"automated_api_use", "resale"}
MCAuthorizationRecords ==
    {[defects |-> {}, scopes |-> MCCommercialScopes], [defects |-> {"terms"}, scopes |-> MCCommercialScopes],
     [defects |-> {}, scopes |-> {"resale"}]}
ContextRequest(monetized, automated, rights, needsZdr, scopes) ==
    [monetized |-> monetized, automated |-> automated, rights |-> rights, needsZdr |-> needsZdr,
     zdr |-> FALSE, scopes |-> scopes]
MCContextRequests ==
    {ContextRequest(TRUE, TRUE, TRUE, FALSE, {}), ContextRequest(FALSE, FALSE, TRUE, FALSE, {}),
     ContextRequest(TRUE, FALSE, TRUE, TRUE, {"resale"}), ContextRequest(FALSE, TRUE, FALSE, FALSE, {"other"})}
FindingOf(mark, family, severity) == [mark |-> mark, family |-> family, severity |-> severity]
MCMadhouseFindings ==
    {FindingOf("f1", "fam1", "HIGH"), FindingOf("f2", "fam1", "HIGH"), FindingOf("f3", "f3", "BLOCKING")}
MCCandidateFindings ==
    {{FindingOf("f1", "fam1", "HIGH")}, {FindingOf("f2", "fam1", "HIGH"), FindingOf("f3", "f3", "BLOCKING")}}
AgentClaim(evidence, production, everything) ==
    [evidence |-> evidence, production |-> production, everything |-> everything]
MCClaimSets ==
    {{AgentClaim({"e1"}, FALSE, TRUE)}, {AgentClaim({"e1"}, TRUE, FALSE)}, {AgentClaim({"e1", "e2"}, FALSE, FALSE)},
     {AgentClaim({"e3"}, FALSE, FALSE)}, {AgentClaim({"e9"}, FALSE, FALSE)}}
MCAgentEvidence ==
    [e1 |-> [passed |-> TRUE, production |-> FALSE, repository |-> TRUE],
     e2 |-> [passed |-> FALSE, production |-> FALSE, repository |-> TRUE],
     e3 |-> [passed |-> TRUE, production |-> TRUE, repository |-> FALSE]]

(* Awareness: a snapshot that registers a service, one that only has a baseline *)

MCSnapshots == {[modules |-> "m1" :> "v1", baseline |-> {"m1"}], [modules |-> <<>>, baseline |-> {"gw"}]}

(* Road: a first boot, an accepted one, another commit, one whose preflight *)
(* fails, one that is accepted by an override                               *)

ProductionOf(commit, ready, isAccepted, mounted, madhouse) ==
    [commit |-> commit, ready |-> ready, accepted |-> isAccepted, mounted |-> mounted,
     context |-> mounted, madhouse |-> madhouse]
MCProduction ==
    {ProductionOf("c1", TRUE, FALSE, TRUE, "ready"), ProductionOf("c1", TRUE, TRUE, TRUE, "ready"),
     ProductionOf("c2", TRUE, TRUE, TRUE, "ready"), ProductionOf("c2", FALSE, FALSE, TRUE, "blocks"),
     ProductionOf("c1", TRUE, TRUE, FALSE, "unbounded")}
CiRun(commit, canonical) == [commit |-> commit, canonical |-> canonical]
MCCiRuns == {CiRun("c1", TRUE), CiRun("c1", FALSE), CiRun("c2", TRUE)}

-----------------------------------------------------------------------------
Parts == {"identity", "voice", "failsafe", "enforcement", "commercial", "votes", "integrity", "devices",
          "tutor", "council", "gateway", "assurance", "fusion", "awareness", "titan", "road"}

IdentityAtRest ==
    /\ setup = AtRest /\ climate = AtRest /\ invites = AtRest /\ accounts = AtRest
    /\ codes = AtRest /\ tokens = AtRest /\ failures = AtRest /\ guesses = AtRest
    /\ clock = AtRest

VoiceAtRest ==
    /\ entitlement = AtRest /\ keeps = AtRest /\ row = AtRest /\ transcript = AtRest
    /\ usage = AtRest /\ lease = AtRest /\ managed = AtRest /\ handler = AtRest /\ loop = AtRest
    /\ minute = AtRest /\ admitted = AtRest /\ died = AtRest

FailSafeAtRest ==
    /\ keyed = AtRest /\ required = AtRest /\ controller = AtRest /\ locked = AtRest
    /\ files = AtRest /\ latest = AtRest /\ named = AtRest /\ saver = AtRest
    /\ acknowledged = AtRest /\ effects = AtRest /\ damaged = AtRest

EnforcementAtRest ==
    /\ signingKey = AtRest /\ mandatory = AtRest /\ ledger = AtRest /\ caller = AtRest
    /\ appended = AtRest /\ committed = AtRest /\ executed = AtRest /\ disturbed = AtRest

CommercialAtRest ==
    /\ products = AtRest /\ policy = AtRest /\ now = AtRest /\ buckets = AtRest /\ heads = AtRest
    /\ sealed = AtRest /\ visit = AtRest /\ audited = AtRest /\ answers = AtRest

VotesAtRest ==
    /\ proposals = AtRest /\ seen = AtRest /\ ballot = AtRest /\ accepted = AtRest

IntegrityChainAtRest ==
    /\ chain = AtRest /\ chainHead = AtRest /\ signing = AtRest /\ signed = AtRest
    /\ store = AtRest /\ sealing = AtRest /\ confirmed = AtRest /\ raced = AtRest /\ keys = AtRest

DevicesAtRest ==
    /\ separate = AtRest /\ device = AtRest /\ telemetry = AtRest /\ replayIds = AtRest
    /\ quarantine = AtRest /\ command = AtRest /\ acts = AtRest /\ time = AtRest

TutorAtRest ==
    /\ noveltyLedger = AtRest /\ questions = AtRest /\ attempts = AtRest /\ mastery = AtRest
    /\ positions = AtRest /\ tutorAudit = AtRest /\ lesson = AtRest /\ reply = AtRest

CouncilAtRest ==
    /\ signer = AtRest /\ solves = AtRest /\ recorded = AtRest

GatewayAtRest ==
    /\ volume = AtRest /\ snapshot = AtRest /\ process = AtRest /\ rate = AtRest
    /\ audits = AtRest /\ thread = AtRest /\ restore = AtRest /\ second = AtRest /\ marks = AtRest

AssuranceAtRest ==
    /\ check = AtRest /\ receipts = AtRest /\ believed = AtRest /\ secret = AtRest
    /\ redeploys = AtRest /\ elapsed = AtRest

FusionAtRest ==
    /\ graph = AtRest /\ licence = AtRest /\ candidates = AtRest /\ answered = AtRest

AwarenessAtRest ==
    /\ memory = AtRest /\ stateStore = AtRest /\ hasStore = AtRest /\ told = AtRest
    /\ requests = AtRest /\ starts = AtRest

TitanAtRest ==
    /\ events = AtRest /\ chains = AtRest /\ busLog = AtRest /\ executeGates = AtRest
    /\ titanStarts = AtRest

RoadAtRest ==
    /\ serving = AtRest /\ onVolume = AtRest /\ ciRuns = AtRest /\ productions = AtRest
    /\ inquiry = AtRest

PlatformInit ==
    /\ part \in Parts
    /\ IF part = "identity" THEN IdentityInit ELSE IdentityAtRest
    /\ IF part = "voice" THEN VoiceInit ELSE VoiceAtRest
    /\ IF part = "failsafe" THEN FailSafeInit ELSE FailSafeAtRest
    /\ IF part = "enforcement" THEN EnforcementInit ELSE EnforcementAtRest
    /\ IF part = "commercial" THEN CommercialInit ELSE CommercialAtRest
    /\ IF part = "votes" THEN VotesInit ELSE VotesAtRest
    /\ IF part = "integrity" THEN IntegrityInit ELSE IntegrityChainAtRest
    /\ IF part = "devices" THEN DevicesInit ELSE DevicesAtRest
    /\ IF part = "tutor" THEN TutorInit ELSE TutorAtRest
    /\ IF part = "council" THEN CouncilInit ELSE CouncilAtRest
    /\ IF part = "gateway" THEN GatewayInit ELSE GatewayAtRest
    /\ IF part = "assurance" THEN AssuranceInit ELSE AssuranceAtRest
    /\ IF part = "fusion" THEN FusionInit ELSE FusionAtRest
    /\ IF part = "awareness" THEN AwarenessInit ELSE AwarenessAtRest
    /\ IF part = "titan" THEN TitanInit ELSE TitanAtRest
    /\ IF part = "road" THEN RoadInit ELSE RoadAtRest

platformVars == <<part, identityVars, voiceVars, failSafeVars, enforcementVars, commercialVars,
                  votesVars, integrityVars, devicesVars, tutorVars, councilVars, gatewayVars,
                  assuranceVars, fusionVars, awarenessVars, titanVars, roadVars>>

IdentityRuns ==
    /\ part = "identity"
    /\ IdentityNext
    /\ UNCHANGED <<part, voiceVars, failSafeVars, enforcementVars, commercialVars, votesVars,
                    integrityVars, devicesVars, tutorVars, councilVars, gatewayVars,
                    assuranceVars, fusionVars, awarenessVars, titanVars, roadVars>>

VoiceRuns ==
    /\ part = "voice"
    /\ VoiceNext
    /\ UNCHANGED <<part, identityVars, failSafeVars, enforcementVars, commercialVars, votesVars,
                    integrityVars, devicesVars, tutorVars, councilVars, gatewayVars,
                    assuranceVars, fusionVars, awarenessVars, titanVars, roadVars>>

FailSafeRuns ==
    /\ part = "failsafe"
    /\ FailSafeNext
    /\ UNCHANGED <<part, identityVars, voiceVars, enforcementVars, commercialVars, votesVars,
                    integrityVars, devicesVars, tutorVars, councilVars, gatewayVars,
                    assuranceVars, fusionVars, awarenessVars, titanVars, roadVars>>

EnforcementRuns ==
    /\ part = "enforcement"
    /\ EnforcementNext
    /\ UNCHANGED <<part, identityVars, voiceVars, failSafeVars, commercialVars, votesVars,
                    integrityVars, devicesVars, tutorVars, councilVars, gatewayVars,
                    assuranceVars, fusionVars, awarenessVars, titanVars, roadVars>>

CommercialRuns ==
    /\ part = "commercial"
    /\ CommercialNext
    /\ UNCHANGED <<part, identityVars, voiceVars, failSafeVars, enforcementVars, votesVars,
                    integrityVars, devicesVars, tutorVars, councilVars, gatewayVars,
                    assuranceVars, fusionVars, awarenessVars, titanVars, roadVars>>

VotesRuns ==
    /\ part = "votes"
    /\ VotesNext
    /\ UNCHANGED <<part, identityVars, voiceVars, failSafeVars, enforcementVars, commercialVars,
                    integrityVars, devicesVars, tutorVars, councilVars, gatewayVars,
                    assuranceVars, fusionVars, awarenessVars, titanVars, roadVars>>

IntegrityRuns ==
    /\ part = "integrity"
    /\ IntegrityNext
    /\ UNCHANGED <<part, identityVars, voiceVars, failSafeVars, enforcementVars, commercialVars,
                    votesVars, devicesVars, tutorVars, councilVars, gatewayVars, assuranceVars,
                    fusionVars, awarenessVars, titanVars, roadVars>>

DevicesRuns ==
    /\ part = "devices"
    /\ DevicesNext
    /\ UNCHANGED <<part, identityVars, voiceVars, failSafeVars, enforcementVars, commercialVars,
                    votesVars, integrityVars, tutorVars, councilVars, gatewayVars, assuranceVars,
                    fusionVars, awarenessVars, titanVars, roadVars>>

TutorRuns ==
    /\ part = "tutor"
    /\ TutorNext
    /\ UNCHANGED <<part, identityVars, voiceVars, failSafeVars, enforcementVars, commercialVars,
                    votesVars, integrityVars, devicesVars, councilVars, gatewayVars,
                    assuranceVars, fusionVars, awarenessVars, titanVars, roadVars>>

CouncilRuns ==
    /\ part = "council"
    /\ CouncilNext
    /\ UNCHANGED <<part, identityVars, voiceVars, failSafeVars, enforcementVars, commercialVars,
                    votesVars, integrityVars, devicesVars, tutorVars, gatewayVars, assuranceVars,
                    fusionVars, awarenessVars, titanVars, roadVars>>

GatewayRuns ==
    /\ part = "gateway"
    /\ GatewayNext
    /\ UNCHANGED <<part, identityVars, voiceVars, failSafeVars, enforcementVars, commercialVars,
                    votesVars, integrityVars, devicesVars, tutorVars, councilVars, assuranceVars,
                    fusionVars, awarenessVars, titanVars, roadVars>>

AssuranceRuns ==
    /\ part = "assurance"
    /\ AssuranceNext
    /\ UNCHANGED <<part, identityVars, voiceVars, failSafeVars, enforcementVars, commercialVars,
                    votesVars, integrityVars, devicesVars, tutorVars, councilVars, gatewayVars,
                    fusionVars, awarenessVars, titanVars, roadVars>>

FusionRuns ==
    /\ part = "fusion"
    /\ FusionNext
    /\ UNCHANGED <<part, identityVars, voiceVars, failSafeVars, enforcementVars, commercialVars,
                    votesVars, integrityVars, devicesVars, tutorVars, councilVars, gatewayVars,
                    assuranceVars, awarenessVars, titanVars, roadVars>>

AwarenessRuns ==
    /\ part = "awareness"
    /\ AwarenessNext
    /\ UNCHANGED <<part, identityVars, voiceVars, failSafeVars, enforcementVars, commercialVars,
                    votesVars, integrityVars, devicesVars, tutorVars, councilVars, gatewayVars,
                    assuranceVars, fusionVars, titanVars, roadVars>>

TitanRuns ==
    /\ part = "titan"
    /\ TitanNext
    /\ UNCHANGED <<part, identityVars, voiceVars, failSafeVars, enforcementVars, commercialVars,
                    votesVars, integrityVars, devicesVars, tutorVars, councilVars, gatewayVars,
                    assuranceVars, fusionVars, awarenessVars, roadVars>>

RoadRuns ==
    /\ part = "road"
    /\ RoadNext
    /\ UNCHANGED <<part, identityVars, voiceVars, failSafeVars, enforcementVars, commercialVars,
                    votesVars, integrityVars, devicesVars, tutorVars, councilVars, gatewayVars,
                    assuranceVars, fusionVars, awarenessVars, titanVars>>

PlatformNext ==
    \/ IdentityRuns \/ VoiceRuns \/ FailSafeRuns \/ EnforcementRuns \/ CommercialRuns \/ VotesRuns
    \/ IntegrityRuns \/ DevicesRuns \/ TutorRuns \/ CouncilRuns \/ GatewayRuns \/ AssuranceRuns
    \/ FusionRuns \/ AwarenessRuns \/ TitanRuns \/ RoadRuns

PlatformSpec == PlatformInit /\ [][PlatformNext]_platformVars

-----------------------------------------------------------------------------
\* Each component's variables keep their types.
PlatformTypeOK ==
    /\ part \in Parts
    /\ part = "identity" => IdentityTypeOK
    /\ part = "voice" => VoiceTypeOK
    /\ part = "failsafe" => FailSafeTypeOK
    /\ part = "enforcement" => EnforcementTypeOK
    /\ part = "commercial" => CommercialTypeOK
    /\ part = "votes" => VotesTypeOK
    /\ part = "integrity" => IntegrityTypeOK
    /\ part = "devices" => DevicesTypeOK
    /\ part = "tutor" => TutorTypeOK
    /\ part = "council" => CouncilTypeOK
    /\ part = "gateway" => GatewayTypeOK
    /\ part = "assurance" => AssuranceTypeOK
    /\ part = "fusion" => FusionTypeOK
    /\ part = "awareness" => AwarenessTypeOK
    /\ part = "titan" => TitanTypeOK
    /\ part = "road" => RoadTypeOK

\* Identity: a code or a refresh token is spent at most once, what is granted
\* was granted by the client's registration, and guesses at a password run into
\* the lock (user_identity.py).
IdentityHolds == part = "identity" => OneLiveRefresh /\ GrantsAreBacked /\ GuessesBounded

\* Voice: quotas count every admission, and only transcripts that were asked
\* for are kept (voice_accessibility.py).
VoiceHolds == part = "voice" => QuotaHolds /\ TranscriptsAreWanted

\* Fail-safe: nothing is done before its snapshot and within its authority, and
\* the newest snapshots form a chain, all that are retained when the last
\* checkpoint has returned (sara_v32_hardening.py).
FailSafeHolds == part = "failsafe" => EffectsAreCovered /\ RetainedChain

\* Enforcement: the evidence of what was done stands (governance/enforcement.py,
\* unified_kernel.py, evidence/audit.py).
EnforcementHolds == part = "enforcement" => EvidenceStands

\* Commercial runtime: a restore is never stale, an answer is verified
\* (sara_public.py).
CommercialHolds == part = "commercial" => RestoresAreLatest /\ AnswersAreVerified

\* Quantum defense: a commit has its quorum, the integrity chain is linked
\* (raft_pqc_patch.py, integrity_patch.py, cipmu_patch.py, fabric_pqc_patch.py).
DefenseHolds == (part = "votes" => CommitIsQuorate) /\ (part = "integrity" => ChainIsLinked)

\* Devices: an accepted command acts at most once, telemetry is taken once
\* (app/iot).
DevicesHold == part = "devices" => DevicesActOnce

\* Tutor: no question repeats, mastery is earned, answer positions balance.
TutorHolds == part = "tutor" => NoRepeats /\ MasteryIsEarned /\ PositionsAreBalanced

\* Council: a verdict stays below what its evidence and authority allow
\* (app/orchestrator.py).
CouncilHolds == part = "council" => VerdictsAreBounded

\* Gateway: acceptance is earned by a second boot, in a process that is not
\* attested nothing behind main's fail-safe runs, quotas nearly hold, answered
\* artifacts stand (sara_production_bootstrap.py, main.py).
GatewayStands == part = "gateway" => GatewayHolds

\* Assurance, fusion, awareness, TITAN and ROAD: receipts are earned, revocation
\* is closed and a recurring failure blocks, what was told stored is kept, an
\* execution follows a certified chain, and a release certificate that passes
\* is of one commit.
ReviewsHold ==
    /\ part = "assurance" => ReceiptsAreEarned
    /\ part = "fusion" => FusionHolds
    /\ part = "awareness" => MemoriesAreKept
    /\ part = "titan" => GatesStand
    /\ part = "road" => RoadCertifies
=============================================================================
