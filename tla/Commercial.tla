------------------------------ MODULE Commercial ------------------------------
(***************************************************************************)
(* The commercial runtime of sara_public.py besides billing: rate limits,  *)
(* workflow checkpoints that a customer resumes from a sealed token, SARA  *)
(* and ATS analysis behind SIOS, the defense swarm and ROAD.               *)
(*                                                                         *)
(* Each method of Database is one step under its lock; handlers interleave *)
(* between the calls.  A sealed token is what it seals: nobody else can    *)
(* make one.  The state of a workflow and its SHA-256 are one value.       *)
(***************************************************************************)
EXTENDS Naturals, FiniteSets, FiniteSetsExt

CONSTANTS
    Visitor,         \* requests
    Mixes,           \* what they ask for: the assignments of kinds that are explored
    Account, Workflow,
    Saved,           \* the states that are saved, by hash
    TooLarge,        \* those over resume_max_bytes
    Text,            \* model outputs
    Limits,          \* requests per minute: of each tier, "resume" and "ats"
    TTL,             \* resume_ttl_days, in the model's minutes
    LastMinute,      \* bound on time
    MaxSequence,     \* bound on the checkpoints of a workflow
    CommercialEnv    \* what may happen: subset of {"crash", "redeploy", "products"}

Product == {"core", "pro", "elite", "ats"}
Tiers == <<"free", "core", "pro", "elite">>
Kind == {"checkpoint", "restore", "direct", "defense", "ats"}

ASSUME CommercialAssumption ==
    /\ Mixes \subseteq [Visitor -> Kind]
    /\ TooLarge \subseteq Saved
    /\ Limits \in [{"free", "core", "pro", "elite", "resume", "ats"} -> Nat]
    /\ TTL \in Nat /\ LastMinute \in Nat /\ MaxSequence \in Nat

VARIABLES
    products,    \* the active products of each account
    policy,      \* policy_version of the deployment
    now,         \* the minute
    buckets,     \* requests counted this minute: <<account, action>> -> count
    heads,       \* workflow_heads: <<account, workflow>> -> [sequence, hash]
    sealed,      \* the tokens that were handed out
    visit,       \* the handlers
    audited,     \* the audit rows of checkpoints
    answers      \* replies of /sara/analyze, /ats/analyze and /resume/restore

commercialVars == <<products, policy, now, buckets, heads, sealed, visit, audited, answers>>

NoHash == {}
NoHead == [sequence |-> 0, hash |-> NoHash]
Idle(kind) ==
        [step |-> "new", kind |-> kind, account |-> "", workflow |-> "", tier |-> "", head |-> NoHead,
         until |-> 0, floor |-> 0, text |-> "", reviews |-> {}, claims |-> {}]

CommercialInit ==
    /\ products \in [Account -> {{}, {"core"}, {"core", "elite"}, {"pro", "ats"}}]
    /\ policy = 1
    /\ now = 0
    /\ buckets = [k \in Account \X {"sara", "resume", "ats"} |-> 0]
    /\ heads = [k \in Account \X Workflow |-> NoHead]
    /\ sealed = {}
    /\ \E mix \in Mixes : visit = [v \in Visitor |-> Idle(mix[v])]
    /\ audited = {}
    /\ answers = {}

-----------------------------------------------------------------------------
Rank(tier) == CHOOSE i \in DOMAIN Tiers : Tiers[i] = tier

\* effective_sara_tier: the best of the active products.
EffectiveTier(owned) == Tiers[Max({1} \cup {i \in DOMAIN Tiers : Tiers[i] \in owned})]

VisitGoes(v, step) == visit' = [visit EXCEPT ![v].step = step]

\* The handler returns or raises; nothing of it is left.
Ends(v, step) == visit' = [visit EXCEPT ![v] = [Idle(@.kind) EXCEPT !.step = step]]

ActionOf(kind) ==
    IF kind = "ats" THEN "ats" ELSE IF kind \in {"checkpoint", "restore"} THEN "resume" ELSE "sara"

\* authorize_sara, authorize_resume and authorize_ats up to the rate limit.
MayUse(kind, owned) ==
    /\ kind = "defense" => EffectiveTier(owned) \in {"pro", "elite"}
    /\ ActionOf(kind) = "resume" => Rank(EffectiveTier(owned)) >= Rank("core")
    /\ kind = "ats" => "ats" \in owned

Acknowledged(a, w) == {r.sequence : r \in {x \in audited : x.account = a /\ x.workflow = w}}

\* A request arrives and its account's products are read.
Visit(v) ==
    /\ visit[v].step = "new"
    /\ \E a \in Account, w \in Workflow :
         IF ~MayUse(visit[v].kind, products[a]) THEN Ends(v, "refused")
         ELSE visit' = [visit EXCEPT
             ![v].step = "known",
             ![v].account = a, ![v].workflow = w, ![v].tier = EffectiveTier(products[a]),
             ![v].floor = IF visit[v].kind = "restore" THEN Max({0} \cup Acknowledged(a, w)) ELSE 0]
    /\ UNCHANGED <<products, policy, now, buckets, heads, sealed, audited, answers>>

LimitOf(v) == Limits[IF ActionOf(visit[v].kind) = "sara" THEN visit[v].tier ELSE ActionOf(visit[v].kind)]

\* Database.rate_limit.
RateLimit(v) ==
    LET k == <<visit[v].account, ActionOf(visit[v].kind)>>
    IN /\ visit[v].step = "known"
       /\ IF buckets[k] >= LimitOf(v)
          THEN Ends(v, "refused") /\ UNCHANGED buckets
          ELSE VisitGoes(v, "admitted") /\ buckets' = [buckets EXCEPT ![k] = @ + 1]
       /\ UNCHANGED <<products, policy, now, heads, sealed, audited, answers>>

-----------------------------------------------------------------------------
KeyOf(v) == <<visit[v].account, visit[v].workflow>>

\* allocate_workflow_sequence: the number is taken and the head hash cleared.
AllocateSequence(v) ==
    LET n == heads[KeyOf(v)].sequence + 1
    IN /\ visit[v].step = "admitted" /\ visit[v].kind = "checkpoint"
       /\ n <= MaxSequence
       /\ heads' = [heads EXCEPT ![KeyOf(v)] = [sequence |-> n, hash |-> NoHash]]
       /\ visit' = [visit EXCEPT ![v].step = "allocated", ![v].head.sequence = n]
       /\ UNCHANGED <<products, policy, now, buckets, sealed, audited, answers>>

\* ResumeVector.seal: too large a state is refused, after the allocation.
Seal(v) ==
    /\ visit[v].step = "allocated"
    /\ \E s \in Saved :
         IF s \in TooLarge THEN Ends(v, "refused")
         ELSE visit' = [visit EXCEPT ![v].step = "sealed", ![v].head.hash = {s}, ![v].until = now + TTL]
    /\ UNCHANGED <<products, policy, now, buckets, heads, sealed, audited, answers>>

\* Mutant of SetWorkflowHash: the UPDATE does not compare the sequence.
SetHashUnchecked(v) ==
    /\ visit[v].step = "sealed"
    /\ heads' = [heads EXCEPT ![KeyOf(v)] = visit[v].head]
    /\ VisitGoes(v, "hashed")
    /\ UNCHANGED <<products, policy, now, buckets, sealed, audited, answers>>

\* set_workflow_hash: refused when another checkpoint has taken a number since.
SetWorkflowHash(v) ==
    /\ visit[v].step = "sealed"
    /\ IF heads[KeyOf(v)].sequence = visit[v].head.sequence
       THEN heads' = [heads EXCEPT ![KeyOf(v)].hash = visit[v].head.hash] /\ VisitGoes(v, "hashed")
       ELSE Ends(v, "refused") /\ UNCHANGED heads
    /\ UNCHANGED <<products, policy, now, buckets, sealed, audited, answers>>

\* create_checkpoint audits and hands the token out.
HandOut(v) ==
    /\ visit[v].step = "hashed"
    /\ audited' = audited \cup
         {[account |-> visit[v].account, workflow |-> visit[v].workflow, sequence |-> visit[v].head.sequence]}
    /\ sealed' = sealed \cup
         {[account |-> visit[v].account, workflow |-> visit[v].workflow, head |-> visit[v].head,
           policy |-> policy, until |-> visit[v].until]}
    /\ Ends(v, "done")
    /\ UNCHANGED <<products, policy, now, buckets, heads, answers>>

-----------------------------------------------------------------------------
\* ResumeVector.open: the AAD binds the token to the account, the workflow, the
\* sequence, the policy version and the expiry.
Opens(token, v) ==
    /\ <<token.account, token.workflow>> = KeyOf(v)
    /\ token.policy = policy
    /\ now < token.until

OpenToken(v) ==
    /\ visit[v].step = "admitted" /\ visit[v].kind = "restore"
    /\ \E token \in sealed :
         IF Opens(token, v) THEN visit' = [visit EXCEPT ![v].step = "opened", ![v].head = token.head]
         ELSE Ends(v, "refused")
    /\ UNCHANGED <<products, policy, now, buckets, heads, sealed, audited, answers>>

\* restore_checkpoint: the head has to be exactly what the token seals.
RestoreCheckpoint(v) ==
    /\ visit[v].step = "opened"
    /\ IF heads[KeyOf(v)] = visit[v].head
       THEN /\ answers' = answers \cup
                 {[kind |-> "restore", account |-> visit[v].account, workflow |-> visit[v].workflow,
                   head |-> visit[v].head, floor |-> visit[v].floor]}
            /\ Ends(v, "done")
       ELSE Ends(v, "refused") /\ UNCHANGED answers
    /\ UNCHANGED <<products, policy, now, buckets, heads, sealed, audited>>

-----------------------------------------------------------------------------
\* The résumé's claims as the model states them: found in the résumé or not, and
\* the status source_contains gives them; "hidden" text blocks the analysis.
Claims == [found : BOOLEAN, status : {"SUPPORTED_BY_RESUME", "NEEDS_USER_CONFIRMATION"}]
Stated(found) == [found |-> found, status |-> IF found THEN "SUPPORTED_BY_RESUME" ELSE "NEEDS_USER_CONFIRMATION"]

\* model_client.generate; the ATS service checks its inputs and its output, the
\* structure of the output included.
Generate(v) ==
    /\ visit[v].step = "admitted" /\ ActionOf(visit[v].kind) # "resume"
    /\ \/ Ends(v, "refused")
       \/ \E t \in Text, claimed \in {{}, {TRUE}, {TRUE, FALSE}} :
            /\ visit[v].kind # "ats" => claimed = {}
            /\ visit' = [visit EXCEPT ![v].text = t, ![v].claims = {Stated(f) : f \in claimed},
                   ![v].step = IF visit[v].kind = "defense" THEN "attacked" ELSE "candidate"]
    /\ UNCHANGED <<products, policy, now, buckets, heads, sealed, audited, answers>>

BaseRoles == {"logic", "security", "assumption_killer", "epistemic"}
Roles(tier) == IF tier = "elite" THEN BaseRoles \cup {"black_swan", "second_order"} ELSE BaseRoles

\* ReviewerOutput: the reviewer's own decision, and whether it found anything
\* CRITICAL or BLOCKING; the model states the two independently.
Reviews == [decision : {"BLOCKED", "CLEAR"}, blocking : BOOLEAN]

\* What _attack_one puts for a reviewer that fails or whose output is unusable.
Malfunction == [decision |-> "BLOCKED", blocking |-> TRUE]

\* Mutant of Blocks: a malfunction is not told from a reviewer without findings.
BlocksUnlessBroken(review) == review.blocking /\ review # Malfunction

\* What attack makes of one review: the findings count, the decision is not read.
Blocks(review) == review.blocking

\* DefenseSwarm.attack: a review of every role, some of them alike.
Attack(v) ==
    /\ visit[v].step = "attacked"
    /\ \E reviews \in (SUBSET Reviews) \ {{}} :
         /\ Cardinality(reviews) <= Cardinality(Roles(visit[v].tier))
         /\ IF \E r \in reviews : Blocks(r) THEN Ends(v, "refused")
            ELSE visit' = [visit EXCEPT ![v].reviews = reviews, ![v].step = "candidate"]
    /\ UNCHANGED <<products, policy, now, buckets, heads, sealed, audited, answers>>

\* What ROAD replies: about which text, and for which build.
RoadReplies == [passed : BOOLEAN, verified : BOOLEAN, about : Text, current : BOOLEAN]

\* Mutant of Receipt: candidate_sha256 is not compared.
ReceiptForAny(reply, text) == reply.passed /\ reply.verified /\ reply.current

\* RoadClient.verify.
Receipt(reply, text) == reply.passed /\ reply.verified /\ reply.current /\ reply.about = text

\* The candidate goes to ROAD; without a receipt for exactly it the answer is 409.
VerifyCandidate(v) ==
    /\ visit[v].step = "candidate"
    /\ \E reply \in RoadReplies :
         IF Receipt(reply, visit[v].text)
         THEN /\ answers' = answers \cup
                   {[kind |-> visit[v].kind, tier |-> visit[v].tier, text |-> visit[v].text,
                     reply |-> reply, reviews |-> visit[v].reviews, claims |-> visit[v].claims]}
              /\ Ends(v, "done")
         ELSE Ends(v, "refused") /\ UNCHANGED answers
    /\ UNCHANGED <<products, policy, now, buckets, heads, sealed, audited>>

-----------------------------------------------------------------------------
\* A minute passes: a new bucket.
CommercialMinute ==
    /\ now < LastMinute
    /\ now' = now + 1
    /\ buckets' = [k \in DOMAIN buckets |-> 0]
    /\ UNCHANGED <<products, policy, heads, sealed, visit, audited, answers>>

\* Billing grants or ends a product.
ProductsChange ==
    /\ "products" \in CommercialEnv
    /\ \E a \in Account, p \in {"core", "ats"} :
         products' = [products EXCEPT ![a] = IF p \in @ THEN @ \ {p} ELSE @ \cup {p}]
    /\ UNCHANGED <<policy, now, buckets, heads, sealed, visit, audited, answers>>

\* The process stops, or is deployed with another policy version: the requests
\* under way are lost, the database stays.
CommercialRestart ==
    /\ policy' \in (IF "crash" \in CommercialEnv THEN {policy} ELSE {}) \cup
                   (IF "redeploy" \in CommercialEnv /\ policy = 1 THEN {2} ELSE {})
    /\ \E v \in Visitor : visit[v].step \notin {"new", "done", "refused"}
    /\ visit' = [v \in Visitor |->
         IF visit[v].step \in {"new", "done", "refused"} THEN visit[v]
         ELSE [Idle(visit[v].kind) EXCEPT !.step = "refused"]]
    /\ UNCHANGED <<products, now, buckets, heads, sealed, audited, answers>>

CommercialNext ==
    \/ \E v \in Visitor :
         \/ Visit(v) \/ RateLimit(v)
         \/ AllocateSequence(v) \/ Seal(v) \/ SetWorkflowHash(v) \/ HandOut(v)
         \/ OpenToken(v) \/ RestoreCheckpoint(v)
         \/ Generate(v) \/ Attack(v) \/ VerifyCandidate(v)
    \/ CommercialMinute \/ ProductsChange \/ CommercialRestart

CommercialSpec == CommercialInit /\ [][CommercialNext]_commercialVars

-----------------------------------------------------------------------------
CommercialTypeOK ==
    /\ \A v \in Visitor : visit[v].step \in
         {"new", "known", "admitted", "allocated", "sealed", "hashed", "opened", "attacked", "candidate",
          "refused", "done"}
    /\ \A k \in DOMAIN heads : heads[k].hash \subseteq Saved /\ heads[k].sequence \in 0..MaxSequence
    /\ \A k \in DOMAIN buckets : \E tier \in DOMAIN Limits : buckets[k] <= Limits[tier]

\* A restore never goes back: what it returns is the state one acknowledged or
\* pending checkpoint of the same account and workflow saved, and no checkpoint
\* of that workflow acknowledged before the request came is newer.  A number
\* names one state: two tokens with one number seal the same state.
RestoresAreLatest ==
    /\ \A r \in {x \in answers : x.kind = "restore"} :
         /\ r.head.sequence >= r.floor
         /\ \E t \in sealed : t.account = r.account /\ t.workflow = r.workflow /\ t.head = r.head
    /\ \A s, t \in sealed :
         /\ <<s.account, s.workflow, s.head.sequence>> = <<t.account, t.workflow, t.head.sequence>>
         => s.head = t.head

\* What is answered was verified for exactly this text and build, after a
\* defense in which no reviewer found anything CRITICAL or BLOCKING and none
\* malfunctioned, for a tier that has the defense; a claim about the résumé is
\* called supported only if the résumé has it.  A reviewer that merely decides
\* BLOCKED does not hold an answer back: attack does not read the decision.
AnswersAreVerified ==
    \A r \in {x \in answers : x.kind # "restore"} :
        /\ r.reply.passed /\ r.reply.verified /\ r.reply.current /\ r.reply.about = r.text
        /\ r.kind = "defense" => /\ r.tier \in {"pro", "elite"}
                                 /\ r.reviews # {} /\ \A x \in r.reviews : ~x.blocking
        /\ \A c \in r.claims : c.status = "SUPPORTED_BY_RESUME" => c.found

-----------------------------------------------------------------------------
(* The invariant that the two rest on. *)

Resting == {"new", "refused", "done"}
Numbered == {"allocated", "sealed", "hashed"}
HeadRow == [sequence : Nat, hash : SUBSET Saved]
Handler ==
    [step : {"known", "admitted", "opened", "attacked", "candidate"} \cup Resting \cup Numbered,
     kind : Kind, account : Account \cup {""}, workflow : Workflow \cup {""},
     tier : {"", "free", "core", "pro", "elite"}, head : HeadRow, until : Nat, floor : Nat,
     text : Text \cup {""}, reviews : SUBSET Reviews, claims : SUBSET Claims]

CommercialTyped ==
    /\ now \in Nat
    /\ heads \in [Account \X Workflow -> HeadRow]
    /\ visit \in [Visitor -> Handler]
    /\ audited \subseteq [account : Account, workflow : Workflow, sequence : Nat]

\* A handler under way knows whose workflow it serves, and went the way of its
\* kind; a defended candidate has passed its reviewers.
VisitStands(v) ==
    /\ visit[v].step \notin Resting => KeyOf(v) \in Account \X Workflow
    /\ visit[v].step \in Numbered => visit[v].kind = "checkpoint"
    /\ visit[v].step = "opened" => visit[v].kind = "restore"
    /\ visit[v].step = "attacked" => visit[v].kind = "defense"
    /\ visit[v].step = "candidate" => visit[v].kind \in {"direct", "defense", "ats"}
    /\ visit[v].step \notin Resting /\ visit[v].kind = "defense" => visit[v].tier \in {"pro", "elite"}
    /\ visit[v].step = "candidate" /\ visit[v].kind = "defense" =>
         visit[v].reviews # {} /\ \A x \in visit[v].reviews : ~x.blocking
    /\ \A c \in visit[v].claims : c.status = "SUPPORTED_BY_RESUME" => c.found

\* The head of a workflow counts its checkpoints: whatever is sealed, audited,
\* awaited or being sealed is not ahead of it.
HeadsLead ==
    /\ \A v \in Visitor : visit[v].step \notin Resting => visit[v].floor <= heads[KeyOf(v)].sequence
    /\ \A v \in Visitor : visit[v].step \in Numbered =>
         visit[v].head.sequence <= heads[KeyOf(v)].sequence
    /\ \A t \in sealed :
         /\ <<t.account, t.workflow>> \in Account \X Workflow
         /\ t.head \in HeadRow
         /\ t.head.sequence <= heads[<<t.account, t.workflow>>].sequence
    /\ \A a \in audited : a.sequence <= heads[<<a.account, a.workflow>>].sequence

\* A number is taken by one checkpoint, which seals it once.
NumbersAreTaken ==
    /\ \A v, u \in Visitor :
         /\ visit[v].step \in Numbered /\ visit[u].step \in Numbered
         /\ KeyOf(v) = KeyOf(u) /\ visit[v].head.sequence = visit[u].head.sequence
         => v = u
    /\ \A v \in Visitor, t \in sealed :
         visit[v].step \in Numbered /\ KeyOf(v) = <<t.account, t.workflow>> =>
             t.head.sequence # visit[v].head.sequence

\* What is being restored was opened from a token.
OpenedIsSealed ==
    \A v \in Visitor : visit[v].step = "opened" =>
        \E t \in sealed : <<t.account, t.workflow>> = KeyOf(v) /\ t.head = visit[v].head

CommercialInv ==
    /\ CommercialTyped
    /\ \A v \in Visitor : VisitStands(v)
    /\ HeadsLead
    /\ NumbersAreTaken
    /\ OpenedIsSealed
    /\ RestoresAreLatest
    /\ AnswersAreVerified
=============================================================================
