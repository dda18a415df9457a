---------------------------- MODULE RuntimeProofs ----------------------------
(***************************************************************************)
(* What the runtime answers and does, in the deployment: the restores and  *)
(* analyses of the commercial runtime, the effects behind the governance   *)
(* kernel with the evidence of them, and the questions and the mastery of  *)
(* the adaptive tutor.                                                     *)
(***************************************************************************)
EXTENDS SafeguardProofs

-----------------------------------------------------------------------------
(* Commercial runtime. *)

LEMMA TierIsKnown ==
    ASSUME NEW owned
    PROVE  EffectiveTier(owned) \in {"free", "core", "pro", "elite"}
<1> DEFINE S == {1} \cup {i \in DOMAIN Tiers : Tiers[i] \in owned}
<1>1. DOMAIN Tiers = 1..4
  BY DEF Tiers
<1>2. S \in SUBSET Nat /\ S # {} /\ \A s \in S : s <= 4
  BY <1>1
<1>3. Max(S) \in S
  <2> HIDE DEF S
  <2> QED
    BY <1>2, MaxFacts
<1>4. Max(S) \in 1..4
  BY <1>1, <1>3
<1>5. \A i \in 1..4 : Tiers[i] \in {"free", "core", "pro", "elite"}
  BY DEF Tiers
<1> QED
  BY <1>4, <1>5 DEF EffectiveTier

LEMMA AcknowledgedIsPast ==
    ASSUME CommercialInv, NEW a \in Account, NEW w \in Workflow
    PROVE  LET m == Max({0} \cup Acknowledged(a, w))
           IN m \in Nat /\ m <= heads[<<a, w>>].sequence
<1> DEFINE S == {0} \cup Acknowledged(a, w)
           n == heads[<<a, w>>].sequence
<1>1. n \in Nat
  BY DEF CommercialInv, CommercialTyped, HeadRow
<1>2. \A s \in S : s \in Nat /\ s <= n
  <2> SUFFICES ASSUME NEW x \in audited, x.account = a, x.workflow = w
               PROVE  x.sequence \in Nat /\ x.sequence <= n
    BY <1>1 DEF Acknowledged
  <2> QED
    BY DEF CommercialInv, CommercialTyped, HeadsLead
<1>3. Max(S) \in S
  <2>1. S \in SUBSET Nat /\ S # {}
    BY <1>2
  <2> HIDE DEF S, n
  <2> QED
    BY <1>1, <1>2, <2>1, MaxFacts
<1> QED
  BY <1>2, <1>3

\* A step of one handler that takes no number and hands nothing out.
LEMMA VisitMoves ==
    ASSUME CommercialInv, NEW v \in Visitor, NEW new \in Handler,
           visit' = [visit EXCEPT ![v] = new], UNCHANGED <<now, sealed, audited>>,
           heads' \in [Account \X Workflow -> HeadRow],
           \A k \in Account \X Workflow : heads'[k].sequence = heads[k].sequence,
           VisitStands(v)',
           new.step \notin Resting => new.floor <= heads[<<new.account, new.workflow>>].sequence,
           new.step \in Numbered =>
               /\ visit[v].step \in Numbered
               /\ new.account = visit[v].account /\ new.workflow = visit[v].workflow
               /\ new.head.sequence = visit[v].head.sequence,
           new.step = "opened" =>
               \E t \in sealed : <<t.account, t.workflow>> = <<new.account, new.workflow>> /\ t.head = new.head
    PROVE  /\ CommercialTyped'
           /\ \A u \in Visitor : VisitStands(u)'
           /\ HeadsLead' /\ NumbersAreTaken' /\ OpenedIsSealed'
<1>1. visit \in [Visitor -> Handler]
  BY DEF CommercialInv, CommercialTyped
<1>2. visit' \in [Visitor -> Handler] /\ visit'[v] = new
  BY <1>1
<1>3. \A u \in Visitor : u # v => visit'[u] = visit[u] /\ KeyOf(u)' = KeyOf(u)
  BY <1>1 DEF KeyOf
<1>4. CommercialTyped'
  BY <1>2 DEF CommercialInv, CommercialTyped
<1>5. ASSUME NEW u \in Visitor PROVE VisitStands(u)'
  BY <1>3 DEF CommercialInv, VisitStands
<1>6. KeyOf(v)' = <<new.account, new.workflow>>
  BY <1>2 DEF KeyOf
<1>k. \A u \in Visitor : visit'[u].step \notin Resting => KeyOf(u)' \in Account \X Workflow
  BY <1>5 DEF VisitStands
<1>7. \A u \in Visitor : visit'[u].step \in Numbered =>
        /\ visit[u].step \in Numbered /\ KeyOf(u)' = KeyOf(u) /\ KeyOf(u) \in Account \X Workflow
        /\ visit'[u].head.sequence = visit[u].head.sequence
  <2> SUFFICES ASSUME NEW u \in Visitor, visit'[u].step \in Numbered
               PROVE  /\ visit[u].step \in Numbered /\ KeyOf(u)' = KeyOf(u) /\ KeyOf(u) \in Account \X Workflow
                      /\ visit'[u].head.sequence = visit[u].head.sequence
    OBVIOUS
  <2>1. KeyOf(u)' \in Account \X Workflow
    BY <1>k DEF Numbered, Resting
  <2>2. CASE u = v
    BY <1>2, <1>6, <2>1, <2>2 DEF KeyOf
  <2>3. CASE u # v
    BY <1>3, <2>1, <2>3
  <2> QED
    BY <2>2, <2>3
<1>8. HeadsLead'
  <2>1. ASSUME NEW u \in Visitor, visit'[u].step \notin Resting
        PROVE  visit'[u].floor <= heads'[KeyOf(u)'].sequence
    <3>1. KeyOf(u)' \in Account \X Workflow
      BY <1>k, <2>1
    <3>2. CASE u = v
      BY <1>2, <1>6, <2>1, <3>1, <3>2
    <3>3. CASE u # v
      BY <1>3, <2>1, <3>1, <3>3 DEF CommercialInv, HeadsLead
    <3> QED
      BY <3>2, <3>3
  <2>2. ASSUME NEW u \in Visitor, visit'[u].step \in Numbered
        PROVE  visit'[u].head.sequence <= heads'[KeyOf(u)'].sequence
    BY <1>7, <2>2 DEF CommercialInv, HeadsLead
  <2>3. \A a \in audited : <<a.account, a.workflow>> \in Account \X Workflow
    BY DEF CommercialInv, CommercialTyped
  <2> QED
    BY <2>1, <2>2, <2>3 DEF CommercialInv, HeadsLead
<1>9. NumbersAreTaken'
  BY <1>7 DEF CommercialInv, NumbersAreTaken
<1>10. OpenedIsSealed'
  <2> SUFFICES ASSUME NEW u \in Visitor, visit'[u].step = "opened"
               PROVE  \E t \in sealed : <<t.account, t.workflow>> = KeyOf(u)' /\ t.head = visit'[u].head
    BY DEF OpenedIsSealed
  <2>1. CASE u = v
    BY <1>2, <1>6, <2>1
  <2>2. CASE u # v
    BY <1>3, <2>2 DEF CommercialInv, OpenedIsSealed
  <2> QED
    BY <2>1, <2>2
<1> QED
  BY <1>4, <1>5, <1>8, <1>9, <1>10

\* Whoever reads the answers finds what was there.
LEMMA AnswersStay ==
    ASSUME CommercialInv, UNCHANGED <<answers, sealed>>
    PROVE  RestoresAreLatest' /\ AnswersAreVerified'
BY DEF CommercialInv, RestoresAreLatest, AnswersAreVerified

\* A handler that ends holds nothing.
LEMMA EndedStands ==
    ASSUME CommercialInv, NEW v \in Visitor, NEW step \in {"done", "refused"}, Ends(v, step)
    PROVE  \E new \in Handler :
             /\ visit' = [visit EXCEPT ![v] = new]
             /\ new.step = step
             /\ VisitStands(v)'
<1> DEFINE new == [Idle(visit[v].kind) EXCEPT !.step = step]
<1>1. visit \in [Visitor -> Handler]
  BY DEF CommercialInv, CommercialTyped
<1>2. visit[v].kind \in Kind
  BY <1>1 DEF Handler
<1>3. new \in Handler /\ new.step = step /\ new.claims = {} /\ new.kind = visit[v].kind
  BY <1>2 DEF Idle, Handler, Resting, NoHead, NoHash, HeadRow
<1>4. visit' = [visit EXCEPT ![v] = new]
  BY DEF Ends
<1>5. visit'[v] = new
  BY <1>1, <1>4
<1> HIDE DEF new
<1>6. VisitStands(v)'
  BY <1>3, <1>5 DEF VisitStands, Resting, Numbered
<1> QED
  BY <1>3, <1>4, <1>6

\* A handler is refused.
LEMMA RefusalInv ==
    ASSUME CommercialInv, NEW v \in Visitor, Ends(v, "refused"),
           UNCHANGED <<now, heads, sealed, audited, answers>>
    PROVE  CommercialInv'
<1>1. PICK new \in Handler : /\ visit' = [visit EXCEPT ![v] = new]
                             /\ new.step = "refused" /\ VisitStands(v)'
  BY EndedStands
<1>2. heads \in [Account \X Workflow -> HeadRow]
  BY DEF CommercialInv, CommercialTyped
<1> QED
  BY <1>1, <1>2, VisitMoves, AnswersStay DEF CommercialInv, Resting, Numbered

\* A handler goes on, without a number and without an answer.
LEMMA AdvanceInv ==
    ASSUME CommercialInv, NEW v \in Visitor, NEW new \in Handler,
           visit' = [visit EXCEPT ![v] = new], VisitStands(v)',
           UNCHANGED <<now, heads, sealed, audited, answers>>,
           new.step \notin Numbered,
           new.step \notin Resting => new.floor <= heads[<<new.account, new.workflow>>].sequence,
           new.step = "opened" =>
               \E t \in sealed : <<t.account, t.workflow>> = <<new.account, new.workflow>> /\ t.head = new.head
    PROVE  CommercialInv'
<1>1. heads \in [Account \X Workflow -> HeadRow]
  BY DEF CommercialInv, CommercialTyped
<1> QED
  BY <1>1, VisitMoves, AnswersStay DEF CommercialInv

LEMMA VisitInv ==
    ASSUME CommercialInv, NEW v \in Visitor, Visit(v)
    PROVE  CommercialInv'
<1>1. CASE Ends(v, "refused")
  BY <1>1, RefusalInv DEF Visit
<1>2. CASE ~Ends(v, "refused")
  <2>1. PICK a \in Account, w \in Workflow :
          /\ MayUse(visit[v].kind, products[a])
          /\ visit' = [visit EXCEPT
               ![v].step = "known",
               ![v].account = a, ![v].workflow = w, ![v].tier = EffectiveTier(products[a]),
               ![v].floor = IF visit[v].kind = "restore" THEN Max({0} \cup Acknowledged(a, w)) ELSE 0]
    BY <1>2 DEF Visit
  <2> DEFINE floor == IF visit[v].kind = "restore" THEN Max({0} \cup Acknowledged(a, w)) ELSE 0
             tier == EffectiveTier(products[a])
             new == [visit[v] EXCEPT !.step = "known", !.account = a, !.workflow = w,
                                     !.tier = tier, !.floor = floor]
  <2>2. visit[v] \in Handler /\ visit \in [Visitor -> Handler]
    BY DEF CommercialInv, CommercialTyped
  <2>3. heads[<<a, w>>].sequence \in Nat
    BY DEF CommercialInv, CommercialTyped, HeadRow
  <2>4. floor \in Nat /\ floor <= heads[<<a, w>>].sequence
    BY <2>3, AcknowledgedIsPast
  <2>5. tier \in {"", "free", "core", "pro", "elite"}
    BY TierIsKnown
  <2>6. visit[v].kind = "defense" => tier \in {"pro", "elite"}
    BY <2>1 DEF MayUse
  <2>7. visit' = [visit EXCEPT ![v] = new]
    BY <2>1, <2>2
  <2> HIDE DEF floor, tier
  <2>8. /\ new \in Handler /\ new.step = "known" /\ new.kind = visit[v].kind /\ new.claims = visit[v].claims
        /\ new.account = a /\ new.workflow = w /\ new.tier = tier /\ new.floor = floor
    BY <2>2, <2>4, <2>5 DEF Handler
  <2> HIDE DEF new
  <2>9. visit'[v] = new
    BY <2>2, <2>7
  <2>10. VisitStands(v)'
    BY <2>6, <2>8, <2>9 DEF VisitStands, CommercialInv, KeyOf, Resting, Numbered
  <2> QED
    BY <2>4, <2>7, <2>8, <2>10, AdvanceInv DEF Visit, Resting, Numbered
<1> QED
  BY <1>1, <1>2

\* A handler that goes on with its step alone keeps what it knows.
LEMMA StepAdvances ==
    ASSUME CommercialInv, NEW v \in Visitor, visit[v].step \notin Resting,
           NEW new \in Handler, visit' = [visit EXCEPT ![v] = new],
           new.step \notin Resting,
           new.account = visit[v].account, new.workflow = visit[v].workflow,
           new.tier = visit[v].tier, new.kind = visit[v].kind, new.floor = visit[v].floor
    PROVE  /\ visit'[v] = new
           /\ KeyOf(v)' = KeyOf(v) /\ KeyOf(v) \in Account \X Workflow
           /\ KeyOf(v) = <<new.account, new.workflow>>
           /\ new.floor <= heads[<<new.account, new.workflow>>].sequence
           /\ new.kind = "defense" => new.tier \in {"pro", "elite"}
           /\ \A c \in visit[v].claims : c.status = "SUPPORTED_BY_RESUME" => c.found
<1>1. visit \in [Visitor -> Handler]
  BY DEF CommercialInv, CommercialTyped
<1>2. visit'[v] = new
  BY <1>1
<1>3. VisitStands(v)
  BY DEF CommercialInv
<1>4. visit[v].floor <= heads[KeyOf(v)].sequence
  BY DEF CommercialInv, HeadsLead
<1> QED
  BY <1>2, <1>3, <1>4 DEF VisitStands, KeyOf

LEMMA RateLimitInv ==
    ASSUME CommercialInv, NEW v \in Visitor, RateLimit(v)
    PROVE  CommercialInv'
<1>1. CASE Ends(v, "refused")
  BY <1>1, RefusalInv DEF RateLimit
<1>2. CASE VisitGoes(v, "admitted")
  <2> DEFINE new == [visit[v] EXCEPT !.step = "admitted"]
  <2>1. visit \in [Visitor -> Handler] /\ visit[v] \in Handler /\ visit[v].step = "known"
    BY DEF CommercialInv, CommercialTyped, RateLimit
  <2>2. /\ new \in Handler /\ new.step = "admitted" /\ visit' = [visit EXCEPT ![v] = new]
        /\ new.account = visit[v].account /\ new.workflow = visit[v].workflow /\ new.claims = visit[v].claims
        /\ new.tier = visit[v].tier /\ new.kind = visit[v].kind /\ new.floor = visit[v].floor
    BY <1>2, <2>1 DEF Handler, VisitGoes
  <2> HIDE DEF new
  <2>3. /\ visit'[v] = new /\ KeyOf(v)' = KeyOf(v) /\ KeyOf(v) \in Account \X Workflow
        /\ new.floor <= heads[<<new.account, new.workflow>>].sequence
        /\ new.kind = "defense" => new.tier \in {"pro", "elite"}
        /\ \A c \in visit[v].claims : c.status = "SUPPORTED_BY_RESUME" => c.found
    BY <2>1, <2>2, StepAdvances DEF Resting
  <2>4. VisitStands(v)'
    BY <2>2, <2>3 DEF VisitStands, Resting, Numbered
  <2> QED
    BY <2>2, <2>3, <2>4, AdvanceInv DEF RateLimit, Resting, Numbered
<1> QED
  BY <1>1, <1>2 DEF RateLimit

LEMMA GenerateInv ==
    ASSUME CommercialInv, NEW v \in Visitor, Generate(v)
    PROVE  CommercialInv'
<1>1. CASE Ends(v, "refused")
  BY <1>1, RefusalInv DEF Generate
<1>2. CASE ~Ends(v, "refused")
  <2>1. PICK t \in Text, claimed \in {{}, {TRUE}, {TRUE, FALSE}} :
          visit' = [visit EXCEPT ![v].text = t, ![v].claims = {Stated(f) : f \in claimed},
                      ![v].step = IF visit[v].kind = "defense" THEN "attacked" ELSE "candidate"]
    BY <1>2 DEF Generate
  <2> DEFINE next == IF visit[v].kind = "defense" THEN "attacked" ELSE "candidate"
             stated == {Stated(f) : f \in claimed}
             new == [visit[v] EXCEPT !.text = t, !.claims = stated, !.step = next]
  <2>2. visit \in [Visitor -> Handler] /\ visit[v] \in Handler /\ visit[v].step = "admitted"
    BY DEF CommercialInv, CommercialTyped, Generate
  <2>3. stated \subseteq Claims /\ \A c \in stated : c.status = "SUPPORTED_BY_RESUME" => c.found
    <3>1. \A f \in claimed : f \in BOOLEAN
      OBVIOUS
    <3>2. ASSUME NEW f \in BOOLEAN
          PROVE  Stated(f) \in Claims /\ (Stated(f).status = "SUPPORTED_BY_RESUME" => Stated(f).found)
      BY DEF Stated, Claims
    <3> QED
      BY <3>1, <3>2
  <2>4. next \in {"attacked", "candidate"} /\ (next = "attacked" <=> visit[v].kind = "defense")
    OBVIOUS
  <2>5. visit[v].kind \in {"direct", "defense", "ats"}
    BY <2>2 DEF Generate, ActionOf, Handler, Kind
  <2>6. visit' = [visit EXCEPT ![v] = new]
    BY <2>1, <2>2
  <2> HIDE DEF next, stated
  <2>7. /\ new \in Handler /\ new.step = next
        /\ new.account = visit[v].account /\ new.workflow = visit[v].workflow /\ new.claims = stated
        /\ new.tier = visit[v].tier /\ new.kind = visit[v].kind /\ new.floor = visit[v].floor
    BY <2>2, <2>3, <2>4 DEF Handler
  <2> HIDE DEF new
  <2>8. /\ visit'[v] = new /\ KeyOf(v)' = KeyOf(v) /\ KeyOf(v) \in Account \X Workflow
        /\ new.floor <= heads[<<new.account, new.workflow>>].sequence
        /\ new.kind = "defense" => new.tier \in {"pro", "elite"}
    BY <2>2, <2>4, <2>6, <2>7, StepAdvances DEF Resting
  <2>9. VisitStands(v)'
    BY <2>3, <2>4, <2>5, <2>7, <2>8 DEF VisitStands, Resting, Numbered
  <2> QED
    BY <2>4, <2>6, <2>7, <2>8, <2>9, AdvanceInv DEF Generate, Resting, Numbered
<1> QED
  BY <1>1, <1>2

LEMMA AttackInv ==
    ASSUME CommercialInv, NEW v \in Visitor, Attack(v)
    PROVE  CommercialInv'
<1>1. CASE Ends(v, "refused")
  BY <1>1, RefusalInv DEF Attack
<1>2. CASE ~Ends(v, "refused")
  <2>1. PICK reviews \in (SUBSET Reviews) \ {{}} :
          /\ ~\E r \in reviews : Blocks(r)
          /\ visit' = [visit EXCEPT ![v].reviews = reviews, ![v].step = "candidate"]
    BY <1>2 DEF Attack
  <2> DEFINE new == [visit[v] EXCEPT !.reviews = reviews, !.step = "candidate"]
  <2>2. visit \in [Visitor -> Handler] /\ visit[v] \in Handler /\ visit[v].step = "attacked"
    BY DEF CommercialInv, CommercialTyped, Attack
  <2>3. visit[v].kind = "defense"
    BY <2>2 DEF CommercialInv, VisitStands
  <2>4. reviews # {} /\ \A x \in reviews : ~x.blocking
    BY <2>1 DEF Blocks
  <2>5. visit' = [visit EXCEPT ![v] = new]
    BY <2>1, <2>2
  <2>6. /\ new \in Handler /\ new.step = "candidate" /\ new.reviews = reviews
        /\ new.account = visit[v].account /\ new.workflow = visit[v].workflow /\ new.claims = visit[v].claims
        /\ new.tier = visit[v].tier /\ new.kind = visit[v].kind /\ new.floor = visit[v].floor
    BY <2>2, <2>4 DEF Handler, Reviews
  <2> HIDE DEF new
  <2>7. /\ visit'[v] = new /\ KeyOf(v)' = KeyOf(v) /\ KeyOf(v) \in Account \X Workflow
        /\ new.floor <= heads[<<new.account, new.workflow>>].sequence
        /\ new.kind = "defense" => new.tier \in {"pro", "elite"}
        /\ \A c \in visit[v].claims : c.status = "SUPPORTED_BY_RESUME" => c.found
    BY <2>2, <2>5, <2>6, StepAdvances DEF Resting
  <2>8. VisitStands(v)'
    BY <2>3, <2>4, <2>6, <2>7 DEF VisitStands, Resting, Numbered
  <2> QED
    BY <2>5, <2>6, <2>7, <2>8, AdvanceInv DEF Attack, Resting, Numbered
<1> QED
  BY <1>1, <1>2

LEMMA OpenTokenInv ==
    ASSUME CommercialInv, NEW v \in Visitor, OpenToken(v)
    PROVE  CommercialInv'
<1>1. CASE Ends(v, "refused")
  BY <1>1, RefusalInv DEF OpenToken
<1>2. CASE ~Ends(v, "refused")
  <2>1. PICK token \in sealed : /\ Opens(token, v)
                                /\ visit' = [visit EXCEPT ![v].step = "opened", ![v].head = token.head]
    BY <1>2 DEF OpenToken
  <2> DEFINE new == [visit[v] EXCEPT !.step = "opened", !.head = token.head]
  <2>2. visit \in [Visitor -> Handler] /\ visit[v] \in Handler /\ visit[v].step = "admitted"
    BY DEF CommercialInv, CommercialTyped, OpenToken
  <2>3. token.head \in HeadRow
    BY DEF CommercialInv, HeadsLead
  <2>4. visit' = [visit EXCEPT ![v] = new]
    BY <2>1, <2>2
  <2>5. /\ new \in Handler /\ new.step = "opened" /\ new.head = token.head
        /\ new.account = visit[v].account /\ new.workflow = visit[v].workflow /\ new.claims = visit[v].claims
        /\ new.tier = visit[v].tier /\ new.kind = visit[v].kind /\ new.floor = visit[v].floor
    BY <2>2, <2>3 DEF Handler
  <2> HIDE DEF new
  <2>6. /\ visit'[v] = new /\ KeyOf(v)' = KeyOf(v) /\ KeyOf(v) \in Account \X Workflow
        /\ KeyOf(v) = <<new.account, new.workflow>>
        /\ new.floor <= heads[<<new.account, new.workflow>>].sequence
        /\ new.kind = "defense" => new.tier \in {"pro", "elite"}
        /\ \A c \in visit[v].claims : c.status = "SUPPORTED_BY_RESUME" => c.found
    BY <2>2, <2>4, <2>5, StepAdvances DEF Resting
  <2>7. new.kind = "restore" /\ <<token.account, token.workflow>> = KeyOf(v)
    BY <2>1, <2>5 DEF OpenToken, Opens
  <2>8. VisitStands(v)'
    BY <2>5, <2>6, <2>7 DEF VisitStands, Resting, Numbered
  <2>9. \E t \in sealed : <<t.account, t.workflow>> = <<new.account, new.workflow>> /\ t.head = new.head
    BY <2>5, <2>6, <2>7
  <2> QED
    BY <2>4, <2>5, <2>6, <2>8, <2>9, AdvanceInv DEF OpenToken, Resting, Numbered
<1> QED
  BY <1>1, <1>2

LEMMA SealInv ==
    ASSUME CommercialInv, NEW v \in Visitor, Seal(v)
    PROVE  CommercialInv'
<1>1. CASE Ends(v, "refused")
  BY <1>1, RefusalInv DEF Seal
<1>2. CASE ~Ends(v, "refused")
  <2>1. PICK s \in Saved :
          visit' = [visit EXCEPT ![v].step = "sealed", ![v].head.hash = {s}, ![v].until = now + TTL]
    BY <1>2 DEF Seal
  <2> DEFINE head == [visit[v].head EXCEPT !.hash = {s}]
             until == now + TTL
             new == [visit[v] EXCEPT !.step = "sealed", !.head = head, !.until = until]
  <2>2. visit \in [Visitor -> Handler] /\ visit[v] \in Handler /\ visit[v].step = "allocated"
    BY DEF CommercialInv, CommercialTyped, Seal
  <2>3. head \in HeadRow /\ head.sequence = visit[v].head.sequence /\ until \in Nat
    <3>1. visit[v].head \in HeadRow
      BY <2>2 DEF Handler
    <3>2. head \in HeadRow /\ head.sequence = visit[v].head.sequence
      BY <3>1 DEF HeadRow
    <3>3. now \in Nat /\ TTL \in Nat
      BY CommercialAssumption DEF CommercialInv, CommercialTyped
    <3> QED
      BY <3>2, <3>3
  <2>4. visit' = [visit EXCEPT ![v] = new]
    BY <2>1, <2>2 DEF Handler, HeadRow
  <2> HIDE DEF head, until
  <2>5. /\ new \in Handler /\ new.step = "sealed" /\ new.head = head
        /\ new.account = visit[v].account /\ new.workflow = visit[v].workflow /\ new.claims = visit[v].claims
        /\ new.tier = visit[v].tier /\ new.kind = visit[v].kind /\ new.floor = visit[v].floor
    BY <2>2, <2>3 DEF Handler, Numbered
  <2> HIDE DEF new
  <2>6. /\ visit'[v] = new /\ KeyOf(v)' = KeyOf(v) /\ KeyOf(v) \in Account \X Workflow
        /\ new.floor <= heads[<<new.account, new.workflow>>].sequence
        /\ \A c \in visit[v].claims : c.status = "SUPPORTED_BY_RESUME" => c.found
    BY <2>2, <2>4, <2>5, StepAdvances DEF Resting
  <2>7. visit[v].kind = "checkpoint"
    BY <2>2 DEF CommercialInv, VisitStands, Numbered
  <2>8. VisitStands(v)'
    BY <2>5, <2>6, <2>7 DEF VisitStands, Resting, Numbered
  <2>9. heads \in [Account \X Workflow -> HeadRow]
    BY DEF CommercialInv, CommercialTyped
  <2> QED
    BY <2>2, <2>3, <2>4, <2>5, <2>6, <2>8, <2>9, VisitMoves, AnswersStay
       DEF Seal, CommercialInv, Resting, Numbered
<1> QED
  BY <1>1, <1>2

\* The hash is only set on the number it was sealed for.
LEMMA SetWorkflowHashInv ==
    ASSUME CommercialInv, NEW v \in Visitor, SetWorkflowHash(v)
    PROVE  CommercialInv'
<1>1. CASE Ends(v, "refused") /\ UNCHANGED heads
  BY <1>1, RefusalInv DEF SetWorkflowHash
<1>2. CASE /\ heads' = [heads EXCEPT ![KeyOf(v)].hash = visit[v].head.hash]
           /\ VisitGoes(v, "hashed")
  <2> DEFINE new == [visit[v] EXCEPT !.step = "hashed"]
             head == [heads[KeyOf(v)] EXCEPT !.hash = visit[v].head.hash]
  <2>1. visit \in [Visitor -> Handler] /\ visit[v] \in Handler /\ visit[v].step = "sealed"
    BY DEF CommercialInv, CommercialTyped, SetWorkflowHash
  <2>2. /\ new \in Handler /\ new.step = "hashed" /\ visit' = [visit EXCEPT ![v] = new]
        /\ new.account = visit[v].account /\ new.workflow = visit[v].workflow /\ new.claims = visit[v].claims
        /\ new.tier = visit[v].tier /\ new.kind = visit[v].kind /\ new.floor = visit[v].floor
        /\ new.head = visit[v].head
    BY <1>2, <2>1 DEF Handler, VisitGoes, Numbered
  <2> HIDE DEF new
  <2>3. /\ visit'[v] = new /\ KeyOf(v)' = KeyOf(v) /\ KeyOf(v) \in Account \X Workflow
        /\ new.floor <= heads[<<new.account, new.workflow>>].sequence
        /\ \A c \in visit[v].claims : c.status = "SUPPORTED_BY_RESUME" => c.found
    BY <2>1, <2>2, StepAdvances DEF Resting
  <2>4. visit[v].kind = "checkpoint"
    BY <2>1 DEF CommercialInv, VisitStands, Numbered
  <2>5. VisitStands(v)'
    BY <2>2, <2>3, <2>4 DEF VisitStands, Resting, Numbered
  <2>6. heads \in [Account \X Workflow -> HeadRow]
    BY DEF CommercialInv, CommercialTyped
  <2>7. head \in HeadRow /\ head.sequence = heads[KeyOf(v)].sequence
    BY <2>1, <2>3, <2>6 DEF Handler, HeadRow
  <2>8. heads' = [heads EXCEPT ![KeyOf(v)] = head]
    BY <1>2, <2>6
  <2> HIDE DEF head
  <2>9. heads' \in [Account \X Workflow -> HeadRow]
    BY <2>6, <2>7, <2>8
  <2>10. \A k \in Account \X Workflow : heads'[k].sequence = heads[k].sequence
    BY <2>6, <2>7, <2>8
  <2> QED
    BY <2>1, <2>2, <2>3, <2>5, <2>9, <2>10, VisitMoves, AnswersStay
       DEF SetWorkflowHash, CommercialInv, Resting, Numbered
<1> QED
  BY <1>1, <1>2 DEF SetWorkflowHash

\* An answer that is added is one more to be true.
LEMMA RestoreCheckpointInv ==
    ASSUME CommercialInv, NEW v \in Visitor, RestoreCheckpoint(v)
    PROVE  CommercialInv'
<1>1. CASE Ends(v, "refused") /\ UNCHANGED answers
  BY <1>1, RefusalInv DEF RestoreCheckpoint
<1> DEFINE restored == [kind |-> "restore", account |-> visit[v].account, workflow |-> visit[v].workflow,
                        head |-> visit[v].head, floor |-> visit[v].floor]
<1>2. CASE /\ heads[KeyOf(v)] = visit[v].head
           /\ answers' = answers \cup {restored}
           /\ Ends(v, "done")
  <2>1. PICK new \in Handler : /\ visit' = [visit EXCEPT ![v] = new]
                               /\ new.step = "done" /\ VisitStands(v)'
    BY <1>2, EndedStands
  <2>2. heads \in [Account \X Workflow -> HeadRow]
    BY DEF CommercialInv, CommercialTyped
  <2>3. visit[v].step = "opened" /\ UNCHANGED <<now, heads, sealed, audited>>
    BY DEF RestoreCheckpoint
  <2>4. visit[v].floor <= visit[v].head.sequence
    BY <1>2, <2>3 DEF CommercialInv, HeadsLead, Resting
  <2>5. visit[v].floor \in Nat /\ visit[v].head.sequence \in Nat
    BY DEF CommercialInv, CommercialTyped, Handler, HeadRow
  <2>6. \E t \in sealed : <<t.account, t.workflow>> = KeyOf(v) /\ t.head = visit[v].head
    BY <2>3 DEF CommercialInv, OpenedIsSealed
  <2>7. restored.head.sequence >= restored.floor
    BY <2>4, <2>5
  <2>8. \E t \in sealed : t.account = restored.account /\ t.workflow = restored.workflow /\ t.head = restored.head
    BY <2>6 DEF KeyOf
  <2>9. restored.kind = "restore"
    OBVIOUS
  <2> HIDE DEF restored
  <2>10. RestoresAreLatest'
    BY <1>2, <2>3, <2>7, <2>8 DEF CommercialInv, RestoresAreLatest
  <2>11. AnswersAreVerified'
    BY <1>2, <2>9 DEF CommercialInv, AnswersAreVerified
  <2> QED
    BY <2>1, <2>2, <2>3, <2>10, <2>11, VisitMoves DEF CommercialInv, Resting, Numbered
<1> QED
  BY <1>1, <1>2 DEF RestoreCheckpoint

LEMMA VerifyCandidateInv ==
    ASSUME CommercialInv, NEW v \in Visitor, VerifyCandidate(v)
    PROVE  CommercialInv'
<1>1. CASE Ends(v, "refused") /\ UNCHANGED answers
  BY <1>1, RefusalInv DEF VerifyCandidate
<1>2. CASE ~(Ends(v, "refused") /\ UNCHANGED answers)
  <2>1. PICK said \in RoadReplies :
          /\ Receipt(said, visit[v].text)
          /\ answers' = answers \cup
               {[kind |-> visit[v].kind, tier |-> visit[v].tier, text |-> visit[v].text,
                 reply |-> said, reviews |-> visit[v].reviews, claims |-> visit[v].claims]}
          /\ Ends(v, "done")
    BY <1>2 DEF VerifyCandidate
  <2> DEFINE verified == [kind |-> visit[v].kind, tier |-> visit[v].tier, text |-> visit[v].text,
                          reply |-> said, reviews |-> visit[v].reviews, claims |-> visit[v].claims]
  <2>2. PICK new \in Handler : /\ visit' = [visit EXCEPT ![v] = new]
                               /\ new.step = "done" /\ VisitStands(v)'
    BY <2>1, EndedStands
  <2>3. heads \in [Account \X Workflow -> HeadRow]
    BY DEF CommercialInv, CommercialTyped
  <2>4. visit[v].step = "candidate" /\ UNCHANGED <<now, heads, sealed, audited>>
    BY DEF VerifyCandidate
  <2>5. VisitStands(v)
    BY DEF CommercialInv
  <2>6. /\ verified.kind # "restore"
        /\ verified.reply.passed /\ verified.reply.verified /\ verified.reply.current
        /\ verified.reply.about = verified.text
        /\ verified.kind = "defense" => /\ verified.tier \in {"pro", "elite"}
                                        /\ verified.reviews # {} /\ \A x \in verified.reviews : ~x.blocking
        /\ \A c \in verified.claims : c.status = "SUPPORTED_BY_RESUME" => c.found
    BY <2>1, <2>4, <2>5 DEF VisitStands, Receipt, Resting
  <2>7. answers' = answers \cup {verified}
    BY <2>1
  <2> HIDE DEF verified
  <2>8. RestoresAreLatest'
    BY <2>4, <2>6, <2>7 DEF CommercialInv, RestoresAreLatest
  <2>9. AnswersAreVerified'
    <3> SUFFICES ASSUME NEW r \in answers', r.kind # "restore"
                 PROVE  /\ r.reply.passed /\ r.reply.verified /\ r.reply.current /\ r.reply.about = r.text
                        /\ r.kind = "defense" => /\ r.tier \in {"pro", "elite"}
                                                 /\ r.reviews # {} /\ \A x \in r.reviews : ~x.blocking
                        /\ \A c \in r.claims : c.status = "SUPPORTED_BY_RESUME" => c.found
      BY DEF AnswersAreVerified
    <3>1. CASE r \in answers
      BY <3>1 DEF CommercialInv, AnswersAreVerified
    <3>2. CASE r = verified
      BY <2>6, <3>2
    <3> QED
      BY <2>7, <3>1, <3>2
  <2> QED
    BY <2>2, <2>3, <2>4, <2>8, <2>9, VisitMoves DEF CommercialInv, Resting, Numbered
<1> QED
  BY <1>1, <1>2

\* The number a checkpoint takes is ahead of all that are taken.
LEMMA AllocateSequenceInv ==
    ASSUME CommercialInv, NEW v \in Visitor, AllocateSequence(v)
    PROVE  CommercialInv'
<1> DEFINE key == KeyOf(v)
           n == heads[key].sequence + 1
           head == [visit[v].head EXCEPT !.sequence = n]
           new == [visit[v] EXCEPT !.step = "allocated", !.head = head]
<1>1. visit \in [Visitor -> Handler] /\ visit[v] \in Handler /\ visit[v].step = "admitted"
  BY DEF CommercialInv, CommercialTyped, AllocateSequence
<1>2. key \in Account \X Workflow /\ heads \in [Account \X Workflow -> HeadRow]
  BY <1>1 DEF CommercialInv, CommercialTyped, VisitStands, Resting
<1>3. heads[key].sequence \in Nat /\ n \in Nat /\ heads[key].sequence < n
  BY <1>2 DEF HeadRow
<1>4. head \in HeadRow /\ head.sequence = n
  <2>1. visit[v].head \in HeadRow
    BY <1>1 DEF Handler
  <2> QED
    BY <1>3, <2>1 DEF HeadRow
<1>5. /\ heads' = [heads EXCEPT ![key] = [sequence |-> n, hash |-> NoHash]]
      /\ UNCHANGED <<now, sealed, audited, answers>>
      /\ visit[v].kind = "checkpoint"
  BY DEF AllocateSequence
<1>6. visit' = [visit EXCEPT ![v] = new]
  BY <1>1, <1>4 DEF AllocateSequence, Handler, HeadRow
<1> HIDE DEF head
<1>7. /\ new \in Handler /\ new.step = "allocated" /\ new.head = head
      /\ new.account = visit[v].account /\ new.workflow = visit[v].workflow /\ new.claims = visit[v].claims
      /\ new.tier = visit[v].tier /\ new.kind = visit[v].kind /\ new.floor = visit[v].floor
  BY <1>1, <1>4 DEF Handler, Numbered
<1> HIDE DEF new
<1>8. /\ visit'[v] = new /\ KeyOf(v)' = key
      /\ \A c \in visit[v].claims : c.status = "SUPPORTED_BY_RESUME" => c.found
  BY <1>1, <1>6, <1>7, StepAdvances DEF Resting
<1>9. \A u \in Visitor : u # v => visit'[u] = visit[u] /\ KeyOf(u)' = KeyOf(u)
  BY <1>1, <1>6 DEF KeyOf
<1>10. \A k \in Account \X Workflow :
          /\ heads[k].sequence \in Nat /\ heads'[k].sequence \in Nat
          /\ heads[k].sequence <= heads'[k].sequence
          /\ k = key => heads'[k].sequence = n
  BY <1>2, <1>3, <1>5 DEF HeadRow
<1>11. CommercialTyped'
  <2>1. [sequence |-> n, hash |-> NoHash] \in HeadRow
    BY <1>3 DEF HeadRow, NoHash
  <2>2. heads' \in [Account \X Workflow -> HeadRow]
    BY <1>2, <1>5, <2>1
  <2>3. visit' \in [Visitor -> Handler]
    BY <1>1, <1>6, <1>7
  <2> QED
    BY <1>5, <2>2, <2>3 DEF CommercialInv, CommercialTyped
<1>12. ASSUME NEW u \in Visitor PROVE VisitStands(u)'
  <2>1. CASE u = v
    BY <1>2, <1>5, <1>7, <1>8, <2>1 DEF VisitStands, Resting, Numbered
  <2>2. CASE u # v
    BY <1>9, <2>2 DEF CommercialInv, VisitStands
  <2> QED
    BY <2>1, <2>2
<1>k. \A u \in Visitor : visit'[u].step \notin Resting => KeyOf(u)' \in Account \X Workflow
  BY <1>12 DEF VisitStands
<1>13. HeadsLead'
  <2>1. ASSUME NEW u \in Visitor, visit'[u].step \notin Resting
        PROVE  visit'[u].floor <= heads'[KeyOf(u)'].sequence
    <3>1. visit'[u].floor = visit[u].floor /\ visit[u].step \notin Resting /\ KeyOf(u)' = KeyOf(u)
      BY <1>1, <1>7, <1>8, <1>9, <2>1 DEF Resting
    <3>2. visit[u].floor \in Nat /\ visit[u].floor <= heads[KeyOf(u)].sequence /\ KeyOf(u) \in Account \X Workflow
      BY <1>k, <2>1, <3>1 DEF CommercialInv, HeadsLead, CommercialTyped, Handler
    <3> QED
      BY <1>10, <3>1, <3>2
  <2>2. ASSUME NEW u \in Visitor, visit'[u].step \in Numbered
        PROVE  visit'[u].head.sequence <= heads'[KeyOf(u)'].sequence
    <3>1. CASE u = v
      BY <1>2, <1>3, <1>4, <1>7, <1>8, <1>10, <3>1
    <3>2. CASE u # v
      <4>1. visit[u].head.sequence \in Nat
        BY <1>1 DEF Handler, HeadRow
      <4>2. visit[u].head.sequence <= heads[KeyOf(u)].sequence /\ KeyOf(u) \in Account \X Workflow
        BY <1>k, <1>9, <2>2, <3>2 DEF CommercialInv, HeadsLead, Numbered, Resting
      <4> QED
        BY <1>9, <1>10, <3>2, <4>1, <4>2
    <3> QED
      BY <3>1, <3>2
  <2>3. ASSUME NEW t \in sealed
        PROVE  /\ <<t.account, t.workflow>> \in Account \X Workflow
               /\ t.head \in HeadRow
               /\ t.head.sequence <= heads'[<<t.account, t.workflow>>].sequence
    <3>1. /\ <<t.account, t.workflow>> \in Account \X Workflow /\ t.head \in HeadRow
          /\ t.head.sequence <= heads[<<t.account, t.workflow>>].sequence
      BY DEF CommercialInv, HeadsLead
    <3>2. t.head.sequence \in Nat
      BY <3>1 DEF HeadRow
    <3> QED
      BY <1>10, <3>1, <3>2
  <2>4. ASSUME NEW a \in audited PROVE a.sequence <= heads'[<<a.account, a.workflow>>].sequence
    <3>1. <<a.account, a.workflow>> \in Account \X Workflow /\ a.sequence \in Nat
      BY DEF CommercialInv, CommercialTyped
    <3>2. a.sequence <= heads[<<a.account, a.workflow>>].sequence
      BY DEF CommercialInv, HeadsLead
    <3> QED
      BY <1>10, <3>1, <3>2
  <2> QED
    BY <1>5, <2>1, <2>2, <2>3, <2>4 DEF HeadsLead
<1>14. NumbersAreTaken'
  <2>1. ASSUME NEW u \in Visitor, u # v, visit'[u].step \in Numbered, KeyOf(u)' = key
        PROVE  visit'[u].head.sequence # n
    <3>1. visit[u].head.sequence \in Nat
      BY <1>1 DEF Handler, HeadRow
    <3>2. visit[u].head.sequence <= heads[key].sequence
      BY <1>9, <2>1 DEF CommercialInv, HeadsLead
    <3> QED
      BY <1>3, <1>9, <2>1, <3>1, <3>2
  <2>2. ASSUME NEW t \in sealed, <<t.account, t.workflow>> = key
        PROVE  t.head.sequence # n
    <3>1. t.head \in HeadRow /\ t.head.sequence <= heads[key].sequence
      BY <2>2 DEF CommercialInv, HeadsLead
    <3>2. t.head.sequence \in Nat
      BY <3>1 DEF HeadRow
    <3> QED
      BY <1>3, <3>1, <3>2
  <2>3. visit'[v].head.sequence = n
    BY <1>4, <1>7, <1>8
  <2>4. ASSUME NEW u \in Visitor, NEW w \in Visitor,
               visit'[u].step \in Numbered, visit'[w].step \in Numbered,
               KeyOf(u)' = KeyOf(w)', visit'[u].head.sequence = visit'[w].head.sequence
        PROVE  u = w
    <3>1. CASE u # v /\ w # v
      BY <1>9, <2>4, <3>1 DEF CommercialInv, NumbersAreTaken
    <3>2. CASE u = v /\ w # v
      BY <1>8, <2>1, <2>3, <2>4, <3>2
    <3>3. CASE u # v /\ w = v
      BY <1>8, <2>1, <2>3, <2>4, <3>3
    <3> QED
      BY <3>1, <3>2, <3>3
  <2>5. ASSUME NEW u \in Visitor, NEW t \in sealed,
               visit'[u].step \in Numbered, KeyOf(u)' = <<t.account, t.workflow>>
        PROVE  t.head.sequence # visit'[u].head.sequence
    <3>1. CASE u = v
      BY <1>8, <2>2, <2>3, <2>5, <3>1
    <3>2. CASE u # v
      BY <1>9, <2>5, <3>2 DEF CommercialInv, NumbersAreTaken
    <3> QED
      BY <3>1, <3>2
  <2> QED
    BY <1>5, <2>4, <2>5 DEF NumbersAreTaken
<1>15. OpenedIsSealed'
  <2> SUFFICES ASSUME NEW u \in Visitor, visit'[u].step = "opened"
               PROVE  \E t \in sealed : <<t.account, t.workflow>> = KeyOf(u)' /\ t.head = visit'[u].head
    BY <1>5 DEF OpenedIsSealed
  <2>1. u # v
    BY <1>7, <1>8
  <2> QED
    BY <1>9, <2>1 DEF CommercialInv, OpenedIsSealed
<1> QED
  BY <1>5, <1>11, <1>12, <1>13, <1>14, <1>15, AnswersStay DEF CommercialInv

\* A token that is handed out is the only one of its number.
LEMMA HandOutInv ==
    ASSUME CommercialInv, NEW v \in Visitor, HandOut(v)
    PROVE  CommercialInv'
<1> DEFINE entry == [account |-> visit[v].account, workflow |-> visit[v].workflow,
                   sequence |-> visit[v].head.sequence]
           token == [account |-> visit[v].account, workflow |-> visit[v].workflow, head |-> visit[v].head,
                     policy |-> policy, until |-> visit[v].until]
<1>1. visit \in [Visitor -> Handler] /\ visit[v] \in Handler /\ visit[v].step = "hashed"
  BY DEF CommercialInv, CommercialTyped, HandOut
<1>2. /\ audited' = audited \cup {entry} /\ sealed' = sealed \cup {token}
      /\ Ends(v, "done") /\ UNCHANGED <<now, heads, answers>>
  BY DEF HandOut
<1>3. PICK new \in Handler : /\ visit' = [visit EXCEPT ![v] = new]
                             /\ new.step = "done" /\ VisitStands(v)'
  BY <1>2, EndedStands
<1>4. KeyOf(v) \in Account \X Workflow
  BY <1>1 DEF CommercialInv, VisitStands, Resting
<1>5. visit[v].head \in HeadRow /\ visit[v].head.sequence <= heads[KeyOf(v)].sequence
  BY <1>1 DEF CommercialInv, HeadsLead, Handler, Numbered
<1>6. visit[v].head.sequence \in Nat
  BY <1>5 DEF HeadRow
<1>7. /\ <<token.account, token.workflow>> = KeyOf(v) /\ token.head = visit[v].head
      /\ <<entry.account, entry.workflow>> = KeyOf(v) /\ entry.sequence = visit[v].head.sequence
      /\ entry \in [account : Account, workflow : Workflow, sequence : Nat]
  BY <1>4, <1>6 DEF KeyOf
<1> HIDE DEF entry, token
<1>8. visit' \in [Visitor -> Handler] /\ visit'[v] = new
  BY <1>1, <1>3
<1>9. \A u \in Visitor : u # v => visit'[u] = visit[u] /\ KeyOf(u)' = KeyOf(u)
  BY <1>1, <1>3 DEF KeyOf
<1>10. CommercialTyped'
  BY <1>2, <1>7, <1>8 DEF CommercialInv, CommercialTyped
<1>11. ASSUME NEW u \in Visitor PROVE VisitStands(u)'
  BY <1>3, <1>9 DEF CommercialInv, VisitStands
<1>12. visit'[v].step = "done"
  BY <1>3, <1>8
<1>13. HeadsLead'
  <2>1. ASSUME NEW u \in Visitor
        PROVE  /\ visit'[u].step \notin Resting => visit'[u].floor <= heads[KeyOf(u)'].sequence
               /\ visit'[u].step \in Numbered => visit'[u].head.sequence <= heads[KeyOf(u)'].sequence
    BY <1>9, <1>12 DEF CommercialInv, HeadsLead, Resting, Numbered
  <2>2. ASSUME NEW t \in sealed'
        PROVE  /\ <<t.account, t.workflow>> \in Account \X Workflow
               /\ t.head \in HeadRow
               /\ t.head.sequence <= heads[<<t.account, t.workflow>>].sequence
    <3>1. CASE t \in sealed
      BY <3>1 DEF CommercialInv, HeadsLead
    <3>2. CASE t = token
      BY <1>4, <1>5, <1>7, <3>2
    <3> QED
      BY <1>2, <3>1, <3>2
  <2>3. ASSUME NEW a \in audited' PROVE a.sequence <= heads[<<a.account, a.workflow>>].sequence
    <3>1. CASE a \in audited
      BY <3>1 DEF CommercialInv, HeadsLead
    <3>2. CASE a = entry
      BY <1>5, <1>7, <3>2
    <3> QED
      BY <1>2, <3>1, <3>2
  <2> QED
    BY <1>2, <2>1, <2>2, <2>3 DEF HeadsLead
<1>14. NumbersAreTaken'
  <2>1. \A u, w \in Visitor :
          /\ visit'[u].step \in Numbered /\ visit'[w].step \in Numbered
          /\ KeyOf(u)' = KeyOf(w)' /\ visit'[u].head.sequence = visit'[w].head.sequence
          => u = w
    BY <1>9, <1>12 DEF CommercialInv, NumbersAreTaken, Numbered
  <2>2. ASSUME NEW u \in Visitor, NEW t \in sealed',
               visit'[u].step \in Numbered, KeyOf(u)' = <<t.account, t.workflow>>
        PROVE  t.head.sequence # visit'[u].head.sequence
    <3>1. u # v
      BY <1>12, <2>2 DEF Numbered
    <3>2. CASE t \in sealed
      BY <1>9, <2>2, <3>1, <3>2 DEF CommercialInv, NumbersAreTaken
    <3>3. CASE t = token
      BY <1>1, <1>7, <1>9, <2>2, <3>1, <3>3 DEF CommercialInv, NumbersAreTaken, Numbered
    <3> QED
      BY <1>2, <3>2, <3>3
  <2> QED
    BY <2>1, <2>2 DEF NumbersAreTaken
<1>15. OpenedIsSealed'
  <2> SUFFICES ASSUME NEW u \in Visitor, visit'[u].step = "opened"
               PROVE  \E t \in sealed' : <<t.account, t.workflow>> = KeyOf(u)' /\ t.head = visit'[u].head
    BY DEF OpenedIsSealed
  <2> QED
    BY <1>2, <1>9, <1>12 DEF CommercialInv, OpenedIsSealed
<1>16. RestoresAreLatest'
  <2>1. ASSUME NEW s \in sealed', NEW t \in sealed',
               <<s.account, s.workflow, s.head.sequence>> = <<t.account, t.workflow, t.head.sequence>>
        PROVE  s.head = t.head
    <3>1. \A x \in sealed : <<x.account, x.workflow>> = KeyOf(v) => x.head.sequence # visit[v].head.sequence
      BY <1>1 DEF CommercialInv, NumbersAreTaken, Numbered
    <3>2. CASE s \in sealed /\ t \in sealed
      BY <2>1, <3>2 DEF CommercialInv, RestoresAreLatest
    <3>3. CASE s = token /\ t \in sealed
      BY <1>7, <2>1, <3>1, <3>3
    <3>4. CASE s \in sealed /\ t = token
      BY <1>7, <2>1, <3>1, <3>4
    <3> QED
      BY <1>2, <3>2, <3>3, <3>4
  <2> QED
    BY <1>2, <2>1 DEF CommercialInv, RestoresAreLatest
<1>17. AnswersAreVerified'
  BY <1>2 DEF CommercialInv, AnswersAreVerified
<1> QED
  BY <1>10, <1>11, <1>13, <1>14, <1>15, <1>16, <1>17 DEF CommercialInv

LEMMA CommercialRestartInv ==
    ASSUME CommercialInv, CommercialRestart
    PROVE  CommercialInv'
<1>1. UNCHANGED <<now, heads, sealed, audited, answers>>
  BY DEF CommercialRestart
<1>2. visit \in [Visitor -> Handler]
  BY DEF CommercialInv, CommercialTyped
<1>3. ASSUME NEW v \in Visitor
      PROVE  /\ visit'[v] = visit[v] \/ visit'[v] = [Idle(visit[v].kind) EXCEPT !.step = "refused"]
             /\ visit'[v].step \in Resting
  BY DEF CommercialRestart, Resting, Idle
<1>4. ASSUME NEW v \in Visitor
      PROVE  /\ [Idle(visit[v].kind) EXCEPT !.step = "refused"] \in Handler
             /\ [Idle(visit[v].kind) EXCEPT !.step = "refused"].claims = {}
  <2>1. visit[v].kind \in Kind
    BY <1>2 DEF Handler
  <2> QED
    BY <2>1 DEF Idle, Handler, Resting, NoHead, NoHash, HeadRow
<1>5. CommercialTyped'
  <2>1. visit' = [v \in Visitor |-> visit'[v]]
    BY DEF CommercialRestart
  <2>2. \A v \in Visitor : visit'[v] \in Handler
    BY <1>2, <1>3, <1>4
  <2>3. visit' \in [Visitor -> Handler]
    BY <2>1, <2>2
  <2> QED
    BY <1>1, <2>3 DEF CommercialInv, CommercialTyped
<1>6. ASSUME NEW v \in Visitor PROVE VisitStands(v)'
  <2>1. visit'[v].claims \in {visit[v].claims, {}}
    BY <1>3, <1>4
  <2> QED
    BY <1>3, <2>1 DEF CommercialInv, VisitStands, Resting, Numbered
<1>7. HeadsLead' /\ NumbersAreTaken' /\ OpenedIsSealed'
  BY <1>1, <1>3 DEF CommercialInv, HeadsLead, NumbersAreTaken, OpenedIsSealed, Resting, Numbered
<1> QED
  BY <1>1, <1>5, <1>6, <1>7, AnswersStay DEF CommercialInv

\* Time and billing touch nothing that was promised.
LEMMA OthersKeepCommercial ==
    ASSUME CommercialInv, now' \in Nat, UNCHANGED <<heads, sealed, visit, audited, answers>>
    PROVE  CommercialInv'
<1>1. CommercialTyped' /\ \A v \in Visitor : VisitStands(v)'
  BY DEF CommercialInv, CommercialTyped, VisitStands, KeyOf
<1>2. HeadsLead' /\ NumbersAreTaken' /\ OpenedIsSealed'
  BY DEF CommercialInv, HeadsLead, NumbersAreTaken, OpenedIsSealed, KeyOf
<1> QED
  BY <1>1, <1>2, AnswersStay DEF CommercialInv

LEMMA InitCommercial == CommercialInit => CommercialInv
<1> SUFFICES ASSUME CommercialInit PROVE CommercialInv
  OBVIOUS
<1>1. PICK mix \in Mixes : visit = [v \in Visitor |-> Idle(mix[v])]
  BY DEF CommercialInit
<1>2. \A v \in Visitor : mix[v] \in Kind
  BY CommercialAssumption
<1>3. ASSUME NEW v \in Visitor
      PROVE  Idle(mix[v]) \in Handler /\ Idle(mix[v]).step = "new" /\ Idle(mix[v]).claims = {}
  BY <1>2 DEF Idle, Handler, Resting, NoHead, NoHash, HeadRow
<1>4. visit \in [Visitor -> Handler]
  <2> HIDE DEF Handler
  <2> QED
    BY <1>1, <1>3
<1>5. NoHead \in HeadRow
  BY DEF NoHead, NoHash, HeadRow
<1>6. CommercialTyped
  BY <1>4, <1>5 DEF CommercialInit, CommercialTyped
<1>7. \A v \in Visitor : visit[v].step = "new" /\ visit[v].claims = {}
  BY <1>1, <1>3
<1>8. \A v \in Visitor : VisitStands(v)
  BY <1>7 DEF VisitStands, Resting, Numbered
<1>9. HeadsLead /\ NumbersAreTaken /\ OpenedIsSealed
  BY <1>7 DEF CommercialInit, HeadsLead, NumbersAreTaken, OpenedIsSealed, Resting, Numbered
<1>10. RestoresAreLatest /\ AnswersAreVerified
  BY DEF CommercialInit, RestoresAreLatest, AnswersAreVerified
<1> QED
  BY <1>6, <1>8, <1>9, <1>10 DEF CommercialInv

LEMMA CommercialStep ==
    ASSUME CommercialInv, CommercialNext
    PROVE  CommercialInv'
<1>1. ASSUME NEW v \in Visitor,
             \/ Visit(v) \/ RateLimit(v) \/ AllocateSequence(v) \/ Seal(v) \/ SetWorkflowHash(v) \/ HandOut(v)
             \/ OpenToken(v) \/ RestoreCheckpoint(v) \/ Generate(v) \/ Attack(v) \/ VerifyCandidate(v)
      PROVE  CommercialInv'
  BY <1>1, VisitInv, RateLimitInv, AllocateSequenceInv, SealInv, SetWorkflowHashInv, HandOutInv,
     OpenTokenInv, RestoreCheckpointInv, GenerateInv, AttackInv, VerifyCandidateInv
<1>2. CASE CommercialMinute
  <2>1. now' \in Nat
    BY <1>2 DEF CommercialMinute, CommercialInv, CommercialTyped
  <2> QED
    BY <1>2, <2>1, OthersKeepCommercial DEF CommercialMinute
<1>3. CASE ProductsChange
  <2>1. now' \in Nat
    BY <1>3 DEF ProductsChange, CommercialInv, CommercialTyped
  <2> QED
    BY <1>3, <2>1, OthersKeepCommercial DEF ProductsChange
<1>4. CASE CommercialRestart
  BY <1>4, CommercialRestartInv
<1> QED
  BY <1>1, <1>2, <1>3, <1>4 DEF CommercialNext

-----------------------------------------------------------------------------
(* Enforcement. *)

LEMMA MinOfTwo ==
    ASSUME NEW a \in Int, NEW b \in Int
    PROVE  Min({a, b}) \in Int /\ Min({a, b}) \in {a, b}
<1>1. \E x \in {a, b} : \A y \in {a, b} : x <= y
  <2>1. CASE a <= b
    BY <2>1
  <2>2. CASE b <= a
    BY <2>2
  <2> QED
    BY <2>1, <2>2
<1> QED
  BY <1>1 DEF Min

LEMMA RiskIsNumber ==
    ASSUME NEW r \in Asked
    PROVE  Risk(r) \in Int
<1> DEFINE Weight(b, w) == IF b THEN w ELSE 0
           records == (r.records * 10000) \div 30
           value == (r.value * 10000) \div 35
<1>1. r.records \in Nat /\ r.value \in Nat /\ r.anomaly \in 0..10
  BY EnforcementAssumption
<1>2. records \in Int /\ value \in Int
  BY <1>1
<1> HIDE DEF records, value
<1>3. Min({1600, records}) \in Int /\ Min({1800, value}) \in Int
  BY <1>2, MinOfTwo
<1> DEFINE m1 == Min({1600, records})
           m2 == Min({1800, value})
           score == Weight(r.production, 1000) + Weight(~r.reversible, 1800) + Weight(r.sensitive, 1200)
                    + Weight(r.highImpact, 1800) + Weight(r.network, 800) + Weight(r.autonomous, 1000)
                    + m1 + m2 + 200 * r.anomaly
<1>4. m1 \in Int /\ m2 \in Int
  BY <1>3
<1> HIDE DEF m1, m2
<1>5. score \in Int
  BY <1>1, <1>4
<1>6. Risk(r) = Min({10000, score})
  BY DEF Risk, If, records, value, m1, m2
<1> HIDE DEF score
<1> QED
  BY <1>5, <1>6, MinOfTwo

\* What the kernel allows.
LEMMA AllowedIsSafe ==
    ASSUME NEW r \in Asked, Decision(r) = "ALLOW"
    PROVE  /\ r.operator /\ r.permitted /\ r.provenance
           /\ r.requirement # {} => \E p \in r.policy : p.active /\ p.insured
           /\ (~r.reversible \/ r.highImpact \/ r.records > 3 \/ r.value > 4) => r.approved
           /\ Risk(r) <= MaxRisk
<1>1. HardGates(r) /\ ~InReview(r)
  BY DEF Decision
<1>2. r.operator /\ r.permitted /\ r.provenance /\ Insured(r)
  BY <1>1 DEF HardGates
<1>3. r.requirement # {} => \E p \in r.policy : p.active /\ p.insured
  BY <1>2 DEF Insured
<1>4. (~r.reversible \/ r.highImpact \/ r.records > 3 \/ r.value > 4) => r.approved
  <2>1. r.records \in Nat /\ r.value \in Nat
    BY EnforcementAssumption
  <2>2. (r.records > 3 => r.records >= 4) /\ (r.value > 4 => r.value >= 5)
    BY <2>1
  <2> QED
    BY <1>1, <2>2 DEF InReview, NeedsHuman
<1>5. Risk(r) <= MaxRisk
  <2>1. ~(Risk(r) > MaxRisk)
    BY <1>1 DEF InReview
  <2> QED
    BY <2>1, RiskIsNumber DEF MaxRisk
<1> QED
  BY <1>2, <1>3, <1>4, <1>5

\* A line that names the last one links to it.
LEMMA ChainedGrows ==
    ASSUME NEW lines \in Seq(Line), Chained(lines), NEW new \in Line,
           new.sequence = Len(lines) + 1,
           new.previous = IF lines = <<>> THEN 0 ELSE lines[Len(lines)].hash
    PROVE  /\ Chained(Append(lines, new))
           /\ \A c : Attests(lines, c) => Attests(Append(lines, new), c)
           /\ new.kind = "authorization" => Attests(Append(lines, new), new.about)
<1> DEFINE longer == Append(lines, new)
           n == Len(lines)
<1> HIDE DEF Line
<1>1. /\ n \in Nat /\ Len(longer) = n + 1 /\ DOMAIN longer = 1..(n + 1) /\ DOMAIN lines = 1..n
      /\ \A i \in 1..n : longer[i] = lines[i]
      /\ longer[n + 1] = new
  OBVIOUS
<1>2. lines = <<>> <=> n = 0
  OBVIOUS
<1> HIDE DEF longer, n
<1>3. ASSUME NEW i \in 1..(n + 1)
      PROVE  /\ longer[i].sequence = i
             /\ longer[i].previous = IF i = 1 THEN 0 ELSE longer[i - 1].hash
  <2>1. CASE i \in 1..n
    <3>1. i # 1 => i - 1 \in 1..n
      BY <1>1, <2>1
    <3> QED
      BY <1>1, <2>1, <3>1 DEF Chained, n
  <2>2. CASE i = n + 1
    <3>1. i = 1 <=> lines = <<>>
      BY <1>1, <1>2, <2>2
    <3>2. i # 1 => i - 1 \in 1..n /\ i - 1 = n
      BY <1>1, <2>2
    <3> QED
      BY <1>1, <2>2, <3>1, <3>2 DEF n
  <2> QED
    BY <1>1, <2>1, <2>2
<1>4. Chained(longer)
  BY <1>1, <1>3 DEF Chained
<1>5. ASSUME NEW c, Attests(lines, c) PROVE Attests(longer, c)
  <2>1. PICK i \in 1..n : lines[i].about = c /\ lines[i].kind = "authorization"
    BY <1>1, <1>5 DEF Attests
  <2>2. i \in DOMAIN longer /\ longer[i] = lines[i]
    BY <1>1, <2>1
  <2> QED
    BY <2>1, <2>2 DEF Attests
<1>6. ASSUME new.kind = "authorization" PROVE Attests(longer, new.about)
  <2>1. n + 1 \in DOMAIN longer
    BY <1>1
  <2> QED
    BY <1>1, <1>6, <2>1 DEF Attests
<1> QED
  BY <1>4, <1>5, <1>6 DEF longer

\* A step of one caller.
LEMMA CallerMoves ==
    ASSUME EnforcementInv, NEW c \in Caller, NEW new \in CallerRow,
           caller' = [caller EXCEPT ![c] = new], UNCHANGED <<signingKey, mandatory>>,
           committed \subseteq committed', CallerStands(c)'
    PROVE  /\ caller' \in [Caller -> CallerRow] /\ caller'[c] = new
           /\ \A d \in Caller : d # c => caller'[d] = caller[d]
           /\ \A d \in Caller : CallerStands(d)'
<1>1. caller \in [Caller -> CallerRow]
  BY DEF EnforcementInv, EnforcementTyped
<1>2. /\ caller' \in [Caller -> CallerRow] /\ caller'[c] = new
      /\ \A d \in Caller : d # c => caller'[d] = caller[d]
  BY <1>1
<1>3. ASSUME NEW d \in Caller, d # c PROVE CallerStands(d)'
  <2>1. CallerStands(d)
    BY DEF EnforcementInv
  <2> QED
    BY <1>2, <1>3, <2>1 DEF CallerStands, AtPhase, RequestOf, HasKernel
<1> QED
  BY <1>2, <1>3

\* A caller that does not append leaves the file and its readers alone.
LEMMA ElsewhereInv ==
    ASSUME EnforcementInv, NEW c \in Caller, NEW new \in CallerRow,
           caller' = [caller EXCEPT ![c] = new],
           caller[c].phase \notin Appending, new.phase \notin Appending,
           UNCHANGED <<signingKey, mandatory, ledger, appended, committed>>,
           disturbed' \in BOOLEAN, disturbed => disturbed',
           CallerStands(c)', EffectsAreAllowed'
    PROVE  EnforcementInv'
<1>1. /\ caller' \in [Caller -> CallerRow] /\ caller'[c] = new
      /\ \A d \in Caller : d # c => caller'[d] = caller[d]
      /\ \A d \in Caller : CallerStands(d)'
  BY CallerMoves
<1>2. EnforcementTyped'
  BY <1>1 DEF EnforcementInv, EnforcementTyped
<1>3. ASSUME NEW d \in Caller
      PROVE  /\ caller'[d].phase \in Appending <=> caller[d].phase \in Appending
             /\ caller[d].phase \in Appending => caller'[d] = caller[d]
  BY <1>1
<1>4. ASSUME NEW d \in Caller
      PROVE  /\ AtPhase(d, "truncated")' <=> AtPhase(d, "truncated")
             /\ AtPhase(d, "truncated") => caller'[d] = caller[d]
  BY <1>3 DEF AtPhase, Appending
<1>5. ASSUME ~disturbed' PROVE AppendsAlone' /\ \A d \in committed' : Evident(d)'
  <2>1. AppendsAlone /\ \A d \in committed : Evident(d)
    BY <1>5 DEF EnforcementInv
  <2>2. \A d \in Caller : caller[d].phase \in Appending =>
          /\ Whole(d)' = Whole(d)
          /\ AtPhase(d, "reread")' = AtPhase(d, "reread")
    BY <1>3 DEF Whole, AtPhase
  <2>3. AppendsAlone'
    BY <1>3, <1>4, <2>1, <2>2 DEF AppendsAlone
  <2>4. \A d \in committed : Evident(d)'
    BY <1>4, <2>1 DEF Evident
  <2> QED
    BY <2>3, <2>4
<1> QED
  BY <1>1, <1>2, <1>5 DEF EnforcementInv

LEMMA EffectsStay ==
    ASSUME EnforcementInv, UNCHANGED <<signingKey, mandatory, executed>>, committed \subseteq committed'
    PROVE  EffectsAreAllowed'
BY DEF EnforcementInv, EffectsAreAllowed, HasKernel

LEMMA ArriveInv ==
    ASSUME EnforcementInv, NEW c \in Caller, Arrive(c)
    PROVE  EnforcementInv'
<1>1. PICK r \in Asked :
        caller' = [caller EXCEPT ![c].request = {r},
                     ![c].phase = IF Refused(r) THEN "refused" ELSE "asked"]
  BY DEF Arrive
<1> DEFINE next == IF Refused(r) THEN "refused" ELSE "asked"
           new == [caller[c] EXCEPT !.request = {r}, !.phase = next]
<1>2. caller \in [Caller -> CallerRow] /\ caller[c] \in CallerRow
  BY DEF EnforcementInv, EnforcementTyped
<1>3. caller' = [caller EXCEPT ![c] = new] /\ next \in {"refused", "asked"}
  BY <1>1, <1>2
<1> HIDE DEF next
<1>4. new \in CallerRow /\ new.phase = next /\ new.request = {r}
  BY <1>2, <1>3 DEF CallerRow
<1> HIDE DEF new
<1>5. caller'[c] = new
  BY <1>2, <1>3
<1>6. CallerStands(c)'
  BY <1>3, <1>4, <1>5 DEF CallerStands, AtPhase, Appending
<1> QED
  BY <1>3, <1>4, <1>6, ElsewhereInv, EffectsStay DEF Arrive, AtPhase, Appending, EnforcementInv, EnforcementTyped

\* To the ledger, for a purpose that has its kernel.
LEMMA ToAppendInv ==
    ASSUME EnforcementInv, NEW c \in Caller, NEW purpose \in Purposes, ToAppend(c, purpose),
           caller[c].phase \in {"asked", "authorized"},
           purpose = "authorization" => HasKernel,
           UNCHANGED <<signingKey, mandatory, ledger, appended, committed, disturbed>>,
           EffectsAreAllowed'
    PROVE  EnforcementInv'
<1> DEFINE new == [caller[c] EXCEPT !.phase = "append", !.purpose = purpose]
<1>1. caller \in [Caller -> CallerRow] /\ caller[c] \in CallerRow
  BY DEF EnforcementInv, EnforcementTyped
<1>2. /\ caller' = [caller EXCEPT ![c] = new]
      /\ new \in CallerRow /\ new.phase = "append" /\ new.purpose = purpose /\ new.request = caller[c].request
  BY <1>1 DEF ToAppend, CallerRow
<1> HIDE DEF new
<1>3. caller'[c] = new
  BY <1>1, <1>2
<1>4. \E r \in Asked : caller[c].request = {r}
  BY DEF EnforcementInv, CallerStands
<1>5. CallerStands(c)'
  BY <1>2, <1>3, <1>4 DEF CallerStands, AtPhase, Appending, HasKernel
<1> QED
  BY <1>2, <1>5, ElsewhereInv DEF Appending, EnforcementInv, EnforcementTyped

LEMMA AuthorizeInv ==
    ASSUME EnforcementInv, NEW c \in Caller, Authorize(c)
    PROVE  EnforcementInv'
<1> DEFINE purpose == IF HasKernel /\ Verifies THEN "authorization" ELSE "closed"
<1>1. purpose \in Purposes /\ (purpose = "authorization" => HasKernel)
  BY DEF Purposes
<1>2. ToAppend(c, purpose)
  BY DEF Authorize
<1> HIDE DEF purpose
<1> QED
  BY <1>1, <1>2, ToAppendInv, EffectsStay DEF Authorize, AtPhase

\* A caller ends, or a failing append ends it.
LEMMA EndInv ==
    ASSUME EnforcementInv, NEW c \in Caller, NEW phase \in {"refused", "failed", "done"}, ToPhase(c, phase),
           caller[c].phase \in {"append", "authorized"},
           UNCHANGED <<signingKey, mandatory, ledger, appended, committed>>,
           disturbed' \in BOOLEAN, disturbed => disturbed', EffectsAreAllowed'
    PROVE  EnforcementInv'
<1> DEFINE new == [caller[c] EXCEPT !.phase = phase]
<1>1. caller \in [Caller -> CallerRow] /\ caller[c] \in CallerRow
  BY DEF EnforcementInv, EnforcementTyped
<1>2. /\ caller' = [caller EXCEPT ![c] = new]
      /\ new \in CallerRow /\ new.phase = phase /\ new.request = caller[c].request
  BY <1>1 DEF ToPhase, CallerRow
<1> HIDE DEF new
<1>3. caller'[c] = new
  BY <1>1, <1>2
<1>4. \E r \in Asked : caller[c].request = {r}
  BY DEF EnforcementInv, CallerStands
<1>5. CallerStands(c)'
  BY <1>2, <1>3, <1>4 DEF CallerStands, AtPhase, Appending
<1> QED
  BY <1>2, <1>5, ElsewhereInv DEF Appending

LEMMA SynthesisFailsInv ==
    ASSUME EnforcementInv, NEW c \in Caller, SynthesisFails(c)
    PROVE  EnforcementInv'
BY EndInv, EffectsStay DEF SynthesisFails, AtPhase, EnforcementInv, EnforcementTyped

\* What is done was allowed: the kernel's decision is the request's.
LEMMA EnforcementExecuteInv ==
    ASSUME EnforcementInv, NEW c \in Caller, Execute(c)
    PROVE  EnforcementInv'
<1>1. PICK r \in Asked : caller[c].request = {r}
  BY DEF EnforcementInv, CallerStands, Execute, AtPhase
<1>2. RequestOf(c) = r
  BY <1>1 DEF RequestOf
<1>3. caller[c].phase = "authorized" /\ HasKernel /\ Decision(r) = "ALLOW" /\ c \in committed
  BY <1>2 DEF EnforcementInv, CallerStands, Execute, AtPhase
<1>4. UNCHANGED <<signingKey, mandatory, ledger, appended, committed, disturbed>> /\ disturbed \in BOOLEAN
  BY DEF Execute, EnforcementInv, EnforcementTyped
<1>5. executed' \in {executed, executed \cup {[by |-> c, request |-> r]}}
  BY <1>2 DEF Execute
<1>6. EffectsAreAllowed'
  <2> SUFFICES ASSUME NEW e \in executed'
               PROVE  e.by \in committed /\ e.request \in Asked /\ HasKernel /\ Decision(e.request) = "ALLOW"
    BY <1>4 DEF EffectsAreAllowed, HasKernel
  <2>1. CASE e \in executed
    BY <2>1 DEF EnforcementInv, EffectsAreAllowed
  <2>2. CASE e = [by |-> c, request |-> r]
    BY <1>3, <2>2
  <2> QED
    BY <1>5, <2>1, <2>2
<1>7. CASE ToPhase(c, "done")
  BY <1>3, <1>4, <1>6, <1>7, EndInv
<1>8. CASE ToAppend(c, "report")
  BY <1>3, <1>4, <1>6, <1>8, ToAppendInv DEF Purposes
<1> QED
  BY <1>7, <1>8 DEF Execute

\* An append that begins alone reads the whole chain.
LEMMA ReadRecordsInv ==
    ASSUME EnforcementInv, NEW c \in Caller, ReadRecords(c)
    PROVE  EnforcementInv'
<1>1. /\ caller \in [Caller -> CallerRow] /\ caller[c] \in CallerRow /\ caller[c].phase = "append"
      /\ UNCHANGED <<signingKey, mandatory, ledger, appended, committed, executed>>
      /\ ledger.lines \in Seq(Line)
  BY DEF EnforcementInv, EnforcementTyped, ReadRecords, AtPhase
<1>2. /\ disturbed' \in BOOLEAN
      /\ disturbed => disturbed'
      /\ ~disturbed' => \A d \in Caller : caller[d].phase \notin Appending
  BY DEF EnforcementInv, EnforcementTyped, ReadRecords
<1>3. EffectsAreAllowed'
  BY <1>1, EffectsStay
<1>4. CASE ledger.torn
  <2>1. AppendRaised(caller[c].purpose) \in {"failed", "refused"}
    BY DEF AppendRaised
  <2> QED
    BY <1>1, <1>2, <1>3, <1>4, <2>1, EndInv DEF ReadRecords
<1>5. CASE ~ledger.torn
  <2> DEFINE last == IF ledger.lines = <<>> THEN 0 ELSE ledger.lines[Len(ledger.lines)].hash
             n == Len(ledger.lines)
             new == [caller[c] EXCEPT !.phase = "read", !.length = n, !.previous = last]
  <2>1. caller' = [caller EXCEPT ![c] = new]
    BY <1>1, <1>5 DEF ReadRecords
  <2>2. n \in Nat /\ last \in Nat
    <3> DEFINE S == Line
    <3>1. \A s \in S : s.hash \in Nat
      BY DEF Line
    <3>2. ledger.lines \in Seq(S)
      BY <1>1
    <3> HIDE DEF S
    <3>3. ledger.lines # <<>> => ledger.lines[Len(ledger.lines)] \in S
      BY <3>2
    <3> QED
      BY <3>1, <3>2, <3>3
  <2> HIDE DEF last, n
  <2>3. /\ new \in CallerRow /\ new.phase = "read" /\ new.length = n /\ new.previous = last
        /\ new.purpose = caller[c].purpose /\ new.request = caller[c].request
    BY <1>1, <2>2 DEF CallerRow, Appending
  <2> HIDE DEF new
  <2>4. caller'[c] = new
    BY <1>1, <2>1
  <2>5. CallerStands(c)'
    BY <1>1, <2>3, <2>4 DEF EnforcementInv, CallerStands, AtPhase, HasKernel, Appending
  <2>6. /\ caller' \in [Caller -> CallerRow]
        /\ \A d \in Caller : d # c => caller'[d] = caller[d]
        /\ \A d \in Caller : CallerStands(d)'
    BY <1>1, <2>1, <2>3, <2>5, CallerMoves
  <2>7. EnforcementTyped'
    BY <1>1, <1>2, <2>6 DEF EnforcementInv, EnforcementTyped
  <2>8. ASSUME ~disturbed' PROVE AppendsAlone' /\ \A d \in committed' : Evident(d)'
    <3>1. AppendsAlone /\ \A d \in committed : Evident(d)
      BY <1>2, <2>8 DEF EnforcementInv
    <3>2. \A d \in Caller : caller[d].phase \notin Appending
      BY <1>2, <2>8
    <3>3. \A d \in Caller : caller'[d].phase \in Appending => d = c
      BY <2>6, <3>2
    <3>4. \A d \in Caller : ~AtPhase(d, "truncated") /\ ~AtPhase(d, "truncated")'
      BY <2>3, <2>4, <2>6, <3>2 DEF AtPhase, Appending
    <3>5. Chained(ledger.lines)
      BY <3>1, <3>4 DEF AppendsAlone
    <3>6. Whole(c)' = ledger.lines /\ ~AtPhase(c, "reread")'
      BY <1>1, <2>3, <2>4 DEF Whole, AtPhase
    <3>7. AppendsAlone'
      BY <1>1, <2>3, <2>4, <3>1, <3>3, <3>4, <3>5, <3>6 DEF AppendsAlone, last, n
    <3>8. \A d \in committed' : Evident(d)'
      BY <1>1, <3>1, <3>4 DEF Evident
    <3> QED
      BY <3>7, <3>8
  <2> QED
    BY <1>3, <2>6, <2>7, <2>8 DEF EnforcementInv
<1> QED
  BY <1>4, <1>5

LEMMA ReadTextInv ==
    ASSUME EnforcementInv, NEW c \in Caller, ReadText(c)
    PROVE  EnforcementInv'
<1> DEFINE new == [caller[c] EXCEPT !.phase = "reread", !.text = ledger.lines]
<1>1. /\ caller \in [Caller -> CallerRow] /\ caller[c] \in CallerRow /\ caller[c].phase = "read"
      /\ UNCHANGED <<signingKey, mandatory, ledger, appended, committed, executed, disturbed>>
      /\ ledger.lines \in Seq(Line)
  BY DEF EnforcementInv, EnforcementTyped, ReadText, AtPhase
<1>2. /\ caller' = [caller EXCEPT ![c] = new]
      /\ new \in CallerRow /\ new.phase = "reread" /\ new.text = ledger.lines
      /\ new.purpose = caller[c].purpose /\ new.request = caller[c].request
      /\ new.length = caller[c].length /\ new.previous = caller[c].previous
  BY <1>1 DEF ReadText, CallerRow, Appending
<1> HIDE DEF new
<1>3. caller'[c] = new
  BY <1>1, <1>2
<1>4. CallerStands(c)'
  BY <1>1, <1>2, <1>3 DEF EnforcementInv, CallerStands, AtPhase, HasKernel, Appending
<1>5. /\ caller' \in [Caller -> CallerRow]
      /\ \A d \in Caller : d # c => caller'[d] = caller[d]
      /\ \A d \in Caller : CallerStands(d)'
  BY <1>1, <1>2, <1>4, CallerMoves
<1>6. EnforcementTyped' /\ EffectsAreAllowed'
  BY <1>1, <1>5, EffectsStay DEF EnforcementInv, EnforcementTyped
<1>7. ASSUME ~disturbed PROVE AppendsAlone' /\ \A d \in committed : Evident(d)'
  <2>1. AppendsAlone /\ \A d \in committed : Evident(d)
    BY <1>7 DEF EnforcementInv
  <2>2. \A d \in Caller : caller[d].phase \in Appending => d = c
    BY <1>1, <2>1 DEF AppendsAlone, Appending
  <2>3. \A d \in Caller : caller'[d].phase \in Appending => d = c
    BY <1>5, <2>2
  <2>4. \A d \in Caller : ~AtPhase(d, "truncated") /\ ~AtPhase(d, "truncated")'
    BY <1>1, <1>2, <1>3, <2>2, <2>3 DEF AtPhase, Appending
  <2>5. Whole(c)' = ledger.lines /\ Whole(c) = ledger.lines
    BY <1>1, <2>4 DEF Whole
  <2>6. /\ Chained(ledger.lines) /\ caller[c].length = Len(ledger.lines)
        /\ caller[c].previous = IF ledger.lines = <<>> THEN 0 ELSE ledger.lines[Len(ledger.lines)].hash
    BY <1>1, <2>1, <2>5 DEF AppendsAlone, Appending
  <2>7. AppendsAlone'
    BY <1>1, <1>2, <1>3, <2>1, <2>3, <2>4, <2>5, <2>6 DEF AppendsAlone
  <2>8. \A d \in committed : Evident(d)'
    BY <1>1, <2>1, <2>4 DEF Evident
  <2> QED
    BY <2>7, <2>8
<1> QED
  BY <1>1, <1>5, <1>6, <1>7 DEF EnforcementInv

\* Between truncation and write the chain is in the caller's text.
LEMMA TruncateInv ==
    ASSUME EnforcementInv, NEW c \in Caller, Truncate(c)
    PROVE  EnforcementInv'
<1> DEFINE new == [caller[c] EXCEPT !.phase = "truncated"]
<1>1. /\ caller \in [Caller -> CallerRow] /\ caller[c] \in CallerRow /\ caller[c].phase = "reread"
      /\ UNCHANGED <<signingKey, mandatory, appended, committed, executed, disturbed>>
      /\ ledger' = [lines |-> <<>>, torn |-> FALSE]
  BY DEF EnforcementInv, EnforcementTyped, Truncate, AtPhase
<1>2. /\ caller' = [caller EXCEPT ![c] = new]
      /\ new \in CallerRow /\ new.phase = "truncated" /\ new.text = caller[c].text
      /\ new.purpose = caller[c].purpose /\ new.request = caller[c].request
      /\ new.length = caller[c].length /\ new.previous = caller[c].previous
  BY <1>1 DEF Truncate, ToPhase, CallerRow, Appending
<1> HIDE DEF new
<1>3. caller'[c] = new
  BY <1>1, <1>2
<1>4. CallerStands(c)'
  BY <1>1, <1>2, <1>3 DEF EnforcementInv, CallerStands, AtPhase, HasKernel, Appending
<1>5. /\ caller' \in [Caller -> CallerRow]
      /\ \A d \in Caller : d # c => caller'[d] = caller[d]
      /\ \A d \in Caller : CallerStands(d)'
  BY <1>1, <1>2, <1>4, CallerMoves
<1>6. EnforcementTyped' /\ EffectsAreAllowed'
  BY <1>1, <1>5, EffectsStay DEF EnforcementInv, EnforcementTyped
<1>7. ASSUME ~disturbed PROVE AppendsAlone' /\ \A d \in committed : Evident(d)'
  <2>1. AppendsAlone /\ \A d \in committed : Evident(d)
    BY <1>7 DEF EnforcementInv
  <2>2. \A d \in Caller : caller[d].phase \in Appending => d = c
    BY <1>1, <2>1 DEF AppendsAlone, Appending
  <2>3. \A d \in Caller : caller'[d].phase \in Appending => d = c
    BY <1>5, <2>2
  <2>4. \A d \in Caller : ~AtPhase(d, "truncated")
    BY <1>1, <2>2 DEF AtPhase, Appending
  <2>5. AtPhase(c, "truncated")' /\ ~AtPhase(c, "reread")' /\ AtPhase(c, "reread") /\ caller[c].phase \in Appending
    BY <1>1, <1>2, <1>3 DEF AtPhase, Appending
  <2>6. caller[c].text = ledger.lines /\ Whole(c) = ledger.lines
    BY <2>1, <2>4, <2>5 DEF AppendsAlone, Whole
  <2>7. Whole(c)' = ledger.lines /\ caller'[c].text = ledger.lines
    BY <1>2, <1>3, <2>5, <2>6 DEF Whole
  <2>8. /\ Chained(ledger.lines) /\ caller[c].length = Len(ledger.lines)
        /\ caller[c].previous = IF ledger.lines = <<>> THEN 0 ELSE ledger.lines[Len(ledger.lines)].hash
    BY <2>1, <2>5, <2>6 DEF AppendsAlone
  <2>9. AppendsAlone'
    BY <1>1, <1>2, <1>3, <2>3, <2>5, <2>7, <2>8 DEF AppendsAlone
  <2>10. ASSUME NEW d \in committed PROVE Evident(d)'
    <3>1. Attests(ledger.lines, d)
      BY <2>1, <2>4 DEF Evident
    <3> QED
      BY <2>5, <2>7, <3>1 DEF Evident
  <2> QED
    BY <2>9, <2>10
<1> QED
  BY <1>1, <1>5, <1>6, <1>7 DEF EnforcementInv

\* The write of an append that was alone puts the chain back, one line longer.
LEMMA WriteTextInv ==
    ASSUME EnforcementInv, NEW c \in Caller, WriteText(c)
    PROVE  EnforcementInv'
<1> DEFINE next == AppendReturned(c)
           line == [sequence |-> caller[c].length + 1, previous |-> caller[c].previous,
                    hash |-> appended + 1, about |-> c, kind |-> caller[c].purpose]
           new == [caller[c] EXCEPT !.phase = next, !.text = <<>>]
<1>1. /\ caller \in [Caller -> CallerRow] /\ caller[c] \in CallerRow /\ caller[c].phase = "truncated"
      /\ UNCHANGED <<signingKey, mandatory, executed, disturbed>>
      /\ appended \in Nat /\ appended' = appended + 1
      /\ committed \subseteq Caller
      /\ committed' = IF next = "authorized" THEN committed \cup {c} ELSE committed
  BY DEF EnforcementInv, EnforcementTyped, WriteText, AtPhase
<1>2. /\ next \in {"authorized", "done", "refused"}
      /\ next = "authorized" => caller[c].purpose = "authorization" /\ Decision(RequestOf(c)) = "ALLOW"
  BY DEF AppendReturned
<1>3. CallerStands(c)
  BY DEF EnforcementInv
<1>4. caller[c].purpose \in Purposes
  BY <1>1, <1>3 DEF CallerStands, Appending
<1>5. line \in Line /\ caller[c].text \in Seq(Line)
  <2>1. caller[c].length \in Nat /\ caller[c].previous \in Nat /\ caller[c].text \in Seq(Line)
    BY <1>1 DEF CallerRow
  <2> QED
    BY <1>1, <1>4, <2>1 DEF Line
<1>6. PICK rest \in BOOLEAN : /\ ledger' = [lines |-> Append(caller[c].text, line), torn |-> rest]
                              /\ ledger.lines = <<>> => rest = FALSE
  BY DEF WriteText, Appended
<1>7. line.sequence = caller[c].length + 1 /\ line.previous = caller[c].previous /\ line.about = c
      /\ line.kind = caller[c].purpose
  OBVIOUS
<1>8. caller' = [caller EXCEPT ![c] = new]
  BY <1>1 DEF WriteText
<1> HIDE DEF line, next
<1>9. /\ new \in CallerRow /\ new.phase = next /\ new.request = caller[c].request
  <2>1. <<>> \in Seq(Line)
    OBVIOUS
  <2> QED
    BY <1>1, <1>2, <2>1 DEF CallerRow
<1> HIDE DEF new
<1>10. caller'[c] = new
  BY <1>1, <1>8
<1>11. committed \subseteq committed' /\ committed' \subseteq committed \cup {c}
       /\ (next = "authorized" => c \in committed') /\ (next # "authorized" => committed' = committed)
  BY <1>1
<1>12. CallerStands(c)'
  <2>1. RequestOf(c)' = RequestOf(c)
    BY <1>9, <1>10 DEF RequestOf
  <2> QED
    BY <1>1, <1>2, <1>3, <1>9, <1>10, <1>11, <2>1 DEF CallerStands, AtPhase, HasKernel, Appending
<1>13. /\ caller' \in [Caller -> CallerRow]
       /\ \A d \in Caller : d # c => caller'[d] = caller[d]
       /\ \A d \in Caller : CallerStands(d)'
  BY <1>1, <1>8, <1>9, <1>11, <1>12, CallerMoves
<1>14. EffectsAreAllowed'
  BY <1>1, <1>11, EffectsStay
<1>15. EnforcementTyped'
  <2>1. Append(caller[c].text, line) \in Seq(Line)
    BY <1>5
  <2> QED
    BY <1>1, <1>6, <1>11, <1>13, <2>1 DEF EnforcementInv, EnforcementTyped
<1>16. ASSUME ~disturbed PROVE AppendsAlone' /\ \A d \in committed' : Evident(d)'
  <2>1. AppendsAlone /\ \A d \in committed : Evident(d)
    BY <1>16 DEF EnforcementInv
  <2>2. \A d \in Caller : caller[d].phase \in Appending => d = c
    BY <1>1, <2>1 DEF AppendsAlone, Appending
  <2>3. \A d \in Caller : caller'[d].phase \notin Appending
    BY <1>2, <1>9, <1>10, <1>13, <2>2 DEF Appending
  <2>4. \A d \in Caller : ~AtPhase(d, "truncated")' /\ (AtPhase(d, "truncated") => d = c)
    BY <2>2, <2>3 DEF AtPhase, Appending
  <2>5. AtPhase(c, "truncated") /\ Whole(c) = caller[c].text
    BY <1>1 DEF AtPhase, Whole
  <2>6. /\ ledger.lines = <<>> /\ Chained(caller[c].text) /\ caller[c].length = Len(caller[c].text)
        /\ caller[c].previous =
             IF caller[c].text = <<>> THEN 0 ELSE caller[c].text[Len(caller[c].text)].hash
    BY <1>1, <2>1, <2>5 DEF AppendsAlone, Appending
  <2>7. /\ Chained(Append(caller[c].text, line))
        /\ \A d : Attests(caller[c].text, d) => Attests(Append(caller[c].text, line), d)
        /\ line.kind = "authorization" => Attests(Append(caller[c].text, line), c)
    BY <1>5, <1>7, <2>6, ChainedGrows
  <2>8. ledger'.lines = Append(caller[c].text, line) /\ ledger'.torn = FALSE
    BY <1>6, <2>6
  <2>9. AppendsAlone'
    BY <2>3, <2>7, <2>8 DEF AppendsAlone
  <2>10. ASSUME NEW d \in committed' PROVE Evident(d)'
    <3>1. CASE d \in committed
      <4>1. Attests(caller[c].text, d)
        BY <2>1, <2>4, <2>5, <3>1 DEF Evident
      <4> QED
        BY <2>4, <2>7, <2>8, <4>1 DEF Evident
    <3>2. CASE d \notin committed
      <4>1. d = c /\ line.kind = "authorization"
        BY <1>2, <1>7, <1>11, <3>2
      <4> QED
        BY <2>4, <2>7, <2>8, <4>1 DEF Evident
    <3> QED
      BY <3>1, <3>2
  <2> QED
    BY <2>9, <2>10
<1> QED
  BY <1>1, <1>13, <1>14, <1>15, <1>16 DEF EnforcementInv

LEMMA WriteRaisesInv ==
    ASSUME EnforcementInv, NEW c \in Caller, WriteRaises(c)
    PROVE  EnforcementInv'
<1> DEFINE next == AppendRaised(caller[c].purpose)
           new == [caller[c] EXCEPT !.phase = next, !.text = <<>>]
<1>1. /\ caller \in [Caller -> CallerRow] /\ caller[c] \in CallerRow /\ caller[c].phase = "truncated"
      /\ UNCHANGED <<signingKey, mandatory, ledger, appended, committed, executed>> /\ disturbed' = TRUE
      /\ caller' = [caller EXCEPT ![c] = new]
  BY DEF EnforcementInv, EnforcementTyped, WriteRaises, AtPhase
<1>2. next \in {"failed", "refused"}
  BY DEF AppendRaised
<1> HIDE DEF next
<1>3. new \in CallerRow /\ new.phase = next /\ new.request = caller[c].request
  <2>1. <<>> \in Seq(Line)
    OBVIOUS
  <2> QED
    BY <1>1, <1>2, <2>1 DEF CallerRow
<1> HIDE DEF new
<1>4. caller'[c] = new
  BY <1>1
<1>5. CallerStands(c)'
  BY <1>1, <1>2, <1>3, <1>4 DEF EnforcementInv, CallerStands, AtPhase, Appending
<1>6. /\ caller' \in [Caller -> CallerRow]
      /\ \A d \in Caller : CallerStands(d)'
  BY <1>1, <1>3, <1>5, CallerMoves
<1> QED
  BY <1>1, <1>6, EffectsStay DEF EnforcementInv, EnforcementTyped

LEMMA EnforcementCrashInv ==
    ASSUME EnforcementInv, EnforcementCrash
    PROVE  EnforcementInv'
<1>1. /\ caller \in [Caller -> CallerRow] /\ disturbed' = TRUE
      /\ UNCHANGED <<signingKey, mandatory, appended, committed, executed>>
  BY DEF EnforcementInv, EnforcementTyped, EnforcementCrash
<1>2. ledger' \in [lines : Seq(Line), torn : BOOLEAN]
  <2>1. CASE ledger' = ledger
    BY <2>1 DEF EnforcementInv, EnforcementTyped
  <2>2. ASSUME NEW d \in Caller, NEW t \in BOOLEAN, ledger' = [lines |-> caller[d].text, torn |-> t]
        PROVE  ledger' \in [lines : Seq(Line), torn : BOOLEAN]
    <3>1. caller[d].text \in Seq(Line)
      BY <1>1 DEF CallerRow
    <3> QED
      BY <2>2, <3>1
  <2>3. \/ ledger' = ledger
        \/ \E d \in Caller, t \in BOOLEAN : ledger' = [lines |-> caller[d].text, torn |-> t]
    BY DEF EnforcementCrash
  <2> QED
    BY <2>1, <2>2, <2>3
<1>3. ASSUME NEW d \in Caller
      PROVE  /\ caller'[d] \in CallerRow
             /\ CallerStands(d)'
  <2>1. caller[d] \in CallerRow /\ CallerStands(d)
    BY <1>1 DEF EnforcementInv
  <2>2. CASE caller[d].phase \in {"new", "refused", "failed", "done"}
    <3>1. caller'[d] = caller[d]
      BY <2>2 DEF EnforcementCrash
    <3> QED
      BY <2>1, <2>2, <3>1 DEF CallerStands, AtPhase, Appending
  <2>3. CASE caller[d].phase \notin {"new", "refused", "failed", "done"}
    <3> DEFINE new == [Waiting EXCEPT !.phase = "failed", !.request = caller[d].request]
    <3>1. caller'[d] = new
      BY <2>3 DEF EnforcementCrash
    <3>2. new \in CallerRow /\ new.phase = "failed" /\ new.request = caller[d].request
      <4>1. <<>> \in Seq(Line)
        OBVIOUS
      <4> QED
        BY <2>1, <4>1 DEF Waiting, CallerRow
    <3> HIDE DEF new
    <3> QED
      BY <2>1, <2>3, <3>1, <3>2 DEF CallerStands, AtPhase, Appending
  <2> QED
    BY <2>2, <2>3
<1>4. caller' \in [Caller -> CallerRow]
  <2>1. caller' = [d \in Caller |-> caller'[d]]
    BY DEF EnforcementCrash
  <2> QED
    BY <1>3, <2>1
<1> QED
  BY <1>1, <1>2, <1>3, <1>4, EffectsStay DEF EnforcementInv, EnforcementTyped

LEMMA InitEnforcement == EnforcementInit => EnforcementInv
<1> SUFFICES ASSUME EnforcementInit PROVE EnforcementInv
  OBVIOUS
<1>1. Waiting \in CallerRow /\ Waiting.phase = "new"
  <2>1. <<>> \in Seq(Line)
    OBVIOUS
  <2> QED
    BY <2>1 DEF Waiting, CallerRow
<1>2. \A c \in Caller : caller[c] = Waiting
  BY DEF EnforcementInit
<1>3. EnforcementTyped
  <2>1. caller \in [Caller -> CallerRow]
    BY <1>1 DEF EnforcementInit
  <2>2. <<>> \in Seq(Line)
    OBVIOUS
  <2>3. ledger \in [lines : Seq(Line), torn : BOOLEAN]
    BY <2>2 DEF EnforcementInit
  <2> QED
    BY <2>1, <2>3 DEF EnforcementInit, EnforcementTyped
<1>4. \A c \in Caller : CallerStands(c)
  BY <1>1, <1>2 DEF CallerStands, AtPhase, Appending
<1>5. AppendsAlone
  <2>1. \A c \in Caller : caller[c].phase \notin Appending
    BY <1>1, <1>2 DEF Appending
  <2>2. ledger.lines = <<>> /\ ~ledger.torn
    BY DEF EnforcementInit
  <2>3. Chained(<<>>)
    BY DEF Chained
  <2> QED
    BY <2>1, <2>2, <2>3 DEF AppendsAlone
<1>6. EffectsAreAllowed /\ \A c \in committed : Evident(c)
  BY DEF EnforcementInit, EffectsAreAllowed
<1> QED
  BY <1>3, <1>4, <1>5, <1>6 DEF EnforcementInv

LEMMA EnforcementStep ==
    ASSUME EnforcementInv, EnforcementNext
    PROVE  EnforcementInv'
BY ArriveInv, AuthorizeInv, ReadRecordsInv, ReadTextInv, TruncateInv, WriteTextInv, WriteRaisesInv,
   EnforcementExecuteInv, SynthesisFailsInv, EnforcementCrashInv DEF EnforcementNext

\* The invariant says what the property says.
LEMMA EvidenceFollows ==
    ASSUME EnforcementInv
    PROVE  EvidenceStands
<1>1. ASSUME NEW e \in executed
      PROVE  /\ e.by \in committed
             /\ signingKey # "short" /\ (mandatory => signingKey = "good")
             /\ e.request \in Asked /\ Decision(e.request) = "ALLOW"
  BY DEF EnforcementInv, EffectsAreAllowed, HasKernel
<1>2. ASSUME ~disturbed, ~\E c \in Caller : AtPhase(c, "truncated") PROVE Verifies
  BY <1>2 DEF EnforcementInv, AppendsAlone, Chained, Verifies
<1>3. ASSUME ~disturbed, NEW e \in executed
      PROVE  \E text \in {ledger.lines} \cup {caller[c].text : c \in Caller} :
                \E i \in DOMAIN text : text[i].about = e.by /\ text[i].kind = "authorization"
  <2>1. Evident(e.by)
    BY <1>1, <1>3 DEF EnforcementInv
  <2>2. \E text \in {ledger.lines} \cup {caller[c].text : c \in Caller} : Attests(text, e.by)
    BY <2>1 DEF Evident
  <2> QED
    BY <2>2 DEF Attests
<1> QED
  BY <1>1, <1>2, <1>3, AllowedIsSafe DEF EvidenceStands

-----------------------------------------------------------------------------
(* The tutor. *)

LEMMA InitTutor == TutorInit => TutorInv
<1> SUFFICES ASSUME TutorInit PROVE TutorInv
  OBVIOUS
<1>1. DOMAIN questions = {} /\ noveltyLedger = {}
  BY DEF TutorInit
<1>2. TutorTyped
  <2>1. <<>> \in Seq(BOOLEAN)
    OBVIOUS
  <2>2. attempts \in [Item -> Seq(BOOLEAN)]
    BY <2>1 DEF TutorInit
  <2>3. mastery \in [Learner \X Competency -> MasteryRow]
    <3>1. NoRow \in MasteryRow
      BY DEF NoRow, MasteryRow
    <3> QED
      BY <3>1 DEF TutorInit
  <2>4. positions \in [Position -> Nat]
    BY DEF TutorInit
  <2>5. lesson \in [Lesson -> {NotRunning} \cup RunningLesson]
    BY DEF TutorInit
  <2>6. questions \in [DOMAIN questions -> [learner : Learner, position : Position, answered : BOOLEAN]]
    BY <1>1 DEF TutorInit
  <2>7. /\ reply \in [Reply -> {NotRunning, [step |-> "done"]}
                             \cup [step : {"score"}, item : Item, correct : BOOLEAN]]
        /\ \A r \in Reply : reply[r].step # "score"
    BY DEF TutorInit, NotRunning
  <2>8. IsFiniteSet(noveltyLedger)
    BY <1>1, FS_EmptySet
  <2> QED
    BY <1>1, <2>2, <2>3, <2>4, <2>5, <2>6, <2>7, <2>8 DEF TutorInit, TutorTyped
<1>3. \A n \in Lesson : lesson[n].step = "idle"
  BY DEF TutorInit, NotRunning
<1>4. \A n \in Lesson : LessonStands(n)
  BY <1>3 DEF LessonStands
<1>5. \A i \in Item : AttemptsStand(i)
  BY <1>1 DEF TutorInit, AttemptsStand
<1>6. NoRepeats
  BY <1>1 DEF NoRepeats
<1>7. ASSUME NEW l \in Learner, NEW c \in Competency PROVE MasteryCounts(l, c)
  <2>1. Attempted(l, c) = {} /\ RightAtFirst(l, c) = {} /\ RightInTheEnd(l, c) = {}
    BY <1>1 DEF QuestionsOf, Attempted, RightAtFirst, RightInTheEnd
  <2>2. mastery[<<l, c>>] = NoRow
    BY DEF TutorInit
  <2> QED
    BY <2>1, <2>2, FS_EmptySet DEF MasteryCounts, NoRow
<1>8. PositionsAreBalanced
  BY DEF TutorInit, PositionsAreBalanced
<1> QED
  BY <1>2, <1>4, <1>5, <1>6, <1>7, <1>8 DEF TutorInv

\* A lesson that has a step to take is a whole one.
LEMMA LessonRuns ==
    ASSUME TutorInv, NEW n \in Lesson, lesson[n].step # "idle"
    PROVE  lesson[n] \in RunningLesson
BY DEF TutorInv, TutorTyped, NotRunning

\* A lesson goes to a row that holds its own claim.
LEMMA LessonsStand ==
    ASSUME TutorInv, NEW n \in Lesson, NEW v, lesson' = [lesson EXCEPT ![n] = v],
           noveltyLedger \subseteq noveltyLedger', DOMAIN questions \subseteq DOMAIN questions',
           \A m \in Lesson \ {n} :
               lesson[m].step \in {"place", "save"} =>
                   /\ lesson[m].item \notin DOMAIN questions'
                   /\ v.step \in {"place", "save"} => lesson[m].item # v.item,
           v.step \in {"verify", "claim", "place", "save", "serve"} => v.item \in Item,
           v.step \in {"save", "serve"} => v.position \in Position,
           v.step \in {"place", "save"} => v.item \in noveltyLedger' \ DOMAIN questions',
           v.step = "serve" => v.item \in DOMAIN questions'
    PROVE  \A m \in Lesson : LessonStands(m)'
<1> SUFFICES ASSUME NEW m \in Lesson PROVE LessonStands(m)'
  OBVIOUS
<1>1. /\ lesson'[n] = v
      /\ \A k \in Lesson \ {n} : lesson'[k] = lesson[k]
  BY DEF TutorInv, TutorTyped
<1>2. CASE m = n
  BY <1>1, <1>2 DEF LessonStands
<1>3. CASE m # n
  <2>1. LessonStands(m) /\ lesson'[m] = lesson[m]
    BY <1>1, <1>3 DEF TutorInv
  <2>2. ASSUME lesson[m].step \in {"place", "save"}, NEW k \in Lesson,
               lesson'[k].step \in {"place", "save"}, lesson'[k].item = lesson[m].item
        PROVE  k = m
    <3>1. k # n
      BY <1>1, <1>3, <2>2
    <3>2. lesson'[k] = lesson[k]
      BY <1>1, <3>1
    <3> QED
      BY <2>1, <2>2, <3>2 DEF LessonStands
  <2> QED
    BY <1>3, <2>1, <2>2 DEF LessonStands
<1> QED
  BY <1>2, <1>3

\* A step of a lesson that asks nothing and claims nothing.
LEMMA LessonMoves ==
    ASSUME TutorInv, NEW n \in Lesson, NEW v \in {NotRunning} \cup RunningLesson,
           lesson' = [lesson EXCEPT ![n] = v],
           UNCHANGED <<noveltyLedger, questions, attempts, mastery, reply>>,
           positions' \in [Position -> Nat], PositionsAreBalanced', tutorAudit' \subseteq DOMAIN questions,
           v.step \in {"place", "save"} =>
               \A m \in Lesson \ {n} : lesson[m].step \in {"place", "save"} => lesson[m].item # v.item,
           v.step \in {"verify", "claim", "place", "save", "serve"} => v.item \in Item,
           v.step \in {"save", "serve"} => v.position \in Position,
           v.step \in {"place", "save"} => v.item \in noveltyLedger \ DOMAIN questions,
           v.step = "serve" => v.item \in DOMAIN questions
    PROVE  TutorInv'
<1>1. \A m \in Lesson : LessonStands(m)'
  <2>1. \A m \in Lesson \ {n} :
           lesson[m].step \in {"place", "save"} =>
               /\ lesson[m].item \notin DOMAIN questions'
               /\ v.step \in {"place", "save"} => lesson[m].item # v.item
    BY DEF TutorInv, LessonStands
  <2> QED
    BY <2>1, LessonsStand
<1>2. TutorTyped'
  <2>1. lesson' \in [Lesson -> {NotRunning} \cup RunningLesson]
    BY DEF TutorInv, TutorTyped
  <2> QED
    BY <2>1 DEF TutorInv, TutorTyped
<1>3. \A i \in Item : AttemptsStand(i)'
  BY DEF TutorInv, AttemptsStand
<1>4. NoRepeats'
  BY DEF TutorInv, NoRepeats
<1>5. ASSUME NEW l \in Learner, NEW c \in Competency PROVE MasteryCounts(l, c)'
  <2>1. QuestionsOf(l, c)' = QuestionsOf(l, c)
    BY DEF QuestionsOf
  <2>2. Attempted(l, c)' = Attempted(l, c)
    BY <2>1 DEF Attempted
  <2>3. RightAtFirst(l, c)' = RightAtFirst(l, c) /\ RightInTheEnd(l, c)' = RightInTheEnd(l, c)
    BY <2>1, <2>2 DEF RightAtFirst, RightInTheEnd
  <2>4. MasteryCounts(l, c)
    BY DEF TutorInv
  <2> QED
    BY <2>2, <2>3, <2>4 DEF MasteryCounts
<1> QED
  BY <1>1, <1>2, <1>3, <1>4, <1>5 DEF TutorInv

\* A lesson that ends, or goes back to ask SARA again, holds no claim.
LEMMA LessonLetsGo ==
    ASSUME TutorInv, NEW n \in Lesson,
           UNCHANGED <<noveltyLedger, questions, attempts, mastery, positions, tutorAudit, reply>>,
           \/ LessonEnds(n)
           \/ TryAgain(n) /\ lesson[n].step # "idle"
    PROVE  TutorInv'
<1>1. /\ positions' \in [Position -> Nat] /\ PositionsAreBalanced' /\ tutorAudit' \subseteq DOMAIN questions
  BY DEF TutorInv, TutorTyped, PositionsAreBalanced
<1>2. CASE LessonEnds(n)
  <2>1. NotRunning.step = "idle"
    BY DEF NotRunning
  <2> QED
    BY <1>1, <1>2, <2>1, LessonMoves DEF LessonEnds
<1>3. CASE ~LessonEnds(n)
  <2> DEFINE v == [lesson[n] EXCEPT !.step = "generate", !.tries = @ + 1, !.item = NotRunning]
  <2>1. lesson[n] \in RunningLesson
    BY <1>3, LessonRuns
  <2>2. v \in RunningLesson /\ v.step = "generate"
    <3>1. lesson[n].tries + 1 \in Nat
      BY <2>1 DEF RunningLesson
    <3>2. PICK u \in RunningLesson : u = [lesson[n] EXCEPT !.step = "generate", !.item = NotRunning]
      BY <2>1 DEF RunningLesson
    <3>3. v = [u EXCEPT !.tries = lesson[n].tries + 1]
      BY <2>1, <3>2 DEF RunningLesson
    <3>4. u.step = "generate"
      BY <2>1, <3>2 DEF RunningLesson
    <3> QED
      BY <3>1, <3>2, <3>3, <3>4 DEF RunningLesson
  <2>3. lesson' = [lesson EXCEPT ![n] = v]
    BY <1>3 DEF TryAgain
  <2> HIDE DEF v
  <2> QED
    BY <1>1, <2>2, <2>3, LessonMoves
<1> QED
  BY <1>2, <1>3

LEMMA NextQuestionInv ==
    ASSUME TutorInv, NEW n \in Lesson, NEW l \in Learner, NEW c \in Competency, NextQuestion(n, l, c)
    PROVE  TutorInv'
<1> DEFINE difficulty == IF mastery[<<l, c>>] = NoRow THEN 1 ELSE mastery[<<l, c>>].difficulty
           v == [step |-> "generate", learner |-> l, competency |-> c, tries |-> 0,
                 gate |-> GateFromStore, difficulty |-> difficulty, item |-> NotRunning, position |-> -1]
<1>1. mastery[<<l, c>>] \in MasteryRow
  BY DEF TutorInv, TutorTyped
<1>2. difficulty \in 0..5
  BY <1>1 DEF MasteryRow
<1>3. GateFromStore \in [claimed : SUBSET Item, served : SUBSET Item]
  BY DEF GateFromStore, TutorInv, TutorTyped
<1>4. lesson' = [lesson EXCEPT ![n] = v]
  BY DEF NextQuestion
<1> HIDE DEF difficulty
<1>5. v \in RunningLesson /\ v.step = "generate"
  BY <1>2, <1>3 DEF RunningLesson
<1>6. /\ positions' \in [Position -> Nat] /\ PositionsAreBalanced' /\ tutorAudit' \subseteq DOMAIN questions
      /\ UNCHANGED <<noveltyLedger, questions, attempts, mastery, reply>>
  BY DEF NextQuestion, TutorInv, TutorTyped, PositionsAreBalanced
<1> HIDE DEF v
<1> QED
  BY <1>4, <1>5, <1>6, LessonMoves

LEMMA GeneratedInv ==
    ASSUME TutorInv, NEW n \in Lesson, Generated(n)
    PROVE  TutorInv'
<1>1. UNCHANGED <<noveltyLedger, questions, attempts, mastery, positions, tutorAudit, reply>>
  BY DEF Generated
<1>2. lesson[n].step = "generate"
  BY DEF Generated
<1>3. ASSUME NEW i \in Item, lesson' = [lesson EXCEPT ![n] = [lesson[n] EXCEPT !.step = "verify", !.item = i]]
      PROVE  TutorInv'
  <2> DEFINE v == [lesson[n] EXCEPT !.step = "verify", !.item = i]
  <2>1. lesson[n] \in RunningLesson
    BY <1>2, LessonRuns
  <2>2. v \in RunningLesson /\ v.step = "verify" /\ v.item = i
    BY <2>1 DEF RunningLesson
  <2>3. /\ positions' \in [Position -> Nat] /\ PositionsAreBalanced' /\ tutorAudit' \subseteq DOMAIN questions
    BY <1>1 DEF TutorInv, TutorTyped, PositionsAreBalanced
  <2>4. lesson' = [lesson EXCEPT ![n] = v]
    BY <1>3
  <2> HIDE DEF v
  <2> QED
    BY <1>1, <2>2, <2>3, <2>4, LessonMoves
<1> QED
  BY <1>1, <1>2, <1>3, LessonLetsGo DEF Generated

LEMMA VerifiedInv ==
    ASSUME TutorInv, NEW n \in Lesson, Verified(n)
    PROVE  TutorInv'
<1>1. UNCHANGED <<noveltyLedger, questions, attempts, mastery, positions, tutorAudit, reply>>
  BY DEF Verified
<1>2. lesson[n].step = "verify"
  BY DEF Verified
<1>3. ASSUME LessonGoes(n, "claim") PROVE TutorInv'
  <2> DEFINE v == [lesson[n] EXCEPT !.step = "claim"]
  <2>1. lesson[n] \in RunningLesson /\ lesson[n].item \in Item
    BY <1>2, LessonRuns DEF TutorInv, LessonStands
  <2>2. v \in RunningLesson /\ v.step = "claim" /\ v.item \in Item
    BY <2>1 DEF RunningLesson
  <2>3. /\ positions' \in [Position -> Nat] /\ PositionsAreBalanced' /\ tutorAudit' \subseteq DOMAIN questions
    BY <1>1 DEF TutorInv, TutorTyped, PositionsAreBalanced
  <2>4. lesson' = [lesson EXCEPT ![n] = v]
    BY <1>3 DEF LessonGoes
  <2> HIDE DEF v
  <2> QED
    BY <1>1, <2>2, <2>3, <2>4, LessonMoves
<1> QED
  BY <1>1, <1>3, LessonLetsGo DEF Verified

LEMMA PlaceInv ==
    ASSUME TutorInv, NEW n \in Lesson, Place(n)
    PROVE  TutorInv'
<1>1. UNCHANGED <<noveltyLedger, questions, attempts, mastery, tutorAudit, reply>>
  BY DEF Place
<1>2. lesson[n].step = "place"
  BY DEF Place
<1>3. PICK p \in Position :
         /\ \A q \in Position : positions[p] <= positions[q]
         /\ positions' = [positions EXCEPT ![p] = @ + 1]
         /\ lesson' = [lesson EXCEPT ![n] = [lesson[n] EXCEPT !.step = "save", !.position = p]]
  BY DEF Place
<1>4. positions \in [Position -> Nat]
  BY DEF TutorInv, TutorTyped
<1>5. positions' \in [Position -> Nat]
  BY <1>3, <1>4
<1>6. PositionsAreBalanced'
  <2>1. \A q, r \in Position : positions[q] <= positions[r] + 1
    BY DEF TutorInv, PositionsAreBalanced
  <2>2. \A q \in Position : positions'[q] = IF q = p THEN positions[p] + 1 ELSE positions[q]
    BY <1>3, <1>4
  <2>3. \A q \in Position : positions[q] \in Nat
    BY <1>4
  <2>4. \A q, r \in Position : positions'[q] <= positions'[r] + 1
    BY <1>3, <2>1, <2>2, <2>3
  <2> QED
    BY <2>4 DEF PositionsAreBalanced
<1> DEFINE v == [lesson[n] EXCEPT !.step = "save", !.position = p]
<1>7. /\ lesson[n] \in RunningLesson /\ lesson[n].item \in Item
      /\ lesson[n].item \in noveltyLedger \ DOMAIN questions
      /\ \A m \in Lesson \ {n} : lesson[m].step \in {"place", "save"} => lesson[m].item # lesson[n].item
  BY <1>2, LessonRuns DEF TutorInv, LessonStands
<1>8. v \in RunningLesson /\ v.step = "save" /\ v.item = lesson[n].item /\ v.position = p
  BY <1>7 DEF RunningLesson
<1>9. tutorAudit' \subseteq DOMAIN questions
  BY <1>1 DEF TutorInv, TutorTyped
<1> HIDE DEF v
<1>10. lesson' = [lesson EXCEPT ![n] = v]
  BY <1>3 DEF v
<1> QED
  BY <1>1, <1>5, <1>6, <1>7, <1>8, <1>9, <1>10, LessonMoves

LEMMA ServeInv ==
    ASSUME TutorInv, NEW n \in Lesson, Serve(n)
    PROVE  TutorInv'
<1>1. UNCHANGED <<noveltyLedger, questions, attempts, mastery, positions, reply>>
  BY DEF Serve
<1>2. tutorAudit' \subseteq DOMAIN questions
  BY DEF Serve, TutorInv, TutorTyped, LessonStands
<1>3. NotRunning.step = "idle"
  BY DEF NotRunning
<1>4. positions' \in [Position -> Nat] /\ PositionsAreBalanced'
  BY <1>1 DEF TutorInv, TutorTyped, PositionsAreBalanced
<1> QED
  BY <1>1, <1>2, <1>3, <1>4, LessonMoves DEF Serve, LessonEnds

LEMMA TutorCrashInv ==
    ASSUME TutorInv, TutorCrash
    PROVE  TutorInv'
BY LessonLetsGo DEF TutorCrash

\* What two questions share, they share either way round.
LEMMA ClaimsAreSymmetric ==
    ASSUME NEW i, NEW j
    PROVE  RepeatsClaimed(i, j) <=> RepeatsClaimed(j, i)
<1>1. \A t, u : Resembles(t, u) <=> Resembles(u, t)
  <2> TAKE t, u
  <2>1. {t, u} = {u, t}
    OBVIOUS
  <2> QED
    BY <2>1 DEF Resembles
<1> QED
  BY <1>1 DEF RepeatsClaimed

LEMMA ClaimInv ==
    ASSUME TutorInv, NEW n \in Lesson, Claim(n)
    PROVE  TutorInv'
<1>1. UNCHANGED <<questions, attempts, mastery, positions, tutorAudit, reply>> /\ lesson[n].step = "claim"
  BY DEF Claim
<1>2. lesson[n] \in RunningLesson /\ lesson[n].item \in Item
  BY <1>1, LessonRuns DEF TutorInv, LessonStands
<1>3. CASE ~IsNovel(n)
  BY <1>1, <1>3, LessonLetsGo DEF Claim
<1>4. CASE IsNovel(n)
  <2> DEFINE v == [lesson[n] EXCEPT !.step = "place"]
             i == lesson[n].item
  <2>1. noveltyLedger' = noveltyLedger \cup {i} /\ lesson' = [lesson EXCEPT ![n] = v]
    BY <1>4 DEF Claim, LessonGoes
  <2>2. v \in RunningLesson /\ v.step = "place" /\ v.item = i
    BY <1>2 DEF RunningLesson
  <2>3. \A j \in noveltyLedger : ~RepeatsClaimed(i, j)
    BY <1>4 DEF IsNovel, Repeats, GateFromStore
  <2>4. i \notin noveltyLedger
    BY <2>3 DEF RepeatsClaimed, Resembles
  <2>5. i \notin DOMAIN questions
    BY <2>4 DEF TutorInv, TutorTyped
  <2>6. \A m \in Lesson : LessonStands(m)'
    <3>1. \A m \in Lesson \ {n} :
             lesson[m].step \in {"place", "save"} =>
                 /\ lesson[m].item \notin DOMAIN questions'
                 /\ v.step \in {"place", "save"} => lesson[m].item # v.item
      BY <1>1, <2>2, <2>4 DEF TutorInv, LessonStands
    <3>2. v.item \in noveltyLedger' \ DOMAIN questions'
      BY <1>1, <2>1, <2>2, <2>5
    <3>3. noveltyLedger \subseteq noveltyLedger' /\ DOMAIN questions \subseteq DOMAIN questions'
      BY <1>1, <2>1
    <3> HIDE DEF v, i
    <3> QED
      BY <1>2, <2>1, <2>2, <3>1, <3>2, <3>3, LessonsStand DEF i
  <2>7. TutorTyped'
    <3>1. lesson' \in [Lesson -> {NotRunning} \cup RunningLesson]
      BY <2>1, <2>2 DEF TutorInv, TutorTyped
    <3>2. IsFiniteSet(noveltyLedger) /\ noveltyLedger \subseteq Item
      BY DEF TutorInv, TutorTyped
    <3>3. IsFiniteSet(noveltyLedger') /\ noveltyLedger' \subseteq Item
      BY <1>2, <2>1, <3>2, FS_AddElement
    <3>4. DOMAIN questions' \subseteq noveltyLedger'
      BY <1>1, <2>1 DEF TutorInv, TutorTyped
    <3> QED
      BY <1>1, <3>1, <3>3, <3>4 DEF TutorInv, TutorTyped
  <2>8. NoRepeats'
    <3>1. ASSUME NEW j \in noveltyLedger', NEW k \in noveltyLedger', j # k PROVE ~RepeatsClaimed(j, k)
      <4>1. CASE j = i
        BY <2>1, <2>3, <3>1, <4>1
      <4>2. CASE k = i
        <5>1. ~RepeatsClaimed(i, j)
          BY <2>1, <2>3, <3>1, <4>2
        <5> QED
          BY <4>2, <5>1, ClaimsAreSymmetric
      <4>3. CASE j # i /\ k # i
        BY <2>1, <3>1, <4>3 DEF TutorInv, NoRepeats
      <4> QED
        BY <4>1, <4>2, <4>3
    <3> QED
      BY <3>1 DEF NoRepeats
  <2>9. \A j \in Item : AttemptsStand(j)'
    BY <1>1 DEF TutorInv, AttemptsStand
  <2>10. ASSUME NEW l \in Learner, NEW c \in Competency PROVE MasteryCounts(l, c)'
    <3>1. QuestionsOf(l, c)' = QuestionsOf(l, c)
      BY <1>1 DEF QuestionsOf
    <3>2. Attempted(l, c)' = Attempted(l, c)
      BY <1>1, <3>1 DEF Attempted
    <3>3. RightAtFirst(l, c)' = RightAtFirst(l, c) /\ RightInTheEnd(l, c)' = RightInTheEnd(l, c)
      BY <1>1, <3>1, <3>2 DEF RightAtFirst, RightInTheEnd
    <3>4. MasteryCounts(l, c)
      BY DEF TutorInv
    <3> QED
      BY <1>1, <3>2, <3>3, <3>4 DEF MasteryCounts
  <2>11. PositionsAreBalanced'
    BY <1>1 DEF TutorInv, PositionsAreBalanced
  <2> QED
    BY <2>6, <2>7, <2>8, <2>9, <2>10, <2>11 DEF TutorInv
<1> QED
  BY <1>3, <1>4

LEMMA SaveQuestionInv ==
    ASSUME TutorInv, NEW n \in Lesson, SaveQuestion(n)
    PROVE  TutorInv'
<1> DEFINE v == [lesson[n] EXCEPT !.step = "serve"]
           i == lesson[n].item
           asked == [learner |-> lesson[n].learner, position |-> lesson[n].position, answered |-> FALSE]
<1>1. /\ UNCHANGED <<noveltyLedger, attempts, mastery, positions, tutorAudit, reply>>
      /\ lesson[n].step = "save" /\ lesson' = [lesson EXCEPT ![n] = v]
      /\ questions' = [j \in DOMAIN questions \cup {i} |-> IF j \in DOMAIN questions THEN questions[j] ELSE asked]
  BY DEF SaveQuestion, LessonGoes
<1>2. /\ lesson[n] \in RunningLesson /\ i \in Item /\ lesson[n].position \in Position
      /\ i \in noveltyLedger /\ i \notin DOMAIN questions
      /\ \A m \in Lesson \ {n} : lesson[m].step \in {"place", "save"} => lesson[m].item # i
  BY <1>1, LessonRuns DEF TutorInv, LessonStands
<1>3. v \in RunningLesson /\ v.step = "serve" /\ v.item = i /\ v.position \in Position
  BY <1>2 DEF RunningLesson
<1>4. asked \in [learner : Learner, position : Position, answered : BOOLEAN] /\ ~asked.answered
  BY <1>2 DEF RunningLesson
<1>5. PICK d : d = DOMAIN questions
  OBVIOUS
<1>6. /\ DOMAIN questions' = d \cup {i} /\ i \notin d /\ d \subseteq Item /\ d \subseteq noveltyLedger
      /\ questions'[i] = asked
      /\ \A j \in d : questions'[j] = questions[j]
  BY <1>1, <1>2, <1>5 DEF TutorInv, TutorTyped
<1> HIDE DEF v, i, asked
<1>7. \A m \in Lesson : LessonStands(m)'
  <2>1. \A m \in Lesson \ {n} :
           lesson[m].step \in {"place", "save"} =>
               /\ lesson[m].item \notin DOMAIN questions'
               /\ v.step \in {"place", "save"} => lesson[m].item # v.item
    <3>1. \A m \in Lesson : lesson[m].step \in {"place", "save"} => lesson[m].item \notin d
      BY <1>5 DEF TutorInv, LessonStands
    <3> QED
      BY <1>2, <1>3, <1>6, <3>1
  <2>2. /\ noveltyLedger \subseteq noveltyLedger' /\ DOMAIN questions \subseteq DOMAIN questions'
        /\ v.item \in DOMAIN questions' /\ v.item \in Item
    BY <1>1, <1>2, <1>3, <1>5, <1>6
  <2> QED
    BY <1>1, <1>3, <2>1, <2>2, LessonsStand
<1>8. TutorTyped'
  <2>1. lesson' \in [Lesson -> {NotRunning} \cup RunningLesson]
    BY <1>1, <1>3 DEF TutorInv, TutorTyped
  <2>2. questions' \in [DOMAIN questions' -> [learner : Learner, position : Position, answered : BOOLEAN]]
    <3>1. \A j \in d \cup {i} : questions'[j] \in [learner : Learner, position : Position, answered : BOOLEAN]
      BY <1>4, <1>5, <1>6 DEF TutorInv, TutorTyped
    <3> QED
      BY <1>1, <1>6, <3>1
  <2>3. DOMAIN questions' \subseteq noveltyLedger /\ DOMAIN questions \subseteq DOMAIN questions'
    BY <1>2, <1>5, <1>6
  <2>4. tutorAudit' \subseteq DOMAIN questions'
    BY <1>1, <2>3 DEF TutorInv, TutorTyped
  <2>5. \A r \in Reply : reply'[r].step = "score" => reply'[r].item \in DOMAIN questions'
    BY <1>1, <2>3 DEF TutorInv, TutorTyped
  <2> QED
    BY <1>1, <2>1, <2>2, <2>3, <2>4, <2>5 DEF TutorInv, TutorTyped
<1>9. NoRepeats' /\ PositionsAreBalanced'
  BY <1>1 DEF TutorInv, NoRepeats, PositionsAreBalanced
<1>10. attempts[i] = <<>>
  BY <1>2 DEF TutorInv, AttemptsStand
<1>11. ASSUME NEW j \in Item PROVE AttemptsStand(j)'
  <2>1. AttemptsStand(j)
    BY DEF TutorInv
  <2>2. CASE j = i
    BY <1>1, <1>4, <1>6, <1>10, <2>2 DEF AttemptsStand
  <2>3. CASE j # i
    BY <1>1, <1>5, <1>6, <2>1, <2>3 DEF AttemptsStand
  <2> QED
    BY <2>2, <2>3
<1>12. ASSUME NEW l \in Learner, NEW c \in Competency PROVE MasteryCounts(l, c)'
  <2>1. \A j : j # i => (j \in QuestionsOf(l, c)' <=> j \in QuestionsOf(l, c))
    BY <1>5, <1>6 DEF QuestionsOf
  <2>2. i \notin QuestionsOf(l, c)
    BY <1>5, <1>6 DEF QuestionsOf
  <2>3. Attempted(l, c)' = Attempted(l, c)
    BY <1>1, <1>10, <2>1, <2>2 DEF Attempted
  <2>4. RightAtFirst(l, c)' = RightAtFirst(l, c)
    BY <1>1, <2>3 DEF RightAtFirst
  <2>5. RightInTheEnd(l, c)' = RightInTheEnd(l, c)
    BY <1>1, <1>10, <2>1, <2>2 DEF RightInTheEnd
  <2>6. MasteryCounts(l, c)
    BY DEF TutorInv
  <2> QED
    BY <1>1, <2>3, <2>4, <2>5, <2>6 DEF MasteryCounts
<1> QED
  BY <1>7, <1>8, <1>9, <1>11, <1>12 DEF TutorInv

LEMMA AnswerInv ==
    ASSUME TutorInv, NEW r \in Reply, NEW i \in Item, NEW p \in Position, Answer(r, i, p)
    PROVE  TutorInv'
<1>1. UNCHANGED <<noveltyLedger, questions, attempts, mastery, positions, tutorAudit, lesson>>
  BY DEF Answer
<1>2. PICK b \in BOOLEAN : b = (p = questions[i].position)
  OBVIOUS
<1>3. PICK w \in [step : {"score"}, item : Item, correct : BOOLEAN] :
         w = [step |-> "score", item |-> i, correct |-> b]
  OBVIOUS
<1>4. reply' = [reply EXCEPT ![r] = w] /\ i \in DOMAIN questions /\ w.item = i
  BY <1>2, <1>3 DEF Answer
<1>5. TutorTyped'
  <2> DEFINE Rows == {NotRunning, [step |-> "done"]} \cup [step : {"score"}, item : Item, correct : BOOLEAN]
  <2>1. reply \in [Reply -> Rows] /\ w \in Rows
    BY DEF TutorInv, TutorTyped
  <2>2. \A q \in Reply : reply[q].step = "score" => reply[q].item \in DOMAIN questions
    BY DEF TutorInv, TutorTyped
  <2> HIDE DEF Rows
  <2>3. reply' \in [Reply -> Rows]
    BY <1>4, <2>1
  <2>4. \A q \in Reply : reply'[q].step = "score" => reply'[q].item \in DOMAIN questions'
    BY <1>1, <1>4, <2>1, <2>2
  <2> QED
    BY <1>1, <2>3, <2>4 DEF TutorInv, TutorTyped, Rows
<1>6. \A n \in Lesson : LessonStands(n)'
  BY <1>1 DEF TutorInv, LessonStands
<1>7. \A j \in Item : AttemptsStand(j)'
  BY <1>1 DEF TutorInv, AttemptsStand
<1>8. NoRepeats' /\ PositionsAreBalanced'
  BY <1>1 DEF TutorInv, NoRepeats, PositionsAreBalanced
<1>9. ASSUME NEW l \in Learner, NEW c \in Competency PROVE MasteryCounts(l, c)'
  <2>1. QuestionsOf(l, c)' = QuestionsOf(l, c)
    BY <1>1 DEF QuestionsOf
  <2>2. Attempted(l, c)' = Attempted(l, c)
    BY <1>1, <2>1 DEF Attempted
  <2>3. RightAtFirst(l, c)' = RightAtFirst(l, c) /\ RightInTheEnd(l, c)' = RightInTheEnd(l, c)
    BY <1>1, <2>1, <2>2 DEF RightAtFirst, RightInTheEnd
  <2>4. MasteryCounts(l, c)
    BY DEF TutorInv
  <2> QED
    BY <1>1, <2>2, <2>3, <2>4 DEF MasteryCounts
<1> QED
  BY <1>5, <1>6, <1>7, <1>8, <1>9 DEF TutorInv

LEMMA RaisedFacts ==
    ASSUME NEW was \in MasteryRow
    PROVE  /\ Raised(was) \in MasteryRow
           /\ Raised(was).attempts = was.attempts /\ Raised(was).first = was.first
           /\ Raised(was).eventual = was.eventual
<1> DEFINE difficulty == IF was.difficulty = 5 THEN 5 ELSE was.difficulty + 1
           v == [was EXCEPT !.difficulty = difficulty, !.streak = 0]
<1>1. difficulty \in 0..5
  BY DEF MasteryRow
<1>2. Raised(was) = v \/ Raised(was) = was
  BY DEF Raised
<1> HIDE DEF difficulty
<1>3. v \in MasteryRow /\ v.attempts = was.attempts /\ v.first = was.first /\ v.eventual = was.eventual
  BY <1>1 DEF MasteryRow
<1> QED
  BY <1>2, <1>3

LEMMA FirstAttemptFacts ==
    ASSUME NEW was \in MasteryRow, NEW correct \in BOOLEAN
    PROVE  /\ FirstAttempt(was, correct) \in MasteryRow
           /\ FirstAttempt(was, correct).attempts = was.attempts + 1
           /\ FirstAttempt(was, correct).first = IF correct THEN was.first + 1 ELSE was.first
           /\ FirstAttempt(was, correct).eventual = IF correct THEN was.eventual + 1 ELSE was.eventual
<1>1. CASE correct
  <2> DEFINE m == IF was.mastery + 10 > 100 THEN 100 ELSE was.mastery + 10
             a == was.attempts + 1
             e == was.eventual + 1
             f == was.first + 1
             k == was.streak + 1
             v == [was EXCEPT !.attempts = a, !.eventual = e, !.first = f, !.streak = k, !.mastery = m]
  <2>1. m \in 0..100 /\ a \in Nat /\ e \in Nat /\ f \in Nat /\ k \in Nat
    BY DEF MasteryRow
  <2>2. FirstAttempt(was, correct) = Raised(v)
    BY <1>1 DEF FirstAttempt
  <2> HIDE DEF m, a, e, f, k
  <2>3. v \in MasteryRow /\ v.attempts = a /\ v.first = f /\ v.eventual = e
    BY <2>1 DEF MasteryRow
  <2> HIDE DEF v
  <2> QED
    BY <1>1, <2>2, <2>3, RaisedFacts, ZenonT(30) DEF a, e, f
<1>2. CASE ~correct
  <2> DEFINE m == IF was.mastery < 12 THEN 0 ELSE was.mastery - 12
             difficulty == IF m < 35 /\ was.difficulty > 1 THEN was.difficulty - 1 ELSE was.difficulty
             a == was.attempts + 1
             v == [was EXCEPT !.attempts = a, !.streak = 0, !.mastery = m, !.difficulty = difficulty]
  <2>1. m \in 0..100 /\ difficulty \in 0..5 /\ a \in Nat
    BY DEF MasteryRow
  <2>2. FirstAttempt(was, correct) = v
    BY <1>2 DEF FirstAttempt
  <2> HIDE DEF m, difficulty
  <2>3. /\ v \in MasteryRow /\ v.attempts = was.attempts + 1 /\ v.first = was.first
        /\ v.eventual = was.eventual
    BY <2>1 DEF MasteryRow
  <2> QED
    BY <1>2, <2>2, <2>3
<1> QED
  BY <1>1, <1>2

\* The questions of a learner are finitely many.
LEMMA QuestionsAreFinite ==
    ASSUME TutorInv, NEW l, NEW c
    PROVE  /\ IsFiniteSet(DOMAIN questions) /\ IsFiniteSet(QuestionsOf(l, c))
           /\ IsFiniteSet(Attempted(l, c)) /\ IsFiniteSet(RightAtFirst(l, c))
           /\ IsFiniteSet(RightInTheEnd(l, c))
<1>1. IsFiniteSet(noveltyLedger) /\ DOMAIN questions \subseteq noveltyLedger
  BY DEF TutorInv, TutorTyped
<1>2. IsFiniteSet(DOMAIN questions)
  BY <1>1, FS_Subset
<1>3. /\ QuestionsOf(l, c) \subseteq DOMAIN questions /\ Attempted(l, c) \subseteq DOMAIN questions
      /\ RightAtFirst(l, c) \subseteq DOMAIN questions /\ RightInTheEnd(l, c) \subseteq DOMAIN questions
  BY DEF QuestionsOf, Attempted, RightAtFirst, RightInTheEnd
<1> QED
  BY <1>2, <1>3, FS_Subset

LEMMA ScoreAnswerInv ==
    ASSUME TutorInv, NEW r \in Reply, ScoreAnswer(r)
    PROVE  TutorInv'
<1> DEFINE Rows == {NotRunning, [step |-> "done"]} \cup [step : {"score"}, item : Item, correct : BOOLEAN]
<1>1. /\ reply[r].step = "score" /\ reply' = [reply EXCEPT ![r] = [step |-> "done"]]
      /\ UNCHANGED <<noveltyLedger, positions, tutorAudit, lesson>>
  BY DEF ScoreAnswer
<1>2. reply \in [Reply -> Rows]
  BY DEF TutorInv, TutorTyped
<1>3. reply[r] \in [step : {"score"}, item : Item, correct : BOOLEAN]
  BY <1>1, <1>2 DEF NotRunning
<1>4. PICK i \in Item, correct \in BOOLEAN : i = reply[r].item /\ correct = reply[r].correct
  BY <1>3
<1>5. i \in DOMAIN questions
  BY <1>1, <1>4 DEF TutorInv, TutorTyped
<1>6. reply' \in [Reply -> Rows] /\ \A q \in Reply : reply'[q].step = "score" => reply[q].step = "score" /\ reply'[q] = reply[q]
  BY <1>1, <1>2
<1>7. NoRepeats' /\ PositionsAreBalanced'
  BY <1>1 DEF TutorInv, NoRepeats, PositionsAreBalanced
<1> HIDE DEF Rows
<1>8. CASE questions[i].answered
  <2>1. UNCHANGED <<attempts, questions, mastery>>
    BY <1>4, <1>8 DEF ScoreAnswer, Completed
  <2>2. TutorTyped'
    <3>1. \A q \in Reply : reply'[q].step = "score" => reply'[q].item \in DOMAIN questions'
      BY <1>6, <2>1 DEF TutorInv, TutorTyped
    <3> QED
      BY <1>1, <1>6, <2>1, <3>1 DEF TutorInv, TutorTyped, Rows
  <2>3. \A n \in Lesson : LessonStands(n)'
    BY <1>1, <2>1 DEF TutorInv, LessonStands
  <2>4. \A j \in Item : AttemptsStand(j)'
    BY <2>1 DEF TutorInv, AttemptsStand
  <2>5. ASSUME NEW l \in Learner, NEW c \in Competency PROVE MasteryCounts(l, c)'
    <3>1. QuestionsOf(l, c)' = QuestionsOf(l, c)
      BY <2>1 DEF QuestionsOf
    <3>2. Attempted(l, c)' = Attempted(l, c)
      BY <2>1, <3>1 DEF Attempted
    <3>3. RightAtFirst(l, c)' = RightAtFirst(l, c) /\ RightInTheEnd(l, c)' = RightInTheEnd(l, c)
      BY <2>1, <3>1, <3>2 DEF RightAtFirst, RightInTheEnd
    <3>4. MasteryCounts(l, c)
      BY DEF TutorInv
    <3> QED
      BY <2>1, <3>2, <3>3, <3>4 DEF MasteryCounts
  <2> QED
    BY <1>7, <2>2, <2>3, <2>4, <2>5 DEF TutorInv
<1>9. CASE ~questions[i].answered
  <2>1. PICK asked \in Learner, topic \in Competency : asked = questions[i].learner /\ topic = i.competency
    BY <1>5 DEF TutorInv, TutorTyped, Competency
  <2>2. PICK x \in Learner \X Competency : x = <<asked, topic>>
    OBVIOUS
  <2>3. PICK old \in MasteryRow : old = mastery[x]
    BY DEF TutorInv, TutorTyped
  <2>4. PICK was \in MasteryRow :
           /\ was = IF old = NoRow THEN [NoRow EXCEPT !.difficulty = i.difficulty] ELSE old
           /\ was.attempts = old.attempts /\ was.first = old.first /\ was.eventual = old.eventual
    <3>1. i.difficulty \in 0..5
      BY TutorAssumption
    <3>2. [NoRow EXCEPT !.difficulty = i.difficulty] \in MasteryRow
      BY <3>1 DEF NoRow, MasteryRow
    <3> QED
      BY <3>2 DEF NoRow
  <2> DEFINE next == IF attempts[i] = <<>> THEN FirstAttempt(was, correct)
                     ELSE IF correct THEN Raised([was EXCEPT !.eventual = @ + 1, !.streak = @ + 1])
                     ELSE old
  <2>5. /\ attempts' = [attempts EXCEPT ![i] = Append(@, correct)]
        /\ questions' = [questions EXCEPT ![i].answered = correct]
        /\ mastery' = [mastery EXCEPT ![x] = next]
    BY <1>4, <1>9, <2>1, <2>2, <2>3, <2>4 DEF ScoreAnswer, Completed
  <2>6. /\ next \in MasteryRow
        /\ next.attempts = IF attempts[i] = <<>> THEN old.attempts + 1 ELSE old.attempts
        /\ next.first = IF attempts[i] = <<>> /\ correct THEN old.first + 1 ELSE old.first
        /\ next.eventual = IF correct THEN old.eventual + 1 ELSE old.eventual
    <3>1. CASE attempts[i] = <<>>
      <4>1. next = FirstAttempt(was, correct)
        BY <3>1
      <4>2. /\ FirstAttempt(was, correct) \in MasteryRow
            /\ FirstAttempt(was, correct).attempts = was.attempts + 1
            /\ FirstAttempt(was, correct).first = IF correct THEN was.first + 1 ELSE was.first
            /\ FirstAttempt(was, correct).eventual = IF correct THEN was.eventual + 1 ELSE was.eventual
        BY FirstAttemptFacts
      <4> HIDE DEF next
      <4> QED
        BY <2>4, <3>1, <4>1, <4>2
    <3>2. CASE attempts[i] # <<>> /\ correct
      <4> DEFINE e == was.eventual + 1
                 k == was.streak + 1
                 v == [was EXCEPT !.eventual = e, !.streak = k]
      <4>1. e \in Nat /\ k \in Nat
        BY DEF MasteryRow
      <4>2. next = Raised(v)
        BY <3>2
      <4> HIDE DEF e, k, next
      <4>3. v \in MasteryRow /\ v.attempts = was.attempts /\ v.first = was.first /\ v.eventual = e
        BY <4>1 DEF MasteryRow
      <4> HIDE DEF v
      <4> QED
        BY <2>4, <3>2, <4>2, <4>3, RaisedFacts DEF e
    <3>3. CASE attempts[i] # <<>> /\ ~correct
      BY <3>3
    <3> QED
      BY <3>1, <3>2, <3>3
  <2> HIDE DEF next
  <2>7. /\ attempts \in [Item -> Seq(BOOLEAN)] /\ attempts[i] \in Seq(BOOLEAN)
        /\ \A q \in DOMAIN questions : questions[q] \in [learner : Learner, position : Position, answered : BOOLEAN]
    BY DEF TutorInv, TutorTyped
  <2>8. PICK s \in Seq(BOOLEAN), k \in Nat :
           /\ s = Append(attempts[i], correct) /\ k = Len(attempts[i])
           /\ Len(s) = k + 1 /\ s[k + 1] = correct
           /\ \A m \in 1..k : s[m] = attempts[i][m]
    <3>1. PICK z \in Seq(BOOLEAN) : z = attempts[i]
      BY <2>7
    <3>2. /\ Append(z, correct) \in Seq(BOOLEAN) /\ Len(z) \in Nat
          /\ Len(Append(z, correct)) = Len(z) + 1 /\ Append(z, correct)[Len(z) + 1] = correct
          /\ \A m \in 1..Len(z) : Append(z, correct)[m] = z[m]
      OBVIOUS
    <3> QED
      BY <3>1, <3>2
  <2>9. PICK q \in [learner : Learner, position : Position, answered : BOOLEAN] :
           q = [questions[i] EXCEPT !.answered = correct] /\ q.learner = asked /\ q.answered = correct
    <3>1. questions[i] \in [learner : Learner, position : Position, answered : BOOLEAN]
      BY <1>5, <2>7
    <3>2. PICK z \in [learner : Learner, position : Position, answered : BOOLEAN] : z = questions[i]
      BY <3>1
    <3>3. /\ [z EXCEPT !.answered = correct] \in [learner : Learner, position : Position, answered : BOOLEAN]
          /\ [z EXCEPT !.answered = correct].learner = z.learner
          /\ [z EXCEPT !.answered = correct].answered = correct
      OBVIOUS
    <3> QED
      BY <2>1, <3>2, <3>3
  <2>10. /\ attempts' \in [Item -> Seq(BOOLEAN)] /\ attempts'[i] = s
         /\ \A j \in Item : j # i => attempts'[j] = attempts[j]
    BY <2>5, <2>7, <2>8
  <2>11. PICK d : d = DOMAIN questions
    OBVIOUS
  <2>12. /\ DOMAIN questions' = d /\ i \in d /\ d \subseteq Item
         /\ questions'[i] = q
         /\ \A j \in d : j # i => questions'[j] = questions[j]
    BY <1>5, <2>5, <2>9, <2>11 DEF TutorInv, TutorTyped
  <2>13. TutorTyped'
    <3>1. questions' \in [DOMAIN questions' -> [learner : Learner, position : Position, answered : BOOLEAN]]
      <4>1. questions \in [d -> [learner : Learner, position : Position, answered : BOOLEAN]]
        BY <2>11 DEF TutorInv, TutorTyped
      <4>2. questions' = [questions EXCEPT ![i] = q]
        BY <2>5, <2>9
      <4>3. questions' \in [d -> [learner : Learner, position : Position, answered : BOOLEAN]]
        BY <2>12, <4>1, <4>2
      <4> QED
        BY <2>12, <4>3
    <3>2. mastery' \in [Learner \X Competency -> MasteryRow]
      BY <2>5, <2>6 DEF TutorInv, TutorTyped
    <3>3. \A p \in Reply : reply'[p].step = "score" => reply'[p].item \in DOMAIN questions'
      BY <1>6, <2>11, <2>12 DEF TutorInv, TutorTyped
    <3>4. DOMAIN questions' = DOMAIN questions
      BY <2>11, <2>12
    <3> QED
      BY <1>1, <1>6, <2>10, <3>1, <3>2, <3>3, <3>4 DEF TutorInv, TutorTyped, Rows
  <2>14. \A n \in Lesson : LessonStands(n)'
    BY <1>1, <2>11, <2>12 DEF TutorInv, LessonStands
  <2>15. ASSUME NEW m \in 1..k PROVE ~attempts[i][m]
    BY <1>5, <1>9, <2>7, <2>8 DEF TutorInv, AttemptsStand
  <2>16. ASSUME NEW j \in Item PROVE AttemptsStand(j)'
    <3>1. CASE j # i
      BY <2>10, <2>11, <2>12, <3>1 DEF TutorInv, AttemptsStand
    <3>2. CASE j = i
      <4>1. DOMAIN s = 1..(k + 1) /\ \A m \in 1..(k + 1) : m = k + 1 \/ m \in 1..k
        BY <2>8
      <4>2. \A m \in DOMAIN s : s[m] => m = Len(s) /\ correct
        BY <2>8, <2>15, <4>1
      <4>3. correct => Len(s) > 0 /\ s[Len(s)]
        BY <2>8
      <4> QED
        BY <2>9, <2>10, <2>12, <3>2, <4>2, <4>3 DEF AttemptsStand
    <3> QED
      BY <3>1, <3>2
  <2>17. ASSUME NEW l \in Learner, NEW c \in Competency PROVE MasteryCounts(l, c)'
    <3>1. QuestionsOf(l, c)' = QuestionsOf(l, c)
      BY <2>1, <2>9, <2>11, <2>12 DEF QuestionsOf
    <3>2. i \in QuestionsOf(l, c) <=> l = asked /\ c = topic
      BY <2>1, <1>5 DEF QuestionsOf
    <3>3. QuestionsOf(l, c) \subseteq Item
      BY <2>11, <2>12 DEF QuestionsOf
    <3>4. MasteryCounts(l, c)
      BY DEF TutorInv
    <3>5. s # <<>> /\ (attempts[i] = <<>> <=> k = 0)
      BY <2>7, <2>8
    <3>6. (\E m \in DOMAIN s : s[m]) <=> correct
      <4>1. DOMAIN s = 1..(k + 1) /\ \A m \in 1..(k + 1) : m = k + 1 \/ m \in 1..k
        BY <2>8
      <4> QED
        BY <2>8, <2>15, <4>1
    <3>7. ~\E m \in DOMAIN attempts[i] : attempts[i][m]
      BY <2>7, <2>8, <2>15
    <3>8. CASE ~(l = asked /\ c = topic)
      <4>1. Attempted(l, c)' = Attempted(l, c)
        BY <2>10, <3>1, <3>2, <3>3, <3>8 DEF Attempted
      <4>2. RightAtFirst(l, c)' = RightAtFirst(l, c)
        BY <2>10, <3>2, <3>3, <3>8, <4>1 DEF RightAtFirst, Attempted
      <4>3. RightInTheEnd(l, c)' = RightInTheEnd(l, c)
        BY <2>10, <3>1, <3>2, <3>3, <3>8 DEF RightInTheEnd
      <4>4. mastery'[<<l, c>>] = mastery[<<l, c>>]
        BY <2>2, <2>5, <3>8 DEF TutorInv, TutorTyped
      <4> QED
        BY <3>4, <4>1, <4>2, <4>3, <4>4 DEF MasteryCounts
    <3>9. CASE l = asked /\ c = topic
      <4>1. <<l, c>> = x /\ mastery'[x] = next
        BY <2>2, <2>5, <3>9 DEF TutorInv, TutorTyped
      <4>2. /\ old.attempts = Cardinality(Attempted(l, c)) /\ old.first = Cardinality(RightAtFirst(l, c))
            /\ old.eventual = Cardinality(RightInTheEnd(l, c))
        BY <2>3, <3>4, <4>1 DEF MasteryCounts
      <4>3. /\ IsFiniteSet(Attempted(l, c)) /\ IsFiniteSet(RightAtFirst(l, c))
            /\ IsFiniteSet(RightInTheEnd(l, c))
        BY QuestionsAreFinite
      <4>4. /\ i \in Attempted(l, c) <=> attempts[i] # <<>>
            /\ i \notin RightInTheEnd(l, c)
        BY <3>2, <3>7, <3>9 DEF Attempted, RightInTheEnd
      <4>5. Attempted(l, c)' = IF attempts[i] = <<>> THEN Attempted(l, c) \cup {i} ELSE Attempted(l, c)
        BY <2>10, <3>1, <3>2, <3>3, <3>5, <3>9 DEF Attempted
      <4>6. RightInTheEnd(l, c)' = IF correct THEN RightInTheEnd(l, c) \cup {i} ELSE RightInTheEnd(l, c)
        BY <2>10, <3>1, <3>2, <3>3, <3>6, <3>7, <3>9 DEF RightInTheEnd
      <4>7. attempts[i] # <<>> => s[1] = attempts[i][1]
        BY <2>8, <3>5
      <4>8. attempts[i] = <<>> => s[1] = correct /\ i \notin RightAtFirst(l, c)
        BY <2>8, <3>5 DEF RightAtFirst, Attempted
      <4>9. RightAtFirst(l, c)' = IF attempts[i] = <<>> /\ correct THEN RightAtFirst(l, c) \cup {i}
                                  ELSE RightAtFirst(l, c)
        BY <2>10, <3>2, <3>3, <4>5, <4>7, <4>8 DEF RightAtFirst, Attempted
      <4>11. Cardinality(Attempted(l, c)') = IF attempts[i] = <<>> THEN old.attempts + 1 ELSE old.attempts
        <5>1. attempts[i] = <<>> => Cardinality(Attempted(l, c) \cup {i}) = Cardinality(Attempted(l, c)) + 1
          BY <4>3, <4>4, FS_AddElement
        <5> QED
          BY <4>2, <4>3, <4>4, <4>5, <5>1
      <4>12. Cardinality(RightAtFirst(l, c)')
                = IF attempts[i] = <<>> /\ correct THEN old.first + 1 ELSE old.first
        <5>1. (attempts[i] = <<>> /\ correct) => Cardinality(RightAtFirst(l, c) \cup {i}) = Cardinality(RightAtFirst(l, c)) + 1
          BY <4>3, <4>8, FS_AddElement
        <5> QED
          BY <4>2, <4>3, <4>8, <4>9, <5>1
      <4>13. Cardinality(RightInTheEnd(l, c)') = IF correct THEN old.eventual + 1 ELSE old.eventual
        <5>1. correct => Cardinality(RightInTheEnd(l, c) \cup {i}) = Cardinality(RightInTheEnd(l, c)) + 1
          BY <4>3, <4>4, FS_AddElement
        <5> QED
          BY <4>2, <4>3, <4>4, <4>6, <5>1
      <4> QED
        BY <2>6, <4>1, <4>11, <4>12, <4>13 DEF MasteryCounts
    <3> QED
      BY <3>8, <3>9
  <2> QED
    BY <1>7, <2>13, <2>14, <2>16, <2>17 DEF TutorInv
<1> QED
  BY <1>8, <1>9

LEMMA TutorStep ==
    ASSUME TutorInv, TutorNext
    PROVE  TutorInv'
BY NextQuestionInv, GeneratedInv, VerifiedInv, ClaimInv, PlaceInv, SaveQuestionInv, ServeInv,
   AnswerInv, ScoreAnswerInv, TutorCrashInv DEF TutorNext

\* The invariant says what the property says.
LEMMA TutorFollows ==
    ASSUME TutorInv
    PROVE  NoRepeats /\ MasteryIsEarned /\ PositionsAreBalanced
<1>1. ASSUME NEW i \in DOMAIN questions
      PROVE  Cardinality({k \in DOMAIN attempts[i] : attempts[i][k]}) <= 1
  <2> DEFINE T == {k \in DOMAIN attempts[i] : attempts[i][k]}
  <2>1. i \in Item
    BY DEF TutorInv, TutorTyped
  <2>2. T \subseteq {Len(attempts[i])}
    BY <2>1 DEF TutorInv, AttemptsStand
  <2>3. IsFiniteSet({Len(attempts[i])}) /\ Cardinality({Len(attempts[i])}) = 1
    BY FS_Singleton
  <2> HIDE DEF T
  <2>4. Cardinality(T) <= Cardinality({Len(attempts[i])})
    BY <2>2, <2>3, FS_Subset
  <2> QED
    BY <2>3, <2>4 DEF T
<1> QED
  BY <1>1 DEF TutorInv, MasteryIsEarned

-----------------------------------------------------------------------------
(* In the deployment. *)

RuntimeInv ==
    /\ part = "commercial" => CommercialInv
    /\ part = "enforcement" => EnforcementInv
    /\ part = "tutor" => TutorInv

LEMMA InitRuntime == PlatformInit => RuntimeInv
BY InitCommercial, InitEnforcement, InitTutor DEF PlatformInit, RuntimeInv

LEMMA CommercialStutter ==
    ASSUME CommercialInv, UNCHANGED commercialVars
    PROVE  CommercialInv'
<1>1. UNCHANGED <<products, policy, now, buckets, heads, sealed, visit, audited, answers>>
  BY DEF commercialVars
<1>2. CommercialTyped' = CommercialTyped
  BY <1>1 DEF CommercialTyped
<1>3. \A v \in Visitor : KeyOf(v)' = KeyOf(v)
  BY <1>1 DEF KeyOf
<1>4. \A v \in Visitor : VisitStands(v) => VisitStands(v)'
  BY <1>1, <1>3 DEF VisitStands
<1>5. HeadsLead => HeadsLead'
  BY <1>1, <1>3 DEF HeadsLead
<1>6. NumbersAreTaken => NumbersAreTaken'
  BY <1>1, <1>3 DEF NumbersAreTaken
<1>7. OpenedIsSealed => OpenedIsSealed'
  BY <1>1, <1>3 DEF OpenedIsSealed
<1>8. RestoresAreLatest' = RestoresAreLatest
  BY <1>1 DEF RestoresAreLatest
<1>9. AnswersAreVerified' = AnswersAreVerified
  BY <1>1 DEF AnswersAreVerified
<1> QED
  BY <1>2, <1>4, <1>5, <1>6, <1>7, <1>8, <1>9 DEF CommercialInv

LEMMA EnforcementStutter ==
    ASSUME EnforcementInv, UNCHANGED enforcementVars
    PROVE  EnforcementInv'
<1>1. UNCHANGED <<signingKey, mandatory, ledger, caller, appended, committed, executed, disturbed>>
  BY DEF enforcementVars
<1>2. EnforcementTyped' = EnforcementTyped /\ HasKernel' = HasKernel
  BY <1>1 DEF EnforcementTyped, HasKernel
<1>3. \A c \in Caller : RequestOf(c)' = RequestOf(c)
  BY <1>1 DEF RequestOf
<1>4. \A c \in Caller : \A p : AtPhase(c, p)' = AtPhase(c, p)
  BY <1>1 DEF AtPhase
<1>5. \A c \in Caller : CallerStands(c) => CallerStands(c)'
  BY <1>1, <1>2, <1>3, <1>4 DEF CallerStands
<1>6. EffectsAreAllowed => EffectsAreAllowed'
  BY <1>1, <1>2 DEF EffectsAreAllowed
<1>7. \A c \in Caller : Whole(c)' = Whole(c)
  BY <1>1, <1>4 DEF Whole
<1>8. AppendsAlone => AppendsAlone'
  BY <1>1, <1>4, <1>7 DEF AppendsAlone
<1>9. \A c \in committed : Evident(c) => Evident(c)'
  BY <1>1, <1>4 DEF Evident
<1> QED
  BY <1>1, <1>2, <1>5, <1>6, <1>8, <1>9 DEF EnforcementInv

LEMMA TutorStutter ==
    ASSUME TutorInv, UNCHANGED tutorVars
    PROVE  TutorInv'
<1>1. UNCHANGED <<noveltyLedger, questions, attempts, mastery, positions, tutorAudit, lesson, reply>>
  BY DEF tutorVars
<1>2. TutorTyped'
  BY <1>1 DEF TutorInv, TutorTyped
<1>3. \A n \in Lesson : LessonStands(n)'
  BY <1>1 DEF TutorInv, LessonStands
<1>4. \A i \in Item : AttemptsStand(i)'
  BY <1>1 DEF TutorInv, AttemptsStand
<1>5. NoRepeats' /\ PositionsAreBalanced'
  BY <1>1 DEF TutorInv, NoRepeats, PositionsAreBalanced
<1>6. ASSUME NEW l \in Learner, NEW c \in Competency PROVE MasteryCounts(l, c)'
  <2>1. QuestionsOf(l, c)' = QuestionsOf(l, c)
    BY <1>1 DEF QuestionsOf
  <2>2. Attempted(l, c)' = Attempted(l, c)
    BY <1>1, <2>1 DEF Attempted
  <2>3. RightAtFirst(l, c)' = RightAtFirst(l, c) /\ RightInTheEnd(l, c)' = RightInTheEnd(l, c)
    BY <1>1, <2>1, <2>2 DEF RightAtFirst, RightInTheEnd
  <2>4. MasteryCounts(l, c)
    BY DEF TutorInv
  <2> QED
    BY <1>1, <2>2, <2>3, <2>4 DEF MasteryCounts
<1> QED
  BY <1>2, <1>3, <1>4, <1>5, <1>6 DEF TutorInv

LEMMA RuntimeStep ==
    ASSUME RuntimeInv, [PlatformNext]_platformVars
    PROVE  RuntimeInv'
<1>1. CASE CommercialRuns
  BY <1>1, CommercialStep DEF CommercialRuns, RuntimeInv
<1>2. CASE EnforcementRuns
  BY <1>2, EnforcementStep DEF EnforcementRuns, RuntimeInv
<1>3. CASE TutorRuns
  BY <1>3, TutorStep DEF TutorRuns, RuntimeInv
<1>4. CASE \/ IdentityRuns \/ VoiceRuns \/ FailSafeRuns \/ VotesRuns \/ IntegrityRuns \/ DevicesRuns
           \/ CouncilRuns \/ GatewayRuns \/ AssuranceRuns \/ FusionRuns \/ AwarenessRuns
           \/ TitanRuns \/ RoadRuns
  <2>1. part \notin {"commercial", "enforcement", "tutor"} /\ part' = part
    BY <1>4 DEF IdentityRuns, VoiceRuns, FailSafeRuns, VotesRuns, IntegrityRuns, DevicesRuns,
       CouncilRuns, GatewayRuns, AssuranceRuns, FusionRuns, AwarenessRuns, TitanRuns, RoadRuns
  <2> QED
    BY <2>1 DEF RuntimeInv
<1>5. CASE UNCHANGED platformVars
  <2>1. UNCHANGED <<part, commercialVars, enforcementVars, tutorVars>>
    BY <1>5 DEF platformVars
  <2> QED
    BY <2>1, CommercialStutter, EnforcementStutter, TutorStutter DEF RuntimeInv
<1> QED
  BY <1>1, <1>2, <1>3, <1>4, <1>5 DEF PlatformNext

LEMMA RuntimeHolds == PlatformSpec => []RuntimeInv
<1>1. RuntimeInv /\ [PlatformNext]_platformVars => RuntimeInv'
  BY RuntimeStep
<1> QED
  BY <1>1, InitRuntime, PTL DEF PlatformSpec

\* A restore hands out no checkpoint that is older than one the account had been
\* told of when it asked, and of one number only one; and what is answered was
\* verified and, where it says so, defended against reviewers of whom none broke
\* down or found anything CRITICAL or BLOCKING.
THEOREM AnswersAreEarned == PlatformSpec => []CommercialHolds
<1>1. RuntimeInv => CommercialHolds
  BY DEF RuntimeInv, CommercialHolds, CommercialInv
<1> QED
  BY <1>1, RuntimeHolds, PTL

\* No consequential effect without a kernel that allowed it and its evidence
\* written before; and while no append overlaps another or is cut off, the chain
\* verifies and holds that evidence.
THEOREM EvidenceIsKept == PlatformSpec => []EnforcementHolds
<1>1. RuntimeInv => EnforcementHolds
  BY EvidenceFollows DEF RuntimeInv, EnforcementHolds
<1> QED
  BY <1>1, RuntimeHolds, PTL

\* No two claimed questions repeat each other, mastery counts each question once
\* however many replies to it overlap, and no position gets ahead of another by
\* more than one question (SARA_AI_Product_Manager_Adaptive_Tutor_UNIFIED.py).
THEOREM LessonsAreEarned == PlatformSpec => []TutorHolds
<1>1. RuntimeInv => TutorHolds
  BY TutorFollows DEF RuntimeInv, TutorHolds
<1> QED
  BY <1>1, RuntimeHolds, PTL
=============================================================================
