------------------------------ MODULE ReviewProofs ------------------------------
(***************************************************************************)
(* Proofs about the parts of MCPlatform that review what others want to    *)
(* do: assurance, fusion, module awareness, TITAN and ROAD; and, with the  *)
(* invariants of all the parts, that every one of them keeps its types.    *)
(***************************************************************************)
EXTENDS UserProofs, RuntimeProofs, SequenceTheorems

-----------------------------------------------------------------------------
(* Runtime assurance. *)

Standing == {"supported", "contradicted", "unavailable", "unsupported"}

HeardRow == UNION {[DOMAIN output.claims -> SUBSET Standing] : output \in Outputs}

CheckRow == [step : {"ask", "done"}, output : Outputs, at : Nat, nth : Nat, heard : HeardRow]

\* A receipt says what the check it is of has heard to its end.
ReceiptStands(r) ==
    /\ check[r.check].step = "done"
    /\ LET k == check[r.check] IN r.verdict = OverallVerdict(Statuses(k), k.output.failClosed)

AssuranceInv ==
    /\ AssuranceTypeOK /\ elapsed \in 0..LastElapsed
    /\ check \in [Check -> {[step |-> "new"]} \cup CheckRow]
    /\ \A c \in Check : check[c].step # "new" => DOMAIN check[c].heard = DOMAIN check[c].output.claims
    /\ \A r \in receipts : ReceiptStands(r)
    /\ \A b \in believed : b.at <= b.receipt.expires

LEMMA InitAssurance == AssuranceInit => AssuranceInv
<1> SUFFICES ASSUME AssuranceInit PROVE AssuranceInv
  OBVIOUS
<1>1. 0 \in 0..LastElapsed
  BY AssuranceAssumption
<1> QED
  BY <1>1 DEF AssuranceInit, AssuranceInv, AssuranceTypeOK

\* A check that is not done may go on; nothing else of it is kept.
LEMMA CheckMoves ==
    ASSUME AssuranceInv, NEW c \in Check, check[c].step # "done", NEW k \in {[step |-> "new"]} \cup CheckRow,
           check' = [check EXCEPT ![c] = k], k.step # "new" => DOMAIN k.heard = DOMAIN k.output.claims,
           UNCHANGED <<receipts, believed, secret, redeploys, elapsed>>
    PROVE  AssuranceInv'
<1>1. check \in [Check -> {[step |-> "new"]} \cup CheckRow]
  BY DEF AssuranceInv
<1>2. check' \in [Check -> {[step |-> "new"]} \cup CheckRow]
  BY <1>1
<1>3. \A d \in Check : check'[d] = IF d = c THEN k ELSE check[d]
  BY <1>1
<1>4. \A d \in Check : check'[d].step # "new" => DOMAIN check'[d].heard = DOMAIN check'[d].output.claims
  BY <1>3 DEF AssuranceInv
<1>5. k.step \in {"new", "ask", "done"}
  BY DEF CheckRow
<1>6. AssuranceTypeOK'
  BY <1>3, <1>5 DEF AssuranceInv, AssuranceTypeOK
<1>7. \A r \in receipts' : ReceiptStands(r)'
  <2> SUFFICES ASSUME NEW r \in receipts PROVE ReceiptStands(r)'
    OBVIOUS
  <2>1. ReceiptStands(r) /\ r.check \in Check
    BY DEF AssuranceInv, AssuranceTypeOK
  <2>2. check'[r.check] = check[r.check]
    BY <1>3, <2>1 DEF ReceiptStands
  <2> QED
    BY <2>1, <2>2 DEF ReceiptStands, Statuses
<1> QED
  BY <1>2, <1>4, <1>6, <1>7 DEF AssuranceInv

LEMMA StandingOf ==
    /\ \A answer : Normalized(answer) \in Standing
    /\ \A claim, truth : TruthStatuses(claim, truth) \subseteq Standing
<1>1. \A answer : Normalized(answer) \in Standing
  BY DEF Normalized, Standing
<1>2. ASSUME NEW claim, NEW truth PROVE TruthStatuses(claim, truth) \subseteq Standing
  <2>1. \A m : ModuleStatus(claim, m, truth) \in Standing
    BY DEF ModuleStatus, Standing
  <2>2. \A k : CountStatuses(claim, k, truth) \subseteq Standing
    BY DEF CountStatuses, Standing
  <2> DEFINE said == {ModuleStatus(claim, m, truth) : m \in claim.modules}
                       \cup (UNION {CountStatuses(claim, k, truth) : k \in claim.counts})
  <2>3. said \subseteq Standing
    BY <2>1, <2>2
  <2>4. TruthStatuses(claim, truth) \in {said, {"unavailable"}}
    BY DEF TruthStatuses
  <2> HIDE DEF said
  <2> QED
    BY <2>3, <2>4 DEF Standing
<1> QED
  BY <1>1, <1>2

LEMMA VerifyOutputInv ==
    ASSUME AssuranceInv, NEW c \in Check, NEW output \in Outputs, VerifyOutput(c, output)
    PROVE  AssuranceInv'
<1> DEFINE heard == [i \in DOMAIN output.claims |-> Claimed(output, i)]
           k == [step |-> "ask", output |-> output, at |-> 1, nth |-> 1, heard |-> heard]
<1>1. \A i : Claimed(output, i) \subseteq Standing
  BY StandingOf DEF Claimed
<1>2. heard \in [DOMAIN output.claims -> SUBSET Standing] /\ DOMAIN heard = DOMAIN output.claims
  BY <1>1
<1>3. /\ check[c].step = "new" /\ check' = [check EXCEPT ![c] = k]
      /\ UNCHANGED <<receipts, believed, secret, redeploys, elapsed>>
  BY DEF VerifyOutput
<1> HIDE DEF heard
<1>4. k \in CheckRow /\ k.output = output /\ k.heard = heard
  BY <1>2 DEF CheckRow, HeardRow
<1> HIDE DEF k
<1> QED
  BY <1>2, <1>3, <1>4, CheckMoves

LEMMA AskInv ==
    ASSUME AssuranceInv, NEW c \in Check, Ask(c)
    PROVE  AssuranceInv'
<1> DEFINE k == check[c]
           claims == k.output.claims
<1>1. /\ check \in [Check -> {[step |-> "new"]} \cup CheckRow] /\ k.step = "ask"
      /\ DOMAIN k.heard = DOMAIN claims
      /\ UNCHANGED <<receipts, believed, secret, redeploys, elapsed>>
  BY DEF Ask, AssuranceInv
<1>2. /\ k \in CheckRow /\ k.at \in Nat /\ k.nth \in Nat /\ k.output \in Outputs
      /\ k.heard \in HeardRow
      /\ DOMAIN k = {"step", "output", "at", "nth", "heard"}
  BY <1>1 DEF CheckRow
<1>3. k.heard \in [DOMAIN claims -> SUBSET Standing]
  BY <1>1, <1>2 DEF HeardRow
<1>4. CASE k.nth <= Len(claims[k.at].asks)
  <2>1. PICK answer \in Answers(k.output, claims[k.at].asks[k.nth]) :
          check' = [check EXCEPT ![c].nth = k.nth + 1, ![c].heard[k.at] = @ \cup {answer}]
    BY <1>4 DEF Ask
  <2>2. answer \in Standing
    BY StandingOf DEF Answers, Standing
  <2> DEFINE heard == [k.heard EXCEPT ![k.at] = k.heard[k.at] \cup {answer}]
             m == [k EXCEPT !.nth = k.nth + 1, !.heard = heard]
  <2>3. check' = [check EXCEPT ![c] = m]
    BY <2>1
  <2>4. heard \in [DOMAIN claims -> SUBSET Standing] /\ DOMAIN heard = DOMAIN claims
    BY <1>3, <2>2
  <2> HIDE DEF heard
  <2>5. heard \in HeardRow
    BY <1>2, <2>4 DEF HeardRow
  <2>6. m \in CheckRow /\ m.output = k.output /\ m.heard = heard
    <3> DEFINE l == [k EXCEPT !.nth = k.nth + 1]
    <3>1. l \in CheckRow /\ l.output = k.output
      BY <1>2 DEF CheckRow
    <3>2. m = [l EXCEPT !.heard = heard]
      OBVIOUS
    <3> HIDE DEF l, m
    <3> QED
      BY <2>5, <3>1, <3>2 DEF CheckRow
  <2> HIDE DEF m
  <2> QED
    BY <1>1, <2>3, <2>4, <2>6, CheckMoves
<1>5. CASE ~(k.nth <= Len(claims[k.at].asks))
  <2> DEFINE m == [k EXCEPT !.at = k.at + 1, !.nth = 1]
  <2>1. check' = [check EXCEPT ![c] = m]
    BY <1>5 DEF Ask
  <2>2. m \in CheckRow /\ m.output = k.output /\ m.heard = k.heard
    <3> DEFINE l == [k EXCEPT !.at = k.at + 1]
    <3>1. l \in CheckRow /\ l.output = k.output /\ l.heard = k.heard
      BY <1>2 DEF CheckRow
    <3>2. m = [l EXCEPT !.nth = 1]
      OBVIOUS
    <3> HIDE DEF l, m
    <3> QED
      BY <3>1, <3>2 DEF CheckRow
  <2> HIDE DEF m
  <2> QED
    BY <1>1, <2>1, <2>2, CheckMoves
<1> QED
  BY <1>4, <1>5

LEMMA AuditReceiptInv ==
    ASSUME AssuranceInv, NEW c \in Check, AuditReceipt(c)
    PROVE  AssuranceInv'
<1> DEFINE k == check[c]
           m == [k EXCEPT !.step = "done"]
           r == [check |-> c, verdict |-> OverallVerdict(Statuses(k), k.output.failClosed),
                 expires |-> elapsed + ReceiptTTL, signature |-> secret]
<1>1. /\ check \in [Check -> {[step |-> "new"]} \cup CheckRow] /\ k.step = "ask"
      /\ DOMAIN k.heard = DOMAIN k.output.claims
      /\ check' = [check EXCEPT ![c] = m]
      /\ receipts' \in {receipts, receipts \cup {r}}
      /\ UNCHANGED <<believed, secret, redeploys, elapsed>>
  BY DEF AuditReceipt, AssuranceInv
<1>2. k \in CheckRow /\ DOMAIN k = {"step", "output", "at", "nth", "heard"}
  BY <1>1 DEF CheckRow
<1>3. m \in CheckRow /\ m.output = k.output /\ m.heard = k.heard /\ m.step = "done"
  BY <1>2 DEF CheckRow
<1>4. Statuses(m) = Statuses(k)
  BY <1>3 DEF Statuses
<1>5. r \in [check : Check, verdict : {"ALLOW", "REVIEW", "BLOCK"},
             expires : 0..(LastElapsed + ReceiptTTL), signature : Secrets]
  <2>1. \A statuses, failClosed : OverallVerdict(statuses, failClosed) \in {"ALLOW", "REVIEW", "BLOCK"}
    BY DEF OverallVerdict
  <2>2. elapsed + ReceiptTTL \in 0..(LastElapsed + ReceiptTTL) /\ secret \in Secrets
    BY AssuranceAssumption DEF AssuranceInv, AssuranceTypeOK
  <2> QED
    BY <2>1, <2>2
<1>6. r.check = c /\ r.verdict = OverallVerdict(Statuses(k), k.output.failClosed)
  OBVIOUS
<1> HIDE DEF r, m
<1>7. check' \in [Check -> {[step |-> "new"]} \cup CheckRow]
  BY <1>1, <1>3
<1>8. \A d \in Check : check'[d] = IF d = c THEN m ELSE check[d]
  BY <1>1
<1>9. \A d \in Check : check'[d].step # "new" => DOMAIN check'[d].heard = DOMAIN check'[d].output.claims
  BY <1>1, <1>3, <1>8 DEF AssuranceInv
<1>10. ASSUME NEW s \in receipts' PROVE ReceiptStands(s)'
  <2>1. CASE s.check = c /\ s = r
    BY <1>3, <1>4, <1>6, <1>8, <2>1 DEF ReceiptStands, Statuses
  <2>2. CASE s \in receipts
    <3>1. ReceiptStands(s) /\ s.check \in Check
      BY <2>2 DEF AssuranceInv, AssuranceTypeOK
    <3>2. check'[s.check] = check[s.check]
      BY <1>1, <1>8, <3>1 DEF ReceiptStands
    <3> QED
      BY <3>1, <3>2 DEF ReceiptStands, Statuses
  <2> QED
    BY <1>1, <1>6, <2>1, <2>2
<1>11. AssuranceTypeOK'
  BY <1>1, <1>3, <1>5, <1>8 DEF AssuranceInv, AssuranceTypeOK
<1> QED
  BY <1>1, <1>7, <1>9, <1>10, <1>11 DEF AssuranceInv

LEMMA VerifyReceiptInv ==
    ASSUME AssuranceInv, NEW r \in receipts, VerifyReceipt(r)
    PROVE  AssuranceInv'
<1>1. /\ ~(r.expires < elapsed) /\ believed' = believed \cup {[receipt |-> r, at |-> elapsed]}
      /\ UNCHANGED <<check, receipts, secret, redeploys, elapsed>>
  BY DEF VerifyReceipt
<1>2. r.expires \in Nat /\ elapsed \in 0..LastElapsed
  BY AssuranceAssumption DEF AssuranceInv, AssuranceTypeOK
<1>3. elapsed <= r.expires
  BY <1>1, <1>2, AssuranceAssumption
<1>4. \A b \in believed' : b.at <= b.receipt.expires
  BY <1>1, <1>3 DEF AssuranceInv
<1>5. AssuranceTypeOK'
  BY <1>1, <1>2 DEF AssuranceInv, AssuranceTypeOK
<1>6. \A s \in receipts' : ReceiptStands(s)'
  BY <1>1 DEF AssuranceInv, ReceiptStands, Statuses
<1> QED
  BY <1>1, <1>4, <1>5, <1>6 DEF AssuranceInv

LEMMA RedeployAssuranceInv ==
    ASSUME AssuranceInv, RedeployAssurance
    PROVE  AssuranceInv'
<1>1. /\ secret' \in Secrets /\ UNCHANGED <<receipts, believed, elapsed>>
      /\ check' = [c \in Check |-> IF check[c].step = "ask" THEN [step |-> "new"] ELSE check[c]]
      /\ check \in [Check -> {[step |-> "new"]} \cup CheckRow]
  BY DEF RedeployAssurance, AssuranceInv
<1>2. check' \in [Check -> {[step |-> "new"]} \cup CheckRow]
  BY <1>1
<1>3. \A c \in Check : check'[c].step # "new" => check'[c] = check[c]
  BY <1>1
<1>4. \A c \in Check : check[c].step = "done" => check'[c] = check[c]
  BY <1>1
<1>5. \A c \in Check : check'[c].step # "new" => DOMAIN check'[c].heard = DOMAIN check'[c].output.claims
  BY <1>3 DEF AssuranceInv
<1>6. \A c \in Check : check'[c].step \in {"new", "ask", "done"}
  BY <1>1 DEF AssuranceInv, AssuranceTypeOK
<1>7. AssuranceTypeOK'
  BY <1>1, <1>6 DEF AssuranceInv, AssuranceTypeOK
<1>8. ASSUME NEW s \in receipts' PROVE ReceiptStands(s)'
  <2>1. ReceiptStands(s) /\ s.check \in Check
    BY <1>1 DEF AssuranceInv, AssuranceTypeOK
  <2>2. check'[s.check] = check[s.check]
    BY <1>4, <2>1 DEF ReceiptStands
  <2> QED
    BY <2>1, <2>2 DEF ReceiptStands, Statuses
<1> QED
  BY <1>1, <1>2, <1>5, <1>7, <1>8 DEF AssuranceInv

LEMMA PassInv ==
    ASSUME AssuranceInv, Pass
    PROVE  AssuranceInv'
<1>1. elapsed' \in 0..LastElapsed /\ UNCHANGED <<check, receipts, believed, secret, redeploys>>
  BY AssuranceAssumption DEF Pass, AssuranceInv
<1>2. AssuranceTypeOK'
  BY <1>1 DEF AssuranceInv, AssuranceTypeOK
<1>3. \A s \in receipts' : ReceiptStands(s)'
  BY <1>1 DEF AssuranceInv, ReceiptStands, Statuses
<1> QED
  BY <1>1, <1>2, <1>3 DEF AssuranceInv

LEMMA AssuranceStep ==
    ASSUME AssuranceInv, AssuranceNext
    PROVE  AssuranceInv'
BY VerifyOutputInv, AskInv, AuditReceiptInv, VerifyReceiptInv, RedeployAssuranceInv, PassInv DEF AssuranceNext

LEMMA AssuranceStutter ==
    ASSUME AssuranceInv, UNCHANGED assuranceVars
    PROVE  AssuranceInv'
<1>1. UNCHANGED <<check, receipts, believed, secret, redeploys, elapsed>>
  BY DEF assuranceVars
<1>2. AssuranceTypeOK'
  BY <1>1 DEF AssuranceInv, AssuranceTypeOK
<1>3. \A s \in receipts' : ReceiptStands(s)'
  BY <1>1 DEF AssuranceInv, ReceiptStands, Statuses
<1> QED
  BY <1>1, <1>2, <1>3 DEF AssuranceInv

\* What an overall ALLOW says of each claim.
LEMMA AllowedFacts ==
    ASSUME NEW statuses, NEW failClosed, OverallVerdict(statuses, failClosed) = "ALLOW",
           NEW claim, NEW heard, ClaimStatus(claim, heard) \in statuses
    PROVE  "contradicted" \notin heard /\ (failClosed => "supported" \in heard)
BY DEF OverallVerdict, ClaimStatus

LEMMA AssuranceFollows ==
    ASSUME AssuranceInv
    PROVE  AssuranceTypeOK /\ ReceiptsAreEarned
<1>1. ASSUME NEW b \in believed
      PROVE  LET k == check[b.receipt.check]
             IN /\ b.at <= b.receipt.expires
                /\ k.step = "done"
                /\ b.receipt.verdict = "ALLOW" =>
                     \A i \in DOMAIN k.heard :
                       /\ "contradicted" \notin k.heard[i]
                       /\ k.output.failClosed => "supported" \in k.heard[i]
  <2> DEFINE k == check[b.receipt.check]
  <2>1. b.receipt \in receipts /\ b.receipt.check \in Check /\ b.at <= b.receipt.expires
    BY DEF AssuranceInv, AssuranceTypeOK
  <2>2. k.step = "done" /\ b.receipt.verdict = OverallVerdict(Statuses(k), k.output.failClosed)
    BY <2>1 DEF AssuranceInv, ReceiptStands
  <2>3. DOMAIN k.heard = DOMAIN k.output.claims
    BY <2>1, <2>2 DEF AssuranceInv
  <2>4. ASSUME b.receipt.verdict = "ALLOW", NEW i \in DOMAIN k.heard
        PROVE  "contradicted" \notin k.heard[i] /\ (k.output.failClosed => "supported" \in k.heard[i])
    <3>1. ClaimStatus(k.output.claims[i], k.heard[i]) \in Statuses(k)
      BY <2>3 DEF Statuses
    <3> HIDE DEF k
    <3> QED
      BY <2>2, <2>4, <3>1, AllowedFacts
  <2> QED
    BY <2>1, <2>2, <2>4
<1> QED
  BY <1>1 DEF AssuranceInv, ReceiptsAreEarned

-----------------------------------------------------------------------------
(* The engines that may only block. *)

\* A set of nodes that holds every node which depends on one of it.
DependenceClosed(S) == \A m \in CausalNode : CausalNodes[m] \cap S # {} => m \in S

\* The sets of nodes after each pass, up to m passes.
RoundsOf(given, m, rounds) ==
    rounds = [k \in 0..m |-> IF k = 0 THEN given ELSE Spread(rounds[k - 1])]

LEMMA RoundsExist ==
    ASSUME NEW given, NEW n \in Nat
    PROVE  \E rounds : RoundsOf(given, n, rounds)
<1> DEFINE T == {m \in Nat : ~\E rounds : RoundsOf(given, m, rounds)}
<1> SUFFICES ASSUME T # {} PROVE FALSE
  OBVIOUS
<1>1. PICK m \in T : \A y \in T : m <= y
  BY LeastNatural
<1>2. m # 0
  <2>1. RoundsOf(given, 0, [k \in 0..0 |-> given])
    BY DEF RoundsOf
  <2> QED
    BY <2>1
<1>3. m \in Nat /\ m - 1 \in Nat /\ m - 1 \notin T
  BY <1>1, <1>2
<1>4. PICK rounds : RoundsOf(given, m - 1, rounds)
  BY <1>3
<1> DEFINE more == [k \in 0..m |-> IF k = m THEN Spread(rounds[m - 1]) ELSE rounds[k]]
<1>5. rounds = [k \in 0..(m - 1) |-> IF k = 0 THEN given ELSE Spread(rounds[k - 1])]
  BY <1>4 DEF RoundsOf
<1>6. \A k \in 0..m : more[k] = IF k = 0 THEN given ELSE Spread(more[k - 1])
  <2> SUFFICES ASSUME NEW k \in 0..m PROVE more[k] = IF k = 0 THEN given ELSE Spread(more[k - 1])
    OBVIOUS
  <2>1. CASE k = m
    <3>1. more[m] = Spread(rounds[m - 1]) /\ more[m - 1] = rounds[m - 1]
      BY <1>2, <1>3
    <3> QED
      BY <1>2, <2>1, <3>1
  <2>2. CASE k = 0
    BY <1>2, <1>3, <1>5, <2>2
  <2>3. CASE k # 0 /\ k # m
    <3>1. k \in 0..(m - 1) /\ k - 1 \in 0..(m - 1)
      BY <1>3, <2>3
    <3>2. more[k] = rounds[k] /\ more[k - 1] = rounds[k - 1]
      BY <1>3, <2>3, <3>1
    <3> QED
      BY <1>5, <2>3, <3>1, <3>2
  <2> QED
    BY <2>1, <2>2, <2>3
<1>7. more = [k \in 0..m |-> more[k]]
  OBVIOUS
<1> HIDE DEF more
<1>8. RoundsOf(given, m, more)
  BY <1>6, <1>7 DEF RoundsOf
<1> QED
  BY <1>1, <1>8

\* Revoked(given) is what as many passes leave as there are nodes.
LEMMA RevokedFacts ==
    ASSUME NEW given
    PROVE  \E rounds : RoundsOf(given, Cardinality(CausalNode), rounds)
                       /\ Revoked(given) = rounds[Cardinality(CausalNode)]
<1> DEFINE N == Cardinality(CausalNode)
           chosen == CHOOSE f : f = [k \in 0..N |-> IF k = 0 THEN given ELSE Spread(f[k - 1])]
<1>1. Revoked(given) = chosen[N]
  BY Zenon DEF Revoked
<1>2. N \in Nat
  BY FusionAssumption, FS_CardinalityType DEF CausalNode
<1>3. PICK rounds : RoundsOf(given, N, rounds)
  BY <1>2, RoundsExist
<1>4. rounds = [k \in 0..N |-> IF k = 0 THEN given ELSE Spread(rounds[k - 1])]
  BY <1>3 DEF RoundsOf
<1>5. chosen = [k \in 0..N |-> IF k = 0 THEN given ELSE Spread(chosen[k - 1])]
  BY <1>4, Zenon
<1> HIDE DEF chosen
<1>6. RoundsOf(given, N, chosen)
  BY <1>5 DEF RoundsOf
<1> QED
  BY <1>1, <1>6

\* A pass that adds nothing has reached everything that depends on the rest.
LEMMA SpreadFacts ==
    ASSUME NEW S \in SUBSET CausalNode
    PROVE  /\ S \subseteq Spread(S) /\ Spread(S) \in SUBSET CausalNode
           /\ IF DependenceClosed(S) THEN Spread(S) = S
              ELSE Cardinality(Spread(S)) > Cardinality(S)
<1>1. S \subseteq Spread(S) /\ Spread(S) \in SUBSET CausalNode
  BY DEF Spread
<1>2. CASE DependenceClosed(S)
  BY <1>1, <1>2 DEF DependenceClosed, Spread
<1>3. CASE ~DependenceClosed(S)
  <2>1. PICK m \in CausalNode : m \notin S /\ m \in Spread(S)
    BY <1>3 DEF DependenceClosed, Spread
  <2>2. IsFiniteSet(Spread(S))
    BY <1>1, FusionAssumption, FS_Subset DEF CausalNode
  <2>3. Cardinality(S) <= Cardinality(Spread(S)) /\ (Cardinality(Spread(S)) = Cardinality(S) => Spread(S) = S)
        /\ IsFiniteSet(S)
    BY <1>1, <2>2, FS_Subset
  <2>4. Cardinality(S) \in Nat /\ Cardinality(Spread(S)) \in Nat
    BY <2>2, <2>3, FS_CardinalityType
  <2>5. Spread(S) # S
    BY <2>1
  <2> QED
    BY <1>1, <1>3, <2>3, <2>4, <2>5
<1> QED
  BY <1>2, <1>3

\* revoke_transitive_authority leaves no node whose grounds are revoked.
LEMMA RevokedClosed ==
    ASSUME NEW given \in SUBSET CausalNode
    PROVE  Revoked(given) \in SUBSET CausalNode /\ DependenceClosed(Revoked(given))
<1> DEFINE N == Cardinality(CausalNode)
<1>1. IsFiniteSet(CausalNode) /\ N \in Nat
  BY FusionAssumption, FS_CardinalityType DEF CausalNode
<1>2. PICK rounds : RoundsOf(given, N, rounds) /\ Revoked(given) = rounds[N]
  BY RevokedFacts
<1>3. \A k \in 0..N : rounds[k] = IF k = 0 THEN given ELSE Spread(rounds[k - 1])
  BY <1>2 DEF RoundsOf
<1> HIDE DEF N
<1> DEFINE Far(k) == /\ rounds[k] \in SUBSET CausalNode
                     /\ DependenceClosed(rounds[k]) \/ Cardinality(rounds[k]) >= k
           T == {k \in 0..N : ~Far(k)}
<1>4. T = {}
  <2> SUFFICES ASSUME T # {} PROVE FALSE
    OBVIOUS
  <2>1. T \in SUBSET Nat
    BY <1>1
  <2>2. PICK k \in T : \A y \in T : k <= y
    BY <2>1, LeastNatural
  <2>3. k \in 0..N /\ k \in Nat
    BY <1>1
  <2>4. k # 0
    <3>1. IsFiniteSet(given)
      BY <1>1, FS_Subset
    <3>2. Cardinality(given) \in Nat
      BY <3>1, FS_CardinalityType
    <3>3. 0 \in 0..N
      BY <1>1
    <3>4. rounds[0] = given
      BY <1>3, <3>3
    <3>5. Far(0)
      BY <3>2, <3>4
    <3> QED
      BY <2>2, <3>5
  <2>5. k - 1 \in 0..N /\ k - 1 \in Nat
    BY <1>1, <2>3, <2>4
  <2>6. Far(k - 1)
    BY <2>2, <2>3, <2>5
  <2>7. rounds[k] = Spread(rounds[k - 1])
    BY <1>3, <2>3, <2>4
  <2> DEFINE S == rounds[k - 1]
  <2>8. S \in SUBSET CausalNode /\ (DependenceClosed(S) \/ Cardinality(S) >= k - 1)
    BY <2>6
  <2>9. rounds[k] = Spread(S)
    BY <2>7
  <2> HIDE DEF S
  <2>10. Spread(S) \in SUBSET CausalNode
         /\ IF DependenceClosed(S) THEN Spread(S) = S ELSE Cardinality(Spread(S)) > Cardinality(S)
    BY <2>8, SpreadFacts
  <2>11. IsFiniteSet(S) /\ IsFiniteSet(Spread(S))
    BY <1>1, <2>8, <2>10, FS_Subset
  <2>12. Cardinality(S) \in Nat /\ Cardinality(Spread(S)) \in Nat
    BY <2>11, FS_CardinalityType
  <2>13. Far(k)
    BY <2>3, <2>8, <2>9, <2>10, <2>12
  <2> QED
    BY <2>2, <2>13
<1>5. N \in 0..N
  BY <1>1
<1>6. Far(N)
  BY <1>4, <1>5
<1>7. CASE DependenceClosed(rounds[N])
  BY <1>2, <1>6, <1>7
<1>8. CASE Cardinality(rounds[N]) >= N
  <2> DEFINE S == rounds[N]
  <2>1. S \in SUBSET CausalNode
    BY <1>6
  <2>2. Cardinality(S) >= N
    BY <1>8
  <2>3. Revoked(given) = S
    BY <1>2
  <2> HIDE DEF S
  <2>4. IsFiniteSet(S) /\ Cardinality(S) <= N /\ (N = Cardinality(S) => CausalNode = S)
    BY <1>1, <2>1, FS_Subset DEF N
  <2>5. Cardinality(S) \in Nat
    BY <2>4, FS_CardinalityType
  <2>6. S = CausalNode
    BY <1>1, <2>2, <2>4, <2>5
  <2> QED
    BY <2>3, <2>6 DEF DependenceClosed
<1> QED
  BY <1>6, <1>7, <1>8

-----------------------------------------------------------------------------

EngineName == {"none", "fusion", "finality", "context", "madhouse", "epistemic"}
Suspended == {n \in CausalNode : ~graph[n].authority}
GraphTyped == graph \in [CausalNode -> [authority : BOOLEAN, compromised : BOOLEAN]]
GroundsInv == GraphTyped /\ Compromised \subseteq Suspended /\ DependenceClosed(Suspended)
LicenceInv == \E r \in AuthorizationRecords : licence = Load(r)
CandidatesInv == candidates \in Seq(SUBSET MadhouseFindings) /\ Len(candidates) <= MaxCandidates
FusionInv ==
    /\ GroundsInv /\ LicenceInv /\ CandidatesInv
    /\ answered.engine \in EngineName
    /\ RecurrenceBlocks /\ AnswersHaveGrounds

LEMMA LoadFacts ==
    ASSUME NEW r
    PROVE  /\ Load(r).verified \in BOOLEAN /\ Load(r).record = r
           /\ Load(r).verified => r.defects = {}
BY DEF Load

LEMMA InitFusion == FusionInit => FusionInv
<1> SUFFICES ASSUME FusionInit PROVE FusionInv
  OBVIOUS
<1>1. graph = [n \in CausalNode |-> [authority |-> TRUE, compromised |-> FALSE]]
  BY DEF FusionInit
<1>2. GraphTyped /\ Compromised = {} /\ Suspended = {}
  BY <1>1 DEF GraphTyped, Compromised, Suspended
<1>3. GroundsInv
  BY <1>2 DEF GroundsInv, DependenceClosed
<1>4. LicenceInv
  BY DEF FusionInit, LicenceInv
<1>5. candidates = <<>> /\ MaxCandidates \in Nat
  BY FusionAssumption DEF FusionInit
<1>6. CandidatesInv
  BY <1>5 DEF CandidatesInv
<1>7. answered.engine = "none"
  BY DEF FusionInit, NoAnswer
<1> QED
  BY <1>3, <1>4, <1>6, <1>7 DEF FusionInv, EngineName, RecurrenceBlocks, AnswersHaveGrounds

\* An answer to a request that leaves what is kept as it was.
LEMMA SaysInv ==
    ASSUME FusionInv, NEW a, Says(a), a.engine \in EngineName \ {"madhouse"}, AnswersHaveGrounds'
    PROVE  FusionInv'
<1>1. answered' = a /\ graph' = graph /\ licence' = licence /\ candidates' = candidates
  BY DEF Says
<1>2. GroundsInv' /\ LicenceInv' /\ CandidatesInv'
  BY <1>1 DEF FusionInv, GroundsInv, GraphTyped, Compromised, Suspended, LicenceInv, CandidatesInv
<1>3. answered'.engine \in EngineName /\ RecurrenceBlocks'
  BY <1>1 DEF RecurrenceBlocks
<1> QED
  BY <1>2, <1>3 DEF FusionInv

\* A fusion that is not denied is of an action within the asker's scopes.
LEMMA DecidedFacts ==
    ASSUME NEW r, Decided(r) # "DENY"
    PROVE  /\ r.action \notin {"DEPLOY", "SIGN", "RELEASE"}
           /\ r.action \in HighRisk \cup {"EXECUTE"} => "sara.execute" \in r.scopes
           /\ ~r.broken
<1>1. /\ ~Fatal(r) /\ ~NeedsRoad(r) /\ r.action # "DEPLOY"
      /\ Resolved(ModuleStatuses(r)) # "UNVERIFIED"
  BY DEF Decided
<1>2. ModuleStatuses(r) \cap {"BLOCKED", "FAILED"} = {}
  BY <1>1 DEF Resolved
<1>3. ~GovernanceBlocks(r) /\ ~r.broken
  BY <1>2 DEF ModuleStatuses
<1>4. r.action = "EXECUTE" => "sara.execute" \in r.scopes
  <2>1. "EXECUTE" \in DOMAIN ScopeOf /\ ScopeOf["EXECUTE"] = "sara.execute"
    BY DEF ScopeOf
  <2> QED
    BY <1>3, <2>1 DEF GovernanceBlocks
<1> QED
  BY <1>1, <1>3, <1>4 DEF Fatal, NeedsRoad

LEMMA FuseInv ==
    ASSUME FusionInv, NEW r \in FusionRequests, Fuse(r)
    PROVE  FusionInv'
<1> DEFINE a == [engine |-> "fusion", request |-> r, decision |-> Decided(r)]
<1>1. Says(a) /\ answered' = a
  BY DEF Fuse, Says
<1>2. answered'.engine = "fusion" /\ answered'.request = r /\ answered'.decision = Decided(r)
  BY <1>1
<1>3. AnswersHaveGrounds'
  BY <1>2, DecidedFacts DEF AnswersHaveGrounds
<1>4. a.engine \in EngineName \ {"madhouse"}
  BY DEF EngineName
<1> HIDE DEF a
<1> QED
  BY <1>1, <1>3, <1>4, SaysInv

LEMMA ReconcileInv ==
    ASSUME FusionInv, NEW approved \in SUBSET CausalEffects, NEW actual \in SUBSET CausalEffects,
           Reconcile(approved, actual)
    PROVE  FusionInv'
<1> DEFINE decision == IF actual \ approved # {} \/ approved \ actual # {} THEN "QUARANTINE" ELSE "ACCEPT"
           a == [engine |-> "finality", approved |-> approved, actual |-> actual, decision |-> decision]
<1>1. Says(a) /\ answered' = a
  BY DEF Reconcile, Says
<1>2. decision = "ACCEPT" => approved = actual
  OBVIOUS
<1> HIDE DEF decision
<1>3. answered'.engine = "finality" /\ answered'.approved = approved /\ answered'.actual = actual
      /\ answered'.decision = decision
  BY <1>1
<1>4. AnswersHaveGrounds'
  BY <1>2, <1>3 DEF AnswersHaveGrounds
<1>5. a.engine \in EngineName \ {"madhouse"}
  BY DEF EngineName
<1> HIDE DEF a
<1> QED
  BY <1>1, <1>4, <1>5, SaysInv

LEMMA RevokeAlarmedInv ==
    ASSUME FusionInv, NEW given \in Alarms, RevokeAlarmed(given)
    PROVE  FusionInv'
<1>1. given \in SUBSET CausalNode
  BY FusionAssumption DEF CausalNode
<1>2. graph' = [n \in CausalNode |->
         IF n \in Revoked(given) THEN [authority |-> FALSE, compromised |-> graph[n].compromised \/ n \in given]
         ELSE graph[n]]
  BY DEF RevokeAlarmed
<1>3. licence' = licence /\ candidates' = candidates /\ answered'.engine = "none"
  BY DEF RevokeAlarmed, NoAnswer
<1>4. DependenceClosed(Revoked(given)) /\ Revoked(given) \in SUBSET CausalNode
  BY <1>1, RevokedClosed
<1>5. GroundsInv
  BY DEF FusionInv
<1>6. GraphTyped'
  <2>1. \A n \in CausalNode : graph[n] \in [authority : BOOLEAN, compromised : BOOLEAN]
    BY <1>5 DEF GroundsInv, GraphTyped
  <2>2. \A n \in CausalNode : [authority |-> FALSE, compromised |-> graph[n].compromised \/ n \in given]
                                \in [authority : BOOLEAN, compromised : BOOLEAN]
    OBVIOUS
  <2>3. \A n \in CausalNode : graph'[n] \in [authority : BOOLEAN, compromised : BOOLEAN]
    BY <1>2, <2>1, <2>2
  <2> QED
    BY <1>2, <2>3 DEF GraphTyped
<1>7. Suspended' = Suspended \cup Revoked(given)
  <2>1. \A n \in CausalNode : ~graph'[n].authority <=> ~graph[n].authority \/ n \in Revoked(given)
    BY <1>2
  <2> QED
    BY <1>4, <2>1 DEF Suspended
<1>8. Compromised' \subseteq Compromised \cup Revoked(given)
  BY <1>2 DEF Compromised
<1>9. DependenceClosed(Suspended')
  BY <1>4, <1>5, <1>7 DEF GroundsInv, DependenceClosed
<1>10. GroundsInv'
  BY <1>5, <1>6, <1>7, <1>8, <1>9 DEF GroundsInv, DependenceClosed
<1>11. LicenceInv' /\ CandidatesInv'
  BY <1>3 DEF FusionInv, LicenceInv, CandidatesInv
<1> QED
  BY <1>3, <1>10, <1>11 DEF FusionInv, EngineName, RecurrenceBlocks, AnswersHaveGrounds

LEMMA RestartInv ==
    ASSUME FusionInv, NEW r \in AuthorizationRecords, Restart(r)
    PROVE  FusionInv'
<1>1. licence' = Load(r) /\ graph' = graph /\ candidates' = candidates /\ answered'.engine = "none"
  BY DEF Restart, NoAnswer
<1>2. GroundsInv' /\ CandidatesInv'
  BY <1>1 DEF FusionInv, GroundsInv, GraphTyped, Compromised, Suspended, CandidatesInv
<1> QED
  BY <1>1, <1>2 DEF FusionInv, LicenceInv, EngineName, RecurrenceBlocks, AnswersHaveGrounds

LEMMA EvaluateContextInv ==
    ASSUME FusionInv, NEW q \in ContextRequests, EvaluateContext(q)
    PROVE  FusionInv'
<1> DEFINE decision == IF Denials(q, licence) = {} THEN "ALLOW" ELSE "DENY"
           a == [engine |-> "context", request |-> q, record |-> licence.record, decision |-> decision]
<1>1. Says(a) /\ answered' = a
  BY DEF EvaluateContext, Says
<1>2. PICK r \in AuthorizationRecords : licence = Load(r)
  BY DEF FusionInv, LicenceInv
<1>3. decision = "ALLOW" => licence.record.defects = {}
  <2> SUFFICES ASSUME Denials(q, licence) = {} PROVE licence.record.defects = {}
    OBVIOUS
  <2>1. licence.verified
    BY DEF Denials
  <2> QED
    BY <1>2, <2>1, LoadFacts
<1> HIDE DEF decision
<1>4. answered'.engine = "context" /\ answered'.record = licence.record /\ answered'.decision = decision
  BY <1>1
<1>5. AnswersHaveGrounds'
  BY <1>3, <1>4 DEF AnswersHaveGrounds
<1>6. a.engine \in EngineName \ {"madhouse"}
  BY DEF EngineName
<1> HIDE DEF a
<1> QED
  BY <1>1, <1>5, <1>6, SaysInv

LEMMA ReviewClaimsInv ==
    ASSUME FusionInv, NEW claims \in ClaimSets, ReviewClaims(claims)
    PROVE  FusionInv'
<1> DEFINE decision == IF \A c \in claims : AuditedClaim(c) = "SUPPORTED" THEN "READY" ELSE "BLOCKED"
           a == [engine |-> "epistemic", claims |-> claims, decision |-> decision]
<1>1. Says(a) /\ answered' = a
  BY DEF ReviewClaims, Says
<1>2. ASSUME NEW c, AuditedClaim(c) = "SUPPORTED" PROVE \A e \in c.evidence : AgentEvidence[e].passed
  <2>1. c.evidence \cap DOMAIN AgentEvidence = c.evidence
    BY <1>2 DEF AuditedClaim
  <2>2. \A e \in c.evidence \cap DOMAIN AgentEvidence : AgentEvidence[e].passed
    BY <1>2 DEF AuditedClaim
  <2> QED
    BY <2>1, <2>2
<1>3. decision = "READY" => \A c \in claims : \A e \in c.evidence : AgentEvidence[e].passed
  BY <1>2
<1> HIDE DEF decision
<1>4. answered'.engine = "epistemic" /\ answered'.claims = claims /\ answered'.decision = decision
  BY <1>1
<1>5. AnswersHaveGrounds'
  BY <1>3, <1>4 DEF AnswersHaveGrounds
<1>6. a.engine \in EngineName \ {"madhouse"}
  BY DEF EngineName
<1> HIDE DEF a
<1> QED
  BY <1>1, <1>5, <1>6, SaysInv

\* The earlier candidates with a finding of a family.
HadFamily(found, family) == {i \in 1..Len(found) : \E g \in found[i] : g.family = family}

\* Times counts each of them at least once.
LEMMA TimesFacts ==
    ASSUME CandidatesInv, NEW x
    PROVE  Cardinality(HadFamily(candidates, x)) <= Times(x) /\ Times(x) \in Nat
           /\ Cardinality(HadFamily(candidates, x)) \in Nat
<1> DEFINE D == 1..Len(candidates)
           K == {"mark", "family"}
           P == D \X MadhouseFindings \X K
           Q == (D \X MadhouseFindings) \X K
           T == {t \in P : t[2] \in candidates[t[1]] /\ t[2][t[3]] = x}
           I == HadFamily(candidates, x)
           h == [t \in P |-> <<<<t[1], t[2]>>, t[3]>>]
           g == [i \in I |-> <<i, CHOOSE m \in candidates[i] : m.family = x, "family">>]
<1>1. candidates \in Seq(SUBSET MadhouseFindings) /\ Len(candidates) \in Nat /\ DOMAIN candidates = D
  BY DEF CandidatesInv
<1>2. IsFiniteSet(Q)
  <2>1. IsFiniteSet(D) /\ IsFiniteSet(MadhouseFindings)
    BY <1>1, FS_Interval, FusionAssumption
  <2>2. IsFiniteSet(K)
    <3>1. IsFiniteSet({"mark"})
      BY FS_Singleton
    <3>2. K = {"mark"} \cup {"family"}
      OBVIOUS
    <3> QED
      BY <3>1, <3>2, FS_AddElement
  <2> HIDE DEF D, K
  <2>3. IsFiniteSet(D \X MadhouseFindings)
    BY <2>1, FS_Product
  <2> QED
    BY <2>2, <2>3, FS_Product
<1>3. h \in Injection(P, Q)
  <2>1. h \in [P -> Q]
    OBVIOUS
  <2>2. \A s, t \in P : h[s] = h[t] => s = t
    OBVIOUS
  <2> HIDE DEF h, P, Q
  <2> QED
    BY <2>1, <2>2 DEF Injection, IsInjective
<1>4. IsFiniteSet(P)
  <2> HIDE DEF h, P, Q
  <2> QED
    BY <1>2, <1>3, FS_Injection
<1>5. IsFiniteSet(T) /\ Times(x) = Cardinality(T)
  <2>1. Times(x) = Cardinality(T)
    BY <1>1 DEF Times
  <2>2. T \in SUBSET P
    OBVIOUS
  <2> HIDE DEF T, P
  <2> QED
    BY <1>4, <2>1, <2>2, FS_Subset
<1>6. g \in Injection(I, T)
  <2>1. ASSUME NEW i \in I PROVE g[i] \in T /\ g[i][1] = i
    <3> DEFINE m == CHOOSE m \in candidates[i] : m.family = x
    <3>1. i \in D /\ candidates[i] \in SUBSET MadhouseFindings
      BY <1>1 DEF HadFamily
    <3>2. m \in candidates[i] /\ m.family = x
      BY DEF HadFamily
    <3>3. g[i] = <<i, m, "family">>
      OBVIOUS
    <3> HIDE DEF m, I, g, D
    <3>4. <<i, m, "family">> \in P
      BY <3>1, <3>2
    <3>5. m["family"] = x
      BY <3>2
    <3> QED
      BY <3>2, <3>3, <3>4, <3>5
  <2>2. g \in [I -> T]
    BY <2>1
  <2> HIDE DEF g, I, T
  <2>3. \A i, j \in I : g[i] = g[j] => i = j
    BY <2>1
  <2> QED
    BY <2>2, <2>3 DEF Injection, IsInjective
<1> HIDE DEF g, I, T
<1>7. IsFiniteSet(I) /\ Cardinality(I) <= Cardinality(T)
  BY <1>5, <1>6, FS_Injection
<1> QED
  BY <1>5, <1>7, FS_CardinalityType DEF I

LEMMA ReviewCandidateInv ==
    ASSUME FusionInv, NEW found \in CandidateFindings, ReviewCandidate(found)
    PROVE  FusionInv'
<1> DEFINE decision == IF \E f \in found : f.severity = "BLOCKING" \/ Recurring(f) THEN "BLOCKED" ELSE "READY"
<1>1. /\ candidates' = Append(candidates, found) /\ Len(candidates) < MaxCandidates
      /\ graph' = graph /\ licence' = licence
      /\ answered' = [engine |-> "madhouse", found |-> found, decision |-> decision]
  BY DEF ReviewCandidate
<1>2. CandidatesInv /\ candidates \in Seq(SUBSET MadhouseFindings) /\ found \in SUBSET MadhouseFindings
  BY FusionAssumption DEF FusionInv, CandidatesInv
<1>3. /\ candidates' \in Seq(SUBSET MadhouseFindings) /\ Len(candidates') = Len(candidates) + 1
      /\ Len(candidates) \in Nat /\ \A i \in 1..Len(candidates) : candidates'[i] = candidates[i]
  BY <1>1, <1>2
<1>4. decision = "READY" => \A f \in found : ~Recurring(f)
  OBVIOUS
<1> HIDE DEF decision
<1>5. answered'.engine = "madhouse" /\ answered'.found = found /\ answered'.decision = decision
  BY <1>1
<1>6. RecurrenceBlocks'
  <2> SUFFICES ASSUME decision = "READY", NEW f \in found
               PROVE  Cardinality({i \in 1..(Len(candidates') - 1) : \E g \in candidates'[i] : g.family = f.family})
                        < Threshold
    BY <1>5 DEF RecurrenceBlocks
  <2>1. Len(candidates') - 1 = Len(candidates)
    BY <1>3
  <2>2. {i \in 1..(Len(candidates') - 1) : \E g \in candidates'[i] : g.family = f.family}
          = HadFamily(candidates, f.family)
    BY <1>3, <2>1 DEF HadFamily
  <2>3. ~(Times(f.family) + 1 > Threshold)
    BY <1>4 DEF Recurring
  <2>4. Cardinality(HadFamily(candidates, f.family)) <= Times(f.family) /\ Times(f.family) \in Nat
        /\ Cardinality(HadFamily(candidates, f.family)) \in Nat
    BY <1>2, TimesFacts
  <2>5. Threshold \in Nat
    BY FusionAssumption
  <2>6. Cardinality(HadFamily(candidates, f.family)) < Threshold
    BY <2>3, <2>4, <2>5
  <2> QED
    BY <2>2, <2>6
<1>7. CandidatesInv'
  <2>1. MaxCandidates \in Nat
    BY FusionAssumption
  <2> QED
    BY <1>1, <1>3, <2>1 DEF CandidatesInv
<1>8. GroundsInv' /\ LicenceInv'
  BY <1>1 DEF FusionInv, GroundsInv, GraphTyped, Compromised, Suspended, LicenceInv
<1>9. answered'.engine \in EngineName /\ AnswersHaveGrounds'
  BY <1>5 DEF EngineName, AnswersHaveGrounds
<1> QED
  BY <1>6, <1>7, <1>8, <1>9 DEF FusionInv

LEMMA FusionStep ==
    ASSUME FusionInv, FusionNext
    PROVE  FusionInv'
BY FuseInv, ReconcileInv, RevokeAlarmedInv, RestartInv, EvaluateContextInv, ReviewCandidateInv, ReviewClaimsInv
   DEF FusionNext

LEMMA FusionStutter ==
    ASSUME FusionInv, UNCHANGED fusionVars
    PROVE  FusionInv'
<1>1. graph' = graph /\ licence' = licence /\ candidates' = candidates /\ answered' = answered
  BY DEF fusionVars
<1>2. GroundsInv' /\ LicenceInv' /\ CandidatesInv'
  BY <1>1 DEF FusionInv, GroundsInv, GraphTyped, Compromised, Suspended, LicenceInv, CandidatesInv
<1> QED
  BY <1>1, <1>2 DEF FusionInv, RecurrenceBlocks, AnswersHaveGrounds

LEMMA FusionFollows ==
    ASSUME FusionInv
    PROVE  FusionTypeOK /\ FusionHolds
<1>1. FusionTypeOK
  <2>1. PICK r \in AuthorizationRecords : licence = Load(r)
    BY DEF FusionInv, LicenceInv
  <2>2. licence.verified \in BOOLEAN /\ licence.record \in AuthorizationRecords
    BY <2>1, LoadFacts
  <2> QED
    BY <2>2 DEF FusionInv, GroundsInv, GraphTyped, CandidatesInv, EngineName, FusionTypeOK
<1>2. RevocationIsClosed
  <2> SUFFICES ASSUME NEW n \in Tainted PROVE ~graph[n].authority
    BY DEF RevocationIsClosed
  <2>1. Suspended \in SUBSET CausalNode /\ Compromised \subseteq Suspended /\ DependenceClosed(Suspended)
    BY DEF FusionInv, GroundsInv, Suspended
  <2>2. n \in Suspended
    BY <2>1 DEF Tainted, DependenceClosed
  <2> QED
    BY <2>2 DEF Suspended
<1> QED
  BY <1>1, <1>2 DEF FusionInv, FusionHolds

-----------------------------------------------------------------------------
(* Module awareness. *)

EngineTyped(m) ==
    /\ DOMAIN m = {"registry", "baseline", "routes", "probes", "narrative", "consolidated"}
    /\ m.narrative \in [Session -> Seq(Fact)] /\ m.consolidated \subseteq Session
    /\ m.probes \subseteq Service /\ m.routes \subseteq Route

\* What was answered stored is in m.
KeepsIn(m, entries) ==
    \A t \in entries :
      /\ t.session \in Session
      /\ t.fact = "summary" => t.session \in m.consolidated
      /\ t.fact # "summary" => \E i \in DOMAIN m.narrative[t.session] : m.narrative[t.session][i] = t.fact

AwarenessInv ==
    /\ hasStore \in BOOLEAN
    /\ EngineTyped(memory) /\ KeepsIn(memory, told)
    /\ IF hasStore THEN EngineTyped(stateStore) /\ KeepsIn(stateStore, told) ELSE stateStore = <<>>

LEMMA StartedKeeps ==
    /\ EngineTyped(Started(<<>>))
    /\ \A m : EngineTyped(m) => /\ EngineTyped(Started(m))
                                /\ Started(m).narrative = m.narrative
                                /\ Started(m).consolidated = m.consolidated
<1> DEFINE with(m) == [m EXCEPT !.registry = Registered(Integrated, "integrated", m.registry)]
<1>1. \A m : EngineTyped(m) => /\ EngineTyped(with(m)) /\ with(m).narrative = m.narrative
                               /\ with(m).consolidated = m.consolidated
  BY DEF EngineTyped
<1>2. EngineTyped(FreshMemory)
  BY DEF EngineTyped, FreshMemory
<1>3. Started(<<>>) = with(FreshMemory)
  BY DEF Started
<1>4. \A m : EngineTyped(m) => Started(m) = with(m)
  <2> SUFFICES ASSUME NEW m, EngineTyped(m) PROVE Started(m) = with(m)
    OBVIOUS
  <2>1. m # <<>>
    BY DEF EngineTyped
  <2> QED
    BY <2>1 DEF Started
<1> HIDE DEF with
<1> QED
  BY <1>1, <1>2, <1>3, <1>4

LEMMA InitAwareness == AwarenessInit => AwarenessInv
<1> SUFFICES ASSUME AwarenessInit PROVE AwarenessInv
  OBVIOUS
<1>1. hasStore \in BOOLEAN /\ memory = Started(<<>>) /\ told = {}
      /\ stateStore = IF hasStore THEN memory ELSE <<>>
  BY AwarenessAssumption DEF AwarenessInit
<1> QED
  BY <1>1, StartedKeeps DEF AwarenessInv, KeepsIn

\* A request whose change loses nothing that was told, and holds what it tells.
LEMMA RequestKeeps ==
    ASSUME AwarenessInv, NEW m, NEW entry, Request(m, entry), EngineTyped(m), KeepsIn(m, told \cup entry)
    PROVE  AwarenessInv'
<1>1. /\ memory' = m /\ hasStore' = hasStore
      /\ \/ stateStore' = (IF hasStore THEN m ELSE stateStore) /\ told' = told \cup entry
         \/ hasStore /\ UNCHANGED <<stateStore, told>>
  BY DEF Request, PersistState
<1>2. KeepsIn(m, told)
  BY DEF KeepsIn
<1> QED
  BY <1>1, <1>2 DEF AwarenessInv

LEMMA AppendNarrativeInv ==
    ASSUME AwarenessInv, NEW s \in Session, NEW fact \in Fact, AppendNarrative(s, fact)
    PROVE  AwarenessInv'
<1> DEFINE l == Append(memory.narrative[s], fact)
           n == [memory.narrative EXCEPT ![s] = l]
           m == [memory EXCEPT !.narrative = n]
           entry == {[session |-> s, fact |-> fact]}
<1>1. EngineTyped(memory) /\ KeepsIn(memory, told)
  BY DEF AwarenessInv
<1>2. memory.narrative \in [Session -> Seq(Fact)]
  BY <1>1 DEF EngineTyped
<1>3. /\ l \in Seq(Fact) /\ Len(l) \in DOMAIN l /\ l[Len(l)] = fact
      /\ \A i \in DOMAIN memory.narrative[s] : i \in DOMAIN l /\ l[i] = memory.narrative[s][i]
  BY <1>2
<1> HIDE DEF l
<1>4. n \in [Session -> Seq(Fact)] /\ n[s] = l /\ \A t \in Session : t # s => n[t] = memory.narrative[t]
  BY <1>2, <1>3
<1> HIDE DEF n
<1>5. EngineTyped(m) /\ m.narrative = n /\ m.consolidated = memory.consolidated
  BY <1>1, <1>4 DEF EngineTyped
<1>6. Request(m, entry)
  BY DEF AppendNarrative, m, n, l
<1> HIDE DEF m
<1>7. ASSUME NEW t \in told PROVE KeepsIn(m, {t})
  <2>1. KeepsIn(memory, {t})
    BY <1>1 DEF KeepsIn
  <2>2. t.session \in Session
    BY <2>1 DEF KeepsIn
  <2>3. CASE t.session = s
    BY <1>3, <1>4, <1>5, <2>1, <2>3 DEF KeepsIn
  <2>4. CASE t.session # s
    BY <1>4, <1>5, <2>1, <2>2, <2>4 DEF KeepsIn
  <2> QED
    BY <2>3, <2>4
<1>8. KeepsIn(m, entry)
  BY <1>3, <1>4, <1>5, AwarenessAssumption DEF KeepsIn
<1>9. KeepsIn(m, told \cup entry)
  <2> HIDE DEF entry
  <2> QED
    BY <1>7, <1>8 DEF KeepsIn
<1> QED
  BY <1>5, <1>6, <1>9, RequestKeeps

LEMMA ConsolidateInv ==
    ASSUME AwarenessInv, NEW s \in Session, Consolidate(s)
    PROVE  AwarenessInv'
<1> DEFINE m == [memory EXCEPT !.consolidated = memory.consolidated \cup {s}]
           entry == {[session |-> s, fact |-> "summary"]}
<1>1. EngineTyped(memory) /\ KeepsIn(memory, told)
  BY DEF AwarenessInv
<1>2. EngineTyped(m) /\ m.narrative = memory.narrative /\ m.consolidated = memory.consolidated \cup {s}
  BY <1>1 DEF EngineTyped
<1>3. Request(m, entry)
  BY DEF Consolidate
<1> HIDE DEF m
<1>4. KeepsIn(m, told \cup entry)
  BY <1>1, <1>2 DEF KeepsIn
<1> QED
  BY <1>2, <1>3, <1>4, RequestKeeps

\* What else is remembered does not touch the narrative.
LEMMA OtherRequestInv ==
    ASSUME AwarenessInv, NEW m, Request(m, {}), EngineTyped(m),
           m.narrative = memory.narrative, m.consolidated = memory.consolidated
    PROVE  AwarenessInv'
<1>1. KeepsIn(m, told)
  BY DEF AwarenessInv, KeepsIn
<1>2. told \cup {} = told
  OBVIOUS
<1> QED
  BY <1>1, <1>2, RequestKeeps

LEMMA OtherRequests ==
    ASSUME AwarenessInv,
           \/ \E s \in Service : (\E v \in Version : Register(s, v)) \/ RecordProbe(s)
           \/ \E s0 \in Snapshots : LoadSnapshot(s0)
           \/ EstablishBaseline
           \/ \E r \in Route : RegisterRoute(r)
    PROVE  AwarenessInv'
<1>1. EngineTyped(memory)
  BY DEF AwarenessInv
<1>2. ASSUME NEW s \in Service, NEW v \in Version, Register(s, v) PROVE AwarenessInv'
  <2> DEFINE m == [memory EXCEPT !.registry = Registered({s}, v, memory.registry)]
  <2>1. EngineTyped(m) /\ m.narrative = memory.narrative /\ m.consolidated = memory.consolidated
    BY <1>1 DEF EngineTyped
  <2>2. Request(m, {})
    BY <1>2 DEF Register
  <2> HIDE DEF m
  <2> QED
    BY <2>1, <2>2, OtherRequestInv
<1>3. ASSUME NEW s \in Service, RecordProbe(s) PROVE AwarenessInv'
  <2> DEFINE m == [memory EXCEPT !.probes = memory.probes \cup {s}]
  <2>1. EngineTyped(m) /\ m.narrative = memory.narrative /\ m.consolidated = memory.consolidated
    BY <1>1 DEF EngineTyped
  <2>2. Request(m, {})
    BY <1>3 DEF RecordProbe
  <2> HIDE DEF m
  <2> QED
    BY <2>1, <2>2, OtherRequestInv
<1>4. ASSUME NEW s0 \in Snapshots, LoadSnapshot(s0) PROVE AwarenessInv'
  <2> DEFINE l == [memory EXCEPT !.registry = s0.modules]
             m == [memory EXCEPT !.registry = s0.modules, !.baseline = s0.baseline]
  <2>1. EngineTyped(l) /\ l.narrative = memory.narrative /\ l.consolidated = memory.consolidated
    BY <1>1 DEF EngineTyped
  <2>2. m = [l EXCEPT !.baseline = s0.baseline]
    OBVIOUS
  <2>3. Request(m, {})
    BY <1>4 DEF LoadSnapshot
  <2> HIDE DEF l, m
  <2>4. EngineTyped(m) /\ m.narrative = memory.narrative /\ m.consolidated = memory.consolidated
    BY <2>1, <2>2 DEF EngineTyped
  <2> QED
    BY <2>3, <2>4, OtherRequestInv
<1>5. ASSUME EstablishBaseline PROVE AwarenessInv'
  <2> DEFINE m == [memory EXCEPT !.baseline = Sovereign]
  <2>1. EngineTyped(m) /\ m.narrative = memory.narrative /\ m.consolidated = memory.consolidated
    BY <1>1 DEF EngineTyped
  <2>2. Request(m, {})
    BY <1>5 DEF EstablishBaseline
  <2> HIDE DEF m
  <2> QED
    BY <2>1, <2>2, OtherRequestInv
<1>6. ASSUME NEW r \in Route, RegisterRoute(r) PROVE AwarenessInv'
  <2> DEFINE m == [memory EXCEPT !.routes = memory.routes \cup {r}]
  <2>1. EngineTyped(m) /\ m.narrative = memory.narrative /\ m.consolidated = memory.consolidated
    BY <1>1 DEF EngineTyped
  <2>2. Request(m, {})
    BY <1>6 DEF RegisterRoute
  <2> HIDE DEF m
  <2> QED
    BY <2>1, <2>2, OtherRequestInv
<1> QED
  BY <1>2, <1>3, <1>4, <1>5, <1>6

LEMMA AwarenessRestartInv ==
    ASSUME AwarenessInv, AwarenessRestart
    PROVE  AwarenessInv'
<1>1. /\ memory' = Started(stateStore) /\ hasStore' = hasStore
      /\ stateStore' = IF hasStore THEN memory' ELSE stateStore
      /\ told' = IF hasStore THEN told ELSE {}
  BY DEF AwarenessRestart
<1>2. CASE hasStore
  <2>1. EngineTyped(stateStore) /\ KeepsIn(stateStore, told)
    BY <1>2 DEF AwarenessInv
  <2>2. EngineTyped(memory') /\ memory'.narrative = stateStore.narrative
        /\ memory'.consolidated = stateStore.consolidated
    BY <1>1, <2>1, StartedKeeps
  <2>3. KeepsIn(memory', told)
    BY <2>1, <2>2 DEF KeepsIn
  <2> QED
    BY <1>1, <1>2, <2>2, <2>3 DEF AwarenessInv
<1>3. CASE ~hasStore
  <2>1. stateStore = <<>> /\ hasStore \in BOOLEAN
    BY <1>3 DEF AwarenessInv
  <2> QED
    BY <1>1, <1>3, <2>1, StartedKeeps DEF AwarenessInv, KeepsIn
<1> QED
  BY <1>2, <1>3

LEMMA AwarenessStep ==
    ASSUME AwarenessInv, AwarenessNext
    PROVE  AwarenessInv'
BY AppendNarrativeInv, ConsolidateInv, OtherRequests, AwarenessRestartInv DEF AwarenessNext

LEMMA AwarenessStutter ==
    ASSUME AwarenessInv, UNCHANGED awarenessVars
    PROVE  AwarenessInv'
BY DEF AwarenessInv, awarenessVars

LEMMA AwarenessFollows ==
    ASSUME AwarenessInv
    PROVE  AwarenessTypeOK /\ MemoriesAreKept
<1>1. EngineTyped(memory) /\ KeepsIn(memory, told)
  BY DEF AwarenessInv
<1>2. AwarenessTypeOK
  <2>1. stateStore = <<>> \/ DOMAIN stateStore = DOMAIN memory
    BY DEF AwarenessInv, EngineTyped
  <2> QED
    BY <1>1, <2>1 DEF AwarenessInv, EngineTyped, AwarenessTypeOK
<1>3. ASSUME NEW s \in Session, NEW f \in Fact, [session |-> s, fact |-> f] \in told,
             [session |-> s, fact |-> "summary"] \in told
      PROVE  Intact(s)
  <2>1. f # "summary"
    BY AwarenessAssumption
  <2>2. \E i \in DOMAIN memory.narrative[s] : memory.narrative[s][i] = f
    BY <1>1, <1>3, <2>1 DEF KeepsIn
  <2>3. s \in memory.consolidated
    BY <1>1, <1>3 DEF KeepsIn
  <2> QED
    BY <2>2, <2>3 DEF Intact
<1>4. \A t \in told : t.fact # "summary" =>
         \E i \in DOMAIN memory.narrative[t.session] : memory.narrative[t.session][i] = t.fact
  BY <1>1 DEF KeepsIn
<1> QED
  BY <1>2, <1>3, <1>4 DEF MemoriesAreKept

-----------------------------------------------------------------------------
(* TITAN. *)

\* Numbers that grow from one to the next grow.
LEMMA GrowsThroughout ==
    ASSUME NEW n \in Nat, NEW f \in [1..n -> Nat],
           \A i \in 1..n : i > 1 => f[i - 1] < f[i],
           NEW i \in 1..n, NEW j \in 1..n, i < j
    PROVE  f[i] < f[j]
<1> DEFINE T == {k \in 1..n : i < k /\ ~(f[i] < f[k])}
<1> SUFFICES ASSUME T # {} PROVE FALSE
  OBVIOUS
<1>1. PICK k \in T : \A l \in T : k <= l
  <2> T \in SUBSET Nat
    OBVIOUS
  <2> HIDE DEF T
  <2> QED
    BY LeastNatural
<1>2. k - 1 \in 1..n /\ f[k - 1] < f[k] /\ f[k] \in Nat /\ f[k - 1] \in Nat /\ f[i] \in Nat
  BY <1>1
<1>3. CASE k - 1 = i
  BY <1>1, <1>2, <1>3
<1>4. CASE k - 1 # i
  <2>1. k - 1 \in T
    BY <1>1, <1>2, <1>4
  <2> QED
    BY <1>1, <2>1
<1> QED
  BY <1>3, <1>4

\* An event in its place leaves the others where they are, in their order.
LEMMA InsertFacts ==
    ASSUME NEW S, NEW s \in Seq(S), NEW e \in S, NEW k \in 0..Len(s)
    PROVE  /\ InsertAt(s, k + 1, e) \in Seq(S)
           /\ Len(InsertAt(s, k + 1, e)) = Len(s) + 1
           /\ \A i \in 1..(Len(s) + 1) :
                InsertAt(s, k + 1, e)[i] = IF i <= k THEN s[i] ELSE IF i = k + 1 THEN e ELSE s[i - 1]
<1> DEFINE a == SubSeq(s, 1, k)
           b == SubSeq(s, k + 1, Len(s))
           c == a \o <<e>>
<1>1. (k + 1) - 1 = k /\ Len(s) \in Nat
  OBVIOUS
<1>2. /\ a \in Seq(S) /\ Len(a) = k
      /\ \A i \in 1..k : a[i] = s[i]
  BY <1>1
<1>3. /\ b \in Seq(S) /\ Len(b) = Len(s) - k
      /\ \A i \in 1..(Len(s) - k) : b[i] = s[i + k]
  BY <1>1
<1> HIDE DEF a, b
<1>4. /\ c \in Seq(S) /\ Len(c) = k + 1 /\ c[k + 1] = e
      /\ \A i \in 1..k : c[i] = s[i]
  BY <1>2
<1> HIDE DEF c
<1>5. /\ c \o b \in Seq(S) /\ Len(c \o b) = Len(s) + 1
      /\ \A i \in 1..(k + 1) : (c \o b)[i] = c[i]
      /\ \A i \in 1..(Len(s) + 1) : i > k + 1 => (c \o b)[i] = b[i - (k + 1)]
  BY <1>1, <1>3, <1>4
<1>6. InsertAt(s, k + 1, e) = c \o b
  BY <1>1 DEF InsertAt, a, b, c
<1>7. ASSUME NEW i \in 1..(Len(s) + 1)
      PROVE  (c \o b)[i] = IF i <= k THEN s[i] ELSE IF i = k + 1 THEN e ELSE s[i - 1]
  <2>1. CASE i <= k
    BY <1>1, <1>4, <1>5, <2>1
  <2>2. CASE i = k + 1
    BY <1>1, <1>4, <1>5, <2>2
  <2>3. CASE i > k + 1
    <3>1. (c \o b)[i] = b[i - (k + 1)]
      BY <1>1, <1>5, <2>3
    <3>2. i - (k + 1) \in 1..(Len(s) - k) /\ (i - (k + 1)) + k = i - 1
      BY <1>1, <2>3
    <3>3. i \in Int /\ k \in Int /\ ~(i <= k) /\ i # k + 1
      BY <1>1, <2>3
    <3>4. b[i - (k + 1)] = s[i - 1]
      BY <1>3, <3>2
    <3> QED
      BY <3>1, <3>3, <3>4
  <2>4. i <= k \/ i = k + 1 \/ i > k + 1
    BY <1>1
  <2> QED
    BY <2>1, <2>2, <2>3, <2>4
<1>8. \A i \in 1..(Len(s) + 1) :
        InsertAt(s, k + 1, e)[i] = IF i <= k THEN s[i] ELSE IF i = k + 1 THEN e ELSE s[i - 1]
  <2> TAKE i \in 1..(Len(s) + 1)
  <2>1. InsertAt(s, k + 1, e)[i] = (c \o b)[i]
    BY <1>6
  <2>2. (c \o b)[i] = IF i <= k THEN s[i] ELSE IF i = k + 1 THEN e ELSE s[i - 1]
    BY <1>7
  <2> QED
    BY <2>1, <2>2
<1>9. InsertAt(s, k + 1, e) \in Seq(S) /\ Len(InsertAt(s, k + 1, e)) = Len(s) + 1
  BY <1>5, <1>6
<1> QED
  BY <1>8, <1>9

VoiceEvent == [chain : Chain, type : VoiceEvents \cup {"CERTIFY"}, sequence : Nat, previous : Nat, signature : Nat]

\* An event of chain c that is one of those signed.
SignedFor(those, c, e) ==
    /\ e.chain = c
    /\ e.signature \in DOMAIN those /\ e = those[e.signature]

\* What was audited is numbered, and each event was made after the one before.
AuditStands(g) ==
    /\ g.chain \in Chain /\ g.audited \in Seq(VoiceEvent)
    /\ \A i \in DOMAIN g.audited : g.audited[i].sequence = i - 1
    /\ \A i, j \in DOMAIN g.audited : i < j => g.audited[i].signature < g.audited[j].signature
    /\ Range(g.audited) \subseteq Range(chains[g.chain])

TitanInv ==
    /\ titanStarts \in 0..MaxTitanStarts
    /\ events \in Seq(VoiceEvent)
    /\ \A i \in DOMAIN events : events[i].signature = i /\ events[i].previous < i
    /\ chains \in [Chain -> Seq(VoiceEvent)] /\ busLog \in [Chain -> Seq(VoiceEvent)]
    /\ \A c \in Chain : \A i \in DOMAIN chains[c] : SignedFor(events, c, chains[c][i])
    /\ \A c \in Chain : \A i \in DOMAIN busLog[c] :
         SignedFor(events, c, busLog[c][i]) /\ busLog[c][i].sequence = i - 1
    /\ \A g \in executeGates : AuditStands(g)
    /\ \A g, h \in executeGates : g.chain = h.chain =>
         IsPrefix(g.audited, h.audited) \/ IsPrefix(h.audited, g.audited)

LEMMA InitTitan == TitanInit => TitanInv
<1> SUFFICES ASSUME TitanInit PROVE TitanInv
  OBVIOUS
<1>1. 0 \in 0..MaxTitanStarts
  BY TitanAssumption
<1> QED
  BY <1>1 DEF TitanInit, TitanInv

LEMMA InsertedFacts ==
    ASSUME NEW s \in Seq(VoiceEvent), NEW e \in VoiceEvent
    PROVE  /\ Inserted(s, e) \in Seq(VoiceEvent)
           /\ Range(s) \subseteq Range(Inserted(s, e))
           /\ \A i \in DOMAIN Inserted(s, e) :
                Inserted(s, e)[i] = e \/ \E j \in DOMAIN s : Inserted(s, e)[i] = s[j]
<1> DEFINE K == {i \in DOMAIN s : s[i].sequence <= e.sequence}
           k == Cardinality(K)
           t == InsertAt(s, k + 1, e)
<1>1. Len(s) \in Nat /\ DOMAIN s = 1..Len(s)
  OBVIOUS
<1>2. k \in 0..Len(s)
  <2>1. IsFiniteSet(1..Len(s)) /\ Cardinality(1..Len(s)) = Len(s)
    BY <1>1, FS_Interval
  <2>2. K \in SUBSET (1..Len(s))
    BY <1>1
  <2> HIDE DEF K
  <2>3. IsFiniteSet(K) /\ Cardinality(K) <= Len(s)
    BY <2>1, <2>2, FS_Subset
  <2>4. Cardinality(K) \in Nat
    BY <2>3, FS_CardinalityType
  <2> QED
    BY <1>1, <2>3, <2>4
<1>3. Inserted(s, e) = t
  BY DEF Inserted
<1> HIDE DEF k, K
<1>4. /\ t \in Seq(VoiceEvent) /\ Len(t) = Len(s) + 1
      /\ \A i \in 1..(Len(s) + 1) : t[i] = IF i <= k THEN s[i] ELSE IF i = k + 1 THEN e ELSE s[i - 1]
  BY <1>2, InsertFacts
<1> HIDE DEF t
<1>5. DOMAIN t = 1..(Len(s) + 1)
  BY <1>4
<1>6. ASSUME NEW j \in DOMAIN s PROVE \E i \in DOMAIN t : t[i] = s[j]
  <2>1. CASE j <= k
    BY <1>1, <1>2, <1>4, <1>5, <2>1
  <2>2. CASE j > k
    <3>1. j + 1 \in DOMAIN t /\ ~(j + 1 <= k) /\ j + 1 # k + 1 /\ (j + 1) - 1 = j
      BY <1>1, <1>2, <1>5, <2>2
    <3> QED
      BY <1>4, <1>5, <3>1
  <2> QED
    BY <1>1, <1>2, <2>1, <2>2
<1>7. ASSUME NEW i \in DOMAIN t PROVE t[i] = e \/ \E j \in DOMAIN s : t[i] = s[j]
  <2>1. CASE i <= k
    BY <1>1, <1>2, <1>4, <1>5, <2>1
  <2>2. CASE i > k + 1
    <3>1. i - 1 \in DOMAIN s /\ ~(i <= k) /\ i # k + 1
      BY <1>1, <1>2, <1>5, <2>2
    <3> QED
      BY <1>4, <1>5, <3>1
  <2>3. CASE i = k + 1
    BY <1>1, <1>2, <1>4, <1>5, <2>3
  <2>4. i <= k \/ i > k + 1 \/ i = k + 1
    BY <1>1, <1>2, <1>5
  <2> QED
    BY <2>1, <2>2, <2>3, <2>4
<1> QED
  BY <1>3, <1>4, <1>6, <1>7 DEF Range

LEMMA EmitInv ==
    ASSUME TitanInv, NEW c \in Chain, NEW type \in VoiceEvents \cup {"CERTIFY"}, NEW n \in Nat,
           NEW previous \in 0..Len(events), Emit(c, type, n, previous)
    PROVE  TitanInv'
<1> DEFINE e == Emitted(c, type, n, previous)
           m == Len(events)
<1>1. m \in Nat /\ events \in Seq(VoiceEvent) /\ DOMAIN events = 1..m
  BY DEF TitanInv
<1>2. e \in VoiceEvent /\ e.chain = c /\ e.signature = m + 1 /\ e.previous < m + 1
  BY <1>1 DEF Emitted, VoiceEvent
<1>3. /\ events' = Append(events, e) /\ chains' = [chains EXCEPT ![c] = Inserted(chains[c], e)]
      /\ UNCHANGED <<busLog, executeGates, titanStarts>>
  BY DEF Emit
<1> HIDE DEF e
<1>4. /\ events' \in Seq(VoiceEvent) /\ DOMAIN events' = 1..(m + 1) /\ events'[m + 1] = e
      /\ \A i \in DOMAIN events : i \in DOMAIN events' /\ events'[i] = events[i]
  BY <1>1, <1>2, <1>3
<1>5. \A i \in DOMAIN events' : events'[i].signature = i /\ events'[i].previous < i
  <2> TAKE i \in DOMAIN events'
  <2>1. CASE i = m + 1
    BY <1>2, <1>4, <2>1
  <2>2. CASE i # m + 1
    <3>1. i \in DOMAIN events
      BY <1>1, <1>4, <2>2
    <3> QED
      BY <1>4, <3>1 DEF TitanInv
  <2> QED
    BY <2>1, <2>2
<1>6. \A d, f : SignedFor(events, d, f) => SignedFor(events', d, f)
  BY <1>4 DEF SignedFor
<1>7. SignedFor(events', c, e)
  BY <1>1, <1>2, <1>4 DEF SignedFor
<1>8. chains[c] \in Seq(VoiceEvent)
  BY DEF TitanInv
<1>9. /\ chains' \in [Chain -> Seq(VoiceEvent)]
      /\ \A d \in Chain : Range(chains[d]) \subseteq Range(chains'[d])
      /\ \A d \in Chain : \A i \in DOMAIN chains'[d] : SignedFor(events', d, chains'[d][i])
  <2>1. chains' \in [Chain -> Seq(VoiceEvent)]
    BY <1>2, <1>3, <1>8, InsertedFacts DEF TitanInv
  <2>2. chains \in [Chain -> Seq(VoiceEvent)]
    BY DEF TitanInv
  <2>3. ASSUME NEW d \in Chain, d # c
        PROVE  chains'[d] = chains[d]
    BY <1>3, <2>2, <2>3
  <2>4. chains'[c] = Inserted(chains[c], e)
    BY <1>3, <2>2
  <2>5. Range(chains[c]) \subseteq Range(chains'[c])
    BY <1>2, <1>8, <2>4, InsertedFacts
  <2>6. \A i \in DOMAIN chains'[c] : SignedFor(events', c, chains'[c][i])
    <3> TAKE i \in DOMAIN chains'[c]
    <3>1. chains'[c][i] = e \/ \E j \in DOMAIN chains[c] : chains'[c][i] = chains[c][j]
      BY <1>2, <1>8, <2>4, InsertedFacts
    <3>2. ASSUME NEW j \in DOMAIN chains[c] PROVE SignedFor(events, c, chains[c][j])
      BY DEF TitanInv
    <3> QED
      BY <1>6, <1>7, <3>1, <3>2
  <2>7. ASSUME NEW d \in Chain, d # c
        PROVE  \A i \in DOMAIN chains'[d] : SignedFor(events', d, chains'[d][i])
    BY <1>6, <2>3, <2>7 DEF TitanInv
  <2> QED
    BY <2>1, <2>3, <2>5, <2>6, <2>7
<1>10. \A d \in Chain : \A i \in DOMAIN busLog'[d] :
         SignedFor(events', d, busLog'[d][i]) /\ busLog'[d][i].sequence = i - 1
  BY <1>3, <1>6 DEF TitanInv
<1>11. \A g \in executeGates' : AuditStands(g)'
  <2> SUFFICES ASSUME NEW g \in executeGates PROVE AuditStands(g)'
    BY <1>3
  <2>1. AuditStands(g)
    BY DEF TitanInv
  <2> QED
    BY <1>9, <2>1 DEF AuditStands
<1> QED
  BY <1>3, <1>4, <1>5, <1>9, <1>10, <1>11 DEF TitanInv

LEMMA PublishInv ==
    ASSUME TitanInv, NEW k \in DOMAIN events, Publish(events[k])
    PROVE  TitanInv'
<1> DEFINE e == events[k]
           c == e.chain
<1>1. /\ e.sequence = Len(busLog[c]) /\ busLog' = [busLog EXCEPT ![c] = Append(busLog[c], e)]
      /\ UNCHANGED <<events, chains, executeGates, titanStarts>>
  BY DEF Publish
<1>2. e \in VoiceEvent /\ SignedFor(events, c, e)
  <2>1. e \in VoiceEvent /\ e.signature = k
    BY DEF TitanInv
  <2> QED
    BY <2>1 DEF SignedFor
<1>3. c \in Chain
  BY <1>2 DEF VoiceEvent
<1>4. busLog \in [Chain -> Seq(VoiceEvent)]
  BY DEF TitanInv
<1> HIDE DEF e, c
<1>5. busLog' \in [Chain -> Seq(VoiceEvent)]
  BY <1>1, <1>2, <1>3, <1>4
<1>6. \A d, f : SignedFor(events', d, f) = SignedFor(events, d, f)
  BY <1>1 DEF SignedFor
<1>7. \A d \in Chain : \A i \in DOMAIN busLog'[d] :
         SignedFor(events', d, busLog'[d][i]) /\ busLog'[d][i].sequence = i - 1
  <2> SUFFICES ASSUME NEW d \in Chain, NEW i \in DOMAIN busLog'[d]
               PROVE  SignedFor(events, d, busLog'[d][i]) /\ busLog'[d][i].sequence = i - 1
    BY <1>6
  <2>1. CASE d # c
    <3>1. busLog'[d] = busLog[d]
      BY <1>1, <1>4, <2>1
    <3> QED
      BY <3>1 DEF TitanInv
  <2>2. CASE d = c
    <3>1. busLog[c] \in Seq(VoiceEvent)
      BY <1>3, <1>4
    <3>2. busLog'[c] = Append(busLog[c], e)
      BY <1>1, <1>3, <1>4
    <3>3. /\ i \in 1..(Len(busLog[c]) + 1) /\ Len(busLog[c]) \in Nat
          /\ i <= Len(busLog[c]) => i \in DOMAIN busLog[c] /\ busLog'[c][i] = busLog[c][i]
          /\ i = Len(busLog[c]) + 1 => busLog'[c][i] = e
      BY <2>2, <3>1, <3>2
    <3>4. CASE i <= Len(busLog[c])
      BY <2>2, <3>3, <3>4 DEF TitanInv
    <3>5. CASE i = Len(busLog[c]) + 1
      BY <1>1, <1>2, <2>2, <3>3, <3>5
    <3> QED
      BY <3>3, <3>4, <3>5
  <2> QED
    BY <2>1, <2>2
<1>8. \A g \in executeGates' : AuditStands(g)'
  BY <1>1 DEF TitanInv, AuditStands
<1> QED
  BY <1>1, <1>5, <1>6, <1>7, <1>8 DEF TitanInv

LEMMA PrefixFacts ==
    ASSUME NEW S, NEW s \in Seq(S), NEW t \in Seq(S), Len(s) <= Len(t),
           \A i \in DOMAIN s : s[i] = t[i]
    PROVE  IsPrefix(s, t)
<1>1. Len(s) \in Nat /\ Len(t) \in Nat /\ DOMAIN s = 1..Len(s)
  OBVIOUS
<1>2. SubSeq(s, 1, Len(s)) = SubSeq(t, 1, Len(s))
  <2>1. SubSeq(s, 1, Len(s)) \in Seq(S) /\ SubSeq(t, 1, Len(s)) \in Seq(S)
    BY <1>1
  <2>2. /\ Len(SubSeq(s, 1, Len(s))) = Len(s) /\ Len(SubSeq(t, 1, Len(s))) = Len(s)
        /\ \A i \in 1..Len(s) : SubSeq(s, 1, Len(s))[i] = s[i] /\ SubSeq(t, 1, Len(s))[i] = t[i]
    BY <1>1
  <2>3. \A i \in 1..Len(s) : SubSeq(s, 1, Len(s))[i] = SubSeq(t, 1, Len(s))[i]
    BY <1>1, <2>2
  <2> QED
    BY <2>1, <2>2, <2>3, SeqEqual
<1> QED
  BY <1>2 DEF IsPrefix

\* What is audited later holds what was audited before, number by number.
LEMMA ExecuteGateInv ==
    ASSUME TitanInv, NEW c \in Chain, ExecuteGate(c)
    PROVE  TitanInv'
<1> DEFINE s == chains[c]
           n == Len(s)
           new == [chain |-> c, audited |-> s]
<1>1. /\ ChainValid(s) /\ executeGates' = executeGates \cup {new}
      /\ UNCHANGED <<events, chains, busLog, titanStarts>>
  BY DEF ExecuteGate
<1>2. s \in Seq(VoiceEvent) /\ n \in Nat /\ DOMAIN s = 1..n
  BY DEF TitanInv
<1>3. \A i \in 1..n : /\ s[i].sequence = i - 1
                      /\ s[i].signature \in Nat
                      /\ i > 1 => s[i].previous = s[i - 1].signature
                      /\ s[i].previous < s[i].signature
  <2> TAKE i \in 1..n
  <2>1. s[i].sequence = i - 1 /\ (i > 1 => s[i].previous = s[i - 1].signature)
    BY <1>1, <1>2 DEF ChainValid
  <2>2. SignedFor(events, c, s[i])
    BY <1>2 DEF TitanInv
  <2>3. s[i].previous < s[i].signature
    BY <2>2 DEF SignedFor, TitanInv
  <2>4. s[i] \in VoiceEvent
    BY <1>2
  <2> QED
    BY <2>1, <2>3, <2>4 DEF VoiceEvent
<1> HIDE DEF s
<1>4. ASSUME NEW i \in 1..n, NEW j \in 1..n, i < j PROVE s[i].signature < s[j].signature
  <2> DEFINE f == [k \in 1..n |-> s[k].signature]
  <2>1. f \in [1..n -> Nat]
    BY <1>3
  <2>2. \A k \in 1..n : k > 1 => f[k - 1] < f[k]
    <3> SUFFICES ASSUME NEW k \in 1..n, k > 1 PROVE f[k - 1] < f[k]
      OBVIOUS
    <3>1. k - 1 \in 1..n
      BY <1>2
    <3> QED
      BY <1>3, <3>1
  <2>3. f[i] = s[i].signature /\ f[j] = s[j].signature
    OBVIOUS
  <2> HIDE DEF f
  <2>4. f[i] < f[j]
    BY <1>2, <1>4, <2>1, <2>2, GrowsThroughout
  <2> QED
    BY <2>3, <2>4
<1>5. ASSUME NEW g, g = new PROVE AuditStands(g)'
  BY <1>1, <1>5, <1>2, <1>3, <1>4 DEF AuditStands, s
<1>6. ASSUME NEW g \in executeGates PROVE AuditStands(g) /\ AuditStands(g)'
  BY <1>1 DEF TitanInv, AuditStands
<1>7. ASSUME NEW g \in executeGates, g.chain = c PROVE IsPrefix(g.audited, s)
  <2> DEFINE a == g.audited
  <2>1. a \in Seq(VoiceEvent) /\ (\A i \in DOMAIN a : a[i].sequence = i - 1) /\ Range(a) \subseteq Range(s)
    BY <1>6, <1>7 DEF AuditStands, s
  <2> HIDE DEF a
  <2>2. Len(a) \in Nat /\ DOMAIN a = 1..Len(a)
    BY <2>1
  <2>3. ASSUME NEW i \in DOMAIN a PROVE i \in 1..n /\ a[i] = s[i]
    <3>1. PICK j \in DOMAIN s : a[i] = s[j]
      BY <2>1 DEF Range
    <3>2. i - 1 = j - 1 /\ i \in Nat /\ j \in 1..n
      BY <1>2, <1>3, <2>1, <2>2, <3>1
    <3>3. i = j
      BY <3>2
    <3> QED
      BY <3>1, <3>2, <3>3
  <2>4. Len(a) <= n
    <3>1. CASE Len(a) = 0
      BY <1>2, <3>1
    <3>2. CASE Len(a) # 0
      <4>1. Len(a) \in DOMAIN a
        BY <2>2, <3>2
      <4> QED
        BY <1>2, <2>3, <4>1
    <3> QED
      BY <3>1, <3>2
  <2>5. IsPrefix(a, s)
    BY <1>2, <2>1, <2>3, <2>4, PrefixFacts
  <2> QED
    BY <2>5 DEF a
<1>8. IsPrefix(s, s)
  BY <1>2, PrefixFacts
<1>9. \A g, h \in executeGates' : g.chain = h.chain =>
         IsPrefix(g.audited, h.audited) \/ IsPrefix(h.audited, g.audited)
  <2> TAKE g, h \in executeGates'
  <2>1. (g \in executeGates \/ g = new) /\ (h \in executeGates \/ h = new)
    BY <1>1
  <2>2. CASE g \in executeGates /\ h \in executeGates
    BY <2>2 DEF TitanInv
  <2>3. CASE g = new /\ h = new
    BY <1>8, <2>3
  <2>4. CASE g = new /\ h \in executeGates
    BY <1>7, <2>4
  <2>5. CASE g \in executeGates /\ h = new
    BY <1>7, <2>5
  <2> QED
    BY <2>1, <2>2, <2>3, <2>4, <2>5
<1>10. \A g \in executeGates' : AuditStands(g)'
  BY <1>1, <1>5, <1>6
<1> QED
  BY <1>1, <1>9, <1>10 DEF TitanInv

LEMMA TitanRestartInv ==
    ASSUME TitanInv, TitanRestart
    PROVE  TitanInv'
<1>1. titanStarts' \in 0..MaxTitanStarts
  BY TitanAssumption DEF TitanRestart, TitanInv
<1> QED
  BY <1>1 DEF TitanRestart, TitanInv

LEMMA TitanStep ==
    ASSUME TitanInv, TitanNext
    PROVE  TitanInv'
<1>1. ASSUME NEW c \in Chain, NEW type \in VoiceEvents, NEW n \in 0..MaxSequenceNumber,
             NEW previous \in 0..Len(events), Emit(c, type, n, previous)
      PROVE  TitanInv'
  BY <1>1, EmitInv, TitanAssumption
<1>2. ASSUME NEW c \in Chain, DeploymentGate(c) PROVE TitanInv'
  <2>1. Len(events) \in Nat
    BY DEF TitanInv
  <2> QED
    BY <1>2, <2>1, EmitInv DEF DeploymentGate, Unsigned
<1> QED
  BY <1>1, <1>2, PublishInv, ExecuteGateInv, TitanRestartInv DEF TitanNext

LEMMA TitanStutter ==
    ASSUME TitanInv, UNCHANGED titanVars
    PROVE  TitanInv'
<1>1. UNCHANGED <<events, chains, busLog, executeGates, titanStarts>>
  BY DEF titanVars
<1>2. \A g \in executeGates : AuditStands(g)'
  BY <1>1 DEF TitanInv, AuditStands
<1> QED
  BY <1>1, <1>2 DEF TitanInv

LEMMA TitanFollows ==
    ASSUME TitanInv
    PROVE  TitanTypeOK /\ GatesStand
<1>1. ASSUME NEW c \in Chain, NEW i \in DOMAIN busLog[c], NEW j \in DOMAIN busLog[c],
             busLog[c][i].sequence = busLog[c][j].sequence
      PROVE  busLog[c][i] = busLog[c][j]
  <2>1. i \in Int /\ j \in Int /\ i - 1 = j - 1
    BY <1>1 DEF TitanInv
  <2>2. i = j
    BY <2>1
  <2> QED
    BY <2>2
<1>2. \A c \in Chain : \A e, f \in Range(busLog[c]) : e.sequence = f.sequence => e = f
  BY <1>1 DEF Range
<1>3. ASSUME NEW c \in Chain
      PROVE  Range(chains[c]) \cup Range(busLog[c]) \subseteq {e \in Range(events) : e.chain = c}
  <2>1. \A f : SignedFor(events, c, f) => f.chain = c /\ \E k \in DOMAIN events : f = events[k]
    BY DEF SignedFor
  <2>2. /\ \A i \in DOMAIN chains[c] : SignedFor(events, c, chains[c][i])
        /\ \A i \in DOMAIN busLog[c] : SignedFor(events, c, busLog[c][i])
    BY DEF TitanInv
  <2> QED
    BY <2>1, <2>2 DEF Range
<1> QED
  BY <1>2, <1>3 DEF TitanInv, AuditStands, TitanTypeOK, GatesStand

-----------------------------------------------------------------------------
(* ROAD. *)

RoadDeployment == [commit : Commit \cup {"no commit"}, ready : BOOLEAN, accepted : BOOLEAN,
               mounted : BOOLEAN, context : BOOLEAN, madhouse : {"unbounded", "blocks", "ready"}]
RoadAttestation == [commit : Commit \cup {"no commit"}, ready : BOOLEAN, accepted : BOOLEAN, mounted : BOOLEAN]
RecordStatus == {"PASS", "BLOCKED", "UNVERIFIED"}
CallStep == {"attestation", "context", "runs", "jobs", "madhouse", "review", "epistemic", "gates", "answered"}

\* The records that a call of the registry has at a step.
Ci == {"test", "build", "security"}
RecordsBy(step) ==
    (IF step # "attestation" THEN {"attestation"} ELSE {})
      \cup (IF step \notin {"attestation", "context"} THEN {"context"} ELSE {})
      \cup (IF step \notin {"attestation", "context", "runs", "jobs"} THEN Ci ELSE {})
      \cup (IF step \in {"epistemic", "gates", "answered"} THEN {"madhouse"} ELSE {})
      \cup (IF step \in {"gates", "answered"} THEN {"epistemic"} ELSE {})
      \cup (IF step = "answered" THEN Reviewed ELSE {})

RecordsTyped(records) == \A id \in DOMAIN records : records[id] \in RecordStatus

CallTyped(x) ==
    /\ x.step \in CallStep /\ x.tool \in RoadTool /\ x.attested \in RoadAttestation
    /\ x.run \in 0..MaxRuns
    /\ RecordsTyped(x.records)

HeardFrom(witnesses, source) == {w \in witnesses : w.source = source}
Only(passes, source, commit) == IF passes THEN Witness(source, commit) ELSE {}

\* What a call that builds the registry has records of, and who bore witness.
RegistryOf(records, a) ==
    /\ "security" \in DOMAIN records => /\ records["build"] = records["test"]
                                        /\ records["security"] = "PASS" => records["test"] = "PASS" /\ records["context"] = "PASS"
    /\ "GOVERNANCE" \in DOMAIN records =>
         /\ \A g \in Reviewed : records[g] = records["GOVERNANCE"]
         /\ records["GOVERNANCE"] = "PASS" => a.commit \in Commit
WitnessesOf(records, witnesses, a) ==
    /\ \A w \in witnesses : w.source \in {"attestation", "github", "agent", "volume"}
    /\ HeardFrom(witnesses, "attestation") = Only("attestation" \in DOMAIN records, "attestation", a.commit)
    /\ HeardFrom(witnesses, "github")
         = Only("test" \in DOMAIN records /\ records["test"] = "PASS", "github", a.commit)
    /\ HeardFrom(witnesses, "volume")
         = Only("GOVERNANCE" \in DOMAIN records /\ records["GOVERNANCE"] = "PASS", "volume", a.commit)
RegistryStands(x) ==
    /\ DOMAIN x.records = RecordsBy(x.step)
    /\ RegistryOf(x.records, x.attested)
    /\ WitnessesOf(x.records, x.witnesses, x.attested)

RunOfCommit(runs, x) == x.step = "jobs" => x.run \in DOMAIN runs /\ runs[x.run].commit = x.attested.commit

CallFields == {"step", "tool", "attested", "run", "records", "witnesses"}
CallStands(runs, x) ==
    \/ x.step = "new"
    \/ /\ DOMAIN x = CallFields /\ x = [id \in CallFields |-> x[id]]
       /\ CallTyped(x) /\ RunOfCommit(runs, x)
       /\ x.tool = "registry" => RegistryStands(x)

CiRunTyped == [commit : Commit, canonical : BOOLEAN, outcome : Outcome]
RoadInv ==
    /\ serving \in Production
    /\ onVolume \in RoadAttestation
    /\ ciRuns \in Seq(CiRunTyped) /\ Len(ciRuns) <= MaxRuns
    /\ inquiry = [q \in Inquiry |-> inquiry[q]]
    /\ \A q \in Inquiry : CallStands(ciRuns, inquiry[q])

LEMMA ProductionTyped == Production \subseteq RoadDeployment
BY RoadAssumption DEF RoadDeployment

LEMMA MaxRunsIsNatural == MaxRuns \in Nat
BY RoadAssumption

LEMMA AttestedTyped ==
    /\ \A d \in RoadDeployment : Attested(d) \in RoadAttestation
    /\ Unreached \in RoadAttestation
<1>1. Unreached \in RoadAttestation
  BY DEF Unreached, Unnamed, RoadAttestation
<1>2. ASSUME NEW d \in RoadDeployment PROVE Attested(d) \in RoadAttestation
  <2>1. /\ d.commit \in Commit \cup {"no commit"} /\ d.ready \in BOOLEAN
        /\ d.accepted \in BOOLEAN /\ d.mounted \in BOOLEAN
    BY DEF RoadDeployment
  <2> QED
    BY <1>1, <2>1 DEF Attested, RoadAttestation
<1> QED
  BY <1>1, <1>2

LEMMA InitRoad == RoadInit => RoadInv
<1> SUFFICES ASSUME RoadInit PROVE RoadInv
  OBVIOUS
<1>1. serving \in Production /\ onVolume = Attested(serving) /\ ciRuns = <<>>
      /\ inquiry = [q \in Inquiry |-> [step |-> "new"]]
  BY DEF RoadInit
<1>2. \A q \in Inquiry : inquiry[q].step = "new"
  BY <1>1
<1>3. Len(ciRuns) <= MaxRuns
  BY <1>1, MaxRunsIsNatural
<1> QED
  BY <1>1, <1>2, <1>3, ProductionTyped, AttestedTyped DEF RoadInv, CallStands

LEMMA RedeployInv ==
    ASSUME RoadInv, NEW d \in Production, Redeploy(d)
    PROVE  RoadInv'
<1>1. serving' \in Production
  BY DEF Redeploy
<1>2. onVolume' \in RoadAttestation
  BY ProductionTyped, AttestedTyped DEF Redeploy, RoadInv
<1>3. ciRuns' = ciRuns /\ inquiry' = inquiry
  BY DEF Redeploy
<1> QED
  BY <1>1, <1>2, <1>3 DEF RoadInv

\* Runs that complete, and are run again, are still of the commit they were of.
LEMMA RunsKeepCommits ==
    ASSUME RoadInv, UNCHANGED <<serving, onVolume, inquiry>>,
           ciRuns' \in Seq(CiRunTyped), Len(ciRuns') <= MaxRuns,
           \A i \in DOMAIN ciRuns : i \in DOMAIN ciRuns' /\ ciRuns'[i].commit = ciRuns[i].commit
    PROVE  RoadInv'
<1>1. \A q \in Inquiry : CallStands(ciRuns, inquiry[q]) => CallStands(ciRuns', inquiry'[q])
  BY DEF CallStands, RunOfCommit
<1> QED
  BY <1>1 DEF RoadInv

LEMMA CompleteRunInv ==
    ASSUME RoadInv, NEW run \in CiRuns, NEW outcome \in Outcome, CompleteRun(run, outcome)
    PROVE  RoadInv'
<1> DEFINE new == [commit |-> run.commit, canonical |-> run.canonical, outcome |-> outcome]
<1>1. new \in CiRunTyped
  BY RoadAssumption DEF CiRunTyped
<1>2. ciRuns' = Append(ciRuns, new) /\ Len(ciRuns) < MaxRuns /\ ciRuns \in Seq(CiRunTyped)
  BY DEF CompleteRun, RoadInv
<1> HIDE DEF new
<1>3. ciRuns' \in Seq(CiRunTyped) /\ Len(ciRuns') = Len(ciRuns) + 1 /\ Len(ciRuns) \in Nat
      /\ \A i \in 1..Len(ciRuns) : ciRuns'[i] = ciRuns[i]
  BY <1>1, <1>2
<1>4. DOMAIN ciRuns = 1..Len(ciRuns) /\ DOMAIN ciRuns' = 1..(Len(ciRuns) + 1)
  BY <1>2, <1>3
<1>5. Len(ciRuns') <= MaxRuns
  BY <1>2, <1>3, MaxRunsIsNatural
<1>6. \A i \in DOMAIN ciRuns : i \in DOMAIN ciRuns' /\ ciRuns'[i].commit = ciRuns[i].commit
  BY <1>3, <1>4
<1>7. UNCHANGED <<serving, onVolume, inquiry>>
  BY DEF CompleteRun
<1> QED
  BY <1>3, <1>5, <1>6, <1>7, RunsKeepCommits

LEMMA RunAgainInv ==
    ASSUME RoadInv, NEW i \in DOMAIN ciRuns, NEW outcome \in Outcome, RunAgain(i, outcome)
    PROVE  RoadInv'
<1> DEFINE new == [ciRuns[i] EXCEPT !.outcome = outcome]
<1>1. ciRuns \in Seq(CiRunTyped) /\ Len(ciRuns) <= MaxRuns
  BY DEF RoadInv
<1>2. new \in CiRunTyped /\ new.commit = ciRuns[i].commit
  <2>1. ciRuns[i] \in CiRunTyped
    BY <1>1
  <2> QED
    BY <2>1 DEF CiRunTyped
<1>3. ciRuns' = [ciRuns EXCEPT ![i] = new]
  BY DEF RunAgain
<1> HIDE DEF new
<1>4. ciRuns' \in Seq(CiRunTyped) /\ Len(ciRuns') = Len(ciRuns) /\ DOMAIN ciRuns' = DOMAIN ciRuns
  BY <1>1, <1>2, <1>3
<1>5. \A j \in DOMAIN ciRuns : ciRuns'[j].commit = ciRuns[j].commit
  BY <1>1, <1>2, <1>3
<1>6. UNCHANGED <<serving, onVolume, inquiry>>
  BY DEF RunAgain
<1> QED
  BY <1>1, <1>4, <1>5, <1>6, RunsKeepCommits

\* A call whose new state stands.
LEMMA CallMoves ==
    ASSUME RoadInv, NEW q \in Inquiry, NEW x, CallStands(ciRuns, x),
           inquiry' = [inquiry EXCEPT ![q] = x], UNCHANGED <<serving, onVolume, ciRuns>>
    PROVE  RoadInv'
<1>1. inquiry = [r \in Inquiry |-> inquiry[r]]
  BY DEF RoadInv
<1>2. inquiry' = [r \in Inquiry |-> IF r = q THEN x ELSE inquiry[r]]
  BY <1>1
<1>3. inquiry' = [r \in Inquiry |-> inquiry'[r]] /\ \A r \in Inquiry : CallStands(ciRuns, inquiry'[r])
  BY <1>2 DEF RoadInv
<1> QED
  BY <1>3 DEF RoadInv

LEMMA InquireInv ==
    ASSUME RoadInv, NEW q \in Inquiry, NEW tool \in RoadTool, Inquire(q, tool)
    PROVE  RoadInv'
<1> DEFINE x == [step |-> IF tool = "context" THEN "context" ELSE "attestation", tool |-> tool,
                 attested |-> Unreached, run |-> 0, records |-> <<>>, witnesses |-> {}]
<1>1. inquiry' = [inquiry EXCEPT ![q] = x] /\ UNCHANGED <<serving, onVolume, ciRuns>>
  BY DEF Inquire
<1>2. DOMAIN <<>> = {}
  OBVIOUS
<1>3. DOMAIN x = CallFields /\ x = [id \in CallFields |-> x[id]]
  BY DEF CallFields
<1>4. CallTyped(x)
  <2>1. x.step \in CallStep /\ x.tool \in RoadTool /\ x.attested \in RoadAttestation
    BY AttestedTyped DEF CallStep
  <2>2. x.run \in 0..MaxRuns
    BY MaxRunsIsNatural
  <2>3. RecordsTyped(x.records)
    BY <1>2 DEF RecordsTyped
  <2> QED
    BY <2>1, <2>2, <2>3 DEF CallTyped
<1>5. x.step # "jobs"
  OBVIOUS
<1>6. ASSUME tool = "registry" PROVE RegistryStands(x)
  <2>1. x.step = "attestation" /\ DOMAIN x.records = {} /\ x.witnesses = {}
    BY <1>2, <1>6
  <2>2. RecordsBy("attestation") = {}
    BY DEF RecordsBy
  <2> QED
    BY <2>1, <2>2 DEF RegistryStands, RegistryOf, WitnessesOf, HeardFrom, Only
<1>7. CallStands(ciRuns, x)
  BY <1>3, <1>4, <1>5, <1>6 DEF CallStands, RunOfCommit
<1> HIDE DEF x
<1> QED
  BY <1>1, <1>7, CallMoves

\* A call in the middle, its record, and the record it goes on with.
CallGoingOn(x, step, records, witnesses) ==
    [step |-> step, tool |-> x.tool, attested |-> x.attested, run |-> x.run,
     records |-> records, witnesses |-> witnesses]
BecomesCall(q, x) == inquiry' = [inquiry EXCEPT ![q] = x]

LEMMA GoesOn ==
    ASSUME RoadInv, NEW q \in Inquiry, inquiry[q].step # "new",
           NEW step, NEW new, NEW witnesses, Hears(q, step, new, witnesses)
    PROVE  BecomesCall(q, CallGoingOn(inquiry[q], step, Filing(new, inquiry[q].records),
                                      inquiry[q].witnesses \cup witnesses))
<1> DEFINE x == inquiry[q]
           R == Filing(new, x.records)
           W == x.witnesses \cup witnesses
           x1 == [x EXCEPT !.step = step]
           x2 == [x1 EXCEPT !.records = R]
           x3 == [x2 EXCEPT !.witnesses = W]
<1>1. DOMAIN x = CallFields /\ x = [id \in CallFields |-> x[id]]
  BY DEF RoadInv, CallStands
<1>2. inquiry = [r \in Inquiry |-> inquiry[r]]
  BY DEF RoadInv
<1>3. inquiry' = [inquiry EXCEPT ![q] = x3]
  <2>1. [inquiry EXCEPT ![q].step = step] = [inquiry EXCEPT ![q] = x1]
    BY <1>2
  <2>2. inquiry' = [inquiry EXCEPT ![q].step = step, ![q].records = Filing(new, @), ![q].witnesses = @ \cup witnesses]
    BY DEF Hears
  <2> DEFINE i1 == [inquiry EXCEPT ![q] = x1]
             i2 == [i1 EXCEPT ![q].records = Filing(new, @)]
             i3 == [i2 EXCEPT ![q].witnesses = @ \cup witnesses]
  <2>3. inquiry' = i3
    BY <2>1, <2>2
  <2>4. i1 = [r \in Inquiry |-> IF r = q THEN x1 ELSE inquiry[r]]
    BY <1>2
  <2>5. x1.records = x.records /\ x1.witnesses = x.witnesses
    BY <1>1 DEF CallFields
  <2>6. i2 = [i1 EXCEPT ![q] = x2]
    BY <2>4, <2>5
  <2>7. i2 = [r \in Inquiry |-> IF r = q THEN x2 ELSE inquiry[r]]
    BY <2>4, <2>6
  <2>8. x2.witnesses = x.witnesses
    BY <1>1, <2>5
  <2>9. i3 = [i2 EXCEPT ![q] = x3]
    BY <2>7, <2>8
  <2>10. i3 = [r \in Inquiry |-> IF r = q THEN x3 ELSE inquiry[r]]
    BY <2>7, <2>9
  <2>11. [inquiry EXCEPT ![q] = x3] = [r \in Inquiry |-> IF r = q THEN x3 ELSE inquiry[r]]
    BY <1>2
  <2> QED
    BY <2>3, <2>10, <2>11
<1>4. x3 = CallGoingOn(x, step, R, W)
  <2> HIDE DEF R, W
  <2>1. x3 = [id \in CallFields |-> IF id = "step" THEN step ELSE IF id = "records" THEN R
                                     ELSE IF id = "witnesses" THEN W ELSE x[id]]
    BY <1>1 DEF CallFields
  <2> QED
    BY <2>1 DEF CallFields, CallGoingOn
<1> QED
  BY <1>3, <1>4 DEF BecomesCall

LEMMA FilingFacts ==
    ASSUME NEW new, NEW records
    PROVE  /\ DOMAIN Filing(new, records) = DOMAIN new \cup DOMAIN records
           /\ \A id \in DOMAIN new : Filing(new, records)[id] = new[id]
           /\ \A id \in DOMAIN records \ DOMAIN new : Filing(new, records)[id] = records[id]
           /\ RecordsTyped(new) /\ RecordsTyped(records) => RecordsTyped(Filing(new, records))
BY DEF Filing, RecordsTyped

\* What is heard in the middle of a call that builds the registry must stand.
LEMMA Heard ==
    ASSUME RoadInv, NEW q \in Inquiry, inquiry[q].step # "new",
           NEW step \in CallStep \ {"jobs"}, NEW new, NEW witnesses, Hears(q, step, new, witnesses),
           RecordsTyped(new),
           inquiry[q].tool = "registry" =>
             /\ DOMAIN new \cup DOMAIN inquiry[q].records = RecordsBy(step)
             /\ RegistryOf(Filing(new, inquiry[q].records), inquiry[q].attested)
             /\ WitnessesOf(Filing(new, inquiry[q].records), inquiry[q].witnesses \cup witnesses, inquiry[q].attested)
    PROVE  RoadInv'
<1> DEFINE x == inquiry[q]
           R == Filing(new, x.records)
           W == x.witnesses \cup witnesses
           y == CallGoingOn(x, step, R, W)
<1>1. CallTyped(x)
  BY DEF RoadInv, CallStands
<1>2. RecordsTyped(R) /\ DOMAIN R = DOMAIN new \cup DOMAIN x.records
  BY <1>1, FilingFacts DEF CallTyped
<1>3. inquiry' = [inquiry EXCEPT ![q] = y]
  <2>1. BecomesCall(q, CallGoingOn(inquiry[q], step, Filing(new, inquiry[q].records),
                                   inquiry[q].witnesses \cup witnesses))
    BY GoesOn
  <2> QED
    BY <2>1 DEF BecomesCall
<1>4. UNCHANGED <<serving, onVolume, ciRuns>>
  BY DEF Hears
<1>5. inquiry[q].tool = "registry" =>
        DOMAIN R = RecordsBy(step) /\ RegistryOf(R, x.attested) /\ WitnessesOf(R, W, x.attested)
  BY <1>2
<1> HIDE DEF R, W
<1>6. CallStands(ciRuns, y)
  <2>1. DOMAIN y = CallFields /\ y = [id \in CallFields |-> y[id]]
    BY DEF CallFields, CallGoingOn
  <2>2. /\ y.step = step /\ y.tool = x.tool /\ y.attested = x.attested /\ y.run = x.run
        /\ y.records = R /\ y.witnesses = W
    BY DEF CallGoingOn
  <2>3. CallTyped(y) /\ RunOfCommit(ciRuns, y)
    BY <1>1, <1>2, <2>2 DEF CallTyped, RunOfCommit
  <2>4. y.tool = "registry" => RegistryStands(y)
    BY <1>5, <2>2 DEF RegistryStands
  <2> QED
    BY <2>1, <2>3, <2>4 DEF CallStands
<1> HIDE DEF y
<1> QED
  BY <1>3, <1>4, <1>6, CallMoves

LEMMA AskAttestationInv ==
    ASSUME RoadInv, NEW q \in Inquiry, AskAttestation(q)
    PROVE  RoadInv'
<1>1. PICK a \in {Unreached, Attested(serving)} :
        inquiry' = [inquiry EXCEPT
           ![q].step = IF inquiry[q].tool = "acceptance" THEN "answered" ELSE "context",
           ![q].attested = a,
           ![q].records = Filed("attestation", Passed(a.accepted)),
           ![q].witnesses = Witness("attestation", a.commit)]
  BY DEF AskAttestation
<1> DEFINE x == inquiry[q]
           step == IF x.tool = "acceptance" THEN "answered" ELSE "context"
           R == Filed("attestation", Passed(a.accepted))
           W == Witness("attestation", a.commit)
           y == [step |-> step, tool |-> x.tool, attested |-> a, run |-> x.run, records |-> R, witnesses |-> W]
           y1 == [x EXCEPT !.step = step]
           y2 == [y1 EXCEPT !.attested = a]
           y3 == [y2 EXCEPT !.records = R]
           y4 == [y3 EXCEPT !.witnesses = W]
           i1 == [inquiry EXCEPT ![q].step = step]
           i2 == [i1 EXCEPT ![q].attested = a]
           i3 == [i2 EXCEPT ![q].records = R]
           i4 == [i3 EXCEPT ![q].witnesses = W]
<1>2. x.step = "attestation" /\ UNCHANGED <<serving, onVolume, ciRuns>>
  BY DEF AskAttestation
<1>3. DOMAIN x = CallFields /\ x = [id \in CallFields |-> x[id]] /\ CallTyped(x)
  BY <1>2 DEF RoadInv, CallStands
<1>4. inquiry = [r \in Inquiry |-> inquiry[r]]
  BY DEF RoadInv
<1>5. inquiry' = i4
  BY <1>1
<1>6. y4 = y
  <2> HIDE DEF step, R, W
  <2>1. y4 = [id \in CallFields |-> IF id = "step" THEN step ELSE IF id = "attested" THEN a
              ELSE IF id = "records" THEN R ELSE IF id = "witnesses" THEN W ELSE x[id]]
    BY <1>3 DEF CallFields
  <2> QED
    BY <2>1 DEF CallFields
<1>7. inquiry' = [inquiry EXCEPT ![q] = y4]
  <2> HIDE DEF step, R, W
  <2>1. i1 = [r \in Inquiry |-> IF r = q THEN y1 ELSE inquiry[r]]
    BY <1>4
  <2>2. i2 = [r \in Inquiry |-> IF r = q THEN y2 ELSE inquiry[r]]
    BY <2>1
  <2>3. i3 = [r \in Inquiry |-> IF r = q THEN y3 ELSE inquiry[r]]
    BY <2>2
  <2>4. i4 = [r \in Inquiry |-> IF r = q THEN y4 ELSE inquiry[r]]
    BY <2>3
  <2> QED
    BY <1>4, <1>5, <2>4
<1>8. a \in RoadAttestation
  BY ProductionTyped, AttestedTyped DEF RoadInv
<1>9. DOMAIN R = {"attestation"} /\ RecordsTyped(R)
  BY DEF Filed, Passed, RecordsTyped, RecordStatus
<1>10. W = Only(TRUE, "attestation", a.commit) /\ W = {[source |-> "attestation", commit |-> a.commit]}
  BY DEF Only, Witness
<1>11. CallStands(ciRuns, y)
  <2> HIDE DEF R, W
  <2>1. CallTyped(y) /\ RunOfCommit(ciRuns, y)
    BY <1>3, <1>8, <1>9 DEF CallTyped, RunOfCommit, CallStep
  <2>2. DOMAIN y = CallFields /\ y = [id \in CallFields |-> y[id]]
    BY DEF CallFields
  <2>3. ASSUME x.tool = "registry" PROVE RegistryStands(y)
    <3>1. y.step = "context" /\ y.attested = a /\ y.records = R /\ y.witnesses = W
      BY <2>3
    <3>2. RecordsBy("context") = {"attestation"}
      BY DEF RecordsBy
    <3>3. "security" \notin DOMAIN R /\ "test" \notin DOMAIN R /\ "GOVERNANCE" \notin DOMAIN R
          /\ "attestation" \in DOMAIN R
      BY <1>9
    <3>4. WitnessesOf(R, W, a)
      BY <1>10, <3>3 DEF WitnessesOf, HeardFrom, Only
    <3> QED
      BY <1>9, <3>1, <3>2, <3>3, <3>4 DEF RegistryStands, RegistryOf
  <2> QED
    BY <2>1, <2>2, <2>3 DEF CallStands
<1> HIDE DEF y, y4
<1> QED
  BY <1>2, <1>6, <1>7, <1>11, CallMoves

\* A call of the registry that goes on with what leaves its witnesses alone.
LEMMA RegistryCall ==
    ASSUME RoadInv, NEW q \in Inquiry, inquiry[q].step # "new"
    PROVE  /\ CallTyped(inquiry[q]) /\ RunOfCommit(ciRuns, inquiry[q])
           /\ inquiry[q].tool = "registry" => RegistryStands(inquiry[q])
BY DEF RoadInv, CallStands

LEMMA FiledFacts ==
    ASSUME NEW id, NEW status
    PROVE  /\ DOMAIN Filed(id, status) = {id} /\ Filed(id, status)[id] = status
           /\ status \in RecordStatus => RecordsTyped(Filed(id, status))
BY DEF Filed, RecordsTyped

LEMMA PassedIsStatus == \A yes \in BOOLEAN : Passed(yes) \in RecordStatus /\ (Passed(yes) = "PASS" <=> yes)
BY DEF Passed, RecordStatus

\* A record that does not bear on the others when it is filed.
Separate(id, records) ==
    id \in {"context", "madhouse", "epistemic"} /\ (id = "context" => "security" \notin DOMAIN records)
OfAgents(witnesses) == \A w \in witnesses : w.source = "agent"

LEMMA FilesOne ==
    ASSUME NEW id, NEW status, NEW x, Separate(id, x.records), RegistryStands(x),
           NEW agents, OfAgents(agents)
    PROVE  /\ RegistryOf(Filing(Filed(id, status), x.records), x.attested)
           /\ WitnessesOf(Filing(Filed(id, status), x.records), x.witnesses \cup agents, x.attested)
<1> DEFINE R == Filing(Filed(id, status), x.records)
           W == x.witnesses \cup agents
<1>1. /\ DOMAIN R = {id} \cup DOMAIN x.records
      /\ \A k \in DOMAIN x.records : k # id => R[k] = x.records[k]
  <2> DEFINE new == Filed(id, status)
  <2>1. DOMAIN new = {id}
    BY FiledFacts
  <2> HIDE DEF new
  <2>2. /\ DOMAIN Filing(new, x.records) = DOMAIN new \cup DOMAIN x.records
        /\ \A k \in DOMAIN x.records \ DOMAIN new : Filing(new, x.records)[k] = x.records[k]
    BY FilingFacts
  <2> QED
    BY <2>1, <2>2 DEF new
<1>2. RegistryOf(x.records, x.attested) /\ WitnessesOf(x.records, x.witnesses, x.attested)
  BY DEF RegistryStands
<1>3. DOMAIN x.records = RecordsBy(x.step)
  BY DEF RegistryStands
<1>4. /\ "security" \in DOMAIN R => "security" \in DOMAIN x.records /\ id # "context"
      /\ id \in {"context", "madhouse", "epistemic"}
  BY <1>1 DEF Separate
<1>5. "security" \in DOMAIN x.records => {"build", "test", "context"} \subseteq DOMAIN x.records
  BY <1>3 DEF RecordsBy, Ci, Reviewed
<1>6. "GOVERNANCE" \in DOMAIN x.records => Reviewed \subseteq DOMAIN x.records
  BY <1>3 DEF RecordsBy, Ci, Reviewed
<1> HIDE DEF R
<1>7. RegistryOf(R, x.attested)
  <2>1. ASSUME "security" \in DOMAIN R
        PROVE  /\ R["build"] = R["test"]
               /\ R["security"] = "PASS" => R["test"] = "PASS" /\ R["context"] = "PASS"
    <3>1. /\ R["build"] = x.records["build"] /\ R["test"] = x.records["test"]
          /\ R["security"] = x.records["security"] /\ R["context"] = x.records["context"]
      BY <1>1, <1>4, <1>5, <2>1
    <3> QED
      BY <1>2, <1>4, <2>1, <3>1 DEF RegistryOf
  <2>2. ASSUME "GOVERNANCE" \in DOMAIN R
        PROVE  /\ \A g \in Reviewed : R[g] = R["GOVERNANCE"]
               /\ R["GOVERNANCE"] = "PASS" => x.attested.commit \in Commit
    <3>1. "GOVERNANCE" \in DOMAIN x.records
      BY <1>1, <1>4, <2>2
    <3>2. \A g \in Reviewed : R[g] = x.records[g]
      BY <1>1, <1>4, <1>6, <3>1 DEF Reviewed
    <3> QED
      BY <1>2, <3>1, <3>2 DEF RegistryOf, Reviewed
  <2> QED
    BY <2>1, <2>2 DEF RegistryOf
<1>8. WitnessesOf(R, W, x.attested)
  <2>1. \A source \in {"attestation", "github", "volume"} : HeardFrom(W, source) = HeardFrom(x.witnesses, source)
    BY DEF HeardFrom, OfAgents
  <2>2. \A w \in W : w.source \in {"attestation", "github", "agent", "volume"}
    BY <1>2 DEF WitnessesOf, OfAgents
  <2> HIDE DEF W
  <2>3. \A k \in {"attestation", "test", "GOVERNANCE"} :
          (k \in DOMAIN R <=> k \in DOMAIN x.records) /\ (k \in DOMAIN R => R[k] = x.records[k])
    BY <1>1, <1>4
  <2> QED
    BY <1>2, <2>1, <2>2, <2>3 DEF WitnessesOf
<1> QED
  BY <1>7, <1>8 DEF R

\* A step in which the one record is filed.
LEMMA FilesOneInv ==
    ASSUME RoadInv, NEW q \in Inquiry, inquiry[q].step # "new",
           NEW step \in CallStep \ {"jobs"}, NEW id \in {"context", "madhouse", "epistemic"},
           NEW status \in RecordStatus, NEW agents, OfAgents(agents),
           Hears(q, step, Filed(id, status), agents),
           inquiry[q].tool = "registry" => /\ RecordsBy(step) = RecordsBy(inquiry[q].step) \cup {id}
                                           /\ id = "context" => "security" \notin RecordsBy(inquiry[q].step)
    PROVE  RoadInv'
<1> DEFINE new == Filed(id, status)
           x == inquiry[q]
<1>1. RecordsTyped(new) /\ DOMAIN new = {id}
  BY FiledFacts
<1>2. x.tool = "registry" => RegistryStands(x)
  BY RegistryCall
<1>3. x.tool = "registry" =>
        /\ DOMAIN new \cup DOMAIN x.records = RecordsBy(step)
        /\ RegistryOf(Filing(new, x.records), x.attested)
        /\ WitnessesOf(Filing(new, x.records), x.witnesses \cup agents, x.attested)
  <2> SUFFICES ASSUME x.tool = "registry"
               PROVE  /\ DOMAIN new \cup DOMAIN x.records = RecordsBy(step)
                      /\ RegistryOf(Filing(new, x.records), x.attested)
                      /\ WitnessesOf(Filing(new, x.records), x.witnesses \cup agents, x.attested)
    OBVIOUS
  <2>1. DOMAIN x.records = RecordsBy(x.step)
    BY <1>2 DEF RegistryStands
  <2>2. Separate(id, x.records)
    BY <2>1 DEF Separate
  <2>3. DOMAIN new \cup DOMAIN x.records = RecordsBy(step)
    BY <1>1, <2>1
  <2>5. RegistryStands(x)
    BY <1>2
  <2> HIDE DEF x, new
  <2>6. /\ RegistryOf(Filing(Filed(id, status), x.records), x.attested)
        /\ WitnessesOf(Filing(Filed(id, status), x.records), x.witnesses \cup agents, x.attested)
    BY <2>2, <2>5, FilesOne
  <2> QED
    BY <2>3, <2>6 DEF new
<1> HIDE DEF new
<1>4. Hears(q, step, new, agents)
  BY DEF new
<1> QED
  BY <1>1, <1>3, <1>4, Heard

LEMMA AskContextInv ==
    ASSUME RoadInv, NEW q \in Inquiry, AskContext(q)
    PROVE  RoadInv'
<1> DEFINE step == IF inquiry[q].tool = "context" THEN "answered" ELSE "runs"
<1>1. PICK verified \in {FALSE, serving.context} : Hears(q, step, Filed("context", Passed(verified)), {})
  BY DEF AskContext
<1>2. inquiry[q].step = "context"
  BY DEF AskContext
<1>3. verified \in BOOLEAN
  BY ProductionTyped DEF RoadInv, RoadDeployment
<1>4. Passed(verified) \in RecordStatus
  BY <1>3, PassedIsStatus
<1>5. inquiry[q].tool = "registry" => step = "runs"
  OBVIOUS
<1>6. step \in CallStep \ {"jobs"}
  BY DEF CallStep
<1>7. RecordsBy("runs") = RecordsBy("context") \cup {"context"} /\ "security" \notin RecordsBy("context")
  BY DEF RecordsBy, Ci, Reviewed
<1> HIDE DEF step
<1>8. inquiry[q].tool = "registry" => /\ RecordsBy(step) = RecordsBy(inquiry[q].step) \cup {"context"}
                                      /\ "security" \notin RecordsBy(inquiry[q].step)
  BY <1>2, <1>5, <1>7
<1>9. OfAgents({})
  BY DEF OfAgents
<1> QED
  BY <1>1, <1>2, <1>4, <1>6, <1>8, <1>9, FilesOneInv

LEMMA AskMadhouseInv ==
    ASSUME RoadInv, NEW q \in Inquiry, AskMadhouse(q)
    PROVE  RoadInv'
<1>1. inquiry[q].step = "madhouse"
  BY DEF AskMadhouse
<1>2. /\ RecordsBy("epistemic") = RecordsBy("madhouse") \cup {"madhouse"}
      /\ RecordsBy("review") = RecordsBy("madhouse")
  BY DEF RecordsBy, Ci, Reviewed
<1>3. CASE Hears(q, "epistemic", Filed("madhouse", "UNVERIFIED"), {})
  <2>1. inquiry[q].tool = "registry" => RecordsBy("epistemic") = RecordsBy(inquiry[q].step) \cup {"madhouse"}
    BY <1>1, <1>2
  <2>2. "epistemic" \in CallStep \ {"jobs"} /\ "UNVERIFIED" \in RecordStatus
    BY DEF CallStep, RecordStatus
  <2> QED
    BY <1>1, <1>3, <2>1, <2>2, FilesOneInv DEF OfAgents
<1>4. CASE Hears(q, "review", <<>>, {})
  <2> DEFINE x == inquiry[q]
             R == Filing(<<>>, x.records)
  <2>1. DOMAIN <<>> = {}
    OBVIOUS
  <2>2. DOMAIN R = DOMAIN x.records /\ \A k \in DOMAIN x.records : R[k] = x.records[k]
    BY <2>1 DEF Filing
  <2>3. RecordsTyped(<<>>) /\ "review" \in CallStep \ {"jobs"}
    BY <2>1 DEF RecordsTyped, CallStep
  <2>4. ASSUME x.tool = "registry"
        PROVE  /\ DOMAIN <<>> \cup DOMAIN x.records = RecordsBy("review")
               /\ RegistryOf(R, x.attested)
               /\ WitnessesOf(R, x.witnesses \cup {}, x.attested)
    <3>1. RegistryStands(x)
      BY <1>1, <2>4, RegistryCall
    <3>2. DOMAIN x.records = RecordsBy("review")
      BY <1>1, <1>2, <3>1 DEF RegistryStands
    <3>3. {"build", "test", "context", "security"} \subseteq DOMAIN x.records /\ "GOVERNANCE" \notin DOMAIN x.records
      BY <3>2 DEF RecordsBy, Ci, Reviewed
    <3> HIDE DEF R
    <3>4. RegistryOf(R, x.attested)
      BY <2>2, <3>1, <3>3 DEF RegistryStands, RegistryOf
    <3>5. x.witnesses \cup {} = x.witnesses
      OBVIOUS
    <3>6. WitnessesOf(R, x.witnesses, x.attested)
      BY <2>2, <3>1, <3>3 DEF RegistryStands, WitnessesOf
    <3> QED
      BY <2>1, <3>2, <3>4, <3>5, <3>6
  <2> HIDE DEF R
  <2>5. x.step # "new"
    BY <1>1
  <2> QED
    BY <1>4, <2>3, <2>4, <2>5, Heard DEF R
<1> QED
  BY <1>3, <1>4 DEF AskMadhouse

LEMMA AskReviewInv ==
    ASSUME RoadInv, NEW q \in Inquiry, AskReview(q)
    PROVE  RoadInv'
<1>1. inquiry[q].step = "review"
  BY DEF AskReview
<1>2. RecordsBy("epistemic") = RecordsBy("review") \cup {"madhouse"}
  BY DEF RecordsBy, Ci, Reviewed
<1>3. inquiry[q].tool = "registry" => RecordsBy("epistemic") = RecordsBy(inquiry[q].step) \cup {"madhouse"}
  BY <1>1, <1>2
<1>4. "epistemic" \in CallStep \ {"jobs"} /\ RecordStatus = {"PASS", "BLOCKED", "UNVERIFIED"}
  BY DEF CallStep, RecordStatus
<1>5. OfAgents(Witness("agent", serving.commit)) /\ OfAgents({})
  BY DEF Witness, OfAgents
<1>6. \/ Hears(q, "epistemic", Filed("madhouse", "UNVERIFIED"), {})
      \/ Hears(q, "epistemic", Filed("madhouse", "BLOCKED"), {})
      \/ Hears(q, "epistemic", Filed("madhouse", "PASS"), Witness("agent", serving.commit))
  BY DEF AskReview
<1>7. PICK agents, status : /\ status \in RecordStatus /\ OfAgents(agents)
                            /\ Hears(q, "epistemic", Filed("madhouse", status), agents)
  BY <1>4, <1>5, <1>6
<1> QED
  BY <1>1, <1>3, <1>4, <1>7, FilesOneInv

LEMMA AskEpistemicInv ==
    ASSUME RoadInv, NEW q \in Inquiry, AskEpistemic(q)
    PROVE  RoadInv'
<1>1. inquiry[q].step = "epistemic"
  BY DEF AskEpistemic
<1>2. RecordsBy("gates") = RecordsBy("epistemic") \cup {"epistemic"}
  BY DEF RecordsBy, Ci, Reviewed
<1>3. inquiry[q].tool = "registry" => RecordsBy("gates") = RecordsBy(inquiry[q].step) \cup {"epistemic"}
  BY <1>1, <1>2
<1>4. "gates" \in CallStep \ {"jobs"} /\ RecordStatus = {"PASS", "BLOCKED", "UNVERIFIED"}
  BY DEF CallStep, RecordStatus
<1>5. OfAgents(Witness("agent", serving.commit)) /\ OfAgents({})
  BY DEF Witness, OfAgents
<1>6. \/ Hears(q, "gates", Filed("epistemic", "UNVERIFIED"), {})
      \/ Hears(q, "gates", Filed("epistemic", "PASS"), Witness("agent", serving.commit))
  BY DEF AskEpistemic
<1>7. PICK agents, status : /\ status \in RecordStatus /\ OfAgents(agents)
                            /\ Hears(q, "gates", Filed("epistemic", status), agents)
  BY <1>4, <1>5, <1>6
<1> QED
  BY <1>1, <1>3, <1>4, <1>7, FilesOneInv

LEMMA TestRecordsFacts ==
    ASSUME NEW records, NEW passed \in BOOLEAN
    PROVE  LET tests == TestRecords(records, passed)
           IN /\ DOMAIN tests = Ci /\ RecordsTyped(tests) /\ tests["build"] = tests["test"]
              /\ tests["test"] = "PASS" <=> passed
              /\ tests["security"] = "PASS" => passed /\ records["context"] = "PASS"
<1> DEFINE tests == TestRecords(records, passed)
           context == records["context"] = "PASS"
<1>1. /\ DOMAIN tests = Ci
      /\ tests["test"] = Passed(passed /\ ("test" = "security" => context))
      /\ tests["build"] = Passed(passed /\ ("build" = "security" => context))
      /\ tests["security"] = Passed(passed /\ ("security" = "security" => context))
  BY DEF TestRecords, Ci
<1> HIDE DEF tests, context
<1>2. /\ tests["test"] = (IF passed THEN "PASS" ELSE "UNVERIFIED")
      /\ tests["build"] = (IF passed THEN "PASS" ELSE "UNVERIFIED")
      /\ tests["security"] = (IF passed /\ context THEN "PASS" ELSE "UNVERIFIED")
  BY <1>1 DEF Passed
<1>3. RecordsTyped(tests)
  BY <1>1, <1>2 DEF RecordsTyped, RecordStatus, Ci
<1> QED
  BY <1>1, <1>2, <1>3 DEF tests, context

LEMMA FilesTests ==
    ASSUME NEW x, RegistryStands(x), x.step \in {"runs", "jobs"}, NEW passed \in BOOLEAN
    PROVE  LET R == Filing(TestRecords(x.records, passed), x.records)
               W == x.witnesses \cup Only(passed, "github", x.attested.commit)
           IN RegistryOf(R, x.attested) /\ WitnessesOf(R, W, x.attested)
<1> DEFINE tests == TestRecords(x.records, passed)
           R == Filing(tests, x.records)
           own == Only(passed, "github", x.attested.commit)
           W == x.witnesses \cup own
<1>1. /\ DOMAIN tests = Ci /\ tests["build"] = tests["test"]
      /\ tests["test"] = "PASS" <=> passed
      /\ tests["security"] = "PASS" => passed /\ x.records["context"] = "PASS"
  BY TestRecordsFacts
<1>2. DOMAIN x.records = {"attestation", "context"}
  BY DEF RegistryStands, RecordsBy, Ci, Reviewed
<1>3. WitnessesOf(x.records, x.witnesses, x.attested)
  BY DEF RegistryStands
<1> HIDE DEF tests
<1>4. /\ DOMAIN R = Ci \cup {"attestation", "context"}
      /\ \A k \in Ci : R[k] = tests[k]
      /\ R["context"] = x.records["context"]
  <2>1. /\ DOMAIN R = DOMAIN tests \cup DOMAIN x.records
        /\ \A k \in DOMAIN tests : R[k] = tests[k]
        /\ \A k \in DOMAIN x.records \ DOMAIN tests : R[k] = x.records[k]
    BY FilingFacts
  <2>2. "context" \notin Ci
    BY DEF Ci
  <2> QED
    BY <1>1, <1>2, <2>1, <2>2
<1> HIDE DEF R
<1>5. "GOVERNANCE" \notin DOMAIN R /\ "test" \in DOMAIN R /\ "attestation" \in DOMAIN R
  BY <1>4 DEF Ci
<1>6. R["build"] = R["test"] /\ (R["test"] = "PASS" <=> passed)
      /\ (R["security"] = "PASS" => passed /\ R["context"] = "PASS")
  BY <1>1, <1>4 DEF Ci
<1>7. RegistryOf(R, x.attested)
  BY <1>5, <1>6 DEF RegistryOf
<1>8. own = IF passed THEN {[source |-> "github", commit |-> x.attested.commit]} ELSE {}
  BY DEF Only, Witness
<1>9. \A w \in own : w.source = "github"
  BY <1>8
<1> HIDE DEF own
<1>10. /\ HeardFrom(x.witnesses, "github") = {}
       /\ HeardFrom(x.witnesses, "attestation") = Only(TRUE, "attestation", x.attested.commit)
       /\ HeardFrom(x.witnesses, "volume") = {}
  BY <1>2, <1>3 DEF WitnessesOf, Only
<1>11. /\ HeardFrom(W, "github") = own
       /\ HeardFrom(W, "attestation") = HeardFrom(x.witnesses, "attestation")
       /\ HeardFrom(W, "volume") = HeardFrom(x.witnesses, "volume")
  BY <1>9, <1>10 DEF HeardFrom
<1>12. \A w \in W : w.source \in {"attestation", "github", "agent", "volume"}
  BY <1>3, <1>9 DEF WitnessesOf
<1> HIDE DEF W
<1>13. WitnessesOf(R, W, x.attested)
  BY <1>5, <1>6, <1>10, <1>11, <1>12 DEF WitnessesOf, own, Only
<1> QED
  BY <1>7, <1>13 DEF R, W, tests, own

\* A step in which the evidence of the tests is filed.
LEMMA FilesTestsInv ==
    ASSUME RoadInv, NEW q \in Inquiry, inquiry[q].step \in {"runs", "jobs"}, NEW passed \in BOOLEAN,
           Hears(q, "madhouse", TestRecords(inquiry[q].records, passed),
                 Only(passed, "github", inquiry[q].attested.commit))
    PROVE  RoadInv'
<1> DEFINE x == inquiry[q]
           new == TestRecords(x.records, passed)
           w == Only(passed, "github", x.attested.commit)
<1>1. RecordsTyped(new) /\ DOMAIN new = Ci
  BY TestRecordsFacts
<1>2. x.step # "new" /\ "madhouse" \in CallStep \ {"jobs"}
  BY DEF CallStep
<1>3. ASSUME x.tool = "registry"
      PROVE  /\ DOMAIN new \cup DOMAIN x.records = RecordsBy("madhouse")
             /\ RegistryOf(Filing(new, x.records), x.attested)
             /\ WitnessesOf(Filing(new, x.records), x.witnesses \cup w, x.attested)
  <2>1. RegistryStands(x)
    BY <1>2, <1>3, RegistryCall
  <2>2. DOMAIN x.records = RecordsBy("runs") /\ RecordsBy("madhouse") = RecordsBy("runs") \cup Ci
    BY <2>1 DEF RegistryStands, RecordsBy, Ci, Reviewed
  <2>3. x.step \in {"runs", "jobs"}
    OBVIOUS
  <2> HIDE DEF x
  <2>4. RegistryOf(Filing(new, x.records), x.attested)
        /\ WitnessesOf(Filing(new, x.records), x.witnesses \cup w, x.attested)
    BY <2>1, <2>3, FilesTests
  <2> QED
    BY <1>1, <2>2, <2>4
<1>4. Hears(q, "madhouse", new, w)
  OBVIOUS
<1> HIDE DEF new, w
<1> QED
  BY <1>1, <1>2, <1>3, <1>4, Heard

LEMMA AskRunsInv ==
    ASSUME RoadInv, NEW q \in Inquiry, AskRuns(q)
    PROVE  RoadInv'
<1> DEFINE x == inquiry[q]
<1>1. x.step = "runs"
  BY DEF AskRuns
<1>2. CASE Hears(q, "madhouse", TestRecords(x.records, FALSE), {})
  <2>1. Only(FALSE, "github", x.attested.commit) = {}
    BY DEF Only
  <2> QED
    BY <1>1, <1>2, <2>1, FilesTestsInv
<1>3. ASSUME NEW i \in CanonicalRuns(x.attested.commit),
             inquiry' = [inquiry EXCEPT ![q].step = "jobs", ![q].run = i],
             UNCHANGED <<serving, onVolume, ciRuns>>
      PROVE  RoadInv'
  <2> DEFINE y == [step |-> "jobs", tool |-> x.tool, attested |-> x.attested, run |-> i,
                   records |-> x.records, witnesses |-> x.witnesses]
             y1 == [x EXCEPT !.step = "jobs"]
             y2 == [y1 EXCEPT !.run = i]
             i1 == [inquiry EXCEPT ![q].step = "jobs"]
             i2 == [i1 EXCEPT ![q].run = i]
  <2>1. DOMAIN x = CallFields /\ x = [id \in CallFields |-> x[id]] /\ CallTyped(x)
        /\ inquiry = [r \in Inquiry |-> inquiry[r]]
    BY <1>1 DEF RoadInv, CallStands
  <2>2. inquiry' = i2
    BY <1>3
  <2>3. y2 = y
    <3>1. y2 = [id \in CallFields |-> IF id = "step" THEN "jobs" ELSE IF id = "run" THEN i ELSE x[id]]
      BY <2>1 DEF CallFields
    <3> QED
      BY <3>1 DEF CallFields
  <2>4. inquiry' = [inquiry EXCEPT ![q] = y2]
    <3>1. i1 = [r \in Inquiry |-> IF r = q THEN y1 ELSE inquiry[r]]
      BY <2>1
    <3>2. i2 = [r \in Inquiry |-> IF r = q THEN y2 ELSE inquiry[r]]
      BY <3>1
    <3> QED
      BY <2>1, <2>2, <3>2
  <2>5. i \in DOMAIN ciRuns /\ ciRuns[i].commit = x.attested.commit
    BY DEF CanonicalRuns
  <2>6. i \in 0..MaxRuns
    <3>1. ciRuns \in Seq(CiRunTyped) /\ Len(ciRuns) <= MaxRuns
      BY DEF RoadInv
    <3>2. i \in 1..Len(ciRuns) /\ Len(ciRuns) \in Nat
      BY <2>5, <3>1
    <3> QED
      BY <3>1, <3>2, MaxRunsIsNatural
  <2>7. CallStands(ciRuns, y)
    <3>1. CallTyped(y) /\ RunOfCommit(ciRuns, y)
      BY <2>1, <2>5, <2>6 DEF CallTyped, RunOfCommit, CallStep
    <3>2. DOMAIN y = CallFields /\ y = [id \in CallFields |-> y[id]]
      BY DEF CallFields
    <3>3. ASSUME x.tool = "registry" PROVE RegistryStands(y)
      <4>1. RegistryStands(x)
        BY <1>1, <3>3, RegistryCall
      <4>2. RecordsBy("jobs") = RecordsBy("runs")
        BY DEF RecordsBy, Ci, Reviewed
      <4> QED
        BY <1>1, <4>1, <4>2 DEF RegistryStands
    <3> QED
      BY <3>1, <3>2, <3>3 DEF CallStands
  <2> HIDE DEF y, y2
  <2> QED
    BY <1>3, <2>3, <2>4, <2>7, CallMoves
<1> QED
  BY <1>2, <1>3 DEF AskRuns

LEMMA AskJobsInv ==
    ASSUME RoadInv, NEW q \in Inquiry, AskJobs(q)
    PROVE  RoadInv'
<1> DEFINE x == inquiry[q]
           run == ciRuns[x.run]
<1>1. x.step = "jobs"
  BY DEF AskJobs
<1>2. PICK passed \in {FALSE, run.outcome = "passed"} :
        Hears(q, "madhouse", TestRecords(x.records, passed),
              IF passed THEN Witness("github", run.commit) ELSE {})
  BY DEF AskJobs
<1>3. run.commit = x.attested.commit
  BY <1>1, RegistryCall DEF RunOfCommit
<1>4. passed \in BOOLEAN
  OBVIOUS
<1>5. (IF passed THEN Witness("github", run.commit) ELSE {}) = Only(passed, "github", x.attested.commit)
  BY <1>3 DEF Only
<1> QED
  BY <1>1, <1>2, <1>4, <1>5, FilesTestsInv

\* The gates of a review are filed together, and with the volume's witness if
\* they pass.
LEMMA FilesGates ==
    ASSUME NEW x, RegistryStands(x), x.step = "gates", NEW passes \in BOOLEAN,
           passes => x.attested.commit \in Commit
    PROVE  LET R == Filing([g \in Reviewed |-> IF passes THEN "PASS" ELSE "UNVERIFIED"], x.records)
               W == x.witnesses \cup Only(passes, "volume", x.attested.commit)
           IN RegistryOf(R, x.attested) /\ WitnessesOf(R, W, x.attested)
<1> DEFINE gates == [g \in Reviewed |-> IF passes THEN "PASS" ELSE "UNVERIFIED"]
           R == Filing(gates, x.records)
           own == Only(passes, "volume", x.attested.commit)
           W == x.witnesses \cup own
<1>1. DOMAIN gates = Reviewed /\ \A g \in Reviewed : gates[g] = IF passes THEN "PASS" ELSE "UNVERIFIED"
  OBVIOUS
<1>2. DOMAIN x.records = {"attestation", "context", "test", "build", "security", "madhouse", "epistemic"}
  BY DEF RegistryStands, RecordsBy, Ci
<1>3. WitnessesOf(x.records, x.witnesses, x.attested) /\ RegistryOf(x.records, x.attested)
  BY DEF RegistryStands
<1> HIDE DEF gates
<1>4. /\ DOMAIN R = Reviewed \cup DOMAIN x.records
      /\ \A g \in Reviewed : R[g] = IF passes THEN "PASS" ELSE "UNVERIFIED"
      /\ \A k \in DOMAIN x.records : R[k] = x.records[k]
  <2>1. /\ DOMAIN R = DOMAIN gates \cup DOMAIN x.records
        /\ \A k \in DOMAIN gates : R[k] = gates[k]
        /\ \A k \in DOMAIN x.records \ DOMAIN gates : R[k] = x.records[k]
    BY FilingFacts
  <2>2. \A k \in DOMAIN x.records : k \notin Reviewed
    BY <1>2 DEF Reviewed
  <2> QED
    BY <1>1, <2>1, <2>2
<1> HIDE DEF R
<1>5. "GOVERNANCE" \in Reviewed
  BY DEF Reviewed
<1>6. RegistryOf(R, x.attested)
  BY <1>2, <1>3, <1>4, <1>5 DEF RegistryOf
<1>7. own = IF passes THEN {[source |-> "volume", commit |-> x.attested.commit]} ELSE {}
  BY DEF Only, Witness
<1>8. \A w \in own : w.source = "volume"
  BY <1>7
<1> HIDE DEF own
<1>9. "GOVERNANCE" \notin DOMAIN x.records
  BY <1>2
<1>10. HeardFrom(x.witnesses, "volume") = {}
  BY <1>3, <1>9 DEF WitnessesOf, Only
<1>11. /\ HeardFrom(W, "volume") = own
       /\ HeardFrom(W, "attestation") = HeardFrom(x.witnesses, "attestation")
       /\ HeardFrom(W, "github") = HeardFrom(x.witnesses, "github")
  BY <1>8, <1>10 DEF HeardFrom
<1>12. \A w \in W : w.source \in {"attestation", "github", "agent", "volume"}
  BY <1>3, <1>8 DEF WitnessesOf
<1> HIDE DEF W
<1>13. "attestation" \in DOMAIN R /\ "test" \in DOMAIN R /\ "GOVERNANCE" \in DOMAIN R
       /\ R["test"] = x.records["test"] /\ (R["GOVERNANCE"] = "PASS" <=> passes)
  BY <1>2, <1>4, <1>5
<1>14. WitnessesOf(R, W, x.attested)
  BY <1>2, <1>3, <1>11, <1>12, <1>13 DEF WitnessesOf, own, Only
<1> QED
  BY <1>6, <1>14 DEF R, W, gates, own

LEMMA AskGatesInv ==
    ASSUME RoadInv, NEW q \in Inquiry, AskGates(q)
    PROVE  RoadInv'
<1> DEFINE x == inquiry[q]
           a == x.attested
<1>1. x.step = "gates"
  BY DEF AskGates
<1>2. CallTyped(x)
  BY <1>1, RegistryCall
<1>3. PICK passes \in BOOLEAN :
        /\ passes => a.commit \in Commit
        /\ Hears(q, "answered", [g \in Reviewed |-> IF passes THEN "PASS" ELSE "UNVERIFIED"],
                 Only(passes, "volume", a.commit))
  <2>1. CASE Hears(q, "answered", [g \in Reviewed |-> "UNVERIFIED"], {})
    <3>1. Only(FALSE, "volume", a.commit) = {}
      BY DEF Only
    <3>2. [g \in Reviewed |-> IF FALSE THEN "PASS" ELSE "UNVERIFIED"] = [g \in Reviewed |-> "UNVERIFIED"]
      OBVIOUS
    <3> QED
      BY <2>1, <3>1, <3>2
  <2>2. CASE /\ Reviewable(a)
             /\ \A g \in Reviewed : GateReview(a.commit, x.records)[g]
             /\ Hears(q, "answered", [g \in Reviewed |-> "PASS"], Witness("volume", onVolume.commit))
    <3>1. "GOVERNANCE" \in Reviewed
      BY DEF Reviewed
    <3>2. onVolume.commit = a.commit
      BY <2>2, <3>1 DEF GateReview
    <3>3. a.commit \in Commit
      BY <1>2, <2>2 DEF CallTyped, RoadAttestation, Reviewable, Unnamed
    <3>4. Only(TRUE, "volume", a.commit) = Witness("volume", onVolume.commit)
      BY <3>2 DEF Only
    <3>5. [g \in Reviewed |-> IF TRUE THEN "PASS" ELSE "UNVERIFIED"] = [g \in Reviewed |-> "PASS"]
      OBVIOUS
    <3> QED
      BY <2>2, <3>3, <3>4, <3>5
  <2> QED
    BY <2>1, <2>2 DEF AskGates
<1> DEFINE gates == [g \in Reviewed |-> IF passes THEN "PASS" ELSE "UNVERIFIED"]
           own == Only(passes, "volume", a.commit)
<1>4. RecordsTyped(gates) /\ DOMAIN gates = Reviewed
  BY DEF RecordsTyped, RecordStatus
<1>5. x.step # "new" /\ "answered" \in CallStep \ {"jobs"}
  BY <1>1 DEF CallStep
<1>6. ASSUME x.tool = "registry"
      PROVE  /\ DOMAIN gates \cup DOMAIN x.records = RecordsBy("answered")
             /\ RegistryOf(Filing(gates, x.records), x.attested)
             /\ WitnessesOf(Filing(gates, x.records), x.witnesses \cup own, x.attested)
  <2>1. RegistryStands(x)
    BY <1>5, <1>6, RegistryCall
  <2>2. DOMAIN x.records = RecordsBy("gates") /\ RecordsBy("answered") = RecordsBy("gates") \cup Reviewed
    BY <1>1, <2>1 DEF RegistryStands, RecordsBy, Ci
  <2>3. passes => x.attested.commit \in Commit
    BY <1>3
  <2> HIDE DEF x
  <2>4. RegistryOf(Filing(gates, x.records), x.attested)
        /\ WitnessesOf(Filing(gates, x.records), x.witnesses \cup own, x.attested)
    BY <1>1, <2>1, <2>3, FilesGates
  <2> QED
    BY <1>4, <2>2, <2>4
<1>7. Hears(q, "answered", gates, own)
  BY <1>3
<1> HIDE DEF gates, own
<1> QED
  BY <1>4, <1>5, <1>6, <1>7, Heard

LEMMA RoadStep ==
    ASSUME RoadInv, RoadNext
    PROVE  RoadInv'
BY RedeployInv, CompleteRunInv, RunAgainInv, InquireInv, AskAttestationInv, AskContextInv, AskRunsInv, AskJobsInv,
   AskMadhouseInv, AskReviewInv, AskEpistemicInv, AskGatesInv DEF RoadNext

LEMMA RoadStutter ==
    ASSUME RoadInv, UNCHANGED roadVars
    PROVE  RoadInv'
BY DEF RoadInv, roadVars

-----------------------------------------------------------------------------

\* Every check of a certificate is one of its records; it passes if all of these do.
AllPass(records) ==
    /\ \A id \in {"build", "test", "security", "madhouse", "epistemic", "attestation"} : records[id] = "PASS"
    /\ \A g \in Reviewed : records[g] = "PASS"

LEMMA CheckFacts ==
    ASSUME NEW records
    PROVE  LET checks == CertificationChecks(records)
           IN /\ DOMAIN checks = 1..13
              /\ checks[1] = records["build"] /\ checks[2] = records["test"] /\ checks[3] = records["security"]
              /\ checks[4] = records["madhouse"] /\ checks[5] = records["epistemic"]
              /\ checks[6] = records["GOVERNANCE"] /\ checks[7] = records["PRIVACY"]
              /\ checks[8] = records["PERFORMANCE"] /\ checks[9] = records["RECOVERY"]
              /\ checks[10] = records["MULTI-CLOUD"] /\ checks[11] = records["attestation"]
              /\ checks[12] = records["attestation"]
              /\ checks[13] = IF records["attestation"] = "PASS" THEN "PASS" ELSE "BLOCKED"
<1>1. /\ DOMAIN FinalGate = 1..13
      /\ FinalGate[1] = "BUILD" /\ FinalGate[2] = "TEST" /\ FinalGate[3] = "SECURITY"
      /\ FinalGate[4] = "ADVERSARIAL" /\ FinalGate[5] = "EPISTEMIC" /\ FinalGate[6] = "GOVERNANCE"
      /\ FinalGate[7] = "PRIVACY" /\ FinalGate[8] = "PERFORMANCE" /\ FinalGate[9] = "RECOVERY"
      /\ FinalGate[10] = "MULTI-CLOUD" /\ FinalGate[11] = "ACCEPTANCE" /\ FinalGate[12] = "SIGN"
      /\ FinalGate[13] = "RELEASE"
  BY DEF FinalGate
<1> QED
  BY <1>1 DEF CertificationChecks, Reviewed

LEMMA Agreement ==
    ASSUME NEW records, DOMAIN records = RecordsBy("answered"), RecordsTyped(records),
           records["security"] = "PASS" => records["context"] = "PASS"
    PROVE  LET checks == CertificationChecks(records)
           IN /\ ToolStatus("certify", records) = "PASS" <=> AllPass(records)
              /\ ToolStatus("blocking", records) = "PASS" <=> AllPass(records)
              /\ ToolStatus("evidence", records) = "PASS" <=> AllPass(records)
              /\ PreventedByUpstream(checks, Len(FinalGate)) = {} <=> AllPass(records)
<1> DEFINE checks == CertificationChecks(records)
           bad == {"UNVERIFIED", "BLOCKED"}
<1>1. DOMAIN records = {"build", "test", "security", "madhouse", "epistemic", "attestation", "context"} \cup Reviewed
  BY DEF RecordsBy, Ci
<1>2. \A id \in DOMAIN records : records[id] \in {"PASS", "BLOCKED", "UNVERIFIED"}
  BY DEF RecordsTyped, RecordStatus
<1>3. AllPass(records) <=> \A id \in DOMAIN records : records[id] = "PASS"
  BY <1>1 DEF AllPass
<1>4. AllPass(records) => \A i \in 1..13 : checks[i] = "PASS"
  BY CheckFacts DEF AllPass, Reviewed
<1>5. (\A i \in 1..12 : checks[i] \notin bad) => AllPass(records)
  <2> SUFFICES ASSUME \A i \in 1..12 : checks[i] \notin bad PROVE AllPass(records)
    OBVIOUS
  <2> DEFINE fine(id) == records[id] \notin bad
  <2> HIDE DEF bad
  <2>1. /\ checks[1] \notin bad /\ checks[2] \notin bad /\ checks[3] \notin bad /\ checks[4] \notin bad
        /\ checks[5] \notin bad /\ checks[6] \notin bad /\ checks[7] \notin bad /\ checks[8] \notin bad
        /\ checks[9] \notin bad /\ checks[10] \notin bad /\ checks[11] \notin bad
    OBVIOUS
  <2>2. /\ fine("build") /\ fine("test") /\ fine("security") /\ fine("madhouse") /\ fine("epistemic")
        /\ fine("attestation") /\ \A g \in Reviewed : fine(g)
    BY <2>1, CheckFacts DEF Reviewed
  <2>3. \A id \in DOMAIN records : fine(id) => records[id] = "PASS"
    BY <1>2 DEF bad
  <2> HIDE DEF fine
  <2> QED
    BY <1>1, <2>2, <2>3 DEF AllPass
<1>6. DOMAIN checks = 1..13
  BY CheckFacts
<1> HIDE DEF checks
<1>7. \A statuses : StatusOf(statuses) = "PASS" <=> statuses \subseteq {"PASS"}
  BY DEF StatusOf
<1>8. AllPass(records) => /\ StatusesIn(checks) \subseteq {"PASS"} /\ StatusesIn(checks) \cap bad = {}
  BY <1>4, <1>6 DEF StatusesIn
<1>9. StatusesIn(checks) \subseteq {"PASS"} \/ StatusesIn(checks) \cap bad = {} => AllPass(records)
  <2>1. \A i \in 1..12 : checks[i] \in StatusesIn(checks)
    BY <1>6 DEF StatusesIn
  <2> QED
    BY <1>5, <2>1
<1>10. AllPass(records) <=> StatusesIn(records) \subseteq {"PASS"}
  BY <1>3 DEF StatusesIn
<1>11. Len(FinalGate) = 13
  BY DEF FinalGate
<1>12. PreventedByUpstream(checks, 13) = {} <=> \A i \in 1..12 : checks[i] \notin bad
  <2>1. PreventedByUpstream(checks, 13) = {FinalGate[j] : j \in {k \in 1..12 : checks[k] \in bad}}
    <3>1. 1..(13 - 1) = 1..12
      OBVIOUS
    <3> QED
      BY <3>1 DEF PreventedByUpstream
  <2> HIDE DEF bad
  <2> QED
    BY <2>1
<1>13. ToolStatus("certify", records) = StatusOf(StatusesIn(checks))
       /\ ToolStatus("blocking", records) = (IF StatusesIn(checks) \cap bad = {} THEN "PASS" ELSE "BLOCKED")
       /\ ToolStatus("evidence", records) = StatusOf(StatusesIn(records))
  BY DEF ToolStatus, checks
<1>14. PreventedByUpstream(checks, Len(FinalGate)) = {} <=> AllPass(records)
  BY <1>4, <1>5, <1>11, <1>12
<1> QED
  BY <1>7, <1>8, <1>9, <1>10, <1>13, <1>14 DEF checks

LEMMA RoadFollows ==
    ASSUME RoadInv
    PROVE  RoadTypeOK /\ RoadCertifies
<1>1. \A q \in Inquiry : inquiry[q].step # "new" =>
         CallTyped(inquiry[q]) /\ (inquiry[q].tool = "registry" => RegistryStands(inquiry[q]))
  BY DEF RoadInv, CallStands
<1>2. ASSUME NEW q \in Certificates
      PROVE  LET x == inquiry[q]
             IN /\ DOMAIN x.records = RecordsBy("answered") /\ RecordsTyped(x.records)
                /\ x.records["security"] = "PASS" => x.records["context"] = "PASS"
                /\ RegistryStands(x)
  <2> DEFINE x == inquiry[q]
  <2>1. RegistryStands(x) /\ CallTyped(x) /\ x.step = "answered"
    BY <1>1 DEF Certificates
  <2>2. DOMAIN x.records = RecordsBy("answered")
    BY <2>1 DEF RegistryStands
  <2>3. "security" \in DOMAIN x.records
    BY <2>2 DEF RecordsBy, Ci
  <2> QED
    BY <2>1, <2>2, <2>3 DEF RegistryStands, RegistryOf, CallTyped
<1>3. ToolsAgree
  <2> SUFFICES ASSUME NEW q \in Certificates
               PROVE  LET records == inquiry[q].records
                          checks == CertificationChecks(records)
                          prevented == PreventedByUpstream(checks, Len(FinalGate))
                      IN /\ ToolStatus("blocking", records) = "PASS" <=> ToolStatus("certify", records) = "PASS"
                         /\ ToolStatus("evidence", records) = "PASS" <=> ToolStatus("certify", records) = "PASS"
                         /\ ToolStatus("certify", records) = "PASS" <=> prevented = {}
    BY DEF ToolsAgree
  <2> QED
    BY <1>2, Agreement
<1>4. PassIsOfOneCommit
  <2> SUFFICES ASSUME NEW q \in Certificates, NEW tool \in Certifying,
                      ToolStatus(tool, inquiry[q].records) = "PASS"
               PROVE  \E c \in Commit : WitnessesBut(q, "agent") =
                        (Witness("attestation", c) \cup Witness("github", c)) \cup Witness("volume", c)
    BY DEF PassIsOfOneCommit
  <2> DEFINE x == inquiry[q]
             c == x.attested.commit
  <2>1. AllPass(x.records)
    BY <1>2, Agreement DEF Certifying
  <2>2. x.records["GOVERNANCE"] = "PASS" /\ x.records["test"] = "PASS"
    BY <2>1 DEF AllPass, Reviewed
  <2>3. {"attestation", "test", "GOVERNANCE"} \subseteq DOMAIN x.records
    BY <1>2 DEF RecordsBy, Ci, Reviewed
  <2>4. RegistryOf(x.records, x.attested) /\ WitnessesOf(x.records, x.witnesses, x.attested)
    BY <1>2 DEF RegistryStands
  <2>5. c \in Commit
    BY <2>2, <2>3, <2>4 DEF RegistryOf
  <2>6. /\ HeardFrom(x.witnesses, "attestation") = Witness("attestation", c)
        /\ HeardFrom(x.witnesses, "github") = Witness("github", c)
        /\ HeardFrom(x.witnesses, "volume") = Witness("volume", c)
        /\ \A w \in x.witnesses : w.source \in {"attestation", "github", "agent", "volume"}
    BY <2>2, <2>3, <2>4 DEF WitnessesOf, Only
  <2>7. WitnessesBut(q, "agent") =
          (HeardFrom(x.witnesses, "attestation") \cup HeardFrom(x.witnesses, "github"))
            \cup HeardFrom(x.witnesses, "volume")
    BY <2>6 DEF WitnessesBut, HeardFrom
  <2> QED
    BY <2>5, <2>6, <2>7
<1>5. RoadTypeOK
  <2>1. \A q \in Inquiry : inquiry[q].step # "new" =>
          /\ inquiry[q].tool \in RoadTool /\ inquiry[q].run \in 0..MaxRuns
          /\ StatusesIn(inquiry[q].records) \subseteq {"PASS", "BLOCKED", "UNVERIFIED"}
    BY <1>1 DEF CallTyped, RecordsTyped, RecordStatus, StatusesIn
  <2>2. onVolume.commit \in Commit \cup {Unnamed}
    BY DEF RoadInv, RoadAttestation, Unnamed
  <2> QED
    BY <2>1, <2>2 DEF RoadTypeOK, RoadInv
<1> QED
  BY <1>3, <1>4, <1>5 DEF RoadCertifies

-----------------------------------------------------------------------------
(* Identity: within its bounds. *)

\* The wrong passwords that are counted were tried, not later than now, and the
\* lock lasts no longer than LockTime.
FailuresBounded(s) ==
    /\ failures[s].count <= Len(guesses[s]) /\ Len(guesses[s]) <= MaxGuesses
    /\ failures[s].start <= clock
    /\ failures[s].until <= clock + LockTime

IdentityBounds ==
    /\ setup \in Setups /\ climate \in Climates
    /\ clock <= MaxClock
    /\ Len(invites) <= MaxInvites
    /\ \A s \in Subject : FailuresBounded(s)

LEMMA IdentityNumbers ==
    /\ MaxInvites \in Nat /\ MaxGuesses \in Nat /\ MaxClock \in Nat
    /\ MaxFailures \in Nat /\ LockTime \in Nat
BY IdentityAssumption

LEMMA InitIdentityBounds == IdentityInit => IdentityBounds
BY IdentityNumbers DEF IdentityInit, IdentityBounds, FailuresBounded, Calm

LEMMA FailuresStay ==
    ASSUME IdentityTyped, IdentityBounds, NEW s \in Subject, UNCHANGED <<failures, guesses>>,
           clock' \in Nat, clock <= clock'
    PROVE  FailuresBounded(s)'
<1>1. /\ failures[s].start \in Nat /\ failures[s].until \in Nat /\ clock \in Nat
      /\ FailuresBounded(s)
  BY DEF IdentityTyped, IdentityBounds
<1> QED
  BY <1>1, IdentityNumbers DEF FailuresBounded

LEMMA WrongPasswordBounds ==
    ASSUME IdentityTyped, IdentityBounds, NEW s \in Subject, WrongPassword(s)
    PROVE  IdentityBounds'
<1>1. /\ failures[s] \in [count : Nat, start : Nat, until : Nat] /\ guesses[s] \in Seq(Nat)
      /\ clock \in Nat /\ FailuresBounded(s)
  BY DEF IdentityTyped, IdentityBounds
<1>2. Len(guesses[s]) \in Nat
  BY <1>1
<1>3. /\ CountFailure(s).count <= Len(guesses[s]) + 1
      /\ CountFailure(s).start <= clock
      /\ CountFailure(s).until <= clock + LockTime
  <2>1. /\ failures[s].count \in Nat /\ failures[s].start \in Nat /\ clock \in Nat
        /\ failures[s].count <= Len(guesses[s]) /\ failures[s].start <= clock
    BY <1>1 DEF FailuresBounded
  <2>2. CountFailure(s).count = 1 \/ CountFailure(s).count = failures[s].count + 1
    BY DEF CountFailure
  <2>3. CountFailure(s).start = clock \/ CountFailure(s).start = failures[s].start
    BY DEF CountFailure
  <2>4. CountFailure(s).until = clock + LockTime \/ CountFailure(s).until = 0
    BY DEF CountFailure
  <2>5. CountFailure(s).count <= Len(guesses[s]) + 1
    BY <1>2, <2>1, <2>2
  <2>6. CountFailure(s).start <= clock
    BY <2>1, <2>3
  <2>7. CountFailure(s).until <= clock + LockTime
    BY <2>1, <2>4, IdentityNumbers
  <2> QED
    BY <2>5, <2>6, <2>7
<1>4. Len(Append(guesses[s], clock)) = Len(guesses[s]) + 1 /\ Len(guesses[s]) < MaxGuesses
  BY <1>1 DEF WrongPassword
<1>5. ASSUME NEW u \in Subject PROVE FailuresBounded(u)'
  <2>1. FailuresBounded(u) /\ clock' = clock
    BY DEF IdentityBounds, WrongPassword
  <2>2. CASE u = s
    <3>1. failures'[u] = CountFailure(s) /\ guesses'[u] = Append(guesses[s], clock)
      BY <2>2 DEF WrongPassword, IdentityTyped
    <3>2. Len(guesses'[u]) <= MaxGuesses /\ Len(guesses'[u]) = Len(guesses[s]) + 1
      BY <3>1, <1>4, <1>2, IdentityNumbers
    <3> QED
      BY <2>1, <3>1, <3>2, <1>3 DEF FailuresBounded
  <2>3. CASE u # s
    <3>1. failures'[u] = failures[u] /\ guesses'[u] = guesses[u]
      BY <2>3 DEF WrongPassword, IdentityTyped
    <3> QED
      BY <2>1, <3>1 DEF FailuresBounded
  <2> QED
    BY <2>2, <2>3
<1>6. UNCHANGED <<setup, climate, clock, invites>>
  BY DEF WrongPassword
<1> QED
  BY <1>5, <1>6 DEF IdentityBounds

LEMMA ClearFailuresBounds ==
    ASSUME IdentityTyped, IdentityBounds, NEW s \in Subject, ClearFailures(s),
           UNCHANGED <<setup, climate, clock, invites>>
    PROVE  IdentityBounds'
<1>1. ASSUME NEW u \in Subject PROVE FailuresBounded(u)'
  <2>1. FailuresBounded(u) /\ clock \in Nat
    BY DEF IdentityBounds, IdentityTyped
  <2>2. CASE u = s
    <3>1. failures'[u] = Calm /\ guesses'[u] = <<>>
      BY <2>2 DEF ClearFailures, IdentityTyped
    <3> QED
      BY <2>1, <3>1, IdentityNumbers DEF FailuresBounded, Calm
  <2>3. CASE u # s
    <3>1. failures'[u] = failures[u] /\ guesses'[u] = guesses[u]
      BY <2>3 DEF ClearFailures, IdentityTyped
    <3> QED
      BY <2>1, <3>1 DEF FailuresBounded
  <2> QED
    BY <2>2, <2>3
<1> QED
  BY <1>1 DEF IdentityBounds

\* What leaves the failures alone makes at most one invitation, within the bound.
LEMMA InvitesBounded ==
    ASSUME IdentityTyped, IdentityBounds, UNCHANGED <<setup, climate, failures, guesses>>,
           clock' \in Nat, clock <= clock', clock' <= MaxClock, Len(invites') <= MaxInvites
    PROVE  IdentityBounds'
BY FailuresStay DEF IdentityBounds

LEMMA IdentityBoundsStep ==
    ASSUME IdentityTyped, IdentityBounds, IdentityNext
    PROVE  IdentityBounds'
<1>0. clock \in Nat /\ clock <= clock /\ clock <= MaxClock /\ Len(invites) <= MaxInvites
  BY IdentityNumbers DEF IdentityTyped, IdentityBounds
<1>1. CASE Invite
  <2>1. Len(invites') = Len(invites) + 1 /\ Len(invites) \in Nat /\ Len(invites) < MaxInvites
    BY <1>1 DEF Invite, IdentityTyped
  <2>2. Len(invites') <= MaxInvites
    BY <2>1, IdentityNumbers
  <2> QED
    BY <1>0, <1>1, <2>2, InvitesBounded DEF Invite
<1>2. ASSUME NEW i \in DOMAIN invites, Enroll(i) PROVE IdentityBounds'
  <2>1. Len(invites') = Len(invites)
    BY <1>2 DEF Enroll, IdentityTyped
  <2> QED
    BY <1>0, <1>2, <2>1, InvitesBounded DEF Enroll
<1>3. ASSUME NEW s \in Subject, WrongPassword(s) PROVE IdentityBounds'
  BY <1>3, WrongPasswordBounds
<1>4. ASSUME NEW s \in Subject, SignInInterrupted(s) PROVE IdentityBounds'
  BY <1>4, ClearFailuresBounds DEF SignInInterrupted
<1>5. ASSUME NEW entry \in Registry, NEW s \in Subject, NEW redirect \in Https,
             NEW requested \in SUBSET Scope, SignIn(s, entry, redirect, requested)
      PROVE  IdentityBounds'
  BY <1>5, ClearFailuresBounds DEF SignIn
<1>6. ASSUME NEW entry \in Registry, TokenRequest(entry) PROVE IdentityBounds'
  BY <1>0, <1>6, InvitesBounded DEF TokenRequest, Exchange, Refresh
<1>7. ASSUME NEW entry \in Registry, NEW t \in DOMAIN tokens, Revoke(t, entry) PROVE IdentityBounds'
  BY <1>0, <1>7, InvitesBounded DEF Revoke
<1>8. CASE Lapse
  <2>1. Len(invites') = Len(invites)
    <3>1. CASE UNCHANGED invites
      BY <3>1
    <3>2. ASSUME NEW i \in DOMAIN invites, invites' = [invites EXCEPT ![i].expired = TRUE]
          PROVE  Len(invites') = Len(invites)
      BY <3>2 DEF IdentityTyped
    <3> QED
      BY <1>8, <3>1, <3>2 DEF Lapse
  <2>2. UNCHANGED <<setup, climate, failures, guesses, clock>>
    BY <1>8 DEF Lapse
  <2> QED
    BY <1>0, <2>1, <2>2, InvitesBounded
<1>9. CASE Tick
  <2>1. clock' = clock + 1 /\ clock < MaxClock /\ UNCHANGED <<setup, climate, failures, guesses, invites>>
    BY <1>9 DEF Tick
  <2>2. clock' \in Nat /\ clock <= clock' /\ clock' <= MaxClock
    BY <1>0, <2>1, IdentityNumbers
  <2> QED
    BY <1>0, <2>1, <2>2, InvitesBounded
<1> QED
  BY <1>1, <1>2, <1>3, <1>4, <1>5, <1>6, <1>7, <1>8, <1>9 DEF IdentityNext

LEMMA IdentityBoundsStutter ==
    ASSUME IdentityBounds, UNCHANGED identityVars
    PROVE  IdentityBounds'
<1>1. UNCHANGED <<setup, climate, invites, accounts, codes, tokens, failures, guesses, clock>>
  BY DEF identityVars
<1>2. \A s \in Subject : FailuresBounded(s)' = FailuresBounded(s)
  BY <1>1 DEF FailuresBounded
<1> QED
  BY <1>1, <1>2 DEF IdentityBounds

\* Every account is some invitation's.
LEMMA AccountsBounded ==
    ASSUME IdentityTyped, InvitesStand, IdentityBounds
    PROVE  accounts \in 0..MaxInvites
<1> DEFINE g == [a \in 1..accounts |-> CHOOSE i \in DOMAIN invites : invites[i].account = a]
<1>1. accounts \in Nat /\ DOMAIN invites = 1..Len(invites) /\ Len(invites) \in Nat
  BY DEF IdentityTyped
<1>2. \A a \in 1..accounts : g[a] \in DOMAIN invites /\ invites[g[a]].account = a
  BY DEF InvitesStand
<1>3. g \in Injection(1..accounts, 1..Len(invites))
  <2>1. g \in [1..accounts -> 1..Len(invites)]
    BY <1>1, <1>2
  <2>2. \A a, b \in 1..accounts : g[a] = g[b] => a = b
    BY <1>2
  <2> HIDE DEF g
  <2> QED
    BY <2>1, <2>2 DEF Injection, IsInjective
<1>4. /\ IsFiniteSet(1..accounts) /\ Cardinality(1..accounts) = accounts
      /\ IsFiniteSet(1..Len(invites)) /\ Cardinality(1..Len(invites)) = Len(invites)
  <2>1. \A n \in Nat : IsFiniteSet(1..n) /\ Cardinality(1..n) = n
    <3> TAKE n \in Nat
    <3>1. Cardinality(1..n) = IF 1 > n THEN 0 ELSE n - 1 + 1
      BY FS_Interval
    <3>2. IsFiniteSet(1..n)
      BY FS_Interval
    <3> QED
      BY <3>1, <3>2
  <2> QED
    BY <1>1, <2>1
<1>5. Cardinality(1..accounts) <= Cardinality(1..Len(invites))
  BY <1>3, <1>4, FS_Injection
<1> QED
  BY <1>1, <1>4, <1>5, IdentityNumbers DEF IdentityBounds

LEMMA IdentityTypes ==
    ASSUME IdentityInv, IdentityBounds
    PROVE  IdentityTypeOK
<1>1. accounts \in 0..MaxInvites
  BY AccountsBounded DEF IdentityInv
<1>2. ASSUME NEW i \in DOMAIN invites
      PROVE  invites[i].account \in 0..accounts /\ invites[i].expired \in BOOLEAN
  <2>1. invites[i] \in InviteRow
    BY DEF IdentityInv, IdentityTyped
  <2> QED
    BY <1>1, <2>1 DEF InviteRow, IdentityInv, InvitesStand
<1>3. \A c \in DOMAIN codes : codes[c].account \in 1..accounts
  BY DEF IdentityInv, CodesStand
<1>4. ASSUME NEW t \in DOMAIN tokens PROVE tokens[t].kind \in {"ACCESS", "REFRESH"}
  <2>1. tokens[t] \in TokenRow
    BY DEF IdentityInv, IdentityTyped
  <2> QED
    BY <2>1 DEF TokenRow
<1>5. failures \in [Subject -> [count : 0..MaxGuesses, start : 0..MaxClock, until : 0..MaxClock + LockTime]]
  <2>1. ASSUME NEW s \in Subject
        PROVE  failures[s] \in [count : 0..MaxGuesses, start : 0..MaxClock, until : 0..MaxClock + LockTime]
    <3>1. failures[s] \in [count : Nat, start : Nat, until : Nat] /\ clock \in Nat
      BY DEF IdentityInv, IdentityTyped
    <3>2. guesses[s] \in Seq(Nat)
      BY DEF IdentityInv, IdentityTyped
    <3>3. FailuresBounded(s) /\ clock <= MaxClock /\ Len(guesses[s]) \in Nat
      BY <3>2 DEF IdentityBounds
    <3>4. /\ failures[s].count \in Nat /\ failures[s].start \in Nat /\ failures[s].until \in Nat
          /\ failures[s] = [count |-> failures[s].count, start |-> failures[s].start,
                            until |-> failures[s].until]
      BY <3>1
    <3>5. failures[s].count \in 0..MaxGuesses
      BY <3>3, <3>4, IdentityNumbers DEF FailuresBounded
    <3>6. failures[s].start \in 0..MaxClock
      BY <3>1, <3>3, <3>4, IdentityNumbers DEF FailuresBounded
    <3>7. failures[s].until \in 0..MaxClock + LockTime
      BY <3>1, <3>3, <3>4, IdentityNumbers DEF FailuresBounded
    <3> QED
      BY <3>4, <3>5, <3>6, <3>7
  <2> QED
    BY <2>1 DEF IdentityInv, IdentityTyped
<1> QED
  BY <1>1, <1>2, <1>3, <1>4, <1>5 DEF IdentityTypeOK, IdentityBounds

-----------------------------------------------------------------------------
(* Enforcement: no file is longer than what was appended. *)

\* What a caller has read is no longer than that either, and who has not asked
\* yet asks nothing.
CallerBounded(c) ==
    /\ Len(caller[c].text) <= appended
    /\ AtPhase(c, "new") => caller[c].request = {}

EnforcementBounds ==
    /\ Len(ledger.lines) <= appended
    /\ \A c \in Caller : CallerBounded(c)

LEMMA InitEnforcementBounds == EnforcementInit => EnforcementBounds
<1> SUFFICES ASSUME EnforcementInit PROVE EnforcementBounds
  OBVIOUS
<1>1. Len(<<>>) = 0 /\ appended = 0 /\ ledger.lines = <<>>
  BY DEF EnforcementInit
<1>2. \A c \in Caller : caller[c].text = <<>> /\ caller[c].request = {}
  BY DEF EnforcementInit, Waiting
<1> QED
  BY <1>1, <1>2 DEF EnforcementBounds, CallerBounded

\* A caller changes, to another phase, with a text it had or no text; another
\* does not.
Becomes(c, became) == caller' = [caller EXCEPT ![c] = became]

LEMMA CallerChanges ==
    ASSUME EnforcementTyped, EnforcementBounds, NEW c \in Caller, NEW became, Becomes(c, became),
           became.phase # "new", became.text \in {<<>>, caller[c].text, ledger.lines},
           UNCHANGED <<ledger, appended>>
    PROVE  EnforcementBounds'
<1>1. Len(became.text) <= appended
  <2>1. appended \in Nat /\ Len(<<>>) = 0 /\ Len(caller[c].text) <= appended /\ Len(ledger.lines) <= appended
    BY DEF EnforcementTyped, EnforcementBounds, CallerBounded
  <2>2. CASE became.text = <<>>
    <3>1. 0 <= appended
      BY <2>1
    <3> QED
      BY <2>1, <2>2, <3>1
  <2> QED
    BY <2>1, <2>2
<1>2. ASSUME NEW d \in Caller PROVE CallerBounded(d)'
  <2>1. CASE d = c
    <3>1. caller'[d] = became
      BY <2>1 DEF EnforcementTyped, Becomes
    <3> QED
      BY <1>1, <3>1 DEF CallerBounded, AtPhase
  <2>2. CASE d # c
    <3>1. caller'[d] = caller[d] /\ CallerBounded(d)
      BY <2>2 DEF EnforcementTyped, EnforcementBounds, Becomes
    <3> QED
      BY <3>1 DEF CallerBounded, AtPhase
  <2> QED
    BY <2>1, <2>2
<1> QED
  BY <1>2 DEF EnforcementBounds

LEMMA EnforcementBoundsStep ==
    ASSUME EnforcementTyped, EnforcementBounds, EnforcementNext
    PROVE  EnforcementBounds'
<1>0. /\ appended \in Nat /\ Len(ledger.lines) <= appended
      /\ \A c \in Caller : CallerBounded(c) /\ caller[c] \in CallerRow
  BY DEF EnforcementTyped, EnforcementBounds
<1>1. ASSUME NEW c \in Caller, Arrive(c) PROVE EnforcementBounds'
  <2>1. PICK r \in Asked : caller' = [caller EXCEPT ![c].request = {r},
                                        ![c].phase = IF Refused(r) THEN "refused" ELSE "asked"]
    BY <1>1 DEF Arrive
  <2> DEFINE became == [caller[c] EXCEPT !.request = {r}, !.phase = IF Refused(r) THEN "refused" ELSE "asked"]
  <2>2. Becomes(c, became)
    BY <2>1 DEF Becomes
  <2>3. became.phase # "new" /\ became.text = caller[c].text
    BY <1>0 DEF CallerRow
  <2> HIDE DEF became
  <2> QED
    BY <1>1, <2>2, <2>3, CallerChanges DEF Arrive
<1>2. ASSUME NEW c \in Caller, Authorize(c) PROVE EnforcementBounds'
  <2> DEFINE became == [caller[c] EXCEPT !.phase = "append",
                       !.purpose = IF HasKernel /\ Verifies THEN "authorization" ELSE "closed"]
  <2>2. Becomes(c, became)
    BY <1>2 DEF Becomes, Authorize, ToAppend
  <2>3. became.phase # "new" /\ became.text = caller[c].text
    BY <1>0 DEF CallerRow
  <2> HIDE DEF became
  <2> QED
    BY <1>2, <2>2, <2>3, CallerChanges DEF Authorize
<1>3. ASSUME NEW c \in Caller, ReadRecords(c) PROVE EnforcementBounds'
  <2> DEFINE stopped == [caller[c] EXCEPT !.phase = AppendRaised(caller[c].purpose)]
             became == [caller[c] EXCEPT !.phase = "read", !.length = Len(ledger.lines),
                       !.previous = IF ledger.lines = <<>> THEN 0 ELSE ledger.lines[Len(ledger.lines)].hash]
  <2>2. Becomes(c, stopped) \/ Becomes(c, became)
    BY <1>3 DEF Becomes, ReadRecords, ToPhase
  <2>3. /\ became.phase # "new" /\ became.text = caller[c].text
        /\ stopped.phase # "new" /\ stopped.text = caller[c].text
    BY <1>0 DEF CallerRow, AppendRaised
  <2> HIDE DEF became, stopped
  <2> QED
    BY <1>3, <2>2, <2>3, CallerChanges DEF ReadRecords
<1>4. ASSUME NEW c \in Caller, ReadText(c) PROVE EnforcementBounds'
  <2> DEFINE became == [caller[c] EXCEPT !.phase = "reread", !.text = ledger.lines]
  <2>2. Becomes(c, became)
    BY <1>4 DEF Becomes, ReadText
  <2>3. became.phase # "new" /\ became.text = ledger.lines
    BY <1>0 DEF CallerRow
  <2> HIDE DEF became
  <2> QED
    BY <1>4, <2>2, <2>3, CallerChanges DEF ReadText
<1>5. ASSUME NEW c \in Caller, Truncate(c) PROVE EnforcementBounds'
  <2>1. ledger'.lines = <<>> /\ Len(<<>>) = 0 /\ 0 <= appended /\ UNCHANGED appended
    BY <1>0, <1>5 DEF Truncate
  <2>2. ASSUME NEW d \in Caller PROVE CallerBounded(d)'
    <3>1. CallerBounded(d) /\ caller[d] \in CallerRow
      BY <1>0
    <3>2. caller'[d].text = caller[d].text /\ (caller'[d].phase = "new" => caller'[d] = caller[d])
      BY <1>5, <3>1 DEF Truncate, ToPhase, EnforcementTyped, CallerRow
    <3> QED
      BY <2>1, <3>1, <3>2 DEF CallerBounded, AtPhase
  <2> QED
    BY <2>1, <2>2 DEF EnforcementBounds
<1>6. ASSUME NEW c \in Caller, WriteText(c) PROVE EnforcementBounds'
  <2>1. ledger'.lines = Appended(c) /\ appended' = appended + 1
    BY <1>6 DEF WriteText
  <2>2. caller[c].text \in Seq(Line) /\ Len(caller[c].text) <= appended
    BY <1>0 DEF CallerRow, CallerBounded
  <2>3. Len(Appended(c)) = Len(caller[c].text) + 1 /\ Len(caller[c].text) \in Nat
    BY <2>2 DEF Appended
  <2>4. Len(ledger'.lines) <= appended'
    BY <1>0, <2>1, <2>2, <2>3
  <2>5. ASSUME NEW d \in Caller PROVE CallerBounded(d)'
    <3>1. CallerBounded(d) /\ caller[d] \in CallerRow
      BY <1>0
    <3>2. CASE d = c
      <4>1. caller'[d].text = <<>> /\ caller'[d].phase # "new" /\ Len(<<>>) = 0
        BY <1>6, <3>1, <3>2 DEF WriteText, EnforcementTyped, CallerRow, AppendReturned
      <4> QED
        BY <1>0, <2>1, <4>1 DEF CallerBounded, AtPhase
    <3>3. CASE d # c
      <4>1. caller'[d] = caller[d]
        BY <1>6, <3>3 DEF WriteText, EnforcementTyped
      <4>2. caller[d].text \in Seq(Line)
        BY <3>1 DEF CallerRow
      <4>3. Len(caller[d].text) \in Nat
        BY <4>2
      <4> QED
        BY <1>0, <2>1, <3>1, <4>1, <4>3 DEF CallerBounded, AtPhase
    <3> QED
      BY <3>2, <3>3
  <2> QED
    BY <2>4, <2>5 DEF EnforcementBounds
<1>7. ASSUME NEW c \in Caller, WriteRaises(c) PROVE EnforcementBounds'
  <2> DEFINE became == [caller[c] EXCEPT !.phase = AppendRaised(caller[c].purpose), !.text = <<>>]
  <2>2. Becomes(c, became)
    BY <1>7 DEF Becomes, WriteRaises
  <2>3. became.phase # "new" /\ became.text = <<>>
    BY <1>0 DEF CallerRow, AppendRaised
  <2> HIDE DEF became
  <2> QED
    BY <1>7, <2>2, <2>3, CallerChanges DEF WriteRaises
<1>8. ASSUME NEW c \in Caller, Execute(c) PROVE EnforcementBounds'
  <2> DEFINE finished == [caller[c] EXCEPT !.phase = "done"]
             became == [caller[c] EXCEPT !.phase = "append", !.purpose = "report"]
  <2>2. Becomes(c, finished) \/ Becomes(c, became)
    BY <1>8 DEF Becomes, Execute, ToPhase, ToAppend
  <2>3. /\ became.phase # "new" /\ became.text = caller[c].text
        /\ finished.phase # "new" /\ finished.text = caller[c].text
    BY <1>0 DEF CallerRow
  <2> HIDE DEF became, finished
  <2>4. UNCHANGED <<ledger, appended>>
    BY <1>8 DEF Execute
  <2> QED
    BY <2>2, <2>3, <2>4, CallerChanges
<1>9. ASSUME NEW c \in Caller, SynthesisFails(c) PROVE EnforcementBounds'
  <2> DEFINE became == [caller[c] EXCEPT !.phase = "failed"]
  <2>2. Becomes(c, became)
    BY <1>9 DEF Becomes, SynthesisFails, ToPhase
  <2>3. became.phase # "new" /\ became.text = caller[c].text
    BY <1>0 DEF CallerRow
  <2> HIDE DEF became
  <2> QED
    BY <1>9, <2>2, <2>3, CallerChanges DEF SynthesisFails
<1>10. CASE EnforcementCrash
  <2>1. Len(ledger'.lines) <= appended
    <3>1. CASE UNCHANGED ledger
      BY <1>0, <3>1
    <3>2. ASSUME NEW c \in Caller, NEW torn \in BOOLEAN, ledger' = [lines |-> caller[c].text, torn |-> torn]
          PROVE  Len(ledger'.lines) <= appended
      BY <1>0, <3>2 DEF CallerBounded
    <3> QED
      BY <1>10, <3>1, <3>2 DEF EnforcementCrash
  <2>2. appended' = appended
    BY <1>10 DEF EnforcementCrash
  <2>3. ASSUME NEW d \in Caller PROVE CallerBounded(d)'
    <3>1. CallerBounded(d)
      BY <1>0
    <3>2. CASE caller'[d] = caller[d]
      BY <2>2, <3>1, <3>2 DEF CallerBounded, AtPhase
    <3>3. CASE caller'[d] = [Waiting EXCEPT !.phase = "failed", !.request = caller[d].request]
      <4>1. caller'[d].text = <<>> /\ caller'[d].phase = "failed" /\ Len(<<>>) = 0
        BY <3>3 DEF Waiting
      <4> QED
        BY <1>0, <2>2, <4>1 DEF CallerBounded, AtPhase
    <3> QED
      BY <1>10, <3>2, <3>3 DEF EnforcementCrash
  <2> QED
    BY <2>1, <2>2, <2>3 DEF EnforcementBounds
<1> QED
  BY <1>1, <1>2, <1>3, <1>4, <1>5, <1>6, <1>7, <1>8, <1>9, <1>10 DEF EnforcementNext

LEMMA EnforcementBoundsStutter ==
    ASSUME EnforcementBounds, UNCHANGED enforcementVars
    PROVE  EnforcementBounds'
<1>1. UNCHANGED <<signingKey, mandatory, ledger, caller, appended, committed, executed, disturbed>>
  BY DEF enforcementVars
<1>2. \A c \in Caller : CallerBounded(c)' = CallerBounded(c)
  BY <1>1 DEF CallerBounded, AtPhase
<1> QED
  BY <1>1, <1>2 DEF EnforcementBounds

LEMMA EnforcementTypes ==
    ASSUME EnforcementInv, EnforcementBounds
    PROVE  EnforcementTypeOK
<1>1. ASSUME NEW c \in Caller
      PROVE  /\ caller[c].phase \in Appending \cup
                  {"new", "asked", "append", "authorized", "refused", "failed", "done"}
             /\ caller[c].request \subseteq Asked
             /\ Cardinality(caller[c].request) <= 1
  <2>1. caller[c] \in CallerRow /\ CallerStands(c) /\ CallerBounded(c)
    BY DEF EnforcementInv, EnforcementTyped, EnforcementBounds
  <2>2. Cardinality({}) <= 1 /\ \A r \in Asked : Cardinality({r}) <= 1
    BY FS_EmptySet, FS_Singleton
  <2>3. Cardinality(caller[c].request) <= 1
    BY <2>1, <2>2 DEF CallerStands, CallerBounded, AtPhase
  <2> QED
    BY <2>1, <2>3 DEF CallerRow
<1> QED
  BY <1>1 DEF EnforcementTypeOK, EnforcementInv, EnforcementTyped, EnforcementBounds

-----------------------------------------------------------------------------
(* The integrity chain: no key is audited that was not made. *)

KeysStand ==
    /\ keys \in [kem : Nat, signature : Nat, audited : Nat]
    /\ keys.audited <= keys.kem

LEMMA InitKeys == IntegrityInit => KeysStand
BY DEF IntegrityInit, KeysStand

LEMMA KeysStep ==
    ASSUME KeysStand, IntegrityNext
    PROVE  KeysStand'
<1>1. CASE UNCHANGED keys
  BY <1>1 DEF KeysStand
<1>2. CASE RotateKem
  <2>1. keys' = [keys EXCEPT !.kem = keys.kem + 1]
    BY <1>2 DEF RotateKem
  <2>2. keys'.kem = keys.kem + 1 /\ keys'.audited = keys.audited /\ keys'.signature = keys.signature
    BY <2>1 DEF KeysStand
  <2> QED
    BY <2>1, <2>2 DEF KeysStand
<1>3. CASE RotateSignature
  <2>1. PICK newest \in {keys.audited} \cup {keys.kem} :
          keys' = [keys EXCEPT !.signature = keys.kem, !.audited = newest]
    BY <1>3 DEF RotateSignature
  <2>2. keys' = [kem |-> keys.kem, signature |-> keys.kem, audited |-> newest]
    BY <2>1 DEF KeysStand
  <2> QED
    BY <2>2 DEF KeysStand
<1> QED
  BY <1>1, <1>2, <1>3 DEF IntegrityNext, LookUpOperation, AppendEntry, LoadStore, SaveStore

-----------------------------------------------------------------------------
(* Commercial runtime: within its limits. *)

\* A bucket counts no more requests than some limit lets through, a workflow
\* has no more checkpoints than are explored, and a request whose account has
\* been read has a tier.
BucketsHold ==
    /\ buckets \in [Account \X {"sara", "resume", "ats"} -> Nat]
    /\ \A k \in DOMAIN buckets : \E tier \in DOMAIN Limits : buckets[k] <= Limits[tier]

HeadsBounded == \A k \in Account \X Workflow : heads[k].sequence <= MaxSequence

TierKnown(v) == visit[v].step = "known" => visit[v].tier \in {"free", "core", "pro", "elite"}

CommercialBounds == BucketsHold /\ HeadsBounded /\ \A v \in Visitor : TierKnown(v)

LEMMA LimitFacts ==
    /\ DOMAIN Limits = {"free", "core", "pro", "elite", "resume", "ats"}
    /\ \A tier \in DOMAIN Limits : Limits[tier] \in Nat
    /\ MaxSequence \in Nat
BY CommercialAssumption

LEMMA InitCommercialBounds == CommercialInit => CommercialBounds
<1> SUFFICES ASSUME CommercialInit PROVE CommercialBounds
  OBVIOUS
<1>1. BucketsHold
  <2>1. "free" \in DOMAIN Limits /\ 0 <= Limits["free"]
    BY LimitFacts
  <2>2. buckets = [k \in Account \X {"sara", "resume", "ats"} |-> 0]
    BY DEF CommercialInit
  <2> QED
    BY <2>1, <2>2 DEF BucketsHold
<1>2. HeadsBounded
  BY LimitFacts DEF CommercialInit, HeadsBounded, NoHead
<1>3. \A v \in Visitor : visit[v].step = "new"
  <2>1. PICK mix \in Mixes : visit = [v \in Visitor |-> Idle(mix[v])]
    BY DEF CommercialInit
  <2>2. \A kind : Idle(kind).step = "new"
    BY DEF Idle
  <2> QED
    BY <2>1, <2>2
<1> QED
  BY <1>1, <1>2, <1>3 DEF CommercialBounds, TierKnown

\* A handler goes to a step other than "known", or is known with a tier.
LEMMA TiersStay ==
    ASSUME CommercialTyped, \A v \in Visitor : TierKnown(v), NEW v \in Visitor, NEW became,
           visit' = [visit EXCEPT ![v] = became],
           became.step = "known" => became.tier \in {"free", "core", "pro", "elite"}
    PROVE  \A u \in Visitor : TierKnown(u)'
<1> TAKE u \in Visitor
<1>1. CASE u = v
  <2>1. visit'[u] = became
    BY <1>1 DEF CommercialTyped
  <2> QED
    BY <2>1 DEF TierKnown
<1>2. CASE u # v
  <2>1. visit'[u] = visit[u]
    BY <1>2 DEF CommercialTyped
  <2> QED
    BY <2>1 DEF TierKnown
<1> QED
  BY <1>1, <1>2

\* A handler that ends or goes on without becoming known.
LEMMA TiersGo ==
    ASSUME CommercialTyped, \A v \in Visitor : TierKnown(v), NEW v \in Visitor, NEW step, step # "known",
           VisitGoes(v, step) \/ Ends(v, step)
    PROVE  \A u \in Visitor : TierKnown(u)'
<1>1. visit[v] \in Handler
  BY DEF CommercialTyped
<1>2. CASE VisitGoes(v, step)
  <2> DEFINE became == [visit[v] EXCEPT !.step = step]
  <2>1. visit' = [visit EXCEPT ![v] = became]
    BY <1>2 DEF VisitGoes
  <2>2. became.step = step
    BY <1>1 DEF Handler
  <2> HIDE DEF became
  <2> QED
    BY <2>1, <2>2, TiersStay
<1>3. CASE Ends(v, step)
  <2> DEFINE became == [Idle(visit[v].kind) EXCEPT !.step = step]
  <2>1. visit' = [visit EXCEPT ![v] = became]
    BY <1>3 DEF Ends
  <2>2. became.step = step
    BY DEF Idle
  <2> HIDE DEF became
  <2> QED
    BY <2>1, <2>2, TiersStay
<1> QED
  BY <1>2, <1>3

LEMMA RateLimitBounds ==
    ASSUME CommercialTyped, CommercialBounds, NEW v \in Visitor, VisitStands(v), RateLimit(v)
    PROVE  CommercialBounds'
<1> DEFINE k == <<visit[v].account, ActionOf(visit[v].kind)>>
           kind == visit[v].kind
           tier == IF ActionOf(kind) = "sara" THEN visit[v].tier ELSE ActionOf(kind)
<1>1. visit[v] \in Handler /\ visit[v].step = "known"
  BY DEF CommercialTyped, RateLimit
<1>2. ActionOf(kind) \in {"sara", "resume", "ats"}
  BY DEF ActionOf
<1>3. tier \in DOMAIN Limits /\ LimitOf(v) = Limits[tier] /\ Limits[tier] \in Nat
  <2>1. tier \in DOMAIN Limits
    BY <1>1, <1>2, LimitFacts DEF CommercialBounds, TierKnown
  <2>2. LimitOf(v) = Limits[tier]
    BY DEF LimitOf
  <2> QED
    BY <2>1, <2>2, LimitFacts
<1>4. UNCHANGED heads /\ HeadsBounded'
  BY DEF RateLimit, CommercialBounds, HeadsBounded
<1>5. CASE Ends(v, "refused") /\ UNCHANGED buckets
  <2>1. \A u \in Visitor : TierKnown(u)'
    BY <1>5, TiersGo DEF CommercialBounds
  <2> QED
    BY <1>4, <1>5, <2>1 DEF CommercialBounds, BucketsHold
<1>6. CASE ~(buckets[k] >= LimitOf(v)) /\ VisitGoes(v, "admitted")
           /\ buckets' = [buckets EXCEPT ![k] = buckets[k] + 1]
  <2>1. \A u \in Visitor : TierKnown(u)'
    BY <1>6, TiersGo DEF CommercialBounds
  <2>2. k \in Account \X {"sara", "resume", "ats"}
    <3>1. visit[v].account \in Account
      BY <1>1 DEF VisitStands, KeyOf, Resting
    <3> QED
      BY <1>2, <3>1
  <2> HIDE DEF k, tier
  <2>3. buckets[k] \in Nat /\ DOMAIN buckets = Account \X {"sara", "resume", "ats"}
    BY <2>2 DEF CommercialBounds, BucketsHold
  <2>4. buckets[k] + 1 \in Nat /\ buckets[k] + 1 <= Limits[tier]
    BY <1>3, <1>6, <2>3
  <2>5. \A l \in DOMAIN buckets : buckets'[l] = IF l = k THEN buckets[k] + 1 ELSE buckets[l]
    BY <1>6
  <2>6. DOMAIN buckets' = DOMAIN buckets
    BY <1>6
  <2>7. buckets' \in [Account \X {"sara", "resume", "ats"} -> Nat]
    BY <1>6, <2>2, <2>4 DEF CommercialBounds, BucketsHold
  <2>8. \A l \in DOMAIN buckets' : \E t \in DOMAIN Limits : buckets'[l] <= Limits[t]
    BY <1>3, <2>4, <2>5, <2>6 DEF CommercialBounds, BucketsHold
  <2> QED
    BY <1>4, <2>1, <2>7, <2>8 DEF CommercialBounds, BucketsHold
<1> QED
  BY <1>5, <1>6 DEF RateLimit

LEMMA CommercialBoundsStep ==
    ASSUME CommercialTyped, \A v \in Visitor : VisitStands(v), CommercialBounds, CommercialNext
    PROVE  CommercialBounds'
<1>0. /\ CommercialTyped /\ \A v \in Visitor : TierKnown(v)
      /\ UNCHANGED heads => HeadsBounded'
      /\ UNCHANGED buckets => BucketsHold'
  BY DEF CommercialBounds, HeadsBounded, BucketsHold
<1>1. ASSUME NEW v \in Visitor, Visit(v) PROVE CommercialBounds'
  <2>1. CASE Ends(v, "refused")
    <3>1. \A u \in Visitor : TierKnown(u)'
      BY <1>0, <2>1, TiersGo
    <3> QED
      BY <1>0, <1>1, <3>1 DEF Visit, CommercialBounds
  <2>2. ASSUME NEW a \in Account, NEW w \in Workflow,
               visit' = [visit EXCEPT
                   ![v].step = "known", ![v].account = a, ![v].workflow = w,
                   ![v].tier = EffectiveTier(products[a]),
                   ![v].floor = IF visit[v].kind = "restore" THEN Max({0} \cup Acknowledged(a, w)) ELSE 0]
        PROVE  CommercialBounds'
    <3> DEFINE tier == EffectiveTier(products[a])
               floor == IF visit[v].kind = "restore" THEN Max({0} \cup Acknowledged(a, w)) ELSE 0
    <3>1. tier \in {"free", "core", "pro", "elite"}
      BY TierIsKnown
    <3>2. visit' = [visit EXCEPT ![v].step = "known", ![v].account = a, ![v].workflow = w,
                                 ![v].tier = tier, ![v].floor = floor]
      BY <2>2
    <3> HIDE DEF tier, floor
    <3> DEFINE became == [visit[v] EXCEPT !.step = "known", !.account = a, !.workflow = w,
                                       !.tier = tier, !.floor = floor]
    <3>3. visit' = [visit EXCEPT ![v] = became]
      BY <3>2
    <3>4. became.tier = tier
      BY <1>0 DEF CommercialTyped, Handler
    <3> HIDE DEF became
    <3>5. \A u \in Visitor : TierKnown(u)'
      BY <1>0, <3>1, <3>3, <3>4, TiersStay
    <3> QED
      BY <1>0, <1>1, <3>5 DEF Visit, CommercialBounds
  <2> QED
    BY <1>1, <2>1, <2>2 DEF Visit
<1>2. ASSUME NEW v \in Visitor, RateLimit(v) PROVE CommercialBounds'
  BY <1>2, RateLimitBounds
<1>3. ASSUME NEW v \in Visitor, AllocateSequence(v) PROVE CommercialBounds'
  <2> DEFINE n == heads[KeyOf(v)].sequence + 1
             became == [visit[v] EXCEPT !.step = "allocated", !.head.sequence = n]
  <2>1. /\ n <= MaxSequence /\ heads' = [heads EXCEPT ![KeyOf(v)] = [sequence |-> n, hash |-> NoHash]]
        /\ visit' = [visit EXCEPT ![v] = became] /\ UNCHANGED buckets
    BY <1>3 DEF AllocateSequence
  <2>2. became.step = "allocated"
    BY <1>0 DEF CommercialTyped, Handler
  <2> HIDE DEF became, n
  <2>3. \A u \in Visitor : TierKnown(u)'
    BY <1>0, <2>1, <2>2, TiersStay
  <2>4. HeadsBounded'
    BY <2>1 DEF CommercialBounds, HeadsBounded, CommercialTyped
  <2> QED
    BY <1>0, <2>1, <2>3, <2>4 DEF CommercialBounds
<1>4. ASSUME NEW v \in Visitor, Seal(v) PROVE CommercialBounds'
  <2>1. CASE Ends(v, "refused")
    <3>1. \A u \in Visitor : TierKnown(u)'
      BY <1>0, <2>1, TiersGo
    <3> QED
      BY <1>0, <1>4, <3>1 DEF Seal, CommercialBounds
  <2>2. ASSUME NEW s \in Saved,
               visit' = [visit EXCEPT ![v].step = "sealed", ![v].head.hash = {s}, ![v].until = now + TTL]
        PROVE  CommercialBounds'
    <3> DEFINE became == [visit[v] EXCEPT !.step = "sealed", !.head.hash = {s}, !.until = now + TTL]
    <3>1. visit' = [visit EXCEPT ![v] = became]
      BY <2>2
    <3>2. became.step = "sealed"
      BY <1>0 DEF CommercialTyped, Handler
    <3> HIDE DEF became
    <3>3. \A u \in Visitor : TierKnown(u)'
      BY <1>0, <3>1, <3>2, TiersStay
    <3> QED
      BY <1>0, <1>4, <3>3 DEF Seal, CommercialBounds
  <2> QED
    BY <1>4, <2>1, <2>2 DEF Seal
<1>5. ASSUME NEW v \in Visitor, SetWorkflowHash(v) PROVE CommercialBounds'
  <2>1. \A u \in Visitor : TierKnown(u)'
    BY <1>0, <1>5, TiersGo DEF SetWorkflowHash
  <2>2. HeadsBounded'
    <3>1. CASE UNCHANGED heads
      BY <1>0, <3>1
    <3>2. CASE heads' = [heads EXCEPT ![KeyOf(v)].hash = visit[v].head.hash]
      <4>1. ASSUME NEW k \in Account \X Workflow PROVE heads'[k].sequence = heads[k].sequence
        <5>1. heads[k] \in HeadRow
          BY <1>0 DEF CommercialTyped
        <5>2. CASE k = KeyOf(v)
          BY <3>2, <1>0, <5>1, <5>2 DEF CommercialTyped, HeadRow
        <5>3. CASE k # KeyOf(v)
          BY <3>2, <1>0, <5>3 DEF CommercialTyped
        <5> QED
          BY <5>2, <5>3
      <4> QED
        BY <4>1 DEF CommercialBounds, HeadsBounded
    <3> QED
      BY <1>5, <3>1, <3>2 DEF SetWorkflowHash
  <2> QED
    BY <1>0, <1>5, <2>1, <2>2 DEF SetWorkflowHash, CommercialBounds
<1>6. ASSUME NEW v \in Visitor, HandOut(v) \/ RestoreCheckpoint(v) \/ VerifyCandidate(v)
      PROVE  CommercialBounds'
  <2>1. \E step \in {"done", "refused"} : Ends(v, step)
    BY <1>6 DEF HandOut, RestoreCheckpoint, VerifyCandidate
  <2>2. \A u \in Visitor : TierKnown(u)'
    BY <1>0, <2>1, TiersGo
  <2>3. UNCHANGED <<heads, buckets>>
    BY <1>6 DEF HandOut, RestoreCheckpoint, VerifyCandidate
  <2> QED
    BY <1>0, <2>2, <2>3 DEF CommercialBounds
<1>7. ASSUME NEW v \in Visitor, OpenToken(v) PROVE CommercialBounds'
  <2>1. CASE Ends(v, "refused")
    <3>1. \A u \in Visitor : TierKnown(u)'
      BY <1>0, <2>1, TiersGo
    <3> QED
      BY <1>0, <1>7, <3>1 DEF OpenToken, CommercialBounds
  <2>2. ASSUME NEW token \in sealed, visit' = [visit EXCEPT ![v].step = "opened", ![v].head = token.head]
        PROVE  CommercialBounds'
    <3> DEFINE became == [visit[v] EXCEPT !.step = "opened", !.head = token.head]
    <3>1. visit' = [visit EXCEPT ![v] = became]
      BY <2>2
    <3>2. became.step = "opened"
      BY <1>0 DEF CommercialTyped, Handler
    <3> HIDE DEF became
    <3>3. \A u \in Visitor : TierKnown(u)'
      BY <1>0, <3>1, <3>2, TiersStay
    <3> QED
      BY <1>0, <1>7, <3>3 DEF OpenToken, CommercialBounds
  <2> QED
    BY <1>7, <2>1, <2>2 DEF OpenToken
<1>8. ASSUME NEW v \in Visitor, Generate(v) PROVE CommercialBounds'
  <2>0. UNCHANGED <<heads, buckets>>
    BY <1>8 DEF Generate
  <2>1. CASE Ends(v, "refused")
    <3>1. \A u \in Visitor : TierKnown(u)'
      BY <1>0, <2>1, TiersGo
    <3> QED
      BY <1>0, <2>0, <3>1 DEF CommercialBounds
  <2>2. ASSUME NEW t, NEW stated, NEW next \in {"attacked", "candidate"},
               visit' = [visit EXCEPT ![v].text = t, ![v].claims = stated, ![v].step = next]
        PROVE  CommercialBounds'
    <3> DEFINE became == [visit[v] EXCEPT !.text = t, !.claims = stated, !.step = next]
    <3>1. visit' = [visit EXCEPT ![v] = became]
      BY <2>2
    <3>2. became.step = next
      BY <1>0 DEF CommercialTyped, Handler
    <3> HIDE DEF became
    <3>3. \A u \in Visitor : TierKnown(u)'
      BY <1>0, <3>1, <3>2, TiersStay
    <3> QED
      BY <1>0, <2>0, <3>3 DEF CommercialBounds
  <2>3. ASSUME ~Ends(v, "refused")
        PROVE  \E t, stated : \E next \in {"attacked", "candidate"} :
                   visit' = [visit EXCEPT ![v].text = t, ![v].claims = stated, ![v].step = next]
    <3>1. PICK t \in Text, claimed \in {{}, {TRUE}, {TRUE, FALSE}} :
             visit' = [visit EXCEPT ![v].text = t, ![v].claims = {Stated(f) : f \in claimed},
                   ![v].step = IF visit[v].kind = "defense" THEN "attacked" ELSE "candidate"]
      BY <1>8, <2>3 DEF Generate
    <3>2. PICK next \in {"attacked", "candidate"} :
             next = IF visit[v].kind = "defense" THEN "attacked" ELSE "candidate"
      OBVIOUS
    <3> QED
      BY <3>1, <3>2
  <2> QED
    BY <2>1, <2>2, <2>3
<1>9. ASSUME NEW v \in Visitor, Attack(v) PROVE CommercialBounds'
  <2>0. UNCHANGED <<heads, buckets>>
    BY <1>9 DEF Attack
  <2>1. CASE Ends(v, "refused")
    <3>1. \A u \in Visitor : TierKnown(u)'
      BY <1>0, <2>1, TiersGo
    <3> QED
      BY <1>0, <2>0, <3>1 DEF CommercialBounds
  <2>2. ASSUME NEW reviews, visit' = [visit EXCEPT ![v].reviews = reviews, ![v].step = "candidate"]
        PROVE  CommercialBounds'
    <3> DEFINE became == [visit[v] EXCEPT !.reviews = reviews, !.step = "candidate"]
    <3>1. visit' = [visit EXCEPT ![v] = became]
      BY <2>2
    <3>2. became.step = "candidate"
      BY <1>0 DEF CommercialTyped, Handler
    <3> HIDE DEF became
    <3>3. \A u \in Visitor : TierKnown(u)'
      BY <1>0, <3>1, <3>2, TiersStay
    <3> QED
      BY <1>0, <2>0, <3>3 DEF CommercialBounds
  <2> QED
    BY <1>9, <2>1, <2>2 DEF Attack
<1>10. CASE CommercialMinute
  <2>1. "free" \in DOMAIN Limits /\ 0 <= Limits["free"]
    BY LimitFacts
  <2>2. BucketsHold'
    BY <1>10, <2>1 DEF CommercialMinute, CommercialBounds, BucketsHold
  <2>3. UNCHANGED <<heads, visit>>
    BY <1>10 DEF CommercialMinute
  <2> QED
    BY <1>0, <2>2, <2>3 DEF CommercialBounds, TierKnown
<1>11. CASE ProductsChange
  BY <1>0, <1>11 DEF ProductsChange, CommercialBounds, TierKnown
<1>12. CASE CommercialRestart
  <2>1. ASSUME NEW u \in Visitor PROVE TierKnown(u)'
    <3>1. visit'[u] = IF visit[u].step \in {"new", "done", "refused"} THEN visit[u]
                      ELSE [Idle(visit[u].kind) EXCEPT !.step = "refused"]
      BY <1>12 DEF CommercialRestart
    <3>2. [Idle(visit[u].kind) EXCEPT !.step = "refused"].step = "refused"
      BY DEF Idle
    <3> QED
      BY <3>1, <3>2 DEF TierKnown
  <2> QED
    BY <1>0, <1>12, <2>1 DEF CommercialRestart, CommercialBounds
<1> QED
  BY <1>1, <1>2, <1>3, <1>4, <1>5, <1>6, <1>7, <1>8, <1>9, <1>10, <1>11, <1>12 DEF CommercialNext

LEMMA CommercialBoundsStutter ==
    ASSUME CommercialBounds, UNCHANGED commercialVars
    PROVE  CommercialBounds'
<1>1. UNCHANGED <<products, policy, now, buckets, heads, sealed, visit, audited, answers>>
  BY DEF commercialVars
<1>2. \A v \in Visitor : TierKnown(v)' = TierKnown(v)
  BY <1>1 DEF TierKnown
<1> QED
  BY <1>1, <1>2 DEF CommercialBounds, BucketsHold, HeadsBounded

LEMMA CommercialTypes ==
    ASSUME CommercialInv, CommercialBounds
    PROVE  CommercialTypeOK
<1>1. ASSUME NEW v \in Visitor
      PROVE  visit[v].step \in
               {"new", "known", "admitted", "allocated", "sealed", "hashed", "opened", "attacked", "candidate",
                "refused", "done"}
  <2>1. visit[v] \in Handler
    BY DEF CommercialInv, CommercialTyped
  <2> QED
    BY <2>1 DEF Handler, Resting, Numbered
<1>2. ASSUME NEW k \in DOMAIN heads
      PROVE  heads[k].hash \subseteq Saved /\ heads[k].sequence \in 0..MaxSequence
  <2>1. k \in Account \X Workflow /\ heads[k] \in HeadRow
    BY DEF CommercialInv, CommercialTyped
  <2>2. heads[k].sequence \in Nat /\ heads[k].hash \subseteq Saved
    BY <2>1 DEF HeadRow
  <2>3. heads[k].sequence <= MaxSequence
    BY <2>1 DEF CommercialBounds, HeadsBounded
  <2> QED
    BY <2>2, <2>3, LimitFacts
<1> QED
  BY <1>1, <1>2 DEF CommercialTypeOK, CommercialBounds, BucketsHold

-----------------------------------------------------------------------------
(* In the deployment. *)

ReviewInv ==
    /\ part = "assurance" => AssuranceInv
    /\ part = "fusion" => FusionInv
    /\ part = "awareness" => AwarenessInv
    /\ part = "titan" => TitanInv
    /\ part = "road" => RoadInv

LEMMA InitReview == PlatformInit => ReviewInv
BY InitAssurance, InitFusion, InitAwareness, InitTitan, InitRoad DEF PlatformInit, ReviewInv

LEMMA ReviewStep ==
    ASSUME ReviewInv, [PlatformNext]_platformVars
    PROVE  ReviewInv'
<1>1. CASE AssuranceRuns
  BY <1>1, AssuranceStep DEF AssuranceRuns, ReviewInv
<1>2. CASE FusionRuns
  BY <1>2, FusionStep DEF FusionRuns, ReviewInv
<1>3. CASE AwarenessRuns
  BY <1>3, AwarenessStep DEF AwarenessRuns, ReviewInv
<1>4. CASE TitanRuns
  BY <1>4, TitanStep DEF TitanRuns, ReviewInv
<1>5. CASE RoadRuns
  BY <1>5, RoadStep DEF RoadRuns, ReviewInv
<1>6. CASE \/ IdentityRuns \/ VoiceRuns \/ FailSafeRuns \/ EnforcementRuns \/ CommercialRuns \/ VotesRuns
           \/ IntegrityRuns \/ DevicesRuns \/ TutorRuns \/ CouncilRuns \/ GatewayRuns
  <2>1. part \notin {"assurance", "fusion", "awareness", "titan", "road"} /\ part' = part
    BY <1>6 DEF IdentityRuns, VoiceRuns, FailSafeRuns, EnforcementRuns, CommercialRuns, VotesRuns,
       IntegrityRuns, DevicesRuns, TutorRuns, CouncilRuns, GatewayRuns
  <2> QED
    BY <2>1 DEF ReviewInv
<1>7. CASE UNCHANGED platformVars
  <2>1. UNCHANGED <<part, assuranceVars, fusionVars, awarenessVars, titanVars, roadVars>>
    BY <1>7 DEF platformVars
  <2> QED
    BY <2>1, AssuranceStutter, FusionStutter, AwarenessStutter, TitanStutter, RoadStutter DEF ReviewInv
<1> QED
  BY <1>1, <1>2, <1>3, <1>4, <1>5, <1>6, <1>7 DEF PlatformNext

LEMMA ReviewHolds == PlatformSpec => []ReviewInv
<1>1. ReviewInv /\ [PlatformNext]_platformVars => ReviewInv'
  BY ReviewStep
<1> QED
  BY <1>1, InitReview, PTL DEF PlatformSpec

\* An assurance receipt is believed only where its claims were checked as it
\* says; revocation reaches all that depends on what is revoked, and a failure
\* that comes back blocks the candidate; what was told stored is still there; an
\* execution follows a chain of events that was certified; and a release
\* certificate that passes is of one commit (app/runtime_assurance.py,
\* app/unified_fusion.py, app/module_awareness.py, app/titan.py,
\* road-mcp/src/server.ts).
THEOREM ReviewsStand == PlatformSpec => []ReviewsHold
<1>1. ReviewInv => ReviewsHold
  BY AssuranceFollows, FusionFollows, AwarenessFollows, TitanFollows, RoadFollows DEF ReviewInv, ReviewsHold
<1> QED
  BY <1>1, ReviewHolds, PTL

-----------------------------------------------------------------------------
(* Every part keeps its types. *)

\* What the other invariants of the parts leave open.
BoundsInv ==
    /\ part = "identity" => IdentityBounds
    /\ part = "enforcement" => EnforcementBounds
    /\ part = "commercial" => CommercialBounds
    /\ part = "integrity" => KeysStand

PartsInv == part \in Parts /\ UserInv /\ RuntimeInv /\ SafeguardInv /\ DefenseInv /\ ReviewInv /\ BoundsInv

LEMMA InitParts == PlatformInit => PartsInv
<1>1. PlatformInit => BoundsInv
  BY InitIdentityBounds, InitEnforcementBounds, InitCommercialBounds, InitKeys DEF PlatformInit, BoundsInv
<1>2. PlatformInit => part \in Parts
  BY DEF PlatformInit
<1> QED
  BY <1>1, <1>2, InitUser, InitRuntime, InitSafeguard, InitDefense, InitReview DEF PartsInv

LEMMA BoundsStep ==
    ASSUME UserInv, RuntimeInv, BoundsInv, [PlatformNext]_platformVars
    PROVE  BoundsInv'
<1>1. CASE IdentityRuns
  <2>1. part = "identity" /\ part' = part /\ IdentityNext
    BY <1>1 DEF IdentityRuns
  <2>2. IdentityTyped /\ IdentityBounds
    BY <2>1 DEF UserInv, IdentityInv, BoundsInv
  <2> QED
    BY <2>1, <2>2, IdentityBoundsStep DEF BoundsInv
<1>2. CASE EnforcementRuns
  <2>1. part = "enforcement" /\ part' = part /\ EnforcementNext
    BY <1>2 DEF EnforcementRuns
  <2>2. EnforcementTyped /\ EnforcementBounds
    BY <2>1 DEF RuntimeInv, EnforcementInv, BoundsInv
  <2> QED
    BY <2>1, <2>2, EnforcementBoundsStep DEF BoundsInv
<1>3. CASE CommercialRuns
  <2>1. part = "commercial" /\ part' = part /\ CommercialNext
    BY <1>3 DEF CommercialRuns
  <2>2. CommercialTyped /\ (\A v \in Visitor : VisitStands(v)) /\ CommercialBounds
    BY <2>1 DEF RuntimeInv, CommercialInv, BoundsInv
  <2> QED
    BY <2>1, <2>2, CommercialBoundsStep DEF BoundsInv
<1>4. CASE IntegrityRuns
  BY <1>4, KeysStep DEF IntegrityRuns, BoundsInv
<1>5. CASE \/ VoiceRuns \/ FailSafeRuns \/ VotesRuns \/ DevicesRuns \/ TutorRuns \/ CouncilRuns \/ GatewayRuns
           \/ AssuranceRuns \/ FusionRuns \/ AwarenessRuns \/ TitanRuns \/ RoadRuns
  <2>1. part \notin {"identity", "enforcement", "commercial", "integrity"} /\ part' = part
    BY <1>5 DEF VoiceRuns, FailSafeRuns, VotesRuns, DevicesRuns, TutorRuns, CouncilRuns, GatewayRuns,
       AssuranceRuns, FusionRuns, AwarenessRuns, TitanRuns, RoadRuns
  <2> QED
    BY <2>1 DEF BoundsInv
<1>6. CASE UNCHANGED platformVars
  <2>1. UNCHANGED <<part, identityVars, enforcementVars, commercialVars, integrityVars>>
    BY <1>6 DEF platformVars
  <2>2. UNCHANGED keys
    BY <2>1 DEF integrityVars
  <2>3. KeysStand' = KeysStand
    BY <2>2 DEF KeysStand
  <2> QED
    BY <2>1, <2>3, IdentityBoundsStutter, EnforcementBoundsStutter, CommercialBoundsStutter DEF BoundsInv
<1> QED
  BY <1>1, <1>2, <1>3, <1>4, <1>5, <1>6 DEF PlatformNext

LEMMA PartsStep ==
    ASSUME PartsInv, [PlatformNext]_platformVars
    PROVE  PartsInv'
<1>1. UserInv /\ RuntimeInv /\ SafeguardInv /\ DefenseInv /\ ReviewInv /\ BoundsInv
  BY DEF PartsInv
<1>2. UserInv' /\ RuntimeInv' /\ SafeguardInv' /\ DefenseInv' /\ ReviewInv' /\ BoundsInv'
  BY <1>1, UserStep, RuntimeStep, SafeguardStep, DefenseStep, ReviewStep, BoundsStep
<1>3. UNCHANGED part
  <2>1. CASE UNCHANGED platformVars
    BY <2>1 DEF platformVars
  <2>2. CASE PlatformNext
    BY <2>2 DEF PlatformNext, IdentityRuns, VoiceRuns, FailSafeRuns, EnforcementRuns, CommercialRuns, VotesRuns,
       IntegrityRuns, DevicesRuns, TutorRuns, CouncilRuns, GatewayRuns, AssuranceRuns, FusionRuns,
       AwarenessRuns, TitanRuns, RoadRuns
  <2> QED
    BY <2>1, <2>2
<1> QED
  BY <1>2, <1>3 DEF PartsInv

LEMMA VoiceTypes ==
    ASSUME VoiceInv
    PROVE  VoiceTypeOK
<1>1. VoiceTyped /\ \A j \in VoiceJob : JobStands(j)
  BY DEF VoiceInv
<1>2. ASSUME NEW j \in VoiceJob
      PROVE  handler[j].step \in VoiceStep /\ (row[j] # NoJob => row[j].status \in {"completed", "failed"})
  <2>1. handler[j] \in VoiceHandler /\ row[j] \in VoiceRow \cup {NoJob}
    BY <1>1 DEF VoiceTyped
  <2> QED
    BY <2>1 DEF VoiceHandler, VoiceRow
<1>3. loop # NoJob => handler[loop].step \in Working
  BY <1>1 DEF VoiceTyped, JobStands
<1> QED
  BY <1>1, <1>2, <1>3 DEF VoiceTyped, VoiceTypeOK, Working

LEMMA FailSafeTypes ==
    ASSUME FailSafeInv
    PROVE  FailSafeTypeOK
<1>1. FailSafeTyped
  BY DEF FailSafeInv
<1>2. \A s \in Saver : saver[s].step \in Steps /\ saver[s].number \in 0..named
  BY <1>1 DEF FailSafeTyped, SaverAt
<1> QED
  BY <1>1, <1>2 DEF FailSafeTyped, FailSafeTypeOK

LEMMA IntegrityTypes ==
    ASSUME IntegrityInv, KeysStand
    PROVE  IntegrityTypeOK
BY DEF IntegrityInv, ChainTyped, SealsStand, KeysStand, IntegrityTypeOK

LEMMA TutorTypes ==
    ASSUME TutorInv
    PROVE  TutorTypeOK
<1>1. TutorTyped
  BY DEF TutorInv
<1>2. ASSUME NEW x \in Learner \X Competency
      PROVE  mastery[x].mastery \in 0..100 /\ mastery[x].difficulty \in 0..5
  <2>1. mastery[x] \in MasteryRow
    BY <1>1 DEF TutorTyped
  <2> QED
    BY <2>1 DEF MasteryRow
<1>3. ASSUME NEW n \in Lesson
      PROVE  lesson[n].step \in {"idle", "generate", "verify", "claim", "place", "save", "serve"}
  <2>1. lesson[n] \in {NotRunning} \cup RunningLesson
    BY <1>1 DEF TutorTyped
  <2> QED
    BY <2>1 DEF NotRunning, RunningLesson
<1> QED
  BY <1>1, <1>2, <1>3 DEF TutorTyped, TutorTypeOK

\* Every component's variables keep their types, and within them their bounds:
\* accounts, failures and locks of user_identity.py, checkpoints and rate-limit
\* buckets of sara_public.py, the audit file of evidence/audit.py, and so on for
\* each of the parts.
THEOREM PartsAreTyped == PlatformSpec => []PlatformTypeOK
<1>1. ASSUME PartsInv PROVE PlatformTypeOK
  <2>1. part \in Parts /\ UserInv /\ RuntimeInv /\ SafeguardInv /\ DefenseInv /\ ReviewInv /\ BoundsInv
    BY <1>1 DEF PartsInv
  <2>2. /\ part = "identity" => IdentityTypeOK
        /\ part = "voice" => VoiceTypeOK
    BY <2>1, IdentityTypes, VoiceTypes DEF UserInv, BoundsInv
  <2>3. /\ part = "enforcement" => EnforcementTypeOK
        /\ part = "commercial" => CommercialTypeOK
        /\ part = "tutor" => TutorTypeOK
    BY <2>1, EnforcementTypes, CommercialTypes, TutorTypes DEF RuntimeInv, BoundsInv
  <2>4. /\ part = "failsafe" => FailSafeTypeOK
        /\ part = "gateway" => GatewayTypeOK
        /\ part = "council" => CouncilTypeOK
        /\ part = "devices" => DevicesTypeOK
    BY <2>1, FailSafeTypes
       DEF SafeguardInv, GatewayInv, GatewayTyped, CouncilInv, DevicesInv, DevicesTyped
  <2>5. /\ part = "votes" => VotesTypeOK
        /\ part = "integrity" => IntegrityTypeOK
    BY <2>1, IntegrityTypes DEF DefenseInv, VotesInv, BoundsInv
  <2>6. /\ part = "assurance" => AssuranceTypeOK
        /\ part = "fusion" => FusionTypeOK
        /\ part = "awareness" => AwarenessTypeOK
        /\ part = "titan" => TitanTypeOK
        /\ part = "road" => RoadTypeOK
    BY <2>1, AssuranceFollows, FusionFollows, AwarenessFollows, TitanFollows, RoadFollows DEF ReviewInv
  <2> QED
    BY <2>1, <2>2, <2>3, <2>4, <2>5, <2>6 DEF PlatformTypeOK
<1>2. PartsInv /\ [PlatformNext]_platformVars => PartsInv'
  BY PartsStep
<1> QED
  BY <1>1, <1>2, InitParts, PTL DEF PlatformSpec
=============================================================================
