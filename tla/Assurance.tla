------------------------------- MODULE Assurance -------------------------------
(***************************************************************************)
(* RuntimeAssuranceEngine (app/runtime_assurance.py): the claims of an     *)
(* output are compared with live module truth and with the answers of      *)
(* evidence adapters, and the verdict leaves in a signed receipt.          *)
(*                                                                         *)
(* The engine awaits each adapter, so that a step is one query; several    *)
(* outputs are verified in one event loop.  A claim is what the engine     *)
(* reads off its text: the domains it asks, in order, whether it concerns  *)
(* the deployment, the modules and the counts it names.  A receipt cannot  *)
(* be altered without breaking its signature, so an altered one is left    *)
(* out; a signature is the secret it was made with.                        *)
(***************************************************************************)
EXTENDS Integers, Sequences, TLC

CONSTANTS
    Check,        \* calls of verify_output
    Outputs,      \* [claims, given, truth, failClosed]
    Adapters,     \* domain -> what its service may answer; {} without a URL
    Secrets,      \* SARA_RUNTIME_ASSURANCE_SECRET: "" when it is not set
    ReceiptTTL, LastElapsed,
    MaxRedeploys  \* bound of the model

ASSUME AssuranceAssumption == ReceiptTTL \in Nat /\ LastElapsed \in Nat

VARIABLES
    check,        \* [step, output, at, nth, heard]
    receipts,     \* receipts that were returned
    believed,     \* what verify_receipt said was valid: [receipt, at]
    secret, redeploys, elapsed

assuranceVars == <<check, receipts, believed, secret, redeploys, elapsed>>

AssuranceInit ==
    /\ check = [c \in Check |-> [step |-> "new"]]
    /\ receipts = {} /\ believed = {}
    /\ secret \in Secrets
    /\ redeploys = 0 /\ elapsed = 0

-----------------------------------------------------------------------------
\* _check_live_module_truth and _check_module_counts: what the truth that came
\* with the request says of the modules and of the counts a claim names.
ModuleStatus(claim, m, truth) ==
    IF m \notin DOMAIN truth.modules THEN "unsupported"
    ELSE IF \/ claim.asserts = "live" /\ ~truth.modules[m]
            \/ claim.asserts = "not live" /\ truth.modules[m]
    THEN "contradicted" ELSE "supported"

CountStatuses(claim, k, truth) ==
    {status \in {"supported", "contradicted"} :
       \/ /\ status = "supported"
          /\ k.of = {"inventory"} /\ k.n = truth.historical
       \/ /\ status = "contradicted"
          /\ \/ (k.all \/ "live" \in k.of) /\ truth.live \notin {k.n, -1}
             \/ "enforced" \in k.of /\ truth.enforced \notin {k.n, -1}}

TruthStatuses(claim, truth) ==
    LET said == {ModuleStatus(claim, m, truth) : m \in claim.modules}
                  \cup UNION {CountStatuses(claim, k, truth) : k \in claim.counts}
    IN IF said = {} /\ truth.modules = <<>> /\ truth.live = -1 THEN {"unavailable"} ELSE said

\* _normalize_adapter_result.
Normalized(answer) ==
    IF answer \in {"verified", "supported"} THEN "supported"
    ELSE IF answer \in {"disputed", "block"} THEN "contradicted"
    ELSE IF answer \in {"timeout", "misshapen"} THEN "unavailable"
    ELSE "unsupported"

\* _query_adapter: what came with the request first, then the service.
Answers(output, d) ==
    IF d \in DOMAIN output.given THEN {Normalized(output.given[d])}
    ELSE {"unavailable"} \cup {Normalized(a) : a \in Adapters[d]}

\* Mutant of ClaimStatus: support is looked for first.
ClaimStatusHopeful(claim, heard) ==
    IF claim.asks = <<>> /\ ~claim.stated THEN "uncheckable"
    ELSE IF "supported" \in heard THEN "supported"
    ELSE IF "contradicted" \in heard THEN "contradicted"
    ELSE IF "unavailable" \in heard THEN "unavailable" ELSE "unsupported"

\* _claim_status.
ClaimStatus(claim, heard) ==
    IF claim.asks = <<>> /\ ~claim.stated THEN "uncheckable"
    ELSE IF "contradicted" \in heard THEN "contradicted"
    ELSE IF "supported" \in heard THEN "supported"
    ELSE IF "unavailable" \in heard THEN "unavailable" ELSE "unsupported"

\* _overall_verdict.
OverallVerdict(statuses, failClosed) ==
    IF \/ "contradicted" \in statuses
       \/ failClosed /\ statuses \cap {"unsupported", "unavailable"} # {} THEN "BLOCK"
    ELSE IF "uncheckable" \in statuses THEN "REVIEW" ELSE "ALLOW"

-----------------------------------------------------------------------------
\* What is known of claim i before its adapters are asked.
Claimed(output, i) ==
    IF output.claims[i].stated THEN TruthStatuses(output.claims[i], output.truth) ELSE {}

VerifyOutput(c, output) ==
    /\ check[c].step = "new"
    /\ check' = [check EXCEPT ![c] = [step |-> "ask", output |-> output, at |-> 1, nth |-> 1,
                                      heard |-> [i \in DOMAIN output.claims |-> Claimed(output, i)]]]
    /\ UNCHANGED <<receipts, believed, secret, redeploys, elapsed>>

\* The adapters of a claim are asked one after the other, then the next claim's.
Ask(c) ==
    /\ check[c].step = "ask"
    /\ LET k == check[c]
           claims == k.output.claims
       IN /\ k.at <= Len(claims)
          /\ IF k.nth <= Len(claims[k.at].asks)
             THEN \E answer \in Answers(k.output, claims[k.at].asks[k.nth]) :
                    check' = [check EXCEPT ![c].nth = k.nth + 1, ![c].heard[k.at] = @ \cup {answer}]
             ELSE check' = [check EXCEPT ![c].at = k.at + 1, ![c].nth = 1]
    /\ UNCHANGED <<receipts, believed, secret, redeploys, elapsed>>

Statuses(k) == {ClaimStatus(k.output.claims[i], k.heard[i]) : i \in DOMAIN k.output.claims}

\* _audit_receipt, or no answer at all when the secret is not set.
AuditReceipt(c) ==
    /\ check[c].step = "ask"
    /\ check[c].at > Len(check[c].output.claims)
    /\ LET k == check[c]
       IN /\ check' = [check EXCEPT ![c].step = "done"]
          /\ receipts' = IF secret = "" THEN receipts
               ELSE receipts \cup {[check |-> c, verdict |-> OverallVerdict(Statuses(k), k.output.failClosed),
                                    expires |-> elapsed + ReceiptTTL, signature |-> secret]}
    /\ UNCHANGED <<believed, secret, redeploys, elapsed>>

\* verify_receipt without allow_expired.
VerifyReceipt(r) ==
    /\ secret # "" /\ r.signature = secret
    /\ ~(r.expires < elapsed)
    /\ believed' = believed \cup {[receipt |-> r, at |-> elapsed]}
    /\ UNCHANGED <<check, receipts, secret, redeploys, elapsed>>

\* The service is deployed again, perhaps with another secret: the checks in
\* flight are lost.
RedeployAssurance ==
    /\ redeploys < MaxRedeploys
    /\ redeploys' = redeploys + 1
    /\ secret' \in Secrets
    /\ check' = [c \in Check |-> IF check[c].step = "ask" THEN [step |-> "new"] ELSE check[c]]
    /\ UNCHANGED <<receipts, believed, elapsed>>

Pass ==
    /\ elapsed < LastElapsed
    /\ elapsed' = elapsed + 1
    /\ UNCHANGED <<check, receipts, believed, secret, redeploys>>

AssuranceNext ==
    \/ \E c \in Check :
         (\E output \in Outputs : VerifyOutput(c, output)) \/ Ask(c) \/ AuditReceipt(c)
    \/ \E r \in receipts : VerifyReceipt(r)
    \/ RedeployAssurance \/ Pass

AssuranceSpec == AssuranceInit /\ [][AssuranceNext]_assuranceVars

-----------------------------------------------------------------------------
AssuranceTypeOK ==
    /\ receipts \subseteq [check : Check, verdict : {"ALLOW", "REVIEW", "BLOCK"},
                           expires : 0..(LastElapsed + ReceiptTTL), signature : Secrets]
    /\ believed \subseteq [receipt : receipts, at : 0..LastElapsed]
    /\ secret \in Secrets
    /\ \A c \in Check : check[c].step \in {"new", "ask", "done"}

\* A receipt that is believed while it lasts is of an output that was verified
\* to its end.  What it allows met no contradiction, neither in the live module
\* truth nor from an adapter, and under fail-closed each of its claims has a
\* source that supports it.
ReceiptsAreEarned ==
    \A b \in believed :
      LET k == check[b.receipt.check]
      IN /\ b.at <= b.receipt.expires
         /\ k.step = "done"
         /\ b.receipt.verdict = "ALLOW" =>
              \A i \in DOMAIN k.heard :
                /\ "contradicted" \notin k.heard[i]
                /\ k.output.failClosed => "supported" \in k.heard[i]
=============================================================================
