# Formal models of SARA Omega

TLA+ models of this repository's core, the TLC configurations that check them
on small instances, and TLAPS proofs of the most important results for every
value of the constants. Paths are relative to `src/`.

Run a configuration with `tlc -config MCBilling_safety.cfg MCBilling`, a proof
module with `tlapm BillingProofs.tla`. `PROJECT.json` lists the runs, the
source lines behind every definition, the mutants that show each property can
fail, the hazards and the theorems.

## 1. Inventory

SARA Omega is a FastAPI service around a language model, with a commercial
plane (`sara_public.py`), an enterprise plane (`app/`), an optional unified
runtime (`sara_unified/`) and some sidecars. Most durable state is in SQLite
files, snapshots, audit lines and seals are files of their own, and the
overlays keep documents in Firestore. A process serves `async` handlers on one event loop and plain `def`
routes on a pool of threads, so two requests interleave at every `await`, at
every thread switch, and at every boundary between two transactions. ROAD is a
server of its own, in TypeScript.

| part | state | operations | what is hard | what makes it correct |
|---|---|---|---|---|
| **Billing** `sara_public.py` | `checkout_reservations`, `entitlements`, `stripe_events`; Stripe's sessions and subscriptions | checkout, Stripe webhook, login gate, purges | a checkout is several transactions around a Stripe call; at-least-once, unordered webhooks; reservations lapse; crashes | one introductory licence per account, every licence paid for, events marked only when served, a paid checkout ends in a licence |
| **Commercial runtime** `sara_public.py` | rate buckets, workflow heads with a sequence and a hash, an audit log | rate limit, checkpoint, restore, analysis behind SIOS, defense swarm and ROAD | the head hash is cleared before the checkpoint that sets it is stored | a restore is never older than an acknowledged checkpoint, an answer was verified for its text |
| **Identity and OAuth** `app/user_identity.py`, `app/user_identity_http.py` | users, invitations, lockouts, codes, tokens; the OAuth clients of the environment | invite, enroll, authorize, exchange, refresh, revoke | codes and invitations that must be used once; a wrong password counted in a transaction that may fail; a refresh token presented twice or after a revocation | an invitation makes one account, one line of tokens per code, what resolves leads back to a provisioned credential |
| **Voice accessibility** `app/voice_accessibility*.py`, `sara_unified/voice/jobs.py` | entitlements, preferences, usage windows, leases, jobs, transcripts; the job manager in memory | reserve, run, stop, revoke, purge | revoke, stop and purge on threads between the transactions of the job handler; leases of crashed jobs | quotas hold, only transcripts that were asked for stay |
| **Fail-safe snapshots and SIOS relay** `sara_v32_hardening.py` | chained snapshot files, `latest.json` | checkpoint, retention, relay | crash between two renames or unlinks; several controllers, each with its lock, on one root | nothing is done before its snapshot, the newest snapshots form a chain and all of them do after a checkpoint that returned |
| **Privileged control plane** `app/control_plane.py` | `privileged_mutations`; Railway's deployments | deploy an exact commit | a POST that may be lost, refused or performed unseen; retries; crashes after the reservation | a key is submitted once, its row is true, an answer is the caller's own |
| **Governed stores** `app/ats_intelligence.py`, `app/enterprise_governance.py`, `app/model_sovereignty.py` | an idempotency table and item tables each | vendor changes, employer rules, feature and control records, digest approvals | a SELECT takes no lock; a retry meets the running call; errors between two transactions | one write per key, truthful outcomes, rows that are not replaced |
| **IoT user plane** `app/iot/` | devices, telemetry, replay ids, quarantine, commands | register, ingest, prepare, execute | an adapter that raises, or a crash, after the device may have acted | a command acts once, a message is taken once and within the freshness and skew, a quarantined device is not heard |
| **Verdict ledger** `app/ledger.py`, `app/signing.py` | a hash chain of verdicts with two signatures | append, verify | two ledgers with a lock each on one file; remote signers awaited under the write lock; the head confirmed after the commit | the chain never forks, an answer is true, no lock is left behind |
| **User gateway and memory** `app/user_gateway.py`, `app/memory.py` | threads, a thread index and continuity per user, in the ledger's file | solve, memory_status, memory_recall, memory_forget | a thread is read before the await and written after it; a save is several transactions, any of which may fail | what is stored can be found and forgotten |
| **Enforcement and kernel** `sara_unified/governance/`, `sara_unified/evidence/audit.py` | the audit file | decide, commit, execute | threads that read, truncate and write one file without a lock; a crash between these | no side effect without a decision that allows it and its evidence |
| **Orchestration** `app/orchestrator.py` | the calls under way | one problem through governance, specialists, judge, gates and ledger | a judge that answers no number, or NaN; the order of the gates | no verdict beyond its evidence, nothing blocked is asked |
| **Action gateway and bootstrap** `main.py`, `sara_production_bootstrap.py` | marker and acceptance on the volume, the rate window, AUDIT, voice artifacts | preflight, serve, speak, restore | a boot that fails its preflight and serves; routes that ask no fail-safe; threads without a lock; pruning | acceptance is earned, nothing behind main's fail-safe runs in an unattested process |
| **Assurance, fusion, awareness** `app/runtime_assurance.py`, `app/unified_fusion.py`, `context_dev_resolver.py`, `app/madhouse.py`, `app/epistemic.py`, `app/module_awareness.py` | receipts that clients keep; the caller's causal graph; registry and narrative with an encrypted copy | verify, review, revoke, remember | receipts that outlive what they say; cycles of dependencies; a save that fails after the memory changed | a receipt is earned, a revocation reaches everything, what was told stored is kept |
| **TITAN** `app/titan.py` | event chains and the bus, in memory | emit, publish, audit, gate | events inserted late or before others | an execution follows a certified chain |
| **Raft votes and integrity chain** `quantum_defense_.../01`-`06` | vote documents and replay sets, the integrity chain, a seal file, key versions | vote, sign, seal, rotate | lost answers, restarts, repeated requests | a commit has its quorum, the chain is linked |
| **Tutor** `SARA_AI_..._UNIFIED.py` | questions, the novelty ledger, mastery, answer positions | next question, answer | two processes on one database, a crash between the transactions of a lesson | no question repeats, mastery is earned |
| **ROAD evidence server** `road-mcp/src/`, `app/road_gates.py` | none: each call asks production, GitHub and the agents anew | the registry, the certification | sources that are asked one after the other while they change | a PASS is of one commit |
| Heuristics, science, web pages, tools | none or static | reports | - | not modelled, see section 8 |

Interactions: a checkout and a webhook meet only in the database and in
Stripe; the control plane meets Railway through one POST and one query; ATS,
governance and sovereignty routes share nothing but their protocol (and
`deploy_exact_commit` has no route: it is library code for operators);
orchestration calls the ledger, the gateway calls orchestration and memory;
every gated route writes a fail-safe snapshot first; ROAD reads the
acceptance that the bootstrap wrote; the voice plane relies on identity for
its user.

`PROJECT.json` lists the components in full, and under `hazards` each place
where this code can go wrong in a way a test would hardly reach.

## 2. Modules

| module | stands for |
|---|---|
| `Licences` | the abstract promise of billing: a request asks, is bought, is granted one licence, the licence is followed |
| `Billing` | every billing handler of `sara_public.py`, one action per transaction or Stripe call, with Stripe |
| `MCBilling` | its instances |
| `BillingProofs` | its theorems |
| `OneMutation` | the abstract promise of an idempotency key: one request for good, performed at most once, an outcome that is true |
| `RailwayBridge` | `deploy_exact_commit` and `IdempotencyLedger`, with Railway |
| `MCRailway`, `RailwayProofs` | its instance, its theorems |
| `GovernedStores` | the keyed mutations of the ATS, governance and sovereignty stores |
| `MCStores`, `StoresProofs` | its instances, its theorems |
| `VerdictLedger` | `OmegaVerdictLedger.append` in every ledger of the process |
| `UserMemory` | the user gateway and `ConversationMemory`, composed with `VerdictLedger` |
| `MCMemory`, `MemoryProofs` | its instances, the theorems of both |
| `Identity` | accounts, invitations and OAuth |
| `Voice` | the voice routes, their store and the job manager |
| `FailSafe` | the checkpoint controllers on one directory, and the SIOS relay |
| `Enforcement` | the governance kernel, the audit file and the routes behind them |
| `Commercial` | `sara_public.py` besides billing |
| `Votes`, `IntegrityChain` | the quantum-defense overlays that keep something |
| `Devices` | the IoT user plane |
| `Tutor` | the adaptive tutor with its shared database |
| `Council` | `SaraOmega.solve` |
| `Gateway`, `MCGateway` | bootstrap and action gateway, and their instance |
| `Assurance`, `Fusion`, `Awareness`, `Titan` | the engines of `app/` that review, remember and gate |
| `Road` | the ROAD server, with production, GitHub and the agents it asks |
| `MCPlatform` | the instance of the sixteen modules from `Identity` to `Road` |
| `SafeguardProofs` | theorems about `FailSafe`, `Gateway`, `Council`, `Devices`, `Votes` and `IntegrityChain` in it |
| `RuntimeProofs` | theorems about `Commercial`, `Enforcement` and `Tutor` in it |
| `UserProofs` | theorems about `Identity` and `Voice` in it |
| `ReviewProofs` | theorems about `Assurance`, `Fusion`, `Awareness`, `Titan` and `Road` in it, and the types of all sixteen |

`Billing` implements `Licences`; `UserMemory` implements `LedgerSpec`; `RailwayBridge` and `GovernedStores` both
implement `OneMutation`, each with the revisions of an outcome that its code
allows (`Moves`).

### Billing

`create_checkout` is a plain `def`, so every checkout runs on a thread of its
own. It is a record that walks through `pc` = `history`, `reserve`, `create`,
`attach`, `answer`: one value per point where it lets go of the database or
calls Stripe. `CheckoutReserve` is `Database.reserve_purchase` with its purge,
`CheckoutFail` the `except` clause, which releases by account and product and
not by reservation. `stripe_webhook` is an `async def` whose only `await` is
the request body, and the build is a single process
(`sara_public.py:447-452`): two deliveries never interleave with each other,
so the webhook is one record. It interleaves with checkouts at each of its
steps, `consume`, `grant` or `retrieve` and `set`, `apply`, `mark`. An event
stays deliverable after its delivery: Stripe may repeat it and keeps no order.
Stripe's side (the `Stripe*` actions) is external and nondeterministic: it
completes, settles, expires, updates, deletes and refunds when it likes.

`Env` names what the environment does in an instance (`stripe_error`,
`reservation_lapse`, `delayed_payment`, ...), `MaxCrashes` bounds restarts.
Products are the paid tiers, the ATS licences and among these the 90-day
introductory one, the only one-time payment; amounts, names, URLs and
signatures are left out.

### RailwayBridge

A call walks through `check`, `reserve`, `recheck`, `submit`, `wait`, `mark`;
the row of a key is `None` or `[request, status, result, by]`, where `by` is
an auxiliary component that remembers who inserted it. `sent[c]` is the fate
of the call's POST. `Verdict` says what each class of response lets the code
conclude: a deployment id means COMPLETED, a 4xx or "commit not found" means
REJECTED, and a transport error, a 5xx or an ambiguous body means
SUBMISSION_UNVERIFIED and may come before, after or instead of the
deployment. A deployment is named by the call that caused it.

### GovernedStores

One module for three stores, because they run one protocol with a few
differences, and each difference is a condition on `store`: a retry of a
RESERVED key is replayed as it is by governance and sovereignty, and declared
SUBMISSION_UNVERIFIED by ATS (`Disown`); ATS checks vendor evidence;
governance has no conflict check and replaces the row, the others keep it.
The connections are in Python's legacy transaction mode, where a SELECT takes
no lock, so a SELECT and the write after it are two actions.

### VerdictLedger and UserMemory

Both handlers are coroutines of one process, so the models have an event
loop: `running` is the coroutine that has it, `None` at an await. `main.py`
and `app/user_gateway.py` each build a `SaraOmega`, hence two ledgers in
`Ledger`, each with its own `queue` (the FIFO `_append_lock`) and both writing
through one SQLite write lock (`writer`). `Begin` takes the write lock or, if
the other ledger has it, raises: SQLite would wait on the very loop that the
holder needs, so the busy timeout always runs out. `Commit`, `SignFail` and
`CommitError` are the ends of the await of the signers. `verify_chain` answers
`False` to any error of its own, so `BeginError` and `ConfirmError` each end in
one of two ways: in an exception, or in a verdict that is not durable. A solve
ends in `nondurable` when its append was refused or rolled back and in
`unverified` when a committed record could not be confirmed; the code answers
both with NON_DURABLE_RECORD_FAILED and tells them apart in the text only.

A solve at the user gateway walks through `council` (its thread is read, the
Council and the ledger are awaited), `index`, `evict` and `continuity`, one
value per transaction; a forget through `threads`, `forget index` and `forget
continuity`. A handler with the loop keeps it to its end; only errors and
crashes interrupt it. A hash is named by the call whose record it is, an
exchange by the solve that made it. `LedgerSpec` is `VerdictLedger` alone, where
other handlers merely take the loop and give it back (`Elsewhere`).

### Identity, Voice, Commercial

In `Identity` every handler holds the event loop, so that an OAuth request is
one action, except where a crash or an SQLite error can separate its
transactions: `WrongPassword` counts in a transaction of its own, and
`SignInInterrupted` ends between the password and the code. Rows are numbered
in the order they are made; `setup` is the environment the server was started
with, among it clients that are named twice. `Lapse` and `Tick` are time.

`Voice` has one coroutine, which keeps the loop from the moment it has its
body until it answers (`loop`), and threads that come between any two of its
transactions: `StopJob`, `RevokeEntitlement` and `PurgeUserData` are actions of their own.
`admitted` remembers every admission, so that quotas can be compared with what
was really let in and not with the counter that enforces them.

`Commercial` has a handler per visitor (`visit`), one step per call of a
`Database` method, the model, the swarm or ROAD. A sealed token is the value it
seals and stays usable for ever, as a customer may keep it. A reviewer of the
swarm answers with a `decision` and with findings, of which `blocking` says
whether one is CRITICAL or BLOCKING; `Blocks` reads the findings alone, as the
code does, and a reviewer that breaks down becomes a finding (`Malfunction`).

### FailSafe, Enforcement, Gateway

`FailSafe` follows a saver through the steps of `checkpoint` (read the
last digest, name and write a file, replace the pointer, list what is to be
pruned, unlink one file after the other, newest first, return), each of which
may fail or be the last. `controller` says which savers share a lock; `files`
and `latest` survive a crash, `damaged` remembers that a file was corrupted.

`Enforcement` splits `append` where threads can come between: read the records,
read the text, truncate, write. A crash in the write tears the last line. Its
requests carry what the kernel's table reads, amounts by magnitude.

`Gateway` starts with `run_preflight`: self-test, marker, evidence, in that
order, then the process serves whether or not it succeeded.
Threads of the voice route count, checkpoint, write and prune; a restore
replaces the rate window and `AUDIT` in between. `audits` says of whom `AUDIT`
holds entries: of what main guards by its `FAILSAFE`, or of the owner's routes
that ask none (`OwnerVoice`).

### Votes, IntegrityChain, Devices, Tutor

A Firestore transaction is one step and its answer may be lost, after which
the client sends again; `seen` of a node is forgotten when it restarts. The
seal store of `IntegrityChain` is a file that is loaded and later replaced.
In `Devices` a request is one step, but `ExecuteCommand` may stop after the
device acted; a stamp may lie `Skew` ahead of the clock, the 30 s of
`app/iot/auth.py`. In `Tutor` each transaction of `Store` is a step of a `lesson` or a
`reply`, either of which may die there.

### Council, Assurance, Fusion, Awareness, Titan, Road

`Council` and `Assurance` have a step per await. Texts are the attributes that
the gates read off them. A confidence is a number of hundredths, `NoNumber`, of
which `float()` raises, or `NaN`, which Python's `min` and `max` let through.
`Fusion` collects engines that answer a request from
what they are given; what lasts is the caller's: the graph, the licence and
the findings of earlier candidates. `Awareness` changes its memory first and
then saves it, or fails to. `Titan` keeps everything in memory.

In `Road` a call (`inquiry`) asks for the attestation, the Context.dev status,
the CI runs, their jobs, the Madhouse agent twice, the epistemic agent and the
gate review; between two requests `Redeploy` replaces the deployment, and CI
completes or repeats a run. `witnesses` remembers of which commit each source
really spoke.

### MCPlatform

The sixteen modules share no variable and do not call one another through
anything that they keep: where the code of one calls another (a solve, a
snapshot, a SIOS answer), the call is its outcomes. Hence every behaviour of
all of them is an interleaving of behaviours of each, and a state predicate of
one holds in the whole if it holds in it alone. `MCPlatform` therefore lets
`Init` choose the `part` that runs and leaves the variables of the others
`AtRest`; that is the same as sixteen runs, and it keeps their state spaces
from being multiplied.

## 3. What the runs show

| run | bounds | what it shows |
|---|---|---|
| `billing_safety` | 1 account, 2 checkouts, every failure, 1 crash | `TypeOK`; `OneIntroLicence`; `EntitlementBacked`; `MarkedMeansGranted`; `RunningCheckoutOwnsReservation`; refinement of `Licences` (`KeepsPromise`) |
| `billing_live` | 1 account, 2 checkouts, refunds and subscription changes, no failure | `NoStrandedPayment`: a payable session keeps the reservation its event will need; `CompletedIsGranted`: a completed and paid checkout ends in a licence |
| `billing_tiers` | 2 checkouts, 2 tiers, nothing fails | *violated*: `OnePaidTier` |
| `billing_intro` | 2 checkouts, nothing fails | *violated*: `OneIntroPurchase` |
| `railway_safety` | 3 calls, 2 keys, 2 commits, 2 outsiders, every failure, 1 restart | `OneSubmission`, `RecordIsTrue`, `AnswerIsMine`, `OutcomeIsFinal`, refinement of `OneMutation` |
| `stores_safety` | 3 calls, 3 stores, 2 keys, 1 item, 3 bodies, SQLite errors, 1 restart | `OneWritePerKey`, `OutcomeIsTrue`, `ReplayIsMine`, `FirstRowStays`, `RecordedIsFinal`, refinement of `OneMutation` |
| `stores_terminal` | 2 calls, 1 key | *violated*: `UnverifiedIsTerminal` |
| `memory_safety` | 1 user, 2 sessions, an index of 1, 2 solves and 2 forgets, 1 solve of the other ledger, signer failures, SQLite errors, 1 restart | `NoFork`, `AnswerIsTrue`, `HoldersAreAlive`; `IndexNamesAll`; `ForgetErases`; `UserMemory` implements `LedgerSpec` |
| `memory_forgotten` | the same, without SQLite errors and restarts | *violated*: `ForgottenStaysForgotten` |
| `memory_serialize` | the same, without SQLite errors and restarts | *violated*: `AppendsSerialize` |
| `platform_safety` | see below | the types of the sixteen components and one property of each group, below |
| `gateway_attested` | 3 boots of 2 deployments | *violated*: `AttestationIsLive` |

`platform_safety` checks, by component:

| property | bounds | what it says |
|---|---|---|
| `IdentityHolds` | 1 invitation, 6 tokens, 6 guesses, a clock of 4 | a code has at most one live refresh token, for its own account, client and scope; what resolves leads back to one invitation and a provisioned credential; at most 2 * `MaxFailures` - 2 guesses in a window |
| `VoiceHolds` | 1 user, 2 jobs, 2 minutes, crashes, errors, lapses | no minute and no day admits more than its limits, and a lease belongs to a job that runs or could not release it; only wanted transcripts of finished jobs are kept, none from before a purge |
| `FailSafeHolds` | 2 savers with one controller or two, 4 names, retention of 2, crash, error, damage | what is done was covered by its own acknowledged snapshot and has the evidence its authority needs; while one controller writes the newest snapshots form one chain, wherever a checkpoint was cut off, and the whole directory verifies when the newest is acknowledged |
| `EnforcementHolds` | 2 callers, crash, error | what is done has its decision, approval, insurance and provenance; the chain holds all of it as long as no append overlapped or was cut off |
| `CommercialHolds` | 3 visitors in 3 mixes, 1 workflow, sequences to 2, crash, redeploy | a restore is never older than what was acknowledged before it; an answer was verified for this text and build, and no reviewer of its defense broke down or found anything CRITICAL or BLOCKING |
| `DefenseHolds` | 2 nodes, 3 ballots, 2 operations, 2 seals, restarts, lost answers | whoever was told of a commit was told of the one vote of a quorum; the integrity chain is gapless, accepted operations and seals stand |
| `DevicesHold` | 1 device, 2 messages, 1 command, 4 minutes | a command acts at most once and a message is taken once, outside a quarantine, at most the freshness old and the skew ahead |
| `TutorHolds` | 2 lessons, 2 replies, 3 items of which two resemble each other | no two claimed questions share what the ledger protects; mastery counts each question once; positions balance |
| `CouncilHolds` | 1 solve, every problem and candidate of the instance | a verdict stays under the ceilings of its evidence, the caps of 0.2 of the truth gate, of the IoT gate (but for NaN) and of the fallback, and was corrected at most once; what is blocked is not asked |
| `GatewayStands` | 2 threads, 2 boots, crash, error, restore | acceptance needs two boots with their self-test; nothing behind main's fail-safe runs in an unattested process; the quota holds but for one request per thread; an answered artifact can be fetched until it expires |
| `ReviewsHold` | 1 output checked, 4 causal nodes with a cycle, 3 candidates, 4 requests and 2 starts, 3 events, 1 inquiry with 1 redeployment and 2 CI runs | a believed receipt is earned; revocation is closed; a recurring failure blocks; what was told stored is kept; a gate's history stands; a certificate that passes is of one commit and ROAD's tools agree |

Why the bounds are enough to be interesting: every conflict in these
protocols is between two actors about one key, account or item. Two checkouts
meet in every order; two calls contend for a key while a third replays, or
uses another key on the same item or service; one restart is enough to leave
each intermediate state behind, and the actors that have not begun by then
are the ones that come back after it. Two commits give two different
requests, three bodies an official one, a conflicting one and one without
official evidence. An index of one session and two sessions make every save
of the other session evict. Calls, keys, commits and official bodies are
interchangeable and reduced by symmetry in safety runs; no liveness property
is checked under symmetry. The systems may stop (all calls answered), so
deadlock is not checked where the cfg says so.

### What the violations say

- `billing_tiers`: the check for an active tier and the reservation are two
  transactions, and a reservation excludes only its own product. Two checkouts
  for different tiers can both be paid and granted, although the handler
  refuses a second tier (`sara_public.py:2417`).
- `billing_intro`: `has_history` is read before the reservation. An account
  can pay for the introductory licence twice; the grant then refuses the
  second licence, so `OneIntroLicence` holds while the money is taken
  (`sara_public.py:163` promises one purchase).
- `stores_terminal`: a concurrent retry declares a running mutation
  SUBMISSION_UNVERIFIED, and the running call overwrites that with ACCEPTED;
  `docs/ATS_INTELLIGENCE.md:16` calls that status terminal. The reverse also
  happens: the retry's UPDATE, decided on an older SELECT, turns ACCEPTED into
  SUBMISSION_UNVERIFIED.
- `memory_forgotten`: a solve saves the history it read before the await. A
  `memory_forget` that was answered meanwhile is undone, although the design
  says that it deletes all records of the user.
- `memory_serialize`: the `_append_lock` serializes the appends of one ledger,
  but there are two. The second ledger's BEGIN IMMEDIATE stops the event loop
  for the busy timeout and its verdict is lost to an exception that `solve`
  does not catch. The chain is safe all the same (`NoFork`).
- `gateway_attested`: a preflight that fails leaves the acceptance of an earlier
  boot on the volume, and the process that serves in spite of it answers with
  it: `main.py:1370` says "Live production attestation reports
  production_accepted=true." of a boot that is not accepted. What main guards
  by its `FAILSAFE` is refused meanwhile; the owner's voice and vision routes
  are not guarded, and the user gateway and the voice router guard themselves.

### Weaker than one might expect

- `NoStrandedPayment` is checked, and proved, without crashes and without the
  four events that break it (Stripe errors, delayed payments, lapses, stalls);
  refunds, subscription changes and lapsed licences are harmless. With `reservation_lapse`
  the reservation may be purged while its Stripe session is still payable,
  since the session's expiry is computed after the reservation's.
- `RunningCheckoutOwnsReservation` is checked without `stall`, a checkout
  that outlives its own reservation, and proved for every environment without
  it; the other safety theorems of billing hold with it as well.
- In `RailwayBridge` a call that dies or fails after its reservation leaves
  the row RESERVED for ever. That blocks the key, and is what makes
  `OneSubmission` hold; nothing in the code settles it.
- `GovernedStores!OutcomeIsTrue` says that the item of an ACCEPTED record is
  stored, not that it is stored with this payload: of two calls that both find
  no conflict, the second's INSERT OR IGNORE is ignored and still ACCEPTED.
- `IndexNamesAll` and `ForgetErases` except the threads of saves that failed
  or died between the thread and the index, or before an eviction (`Stray`):
  these stay stored and no operation of the code finds them.
- Of two solves of one session that overlap, the later save drops the
  exchange of the earlier one; nothing promises otherwise.
- `VoiceHolds`: a job that runs during a purge may store its transcript
  afterwards; only what was answered before the purge is sure to be gone.
- `FailSafeHolds` and `EnforcementHolds` promise a chain only to a directory
  with one controller and to appends that do not overlap. Even with one
  controller a checkpoint that is cut off among its unlinks leaves a gap among
  the old files, since the newest of them goes first; `verify_retained_chain`
  then rejects the directory until another checkpoint has returned, as the one
  has that a preflight makes before it verifies. The code builds
  several controllers, and has no lock around the audit file; what is then
  left is that nothing is done without its snapshot, or its evidence.
- `AnswerIsTrue` lets a committed verdict be answered as not durable when a
  read of its confirmation fails; `unverified` is then all that is known of it.
- `CouncilHolds` excepts NaN from the cap of the IoT gate, because the code
  loses the cap there: `min(float(...), 0.2)` keeps a NaN
  (`app/providers/openai_judge.py:59`), and `max(0.0, min(1.0, nan))`
  (`app/orchestrator.py:364`) is 1.0 in Python. Only a ceiling of the evidence
  lowers such an answer; `tests/test_iot_health.py:17` asserts at most 0.2, for
  a number.
- `GatewayStands`: `UnattestedIsInert` is about what main puts behind its
  `FAILSAFE`. The owner's speech and reading routes act in an unattested
  process too and leave their entries in `AUDIT`.
- `GatewayStands` lets the quota be exceeded by one request per thread, as
  `check_rate_limit` counts without a lock.
- `CommercialHolds`: `DefenseSwarm.attack` never reads a reviewer's own
  `decision`. One that answers BLOCKED without a CRITICAL or BLOCKING finding
  lets the answer through, and `AnswersAreVerified` promises no more than that.
- `CommercialHolds`: a checkpoint whose sequence is allocated and never sealed
  leaves the workflow without a head, so that no older token restores either.
- `ReviewsHold`, of ROAD: SIGN and RELEASE rest on evidence that is part of the
  build, so that they pass for any accepted commit, although
  `road-mcp/README.md` speaks of one commit; the epistemic probe says that the
  tests have passed, whatever TEST says; an agent's review names the commit it
  was asked about, so that a later deployment may have made it. The witness of
  the agents is left out of `PassIsOfOneCommit` for this reason.

## 4. Fairness

Only `billing_live` assumes any: weak fairness of the webhook handler, which
runs to its end once started (no crash in that run), and strong fairness of
the delivery of each checkout's completed event, because Stripe redelivers it
until it is answered with a 200 and finds the handler free again and again.
Checkouts, customers, clocks and failures are under no obligation. The other
specifications are safety only: their handlers may stop anywhere, and the
code retries nothing by itself that would have to succeed at last.

## 5. Proofs

Eight modules of proofs. Every safety property of every passing run is proved;
the one property that is not is liveness, named at the end. Each proof has the
same shape: an inductive invariant that TLC has checked on the small instance,
one lemma per action, a lemma for the steps that stutter, and the theorem.

### Billing

`BillingProofs` proves, for every set of accounts, products and requests and
every environment: `TypeCorrect`, `IntroLicenceIsUnique`,
`EntitlementsAreBacked`, `MarkingIsSound` and `PromiseKept` (`Billing`
implements `Licences`). None of the safety properties is inductive. The
invariant `BillingInv` adds that only a session whose URL was handed out is
ever completed (`SessionsServed`), that completed events, payments and
subscriptions belong to completed sessions (`EventsGenuine`), and what the
delivery in progress has established at each of its steps (`WebhookProgress`:
at `grant`, say, the reservation is used up, the product is the introductory
one, and if the session it fetched said paid, it is). Uniqueness of the
introductory licence needs none of the reservations: it rests on
`grant_ats90` looking for an earlier licence in the transaction that inserts.

`CheckoutsOwnReservations` assumes what the run assumes, that no checkout
outlives its own reservation (`"stall" \notin Env`); with that it holds
through Stripe errors, lapses and restarts. Its invariant `OwnedInv` says, for
each checkout, where its row can be while it is under way, that a row names no
session but its holder's, and that an `expired` event means that the session
has expired, so that the release by such an event cannot hit a running
checkout. `PaymentsAreNotStranded` is for the `Smooth` environment of
`billing_live`: no crash, no Stripe error, no delayed payment, no lapse. Then
`PaidInv` holds: rows do not lapse, who has completed has paid, and a
served checkout has its row until it completes.

### The control plane

`RailwayProofs` proves, for every number of calls, keys, commits, outsiders
and restarts: `BridgeTypeCorrect`, `SubmittedOnce`, `RecordsAreTrue`,
`AnswersAreMine`, `OutcomesAreFinal` and `BridgeMutatesOnce` (the bridge
implements `OneMutation`). The inductive invariant `BridgeInv` has five parts
besides the types: a call past its reservation owns a row that is still
RESERVED (`OwnerHolds`), only owners have POSTed (`SenderOwns`), a verdict at
`mark` agrees with the fate of the POST (`VerdictIsKnown`), and rows and
answers agree with the call that made them (`RowIsKnown`, `AnswerIsKnown`).
Everything rests on `Reserve` inserting only where there is no row, the
primary key of `privileged_mutations`. One lemma per shape of assignment
(`CallFrame`, `VerdictFrame`, `AnswerFrame`, `RowFrame`) says what a step
leaves alone; `KnowledgeStep` then goes through the actions one by one.

### The governed stores

`StoresProofs` proves, for every number of calls, keys, items, bodies and
restarts: `StoresTypeCorrect`, `KeysWriteOnce`, `OutcomesAreTrue`,
`ReplaysAreMine`, the action properties `FirstRowsStay` and `RecordsAreFinal`,
and `StoresImplementMutation` (the stores implement `OneMutation`). `StoresInv`
says that the call that inserted a key's record is the only one past the
INSERT (`OwnerHolds`), that its record is RESERVED or was disowned by a retry in
the ATS store, and that what it is about to record is what it did
(`ActiveIsOpen`), that a write is followed by nothing but the record of the
outcome (`WriterIsPast`), and that a retry about to disown saw the record it
disowns (`DisownerFound`).

### Ledger and memory

`MemoryProofs` proves, of `LedgerSpec`, for every number of calls, ledgers, coroutines and
restarts: `LedgerTypeCorrect`, `ChainNeverForks`, `VerdictsAreTrue` and
`LocksAreFreed`. Its invariant `LedgerInv` says that the append that signs is
the one with the write lock and that the head it read is still the head
(`LockInv`), that a record to be confirmed is the head and its append has the
loop (`ConfirmInv`), that only appends that committed have a record
(`RecordInv`), and that a queue holds live appends of its own ledger, once
each, and only the first is past `queued` (`QueueInv`). `EndInv` treats every
way an append can end at once. It then proves `GatewayUsesLedger`:
`UserMemory` implements `LedgerSpec`, because a solve saves only after the
ledger has answered it (`SolveInv`) and its last save is the ledger's
`Return`; so the three results hold of the composed system as well
(`GatewayNeverForks`, `GatewayVerdictsAreTrue`, `GatewayLocksAreFreed`).
It also proves `MemoryTypeCorrect`, `IndexFindsThreads` and `ForgetsErase`, for
every number of sessions, requests and errors and every bound of the index. The
first two are not inductive, because a save is several transactions and a
forget works off a list that it read earlier. `MemoryInv` adds that who has the
loop is an open request (`RunnerIsOpen`), and that a thread outside the index
is one of a save that failed or of the one that has the loop, and that a forget
under way still has on its list every thread it must delete
(`ThreadsAreFound`).

### The platform

The four modules below prove, of `PlatformSpec`, every invariant that
`platform_safety` checks. `PlatformSpec` runs one of the sixteen components and
leaves the others at rest, and each invariant is of the form
`part = "..." => ...`, so a proof about a component uses the assumptions and the
invariant of that component alone. `UserProofs` and `RuntimeProofs` extend
`SafeguardProofs`, and `ReviewProofs` extends them both, because the types of
the whole platform rest on the invariants of all its parts.

`SafeguardProofs`:

- `SnapshotsCoverEffects`. `FailSafeInv` says that a controller is locked for
  one handler while it writes (`Serialised`), that a name without a file has
  `MaxSnapshots` newer names (`NamesStand`), that an acknowledgement
  precedes what it covers (`SavedIsKept`), that every file continues an earlier
  one (`Continues`), and that, where one controller writes and nothing is
  damaged, each continues the one named right before it, what was read under the
  lock is still so when file and pointer are written, and a file beyond the
  newest `MaxSnapshots` is listed or the newest is not acknowledged
  (`OneWrites`). The last is what fails for two controllers, and why the chain
  is promised to one. The four names of the run suffice for the gap of a checkpoint
  that was cut off, and its repair takes a fifth; the theorem has no such bound.
- `GatewayKeepsItsWord`. `GatewayInv` says that until a preflight has passed no
  guarded request has left a trace (`NothingServed`), that a boot that ended its
  self-test has marked itself and what it observed is an earlier boot
  (`BootsAreMarked`), that the requests counted and those about to be counted
  together exceed the limit by less than the number of threads
  (`CountsAreClose`), restores included, and that metadata follow the audio
  (`ArtifactsAreWritten`).
- `CouncilIsBounded`. `CouncilInv` adds that a candidate that governance sees
  has passed the gates, that one the IoT gate rewrote is capped or NaN, and that
  what is blocked reached neither specialist nor judge (`CandidatePassed`).
- `CommandsActOnce`. `DevicesInv` adds that every event that was taken has its
  message id reserved (`EventsAreReserved`) and that the quarantine rows of a
  device are in the order of their times (`RowsAreOrdered`).
- `DefenseStands`. A quorum behind every commit (`VotesInv`) is inductive with
  the types; the integrity chain needs that its entries are as many as the head
  counts, numbered from 1 to the head and each linked to its predecessor
  (`Linked`), and that a seal which overlaps no other has loaded the store as it
  still is (`SealsStand`).

`RuntimeProofs`:

- `AnswersAreEarned`. `CommercialInv` says what a handler under way knows
  (`VisitStands`), that the head of a workflow is not behind anything sealed,
  audited or awaited (`HeadsLead`), that a number is taken by one checkpoint,
  which seals it once (`NumbersAreTaken`), and that what is being restored came
  from a token (`OpenedIsSealed`).
- `EvidenceIsKept`. `EnforcementInv` says that who is authorized has an allowed
  request on record (`CallerStands`) and, while no append has overlapped
  another or been cut off, that one caller at most appends, that it has read
  the whole file and that the file, or from the truncation on the caller's
  text, is a chain (`AppendsAlone`) with the evidence of all that was
  authorized (`Evident`).
- `LessonsAreEarned`. `TutorInv` says that an item which is claimed and not yet
  asked belongs to one lesson (`LessonStands`), that of the attempts at a
  question only the last can be correct, and then the question is answered
  (`AttemptsStand`), and that the mastery row counts the attempted, the at first
  and the in the end correct questions (`MasteryCounts`). `RepeatsClaimed` is
  symmetric because `Resembles` is a relation on unordered pairs.

`UserProofs`:

- `CredentialsAreBacked`. `IdentityInv` says that a token's parent is an
  authorization code or an earlier refresh token that is revoked
  (`TokensDescend`), which makes the ancestor of a token unique
  (`AncestorIsUnique`) and at most one descendant of a code live; that accounts
  come from one invitation each, which has a credential behind it
  (`InvitesStand`); and, where a lock lasts at least a window, how the wrong
  passwords against a user fall into runs (`GuessesCounted`), from which the
  bound of 2 * `MaxFailures` - 2 in any window follows.
- `VoiceIsWithinQuota`. `VoiceInv` says what each job and its row, lease and
  transcript are at each step of its handler (`JobStands`) and that the usage
  row of the current minute and day counts what was admitted (`Counted`); past
  windows stay as they were when they ended.

`ReviewProofs`:

- `ReviewsStand` is `ReviewsHold`, from one invariant for each of five parts.
  `AssuranceInv` says that a receipt is of a check that is done and has the
  verdict of what it heard of each claim (`ReceiptStands`), and that none is
  believed past its expiry. `FusionInv` says that the suspended nodes contain
  the compromised ones and are closed under dependence (`GroundsInv`), that the
  licence in use is what `Load` makes of some record (`LicenceInv`), and of what
  shape the remembered candidates are (`CandidatesInv`). That a revocation is
  closed (`RevokedClosed`) is by pigeonhole: a pass of `Spread` changes nothing
  or adds a node, so after as many passes as there are nodes nothing is left to
  add; `RoundsExist` shows that the recursive function of the passes exists.
  That a family is counted at least once for each candidate that had it is by an
  injection (`TimesFacts`). `AwarenessInv` says that what was told is in memory
  and, where there is a store, in the store too (`KeepsIn`). `TitanInv` says
  that signatures count events, that chains and the bus log hold signed events
  (`SignedFor`), and that audited histories are numbered and ordered by
  signature (`AuditStands`), which makes them prefixes of each other. `RoadInv`
  says what a call has in its records and its witnesses at each step
  (`RegistryStands`), and that the CI run it asks about is one of the attested
  commit (`RunOfCommit`).
- `PartsAreTyped` is `PlatformTypeOK`, the types of all sixteen parts. It is
  more than shapes: a type says of a counter how far it can go. `PartsInv` is the
  invariants of all parts and `BoundsInv`, which adds what they leave open: the
  failures of an account are no more than the guesses made and its lock ends
  within `LockTime`, accounts are no more than invitations, by an injection
  (`IdentityBounds`, `AccountsBounded`); no file of the audit and no text read
  from it is longer than what was appended (`EnforcementBounds`); a bucket stays
  within the limit of some tier and a head within `MaxSequence`
  (`CommercialBounds`); no key is audited that was not made (`KeysStand`).

### Assumptions

The assumptions are those on the constants, each named in the module that
declares them (`BillingAssumption`, `RailwayAssumption`, `StoresAssumption`,
`LedgerAssumption`, `MemoryAssumption`, `NoneAssumption`, and one for each
component of the platform that needs one). They say what kind of
value a constant is, that `None` and the like are not among the names, and no
more than the code guarantees: limits and lifetimes are positive, the lock
takes at least two failures, a difficulty is between 1 and 5 (a field
constraint of the tutor's item), a route of the enforcement plane asks for what
its code writes into the request, `"summary"` is no remembered fact, the causal
graph has finitely many nodes and alarms name nodes of it, the findings are
finitely many and those of a candidate are among them, a deployment and a CI
run have the fields that Railway and GitHub answer with, and "no commit" is no
commit. The finite sets that are counted are assumed finite (`Node` of the
quorum, `Thread` of the gateway, the causal nodes). TLC evaluates all of
them in every run that uses their modules.

### Only model-checked

- `CompletedIsGranted`, which is liveness under fairness: out of the prover's
  reach, as is ENABLED. `PaymentsAreNotStranded` is the safety half of it.

## 6. Plan

The modules above cover every part of the system that keeps state, and all
that the plan listed to be checked or proved is. What is open is what this
prover cannot reach (`CompletedIsGranted`) and what section 8 leaves out.

## 7. Correspondence

`PROJECT.json` maps every definition to its lines. The rules used throughout:
one action is one transaction, one await, or one external call; a guard is a
condition or an early return of the code; an exception is a move to `failed`
(or to what its `except` clause does); a hash is the value it is computed
from; time appears only as the lapse of something that has a lifetime.

## 8. Not modelled

- *Numerical and textual code* (`app/science/` besides the truth gate,
  `app/hawkins_chaos.py`, `app/expert_reasoning.py`): formulas over floating
  point and scoring of text, without state. How Madhouse, the assurance engine
  and the council read findings, claims and markers off a text is likewise an
  input of the models.
- *Cryptography* (`quantum_defense_.../01`, `04`, parts of `02`, `03`, `05`):
  thin wrappers around libraries. Signatures, seals and hashes are taken to be
  what they claim.
- *Reading*: the source control bridge, the device health score, the reports
  of enterprise governance and of the module awareness, ROAD's roadmap tools
  and its fixed list of refused attacks.
- *Classes that no route calls*: the policy, SIOS and approval classes of
  `sara_unified/`, superseding in the verdict ledger.
- *Provider clients, the signer and voice services, the built-in question
  generator*: they are their possible answers.
- *Start-up besides the preflight, web pages and tools*: no state beyond
  configuration.
- *Within the ledger and the memory*: superseding (`solve` passes no parent),
  threads longer than `max_messages`, the fail-safe checkpoint before a save
  (a failing one is a failing save), `memory_status` and `memory_recall`,
  which only read, and the length of the busy timeout.
- Within the modelled parts: authentication of the caller, input validation
  that happens before any state is read, logging, and the texts of errors.
