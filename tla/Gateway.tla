-------------------------------- MODULE Gateway --------------------------------
(***************************************************************************)
(* The production process (sara_production_bootstrap.py, main.py): the     *)
(* preflight that attests a boot on the volume, and the gateway that       *)
(* serves requests behind the fail-safe.                                   *)
(*                                                                         *)
(* The async endpoints run in one event loop and the sync ones             *)
(* (voice/speak, artifacts, restore-latest) in threads: a step of a Thread *)
(* is what its code does between two accesses to shared state.             *)
(***************************************************************************)
EXTENDS Integers, FiniteSets

CONSTANTS
    Deployments,  \* the settings a process may start with
    Thread,       \* calls of voice/speak
    Limit,        \* requests_per_day: 500 for the role "action"
    ArtifactTTL,  \* lifetime of a voice artifact, in seconds
    MaxBoots, LastSecond,     \* bounds of the model
    GatewayEnv    \* what may happen: subset of {"crash", "error", "solve", "restore"}

Commits == {d.commit : d \in Deployments} \cup {""}
Deployment ==
    [required : BOOLEAN, configured : BOOLEAN, token : BOOLEAN, mount : BOOLEAN,
     space : BOOLEAN, override : BOOLEAN, commit : Commits, kill : BOOLEAN]

ASSUME GatewayAssumption ==
    /\ Deployments \subseteq Deployment
    /\ IsFiniteSet(Thread)
    /\ Limit \in Nat \ {0}
    /\ {ArtifactTTL, MaxBoots, LastSecond} \subseteq Nat

VARIABLES
    volume,     \* on the volume: marker (the boot that wrote it, 0 for none),
                \*   evidence, wavs, and metadata: artifact -> expiry
    snapshot,   \* the runtime state in the latest snapshot: its RATE_LIMIT
    process,    \* [step, boot, deployment, guarded, observed, evidence]
    rate,       \* RATE_LIMIT: the requests of a session admitted today, by key
    audits,     \* whose entries AUDIT holds: of operations behind main's fail-safe
                \*   ("gated"), and of the owner's routes that ask none ("owner")
    thread, restore,
    second,
    marks       \* history: boot -> whether it ended its self-test

gatewayVars == <<volume, snapshot, process, rate, audits, thread, restore, second, marks>>

NoEvidence == [ready |-> FALSE, accepted |-> FALSE, commit |-> "", boot |-> 0]
NoDeployment ==
    [required |-> FALSE, configured |-> FALSE, token |-> FALSE, mount |-> FALSE,
     space |-> FALSE, override |-> FALSE, commit |-> "", kill |-> FALSE]
NotUp == [step |-> "down", boot |-> 0, deployment |-> NoDeployment, guarded |-> FALSE,
          observed |-> FALSE, evidence |-> NoEvidence]
Untaken == [step |-> "free", expiry |-> 0]
NoRequest == [solve |-> 0, speak |-> 0]
NoRestore == [step |-> "free", rate |-> NoRequest]

GatewayInit ==
    /\ volume = [marker |-> 0, evidence |-> NoEvidence, wavs |-> {},
               metadata |-> [a \in {} |-> 0]]
    /\ snapshot = NoRequest
    /\ process = NotUp
    /\ rate = NoRequest /\ audits = {}
    /\ thread = [t \in Thread |-> Untaken]
    /\ restore = NoRestore
    /\ second = 0
    /\ marks = {}

-----------------------------------------------------------------------------
\* run_preflight up to the self-test.
PreflightFails(d) ==
    \/ ~d.override /\ (~d.required \/ ~d.token \/ ~d.mount \/ ~d.space)
    \/ ~d.configured

BootGoes(step) == process' = [process EXCEPT !.step = step]
Requests == <<rate, audits, thread, restore>>

\* What run does when the preflight raised: the process serves, but its
\* fail-safe has lost its controller.  The evidence file stays as it was.
FailedBoot ==
    process' = [process EXCEPT !.step = "up", !.guarded = FALSE, !.evidence = NoEvidence]

Boot(d) ==
    /\ process.step = "down"
    /\ process.boot < MaxBoots
    /\ process' = [step |-> "preflight", boot |-> process.boot + 1, deployment |-> d,
                   guarded |-> TRUE, observed |-> FALSE, evidence |-> NoEvidence]
    /\ UNCHANGED <<volume, snapshot, Requests, second, marks>>

\* Mutant of Observed: the marker is read after it was written.
ObservedLate == volume.marker # 0 \/ TRUE

\* previous_marker, of another boot than this one.
Observed == volume.marker # 0 /\ volume.marker # process.boot

\* The checks, then the checkpoint, which is read back, and the chain.
SelfTest ==
    /\ process.step = "preflight"
    /\ IF PreflightFails(process.deployment)
       THEN FailedBoot /\ UNCHANGED <<snapshot, marks>>
       ELSE \/ /\ snapshot' = NoRequest
               /\ marks' = marks \cup {process.boot}
               /\ process' = [process EXCEPT !.step = "mark", !.observed = Observed]
            \/ "error" \in GatewayEnv /\ FailedBoot /\ UNCHANGED <<snapshot, marks>>
    /\ UNCHANGED <<volume, Requests, second>>

WriteMarker ==
    /\ process.step = "mark"
    /\ \/ volume' = [volume EXCEPT !.marker = process.boot] /\ BootGoes("attest")
       \/ "error" \in GatewayEnv /\ FailedBoot /\ UNCHANGED volume
    /\ UNCHANGED <<snapshot, Requests, second, marks>>

\* The evidence of this boot is written to the volume and kept by the process.
Attest ==
    /\ process.step = "attest"
    /\ LET d == process.deployment
           e == [ready |-> TRUE, commit |-> d.commit, boot |-> process.boot,
                 accepted |-> d.required /\ d.token /\ (d.mount \/ d.override) /\ process.observed]
       IN \/ /\ volume' = [volume EXCEPT !.evidence = e]
             /\ process' = [process EXCEPT !.step = "up", !.evidence = e]
          \/ "error" \in GatewayEnv /\ FailedBoot /\ UNCHANGED volume
    /\ UNCHANGED <<snapshot, Requests, second, marks>>

\* The process ends; only the volume stays.
Crash ==
    /\ "crash" \in GatewayEnv
    /\ process.step # "down"
    /\ process' = [NotUp EXCEPT !.boot = process.boot]
    /\ rate' = NoRequest /\ audits' = {}
    /\ thread' = [t \in Thread |-> IF thread[t].step \in {"free", "answered"} THEN thread[t] ELSE Untaken]
    /\ restore' = NoRestore
    /\ UNCHANGED <<volume, snapshot, second, marks>>

PassSecond ==
    /\ second < LastSecond
    /\ second' = second + 1
    /\ UNCHANGED <<volume, snapshot, process, Requests, marks>>

-----------------------------------------------------------------------------
Up == process.step = "up"

\* audit appends to AUDIT, which drops its oldest entry when it is full: the
\* other kind may be gone.
Origin == {"gated", "owner"}
Audited(origin) == {audits \cup {origin}, {origin}}

\* Mutant of Ready: ensure_ready looks for the controller alone.
ReadyAlways == TRUE

\* RuntimeFailSafe.ensure_ready and checkpoint need the controller.
Ready == process.guarded

\* authorize: no role while the kill switch is on.
RoleAuthorized(role) == ~process.deployment.kill \/ role = "research_council"

\* Mutant of WithinLimit: one request too many.
WithinLimitLate(bucket) == rate[bucket] <= Limit

\* The test of check_rate_limit.
WithinLimit(bucket) == rate[bucket] < Limit

\* solve and verify_output in the event loop: a checkpoint for the action, the
\* rate check of a role that has one and its checkpoint, the answer.
GatedSolve(role) ==
    /\ "solve" \in GatewayEnv
    /\ Up
    /\ RoleAuthorized(role)
    /\ Ready
    /\ role # "owner" => WithinLimit("solve")
    /\ rate' = [rate EXCEPT !.solve = IF role = "owner" THEN @ ELSE @ + 1]
    /\ snapshot' = rate
    /\ audits' \in Audited("gated")
    /\ UNCHANGED <<volume, process, thread, restore, second, marks>>

ThreadGoes(t, step) == thread' = [thread EXCEPT ![t].step = step]
ThreadEnds(t) == thread' = [thread EXCEPT ![t] = Untaken]

\* voice/speak: the role, the fail-safe, and the count of today's requests.
Speak(t) ==
    /\ thread[t].step = "free"
    /\ Up
    /\ RoleAuthorized("action")
    /\ Ready
    /\ WithinLimit("speak")
    /\ ThreadGoes(t, "admit")
    /\ UNCHANGED <<volume, snapshot, process, rate, audits, restore, second, marks>>

\* check_rate_limit checkpoints before it appends.
Admit(t) ==
    /\ thread[t].step = "admit"
    /\ \/ snapshot' = rate /\ rate' = [rate EXCEPT !.speak = @ + 1] /\ ThreadGoes(t, "prune")
       \/ "error" \in GatewayEnv /\ ThreadEnds(t) /\ UNCHANGED <<snapshot, rate>>
    /\ UNCHANGED <<volume, process, audits, restore, second, marks>>

\* Mutant of Expired: the pruning also takes what expires in this second.
ExpiredEarly(expiry) == expiry <= second

Expired(expiry) == expiry < second

\* The audio was synthesized, or not; expired artifacts go, the metadata first.
Prune(t) ==
    /\ thread[t].step = "prune"
    /\ \/ LET old == {a \in DOMAIN volume.metadata : Expired(volume.metadata[a])}
          IN /\ volume' = [volume EXCEPT
                  !.metadata = [a \in DOMAIN volume.metadata \ old |-> volume.metadata[a]],
                  !.wavs = @ \ old]
             /\ thread' = [thread EXCEPT ![t] = [step |-> "wav", expiry |-> second + ArtifactTTL]]
       \/ "error" \in GatewayEnv /\ ThreadEnds(t) /\ UNCHANGED volume
    /\ UNCHANGED <<snapshot, process, rate, audits, restore, second, marks>>

\* The artifact of a thread has the thread's name.
WriteWav(t) ==
    /\ thread[t].step = "wav"
    /\ volume' = [volume EXCEPT !.wavs = @ \cup {t}]
    /\ ThreadGoes(t, "metadata")
    /\ UNCHANGED <<snapshot, process, rate, audits, restore, second, marks>>

WriteMetadata(t) ==
    /\ thread[t].step = "metadata"
    /\ volume' = [volume EXCEPT !.metadata =
         [a \in {t} \cup DOMAIN @ |-> IF a = t THEN thread[t].expiry ELSE @[a]]]
    /\ ThreadGoes(t, "answered")
    /\ audits' \in Audited("gated")
    /\ UNCHANGED <<snapshot, process, rate, restore, second, marks>>

\* chatgpt_action_voice_artifact: an expired artifact is removed as it is asked for.
Fetch(t) ==
    /\ Up
    /\ t \in volume.wavs \cap DOMAIN volume.metadata
    /\ Expired(volume.metadata[t])
    /\ volume' = [volume EXCEPT !.wavs = @ \ {t},
                    !.metadata = [a \in DOMAIN @ \ {t} |-> @[a]]]
    /\ UNCHANGED <<snapshot, process, Requests, second, marks>>

\* The owner's speech and reading routes (v1/voice/synthesize, and voice and
\* vision, whose rate check admits the owner at once) ask no fail-safe: they act
\* and are audited also in a process whose preflight failed.
OwnerVoice ==
    /\ Up
    /\ RoleAuthorized("owner")
    /\ audits' \in Audited("owner")
    /\ UNCHANGED <<volume, snapshot, process, rate, thread, restore, second, marks>>

\* restore-latest: a checkpoint, the latest snapshot, and the state it held:
\* its counts, and its AUDIT with an entry for the restore.
Restore ==
    /\ "restore" \in GatewayEnv
    /\ Up /\ ~process.deployment.kill
    /\ \/ /\ restore.step = "free"
          /\ Ready
          /\ snapshot' = rate
          /\ restore' = [restore EXCEPT !.step = "read"]
          /\ UNCHANGED <<rate, audits>>
       \/ /\ restore.step = "read"
          /\ restore' = [step |-> "apply", rate |-> snapshot]
          /\ UNCHANGED <<snapshot, rate, audits>>
       \/ /\ restore.step = "apply"
          /\ rate' = restore.rate
          /\ audits' \in {held \cup {"gated"} : held \in SUBSET Origin}
          /\ restore' = NoRestore
          /\ UNCHANGED snapshot
    /\ UNCHANGED <<volume, process, thread, second, marks>>

GatewayNext ==
    \/ \E d \in Deployments : Boot(d)
    \/ SelfTest \/ WriteMarker \/ Attest \/ Crash \/ PassSecond
    \/ \E role \in {"owner", "action", "research_council"} : GatedSolve(role)
    \/ \E t \in Thread :
         \/ Speak(t) \/ Admit(t) \/ Prune(t) \/ WriteWav(t) \/ WriteMetadata(t) \/ Fetch(t)
    \/ OwnerVoice \/ Restore

GatewaySpec == GatewayInit /\ [][GatewayNext]_gatewayVars

-----------------------------------------------------------------------------
\* road_public_production_acceptance, from production_acceptance_snapshot.
RoadAcceptance == volume.evidence.accepted

Counts == [solve : 0..Limit, speak : Nat]

GatewayTypeOK ==
    /\ process.step \in {"down", "preflight", "mark", "attest", "up"}
    /\ process.boot \in 0..MaxBoots
    /\ DOMAIN volume.metadata \subseteq Thread /\ volume.wavs \subseteq Thread
    /\ volume.marker \in {0} \cup marks
    /\ rate \in Counts /\ snapshot \in Counts

\* Acceptance is earned: what the volume attests was written by a boot that
\* ended its self-test after another boot had, wherever either was cut off.
AcceptanceIsEarned ==
    volume.evidence.accepted =>
      /\ volume.evidence.boot \in marks
      /\ \E b \in marks : b < volume.evidence.boot

\* In a process whose preflight failed nothing that main puts behind its
\* FAILSAFE runs: no request is counted, no call is under way, nothing is
\* restored and AUDIT has no entry of such an operation.  It says nothing of
\* what asks main's fail-safe nothing: the owner's voice and vision routes,
\* which still act and are audited, and the user gateway and the voice router,
\* whose fail-safes are their own.
UnattestedIsInert ==
    Up /\ ~process.evidence.ready =>
      /\ rate = NoRequest /\ "gated" \notin audits /\ restore = NoRestore
      /\ \A t \in Thread : thread[t].step \in {"free", "answered"}

\* Threads that counted at the same time may exceed the quota, by one each.
QuotaIsNearlyKept == rate.speak <= Limit + Cardinality(Thread) - 1

\* The artifact of an answer can be fetched until it expires, whatever the
\* other requests prune and whenever the process restarts.
AnsweredArtifactStands ==
    \A t \in Thread : thread[t].step = "answered" /\ second <= thread[t].expiry =>
      t \in volume.wavs \cap DOMAIN volume.metadata

GatewayHolds ==
    AcceptanceIsEarned /\ UnattestedIsInert /\ QuotaIsNearlyKept /\ AnsweredArtifactStands

\* main.py: "Live production attestation reports production_accepted=true." is
\* said of the process that is running.
AttestationIsLive ==
    Up /\ RoadAcceptance => process.evidence.accepted

-----------------------------------------------------------------------------
(* The inductive invariant. *)

Attestation == [ready : BOOLEAN, accepted : BOOLEAN, commit : Commits, boot : Nat]

Processes ==
    [step : {"down", "preflight", "mark", "attest", "up"}, boot : Nat, deployment : Deployment,
     guarded : BOOLEAN, observed : BOOLEAN, evidence : Attestation]
Calls == [step : {"free", "admit", "prune", "wav", "metadata", "answered"}, expiry : Nat]

GatewayTyped ==
    /\ GatewayTypeOK
    /\ volume \in [marker : Nat, evidence : Attestation, wavs : SUBSET Thread,
                   metadata : [DOMAIN volume.metadata -> Nat]]
    /\ process \in Processes
    /\ thread \in [Thread -> Calls]
    /\ restore \in [step : {"free", "read", "apply"}, rate : Counts]
    /\ audits \subseteq Origin /\ second \in Nat

\* Until the preflight has passed nothing of a guarded request is there.
NothingServed ==
    /\ process.step \in {"preflight", "mark", "attest"} => process.guarded
    /\ Up => (process.evidence.ready <=> process.guarded)
    /\ ~(Up /\ process.guarded) =>
         /\ rate = NoRequest /\ "gated" \notin audits /\ restore = NoRestore
         /\ \A t \in Thread : thread[t].step \in {"free", "answered"}

\* A boot that ended its self-test has its number among marks, and what it
\* observed an earlier one.
BootsAreMarked ==
    /\ marks \subseteq 1..process.boot
    /\ process.step # "down" => process.boot # 0
    /\ process.step \in {"mark", "attest"} =>
         /\ process.boot \in marks
         /\ process.observed => \E b \in marks : b < process.boot

\* Whoever is to be counted has been seen below the limit.
Admitting == {t \in Thread : thread[t].step = "admit"}
CountsAreClose ==
    /\ rate.speak + Cardinality(Admitting) <= Limit + Cardinality(Thread) - 1
    /\ restore.step = "read" => snapshot.speak <= rate.speak
    /\ restore.step = "apply" => restore.rate.speak <= rate.speak

\* The metadata follow the audio, and name the expiry that was answered.
ArtifactsAreWritten ==
    /\ \A a \in DOMAIN volume.metadata :
         thread[a].step = "answered" /\ volume.metadata[a] = thread[a].expiry
    /\ \A t \in Thread : thread[t].step = "metadata" => t \in volume.wavs

GatewayInv ==
    /\ GatewayTyped /\ NothingServed /\ BootsAreMarked /\ CountsAreClose /\ ArtifactsAreWritten
    /\ AcceptanceIsEarned /\ AnsweredArtifactStands
=============================================================================
