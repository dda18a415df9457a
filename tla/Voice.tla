-------------------------------- MODULE Voice --------------------------------
(***************************************************************************)
(* Voice accessibility: app/voice_accessibility_http.py over               *)
(* app/voice_accessibility.py (sara_voice_accessibility.db) and the        *)
(* in-memory VoiceJobManager of sara_unified/voice/jobs.py.                *)
(*                                                                         *)
(* create_voice_accessibility_job is a coroutine: it checks the caller's   *)
(* entitlement, awaits the request body, and from then on holds the event  *)
(* loop, synthesis included, until it answers.  Revoking, purging,         *)
(* stopping and reading are plain functions, on threads, and come between  *)
(* any two of its transactions.  Every user has a tenant of their own      *)
(* (grant_entitlement makes it), so that a tenant's limits and its user's  *)
(* are one.                                                                *)
(***************************************************************************)
EXTENDS Naturals, FiniteSets

CONSTANTS
    VoiceUser, VoiceJob,
    NoJob,
    Length,             \* characters of a job's text
    PerMinute, PerDay, CharactersPerDay,    \* the smaller of user's and tenant's
    Concurrency,
    DayLength,          \* minutes of a day
    MaxMinute,          \* bound on time
    VoiceEnv            \* what may happen: subset of {"crash", "error", "lapse"}

ASSUME VoiceAssumption ==
    /\ {PerMinute, PerDay, CharactersPerDay, Concurrency, DayLength} \subseteq Nat \ {0}
    /\ Length \in [VoiceJob -> Nat \ {0}]
    /\ NoJob \notin VoiceJob

VARIABLES
    entitlement,   \* voice_entitlements: status, "EXPIRED" when time has passed
    keeps,         \* voice_preferences.preserve_transcript
    row,           \* voice_jobs
    transcript,    \* the jobs with a row in voice_transcripts
    usage,         \* voice_usage_windows of the current minute and day
    lease,         \* the jobs with an unexpired row in voice_leases
    managed,       \* VoiceJobManager.jobs: status and stop_requested_at
    handler,       \* create_voice_accessibility_job: step and what it has read
    loop,          \* the job that has the event loop
    minute,
    admitted,      \* jobs that were admitted, and when
    died           \* handlers that a crash took, or whose release failed

voiceVars == <<entitlement, keeps, row, transcript, usage, lease, managed, handler, loop,
               minute, admitted, died>>

Fresh == [step |-> "new", user |-> NoJob, keep |-> FALSE]

VoiceInit ==
    /\ entitlement = [u \in VoiceUser |-> "none"]
    /\ keeps = [u \in VoiceUser |-> FALSE]
    /\ row = [j \in VoiceJob |-> NoJob]
    /\ transcript = {}
    /\ usage = [u \in VoiceUser |-> [minute |-> 0, day |-> 0, characters |-> 0]]
    /\ lease = {}
    /\ managed = [j \in VoiceJob |-> NoJob]
    /\ handler = [j \in VoiceJob |-> Fresh]
    /\ loop = NoJob
    /\ minute = 0
    /\ admitted = {}
    /\ died = {}

-----------------------------------------------------------------------------
\* resolve_access.
Entitled(u) == entitlement[u] = "ACTIVE"

\* A coroutine: not while a job has the loop.
GrantEntitlement(u) ==
    /\ loop = NoJob
    /\ entitlement[u] # "ACTIVE"
    /\ entitlement' = [entitlement EXCEPT ![u] = "ACTIVE"]
    /\ UNCHANGED <<keeps, row, transcript, usage, lease, managed, handler, loop, minute, admitted, died>>

RevokeEntitlement(u) ==
    /\ entitlement[u] \notin {"none", "REVOKED"}
    /\ entitlement' = [entitlement EXCEPT ![u] = "REVOKED"]
    /\ UNCHANGED <<keeps, row, transcript, usage, lease, managed, handler, loop, minute, admitted, died>>

\* put_voice_accessibility_preferences: the entitlement was checked before its
\* body arrived.
SetPreferences(u) ==
    /\ loop = NoJob
    /\ entitlement[u] # "none"
    /\ keeps' = [keeps EXCEPT ![u] = ~@]
    /\ UNCHANGED <<entitlement, row, transcript, usage, lease, managed, handler, loop, minute, admitted, died>>

\* Mutant of PurgeUserData: the transcripts stay.
PurgePreferences(u) ==
    /\ entitlement[u] # "none"
    /\ keeps' = [keeps EXCEPT ![u] = FALSE]
    /\ handler' = [j \in VoiceJob |->
         IF handler[j].user = u /\ handler[j].step = "done"
         THEN [handler[j] EXCEPT !.step = "purged"] ELSE handler[j]]
    /\ UNCHANGED <<entitlement, row, transcript, usage, lease, managed, loop, minute, admitted, died>>

\* purge_user_data, one transaction.  Job rows stay.  A job that had been
\* answered is marked "purged" for the property below.
PurgeUserData(u) ==
    /\ entitlement[u] # "none"
    /\ keeps' = [keeps EXCEPT ![u] = FALSE]
    /\ transcript' = {j \in transcript : row[j].user # u}
    /\ handler' = [j \in VoiceJob |->
         IF handler[j].user = u /\ handler[j].step = "done"
         THEN [handler[j] EXCEPT !.step = "purged"] ELSE handler[j]]
    /\ UNCHANGED <<entitlement, row, usage, lease, managed, loop, minute, admitted, died>>

-----------------------------------------------------------------------------
Goto(j, step) == handler' = [handler EXCEPT ![j].step = step]

\* The caller's entitlement is checked; the body is awaited.
CheckAccess(j, u) ==
    /\ loop = NoJob
    /\ handler[j].step = "new"
    /\ Entitled(u)
    /\ handler' = [handler EXCEPT ![j].step = "checked", ![j].user = u]
    /\ UNCHANGED <<entitlement, keeps, row, transcript, usage, lease, managed, loop, minute, admitted, died>>

\* The body is there, and with it, maybe, a choice about the transcript.
ReadPreferences(j, choice) ==
    /\ loop = NoJob
    /\ handler[j].step = "checked"
    /\ loop' = j
    /\ handler' = [handler EXCEPT ![j].step = "reserving",
           ![j].keep = IF choice = "default" THEN keeps[handler[j].user] ELSE choice = "keep"]
    /\ UNCHANGED <<entitlement, keeps, row, transcript, usage, lease, managed, minute, admitted, died>>

LeasesOf(u) == {j \in lease : handler[j].user = u}

\* The checks of reserve_usage, in its transaction.
WithinLimits(u, j) ==
    /\ Cardinality(LeasesOf(u)) < Concurrency
    /\ usage[u].minute + 1 <= PerMinute
    /\ usage[u].day + 1 <= PerDay
    /\ usage[u].characters + Length[j] <= CharactersPerDay

Charged(u, j) == [minute |-> usage[u].minute + 1, day |-> usage[u].day + 1,
                  characters |-> usage[u].characters + Length[j]]

\* Mutant of Reserve: only a job that succeeds is charged, when it is marked.
ReserveUncharged(j) ==
    LET u == handler[j].user
    IN /\ loop = j
       /\ handler[j].step = "reserving"
       /\ WithinLimits(u, j)
       /\ lease' = lease \cup {j}
       /\ admitted' = admitted \cup {[job |-> j, user |-> u, at |-> minute]}
       /\ Goto(j, "synthesis")
       /\ UNCHANGED <<entitlement, keeps, row, transcript, usage, managed, loop, minute, died>>

\* reserve_usage: one transaction.
Reserve(j) ==
    LET u == handler[j].user
    IN /\ loop = j
       /\ handler[j].step = "reserving"
       /\ WithinLimits(u, j)
       /\ usage' = [usage EXCEPT ![u] = Charged(u, j)]
       /\ lease' = lease \cup {j}
       /\ admitted' = admitted \cup {[job |-> j, user |-> u, at |-> minute]}
       /\ Goto(j, "synthesis")
       /\ UNCHANGED <<entitlement, keeps, row, transcript, managed, loop, minute, died>>

\* 409 or 429, or an SQLite error: there is no lease to release.
RateLimited(j) ==
    /\ loop = j
    /\ handler[j].step = "reserving"
    /\ ~WithinLimits(handler[j].user, j) \/ "error" \in VoiceEnv
    /\ Goto(j, "refused")
    /\ loop' = NoJob
    /\ UNCHANGED <<entitlement, keeps, row, transcript, usage, lease, managed, minute, admitted, died>>

\* create_job: the segments are synthesized one after the other, and the voice
\* service fails at one of them or at none.
SynthesizeSpeech(j) ==
    /\ loop = j
    /\ handler[j].step = "synthesis"
    /\ \E status \in {"completed", "failed"} :
         managed' = [managed EXCEPT ![j] = [status |-> status, stopped |-> FALSE]]
    /\ Goto(j, "record")
    /\ UNCHANGED <<entitlement, keeps, row, transcript, usage, lease, loop, minute, admitted, died>>

\* record_job writes "completed", whatever the synthesis came to.
RecordJob(j) ==
    /\ loop = j
    /\ handler[j].step = "record"
    /\ row' = [row EXCEPT ![j] = [user |-> handler[j].user, status |-> "completed",
                                  stopped |-> FALSE, keep |-> handler[j].keep]]
    /\ Goto(j, "envelope")
    /\ UNCHANGED <<entitlement, keeps, transcript, usage, lease, managed, loop, minute, admitted, died>>

\* record_receipt_envelope: only for the owner of the row.
RecordEnvelope(j) ==
    /\ loop = j
    /\ handler[j].step = "envelope"
    /\ row[j].user = handler[j].user
    /\ Goto(j, "mark")
    /\ UNCHANGED <<entitlement, keeps, row, transcript, usage, lease, managed, loop, minute, admitted, died>>

\* mark_job_status: a stop that was recorded stays.
Marked(j) == [row EXCEPT ![j].status = managed[j].status, ![j].stopped = @ \/ managed[j].stopped]

\* Mutant of MarkJob: the transcript of a failed job is kept as well.
MarkJobKeeping(j) ==
    /\ loop = j
    /\ handler[j].step = "mark"
    /\ row' = [row EXCEPT ![j].status = managed[j].status]
    /\ Goto(j, IF handler[j].keep THEN "transcript" ELSE "release")
    /\ UNCHANGED <<entitlement, keeps, transcript, usage, lease, managed, loop, minute, admitted, died>>

MarkJob(j) ==
    /\ loop = j
    /\ handler[j].step = "mark"
    /\ row' = [row EXCEPT ![j].status = managed[j].status]
    /\ Goto(j, IF handler[j].keep /\ managed[j].status = "completed" THEN "transcript" ELSE "release")
    /\ UNCHANGED <<entitlement, keeps, transcript, usage, lease, managed, loop, minute, admitted, died>>

\* save_transcript: the row decides again whether it may be kept.
SaveTranscript(j) ==
    /\ loop = j
    /\ handler[j].step = "transcript"
    /\ row[j].user = handler[j].user
    /\ row[j].keep
    /\ transcript' = transcript \cup {j}
    /\ Goto(j, "release")
    /\ UNCHANGED <<entitlement, keeps, row, usage, lease, managed, loop, minute, admitted, died>>

\* A checkpoint, a transaction or the request fails: on to the finally clause.
StepFails(j) ==
    /\ "error" \in VoiceEnv
    /\ loop = j
    /\ handler[j].step \in {"synthesis", "record", "envelope", "mark", "transcript"}
    /\ Goto(j, "release")
    /\ UNCHANGED <<entitlement, keeps, row, transcript, usage, lease, managed, loop, minute, admitted, died>>

\* The finally clause, release_lease, and the answer.
ReleaseLease(j) ==
    /\ loop = j
    /\ handler[j].step = "release"
    /\ lease' = lease \ {j}
    /\ Goto(j, "done")
    /\ loop' = NoJob
    /\ UNCHANGED <<entitlement, keeps, row, transcript, usage, managed, minute, admitted, died>>

\* An SQLite error in release_lease is passed over.
ReleaseFails(j) ==
    /\ "error" \in VoiceEnv
    /\ loop = j
    /\ handler[j].step = "release"
    /\ Goto(j, "done")
    /\ loop' = NoJob
    /\ died' = died \cup {j}
    /\ UNCHANGED <<entitlement, keeps, row, transcript, usage, lease, managed, minute, admitted>>

-----------------------------------------------------------------------------
\* _owned_job: the row is the caller's and the manager still has the job.
Owned(j, u) ==
    /\ Entitled(u)
    /\ row[j] # NoJob
    /\ row[j].user = u
    /\ managed[j] # NoJob

\* stop_job, on a thread.  A job is owned once its row is written, so that it
\* is no longer pending or running.
StopJob(j, u) ==
    /\ Owned(j, u)
    /\ ~managed[j].stopped
    /\ managed' = [managed EXCEPT ![j].stopped = TRUE,
           ![j].status = IF @ \in {"pending", "running"} THEN "stopped" ELSE @]
    /\ UNCHANGED <<entitlement, keeps, row, transcript, usage, lease, handler, loop, minute, admitted, died>>

\* The second half of stop_voice_accessibility_job.
StopMarks(j) ==
    /\ managed[j] # NoJob
    /\ managed[j].stopped
    /\ row' = Marked(j)
    /\ row' # row
    /\ UNCHANGED <<entitlement, keeps, transcript, usage, lease, managed, handler, loop, minute, admitted, died>>

\* load_transcript finds its row expired and deletes it.
TranscriptExpires(j, u) ==
    /\ "lapse" \in VoiceEnv
    /\ Owned(j, u)
    /\ j \in transcript
    /\ transcript' = transcript \ {j}
    /\ UNCHANGED <<entitlement, keeps, row, usage, lease, managed, handler, loop, minute, admitted, died>>

\* _prune_jobs drops a job after VOICE_JOB_RETENTION_SECONDS.
PruneJob(j) ==
    /\ "lapse" \in VoiceEnv
    /\ handler[j].step \in {"done", "purged"}
    /\ managed[j] # NoJob
    /\ managed' = [managed EXCEPT ![j] = NoJob]
    /\ UNCHANGED <<entitlement, keeps, row, transcript, usage, lease, handler, loop, minute, admitted, died>>

\* A lease runs out: reserve_usage deletes it before it counts.
LeaseExpires(j) ==
    /\ "lapse" \in VoiceEnv
    /\ j \in lease
    /\ lease' = lease \ {j}
    /\ UNCHANGED <<entitlement, keeps, row, transcript, usage, managed, handler, loop, minute, admitted, died>>

EntitlementExpires(u) ==
    /\ "lapse" \in VoiceEnv
    /\ Entitled(u)
    /\ entitlement' = [entitlement EXCEPT ![u] = "EXPIRED"]
    /\ UNCHANGED <<keeps, row, transcript, usage, lease, managed, handler, loop, minute, admitted, died>>

\* Time goes on: the rows of the windows that begin are not there yet.
NextMinute ==
    /\ minute < MaxMinute
    /\ minute' = minute + 1
    /\ usage' = [u \in VoiceUser |->
         IF minute' % DayLength = 0 THEN [minute |-> 0, day |-> 0, characters |-> 0]
         ELSE [usage[u] EXCEPT !.minute = 0]]
    /\ UNCHANGED <<entitlement, keeps, row, transcript, lease, managed, handler, loop, admitted, died>>

\* The process dies: the manager's jobs and the handlers are gone.
VoiceCrash ==
    /\ "crash" \in VoiceEnv
    /\ loop # NoJob
    /\ died' = died \cup {loop}
    /\ handler' = [j \in VoiceJob |->
         IF handler[j].step = "checked" \/ j = loop THEN [handler[j] EXCEPT !.step = "dead"] ELSE handler[j]]
    /\ loop' = NoJob
    /\ managed' = [j \in VoiceJob |-> NoJob]
    /\ UNCHANGED <<entitlement, keeps, row, transcript, usage, lease, minute, admitted>>

VoiceNext ==
    \/ \E u \in VoiceUser :
         \/ GrantEntitlement(u) \/ RevokeEntitlement(u) \/ EntitlementExpires(u)
         \/ SetPreferences(u) \/ PurgeUserData(u)
         \/ \E j \in VoiceJob : CheckAccess(j, u) \/ StopJob(j, u) \/ TranscriptExpires(j, u)
    \/ \E j \in VoiceJob :
         \/ \E choice \in {"default", "keep", "drop"} : ReadPreferences(j, choice)
         \/ Reserve(j) \/ RateLimited(j) \/ SynthesizeSpeech(j) \/ RecordJob(j) \/ RecordEnvelope(j)
         \/ MarkJob(j) \/ SaveTranscript(j) \/ StepFails(j) \/ ReleaseLease(j) \/ ReleaseFails(j)
         \/ StopMarks(j) \/ PruneJob(j) \/ LeaseExpires(j)
    \/ NextMinute
    \/ VoiceCrash

VoiceSpec == VoiceInit /\ [][VoiceNext]_voiceVars

-----------------------------------------------------------------------------
VoiceStep == {"new", "checked", "reserving", "synthesis", "record", "envelope", "mark",
              "transcript", "release", "done", "purged", "refused", "dead"}

VoiceTypeOK ==
    /\ entitlement \in [VoiceUser -> {"none", "ACTIVE", "REVOKED", "EXPIRED"}]
    /\ keeps \in [VoiceUser -> BOOLEAN]
    /\ \A j \in VoiceJob :
         /\ handler[j].step \in VoiceStep
         /\ row[j] # NoJob => row[j].status \in {"completed", "failed"}
    /\ transcript \cup lease \cup died \subseteq VoiceJob
    /\ loop \in VoiceJob \cup {NoJob}
    /\ loop # NoJob => handler[loop].step \notin {"new", "checked", "done", "refused", "dead"}

\* The admissions of a user in a minute and on a day, and their characters.
AdmittedIn(u, m) == {a \in admitted : a.user = u /\ a.at = m}
AdmittedOn(u, d) == {a \in admitted : a.user = u /\ a.at \div DayLength = d}
Read(S) == UNION {{a} \X (1..Length[a.job]) : a \in S}
Characters(S) == Cardinality(Read(S))

\* reserve_usage charges what it admits in the transaction that admits it: in
\* no minute and on no day is a user admitted beyond the limits, crashes, failed
\* jobs and revoked entitlements included; and a lease that is left belongs to
\* the job that has the loop or to one whose handler could not release it, so
\* that the concurrency limit refuses nobody else.
QuotaHolds ==
    \A u \in VoiceUser :
        /\ \A m \in 0..minute : Cardinality(AdmittedIn(u, m)) <= PerMinute
        /\ \A d \in 0..(minute \div DayLength) :
             /\ Cardinality(AdmittedOn(u, d)) <= PerDay
             /\ Characters(AdmittedOn(u, d)) <= CharactersPerDay
        /\ Cardinality(LeasesOf(u)) <= Concurrency
        /\ LeasesOf(u) \subseteq died \cup {loop}

\* A transcript is only stored for a job that was synthesized to the end and
\* that asked for it, and none of a job that was answered before a purge of
\* its user is left, although purges, stops and the job's own transactions run
\* on different threads.  (A job that runs during the purge may store its own
\* afterwards.)
TranscriptsAreWanted ==
    \A j \in transcript :
        /\ row[j].status = "completed"
        /\ row[j].keep
        /\ handler[j].keep
        /\ handler[j].step # "purged"

-----------------------------------------------------------------------------
(* The invariant that the two rest on. *)

Working == {"reserving", "synthesis", "record", "envelope", "mark", "transcript", "release"}
VoiceRow == [user : VoiceUser, status : {"completed", "failed"}, stopped : BOOLEAN, keep : BOOLEAN]
ManagedJob == [status : {"completed", "failed"}, stopped : BOOLEAN]
VoiceHandler == [step : VoiceStep, user : VoiceUser \cup {NoJob}, keep : BOOLEAN]

VoiceTyped ==
    /\ entitlement \in [VoiceUser -> {"none", "ACTIVE", "REVOKED", "EXPIRED"}]
    /\ keeps \in [VoiceUser -> BOOLEAN]
    /\ row \in [VoiceJob -> VoiceRow \cup {NoJob}]
    /\ transcript \subseteq VoiceJob /\ lease \subseteq VoiceJob /\ died \subseteq VoiceJob
    /\ usage \in [VoiceUser -> [minute : Nat, day : Nat, characters : Nat]]
    /\ managed \in [VoiceJob -> ManagedJob \cup {NoJob}]
    /\ handler \in [VoiceJob -> VoiceHandler]
    /\ loop \in VoiceJob \cup {NoJob}
    /\ minute \in Nat
    /\ admitted \subseteq [job : VoiceJob, user : VoiceUser, at : 0..minute]
    /\ IsFiniteSet(lease) /\ IsFiniteSet(admitted)

RowIsOwn(j) == row[j] \in VoiceRow /\ row[j].user = handler[j].user

\* A job is at work exactly while it has the loop; it knows its user, its row
\* is its user's, and the manager agrees with the row of a job whose transcript
\* is being stored or is there.
JobStands(j) ==
    /\ handler[j].step \in Working <=> loop = j
    /\ IF handler[j].step = "new" THEN row[j] = NoJob /\ managed[j] = NoJob
       ELSE handler[j].user \in VoiceUser
    /\ row[j] # NoJob => RowIsOwn(j)
    /\ managed[j] # NoJob /\ managed[j].stopped => RowIsOwn(j)
    /\ handler[j].step \in {"record", "envelope", "mark"} => managed[j] \in ManagedJob
    /\ handler[j].step \in {"envelope", "mark", "transcript"} => RowIsOwn(j)
    /\ handler[j].step \in {"new", "checked", "reserving"} => j \notin lease
    /\ j \in lease => j \in died \cup {loop}
    /\ j \in transcript => handler[j].step \in {"release", "done", "dead"} /\ row[j].keep
    /\ j \in transcript \/ handler[j].step = "transcript" =>
         /\ handler[j].keep
         /\ RowIsOwn(j) /\ row[j].status = "completed"
         /\ managed[j] # NoJob => managed[j].status = "completed"

\* The windows count every admission of theirs.
Counted(u) ==
    /\ \A d \in Nat : IsFiniteSet(Read(AdmittedOn(u, d)))
    /\ Cardinality(AdmittedIn(u, minute)) <= usage[u].minute
    /\ Cardinality(AdmittedOn(u, minute \div DayLength)) <= usage[u].day
    /\ Characters(AdmittedOn(u, minute \div DayLength)) <= usage[u].characters
    /\ \A m \in Nat : Cardinality(AdmittedIn(u, m)) <= PerMinute
    /\ \A d \in Nat :
         /\ Cardinality(AdmittedOn(u, d)) <= PerDay
         /\ Characters(AdmittedOn(u, d)) <= CharactersPerDay
    /\ Cardinality(LeasesOf(u)) <= Concurrency

VoiceInv ==
    /\ VoiceTyped
    /\ \A j \in VoiceJob : JobStands(j)
    /\ \A u \in VoiceUser : Counted(u)
=============================================================================
