------------------------------- MODULE FailSafe -------------------------------
(***************************************************************************)
(* Fail-safe snapshots and the SIOS relay (sara_v32_hardening.py): the     *)
(* checkpoint a handler writes before it changes state or calls SIOS.      *)
(*                                                                         *)
(* A controller serialises its own checkpoints with a lock.  main.py and   *)
(* app/user_gateway.py have a controller each, voice accessibility makes   *)
(* one per request, all of them on one directory.  Snapshots are named by  *)
(* their time, here 1, 2, ...; a name is made after the last valid digest  *)
(* has been read.  The MAC, the digests and the decryption of a file all   *)
(* succeed unless it was damaged.  Old snapshots are listed once and then  *)
(* unlinked one by one; the process may die between any two of these.      *)
(***************************************************************************)
EXTENDS Naturals, FiniteSets, FiniteSetsExt

CONSTANTS
    Saver,          \* handlers that checkpoint and then act
    Controllers,    \* assignments of savers to controllers that are explored
    MaxSnapshots,   \* SARA_FAILSAFE_MAX_SNAPSHOTS
    MaxNamed,       \* bound on the snapshots that are named
    Presented,      \* the claims that are presented to the relay
    FailSafeEnv     \* what may happen: subset of {"crash", "error", "damage"}

EpistemicStatus == {"VERIFIED", "SUPPORTED", "INFERRED", "UNCERTAIN", "UNVERIFIED", "CONTRADICTED"}
AuthorityLevel == {"OBSERVATIONAL", "ADVISORY", "EXECUTION"}

ASSUME FailSafeAssumption ==
    /\ MaxSnapshots \in Nat /\ MaxSnapshots >= 2
    /\ MaxNamed \in Nat
    /\ Presented \subseteq [status : EpistemicStatus, authority : AuthorityLevel,
                            evidence : BOOLEAN, receipt : BOOLEAN]

VARIABLES
    keyed,        \* a master key is configured
    required,     \* SARA_FAILSAFE_REQUIRED
    controller,   \* the controller of each saver
    locked,       \* the controllers whose lock is held
    files,        \* the snapshot files: number -> [previous, good]
    latest,       \* what latest.json names, 0 when it does not exist
    named,        \* the number of snapshots that were named
    saver,        \* the handlers: step, whether a dispatch failed before, digest read,
                  \* number given, files listed to be unlinked
    acknowledged, \* snapshots that a checkpoint has returned
    effects,      \* what was done: by whom, after which snapshot
    damaged       \* a file has been damaged

failSafeVars == <<keyed, required, controller, locked, files, latest, named, saver,
                  acknowledged, effects, damaged>>

FailSafeInit ==
    /\ keyed \in BOOLEAN
    /\ required \in BOOLEAN
    /\ controller \in Controllers
    /\ locked = {}
    /\ files = [n \in {} |-> {}]
    /\ latest = 0
    /\ named = 0
    /\ saver = [s \in Saver |-> [step |-> "new", again |-> FALSE, previous |-> 0,
                                 number |-> 0, old |-> {}]]
    /\ acknowledged = {}
    /\ effects = {}
    /\ damaged = FALSE

-----------------------------------------------------------------------------
\* EpistemicPolicy.evaluate with advice let through without evidence.
AllowsUnsupported(p) ==
    /\ p.status # "CONTRADICTED"
    /\ p.authority = "EXECUTION" => p.status = "VERIFIED" /\ p.receipt

\* EpistemicPolicy.evaluate.
Allows(p) ==
    /\ p.status # "CONTRADICTED"
    /\ p.authority = "ADVISORY" => p.status \in {"SUPPORTED", "VERIFIED"} /\ p.evidence
    /\ p.authority = "EXECUTION" => p.status = "VERIFIED" /\ p.evidence /\ p.receipt

\* _latest_valid_digest and restore_latest: the newest file that verifies.
NewestValid ==
    LET valid == {n \in DOMAIN files : files[n].good}
    IN IF valid = {} THEN 0 ELSE Max(valid)

\* verify_retained_chain: every file verifies and continues the one before it.
VerifiesRetained ==
    \A n \in DOMAIN files :
        LET older == {m \in DOMAIN files : m < n}
        IN files[n].good /\ (older # {} => files[n].previous = Max(older))

Move(s, step) == saver' = [saver EXCEPT ![s].step = step]

Free(s) == locked \ {controller[s]}

\* RuntimeFailSafe.checkpoint without a controller: refused if it is required,
\* no snapshot otherwise.
SkipCheckpoint(s) ==
    /\ saver[s].step = "new"
    /\ ~keyed
    /\ Move(s, IF required THEN "refused" ELSE "saved")
    /\ UNCHANGED <<keyed, required, controller, locked, files, latest, named, acknowledged, effects, damaged>>

\* checkpoint takes its controller's lock and reads the last valid digest.  A
\* dispatch that failed comes here a second time.
ReadDigest(s) ==
    /\ saver[s].step \in {"new", "unavailable"}
    /\ keyed
    /\ controller[s] \notin locked
    /\ locked' = locked \cup {controller[s]}
    /\ saver' = [saver EXCEPT ![s] =
         [@ EXCEPT !.step = "read", !.again = (saver[s].step = "unavailable"), !.previous = NewestValid]]
    /\ UNCHANGED <<keyed, required, controller, files, latest, named, acknowledged, effects, damaged>>

\* The steps of a checkpoint, all of them under the lock.
Busy == {"read", "written", "pointed", "listed"}

\* _atomic_write of the snapshot: a temporary file, renamed.
WriteSnapshot(s) ==
    LET n == named + 1
    IN /\ saver[s].step = "read"
       /\ n <= MaxNamed
       /\ named' = n
       /\ files' = [x \in DOMAIN files \cup {n} |->
             IF x = n THEN [previous |-> saver[s].previous, good |-> TRUE] ELSE files[x]]
       /\ saver' = [saver EXCEPT ![s] = [@ EXCEPT !.step = "written", !.number = n]]
       /\ UNCHANGED <<keyed, required, controller, locked, latest, acknowledged, effects, damaged>>

\* _atomic_write of latest.json.
WritePointer(s) ==
    /\ saver[s].step = "written"
    /\ latest' = saver[s].number
    /\ Move(s, "pointed")
    /\ UNCHANGED <<keyed, required, controller, locked, files, named, acknowledged, effects, damaged>>

\* The files that _enforce_retention leaves: the last MaxSnapshots by name.
Kept(max) == {n \in DOMAIN files : Cardinality({m \in DOMAIN files : m > n}) < max}

\* Mutant of ListOld: one file too few is kept.
ListOldKeepingLess(s) ==
    /\ saver[s].step = "pointed"
    /\ saver' = [saver EXCEPT ![s] =
         [@ EXCEPT !.step = "listed", !.old = DOMAIN files \ Kept(MaxSnapshots - 1)]]
    /\ UNCHANGED <<keyed, required, controller, locked, files, latest, named, acknowledged, effects, damaged>>

\* _enforce_retention lists the files it is to remove, once.
ListOld(s) ==
    /\ saver[s].step = "pointed"
    /\ saver' = [saver EXCEPT ![s] =
         [@ EXCEPT !.step = "listed", !.old = DOMAIN files \ Kept(MaxSnapshots)]]
    /\ UNCHANGED <<keyed, required, controller, locked, files, latest, named, acknowledged, effects, damaged>>

\* It unlinks them one by one, the newest of them first; a file that is
\* already gone is passed over.
Unlink(s) ==
    LET n == Max(saver[s].old)
    IN /\ saver[s].step = "listed"
       /\ saver[s].old # {}
       /\ files' = [m \in DOMAIN files \ {n} |-> files[m]]
       /\ saver' = [saver EXCEPT ![s].old = @ \ {n}]
       /\ UNCHANGED <<keyed, required, controller, locked, latest, named, acknowledged, effects, damaged>>

\* checkpoint returns its receipt and the lock is released.
ReturnReceipt(s) ==
    /\ saver[s].step = "listed"
    /\ saver[s].old = {}
    /\ locked' = Free(s)
    /\ acknowledged' = acknowledged \cup {saver[s].number}
    /\ Move(s, IF saver[s].again THEN "failed" ELSE "saved")
    /\ UNCHANGED <<keyed, required, controller, files, latest, named, effects, damaged>>

\* A write or an unlink fails: the handler answers 503, and what was written
\* and removed stays so.
SaveFails(s) ==
    /\ "error" \in FailSafeEnv
    /\ saver[s].step \in Busy
    /\ locked' = Free(s)
    /\ Move(s, IF saver[s].again THEN "failed" ELSE "refused")
    /\ UNCHANGED <<keyed, required, controller, files, latest, named, acknowledged, effects, damaged>>

-----------------------------------------------------------------------------
\* The handler changes the state it has saved.
Mutate(s) ==
    /\ saver[s].step = "saved"
    /\ effects' = effects \cup {[by |-> s, after |-> saver[s].number, sent |-> {}]}
    /\ Move(s, "done")
    /\ UNCHANGED <<keyed, required, controller, locked, files, latest, named, acknowledged, damaged>>

\* dispatch_with_checkpoint: the relay asks the policy and posts to SIOS.  A
\* redirect, an error status, a reply that is too long or not JSON and a lost
\* connection all end in a SIOSRelayError.
Dispatch(s) ==
    /\ saver[s].step = "saved"
    /\ keyed
    /\ \E p \in Presented :
         /\ Allows(p)
         /\ effects' = effects \cup {[by |-> s, after |-> saver[s].number, sent |-> {p}]}
    /\ \E answered \in BOOLEAN : Move(s, IF answered THEN "done" ELSE "unavailable")
    /\ UNCHANGED <<keyed, required, controller, locked, files, latest, named, acknowledged, damaged>>

\* EpistemicDenied is not a relay error: there is no second checkpoint.
DispatchDenied(s) ==
    /\ saver[s].step = "saved"
    /\ \E p \in Presented : ~Allows(p)
    /\ Move(s, "failed")
    /\ UNCHANGED <<keyed, required, controller, locked, files, latest, named, acknowledged, effects, damaged>>

\* A snapshot file is damaged or tampered with.
Damage ==
    /\ "damage" \in FailSafeEnv
    /\ ~damaged
    /\ \E n \in DOMAIN files : files' = [files EXCEPT ![n].good = FALSE]
    /\ damaged' = TRUE
    /\ UNCHANGED <<keyed, required, controller, locked, latest, named, saver, acknowledged, effects>>

\* The process dies; what was renamed into place or unlinked stays so.
FailSafeCrash ==
    /\ "crash" \in FailSafeEnv
    /\ \E s \in Saver : saver[s].step \in Busy
    /\ locked' = {}
    /\ saver' = [s \in Saver |-> IF saver[s].step \in {"new", "done", "refused", "failed"} THEN saver[s]
                                ELSE [saver[s] EXCEPT !.step = "failed"]]
    /\ UNCHANGED <<keyed, required, controller, files, latest, named, acknowledged, effects, damaged>>

FailSafeNext ==
    \/ \E s \in Saver :
         \/ SkipCheckpoint(s) \/ ReadDigest(s) \/ WriteSnapshot(s) \/ WritePointer(s)
         \/ ListOld(s) \/ Unlink(s) \/ ReturnReceipt(s) \/ SaveFails(s)
         \/ Mutate(s) \/ Dispatch(s) \/ DispatchDenied(s)
    \/ Damage
    \/ FailSafeCrash

FailSafeSpec == FailSafeInit /\ [][FailSafeNext]_failSafeVars

-----------------------------------------------------------------------------
Steps == Busy \cup {"new", "saved", "done", "refused", "failed", "unavailable"}

FailSafeTypeOK ==
    /\ \A s \in Saver : saver[s].step \in Steps /\ saver[s].number \in 0..named
    /\ DOMAIN files \subseteq 1..named
    /\ acknowledged \subseteq 1..named
    /\ locked \subseteq {controller[s] : s \in Saver}

\* What is done to the state or sent to SIOS was covered first: by a snapshot
\* of its own that had been acknowledged and pointed to, whenever a controller
\* exists or is required, and by a claim whose epistemic status, evidence and
\* receipt carry the authority it was sent with.
EffectsAreCovered ==
    \A e \in effects :
        /\ keyed \/ required => e.after \in acknowledged
        /\ \A p \in e.sent :
             /\ p.status # "CONTRADICTED"
             /\ p.authority # "OBSERVATIONAL" => p.evidence /\ p.status \in {"VERIFIED", "SUPPORTED"}
             /\ p.authority = "EXECUTION" => p.receipt /\ p.status = "VERIFIED"

Alone == \A s, t \in Saver : controller[s] = controller[t]

\* An acknowledged snapshot is only given up for MaxSnapshots newer ones, and
\* every snapshot continues an earlier one.  As long as one controller writes,
\* and wherever its checkpoints fail or are cut off, the newest MaxSnapshots
\* files form one chain and latest.json names a file that is there.  A
\* checkpoint cut off among its unlinks may leave a gap behind these, which
\* verify_retained_chain rejects; it does not outlast the next checkpoint that
\* returns: when the newest snapshot is acknowledged the whole directory
\* verifies, as the preflight expects of its own.
RetainedChain ==
    /\ \A n \in acknowledged : n \notin DOMAIN files => Cardinality((n + 1)..named) >= MaxSnapshots
    /\ \A n \in DOMAIN files : files[n].previous < n
    /\ Alone /\ ~damaged =>
         /\ \A n \in Kept(MaxSnapshots) :
              LET older == {m \in Kept(MaxSnapshots) : m < n}
              IN older # {} => files[n].previous = Max(older)
         /\ latest # 0 => latest \in DOMAIN files
         /\ named \in acknowledged => VerifiesRetained

-----------------------------------------------------------------------------
(* The inductive invariant behind both. *)

SaverAt(k) == [step : Steps, again : BOOLEAN, previous : 0..k, number : 0..k, old : SUBSET (1..k)]

FailSafeTyped ==
    /\ saver \in [Saver -> SaverAt(named)]
    /\ \A s \in Saver : saver[s].step \in Busy \ {"read"} => saver[s].number # 0
    /\ named \in Nat /\ DOMAIN files \subseteq 1..named
    /\ files \in [DOMAIN files -> [previous : Nat, good : BOOLEAN]]
    /\ locked \subseteq {controller[s] : s \in Saver}
    /\ acknowledged \subseteq 1..named

\* A controller is locked while it writes, for one handler.
Serialised ==
    \A s \in Saver : saver[s].step \in Busy =>
        /\ controller[s] \in locked
        /\ \A t \in Saver \ {s} : controller[t] = controller[s] => saver[t].step \notin Busy

\* Every name has its file, and none is listed to be unlinked, until
\* MaxSnapshots newer ones have theirs.
NamesStand ==
    /\ \A n \in (1..named) \ DOMAIN files : named >= n + MaxSnapshots
    /\ \A s \in Saver : saver[s].step = "listed" =>
         \A n \in saver[s].old : named >= n + MaxSnapshots

SavedIsKept ==
    \A s \in Saver : saver[s].step = "saved" /\ (keyed \/ required) => saver[s].number \in acknowledged

\* With one controller every snapshot continues the one named before it, and
\* what was read is still so when it writes; the pointer names a file until it
\* is moved; and a file beyond the newest MaxSnapshots is one that is listed,
\* or the newest snapshot has not been acknowledged.
OneWrites ==
    Alone /\ ~damaged =>
      /\ \A n \in DOMAIN files : files[n].good /\ files[n].previous = n - 1
      /\ \A s \in Saver :
           /\ saver[s].step = "read" => saver[s].previous = named
           /\ saver[s].step \in Busy \ {"read"} =>
                saver[s].number = named /\ named \notin acknowledged
           /\ saver[s].step \in {"pointed", "listed"} => latest = named
           /\ saver[s].step = "listed" =>
                \A n \in DOMAIN files : named >= n + MaxSnapshots => n \in saver[s].old
      /\ latest # 0 => latest \in DOMAIN files
      /\ named \in acknowledged => \A n \in DOMAIN files : named < n + MaxSnapshots

Continues == \A n \in DOMAIN files : files[n].previous < n

FailSafeInv ==
    /\ FailSafeTyped /\ Serialised /\ NamesStand /\ SavedIsKept /\ Continues /\ OneWrites
    /\ EffectsAreCovered
=============================================================================
