-------------------------------- MODULE Devices --------------------------------
(***************************************************************************)
(* The IoT user plane (app/iot): devices, their telemetry and quarantine,  *)
(* and commands that are prepared, confirmed and executed on a device.     *)
(*                                                                         *)
(* The routes are coroutines that await nothing, so a request is one step  *)
(* of the event loop; a step that stops in the middle of execute, by an    *)
(* exception of the adapter or a crash, leaves what it had stored.  Time   *)
(* counts minutes.                                                         *)
(***************************************************************************)
EXTENDS Naturals, Sequences, FiniteSets, FiniteSetsExt

CONSTANTS
    Device,            \* device ids
    Records,           \* the registrations: [enabled, allowed, confirm]
    Message,           \* message ids
    Command,           \* command ids
    Action,            \* what a device may be asked to do
    Supported,         \* the actions the adapter supports
    Freshness,         \* SARA_IOT_FRESHNESS_SECONDS
    Skew,              \* how far ahead of the server's clock a stamp may lie
    PerMinuteEvents,   \* SARA_IOT_EVENTS_PER_MINUTE
    FailureThreshold, FailureWindow, QuarantineTime,
    LastTime,          \* bound on time
    MaxFailureRows     \* bound on the failures of a device

ASSUME DevicesAssumption ==
    /\ Records \subseteq [enabled : BOOLEAN, allowed : SUBSET Action, confirm : SUBSET Action]
    /\ Supported \subseteq Action
    /\ FailureThreshold \in Nat \ {0, 1} /\ PerMinuteEvents \in Nat \ {0}
    /\ {Freshness, Skew, FailureWindow, QuarantineTime} \subseteq Nat /\ LastTime \in Nat \ {0}

VARIABLES
    separate,     \* control and confirmation tokens are set, and are no other token
    device,       \* the devices table: device -> set of its record
    telemetry,    \* telemetry_events: [device, message, stamp, at]
    replayIds,    \* replay_ids: [device, message, at]
    quarantine,   \* quarantine_events: device -> sequence of [at, until]
    command,      \* the commands table: command -> [status, device, action]
    acts,         \* what devices were asked to do: <<command, confirmed>>, a sequence
    time

devicesVars == <<separate, device, telemetry, replayIds, quarantine, command, acts, time>>

Never == 0
NoCommand == [status |-> "NONE", device |-> "", action |-> ""]

DevicesInit ==
    /\ separate \in [control : BOOLEAN, confirmation : BOOLEAN]
    /\ device = [d \in Device |-> {}]
    /\ telemetry = {}
    /\ replayIds = {}
    /\ quarantine = [d \in Device |-> <<>>]
    /\ command = [c \in Command |-> NoCommand]
    /\ acts = <<>>
    /\ time = 1

RecordOf(d) == CHOOSE r \in device[d] : TRUE

-----------------------------------------------------------------------------
\* register_device, with the control token: a new record replaces the old one.
RegisterDevice(d) ==
    /\ separate.control
    /\ \E r \in Records : device' = [device EXCEPT ![d] = {r}]
    /\ UNCHANGED <<separate, telemetry, replayIds, quarantine, command, acts, time>>

\* _failure: the failure is recorded, and enough of them within the window, the
\* quarantine rows among them, quarantine the device.
WithFailure(rows) ==
    LET failed == Append(rows, [at |-> time, until |-> Never])
        recent == SelectSeq(failed, LAMBDA row : row.at + FailureWindow >= time)
    IN IF Len(recent) >= FailureThreshold
       THEN Append(failed, [at |-> time, until |-> time + QuarantineTime]) ELSE failed

\* quarantine_until: the last row that names a time.
QuarantineUntil(d) ==
    LET dated == {i \in DOMAIN quarantine[d] : quarantine[d][i].until # Never}
    IN IF dated = {} THEN Never ELSE quarantine[d][Max(dated)].until

\* Mutant of Recent: the window starts after the minute.
RecentReplaysTooFew(d) == {r \in replayIds : r.device = d /\ r.at > time}

\* recent_replay_count over the last minute.
RecentReplays(d) == {r \in replayIds : r.device = d /\ r.at + 1 >= time}

\* What authenticate_telemetry refuses, in its order, besides the quarantine:
\* the device's secret, an event stamped too far ahead or too old, its topic,
\* metrics and size (shaped), the rate and the replay.
Refuses(d, m, stamp, secret, shaped) ==
    \/ ~secret
    \/ stamp > time + Skew \/ time > stamp + Freshness
    \/ ~shaped
    \/ Cardinality(RecentReplays(d)) >= PerMinuteEvents
    \/ \E r \in replayIds : r.device = d /\ r.message = m

\* Telemetry of an unknown or disabled device, or one that is refused, counts as
\* a failure of the device it names.
RefuseTelemetry(d, m) ==
    /\ Len(quarantine[d]) < MaxFailureRows
    /\ \/ \A r \in device[d] : ~r.enabled
       \/ /\ QuarantineUntil(d) <= time
          /\ \E stamp \in 1..(LastTime + Skew + 1), secret \in BOOLEAN, shaped \in BOOLEAN :
               Refuses(d, m, stamp, secret, shaped)
    /\ quarantine' = [quarantine EXCEPT ![d] = WithFailure(@)]
    /\ UNCHANGED <<separate, device, telemetry, replayIds, command, acts, time>>

\* TelemetryService.ingest: the message id is reserved before the event is
\* recorded; a crash in between leaves the id.
IngestTelemetry(d, m) ==
    /\ \E r \in device[d] : r.enabled
    /\ QuarantineUntil(d) <= time
    /\ \E stamp \in 1..(LastTime + Skew) :
         /\ ~Refuses(d, m, stamp, TRUE, TRUE)
         /\ telemetry' \in {telemetry, telemetry \cup {[device |-> d, message |-> m, stamp |-> stamp, at |-> time]}}
    /\ replayIds' = replayIds \cup {[device |-> d, message |-> m, at |-> time]}
    /\ UNCHANGED <<separate, device, quarantine, command, acts, time>>

-----------------------------------------------------------------------------
\* CommandService.prepare, for the owner or the GPT action: a fresh id.
Prepare(c, d, a) ==
    /\ command[c].status = "NONE"
    /\ \E r \in device[d] : r.enabled /\ a \in r.allowed
    /\ a \in Supported
    /\ command' = [command EXCEPT ![c] = [status |-> "PREPARED", device |-> d, action |-> a]]
    /\ UNCHANGED <<separate, device, telemetry, replayIds, quarantine, acts, time>>

\* Mutant of Executable: an outcome that was not verified may be tried again.
ExecutableAgain(c) == command[c].status \in {"PREPARED", "RESERVED", "SUBMISSION_UNVERIFIED"}

\* The states from which execute goes on.
Executable(c) == command[c].status = "PREPARED"

\* authorize_control and _verify_confirmation: the device's record as it is now.
MayCommand(c, confirmed) ==
    /\ separate.control
    /\ \E r \in device[command[c].device] :
         /\ command[c].action \in r.allowed
         /\ command[c].action \in r.confirm => separate.confirmation /\ confirmed

\* What the adapter may answer, and whether the device may have acted: never
\* after a refusal, always after an acknowledgement.
Outcomes ==
    {[status |-> "COMPLETED", acted |-> TRUE], [status |-> "REJECTED", acted |-> FALSE]}
    \cup [status : {"SUBMISSION_UNVERIFIED", "RESERVED"}, acted : BOOLEAN]

\* CommandService.execute: reserved, sent, and settled by the outcome; RESERVED
\* stays when the adapter raises or the process dies.
ExecuteCommand(c) ==
    /\ Executable(c)
    /\ \E confirmed \in BOOLEAN, o \in Outcomes :
         /\ MayCommand(c, confirmed)
         /\ command' = [command EXCEPT ![c].status = o.status]
         /\ acts' = IF o.acted THEN Append(acts, <<c, confirmed>>) ELSE acts
    /\ UNCHANGED <<separate, device, telemetry, replayIds, quarantine, time>>

MinutePasses ==
    /\ time < LastTime
    /\ time' = time + 1
    /\ UNCHANGED <<separate, device, telemetry, replayIds, quarantine, command, acts>>

DevicesNext ==
    \/ \E d \in Device :
         \/ RegisterDevice(d)
         \/ \E m \in Message : RefuseTelemetry(d, m) \/ IngestTelemetry(d, m)
         \/ \E c \in Command, a \in Action : Prepare(c, d, a)
    \/ \E c \in Command : ExecuteCommand(c)
    \/ MinutePasses

DevicesSpec == DevicesInit /\ [][DevicesNext]_devicesVars

-----------------------------------------------------------------------------
DevicesTypeOK ==
    /\ \A d \in Device : device[d] \subseteq Records /\ Cardinality(device[d]) <= 1
    /\ \A c \in Command : command[c].status \in
         {"NONE", "PREPARED", "RESERVED", "COMPLETED", "REJECTED", "SUBMISSION_UNVERIFIED"}
    /\ time \in 1..LastTime

ActsOnce ==
    /\ \A i, j \in DOMAIN acts : acts[i][1] = acts[j][1] => i = j
    /\ \A c \in Command :
         LET acted == \E i \in DOMAIN acts : acts[i][1] = c
         IN /\ command[c].status \in {"NONE", "PREPARED", "REJECTED"} => ~acted
            /\ command[c].status = "COMPLETED" => acted

TelemetryIsFresh ==
    \A e, f \in telemetry :
      /\ e.stamp <= e.at + Skew /\ e.at <= e.stamp + Freshness
      /\ <<e.device, e.message>> = <<f.device, f.message>> => e = f

QuarantineStands ==
    \A e \in telemetry : \A i \in DOMAIN quarantine[e.device] :
      LET row == quarantine[e.device][i] IN row.at < e.at => row.until <= e.at

RateIsKept ==
    \A d \in Device, t \in 1..LastTime :
      Cardinality({r \in replayIds : r.device = d /\ r.at \in {t, t + 1}}) <= PerMinuteEvents

\* A device acts at most once on a command, whatever answer is lost, and never
\* on one that is still prepared or that it has rejected; a completed command
\* was acted on.  A message is taken once, at the allowed rate, no older than the
\* freshness and no further ahead of the clock than the skew, and none is taken
\* after a failure that reached the threshold until its quarantine ends.
DevicesActOnce == ActsOnce /\ TelemetryIsFresh /\ QuarantineStands /\ RateIsKept

-----------------------------------------------------------------------------
(* The inductive invariant. *)

DevicesTyped ==
    /\ DevicesTypeOK
    /\ device \in [Device -> SUBSET Records]
    /\ command \in [Command -> [status : {"NONE", "PREPARED", "RESERVED", "COMPLETED", "REJECTED",
                                        "SUBMISSION_UNVERIFIED"},
                                device : Device \cup {""}, action : Action \cup {""}]]
    /\ acts \in Seq(Command \X BOOLEAN)
    /\ telemetry \subseteq [device : Device, message : Message, stamp : Nat, at : 1..time]
    /\ replayIds \subseteq [device : Device, message : Message, at : 1..time]
    /\ IsFiniteSet(replayIds)
    /\ quarantine \in [Device -> Seq([at : Nat, until : Nat])]

\* Every event taken has its message id reserved.
EventsAreReserved ==
    \A e \in telemetry : [device |-> e.device, message |-> e.message, at |-> e.at] \in replayIds

\* The rows of a device are in the order of their times, so the last time named
\* is the latest.
RowsAreOrdered ==
    \A d \in Device : \A i \in DOMAIN quarantine[d] :
      /\ quarantine[d][i].at <= time
      /\ quarantine[d][i].until \in {Never, quarantine[d][i].at + QuarantineTime}
      /\ \A j \in DOMAIN quarantine[d] : i <= j => quarantine[d][i].at <= quarantine[d][j].at

DevicesInv == DevicesTyped /\ EventsAreReserved /\ RowsAreOrdered /\ DevicesActOnce
=============================================================================
