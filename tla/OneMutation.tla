----------------------------- MODULE OneMutation -----------------------------
(***************************************************************************)
(* What an idempotency key promises: it is claimed by one request for      *)
(* good, that request is performed at most once, "done" is only written    *)
(* after it was performed, and a "refused" request is never performed.     *)
(* How an outcome may be revised is a parameter.                           *)
(***************************************************************************)
CONSTANTS
    Key,
    Request,
    Moves,   \* the pairs <<old, new>> of statuses a record may go through
    None

VARIABLES
    record,     \* [Key -> None or [request, status]]
    performed   \* the keys whose request has taken effect

mvars == <<record, performed>>

Status == {"pending", "done", "refused", "unknown"}

MInit ==
    /\ record = [k \in Key |-> None]
    /\ performed = {}

Claim(k) ==
    /\ record[k] = None
    /\ \E q \in Request : record' = [record EXCEPT ![k] = [request |-> q, status |-> "pending"]]
    /\ UNCHANGED performed

Perform(k) ==
    /\ record[k] # None
    /\ record[k].status # "refused"
    /\ k \notin performed
    /\ performed' = performed \cup {k}
    /\ UNCHANGED record

Settle(k) ==
    /\ record[k] # None
    /\ \E s \in Status :
         /\ <<record[k].status, s>> \in Moves
         /\ s = "done" => k \in performed
         /\ s = "refused" => k \notin performed
         /\ record' = [record EXCEPT ![k].status = s]
    /\ UNCHANGED performed

MNext == \E k \in Key : Claim(k) \/ Perform(k) \/ Settle(k)

MSpec == MInit /\ [][MNext]_mvars
=============================================================================
