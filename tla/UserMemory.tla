------------------------------ MODULE UserMemory ------------------------------
(***************************************************************************)
(* The user gateway (app/user_gateway.py) over ConversationMemory and      *)
(* EncryptedStateStore (app/memory.py), for one user: solve and            *)
(* memory_forget, next to the verdict ledger, whose transactions are in    *)
(* the same sara_omega.db.                                                 *)
(*                                                                         *)
(* A solve reads its thread, awaits the Council and the ledger, and then   *)
(* writes three kinds of rows, each in a transaction of its own.  Once it  *)
(* is back from the await, nothing but a failure interrupts it.  Messages  *)
(* are named by the request whose exchange they record.                    *)
(***************************************************************************)
EXTENDS VerdictLedger, SequencesExt

CONSTANTS
    Solve,       \* solves at the user gateway
    Forget,      \* memory_forget requests
    Session,     \* the user's threads
    Gateway,     \* the ledger of user_gateway.py
    MaxItems,    \* SARA_MEMORY_CONTINUITY_MAX_ITEMS
    Recent       \* exchanges of a thread that continuity keeps

ASSUME MemoryAssumption ==
    /\ Solve \subseteq Call
    /\ Forget \subseteq Coroutine \ Call
    /\ None \notin Session
    /\ Gateway \in Ledger
    /\ MaxItems \in Nat \ {0}
    /\ Recent \in Nat

VARIABLES
    thread,        \* rows of conversation-user-v1: the exchanges of a session
    index,         \* row of conversation-user-index-v1: sessions, oldest first
    continuity,    \* row of conversation-user-continuity-v1
    request        \* the requests: step, state, and what they have read

memoryVars == <<thread, index, continuity, request>>

vars == <<ledgerVars, memoryVars>>

Request == Solve \cup Forget

Received == [step |-> "new", state |-> "open", session |-> None,
             history |-> <<>>, todo |-> <<>>]

Init ==
    /\ LedgerInit
    /\ thread     = [s \in Session |-> <<>>]
    /\ index      = <<>>
    /\ continuity = [s \in Session |-> <<>>]
    /\ request    = [r \in Request |-> Received]

-----------------------------------------------------------------------------
LastOf(seq, n) == SubSeq(seq, 1 + IF Len(seq) > n THEN Len(seq) - n ELSE 0, Len(seq))

\* The index with the session at its end, and nowhere else.
Unique(s) == Append(RemoveFirst(index, s), s)

\* Mutant of Indexed: nothing falls out.
IndexedAll(s) == Unique(s)

\* _save_thread_index: the session moves to the end, the oldest fall out.
Indexed(s) == LastOf(Unique(s), MaxItems)

Evicted(s) == SubSeq(Unique(s), 1, Len(Unique(s)) - MaxItems)

\* The thread with the exchange of this solve.
Updated(r) == Append(request[r].history, r)

Step(r, step) == request' = [request EXCEPT ![r].step = step]

\* The answer is sent.
Finish(r) ==
    /\ request' = [request EXCEPT ![r].state = "done"]
    /\ running' = None

\* A statement commits only if no append has the write lock.
Writable == writer = None

-----------------------------------------------------------------------------
\* A solve comes in and reads its thread.
Receive(r, s) ==
    /\ running = None
    /\ request[r].step = "new"
    /\ request' = [request EXCEPT ![r].step = "council", ![r].session = s,
                                  ![r].history = thread[s]]
    /\ UNCHANGED <<ledgerVars, thread, index, continuity>>

\* The Council has advised: solve goes on in the ledger.
Council(r) ==
    /\ request[r].step = "council"
    /\ request[r].state = "open"
    /\ Arrive(r, Gateway)
    /\ UNCHANGED memoryVars

\* save_for_user, first transaction.
SaveThread(r) ==
    /\ running = r
    /\ request[r].step = "council"
    /\ append[r].pc \in Verdicts
    /\ Writable
    /\ thread' = [thread EXCEPT ![request[r].session] = Updated(r)]
    /\ Step(r, "index")
    /\ UNCHANGED <<ledgerVars, index, continuity>>

\* Mutant of SaveIndex: what falls out of the index is not deleted.
SaveIndexKeeping(r) ==
    /\ running = r
    /\ request[r].step = "index"
    /\ Writable
    /\ index' = Indexed(request[r].session)
    /\ Step(r, "continuity")
    /\ UNCHANGED <<ledgerVars, thread, continuity>>

\* save_for_user, second transaction.
SaveIndex(r) ==
    /\ running = r
    /\ request[r].step = "index"
    /\ Writable
    /\ index' = Indexed(request[r].session)
    /\ request' = [request EXCEPT ![r].step = "evict", ![r].todo = Evicted(request[r].session)]
    /\ UNCHANGED <<ledgerVars, thread, continuity>>

\* The threads that fell out of the index are deleted, one at a time.
Evict(r) ==
    /\ running = r
    /\ request[r].step = "evict"
    /\ IF request[r].todo = <<>>
       THEN Step(r, "continuity") /\ UNCHANGED thread
       ELSE /\ Writable
            /\ thread' = [thread EXCEPT ![Head(request[r].todo)] = <<>>]
            /\ request' = [request EXCEPT ![r].todo = Tail(@)]
    /\ UNCHANGED <<ledgerVars, index, continuity>>

\* update_user_continuity.  Its own save of the index changes nothing: the
\* session is already the last one.
SaveContinuity(r) ==
    /\ running = r
    /\ request[r].step = "continuity"
    /\ Writable
    /\ continuity' = [s \in Session |->
         IF s = request[r].session THEN LastOf(Updated(r), Recent)
         ELSE IF s \in ToSet(index) THEN continuity[s] ELSE <<>>]
    /\ Finish(r)
    /\ UNCHANGED <<append, queue, writer, chain, crashes, thread, index>>

\* Mutant of ReceiveForget: the handler is a plain `def`, on a thread.
ReceiveForgetThreaded(r) ==
    /\ request[r].step = "new"
    /\ request' = [request EXCEPT ![r].step = "threads", ![r].todo = index]
    /\ running' = r
    /\ UNCHANGED <<append, queue, writer, chain, crashes, thread, index, continuity>>

\* A memory_forget comes in and reads the index.
ReceiveForget(r) ==
    /\ running = None
    /\ request[r].step = "new"
    /\ request' = [request EXCEPT ![r].step = "threads", ![r].todo = index]
    /\ running' = r
    /\ UNCHANGED <<append, queue, writer, chain, crashes, thread, index, continuity>>

\* forget_user deletes the threads that the index names, one at a time.
ForgetThread(r) ==
    /\ running = r
    /\ request[r].step = "threads"
    /\ IF request[r].todo = <<>>
       THEN Step(r, "forget index") /\ UNCHANGED thread
       ELSE /\ Writable
            /\ thread' = [thread EXCEPT ![Head(request[r].todo)] = <<>>]
            /\ request' = [request EXCEPT ![r].todo = Tail(@)]
    /\ UNCHANGED <<ledgerVars, index, continuity>>

\* Mutant of ForgetIndex: continuity is left to the next solve.
ForgetIndexOnly(r) ==
    /\ running = r
    /\ request[r].step = "forget index"
    /\ Writable
    /\ index' = <<>>
    /\ Finish(r)
    /\ UNCHANGED <<append, queue, writer, chain, crashes, thread, continuity>>

ForgetIndex(r) ==
    /\ running = r
    /\ request[r].step = "forget index"
    /\ Writable
    /\ index' = <<>>
    /\ Step(r, "forget continuity")
    /\ UNCHANGED <<ledgerVars, thread, continuity>>

ForgetContinuity(r) ==
    /\ running = r
    /\ request[r].step = "forget continuity"
    /\ Writable
    /\ continuity' = [s \in Session |-> <<>>]
    /\ Finish(r)
    /\ UNCHANGED <<append, queue, writer, chain, crashes, thread, index>>

\* A transaction fails: always, after the busy timeout, while an append of the
\* other ledger has the write lock, and whenever SQLite reports an error.
WriteFails(r) ==
    /\ running = r
    /\ request[r].state = "open"
    /\ request[r].step = "council" => append[r].pc \in Verdicts
    /\ ~Writable \/ "sqlite_error" \in Env
    /\ request' = [request EXCEPT ![r].state = "failed"]
    /\ running' = None
    /\ UNCHANGED <<append, queue, writer, chain, crashes, thread, index, continuity>>

\* The process dies with every request in it.
Crash ==
    /\ LedgerCrash
    /\ request' = [r \in Request |->
         IF request[r].step # "new" /\ request[r].state = "open"
         THEN [request[r] EXCEPT !.state = "failed"] ELSE request[r]]
    /\ UNCHANGED <<thread, index, continuity>>

SaveStep(r) == SaveThread(r) \/ SaveIndex(r) \/ Evict(r) \/ SaveContinuity(r)

ForgetStep(r) == ForgetThread(r) \/ ForgetIndex(r) \/ ForgetContinuity(r)

\* A solve that did not come from the user gateway ends with the ledger.
LedgerStep(c) ==
    /\ AppendStep(c) \/ (c \notin Solve /\ Return(c))
    /\ UNCHANGED memoryVars

ArriveElsewhere(c) ==
    /\ c \notin Solve
    /\ \E l \in Ledger \ {Gateway} : Arrive(c, l)
    /\ UNCHANGED memoryVars

Next ==
    \/ \E c \in Call : ArriveElsewhere(c) \/ LedgerStep(c)
    \/ \E r \in Solve : (\E s \in Session : Receive(r, s)) \/ Council(r) \/ SaveStep(r)
    \/ \E r \in Forget : ReceiveForget(r) \/ ForgetStep(r)
    \/ \E r \in Request : WriteFails(r)
    \/ Crash

Spec == Init /\ [][Next]_vars

-----------------------------------------------------------------------------
(* Properties *)

MemorySteps == {"new", "council", "index", "evict", "continuity",
                "threads", "forget index", "forget continuity"}

\* Every variable has its type; the index is bounded and has no duplicates.
MemoryTypeOK ==
    /\ LedgerTypeOK
    /\ thread \in [Session -> Seq(Solve)]
    /\ index \in Seq(Session) /\ Len(index) <= MaxItems /\ IsInjective(index)
    /\ continuity \in [Session -> Seq(Solve)]
    /\ request \in [Request -> [step : MemorySteps, state : {"open", "done", "failed"},
                                session : Session \cup {None},
                                history : Seq(Solve), todo : Seq(Session)]]

\* The sessions whose threads a solve has written or fallen out of the index,
\* and that it has not put in or deleted yet.
Half(r) ==
    CASE request[r].step = "index" -> {request[r].session}
      [] request[r].step = "evict" -> ToSet(request[r].todo)
      [] OTHER                     -> {}

\* The sessions whose threads a failed save can leave outside the index: it
\* failed after the thread was written, or before the evicted were deleted.
Stray == UNION {Half(r) : r \in {q \in Solve : request[q].state = "failed"}}

\* Whenever a request may look, the index names every stored thread but those
\* of failed saves, so that a forget, even one repeated after a crash, finds them.
IndexNamesAll ==
    running = None =>
        \A s \in Session : thread[s] # <<>> => s \in ToSet(index) \cup Stray

\* memory_forget answers when nothing of the user is stored, except for threads
\* of saves that failed half way, which it cannot find.
ForgetErases ==
    [][\A r \in Forget :
          request[r].state = "open" /\ request'[r].state = "done" =>
              /\ \A s \in Session : thread'[s] # <<>> => s \in Stray'
              /\ index' = <<>>
              /\ \A s \in Session : continuity'[s] = <<>>]_vars

Stored(q) == \E s \in Session : q \in ToSet(thread[s]) \cup ToSet(continuity[s])

\* An exchange that was answered, and that a forget has deleted.
Forgotten(q) ==
    /\ request[q].state = "done"
    /\ ~Stored(q)
    /\ \E r \in Forget : request[r].state = "done"

\* What the design says of memory_forget, that it "deletes all encrypted
\* conversation and continuity records": what it deleted does not come back.
ForgottenStaysForgotten ==
    [][\A q \in Solve : Forgotten(q) => Forgotten(q)']_vars

-----------------------------------------------------------------------------
(* The inductive invariant, besides the ledger's *)

\* The ledger runs for open solves only, and whoever has the loop is open.
RunnerIsOpen ==
    /\ \A r \in Solve :
         append[r].pc \in {"queued", "signing", "confirm"} =>
             request[r].step = "council" /\ request[r].state = "open"
    /\ \A r \in Request :
         /\ request[r].step = "new" => request[r].state = "open"
         /\ running = r => request[r].state = "open" /\ request[r].step # "new"
         /\ r \in Solve /\ request[r].step # "new" => request[r].session \in Session

\* What failed saves have left outside the index, and a running one has there.
Loose ==
    UNION {Half(r) : r \in {q \in Solve : request[q].state = "failed" \/ running = q}}

\* The index names every thread that is not loose; a forget still has on its
\* list every thread it has to delete.
ThreadsAreFound ==
    /\ \A s \in Session : thread[s] # <<>> => s \in ToSet(index) \cup Loose
    /\ \A r \in Forget : running = r =>
         /\ request[r].step = "threads" =>
               \A s \in Session : thread[s] # <<>> => s \in ToSet(request[r].todo) \cup Loose
         /\ request[r].step \in {"forget index", "forget continuity"} =>
               \A s \in Session : thread[s] # <<>> => s \in Loose
         /\ request[r].step = "forget continuity" => index = <<>>

MemoryInv == MemoryTypeOK /\ RunnerIsOpen /\ ThreadsAreFound
=============================================================================
