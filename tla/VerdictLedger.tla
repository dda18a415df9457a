---------------------------- MODULE VerdictLedger ----------------------------
(***************************************************************************)
(* OmegaVerdictLedger.append of app/ledger.py, as SaraOmega.solve calls it *)
(* (app/orchestrator.py).  main.py and app/user_gateway.py each build a    *)
(* SaraOmega, so two ledgers, each with an asyncio.Lock of its own, write  *)
(* to one sara_omega.db.                                                   *)
(*                                                                         *)
(* The handlers are coroutines on one event loop: a step runs to the next  *)
(* await, and a step that waits for SQLite stops the loop.  append awaits  *)
(* the remote signers between BEGIN IMMEDIATE and COMMIT.                  *)
(*                                                                         *)
(* A record's hash is determined by the call that made it and names it.    *)
(***************************************************************************)
EXTENDS Naturals, Sequences

CONSTANTS
    Coroutine,    \* the handlers of requests on the event loop
    Call,         \* those that call solve
    Ledger,       \* instances of OmegaVerdictLedger
    None,         \* no call; as a hash, GENESIS_HASH
    Env,          \* what the environment may do in this instance
    MaxCrashes    \* bound: process restarts

ASSUME LedgerAssumption ==
    /\ Call \subseteq Coroutine
    /\ None \notin Coroutine \cup Ledger
    /\ MaxCrashes \in Nat

VARIABLES
    append,    \* the calls: pc, ledger, and the head read under the write lock
    queue,     \* the _append_lock of each ledger: its holder and who waits, in order
    writer,    \* who holds the SQLite write lock
    chain,     \* table omega_verdict_ledger
    running,   \* the coroutine that has the event loop, None at an await
    crashes    \* number of restarts so far

ledgerVars == <<append, queue, writer, chain, running, crashes>>

New == [pc |-> "new", ledger |-> None, prev |-> None]

LedgerInit ==
    /\ append  = [c \in Call |-> New]
    /\ queue   = [l \in Ledger |-> <<>>]
    /\ writer  = None
    /\ chain   = <<>>
    /\ running = None
    /\ crashes = 0

-----------------------------------------------------------------------------
\* chain_head of app/ledger.py.
ChainHead(ch) == IF ch = <<>> THEN None ELSE ch[Len(ch)].id

\* verify_chain: every record names its predecessor.
Verifies(ch) ==
    \A i \in DOMAIN ch : ch[i].prev = IF i = 1 THEN None ELSE ch[i - 1].id

Recorded(c) == \E i \in DOMAIN chain : chain[i].id = c

HasAppendLock(c) ==
    /\ append[c].pc # "new"
    /\ queue[append[c].ledger] # <<>>
    /\ Head(queue[append[c].ledger]) = c

\* `async with self._append_lock` is left: the next in line has the lock.
LeaveLock(c) == queue' = [queue EXCEPT ![append[c].ledger] = Tail(@)]

Goto(c, pc) == append' = [append EXCEPT ![c].pc = pc]

\* The Council has its verdict and solve calls append.
Arrive(c, l) ==
    /\ running = None
    /\ append[c].pc = "new"
    /\ append' = [append EXCEPT ![c].pc = "queued", ![c].ledger = l]
    /\ queue' = [queue EXCEPT ![l] = Append(@, c)]
    /\ UNCHANGED <<writer, chain, running, crashes>>

\* Mutant of Begin: a deferred BEGIN, which takes no lock.
BeginDeferred(c) ==
    /\ running = None
    /\ append[c].pc = "queued"
    /\ HasAppendLock(c)
    /\ append' = [append EXCEPT ![c].pc = "signing", ![c].prev = ChainHead(chain)]
    /\ UNCHANGED <<queue, writer, chain, running, crashes>>

\* Mutant of Begin: a BEGIN that fails keeps the _append_lock.
BeginKeepingLock(c) ==
    /\ running = None
    /\ append[c].pc = "queued"
    /\ HasAppendLock(c)
    /\ IF writer # None
       THEN Goto(c, "raised") /\ UNCHANGED <<queue, writer>>
       ELSE /\ append' = [append EXCEPT ![c].pc = "signing", ![c].prev = ChainHead(chain)]
            /\ writer' = c
            /\ UNCHANGED queue
    /\ UNCHANGED <<chain, running, crashes>>

\* The holder of the _append_lock verifies the chain and begins its
\* transaction.  If another append has the write lock, BEGIN IMMEDIATE waits
\* for it on the event loop, where the other cannot proceed; after the busy
\* timeout it raises an OperationalError that solve does not catch.
Begin(c) ==
    /\ running = None
    /\ append[c].pc = "queued"
    /\ HasAppendLock(c)
    /\ IF Verifies(chain) /\ writer = None
       THEN /\ append' = [append EXCEPT ![c].pc = "signing", ![c].prev = ChainHead(chain)]
            /\ writer' = c
            /\ UNCHANGED <<queue, running>>
       ELSE /\ Goto(c, IF Verifies(chain) THEN "raised" ELSE "nondurable")
            /\ LeaveLock(c)
            /\ running' = IF Verifies(chain) THEN None ELSE c
            /\ UNCHANGED writer
    /\ UNCHANGED <<chain, crashes>>

\* SQLite fails before the transaction has begun.  verify_chain answers False
\* to any error of its own, so that the append fails as on a chain that does
\* not verify; the connection and BEGIN IMMEDIATE raise.
BeginError(c) ==
    /\ "sqlite_error" \in Env
    /\ running = None
    /\ append[c].pc = "queued"
    /\ HasAppendLock(c)
    /\ \/ Goto(c, "nondurable") /\ running' = c
       \/ Goto(c, "raised") /\ running' = None
    /\ LeaveLock(c)
    /\ UNCHANGED <<writer, chain, crashes>>

\* Both signers have signed and verified: INSERT and COMMIT.
Commit(c) ==
    /\ running = None
    /\ append[c].pc = "signing"
    /\ chain' = Append(chain, [id |-> c, prev |-> append[c].prev])
    /\ Goto(c, "confirm")
    /\ writer' = None
    /\ running' = c
    /\ UNCHANGED <<queue, crashes>>

\* Mutant of SignFail: the record was inserted before it was signed.
SignFailKept(c) ==
    /\ running = None
    /\ append[c].pc = "signing"
    /\ chain' = Append(chain, [id |-> c, prev |-> append[c].prev])
    /\ Goto(c, "nondurable")
    /\ LeaveLock(c)
    /\ writer' = None
    /\ running' = c
    /\ UNCHANGED crashes

\* A signer refuses, cannot be reached or does not answer in time: rollback,
\* and the verdict is answered as not durable.
SignFail(c) ==
    /\ running = None
    /\ append[c].pc = "signing"
    /\ Goto(c, "nondurable")
    /\ LeaveLock(c)
    /\ writer' = None
    /\ running' = c
    /\ UNCHANGED <<chain, crashes>>

\* INSERT or COMMIT fails: rollback, and the exception reaches the client.
CommitError(c) ==
    /\ "sqlite_error" \in Env
    /\ running = None
    /\ append[c].pc = "signing"
    /\ Goto(c, "raised")
    /\ LeaveLock(c)
    /\ writer' = None
    /\ UNCHANGED <<chain, running, crashes>>

\* The record is read back and must be the head of a chain that verifies.
Confirm(c) ==
    /\ running = c
    /\ append[c].pc = "confirm"
    /\ Goto(c, IF Recorded(c) /\ ChainHead(chain) = c /\ Verifies(chain)
               THEN "durable" ELSE "unverified")
    /\ LeaveLock(c)
    /\ UNCHANGED <<writer, chain, running, crashes>>

\* A read of the confirmation fails.  In get and chain_head the exception
\* reaches the client; verify_chain turns it into False, so that the committed
\* record is SUBMISSION_UNVERIFIED and solve answers a verdict without a
\* decision_id, NON_DURABLE_RECORD_FAILED.
ConfirmError(c) ==
    /\ "sqlite_error" \in Env
    /\ running = c
    /\ append[c].pc = "confirm"
    /\ \/ Goto(c, "raised") /\ running' = None
       \/ Goto(c, "unverified") /\ UNCHANGED running
    /\ LeaveLock(c)
    /\ UNCHANGED <<writer, chain, crashes>>

\* What solve can return with.  Of the two that are not durable only the text
\* of the error tells the client which it is.
Verdicts == {"durable", "nondurable", "unverified"}

\* The handler of a call answers its client.
Return(c) ==
    /\ running = c
    /\ append[c].pc \in Verdicts
    /\ running' = None
    /\ UNCHANGED <<append, queue, writer, chain, crashes>>

\* A handler that does not call solve takes the event loop, or gives it back.
Elsewhere(o) ==
    /\ \/ running = None /\ running' = o
       \/ running = o /\ running' = None
    /\ UNCHANGED <<append, queue, writer, chain, crashes>>

\* The process dies: coroutines and locks are gone, SQLite rolls back.
LedgerCrash ==
    /\ crashes < MaxCrashes
    /\ append' = [c \in Call |->
         IF append[c].pc \in {"queued", "signing", "confirm"}
         THEN [append[c] EXCEPT !.pc = "lost"] ELSE append[c]]
    /\ queue' = [l \in Ledger |-> <<>>]
    /\ writer' = None
    /\ running' = None
    /\ crashes' = crashes + 1
    /\ UNCHANGED chain

\* A step of append once it has been called.
AppendStep(c) ==
    \/ Begin(c) \/ BeginError(c)
    \/ Commit(c) \/ SignFail(c) \/ CommitError(c)
    \/ Confirm(c) \/ ConfirmError(c)

LedgerNext ==
    \/ \E c \in Call : (\E l \in Ledger : Arrive(c, l)) \/ AppendStep(c) \/ Return(c)
    \/ \E o \in Coroutine \ Call : Elsewhere(o)
    \/ LedgerCrash

LedgerSpec == LedgerInit /\ [][LedgerNext]_ledgerVars

-----------------------------------------------------------------------------
(* Properties *)

AppendPc == {"new", "queued", "signing", "confirm", "raised", "lost"} \cup Verdicts

\* Every variable has its type; the chain holds records of calls.
LedgerTypeOK ==
    /\ append \in [Call -> [pc : AppendPc, ledger : Ledger \cup {None},
                            prev : Call \cup {None}]]
    /\ queue \in [Ledger -> Seq(Call)]
    /\ writer \in Call \cup {None}
    /\ chain \in Seq([id : Call, prev : Call \cup {None}])
    /\ running \in Coroutine \cup {None}
    /\ crashes \in Nat

\* The chain never forks, whichever ledgers append to it: each record names
\* the one before it, although the head was read before the signers answered.
NoFork == Verifies(chain)

\* An answer is true: a durable verdict is on the chain, and so is one that
\* could not be verified; one that failed for any other reason is not, and
\* stays off it.  A committed record is confirmed before another is appended:
\* it is still the head of a chain that verifies, so that only a read that
\* fails leaves it unverified.
AnswerIsTrue ==
    \A c \in Call :
        /\ append[c].pc \in {"durable", "unverified"} => Recorded(c)
        /\ append[c].pc = "nondurable" => ~Recorded(c)
        /\ append[c].pc = "confirm" =>
             Recorded(c) /\ ChainHead(chain) = c /\ Verifies(chain)

\* Nobody waits for the dead: whoever is first in line for an _append_lock, or
\* holds the write lock, is an append that is still going on.
HoldersAreAlive ==
    /\ \A l \in Ledger :
         queue[l] # <<>> => append[Head(queue[l])].pc \in {"queued", "signing", "confirm"}
    /\ writer # None => append[writer].pc = "signing"

\* What the plan asks of the ledger, "concurrent appends serialize safely":
\* an append waits for its turn and is not turned away.
AppendsSerialize == \A c \in Call : append[c].pc # "raised"
=============================================================================
