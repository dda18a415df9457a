---------------------------- MODULE MemoryProofs ----------------------------
(***************************************************************************)
(* What the verdict ledger guarantees for any number of calls, ledgers,    *)
(* coroutines and crashes; and that the user gateway uses it as its        *)
(* specification says, so that what is proved of the ledger holds where it *)
(* is used.                                                                *)
(***************************************************************************)
EXTENDS UserMemory, SequenceTheorems, TLAPS

USE LedgerAssumption

-----------------------------------------------------------------------------
(* The inductive invariant of the ledger. *)

Alive == {"queued", "signing", "confirm"}

\* The append that signs is the one that has the write lock, and the head it
\* read is still the head.
LockInv ==
    /\ \A c \in Call : append[c].pc = "signing" <=> writer = c
    /\ \A c \in Call : writer = c => append[c].prev = ChainHead(chain)

\* A record that is to be confirmed is the head, and its append has the loop.
ConfirmInv ==
    \A c \in Call : append[c].pc = "confirm" =>
        running = c /\ Recorded(c) /\ ChainHead(chain) = c

\* Only an append that committed has a record.
RecordInv ==
    \A c \in Call : Recorded(c) => append[c].pc \in
        {"confirm", "durable", "unverified", "raised", "lost"}

\* The place of an append in the queue of its ledger.
QueueInv ==
    /\ \A l \in Ledger : \A i \in 1 .. Len(queue[l]) :
         /\ append[queue[l][i]].ledger = l
         /\ append[queue[l][i]].pc \in Alive
         /\ i > 1 => append[queue[l][i]].pc = "queued"
         /\ \A j \in 1 .. Len(queue[l]) : queue[l][i] = queue[l][j] => i = j
    /\ \A c \in Call : append[c].pc \in {"signing", "confirm"} =>
         append[c].ledger \in Ledger /\ HasAppendLock(c)

\* A call that has arrived belongs to a ledger.
PlaceInv == \A c \in Call : append[c].pc # "new" => append[c].ledger \in Ledger

LedgerInv ==
    /\ LedgerTypeOK
    /\ PlaceInv
    /\ NoFork
    /\ AnswerIsTrue
    /\ LockInv
    /\ ConfirmInv
    /\ RecordInv
    /\ QueueInv

-----------------------------------------------------------------------------
LEMMA InitInv == LedgerInit => LedgerInv
BY DEF LedgerInit, LedgerInv, LedgerTypeOK, NoFork, Verifies, AnswerIsTrue, LockInv,
       ConfirmInv, RecordInv, Recorded, QueueInv, PlaceInv, HasAppendLock, New, AppendPc, Verdicts,
       Alive

\* The append that is first in line leaves: those behind it keep their places.
LEMMA LeaveQueue ==
    ASSUME LedgerTypeOK, QueueInv, NEW c \in Call, append[c].ledger \in Ledger,
           HasAppendLock(c), LeaveLock(c),
           append' \in [Call -> [pc : AppendPc, ledger : Ledger \cup {None},
                                 prev : Call \cup {None}]],
           \A d \in Call : d # c => append'[d] = append[d],
           append'[c].pc \notin {"signing", "confirm"}
    PROVE  /\ queue' \in [Ledger -> Seq(Call)]
           /\ QueueInv'
<1> DEFINE m == append[c].ledger
<1>1. /\ queue[m] \in Seq(Call)
      /\ queue[m] # <<>>
      /\ queue[m][1] = c
  BY DEF LedgerTypeOK, HasAppendLock
<1>2. /\ queue' = [queue EXCEPT ![m] = Tail(queue[m])]
      /\ Tail(queue[m]) \in Seq(Call)
      /\ Len(Tail(queue[m])) = Len(queue[m]) - 1
      /\ \A i \in 1 .. Len(queue[m]) - 1 : Tail(queue[m])[i] = queue[m][i + 1]
      /\ Len(queue[m]) \in Nat
  BY <1>1 DEF LeaveLock
<1>3. queue' \in [Ledger -> Seq(Call)]
  BY <1>1, <1>2 DEF LedgerTypeOK
<1>4. ASSUME NEW l \in Ledger, NEW i \in 1 .. Len(queue'[l])
      PROVE  \E k \in 1 .. Len(queue[l]) :
               /\ queue'[l][i] = queue[l][k]
               /\ k = IF l = m THEN i + 1 ELSE i
               /\ queue[l][k] # c
  <2>1. CASE l = m
    <3>1. queue'[l][i] = queue[l][i + 1] /\ i + 1 \in 1 .. Len(queue[l])
      BY <2>1, <1>2, <1>3 DEF LedgerTypeOK
    <3>2. queue[l][i + 1] # c
      <4>1. i + 1 # 1 /\ 1 \in 1 .. Len(queue[l])
        BY <3>1, <1>2, <2>1
      <4> QED
        BY <4>1, <3>1, <1>1, <2>1 DEF QueueInv
    <3> QED
      BY <2>1, <3>1, <3>2
  <2>2. CASE l # m
    <3>1. queue'[l] = queue[l]
      BY <2>2, <1>2 DEF LedgerTypeOK
    <3>2. queue[l][i] # c
      BY <3>1, <2>2 DEF QueueInv
    <3> QED
      BY <2>2, <3>1, <3>2
  <2> QED
    BY <2>1, <2>2
<1>5. ASSUME NEW l \in Ledger, NEW i \in 1 .. Len(queue'[l])
      PROVE  /\ append'[queue'[l][i]].ledger = l
             /\ append'[queue'[l][i]].pc \in Alive
             /\ i > 1 => append'[queue'[l][i]].pc = "queued"
             /\ \A j \in 1 .. Len(queue'[l]) : queue'[l][i] = queue'[l][j] => i = j
  <2>1. PICK k \in 1 .. Len(queue[l]) :
            /\ queue'[l][i] = queue[l][k]
            /\ k = IF l = m THEN i + 1 ELSE i
            /\ queue[l][k] # c
    BY <1>4
  <2>2. queue[l][k] \in Call /\ append'[queue[l][k]] = append[queue[l][k]]
    <3>1. queue[l] \in Seq(Call)
      BY DEF LedgerTypeOK
    <3> QED
      BY <3>1, <2>1
  <2>3. /\ append[queue[l][k]].ledger = l
        /\ append[queue[l][k]].pc \in Alive
        /\ k > 1 => append[queue[l][k]].pc = "queued"
        /\ \A j \in 1 .. Len(queue[l]) : queue[l][k] = queue[l][j] => k = j
    BY DEF QueueInv
  <2>4. i \in Nat /\ (i > 1 => k > 1)
    BY <2>1, <1>3
  <2>5. ASSUME NEW j \in 1 .. Len(queue'[l]), queue'[l][i] = queue'[l][j]
        PROVE  i = j
    <3>1. PICK n \in 1 .. Len(queue[l]) :
              queue'[l][j] = queue[l][n] /\ n = IF l = m THEN j + 1 ELSE j
      BY <1>4
    <3>2. k = n
      BY <3>1, <2>1, <2>3, <2>5
    <3> QED
      BY <3>1, <3>2, <2>1, <1>3
  <2> QED
    BY <2>1, <2>2, <2>3, <2>4, <2>5
<1>6. ASSUME NEW d \in Call, append'[d].pc \in {"signing", "confirm"}
      PROVE  append'[d].ledger \in Ledger /\ HasAppendLock(d)'
  <2>1. d # c /\ append'[d] = append[d]
    BY <1>6
  <2>2. append[d].ledger \in Ledger /\ HasAppendLock(d)
    BY <2>1, <1>6 DEF QueueInv
  <2>3. append[d].ledger # m
    BY <2>1, <2>2, <1>1 DEF HasAppendLock
  <2>4. queue'[append[d].ledger] = queue[append[d].ledger]
    BY <2>2, <2>3, <1>2 DEF LedgerTypeOK
  <2> QED
    BY <2>1, <2>2, <2>4 DEF HasAppendLock
<1>7. QueueInv'
  BY <1>5, <1>6 DEF QueueInv
<1> QED
  BY <1>3, <1>7

\* A call moves on: only its pc changes.
LEMMA GotoPc ==
    ASSUME LedgerTypeOK, NEW c \in Call, NEW p \in AppendPc, Goto(c, p)
    PROVE  /\ append' \in [Call -> [pc : AppendPc, ledger : Ledger \cup {None},
                                    prev : Call \cup {None}]]
           /\ append'[c].pc = p
           /\ append'[c].ledger = append[c].ledger
           /\ \A d \in Call : d # c => append'[d] = append[d]
BY DEF LedgerTypeOK, Goto

\* An append reads the head and begins to sign.
LEMMA SignPc ==
    ASSUME LedgerTypeOK, NEW c \in Call,
           append' = [append EXCEPT ![c].pc = "signing", ![c].prev = ChainHead(chain)]
    PROVE  /\ append' \in [Call -> [pc : AppendPc, ledger : Ledger \cup {None},
                                    prev : Call \cup {None}]]
           /\ append'[c].pc = "signing"
           /\ append'[c].ledger = append[c].ledger
           /\ append'[c].prev = ChainHead(chain)
           /\ \A d \in Call : d # c => append'[d] = append[d]
<1>1. ChainHead(chain) \in Call \cup {None}
  BY DEF LedgerTypeOK, ChainHead
<1> QED
  BY <1>1 DEF LedgerTypeOK, AppendPc

\* A record that names the head extends the chain.
LEMMA ChainExtends ==
    ASSUME LedgerTypeOK, NoFork, NEW c \in Call, append[c].prev = ChainHead(chain),
           chain' = Append(chain, [id |-> c, prev |-> append[c].prev])
    PROVE  /\ chain' \in Seq([id : Call, prev : Call \cup {None}])
           /\ NoFork'
           /\ ChainHead(chain') = c
           /\ \A d \in Call : Recorded(d)' <=> Recorded(d) \/ d = c
<1> DEFINE r == [id |-> c, prev |-> append[c].prev]
<1>1. r \in [id : Call, prev : Call \cup {None}]
  BY DEF LedgerTypeOK
<1>2. chain \in Seq([id : Call, prev : Call \cup {None}])
  BY DEF LedgerTypeOK
<1>3. /\ chain' \in Seq([id : Call, prev : Call \cup {None}])
      /\ DOMAIN chain = 1 .. Len(chain)
      /\ DOMAIN chain' = 1 .. Len(chain) + 1
      /\ Len(chain') = Len(chain) + 1
      /\ Len(chain) \in Nat
      /\ \A i \in 1 .. Len(chain) : chain'[i] = chain[i]
      /\ chain'[Len(chain) + 1] = r
  BY <1>1, <1>2
<1>4. r.id = c /\ r.prev = ChainHead(chain)
  OBVIOUS
<1> HIDE DEF r
<1>5. NoFork'
  <2> SUFFICES ASSUME NEW i \in DOMAIN chain'
               PROVE  chain'[i].prev = IF i = 1 THEN None ELSE chain'[i - 1].id
    BY DEF NoFork, Verifies
  <2>1. CASE i \in 1 .. Len(chain)
    <3>1. i = 1 \/ i - 1 \in 1 .. Len(chain)
      BY <2>1, <1>3
    <3>2. chain[i].prev = IF i = 1 THEN None ELSE chain[i - 1].id
      BY <2>1, <1>3 DEF NoFork, Verifies
    <3> QED
      BY <2>1, <3>1, <3>2, <1>3
  <2>2. CASE i = Len(chain) + 1
    <3>1. CASE chain = <<>>
      BY <3>1, <2>2, <1>3, <1>4, <1>2 DEF ChainHead
    <3>2. CASE chain # <<>>
      <4>1. Len(chain) \in 1 .. Len(chain) /\ i # 1 /\ i - 1 = Len(chain)
        BY <3>2, <2>2, <1>2, <1>3
      <4> QED
        BY <4>1, <3>2, <2>2, <1>3, <1>4 DEF ChainHead
    <3> QED
      BY <3>1, <3>2
  <2> QED
    BY <2>1, <2>2, <1>3
<1>6. ChainHead(chain') = c
  BY <1>3, <1>4 DEF ChainHead
<1>7. ASSUME NEW d \in Call
      PROVE  Recorded(d)' <=> Recorded(d) \/ d = c
  <2>1. ASSUME Recorded(d) PROVE Recorded(d)'
    BY <2>1, <1>3 DEF Recorded
  <2>2. ASSUME d = c PROVE Recorded(d)'
    BY <2>2, <1>3, <1>4 DEF Recorded
  <2>3. ASSUME Recorded(d)' PROVE Recorded(d) \/ d = c
    BY <2>3, <1>3, <1>4 DEF Recorded
  <2> QED
    BY <2>1, <2>2, <2>3
<1> QED
  BY <1>3, <1>5, <1>6, <1>7

-----------------------------------------------------------------------------
(* Each action preserves the invariant. *)

LEMMA ArriveInv ==
    ASSUME LedgerInv, NEW c \in Call, NEW l \in Ledger, Arrive(c, l)
    PROVE  LedgerInv'
<1>1. /\ LedgerTypeOK /\ NoFork /\ AnswerIsTrue /\ LockInv
      /\ ConfirmInv /\ RecordInv /\ QueueInv /\ PlaceInv
  BY DEF LedgerInv
<1>2. /\ append' \in [Call -> [pc : AppendPc, ledger : Ledger \cup {None},
                               prev : Call \cup {None}]]
      /\ append'[c].pc = "queued"
      /\ append'[c].ledger = l
      /\ append[c].pc = "new"
      /\ \A d \in Call : d # c => append'[d] = append[d]
      /\ UNCHANGED <<writer, chain, running, crashes>>
  BY <1>1 DEF Arrive, LedgerTypeOK, AppendPc
<1>3. \A m \in Ledger : queue[m] \in Seq(Call) /\ Len(queue[m]) \in Nat
  BY <1>1 DEF LedgerTypeOK
<1>4. /\ queue' = [queue EXCEPT ![l] = Append(queue[l], c)]
      /\ queue' \in [Ledger -> Seq(Call)]
      /\ Len(queue'[l]) = Len(queue[l]) + 1
      /\ queue'[l][Len(queue[l]) + 1] = c
      /\ \A i \in 1 .. Len(queue[l]) : queue'[l][i] = queue[l][i]
      /\ \A m \in Ledger : m # l => queue'[m] = queue[m]
  BY <1>1, <1>3 DEF Arrive, LedgerTypeOK
<1>5. \A m \in Ledger : \A i \in 1 .. Len(queue[m]) : queue[m][i] \in Call /\ queue[m][i] # c
  BY <1>1, <1>2, <1>3 DEF QueueInv, Alive
<1>6. ASSUME NEW m \in Ledger, NEW i \in 1 .. Len(queue'[m])
      PROVE  \/ m = l /\ i = Len(queue[l]) + 1 /\ queue'[m][i] = c
             \/ i \in 1 .. Len(queue[m]) /\ queue'[m][i] = queue[m][i]
  BY <1>3, <1>4
<1>7. ASSUME NEW m \in Ledger, NEW i \in 1 .. Len(queue'[m])
      PROVE  /\ append'[queue'[m][i]].ledger = m
             /\ append'[queue'[m][i]].pc \in Alive
             /\ i > 1 => append'[queue'[m][i]].pc = "queued"
             /\ \A j \in 1 .. Len(queue'[m]) : queue'[m][i] = queue'[m][j] => i = j
  <2>1. CASE m = l /\ i = Len(queue[l]) + 1 /\ queue'[m][i] = c
    BY <2>1, <1>2, <1>3, <1>5, <1>6 DEF Alive
  <2>2. CASE i \in 1 .. Len(queue[m]) /\ queue'[m][i] = queue[m][i]
    <3>1. append'[queue[m][i]] = append[queue[m][i]]
      BY <1>2, <1>5, <2>2
    <3>2. /\ append[queue[m][i]].ledger = m
          /\ append[queue[m][i]].pc \in Alive
          /\ i > 1 => append[queue[m][i]].pc = "queued"
          /\ \A j \in 1 .. Len(queue[m]) : queue[m][i] = queue[m][j] => i = j
      BY <1>1, <2>2 DEF QueueInv
    <3>3. ASSUME NEW j \in 1 .. Len(queue'[m]), queue'[m][i] = queue'[m][j]
          PROVE  i = j
      BY <1>5, <1>6, <2>2, <3>2, <3>3
    <3> QED
      BY <2>2, <3>1, <3>2, <3>3
  <2> QED
    BY <2>1, <2>2, <1>6
<1>8. ASSUME NEW d \in Call, append'[d].pc \in {"signing", "confirm"}
      PROVE  append'[d].ledger \in Ledger /\ HasAppendLock(d)'
  <2>1. d # c /\ append'[d] = append[d]
    BY <1>8, <1>2
  <2>2. append[d].ledger \in Ledger /\ HasAppendLock(d)
    BY <2>1, <1>8, <1>1 DEF QueueInv
  <2> DEFINE m == append[d].ledger
  <2>3. queue[m] # <<>> /\ queue[m][1] = d /\ 1 \in 1 .. Len(queue[m])
    BY <2>2, <1>3 DEF HasAppendLock
  <2>4. queue'[m][1] = d /\ queue'[m] # <<>>
    BY <2>2, <2>3, <1>3, <1>4
  <2> QED
    BY <2>1, <2>2, <2>4, <1>8 DEF HasAppendLock
<1>9. QueueInv'
  BY <1>7, <1>8 DEF QueueInv
<1>10. LedgerTypeOK'
  BY <1>1, <1>2, <1>4 DEF LedgerTypeOK
<1>11. (NoFork /\ AnswerIsTrue)'
  BY <1>1, <1>2 DEF NoFork, AnswerIsTrue, Recorded
<1>12. LockInv'
  BY <1>1, <1>2 DEF LockInv
<1>13. (ConfirmInv /\ RecordInv /\ PlaceInv)'
  BY <1>1, <1>2 DEF ConfirmInv, RecordInv, Recorded, PlaceInv
<1> QED
  BY <1>9, <1>10, <1>11, <1>12, <1>13 DEF LedgerInv
\* An append ends without a record of its own making: it leaves its queue, and
\* the write lock if it has it.
LEMMA EndInv ==
    ASSUME LedgerInv, NEW c \in Call, append[c].pc \in Alive, HasAppendLock(c),
           NEW p \in {"raised", "nondurable", "durable", "unverified"}, Goto(c, p), LeaveLock(c),
           p = "nondurable" => ~Recorded(c),
           p \in {"durable", "unverified"} => Recorded(c),
           Recorded(c) => p # "nondurable",
           writer' = IF writer = c THEN None ELSE writer,
           UNCHANGED chain,
           \A d \in Call : d # c => append[d].pc # "confirm",
           running' \in Coroutine \cup {None},
           crashes' \in Nat
    PROVE  LedgerInv'
<1>1. /\ LedgerTypeOK /\ NoFork /\ AnswerIsTrue /\ LockInv
      /\ ConfirmInv /\ RecordInv /\ QueueInv /\ PlaceInv
  BY DEF LedgerInv
<1>2. p \in AppendPc /\ p # "new" /\ p # "signing" /\ p # "confirm"
  BY DEF AppendPc, Verdicts
<1>3. /\ append' \in [Call -> [pc : AppendPc, ledger : Ledger \cup {None},
                               prev : Call \cup {None}]]
      /\ append'[c].pc = p
      /\ append'[c].ledger = append[c].ledger
      /\ \A d \in Call : d # c => append'[d] = append[d]
  BY <1>1, <1>2, GotoPc
<1>4. append[c].ledger \in Ledger
  BY <1>1 DEF PlaceInv, Alive
<1>5. queue' \in [Ledger -> Seq(Call)] /\ QueueInv'
  BY <1>1, <1>2, <1>3, <1>4, LeaveQueue
<1>6. LedgerTypeOK'
  BY <1>1, <1>3, <1>5 DEF LedgerTypeOK
<1>7. (NoFork /\ AnswerIsTrue)'
  BY <1>1, <1>2, <1>3 DEF NoFork, AnswerIsTrue, Recorded
<1>8. LockInv'
  BY <1>1, <1>2, <1>3 DEF LockInv
<1>9. ConfirmInv'
  BY <1>2, <1>3 DEF ConfirmInv
<1>10. (RecordInv /\ PlaceInv)'
  BY <1>1, <1>2, <1>3, <1>4 DEF RecordInv, PlaceInv, Recorded
<1> QED
  BY <1>5, <1>6, <1>7, <1>8, <1>9, <1>10 DEF LedgerInv

LEMMA BeginInv ==
    ASSUME LedgerInv, NEW c \in Call, Begin(c)
    PROVE  LedgerInv'
<1>1. /\ LedgerTypeOK /\ NoFork /\ AnswerIsTrue /\ LockInv
      /\ ConfirmInv /\ RecordInv /\ QueueInv /\ PlaceInv
  BY DEF LedgerInv
<1>2. /\ running = None /\ append[c].pc = "queued" /\ HasAppendLock(c)
      /\ Verifies(chain) /\ UNCHANGED <<chain, crashes>>
  BY <1>1 DEF Begin, NoFork
<1>3. \A d \in Call : append[d].pc # "confirm"
  BY <1>1, <1>2 DEF ConfirmInv
<1>4. CASE writer # None
  <2>1. Goto(c, "raised") /\ LeaveLock(c) /\ UNCHANGED <<writer, running>>
    BY <1>2, <1>4 DEF Begin
  <2>2. writer # c
    BY <1>1, <1>2 DEF LockInv
  <2>3. running' \in Coroutine \cup {None} /\ crashes' \in Nat
    BY <1>1, <1>2, <2>1 DEF LedgerTypeOK
  <2> QED
    BY <1>2, <1>3, <2>1, <2>2, <2>3, EndInv DEF Alive
<1>5. CASE writer = None
  <2>1. /\ append' = [append EXCEPT ![c].pc = "signing", ![c].prev = ChainHead(chain)]
        /\ writer' = c
        /\ UNCHANGED <<queue, running>>
    BY <1>2, <1>5 DEF Begin
  <2>2. /\ append' \in [Call -> [pc : AppendPc, ledger : Ledger \cup {None},
                                 prev : Call \cup {None}]]
        /\ append'[c].pc = "signing"
        /\ append'[c].ledger = append[c].ledger
        /\ append'[c].prev = ChainHead(chain)
        /\ \A d \in Call : d # c => append'[d] = append[d]
    BY <1>1, <2>1, SignPc
  <2>3. append[c].ledger \in Ledger
    BY <1>1, <1>2 DEF PlaceInv
  <2>4. \A d \in Call : append[d].pc # "signing"
    BY <1>1, <1>5 DEF LockInv
  <2>5. LedgerTypeOK'
    BY <1>1, <1>2, <2>1, <2>2 DEF LedgerTypeOK
  <2>6. (NoFork /\ AnswerIsTrue)'
    BY <1>1, <1>2, <1>3, <2>2 DEF NoFork, AnswerIsTrue, Recorded
  <2>7. LockInv'
    BY <1>2, <2>1, <2>2, <2>4 DEF LockInv
  <2>8. (ConfirmInv /\ RecordInv /\ PlaceInv)'
    BY <1>1, <1>2, <1>3, <2>2, <2>3 DEF ConfirmInv, RecordInv, PlaceInv, Recorded
  <2>9. QueueInv'
    <3>1. ASSUME NEW l \in Ledger, NEW i \in 1 .. Len(queue'[l])
          PROVE  /\ append'[queue'[l][i]].ledger = l
                 /\ append'[queue'[l][i]].pc \in Alive
                 /\ i > 1 => append'[queue'[l][i]].pc = "queued"
                 /\ \A j \in 1 .. Len(queue'[l]) : queue'[l][i] = queue'[l][j] => i = j
      <4>1. queue' = queue /\ queue[l] \in Seq(Call)
        BY <1>1, <2>1 DEF LedgerTypeOK
      <4>2. /\ append[queue[l][i]].ledger = l
            /\ append[queue[l][i]].pc \in Alive
            /\ i > 1 => append[queue[l][i]].pc = "queued"
            /\ \A j \in 1 .. Len(queue[l]) : queue[l][i] = queue[l][j] => i = j
        BY <1>1, <4>1 DEF QueueInv
      <4>3. CASE queue[l][i] # c
        BY <4>1, <4>2, <4>3, <2>2
      <4>4. CASE queue[l][i] = c
        <5>1. queue[l] # <<>> /\ queue[l][1] = c /\ 1 \in 1 .. Len(queue[l])
          BY <4>1, <4>2, <4>4, <1>2 DEF HasAppendLock
        <5>2. i = 1
          BY <4>2, <4>4, <5>1
        <5> QED
          BY <4>1, <4>2, <4>4, <5>2, <2>2 DEF Alive
      <4> QED
        BY <4>3, <4>4
    <3>2. ASSUME NEW d \in Call, append'[d].pc \in {"signing", "confirm"}
          PROVE  append'[d].ledger \in Ledger /\ HasAppendLock(d)'
      <4>1. d = c
        BY <3>2, <1>3, <2>2, <2>4
      <4> QED
        BY <4>1, <1>2, <2>1, <2>2, <2>3 DEF HasAppendLock
    <3> QED
      BY <3>1, <3>2 DEF QueueInv
  <2> QED
    BY <2>5, <2>6, <2>7, <2>8, <2>9 DEF LedgerInv
<1> QED
  BY <1>4, <1>5
\* An append that fails before its transaction has no record.
LEMMA BeginErrorInv ==
    ASSUME LedgerInv, NEW c \in Call, BeginError(c)
    PROVE  LedgerInv'
<1>1. /\ LedgerTypeOK /\ LockInv /\ ConfirmInv /\ RecordInv
  BY DEF LedgerInv
<1>2. /\ running = None /\ append[c].pc = "queued" /\ HasAppendLock(c) /\ LeaveLock(c)
      /\ UNCHANGED <<writer, chain, crashes>>
      /\ running' \in {c, None}
  BY DEF BeginError
<1>3. /\ \A d \in Call : append[d].pc # "confirm"
      /\ writer # c
      /\ ~Recorded(c)
  BY <1>1, <1>2 DEF ConfirmInv, LockInv, RecordInv
<1>4. running' \in Coroutine \cup {None} /\ crashes' \in Nat
  BY <1>1, <1>2, LedgerAssumption DEF LedgerTypeOK
<1>5. PICK p \in {"nondurable", "raised"} : Goto(c, p)
  BY DEF BeginError
<1> QED
  BY <1>2, <1>3, <1>4, <1>5, EndInv DEF Alive

LEMMA FailInv ==
    ASSUME LedgerInv, NEW c \in Call, SignFail(c) \/ CommitError(c)
    PROVE  LedgerInv'
<1>1. /\ LedgerTypeOK /\ LockInv /\ ConfirmInv /\ RecordInv /\ QueueInv
  BY DEF LedgerInv
<1>2. /\ running = None /\ append[c].pc = "signing" /\ LeaveLock(c)
      /\ writer' = None /\ UNCHANGED <<chain, crashes>>
      /\ running' \in {c, running}
  BY DEF SignFail, CommitError
<1>3. /\ \A d \in Call : append[d].pc # "confirm"
      /\ HasAppendLock(c)
      /\ writer = c
      /\ ~Recorded(c)
  BY <1>1, <1>2 DEF ConfirmInv, QueueInv, LockInv, RecordInv
<1>4. running' \in Coroutine \cup {None} /\ crashes' \in Nat
  BY <1>1, <1>2, LedgerAssumption DEF LedgerTypeOK
<1>5. PICK p \in {"nondurable", "raised"} : Goto(c, p)
  BY DEF SignFail, CommitError
<1> QED
  BY <1>2, <1>3, <1>4, <1>5, EndInv DEF Alive

\* The record is still the head it was committed as: only a read that fails
\* leaves it unconfirmed.
LEMMA ConfirmedInv ==
    ASSUME LedgerInv, NEW c \in Call, Confirm(c) \/ ConfirmError(c)
    PROVE  LedgerInv'
<1>1. /\ LedgerTypeOK /\ NoFork /\ LockInv /\ ConfirmInv /\ QueueInv
  BY DEF LedgerInv
<1>2. /\ running = c /\ append[c].pc = "confirm" /\ LeaveLock(c)
      /\ UNCHANGED <<writer, chain, crashes>>
      /\ running' \in {None, running}
  BY DEF Confirm, ConfirmError
<1>3. /\ \A d \in Call : d # c => append[d].pc # "confirm"
      /\ HasAppendLock(c)
      /\ writer # c
      /\ Recorded(c) /\ ChainHead(chain) = c /\ Verifies(chain)
  BY <1>1, <1>2 DEF ConfirmInv, QueueInv, LockInv, NoFork
<1>4. running' \in Coroutine \cup {None} /\ crashes' \in Nat
  BY <1>1, <1>2 DEF LedgerTypeOK
<1>5. PICK p \in {"durable", "raised", "unverified"} : Goto(c, p)
  BY <1>3 DEF Confirm, ConfirmError
<1> QED
  BY <1>2, <1>3, <1>4, <1>5, EndInv DEF Alive

LEMMA CommitInv ==
    ASSUME LedgerInv, NEW c \in Call, Commit(c)
    PROVE  LedgerInv'
<1>1. /\ LedgerTypeOK /\ NoFork /\ AnswerIsTrue /\ LockInv
      /\ ConfirmInv /\ RecordInv /\ QueueInv /\ PlaceInv
  BY DEF LedgerInv
<1>2. /\ running = None /\ append[c].pc = "signing" /\ Goto(c, "confirm")
      /\ chain' = Append(chain, [id |-> c, prev |-> append[c].prev])
      /\ writer' = None /\ running' = c /\ UNCHANGED <<queue, crashes>>
  BY DEF Commit
<1>3. /\ append' \in [Call -> [pc : AppendPc, ledger : Ledger \cup {None},
                               prev : Call \cup {None}]]
      /\ append'[c].pc = "confirm"
      /\ append'[c].ledger = append[c].ledger
      /\ \A d \in Call : d # c => append'[d] = append[d]
  BY <1>1, <1>2, GotoPc DEF AppendPc
<1>4. writer = c /\ append[c].prev = ChainHead(chain) /\ HasAppendLock(c)
  BY <1>1, <1>2 DEF LockInv, QueueInv
<1>5. /\ chain' \in Seq([id : Call, prev : Call \cup {None}])
      /\ NoFork'
      /\ ChainHead(chain') = c
      /\ \A d \in Call : Recorded(d)' <=> Recorded(d) \/ d = c
  BY <1>1, <1>2, <1>4, ChainExtends
<1>6. \A d \in Call : d # c => append[d].pc \notin {"signing", "confirm"}
  BY <1>1, <1>2, <1>4 DEF LockInv, ConfirmInv
<1>7. LedgerTypeOK'
  BY <1>1, <1>2, <1>3, <1>5, LedgerAssumption DEF LedgerTypeOK
<1>8. AnswerIsTrue'
  BY <1>1, <1>3, <1>5, <1>6 DEF AnswerIsTrue, NoFork
<1>9. LockInv'
  BY <1>2, <1>3, <1>6 DEF LockInv
<1>10. (ConfirmInv /\ RecordInv /\ PlaceInv)'
  <2>1. ConfirmInv'
    BY <1>2, <1>3, <1>5, <1>6 DEF ConfirmInv
  <2>2. (RecordInv /\ PlaceInv)'
    BY <1>1, <1>2, <1>3, <1>5 DEF RecordInv, PlaceInv
  <2> QED
    BY <2>1, <2>2
<1>11. QueueInv'
  <2>1. ASSUME NEW l \in Ledger, NEW i \in 1 .. Len(queue'[l])
        PROVE  /\ append'[queue'[l][i]].ledger = l
               /\ append'[queue'[l][i]].pc \in Alive
               /\ i > 1 => append'[queue'[l][i]].pc = "queued"
               /\ \A j \in 1 .. Len(queue'[l]) : queue'[l][i] = queue'[l][j] => i = j
    <3>1. queue' = queue /\ queue[l] \in Seq(Call)
      BY <1>1, <1>2 DEF LedgerTypeOK
    <3>2. /\ append[queue[l][i]].ledger = l
          /\ append[queue[l][i]].pc \in Alive
          /\ i > 1 => append[queue[l][i]].pc = "queued"
          /\ \A j \in 1 .. Len(queue[l]) : queue[l][i] = queue[l][j] => i = j
      BY <1>1, <3>1 DEF QueueInv
    <3>3. CASE queue[l][i] # c
      BY <3>1, <3>2, <3>3, <1>3
    <3>4. CASE queue[l][i] = c
      BY <3>1, <3>2, <3>4, <1>2, <1>3 DEF Alive
    <3> QED
      BY <3>3, <3>4
  <2>2. ASSUME NEW d \in Call, append'[d].pc \in {"signing", "confirm"}
        PROVE  append'[d].ledger \in Ledger /\ HasAppendLock(d)'
    <3>1. d = c
      BY <2>2, <1>3, <1>6
    <3>2. append[c].ledger \in Ledger
      BY <1>1, <1>2 DEF QueueInv
    <3> QED
      BY <3>1, <3>2, <1>2, <1>3, <1>4 DEF HasAppendLock
  <2> QED
    BY <2>1, <2>2 DEF QueueInv
<1> QED
  BY <1>5, <1>7, <1>8, <1>9, <1>10, <1>11 DEF LedgerInv

\* The loop passes from one coroutine to another while none confirms.
LEMMA LoopInv ==
    ASSUME LedgerInv, UNCHANGED <<append, queue, writer, chain, crashes>>,
           running' \in Coroutine \cup {None},
           running' = running \/ \A c \in Call : append[c].pc # "confirm"
    PROVE  LedgerInv'
<1>1. (LedgerTypeOK /\ NoFork /\ AnswerIsTrue)'
  BY DEF LedgerInv, LedgerTypeOK, NoFork, AnswerIsTrue, Recorded
<1>2. (LockInv /\ RecordInv /\ QueueInv /\ PlaceInv)'
  BY DEF LedgerInv, LockInv, RecordInv, Recorded, QueueInv, HasAppendLock, PlaceInv
<1>3. ConfirmInv'
  BY DEF LedgerInv, ConfirmInv, Recorded
<1> QED
  BY <1>1, <1>2, <1>3 DEF LedgerInv

LEMMA CrashInv ==
    ASSUME LedgerInv, LedgerCrash
    PROVE  LedgerInv'
<1>1. /\ LedgerTypeOK /\ NoFork /\ AnswerIsTrue /\ RecordInv /\ PlaceInv
  BY DEF LedgerInv
<1>2. \A c \in Call :
        append'[c] = IF append[c].pc \in Alive
                     THEN [append[c] EXCEPT !.pc = "lost"] ELSE append[c]
  BY DEF LedgerCrash, Alive
<1>3. ASSUME NEW c \in Call
      PROVE  /\ append'[c] \in [pc : AppendPc, ledger : Ledger \cup {None},
                                 prev : Call \cup {None}]
             /\ append'[c].pc = IF append[c].pc \in Alive THEN "lost" ELSE append[c].pc
             /\ append'[c].ledger = append[c].ledger
  BY <1>1, <1>2 DEF LedgerTypeOK, AppendPc
<1>4. UNCHANGED chain /\ writer' = None /\ running' = None /\ crashes' \in Nat
      /\ queue' = [l \in Ledger |-> <<>>]
  BY <1>1 DEF LedgerCrash, LedgerTypeOK
<1>5. LedgerTypeOK'
  <2>1. append' \in [Call -> [pc : AppendPc, ledger : Ledger \cup {None},
                             prev : Call \cup {None}]]
    BY <1>3 DEF LedgerCrash
  <2> QED
    BY <2>1, <1>1, <1>4 DEF LedgerTypeOK
<1>6. (NoFork /\ AnswerIsTrue)'
  BY <1>1, <1>3, <1>4 DEF NoFork, AnswerIsTrue, Recorded
<1>7. (LockInv /\ ConfirmInv)'
  BY <1>3, <1>4, LedgerAssumption DEF LockInv, ConfirmInv, Alive
<1>8. (RecordInv /\ PlaceInv)'
  BY <1>1, <1>3, <1>4 DEF RecordInv, PlaceInv, Recorded, Alive
<1>9. QueueInv'
  BY <1>3, <1>4 DEF QueueInv, Alive
<1> QED
  BY <1>5, <1>6, <1>7, <1>8, <1>9 DEF LedgerInv

LEMMA StepInv == LedgerInv /\ [LedgerNext]_ledgerVars => LedgerInv'
<1> SUFFICES ASSUME LedgerInv, [LedgerNext]_ledgerVars PROVE LedgerInv'
  OBVIOUS
<1>1. ASSUME NEW c \in Call, NEW l \in Ledger, Arrive(c, l) PROVE LedgerInv'
  BY <1>1, ArriveInv
<1>2. ASSUME NEW c \in Call, Begin(c) \/ BeginError(c) PROVE LedgerInv'
  BY <1>2, BeginInv, BeginErrorInv
<1>3. ASSUME NEW c \in Call, Commit(c) PROVE LedgerInv'
  BY <1>3, CommitInv
<1>4. ASSUME NEW c \in Call, SignFail(c) \/ CommitError(c) PROVE LedgerInv'
  BY <1>4, FailInv
<1>5. ASSUME NEW c \in Call, Confirm(c) \/ ConfirmError(c) PROVE LedgerInv'
  BY <1>5, ConfirmedInv
<1>6. ASSUME NEW c \in Call, Return(c) PROVE LedgerInv'
  <2>1. \A d \in Call : append[d].pc # "confirm"
    BY <1>6 DEF Return, LedgerInv, ConfirmInv, Verdicts
  <2> QED
    BY <1>6, <2>1, LoopInv DEF Return
<1>7. ASSUME NEW o \in Coroutine \ Call, Elsewhere(o) PROVE LedgerInv'
  <2>1. \A d \in Call : append[d].pc # "confirm"
    BY <1>7, LedgerAssumption DEF Elsewhere, LedgerInv, ConfirmInv
  <2> QED
    BY <1>7, <2>1, LoopInv DEF Elsewhere
<1>8. CASE LedgerCrash
  BY <1>8, CrashInv
<1>9. CASE UNCHANGED ledgerVars
  <2>1. running' \in Coroutine \cup {None}
    BY <1>9 DEF ledgerVars, LedgerInv, LedgerTypeOK
  <2> QED
    BY <1>9, <2>1, LoopInv DEF ledgerVars
<1> QED
  BY <1>1, <1>2, <1>3, <1>4, <1>5, <1>6, <1>7, <1>8, <1>9 DEF LedgerNext, AppendStep

-----------------------------------------------------------------------------
(* Theorems *)

LEMMA LedgerInvariance == LedgerSpec => []LedgerInv
BY InitInv, StepInv, PTL DEF LedgerSpec

\* The tables and the locks of the ledger hold what they are declared to hold.
THEOREM LedgerTypeCorrect == LedgerSpec => []LedgerTypeOK
<1>1. LedgerInv => LedgerTypeOK
  BY DEF LedgerInv
<1> QED
  BY <1>1, LedgerInvariance, PTL

\* However many ledgers append to one database, and wherever they are cut, the
\* chain of verdicts never forks.
THEOREM ChainNeverForks == LedgerSpec => []NoFork
<1>1. LedgerInv => NoFork
  BY DEF LedgerInv
<1> QED
  BY <1>1, LedgerInvariance, PTL

\* A verdict answered as durable or as unverified is on the chain, one that
\* failed otherwise never is, and a committed record is the head of a chain that
\* verifies until it has been confirmed.
THEOREM VerdictsAreTrue == LedgerSpec => []AnswerIsTrue
<1>1. LedgerInv => AnswerIsTrue
  BY DEF LedgerInv
<1> QED
  BY <1>1, LedgerInvariance, PTL

\* The _append_lock and the write lock are only ever held by appends that are
\* still going on.
THEOREM LocksAreFreed == LedgerSpec => []HoldersAreAlive
<1>1. ASSUME LedgerInv PROVE HoldersAreAlive
  <2>1. ASSUME NEW l \in Ledger, queue[l] # <<>>
        PROVE  append[Head(queue[l])].pc \in {"queued", "signing", "confirm"}
    <3>1. queue[l] \in Seq(Call) /\ 1 \in 1 .. Len(queue[l]) /\ Head(queue[l]) = queue[l][1]
      BY <1>1, <2>1 DEF LedgerInv, LedgerTypeOK
    <3> QED
      BY <1>1, <3>1 DEF LedgerInv, QueueInv, Alive
  <2>2. writer # None => append[writer].pc = "signing"
    BY <1>1 DEF LedgerInv, LedgerTypeOK, LockInv
  <2> QED
    BY <2>1, <2>2 DEF HoldersAreAlive
<1> QED
  BY <1>1, LedgerInvariance, PTL

-----------------------------------------------------------------------------
(* The gateway that the ledger is part of. *)

USE MemoryAssumption

SolveSteps == {"new", "council", "index", "evict", "continuity"}

\* What a request can be, if V holds what it has read.
RequestOf(V) == [step : MemorySteps, state : {"open", "done", "failed"},
                 session : V, history : V, todo : V]

Requests(V) == [Request -> RequestOf(V)]

\* Every request is a record with these fields.
RecordsInv == \E V : request \in Requests(V)

\* A solve saves only when the ledger has answered it.
SolveInv ==
    \A r \in Solve :
        /\ request[r].step \in SolveSteps
        /\ request[r].step = "new" => append[r].pc = "new"
        /\ request[r].step \in {"index", "evict", "continuity"} => append[r].pc \in Verdicts

\* A call that has the loop was given it by the ledger.
LoopHolderInv == \A c \in Call : running = c => append[c].pc # "new"

RequestInv == RecordsInv /\ SolveInv /\ LoopHolderInv

GatewayInv == LedgerInv /\ RequestInv

-----------------------------------------------------------------------------
LEMMA InitGateway == Init => GatewayInv
<1> SUFFICES ASSUME Init PROVE GatewayInv
  OBVIOUS
<1>1. LedgerInv
  BY InitInv DEF Init
<1>2. SolveInv
  BY DEF Init, LedgerInit, SolveInv, SolveSteps, Received, New, Request
<1>3. request \in Requests({None, <<>>})
  BY DEF Init, Received, Requests, RequestOf, MemorySteps
<1>4. LoopHolderInv
  BY DEF Init, LedgerInit, LoopHolderInv
<1> QED
  BY <1>1, <1>2, <1>3, <1>4 DEF GatewayInv, RequestInv, RecordsInv

\* A request moves on: at most its step, its state and what it has read change.
Moves(r, step) ==
    /\ RecordsInv'
    /\ request'[r].step = step
    /\ \A q \in Request : q # r => request'[q] = request[q]

LEMMA StepMoves ==
    ASSUME RecordsInv, NEW r \in Request, NEW step \in MemorySteps, Step(r, step)
    PROVE  Moves(r, step)
<1>1. PICK V : request \in Requests(V)
  BY DEF RecordsInv
<1>2. request' \in Requests(V) /\ request'[r].step = step
  BY <1>1 DEF Step, Requests, RequestOf
<1> QED
  BY <1>1, <1>2 DEF Moves, RecordsInv, Requests, Step

LEMMA Widen ==
    ASSUME NEW V, NEW W, V \subseteq W, request \in Requests(V)
    PROVE  request \in Requests(W)
BY DEF Requests, RequestOf

\* A request is replaced by another.
LEMMA PutMoves ==
    ASSUME NEW V, request \in Requests(V), NEW r \in Request, NEW q \in RequestOf(V),
           request' = [request EXCEPT ![r] = q]
    PROVE  Moves(r, q.step)
<1>1. request' \in Requests(V) /\ request'[r] = q
      /\ \A x \in Request : x # r => request'[x] = request[x]
  BY DEF Requests
<1> QED
  BY <1>1 DEF Moves, RecordsInv

LEMMA ReceiveMoves ==
    ASSUME RecordsInv, NEW r \in Request, NEW s, NEW h,
           request' = [request EXCEPT ![r].step = "council", ![r].session = s,
                                      ![r].history = h]
    PROVE  Moves(r, "council")
<1>1. PICK V : request \in Requests(V)
  BY DEF RecordsInv
<1>2. PICK W : V \subseteq W /\ s \in W /\ h \in W
  <2>1. V \subseteq V \cup {s, h} /\ s \in V \cup {s, h} /\ h \in V \cup {s, h}
    OBVIOUS
  <2> QED
    BY <2>1
<1> DEFINE q == [request[r] EXCEPT !.step = "council", !.session = s, !.history = h]
<1>3. request \in Requests(W)
  BY <1>1, <1>2, Widen
<1>4. q \in RequestOf(W) /\ q.step = "council"
  BY <1>2, <1>3 DEF Requests, RequestOf, MemorySteps
<1>5. request' = [request EXCEPT ![r] = q]
  BY <1>3 DEF Requests
<1> HIDE DEF q
<1>6. Moves(r, q.step)
  BY <1>3, <1>4, <1>5, PutMoves
<1> QED
  BY <1>4, <1>6

LEMMA TodoMoves ==
    ASSUME RecordsInv, NEW r \in Request, NEW step \in MemorySteps, NEW t,
           request' = [request EXCEPT ![r].step = step, ![r].todo = t]
    PROVE  Moves(r, step)
<1>1. PICK V : request \in Requests(V)
  BY DEF RecordsInv
<1> DEFINE W == V \cup {t}
           q == [request[r] EXCEPT !.step = step, !.todo = t]
<1>2. request \in Requests(W) /\ t \in W
  BY <1>1, Widen
<1> HIDE DEF W
<1>3. q \in RequestOf(W) /\ q.step = step
  BY <1>2 DEF Requests, RequestOf
<1>4. request' = [request EXCEPT ![r] = q]
  BY <1>2 DEF Requests
<1> HIDE DEF q
<1>5. Moves(r, q.step)
  BY <1>2, <1>3, <1>4, PutMoves
<1> QED
  BY <1>3, <1>5

LEMMA TailMoves ==
    ASSUME RecordsInv, NEW r \in Request, request' = [request EXCEPT ![r].todo = Tail(@)]
    PROVE  Moves(r, request[r].step)
<1>1. PICK V : request \in Requests(V)
  BY DEF RecordsInv
<1> DEFINE t == Tail(request[r].todo)
           W == V \cup {t}
           q == [request[r] EXCEPT !.todo = t]
<1>2. request \in Requests(W) /\ t \in W
  BY <1>1, Widen
<1>3. request' = [request EXCEPT ![r] = q]
  BY <1>1 DEF Requests
<1> HIDE DEF t, W
<1>4. q \in RequestOf(W) /\ q.step = request[r].step
  BY <1>2 DEF Requests, RequestOf
<1> HIDE DEF q
<1>5. Moves(r, q.step)
  BY <1>2, <1>3, <1>4, PutMoves
<1> QED
  BY <1>4, <1>5

LEMMA StateMoves ==
    ASSUME RecordsInv, NEW r \in Request, NEW x \in {"open", "done", "failed"},
           request' = [request EXCEPT ![r].state = x]
    PROVE  Moves(r, request[r].step)
<1>1. PICK V : request \in Requests(V)
  BY DEF RecordsInv
<1>2. request' \in Requests(V) /\ request'[r].step = request[r].step
  BY <1>1 DEF Requests, RequestOf
<1> QED
  BY <1>1, <1>2 DEF Moves, RecordsInv, Requests

-----------------------------------------------------------------------------
(* The steps. *)

\* A request moves on while no append does.
LEMMA MemoryMoves ==
    ASSUME GatewayInv, NEW r \in Request, NEW step, Moves(r, step), UNCHANGED append,
           running' \in {running, None} \/ running' \in Forget,
           r \in Solve => /\ step \in SolveSteps
                          /\ step = "new" => append[r].pc = "new"
                          /\ step \in {"index", "evict", "continuity"} =>
                                append[r].pc \in Verdicts
    PROVE  RequestInv'
<1>1. SolveInv'
  BY DEF GatewayInv, RequestInv, SolveInv, Moves, Request
<1>2. LoopHolderInv'
  BY LedgerAssumption, MemoryAssumption DEF GatewayInv, RequestInv, LoopHolderInv
<1> QED
  BY <1>1, <1>2 DEF RequestInv, Moves

\* An append moves on while no request does.
LEMMA AppendMoves ==
    ASSUME GatewayInv, NEW c \in Call, UNCHANGED request,
           append[c].pc \notin Verdicts, append'[c].pc # "new",
           c \in Solve => request[c].step # "new",
           \A d \in Call : d # c => append'[d] = append[d],
           running' \in {running, None, c}
    PROVE  RequestInv'
<1>1. RecordsInv'
  BY DEF GatewayInv, RequestInv, RecordsInv
<1>2. SolveInv'
  BY MemoryAssumption DEF GatewayInv, RequestInv, SolveInv
<1>3. LoopHolderInv'
  BY LedgerAssumption DEF GatewayInv, RequestInv, LoopHolderInv
<1> QED
  BY <1>1, <1>2, <1>3 DEF RequestInv

\* What a step of an append that has arrived does to the appends.
LEMMA AppendStepShape ==
    ASSUME LedgerInv, NEW c \in Call, AppendStep(c)
    PROVE  /\ append[c].pc \in Alive
           /\ append'[c].pc # "new"
           /\ \A d \in Call : d # c => append'[d] = append[d]
           /\ running' \in {running, None, c}
<1>1. append[c].pc \in Alive /\ running' \in {running, None, c}
  BY DEF AppendStep, Begin, BeginError, Commit, SignFail, CommitError, Confirm, ConfirmError, Alive
<1>2. LedgerTypeOK
  BY DEF LedgerInv
<1>3. CASE \E p \in AppendPc \ {"new"} : Goto(c, p)
  BY <1>1, <1>2, <1>3, GotoPc
<1>4. CASE append' = [append EXCEPT ![c].pc = "signing", ![c].prev = ChainHead(chain)]
  BY <1>1, <1>2, <1>4, SignPc DEF LedgerInv
<1>5. \/ \E p \in AppendPc \ {"new"} : Goto(c, p)
      \/ append' = [append EXCEPT ![c].pc = "signing", ![c].prev = ChainHead(chain)]
  BY DEF AppendStep, Begin, BeginError, Commit, SignFail, CommitError, Confirm, ConfirmError,
         AppendPc, Verdicts
<1> QED
  BY <1>3, <1>4, <1>5

\* A solve arrives at the ledger, from the user gateway or from elsewhere.
LEMMA ArriveStep ==
    ASSUME GatewayInv, NEW c \in Call, NEW l \in Ledger, Arrive(c, l), UNCHANGED memoryVars,
           c \in Solve => request[c].step # "new"
    PROVE  LedgerNext /\ RequestInv'
<1>1. LedgerNext
  BY DEF LedgerNext
<1>2. LedgerTypeOK
  BY DEF GatewayInv, LedgerInv
<1>3. /\ append[c].pc \notin Verdicts
      /\ append'[c].pc # "new"
      /\ \A d \in Call : d # c => append'[d] = append[d]
      /\ running' = running
      /\ UNCHANGED request
  BY <1>2 DEF Arrive, Verdicts, LedgerTypeOK, memoryVars
<1> QED
  BY <1>1, <1>3, AppendMoves

LEMMA LedgerSteps ==
    ASSUME GatewayInv, NEW c \in Call, LedgerStep(c)
    PROVE  LedgerNext /\ RequestInv'
<1>1. LedgerNext /\ UNCHANGED request
  BY DEF LedgerStep, LedgerNext, memoryVars
<1>2. CASE AppendStep(c)
  <2>1. /\ append[c].pc \in Alive
        /\ append'[c].pc # "new"
        /\ \A d \in Call : d # c => append'[d] = append[d]
        /\ running' \in {running, None, c}
    BY <1>2, AppendStepShape DEF GatewayInv
  <2>2. c \in Solve => request[c].step # "new"
    BY <2>1 DEF GatewayInv, RequestInv, SolveInv, Alive
  <2> QED
    BY <1>1, <2>1, <2>2, AppendMoves DEF Alive, Verdicts
<1>3. CASE Return(c)
  <2>1. UNCHANGED <<append, request>> /\ running' = None
    BY <1>1, <1>3 DEF Return
  <2> QED
    BY <1>1, <2>1, LedgerAssumption
       DEF GatewayInv, RequestInv, RecordsInv, SolveInv, LoopHolderInv
<1> QED
  BY <1>2, <1>3 DEF LedgerStep

LEMMA ReceiveStep ==
    ASSUME GatewayInv, NEW r \in Solve, NEW s \in Session, Receive(r, s)
    PROVE  UNCHANGED ledgerVars /\ RequestInv'
<1>1. /\ UNCHANGED <<append, running>> /\ UNCHANGED ledgerVars
      /\ request' = [request EXCEPT ![r].step = "council", ![r].session = s,
                                    ![r].history = thread[s]]
  BY DEF Receive, ledgerVars
<1>2. Moves(r, "council")
  BY <1>1, ReceiveMoves DEF GatewayInv, RequestInv, Request
<1> QED
  BY <1>1, <1>2, MemoryMoves DEF Request, SolveSteps

\* The saves of a solve come after its verdict; the last is its return.
LEMMA SaveSteps ==
    ASSUME GatewayInv, NEW r \in Solve, SaveStep(r)
    PROVE  [LedgerNext]_ledgerVars /\ RequestInv'
<1>1. /\ RecordsInv /\ r \in Request /\ r \in Call /\ running = r
      /\ append[r].pc \in Verdicts
  BY MemoryAssumption DEF GatewayInv, RequestInv, SolveInv, Request, SaveStep, SaveThread,
     SaveIndex, Evict, SaveContinuity
<1>2. CASE SaveThread(r)
  <2>1. UNCHANGED <<append, running>> /\ UNCHANGED ledgerVars /\ Step(r, "index")
    BY <1>2 DEF SaveThread, ledgerVars
  <2>2. Moves(r, "index")
    BY <1>1, <2>1, StepMoves DEF MemorySteps
  <2> QED
    BY <1>1, <2>1, <2>2, MemoryMoves DEF SolveSteps
<1>3. CASE SaveIndex(r)
  <2>1. /\ UNCHANGED <<append, running>> /\ UNCHANGED ledgerVars
        /\ request' = [request EXCEPT ![r].step = "evict",
                                      ![r].todo = Evicted(request[r].session)]
    BY <1>3 DEF SaveIndex, ledgerVars
  <2>2. Moves(r, "evict")
    BY <1>1, <2>1, TodoMoves DEF MemorySteps
  <2> QED
    BY <1>1, <2>1, <2>2, MemoryMoves DEF SolveSteps
<1>4. CASE Evict(r)
  <2>1. UNCHANGED <<append, running>> /\ UNCHANGED ledgerVars /\ request[r].step = "evict"
    BY <1>4 DEF Evict, ledgerVars
  <2>2. \/ Step(r, "continuity")
        \/ request' = [request EXCEPT ![r].todo = Tail(@)]
    BY <1>4 DEF Evict
  <2>3. Moves(r, "continuity") \/ Moves(r, "evict")
    BY <1>1, <2>1, <2>2, StepMoves, TailMoves DEF MemorySteps
  <2> QED
    BY <1>1, <2>1, <2>3, MemoryMoves DEF SolveSteps
<1>5. CASE SaveContinuity(r)
  <2>1. /\ Return(r) /\ UNCHANGED append /\ running' = None
        /\ request[r].step = "continuity"
        /\ request' = [request EXCEPT ![r].state = "done"]
    BY <1>1, <1>5 DEF SaveContinuity, Return, Finish
  <2>2. Moves(r, "continuity")
    BY <1>1, <2>1, StateMoves
  <2>3. LedgerNext
    BY <1>1, <2>1 DEF LedgerNext
  <2> QED
    BY <1>1, <2>1, <2>2, <2>3, MemoryMoves DEF SolveSteps
<1> QED
  BY <1>2, <1>3, <1>4, <1>5 DEF SaveStep

\* A forget has the loop from its beginning to its end.
LEMMA ForgetSteps ==
    ASSUME GatewayInv, NEW r \in Forget, ReceiveForget(r) \/ ForgetStep(r)
    PROVE  [LedgerNext]_ledgerVars /\ RequestInv'
<1>1. /\ RecordsInv /\ r \in Request /\ r \notin Solve /\ r \in Coroutine \ Call
  BY MemoryAssumption DEF GatewayInv, RequestInv, Request
<1>2. CASE ReceiveForget(r)
  <2>1. /\ Elsewhere(r) /\ UNCHANGED append /\ running' = r
        /\ request' = [request EXCEPT ![r].step = "threads", ![r].todo = index]
    BY <1>2 DEF ReceiveForget, Elsewhere
  <2>2. Moves(r, "threads")
    BY <1>1, <2>1, TodoMoves DEF MemorySteps
  <2> QED
    BY <1>1, <2>1, <2>2, MemoryMoves DEF LedgerNext
<1>3. CASE ForgetThread(r) \/ ForgetIndex(r)
  <2>1. UNCHANGED <<append, running>> /\ UNCHANGED ledgerVars
    BY <1>3 DEF ForgetThread, ForgetIndex, ledgerVars
  <2>2. \/ \E step \in MemorySteps : Step(r, step)
        \/ request' = [request EXCEPT ![r].todo = Tail(@)]
    BY <1>3 DEF ForgetThread, ForgetIndex, MemorySteps
  <2>3. \E step : Moves(r, step)
    BY <1>1, <2>2, StepMoves, TailMoves
  <2> QED
    BY <1>1, <2>1, <2>3, MemoryMoves
<1>4. CASE ForgetContinuity(r)
  <2>1. /\ Elsewhere(r) /\ UNCHANGED append /\ running' = None
        /\ request' = [request EXCEPT ![r].state = "done"]
    BY <1>4 DEF ForgetContinuity, Elsewhere, Finish
  <2>2. Moves(r, request[r].step)
    BY <1>1, <2>1, StateMoves
  <2> QED
    BY <1>1, <2>1, <2>2, MemoryMoves DEF LedgerNext
<1> QED
  BY <1>2, <1>3, <1>4 DEF ForgetStep

\* A request whose transaction fails gives the loop back.
LEMMA WriteFailsStep ==
    ASSUME GatewayInv, NEW r \in Request, WriteFails(r)
    PROVE  LedgerNext /\ RequestInv'
<1>1. /\ running = r /\ running' = None
      /\ UNCHANGED <<append, queue, writer, chain, crashes>>
      /\ request[r].step = "council" => append[r].pc \in Verdicts
  BY DEF WriteFails
<1>2. Moves(r, request[r].step)
  BY StateMoves DEF WriteFails, GatewayInv, RequestInv
<1>3. RequestInv'
  <2>1. r \in Solve => /\ request[r].step \in SolveSteps
                       /\ request[r].step = "new" => append[r].pc = "new"
                       /\ request[r].step \in {"index", "evict", "continuity"} =>
                             append[r].pc \in Verdicts
    BY DEF GatewayInv, RequestInv, SolveInv
  <2> QED
    BY <1>1, <1>2, <2>1, MemoryMoves
<1>4. CASE r \in Solve
  <2>1. /\ r \in Call /\ append[r].pc # "new"
        /\ request[r].step \in SolveSteps
        /\ request[r].step = "new" => append[r].pc = "new"
        /\ request[r].step \in {"index", "evict", "continuity"} => append[r].pc \in Verdicts
    <3>1. r \in Call
      BY <1>4, MemoryAssumption
    <3> QED
      BY <1>1, <1>4, <3>1 DEF GatewayInv, RequestInv, SolveInv, LoopHolderInv
  <2>2. append[r].pc \in Verdicts
    BY <1>1, <2>1 DEF SolveSteps
  <2>3. Return(r)
    BY <1>1, <2>2 DEF Return
  <2> QED
    BY <1>3, <2>1, <2>3 DEF LedgerNext
<1>5. CASE r \in Forget
  <2>1. Elsewhere(r) /\ r \in Coroutine \ Call
    BY <1>1, <1>5, MemoryAssumption DEF Elsewhere
  <2> QED
    BY <1>3, <2>1 DEF LedgerNext
<1> QED
  BY <1>4, <1>5 DEF Request

\* A crash loses every append that is going on and every request.
LEMMA CrashStep ==
    ASSUME GatewayInv, Crash
    PROVE  LedgerNext /\ RequestInv'
<1>1. LedgerNext
  BY DEF Crash, LedgerNext
<1>2. PICK V : request \in Requests(V)
  BY DEF GatewayInv, RequestInv, RecordsInv
<1>3. ASSUME NEW r \in Request
      PROVE  request'[r] \in RequestOf(V) /\ request'[r].step = request[r].step
  BY <1>2 DEF Crash, Requests, RequestOf
<1>4. request' \in Requests(V)
  BY <1>3 DEF Crash, Requests
<1>5. ASSUME NEW c \in Call
      PROVE  append'[c].pc = append[c].pc \/ (append[c].pc \in Alive /\ append'[c].pc = "lost")
  BY DEF Crash, LedgerCrash, GatewayInv, LedgerInv, LedgerTypeOK, Alive
<1>6. SolveInv'
  BY <1>3, <1>5, MemoryAssumption
     DEF GatewayInv, RequestInv, SolveInv, Request, Alive, Verdicts
<1>7. LoopHolderInv'
  BY LedgerAssumption DEF Crash, LedgerCrash, LoopHolderInv
<1> QED
  BY <1>1, <1>4, <1>6, <1>7 DEF RequestInv, RecordsInv

\* Every step of the gateway is a step of the ledger, or leaves it alone.
LEMMA GatewayStep ==
    ASSUME GatewayInv, [Next]_vars
    PROVE  [LedgerNext]_ledgerVars /\ GatewayInv'
<1>1. ASSUME NEW c \in Call, ArriveElsewhere(c)
      PROVE  [LedgerNext]_ledgerVars /\ RequestInv'
  BY <1>1, ArriveStep DEF ArriveElsewhere
<1>2. ASSUME NEW c \in Call, LedgerStep(c)
      PROVE  [LedgerNext]_ledgerVars /\ RequestInv'
  BY <1>2, LedgerSteps
<1>3. ASSUME NEW r \in Solve, NEW s \in Session, Receive(r, s)
      PROVE  [LedgerNext]_ledgerVars /\ RequestInv'
  BY <1>3, ReceiveStep
<1>4. ASSUME NEW r \in Solve, Council(r)
      PROVE  [LedgerNext]_ledgerVars /\ RequestInv'
  <2>1. r \in Call /\ Gateway \in Ledger /\ request[r].step # "new"
    BY <1>4, MemoryAssumption DEF Council
  <2>2. Arrive(r, Gateway) /\ UNCHANGED memoryVars
    BY <1>4 DEF Council
  <2> QED
    BY <2>1, <2>2, ArriveStep
<1>5. ASSUME NEW r \in Solve, SaveStep(r)
      PROVE  [LedgerNext]_ledgerVars /\ RequestInv'
  BY <1>5, SaveSteps
<1>6. ASSUME NEW r \in Forget, ReceiveForget(r) \/ ForgetStep(r)
      PROVE  [LedgerNext]_ledgerVars /\ RequestInv'
  BY <1>6, ForgetSteps
<1>7. ASSUME NEW r \in Request, WriteFails(r)
      PROVE  [LedgerNext]_ledgerVars /\ RequestInv'
  BY <1>7, WriteFailsStep
<1>8. ASSUME Crash
      PROVE  [LedgerNext]_ledgerVars /\ RequestInv'
  BY <1>8, CrashStep
<1>9. ASSUME UNCHANGED vars
      PROVE  [LedgerNext]_ledgerVars /\ RequestInv'
  BY <1>9 DEF vars, ledgerVars, memoryVars, GatewayInv, RequestInv, RecordsInv, SolveInv,
     LoopHolderInv
<1>10. [LedgerNext]_ledgerVars /\ RequestInv'
  BY <1>1, <1>2, <1>3, <1>4, <1>5, <1>6, <1>7, <1>8, <1>9 DEF Next
<1> QED
  BY <1>10, StepInv DEF GatewayInv

-----------------------------------------------------------------------------
(* Sequences without duplicates. *)

\* What is left of a sequence without duplicates when an element is removed.
LEMMA RemoveOne ==
    ASSUME NEW S, NEW q \in Seq(S), IsInjective(q), NEW e
    PROVE  /\ RemoveFirst(q, e) \in Seq(S)
           /\ IsInjective(RemoveFirst(q, e))
           /\ ToSet(RemoveFirst(q, e)) = ToSet(q) \ {e}
<1> DEFINE n == Len(q)
           w == RemoveFirst(q, e)
<1>1. n \in Nat /\ DOMAIN q = 1 .. n /\ \A i \in 1 .. n : q[i] \in S
  BY LenProperties, ElementOfSeq
<1>2. CASE \A i \in 1 .. n : q[i] # e
  <2>1. w = q
    BY <1>2 DEF RemoveFirst
  <2> QED
    BY <1>1, <1>2, <2>1 DEF ToSet
<1>3. CASE \E i \in 1 .. n : q[i] = e
  <2>1. PICK i \in 1 .. n : q[i] = e
    BY <1>3
  <2>2. {j \in 1 .. n : q[j] = e} = {i}
    BY <1>1, <2>1 DEF IsInjective
  <2>3. SelectInSeq(q, LAMBDA v : v = e) = i
    <3>1. Min({i}) = i
      BY <2>1 DEF Min
    <3> QED
      BY <2>2, <3>1 DEF SelectInSeq
  <2> DEFINE a == SubSeq(q, 1, i - 1)
             b == SubSeq(q, i + 1, n)
  <2>4. w = a \o b
    BY <1>3, <2>3 DEF RemoveFirst, RemoveAt
  <2>5. a \in Seq(S) /\ Len(a) = i - 1 /\ \A j \in 1 .. i - 1 : a[j] = q[j]
    <3>1. 1 \in Int /\ i - 1 \in Int /\ \A j \in 1 .. i - 1 : q[j] \in S
      BY <1>1, <2>1
    <3>2. /\ a \in Seq(S)
          /\ Len(a) = IF 1 <= i - 1 THEN (i - 1) - 1 + 1 ELSE 0
          /\ \A j \in 1 .. (i - 1) - 1 + 1 : a[j] = q[1 + j - 1]
      BY <3>1, SubSeqProperties
    <3> QED
      BY <2>1, <3>2
  <2>6. b \in Seq(S) /\ Len(b) = n - i /\ \A j \in 1 .. n - i : b[j] = q[i + j]
    <3>1. i + 1 \in Int /\ n \in Int /\ \A j \in i + 1 .. n : q[j] \in S
      BY <1>1, <2>1
    <3>2. /\ b \in Seq(S)
          /\ Len(b) = IF i + 1 <= n THEN n - (i + 1) + 1 ELSE 0
          /\ \A j \in 1 .. n - (i + 1) + 1 : b[j] = q[(i + 1) + j - 1]
      BY <3>1, SubSeqProperties
    <3> QED
      BY <1>1, <2>1, <3>2
  <2> HIDE DEF a, b
  <2>7. /\ w \in Seq(S)
        /\ Len(w) = n - 1
        /\ \A j \in 1 .. n - 1 : w[j] = IF j <= i - 1 THEN q[j] ELSE q[j + 1]
    <3>1. /\ w \in Seq(S)
          /\ Len(w) = Len(a) + Len(b)
          /\ \A j \in 1 .. Len(a) + Len(b) :
                w[j] = IF j <= Len(a) THEN a[j] ELSE b[j - Len(a)]
      <4> HIDE DEF w
      <4>1. a \in Seq(S) /\ b \in Seq(S)
        BY <2>5, <2>6
      <4> QED
        BY <2>4, <4>1, ConcatProperties
    <3>2. Len(a) + Len(b) = n - 1
      BY <1>1, <2>1, <2>5, <2>6
    <3>3. ASSUME NEW j \in 1 .. n - 1
          PROVE  w[j] = IF j <= i - 1 THEN q[j] ELSE q[j + 1]
      <4>1. CASE j <= i - 1
        BY <1>1, <2>1, <2>5, <3>1, <3>2, <4>1
      <4>2. CASE ~(j <= i - 1)
        <5>1. j - (i - 1) \in 1 .. n - i /\ i + (j - (i - 1)) = j + 1
          BY <1>1, <2>1, <4>2
        <5> QED
          BY <2>5, <2>6, <3>1, <3>2, <4>2, <5>1
      <4> QED
        BY <4>1, <4>2
    <3> QED
      BY <3>1, <3>2, <3>3
  <2> HIDE DEF w, n
  <2>8. DOMAIN w = 1 .. n - 1
    BY <2>7, LenProperties
  <2>9. IsInjective(w)
    <3> SUFFICES ASSUME NEW j \in 1 .. n - 1, NEW k \in 1 .. n - 1, w[j] = w[k]
                 PROVE  j = k
      BY <2>8 DEF IsInjective
    <3>1. PICK x \in 1 .. n : w[j] = q[x] /\ (j <= i - 1 => x = j) /\ (j > i - 1 => x = j + 1)
      BY <1>1, <2>1, <2>7
    <3>2. PICK y \in 1 .. n : w[k] = q[y] /\ (k <= i - 1 => y = k) /\ (k > i - 1 => y = k + 1)
      BY <1>1, <2>1, <2>7
    <3>3. x = y
      BY <1>1, <3>1, <3>2 DEF IsInjective
    <3> QED
      BY <1>1, <2>1, <3>1, <3>2, <3>3
  <2>10. ASSUME NEW x \in ToSet(w) PROVE x \in ToSet(q) \ {e}
    <3>1. PICK j \in 1 .. n - 1 : x = w[j]
      BY <2>8, <2>10 DEF ToSet
    <3>2. PICK k \in 1 .. n : x = q[k] /\ k # i
      BY <1>1, <2>1, <2>7, <3>1
    <3> QED
      BY <1>1, <2>1, <3>2 DEF ToSet, IsInjective
  <2>11. ASSUME NEW x \in ToSet(q) \ {e} PROVE x \in ToSet(w)
    <3>1. PICK k \in 1 .. n : x = q[k] /\ k # i
      BY <1>1, <2>1 DEF ToSet
    <3>2. CASE k < i
      <4>1. k \in 1 .. n - 1 /\ w[k] = x
        BY <1>1, <2>1, <2>7, <3>1, <3>2
      <4> QED
        BY <2>8, <4>1 DEF ToSet
    <3>3. CASE k > i
      <4>1. k - 1 \in 1 .. n - 1 /\ ~(k - 1 <= i - 1) /\ (k - 1) + 1 = k
        BY <1>1, <2>1, <3>1, <3>3
      <4>2. w[k - 1] = x
        BY <2>7, <3>1, <4>1
      <4> QED
        BY <2>8, <4>1, <4>2 DEF ToSet
    <3> QED
      BY <1>1, <2>1, <3>1, <3>2, <3>3
  <2>12. ToSet(w) = ToSet(q) \ {e}
    BY <2>10, <2>11
  <2> QED
    BY <2>7, <2>9, <2>12 DEF w
<1> QED
  BY <1>2, <1>3

\* An element is appended that is not in the sequence.
LEMMA AppendNew ==
    ASSUME NEW S, NEW q \in Seq(S), IsInjective(q), NEW e \in S, e \notin ToSet(q)
    PROVE  /\ Append(q, e) \in Seq(S)
           /\ IsInjective(Append(q, e))
           /\ ToSet(Append(q, e)) = ToSet(q) \cup {e}
<1> DEFINE n == Len(q)
           w == Append(q, e)
<1>1. n \in Nat /\ DOMAIN q = 1 .. n
  BY LenProperties
<1>2. /\ w \in Seq(S) /\ Len(w) = n + 1 /\ DOMAIN w = 1 .. n + 1
      /\ \A i \in 1 .. n : w[i] = q[i]
      /\ w[n + 1] = e
  BY AppendProperties, LenProperties
<1> HIDE DEF w, n
<1>3. \A i \in 1 .. n : q[i] # e
  BY <1>1 DEF ToSet
<1>4. \A i \in 1 .. n + 1 : i = n + 1 \/ i \in 1 .. n
  BY <1>1
<1>5. n + 1 \in 1 .. n + 1 /\ 1 .. n \subseteq 1 .. n + 1
  BY <1>1
<1>6. IsInjective(w)
  BY <1>1, <1>2, <1>3, <1>4 DEF IsInjective
<1>7. ToSet(w) = ToSet(q) \cup {e}
  BY <1>1, <1>2, <1>4, <1>5 DEF ToSet
<1> QED
  BY <1>2, <1>6, <1>7 DEF w

\* A sequence without duplicates is cut after its first m elements.
LEMMA CutAt ==
    ASSUME NEW S, NEW q \in Seq(S), IsInjective(q), NEW m \in 0 .. Len(q)
    PROVE  /\ SubSeq(q, 1, m) \in Seq(S) /\ SubSeq(q, 1 + m, Len(q)) \in Seq(S)
           /\ Len(SubSeq(q, 1 + m, Len(q))) = Len(q) - m
           /\ IsInjective(SubSeq(q, 1 + m, Len(q)))
           /\ ToSet(q) = ToSet(SubSeq(q, 1, m)) \cup ToSet(SubSeq(q, 1 + m, Len(q)))
<1> DEFINE len == Len(q)
           a == SubSeq(q, 1, m)
           b == SubSeq(q, 1 + m, Len(q))
<1>1. len \in Nat /\ DOMAIN q = 1 .. len /\ \A i \in 1 .. len : q[i] \in S
  BY LenProperties, ElementOfSeq
<1>2. m \in 0 .. len
  OBVIOUS
<1> HIDE DEF len
<1>3. a \in Seq(S) /\ Len(a) = m /\ \A i \in 1 .. m : a[i] = q[i]
  <2>1. 1 \in Int /\ m \in Int /\ \A i \in 1 .. m : q[i] \in S
    BY <1>1, <1>2
  <2>2. /\ a \in Seq(S)
        /\ Len(a) = IF 1 <= m THEN m - 1 + 1 ELSE 0
        /\ \A i \in 1 .. m - 1 + 1 : a[i] = q[1 + i - 1]
    BY <2>1, SubSeqProperties
  <2> QED
    BY <1>1, <1>2, <2>2
<1>4. b \in Seq(S) /\ Len(b) = len - m /\ \A i \in 1 .. len - m : b[i] = q[m + i]
  <2>1. b = SubSeq(q, 1 + m, len)
    BY DEF len
  <2>2. 1 + m \in Int /\ len \in Int /\ \A i \in (1 + m) .. len : q[i] \in S
    BY <1>1, <1>2
  <2>3. /\ b \in Seq(S)
        /\ Len(b) = IF 1 + m <= len THEN len - (1 + m) + 1 ELSE 0
        /\ \A i \in 1 .. len - (1 + m) + 1 : b[i] = q[(1 + m) + i - 1]
    BY <2>1, <2>2, SubSeqProperties
  <2> QED
    BY <1>1, <1>2, <2>3
<1> HIDE DEF a, b
<1>5. DOMAIN a = 1 .. m /\ DOMAIN b = 1 .. len - m
  BY <1>3, <1>4, LenProperties
<1>6. \A i \in 1 .. len - m : m + i \in 1 .. len
  BY <1>1, <1>2
<1>7. IsInjective(b)
  <2> SUFFICES ASSUME NEW i \in 1 .. len - m, NEW j \in 1 .. len - m, b[i] = b[j]
               PROVE  i = j
    BY <1>5 DEF IsInjective
  <2>1. q[m + i] = q[m + j] /\ m + i \in DOMAIN q /\ m + j \in DOMAIN q
    BY <1>1, <1>4, <1>6
  <2>2. m + i = m + j
    BY <2>1 DEF IsInjective
  <2> QED
    BY <1>1, <1>2, <2>2
<1>8. ASSUME NEW x \in ToSet(q) PROVE x \in ToSet(a) \cup ToSet(b)
  <2>1. PICK i \in 1 .. len : x = q[i]
    BY <1>1 DEF ToSet
  <2>2. CASE i <= m
    <3>1. i \in 1 .. m
      BY <1>1, <1>2, <2>1, <2>2
    <3> QED
      BY <1>3, <1>5, <2>1, <3>1 DEF ToSet
  <2>3. CASE i > m
    <3>1. i - m \in 1 .. len - m /\ m + (i - m) = i
      BY <1>1, <1>2, <2>1, <2>3
    <3>2. b[i - m] = x
      BY <1>4, <2>1, <3>1
    <3> QED
      BY <1>5, <3>1, <3>2 DEF ToSet
  <2> QED
    BY <1>2, <2>2, <2>3
<1>9. ASSUME NEW x \in ToSet(a) \cup ToSet(b) PROVE x \in ToSet(q)
  <2>1. CASE x \in ToSet(a)
    <3>1. PICK i \in 1 .. m : x = q[i]
      BY <1>3, <1>5, <2>1 DEF ToSet
    <3>2. i \in DOMAIN q
      BY <1>1, <1>2
    <3> QED
      BY <3>1, <3>2 DEF ToSet
  <2>2. CASE x \in ToSet(b)
    <3>1. PICK i \in 1 .. len - m : x = q[m + i]
      BY <1>4, <1>5, <2>2 DEF ToSet
    <3>2. m + i \in DOMAIN q
      BY <1>1, <1>6
    <3> QED
      BY <3>1, <3>2 DEF ToSet
  <2> QED
    BY <1>9, <2>1, <2>2
<1>10. /\ a \in Seq(S) /\ b \in Seq(S)
       /\ Len(b) = Len(q) - m
       /\ IsInjective(b)
       /\ ToSet(q) = ToSet(a) \cup ToSet(b)
  BY <1>3, <1>4, <1>7, <1>8, <1>9 DEF len
<1> QED
  BY <1>10 DEF a, b

\* A sequence without duplicates is cut before its last n elements.
LEMMA CutSeq ==
    ASSUME NEW S, NEW q \in Seq(S), IsInjective(q), NEW n \in Nat
    PROVE  /\ SubSeq(q, 1, Len(q) - n) \in Seq(S) /\ LastOf(q, n) \in Seq(S)
           /\ Len(LastOf(q, n)) <= n
           /\ IsInjective(LastOf(q, n))
           /\ ToSet(q) = ToSet(SubSeq(q, 1, Len(q) - n)) \cup ToSet(LastOf(q, n))
<1> DEFINE a == SubSeq(q, 1, Len(q) - n)
           b == LastOf(q, n)
<1>1. Len(q) \in Nat
  BY LenProperties
<1>2. PICK m \in 0 .. Len(q) :
         /\ a = SubSeq(q, 1, m) /\ b = SubSeq(q, 1 + m, Len(q)) /\ Len(q) - m <= n
  <2>1. CASE Len(q) > n
    <3>1. Len(q) - n \in 0 .. Len(q) /\ Len(q) - (Len(q) - n) <= n
      BY <1>1, <2>1
    <3>2. b = SubSeq(q, 1 + (Len(q) - n), Len(q))
      BY <2>1 DEF LastOf
    <3> QED
      BY <3>1, <3>2
  <2>2. CASE ~(Len(q) > n)
    <3>1. 0 \in 0 .. Len(q) /\ Len(q) - 0 <= n /\ Len(q) - n < 1
      BY <1>1, <2>2
    <3>2. b = SubSeq(q, 1 + 0, Len(q))
      BY <2>2 DEF LastOf
    <3>3. a = <<>> /\ SubSeq(q, 1, 0) = <<>>
      BY <1>1, <3>1, SubSeqEmpty
    <3> QED
      BY <3>1, <3>2, <3>3
  <2> QED
    BY <2>1, <2>2
<1> HIDE DEF a, b
<1>3. /\ a \in Seq(S) /\ b \in Seq(S)
      /\ Len(b) = Len(q) - m
      /\ IsInjective(b)
      /\ ToSet(q) = ToSet(a) \cup ToSet(b)
  BY <1>2, CutAt
<1>4. Len(b) <= n
  BY <1>2, <1>3
<1> QED
  BY <1>3, <1>4 DEF a, b

LEMMA LastTyped ==
    ASSUME NEW S, NEW q \in Seq(S), NEW n \in Nat
    PROVE  LastOf(q, n) \in Seq(S)
<1> DEFINE m == 1 + IF Len(q) > n THEN Len(q) - n ELSE 0
<1>1. Len(q) \in Nat /\ \A i \in 1 .. Len(q) : q[i] \in S
  BY LenProperties, ElementOfSeq
<1>2. m \in Int /\ m >= 1
  BY <1>1
<1>3. LastOf(q, n) = SubSeq(q, m, Len(q))
  BY DEF LastOf
<1> HIDE DEF m
<1>4. Len(q) \in Int /\ \A i \in m .. Len(q) : q[i] \in S
  BY <1>1, <1>2
<1> QED
  BY <1>2, <1>3, <1>4, SubSeqProperties

\* Whatever is in a sequence is its head or is in its tail.
LEMMA HeadOrTail ==
    ASSUME NEW S, NEW q \in Seq(S), q # <<>>
    PROVE  /\ Head(q) \in S
           /\ Tail(q) \in Seq(S)
           /\ ToSet(q) \subseteq {Head(q)} \cup ToSet(Tail(q))
<1>1. /\ Head(q) \in S /\ Tail(q) \in Seq(S)
      /\ Len(Tail(q)) = Len(q) - 1
      /\ \A i \in 1 .. Len(Tail(q)) : Tail(q)[i] = q[i + 1]
      /\ Len(q) \in Nat /\ DOMAIN q = 1 .. Len(q) /\ DOMAIN Tail(q) = 1 .. Len(Tail(q))
      /\ Head(q) = q[1]
  BY HeadTailProperties, LenProperties, HeadTailProperties
<1>2. ASSUME NEW i \in 1 .. Len(q), i # 1
      PROVE  q[i] \in ToSet(Tail(q))
  <2>1. i - 1 \in 1 .. Len(q) - 1 /\ (i - 1) + 1 = i
    BY <1>1, <1>2
  <2>2. Tail(q)[i - 1] = q[i]
    BY <1>1, <2>1
  <2> QED
    BY <1>1, <2>1, <2>2 DEF ToSet
<1>3. \A x \in ToSet(q) : x \in {Head(q)} \cup ToSet(Tail(q))
  BY <1>1, <1>2 DEF ToSet
<1> QED
  BY <1>1, <1>3

\* The index after a save, and what falls out of it, are what it was with the
\* session of the save.
LEMMA IndexMoves ==
    ASSUME NEW s \in Session, index \in Seq(Session), IsInjective(index)
    PROVE  /\ Indexed(s) \in Seq(Session) /\ IsInjective(Indexed(s))
           /\ Len(Indexed(s)) <= MaxItems
           /\ Evicted(s) \in Seq(Session)
           /\ ToSet(index) \cup {s} = ToSet(Evicted(s)) \cup ToSet(Indexed(s))
<1> DEFINE w == RemoveFirst(index, s)
           u == Unique(s)
<1>1. w \in Seq(Session) /\ IsInjective(w) /\ ToSet(w) = ToSet(index) \ {s}
  BY RemoveOne
<1>2. u = Append(w, s) /\ s \notin ToSet(w)
  BY <1>1 DEF Unique
<1> HIDE DEF w, u
<1>3. u \in Seq(Session) /\ IsInjective(u) /\ ToSet(u) = ToSet(w) \cup {s}
  BY <1>1, <1>2, AppendNew
<1>4. MaxItems \in Nat
  BY MemoryAssumption
<1>5. Indexed(s) = LastOf(u, MaxItems) /\ Evicted(s) = SubSeq(u, 1, Len(u) - MaxItems)
  BY DEF Indexed, Evicted, u
<1> QED
  BY <1>1, <1>3, <1>4, <1>5, CutSeq

-----------------------------------------------------------------------------
(* The memory: its types, and where its threads can be found. *)

RequestRecord == [step : MemorySteps, state : {"open", "done", "failed"},
                  session : Session \cup {None}, history : Seq(Solve), todo : Seq(Session)]

Typed == request \in [Request -> RequestRecord]

OthersStay(r) == \A q \in Request : q # r => request'[q] = request[q]

\* A request becomes another one.
Becomes(r, step, state, session, todo) ==
    /\ Typed'
    /\ OthersStay(r)
    /\ request'[r].step = step
    /\ request'[r].state = state
    /\ request'[r].session = session
    /\ request'[r].todo = todo

LEMMA PutBecomes ==
    ASSUME Typed, NEW r \in Request, NEW q \in RequestRecord,
           request' = [request EXCEPT ![r] = q]
    PROVE  Becomes(r, q.step, q.state, q.session, q.todo)
<1>1. Typed' /\ request'[r] = q /\ OthersStay(r)
  BY DEF Typed, OthersStay
<1> QED
  BY <1>1 DEF Becomes

LEMMA StepBecomes ==
    ASSUME Typed, NEW r \in Request, NEW step \in MemorySteps, Step(r, step)
    PROVE  Becomes(r, step, request[r].state, request[r].session, request[r].todo)
<1> DEFINE q == [request[r] EXCEPT !.step = step]
<1>1. /\ q \in RequestRecord /\ q.step = step /\ q.state = request[r].state
      /\ q.session = request[r].session /\ q.todo = request[r].todo
  BY DEF Typed, RequestRecord
<1>2. request' = [request EXCEPT ![r] = q]
  BY DEF Typed, RequestRecord, Step
<1> HIDE DEF q
<1>3. Becomes(r, q.step, q.state, q.session, q.todo)
  BY <1>1, <1>2, PutBecomes
<1> QED
  BY <1>1, <1>3

LEMMA StateBecomes ==
    ASSUME Typed, NEW r \in Request, NEW x \in {"open", "done", "failed"},
           request' = [request EXCEPT ![r].state = x]
    PROVE  Becomes(r, request[r].step, x, request[r].session, request[r].todo)
<1> DEFINE q == [request[r] EXCEPT !.state = x]
<1>1. /\ q \in RequestRecord /\ q.step = request[r].step /\ q.state = x
      /\ q.session = request[r].session /\ q.todo = request[r].todo
  BY DEF Typed, RequestRecord
<1>2. request' = [request EXCEPT ![r] = q]
  BY DEF Typed, RequestRecord
<1> HIDE DEF q
<1>3. Becomes(r, q.step, q.state, q.session, q.todo)
  BY <1>1, <1>2, PutBecomes
<1> QED
  BY <1>1, <1>3

LEMMA TodoBecomes ==
    ASSUME Typed, NEW r \in Request, NEW step \in MemorySteps, NEW t \in Seq(Session),
           request' = [request EXCEPT ![r].step = step, ![r].todo = t]
    PROVE  Becomes(r, step, request[r].state, request[r].session, t)
<1> DEFINE q == [request[r] EXCEPT !.step = step, !.todo = t]
<1>1. /\ q \in RequestRecord /\ q.step = step /\ q.state = request[r].state
      /\ q.session = request[r].session /\ q.todo = t
  BY DEF Typed, RequestRecord
<1>2. request' = [request EXCEPT ![r] = q]
  BY DEF Typed, RequestRecord
<1> HIDE DEF q
<1>3. Becomes(r, q.step, q.state, q.session, q.todo)
  BY <1>1, <1>2, PutBecomes
<1> QED
  BY <1>1, <1>3

LEMMA TailBecomes ==
    ASSUME Typed, NEW r \in Request, request[r].todo # <<>>,
           request' = [request EXCEPT ![r].todo = Tail(@)]
    PROVE  Becomes(r, request[r].step, request[r].state, request[r].session,
                   Tail(request[r].todo))
<1> DEFINE t == Tail(request[r].todo)
           q == [request[r] EXCEPT !.todo = t]
<1>1. t \in Seq(Session)
  <2>1. request[r].todo \in Seq(Session)
    BY DEF Typed, RequestRecord
  <2> QED
    BY <2>1, HeadOrTail
<1>2. request' = [request EXCEPT ![r] = q]
  BY DEF Typed, RequestRecord
<1> HIDE DEF t
<1>3. /\ q \in RequestRecord /\ q.step = request[r].step /\ q.state = request[r].state
      /\ q.session = request[r].session /\ q.todo = t
  BY <1>1 DEF Typed, RequestRecord
<1> HIDE DEF q
<1>4. Becomes(r, q.step, q.state, q.session, q.todo)
  BY <1>2, <1>3, PutBecomes
<1> QED
  BY <1>3, <1>4 DEF t

LEMMA ReceiveBecomes ==
    ASSUME Typed, NEW r \in Request, NEW s \in Session, NEW h \in Seq(Solve),
           request' = [request EXCEPT ![r].step = "council", ![r].session = s,
                                      ![r].history = h]
    PROVE  Becomes(r, "council", request[r].state, s, request[r].todo)
<1> DEFINE q == [request[r] EXCEPT !.step = "council", !.session = s, !.history = h]
<1>1. /\ q \in RequestRecord /\ q.step = "council" /\ q.state = request[r].state
      /\ q.session = s /\ q.todo = request[r].todo
  BY DEF Typed, RequestRecord, MemorySteps
<1>2. request' = [request EXCEPT ![r] = q]
  BY DEF Typed, RequestRecord
<1> HIDE DEF q
<1>3. Becomes(r, q.step, q.state, q.session, q.todo)
  BY <1>1, <1>2, PutBecomes
<1> QED
  BY <1>1, <1>3

\* What a request has left half done depends on these fields only.
LEMMA HalfSame ==
    ASSUME NEW r, request'[r].step = request[r].step,
           request'[r].session = request[r].session, request'[r].todo = request[r].todo
    PROVE  Half(r)' = Half(r)
BY DEF Half

LEMMA LooseKept ==
    ASSUME NEW r \in Request, OthersStay(r), running \in {r, None},
           NEW s \in Loose, s \notin Loose'
    PROVE  r \in Solve /\ s \in Half(r)
<1>1. PICK q \in Solve : (request[q].state = "failed" \/ running = q) /\ s \in Half(q)
  BY DEF Loose
<1>2. q \in Request /\ q # None
  BY <1>1, LedgerAssumption, MemoryAssumption DEF Request
<1>3. ASSUME q # r PROVE s \in Loose'
  <2>1. request[q].state = "failed" /\ request'[q] = request[q]
    BY <1>1, <1>2, <1>3 DEF OthersStay
  <2>2. Half(q)' = Half(q)
    BY <2>1, HalfSame
  <2> QED
    BY <1>1, <2>1, <2>2 DEF Loose
<1> QED
  BY <1>1, <1>3

LEMMA LooseHas ==
    ASSUME NEW r \in Solve, request'[r].state = "failed" \/ running' = r, NEW s \in Half(r)'
    PROVE  s \in Loose'
BY DEF Loose

\* Whoever has the loop is open, after a step of a request.
LEMMA OpenKept ==
    ASSUME RunnerIsOpen, NEW r \in Request, OthersStay(r), UNCHANGED append,
           running \in {r, None}, running' \in {running, r, None},
           r \in Solve => append[r].pc \notin Alive,
           request'[r].step = "new" => request'[r].state = "open",
           running' = r => request'[r].state = "open" /\ request'[r].step # "new",
           r \in Solve /\ request'[r].step # "new" => request'[r].session \in Session
    PROVE  RunnerIsOpen'
<1>1. \A q \in Request : q # None
  BY LedgerAssumption, MemoryAssumption DEF Request
<1>2. ASSUME NEW q \in Solve, append'[q].pc \in Alive
      PROVE  request'[q].step = "council" /\ request'[q].state = "open"
  BY <1>2 DEF RunnerIsOpen, OthersStay, Request, Alive
<1>3. ASSUME NEW q \in Request
      PROVE  /\ request'[q].step = "new" => request'[q].state = "open"
             /\ running' = q => request'[q].state = "open" /\ request'[q].step # "new"
             /\ q \in Solve /\ request'[q].step # "new" => request'[q].session \in Session
  BY <1>1, <1>3 DEF RunnerIsOpen, OthersStay
<1> QED
  BY <1>2, <1>3 DEF RunnerIsOpen, Alive

\* What the types say of the memory, and of a request.
LEMMA MemoryTypes ==
    ASSUME MemoryInv
    PROVE  /\ Typed
           /\ \A r \in Request :
                /\ request[r].history \in Seq(Solve)
                /\ request[r].todo \in Seq(Session)
                /\ request[r].step = "new" => request[r].state = "open"
                /\ running = r => request[r].state = "open" /\ request[r].step # "new"
                /\ r \in Solve /\ request[r].step # "new" => request[r].session \in Session
           /\ \A s \in Session : thread[s] \in Seq(Solve)
<1>1. Typed
  BY DEF MemoryInv, MemoryTypeOK, Typed, RequestRecord
<1>2. \A r \in Request : request[r].history \in Seq(Solve) /\ request[r].todo \in Seq(Session)
  BY <1>1 DEF Typed, RequestRecord
<1> QED
  BY <1>1, <1>2 DEF MemoryInv, MemoryTypeOK, RunnerIsOpen

\* The types after a step, if they hold of what it changes.
LEMMA TypesKept ==
    ASSUME GatewayInv', Typed', thread' \in [Session -> Seq(Solve)],
           index' \in Seq(Session) /\ Len(index') <= MaxItems /\ IsInjective(index'),
           continuity' \in [Session -> Seq(Solve)]
    PROVE  MemoryTypeOK'
BY DEF MemoryTypeOK, GatewayInv, LedgerInv, Typed, RequestRecord

\* No forget has the loop: only the index has to say where threads are.
LEMMA NoForget ==
    ASSUME running' \notin Forget,
           \A s \in Session : thread'[s] # <<>> => s \in ToSet(index') \cup Loose'
    PROVE  ThreadsAreFound'
BY DEF ThreadsAreFound

-----------------------------------------------------------------------------
(* The steps, for the memory. *)

\* A step of the ledger leaves the memory alone.
LEMMA LedgerMemory ==
    ASSUME GatewayInv, GatewayInv', MemoryInv, NEW c \in Call, UNCHANGED memoryVars,
           \A d \in Call : d # c => append'[d] = append[d],
           running \in {None, c}, running' \in {running, None, c},
           running = c => running' = c \/ c \notin Solve \/ request[c].step = "council",
           c \in Solve => \/ request[c].step = "council" /\ request[c].state = "open"
                          \/ append'[c].pc \notin Alive /\ running' # c
    PROVE  MemoryInv'
<1>1. UNCHANGED <<request, thread, index, continuity>>
  BY DEF memoryVars
<1>2. MemoryTypeOK'
  BY <1>1, MemoryTypes, TypesKept DEF Typed, MemoryInv, MemoryTypeOK
<1>3. \A f \in Forget : f # c /\ f # None
  BY LedgerAssumption, MemoryAssumption
<1>4. \A r \in Request : r # None /\ (r \in Solve \/ r # c)
  BY <1>3, LedgerAssumption, MemoryAssumption DEF Request
<1>5. RunnerIsOpen'
  <2>1. ASSUME NEW r \in Solve, append'[r].pc \in Alive
        PROVE  request'[r].step = "council" /\ request'[r].state = "open"
    BY <1>1, <2>1, MemoryAssumption DEF MemoryInv, RunnerIsOpen, Alive
  <2>2. ASSUME NEW r \in Request
        PROVE  /\ request'[r].step = "new" => request'[r].state = "open"
               /\ running' = r => request'[r].state = "open" /\ request'[r].step # "new"
               /\ r \in Solve /\ request'[r].step # "new" => request'[r].session \in Session
    BY <1>1, <1>4, <2>2 DEF MemoryInv, RunnerIsOpen
  <2> QED
    BY <2>1, <2>2 DEF RunnerIsOpen, Alive
<1>6. ASSUME NEW s \in Loose PROVE s \in Loose'
  <2>1. PICK q \in Solve : (request[q].state = "failed" \/ running = q) /\ s \in Half(q)
    BY <1>6 DEF Loose
  <2>2. Half(q)' = Half(q)
    BY <1>1, HalfSame
  <2>3. request[q].step # "council"
    BY <2>1 DEF Half
  <2>4. q # None /\ q \in Call
    BY LedgerAssumption, MemoryAssumption
  <2>5. CASE request[q].state = "failed"
    BY <1>1, <2>1, <2>2, <2>5, LooseHas
  <2>6. CASE running = q /\ request[q].state # "failed"
    <3>1. running' = q
      BY <2>3, <2>4, <2>6
    <3> QED
      BY <2>1, <2>2, <3>1, LooseHas
  <2> QED
    BY <2>1, <2>5, <2>6
<1>7. ThreadsAreFound'
  <2>1. \A s \in Session : thread'[s] # <<>> => s \in ToSet(index') \cup Loose'
    BY <1>1, <1>6 DEF MemoryInv, ThreadsAreFound
  <2>2. ASSUME NEW f \in Forget, running' = f PROVE running = f
    BY <1>3, <2>2
  <2> QED
    BY <1>1, <1>6, <2>1, <2>2 DEF MemoryInv, ThreadsAreFound
<1> QED
  BY <1>2, <1>5, <1>7 DEF MemoryInv

LEMMA AppendMemory ==
    ASSUME GatewayInv, GatewayInv', MemoryInv, NEW c \in Call, LedgerStep(c)
    PROVE  MemoryInv'
<1>1. UNCHANGED memoryVars
  BY DEF LedgerStep
<1>2. CASE AppendStep(c)
  <2>1. /\ append[c].pc \in Alive
        /\ \A d \in Call : d # c => append'[d] = append[d]
        /\ running' \in {running, None, c}
    BY <1>2, AppendStepShape DEF GatewayInv
  <2>2. running \in {None, c}
    BY <1>2 DEF AppendStep, Begin, BeginError, Commit, SignFail, CommitError, Confirm, ConfirmError
  <2>3. c \in Solve => request[c].step = "council" /\ request[c].state = "open"
    BY <2>1 DEF MemoryInv, RunnerIsOpen, Alive
  <2> QED
    BY <1>1, <2>1, <2>2, <2>3, LedgerMemory
<1>3. CASE c \notin Solve /\ Return(c)
  <2>1. running = c /\ running' = None /\ UNCHANGED append
    BY <1>3 DEF Return
  <2> QED
    BY <1>1, <1>3, <2>1, LedgerMemory
<1> QED
  BY <1>2, <1>3 DEF LedgerStep

LEMMA ArriveMemory ==
    ASSUME GatewayInv, GatewayInv', MemoryInv, NEW c \in Call, NEW l \in Ledger,
           Arrive(c, l), UNCHANGED memoryVars,
           c \in Solve => request[c].step = "council" /\ request[c].state = "open"
    PROVE  MemoryInv'
<1>1. LedgerTypeOK
  BY DEF GatewayInv, LedgerInv
<1>2. /\ running = None /\ running' = None
      /\ \A d \in Call : d # c => append'[d] = append[d]
  BY <1>1 DEF Arrive, LedgerTypeOK
<1>3. c # None
  BY LedgerAssumption
<1> QED
  BY <1>2, <1>3, LedgerMemory

\* A solve that comes in has left nothing half done.
LEMMA ReceiveMemory ==
    ASSUME GatewayInv, GatewayInv', MemoryInv, NEW r \in Solve, NEW s \in Session,
           Receive(r, s)
    PROVE  MemoryInv'
<1>1. Typed /\ r \in Request /\ thread[s] \in Seq(Solve)
  BY MemoryTypes DEF Request
<1>2. /\ running = None /\ running' = None /\ request[r].step = "new"
      /\ UNCHANGED <<append, thread, index, continuity>>
  BY DEF Receive, ledgerVars
<1>3. Becomes(r, "council", request[r].state, s, request[r].todo)
  BY <1>1, ReceiveBecomes DEF Receive
<1>4. MemoryTypeOK'
  BY <1>2, <1>3, TypesKept DEF Becomes, MemoryInv, MemoryTypeOK
<1>5. append[r].pc = "new" /\ r # None
  BY <1>2, LedgerAssumption, MemoryAssumption DEF GatewayInv, RequestInv, SolveInv
<1>6. RunnerIsOpen'
  BY <1>1, <1>2, <1>3, <1>5, OpenKept DEF Becomes, MemoryInv, Alive
<1>7. Half(r) = {}
  BY <1>2 DEF Half
<1>8. \A x \in Loose : x \in Loose'
  BY <1>1, <1>2, <1>3, <1>7, LooseKept DEF Becomes
<1>9. running' \notin Forget
  BY <1>2, LedgerAssumption, MemoryAssumption
<1>10. ThreadsAreFound'
  BY <1>2, <1>8, <1>9, NoForget DEF MemoryInv, ThreadsAreFound
<1> QED
  BY <1>4, <1>6, <1>10 DEF MemoryInv

\* What the saves have in common: the solve has the loop, and its verdict.
LEMMA Saving ==
    ASSUME GatewayInv, MemoryInv, NEW r \in Solve, SaveStep(r)
    PROVE  /\ Typed /\ r \in Request /\ r # None /\ r \notin Forget /\ None \notin Forget
           /\ running = r
           /\ append[r].pc \notin Alive
           /\ request[r].state = "open" /\ request[r].step # "new"
           /\ request[r].session \in Session
           /\ request[r].history \in Seq(Solve) /\ request[r].todo \in Seq(Session)
           /\ Updated(r) \in Seq(Solve)
           /\ \A s \in Session : thread[s] # <<>> => s \in ToSet(index) \cup Loose
<1>1. /\ r \in Request /\ r # None /\ r \notin Forget /\ None \notin Forget
      /\ running = r /\ append[r].pc \in Verdicts
  BY LedgerAssumption, MemoryAssumption DEF GatewayInv, RequestInv, SolveInv, Request, SaveStep,
     SaveThread, SaveIndex, Evict, SaveContinuity
<1>2. append[r].pc \notin Alive
  BY <1>1 DEF Alive, Verdicts
<1>3. request[r].history \in Seq(Solve) /\ Updated(r) \in Seq(Solve)
  <2>1. request[r].history \in Seq(Solve)
    BY <1>1, MemoryTypes
  <2> QED
    BY <2>1, AppendProperties DEF Updated
<1>4. \A s \in Session : thread[s] # <<>> => s \in ToSet(index) \cup Loose
  BY DEF MemoryInv, ThreadsAreFound
<1> QED
  BY <1>1, <1>2, <1>3, <1>4, MemoryTypes

\* The thread that is written is not in the index yet.
LEMMA SaveThreadMemory ==
    ASSUME GatewayInv, GatewayInv', MemoryInv, NEW r \in Solve, SaveThread(r)
    PROVE  MemoryInv'
<1> SaveStep(r)
  BY DEF SaveStep
<1>1. /\ Typed /\ r \in Request /\ running = r /\ r \notin Forget
      /\ append[r].pc \notin Alive /\ request[r].state = "open"
      /\ request[r].session \in Session /\ Updated(r) \in Seq(Solve)
      /\ \A s \in Session : thread[s] # <<>> => s \in ToSet(index) \cup Loose
  BY Saving
<1>2. /\ running' = r /\ UNCHANGED <<append, index, continuity>>
      /\ request[r].step = "council" /\ Step(r, "index")
      /\ thread' = [thread EXCEPT ![request[r].session] = Updated(r)]
  BY <1>1 DEF SaveThread, ledgerVars
<1>3. Becomes(r, "index", "open", request[r].session, request[r].todo)
  BY <1>1, <1>2, StepBecomes DEF MemorySteps
<1>4. MemoryTypeOK'
  BY <1>1, <1>2, <1>3, TypesKept DEF Becomes, MemoryInv, MemoryTypeOK
<1>5. RunnerIsOpen'
  BY <1>1, <1>2, <1>3, OpenKept DEF Becomes, MemoryInv
<1>6. Half(r) = {} /\ Half(r)' = {request[r].session}
  BY <1>2, <1>3 DEF Half, Becomes
<1>7. \A x \in Loose : x \in Loose'
  BY <1>1, <1>2, <1>3, <1>6, LooseKept DEF Becomes
<1>8. request[r].session \in Loose'
  BY <1>2, <1>6, LooseHas
<1>9. \A s \in Session : s # request[r].session => thread'[s] = thread[s]
  BY <1>2 DEF MemoryInv, MemoryTypeOK
<1>10. ThreadsAreFound'
  BY <1>1, <1>2, <1>7, <1>8, <1>9, NoForget
<1> QED
  BY <1>4, <1>5, <1>10 DEF MemoryInv

\* The index takes the session in, and what falls out of it is to be deleted.
LEMMA SaveIndexMemory ==
    ASSUME GatewayInv, GatewayInv', MemoryInv, NEW r \in Solve, SaveIndex(r)
    PROVE  MemoryInv'
<1> SaveStep(r)
  BY DEF SaveStep
<1> DEFINE s == request[r].session
<1>1. /\ Typed /\ r \in Request /\ running = r /\ r \notin Forget
      /\ append[r].pc \notin Alive /\ request[r].state = "open" /\ s \in Session
      /\ \A x \in Session : thread[x] # <<>> => x \in ToSet(index) \cup Loose
  BY Saving
<1>2. /\ running' = r /\ UNCHANGED <<append, thread, continuity>>
      /\ request[r].step = "index" /\ index' = Indexed(s)
      /\ request' = [request EXCEPT ![r].step = "evict", ![r].todo = Evicted(s)]
  BY <1>1 DEF SaveIndex, ledgerVars
<1>3. /\ Indexed(s) \in Seq(Session) /\ IsInjective(Indexed(s))
      /\ Len(Indexed(s)) <= MaxItems
      /\ Evicted(s) \in Seq(Session)
      /\ ToSet(index) \cup {s} = ToSet(Evicted(s)) \cup ToSet(Indexed(s))
  <2>1. index \in Seq(Session) /\ IsInjective(index)
    BY DEF MemoryInv, MemoryTypeOK
  <2> QED
    BY <1>1, <2>1, IndexMoves
<1>4. Becomes(r, "evict", "open", s, Evicted(s))
  BY <1>1, <1>2, <1>3, TodoBecomes DEF MemorySteps
<1>5. MemoryTypeOK'
  BY <1>2, <1>3, <1>4, TypesKept DEF Becomes, MemoryInv, MemoryTypeOK
<1>6. RunnerIsOpen'
  BY <1>1, <1>2, <1>4, OpenKept DEF Becomes, MemoryInv
<1>7. Half(r) = {s} /\ Half(r)' = ToSet(Evicted(s))
  BY <1>2, <1>4 DEF Half, Becomes
<1>8. \A x \in Loose : x \in Loose' \/ x = s
  BY <1>1, <1>2, <1>4, <1>7, LooseKept DEF Becomes
<1>9. \A x \in ToSet(Evicted(s)) : x \in Loose'
  BY <1>2, <1>7, LooseHas
<1>10. \A x \in Session : thread'[x] # <<>> => x \in ToSet(index') \cup Loose'
  BY <1>1, <1>2, <1>3, <1>8, <1>9
<1>11. ThreadsAreFound'
  BY <1>1, <1>2, <1>10, NoForget
<1> QED
  BY <1>5, <1>6, <1>11 DEF MemoryInv

\* An evicted thread is deleted, or there is none left.
LEMMA EvictMemory ==
    ASSUME GatewayInv, GatewayInv', MemoryInv, NEW r \in Solve, Evict(r)
    PROVE  MemoryInv'
<1> SaveStep(r)
  BY DEF SaveStep
<1> DEFINE t == request[r].todo
<1>1. /\ Typed /\ r \in Request /\ running = r /\ r \notin Forget
      /\ append[r].pc \notin Alive /\ request[r].state = "open"
      /\ request[r].session \in Session /\ t \in Seq(Session)
      /\ \A x \in Session : thread[x] # <<>> => x \in ToSet(index) \cup Loose
  BY Saving
<1>2. /\ running' = r /\ UNCHANGED <<append, index, continuity>>
      /\ request[r].step = "evict"
  BY <1>1 DEF Evict, ledgerVars
<1>3. Half(r) = ToSet(t)
  BY <1>2 DEF Half
<1>4. CASE t = <<>>
  <2>1. Step(r, "continuity") /\ UNCHANGED thread
    BY <1>4 DEF Evict
  <2>2. Becomes(r, "continuity", "open", request[r].session, t)
    BY <1>1, <2>1, StepBecomes DEF MemorySteps
  <2>3. MemoryTypeOK'
    BY <1>2, <2>1, <2>2, TypesKept DEF Becomes, MemoryInv, MemoryTypeOK
  <2>4. RunnerIsOpen'
    BY <1>1, <1>2, <2>2, OpenKept DEF Becomes, MemoryInv
  <2>5. Half(r) = {}
    BY <1>3, <1>4 DEF ToSet
  <2>6. \A x \in Loose : x \in Loose'
    BY <1>1, <2>2, <2>5, LooseKept DEF Becomes
  <2>7. ThreadsAreFound'
    BY <1>1, <1>2, <2>1, <2>6, NoForget
  <2> QED
    BY <2>3, <2>4, <2>7 DEF MemoryInv
<1>5. CASE t # <<>>
  <2>1. /\ thread' = [thread EXCEPT ![Head(t)] = <<>>]
        /\ request' = [request EXCEPT ![r].todo = Tail(@)]
    BY <1>5 DEF Evict
  <2>2. Becomes(r, "evict", "open", request[r].session, Tail(t))
    BY <1>1, <1>2, <1>5, <2>1, TailBecomes
  <2>3. /\ Head(t) \in Session /\ ToSet(t) \subseteq {Head(t)} \cup ToSet(Tail(t))
    BY <1>1, <1>5, HeadOrTail
  <2>4. MemoryTypeOK'
    <3>1. thread' \in [Session -> Seq(Solve)]
      BY <2>1, <2>3, EmptySeq DEF MemoryInv, MemoryTypeOK
    <3> QED
      BY <1>2, <2>2, <3>1, TypesKept DEF Becomes, MemoryInv, MemoryTypeOK
  <2>5. RunnerIsOpen'
    BY <1>1, <1>2, <2>2, OpenKept DEF Becomes, MemoryInv
  <2>6. Half(r)' = ToSet(Tail(t))
    BY <2>2 DEF Half, Becomes
  <2>7. \A x \in Loose : x \in Loose' \/ x \in ToSet(t)
    BY <1>1, <1>3, <2>2, LooseKept DEF Becomes
  <2>8. \A x \in ToSet(Tail(t)) : x \in Loose'
    BY <1>2, <2>6, LooseHas
  <2>9. \A x \in Session : thread'[x] # <<>> => x # Head(t) /\ thread[x] # <<>>
    BY <2>1, <2>3 DEF MemoryInv, MemoryTypeOK
  <2>10. \A x \in Session : thread'[x] # <<>> => x \in ToSet(index') \cup Loose'
    BY <1>1, <1>2, <2>3, <2>7, <2>8, <2>9
  <2>11. ThreadsAreFound'
    BY <1>1, <1>2, <2>10, NoForget
  <2> QED
    BY <2>4, <2>5, <2>11 DEF MemoryInv
<1> QED
  BY <1>4, <1>5

\* The solve is answered: it has left nothing half done.
LEMMA SaveContinuityMemory ==
    ASSUME GatewayInv, GatewayInv', MemoryInv, NEW r \in Solve, SaveContinuity(r)
    PROVE  MemoryInv'
<1> SaveStep(r)
  BY DEF SaveStep
<1>1. /\ Typed /\ r \in Request /\ running = r /\ r # None /\ None \notin Forget
      /\ append[r].pc \notin Alive
      /\ request[r].session \in Session /\ Updated(r) \in Seq(Solve)
      /\ \A s \in Session : thread[s] # <<>> => s \in ToSet(index) \cup Loose
  BY Saving
<1>2. /\ running' = None /\ UNCHANGED <<append, thread, index>>
      /\ request[r].step = "continuity"
      /\ request' = [request EXCEPT ![r].state = "done"]
      /\ continuity' = [s \in Session |->
           IF s = request[r].session THEN LastOf(Updated(r), Recent)
           ELSE IF s \in ToSet(index) THEN continuity[s] ELSE <<>>]
  BY DEF SaveContinuity, Finish
<1>3. Becomes(r, "continuity", "done", request[r].session, request[r].todo)
  BY <1>1, <1>2, StateBecomes
<1>4. MemoryTypeOK'
  <2>1. LastOf(Updated(r), Recent) \in Seq(Solve)
    BY <1>1, LastTyped, MemoryAssumption
  <2>2. continuity' \in [Session -> Seq(Solve)]
    BY <1>2, <2>1, EmptySeq DEF MemoryInv, MemoryTypeOK
  <2> QED
    BY <1>2, <1>3, <2>2, TypesKept DEF Becomes, MemoryInv, MemoryTypeOK
<1>5. RunnerIsOpen'
  BY <1>1, <1>2, <1>3, OpenKept DEF Becomes, MemoryInv
<1>6. Half(r) = {}
  BY <1>2 DEF Half
<1>7. \A x \in Loose : x \in Loose'
  BY <1>1, <1>3, <1>6, LooseKept DEF Becomes
<1>8. ThreadsAreFound'
  BY <1>1, <1>2, <1>7, NoForget
<1> QED
  BY <1>4, <1>5, <1>8 DEF MemoryInv

\* A forget does not touch what solves have left half done.
LEMMA Forgetting ==
    ASSUME MemoryInv, NEW r \in Forget
    PROVE  /\ Typed /\ r \in Request /\ r # None /\ r \notin Solve
           /\ request[r].todo \in Seq(Session)
           /\ request[r].step = "new" => request[r].state = "open"
           /\ running = r => request[r].state = "open" /\ request[r].step # "new"
           /\ \A s \in Session : thread[s] # <<>> => s \in ToSet(index) \cup Loose
           /\ running = r =>
                /\ request[r].step = "threads" =>
                     \A s \in Session : thread[s] # <<>> => s \in ToSet(request[r].todo) \cup Loose
                /\ request[r].step \in {"forget index", "forget continuity"} =>
                     \A s \in Session : thread[s] # <<>> => s \in Loose
                /\ request[r].step = "forget continuity" => index = <<>>
<1>1. r \in Request /\ r # None /\ r \notin Solve
  BY LedgerAssumption, MemoryAssumption DEF Request
<1>2. ThreadsAreFound
  BY DEF MemoryInv
<1> QED
  BY <1>1, <1>2, MemoryTypes DEF ThreadsAreFound

\* Only the forget that has the loop has to find threads.
LEMMA MyForget ==
    ASSUME NEW r \in Forget, running' = r,
           \A s \in Session : thread'[s] # <<>> => s \in ToSet(index') \cup Loose',
           request'[r].step = "threads" =>
               \A s \in Session : thread'[s] # <<>> => s \in ToSet(request'[r].todo) \cup Loose',
           request'[r].step \in {"forget index", "forget continuity"} =>
               \A s \in Session : thread'[s] # <<>> => s \in Loose',
           request'[r].step = "forget continuity" => index' = <<>>
    PROVE  ThreadsAreFound'
<1>1. \A q \in Forget : running' = q => q = r
  OBVIOUS
<1> QED
  BY <1>1 DEF ThreadsAreFound

LEMMA ReceiveForgetMemory ==
    ASSUME GatewayInv', MemoryInv, NEW r \in Forget, ReceiveForget(r)
    PROVE  MemoryInv'
<1>1. /\ Typed /\ r \in Request /\ r # None /\ r \notin Solve
      /\ request[r].step = "new" => request[r].state = "open"
      /\ \A s \in Session : thread[s] # <<>> => s \in ToSet(index) \cup Loose
  BY Forgetting
<1>2. /\ running = None /\ running' = r /\ UNCHANGED <<append, thread, index, continuity>>
      /\ request[r].state = "open"
      /\ request' = [request EXCEPT ![r].step = "threads", ![r].todo = index]
  BY <1>1 DEF ReceiveForget
<1>3. Becomes(r, "threads", "open", request[r].session, index)
  <2>1. index \in Seq(Session) /\ "threads" \in MemorySteps
    BY DEF MemorySteps, MemoryInv, MemoryTypeOK
  <2> QED
    BY <1>1, <1>2, <2>1, TodoBecomes
<1>4. MemoryTypeOK'
  BY <1>2, <1>3, TypesKept DEF Becomes, MemoryInv, MemoryTypeOK
<1>5. RunnerIsOpen'
  BY <1>1, <1>2, <1>3, OpenKept DEF Becomes, MemoryInv
<1>6. \A x \in Loose : x \in Loose'
  BY <1>1, <1>2, <1>3, LooseKept DEF Becomes
<1>7. ThreadsAreFound'
  BY <1>1, <1>2, <1>3, <1>6, MyForget DEF Becomes
<1> QED
  BY <1>4, <1>5, <1>7 DEF MemoryInv

LEMMA ForgetThreadMemory ==
    ASSUME GatewayInv', MemoryInv, NEW r \in Forget, ForgetThread(r)
    PROVE  MemoryInv'
<1> DEFINE t == request[r].todo
<1>1. /\ Typed /\ r \in Request /\ r # None /\ r \notin Solve
      /\ running = r /\ running' = r /\ UNCHANGED <<append, index, continuity>>
      /\ request[r].state = "open" /\ request[r].step = "threads" /\ t \in Seq(Session)
      /\ \A s \in Session : thread[s] # <<>> => s \in ToSet(index) \cup Loose
      /\ \A s \in Session : thread[s] # <<>> => s \in ToSet(t) \cup Loose
  BY Forgetting DEF ForgetThread, ledgerVars
<1>2. CASE t = <<>>
  <2>1. Step(r, "forget index") /\ UNCHANGED thread
    BY <1>2 DEF ForgetThread
  <2>2. Becomes(r, "forget index", "open", request[r].session, t)
    BY <1>1, <2>1, StepBecomes DEF MemorySteps
  <2>3. MemoryTypeOK'
    BY <1>1, <2>1, <2>2, TypesKept DEF Becomes, MemoryInv, MemoryTypeOK
  <2>4. RunnerIsOpen'
    BY <1>1, <2>2, OpenKept DEF Becomes, MemoryInv
  <2>5. \A x \in Loose : x \in Loose'
    BY <1>1, <2>2, LooseKept DEF Becomes
  <2>6. ToSet(t) = {}
    BY <1>2 DEF ToSet
  <2>7. ThreadsAreFound'
    BY <1>1, <2>1, <2>2, <2>5, <2>6, MyForget DEF Becomes
  <2> QED
    BY <2>3, <2>4, <2>7 DEF MemoryInv
<1>3. CASE t # <<>>
  <2>1. /\ thread' = [thread EXCEPT ![Head(t)] = <<>>]
        /\ request' = [request EXCEPT ![r].todo = Tail(@)]
    BY <1>3 DEF ForgetThread
  <2>2. Becomes(r, "threads", "open", request[r].session, Tail(t))
    BY <1>1, <1>3, <2>1, TailBecomes
  <2>3. /\ Head(t) \in Session /\ ToSet(t) \subseteq {Head(t)} \cup ToSet(Tail(t))
    BY <1>1, <1>3, HeadOrTail
  <2>4. MemoryTypeOK'
    <3>1. thread' \in [Session -> Seq(Solve)]
      BY <2>1, <2>3, EmptySeq DEF MemoryInv, MemoryTypeOK
    <3> QED
      BY <1>1, <2>2, <3>1, TypesKept DEF Becomes, MemoryInv, MemoryTypeOK
  <2>5. RunnerIsOpen'
    BY <1>1, <2>2, OpenKept DEF Becomes, MemoryInv
  <2>6. \A x \in Loose : x \in Loose'
    BY <1>1, <2>2, LooseKept DEF Becomes
  <2>7. \A x \in Session : thread'[x] # <<>> => x # Head(t) /\ thread[x] # <<>>
    BY <2>1, <2>3 DEF MemoryInv, MemoryTypeOK
  <2>8. \A x \in Session : thread'[x] # <<>> => x \in ToSet(index') \cup Loose'
    BY <1>1, <2>6, <2>7
  <2>9. \A x \in Session : thread'[x] # <<>> => x \in ToSet(Tail(t)) \cup Loose'
    BY <1>1, <2>3, <2>6, <2>7
  <2>10. ThreadsAreFound'
    BY <1>1, <2>2, <2>8, <2>9, MyForget DEF Becomes
  <2> QED
    BY <2>4, <2>5, <2>10 DEF MemoryInv
<1> QED
  BY <1>2, <1>3

LEMMA ForgetIndexMemory ==
    ASSUME GatewayInv', MemoryInv, NEW r \in Forget, ForgetIndex(r)
    PROVE  MemoryInv'
<1>1. /\ Typed /\ r \in Request /\ r # None /\ r \notin Solve
      /\ running = r /\ running' = r /\ UNCHANGED <<append, thread, continuity>>
      /\ request[r].state = "open" /\ request[r].step = "forget index"
      /\ index' = <<>> /\ Step(r, "forget continuity")
      /\ \A s \in Session : thread[s] # <<>> => s \in Loose
  BY Forgetting DEF ForgetIndex, ledgerVars
<1>2. Becomes(r, "forget continuity", "open", request[r].session, request[r].todo)
  BY <1>1, StepBecomes DEF MemorySteps
<1>3. MemoryTypeOK'
  <2>1. index' \in Seq(Session) /\ Len(index') = 0 /\ IsInjective(index')
    <3>1. <<>> \in Seq(Session) /\ Len(<<>>) = 0
      BY EmptySeq
    <3>2. IsInjective(<<>>)
      BY DEF IsInjective
    <3> QED
      BY <1>1, <3>1, <3>2
  <2>2. Len(index') <= MaxItems
    BY <2>1, MemoryAssumption
  <2> QED
    BY <1>1, <1>2, <2>1, <2>2, TypesKept DEF Becomes, MemoryInv, MemoryTypeOK
<1>4. RunnerIsOpen'
  BY <1>1, <1>2, OpenKept DEF Becomes, MemoryInv
<1>5. \A x \in Loose : x \in Loose'
  BY <1>1, <1>2, LooseKept DEF Becomes
<1>6. ThreadsAreFound'
  BY <1>1, <1>2, <1>5, MyForget DEF Becomes
<1> QED
  BY <1>3, <1>4, <1>6 DEF MemoryInv

LEMMA ForgetContinuityMemory ==
    ASSUME GatewayInv', MemoryInv, NEW r \in Forget, ForgetContinuity(r)
    PROVE  MemoryInv'
<1>1. /\ Typed /\ r \in Request /\ r # None /\ r \notin Solve
      /\ running = r /\ running' = None /\ UNCHANGED <<append, thread, index>>
      /\ request[r].step = "forget continuity"
      /\ request' = [request EXCEPT ![r].state = "done"]
      /\ continuity' = [s \in Session |-> <<>>]
      /\ \A s \in Session : thread[s] # <<>> => s \in ToSet(index) \cup Loose
  BY Forgetting DEF ForgetContinuity, Finish
<1>2. Becomes(r, "forget continuity", "done", request[r].session, request[r].todo)
  BY <1>1, StateBecomes
<1>3. MemoryTypeOK'
  BY <1>1, <1>2, TypesKept, EmptySeq DEF Becomes, MemoryInv, MemoryTypeOK
<1>4. RunnerIsOpen'
  BY <1>1, <1>2, OpenKept DEF Becomes, MemoryInv
<1>5. \A x \in Loose : x \in Loose'
  BY <1>1, <1>2, LooseKept DEF Becomes
<1>6. None \notin Forget
  BY LedgerAssumption, MemoryAssumption
<1>7. ThreadsAreFound'
  BY <1>1, <1>5, <1>6, NoForget
<1> QED
  BY <1>3, <1>4, <1>7 DEF MemoryInv

\* What the request has left half done is loose from now on.
LEMMA WriteFailsMemory ==
    ASSUME GatewayInv, GatewayInv', MemoryInv, NEW r \in Request, WriteFails(r)
    PROVE  MemoryInv'
<1>1. /\ running = r /\ running' = None /\ UNCHANGED <<append, thread, index, continuity>>
      /\ request[r].step = "council" => append[r].pc \in Verdicts
      /\ request' = [request EXCEPT ![r].state = "failed"]
      /\ None \notin Forget /\ r # None
  BY LedgerAssumption, MemoryAssumption DEF WriteFails, Request
<1>2. /\ Typed /\ request[r].step # "new"
      /\ r \in Solve => request[r].session \in Session
  BY <1>1, MemoryTypes
<1>3. Becomes(r, request[r].step, "failed", request[r].session, request[r].todo)
  BY <1>1, <1>2, StateBecomes
<1>4. MemoryTypeOK'
  BY <1>1, <1>3, TypesKept DEF Becomes, MemoryInv, MemoryTypeOK
<1>5. ASSUME r \in Solve PROVE append[r].pc \notin Alive
  <2>1. append[r].pc \in Verdicts
    BY <1>1, <1>2, <1>5 DEF GatewayInv, RequestInv, SolveInv, SolveSteps
  <2> QED
    BY <2>1 DEF Verdicts, Alive
<1>6. RunnerIsOpen'
  BY <1>1, <1>2, <1>3, <1>5, OpenKept DEF Becomes, MemoryInv
<1>7. Half(r)' = Half(r)
  BY <1>3, HalfSame DEF Becomes
<1>8. \A x \in Loose : x \in Loose'
  <2>1. ASSUME NEW x \in Loose, x \notin Loose' PROVE FALSE
    <3>1. r \in Solve /\ x \in Half(r)
      BY <1>1, <1>3, <2>1, LooseKept DEF Becomes
    <3> QED
      BY <1>3, <1>7, <2>1, <3>1, LooseHas DEF Becomes
  <2> QED
    BY <2>1
<1>9. ThreadsAreFound'
  BY <1>1, <1>8, NoForget DEF MemoryInv, ThreadsAreFound
<1> QED
  BY <1>4, <1>6, <1>9 DEF MemoryInv

\* A crash loses the requests, not what they have left half done.
LEMMA CrashMemory ==
    ASSUME GatewayInv, GatewayInv', MemoryInv, Crash
    PROVE  MemoryInv'
<1>1. /\ running' = None /\ UNCHANGED <<thread, index, continuity>>
      /\ append' = [c \in Call |->
           IF append[c].pc \in {"queued", "signing", "confirm"}
           THEN [append[c] EXCEPT !.pc = "lost"] ELSE append[c]]
      /\ request' = [r \in Request |->
           IF request[r].step # "new" /\ request[r].state = "open"
           THEN [request[r] EXCEPT !.state = "failed"] ELSE request[r]]
  BY DEF Crash, LedgerCrash
<1>2. /\ None \notin Forget /\ Solve \subseteq Call
      /\ \A r \in Request : r # None
      /\ \A r \in Solve : r \in Request
  BY LedgerAssumption, MemoryAssumption DEF Request
<1>3. Typed
  BY MemoryTypes
<1>4. ASSUME NEW r \in Request
      PROVE  /\ request'[r] \in RequestRecord
             /\ request'[r].step = request[r].step
             /\ request'[r].session = request[r].session
             /\ request'[r].todo = request[r].todo
             /\ request'[r].state = IF request[r].step # "new" /\ request[r].state = "open"
                                    THEN "failed" ELSE request[r].state
  <2>1. request[r] \in RequestRecord
    BY <1>3 DEF Typed
  <2>2. request'[r] = IF request[r].step # "new" /\ request[r].state = "open"
                      THEN [request[r] EXCEPT !.state = "failed"] ELSE request[r]
    BY <1>1
  <2> QED
    BY <2>1, <2>2 DEF RequestRecord
<1>5. Typed'
  BY <1>1, <1>4 DEF Typed
<1>6. MemoryTypeOK'
  BY <1>1, <1>5, TypesKept DEF MemoryInv, MemoryTypeOK
<1>7. RunnerIsOpen'
  <2>1. ASSUME NEW r \in Solve PROVE append'[r].pc \notin Alive
    <3>1. append[r] \in [pc : AppendPc, ledger : Ledger \cup {None}, prev : Call \cup {None}]
      BY <1>2 DEF MemoryInv, MemoryTypeOK, LedgerTypeOK
    <3> QED
      BY <1>1, <1>2, <3>1 DEF Alive
  <2>2. ASSUME NEW r \in Request
        PROVE  /\ request'[r].step = "new" => request'[r].state = "open"
               /\ running' = r => request'[r].state = "open" /\ request'[r].step # "new"
               /\ r \in Solve /\ request'[r].step # "new" => request'[r].session \in Session
    BY <1>1, <1>2, <1>4, MemoryTypes
  <2> QED
    BY <2>1, <2>2 DEF RunnerIsOpen, Alive
<1>8. ASSUME NEW s \in Loose PROVE s \in Loose'
  <2>1. PICK q \in Solve : (request[q].state = "failed" \/ running = q) /\ s \in Half(q)
    BY <1>8 DEF Loose
  <2>2. q \in Request
    BY <1>2
  <2>3. Half(q)' = Half(q)
    BY <1>4, <2>2, HalfSame
  <2>4. request'[q].state = "failed"
    BY <1>4, <2>1, <2>2, MemoryTypes
  <2> QED
    BY <2>1, <2>3, <2>4, LooseHas
<1>9. ThreadsAreFound'
  BY <1>1, <1>2, <1>8, NoForget DEF MemoryInv, ThreadsAreFound
<1> QED
  BY <1>6, <1>7, <1>9 DEF MemoryInv

LEMMA InitMemory == Init => MemoryInv
<1> SUFFICES ASSUME Init PROVE MemoryInv
  OBVIOUS
<1>1. LedgerTypeOK
  BY InitInv DEF Init, LedgerInv
<1>2. \A r \in Request : request[r] = Received
  BY DEF Init
<1>3. MemoryTypeOK
  <2>1. <<>> \in Seq(Session) /\ <<>> \in Seq(Solve) /\ Len(<<>>) = 0 /\ Len(<<>>) <= MaxItems
    BY EmptySeq, MemoryAssumption
  <2>2. Received \in RequestRecord
    BY <2>1 DEF Received, RequestRecord, MemorySteps
  <2>3. IsInjective(<<>>)
    BY DEF IsInjective
  <2> QED
    BY <1>1, <2>1, <2>2, <2>3 DEF Init, MemoryTypeOK, RequestRecord
<1>4. RunnerIsOpen
  BY <1>2, LedgerAssumption, MemoryAssumption
     DEF Init, LedgerInit, New, Received, RunnerIsOpen, Request
<1>5. ThreadsAreFound
  BY LedgerAssumption, MemoryAssumption DEF Init, LedgerInit, ThreadsAreFound
<1> QED
  BY <1>3, <1>4, <1>5 DEF MemoryInv

LEMMA MemoryStep ==
    ASSUME GatewayInv, MemoryInv, [Next]_vars
    PROVE  GatewayInv' /\ MemoryInv'
<1>1. GatewayInv'
  BY GatewayStep
<1>2. ASSUME NEW c \in Call, ArriveElsewhere(c) PROVE MemoryInv'
  BY <1>1, <1>2, ArriveMemory DEF ArriveElsewhere
<1>3. ASSUME NEW c \in Call, LedgerStep(c) PROVE MemoryInv'
  BY <1>1, <1>3, AppendMemory
<1>4. ASSUME NEW r \in Solve, NEW s \in Session, Receive(r, s) PROVE MemoryInv'
  BY <1>1, <1>4, ReceiveMemory
<1>5. ASSUME NEW r \in Solve, Council(r) PROVE MemoryInv'
  <2>1. /\ r \in Call /\ Gateway \in Ledger /\ Arrive(r, Gateway) /\ UNCHANGED memoryVars
        /\ request[r].step = "council" /\ request[r].state = "open"
    BY <1>5, MemoryAssumption DEF Council
  <2> QED
    BY <1>1, <2>1, ArriveMemory
<1>6. ASSUME NEW r \in Solve, SaveStep(r) PROVE MemoryInv'
  BY <1>1, <1>6, SaveThreadMemory, SaveIndexMemory, EvictMemory, SaveContinuityMemory
     DEF SaveStep
<1>7. ASSUME NEW r \in Forget, ReceiveForget(r) \/ ForgetStep(r) PROVE MemoryInv'
  BY <1>1, <1>7, ReceiveForgetMemory, ForgetThreadMemory, ForgetIndexMemory,
     ForgetContinuityMemory DEF ForgetStep
<1>8. ASSUME NEW r \in Request, WriteFails(r) PROVE MemoryInv'
  BY <1>1, <1>8, WriteFailsMemory
<1>9. ASSUME Crash PROVE MemoryInv'
  BY <1>1, <1>9, CrashMemory
<1>10. ASSUME UNCHANGED vars PROVE MemoryInv'
  <2>1. UNCHANGED <<append, running, thread, index, continuity, request>>
    BY <1>10 DEF vars, ledgerVars, memoryVars
  <2>2. MemoryTypeOK'
    BY <1>1, <2>1, MemoryTypes, TypesKept DEF Typed, MemoryInv, MemoryTypeOK
  <2>3. RunnerIsOpen'
    BY <2>1 DEF MemoryInv, RunnerIsOpen
  <2>4. \A s \in Loose : s \in Loose'
    <3>1. \A q \in Solve : Half(q)' = Half(q)
      BY <2>1, HalfSame
    <3> QED
      BY <2>1, <3>1 DEF Loose
  <2>5. ThreadsAreFound'
    BY <2>1, <2>4 DEF MemoryInv, ThreadsAreFound
  <2> QED
    BY <2>2, <2>3, <2>5 DEF MemoryInv
<1> QED
  BY <1>1, <1>2, <1>3, <1>4, <1>5, <1>6, <1>7, <1>8, <1>9, <1>10 DEF Next

LEMMA MemoryInvariance == Spec => [](GatewayInv /\ MemoryInv)
<1>1. Init => GatewayInv /\ MemoryInv
  BY InitGateway, InitMemory
<1>2. (GatewayInv /\ MemoryInv) /\ [Next]_vars => (GatewayInv /\ MemoryInv)'
  BY MemoryStep
<1> QED
  BY <1>1, <1>2, PTL DEF Spec

\* A forget is answered in one step only, its last.
LEMMA ForgetEnds ==
    ASSUME MemoryInv, [Next]_vars, NEW f \in Forget,
           request[f].state = "open", request'[f].state = "done"
    PROVE  ForgetContinuity(f)
<1>1. Typed /\ f \in Request /\ f \notin Solve /\ request[f] \in RequestRecord
  BY Forgetting DEF Typed
<1>2. request'[f] # request[f]
  OBVIOUS
<1>3. ASSUME NEW c \in Call, ArriveElsewhere(c) \/ LedgerStep(c) PROVE FALSE
  BY <1>2, <1>3 DEF ArriveElsewhere, LedgerStep, memoryVars
<1>4. ASSUME NEW r \in Solve, NEW s \in Session, Receive(r, s) PROVE FALSE
  BY <1>1, <1>2, <1>4 DEF Receive, Typed
<1>5. ASSUME NEW r \in Solve, Council(r) PROVE FALSE
  BY <1>2, <1>5 DEF Council, memoryVars
<1>6. ASSUME NEW r \in Solve, SaveStep(r) PROVE FALSE
  BY <1>1, <1>2, <1>6
     DEF SaveStep, SaveThread, SaveIndex, Evict, SaveContinuity, Step, Finish, Typed
<1>7. ASSUME NEW r \in Forget, ReceiveForget(r) PROVE FALSE
  BY <1>1, <1>7 DEF ReceiveForget, Typed, RequestRecord
<1>8. ASSUME NEW r \in Forget, ForgetThread(r) \/ ForgetIndex(r) PROVE FALSE
  <2>1. r \in Request /\ request[r].todo \in Seq(Session)
    BY Forgetting
  <2>2. \/ \E step \in MemorySteps : Step(r, step)
        \/ request' = [request EXCEPT ![r].todo = Tail(@)] /\ request[r].todo # <<>>
    BY <1>8 DEF ForgetThread, ForgetIndex, MemorySteps
  <2>3. \E step, todo : Becomes(r, step, request[r].state, request[r].session, todo)
    BY <1>1, <2>1, <2>2, StepBecomes, TailBecomes
  <2>4. request'[r].state = request[r].state /\ OthersStay(r)
    BY <2>3 DEF Becomes
  <2> QED
    BY <1>1, <2>4 DEF OthersStay
<1>9. ASSUME NEW r \in Forget, ForgetContinuity(r) PROVE ForgetContinuity(f)
  <2>1. r = f
    BY <1>1, <1>2, <1>9 DEF ForgetContinuity, Finish, Typed
  <2> QED
    BY <1>9, <2>1
<1>10. ASSUME NEW r \in Request, WriteFails(r) PROVE FALSE
  BY <1>1, <1>10 DEF WriteFails, Typed, RequestRecord
<1>11. ASSUME Crash PROVE FALSE
  BY <1>1, <1>11 DEF Crash, RequestRecord
<1>12. ASSUME UNCHANGED vars PROVE FALSE
  BY <1>2, <1>12 DEF vars, memoryVars
<1> QED
  BY <1>3, <1>4, <1>5, <1>6, <1>7, <1>8, <1>9, <1>10, <1>11, <1>12 DEF Next, ForgetStep

\* What is loose when a forget ends is astray: nobody else has the loop.
LEMMA ForgetLeavesStray ==
    ASSUME MemoryInv, NEW f \in Forget, ForgetContinuity(f)
    PROVE  /\ \A s \in Session : thread'[s] # <<>> => s \in Stray'
           /\ index' = <<>>
           /\ \A s \in Session : continuity'[s] = <<>>
<1>1. /\ Typed /\ f \in Request /\ f # None /\ f \notin Solve
      /\ running = f /\ UNCHANGED <<thread, index>>
      /\ request[f].step = "forget continuity"
      /\ request' = [request EXCEPT ![f].state = "done"]
      /\ continuity' = [s \in Session |-> <<>>]
      /\ index = <<>>
      /\ \A s \in Session : thread[s] # <<>> => s \in Loose
  BY Forgetting DEF ForgetContinuity, Finish
<1>2. ASSUME NEW s \in Loose PROVE s \in Stray'
  <2>1. PICK q \in Solve : (request[q].state = "failed" \/ running = q) /\ s \in Half(q)
    BY <1>2 DEF Loose
  <2>2. q # f /\ request[q].state = "failed" /\ request'[q] = request[q]
    BY <1>1, <2>1 DEF Request, Typed
  <2>3. Half(q)' = Half(q)
    BY <2>2, HalfSame
  <2> QED
    BY <2>1, <2>2, <2>3 DEF Stray
<1> QED
  BY <1>1, <1>2

-----------------------------------------------------------------------------
(* Theorems *)

\* The user gateway, with its memory, uses the ledger as LedgerSpec says: it
\* implements it.
THEOREM GatewayUsesLedger == Spec => LedgerSpec
<1>1. Init => LedgerInit
  BY DEF Init
<1>2. GatewayInv /\ [Next]_vars => [LedgerNext]_ledgerVars /\ GatewayInv'
  BY GatewayStep
<1> QED
  BY <1>1, <1>2, InitGateway, PTL DEF Spec, LedgerSpec

\* The chain does not fork in the system of gateway, memory and ledgers.
THEOREM GatewayNeverForks == Spec => []NoFork
BY GatewayUsesLedger, ChainNeverForks, PTL

\* A verdict that the gateway's clients are told of is what the chain says.
THEOREM GatewayVerdictsAreTrue == Spec => []AnswerIsTrue
BY GatewayUsesLedger, VerdictsAreTrue, PTL

\* Neither saves nor forgets leave a lock of the ledger with nobody behind it.
THEOREM GatewayLocksAreFreed == Spec => []HoldersAreAlive
BY GatewayUsesLedger, LocksAreFreed, PTL

\* What the conversation memory stores has its types, and its index is bounded
\* and names no session twice.
THEOREM MemoryTypeCorrect == Spec => []MemoryTypeOK
<1>1. GatewayInv /\ MemoryInv => MemoryTypeOK
  BY DEF MemoryInv
<1> QED
  BY <1>1, MemoryInvariance, PTL

\* Whenever a request may look, the index names every thread that is stored,
\* but those that a failed save has left half way.
THEOREM IndexFindsThreads == Spec => []IndexNamesAll
<1>1. ASSUME GatewayInv, MemoryInv PROVE IndexNamesAll
  <2> SUFFICES ASSUME running = None, NEW s \in Session, thread[s] # <<>>
               PROVE  s \in ToSet(index) \cup Stray
    BY DEF IndexNamesAll
  <2>1. s \in ToSet(index) \cup Loose
    BY <1>1 DEF MemoryInv, ThreadsAreFound
  <2>2. None \notin Solve
    BY LedgerAssumption, MemoryAssumption
  <2>3. ASSUME s \in Loose PROVE s \in Stray
    BY <2>2, <2>3 DEF Loose, Stray
  <2> QED
    BY <2>1, <2>3
<1> QED
  BY <1>1, MemoryInvariance, PTL

\* memory_forget answers when nothing of the user is stored, but the threads
\* of saves that failed half way.
THEOREM ForgetsErase == Spec => ForgetErases
<1> DEFINE A == \A r \in Forget :
                  request[r].state = "open" /\ request'[r].state = "done" =>
                      /\ \A s \in Session : thread'[s] # <<>> => s \in Stray'
                      /\ index' = <<>>
                      /\ \A s \in Session : continuity'[s] = <<>>
<1>1. ASSUME GatewayInv, MemoryInv, [Next]_vars PROVE [A]_vars
  BY <1>1, ForgetEnds, ForgetLeavesStray
<1>2. ForgetErases <=> [][A]_vars
  BY DEF ForgetErases
<1> HIDE DEF A
<1> QED
  BY <1>1, <1>2, MemoryInvariance, PTL DEF Spec
=============================================================================
