---------------------------- MODULE RailwayProofs ----------------------------
(***************************************************************************)
(* What the Railway bridge guarantees for any number of calls, keys,       *)
(* outsiders and crashes.                                                  *)
(***************************************************************************)
EXTENDS RailwayBridge, TLAPS

USE RailwayAssumption, NoneAssumption

CallRecord == [pc : Pc, key : Key, request : Request, verdict : Status,
               answer : Deployment \cup {None}]

\* A call that has begun is a typed record, and stays one.
LEMMA CallGoto ==
    ASSUME BridgeTypeOK, NEW c \in Call, call[c].pc # "new"
    PROVE  /\ call[c] \in CallRecord
           /\ call[c].key \in Key
           /\ call[c].request \in Request
           /\ \A p \in Pc : [call[c] EXCEPT !.pc = p] \in CallRecord
           /\ \A p \in Pc, v \in Status :
                [[call[c] EXCEPT !.pc = p] EXCEPT !.verdict = v] \in CallRecord
           /\ \A p \in Pc, a \in Deployment \cup {None} :
                [[call[c] EXCEPT !.pc = p] EXCEPT !.answer = a] \in CallRecord
<1>1. call[c] \in CallRecord
  BY DEF BridgeTypeOK, CallState, CallRecord
<1> QED
  BY <1>1 DEF CallRecord

LEMMA InitBridge == Init => BridgeInv
<1> SUFFICES ASSUME Init PROVE BridgeInv
  OBVIOUS
<1>1. BridgeTypeOK
  BY DEF Init, BridgeTypeOK, CallState, Deployment
<1> QED
  BY <1>1 DEF Init, BridgeInv, OwnerHolds, SenderOwns, VerdictIsKnown, RowIsKnown, AnswerIsKnown

LEMMA BridgeTypeStep == BridgeInv /\ [Next]_vars => BridgeTypeOK'
<1> SUFFICES ASSUME BridgeInv, [Next]_vars PROVE BridgeTypeOK'
  OBVIOUS
<1>t. BridgeTypeOK
  BY DEF BridgeInv
<1>c. ASSUME NEW c \in Call, NEW x \in CallRecord, call' = [call EXCEPT ![c] = x]
      PROVE  call' \in [Call -> CallState]
  BY <1>t, <1>c DEF BridgeTypeOK, CallState, CallRecord
<1>g. ASSUME NEW c \in Call, NEW p \in Pc, call[c].pc # "new", Goto(c, p)
      PROVE  call' \in [Call -> CallState]
  <2>1. [call[c] EXCEPT !.pc = p] \in CallRecord
    BY <1>t, <1>g, CallGoto
  <2> QED
    BY <1>c, <1>g, <2>1 DEF Goto
<1>1. ASSUME NEW c \in Call, Begin(c) PROVE BridgeTypeOK'
  <2>1. PICK k \in Key, m \in Commit, d \in past :
          LET q == [commit |-> m, expected |-> d] IN
          call' = [call EXCEPT ![c] =
            [pc      |-> IF record[k] = None THEN "check"
                         ELSE IF Replays(record[k], q) THEN "answered" ELSE "failed",
             key     |-> k,
             request |-> q,
             verdict |-> "RESERVED",
             answer  |-> IF record[k] # None /\ Replays(record[k], q)
                         THEN record[k].result ELSE None]]
    BY <1>1 DEF Begin
  <2> DEFINE q == [commit |-> m, expected |-> d]
             p == IF record[k] = None THEN "check"
                  ELSE IF Replays(record[k], q) THEN "answered" ELSE "failed"
             a == IF record[k] # None /\ Replays(record[k], q) THEN record[k].result ELSE None
  <2>2. q \in Request
    BY <1>t DEF Request, BridgeTypeOK
  <2>3. a \in Deployment \cup {None}
    BY <1>t DEF BridgeTypeOK, Record
  <2>4. p \in Pc
    BY DEF Pc
  <2>6. call' = [call EXCEPT ![c] = [pc |-> p, key |-> k, request |-> q, verdict |-> "RESERVED", answer |-> a]]
    BY <2>1
  <2> HIDE DEF q, p, a
  <2>7. [pc |-> p, key |-> k, request |-> q, verdict |-> "RESERVED", answer |-> a] \in CallRecord
    BY <2>2, <2>3, <2>4 DEF CallRecord, Status
  <2>8. call' \in [Call -> CallState]
    BY <1>c, <2>6, <2>7
  <2> QED
    BY <1>1, <1>t, <2>8 DEF Begin, BridgeTypeOK, railwayVars
<1>2. ASSUME NEW c \in Call, Check(c) \/ ReadError(c) \/ LedgerError(c) PROVE BridgeTypeOK'
  <2>1. PICK p \in Pc : Goto(c, p)
    BY <1>2 DEF Check, ReadError, LedgerError, Pc
  <2>2. call[c].pc # "new"
    BY <1>2 DEF Check, ReadError, LedgerError
  <2>3. call' \in [Call -> CallState]
    BY <1>g, <2>1, <2>2
  <2> QED
    BY <1>2, <1>t, <2>3 DEF Check, ReadError, LedgerError, BridgeTypeOK, railwayVars
<1>3. ASSUME NEW c \in Call, Reserve(c) PROVE BridgeTypeOK'
  <2>1. PICK p \in Pc : Goto(c, p)
    BY <1>3 DEF Reserve, Pc
  <2>2. call[c].pc # "new"
    BY <1>3 DEF Reserve
  <2>3. call' \in [Call -> CallState]
    BY <1>g, <2>1, <2>2
  <2>4. call[c].key \in Key /\ call[c].request \in Request
    BY <1>t, <2>2, CallGoto
  <2>5. [request |-> call[c].request, status |-> "RESERVED", result |-> None, by |-> c] \in Record
    BY <2>4 DEF Record, Status
  <2>6. record' \in [Key -> Record \cup {None}]
    BY <1>3, <1>t, <2>4, <2>5 DEF Reserve, BridgeTypeOK
  <2> QED
    BY <1>3, <1>t, <2>3, <2>6 DEF Reserve, BridgeTypeOK, railwayVars
<1>4. ASSUME NEW c \in Call, Recheck(c) PROVE BridgeTypeOK'
  <2>1. call[c].pc # "new"
    BY <1>4 DEF Recheck
  <2>2. CASE current = call[c].request.expected
    BY <1>4, <2>1, <2>2, <1>t, <1>g DEF Recheck, BridgeTypeOK, railwayVars, Pc
  <2>3. CASE current # call[c].request.expected
    <3>1. call' = [call EXCEPT ![c] = [[call[c] EXCEPT !.pc = "mark"] EXCEPT !.verdict = "REJECTED"]]
      BY <1>4, <2>3, <1>t DEF Recheck, BridgeTypeOK
    <3>2. call' \in [Call -> CallState]
      BY <2>1, <3>1, <1>t, <1>c, CallGoto DEF Pc, Status
    <3> QED
      BY <1>4, <3>2, <1>t DEF Recheck, BridgeTypeOK, railwayVars
  <2> QED
    BY <2>2, <2>3
<1>5. ASSUME NEW c \in Call, Submit(c) PROVE BridgeTypeOK'
  BY <1>5, <1>t, <1>g DEF Submit, BridgeTypeOK, Pc
<1>6. ASSUME NEW c \in Call, Respond(c) PROVE BridgeTypeOK'
  <2>1. PICK v \in Status : call' = [call EXCEPT ![c].pc = "mark", ![c].verdict = v]
    BY <1>6 DEF Respond, Verdict, Status
  <2>2. call' = [call EXCEPT ![c] = [[call[c] EXCEPT !.pc = "mark"] EXCEPT !.verdict = v]]
    BY <2>1, <1>t DEF BridgeTypeOK
  <2>3. call' \in [Call -> CallState]
    BY <1>6, <2>2, <1>t, <1>c, CallGoto DEF Respond, Pc
  <2> QED
    BY <1>6, <2>3, <1>t DEF Respond, BridgeTypeOK, railwayVars
<1>7. ASSUME NEW c \in Call, Mark(c) PROVE BridgeTypeOK'
  <2>1. PICK p \in Pc, a \in Deployment \cup {None} :
          call' = [call EXCEPT ![c].pc = p, ![c].answer = a]
    BY <1>7 DEF Mark, Pc, Deployment
  <2>2. call' = [call EXCEPT ![c] = [[call[c] EXCEPT !.pc = p] EXCEPT !.answer = a]]
    BY <2>1, <1>t DEF BridgeTypeOK
  <2>3. call' \in [Call -> CallState]
    BY <1>7, <2>2, <1>t, <1>c, CallGoto DEF Mark
  <2>4. /\ record[call[c].key] \in Record
        /\ call[c].verdict \in Status
        /\ call[c].key \in Key
    <3>1. call[c] \in CallRecord /\ call[c].pc = "mark"
      BY <1>7, <1>t, CallGoto DEF Mark
    <3>2. call[c].key \in Key /\ call[c].verdict \in Status
      BY <3>1 DEF CallRecord
    <3>3. record[call[c].key] # None
      BY <3>1 DEF BridgeInv, OwnerHolds, Row
    <3> QED
      BY <3>2, <3>3, <1>t DEF BridgeTypeOK
  <2>5. PICK d \in Deployment \cup {None} :
          record' = [record EXCEPT ![call[c].key].status = call[c].verdict, ![call[c].key].result = d]
    BY <1>7 DEF Mark, Deployment
  <2>6. [[record[call[c].key] EXCEPT !.status = call[c].verdict] EXCEPT !.result = d] \in Record
    BY <2>4 DEF Record
  <2>7. record' \in [Key -> Record \cup {None}]
    BY <2>4, <2>5, <2>6, <1>t DEF BridgeTypeOK
  <2> QED
    BY <1>7, <2>3, <2>7, <1>t DEF Mark, BridgeTypeOK, railwayVars
<1>8. ASSUME NEW c \in Call, RailwayPerform(c) \/ RailwayDrop(c) PROVE BridgeTypeOK'
  BY <1>8, <1>t DEF RailwayPerform, RailwayDrop, BridgeTypeOK, Deployment
<1>9. ASSUME NEW o \in Outsider, OutsiderDeploys(o) PROVE BridgeTypeOK'
  BY <1>9, <1>t DEF OutsiderDeploys, BridgeTypeOK, Deployment
<1>10. CASE Crash
  <2>1. ASSUME NEW c \in Call, InFlight(c) PROVE [call[c] EXCEPT !.pc = "failed"] \in CallRecord
    BY <2>1, <1>t, CallGoto DEF InFlight, Pc
  <2>2. call' \in [Call -> CallState]
    BY <1>10, <2>1, <1>t DEF Crash, BridgeTypeOK, CallState, CallRecord
  <2> QED
    BY <1>10, <2>2, <1>t DEF Crash, BridgeTypeOK, railwayVars
<1>11. CASE UNCHANGED vars
  BY <1>11, <1>t DEF vars, railwayVars, BridgeTypeOK
<1> QED
  BY <1>1, <1>2, <1>3, <1>4, <1>5, <1>6, <1>7, <1>8, <1>9, <1>10, <1>11 DEF Next, Bridge

\* The three shapes of a step's assignments besides Goto.
Concludes(c, p, v) == call' = [call EXCEPT ![c].pc = p, ![c].verdict = v]
Answers(c, p, a)   == call' = [call EXCEPT ![c].pc = p, ![c].answer = a]
Marks(k, v, a)     == record' = [record EXCEPT ![k].status = v, ![k].result = a]

\* What a step of one call leaves alone: the other calls, and its own key and
\* request.
LEMMA CallFrame ==
    ASSUME BridgeTypeOK, NEW c \in Call, call[c].pc # "new", NEW p \in Pc, Goto(c, p)
    PROVE  /\ \A d \in Call \ {c} : call'[d] = call[d]
           /\ call'[c].pc = p
           /\ call'[c].key = call[c].key
           /\ call'[c].request = call[c].request
           /\ call[c].key \in Key
<1>1. call \in [Call -> CallState] /\ call[c] \in CallRecord /\ call[c].key \in Key
  BY CallGoto DEF BridgeTypeOK
<1> QED
  BY <1>1 DEF Goto, CallRecord

LEMMA VerdictFrame ==
    ASSUME BridgeTypeOK, NEW c \in Call, call[c].pc # "new", NEW p \in Pc, NEW v \in Status,
           Concludes(c, p, v)
    PROVE  /\ \A d \in Call \ {c} : call'[d] = call[d]
           /\ call'[c].pc = p
           /\ call'[c].key = call[c].key
           /\ call'[c].request = call[c].request
           /\ call'[c].verdict = v
           /\ call[c].key \in Key
<1>1. call \in [Call -> CallState] /\ call[c] \in CallRecord /\ call[c].key \in Key
  BY CallGoto DEF BridgeTypeOK
<1>2. call' = [call EXCEPT ![c] = [[call[c] EXCEPT !.pc = p] EXCEPT !.verdict = v]]
  BY <1>1 DEF Concludes
<1>3. /\ \A d \in Call \ {c} : call'[d] = call[d]
      /\ call'[c] = [[call[c] EXCEPT !.pc = p] EXCEPT !.verdict = v]
  BY <1>1, <1>2
<1> QED
  BY <1>1, <1>3 DEF CallRecord

LEMMA AnswerFrame ==
    ASSUME BridgeTypeOK, NEW c \in Call, call[c].pc # "new", NEW p \in Pc,
           NEW a \in Deployment \cup {None},
           Answers(c, p, a)
    PROVE  /\ \A d \in Call \ {c} : call'[d] = call[d]
           /\ call'[c].pc = p
           /\ call'[c].key = call[c].key
           /\ call'[c].request = call[c].request
           /\ call'[c].answer = a
           /\ call[c].key \in Key
<1>1. call \in [Call -> CallState] /\ call[c] \in CallRecord /\ call[c].key \in Key
  BY CallGoto DEF BridgeTypeOK
<1>2. call' = [call EXCEPT ![c] = [[call[c] EXCEPT !.pc = p] EXCEPT !.answer = a]]
  BY <1>1 DEF Answers
<1>3. /\ \A d \in Call \ {c} : call'[d] = call[d]
      /\ call'[c] = [[call[c] EXCEPT !.pc = p] EXCEPT !.answer = a]
  BY <1>1, <1>2
<1> QED
  BY <1>1, <1>3 DEF CallRecord

\* What marking a row leaves alone: the other rows, its request and its author.
LEMMA RowFrame ==
    ASSUME BridgeTypeOK, NEW k \in Key, record[k] \in Record, NEW v \in Status,
           NEW a \in Deployment \cup {None},
           Marks(k, v, a)
    PROVE  /\ \A i \in Key \ {k} : record'[i] = record[i]
           /\ record'[k] \in Record
           /\ record'[k].by = record[k].by
           /\ record'[k].request = record[k].request
           /\ record'[k].status = v
           /\ record'[k].result = a
<1>1. record \in [Key -> Record \cup {None}]
  BY DEF BridgeTypeOK
<1>2. record' = [record EXCEPT ![k] = [[record[k] EXCEPT !.status = v] EXCEPT !.result = a]]
  BY <1>1 DEF Marks
<1>3. /\ \A i \in Key \ {k} : record'[i] = record[i]
      /\ record'[k] = [[record[k] EXCEPT !.status = v] EXCEPT !.result = a]
  BY <1>1, <1>2
<1> QED
  <2>1. ASSUME NEW r \in Record
        PROVE  LET x == [[r EXCEPT !.status = v] EXCEPT !.result = a] IN
               /\ x \in Record
               /\ x.by = r.by /\ x.request = r.request /\ x.status = v /\ x.result = a
    BY DEF Record
  <2> QED
    BY <1>3, <2>1

\* The parts of the invariant that relate calls, rows and POSTs.
Knowledge == OwnerHolds /\ SenderOwns /\ VerdictIsKnown /\ RowIsKnown /\ AnswerIsKnown

LEMMA KnowledgeStep == BridgeInv /\ [Next]_vars => Knowledge'
<1> SUFFICES ASSUME BridgeInv, [Next]_vars PROVE Knowledge'
  OBVIOUS
<1>t. BridgeTypeOK
  BY DEF BridgeInv
<1>r. \A k \in Key : record[k] # None => record[k] \in Record /\ record[k].by \in Call
  BY <1>t DEF BridgeTypeOK, Record
<1> USE DEF BridgeInv, Knowledge, OwnerHolds, SenderOwns, VerdictIsKnown, RowIsKnown,
            AnswerIsKnown, Row
<1>1. ASSUME NEW c \in Call, Begin(c) PROVE Knowledge'
  <2>1. PICK k \in Key, m \in Commit, e \in past :
          LET q == [commit |-> m, expected |-> e] IN
          call' = [call EXCEPT ![c] =
            [pc      |-> IF record[k] = None THEN "check"
                         ELSE IF Replays(record[k], q) THEN "answered" ELSE "failed",
             key     |-> k,
             request |-> q,
             verdict |-> "RESERVED",
             answer  |-> IF record[k] # None /\ Replays(record[k], q)
                         THEN record[k].result ELSE None]]
    BY <1>1 DEF Begin
  <2>2. /\ \A d \in Call \ {c} : call'[d] = call[d]
        /\ call'[c].pc \in {"check", "answered", "failed"}
        /\ call'[c].key = k
        /\ call'[c].pc = "answered" =>
              /\ record[k] # None
              /\ record[k].request = call'[c].request
              /\ record[k].status = "COMPLETED"
              /\ call'[c].answer = record[k].result
    BY <2>1, <1>t DEF BridgeTypeOK, Replays
  <2>3. sent[c] = "no" /\ call[c].pc = "new"
    BY <1>1, <1>t DEF Begin, BridgeTypeOK
  <2>4. UNCHANGED <<record, sent, past>>
    BY <1>1 DEF Begin, railwayVars
  <2>5. \A j \in Key : record[j] # None => record[j].by # c
    BY <2>3
  <2>6. OwnerHolds' /\ SenderOwns' /\ VerdictIsKnown'
    BY <2>2, <2>3, <2>4
  <2>7. RowIsKnown'
    BY <1>r, <2>2, <2>4, <2>5
  <2>8. ASSUME NEW d \in Call, call'[d].pc = "answered"
        PROVE  /\ call'[d].answer \in Call
               /\ sent'[call'[d].answer] = "performed"
               /\ call'[call'[d].answer].request = call'[d].request
               /\ call'[call'[d].answer].key = call'[d].key
    <3>1. CASE d = c
      <4>1. /\ record[k].result = record[k].by
            /\ record[k].by \in Call \ {c}
            /\ sent[record[k].by] = "performed"
            /\ call[record[k].by].request = record[k].request
            /\ call[record[k].by].key = k
        BY <1>r, <2>2, <2>5, <2>8, <3>1
      <4> QED
        BY <2>2, <2>4, <2>8, <3>1, <4>1
    <3>2. CASE d # c
      <4>1. call[d].answer # c
        BY <2>2, <2>3, <2>8, <3>2
      <4> QED
        BY <2>2, <2>4, <2>8, <3>2, <4>1
    <3> QED
      BY <3>1, <3>2
  <2> QED
    BY <2>6, <2>7, <2>8
<1>2. ASSUME NEW c \in Call, Check(c) \/ ReadError(c) \/ LedgerError(c) PROVE Knowledge'
  <2>1. PICK p \in {"reserve", "failed"} : Goto(c, p)
    BY <1>2 DEF Check, ReadError, LedgerError
  <2>2. call[c].pc \in {"check", "recheck", "reserve", "mark"}
    BY <1>2 DEF Check, ReadError, LedgerError
  <2>3. p = "reserve" => sent[c] = "no"
    BY <1>2, <1>t, <2>1, <2>2, CallFrame DEF Check, ReadError, LedgerError, BridgeTypeOK, Goto, Pc
  <2>4. /\ \A d \in Call \ {c} : call'[d] = call[d]
        /\ call'[c].pc = p
        /\ call'[c].key = call[c].key
        /\ call'[c].request = call[c].request
    <3>1. p \in Pc /\ call[c].pc # "new"
      BY <2>2 DEF Pc
    <3> QED
      BY <1>t, <2>1, <3>1, CallFrame
  <2>5. UNCHANGED <<record, sent, past>>
    BY <1>2 DEF Check, ReadError, LedgerError, railwayVars
  <2> QED
    BY <1>r, <2>1, <2>2, <2>3, <2>4, <2>5
<1>3. ASSUME NEW c \in Call, Reserve(c) PROVE Knowledge'
  <2>1. PICK p \in {"recheck", "failed"} : Goto(c, p)
    BY <1>3 DEF Reserve
  <2>2. call[c].pc = "reserve" /\ sent[c] = "no" /\ UNCHANGED <<sent, past>>
    BY <1>3, <1>t DEF Reserve, BridgeTypeOK, railwayVars
  <2>4. /\ \A d \in Call \ {c} : call'[d] = call[d]
        /\ call'[c].pc = p
        /\ call'[c].key = call[c].key
        /\ call'[c].request = call[c].request
        /\ call[c].key \in Key
    <3>1. p \in Pc /\ call[c].pc # "new"
      BY <2>2 DEF Pc
    <3> QED
      BY <1>t, <2>1, <3>1, CallFrame
  <2>5. CASE record[call[c].key] # None
    <3>1. UNCHANGED record /\ p = "failed"
      <4>1. UNCHANGED record /\ Goto(c, "failed")
        BY <1>3, <2>5 DEF Reserve
      <4>2. call'[c].pc = "failed"
        BY <1>t, <2>2, <4>1, CallFrame DEF Pc
      <4> QED
        BY <2>4, <4>1, <4>2
    <3> QED
      BY <1>r, <2>2, <2>4, <3>1
  <2>6. CASE record[call[c].key] = None
    <3>1. /\ \A j \in Key \ {call[c].key} : record'[j] = record[j]
          /\ record'[call[c].key] = [request |-> call[c].request, status |-> "RESERVED",
                                     result |-> None, by |-> c]
      BY <1>3, <1>t, <2>4, <2>6 DEF Reserve, BridgeTypeOK
    <3>2. record'[call[c].key] # None
      <4>1. call[c].request \in Request
        BY <1>t, <2>2, CallGoto
      <4>2. record'[call[c].key] \in Record
        BY <3>1, <4>1 DEF Record, Status
      <4> QED
        BY <4>2
    <3>3. ASSUME NEW d \in Call \ {c}, Row(d) # None, call[d].pc # "new"
          PROVE  call[d].key \in Key /\ record'[call[d].key] = record[call[d].key]
      <4>1. call[d].key \in Key
        BY <1>t, <3>3, CallGoto
      <4> QED
        BY <2>6, <3>1, <3>3, <4>1
    <3>6. OwnerHolds'
      BY <2>1, <2>2, <2>4, <2>6, <3>1, <3>2, <3>3
    <3>7. SenderOwns'
      BY <2>1, <2>2, <2>4, <2>6, <3>1, <3>2, <3>3
    <3>4. VerdictIsKnown' /\ AnswerIsKnown'
      BY <1>r, <2>1, <2>2, <2>4, <2>6, <3>1, <3>2
    <3>5. RowIsKnown'
      <4>1. ASSUME NEW j \in Key \ {call[c].key}, record[j] # None
            PROVE  record[j].by \in Call \ {c}
        BY <1>r, <4>1
      <4>2. /\ record'[call[c].key].by = c
            /\ record'[call[c].key].status = "RESERVED"
            /\ record'[call[c].key].request = call[c].request
        BY <3>1
      <4> QED
        BY <2>1, <2>2, <2>4, <3>1, <4>1, <4>2
    <3> QED
      BY <3>4, <3>5, <3>6, <3>7
  <2> QED
    BY <2>5, <2>6
<1>4. ASSUME NEW c \in Call, Recheck(c) PROVE Knowledge'
  <2>2. call[c].pc = "recheck" /\ sent[c] = "no" /\ UNCHANGED <<record, sent, past>>
    BY <1>4, <1>t DEF Recheck, BridgeTypeOK, railwayVars
  <2>3. CASE Goto(c, "submit")
    <3>1. /\ \A d \in Call \ {c} : call'[d] = call[d]
          /\ call'[c].pc = "submit"
          /\ call'[c].key = call[c].key
          /\ call'[c].request = call[c].request
      BY <1>t, <2>2, <2>3, CallFrame DEF Pc
    <3> QED
      BY <1>r, <2>2, <3>1
  <2>4. CASE Concludes(c, "mark", "REJECTED")
    <3>1. /\ \A d \in Call \ {c} : call'[d] = call[d]
          /\ call'[c].pc = "mark"
          /\ call'[c].key = call[c].key
          /\ call'[c].request = call[c].request
          /\ call'[c].verdict = "REJECTED"
      BY <1>t, <2>2, <2>4, VerdictFrame DEF Pc, Status
    <3> QED
      BY <1>r, <2>2, <3>1
  <2> QED
    BY <1>4, <2>3, <2>4 DEF Recheck, Concludes
<1>5. ASSUME NEW c \in Call, Submit(c) PROVE Knowledge'
  <2>1. call[c].pc = "submit" /\ sent[c] = "no" /\ UNCHANGED <<record, past>>
    BY <1>5, <1>t DEF Submit, BridgeTypeOK
  <2>2. /\ \A d \in Call \ {c} : call'[d] = call[d]
        /\ call'[c].pc = "wait"
        /\ call'[c].key = call[c].key
        /\ call'[c].request = call[c].request
    BY <1>5, <1>t, <2>1, CallFrame DEF Submit, Pc
  <2>3. /\ \A d \in Call \ {c} : sent'[d] = sent[d]
        /\ sent'[c] = "pending"
    BY <1>5, <1>t DEF Submit, BridgeTypeOK
  <2>4. call[c].key \in Key /\ record[call[c].key].status = "RESERVED"
    BY <1>t, <2>1, CallGoto
  <2>5. \A j \in Key : record[j] # None /\ record[j].by = c => j = call[c].key
    OBVIOUS
  <2>6. OwnerHolds' /\ SenderOwns' /\ VerdictIsKnown'
    BY <1>r, <2>1, <2>2, <2>3
  <2>7. RowIsKnown'
    BY <1>r, <2>1, <2>2, <2>3, <2>4, <2>5
  <2>8. AnswerIsKnown'
    BY <1>r, <2>1, <2>2, <2>3
  <2> QED
    BY <2>6, <2>7, <2>8
<1>6. ASSUME NEW c \in Call, Respond(c) PROVE Knowledge'
  <2>1. call[c].pc = "wait" /\ UNCHANGED <<record, sent, past>>
    BY <1>6 DEF Respond, railwayVars
  <2>2. PICK v \in Verdict(c) : Concludes(c, "mark", v)
    BY <1>6 DEF Respond, Concludes
  <2>3. /\ v \in Status \ {"RESERVED"}
        /\ v = "COMPLETED" => sent[c] = "performed"
        /\ v = "REJECTED" => sent[c] = "dropped"
    BY DEF Verdict, Status
  <2>4. /\ \A d \in Call \ {c} : call'[d] = call[d]
        /\ call'[c].pc = "mark"
        /\ call'[c].key = call[c].key
        /\ call'[c].request = call[c].request
        /\ call'[c].verdict = v
    <3>1. v \in Status /\ call[c].pc # "new" /\ "mark" \in Pc
      BY <2>1, <2>3 DEF Pc
    <3> QED
      BY <1>t, <2>2, <3>1, VerdictFrame
  <2> QED
    BY <1>r, <2>1, <2>3, <2>4
<1>7. ASSUME NEW c \in Call, Mark(c) PROVE Knowledge'
  <2>1. call[c].pc = "mark" /\ UNCHANGED <<sent, past>>
    BY <1>7 DEF Mark, railwayVars
  <2> DEFINE a == IF call[c].verdict = "COMPLETED" THEN c ELSE None
             p == IF call[c].verdict = "COMPLETED" THEN "answered" ELSE "failed"
             r == record[call[c].key]
  <2>2. Answers(c, p, a)
    BY <1>7 DEF Mark, Answers
  <2>3. p \in Pc /\ a \in Deployment \cup {None} /\ call[c].pc # "new"
    BY <2>1 DEF Pc, Deployment
  <2>4. /\ \A d \in Call \ {c} : call'[d] = call[d]
        /\ call'[c].pc = p
        /\ call'[c].key = call[c].key
        /\ call'[c].request = call[c].request
        /\ call'[c].answer = a
        /\ call[c].key \in Key
    <3> HIDE DEF p, a
    <3> QED
      BY <1>t, <2>2, <2>3, AnswerFrame
  <2>5. call[c].verdict \in Status
    BY <1>t, <2>1, CallGoto DEF CallRecord
  <2>6. /\ r \in Record
        /\ r.by = c
        /\ r.request = call[c].request
    BY <1>r, <2>1, <2>4
  <2>7. Marks(call[c].key, call[c].verdict, a)
    BY <1>7 DEF Mark, Marks
  <2>8. /\ \A i \in Key \ {call[c].key} : record'[i] = record[i]
        /\ record'[call[c].key] \in Record
        /\ record'[call[c].key].by = c
        /\ record'[call[c].key].request = call[c].request
        /\ record'[call[c].key].status = call[c].verdict
        /\ record'[call[c].key].result = a
    <3>1. /\ call[c].key \in Key
          /\ record[call[c].key] \in Record
          /\ call[c].verdict \in Status
          /\ a \in Deployment \cup {None}
      BY <2>3, <2>4, <2>5, <2>6
    <3> HIDE DEF a
    <3>2. /\ \A i \in Key \ {call[c].key} : record'[i] = record[i]
          /\ record'[call[c].key] \in Record
          /\ record'[call[c].key].by = record[call[c].key].by
          /\ record'[call[c].key].request = record[call[c].key].request
          /\ record'[call[c].key].status = call[c].verdict
          /\ record'[call[c].key].result = a
      BY <1>t, <2>7, <3>1, RowFrame
    <3> QED
      BY <2>6, <3>2
  <2>9. record'[call[c].key] # None
    BY <2>8
  <2>10. ASSUME NEW d \in Call \ {c},
                call[d].pc \in {"recheck", "submit", "wait", "mark"} \/ sent[d] # "no"
         PROVE  call[d].key # call[c].key
    BY <2>6, <2>10
  <2>11. p \in {"answered", "failed"} /\ (p = "answered" => call[c].verdict = "COMPLETED" /\ a = c)
    OBVIOUS
  <2>12. call[c].verdict = "COMPLETED" => a = c
    OBVIOUS
  <2> HIDE DEF p, a, r
  <2>13. OwnerHolds'
    <3>1. ASSUME NEW d \in Call \ {c}, call[d].pc \in {"recheck", "submit", "wait", "mark"}
          PROVE  call[d].key \in Key /\ record'[call[d].key] = record[call[d].key]
      <4>1. call[d].key \in Key
        BY <1>t, <3>1, CallGoto
      <4> QED
        BY <2>8, <2>10, <3>1, <4>1
    <3> QED
      BY <2>4, <2>11, <3>1
  <2>14. SenderOwns'
    <3>1. ASSUME NEW d \in Call \ {c}, sent[d] # "no"
          PROVE  call[d].key \in Key /\ record'[call[d].key] = record[call[d].key]
      <4>1. call[d].key \in Key
        BY <1>t, <3>1, CallGoto
      <4> QED
        BY <2>8, <2>10, <3>1, <4>1
    <3> QED
      BY <2>1, <2>4, <2>8, <2>9, <2>11, <3>1
  <2>15. VerdictIsKnown'
    BY <2>1, <2>4, <2>11
  <2>16. RowIsKnown'
    <3>1. ASSUME NEW i \in Key \ {call[c].key}, record[i] # None
          PROVE  record[i].by \in Call \ {c}
      BY <1>r, <3>1
    <3>2. /\ call'[c].pc # "new"
          /\ call'[c].key = call[c].key
          /\ record'[call[c].key].status = "COMPLETED" => a = c /\ sent[c] = "performed"
          /\ record'[call[c].key].status = "REJECTED" => sent[c] \in {"no", "dropped"}
      BY <2>1, <2>4, <2>8, <2>11, <2>12
    <3> QED
      BY <2>1, <2>4, <2>8, <3>1, <3>2
  <2>17. AnswerIsKnown'
    BY <2>1, <2>4, <2>11
  <2> QED
    BY <2>13, <2>14, <2>15, <2>16, <2>17
<1>8. ASSUME NEW c \in Call, RailwayPerform(c) \/ RailwayDrop(c) PROVE Knowledge'
  <2>1. sent[c] = "pending" /\ UNCHANGED <<call, record>> /\ past \subseteq past'
    BY <1>8 DEF RailwayPerform, RailwayDrop
  <2>2. PICK x \in {"performed", "dropped"} : sent' = [sent EXCEPT ![c] = x] /\ (x = "performed" => c \in past')
    BY <1>8 DEF RailwayPerform, RailwayDrop
  <2>3. /\ \A d \in Call \ {c} : sent'[d] = sent[d]
        /\ sent'[c] = x
    BY <1>t, <2>2 DEF BridgeTypeOK
  <2> QED
    BY <1>r, <2>1, <2>2, <2>3
<1>9. ASSUME NEW o \in Outsider, OutsiderDeploys(o) PROVE Knowledge'
  BY <1>9 DEF OutsiderDeploys
<1>10. CASE Crash
  <2>1. /\ UNCHANGED <<record, sent, past>>
        /\ call' = [c \in Call |-> IF InFlight(c) THEN [call[c] EXCEPT !.pc = "failed"] ELSE call[c]]
    BY <1>10 DEF Crash, railwayVars
  <2>2. ASSUME NEW d \in Call
        PROVE  /\ call'[d].key = call[d].key
               /\ call'[d].request = call[d].request
               /\ call'[d].answer = call[d].answer
               /\ \/ call'[d].pc = call[d].pc /\ ~InFlight(d)
                  \/ call'[d].pc = "failed" /\ InFlight(d)
    <3>1. CASE InFlight(d)
      <4>1. call[d] \in CallRecord
        BY <1>t, <3>1, CallGoto DEF InFlight
      <4>2. call'[d] = [call[d] EXCEPT !.pc = "failed"]
        BY <2>1, <3>1
      <4> QED
        BY <3>1, <4>1, <4>2 DEF CallRecord
    <3>2. CASE ~InFlight(d)
      BY <2>1, <3>2
    <3> QED
      BY <3>1, <3>2
  <2> QED
    BY <1>r, <2>1, <2>2 DEF InFlight
<1>11. CASE UNCHANGED vars
  BY <1>11 DEF vars, railwayVars
<1> QED
  BY <1>1, <1>2, <1>3, <1>4, <1>5, <1>6, <1>7, <1>8, <1>9, <1>10, <1>11 DEF Next, Bridge

-----------------------------------------------------------------------------
(* The theorems *)

LEMMA BridgeInvariance == Spec => []BridgeInv
<1>1. BridgeInv /\ [Next]_vars => BridgeInv'
  BY BridgeTypeStep, KnowledgeStep DEF BridgeInv, Knowledge
<1> QED
  BY <1>1, InitBridge, PTL DEF Spec

\* Every variable keeps its type: the rows of privileged_mutations are well
\* formed whatever calls, answers and restarts have happened.
THEOREM BridgeTypeCorrect == Spec => []BridgeTypeOK
<1>1. BridgeInv => BridgeTypeOK
  BY DEF BridgeInv
<1> QED
  BY <1>1, BridgeInvariance, PTL

\* An idempotency key is POSTed to Railway at most once: the primary key of
\* privileged_mutations lets one reservation in, and nobody else submits.
THEOREM SubmittedOnce == Spec => []OneSubmission
<1>1. BridgeInv => OneSubmission
  BY DEF BridgeInv, SenderOwns, OneSubmission, Row
<1> QED
  BY <1>1, BridgeInvariance, PTL

\* The ledger's outcomes are true of Railway: mark is only reached with a
\* verdict the response supports.
THEOREM RecordsAreTrue == Spec => []RecordIsTrue
<1>1. BridgeInv => RecordIsTrue
  <2> SUFFICES ASSUME BridgeInv, NEW k \in Key, record[k] # None
               PROVE  /\ record[k].status = "COMPLETED" =>
                           /\ record[k].result \in past \cap Call
                           /\ call[record[k].result].request = record[k].request
                      /\ record[k].status = "REJECTED" =>
                           \A c \in Call : call[c].key = k => sent[c] \in {"no", "dropped"}
    BY DEF RecordIsTrue
  <2>1. record[k].by \in Call
    BY DEF BridgeInv, BridgeTypeOK, Record
  <2>2. \A c \in Call : sent[c] # "no" /\ call[c].key = k => record[k].by = c
    BY DEF BridgeInv, SenderOwns, Row
  <2> QED
    BY <2>1, <2>2 DEF BridgeInv, RowIsKnown, SenderOwns
<1> QED
  BY <1>1, BridgeInvariance, PTL

\* A caller is answered only with a deployment its own key and request made,
\* also when the answer is a replay of another call's.
THEOREM AnswersAreMine == Spec => []AnswerIsMine
<1>1. BridgeInv => AnswerIsMine
  BY DEF BridgeInv, AnswerIsKnown, SenderOwns, AnswerIsMine
<1> QED
  BY <1>1, BridgeInvariance, PTL

LEMMA RowWriters ==
    ASSUME [Next]_vars, record' # record
    PROVE  \E c \in Call : Reserve(c) \/ Mark(c)
BY DEF Next, Bridge, Begin, Check, Recheck, ReadError, Submit, Respond, LedgerError,
       Crash, RailwayPerform, RailwayDrop, OutsiderDeploys, vars, railwayVars

\* What a step may do to a row: reserve it, or settle its reservation.
LEMMA RecordStep ==
    ASSUME BridgeInv, [Next]_vars, NEW k \in Key
    PROVE  \/ record'[k] = record[k]
           \/ /\ record[k] = None
              /\ \E c \in Call : call[c].pc = "reserve" /\ call[c].key = k
              /\ record'[k] # None
              /\ record'[k].status = "RESERVED"
           \/ /\ record[k] # None
              /\ record[k].status = "RESERVED"
              /\ record'[k] # None
              /\ record'[k].request = record[k].request
              /\ record'[k].status \in {"COMPLETED", "REJECTED", "SUBMISSION_UNVERIFIED"}
<1>t. BridgeTypeOK
  BY DEF BridgeInv
<1>1. ASSUME NEW c \in Call, Reserve(c), record'[k] # record[k]
      PROVE  /\ record[k] = None
             /\ \E d \in Call : call[d].pc = "reserve" /\ call[d].key = k
             /\ record'[k] # None
             /\ record'[k].status = "RESERVED"
  <2>1. call[c].pc = "reserve" /\ call[c].key \in Key /\ call[c].request \in Request
    BY <1>1, <1>t, CallGoto DEF Reserve
  <2>2. /\ record[call[c].key] = None
        /\ record' = [record EXCEPT ![call[c].key] =
             [request |-> call[c].request, status |-> "RESERVED", result |-> None, by |-> c]]
    BY <1>1 DEF Reserve, Row
  <2>3. k = call[c].key
    BY <1>1, <1>t, <2>1, <2>2 DEF BridgeTypeOK
  <2>4. record'[k] =
             [request |-> call[c].request, status |-> "RESERVED", result |-> None, by |-> c]
    BY <1>t, <2>1, <2>2, <2>3 DEF BridgeTypeOK
  <2>5. record'[k] \in Record
    BY <2>1, <2>4 DEF Record, Status
  <2> QED
    BY <2>1, <2>2, <2>3, <2>4, <2>5
<1>2. ASSUME NEW c \in Call, Mark(c), record'[k] # record[k]
      PROVE  /\ record[k] # None
             /\ record[k].status = "RESERVED"
             /\ record'[k] # None
             /\ record'[k].request = record[k].request
             /\ record'[k].status \in {"COMPLETED", "REJECTED", "SUBMISSION_UNVERIFIED"}
  <2>1. call[c].pc = "mark" /\ call[c].key \in Key /\ call[c].verdict \in Status
    <3>1. call[c].pc = "mark"
      BY <1>2 DEF Mark
    <3> QED
      BY <1>t, <3>1, CallGoto DEF CallRecord
  <2>2. /\ record[call[c].key] \in Record
        /\ record[call[c].key].status = "RESERVED"
        /\ call[c].verdict # "RESERVED"
    BY <1>t, <2>1 DEF BridgeInv, BridgeTypeOK, OwnerHolds, VerdictIsKnown, Row
  <2>3. PICK a \in Deployment \cup {None} : Marks(call[c].key, call[c].verdict, a)
    BY <1>2 DEF Mark, Marks, Deployment
  <2>4. /\ \A i \in Key \ {call[c].key} : record'[i] = record[i]
        /\ record'[call[c].key] \in Record
        /\ record'[call[c].key].request = record[call[c].key].request
        /\ record'[call[c].key].status = call[c].verdict
    BY <1>t, <2>1, <2>2, <2>3, RowFrame
  <2> QED
    BY <1>2, <2>1, <2>2, <2>4 DEF Status
<1>3. ASSUME record' # record
      PROVE  \E c \in Call : Reserve(c) \/ Mark(c)
  BY <1>3, RowWriters
<1> QED
  BY <1>1, <1>2, <1>3

\* A recorded outcome is never rewritten: only the owner of a reservation
\* marks it, and it stops there.
THEOREM OutcomesAreFinal == Spec => OutcomeIsFinal
<1>1. BridgeInv /\ [Next]_vars =>
        [\A k \in Key : (record[k] # None /\ record[k].status # "RESERVED")
                           => record'[k] = record[k]]_vars
  BY RecordStep
<1> QED
  BY <1>1, BridgeInvariance, PTL DEF Spec, OutcomeIsFinal

-----------------------------------------------------------------------------
(* The bridge implements OneMutation. *)

Claims    == [k \in Key |-> Claimed(k)]
Performed == {call[c].key : c \in {d \in Call : sent[d] = "performed"}}

\* A key is among the performed ones when a POST under it was.
LEMMA PerformedKey ==
    \A k : k \in Performed <=> \E c \in Call : sent[c] = "performed" /\ call[c].key = k
BY DEF Performed

LEMMA ClaimedValue ==
    ASSUME BridgeTypeOK, NEW k \in Key
    PROVE  /\ record[k] = None => Claimed(k) = None
           /\ record[k] # None =>
                /\ Claimed(k) # None
                /\ Claimed(k).request = record[k].request
                /\ Claimed(k).status = Outcome(record[k].status)
                /\ record[k].request \in Request
                /\ record[k].status \in Status
<1>1. record[k] # None => record[k].request \in Request /\ record[k].status \in Status
  BY DEF BridgeTypeOK, Record
<1>2. ASSUME NEW q \in Request, NEW s \in {"pending", "done", "refused", "unknown"}
      PROVE  [request |-> q, status |-> s] # None
  OBVIOUS
<1>3. record[k] # None =>
        /\ Claimed(k) = [request |-> record[k].request, status |-> Outcome(record[k].status)]
        /\ Outcome(record[k].status) \in {"pending", "done", "refused", "unknown"}
  BY <1>1 DEF Claimed, Outcome, Status
<1> QED
  BY <1>1, <1>2, <1>3 DEF Claimed

LEMMA InitImplements == Init => Mutation!MInit
BY DEF Init, Mutation!MInit, Claimed

\* A call that has begun keeps its key.
LEMMA KeyKept ==
    ASSUME BridgeInv, [Next]_vars, NEW d \in Call, call[d].pc # "new"
    PROVE  call'[d].key = call[d].key
<1>t. BridgeTypeOK
  BY DEF BridgeInv
<1>1. ASSUME NEW c \in Call, Begin(c) PROVE call'[d] = call[d]
  BY <1>1, <1>t DEF Begin, BridgeTypeOK
<1>2. ASSUME NEW c \in Call, NEW p \in Pc, call[c].pc # "new",
             \/ Goto(c, p)
             \/ \E v \in Status : Concludes(c, p, v)
             \/ \E a \in Deployment \cup {None} : Answers(c, p, a)
      PROVE  call'[d].key = call[d].key
  <2>1. \/ c # d /\ call'[d] = call[d]
        \/ c = d /\ call'[d].key = call[d].key
    BY <1>t, <1>2, CallFrame, VerdictFrame, AnswerFrame
  <2> QED
    BY <2>1
<1>3. ASSUME NEW c \in Call, Bridge(c) PROVE call'[d].key = call[d].key
  <2>1. CASE Begin(c)
    BY <1>1, <2>1
  <2>2. CASE Check(c) \/ Reserve(c) \/ ReadError(c) \/ Submit(c) \/ LedgerError(c)
    <3>1. PICK p \in Pc : Goto(c, p)
      BY <2>2 DEF Check, Reserve, ReadError, Submit, LedgerError, Pc
    <3>2. call[c].pc # "new"
      BY <2>2 DEF Check, Reserve, ReadError, Submit, LedgerError
    <3> QED
      BY <1>2, <3>1, <3>2
  <2>3. CASE Recheck(c) \/ Respond(c)
    <3>1. PICK p \in Pc : Goto(c, p) \/ \E v \in Status : Concludes(c, p, v)
      BY <2>3 DEF Recheck, Respond, Verdict, Concludes, Pc, Status
    <3>2. call[c].pc # "new"
      BY <2>3 DEF Recheck, Respond
    <3> QED
      BY <1>2, <3>1, <3>2
  <2>4. CASE Mark(c)
    <3>1. PICK p \in Pc : \E a \in Deployment \cup {None} : Answers(c, p, a)
      BY <2>4 DEF Mark, Answers, Pc, Deployment
    <3>2. call[c].pc # "new"
      BY <2>4 DEF Mark
    <3> QED
      BY <1>2, <3>1, <3>2
  <2> QED
    BY <1>3, <2>1, <2>2, <2>3, <2>4 DEF Bridge
<1>4. CASE Crash
  <2>1. call' = [c \in Call |-> IF InFlight(c) THEN [call[c] EXCEPT !.pc = "failed"] ELSE call[c]]
    BY <1>4 DEF Crash
  <2>2. call[d] \in CallRecord
    BY <1>t, CallGoto
  <2> QED
    BY <2>1, <2>2 DEF CallRecord
<1>5. CASE UNCHANGED call
  BY <1>5
<1>6. (\E c \in Call : Bridge(c)) \/ Crash \/ UNCHANGED call
  BY DEF Next, RailwayPerform, RailwayDrop, OutsiderDeploys, vars
<1> QED
  BY <1>3, <1>4, <1>5, <1>6

\* Every step of the bridge and of Railway is a step of OneMutation, or
\* invisible to it.
LEMMA StepImplements ==
    ASSUME BridgeInv, BridgeInv', [Next]_vars
    PROVE  [Mutation!MNext]_(Mutation!mvars)
<1>t. BridgeTypeOK /\ BridgeTypeOK'
  BY DEF BridgeInv
<1>k. \A c \in Call : sent[c] # "no" => call'[c].key = call[c].key /\ call[c].key \in Key
  <2>1. ASSUME NEW c \in Call, sent[c] # "no" PROVE call[c].pc # "new"
    BY <2>1 DEF BridgeInv, SenderOwns
  <2> QED
    BY <1>t, <2>1, KeyKept, CallGoto
<1>1. CASE record' # record
  <2>1. PICK c \in Call : Reserve(c) \/ Mark(c)
    BY <1>1, RowWriters
  <2>2. sent' = sent
    BY <2>1 DEF Reserve, Mark, railwayVars
  <2>3. Performed' = Performed
    BY <1>k, <2>2 DEF Performed
  <2>4. PICK k \in Key : \A i \in Key \ {k} : record'[i] = record[i]
    <3>1. call[c].pc # "new"
      BY <2>1 DEF Reserve, Mark
    <3>2. call[c].key \in Key
      BY <1>t, <3>1, CallGoto
    <3>3. \A i \in Key \ {call[c].key} : record'[i] = record[i]
      BY <2>1, <3>2, <1>t DEF Reserve, Mark, BridgeTypeOK
    <3> QED
      BY <3>2, <3>3
  <2>5. \A i \in Key \ {k} : Claimed(i)' = Claimed(i)
    BY <2>4 DEF Claimed
  <2>6. record'[k] # record[k]
    BY <1>1, <1>t, <2>4 DEF BridgeTypeOK
  <2>7. /\ record'[k] # None
        /\ Claimed(k)' = [request |-> record'[k].request, status |-> Outcome(record'[k].status)]
        /\ record'[k].request \in Request
    BY <1>t, <2>6, RecordStep DEF Claimed, BridgeTypeOK, Record
  <2>8. CASE record[k] = None
    <3>1. record'[k].status = "RESERVED"
      BY <2>6, <2>8, RecordStep
    <3>2. Claimed(k) = None /\ Claimed(k)' = [request |-> record'[k].request, status |-> "pending"]
      BY <2>7, <2>8, <3>1 DEF Claimed, Outcome
    <3>3. Claims' = [Claims EXCEPT ![k] = [request |-> record'[k].request, status |-> "pending"]]
      BY <2>5, <3>2 DEF Claims
    <3>4. Mutation!Claim(k)
      BY <2>3, <2>7, <3>2, <3>3 DEF Mutation!Claim, Claims, Performed
    <3> QED
      BY <3>4 DEF Mutation!MNext
  <2>9. CASE record[k] # None
    <3>1. /\ record[k].status = "RESERVED"
          /\ record'[k].request = record[k].request
          /\ record'[k].status \in {"COMPLETED", "REJECTED", "SUBMISSION_UNVERIFIED"}
      BY <2>6, <2>9, RecordStep
    <3> DEFINE s == Outcome(record'[k].status)
    <3>2. Claimed(k) = [request |-> record[k].request, status |-> "pending"]
      BY <2>9, <3>1 DEF Claimed, Outcome
    <3>3. Claims' = [Claims EXCEPT ![k] = [Claims[k] EXCEPT !.status = s]]
      <4>1. Claims[k] = [request |-> record[k].request, status |-> "pending"]
        BY <3>2 DEF Claims
      <4>2. Claimed(k)' = [request |-> record[k].request, status |-> s]
        BY <2>7, <3>1
      <4> HIDE DEF s
      <4>3. [Claims[k] EXCEPT !.status = s] = [request |-> record[k].request, status |-> s]
        BY <4>1
      <4>4. Claimed(k)' = [Claims[k] EXCEPT !.status = s]
        BY <4>2, <4>3
      <4> QED
        BY <2>5, <4>4 DEF Claims
    <3>4. s \in {"done", "refused", "unknown"}
      BY <3>1 DEF Outcome
    <3>5. s = "done" => k \in Performed
      <4>1. s = "done" => record'[k].status = "COMPLETED"
        BY <3>1 DEF Outcome
      <4>2. record'[k].status = "COMPLETED" =>
              \E c2 \in Call : sent'[c2] = "performed" /\ call'[c2].key = k
        BY <1>t, <2>7 DEF BridgeInv, BridgeTypeOK, RowIsKnown, Record
      <4> QED
        BY <1>k, <2>2, <4>1, <4>2 DEF Performed
    <3>6. s = "refused" => k \notin Performed
      <4>1. s = "refused" => record'[k].status = "REJECTED"
        BY <3>1 DEF Outcome
      <4>2. \A d \in Call : sent'[d] = "performed" /\ call'[d].key = k => record'[k].by = d
        BY DEF BridgeInv, SenderOwns, Row
      <4>3. record'[k].status = "REJECTED" => sent'[record'[k].by] # "performed"
        BY <2>7 DEF BridgeInv, RowIsKnown
      <4> QED
        BY <1>k, <2>2, <4>1, <4>2, <4>3 DEF Performed
    <3> HIDE DEF s
    <3>7. /\ Claims[k] # None /\ Claims[k].status = "pending"
          /\ s \in Mutation!Status
          /\ <<"pending", s>> \in {"pending"} \X {"done", "refused", "unknown"}
      BY <1>t, <2>9, <3>2, <3>4, ClaimedValue DEF Claims, Mutation!Status
    <3>8. Mutation!Settle(k)
      BY <2>3, <3>3, <3>5, <3>6, <3>7 DEF Mutation!Settle, Claims, Performed
    <3> QED
      BY <3>8 DEF Mutation!MNext
  <2> QED
    BY <2>8, <2>9
<1>2. CASE record' = record
  <2>1. Claims' = Claims
    BY <1>2 DEF Claims, Claimed
  <2>2. CASE \E c \in Call : RailwayPerform(c)
    <3>1. PICK c \in Call : RailwayPerform(c)
      BY <2>2
    <3>2. /\ sent[c] = "pending"
          /\ sent' = [sent EXCEPT ![c] = "performed"]
          /\ call' = call
      BY <3>1 DEF RailwayPerform
    <3>3. PICK k \in Key : call[c].key = k
      BY <1>k, <3>2
    <3>4. Performed' = Performed \cup {k}
      BY <1>t, <3>2, <3>3 DEF Performed, BridgeTypeOK
    <3>5. k \notin Performed
      <4>1. \A d \in Call : sent[d] = "performed" /\ call[d].key = k => d = c
        BY <3>2, <3>3 DEF BridgeInv, SenderOwns, Row
      <4> QED
        BY <3>2, <4>1 DEF Performed
    <3>6. record[k] # None /\ record[k].status # "REJECTED"
      BY <3>2, <3>3 DEF BridgeInv, SenderOwns, RowIsKnown, Row
    <3>7. Claims[k] # None /\ Claims[k].status # "refused"
      BY <1>t, <3>6, ClaimedValue DEF Claims, Outcome, Status
    <3>8. Mutation!Perform(k)
      BY <2>1, <3>4, <3>5, <3>7 DEF Mutation!Perform, Claims, Performed
    <3> QED
      BY <3>8 DEF Mutation!MNext
  <2>3. CASE ~\E c \in Call : RailwayPerform(c)
    <3>1. \A c \in Call : sent'[c] = "performed" <=> sent[c] = "performed"
      <4>1. \/ sent' = sent
            \/ \E c \in Call : sent' = [sent EXCEPT ![c] = "pending"] /\ sent[c] # "performed"
            \/ \E c \in Call : sent' = [sent EXCEPT ![c] = "dropped"] /\ sent[c] = "pending"
        BY <2>3 DEF Next, Bridge, Begin, Check, Reserve, Recheck, ReadError, Submit, Respond,
                    Mark, LedgerError, Crash, RailwayDrop, OutsiderDeploys, vars, railwayVars,
                    BridgeInv, SenderOwns
      <4> QED
        BY <1>t, <4>1 DEF BridgeTypeOK
    <3>2. Performed' = Performed
      BY <1>k, <3>1 DEF Performed
    <3> QED
      BY <2>1, <3>2 DEF Mutation!mvars, Claims, Performed
  <2> QED
    BY <2>2, <2>3
<1> QED
  BY <1>1, <1>2

\* The bridge implements OneMutation: a key is claimed by one request for
\* good, takes effect at most once, and what its row says of that is true.
THEOREM BridgeMutatesOnce == Spec => MutatesOnce
<1>1. BridgeInv /\ BridgeInv' /\ [Next]_vars => [Mutation!MNext]_(Mutation!mvars)
  BY StepImplements
<1> QED
  BY <1>1, InitImplements, BridgeInvariance, PTL DEF Spec, MutatesOnce, Mutation!MSpec
=============================================================================
