----------------------------- MODULE StoresProofs -----------------------------
(***************************************************************************)
(* What the governed stores guarantee for any number of calls, keys, items *)
(* and crashes.                                                            *)
(***************************************************************************)
EXTENDS GovernedStores, TLAPS

USE StoresAssumption

CallRecord == [pc : Pc, store : Store, key : Key, payload : Payload,
               verdict : Status, answer : Status \cup {None}, wrote : BOOLEAN]

\* What is left of call c after a step: its new control state, what it will
\* record and answer, and whether it has written.  Its request stays.
After(c, p, v, a, w) ==
    /\ call' \in [Call -> {New} \cup CallRecord]
    /\ \A d \in Call \ {c} : call'[d] = call[d]
    /\ call'[c].pc = p
    /\ call'[c].verdict = v
    /\ call'[c].answer = a
    /\ call'[c].wrote = w
    /\ call'[c].store = call[c].store
    /\ call'[c].key = call[c].key
    /\ call'[c].payload = call[c].payload

-----------------------------------------------------------------------------
(* The effect of a step on its call *)

\* A call that has begun is a typed record.
LEMMA CallBegun ==
    ASSUME StoresTypeOK, NEW c \in Call, call[c].pc # "new"
    PROVE  /\ call[c] \in CallRecord
           /\ Slot(c) \in Store \X Key
           /\ Place(c) \in Store \X Item
<1>1. call[c] \in CallRecord
  BY DEF StoresTypeOK, CallRecord, New
<1> QED
  BY <1>1 DEF CallRecord, Slot, Place, Payload

LEMMA RecordUpdate ==
    ASSUME NEW r \in CallRecord, NEW p \in Pc, NEW v \in Status, NEW a \in Status \cup {None}
    PROVE  /\ [r EXCEPT !.pc = p] \in CallRecord
           /\ [r EXCEPT !.pc = p, !.verdict = v] \in CallRecord
           /\ [r EXCEPT !.pc = p, !.answer = a] \in CallRecord
           /\ [r EXCEPT !.pc = p, !.verdict = v, !.wrote = TRUE] \in CallRecord
BY DEF CallRecord

LEMMA GotoEffect ==
    ASSUME StoresTypeOK, NEW c \in Call, call[c].pc # "new", NEW p \in Pc, Goto(c, p)
    PROVE  After(c, p, call[c].verdict, call[c].answer, call[c].wrote)
<1>1. call[c] \in CallRecord /\ call \in [Call -> {New} \cup CallRecord]
  BY CallBegun DEF StoresTypeOK, CallRecord
<1>2. call' = [call EXCEPT ![c] = [call[c] EXCEPT !.pc = p]]
  BY <1>1 DEF Goto
<1>3. [call[c] EXCEPT !.pc = p] \in CallRecord
  BY <1>1, RecordUpdate DEF CallRecord
<1> QED
  BY <1>1, <1>2, <1>3 DEF After, CallRecord

LEMMA ConcludeEffect ==
    ASSUME StoresTypeOK, NEW c \in Call, call[c].pc # "new", NEW v \in Status, Conclude(c, v)
    PROVE  After(c, "complete", v, call[c].answer, call[c].wrote)
<1>1. call[c] \in CallRecord /\ call \in [Call -> {New} \cup CallRecord]
  BY CallBegun DEF StoresTypeOK, CallRecord
<1>2. call' = [call EXCEPT ![c] = [call[c] EXCEPT !.pc = "complete", !.verdict = v]]
  BY <1>1 DEF Conclude
<1>3. [call[c] EXCEPT !.pc = "complete", !.verdict = v] \in CallRecord
  BY <1>1, RecordUpdate DEF Pc
<1> QED
  BY <1>1, <1>2, <1>3 DEF After, CallRecord

LEMMA AnswerEffect ==
    ASSUME StoresTypeOK, NEW c \in Call, call[c].pc # "new", NEW p \in Pc,
           NEW a \in Status \cup {None},
           call' = [call EXCEPT ![c].pc = p, ![c].answer = a]
    PROVE  After(c, p, call[c].verdict, a, call[c].wrote)
<1>1. call[c] \in CallRecord /\ call \in [Call -> {New} \cup CallRecord]
  BY CallBegun DEF StoresTypeOK, CallRecord
<1>2. call' = [call EXCEPT ![c] = [call[c] EXCEPT !.pc = p, !.answer = a]]
  BY <1>1
<1>3. [call[c] EXCEPT !.pc = p, !.answer = a] \in CallRecord
  BY <1>1, RecordUpdate DEF Status
<1> QED
  BY <1>1, <1>2, <1>3 DEF After, CallRecord

LEMMA WriteEffect ==
    ASSUME StoresTypeOK, NEW c \in Call, Write(c)
    PROVE  After(c, "complete", "ACCEPTED", call[c].answer, TRUE)
<1>1. call[c] \in CallRecord /\ call \in [Call -> {New} \cup CallRecord]
  BY CallBegun DEF StoresTypeOK, CallRecord, Write
<1>2. call' = [call EXCEPT ![c] = [call[c] EXCEPT !.pc = "complete", !.verdict = "ACCEPTED",
                                                  !.wrote = TRUE]]
  BY <1>1 DEF Write
<1>3. [call[c] EXCEPT !.pc = "complete", !.verdict = "ACCEPTED", !.wrote = TRUE] \in CallRecord
  BY <1>1, RecordUpdate DEF Pc, Status
<1> QED
  BY <1>1, <1>2, <1>3 DEF After, CallRecord

\* A fresh reservation goes on to check, to write, or to record a refusal.
LEMMA ProceedEffect ==
    ASSUME StoresTypeOK, NEW c \in Call, call[c].pc # "new",
           call' = [call EXCEPT ![c] = Proceed(c)]
    PROVE  \/ \E p \in {"check", "write"} :
                After(c, p, call[c].verdict, call[c].answer, call[c].wrote)
           \/ After(c, "complete", "REJECTED", call[c].answer, call[c].wrote)
<1>1. call[c] \in CallRecord /\ call \in [Call -> {New} \cup CallRecord]
  BY CallBegun DEF StoresTypeOK, CallRecord
<1>2. CASE \E p \in {"check", "write"} : Proceed(c) = [call[c] EXCEPT !.pc = p]
  <2>1. PICK p \in {"check", "write"} : Proceed(c) = [call[c] EXCEPT !.pc = p]
    BY <1>2
  <2>2. Goto(c, p)
    BY <1>1, <2>1 DEF Goto
  <2> QED
    BY <2>2, GotoEffect DEF Pc
<1>3. CASE Proceed(c) = [call[c] EXCEPT !.pc = "complete", !.verdict = "REJECTED"]
  <2>1. Conclude(c, "REJECTED")
    BY <1>1, <1>3 DEF Conclude
  <2> QED
    BY <2>1, ConcludeEffect DEF Status
<1> QED
  BY <1>2, <1>3 DEF Proceed

\* What the SELECT of a call that begins leaves: the call knows whether there is
\* a record of its request.
LookupEffect(c, s, k, p) ==
    /\ call' \in [Call -> {New} \cup CallRecord]
    /\ \A d \in Call \ {c} : call'[d] = call[d]
    /\ call'[c] \in CallRecord
    /\ call'[c].store = s
    /\ call'[c].key = k
    /\ call'[c].payload = p
    /\ call'[c].wrote = FALSE
    /\ call'[c].pc \in {"insert", "failed", "disown", "answered"}
    /\ call'[c].pc = "disown" => s = "ats"
    /\ call'[c].pc \in {"disown", "answered"} =>
          /\ idem[<<s, k>>] # None
          /\ idem[<<s, k>>].request = p
          /\ call'[c].answer = idem[<<s, k>>].status

LEMMA LookupStep ==
    ASSUME StoresTypeOK, NEW c \in Call, NEW s \in Store, NEW k \in Key, NEW p \in Payload,
           Lookup(c, s, k, p)
    PROVE  LookupEffect(c, s, k, p) /\ call[c] = New
<1> DEFINE found == idem[<<s, k>>]
           q == IF found = None THEN "insert"
                ELSE IF ~SameRequest(found, p) THEN "failed"
                ELSE IF s = "ats" /\ found.status = "RESERVED" THEN "disown"
                ELSE "answered"
           a == IF found # None /\ SameRequest(found, p) THEN found.status ELSE None
<1>1. call[c] = New
  BY DEF StoresTypeOK, Lookup, Pc
<1>2. call' = [call EXCEPT ![c] = [call[c] EXCEPT !.store = s, !.key = k, !.payload = p,
                                                  !.pc = q, !.answer = a]]
  BY DEF Lookup, StoresTypeOK
<1>3. found # None => found.status \in Status
  BY DEF StoresTypeOK, Record
<1>4. /\ q \in {"insert", "failed", "disown", "answered"}
      /\ a \in Status \cup {None}
      /\ q = "disown" => s = "ats"
      /\ q \in {"disown", "answered"} => found # None /\ found.request = p /\ a = found.status
  BY <1>3 DEF SameRequest
<1> HIDE DEF q, a, found
<1> DEFINE y == [call[c] EXCEPT !.store = s, !.key = k, !.payload = p, !.pc = q, !.answer = a]
<1>5. /\ y \in CallRecord
      /\ y.pc = q /\ y.store = s /\ y.key = k /\ y.payload = p /\ y.answer = a
      /\ y.wrote = FALSE
  <2>1. q \in Pc
    BY <1>4 DEF Pc
  <2>2. call[c] \in [pc : {"new"}, store : {None}, key : {None}, payload : {None},
                     verdict : Status, answer : {None}, wrote : {FALSE}]
    BY <1>1 DEF New, Status
  <2> QED
    BY <1>4, <2>1, <2>2 DEF CallRecord
<1>6. call \in [Call -> {New} \cup CallRecord]
  BY DEF StoresTypeOK, CallRecord
<1>7. call' = [call EXCEPT ![c] = y]
  BY <1>2
<1> HIDE DEF y
<1>8. LookupEffect(c, s, k, p)
  BY <1>4, <1>5, <1>6, <1>7 DEF LookupEffect, found
<1> QED
  BY <1>1, <1>8

\* A crash leaves every call its request and its write, and none in flight.
LEMMA CrashEffect ==
    ASSUME StoresTypeOK, Crash
    PROVE  /\ call' \in [Call -> {New} \cup CallRecord]
           /\ \A d \in Call :
                /\ call'[d].store = call[d].store
                /\ call'[d].key = call[d].key
                /\ call'[d].payload = call[d].payload
                /\ call'[d].answer = call[d].answer
                /\ call'[d].wrote = call[d].wrote
                /\ \/ call'[d].pc = call[d].pc /\ ~InFlight(d)
                   \/ call'[d].pc = "failed"
<1> DEFINE x(d) == IF InFlight(d) THEN [call[d] EXCEPT !.pc = "failed"] ELSE call[d]
<1>1. call' = [d \in Call |-> x(d)]
  BY DEF Crash
<1>2. ASSUME NEW d \in Call
      PROVE  /\ x(d) \in {New} \cup CallRecord
             /\ x(d).store = call[d].store
             /\ x(d).key = call[d].key
             /\ x(d).payload = call[d].payload
             /\ x(d).answer = call[d].answer
             /\ x(d).wrote = call[d].wrote
             /\ \/ x(d).pc = call[d].pc /\ ~InFlight(d)
                \/ x(d).pc = "failed"
  <2>1. CASE InFlight(d)
    <3>1. call[d] \in CallRecord
      BY <2>1, CallBegun DEF InFlight
    <3> QED
      BY <2>1, <3>1 DEF CallRecord, Pc
  <2>2. CASE ~InFlight(d)
    BY <2>2 DEF StoresTypeOK, CallRecord
  <2> QED
    BY <2>1, <2>2
<1> HIDE DEF x
<1> QED
  BY <1>1, <1>2

-----------------------------------------------------------------------------
(* The types *)

LEMMA InitStores == Init => StoresInv
<1> SUFFICES ASSUME Init PROVE StoresInv
  OBVIOUS
<1>1. \A c \in Call : call[c].pc = "new" /\ ~call[c].wrote /\ ~Owner(c) /\ ~Active(c)
  BY DEF Init, New, Owner, Active
<1>2. StoresTypeOK
  BY DEF Init, StoresTypeOK
<1> QED
  BY <1>1, <1>2 DEF Init, StoresInv, OwnerHolds, ActiveIsOpen, WriterIsPast, DisownerFound,
                    OutcomeIsTrue, ReplayIsMine

\* How the record of an open slot is settled, and one of a free slot made.
LEMMA SettleEffect ==
    ASSUME StoresTypeOK, NEW x \in Store \X Key, idem[x] # None, NEW v \in Status,
           idem' = [idem EXCEPT ![x].status = v]
    PROVE  /\ idem' \in [Store \X Key -> Record \cup {None}]
           /\ idem'[x] # None
           /\ idem'[x].request = idem[x].request
           /\ idem'[x].status = v
           /\ \A z \in (Store \X Key) \ {x} : idem'[z] = idem[z]
<1>1. idem[x] \in Record /\ idem \in [Store \X Key -> Record \cup {None}]
  BY DEF StoresTypeOK
<1>2. idem' = [idem EXCEPT ![x] = [idem[x] EXCEPT !.status = v]]
  BY <1>1
<1>3. /\ [idem[x] EXCEPT !.status = v] \in Record
      /\ [idem[x] EXCEPT !.status = v].request = idem[x].request
      /\ [idem[x] EXCEPT !.status = v].status = v
  BY <1>1 DEF Record
<1> QED
  BY <1>1, <1>2, <1>3

LEMMA ReserveEffect ==
    ASSUME StoresTypeOK, NEW c \in Call, call[c].pc # "new",
           idem' = [idem EXCEPT ![Slot(c)] = [request |-> call[c].payload, status |-> "RESERVED"]]
    PROVE  /\ idem' \in [Store \X Key -> Record \cup {None}]
           /\ idem'[Slot(c)] # None
           /\ idem'[Slot(c)].request = call[c].payload
           /\ idem'[Slot(c)].status = "RESERVED"
           /\ \A z \in (Store \X Key) \ {Slot(c)} : idem'[z] = idem[z]
<1>1. Slot(c) \in Store \X Key /\ call[c].payload \in Payload
  BY CallBegun DEF CallRecord
<1>2. [request |-> call[c].payload, status |-> "RESERVED"] \in Record
  BY <1>1 DEF Record, Status
<1>3. idem \in [Store \X Key -> Record \cup {None}]
  BY DEF StoresTypeOK
<1> HIDE DEF Slot
<1> QED
  BY <1>1, <1>2, <1>3

\* What a step of a call that has begun does to the call, by action.
LEMMA StepEffect ==
    ASSUME StoresTypeOK, NEW c \in Call, Step(c)
    PROVE  \/ \E s \in Store, k \in Key, p \in Payload : LookupEffect(c, s, k, p) /\ call[c] = New
           \/ /\ call[c].pc # "new"
              /\ \E p \in Pc, v \in Status, a \in Status \cup {None} :
                   \/ After(c, p, v, a, call[c].wrote)
                   \/ Write(c) /\ After(c, p, v, a, TRUE)
<1>1. ASSUME NEW s \in Store, NEW k \in Key, NEW p \in Payload, Lookup(c, s, k, p)
      PROVE  LookupEffect(c, s, k, p) /\ call[c] = New
  BY <1>1, LookupStep
<1> DEFINE Changed == \E p \in Pc, v \in Status, a \in Status \cup {None} :
                        \/ After(c, p, v, a, call[c].wrote)
                        \/ Write(c) /\ After(c, p, v, a, TRUE)
<1>2. ASSUME call[c].pc # "new" PROVE call[c].verdict \in Status /\ call[c].answer \in Status \cup {None}
  BY <1>2, CallBegun DEF CallRecord
<1>3. ASSUME call[c].pc # "new", NEW p \in Pc, Goto(c, p) PROVE Changed
  BY <1>2, <1>3, GotoEffect
<1>4. ASSUME call[c].pc # "new", NEW v \in Status, Conclude(c, v) PROVE Changed
  BY <1>2, <1>4, ConcludeEffect DEF Pc
<1>5. ASSUME call[c].pc # "new", call' = [call EXCEPT ![c] = Proceed(c)] PROVE Changed
  BY <1>2, <1>5, ProceedEffect DEF Pc, Status
<1>6. ASSUME call[c].pc # "new", NEW p \in Pc, NEW a \in Status \cup {None},
             call' = [call EXCEPT ![c].pc = p, ![c].answer = a]
      PROVE  Changed
  BY <1>2, <1>6, AnswerEffect
<1>7. ASSUME Write(c) PROVE call[c].pc # "new" /\ Changed
  <2>1. call[c].pc # "new"
    BY <1>7 DEF Write
  <2> QED
    BY <1>2, <1>7, <2>1, WriteEffect DEF Pc, Status
<1> HIDE DEF Changed
<1>8. ASSUME Insert(c) PROVE call[c].pc # "new" /\ Changed
  <2>1. call[c].pc # "new" /\ (Goto(c, "failed") \/ call' = [call EXCEPT ![c] = Proceed(c)])
    BY <1>8 DEF Insert
  <2> QED
    BY <1>3, <1>5, <2>1 DEF Pc
<1>9. ASSUME Disown(c) \/ Complete(c) PROVE call[c].pc # "new" /\ Changed
  <2>1. /\ call[c].pc # "new"
        /\ \E p \in {"answered", "failed"}, a \in {"SUBMISSION_UNVERIFIED", "ACCEPTED", None} :
             call' = [call EXCEPT ![c].pc = p, ![c].answer = a]
    BY <1>9 DEF Disown, Complete
  <2> QED
    BY <1>6, <2>1 DEF Pc, Status
<1>10. ASSUME Check(c) \/ WriteError(c) \/ CompleteError(c) PROVE call[c].pc # "new" /\ Changed
  <2>1. /\ call[c].pc # "new"
        /\ \/ \E v \in {"REJECTED", "SUBMISSION_UNVERIFIED"} : Conclude(c, v)
           \/ \E p \in {"write", "failed"} : Goto(c, p)
    BY <1>10 DEF Check, WriteError, CompleteError
  <2> QED
    BY <1>3, <1>4, <2>1 DEF Pc, Status
<1> QED
  BY <1>1, <1>7, <1>8, <1>9, <1>10 DEF Step, Changed

LEMMA StoresTypeStep ==
    ASSUME StoresInv, [Next]_vars
    PROVE  StoresTypeOK'
<1>t. StoresTypeOK
  BY DEF StoresInv
<1>r. CallRecord = [pc : Pc, store : Store, key : Key, payload : Payload,
                    verdict : Status, answer : Status \cup {None}, wrote : BOOLEAN]
  BY DEF CallRecord
<1>1. ASSUME NEW c \in Call, Step(c) PROVE StoresTypeOK'
  <2>1. call' \in [Call -> {New} \cup CallRecord]
    BY <1>t, <1>1, StepEffect DEF LookupEffect, After
  <2>2. crashes' = crashes
    BY <1>1 DEF Step, Lookup, Insert, Disown, Check, Write, WriteError, Complete, CompleteError
  <2>3. row' \in [Store \X Item -> Body \cup {None}]
    <3>1. CASE Write(c)
      <4>1. call[c].pc # "new"
        BY <3>1 DEF Write
      <4>2. Place(c) \in Store \X Item /\ call[c].payload.body \in Body
        BY <1>t, <4>1, CallBegun DEF CallRecord, Payload
      <4>3. row \in [Store \X Item -> Body \cup {None}]
        BY <1>t DEF StoresTypeOK
      <4>4. row' = [row EXCEPT ![Place(c)] = Stored(call[c].store, row[Place(c)], call[c].payload.body)]
        BY <3>1 DEF Write
      <4>5. Stored(call[c].store, row[Place(c)], call[c].payload.body) \in Body \cup {None}
        BY <4>2, <4>3 DEF Stored
      <4> QED
        BY <4>2, <4>3, <4>4, <4>5
    <3>2. CASE ~Write(c)
      <4>1. row' = row
        BY <1>1, <3>2 DEF Step, Lookup, Insert, Disown, Check, WriteError, Complete, CompleteError
      <4> QED
        BY <1>t, <4>1 DEF StoresTypeOK
    <3> QED
      BY <3>1, <3>2
  <2>4. idem' \in [Store \X Key -> Record \cup {None}]
    <3>1. CASE Insert(c) /\ idem[Slot(c)] = None
      <4>1. call[c].pc # "new"
        BY <3>1 DEF Insert
      <4>2. idem' = [idem EXCEPT ![Slot(c)] = [request |-> call[c].payload, status |-> "RESERVED"]]
        BY <3>1 DEF Insert
      <4> QED
        BY <1>t, <4>1, <4>2, ReserveEffect
    <3>2. CASE Disown(c)
      <4>1. call[c].pc = "disown" /\ idem[Slot(c)] # None
        BY <3>2 DEF Disown, StoresInv, DisownerFound
      <4>2. Slot(c) \in Store \X Key
        BY <1>t, <4>1, CallBegun
      <4> QED
        BY <1>t, <3>2, <4>1, <4>2, SettleEffect DEF Disown, Status
    <3>3. CASE Complete(c)
      <4>1. call[c].pc = "complete" /\ idem[Slot(c)] # None
        BY <3>3 DEF Complete, StoresInv, OwnerHolds, Owner, Active
      <4>2. Slot(c) \in Store \X Key /\ call[c].verdict \in Status
        BY <1>t, <4>1, CallBegun DEF CallRecord
      <4> QED
        BY <1>t, <3>3, <4>1, <4>2, SettleEffect DEF Complete
    <3>4. CASE idem' = idem
      BY <1>t, <3>4 DEF StoresTypeOK
    <3> QED
      BY <1>1, <3>1, <3>2, <3>3, <3>4
      DEF Step, Lookup, Insert, Check, Write, WriteError, CompleteError
  <2> QED
    BY <1>t, <1>r, <2>1, <2>2, <2>3, <2>4 DEF StoresTypeOK
<1>2. CASE Crash
  BY <1>t, <1>r, <1>2, CrashEffect DEF Crash, StoresTypeOK
<1>3. CASE UNCHANGED vars
  BY <1>t, <1>3 DEF vars, StoresTypeOK
<1> QED
  BY <1>1, <1>2, <1>3 DEF Next

-----------------------------------------------------------------------------
(* The records and the calls *)

\* OutcomeIsTrue, slot by slot.
Truth ==
    \A x \in Store \X Key : idem[x] # None =>
        /\ idem[x].status = "ACCEPTED" =>
              \E c \in Call : /\ call[c].wrote
                              /\ Slot(c) = x
                              /\ call[c].payload = idem[x].request
                              /\ row[Place(c)] # None
        /\ idem[x].status = "REJECTED" => \A c \in Call : call[c].wrote => Slot(c) # x

LEMMA OutcomeIsTruth == OutcomeIsTrue <=> Truth
<1>1. ASSUME OutcomeIsTrue, NEW s \in Store, NEW k \in Key, idem[<<s, k>>] # None
      PROVE  /\ idem[<<s, k>>].status = "ACCEPTED" =>
                  \E c \in Call : /\ call[c].wrote
                                  /\ Slot(c) = <<s, k>>
                                  /\ call[c].payload = idem[<<s, k>>].request
                                  /\ row[Place(c)] # None
             /\ idem[<<s, k>>].status = "REJECTED" =>
                  \A c \in Call : call[c].wrote => Slot(c) # <<s, k>>
  BY <1>1 DEF OutcomeIsTrue
<1>2. OutcomeIsTrue => Truth
  BY <1>1 DEF Truth
<1>3. Truth => OutcomeIsTrue
  BY DEF Truth, OutcomeIsTrue
<1> QED
  BY <1>2, <1>3

Relations == OwnerHolds /\ ActiveIsOpen /\ WriterIsPast /\ DisownerFound /\ Truth /\ ReplayIsMine

\* What every step of a call that has begun leaves of the calls' requests, and of
\* the other calls.
Quiet(c) ==
    /\ \A d \in Call : /\ Slot(d)' = Slot(d)
                       /\ Place(d)' = Place(d)
                       /\ call'[d].payload = call[d].payload
                       /\ call'[d].store = call[d].store
    /\ \A d \in Call \ {c} : /\ call'[d] = call[d]
                             /\ Active(d)' = Active(d)
                             /\ Owner(d)' = Owner(d)

LEMMA AfterQuiet ==
    ASSUME NEW c \in Call, NEW p, NEW v, NEW a, NEW w, After(c, p, v, a, w)
    PROVE  Quiet(c)
BY DEF After, Quiet, Slot, Place, Active, Owner

LEMMA LookupKeeps ==
    ASSUME StoresTypeOK, Relations, NEW c \in Call,
           NEW s \in Store, NEW k \in Key, NEW p \in Payload, Lookup(c, s, k, p)
    PROVE  Relations'
<1>1. LookupEffect(c, s, k, p) /\ call[c] = New /\ UNCHANGED <<idem, row>>
  BY LookupStep DEF Lookup
<1>2. ~call[c].wrote /\ ~call'[c].wrote /\ ~Owner(c)' /\ ~Active(c)'
  BY <1>1 DEF LookupEffect, New, Owner, Active
<1>3. \A d \in Call \ {c} : /\ call'[d] = call[d]
                            /\ Slot(d)' = Slot(d) /\ Place(d)' = Place(d)
                            /\ Active(d)' = Active(d) /\ Owner(d)' = Owner(d)
  BY <1>1 DEF LookupEffect, Slot, Place, Active, Owner
<1>4. <<s, k>> \in Store \X Key /\ Slot(c)' = <<s, k>>
  BY <1>1 DEF LookupEffect, Slot
<1>5. OwnerHolds' /\ ActiveIsOpen' /\ WriterIsPast'
  BY <1>1, <1>2, <1>3 DEF Relations, OwnerHolds, ActiveIsOpen, WriterIsPast
<1>6. DisownerFound'
  BY <1>1, <1>3, <1>4 DEF Relations, DisownerFound, LookupEffect
<1>7. Truth'
  BY <1>1, <1>2, <1>3 DEF Relations, Truth
<1>8. ReplayIsMine'
  <2> SUFFICES ASSUME NEW d \in Call, call'[d].pc = "answered", call'[d].answer = "ACCEPTED"
               PROVE  \E e \in Call : /\ call'[e].wrote
                                      /\ Slot(e)' = Slot(d)'
                                      /\ call'[e].payload = call'[d].payload
    BY DEF ReplayIsMine
  <2>1. CASE d = c
    <3>1. PICK e \in Call : /\ call[e].wrote
                            /\ Slot(e) = <<s, k>>
                            /\ call[e].payload = idem[<<s, k>>].request
      BY <1>1, <1>4, <2>1 DEF LookupEffect, Relations, Truth
    <3> QED
      BY <1>1, <1>2, <1>3, <1>4, <2>1, <3>1 DEF LookupEffect
  <2>2. CASE d # c
    <3>1. PICK e \in Call : /\ call[e].wrote
                            /\ Slot(e) = Slot(d)
                            /\ call[e].payload = call[d].payload
      BY <1>3, <2>2 DEF Relations, ReplayIsMine
    <3> QED
      BY <1>2, <1>3, <2>2, <3>1
  <2> QED
    BY <2>1, <2>2
<1> QED
  BY <1>5, <1>6, <1>7, <1>8 DEF Relations

\* A step that changes neither a record nor a row, and whose call neither begins
\* nor writes.
LEMMA WaitKeeps ==
    ASSUME StoresTypeOK, Relations, NEW c \in Call,
           NEW p \in Pc, NEW v \in Status, NEW a \in Status \cup {None},
           After(c, p, v, a, call[c].wrote), UNCHANGED <<idem, row>>,
           p \in {"complete", "write"} => Active(c),
           p = "complete" => v # "RESERVED" /\ (v = "ACCEPTED" => call[c].wrote)
                                            /\ (v = "REJECTED" => ~call[c].wrote),
           p \in {"write", "complete", "failed"},
           p = "write" => ~call[c].wrote
    PROVE  Relations'
<1>1. Quiet(c)
  BY AfterQuiet
<1>2. Owner(c)' => Owner(c)
  BY DEF After, Owner, Active
<1>3. Active(c)' => Active(c)
  BY DEF After, Active
<1>4. OwnerHolds'
  BY <1>1, <1>2 DEF Quiet, Relations, OwnerHolds
<1>5. ActiveIsOpen'
  BY <1>1, <1>3 DEF Quiet, Relations, ActiveIsOpen, After
<1>6. WriterIsPast'
  BY <1>1 DEF Quiet, Relations, WriterIsPast, After
<1>7. DisownerFound'
  BY <1>1 DEF Quiet, Relations, DisownerFound, After
<1>8. \A d \in Call : call'[d].wrote = call[d].wrote
  BY DEF After
<1>9. Truth'
  BY <1>1, <1>8 DEF Quiet, Relations, Truth
<1>10. ReplayIsMine'
  BY <1>1, <1>8 DEF Quiet, Relations, ReplayIsMine, After
<1> QED
  BY <1>4, <1>5, <1>6, <1>7, <1>9, <1>10 DEF Relations

LEMMA WaitStepKeeps ==
    ASSUME StoresTypeOK, Relations, NEW c \in Call,
           Check(c) \/ WriteError(c) \/ CompleteError(c)
    PROVE  Relations'
<1>1. UNCHANGED <<idem, row>> /\ call[c].pc # "new"
  BY DEF Check, WriteError, CompleteError
<1>2. call[c].verdict \in Status /\ call[c].answer \in Status \cup {None}
  BY <1>1, CallBegun DEF CallRecord
<1>3. call[c].pc \in {"check", "write"} => ~call[c].wrote
  BY DEF Relations, WriterIsPast
<1>4. CASE Goto(c, "failed")
  <2>1. After(c, "failed", call[c].verdict, call[c].answer, call[c].wrote)
    BY <1>1, <1>4, GotoEffect DEF Pc
  <2> QED
    BY <1>1, <1>2, <2>1, WaitKeeps DEF Pc
<1>5. CASE Goto(c, "write") /\ call[c].pc = "check"
  <2>1. After(c, "write", call[c].verdict, call[c].answer, call[c].wrote)
    BY <1>1, <1>5, GotoEffect DEF Pc
  <2>2. Active(c)
    BY <1>5 DEF Active
  <2> QED
    BY <1>1, <1>2, <1>3, <1>5, <2>1, <2>2, WaitKeeps DEF Pc
<1>6. CASE \/ Conclude(c, "REJECTED") /\ call[c].pc = "check"
           \/ Conclude(c, "SUBMISSION_UNVERIFIED") /\ call[c].pc \in {"check", "write", "complete"}
  <2>1. PICK v \in {"REJECTED", "SUBMISSION_UNVERIFIED"} :
          Conclude(c, v) /\ (v = "REJECTED" => call[c].pc = "check")
    BY <1>6
  <2>2. After(c, "complete", v, call[c].answer, call[c].wrote)
    BY <1>1, <2>1, ConcludeEffect DEF Status
  <2>3. Active(c)
    BY <1>6 DEF Active
  <2>4. v \in Status
    BY DEF Status
  <2> QED
    BY <1>1, <1>2, <1>3, <2>1, <2>2, <2>3, <2>4, WaitKeeps DEF Pc
<1> QED
  BY <1>4, <1>5, <1>6 DEF Check, WriteError, CompleteError

LEMMA InsertKeeps ==
    ASSUME StoresTypeOK, Relations, NEW c \in Call, Insert(c)
    PROVE  Relations'
<1>1. /\ call[c].pc = "insert" /\ UNCHANGED row
      /\ call[c].verdict \in Status /\ call[c].answer \in Status \cup {None}
      /\ call[c].payload \in Payload /\ call[c].store \in Store
      /\ Slot(c) \in Store \X Key
  <2>1. call[c].pc = "insert" /\ UNCHANGED row
    BY DEF Insert
  <2> QED
    BY <2>1, CallBegun DEF CallRecord
<1>2. CASE idem[Slot(c)] # None
  <2>1. Goto(c, "failed") /\ UNCHANGED idem
    BY <1>2 DEF Insert
  <2>2. After(c, "failed", call[c].verdict, call[c].answer, call[c].wrote)
    BY <1>1, <2>1, GotoEffect DEF Pc
  <2> QED
    BY <1>1, <2>1, <2>2, WaitKeeps DEF Pc
<1>3. CASE idem[Slot(c)] = None
  <2>1. /\ idem' = [idem EXCEPT ![Slot(c)] = [request |-> call[c].payload, status |-> "RESERVED"]]
        /\ call' = [call EXCEPT ![c] = Proceed(c)]
    BY <1>3 DEF Insert
  <2>2. /\ idem'[Slot(c)] # None
        /\ idem'[Slot(c)].request = call[c].payload
        /\ idem'[Slot(c)].status = "RESERVED"
        /\ \A z \in (Store \X Key) \ {Slot(c)} : idem'[z] = idem[z]
    BY <1>1, <2>1, ReserveEffect
  <2>3. ~call[c].wrote
    BY <1>1 DEF Relations, WriterIsPast
  <2>4. PICK p \in {"check", "write", "complete"}, v \in Status :
          /\ After(c, p, v, call[c].answer, call[c].wrote)
          /\ p = "complete" => v = "REJECTED"
    BY <1>1, <2>1, ProceedEffect DEF Status
  <2>5. Quiet(c)
    BY <2>4, AfterQuiet
  <2>6. \A d \in Call : Owner(d) => Slot(d) # Slot(c) /\ Slot(d) \in Store \X Key
    <3>1. ASSUME NEW d \in Call, Owner(d) PROVE call[d].pc # "new"
      BY <3>1 DEF Relations, WriterIsPast, Owner, Active
    <3>2. \A d \in Call : Owner(d) => idem[Slot(d)] # None
      BY DEF Relations, OwnerHolds
    <3> QED
      BY <1>3, <3>1, <3>2, CallBegun
  <2>7. \A d \in Call : call[d].wrote => Owner(d)
    BY DEF Owner
  <2>8. \A d \in Call : call'[d].wrote = call[d].wrote
    BY <2>4 DEF After
  <2>9. OwnerHolds'
    <3>1. ASSUME NEW d \in Call, Owner(d)'
          PROVE  idem'[Slot(d)'] # None /\ idem'[Slot(d)'].request = call'[d].payload
      <4>1. CASE d = c
        BY <2>2, <2>5, <4>1 DEF Quiet
      <4>2. CASE d # c
        BY <2>2, <2>5, <2>6, <3>1, <4>2 DEF Quiet, Relations, OwnerHolds
      <4> QED
        BY <4>1, <4>2
    <3>2. ASSUME NEW d \in Call, NEW e \in Call, Owner(d)', Owner(e)', Slot(d)' = Slot(e)'
          PROVE  d = e
      BY <2>5, <2>6, <3>2 DEF Quiet, Relations, OwnerHolds
    <3> QED
      BY <3>1, <3>2 DEF OwnerHolds
  <2>10. ActiveIsOpen'
    <3> SUFFICES ASSUME NEW d \in Call, Active(d)'
                 PROVE  /\ \/ idem'[Slot(d)'].status = "RESERVED"
                           \/ call'[d].store = "ats" /\ idem'[Slot(d)'].status = "SUBMISSION_UNVERIFIED"
                        /\ call'[d].pc = "complete" =>
                              /\ call'[d].verdict # "RESERVED"
                              /\ call'[d].verdict = "ACCEPTED" => call'[d].wrote
                              /\ call'[d].verdict = "REJECTED" => ~call'[d].wrote
      BY DEF ActiveIsOpen
    <3>1. CASE d = c
      BY <2>2, <2>3, <2>4, <2>5, <3>1 DEF Quiet, After
    <3>2. CASE d # c
      <4>1. Active(d) /\ Owner(d)
        BY <2>5, <3>2 DEF Quiet, Owner
      <4> QED
        BY <2>2, <2>5, <2>6, <3>2, <4>1 DEF Quiet, Relations, ActiveIsOpen
    <3> QED
      BY <3>1, <3>2
  <2>11. WriterIsPast'
    BY <1>1, <2>3, <2>5, <2>8 DEF Quiet, Relations, WriterIsPast
  <2>12. DisownerFound'
    <3> SUFFICES ASSUME NEW d \in Call, call'[d].pc = "disown"
                 PROVE  /\ call'[d].store = "ats"
                        /\ idem'[Slot(d)'] # None
                        /\ idem'[Slot(d)'].request = call'[d].payload
      BY DEF DisownerFound
    <3>1. d # c
      BY <2>4 DEF After
    <3>2. call[d].pc = "disown"
      BY <2>5, <3>1 DEF Quiet
    <3>3. Slot(d) \in Store \X Key /\ Slot(d) # Slot(c)
      BY <1>3, <3>2, CallBegun DEF Relations, DisownerFound
    <3> QED
      BY <2>2, <2>5, <3>1, <3>2, <3>3 DEF Quiet, Relations, DisownerFound
  <2>13. Truth'
    <3> SUFFICES ASSUME NEW x \in Store \X Key, idem'[x] # None, x # Slot(c)
                 PROVE  /\ idem'[x].status = "ACCEPTED" =>
                              \E d \in Call : /\ call'[d].wrote
                                              /\ Slot(d)' = x
                                              /\ call'[d].payload = idem'[x].request
                                              /\ row'[Place(d)'] # None
                        /\ idem'[x].status = "REJECTED" => \A d \in Call : call'[d].wrote => Slot(d)' # x
      BY <2>2 DEF Truth
    <3> QED
      BY <1>1, <2>2, <2>5, <2>8 DEF Quiet, Relations, Truth
  <2>14. ReplayIsMine'
    BY <2>4, <2>5, <2>8 DEF Quiet, Relations, ReplayIsMine, After
  <2> QED
    BY <2>9, <2>10, <2>11, <2>12, <2>13, <2>14 DEF Relations
<1> QED
  BY <1>2, <1>3

LEMMA DisownKeeps ==
    ASSUME StoresTypeOK, Relations, NEW c \in Call, Disown(c)
    PROVE  Relations'
<1>1. /\ call[c].pc = "disown" /\ UNCHANGED row
      /\ idem[Slot(c)] # None /\ idem[Slot(c)].request = call[c].payload
      /\ call[c].store = "ats"
      /\ Slot(c) \in Store \X Key
      /\ call[c].verdict \in Status
      /\ ~call[c].wrote
  <2>1. call[c].pc = "disown" /\ UNCHANGED row
    BY DEF Disown
  <2> QED
    BY <2>1, CallBegun DEF Relations, DisownerFound, WriterIsPast, CallRecord
<1>2. After(c, "answered", call[c].verdict, "SUBMISSION_UNVERIFIED", call[c].wrote)
  BY <1>1, AnswerEffect DEF Disown, Pc, Status
<1>3. /\ \A z \in (Store \X Key) \ {Slot(c)} : idem'[z] = idem[z]
      /\ idem'[Slot(c)] # None
      /\ idem'[Slot(c)].request = idem[Slot(c)].request
      /\ idem'[Slot(c)].status = "SUBMISSION_UNVERIFIED"
  BY <1>1, SettleEffect DEF Disown, Status
<1>4. Quiet(c)
  BY <1>2, AfterQuiet
<1>5. /\ ~Owner(c)' /\ ~Active(c)'
      /\ \A d \in Call : call'[d].wrote = call[d].wrote
  BY <1>1, <1>2 DEF After, Owner, Active
<1>6. \A d \in Call : call[d].pc # "new" => Slot(d) \in Store \X Key
  BY CallBegun
<1>7. OwnerHolds'
  <2>1. ASSUME NEW d \in Call, Owner(d)'
        PROVE  /\ d # c /\ Owner(d)
               /\ idem'[Slot(d)'] # None /\ idem'[Slot(d)'].request = call'[d].payload
    <3>1. d # c /\ Owner(d)
      BY <1>4, <1>5, <2>1 DEF Quiet
    <3>2. call[d].pc # "new"
      BY <3>1 DEF Owner, Active, Relations, WriterIsPast
    <3> QED
      BY <1>3, <1>4, <1>6, <3>1, <3>2 DEF Quiet, Relations, OwnerHolds
  <2> QED
    BY <1>4, <2>1 DEF Quiet, Relations, OwnerHolds
<1>8. ActiveIsOpen'
  <2> SUFFICES ASSUME NEW d \in Call, Active(d)'
               PROVE  /\ \/ idem'[Slot(d)'].status = "RESERVED"
                         \/ call'[d].store = "ats" /\ idem'[Slot(d)'].status = "SUBMISSION_UNVERIFIED"
                      /\ call'[d].pc = "complete" =>
                            /\ call'[d].verdict # "RESERVED"
                            /\ call'[d].verdict = "ACCEPTED" => call'[d].wrote
                            /\ call'[d].verdict = "REJECTED" => ~call'[d].wrote
    BY DEF ActiveIsOpen
  <2>1. d # c /\ Active(d) /\ call'[d] = call[d] /\ Slot(d)' = Slot(d)
    BY <1>4, <1>5 DEF Quiet
  <2>2. call[d].pc # "new"
    BY <2>1 DEF Active
  <2>3. Slot(d) = Slot(c) => call[d].store = "ats"
    BY <1>1 DEF Slot
  <2> QED
    BY <1>3, <1>6, <2>1, <2>2, <2>3 DEF Relations, ActiveIsOpen
<1>9. WriterIsPast'
  BY <1>1, <1>4, <1>5 DEF Quiet, Relations, WriterIsPast
<1>10. DisownerFound'
  <2> SUFFICES ASSUME NEW d \in Call, call'[d].pc = "disown"
               PROVE  /\ call'[d].store = "ats"
                      /\ idem'[Slot(d)'] # None
                      /\ idem'[Slot(d)'].request = call'[d].payload
    BY DEF DisownerFound
  <2>1. d # c /\ call'[d] = call[d] /\ Slot(d)' = Slot(d)
    BY <1>2, <1>4 DEF Quiet, After
  <2> QED
    BY <1>3, <1>6, <2>1 DEF Relations, DisownerFound
<1>11. Truth'
  BY <1>1, <1>3, <1>4, <1>5 DEF Quiet, Relations, Truth
<1>12. ReplayIsMine'
  <2>1. \A d \in Call : (call'[d].pc = "answered" /\ call'[d].answer = "ACCEPTED") =>
          call[d].pc = "answered" /\ call[d].answer = "ACCEPTED"
    BY <1>2 DEF After
  <2> QED
    BY <1>4, <1>5, <2>1 DEF Quiet, Relations, ReplayIsMine
<1> QED
  BY <1>7, <1>8, <1>9, <1>10, <1>11, <1>12 DEF Relations

LEMMA WriteKeeps ==
    ASSUME StoresTypeOK, Relations, NEW c \in Call, Write(c)
    PROVE  Relations'
<1>1. /\ call[c].pc = "write" /\ UNCHANGED idem
      /\ Active(c) /\ Owner(c)
      /\ Slot(c) \in Store \X Key
      /\ Place(c) \in Store \X Item
      /\ call[c].payload.body \in Body
  <2>1. call[c].pc = "write" /\ UNCHANGED idem
    BY DEF Write
  <2> QED
    BY <2>1, CallBegun DEF Active, Owner, CallRecord, Payload
<1>2. After(c, "complete", "ACCEPTED", call[c].answer, TRUE)
  BY WriteEffect
<1>3. Quiet(c)
  BY <1>2, AfterQuiet
<1>4. /\ row'[Place(c)] # None
      /\ \A x \in Store \X Item : row[x] # None => row'[x] # None
  <2>1. row \in [Store \X Item -> Body \cup {None}]
    BY DEF StoresTypeOK
  <2>2. row' = [row EXCEPT ![Place(c)] = Stored(call[c].store, row[Place(c)], call[c].payload.body)]
    BY DEF Write
  <2>3. Stored(call[c].store, row[Place(c)], call[c].payload.body) # None
    BY <1>1 DEF Stored
  <2> QED
    BY <1>1, <2>1, <2>2, <2>3
<1>5. \A d \in Call : call[d].wrote => call'[d].wrote /\ Place(d) \in Store \X Item
  <2>1. ASSUME NEW d \in Call, call[d].wrote PROVE call[d].pc # "new"
    BY <2>1 DEF Relations, WriterIsPast
  <2> QED
    BY <1>2, <2>1, CallBegun DEF After
<1>6. \A d \in Call : Owner(d)' => Owner(d)
  BY <1>1, <1>3 DEF Quiet
<1>7. OwnerHolds'
  BY <1>1, <1>3, <1>6 DEF Quiet, Relations, OwnerHolds
<1>8. ActiveIsOpen'
  BY <1>1, <1>2, <1>3 DEF Quiet, Relations, ActiveIsOpen, After
<1>9. WriterIsPast'
  <2> SUFFICES ASSUME NEW d \in Call, call'[d].wrote
               PROVE  /\ call'[d].pc \in {"complete", "answered", "failed"}
                      /\ row'[Place(d)'] # None
    BY DEF WriterIsPast
  <2>1. CASE d = c
    BY <1>2, <1>3, <1>4, <2>1 DEF Quiet, After
  <2>2. CASE d # c
    BY <1>3, <1>4, <1>5, <2>2 DEF Quiet, Relations, WriterIsPast
  <2> QED
    BY <2>1, <2>2
<1>10. DisownerFound'
  BY <1>1, <1>2, <1>3 DEF Quiet, Relations, DisownerFound, After
<1>11. Truth'
  <2> SUFFICES ASSUME NEW x \in Store \X Key, idem[x] # None
               PROVE  /\ idem[x].status = "ACCEPTED" =>
                            \E d \in Call : /\ call'[d].wrote
                                            /\ Slot(d)' = x
                                            /\ call'[d].payload = idem[x].request
                                            /\ row'[Place(d)'] # None
                      /\ idem[x].status = "REJECTED" => \A d \in Call : call'[d].wrote => Slot(d)' # x
    BY <1>1 DEF Truth
  <2>1. ASSUME idem[x].status = "ACCEPTED"
        PROVE  \E d \in Call : /\ call'[d].wrote
                               /\ Slot(d)' = x
                               /\ call'[d].payload = idem[x].request
                               /\ row'[Place(d)'] # None
    <3>1. PICK d \in Call : /\ call[d].wrote
                            /\ Slot(d) = x
                            /\ call[d].payload = idem[x].request
                            /\ row[Place(d)] # None
      BY <2>1 DEF Relations, Truth
    <3> QED
      BY <1>3, <1>4, <1>5, <3>1 DEF Quiet
  <2>2. ASSUME idem[x].status = "REJECTED", NEW d \in Call, call'[d].wrote
        PROVE  Slot(d)' # x
    <3>1. CASE d = c
      BY <1>1, <1>3, <2>2, <3>1 DEF Quiet, Relations, ActiveIsOpen
    <3>2. CASE d # c
      BY <1>3, <2>2, <3>2 DEF Quiet, Relations, Truth
    <3> QED
      BY <3>1, <3>2
  <2> QED
    BY <2>1, <2>2
<1>12. ReplayIsMine'
  <2>1. \A d \in Call : (call'[d].pc = "answered" /\ call'[d].answer = "ACCEPTED") =>
          call[d].pc = "answered" /\ call[d].answer = "ACCEPTED"
    BY <1>2 DEF After
  <2> QED
    BY <1>3, <1>5, <2>1 DEF Quiet, Relations, ReplayIsMine
<1> QED
  BY <1>7, <1>8, <1>9, <1>10, <1>11, <1>12 DEF Relations

LEMMA CompleteKeeps ==
    ASSUME StoresTypeOK, Relations, NEW c \in Call, Complete(c)
    PROVE  Relations'
<1>1. /\ call[c].pc = "complete" /\ UNCHANGED row
      /\ Active(c) /\ Owner(c)
      /\ Slot(c) \in Store \X Key
      /\ call[c].verdict \in Status
      /\ idem[Slot(c)] # None /\ idem[Slot(c)].request = call[c].payload
  <2>1. call[c].pc = "complete" /\ UNCHANGED row
    BY DEF Complete
  <2>2. Active(c) /\ Owner(c)
    BY <2>1 DEF Active, Owner
  <2> QED
    BY <2>1, <2>2, CallBegun DEF CallRecord, Relations, OwnerHolds
<1>2. PICK p \in {"answered", "failed"}, a \in Status \cup {None} :
        /\ After(c, p, call[c].verdict, a, call[c].wrote)
        /\ p = "answered" => call[c].verdict = "ACCEPTED"
  <2>1. CASE call[c].verdict = "ACCEPTED"
    <3>1. call' = [call EXCEPT ![c].pc = "answered", ![c].answer = "ACCEPTED"]
      BY <2>1 DEF Complete
    <3> QED
      BY <1>1, <2>1, <3>1, AnswerEffect DEF Pc, Status
  <2>2. CASE call[c].verdict # "ACCEPTED"
    <3>1. call' = [call EXCEPT ![c].pc = "failed", ![c].answer = None]
      BY <2>2 DEF Complete
    <3> QED
      BY <1>1, <3>1, AnswerEffect DEF Pc
  <2> QED
    BY <2>1, <2>2
<1>3. /\ \A z \in (Store \X Key) \ {Slot(c)} : idem'[z] = idem[z]
      /\ idem'[Slot(c)] # None
      /\ idem'[Slot(c)].request = idem[Slot(c)].request
      /\ idem'[Slot(c)].status = call[c].verdict
  <2> DEFINE v == call[c].verdict
             x == Slot(c)
  <2>1. idem' = [idem EXCEPT ![x].status = v]
    BY DEF Complete
  <2>2. v \in Status /\ x \in Store \X Key /\ idem[x] # None
    BY <1>1
  <2> HIDE DEF v, x
  <2>3. /\ \A z \in (Store \X Key) \ {x} : idem'[z] = idem[z]
        /\ idem'[x] # None
        /\ idem'[x].request = idem[x].request
        /\ idem'[x].status = v
    BY <2>1, <2>2, SettleEffect
  <2> QED
    BY <2>3 DEF v, x
<1>4. Quiet(c)
  BY <1>2, AfterQuiet
<1>5. /\ ~Active(c)'
      /\ \A d \in Call : call'[d].wrote = call[d].wrote
  BY <1>2 DEF After, Active
<1>6. \A d \in Call : call[d].pc # "new" => Slot(d) \in Store \X Key
  BY CallBegun
<1>7. \A d \in Call : Owner(d)' => Owner(d)
  BY <1>1, <1>4 DEF Quiet
<1>8. \A d \in Call : Owner(d) => call[d].pc # "new"
  BY DEF Owner, Active, Relations, WriterIsPast
<1>9. OwnerHolds'
  <2>1. ASSUME NEW d \in Call, Owner(d)
        PROVE  idem'[Slot(d)] # None /\ idem'[Slot(d)].request = call[d].payload
    BY <1>1, <1>3, <1>6, <1>8, <2>1 DEF Relations, OwnerHolds
  <2> QED
    BY <1>4, <1>7, <2>1 DEF Quiet, Relations, OwnerHolds
<1>10. ActiveIsOpen'
  <2> SUFFICES ASSUME NEW d \in Call, Active(d)'
               PROVE  /\ \/ idem'[Slot(d)'].status = "RESERVED"
                         \/ call'[d].store = "ats" /\ idem'[Slot(d)'].status = "SUBMISSION_UNVERIFIED"
                      /\ call'[d].pc = "complete" =>
                            /\ call'[d].verdict # "RESERVED"
                            /\ call'[d].verdict = "ACCEPTED" => call'[d].wrote
                            /\ call'[d].verdict = "REJECTED" => ~call'[d].wrote
    BY DEF ActiveIsOpen
  <2>1. d # c /\ Active(d) /\ call'[d] = call[d] /\ Slot(d)' = Slot(d)
    BY <1>4, <1>5 DEF Quiet
  <2>2. Owner(d) /\ Slot(d) # Slot(c) /\ Slot(d) \in Store \X Key
    BY <1>1, <1>6, <1>8, <2>1 DEF Owner, Relations, OwnerHolds
  <2> QED
    BY <1>3, <2>1, <2>2 DEF Relations, ActiveIsOpen
<1>11. WriterIsPast'
  BY <1>1, <1>2, <1>4, <1>5 DEF Quiet, After, Relations, WriterIsPast
<1>12. DisownerFound'
  <2> SUFFICES ASSUME NEW d \in Call, call'[d].pc = "disown"
               PROVE  /\ call'[d].store = "ats"
                      /\ idem'[Slot(d)'] # None
                      /\ idem'[Slot(d)'].request = call'[d].payload
    BY DEF DisownerFound
  <2>1. d # c /\ call'[d] = call[d] /\ Slot(d)' = Slot(d)
    BY <1>2, <1>4 DEF Quiet, After
  <2> QED
    BY <1>1, <1>3, <1>6, <2>1 DEF Relations, DisownerFound
<1>13. Truth'
  <2> SUFFICES ASSUME NEW x \in Store \X Key, idem'[x] # None
               PROVE  /\ idem'[x].status = "ACCEPTED" =>
                            \E d \in Call : /\ call'[d].wrote
                                            /\ Slot(d)' = x
                                            /\ call'[d].payload = idem'[x].request
                                            /\ row'[Place(d)'] # None
                      /\ idem'[x].status = "REJECTED" => \A d \in Call : call'[d].wrote => Slot(d)' # x
    BY DEF Truth
  <2>1. CASE x # Slot(c)
    BY <1>1, <1>3, <1>4, <1>5, <2>1 DEF Quiet, Relations, Truth
  <2>2. CASE x = Slot(c)
    <3>1. call[c].verdict = "ACCEPTED" => call[c].wrote /\ row[Place(c)] # None
      BY <1>1 DEF Relations, ActiveIsOpen, WriterIsPast
    <3>2. call[c].verdict = "REJECTED" => ~call[c].wrote
      BY <1>1 DEF Relations, ActiveIsOpen
    <3>3. \A d \in Call : call[d].wrote /\ Slot(d) = Slot(c) => d = c
      BY <1>1 DEF Relations, OwnerHolds, Owner
    <3> QED
      BY <1>1, <1>3, <1>4, <1>5, <2>2, <3>1, <3>2, <3>3 DEF Quiet
  <2> QED
    BY <2>1, <2>2
<1>14. ReplayIsMine'
  <2> SUFFICES ASSUME NEW d \in Call, call'[d].pc = "answered", call'[d].answer = "ACCEPTED"
               PROVE  \E e \in Call : /\ call'[e].wrote
                                      /\ Slot(e)' = Slot(d)'
                                      /\ call'[e].payload = call'[d].payload
    BY DEF ReplayIsMine
  <2>1. CASE d = c
    <3>1. call[c].wrote
      BY <1>1, <1>2, <2>1 DEF After, Relations, ActiveIsOpen
    <3> QED
      BY <1>5, <2>1, <3>1
  <2>2. CASE d # c
    BY <1>4, <1>5, <2>2 DEF Quiet, Relations, ReplayIsMine
  <2> QED
    BY <2>1, <2>2
<1> QED
  BY <1>9, <1>10, <1>11, <1>12, <1>13, <1>14 DEF Relations

LEMMA CrashKeeps ==
    ASSUME StoresTypeOK, Relations, Crash
    PROVE  Relations'
<1>1. UNCHANGED <<idem, row>>
  BY DEF Crash
<1>2. \A d \in Call : /\ Slot(d)' = Slot(d) /\ Place(d)' = Place(d)
                      /\ call'[d].payload = call[d].payload
                      /\ call'[d].wrote = call[d].wrote
                      /\ call'[d].answer = call[d].answer
                      /\ ~Active(d)'
                      /\ \/ call'[d].pc = call[d].pc /\ ~InFlight(d)
                         \/ call'[d].pc = "failed"
  BY CrashEffect DEF Slot, Place, Active, InFlight
<1>3. \A d \in Call : Owner(d)' => Owner(d)
  BY <1>2 DEF Owner
<1>4. OwnerHolds' /\ ActiveIsOpen'
  BY <1>1, <1>2, <1>3 DEF Relations, OwnerHolds, ActiveIsOpen
<1>5. WriterIsPast' /\ DisownerFound'
  BY <1>1, <1>2 DEF Relations, WriterIsPast, DisownerFound, InFlight
<1>6. Truth'
  BY <1>1, <1>2 DEF Relations, Truth
<1>7. ReplayIsMine'
  BY <1>2 DEF Relations, ReplayIsMine
<1> QED
  BY <1>4, <1>5, <1>6, <1>7 DEF Relations

LEMMA StoresStep == StoresInv /\ [Next]_vars => StoresInv'
<1> SUFFICES ASSUME StoresInv, [Next]_vars PROVE StoresInv'
  OBVIOUS
<1>1. StoresTypeOK /\ Relations
  BY OutcomeIsTruth DEF StoresInv, Relations
<1>2. StoresTypeOK'
  BY StoresTypeStep
<1>3. Relations'
  <2>1. ASSUME NEW c \in Call, Step(c) PROVE Relations'
    BY <1>1, <2>1, LookupKeeps, InsertKeeps, DisownKeeps, WaitStepKeeps, WriteKeeps, CompleteKeeps
    DEF Step
  <2>2. CASE UNCHANGED vars
    BY <1>1, <2>2 DEF vars, Relations, OwnerHolds, ActiveIsOpen, WriterIsPast, DisownerFound,
                      Truth, ReplayIsMine, Owner, Active, Slot, Place
  <2> QED
    BY <1>1, <2>1, <2>2, CrashKeeps DEF Next
<1>4. OutcomeIsTrue' <=> Truth'
  BY OutcomeIsTruth, PTL
<1> QED
  BY <1>2, <1>3, <1>4 DEF StoresInv, Relations

-----------------------------------------------------------------------------
(* The theorems *)

LEMMA StoresInvariance == Spec => []StoresInv
<1> QED
  BY InitStores, StoresStep, PTL DEF Spec

\* Every variable keeps its type: the idempotency and item tables of the three
\* stores are well formed whatever calls, errors and restarts have happened.
THEOREM StoresTypeCorrect == Spec => []StoresTypeOK
<1>1. StoresInv => StoresTypeOK
  BY DEF StoresInv
<1> QED
  BY <1>1, StoresInvariance, PTL

\* Of the calls that carry one idempotency key at most one commits its row: the
\* primary key admits one INSERT, and neither an error nor a disowning retry
\* frees the key for another.
THEOREM KeysWriteOnce == Spec => []OneWritePerKey
<1>1. StoresInv => OneWritePerKey
  BY DEF StoresInv, OwnerHolds, Owner, OneWritePerKey
<1> QED
  BY <1>1, StoresInvariance, PTL

\* An ACCEPTED or REJECTED record is true of the item table, whoever wrote it
\* and in whichever order completions and disowning retries came.
THEOREM OutcomesAreTrue == Spec => []OutcomeIsTrue
<1>1. StoresInv => OutcomeIsTrue
  BY DEF StoresInv
<1> QED
  BY <1>1, StoresInvariance, PTL

\* A caller that is answered ACCEPTED, by its own completion or by a replay, is
\* answered for a write of its own payload.
THEOREM ReplaysAreMine == Spec => []ReplayIsMine
<1>1. StoresInv => ReplayIsMine
  BY DEF StoresInv
<1> QED
  BY <1>1, StoresInvariance, PTL

\* INSERT OR IGNORE never replaces an ATS row or a model approval, also when two
\* calls have both found no conflict.
THEOREM FirstRowsStay == Spec => FirstRowStays
<1>1. StoresInv /\ [Next]_vars =>
        [\A s \in Store \ {"governance"}, i \in Item :
            row[<<s, i>>] # None => row'[<<s, i>>] = row[<<s, i>>]]_vars
  <2> SUFFICES ASSUME StoresInv, [Next]_vars, NEW s \in Store \ {"governance"}, NEW i \in Item,
                      row[<<s, i>>] # None
               PROVE  row'[<<s, i>>] = row[<<s, i>>]
    OBVIOUS
  <2>t. StoresTypeOK
    BY DEF StoresInv
  <2>1. ASSUME NEW c \in Call, Write(c) PROVE row'[<<s, i>>] = row[<<s, i>>]
    <3>1. call[c].pc # "new"
      BY <2>1 DEF Write
    <3>2. Place(c) \in Store \X Item /\ row \in [Store \X Item -> Body \cup {None}]
      BY <2>t, <3>1, CallBegun DEF StoresTypeOK
    <3>3. row' = [row EXCEPT ![Place(c)] = Stored(call[c].store, row[Place(c)], call[c].payload.body)]
      BY <2>1 DEF Write
    <3>4. Place(c) = <<s, i>> =>
            Stored(call[c].store, row[Place(c)], call[c].payload.body) = row[<<s, i>>]
      BY DEF Place, Stored
    <3> QED
      BY <3>2, <3>3, <3>4
  <2>2. (\E c \in Call : Write(c)) \/ row' = row
    BY DEF Next, Step, Lookup, Insert, Disown, Check, WriteError, Complete, CompleteError, Crash, vars
  <2> QED
    BY <2>1, <2>2
<1> QED
  BY <1>1, StoresInvariance, PTL DEF Spec, FirstRowStays

\* What a step may do to a record: reserve it, or settle it, and a record that is
\* not RESERVED is settled again in the ATS store only.
LEMMA RecordStep ==
    ASSUME StoresInv, [Next]_vars, NEW x \in Store \X Key, idem'[x] # idem[x]
    PROVE  /\ idem'[x] # None
           /\ \E c \in Call :
                /\ Slot(c) = x
                /\ row' = row
                /\ \A z \in (Store \X Key) \ {x} : idem'[z] = idem[z]
                /\ \A d \in Call : call'[d].wrote = call[d].wrote
                /\ \/ /\ idem[x] = None
                      /\ idem'[x].status = "RESERVED"
                   \/ /\ idem[x] # None
                      /\ idem'[x].request = idem[x].request
                      /\ \/ /\ call[c].store = "ats"
                            /\ idem'[x].status = "SUBMISSION_UNVERIFIED"
                         \/ /\ Active(c)
                            /\ idem'[x].status = call[c].verdict
                            /\ call[c].verdict \in Status \ {"RESERVED"}
                            /\ call[c].verdict = "ACCEPTED" => call[c].wrote
                            /\ call[c].verdict = "REJECTED" => ~call[c].wrote
<1>t. StoresTypeOK
  BY DEF StoresInv
<1>1. PICK c \in Call : (Insert(c) /\ idem[Slot(c)] = None) \/ Disown(c) \/ Complete(c)
  BY DEF Next, Step, Lookup, Insert, Check, Write, WriteError, CompleteError, Crash, vars
<1>2. row' = row /\ call[c].pc \in {"insert", "disown", "complete"}
  BY <1>1 DEF Insert, Disown, Complete
<1>3. Slot(c) \in Store \X Key /\ call[c].verdict \in Status /\ ~Write(c) /\ call[c] # New
  BY <1>t, <1>2, CallBegun DEF CallRecord, Write, New
<1>4. Step(c)
  BY <1>1 DEF Step
<1>5. \A d \in Call : call'[d].wrote = call[d].wrote
  BY <1>t, <1>3, <1>4, StepEffect DEF After
<1>6. CASE Insert(c) /\ idem[Slot(c)] = None
  <2>1. idem' = [idem EXCEPT ![Slot(c)] = [request |-> call[c].payload, status |-> "RESERVED"]]
    BY <1>6 DEF Insert
  <2>2. /\ idem'[Slot(c)] # None
        /\ idem'[Slot(c)].status = "RESERVED"
        /\ \A z \in (Store \X Key) \ {Slot(c)} : idem'[z] = idem[z]
    BY <1>t, <1>2, <2>1, ReserveEffect
  <2>3. x = Slot(c)
    BY <1>3, <2>2
  <2> QED
    BY <1>2, <1>5, <1>6, <2>2, <2>3
<1>7. CASE Disown(c) \/ Complete(c)
  <2>1. idem[Slot(c)] # None
    BY <1>7 DEF Disown, Complete, StoresInv, DisownerFound, OwnerHolds, Owner, Active
  <2>2. PICK v \in Status :
          /\ idem' = [idem EXCEPT ![Slot(c)].status = v]
          /\ \/ v = "SUBMISSION_UNVERIFIED" /\ call[c].pc = "disown"
             \/ v = call[c].verdict /\ call[c].pc = "complete"
    BY <1>3, <1>7 DEF Disown, Complete, Status
  <2>3. /\ idem'[Slot(c)] # None
        /\ idem'[Slot(c)].request = idem[Slot(c)].request
        /\ idem'[Slot(c)].status = v
        /\ \A z \in (Store \X Key) \ {Slot(c)} : idem'[z] = idem[z]
    BY <1>t, <1>3, <2>1, <2>2, SettleEffect
  <2>4. x = Slot(c)
    BY <1>3, <2>3
  <2>5. call[c].pc = "disown" => call[c].store = "ats"
    BY DEF StoresInv, DisownerFound
  <2>6. call[c].pc = "complete" => /\ Active(c)
                                   /\ call[c].verdict # "RESERVED"
                                   /\ call[c].verdict = "ACCEPTED" => call[c].wrote
                                   /\ call[c].verdict = "REJECTED" => ~call[c].wrote
    BY DEF StoresInv, ActiveIsOpen, Active
  <2> QED
    BY <1>2, <1>3, <1>5, <2>1, <2>2, <2>3, <2>4, <2>5, <2>6
<1> QED
  BY <1>1, <1>6, <1>7

\* In the governance and sovereignty stores a recorded outcome is never
\* rewritten; only the ATS store lets a retry and the first call revise it.
THEOREM RecordsAreFinal == Spec => RecordedIsFinal
<1>1. StoresInv /\ [Next]_vars =>
        [\A s \in Store \ {"ats"}, k \in Key :
            (idem[<<s, k>>] # None /\ idem[<<s, k>>].status # "RESERVED")
                => idem'[<<s, k>>] = idem[<<s, k>>]]_vars
  <2> SUFFICES ASSUME StoresInv, [Next]_vars, NEW s \in Store \ {"ats"}, NEW k \in Key,
                      idem[<<s, k>>] # None, idem[<<s, k>>].status # "RESERVED",
                      idem'[<<s, k>>] # idem[<<s, k>>]
               PROVE  FALSE
    OBVIOUS
  <2>1. PICK c \in Call : /\ Slot(c) = <<s, k>>
                          /\ call[c].store = "ats" \/ Active(c)
    BY RecordStep
  <2>2. call[c].store = s
    BY <2>1 DEF Slot
  <2> QED
    BY <2>1, <2>2 DEF StoresInv, ActiveIsOpen
<1> QED
  BY <1>1, StoresInvariance, PTL DEF Spec, RecordedIsFinal

-----------------------------------------------------------------------------
(* The stores implement OneMutation. *)

Claims    == [x \in Store \X Key |-> Claimed(x)]
Performed == {Slot(c) : c \in {d \in Call : call[d].wrote}}

LEMMA ClaimedValue ==
    ASSUME StoresTypeOK, NEW x \in Store \X Key
    PROVE  /\ idem[x] = None => Claimed(x) = None
           /\ idem[x] # None =>
                /\ Claimed(x) = [request |-> idem[x].request, status |-> Outcome(idem[x].status)]
                /\ Claimed(x) # None
                /\ Claimed(x).status = Outcome(idem[x].status)
                /\ Outcome(idem[x].status) \in {"pending", "done", "refused", "unknown"}
                /\ idem[x].request \in Payload
                /\ idem[x].status \in Status
<1>1. idem[x] # None => idem[x].request \in Payload /\ idem[x].status \in Status
  BY DEF StoresTypeOK, Record
<1>2. idem[x] # None =>
        /\ Claimed(x) = [request |-> idem[x].request, status |-> Outcome(idem[x].status)]
        /\ Outcome(idem[x].status) \in {"pending", "done", "refused", "unknown"}
  BY <1>1 DEF Claimed, Outcome, Status
<1>3. ASSUME NEW q \in Payload, NEW s \in {"pending", "done", "refused", "unknown"}
      PROVE  [request |-> q, status |-> s] # None
  OBVIOUS
<1> QED
  BY <1>1, <1>2, <1>3 DEF Claimed

LEMMA InitImplements == Init => Mutation!MInit
BY DEF Init, Mutation!MInit, Claimed, New

\* A call that has begun keeps its slot.
LEMMA SlotKept ==
    ASSUME StoresTypeOK, [Next]_vars, NEW d \in Call, call[d].pc # "new"
    PROVE  Slot(d)' = Slot(d)
<1>1. ASSUME NEW c \in Call, Step(c) PROVE Slot(d)' = Slot(d)
  <2>1. CASE call[c] = New
    <3>1. c # d
      BY <2>1 DEF New
    <3>2. call'[d] = call[d]
      BY <1>1, <3>1, StepEffect DEF LookupEffect, After
    <3> QED
      BY <3>2 DEF Slot
  <2>2. CASE call[c] # New
    <3>1. Quiet(c)
      BY <1>1, <2>2, StepEffect, AfterQuiet
    <3> QED
      BY <3>1 DEF Quiet
  <2> QED
    BY <2>1, <2>2
<1>2. CASE Crash
  BY <1>2, CrashEffect DEF Slot
<1>3. CASE UNCHANGED vars
  BY <1>3 DEF vars, Slot
<1> QED
  BY <1>1, <1>2, <1>3 DEF Next

\* What is performed changes with the calls that have written only.
LEMMA PerformedKept ==
    ASSUME StoresInv, [Next]_vars, \A d \in Call : call'[d].wrote = call[d].wrote
    PROVE  Performed' = Performed
<1>1. \A d \in Call : call[d].wrote => Slot(d)' = Slot(d)
  BY SlotKept DEF StoresInv, WriterIsPast
<1> QED
  BY <1>1 DEF Performed

\* A step that changes a record claims its key or settles it.
LEMMA RecordImplements ==
    ASSUME StoresInv, StoresInv', [Next]_vars, NEW x \in Store \X Key, idem'[x] # idem[x]
    PROVE  Mutation!MNext
<1>t. StoresTypeOK /\ StoresTypeOK'
  BY DEF StoresInv
<1>1. PICK c \in Call :
        /\ Slot(c) = x
        /\ \A z \in (Store \X Key) \ {x} : idem'[z] = idem[z]
        /\ \A d \in Call : call'[d].wrote = call[d].wrote
        /\ \/ /\ idem[x] = None
              /\ idem'[x].status = "RESERVED"
           \/ /\ idem[x] # None
              /\ idem'[x].request = idem[x].request
              /\ \/ idem'[x].status = "SUBMISSION_UNVERIFIED"
                 \/ /\ Active(c)
                    /\ idem'[x].status = call[c].verdict
                    /\ call[c].verdict \in Status \ {"RESERVED"}
                    /\ call[c].verdict = "ACCEPTED" => call[c].wrote
                    /\ call[c].verdict = "REJECTED" => ~call[c].wrote
  BY RecordStep
<1>2. idem'[x] # None
  BY RecordStep
<1>3. Performed' = Performed
  BY <1>1, PerformedKept
<1>4. \A z \in (Store \X Key) \ {x} : Claimed(z)' = Claimed(z)
  BY <1>1 DEF Claimed
<1>5. /\ Claimed(x)' = [request |-> idem'[x].request, status |-> Outcome(idem'[x].status)]
      /\ idem'[x].request \in Payload
  BY <1>t, <1>2 DEF Claimed, StoresTypeOK, Record
<1>6. CASE idem[x] = None
  <2>1. Claimed(x) = None /\ Claimed(x)' = [request |-> idem'[x].request, status |-> "pending"]
    BY <1>1, <1>5, <1>6 DEF Claimed, Outcome
  <2>2. Claims' = [Claims EXCEPT ![x] = [request |-> idem'[x].request, status |-> "pending"]]
    BY <1>4, <2>1 DEF Claims
  <2>3. Mutation!Claim(x)
    BY <1>3, <1>5, <2>1, <2>2 DEF Mutation!Claim, Claims, Performed
  <2> QED
    BY <2>3 DEF Mutation!MNext
<1>7. CASE idem[x] # None
  <2> DEFINE o == Outcome(idem[x].status)
             n == Outcome(idem'[x].status)
  <2>1. /\ Claims[x] = [request |-> idem[x].request, status |-> o]
        /\ Claims[x] # None
        /\ o \in {"pending", "done", "refused", "unknown"}
    BY <1>t, <1>7, ClaimedValue DEF Claims
  <2>2. n \in {"done", "refused", "unknown"}
    BY <1>1, <1>7 DEF Outcome, Status
  <2>3. Claimed(x)' = [request |-> idem[x].request, status |-> n]
    BY <1>1, <1>5, <1>7
  <2>4. n = "done" => x \in Performed
    BY <1>1, <1>7 DEF Outcome, Status, Performed
  <2>5. n = "refused" => x \notin Performed
    <3>1. ASSUME n = "refused"
          PROVE  Active(c) /\ ~call[c].wrote
      BY <1>1, <1>7, <3>1 DEF Outcome, Status
    <3>2. ASSUME n = "refused", NEW d \in Call, call[d].wrote, Slot(d) = x
          PROVE  FALSE
      BY <1>1, <3>1, <3>2 DEF StoresInv, OwnerHolds, Owner
    <3> QED
      BY <3>2 DEF Performed
  <2> HIDE DEF o, n
  <2>6. Claims' = [Claims EXCEPT ![x].status = n]
    <3>1. [Claims[x] EXCEPT !.status = n] = [request |-> idem[x].request, status |-> n]
      BY <2>1
    <3>2. Claims' = [Claims EXCEPT ![x] = [Claims[x] EXCEPT !.status = n]]
      BY <1>4, <2>3, <3>1 DEF Claims
    <3> QED
      BY <3>2
  <2>7. <<Claims[x].status, n>> \in {"pending", "unknown", "done", "refused"} \X {"done", "refused", "unknown"}
    BY <2>1, <2>2
  <2>8. n \in {"pending", "done", "refused", "unknown"}
    BY <2>2
  <2>9. Mutation!Settle(x)
    BY <1>3, <2>1, <2>4, <2>5, <2>6, <2>7, <2>8 DEF Mutation!Settle, Mutation!Status, Claims, Performed
  <2> QED
    BY <2>9 DEF Mutation!MNext
<1> QED
  BY <1>6, <1>7

\* The write of a call performs its key's request.
LEMMA WriteImplements ==
    ASSUME StoresInv, [Next]_vars, NEW c \in Call, Write(c)
    PROVE  \E x \in Store \X Key : Mutation!Perform(x)
<1>t. StoresTypeOK
  BY DEF StoresInv
<1>1. call[c].pc = "write" /\ idem' = idem
  BY DEF Write
<1>2. /\ Slot(c) \in Store \X Key
      /\ Active(c) /\ Owner(c) /\ ~call[c].wrote
  BY <1>t, <1>1, CallBegun DEF Active, Owner, StoresInv, WriterIsPast
<1>3. After(c, "complete", "ACCEPTED", call[c].answer, TRUE)
  BY <1>t, WriteEffect
<1>4. \A d \in Call : /\ Slot(d)' = Slot(d)
                       /\ call'[d].wrote <=> call[d].wrote \/ d = c
  BY <1>3, AfterQuiet DEF After, Quiet
<1>5. Performed' = Performed \cup {Slot(c)}
  <2>1. Performed' = {Slot(d)' : d \in {e \in Call : call'[e].wrote}}
    BY DEF Performed
  <2>2. {e \in Call : call'[e].wrote} = {e \in Call : call[e].wrote} \cup {c}
    <3>1. call'[c].wrote /\ \A e \in Call \ {c} : call'[e] = call[e]
      BY <1>3 DEF After
    <3> QED
      BY <3>1
  <2>3. Performed' = {Slot(d) : d \in {e \in Call : call[e].wrote} \cup {c}}
    BY <1>4, <2>1, <2>2
  <2> QED
    BY <2>3 DEF Performed
<1>6. Slot(c) \notin Performed
  BY <1>2 DEF Performed, StoresInv, OwnerHolds, Owner
<1>7. idem[Slot(c)] # None /\ idem[Slot(c)].status \in {"RESERVED", "SUBMISSION_UNVERIFIED"}
  BY <1>2 DEF StoresInv, OwnerHolds, ActiveIsOpen
<1>8. /\ Claims[Slot(c)] # None
      /\ Claims[Slot(c)].status # "refused"
  BY <1>t, <1>2, <1>7, ClaimedValue DEF Claims, Outcome
<1>9. Claims' = Claims
  BY <1>1 DEF Claims, Claimed
<1>10. PICK x \in Store \X Key : x = Slot(c)
  BY <1>2
<1>11. Mutation!Perform(x)
  BY <1>5, <1>6, <1>8, <1>9, <1>10 DEF Mutation!Perform, Claims, Performed
<1> QED
  BY <1>11

\* Every step of the stores is a step of OneMutation, or invisible to it.
LEMMA StepImplements ==
    ASSUME StoresInv, StoresInv', [Next]_vars
    PROVE  [Mutation!MNext]_(Mutation!mvars)
<1>t. StoresTypeOK /\ StoresTypeOK'
  BY DEF StoresInv
<1>1. CASE \E x \in Store \X Key : idem'[x] # idem[x]
  BY <1>1, RecordImplements
<1>2. CASE \A x \in Store \X Key : idem'[x] = idem[x]
  <2>1. Claims' = Claims
    BY <1>2 DEF Claims, Claimed
  <2>2. CASE \E c \in Call : Write(c)
    BY <2>2, WriteImplements DEF Mutation!MNext
  <2>3. CASE ~\E c \in Call : Write(c)
    <3>1. ASSUME NEW c \in Call, Step(c), NEW d \in Call PROVE call'[d].wrote = call[d].wrote
      <4>1. CASE call[c] = New
        <5>1. call[c].pc = "new" /\ call[c].wrote = FALSE
          BY <4>1 DEF New
        <5>2. PICK s \in Store, k \in Key, p \in Payload : LookupEffect(c, s, k, p)
          BY <1>t, <3>1, <5>1, StepEffect
        <5>3. call'[c].wrote = FALSE /\ \A e \in Call \ {c} : call'[e] = call[e]
          BY <5>2 DEF LookupEffect
        <5> QED
          BY <5>1, <5>3
      <4>2. CASE call[c] # New
        BY <1>t, <2>3, <3>1, <4>2, StepEffect DEF After
      <4> QED
        BY <4>1, <4>2
    <3>2. \A d \in Call : call'[d].wrote = call[d].wrote
      <4>1. CASE Crash
        BY <1>t, <4>1, CrashEffect
      <4>2. CASE UNCHANGED vars
        BY <4>2 DEF vars
      <4> QED
        BY <3>1, <4>1, <4>2 DEF Next
    <3>3. Performed' = Performed
      BY <3>2, PerformedKept
    <3> QED
      BY <2>1, <3>3 DEF Mutation!mvars, Claims, Performed
  <2> QED
    BY <2>2, <2>3
<1> QED
  BY <1>1, <1>2

\* The three stores implement OneMutation: a key is claimed once, its request is
\* written at most once, and what is recorded of it is true, with outcomes that
\* may be revised.
THEOREM StoresImplementMutation == Spec => StoresMutateOnce
<1>1. Init => Mutation!MInit
  BY InitImplements
<1>2. StoresInv /\ StoresInv' /\ [Next]_vars => [Mutation!MNext]_(Mutation!mvars)
  BY StepImplements
<1> QED
  BY <1>1, <1>2, StoresInvariance, PTL DEF Spec, StoresMutateOnce, Mutation!MSpec
=============================================================================
