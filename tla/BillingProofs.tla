---------------------------- MODULE BillingProofs ----------------------------
(***************************************************************************)
(* What billing guarantees for any set of accounts, products and requests, *)
(* any environment and any number of crashes.                              *)
(***************************************************************************)
EXTENDS Billing, TLAPS

USE BillingAssumption, NoneAssumption

WebhookRecord == [pc : WebhookPc, event : Event, paid : BOOLEAN, status : SubStatus]

\* A delivery in progress stays a well-typed record from step to step.
LEMMA WebhookGoto ==
    ASSUME webhook \in WebhookState, webhook.pc # "idle"
    PROVE  /\ webhook \in WebhookRecord
           /\ webhook.event \in Event
           /\ webhook.event.session \in Request
           /\ \A p \in WebhookPc : [webhook EXCEPT !.pc = p] \in WebhookState
<1>1. webhook \in WebhookRecord
  BY DEF WebhookState, WebhookRecord, Idle
<1>2. webhook.event \in Event
  BY <1>1 DEF WebhookRecord
<1>3. webhook.event.session \in Request
  BY <1>2 DEF Event
<1>4. ASSUME NEW p \in WebhookPc PROVE [webhook EXCEPT !.pc = p] \in WebhookRecord
  BY <1>1 DEF WebhookRecord
<1> QED
  BY <1>1, <1>2, <1>3, <1>4 DEF WebhookState, WebhookRecord

\* The request behind the delivery has been served: its account and product
\* are known.
LEMMA DeliveredRequest ==
    ASSUME BillingInv, webhook.pc \in {"consume", "retrieve", "grant", "set"}
    PROVE  LET r == webhook.event.session IN
           /\ r \in Request
           /\ request[r].pc = "served"
           /\ request[r] \in [pc : RequestPc, account : Account, sku : Sku]
           /\ session[r] = "complete"
<1>1. webhook.event.session \in Request
  BY WebhookGoto DEF BillingInv, TypeOK
<1>2. session[webhook.event.session] = "complete"
  BY DEF BillingInv, WebhookProgress, EventsGenuine
<1>3. request[webhook.event.session].pc = "served"
  BY <1>1, <1>2 DEF BillingInv, SessionsServed
<1> QED
  BY <1>1, <1>2, <1>3 DEF BillingInv, TypeOK, RequestState

\* A checkout thread that moves on stays well typed.
LEMMA RequestGoto ==
    ASSUME TypeOK, NEW r \in Request, request[r].pc # "new", NEW p \in RequestPc
    PROVE  [request EXCEPT ![r].pc = p] \in [Request -> RequestState]
<1>1. request[r] \in [pc : RequestPc, account : Account, sku : Sku]
  BY DEF TypeOK, RequestState
<1>2. [request[r] EXCEPT !.pc = p] \in RequestState
  BY <1>1 DEF RequestState
<1> QED
  BY <1>2 DEF TypeOK

LEMMA InitInv == Init => BillingInv
<1> SUFFICES ASSUME Init PROVE BillingInv
  OBVIOUS
<1>1. TypeOK
  <2>1. request \in [Request -> RequestState]
    BY DEF Init, RequestState
  <2>2. /\ reservation \in [Account \X Sku -> Reservation \cup {None}]
        /\ entitlement \in [Request -> Entitlement \cup {None}]
    BY DEF Init
  <2>3. webhook \in WebhookState
    BY DEF Init, WebhookState
  <2> QED
    BY <2>1, <2>2, <2>3 DEF Init, TypeOK, SubStatus
<1>2. SessionsServed /\ EventsGenuine /\ WebhookProgress
  BY DEF Init, SessionsServed, EventsGenuine, WebhookProgress, Idle
<1>3. EntitlementBacked /\ OneIntroLicence /\ MarkedMeansGranted
  BY DEF Init, EntitlementBacked, OneIntroLicence, MarkedMeansGranted
<1> QED
  BY <1>1, <1>2, <1>3 DEF BillingInv

LEMMA TypeStep == BillingInv /\ [Next]_vars => TypeOK'
<1> SUFFICES ASSUME BillingInv, [Next]_vars PROVE TypeOK'
  OBVIOUS
<1>0. TypeOK
  BY DEF BillingInv
<1> QED
  <2> USE <1>0 DEF TypeOK, RequestState, RequestPc
  <2>1. ASSUME NEW r \in Request, NEW a \in Account, NEW k \in Sku, CheckoutRead(r, a, k)
        PROVE  TypeOK'
    BY <2>1 DEF CheckoutRead, dbVars, stripeVars
  <2>2. ASSUME NEW r \in Request, CheckoutHistory(r) PROVE TypeOK'
    BY <2>2 DEF CheckoutHistory, Goto, dbVars, stripeVars
  <2>3. ASSUME NEW r \in Request, CheckoutReserve(r) PROVE TypeOK'
    <3>1. Row(r) \in Account \X Sku
      BY <2>3 DEF CheckoutReserve, Row
    <3>2. Purged \in [Account \X Sku -> Reservation \cup {None}]
      BY DEF Purged
    <3>3. [holder |-> r, session |-> None, lapsed |-> FALSE] \in Reservation
      BY DEF Reservation
    <3>4. request' \in [Request -> RequestState]
      <4>1. PICK p \in {"refused", "create"} : Goto(r, p)
        BY <2>3 DEF CheckoutReserve
      <4>2. request[r].pc # "new"
        BY <2>3 DEF CheckoutReserve
      <4> QED
        BY <4>1, <4>2, RequestGoto DEF Goto
    <3>5. reservation' \in [Account \X Sku -> Reservation \cup {None}]
      BY <2>3, <3>1, <3>2, <3>3 DEF CheckoutReserve
    <3> QED
      BY <2>3, <3>4, <3>5 DEF CheckoutReserve, stripeVars
  <2>4. ASSUME NEW r \in Request, CheckoutCreate(r) PROVE TypeOK'
    BY <2>4 DEF CheckoutCreate, Goto, dbVars
  <2>5. ASSUME NEW r \in Request, CheckoutAttach(r) PROVE TypeOK'
    <3>1. Row(r) \in Account \X Sku
      BY <2>5 DEF CheckoutAttach, Row
    <3>2. reservation' \in [Account \X Sku -> Reservation \cup {None}]
      <4>1. CASE Holds(r)
        <5>1. reservation[Row(r)] \in Reservation
          BY <3>1, <4>1 DEF Holds
        <5>2. [reservation[Row(r)] EXCEPT !.session = r] \in Reservation
          BY <5>1 DEF Reservation
        <5> QED
          BY <2>5, <4>1, <3>1, <5>2 DEF CheckoutAttach
      <4>2. CASE ~Holds(r)
        BY <2>5, <4>2, <3>1 DEF CheckoutAttach, Release
      <4> QED
        BY <4>1, <4>2
    <3> QED
      BY <2>5, <3>2 DEF CheckoutAttach, Goto, stripeVars
  <2>6. ASSUME NEW r \in Request, CheckoutAnswer(r) PROVE TypeOK'
    BY <2>6 DEF CheckoutAnswer, Goto, dbVars, stripeVars
  <2>7. ASSUME NEW r \in Request, CheckoutFail(r) PROVE TypeOK'
    <3>1. Row(r) \in Account \X Sku
      BY <2>7 DEF CheckoutFail, Row
    <3>2. reservation' \in [Account \X Sku -> Reservation \cup {None}]
      BY <2>7, <3>1 DEF CheckoutFail, Release
    <3>3. session' \in [Request -> {"absent", "open", "complete", "expired"}]
      BY <2>7 DEF CheckoutFail
    <3>4. request' \in [Request -> RequestState]
      BY <2>7, RequestGoto DEF CheckoutFail, Goto
    <3> QED
      BY <2>7, <3>2, <3>3, <3>4 DEF CheckoutFail
  <2>8. ASSUME NEW e \in events, WebhookBegin(e) PROVE TypeOK'
    <3>1. /\ e \in Event
          /\ e.session \in Request
          /\ e.status \in SubStatus
      BY DEF Event
    <3>2. webhook' \in WebhookState
      BY <2>8, <3>1 DEF WebhookBegin, WebhookState, WebhookPc
    <3> QED
      BY <2>8, <3>2 DEF WebhookBegin, dbVars, stripeVars
  <2>9. ASSUME WebhookStep PROVE TypeOK'
    <3>0. webhook.pc # "idle"
      BY <2>9 DEF WebhookStep, WebhookConsume, GrantAts90, RetrieveSubscription, SetSubscription,
                  ApplyExpired, ApplySubscription, ApplyRefund, WebhookMark
    <3> DEFINE r == webhook.event.session
    <3>r. /\ webhook \in WebhookRecord
          /\ webhook.event \in Event
          /\ r \in Request
          /\ \A p \in WebhookPc : [webhook EXCEPT !.pc = p] \in WebhookState
      BY <3>0, WebhookGoto
    <3>i. Idle \in WebhookState
      BY DEF WebhookState
    <3> HIDE DEF r
    <3>1. CASE WebhookConsume
      <4>1. reservation' \in [Account \X Sku -> Reservation \cup {None}]
        BY <3>1 DEF WebhookConsume, Release
      <4>2. webhook' \in WebhookState
        BY <3>1, <3>r, <3>i DEF WebhookConsume, WebhookPc
      <4> QED
        BY <3>1, <4>1, <4>2 DEF WebhookConsume, stripeVars
    <3>2. CASE GrantAts90
      <4>1. request[r].account \in Account
        BY <3>2, DeliveredRequest DEF GrantAts90, r
      <4>2. [account |-> request[r].account, sku |-> Ats90, status |-> "active", lapsed |-> FALSE]
              \in Entitlement
        BY <4>1 DEF Entitlement, Sku
      <4>3. entitlement' \in [Request -> Entitlement \cup {None}]
        BY <3>2, <4>2, <3>r DEF GrantAts90, r
      <4>4. webhook' \in WebhookState
        BY <3>2, <3>r, <3>i DEF GrantAts90, WebhookPc
      <4> QED
        BY <3>2, <4>3, <4>4 DEF GrantAts90, stripeVars
    <3>3. CASE RetrieveSubscription
      <4>1. webhook' \in WebhookState
        BY <3>3, <3>r DEF RetrieveSubscription, WebhookState, WebhookRecord, WebhookPc, r
      <4> QED
        BY <3>3, <4>1 DEF RetrieveSubscription, dbVars, stripeVars
    <3>4. CASE SetSubscription
      <4>1. request[r].account \in Account /\ request[r].sku \in Sku
        BY <3>4, DeliveredRequest DEF SetSubscription, r
      <4>2. Status(webhook.status) \in {"active", "suspended"}
        BY DEF Status
      <4>3. [account |-> request[r].account, sku |-> request[r].sku,
             status |-> Status(webhook.status), lapsed |-> FALSE] \in Entitlement
        BY <4>1, <4>2 DEF Entitlement
      <4>4. entitlement[r] \in Entitlement =>
              [[entitlement[r] EXCEPT !.status = Status(webhook.status)] EXCEPT !.lapsed = FALSE]
                \in Entitlement
        BY <4>2 DEF Entitlement
      <4>5. entitlement' \in [Request -> Entitlement \cup {None}]
        BY <3>4, <4>3, <4>4, <3>r DEF SetSubscription, r
      <4>6. webhook' \in WebhookState
        BY <3>4, <3>r DEF SetSubscription, WebhookPc
      <4> QED
        BY <3>4, <4>5, <4>6 DEF SetSubscription, stripeVars
    <3>5. CASE ApplyExpired
      <4>1. reservation' \in [Account \X Sku -> Reservation \cup {None}]
        BY <3>5 DEF ApplyExpired
      <4>2. webhook' \in WebhookState
        BY <3>5, <3>r DEF ApplyExpired, WebhookPc
      <4> QED
        BY <3>5, <4>1, <4>2 DEF ApplyExpired, stripeVars
    <3>6. CASE ApplySubscription
      <4>1. entitlement' \in [Request -> Entitlement \cup {None}]
        <5>1. CASE HasSubscription(r)
          <6>1. entitlement[r] \in Entitlement
            BY <5>1, <3>r DEF HasSubscription
          <6>2. \A st \in {"active", "suspended"}, late \in BOOLEAN :
                   [[entitlement[r] EXCEPT !.status = st] EXCEPT !.lapsed = late] \in Entitlement
            BY <6>1 DEF Entitlement
          <6>3. PICK st \in {"active", "suspended"}, late \in BOOLEAN :
                  entitlement' = [entitlement EXCEPT ![r].status = st, ![r].lapsed = late]
            BY <3>6, <5>1 DEF ApplySubscription, Status, r
          <6> QED
            BY <6>2, <6>3, <3>r
        <5>2. CASE ~HasSubscription(r)
          BY <3>6, <5>2 DEF ApplySubscription, r
        <5> QED
          BY <5>1, <5>2
      <4>2. webhook' \in WebhookState
        BY <3>6, <3>r DEF ApplySubscription, WebhookPc
      <4> QED
        BY <3>6, <4>1, <4>2 DEF ApplySubscription, stripeVars
    <3>7. CASE ApplyRefund
      <4>1. entitlement' \in [Request -> Entitlement \cup {None}]
        <5>1. CASE HasIntent(r)
          <6>1. entitlement[r] \in Entitlement
            BY <5>1, <3>r DEF HasIntent
          <6>2. [entitlement[r] EXCEPT !.status = "revoked"] \in Entitlement
            BY <6>1 DEF Entitlement
          <6> QED
            BY <3>7, <5>1, <6>2, <3>r DEF ApplyRefund, r
        <5>2. CASE ~HasIntent(r)
          BY <3>7, <5>2 DEF ApplyRefund, r
        <5> QED
          BY <5>1, <5>2
      <4>2. webhook' \in WebhookState
        BY <3>7, <3>r DEF ApplyRefund, WebhookPc
      <4> QED
        BY <3>7, <4>1, <4>2 DEF ApplyRefund, stripeVars
    <3>8. CASE WebhookMark
      <4>1. webhook' \in WebhookState
        BY <3>8, <3>i DEF WebhookMark
      <4>2. webhook.event \in events
        BY <3>0 DEF BillingInv, WebhookProgress
      <4> QED
        BY <3>8, <4>1, <4>2 DEF WebhookMark, stripeVars
    <3> QED
      BY <2>9, <3>1, <3>2, <3>3, <3>4, <3>5, <3>6, <3>7, <3>8 DEF WebhookStep
  <2>10. CASE WebhookFail
    BY <2>10 DEF WebhookFail, WebhookState, dbVars, stripeVars
  <2>11. CASE Crash
    BY <2>11 DEF Crash, InFlight, WebhookState, dbVars, stripeVars
  <2>12. ASSUME NEW x \in Account \X Sku, ReservationLapse(x) PROVE TypeOK'
    <3>1. reservation[x] \in Reservation
      BY <2>12 DEF ReservationLapse
    <3>2. [reservation[x] EXCEPT !.lapsed = TRUE] \in Reservation
      BY <3>1 DEF Reservation
    <3> QED
      BY <2>12, <3>2 DEF ReservationLapse, stripeVars
  <2>13. ASSUME NEW r \in Request, EntitlementLapse(r) PROVE TypeOK'
    <3>1. entitlement[r] \in Entitlement
      BY <2>13 DEF EntitlementLapse
    <3>2. [entitlement[r] EXCEPT !.lapsed = TRUE] \in Entitlement
      BY <3>1 DEF Entitlement
    <3> QED
      BY <2>13, <3>2 DEF EntitlementLapse, stripeVars
  <2>14. ASSUME NEW r \in Request, Stripe(r) PROVE TypeOK'
    <3> USE DEF Emit, Event, SubStatus, dbVars
    <3>1. CASE StripeComplete(r)
      <4>1. PICK p \in BOOLEAN : paid' = [paid EXCEPT ![r] = p]
        BY <3>1 DEF StripeComplete
      <4>2. subscription' \in [Request -> SubStatus]
        BY <3>1 DEF StripeComplete
      <4>3. events' \subseteq Event
        BY <3>1 DEF StripeComplete
      <4>4. seen' \subseteq events'
        BY <3>1 DEF StripeComplete
      <4> QED
        BY <3>1, <4>1, <4>2, <4>3, <4>4 DEF StripeComplete
    <3>2. CASE StripeSettle(r)
      BY <3>2 DEF StripeSettle
    <3>3. CASE StripeExpire(r)
      BY <3>3 DEF StripeExpire
    <3>4. CASE StripeUpdate(r)
      BY <3>4 DEF StripeUpdate
    <3>5. CASE StripeDelete(r)
      BY <3>5 DEF StripeDelete
    <3>6. CASE StripeRefund(r)
      BY <3>6 DEF StripeRefund
    <3> QED
      BY <2>14, <3>1, <3>2, <3>3, <3>4, <3>5, <3>6 DEF Stripe
  <2>15. CASE UNCHANGED vars
    BY <2>15 DEF vars, dbVars, stripeVars
  <2> QED
    BY <2>1, <2>2, <2>3, <2>4, <2>5, <2>6, <2>7, <2>8, <2>9, <2>10, <2>11, <2>12,
       <2>13, <2>14, <2>15 DEF Next, Checkout

\* Sessions are only completed for served requests, and events are only
\* generated for what happened.
LEMMA ServedStep == BillingInv /\ [Next]_vars => SessionsServed' /\ EventsGenuine'
<1> SUFFICES ASSUME BillingInv, [Next]_vars PROVE SessionsServed' /\ EventsGenuine'
  OBVIOUS
<1>t. TypeOK /\ SessionsServed /\ EventsGenuine
  BY DEF BillingInv
<1> USE <1>t DEF SessionsServed, EventsGenuine
<1>1. ASSUME NEW r \in Request, NEW a \in Account, NEW k \in Sku, CheckoutRead(r, a, k)
      PROVE  SessionsServed' /\ EventsGenuine'
  <2>1. /\ \A q \in Request : q # r => request'[q] = request[q]
        /\ request[r].pc = "new"
        /\ request'[r].pc # "new"
    BY <1>1 DEF CheckoutRead, TypeOK
  <2> QED
    BY <1>1, <2>1 DEF CheckoutRead, stripeVars
<1>2. ASSUME NEW r \in Request, NEW p, Goto(r, p), p # "new", request[r].pc # "served",
             UNCHANGED stripeVars
      PROVE  SessionsServed' /\ EventsGenuine'
  <2>1. /\ \A q \in Request : q # r => request'[q] = request[q]
        /\ request'[r].pc = p
    BY <1>2 DEF Goto, TypeOK, RequestState
  <2> QED
    BY <1>2, <2>1 DEF stripeVars
<1>3. ASSUME NEW r \in Request, NEW p, Goto(r, p), p # "new",
             request[r].pc \notin {"new", "served"},
             session' = session \/ session' = [session EXCEPT ![r] = "open"],
             UNCHANGED <<paid, subscription, events>>
      PROVE  SessionsServed' /\ EventsGenuine'
  <2>1. /\ \A q \in Request : q # r => request'[q] = request[q] /\ session'[q] = session[q]
        /\ request'[r].pc = p
        /\ session[r] # "complete"
        /\ session'[r] # "complete"
    BY <1>3 DEF Goto, TypeOK, RequestState
  <2>2. SessionsServed'
    BY <1>3, <2>1
  <2>3. \A q \in Request : session[q] = "complete" => session'[q] = "complete"
    BY <2>1
  <2>4. \A e \in events : e.session \in Request
    BY DEF TypeOK, Event
  <2> QED
    BY <1>3, <2>2, <2>3, <2>4
<1>4. ASSUME UNCHANGED request, UNCHANGED stripeVars PROVE SessionsServed' /\ EventsGenuine'
  BY <1>4 DEF stripeVars
<1>5. CASE Crash
  <2>1. \A q \in Request : /\ request[q].pc = "new" <=> request'[q].pc = "new"
                           /\ request[q].pc = "served" => request'[q].pc = "served"
    BY <1>5 DEF Crash, InFlight, TypeOK, RequestState
  <2> QED
    BY <1>5, <2>1 DEF Crash, stripeVars
<1>6. ASSUME NEW r \in Request, Stripe(r) PROVE SessionsServed' /\ EventsGenuine'
  <2> USE DEF TypeOK, Event
  <2>1. CASE StripeComplete(r)
    BY <2>1 DEF StripeComplete, Emit
  <2>2. CASE StripeSettle(r)
    BY <2>2 DEF StripeSettle
  <2>3. CASE StripeExpire(r)
    <3>1. \A q \in Request : session[q] = "complete" => session'[q] = "complete"
      BY <2>3 DEF StripeExpire
    <3> QED
      BY <2>3, <3>1 DEF StripeExpire, Emit
  <2>4. CASE StripeUpdate(r)
    BY <2>4 DEF StripeUpdate, Emit
  <2>5. CASE StripeDelete(r)
    BY <2>5 DEF StripeDelete, Emit
  <2>6. CASE StripeRefund(r)
    BY <2>6 DEF StripeRefund, Emit
  <2> QED
    BY <1>6, <2>1, <2>2, <2>3, <2>4, <2>5, <2>6 DEF Stripe
<1>7. ASSUME NEW r \in Request,
             \/ CheckoutHistory(r) \/ CheckoutReserve(r) \/ CheckoutCreate(r)
             \/ CheckoutAttach(r) \/ CheckoutAnswer(r) \/ CheckoutFail(r)
      PROVE  SessionsServed' /\ EventsGenuine'
  <2>1. CASE CheckoutHistory(r)
    BY <2>1, <1>2 DEF CheckoutHistory, stripeVars
  <2>2. CASE CheckoutReserve(r)
    BY <2>2, <1>2 DEF CheckoutReserve
  <2>3. CASE CheckoutCreate(r)
    BY <2>3, <1>3 DEF CheckoutCreate
  <2>4. CASE CheckoutAttach(r)
    BY <2>4, <1>2 DEF CheckoutAttach
  <2>5. CASE CheckoutAnswer(r)
    BY <2>5, <1>2 DEF CheckoutAnswer
  <2>6. CASE CheckoutFail(r)
    BY <2>6, <1>3 DEF CheckoutFail
  <2> QED
    BY <1>7, <2>1, <2>2, <2>3, <2>4, <2>5, <2>6
<1>8. ASSUME NEW e \in events, WebhookBegin(e) PROVE SessionsServed' /\ EventsGenuine'
  BY <1>8, <1>4 DEF WebhookBegin
<1>9. CASE WebhookStep
  BY <1>9, <1>4 DEF WebhookStep, WebhookConsume, GrantAts90, RetrieveSubscription, SetSubscription,
                    ApplyExpired, ApplySubscription, ApplyRefund, WebhookMark
<1>10. CASE WebhookFail
  BY <1>10, <1>4 DEF WebhookFail
<1>11. ASSUME NEW x \in Account \X Sku, ReservationLapse(x) PROVE SessionsServed' /\ EventsGenuine'
  BY <1>11, <1>4 DEF ReservationLapse
<1>12. ASSUME NEW r \in Request, EntitlementLapse(r) PROVE SessionsServed' /\ EventsGenuine'
  BY <1>12, <1>4 DEF EntitlementLapse
<1>13. CASE UNCHANGED vars
  BY <1>13, <1>4 DEF vars
<1> QED
  BY <1>1, <1>5, <1>6, <1>7, <1>8, <1>9, <1>10, <1>11, <1>12, <1>13 DEF Next, Checkout

\* Rows of entitlements are inserted by the two grants, and only changed in
\* status and expiry afterwards.
LEMMA EntitlementRows ==
    ASSUME BillingInv, [Next]_vars
    PROVE  \/ /\ webhook.pc = "grant" /\ GrantAts90 /\ UNCHANGED request
           \/ /\ webhook.pc = "set" /\ SetSubscription /\ UNCHANGED request
           \/ \A q \in Request :
                 /\ entitlement[q] = None => entitlement'[q] = None
                 /\ entitlement[q] # None =>
                      /\ entitlement'[q] # None
                      /\ entitlement'[q].account = entitlement[q].account
                      /\ entitlement'[q].sku = entitlement[q].sku
<1>t. TypeOK
  BY DEF BillingInv
<1> DEFINE Kept == \A q \in Request :
                 /\ entitlement[q] = None => entitlement'[q] = None
                 /\ entitlement[q] # None =>
                      /\ entitlement'[q] # None
                      /\ entitlement'[q].account = entitlement[q].account
                      /\ entitlement'[q].sku = entitlement[q].sku
<1>1. CASE UNCHANGED entitlement
  BY <1>1
<1>2. ASSUME NEW r \in Request, NEW new \in Entitlement, entitlement[r] # None,
             new.account = entitlement[r].account, new.sku = entitlement[r].sku,
             entitlement' = [entitlement EXCEPT ![r] = new]
      PROVE  Kept
  <2>1. new # None
    BY <1>2
  <2> QED
    BY <1>2, <2>1, <1>t DEF TypeOK
<1>3. ASSUME NEW r \in Request, EntitlementLapse(r) PROVE Kept
  <2>1. entitlement[r] \in Entitlement
    BY <1>3, <1>t DEF EntitlementLapse, TypeOK
  <2>2. /\ [entitlement[r] EXCEPT !.lapsed = TRUE] \in Entitlement
        /\ [entitlement[r] EXCEPT !.lapsed = TRUE].account = entitlement[r].account
        /\ [entitlement[r] EXCEPT !.lapsed = TRUE].sku = entitlement[r].sku
    BY <2>1 DEF Entitlement
  <2>3. entitlement' = [entitlement EXCEPT ![r] = [entitlement[r] EXCEPT !.lapsed = TRUE]]
    BY <1>3 DEF EntitlementLapse
  <2>4. entitlement[r] # None
    BY <1>3 DEF EntitlementLapse
  <2> HIDE DEF Kept
  <2> QED
    BY <2>2, <2>3, <2>4, <1>2
<1>4. ASSUME ApplySubscription PROVE Kept
  <2> DEFINE r == webhook.event.session
  <2>1. r \in Request
    BY <1>4, <1>t, WebhookGoto DEF ApplySubscription, TypeOK
  <2>2. CASE HasSubscription(r)
    <3>1. entitlement[r] \in Entitlement /\ entitlement[r] # None
      BY <2>1, <2>2, <1>t DEF HasSubscription, TypeOK
    <3>2. PICK st \in {"active", "suspended"}, late \in BOOLEAN :
            entitlement' = [entitlement EXCEPT ![r].status = st, ![r].lapsed = late]
      BY <1>4, <2>2 DEF ApplySubscription, Status
    <3> DEFINE new == [[entitlement[r] EXCEPT !.status = st] EXCEPT !.lapsed = late]
    <3>3. /\ new \in Entitlement
          /\ new.account = entitlement[r].account
          /\ new.sku = entitlement[r].sku
      BY <3>1 DEF Entitlement
    <3>4. entitlement' = [entitlement EXCEPT ![r] = new]
      BY <3>2, <2>1, <1>t DEF TypeOK
    <3> HIDE DEF new, Kept
    <3> QED
      BY <3>1, <3>3, <3>4, <2>1, <1>2
  <2>3. CASE ~HasSubscription(r)
    BY <1>4, <2>3 DEF ApplySubscription
  <2> QED
    BY <2>2, <2>3
<1>5. ASSUME ApplyRefund PROVE Kept
  <2> DEFINE r == webhook.event.session
  <2>1. r \in Request
    BY <1>5, <1>t, WebhookGoto DEF ApplyRefund, TypeOK
  <2>2. CASE HasIntent(r)
    <3>1. entitlement[r] \in Entitlement /\ entitlement[r] # None
      BY <2>1, <2>2, <1>t DEF HasIntent, TypeOK
    <3> DEFINE new == [entitlement[r] EXCEPT !.status = "revoked"]
    <3>3. /\ new \in Entitlement
          /\ new.account = entitlement[r].account
          /\ new.sku = entitlement[r].sku
      BY <3>1 DEF Entitlement
    <3>4. entitlement' = [entitlement EXCEPT ![r] = new]
      BY <1>5, <2>2 DEF ApplyRefund
    <3> HIDE DEF new, Kept
    <3> QED
      BY <3>1, <3>3, <3>4, <2>1, <1>2
  <2>3. CASE ~HasIntent(r)
    BY <1>5, <2>3 DEF ApplyRefund
  <2> QED
    BY <2>2, <2>3
<1>6. CASE GrantAts90 \/ SetSubscription
  BY <1>6 DEF GrantAts90, SetSubscription
<1> QED
  BY <1>1, <1>3, <1>4, <1>5, <1>6
     DEF Next, Checkout, Stripe, WebhookStep, CheckoutRead, CheckoutHistory, CheckoutReserve,
         CheckoutCreate, CheckoutAttach, CheckoutAnswer, CheckoutFail, WebhookBegin, WebhookConsume,
         RetrieveSubscription, ApplyExpired, WebhookMark, WebhookFail, Crash, ReservationLapse,
         StripeComplete, StripeSettle, StripeExpire, StripeUpdate, StripeDelete, StripeRefund,
         vars, dbVars, stripeVars

\* A completed request is final: it is served, and stays what it is.
LEMMA CompletedRequest ==
    ASSUME BillingInv, [Next]_vars, NEW q \in Request, session[q] = "complete"
    PROVE  /\ request[q].pc = "served"
           /\ request'[q] = request[q]
           /\ session'[q] = "complete"
           /\ paid[q] => paid'[q]
<1>t. TypeOK /\ EventsGenuine
  BY DEF BillingInv
<1>1. request[q].pc = "served"
  BY DEF BillingInv, SessionsServed
<1>2. request'[q] = request[q]
  <2>1. CASE Crash
    BY <2>1, <1>1, <1>t DEF Crash, InFlight, TypeOK
  <2>2. ASSUME NEW r \in Request, Checkout(r) PROVE request'[q] = request[q]
    BY <2>2, <1>1, <1>t DEF TypeOK, Checkout, CheckoutRead, CheckoutHistory, CheckoutReserve,
         CheckoutCreate, CheckoutAttach, CheckoutAnswer, CheckoutFail, Goto
  <2> QED
    BY <2>1, <2>2
       DEF Next, Stripe, WebhookStep, WebhookBegin, WebhookConsume, GrantAts90, SetSubscription,
         RetrieveSubscription, ApplyExpired, ApplySubscription, ApplyRefund, WebhookMark, WebhookFail,
         ReservationLapse, EntitlementLapse,
         StripeComplete, StripeSettle, StripeExpire, StripeUpdate, StripeDelete, StripeRefund,
         vars, dbVars, stripeVars
<1>3. session'[q] = "complete"
  <2>1. CASE UNCHANGED session
    BY <2>1
  <2>2. ASSUME NEW r \in Request, Checkout(r) PROVE session'[q] = "complete"
    BY <2>2, <1>1, <1>t DEF TypeOK, Checkout, CheckoutRead, CheckoutHistory, CheckoutReserve,
         CheckoutCreate, CheckoutAttach, CheckoutAnswer, CheckoutFail, dbVars, stripeVars
  <2>3. ASSUME NEW r \in Request, Stripe(r) PROVE session'[q] = "complete"
    BY <2>3, <1>t DEF TypeOK, Stripe, StripeComplete, StripeSettle, StripeExpire, StripeUpdate,
         StripeDelete, StripeRefund
  <2> QED
    BY <2>1, <2>2, <2>3
       DEF Next, WebhookStep, WebhookBegin, WebhookConsume, GrantAts90, SetSubscription,
         RetrieveSubscription, ApplyExpired, ApplySubscription, ApplyRefund, WebhookMark, WebhookFail,
         Crash, ReservationLapse, EntitlementLapse, vars, stripeVars
<1>4. paid[q] => paid'[q]
  <2>1. CASE UNCHANGED paid
    BY <2>1
  <2>2. ASSUME NEW r \in Request, StripeComplete(r) PROVE paid'[q] = paid[q]
    BY <2>2, <1>t DEF StripeComplete, TypeOK
  <2>3. ASSUME NEW r \in Request, StripeSettle(r) PROVE paid[q] => paid'[q]
    BY <2>3, <1>t DEF StripeSettle, TypeOK
  <2> QED
    BY <2>1, <2>2, <2>3
       DEF Next, Checkout, CheckoutRead, CheckoutHistory, CheckoutReserve,
         CheckoutCreate, CheckoutAttach, CheckoutAnswer, CheckoutFail,
         Stripe, StripeExpire, StripeUpdate, StripeDelete, StripeRefund,
         WebhookStep, WebhookBegin, WebhookConsume, GrantAts90, SetSubscription,
         RetrieveSubscription, ApplyExpired, ApplySubscription, ApplyRefund, WebhookMark, WebhookFail,
         Crash, ReservationLapse, EntitlementLapse, vars, stripeVars
<1> QED
  BY <1>1, <1>2, <1>3, <1>4

\* A served request that no longer holds its reservation never does again.
LEMMA SpentReservation ==
    ASSUME BillingInv, [Next]_vars, NEW q \in Request, session[q] = "complete", ~Holds(q)
    PROVE  ~Holds(q)'
<1>t. TypeOK
  BY DEF BillingInv
<1>1. /\ request[q].pc = "served"
      /\ request'[q] = request[q]
  BY CompletedRequest
<1>2. Row(q) \in Account \X Sku /\ Row(q)' = Row(q)
  BY <1>t, <1>1 DEF TypeOK, RequestState, Row
<1>3. reservation[Row(q)] = None \/ reservation[Row(q)].holder # q
  BY DEF Holds
<1> SUFFICES reservation'[Row(q)] = None \/ reservation'[Row(q)].holder # q
  BY <1>2 DEF Holds
<1>4. CASE UNCHANGED reservation
  BY <1>3, <1>4
<1>5. ASSUME NEW r \in Request, CheckoutReserve(r)
      PROVE  reservation'[Row(q)] = None \/ reservation'[Row(q)].holder # q
  <2>1. CASE UNCHANGED reservation
    BY <1>3, <2>1
  <2>2. CASE reservation' = [Purged EXCEPT ![Row(r)] =
               [holder |-> r, session |-> None, lapsed |-> FALSE]]
    <3>1. Purged[Row(q)] \in {reservation[Row(q)], None}
      BY <1>2 DEF Purged
    <3>2. reservation'[Row(q)] \in
            {Purged[Row(q)], [holder |-> r, session |-> None, lapsed |-> FALSE]}
      BY <2>2, <1>2 DEF Purged
    <3>3. q # r
      BY <1>1, <1>5 DEF CheckoutReserve
    <3> QED
      BY <3>1, <3>2, <3>3, <1>3
  <2> QED
    BY <1>5, <2>1, <2>2 DEF CheckoutReserve
<1>6. ASSUME NEW r \in Request, CheckoutAttach(r)
      PROVE  reservation'[Row(q)] = None \/ reservation'[Row(q)].holder # q
  <2>1. CASE Holds(r) /\ reservation' = [reservation EXCEPT ![Row(r)].session = r]
    <3>1. CASE Row(r) = Row(q)
      <4>1. reservation[Row(r)] \in Reservation /\ reservation[Row(r)].holder = r
        BY <2>1, <3>1, <1>2, <1>t DEF Holds, TypeOK
      <4>2. q # r
        BY <1>1, <1>6 DEF CheckoutAttach
      <4>3. reservation'[Row(r)] = [reservation[Row(r)] EXCEPT !.session = r]
        BY <2>1, <3>1, <1>2, <1>t DEF TypeOK
      <4>4. reservation'[Row(r)].holder = r
        BY <4>1, <4>3 DEF Reservation
      <4> QED
        BY <3>1, <4>2, <4>4
    <3>2. CASE Row(r) # Row(q)
      BY <2>1, <3>2, <1>2, <1>3, <1>t DEF TypeOK
    <3> QED
      BY <3>1, <3>2
  <2>2. CASE reservation' = [reservation EXCEPT ![Row(r)] = None]
    BY <2>2, <1>2, <1>3, <1>t DEF TypeOK
  <2> QED
    BY <1>6, <2>1, <2>2 DEF CheckoutAttach, Release
<1>7. ASSUME NEW r \in Request, CheckoutFail(r)
      PROVE  reservation'[Row(q)] = None \/ reservation'[Row(q)].holder # q
  BY <1>7, <1>2, <1>3, <1>t DEF CheckoutFail, Release, TypeOK
<1>8. ASSUME WebhookConsume
      PROVE  reservation'[Row(q)] = None \/ reservation'[Row(q)].holder # q
  BY <1>8, <1>2, <1>3, <1>t DEF WebhookConsume, Release, TypeOK
<1>9. ASSUME ApplyExpired
      PROVE  reservation'[Row(q)] = None \/ reservation'[Row(q)].holder # q
  BY <1>9, <1>2, <1>3 DEF ApplyExpired
<1>10. ASSUME NEW x \in Account \X Sku, ReservationLapse(x)
       PROVE  reservation'[Row(q)] = None \/ reservation'[Row(q)].holder # q
  <2>1. CASE x # Row(q)
    BY <1>10, <2>1, <1>2, <1>3, <1>t DEF ReservationLapse, TypeOK
  <2>2. CASE x = Row(q)
    <3>1. /\ reservation[x] \in Reservation
          /\ reservation[x].holder # q
          /\ reservation'[x] = [reservation[x] EXCEPT !.lapsed = TRUE]
      BY <1>10, <2>2, <1>3, <1>t DEF ReservationLapse, TypeOK
    <3>2. reservation'[x].holder # q
      BY <3>1 DEF Reservation
    <3> QED
      BY <2>2, <3>2
  <2> QED
    BY <2>1, <2>2
<1> QED
  BY <1>4, <1>5, <1>6, <1>7, <1>8, <1>9, <1>10
     DEF Next, Checkout, Stripe, WebhookStep, CheckoutRead, CheckoutHistory, CheckoutCreate,
         CheckoutAnswer, WebhookBegin, GrantAts90, SetSubscription,
         RetrieveSubscription, ApplySubscription, ApplyRefund, WebhookMark, WebhookFail,
         Crash, EntitlementLapse,
         StripeComplete, StripeSettle, StripeExpire, StripeUpdate, StripeDelete, StripeRefund,
         vars, dbVars, stripeVars

\* Stripe never takes an event back.
LEMMA EventsGrow == [Next]_vars => events \subseteq events'
  BY DEF Next, Checkout, CheckoutRead, CheckoutHistory, CheckoutReserve,
         CheckoutCreate, CheckoutAttach, CheckoutAnswer, CheckoutFail,
         Stripe, StripeComplete, StripeSettle, StripeExpire, StripeUpdate, StripeDelete, StripeRefund,
         WebhookStep, WebhookBegin, WebhookConsume, GrantAts90, SetSubscription,
         RetrieveSubscription, ApplyExpired, ApplySubscription, ApplyRefund, WebhookMark, WebhookFail,
         Crash, ReservationLapse, EntitlementLapse, Emit, vars, stripeVars

\* What the delivery has established stays established.
LEMMA ProgressStep == BillingInv /\ [Next]_vars => WebhookProgress'
<1> SUFFICES ASSUME BillingInv, [Next]_vars PROVE WebhookProgress'
  OBVIOUS
<1>t. TypeOK /\ EventsGenuine /\ WebhookProgress
  BY DEF BillingInv
<1>i. Idle.pc = "idle"
  BY DEF Idle
<1>k. ASSUME UNCHANGED webhook, webhook.pc # "idle" PROVE WebhookProgress'
  <2> DEFINE r == webhook.event.session
  <2>1. webhook.event \in events /\ r \in Request
    BY <1>k, <1>t, WebhookGoto DEF TypeOK, WebhookProgress
  <2>2. webhook.event \in events'
    BY <2>1, EventsGrow
  <2>3. webhook.paid => paid'[r]
    <3>1. webhook.paid => paid[r]
      BY <1>k, <1>t DEF WebhookProgress
    <3>2. paid[r] => session[r] = "complete"
      BY <2>1, <1>t DEF EventsGenuine
    <3>3. paid[r] => paid'[r]
      BY <2>1, <3>2, CompletedRequest
    <3> QED
      BY <3>1, <3>3
  <2>4. ASSUME webhook.pc \in {"consume", "retrieve", "grant", "set"}
        PROVE  request'[r] = request[r] /\ (~Holds(r) => ~Holds(r)')
    <3>1. PICK q \in Request : q = r
      BY <2>1
    <3>2. session[q] = "complete"
      BY <2>4, <3>1, DeliveredRequest
    <3>3. request'[q] = request[q] /\ (~Holds(q) => ~Holds(q)')
      BY <3>2, CompletedRequest, SpentReservation
    <3>4. q = webhook'.event.session
      BY <3>1, <1>k
    <3>5. (Holds(r) <=> Holds(q)) /\ (Holds(r)' <=> Holds(q)')
      BY <3>1, <3>4 DEF Holds, Row
    <3> QED
      BY <3>1, <3>3, <3>5
  <2>5. webhook.pc = "mark" /\ entitlement[r] # None => entitlement'[r] # None
    BY <2>1, EntitlementRows
  <2>6. webhook' = webhook
    BY <1>k
  <2>7. webhook.pc \in {"retrieve", "grant", "set"} => ~Holds(r)'
    BY <2>4, <1>k, <1>t DEF WebhookProgress
  <2>8. /\ webhook.pc = "grant" => request'[r].sku = Ats90
        /\ webhook.pc \in {"retrieve", "set"} => request'[r].sku # Ats90
    BY <2>4, <1>k, <1>t DEF WebhookProgress
  <2>9. /\ webhook.pc = "mark" /\ webhook.event.type = "completed" => entitlement'[r] # None
        /\ webhook.pc \in {"consume", "retrieve", "grant", "set"} => webhook.event.type = "completed"
        /\ webhook.pc = "apply" => webhook.event.type # "completed"
    BY <2>5, <1>k, <1>t DEF WebhookProgress
  <2> QED
    BY <2>2, <2>3, <2>6, <2>7, <2>8, <2>9 DEF WebhookProgress
<1>3. ASSUME NEW e \in events, WebhookBegin(e) PROVE WebhookProgress'
  <2>1. /\ webhook'.event = e
        /\ webhook'.paid = paid[e.session]
        /\ webhook'.pc = IF e.type = "completed" THEN "consume" ELSE "apply"
        /\ UNCHANGED <<request, reservation, entitlement, paid, events>>
    BY <1>3 DEF WebhookBegin, dbVars, stripeVars
  <2> QED
    BY <2>1 DEF WebhookProgress
<1>4. CASE WebhookStep
  <2>0. webhook.pc # "idle"
    BY <1>4 DEF WebhookStep, WebhookConsume, GrantAts90, RetrieveSubscription, SetSubscription,
                ApplyExpired, ApplySubscription, ApplyRefund, WebhookMark
  <2>r. /\ webhook \in WebhookRecord
        /\ webhook.event.session \in Request
    BY <2>0, <1>t, WebhookGoto DEF TypeOK
  <2>e. \A p \in WebhookPc :
          LET w == [webhook EXCEPT !.pc = p] IN
              /\ w.pc = p
              /\ w.event = webhook.event
              /\ w.paid = webhook.paid
    <3> SUFFICES ASSUME NEW p \in WebhookPc
                 PROVE  LET w == [webhook EXCEPT !.pc = p] IN
                        w.pc = p /\ w.event = webhook.event /\ w.paid = webhook.paid
      OBVIOUS
    <3>1. [webhook EXCEPT !.pc = p] =
            [pc |-> p, event |-> webhook.event, paid |-> webhook.paid, status |-> webhook.status]
      BY <2>r DEF WebhookRecord
    <3> QED
      BY <3>1
  <2>p. {"grant", "retrieve", "mark"} \subseteq WebhookPc
    BY DEF WebhookPc
  <2> DEFINE r == webhook.event.session
  <2>1. CASE WebhookConsume
    <3>1. CASE webhook' = Idle
      BY <3>1, <1>i DEF WebhookProgress
    <3>2. CASE webhook' # Idle
      <4>1. /\ webhook' = [webhook EXCEPT !.pc = IF request[r].sku = Ats90 THEN "grant" ELSE "retrieve"]
            /\ reservation' = [reservation EXCEPT ![Row(r)] = None]
            /\ UNCHANGED <<request, events, paid, entitlement>>
        BY <2>1, <3>2 DEF WebhookConsume, Release, stripeVars
      <4>2. Row(r) \in Account \X Sku
        BY <2>1, DeliveredRequest DEF WebhookConsume, Row
      <4>3. ~Holds(r)'
        BY <4>1, <4>2, <1>t DEF Holds, Row, TypeOK
      <4> QED
        BY <4>1, <4>3, <2>1, <2>e, <2>p, <1>t DEF WebhookProgress, WebhookConsume
    <3> QED
      BY <3>1, <3>2
  <2>2. CASE GrantAts90
    <3>1. CASE webhook' = Idle
      BY <3>1, <1>i DEF WebhookProgress
    <3>2. CASE webhook' # Idle
      <4>1. /\ webhook' = [webhook EXCEPT !.pc = "mark"]
            /\ entitlement' = [entitlement EXCEPT ![r] =
                 [account |-> request[r].account, sku |-> Ats90, status |-> "active", lapsed |-> FALSE]]
            /\ UNCHANGED <<request, events, paid>>
        BY <2>2, <3>2 DEF GrantAts90, stripeVars
      <4>2. [account |-> request[r].account, sku |-> Ats90, status |-> "active", lapsed |-> FALSE]
              \in Entitlement
        BY <2>2, DeliveredRequest DEF GrantAts90, Entitlement, Sku
      <4>3. entitlement'[r] # None
        <5>1. r \in Request
          BY <2>r
        <5>2. entitlement'[r] = [account |-> request[r].account, sku |-> Ats90,
                                 status |-> "active", lapsed |-> FALSE]
          BY <4>1, <5>1, <1>t DEF TypeOK
        <5> QED
          BY <4>2, <5>2
      <4> QED
        BY <4>1, <4>3, <2>2, <2>e, <2>p, <1>t DEF WebhookProgress, GrantAts90
    <3> QED
      BY <3>1, <3>2
  <2>3. CASE RetrieveSubscription
    <3>1. /\ webhook'.pc = "set"
          /\ webhook'.event = webhook.event
          /\ webhook'.paid = webhook.paid
          /\ UNCHANGED <<request, reservation, entitlement, paid, events>>
      BY <2>3, <2>r DEF RetrieveSubscription, WebhookRecord, dbVars, stripeVars
    <3> QED
      BY <3>1, <2>3, <1>t DEF WebhookProgress, RetrieveSubscription, Holds, Row
  <2>4. CASE SetSubscription
    <3>1. /\ webhook' = [webhook EXCEPT !.pc = "mark"]
          /\ UNCHANGED <<request, events, paid>>
      BY <2>4 DEF SetSubscription, stripeVars
    <3>2. entitlement'[r] # None
      <4>1. entitlement'[r] \in Entitlement
        <5>1. /\ request[r].account \in Account
              /\ request[r].sku \in Sku
          BY <2>4, DeliveredRequest DEF SetSubscription
        <5>2. CASE entitlement[r] = None
          BY <2>4, <5>1, <5>2, <2>r, <1>t DEF SetSubscription, Entitlement, TypeOK, Status
        <5>3. CASE entitlement[r] # None
          <6>1. entitlement[r] \in Entitlement
            BY <5>3, <2>r, <1>t DEF TypeOK
          <6>2. entitlement'[r] = [[entitlement[r] EXCEPT !.status = Status(webhook.status)] EXCEPT !.lapsed = FALSE]
            BY <2>4, <5>3, <2>r, <1>t DEF SetSubscription, TypeOK
          <6> QED
            BY <6>1, <6>2 DEF Entitlement, Status
        <5> QED
          BY <5>2, <5>3
      <4> QED
        BY <4>1
    <3> QED
      BY <3>1, <3>2, <2>4, <2>e, <2>p, <1>t DEF WebhookProgress, SetSubscription
  <2>5. CASE ApplyExpired \/ ApplySubscription \/ ApplyRefund
    <3>1. /\ webhook' = [webhook EXCEPT !.pc = "mark"]
          /\ webhook.pc = "apply"
          /\ UNCHANGED <<events, paid>>
      BY <2>5 DEF ApplyExpired, ApplySubscription, ApplyRefund, stripeVars
    <3> QED
      BY <3>1, <2>e, <2>p, <1>t DEF WebhookProgress
  <2>6. CASE WebhookMark
    BY <2>6, <1>i DEF WebhookMark, WebhookProgress
  <2> QED
    BY <1>4, <2>1, <2>2, <2>3, <2>4, <2>5, <2>6 DEF WebhookStep
<1>5. CASE WebhookFail \/ Crash
  BY <1>5, <1>i DEF WebhookFail, Crash, WebhookProgress
<1>6. CASE UNCHANGED webhook /\ webhook.pc = "idle"
  BY <1>6 DEF WebhookProgress
<1> QED
  BY <1>k, <1>3, <1>4, <1>5, <1>6
     DEF Next, Checkout, Stripe, CheckoutRead, CheckoutHistory, CheckoutReserve, CheckoutCreate,
         CheckoutAttach, CheckoutAnswer, CheckoutFail, ReservationLapse, EntitlementLapse,
         StripeComplete, StripeSettle, StripeExpire, StripeUpdate, StripeDelete, StripeRefund,
         vars

\* Each entitlement stays backed by its own completed and paid checkout.
LEMMA BackedStep == BillingInv /\ [Next]_vars => EntitlementBacked'
<1> SUFFICES ASSUME BillingInv, [Next]_vars, NEW q \in Request, entitlement'[q] # None
             PROVE  /\ entitlement'[q].account = request'[q].account
                    /\ entitlement'[q].sku = request'[q].sku
                    /\ session'[q] = "complete"
                    /\ entitlement'[q].sku = Ats90 => paid'[q]
                    /\ ~Holds(q)'
  BY DEF EntitlementBacked
<1>t. TypeOK /\ EntitlementBacked /\ WebhookProgress
  BY DEF BillingInv
<1>1. ASSUME session[q] = "complete", ~Holds(q),
             entitlement'[q].account = request[q].account,
             entitlement'[q].sku = request[q].sku,
             entitlement'[q].sku = Ats90 => paid[q]
      PROVE  /\ entitlement'[q].account = request'[q].account
             /\ entitlement'[q].sku = request'[q].sku
             /\ session'[q] = "complete"
             /\ entitlement'[q].sku = Ats90 => paid'[q]
             /\ ~Holds(q)'
  BY <1>1, CompletedRequest, SpentReservation
<1>2. ASSUME entitlement[q] # None,
             entitlement'[q].account = entitlement[q].account,
             entitlement'[q].sku = entitlement[q].sku
      PROVE  /\ session[q] = "complete" /\ ~Holds(q)
             /\ entitlement'[q].account = request[q].account
             /\ entitlement'[q].sku = request[q].sku
             /\ entitlement'[q].sku = Ats90 => paid[q]
  BY <1>2, <1>t DEF EntitlementBacked
<1> DEFINE r == webhook.event.session
<1>3. ASSUME webhook.pc = "grant", GrantAts90
      PROVE  /\ session[q] = "complete" /\ ~Holds(q)
             /\ entitlement'[q].account = request[q].account
             /\ entitlement'[q].sku = request[q].sku
             /\ entitlement'[q].sku = Ats90 => paid[q]
  <2>1. CASE entitlement'[q] = entitlement[q]
    BY <2>1, <1>2
  <2>2. CASE entitlement'[q] # entitlement[q]
    <3>1. /\ q = r
          /\ webhook.paid
          /\ entitlement'[q] = [account |-> request[r].account, sku |-> Ats90,
                                status |-> "active", lapsed |-> FALSE]
      BY <2>2, <1>3, <1>t DEF GrantAts90, TypeOK
    <3>2. paid[r] /\ ~Holds(r) /\ request[r].sku = Ats90
      BY <3>1, <1>3, <1>t DEF WebhookProgress
    <3>3. session[r] = "complete"
      BY <1>3, DeliveredRequest
    <3> QED
      BY <3>1, <3>2, <3>3
  <2> QED
    BY <2>1, <2>2
<1>4. ASSUME webhook.pc = "set", SetSubscription
      PROVE  /\ session[q] = "complete" /\ ~Holds(q)
             /\ entitlement'[q].account = request[q].account
             /\ entitlement'[q].sku = request[q].sku
             /\ entitlement'[q].sku = Ats90 => paid[q]
  <2>1. CASE entitlement'[q] = entitlement[q]
    BY <2>1, <1>2
  <2>2. CASE entitlement'[q] # entitlement[q]
    <3>1. q = r
      BY <2>2, <1>4, <1>t DEF SetSubscription, TypeOK
    <3>2. ~Holds(r) /\ request[r].sku # Ats90 /\ session[r] = "complete"
      BY <1>4, <1>t, DeliveredRequest DEF WebhookProgress
    <3>3. CASE entitlement[q] = None
      <4>1. entitlement'[q] = [account |-> request[r].account, sku |-> request[r].sku,
                               status |-> Status(webhook.status), lapsed |-> FALSE]
        BY <3>1, <3>3, <1>4, <1>t DEF SetSubscription, TypeOK
      <4> QED
        BY <3>1, <3>2, <4>1
    <3>4. CASE entitlement[q] # None
      <4>1. entitlement[q] \in Entitlement
        BY <3>4, <1>t DEF TypeOK
      <4>2. entitlement'[q] = [[entitlement[q] EXCEPT !.status = Status(webhook.status)] EXCEPT !.lapsed = FALSE]
        BY <3>1, <3>4, <1>4, <1>t DEF SetSubscription, TypeOK
      <4>3. /\ entitlement'[q].account = entitlement[q].account
            /\ entitlement'[q].sku = entitlement[q].sku
        BY <4>1, <4>2 DEF Entitlement
      <4> QED
        BY <3>4, <4>3, <1>2
    <3> QED
      BY <3>3, <3>4
  <2> QED
    BY <2>1, <2>2
<1> QED
  BY <1>1, <1>2, <1>3, <1>4, EntitlementRows

\* A second introductory licence is refused by the history check of grant_ats90.
LEMMA IntroStep == BillingInv /\ [Next]_vars => OneIntroLicence'
<1> SUFFICES ASSUME BillingInv, [Next]_vars, NEW p \in Request, NEW q \in Request,
                    entitlement'[p] # None, entitlement'[p].sku = Ats90,
                    entitlement'[q] # None, entitlement'[q].sku = Ats90,
                    entitlement'[p].account = entitlement'[q].account,
                    p # q
             PROVE  FALSE
  BY DEF OneIntroLicence
<1>t. TypeOK /\ OneIntroLicence /\ WebhookProgress
  BY DEF BillingInv
<1> DEFINE r == webhook.event.session
<1>1. ASSUME \A x \in {p, q} : /\ entitlement[x] # None
                               /\ entitlement[x].sku = Ats90
                               /\ entitlement[x].account = entitlement'[x].account
      PROVE  FALSE
  BY <1>1, <1>t DEF OneIntroLicence
<1>2. CASE webhook.pc = "grant" /\ GrantAts90
  <2>1. CASE UNCHANGED entitlement
    BY <2>1, <1>1
  <2>2. CASE entitlement' # entitlement
    <3>1. /\ ~HasHistory(request[r].account, Ats90)
          /\ entitlement' = [entitlement EXCEPT ![r] =
               [account |-> request[r].account, sku |-> Ats90, status |-> "active", lapsed |-> FALSE]]
      BY <1>2, <2>2 DEF GrantAts90
    <3>2. r \in Request
      BY <1>2, DeliveredRequest
    <3>3. entitlement'[r].account = request[r].account
      BY <3>1, <3>2, <1>t DEF TypeOK
    <3>4. \A x \in Request : x # r => entitlement'[x] = entitlement[x]
      BY <3>1, <1>t DEF TypeOK
    <3>5. \A x \in {p, q} : x = r \/ entitlement'[x].account # request[r].account
      BY <3>1, <3>4 DEF HasHistory
    <3> QED
      BY <3>3, <3>4, <3>5, <1>1
  <2> QED
    BY <2>1, <2>2
<1>3. CASE webhook.pc = "set" /\ SetSubscription
  <2>1. \A x \in Request : x # r => entitlement'[x] = entitlement[x]
    BY <1>3, <1>t DEF SetSubscription, TypeOK
  <2>2. /\ r \in Request
        /\ request'[r].sku # Ats90
    BY <1>3, <1>t, DeliveredRequest, CompletedRequest DEF WebhookProgress
  <2>3. entitlement'[r] # None => entitlement'[r].sku # Ats90
    BY <2>2, BackedStep DEF EntitlementBacked
  <2>4. p # r /\ q # r
    BY <2>3
  <2> QED
    BY <2>1, <2>4, <1>1
<1> QED
  BY <1>1, <1>2, <1>3, EntitlementRows

\* Only a delivery that reached its end is marked.
LEMMA MarkedStep == BillingInv /\ [Next]_vars => MarkedMeansGranted'
<1> SUFFICES ASSUME BillingInv, [Next]_vars, NEW e \in seen', e.type = "completed"
             PROVE  entitlement'[e.session] # None
  BY DEF MarkedMeansGranted
<1>t. TypeOK /\ WebhookProgress /\ MarkedMeansGranted /\ EventsGenuine
  BY DEF BillingInv
<1>0. TypeOK' /\ EntitlementBacked'
  BY TypeStep, BackedStep
<1>1. \A q \in Request : entitlement[q] # None => entitlement'[q] # None
  <2>1. ASSUME NEW q \in Request, entitlement[q] # None, webhook.pc = "grant", GrantAts90
        PROVE  entitlement'[q] # None
    <3>1. CASE entitlement'[q] = entitlement[q]
      BY <2>1, <3>1
    <3>2. CASE entitlement'[q] # entitlement[q]
      <4> DEFINE row == [account |-> request[webhook.event.session].account, sku |-> Ats90,
                         status |-> "active", lapsed |-> FALSE]
      <4>1. entitlement'[q] = row
        <5>1. PICK x : entitlement' = [entitlement EXCEPT ![x] = row]
          BY <2>1, <3>2 DEF GrantAts90
        <5> QED
          BY <5>1, <3>2, <2>1, <1>t DEF TypeOK
      <4>2. request[webhook.event.session].account \in Account
        BY <2>1, DeliveredRequest
      <4>3. Ats90 \in Sku
        BY BillingAssumption DEF Sku
      <4>4. row \in Entitlement
        BY <4>2, <4>3 DEF Entitlement
      <4>5. None \notin Entitlement
        BY NoneAssumption
      <4> QED
        BY <4>1, <4>4, <4>5
    <3> QED
      BY <3>1, <3>2
  <2>2. ASSUME NEW q \in Request, entitlement[q] # None, webhook.pc = "set", SetSubscription
        PROVE  entitlement'[q] # None
    <3>1. CASE entitlement'[q] = entitlement[q]
      BY <2>2, <3>1
    <3>2. CASE entitlement'[q] # entitlement[q]
      <4>1. entitlement[q] \in Entitlement
        BY <2>2, <1>t DEF TypeOK
      <4>2. entitlement'[q] = [[entitlement[q] EXCEPT !.status = Status(webhook.status)] EXCEPT !.lapsed = FALSE]
        BY <2>2, <3>2, <1>t DEF SetSubscription, TypeOK
      <4>3. entitlement'[q] \in Entitlement
        BY <4>1, <4>2 DEF Entitlement, Status
      <4> QED
        BY <4>3
    <3> QED
      BY <3>1, <3>2
  <2> QED
    BY <2>1, <2>2, EntitlementRows
<1>2. CASE e \in seen
  <2>1. e.session \in Request /\ entitlement[e.session] # None
    BY <1>2, <1>t DEF MarkedMeansGranted, TypeOK, Event
  <2> QED
    BY <2>1, <1>1
<1>3. CASE e \notin seen
  <2>1. WebhookMark /\ e = webhook.event
    BY <1>3 DEF Next, Checkout, CheckoutRead, CheckoutHistory, CheckoutReserve,
         CheckoutCreate, CheckoutAttach, CheckoutAnswer, CheckoutFail,
         Stripe, StripeComplete, StripeSettle, StripeExpire, StripeUpdate, StripeDelete, StripeRefund,
         WebhookStep, WebhookBegin, WebhookConsume, GrantAts90, SetSubscription,
         RetrieveSubscription, ApplyExpired, ApplySubscription, ApplyRefund, WebhookMark, WebhookFail,
         Crash, ReservationLapse, EntitlementLapse, vars, dbVars
  <2>2. entitlement[e.session] # None
    BY <2>1, <1>t DEF WebhookMark, WebhookProgress
  <2> QED
    BY <2>1, <2>2 DEF WebhookMark
<1> QED
  BY <1>2, <1>3

\* The inductive invariant holds in every reachable state.
THEOREM Invariance == Spec => []BillingInv
<1>1. BillingInv /\ [Next]_vars => BillingInv'
  BY TypeStep, ServedStep, ProgressStep, BackedStep, IntroStep, MarkedStep DEF BillingInv
<1> QED
  BY InitInv, <1>1, PTL DEF Spec

\* The tables hold rows of their schema, and the threads, the delivery and
\* Stripe's objects are in states the code knows.
THEOREM TypeCorrect == Spec => []TypeOK
<1>1. BillingInv => TypeOK
  BY DEF BillingInv
<1> QED
  BY <1>1, Invariance, PTL

\* At most one introductory licence per account, ever.
THEOREM IntroLicenceIsUnique == Spec => []OneIntroLicence
<1>1. BillingInv => OneIntroLicence
  BY DEF BillingInv
<1> QED
  BY <1>1, Invariance, PTL

\* No entitlement without its own completed checkout, and no introductory
\* licence without its payment.
THEOREM EntitlementsAreBacked == Spec => []EntitlementBacked
<1>1. BillingInv => EntitlementBacked
  BY DEF BillingInv
<1> QED
  BY <1>1, Invariance, PTL

\* Redelivery is only refused for completed checkouts that were granted.
THEOREM MarkingIsSound == Spec => []MarkedMeansGranted
<1>1. BillingInv => MarkedMeansGranted
  BY DEF BillingInv
<1> QED
  BY <1>1, Invariance, PTL

-----------------------------------------------------------------------------
(* Billing implements Licences.                                            *)

LEMMA PromiseInit == Init => Promise!LInit
  BY DEF Init, Promise!LInit, Order, Bought, Licence

\* The steps Licences can see: every other step leaves the orders, the
\* purchases and the licences as they are.
LEMMA HiddenStep ==
    ASSUME BillingInv, [Next]_vars
    PROVE  \/ \E r \in Request, a \in Account, k \in Sku : CheckoutRead(r, a, k)
           \/ \E r \in Request : StripeComplete(r) \/ StripeSettle(r)
           \/ GrantAts90 \/ SetSubscription \/ ApplySubscription \/ ApplyRefund
           \/ \A q \in Request : /\ Order(q)' = Order(q)
                                 /\ Bought(q)' = Bought(q)
                                 /\ Licence(q)' = Licence(q)
<1>t. TypeOK /\ SessionsServed
  BY DEF BillingInv
<1> DEFINE Hidden == \A q \in Request : /\ Order(q)' = Order(q)
                                        /\ Bought(q)' = Bought(q)
                                        /\ Licence(q)' = Licence(q)
<1>1. CASE UNCHANGED <<request, session, paid, entitlement>>
  BY <1>1 DEF Order, Bought, Licence
<1>2. ASSUME NEW r \in Request, NEW pc \in RequestPc, request[r].pc # "new", Goto(r, pc),
             UNCHANGED <<session, paid, entitlement>>
      PROVE  Hidden
  <2>1. request[r] \in [pc : RequestPc, account : Account, sku : Sku]
    BY <1>2, <1>t DEF TypeOK, RequestState
  <2>2. /\ request'[r] = [pc |-> pc, account |-> request[r].account, sku |-> request[r].sku]
        /\ \A q \in Request : q # r => request'[q] = request[q]
    BY <1>2, <2>1, <1>t DEF Goto, TypeOK
  <2>3. pc # "new"
    BY DEF RequestPc
  <2> QED
    BY <1>2, <2>2, <2>3 DEF Order, Bought, Licence
<1>3. ASSUME NEW r \in Request, NEW pc \in RequestPc, request[r].pc \notin {"new", "served"},
             Goto(r, pc), session' = [session EXCEPT ![r] = "open"], UNCHANGED <<paid, entitlement>>
      PROVE  Hidden
  <2>1. request[r] \in [pc : RequestPc, account : Account, sku : Sku]
    BY <1>3, <1>t DEF TypeOK, RequestState
  <2>2. /\ request'[r] = [pc |-> pc, account |-> request[r].account, sku |-> request[r].sku]
        /\ \A q \in Request : q # r => request'[q] = request[q]
    BY <1>3, <2>1, <1>t DEF Goto, TypeOK
  <2>3. pc # "new"
    BY DEF RequestPc
  <2>4. session[r] # "complete"
    BY <1>3, <1>t DEF SessionsServed
  <2>5. \A q \in Request : Bought(q)' = Bought(q)
    BY <1>3, <2>4, <1>t DEF Bought, TypeOK
  <2> QED
    BY <1>3, <2>2, <2>3, <2>5 DEF Order, Licence
<1>4. ASSUME NEW r \in Request, CheckoutReserve(r) PROVE Hidden
  <2>1. Goto(r, "refused") \/ Goto(r, "create")
    BY <1>4 DEF CheckoutReserve
  <2> QED
    BY <1>4, <2>1, <1>2 DEF CheckoutReserve, stripeVars, RequestPc
<1>5. ASSUME NEW r \in Request, CheckoutHistory(r) PROVE Hidden
  BY <1>5, <1>2 DEF CheckoutHistory, stripeVars, dbVars, RequestPc
<1>6. ASSUME NEW r \in Request, CheckoutAttach(r) PROVE Hidden
  BY <1>6, <1>2 DEF CheckoutAttach, stripeVars, RequestPc
<1>7. ASSUME NEW r \in Request, CheckoutAnswer(r) PROVE Hidden
  BY <1>7, <1>2 DEF CheckoutAnswer, stripeVars, dbVars, RequestPc
<1>8. ASSUME NEW r \in Request, CheckoutCreate(r) PROVE Hidden
  BY <1>8, <1>3 DEF CheckoutCreate, dbVars, RequestPc
<1>9. ASSUME NEW r \in Request, CheckoutFail(r) PROVE Hidden
  BY <1>9, <1>2, <1>3 DEF CheckoutFail, RequestPc
<1>10. ASSUME NEW r \in Request, StripeExpire(r) PROVE Hidden
  BY <1>10, <1>t DEF StripeExpire, dbVars, Order, Bought, Licence, TypeOK
<1>11. ASSUME NEW r \in Request, EntitlementLapse(r) PROVE Hidden
  <2>1. entitlement[r] \in Entitlement /\ entitlement[r] # None
    BY <1>11, <1>t DEF EntitlementLapse, TypeOK
  <2> DEFINE new == [entitlement[r] EXCEPT !.lapsed = TRUE]
  <2>2. new \in Entitlement /\ new.status = entitlement[r].status
    BY <2>1 DEF Entitlement
  <2>3. entitlement' = [entitlement EXCEPT ![r] = new]
    BY <1>11 DEF EntitlementLapse
  <2> HIDE DEF new
  <2>4. Licence(r)' = Licence(r)
    BY <2>1, <2>2, <2>3, <1>t DEF Licence, TypeOK
  <2>5. \A q \in Request : q # r => Licence(q)' = Licence(q)
    BY <2>3, <1>t DEF Licence, TypeOK
  <2> QED
    BY <1>11, <2>4, <2>5 DEF EntitlementLapse, stripeVars, Order, Bought
<1>12. CASE Crash
  <2>1. \A q \in Request : Order(q)' = Order(q)
    <3> SUFFICES ASSUME NEW q \in Request PROVE Order(q)' = Order(q)
      OBVIOUS
    <3>1. CASE InFlight(q)
      <4>1. request[q] \in [pc : RequestPc, account : Account, sku : Sku]
        BY <3>1, <1>t DEF InFlight, TypeOK, RequestState
      <4>2. request'[q] = [pc |-> "refused", account |-> request[q].account, sku |-> request[q].sku]
        BY <1>12, <3>1, <4>1 DEF Crash
      <4> QED
        BY <4>1, <4>2 DEF Order, RequestPc
    <3>2. CASE ~InFlight(q)
      BY <1>12, <3>2 DEF Crash, Order
    <3> QED
      BY <3>1, <3>2
  <2> QED
    BY <1>12, <2>1 DEF Crash, dbVars, stripeVars, Bought, Licence
<1>13. ASSUME NEW r \in Request, StripeUpdate(r) \/ StripeDelete(r) \/ StripeRefund(r)
       PROVE  UNCHANGED <<request, session, paid, entitlement>>
  BY <1>13 DEF StripeUpdate, StripeDelete, StripeRefund, dbVars
<1>14. ASSUME \/ WebhookConsume \/ RetrieveSubscription \/ ApplyExpired \/ WebhookMark \/ WebhookFail
              \/ \E e \in events : WebhookBegin(e)
              \/ \E x \in Account \X Sku : ReservationLapse(x)
              \/ UNCHANGED vars
       PROVE  UNCHANGED <<request, session, paid, entitlement>>
  BY <1>14 DEF WebhookBegin, WebhookConsume, RetrieveSubscription, ApplyExpired, WebhookMark,
               WebhookFail, ReservationLapse, vars, dbVars, stripeVars
<1>15. Next \/ UNCHANGED vars
  OBVIOUS
<1> HIDE DEF Hidden
<1>16. CASE \E r \in Request : Checkout(r) \/ Stripe(r) \/ EntitlementLapse(r)
  BY <1>16, <1>1, <1>4, <1>5, <1>6, <1>7, <1>8, <1>9, <1>10, <1>11, <1>13 DEF Checkout, Stripe, Hidden
<1>17. CASE WebhookStep
  BY <1>17, <1>1, <1>14 DEF WebhookStep, Hidden
<1>18. CASE \/ \E e \in events : WebhookBegin(e)
            \/ WebhookFail \/ Crash \/ UNCHANGED vars
            \/ \E x \in Account \X Sku : ReservationLapse(x)
  BY <1>18, <1>1, <1>12, <1>14 DEF Hidden
<1> QED
  BY <1>15, <1>16, <1>17, <1>18 DEF Next

\* What the licences of other purchases see of one row's change: nothing.
LEMMA OneRow ==
    ASSUME TypeOK, NEW r \in Request, NEW new \in Entitlement,
           entitlement' = [entitlement EXCEPT ![r] = new]
    PROVE  [q \in Request |-> Licence(q)]' =
             [[q \in Request |-> Licence(q)] EXCEPT ![r] = new.status]
  BY DEF TypeOK, Licence

\* A purchase that has a row asked for what the row says.
LEMMA RowOrder ==
    ASSUME TypeOK, SessionsServed, EntitlementBacked, NEW q \in Request, entitlement[q] # None
    PROVE  /\ Order(q) = [account |-> entitlement[q].account, sku |-> entitlement[q].sku]
           /\ Bought(q) # "no"
           /\ entitlement[q] \in Entitlement
           /\ Licence(q) = entitlement[q].status
<1>1. session[q] = "complete" /\ request[q].pc = "served"
  BY DEF EntitlementBacked, SessionsServed
<1> QED
  BY <1>1 DEF EntitlementBacked, Order, Bought, Licence, TypeOK

\* Every step of billing is a step of Licences or invisible to it.
LEMMA PromiseStep == BillingInv /\ [Next]_vars => [Promise!LNext]_(Promise!lvars)
<1> SUFFICES ASSUME BillingInv, [Next]_vars PROVE [Promise!LNext]_(Promise!lvars)
  OBVIOUS
<1>t. TypeOK /\ SessionsServed /\ EntitlementBacked /\ WebhookProgress
  BY DEF BillingInv
<1> DEFINE order   == [q \in Request |-> Order(q)]
           bought  == [q \in Request |-> Bought(q)]
           licence == [q \in Request |-> Licence(q)]
<1>1. ASSUME NEW r \in Request, NEW a \in Account, NEW k \in Sku, CheckoutRead(r, a, k)
      PROVE  Promise!Ask(r)
  <2>1. /\ request[r].pc = "new"
        /\ UNCHANGED <<session, paid, entitlement>>
    BY <1>1 DEF CheckoutRead, dbVars, stripeVars
  <2>2. PICK pc \in {"refused", "history", "reserve"} :
          request' = [request EXCEPT ![r] = [account |-> a, sku |-> k, pc |-> pc]]
    BY <1>1 DEF CheckoutRead
  <2>3. order' = [order EXCEPT ![r] = [account |-> a, sku |-> k]]
    BY <2>2, <1>t DEF Order, TypeOK
  <2>4. bought' = bought /\ licence' = licence
    BY <2>1 DEF Bought, Licence
  <2>5. order[r] = None
    BY <2>1 DEF Order
  <2> QED
    BY <2>3, <2>4, <2>5 DEF Promise!Ask, Promise!Order
<1>2. ASSUME NEW r \in Request, StripeComplete(r) \/ StripeSettle(r)
      PROVE  Promise!Buy(r)
  <2>1. UNCHANGED <<request, entitlement>>
    BY <1>2 DEF StripeComplete, StripeSettle, dbVars
  <2>2. order' = order /\ licence' = licence
    BY <2>1 DEF Order, Licence
  <2>3. request[r].pc = "served"
    BY <1>2, <1>t DEF StripeComplete, StripeSettle, SessionsServed
  <2>4. order[r] # None
    <3>1. request[r] \in [pc : RequestPc, account : Account, sku : Sku]
      BY <2>3, <1>t DEF TypeOK, RequestState
    <3> QED
      BY <2>3, <3>1 DEF Order
  <2>5. CASE StripeComplete(r)
    <3>1. PICK p \in BOOLEAN : paid' = [paid EXCEPT ![r] = p]
      BY <2>5 DEF StripeComplete
    <3>2. bought' = [bought EXCEPT ![r] = IF p THEN "paid" ELSE "unpaid"] /\ bought[r] = "no"
      BY <2>5, <3>1, <1>t DEF StripeComplete, Bought, TypeOK
    <3> QED
      BY <2>2, <2>4, <3>2 DEF Promise!Buy
  <2>6. CASE StripeSettle(r)
    <3>1. bought' = [bought EXCEPT ![r] = "paid"] /\ bought[r] = "unpaid"
      BY <2>6, <1>t DEF StripeSettle, Bought, TypeOK
    <3> QED
      BY <2>2, <2>4, <3>1 DEF Promise!Buy
  <2> QED
    BY <1>2, <2>5, <2>6
<1>3. CASE GrantAts90
  <2> DEFINE r == webhook.event.session
             a == request[r].account
             new == [account |-> a, sku |-> Ats90, status |-> "active", lapsed |-> FALSE]
  <2>1. UNCHANGED <<request, session, paid>> /\ webhook.pc = "grant"
    BY <1>3 DEF GrantAts90, stripeVars
  <2>2. order' = order /\ bought' = bought
    BY <2>1 DEF Order, Bought
  <2>3. CASE UNCHANGED entitlement
    <3>1. licence' = licence
      BY <2>3 DEF Licence
    <3> QED
      BY <2>2, <3>1 DEF Promise!lvars
  <2>4. CASE ~UNCHANGED entitlement
    <3>1. /\ webhook.paid /\ ~HasHistory(a, Ats90)
          /\ entitlement' = [entitlement EXCEPT ![r] = new]
      BY <1>3, <2>4 DEF GrantAts90
    <3>2. /\ r \in Request /\ a \in Account
          /\ request[r].pc = "served" /\ session[r] = "complete"
      BY <2>1, DeliveredRequest
    <3>3. new \in Entitlement /\ new.status = "active"
      BY <3>2 DEF Entitlement, Sku
    <3>4. request[r].sku = Ats90 /\ paid[r]
      BY <2>1, <3>1, <1>t DEF WebhookProgress
    <3>5. order[r] = [account |-> a, sku |-> Ats90] /\ bought[r] = "paid"
      BY <3>2, <3>4 DEF Order, Bought
    <3>6. entitlement[r] = None
      BY <3>1, <3>2, <3>4, <1>t DEF HasHistory, EntitlementBacked
    <3>7. licence[r] = "none"
      BY <3>2, <3>6 DEF Licence
    <3>8. licence' = [licence EXCEPT ![r] = "active"]
      <4> HIDE DEF new, r
      <4> QED
        BY <3>1, <3>2, <3>3, <1>t, OneRow
    <3>9. ~Promise!IntroTaken(a)
      <4> SUFFICES ASSUME NEW q \in Request, licence[q] # "none",
                          order[q] = [account |-> a, sku |-> Ats90]
                   PROVE  FALSE
        BY DEF Promise!IntroTaken
      <4>1. entitlement[q] # None
        BY DEF Licence
      <4>2. entitlement[q].account = a /\ entitlement[q].sku = Ats90
        BY <4>1, <1>t, RowOrder
      <4> QED
        BY <3>1, <4>1, <4>2 DEF HasHistory
    <3> HIDE DEF order, bought, licence
    <3>10. Promise!Grant(r)
      BY <2>2, <3>5, <3>7, <3>8, <3>9 DEF Promise!Grant, order, bought, licence
    <3> QED
      BY <3>2, <3>10 DEF Promise!LNext
  <2> QED
    BY <2>3, <2>4
<1>4. CASE SetSubscription
  <2> DEFINE r == webhook.event.session
  <2>1. UNCHANGED <<request, session, paid>> /\ webhook.pc = "set"
    BY <1>4 DEF SetSubscription, stripeVars
  <2>2. order' = order /\ bought' = bought
    BY <2>1 DEF Order, Bought
  <2>3. /\ r \in Request
        /\ request[r].pc = "served" /\ session[r] = "complete"
        /\ request[r] \in [pc : RequestPc, account : Account, sku : Sku]
    BY <2>1, DeliveredRequest
  <2>4. request[r].sku # Ats90
    BY <2>1, <1>t DEF WebhookProgress
  <2>5. order[r] = [account |-> request[r].account, sku |-> request[r].sku] /\ bought[r] # "no"
    BY <2>3 DEF Order, Bought
  <2>6. PICK new \in Entitlement :
          /\ new.status \in {"active", "suspended"}
          /\ entitlement' = [entitlement EXCEPT ![r] = new]
    <3>1. Status(webhook.status) \in {"active", "suspended"}
      BY DEF Status
    <3>2. CASE entitlement[r] # None
      <4> DEFINE new == [[entitlement[r] EXCEPT !.status = Status(webhook.status)] EXCEPT !.lapsed = FALSE]
      <4>1. entitlement[r] \in Entitlement
        BY <2>3, <3>2, <1>t DEF TypeOK
      <4>2. new \in Entitlement /\ new.status \in {"active", "suspended"}
        BY <4>1, <3>1 DEF Entitlement
      <4>3. entitlement' = [entitlement EXCEPT ![r] = new]
        BY <1>4, <2>3, <3>2, <1>t DEF SetSubscription, TypeOK
      <4> QED
        BY <4>2, <4>3
    <3>3. CASE entitlement[r] = None
      <4> DEFINE new == [account |-> request[r].account, sku |-> request[r].sku,
                         status |-> Status(webhook.status), lapsed |-> FALSE]
      <4>1. new \in Entitlement /\ new.status \in {"active", "suspended"}
        BY <2>3, <3>1 DEF Entitlement
      <4>2. entitlement' = [entitlement EXCEPT ![r] = new]
        BY <1>4, <2>3, <3>3, <1>t DEF SetSubscription, TypeOK
      <4> QED
        BY <4>1, <4>2
    <3> QED
      BY <3>2, <3>3
  <2>7. licence' = [licence EXCEPT ![r] = new.status]
    <3> HIDE DEF r
    <3> QED
      BY <2>3, <2>6, <1>t, OneRow
  <2>8. order[r].sku # Ats90 /\ bought[r] # "no"
    BY <2>3, <2>4, <2>5
  <2>9. PICK st \in {"active", "suspended"} : licence' = [licence EXCEPT ![r] = st]
    BY <2>6, <2>7
  <2> HIDE DEF r
  <2>10. CASE licence[r] = "none"
    <3>1. Promise!Grant(r)
      BY <2>2, <2>8, <2>9, <2>10 DEF Promise!Grant
    <3> QED
      BY <2>3, <3>1 DEF Promise!LNext
  <2>11. CASE licence[r] # "none"
    <3>1. Promise!Follow(r)
      BY <2>2, <2>8, <2>9, <2>11 DEF Promise!Follow
    <3> QED
      BY <2>3, <3>1 DEF Promise!LNext
  <2> QED
    BY <2>10, <2>11
<1>5. CASE ApplySubscription
  <2> DEFINE r == webhook.event.session
  <2>1. UNCHANGED <<request, session, paid>> /\ r \in Request
    BY <1>5, <1>t, WebhookGoto DEF ApplySubscription, stripeVars, TypeOK
  <2>2. order' = order /\ bought' = bought
    BY <2>1 DEF Order, Bought
  <2>3. CASE ~HasSubscription(r)
    <3>1. licence' = licence
      BY <1>5, <2>3 DEF ApplySubscription, Licence
    <3> QED
      BY <2>2, <3>1 DEF Promise!lvars
  <2>4. CASE HasSubscription(r)
    <3>1. entitlement[r] # None /\ entitlement[r].sku # Ats90
      BY <2>4 DEF HasSubscription
    <3>2. /\ entitlement[r] \in Entitlement
          /\ order[r].sku # Ats90
          /\ licence[r] # "none"
      BY <2>1, <3>1, <1>t, RowOrder DEF Entitlement
    <3>3. PICK st \in {"active", "suspended"}, late \in BOOLEAN :
            entitlement' = [entitlement EXCEPT ![r].status = st, ![r].lapsed = late]
      BY <1>5, <2>4 DEF ApplySubscription, Status
    <3> DEFINE new == [[entitlement[r] EXCEPT !.status = st] EXCEPT !.lapsed = late]
    <3>4. new \in Entitlement /\ new.status = st
      BY <3>2 DEF Entitlement
    <3>5. entitlement' = [entitlement EXCEPT ![r] = new]
      BY <3>3, <2>1, <1>t DEF TypeOK
    <3> HIDE DEF new, r
    <3>6. licence' = [licence EXCEPT ![r] = st]
      BY <2>1, <3>4, <3>5, <1>t, OneRow
    <3> HIDE DEF order, bought, licence
    <3>7. Promise!Follow(r)
      BY <2>2, <3>2, <3>6 DEF Promise!Follow, order, bought, licence
    <3> QED
      BY <2>1, <3>7 DEF Promise!LNext
  <2> QED
    BY <2>3, <2>4
<1>6. CASE ApplyRefund
  <2> DEFINE r == webhook.event.session
  <2>1. UNCHANGED <<request, session, paid>> /\ r \in Request
    BY <1>6, <1>t, WebhookGoto DEF ApplyRefund, stripeVars, TypeOK
  <2>2. order' = order /\ bought' = bought
    BY <2>1 DEF Order, Bought
  <2>3. CASE ~HasIntent(r)
    <3>1. licence' = licence
      BY <1>6, <2>3 DEF ApplyRefund, Licence
    <3> QED
      BY <2>2, <3>1 DEF Promise!lvars
  <2>4. CASE HasIntent(r)
    <3>1. entitlement[r] # None /\ entitlement[r].sku = Ats90
      BY <2>4 DEF HasIntent
    <3>2. /\ entitlement[r] \in Entitlement
          /\ order[r].sku = Ats90
          /\ licence[r] # "none"
      BY <2>1, <3>1, <1>t, RowOrder DEF Entitlement
    <3> DEFINE new == [entitlement[r] EXCEPT !.status = "revoked"]
    <3>4. new \in Entitlement /\ new.status = "revoked"
      BY <3>2 DEF Entitlement
    <3>5. entitlement' = [entitlement EXCEPT ![r] = new]
      BY <1>6, <2>1, <2>4 DEF ApplyRefund
    <3> HIDE DEF new, r
    <3>6. licence' = [licence EXCEPT ![r] = "revoked"]
      BY <2>1, <3>4, <3>5, <1>t, OneRow
    <3> HIDE DEF order, bought, licence
    <3>7. Promise!Revoke(r)
      BY <2>2, <3>2, <3>6 DEF Promise!Revoke, order, bought, licence
    <3> QED
      BY <2>1, <3>7 DEF Promise!LNext
  <2> QED
    BY <2>3, <2>4
<1>7. CASE \A q \in Request : Order(q)' = Order(q) /\ Bought(q)' = Bought(q) /\ Licence(q)' = Licence(q)
  <2>1. order' = order /\ bought' = bought /\ licence' = licence
    BY <1>7
  <2> QED
    BY <2>1 DEF Promise!lvars
<1>8. \/ \E r \in Request : Promise!Ask(r) \/ Promise!Buy(r)
      \/ [Promise!LNext]_(Promise!lvars)
  BY <1>1, <1>2, <1>3, <1>4, <1>5, <1>6, <1>7, HiddenStep
<1> QED
  BY <1>8 DEF Promise!LNext

\* Whatever accounts, products and requests there are and however often the
\* service crashes, billing implements Licences.
THEOREM PromiseKept == Spec => KeepsPromise
<1>1. BillingInv /\ [Next]_vars => [Promise!LNext]_(Promise!lvars)
  BY PromiseStep
<1> QED
  BY PromiseInit, <1>1, Invariance, PTL DEF Spec, KeepsPromise, Promise!LSpec

-----------------------------------------------------------------------------
(* Running checkouts and their reservations. *)

Running == {"create", "attach", "answer"}

RowsNamed == \A x \in Account \X Sku :
    reservation[x] # None => reservation[x].session \in {None, reservation[x].holder}

ExpiredGone == \A e \in events : e.type = "expired" => session[e.session] = "expired"

LEMMA GotoFacts ==
    ASSUME TypeOK, NEW r \in Request, request[r].pc # "new", NEW p \in RequestPc, Goto(r, p)
    PROVE  /\ request'[r].pc = p
           /\ request'[r].sku = request[r].sku
           /\ Row(r)' = Row(r)
           /\ Row(r) \in Account \X Sku
           /\ \A q \in Request : q # r => request'[q] = request[q]
<1>1. request[r] \in [pc : RequestPc, account : Account, sku : Sku]
  BY DEF TypeOK, RequestState
<1>2. request' = [request EXCEPT ![r] = [request[r] EXCEPT !.pc = p]]
  BY DEF Goto, TypeOK
<1>3. /\ request'[r] = [request[r] EXCEPT !.pc = p]
      /\ \A q \in Request : q # r => request'[q] = request[q]
  BY <1>2 DEF TypeOK
<1>4. request'[r].pc = p /\ request'[r].account = request[r].account
      /\ request'[r].sku = request[r].sku
  BY <1>1, <1>3
<1> QED
  BY <1>1, <1>3, <1>4 DEF Row

LEMMA RowTyped ==
    ASSUME TypeOK, NEW r \in Request, request[r].pc # "new"
    PROVE  /\ Row(r) \in Account \X Sku
           /\ Row(r) = <<request[r].account, request[r].sku>>
           /\ request[r] \in [pc : RequestPc, account : Account, sku : Sku]
<1>1. request[r] \in [pc : RequestPc, account : Account, sku : Sku]
  BY DEF TypeOK, RequestState
<1> QED
  BY <1>1 DEF Row

\* Whoever has not moved, and whose reservation is as it was, still owns it.
LEMMA OwnedFrame ==
    ASSUME NEW r \in Request, Owned(r), request'[r] = request[r], session'[r] = session[r],
           request[r].pc \in Running => reservation'[Row(r)] = reservation[Row(r)]
    PROVE  Owned(r)'
<1>1. Row(r)' = Row(r)
  BY DEF Row
<1> QED
  BY <1>1 DEF Owned, Holds, InFlight, Running

LEMMA RowsSame ==
    ASSUME RowsNamed, UNCHANGED reservation PROVE RowsNamed'
BY DEF RowsNamed

\* A row is deleted.
LEMMA RowsReleased ==
    ASSUME TypeOK, RowsNamed, NEW x, Release(x)
    PROVE  /\ RowsNamed'
           /\ \A y \in Account \X Sku : y # x => reservation'[y] = reservation[y]
           /\ x \in Account \X Sku => reservation'[x] = None
<1>1. reservation' = [reservation EXCEPT ![x] = None]
  BY DEF Release
<1> QED
  BY <1>1 DEF TypeOK, RowsNamed

\* Two running checkouts do not work on the same row.
LEMMA RowsApart ==
    ASSUME NEW r \in Request, NEW q \in Request, q # r, Owned(r), Owned(q),
           request[r].pc \in Running, request[q].pc \in Running
    PROVE  Row(q) # Row(r)
BY DEF Owned, Holds, Running

\* The others while one checkout moves: if it has a row, they have not.
LEMMA OthersOwn ==
    ASSUME TypeOK, \A q \in Request : Owned(q), NEW r \in Request,
           \A q \in Request : q # r => request'[q] = request[q] /\ session'[q] = session[q],
           \A q \in Request : q # r /\ request[q].pc \in Running =>
               reservation'[Row(q)] = reservation[Row(q)],
           Owned(r)'
    PROVE  \A q \in Request : Owned(q)'
<1> SUFFICES ASSUME NEW q \in Request PROVE Owned(q)'
  OBVIOUS
<1>1. CASE q = r
  BY <1>1
<1>2. CASE q # r
  BY <1>2, OwnedFrame
<1> QED
  BY <1>1, <1>2

LEMMA ExpiredSame ==
    ASSUME ExpiredGone, UNCHANGED events,
           \A e \in events : session[e.session] = "expired" => session'[e.session] = "expired"
    PROVE  ExpiredGone'
BY DEF ExpiredGone

\* The steps of a checkout.
LEMMA CheckoutOwns ==
    ASSUME BillingInv, OwnedInv, NEW r \in Request, Checkout(r)
    PROVE  OwnedInv'
<1>t. /\ TypeOK /\ RowsNamed /\ ExpiredGone /\ r # None
      /\ \A q \in Request : Owned(q)
      /\ \A e \in events : e \in Event /\ e.session \in Request
  BY BillingAssumption DEF BillingInv, TypeOK, OwnedInv, RowsNamed, ExpiredGone, Event
<1>1. ASSUME NEW a \in Account, NEW k \in Sku, CheckoutRead(r, a, k) PROVE OwnedInv'
  <2>1. /\ request[r].pc = "new" /\ request'[r].pc \in {"refused", "history", "reserve"}
        /\ \A q \in Request : q # r => request'[q] = request[q]
        /\ UNCHANGED <<reservation, session, events>>
    BY <1>t, <1>1 DEF CheckoutRead, dbVars, stripeVars, TypeOK
  <2>2. Owned(r)'
    BY <1>t, <2>1 DEF Owned, InFlight
  <2>3. \A q \in Request : Owned(q)'
    BY <1>t, <2>1, <2>2, OthersOwn
  <2> QED
    BY <1>t, <2>1, <2>3, RowsSame, ExpiredSame DEF OwnedInv, RowsNamed, ExpiredGone
<1>2. CASE CheckoutHistory(r) \/ CheckoutAnswer(r)
  <2>1. PICK p \in RequestPc :
          /\ Goto(r, p)
          /\ \/ request[r].pc = "history" /\ p \in {"refused", "reserve"}
             \/ request[r].pc = "answer" /\ p = "served"
          /\ UNCHANGED <<reservation, session, events>>
    BY <1>2 DEF CheckoutHistory, CheckoutAnswer, dbVars, stripeVars, RequestPc
  <2>2. /\ request'[r].pc = p
        /\ \A q \in Request : q # r => request'[q] = request[q]
    BY <1>t, <2>1, GotoFacts
  <2>3. Owned(r)'
    BY <1>t, <2>1, <2>2 DEF Owned, InFlight
  <2>4. \A q \in Request : Owned(q)'
    BY <1>t, <2>1, <2>2, <2>3, OthersOwn
  <2> QED
    BY <1>t, <2>1, <2>4, RowsSame, ExpiredSame DEF OwnedInv, RowsNamed, ExpiredGone
<1>3. CASE CheckoutReserve(r)
  <2>1. request[r].pc = "reserve" /\ UNCHANGED <<session, events>>
    BY <1>3 DEF CheckoutReserve, stripeVars
  <2>2. Row(r) \in Account \X Sku
    BY <1>t, <2>1, RowTyped
  <2>3. CASE Purged[Row(r)] # None
    <3>1. Goto(r, "refused") /\ UNCHANGED reservation /\ "refused" \in RequestPc
      BY <1>3, <2>3 DEF CheckoutReserve, RequestPc
    <3>2. /\ request'[r].pc = "refused"
          /\ \A q \in Request : q # r => request'[q] = request[q]
      BY <1>t, <2>1, <3>1, GotoFacts
    <3>3. Owned(r)'
      BY <1>t, <2>1, <3>2 DEF Owned, InFlight
    <3>4. \A q \in Request : Owned(q)'
      BY <1>t, <2>1, <3>1, <3>2, <3>3, OthersOwn
    <3> QED
      BY <1>t, <2>1, <3>1, <3>4, RowsSame, ExpiredSame DEF OwnedInv, RowsNamed, ExpiredGone
  <2>4. CASE Purged[Row(r)] = None
    <3> DEFINE new == [holder |-> r, session |-> None, lapsed |-> FALSE]
    <3>1. /\ Goto(r, "create") /\ "create" \in RequestPc
          /\ reservation' = [Purged EXCEPT ![Row(r)] = new]
      BY <1>3, <2>4 DEF CheckoutReserve, RequestPc
    <3>2. /\ request'[r].pc = "create" /\ Row(r)' = Row(r)
          /\ \A q \in Request : q # r => request'[q] = request[q]
      BY <1>t, <2>1, <3>1, GotoFacts
    <3>3. /\ reservation'[Row(r)] = new
          /\ \A x \in Account \X Sku :
                x # Row(r) => reservation'[x] = IF reservation[x] # None /\ reservation[x].lapsed
                                                THEN None ELSE reservation[x]
      BY <2>2, <3>1 DEF Purged
    <3>9. new \in Reservation /\ new.holder = r /\ new.session = None /\ new.lapsed = FALSE
      BY DEF Reservation
    <3> HIDE DEF new
    <3>4. new # None /\ new.holder = r /\ new.session = None /\ new.lapsed = FALSE
      BY <3>9, NoneAssumption
    <3>5. Owned(r)'
      BY <1>t, <2>1, <3>2, <3>3, <3>4 DEF Owned, Holds, InFlight
    <3>6. ASSUME NEW q \in Request, q # r, request[q].pc \in Running
          PROVE  reservation'[Row(q)] = reservation[Row(q)]
      <4>1. /\ Holds(q) /\ ~reservation[Row(q)].lapsed /\ Row(q) \in Account \X Sku
        BY <1>t, <3>6, RowTyped DEF Owned, Running
      <4>2. Row(q) # Row(r)
        BY <2>2, <2>4, <4>1 DEF Purged, Holds
      <4> QED
        BY <3>3, <4>1, <4>2
    <3>7. \A q \in Request : Owned(q)'
      BY <1>t, <2>1, <3>2, <3>5, <3>6, OthersOwn
    <3>8. RowsNamed'
      BY <1>t, <2>2, <3>3, <3>4 DEF RowsNamed
    <3> QED
      BY <1>t, <2>1, <3>7, <3>8, ExpiredSame DEF OwnedInv, RowsNamed, ExpiredGone
  <2> QED
    BY <2>3, <2>4
<1>4. CASE CheckoutCreate(r)
  <2>1. /\ request[r].pc = "create" /\ Goto(r, "attach") /\ "attach" \in RequestPc
        /\ session' = [session EXCEPT ![r] = "open"]
        /\ UNCHANGED <<reservation, events>>
    BY <1>4 DEF CheckoutCreate, dbVars, RequestPc
  <2>2. /\ request'[r].pc = "attach" /\ Row(r)' = Row(r)
        /\ \A q \in Request : q # r => request'[q] = request[q]
    BY <1>t, <2>1, GotoFacts
  <2>3. session'[r] = "open" /\ \A q \in Request : q # r => session'[q] = session[q]
    BY <1>t, <2>1 DEF TypeOK
  <2>4. session[r] = "absent"
    BY <1>t, <2>1 DEF Owned
  <2>5. Owned(r)'
    BY <1>t, <2>1, <2>2, <2>3 DEF Owned, Holds, InFlight
  <2>6. \A q \in Request : Owned(q)'
    BY <1>t, <2>1, <2>2, <2>3, <2>5, OthersOwn
  <2>7. \A e \in events : session[e.session] = "expired" => session'[e.session] = "expired"
    BY <1>t, <2>3, <2>4
  <2> QED
    BY <1>t, <2>1, <2>6, <2>7, RowsSame, ExpiredSame DEF OwnedInv, RowsNamed, ExpiredGone
<1>5. CASE CheckoutAttach(r)
  <2>1. /\ request[r].pc = "attach" /\ UNCHANGED <<session, events>>
    BY <1>5 DEF CheckoutAttach, stripeVars
  <2>2. Holds(r) /\ ~reservation[Row(r)].lapsed /\ Row(r) \in Account \X Sku
    BY <1>t, <2>1, RowTyped DEF Owned
  <2>3. /\ reservation' = [reservation EXCEPT ![Row(r)].session = r]
        /\ Goto(r, "answer") /\ "answer" \in RequestPc
    BY <1>5, <2>2 DEF CheckoutAttach, RequestPc
  <2>4. /\ request'[r].pc = "answer" /\ Row(r)' = Row(r)
        /\ \A q \in Request : q # r => request'[q] = request[q]
    BY <1>t, <2>1, <2>3, GotoFacts
  <2>5. /\ reservation[Row(r)] \in Reservation
        /\ reservation'[Row(r)] = [reservation[Row(r)] EXCEPT !.session = r]
        /\ \A x \in Account \X Sku : x # Row(r) => reservation'[x] = reservation[x]
    BY <1>t, <2>2, <2>3 DEF TypeOK, Holds
  <2>6. /\ reservation'[Row(r)] \in Reservation
        /\ reservation'[Row(r)].holder = r
        /\ reservation'[Row(r)].session = r
        /\ ~reservation'[Row(r)].lapsed
    BY <2>2, <2>5 DEF Reservation, Holds
  <2>7. reservation'[Row(r)] # None
    BY <2>6, NoneAssumption
  <2>8. Owned(r)'
    BY <1>t, <2>1, <2>4, <2>6, <2>7 DEF Owned, Holds, InFlight
  <2>9. \A q \in Request : q # r /\ request[q].pc \in Running =>
            reservation'[Row(q)] = reservation[Row(q)]
    BY <1>t, <2>1, <2>5, RowsApart, RowTyped DEF Running
  <2>10. \A q \in Request : Owned(q)'
    BY <1>t, <2>1, <2>4, <2>8, <2>9, OthersOwn
  <2>11. RowsNamed'
    BY <1>t, <2>5, <2>6 DEF RowsNamed
  <2> QED
    BY <1>t, <2>1, <2>10, <2>11, ExpiredSame DEF OwnedInv, RowsNamed, ExpiredGone
<1>6. CASE CheckoutFail(r)
  <2>1. /\ request[r].pc \in Running /\ Release(Row(r)) /\ Goto(r, "refused")
        /\ "refused" \in RequestPc /\ UNCHANGED events
        /\ \/ UNCHANGED session
           \/ session[r] = "absent" /\ session' = [session EXCEPT ![r] = "open"]
    BY <1>6 DEF CheckoutFail, Running, RequestPc
  <2>2. /\ request'[r].pc = "refused"
        /\ \A q \in Request : q # r => request'[q] = request[q]
    BY <1>t, <2>1, GotoFacts DEF Running
  <2>3. /\ \A q \in Request : q # r => session'[q] = session[q]
        /\ session[r] = "expired" => session'[r] = "expired"
    BY <1>t, <2>1 DEF TypeOK
  <2>4. Owned(r)'
    BY <2>2 DEF Owned, InFlight
  <2>5. /\ RowsNamed'
        /\ \A y \in Account \X Sku : y # Row(r) => reservation'[y] = reservation[y]
    BY <1>t, <2>1, RowsReleased
  <2>6. \A q \in Request : q # r /\ request[q].pc \in Running =>
            reservation'[Row(q)] = reservation[Row(q)]
    BY <1>t, <2>1, <2>5, RowsApart, RowTyped DEF Running
  <2>7. \A q \in Request : Owned(q)'
    BY <1>t, <2>2, <2>3, <2>4, <2>6, OthersOwn
  <2>8. \A e \in events : session[e.session] = "expired" => session'[e.session] = "expired"
    BY <1>t, <2>3
  <2> QED
    BY <1>t, <2>1, <2>5, <2>7, <2>8, ExpiredSame DEF OwnedInv, RowsNamed, ExpiredGone
<1> QED
  BY <1>1, <1>2, <1>3, <1>4, <1>5, <1>6 DEF Checkout

\* What is not a step of a checkout leaves its reservation, unless the delivery
\* of its own event, or its time, takes it.
LEMMA OutsideOwns ==
    ASSUME BillingInv, OwnedInv, UNCHANGED request,
           \A q \in Request : InFlight(q) => session'[q] = session[q],
           \A q \in Request : request[q].pc = "new" => session'[q] = session[q],
           \A q \in Request : request[q].pc \in Running => reservation'[Row(q)] = reservation[Row(q)]
    PROVE  \A q \in Request : Owned(q)'
<1> SUFFICES ASSUME NEW q \in Request PROVE Owned(q)'
  OBVIOUS
<1>1. Owned(q) /\ Row(q)' = Row(q)
  BY DEF OwnedInv, Row
<1>2. CASE session'[q] = session[q]
  BY <1>1, <1>2, OwnedFrame
<1>3. CASE session'[q] # session[q]
  BY <1>1, <1>3 DEF Owned, InFlight
<1> QED
  BY <1>2, <1>3

LEMMA OwnedStep ==
    ASSUME "stall" \notin Env, BillingInv, OwnedInv, [Next]_vars
    PROVE  OwnedInv'
<1>t. /\ TypeOK /\ RowsNamed /\ ExpiredGone /\ SessionsServed /\ WebhookProgress
      /\ \A q \in Request : Owned(q) /\ q # None
      /\ \A e \in events : e \in Event /\ e.session \in Request
  BY BillingAssumption DEF BillingInv, TypeOK, OwnedInv, RowsNamed, ExpiredGone, Event
<1>u. ASSUME UNCHANGED <<request, reservation, session>>, ExpiredGone'
      PROVE  OwnedInv'
  BY <1>t, <1>u, OutsideOwns, RowsSame DEF OwnedInv, RowsNamed, ExpiredGone
<1>e. ASSUME UNCHANGED <<request, reservation, session, events>>
      PROVE  OwnedInv'
  BY <1>t, <1>u, <1>e, ExpiredSame
<1>1. ASSUME NEW r \in Request, Checkout(r) PROVE OwnedInv'
  BY <1>1, CheckoutOwns
<1>2. ASSUME \/ \E r \in Request : EntitlementLapse(r)
             \/ \E e \in events : WebhookBegin(e)
             \/ GrantAts90 \/ RetrieveSubscription \/ SetSubscription \/ ApplySubscription
             \/ ApplyRefund \/ WebhookMark \/ WebhookFail
             \/ UNCHANGED vars
      PROVE  OwnedInv'
  <2>1. UNCHANGED <<request, reservation, session, events>>
    BY <1>2 DEF EntitlementLapse, WebhookBegin, GrantAts90, RetrieveSubscription,
       SetSubscription, ApplySubscription, ApplyRefund, WebhookMark, WebhookFail, vars, dbVars,
       stripeVars
  <2> QED
    BY <1>e, <2>1
<1>3. ASSUME NEW r \in Request, StripeSettle(r) PROVE OwnedInv'
  BY <1>e, <1>3 DEF StripeSettle, dbVars
<1>4. ASSUME NEW r \in Request, StripeUpdate(r) \/ StripeDelete(r) \/ StripeRefund(r)
      PROVE  OwnedInv'
  <2>1. /\ UNCHANGED <<request, reservation, session>>
        /\ \A e \in events' : e \in events \/ e.type # "expired"
    BY <1>4 DEF StripeUpdate, StripeDelete, StripeRefund, Emit, dbVars
  <2> QED
    BY <1>t, <1>u, <2>1 DEF ExpiredGone
<1>5. ASSUME NEW r \in Request, StripeComplete(r) PROVE OwnedInv'
  <2>1. /\ UNCHANGED <<request, reservation>>
        /\ request[r].pc = "served" /\ session[r] = "open"
        /\ session' = [session EXCEPT ![r] = "complete"]
        /\ \A e \in events' : e \in events \/ e.type # "expired"
    BY <1>5 DEF StripeComplete, Emit, dbVars
  <2>2. \A q \in Request : q # r => session'[q] = session[q]
    BY <1>t, <2>1 DEF TypeOK
  <2>3. \A q \in Request : Owned(q)'
    BY <2>1, <2>2, OutsideOwns DEF InFlight
  <2>4. ExpiredGone'
    BY <1>t, <2>1, <2>2 DEF ExpiredGone
  <2> QED
    BY <1>t, <2>1, <2>3, <2>4, RowsSame DEF OwnedInv, RowsNamed, ExpiredGone
<1>6. ASSUME NEW r \in Request, StripeExpire(r) PROVE OwnedInv'
  <2>1. /\ UNCHANGED <<request, reservation>>
        /\ ~InFlight(r) /\ session[r] = "open"
        /\ session' = [session EXCEPT ![r] = "expired"]
        /\ \A e \in events' : e \in events \/ e.session = r
    BY <1>6 DEF StripeExpire, Emit, dbVars
  <2>2. request[r].pc # "new"
    BY <1>t, <2>1 DEF SessionsServed
  <2>3. session'[r] = "expired" /\ \A q \in Request : q # r => session'[q] = session[q]
    BY <1>t, <2>1 DEF TypeOK
  <2>4. \A q \in Request : Owned(q)'
    BY <2>1, <2>2, <2>3, OutsideOwns
  <2>5. ExpiredGone'
    BY <1>t, <2>1, <2>3 DEF ExpiredGone
  <2> QED
    BY <1>t, <2>1, <2>4, <2>5, RowsSame DEF OwnedInv, RowsNamed, ExpiredGone
<1>7. ASSUME WebhookConsume PROVE OwnedInv'
  <2> DEFINE s == webhook.event.session
  <2>1. webhook.pc = "consume" /\ UNCHANGED <<request, session, events>>
    BY <1>7 DEF WebhookConsume, stripeVars
  <2>2. s \in Request /\ request[s].pc = "served"
    BY <2>1, DeliveredRequest
  <2>3. CASE UNCHANGED reservation
    BY <1>e, <2>1, <2>3
  <2>4. CASE reservation[Row(s)] # None /\ reservation[Row(s)].session = s /\ Release(Row(s))
    <3>1. /\ RowsNamed'
          /\ \A y \in Account \X Sku : y # Row(s) => reservation'[y] = reservation[y]
      BY <1>t, <2>4, RowsReleased
    <3>2. ASSUME NEW q \in Request, request[q].pc \in Running PROVE Row(q) # Row(s)
      <4>1. reservation[Row(q)].session \in {None, q}
        BY <1>t, <3>2 DEF Owned, Running
      <4>2. q # s
        BY <2>2, <3>2 DEF Running
      <4> QED
        BY <1>t, <2>2, <2>4, <4>1, <4>2
    <3>3. \A q \in Request : Owned(q)'
      BY <1>t, <2>1, <3>1, <3>2, OutsideOwns, RowTyped DEF Running
    <3> QED
      BY <1>t, <2>1, <3>1, <3>3, ExpiredSame DEF OwnedInv, RowsNamed, ExpiredGone
  <2> QED
    BY <1>7, <2>3, <2>4 DEF WebhookConsume
<1>8. ASSUME ApplyExpired PROVE OwnedInv'
  <2> DEFINE s == webhook.event.session
  <2>1. /\ webhook.pc = "apply" /\ webhook.event.type = "expired"
        /\ UNCHANGED <<request, session, events>>
        /\ reservation' = [x \in Account \X Sku |->
             IF reservation[x] # None /\ reservation[x].session = s
             THEN None ELSE reservation[x]]
    BY <1>8 DEF ApplyExpired, stripeVars
  <2>2. s \in Request /\ session[s] = "expired" /\ ~InFlight(s)
    BY <1>t, <2>1 DEF WebhookProgress, ExpiredGone, Owned
  <2>3. ASSUME NEW q \in Request, request[q].pc \in Running
        PROVE  reservation'[Row(q)] = reservation[Row(q)]
    <3>1. Row(q) \in Account \X Sku /\ reservation[Row(q)].session \in {None, q}
      BY <1>t, <2>3, RowTyped DEF Owned, Running
    <3>2. q # s
      BY <2>2, <2>3 DEF Running, InFlight
    <3> QED
      BY <1>t, <2>1, <2>2, <3>1, <3>2
  <2>4. \A q \in Request : Owned(q)'
    BY <2>1, <2>3, OutsideOwns
  <2>5. RowsNamed'
    BY <1>t, <2>1 DEF RowsNamed
  <2> QED
    BY <1>t, <2>1, <2>4, <2>5, ExpiredSame DEF OwnedInv, RowsNamed, ExpiredGone
<1>9. ASSUME Crash PROVE OwnedInv'
  <2>1. /\ UNCHANGED <<reservation, session, events>>
        /\ request' = [r \in Request |->
             IF InFlight(r) THEN [request[r] EXCEPT !.pc = "refused"] ELSE request[r]]
    BY <1>9 DEF Crash, dbVars, stripeVars
  <2>2. ASSUME NEW q \in Request PROVE Owned(q)'
    <3>1. CASE InFlight(q)
      <4>1. request[q] \in [pc : RequestPc, account : Account, sku : Sku]
        BY <1>t, <3>1, RowTyped DEF InFlight
      <4>2. request'[q].pc = "refused"
        BY <2>1, <3>1, <4>1
      <4> QED
        BY <4>2 DEF Owned, InFlight
    <3>2. CASE ~InFlight(q)
      BY <1>t, <2>1, <3>2, OwnedFrame
    <3> QED
      BY <3>1, <3>2
  <2> QED
    BY <1>t, <2>1, <2>2, RowsSame, ExpiredSame DEF OwnedInv, RowsNamed, ExpiredGone
<1>10. ASSUME NEW x \in Account \X Sku, ReservationLapse(x) PROVE OwnedInv'
  <2>1. /\ reservation[x] # None /\ ~InFlight(reservation[x].holder)
        /\ reservation' = [reservation EXCEPT ![x].lapsed = TRUE]
        /\ UNCHANGED <<request, session, events>>
    BY <1>10 DEF ReservationLapse, stripeVars
  <2>2. reservation[x] \in Reservation
    BY <1>t, <2>1 DEF TypeOK
  <2>3. /\ \A y \in Account \X Sku : y # x => reservation'[y] = reservation[y]
        /\ reservation'[x] = [reservation[x] EXCEPT !.lapsed = TRUE]
    BY <1>t, <2>1 DEF TypeOK
  <2>4. /\ reservation'[x].session = reservation[x].session
        /\ reservation'[x].holder = reservation[x].holder
    BY <2>2, <2>3 DEF Reservation
  <2>5. ASSUME NEW q \in Request, request[q].pc \in Running
        PROVE  reservation'[Row(q)] = reservation[Row(q)]
    <3>1. Row(q) \in Account \X Sku /\ reservation[Row(q)].holder = q /\ InFlight(q)
      BY <1>t, <2>5, RowTyped DEF Owned, Running, Holds, InFlight
    <3> QED
      BY <2>1, <2>3, <3>1
  <2>6. \A q \in Request : Owned(q)'
    BY <2>1, <2>5, OutsideOwns
  <2>7. RowsNamed'
    BY <1>t, <2>1, <2>3, <2>4 DEF RowsNamed
  <2> QED
    BY <1>t, <2>1, <2>6, <2>7, ExpiredSame DEF OwnedInv, RowsNamed, ExpiredGone
<1> QED
  BY <1>1, <1>2, <1>3, <1>4, <1>5, <1>6, <1>7, <1>8, <1>9, <1>10 DEF Next, Stripe, WebhookStep

LEMMA InitOwned == Init => OwnedInv
BY DEF Init, OwnedInv, Owned, InFlight

\* Where no handler stalls, a checkout that is still running owns its
\* reservation: the release of its except clause never takes another's.
THEOREM CheckoutsOwnReservations ==
    ASSUME "stall" \notin Env
    PROVE  Spec => []RunningCheckoutOwnsReservation
<1>1. OwnedInv => RunningCheckoutOwnsReservation
  BY DEF OwnedInv, Owned, RunningCheckoutOwnsReservation
<1>2. BillingInv /\ OwnedInv /\ [Next]_vars => OwnedInv'
  BY OwnedStep
<1> QED
  BY <1>1, <1>2, InitOwned, Invariance, PTL DEF Spec

-----------------------------------------------------------------------------
(* Paid checkouts and their entitlements. *)

Smooth == /\ Env \cap {"stripe_error", "delayed_payment", "reservation_lapse", "stall"} = {}
          /\ MaxCrashes = 0

Reserved(r) == Holds(r) /\ reservation[Row(r)].session = r

Unlapsed == \A x \in Account \X Sku : reservation[x] # None => ~reservation[x].lapsed

PaidInFull == \A r \in Request : session[r] = "complete" => paid[r]

ServedReserved ==
    \A r \in Request : request[r].pc = "served" /\ session[r] = "open" => Reserved(r)

Granting == {"consume", "retrieve", "grant", "set"}

\* Where nothing fails these steps do not happen.
LEMMA NothingFails ==
    ASSUME Smooth, TypeOK
    PROVE  /\ ~Crash /\ ~WebhookFail
           /\ \A r \in Request : ~CheckoutFail(r)
           /\ \A x \in Account \X Sku : ~ReservationLapse(x)
BY BillingAssumption DEF Smooth, TypeOK, Crash, WebhookFail, CheckoutFail, ReservationLapse

\* No row is past its time.
LEMMA UnlapsedStep ==
    ASSUME Smooth, BillingInv, OwnedInv, Unlapsed, [Next]_vars
    PROVE  Unlapsed'
<1>t. TypeOK
  BY DEF BillingInv
<1> USE DEF Unlapsed
<1>1. CASE UNCHANGED reservation
  BY <1>1
<1>2. ASSUME NEW x, Release(x) PROVE Unlapsed'
  BY <1>t, <1>2 DEF Release, TypeOK
<1>3. ASSUME NEW r \in Request, CheckoutReserve(r) PROVE Unlapsed'
  <2> DEFINE new == [holder |-> r, session |-> None, lapsed |-> FALSE]
  <2>1. CASE reservation' = [Purged EXCEPT ![Row(r)] = new]
    <3>1. \A x \in Account \X Sku : reservation'[x] \in {None, reservation[x], new}
      BY <2>1 DEF Purged
    <3> QED
      BY <3>1
  <2> QED
    BY <1>1, <1>3, <2>1 DEF CheckoutReserve
<1>4. ASSUME NEW r \in Request, CheckoutAttach(r) PROVE Unlapsed'
  <2>1. CASE Holds(r)
    <3>1. /\ request[r].pc = "attach"
          /\ reservation' = [reservation EXCEPT ![Row(r)].session = r]
      BY <1>4, <2>1 DEF CheckoutAttach
    <3>2. Row(r) \in Account \X Sku /\ reservation[Row(r)] \in Reservation
      BY <1>t, <2>1, <3>1, RowTyped DEF Holds, TypeOK
    <3>3. /\ reservation'[Row(r)] = [reservation[Row(r)] EXCEPT !.session = r]
          /\ \A x \in Account \X Sku : x # Row(r) => reservation'[x] = reservation[x]
      BY <1>t, <3>1, <3>2 DEF TypeOK
    <3>4. reservation'[Row(r)].lapsed = reservation[Row(r)].lapsed
      BY <3>2, <3>3 DEF Reservation
    <3> QED
      BY <2>1, <3>2, <3>3, <3>4 DEF Holds
  <2>2. CASE ~Holds(r)
    BY <1>2, <1>4, <2>2 DEF CheckoutAttach
  <2> QED
    BY <2>1, <2>2
<1>5. ASSUME ApplyExpired PROVE Unlapsed'
  BY <1>5 DEF ApplyExpired
<1>6. ASSUME WebhookConsume PROVE Unlapsed'
  BY <1>1, <1>2, <1>6 DEF WebhookConsume
<1> QED
  BY <1>1, <1>3, <1>4, <1>5, <1>6, <1>t, NothingFails
     DEF Next, Checkout, Stripe, WebhookStep, CheckoutRead, CheckoutHistory, CheckoutCreate,
         CheckoutAnswer, WebhookBegin, GrantAts90, SetSubscription, RetrieveSubscription,
         ApplySubscription, ApplyRefund, WebhookMark, EntitlementLapse, StripeComplete,
         StripeSettle, StripeExpire, StripeUpdate, StripeDelete, StripeRefund, vars, dbVars,
         stripeVars

\* The reservation of a served checkout is used up by its own event, or by the
\* expiry of its session, and by nothing else.
LEMMA ReservedStep ==
    ASSUME Smooth, BillingInv, OwnedInv, Unlapsed, [Next]_vars,
           NEW r \in Request, request[r].pc = "served", session[r] # "expired", Reserved(r)
    PROVE  \/ Reserved(r)'
           \/ WebhookConsume /\ webhook.event.session = r
<1>t. TypeOK /\ WebhookProgress /\ ExpiredGone
  BY DEF BillingInv, OwnedInv, ExpiredGone
<1>1. /\ Row(r) \in Account \X Sku
      /\ reservation[Row(r)] \in Reservation
      /\ reservation[Row(r)].holder = r
      /\ reservation[Row(r)].session = r
      /\ reservation[Row(r)] # None
      /\ ~reservation[Row(r)].lapsed
  BY <1>t, RowTyped DEF Reserved, Holds, TypeOK, Unlapsed
<1>2. request'[r] = request[r] /\ Row(r)' = Row(r)
  <2>1. request'[r] = request[r]
    <3>1. ASSUME NEW q \in Request, Checkout(q) PROVE request'[r] = request[r]
      BY <3>1, <1>t DEF TypeOK, Checkout, CheckoutRead, CheckoutHistory, CheckoutReserve,
         CheckoutCreate, CheckoutAttach, CheckoutAnswer, CheckoutFail, Goto
    <3> QED
      BY <1>t, <3>1, NothingFails
         DEF Next, Stripe, WebhookStep, WebhookBegin, WebhookConsume, GrantAts90, SetSubscription,
             RetrieveSubscription, ApplyExpired, ApplySubscription, ApplyRefund, WebhookMark,
             EntitlementLapse, StripeComplete, StripeSettle, StripeExpire, StripeUpdate,
             StripeDelete, StripeRefund, vars, dbVars, stripeVars
  <2> QED
    BY <2>1 DEF Row
<1>3. SUFFICES \/ reservation'[Row(r)] = reservation[Row(r)]
               \/ WebhookConsume /\ webhook.event.session = r
  BY <1>1, <1>2 DEF Reserved, Holds
<1>4. CASE UNCHANGED reservation
  BY <1>4
<1>5. ASSUME NEW q \in Request, CheckoutReserve(q) PROVE reservation'[Row(r)] = reservation[Row(r)]
  <2>1. Purged[Row(r)] = reservation[Row(r)]
    BY <1>1 DEF Purged
  <2>2. CASE Row(q) = Row(r)
    BY <1>1, <1>5, <2>1, <2>2 DEF CheckoutReserve
  <2>3. CASE Row(q) # Row(r)
    BY <1>1, <1>5, <2>1, <2>3 DEF CheckoutReserve, Purged
  <2> QED
    BY <2>2, <2>3
<1>6. ASSUME NEW q \in Request, CheckoutAttach(q) PROVE reservation'[Row(r)] = reservation[Row(r)]
  <2>1. request[q].pc = "attach" /\ q # r
    BY <1>6 DEF CheckoutAttach
  <2>2. Holds(q)
    BY <2>1 DEF OwnedInv, Owned
  <2>3. Row(q) # Row(r)
    BY <1>1, <2>1, <2>2 DEF Holds
  <2>4. reservation' = [reservation EXCEPT ![Row(q)].session = q]
    BY <1>6, <2>2 DEF CheckoutAttach
  <2> QED
    BY <1>t, <1>1, <2>3, <2>4 DEF TypeOK
<1>7. ASSUME WebhookConsume, webhook.event.session # r
      PROVE  reservation'[Row(r)] = reservation[Row(r)]
  <2> DEFINE s == webhook.event.session
  <2>1. CASE reservation[Row(s)].session = s /\ Release(Row(s))
    <3>1. Row(s) # Row(r)
      BY <1>1, <1>7, <2>1
    <3> QED
      BY <1>t, <1>1, <2>1, <3>1 DEF Release, TypeOK
  <2> QED
    BY <1>7, <2>1 DEF WebhookConsume
<1>8. ASSUME ApplyExpired PROVE reservation'[Row(r)] = reservation[Row(r)]
  <2>1. webhook.pc = "apply" /\ webhook.event.type = "expired"
    BY <1>8 DEF ApplyExpired
  <2>2. session[webhook.event.session] = "expired"
    BY <1>t, <2>1 DEF WebhookProgress, ExpiredGone
  <2>3. webhook.event.session # r
    BY <2>2
  <2> QED
    BY <1>1, <1>8, <2>3 DEF ApplyExpired
<1> QED
  BY <1>4, <1>5, <1>6, <1>7, <1>8, <1>t, NothingFails
     DEF Next, Checkout, Stripe, WebhookStep, CheckoutRead, CheckoutHistory, CheckoutCreate,
         CheckoutAnswer, WebhookBegin, GrantAts90, SetSubscription, RetrieveSubscription,
         ApplySubscription, ApplyRefund, WebhookMark, EntitlementLapse, StripeComplete,
         StripeSettle, StripeExpire, StripeUpdate, StripeDelete, StripeRefund, vars, dbVars,
         stripeVars

\* What the customer completes is paid, and paid it stays.
LEMMA PaidStep ==
    ASSUME Smooth, BillingInv, PaidInFull, [Next]_vars, NEW r \in Request,
           session'[r] = "complete"
    PROVE  /\ paid'[r]
           /\ \/ session[r] = "complete"
              \/ /\ request[r].pc = "served" /\ session[r] = "open"
                 /\ UNCHANGED <<request, reservation>>
<1>t. TypeOK
  BY DEF BillingInv
<1>1. CASE session[r] = "complete"
  BY <1>1, CompletedRequest DEF PaidInFull
<1>2. CASE session[r] # "complete"
  <2>1. ASSUME NEW q \in Request, Checkout(q) PROVE FALSE
    BY <1>2, <1>t, <2>1 DEF TypeOK, Checkout, CheckoutRead, CheckoutHistory, CheckoutReserve,
       CheckoutCreate, CheckoutAttach, CheckoutAnswer, CheckoutFail, stripeVars
  <2>2. ASSUME NEW q \in Request, Stripe(q) PROVE StripeComplete(q) /\ q = r
    BY <1>2, <1>t, <2>2 DEF TypeOK, Stripe, StripeComplete, StripeSettle, StripeExpire,
       StripeUpdate, StripeDelete, StripeRefund
  <2>3. StripeComplete(r)
    BY <1>2, <2>1, <2>2
       DEF Next, WebhookStep, WebhookBegin, WebhookConsume, GrantAts90, SetSubscription,
           RetrieveSubscription, ApplyExpired, ApplySubscription, ApplyRefund, WebhookMark,
           WebhookFail, Crash, ReservationLapse, EntitlementLapse, vars, stripeVars
  <2>4. paid' = [paid EXCEPT ![r] = TRUE]
    BY <2>3 DEF StripeComplete, Smooth
  <2> QED
    BY <1>t, <2>3, <2>4 DEF StripeComplete, TypeOK, dbVars
<1> QED
  BY <1>1, <1>2

\* The delivery of a completed session sees it paid.
LEMMA DeliveryStep ==
    ASSUME Smooth, BillingInv, PaidInFull, webhook.pc \in Granting => webhook.paid, [Next]_vars,
           webhook'.pc \in Granting
    PROVE  webhook'.paid
<1>t. TypeOK /\ EventsGenuine
  BY DEF BillingInv
<1>1. CASE UNCHANGED webhook
  BY <1>1
<1>2. ASSUME NEW e \in events, WebhookBegin(e) PROVE webhook'.paid
  <2>1. e.type = "completed" /\ webhook'.paid = paid[e.session]
    BY <1>2 DEF WebhookBegin, Granting
  <2>2. e.session \in Request /\ session[e.session] = "complete"
    BY <1>t, <2>1 DEF TypeOK, Event, EventsGenuine
  <2> QED
    BY <2>1, <2>2 DEF PaidInFull
<1>3. ASSUME WebhookStep PROVE webhook'.paid
  <2>1. webhook.pc # "idle"
    BY <1>3 DEF WebhookStep, WebhookConsume, GrantAts90, RetrieveSubscription, SetSubscription,
       ApplyExpired, ApplySubscription, ApplyRefund, WebhookMark
  <2>2. webhook \in WebhookRecord
    BY <1>t, <2>1, WebhookGoto DEF TypeOK
  <2>3. CASE WebhookConsume
    <3>1. \/ webhook' = Idle
          \/ \E p \in {"grant", "retrieve"} : webhook' = [webhook EXCEPT !.pc = p]
      BY <2>3 DEF WebhookConsume
    <3> QED
      BY <2>2, <2>3, <3>1 DEF WebhookConsume, WebhookRecord, Granting, Idle
  <2>4. CASE RetrieveSubscription
    BY <2>2, <2>4 DEF RetrieveSubscription, WebhookRecord, Granting
  <2>5. CASE GrantAts90 \/ SetSubscription \/ ApplyExpired \/ ApplySubscription \/ ApplyRefund
             \/ WebhookMark
    <3>1. webhook' = Idle \/ webhook' = [webhook EXCEPT !.pc = "mark"]
      BY <2>5 DEF GrantAts90, SetSubscription, ApplyExpired, ApplySubscription, ApplyRefund,
         WebhookMark
    <3> QED
      BY <2>2, <3>1 DEF Granting, WebhookRecord, Idle
  <2> QED
    BY <1>3, <2>3, <2>4, <2>5 DEF WebhookStep
<1> QED
  BY <1>1, <1>2, <1>3, <1>t, NothingFails
     DEF Next, Checkout, Stripe, CheckoutRead, CheckoutHistory, CheckoutReserve, CheckoutCreate,
         CheckoutAttach, CheckoutAnswer, CheckoutFail, EntitlementLapse, StripeComplete,
         StripeSettle, StripeExpire, StripeUpdate, StripeDelete, StripeRefund, vars, dbVars,
         stripeVars

\* A licence once sold is history for good.
LEMMA RowsStay ==
    ASSUME BillingInv, [Next]_vars, NEW q \in Request, entitlement[q] # None
    PROVE  /\ entitlement'[q] # None
           /\ entitlement'[q].account = entitlement[q].account
           /\ entitlement'[q].sku = entitlement[q].sku
<1>t. TypeOK
  BY DEF BillingInv
<1>1. CASE webhook.pc = "grant" /\ GrantAts90 /\ UNCHANGED request
  <2> DEFINE s == webhook.event.session
  <2>1. CASE UNCHANGED entitlement
    BY <2>1
  <2>2. CASE ~HasHistory(request[s].account, Ats90) /\
             entitlement' = [entitlement EXCEPT ![s] =
                [account |-> request[s].account, sku |-> Ats90, status |-> "active",
                 lapsed |-> FALSE]]
    <3>1. request[s].sku = Ats90 /\ s \in Request
      BY <1>1, DeliveredRequest DEF BillingInv, WebhookProgress
    <3>2. q # s
      BY <2>2, <3>1 DEF HasHistory, BillingInv, EntitlementBacked
    <3> QED
      BY <1>t, <2>2, <3>2 DEF TypeOK
  <2> QED
    BY <1>1, <2>1, <2>2 DEF GrantAts90
<1>2. CASE webhook.pc = "set" /\ SetSubscription /\ UNCHANGED request
  <2> DEFINE s == webhook.event.session
  <2>1. CASE q = s
    <3>1. entitlement[q] \in Entitlement
      BY <1>t DEF TypeOK
    <3> DEFINE new == [entitlement[q] EXCEPT !.status = Status(webhook.status),
                                             !.lapsed = FALSE]
    <3>2. entitlement'[q] = new
      BY <1>2, <1>t, <2>1 DEF SetSubscription, TypeOK
    <3>3. /\ new \in Entitlement /\ new.account = entitlement[q].account
          /\ new.sku = entitlement[q].sku
      BY <3>1 DEF Entitlement, Status
    <3> HIDE DEF new
    <3> QED
      BY <3>2, <3>3, NoneAssumption
  <2>2. CASE q # s
    BY <1>2, <1>t, <2>2 DEF SetSubscription, TypeOK
  <2> QED
    BY <2>1, <2>2
<1> QED
  BY <1>1, <1>2, EntitlementRows

\* A completed checkout keeps what it has on the way to its entitlement.
LEMMA StrandedStep ==
    ASSUME Smooth, BillingInv, OwnedInv, PaidInv, [Next]_vars
    PROVE  NoStrandedPayment'
<1>t. /\ TypeOK /\ WebhookProgress /\ Unlapsed /\ PaidInFull /\ NoStrandedPayment /\ ServedReserved
      /\ webhook.pc \in Granting => webhook.paid
  BY DEF BillingInv, PaidInv, Unlapsed, PaidInFull, Granting, ServedReserved, Reserved
<1> SUFFICES ASSUME NEW r \in Request, session'[r] = "complete"
             PROVE  \/ entitlement'[r] # None
                    \/ Reserved(r)'
                    \/ /\ webhook'.pc \in {"retrieve", "grant", "set"}
                       /\ webhook'.event.session = r
                    \/ request'[r].sku = Ats90 /\ HasHistory(request[r].account, Ats90)'
  BY DEF NoStrandedPayment, Reserved, HasHistory
<1>1. CASE session[r] # "complete"
  <2>1. /\ request[r].pc = "served" /\ session[r] = "open"
        /\ UNCHANGED <<request, reservation>>
    BY <1>1, <1>t, PaidStep
  <2>2. Reserved(r)
    BY <1>t, <2>1 DEF ServedReserved
  <2> QED
    BY <2>1, <2>2 DEF Reserved, Holds, Row
<1>2. CASE session[r] = "complete"
  <2>1. request[r].pc = "served" /\ request'[r] = request[r]
    BY <1>2, CompletedRequest
  <2>2. CASE entitlement[r] # None
    BY <2>2, RowsStay
  <2>3. CASE Reserved(r)
    <3>1. CASE Reserved(r)'
      BY <3>1
    <3>2. CASE WebhookConsume /\ webhook.event.session = r
      <4>1. /\ reservation[Row(r)] # None /\ reservation[Row(r)].session = r
            /\ webhook.pc = "consume"
        BY <2>3, <3>2 DEF Reserved, Holds, WebhookConsume
      <4>2. webhook' = [webhook EXCEPT !.pc =
                          IF request[r].sku = Ats90 THEN "grant" ELSE "retrieve"]
        BY <3>2, <4>1 DEF WebhookConsume
      <4>3. webhook \in WebhookRecord
        BY <1>t, <4>1, WebhookGoto DEF TypeOK
      <4>4. webhook'.pc \in {"retrieve", "grant"} /\ webhook'.event = webhook.event
        BY <4>2, <4>3 DEF WebhookRecord
      <4> QED
        BY <3>2, <4>4
    <3> QED
      BY <1>t, <1>2, <2>1, <2>3, <3>1, <3>2, ReservedStep
  <2>4. CASE webhook.pc \in {"retrieve", "grant", "set"} /\ webhook.event.session = r
    <3>1. webhook \in WebhookRecord
      BY <1>t, <2>4, WebhookGoto DEF TypeOK
    <3>2. CASE UNCHANGED webhook
      BY <2>4, <3>2
    <3>3. CASE RetrieveSubscription
      <4>1. webhook'.pc = "set" /\ webhook'.event = webhook.event
        BY <3>1, <3>3 DEF RetrieveSubscription, WebhookRecord
      <4> QED
        BY <2>4, <4>1
    <3>4. CASE GrantAts90
      <4>1. webhook.pc = "grant" /\ webhook.paid /\ request[r].sku = Ats90
        BY <1>t, <2>4, <3>4 DEF GrantAts90, WebhookProgress, Granting
      <4>2. CASE HasHistory(request[r].account, Ats90)
        <5>1. UNCHANGED entitlement
          BY <2>4, <3>4, <4>1, <4>2 DEF GrantAts90
        <5> QED
          BY <2>1, <4>1, <4>2, <5>1 DEF HasHistory
      <4>3. CASE ~HasHistory(request[r].account, Ats90)
        <5> DEFINE new == [account |-> request[r].account, sku |-> Ats90, status |-> "active",
                           lapsed |-> FALSE]
        <5>1. entitlement' = [entitlement EXCEPT ![r] = new]
          BY <2>4, <3>4, <4>1, <4>3 DEF GrantAts90
        <5>2. request[r].account \in Account
          BY <1>t, <2>1 DEF TypeOK, RequestState
        <5>3. new \in Entitlement
          BY <5>2, BillingAssumption DEF Entitlement, Sku
        <5> HIDE DEF new
        <5> QED
          BY <1>t, <5>1, <5>3, NoneAssumption DEF TypeOK
      <4> QED
        BY <4>2, <4>3
    <3>5. CASE SetSubscription
      <4>1. request[r] \in [pc : RequestPc, account : Account, sku : Sku]
        BY <1>t, <2>1, RowTyped
      <4> DEFINE new == [account |-> request[r].account, sku |-> request[r].sku,
                         status |-> Status(webhook.status), lapsed |-> FALSE]
      <4>2. CASE entitlement[r] # None
        BY <4>2, RowsStay
      <4>3. CASE entitlement[r] = None
        <5>1. entitlement'[r] = new
          BY <1>t, <2>4, <3>5, <4>3 DEF SetSubscription, TypeOK
        <5>2. new \in Entitlement
          BY <4>1 DEF Entitlement, Status
        <5> HIDE DEF new
        <5> QED
          BY <5>1, <5>2, NoneAssumption
      <4> QED
        BY <4>2, <4>3
    <3> QED
      BY <1>t, <2>4, <3>2, <3>3, <3>4, <3>5, NothingFails
         DEF Next, Checkout, Stripe, WebhookStep, CheckoutRead, CheckoutHistory, CheckoutReserve,
             CheckoutCreate, CheckoutAttach, CheckoutAnswer, CheckoutFail, EntitlementLapse,
             StripeComplete, StripeSettle, StripeExpire, StripeUpdate, StripeDelete, StripeRefund,
             WebhookBegin, WebhookConsume, ApplyExpired, ApplySubscription, ApplyRefund,
             WebhookMark, vars, dbVars, stripeVars
  <2>5. CASE request[r].sku = Ats90 /\ HasHistory(request[r].account, Ats90)
    BY <2>1, <2>5, RowsStay DEF HasHistory
  <2> QED
    BY <1>t, <1>2, <2>2, <2>3, <2>4, <2>5 DEF NoStrandedPayment, Reserved
<1> QED
  BY <1>1, <1>2

\* A served checkout was given its reservation by its last steps.
LEMMA ServedReservedStep ==
    ASSUME Smooth, BillingInv, OwnedInv, PaidInv, [Next]_vars
    PROVE  ServedReserved'
<1>t. TypeOK /\ Unlapsed /\ ServedReserved /\ WebhookProgress
  BY DEF BillingInv, PaidInv, Unlapsed, ServedReserved, Reserved
<1> SUFFICES ASSUME NEW r \in Request, request'[r].pc = "served", session'[r] = "open"
             PROVE  Reserved(r)'
  BY DEF ServedReserved
<1>1. CASE request[r].pc = "served"
  <2>1. session[r] = "open"
    <3>1. ASSUME NEW q \in Request, Checkout(q) PROVE session'[r] = session[r]
      BY <1>1, <1>t, <3>1 DEF TypeOK, Checkout, CheckoutRead, CheckoutHistory, CheckoutReserve,
         CheckoutCreate, CheckoutAttach, CheckoutAnswer, CheckoutFail, stripeVars
    <3>2. ASSUME NEW q \in Request, Stripe(q) PROVE session'[r] = session[r]
      BY <1>t, <3>2 DEF TypeOK, Stripe, StripeComplete, StripeSettle, StripeExpire,
         StripeUpdate, StripeDelete, StripeRefund
    <3> QED
      BY <3>1, <3>2
         DEF Next, WebhookStep, WebhookBegin, WebhookConsume, GrantAts90, SetSubscription,
             RetrieveSubscription, ApplyExpired, ApplySubscription, ApplyRefund, WebhookMark,
             WebhookFail, Crash, ReservationLapse, EntitlementLapse, vars, stripeVars
  <2>2. Reserved(r)
    BY <1>t, <1>1, <2>1 DEF ServedReserved
  <2>3. ASSUME WebhookConsume, webhook.event.session = r PROVE FALSE
    BY <2>1, <2>3, DeliveredRequest DEF WebhookConsume
  <2> QED
    BY <1>t, <1>1, <2>1, <2>2, <2>3, ReservedStep
<1>2. CASE request[r].pc # "served"
  <2>1. ASSUME NEW q \in Request, Checkout(q) PROVE q = r /\ CheckoutAnswer(r)
    <3>1. CASE q # r
      BY <1>2, <1>t, <2>1, <3>1 DEF TypeOK, Checkout, CheckoutRead, CheckoutHistory,
         CheckoutReserve, CheckoutCreate, CheckoutAttach, CheckoutAnswer, CheckoutFail, Goto
    <3>2. CASE q = r
      <4>1. ASSUME NEW a \in Account, NEW k \in Sku, CheckoutRead(r, a, k) PROVE FALSE
        BY <1>t, <4>1 DEF CheckoutRead, TypeOK
      <4>2. ASSUME NEW p \in RequestPc \ {"served"}, Goto(r, p), request[r].pc # "new" PROVE FALSE
        BY <1>t, <4>2, GotoFacts
      <4>3. CASE CheckoutHistory(r) \/ CheckoutReserve(r) \/ CheckoutCreate(r)
                 \/ CheckoutAttach(r) \/ CheckoutFail(r)
        BY <4>2, <4>3 DEF CheckoutHistory, CheckoutReserve, CheckoutCreate, CheckoutAttach,
           CheckoutFail, RequestPc
      <4> QED
        BY <2>1, <3>2, <4>1, <4>3 DEF Checkout
    <3> QED
      BY <3>1, <3>2
  <2>2. CheckoutAnswer(r)
    BY <1>2, <1>t, <2>1, NothingFails
       DEF Next, Stripe, WebhookStep, WebhookBegin, WebhookConsume, GrantAts90, SetSubscription,
           RetrieveSubscription, ApplyExpired, ApplySubscription, ApplyRefund, WebhookMark,
           EntitlementLapse, StripeComplete, StripeSettle, StripeExpire, StripeUpdate,
           StripeDelete, StripeRefund, vars, dbVars, stripeVars
  <2>3. Reserved(r)
    BY <2>2 DEF CheckoutAnswer, OwnedInv, Owned, Reserved
  <2>4. Row(r)' = Row(r) /\ UNCHANGED reservation
    BY <1>t, <2>2, GotoFacts DEF CheckoutAnswer, dbVars, RequestPc
  <2> QED
    BY <2>3, <2>4 DEF Reserved, Holds
<1> QED
  BY <1>1, <1>2

LEMMA InitPaid == Init => PaidInv
BY DEF Init, PaidInv, NoStrandedPayment, Idle

\* Where nothing fails and every payment is immediate, whoever completes a
\* checkout is never left between the payment and the entitlement: the
\* reservation, the delivery or an earlier licence accounts for it.
THEOREM PaymentsAreNotStranded ==
    ASSUME /\ Env \cap {"stripe_error", "delayed_payment", "reservation_lapse", "stall"} = {}
           /\ MaxCrashes = 0
    PROVE  Spec => []NoStrandedPayment
<1>s. Smooth /\ "stall" \notin Env
  BY DEF Smooth
<1>1. ASSUME BillingInv, OwnedInv, PaidInv, [Next]_vars PROVE PaidInv'
  <2>1. Unlapsed /\ PaidInFull /\ (webhook.pc \in Granting => webhook.paid)
    BY <1>1 DEF PaidInv, Unlapsed, PaidInFull, Granting
  <2>2. Unlapsed'
    BY <1>s, <1>1, <2>1, UnlapsedStep
  <2>3. PaidInFull'
    BY <1>s, <1>1, <2>1, PaidStep DEF PaidInFull
  <2>4. webhook'.pc \in Granting => webhook'.paid
    BY <1>s, <1>1, <2>1, DeliveryStep
  <2>5. NoStrandedPayment' /\ ServedReserved'
    BY <1>s, <1>1, StrandedStep, ServedReservedStep
  <2> QED
    BY <2>2, <2>3, <2>4, <2>5 DEF PaidInv, Unlapsed, PaidInFull, Granting, ServedReserved, Reserved
<1>2. BillingInv /\ OwnedInv /\ [Next]_vars => OwnedInv'
  BY <1>s, OwnedStep
<1>3. BillingInv /\ OwnedInv /\ PaidInv /\ [Next]_vars => PaidInv'
  BY <1>1
<1>4. PaidInv => NoStrandedPayment
  BY DEF PaidInv
<1> QED
  BY <1>2, <1>3, <1>4, InitOwned, InitPaid, Invariance, PTL DEF Spec
=============================================================================
