------------------------------- MODULE Billing -------------------------------
(***************************************************************************)
(* The billing half of sara_public.py: the checkout endpoint, the Stripe   *)
(* webhook and the SQLite tables they share.                               *)
(*                                                                         *)
(* create_checkout is a plain `def`, so each request runs on a thread of   *)
(* its own and every Database method is one atomic step of it.             *)
(* stripe_webhook is an `async def` whose only await is the request body,  *)
(* so two deliveries never interleave with each other, but they do         *)
(* interleave with checkouts and a crash may fall between any two of their *)
(* steps.  Stripe itself is external: it opens, completes and expires      *)
(* sessions, and delivers its events late, repeatedly and in any order.    *)
(*                                                                         *)
(* One element of Request is one POST /billing/checkout.  It names also    *)
(* what that request alone can create: the reservation id, the Stripe      *)
(* session, and the session's subscription or payment intent.              *)
(***************************************************************************)
EXTENDS Naturals, FiniteSets

CONSTANTS
    Account,      \* accounts
    TierSkus,     \* SARA_PAID_SKUS, the monthly SARA tiers
    AtsSkus,      \* ATS_SKUS
    Ats90,        \* SKU.ATS_90D, the only one-time payment
    Request,      \* POST /billing/checkout requests
    None,         \* an absent row
    Env,          \* what the environment may do in this instance
    MaxUpdates,   \* bound: subscription.updated events per subscription
    MaxCrashes    \* bound: process restarts

EnvEvents == {"stripe_error", "delayed_payment", "reservation_lapse", "stall",
              "entitlement_lapse", "refund", "subscription_change"}

ASSUME BillingAssumption ==
    /\ Ats90 \in AtsSkus
    /\ TierSkus \cap AtsSkus = {}
    /\ None \notin Request
    /\ Env \subseteq EnvEvents
    /\ MaxUpdates \in Nat
    /\ MaxCrashes \in Nat

Sku == TierSkus \cup AtsSkus

\* The rows of checkout_reservations and entitlements; `lapsed' says that
\* expires_at has passed.
Reservation == [holder : Request, session : Request \cup {None}, lapsed : BOOLEAN]

Entitlement == [account : Account, sku : Sku,
                status : {"active", "suspended", "revoked"}, lapsed : BOOLEAN]

\* An absent row is not a row.
ASSUME NoneAssumption ==
    None \notin Reservation \cup Entitlement \cup [account : Account, sku : Sku]

\* The products that exclude each other according to create_checkout.
Family(k) == IF k \in TierSkus THEN TierSkus ELSE AtsSkus

SubStatus == {"none", "active", "past_due", "canceled"}

\* Stripe events; n tells the updates of one subscription apart.
Event == [type    : {"completed", "expired", "updated", "deleted", "refunded"},
          session : Request,
          status  : SubStatus,
          n       : Nat]

VARIABLES
    request,      \* the checkout threads
    reservation,  \* table checkout_reservations, keyed by (account, sku)
    entitlement,  \* table entitlements, keyed by the Stripe session
    seen,         \* table stripe_events
    webhook,      \* the delivery being handled
    session,      \* Stripe: state of each checkout session
    paid,         \* Stripe: payment_status = "paid"
    subscription, \* Stripe: status of the session's subscription
    events,       \* Stripe: every event it has generated
    crashes       \* number of restarts so far

dbVars     == <<reservation, entitlement, seen>>
stripeVars == <<session, paid, subscription, events>>
vars       == <<request, dbVars, webhook, stripeVars, crashes>>

Idle == [pc |-> "idle"]

Init ==
    /\ request      = [r \in Request |-> [pc |-> "new", account |-> None, sku |-> None]]
    /\ reservation  = [x \in Account \X Sku |-> None]
    /\ entitlement  = [r \in Request |-> None]
    /\ seen         = {}
    /\ webhook      = Idle
    /\ session      = [r \in Request |-> "absent"]
    /\ paid         = [r \in Request |-> FALSE]
    /\ subscription = [r \in Request |-> "none"]
    /\ events       = {}
    /\ crashes      = 0

-----------------------------------------------------------------------------
(* Reads of the tables. *)

\* Database.active_products
ActiveProducts(a) ==
    {entitlement[r].sku : r \in {q \in Request :
        /\ entitlement[q] # None
        /\ entitlement[q].account = a
        /\ entitlement[q].status = "active"
        /\ ~entitlement[q].lapsed}}

\* Database.has_history
HasHistory(a, k) ==
    \E r \in Request : /\ entitlement[r] # None
                       /\ entitlement[r].account = a
                       /\ entitlement[r].sku = k

\* The reservation row a request works on.
Row(r) == <<request[r].account, request[r].sku>>

Holds(r) == /\ reservation[Row(r)] # None
            /\ reservation[Row(r)].holder = r

\* The DELETE of expired rows that opens reserve_purchase.
Purged == [x \in Account \X Sku |->
             IF reservation[x] # None /\ reservation[x].lapsed
             THEN None ELSE reservation[x]]

\* Mutant of HasIntent: subscription rows store the payment intent too.
HasAnyIntent(r) == entitlement[r] # None

\* The rows with a payment intent are those grant_ats90 inserted, the rows with
\* a subscription id those set_subscription inserted.
HasIntent(r) == entitlement[r] # None /\ entitlement[r].sku = Ats90
HasSubscription(r) == entitlement[r] # None /\ entitlement[r].sku # Ats90

Goto(r, pc) == request' = [request EXCEPT ![r].pc = pc]

Release(x) == reservation' = [reservation EXCEPT ![x] = None]

-----------------------------------------------------------------------------
(* create_checkout *)

\* The request arrives and reads active_products; an active product of the
\* same family is a 409.
CheckoutRead(r, a, k) ==
    /\ request[r].pc = "new"
    /\ request' = [request EXCEPT ![r] =
         [account |-> a, sku |-> k,
          pc |-> IF ActiveProducts(a) \cap Family(k) # {} THEN "refused"
                 ELSE IF k = Ats90 THEN "history" ELSE "reserve"]]
    /\ UNCHANGED <<dbVars, webhook, stripeVars, crashes>>

\* The introductory licence also asks for its history, in a second read.
CheckoutHistory(r) ==
    /\ request[r].pc = "history"
    /\ Goto(r, IF HasHistory(request[r].account, Ats90) THEN "refused" ELSE "reserve")
    /\ UNCHANGED <<dbVars, webhook, stripeVars, crashes>>

\* Mutant of CheckoutReserve: the newer reservation replaces the older.
CheckoutReserveReplacing(r) ==
    /\ request[r].pc = "reserve"
    /\ Goto(r, "create")
    /\ reservation' = [Purged EXCEPT ![Row(r)] =
         [holder |-> r, session |-> None, lapsed |-> FALSE]]
    /\ UNCHANGED <<entitlement, seen, webhook, stripeVars, crashes>>

\* reserve_purchase: purge, refuse a second reservation, insert.  The refusal
\* is raised inside the transaction, which rolls the purge back.
CheckoutReserve(r) ==
    /\ request[r].pc = "reserve"
    /\ IF Purged[Row(r)] # None
       THEN Goto(r, "refused") /\ UNCHANGED reservation
       ELSE /\ Goto(r, "create")
            /\ reservation' = [Purged EXCEPT ![Row(r)] =
                 [holder |-> r, session |-> None, lapsed |-> FALSE]]
    /\ UNCHANGED <<entitlement, seen, webhook, stripeVars, crashes>>

\* validate_stripe_price and Session.create
CheckoutCreate(r) ==
    /\ request[r].pc = "create"
    /\ session' = [session EXCEPT ![r] = "open"]
    /\ Goto(r, "attach")
    /\ UNCHANGED <<dbVars, webhook, paid, subscription, events, crashes>>

\* Mutant of CheckoutAttach: the session id is not stored.
CheckoutAttachUnnamed(r) ==
    /\ request[r].pc = "attach"
    /\ Goto(r, IF Holds(r) THEN "answer" ELSE "refused")
    /\ UNCHANGED <<dbVars, webhook, stripeVars, crashes>>

\* attach_checkout_session; its failure goes through the except clause, which
\* releases the reservation of (account, sku) whoever holds it.
CheckoutAttach(r) ==
    /\ request[r].pc = "attach"
    /\ IF Holds(r)
       THEN /\ reservation' = [reservation EXCEPT ![Row(r)].session = r]
            /\ Goto(r, "answer")
       ELSE Release(Row(r)) /\ Goto(r, "refused")
    /\ UNCHANGED <<entitlement, seen, webhook, stripeVars, crashes>>

\* The audit row is written and the customer gets the checkout URL.
CheckoutAnswer(r) ==
    /\ request[r].pc = "answer"
    /\ Goto(r, "served")
    /\ UNCHANGED <<dbVars, webhook, stripeVars, crashes>>

\* A Stripe or database error after the reservation.  A create that timed out
\* may still have opened the session.
CheckoutFail(r) ==
    /\ "stripe_error" \in Env
    /\ request[r].pc \in {"create", "attach", "answer"}
    /\ Release(Row(r))
    /\ Goto(r, "refused")
    /\ \/ UNCHANGED session
       \/ session[r] = "absent" /\ session' = [session EXCEPT ![r] = "open"]
    /\ UNCHANGED <<entitlement, seen, webhook, paid, subscription, events, crashes>>

InFlight(r) == request[r].pc \in {"history", "reserve", "create", "attach", "answer"}

-----------------------------------------------------------------------------
(* stripe_webhook *)

\* A delivery of an event that is not in stripe_events.  For a completed
\* session validate_checkout_session fetches the session, payment status
\* included; later steps use this copy.
WebhookBegin(e) ==
    /\ webhook.pc = "idle"
    /\ e \in events \ seen
    /\ webhook' = [pc     |-> IF e.type = "completed" THEN "consume" ELSE "apply",
                   event  |-> e,
                   paid   |-> paid[e.session],
                   status |-> e.status]
    /\ UNCHANGED <<request, dbVars, stripeVars, crashes>>

\* Mutant of WebhookConsume: a missing reservation is taken for work done.
WebhookConsumeLenient ==
    LET r == webhook.event.session IN
    /\ webhook.pc = "consume"
    /\ IF reservation[Row(r)] = None
       THEN webhook' = [webhook EXCEPT !.pc = "mark"] /\ UNCHANGED reservation
       ELSE /\ Release(Row(r))
            /\ webhook' = [webhook EXCEPT !.pc =
                 IF request[r].sku = Ats90 THEN "grant" ELSE "retrieve"]
    /\ UNCHANGED <<request, entitlement, seen, stripeVars, crashes>>

\* consume_reservation: the row must name this session, and is deleted.
WebhookConsume ==
    LET r == webhook.event.session
        row == reservation[Row(r)] IN
    /\ webhook.pc = "consume"
    /\ IF row = None
       THEN webhook' = Idle /\ UNCHANGED reservation
       ELSE IF row.session # r
       THEN webhook' = Idle /\ UNCHANGED reservation
       ELSE /\ Release(Row(r))
            /\ webhook' = [webhook EXCEPT !.pc =
                 IF request[r].sku = Ats90 THEN "grant" ELSE "retrieve"]
    /\ UNCHANGED <<request, entitlement, seen, stripeVars, crashes>>

\* Mutant of GrantAts90: the row of an earlier licence is not looked for.
GrantAts90Again ==
    LET r == webhook.event.session IN
    /\ webhook.pc = "grant"
    /\ webhook.paid
    /\ entitlement' = [entitlement EXCEPT ![r] =
         [account |-> request[r].account, sku |-> Ats90,
          status |-> "active", lapsed |-> FALSE]]
    /\ webhook' = [webhook EXCEPT !.pc = "mark"]
    /\ UNCHANGED <<request, reservation, seen, stripeVars, crashes>>

\* Mutant of GrantAts90: payment_status is not looked at.
GrantAts90Unpaid ==
    LET r == webhook.event.session
        a == request[r].account IN
    /\ webhook.pc = "grant"
    /\ ~HasHistory(a, Ats90)
    /\ entitlement' = [entitlement EXCEPT ![r] =
         [account |-> a, sku |-> Ats90, status |-> "active", lapsed |-> FALSE]]
    /\ webhook' = [webhook EXCEPT !.pc = "mark"]
    /\ UNCHANGED <<request, reservation, seen, stripeVars, crashes>>

\* The payment check and grant_ats90, which refuses any earlier licence.
GrantAts90 ==
    LET r == webhook.event.session
        a == request[r].account IN
    /\ webhook.pc = "grant"
    /\ IF ~webhook.paid \/ HasHistory(a, Ats90)
       THEN webhook' = Idle /\ UNCHANGED entitlement
       ELSE /\ entitlement' = [entitlement EXCEPT ![r] =
                 [account |-> a, sku |-> Ats90, status |-> "active", lapsed |-> FALSE]]
            /\ webhook' = [webhook EXCEPT !.pc = "mark"]
    /\ UNCHANGED <<request, reservation, seen, stripeVars, crashes>>

\* stripe.Subscription.retrieve
RetrieveSubscription ==
    /\ webhook.pc = "retrieve"
    /\ webhook' = [webhook EXCEPT !.pc = "set",
                                  !.status = subscription[webhook.event.session]]
    /\ UNCHANGED <<request, dbVars, stripeVars, crashes>>

\* Mutant of Status: the raw Stripe status is stored.
StatusRaw(s) == s

\* active_subscription_status
Status(s) == IF s = "active" THEN "active" ELSE "suspended"

\* set_subscription: update the row of this subscription, or insert it.
SetSubscription ==
    LET r == webhook.event.session IN
    /\ webhook.pc = "set"
    /\ entitlement' = [entitlement EXCEPT ![r] =
         IF @ # None
         THEN [@ EXCEPT !.status = Status(webhook.status), !.lapsed = FALSE]
         ELSE [account |-> request[r].account, sku |-> request[r].sku,
               status |-> Status(webhook.status), lapsed |-> FALSE]]
    /\ webhook' = [webhook EXCEPT !.pc = "mark"]
    /\ UNCHANGED <<request, reservation, seen, stripeVars, crashes>>

\* release_reservation_by_session, for checkout.session.expired
ApplyExpired ==
    LET r == webhook.event.session IN
    /\ webhook.pc = "apply"
    /\ webhook.event.type = "expired"
    /\ reservation' = [x \in Account \X Sku |->
         IF reservation[x] # None /\ reservation[x].session = r
         THEN None ELSE reservation[x]]
    /\ webhook' = [webhook EXCEPT !.pc = "mark"]
    /\ UNCHANGED <<request, entitlement, seen, stripeVars, crashes>>

\* update_subscription_status: a row with this subscription id, if any, takes
\* the status and the period end of the event, past or future.
ApplySubscription ==
    LET r == webhook.event.session
        st == IF webhook.event.type = "deleted" THEN "suspended"
              ELSE Status(webhook.event.status) IN
    /\ webhook.pc = "apply"
    /\ webhook.event.type \in {"updated", "deleted"}
    /\ IF HasSubscription(r)
       THEN \E late \in BOOLEAN :
              entitlement' = [entitlement EXCEPT ![r].status = st, ![r].lapsed = late]
       ELSE UNCHANGED entitlement
    /\ webhook' = [webhook EXCEPT !.pc = "mark"]
    /\ UNCHANGED <<request, reservation, seen, stripeVars, crashes>>

\* revoke_payment_intent.  Only grant_ats90 stores a payment intent, so the
\* refund of a subscription charge matches no row.
ApplyRefund ==
    LET r == webhook.event.session IN
    /\ webhook.pc = "apply"
    /\ webhook.event.type = "refunded"
    /\ IF HasIntent(r)
       THEN entitlement' = [entitlement EXCEPT ![r].status = "revoked"]
       ELSE UNCHANGED entitlement
    /\ webhook' = [webhook EXCEPT !.pc = "mark"]
    /\ UNCHANGED <<request, reservation, seen, stripeVars, crashes>>

\* mark_stripe_event, then the 200 that stops Stripe's redelivery.
WebhookMark ==
    /\ webhook.pc = "mark"
    /\ seen' = seen \cup {webhook.event}
    /\ webhook' = Idle
    /\ UNCHANGED <<request, reservation, entitlement, stripeVars, crashes>>

\* An exception between two steps: nothing is undone, Stripe will redeliver.
WebhookFail ==
    /\ "stripe_error" \in Env
    /\ webhook.pc # "idle"
    /\ webhook' = Idle
    /\ UNCHANGED <<request, dbVars, stripeVars, crashes>>

\* The process dies: every thread and the delivery in progress are lost.
Crash ==
    /\ crashes < MaxCrashes
    /\ crashes' = crashes + 1
    /\ request' = [r \in Request |->
         IF InFlight(r) THEN [request[r] EXCEPT !.pc = "refused"] ELSE request[r]]
    /\ webhook' = Idle
    /\ UNCHANGED <<dbVars, stripeVars>>

-----------------------------------------------------------------------------
(* The clock *)

\* The reservation's 1800 seconds pass.  A handler still at work by then is a
\* stalled one: Stripe's client gives up long before.
ReservationLapse(x) ==
    /\ "reservation_lapse" \in Env
    /\ reservation[x] # None
    /\ ~reservation[x].lapsed
    /\ InFlight(reservation[x].holder) => "stall" \in Env
    /\ reservation' = [reservation EXCEPT ![x].lapsed = TRUE]
    /\ UNCHANGED <<request, entitlement, seen, webhook, stripeVars, crashes>>

\* An entitlement reaches its expires_at.
EntitlementLapse(r) ==
    /\ "entitlement_lapse" \in Env
    /\ entitlement[r] # None
    /\ ~entitlement[r].lapsed
    /\ entitlement' = [entitlement EXCEPT ![r].lapsed = TRUE]
    /\ UNCHANGED <<request, reservation, seen, webhook, stripeVars, crashes>>

-----------------------------------------------------------------------------
(* Stripe *)

Emit(type, r, status, n) ==
    events' = events \cup {[type |-> type, session |-> r, status |-> status, n |-> n]}

\* The customer completes the page whose URL the checkout returned.
StripeComplete(r) ==
    /\ request[r].pc = "served"
    /\ session[r] = "open"
    /\ session' = [session EXCEPT ![r] = "complete"]
    /\ \E p \in (IF request[r].sku = Ats90 /\ "delayed_payment" \in Env
                 THEN BOOLEAN ELSE {TRUE}) :
         paid' = [paid EXCEPT ![r] = p]
    /\ subscription' = [subscription EXCEPT ![r] =
         IF request[r].sku = Ats90 THEN "none" ELSE "active"]
    /\ Emit("completed", r, "none", 0)
    /\ UNCHANGED <<request, dbVars, webhook, crashes>>

\* A delayed payment method settles.
StripeSettle(r) ==
    /\ session[r] = "complete"
    /\ ~paid[r]
    /\ paid' = [paid EXCEPT ![r] = TRUE]
    /\ UNCHANGED <<request, dbVars, webhook, session, subscription, events, crashes>>

StripeExpire(r) ==
    /\ session[r] = "open"
    /\ InFlight(r) => "stall" \in Env
    /\ session' = [session EXCEPT ![r] = "expired"]
    /\ Emit("expired", r, "none", 0)
    /\ UNCHANGED <<request, dbVars, webhook, paid, subscription, crashes>>

Updates(r) == {e \in events : e.type = "updated" /\ e.session = r}

StripeUpdate(r) ==
    /\ "subscription_change" \in Env
    /\ subscription[r] \in {"active", "past_due"}
    /\ \E n \in 1..MaxUpdates, s \in {"active", "past_due"} :
         /\ \A e \in Updates(r) : e.n < n
         /\ subscription' = [subscription EXCEPT ![r] = s]
         /\ Emit("updated", r, s, n)
    /\ UNCHANGED <<request, dbVars, webhook, session, paid, crashes>>

StripeDelete(r) ==
    /\ "subscription_change" \in Env
    /\ subscription[r] \in {"active", "past_due"}
    /\ subscription' = [subscription EXCEPT ![r] = "canceled"]
    /\ Emit("deleted", r, "canceled", 0)
    /\ UNCHANGED <<request, dbVars, webhook, session, paid, crashes>>

\* charge.refunded or charge.dispute.created
StripeRefund(r) ==
    /\ "refund" \in Env
    /\ paid[r]
    /\ [type |-> "refunded", session |-> r, status |-> "none", n |-> 0] \notin events
    /\ Emit("refunded", r, "none", 0)
    /\ UNCHANGED <<request, dbVars, webhook, session, paid, subscription, crashes>>

-----------------------------------------------------------------------------
Checkout(r) ==
    \/ \E a \in Account, k \in Sku : CheckoutRead(r, a, k)
    \/ CheckoutHistory(r)
    \/ CheckoutReserve(r)
    \/ CheckoutCreate(r)
    \/ CheckoutAttach(r)
    \/ CheckoutAnswer(r)
    \/ CheckoutFail(r)

WebhookStep ==
    \/ WebhookConsume
    \/ GrantAts90
    \/ RetrieveSubscription
    \/ SetSubscription
    \/ ApplyExpired
    \/ ApplySubscription
    \/ ApplyRefund
    \/ WebhookMark

Stripe(r) ==
    \/ StripeComplete(r)
    \/ StripeSettle(r)
    \/ StripeExpire(r)
    \/ StripeUpdate(r)
    \/ StripeDelete(r)
    \/ StripeRefund(r)

Next ==
    \/ \E r \in Request : Checkout(r) \/ Stripe(r) \/ EntitlementLapse(r)
    \/ \E e \in events : WebhookBegin(e)
    \/ WebhookStep
    \/ WebhookFail
    \/ Crash
    \/ \E x \in Account \X Sku : ReservationLapse(x)

Spec == Init /\ [][Next]_vars

\* A thread that is scheduled keeps running, and so does the delivery being
\* handled.  Stripe redelivers an event until it is answered with a 200: a
\* delivery finds the handler free again and again, hence strong fairness.
\* Customers, clocks, failures and crashes are under no obligation.
FairSpec ==
    /\ Spec
    /\ WF_vars(WebhookStep)
    /\ \A r \in Request :
         SF_vars(\E e \in events : /\ e.session = r
                                  /\ e.type = "completed"
                                  /\ WebhookBegin(e))

-----------------------------------------------------------------------------
(* Properties *)

RequestPc == {"history", "reserve", "create", "attach", "answer", "served", "refused"}

RequestState ==
    {[pc |-> "new", account |-> None, sku |-> None]}
        \cup [pc : RequestPc, account : Account, sku : Sku]

WebhookPc == {"consume", "retrieve", "grant", "set", "apply", "mark"}

WebhookState ==
    {Idle} \cup [pc : WebhookPc, event : Event, paid : BOOLEAN, status : SubStatus]

\* Every variable has its type; the tables hold rows of their schema.
TypeOK ==
    /\ request \in [Request -> RequestState]
    /\ reservation \in [Account \X Sku -> Reservation \cup {None}]
    /\ entitlement \in [Request -> Entitlement \cup {None}]
    /\ seen \subseteq events
    /\ webhook \in WebhookState
    /\ session \in [Request -> {"absent", "open", "complete", "expired"}]
    /\ paid \in [Request -> BOOLEAN]
    /\ subscription \in [Request -> SubStatus]
    /\ events \subseteq Event
    /\ crashes \in Nat

\* The introductory licence is granted at most once in the life of an account,
\* whatever checkouts, redeliveries and crashes surround the grant.
OneIntroLicence ==
    \A r, q \in Request :
        (/\ entitlement[r] # None /\ entitlement[r].sku = Ats90
         /\ entitlement[q] # None /\ entitlement[q].sku = Ats90
         /\ entitlement[r].account = entitlement[q].account) => r = q

\* An entitlement is what its own checkout asked for, on a session the customer
\* completed, with the money received where it is a one-time payment; and its
\* reservation has been used up.
EntitlementBacked ==
    \A r \in Request : entitlement[r] # None =>
        /\ entitlement[r].account = request[r].account
        /\ entitlement[r].sku = request[r].sku
        /\ session[r] = "complete"
        /\ entitlement[r].sku = Ats90 => paid[r]
        /\ ~Holds(r)

\* stripe_events is only trusted to skip work that was done: a completed
\* checkout that is marked has its entitlement.
MarkedMeansGranted ==
    \A e \in seen : e.type = "completed" => entitlement[e.session] # None

\* A checkout that is still running owns its reservation, so the unconditional
\* release of its except clause never takes another checkout's.
RunningCheckoutOwnsReservation ==
    \A r \in Request : request[r].pc \in {"create", "attach", "answer"} => Holds(r)

\* Billing keeps the promise of Licences: hidden are the tables, the sessions
\* and the events, and a row's expiry.
Order(r) == IF request[r].pc = "new" THEN None
            ELSE [account |-> request[r].account, sku |-> request[r].sku]

Bought(r) == IF session[r] # "complete" THEN "no"
             ELSE IF paid[r] THEN "paid" ELSE "unpaid"

Licence(r) == IF entitlement[r] = None THEN "none" ELSE entitlement[r].status

Promise == INSTANCE Licences WITH
    Purchase <- Request,
    Intro    <- Ats90,
    order    <- [r \in Request |-> Order(r)],
    bought   <- [r \in Request |-> Bought(r)],
    licence  <- [r \in Request |-> Licence(r)]

KeepsPromise == Promise!LSpec

\* A completed checkout is on its way to its entitlement: the reservation its
\* event needs is still there, or the event is being handled, or the customer
\* has bought the introductory licence twice.
NoStrandedPayment ==
    \A r \in Request : session[r] = "complete" =>
        \/ entitlement[r] # None
        \/ Holds(r) /\ reservation[Row(r)].session = r
        \/ /\ webhook.pc \in {"retrieve", "grant", "set"}
           /\ webhook.event.session = r
        \/ request[r].sku = Ats90 /\ HasHistory(request[r].account, Ats90)

\* A completed checkout leads to the entitlement.
CompletedIsGranted ==
    \A r \in Request :
        (session[r] = "complete") ~>
            (\/ entitlement[r] # None
             \/ request[r].sku = Ats90 /\ HasHistory(request[r].account, Ats90))

\* "a paid SARA tier is already active; use a controlled upgrade flow": an
\* account never has two paid tiers active.
OnePaidTier ==
    \A a \in Account : Cardinality(ActiveProducts(a) \cap TierSkus) <= 1

\* "90-day ATS license may only be purchased once per account": an account
\* never pays for the introductory licence twice.
OneIntroPurchase ==
    \A a \in Account :
        Cardinality({r \in Request : /\ request[r].account = a
                                     /\ request[r].sku = Ats90
                                     /\ paid[r]}) <= 1

-----------------------------------------------------------------------------
(* The inductive invariant behind the safety properties. *)

\* Stripe only knows sessions some checkout created, and only a session whose
\* URL was handed out is ever completed.
SessionsServed ==
    \A r \in Request :
        /\ session[r] # "absent" => request[r].pc # "new"
        /\ session[r] = "complete" => request[r].pc = "served"

\* Completed events, payments and subscriptions belong to completed sessions.
EventsGenuine ==
    /\ \A e \in events : e.type = "completed" => session[e.session] = "complete"
    /\ \A r \in Request : paid[r] \/ subscription[r] # "none" => session[r] = "complete"

\* What the delivery in progress has established so far.
WebhookProgress ==
    webhook.pc # "idle" =>
        LET r == webhook.event.session IN
        /\ webhook.event \in events
        /\ webhook.paid => paid[r]
        /\ webhook.pc \in {"consume", "retrieve", "grant", "set"} =>
              webhook.event.type = "completed"
        /\ webhook.pc = "apply" => webhook.event.type # "completed"
        /\ webhook.pc \in {"retrieve", "grant", "set"} => ~Holds(r)
        /\ webhook.pc = "grant" => request[r].sku = Ats90
        /\ webhook.pc \in {"retrieve", "set"} => request[r].sku # Ats90
        /\ webhook.pc = "mark" /\ webhook.event.type = "completed" => entitlement[r] # None

BillingInv ==
    /\ TypeOK
    /\ SessionsServed
    /\ EventsGenuine
    /\ WebhookProgress
    /\ EntitlementBacked
    /\ OneIntroLicence
    /\ MarkedMeansGranted

\* Where no handler stalls: a running checkout finds its reservation as it left
\* it, and a session has not expired under it.
Owned(r) ==
    /\ request[r].pc \in {"create", "attach", "answer"} =>
          /\ Holds(r)
          /\ ~reservation[Row(r)].lapsed
          /\ reservation[Row(r)].session = IF request[r].pc = "answer" THEN r ELSE None
    /\ request[r].pc \in {"new", "history", "reserve", "create"} => session[r] = "absent"
    /\ session[r] = "expired" => ~InFlight(r)

OwnedInv ==
    /\ \A r \in Request : Owned(r)
    /\ \A x \in Account \X Sku :
         reservation[x] # None => reservation[x].session \in {None, reservation[x].holder}
    /\ \A e \in events : e.type = "expired" => session[e.session] = "expired"

\* Where, besides, nothing fails, no reservation lapses and every payment is
\* immediate: a checkout that was served has its reservation until its session
\* expires or its event uses the reservation up.
PaidInv ==
    /\ \A x \in Account \X Sku : reservation[x] # None => ~reservation[x].lapsed
    /\ \A r \in Request :
         /\ request[r].pc = "served" /\ session[r] = "open" =>
               Holds(r) /\ reservation[Row(r)].session = r
         /\ session[r] = "complete" => paid[r]
    /\ webhook.pc \in {"consume", "retrieve", "grant", "set"} => webhook.paid
    /\ NoStrandedPayment
=============================================================================
