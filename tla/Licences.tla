------------------------------ MODULE Licences -------------------------------
(***************************************************************************)
(* What billing promises, without sessions, reservations, events, threads  *)
(* or crashes: a purchase may turn into a licence once, the introductory   *)
(* licence is paid for and unique in its account, a subscription may be    *)
(* suspended and resumed, and only the introductory licence is revoked,    *)
(* for good.  Billing implements it (Billing!Promise).                     *)
(***************************************************************************)
CONSTANTS
    Purchase,  \* one attempt to buy
    Account,
    Sku,
    Intro,     \* the one-time introductory product
    None

VARIABLES
    order,     \* what each purchase asks for: account and sku, or None
    bought,    \* how far the customer got: "no", "unpaid" or "paid"
    licence    \* "none", "active", "suspended" or "revoked"

lvars == <<order, bought, licence>>

Order == [account : Account, sku : Sku]

LInit ==
    /\ order   = [p \in Purchase |-> None]
    /\ bought  = [p \in Purchase |-> "no"]
    /\ licence = [p \in Purchase |-> "none"]

Ask(p) ==
    /\ order[p] = None
    /\ \E o \in Order : order' = [order EXCEPT ![p] = o]
    /\ UNCHANGED <<bought, licence>>

\* The customer completes the purchase, or a delayed payment settles.
Buy(p) ==
    /\ order[p] # None
    /\ \/ bought[p] = "no" /\ bought' = [bought EXCEPT ![p] = "unpaid"]
       \/ bought[p] # "paid" /\ bought' = [bought EXCEPT ![p] = "paid"]
    /\ UNCHANGED <<order, licence>>

IntroTaken(a) ==
    \E q \in Purchase : /\ licence[q] # "none"
                        /\ order[q] = [account |-> a, sku |-> Intro]

Grant(p) ==
    /\ licence[p] = "none"
    /\ bought[p] # "no"
    /\ IF order[p].sku = Intro
       THEN /\ bought[p] = "paid"
            /\ ~IntroTaken(order[p].account)
            /\ licence' = [licence EXCEPT ![p] = "active"]
       ELSE \E s \in {"active", "suspended"} : licence' = [licence EXCEPT ![p] = s]
    /\ UNCHANGED <<order, bought>>

\* The subscription changes at the payment provider.
Follow(p) ==
    /\ licence[p] # "none"
    /\ order[p].sku # Intro
    /\ \E s \in {"active", "suspended"} : licence' = [licence EXCEPT ![p] = s]
    /\ UNCHANGED <<order, bought>>

\* Refund or dispute of the one-time payment.
Revoke(p) ==
    /\ licence[p] # "none"
    /\ order[p].sku = Intro
    /\ licence' = [licence EXCEPT ![p] = "revoked"]
    /\ UNCHANGED <<order, bought>>

LNext == \E p \in Purchase : Ask(p) \/ Buy(p) \/ Grant(p) \/ Follow(p) \/ Revoke(p)

LSpec == LInit /\ [][LNext]_lvars
=============================================================================
