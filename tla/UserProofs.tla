------------------------------ MODULE UserProofs ------------------------------
(***************************************************************************)
(* What a user is given, in the deployment: the credentials of the         *)
(* identity store, and the admissions and transcripts of the voice routes. *)
(***************************************************************************)
EXTENDS SafeguardProofs

-----------------------------------------------------------------------------
(* Identity: where a token comes from. *)

NamesAncestors(f, rows) ==
    f = [t \in DOMAIN rows |-> IF rows[t].parent.kind = "code" THEN rows[t].parent.at
                              ELSE f[rows[t].parent.at]]

\* Along parents that are earlier there is one way to name every ancestor.
LEMMA AncestorIsUnique ==
    ASSUME NEW n \in Nat, NEW rows, DOMAIN rows = 1..n,
           \A t \in 1..n : rows[t].parent.kind # "code" => rows[t].parent.at \in 1..(t - 1),
           NEW f, NamesAncestors(f, rows), NEW g, NamesAncestors(g, rows)
    PROVE  f = g
<1> DEFINE T == {t \in 1..n : f[t] # g[t]}
<1>1. ASSUME T # {} PROVE FALSE
  <2>1. T \in SUBSET Nat
    OBVIOUS
  <2>2. PICK t \in T : \A u \in T : t <= u
    BY <1>1, <2>1, LeastNatural
  <2>3. CASE rows[t].parent.kind = "code"
    BY <2>2, <2>3 DEF NamesAncestors
  <2>4. CASE rows[t].parent.kind # "code"
    <3>1. t \in 1..n /\ rows[t].parent.at \in 1..(t - 1)
      BY <2>2, <2>4
    <3>2. rows[t].parent.at \in 1..n /\ ~(t <= rows[t].parent.at)
      BY <3>1
    <3>3. rows[t].parent.at \notin T
      BY <2>2, <3>2
    <3>4. f[rows[t].parent.at] = g[rows[t].parent.at]
      BY <3>2, <3>3
    <3> QED
      BY <2>2, <2>4, <3>1, <3>4 DEF NamesAncestors
  <2> QED
    BY <2>3, <2>4
<1>2. \A t \in 1..n : f[t] = g[t]
  BY <1>1
<1>3. DOMAIN f = 1..n /\ DOMAIN g = 1..n
  BY DEF NamesAncestors
<1>4. f = [t \in 1..n |-> f[t]]
  BY <1>3 DEF NamesAncestors
<1>5. g = [t \in 1..n |-> g[t]]
  BY <1>3 DEF NamesAncestors
<1> QED
  BY <1>2, <1>4, <1>5

\* What names every ancestor after a step is Ancestor after it.
LEMMA AncestorAfter ==
    ASSUME NEW n \in Nat, DOMAIN tokens' = 1..n,
           \A t \in 1..n : tokens'[t].parent.kind # "code" => tokens'[t].parent.at \in 1..(t - 1),
           NEW g, NamesAncestors(g, tokens')
    PROVE  Ancestor' = g
<1>1. Ancestor' = CHOOSE f : NamesAncestors(f, tokens')
  BY DEF Ancestor, NamesAncestors
<1>2. NamesAncestors(CHOOSE f : NamesAncestors(f, tokens'), tokens')
  OBVIOUS
<1>3. PICK f : f = Ancestor'
  OBVIOUS
<1>4. NamesAncestors(f, tokens')
  BY <1>1, <1>2, <1>3
<1>5. PICK rows : rows = tokens'
  OBVIOUS
<1>6. NamesAncestors(f, rows) /\ NamesAncestors(g, rows)
  BY <1>4, <1>5
<1>7. /\ DOMAIN rows = 1..n
      /\ \A t \in 1..n : rows[t].parent.kind # "code" => rows[t].parent.at \in 1..(t - 1)
  BY <1>5
<1>8. f = g
  BY <1>6, <1>7, AncestorIsUnique
<1> QED
  BY <1>3, <1>8

\* Where tokens keep all but that they are revoked or expire, and codes may be
\* added, consumed or expire, everything descends as before.
LEMMA DescentStays ==
    ASSUME IdentityInv, DOMAIN tokens' = DOMAIN tokens,
           \A t \in DOMAIN tokens :
               /\ tokens'[t].kind = tokens[t].kind /\ tokens'[t].account = tokens[t].account
               /\ tokens'[t].client = tokens[t].client /\ tokens'[t].scope = tokens[t].scope
               /\ tokens'[t].parent = tokens[t].parent
               /\ tokens[t].revoked => tokens'[t].revoked,
           DOMAIN codes \subseteq DOMAIN codes',
           \A c \in DOMAIN codes :
               /\ codes'[c].account = codes[c].account /\ codes'[c].client = codes[c].client
               /\ codes'[c].scope = codes[c].scope
               /\ codes[c].consumed => codes'[c].consumed
    PROVE  TokensDescend' /\ OneLiveRefresh'
<1>1. PICK n \in Nat : DOMAIN tokens = 1..n
  BY SMTT(20) DEF IdentityInv, IdentityTyped
<1>2. /\ \A t \in 1..n : IF tokens[t].parent.kind = "code" THEN tokens[t].parent.at \in DOMAIN codes
                         ELSE tokens[t].parent.at \in 1..(t - 1) /\ tokens[tokens[t].parent.at].revoked
      /\ Ancestor \in [1..n -> DOMAIN codes]
      /\ \A t \in 1..n : Ancestor[t] = IF tokens[t].parent.kind = "code" THEN tokens[t].parent.at
                                       ELSE Ancestor[tokens[t].parent.at]
  BY <1>1 DEF IdentityInv, TokensDescend
<1>3. PICK g : g = Ancestor
  OBVIOUS
<1>4. NamesAncestors(g, tokens')
  <2>1. g = [t \in 1..n |-> g[t]]
    BY <1>2, <1>3
  <2>2. \A t \in 1..n : g[t] = IF tokens'[t].parent.kind = "code" THEN tokens'[t].parent.at
                               ELSE g[tokens'[t].parent.at]
    BY <1>1, <1>2, <1>3
  <2> QED
    BY <1>1, <2>1, <2>2 DEF NamesAncestors
<1>5. Ancestor' = Ancestor
  <2>1. \A t \in 1..n : tokens'[t].parent.kind # "code" => tokens'[t].parent.at \in 1..(t - 1)
    BY <1>1, <1>2
  <2> QED
    BY <1>1, <1>3, <1>4, <2>1, AncestorAfter
<1>6. TokensDescend'
  <2>1. \A t \in 1..n : IF tokens'[t].parent.kind = "code" THEN tokens'[t].parent.at \in DOMAIN codes'
                        ELSE tokens'[t].parent.at \in 1..(t - 1) /\ tokens'[tokens'[t].parent.at].revoked
    <3> TAKE t \in 1..n
    <3>1. CASE tokens[t].parent.kind = "code"
      BY <1>1, <1>2, <3>1
    <3>2. CASE tokens[t].parent.kind # "code"
      <4>1. tokens[t].parent.at \in 1..(t - 1) /\ tokens[t].parent.at \in 1..n
        BY <1>2, <3>2
      <4> QED
        BY <1>1, <1>2, <3>2, <4>1
    <3> QED
      BY <3>1, <3>2
  <2>2. Ancestor' \in [1..n -> DOMAIN codes']
    BY <1>2, <1>5
  <2>3. \A t \in 1..n : Ancestor'[t] = IF tokens'[t].parent.kind = "code" THEN tokens'[t].parent.at
                                       ELSE Ancestor'[tokens'[t].parent.at]
    BY <1>1, <1>2, <1>5
  <2> QED
    BY <1>1, <2>1, <2>2, <2>3 DEF TokensDescend
<1>7. OneLiveRefresh'
  <2>1. OneLiveRefresh
    BY DEF IdentityInv
  <2>2. \A t, u \in 1..n :
           /\ tokens'[t].kind = "REFRESH" /\ tokens'[u].kind = "REFRESH"
           /\ ~tokens'[t].revoked /\ ~tokens'[u].revoked
           /\ Ancestor'[t] = Ancestor'[u]
           => t = u
    BY <1>1, <1>5, <2>1 DEF OneLiveRefresh
  <2>3. \A t, u \in 1..n :
           tokens'[t].parent = tokens'[u].parent /\ tokens'[t].kind = tokens'[u].kind => t = u
    BY <1>1, <2>1 DEF OneLiveRefresh
  <2>4. ASSUME NEW t \in 1..n
        PROVE  /\ codes'[Ancestor'[t]].consumed
               /\ tokens'[t].account = codes'[Ancestor'[t]].account
               /\ tokens'[t].client = codes'[Ancestor'[t]].client
               /\ tokens'[t].scope = codes'[Ancestor'[t]].scope
    <3>1. Ancestor[t] \in DOMAIN codes
      BY <1>2
    <3> QED
      BY <1>1, <1>5, <2>1, <3>1 DEF OneLiveRefresh
  <2> QED
    BY <1>1, <2>2, <2>3, <2>4 DEF OneLiveRefresh
<1> QED
  BY <1>6, <1>7

\* The first n tokens are as they were, but that some are revoked or expired.
TokensKept(n) ==
    \A t \in 1..n :
        /\ tokens'[t].kind = tokens[t].kind /\ tokens'[t].account = tokens[t].account
        /\ tokens'[t].client = tokens[t].client /\ tokens'[t].scope = tokens[t].scope
        /\ tokens'[t].parent = tokens[t].parent
        /\ tokens[t].revoked => tokens'[t].revoked

\* Behind them is a pair for what code c grants, made from a parent that had none.
PairAdded(n, parent, c) ==
    /\ \A t \in {n + 1, n + 2} :
         /\ tokens'[t].parent = parent
         /\ tokens'[t].account = codes[c].account
         /\ tokens'[t].client = codes[c].client /\ tokens'[t].scope = codes[c].scope
    /\ tokens'[n + 1].kind = "ACCESS" /\ tokens'[n + 2].kind = "REFRESH"
    /\ \A t \in 1..n : tokens[t].parent # parent

\* The codes are as they were, but that some are consumed or expired.
CodesKept ==
    /\ DOMAIN codes' = DOMAIN codes
    /\ \A d \in DOMAIN codes :
         /\ codes'[d].account = codes[d].account /\ codes'[d].client = codes[d].client
         /\ codes'[d].scope = codes[d].scope
         /\ codes[d].consumed => codes'[d].consumed

\* Code c is spent, and so is every refresh token that descends from it.
Spent(n, c) ==
    /\ codes'[c].consumed
    /\ \A t \in 1..n : tokens[t].kind = "REFRESH" /\ Ancestor[t] = c => tokens'[t].revoked

\* The parent is code c itself, or a token that descends from it and is revoked.
ParentOf(n, parent, c) ==
    IF parent.kind = "code" THEN parent.at = c
    ELSE parent.at \in 1..n /\ tokens'[parent.at].revoked /\ Ancestor[parent.at] = c

\* A token pair that comes from a code which had none, or from the one refresh
\* token that is revoked for it.
LEMMA PairDescends ==
    ASSUME IdentityInv, NEW n \in Nat, DOMAIN tokens = 1..n, DOMAIN tokens' = 1..(n + 2),
           NEW parent \in [kind : {"code", "token"}, at : Nat], NEW c \in DOMAIN codes,
           TokensKept(n), PairAdded(n, parent, c), CodesKept, Spent(n, c), ParentOf(n, parent, c)
    PROVE  TokensDescend' /\ OneLiveRefresh'
<1>0. PICK kind \in {"code", "token"}, at \in Nat : parent = [kind |-> kind, at |-> at]
  OBVIOUS
<1>p. IF kind = "code" THEN at = c ELSE at \in 1..n /\ tokens'[at].revoked /\ Ancestor[at] = c
  BY <1>0 DEF ParentOf
<1> USE DEF TokensKept, PairAdded, CodesKept, Spent
<1>1. /\ \A t \in 1..n : IF tokens[t].parent.kind = "code" THEN tokens[t].parent.at \in DOMAIN codes
                         ELSE tokens[t].parent.at \in 1..(t - 1) /\ tokens[tokens[t].parent.at].revoked
      /\ Ancestor \in [1..n -> DOMAIN codes]
      /\ \A t \in 1..n : Ancestor[t] = IF tokens[t].parent.kind = "code" THEN tokens[t].parent.at
                                       ELSE Ancestor[tokens[t].parent.at]
  BY DEF IdentityInv, TokensDescend
<1>2. PICK g : g = [t \in 1..(n + 2) |-> IF t \in 1..n THEN Ancestor[t] ELSE c]
  OBVIOUS
<1>3. /\ \A t \in 1..n : t \in 1..(n + 2) /\ t # n + 1 /\ t # n + 2 /\ g[t] = Ancestor[t]
      /\ \A t \in {n + 1, n + 2} : t \in 1..(n + 2) /\ t \notin 1..n /\ g[t] = c
      /\ \A t \in 1..(n + 2) : t \in 1..n \/ t \in {n + 1, n + 2}
      /\ g = [t \in 1..(n + 2) |-> g[t]]
  BY <1>2
<1>4. \A t \in {n + 1, n + 2} : tokens'[t].parent.kind = kind /\ tokens'[t].parent.at = at
  BY <1>0
<1>5. ASSUME NEW t \in 1..(n + 2)
      PROVE  IF tokens'[t].parent.kind = "code" THEN tokens'[t].parent.at \in DOMAIN codes'
             ELSE tokens'[t].parent.at \in 1..(t - 1) /\ tokens'[tokens'[t].parent.at].revoked
  <2>1. CASE t \in 1..n
    <3>1. CASE tokens[t].parent.kind = "code"
      BY <1>1, <2>1, <3>1
    <3>2. CASE tokens[t].parent.kind # "code"
      <4>1. tokens[t].parent.at \in 1..(t - 1) /\ tokens[t].parent.at \in 1..n
        BY <1>1, <2>1, <3>2
      <4> QED
        BY <1>1, <2>1, <3>2, <4>1
    <3> QED
      BY <3>1, <3>2
  <2>2. CASE t \in {n + 1, n + 2}
    <3>1. tokens'[t].parent.kind = kind /\ tokens'[t].parent.at = at
      BY <1>4, <2>2
    <3>2. kind # "code" => at \in 1..(t - 1)
      BY <1>p, <2>2
    <3> QED
      BY <1>p, <3>1, <3>2
  <2> QED
    BY <1>3, <2>1, <2>2
<1>6. ASSUME NEW t \in 1..(n + 2)
      PROVE  g[t] = IF tokens'[t].parent.kind = "code" THEN tokens'[t].parent.at
                    ELSE g[tokens'[t].parent.at]
  <2>1. CASE t \in 1..n
    <3>1. tokens[t].parent.kind # "code" => tokens[t].parent.at \in 1..n
      BY <1>1, <2>1
    <3>2. tokens'[t].parent = tokens[t].parent /\ g[t] = Ancestor[t]
      BY <1>3, <2>1
    <3>3. CASE tokens[t].parent.kind = "code"
      BY <1>1, <2>1, <3>2, <3>3
    <3>4. CASE tokens[t].parent.kind # "code"
      <4>1. g[tokens[t].parent.at] = Ancestor[tokens[t].parent.at]
        BY <1>3, <3>1, <3>4
      <4>2. Ancestor[t] = Ancestor[tokens[t].parent.at]
        BY <1>1, <2>1, <3>4
      <4> QED
        BY <3>2, <3>4, <4>1, <4>2
    <3> QED
      BY <3>3, <3>4
  <2>2. CASE t \in {n + 1, n + 2}
    <3>1. tokens'[t].parent.kind = kind /\ tokens'[t].parent.at = at /\ g[t] = c
      BY <1>3, <1>4, <2>2
    <3>2. kind # "code" => g[at] = c
      BY <1>3, <1>p
    <3> QED
      BY <1>p, <3>1, <3>2
  <2> QED
    BY <1>3, <2>1, <2>2
<1>7. Ancestor' = g
  <2>1. NamesAncestors(g, tokens')
    BY <1>3, <1>6 DEF NamesAncestors
  <2>2. \A t \in 1..(n + 2) : tokens'[t].parent.kind # "code" => tokens'[t].parent.at \in 1..(t - 1)
    BY <1>5
  <2>3. n + 2 \in Nat
    OBVIOUS
  <2> QED
    BY <2>1, <2>2, <2>3, AncestorAfter
<1>8. TokensDescend'
  <2>1. g \in [1..(n + 2) -> DOMAIN codes']
    <3>1. \A t \in 1..(n + 2) : g[t] \in DOMAIN codes'
      BY <1>1, <1>3
    <3> QED
      BY <1>3, <3>1, ZenonT(30)
  <2> QED
    BY <1>5, <1>6, <1>7, <2>1, Zenon DEF TokensDescend
<1>9. OneLiveRefresh'
  <2>1. OneLiveRefresh
    BY DEF IdentityInv
  <2>2. \A t, u \in 1..(n + 2) :
           /\ tokens'[t].kind = "REFRESH" /\ tokens'[u].kind = "REFRESH"
           /\ ~tokens'[t].revoked /\ ~tokens'[u].revoked
           /\ g[t] = g[u]
           => t = u
    <3>1. ASSUME NEW t \in 1..n, NEW u \in 1..n, tokens'[t].kind = "REFRESH", tokens'[u].kind = "REFRESH",
                 ~tokens'[t].revoked, ~tokens'[u].revoked, g[t] = g[u]
          PROVE  t = u
      <4>1. /\ tokens[t].kind = "REFRESH" /\ tokens[u].kind = "REFRESH"
            /\ ~tokens[t].revoked /\ ~tokens[u].revoked
        BY <3>1
      <4>2. Ancestor[t] = Ancestor[u]
        BY <1>3, <3>1
      <4> QED
        BY <2>1, <4>1, <4>2 DEF OneLiveRefresh
    <3>2. ASSUME NEW t \in 1..n, tokens'[t].kind = "REFRESH", ~tokens'[t].revoked PROVE g[t] # c
      BY <1>3, <3>2
    <3>3. ASSUME NEW t \in {n + 1, n + 2}, tokens'[t].kind = "REFRESH" PROVE t = n + 2 /\ g[t] = c
      BY <1>3, <3>3
    <3>4. TAKE t, u \in 1..(n + 2)
    <3>5. /\ t \in 1..n \/ t \in {n + 1, n + 2}
          /\ u \in 1..n \/ u \in {n + 1, n + 2}
      BY <1>3
    <3> QED
      BY <3>1, <3>2, <3>3, <3>5
  <2>3. \A t, u \in 1..(n + 2) :
           tokens'[t].parent = tokens'[u].parent /\ tokens'[t].kind = tokens'[u].kind => t = u
    <3>1. ASSUME NEW t \in 1..n, NEW u \in 1..n, tokens'[t].parent = tokens'[u].parent,
                 tokens'[t].kind = tokens'[u].kind
          PROVE  t = u
      BY <2>1, <3>1 DEF OneLiveRefresh
    <3>2. ASSUME NEW t \in 1..n, NEW u \in {n + 1, n + 2} PROVE tokens'[t].parent # tokens'[u].parent
      OBVIOUS
    <3>3. ASSUME NEW t \in {n + 1, n + 2}, NEW u \in {n + 1, n + 2}, tokens'[t].kind = tokens'[u].kind
          PROVE  t = u
      BY <3>3
    <3>4. TAKE t, u \in 1..(n + 2)
    <3>5. /\ t \in 1..n \/ t \in {n + 1, n + 2}
          /\ u \in 1..n \/ u \in {n + 1, n + 2}
      BY <1>3
    <3> QED
      BY <3>1, <3>2, <3>3, <3>5
  <2>4. ASSUME NEW t \in 1..(n + 2)
        PROVE  /\ codes'[g[t]].consumed
               /\ tokens'[t].account = codes'[g[t]].account
               /\ tokens'[t].client = codes'[g[t]].client
               /\ tokens'[t].scope = codes'[g[t]].scope
    <3>1. CASE t \in 1..n
      <4>1. g[t] = Ancestor[t] /\ Ancestor[t] \in DOMAIN codes
        BY <1>1, <1>3, <3>1
      <4> QED
        BY <2>1, <3>1, <4>1 DEF OneLiveRefresh
    <3>2. CASE t \in {n + 1, n + 2}
      BY <1>3, <3>2
    <3> QED
      BY <1>3, <3>1, <3>2
  <2> QED
    BY <1>7, <2>2, <2>3, <2>4 DEF OneLiveRefresh
<1> QED
  BY <1>8, <1>9

-----------------------------------------------------------------------------
(* Identity: the steps. *)

\* As time passes nothing that was counted changes.
LEMMA CountStays ==
    ASSUME IdentityInv, UNCHANGED <<failures, guesses>>, clock' \in Nat, clock' >= clock
    PROVE  LockTime >= Window => \A s \in Subject : GuessesCounted(s)'
<1> SUFFICES ASSUME LockTime >= Window, NEW s \in Subject PROVE GuessesCounted(s)'
  BY DEF Subject
<1>1. GuessesCounted(s)
  BY DEF IdentityInv
<1>2. clock \in Nat /\ guesses[s] \in Seq(Nat)
  BY DEF IdentityInv, IdentityTyped
<1>3. \A i \in 1..Len(guesses[s]) : guesses[s][i] \in Nat
  BY <1>2
<1>4. Len(guesses[s]) \in Nat
  BY <1>2
<1>5. Len(guesses[s]) > 0 => guesses[s][Len(guesses[s])] <= clock'
  <2>1. Len(guesses[s]) > 0 => guesses[s][Len(guesses[s])] <= clock
    BY <1>1 DEF GuessesCounted
  <2>2. Len(guesses[s]) > 0 => guesses[s][Len(guesses[s])] \in Nat
    BY <1>3, <1>4
  <2> QED
    BY <1>2, <2>1, <2>2
<1> QED
  BY <1>1, <1>5 DEF GuessesCounted

\* Who has not been asked for, has not been guessed at.
LEMMA CalmIsCounted ==
    ASSUME NEW s \in Subject, failures'[s] = Calm, guesses'[s] = <<>>
    PROVE  GuessesCounted(s)'
<1>1. Len(guesses'[s]) = 0 /\ failures'[s].count = 0
  BY DEF Calm
<1>2. MaxFailures \in Nat /\ MaxFailures > 1
  BY IdentityAssumption
<1>3. ~(0 >= MaxFailures) /\ ~(0 > 0) /\ \A i : i \notin 1..0
  BY <1>2
<1> QED
  BY <1>1, <1>3 DEF GuessesCounted

LEMMA InitIdentity == IdentityInit => IdentityInv
<1> SUFFICES ASSUME IdentityInit PROVE IdentityInv
  OBVIOUS
<1>1. IdentityTyped
  <2>1. /\ <<>> \in Seq(InviteRow) /\ <<>> \in Seq(CodeRow) /\ <<>> \in Seq(TokenRow)
        /\ <<>> \in Seq(Nat)
    OBVIOUS
  <2>2. Calm \in [count : Nat, start : Nat, until : Nat]
    BY DEF Calm
  <2>3. /\ failures \in [Subject -> [count : Nat, start : Nat, until : Nat]]
        /\ guesses \in [Subject -> Seq(Nat)]
    BY <2>1, <2>2 DEF IdentityInit
  <2>4. accounts \in Nat /\ clock \in Nat
    BY DEF IdentityInit
  <2>5. invites \in Seq(InviteRow) /\ codes \in Seq(CodeRow) /\ tokens \in Seq(TokenRow)
    BY <2>1 DEF IdentityInit
  <2> QED
    BY <2>3, <2>4, <2>5 DEF IdentityTyped
<1>2. InvitesStand
  BY DEF IdentityInit, InvitesStand
<1>3. CodesStand
  BY DEF IdentityInit, CodesStand
<1>4. DOMAIN tokens = {} /\ DOMAIN codes = {}
  BY DEF IdentityInit
<1>5. TokensDescend
  <2>1. PICK g : g = [t \in {} |-> 0]
    OBVIOUS
  <2>2. DOMAIN g = {} /\ g \in [{} -> DOMAIN codes]
    BY <2>1
  <2>3. Ancestor = CHOOSE f : NamesAncestors(f, tokens)
    BY DEF Ancestor, NamesAncestors
  <2>4. NamesAncestors(g, tokens)
    BY <1>4, <2>1 DEF NamesAncestors
  <2>5. NamesAncestors(Ancestor, tokens)
    BY <2>3, <2>4
  <2>6. Ancestor \in [{} -> DOMAIN codes]
    BY <1>4, <2>5 DEF NamesAncestors
  <2> QED
    BY <1>4, <2>6 DEF TokensDescend
<1>6. OneLiveRefresh
  BY <1>4 DEF OneLiveRefresh
<1>7. \A s \in Subject : GuessesCounted(s)
  <2> TAKE s \in Subject
  <2>1. Len(guesses[s]) = 0 /\ failures[s].count = 0
    BY DEF Calm, IdentityInit
  <2>2. MaxFailures \in Nat /\ MaxFailures > 1
    BY IdentityAssumption
  <2>3. ~(0 >= MaxFailures) /\ ~(0 > 0) /\ \A i : i \notin 1..0
    BY <2>2
  <2> QED
    BY <2>1, <2>3 DEF GuessesCounted
<1> QED
  BY <1>1, <1>2, <1>3, <1>5, <1>6, <1>7 DEF IdentityInv

\* An invitation is made, consumed or expires.
LEMMA InvitesMove ==
    ASSUME IdentityInv, UNCHANGED <<setup, codes, tokens, failures, guesses, clock>>,
           invites' \in Seq(InviteRow), accounts' \in Nat, accounts' >= accounts, InvitesStand'
    PROVE  IdentityInv'
<1>1. Registry' = Registry
  BY DEF Registry, WellFormed
<1>2. CodeRow' = CodeRow /\ TokenRow' = TokenRow
  BY <1>1 DEF CodeRow, TokenRow, Clients, ClientScopes
<1>3. IdentityTyped'
  <2>1. IdentityTyped
    BY DEF IdentityInv
  <2>2. codes' \in Seq(CodeRow') /\ tokens' \in Seq(TokenRow')
    BY <1>2, <2>1 DEF IdentityTyped
  <2> QED
    BY <2>1, <2>2 DEF IdentityTyped
<1>4. CodesStand'
  <2>1. ASSUME NEW c \in DOMAIN codes PROVE codes[c].account \in 1..accounts'
    <3>1. codes[c].account \in 1..accounts /\ accounts \in Nat
      BY DEF IdentityInv, IdentityTyped, CodesStand
    <3> QED
      BY <3>1
  <2> QED
    BY <1>1, <2>1 DEF IdentityInv, CodesStand
<1>5. TokensDescend' /\ OneLiveRefresh'
  BY DescentStays
<1>6. LockTime >= Window => \A s \in Subject : GuessesCounted(s)'
  <2>1. clock' \in Nat /\ clock' >= clock
    BY DEF IdentityInv, IdentityTyped
  <2> QED
    BY <2>1, CountStays
<1> QED
  BY <1>3, <1>4, <1>5, <1>6 DEF IdentityInv, Subject

LEMMA InviteInv ==
    ASSUME IdentityInv, Invite
    PROVE  IdentityInv'
<1>1. PICK n \in Nat : Len(invites) = n /\ DOMAIN invites = 1..n
  BY DEF IdentityInv, IdentityTyped
<1>2. invites \in Seq(InviteRow) /\ accounts \in Nat
  BY DEF IdentityInv, IdentityTyped
<1>3. NewInvitation \in InviteRow /\ NewInvitation.account = 0
  BY DEF NewInvitation, InviteRow
<1>4. PICK r \in InviteRow : r = NewInvitation
  BY <1>3
<1>5. /\ invites' \in Seq(InviteRow) /\ DOMAIN invites' = 1..(n + 1)
      /\ \A i \in 1..n : invites'[i] = invites[i]
      /\ invites'[n + 1] = r
  BY <1>1, <1>2, <1>4 DEF Invite
<1>6. \A i \in 1..(n + 1) : i \in 1..n \/ i = n + 1
  BY <1>1
<1>7. \A i \in 1..n : i \in 1..(n + 1)
  BY <1>1
<1>8. InvitesStand'
  <2>1. InvitesStand
    BY DEF IdentityInv
  <2>2. \A i \in 1..(n + 1) : invites'[i].account <= accounts
    BY <1>1, <1>2, <1>3, <1>4, <1>5, <1>6, <2>1 DEF InvitesStand
  <2>3. \A a \in 1..accounts : \E i \in 1..(n + 1) : invites'[i].account = a
    BY <1>1, <1>5, <1>7, <2>1 DEF InvitesStand
  <2>4. \A i, j \in 1..(n + 1) :
           invites'[i].account = invites'[j].account => i = j \/ invites'[i].account = 0
    BY <1>1, <1>3, <1>4, <1>5, <1>6, <2>1 DEF InvitesStand
  <2>5. OwnerProvisioned' \/ BootstrapProvisioned'
    BY DEF Invite, OwnerProvisioned, BootstrapProvisioned
  <2>6. accounts' = accounts
    BY DEF Invite
  <2> QED
    BY <1>5, <2>2, <2>3, <2>4, <2>5, <2>6 DEF InvitesStand
<1> QED
  BY <1>2, <1>5, <1>8, InvitesMove DEF Invite

LEMMA EnrollInv ==
    ASSUME IdentityInv, NEW k \in DOMAIN invites, Enroll(k)
    PROVE  IdentityInv'
<1>1. PICK n \in Nat : Len(invites) = n /\ DOMAIN invites = 1..n
  BY DEF IdentityInv, IdentityTyped
<1>2. invites \in Seq(InviteRow) /\ accounts \in Nat
  BY DEF IdentityInv, IdentityTyped
<1>3. invites' = [invites EXCEPT ![k] = [invites[k] EXCEPT !.account = accounts + 1]]
  BY DEF Enroll
<1>4. invites[k] \in InviteRow
  BY <1>1, <1>2
<1>5. PICK r \in InviteRow : r = [invites[k] EXCEPT !.account = accounts + 1]
  <2>1. accounts + 1 \in Nat
    BY <1>2
  <2>2. [invites[k] EXCEPT !.account = accounts + 1] \in InviteRow
    BY <1>4, <2>1 DEF InviteRow
  <2> QED
    BY <2>2
<1>6. r.account = accounts + 1 /\ accounts' = accounts + 1
  BY <1>4, <1>5 DEF InviteRow, Enroll
<1>7. invites' = [invites EXCEPT ![k] = r]
  BY <1>3, <1>5
<1>8. /\ invites' \in Seq(InviteRow) /\ DOMAIN invites' = 1..n
      /\ \A i \in 1..n : invites'[i] = IF i = k THEN r ELSE invites[i]
  BY <1>1, <1>2, <1>7
<1>9. InvitesStand'
  <2>1. InvitesStand
    BY DEF IdentityInv
  <2>2. \A i \in 1..n : invites[i].account \in Nat /\ invites[i].account <= accounts
    <3>1. \A i \in 1..n : invites[i] \in InviteRow
      BY <1>1, <1>2
    <3> QED
      BY <1>1, <2>1, <3>1 DEF InvitesStand, InviteRow
  <2>3. ASSUME NEW i \in 1..n PROVE invites'[i].account <= accounts'
    <3>1. invites[i].account \in Nat /\ invites[i].account <= accounts
      BY <2>2
    <3>2. invites'[i].account \in {accounts + 1, invites[i].account}
      BY <1>6, <1>8
    <3> QED
      BY <1>2, <1>6, <3>1, <3>2
  <2>4. ASSUME NEW a \in 1..accounts' PROVE \E i \in 1..n : invites'[i].account = a
    <3>1. CASE a \in 1..accounts
      <4>1. PICK i \in 1..n : invites[i].account = a
        BY <1>1, <2>1, <3>1 DEF InvitesStand
      <4>2. i # k
        BY <3>1, <4>1 DEF Enroll
      <4> QED
        BY <1>8, <4>1, <4>2
    <3>2. CASE a \notin 1..accounts
      <4>1. a = accounts + 1
        BY <1>2, <1>6, <3>2
      <4> QED
        BY <1>1, <1>6, <1>8, <4>1
    <3> QED
      BY <3>1, <3>2
  <2>5. ASSUME NEW i \in 1..n, NEW j \in 1..n, invites'[i].account = invites'[j].account, i # j
        PROVE  invites'[i].account = 0
    <3>1. CASE i = k \/ j = k
      BY <1>2, <1>6, <1>8, <2>2, <2>5, <3>1
    <3>2. CASE i # k /\ j # k
      BY <1>1, <1>8, <2>1, <2>5, <3>2 DEF InvitesStand
    <3> QED
      BY <3>1, <3>2
  <2>6. OwnerProvisioned' \/ BootstrapProvisioned'
    BY <1>1, <2>1 DEF Enroll, InvitesStand, OwnerProvisioned, BootstrapProvisioned
  <2> QED
    BY <1>8, <2>3, <2>4, <2>5, <2>6 DEF InvitesStand
<1>10. accounts' \in Nat /\ accounts' >= accounts
  BY <1>2, <1>6
<1> QED
  BY <1>8, <1>9, <1>10, InvitesMove DEF Enroll

\* Guesses are made and forgotten, and time passes.
LEMMA GuessesMove ==
    ASSUME IdentityInv, UNCHANGED <<setup, invites, accounts, tokens>>, clock' \in Nat,
           CodesStand', codes' \in Seq(CodeRow), DOMAIN codes \subseteq DOMAIN codes',
           \A c \in DOMAIN codes : codes'[c] = codes[c],
           failures' \in [Subject -> [count : Nat, start : Nat, until : Nat]],
           guesses' \in [Subject -> Seq(Nat)],
           LockTime >= Window => \A s \in Subject : GuessesCounted(s)'
    PROVE  IdentityInv'
<1>1. Registry' = Registry
  BY DEF Registry, WellFormed
<1>2. CodeRow' = CodeRow /\ TokenRow' = TokenRow
  BY <1>1 DEF CodeRow, TokenRow, Clients, ClientScopes
<1>3. IdentityTyped'
  <2>1. IdentityTyped
    BY DEF IdentityInv
  <2>2. codes' \in Seq(CodeRow') /\ tokens' \in Seq(TokenRow')
    BY <1>2, <2>1 DEF IdentityTyped
  <2>3. Subject' = Subject
    BY DEF Subject
  <2> QED
    BY <2>1, <2>2, <2>3 DEF IdentityTyped
<1>4. InvitesStand'
  BY DEF IdentityInv, InvitesStand, OwnerProvisioned, BootstrapProvisioned
<1>5. TokensDescend' /\ OneLiveRefresh'
  BY DescentStays
<1> QED
  BY <1>3, <1>4, <1>5 DEF IdentityInv, Subject

LEMMA CodesStay ==
    ASSUME IdentityInv, UNCHANGED <<setup, accounts, codes>>
    PROVE  CodesStand' /\ codes' \in Seq(CodeRow)
<1>1. Registry' = Registry
  BY DEF Registry, WellFormed
<1> QED
  BY <1>1 DEF IdentityInv, IdentityTyped, CodesStand

LEMMA IdentityTickInv ==
    ASSUME IdentityInv, Tick
    PROVE  IdentityInv'
<1>1. clock' \in Nat /\ clock' >= clock
  BY DEF Tick, IdentityInv, IdentityTyped
<1>2. UNCHANGED <<setup, invites, accounts, codes, tokens, failures, guesses>>
  BY DEF Tick
<1>3. LockTime >= Window => \A s \in Subject : GuessesCounted(s)'
  BY <1>1, <1>2, CountStays
<1>4. CodesStand' /\ codes' \in Seq(CodeRow)
  BY <1>2, CodesStay
<1>5. /\ failures' \in [Subject -> [count : Nat, start : Nat, until : Nat]]
      /\ guesses' \in [Subject -> Seq(Nat)]
  BY <1>2 DEF IdentityInv, IdentityTyped
<1> QED
  BY <1>1, <1>2, <1>3, <1>4, <1>5, GuessesMove

\* The right password.
LEMMA ForgottenIsCounted ==
    ASSUME IdentityInv, NEW u \in Subject, ClearFailures(u), clock' = clock
    PROVE  /\ failures' \in [Subject -> [count : Nat, start : Nat, until : Nat]]
           /\ guesses' \in [Subject -> Seq(Nat)]
           /\ LockTime >= Window => \A s \in Subject : GuessesCounted(s)'
<1>1. /\ failures \in [Subject -> [count : Nat, start : Nat, until : Nat]]
      /\ guesses \in [Subject -> Seq(Nat)]
  BY DEF IdentityInv, IdentityTyped
<1>2. <<>> \in Seq(Nat)
  OBVIOUS
<1>3. failures' = [failures EXCEPT ![u] = Calm] /\ guesses' = [guesses EXCEPT ![u] = <<>>]
  BY DEF ClearFailures
<1>4. Calm \in [count : Nat, start : Nat, until : Nat]
  BY DEF Calm
<1>5. ASSUME LockTime >= Window, NEW s \in Subject PROVE GuessesCounted(s)'
  <2>1. CASE s = u
    <3>1. failures'[s] = Calm /\ guesses'[s] = <<>>
      BY <1>1, <1>3, <2>1
    <3> QED
      BY <3>1, CalmIsCounted
  <2>2. CASE s # u
    <3>1. failures'[s] = failures[s] /\ guesses'[s] = guesses[s]
      BY <1>1, <1>3, <2>2
    <3>2. GuessesCounted(s)
      BY <1>5 DEF IdentityInv
    <3> QED
      BY <3>1, <3>2 DEF GuessesCounted
  <2> QED
    BY <2>1, <2>2
<1>6. failures' \in [Subject -> [count : Nat, start : Nat, until : Nat]]
  BY <1>1, <1>3, <1>4
<1>7. guesses' \in [Subject -> Seq(Nat)]
  BY <1>1, <1>2, <1>3
<1> QED
  BY <1>5, <1>6, <1>7

LEMMA SignInInterruptedInv ==
    ASSUME IdentityInv, NEW u \in Subject, SignInInterrupted(u)
    PROVE  IdentityInv'
<1>1. UNCHANGED <<setup, invites, accounts, codes, tokens, clock>> /\ ClearFailures(u)
  BY DEF SignInInterrupted
<1>2. CodesStand' /\ codes' \in Seq(CodeRow)
  BY <1>1, CodesStay
<1>3. clock' \in Nat
  BY <1>1 DEF IdentityInv, IdentityTyped
<1>4. /\ failures' \in [Subject -> [count : Nat, start : Nat, until : Nat]]
      /\ guesses' \in [Subject -> Seq(Nat)]
      /\ LockTime >= Window => \A s \in Subject : GuessesCounted(s)'
  BY <1>1, ForgottenIsCounted
<1> QED
  BY <1>1, <1>2, <1>3, <1>4, GuessesMove

LEMMA SignInInv ==
    ASSUME IdentityInv, NEW entry \in Registry, NEW u \in Subject, NEW redirect \in Https,
           NEW requested \in SUBSET Scope, SignIn(u, entry, redirect, requested)
    PROVE  IdentityInv'
<1>1. UNCHANGED <<setup, invites, accounts, tokens, clock>> /\ ClearFailures(u)
  BY DEF SignIn
<1>2. PICK n \in Nat : Len(codes) = n /\ DOMAIN codes = 1..n
  BY DEF IdentityInv, IdentityTyped
<1>3. codes \in Seq(CodeRow) /\ accounts \in Nat
  BY DEF IdentityInv, IdentityTyped
<1>4. WellFormed(entry)
  BY DEF Registry, ToSet
<1>5. /\ Granted(entry, requested) \subseteq entry.scopes
      /\ Granted(entry, requested) # {}
  BY <1>4 DEF Granted, WellFormed, SignIn, ValidRequest
<1>6. u \in 1..accounts /\ u \in Nat
  BY <1>1, <1>3 DEF Subject, ClearFailures
<1>7. PICK r : r = [account |-> u, client |-> entry.client, redirect |-> redirect,
                    scope |-> Granted(entry, requested), consumed |-> FALSE, expired |-> FALSE]
  OBVIOUS
<1>8. entry.client \in Clients /\ Granted(entry, requested) \in SUBSET ClientScopes
  BY <1>5 DEF Clients, ClientScopes
<1>9. r \in CodeRow
  BY <1>6, <1>7, <1>8 DEF CodeRow
<1>10. codes' = Append(codes, r)
  BY <1>7 DEF SignIn
<1>11. /\ codes' \in Seq(CodeRow) /\ DOMAIN codes' = 1..(n + 1)
       /\ \A c \in 1..n : codes'[c] = codes[c]
       /\ codes'[n + 1] = r
  BY <1>2, <1>3, <1>9, <1>10
<1>12. \A c \in 1..(n + 1) : c \in 1..n \/ c = n + 1
  BY <1>2
<1>13. CodesStand'
  <2>1. Registry' = Registry
    BY <1>1 DEF Registry, WellFormed
  <2>2. ASSUME NEW c \in 1..(n + 1)
        PROVE  /\ codes'[c].account \in 1..accounts
               /\ \E e \in Registry :
                    e.client = codes'[c].client /\ codes'[c].scope \subseteq e.scopes /\ codes'[c].scope # {}
    <3>1. CASE c \in 1..n
      BY <1>2, <1>11, <3>1 DEF IdentityInv, CodesStand
    <3>2. CASE c = n + 1
      <4>1. /\ codes'[c].account = u /\ codes'[c].client = entry.client
            /\ codes'[c].scope = Granted(entry, requested)
        BY <1>7, <1>11, <3>2
      <4> QED
        BY <1>5, <1>6, <4>1
    <3> QED
      BY <1>12, <3>1, <3>2
  <2> QED
    BY <1>1, <1>11, <2>1, <2>2 DEF CodesStand
<1>14. clock' \in Nat
  BY <1>1 DEF IdentityInv, IdentityTyped
<1>15. /\ failures' \in [Subject -> [count : Nat, start : Nat, until : Nat]]
       /\ guesses' \in [Subject -> Seq(Nat)]
       /\ LockTime >= Window => \A s \in Subject : GuessesCounted(s)'
  BY <1>1, ForgottenIsCounted
<1>16. DOMAIN codes \subseteq DOMAIN codes'
  BY <1>2, <1>11
<1> QED
  BY <1>1, <1>2, <1>11, <1>13, <1>14, <1>15, <1>16, GuessesMove

\* A wrong password: the run goes on, or a new one starts.
LEMMA FailureIsCounted ==
    ASSUME IdentityInv, LockTime >= Window, NEW s \in Subject, ~Locked(s), clock' = clock,
           failures'[s] = CountFailure(s), guesses'[s] = Append(guesses[s], clock)
    PROVE  GuessesCounted(s)'
<1> DEFINE g == guesses[s]
           n == Len(g)
           c == failures[s].count
           start == failures[s].start
           h == guesses'[s]
           stale == c = 0 \/ clock - start > Window
<1>1. /\ g \in Seq(Nat) /\ n \in Nat /\ c \in Nat /\ start \in Nat /\ failures[s].until \in Nat
      /\ clock \in Nat /\ \A i \in 1..n : g[i] \in Nat
  BY SMTT(20) DEF IdentityInv, IdentityTyped
<1>2. MaxFailures \in Nat /\ MaxFailures > 1 /\ Window \in Nat /\ LockTime \in Nat
  BY IdentityAssumption
<1>3. /\ c <= n /\ (c = 0 => n = 0)
      /\ \A i, j \in 1..n : i <= j => g[i] <= g[j]
      /\ n > 0 => g[n] <= clock /\ start = g[n - c + 1]
      /\ c >= MaxFailures => failures[s].until = g[n] + LockTime
      /\ \A i \in 1..n : i <= n - c - MaxFailures + 2 => start - g[i] >= Window
      /\ \A i, j \in 1..n : j - i >= 2 * MaxFailures - 2 => g[j] - g[i] >= Window
  <2>1. GuessesCounted(s)
    BY DEF IdentityInv
  <2> QED
    BY <2>1 DEF GuessesCounted
<1>4. /\ Len(h) = n + 1 /\ h[n + 1] = clock
      /\ \A i \in 1..n : h[i] = g[i]
  BY <1>1
<1>5. failures[s].until <= clock
  BY <1>1 DEF Locked
<1>6. c >= MaxFailures => \A i \in 1..n : clock - g[i] >= Window
  <2>1. ASSUME c >= MaxFailures, NEW i \in 1..n PROVE clock - g[i] >= Window
    <3>1. n > 0 /\ n \in 1..n /\ i <= n
      BY <1>1
    <3>2. g[i] <= g[n] /\ g[i] \in Nat /\ g[n] \in Nat
      BY <1>1, <1>3, <3>1
    <3>3. g[n] + LockTime <= clock
      BY <1>3, <1>5, <2>1
    <3> QED
      BY <1>1, <1>2, <3>2, <3>3, SMTT(20)
  <2> QED
    BY <2>1
<1>7. /\ failures'[s].count = IF stale THEN 1 ELSE c + 1
      /\ failures'[s].start = IF stale THEN clock ELSE start
      /\ failures'[s].count >= MaxFailures => failures'[s].until = clock + LockTime
  BY DEF CountFailure
<1> HIDE DEF g, n, c, start, h
<1>8. ASSUME NEW i \in 1..(n + 1) PROVE i \in 1..n \/ i = n + 1
  BY <1>1
<1>9. \A i, j \in 1..(n + 1) : i <= j => h[i] <= h[j]
  <2> TAKE i, j \in 1..(n + 1)
  <2> HAVE i <= j
  <2>1. CASE j \in 1..n
    <3>1. i \in 1..n
      BY <1>1, <2>1
    <3> QED
      BY <1>3, <1>4, <2>1, <3>1
  <2>2. CASE j = n + 1 /\ i \in 1..n
    <3>1. n > 0 /\ n \in 1..n /\ i <= n
      BY <1>1, <2>2
    <3>2. g[i] <= g[n] /\ g[i] \in Nat /\ g[n] \in Nat /\ g[n] <= clock
      BY <1>1, <1>3, <2>2, <3>1
    <3> QED
      BY <1>1, <1>4, <2>2, <3>2
  <2>3. CASE j = n + 1 /\ i = n + 1
    BY <1>1, <1>4, <2>3
  <2> QED
    BY <1>8, <2>1, <2>2, <2>3
<1>10. ASSUME NEW i \in 1..n, i <= n - 2 * MaxFailures + 3 PROVE clock - g[i] >= Window
  <2>1. CASE c >= MaxFailures
    BY <1>6, <2>1
  <2>2. CASE ~(c >= MaxFailures)
    <3>1. i <= n - c - MaxFailures + 2
      BY <1>1, <1>2, <1>10, <2>2
    <3>2. start - g[i] >= Window
      BY <1>3, <3>1
    <3>3. n > 0 /\ c > 0 /\ n - c + 1 \in 1..n /\ n \in 1..n
      BY <1>1, <1>3
    <3>4. start <= g[n] /\ g[n] <= clock
      BY <1>1, <1>3, <3>3
    <3>5. g[i] \in Nat /\ g[n] \in Nat
      BY <1>1, <3>3
    <3> QED
      BY <1>1, <1>2, <3>2, <3>4, <3>5
  <2> QED
    BY <2>1, <2>2
<1>11. \A i, j \in 1..(n + 1) : j - i >= 2 * MaxFailures - 2 => h[j] - h[i] >= Window
  <2> TAKE i, j \in 1..(n + 1)
  <2> HAVE j - i >= 2 * MaxFailures - 2
  <2>1. i < j
    BY <1>1, <1>2
  <2>2. i \in 1..n
    BY <1>1, <2>1
  <2>3. CASE j \in 1..n
    BY <1>3, <1>4, <2>2, <2>3
  <2>4. CASE j = n + 1
    <3>1. i <= n - 2 * MaxFailures + 3
      BY <1>1, <1>2, <2>4
    <3>2. clock - g[i] >= Window
      BY <1>10, <2>2, <3>1
    <3> QED
      BY <1>4, <2>2, <2>4, <3>2
  <2> QED
    BY <1>8, <2>3, <2>4
<1>12. CASE stale
  <2>1. ASSUME NEW i \in 1..n, i <= n - MaxFailures + 2 PROVE clock - g[i] >= Window
    <3>1. CASE c >= MaxFailures
      BY <1>6, <3>1
    <3>2. CASE ~(c >= MaxFailures)
      <4>1. n > 0 /\ c > 0 /\ n - c + 1 \in 1..n /\ i <= n - c + 1
        BY <1>1, <1>2, <1>3, <2>1, <3>2
      <4>2. g[i] <= start /\ g[i] \in Nat
        BY <1>1, <1>3, <4>1
      <4>3. clock - start > Window
        BY <1>12, <4>1
      <4> QED
        BY <1>1, <1>2, <4>2, <4>3
    <3> QED
      BY <3>1, <3>2
  <2>2. failures'[s].count = 1 /\ failures'[s].start = clock
    BY <1>7, <1>12
  <2>3. \A i \in 1..(n + 1) : i <= (n + 1) - 1 - MaxFailures + 2 => clock - h[i] >= Window
    <3> TAKE i \in 1..(n + 1)
    <3> HAVE i <= (n + 1) - 1 - MaxFailures + 2
    <3>1. i \in 1..n /\ i <= n - MaxFailures + 2
      BY <1>1, <1>2
    <3> QED
      BY <1>4, <2>1, <3>1
  <2>4. 1 <= n + 1 /\ ~(1 = 0) /\ ~(1 >= MaxFailures) /\ (n + 1) - 1 + 1 = n + 1
    BY <1>1, <1>2
  <2>5. clock <= clock'
    BY <1>1
  <2> HIDE DEF stale
  <2> QED
    BY <1>4, <1>9, <1>11, <2>2, <2>3, <2>4, <2>5 DEF GuessesCounted, h
<1>13. CASE ~stale
  <2>1. failures'[s].count = c + 1 /\ failures'[s].start = start
    BY <1>7, <1>13
  <2>2. n > 0 /\ c > 0 /\ n - c + 1 \in 1..n
    BY <1>1, <1>3, <1>13
  <2>3. start = h[(n + 1) - (c + 1) + 1]
    <3>1. (n + 1) - (c + 1) + 1 = n - c + 1
      BY <1>1
    <3> QED
      BY <1>3, <1>4, <2>2, <3>1
  <2>4. \A i \in 1..(n + 1) : i <= (n + 1) - (c + 1) - MaxFailures + 2 => start - h[i] >= Window
    <3> TAKE i \in 1..(n + 1)
    <3> HAVE i <= (n + 1) - (c + 1) - MaxFailures + 2
    <3>1. i \in 1..n /\ i <= n - c - MaxFailures + 2
      BY <1>1, <1>2, <2>2
    <3> QED
      BY <1>3, <1>4, <3>1
  <2>5. c + 1 <= n + 1 /\ ~(c + 1 = 0) /\ clock <= clock'
    BY <1>1, <1>3
  <2>6. c + 1 >= MaxFailures => failures'[s].until = h[n + 1] + LockTime
    BY <1>4, <1>7, <2>1
  <2>7. h[n + 1] <= clock'
    BY <1>4, <2>5
  <2> HIDE DEF stale
  <2> QED
    BY <1>4, <1>9, <1>11, <2>1, <2>3, <2>4, <2>5, <2>6, <2>7 DEF GuessesCounted, h
<1> QED
  BY <1>12, <1>13

LEMMA WrongPasswordInv ==
    ASSUME IdentityInv, NEW u \in Subject, WrongPassword(u)
    PROVE  IdentityInv'
<1>1. UNCHANGED <<setup, invites, accounts, codes, tokens, clock>> /\ ~Locked(u)
  BY DEF WrongPassword
<1>2. /\ failures \in [Subject -> [count : Nat, start : Nat, until : Nat]]
      /\ guesses \in [Subject -> Seq(Nat)] /\ clock \in Nat
  BY DEF IdentityInv, IdentityTyped
<1>3. CountFailure(u) \in [count : Nat, start : Nat, until : Nat]
  <2>1. LockTime \in Nat /\ failures[u].count \in Nat /\ failures[u].start \in Nat
    BY <1>2, IdentityAssumption
  <2>2. /\ CountFailure(u) = [count |-> CountFailure(u).count, start |-> CountFailure(u).start,
                             until |-> CountFailure(u).until]
        /\ CountFailure(u).count \in Nat /\ CountFailure(u).start \in Nat
        /\ CountFailure(u).until \in Nat
    BY <1>2, <2>1 DEF CountFailure
  <2> QED
    BY <2>2
<1>4. PICK f \in [count : Nat, start : Nat, until : Nat] : f = CountFailure(u)
  BY <1>3
<1>5. PICK h \in Seq(Nat) : h = Append(guesses[u], clock)
  <2>1. guesses[u] \in Seq(Nat)
    BY <1>2
  <2>2. Append(guesses[u], clock) \in Seq(Nat)
    BY <1>2, <2>1
  <2> QED
    BY <2>2
<1>6. failures' = [failures EXCEPT ![u] = f] /\ guesses' = [guesses EXCEPT ![u] = h]
  BY <1>4, <1>5 DEF WrongPassword
<1>7. /\ failures' \in [Subject -> [count : Nat, start : Nat, until : Nat]]
      /\ guesses' \in [Subject -> Seq(Nat)]
      /\ failures'[u] = f /\ guesses'[u] = h
      /\ \A s \in Subject : s # u => failures'[s] = failures[s] /\ guesses'[s] = guesses[s]
  BY <1>2, <1>6
<1>8. ASSUME LockTime >= Window, NEW s \in Subject PROVE GuessesCounted(s)'
  <2>1. CASE s = u
    BY <1>1, <1>4, <1>5, <1>7, <1>8, <2>1, FailureIsCounted
  <2>2. CASE s # u
    <3>1. failures'[s] = failures[s] /\ guesses'[s] = guesses[s] /\ clock' = clock
      BY <1>1, <1>7, <2>2
    <3>2. GuessesCounted(s)
      BY <1>8 DEF IdentityInv
    <3> QED
      BY <3>1, <3>2 DEF GuessesCounted
  <2> QED
    BY <2>1, <2>2
<1>9. CodesStand' /\ codes' \in Seq(CodeRow)
  BY <1>1, CodesStay
<1>10. clock' \in Nat
  BY <1>1, <1>2
<1> QED
  BY <1>1, <1>7, <1>8, <1>9, <1>10, GuessesMove

\* Codes and tokens are spent, made or expire.
LEMMA GrantsMove ==
    ASSUME IdentityInv, UNCHANGED <<setup, invites, accounts, failures, guesses, clock>>,
           codes' \in Seq(CodeRow), tokens' \in Seq(TokenRow), DOMAIN codes' = DOMAIN codes,
           \A c \in DOMAIN codes :
               /\ codes'[c].account = codes[c].account /\ codes'[c].client = codes[c].client
               /\ codes'[c].scope = codes[c].scope,
           TokensDescend', OneLiveRefresh'
    PROVE  IdentityInv'
<1>1. Registry' = Registry
  BY DEF Registry, WellFormed
<1>2. CodeRow' = CodeRow /\ TokenRow' = TokenRow
  BY <1>1 DEF CodeRow, TokenRow, Clients, ClientScopes
<1>3. IdentityTyped'
  <2>1. IdentityTyped
    BY DEF IdentityInv
  <2>2. codes' \in Seq(CodeRow') /\ tokens' \in Seq(TokenRow')
    BY <1>2
  <2>3. Subject' = Subject
    BY DEF Subject
  <2> QED
    BY <2>1, <2>2, <2>3 DEF IdentityTyped
<1>4. InvitesStand'
  BY DEF IdentityInv, InvitesStand, OwnerProvisioned, BootstrapProvisioned
<1>5. CodesStand'
  BY <1>1 DEF IdentityInv, CodesStand
<1>6. LockTime >= Window => \A s \in Subject : GuessesCounted(s)'
  <2>1. clock' \in Nat /\ clock' >= clock
    BY DEF IdentityInv, IdentityTyped
  <2> QED
    BY <2>1, CountStays
<1> QED
  BY <1>3, <1>4, <1>5, <1>6 DEF IdentityInv, Subject

\* A token that is revoked, or that expires.
LEMMA TokenChangesInv ==
    ASSUME IdentityInv, UNCHANGED <<setup, invites, accounts, codes, failures, guesses, clock>>,
           NEW k \in DOMAIN tokens,
           \/ tokens' = [tokens EXCEPT ![k].revoked = TRUE]
           \/ tokens' = [tokens EXCEPT ![k].expired = TRUE]
    PROVE  IdentityInv'
<1>1. PICK n \in Nat : DOMAIN tokens = 1..n
  BY SMTT(20) DEF IdentityInv, IdentityTyped
<1>2. tokens \in Seq(TokenRow) /\ codes \in Seq(CodeRow)
  BY DEF IdentityInv, IdentityTyped
<1>3. tokens[k] \in TokenRow
  BY <1>1, <1>2
<1>4. PICK r \in TokenRow :
         /\ tokens' = [tokens EXCEPT ![k] = r]
         /\ r.kind = tokens[k].kind /\ r.account = tokens[k].account /\ r.client = tokens[k].client
         /\ r.scope = tokens[k].scope /\ r.parent = tokens[k].parent
         /\ tokens[k].revoked => r.revoked
  <2>1. CASE tokens' = [tokens EXCEPT ![k].revoked = TRUE]
    <3> DEFINE r == [tokens[k] EXCEPT !.revoked = TRUE]
    <3>1. r \in TokenRow
      BY <1>3 DEF TokenRow
    <3>2. /\ r.kind = tokens[k].kind /\ r.account = tokens[k].account /\ r.client = tokens[k].client
          /\ r.scope = tokens[k].scope /\ r.parent = tokens[k].parent
          /\ tokens[k].revoked => r.revoked
      BY <1>3 DEF TokenRow
    <3> QED
      BY <2>1, <3>1, <3>2
  <2>2. CASE tokens' = [tokens EXCEPT ![k].expired = TRUE]
    <3> DEFINE r == [tokens[k] EXCEPT !.expired = TRUE]
    <3>1. r \in TokenRow
      BY <1>3 DEF TokenRow
    <3>2. /\ r.kind = tokens[k].kind /\ r.account = tokens[k].account /\ r.client = tokens[k].client
          /\ r.scope = tokens[k].scope /\ r.parent = tokens[k].parent
          /\ tokens[k].revoked => r.revoked
      BY <1>3 DEF TokenRow
    <3> QED
      BY <2>2, <3>1, <3>2
  <2> QED
    BY <2>1, <2>2
<1>5. /\ tokens' \in Seq(TokenRow) /\ DOMAIN tokens' = DOMAIN tokens
      /\ \A t \in DOMAIN tokens : tokens'[t] = IF t = k THEN r ELSE tokens[t]
  BY <1>1, <1>2, <1>4
<1>6. TokensDescend' /\ OneLiveRefresh'
  BY <1>4, <1>5, DescentStays
<1>7. codes' \in Seq(CodeRow)
  BY <1>2
<1> QED
  BY <1>5, <1>6, <1>7, GrantsMove

\* A code that is consumed, or that expires, without a token.
LEMMA CodeChanges ==
    ASSUME IdentityInv, NEW k \in DOMAIN codes,
           \/ codes' = [codes EXCEPT ![k].consumed = TRUE]
           \/ codes' = [codes EXCEPT ![k].expired = TRUE]
    PROVE  /\ codes' \in Seq(CodeRow) /\ DOMAIN codes' = DOMAIN codes
           /\ \A c \in DOMAIN codes :
                 /\ codes'[c].account = codes[c].account /\ codes'[c].client = codes[c].client
                 /\ codes'[c].scope = codes[c].scope
                 /\ codes[c].consumed => codes'[c].consumed
           /\ codes' = [codes EXCEPT ![k].consumed = TRUE] => codes'[k].consumed
<1>2. codes \in Seq(CodeRow)
  BY DEF IdentityInv, IdentityTyped
<1>1. PICK n \in Nat : DOMAIN codes = 1..n
  <2>1. Len(codes) \in Nat /\ DOMAIN codes = 1..Len(codes)
    BY <1>2
  <2> QED
    BY <2>1
<1>3. codes[k] \in CodeRow
  BY <1>1, <1>2
<1>4. PICK r \in CodeRow :
         /\ codes' = [codes EXCEPT ![k] = r]
         /\ r.account = codes[k].account /\ r.client = codes[k].client /\ r.scope = codes[k].scope
         /\ codes[k].consumed => r.consumed
         /\ codes' = [codes EXCEPT ![k].consumed = TRUE] => r.consumed
  <2>1. CASE codes' = [codes EXCEPT ![k].consumed = TRUE]
    <3> DEFINE r == [codes[k] EXCEPT !.consumed = TRUE]
    <3>1. r \in CodeRow
      BY <1>3 DEF CodeRow
    <3>2. r.account = codes[k].account /\ r.client = codes[k].client /\ r.scope = codes[k].scope /\ r.consumed
      BY <1>3 DEF CodeRow
    <3> QED
      BY <2>1, <3>1, <3>2
  <2>2. CASE codes' = [codes EXCEPT ![k].expired = TRUE] /\ codes' # [codes EXCEPT ![k].consumed = TRUE]
    <3> DEFINE r == [codes[k] EXCEPT !.expired = TRUE]
    <3>1. r \in CodeRow
      BY <1>3 DEF CodeRow
    <3>2. /\ r.account = codes[k].account /\ r.client = codes[k].client /\ r.scope = codes[k].scope
          /\ codes[k].consumed => r.consumed
      BY <1>3 DEF CodeRow
    <3> QED
      BY <2>2, <3>1, <3>2
  <2> QED
    BY <2>1, <2>2
<1>5. /\ codes' \in Seq(CodeRow) /\ DOMAIN codes' = DOMAIN codes
      /\ \A c \in DOMAIN codes : codes'[c] = IF c = k THEN r ELSE codes[c]
  BY <1>1, <1>2, <1>4
<1> QED
  BY <1>4, <1>5

LEMMA LapseInv ==
    ASSUME IdentityInv, Lapse
    PROVE  IdentityInv'
<1>1. UNCHANGED <<setup, accounts, failures, guesses, clock>>
  BY DEF Lapse
<1>2. ASSUME NEW k \in DOMAIN invites, invites' = [invites EXCEPT ![k].expired = TRUE],
             UNCHANGED <<codes, tokens>>
      PROVE  IdentityInv'
  <2>1. PICK n \in Nat : DOMAIN invites = 1..n
    BY DEF IdentityInv, IdentityTyped
  <2>2. invites \in Seq(InviteRow) /\ accounts \in Nat
    BY DEF IdentityInv, IdentityTyped
  <2>3. invites[k] \in InviteRow
    BY <2>1, <2>2
  <2>4. PICK r \in InviteRow : r = [invites[k] EXCEPT !.expired = TRUE]
    BY <2>3 DEF InviteRow
  <2>5. r.account = invites[k].account
    BY <2>3, <2>4 DEF InviteRow
  <2>6. invites' = [invites EXCEPT ![k] = r]
    BY <1>2, <2>4
  <2>7. /\ invites' \in Seq(InviteRow) /\ DOMAIN invites' = DOMAIN invites
        /\ \A i \in DOMAIN invites : invites'[i].account = invites[i].account
    BY <2>1, <2>2, <2>5, <2>6
  <2>8. OwnerProvisioned' \/ BootstrapProvisioned'
    BY <1>1, <1>2, <2>1 DEF IdentityInv, InvitesStand, OwnerProvisioned, BootstrapProvisioned
  <2>9. InvitesStand'
    BY <1>1, <2>7, <2>8 DEF IdentityInv, InvitesStand
  <2>10. accounts' \in Nat /\ accounts' >= accounts
    BY <1>1, <2>2
  <2> QED
    BY <1>1, <1>2, <2>7, <2>9, <2>10, InvitesMove
<1>3. ASSUME NEW k \in DOMAIN codes, codes' = [codes EXCEPT ![k].expired = TRUE],
             UNCHANGED <<invites, tokens>>
      PROVE  IdentityInv'
  <2>1. /\ codes' \in Seq(CodeRow) /\ DOMAIN codes' = DOMAIN codes
        /\ \A c \in DOMAIN codes :
              /\ codes'[c].account = codes[c].account /\ codes'[c].client = codes[c].client
              /\ codes'[c].scope = codes[c].scope
              /\ codes[c].consumed => codes'[c].consumed
    BY <1>3, CodeChanges
  <2>2. TokensDescend' /\ OneLiveRefresh'
    BY <1>3, <2>1, DescentStays
  <2>3. tokens' \in Seq(TokenRow)
    BY <1>3 DEF IdentityInv, IdentityTyped
  <2> QED
    BY <1>1, <1>3, <2>1, <2>2, <2>3, GrantsMove
<1>4. ASSUME NEW k \in DOMAIN tokens, tokens' = [tokens EXCEPT ![k].expired = TRUE],
             UNCHANGED <<invites, codes>>
      PROVE  IdentityInv'
  BY <1>1, <1>4, TokenChangesInv
<1> QED
  BY <1>2, <1>3, <1>4 DEF Lapse

\* The rows of a new pair stand behind the others.
LEMMA PairRows ==
    ASSUME NEW rows \in Seq(TokenRow), NEW n \in Nat, Len(rows) = n,
           NEW kind \in {"code", "token"}, NEW at \in Nat,
           NEW grant, grant.account \in Nat, grant.client \in Clients, grant.scope \in SUBSET ClientScopes,
           NEW out, out = WithPair(rows, grant, [kind |-> kind, at |-> at])
    PROVE  /\ out \in Seq(TokenRow) /\ DOMAIN out = 1..(n + 2)
           /\ \A t \in 1..n : out[t] = rows[t]
           /\ \A t \in {n + 1, n + 2} :
                 /\ out[t].parent = [kind |-> kind, at |-> at]
                 /\ out[t].account = grant.account
                 /\ out[t].client = grant.client /\ out[t].scope = grant.scope
           /\ out[n + 1].kind = "ACCESS" /\ out[n + 2].kind = "REFRESH"
<1>1. PICK p : p = [kind |-> kind, at |-> at]
  OBVIOUS
<1>2. PICK x : x = Token("ACCESS", grant, p)
  OBVIOUS
<1>3. PICK y : y = Token("REFRESH", grant, p)
  OBVIOUS
<1>4. p \in [kind : {"code", "token"}, at : Nat]
  BY <1>1
<1>5. x \in TokenRow /\ y \in TokenRow
  BY <1>2, <1>3, <1>4 DEF Token, TokenRow
<1>6. out = rows \o <<x, y>>
  BY <1>1, <1>2, <1>3 DEF WithPair
<1>7. <<x, y>> \in Seq(TokenRow) /\ Len(<<x, y>>) = 2 /\ <<x, y>>[1] = x /\ <<x, y>>[2] = y
  BY <1>5
<1>8. PICK q \in Seq(TokenRow) : q = <<x, y>>
  BY <1>7
<1>9. /\ rows \o q \in Seq(TokenRow) /\ Len(rows \o q) = n + 2
      /\ \A t \in 1..n : (rows \o q)[t] = rows[t]
      /\ (rows \o q)[n + 1] = q[1] /\ (rows \o q)[n + 2] = q[2]
  BY <1>7, <1>8
<1>10. out[n + 1] = x /\ out[n + 2] = y
  BY <1>6, <1>7, <1>8, <1>9
<1>11. /\ out \in Seq(TokenRow) /\ DOMAIN out = 1..(n + 2)
       /\ \A t \in 1..n : out[t] = rows[t]
  <2>1. out = rows \o q
    BY <1>6, <1>8
  <2>2. out \in Seq(TokenRow) /\ Len(out) = n + 2
    BY <1>9, <2>1
  <2>3. DOMAIN out = 1..(n + 2)
    BY <2>2
  <2>4. \A t \in 1..n : out[t] = rows[t]
    BY <1>9, <2>1
  <2> QED
    BY <2>2, <2>3, <2>4
<1>12. /\ x.parent = p /\ x.account = grant.account /\ x.client = grant.client /\ x.scope = grant.scope
       /\ y.parent = p /\ y.account = grant.account /\ y.client = grant.client /\ y.scope = grant.scope
       /\ x.kind = "ACCESS" /\ y.kind = "REFRESH"
  BY <1>2, <1>3 DEF Token
<1>13. \A t \in {n + 1, n + 2} : out[t] = x \/ out[t] = y
  BY <1>10
<1> QED
  BY <1>1, <1>10, <1>11, <1>12, <1>13

LEMMA ExchangeInv ==
    ASSUME IdentityInv, NEW c \in DOMAIN codes, NEW entry \in Registry, NEW redirect \in Https,
           Exchange(c, entry, redirect)
    PROVE  IdentityInv'
<1>1. PICK n \in Nat : Len(tokens) = n /\ DOMAIN tokens = 1..n
  BY DEF IdentityInv, IdentityTyped
<1>2. tokens \in Seq(TokenRow) /\ codes \in Seq(CodeRow)
  BY DEF IdentityInv, IdentityTyped
<1>3. codes[c] \in CodeRow /\ c \in Nat
  BY <1>2
<1>4. codes[c].account \in Nat /\ codes[c].client \in Clients /\ codes[c].scope \in SUBSET ClientScopes
  BY <1>3 DEF CodeRow
<1>5. /\ codes' \in Seq(CodeRow) /\ DOMAIN codes' = DOMAIN codes
      /\ \A d \in DOMAIN codes :
            /\ codes'[d].account = codes[d].account /\ codes'[d].client = codes[d].client
            /\ codes'[d].scope = codes[d].scope
            /\ codes[d].consumed => codes'[d].consumed
      /\ codes'[c].consumed
  BY CodeChanges DEF Exchange
<1>6. PICK grant : grant = codes[c]
  OBVIOUS
<1>7. PICK rows : rows = tokens
  OBVIOUS
<1>8. PICK out : out = tokens'
  OBVIOUS
<1>9. out = WithPair(rows, grant, [kind |-> "code", at |-> c])
  BY <1>6, <1>7, <1>8 DEF Exchange
<1>10. /\ out \in Seq(TokenRow) /\ DOMAIN out = 1..(n + 2)
       /\ \A t \in 1..n : out[t] = rows[t]
       /\ \A t \in {n + 1, n + 2} :
             /\ out[t].parent = [kind |-> "code", at |-> c]
             /\ out[t].account = grant.account
             /\ out[t].client = grant.client /\ out[t].scope = grant.scope
       /\ out[n + 1].kind = "ACCESS" /\ out[n + 2].kind = "REFRESH"
  <2>1. rows \in Seq(TokenRow) /\ Len(rows) = n
    BY <1>1, <1>2, <1>7
  <2>2. grant.account \in Nat /\ grant.client \in Clients /\ grant.scope \in SUBSET ClientScopes
    BY <1>4, <1>6
  <2> QED
    BY <1>3, <1>9, <2>1, <2>2, PairRows
<1>11. ASSUME NEW t \in 1..n PROVE Ancestor[t] \in DOMAIN codes /\ Ancestor[t] # c
  <2>1. Ancestor[t] \in DOMAIN codes /\ codes[Ancestor[t]].consumed
    BY <1>1 DEF IdentityInv, TokensDescend, OneLiveRefresh
  <2>2. ~codes[c].consumed
    BY DEF Exchange
  <2> QED
    BY <2>1, <2>2
<1>12. ASSUME NEW t \in 1..n PROVE tokens[t].parent # [kind |-> "code", at |-> c]
  <2>1. tokens[t].parent.kind = "code" => Ancestor[t] = tokens[t].parent.at
    BY <1>1 DEF IdentityInv, TokensDescend
  <2> QED
    BY <1>11, <2>1
<1>13. TokensDescend' /\ OneLiveRefresh'
  <2>1. PICK parent \in [kind : {"code", "token"}, at : Nat] : parent = [kind |-> "code", at |-> c]
    BY <1>3
  <2>2. DOMAIN tokens' = 1..(n + 2)
    BY <1>8, <1>10
  <2>3. TokensKept(n)
    BY <1>7, <1>8, <1>10 DEF TokensKept
  <2>4. PairAdded(n, parent, c)
    <3>1. /\ \A t \in {n + 1, n + 2} :
               /\ tokens'[t].parent = [kind |-> "code", at |-> c]
               /\ tokens'[t].account = codes[c].account
               /\ tokens'[t].client = codes[c].client /\ tokens'[t].scope = codes[c].scope
          /\ tokens'[n + 1].kind = "ACCESS" /\ tokens'[n + 2].kind = "REFRESH"
      BY <1>6, <1>8, <1>10
    <3> QED
      BY <1>12, <2>1, <3>1 DEF PairAdded
  <2>5. CodesKept
    BY <1>5 DEF CodesKept
  <2>6. Spent(n, c)
    BY <1>5, <1>11 DEF Spent
  <2>7. ParentOf(n, parent, c)
    BY <2>1 DEF ParentOf
  <2> QED
    BY <1>1, <2>1, <2>2, <2>3, <2>4, <2>5, <2>6, <2>7, PairDescends
<1>14. UNCHANGED <<setup, invites, accounts, failures, guesses, clock>>
  BY DEF Exchange
<1>15. tokens' \in Seq(TokenRow)
  BY <1>8, <1>10
<1> QED
  BY <1>5, <1>13, <1>14, <1>15, GrantsMove

LEMMA RefreshInv ==
    ASSUME IdentityInv, NEW k \in DOMAIN tokens, NEW entry \in Registry, Refresh(k, entry)
    PROVE  IdentityInv'
<1>1. PICK n \in Nat : Len(tokens) = n /\ DOMAIN tokens = 1..n
  BY DEF IdentityInv, IdentityTyped
<1>2. tokens \in Seq(TokenRow) /\ codes \in Seq(CodeRow)
  BY DEF IdentityInv, IdentityTyped
<1>3. tokens[k] \in TokenRow /\ k \in Nat /\ k \in 1..n
  BY <1>1, <1>2
<1>4. tokens[k].account \in Nat /\ tokens[k].client \in Clients /\ tokens[k].scope \in SUBSET ClientScopes
  BY <1>3 DEF TokenRow
<1>5. PICK grant : grant = tokens[k]
  OBVIOUS
<1>6. PICK r \in TokenRow : r = [tokens[k] EXCEPT !.revoked = TRUE]
  BY <1>3 DEF TokenRow
<1>7. /\ r.kind = tokens[k].kind /\ r.account = tokens[k].account /\ r.client = tokens[k].client
      /\ r.scope = tokens[k].scope /\ r.parent = tokens[k].parent /\ r.revoked
  BY <1>3, <1>6 DEF TokenRow
<1>8. PICK rows : rows = [tokens EXCEPT ![k] = r]
  OBVIOUS
<1>9. PICK out : out = tokens'
  OBVIOUS
<1>10. out = WithPair(rows, grant, [kind |-> "token", at |-> k])
  BY <1>5, <1>6, <1>8, <1>9 DEF Refresh
<1>11. /\ rows \in Seq(TokenRow) /\ Len(rows) = n
       /\ \A t \in 1..n : rows[t] = IF t = k THEN r ELSE tokens[t]
  BY <1>1, <1>2, <1>8
<1>12. /\ out \in Seq(TokenRow) /\ DOMAIN out = 1..(n + 2)
       /\ \A t \in 1..n : out[t] = rows[t]
       /\ \A t \in {n + 1, n + 2} :
             /\ out[t].parent = [kind |-> "token", at |-> k]
             /\ out[t].account = grant.account
             /\ out[t].client = grant.client /\ out[t].scope = grant.scope
       /\ out[n + 1].kind = "ACCESS" /\ out[n + 2].kind = "REFRESH"
  <2>1. grant.account \in Nat /\ grant.client \in Clients /\ grant.scope \in SUBSET ClientScopes
    BY <1>4, <1>5
  <2>2. rows \in Seq(TokenRow) /\ Len(rows) = n /\ k \in Nat
    BY <1>3, <1>11
  <2> QED
    BY <1>10, <2>1, <2>2, PairRows
<1>13. PICK c \in DOMAIN codes : c = Ancestor[k]
  BY <1>1, <1>3 DEF IdentityInv, TokensDescend
<1>14. /\ tokens[k].kind = "REFRESH" /\ ~tokens[k].revoked
       /\ UNCHANGED <<setup, invites, accounts, codes, failures, guesses, clock>>
  BY DEF Refresh
<1>15. /\ codes[c].consumed
       /\ tokens[k].account = codes[c].account
       /\ tokens[k].client = codes[c].client
       /\ tokens[k].scope = codes[c].scope
  BY <1>1, <1>3, <1>13 DEF IdentityInv, OneLiveRefresh
<1>16. ASSUME NEW t \in 1..n PROVE tokens[t].parent # [kind |-> "token", at |-> k]
  <2>1. tokens[t].parent.kind # "code" => tokens[tokens[t].parent.at].revoked
    BY <1>1 DEF IdentityInv, TokensDescend
  <2> QED
    BY <1>14, <2>1
<1>17. \A t \in 1..n :
          /\ tokens'[t].kind = tokens[t].kind /\ tokens'[t].account = tokens[t].account
          /\ tokens'[t].client = tokens[t].client /\ tokens'[t].scope = tokens[t].scope
          /\ tokens'[t].parent = tokens[t].parent
          /\ tokens[t].revoked => tokens'[t].revoked
          /\ t = k => tokens'[t].revoked
  BY <1>7, <1>9, <1>11, <1>12
<1>18. ASSUME NEW t \in 1..n, tokens[t].kind = "REFRESH", Ancestor[t] = c PROVE tokens'[t].revoked
  <2>1. tokens[t].revoked \/ t = k
    BY <1>1, <1>3, <1>13, <1>14, <1>18 DEF IdentityInv, OneLiveRefresh
  <2> QED
    BY <1>17, <2>1
<1>19. \A t \in {n + 1, n + 2} :
          /\ tokens'[t].parent = [kind |-> "token", at |-> k]
          /\ tokens'[t].account = codes[c].account
          /\ tokens'[t].client = codes[c].client /\ tokens'[t].scope = codes[c].scope
  BY <1>5, <1>9, <1>12, <1>15
<1>20. TokensDescend' /\ OneLiveRefresh'
  <2>1. PICK parent \in [kind : {"code", "token"}, at : Nat] : parent = [kind |-> "token", at |-> k]
    BY <1>3
  <2>2. DOMAIN tokens' = 1..(n + 2)
    BY <1>9, <1>12
  <2>3. TokensKept(n)
    BY <1>17 DEF TokensKept
  <2>4. PairAdded(n, parent, c)
    <3>1. tokens'[n + 1].kind = "ACCESS" /\ tokens'[n + 2].kind = "REFRESH"
      BY <1>9, <1>12
    <3> QED
      BY <1>16, <1>19, <2>1, <3>1 DEF PairAdded
  <2>5. CodesKept
    BY <1>14 DEF CodesKept
  <2>6. Spent(n, c)
    BY <1>14, <1>15, <1>18 DEF Spent
  <2>7. ParentOf(n, parent, c)
    BY <1>3, <1>13, <1>17, <2>1 DEF ParentOf
  <2> QED
    BY <1>1, <2>1, <2>2, <2>3, <2>4, <2>5, <2>6, <2>7, PairDescends
<1>21. codes' \in Seq(CodeRow) /\ tokens' \in Seq(TokenRow)
  BY <1>2, <1>9, <1>12, <1>14
<1> QED
  BY <1>14, <1>20, <1>21, GrantsMove

LEMMA IdentityStep ==
    ASSUME IdentityInv, IdentityNext
    PROVE  IdentityInv'
<1>1. ASSUME NEW t \in DOMAIN tokens, NEW entry \in Registry, Revoke(t, entry)
      PROVE  IdentityInv'
  BY <1>1, TokenChangesInv DEF Revoke
<1> QED
  BY <1>1, InviteInv, EnrollInv, WrongPasswordInv, SignInInterruptedInv, SignInInv, ExchangeInv,
     RefreshInv, LapseInv, IdentityTickInv DEF IdentityNext, TokenRequest

\* The invariant says what the property says.
LEMMA IdentityFollows ==
    ASSUME IdentityInv
    PROVE  OneLiveRefresh /\ GrantsAreBacked /\ GuessesBounded
<1>1. GrantsAreBacked
  <2>1. ASSUME NEW a \in 1..accounts PROVE Cardinality({i \in DOMAIN invites : invites[i].account = a}) = 1
    <3>1. PICK i \in DOMAIN invites : invites[i].account = a
      BY DEF IdentityInv, InvitesStand
    <3>2. a # 0
      BY DEF IdentityInv, IdentityTyped
    <3>3. {j \in DOMAIN invites : invites[j].account = a} = {i}
      BY <3>1, <3>2 DEF IdentityInv, InvitesStand
    <3> QED
      BY <3>3, FS_Singleton
  <2>2. ASSUME NEW t \in DOMAIN tokens
        PROVE  /\ tokens[t].account \in 1..accounts
               /\ \E entry \in Registry :
                    /\ entry.client = tokens[t].client
                    /\ tokens[t].scope \subseteq entry.scopes
                    /\ tokens[t].scope # {}
    <3>1. PICK c \in DOMAIN codes : c = Ancestor[t]
      BY DEF IdentityInv, TokensDescend
    <3>2. /\ tokens[t].account = codes[c].account
          /\ tokens[t].client = codes[c].client
          /\ tokens[t].scope = codes[c].scope
      BY <3>1 DEF IdentityInv, OneLiveRefresh
    <3> QED
      BY <3>2 DEF IdentityInv, CodesStand
  <2> QED
    BY <2>1, <2>2 DEF IdentityInv, InvitesStand, GrantsAreBacked
<1>2. ASSUME LockTime >= Window, NEW s \in Subject, NEW t \in 0..clock
      PROVE  Cardinality({g \in DOMAIN guesses[s] : guesses[s][g] \in t..(t + Window - 1)})
                <= 2 * MaxFailures - 2
  <2> DEFINE I == {g \in DOMAIN guesses[s] : guesses[s][g] \in t..(t + Window - 1)}
  <2>1. MaxFailures \in Nat /\ MaxFailures > 1 /\ Window \in Nat
    BY IdentityAssumption
  <2>2. guesses[s] \in Seq(Nat) /\ t \in Int
    BY DEF IdentityInv, IdentityTyped
  <2>3. DOMAIN guesses[s] = 1..Len(guesses[s]) /\ Len(guesses[s]) \in Nat
    BY <2>2
  <2>4. CASE I = {}
    <3>1. Cardinality(I) = 0
      BY <2>4, FS_EmptySet
    <3> QED
      BY <2>1, <3>1
  <2>5. CASE I # {}
    <3>1. I \in SUBSET Nat
      BY <2>3
    <3>2. PICK i \in I : \A j \in I : i <= j
      BY <2>5, <3>1, LeastNatural
    <3>3. ASSUME NEW j \in I PROVE j \in i..(i + 2 * MaxFailures - 3)
      <4>1. /\ i \in 1..Len(guesses[s]) /\ j \in 1..Len(guesses[s]) /\ i <= j
            /\ guesses[s][i] >= t /\ guesses[s][j] <= t + Window - 1
            /\ guesses[s][i] \in Int /\ guesses[s][j] \in Int
        BY <2>1, <2>2, <2>3, <3>2
      <4>2. ~(guesses[s][j] - guesses[s][i] >= Window)
        BY <2>1, <2>2, <4>1
      <4>3. ~(j - i >= 2 * MaxFailures - 2)
        BY <1>2, <4>1, <4>2 DEF IdentityInv, GuessesCounted
      <4> QED
        BY <2>1, <2>3, <4>1, <4>3
    <3>4. PICK last \in Int : last = i + 2 * MaxFailures - 3
      BY <2>1, <3>1, <3>2
    <3>5. /\ IsFiniteSet(i..last)
          /\ Cardinality(i..last) = IF i > last THEN 0 ELSE last - i + 1
      <4>1. i \in Int /\ last \in Int
        BY <3>1, <3>2, <3>4
      <4> HIDE DEF I
      <4> QED
        BY <4>1, FS_Interval
    <3>6. Cardinality(i..last) = 2 * MaxFailures - 2
      BY <2>1, <3>1, <3>2, <3>4, <3>5
    <3>7. I \subseteq i..last
      BY <3>3, <3>4
    <3>8. Cardinality(I) <= Cardinality(i..last)
      BY <3>5, <3>7, FS_Subset
    <3> QED
      BY <3>6, <3>8
  <2> QED
    BY <2>4, <2>5
<1> QED
  BY <1>1, <1>2 DEF IdentityInv, GuessesBounded

-----------------------------------------------------------------------------
(* Voice accessibility. *)

LEMMA InitVoice == VoiceInit => VoiceInv
<1> SUFFICES ASSUME VoiceInit PROVE VoiceInv
  OBVIOUS
<1>1. Fresh \in VoiceHandler
  BY DEF Fresh, VoiceHandler, VoiceStep
<1>2. VoiceTyped
  <2>1. [u \in VoiceUser |-> [minute |-> 0, day |-> 0, characters |-> 0]]
          \in [VoiceUser -> [minute : Nat, day : Nat, characters : Nat]]
    OBVIOUS
  <2>2. IsFiniteSet(lease) /\ IsFiniteSet(admitted)
    BY FS_EmptySet DEF VoiceInit
  <2> QED
    BY <1>1, <2>1, <2>2 DEF VoiceInit, VoiceTyped
<1>3. ASSUME NEW j \in VoiceJob PROVE JobStands(j)
  <2>1. /\ handler[j].step = "new" /\ loop # j /\ row[j] = NoJob /\ managed[j] = NoJob
        /\ j \notin lease /\ j \notin transcript
    BY VoiceAssumption DEF VoiceInit, Fresh
  <2> QED
    BY <2>1 DEF JobStands, RowIsOwn, Working
<1>4. ASSUME NEW u \in VoiceUser PROVE Counted(u)
  <2>1. \A m : AdmittedIn(u, m) = {} /\ AdmittedOn(u, m) = {}
    BY DEF VoiceInit, AdmittedIn, AdmittedOn
  <2>2. LeasesOf(u) = {} /\ Read({}) = {}
    BY DEF VoiceInit, LeasesOf, Read
  <2>3. usage[u].minute = 0 /\ usage[u].day = 0 /\ usage[u].characters = 0
    BY DEF VoiceInit
  <2>4. Cardinality({}) = 0 /\ IsFiniteSet({})
    BY FS_EmptySet
  <2>5. PerMinute \in Nat /\ PerDay \in Nat /\ CharactersPerDay \in Nat /\ Concurrency \in Nat
    BY VoiceAssumption
  <2>6. \A m : /\ Cardinality(AdmittedIn(u, m)) = 0 /\ Cardinality(AdmittedOn(u, m)) = 0
              /\ Characters(AdmittedOn(u, m)) = 0 /\ IsFiniteSet(Read(AdmittedOn(u, m)))
    BY <2>1, <2>2, <2>4 DEF Characters
  <2>7. Cardinality(LeasesOf(u)) = 0
    BY <2>2, <2>4
  <2> QED
    BY <2>3, <2>5, <2>6, <2>7 DEF Counted
<1> QED
  BY <1>2, <1>3, <1>4 DEF VoiceInv

\* Nothing is charged: the windows stay, and leases only go.
LEMMA CountedStays ==
    ASSUME VoiceInv, UNCHANGED <<minute, admitted, usage>>, lease' \subseteq lease,
           \A k \in lease : handler'[k].user = handler[k].user
    PROVE  /\ IsFiniteSet(lease')
           /\ \A u \in VoiceUser : Counted(u)'
<1>1. IsFiniteSet(lease) /\ IsFiniteSet(lease')
  BY FS_Subset DEF VoiceInv, VoiceTyped
<1>2. ASSUME NEW u \in VoiceUser PROVE Counted(u)'
  <2>1. Counted(u)
    BY DEF VoiceInv
  <2>2. \A m : AdmittedIn(u, m)' = AdmittedIn(u, m) /\ AdmittedOn(u, m)' = AdmittedOn(u, m)
    BY DEF AdmittedIn, AdmittedOn
  <2>3. /\ IsFiniteSet(LeasesOf(u)) /\ LeasesOf(u)' \subseteq LeasesOf(u)
    <3>1. LeasesOf(u) \subseteq lease
      BY DEF LeasesOf
    <3>2. IsFiniteSet(LeasesOf(u))
      BY <1>1, <3>1, FS_Subset
    <3> QED
      BY <3>2 DEF LeasesOf
  <2>4. Cardinality(LeasesOf(u)') <= Cardinality(LeasesOf(u))
        /\ Cardinality(LeasesOf(u)') \in Nat /\ Cardinality(LeasesOf(u)) \in Nat
    BY <2>3, FS_Subset, FS_CardinalityType
  <2>5. Concurrency \in Nat
    BY VoiceAssumption
  <2>6. Cardinality(LeasesOf(u))' <= Concurrency
    BY <2>1, <2>4, <2>5 DEF Counted
  <2> QED
    BY <2>1, <2>2, <2>6 DEF Counted, Characters, Read
<1> QED
  BY <1>1, <1>2

\* A step of one job that charges nothing.
LEMMA JobMoves ==
    ASSUME VoiceInv, NEW j \in VoiceJob,
           NEW new \in VoiceHandler, handler' = [handler EXCEPT ![j] = new],
           j \in lease => new.user = handler[j].user,
           NEW entry \in VoiceRow \cup {NoJob}, row' = [row EXCEPT ![j] = entry],
           NEW job \in ManagedJob \cup {NoJob}, managed' = [managed EXCEPT ![j] = job],
           UNCHANGED <<entitlement, keeps, usage, minute, admitted>>,
           lease' \subseteq lease,
           transcript' \subseteq transcript \cup {j},
           died \subseteq died', died' \subseteq died \cup {j},
           loop' \in {loop, j, NoJob}, \A k \in VoiceJob \ {j} : loop' = k <=> loop = k,
           JobStands(j)'
    PROVE  VoiceInv'
<1>1. /\ handler \in [VoiceJob -> VoiceHandler] /\ row \in [VoiceJob -> VoiceRow \cup {NoJob}]
      /\ managed \in [VoiceJob -> ManagedJob \cup {NoJob}]
      /\ transcript \subseteq VoiceJob /\ lease \subseteq VoiceJob /\ died \subseteq VoiceJob
  BY DEF VoiceInv, VoiceTyped
<1>2. \A k \in VoiceJob \ {j} : handler'[k] = handler[k] /\ row'[k] = row[k] /\ managed'[k] = managed[k]
  BY <1>1
<1>3. \A k \in lease : handler'[k].user = handler[k].user
  BY <1>1, <1>2
<1>4. /\ IsFiniteSet(lease')
      /\ \A u \in VoiceUser : Counted(u)'
  BY <1>3, CountedStays
<1>5. VoiceTyped'
  <2>1. /\ handler' \in [VoiceJob -> VoiceHandler] /\ row' \in [VoiceJob -> VoiceRow \cup {NoJob}]
        /\ managed' \in [VoiceJob -> ManagedJob \cup {NoJob}]
    BY <1>1
  <2>2. transcript' \subseteq VoiceJob /\ lease' \subseteq VoiceJob /\ died' \subseteq VoiceJob
    BY <1>1
  <2> QED
    BY <1>4, <2>1, <2>2 DEF VoiceInv, VoiceTyped
<1>6. ASSUME NEW k \in VoiceJob \ {j} PROVE JobStands(k)'
  <2>1. JobStands(k)
    BY DEF VoiceInv
  <2>2. handler'[k] = handler[k] /\ row'[k] = row[k] /\ managed'[k] = managed[k]
    BY <1>2
  <2>3. /\ loop' = k <=> loop = k
        /\ k \in transcript' => k \in transcript
        /\ k \in lease' => k \in lease
        /\ k \in died => k \in died'
    OBVIOUS
  <2> QED
    BY <2>1, <2>2, <2>3 DEF JobStands, RowIsOwn
<1> QED
  BY <1>4, <1>5, <1>6 DEF VoiceInv

LEMMA VoiceSame ==
    ASSUME VoiceInv, NEW j \in VoiceJob
    PROVE  /\ row[j] \in VoiceRow \cup {NoJob} /\ row = [row EXCEPT ![j] = row[j]]
           /\ managed[j] \in ManagedJob \cup {NoJob} /\ managed = [managed EXCEPT ![j] = managed[j]]
           /\ handler[j] \in VoiceHandler /\ handler = [handler EXCEPT ![j] = handler[j]]
           /\ JobStands(j)
BY DEF VoiceInv, VoiceTyped

LEMMA StepMoves ==
    ASSUME VoiceInv, NEW j \in VoiceJob,
           NEW new \in VoiceHandler, handler' = [handler EXCEPT ![j] = new],
           j \in lease => new.user = handler[j].user,
           UNCHANGED <<row, managed, entitlement, keeps, usage, minute, admitted>>,
           lease' \subseteq lease,
           transcript' \subseteq transcript \cup {j},
           died \subseteq died', died' \subseteq died \cup {j},
           loop' \in {loop, j, NoJob}, \A k \in VoiceJob \ {j} : loop' = k <=> loop = k,
           JobStands(j)'
    PROVE  VoiceInv'
<1>1. /\ row[j] \in VoiceRow \cup {NoJob} /\ row' = [row EXCEPT ![j] = row[j]]
      /\ managed[j] \in ManagedJob \cup {NoJob} /\ managed' = [managed EXCEPT ![j] = managed[j]]
  BY VoiceSame
<1> QED
  BY <1>1, JobMoves

LEMMA GoesTo ==
    ASSUME VoiceInv, NEW j \in VoiceJob, NEW s \in VoiceStep, Goto(j, s)
    PROVE  \E new \in VoiceHandler :
             /\ handler' = [handler EXCEPT ![j] = new] /\ handler'[j] = new
             /\ new.step = s /\ new.user = handler[j].user /\ new.keep = handler[j].keep
<1> DEFINE new == [handler[j] EXCEPT !.step = s]
<1>1. handler \in [VoiceJob -> VoiceHandler]
  BY DEF VoiceInv, VoiceTyped
<1>2. new \in VoiceHandler /\ new.step = s /\ new.user = handler[j].user /\ new.keep = handler[j].keep
  BY <1>1 DEF VoiceHandler
<1>3. handler' = [handler EXCEPT ![j] = new] /\ handler'[j] = new
  BY <1>1 DEF Goto
<1> QED
  BY <1>2, <1>3

\* Once a job has the loop no other has it.
LEMMA LoopIsTaken ==
    ASSUME VoiceInv, NEW j \in VoiceJob, loop \in {j, NoJob}, loop' \in {j, NoJob}
    PROVE  \A k \in VoiceJob \ {j} : loop' = k <=> loop = k
BY VoiceAssumption

LEMMA CheckAccessInv ==
    ASSUME VoiceInv, NEW j \in VoiceJob, NEW u \in VoiceUser, CheckAccess(j, u)
    PROVE  VoiceInv'
<1> DEFINE new == [handler[j] EXCEPT !.step = "checked", !.user = u]
<1>1. /\ handler \in [VoiceJob -> VoiceHandler] /\ handler[j] \in VoiceHandler /\ handler[j].step = "new"
      /\ UNCHANGED <<entitlement, keeps, row, transcript, usage, lease, managed, loop, minute, admitted, died>>
  BY DEF CheckAccess, VoiceInv, VoiceTyped
<1>2. /\ new \in VoiceHandler /\ new.step = "checked" /\ new.user = u
  BY <1>1 DEF VoiceHandler, VoiceStep
<1>3. handler' = [handler EXCEPT ![j] = new]
  BY <1>1 DEF CheckAccess
<1> HIDE DEF new
<1>4. handler'[j] = new
  BY <1>1, <1>3
<1>5. JobStands(j) /\ row[j] = NoJob
  BY <1>1, VoiceSame DEF JobStands, RowIsOwn
<1>6. JobStands(j)'
  BY <1>1, <1>2, <1>4, <1>5 DEF JobStands, RowIsOwn, Working
<1> QED
  BY <1>1, <1>2, <1>3, <1>5, <1>6, StepMoves DEF JobStands, RowIsOwn

LEMMA ReadPreferencesInv ==
    ASSUME VoiceInv, NEW j \in VoiceJob, NEW choice \in {"default", "keep", "drop"}, ReadPreferences(j, choice)
    PROVE  VoiceInv'
<1> DEFINE keep == IF choice = "default" THEN keeps[handler[j].user] ELSE choice = "keep"
           new == [handler[j] EXCEPT !.step = "reserving", !.keep = keep]
<1>1. /\ handler \in [VoiceJob -> VoiceHandler] /\ handler[j] \in VoiceHandler /\ handler[j].step = "checked"
      /\ keeps \in [VoiceUser -> BOOLEAN] /\ loop = NoJob /\ loop' = j
      /\ UNCHANGED <<entitlement, keeps, row, transcript, usage, lease, managed, minute, admitted, died>>
  BY DEF ReadPreferences, VoiceInv, VoiceTyped
<1>2. JobStands(j)
  BY VoiceSame
<1>3. handler[j].user \in VoiceUser
  BY <1>1, <1>2 DEF JobStands, RowIsOwn
<1>4. keep \in BOOLEAN
  BY <1>1, <1>3
<1>5. handler' = [handler EXCEPT ![j] = new]
  BY <1>1 DEF ReadPreferences
<1> HIDE DEF keep
<1>6. /\ new \in VoiceHandler /\ new.step = "reserving" /\ new.user = handler[j].user
  BY <1>1, <1>4 DEF VoiceHandler, VoiceStep
<1> HIDE DEF new
<1>7. handler'[j] = new
  BY <1>1, <1>5
<1>8. JobStands(j)'
  BY <1>1, <1>2, <1>3, <1>6, <1>7 DEF JobStands, RowIsOwn, Working
<1> QED
  BY <1>1, <1>5, <1>6, <1>8, LoopIsTaken, StepMoves

LEMMA RateLimitedInv ==
    ASSUME VoiceInv, NEW j \in VoiceJob, RateLimited(j)
    PROVE  VoiceInv'
<1>1. /\ loop = j /\ loop' = NoJob /\ handler[j].step = "reserving" /\ Goto(j, "refused")
      /\ UNCHANGED <<entitlement, keeps, row, transcript, usage, lease, managed, minute, admitted, died>>
  BY DEF RateLimited
<1>2. PICK new \in VoiceHandler :
        /\ handler' = [handler EXCEPT ![j] = new] /\ handler'[j] = new
        /\ new.step = "refused" /\ new.user = handler[j].user /\ new.keep = handler[j].keep
  BY <1>1, GoesTo DEF VoiceStep
<1>3. JobStands(j)
  BY VoiceSame
<1>4. JobStands(j)'
  BY <1>1, <1>2, <1>3, VoiceAssumption DEF JobStands, RowIsOwn, Working
<1> QED
  BY <1>1, <1>2, <1>4, LoopIsTaken, StepMoves

LEMMA SynthesizeSpeechInv ==
    ASSUME VoiceInv, NEW j \in VoiceJob, SynthesizeSpeech(j)
    PROVE  VoiceInv'
<1>1. /\ loop = j /\ handler[j].step = "synthesis" /\ Goto(j, "record")
      /\ UNCHANGED <<entitlement, keeps, row, transcript, usage, lease, loop, minute, admitted, died>>
  BY DEF SynthesizeSpeech
<1>2. PICK new \in VoiceHandler :
        /\ handler' = [handler EXCEPT ![j] = new] /\ handler'[j] = new
        /\ new.step = "record" /\ new.user = handler[j].user /\ new.keep = handler[j].keep
  BY <1>1, GoesTo DEF VoiceStep
<1>3. PICK status \in {"completed", "failed"} :
        managed' = [managed EXCEPT ![j] = [status |-> status, stopped |-> FALSE]]
  BY DEF SynthesizeSpeech
<1> DEFINE job == [status |-> status, stopped |-> FALSE]
<1>4. job \in ManagedJob /\ ~job.stopped /\ managed' = [managed EXCEPT ![j] = job]
  BY <1>3 DEF ManagedJob
<1> HIDE DEF job
<1>5. managed'[j] = job
  BY <1>4 DEF VoiceInv, VoiceTyped
<1>6. JobStands(j) /\ row[j] \in VoiceRow \cup {NoJob} /\ row' = [row EXCEPT ![j] = row[j]]
  BY <1>1, VoiceSame
<1>7. JobStands(j)'
  BY <1>1, <1>2, <1>4, <1>5, <1>6 DEF JobStands, RowIsOwn, Working
<1> QED
  BY <1>1, <1>2, <1>4, <1>6, <1>7, JobMoves

LEMMA RecordJobInv ==
    ASSUME VoiceInv, NEW j \in VoiceJob, RecordJob(j)
    PROVE  VoiceInv'
<1>1. /\ loop = j /\ handler[j].step = "record" /\ Goto(j, "envelope")
      /\ UNCHANGED <<entitlement, keeps, transcript, usage, lease, managed, loop, minute, admitted, died>>
  BY DEF RecordJob
<1>2. PICK new \in VoiceHandler :
        /\ handler' = [handler EXCEPT ![j] = new] /\ handler'[j] = new
        /\ new.step = "envelope" /\ new.user = handler[j].user /\ new.keep = handler[j].keep
  BY <1>1, GoesTo DEF VoiceStep
<1> DEFINE entry == [user |-> handler[j].user, status |-> "completed", stopped |-> FALSE, keep |-> handler[j].keep]
<1>3. /\ handler[j] \in VoiceHandler /\ JobStands(j)
      /\ managed[j] \in ManagedJob \cup {NoJob} /\ managed' = [managed EXCEPT ![j] = managed[j]]
  BY <1>1, VoiceSame
<1>4. handler[j].user \in VoiceUser /\ handler[j].keep \in BOOLEAN
  BY <1>1, <1>3 DEF JobStands, VoiceHandler
<1>5. entry \in VoiceRow /\ entry.user = handler[j].user /\ row' = [row EXCEPT ![j] = entry]
  BY <1>4 DEF VoiceRow, RecordJob
<1> HIDE DEF entry
<1>6. row'[j] = entry
  BY <1>5 DEF VoiceInv, VoiceTyped
<1>8. JobStands(j)'
  BY <1>1, <1>2, <1>3, <1>4, <1>5, <1>6 DEF JobStands, RowIsOwn, Working
<1> QED
  BY <1>1, <1>2, <1>3, <1>5, <1>8, JobMoves

LEMMA RecordEnvelopeInv ==
    ASSUME VoiceInv, NEW j \in VoiceJob, RecordEnvelope(j)
    PROVE  VoiceInv'
<1>1. /\ loop = j /\ handler[j].step = "envelope" /\ Goto(j, "mark")
      /\ UNCHANGED <<entitlement, keeps, row, transcript, usage, lease, managed, loop, minute, admitted, died>>
  BY DEF RecordEnvelope
<1>2. PICK new \in VoiceHandler :
        /\ handler' = [handler EXCEPT ![j] = new] /\ handler'[j] = new
        /\ new.step = "mark" /\ new.user = handler[j].user /\ new.keep = handler[j].keep
  BY <1>1, GoesTo DEF VoiceStep
<1>3. JobStands(j)
  BY VoiceSame
<1>4. JobStands(j)'
  BY <1>1, <1>2, <1>3 DEF JobStands, RowIsOwn, Working
<1> QED
  BY <1>1, <1>2, <1>4, StepMoves

LEMMA MarkJobInv ==
    ASSUME VoiceInv, NEW j \in VoiceJob, MarkJob(j)
    PROVE  VoiceInv'
<1> DEFINE next == IF handler[j].keep /\ managed[j].status = "completed" THEN "transcript" ELSE "release"
           entry == [row[j] EXCEPT !.status = managed[j].status]
<1>1. /\ loop = j /\ handler[j].step = "mark" /\ Goto(j, next)
      /\ UNCHANGED <<entitlement, keeps, transcript, usage, lease, managed, loop, minute, admitted, died>>
  BY DEF MarkJob
<1>2. /\ next \in VoiceStep /\ next \in {"transcript", "release"}
      /\ next = "transcript" => handler[j].keep /\ managed[j].status = "completed"
  BY DEF VoiceStep
<1> HIDE DEF next
<1>3. PICK new \in VoiceHandler :
        /\ handler' = [handler EXCEPT ![j] = new] /\ handler'[j] = new
        /\ new.step = next /\ new.user = handler[j].user /\ new.keep = handler[j].keep
  BY <1>1, <1>2, GoesTo
<1>4. /\ handler[j] \in VoiceHandler /\ JobStands(j)
      /\ managed[j] \in ManagedJob \cup {NoJob} /\ managed' = [managed EXCEPT ![j] = managed[j]]
  BY <1>1, VoiceSame
<1>5. row[j] \in VoiceRow /\ managed[j] \in ManagedJob
  BY <1>1, <1>4 DEF JobStands, RowIsOwn
<1>6. entry \in VoiceRow /\ entry.user = row[j].user /\ entry.status = managed[j].status
  BY <1>5 DEF VoiceRow, ManagedJob
<1>7. row' = [row EXCEPT ![j] = entry]
  BY DEF MarkJob
<1> HIDE DEF entry
<1>8. row'[j] = entry
  BY <1>7 DEF VoiceInv, VoiceTyped
<1>9. entry.user = handler[j].user
  BY <1>1, <1>4, <1>6 DEF JobStands, RowIsOwn
<1>10. JobStands(j)'
  BY <1>1, <1>2, <1>3, <1>4, <1>5, <1>6, <1>8, <1>9 DEF JobStands, RowIsOwn, Working
<1> QED
  BY <1>1, <1>3, <1>4, <1>6, <1>7, <1>10, JobMoves

LEMMA SaveTranscriptInv ==
    ASSUME VoiceInv, NEW j \in VoiceJob, SaveTranscript(j)
    PROVE  VoiceInv'
<1>1. /\ loop = j /\ handler[j].step = "transcript" /\ Goto(j, "release")
      /\ row[j].keep /\ transcript' = transcript \cup {j}
      /\ UNCHANGED <<entitlement, keeps, row, usage, lease, managed, loop, minute, admitted, died>>
  BY DEF SaveTranscript
<1>2. PICK new \in VoiceHandler :
        /\ handler' = [handler EXCEPT ![j] = new] /\ handler'[j] = new
        /\ new.step = "release" /\ new.user = handler[j].user /\ new.keep = handler[j].keep
  BY <1>1, GoesTo DEF VoiceStep
<1>3. JobStands(j)
  BY VoiceSame
<1>4. JobStands(j)'
  BY <1>1, <1>2, <1>3 DEF JobStands, RowIsOwn, Working
<1> QED
  BY <1>1, <1>2, <1>4, StepMoves

LEMMA StepFailsInv ==
    ASSUME VoiceInv, NEW j \in VoiceJob, StepFails(j)
    PROVE  VoiceInv'
<1>1. /\ loop = j /\ Goto(j, "release")
      /\ handler[j].step \in {"synthesis", "record", "envelope", "mark", "transcript"}
      /\ UNCHANGED <<entitlement, keeps, row, transcript, usage, lease, managed, loop, minute, admitted, died>>
  BY DEF StepFails
<1>2. PICK new \in VoiceHandler :
        /\ handler' = [handler EXCEPT ![j] = new] /\ handler'[j] = new
        /\ new.step = "release" /\ new.user = handler[j].user /\ new.keep = handler[j].keep
  BY <1>1, GoesTo DEF VoiceStep
<1>3. JobStands(j)
  BY VoiceSame
<1>4. JobStands(j)'
  BY <1>1, <1>2, <1>3 DEF JobStands, RowIsOwn, Working
<1> QED
  BY <1>1, <1>2, <1>4, StepMoves

LEMMA ReleaseLeaseInv ==
    ASSUME VoiceInv, NEW j \in VoiceJob, ReleaseLease(j) \/ ReleaseFails(j)
    PROVE  VoiceInv'
<1>1. /\ loop = j /\ loop' = NoJob /\ handler[j].step = "release" /\ Goto(j, "done")
      /\ \/ lease' = lease \ {j} /\ died' = died
         \/ lease' = lease /\ died' = died \cup {j}
      /\ UNCHANGED <<entitlement, keeps, row, transcript, usage, managed, minute, admitted>>
  BY DEF ReleaseLease, ReleaseFails
<1>2. PICK new \in VoiceHandler :
        /\ handler' = [handler EXCEPT ![j] = new] /\ handler'[j] = new
        /\ new.step = "done" /\ new.user = handler[j].user /\ new.keep = handler[j].keep
  BY <1>1, GoesTo DEF VoiceStep
<1>3. JobStands(j)
  BY VoiceSame
<1>4. JobStands(j)'
  BY <1>1, <1>2, <1>3, VoiceAssumption DEF JobStands, RowIsOwn, Working
<1>5. lease' \subseteq lease /\ died \subseteq died' /\ died' \subseteq died \cup {j}
  BY <1>1
<1> QED
  BY <1>1, <1>2, <1>4, <1>5, LoopIsTaken, StepMoves

LEMMA StopJobInv ==
    ASSUME VoiceInv, NEW j \in VoiceJob, NEW u \in VoiceUser, StopJob(j, u)
    PROVE  VoiceInv'
<1> DEFINE job == [managed[j] EXCEPT !.stopped = TRUE,
                     !.status = IF managed[j].status \in {"pending", "running"} THEN "stopped" ELSE managed[j].status]
<1>1. /\ row[j] # NoJob /\ managed[j] # NoJob
      /\ UNCHANGED <<entitlement, keeps, row, transcript, usage, lease, handler, loop, minute, admitted, died>>
  BY DEF StopJob, Owned
<1>2. /\ row[j] \in VoiceRow \cup {NoJob} /\ row' = [row EXCEPT ![j] = row[j]]
      /\ handler[j] \in VoiceHandler /\ handler' = [handler EXCEPT ![j] = handler[j]]
      /\ managed[j] \in ManagedJob /\ JobStands(j)
  BY <1>1, VoiceSame
<1>3. managed[j].status \in {"completed", "failed"}
  BY <1>2 DEF ManagedJob
<1>4. job \in ManagedJob /\ job.status = managed[j].status
  BY <1>2, <1>3 DEF ManagedJob
<1>5. managed' = [managed EXCEPT ![j] = job]
  BY <1>2 DEF StopJob
<1> HIDE DEF job
<1>6. managed'[j] = job
  BY <1>5 DEF VoiceInv, VoiceTyped
<1>7. JobStands(j)'
  BY <1>1, <1>2, <1>4, <1>6 DEF JobStands, RowIsOwn
<1> QED
  BY <1>1, <1>2, <1>4, <1>5, <1>7, JobMoves

LEMMA StopMarksInv ==
    ASSUME VoiceInv, NEW j \in VoiceJob, StopMarks(j)
    PROVE  VoiceInv'
<1> DEFINE entry == [row[j] EXCEPT !.status = managed[j].status, !.stopped = row[j].stopped \/ managed[j].stopped]
<1>1. /\ managed[j] # NoJob /\ managed[j].stopped
      /\ UNCHANGED <<entitlement, keeps, transcript, usage, lease, managed, handler, loop, minute, admitted, died>>
  BY DEF StopMarks
<1>2. /\ handler[j] \in VoiceHandler /\ handler' = [handler EXCEPT ![j] = handler[j]]
      /\ managed[j] \in ManagedJob /\ managed' = [managed EXCEPT ![j] = managed[j]] /\ JobStands(j)
  BY <1>1, VoiceSame
<1>3. RowIsOwn(j) /\ row[j] \in VoiceRow
  BY <1>1, <1>2, VoiceSame DEF JobStands, RowIsOwn
<1>4. /\ entry \in VoiceRow /\ entry.user = row[j].user /\ entry.status = managed[j].status
      /\ entry.keep = row[j].keep
  BY <1>2, <1>3 DEF VoiceRow, ManagedJob
<1>5. row' = [row EXCEPT ![j] = entry]
  BY <1>3 DEF StopMarks, Marked
<1> HIDE DEF entry
<1>6. row'[j] = entry
  BY <1>5 DEF VoiceInv, VoiceTyped
<1>7. JobStands(j)'
  BY <1>1, <1>2, <1>3, <1>4, <1>6 DEF JobStands, RowIsOwn
<1> QED
  BY <1>1, <1>2, <1>4, <1>5, <1>7, JobMoves

\* A transcript or a lease expires, or the manager forgets an answered job.
LEMMA RowsExpireInv ==
    ASSUME VoiceInv, NEW j \in VoiceJob,
           LeaseExpires(j) \/ PruneJob(j) \/ \E u \in VoiceUser : TranscriptExpires(j, u)
    PROVE  VoiceInv'
<1>1. /\ row[j] \in VoiceRow \cup {NoJob} /\ row = [row EXCEPT ![j] = row[j]]
      /\ managed[j] \in ManagedJob \cup {NoJob} /\ managed = [managed EXCEPT ![j] = managed[j]]
      /\ handler[j] \in VoiceHandler /\ handler = [handler EXCEPT ![j] = handler[j]] /\ JobStands(j)
  BY VoiceSame
<1>2. CASE LeaseExpires(j) \/ \E u \in VoiceUser : TranscriptExpires(j, u)
  <2>1. /\ lease' \subseteq lease /\ transcript' \subseteq transcript
        /\ UNCHANGED <<entitlement, keeps, row, usage, managed, handler, loop, minute, admitted, died>>
    BY <1>2 DEF LeaseExpires, TranscriptExpires
  <2>2. JobStands(j)'
    BY <1>1, <2>1 DEF JobStands, RowIsOwn
  <2> QED
    BY <1>1, <2>1, <2>2, StepMoves
<1>3. CASE PruneJob(j)
  <2>1. /\ handler[j].step \in {"done", "purged"} /\ managed' = [managed EXCEPT ![j] = NoJob]
        /\ UNCHANGED <<entitlement, keeps, row, transcript, usage, lease, handler, loop, minute, admitted, died>>
    BY <1>3 DEF PruneJob
  <2>2. managed'[j] = NoJob
    BY <2>1 DEF VoiceInv, VoiceTyped
  <2>3. JobStands(j)'
    BY <1>1, <2>1, <2>2 DEF JobStands, RowIsOwn
  <2> QED
    BY <1>1, <2>1, <2>3, JobMoves
<1> QED
  BY <1>2, <1>3

\* What an entitlement, a preference or the clock does to no job.
LEMMA JobsStay ==
    ASSUME VoiceInv, UNCHANGED <<row, transcript, lease, managed, handler, loop, died>>
    PROVE  \A j \in VoiceJob : JobStands(j)'
<1> SUFFICES ASSUME NEW j \in VoiceJob PROVE JobStands(j)'
  OBVIOUS
<1>1. JobStands(j)
  BY DEF VoiceInv
<1> QED
  BY <1>1 DEF JobStands, RowIsOwn

LEMMA VoiceAccessInv ==
    ASSUME VoiceInv, NEW u \in VoiceUser,
           GrantEntitlement(u) \/ RevokeEntitlement(u) \/ EntitlementExpires(u) \/ SetPreferences(u)
    PROVE  VoiceInv'
<1>1. /\ UNCHANGED <<row, transcript, usage, lease, managed, handler, loop, minute, admitted, died>>
      /\ entitlement' \in [VoiceUser -> {"none", "ACTIVE", "REVOKED", "EXPIRED"}]
  BY DEF GrantEntitlement, RevokeEntitlement, EntitlementExpires, SetPreferences, VoiceInv, VoiceTyped
<1>2. keeps' \in [VoiceUser -> BOOLEAN]
  BY DEF GrantEntitlement, RevokeEntitlement, EntitlementExpires, SetPreferences, VoiceInv, VoiceTyped
<1>3. VoiceTyped'
  BY <1>1, <1>2 DEF VoiceInv, VoiceTyped
<1> QED
  BY <1>1, <1>3, CountedStays, JobsStay DEF VoiceInv

LEMMA PurgeUserDataInv ==
    ASSUME VoiceInv, NEW u \in VoiceUser, PurgeUserData(u)
    PROVE  VoiceInv'
<1>1. /\ UNCHANGED <<entitlement, row, usage, lease, managed, loop, minute, admitted, died>>
      /\ keeps' = [keeps EXCEPT ![u] = FALSE]
      /\ transcript' = {j \in transcript : row[j].user # u}
      /\ handler' = [j \in VoiceJob |->
           IF handler[j].user = u /\ handler[j].step = "done"
           THEN [handler[j] EXCEPT !.step = "purged"] ELSE handler[j]]
  BY DEF PurgeUserData
<1>2. ASSUME NEW j \in VoiceJob
      PROVE  /\ handler'[j] \in VoiceHandler /\ handler'[j].user = handler[j].user
             /\ handler'[j].keep = handler[j].keep
             /\ \/ handler'[j].step = handler[j].step
                \/ handler[j].step = "done" /\ handler'[j].step = "purged" /\ handler[j].user = u
  <2>1. handler[j] \in VoiceHandler
    BY VoiceSame
  <2>2. CASE handler[j].user = u /\ handler[j].step = "done"
    BY <1>1, <2>1, <2>2 DEF VoiceHandler, VoiceStep
  <2>3. CASE ~(handler[j].user = u /\ handler[j].step = "done")
    BY <1>1, <2>1, <2>3
  <2> QED
    BY <2>2, <2>3
<1>3. ASSUME NEW j \in VoiceJob PROVE JobStands(j)'
  <2>1. JobStands(j)
    BY DEF VoiceInv
  <2>2. j \in transcript' => j \in transcript /\ row[j].user # u /\ row[j].user = handler[j].user
    BY <1>1, <2>1 DEF JobStands, RowIsOwn
  <2>3. j \in transcript' => handler'[j].step = handler[j].step
    BY <1>2, <2>2
  <2>4. handler'[j].step = handler[j].step \/ (handler[j].step = "done" /\ handler'[j].step = "purged")
    BY <1>2
  <2>5. CASE handler'[j].step = handler[j].step
    BY <1>1, <1>2, <2>1, <2>2, <2>5 DEF JobStands, RowIsOwn
  <2>6. CASE handler[j].step = "done" /\ handler'[j].step = "purged"
    BY <1>1, <1>2, <2>1, <2>2, <2>3, <2>6 DEF JobStands, RowIsOwn, Working
  <2> QED
    BY <2>4, <2>5, <2>6
<1>4. VoiceTyped'
  <2>1. keeps' \in [VoiceUser -> BOOLEAN]
    BY <1>1 DEF VoiceInv, VoiceTyped
  <2>2. handler' \in [VoiceJob -> VoiceHandler]
    BY <1>1, <1>2
  <2>3. transcript' \subseteq VoiceJob
    BY <1>1 DEF VoiceInv, VoiceTyped
  <2> QED
    BY <1>1, <2>1, <2>2, <2>3 DEF VoiceInv, VoiceTyped
<1>5. \A k \in lease : handler'[k].user = handler[k].user
  BY <1>2 DEF VoiceInv, VoiceTyped
<1> QED
  BY <1>1, <1>3, <1>4, <1>5, CountedStays DEF VoiceInv

LEMMA VoiceCrashInv ==
    ASSUME VoiceInv, VoiceCrash
    PROVE  VoiceInv'
<1>1. /\ UNCHANGED <<entitlement, keeps, row, transcript, usage, lease, minute, admitted>>
      /\ loop' = NoJob /\ died' = died \cup {loop}
      /\ managed' = [j \in VoiceJob |-> NoJob]
      /\ handler' = [j \in VoiceJob |->
           IF handler[j].step = "checked" \/ j = loop THEN [handler[j] EXCEPT !.step = "dead"] ELSE handler[j]]
  BY DEF VoiceCrash
<1>2. loop \in VoiceJob
  BY DEF VoiceCrash, VoiceInv, VoiceTyped
<1>3. ASSUME NEW j \in VoiceJob
      PROVE  /\ handler'[j] \in VoiceHandler /\ handler'[j].user = handler[j].user
             /\ handler'[j].keep = handler[j].keep
             /\ IF handler[j].step = "checked" \/ j = loop THEN handler'[j].step = "dead"
                ELSE handler'[j].step = handler[j].step
  <2>1. handler[j] \in VoiceHandler
    BY VoiceSame
  <2>2. CASE handler[j].step = "checked" \/ j = loop
    BY <1>1, <2>1, <2>2 DEF VoiceHandler, VoiceStep
  <2>3. CASE ~(handler[j].step = "checked" \/ j = loop)
    BY <1>1, <2>1, <2>3
  <2> QED
    BY <2>2, <2>3
<1>4. ASSUME NEW j \in VoiceJob PROVE JobStands(j)'
  <2>1. JobStands(j)
    BY DEF VoiceInv
  <2>2. managed'[j] = NoJob
    BY <1>1
  <2>3. j # NoJob
    BY VoiceAssumption
  <2>4. CASE handler'[j].step = "dead" /\ handler[j].step # "new"
    BY <1>1, <1>3, <2>1, <2>2, <2>3, <2>4 DEF JobStands, RowIsOwn, Working
  <2>5. CASE handler'[j].step = handler[j].step /\ j # loop
    BY <1>1, <1>3, <2>1, <2>2, <2>3, <2>5 DEF JobStands, RowIsOwn, Working
  <2>6. j = loop => handler[j].step # "new"
    BY <2>1 DEF JobStands, Working
  <2> QED
    BY <1>3, <2>4, <2>5, <2>6
<1>5. VoiceTyped'
  <2>1. handler' \in [VoiceJob -> VoiceHandler]
    BY <1>1, <1>3
  <2>2. managed' \in [VoiceJob -> ManagedJob \cup {NoJob}]
    BY <1>1
  <2> QED
    BY <1>1, <1>2, <2>1, <2>2 DEF VoiceInv, VoiceTyped
<1>6. \A k \in lease : handler'[k].user = handler[k].user
  BY <1>3 DEF VoiceInv, VoiceTyped
<1> QED
  BY <1>1, <1>4, <1>5, <1>6, CountedStays DEF VoiceInv

LEMMA ReadGrows ==
    ASSUME NEW S, IsFiniteSet(Read(S)), NEW a, Length[a.job] \in Nat
    PROVE  /\ IsFiniteSet(Read(S \cup {a}))
           /\ Characters(S \cup {a}) <= Characters(S) + Length[a.job]
<1> DEFINE n == Length[a.job]
           T == {a} \X (1..n)
<1>1. Read(S \cup {a}) = Read(S) \cup T
  BY DEF Read
<1>2. IsFiniteSet(1..n) /\ Cardinality(1..n) = n
  <2>1. n \in Nat
    OBVIOUS
  <2> HIDE DEF n
  <2>2. 1 \in Int /\ n \in Int
    BY <2>1
  <2>3. IsFiniteSet(1..n) /\ Cardinality(1..n) = IF 1 > n THEN 0 ELSE n - 1 + 1
    BY <2>2, FS_Interval
  <2> QED
    BY <2>1, <2>3
<1>3. IsFiniteSet({a}) /\ Cardinality({a}) = 1
  BY FS_Singleton
<1>4. IsFiniteSet(T) /\ Cardinality(T) = 1 * n
  BY <1>2, <1>3, FS_Product
<1>5. Cardinality(T) = n
  BY <1>4
<1> HIDE DEF T, n
<1>6. /\ IsFiniteSet(Read(S) \cup T)
      /\ Cardinality(Read(S) \cup T) = Cardinality(Read(S)) + Cardinality(T) - Cardinality(Read(S) \cap T)
  BY <1>4, FS_Union
<1>7. IsFiniteSet(Read(S) \cap T)
  BY <1>4, FS_Subset
<1>8. Cardinality(Read(S)) \in Nat /\ Cardinality(T) \in Nat /\ Cardinality(Read(S) \cap T) \in Nat
  BY <1>4, <1>7, FS_CardinalityType
<1>9. IsFiniteSet(Read(S \cup {a})) /\ Cardinality(Read(S \cup {a})) <= Cardinality(Read(S)) + n
  <2>1. Cardinality(Read(S) \cup T) <= Cardinality(Read(S)) + n
    BY <1>5, <1>6, <1>8
  <2> QED
    BY <1>1, <1>6, <2>1
<1> QED
  BY <1>9 DEF Characters, n

\* The day of a later minute is the same or one that no earlier minute is of.
LEMMA DayTurns ==
    ASSUME NEW m \in Nat, NEW n \in Nat \ {0}
    PROVE  /\ m \div n \in Nat
           /\ IF (m + 1) % n = 0 THEN \A k \in 0..m : k \div n # (m + 1) \div n
              ELSE (m + 1) \div n = m \div n
<1> DEFINE p == m \div n
           q == (m + 1) \div n
           r == m % n
           s == (m + 1) % n
<1>1. /\ p \in Int /\ q \in Int /\ r \in 0..n-1 /\ s \in 0..n-1
      /\ m = n * p + r /\ m + 1 = n * q + s
  OBVIOUS
<1>2. p \in Nat
  OBVIOUS
<1>3. ASSUME s = 0, NEW k \in 0..m PROVE k \div n # q
  <2>1. k = n * (k \div n) + (k % n) /\ k % n \in 0..n-1
    OBVIOUS
  <2> QED
    BY <1>1, <1>3, <2>1
<1>4. ASSUME s # 0 PROVE q = p
  <2> HIDE DEF p, q, r, s
  <2>1. n * (p + 1) = n * p + n /\ n * (q + 1) = n * q + n
    BY <1>1
  <2>2. q >= p + 1 => n * q >= n * (p + 1)
    BY <1>1
  <2>3. p >= q + 1 => n * p >= n * (q + 1)
    BY <1>1
  <2>4. ~(q >= p + 1) /\ ~(p >= q + 1)
    <3> DEFINE x == n * p
               y == n * q
    <3>1. x \in Int /\ y \in Int /\ m = x + r /\ m + 1 = y + s
      BY <1>1
    <3>2. /\ q >= p + 1 => y >= x + n
          /\ p >= q + 1 => x >= y + n
      BY <2>1, <2>2, <2>3
    <3> HIDE DEF x, y
    <3> QED
      BY <1>1, <1>4, <3>1, <3>2
  <2> QED
    BY <1>1, <2>4
<1> QED
  BY <1>2, <1>3, <1>4

\* A window that begins counts nothing yet, and nothing has been admitted in it.
LEMMA NextMinuteInv ==
    ASSUME VoiceInv, NextMinute
    PROVE  VoiceInv'
<1> DEFINE none == [minute |-> 0, day |-> 0, characters |-> 0]
<1>1. /\ UNCHANGED <<entitlement, keeps, row, transcript, lease, managed, handler, loop, admitted, died>>
      /\ minute \in Nat /\ minute' = minute + 1
      /\ usage \in [VoiceUser -> [minute : Nat, day : Nat, characters : Nat]]
      /\ usage' = [u \in VoiceUser |->
           IF minute' % DayLength = 0 THEN none ELSE [usage[u] EXCEPT !.minute = 0]]
  BY DEF NextMinute, VoiceInv, VoiceTyped
<1>2. DayLength \in Nat \ {0} /\ PerMinute \in Nat
  BY VoiceAssumption
<1>3. /\ minute \div DayLength \in Nat
      /\ IF minute' % DayLength = 0 THEN \A k \in 0..minute : k \div DayLength # minute' \div DayLength
         ELSE minute' \div DayLength = minute \div DayLength
  BY <1>1, <1>2, DayTurns
<1>4. VoiceTyped'
  <2>1. none \in [minute : Nat, day : Nat, characters : Nat]
    OBVIOUS
  <2> HIDE DEF none
  <2>2. usage' \in [VoiceUser -> [minute : Nat, day : Nat, characters : Nat]]
    BY <1>1, <2>1
  <2>3. \A k \in 0..minute : k \in 0..minute'
    BY <1>1
  <2>4. admitted' \subseteq [job : VoiceJob, user : VoiceUser, at : 0..minute']
    BY <1>1, <2>3 DEF VoiceInv, VoiceTyped
  <2> QED
    BY <1>1, <2>2, <2>4 DEF VoiceInv, VoiceTyped
<1>5. ASSUME NEW u \in VoiceUser PROVE Counted(u)'
  <2>1. Counted(u)
    BY DEF VoiceInv
  <2>2. \A m : AdmittedIn(u, m)' = AdmittedIn(u, m) /\ AdmittedOn(u, m)' = AdmittedOn(u, m)
    BY <1>1 DEF AdmittedIn, AdmittedOn
  <2>3. LeasesOf(u)' = LeasesOf(u)
    BY <1>1 DEF LeasesOf
  <2>4. \A a \in admitted : a.at \in 0..minute
    BY DEF VoiceInv, VoiceTyped
  <2>5. Cardinality({}) = 0 /\ Read({}) = {}
    BY FS_EmptySet DEF Read
  <2>6. Cardinality(AdmittedIn(u, minute')) = 0
    <3>1. AdmittedIn(u, minute') = {}
      BY <1>1, <2>4 DEF AdmittedIn
    <3> QED
      BY <2>5, <3>1
  <2>7. /\ Cardinality(AdmittedOn(u, minute' \div DayLength)) <= usage'[u].day
        /\ Characters(AdmittedOn(u, minute' \div DayLength)) <= usage'[u].characters
    <3>1. CASE minute' % DayLength = 0
      <4>1. AdmittedOn(u, minute' \div DayLength) = {}
        BY <1>3, <2>4, <3>1 DEF AdmittedOn
      <4>2. usage'[u].day = 0 /\ usage'[u].characters = 0
        BY <1>1, <3>1
      <4> QED
        BY <2>5, <4>1, <4>2 DEF Characters
    <3>2. CASE minute' % DayLength # 0
      <4>1. usage'[u].day = usage[u].day /\ usage'[u].characters = usage[u].characters
        BY <1>1, <3>2
      <4> QED
        BY <1>3, <2>1, <3>2, <4>1 DEF Counted
    <3> QED
      BY <3>1, <3>2
  <2>8. usage'[u].minute = 0
    BY <1>1
  <2>9. /\ Cardinality(AdmittedIn(u, minute)') <= usage'[u].minute
        /\ Cardinality(AdmittedOn(u, minute \div DayLength)') <= usage'[u].day
        /\ Cardinality(Read(AdmittedOn(u, minute \div DayLength))') <= usage'[u].characters
    <3>1. AdmittedIn(u, minute)' = AdmittedIn(u, minute')
          /\ AdmittedOn(u, minute \div DayLength)' = AdmittedOn(u, minute' \div DayLength)
      BY <1>1 DEF AdmittedIn, AdmittedOn
    <3>2. Read(AdmittedOn(u, minute \div DayLength))' = Read(AdmittedOn(u, minute' \div DayLength))
      BY <3>1 DEF Read
    <3>3. Cardinality(AdmittedIn(u, minute)') <= usage'[u].minute
      BY <2>6, <2>8, <3>1
    <3>4. Cardinality(AdmittedOn(u, minute \div DayLength)') <= usage'[u].day
      BY <2>7, <3>1
    <3>5. Cardinality(Read(AdmittedOn(u, minute \div DayLength))') <= usage'[u].characters
      BY <2>7, <3>2 DEF Characters
    <3> QED
      BY <3>3, <3>4, <3>5
  <2> QED
    BY <2>1, <2>2, <2>3, <2>9 DEF Counted, Characters, Read
<1> QED
  BY <1>1, <1>4, <1>5, JobsStay DEF VoiceInv

LEMMA VoiceReserveInv ==
    ASSUME VoiceInv, NEW j \in VoiceJob, Reserve(j)
    PROVE  VoiceInv'
<1>0. PICK u \in VoiceUser : u = handler[j].user
  <2>1. JobStands(j) /\ handler[j].step = "reserving"
    BY VoiceSame DEF Reserve
  <2> QED
    BY <2>1 DEF JobStands
<1> DEFINE a == [job |-> j, user |-> u, at |-> minute]
           day == minute \div DayLength
<1>1. /\ loop = j /\ handler[j].step = "reserving" /\ WithinLimits(u, j) /\ Goto(j, "synthesis")
      /\ usage' = [usage EXCEPT ![u] = Charged(u, j)]
      /\ lease' = lease \cup {j} /\ admitted' = admitted \cup {a}
      /\ UNCHANGED <<entitlement, keeps, row, transcript, managed, loop, minute, died>>
  BY <1>0 DEF Reserve
<1>2. PICK new \in VoiceHandler :
        /\ handler' = [handler EXCEPT ![j] = new] /\ handler'[j] = new
        /\ new.step = "synthesis" /\ new.user = u /\ new.keep = handler[j].keep
  BY <1>0, <1>1, GoesTo DEF VoiceStep
<1>3. /\ handler \in [VoiceJob -> VoiceHandler] /\ JobStands(j)
      /\ minute \in Nat /\ Length[j] \in Nat
      /\ usage \in [VoiceUser -> [minute : Nat, day : Nat, characters : Nat]]
      /\ IsFiniteSet(lease) /\ IsFiniteSet(admitted)
  BY VoiceAssumption, VoiceSame DEF VoiceInv, VoiceTyped
<1>4. u \in VoiceUser
  BY <1>0
<1>5. /\ PerMinute \in Nat /\ PerDay \in Nat /\ CharactersPerDay \in Nat /\ Concurrency \in Nat
      /\ day \in Nat
  BY <1>3, VoiceAssumption, DayTurns
<1>6. Charged(u, j) \in [minute : Nat, day : Nat, characters : Nat]
      /\ usage'[u] = Charged(u, j) /\ \A v \in VoiceUser \ {u} : usage'[v] = usage[v]
  BY <1>1, <1>3, <1>4 DEF Charged
<1>7. a.job = j /\ a.user = u /\ a.at = minute /\ a \in [job : VoiceJob, user : VoiceUser, at : 0..minute]
  BY <1>3, <1>4
<1> HIDE DEF a
<1>8. VoiceTyped'
  <2>1. IsFiniteSet(lease') /\ IsFiniteSet(admitted')
    BY <1>1, <1>3, FS_AddElement
  <2>2. usage' \in [VoiceUser -> [minute : Nat, day : Nat, characters : Nat]]
    BY <1>1, <1>3, <1>6
  <2>3. handler' \in [VoiceJob -> VoiceHandler]
    BY <1>2, <1>3
  <2> QED
    BY <1>1, <1>7, <2>1, <2>2, <2>3 DEF VoiceInv, VoiceTyped
<1>9. ASSUME NEW k \in VoiceJob PROVE JobStands(k)'
  <2>1. JobStands(k)
    BY DEF VoiceInv
  <2>2. CASE k = j
    BY <1>0, <1>1, <1>2, <2>1, <2>2 DEF JobStands, RowIsOwn, Working
  <2>3. CASE k # j
    <3>1. handler'[k] = handler[k]
      BY <1>2, <1>3, <2>3
    <3> QED
      BY <1>1, <2>1, <2>3, <3>1 DEF JobStands, RowIsOwn
  <2> QED
    BY <2>2, <2>3
<1>10. \A v, m : /\ AdmittedIn(v, m)' = IF v = u /\ m = minute THEN AdmittedIn(v, m) \cup {a} ELSE AdmittedIn(v, m)
                 /\ AdmittedOn(v, m)' = IF v = u /\ m = day THEN AdmittedOn(v, m) \cup {a} ELSE AdmittedOn(v, m)
  BY <1>1, <1>7 DEF AdmittedIn, AdmittedOn
<1>11. \A v, m : /\ Cardinality(AdmittedIn(v, m)) \in Nat /\ IsFiniteSet(AdmittedIn(v, m))
                 /\ Cardinality(AdmittedOn(v, m)) \in Nat /\ IsFiniteSet(AdmittedOn(v, m))
  <2> SUFFICES ASSUME NEW v, NEW m
               PROVE  /\ Cardinality(AdmittedIn(v, m)) \in Nat /\ IsFiniteSet(AdmittedIn(v, m))
                      /\ Cardinality(AdmittedOn(v, m)) \in Nat /\ IsFiniteSet(AdmittedOn(v, m))
    OBVIOUS
  <2>1. AdmittedIn(v, m) \subseteq admitted /\ AdmittedOn(v, m) \subseteq admitted
    BY DEF AdmittedIn, AdmittedOn
  <2>2. IsFiniteSet(AdmittedIn(v, m)) /\ IsFiniteSet(AdmittedOn(v, m))
    BY <1>3, <2>1, FS_Subset
  <2> QED
    BY <2>2, FS_CardinalityType
<1>12. /\ Cardinality(AdmittedIn(u, minute) \cup {a}) <= Cardinality(AdmittedIn(u, minute)) + 1
       /\ Cardinality(AdmittedOn(u, day) \cup {a}) <= Cardinality(AdmittedOn(u, day)) + 1
  <2>1. ASSUME NEW S, IsFiniteSet(S), Cardinality(S) \in Nat
        PROVE  Cardinality(S \cup {a}) <= Cardinality(S) + 1
    <3>1. Cardinality(S \cup {a}) = IF a \in S THEN Cardinality(S) ELSE Cardinality(S) + 1
      BY <2>1, FS_AddElement
    <3> QED
      BY <2>1, <3>1
  <2> QED
    BY <1>11, <2>1
<1>13. /\ IsFiniteSet(Read(AdmittedOn(u, day) \cup {a}))
       /\ Characters(AdmittedOn(u, day) \cup {a}) <= Characters(AdmittedOn(u, day)) + Length[j]
       /\ Characters(AdmittedOn(u, day)) \in Nat
       /\ Characters(AdmittedOn(u, day) \cup {a}) \in Nat
  <2>1. IsFiniteSet(Read(AdmittedOn(u, day)))
    BY <1>4, <1>5 DEF VoiceInv, Counted
  <2>2. /\ IsFiniteSet(Read(AdmittedOn(u, day) \cup {a}))
        /\ Characters(AdmittedOn(u, day) \cup {a}) <= Characters(AdmittedOn(u, day)) + Length[a.job]
    BY <1>3, <1>7, <2>1, ReadGrows
  <2> QED
    BY <1>7, <2>1, <2>2, FS_CardinalityType DEF Characters
<1>14. \A v \in VoiceUser \ {u} : LeasesOf(v)' = LeasesOf(v)
  <2> SUFFICES ASSUME NEW v \in VoiceUser \ {u} PROVE LeasesOf(v)' = LeasesOf(v)
    OBVIOUS
  <2>1. \A k \in lease : handler'[k].user = handler[k].user
    BY <1>0, <1>2, <1>3 DEF VoiceInv, VoiceTyped
  <2> QED
    BY <1>0, <1>1, <1>2, <2>1 DEF LeasesOf
<1>15. Cardinality(LeasesOf(u)') <= Concurrency
  <2>1. \A k \in lease : handler'[k].user = handler[k].user
    BY <1>0, <1>2, <1>3 DEF VoiceInv, VoiceTyped
  <2>2. LeasesOf(u)' = LeasesOf(u) \cup {j}
    BY <1>0, <1>1, <1>2, <2>1 DEF LeasesOf
  <2>3. LeasesOf(u) \subseteq lease
    BY DEF LeasesOf
  <2>4. IsFiniteSet(LeasesOf(u))
    BY <1>3, <2>3, FS_Subset
  <2>5. Cardinality(LeasesOf(u)) \in Nat /\ Cardinality(LeasesOf(u) \cup {j}) <= Cardinality(LeasesOf(u)) + 1
    <3>1. Cardinality(LeasesOf(u)) \in Nat
      BY <2>4, FS_CardinalityType
    <3>2. Cardinality(LeasesOf(u) \cup {j}) =
            IF j \in LeasesOf(u) THEN Cardinality(LeasesOf(u)) ELSE Cardinality(LeasesOf(u)) + 1
      BY <2>4, FS_AddElement
    <3> QED
      BY <3>1, <3>2
  <2>6. Cardinality(LeasesOf(u) \cup {j}) \in Nat
    BY <2>4, FS_AddElement, FS_CardinalityType
  <2>7. Cardinality(LeasesOf(u)) < Concurrency
    BY <1>1 DEF WithinLimits
  <2>8. Cardinality(LeasesOf(u) \cup {j}) <= Concurrency
    BY <1>5, <2>5, <2>6, <2>7
  <2> QED
    BY <2>2, <2>8
<1>16. ASSUME NEW v \in VoiceUser, v # u PROVE Counted(v)'
  <2>1. Counted(v)
    BY DEF VoiceInv
  <2>2. \A m : AdmittedIn(v, m)' = AdmittedIn(v, m) /\ AdmittedOn(v, m)' = AdmittedOn(v, m)
    BY <1>10, <1>16
  <2>3. LeasesOf(v)' = LeasesOf(v) /\ usage'[v] = usage[v] /\ minute' = minute
    BY <1>1, <1>6, <1>14, <1>16
  <2> QED
    BY <2>1, <2>2, <2>3 DEF Counted, Characters, Read
<1>17. Counted(u)'
  <2> DEFINE I == AdmittedIn(u, minute)
             O == AdmittedOn(u, day)
  <2>1. Counted(u)
    BY <1>4 DEF VoiceInv
  <2>2. /\ usage[u].minute \in Nat /\ usage[u].day \in Nat /\ usage[u].characters \in Nat
        /\ usage[u].minute + 1 <= PerMinute /\ usage[u].day + 1 <= PerDay
        /\ usage[u].characters + Length[j] <= CharactersPerDay
        /\ usage'[u].minute = usage[u].minute + 1 /\ usage'[u].day = usage[u].day + 1
        /\ usage'[u].characters = usage[u].characters + Length[j]
    BY <1>1, <1>3, <1>4, <1>6 DEF WithinLimits, Charged
  <2>3. Cardinality(I) <= usage[u].minute /\ Cardinality(O) <= usage[u].day
        /\ Characters(O) <= usage[u].characters
    BY <2>1 DEF Counted
  <2> HIDE DEF I, O, day
  <2>4. /\ Cardinality(I \cup {a}) \in Nat /\ Cardinality(O \cup {a}) \in Nat
        /\ Cardinality(I) \in Nat /\ Cardinality(O) \in Nat
    <3>1. IsFiniteSet(I) /\ IsFiniteSet(O)
      BY <1>11 DEF I, O
    <3> QED
      BY <3>1, FS_AddElement, FS_CardinalityType
  <2>5. /\ Cardinality(I \cup {a}) <= usage'[u].minute /\ Cardinality(I \cup {a}) <= PerMinute
        /\ Cardinality(O \cup {a}) <= usage'[u].day /\ Cardinality(O \cup {a}) <= PerDay
    <3>1. Cardinality(I \cup {a}) <= Cardinality(I) + 1 /\ Cardinality(O \cup {a}) <= Cardinality(O) + 1
      BY <1>12 DEF I, O
    <3> QED
      BY <1>5, <2>2, <2>3, <2>4, <3>1
  <2>6. /\ Characters(O \cup {a}) <= usage'[u].characters /\ Characters(O \cup {a}) <= CharactersPerDay
    <3>1. /\ Characters(O \cup {a}) <= Characters(O) + Length[j]
          /\ Characters(O) \in Nat /\ Characters(O \cup {a}) \in Nat
      BY <1>13 DEF O
    <3> QED
      BY <1>3, <1>5, <2>2, <2>3, <3>1
  <2>7. /\ AdmittedIn(u, minute)' = I \cup {a}
        /\ AdmittedOn(u, minute \div DayLength)' = O \cup {a}
    <3>1. AdmittedIn(u, minute)' = {x \in admitted' : x.user = u /\ x.at = minute}
          /\ AdmittedOn(u, minute \div DayLength)' = {x \in admitted' : x.user = u /\ x.at \div DayLength = day}
      BY <1>1 DEF AdmittedIn, AdmittedOn, day
    <3> QED
      BY <1>1, <1>7, <3>1 DEF AdmittedIn, AdmittedOn, I, O
  <2>8. \A m \in Nat : Cardinality(AdmittedIn(u, m)') <= PerMinute
    <3> SUFFICES ASSUME NEW m \in Nat PROVE Cardinality(AdmittedIn(u, m)') <= PerMinute
      OBVIOUS
    <3>1. CASE m = minute
      BY <1>10, <2>5, <3>1 DEF I
    <3>2. CASE m # minute
      BY <1>10, <2>1, <3>2 DEF Counted
    <3> QED
      BY <3>1, <3>2
  <2>9. ASSUME NEW d \in Nat
        PROVE  /\ IsFiniteSet(Read(AdmittedOn(u, d)'))
               /\ Cardinality(AdmittedOn(u, d)') <= PerDay
               /\ Characters(AdmittedOn(u, d)') <= CharactersPerDay
    <3>1. CASE d = day
      <4>1. AdmittedOn(u, d)' = O \cup {a}
        BY <1>10, <3>1 DEF O
      <4> QED
        BY <1>13, <2>5, <2>6, <4>1 DEF O
    <3>2. CASE d # day
      <4>1. AdmittedOn(u, d)' = AdmittedOn(u, d)
        BY <1>10, <3>2
      <4> QED
        BY <2>1, <4>1 DEF Counted
    <3> QED
      BY <3>1, <3>2
  <2>10. /\ Cardinality(AdmittedIn(u, minute)') <= usage'[u].minute
         /\ Cardinality(AdmittedOn(u, minute \div DayLength)') <= usage'[u].day
         /\ Cardinality(Read(AdmittedOn(u, minute \div DayLength)')) <= usage'[u].characters
    BY <2>5, <2>6, <2>7 DEF Characters
  <2> QED
    BY <1>15, <2>8, <2>9, <2>10 DEF Counted, Characters, Read
<1>18. \A v \in VoiceUser : Counted(v)'
  BY <1>16, <1>17
<1> QED
  BY <1>8, <1>9, <1>18 DEF VoiceInv

LEMMA VoiceSteps ==
    ASSUME VoiceInv, VoiceNext
    PROVE  VoiceInv'
BY VoiceAccessInv, PurgeUserDataInv, CheckAccessInv, StopJobInv, RowsExpireInv, ReadPreferencesInv,
   VoiceReserveInv, RateLimitedInv, SynthesizeSpeechInv, RecordJobInv, RecordEnvelopeInv, MarkJobInv,
   SaveTranscriptInv, StepFailsInv, ReleaseLeaseInv, StopMarksInv, NextMinuteInv, VoiceCrashInv
   DEF VoiceNext

LEMMA VoiceStutter ==
    ASSUME VoiceInv, UNCHANGED voiceVars
    PROVE  VoiceInv'
<1>1. UNCHANGED <<entitlement, keeps, row, transcript, usage, lease, managed, handler, loop,
                  minute, admitted, died>>
  BY DEF voiceVars
<1>2. VoiceTyped'
  BY <1>1 DEF VoiceInv, VoiceTyped
<1> QED
  BY <1>1, <1>2, JobsStay, CountedStays DEF VoiceInv

\* The invariant says what the properties say.
LEMMA VoiceFollows ==
    ASSUME VoiceInv
    PROVE  QuotaHolds /\ TranscriptsAreWanted
<1>1. QuotaHolds
  <2> SUFFICES ASSUME NEW u \in VoiceUser
               PROVE  /\ \A m \in 0..minute : Cardinality(AdmittedIn(u, m)) <= PerMinute
                      /\ \A d \in 0..(minute \div DayLength) :
                           /\ Cardinality(AdmittedOn(u, d)) <= PerDay
                           /\ Characters(AdmittedOn(u, d)) <= CharactersPerDay
                      /\ Cardinality(LeasesOf(u)) <= Concurrency
                      /\ LeasesOf(u) \subseteq died \cup {loop}
    BY DEF QuotaHolds
  <2>1. Counted(u)
    BY DEF VoiceInv
  <2>2. LeasesOf(u) \subseteq died \cup {loop}
    BY DEF LeasesOf, VoiceInv, VoiceTyped, JobStands
  <2>3. minute \in Nat
    BY DEF VoiceInv, VoiceTyped
  <2>4. DayLength \in Nat \ {0} /\ minute \div DayLength \in Nat
    BY <2>3, VoiceAssumption, DayTurns
  <2>5. (\A m \in 0..minute : m \in Nat) /\ \A d \in 0..(minute \div DayLength) : d \in Nat
    OBVIOUS
  <2> QED
    BY <2>1, <2>2, <2>5 DEF Counted
<1>2. TranscriptsAreWanted
  <2> SUFFICES ASSUME NEW j \in transcript
               PROVE  /\ row[j].status = "completed" /\ row[j].keep
                      /\ handler[j].keep /\ handler[j].step # "purged"
    BY DEF TranscriptsAreWanted
  <2>1. JobStands(j)
    BY DEF VoiceInv, VoiceTyped
  <2> QED
    BY <2>1 DEF JobStands
<1> QED
  BY <1>1, <1>2

-----------------------------------------------------------------------------
(* In the deployment. *)

UserInv ==
    /\ part = "identity" => IdentityInv
    /\ part = "voice" => VoiceInv

LEMMA InitUser == PlatformInit => UserInv
BY InitIdentity, InitVoice DEF PlatformInit, UserInv

LEMMA IdentityStutter ==
    ASSUME IdentityInv, UNCHANGED identityVars
    PROVE  IdentityInv'
<1>1. UNCHANGED <<setup, climate, invites, accounts, codes, tokens, failures, guesses, clock>>
  BY DEF identityVars
<1>2. clock' \in Nat /\ clock' >= clock
  BY <1>1 DEF IdentityInv, IdentityTyped
<1>3. LockTime >= Window => \A s \in Subject : GuessesCounted(s)'
  BY <1>1, <1>2, CountStays
<1>4. CodesStand' /\ codes' \in Seq(CodeRow)
  BY <1>1, CodesStay
<1>5. /\ failures' \in [Subject -> [count : Nat, start : Nat, until : Nat]]
      /\ guesses' \in [Subject -> Seq(Nat)]
  BY <1>1 DEF IdentityInv, IdentityTyped
<1> QED
  BY <1>1, <1>2, <1>3, <1>4, <1>5, GuessesMove

LEMMA UserStep ==
    ASSUME UserInv, [PlatformNext]_platformVars
    PROVE  UserInv'
<1>1. CASE IdentityRuns
  BY <1>1, IdentityStep DEF IdentityRuns, UserInv
<1>2. CASE VoiceRuns
  BY <1>2, VoiceSteps DEF VoiceRuns, UserInv
<1>3. CASE \/ FailSafeRuns \/ EnforcementRuns \/ CommercialRuns \/ VotesRuns \/ IntegrityRuns
           \/ DevicesRuns \/ CouncilRuns \/ GatewayRuns \/ AssuranceRuns \/ FusionRuns \/ AwarenessRuns
           \/ TutorRuns \/ TitanRuns \/ RoadRuns
  <2>1. part \notin {"identity", "voice"} /\ part' = part
    BY <1>3 DEF FailSafeRuns, EnforcementRuns, CommercialRuns, VotesRuns, IntegrityRuns, DevicesRuns,
       CouncilRuns, GatewayRuns, AssuranceRuns, FusionRuns, AwarenessRuns,
       TutorRuns, TitanRuns, RoadRuns
  <2> QED
    BY <2>1 DEF UserInv
<1>4. CASE UNCHANGED platformVars
  <2>1. UNCHANGED <<part, identityVars, voiceVars>>
    BY <1>4 DEF platformVars
  <2> QED
    BY <2>1, IdentityStutter, VoiceStutter DEF UserInv
<1> QED
  BY <1>1, <1>2, <1>3, <1>4 DEF PlatformNext

LEMMA UserHolds == PlatformSpec => []UserInv
<1>1. UserInv /\ [PlatformNext]_platformVars => UserInv'
  BY UserStep
<1> QED
  BY <1>1, InitUser, PTL DEF PlatformSpec

\* Of the refresh tokens that descend from one authorization code at most one is
\* unrevoked; whatever resolves leads back to a registered client and to an
\* account that one backed invitation made; and no window of time holds more
\* than 2 * MaxFailures - 2 wrong passwords against a user who does not sign in
\* meanwhile (user_oauth.py).
THEOREM CredentialsAreBacked == PlatformSpec => []IdentityHolds
<1>1. UserInv => IdentityHolds
  BY IdentityFollows DEF UserInv, IdentityHolds
<1> QED
  BY <1>1, UserHolds, PTL

\* Neither the minute nor the day admits a user more than their limits, nor
\* more characters than the day's, and no lease is left behind but by a handler
\* that died or failed to release it; a transcript is kept only for a job that was synthesized to the end
\* and asked for it (voice_accessibility.py).
THEOREM VoiceIsWithinQuota == PlatformSpec => []VoiceHolds
<1>1. UserInv => VoiceHolds
  BY VoiceFollows DEF UserInv, VoiceHolds
<1> QED
  BY <1>1, UserHolds, PTL
=============================================================================
