------------------------------- MODULE Identity -------------------------------
(***************************************************************************)
(* Accounts and OAuth: app/user_identity.py (UserIdentityStore over        *)
(* sara_identity.db) behind app/user_identity_http.py.                     *)
(*                                                                         *)
(* A handler awaits nothing but its form, so no other request comes        *)
(* between its transactions; a crash or an SQLite error may.  A request    *)
(* that is refused changes nothing and is not a step.  Invitations,        *)
(* accounts, codes and tokens are numbered in the order they are made; no  *)
(* code path ever takes an account out of ACTIVE.                          *)
(***************************************************************************)
EXTENDS Integers, FiniteSets, Sequences, SequencesExt

CONSTANTS
    Setups,         \* how the deployment may be configured
    Https,          \* redirect URIs that _validated_redirect_uri accepts
    Scope,          \* OAuth scopes
    Climates,       \* what may happen: sets of "lapses", "guesses"
    MaxInvites, MaxCodes, MaxTokens, MaxGuesses, MaxClock,     \* bounds
    MaxFailures,    \* SARA_AUTH_MAX_FAILURES
    Window,         \* SARA_AUTH_FAILURE_WINDOW_SECONDS
    LockTime        \* SARA_AUTH_LOCK_SECONDS

ASSUME IdentityAssumption ==
    /\ {MaxInvites, MaxCodes, MaxTokens, MaxGuesses, MaxClock} \subseteq Nat
    /\ MaxFailures \in Nat /\ MaxFailures > 1
    /\ Window \in Nat \ {0}
    /\ LockTime \in Nat \ {0}

VARIABLES
    setup,      \* the environment variables the server was started with
    climate,
    invites,    \* rows of enrollment_invites
    accounts,   \* how many rows users has
    codes,      \* rows of oauth_codes
    tokens,     \* rows of oauth_tokens
    failures,   \* rows of auth_failures
    guesses,    \* when a wrong password was answered, since the last right one
    clock

identityVars == <<setup, climate, invites, accounts, codes, tokens, failures, guesses, clock>>

Subject == 1..MaxInvites     \* user IDs; those beyond accounts do not exist

Calm == [count |-> 0, start |-> 0, until |-> 0]

IdentityInit ==
    /\ setup \in Setups
    /\ climate \in Climates
    /\ invites = <<>>
    /\ accounts = 0
    /\ codes = <<>>
    /\ tokens = <<>>
    /\ failures = [s \in Subject |-> Calm]
    /\ guesses = [s \in Subject |-> <<>>]
    /\ clock = 0

-----------------------------------------------------------------------------
\* _build_client_entry: a secret of the right length, HTTPS redirects, a scope.
WellFormed(entry) ==
    /\ entry.secretFits
    /\ entry.redirects # {}
    /\ entry.redirects \subseteq Https
    /\ entry.scopes # {}

\* oauth_configuration: SARA_OAUTH_CLIENTS and the one legacy client.  One bad
\* entry, or a client named twice, and there is no OAuth at all.
Registry ==
    LET entries == setup.clients \o setup.legacy
    IN IF /\ \A i \in DOMAIN entries : WellFormed(entries[i])
          /\ \A i, j \in DOMAIN entries : entries[i].client = entries[j].client => i = j
       THEN ToSet(entries)
       ELSE {}

\* _require_owner.
OwnerProvisioned == setup.owner = "own"

\* _require_enrollment_bootstrap: not unset, not short, not another credential.
BootstrapProvisioned == setup.bootstrap = "own"

\* create_invitation.
NewInvitation == [account |-> 0, expired |-> FALSE]

\* POST /admin/enrollment/invitations and /bootstrap: the caller holds the owner
\* or the bootstrap credential.
Invite ==
    /\ OwnerProvisioned \/ BootstrapProvisioned
    /\ Len(invites) < MaxInvites
    /\ invites' = Append(invites, NewInvitation)
    /\ UNCHANGED <<setup, climate, accounts, codes, tokens, failures, guesses, clock>>

\* Mutant of Enroll: the invitation is not consumed.
EnrollAgain(i) ==
    /\ invites[i].account = 0
    /\ ~invites[i].expired
    /\ accounts < MaxInvites
    /\ accounts' = accounts + 1
    /\ UNCHANGED <<setup, climate, invites, codes, tokens, failures, guesses, clock>>

\* enroll, one transaction: with the enrolment ID and an acceptable password.
Enroll(i) ==
    /\ invites[i].account = 0
    /\ ~invites[i].expired
    /\ accounts' = accounts + 1
    /\ invites' = [invites EXCEPT ![i].account = accounts']
    /\ UNCHANGED <<setup, climate, codes, tokens, failures, guesses, clock>>

-----------------------------------------------------------------------------
\* validate_authorization_request: the scope that is granted; none requested
\* means all of the client's.
Granted(entry, requested) == IF requested = {} THEN entry.scopes ELSE requested

ValidRequest(entry, redirect, requested) ==
    /\ redirect \in entry.redirects
    /\ requested \subseteq entry.scopes

\* _assert_not_locked.
Locked(s) == failures[s].until > clock

\* Mutant of CountFailure: the lock comes one failure late.
CountFailureLate(s) ==
    LET stale == failures[s].count = 0 \/ clock - failures[s].start > Window
        count == IF stale THEN 1 ELSE failures[s].count + 1
    IN [count |-> count,
        start |-> IF stale THEN clock ELSE failures[s].start,
        until |-> IF count > MaxFailures THEN clock + LockTime ELSE 0]

\* _record_auth_failure.
CountFailure(s) ==
    LET stale == failures[s].count = 0 \/ clock - failures[s].start > Window
        count == IF stale THEN 1 ELSE failures[s].count + 1
    IN [count |-> count,
        start |-> IF stale THEN clock ELSE failures[s].start,
        until |-> IF count >= MaxFailures THEN clock + LockTime ELSE 0]

\* POST /oauth/authorize with a wrong password or an unknown user.
WrongPassword(s) ==
    /\ "guesses" \in climate
    /\ Registry # {}
    /\ ~Locked(s)
    /\ Len(guesses[s]) < MaxGuesses
    /\ failures' = [failures EXCEPT ![s] = CountFailure(s)]
    /\ guesses' = [guesses EXCEPT ![s] = Append(@, clock)]
    /\ UNCHANGED <<setup, climate, invites, accounts, codes, tokens, clock>>

\* The right password, first transaction: the failures are forgotten.  When the
\* second one, issue_authorization_code, does not follow, this is all.
ClearFailures(s) ==
    /\ Registry # {}
    /\ s <= accounts
    /\ ~Locked(s)
    /\ failures' = [failures EXCEPT ![s] = Calm]
    /\ guesses' = [guesses EXCEPT ![s] = <<>>]

SignInInterrupted(s) ==
    /\ ClearFailures(s)
    /\ failures[s] # Calm
    /\ UNCHANGED <<setup, climate, invites, accounts, codes, tokens, clock>>

\* issue_authorization_code.
SignIn(s, entry, redirect, requested) ==
    /\ Len(codes) < MaxCodes
    /\ ValidRequest(entry, redirect, requested)
    /\ ClearFailures(s)
    /\ codes' = Append(codes, [account |-> s, client |-> entry.client, redirect |-> redirect,
                               scope |-> Granted(entry, requested),
                               consumed |-> FALSE, expired |-> FALSE])
    /\ UNCHANGED <<setup, climate, invites, accounts, tokens, clock>>

-----------------------------------------------------------------------------
\* A row of oauth_tokens: parent is the code or the refresh token it came from.
Token(kind, grant, parent) ==
    [kind |-> kind, account |-> grant.account, client |-> grant.client, scope |-> grant.scope,
     parent |-> parent, revoked |-> FALSE, expired |-> FALSE]

\* _insert_token_pair.
WithPair(rows, grant, parent) ==
    rows \o <<Token("ACCESS", grant, parent), Token("REFRESH", grant, parent)>>

\* exchange_authorization_code, one transaction.
Exchange(c, entry, redirect) ==
    /\ Len(tokens) < MaxTokens
    /\ ~codes[c].consumed
    /\ ~codes[c].expired
    /\ codes[c].client = entry.client
    /\ redirect \in entry.redirects
    /\ codes[c].redirect = redirect
    /\ codes' = [codes EXCEPT ![c].consumed = TRUE]
    /\ tokens' = WithPair(tokens, codes[c], [kind |-> "code", at |-> c])
    /\ UNCHANGED <<setup, climate, invites, accounts, failures, guesses, clock>>

\* Mutant of Refresh: the refresh token is not rotated out.
RefreshKeeping(t, entry) ==
    /\ Len(tokens) < MaxTokens
    /\ tokens[t].kind = "REFRESH"
    /\ ~tokens[t].revoked
    /\ ~tokens[t].expired
    /\ tokens[t].client = entry.client
    /\ tokens' = WithPair(tokens, tokens[t], [kind |-> "token", at |-> t])
    /\ UNCHANGED <<setup, climate, invites, accounts, codes, failures, guesses, clock>>

\* refresh_access_token, one transaction.  Of the pair it belongs
\* to, only the refresh token is revoked.
Refresh(t, entry) ==
    /\ Len(tokens) < MaxTokens
    /\ tokens[t].kind = "REFRESH"
    /\ ~tokens[t].revoked
    /\ ~tokens[t].expired
    /\ tokens[t].client = entry.client
    /\ tokens' = WithPair([tokens EXCEPT ![t].revoked = TRUE],
                          tokens[t], [kind |-> "token", at |-> t])
    /\ UNCHANGED <<setup, climate, invites, accounts, codes, failures, guesses, clock>>

\* POST /oauth/token: a client with its own secret, one of two grants.
TokenRequest(entry) ==
    \/ \E c \in DOMAIN codes, redirect \in Https : Exchange(c, entry, redirect)
    \/ \E t \in DOMAIN tokens : Refresh(t, entry)

\* POST /oauth/revoke: only the token presented, and only by its client.
Revoke(t, entry) ==
    /\ ~tokens[t].revoked
    /\ tokens[t].client = entry.client
    /\ tokens' = [tokens EXCEPT ![t].revoked = TRUE]
    /\ UNCHANGED <<setup, climate, invites, accounts, codes, failures, guesses, clock>>

\* resolve_access_token: the tokens that open the user gateway.
Resolves(t) == tokens[t].kind = "ACCESS" /\ ~tokens[t].revoked /\ ~tokens[t].expired

-----------------------------------------------------------------------------
\* The lifetimes of invitations, codes and tokens end.
Lapse ==
    /\ "lapses" \in climate
    /\ \/ /\ \E i \in DOMAIN invites :
                 /\ ~invites[i].expired
                 /\ invites' = [invites EXCEPT ![i].expired = TRUE]
          /\ UNCHANGED <<codes, tokens>>
       \/ /\ \E c \in DOMAIN codes :
                 /\ ~codes[c].expired
                 /\ codes' = [codes EXCEPT ![c].expired = TRUE]
          /\ UNCHANGED <<invites, tokens>>
       \/ /\ \E t \in DOMAIN tokens :
                 /\ ~tokens[t].expired
                 /\ tokens' = [tokens EXCEPT ![t].expired = TRUE]
          /\ UNCHANGED <<invites, codes>>
    /\ UNCHANGED <<setup, climate, accounts, failures, guesses, clock>>

Tick ==
    /\ "guesses" \in climate
    /\ clock < MaxClock
    /\ clock' = clock + 1
    /\ UNCHANGED <<setup, climate, invites, accounts, codes, tokens, failures, guesses>>

IdentityNext ==
    \/ Invite
    \/ \E i \in DOMAIN invites : Enroll(i)
    \/ \E s \in Subject : WrongPassword(s) \/ SignInInterrupted(s)
    \/ \E entry \in Registry :
         \/ \E s \in Subject, redirect \in Https, requested \in SUBSET Scope :
               SignIn(s, entry, redirect, requested)
         \/ TokenRequest(entry)
         \/ \E t \in DOMAIN tokens : Revoke(t, entry)
    \/ Lapse
    \/ Tick

IdentitySpec == IdentityInit /\ [][IdentityNext]_identityVars

-----------------------------------------------------------------------------
IdentityTypeOK ==
    /\ setup \in Setups
    /\ climate \in Climates
    /\ \A i \in DOMAIN invites :
         /\ invites[i].account \in 0..accounts
         /\ invites[i].expired \in BOOLEAN
    /\ accounts \in 0..MaxInvites
    /\ \A c \in DOMAIN codes : codes[c].account \in 1..accounts
    /\ \A t \in DOMAIN tokens : tokens[t].kind \in {"ACCESS", "REFRESH"}
    /\ failures \in [Subject -> [count : 0..MaxGuesses, start : 0..MaxClock,
                                 until : 0..MaxClock + LockTime]]

\* Where a token comes from, step by step.
Ancestor[t \in DOMAIN tokens] ==
    IF tokens[t].parent.kind = "code" THEN tokens[t].parent.at ELSE Ancestor[tokens[t].parent.at]

\* Of the tokens that descend from one code at most one refresh token is
\* unrevoked, all are for the account, client and scope the code was issued
\* for, and no parent has two pairs: exchange_authorization_code and
\* refresh_access_token spend what they are given in the transaction that
\* makes its successor.
OneLiveRefresh ==
    /\ \A t, u \in DOMAIN tokens :
         /\ tokens[t].kind = "REFRESH" /\ tokens[u].kind = "REFRESH"
         /\ ~tokens[t].revoked /\ ~tokens[u].revoked
         /\ Ancestor[t] = Ancestor[u]
         => t = u
    /\ \A t, u \in DOMAIN tokens :
         tokens[t].parent = tokens[u].parent /\ tokens[t].kind = tokens[u].kind => t = u
    /\ \A t \in DOMAIN tokens :
         LET code == codes[Ancestor[t]]
         IN /\ code.consumed
            /\ tokens[t].account = code.account
            /\ tokens[t].client = code.client
            /\ tokens[t].scope = code.scope

\* Whatever resolves leads back to a provisioned credential: the token to a
\* registered client and scopes it may have, its account to the one invitation
\* that made it, the invitation to an owner or bootstrap credential that is
\* not shared with another surface.
GrantsAreBacked ==
    /\ \A a \in 1..accounts : Cardinality({i \in DOMAIN invites : invites[i].account = a}) = 1
    /\ invites # <<>> => OwnerProvisioned \/ BootstrapProvisioned
    /\ \A t \in DOMAIN tokens :
         Resolves(t) =>
            /\ tokens[t].account \in 1..accounts
            /\ \E entry \in Registry :
                 /\ entry.client = tokens[t].client
                 /\ tokens[t].scope \subseteq entry.scopes
                 /\ tokens[t].scope # {}

\* In no window of time can more than 2 * MaxFailures - 2 wrong passwords be
\* tried against a user who does not sign in meanwhile: the counter of
\* _record_auth_failure starts again when its own window is over, so that the
\* end of one window and the start of the next add up.
GuessesBounded ==
    LockTime >= Window =>
        \A s \in Subject, t \in 0..clock :
            Cardinality({g \in DOMAIN guesses[s] : guesses[s][g] \in t..(t + Window - 1)})
                <= 2 * MaxFailures - 2

-----------------------------------------------------------------------------
(* The invariant that the three rest on. *)

Clients == {entry.client : entry \in Registry}
ClientScopes == UNION {entry.scopes : entry \in Registry}
InviteRow == [account : Nat, expired : BOOLEAN]
CodeRow == [account : Nat, client : Clients, redirect : Https, scope : SUBSET ClientScopes,
            consumed : BOOLEAN, expired : BOOLEAN]
TokenRow == [kind : {"ACCESS", "REFRESH"}, account : Nat, client : Clients, scope : SUBSET ClientScopes,
             parent : [kind : {"code", "token"}, at : Nat], revoked : BOOLEAN, expired : BOOLEAN]

IdentityTyped ==
    /\ accounts \in Nat /\ clock \in Nat
    /\ invites \in Seq(InviteRow) /\ codes \in Seq(CodeRow) /\ tokens \in Seq(TokenRow)
    /\ failures \in [Subject -> [count : Nat, start : Nat, until : Nat]]
    /\ guesses \in [Subject -> Seq(Nat)]

\* An account was made by one invitation, and an invitation has a credential
\* behind it.
InvitesStand ==
    /\ invites # <<>> => OwnerProvisioned \/ BootstrapProvisioned
    /\ \A i \in DOMAIN invites : invites[i].account <= accounts
    /\ \A a \in 1..accounts : \E i \in DOMAIN invites : invites[i].account = a
    /\ \A i, j \in DOMAIN invites :
         invites[i].account = invites[j].account => i = j \/ invites[i].account = 0

\* A code was issued to an account, for a client and scopes that it may have.
CodesStand ==
    \A c \in DOMAIN codes :
        /\ codes[c].account \in 1..accounts
        /\ \E entry \in Registry :
             entry.client = codes[c].client /\ codes[c].scope \subseteq entry.scopes /\ codes[c].scope # {}

\* A pair of tokens comes from a code, or from an earlier refresh token that it
\* replaced.
TokensDescend ==
    /\ \A t \in DOMAIN tokens :
         IF tokens[t].parent.kind = "code" THEN tokens[t].parent.at \in DOMAIN codes
         ELSE tokens[t].parent.at \in 1..(t - 1) /\ tokens[tokens[t].parent.at].revoked
    /\ Ancestor \in [DOMAIN tokens -> DOMAIN codes]
    /\ \A t \in DOMAIN tokens :
         Ancestor[t] = IF tokens[t].parent.kind = "code" THEN tokens[t].parent.at
                       ELSE Ancestor[tokens[t].parent.at]

\* The wrong passwords against a user are counted in runs.  The last
\* failures[s].count of them are the run that began at failures[s].start; those
\* before, but for MaxFailures - 2 at most, are a window older; and a run that
\* reached MaxFailures holds the next guess off for a window.
GuessesCounted(s) ==
    LET n == Len(guesses[s])
        c == failures[s].count
    IN /\ c <= n /\ (c = 0 => n = 0)
       /\ \A i, j \in 1..n : i <= j => guesses[s][i] <= guesses[s][j]
       /\ n > 0 => guesses[s][n] <= clock /\ failures[s].start = guesses[s][n - c + 1]
       /\ c >= MaxFailures => failures[s].until = guesses[s][n] + LockTime
       /\ \A i \in 1..n : i <= n - c - MaxFailures + 2 => failures[s].start - guesses[s][i] >= Window
       /\ \A i, j \in 1..n : j - i >= 2 * MaxFailures - 2 => guesses[s][j] - guesses[s][i] >= Window

IdentityInv ==
    /\ IdentityTyped
    /\ InvitesStand
    /\ CodesStand
    /\ TokensDescend
    /\ OneLiveRefresh
    /\ LockTime >= Window => \A s \in Subject : GuessesCounted(s)
=============================================================================
