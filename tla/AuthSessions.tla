---------------------------- MODULE AuthSessions ----------------------------
(***************************************************************************)
(* Logins, sessions and wallets (server/src/services/auth.service.ts, its  *)
(* two controllers and auth.middleware.ts).  Requests run at the same time *)
(* and a handler's read and its later write are two steps; linkWallet,     *)
(* unlinkWallet and setPrimaryWallet lock the user's row in between.  A    *)
(* user is named after the address it was created for, which the database  *)
(* keeps unique.  Signatures are assumed to be those asked for, and        *)
(* labels, names and the tokens' own expiry are left out.                  *)
(***************************************************************************)
EXTENDS Naturals, Sequences, SequencesExt, FiniteSets

CONSTANTS
    Addresses,
    Requests,          \* requests that can be under way at once
    MaxChallenges,     \* bound: challenges asked for
    MaxAuthSessions    \* bound: sessions created

ASSUME AuthAssumption == IsFiniteSet(Requests) /\ "nobody" \notin Addresses

VARIABLES
    users,             \* User rows
    wallets,           \* each user's wallets, oldest first
    primary,           \* wallets with isPrimary
    challenge,         \* WalletChallenge rows
    authSession,       \* Session rows
    request            \* what each request under way has read

authVars == <<users, wallets, primary, challenge, authSession, request>>

LOGIN == "LOGIN"
LINK_WALLET == "LINK_WALLET"
NoRow == 0
Nobody == "nobody"
NoRequest == [op |-> "idle", user |-> Nobody, address |-> Nobody, row |-> NoRow,
         seen |-> <<>>, isPrimary |-> FALSE]

Owner(a) == {u \in users : a \in Range(wallets[u])}

\* authMiddleware, for any of the user's tokens.
Authenticated(u) == \E j \in DOMAIN authSession : authSession[j].user = u /\ ~authSession[j].revoked

\* Mutated forms of definitions below.
LockFree_Unlocked(u) == TRUE
Refreshable_Revoked(j) == TRUE

\* lockUserRow: SELECT ... FOR UPDATE, held to the end of the transaction.
LockFree(u) == \A r \in Requests : request[r].user # u

\* The row both verifySignature and linkWallet look for.
Answerable(c) == ~challenge[c].consumed /\ ~challenge[c].expired

Refreshable(j) == ~authSession[j].revoked

\* The user who asks, or else the wallet's, who may have just been created.
ChallengeUser(a, userId) ==
    CASE userId # Nobody -> userId
      [] userId = Nobody /\ Owner(a) = {} -> a
      [] OTHER -> CHOOSE u \in Owner(a) : TRUE

\* The bound on sessions, held by the requests that will create one.
MoreSessions ==
    Len(authSession) + Cardinality({r \in Requests : request[r].op \in {"verify", "verified", "refresh"}})
      < MaxAuthSessions

----------------------------------------------------------------------------

AuthInit ==
    /\ users = {}
    /\ wallets = [a \in Addresses |-> <<>>]
    /\ primary = {}
    /\ challenge = <<>>
    /\ authSession = <<>>
    /\ request = [r \in Requests |-> NoRequest]

NewSession(u, from, origin) ==
    [user |-> u, revoked |-> FALSE, from |-> from, origin |-> origin]

\* The upsert creates a user and its wallet for an address that has no wallet; it
\* fails when the address is another user's stellarAddress already.
generateChallenge(a, purpose, userId) ==
    /\ Len(challenge) < MaxChallenges
    /\ IF purpose = LOGIN THEN userId = Nobody ELSE userId \in users /\ Authenticated(userId)
    /\ IF Owner(a) # {} THEN UNCHANGED <<users, wallets, primary>>
       ELSE /\ a \notin users
            /\ users' = users \cup {a}
            /\ wallets' = [wallets EXCEPT ![a] = <<a>>]
            /\ primary' = primary \cup {a}
    /\ challenge' = Append(challenge,
         [user |-> ChallengeUser(a, userId), address |-> a, purpose |-> purpose,
          consumed |-> FALSE, expired |-> FALSE])
    /\ UNCHANGED <<authSession, request>>

ExpireChallenge(c) ==
    /\ c \in DOMAIN challenge /\ ~challenge[c].expired
    /\ challenge' = [challenge EXCEPT ![c].expired = TRUE]
    /\ UNCHANGED <<users, wallets, primary, authSession, request>>

\* Three queries: the challenge is found, marked consumed, and a session is
\* created for its user.
verifySignature(r, c) ==
    \/ /\ request[r] = NoRequest /\ MoreSessions
       /\ c \in DOMAIN challenge /\ Answerable(c)
       /\ request' = [request EXCEPT ![r] = [NoRequest EXCEPT !.op = "verify", !.row = c]]
       /\ UNCHANGED <<users, wallets, primary, challenge, authSession>>
    \/ /\ request[r] = [NoRequest EXCEPT !.op = "verify", !.row = c]
       /\ challenge' = [challenge EXCEPT ![c].consumed = TRUE]
       /\ request' = [request EXCEPT ![r].op = "verified"]
       /\ UNCHANGED <<users, wallets, primary, authSession>>
    \/ /\ request[r] = [NoRequest EXCEPT !.op = "verified", !.row = c]
       /\ authSession' = Append(authSession, NewSession(challenge[c].user, "challenge", c))
       /\ request' = [request EXCEPT ![r] = NoRequest]
       /\ UNCHANGED <<users, wallets, primary, challenge>>

\* The session is read, and then revoked and replaced in one transaction.
refreshTokens(r, j) ==
    \/ /\ request[r] = NoRequest /\ MoreSessions
       /\ j \in DOMAIN authSession /\ Refreshable(j)
       /\ request' = [request EXCEPT ![r] = [NoRequest EXCEPT !.op = "refresh", !.row = j]]
       /\ UNCHANGED <<users, wallets, primary, challenge, authSession>>
    \/ /\ request[r] = [NoRequest EXCEPT !.op = "refresh", !.row = j]
       /\ authSession' = Append([authSession EXCEPT ![j].revoked = TRUE],
                                NewSession(authSession[j].user, "session", j))
       /\ request' = [request EXCEPT ![r] = NoRequest]
       /\ UNCHANGED <<users, wallets, primary, challenge>>

\* revokeSession of the caller's own session.
logout(j) ==
    /\ j \in DOMAIN authSession /\ ~authSession[j].revoked
    /\ authSession' = [authSession EXCEPT ![j].revoked = TRUE]
    /\ UNCHANGED <<users, wallets, primary, challenge, request>>

revokeAllSessions(u) ==
    /\ Authenticated(u)
    /\ authSession' = [j \in DOMAIN authSession |->
                         [authSession[j] EXCEPT !.revoked = @ \/ authSession[j].user = u]]
    /\ UNCHANGED <<users, wallets, primary, challenge, request>>

----------------------------------------------------------------------------
(* Transactions on a user's wallets *)

\* The lock is taken, and the user's wallets are read under it.
Begin(r, op, u, a, c) ==
    /\ request[r] = NoRequest
    /\ u \in users /\ Authenticated(u) /\ LockFree(u)
    /\ request' = [request EXCEPT ![r] =
                     [op |-> op, user |-> u, address |-> a, row |-> c,
                      seen |-> wallets[u], isPrimary |-> a \in primary]]
    /\ UNCHANGED <<users, wallets, primary, challenge, authSession>>

\* A write that fails (a unique address taken meanwhile, a row that is gone)
\* undoes the transaction.
Abort(r) ==
    /\ request' = [request EXCEPT ![r] = NoRequest]
    /\ UNCHANGED <<users, wallets, primary, challenge, authSession>>

Doing(r, op, u, a) == request[r].op = op /\ request[r].user = u /\ request[r].address = a

linkWallet(r, u, a, c) ==
    \/ /\ Owner(a) = {}
       /\ c \in DOMAIN challenge /\ Answerable(c) /\ challenge[c].user = u
       /\ Begin(r, "link", u, a, c)
    \/ /\ Doing(r, "link", u, a) /\ request[r].row = c
       /\ \/ Owner(a) # {} /\ Abort(r)
          \/ /\ Owner(a) = {}
             /\ challenge' = [challenge EXCEPT ![c].consumed = TRUE]
             /\ wallets' = [wallets EXCEPT ![u] = Append(@, a)]
             /\ primary' = IF request[r].seen = <<>> THEN primary \cup {a} ELSE primary
             /\ request' = [request EXCEPT ![r] = NoRequest]
             /\ UNCHANGED <<users, authSession>>

\* A list without the row of an address.
Without(list, a) == RemoveAt(list, CHOOSE i \in DOMAIN list : list[i] = a)

\* The oldest of the other wallets becomes primary when a primary one goes.
Promoted(r) ==
    IF request[r].isPrimary THEN {Without(request[r].seen, request[r].address)[1]} ELSE {}

unlinkWallet(r, u, a) ==
    \/ /\ a \in Range(wallets[u]) /\ Len(wallets[u]) > 1
       /\ Begin(r, "unlink", u, a, NoRow)
    \/ /\ Doing(r, "unlink", u, a)
       /\ IF {a} \cup Promoted(r) \subseteq Range(wallets[u])
          THEN /\ wallets' = [wallets EXCEPT ![u] = Without(@, a)]
               /\ primary' = (primary \ {a}) \cup Promoted(r)
               /\ request' = [request EXCEPT ![r] = NoRequest]
               /\ UNCHANGED <<users, challenge, authSession>>
          ELSE Abort(r)

setPrimaryWallet(r, u, a) ==
    \/ /\ a \in Range(wallets[u])
       /\ Begin(r, "primary", u, a, NoRow)
    \/ /\ Doing(r, "primary", u, a)
       /\ IF a \in Range(wallets[u])
          THEN /\ primary' = (primary \ Range(wallets[u])) \cup {a}
               /\ request' = [request EXCEPT ![r] = NoRequest]
               /\ UNCHANGED <<users, wallets, challenge, authSession>>
          ELSE Abort(r)

WalletStep(r) ==
    \E u, a \in Addresses :
      \/ \E c \in 1 .. MaxChallenges : linkWallet(r, u, a, c)
      \/ unlinkWallet(r, u, a)
      \/ setPrimaryWallet(r, u, a)

SessionStep ==
    \/ \E r \in Requests :
         \/ \E c \in 1 .. MaxChallenges : verifySignature(r, c)
         \/ \E j \in 1 .. MaxAuthSessions : refreshTokens(r, j)
    \/ \E j \in 1 .. MaxAuthSessions : logout(j)
    \/ \E u \in users : revokeAllSessions(u)
    \/ \E a \in Addresses, p \in {LOGIN, LINK_WALLET}, u \in Addresses \cup {Nobody} :
         generateChallenge(a, p, u)
    \/ \E c \in 1 .. MaxChallenges : ExpireChallenge(c)

AuthNext == SessionStep \/ \E r \in Requests : WalletStep(r)

AuthSpec == AuthInit /\ [][AuthNext]_authVars

\* A request that has started runs to its end, and a client that asked for a
\* challenge to link a wallet answers it.
AuthFairness ==
    /\ \A r \in Requests : WF_authVars(AuthNext /\ request[r] # NoRequest /\ request'[r] = NoRequest)
    /\ \A c \in 1 .. MaxChallenges :
         WF_authVars(\E r \in Requests, u, a \in Addresses :
            c \in DOMAIN challenge /\ a = challenge[c].address /\ linkWallet(r, u, a, c))

AuthFairSpec == AuthSpec /\ AuthFairness

----------------------------------------------------------------------------
(* Properties *)

AuthTypeOK ==
    /\ users \subseteq Addresses
    /\ wallets \in [Addresses -> Seq(Addresses)]
    /\ primary \subseteq Addresses
    /\ \A c \in DOMAIN challenge :
         challenge[c] \in [user : users, address : Addresses, purpose : {LOGIN, LINK_WALLET},
                           consumed : BOOLEAN, expired : BOOLEAN]
    /\ \A j \in DOMAIN authSession :
         /\ authSession[j].user \in users
         /\ authSession[j].origin \in IF authSession[j].from = "session" THEN 1 .. (j - 1)
                                      ELSE DOMAIN challenge
    /\ \A r \in Requests : request[r].user \in users \cup {Nobody}

\* However links, unlinks, changes of the primary wallet and new users overlap,
\* every user keeps a wallet to log in with, exactly one of its wallets is
\* primary, and no address belongs to two users or twice to one.
OnePrimaryWallet ==
    /\ \A u \in users :
         /\ Cardinality(Range(wallets[u]) \cap primary) = 1
         /\ IsInjective(wallets[u])
    /\ \A a \in Addresses : Cardinality(Owner(a)) <= 1
    /\ primary \subseteq UNION {Range(wallets[u]) : u \in users}

\* A challenge or refresh token that was spent yields nothing later: an answer
\* sent again starts no session, a session that was replaced is revoked and
\* replaced no more, however logouts come between.  Requests under way together
\* may each spend it (verifySignature, refreshTokens).
SpentTokensStaySpent ==
    LET Born(from, i) == {j \in DOMAIN authSession :
                            authSession[j].from = from /\ authSession[j].origin = i}
    IN /\ \A c \in DOMAIN challenge :
            Cardinality(Born("challenge", c)) <= Cardinality(Requests)
       /\ \A j \in DOMAIN authSession :
            /\ Born("session", j) # {} => authSession[j].revoked
            /\ Cardinality(Born("session", j)) <= Cardinality(Requests)

----------------------------------------------------------------------------
(* What a document of the repository says and the code does not do *)

\* migration_issues.md: POST /api/wallets/challenge generates the challenge for
\* linking a new wallet.  So a challenge for an address nobody has asked about
\* before, that does not expire while its user stays logged in and answers it,
\* does not stay open for ever.
ChallengesLinkWallets ==
    \A c \in 1 .. MaxChallenges :
       ~<>[](/\ c \in DOMAIN challenge
             /\ challenge[c].purpose = LINK_WALLET /\ Answerable(c)
             /\ \A d \in DOMAIN challenge \ {c} : challenge[d].address # challenge[c].address
             /\ Authenticated(challenge[c].user))
=============================================================================
