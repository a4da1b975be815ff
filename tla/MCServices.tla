----------------------------- MODULE MCServices -----------------------------
(***************************************************************************)
(* The parts of Services, one at a time, which is enough since no part     *)
(* reads or writes another's variables: a behaviour of the instance        *)
(* is one of the part it starts in, and the variables of the others keep   *)
(* their initial values.  Logins and wallets are told apart as well:       *)
(* "sessions" has one user, and "wallets" one session and no expiry, which *)
(* is tested there as it is in "sessions".                                 *)
(***************************************************************************)
EXTENDS Services

CONSTANTS
    a1, a2, r1, r2, o1, o2, k1, k2, d1, e1, risk, dash

VARIABLE part

Sessions ==
    /\ part = "sessions"
    /\ AuthNext
    /\ users' \subseteq {a1} /\ Len(challenge') <= 2
    /\ \A r \in Requests : request'[r].op \notin {"link", "unlink", "primary"}

Wallets ==
    /\ part = "wallets"
    /\ AuthNext
    /\ Len(authSession') <= 1
    /\ \A c \in DOMAIN challenge' : ~challenge'[c].expired
    /\ \A r \in Requests : request'[r].op # "refresh"

ServicesInit ==
    /\ AuthInit /\ OracleInit /\ MirrorInit /\ SocketInit
    /\ part \in {"sessions", "wallets", "oracles", "mirror", "sockets"}

ServicesNext ==
    \/ Sessions /\ UNCHANGED <<oracleVars, mirrorVars, socketVars, part>>
    \/ Wallets /\ UNCHANGED <<oracleVars, mirrorVars, socketVars, part>>
    \/ part = "oracles" /\ OracleNext /\ UNCHANGED <<authVars, mirrorVars, socketVars, part>>
    \/ part = "mirror" /\ MirrorNext /\ UNCHANGED <<authVars, oracleVars, socketVars, part>>
    \/ part = "sockets" /\ SocketNext /\ UNCHANGED <<authVars, oracleVars, mirrorVars, part>>

ServicesSpec ==
    /\ ServicesInit /\ [][ServicesNext]_<<servicesVars, part>>
    /\ MirrorFairness /\ SocketFairness
=============================================================================
