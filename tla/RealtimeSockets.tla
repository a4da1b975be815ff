--------------------------- MODULE RealtimeSockets ---------------------------
(***************************************************************************)
(* The sockets between a page of the frontend and the server: the hook     *)
(* useWebSocket, which gives up after MAX_FAILURES, the effect of          *)
(* useDashboard, which does not, and WsState of websocket.service.ts,      *)
(* which pings its connections and drops the ones that do not answer.      *)
(* Either end learns late, or never, that the other is gone.  The          *)
(* repository declares addConnection without a caller, so who accepts a    *)
(* socket is external.  What is sent over a socket is left out.            *)
(***************************************************************************)
EXTENDS Naturals, FiniteSets

CONSTANTS
    Pages,             \* mounted components with a socket
    RiskPages,         \* those that use useWebSocket
    MaxSockets,        \* bound: sockets of a page that either end still knows
    MAX_FAILURES,
    MaxChanges         \* bound: wallet changes and unmounts of a page

ASSUME SocketAssumption == MaxSockets \in Nat /\ MAX_FAILURES \in Nat \ {0}

VARIABLES
    effect,            \* each page's effect: running, its ws, timer and failures
    connected,         \* React state
    connectionFailed,  \* React state of a risk page
    wire,              \* each socket as its page sees it
    handlers,          \* the sockets with handlers
    connections,       \* WsState: the server's set of sockets
    isAlive,           \* WsState: those that answered the last ping
    changes

socketVars == <<effect, connected, connectionFailed, wire, handlers, connections, isAlive, changes>>

Sockets == Pages \X (1 .. MaxSockets)
NoSocket == <<"no page", 0>>
Stopped == [running |-> FALSE, ws |-> NoSocket, timer |-> FALSE, failures |-> 0]

\* Mutated forms of definitions below.
GivesUp_OneMore(p, n) == p \in RiskPages /\ n > MAX_FAILURES
Answered_Always == connections
Closed_LeftOpen(p) == wire
Failures_Forgotten(p) == 1

\* Sockets of the page that both ends are done with.
Free(p) == {s \in Sockets : s[1] = p /\ wire[s] = "closed"} \ connections

\* consecutiveFailures >= MAX_FAILURES, in useWebSocket only.
GivesUp(p, n) == p \in RiskPages /\ n >= MAX_FAILURES

\* ws.close() in the effect's clean-up; the close itself comes later.
Closed(p) == IF effect[p].ws = NoSocket THEN wire ELSE [wire EXCEPT ![effect[p].ws] = "closing"]

\* consecutiveFailures += 1.
Failures(p) == effect[p].failures + 1

\* setConnected(false) in onclose.
Dropped(p) == [connected EXCEPT ![p] = FALSE]

\* Connections that the sweep keeps, with isAlive as the last pong left it.
Answered == connections \cap isAlive

----------------------------------------------------------------------------

SocketInit ==
    /\ effect = [p \in Pages |-> Stopped]
    /\ connected = [p \in Pages |-> FALSE]
    /\ connectionFailed = [p \in Pages |-> FALSE]
    /\ wire = [s \in Sockets |-> "closed"]
    /\ handlers = {}
    /\ connections = {}
    /\ isAlive = {}
    /\ changes = 0

wsVars == <<connections, isAlive>>

\* connect() once the page's old socket is as given: a new socket, whose handlers
\* are those of this run of the effect.
Connects(p, oldWire, oldHandlers, run) ==
    \E s \in Free(p) :
      /\ wire' = [oldWire EXCEPT ![s] = "connecting"]
      /\ handlers' = oldHandlers \cup {s}
      /\ effect' = [effect EXCEPT ![p] = [run EXCEPT !.ws = s, !.timer = FALSE]]

Detached(p) == handlers \ {effect[p].ws}

\* The effect runs, after the clean-up of the last one if it was running: the page
\* is mounted, or its walletAddress has changed.
RunEffect(p) ==
    /\ changes < MaxChanges
    /\ changes' = changes + 1
    /\ Connects(p, Closed(p), Detached(p), [Stopped EXCEPT !.running = TRUE])
    /\ connected' = [connected EXCEPT ![p] = FALSE]
    /\ UNCHANGED <<connectionFailed, wsVars>>

\* The clean-up alone: walletAddress is null, or the page is gone with its state.
CleanUp(p, unmounted) ==
    /\ effect[p].running /\ (unmounted \/ p \in RiskPages)
    /\ effect' = [effect EXCEPT ![p] = Stopped]
    /\ wire' = Closed(p)
    /\ handlers' = Detached(p)
    /\ connected' = [connected EXCEPT ![p] = FALSE]
    /\ connectionFailed' = IF unmounted THEN [connectionFailed EXCEPT ![p] = FALSE]
                           ELSE connectionFailed
    /\ UNCHANGED <<wsVars, changes>>

\* reconnectTimer fires.
Reconnect(p) ==
    /\ effect[p].timer
    /\ Connects(p, wire, handlers, effect[p])
    /\ UNCHANGED <<connected, connectionFailed, wsVars, changes>>

\* A manual refresh of the dashboard: connectionResetRef.
Refresh(p) ==
    /\ p \notin RiskPages /\ effect[p].running /\ effect[p].failures > 0
    /\ effect' = [effect EXCEPT ![p].failures = 0]
    /\ UNCHANGED <<connected, connectionFailed, wire, handlers, wsVars, changes>>

onopen(s) ==
    /\ wire[s] = "accepted" /\ s \in handlers
    /\ wire' = [wire EXCEPT ![s] = "open"]
    /\ effect' = [effect EXCEPT ![s[1]].failures = 0]
    /\ connected' = [connected EXCEPT ![s[1]] = TRUE]
    /\ connectionFailed' = [connectionFailed EXCEPT ![s[1]] = FALSE]
    /\ UNCHANGED <<handlers, wsVars, changes>>

\* The socket is refused, reset or found dead.  Failures beyond MAX_FAILURES make
\* no difference, so the dashboard's counter stops there.
onclose(s) ==
    /\ wire[s] # "closed"
    /\ wire' = [wire EXCEPT ![s] = "closed"]
    /\ handlers' = handlers \ {s}
    /\ LET p == s[1]
           n == Failures(p)
       IN IF s \notin handlers THEN UNCHANGED <<effect, connected, connectionFailed>>
          ELSE /\ connected' = Dropped(p)
               /\ connectionFailed' = [connectionFailed EXCEPT ![p] = @ \/ GivesUp(p, n)]
               /\ effect' = [effect EXCEPT ![p].ws = NoSocket, ![p].timer = ~GivesUp(p, n),
                                           ![p].failures = IF p \notin RiskPages /\ n > MAX_FAILURES THEN @ ELSE n]
    /\ UNCHANGED <<wsVars, changes>>

----------------------------------------------------------------------------
(* The server *)

addConnection(s) ==
    /\ wire[s] = "connecting"
    /\ wire' = [wire EXCEPT ![s] = "accepted"]
    /\ connections' = connections \cup {s}
    /\ isAlive' = isAlive \cup {s}
    /\ UNCHANGED <<effect, connected, connectionFailed, handlers, changes>>

Pong(s) ==
    /\ s \in connections \ isAlive /\ wire[s] = "open"
    /\ isAlive' = isAlive \cup {s}
    /\ UNCHANGED <<effect, connected, connectionFailed, wire, handlers, connections, changes>>

\* The server hears of the close, or of an error.
ServerClose(s) ==
    /\ s \in connections /\ wire[s] \in {"closing", "closed"}
    /\ connections' = connections \ {s}
    /\ isAlive' = isAlive \ {s}
    /\ UNCHANGED <<effect, connected, connectionFailed, wire, handlers, changes>>

\* The interval of 30 seconds.
PingInterval ==
    /\ connections # {}
    /\ connections' = Answered
    /\ isAlive' = {}
    /\ UNCHANGED <<effect, connected, connectionFailed, wire, handlers, changes>>

\* The server stops, and another one starts.
cleanup ==
    /\ connections # {}
    /\ connections' = {} /\ isAlive' = {}
    /\ UNCHANGED <<effect, connected, connectionFailed, wire, handlers, changes>>

SocketNext ==
    \/ \E p \in Pages :
         \/ RunEffect(p)
         \/ \E unmounted \in BOOLEAN : CleanUp(p, unmounted)
         \/ Reconnect(p)
         \/ Refresh(p)
    \/ \E s \in Sockets :
         \/ onopen(s) \/ onclose(s)
         \/ addConnection(s) \/ Pong(s) \/ ServerClose(s)
    \/ PingInterval
    \/ cleanup

SocketSpec == SocketInit /\ [][SocketNext]_socketVars

\* Timers fire on both ends, and a socket that cannot connect, or whose connection
\* the server has dropped, is found to be closed.  Nobody is bound to accept a
\* socket, to answer a ping or to hear of a close.
SocketFairness ==
    /\ \A p \in Pages : WF_socketVars(Reconnect(p))
    /\ \A s \in Sockets : WF_socketVars((wire[s] = "closing" \/ s \notin connections) /\ onclose(s))
    /\ \A s \in Sockets : WF_socketVars(onopen(s))
    /\ WF_socketVars(PingInterval)

SocketFairSpec == SocketSpec /\ SocketFairness

----------------------------------------------------------------------------
(* Properties *)

SocketTypeOK ==
    /\ effect \in [Pages -> [running : BOOLEAN, ws : Sockets \cup {NoSocket},
                             timer : BOOLEAN, failures : 0 .. MAX_FAILURES]]
    /\ connected \in [Pages -> BOOLEAN] /\ connectionFailed \in [Pages -> BOOLEAN]
    /\ wire \in [Sockets -> {"closed", "connecting", "accepted", "open", "closing"}]
    /\ handlers \subseteq Sockets
    /\ connections \subseteq Sockets /\ isAlive \subseteq connections

\* Through changes of wallet, unmounts and reconnects, a page that does not run its
\* effect leaves no socket behind, and one that does has at most the one it knows
\* of, and no timer for another.  It says it is connected only while that socket is
\* open, and says it has failed once it has stopped trying.
PageMatchesSocket ==
    /\ \A s \in Sockets :
         wire[s] \notin {"closing", "closed"} =>
            effect[s[1]].running /\ effect[s[1]].ws = s /\ ~effect[s[1]].timer
    /\ \A p \in Pages :
         /\ effect[p].ws # NoSocket => wire[effect[p].ws] \notin {"closing", "closed"}
         /\ connected[p] => effect[p].ws # NoSocket /\ wire[effect[p].ws] = "open"
         /\ effect[p].running /\ effect[p].ws = NoSocket /\ ~effect[p].timer => connectionFailed[p]

\* A connection whose page is gone does not stay in the server's set: the second
\* sweep removes it, even if its close is never heard.
DeadConnectionsLeave ==
    \A s \in Sockets : s \in connections /\ wire[s] = "closed" ~> s \notin connections

\* A risk page does not go on trying for ever: again and again it is connected, or
\* says that it has failed, or is without a wallet.
RiskPagesSettle ==
    \A p \in RiskPages : []<>(connected[p] \/ connectionFailed[p] \/ ~effect[p].running)
=============================================================================
