--------------------------- MODULE TerminalClient ---------------------------
(***************************************************************************)
(* The terminal page in the browser (resources/js/terminal.js and          *)
(* terminal-connection.js): it keeps one websocket to the terminal server, *)
(* reconnects with a limited number of attempts, and starts a session by   *)
(* sending the single-use token that Coolify issued for it.                *)
(*                                                                         *)
(* An action is one event handler or timer.  The server is the             *)
(* environment: it may answer, stay silent or close the connection.        *)
(***************************************************************************)
EXTENDS Naturals

CONSTANTS
    MaxReconnects,  \* maxReconnectAttempts
    MaxMisses,      \* maxHeartbeatMisses
    MaxTokens,      \* bound: tokens that Coolify issues
    MaxStarts       \* bound: session starts without a token yet

ASSUME BoundsAssumption ==
    /\ MaxReconnects \in Nat \ {0}
    /\ MaxMisses \in Nat \ {0}
    /\ MaxTokens \in Nat
    /\ MaxStarts \in Nat

VARIABLES
    ws,              \* readyState of the socket: "closed" before the first one,
                     \* "aborting" when it is closed before it was open
    connectionState,
    reconnectAttempts,
    timers,          \* the armed timers of the connection
    heartbeatMissed,
    starting,        \* the page shows "connecting"
    terminalActive,  \* the page shows a running terminal
    connectionError, \* the page shows an error that asks to try again
    authRejected,
    pendingCommand,  \* the token that waits for the socket, 0 when none does
    sent,            \* tokens sent to the server
    issued,          \* number of tokens issued
    starts,          \* number of starts without a token
    redeeming,       \* the tokens that the server redeems on this connection
    running,         \* the server runs a PTY for this connection
    creatable,       \* new WebSocket accepts the address of the page, or throws
    quiet,           \* history: the server closed cleanly, so nothing reconnects
    revived,         \* history: this start has no limit any more (see below)
    told,            \* history: tokens that waited when the page asked the user to retry
    tab,             \* whether the tab is visible, and was connected when hidden
    cleaned          \* the page was left

timerVars == <<timers, heartbeatMissed>>
serverVars == <<redeeming, running>>
connVars == <<ws, connectionState, reconnectAttempts, authRejected, serverVars, quiet>>
pageVars == <<starting, terminalActive, connectionError, revived, told>>
tokenVars == <<pendingCommand, sent, issued, starts>>
vars == <<timerVars, connVars, pageVars, tokenVars, tab, cleaned, creatable>>

Token == 1..MaxTokens
\* "first" is the initial delay, "ping" the monitoring of pongs, "probe" the
\* short check after the tab became visible, "start" the session start limit.
Timer == {"first", "connect", "reconnect", "keepalive", "ping", "probe", "start"}
ConnectionTimers == {"connect", "reconnect", "keepalive", "ping", "probe"}

TypeOK ==
    /\ ws \in {"connecting", "open", "closing", "aborting", "closed"}
    /\ connectionState \in {"disconnected", "connecting", "connected", "reconnecting"}
    /\ reconnectAttempts \in 0..MaxReconnects
    /\ timers \subseteq Timer
    /\ heartbeatMissed \in 0..MaxMisses
    /\ starting \in BOOLEAN /\ terminalActive \in BOOLEAN
    /\ connectionError \in BOOLEAN /\ authRejected \in BOOLEAN
    /\ pendingCommand \in Token \cup {0}
    /\ sent \subseteq Token
    /\ issued \in 0..MaxTokens
    /\ starts \in 0..MaxStarts
    /\ redeeming \subseteq Token /\ running \in BOOLEAN
    /\ tab \in {"visible", "hidden", "hidden_connected"}
    /\ quiet \in BOOLEAN /\ revived \in BOOLEAN /\ told \subseteq Token
    /\ cleaned \in BOOLEAN /\ creatable \in BOOLEAN

\* A page with data-auto-start shows "connecting" at once, with its limit.
Init ==
    /\ ws = "closed"
    /\ connectionState = "disconnected"
    /\ reconnectAttempts = 0
    /\ starting \in BOOLEAN
    /\ timers = {"first"} \cup (IF starting THEN {"start"} ELSE {})
    /\ heartbeatMissed = 0
    /\ terminalActive = FALSE
    /\ connectionError = FALSE /\ authRejected = FALSE
    /\ pendingCommand = 0
    /\ sent = {}
    /\ issued = 0
    /\ starts = 0
    /\ redeeming = {} /\ running = FALSE
    /\ tab = "visible"
    /\ quiet = FALSE /\ revived = FALSE /\ told = {}
    /\ cleaned = FALSE /\ creatable \in BOOLEAN

-----------------------------------------------------------------------------
(* Shared steps of the handlers. *)

\* isTerminalSessionPending
SessionPending == starting /\ ~terminalActive

\* isWebSocketReady
Ready == connectionState = "connected" /\ ws = "open"

\* failTerminalConnection, without the start timer: the page asks to try again.
Fail ==
    /\ starting' = FALSE
    /\ connectionError' = TRUE
    /\ told' = told \cup ({pendingCommand} \ {0})

\* Mutant: reconnects without a limit.
ScheduleReconnect_unlimited(attempts, left) ==
    IF ~authRejected
    THEN timers' = left \cup {"reconnect"} /\ connectionState' = "reconnecting"
    ELSE timers' = left /\ connectionState' = "disconnected"

\* scheduleReconnect, called when the socket is gone.
ScheduleReconnect(attempts, left) ==
    IF ~authRejected /\ attempts < MaxReconnects
    THEN timers' = left \cup {"reconnect"} /\ connectionState' = "reconnecting"
    ELSE timers' = left /\ connectionState' = "disconnected"

\* handleConnectionError: the constructor threw, so there is no socket, and none
\* was ever rejected.  A token that waits is kept.
NotCreated(attempts, left, shown, error) ==
    /\ \/ /\ (shown /\ ~terminalActive) \/ attempts >= 2 \/ attempts >= MaxReconnects
          /\ Fail
          /\ ScheduleReconnect(attempts, left \ {"start"})
       \/ /\ ~(shown /\ ~terminalActive) /\ attempts < 2 /\ attempts < MaxReconnects
          /\ starting' = shown /\ connectionError' = error
          /\ ScheduleReconnect(attempts, left)
          /\ UNCHANGED told
    /\ UNCHANGED <<ws, serverVars, quiet>>

\* Mutant: a new connection leaves the timers of the last one armed.
Connecting_keepsTimers(attempts, left, shown, error) ==
    /\ reconnectAttempts' = attempts
    /\ \/ /\ creatable
          /\ ws' = "connecting" /\ connectionState' = "connecting"
          /\ timers' = left \cup {"connect"}
          /\ starting' = shown /\ connectionError' = error
          /\ redeeming' = {} /\ running' = FALSE /\ quiet' = FALSE
          /\ UNCHANGED told
       \/ ~creatable /\ NotCreated(attempts, left, shown, error)

\* initializeWebSocket without the socket still open: all timers of the
\* connection are cleared.  The arguments are the attempts, the timers and what
\* the page shows (starting, connectionError) when it is called.
Connecting(attempts, left, shown, error) ==
    /\ reconnectAttempts' = attempts
    /\ \/ /\ creatable
          /\ ws' = "connecting" /\ connectionState' = "connecting"
          /\ timers' = (left \ ConnectionTimers) \cup {"connect"}
          /\ starting' = shown /\ connectionError' = error
          /\ redeeming' = {} /\ running' = FALSE /\ quiet' = FALSE
          /\ UNCHANGED told
       \/ ~creatable /\ NotCreated(attempts, left \ ConnectionTimers, shown, error)

-----------------------------------------------------------------------------
(* The connection. *)

\* The first connection, 100 ms after the page was set up.
FirstConnection ==
    /\ "first" \in timers
    /\ IF ws = "closed"
       THEN /\ Connecting(reconnectAttempts, timers \ {"first"}, starting, connectionError)
            /\ UNCHANGED <<authRejected, terminalActive, revived>>
       ELSE timers' = timers \ {"first"} /\ UNCHANGED <<connVars, pageVars>>
    /\ UNCHANGED <<heartbeatMissed, tokenVars, tab, cleaned, creatable>>

\* handleSocketOpen: a waiting token is sent, without a new start limit.
SocketOpens ==
    /\ ws = "connecting"
    /\ ws' = "open"
    /\ connectionState' = "connected"
    /\ reconnectAttempts' = 0
    /\ heartbeatMissed' = 0
    /\ timers' = (timers \ {"connect"}) \cup {"keepalive", "ping"}
    /\ pendingCommand' = 0
    /\ IF pendingCommand # 0
       THEN /\ sent' = sent \cup {pendingCommand}
            /\ redeeming' = {pendingCommand}
            /\ starting' = TRUE
            /\ revived' = (revived \/ connectionError)
            /\ connectionError' = FALSE
       ELSE UNCHANGED <<sent, redeeming, starting, revived, connectionError>>
    /\ UNCHANGED <<authRejected, running, quiet, terminalActive, told, issued, starts, tab,
                   cleaned, creatable>>

\* The connection timer: report the failure and close the socket.
ConnectTimeout ==
    /\ "connect" \in timers
    /\ connectionState = "connecting"
    /\ ws' = "aborting"
    /\ IF SessionPending
       THEN Fail /\ timers' = timers \ {"connect", "start"}
       ELSE timers' = timers \ {"connect"} /\ UNCHANGED <<starting, connectionError, told>>
    /\ UNCHANGED <<connectionState, reconnectAttempts, authRejected, serverVars, quiet,
                   terminalActive, revived, heartbeatMissed, tokenVars, tab, cleaned,
                   creatable>>

\* handleSocketClose with a code of an authentication rejection.
ClosedRejected ==
    /\ ws \in {"open", "closing"}
    /\ ws' = "closed"
    /\ connectionState' = "disconnected"
    /\ timers' = timers \ (ConnectionTimers \cup {"start"})
    /\ authRejected' = TRUE
    /\ pendingCommand' = 0
    /\ terminalActive' = FALSE
    /\ Fail
    /\ redeeming' = {} /\ running' = FALSE
    /\ UNCHANGED <<reconnectAttempts, heartbeatMissed, quiet, revived, sent, issued,
                   starts, tab, cleaned, creatable>>

\* handleSocketClose with code 1000.
ClosedNormally ==
    /\ ws \in {"open", "closing"}
    /\ ws' = "closed"
    /\ connectionState' = "disconnected"
    /\ timers' = timers \ ConnectionTimers
    /\ redeeming' = {} /\ running' = FALSE
    /\ quiet' = TRUE
    /\ UNCHANGED <<reconnectAttempts, heartbeatMissed, authRejected, pageVars, tokenVars,
                   tab, cleaned, creatable>>

\* Mutant: the user is not told after the last attempt.
ClosedUnexpectedly_silent ==
    /\ ws # "closed"
    /\ ws' = "closed"
    /\ IF SessionPending
       THEN Fail /\ ScheduleReconnect(reconnectAttempts, timers \ (ConnectionTimers \cup {"start"}))
       ELSE /\ ScheduleReconnect(reconnectAttempts, timers \ ConnectionTimers)
            /\ UNCHANGED <<starting, connectionError, told>>
    /\ terminalActive' = (terminalActive /\ reconnectAttempts = 0)
    /\ pendingCommand' = IF reconnectAttempts > 0 THEN 0 ELSE pendingCommand
    /\ redeeming' = {} /\ running' = FALSE
    /\ UNCHANGED <<reconnectAttempts, heartbeatMissed, authRejected, quiet, revived,
                   sent, issued, starts, tab, cleaned, creatable>>

\* Mutant: resetTerminal leaves the token that waits.
ClosedUnexpectedly_keepsToken ==
    /\ ws # "closed"
    /\ ws' = "closed"
    /\ IF SessionPending \/ reconnectAttempts >= MaxReconnects
       THEN Fail /\ ScheduleReconnect(reconnectAttempts, timers \ (ConnectionTimers \cup {"start"}))
       ELSE /\ ScheduleReconnect(reconnectAttempts, timers \ ConnectionTimers)
            /\ UNCHANGED <<starting, connectionError, told>>
    /\ terminalActive' = (terminalActive /\ reconnectAttempts = 0)
    /\ redeeming' = {} /\ running' = FALSE
    /\ UNCHANGED <<reconnectAttempts, heartbeatMissed, authRejected, quiet, revived,
                   pendingCommand, sent, issued, starts, tab, cleaned, creatable>>

\* Any other close, with or without handleSocketError before it.  After the first
\* attempt resetTerminal drops the token that waits.
ClosedUnexpectedly ==
    /\ ws # "closed"
    /\ ws' = "closed"
    /\ IF SessionPending \/ reconnectAttempts >= MaxReconnects
       THEN Fail /\ ScheduleReconnect(reconnectAttempts, timers \ (ConnectionTimers \cup {"start"}))
       ELSE /\ ScheduleReconnect(reconnectAttempts, timers \ ConnectionTimers)
            /\ UNCHANGED <<starting, connectionError, told>>
    /\ terminalActive' = (terminalActive /\ reconnectAttempts = 0)
    /\ pendingCommand' = IF reconnectAttempts > 0 THEN 0 ELSE pendingCommand
    /\ redeeming' = {} /\ running' = FALSE
    /\ UNCHANGED <<reconnectAttempts, heartbeatMissed, authRejected, quiet, revived,
                   sent, issued, starts, tab, cleaned, creatable>>

ReconnectTimer ==
    /\ "reconnect" \in timers
    /\ Connecting(reconnectAttempts + 1, timers, starting, connectionError)
    /\ UNCHANGED <<heartbeatMissed, authRejected, terminalActive, revived, tokenVars, tab,
                   cleaned, creatable>>

-----------------------------------------------------------------------------
(* Heartbeat. *)

\* keepAlive on an open socket and its pong: monitoring starts again.
Pong ==
    /\ ws = "open"
    /\ {"keepalive", "probe"} \cap timers # {}
    /\ heartbeatMissed' = 0
    /\ timers' = (timers \ {"probe"}) \cup {"ping"}
    /\ UNCHANGED <<connVars, pageVars, tokenVars, tab, cleaned, creatable>>

\* No pong in time.
PingTimeout ==
    /\ "ping" \in timers
    /\ heartbeatMissed' = heartbeatMissed + 1
    /\ timers' = timers \ {"ping"}
    /\ ws' = IF heartbeatMissed + 1 >= MaxMisses /\ ws = "open" THEN "closing" ELSE ws
    /\ UNCHANGED <<connectionState, reconnectAttempts, authRejected, serverVars, quiet,
                   pageVars, tokenVars, tab, cleaned, creatable>>

\* handleVisibilityChange: a hidden tab pauses the monitoring.
Hidden ==
    /\ tab = "visible"
    /\ tab' = IF connectionState = "connected" THEN "hidden_connected" ELSE "hidden"
    /\ timers' = timers \ {"ping", "probe"}
    /\ UNCHANGED <<heartbeatMissed, connVars, pageVars, tokenVars, cleaned, creatable>>

\* Mutant: a visible tab reconnects after a rejection too.
ReconnectAtOnce_rejected ==
    /\ connectionState # "connected"
    /\ IF ws = "closed"
       THEN Connecting(0, timers, starting, connectionError)
       ELSE /\ reconnectAttempts' = 0
            /\ UNCHANGED <<ws, connectionState, timers, serverVars, quiet, starting,
                           connectionError, told>>
    /\ UNCHANGED <<heartbeatMissed, authRejected, terminalActive, revived>>

\* The tab was connected when it was hidden, and is not any more.
ReconnectAtOnce ==
    /\ connectionState # "connected" /\ ~authRejected
    /\ IF ws = "closed"
       THEN Connecting(0, timers, starting, connectionError)
       ELSE /\ reconnectAttempts' = 0
            /\ UNCHANGED <<ws, connectionState, timers, serverVars, quiet, starting,
                           connectionError, told>>
    /\ UNCHANGED <<heartbeatMissed, authRejected, terminalActive, revived>>

\* A visible tab that was connected probes the connection, or reconnects at
\* once with all attempts.
Visible ==
    /\ tab # "visible"
    /\ tab' = "visible"
    /\ \/ /\ tab = "hidden_connected" /\ ws = "open"
          /\ heartbeatMissed' = 0
          /\ timers' = (timers \ {"ping"}) \cup {"probe"}
          /\ UNCHANGED <<connVars, pageVars>>
       \/ tab = "hidden_connected" /\ ws # "open" /\ ReconnectAtOnce
       \/ /\ \/ tab = "hidden"
             \/ ws # "open" /\ (connectionState = "connected" \/ authRejected)
          /\ UNCHANGED <<connVars, timerVars, pageVars>>
    /\ UNCHANGED <<tokenVars, cleaned, creatable>>

\* The probe was not answered within five seconds.
ProbeTimeout ==
    /\ "probe" \in timers
    /\ timers' = timers \ {"probe"}
    /\ ws' = IF ws = "open" THEN "closing" ELSE ws
    /\ UNCHANGED <<connectionState, reconnectAttempts, authRejected, serverVars, quiet,
                   heartbeatMissed, pageVars, tokenVars, tab, cleaned, creatable>>
-----------------------------------------------------------------------------
(* Session starts. *)

\* Mutant: a start without the limit.
Begin_unlimited(now) ==
    /\ revived' = FALSE
    /\ authRejected' = FALSE
    /\ IF ws = "closed"
       THEN Connecting(0, timers, TRUE, FALSE)
       ELSE /\ starting' = TRUE
            /\ connectionError' = FALSE
            /\ UNCHANGED timers
            /\ redeeming' = redeeming \cup now
            /\ UNCHANGED <<ws, connectionState, reconnectAttempts, running, quiet, told>>

\* beginTerminalSessionStart with ensureWebSocketConnection; the tokens in now are
\* sent at once on the open socket.
Begin(now) ==
    /\ revived' = FALSE
    /\ authRejected' = FALSE
    /\ IF ws = "closed"
       THEN Connecting(0, timers \cup {"start"}, TRUE, FALSE)
       ELSE /\ starting' = TRUE
            /\ connectionError' = FALSE
            /\ timers' = timers \cup {"start"}
            /\ redeeming' = redeeming \cup now
            /\ UNCHANGED <<ws, connectionState, reconnectAttempts, running, quiet, told>>

\* terminal-starting: the user chose a target, Coolify is asked for a token.
StartRequested ==
    /\ starts < MaxStarts
    /\ starts' = starts + 1
    /\ Begin({})
    /\ UNCHANGED <<terminalActive, heartbeatMissed, pendingCommand, sent, issued, tab,
                   cleaned, creatable>>

\* send-terminal-token: sent at once on an open socket, else kept.
TokenIssued ==
    /\ issued < MaxTokens
    /\ issued' = issued + 1
    /\ \/ /\ authRejected
          /\ UNCHANGED <<connVars, pageVars, timers, pendingCommand, sent>>
       \/ /\ ~authRejected /\ Ready
          /\ Begin({issued + 1})
          /\ sent' = sent \cup {issued + 1}
          /\ UNCHANGED <<pendingCommand, terminalActive>>
       \/ /\ ~authRejected /\ ~Ready
          /\ Begin({})
          /\ pendingCommand' = issued + 1
          /\ UNCHANGED <<sent, terminalActive>>
    /\ UNCHANGED <<heartbeatMissed, starts, tab, cleaned, creatable>>

\* terminal-session-failed: Coolify issued no token.
TokenRefused ==
    /\ pendingCommand' = 0
    /\ timers' = timers \ {"start"}
    /\ Fail
    /\ UNCHANGED <<connVars, heartbeatMissed, terminalActive, revived, sent, issued,
                   starts, tab, cleaned, creatable>>

\* terminal-auto-start-cancelled: the page shows a picker instead.
AutoStartCancelled ==
    /\ ~terminalActive /\ pendingCommand = 0
    /\ starting' = FALSE
    /\ timers' = timers \ {"start"}
    /\ UNCHANGED <<connVars, heartbeatMissed, terminalActive, connectionError, revived,
                   told, tokenVars, tab, cleaned, creatable>>

\* The session start limit: the token must not be sent any more.  It has no
\* effect while the page still shows an earlier terminal.
StartTimeout ==
    /\ "start" \in timers
    /\ timers' = timers \ {"start"}
    /\ \/ /\ SessionPending
          /\ pendingCommand' = 0
          /\ Fail
          /\ UNCHANGED revived
       \/ /\ ~SessionPending
          /\ revived' = (revived \/ starting)
          /\ UNCHANGED <<pendingCommand, starting, connectionError, told>>
    /\ UNCHANGED <<connVars, heartbeatMissed, terminalActive, sent, issued, starts, tab,
                   cleaned, creatable>>

-----------------------------------------------------------------------------
(* handleSocketMessage: messages of the server about the session.  When the *)
(* terminal becomes inactive, the keepalive of this connection stops.        *)

PtyReady ==
    /\ ws = "open"
    /\ \E n \in redeeming : redeeming' = redeeming \ {n}
    /\ running' = TRUE
    /\ starting' = FALSE
    /\ connectionError' = FALSE
    /\ terminalActive' = TRUE
    /\ timers' = timers \ {"start"}
    /\ UNCHANGED <<ws, connectionState, reconnectAttempts, authRejected, quiet,
                   heartbeatMissed, revived, told, tokenVars, tab, cleaned, creatable>>

Unprocessable ==
    /\ ws = "open"
    /\ \E n \in redeeming : redeeming' = redeeming \ {n}
    /\ starting' = FALSE
    /\ terminalActive' = FALSE
    /\ timers' = timers \ (IF terminalActive THEN {"start", "keepalive"} ELSE {"start"})
    /\ UNCHANGED <<ws, connectionState, reconnectAttempts, authRejected, running, quiet,
                   heartbeatMissed, connectionError, revived, told, tokenVars, tab,
                   cleaned, creatable>>

PtyExited ==
    /\ ws = "open"
    /\ running
    /\ running' = FALSE
    /\ starting' = FALSE
    /\ terminalActive' = FALSE
    /\ timers' = timers \ (IF terminalActive THEN {"keepalive"} ELSE {})
    /\ UNCHANGED <<ws, connectionState, reconnectAttempts, authRejected, redeeming, quiet,
                   heartbeatMissed, connectionError, revived, told, tokenVars, tab,
                   cleaned, creatable>>

StartRejected ==
    /\ ws = "open"
    /\ \E n \in redeeming : redeeming' = redeeming \ {n}
    /\ pendingCommand' = 0
    /\ terminalActive' = FALSE
    /\ timers' = timers \ (IF terminalActive THEN {"start", "keepalive"} ELSE {"start"})
    /\ Fail
    /\ UNCHANGED <<ws, connectionState, reconnectAttempts, authRejected, running, quiet,
                   heartbeatMissed, revived, sent, issued, starts, tab, cleaned, creatable>>

\* cleanup: the page is left.  Events of its socket still arrive.
Cleanup ==
    /\ ~cleaned
    /\ cleaned' = TRUE
    /\ timers' = timers \ (ConnectionTimers \cup {"start"})
    /\ connectionState' = "disconnected"
    /\ pendingCommand' = 0
    /\ ws' = CASE ws = "open" -> "closing" [] ws = "connecting" -> "aborting" [] OTHER -> ws
    /\ UNCHANGED <<heartbeatMissed, reconnectAttempts, authRejected, serverVars, quiet,
                   pageVars,
                   sent, issued, starts, tab, creatable>>

-----------------------------------------------------------------------------
Next ==
    \/ FirstConnection \/ SocketOpens \/ ConnectTimeout \/ ClosedRejected
    \/ ClosedNormally \/ ClosedUnexpectedly \/ ReconnectTimer
    \/ Pong \/ PingTimeout \/ Hidden \/ Visible \/ ProbeTimeout
    \/ StartRequested \/ TokenIssued \/ TokenRefused \/ AutoStartCancelled \/ StartTimeout
    \/ PtyReady \/ Unprocessable \/ PtyExited \/ StartRejected
    \/ Cleanup

\* The timers of the page fire.  The network, the server and the user need not
\* do anything.
Fairness == WF_vars(StartTimeout) /\ WF_vars(ReconnectTimer) /\ WF_vars(ConnectTimeout)

Spec == Init /\ [][Next]_vars
FairSpec == Spec /\ Fairness

-----------------------------------------------------------------------------
(* Properties. *)

\* A token that was sent is never kept for another connection (the comment in
\* handleSocketOpen: issued tokens must never be replayed after a reconnect).
TokenSentOnce == pendingCommand \notin sent

\* A token that waited when the page asked the user to retry is sent by the next
\* connection or the first reconnect after it, and by no later attempt
\* (handleSocketClose, resetTerminal).
LateAtFirstReconnectOnly ==
    [][\A n \in told : n \in sent' \ sent => reconnectAttempts <= 1]_vars

\* A scheduled reconnect means that the page has no socket and was not rejected:
\* it never opens a second one (scheduleReconnect, initializeWebSocket).
ReconnectOnlyWhenClosed ==
    "reconnect" \in timers => ws = "closed" /\ "connect" \notin timers /\ ~authRejected

\* Without a socket and without a scheduled attempt, there is a reason that the
\* user can see or has caused (handleSocketClose, scheduleReconnect).
StrandedForAReason ==
    (ws = "closed" /\ {"first", "reconnect"} \cap timers = {})
        => authRejected \/ connectionError \/ quiet \/ cleaned

\* After a rejection the page connects again only when the user starts a session,
\* or by the first connection of the page (resolveTerminalCloseOutcome).
RejectedStaysOut ==
    [][authRejected /\ ws = "closed" /\ ws' = "connecting"
         => ~authRejected' \/ "first" \in timers]_vars

\* "connecting" is shown for a limited time, unless the limit was lost
\* (armTerminalSessionStartTimeout).
StartEnds == starting ~> (~starting \/ terminalActive \/ revived \/ cleaned)
=============================================================================
