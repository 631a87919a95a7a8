------------------------ MODULE TerminalClient_proofs ------------------------
(***************************************************************************)
(* Proofs about the terminal page.  The safety properties are inductive    *)
(* together with what ties the counters to the timers and the tokens to    *)
(* the order in which Coolify issues them.                                 *)
(***************************************************************************)
EXTENDS TerminalClient, TLAPS

\* A timer is armed only while its counter leaves it another try.
Tries ==
    /\ "ping" \in timers => heartbeatMissed < MaxMisses
    /\ "reconnect" \in timers => reconnectAttempts < MaxReconnects

\* Only issued tokens are kept, were sent or were given up, and none of them is
\* both sent and kept.
Tokens ==
    /\ pendingCommand <= issued
    /\ \A n \in sent \cup told : n <= issued
    /\ TokenSentOnce

\* A page that cannot create a socket has none, and nothing rejected it.
NoSocket == ~creatable => ws = "closed" /\ "connect" \notin timers /\ ~authRejected

\* A token that is kept although the user was told to retry has at most one attempt
\* behind it: an open socket resets the attempts, and a close after the first
\* attempt drops the token.
LateToken ==
    /\ ws \in {"open", "closing"} => reconnectAttempts = 0
    /\ creatable /\ ws = "closed" /\ pendingCommand \in told => reconnectAttempts = 0
    /\ ws = "connecting" /\ pendingCommand \in told => reconnectAttempts <= 1

IInv == TypeOK /\ Tries /\ Tokens /\ NoSocket /\ LateToken
            /\ ReconnectOnlyWhenClosed /\ StrandedForAReason

-----------------------------------------------------------------------------
LEMMA InitIInv == Init => IInv
<1>. SUFFICES ASSUME Init PROVE IInv
  OBVIOUS
<1>1. TypeOK
  <2>1. timers \subseteq Timer
    BY DEF Init, Timer
  <2>2. reconnectAttempts \in 0..MaxReconnects /\ heartbeatMissed \in 0..MaxMisses
    BY BoundsAssumption DEF Init
  <2>3. issued \in 0..MaxTokens /\ starts \in 0..MaxStarts
    BY BoundsAssumption DEF Init
  <2>4. sent \subseteq Token /\ redeeming \subseteq Token /\ told \subseteq Token
    BY DEF Init
  <2>. QED
    BY <2>1, <2>2, <2>3, <2>4 DEF Init, TypeOK
<1>2. Tries /\ Tokens /\ NoSocket /\ LateToken
  <2>1. "ping" \notin timers /\ "reconnect" \notin timers
    BY DEF Init
  <2>. QED
    BY <2>1, BoundsAssumption DEF Init, Tries, Tokens, TokenSentOnce, NoSocket, LateToken
<1>3. ReconnectOnlyWhenClosed /\ StrandedForAReason
  <2>1. {"first", "reconnect"} \cap timers # {}
    BY DEF Init
  <2>. QED
    BY <2>1 DEF Init, ReconnectOnlyWhenClosed, StrandedForAReason
<1>. QED
  BY <1>1, <1>2, <1>3 DEF IInv

\* What a step does not touch keeps its type.
LEMMA UnchangedTyped ==
    ASSUME TypeOK
    PROVE  /\ UNCHANGED connVars =>
                /\ ws' \in {"connecting", "open", "closing", "aborting", "closed"}
                /\ connectionState' \in {"disconnected", "connecting", "connected", "reconnecting"}
                /\ reconnectAttempts' \in 0..MaxReconnects
                /\ authRejected' \in BOOLEAN
                /\ redeeming' \subseteq Token /\ running' \in BOOLEAN
                /\ quiet' \in BOOLEAN
           /\ UNCHANGED heartbeatMissed => heartbeatMissed' \in 0..MaxMisses
           /\ UNCHANGED <<sent, issued, starts>> =>
                sent' \subseteq Token /\ issued' \in 0..MaxTokens /\ starts' \in 0..MaxStarts
           /\ UNCHANGED <<tab, cleaned, creatable>> =>
                /\ tab' \in {"visible", "hidden", "hidden_connected"}
                /\ cleaned' \in BOOLEAN /\ creatable' \in BOOLEAN
BY DEF TypeOK, connVars, serverVars

\* A failed start is typed: only a token that waits is told.
LEMMA FailTyped ==
    ASSUME TypeOK, Fail
    PROVE  starting' = FALSE /\ connectionError' = TRUE /\ told' \subseteq Token
BY DEF Fail, TypeOK

\* What a new connection assigns has its type.
LEMMA ConnectingTyped ==
    ASSUME TypeOK, NEW attempts \in 0..MaxReconnects, NEW left \in SUBSET Timer,
           NEW shown \in BOOLEAN, NEW error \in BOOLEAN,
           Connecting(attempts, left, shown, error)
    PROVE  /\ ws' \in {"connecting", "open", "closing", "aborting", "closed"}
           /\ connectionState' \in {"disconnected", "connecting", "connected", "reconnecting"}
           /\ reconnectAttempts' \in 0..MaxReconnects
           /\ timers' \subseteq Timer
           /\ starting' \in BOOLEAN /\ connectionError' \in BOOLEAN
           /\ told' \subseteq Token
           /\ redeeming' \subseteq Token /\ running' \in BOOLEAN /\ quiet' \in BOOLEAN
<1>1. reconnectAttempts' \in 0..MaxReconnects
  BY DEF Connecting
<1>2. CASE creatable
  BY <1>1, <1>2 DEF Connecting, TypeOK, Timer
<1>3. CASE ~creatable
  <2>1. NotCreated(attempts, left \ ConnectionTimers, shown, error)
    BY <1>3 DEF Connecting
  <2>2. UNCHANGED <<ws, redeeming, running, quiet>>
    BY <2>1 DEF NotCreated, serverVars
  <2>3. timers' \subseteq Timer /\ connectionState' \in {"disconnected", "reconnecting"}
    BY <2>1 DEF NotCreated, ScheduleReconnect, Timer
  <2>4. starting' \in BOOLEAN /\ connectionError' \in BOOLEAN /\ told' \subseteq Token
    BY <2>1, FailTyped DEF NotCreated, TypeOK
  <2>. QED
    BY <1>1, <2>2, <2>3, <2>4 DEF TypeOK
<1>. QED
  BY <1>2, <1>3

\* Either a socket is created, and nothing but its own timer runs, or the next
\* attempt is armed or the user told.
LEMMA ConnectingStep ==
    ASSUME NEW attempts, NEW left, NEW shown, NEW error,
           Connecting(attempts, left, shown, error)
    PROVE  /\ reconnectAttempts' = attempts
           /\ "ping" \notin timers'
           /\ creatable => ws' = "connecting" /\ told' = told /\ "reconnect" \notin timers'
           /\ ~creatable => /\ ws' = ws
                            /\ told' \subseteq told \cup ({pendingCommand} \ {0})
                            /\ "connect" \notin timers'
                            /\ "reconnect" \in timers' \/ connectionError' \/ authRejected
           /\ "reconnect" \in timers' => ~authRejected /\ attempts < MaxReconnects
<1>1. CASE creatable
  BY <1>1 DEF Connecting, ConnectionTimers
<1>2. CASE ~creatable
  <2>1. NotCreated(attempts, left \ ConnectionTimers, shown, error) /\ reconnectAttempts' = attempts
    BY <1>2 DEF Connecting
  <2>2. "ping" \notin timers' /\ "connect" \notin timers'
    BY <2>1 DEF NotCreated, ScheduleReconnect, ConnectionTimers
  <2>3. ws' = ws /\ told' \subseteq told \cup ({pendingCommand} \ {0})
    BY <2>1 DEF NotCreated, Fail
  <2>4. "reconnect" \in timers' \/ connectionError' \/ authRejected
    BY <2>1 DEF NotCreated, Fail, ScheduleReconnect
  <2>5. "reconnect" \in timers' => ~authRejected /\ attempts < MaxReconnects
    BY <2>1 DEF NotCreated, ScheduleReconnect, ConnectionTimers
  <2>. QED
    BY <1>2, <2>1, <2>2, <2>3, <2>4, <2>5
<1>. QED
  BY <1>1, <1>2

\* So has what the start of a session assigns its type.
LEMMA BeginTyped ==
    ASSUME TypeOK, NEW now \in SUBSET Token, Begin(now)
    PROVE  /\ starting' \in BOOLEAN /\ connectionError' \in BOOLEAN
           /\ revived' \in BOOLEAN /\ authRejected' \in BOOLEAN
           /\ told' \subseteq Token
           /\ ws' \in {"connecting", "open", "closing", "aborting", "closed"}
           /\ connectionState' \in {"disconnected", "connecting", "connected",
                                    "reconnecting"}
           /\ timers' \subseteq Timer
           /\ reconnectAttempts' \in 0..MaxReconnects
           /\ redeeming' \subseteq Token /\ running' \in BOOLEAN /\ quiet' \in BOOLEAN
<1>1. timers \cup {"start"} \in SUBSET Timer
  BY DEF TypeOK, Timer
<1>2. CASE ws = "closed"
  <2>1. Connecting(0, timers \cup {"start"}, TRUE, FALSE)
    BY <1>2 DEF Begin
  <2>2. 0 \in 0..MaxReconnects /\ TRUE \in BOOLEAN /\ FALSE \in BOOLEAN
    BY BoundsAssumption
  <2>. QED
    BY <1>1, <2>1, <2>2, ConnectingTyped DEF Begin
<1>3. CASE ws # "closed"
  BY <1>1, <1>3 DEF Begin, TypeOK
<1>. QED
  BY <1>2, <1>3

\* A tab that becomes visible reconnects at once, probes or does nothing.
LEMMA VisibleStep ==
    ASSUME Visible
    PROVE  /\ UNCHANGED <<tokenVars, cleaned, creatable>>
           /\ \/ /\ ws = "closed" /\ ~authRejected
                 /\ Connecting(0, timers, starting, connectionError)
                 /\ UNCHANGED <<heartbeatMissed, authRejected>>
              \/ /\ ws # "closed" /\ reconnectAttempts' = 0
                 /\ UNCHANGED <<ws, timers, connectionError, told, quiet, heartbeatMissed,
                                authRejected>>
              \/ /\ heartbeatMissed' = 0
                 /\ timers' = (timers \ {"ping"}) \cup {"probe"}
                 /\ UNCHANGED <<connVars, pageVars>>
              \/ UNCHANGED <<connVars, timerVars, pageVars>>
BY DEF Visible, ReconnectAtOnce

\* A token or a start begins a session unless the page was rejected: without a
\* socket with a new one and all attempts.
LEMMA StartStep ==
    ASSUME StartRequested \/ TokenIssued
    PROVE  /\ UNCHANGED <<heartbeatMissed, cleaned, creatable>>
           /\ \/ UNCHANGED <<connVars, pageVars, timers, pendingCommand, sent>>
              \/ /\ ws # "closed" /\ authRejected' = FALSE
                 /\ UNCHANGED <<ws, reconnectAttempts, told>>
                 /\ timers' = timers \cup {"start"}
              \/ /\ ws = "closed" /\ authRejected' = FALSE
                 /\ Connecting(0, timers \cup {"start"}, TRUE, FALSE)
BY DEF StartRequested, TokenIssued, Begin

\* The page keeps its types, its counters their limits.
LEMMA NextTypeOK ==
    ASSUME TypeOK, Tries, [Next]_vars
    PROVE  TypeOK'
<1>1. CASE FirstConnection
  <2>1. timers \ {"first"} \in SUBSET Timer
    BY DEF TypeOK
  <2>2. CASE ws = "closed"
    <3>1. Connecting(reconnectAttempts, timers \ {"first"}, starting, connectionError)
      BY <1>1, <2>2 DEF FirstConnection
    <3>2. UNCHANGED <<authRejected, terminalActive, revived, heartbeatMissed, tokenVars,
                      tab, cleaned, creatable>>
      BY <1>1, <2>2 DEF FirstConnection
    <3>3. /\ reconnectAttempts \in 0..MaxReconnects
          /\ starting \in BOOLEAN /\ connectionError \in BOOLEAN
      BY DEF TypeOK
    <3>. QED
      BY <2>1, <3>1, <3>2, <3>3, ConnectingTyped DEF TypeOK, tokenVars
  <2>3. CASE ws # "closed"
    <3>1. timers' \subseteq Timer
      BY <1>1, <2>1, <2>3 DEF FirstConnection
    <3>. QED
      BY <1>1, <2>3, <3>1 DEF FirstConnection, TypeOK, connVars, serverVars, pageVars, tokenVars
  <2>. QED
    BY <2>2, <2>3
<1>2. CASE SocketOpens
  <2>1. timers' \subseteq Timer
    BY <1>2 DEF SocketOpens, TypeOK, Timer
  <2>2. reconnectAttempts' \in 0..MaxReconnects /\ heartbeatMissed' \in 0..MaxMisses
    BY <1>2, BoundsAssumption DEF SocketOpens
  <2>3. /\ sent' \subseteq Token
        /\ redeeming' \subseteq Token
        /\ starting' \in BOOLEAN /\ connectionError' \in BOOLEAN /\ revived' \in BOOLEAN
    <3>1. CASE pendingCommand # 0
      BY <1>2, <3>1 DEF SocketOpens, TypeOK
    <3>2. CASE pendingCommand = 0
      BY <1>2, <3>2 DEF SocketOpens, TypeOK
    <3>. QED
      BY <3>1, <3>2
  <2>. QED
    BY <1>2, <2>1, <2>2, <2>3 DEF SocketOpens, TypeOK
<1>3. CASE ConnectTimeout
  <2>1. timers' \subseteq Timer
    BY <1>3 DEF ConnectTimeout, TypeOK
  <2>2. starting' \in BOOLEAN /\ connectionError' \in BOOLEAN /\ told' \subseteq Token
    BY <1>3, FailTyped DEF ConnectTimeout, TypeOK
  <2>3. ws' = "aborting"
        /\ UNCHANGED <<connectionState, reconnectAttempts, authRejected, redeeming, running,
                       quiet, terminalActive, revived, heartbeatMissed, tab, cleaned, creatable>>
    BY <1>3 DEF ConnectTimeout, serverVars
  <2>4. UNCHANGED <<pendingCommand, sent, issued, starts>>
    BY <1>3 DEF ConnectTimeout, tokenVars
  <2>. QED
    BY <2>1, <2>2, <2>3, <2>4 DEF TypeOK
<1>4. CASE ClosedRejected
  BY <1>4, BoundsAssumption DEF ClosedRejected, Fail, ConnectionTimers, TypeOK, Tries,
      Timer, Token
<1>5. CASE ClosedNormally
  BY <1>5, BoundsAssumption DEF ClosedNormally, ConnectionTimers, pageVars, tokenVars,
      TypeOK, Tries, Timer, Token
<1>6. CASE ClosedUnexpectedly
  <2>1. timers' \subseteq Timer /\ connectionState' \in {"disconnected", "reconnecting"}
    BY <1>6 DEF ClosedUnexpectedly, ScheduleReconnect, TypeOK, Timer
  <2>2. starting' \in BOOLEAN /\ connectionError' \in BOOLEAN /\ told' \subseteq Token
    BY <1>6, FailTyped DEF ClosedUnexpectedly, TypeOK
  <2>3. pendingCommand' \in Token \cup {0} /\ terminalActive' \in BOOLEAN
    BY <1>6 DEF ClosedUnexpectedly, TypeOK
  <2>4. ws' = "closed" /\ redeeming' = {} /\ running' = FALSE
    BY <1>6 DEF ClosedUnexpectedly
  <2>. QED
    BY <1>6, <2>1, <2>2, <2>3, <2>4 DEF ClosedUnexpectedly, TypeOK
<1>7. CASE ReconnectTimer
  <2>1. Connecting(reconnectAttempts + 1, timers, starting, connectionError)
    BY <1>7 DEF ReconnectTimer
  <2>2. UNCHANGED <<authRejected, terminalActive, revived, heartbeatMissed, tokenVars,
                    tab, cleaned, creatable>>
    BY <1>7 DEF ReconnectTimer
  <2>3. reconnectAttempts + 1 \in 0..MaxReconnects
    BY <1>7, BoundsAssumption DEF ReconnectTimer, TypeOK, Tries
  <2>4. timers \in SUBSET Timer /\ starting \in BOOLEAN /\ connectionError \in BOOLEAN
    BY DEF TypeOK
  <2>. QED
    BY <2>1, <2>2, <2>3, <2>4, ConnectingTyped DEF TypeOK, tokenVars
<1>8. CASE Pong
  BY <1>8, BoundsAssumption DEF Pong, connVars, serverVars, pageVars, tokenVars, TypeOK, Tries,
      Timer, Token
<1>9. CASE PingTimeout
  BY <1>9, BoundsAssumption DEF PingTimeout, serverVars, pageVars, tokenVars, TypeOK, Tries,
      Timer, Token
<1>10. CASE Hidden
  BY <1>10, BoundsAssumption
      DEF Hidden, connVars, serverVars, pageVars, tokenVars, TypeOK, Tries,
      Timer, Token
<1>11. CASE Visible
  <2>1. CASE ReconnectAtOnce
    <3>1. 0 \in 0..MaxReconnects
      BY BoundsAssumption
    <3>2. CASE ws = "closed"
      <4>1. Connecting(0, timers, starting, connectionError)
        BY <2>1, <3>2 DEF ReconnectAtOnce
      <4>2. UNCHANGED <<heartbeatMissed, authRejected, terminalActive, revived>>
        BY <2>1 DEF ReconnectAtOnce
      <4>3. timers \in SUBSET Timer /\ starting \in BOOLEAN /\ connectionError \in BOOLEAN
        BY DEF TypeOK
      <4>4. tab' = "visible" /\ UNCHANGED <<tokenVars, cleaned, creatable>>
        BY <1>11 DEF Visible
      <4>. QED
        BY <3>1, <4>1, <4>2, <4>3, <4>4, ConnectingTyped DEF TypeOK, tokenVars
    <3>3. CASE ws # "closed"
      <4>1. UNCHANGED <<ws, connectionState, timers, redeeming, running, quiet, starting,
                        connectionError, told, heartbeatMissed, authRejected, terminalActive,
                        revived>>
        BY <2>1, <3>3 DEF ReconnectAtOnce, serverVars
      <4>2. reconnectAttempts' = 0 /\ tab' = "visible"
            /\ UNCHANGED <<tokenVars, cleaned, creatable>>
        BY <1>11, <2>1, <3>3 DEF Visible, ReconnectAtOnce
      <4>. QED
        BY <3>1, <4>1, <4>2 DEF TypeOK, tokenVars
    <3>. QED
      BY <3>2, <3>3
  <2>2. CASE heartbeatMissed' = 0 /\ timers' = (timers \ {"ping"}) \cup {"probe"}
               /\ UNCHANGED <<connVars, pageVars>>
    <3>1. timers' \subseteq Timer
      BY <2>2 DEF TypeOK, Timer
    <3>2. heartbeatMissed' \in 0..MaxMisses
      BY <2>2, BoundsAssumption
    <3>. QED
      BY <1>11, <2>2, <3>1, <3>2 DEF Visible, TypeOK, connVars, serverVars, pageVars, tokenVars
  <2>3. CASE UNCHANGED <<connVars, timerVars, pageVars>>
    BY <1>11, <2>3 DEF Visible, TypeOK, connVars, serverVars, timerVars, pageVars, tokenVars
  <2>. QED
    BY <1>11, <2>1, <2>2, <2>3 DEF Visible
<1>12. CASE ProbeTimeout
  BY <1>12, BoundsAssumption DEF ProbeTimeout, serverVars, pageVars, tokenVars, TypeOK, Tries,
      Timer, Token
<1>13. CASE StartRequested
  <2>1. starts' \in 0..MaxStarts
    BY <1>13, BoundsAssumption DEF StartRequested, TypeOK
  <2>2. Begin({}) /\ {} \in SUBSET Token
    BY <1>13 DEF StartRequested
  <2>. QED
    BY <1>13, <2>1, <2>2, BeginTyped DEF StartRequested, TypeOK
<1>14. CASE TokenIssued
  <2>1. issued' \in 0..MaxTokens /\ issued' = issued + 1 /\ issued + 1 \in Token
    BY <1>14, BoundsAssumption DEF TokenIssued, TypeOK, Token
  <2>2. CASE ~authRejected
    <3>1. PICK now \in SUBSET Token : Begin(now)
      BY <1>14, <2>1, <2>2 DEF TokenIssued
    <3>2. sent' \subseteq Token /\ pendingCommand' \in Token \cup {0}
      BY <1>14, <2>1, <2>2 DEF TokenIssued, TypeOK
    <3>3. UNCHANGED <<heartbeatMissed, starts, tab, cleaned, creatable, terminalActive>>
      BY <1>14, <2>2 DEF TokenIssued
    <3>. QED
      BY <2>1, <3>1, <3>2, <3>3, BeginTyped DEF TypeOK
  <2>3. CASE authRejected
    <3>1. UNCHANGED <<connVars, pageVars, timers, pendingCommand, sent, heartbeatMissed,
                      starts, tab, cleaned, creatable>>
      BY <1>14, <2>3 DEF TokenIssued
    <3>. QED
      BY <2>1, <3>1 DEF TypeOK, connVars, serverVars, pageVars
  <2>. QED
    BY <2>2, <2>3
<1>15. CASE TokenRefused
  <2>1. UNCHANGED <<connVars, heartbeatMissed, sent, issued, starts, tab, cleaned, creatable>>
    BY <1>15 DEF TokenRefused
  <2>2. starting' \in BOOLEAN /\ connectionError' \in BOOLEAN /\ revived' \in BOOLEAN
        /\ told' \subseteq Token
    BY <1>15, FailTyped DEF TokenRefused, TypeOK
  <2>3. terminalActive' \in BOOLEAN /\ pendingCommand' \in Token \cup {0}
    BY <1>15 DEF TokenRefused, TypeOK
  <2>4. timers' \subseteq Timer
    BY <1>15 DEF TokenRefused, TypeOK
  <2>. QED
    BY <2>1, <2>2, <2>3, <2>4, UnchangedTyped DEF TypeOK
<1>16. CASE AutoStartCancelled
  <2>1. UNCHANGED <<connVars, heartbeatMissed, sent, issued, starts, tab, cleaned, creatable>>
    BY <1>16 DEF AutoStartCancelled, tokenVars
  <2>2. starting' \in BOOLEAN /\ connectionError' \in BOOLEAN /\ revived' \in BOOLEAN
        /\ told' \subseteq Token
    BY <1>16 DEF AutoStartCancelled, TypeOK
  <2>3. terminalActive' \in BOOLEAN /\ pendingCommand' \in Token \cup {0}
    BY <1>16 DEF AutoStartCancelled, TypeOK, tokenVars
  <2>4. timers' \subseteq Timer
    BY <1>16 DEF AutoStartCancelled, TypeOK
  <2>. QED
    BY <2>1, <2>2, <2>3, <2>4, UnchangedTyped DEF TypeOK
<1>17. CASE StartTimeout
  <2>1. UNCHANGED <<connVars, heartbeatMissed, sent, issued, starts, tab, cleaned, creatable>>
    BY <1>17 DEF StartTimeout
  <2>2. starting' \in BOOLEAN /\ connectionError' \in BOOLEAN /\ revived' \in BOOLEAN
        /\ told' \subseteq Token
    BY <1>17, FailTyped DEF StartTimeout, TypeOK
  <2>3. terminalActive' \in BOOLEAN /\ pendingCommand' \in Token \cup {0}
    BY <1>17 DEF StartTimeout, TypeOK
  <2>4. timers' \subseteq Timer
    BY <1>17 DEF StartTimeout, TypeOK
  <2>. QED
    BY <2>1, <2>2, <2>3, <2>4, UnchangedTyped DEF TypeOK
<1>18. CASE PtyReady
  <2>1. redeeming' \subseteq Token
    BY <1>18 DEF PtyReady, TypeOK
  <2>2. timers' \subseteq Timer
    BY <1>18 DEF PtyReady, TypeOK
  <2>. QED
    BY <1>18, <2>1, <2>2 DEF PtyReady, tokenVars, TypeOK
<1>19. CASE Unprocessable
  <2>1. UNCHANGED <<heartbeatMissed, sent, issued, starts, tab, cleaned, creatable>>
    BY <1>19 DEF Unprocessable, tokenVars
  <2>2. /\ ws' \in {"connecting", "open", "closing", "aborting", "closed"}
        /\ connectionState' \in {"disconnected", "connecting", "connected", "reconnecting"}
        /\ reconnectAttempts' \in 0..MaxReconnects
        /\ authRejected' \in BOOLEAN /\ quiet' \in BOOLEAN
    BY <1>19 DEF Unprocessable, TypeOK
  <2>3. redeeming' \subseteq Token /\ running' \in BOOLEAN
    BY <1>19 DEF Unprocessable, TypeOK
  <2>4. /\ starting' \in BOOLEAN /\ terminalActive' \in BOOLEAN
        /\ connectionError' \in BOOLEAN /\ revived' \in BOOLEAN
    BY <1>19 DEF Unprocessable, TypeOK
  <2>5. told' \subseteq Token /\ pendingCommand' \in Token \cup {0}
    BY <1>19 DEF Unprocessable, tokenVars, TypeOK
  <2>6. timers' \subseteq Timer
    BY <1>19 DEF Unprocessable, TypeOK
  <2>. QED
    BY <2>1, <2>2, <2>3, <2>4, <2>5, <2>6, UnchangedTyped DEF TypeOK
<1>20. CASE PtyExited
  <2>1. UNCHANGED <<heartbeatMissed, sent, issued, starts, tab, cleaned, creatable>>
    BY <1>20 DEF PtyExited, tokenVars
  <2>2. /\ ws' \in {"connecting", "open", "closing", "aborting", "closed"}
        /\ connectionState' \in {"disconnected", "connecting", "connected", "reconnecting"}
        /\ reconnectAttempts' \in 0..MaxReconnects
        /\ authRejected' \in BOOLEAN /\ quiet' \in BOOLEAN
    BY <1>20 DEF PtyExited, TypeOK
  <2>3. redeeming' \subseteq Token /\ running' \in BOOLEAN
    BY <1>20 DEF PtyExited, TypeOK
  <2>4. /\ starting' \in BOOLEAN /\ terminalActive' \in BOOLEAN
        /\ connectionError' \in BOOLEAN /\ revived' \in BOOLEAN
    BY <1>20 DEF PtyExited, TypeOK
  <2>5. told' \subseteq Token /\ pendingCommand' \in Token \cup {0}
    BY <1>20 DEF PtyExited, tokenVars, TypeOK
  <2>6. timers' \subseteq Timer
    BY <1>20 DEF PtyExited, TypeOK
  <2>. QED
    BY <2>1, <2>2, <2>3, <2>4, <2>5, <2>6, UnchangedTyped DEF TypeOK
<1>21. CASE StartRejected
  <2>1. redeeming' \subseteq Token
    BY <1>21 DEF StartRejected, TypeOK
  <2>2. timers' \subseteq Timer
    BY <1>21 DEF StartRejected, TypeOK
  <2>3. told' \subseteq Token /\ starting' = FALSE /\ connectionError' = TRUE
    BY <1>21, FailTyped DEF StartRejected
  <2>. QED
    BY <1>21, <2>1, <2>2, <2>3 DEF StartRejected, TypeOK
<1>22. CASE Cleanup
  BY <1>22, BoundsAssumption DEF Cleanup, ConnectionTimers, serverVars, pageVars, TypeOK, Tries,
      Timer, Token
<1>23. CASE UNCHANGED vars
  BY <1>23 DEF TypeOK, Tries, Timer, Token, vars, timerVars, connVars, serverVars, pageVars,
      tokenVars
<1>. QED
  BY <1>1, <1>2, <1>3, <1>4, <1>5, <1>6, <1>7, <1>8, <1>9, <1>10, <1>11, <1>12, <1>13,
      <1>14, <1>15, <1>16, <1>17, <1>18, <1>19, <1>20, <1>21, <1>22, <1>23 DEF Next

\* Every timer that is armed has a try left.
LEMMA NextTries ==
    ASSUME TypeOK, Tries, [Next]_vars
    PROVE  Tries'
<1>1. CASE FirstConnection
  <2>1. CASE ws = "closed"
    <3>1. Connecting(reconnectAttempts, timers \ {"first"}, starting, connectionError)
      BY <1>1, <2>1 DEF FirstConnection
    <3>. QED
      BY <3>1, ConnectingStep DEF Tries
  <2>2. CASE ws # "closed"
    BY <1>1, <2>2 DEF FirstConnection, connVars, Tries
  <2>. QED
    BY <2>1, <2>2
<1>2. CASE SocketOpens
  BY <1>2, BoundsAssumption DEF SocketOpens, TypeOK, Tries
<1>3. CASE ConnectTimeout
  BY <1>3, BoundsAssumption DEF ConnectTimeout, SessionPending, Fail, serverVars,
      tokenVars, TypeOK, Tries
<1>4. CASE ClosedRejected
  BY <1>4, BoundsAssumption DEF ClosedRejected, Fail, ConnectionTimers, TypeOK, Tries
<1>5. CASE ClosedNormally
  BY <1>5, BoundsAssumption DEF ClosedNormally, ConnectionTimers, pageVars, tokenVars,
      TypeOK, Tries
<1>6. CASE ClosedUnexpectedly
  BY <1>6 DEF ClosedUnexpectedly, ScheduleReconnect, ConnectionTimers, Tries
<1>7. CASE ReconnectTimer
  <2>1. Connecting(reconnectAttempts + 1, timers, starting, connectionError)
    BY <1>7 DEF ReconnectTimer
  <2>. QED
    BY <2>1, ConnectingStep DEF Tries
<1>8. CASE Pong
  BY <1>8, BoundsAssumption DEF Pong, connVars, serverVars, pageVars, tokenVars, TypeOK,
      Tries
<1>9. CASE PingTimeout
  BY <1>9, BoundsAssumption DEF PingTimeout, serverVars, pageVars, tokenVars, TypeOK,
      Tries
<1>10. CASE Hidden
  BY <1>10, BoundsAssumption DEF Hidden, connVars, serverVars, pageVars, tokenVars,
      TypeOK, Tries
<1>11. CASE Visible
  <2>1. CASE Connecting(0, timers, starting, connectionError)
    BY <2>1, ConnectingStep DEF Tries
  <2>2. CASE ~Connecting(0, timers, starting, connectionError)
    BY <1>11, <2>2, VisibleStep, BoundsAssumption DEF connVars, timerVars, TypeOK, Tries
  <2>. QED
    BY <2>1, <2>2
<1>12. CASE ProbeTimeout
  BY <1>12, BoundsAssumption DEF ProbeTimeout, serverVars, pageVars, tokenVars, TypeOK,
      Tries
<1>13. CASE StartRequested
  <2>1. CASE Connecting(0, timers \cup {"start"}, TRUE, FALSE)
    BY <2>1, ConnectingStep DEF Tries
  <2>2. CASE ~Connecting(0, timers \cup {"start"}, TRUE, FALSE)
    BY <1>13, <2>2, StartStep DEF connVars, Tries
  <2>. QED
    BY <2>1, <2>2
<1>14. CASE TokenIssued
  <2>1. CASE Connecting(0, timers \cup {"start"}, TRUE, FALSE)
    BY <2>1, ConnectingStep DEF Tries
  <2>2. CASE ~Connecting(0, timers \cup {"start"}, TRUE, FALSE)
    BY <1>14, <2>2, StartStep DEF connVars, Tries
  <2>. QED
    BY <2>1, <2>2
<1>15. CASE TokenRefused
  BY <1>15, BoundsAssumption DEF TokenRefused, Fail, connVars, serverVars, TypeOK, Tries
<1>16. CASE AutoStartCancelled
  BY <1>16, BoundsAssumption DEF AutoStartCancelled, connVars, serverVars, tokenVars,
      TypeOK, Tries
<1>17. CASE StartTimeout
  BY <1>17, BoundsAssumption DEF StartTimeout, SessionPending, Fail, connVars, serverVars,
      TypeOK, Tries
<1>18. CASE PtyReady
  BY <1>18, BoundsAssumption DEF PtyReady, tokenVars, TypeOK, Tries
<1>19. CASE Unprocessable
  BY <1>19, BoundsAssumption DEF Unprocessable, tokenVars, TypeOK, Tries
<1>20. CASE PtyExited
  BY <1>20, BoundsAssumption DEF PtyExited, tokenVars, TypeOK, Tries
<1>21. CASE StartRejected
  BY <1>21, BoundsAssumption DEF StartRejected, Fail, TypeOK, Tries
<1>22. CASE Cleanup
  BY <1>22, BoundsAssumption DEF Cleanup, ConnectionTimers, serverVars, pageVars, TypeOK,
      Tries
<1>23. CASE UNCHANGED vars
  BY <1>23, BoundsAssumption DEF vars, timerVars, connVars, serverVars, pageVars,
      tokenVars, TypeOK, Tries
<1>. QED
  BY <1>1, <1>2, <1>3, <1>4, <1>5, <1>6, <1>7, <1>8, <1>9, <1>10, <1>11, <1>12, <1>13,
      <1>14, <1>15, <1>16, <1>17, <1>18, <1>19, <1>20, <1>21, <1>22, <1>23 DEF Next

\* A token that is sent is not kept, and one that is kept was not sent.
LEMMA NextTokens ==
    ASSUME TypeOK, Tokens, [Next]_vars
    PROVE  Tokens'
<1>1. CASE FirstConnection
  <2>1. told' \subseteq told \cup ({pendingCommand} \ {0})
    <3>1. CASE ws = "closed"
      BY <1>1, <3>1, ConnectingStep DEF FirstConnection
    <3>2. CASE ws # "closed"
      BY <1>1, <3>2 DEF FirstConnection, pageVars
    <3>. QED
      BY <3>1, <3>2
  <2>. QED
    BY <1>1, <2>1 DEF FirstConnection, tokenVars, Tokens, TokenSentOnce
<1>2. CASE SocketOpens
  <2>1. issued' = issued /\ pendingCommand' = 0 /\ sent' \subseteq sent \cup {pendingCommand}
        /\ told' = told
    BY <1>2 DEF SocketOpens
  <2>2. pendingCommand # 0 \/ sent' = sent
    BY <1>2 DEF SocketOpens
  <2>3. 0 \notin sent'
    BY <2>1, <2>2, BoundsAssumption DEF TypeOK, Token
  <2>. QED
    BY <2>1, <2>3, BoundsAssumption DEF TypeOK, Tokens, TokenSentOnce, Token
<1>3. CASE ConnectTimeout
  BY <1>3, BoundsAssumption DEF ConnectTimeout, SessionPending, Fail, serverVars,
      tokenVars, TypeOK, Tokens, TokenSentOnce, Token
<1>4. CASE ClosedRejected
  BY <1>4, BoundsAssumption DEF ClosedRejected, Fail, ConnectionTimers, TypeOK, Tokens,
      TokenSentOnce, Token
<1>5. CASE ClosedNormally
  BY <1>5, BoundsAssumption DEF ClosedNormally, ConnectionTimers, pageVars, tokenVars,
      TypeOK, Tokens, TokenSentOnce, Token
<1>6. CASE ClosedUnexpectedly
  <2>1. told' \subseteq told \cup {pendingCommand} /\ pendingCommand' \in {0, pendingCommand}
    BY <1>6 DEF ClosedUnexpectedly, Fail
  <2>2. UNCHANGED <<sent, issued>> /\ 0 \notin sent
    BY <1>6, BoundsAssumption DEF ClosedUnexpectedly, TypeOK, Token
  <2>. QED
    BY <2>1, <2>2, BoundsAssumption DEF TypeOK, Tokens, TokenSentOnce
<1>7. CASE ReconnectTimer
  <2>1. told' \subseteq told \cup ({pendingCommand} \ {0})
    BY <1>7, ConnectingStep DEF ReconnectTimer
  <2>. QED
    BY <1>7, <2>1 DEF ReconnectTimer, tokenVars, Tokens, TokenSentOnce
<1>8. CASE Pong
  BY <1>8, BoundsAssumption DEF Pong, connVars, serverVars, pageVars, tokenVars, TypeOK,
      Tokens, TokenSentOnce, Token
<1>9. CASE PingTimeout
  BY <1>9, BoundsAssumption DEF PingTimeout, serverVars, pageVars, tokenVars, TypeOK,
      Tokens, TokenSentOnce, Token
<1>10. CASE Hidden
  BY <1>10, BoundsAssumption DEF Hidden, connVars, serverVars, pageVars, tokenVars,
      TypeOK, Tokens, TokenSentOnce, Token
<1>11. CASE Visible
  <2>1. told' \subseteq told \cup ({pendingCommand} \ {0})
    <3>1. CASE Connecting(0, timers, starting, connectionError)
      BY <3>1, ConnectingStep
    <3>2. CASE ~Connecting(0, timers, starting, connectionError)
      BY <1>11, <3>2, VisibleStep DEF pageVars
    <3>. QED
      BY <3>1, <3>2
  <2>. QED
    BY <1>11, <2>1, VisibleStep DEF tokenVars, Tokens, TokenSentOnce
<1>12. CASE ProbeTimeout
  BY <1>12, BoundsAssumption DEF ProbeTimeout, serverVars, pageVars, tokenVars, TypeOK,
      Tokens, TokenSentOnce, Token
<1>13. CASE StartRequested
  <2>1. told' \subseteq told \cup ({pendingCommand} \ {0})
    BY <1>13, StartStep, ConnectingStep DEF pageVars
  <2>. QED
    BY <1>13, <2>1 DEF StartRequested, Tokens, TokenSentOnce
<1>14. CASE TokenIssued
  <2>1. issued' = issued + 1 /\ issued \in Nat
    BY <1>14, BoundsAssumption DEF TokenIssued, TypeOK
  <2>2. \/ pendingCommand' = pendingCommand /\ sent' \in {sent, sent \cup {issued + 1}}
        \/ pendingCommand' = issued + 1 /\ sent' = sent
    BY <1>14 DEF TokenIssued
  <2>3. told' \subseteq told \cup ({pendingCommand} \ {0})
    BY <1>14, StartStep, ConnectingStep DEF pageVars
  <2>4. pendingCommand \in Nat /\ \A n \in sent \cup told : n \in Nat
    BY BoundsAssumption DEF TypeOK, Token
  <2>. QED
    BY <2>1, <2>2, <2>3, <2>4 DEF Tokens, TokenSentOnce
<1>15. CASE TokenRefused
  BY <1>15, BoundsAssumption DEF TokenRefused, Fail, connVars, serverVars, TypeOK, Tokens,
      TokenSentOnce, Token
<1>16. CASE AutoStartCancelled
  BY <1>16, BoundsAssumption DEF AutoStartCancelled, connVars, serverVars, tokenVars,
      TypeOK, Tokens, TokenSentOnce, Token
<1>17. CASE StartTimeout
  BY <1>17, BoundsAssumption DEF StartTimeout, SessionPending, Fail, connVars, serverVars,
      TypeOK, Tokens, TokenSentOnce, Token
<1>18. CASE PtyReady
  BY <1>18, BoundsAssumption DEF PtyReady, tokenVars, TypeOK, Tokens, TokenSentOnce, Token
<1>19. CASE Unprocessable
  BY <1>19, BoundsAssumption DEF Unprocessable, tokenVars, TypeOK, Tokens, TokenSentOnce,
      Token
<1>20. CASE PtyExited
  BY <1>20, BoundsAssumption DEF PtyExited, tokenVars, TypeOK, Tokens, TokenSentOnce,
      Token
<1>21. CASE StartRejected
  BY <1>21, BoundsAssumption DEF StartRejected, Fail, TypeOK, Tokens, TokenSentOnce, Token
<1>22. CASE Cleanup
  BY <1>22, BoundsAssumption DEF Cleanup, ConnectionTimers, serverVars, pageVars, TypeOK,
      Tokens, TokenSentOnce, Token
<1>23. CASE UNCHANGED vars
  BY <1>23, BoundsAssumption DEF vars, timerVars, connVars, serverVars, pageVars,
      tokenVars, TypeOK, Tokens, TokenSentOnce, Token
<1>. QED
  BY <1>1, <1>2, <1>3, <1>4, <1>5, <1>6, <1>7, <1>8, <1>9, <1>10, <1>11, <1>12, <1>13,
      <1>14, <1>15, <1>16, <1>17, <1>18, <1>19, <1>20, <1>21, <1>22, <1>23 DEF Next

\* A page that cannot create a socket stays without one.
LEMMA NextNoSocket ==
    ASSUME NoSocket, [Next]_vars
    PROVE  NoSocket'
<1>1. CASE FirstConnection
  <2>1. CASE ws = "closed"
    BY <1>1, <2>1, ConnectingStep DEF FirstConnection, NoSocket
  <2>2. CASE ~ws = "closed"
    BY <1>1, <2>2 DEF FirstConnection, connVars, NoSocket
  <2>. QED
    BY <2>1, <2>2
<1>2. CASE SocketOpens
  BY <1>2 DEF SocketOpens, NoSocket
<1>3. CASE ConnectTimeout
  BY <1>3 DEF ConnectTimeout, SessionPending, Fail, serverVars, tokenVars, NoSocket
<1>4. CASE ClosedRejected
  BY <1>4 DEF ClosedRejected, Fail, ConnectionTimers, NoSocket
<1>5. CASE ClosedNormally
  BY <1>5 DEF ClosedNormally, ConnectionTimers, pageVars, tokenVars, NoSocket
<1>6. CASE ClosedUnexpectedly
  BY <1>6 DEF ClosedUnexpectedly, NoSocket
<1>7. CASE ReconnectTimer
  BY <1>7, ConnectingStep DEF ReconnectTimer, NoSocket
<1>8. CASE Pong
  BY <1>8 DEF Pong, connVars, serverVars, pageVars, tokenVars, NoSocket
<1>9. CASE PingTimeout
  BY <1>9 DEF PingTimeout, serverVars, pageVars, tokenVars, NoSocket
<1>10. CASE Hidden
  BY <1>10 DEF Hidden, connVars, serverVars, pageVars, tokenVars, NoSocket
<1>11. CASE Visible
  <2>1. CASE (/\ ws = "closed" /\ ~authRejected /\ authRejected' = authRejected
              /\ Connecting(0, timers, starting, connectionError))
    BY <1>11, <2>1, VisibleStep, ConnectingStep DEF connVars, NoSocket
  <2>2. CASE ~(/\ ws = "closed" /\ ~authRejected /\ authRejected' = authRejected
               /\ Connecting(0, timers, starting, connectionError))
    BY <1>11, <2>2, VisibleStep DEF connVars, timerVars, NoSocket
  <2>. QED
    BY <2>1, <2>2
<1>12. CASE ProbeTimeout
  BY <1>12 DEF ProbeTimeout, serverVars, pageVars, tokenVars, NoSocket
<1>13. CASE StartRequested
  <2>1. CASE (/\ ws = "closed" /\ authRejected' = FALSE
              /\ Connecting(0, timers \cup {"start"}, TRUE, FALSE))
    <3>1. ~creatable => ws' = ws /\ "connect" \notin timers'
      BY <2>1, ConnectingStep
    <3>2. creatable' = creatable
      BY <1>13, StartStep
    <3>. QED
      BY <2>1, <3>1, <3>2 DEF NoSocket
  <2>2. CASE ~(/\ ws = "closed" /\ authRejected' = FALSE
               /\ Connecting(0, timers \cup {"start"}, TRUE, FALSE))
    <3>1. \/ UNCHANGED <<connVars, pageVars, timers, pendingCommand, sent>>
          \/ /\ ws # "closed" /\ authRejected' = FALSE
             /\ UNCHANGED <<ws, reconnectAttempts, told>>
             /\ timers' = timers \cup {"start"}
      BY <1>13, <2>2, StartStep
    <3>2. UNCHANGED <<cleaned, creatable>>
      BY <1>13, StartStep
    <3>. QED
      BY <3>1, <3>2 DEF connVars, NoSocket
  <2>. QED
    BY <2>1, <2>2
<1>14. CASE TokenIssued
  <2>1. CASE (/\ ws = "closed" /\ authRejected' = FALSE
              /\ Connecting(0, timers \cup {"start"}, TRUE, FALSE))
    <3>1. ~creatable => ws' = ws /\ "connect" \notin timers'
      BY <2>1, ConnectingStep
    <3>2. creatable' = creatable
      BY <1>14, StartStep
    <3>. QED
      BY <2>1, <3>1, <3>2 DEF NoSocket
  <2>2. CASE ~(/\ ws = "closed" /\ authRejected' = FALSE
               /\ Connecting(0, timers \cup {"start"}, TRUE, FALSE))
    <3>1. \/ UNCHANGED <<connVars, pageVars, timers, pendingCommand, sent>>
          \/ /\ ws # "closed" /\ authRejected' = FALSE
             /\ UNCHANGED <<ws, reconnectAttempts, told>>
             /\ timers' = timers \cup {"start"}
      BY <1>14, <2>2, StartStep
    <3>2. UNCHANGED <<cleaned, creatable>>
      BY <1>14, StartStep
    <3>. QED
      BY <3>1, <3>2 DEF connVars, NoSocket
  <2>. QED
    BY <2>1, <2>2
<1>15. CASE TokenRefused
  BY <1>15 DEF TokenRefused, Fail, connVars, serverVars, NoSocket
<1>16. CASE AutoStartCancelled
  BY <1>16 DEF AutoStartCancelled, connVars, serverVars, tokenVars, NoSocket
<1>17. CASE StartTimeout
  BY <1>17 DEF StartTimeout, SessionPending, Fail, connVars, serverVars, NoSocket
<1>18. CASE PtyReady
  BY <1>18 DEF PtyReady, tokenVars, NoSocket
<1>19. CASE Unprocessable
  BY <1>19 DEF Unprocessable, tokenVars, NoSocket
<1>20. CASE PtyExited
  BY <1>20 DEF PtyExited, tokenVars, NoSocket
<1>21. CASE StartRejected
  BY <1>21 DEF StartRejected, Fail, NoSocket
<1>22. CASE Cleanup
  BY <1>22 DEF Cleanup, ConnectionTimers, serverVars, pageVars, NoSocket
<1>23. CASE UNCHANGED vars
  BY <1>23 DEF vars, timerVars, connVars, serverVars, pageVars, tokenVars, NoSocket
<1>. QED
  BY <1>1, <1>2, <1>3, <1>4, <1>5, <1>6, <1>7, <1>8, <1>9, <1>10, <1>11, <1>12, <1>13,
      <1>14, <1>15, <1>16, <1>17, <1>18, <1>19, <1>20, <1>21, <1>22, <1>23 DEF Next

\* Whatever opens a socket disarms the reconnect, and whatever loses the socket
\* arms it or leaves a reason.
LEMMA NextConnected ==
    ASSUME TypeOK, NoSocket, ReconnectOnlyWhenClosed, StrandedForAReason, [Next]_vars
    PROVE  (ReconnectOnlyWhenClosed /\ StrandedForAReason)'
<1>1. CASE FirstConnection
  <2>1. CASE ws = "closed"
    <3>1. creatable => ws' = "connecting" /\ "reconnect" \notin timers'
      BY <1>1, <2>1, ConnectingStep DEF FirstConnection
    <3>2. ~creatable => /\ ws' = ws /\ "connect" \notin timers'
                        /\ "reconnect" \in timers' \/ connectionError' \/ authRejected
      BY <1>1, <2>1, ConnectingStep DEF FirstConnection
    <3>3. "reconnect" \in timers' => ~authRejected
      BY <1>1, <2>1, ConnectingStep DEF FirstConnection
    <3>. QED
      BY <1>1, <2>1, <3>1, <3>2, <3>3
          DEF NoSocket, ReconnectOnlyWhenClosed, StrandedForAReason, FirstConnection
  <2>2. CASE ~ws = "closed"
    BY <1>1, <2>2 DEF FirstConnection, connVars, pageVars, ReconnectOnlyWhenClosed,
        StrandedForAReason
  <2>. QED
    BY <2>1, <2>2
<1>2. CASE SocketOpens
  BY <1>2 DEF SocketOpens, TypeOK, ReconnectOnlyWhenClosed, StrandedForAReason
<1>3. CASE ConnectTimeout
  BY <1>3 DEF ConnectTimeout, SessionPending, Fail, serverVars, tokenVars, TypeOK,
      ReconnectOnlyWhenClosed, StrandedForAReason
<1>4. CASE ClosedRejected
  BY <1>4 DEF ClosedRejected, Fail, ConnectionTimers, TypeOK, ReconnectOnlyWhenClosed,
      StrandedForAReason
<1>5. CASE ClosedNormally
  BY <1>5 DEF ClosedNormally, ConnectionTimers, pageVars, tokenVars, TypeOK,
      ReconnectOnlyWhenClosed, StrandedForAReason
<1>6. CASE ClosedUnexpectedly
  <2>1. CASE ~authRejected /\ reconnectAttempts < MaxReconnects
    BY <1>6, <2>1 DEF ClosedUnexpectedly, ScheduleReconnect, ConnectionTimers,
        ReconnectOnlyWhenClosed, StrandedForAReason
  <2>2. CASE ~(~authRejected /\ reconnectAttempts < MaxReconnects)
    <3>1. "reconnect" \notin timers'
      BY <1>6, <2>2 DEF ClosedUnexpectedly, ScheduleReconnect, ConnectionTimers
    <3>2. authRejected' \/ connectionError'
      BY <1>6, <2>2, BoundsAssumption DEF ClosedUnexpectedly, Fail, TypeOK
    <3>. QED
      BY <3>1, <3>2 DEF ReconnectOnlyWhenClosed, StrandedForAReason
  <2>. QED
    BY <2>1, <2>2
<1>7. CASE ReconnectTimer
  <2>1. creatable => ws' = "connecting" /\ "reconnect" \notin timers'
    BY <1>7, ConnectingStep DEF ReconnectTimer
  <2>2. ~creatable => /\ ws' = ws /\ "connect" \notin timers'
                      /\ "reconnect" \in timers' \/ connectionError' \/ authRejected
    BY <1>7, ConnectingStep DEF ReconnectTimer
  <2>3. "reconnect" \in timers' => ~authRejected
    BY <1>7, ConnectingStep DEF ReconnectTimer
  <2>. QED
    BY <1>7, <2>1, <2>2, <2>3
        DEF NoSocket, ReconnectOnlyWhenClosed, StrandedForAReason, ReconnectTimer
<1>8. CASE Pong
  BY <1>8 DEF Pong, connVars, serverVars, pageVars, tokenVars, TypeOK,
      ReconnectOnlyWhenClosed, StrandedForAReason
<1>9. CASE PingTimeout
  BY <1>9 DEF PingTimeout, serverVars, pageVars, tokenVars, TypeOK,
      ReconnectOnlyWhenClosed, StrandedForAReason
<1>10. CASE Hidden
  BY <1>10 DEF Hidden, connVars, serverVars, pageVars, tokenVars, TypeOK,
      ReconnectOnlyWhenClosed, StrandedForAReason
<1>11. CASE Visible
  <2>1. CASE (/\ ws = "closed" /\ ~authRejected /\ authRejected' = authRejected
              /\ Connecting(0, timers, starting, connectionError))
    <3>1. creatable => ws' = "connecting" /\ "reconnect" \notin timers'
      BY <2>1, ConnectingStep
    <3>2. ~creatable => /\ ws' = ws /\ "connect" \notin timers'
                        /\ "reconnect" \in timers' \/ connectionError' \/ authRejected
      BY <2>1, ConnectingStep
    <3>3. "reconnect" \in timers' => ~authRejected
      BY <2>1, ConnectingStep
    <3>. QED
      BY <1>11, <2>1, VisibleStep, <3>1, <3>2, <3>3
          DEF NoSocket, ReconnectOnlyWhenClosed, StrandedForAReason
  <2>2. CASE ~(/\ ws = "closed" /\ ~authRejected /\ authRejected' = authRejected
               /\ Connecting(0, timers, starting, connectionError))
    BY <1>11, <2>2, VisibleStep DEF connVars, timerVars, pageVars, ReconnectOnlyWhenClosed,
        StrandedForAReason
  <2>. QED
    BY <2>1, <2>2
<1>12. CASE ProbeTimeout
  BY <1>12 DEF ProbeTimeout, serverVars, pageVars, tokenVars, TypeOK,
      ReconnectOnlyWhenClosed, StrandedForAReason
<1>13. CASE StartRequested
  <2>1. CASE (/\ ws = "closed" /\ authRejected' = FALSE
              /\ Connecting(0, timers \cup {"start"}, TRUE, FALSE))
    <3>1. creatable => ws' = "connecting" /\ "reconnect" \notin timers'
      BY <2>1, ConnectingStep
    <3>2. ~creatable => /\ ws' = ws /\ "connect" \notin timers'
                        /\ "reconnect" \in timers' \/ connectionError' \/ authRejected
      BY <2>1, ConnectingStep
    <3>3. "reconnect" \in timers' => ~authRejected
      BY <2>1, ConnectingStep
    <3>. QED
      BY <1>13, <2>1, StartStep, <3>1, <3>2, <3>3
          DEF NoSocket, ReconnectOnlyWhenClosed, StrandedForAReason, connVars
  <2>2. CASE ~(/\ ws = "closed" /\ authRejected' = FALSE
               /\ Connecting(0, timers \cup {"start"}, TRUE, FALSE))
    <3>1. \/ UNCHANGED <<connVars, pageVars, timers, pendingCommand, sent>>
          \/ /\ ws # "closed" /\ authRejected' = FALSE
             /\ UNCHANGED <<ws, reconnectAttempts, told>>
             /\ timers' = timers \cup {"start"}
      BY <1>13, <2>2, StartStep
    <3>2. UNCHANGED <<cleaned, creatable>>
      BY <1>13, StartStep
    <3>. QED
      BY <3>1, <3>2 DEF connVars, pageVars, ReconnectOnlyWhenClosed, StrandedForAReason
  <2>. QED
    BY <2>1, <2>2
<1>14. CASE TokenIssued
  <2>1. CASE (/\ ws = "closed" /\ authRejected' = FALSE
              /\ Connecting(0, timers \cup {"start"}, TRUE, FALSE))
    <3>1. creatable => ws' = "connecting" /\ "reconnect" \notin timers'
      BY <2>1, ConnectingStep
    <3>2. ~creatable => /\ ws' = ws /\ "connect" \notin timers'
                        /\ "reconnect" \in timers' \/ connectionError' \/ authRejected
      BY <2>1, ConnectingStep
    <3>3. "reconnect" \in timers' => ~authRejected
      BY <2>1, ConnectingStep
    <3>. QED
      BY <1>14, <2>1, StartStep, <3>1, <3>2, <3>3
          DEF NoSocket, ReconnectOnlyWhenClosed, StrandedForAReason, connVars
  <2>2. CASE ~(/\ ws = "closed" /\ authRejected' = FALSE
               /\ Connecting(0, timers \cup {"start"}, TRUE, FALSE))
    <3>1. \/ UNCHANGED <<connVars, pageVars, timers, pendingCommand, sent>>
          \/ /\ ws # "closed" /\ authRejected' = FALSE
             /\ UNCHANGED <<ws, reconnectAttempts, told>>
             /\ timers' = timers \cup {"start"}
      BY <1>14, <2>2, StartStep
    <3>2. UNCHANGED <<cleaned, creatable>>
      BY <1>14, StartStep
    <3>. QED
      BY <3>1, <3>2 DEF connVars, pageVars, ReconnectOnlyWhenClosed, StrandedForAReason
  <2>. QED
    BY <2>1, <2>2
<1>15. CASE TokenRefused
  BY <1>15 DEF TokenRefused, Fail, connVars, serverVars, TypeOK, ReconnectOnlyWhenClosed,
      StrandedForAReason
<1>16. CASE AutoStartCancelled
  BY <1>16 DEF AutoStartCancelled, connVars, serverVars, tokenVars, TypeOK,
      ReconnectOnlyWhenClosed, StrandedForAReason
<1>17. CASE StartTimeout
  BY <1>17 DEF StartTimeout, SessionPending, Fail, connVars, serverVars, TypeOK,
      ReconnectOnlyWhenClosed, StrandedForAReason
<1>18. CASE PtyReady
  BY <1>18 DEF PtyReady, tokenVars, TypeOK, ReconnectOnlyWhenClosed, StrandedForAReason
<1>19. CASE Unprocessable
  BY <1>19 DEF Unprocessable, tokenVars, TypeOK, ReconnectOnlyWhenClosed,
      StrandedForAReason
<1>20. CASE PtyExited
  BY <1>20 DEF PtyExited, tokenVars, TypeOK, ReconnectOnlyWhenClosed, StrandedForAReason
<1>21. CASE StartRejected
  BY <1>21 DEF StartRejected, Fail, TypeOK, ReconnectOnlyWhenClosed, StrandedForAReason
<1>22. CASE Cleanup
  BY <1>22 DEF Cleanup, ConnectionTimers, serverVars, pageVars, TypeOK,
      ReconnectOnlyWhenClosed, StrandedForAReason
<1>23. CASE UNCHANGED vars
  BY <1>23 DEF vars, timerVars, connVars, serverVars, pageVars, tokenVars, TypeOK,
      ReconnectOnlyWhenClosed, StrandedForAReason
<1>. QED
  BY <1>1, <1>2, <1>3, <1>4, <1>5, <1>6, <1>7, <1>8, <1>9, <1>10, <1>11, <1>12, <1>13,
      <1>14, <1>15, <1>16, <1>17, <1>18, <1>19, <1>20, <1>21, <1>22, <1>23 DEF Next

\* A kept token that the user was told to retry for stays young.
LEMMA NextLateToken ==
    ASSUME TypeOK, Tokens, NoSocket, ReconnectOnlyWhenClosed, LateToken, [Next]_vars
    PROVE  LateToken'
<1>. USE BoundsAssumption DEF LateToken
<1>1. CASE FirstConnection
  <2>1. CASE ws = "closed"
    <3>1. reconnectAttempts' = reconnectAttempts /\ UNCHANGED <<pendingCommand, creatable>>
      BY <1>1, <2>1, ConnectingStep DEF FirstConnection, tokenVars
    <3>2. creatable => ws' = "connecting" /\ told' = told
      BY <1>1, <2>1, ConnectingStep DEF FirstConnection
    <3>3. ~creatable => ws' = ws
      BY <1>1, <2>1, ConnectingStep DEF FirstConnection
    <3>. QED
      BY <2>1, <3>1, <3>2, <3>3 DEF TypeOK
  <2>2. CASE ~ws = "closed"
    BY <1>1, <2>2 DEF FirstConnection, connVars, pageVars, tokenVars
  <2>. QED
    BY <2>1, <2>2
<1>2. CASE SocketOpens
  <2>1. reconnectAttempts' = 0 /\ ws' = "open"
    BY <1>2 DEF SocketOpens
  <2>. QED
    BY <2>1
<1>3. CASE ConnectTimeout
  BY <1>3 DEF ConnectTimeout, SessionPending, Fail, serverVars, tokenVars, TypeOK, Token
<1>4. CASE ClosedRejected
  BY <1>4 DEF ClosedRejected, Fail, ConnectionTimers, TypeOK, Token
<1>5. CASE ClosedNormally
  BY <1>5 DEF ClosedNormally, ConnectionTimers, pageVars, tokenVars, TypeOK, Token
<1>6. CASE ClosedUnexpectedly
  <2>1. ws' = "closed" /\ UNCHANGED <<reconnectAttempts, creatable>>
    BY <1>6 DEF ClosedUnexpectedly
  <2>2. reconnectAttempts > 0 => pendingCommand' = 0
    BY <1>6 DEF ClosedUnexpectedly
  <2>3. 0 \notin told'
    BY <1>6 DEF ClosedUnexpectedly, Fail, TypeOK, Token
  <2>. QED
    BY <2>1, <2>2, <2>3 DEF TypeOK
<1>7. CASE ReconnectTimer
  <2>1. reconnectAttempts' = reconnectAttempts + 1 /\ UNCHANGED <<pendingCommand, creatable>>
    BY <1>7, ConnectingStep DEF ReconnectTimer, tokenVars
  <2>2. creatable => ws' = "connecting" /\ told' = told
    BY <1>7, ConnectingStep DEF ReconnectTimer
  <2>3. ~creatable => ws' = ws
    BY <1>7, ConnectingStep DEF ReconnectTimer
  <2>. QED
    BY <1>7, <2>1, <2>2, <2>3 DEF TypeOK, NoSocket, ReconnectTimer,
        ReconnectOnlyWhenClosed
<1>8. CASE Pong
  BY <1>8 DEF Pong, connVars, serverVars, pageVars, tokenVars, TypeOK, Token
<1>9. CASE PingTimeout
  BY <1>9 DEF PingTimeout, serverVars, pageVars, tokenVars, TypeOK, Token
<1>10. CASE Hidden
  BY <1>10 DEF Hidden, connVars, serverVars, pageVars, tokenVars, TypeOK, Token
<1>11. CASE Visible
  <2>1. CASE Connecting(0, timers, starting, connectionError)
    <3>1. reconnectAttempts' = 0 /\ UNCHANGED creatable
      BY <1>11, <2>1, VisibleStep, ConnectingStep
    <3>. QED
      BY <3>1
  <2>2. CASE ~Connecting(0, timers, starting, connectionError)
    <3>1. \/ ws # "closed" /\ reconnectAttempts' = 0
          \/ UNCHANGED <<ws, reconnectAttempts, told>>
      BY <1>11, <2>2, VisibleStep DEF connVars, pageVars
    <3>2. UNCHANGED <<pendingCommand, creatable>>
      BY <1>11, VisibleStep DEF tokenVars
    <3>. QED
      BY <3>1, <3>2
  <2>. QED
    BY <2>1, <2>2
<1>12. CASE ProbeTimeout
  BY <1>12 DEF ProbeTimeout, serverVars, pageVars, tokenVars, TypeOK, Token
<1>13. CASE StartRequested
  <2>1. CASE Connecting(0, timers \cup {"start"}, TRUE, FALSE)
    <3>1. reconnectAttempts' = 0
      BY <2>1, ConnectingStep
    <3>. QED
      BY <3>1
  <2>2. CASE ~Connecting(0, timers \cup {"start"}, TRUE, FALSE)
    <3>1. UNCHANGED <<ws, reconnectAttempts, told, creatable>>
      BY <1>13, <2>2, StartStep DEF connVars, pageVars
    <3>2. UNCHANGED pendingCommand
      BY <1>13 DEF StartRequested
    <3>. QED
      BY <3>1, <3>2
  <2>. QED
    BY <2>1, <2>2
<1>14. CASE TokenIssued
  <2>1. CASE Connecting(0, timers \cup {"start"}, TRUE, FALSE)
    <3>1. reconnectAttempts' = 0
      BY <2>1, ConnectingStep
    <3>. QED
      BY <3>1
  <2>2. CASE ~Connecting(0, timers \cup {"start"}, TRUE, FALSE)
    <3>1. UNCHANGED <<ws, reconnectAttempts, told, creatable>>
      BY <1>14, <2>2, StartStep DEF connVars, pageVars
    <3>2. pendingCommand' \in {pendingCommand, issued + 1}
      BY <1>14 DEF TokenIssued
    <3>3. issued + 1 \notin told
      BY DEF TypeOK, Tokens, Token
    <3>. QED
      BY <3>1, <3>2, <3>3
  <2>. QED
    BY <2>1, <2>2
<1>15. CASE TokenRefused
  BY <1>15 DEF TokenRefused, Fail, connVars, serverVars, TypeOK, Token
<1>16. CASE AutoStartCancelled
  BY <1>16 DEF AutoStartCancelled, connVars, serverVars, tokenVars, TypeOK, Token
<1>17. CASE StartTimeout
  BY <1>17 DEF StartTimeout, SessionPending, Fail, connVars, serverVars, TypeOK, Token
<1>18. CASE PtyReady
  BY <1>18 DEF PtyReady, tokenVars, TypeOK, Token
<1>19. CASE Unprocessable
  BY <1>19 DEF Unprocessable, tokenVars, TypeOK, Token
<1>20. CASE PtyExited
  BY <1>20 DEF PtyExited, tokenVars, TypeOK, Token
<1>21. CASE StartRejected
  BY <1>21 DEF StartRejected, Fail, TypeOK, Token
<1>22. CASE Cleanup
  BY <1>22 DEF Cleanup, ConnectionTimers, serverVars, pageVars, TypeOK, Token
<1>23. CASE UNCHANGED vars
  BY <1>23 DEF vars, timerVars, connVars, serverVars, pageVars, tokenVars, TypeOK, Token
<1>. QED
  BY <1>1, <1>2, <1>3, <1>4, <1>5, <1>6, <1>7, <1>8, <1>9, <1>10, <1>11, <1>12, <1>13,
      <1>14, <1>15, <1>16, <1>17, <1>18, <1>19, <1>20, <1>21, <1>22, <1>23 DEF Next

-----------------------------------------------------------------------------
(* Theorems, for any limits and any number of tokens. *)

\* The inductive invariant holds throughout (the handlers of terminal.js).
THEOREM Invariance == Spec => []IInv
<1>1. Init => IInv
  BY InitIInv
<1>2. IInv /\ [Next]_vars => IInv'
  BY NextTypeOK, NextTries, NextTokens, NextNoSocket, NextLateToken, NextConnected DEF IInv
<1>. QED
  BY <1>1, <1>2, PTL DEF Spec

\* Reconnects and missed heartbeats stay within their limits (scheduleReconnect,
\* startPingTimeoutMonitoring).
THEOREM TypeCorrect == Spec => []TypeOK
<1>1. IInv => TypeOK
  BY DEF IInv
<1>. QED
  BY <1>1, Invariance, PTL

\* No token is sent on two connections (handleSocketOpen).
THEOREM NeverReplayed == Spec => []TokenSentOnce
<1>1. IInv => TokenSentOnce
  BY DEF IInv, Tokens
<1>. QED
  BY <1>1, Invariance, PTL

\* The page never opens a second socket (initializeWebSocket).
THEOREM OneSocket == Spec => []ReconnectOnlyWhenClosed
<1>1. IInv => ReconnectOnlyWhenClosed
  BY DEF IInv
<1>. QED
  BY <1>1, Invariance, PTL

\* A page without a connection and without a next attempt has a reason
\* (handleSocketClose).
THEOREM NeverStranded == Spec => []StrandedForAReason
<1>1. IInv => StrandedForAReason
  BY DEF IInv
<1>. QED
  BY <1>1, Invariance, PTL

\* A token for which the user was told to retry is sent by the next connection or the
\* first reconnect, or never (handleSocketClose, resetTerminal, handleSocketOpen).
THEOREM LateOnce == Spec => LateAtFirstReconnectOnly
<1>. DEFINE Late == \A n \in told : n \in sent' \ sent => reconnectAttempts <= 1
<1>1. ASSUME IInv, Next PROVE Late
  <2>1. CASE SocketOpens
    <3>1. ws = "connecting" /\ sent' \subseteq sent \cup {pendingCommand}
      BY <2>1 DEF SocketOpens
    <3>. QED
      BY <1>1, <3>1 DEF IInv, LateToken
  <2>2. CASE TokenIssued
    <3>1. sent' \subseteq sent \cup {issued + 1}
      BY <2>2 DEF TokenIssued
    <3>2. issued + 1 \notin told
      BY <1>1, BoundsAssumption DEF IInv, TypeOK, Tokens, Token
    <3>. QED
      BY <3>1, <3>2
  <2>3. CASE ~SocketOpens /\ ~TokenIssued
    <3>1. sent' = sent
      BY <1>1, <2>3, VisibleStep DEF Next, FirstConnection, ConnectTimeout, ClosedRejected,
          ClosedNormally, ClosedUnexpectedly, ReconnectTimer, Pong, PingTimeout, Hidden,
          ProbeTimeout, StartRequested, TokenRefused, AutoStartCancelled, StartTimeout,
          PtyReady, Unprocessable, PtyExited, StartRejected, Cleanup, tokenVars
    <3>. QED
      BY <3>1
  <2>. QED
    BY <2>1, <2>2, <2>3
<1>2. IInv /\ [Next]_vars => [Late]_vars
  BY <1>1
<1>. QED
  BY <1>2, Invariance, PTL DEF Spec, LateAtFirstReconnectOnly

\* After a rejection only the user, or the first connection of the page, connects
\* again (resolveTerminalCloseOutcome, handleVisibilityChange).
THEOREM StaysRejected == Spec => RejectedStaysOut
<1>. DEFINE Out == authRejected /\ ws = "closed" /\ ws' = "connecting"
                      => ~authRejected' \/ "first" \in timers
<1>1. ASSUME IInv, Next PROVE Out
  <2>. SUFFICES ASSUME authRejected, ws = "closed", ws' = "connecting",
                       "first" \notin timers
                PROVE  ~authRejected'
    OBVIOUS
  <2>1. CASE FirstConnection
    BY <1>1, <2>1 DEF FirstConnection
  <2>2. CASE SocketOpens
    BY <1>1, <2>2 DEF SocketOpens
  <2>3. CASE ConnectTimeout
    BY <1>1, <2>3 DEF ConnectTimeout
  <2>4. CASE ClosedRejected
    BY <1>1, <2>4 DEF ClosedRejected
  <2>5. CASE ClosedNormally
    BY <1>1, <2>5 DEF ClosedNormally
  <2>6. CASE ClosedUnexpectedly
    BY <1>1, <2>6 DEF ClosedUnexpectedly, ScheduleReconnect
  <2>7. CASE ReconnectTimer
    BY <1>1, <2>7 DEF ReconnectTimer, IInv, ReconnectOnlyWhenClosed
  <2>8. CASE Pong
    BY <1>1, <2>8 DEF Pong, connVars
  <2>9. CASE PingTimeout
    BY <1>1, <2>9 DEF PingTimeout
  <2>10. CASE Hidden
    BY <1>1, <2>10 DEF Hidden, connVars
  <2>11. CASE Visible
    BY <1>1, <2>11, VisibleStep DEF connVars
  <2>12. CASE ProbeTimeout
    BY <1>1, <2>12 DEF ProbeTimeout
  <2>13. CASE StartRequested
    BY <1>1, <2>13, StartStep DEF connVars
  <2>14. CASE TokenIssued
    BY <1>1, <2>14, StartStep DEF connVars
  <2>15. CASE TokenRefused
    BY <1>1, <2>15 DEF TokenRefused, connVars
  <2>16. CASE AutoStartCancelled
    BY <1>1, <2>16 DEF AutoStartCancelled, connVars
  <2>17. CASE StartTimeout
    BY <1>1, <2>17 DEF StartTimeout, connVars
  <2>18. CASE PtyReady
    BY <1>1, <2>18 DEF PtyReady
  <2>19. CASE Unprocessable
    BY <1>1, <2>19 DEF Unprocessable
  <2>20. CASE PtyExited
    BY <1>1, <2>20 DEF PtyExited
  <2>21. CASE StartRejected
    BY <1>1, <2>21 DEF StartRejected
  <2>22. CASE Cleanup
    BY <1>1, <2>22 DEF Cleanup
  <2>. QED
    BY <1>1, <2>1, <2>2, <2>3, <2>4, <2>5, <2>6, <2>7, <2>8, <2>9, <2>10, <2>11,
        <2>12, <2>13, <2>14, <2>15, <2>16, <2>17, <2>18, <2>19, <2>20, <2>21, <2>22
        DEF Next
<1>2. IInv /\ [Next]_vars => [Out]_vars
  BY <1>1
<1>. QED
  BY <1>2, Invariance, PTL DEF Spec, RejectedStaysOut
=============================================================================
