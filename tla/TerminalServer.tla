--------------------------- MODULE TerminalServer ---------------------------
(***************************************************************************)
(* The terminal server (docker/coolify-terminal): one Node process that    *)
(* serves the terminals of all users.  Each websocket has a session object *)
(* in userSessions; a browser sends single-use tokens on it, the server    *)
(* redeems a token at Coolify and starts one PTY (an ssh client) for it.   *)
(*                                                                         *)
(* The process has one thread, so an action is the code between two        *)
(* awaits or timers.  What makes it hard is what happens in between: a     *)
(* socket can close, a second token can be redeemed and a PTY can exit     *)
(* while another handler waits for a kill or an answer of Coolify.         *)
(*                                                                         *)
(* A token starts at most one PTY, so a token also names its PTY and its   *)
(* terminal session at Coolify.                                            *)
(***************************************************************************)
EXTENDS Naturals, FiniteSets

CONSTANTS
    Sockets,         \* websocket connections (userId in the code)
    Tokens,          \* single-use terminal tokens, numbered as they are sent
    Attach,          \* the tokens whose command is a docker attach
    KillAttempts,    \* tries of killPtyProcess (5 in the code)
    DetachAttempts,  \* tries of detachPtyProcess (3 in the code)
    MaxFailures,     \* TERMINAL_SESSION_CHECK_MAX_FAILURES
    IdleLimit,       \* TERMINAL_IDLE_TIMEOUT_SECONDS > 0
    Watched,         \* bound: the tokens whose sessions reach a limit
    OnClose, Nobody, \* who waits for a kill, besides a token
    None

ASSUME TokensAssumption == Tokens \subseteq Nat /\ Attach \subseteq Tokens
ASSUME OthersAssumption ==
    /\ {None, OnClose, Nobody} \cap Tokens = {}
    /\ OnClose # Nobody
ASSUME LimitsAssumption ==
    /\ KillAttempts \in Nat \ {0}
    /\ DetachAttempts \in Nat \ {0}
    /\ MaxFailures \in Nat \ {0}
    /\ IdleLimit \in BOOLEAN

VARIABLES
    link,     \* state of the websocket
    auth,     \* the fetch of the authorized hosts (authReady)
    listed,   \* the sockets in userSessions
    current,  \* session.ptyProcess
    active,   \* session.isActive
    reason,   \* session.endReason, None when it is not set
    timer,    \* session.terminalSessionTimer, by the PTY it was set for
    stage,    \* how far the handling of a token is
    home,     \* the socket a token was sent on
    pty,      \* the ssh process of a token
    report,   \* the end reported to Coolify
    odd,      \* history: PTYs whose start was overtaken by events (see Spawn)
    allowed,  \* whether Coolify still allows the session
    check,    \* the session check of the PTY's watch, in flight
    failures, \* failed checks in a row
    expired,  \* PTYs that reached the maximum duration or were idle
    waits,    \* killPtyProcess calls that wait for an exit
    ready     \* waits that an exit has resolved and that run next

socketVars == <<link, auth>>
sessionVars == <<listed, current, active, reason, timer>>
tokenVars == <<stage, home, pty, report, odd>>
watchVars == <<allowed, check, failures, expired>>
killVars == <<waits, ready>>
vars == <<socketVars, sessionVars, tokenVars, watchVars, killVars>>

Reasons == {"exited", "replaced", "disconnected", "max_duration", "idle",
            "revoked", "rejected"}
ASSUME NoneAssumption == None \notin Sockets \cup Reasons

Running == {"alive", "dying"}  \* the ssh process has not exited yet

\* A killPtyProcess call: who continues when it ends (a token's handleCommand,
\* handleClose, or nobody), and the PTY it detaches from (None: it types the
\* kill command into whatever PTY the session has then).
Waits == [sock : Sockets, by : Tokens \cup {OnClose, Nobody},
          target : Attach \cup {None},
          tries : 1..(KillAttempts + DetachAttempts + 1)]

TypeOK ==
    /\ link \in [Sockets -> {"upgrading", "open", "closing", "closed"}]
    /\ auth \in [Sockets -> {"none", "fetching", "ready", "failed"}]
    /\ listed \in SUBSET Sockets
    /\ current \in [Sockets -> Tokens \cup {None}]
    /\ active \in [Sockets -> BOOLEAN]
    /\ reason \in [Sockets -> Reasons \cup {None}]
    /\ timer \in [Sockets -> Tokens \cup {None}]
    /\ stage \in [Tokens -> {"unused", "buffered", "redeeming", "killing",
                             "running", "ended"}]
    /\ home \in [Tokens -> Sockets \cup {None}]
    /\ pty \in [Tokens -> {"none", "alive", "dying", "exited"}]
    /\ report \in [Tokens -> Reasons \cup {None}]
    /\ odd \in SUBSET Tokens
    /\ allowed \in [Tokens -> BOOLEAN]
    /\ check \in [Tokens -> {"idle", "active", "revoked", "failed"}]
    /\ failures \in [Tokens -> 0..MaxFailures]
    /\ expired \in SUBSET Tokens
    /\ waits \in SUBSET Waits
    /\ ready \in SUBSET Waits

Init ==
    /\ link = [s \in Sockets |-> "upgrading"]
    /\ auth = [s \in Sockets |-> "none"]
    /\ listed = {}
    /\ current = [s \in Sockets |-> None]
    /\ active = [s \in Sockets |-> FALSE]
    /\ reason = [s \in Sockets |-> None]
    /\ timer = [s \in Sockets |-> None]
    /\ stage = [t \in Tokens |-> "unused"]
    /\ home = [t \in Tokens |-> None]
    /\ pty = [t \in Tokens |-> "none"]
    /\ report = [t \in Tokens |-> None]
    /\ odd = {}
    /\ allowed = [t \in Tokens |-> TRUE]
    /\ check = [t \in Tokens |-> "idle"]
    /\ failures = [t \in Tokens |-> 0]
    /\ expired = {}
    /\ waits = {}
    /\ ready = {}

-----------------------------------------------------------------------------
(* Shared steps of the handlers. *)

\* What an exit resolved runs before any other event of the process.
Turn == ready = {}

\* ws.close(...): the socket closes once the peer answers or a timer ends it.
Closing(s) == [link EXCEPT ![s] = IF @ = "open" THEN "closing" ELSE @]

\* reportEnd: at most one report per terminal session.
Reported(t, r) == [report EXCEPT ![t] = IF @ = None THEN r ELSE @]

\* killPtyProcess(userId) returns without waiting: the session is not listed,
\* has no PTY, or its attach PTY has already exited.
NothingToKill(s) ==
    \/ s \notin listed
    \/ current[s] = None
    \/ current[s] \in Attach /\ ~active[s]

\* killPtyProcess(userId): the wait for the current PTY of the session.
KillWait(s, by) ==
    [sock |-> s, by |-> by, tries |-> 1,
     target |-> IF current[s] \in Attach THEN current[s] ELSE None]

\* A kill that nobody continues from.
KillAndForget(s) ==
    waits' = IF NothingToKill(s) THEN waits ELSE waits \cup {KillWait(s, Nobody)}

\* Mutant: a new PTY keeps the end reason of the one before.
Spawn_keepsReason(t, next) ==
    LET s == home[t] IN
    /\ current' = [current EXCEPT ![s] = t]
    /\ active' = [active EXCEPT ![s] = TRUE]
    /\ timer' = [timer EXCEPT ![s] = t]
    /\ stage' = [stage EXCEPT ![t] = "running"]
    /\ pty' = [pty EXCEPT ![t] = "alive"]
    /\ odd' = IF link[s] = "closed" \/ \E w \in next : w.by \in Tokens
              THEN odd \cup {t} ELSE odd
    /\ UNCHANGED <<report, reason>>

\* The end of handleCommand: the PTY of the token becomes the session's PTY.
\* Two starts are marked: after the socket has closed, and while the command
\* of another token is about to run too.
Spawn(t, next) ==
    LET s == home[t] IN
    /\ current' = [current EXCEPT ![s] = t]
    /\ active' = [active EXCEPT ![s] = TRUE]
    /\ reason' = [reason EXCEPT ![s] = None]
    /\ timer' = [timer EXCEPT ![s] = t]
    /\ stage' = [stage EXCEPT ![t] = "running"]
    /\ pty' = [pty EXCEPT ![t] = "alive"]
    /\ odd' = IF link[s] = "closed" \/ \E w \in next : w.by \in Tokens
              THEN odd \cup {t} ELSE odd
    /\ UNCHANGED report

\* handleCommand returns false: the command is not allowed, or the previous
\* PTY did not end ("unprocessable").
Refuse(t) ==
    /\ stage' = [stage EXCEPT ![t] = "ended"]
    /\ report' = Reported(t, "rejected")
    /\ UNCHANGED <<current, active, reason, odd>>

\* handleCommand after the previous PTY is gone: clear its timer, check the
\* target host and the arguments, then start the PTY.
Start(t, next) ==
    \/ Spawn(t, next)
    \/ /\ Refuse(t)
       /\ timer' = [timer EXCEPT ![home[t]] = None]
       /\ UNCHANGED pty

\* A killPtyProcess call returns true: the handler that waited for it goes on.
\* The second argument are the calls that return with it, the third the timers
\* if no token sets one.
Continue(w, next, timers) ==
    \/ /\ w.by \in Tokens
       /\ Start(w.by, next)
       /\ UNCHANGED listed
    \/ /\ w.by \notin Tokens
       /\ listed' = IF w.by = OnClose THEN listed \ {w.sock} ELSE listed
       /\ timer' = timers
       /\ UNCHANGED <<current, active, reason, stage, pty, report, odd>>

\* A killPtyProcess call returns false; the caller says what became of the PTY.
GiveUp(w) ==
    \/ /\ w.by \in Tokens
       /\ Refuse(w.by)
       /\ UNCHANGED <<listed, timer>>
    \/ /\ w.by \notin Tokens
       /\ listed' = IF w.by = OnClose THEN listed \ {w.sock} ELSE listed
       /\ UNCHANGED <<current, active, reason, timer, stage, report, odd>>

-----------------------------------------------------------------------------
(* Connections. *)

\* An authenticated upgrade emits 'connection'; a rejected one is closed.
Upgrade(s) ==
    /\ Turn
    /\ link[s] = "upgrading"
    /\ \/ /\ link' = [link EXCEPT ![s] = "open"]
          /\ auth' = [auth EXCEPT ![s] = "fetching"]
       \/ /\ link' = [link EXCEPT ![s] = "closed"]
          /\ UNCHANGED auth
    /\ UNCHANGED <<sessionVars, tokenVars, watchVars, killVars>>

\* The answer of /terminal/auth/ips: list the session and handle the messages
\* that arrived meanwhile, whether or not the socket is still there.
IpsFetched(s) ==
    /\ Turn
    /\ auth[s] = "fetching"
    /\ auth' = [auth EXCEPT ![s] = "ready"]
    /\ listed' = listed \cup {s}
    /\ stage' = [t \in Tokens |->
                   IF stage[t] = "buffered" /\ home[t] = s THEN "redeeming" ELSE stage[t]]
    /\ UNCHANGED <<link, current, active, reason, timer, home, pty, report, odd,
                   watchVars, killVars>>

IpsFailed(s) ==
    /\ Turn
    /\ auth[s] = "fetching"
    /\ auth' = [auth EXCEPT ![s] = "failed"]
    /\ link' = Closing(s)
    /\ UNCHANGED <<sessionVars, tokenVars, watchVars, killVars>>

\* The 'close' event, whatever closed the socket: the browser, the end of a
\* close handshake, or terminate() by the heartbeat or the rejection timer.
Close(s) ==
    /\ Turn
    /\ link[s] \in {"open", "closing"}
    /\ link' = [link EXCEPT ![s] = "closed"]
    /\ reason' = [reason EXCEPT ![s] = IF s \in listed /\ active[s] THEN "disconnected" ELSE @]
    /\ IF NothingToKill(s)
       THEN listed' = listed \ {s} /\ UNCHANGED waits
       ELSE waits' = waits \cup {KillWait(s, OnClose)} /\ UNCHANGED listed
    /\ UNCHANGED <<auth, current, active, timer, tokenVars, watchVars, ready>>

\* The 'error' event of an open socket; 'close' follows.
SocketError(s) ==
    /\ Turn
    /\ link[s] = "open"
    /\ link' = Closing(s)
    /\ reason' = [reason EXCEPT ![s] = IF s \in listed /\ active[s] THEN "disconnected" ELSE @]
    /\ KillAndForget(s)
    /\ UNCHANGED <<auth, listed, current, active, timer, tokenVars, watchVars, ready>>

\* checkActive with 'force': the browser wants its terminal gone.
ForceEnd(s) ==
    /\ Turn
    /\ link[s] \in {"open", "closing"}
    /\ auth[s] = "ready"
    /\ active[s]
    /\ reason' = [reason EXCEPT ![s] = "replaced"]
    /\ KillAndForget(s)
    /\ UNCHANGED <<socketVars, listed, current, active, timer, tokenVars, watchVars, ready>>

-----------------------------------------------------------------------------
(* Tokens. *)

\* A browser sends each token once; a message is still handled while the
\* server waits for the close handshake.
SendToken(t, s) ==
    /\ Turn
    /\ stage[t] = "unused"
    /\ \A u \in Tokens : u < t => stage[u] # "unused"
    /\ link[s] \in {"open", "closing"}
    /\ home' = [home EXCEPT ![t] = s]
    /\ stage' = [stage EXCEPT ![t] = IF auth[s] = "ready" THEN "redeeming" ELSE "buffered"]
    /\ UNCHANGED <<socketVars, sessionVars, pty, report, odd, watchVars, killVars>>

\* The token is invalid, or the answer of Coolify is a refusal or is lost.
RedeemDenied(t) ==
    /\ Turn
    /\ stage[t] = "redeeming"
    /\ stage' = [stage EXCEPT ![t] = "ended"]
    /\ link' = Closing(home[t])
    /\ UNCHANGED <<auth, sessionVars, home, pty, report, odd, watchVars, killVars>>

\* Coolify has created the terminal session, but the socket closed meanwhile:
\* handleCommand throws on the missing session.
RedeemedTooLate(t) ==
    /\ Turn
    /\ stage[t] = "redeeming"
    /\ home[t] \notin listed
    /\ stage' = [stage EXCEPT ![t] = "ended"]
    /\ report' = Reported(t, "rejected")
    /\ link' = Closing(home[t])
    /\ UNCHANGED <<auth, sessionVars, home, pty, odd, watchVars, killVars>>

\* handleCommand of a session without a running PTY.
RedeemedFirst(t) ==
    /\ Turn
    /\ stage[t] = "redeeming"
    /\ home[t] \in listed
    /\ ~active[home[t]]
    /\ Start(t, {})
    /\ UNCHANGED <<socketVars, listed, home, watchVars, killVars>>

\* handleCommand of a session with a running PTY, up to its await.
RedeemedNext(t) ==
    LET s == home[t] IN
    /\ Turn
    /\ stage[t] = "redeeming"
    /\ s \in listed
    /\ active[s]
    /\ stage' = [stage EXCEPT ![t] = "killing"]
    /\ reason' = [reason EXCEPT ![s] = "replaced"]
    /\ waits' = waits \cup {KillWait(s, t)}
    /\ UNCHANGED <<socketVars, listed, current, active, timer, home, pty, report, odd,
                   watchVars, ready>>

-----------------------------------------------------------------------------
(* Ending a PTY. *)

Retried(w) == (waits \ {w}) \cup {[w EXCEPT !.tries = @ + 1]}

\* Mutant: the handler goes on without looking whether the PTY is gone.
KillSucceeds_unchecked(w) ==
    /\ Turn
    /\ w \in waits
    /\ w.target = None
    /\ waits' = waits \ {w}
    /\ Continue(w, {}, [timer EXCEPT ![w.sock] = None])
    /\ UNCHANGED <<socketVars, home, watchVars, ready>>

\* 500 ms after a try of killPtyProcess: the session has no running PTY.
KillSucceeds(w) ==
    /\ Turn
    /\ w \in waits
    /\ w.target = None
    /\ ~active[w.sock]
    /\ waits' = waits \ {w}
    /\ Continue(w, {}, [timer EXCEPT ![w.sock] = None])
    /\ UNCHANGED <<socketVars, home, watchVars, ready>>

\* It has one: type the kill command again, into the PTY it has now.
KillAgain(w) ==
    /\ Turn
    /\ w \in waits
    /\ w.target = None
    /\ active[w.sock]
    /\ w.tries < KillAttempts
    /\ waits' = Retried(w)
    /\ UNCHANGED <<socketVars, sessionVars, tokenVars, watchVars, ready>>

\* Mutant: the last try does not kill the ssh client.
KillGivesUp_leavesClient(w) ==
    /\ Turn
    /\ w \in waits
    /\ w.target = None
    /\ active[w.sock]
    /\ w.tries >= KillAttempts
    /\ waits' = waits \ {w}
    /\ GiveUp(w)
    /\ UNCHANGED <<socketVars, home, pty, watchVars, ready>>

\* After the last try: kill the ssh client and do not wait for its exit.
KillGivesUp(w) ==
    /\ Turn
    /\ w \in waits
    /\ w.target = None
    /\ active[w.sock]
    /\ w.tries >= KillAttempts
    /\ waits' = waits \ {w}
    /\ pty' = [pty EXCEPT ![current[w.sock]] = "dying"]
    /\ GiveUp(w)
    /\ UNCHANGED <<socketVars, home, watchVars, ready>>

\* Mutant: the detach keys are sent without a limit.
DetachAgain_unlimited(w) ==
    /\ Turn
    /\ w \in waits
    /\ w.target # None
    /\ waits' = Retried(w)
    /\ pty' = IF w.tries = DetachAttempts THEN [pty EXCEPT ![w.target] = "dying"] ELSE pty
    /\ UNCHANGED <<socketVars, sessionVars, stage, home, report, odd, watchVars, ready>>

\* 500 ms after the detach keys: once more, or kill the local ssh client.
DetachAgain(w) ==
    /\ Turn
    /\ w \in waits
    /\ w.target # None
    /\ w.tries <= DetachAttempts
    /\ waits' = Retried(w)
    /\ pty' = IF w.tries = DetachAttempts THEN [pty EXCEPT ![w.target] = "dying"] ELSE pty
    /\ UNCHANGED <<socketVars, sessionVars, stage, home, report, odd, watchVars, ready>>

\* One second after the kill there is still no exit.
DetachGivesUp(w) ==
    /\ Turn
    /\ w \in waits
    /\ w.target # None
    /\ w.tries > DetachAttempts
    /\ waits' = waits \ {w}
    /\ GiveUp(w)
    /\ UNCHANGED <<socketVars, home, pty, watchVars, ready>>

\* A PTY exits: its onExit handler, then the exit listeners of the detach
\* calls that wait for it.  Their callers go on before any other event.  The
\* answer to a check in flight has no effect any more (see EndSession).
Exit(t) ==
    LET s == home[t]
        detached == {w \in waits : w.target = t}
    IN
    /\ Turn
    /\ pty[t] \in Running
    /\ pty' = [pty EXCEPT ![t] = "exited"]
    /\ stage' = [stage EXCEPT ![t] = "ended"]
    /\ waits' = waits \ detached
    /\ ready' = detached
    /\ IF current[s] = t
       THEN /\ report' = Reported(t, IF reason[s] = None THEN "exited" ELSE reason[s])
            /\ active' = [active EXCEPT ![s] = FALSE]
            /\ timer' = [timer EXCEPT ![s] = None]
            /\ current' = [current EXCEPT ![s] = IF detached = {} THEN @ ELSE None]
       ELSE /\ report' = Reported(t, "replaced")
            /\ UNCHANGED <<current, active, timer>>
    /\ check' = [check EXCEPT ![t] = "idle"]
    /\ UNCHANGED <<socketVars, listed, reason, home, odd, allowed, failures, expired>>

\* The caller of a detach call whose PTY has exited.
Resume(w) ==
    /\ w \in ready
    /\ ready' = ready \ {w}
    /\ Continue(w, ready', timer)
    /\ UNCHANGED <<socketVars, home, watchVars, waits>>

-----------------------------------------------------------------------------
(* The limits of a session: its duration, idleness, and Coolify's consent.  *)

\* endTerminalSession: only for the running PTY of the session object.
EndSession(t, r) ==
    LET s == home[t] IN
    IF active[s] /\ current[s] = t
    THEN reason' = [reason EXCEPT ![s] = r] /\ KillAndForget(s)
    ELSE UNCHANGED <<reason, waits>>

\* The timer of the maximum duration.
MaxDuration(t) ==
    /\ Turn
    /\ t \in Watched \ expired
    /\ \E s \in Sockets : timer[s] = t
    /\ expired' = expired \cup {t}
    /\ EndSession(t, "max_duration")
    /\ UNCHANGED <<socketVars, listed, current, active, timer, tokenVars,
                   allowed, check, failures, ready>>

\* A tick of the watch of the session's PTY that finds it idle.
\* Bound: a PTY reaches one of the two limits.
Idle(t) ==
    /\ Turn
    /\ IdleLimit
    /\ t \in Watched \ expired
    /\ expired' = expired \cup {t}
    /\ pty[t] \in Running
    /\ current[home[t]] = t
    /\ EndSession(t, "idle")
    /\ UNCHANGED <<socketVars, listed, current, active, timer, tokenVars,
                   allowed, check, failures, ready>>

\* Logout, lost admin role, removal from the team, terminal access turned off.
Revoke(t) ==
    /\ Turn
    /\ t \in Watched
    /\ stage[t] \in {"killing", "running"}
    /\ allowed' = [allowed EXCEPT ![t] = FALSE]
    /\ UNCHANGED <<socketVars, sessionVars, tokenVars, check, failures, expired, killVars>>

\* A tick that asks Coolify.  The check fails when Coolify cannot be reached.
\* Bound: no more checks after the last failure that is counted.
CheckSent(t) ==
    /\ Turn
    /\ t \in Watched
    /\ check[t] = "idle"
    /\ failures[t] < MaxFailures
    /\ pty[t] \in Running
    /\ current[home[t]] = t
    /\ \E outcome \in {"failed", IF allowed[t] THEN "active" ELSE "revoked"} :
          check' = [check EXCEPT ![t] = outcome]
    /\ UNCHANGED <<socketVars, sessionVars, tokenVars, allowed, failures, expired, killVars>>

\* Mutant: only failed checks count.
CheckAnswer_ignoresRevoked(t) ==
    /\ Turn
    /\ check[t] # "idle"
    /\ check' = [check EXCEPT ![t] = "idle"]
    /\ failures' = [failures EXCEPT ![t] = IF check[t] = "failed" THEN @ + 1 ELSE 0]
    /\ IF failures'[t] >= MaxFailures
       THEN EndSession(t, "revoked")
       ELSE UNCHANGED <<reason, waits>>
    /\ UNCHANGED <<socketVars, listed, current, active, timer, tokenVars, allowed,
                   expired, ready>>

\* The answer, whatever has happened to the session meanwhile.
CheckAnswer(t) ==
    /\ Turn
    /\ check[t] # "idle"
    /\ check' = [check EXCEPT ![t] = "idle"]
    /\ failures' = [failures EXCEPT ![t] =
                       CASE check[t] = "active" -> 0
                         [] check[t] = "revoked" -> @
                         [] OTHER -> @ + 1]
    /\ IF check[t] = "revoked" \/ failures'[t] >= MaxFailures
       THEN EndSession(t, "revoked")
       ELSE UNCHANGED <<reason, waits>>
    /\ UNCHANGED <<socketVars, listed, current, active, timer, tokenVars, allowed,
                   expired, ready>>

-----------------------------------------------------------------------------
Next ==
    \/ \E s \in Sockets : \/ Upgrade(s) \/ IpsFetched(s) \/ IpsFailed(s)
                          \/ Close(s) \/ SocketError(s) \/ ForceEnd(s)
                          \/ \E t \in Tokens : SendToken(t, s)
    \/ \E t \in Tokens : \/ RedeemDenied(t) \/ RedeemedTooLate(t)
                         \/ RedeemedFirst(t) \/ RedeemedNext(t)
                         \/ Exit(t) \/ MaxDuration(t) \/ Idle(t) \/ Revoke(t)
                         \/ CheckSent(t) \/ CheckAnswer(t)
    \/ \E w \in waits : \/ KillSucceeds(w) \/ KillAgain(w) \/ KillGivesUp(w)
                        \/ DetachAgain(w) \/ DetachGivesUp(w)
    \/ \E w \in ready : Resume(w)

\* 500 ms of a kill or detach call have passed.
Tick(w) == \/ KillSucceeds(w) \/ KillAgain(w) \/ KillGivesUp(w)
           \/ DetachAgain(w) \/ DetachGivesUp(w)

\* Checks of Coolify are answered or time out, timers fire, a killed ssh client
\* exits.  Browsers need not do anything.
Fairness ==
    /\ \A n \in 1..(KillAttempts + DetachAttempts) :
          WF_vars(\E w \in waits : w.tries = n /\ Tick(w))
    /\ WF_vars(\E w \in ready : Resume(w))
    /\ \A t \in Tokens : WF_vars(pty[t] = "dying" /\ Exit(t))
    /\ \A t \in Watched : WF_vars(CheckSent(t)) /\ WF_vars(CheckAnswer(t))

Spec == Init /\ [][Next]_vars
FairSpec == Spec /\ Fairness

-----------------------------------------------------------------------------
(* Properties. *)

\* The PTY is the session's, so that timers, checks and closing reach it.
Controlled(t) ==
    /\ current[home[t]] = t
    /\ active[home[t]]
    /\ timer[home[t]] = t

\* A PTY whose start nothing overtook stays the PTY of its session, with its
\* duration limit armed, until it has exited: handlers that wait for an older
\* PTY never take the session away from it (handleCommand, detachPtyProcess).
StaysControlled == \A t \in Tokens \ odd : pty[t] \in Running => Controlled(t)

\* Closing the socket forgets the session only after its PTY has exited or its
\* ssh client was killed (handleClose), unless the PTY was started too late.
NoPtyLeftBehind == \A t \in Tokens \ odd : pty[t] = "alive" => home[t] \in listed

\* The report of an end is about this PTY: it comes with the exit and not before,
\* every exit is reported, and the reason is not left over from an earlier PTY of
\* the session (reportEnd, endReason).
ReportIsTrue ==
    \A t \in Tokens :
        /\ report[t] # None => pty[t] \notin Running
        /\ pty[t] = "exited" => report[t] # None
        /\ report[t] = "revoked" => ~allowed[t] \/ failures[t] >= MaxFailures
        /\ report[t] \in {"max_duration", "idle"} => t \in expired
        /\ report[t] = "disconnected" => link[home[t]] # "open"

\* A PTY ends after its connection has closed or Coolify no longer allows its
\* session, unless something overtook its start (handleClose, killPtyProcess,
\* watchTerminalSession).
UnwantedPtyEnds ==
    \A t \in Tokens :
        (pty[t] \in Running /\ t \notin odd /\ (link[home[t]] = "closed" \/ ~allowed[t]))
            ~> pty[t] = "exited"

\* The kill command is never typed into an attach PTY, which would end the main
\* process of the container (the comment on isAttach in handleCommand).
AttachOnlyDetached ==
    [][\A w \in waits : KillAgain(w) => current[w.sock] \notin Attach]_vars
=============================================================================
