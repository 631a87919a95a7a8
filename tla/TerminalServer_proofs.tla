------------------------ MODULE TerminalServer_proofs ------------------------
(***************************************************************************)
(* Proofs about the terminal server.  IInv strengthens the three safety    *)
(* properties by what relates the maps of the process: which token a       *)
(* session's PTY belongs to, who waits for a kill and for which PTY, and   *)
(* where an end reason came from.  One lemma per handler step shows that   *)
(* the step keeps IInv, conjunct by conjunct.                              *)
(***************************************************************************)
EXTENDS TerminalServer, TLAPS

\* A token that was sent has a socket; it has a PTY once it runs, and a report
\* once it has ended, at the latest when its PTY has.
Homes == \A t \in Tokens : stage[t] # "unused" => home[t] \in Sockets
Stages ==
    \A t \in Tokens :
        /\ stage[t] = "running" <=> pty[t] \in Running
        /\ stage[t] \in {"unused", "buffered", "redeeming", "killing"} => pty[t] = "none"
        /\ stage[t] # "ended" => report[t] = None

\* The current PTY of a session was sent on its socket, and the session is active
\* while that PTY runs.
Sessions ==
    \A s \in Sockets :
        /\ active[s] => current[s] # None
        /\ current[s] # None =>
              /\ home[current[s]] = s
              /\ stage[current[s]] \in {"running", "ended"}
              /\ active[s] <=> pty[current[s]] \in Running

\* A session is listed from the fetch of its hosts, which follows the upgrade, until
\* its socket has closed.
Listing ==
    /\ \A s \in Sockets :
          /\ auth[s] = "ready" => s \in listed \/ link[s] = "closed"
          /\ link[s] = "upgrading" => auth[s] = "none"
    /\ \A t \in Tokens : stage[t] \notin {"unused", "buffered"} => auth[home[t]] = "ready"

\* A check in flight is about a PTY that runs and does not forget its outcome.
Checks ==
    \A t \in Tokens :
        /\ check[t] # "idle" => failures[t] < MaxFailures /\ pty[t] \in Running
        /\ check[t] = "revoked" => ~allowed[t]

\* Who waits: a token that was not started yet, once, or the end of a closed socket.
Calls == waits \cup ready
Callers ==
    /\ \A w \in Calls :
          /\ w.by \in Tokens => stage[w.by] = "killing" /\ home[w.by] = w.sock
          /\ w.by = OnClose => link[w.sock] = "closed"
    /\ \A v, w \in Calls : v.by \in Tokens /\ v.by = w.by => v = w
    /\ waits \cap ready = {}

\* A detach call waits for the current PTY, and has killed it after its last try.
Targets ==
    \A w \in waits : w.target # None =>
        /\ active[w.sock]
        /\ current[w.sock] = w.target
        /\ w.tries > DetachAttempts => pty[w.target] = "dying"

\* While the callers of an exit go on, nobody waits for another exit of the
\* session, and only a PTY whose start was overtaken runs.
Resumed ==
    \A w \in ready :
        /\ \A v \in waits : v.sock = w.sock => v.target = None
        /\ w.by # Nobody /\ active[w.sock] => current[w.sock] \in odd

\* Where the end reason of a session comes from.
Provenance ==
    /\ \A s \in Sockets :
          /\ reason[s] = "disconnected" => link[s] \in {"closing", "closed"}
          /\ active[s] /\ reason[s] = "revoked" =>
                ~allowed[current[s]] \/ failures[current[s]] >= MaxFailures
          /\ active[s] /\ reason[s] \in {"max_duration", "idle"} => current[s] \in expired
    /\ \A t \in Tokens : report[t] = "disconnected" => link[home[t]] \in {"closing", "closed"}

IInv ==
    /\ TypeOK /\ Homes /\ Stages /\ Sessions /\ Listing /\ Checks
    /\ Callers /\ Targets /\ Resumed /\ Provenance
    /\ StaysControlled /\ NoPtyLeftBehind /\ ReportIsTrue

-----------------------------------------------------------------------------
(* What each step keeps. *)

\* An upgrade opens or closes the link of a socket that has sent nothing.
LEMMA UpgradeKeeps ==
    ASSUME IInv, NEW s \in Sockets, Upgrade(s)
    PROVE  IInv'
<1>1. TypeOK'
  BY DEF IInv, Upgrade, sessionVars, tokenVars, watchVars, killVars, TypeOK
<1>2. Listing'
  BY DEF IInv, Upgrade, sessionVars, tokenVars, Listing, TypeOK, Homes
<1>3. Callers'
  BY DEF IInv, Upgrade, tokenVars, killVars, Callers, Calls, TypeOK, Waits
<1>4. Provenance'
  BY NoneAssumption DEF IInv, Upgrade, sessionVars, tokenVars, watchVars, Provenance,
      TypeOK, Reasons, Homes, Stages
<1>5. ReportIsTrue'
  BY NoneAssumption DEF IInv, Upgrade, tokenVars, watchVars, ReportIsTrue, TypeOK,
      Reasons, Homes, Stages, Provenance
<1>6. (Homes /\ Stages /\ Sessions /\ Checks /\ Targets /\ Resumed /\ StaysControlled /\
    NoPtyLeftBehind)'
  BY DEF IInv, Upgrade, sessionVars, tokenVars, watchVars, killVars, Homes, Stages,
      Sessions, Checks, Targets, Resumed, StaysControlled, Controlled, NoPtyLeftBehind
<1>. QED
  BY <1>1, <1>2, <1>3, <1>4, <1>5, <1>6 DEF IInv

\* The session is listed before its tokens are redeemed.
LEMMA IpsFetchedKeeps ==
    ASSUME IInv, NEW s \in Sockets, IpsFetched(s)
    PROVE  IInv'
<1>1. TypeOK'
  BY DEF IInv, IpsFetched, watchVars, killVars, TypeOK
<1>2. Homes'
  BY DEF IInv, IpsFetched, Homes
<1>3. Stages'
  BY DEF IInv, IpsFetched, Stages
<1>4. Sessions'
  BY DEF IInv, IpsFetched, Sessions, TypeOK
<1>5. Listing'
  BY DEF IInv, IpsFetched, Listing, TypeOK
<1>6. Callers'
  BY DEF IInv, IpsFetched, killVars, Callers, Calls
<1>7. NoPtyLeftBehind'
  BY DEF IInv, IpsFetched, NoPtyLeftBehind
<1>8. (Checks /\ Targets /\ Resumed /\ Provenance /\ StaysControlled /\ ReportIsTrue)'
  BY DEF IInv, IpsFetched, watchVars, killVars, Checks, Targets, Resumed, Provenance,
      StaysControlled, Controlled, ReportIsTrue
<1>. QED
  BY <1>1, <1>2, <1>3, <1>4, <1>5, <1>6, <1>7, <1>8 DEF IInv

\* A failed fetch lists nothing.
LEMMA IpsFailedKeeps ==
    ASSUME IInv, NEW s \in Sockets, IpsFailed(s)
    PROVE  IInv'
<1>1. TypeOK'
  BY DEF IInv, IpsFailed, Closing, sessionVars, tokenVars, watchVars, killVars, TypeOK
<1>2. Listing'
  BY DEF IInv, IpsFailed, Closing, sessionVars, tokenVars, Listing
<1>3. Callers'
  BY DEF IInv, IpsFailed, Closing, tokenVars, killVars, Callers, Calls
<1>4. Provenance'
  BY DEF IInv, IpsFailed, Closing, sessionVars, tokenVars, watchVars, Provenance
<1>5. ReportIsTrue'
  BY DEF IInv, IpsFailed, Closing, tokenVars, watchVars, ReportIsTrue, Provenance
<1>6. (Homes /\ Stages /\ Sessions /\ Checks /\ Targets /\ Resumed /\ StaysControlled /\
    NoPtyLeftBehind)'
  BY DEF IInv, IpsFailed, sessionVars, tokenVars, watchVars, killVars, Homes, Stages,
      Sessions, Checks, Targets, Resumed, StaysControlled, Controlled, NoPtyLeftBehind
<1>. QED
  BY <1>1, <1>2, <1>3, <1>4, <1>5, <1>6 DEF IInv

\* The session stays listed while a PTY of it is being ended.
LEMMA CloseKeeps ==
    ASSUME IInv, NEW s \in Sockets, Close(s)
    PROVE  IInv'
<1>1. TypeOK'
  BY LimitsAssumption DEF IInv, Close, NothingToKill, KillWait, tokenVars, watchVars,
      TypeOK, Waits, Reasons
<1>2. Listing'
  BY DEF IInv, Close, NothingToKill, KillWait, tokenVars, Listing, TypeOK
<1>3. Callers'
  BY OthersAssumption DEF IInv, Close, NothingToKill, KillWait, tokenVars, Callers,
      Calls, TypeOK
<1>4. Targets'
  BY LimitsAssumption DEF IInv, Close, NothingToKill, KillWait, tokenVars, Targets
<1>5. Resumed'
  BY DEF IInv, Close, Turn, NothingToKill, KillWait, tokenVars, Resumed, Targets
<1>6. Provenance'
  BY DEF IInv, Close, NothingToKill, KillWait, tokenVars, watchVars, Provenance, TypeOK
<1>7. NoPtyLeftBehind'
  BY OthersAssumption DEF IInv, Close, NothingToKill, KillWait, tokenVars,
      NoPtyLeftBehind, Running, StaysControlled, Controlled
<1>8. ReportIsTrue'
  BY DEF IInv, Close, NothingToKill, KillWait, tokenVars, watchVars, ReportIsTrue,
      Provenance
<1>9. (Homes /\ Stages /\ Sessions /\ Checks /\ StaysControlled)'
  BY DEF IInv, Close, NothingToKill, KillWait, tokenVars, watchVars, Homes, Stages,
      Sessions, Checks, StaysControlled, Controlled
<1>. QED
  BY <1>1, <1>2, <1>3, <1>4, <1>5, <1>6, <1>7, <1>8, <1>9 DEF IInv

\* An error ends the PTY and waits for nothing.
LEMMA SocketErrorKeeps ==
    ASSUME IInv, NEW s \in Sockets, SocketError(s)
    PROVE  IInv'
<1>1. TypeOK'
  BY LimitsAssumption DEF IInv, SocketError, Closing, KillAndForget, NothingToKill,
      KillWait, tokenVars, watchVars, TypeOK, Waits, Reasons
<1>2. Listing'
  BY DEF IInv, SocketError, Closing, KillAndForget, NothingToKill, KillWait, tokenVars,
      Listing
<1>3. Callers'
  BY OthersAssumption DEF IInv, SocketError, Turn, Closing, KillAndForget,
      NothingToKill, KillWait, tokenVars, Callers, Calls
<1>4. Targets'
  BY LimitsAssumption DEF IInv, SocketError, KillAndForget, NothingToKill, KillWait,
      tokenVars, Targets
<1>5. Resumed'
  BY DEF IInv, SocketError, Turn, KillAndForget, NothingToKill, KillWait, tokenVars,
      Resumed, Targets
<1>6. Provenance'
  BY DEF IInv, SocketError, Closing, KillAndForget, NothingToKill, KillWait, tokenVars,
      watchVars, Provenance, TypeOK
<1>7. ReportIsTrue'
  BY DEF IInv, SocketError, Closing, KillAndForget, NothingToKill, KillWait, tokenVars,
      watchVars, ReportIsTrue, Provenance
<1>8. (Homes /\ Stages /\ Sessions /\ Checks /\ StaysControlled /\ NoPtyLeftBehind)'
  BY DEF IInv, SocketError, KillAndForget, NothingToKill, KillWait, tokenVars,
      watchVars, Homes, Stages, Sessions, Checks, StaysControlled, Controlled,
      NoPtyLeftBehind
<1>. QED
  BY <1>1, <1>2, <1>3, <1>4, <1>5, <1>6, <1>7, <1>8 DEF IInv

\* A forced end waits for nothing.
LEMMA ForceEndKeeps ==
    ASSUME IInv, NEW s \in Sockets, ForceEnd(s)
    PROVE  IInv'
<1>1. TypeOK'
  BY LimitsAssumption DEF IInv, ForceEnd, KillAndForget, NothingToKill, KillWait,
      socketVars, tokenVars, watchVars, TypeOK, Waits, Reasons
<1>2. Callers'
  BY OthersAssumption DEF IInv, ForceEnd, Turn, KillAndForget, NothingToKill, KillWait,
      socketVars, tokenVars, Callers, Calls
<1>3. Targets'
  BY LimitsAssumption DEF IInv, ForceEnd, KillAndForget, NothingToKill, KillWait,
      tokenVars, Targets
<1>4. Resumed'
  BY DEF IInv, ForceEnd, Turn, KillAndForget, NothingToKill, KillWait, tokenVars,
      Resumed, Targets
<1>5. Provenance'
  BY DEF IInv, ForceEnd, KillAndForget, NothingToKill, KillWait, socketVars, tokenVars,
      watchVars, Provenance
<1>6. (Homes /\ Stages /\ Sessions /\ Listing /\ Checks /\ StaysControlled /\
    NoPtyLeftBehind /\ ReportIsTrue)'
  BY DEF IInv, ForceEnd, KillAndForget, NothingToKill, KillWait, socketVars, tokenVars,
      watchVars, Homes, Stages, Sessions, Listing, Checks, StaysControlled, Controlled,
      NoPtyLeftBehind, ReportIsTrue
<1>. QED
  BY <1>1, <1>2, <1>3, <1>4, <1>5, <1>6 DEF IInv

\* A token that is sent has no PTY and no report.
LEMMA SendTokenKeeps ==
    ASSUME IInv, NEW t \in Tokens, NEW s \in Sockets, SendToken(t, s)
    PROVE  IInv'
<1>1. TypeOK'
  BY DEF IInv, SendToken, socketVars, sessionVars, watchVars, killVars, TypeOK
<1>2. Homes'
  BY DEF IInv, SendToken, Homes, TypeOK
<1>3. Stages'
  BY DEF IInv, SendToken, Stages
<1>4. Sessions'
  BY DEF IInv, SendToken, sessionVars, Sessions
<1>5. Listing'
  BY DEF IInv, SendToken, socketVars, sessionVars, Listing, TypeOK
<1>6. Callers'
  BY DEF IInv, SendToken, socketVars, killVars, Callers, Calls
<1>7. Provenance'
  BY NoneAssumption DEF IInv, SendToken, socketVars, sessionVars, watchVars, Provenance,
      Reasons, Stages
<1>8. StaysControlled'
  BY DEF IInv, SendToken, sessionVars, StaysControlled, Controlled, Stages
<1>9. NoPtyLeftBehind'
  BY DEF IInv, SendToken, sessionVars, NoPtyLeftBehind, Stages
<1>10. ReportIsTrue'
  BY NoneAssumption DEF IInv, SendToken, socketVars, watchVars, ReportIsTrue, Reasons,
      Stages, Provenance
<1>11. (Checks /\ Targets /\ Resumed)'
  BY DEF IInv, SendToken, sessionVars, watchVars, killVars, Checks, Targets, Resumed
<1>. QED
  BY <1>1, <1>2, <1>3, <1>4, <1>5, <1>6, <1>7, <1>8, <1>9, <1>10, <1>11 DEF IInv

\* A denied token never had a PTY.
LEMMA RedeemDeniedKeeps ==
    ASSUME IInv, NEW t \in Tokens, RedeemDenied(t)
    PROVE  IInv'
<1>1. TypeOK'
  BY DEF IInv, RedeemDenied, Closing, sessionVars, watchVars, killVars, TypeOK
<1>2. Homes'
  BY DEF IInv, RedeemDenied, Homes
<1>3. Stages'
  BY DEF IInv, RedeemDenied, Stages
<1>4. Sessions'
  BY DEF IInv, RedeemDenied, sessionVars, Sessions
<1>5. Listing'
  BY DEF IInv, RedeemDenied, Closing, sessionVars, Listing
<1>6. Callers'
  BY DEF IInv, RedeemDenied, Closing, killVars, Callers, Calls
<1>7. Provenance'
  BY DEF IInv, RedeemDenied, Closing, sessionVars, watchVars, Provenance
<1>8. ReportIsTrue'
  BY DEF IInv, RedeemDenied, Closing, watchVars, ReportIsTrue, Provenance
<1>9. (Checks /\ Targets /\ Resumed /\ StaysControlled /\ NoPtyLeftBehind)'
  BY DEF IInv, RedeemDenied, sessionVars, watchVars, killVars, Checks, Targets, Resumed,
      StaysControlled, Controlled, NoPtyLeftBehind
<1>. QED
  BY <1>1, <1>2, <1>3, <1>4, <1>5, <1>6, <1>7, <1>8, <1>9 DEF IInv

\* A token that is redeemed too late never had a PTY.
LEMMA RedeemedTooLateKeeps ==
    ASSUME IInv, NEW t \in Tokens, RedeemedTooLate(t)
    PROVE  IInv'
<1>1. TypeOK'
  BY DEF IInv, RedeemedTooLate, Closing, Reported, sessionVars, watchVars, killVars,
      TypeOK, Reasons
<1>2. Homes'
  BY DEF IInv, RedeemedTooLate, Homes
<1>3. Stages'
  BY DEF IInv, RedeemedTooLate, Reported, Stages, TypeOK
<1>4. Sessions'
  BY DEF IInv, RedeemedTooLate, sessionVars, Sessions
<1>5. Listing'
  BY DEF IInv, RedeemedTooLate, Closing, sessionVars, Listing
<1>6. Callers'
  BY DEF IInv, RedeemedTooLate, Closing, killVars, Callers, Calls
<1>7. Provenance'
  BY DEF IInv, RedeemedTooLate, Closing, Reported, sessionVars, watchVars, Provenance
<1>8. ReportIsTrue'
  BY DEF IInv, RedeemedTooLate, Closing, Reported, watchVars, ReportIsTrue, Stages,
      Provenance
<1>9. (Checks /\ Targets /\ Resumed /\ StaysControlled /\ NoPtyLeftBehind)'
  BY DEF IInv, RedeemedTooLate, sessionVars, watchVars, killVars, Checks, Targets,
      Resumed, StaysControlled, Controlled, NoPtyLeftBehind
<1>. QED
  BY <1>1, <1>2, <1>3, <1>4, <1>5, <1>6, <1>7, <1>8, <1>9 DEF IInv

\* A PTY is started where none runs.
LEMMA RedeemedFirstKeeps ==
    ASSUME IInv, NEW t \in Tokens, RedeemedFirst(t)
    PROVE  IInv'
<1>1. CASE Spawn(t, {})
  <2>1. TypeOK'
    BY SMTT(60), <1>1 DEF IInv, RedeemedFirst, Spawn, socketVars, watchVars, killVars,
        TypeOK
  <2>2. Homes'
    BY <1>1 DEF IInv, RedeemedFirst, Spawn, Homes
  <2>3. Stages'
    BY <1>1 DEF IInv, RedeemedFirst, Spawn, Stages, Running, TypeOK
  <2>4. Sessions'
    BY OthersAssumption, <1>1 DEF IInv, RedeemedFirst, Spawn, Sessions, Running, TypeOK
  <2>5. Listing'
    BY <1>1 DEF IInv, RedeemedFirst, Spawn, socketVars, Listing
  <2>6. Checks'
    BY <1>1 DEF IInv, RedeemedFirst, Spawn, watchVars, Checks, Running
  <2>7. Callers'
    BY <1>1 DEF IInv, RedeemedFirst, Spawn, socketVars, killVars, Callers, Calls
  <2>8. Targets'
    BY <1>1 DEF IInv, RedeemedFirst, Spawn, killVars, Targets, TypeOK, Waits, Sessions
  <2>9. Resumed'
    BY <1>1 DEF IInv, RedeemedFirst, Turn, Spawn, killVars, Resumed, Targets
  <2>10. Provenance'
    BY NoneAssumption, <1>1 DEF IInv, RedeemedFirst, Spawn, socketVars, watchVars,
        Provenance, TypeOK, Reasons
  <2>11. StaysControlled'
    BY <1>1 DEF IInv, RedeemedFirst, Spawn, StaysControlled, Controlled, TypeOK
  <2>12. NoPtyLeftBehind'
    BY <1>1 DEF IInv, RedeemedFirst, Spawn, NoPtyLeftBehind
  <2>13. ReportIsTrue'
    BY <1>1 DEF IInv, RedeemedFirst, Spawn, socketVars, watchVars, ReportIsTrue, Stages,
        Provenance
  <2>. QED
    BY <2>1, <2>2, <2>3, <2>4, <2>5, <2>6, <2>7, <2>8, <2>9, <2>10, <2>11, <2>12, <2>13
        DEF IInv
<1>2. CASE ~Spawn(t, {})
  <2>1. TypeOK'
    BY SMTT(60), <1>2 DEF IInv, RedeemedFirst, Start, Refuse, Reported, socketVars,
        watchVars, killVars, TypeOK, Reasons
  <2>2. Homes'
    BY <1>2 DEF IInv, RedeemedFirst, Start, Refuse, Homes, TypeOK
  <2>3. Stages'
    BY <1>2 DEF IInv, RedeemedFirst, Start, Refuse, Reported, Stages, TypeOK
  <2>4. Sessions'
    BY <1>2 DEF IInv, RedeemedFirst, Start, Refuse, Sessions, TypeOK
  <2>5. Listing'
    BY <1>2 DEF IInv, RedeemedFirst, Start, Refuse, socketVars, Listing, TypeOK
  <2>6. Callers'
    BY <1>2 DEF IInv, RedeemedFirst, Start, Refuse, socketVars, killVars, Callers,
        Calls, TypeOK
  <2>7. Provenance'
    BY <1>2 DEF IInv, RedeemedFirst, Start, Refuse, Reported, socketVars, watchVars,
        Provenance, TypeOK
  <2>8. StaysControlled'
    BY <1>2 DEF IInv, RedeemedFirst, Start, Refuse, StaysControlled, Controlled, TypeOK,
        Homes, Stages
  <2>9. ReportIsTrue'
    BY <1>2 DEF IInv, RedeemedFirst, Start, Refuse, Reported, socketVars, watchVars,
        ReportIsTrue, TypeOK, Stages, Provenance
  <2>10. (Checks /\ Targets /\ Resumed /\ NoPtyLeftBehind)'
    BY <1>2 DEF IInv, RedeemedFirst, Start, Refuse, watchVars, killVars, Checks,
        Targets, Resumed, NoPtyLeftBehind
  <2>. QED
    BY <2>1, <2>2, <2>3, <2>4, <2>5, <2>6, <2>7, <2>8, <2>9, <2>10 DEF IInv
<1>. QED
  BY <1>1, <1>2

\* A token waits for the PTY of its session, and for nothing else.
LEMMA RedeemedNextKeeps ==
    ASSUME IInv, NEW t \in Tokens, RedeemedNext(t)
    PROVE  IInv'
<1>1. TypeOK'
  BY LimitsAssumption DEF IInv, RedeemedNext, NothingToKill, KillWait, socketVars,
      watchVars, TypeOK, Waits, Reasons
<1>2. Homes'
  BY DEF IInv, RedeemedNext, NothingToKill, KillWait, Homes
<1>3. Stages'
  BY DEF IInv, RedeemedNext, NothingToKill, KillWait, Stages
<1>4. Sessions'
  BY DEF IInv, RedeemedNext, NothingToKill, KillWait, Sessions
<1>5. Listing'
  BY DEF IInv, RedeemedNext, NothingToKill, KillWait, socketVars, Listing
<1>6. Callers'
  BY OthersAssumption DEF IInv, RedeemedNext, NothingToKill, KillWait, socketVars,
      Callers, Calls, TypeOK
<1>7. Targets'
  BY LimitsAssumption DEF IInv, RedeemedNext, NothingToKill, KillWait, Targets
<1>8. Resumed'
  BY DEF IInv, RedeemedNext, Turn, NothingToKill, KillWait, Resumed, Targets
<1>9. Provenance'
  BY DEF IInv, RedeemedNext, NothingToKill, KillWait, socketVars, watchVars, Provenance
<1>10. (Checks /\ StaysControlled /\ NoPtyLeftBehind /\ ReportIsTrue)'
  BY DEF IInv, RedeemedNext, NothingToKill, KillWait, socketVars, watchVars, Checks,
      StaysControlled, Controlled, NoPtyLeftBehind, ReportIsTrue
<1>. QED
  BY <1>1, <1>2, <1>3, <1>4, <1>5, <1>6, <1>7, <1>8, <1>9, <1>10 DEF IInv

\* A caller goes on only when no PTY of its session runs.
LEMMA KillSucceedsKeeps ==
    ASSUME IInv, NEW w \in waits, KillSucceeds(w)
    PROVE  IInv'
<1>1. CASE w.by \in Tokens /\ Spawn(w.by, {})
  <2>1. TypeOK'
    BY <1>1 DEF IInv, KillSucceeds, Continue, Spawn, socketVars, watchVars, TypeOK,
        Callers, Calls
  <2>2. Homes'
    BY <1>1 DEF IInv, KillSucceeds, Continue, Spawn, Homes, Callers, Calls
  <2>3. Stages'
    BY <1>1 DEF IInv, KillSucceeds, Continue, Spawn, Stages, Running, TypeOK, Callers,
        Calls
  <2>4. Sessions'
    BY OthersAssumption, <1>1 DEF IInv, KillSucceeds, Continue, Spawn, Sessions,
        Running, TypeOK, Callers, Calls
  <2>5. Listing'
    BY <1>1 DEF IInv, KillSucceeds, Continue, Spawn, socketVars, Listing, Callers, Calls
  <2>6. Checks'
    BY <1>1 DEF IInv, KillSucceeds, Continue, Spawn, watchVars, Checks, Running
  <2>7. Callers'
    BY <1>1 DEF IInv, KillSucceeds, Continue, Spawn, socketVars, Callers, Calls
  <2>8. Targets'
    BY <1>1 DEF IInv, KillSucceeds, Continue, Spawn, Targets, TypeOK, Waits, Callers,
        Calls, Sessions
  <2>9. Resumed'
    BY <1>1 DEF IInv, KillSucceeds, Turn, Continue, Spawn, Resumed, Targets
  <2>10. Provenance'
    BY NoneAssumption, <1>1 DEF IInv, KillSucceeds, Continue, Spawn, socketVars,
        watchVars, Provenance, TypeOK, Reasons, Callers, Calls
  <2>11. StaysControlled'
    BY <1>1 DEF IInv, KillSucceeds, Continue, Spawn, StaysControlled, Controlled,
        TypeOK, Homes, Callers, Calls
  <2>12. NoPtyLeftBehind'
    BY <1>1 DEF IInv, KillSucceeds, Continue, Spawn, NoPtyLeftBehind, Homes, Callers,
        Calls, StaysControlled, Controlled, Listing
  <2>13. ReportIsTrue'
    BY <1>1 DEF IInv, KillSucceeds, Continue, Spawn, socketVars, watchVars,
        ReportIsTrue, Stages, Provenance, Callers, Calls
  <2>. QED
    BY <2>1, <2>2, <2>3, <2>4, <2>5, <2>6, <2>7, <2>8, <2>9, <2>10, <2>11, <2>12, <2>13
        DEF IInv
<1>2. CASE w.by \in Tokens /\ ~Spawn(w.by, {})
  <2>1. TypeOK'
    BY <1>2 DEF IInv, KillSucceeds, Continue, Start, Refuse, Reported, socketVars,
        watchVars, TypeOK, Reasons, Callers, Calls
  <2>2. Homes'
    BY <1>2 DEF IInv, KillSucceeds, Continue, Start, Refuse, Homes, TypeOK, Callers,
        Calls
  <2>3. Stages'
    BY <1>2 DEF IInv, KillSucceeds, Continue, Start, Refuse, Reported, Stages, TypeOK,
        Callers, Calls
  <2>4. Sessions'
    BY <1>2 DEF IInv, KillSucceeds, Continue, Start, Refuse, Sessions, TypeOK, Callers,
        Calls
  <2>5. Listing'
    BY <1>2 DEF IInv, KillSucceeds, Continue, Start, Refuse, socketVars, Listing,
        TypeOK, Callers, Calls
  <2>6. Callers'
    BY <1>2 DEF IInv, KillSucceeds, Continue, Start, Refuse, socketVars, Callers, Calls,
        TypeOK
  <2>7. Targets'
    BY <1>2 DEF IInv, KillSucceeds, Continue, Start, Refuse, Targets
  <2>8. Resumed'
    BY <1>2 DEF IInv, KillSucceeds, Continue, Start, Refuse, Resumed, Targets
  <2>9. Provenance'
    BY <1>2 DEF IInv, KillSucceeds, Continue, Start, Refuse, Reported, socketVars,
        watchVars, Provenance, TypeOK, Callers, Calls
  <2>10. StaysControlled'
    BY <1>2 DEF IInv, KillSucceeds, Continue, Start, Refuse, StaysControlled,
        Controlled, TypeOK, Homes, Stages, Callers, Calls
  <2>11. ReportIsTrue'
    BY <1>2 DEF IInv, KillSucceeds, Continue, Start, Refuse, Reported, socketVars,
        watchVars, ReportIsTrue, TypeOK, Stages, Provenance, Callers, Calls
  <2>12. (Checks /\ NoPtyLeftBehind)'
    BY <1>2 DEF IInv, KillSucceeds, Continue, Start, Refuse, watchVars, Checks,
        NoPtyLeftBehind
  <2>. QED
    BY <2>1, <2>2, <2>3, <2>4, <2>5, <2>6, <2>7, <2>8, <2>9, <2>10, <2>11, <2>12 DEF
        IInv
<1>3. CASE w.by \notin Tokens
  <2>1. TypeOK'
    BY <1>3 DEF IInv, KillSucceeds, Continue, socketVars, watchVars, TypeOK, Callers,
        Calls
  <2>2. Listing'
    BY <1>3 DEF IInv, KillSucceeds, Continue, socketVars, Listing, Callers, Calls
  <2>3. Callers'
    BY <1>3 DEF IInv, KillSucceeds, Continue, socketVars, Callers, Calls
  <2>4. Targets'
    BY <1>3 DEF IInv, KillSucceeds, Continue, Targets
  <2>5. Resumed'
    BY <1>3 DEF IInv, KillSucceeds, Continue, Resumed, Targets
  <2>6. StaysControlled'
    BY <1>3 DEF IInv, KillSucceeds, Continue, StaysControlled, Controlled, TypeOK,
        Homes, Stages, Callers, Calls
  <2>7. NoPtyLeftBehind'
    BY <1>3 DEF IInv, KillSucceeds, Continue, NoPtyLeftBehind, Running, Callers, Calls,
        StaysControlled, Controlled, Listing
  <2>8. (Homes /\ Stages /\ Sessions /\ Checks /\ Provenance /\ ReportIsTrue)'
    BY <1>3 DEF IInv, KillSucceeds, Continue, socketVars, watchVars, Homes, Stages,
        Sessions, Checks, Provenance, ReportIsTrue
  <2>. QED
    BY <2>1, <2>2, <2>3, <2>4, <2>5, <2>6, <2>7, <2>8 DEF IInv
<1>. QED
  BY <1>1, <1>2, <1>3

\* Another try changes the call only.
LEMMA KillAgainKeeps ==
    ASSUME IInv, NEW w \in waits, KillAgain(w)
    PROVE  IInv'
<1>1. TypeOK'
  BY LimitsAssumption DEF IInv, KillAgain, Retried, socketVars, sessionVars, tokenVars,
      watchVars, TypeOK, Waits
<1>2. Callers'
  BY DEF IInv, KillAgain, Turn, Retried, socketVars, tokenVars, Callers, Calls, TypeOK,
      Waits
<1>3. Targets'
  BY DEF IInv, KillAgain, Retried, sessionVars, tokenVars, Targets, TypeOK, Waits
<1>4. Resumed'
  BY DEF IInv, KillAgain, Turn, Retried, tokenVars, Resumed, Targets
<1>5. (Homes /\ Stages /\ Sessions /\ Listing /\ Checks /\ Provenance /\ StaysControlled
    /\ NoPtyLeftBehind /\ ReportIsTrue)'
  BY DEF IInv, KillAgain, Retried, socketVars, sessionVars, tokenVars, watchVars, Homes,
      Stages, Sessions, Listing, Checks, Provenance, StaysControlled, Controlled,
      NoPtyLeftBehind, ReportIsTrue
<1>. QED
  BY <1>1, <1>2, <1>3, <1>4, <1>5 DEF IInv

\* The PTY that is left has been killed.
LEMMA KillGivesUpKeeps ==
    ASSUME IInv, NEW w \in waits, KillGivesUp(w)
    PROVE  IInv'
<1>1. CASE w.by \in Tokens
  <2>1. TypeOK'
    <3>1. waits' \in SUBSET Waits
      BY DEF IInv, KillGivesUp, TypeOK
    <3>2. /\ pty' \in [Tokens -> {"none", "alive", "dying", "exited"}]
          /\ listed' \in SUBSET Sockets
      BY <1>1 DEF IInv, KillGivesUp, GiveUp, TypeOK
    <3>3. stage' \in [Tokens -> {"unused", "buffered", "redeeming", "killing", "running",
                                 "ended"}]
      BY <1>1 DEF IInv, KillGivesUp, GiveUp, Refuse, TypeOK
    <3>4. report' \in [Tokens -> Reasons \cup {None}]
      BY <1>1 DEF IInv, KillGivesUp, GiveUp, Refuse, Reported, TypeOK, Reasons
    <3>. QED
      BY <3>1, <3>2, <3>3, <3>4, <1>1 DEF IInv, KillGivesUp, GiveUp, Refuse, TypeOK,
          socketVars, sessionVars, watchVars
  <2>2. Homes'
    BY <1>1 DEF IInv, KillGivesUp, GiveUp, Refuse, Homes, TypeOK, Callers, Calls
  <2>3. Stages'
    BY <1>1 DEF IInv, KillGivesUp, GiveUp, Refuse, Reported, Stages, Running, TypeOK,
        Waits, Sessions, Callers, Calls
  <2>4. Sessions'
    BY <1>1 DEF IInv, KillGivesUp, GiveUp, Refuse, Sessions, Running, TypeOK, Homes,
        Callers, Calls
  <2>5. Listing'
    BY <1>1 DEF IInv, KillGivesUp, GiveUp, Refuse, socketVars, Listing, TypeOK, Callers,
        Calls
  <2>6. Checks'
    BY <1>1 DEF IInv, KillGivesUp, GiveUp, Refuse, watchVars, Checks, Running
  <2>7. Callers'
    BY <1>1 DEF IInv, KillGivesUp, GiveUp, Refuse, socketVars, Callers, Calls, TypeOK
  <2>8. Targets'
    BY <1>1 DEF IInv, KillGivesUp, GiveUp, Refuse, Targets
  <2>9. Resumed'
    BY <1>1 DEF IInv, KillGivesUp, GiveUp, Refuse, Resumed, Targets
  <2>10. Provenance'
    BY <1>1 DEF IInv, KillGivesUp, GiveUp, Refuse, Reported, socketVars, watchVars,
        Provenance, TypeOK, Callers, Calls
  <2>11. StaysControlled'
    BY <1>1 DEF IInv, KillGivesUp, GiveUp, Refuse, StaysControlled, Controlled, Homes,
        Sessions, Callers, Calls
  <2>12. NoPtyLeftBehind'
    BY <1>1 DEF IInv, KillGivesUp, GiveUp, Refuse, NoPtyLeftBehind, Callers, Calls,
        StaysControlled, Controlled, Listing
  <2>13. ReportIsTrue'
    BY <1>1 DEF IInv, KillGivesUp, GiveUp, Refuse, Reported, socketVars, watchVars,
        ReportIsTrue, TypeOK, Homes, Stages, Sessions, Provenance, Callers, Calls
  <2>. QED
    BY <2>1, <2>2, <2>3, <2>4, <2>5, <2>6, <2>7, <2>8, <2>9, <2>10, <2>11, <2>12, <2>13
        DEF IInv
<1>2. CASE w.by \notin Tokens
  <2>1. TypeOK'
    BY LimitsAssumption, OthersAssumption, <1>2, ZenonT(40) DEF IInv, KillGivesUp,
        Turn, GiveUp, socketVars, watchVars, TypeOK, Waits, Reasons, Homes, Callers, Calls
  <2>2. Stages'
    BY <1>2 DEF IInv, KillGivesUp, GiveUp, Stages, Running, TypeOK, Waits, Sessions,
        Callers, Calls
  <2>3. Sessions'
    BY <1>2 DEF IInv, KillGivesUp, GiveUp, Sessions, Running, TypeOK, Waits, Callers,
        Calls
  <2>4. Listing'
    BY <1>2 DEF IInv, KillGivesUp, GiveUp, socketVars, Listing, Callers, Calls
  <2>5. Checks'
    BY <1>2 DEF IInv, KillGivesUp, GiveUp, watchVars, Checks, Running
  <2>6. Callers'
    BY <1>2 DEF IInv, KillGivesUp, GiveUp, socketVars, Callers, Calls
  <2>7. Targets'
    BY <1>2 DEF IInv, KillGivesUp, GiveUp, Targets
  <2>8. Resumed'
    BY <1>2 DEF IInv, KillGivesUp, GiveUp, Resumed, Targets
  <2>9. StaysControlled'
    BY <1>2 DEF IInv, KillGivesUp, GiveUp, StaysControlled, Controlled, TypeOK, Waits,
        Sessions, Callers, Calls
  <2>10. NoPtyLeftBehind'
    BY <1>2 DEF IInv, KillGivesUp, GiveUp, NoPtyLeftBehind, TypeOK, Running, Callers,
        Calls, StaysControlled, Controlled
  <2>11. ReportIsTrue'
    BY <1>2 DEF IInv, KillGivesUp, GiveUp, socketVars, watchVars, ReportIsTrue, TypeOK,
        Waits, Sessions, Provenance, Callers, Calls
  <2>12. (Homes /\ Provenance)'
    BY <1>2 DEF IInv, KillGivesUp, GiveUp, socketVars, watchVars, Homes, Provenance
  <2>. QED
    BY <2>1, <2>2, <2>3, <2>4, <2>5, <2>6, <2>7, <2>8, <2>9, <2>10, <2>11, <2>12 DEF
        IInv
<1>. QED
  BY <1>1, <1>2

\* The last try kills the PTY it waits for.
LEMMA DetachAgainKeeps ==
    ASSUME IInv, NEW w \in waits, DetachAgain(w)
    PROVE  IInv'
<1>1. TypeOK'
  BY TokensAssumption, LimitsAssumption DEF IInv, DetachAgain, Retried, socketVars,
      sessionVars, watchVars, TypeOK, Waits
<1>2. Stages'
  BY TokensAssumption DEF IInv, DetachAgain, Retried, Stages, Running, TypeOK, Waits,
      Sessions, Targets
<1>3. Sessions'
  BY TokensAssumption DEF IInv, DetachAgain, Retried, sessionVars, Sessions, Running,
      TypeOK, Waits, Targets
<1>4. Checks'
  BY DEF IInv, DetachAgain, Retried, watchVars, Checks, Running
<1>5. Callers'
  BY DEF IInv, DetachAgain, Turn, Retried, socketVars, Callers, Calls, TypeOK, Waits
<1>6. Targets'
  BY LimitsAssumption DEF IInv, DetachAgain, Retried, sessionVars, Targets, TypeOK,
      Waits
<1>7. Resumed'
  BY DEF IInv, DetachAgain, Turn, Retried, Resumed, Targets
<1>8. StaysControlled'
  BY TokensAssumption DEF IInv, DetachAgain, Retried, sessionVars, StaysControlled,
      Controlled, TypeOK, Waits, Sessions, Targets
<1>9. NoPtyLeftBehind'
  BY DEF IInv, DetachAgain, Retried, sessionVars, NoPtyLeftBehind
<1>10. ReportIsTrue'
  BY TokensAssumption DEF IInv, DetachAgain, Retried, socketVars, watchVars,
      ReportIsTrue, TypeOK, Waits, Sessions, Targets
<1>11. (Homes /\ Listing /\ Provenance)'
  BY DEF IInv, DetachAgain, Retried, socketVars, sessionVars, watchVars, Homes, Listing,
      Provenance
<1>. QED
  BY <1>1, <1>2, <1>3, <1>4, <1>5, <1>6, <1>7, <1>8, <1>9, <1>10, <1>11 DEF IInv

\* The PTY that is left has been killed.
LEMMA DetachGivesUpKeeps ==
    ASSUME IInv, NEW w \in waits, DetachGivesUp(w)
    PROVE  IInv'
<1>1. CASE w.by \in Tokens
  <2>1. TypeOK'
    BY <1>1 DEF IInv, DetachGivesUp, GiveUp, Refuse, Reported, socketVars, watchVars,
        TypeOK, Reasons, Callers, Calls
  <2>2. Homes'
    BY <1>1 DEF IInv, DetachGivesUp, GiveUp, Refuse, Homes, TypeOK, Callers, Calls
  <2>3. Stages'
    BY <1>1 DEF IInv, DetachGivesUp, GiveUp, Refuse, Reported, Stages, TypeOK, Callers,
        Calls
  <2>4. Sessions'
    BY <1>1 DEF IInv, DetachGivesUp, GiveUp, Refuse, Sessions, TypeOK, Callers, Calls
  <2>5. Listing'
    BY <1>1 DEF IInv, DetachGivesUp, GiveUp, Refuse, socketVars, Listing, TypeOK,
        Callers, Calls
  <2>6. Callers'
    BY <1>1 DEF IInv, DetachGivesUp, GiveUp, Refuse, socketVars, Callers, Calls, TypeOK
  <2>7. Targets'
    BY <1>1 DEF IInv, DetachGivesUp, GiveUp, Refuse, Targets
  <2>8. Resumed'
    BY <1>1 DEF IInv, DetachGivesUp, GiveUp, Refuse, Resumed, Targets
  <2>9. Provenance'
    BY <1>1 DEF IInv, DetachGivesUp, GiveUp, Refuse, Reported, socketVars, watchVars,
        Provenance, TypeOK, Callers, Calls
  <2>10. ReportIsTrue'
    BY <1>1 DEF IInv, DetachGivesUp, GiveUp, Refuse, Reported, socketVars, watchVars,
        ReportIsTrue, TypeOK, Stages, Provenance, Callers, Calls
  <2>11. (Checks /\ StaysControlled /\ NoPtyLeftBehind)'
    BY <1>1 DEF IInv, DetachGivesUp, GiveUp, Refuse, watchVars, Checks, StaysControlled,
        Controlled, NoPtyLeftBehind
  <2>. QED
    BY <2>1, <2>2, <2>3, <2>4, <2>5, <2>6, <2>7, <2>8, <2>9, <2>10, <2>11 DEF IInv
<1>2. CASE w.by \notin Tokens
  <2>1. TypeOK'
    BY <1>2 DEF IInv, DetachGivesUp, GiveUp, socketVars, watchVars, TypeOK, Callers,
        Calls
  <2>2. Listing'
    BY <1>2 DEF IInv, DetachGivesUp, GiveUp, socketVars, Listing, Callers, Calls
  <2>3. Callers'
    BY <1>2 DEF IInv, DetachGivesUp, GiveUp, socketVars, Callers, Calls
  <2>4. Targets'
    BY <1>2 DEF IInv, DetachGivesUp, GiveUp, Targets
  <2>5. Resumed'
    BY <1>2 DEF IInv, DetachGivesUp, GiveUp, Resumed, Targets
  <2>6. NoPtyLeftBehind'
    BY <1>2 DEF IInv, DetachGivesUp, GiveUp, NoPtyLeftBehind, Running, Callers, Calls,
        StaysControlled, Controlled, Targets
  <2>7. (Homes /\ Stages /\ Sessions /\ Checks /\ Provenance /\ StaysControlled /\
      ReportIsTrue)'
    BY <1>2 DEF IInv, DetachGivesUp, GiveUp, socketVars, watchVars, Homes, Stages,
        Sessions, Checks, Provenance, StaysControlled, Controlled, ReportIsTrue
  <2>. QED
    BY <2>1, <2>2, <2>3, <2>4, <2>5, <2>6, <2>7 DEF IInv
<1>. QED
  BY <1>1, <1>2

\* An exit reports its own PTY and resolves the calls that wait for it.
LEMMA ExitKeeps ==
    ASSUME IInv, NEW t \in Tokens, Exit(t)
    PROVE  IInv'
<1>1. TypeOK'
  <2>1. waits' \in SUBSET Waits /\ ready' \in SUBSET Waits
    BY DEF IInv, Exit, TypeOK
  <2>2. home[t] \in Sockets
    BY DEF IInv, Exit, Homes, Stages
  <2>3. report' \in [Tokens -> Reasons \cup {None}]
    BY <2>2 DEF IInv, Exit, Reported, TypeOK, Reasons
  <2>4. /\ current' \in [Sockets -> Tokens \cup {None}]
        /\ active' \in [Sockets -> BOOLEAN]
        /\ timer' \in [Sockets -> Tokens \cup {None}]
    <3>1. CASE current[home[t]] = t
      <4>1. current' \in [Sockets -> Tokens \cup {None}]
        <5>1. CASE current' = [current EXCEPT ![home[t]] = None]
          BY <5>1 DEF IInv, TypeOK
        <5>2. CASE current' = [current EXCEPT ![home[t]] = @]
          BY <2>2, <5>2 DEF IInv, TypeOK
        <5>. QED
          BY <3>1, <5>1, <5>2 DEF Exit
      <4>. QED
        BY <2>2, <3>1, <4>1 DEF IInv, Exit, TypeOK
    <3>2. CASE current[home[t]] # t
      BY <2>2, <3>2 DEF IInv, Exit, TypeOK
    <3>. QED
      BY <3>1, <3>2
  <2>5. /\ pty' \in [Tokens -> {"none", "alive", "dying", "exited"}]
        /\ stage' \in [Tokens -> {"unused", "buffered", "redeeming", "killing", "running",
                                  "ended"}]
        /\ check' \in [Tokens -> {"idle", "active", "revoked", "failed"}]
    BY DEF IInv, Exit, TypeOK
  <2>. QED
    BY <2>1, <2>3, <2>4, <2>5 DEF IInv, Exit, TypeOK, socketVars
<1>2. Homes'
  BY DEF IInv, Exit, Homes, Stages
<1>3. Stages'
  BY DEF IInv, Exit, Reported, Stages, Running, TypeOK
<1>4. Sessions'
  BY DEF IInv, Exit, Sessions, Running, TypeOK
<1>5. Listing'
  BY DEF IInv, Exit, socketVars, Listing, Stages
<1>6. Checks'
  BY DEF IInv, Exit, Checks, TypeOK
<1>7. Callers'
  BY DEF IInv, Exit, socketVars, Callers, Calls, Stages
<1>8. Targets'
  BY DEF IInv, Exit, Targets, TypeOK, Waits
<1>9. Resumed'
  BY OthersAssumption, TokensAssumption DEF IInv, Exit, Resumed, TypeOK, Waits,
      Sessions, Targets
<1>10. Provenance'
  BY DEF IInv, Exit, Reported, socketVars, Provenance, TypeOK, Homes, Stages
<1>11. StaysControlled'
  BY DEF IInv, Exit, StaysControlled, Controlled, Running, TypeOK, Homes, Stages
<1>12. NoPtyLeftBehind'
  BY DEF IInv, Exit, NoPtyLeftBehind
<1>13. ReportIsTrue'
  BY NoneAssumption, OthersAssumption DEF IInv, Exit, Reported, socketVars,
      ReportIsTrue, Running, TypeOK, Reasons, Homes, Stages, Sessions, Provenance
<1>. QED
  BY <1>1, <1>2, <1>3, <1>4, <1>5, <1>6, <1>7, <1>8, <1>9, <1>10, <1>11, <1>12, <1>13
      DEF IInv

\* Of the callers of one exit, one at most starts a PTY that nothing overtakes.
LEMMA ResumeKeeps ==
    ASSUME IInv, NEW w \in ready, Resume(w)
    PROVE  IInv'
<1>1. CASE w.by \in Tokens /\ Spawn(w.by, ready')
  <2>1. TypeOK'
    BY <1>1 DEF IInv, Resume, Continue, Spawn, socketVars, watchVars, TypeOK, Callers,
        Calls
  <2>2. Homes'
    BY <1>1 DEF IInv, Resume, Continue, Spawn, Homes, Callers, Calls
  <2>3. Stages'
    BY <1>1 DEF IInv, Resume, Continue, Spawn, Stages, Running, TypeOK, Callers, Calls
  <2>4. Sessions'
    BY OthersAssumption, <1>1 DEF IInv, Resume, Continue, Spawn, Sessions, Running,
        TypeOK, Callers, Calls
  <2>5. Listing'
    BY <1>1 DEF IInv, Resume, Continue, Spawn, socketVars, Listing, Callers, Calls
  <2>6. Checks'
    BY <1>1 DEF IInv, Resume, Continue, Spawn, watchVars, Checks, Running
  <2>7. Callers'
    BY <1>1 DEF IInv, Resume, Continue, Spawn, socketVars, Callers, Calls
  <2>8. Targets'
    BY <1>1 DEF IInv, Resume, Continue, Spawn, Targets, TypeOK, Waits, Callers, Calls,
        Resumed, Sessions
  <2>9. Resumed'
    BY <1>1 DEF IInv, Resume, Continue, Spawn, Resumed, TypeOK, Waits, Targets, Callers,
        Calls
  <2>10. Provenance'
    BY NoneAssumption, <1>1 DEF IInv, Resume, Continue, Spawn, socketVars, watchVars,
        Provenance, TypeOK, Reasons, Callers, Calls
  <2>11. StaysControlled'
    BY OthersAssumption, <1>1 DEF IInv, Resume, Continue, Spawn, StaysControlled,
        Controlled, TypeOK, Homes, Callers, Calls, Resumed
  <2>12. NoPtyLeftBehind'
    BY <1>1 DEF IInv, Resume, Continue, Spawn, NoPtyLeftBehind, Homes, Callers, Calls,
        StaysControlled, Controlled, Listing
  <2>13. ReportIsTrue'
    BY <1>1 DEF IInv, Resume, Continue, Spawn, socketVars, watchVars, ReportIsTrue,
        Stages, Provenance, Callers, Calls
  <2>. QED
    BY <2>1, <2>2, <2>3, <2>4, <2>5, <2>6, <2>7, <2>8, <2>9, <2>10, <2>11, <2>12, <2>13
        DEF IInv
<1>2. CASE w.by \in Tokens /\ ~Spawn(w.by, ready')
  <2>1. TypeOK'
    BY <1>2 DEF IInv, Resume, Continue, Start, Refuse, Reported, socketVars, watchVars,
        TypeOK, Reasons, Callers, Calls
  <2>2. Homes'
    BY <1>2 DEF IInv, Resume, Continue, Start, Refuse, Homes, TypeOK, Callers, Calls
  <2>3. Stages'
    BY <1>2 DEF IInv, Resume, Continue, Start, Refuse, Reported, Stages, TypeOK,
        Callers, Calls
  <2>4. Sessions'
    BY <1>2 DEF IInv, Resume, Continue, Start, Refuse, Sessions, TypeOK, Callers, Calls
  <2>5. Listing'
    BY <1>2 DEF IInv, Resume, Continue, Start, Refuse, socketVars, Listing, TypeOK,
        Callers, Calls
  <2>6. Callers'
    BY <1>2 DEF IInv, Resume, Continue, Start, Refuse, socketVars, Callers, Calls,
        TypeOK
  <2>7. Resumed'
    BY <1>2 DEF IInv, Resume, Continue, Start, Refuse, Resumed, Targets, Callers, Calls
  <2>8. Provenance'
    BY <1>2 DEF IInv, Resume, Continue, Start, Refuse, Reported, socketVars, watchVars,
        Provenance, TypeOK, Callers, Calls
  <2>9. StaysControlled'
    BY OthersAssumption, <1>2 DEF IInv, Resume, Continue, Start, Refuse,
        StaysControlled, Controlled, TypeOK, Homes, Stages, Callers, Calls, Resumed
  <2>10. ReportIsTrue'
    BY <1>2 DEF IInv, Resume, Continue, Start, Refuse, Reported, socketVars, watchVars,
        ReportIsTrue, TypeOK, Stages, Provenance, Callers, Calls
  <2>11. (Checks /\ Targets /\ NoPtyLeftBehind)'
    BY <1>2 DEF IInv, Resume, Continue, Start, Refuse, watchVars, Checks, Targets,
        NoPtyLeftBehind
  <2>. QED
    BY <2>1, <2>2, <2>3, <2>4, <2>5, <2>6, <2>7, <2>8, <2>9, <2>10, <2>11 DEF IInv
<1>3. CASE w.by \notin Tokens
  <2>1. TypeOK'
    BY <1>3 DEF IInv, Resume, Continue, socketVars, watchVars, TypeOK, Callers, Calls
  <2>2. Listing'
    BY <1>3 DEF IInv, Resume, Continue, socketVars, Listing, Callers, Calls
  <2>3. Callers'
    BY <1>3 DEF IInv, Resume, Continue, socketVars, Callers, Calls
  <2>4. Resumed'
    BY <1>3 DEF IInv, Resume, Continue, Resumed, Targets, Callers, Calls
  <2>5. StaysControlled'
    BY <1>3 DEF IInv, Resume, Continue, StaysControlled, Controlled, Callers, Calls
  <2>6. NoPtyLeftBehind'
    BY OthersAssumption, <1>3 DEF IInv, Resume, Continue, NoPtyLeftBehind, Running,
        Callers, Calls, StaysControlled, Controlled, Resumed
  <2>7. (Homes /\ Stages /\ Sessions /\ Checks /\ Targets /\ Provenance /\
      ReportIsTrue)'
    BY <1>3 DEF IInv, Resume, Continue, socketVars, watchVars, Homes, Stages, Sessions,
        Checks, Targets, Provenance, ReportIsTrue
  <2>. QED
    BY <2>1, <2>2, <2>3, <2>4, <2>5, <2>6, <2>7 DEF IInv
<1>. QED
  BY <1>1, <1>2, <1>3

\* The limit ends the PTY that reached it.
LEMMA MaxDurationKeeps ==
    ASSUME IInv, NEW t \in Tokens, MaxDuration(t)
    PROVE  IInv'
<1>1. TypeOK'
  BY LimitsAssumption DEF IInv, MaxDuration, EndSession, KillAndForget, NothingToKill,
      KillWait, socketVars, tokenVars, TypeOK, Waits, Reasons
<1>2. Callers'
  BY OthersAssumption DEF IInv, MaxDuration, Turn, EndSession, KillAndForget,
      NothingToKill, KillWait, socketVars, tokenVars, Callers, Calls
<1>3. Targets'
  BY LimitsAssumption DEF IInv, MaxDuration, EndSession, KillAndForget, NothingToKill,
      KillWait, tokenVars, Targets
<1>4. Resumed'
  BY DEF IInv, MaxDuration, Turn, EndSession, KillAndForget, NothingToKill, KillWait,
      tokenVars, Resumed, Targets
<1>5. Provenance'
  BY DEF IInv, MaxDuration, EndSession, KillAndForget, NothingToKill, KillWait,
      socketVars, tokenVars, Provenance, TypeOK
<1>6. ReportIsTrue'
  BY DEF IInv, MaxDuration, EndSession, KillAndForget, NothingToKill, KillWait,
      socketVars, tokenVars, ReportIsTrue, Provenance
<1>7. (Homes /\ Stages /\ Sessions /\ Listing /\ Checks /\ StaysControlled /\
    NoPtyLeftBehind)'
  BY DEF IInv, MaxDuration, EndSession, KillAndForget, NothingToKill, KillWait,
      socketVars, tokenVars, Homes, Stages, Sessions, Listing, Checks, StaysControlled,
      Controlled, NoPtyLeftBehind
<1>. QED
  BY <1>1, <1>2, <1>3, <1>4, <1>5, <1>6, <1>7 DEF IInv

\* The limit ends the PTY that reached it.
LEMMA IdleKeeps ==
    ASSUME IInv, NEW t \in Tokens, Idle(t)
    PROVE  IInv'
<1>1. TypeOK'
  BY LimitsAssumption DEF IInv, Idle, EndSession, KillAndForget, NothingToKill,
      KillWait, socketVars, tokenVars, TypeOK, Waits, Reasons
<1>2. Callers'
  BY OthersAssumption DEF IInv, Idle, Turn, EndSession, KillAndForget, NothingToKill,
      KillWait, socketVars, tokenVars, Callers, Calls
<1>3. Targets'
  BY LimitsAssumption DEF IInv, Idle, EndSession, KillAndForget, NothingToKill,
      KillWait, tokenVars, Targets
<1>4. Resumed'
  BY DEF IInv, Idle, Turn, EndSession, KillAndForget, NothingToKill, KillWait,
      tokenVars, Resumed, Targets
<1>5. Provenance'
  BY DEF IInv, Idle, EndSession, KillAndForget, NothingToKill, KillWait, socketVars,
      tokenVars, Provenance, TypeOK
<1>6. ReportIsTrue'
  BY DEF IInv, Idle, EndSession, KillAndForget, NothingToKill, KillWait, socketVars,
      tokenVars, ReportIsTrue, Provenance
<1>7. (Homes /\ Stages /\ Sessions /\ Listing /\ Checks /\ StaysControlled /\
    NoPtyLeftBehind)'
  BY DEF IInv, Idle, EndSession, KillAndForget, NothingToKill, KillWait, socketVars,
      tokenVars, Homes, Stages, Sessions, Listing, Checks, StaysControlled, Controlled,
      NoPtyLeftBehind
<1>. QED
  BY <1>1, <1>2, <1>3, <1>4, <1>5, <1>6, <1>7 DEF IInv

\* Consent is only ever withdrawn.
LEMMA RevokeKeeps ==
    ASSUME IInv, NEW t \in Tokens, Revoke(t)
    PROVE  IInv'
<1>1. TypeOK'
  BY DEF IInv, Revoke, socketVars, sessionVars, tokenVars, killVars, TypeOK
<1>2. Checks'
  BY DEF IInv, Revoke, tokenVars, Checks
<1>3. Provenance'
  BY DEF IInv, Revoke, socketVars, sessionVars, tokenVars, Provenance
<1>4. ReportIsTrue'
  BY DEF IInv, Revoke, socketVars, tokenVars, ReportIsTrue, Provenance
<1>5. (Homes /\ Stages /\ Sessions /\ Listing /\ Callers /\ Targets /\ Resumed /\
    StaysControlled /\ NoPtyLeftBehind)'
  BY DEF IInv, Revoke, socketVars, sessionVars, tokenVars, killVars, Homes, Stages,
      Sessions, Listing, Callers, Calls, Targets, Resumed, StaysControlled, Controlled,
      NoPtyLeftBehind
<1>. QED
  BY <1>1, <1>2, <1>3, <1>4, <1>5 DEF IInv

\* A check is sent for a PTY that runs.
LEMMA CheckSentKeeps ==
    ASSUME IInv, NEW t \in Tokens, CheckSent(t)
    PROVE  IInv'
<1>1. TypeOK'
  BY DEF IInv, CheckSent, socketVars, sessionVars, tokenVars, killVars, TypeOK
<1>2. Checks'
  BY DEF IInv, CheckSent, tokenVars, Checks
<1>3. (Homes /\ Stages /\ Sessions /\ Listing /\ Callers /\ Targets /\ Resumed /\
    Provenance /\ StaysControlled /\ NoPtyLeftBehind /\ ReportIsTrue)'
  BY DEF IInv, CheckSent, socketVars, sessionVars, tokenVars, killVars, Homes, Stages,
      Sessions, Listing, Callers, Calls, Targets, Resumed, Provenance, StaysControlled,
      Controlled, NoPtyLeftBehind, ReportIsTrue
<1>. QED
  BY <1>1, <1>2, <1>3 DEF IInv

\* The answer ends the PTY it is about.
LEMMA CheckAnswerKeeps ==
    ASSUME IInv, NEW t \in Tokens, CheckAnswer(t)
    PROVE  IInv'
<1>1. TypeOK'
  BY LimitsAssumption DEF IInv, CheckAnswer, EndSession, KillAndForget, NothingToKill,
      KillWait, socketVars, tokenVars, TypeOK, Waits, Reasons, Checks
<1>2. Checks'
  BY DEF IInv, CheckAnswer, EndSession, KillAndForget, NothingToKill, KillWait,
      tokenVars, Checks, TypeOK
<1>3. Callers'
  BY OthersAssumption DEF IInv, CheckAnswer, Turn, EndSession, KillAndForget,
      NothingToKill, KillWait, socketVars, tokenVars, Callers, Calls
<1>4. Targets'
  BY LimitsAssumption DEF IInv, CheckAnswer, EndSession, KillAndForget, NothingToKill,
      KillWait, tokenVars, Targets
<1>5. Resumed'
  BY DEF IInv, CheckAnswer, Turn, EndSession, KillAndForget, NothingToKill, KillWait,
      tokenVars, Resumed, Targets
<1>6. Provenance'
  <2>1. ASSUME NEW s \in Sockets, active[s], reason'[s] = "revoked"
        PROVE  ~allowed[current[s]] \/ failures'[current[s]] >= MaxFailures
    <3>1. CASE reason'[s] = reason[s]
      <4>1. current[s] \in Tokens /\ active[s] /\ reason[s] = "revoked"
        BY <2>1, <3>1 DEF IInv, Sessions, TypeOK
      <4>2. ~allowed[current[s]] \/ failures[current[s]] >= MaxFailures
        BY <4>1 DEF IInv, Provenance
      <4>3. CASE current[s] = t
        BY <4>1, <4>2, <4>3, LimitsAssumption DEF IInv, CheckAnswer, Checks, TypeOK
      <4>4. CASE current[s] # t
        BY <4>1, <4>2, <4>4 DEF IInv, CheckAnswer
      <4>. QED
        BY <4>3, <4>4
    <3>2. CASE reason'[s] # reason[s]
      BY <2>1, <3>2 DEF IInv, CheckAnswer, EndSession, Checks, TypeOK
    <3>. QED
      BY <3>1, <3>2
  <2>2. ASSUME NEW s \in Sockets, reason'[s] # reason[s]
        PROVE  reason'[s] = "revoked"
    BY <2>2 DEF IInv, CheckAnswer, EndSession, TypeOK
  <2>. QED
    BY <2>1, <2>2 DEF IInv, CheckAnswer, Provenance, socketVars, tokenVars
<1>7. ReportIsTrue'
  BY NoneAssumption DEF IInv, CheckAnswer, EndSession, KillAndForget, NothingToKill,
      KillWait, socketVars, tokenVars, ReportIsTrue, Reasons, Checks
<1>8. (Homes /\ Stages /\ Sessions /\ Listing /\ StaysControlled /\ NoPtyLeftBehind)'
  BY DEF IInv, CheckAnswer, EndSession, KillAndForget, NothingToKill, KillWait,
      socketVars, tokenVars, Homes, Stages, Sessions, Listing, StaysControlled,
      Controlled, NoPtyLeftBehind
<1>. QED
  BY <1>1, <1>2, <1>3, <1>4, <1>5, <1>6, <1>7, <1>8 DEF IInv

\* The process starts in a state of the invariant.
LEMMA InitIInv == Init => IInv
<1>. SUFFICES ASSUME Init PROVE IInv
  OBVIOUS
<1>1. TypeOK
  BY LimitsAssumption DEF Init, TypeOK
<1>2. Homes /\ Stages /\ Listing
  BY DEF Init, Homes, Stages, Listing, Running
<1>3. Sessions /\ Checks /\ Callers /\ Targets /\ Resumed
  BY DEF Init, Sessions, Checks, Callers, Calls, Targets, Resumed
<1>4. Provenance
  BY NoneAssumption DEF Init, Provenance, Reasons
<1>5. StaysControlled /\ NoPtyLeftBehind
  BY DEF Init, StaysControlled, NoPtyLeftBehind, Running
<1>6. ReportIsTrue
  BY NoneAssumption DEF Init, ReportIsTrue, Running, Reasons
<1>. QED
  BY <1>1, <1>2, <1>3, <1>4, <1>5, <1>6 DEF IInv

\* No step of the process, and no stutter, leaves the invariant.
LEMMA NextIInv == IInv /\ [Next]_vars => IInv'
<1>. SUFFICES ASSUME IInv, [Next]_vars PROVE IInv'
  OBVIOUS
<1>1. ASSUME NEW s \in Sockets, Upgrade(s) PROVE IInv'
  BY <1>1, UpgradeKeeps
<1>2. ASSUME NEW s \in Sockets, IpsFetched(s) PROVE IInv'
  BY <1>2, IpsFetchedKeeps
<1>3. ASSUME NEW s \in Sockets, IpsFailed(s) PROVE IInv'
  BY <1>3, IpsFailedKeeps
<1>4. ASSUME NEW s \in Sockets, Close(s) PROVE IInv'
  BY <1>4, CloseKeeps
<1>5. ASSUME NEW s \in Sockets, SocketError(s) PROVE IInv'
  BY <1>5, SocketErrorKeeps
<1>6. ASSUME NEW s \in Sockets, ForceEnd(s) PROVE IInv'
  BY <1>6, ForceEndKeeps
<1>7. ASSUME NEW t \in Tokens, NEW s \in Sockets, SendToken(t, s) PROVE IInv'
  BY <1>7, SendTokenKeeps
<1>8. ASSUME NEW t \in Tokens, RedeemDenied(t) PROVE IInv'
  BY <1>8, RedeemDeniedKeeps
<1>9. ASSUME NEW t \in Tokens, RedeemedTooLate(t) PROVE IInv'
  BY <1>9, RedeemedTooLateKeeps
<1>10. ASSUME NEW t \in Tokens, RedeemedFirst(t) PROVE IInv'
  BY <1>10, RedeemedFirstKeeps
<1>11. ASSUME NEW t \in Tokens, RedeemedNext(t) PROVE IInv'
  BY <1>11, RedeemedNextKeeps
<1>12. ASSUME NEW t \in Tokens, Exit(t) PROVE IInv'
  BY <1>12, ExitKeeps
<1>13. ASSUME NEW t \in Tokens, MaxDuration(t) PROVE IInv'
  BY <1>13, MaxDurationKeeps
<1>14. ASSUME NEW t \in Tokens, Idle(t) PROVE IInv'
  BY <1>14, IdleKeeps
<1>15. ASSUME NEW t \in Tokens, Revoke(t) PROVE IInv'
  BY <1>15, RevokeKeeps
<1>16. ASSUME NEW t \in Tokens, CheckSent(t) PROVE IInv'
  BY <1>16, CheckSentKeeps
<1>17. ASSUME NEW t \in Tokens, CheckAnswer(t) PROVE IInv'
  BY <1>17, CheckAnswerKeeps
<1>18. ASSUME NEW w \in waits, KillSucceeds(w) PROVE IInv'
  BY <1>18, KillSucceedsKeeps
<1>19. ASSUME NEW w \in waits, KillAgain(w) PROVE IInv'
  BY <1>19, KillAgainKeeps
<1>20. ASSUME NEW w \in waits, KillGivesUp(w) PROVE IInv'
  BY <1>20, KillGivesUpKeeps
<1>21. ASSUME NEW w \in waits, DetachAgain(w) PROVE IInv'
  BY <1>21, DetachAgainKeeps
<1>22. ASSUME NEW w \in waits, DetachGivesUp(w) PROVE IInv'
  BY <1>22, DetachGivesUpKeeps
<1>23. ASSUME NEW w \in ready, Resume(w) PROVE IInv'
  BY <1>23, ResumeKeeps
<1>24. CASE UNCHANGED vars
  <2>1. (TypeOK /\ Homes /\ Stages /\ Sessions /\ Listing /\ Checks)'
    BY <1>24 DEF IInv, TypeOK, Homes, Stages, Sessions, Listing, Checks, vars,
        socketVars, sessionVars, tokenVars, watchVars, killVars
  <2>2. (Callers /\ Targets /\ Resumed /\ Provenance)'
    BY <1>24 DEF IInv, Callers, Calls, Targets, Resumed, Provenance, vars, socketVars,
        sessionVars, tokenVars, watchVars, killVars
  <2>3. (StaysControlled /\ NoPtyLeftBehind /\ ReportIsTrue)'
    BY <1>24 DEF IInv, StaysControlled, Controlled, NoPtyLeftBehind, ReportIsTrue, vars,
        socketVars, sessionVars, tokenVars, watchVars, killVars
  <2>. QED
    BY <2>1, <2>2, <2>3 DEF IInv
<1>. QED
  BY <1>1, <1>2, <1>3, <1>4, <1>5, <1>6, <1>7, <1>8, <1>9, <1>10, <1>11, <1>12,
      <1>13, <1>14, <1>15, <1>16, <1>17, <1>18, <1>19, <1>20, <1>21, <1>22, <1>23,
      <1>24 DEF Next

-----------------------------------------------------------------------------
(* Theorems, for any number of connections, tokens and tries. *)

\* The inductive invariant holds throughout (the handlers of terminal-server.js).
THEOREM Invariance == Spec => []IInv
<1>1. Init => IInv
  BY InitIInv
<1>2. IInv /\ [Next]_vars => IInv'
  BY NextIInv
<1>. QED
  BY <1>1, <1>2, PTL DEF Spec

\* Every variable keeps its type; in particular the number of tries of a kill, and
\* of failed checks in a row, stays within its limit.
THEOREM TypeCorrect == Spec => []TypeOK
<1>1. IInv => TypeOK
  BY DEF IInv
<1>. QED
  BY <1>1, Invariance, PTL

\* However kills, closes and redemptions interleave, a PTY whose start nothing
\* overtook stays under the control of its session (handleCommand).
THEOREM AlwaysControlled == Spec => []StaysControlled
<1>1. IInv => StaysControlled
  BY DEF IInv
<1>. QED
  BY <1>1, Invariance, PTL

\* Such a PTY is alive only while its session is listed, so closing the connection
\* leaves none behind (handleClose).
THEOREM NeverLeftBehind == Spec => []NoPtyLeftBehind
<1>1. IInv => NoPtyLeftBehind
  BY DEF IInv
<1>. QED
  BY <1>1, Invariance, PTL

\* Coolify is told of an end when it has happened, and why (reportEnd).
THEOREM ReportsAreTrue == Spec => []ReportIsTrue
<1>1. IInv => ReportIsTrue
  BY DEF IInv
<1>. QED
  BY <1>1, Invariance, PTL
=============================================================================
