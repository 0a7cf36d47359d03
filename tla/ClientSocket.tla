---------------------------- MODULE ClientSocket ----------------------------
(***************************************************************************)
(* The WebSockets of AgentConnectionProvider: which one is current, the    *)
(* reconnect timer, the heartbeat, and the effect that React runs when the *)
(* provider mounts and again when its url or getToken changes.             *)
(*                                                                         *)
(* ws.close() only begins a close: onclose comes later, when the effect    *)
(* may already have run again.  A timer that reconnectTimerRef no longer   *)
(* names cannot be cleared, and a connect whose getToken rejects ends      *)
(* without a socket and without a timer.  autoReconnect is not off.        *)
(***************************************************************************)
EXTENDS Naturals, FiniteSets

CONSTANTS
    Urls,        \* the urls the provider is given
    Reruns,      \* "url": only the url changes; "any": getToken may change too
    MaxSockets,  \* bound: WebSockets created
    MaxReruns,   \* bound: runs of the effect after the first
    MaxFailures  \* bound: connections the network closes, and tokens that reject

VARIABLES
    hasToken,   \* getToken is set: connect awaits it
    sockets,    \* number -> [st, url] of the WebSockets created
    wsRef,      \* wsRef.current, 0 for null
    active,     \* activeUrlRef.current
    disposed,   \* disposedRef.current
    mounted,
    awaiting,   \* url -> its connects that await getToken
    rejected,   \* the urls whose getToken rejected since the last connect for them
    timers,     \* url -> its reconnect timers that run
    timerRef,   \* the url of the running timer that reconnectTimerRef names, or "none"
    ping,       \* the socket that pingIntervalRef's heartbeat is for, 0 for null
    status,     \* connectionStatus
    reruns, failures

vars == <<hasToken, sockets, wsRef, active, disposed, mounted, awaiting, rejected, timers,
          timerRef, ping, status, reruns, failures>>

Live == {w \in DOMAIN sockets : sockets[w].st \in {"connecting", "open"}}

SetState(w, st) == [sockets EXCEPT ![w].st = st]

newSocket(socks, u) ==
    /\ Cardinality(DOMAIN socks) < MaxSockets
    /\ LET w == Cardinality(DOMAIN socks) + 1 IN
       /\ sockets' = [v \in 1..w |-> IF v = w THEN [st |-> "connecting", url |-> u] ELSE socks[v]]
       /\ wsRef' = w

connect(socks, u) ==
    /\ status' = "connecting" /\ rejected' = rejected \ {u}
    /\ IF hasToken
       THEN awaiting' = [awaiting EXCEPT ![u] = @ + 1] /\ sockets' = socks /\ UNCHANGED wsRef
       ELSE newSocket(socks, u) /\ UNCHANGED awaiting

Init ==
    /\ hasToken \in BOOLEAN /\ rejected = {}
    /\ sockets = [w \in {} |-> 0] /\ wsRef = 0
    /\ active \in Urls /\ disposed = FALSE /\ mounted = FALSE
    /\ awaiting = [u \in Urls |-> 0] /\ timers = [u \in Urls |-> 0] /\ timerRef = "none" /\ ping = 0
    /\ status = "connecting" /\ reruns = 0 /\ failures = 0

mount ==
    /\ ~mounted /\ reruns = 0
    /\ mounted' = TRUE /\ disposed' = FALSE
    /\ connect(sockets, active)
    /\ UNCHANGED <<hasToken, active, timers, timerRef, ping, reruns, failures>>

\* What the effect's cleanup does to the sockets and to the timers.
Closing == IF wsRef # 0 THEN SetState(wsRef, "closing") ELSE sockets
ClearTimer == timers' = [u \in Urls |-> IF u = timerRef THEN timers[u] - 1 ELSE timers[u]]
              /\ timerRef' = "none"

rerunEffect(u) ==
    /\ mounted /\ reruns < MaxReruns
    /\ Reruns = "any" \/ u # active
    /\ reruns' = reruns + 1
    /\ ClearTimer /\ ping' = 0
    /\ disposed' = FALSE /\ active' = u
    /\ connect(Closing, u)
    /\ UNCHANGED <<hasToken, mounted, failures>>

unmount ==
    /\ mounted
    /\ mounted' = FALSE /\ disposed' = TRUE /\ reruns' = MaxReruns + 1
    /\ ClearTimer /\ ping' = 0
    /\ sockets' = Closing
    /\ UNCHANGED <<hasToken, wsRef, active, awaiting, rejected, status, failures>>

tokenReady(u) ==
    /\ awaiting[u] > 0
    /\ awaiting' = [awaiting EXCEPT ![u] = @ - 1]
    /\ IF active # u THEN UNCHANGED <<sockets, wsRef>> ELSE newSocket(sockets, u)
    /\ UNCHANGED <<hasToken, active, disposed, mounted, rejected, timers, timerRef, ping,
                   status, reruns, failures>>

\* The promise of connect rejects too, and nobody awaits it.
tokenRejected(u) ==
    /\ awaiting[u] > 0 /\ failures < MaxFailures
    /\ failures' = failures + 1
    /\ awaiting' = [awaiting EXCEPT ![u] = @ - 1]
    /\ rejected' = rejected \cup {u}
    /\ UNCHANGED <<hasToken, sockets, wsRef, active, disposed, mounted, timers, timerRef, ping,
                   status, reruns>>

onopen(w) ==
    /\ sockets[w].st = "connecting"
    /\ sockets' = SetState(w, "open")
    /\ status' = "connected" /\ ping' = w
    /\ UNCHANGED <<hasToken, wsRef, active, disposed, mounted, awaiting, rejected, timers,
                   timerRef, reruns, failures>>

\* A variant that gives up after a failure.
reconnectNever(u) == UNCHANGED <<timers, timerRef>>

reconnect(u) == timers' = [timers EXCEPT ![u] = @ + 1] /\ timerRef' = u

onclose(w) ==
    /\ \/ sockets[w].st = "closing" /\ UNCHANGED failures
       \/ sockets[w].st \in {"connecting", "open"} /\ failures < MaxFailures /\ failures' = failures + 1
    /\ sockets' = SetState(w, "closed")
    /\ wsRef' = IF wsRef = w THEN 0 ELSE wsRef
    /\ ping' = 0
    /\ IF disposed \/ active # sockets[w].url
       THEN status' = "disconnected" /\ UNCHANGED <<timers, timerRef>>
       ELSE status' = "reconnecting" /\ reconnect(sockets[w].url)
    /\ UNCHANGED <<hasToken, active, disposed, mounted, awaiting, rejected, reruns>>

\* Clearing a timer that has fired does nothing, so timerRef then names none.
timerFires(u) ==
    /\ timers[u] > 0
    /\ timers' = [timers EXCEPT ![u] = @ - 1]
    /\ \/ timerRef = u /\ timerRef' = "none"
       \/ (timerRef # u \/ timers[u] > 1) /\ UNCHANGED timerRef
    /\ connect(sockets, u)
    /\ UNCHANGED <<hasToken, active, disposed, mounted, ping, reruns, failures>>

\* No pong within PONG_TIMEOUT_MS of a ping.
pongTimeout ==
    /\ ping # 0 /\ sockets[ping].st = "open" /\ failures < MaxFailures
    /\ failures' = failures + 1
    /\ sockets' = SetState(ping, "closing")
    /\ UNCHANGED <<hasToken, wsRef, active, disposed, mounted, awaiting, rejected, timers,
                   timerRef, ping, status, reruns>>

Step ==
    \/ mount
    \/ \E u \in Urls : tokenReady(u) \/ timerFires(u)
    \/ \E w \in DOMAIN sockets : onopen(w) \/ (sockets[w].st = "closing" /\ onclose(w))

Next ==
    \/ Step \/ unmount \/ pongTimeout
    \/ \E u \in Urls : rerunEffect(u) \/ tokenRejected(u)
    \/ \E w \in DOMAIN sockets : onclose(w)

Spec == Init /\ [][Next]_vars

\* React commits the mount, getToken and the network answer, timers fire.
FairSpec == Spec /\ WF_vars(Step)

----------------------------------------------------------------------------
OpenFor(w) == sockets[w].st = "open" /\ sockets[w].url = active

(* A mounted provider has, in the end, an open socket for its url, however *)
(* often the connection was lost or the url changed on the way, unless the *)
(* last getToken for that url rejected; with getToken it is the current    *)
(* one, that messages are sent on.                                         *)
Reconnects == <>[](mounted =>
    \/ active \in rejected
    \/ \E w \in DOMAIN sockets : OpenFor(w) /\ (hasToken => w = wsRef))

(* Without getToken, too, messages are sent on a socket for the url.       *)
CurrentForUrl == <>[](mounted => active \in rejected \/ (wsRef # 0 /\ OpenFor(wsRef)))

(* A provider whose token was rejected says so, or tries again.            *)
RejectionShown == <>[](mounted /\ active \in rejected /\ Live = {} => status # "connecting")

(* At most one socket of the provider is open or opening: an onclose that  *)
(* comes after the effect ran again starts no second connection.           *)
OneSocket == Cardinality(Live) <= 1

(* A provider that was unmounted creates no socket that stays open.        *)
UnmountCloses == (disposed /\ \A u \in Urls : awaiting[u] = 0) => Live = {}

(* The current socket, when open, has the heartbeat that notices its loss. *)
HeartbeatKept == wsRef # 0 /\ sockets[wsRef].st = "open" => ping = wsRef

(* The status shown is that of the current socket.                         *)
StatusTruthful == wsRef # 0 /\ sockets[wsRef].st = "open" => status = "connected"
=============================================================================
