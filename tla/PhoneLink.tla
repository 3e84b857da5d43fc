------------------------------ MODULE PhoneLink ------------------------------
(***************************************************************************)
(* The link between the phone and the relay that serves its engine: how    *)
(* RemoteEngineClient (apps/desktop/mobile) opens, loses, replaces and     *)
(* retries its WebSocket, and how the relay (apps/desktop/relay) hands its *)
(* one controller slot to a connection.                                    *)
(*                                                                         *)
(* A socket has two ends that learn of its death apart: "side" is the      *)
(* phone's end, "relay" the relay's.  "attempt" is the asynchronous        *)
(* function that opened the socket and has not returned.  What an attempt  *)
(* does when its promise is rejected runs before the next event of the     *)
(* phone, so it is part of the action that rejects it.  The identity of a  *)
(* socket is reused once nothing refers to it.                             *)
(***************************************************************************)
EXTENDS Naturals

CONSTANTS
  MaxSockets,  \* bound: sockets that something still refers to
  MaxFaults,   \* bound: cuts, slow answers, broken feeds, takings by the desktop
  MaxActs      \* bound: connects, returns to the foreground and shutdowns

ASSUME LinkAssumption ==
  {MaxSockets, MaxFaults, MaxActs} \subseteq Nat

Socket == 1..MaxSockets
None == 0

VARIABLES
  side,        \* the phone's end of each socket
  relay,       \* the relay's end of each socket; "serving" is the controller
  cut,         \* sockets whose path is broken
  attempt,     \* where the function that opened the socket stands
  by,          \* who called that function
  current,     \* #socket
  waiter,      \* the attempt #readyWaiter belongs to
  ready,       \* #ready
  known,       \* #hostInstanceId # ""
  replaying,   \* #replayInFlight
  timer,       \* #reconnectTimer # null
  paired,      \* #lastBootstrap # null
  linked,      \* has a connect of the app returned? (didInitialConnect)
  closed,      \* #closed
  terminal,    \* #terminallyDisconnected
  authorized,  \* the relay's mobileAuthorized
  hasty,       \* history: has the user acted while the client was busy connecting?
  faults, acts

phoneVars == <<side, attempt, by, current, waiter, ready, known, replaying,
               timer, paired, linked, closed, terminal>>
relayVars == <<relay, authorized>>
linkVars == <<phoneVars, relayVars, cut, hasty, faults, acts>>

LinkTypeOK ==
  /\ side \in [Socket -> {"free", "opening", "open"}]
  /\ relay \in [Socket -> {"free", "asked", "serving", "busy", "denied"}]
  /\ \A s, x \in Socket : relay[s] = "serving" /\ relay[x] = "serving" => s = x
  /\ cut \subseteq Socket
  /\ attempt \in [Socket -> {"none", "opening", "waiting"}]
  /\ by \in [Socket -> {"connect", "timer", "return"}]
  /\ {current, waiter} \subseteq Socket \cup {None}
  /\ {ready, known, replaying, timer, paired, linked, closed, terminal, authorized} \subseteq BOOLEAN
  /\ hasty \in BOOLEAN
  /\ faults \in 0..MaxFaults
  /\ acts \in 0..MaxActs

LinkInit ==
  /\ side = [s \in Socket |-> "free"]
  /\ relay = [s \in Socket |-> "free"]
  /\ cut = {}
  /\ attempt = [s \in Socket |-> "none"]
  /\ by = [s \in Socket |-> "connect"]
  /\ current = None /\ waiter = None
  /\ ready = FALSE /\ known = FALSE /\ replaying = FALSE
  /\ timer = FALSE /\ paired = FALSE /\ linked = FALSE /\ closed = FALSE /\ terminal = FALSE
  /\ authorized = TRUE
  /\ hasty = FALSE /\ faults = 0 /\ acts = 0

-----------------------------------------------------------------------------
(* What the handlers share.                                                *)

\* A bounded misfortune of the environment; what a hasty act leads to needs none.
Fault == ~hasty /\ faults < MaxFaults /\ faults' = faults + 1

\* A retry is armed or under way, or a replay awaits its answer.
Busy == timer \/ replaying \/ \E s \in Socket : attempt[s] # "none"

\* One of the user's bounded acts that opens a socket.
Act ==
  /\ acts < MaxActs /\ acts' = acts + 1
  /\ hasty' = (hasty \/ Busy)

Calm == UNCHANGED faults

Unused(s) == side[s] = "free" /\ relay[s] = "free" /\ attempt[s] = "none"

\* The identity a new socket takes.
Fresh == {s \in Socket : Unused(s) /\ \A x \in Socket : x < s => ~Unused(x)}

Attached ==
  \E s \in Socket \ cut :
     ready /\ current = s /\ side[s] = "open" /\ relay[s] = "serving"

\* #scheduleReconnect, called or not by the handler itself and by the attempts
\* of Failed, whose rejection the timer's and the return's callers catch.
Reschedule(armed, Failed, called) ==
  timer' = (armed \/ (~closed /\ (called \/ \E s \in Failed : by[s] # "connect")))

\* A discarded socket is not closed.
DiscardLeavesOpen == side' = side /\ current' = None /\ ready' = FALSE

\* #discardSocket of the current socket.
Discard ==
  /\ side' = [s \in Socket |-> IF s = current THEN "free" ELSE side[s]]
  /\ current' = None
  /\ ready' = FALSE

\* The attempts of Failed return.
Abandon(Failed) ==
  attempt' = [s \in Socket |-> IF s \in Failed THEN "none" ELSE attempt[s]]

\* #openSocket up to its await: the new socket replaces the current one, which
\* it does not close.
Open(s, caller) ==
  /\ relay' = [relay EXCEPT ![s] = "asked"]
  /\ cut' = cut \ {s}
  /\ by' = [by EXCEPT ![s] = caller]

\* A close forgets the waiter without rejecting it.
RejectsNone == {}

\* The attempt whose ready waiter a handler rejects.
Rejected == {waiter} \ {None}

-----------------------------------------------------------------------------
(* The phone.                                                              *)

\* connect: the app's first use of the client, and the user's retry after it
\* failed.  It leaves an armed retry alone.
Connect ==
  /\ ~linked /\ ~ready /\ \A s \in Socket : attempt[s] # "none" => by[s] # "connect"
  /\ Act
  /\ \E s \in Fresh :
       /\ Open(s, "connect")
       /\ side' = [side EXCEPT ![s] = "opening"]
       /\ attempt' = [attempt EXCEPT ![s] = "opening"]
       /\ current' = s
  /\ closed' = FALSE /\ terminal' = FALSE
  /\ UNCHANGED <<waiter, ready, known, replaying, timer, paired, linked,
                 authorized, faults>>

\* The reconnect timer fires, whatever the client has connected since.
TimerFires ==
  /\ timer /\ timer' = FALSE
  /\ \E s \in Fresh :
       /\ Open(s, "timer")
       /\ side' = [side EXCEPT ![s] = "opening"]
       /\ attempt' = [attempt EXCEPT ![s] = "opening"]
       /\ current' = s
  /\ UNCHANGED <<waiter, ready, known, replaying, paired, linked, closed, terminal,
                 authorized, faults, acts, hasty>>

\* onopen of the promise: the current socket sends the bootstrap and waits for
\* ready; a superseded one fails its attempt and stays open.
Opened(s) ==
  /\ side[s] = "opening" /\ s \notin cut
  /\ relay[s] \in {"serving", "busy", "denied"}
  /\ side' = [side EXCEPT ![s] = "open"]
  /\ \/ /\ attempt[s] = "opening" /\ current = s
        /\ attempt' = [attempt EXCEPT ![s] = "waiting"]
        /\ waiter' = s /\ paired' = TRUE
        /\ UNCHANGED timer
     \/ /\ attempt[s] = "opening" /\ current # s
        /\ Abandon({s}) /\ Reschedule(timer, {s}, FALSE)
        /\ UNCHANGED <<waiter, paired>>
     \/ /\ attempt[s] = "none"
        /\ UNCHANGED <<attempt, waiter, paired, timer>>
  /\ UNCHANGED <<relayVars, cut, by, current, ready, known, replaying, linked,
                 closed, terminal, faults, acts, hasty>>

\* onerror or onclose of the promise.
OpenFails(s) ==
  /\ side[s] = "opening" /\ s \in cut
  /\ side' = [side EXCEPT ![s] = "free"]
  /\ current' = IF current = s THEN None ELSE current
  /\ ready' = (ready /\ current # s)
  /\ Abandon({s})
  /\ Reschedule(timer, {x \in {s} : attempt[x] = "opening"}, FALSE)
  /\ UNCHANGED <<relayVars, cut, by, waiter, known, replaying, paired, linked,
                 closed, terminal, faults, acts, hasty>>

\* Nothing will settle the promise of s: its handlers are gone with the socket.
OpenHangs(s) == attempt[s] = "opening" /\ side[s] = "free"

\* The open timeout: the attempt discards its socket if it still is the current one.
OpenTimesOut(s) ==
  /\ attempt[s] = "opening"
  /\ Abandon({s}) /\ Reschedule(timer, {s}, FALSE)
  /\ \/ current = s /\ Discard
     \/ current # s /\ UNCHANGED <<side, current, ready>>
  /\ UNCHANGED <<relayVars, cut, by, waiter, known, replaying, paired, linked,
                 closed, terminal, acts, hasty>>

\* The ready frame: it settles whichever attempt the waiter belongs to.
ReadyArrives(s) ==
  /\ current = s /\ s \notin cut /\ ~ready
  /\ side[s] = "open" /\ relay[s] = "serving" /\ attempt[s] = "waiting"
  /\ ready' = TRUE /\ known' = TRUE
  /\ waiter' = None /\ Abandon(Rejected)
  /\ linked' = (linked \/ \E x \in Rejected : by[x] = "connect")
  /\ UNCHANGED <<side, by, current, replaying, timer, paired, closed, terminal,
                 relayVars, cut, faults, acts, hasty>>

\* The answer s waits for cannot come, or came when the waiter was not its own.
ReadyHangs(s) ==
  attempt[s] = "waiting" /\ (current # s \/ waiter # s \/ s \in cut)

\* The ready timeout: it clears the waiter, whosever that is by now.
ReadyTimesOut(s) ==
  /\ attempt[s] = "waiting"
  /\ waiter' = None
  /\ Abandon({s}) /\ Reschedule(timer, {s}, FALSE)
  /\ \/ current = s /\ Discard
     \/ current # s /\ UNCHANGED <<side, current, ready>>
  /\ UNCHANGED <<relayVars, cut, by, known, replaying, paired, linked, closed,
                 terminal, acts, hasty>>

\* onclose of an open socket.  On the current one #handleClose rejects the ready
\* waiter and the calls; a replay rejected so runs #recoverFromContinuityFailure.
CloseArrives(s) ==
  /\ side[s] = "open"
  /\ relay[s] \in {"busy", "denied"} \/ s \in cut
  /\ side' = [side EXCEPT ![s] = "free"]
  /\ relay' = IF s \in cut THEN relay ELSE [relay EXCEPT ![s] = "free"]
  /\ \/ /\ current = s
        /\ current' = None /\ ready' = FALSE
        /\ terminal' = (relay[s] = "denied" /\ s \notin cut)
        /\ waiter' = None /\ Abandon(Rejected)
        /\ replaying' = FALSE /\ known' = (known /\ ~replaying)
        /\ Reschedule(timer, Rejected, ~terminal')
     \/ /\ current # s
        /\ UNCHANGED <<current, ready, terminal, waiter, attempt, replaying,
                       known, timer>>
  /\ UNCHANGED <<authorized, cut, by, paired, linked, closed, faults, acts, hasty>>

\* #recoverFromContinuityFailure.
Recover ==
  /\ known' = FALSE /\ replaying' = FALSE
  /\ waiter' = None /\ Abandon(Rejected)
  /\ Discard /\ Reschedule(timer, Rejected, ~terminal)
  /\ UNCHANGED <<relayVars, cut, by, paired, linked, closed, terminal, acts, hasty>>

\* An event frame arrives before the ready frame on a client that knows no host.
EarlyEvent ==
  /\ \E s \in Socket \ cut :
       current = s /\ side[s] = "open" /\ relay[s] = "serving" /\ ~known
  /\ Fault /\ Recover

\* A gap in the events starts a replay; its answer ends it.
GapSeen ==
  /\ Attached /\ ~replaying /\ replaying' = TRUE
  /\ UNCHANGED <<side, attempt, by, current, waiter, ready, known, timer, paired,
                 linked, closed, terminal, relayVars, cut, faults, acts, hasty>>

ReplayEnds ==
  /\ Attached /\ replaying /\ replaying' = FALSE
  /\ UNCHANGED <<side, attempt, by, current, waiter, ready, known, timer, paired,
                 linked, closed, terminal, relayVars, cut, faults, acts, hasty>>

\* The replay is refused, or its answer does not come in time.
ReplayFails == replaying /\ Recover

\* refreshAfterForeground: replaces the socket.  The waiter and the calls it
\* rejects settle after the new socket is current: a caught attempt arms the
\* timer, a rejected replay discards the new socket.
Return ==
  /\ ~closed /\ ~terminal /\ paired
  /\ \A s \in Socket : attempt[s] # "none" => by[s] # "return"
  /\ Act
  /\ \E s \in Fresh :
       /\ Open(s, "return")
       /\ side' = [x \in Socket |-> IF x = s /\ ~replaying THEN "opening"
                                    ELSE IF x \in {s, current} THEN "free" ELSE side[x]]
       /\ attempt' = [x \in Socket |-> IF x = s THEN "opening"
                                       ELSE IF x \in Rejected THEN "none" ELSE attempt[x]]
       /\ current' = IF replaying THEN None ELSE s
  /\ ready' = FALSE /\ waiter' = None
  /\ known' = (known /\ ~replaying) /\ replaying' = FALSE
  /\ Reschedule(FALSE, Rejected, replaying)
  /\ UNCHANGED <<paired, linked, closed, terminal, authorized, faults>>

\* shutdown: the phone gives the session back to the desktop.
Shutdown ==
  /\ paired /\ ~closed /\ acts < MaxActs /\ acts' = acts + 1
  /\ closed' = TRUE /\ timer' = FALSE /\ known' = FALSE
  /\ Discard
  /\ LET told == {s \in Socket \ cut :
                    s = current /\ side[s] = "open" /\ relay[s] = "serving"}
     IN /\ authorized' = (authorized /\ told = {})
        /\ relay' = [s \in Socket |-> IF s \in told THEN "denied" ELSE relay[s]]
  /\ UNCHANGED <<cut, attempt, by, waiter, replaying, paired, linked, terminal, faults,
                 hasty>>

-----------------------------------------------------------------------------
(* The relay, the desktop and the network.                                 *)

\* A second controller is let in.
AcceptsAnother(s) ==
  /\ relay[s] = "asked" /\ s \notin cut
  /\ relay' = [relay EXCEPT ![s] = IF ~authorized THEN "denied" ELSE "serving"]
  /\ UNCHANGED <<phoneVars, authorized, cut, faults, acts, hasty>>

\* wss.on("connection"): one controller; refused while the desktop has control.
RelayAccepts(s) ==
  /\ relay[s] = "asked" /\ s \notin cut
  /\ relay' = [relay EXCEPT ![s] =
       IF ~authorized THEN "denied"
       ELSE IF \E x \in Socket : relay[x] = "serving" THEN "busy" ELSE "serving"]
  /\ UNCHANGED <<phoneVars, authorized, cut, faults, acts, hasty>>

\* The relay's end of a socket the phone no longer has: it hears of the close,
\* unless the path is broken under the controller.
RelayHears(s) ==
  /\ side[s] = "free" /\ relay[s] # "free"
  /\ IF s \in cut THEN relay[s] # "serving" ELSE relay[s] # "asked"
  /\ relay' = [relay EXCEPT ![s] = "free"]
  /\ UNCHANGED <<phoneVars, authorized, cut, faults, acts, hasty>>

\* The heartbeat pings and never terminates.
HeartbeatOnlyPings == FALSE /\ UNCHANGED linkVars

\* controllerHeartbeat: no pong since the last tick.
Heartbeat ==
  /\ \E s \in cut :
       relay[s] = "serving" /\ relay' = [relay EXCEPT ![s] = "free"]
  /\ UNCHANGED <<phoneVars, authorized, cut, faults, acts, hasty>>

\* The network loses a socket; neither end knows yet.
Cut(s) ==
  /\ s \notin cut /\ (side[s] # "free" \/ relay[s] # "free")
  /\ Fault /\ cut' = cut \cup {s}
  /\ UNCHANGED <<phoneVars, relayVars, acts, hasty>>

\* releaseToDesktop on the desktop's demand, and "desktop-released".
DesktopTakes ==
  /\ authorized /\ authorized' = FALSE
  /\ Fault
  /\ relay' = [s \in Socket |-> IF relay[s] = "serving" THEN "denied" ELSE relay[s]]
  /\ UNCHANGED <<phoneVars, cut, acts, hasty>>

DesktopReleases ==
  /\ ~authorized /\ authorized' = TRUE
  /\ UNCHANGED <<phoneVars, relay, cut, faults, acts, hasty>>

-----------------------------------------------------------------------------
\* A timeout is due when nothing else can settle what it guards; one that fires
\* on a slow but live path is a fault.
DueTimeout(s) ==
  \/ OpenHangs(s) /\ OpenTimesOut(s) /\ Calm
  \/ ReadyHangs(s) /\ ReadyTimesOut(s) /\ Calm

SlowTimeout(s) ==
  \/ OpenTimesOut(s) /\ Fault
  \/ ReadyTimesOut(s) /\ Fault

ReplayLost == ~Attached /\ ReplayFails /\ Calm

SocketStep(s) ==
  \/ Opened(s) \/ OpenFails(s) \/ ReadyArrives(s) \/ CloseArrives(s)
  \/ DueTimeout(s) \/ RelayAccepts(s) \/ RelayHears(s)

LinkNext ==
  \/ Connect \/ TimerFires \/ Return \/ Shutdown
  \/ EarlyEvent \/ GapSeen \/ ReplayEnds \/ ReplayLost \/ (ReplayFails /\ Fault)
  \/ \E s \in Socket : SocketStep(s) \/ SlowTimeout(s) \/ Cut(s)
  \/ Heartbeat \/ DesktopTakes \/ DesktopReleases

LinkSpec == LinkInit /\ [][LinkNext]_linkVars

\* The event loops and timers of both ends run, and the network delivers what
\* it has not lost.  The user and the desktop owe nothing.
LinkFairness ==
  /\ WF_linkVars(TimerFires)
  /\ WF_linkVars(Heartbeat)
  /\ WF_linkVars(ReplayEnds)
  /\ WF_linkVars(ReplayLost)
  /\ \A s \in Socket : WF_linkVars(SocketStep(s))

FairLinkSpec == LinkSpec /\ LinkFairness
-----------------------------------------------------------------------------
(* Properties.                                                             *)

\* The relay's controller is a socket the phone listens to, or one whose death
\* it is about to hear of: an open socket the phone has forgotten answers the
\* relay's pings for ever and locks the phone itself out (server.ts, 4002).
NoDeafController ==
  \/ hasty
  \/ \A s \in Socket : relay[s] = "serving" /\ side[s] = "open" => current = s

\* The one ready waiter is the waiting attempt's own, so the ready frame and the
\* ready timeout settle the attempt they were meant for (#waitForReady).
WaiterIsOwn ==
  \/ hasty
  \/ \A s \in Socket : attempt[s] = "waiting" => waiter = s /\ (closed \/ current = s)

\* The phone retries for as long as it owns the session, and in the end it is
\* attached to the relay again.
AlwaysReattaches ==
  []<>(Attached \/ ~linked \/ closed \/ terminal \/ ~authorized)

\* It is so as long as the user acts when the client is at rest.
Reattaches ==
  []<>(Attached \/ hasty \/ ~linked \/ closed \/ terminal \/ ~authorized)
=============================================================================
