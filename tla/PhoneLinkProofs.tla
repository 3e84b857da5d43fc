---------------------------- MODULE PhoneLinkProofs ----------------------------
(***************************************************************************)
(* Proofs about PhoneLink, for any number of sockets, faults and acts.     *)
(* First the types, with the relay's one controller.  Then the shape of a  *)
(* client on which the user never acted hastily: it has one open socket    *)
(* and one attempt, both of them current, and a retry is armed or a replay *)
(* awaited only when there is no attempt.                                  *)
(***************************************************************************)
EXTENDS PhoneLink, TLAPS

\* The value that stands for no socket is none.
LEMMA NoneIsNoSocket == None \notin Socket
BY LinkAssumption, SMTT(20) DEF None, Socket

-----------------------------------------------------------------------------
(* Types: LinkTypeOK in four parts, each with a lemma of its own.          *)

SocketTypes ==
  /\ side \in [Socket -> {"free", "opening", "open"}]
  /\ relay \in [Socket -> {"free", "asked", "serving", "busy", "denied"}]
  /\ cut \subseteq Socket
  /\ attempt \in [Socket -> {"none", "opening", "waiting"}]
  /\ by \in [Socket -> {"connect", "timer", "return"}]
  /\ {current, waiter} \subseteq Socket \cup {None}

\* The relay has one controller slot.
OneController ==
  \A s, x \in Socket : relay[s] = "serving" /\ relay[x] = "serving" => s = x

Flags ==
  /\ {ready, known, replaying, timer, paired, linked, closed, terminal,
      authorized} \subseteq BOOLEAN
  /\ hasty \in BOOLEAN

Counts == faults \in 0..MaxFaults /\ acts \in 0..MaxActs

LEMMA TypesInParts == LinkTypeOK <=> SocketTypes /\ OneController /\ Flags /\ Counts
BY Zenon DEF LinkTypeOK, SocketTypes, OneController, Flags, Counts

\* Every step keeps the types of the sockets.
LEMMA SocketTypesStep ==
  ASSUME SocketTypes, [LinkNext]_linkVars
  PROVE  SocketTypes'
<1> USE NoneIsNoSocket DEF SocketTypes
<1>1. CASE UNCHANGED linkVars
  BY <1>1 DEF linkVars, phoneVars, relayVars
<1>2. CASE Connect \/ TimerFires \/ Return
  BY <1>2, SMT DEF Connect, TimerFires, Return, Act, Open, Reschedule, Fresh, Unused,
      Rejected, phoneVars, relayVars
<1>3. CASE Shutdown
  BY <1>3, SMT DEF Shutdown, Discard, phoneVars, relayVars
<1>4. CASE EarlyEvent \/ ReplayLost \/ (ReplayFails /\ Fault)
  BY <1>4, SMT DEF EarlyEvent, ReplayLost, ReplayFails, Calm, Fault, Recover, Rejected,
      Discard, Abandon, Reschedule, phoneVars, relayVars
<1>5. CASE GapSeen \/ ReplayEnds
  BY <1>5, SMT DEF GapSeen, ReplayEnds, phoneVars, relayVars
<1>6. CASE Heartbeat \/ DesktopTakes \/ DesktopReleases
  BY <1>6, SMT DEF Heartbeat, DesktopTakes, DesktopReleases, Fault, phoneVars, relayVars
<1>7. ASSUME NEW s \in Socket, Opened(s) \/ OpenFails(s)
      PROVE  SocketTypes'
  BY <1>7, SMT DEF Opened, OpenFails, Abandon, Reschedule, phoneVars, relayVars
<1>8. ASSUME NEW s \in Socket, ReadyArrives(s)
      PROVE  SocketTypes'
  BY <1>8, SMT DEF ReadyArrives, Abandon, Rejected, phoneVars, relayVars
<1>9. ASSUME NEW s \in Socket, CloseArrives(s)
      PROVE  SocketTypes'
  BY <1>9, SMT DEF CloseArrives, Abandon, Rejected, Reschedule, phoneVars, relayVars
<1>10. ASSUME NEW s \in Socket, DueTimeout(s) \/ SlowTimeout(s)
      PROVE  SocketTypes'
  BY <1>10, SMT DEF DueTimeout, SlowTimeout, OpenTimesOut, ReadyTimesOut, Calm, Fault,
      Abandon, Reschedule, Discard, phoneVars, relayVars
<1>11. ASSUME NEW s \in Socket, RelayAccepts(s) \/ RelayHears(s) \/ Cut(s)
      PROVE  SocketTypes'
  BY <1>11, SMT DEF RelayAccepts, RelayHears, Cut, Fault, phoneVars, relayVars
<1> QED
  BY <1>1, <1>2, <1>3, <1>4, <1>5, <1>6, <1>7, <1>8, <1>9, <1>10, <1>11, Zenon DEF
      LinkNext, SocketStep

\* Only RelayAccepts serves a socket, and only when it serves none.
LEMMA OneControllerStep ==
  ASSUME OneController, SocketTypes, [LinkNext]_linkVars
  PROVE  OneController'
<1> USE DEF OneController, SocketTypes
<1>1. CASE UNCHANGED linkVars
  BY <1>1 DEF linkVars, phoneVars, relayVars
<1>2. CASE Connect \/ TimerFires \/ Return
  BY <1>2, SMT DEF Connect, TimerFires, Return, Act, Open, Reschedule, Fresh, Unused,
      Rejected, phoneVars, relayVars
<1>3. CASE Shutdown
  BY <1>3, SMT DEF Shutdown, Discard, phoneVars, relayVars
<1>4. CASE EarlyEvent \/ ReplayLost \/ (ReplayFails /\ Fault)
  BY <1>4, SMT DEF EarlyEvent, ReplayLost, ReplayFails, Calm, Fault, Recover, Rejected,
      Discard, Abandon, Reschedule, phoneVars, relayVars
<1>5. CASE GapSeen \/ ReplayEnds
  BY <1>5, SMT DEF GapSeen, ReplayEnds, phoneVars, relayVars
<1>6. CASE Heartbeat \/ DesktopTakes \/ DesktopReleases
  BY <1>6, SMT DEF Heartbeat, DesktopTakes, DesktopReleases, Fault, phoneVars, relayVars
<1>7. ASSUME NEW s \in Socket, Opened(s) \/ OpenFails(s)
      PROVE  OneController'
  BY <1>7, SMT DEF Opened, OpenFails, Abandon, Reschedule, phoneVars, relayVars
<1>8. ASSUME NEW s \in Socket, ReadyArrives(s)
      PROVE  OneController'
  BY <1>8, SMT DEF ReadyArrives, Abandon, Rejected, phoneVars, relayVars
<1>9. ASSUME NEW s \in Socket, CloseArrives(s)
      PROVE  OneController'
  BY <1>9, SMT DEF CloseArrives, Abandon, Rejected, Reschedule, phoneVars, relayVars
<1>10. ASSUME NEW s \in Socket, DueTimeout(s) \/ SlowTimeout(s)
      PROVE  OneController'
  BY <1>10, SMT DEF DueTimeout, SlowTimeout, OpenTimesOut, ReadyTimesOut, Calm, Fault,
      Abandon, Reschedule, Discard, phoneVars, relayVars
<1>11. ASSUME NEW s \in Socket, RelayAccepts(s) \/ RelayHears(s) \/ Cut(s)
      PROVE  OneController'
  BY <1>11, SMT DEF RelayAccepts, RelayHears, Cut, Fault, phoneVars, relayVars
<1> QED
  BY <1>1, <1>2, <1>3, <1>4, <1>5, <1>6, <1>7, <1>8, <1>9, <1>10, <1>11, Zenon DEF
      LinkNext, SocketStep

\* Every step keeps the flags boolean.
LEMMA FlagsStep ==
  ASSUME Flags, [LinkNext]_linkVars
  PROVE  Flags'
<1> USE DEF Flags
<1>1. CASE UNCHANGED linkVars
  BY <1>1 DEF linkVars, phoneVars, relayVars
<1>2. CASE Connect \/ TimerFires \/ Return
  BY <1>2, Zenon DEF Connect, TimerFires, Return, Act, Open, Reschedule, Fresh, Unused,
      Rejected, phoneVars, relayVars
<1>3. CASE Shutdown
  BY <1>3, Zenon DEF Shutdown, Discard, phoneVars, relayVars
<1>4. CASE EarlyEvent \/ ReplayLost \/ (ReplayFails /\ Fault)
  BY <1>4, Zenon DEF EarlyEvent, ReplayLost, ReplayFails, Calm, Fault, Recover, Rejected,
      Discard, Abandon, Reschedule, phoneVars, relayVars
<1>5. CASE GapSeen \/ ReplayEnds
  BY <1>5, Zenon DEF GapSeen, ReplayEnds, phoneVars, relayVars
<1>6. CASE Heartbeat \/ DesktopTakes \/ DesktopReleases
  BY <1>6, Zenon DEF Heartbeat, DesktopTakes, DesktopReleases, Fault, phoneVars, relayVars
<1>7. ASSUME NEW s \in Socket, Opened(s) \/ OpenFails(s)
      PROVE  Flags'
  BY <1>7, Zenon DEF Opened, OpenFails, Abandon, Reschedule, phoneVars, relayVars
<1>8. ASSUME NEW s \in Socket, ReadyArrives(s)
      PROVE  Flags'
  BY <1>8, Zenon DEF ReadyArrives, Abandon, Rejected, phoneVars, relayVars
<1>9. ASSUME NEW s \in Socket, CloseArrives(s)
      PROVE  Flags'
  BY <1>9, Zenon DEF CloseArrives, Abandon, Rejected, Reschedule, phoneVars, relayVars
<1>10. ASSUME NEW s \in Socket, DueTimeout(s) \/ SlowTimeout(s)
      PROVE  Flags'
  BY <1>10, Zenon DEF DueTimeout, SlowTimeout, OpenTimesOut, ReadyTimesOut, Calm, Fault,
      Abandon, Reschedule, Discard, phoneVars, relayVars
<1>11. ASSUME NEW s \in Socket, RelayAccepts(s) \/ RelayHears(s) \/ Cut(s)
      PROVE  Flags'
  BY <1>11, Zenon DEF RelayAccepts, RelayHears, Cut, Fault, phoneVars, relayVars
<1> QED
  BY <1>1, <1>2, <1>3, <1>4, <1>5, <1>6, <1>7, <1>8, <1>9, <1>10, <1>11, Zenon DEF
      LinkNext, SocketStep

\* The bounded faults and acts stay within their bounds.
LEMMA CountsStep ==
  ASSUME Counts, [LinkNext]_linkVars
  PROVE  Counts'
<1> USE LinkAssumption DEF Counts
<1>1. CASE UNCHANGED linkVars
  BY <1>1 DEF linkVars, phoneVars, relayVars
<1>2. CASE Connect \/ TimerFires \/ Return
  BY <1>2, SMT DEF Connect, TimerFires, Return, Act, Open, Reschedule, Fresh, Unused,
      Rejected, phoneVars, relayVars
<1>3. CASE Shutdown
  BY <1>3, SMT DEF Shutdown, Discard, phoneVars, relayVars
<1>4. CASE EarlyEvent \/ ReplayLost \/ (ReplayFails /\ Fault)
  BY <1>4, SMT DEF EarlyEvent, ReplayLost, ReplayFails, Calm, Fault, Recover, Rejected,
      Discard, Abandon, Reschedule, phoneVars, relayVars
<1>5. CASE GapSeen \/ ReplayEnds
  BY <1>5, SMT DEF GapSeen, ReplayEnds, phoneVars, relayVars
<1>6. CASE Heartbeat \/ DesktopTakes \/ DesktopReleases
  BY <1>6, SMT DEF Heartbeat, DesktopTakes, DesktopReleases, Fault, phoneVars, relayVars
<1>7. ASSUME NEW s \in Socket, Opened(s) \/ OpenFails(s)
      PROVE  Counts'
  BY <1>7, SMT DEF Opened, OpenFails, Abandon, Reschedule, phoneVars, relayVars
<1>8. ASSUME NEW s \in Socket, ReadyArrives(s)
      PROVE  Counts'
  BY <1>8, SMT DEF ReadyArrives, Abandon, Rejected, phoneVars, relayVars
<1>9. ASSUME NEW s \in Socket, CloseArrives(s)
      PROVE  Counts'
  BY <1>9, SMT DEF CloseArrives, Abandon, Rejected, Reschedule, phoneVars, relayVars
<1>10. ASSUME NEW s \in Socket, DueTimeout(s) \/ SlowTimeout(s)
      PROVE  Counts'
  BY <1>10, SMT DEF DueTimeout, SlowTimeout, OpenTimesOut, ReadyTimesOut, Calm, Fault,
      Abandon, Reschedule, Discard, phoneVars, relayVars
<1>11. ASSUME NEW s \in Socket, RelayAccepts(s) \/ RelayHears(s) \/ Cut(s)
      PROVE  Counts'
  BY <1>11, SMT DEF RelayAccepts, RelayHears, Cut, Fault, phoneVars, relayVars
<1> QED
  BY <1>1, <1>2, <1>3, <1>4, <1>5, <1>6, <1>7, <1>8, <1>9, <1>10, <1>11, Zenon DEF
      LinkNext, SocketStep

\* Types: at any moment the relay serves at most one controller, whatever is
\* lost, retried, taken or given back (server.ts, wss.on "connection").
THEOREM LinkTypesHold == LinkSpec => []LinkTypeOK
<1>1. LinkInit => LinkTypeOK
  <2> SUFFICES ASSUME LinkInit  PROVE LinkTypeOK
    OBVIOUS
  <2>1. SocketTypes /\ OneController
    BY SMT DEF LinkInit, SocketTypes, OneController
  <2>2. Flags
    BY Zenon DEF LinkInit, Flags
  <2>3. Counts
    BY LinkAssumption, SMT DEF LinkInit, Counts
  <2> QED
    BY <2>1, <2>2, <2>3, TypesInParts
<1>2. LinkTypeOK /\ [LinkNext]_linkVars => LinkTypeOK'
  BY TypesInParts, SocketTypesStep, OneControllerStep, FlagsStep, CountsStep, Zenon
     DEF LinkTypeOK, SocketTypes, OneController, Flags, Counts
<1> QED
  BY <1>1, <1>2, PTL DEF LinkSpec

-----------------------------------------------------------------------------
(* The client of a user who never acted hastily.                           *)

\* An attempt is the only one, it is about the current socket unless the client
\* was shut down under it, and nothing else is under way.
OneAttempt ==
  \A s \in Socket : attempt[s] # "none" =>
    /\ closed \/ current = s
    /\ ~timer /\ ~replaying /\ ~ready
    /\ \A x \in Socket : attempt[x] # "none" => x = s

\* The current socket is the only one the phone holds, and has a use; a waiter
\* is the waiting attempt's; a retry is armed only at rest.
Calmly ==
  /\ \A s \in Socket : side[s] # "free" => current = s
  /\ OneAttempt
  /\ \A s \in Socket : attempt[s] = "opening" => side[s] # "open"
  /\ \A s \in Socket : attempt[s] = "waiting" => side[s] # "opening"
  /\ \A s \in Socket : attempt[s] = "waiting" <=> waiter = s
  /\ current # None => ready \/ attempt[current] # "none"
  /\ timer => ~ready /\ ~closed /\ ~replaying
  /\ replaying => ready \/ closed
  /\ ready => current # None /\ side[current] = "open"
  /\ closed => current = None

CalmInv == hasty \/ Calmly

\* The phone holds no socket and no attempt runs.
AtRest ==
  /\ \A s \in Socket : side[s] = "free" /\ attempt[s] = "none"
  /\ current = None /\ waiter = None
  /\ ~ready /\ (timer => ~closed /\ ~replaying) /\ (replaying => closed)

\* Once hasty, always hasty.
LEMMA StaysHasty ==
  ASSUME hasty, [LinkNext]_linkVars
  PROVE  hasty'
BY Zenon DEF LinkNext, SocketStep, linkVars, phoneVars, relayVars, Connect, Act,
     TimerFires, Return, Shutdown, EarlyEvent, Fault, GapSeen, ReplayEnds, ReplayLost,
     ReplayFails, Recover, Heartbeat, DesktopTakes, DesktopReleases, Opened, OpenFails,
     ReadyArrives, CloseArrives, DueTimeout, SlowTimeout, OpenTimesOut, ReadyTimesOut,
     RelayAccepts, RelayHears, Cut

\* A replay that fails leaves a calm client at rest.
LEMMA RecoveryRests ==
  ASSUME SocketTypes, Calmly, replaying, Recover
  PROVE  AtRest'
<1> USE NoneIsNoSocket DEF SocketTypes, Calmly, OneAttempt
<1>1. waiter = None /\ \A s \in Socket : attempt[s] = "none"
  BY SMT
<1>2. timer' => ~closed'
  BY Zenon DEF Recover, Reschedule
<1> QED
  BY <1>1, <1>2, SMT DEF Recover, Discard, Abandon, Rejected, AtRest

\* An attempt that times out leaves a calm client at rest.
LEMMA TimeoutRests ==
  ASSUME SocketTypes, Calmly, NEW s \in Socket, OpenTimesOut(s) \/ ReadyTimesOut(s)
  PROVE  AtRest'
<1> USE NoneIsNoSocket DEF SocketTypes, Calmly, OneAttempt
<1>1. attempt[s] = "opening" \/ attempt[s] = "waiting"
  BY Zenon DEF OpenTimesOut, ReadyTimesOut
<1>2. /\ ~timer /\ ~replaying /\ ~ready /\ (closed \/ current = s)
      /\ \A x \in Socket : x # s => attempt[x] = "none" /\ (waiter # x)
  BY <1>1, SMT
<1>3. /\ Abandon({s}) /\ Reschedule(timer, {s}, FALSE) /\ UNCHANGED <<replaying, closed>>
      /\ (current = s /\ Discard) \/ (current # s /\ UNCHANGED <<side, current, ready>>)
      /\ waiter' = None \/ (attempt[s] = "opening" /\ waiter' = waiter)
  BY Zenon DEF OpenTimesOut, ReadyTimesOut
<1>4. timer' => ~closed'
  BY <1>2, <1>3, Zenon DEF Reschedule
<1>5. (\A x \in Socket : side'[x] = "free") /\ current' = None /\ ~ready'
  BY <1>2, <1>3, SMT DEF Discard
<1>6. (\A x \in Socket : attempt'[x] = "none") /\ waiter' = None
  BY <1>2, <1>3, SMT DEF Abandon
<1> QED
  BY <1>2, <1>3, <1>4, <1>5, <1>6, SMT DEF AtRest


\* Every step leaves a calm client calm, or its user hasty.
LEMMA CalmStep ==
  ASSUME LinkTypeOK, Calmly, ~hasty', [LinkNext]_linkVars
  PROVE  Calmly'
<1> SocketTypes
  BY TypesInParts
<1> USE NoneIsNoSocket DEF SocketTypes, Calmly, OneAttempt
<1>1. CASE UNCHANGED linkVars
  BY <1>1 DEF linkVars, phoneVars, relayVars
<1>2. CASE Connect
  <2>1. ~Busy
    BY <1>2, Zenon DEF Connect, Act
  <2>2. /\ current = None /\ ~timer /\ ~replaying /\ ~ready
        /\ \A s \in Socket : attempt[s] = "none" /\ side[s] = "free"
    BY <1>2, <2>1, SMT DEF Connect, Busy
  <2> QED
    BY <1>2, <2>2, SMT DEF Connect, Open, Fresh
<1>3. CASE TimerFires
  BY <1>3, SMT DEF TimerFires, Open, Fresh, Unused, phoneVars, relayVars
<1>4. CASE Return
  <2>1. ~Busy
    BY <1>4, Zenon DEF Return, Act
  <2>2. /\ ~timer /\ ~replaying /\ ~closed /\ Rejected = {}
        /\ \A s \in Socket : attempt[s] = "none"
    BY <1>4, <2>1, SMT DEF Return, Busy, Rejected
  <2>3. ~timer' /\ ~closed'
    BY <1>4, <2>2, Zenon DEF Return, Reschedule
  <2> QED
    BY <1>4, <2>2, <2>3, SMT DEF Return, Open, Fresh
<1>5. CASE Shutdown
  BY <1>5, SMT DEF Shutdown, Discard, phoneVars, relayVars
<1>6. CASE EarlyEvent
  BY <1>6, SMT DEF EarlyEvent, Fault, Recover, Rejected, Discard, Abandon, Reschedule,
      phoneVars, relayVars
<1>7. CASE GapSeen
  BY <1>7, SMT DEF GapSeen, Attached, phoneVars, relayVars
<1>8. CASE ReplayEnds
  BY <1>8, SMT DEF ReplayEnds, Attached, phoneVars, relayVars
<1>9. CASE ReplayLost
  <2>1. replaying /\ Recover
    BY <1>9, Zenon DEF ReplayLost, ReplayFails
  <2> QED
    BY <2>1, RecoveryRests, SMT DEF AtRest
<1>10. CASE ReplayFails /\ Fault
  <2>1. replaying /\ Recover
    BY <1>10, Zenon DEF ReplayFails
  <2> QED
    BY <2>1, RecoveryRests, SMT DEF AtRest
<1>11. CASE Heartbeat
  BY <1>11, SMT DEF Heartbeat, phoneVars, relayVars
<1>12. CASE DesktopTakes
  BY <1>12, SMT DEF DesktopTakes, Fault, phoneVars, relayVars
<1>13. CASE DesktopReleases
  BY <1>13, SMT DEF DesktopReleases, phoneVars, relayVars
<1>14. ASSUME NEW s \in Socket, Opened(s)  PROVE Calmly'
  BY <1>14, SMT DEF Opened, Abandon, Reschedule, phoneVars, relayVars
<1>15. ASSUME NEW s \in Socket, OpenFails(s)  PROVE Calmly'
  <2>1. current = s /\ attempt[s] # "none" /\ ~timer /\ ~replaying
    BY <1>15, SMT DEF OpenFails
  <2>2. timer' => ~closed'
    BY <1>15, <2>1, Zenon DEF OpenFails, Reschedule
  <2>3. current' = None /\ ~ready'
    BY <1>15, <2>1, Zenon DEF OpenFails
  <2>4. \A x \in Socket : side'[x] = "free" /\ attempt'[x] = "none"
    BY <1>15, <2>1, SMT DEF OpenFails, Abandon
  <2>5. waiter' = None /\ ~replaying'
    BY <1>15, <2>1, SMT DEF OpenFails
  <2> QED
    BY <2>2, <2>3, <2>4, <2>5, SMT
<1>16. ASSUME NEW s \in Socket, ReadyArrives(s)  PROVE Calmly'
  BY <1>16, SMT DEF ReadyArrives, Abandon, Rejected, phoneVars, relayVars
<1>17. ASSUME NEW s \in Socket, CloseArrives(s)  PROVE Calmly'
  BY <1>17, SMT DEF CloseArrives, Abandon, Rejected, Reschedule, phoneVars, relayVars
<1>18. ASSUME NEW s \in Socket, DueTimeout(s)  PROVE Calmly'
  <2>1. OpenTimesOut(s) \/ ReadyTimesOut(s)
    BY <1>18, Zenon DEF DueTimeout
  <2> QED
    BY <2>1, TimeoutRests, SMT DEF AtRest
<1>19. ASSUME NEW s \in Socket, RelayAccepts(s)  PROVE Calmly'
  BY <1>19, SMT DEF RelayAccepts, phoneVars, relayVars
<1>20. ASSUME NEW s \in Socket, RelayHears(s)  PROVE Calmly'
  BY <1>20, SMT DEF RelayHears, phoneVars, relayVars
<1>21. ASSUME NEW s \in Socket, SlowTimeout(s)  PROVE Calmly'
  <2>1. OpenTimesOut(s) \/ ReadyTimesOut(s)
    BY <1>21, Zenon DEF SlowTimeout
  <2> QED
    BY <2>1, TimeoutRests, SMT DEF AtRest
<1>22. ASSUME NEW s \in Socket, Cut(s)  PROVE Calmly'
  BY <1>22, SMT DEF Cut, Fault, phoneVars, relayVars
<1> QED
  BY <1>1, <1>2, <1>3, <1>4, <1>5, <1>6, <1>7, <1>8, <1>9, <1>10, <1>11, <1>12, <1>13,
      <1>14, <1>15, <1>16, <1>17, <1>18, <1>19, <1>20, <1>21, <1>22, Zenon DEF LinkNext,
      SocketStep


\* The shape of the client is kept by every step, or the user was hasty.
THEOREM CalmInvariant == LinkSpec => [](LinkTypeOK /\ CalmInv)
<1>1. LinkInit => CalmInv
  BY NoneIsNoSocket, SMT DEF LinkInit, CalmInv, Calmly, OneAttempt
<1>2. LinkTypeOK /\ CalmInv /\ [LinkNext]_linkVars => CalmInv'
  BY CalmStep, StaysHasty, Zenon DEF CalmInv
<1> QED
  BY <1>1, <1>2, LinkTypesHold, PTL DEF LinkSpec

\* The relay's controller is never an open socket the phone has forgotten, so
\* the phone is not locked out by itself, unless the user was hasty.
THEOREM NoDeafControllerHolds == LinkSpec => []NoDeafController
<1>1. CalmInv => NoDeafController
  BY Zenon DEF CalmInv, Calmly, NoDeafController
<1> QED
  BY <1>1, CalmInvariant, PTL

\* The ready frame and the ready timeout settle the attempt they were meant
\* for (#waitForReady), unless the user was hasty.
THEOREM WaiterIsOwnHolds == LinkSpec => []WaiterIsOwn
<1>1. CalmInv => WaiterIsOwn
  BY SMT DEF CalmInv, Calmly, OneAttempt, WaiterIsOwn
<1> QED
  BY <1>1, CalmInvariant, PTL
=============================================================================
