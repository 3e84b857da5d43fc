----------------------------- MODULE MobileFeed -----------------------------
(***************************************************************************)
(* The event feed of the phone: the host numbers its events and keeps a    *)
(* ring of them (macos-bridge/src/host.ts), the relay passes frames on     *)
(* while a controller is connected (relay/server.ts), and the client keeps *)
(* a cursor, asks for a replay when it sees a gap, falls back on a         *)
(* snapshot (RemoteEngineClient.ts), and seeds the app's view from a       *)
(* snapshot after each ready (useRemoteSession.ts).                        *)
(*                                                                         *)
(* How a connection is made is in PhoneLink; here it is up or down, and    *)
(* what is on its way dies with it.  An event is its number.  The relay    *)
(* passes an event on at once and an answer when its promise has run, so   *)
(* later events may overtake an answer.  A host is replaced only while the *)
(* phone is away, so every frame on the wire is the live host's.           *)
(***************************************************************************)
EXTENDS Naturals, Sequences, FiniteSetsExt

CONSTANTS
  Ring,       \* EVENT_REPLAY_MAX_FRAMES
  Buffer,     \* MAX_PENDING_EVENT_FRAMES
  MaxEvents,  \* bound: events of a host
  MaxHosts,   \* bound: host processes
  MaxFaults   \* bound: lost connections and unanswered calls

ASSUME MobileAssumption ==
  /\ {Ring, Buffer, MaxEvents, MaxHosts} \subseteq Nat \ {0}
  /\ MaxFaults \in Nat

VARIABLES
  host,       \* hostInstanceId of the live host
  emitted,    \* its eventSequence
  asks,       \* the calls it has not answered, in the order of its stdin
  answers,    \* its answers the relay has not passed on
  up,         \* is the phone connected?
  booted,     \* has the relay answered this connection's bootstrap?
  down,       \* frames on their way to the phone
  ready,      \* #ready
  known,      \* #hostInstanceId
  cursor,     \* #lastEventSeq
  held,       \* #pendingEventFrames
  reconcile,  \* #replayInFlight: the call #reconcileEventGap awaits
  seeding,    \* bootstrapHandoff: the app awaits its snapshot
  bootError,  \* bootError # null
  handed,     \* history: events handed over since the last adoption
  faults

hostVars == <<host, emitted>>
wireVars == <<asks, answers, up, booted, down>>
clientVars == <<ready, known, cursor, held, reconcile, handed>>
appVars == <<seeding, bootError>>
mobileVars == <<hostVars, wireVars, clientVars, appVars, faults>>

Call == {"replay", "resync", "seed"}
NoHost == 0

Ask == [call : Call, after : 0..MaxEvents]

Answer ==
  [type : {"events"}, after : 0..MaxEvents, last : 0..MaxEvents, truncated : BOOLEAN]
    \cup [type : {"resync", "seed"}, last : 0..MaxEvents]

Frame == Answer \cup [type : {"ready"}] \cup [type : {"event"}, seq : 1..MaxEvents]

MobileTypeOK ==
  /\ host \in 1..MaxHosts /\ emitted \in 0..MaxEvents
  /\ asks \in Seq(Ask)
  /\ answers \in Seq(Answer) /\ down \in Seq(Frame)
  /\ {up, booted, ready, seeding, bootError} \subseteq BOOLEAN
  /\ known \in 0..MaxHosts /\ cursor \in 0..MaxEvents
  /\ held \subseteq 1..MaxEvents /\ Cardinality(held) <= Buffer
  /\ reconcile \in {"no", "replay", "resync"}
  /\ handed \in Seq(1..MaxEvents)
  /\ faults \in 0..MaxFaults

MobileInit ==
  /\ host = 1 /\ emitted = 0
  /\ asks = << >> /\ answers = << >>
  /\ up = FALSE /\ booted = FALSE /\ down = << >>
  /\ ready = FALSE /\ known = NoHost /\ cursor = 0 /\ held = {}
  /\ reconcile = "no" /\ handed = << >>
  /\ seeding = FALSE /\ bootError = FALSE
  /\ faults = 0

-----------------------------------------------------------------------------
(* The host and the relay.                                                 *)

\* The oldest frame of the ring, one past the last when it is empty.
Oldest == IF emitted > Ring THEN emitted - Ring + 1 ELSE 1

\* writeEvent, and the relay's onEvent.
Emit ==
  /\ emitted < MaxEvents
  /\ emitted' = emitted + 1
  /\ down' = IF up THEN Append(down, [type |-> "event", seq |-> emitted']) ELSE down
  /\ UNCHANGED <<host, asks, answers, up, booted, clientVars, appVars, faults>>

\* replayEvents, answered in one step.
HostReplays ==
  /\ asks # << >> /\ Head(asks).call = "replay"
  /\ LET after == Head(asks).after
     IN answers' = Append(answers,
          [type |-> "events", after |-> after, last |-> emitted,
           truncated |-> after + 1 < Oldest])
  /\ asks' = Tail(asks)
  /\ UNCHANGED <<hostVars, up, booted, down, clientVars, appVars, faults>>

\* snapshot: the cursor is read last.
HostAnswers ==
  /\ asks # << >> /\ Head(asks).call # "replay"
  /\ answers' = Append(answers, [type |-> Head(asks).call, last |-> emitted])
  /\ asks' = Tail(asks)
  /\ UNCHANGED <<hostVars, up, booted, down, clientVars, appVars, faults>>

\* handleInbound: the answer of bridge.rpc goes to the phone.
RelayAnswers ==
  /\ answers # << >>
  /\ answers' = Tail(answers) /\ down' = Append(down, Head(answers))
  /\ UNCHANGED <<hostVars, asks, up, booted, clientVars, appVars, faults>>

\* handleInbound: the bootstrap of a connection finds the engine running.
RelayReady ==
  /\ up /\ ~booted /\ booted' = TRUE
  /\ down' = Append(down, [type |-> "ready"])
  /\ UNCHANGED <<hostVars, asks, answers, up, clientVars, appVars, faults>>

\* Another host takes the session over while the phone is away.
HostReplaced ==
  /\ ~up /\ host < MaxHosts
  /\ host' = host + 1 /\ emitted' = 0
  /\ UNCHANGED <<wireVars, clientVars, appVars, faults>>

-----------------------------------------------------------------------------
(* The client and the app: what their handlers share.                      *)

\* The calls, answers and frames of the connection are gone.
WireGone ==
  /\ up' = FALSE /\ booted' = FALSE /\ down' = << >>
  /\ asks' = << >> /\ answers' = << >>

\* #recoverFromContinuityFailure resets the cursor; so does a close that rejects
\* a replay, whose catch calls it.
ClientLeaves(forgets) ==
  /\ ready' = FALSE /\ reconcile' = "no"
  /\ \/ forgets /\ known' = NoHost /\ cursor' = 0 /\ held' = {} /\ handed' = << >>
     \/ ~forgets /\ UNCHANGED <<known, cursor, held, handed>>

\* The app's snapshot call is rejected.
SeedRejected ==
  /\ seeding' = FALSE /\ bootError' = (bootError \/ seeding)

\* #deliverEventFrame for the next events up to the one numbered end.
Deliver(end) ==
  /\ cursor' = end
  /\ handed' = handed \o [i \in 1..(end - cursor) |-> cursor + i]
  /\ UNCHANGED appVars

\* The end of the run of consecutive events at hand after the cursor.
RunEnd(Events) ==
  CHOOSE e \in cursor..MaxEvents :
     (cursor + 1)..e \subseteq Events /\ e + 1 \notin Events

AskFor(call, after) == asks' = Append(asks, [call |-> call, after |-> after])

Received == up /\ down # << >> /\ down' = Tail(down)

-----------------------------------------------------------------------------
(* The client and the app: the frames.                                     *)

\* connect or a reconnect.
LinkUp ==
  /\ ~up /\ up' = TRUE
  /\ UNCHANGED <<hostVars, asks, answers, booted, down, clientVars,
                 appVars, faults>>

\* #handleClose, or refreshAfterForeground.
LinkLost ==
  /\ up /\ faults < MaxFaults /\ faults' = faults + 1
  /\ WireGone /\ ClientLeaves(reconcile # "no") /\ SeedRejected
  /\ UNCHANGED hostVars

\* A call is refused or not answered in time: a replay's failure drops the
\* connection, a seed's is shown.
CallFails ==
  /\ faults < MaxFaults /\ faults' = faults + 1
  /\ \/ reconcile # "no" /\ WireGone /\ ClientLeaves(TRUE)
     \/ seeding /\ UNCHANGED <<wireVars, clientVars>>
  /\ SeedRejected
  /\ UNCHANGED hostVars

\* Mutant of ReceiveReady: the cursor is kept whatever host answers.
CursorOutlivesHost ==
  /\ Received /\ Head(down).type = "ready"
  /\ ready' = TRUE /\ known' = host
  /\ seeding' = TRUE
  /\ AskFor("seed", 0)
  /\ UNCHANGED <<hostVars, answers, up, booted, reconcile, bootError, faults, cursor, held, handed>>

\* The ready frame: the cursor survives when the host is the one it counts.
\* The app asks for a snapshot and keeps what arrives meanwhile.
ReceiveReady ==
  /\ Received /\ Head(down).type = "ready"
  /\ ready' = TRUE /\ known' = host
  /\ \/ known = host /\ UNCHANGED <<cursor, held, handed>>
     \/ known # host /\ cursor' = 0 /\ held' = {} /\ handed' = << >>
  /\ seeding' = TRUE
  /\ AskFor("seed", 0)
  /\ UNCHANGED <<hostVars, answers, up, booted, reconcile, bootError, faults>>

\* #acceptEventFrame of a frame whose host the client does not know.
ReceiveStale ==
  /\ up /\ down # << >> /\ Head(down).type = "event" /\ known # host
  /\ WireGone /\ ClientLeaves(TRUE) /\ SeedRejected
  /\ UNCHANGED <<hostVars, faults>>

\* (A frame at or below the cursor is dropped; this wire carries none.)
ReceiveNext ==
  /\ Received /\ Head(down).type = "event" /\ known = host
  /\ reconcile = "no" /\ Head(down).seq = cursor + 1
  /\ Deliver(cursor + 1)
  /\ UNCHANGED <<hostVars, asks, answers, up, booted, ready, known,
                 held, reconcile, faults>>

\* Mutant of ReceiveAhead: a full buffer still takes the frame.
BufferGrows ==
  /\ Received /\ Head(down).type = "event" /\ known = host
  /\ LET seq == Head(down).seq
     IN /\ seq > cursor /\ (reconcile # "no" \/ seq > cursor + 1)
        /\ held' = {seq} \cup held
  /\ \/ /\ reconcile = "no" /\ ready
        /\ reconcile' = "replay" /\ AskFor("replay", cursor)
     \/ /\ reconcile # "no" \/ ~ready
        /\ UNCHANGED <<reconcile, asks>>
  /\ UNCHANGED <<hostVars, answers, up, booted, ready, known, cursor,
                 handed, appVars, faults>>

\* A frame past a gap is held, the oldest given up for it when the buffer is
\* full, and the gap is replayed.
ReceiveAhead ==
  /\ Received /\ Head(down).type = "event" /\ known = host
  /\ LET seq == Head(down).seq
     IN /\ seq > cursor /\ (reconcile # "no" \/ seq > cursor + 1)
        /\ held' = {seq} \cup (IF Cardinality(held) < Buffer THEN held
                               ELSE held \ {Min(held)})
  /\ \/ /\ reconcile = "no" /\ ready
        /\ reconcile' = "replay" /\ AskFor("replay", cursor)
     \/ /\ reconcile # "no" \/ ~ready
        /\ UNCHANGED <<reconcile, asks>>
  /\ UNCHANGED <<hostVars, answers, up, booted, ready, known, cursor,
                 handed, appVars, faults>>

\* Mutant of ReceiveEvents: a hole after the replayed events is not looked for.
HoleOverlooked ==
  /\ Received /\ Head(down).type = "events" /\ reconcile = "replay"
  /\ LET answer == Head(down)
         Events == ((answer.after + 1)..answer.last) \cup held
     IN \/ /\ answer.truncated
           /\ reconcile' = "resync" /\ AskFor("resync", 0)
           /\ UNCHANGED <<cursor, held, handed, appVars>>
        \/ /\ ~answer.truncated
           /\ Deliver(RunEnd(Events)) /\ held' = {}
           /\ reconcile' = "no" /\ UNCHANGED asks
  /\ UNCHANGED <<hostVars, answers, up, booted, ready, known, faults>>

\* #reconcileEventGap: the replayed and the held events are handed over up to
\* the first hole; a hole, or a replay that starts too late, needs a snapshot.
ReceiveEvents ==
  /\ Received /\ Head(down).type = "events" /\ reconcile = "replay"
  /\ LET answer == Head(down)
         Events == ((answer.after + 1)..answer.last) \cup held
         end == RunEnd(Events)
     IN \/ /\ answer.truncated
           /\ reconcile' = "resync" /\ AskFor("resync", 0)
           /\ UNCHANGED <<cursor, held, handed, appVars>>
        \/ /\ ~answer.truncated
           /\ Deliver(end) /\ held' = {}
           /\ \/ /\ \E e \in Events : e > end
                 /\ reconcile' = "resync" /\ AskFor("resync", 0)
              \/ /\ \A e \in Events : e <= end
                 /\ reconcile' = "no" /\ UNCHANGED asks
  /\ UNCHANGED <<hostVars, answers, up, booted, ready, known, faults>>

\* #resyncFromSnapshot, the app's re-seeding from the cached snapshot, and the
\* end of #reconcileEventGap, which starts over when frames are still ahead.  (The
\* app's own call is older and answered first.)
ReceiveResync ==
  /\ Received /\ Head(down).type = "resync" /\ reconcile = "resync" /\ ~seeding
  /\ cursor' = Head(down).last /\ handed' = << >>
  /\ held' = {e \in held : e > cursor'}
  /\ \/ held' # {} /\ reconcile' = "replay" /\ AskFor("replay", cursor')
     \/ held' = {} /\ reconcile' = "no" /\ UNCHANGED asks
  /\ UNCHANGED <<hostVars, answers, up, booted, ready, known, seeding,
                 bootError, faults>>

\* #adoptSnapshotCursor.
ReceiveSeed ==
  /\ Received /\ Head(down).type = "seed"
  /\ \/ /\ seeding /\ seeding' = FALSE /\ bootError' = FALSE
        /\ cursor' = Max({cursor, Head(down).last}) /\ handed' = << >>
        /\ held' = {e \in held : e > cursor'}
     \/ ~seeding /\ UNCHANGED <<cursor, handed, held, appVars>>
  /\ UNCHANGED <<hostVars, asks, answers, up, booted, ready, known,
                 reconcile, faults>>

-----------------------------------------------------------------------------
Receive ==
  \/ ReceiveReady \/ ReceiveStale \/ ReceiveNext \/ ReceiveAhead
  \/ ReceiveEvents \/ ReceiveResync \/ ReceiveSeed

HostStep == HostReplays \/ HostAnswers

MobileNext ==
  \/ Emit \/ HostStep \/ RelayAnswers \/ RelayReady \/ HostReplaced
  \/ LinkUp \/ LinkLost \/ CallFails \/ Receive

MobileSpec == MobileInit /\ [][MobileNext]_mobileVars

\* The host, the relay and the phone handle what has reached them, and the phone
\* reconnects (PhoneLink).  Events, faults and new hosts are not owed.
MobileFairness ==
  /\ WF_mobileVars(HostStep) /\ WF_mobileVars(RelayAnswers)
  /\ WF_mobileVars(RelayReady) /\ WF_mobileVars(LinkUp) /\ WF_mobileVars(Receive)

FairMobileSpec == MobileSpec /\ MobileFairness

-----------------------------------------------------------------------------
(* Properties.                                                             *)

\* The feed the app sees is the abstract one: in order, each event once, none
\* passed over unless a snapshot of the same host stands for it.
Feed == INSTANCE EventFeed WITH published <- emitted, follows <- known, pos <- cursor

ImplementsFeed == Feed!FeedSpec

\* Whatever is lost, the phone ends up ready, with every event of the live host
\* behind its cursor, unless the app shows an error.
CatchesUp ==
  <>[](ready /\ known = host /\ ~seeding /\ (cursor = emitted \/ bootError))
=============================================================================
