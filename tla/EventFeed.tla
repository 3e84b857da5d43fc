------------------------------ MODULE EventFeed ------------------------------
(***************************************************************************)
(* What a phone that follows an engine is promised: the events of one host *)
(* process are handed to the app in the host's order, each once, and none  *)
(* is passed over unless a snapshot of that host stands for it.            *)
(***************************************************************************)
EXTENDS Naturals, Sequences

CONSTANTS MaxEvents, MaxHosts

VARIABLES
  host,       \* the live host process
  published,  \* how many events it has numbered
  follows,    \* the host the phone follows, 0 when it knows none
  pos,        \* the phone's place in that host's events
  handed      \* the events handed over since a snapshot, a new host or a reset

feedVars == <<host, published, follows, pos, handed>>

FeedInit ==
  /\ host = 1 /\ published = 0
  /\ follows = 0 /\ pos = 0 /\ handed = << >>

Publish ==
  /\ published < MaxEvents
  /\ published' = published + 1
  /\ UNCHANGED <<host, follows, pos, handed>>

\* The host process is replaced; its successor numbers from one.
Replace ==
  /\ host < MaxHosts
  /\ host' = host + 1 /\ published' = 0
  /\ UNCHANGED <<follows, pos, handed>>

\* The next events, as many as are at hand.
HandOver ==
  /\ follows = host
  /\ \E p \in (pos + 1)..published :
       /\ pos' = p
       /\ handed' = handed \o [i \in 1..(p - pos) |-> pos + i]
  /\ UNCHANGED <<host, published, follows>>

\* A snapshot stands for the events up to its cursor.
Adopt ==
  /\ follows = host
  /\ pos' \in pos..published /\ handed' = << >>
  /\ UNCHANGED <<host, published, follows>>

Follow ==
  /\ follows # host
  /\ follows' = host /\ pos' = 0 /\ handed' = << >>
  /\ UNCHANGED <<host, published>>

Forget ==
  /\ follows' = 0 /\ pos' = 0 /\ handed' = << >>
  /\ UNCHANGED <<host, published>>

FeedNext == Publish \/ Replace \/ HandOver \/ Adopt \/ Follow \/ Forget

FeedSpec == FeedInit /\ [][FeedNext]_feedVars
=============================================================================
