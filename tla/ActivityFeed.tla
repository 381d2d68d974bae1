---------------------------- MODULE ActivityFeed ----------------------------
(***************************************************************************)
(* The activity feed (activity.ts, sse-helpers.ts, /activity/stream): a    *)
(* ring of the last events, streams that replay it after a cursor and then *)
(* follow it through microtasks, and the cleanup of streams whose reader   *)
(* has gone away with or without telling.                                  *)
(***************************************************************************)
EXTENDS Naturals, Sequences, SequencesExt

CONSTANTS Stream,
          MaxEvents,      \* bound: events emitted
          BufferCapacity

ASSUME FeedAssumption == MaxEvents \in Nat /\ BufferCapacity \in Nat \ {0}

VARIABLES nextEvent,       \* the id of the next event
          stream,       \* per stream: open, reader, first id it asked for, ids sent to it
          subscribers,  \* the set that emitActivity walks
          microtasks    \* notifications queued: [to, id], in order

feedVars == <<nextEvent, stream, subscribers, microtasks>>

Closed == [open |-> FALSE, reader |-> FALSE, after |-> 0, gap |-> FALSE, sent |-> <<>>]

FeedInit ==
  /\ nextEvent = 1 /\ subscribers = {} /\ microtasks = <<>>
  /\ stream = [s \in Stream |-> Closed]

(* activityBuffer.toArray(): the last BufferCapacity ids                    *)
Oldest == IF nextEvent - 1 > BufferCapacity THEN nextEvent - BufferCapacity ELSE 1
Buffered(from) == [i \in 1..(IF from < nextEvent THEN nextEvent - from ELSE 0) |-> from + i - 1]

LaterOf(a, b) == IF a > b THEN a ELSE b

(* Variants named ...With... and ...Without... are plausible mistakes in the *)
(* definition that follows them; no specification uses them.                *)
ReplayWithCursor(after) == Buffered(LaterOf(after, Oldest))

(* getActivityAfter                                                         *)
Replay(after) == Buffered(LaterOf(after + 1, Oldest))
Gap(after) == after # 0 /\ after < Oldest

EmitActivity ==
  /\ nextEvent <= MaxEvents
  /\ nextEvent' = nextEvent + 1
  /\ \E order \in SetToSeqs(subscribers) :
       microtasks' = microtasks \o [i \in DOMAIN order |-> [to |-> order[i], id |-> nextEvent]]
  /\ UNCHANGED <<stream, subscribers>>

CleanupWithoutUnsubscribe(s) ==
  /\ stream' = [stream EXCEPT ![s].open = FALSE]
  /\ UNCHANGED subscribers

(* cleanup: idempotent; the stream leaves the set                           *)
Cleanup(s) ==
  /\ stream' = [stream EXCEPT ![s].open = FALSE]
  /\ subscribers' = subscribers \ {s}

(* send: nothing after a cleanup; an enqueue that throws cleans up          *)
Notify ==
  /\ microtasks # <<>> /\ microtasks' = Tail(microtasks)
  /\ LET m == Head(microtasks) IN
       IF ~stream[m.to].open THEN UNCHANGED <<stream, subscribers>>
       ELSE IF stream[m.to].reader
            THEN stream' = [stream EXCEPT ![m.to].sent = Append(@, m.id)] /\ UNCHANGED subscribers
            ELSE Cleanup(m.to)
  /\ UNCHANGED nextEvent

HeartbeatWithoutProbe(s) == FALSE /\ UNCHANGED feedVars

Heartbeat(s) ==
  /\ stream[s].open /\ ~stream[s].reader
  /\ Cleanup(s)
  /\ UNCHANGED <<nextEvent, microtasks>>

Queued(s) == {i \in DOMAIN microtasks : microtasks[i].to = s}

(* start: the replay and the subscription, with no await between them       *)
Opens(s) ==
  /\ ~stream[s].open /\ Queued(s) = {}  \* a stream is a new object
  /\ \E after \in 0..(nextEvent - 1) :
       stream' = [stream EXCEPT ![s] = [open |-> TRUE, reader |-> TRUE, after |-> after,
                                        gap |-> Gap(after), sent |-> Replay(after)]]
  /\ subscribers' = subscribers \cup {s}
  /\ UNCHANGED <<nextEvent, microtasks>>

(* The reader leaves: with an abort, or silently                            *)
ReaderAborts(s) ==
  /\ stream[s].open /\ stream[s].reader
  /\ stream' = [stream EXCEPT ![s].open = FALSE, ![s].reader = FALSE]
  /\ subscribers' = subscribers \ {s}
  /\ UNCHANGED <<nextEvent, microtasks>>

ReaderVanishes(s) ==
  /\ stream[s].open /\ stream[s].reader
  /\ stream' = [stream EXCEPT ![s].reader = FALSE]
  /\ UNCHANGED <<nextEvent, subscribers, microtasks>>

FeedNext ==
  \/ EmitActivity \/ Notify
  \/ \E s \in Stream : Opens(s) \/ Heartbeat(s) \/ ReaderAborts(s) \/ ReaderVanishes(s)

FeedSpec == FeedInit /\ [][FeedNext]_feedVars
-----------------------------------------------------------------------------
FeedTypeOK ==
  /\ subscribers \subseteq Stream
  /\ \A s \in Stream : stream[s].open <=> s \in subscribers
  /\ \A i \in DOMAIN microtasks : microtasks[i].id < nextEvent

(* A follower misses nothing and sees nothing twice: what was sent to a     *)
(* stream and what is queued for it are, in order, all the ids from the     *)
(* first it could still get, and if that is not the one after its cursor it *)
(* was told of a gap.                                                       *)
SentTo(s) == {stream[s].sent[i] : i \in DOMAIN stream[s].sent}
QueuedTo(s) == {microtasks[i].id : i \in Queued(s)}

InOrder(s) ==
  /\ \A i, j \in DOMAIN stream[s].sent : i < j => stream[s].sent[i] < stream[s].sent[j]
  /\ \A i, j \in Queued(s) : i < j => microtasks[i].id < microtasks[j].id
  /\ \A e \in SentTo(s), f \in QueuedTo(s) : e < f

StreamIsExact ==
  \A s \in Stream : stream[s].open /\ stream[s].reader =>
    /\ InOrder(s)
    /\ \E first \in 1..nextEvent :
         /\ SentTo(s) \cup QueuedTo(s) = first..(nextEvent - 1)
         /\ stream[s].gap \/ stream[s].after = 0 \/ first = stream[s].after + 1

(* No reader that is gone keeps its place: a stream whose reader vanished   *)
(* without an abort is cleaned up, if only by the heartbeat.                *)
NoDeadSubscriber == \A s \in Stream : (stream[s].open /\ ~stream[s].reader) ~> s \notin subscribers

(* A follower of the feed gets every event it can still get, once, and is   *)
(* subscribed as long as its stream is open.                                *)
FeedSafe == FeedTypeOK /\ StreamIsExact
=============================================================================
