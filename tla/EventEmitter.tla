---------------------------- MODULE EventEmitter ----------------------------
(***************************************************************************)
(* The asyncio event emitter of xgen_harness/events/emitter.py: a bounded  *)
(* queue that many tasks emit into and one stream() consumer drains, and a *)
(* table of subscriber callbacks.  Everything between two awaits runs       *)
(* without interruption, so an action is one such stretch: emit() up to its *)
(* first callback, then one action per awaited callback.                   *)
(***************************************************************************)
EXTENDS Integers, Sequences

CONSTANTS
  Tasks,        \* the asyncio tasks that call emit()
  QueueSize,    \* maxsize of the asyncio.Queue (8000 in the code)
  MaxEvents,    \* bound: events the tasks try to emit in one behaviour
  MaxSubs       \* bound: calls of subscribe()

ASSUME EmitterAssumption ==
  /\ QueueSize \in Nat \ {0}   \* maxsize=0 would mean an unbounded queue
  /\ MaxEvents \in Nat
  /\ MaxSubs \in Nat

\* An event is known by the order of its creation and the task emitting it; of
\* its kind only DoneEvent matters.  Number 0 is the DoneEvent of close() itself.
Owner == "owner"
Events == [num : 0..MaxEvents, by : Tasks \cup {Owner}, done : BOOLEAN]
SubIds == 0..(MaxSubs - 1)
NoEvent == [num |-> -1, by |-> Owner, done |-> FALSE]

VARIABLES
  queue,        \* self._queue
  subscribers,  \* the keys of self._subscribers
  nextSubId,    \* self._next_sub_id
  closed,       \* self._closed
  lastEvent,    \* self._last_event
  dropCount,    \* self._drop_count
  waiting,      \* task -> callbacks of its snapshot not yet awaited
  current,      \* task -> the event its emit() is delivering
  streamOpen,   \* stream() has not returned
  received,     \* what stream() has yielded, in order
  accepted,     \* history: every event the queue ever took, in order
  delivered,    \* history: subscriber -> events its callback was called with
  created       \* history: how many events the tasks have tried to emit

emitterVars == <<queue, subscribers, nextSubId, closed, lastEvent, dropCount>>
taskVars    == <<waiting, current>>
streamVars  == <<streamOpen, received>>
vars == <<emitterVars, taskVars, streamVars, accepted, delivered, created>>

TypeOK ==
  /\ queue \in Seq(Events)
  /\ subscribers \subseteq SubIds
  /\ nextSubId \in 0..MaxSubs
  /\ closed \in BOOLEAN
  /\ lastEvent \in Events \cup {NoEvent}
  /\ dropCount \in 0..MaxEvents
  /\ waiting \in [Tasks -> SUBSET SubIds]
  /\ current \in [Tasks -> Events \cup {NoEvent}]
  /\ streamOpen \in BOOLEAN
  /\ received \in Seq(Events)
  /\ accepted \in Seq(Events)
  /\ delivered \in [SubIds -> Seq(Events)]
  /\ created \in 0..MaxEvents

Init ==
  /\ queue = <<>>
  /\ subscribers = {}
  /\ nextSubId = 0
  /\ closed = FALSE
  /\ lastEvent = NoEvent
  /\ dropCount = 0
  /\ waiting = [t \in Tasks |-> {}]
  /\ current = [t \in Tasks |-> NoEvent]
  /\ streamOpen = TRUE
  /\ received = <<>>
  /\ accepted = <<>>
  /\ delivered = [s \in SubIds |-> <<>>]
  /\ created = 0

QueueFull == Len(queue) >= QueueSize

\* queue.put_nowait(ev), which raises QueueFull instead when there is no room.
Put(ev) ==
  /\ ~QueueFull
  /\ queue' = Append(queue, ev)
  /\ accepted' = Append(accepted, ev)

\* A task is inside emit() while callbacks of its snapshot remain.
Idle(t) == waiting[t] = {}

NextEvent(t, isDone) == [num |-> created + 1, by |-> t, done |-> isDone]

\* Mutant: a dropped event still goes to the subscribers.
EmitDroppedNotifying(t) ==
  /\ Idle(t) /\ created < MaxEvents
  /\ ~closed /\ QueueFull
  /\ created' = created + 1
  /\ dropCount' = dropCount + 1
  /\ waiting' = [waiting EXCEPT ![t] = subscribers]
  /\ current' = [current EXCEPT ![t] = NextEvent(t, FALSE)]
  /\ UNCHANGED <<queue, subscribers, nextSubId, closed, lastEvent, streamVars,
                 accepted, delivered>>

\* emit() on a full queue: the event is counted and dropped; neither
\* _last_event nor the subscribers hear of it.
EmitDropped(t) ==
  /\ Idle(t) /\ created < MaxEvents
  /\ ~closed /\ QueueFull
  /\ created' = created + 1
  /\ dropCount' = dropCount + 1
  /\ UNCHANGED <<queue, subscribers, nextSubId, closed, lastEvent, taskVars,
                 streamVars, accepted, delivered>>

\* emit() of an accepted event: remember it, then snapshot the subscribers.
EmitAccepted(t, isDone) ==
  /\ Idle(t) /\ created < MaxEvents
  /\ ~closed
  /\ Put(NextEvent(t, isDone))
  /\ created' = created + 1
  /\ lastEvent' = NextEvent(t, isDone)
  /\ waiting' = [waiting EXCEPT ![t] = subscribers]
  /\ current' = [current EXCEPT ![t] = NextEvent(t, isDone)]
  /\ UNCHANGED <<subscribers, nextSubId, closed, dropCount, streamVars, delivered>>

\* await cb(event) for the next callback of the snapshot: the dict keeps its
\* keys in order of insertion, which is ascending.  An exception of the
\* callback is logged and changes nothing here.
Deliver(t) ==
  \E s \in waiting[t] :
    /\ \A other \in waiting[t] : s <= other
    /\ delivered' = [delivered EXCEPT ![s] = Append(@, current[t])]
    /\ waiting' = [waiting EXCEPT ![t] = @ \ {s}]
    /\ UNCHANGED <<emitterVars, current, streamVars, accepted, created>>

Subscribe ==
  /\ nextSubId < MaxSubs
  /\ subscribers' = subscribers \cup {nextSubId}
  /\ nextSubId' = nextSubId + 1
  /\ UNCHANGED <<queue, closed, lastEvent, dropCount, taskVars, streamVars,
                 accepted, delivered, created>>

Unsubscribe(s) ==
  /\ s \in subscribers
  /\ subscribers' = subscribers \ {s}
  /\ UNCHANGED <<queue, nextSubId, closed, lastEvent, dropCount, taskVars,
                 streamVars, accepted, delivered, created>>

\* Mutant: a closed emitter is not read any further.
StreamUnlessClosed ==
  /\ streamOpen /\ queue # <<>> /\ ~closed
  /\ received' = Append(received, Head(queue))
  /\ queue' = Tail(queue)
  /\ streamOpen' = ~Head(queue).done
  /\ UNCHANGED <<subscribers, nextSubId, closed, lastEvent, dropCount, taskVars,
                 accepted, delivered, created>>

\* Mutant: the newest event is read first.
StreamNewestFirst ==
  /\ streamOpen /\ queue # <<>>
  /\ received' = Append(received, queue[Len(queue)])
  /\ queue' = SubSeq(queue, 1, Len(queue) - 1)
  /\ streamOpen' = ~queue[Len(queue)].done
  /\ UNCHANGED <<subscribers, nextSubId, closed, lastEvent, dropCount, taskVars,
                 accepted, delivered, created>>

\* One turn of stream(): get(), yield, and leave the loop after a DoneEvent.
\* It never looks at _closed; a 60 s timeout of get() only loops.
StreamNext ==
  /\ streamOpen /\ queue # <<>>
  /\ received' = Append(received, Head(queue))
  /\ queue' = Tail(queue)
  /\ streamOpen' = ~Head(queue).done
  /\ UNCHANGED <<subscribers, nextSubId, closed, lastEvent, dropCount, taskVars,
                 accepted, delivered, created>>

ClosingDone == [num |-> 0, by |-> Owner, done |-> TRUE]

\* close(): a last event that is not a DoneEvent gets one appended, unless the
\* queue is full, in which case close() only logs a warning.
Close ==
  /\ closed' = TRUE
  /\ \/ /\ lastEvent.done
        /\ UNCHANGED <<queue, accepted, lastEvent>>
     \/ /\ ~lastEvent.done
        /\ Put(ClosingDone)
        /\ lastEvent' = ClosingDone
     \/ /\ ~lastEvent.done /\ QueueFull
        /\ UNCHANGED <<queue, accepted, lastEvent>>
  /\ subscribers' = {}
  /\ UNCHANGED <<nextSubId, dropCount, taskVars, streamVars, delivered, created>>

\* The owner of the emitter calls close() once, when its run is over.
CloseOnce == ~closed /\ Close

Next ==
  \/ \E t \in Tasks : EmitDropped(t) \/ Deliver(t)
  \/ \E t \in Tasks, d \in BOOLEAN : EmitAccepted(t, d)
  \/ Subscribe
  \/ \E s \in SubIds : Unsubscribe(s)
  \/ StreamNext
  \/ CloseOnce

Spec == Init /\ [][Next]_vars

\* The event loop resumes a consumer whose get() can return and a task whose
\* callback can be awaited; nothing obliges a task to emit or a user to
\* subscribe.  The owner does reach close() (it is called from a finally).
FairSpec ==
  /\ Spec
  /\ WF_vars(StreamNext)
  /\ WF_vars(CloseOnce)
  /\ \A t \in Tasks : WF_vars(Deliver(t))

-----------------------------------------------------------------------------
(* Properties *)

\* The stream yields exactly the accepted events in their order: what it has
\* yielded followed by what is queued is the whole history of put_nowait().
StreamFaithful == received \o queue = accepted

\* stream() returns only on a DoneEvent, and yields nothing after the first.
StreamEndsAtDone ==
  \A i \in DOMAIN received :
    received[i].done <=> (i = Len(received) /\ ~streamOpen)

\* A callback only ever sees events that the queue accepted (never a dropped
\* one), and sees none of them twice, whatever subscribes or leaves meanwhile.
DeliveredOnlyAccepted ==
  \A s \in SubIds :
    /\ \A i \in DOMAIN delivered[s] :
         \E j \in DOMAIN accepted : accepted[j] = delivered[s][i]
    /\ \A i, j \in DOMAIN delivered[s] :
         delivered[s][i] = delivered[s][j] => i = j

\* A callback sees the events of any one task in the order that task emitted
\* them, although the callbacks of different tasks interleave (and then differ
\* from the order of the stream).
PerTaskOrder ==
  \A s \in SubIds : \A i, j \in DOMAIN delivered[s] :
    (i < j /\ delivered[s][i].by = delivered[s][j].by)
      => delivered[s][i].num < delivered[s][j].num

\* After close() the queue takes nothing more: a late emit() is a no-op.
NothingAfterClose == [][closed => accepted' = accepted]_vars

\* A DoneEvent that the queue took ends the stream, if the consumer keeps running.
QueuedDoneEndsStream ==
  (\E i \in DOMAIN accepted : accepted[i].done) ~> ~streamOpen

\* What a consumer relies on is an append-only log read in order up to the first
\* terminal entry (module EventLog): bounded queue, close() and drops implement it.
IsDone(ev) == ev.done
Log == INSTANCE EventLog WITH
         Entry <- Events,
         Terminal <- IsDone,
         log <- accepted,
         cursor <- Len(received),
         open <- streamOpen
ImplementsLog == Log!Spec
=============================================================================
