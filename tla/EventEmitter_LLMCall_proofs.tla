---------------------- MODULE EventEmitter_LLMCall_proofs ----------------------
(*********************************************************************************)
(* Theorems about module EventEmitter, for any number of tasks, events and        *)
(* subscribers and any size of the queue, and about module LLMCall, for all       *)
(* setups, texts, chunks and orders of the pieces of the calls.                   *)
(*********************************************************************************)
EXTENDS EventEmitter, LLMCall, SequenceTheorems, NaturalsInduction, FiniteSetTheorems, TLAPS

\* The events a step can create have their type.
LEMMA EventTypes ==
  /\ created \in 0..MaxEvents =>
       \A t \in Tasks, d \in BOOLEAN :
         created < MaxEvents => NextEvent(t, d) \in Events
  /\ ClosingDone \in Events
BY EmitterAssumption DEF NextEvent, ClosingDone, Events, Owner

-----------------------------------------------------------------------------
(* Types.  What a callback is called with is an event, and not the empty value
   of current, because a task that still has callbacks to call has an event;
   and only events that were created can be dropped. *)

DeliveringInv ==
  /\ \A t \in Tasks : waiting[t] # {} => current[t] \in Events
  /\ dropCount <= created
TypeInv == TypeOK /\ DeliveringInv

\* The initial values have their types.
LEMMA InitType == Init => TypeInv
<1>1. Init => closed \in BOOLEAN /\ streamOpen \in BOOLEAN
  BY Zenon DEF Init
<1>2. Init => waiting \in [Tasks -> SUBSET SubIds] /\ delivered \in [SubIds -> Seq(Events)]
  BY DEF Init
<1>3. Init => DeliveringInv
  BY DEF Init, DeliveringInv
<1>4. QED
  BY <1>1, <1>2, <1>3, EmitterAssumption DEF Init, TypeOK, TypeInv

\* Every step of the emitter, its tasks and its consumer keeps the types.
LEMMA StepType == TypeInv /\ [Next]_vars => TypeInv'
<1> SUFFICES ASSUME TypeInv, [Next]_vars PROVE TypeInv'
  OBVIOUS
<1> USE EmitterAssumption DEF TypeInv
<1>1. closed' \in BOOLEAN
  <2>1. closed' = closed \/ closed' = TRUE
    BY DEF Next, vars, emitterVars, EmitDropped, Deliver, EmitAccepted, Subscribe,
       Unsubscribe, StreamNext, CloseOnce, Close
  <2>2. QED
    BY <2>1, Zenon DEF TypeOK
<1>2. streamOpen' \in BOOLEAN
  <2>1. CASE StreamNext
    <3>1. Head(queue) \in Events
      BY <2>1 DEF TypeOK, StreamNext
    <3>2. Head(queue).done \in BOOLEAN
      BY <3>1 DEF Events
    <3>3. QED
      BY <2>1, <3>2, Zenon DEF StreamNext
  <2>2. CASE UNCHANGED streamOpen
    BY <2>2, Zenon DEF TypeOK
  <2>3. QED
    BY <2>1, <2>2 DEF Next, vars, streamVars, EmitDropped, Deliver, EmitAccepted,
       Subscribe, Unsubscribe, CloseOnce, Close
<1>3. ASSUME NEW t \in Tasks, EmitDropped(t) PROVE TypeInv'
  <2>1. created' \in 0..MaxEvents /\ dropCount' \in 0..MaxEvents /\ dropCount' <= created'
    BY <1>3 DEF TypeOK, DeliveringInv, EmitDropped
  <2>2. QED
    BY <1>1, <1>2, <1>3, <2>1 DEF TypeOK, DeliveringInv, EmitDropped, taskVars, streamVars
<1>4. ASSUME NEW t \in Tasks, Deliver(t) PROVE TypeInv'
  <2>1. PICK s \in waiting[t] :
          /\ delivered' = [delivered EXCEPT ![s] = Append(@, current[t])]
          /\ waiting' = [waiting EXCEPT ![t] = @ \ {s}]
    BY <1>4 DEF Deliver
  <2>2. s \in SubIds /\ current[t] \in Events
    BY <2>1 DEF TypeOK, DeliveringInv
  <2>3. delivered' \in [SubIds -> Seq(Events)]
    BY <2>1, <2>2 DEF TypeOK
  <2>4. waiting' \in [Tasks -> SUBSET SubIds] /\ \A r \in Tasks : waiting'[r] \subseteq waiting[r]
    BY <2>1 DEF TypeOK
  <2>5. UNCHANGED <<emitterVars, current, streamVars, accepted, created>>
    BY <1>4 DEF Deliver
  <2>6. TypeOK'
    BY <1>1, <1>2, <2>3, <2>4, <2>5 DEF TypeOK, emitterVars, streamVars
  <2>7. DeliveringInv'
    BY <2>4, <2>5 DEF DeliveringInv, emitterVars
  <2>8. QED
    BY <2>6, <2>7
<1>5. ASSUME NEW t \in Tasks, NEW d \in BOOLEAN, EmitAccepted(t, d) PROVE TypeInv'
  <2>1. NextEvent(t, d) \in Events
    BY <1>5, EventTypes DEF TypeOK, EmitAccepted
  <2>2. queue' \in Seq(Events) /\ accepted' \in Seq(Events)
    BY <1>5, <2>1 DEF TypeOK, EmitAccepted, Put
  <2>3. waiting' \in [Tasks -> SUBSET SubIds] /\ current' \in [Tasks -> Events \cup {NoEvent}]
    BY <1>5, <2>1 DEF TypeOK, EmitAccepted
  <2>4. created' \in 0..MaxEvents /\ lastEvent' \in Events
    BY <1>5, <2>1 DEF TypeOK, EmitAccepted
  <2>5. TypeOK'
    BY <1>1, <1>2, <1>5, <2>2, <2>3, <2>4 DEF TypeOK, EmitAccepted, streamVars
  <2>6. DeliveringInv'
    BY <1>5, <2>1 DEF TypeOK, DeliveringInv, EmitAccepted
  <2>7. QED
    BY <2>5, <2>6
<1>6. CASE Subscribe
  BY <1>1, <1>2, <1>6 DEF TypeOK, DeliveringInv, Subscribe, SubIds, taskVars, streamVars
<1>7. ASSUME NEW s \in SubIds, Unsubscribe(s) PROVE TypeInv'
  BY <1>1, <1>2, <1>7 DEF TypeOK, DeliveringInv, Unsubscribe, taskVars, streamVars
<1>8. CASE StreamNext
  <2>1. queue' \in Seq(Events) /\ received' \in Seq(Events)
    BY <1>8 DEF TypeOK, StreamNext
  <2>2. QED
    BY <1>1, <1>2, <1>8, <2>1 DEF TypeOK, DeliveringInv, StreamNext, taskVars
<1>9. CASE CloseOnce
  <2>1. queue' \in Seq(Events) /\ accepted' \in Seq(Events) /\ lastEvent' \in Events \cup {NoEvent}
    <3>1. \/ UNCHANGED <<queue, accepted, lastEvent>>
          \/ Put(ClosingDone) /\ lastEvent' = ClosingDone
      BY <1>9 DEF CloseOnce, Close
    <3>2. /\ queue \in Seq(Events) /\ accepted \in Seq(Events)
          /\ lastEvent \in Events \cup {NoEvent} /\ ClosingDone \in Events
      BY EventTypes DEF TypeOK
    <3>3. CASE UNCHANGED <<queue, accepted, lastEvent>>
      BY <3>2, <3>3
    <3>4. CASE Put(ClosingDone) /\ lastEvent' = ClosingDone
      BY <3>2, <3>4 DEF Put
    <3>5. QED
      BY <3>1, <3>3, <3>4
  <2>2. QED
    BY <1>1, <1>2, <1>9, <2>1 DEF TypeOK, DeliveringInv, CloseOnce, Close, taskVars, streamVars
<1>10. CASE UNCHANGED vars
  BY <1>1, <1>2, <1>10 DEF TypeOK, DeliveringInv, vars, emitterVars, taskVars, streamVars
<1>11. QED
  BY <1>3, <1>4, <1>5, <1>6, <1>7, <1>8, <1>9, <1>10 DEF Next

\* Every variable of the emitter keeps its type.
THEOREM TypeCorrect == Spec => []TypeOK
<1>1. Spec => []TypeInv
  BY InitType, StepType, PTL DEF Spec
<1>2. TypeInv => TypeOK
  BY DEF TypeInv
<1>3. QED
  BY <1>1, <1>2, PTL

-----------------------------------------------------------------------------
(* The stream *)

\* The queue and the history only change by put_nowait() and get().
LEMMA QueueSteps ==
  ASSUME [Next]_vars
  PROVE  \/ UNCHANGED <<queue, accepted, received, streamOpen>>
         \/ StreamNext
         \/ /\ ~closed
            /\ UNCHANGED <<received, streamOpen>>
            /\ \/ Put(ClosingDone)
               \/ \E t \in Tasks, d \in BOOLEAN :
                    created < MaxEvents /\ Put(NextEvent(t, d))
BY DEF Next, vars, emitterVars, taskVars, streamVars, EmitDropped, Deliver,
   EmitAccepted, Subscribe, Unsubscribe, CloseOnce, Close

\* A step that puts an event into the queue puts one of Events.
LEMMA PutSteps ==
  ASSUME TypeInv, [Next]_vars
  PROVE  \/ UNCHANGED <<queue, accepted, received, streamOpen>>
         \/ StreamNext /\ UNCHANGED accepted
         \/ /\ ~closed
            /\ UNCHANGED <<received, streamOpen>>
            /\ \E ev \in Events : Put(ev)
BY QueueSteps, EventTypes DEF TypeInv, TypeOK, StreamNext

StreamInv == TypeInv /\ StreamFaithful /\ StreamEndsAtDone

\* Nothing is queued or read at first.
LEMMA InitStream == Init => StreamInv
<1> SUFFICES ASSUME Init PROVE StreamInv
  OBVIOUS
<1>1. StreamFaithful /\ StreamEndsAtDone
  BY DEF Init, StreamFaithful, StreamEndsAtDone
<1>2. QED
  BY <1>1, InitType DEF StreamInv

\* Putting appends to queue and history; reading moves the head of the queue to
\* the end of what was received, and closes the stream behind a DoneEvent.
LEMMA StepStream == StreamInv /\ [Next]_vars => StreamInv'
<1> SUFFICES ASSUME StreamInv, [Next]_vars PROVE StreamInv'
  OBVIOUS
<1> USE DEF StreamInv
<1>1. TypeInv'
  BY StepType
<1>2. CASE UNCHANGED <<queue, accepted, received, streamOpen>>
  BY <1>1, <1>2 DEF StreamFaithful, StreamEndsAtDone
<1>3. CASE StreamNext /\ UNCHANGED accepted
  <2>1. /\ queue \in Seq(Events) /\ received \in Seq(Events) /\ queue # <<>>
        /\ queue' = Tail(queue) /\ received' = Append(received, Head(queue))
        /\ streamOpen /\ streamOpen' = ~Head(queue).done
    BY <1>3 DEF TypeInv, TypeOK, StreamNext
  <2>2. StreamFaithful'
    <3>1. received' \o queue' = received \o queue
      BY <2>1
    <3>2. QED
      BY <1>3, <3>1 DEF StreamFaithful
  <2>3. StreamEndsAtDone'
    <3>1. \A i \in 1..Len(received) : ~received[i].done
      BY <2>1 DEF StreamEndsAtDone
    <3>2. /\ DOMAIN received' = 1..(Len(received) + 1) /\ Len(received') = Len(received) + 1
          /\ \A i \in 1..Len(received) : received'[i] = received[i]
          /\ received'[Len(received) + 1] = Head(queue)
      BY <2>1
    <3>3. received'[Len(received) + 1].done <=> ~streamOpen'
      BY <2>1, <3>2
    <3>4. Len(received) \in Nat
      BY <2>1
    <3>5. QED
      BY <3>1, <3>2, <3>3, <3>4 DEF StreamEndsAtDone
  <2>4. QED
    BY <1>1, <2>2, <2>3
<1>4. ASSUME UNCHANGED <<received, streamOpen>>, NEW ev \in Events, Put(ev) PROVE StreamInv'
  <2>1. /\ queue \in Seq(Events) /\ received \in Seq(Events)
        /\ queue' = Append(queue, ev) /\ accepted' = Append(accepted, ev)
    BY <1>4 DEF TypeInv, TypeOK, Put
  <2>2. received \o Append(queue, ev) = Append(received \o queue, ev)
    BY <2>1
  <2>3. StreamFaithful'
    BY <1>4, <2>1, <2>2 DEF StreamFaithful
  <2>4. StreamEndsAtDone'
    BY <1>4 DEF StreamEndsAtDone
  <2>5. QED
    BY <1>1, <2>3, <2>4
<1>5. QED
  BY <1>2, <1>3, <1>4, PutSteps

\* The stream yields the accepted events in their order.
THEOREM Faithful == Spec => []StreamFaithful
<1>1. Spec => []StreamInv
  BY InitStream, StepStream, PTL DEF Spec
<1>2. StreamInv => StreamFaithful
  BY DEF StreamInv
<1>3. QED
  BY <1>1, <1>2, PTL

\* stream() returns on the first DoneEvent and on nothing else.
THEOREM EndsAtDone == Spec => []StreamEndsAtDone
<1>1. Spec => []StreamInv
  BY InitStream, StepStream, PTL DEF Spec
<1>2. StreamInv => StreamEndsAtDone
  BY DEF StreamInv
<1>3. QED
  BY <1>1, <1>2, PTL

\* A closed emitter accepts no event.
THEOREM ClosedForGood == Spec => NothingAfterClose
<1>1. TypeInv /\ [Next]_vars => [closed => accepted' = accepted]_vars
  BY PutSteps
<1>2. Spec => []TypeInv
  BY InitType, StepType, PTL DEF Spec
<1>3. QED
  BY <1>1, <1>2, PTL DEF Spec, NothingAfterClose

\* The bounded queue with its drops, close() and its readers implement an
\* append-only log (module EventLog).
THEOREM RefinesLog == Spec => ImplementsLog
<1>1. Init => Log!Init
  BY DEF Init, Log!Init
<1>2. StreamInv /\ [Next]_vars => [Log!Next]_(Log!logVars)
  <2> SUFFICES ASSUME StreamInv, [Next]_vars PROVE [Log!Next]_(Log!logVars)
    OBVIOUS
  <2> USE DEF StreamInv
  <2>1. CASE UNCHANGED <<queue, accepted, received, streamOpen>>
    BY <2>1 DEF Log!logVars
  <2>2. CASE StreamNext /\ UNCHANGED accepted
    <3>1. /\ queue \in Seq(Events) /\ received \in Seq(Events) /\ queue # <<>>
          /\ received' = Append(received, Head(queue))
          /\ streamOpen /\ streamOpen' = ~Head(queue).done
      BY <2>2 DEF TypeInv, TypeOK, StreamNext
    <3>2. Len(received) < Len(accepted) /\ accepted[Len(received) + 1] = Head(queue)
      BY <3>1 DEF StreamFaithful
    <3>3. Len(received') = Len(received) + 1
      BY <3>1
    <3>4. Log!Read
      BY <2>2, <3>1, <3>2, <3>3 DEF Log!Read, IsDone
    <3>5. QED
      BY <3>4 DEF Log!Next
  <2>3. ASSUME UNCHANGED <<received, streamOpen>>, NEW ev \in Events, Put(ev)
        PROVE  Log!Next
    BY <2>3 DEF Log!Next, Log!Publish, Put
  <2>4. QED
    BY <2>1, <2>2, <2>3, PutSteps
<1>3. Spec => []StreamInv
  BY InitStream, StepStream, PTL DEF Spec
<1>4. QED
  BY <1>1, <1>2, <1>3, PTL DEF Spec, ImplementsLog, Log!Spec

-----------------------------------------------------------------------------
(* The callbacks.  A task delivers one event at a time, which is newer than all
   it has delivered; so a callback hears each task in order, and nothing twice. *)

Taken(ev, log) == \E j \in DOMAIN log : log[j] = ev

CurrentInv ==
  \A t \in Tasks : waiting[t] # {} =>
    /\ current[t].by = t
    /\ current[t].num <= created
    /\ Taken(current[t], accepted)

HeardInv ==
  \A s \in SubIds : \A i \in DOMAIN delivered[s] :
    /\ Taken(delivered[s][i], accepted)
    /\ delivered[s][i].num <= created
    /\ \A t \in Tasks : (s \in waiting[t] /\ delivered[s][i].by = t)
                           => delivered[s][i].num < current[t].num

CallbackInv == TypeInv /\ CurrentInv /\ HeardInv /\ PerTaskOrder

\* No callback has been called at first.
LEMMA InitCallback == Init => CallbackInv
<1> SUFFICES ASSUME Init PROVE CallbackInv
  OBVIOUS
<1>1. TypeInv
  BY InitType
<1>2. CurrentInv /\ HeardInv /\ PerTaskOrder
  BY DEF Init, CurrentInv, HeardInv, PerTaskOrder
<1>3. QED
  BY <1>1, <1>2 DEF CallbackInv

\* Events are numbered, those that a callback heard too.
LEMMA HeardNumbers ==
  ASSUME TypeInv, NEW s \in SubIds, NEW i \in DOMAIN delivered[s]
  PROVE  delivered[s][i].num \in Int
<1>1. delivered[s] \in Seq(Events)
  BY DEF TypeInv, TypeOK
<1>2. delivered[s][i] \in Events
  BY <1>1
<1>3. QED
  BY <1>2, EmitterAssumption DEF Events

\* The history of the queue only grows.
LEMMA TakenStays ==
  ASSUME TypeInv, [Next]_vars, NEW ev, Taken(ev, accepted)
  PROVE  Taken(ev, accepted')
<1>1. accepted \in Seq(Events)
  BY DEF TypeInv, TypeOK
<1>2. CASE UNCHANGED accepted
  BY <1>2
<1>3. ASSUME NEW new \in Events, Put(new) PROVE Taken(ev, accepted')
  <2>1. accepted' = Append(accepted, new)
    BY <1>3 DEF Put
  <2>2. PICK j \in DOMAIN accepted : accepted[j] = ev
    BY DEF Taken
  <2>3. j \in DOMAIN accepted' /\ accepted'[j] = ev
    BY <1>1, <2>1, <2>2
  <2>4. QED
    BY <2>3 DEF Taken
<1>4. QED
  BY <1>2, <1>3, PutSteps

\* A step that neither emits nor calls a callback disturbs nothing.
LEMMA QuietStep ==
  ASSUME CallbackInv, [Next]_vars, UNCHANGED <<waiting, current, delivered>>,
         created' >= created
  PROVE  CallbackInv'
<1> USE DEF CallbackInv
<1>1. TypeInv'
  BY StepType
<1>2. created \in Int /\ created' \in Int
  BY <1>1, EmitterAssumption DEF TypeInv, TypeOK
<1>3. CurrentInv'
  <2> SUFFICES ASSUME NEW t \in Tasks, waiting[t] # {}
               PROVE  /\ current[t].by = t /\ current[t].num <= created'
                      /\ Taken(current[t], accepted')
    BY DEF CurrentInv
  <2>1. current[t].num \in Int
    BY EmitterAssumption DEF TypeInv, DeliveringInv, Events
  <2>2. Taken(current[t], accepted')
    BY TakenStays DEF CurrentInv
  <2>3. QED
    BY <1>2, <2>1, <2>2 DEF CurrentInv
<1>4. HeardInv'
  <2> SUFFICES ASSUME NEW s \in SubIds, NEW i \in DOMAIN delivered[s]
               PROVE  /\ Taken(delivered[s][i], accepted')
                      /\ delivered[s][i].num <= created'
    BY DEF HeardInv
  <2>1. delivered[s][i].num \in Int
    BY HeardNumbers
  <2>2. Taken(delivered[s][i], accepted')
    BY TakenStays DEF HeardInv
  <2>3. QED
    BY <1>2, <2>1, <2>2 DEF HeardInv
<1>5. PerTaskOrder'
  BY DEF PerTaskOrder
<1>6. QED
  BY <1>1, <1>3, <1>4, <1>5

\* An accepted event is newer than everything heard.
LEMMA EmitStep ==
  ASSUME CallbackInv, [Next]_vars, NEW t \in Tasks, NEW d \in BOOLEAN, EmitAccepted(t, d)
  PROVE  CallbackInv'
<1> USE DEF CallbackInv
<1>1. TypeInv'
  BY StepType
<1> DEFINE new == NextEvent(t, d)
<1>2. /\ accepted \in Seq(Events) /\ created \in Int /\ created' = created + 1
      /\ waiting' = [waiting EXCEPT ![t] = subscribers]
      /\ current' = [current EXCEPT ![t] = new]
      /\ UNCHANGED delivered
      /\ waiting \in [Tasks -> SUBSET SubIds]
      /\ current \in [Tasks -> Events \cup {NoEvent}]
      /\ accepted' = Append(accepted, new)
  BY EmitterAssumption DEF TypeInv, TypeOK, EmitAccepted, Put
<1>3. new.by = t /\ new.num = created + 1
  BY DEF NextEvent
<1>4. Taken(new, accepted')
  <2>1. Len(accepted) + 1 \in DOMAIN accepted' /\ accepted'[Len(accepted) + 1] = new
    BY <1>2
  <2>2. QED
    BY <2>1 DEF Taken
<1> HIDE DEF new
<1>5. CurrentInv'
  <2> SUFFICES ASSUME NEW r \in Tasks, waiting'[r] # {}
               PROVE  /\ current'[r].by = r /\ current'[r].num <= created'
                      /\ Taken(current'[r], accepted')
    BY DEF CurrentInv
  <2>1. CASE r = t
    BY <1>2, <1>3, <1>4, <2>1
  <2>2. CASE r # t
    <3>1. waiting[r] # {} /\ current'[r] = current[r]
      BY <1>2, <2>2
    <3>2. current[r].num \in Int
      BY <3>1, EmitterAssumption DEF TypeInv, DeliveringInv, Events
    <3>3. Taken(current[r], accepted')
      BY <3>1, TakenStays DEF CurrentInv
    <3>4. QED
      BY <1>2, <3>1, <3>2, <3>3 DEF CurrentInv
  <2>3. QED
    BY <2>1, <2>2
<1>6. HeardInv'
  <2> SUFFICES ASSUME NEW s \in SubIds, NEW i \in DOMAIN delivered[s]
               PROVE  /\ Taken(delivered[s][i], accepted')
                      /\ delivered[s][i].num <= created'
                      /\ \A r \in Tasks : (s \in waiting'[r] /\ delivered[s][i].by = r)
                           => delivered[s][i].num < current'[r].num
    BY <1>2 DEF HeardInv
  <2>1. delivered[s][i].num \in Int
    BY HeardNumbers
  <2>2. Taken(delivered[s][i], accepted')
    BY TakenStays DEF HeardInv
  <2>3. delivered[s][i].num <= created
    BY DEF HeardInv
  <2>4. ASSUME NEW r \in Tasks, s \in waiting'[r], delivered[s][i].by = r
        PROVE  delivered[s][i].num < current'[r].num
    <3>1. CASE r = t
      BY <1>2, <1>3, <2>1, <2>3, <3>1
    <3>2. CASE r # t
      <4>1. s \in waiting[r] /\ current'[r] = current[r]
        BY <1>2, <2>4, <3>2
      <4>2. QED
        BY <2>4, <4>1 DEF HeardInv
    <3>3. QED
      BY <3>1, <3>2
  <2>5. QED
    BY <1>2, <2>1, <2>2, <2>3, <2>4
<1>7. PerTaskOrder'
  BY <1>2 DEF PerTaskOrder
<1>8. QED
  BY <1>1, <1>5, <1>6, <1>7

\* A callback hears the task's current event, and the task will not call it
\* with this event again.
LEMMA DeliverStep ==
  ASSUME CallbackInv, [Next]_vars, NEW t \in Tasks, Deliver(t)
  PROVE  CallbackInv'
<1> USE DEF CallbackInv
<1>1. TypeInv'
  BY StepType
<1>2. PICK s \in waiting[t] :
        /\ delivered' = [delivered EXCEPT ![s] = Append(@, current[t])]
        /\ waiting' = [waiting EXCEPT ![t] = @ \ {s}]
  BY DEF Deliver
<1>3. /\ UNCHANGED <<current, accepted, created>>
      /\ waiting \in [Tasks -> SUBSET SubIds] /\ delivered \in [SubIds -> Seq(Events)]
      /\ s \in SubIds
  BY <1>2 DEF Deliver, TypeInv, TypeOK
<1>4. /\ current[t] \in Events /\ current[t].by = t /\ current[t].num <= created
      /\ Taken(current[t], accepted)
  BY <1>2 DEF TypeInv, DeliveringInv, CurrentInv
<1>5. \A r \in Tasks : /\ waiting'[r] \subseteq waiting[r]
                       /\ r # t => waiting'[r] = waiting[r]
                       /\ s \notin waiting'[t]
  BY <1>2, <1>3
<1>6. CurrentInv'
  BY <1>3, <1>5 DEF CurrentInv
<1>7. /\ DOMAIN delivered'[s] = 1..(Len(delivered[s]) + 1)
      /\ DOMAIN delivered[s] = 1..Len(delivered[s]) /\ Len(delivered[s]) \in Nat
      /\ \A i \in DOMAIN delivered[s] : delivered'[s][i] = delivered[s][i]
      /\ delivered'[s][Len(delivered[s]) + 1] = current[t]
  BY <1>2, <1>3, <1>4
<1>8. \A q \in SubIds : q # s => delivered'[q] = delivered[q]
  BY <1>2, <1>3
<1>9. HeardInv'
  <2> SUFFICES ASSUME NEW q \in SubIds, NEW i \in DOMAIN delivered'[q]
               PROVE  /\ Taken(delivered'[q][i], accepted)
                      /\ delivered'[q][i].num <= created
                      /\ \A r \in Tasks : (q \in waiting'[r] /\ delivered'[q][i].by = r)
                           => delivered'[q][i].num < current[r].num
    BY <1>3 DEF HeardInv
  <2>1. CASE i \in DOMAIN delivered[q] /\ delivered'[q][i] = delivered[q][i]
    BY <1>5, <2>1 DEF HeardInv
  <2>2. CASE q = s /\ delivered'[q][i] = current[t]
    BY <1>4, <1>5, <2>2
  <2>3. QED
    BY <1>7, <1>8, <2>1, <2>2
<1>10. PerTaskOrder'
  <2> SUFFICES ASSUME NEW q \in SubIds, NEW i \in DOMAIN delivered'[q],
                      NEW j \in DOMAIN delivered'[q],
                      i < j, delivered'[q][i].by = delivered'[q][j].by
               PROVE  delivered'[q][i].num < delivered'[q][j].num
    BY DEF PerTaskOrder
  <2>1. CASE q # s
    BY <1>8, <2>1 DEF PerTaskOrder
  <2>2. CASE q = s /\ j \in DOMAIN delivered[s]
    <3>1. i \in DOMAIN delivered[s]
      BY <1>7, <2>2
    <3>2. QED
      BY <1>7, <2>2, <3>1 DEF PerTaskOrder
  <2>3. CASE q = s /\ j = Len(delivered[s]) + 1
    <3>1. i \in DOMAIN delivered[s]
      BY <1>7, <2>3
    <3>2. delivered[s][i].by = t
      BY <1>4, <1>7, <2>3, <3>1
    <3>3. delivered[s][i].num < current[t].num
      BY <1>2, <1>3, <3>1, <3>2 DEF HeardInv
    <3>4. QED
      BY <1>7, <2>3, <3>1, <3>3
  <2>4. QED
    BY <1>7, <2>1, <2>2, <2>3
<1>11. QED
  BY <1>1, <1>6, <1>9, <1>10

\* Every step keeps what is known of the callbacks.
LEMMA StepCallback == CallbackInv /\ [Next]_vars => CallbackInv'
<1> SUFFICES ASSUME CallbackInv, [Next]_vars PROVE CallbackInv'
  OBVIOUS
<1>1. ASSUME NEW t \in Tasks, Deliver(t) PROVE CallbackInv'
  BY <1>1, DeliverStep
<1>2. ASSUME NEW t \in Tasks, NEW d \in BOOLEAN, EmitAccepted(t, d) PROVE CallbackInv'
  BY <1>2, EmitStep
<1>3. CASE UNCHANGED <<waiting, current, delivered>> /\ created' >= created
  BY <1>3, QuietStep
<1>4. created \in Int
  BY EmitterAssumption DEF CallbackInv, TypeInv, TypeOK
<1>5. QED
  BY <1>1, <1>2, <1>3, <1>4 DEF Next, vars, taskVars, EmitDropped, Subscribe,
     Unsubscribe, StreamNext, CloseOnce, Close

\* A callback hears each task's events in the order the task emitted them.
THEOREM InOrder == Spec => []PerTaskOrder
<1>1. Spec => []CallbackInv
  BY InitCallback, StepCallback, PTL DEF Spec
<1>2. CallbackInv => PerTaskOrder
  BY DEF CallbackInv
<1>3. QED
  BY <1>1, <1>2, PTL

\* A callback hears accepted events only, each at most once.
THEOREM AcceptedOnce == Spec => []DeliveredOnlyAccepted
<1>1. Spec => []CallbackInv
  BY InitCallback, StepCallback, PTL DEF Spec
<1>2. CallbackInv => DeliveredOnlyAccepted
  <2> SUFFICES ASSUME CallbackInv, NEW s \in SubIds PROVE
        /\ \A i \in DOMAIN delivered[s] : Taken(delivered[s][i], accepted)
        /\ \A i, j \in DOMAIN delivered[s] : delivered[s][i] = delivered[s][j] => i = j
    BY DEF DeliveredOnlyAccepted, Taken
  <2>1. \A i \in DOMAIN delivered[s] : Taken(delivered[s][i], accepted)
    BY DEF CallbackInv, HeardInv
  <2>2. ASSUME NEW i \in DOMAIN delivered[s], NEW j \in DOMAIN delivered[s], i < j
        PROVE  delivered[s][i] # delivered[s][j]
    <3>1. delivered[s][i].num \in Int
      BY HeardNumbers DEF CallbackInv
    <3>2. delivered[s][i].by = delivered[s][j].by
            => delivered[s][i].num < delivered[s][j].num
      BY <2>2 DEF CallbackInv, PerTaskOrder
    <3>3. QED
      BY <3>1, <3>2
  <2>3. DOMAIN delivered[s] = 1..Len(delivered[s]) /\ Len(delivered[s]) \in Nat
    BY DEF CallbackInv, TypeInv, TypeOK
  <2>4. QED
    BY <2>1, <2>2, <2>3
<1>3. QED
  BY <1>1, <1>2, PTL

-----------------------------------------------------------------------------
(* Joining sequences.  FlattenSeq is a recursive function, which is unfolded here once. *)

\* A set of numbers has a least one.
LEMMA LeastNumber ==
  ASSUME NEW T \in SUBSET Nat, T # {}
  PROVE  \E least \in T : \A n \in T : least <= n
<1>1. IsWellFoundedOn(OpToRel(<, Nat), Nat)
  BY NatLessThanWellFounded
<1>2. PICK least \in T : \A n \in T : <<n, least>> \notin OpToRel(<, Nat)
  BY <1>1, WFMin, Zenon
<1>3. ASSUME NEW n \in T, n < least PROVE FALSE
  BY <1>2, <1>3 DEF OpToRel
<1>4. QED
  BY <1>3

\* A set that has 1 and with each number below m the next one has all up to m.
LEMMA AllUpTo ==
  ASSUME NEW m \in Nat, NEW T, m # 0 => 1 \in T, \A n \in 1..(m - 1) : n \in T => n + 1 \in T
  PROVE  1..m \subseteq T
<1> DEFINE missing == 1..m \ T
<1> SUFFICES ASSUME missing # {} PROVE FALSE
  OBVIOUS
<1>1. missing \in SUBSET Nat
  OBVIOUS
<1>2. PICK least \in missing : \A n \in missing : least <= n
  <2> HIDE DEF missing
  <2>1. QED
    BY <1>1, LeastNumber
<1>3. least \in 1..m /\ least # 1
  OBVIOUS
<1>4. least - 1 \in 1..(m - 1) /\ least - 1 \notin missing
  BY <1>2, <1>3
<1>5. QED
  BY <1>3, <1>4

\* The equation of FlattenSeq's function up to n.
FlatTo(f, ss, n) == f = [i \in 1..n |-> IF i = 1 THEN ss[i] ELSE f[i - 1] \o ss[i]]

LEMMA FlatExists ==
  ASSUME NEW ss, NEW m \in Nat
  PROVE  \A n \in 1..m : \E f : FlatTo(f, ss, n)
<1> DEFINE T == {n \in 1..m : \E f : FlatTo(f, ss, n)}
<1>1. m # 0 => 1 \in T
  <2>1. FlatTo([i \in 1..1 |-> ss[i]], ss, 1)
    BY DEF FlatTo
  <2>2. QED
    BY <2>1
<1>2. ASSUME NEW n \in 1..(m - 1), n \in T PROVE n + 1 \in T
  <2>1. PICK f : FlatTo(f, ss, n)
    BY <1>2
  <2> DEFINE next == [i \in 1..(n + 1) |-> IF i = n + 1 THEN f[n] \o ss[i] ELSE f[i]]
  <2>2. ASSUME NEW i \in 1..(n + 1)
        PROVE  next[i] = IF i = 1 THEN ss[i] ELSE next[i - 1] \o ss[i]
    <3>1. CASE i = n + 1
      <4>1. next[n] = f[n] /\ i - 1 = n /\ i # 1
        BY <3>1
      <4>2. QED
        BY <3>1, <4>1
    <3>2. CASE i # n + 1
      <4>1. i \in 1..n
        BY <3>2
      <4>2. f[i] = IF i = 1 THEN ss[i] ELSE f[i - 1] \o ss[i]
        BY <2>1, <4>1, Zenon DEF FlatTo
      <4>3. i # 1 => next[i - 1] = f[i - 1]
        BY <4>1
      <4>4. QED
        BY <3>2, <4>2, <4>3
    <3>3. QED
      BY <3>1, <3>2
  <2>3. next = [i \in 1..(n + 1) |-> next[i]]
    OBVIOUS
  <2> HIDE DEF next
  <2>4. FlatTo(next, ss, n + 1)
    BY <2>2, <2>3 DEF FlatTo
  <2>5. QED
    BY <2>4
<1>3. 1..m \subseteq T
  <2> HIDE DEF T
  <2>1. QED
    BY <1>1, <1>2, AllUpTo
<1>4. QED
  BY <1>3

\* FlattenSeq is the last value of a function that joins one piece after the other.
LEMMA FlatUnfolds ==
  ASSUME NEW S, NEW ss \in Seq(Seq(S)), ss # <<>>
  PROVE  \E f \in [1..Len(ss) -> Seq(S)] :
           /\ f[1] = ss[1]
           /\ \A i \in 2..Len(ss) : f[i] = f[i - 1] \o ss[i]
           /\ FlattenSeq(ss) = f[Len(ss)]
<1> DEFINE f == CHOOSE g : g = [i \in 1..Len(ss) |-> IF i = 1 THEN ss[i] ELSE g[i - 1] \o ss[i]]
<1>0. Len(ss) \in Nat \ {0} /\ Len(ss) \in 1..Len(ss)
  BY EmptySeq
<1>1. FlattenSeq(ss) = f[Len(ss)]
  BY <1>0 DEF FlattenSeq
<1>2. \E g : FlatTo(g, ss, Len(ss))
  <2>1. Len(ss) \in Nat /\ Len(ss) \in 1..Len(ss)
    BY <1>0
  <2>2. QED
    BY <2>1, FlatExists, Zenon
<1>3. f = [i \in 1..Len(ss) |-> IF i = 1 THEN ss[i] ELSE f[i - 1] \o ss[i]]
  BY <1>2 DEF FlatTo
<1> HIDE DEF f
<1>4. f[1] = ss[1] /\ \A i \in 2..Len(ss) : f[i] = f[i - 1] \o ss[i]
  <2>1. \A i \in 1..Len(ss) : f[i] = IF i = 1 THEN ss[i] ELSE f[i - 1] \o ss[i]
    BY <1>3, Zenon
  <2>2. 1 \in 1..Len(ss) /\ \A i \in 2..Len(ss) : i \in 1..Len(ss) /\ i # 1
    BY <1>0
  <2>3. QED
    BY <2>1, <2>2, Zenon
<1> DEFINE T == {i \in 1..Len(ss) : f[i] \in Seq(S)}
<1>5. 1 \in T
  <2>1. 1 \in 1..Len(ss)
    BY <1>0
  <2>2. ss[1] \in Seq(S)
    BY <2>1, ElementOfSeq
  <2>3. QED
    BY <1>4, <2>1, <2>2
<1>6. ASSUME NEW n \in 1..(Len(ss) - 1), n \in T PROVE n + 1 \in T
  <2>1. n + 1 \in 2..Len(ss) /\ n + 1 \in 1..Len(ss) /\ (n + 1) - 1 = n
    BY <1>0
  <2>2. f[n + 1] = f[n] \o ss[n + 1]
    BY <1>4, <2>1
  <2>3. ss[n + 1] \in Seq(S)
    BY <2>1, ElementOfSeq
  <2>4. f[n] \in Seq(S)
    BY <1>6
  <2>5. f[n] \o ss[n + 1] \in Seq(S)
    BY <2>3, <2>4, ConcatProperties
  <2>6. QED
    BY <2>1, <2>2, <2>5
<1>7. 1..Len(ss) \subseteq T
  <2> HIDE DEF T
  <2>1. QED
    BY <1>0, <1>5, <1>6, AllUpTo
<1>8. f \in [1..Len(ss) -> Seq(S)]
  <2>1. f = [i \in 1..Len(ss) |-> f[i]]
    BY <1>3, Zenon
  <2>2. \A i \in 1..Len(ss) : f[i] \in Seq(S)
    BY <1>7
  <2>3. QED
    BY <2>1, <2>2, Zenon
<1>9. QED
  BY <1>1, <1>4, <1>8

Associates(S) == \A a, b, c \in Seq(S) : (a \o b) \o c = a \o (b \o c)

LEMMA Associative == \A S : Associates(S)
BY ConcatAssociative DEF Associates

\* Joining a longer list joins its parts.
LEMMA FlatConcat ==
  ASSUME NEW S, NEW ss \in Seq(Seq(S)), NEW tt \in Seq(Seq(S))
  PROVE  /\ FlattenSeq(ss) \in Seq(S)
         /\ FlattenSeq(ss \o tt) = FlattenSeq(ss) \o FlattenSeq(tt)
<1>0. Len(ss) \in Nat /\ Len(tt) \in Nat
  OBVIOUS
<1>1. \A a, b, c \in Seq(S) : (a \o b) \o c = a \o (b \o c)
  <2>1. Associates(S)
    BY Associative, Zenon
  <2>2. QED
    BY <2>1, Zenon DEF Associates
<1>2. \A uu \in Seq(Seq(S)) : FlattenSeq(uu) \in Seq(S)
  <2> TAKE uu \in Seq(Seq(S))
  <2>1. CASE uu = <<>>
    <3>1. Len(uu) = 0
      BY <2>1
    <3>2. FlattenSeq(uu) = <<>>
      BY <2>1, <3>1 DEF FlattenSeq
    <3>3. QED
      BY <3>2
  <2>2. CASE uu # <<>>
    <3>1. PICK f \in [1..Len(uu) -> Seq(S)] : FlattenSeq(uu) = f[Len(uu)]
      BY <2>2, FlatUnfolds
    <3>2. Len(uu) \in 1..Len(uu)
      BY <2>2, EmptySeq
    <3>3. QED
      BY <3>1, <3>2
  <2>3. QED
    BY <2>1, <2>2
<1>3. CASE ss = <<>>
  <2>1. FlattenSeq(ss) = <<>>
    BY <1>3 DEF FlattenSeq
  <2>2. ss \o tt = tt
    BY <1>3, ConcatEmptySeq
  <2>3. QED
    BY <1>2, <2>1, <2>2, ConcatEmptySeq
<1>4. CASE tt = <<>>
  <2>1. FlattenSeq(tt) = <<>>
    BY <1>4 DEF FlattenSeq
  <2>2. ss \o tt = ss
    BY <1>4, ConcatEmptySeq
  <2>3. QED
    BY <1>2, <2>1, <2>2, ConcatEmptySeq
<1>5. CASE ss # <<>> /\ tt # <<>>
  <2> DEFINE uu == ss \o tt
  <2>1. /\ uu \in Seq(Seq(S)) /\ Len(uu) = Len(ss) + Len(tt)
        /\ \A i \in 1..Len(uu) : uu[i] = IF i <= Len(ss) THEN ss[i] ELSE tt[i - Len(ss)]
    BY ConcatProperties
  <2>2. Len(ss) \in Nat \ {0} /\ Len(tt) \in Nat \ {0}
    BY <1>5, EmptySeq
  <2>3. uu # <<>>
    BY <2>1, <2>2
  <2> HIDE DEF uu
  <2>4. PICK f \in [1..Len(ss) -> Seq(S)] :
           /\ f[1] = ss[1]
           /\ \A i \in 2..Len(ss) : f[i] = f[i - 1] \o ss[i]
           /\ FlattenSeq(ss) = f[Len(ss)]
    BY <1>5, FlatUnfolds
  <2>5. PICK g \in [1..Len(tt) -> Seq(S)] :
           /\ g[1] = tt[1]
           /\ \A i \in 2..Len(tt) : g[i] = g[i - 1] \o tt[i]
           /\ FlattenSeq(tt) = g[Len(tt)]
    BY <1>5, FlatUnfolds
  <2>6. PICK h \in [1..Len(uu) -> Seq(S)] :
           /\ h[1] = uu[1]
           /\ \A i \in 2..Len(uu) : h[i] = h[i - 1] \o uu[i]
           /\ FlattenSeq(uu) = h[Len(uu)]
    BY <2>1, <2>3, FlatUnfolds
  <2>7. /\ FlattenSeq(ss) \in Seq(S)
        /\ \A i \in 1..Len(tt) : g[i] \in Seq(S) /\ tt[i] \in Seq(S)
    <3>1. \A i \in 1..Len(tt) : tt[i] \in Seq(S)
      BY ElementOfSeq
    <3>2. QED
      BY <1>2, <3>1
  <2>8. h[Len(ss) + Len(tt)] = f[Len(ss)] \o g[Len(tt)]
    <3>1. \A i \in 1..Len(ss) : uu[i] = ss[i]
      BY <2>1, <2>2
    <3>2. \A i \in 1..Len(tt) : uu[Len(ss) + i] = tt[i]
      <4> TAKE i \in 1..Len(tt)
      <4>1. /\ Len(ss) + i \in 1..Len(uu) /\ ~(Len(ss) + i <= Len(ss))
            /\ (Len(ss) + i) - Len(ss) = i
        <5> DEFINE m == Len(ss)
                   k == Len(tt)
                   r == Len(uu)
        <5>1. m \in Nat /\ k \in Nat /\ r = m + k /\ i \in 1..k
          BY <2>1, <2>2, Zenon
        <5> HIDE DEF m, k, r
        <5>2. m + i \in 1..r /\ ~(m + i <= m) /\ (m + i) - m = i
          BY <5>1
        <5>3. QED
          BY <5>2, Zenon DEF m, r
      <4>2. QED
        BY <2>1, <4>1, Zenon
    <3>3. \A i \in 2..(Len(ss) + Len(tt)) : h[i] = h[i - 1] \o uu[i]
      BY <2>1, <2>6
    <3>4. f[Len(ss)] \in Seq(S)
      <4>1. Len(ss) \in 1..Len(ss)
        BY <2>2
      <4>2. QED
        BY <2>4, <4>1, Zenon
    <3> DEFINE m == Len(ss)
               k == Len(tt)
    <3>5. m \in Nat \ {0} /\ k \in Nat \ {0}
      BY <2>2
    <3>6. /\ f[1] = ss[1] /\ g[1] = tt[1] /\ h[1] = uu[1] /\ f[m] \in Seq(S)
      BY <2>4, <2>5, <2>6, <3>4, Zenon
    <3>7. /\ \A i \in 2..m : f[i] = f[i - 1] \o ss[i]
          /\ \A i \in 2..k : g[i] = g[i - 1] \o tt[i]
          /\ \A i \in 2..(m + k) : h[i] = h[i - 1] \o uu[i]
          /\ \A i \in 1..m : uu[i] = ss[i]
          /\ \A i \in 1..k : uu[m + i] = tt[i]
      BY <2>4, <2>5, <3>1, <3>2, <3>3, Zenon
    <3>8. \A i \in 1..k : g[i] \in Seq(S) /\ tt[i] \in Seq(S)
      BY <2>7, Zenon
    <3>9. k \in 1..k /\ m \in 1..m /\ k \in Nat /\ m \in Nat
      BY <2>2
    <3> HIDE DEF m, k
    <3>10. h[m + k] = f[m] \o g[k]
      <4> DEFINE T == {i \in 1..m : h[i] = f[i]}
      <4>1. 1..m \subseteq T
        <5>1. 1 \in T
          <6>1. 1 \in 1..m
            BY <3>5
          <6>2. QED
            BY <3>6, <3>7, <6>1, Zenon
        <5>2. ASSUME NEW n \in 1..(m - 1), n \in T PROVE n + 1 \in T
          <6>1. n + 1 \in 2..m /\ n + 1 \in 1..m /\ n + 1 \in 2..(m + k) /\ (n + 1) - 1 = n
            BY <3>5
          <6>2. h[n + 1] = h[n] \o uu[n + 1] /\ f[n + 1] = f[n] \o ss[n + 1] /\ uu[n + 1] = ss[n + 1]
            BY <3>7, <6>1, Zenon
          <6>3. h[n] = f[n]
            BY <5>2
          <6>4. h[n + 1] = f[n + 1]
            BY <6>2, <6>3, Zenon
          <6>5. QED
            BY <6>1, <6>4
        <5> HIDE DEF T
        <5>3. QED
          BY <3>9, <5>1, <5>2, AllUpTo, Zenon
      <4>2. h[m] = f[m]
        BY <3>9, <4>1, Zenon
      <4> DEFINE U == {i \in 1..k : h[m + i] = f[m] \o g[i]}
      <4>3. 1..k \subseteq U
        <5>1. 1 \in U
          <6>1. 1 \in 1..k /\ m + 1 \in 2..(m + k) /\ (m + 1) - 1 = m
            BY <3>5
          <6>2. h[m + 1] = h[m] \o uu[m + 1] /\ uu[m + 1] = tt[1]
            BY <3>7, <6>1, Zenon
          <6>3. h[m + 1] = f[m] \o g[1]
            BY <3>6, <4>2, <6>2, Zenon
          <6>4. QED
            BY <6>1, <6>3
        <5>2. ASSUME NEW n \in 1..(k - 1), n \in U PROVE n + 1 \in U
          <6>1. /\ n + 1 \in 2..k /\ n + 1 \in 1..k /\ n \in 1..k /\ (n + 1) - 1 = n
                /\ m + (n + 1) \in 2..(m + k) /\ (m + (n + 1)) - 1 = m + n
            BY <3>5
          <6>2. /\ h[m + (n + 1)] = h[m + n] \o uu[m + (n + 1)] /\ g[n + 1] = g[n] \o tt[n + 1]
                /\ uu[m + (n + 1)] = tt[n + 1]
            BY <3>7, <6>1, Zenon
          <6>3. h[m + n] = f[m] \o g[n]
            BY <5>2
          <6>4. g[n] \in Seq(S) /\ tt[n + 1] \in Seq(S)
            BY <3>8, <6>1, Zenon
          <6>5. (f[m] \o g[n]) \o tt[n + 1] = f[m] \o (g[n] \o tt[n + 1])
            <7> DEFINE a == f[m]
                       b == g[n]
                       c == tt[n + 1]
            <7>1. a \in Seq(S) /\ b \in Seq(S) /\ c \in Seq(S)
              BY <3>6, <6>4, Zenon
            <7> HIDE DEF a, b, c
            <7>2. (a \o b) \o c = a \o (b \o c)
              BY <1>1, <7>1, Zenon
            <7>3. QED
              BY <7>2, Zenon DEF a, b, c
          <6>6. h[m + (n + 1)] = f[m] \o g[n + 1]
            BY <6>2, <6>3, <6>5, Zenon
          <6>7. QED
            BY <6>1, <6>6
        <5> HIDE DEF U
        <5>3. QED
          BY <3>9, <5>1, <5>2, AllUpTo, Zenon
      <4>4. k \in 1..k
        BY <3>5
      <4>5. QED
        BY <4>3, <4>4, Zenon
    <3>11. QED
      BY <3>10 DEF m, k
  <2>9. QED
    BY <1>2, <2>1, <2>4, <2>5, <2>6, <2>8, Zenon DEF uu
<1>6. QED
  BY <1>3, <1>4, <1>5

-----------------------------------------------------------------------------
(* What a provider yields, and the texts in it. *)

Pieces == [kind : {"text", "native", "call"}, body : Texts, call : Nat, n : Nat]

\* Joining three texts.
Regroups(a, b, c) == (a \o b) \o c = a \o (b \o c)

LEMMA AllRegroup == \A a, b, c \in Texts : Regroups(a, b, c)
BY ConcatAssociative DEF Texts, Regroups

LEMMA TextsJoin ==
  ASSUME NEW a \in Texts, NEW b \in Texts
  PROVE  a \o b \in Texts /\ <<>> \o a = a /\ a \o <<>> = a /\ <<>> \in Texts
BY ConcatProperties, ConcatEmptySeq, EmptySeq DEF Texts

LEMMA JoinedLength ==
  ASSUME NEW a \in Texts, NEW b \in Texts
  PROVE  a \o b \in Texts /\ Len(a \o b) = Len(a) + Len(b)
BY ConcatProperties DEF Texts

LEMMA TagTypes == /\ OpenTag \in Texts /\ CloseTag \in Texts
                  /\ Len(OpenTag) = 2 /\ Len(CloseTag) = 2
<1>1. \A S : \A a, b \in S : <<a, b>> \in Seq(S) /\ Len(<<a, b>>) = 2
  OBVIOUS
<1>2. "o" \in Symbols /\ "p" \in Symbols /\ "c" \in Symbols /\ "d" \in Symbols
  BY SymbolsAssumption
<1>3. QED
  BY <1>1, <1>2 DEF OpenTag, CloseTag, Texts

\* The kinds of pieces.
LEMMA PieceTypes ==
  ASSUME NEW body \in Texts
  PROVE  /\ Text(body) \in Pieces /\ Native(body) \in Pieces
         /\ \A i, n \in Nat : Call(i, n) \in Pieces
         /\ Text(body).call = 0 /\ Native(body).call = 0
         /\ Text(body).kind = "text" /\ Text(body).body = body
         /\ Native(body).kind = "native" /\ Native(body).body = body
         /\ \A i, n \in Nat : /\ Call(i, n).kind = "call" /\ Call(i, n).body = <<>>
                              /\ Call(i, n).call = i /\ Call(i, n).n = n
<1>1. <<>> \in Texts
  BY EmptySeq DEF Texts
<1>2. QED
  BY <1>1 DEF Text, Native, Call, Event, Pieces

Shows(e) == IF e.kind = "text" THEN e.body ELSE <<>>
Wrote(e) == IF e.kind = "native" THEN OpenTag \o e.body \o CloseTag ELSE e.body

LEMMA PieceTexts ==
  ASSUME NEW e \in Pieces
  PROVE  Shows(e) \in Texts /\ Wrote(e) \in Texts
<1>1. e.body \in Texts /\ <<>> \in Texts /\ OpenTag \in Texts /\ CloseTag \in Texts
  BY TagTypes, EmptySeq DEF Pieces, Texts
<1>2. OpenTag \o e.body \in Texts
  BY <1>1, TextsJoin
<1>3. OpenTag \o e.body \o CloseTag \in Texts
  BY <1>1, <1>2, TextsJoin
<1>4. QED
  BY <1>1, <1>3 DEF Shows, Wrote

ShownPieces(events) == [i \in DOMAIN events |-> Shows(events[i])]
WrittenPieces(events) == [i \in DOMAIN events |-> Wrote(events[i])]

LEMMA PiecesOf ==
  ASSUME NEW ev \in Seq(Pieces)
  PROVE  /\ ShownPieces(ev) \in Seq(Texts) /\ WrittenPieces(ev) \in Seq(Texts)
         /\ Len(ShownPieces(ev)) = Len(ev) /\ Len(WrittenPieces(ev)) = Len(ev)
         /\ \A i \in 1..Len(ev) : ShownPieces(ev)[i] = Shows(ev[i]) /\ WrittenPieces(ev)[i] = Wrote(ev[i])
<1>1. Len(ev) \in Nat /\ DOMAIN ev = 1..Len(ev) /\ \A i \in 1..Len(ev) : ev[i] \in Pieces
  BY ElementOfSeq, LenProperties
<1>2. \A i \in 1..Len(ev) : Shows(ev[i]) \in Texts /\ Wrote(ev[i]) \in Texts
  BY <1>1, PieceTexts
<1> DEFINE n == Len(ev)
<1>3. ShownPieces(ev) = [i \in 1..n |-> Shows(ev[i])] /\ WrittenPieces(ev) = [i \in 1..n |-> Wrote(ev[i])]
  BY <1>1 DEF ShownPieces, WrittenPieces
<1>4. [i \in 1..n |-> Shows(ev[i])] \in [1..n -> Texts] /\ [i \in 1..n |-> Wrote(ev[i])] \in [1..n -> Texts]
  BY <1>2
<1>5. n \in Nat
  BY <1>1
<1> HIDE DEF n
<1>6. ShownPieces(ev) \in Seq(Texts) /\ WrittenPieces(ev) \in Seq(Texts)
  BY <1>3, <1>4, <1>5
<1>7. Len(ShownPieces(ev)) = n /\ Len(WrittenPieces(ev)) = n
  BY <1>3, <1>5
<1>8. \A i \in 1..n : ShownPieces(ev)[i] = Shows(ev[i]) /\ WrittenPieces(ev)[i] = Wrote(ev[i])
  BY <1>3, Zenon
<1>9. QED
  BY <1>6, <1>7, <1>8 DEF n

\* More pieces show and stand for more text.
LEMMA PiecesGrow ==
  ASSUME NEW ev \in Seq(Pieces), NEW more \in Seq(Pieces)
  PROVE  /\ TextOf(ev) \in Texts /\ Written(ev) \in Texts
         /\ TextOf(ev \o more) = TextOf(ev) \o TextOf(more)
         /\ Written(ev \o more) = Written(ev) \o Written(more)
<1>1. /\ ev \o more \in Seq(Pieces) /\ Len(ev \o more) = Len(ev) + Len(more)
      /\ \A i \in 1..(Len(ev) + Len(more)) :
           (ev \o more)[i] = IF i <= Len(ev) THEN ev[i] ELSE more[i - Len(ev)]
  BY ConcatProperties
<1>2. \A e \in Seq(Pieces) : TextOf(e) = FlattenSeq(ShownPieces(e)) /\ Written(e) = FlattenSeq(WrittenPieces(e))
  BY DEF TextOf, Written, ShownPieces, WrittenPieces, Shows, Wrote
<1>3. ShownPieces(ev \o more) = ShownPieces(ev) \o ShownPieces(more)
  <2> DEFINE s == ShownPieces(ev \o more)
             a == ShownPieces(ev)
             b == ShownPieces(more)
  <2>1. s \in Seq(Texts) /\ a \in Seq(Texts) /\ b \in Seq(Texts)
    BY <1>1, PiecesOf
  <2>2. Len(s) = Len(ev) + Len(more) /\ Len(a) = Len(ev) /\ Len(b) = Len(more)
    BY <1>1, PiecesOf
  <2>3. \A i \in 1..(Len(ev) + Len(more)) : s[i] = IF i <= Len(a) THEN a[i] ELSE b[i - Len(a)]
    <3> TAKE i \in 1..(Len(ev) + Len(more))
    <3>0. Len(ev) \in Nat /\ Len(more) \in Nat
      OBVIOUS
    <3>1. s[i] = Shows((ev \o more)[i])
      BY <1>1, PiecesOf
    <3>2. CASE i <= Len(ev)
      <4>1. i \in 1..Len(ev)
        BY <3>0, <3>2
      <4>2. a[i] = Shows(ev[i])
        BY <4>1, PiecesOf
      <4>3. QED
        BY <1>1, <2>2, <3>1, <3>2, <4>2
    <3>3. CASE ~(i <= Len(ev))
      <4>1. i - Len(ev) \in 1..Len(more)
        BY <3>0, <3>3
      <4>2. b[i - Len(ev)] = Shows(more[i - Len(ev)])
        BY <4>1, PiecesOf
      <4>3. QED
        BY <1>1, <2>2, <3>1, <3>3, <4>2
    <3>4. QED
      BY <3>2, <3>3
  <2> HIDE DEF s, a, b
  <2>4. /\ a \o b \in Seq(Texts) /\ Len(a \o b) = Len(a) + Len(b)
        /\ \A i \in 1..(Len(a) + Len(b)) : (a \o b)[i] = IF i <= Len(a) THEN a[i] ELSE b[i - Len(a)]
    BY <2>1, ConcatProperties
  <2>5. s = a \o b
    BY <2>1, <2>2, <2>3, <2>4, SeqEqual
  <2>6. QED
    BY <2>5 DEF s, a, b
<1>4. WrittenPieces(ev \o more) = WrittenPieces(ev) \o WrittenPieces(more)
  <2> DEFINE s == WrittenPieces(ev \o more)
             a == WrittenPieces(ev)
             b == WrittenPieces(more)
  <2>1. s \in Seq(Texts) /\ a \in Seq(Texts) /\ b \in Seq(Texts)
    BY <1>1, PiecesOf
  <2>2. Len(s) = Len(ev) + Len(more) /\ Len(a) = Len(ev) /\ Len(b) = Len(more)
    BY <1>1, PiecesOf
  <2>3. \A i \in 1..(Len(ev) + Len(more)) : s[i] = IF i <= Len(a) THEN a[i] ELSE b[i - Len(a)]
    <3> TAKE i \in 1..(Len(ev) + Len(more))
    <3>0. Len(ev) \in Nat /\ Len(more) \in Nat
      OBVIOUS
    <3>1. s[i] = Wrote((ev \o more)[i])
      BY <1>1, PiecesOf
    <3>2. CASE i <= Len(ev)
      <4>1. i \in 1..Len(ev)
        BY <3>0, <3>2
      <4>2. a[i] = Wrote(ev[i])
        BY <4>1, PiecesOf
      <4>3. QED
        BY <1>1, <2>2, <3>1, <3>2, <4>2
    <3>3. CASE ~(i <= Len(ev))
      <4>1. i - Len(ev) \in 1..Len(more)
        BY <3>0, <3>3
      <4>2. b[i - Len(ev)] = Wrote(more[i - Len(ev)])
        BY <4>1, PiecesOf
      <4>3. QED
        BY <1>1, <2>2, <3>1, <3>3, <4>2
    <3>4. QED
      BY <3>2, <3>3
  <2> HIDE DEF s, a, b
  <2>4. /\ a \o b \in Seq(Texts) /\ Len(a \o b) = Len(a) + Len(b)
        /\ \A i \in 1..(Len(a) + Len(b)) : (a \o b)[i] = IF i <= Len(a) THEN a[i] ELSE b[i - Len(a)]
    BY <2>1, ConcatProperties
  <2>5. s = a \o b
    BY <2>1, <2>2, <2>3, <2>4, SeqEqual
  <2>6. QED
    BY <2>5 DEF s, a, b
<1>5. /\ ShownPieces(ev) \in Seq(Seq(Symbols)) /\ ShownPieces(more) \in Seq(Seq(Symbols))
      /\ WrittenPieces(ev) \in Seq(Seq(Symbols)) /\ WrittenPieces(more) \in Seq(Seq(Symbols))
  BY PiecesOf, Zenon DEF Texts
<1>6. /\ TextOf(ev) = FlattenSeq(ShownPieces(ev)) /\ TextOf(more) = FlattenSeq(ShownPieces(more))
      /\ TextOf(ev \o more) = FlattenSeq(ShownPieces(ev \o more))
      /\ Written(ev) = FlattenSeq(WrittenPieces(ev)) /\ Written(more) = FlattenSeq(WrittenPieces(more))
      /\ Written(ev \o more) = FlattenSeq(WrittenPieces(ev \o more))
  BY <1>1, <1>2, Zenon
<1> DEFINE p == ShownPieces(ev)
           q == ShownPieces(more)
           r == WrittenPieces(ev)
           t == WrittenPieces(more)
<1>7. p \in Seq(Seq(Symbols)) /\ q \in Seq(Seq(Symbols)) /\ r \in Seq(Seq(Symbols)) /\ t \in Seq(Seq(Symbols))
  BY <1>5, Zenon
<1> HIDE DEF p, q, r, t
<1>8. FlattenSeq(p) \in Texts /\ FlattenSeq(p \o q) = FlattenSeq(p) \o FlattenSeq(q)
  BY <1>7, FlatConcat DEF Texts
<1>9. FlattenSeq(r) \in Texts /\ FlattenSeq(r \o t) = FlattenSeq(r) \o FlattenSeq(t)
  BY <1>7, FlatConcat DEF Texts
<1>10. QED
  BY <1>3, <1>4, <1>6, <1>8, <1>9, Zenon DEF p, q, r, t

\* The text of no piece, and of one.
LEMMA OnePiece ==
  ASSUME NEW e \in Pieces
  PROVE  /\ <<e>> \in Seq(Pieces) /\ <<>> \in Seq(Pieces)
         /\ TextOf(<<>>) = <<>> /\ Written(<<>>) = <<>>
         /\ TextOf(<<e>>) = Shows(e) /\ Written(<<e>>) = Wrote(e)
<1>1. <<e>> \in Seq(Pieces) /\ <<>> \in Seq(Pieces) /\ Len(<<e>>) = 1 /\ <<e>>[1] = e
  OBVIOUS
<1>2. TextOf(<<>>) = <<>> /\ Written(<<>>) = <<>>
  <2>1. [i \in DOMAIN <<>> |-> IF <<>>[i].kind = "text" THEN <<>>[i].body ELSE <<>>] = <<>>
    OBVIOUS
  <2>2. [i \in DOMAIN <<>> |-> IF <<>>[i].kind = "native" THEN OpenTag \o <<>>[i].body \o CloseTag ELSE <<>>[i].body] = <<>>
    OBVIOUS
  <2>3. FlattenSeq(<<>>) = <<>>
    BY DEF FlattenSeq
  <2>4. QED
    BY <2>1, <2>2, <2>3 DEF TextOf, Written
<1>3. \A ss \in Seq(Texts) : Len(ss) = 1 => FlattenSeq(ss) = ss[1]
  <2> SUFFICES ASSUME NEW ss \in Seq(Texts), Len(ss) = 1 PROVE FlattenSeq(ss) = ss[1]
    OBVIOUS
  <2>1. ss # <<>>
    OBVIOUS
  <2>2. ss \in Seq(Seq(Symbols))
    BY DEF Texts
  <2>3. PICK f \in [1..Len(ss) -> Seq(Symbols)] : f[1] = ss[1] /\ FlattenSeq(ss) = f[Len(ss)]
    BY <2>1, <2>2, FlatUnfolds
  <2>4. QED
    BY <2>3
<1>4. /\ ShownPieces(<<e>>) \in Seq(Texts) /\ WrittenPieces(<<e>>) \in Seq(Texts)
      /\ Len(ShownPieces(<<e>>)) = 1 /\ Len(WrittenPieces(<<e>>)) = 1
      /\ ShownPieces(<<e>>)[1] = Shows(e) /\ WrittenPieces(<<e>>)[1] = Wrote(e)
  <2>1. 1 \in 1..Len(<<e>>)
    BY <1>1
  <2>2. QED
    BY <1>1, <2>1, PiecesOf
<1>5. TextOf(<<e>>) = FlattenSeq(ShownPieces(<<e>>)) /\ Written(<<e>>) = FlattenSeq(WrittenPieces(<<e>>))
  BY DEF TextOf, Written, ShownPieces, WrittenPieces, Shows, Wrote
<1>6. QED
  BY <1>1, <1>2, <1>3, <1>4, <1>5

-----------------------------------------------------------------------------
(* The parser of a stream: what it has yielded and what it holds back are together
   what it has read. *)

Parsers == [text : Texts, inside : BOOLEAN, tool : Texts, out : Seq(Pieces)]

\* Nothing is held back in front of a call that is open.
WellKept(p) == p \in Parsers /\ (p.inside => p.text = <<>>)

Unread(p) == IF p.inside THEN OpenTag \o p.tool ELSE p.text
Raw(p) == Written(p.out) \o Unread(p)

\* From p to q the parser reads c; none of what it yields is a call of the server's own.
InText == {e \in Pieces : e.call = 0}
Reads(p, q, c) ==
  /\ WellKept(q)
  /\ \E more \in Seq(InText) : q.out = p.out \o more
  /\ Raw(q) = Raw(p) \o c

\* A text is what stands before a tag, the tag and what stands behind it.
LEMMA TagParts ==
  ASSUME NEW s \in Texts, NEW tag \in Texts, Has(s, tag)
  PROVE  /\ BeforeTag(s, tag) \in Texts /\ AfterTag(s, tag) \in Texts
         /\ (BeforeTag(s, tag) \o tag) \o AfterTag(s, tag) = s
         /\ Len(BeforeTag(s, tag)) + Len(tag) + Len(AfterTag(s, tag)) = Len(s)
<1>1. Len(s) \in Nat /\ Len(tag) \in Nat
  BY DEF Texts
<1> DEFINE k == Min(Places(s, tag))
<1>2. k \in Places(s, tag)
  <2>1. Places(s, tag) \in SUBSET Nat /\ Places(s, tag) # {}
    <3>1. Places(s, tag) \subseteq 0..Len(s) /\ Places(s, tag) # {}
      BY Zenon DEF Places, Has
    <3>2. QED
      BY <1>1, <3>1
  <2>2. PICK least \in Places(s, tag) : \A n \in Places(s, tag) : least <= n
    BY <2>1, LeastNumber
  <2>3. QED
    BY <2>2 DEF Min
<1> HIDE DEF k
<1>3. k \in 0..Len(s) /\ k + Len(tag) <= Len(s) /\ SubSeq(s, k + 1, k + Len(tag)) = tag
  BY <1>2 DEF Places
<1>4. BeforeTag(s, tag) = SubSeq(s, 1, k) /\ AfterTag(s, tag) = SubSeq(s, k + Len(tag) + 1, Len(s))
  BY DEF BeforeTag, AfterTag, k
<1>5. /\ SubSeq(s, 1, k) \in Texts /\ Len(SubSeq(s, 1, k)) = k
      /\ SubSeq(s, k + Len(tag) + 1, Len(s)) \in Texts
      /\ Len(SubSeq(s, k + Len(tag) + 1, Len(s))) = Len(s) - (k + Len(tag))
  <2>1. \A i \in 1..Len(s) : s[i] \in Symbols
    BY DEF Texts
  <2>2. (\A i \in 1..k : s[i] \in Symbols) /\ \A i \in (k + Len(tag) + 1)..Len(s) : s[i] \in Symbols
    BY <1>1, <1>3, <2>1
  <2>3. SubSeq(s, 1, k) \in Seq(Symbols) /\ Len(SubSeq(s, 1, k)) = IF 1 <= k THEN k - 1 + 1 ELSE 0
    BY <1>3, <2>2, SubSeqProperties
  <2>4. /\ SubSeq(s, k + Len(tag) + 1, Len(s)) \in Seq(Symbols)
        /\ Len(SubSeq(s, k + Len(tag) + 1, Len(s))) =
             IF k + Len(tag) + 1 <= Len(s) THEN Len(s) - (k + Len(tag) + 1) + 1 ELSE 0
    BY <1>1, <1>3, <2>2, SubSeqProperties
  <2>5. QED
    BY <1>1, <1>3, <2>3, <2>4 DEF Texts
<1>6. SubSeq(s, 1, k) \o SubSeq(s, k + 1, k + Len(tag)) = SubSeq(s, 1, k + Len(tag))
  <2>1. 1 \in 1..(Len(s) + 1) /\ k \in 1 - 1 .. Len(s) /\ k + Len(tag) \in k..Len(s)
    BY <1>1, <1>3
  <2>2. s \in Seq(Symbols)
    BY DEF Texts
  <2>3. QED
    BY <2>1, <2>2, ConcatAdjacentSubSeq
<1>7. SubSeq(s, 1, k + Len(tag)) \o SubSeq(s, k + Len(tag) + 1, Len(s)) = SubSeq(s, 1, Len(s))
  <2>1. /\ 1 \in 1..(Len(s) + 1) /\ k + Len(tag) \in 1 - 1 .. Len(s)
        /\ Len(s) \in k + Len(tag) .. Len(s)
    BY <1>1, <1>3
  <2>2. s \in Seq(Symbols)
    BY DEF Texts
  <2>3. QED
    BY <2>1, <2>2, ConcatAdjacentSubSeq
<1>8. SubSeq(s, 1, Len(s)) = s
  BY SubSeqFull DEF Texts
<1>9. (BeforeTag(s, tag) \o tag) \o AfterTag(s, tag) = s
  BY <1>3, <1>4, <1>6, <1>7, <1>8, Zenon
<1>10. /\ BeforeTag(s, tag) \in Texts /\ AfterTag(s, tag) \in Texts
       /\ Len(BeforeTag(s, tag)) = k /\ Len(AfterTag(s, tag)) = Len(s) - (k + Len(tag))
  BY <1>4, <1>5, Zenon
<1>11. Len(BeforeTag(s, tag)) + Len(tag) + Len(AfterTag(s, tag)) = Len(s)
  BY <1>1, <1>3, <1>10
<1>12. QED
  BY <1>9, <1>10, <1>11, Zenon

LEMMA ReadsAll ==
  ASSUME NEW p, NEW q, NEW r, NEW c \in Texts, NEW d \in Texts,
         WellKept(p), Reads(p, q, c), Reads(q, r, d)
  PROVE  Reads(p, r, c \o d)
<1>1. PICK one \in Seq(InText) : q.out = p.out \o one
  BY DEF Reads
<1>2. PICK two \in Seq(InText) : r.out = q.out \o two
  BY DEF Reads
<1>3. one \in Seq(Pieces) /\ two \in Seq(Pieces) /\ p.out \in Seq(Pieces)
  <2>1. InText \subseteq Pieces
    BY DEF InText
  <2>2. QED
    BY <2>1, SeqMonotonic DEF WellKept, Parsers
<1>4. r.out = p.out \o (one \o two)
  <2> DEFINE x == p.out
  <2>1. x \in Seq(Pieces)
    BY <1>3
  <2> HIDE DEF x
  <2>2. (x \o one) \o two = x \o (one \o two)
    <3>1. Associates(Pieces)
      BY Associative, Zenon
    <3>2. QED
      BY <1>3, <2>1, <3>1, Zenon DEF Associates
  <2>3. QED
    BY <1>1, <1>2, <2>2, Zenon DEF x
<1>5. one \o two \in Seq(InText)
  BY ConcatProperties
<1>6. Raw(r) = (Raw(p) \o c) \o d
  BY Zenon DEF Reads
<1>7. Raw(p) \in Texts
  <2>1. Written(p.out) \in Texts
    BY <1>3, PiecesGrow
  <2>2. Unread(p) \in Texts
    BY TagTypes, TextsJoin DEF WellKept, Parsers, Unread
  <2>3. QED
    BY <2>1, <2>2, TextsJoin DEF Raw
<1>8. (Raw(p) \o c) \o d = Raw(p) \o (c \o d)
  <2> DEFINE w == Raw(p)
  <2>1. w \in Texts
    BY <1>7
  <2> HIDE DEF w
  <2>2. (w \o c) \o d = w \o (c \o d)
    <3>1. Regroups(w, c, d)
      BY <2>1, AllRegroup, Zenon
    <3>2. QED
      BY <3>1, Zenon DEF Regroups
  <2>3. QED
    BY <2>2 DEF w
<1>9. WellKept(r)
  BY DEF Reads
<1>10. QED
  BY <1>4, <1>5, <1>6, <1>8, <1>9, Zenon DEF Reads

\* The order of five texts that are joined.
FiveRegroup(w, o, b, c, a) == (w \o ((o \o b) \o c)) \o a = w \o (o \o ((b \o c) \o a))

LEMMA JoinedFive ==
  \A w, o, b, c, a \in Texts : FiveRegroup(w, o, b, c, a)
<1> TAKE w, o, b, c, a \in Texts
<1>1. /\ Regroups(w, (o \o b) \o c, a) /\ Regroups(o \o b, c, a)
      /\ Regroups(o, b, c \o a) /\ Regroups(b, c, a)
  <2>1. o \o b \in Texts /\ c \o a \in Texts
    BY TextsJoin
  <2>2. (o \o b) \o c \in Texts
    BY <2>1, TextsJoin
  <2>3. QED
    BY <2>1, <2>2, AllRegroup, Zenon
<1>2. QED
  BY <1>1, Zenon DEF Regroups, FiveRegroup

\* Yielding one piece.
LEMMA OneMore ==
  ASSUME NEW ev \in Seq(Pieces), NEW e \in Pieces
  PROVE  /\ Append(ev, e) = ev \o <<e>> /\ Append(ev, e) \in Seq(Pieces)
         /\ TextOf(Append(ev, e)) = TextOf(ev) \o Shows(e)
         /\ Written(Append(ev, e)) = Written(ev) \o Wrote(e)
<1>1. Append(ev, e) = ev \o <<e>> /\ Append(ev, e) \in Seq(Pieces)
  BY AppendIsConcat, AppendProperties
<1> DEFINE m == <<e>>
<1>2. m \in Seq(Pieces) /\ TextOf(m) = Shows(e) /\ Written(m) = Wrote(e)
  BY OnePiece
<1>3. Append(ev, e) = ev \o m
  BY <1>1
<1> HIDE DEF m
<1>4. TextOf(ev \o m) = TextOf(ev) \o TextOf(m) /\ Written(ev \o m) = Written(ev) \o Written(m)
  BY <1>2, PiecesGrow
<1>5. QED
  BY <1>1, <1>2, <1>3, <1>4, Zenon

LEMMA ClosingReads ==
  ASSUME NEW p, WellKept(p), p.inside
  PROVE  Reads(p, Closing(p), <<>>)
<1>1. p.tool \in Texts /\ p.text = <<>> /\ p.out \in Seq(Pieces) /\ p \in Parsers
  BY DEF WellKept, Parsers
<1> DEFINE w == Written(p.out)
           b == BeforeTag(p.tool, CloseTag)
           a == AfterTag(p.tool, CloseTag)
<1>2. w \in Texts /\ OpenTag \in Texts /\ CloseTag \in Texts /\ <<>> \in Texts
  BY <1>1, PiecesGrow, TagTypes, TextsJoin
<1>3. Raw(p) \in Texts /\ Raw(p) = w \o (OpenTag \o p.tool)
  BY <1>1, <1>2, TextsJoin DEF Raw, Unread
<1>4. CASE ~Has(p.tool, CloseTag)
  <2>1. Closing(p) = p
    BY <1>4 DEF Closing
  <2>2. Raw(p) = Raw(p) \o <<>>
    BY <1>3, TextsJoin
  <2>3. p.out = p.out \o <<>> /\ <<>> \in Seq(InText)
    BY <1>1, ConcatEmptySeq, EmptySeq
  <2>4. QED
    BY <2>1, <2>2, <2>3, Zenon DEF Reads
<1>5. CASE Has(p.tool, CloseTag)
  <2> DEFINE q == Closing(p)
  <2>1. b \in Texts /\ a \in Texts /\ (b \o CloseTag) \o a = p.tool
    BY <1>1, <1>2, <1>5, TagParts
  <2>2. q = [text |-> p.text \o a, inside |-> FALSE, tool |-> <<>>, out |-> Append(p.out, Between(b))]
    BY <1>5 DEF Closing
  <2>3. p.text \o a = a
    BY <1>1, <2>1, TextsJoin
  <2> HIDE DEF q, b, a, w
  <2>4. OpenTag \o b \in Texts /\ (OpenTag \o b) \o CloseTag \in Texts
    BY <1>2, <2>1, TextsJoin
  <2>5. Between(b) \in InText /\ Between(b) \in Pieces /\ Wrote(Between(b)) = (OpenTag \o b) \o CloseTag
    BY <2>1, <2>4, PieceTypes DEF Between, Wrote, InText
  <2>6. q.out = p.out \o <<Between(b)>> /\ q.out \in Seq(Pieces) /\ Written(q.out) = w \o ((OpenTag \o b) \o CloseTag)
    BY <1>1, <2>2, <2>5, OneMore DEF w
  <2>7. WellKept(q)
    BY <1>2, <2>1, <2>2, <2>3, <2>6 DEF WellKept, Parsers
  <2>8. Raw(q) = (w \o ((OpenTag \o b) \o CloseTag)) \o a
    BY <2>2, <2>3, <2>6 DEF Raw, Unread
  <2>9. Raw(q) = Raw(p)
    <3>1. (w \o ((OpenTag \o b) \o CloseTag)) \o a = w \o (OpenTag \o ((b \o CloseTag) \o a))
      <4>1. FiveRegroup(w, OpenTag, b, CloseTag, a)
        BY <1>2, <2>1, JoinedFive, Zenon
      <4>2. QED
        BY <4>1, Zenon DEF FiveRegroup
    <3>2. QED
      BY <1>3, <2>1, <2>8, <3>1, Zenon
  <2>10. Raw(q) = Raw(p) \o <<>>
    BY <1>3, <2>9, TextsJoin
  <2>11. <<Between(b)>> \in Seq(InText)
    BY <2>5
  <2>12. Reads(p, q, <<>>)
    BY <2>6, <2>7, <2>10, <2>11, Zenon DEF Reads
  <2>13. QED
    BY <2>12 DEF q
<1>6. QED
  BY <1>4, <1>5

LEMMA OpeningReads ==
  ASSUME NEW p, WellKept(p), ~p.inside, Has(p.text, OpenTag)
  PROVE  Reads(p, Opening(p), <<>>)
<1>1. p.text \in Texts /\ p.out \in Seq(Pieces) /\ p \in Parsers
  BY DEF WellKept, Parsers
<1> DEFINE w == Written(p.out)
           b == BeforeTag(p.text, OpenTag)
           a == AfterTag(p.text, OpenTag)
           new == IF b = <<>> THEN p.out ELSE Append(p.out, Text(b))
           q == [text |-> <<>>, inside |-> TRUE, tool |-> a, out |-> new]
<1>2. w \in Texts /\ OpenTag \in Texts /\ <<>> \in Texts
  BY <1>1, PiecesGrow, TagTypes, TextsJoin
<1>3. b \in Texts /\ a \in Texts /\ (b \o OpenTag) \o a = p.text
  BY <1>1, <1>2, TagParts
<1>4. Opening(p) = Closing(q)
  BY DEF Opening
<1>5. /\ new \in Seq(Pieces) /\ Written(new) = w \o b
      /\ \E more \in Seq(InText) : new = p.out \o more
  <2> HIDE DEF b, a
  <2>1. CASE b = <<>>
    <3>1. new = p.out /\ p.out = p.out \o <<>> /\ <<>> \in Seq(InText)
      BY <1>1, <2>1, ConcatEmptySeq, EmptySeq
    <3>2. w \o b = w
      BY <1>2, <2>1, TextsJoin
    <3>3. QED
      BY <1>1, <3>1, <3>2
  <2>2. CASE b # <<>>
    <3>1. Text(b) \in Pieces /\ Text(b) \in InText /\ Wrote(Text(b)) = b
      BY <1>3, PieceTypes DEF Wrote, InText
    <3>2. new = p.out \o <<Text(b)>> /\ new \in Seq(Pieces) /\ Written(new) = w \o b
      BY <1>1, <2>2, <3>1, OneMore
    <3>3. <<Text(b)>> \in Seq(InText)
      BY <3>1
    <3>4. QED
      BY <3>2, <3>3, Zenon
  <2>3. QED
    BY <2>1, <2>2
<1>6. q.inside /\ q.text = <<>> /\ q.tool = a /\ q.out = new
  OBVIOUS
<1>7. WellKept(q)
  BY <1>2, <1>3, <1>5 DEF WellKept, Parsers
<1> HIDE DEF w, b, a, new, q
<1>8. Raw(p) = w \o ((b \o OpenTag) \o a) /\ Raw(q) = (w \o b) \o (OpenTag \o a)
  BY <1>3, <1>5, <1>6 DEF Raw, Unread, w
<1>9. Raw(q) = Raw(p) \o <<>>
  <2>1. (b \o OpenTag) \o a = b \o (OpenTag \o a)
    <3>1. Regroups(b, OpenTag, a)
      BY <1>2, <1>3, AllRegroup, Zenon
    <3>2. QED
      BY <3>1, Zenon DEF Regroups
  <2> DEFINE x == OpenTag \o a
  <2>2. x \in Texts
    BY <1>2, <1>3, TextsJoin
  <2>3. Raw(p) = w \o (b \o x) /\ Raw(q) = (w \o b) \o x
    BY <1>8, <2>1
  <2> HIDE DEF x
  <2>4. (w \o b) \o x = w \o (b \o x) /\ w \o b \in Texts
    <3>1. (w \o b) \o x = w \o (b \o x)
      <4>1. Regroups(w, b, x)
        BY <1>2, <1>3, <2>2, AllRegroup, Zenon
      <4>2. QED
        BY <4>1, Zenon DEF Regroups
    <3>2. w \o b \in Texts
      BY <1>2, <1>3, TextsJoin
    <3>3. QED
      BY <3>1, <3>2
  <2>5. Raw(p) = Raw(q) /\ Raw(q) \in Texts
    BY <2>2, <2>3, <2>4, TextsJoin
  <2>6. QED
    BY <2>5, TextsJoin
<1>10. Reads(p, q, <<>>)
  BY <1>5, <1>6, <1>7, <1>9, Zenon DEF Reads
<1>11. Reads(q, Closing(q), <<>>)
  BY <1>6, <1>7, ClosingReads
<1>12. Reads(p, Closing(q), <<>> \o <<>>)
  BY <1>2, <1>10, <1>11, ReadsAll
<1>13. QED
  BY <1>2, <1>4, <1>12, TextsJoin DEF q, new, a, b

LEMMA FlushReads ==
  ASSUME NEW p, WellKept(p), ~p.inside
  PROVE  Reads(p, Flush(p), <<>>)
<1>1. p.text \in Texts /\ p.out \in Seq(Pieces) /\ p \in Parsers
  BY DEF WellKept, Parsers
<1> DEFINE w == Written(p.out)
<1>2. w \in Texts /\ <<>> \in Texts /\ Len(OpenTag) = 2
  BY <1>1, PiecesGrow, TagTypes, TextsJoin
<1>3. Raw(p) = w \o p.text /\ Raw(p) \in Texts
  BY <1>1, <1>2, TextsJoin DEF Raw, Unread
<1>4. CASE Len(p.text) <= Len(OpenTag)
  <2>1. Flush(p) = p
    BY <1>4 DEF Flush
  <2>2. Raw(p) = Raw(p) \o <<>>
    BY <1>3, TextsJoin
  <2>3. p.out = p.out \o <<>> /\ <<>> \in Seq(InText)
    BY <1>1, ConcatEmptySeq, EmptySeq
  <2>4. QED
    BY <2>1, <2>2, <2>3, Zenon DEF Reads
<1>5. CASE ~(Len(p.text) <= Len(OpenTag))
  <2> DEFINE n == Len(p.text)
             k == n - Len(OpenTag)
             s == SubSeq(p.text, 1, k)
             t == SubSeq(p.text, k + 1, n)
             q == Flush(p)
  <2>1. n \in Nat /\ k \in 1..n
    BY <1>1, <1>2, <1>5 DEF Texts
  <2>2. q = [p EXCEPT !.text = SubSeq(@, k + 1, Len(@)), !.out = Append(@, Text(SubSeq(p.text, 1, k)))]
    BY <1>5, Zenon DEF Flush
  <2>3. q \in [text : {t}, inside : {p.inside}, tool : {p.tool}, out : {Append(p.out, Text(s))}]
    BY <1>1, <2>2 DEF Parsers
  <2>4. s \in Texts /\ t \in Texts
    BY <1>1, <2>1, SubSeqProperties DEF Texts
  <2>5. s \o t = p.text
    <3>1. /\ 1 \in 1..(Len(p.text) + 1) /\ k \in 1 - 1 .. Len(p.text) /\ n \in k..Len(p.text)
          /\ p.text \in Seq(Symbols)
      BY <1>1, <2>1 DEF Texts
    <3>2. s \o t = SubSeq(p.text, 1, n)
      BY <3>1, ConcatAdjacentSubSeq
    <3>3. QED
      BY <3>1, <3>2, SubSeqFull
  <2> HIDE DEF n, k, s, t, q, w
  <2>6. q.text = t /\ q.inside = p.inside /\ q.tool = p.tool /\ q.out = Append(p.out, Text(s))
    BY <2>3
  <2>7. Text(s) \in Pieces /\ Text(s) \in InText /\ Wrote(Text(s)) = s
    BY <2>4, PieceTypes DEF Wrote, InText
  <2>8. q.out = p.out \o <<Text(s)>> /\ q.out \in Seq(Pieces) /\ Written(q.out) = w \o s
    BY <1>1, <2>6, <2>7, OneMore DEF w
  <2>9. WellKept(q)
    <3>1. q \in [text : Texts, inside : BOOLEAN, tool : Texts, out : Seq(Pieces)]
      BY <1>1, <2>3, <2>4, <2>8 DEF Parsers
    <3>2. QED
      BY <2>6, <3>1 DEF WellKept, Parsers
  <2>10. Raw(q) = (w \o s) \o t
    BY <2>6, <2>8 DEF Raw, Unread
  <2>11. (w \o s) \o t = w \o (s \o t)
    <3>1. Regroups(w, s, t)
      BY <1>2, <2>4, AllRegroup, Zenon
    <3>2. QED
      BY <3>1, Zenon DEF Regroups
  <2>12. Raw(q) = Raw(p) \o <<>>
    BY <1>3, <2>5, <2>10, <2>11, TextsJoin
  <2>13. <<Text(s)>> \in Seq(InText)
    BY <2>7
  <2>14. Reads(p, q, <<>>)
    BY <2>8, <2>9, <2>12, <2>13, Zenon DEF Reads
  <2>15. QED
    BY <2>14 DEF q
<1>6. QED
  BY <1>4, <1>5

\* A chunk is read as it is.
LEMMA ChunkReads ==
  ASSUME NEW p, WellKept(p), NEW c \in Texts
  PROVE  Reads(p, Chunk(p, c), c)
<1>1. /\ p \in Parsers /\ p.text \in Texts /\ p.tool \in Texts /\ p.out \in Seq(Pieces)
      /\ p.inside \in BOOLEAN /\ (p.inside => p.text = <<>>)
  BY DEF WellKept, Parsers
<1> DEFINE q == IF p.inside THEN [p EXCEPT !.tool = @ \o c] ELSE [p EXCEPT !.text = @ \o c]
           w == Written(p.out)
<1>2. w \in Texts /\ OpenTag \in Texts /\ <<>> \in Texts
  BY <1>1, PiecesGrow, TagTypes, TextsJoin
<1>3. p.text \o c \in Texts /\ p.tool \o c \in Texts
  BY <1>1, TextsJoin
<1>4. /\ q \in Parsers /\ q.inside = p.inside /\ q.out = p.out
      /\ p.inside => q.text = p.text /\ q.tool = p.tool \o c
      /\ ~p.inside => q.text = p.text \o c
  BY <1>1, <1>3 DEF Parsers
<1>5. WellKept(q)
  BY <1>1, <1>4 DEF WellKept
<1>6. Chunk(p, c) = IF p.inside THEN Closing(q) ELSE IF Has(q.text, OpenTag) THEN Opening(q) ELSE Flush(q)
  BY DEF Chunk
<1> HIDE DEF q, w
<1>7. Raw(q) = Raw(p) \o c
  <2>1. CASE p.inside
    <3>1. Raw(p) = w \o (OpenTag \o p.tool) /\ Raw(q) = w \o (OpenTag \o (p.tool \o c))
      BY <1>4, <2>1 DEF Raw, Unread, w
    <3> DEFINE x == OpenTag \o p.tool
               t == p.tool
    <3>2. x \in Texts /\ t \in Texts
      BY <1>1, <1>2, TextsJoin
    <3>3. Raw(p) = w \o x /\ Raw(q) = w \o (OpenTag \o (t \o c)) /\ x = OpenTag \o t
      BY <3>1
    <3> HIDE DEF x, t
    <3>4. (OpenTag \o t) \o c = OpenTag \o (t \o c)
      <4>1. Regroups(OpenTag, t, c)
        BY <1>2, <3>2, AllRegroup, Zenon
      <4>2. QED
        BY <4>1, Zenon DEF Regroups
    <3>5. (w \o x) \o c = w \o (x \o c)
      <4>1. Regroups(w, x, c)
        BY <1>2, <3>2, AllRegroup, Zenon
      <4>2. QED
        BY <4>1, Zenon DEF Regroups
    <3>6. QED
      BY <3>3, <3>4, <3>5, Zenon
  <2>2. CASE ~p.inside
    <3>1. Raw(p) = w \o p.text /\ Raw(q) = w \o (p.text \o c)
      BY <1>4, <2>2 DEF Raw, Unread, w
    <3> DEFINE t == p.text
    <3>2. t \in Texts
      BY <1>1
    <3>3. Raw(p) = w \o t /\ Raw(q) = w \o (t \o c)
      BY <3>1
    <3> HIDE DEF t
    <3>4. (w \o t) \o c = w \o (t \o c)
      <4>1. Regroups(w, t, c)
        BY <1>2, <3>2, AllRegroup, Zenon
      <4>2. QED
        BY <4>1, Zenon DEF Regroups
    <3>5. QED
      BY <3>3, <3>4, Zenon
  <2>3. QED
    BY <2>1, <2>2
<1>8. Reads(p, q, c)
  <2>1. p.out = p.out \o <<>> /\ <<>> \in Seq(InText)
    BY <1>1, ConcatEmptySeq, EmptySeq
  <2>2. QED
    BY <1>4, <1>5, <1>7, <2>1, Zenon DEF Reads
<1>9. Reads(q, Chunk(p, c), <<>>)
  BY <1>4, <1>5, <1>6, ClosingReads, OpeningReads, FlushReads
<1>10. Reads(p, Chunk(p, c), c \o <<>>)
  BY <1>2, <1>8, <1>9, ReadsAll
<1>11. QED
  BY <1>10, TextsJoin

-----------------------------------------------------------------------------
(* The whole text at once.  Batch is a recursive function, whose value at a place only
   depends on those at later places. *)

BatchStep(s, from, i) ==
  LET r == SubSeq(s, i + 1, Len(s)) IN
  IF ~Has(r, OpenTag) \/ ~Has(AfterTag(r, OpenTag), CloseTag)
    THEN [text |-> r, natives |-> <<>>]
    ELSE LET before == BeforeTag(r, OpenTag)
             body == BeforeTag(AfterTag(r, OpenTag), CloseTag)
             raw == OpenTag \o body \o CloseTag
             rest == from[i + Len(before) + Len(raw)]
         IN IF Parsable(body)
              THEN [text |-> before \o rest.text, natives |-> <<body>> \o rest.natives]
              ELSE [rest EXCEPT !.text = before \o raw \o @]

Batches(s) == CHOOSE from : from = [i \in 0 .. Len(s) |-> BatchStep(s, from, i)]

LEMMA BatchUnfolds == \A s : Batch(s) = Batches(s)[0]
BY DEF Batch, Batches, BatchStep

Answers == [text : Texts, natives : Seq(Texts)]

\* The parts of a text that has a call, and the place behind the call.
LEMMA CallParts ==
  ASSUME NEW s \in Texts, NEW i \in 0..Len(s), NEW r, r = SubSeq(s, i + 1, Len(s)),
         Has(r, OpenTag), Has(AfterTag(r, OpenTag), CloseTag),
         NEW before, before = BeforeTag(r, OpenTag),
         NEW body, body = BeforeTag(AfterTag(r, OpenTag), CloseTag)
  PROVE  /\ before \in Texts /\ body \in Texts /\ OpenTag \o body \o CloseTag \in Texts
         /\ i + Len(before) + Len(OpenTag \o body \o CloseTag) \in (i + 1)..Len(s)
<1>0. Len(s) \in Nat /\ i \in Nat /\ i <= Len(s)
  BY DEF Texts
<1>1. r \in Texts /\ Len(r) = Len(s) - i
  <2>1. \A j \in (i + 1)..Len(s) : s[j] \in Symbols
    BY <1>0 DEF Texts
  <2>2. SubSeq(s, i + 1, Len(s)) \in Seq(Symbols)
        /\ Len(SubSeq(s, i + 1, Len(s))) = IF i + 1 <= Len(s) THEN Len(s) - (i + 1) + 1 ELSE 0
    BY <1>0, <2>1, SubSeqProperties
  <2>3. QED
    BY <1>0, <2>2 DEF Texts
<1> DEFINE rest == AfterTag(r, OpenTag)
           after == AfterTag(rest, CloseTag)
<1>2. before \in Texts /\ rest \in Texts /\ Len(before) + Len(OpenTag) + Len(rest) = Len(r)
  BY <1>1, TagParts, TagTypes
<1>3. body \in Texts /\ after \in Texts /\ Len(body) + Len(CloseTag) + Len(after) = Len(rest)
  BY <1>2, TagParts, TagTypes
<1>4. OpenTag \o body \in Texts /\ Len(OpenTag \o body) = 2 + Len(body)
  <2>1. OpenTag \in Texts /\ body \in Texts /\ Len(OpenTag) = 2
    BY <1>3, TagTypes, Zenon
  <2> DEFINE o == OpenTag
  <2>2. o \in Texts /\ Len(o) = 2
    BY <2>1
  <2> HIDE DEF o
  <2>3. o \o body \in Texts /\ Len(o \o body) = Len(o) + Len(body)
    BY <2>1, <2>2, JoinedLength
  <2>4. QED
    BY <2>2, <2>3, Zenon DEF o
<1> DEFINE half == OpenTag \o body
<1>5. half \o CloseTag \in Texts /\ Len(half \o CloseTag) = Len(half) + 2
  <2> HIDE DEF half
  <2>1. half \in Texts
    BY <1>4 DEF half
  <2>2. QED
    BY <2>1, TagTypes, JoinedLength
<1>6. Len(before) \in Nat /\ Len(body) \in Nat /\ Len(after) \in Nat
  BY <1>2, <1>3 DEF Texts
<1>7. Len(half \o CloseTag) = Len(body) + 4 /\ Len(before) + 2 + (Len(body) + 2 + Len(after)) = Len(s) - i
  BY <1>1, <1>2, <1>3, <1>4, <1>5, <1>6, TagTypes
<1> DEFINE raw == half \o CloseTag
           m == Len(raw)
           b == Len(before)
<1>8. i + b + m \in (i + 1)..Len(s)
  <2>1. m = Len(body) + 4 /\ b \in Nat
    BY <1>6, <1>7
  <2> HIDE DEF m, raw, half
  <2>2. QED
    BY <1>0, <1>6, <1>7, <2>1
<1>9. QED
  BY <1>2, <1>3, <1>5, <1>8

LEMMA BatchLocal ==
  ASSUME NEW s \in Texts, NEW i \in 0..Len(s), NEW g, NEW h,
         \A j \in (i + 1)..Len(s) : g[j] = h[j]
  PROVE  BatchStep(s, g, i) = BatchStep(s, h, i)
<1> DEFINE r == SubSeq(s, i + 1, Len(s))
           before == BeforeTag(r, OpenTag)
           body == BeforeTag(AfterTag(r, OpenTag), CloseTag)
           j == i + Len(before) + Len(OpenTag \o body \o CloseTag)
<1>1. CASE ~Has(r, OpenTag) \/ ~Has(AfterTag(r, OpenTag), CloseTag)
  BY <1>1, Zenon DEF BatchStep
<1>2. CASE Has(r, OpenTag) /\ Has(AfterTag(r, OpenTag), CloseTag)
  <2>1. j \in (i + 1)..Len(s)
    <3> DEFINE r1 == r
               b1 == before
               b2 == body
    <3>1. /\ r1 = SubSeq(s, i + 1, Len(s)) /\ Has(r1, OpenTag) /\ Has(AfterTag(r1, OpenTag), CloseTag)
          /\ b1 = BeforeTag(r1, OpenTag) /\ b2 = BeforeTag(AfterTag(r1, OpenTag), CloseTag)
      BY <1>2
    <3> HIDE DEF r1, b1, b2
    <3>2. i + Len(b1) + Len(OpenTag \o b2 \o CloseTag) \in (i + 1)..Len(s)
      BY <3>1, CallParts
    <3>3. QED
      BY <3>2, Zenon DEF r1, b1, b2
  <2>2. g[j] = h[j]
    BY <2>1, Zenon
  <2>3. QED
    BY <1>2, <2>2, Zenon DEF BatchStep
<1>3. QED
  BY <1>1, <1>2

LEMMA BatchTyped ==
  ASSUME NEW s \in Texts, NEW i \in 0..Len(s), NEW g,
         \A j \in (i + 1)..Len(s) : g[j] \in Answers
  PROVE  BatchStep(s, g, i) \in Answers
<1> DEFINE r == SubSeq(s, i + 1, Len(s))
           before == BeforeTag(r, OpenTag)
           body == BeforeTag(AfterTag(r, OpenTag), CloseTag)
           raw == OpenTag \o body \o CloseTag
           j == i + Len(before) + Len(raw)
<1>0. r \in Texts
  <2>0. Len(s) \in Nat /\ i \in Nat
    BY DEF Texts
  <2>1. \A k \in (i + 1)..Len(s) : s[k] \in Symbols
    BY <2>0 DEF Texts
  <2>2. QED
    BY <2>0, <2>1, SubSeqProperties DEF Texts
<1>1. CASE ~Has(r, OpenTag) \/ ~Has(AfterTag(r, OpenTag), CloseTag)
  <2>1. BatchStep(s, g, i) = [text |-> r, natives |-> <<>>]
    BY <1>1, Zenon DEF BatchStep
  <2>2. <<>> \in Seq(Texts)
    BY EmptySeq
  <2> HIDE DEF r
  <2>3. QED
    BY <1>0, <2>1, <2>2 DEF Answers
<1>2. CASE Has(r, OpenTag) /\ Has(AfterTag(r, OpenTag), CloseTag)
  <2>1. j \in (i + 1)..Len(s) /\ before \in Texts /\ body \in Texts /\ raw \in Texts
    <3> DEFINE r1 == r
               b1 == before
               b2 == body
    <3>1. /\ r1 = SubSeq(s, i + 1, Len(s)) /\ Has(r1, OpenTag) /\ Has(AfterTag(r1, OpenTag), CloseTag)
          /\ b1 = BeforeTag(r1, OpenTag) /\ b2 = BeforeTag(AfterTag(r1, OpenTag), CloseTag)
      BY <1>2
    <3> HIDE DEF r1, b1, b2
    <3>2. /\ i + Len(b1) + Len(OpenTag \o b2 \o CloseTag) \in (i + 1)..Len(s)
          /\ b1 \in Texts /\ b2 \in Texts /\ OpenTag \o b2 \o CloseTag \in Texts
      BY <3>1, CallParts
    <3>3. QED
      BY <3>2, Zenon DEF r1, b1, b2
  <2>2. g[j] \in Answers
    BY <2>1, Zenon
  <2> DEFINE rest == g[j]
  <2>3. BatchStep(s, g, i) = IF Parsable(body)
          THEN [text |-> before \o rest.text, natives |-> <<body>> \o rest.natives]
          ELSE [rest EXCEPT !.text = before \o raw \o @]
    BY <1>2, Zenon DEF BatchStep
  <2>4. rest \in Answers /\ rest.text \in Texts /\ rest.natives \in Seq(Texts)
    BY <2>2 DEF Answers
  <2> HIDE DEF r, before, body, raw, j, rest
  <2>5. before \o rest.text \in Texts /\ (before \o raw) \o rest.text \in Texts
    <3>1. before \o raw \in Texts
      BY <2>1, TextsJoin
    <3>2. QED
      BY <2>1, <2>4, <3>1, TextsJoin
  <2>6. <<body>> \o rest.natives \in Seq(Texts)
    <3>1. <<body>> \in Seq(Texts)
      BY <2>1
    <3>2. QED
      BY <2>4, <3>1, ConcatProperties
  <2>7. QED
    <3> DEFINE u == before \o raw \o rest.text
               v == before \o rest.text
               w == <<body>> \o rest.natives
    <3>1. u \in Texts /\ v \in Texts /\ w \in Seq(Texts)
      BY <2>5, <2>6, Zenon
    <3>2. BatchStep(s, g, i) = IF Parsable(body) THEN [text |-> v, natives |-> w]
                               ELSE [rest EXCEPT !.text = u]
      BY <2>3, Zenon
    <3> HIDE DEF u, v, w
    <3>3. [text |-> v, natives |-> w] \in Answers /\ [rest EXCEPT !.text = u] \in Answers
      BY <2>4, <3>1 DEF Answers
    <3>4. QED
      BY <3>2, <3>3, Zenon
<1>3. QED
  BY <1>1, <1>2

\* The equation of Batch's function from place i on.
BatchFrom(g, s, i) == g = [j \in i .. Len(s) |-> BatchStep(s, g, j)]

LEMMA BatchExists ==
  ASSUME NEW s \in Texts
  PROVE  \E g : BatchFrom(g, s, 0)
<1>0. Len(s) \in Nat
  BY DEF Texts
<1> DEFINE n == Len(s)
           T == {k \in 1..(n + 1) : \E g : BatchFrom(g, s, n + 1 - k)}
<1>1. 1 \in T
  <2> DEFINE g == [j \in n..n |-> BatchStep(s, <<>>, j)]
  <2>1. ASSUME NEW j \in n..n PROVE BatchStep(s, <<>>, j) = BatchStep(s, g, j)
    <3>1. j \in 0..Len(s) /\ \A k \in (j + 1)..Len(s) : <<>>[k] = g[k]
      BY <1>0
    <3> HIDE DEF g
    <3>2. QED
      BY <3>1, BatchLocal
  <2>2. g = [j \in n..n |-> BatchStep(s, g, j)]
    BY <2>1, Zenon
  <2> HIDE DEF g
  <2>3. BatchFrom(g, s, n)
    BY <2>2, Zenon DEF BatchFrom
  <2>4. n = n + 1 - 1 /\ 1 \in 1..(n + 1)
    BY <1>0
  <2>5. BatchFrom(g, s, n + 1 - 1)
    BY <2>3, <2>4
  <2>6. QED
    BY <2>4, <2>5, Zenon
<1>2. ASSUME NEW k \in 1..((n + 1) - 1), k \in T PROVE k + 1 \in T
  <2> DEFINE i == n + 1 - k
  <2>1. PICK g : BatchFrom(g, s, i)
    BY <1>2
  <2>2. i \in 1..n /\ n + 1 - (k + 1) = i - 1
    BY <1>0
  <2> DEFINE h == [j \in (i - 1)..n |-> IF j = i - 1 THEN BatchStep(s, g, j) ELSE g[j]]
  <2>3. ASSUME NEW j \in (i - 1)..n PROVE h[j] = BatchStep(s, h, j)
    <3>1. j \in 0..Len(s) /\ \A m \in (j + 1)..Len(s) : g[m] = h[m]
      BY <1>0, <2>2
    <3>2. h[j] = BatchStep(s, g, j)
      <4>1. CASE j = i - 1
        BY <4>1
      <4>2. CASE j # i - 1
        <5>1. j \in i..n
          BY <1>0, <2>2, <4>2
        <5>2. g[j] = BatchStep(s, g, j)
          BY <2>1, <5>1, Zenon DEF BatchFrom
        <5>3. QED
          BY <4>2, <5>2
      <4>3. QED
        BY <4>1, <4>2
    <3> HIDE DEF h
    <3>3. BatchStep(s, g, j) = BatchStep(s, h, j)
      BY <3>1, BatchLocal
    <3>4. QED
      BY <3>2, <3>3
  <2>4. h = [j \in (i - 1)..n |-> h[j]]
    OBVIOUS
  <2> HIDE DEF h
  <2>5. h = [j \in (i - 1)..n |-> BatchStep(s, h, j)]
    BY <2>3, <2>4, Zenon
  <2>6. BatchFrom(h, s, i - 1)
    BY <2>5, Zenon DEF BatchFrom
  <2>7. BatchFrom(h, s, n + 1 - (k + 1)) /\ k + 1 \in 1..(n + 1)
    BY <1>0, <2>2, <2>6
  <2>8. QED
    BY <2>7, Zenon
<1>3. 1..(n + 1) \subseteq T
  <2> HIDE DEF T
  <2>1. n + 1 \in Nat /\ n + 1 # 0
    BY <1>0
  <2>2. QED
    BY <1>1, <1>2, <2>1, AllUpTo
<1>4. n + 1 \in 1..(n + 1) /\ n + 1 - (n + 1) = 0
  BY <1>0
<1>5. QED
  BY <1>3, <1>4

\* Every value of Batch's function follows its equation and is an answer.
LEMMA BatchesAll ==
  ASSUME NEW s \in Texts
  PROVE  \A i \in 0..Len(s) : Batches(s)[i] = BatchStep(s, Batches(s), i) /\ Batches(s)[i] \in Answers
<1>0. Len(s) \in Nat
  BY DEF Texts
<1> DEFINE n == Len(s)
           g == Batches(s)
           T == {k \in 1..(n + 1) : \A i \in (n + 1 - k)..n : g[i] \in Answers}
<1>1. g = [i \in 0..n |-> BatchStep(s, g, i)]
  BY BatchExists, Zenon DEF Batches, BatchFrom
<1>2. \A i \in 0..n : g[i] = BatchStep(s, g, i)
  BY <1>1, Zenon
<1> HIDE DEF g
<1>3. 1 \in T
  <2>1. ASSUME NEW i \in (n + 1 - 1)..n PROVE g[i] \in Answers
    <3>1. i \in 0..Len(s) /\ \A j \in (i + 1)..Len(s) : g[j] \in Answers
      BY <1>0
    <3>2. BatchStep(s, g, i) \in Answers
      BY <3>1, BatchTyped
    <3>3. QED
      BY <1>2, <3>1, <3>2
  <2>2. 1 \in 1..(n + 1)
    BY <1>0
  <2>3. QED
    BY <2>1, <2>2
<1>4. ASSUME NEW k \in 1..((n + 1) - 1), k \in T PROVE k + 1 \in T
  <2>1. ASSUME NEW i \in (n + 1 - (k + 1))..n PROVE g[i] \in Answers
    <3>1. i \in 0..Len(s)
      BY <1>0
    <3>2. \A j \in (i + 1)..Len(s) : g[j] \in Answers
      <4>1. \A j \in (i + 1)..Len(s) : j \in (n + 1 - k)..n
        BY <1>0
      <4>2. QED
        BY <1>4, <4>1
    <3>3. BatchStep(s, g, i) \in Answers
      BY <3>1, <3>2, BatchTyped
    <3>4. QED
      BY <1>2, <3>1, <3>3
  <2>2. k + 1 \in 1..(n + 1)
    BY <1>0
  <2>3. QED
    BY <2>1, <2>2
<1>5. 1..(n + 1) \subseteq T
  <2> HIDE DEF T
  <2>1. n + 1 \in Nat /\ n + 1 # 0
    BY <1>0
  <2>2. QED
    BY <1>3, <1>4, <2>1, AllUpTo
<1>6. n + 1 \in 1..(n + 1) /\ n + 1 - (n + 1) = 0
  BY <1>0
<1>7. \A i \in 0..n : g[i] \in Answers
  BY <1>5, <1>6
<1>8. QED
  BY <1>2, <1>7, Zenon DEF g

LEMMA BatchText ==
  ASSUME NEW s \in Texts
  PROVE  Batch(s) \in Answers
<1>1. 0 \in 0..Len(s)
  BY DEF Texts
<1>2. QED
  BY <1>1, BatchesAll, BatchUnfolds

-----------------------------------------------------------------------------
(* Types. *)

Phases == {"setup", "failed", "ready", "request", "stream", "answered", "judging", "judged",
           "error", "complete"}
ApiKeys == {<<>>} \cup ({"context", "services", "env", "file"} \X su.names)
Instances == [name : su.names \cup {""}, class : Classes \cup {Unset}, key : ApiKeys]
Requests == [text : Texts, at : Nat, p : Parsers, came : [DOMAIN su.calls -> Nat],
             kept : [DOMAIN su.calls -> Nat], begun : Seq(DOMAIN su.calls),
             block : {0} \cup DOMAIN su.calls, done : BOOLEAN]

RegistryOK ==
  /\ su \in Setups /\ reg \in [su.names -> Classes \cup {Unset}] /\ scanned \in BOOLEAN
  /\ main \in Instances /\ judge \in Instances
RequestOK ==
  /\ call \in Requests /\ WellKept(call.p) /\ call.at <= Len(call.text)
  /\ shown \in Texts
RunOK ==
  /\ phase \in Phases /\ attempt \in 0..su.retries /\ turn \in 0..su.turns
  /\ last \in Texts /\ called \subseteq Pieces
  /\ score \in {None} \cup 0..10 /\ retried \in 0..su.decideRetries
CallTypeOK == RegistryOK /\ RequestOK /\ RunOK

\* What the assumption says of the setup of a run.
LEMMA SetupFacts ==
  ASSUME su \in Setups
  PROVE  /\ su.calls \in Seq(Nat \ {0}) /\ Len(su.calls) \in Nat
         /\ DOMAIN su.calls = 1..Len(su.calls)
         /\ \A i \in DOMAIN su.calls : i \in Nat \ {0} /\ su.calls[i] \in Nat \ {0}
         /\ su.texts \subseteq Texts /\ {su.provider, "openai"} \subseteq su.names
         /\ su.judge \in su.names \cup {""}
         /\ su.retries \in Nat /\ su.decideRetries \in Nat /\ su.turns \in Nat
         /\ su.marks \subseteq 0..10
         /\ DOMAIN su.plugins \subseteq su.names /\ DOMAIN su.entry \subseteq su.names
         /\ \A n \in DOMAIN su.plugins : su.plugins[n] \in Classes
         /\ \A n \in DOMAIN su.entry : su.entry[n] \in Classes
<1>1. /\ su.calls \in Seq(Nat \ {0})
      /\ su.texts \subseteq Texts /\ {su.provider, "openai"} \subseteq su.names
      /\ su.judge \in su.names \cup {""}
      /\ su.retries \in Nat /\ su.decideRetries \in Nat /\ su.turns \in Nat
      /\ su.marks \subseteq 0..10
      /\ DOMAIN su.plugins \subseteq su.names /\ DOMAIN su.entry \subseteq su.names
      /\ \A n \in DOMAIN su.plugins : su.plugins[n] \in Classes
      /\ \A n \in DOMAIN su.entry : su.entry[n] \in Classes
  BY LLMCallAssumption, Zenon
<1>2. /\ Len(su.calls) \in Nat /\ DOMAIN su.calls = 1..Len(su.calls)
      /\ \A i \in 1..Len(su.calls) : i \in Nat \ {0} /\ su.calls[i] \in Nat \ {0}
  <2> DEFINE s == su.calls
  <2>1. s \in Seq(Nat \ {0})
    BY <1>1, Zenon
  <2> HIDE DEF s
  <2>2. Len(s) \in Nat /\ DOMAIN s = 1..Len(s)
    BY <2>1
  <2>3. \A i \in 1..Len(s) : i \in Nat \ {0} /\ s[i] \in Nat \ {0}
    BY <2>1, <2>2, ElementOfSeq
  <2>4. QED
    BY <2>2, <2>3, Zenon DEF s
<1>3. QED
  BY <1>1, <1>2, Zenon

LEMMA EmptyFacts ==
  /\ Fresh \in Parsers /\ WellKept(Fresh) /\ Fresh.out = <<>> /\ <<>> \in Seq(Pieces)
  /\ TextOf(<<>>) = <<>> /\ Written(<<>>) = <<>> /\ Raw(Fresh) = <<>> /\ <<>> \in Texts
<1>1. <<>> \in Texts /\ <<>> \in Seq(Pieces)
  BY EmptySeq DEF Texts
<1>2. Fresh \in Parsers /\ WellKept(Fresh) /\ Fresh.out = <<>> /\ Fresh.text = <<>> /\ ~Fresh.inside
  BY <1>1 DEF Fresh, Parsers, WellKept
<1>3. TextOf(<<>>) = <<>> /\ Written(<<>>) = <<>>
  <2>1. Text(<<>>) \in Pieces
    BY <1>1, PieceTypes
  <2>2. QED
    BY <2>1, OnePiece
<1>4. Raw(Fresh) = <<>>
  BY <1>1, <1>2, <1>3, TextsJoin DEF Raw, Unread
<1>5. QED
  BY <1>1, <1>2, <1>3, <1>4

LEMMA FetchTyped ==
  ASSUME su \in Setups, NEW text \in Texts
  PROVE  /\ Fetch(text) \in Requests
         /\ Fetch(text).text = text /\ Fetch(text).at = 0 /\ Fetch(text).p = Fresh
         /\ Fetch(text).came = [i \in DOMAIN su.calls |-> 0]
         /\ Fetch(text).kept = [i \in DOMAIN su.calls |-> 0]
         /\ Fetch(text).begun = <<>> /\ Fetch(text).block = 0 /\ Fetch(text).done = FALSE
<1>1. <<>> \in Seq(DOMAIN su.calls)
  OBVIOUS
<1>2. QED
  BY <1>1, EmptyFacts DEF Fetch, Requests

LEMMA InitTyped == CallInit => CallTypeOK
<1> SUFFICES ASSUME CallInit PROVE CallTypeOK
  OBVIOUS
<1>1. su \in Setups
  BY DEF CallInit
<1>2. NoInstance \in Instances
  BY DEF NoInstance, Instances, ApiKeys
<1>3. RegistryOK
  BY <1>1, <1>2 DEF CallInit, RegistryOK
<1>4. RequestOK
  <2>1. call = Fetch(<<>>) /\ shown = <<>>
    BY DEF CallInit
  <2>2. Len(<<>>) = 0 /\ <<>> \in Texts
    BY EmptyFacts
  <2>3. QED
    <3>1. call \in Requests /\ call.text = <<>> /\ call.at = 0 /\ call.p = Fresh
      BY <1>1, <2>1, <2>2, FetchTyped
    <3>2. call.at <= Len(call.text)
      BY <2>2, <3>1
    <3>3. WellKept(call.p)
      BY <3>1, EmptyFacts
    <3>4. QED
      BY <2>1, <2>2, <3>1, <3>2, <3>3 DEF RequestOK
<1>5. RunOK
  <2>1. su.retries \in Nat /\ su.turns \in Nat /\ su.decideRetries \in Nat
    BY <1>1, SetupFacts
  <2>2. QED
    BY <2>1, EmptyFacts DEF CallInit, RunOK, Phases
<1>6. QED
  BY <1>3, <1>4, <1>5 DEF CallTypeOK

\* Looking a name up fills the registry with classes.
LEMMA RegisteredTyped ==
  ASSUME su \in Setups, NEW r \in [su.names -> Classes \cup {Unset}], NEW seen \in BOOLEAN
  PROVE  Registered(r, seen) \in [su.names -> Classes \cup {Unset}]
<1> DEFINE base == IF \A n \in DOMAIN r : r[n] = Unset
                     THEN [n \in DOMAIN r |-> IF n \in Builtins THEN BuiltinClass(n) ELSE Unset]
                     ELSE r
<1>1. DOMAIN r = su.names
  OBVIOUS
<1>2. base \in [su.names -> Classes \cup {Unset}]
  <2>1. \A n \in su.names : (IF n \in Builtins THEN BuiltinClass(n) ELSE Unset) \in Classes \cup {Unset}
    BY DEF BuiltinClass, Classes
  <2>2. QED
    BY <2>1
<1> HIDE DEF base
<1>3. Registered(r, seen) = IF seen THEN base
        ELSE [n \in DOMAIN r |-> IF n \in DOMAIN su.entry THEN su.entry[n] ELSE base[n]]
  BY DEF Registered, base
<1>4. \A n \in DOMAIN su.entry : su.entry[n] \in Classes
  BY SetupFacts, Zenon
<1>5. QED
  BY <1>1, <1>2, <1>3, <1>4

LEMMA LookedTyped ==
  ASSUME RegistryOK, NEW n \in su.names
  PROVE  /\ Looked(n) \in [su.names -> Classes \cup {Unset}]
         /\ ClassOf(n) \in Classes \cup {Unset}
<1>1. Looked(n) \in [su.names -> Classes \cup {Unset}]
  BY RegisteredTyped DEF RegistryOK, Looked
<1>2. "openai" \in su.names
  BY SetupFacts DEF RegistryOK
<1>3. QED
  BY <1>1, <1>2 DEF ClassOf

LEMMA KeyTyped ==
  ASSUME su \in Setups, NEW n \in su.names
  PROVE  Key(n, KeyPlaces) \in ApiKeys
<1> DEFINE found == {i \in DOMAIN KeyPlaces : <<KeyPlaces[i], n>> \in su.keys}
<1>1. Key(n, KeyPlaces) = IF found = {} THEN <<>> ELSE <<KeyPlaces[Min(found)], n>>
  BY DEF Key
<1>2. DOMAIN KeyPlaces = 1..3 /\ \A i \in 1..3 : KeyPlaces[i] \in {"services", "env", "file"}
  BY DEF KeyPlaces
<1>3. CASE found = {}
  BY <1>1, <1>3 DEF ApiKeys
<1>4. CASE found # {}
  <2>1. found \in SUBSET Nat /\ found \subseteq 1..3
    BY <1>2
  <2> HIDE DEF found
  <2>2. PICK least \in found : \A i \in found : least <= i
    BY <1>4, <2>1, LeastNumber
  <2>3. Min(found) \in found
    BY <2>2 DEF Min
  <2>4. KeyPlaces[Min(found)] \in {"services", "env", "file"}
    BY <1>2, <2>1, <2>3
  <2>5. QED
    BY <1>1, <1>4, <2>4 DEF ApiKeys
<1>5. QED
  BY <1>3, <1>4

\* Every step keeps the types of the registry and the instances.
LEMMA StepRegistry == CallTypeOK /\ [CallNext]_callVars => RegistryOK'
<1> SUFFICES ASSUME CallTypeOK, [CallNext]_callVars PROVE RegistryOK'
  OBVIOUS
<1>0. RegistryOK /\ su \in Setups
  BY DEF CallTypeOK, RegistryOK
<1>1. ASSUME su' = su, reg' \in [su.names -> Classes \cup {Unset}], scanned' \in BOOLEAN,
             main' \in Instances, judge' \in Instances
      PROVE  RegistryOK'
  BY <1>0, <1>1 DEF RegistryOK, Instances, ApiKeys
<1>2. CASE Register
  <2>1. PICK n \in DOMAIN su.plugins : reg' = [reg EXCEPT ![n] = su.plugins[n]]
    BY <1>2 DEF Register
  <2>2. su.plugins[n] \in Classes
    BY <1>0, SetupFacts, Zenon
  <2>3. reg' \in [su.names -> Classes \cup {Unset}]
    BY <1>0, <2>1, <2>2 DEF RegistryOK
  <2>4. QED
    BY <1>0, <1>1, <1>2, <2>3 DEF Register, RegistryOK, verdict
<1>3. CASE ListProviders
  <2>1. reg' \in [su.names -> Classes \cup {Unset}]
    BY <1>0, <1>3, RegisteredTyped DEF ListProviders, RegistryOK
  <2>2. QED
    BY <1>0, <1>1, <1>3, <2>1 DEF ListProviders, RegistryOK, verdict
<1>4. CASE Ensure
  <2>1. su.provider \in su.names
    BY <1>0, SetupFacts
  <2>2. Looked(su.provider) \in [su.names -> Classes \cup {Unset}]
        /\ ClassOf(su.provider) \in Classes \cup {Unset}
    BY <1>0, <2>1, LookedTyped
  <2>3. MainKey \in ApiKeys
    BY <1>0, <2>1, KeyTyped DEF MainKey, ApiKeys
  <2>4. [name |-> su.provider, class |-> ClassOf(su.provider), key |-> MainKey] \in Instances
    BY <2>1, <2>2, <2>3 DEF Instances
  <2>5. su' = su /\ judge' = judge
    BY <1>4 DEF Ensure, verdict
  <2>6. reg' = reg \/ reg' = Looked(su.provider)
    BY <1>4 DEF Ensure, registry
  <2>7. scanned' \in BOOLEAN
    BY <1>0, <1>4 DEF Ensure, registry, RegistryOK
  <2>8. main' = main \/ main' = [name |-> su.provider, class |-> ClassOf(su.provider), key |-> MainKey]
    BY <1>4 DEF Ensure
  <2>9. QED
    BY <1>0, <1>1, <2>2, <2>4, <2>5, <2>6, <2>7, <2>8 DEF RegistryOK
<1>5. CASE JudgeByStrategy
  BY <1>0, <1>1, <1>5 DEF JudgeByStrategy, RegistryOK, registry
<1>6. CASE JudgeOfItsOwn
  <2>1. WantsJudge => su.judge \in su.names
    BY <1>0, SetupFacts DEF WantsJudge
  <2>2. WantsJudge => /\ Looked(su.judge) \in [su.names -> Classes \cup {Unset}]
                      /\ ClassOf(su.judge) \in Classes \cup {Unset}
                      /\ JudgeKey(su.judge) \in ApiKeys
    BY <1>0, <2>1, LookedTyped, KeyTyped DEF JudgeKey
  <2>3. JudgeInstance \in Instances
    BY <1>0, <2>1, <2>2 DEF JudgeInstance, Instances, RegistryOK
  <2>4. su' = su /\ main' = main /\ judge' = JudgeInstance
        /\ reg' = IF WantsJudge THEN Looked(su.judge) ELSE reg
    BY <1>6 DEF JudgeOfItsOwn
  <2>5. scanned' \in BOOLEAN
    <3>1. scanned' = (scanned \/ (WantsJudge /\ reg[su.judge] = Unset))
      BY <1>6 DEF JudgeOfItsOwn
    <3>2. QED
      BY <3>1
  <2>6. reg' \in [su.names -> Classes \cup {Unset}]
    BY <1>0, <2>2, <2>4 DEF RegistryOK
  <2>7. QED
    BY <1>0, <1>1, <2>3, <2>4, <2>5, <2>6 DEF RegistryOK
<1>7. CASE UNCHANGED <<su, reg, scanned, main, judge>>
  BY <1>0, <1>1, <1>7 DEF RegistryOK
<1>8. ASSUME NEW k \in 1 .. Len(call.text), Content(k) PROVE UNCHANGED <<su, reg, scanned, main, judge>>
  BY <1>8 DEF Content, Yields, registry, verdict
<1>9. ASSUME NEW i \in DOMAIN su.calls, Delta(i) \/ BlockStart(i) \/ ChunkOfCall(i)
      PROVE  UNCHANGED <<su, reg, scanned, main, judge>>
  BY <1>9 DEF Delta, BlockStart, ChunkOfCall, Yields, registry, verdict
<1>10. CASE \/ Begin \/ Refused \/ Accepted \/ Whole \/ BlockDelta \/ BlockStop \/ Finish
            \/ StreamEnds \/ Cut \/ Answer \/ JudgeSkipped \/ Decide \/ OutOfTurns \/ UNCHANGED callVars
  <2>1. UNCHANGED <<su, reg, scanned, main, judge>>
    BY <1>10 DEF Begin, Refused, Accepted, Whole, BlockDelta, BlockStop, Finish, StreamEnds, Cut,
       Answer, JudgeSkipped, Decide, OutOfTurns, Yields, registry, verdict, callVars
  <2>2. QED
    BY <1>7, <2>1
<1>11. QED
  BY <1>2, <1>3, <1>4, <1>5, <1>6, <1>7, <1>8, <1>9, <1>10 DEF CallNext

-----------------------------------------------------------------------------
(* What the steps of a stream make of a request. *)

LEMMA PiecesInText == InText \subseteq Pieces /\ \A more \in Seq(InText) : more \in Seq(Pieces)
<1>1. InText \subseteq Pieces
  BY DEF InText
<1>2. QED
  BY <1>1, SeqMonotonic

LEMMA EmitTyped ==
  ASSUME NEW c \in Requests, WellKept(c.p), NEW e \in Pieces
  PROVE  /\ Emit(c, e) \in Requests /\ WellKept(Emit(c, e).p)
         /\ Emit(c, e).p.out = c.p.out \o <<e>> /\ <<e>> \in Seq(Pieces)
         /\ Emit(c, e).text = c.text /\ Emit(c, e).at = c.at /\ Emit(c, e).came = c.came
         /\ Emit(c, e).kept = c.kept /\ Emit(c, e).begun = c.begun
         /\ Emit(c, e).block = c.block /\ Emit(c, e).done = c.done
<1>1. c.p \in Parsers /\ c.p.out \in Seq(Pieces)
  BY DEF Requests, Parsers
<1> DEFINE out == Append(c.p.out, e)
           q == [c.p EXCEPT !.out = out]
<1>2. out = c.p.out \o <<e>> /\ out \in Seq(Pieces) /\ <<e>> \in Seq(Pieces)
  BY <1>1, OneMore, OnePiece
<1>3. Emit(c, e) = [c EXCEPT !.p = q]
  BY DEF Emit
<1> HIDE DEF out
<1>4. q \in Parsers /\ q.out = out /\ q.text = c.p.text /\ q.inside = c.p.inside /\ q.tool = c.p.tool
  BY <1>1, <1>2 DEF Parsers
<1> HIDE DEF q
<1>5. WellKept(q)
  BY <1>4 DEF WellKept
<1>6. /\ [c EXCEPT !.p = q] \in Requests /\ [c EXCEPT !.p = q].p = q
      /\ [c EXCEPT !.p = q].text = c.text /\ [c EXCEPT !.p = q].at = c.at
      /\ [c EXCEPT !.p = q].came = c.came /\ [c EXCEPT !.p = q].kept = c.kept
      /\ [c EXCEPT !.p = q].begun = c.begun /\ [c EXCEPT !.p = q].block = c.block
      /\ [c EXCEPT !.p = q].done = c.done
  BY <1>4 DEF Requests
<1>7. QED
  BY <1>2, <1>3, <1>4, <1>5, <1>6, Zenon

\* A request goes on: what was yielded stays.
Grows(c, d) ==
  /\ d \in Requests /\ WellKept(d.p) /\ d.at <= Len(d.text)
  /\ \E more \in Seq(Pieces) : d.p.out = c.p.out \o more

LEMMA RestOf ==
  ASSUME NEW out \in Seq(Pieces), NEW more \in Seq(Pieces)
  PROVE  SubSeq(out \o more, Len(out) + 1, Len(out \o more)) = more
<1>1. Len(out) \in Nat /\ Len(more) \in Nat
  OBVIOUS
<1>2. /\ out \o more \in Seq(Pieces) /\ Len(out \o more) = Len(out) + Len(more)
      /\ \A i \in 1..(Len(out) + Len(more)) :
           (out \o more)[i] = IF i <= Len(out) THEN out[i] ELSE more[i - Len(out)]
  BY ConcatProperties
<1> DEFINE all == out \o more
           m == Len(out)
           n == Len(more)
           s == SubSeq(all, m + 1, m + n)
<1>3. /\ all \in Seq(Pieces) /\ Len(all) = m + n
      /\ \A i \in 1..(m + n) : all[i] = IF i <= m THEN out[i] ELSE more[i - m]
  BY <1>2, Zenon
<1>4. m \in Nat /\ n \in Nat
  BY <1>1
<1> HIDE DEF all, m
<1>5. \A i \in (m + 1)..(m + n) : all[i] \in Pieces
  <2>1. \A i \in 1..Len(all) : all[i] \in Pieces
    BY <1>3, ElementOfSeq
  <2> HIDE DEF n
  <2>2. QED
    BY <1>3, <1>4, <2>1
<1>6. /\ s \in Seq(Pieces) /\ Len(s) = n
      /\ \A i \in 1..n : s[i] = all[m + 1 + i - 1]
  <2> HIDE DEF n
  <2>1. /\ s \in Seq(Pieces) /\ Len(s) = IF m + 1 <= m + n THEN m + n - (m + 1) + 1 ELSE 0
        /\ \A i \in 1 .. m + n - (m + 1) + 1 : s[i] = all[m + 1 + i - 1]
    BY <1>4, <1>5, SubSeqProperties
  <2>2. QED
    BY <1>4, <2>1
<1>7. \A i \in 1..n : s[i] = more[i]
  <2> HIDE DEF n, s
  <2> TAKE i \in 1..n
  <2>1. /\ m + 1 + i - 1 = m + i /\ m + i \in 1..(m + n) /\ ~(m + i <= m) /\ (m + i) - m = i
    BY <1>4
  <2>2. s[i] = all[m + i]
    BY <1>6, <2>1
  <2>3. all[m + i] = more[(m + i) - m]
    BY <1>3, <2>1, Zenon
  <2>4. QED
    BY <2>1, <2>2, <2>3
<1> HIDE DEF s
<1>8. s = more
  BY <1>6, <1>7, SeqEqual
<1>9. QED
  BY <1>2, <1>8, Zenon DEF s, all, m

LEMMA YieldsShow ==
  ASSUME CallTypeOK, NEW d, Yields(d), Grows(call, d), phase' = phase
  PROVE  /\ RequestOK' /\ RunOK'
         /\ shown = TextOf(call.p.out) => shown' = TextOf(call'.p.out)
<1>1. call' = d /\ su' = su
  BY DEF Yields
<1>2. PICK more \in Seq(Pieces) : d.p.out = call.p.out \o more
  BY DEF Grows
<1>3. call.p.out \in Seq(Pieces) /\ shown \in Texts
  BY DEF CallTypeOK, RequestOK, WellKept, Parsers
<1>4. shown' = shown \o TextOf(more)
  <2> DEFINE out == call.p.out
  <2>1. out \in Seq(Pieces) /\ d.p.out = out \o more
    BY <1>2, <1>3
  <2>2. shown' = shown \o TextOf(SubSeq(d.p.out, Len(out) + 1, Len(d.p.out)))
    BY DEF Yields
  <2> HIDE DEF out
  <2>3. SubSeq(out \o more, Len(out) + 1, Len(out \o more)) = more
    BY <2>1, RestOf
  <2>4. QED
    BY <2>1, <2>2, <2>3, Zenon
<1>5. TextOf(more) \in Texts /\ TextOf(call.p.out \o more) = TextOf(call.p.out) \o TextOf(more)
  BY <1>3, PiecesGrow
<1>6. shown' \in Texts
  BY <1>3, <1>4, <1>5, TextsJoin
<1>7. RequestOK'
  <2>1. Requests' = Requests
    BY <1>1 DEF Requests
  <2>2. QED
    BY <1>1, <1>6, <2>1, Zenon DEF RequestOK, Grows
<1>8. RunOK'
  <2>1. UNCHANGED <<attempt, turn, last, called, score, retried>>
    BY DEF Yields, answer, verdict
  <2>2. QED
    BY <1>1, <2>1 DEF CallTypeOK, RunOK
<1>9. QED
  BY <1>1, <1>2, <1>4, <1>5, <1>7, <1>8, Zenon

\* What changes of a request when a part of the text arrives.
LEMMA ContentGrows ==
  ASSUME CallTypeOK, NEW k \in 1 .. Len(call.text), Content(k)
  PROVE  /\ Yields(call') /\ Grows(call, call')
         /\ call'.text = call.text /\ call'.at = call.at + k
         /\ UNCHANGED <<call.came, call.kept, call.begun, call.block, call.done>>
         /\ \E more \in Seq(InText) : call'.p.out = call.p.out \o more
         /\ main.class = "openai" =>
              Raw(call'.p) = Raw(call.p) \o SubSeq(call.text, call.at + 1, call.at + k)
<1>1. /\ call \in Requests /\ WellKept(call.p) /\ call.at \in Nat /\ call.text \in Texts
      /\ call.at + k <= Len(call.text) /\ call.p \in Parsers
  BY DEF CallTypeOK, RequestOK, Requests, Content
<1>2. Len(call.text) \in Nat /\ k \in Nat
  BY <1>1 DEF Texts
<1> DEFINE chunk == SubSeq(call.text, call.at + 1, call.at + k)
           c == [call EXCEPT !.at = @ + k]
           q == Chunk(call.p, chunk)
           d == IF main.class = "openai" THEN [c EXCEPT !.p = Chunk(@, chunk)] ELSE Emit(c, Text(chunk))
<1>3. call' = d /\ Yields(call')
  <2>1. Yields(d)
    BY Zenon DEF Content
  <2>2. call' = d
    BY <2>1, Zenon DEF Yields
  <2>3. QED
    BY <2>1, <2>2, Zenon
<1>4. chunk \in Texts
  <2>1. \A i \in (call.at + 1)..(call.at + k) : call.text[i] \in Symbols
    BY <1>1, <1>2 DEF Texts
  <2>2. QED
    BY <1>1, <1>2, <2>1, SubSeqProperties DEF Texts
<1> HIDE DEF chunk
<1>5. /\ c \in Requests /\ c.p = call.p /\ c.at = call.at + k /\ c.text = call.text
      /\ c.came = call.came /\ c.kept = call.kept /\ c.begun = call.begun
      /\ c.block = call.block /\ c.done = call.done
  <2> DEFINE n == call.at + k
  <2>1. n \in Nat /\ c = [call EXCEPT !.at = n]
    BY <1>1, <1>2 DEF Requests
  <2> HIDE DEF n, c
  <2>2. /\ c \in Requests /\ c.p = call.p /\ c.at = n /\ c.text = call.text
        /\ c.came = call.came /\ c.kept = call.kept /\ c.begun = call.begun
        /\ c.block = call.block /\ c.done = call.done
    BY <1>1, <2>1 DEF Requests
  <2>3. QED
    BY <2>2, Zenon DEF n
<1> HIDE DEF c
<1>6. CASE main.class = "openai"
  <2>1. Reads(call.p, q, chunk)
    BY <1>1, <1>4, ChunkReads
  <2>2. d = [c EXCEPT !.p = q]
    BY <1>5, <1>6
  <2> HIDE DEF q, d
  <2>3. q \in Parsers
    BY <2>1 DEF Reads, WellKept
  <2>4. /\ d \in Requests /\ d.p = q /\ d.at = c.at /\ d.text = c.text /\ d.came = c.came
        /\ d.kept = c.kept /\ d.begun = c.begun /\ d.block = c.block /\ d.done = c.done
    BY <1>5, <2>2, <2>3 DEF Requests
  <2>5. PICK more \in Seq(InText) : q.out = call.p.out \o more
    BY <2>1 DEF Reads
  <2>6. d.at <= Len(d.text)
    BY <1>1, <1>5, <2>4
  <2>7. Grows(call, d)
    BY <2>1, <2>4, <2>5, <2>6, PiecesInText, Zenon DEF Grows, Reads
  <2>8. Raw(d.p) = Raw(call.p) \o chunk
    BY <2>1, <2>4, Zenon DEF Reads
  <2>9. QED
    BY <1>3, <1>5, <2>4, <2>5, <2>7, <2>8, Zenon DEF chunk
<1>7. CASE main.class # "openai"
  <2>1. d = Emit(c, Text(chunk))
    BY <1>7
  <2>2. Text(chunk) \in Pieces /\ Text(chunk) \in InText
    BY <1>4, PieceTypes DEF InText
  <2> HIDE DEF d
  <2>3. /\ d \in Requests /\ WellKept(d.p) /\ d.p.out = c.p.out \o <<Text(chunk)>>
        /\ <<Text(chunk)>> \in Seq(Pieces)
        /\ d.text = c.text /\ d.at = c.at /\ d.came = c.came
        /\ d.kept = c.kept /\ d.begun = c.begun /\ d.block = c.block /\ d.done = c.done
    BY <1>1, <1>5, <2>1, <2>2, EmitTyped
  <2>4. d.at <= Len(d.text)
    BY <1>1, <1>5, <2>3
  <2>5. <<Text(chunk)>> \in Seq(InText)
    BY <2>2
  <2>6. Grows(call, d)
    BY <1>5, <2>3, <2>4, Zenon DEF Grows
  <2>7. QED
    BY <1>3, <1>5, <1>7, <2>3, <2>5, <2>6, Zenon
<1>8. QED
  BY <1>6, <1>7

\* The steps of the calls of the server.
Unchanged(c, d) == d.text = c.text /\ d.at = c.at /\ d.done = c.done

LEMMA DeltaGrows ==
  ASSUME CallTypeOK, NEW i \in DOMAIN su.calls, Delta(i)
  PROVE  /\ Yields(call') /\ Grows(call, call') /\ Unchanged(call, call') /\ call'.p = call.p
         /\ call'.came = [call.came EXCEPT ![i] = @ + 1] /\ call'.block = call.block
         /\ call'.begun = IF call.came[i] = 0 THEN Append(call.begun, i) ELSE call.begun
         /\ call'.kept = IF call.came[i] = 0 THEN call.kept ELSE [call.kept EXCEPT ![i] = @ + 1]
<1>1. /\ call \in Requests /\ WellKept(call.p) /\ call.at <= Len(call.text)
      /\ call.p.out \in Seq(Pieces) /\ call.came \in [DOMAIN su.calls -> Nat]
      /\ call.kept \in [DOMAIN su.calls -> Nat] /\ call.begun \in Seq(DOMAIN su.calls)
  BY DEF CallTypeOK, RequestOK, Requests, Parsers
<1> DEFINE d == IF call.came[i] = 0
                  THEN [call EXCEPT !.came[i] = 1, !.begun = Append(@, i)]
                  ELSE [call EXCEPT !.came[i] = @ + 1, !.kept[i] = @ + 1]
<1>2. call' = d /\ Yields(call')
  <2>1. Yields(d)
    BY Zenon DEF Delta
  <2>2. call' = d
    BY <2>1, Zenon DEF Yields
  <2>3. QED
    BY <2>1, <2>2, Zenon
<1>3. call.came[i] \in Nat /\ call.kept[i] \in Nat
  BY <1>1
<1> DEFINE came == [call.came EXCEPT ![i] = @ + 1]
           kept == [call.kept EXCEPT ![i] = @ + 1]
           begun == Append(call.begun, i)
<1>4. came \in [DOMAIN su.calls -> Nat] /\ kept \in [DOMAIN su.calls -> Nat] /\ begun \in Seq(DOMAIN su.calls)
  <2>1. came \in [DOMAIN su.calls -> Nat]
    BY <1>1, <1>3
  <2>2. kept \in [DOMAIN su.calls -> Nat]
    BY <1>1, <1>3
  <2>3. begun \in Seq(DOMAIN su.calls)
    BY <1>1, AppendProperties
  <2>4. QED
    BY <2>1, <2>2, <2>3, Zenon
<1>5. d = IF call.came[i] = 0 THEN [call EXCEPT !.came = came, !.begun = begun]
          ELSE [call EXCEPT !.came = came, !.kept = kept]
  <2>1. CASE call.came[i] = 0
    <3>1. came = [call.came EXCEPT ![i] = 1]
      BY <2>1
    <3>2. d = [call EXCEPT !.came = [call.came EXCEPT ![i] = 1], !.begun = begun]
      BY <1>1, <2>1 DEF Requests
    <3>3. QED
      BY <2>1, <3>1, <3>2, Zenon
  <2>2. CASE call.came[i] # 0
    BY <1>1, <2>2 DEF Requests
  <2>3. QED
    BY <2>1, <2>2, Zenon
<1> HIDE DEF came, kept, begun, d
<1>6. /\ d \in Requests /\ d.p = call.p /\ d.text = call.text /\ d.at = call.at /\ d.done = call.done
      /\ d.came = came /\ d.block = call.block
      /\ d.begun = IF call.came[i] = 0 THEN begun ELSE call.begun
      /\ d.kept = IF call.came[i] = 0 THEN call.kept ELSE kept
  BY <1>1, <1>4, <1>5 DEF Requests
<1>7. Grows(call, d)
  <2>1. call.p.out = call.p.out \o <<>> /\ <<>> \in Seq(Pieces)
    BY <1>1, ConcatEmptySeq, EmptySeq
  <2>2. QED
    BY <1>1, <1>6, <2>1, Zenon DEF Grows
<1>8. QED
  BY <1>2, <1>6, <1>7, Zenon DEF Unchanged, came, kept, begun

LEMMA BlockGrows ==
  ASSUME CallTypeOK, NEW i \in DOMAIN su.calls, BlockStart(i)
  PROVE  /\ Yields(call') /\ Grows(call, call') /\ Unchanged(call, call') /\ call'.p = call.p
         /\ call'.came = [call.came EXCEPT ![i] = 1] /\ call'.block = i
         /\ call'.begun = call.begun /\ call'.kept = call.kept
<1>1. /\ call \in Requests /\ WellKept(call.p) /\ call.at <= Len(call.text)
      /\ call.p.out \in Seq(Pieces) /\ call.came \in [DOMAIN su.calls -> Nat]
  BY DEF CallTypeOK, RequestOK, Requests, Parsers
<1> DEFINE d == [call EXCEPT !.block = i, !.came[i] = 1]
<1>2. call' = d /\ Yields(call')
  <2>1. Yields(d)
    BY Zenon DEF BlockStart
  <2>2. call' = d
    BY <2>1, Zenon DEF Yields
  <2>3. QED
    BY <2>1, <2>2, Zenon
<1> DEFINE came == [call.came EXCEPT ![i] = 1]
<1>3. came \in [DOMAIN su.calls -> Nat]
  BY <1>1
<1>4. d = [call EXCEPT !.block = i, !.came = came]
  BY <1>1 DEF Requests
<1> HIDE DEF came, d
<1>5. /\ d \in Requests /\ d.p = call.p /\ d.text = call.text /\ d.at = call.at /\ d.done = call.done
      /\ d.came = came /\ d.block = i /\ d.begun = call.begun /\ d.kept = call.kept
  BY <1>1, <1>3, <1>4 DEF Requests
<1>6. Grows(call, d)
  <2>1. call.p.out = call.p.out \o <<>> /\ <<>> \in Seq(Pieces)
    BY <1>1, ConcatEmptySeq, EmptySeq
  <2>2. QED
    BY <1>1, <1>5, <2>1, Zenon DEF Grows
<1>7. QED
  BY <1>2, <1>5, <1>6, Zenon DEF Unchanged, came

LEMMA BlockDeltaGrows ==
  ASSUME CallTypeOK, BlockDelta
  PROVE  /\ Yields(call') /\ Grows(call, call') /\ Unchanged(call, call') /\ call'.p = call.p
         /\ call.block \in DOMAIN su.calls
         /\ call'.came = [call.came EXCEPT ![call.block] = @ + 1]
         /\ call'.kept = [call.kept EXCEPT ![call.block] = @ + 1]
         /\ call'.block = call.block /\ call'.begun = call.begun
<1>1. /\ call \in Requests /\ WellKept(call.p) /\ call.at <= Len(call.text)
      /\ call.p.out \in Seq(Pieces) /\ call.came \in [DOMAIN su.calls -> Nat]
      /\ call.kept \in [DOMAIN su.calls -> Nat] /\ call.block \in DOMAIN su.calls
  BY DEF CallTypeOK, RequestOK, Requests, Parsers, BlockDelta
<1> DEFINE i == call.block
           d == [call EXCEPT !.came[call.block] = @ + 1, !.kept[call.block] = @ + 1]
<1>2. call' = d /\ Yields(call')
  <2>1. Yields(d)
    BY Zenon DEF BlockDelta
  <2>2. call' = d
    BY <2>1, Zenon DEF Yields
  <2>3. QED
    BY <2>1, <2>2, Zenon
<1> DEFINE came == [call.came EXCEPT ![i] = @ + 1]
           kept == [call.kept EXCEPT ![i] = @ + 1]
<1>3. came \in [DOMAIN su.calls -> Nat] /\ kept \in [DOMAIN su.calls -> Nat]
  BY <1>1
<1>4. d = [call EXCEPT !.came = came, !.kept = kept]
  BY <1>1 DEF Requests
<1> HIDE DEF came, kept, d
<1>5. /\ d \in Requests /\ d.p = call.p /\ d.text = call.text /\ d.at = call.at /\ d.done = call.done
      /\ d.came = came /\ d.block = call.block /\ d.begun = call.begun /\ d.kept = kept
  BY <1>1, <1>3, <1>4 DEF Requests
<1>6. Grows(call, d)
  <2>1. call.p.out = call.p.out \o <<>> /\ <<>> \in Seq(Pieces)
    BY <1>1, ConcatEmptySeq, EmptySeq
  <2>2. QED
    BY <1>1, <1>5, <2>1, Zenon DEF Grows
<1>7. QED
  BY <1>1, <1>2, <1>5, <1>6, Zenon DEF Unchanged, came, kept, i

LEMMA BlockStopGrows ==
  ASSUME CallTypeOK, BlockStop
  PROVE  /\ Yields(call') /\ Grows(call, call') /\ Unchanged(call, call')
         /\ call.block \in DOMAIN su.calls
         /\ call'.p.out = call.p.out \o <<Call(call.block, call.kept[call.block])>>
         /\ UNCHANGED <<call.came, call.kept, call.begun>> /\ call'.block = 0
<1>1. /\ call \in Requests /\ WellKept(call.p) /\ call.at <= Len(call.text)
      /\ call.kept \in [DOMAIN su.calls -> Nat] /\ call.block \in DOMAIN su.calls
      /\ su \in Setups
  BY DEF CallTypeOK, RegistryOK, RequestOK, Requests, BlockStop
<1> DEFINE e == Call(call.block, call.kept[call.block])
           c == [call EXCEPT !.block = 0]
           d == Emit(c, e)
<1>2. call' = d /\ Yields(call')
  <2>1. Yields(d)
    BY Zenon DEF BlockStop
  <2>2. call' = d
    BY <2>1, Zenon DEF Yields
  <2>3. QED
    BY <2>1, <2>2, Zenon
<1>3. e \in Pieces
  <2>1. call.block \in Nat /\ call.kept[call.block] \in Nat /\ <<>> \in Texts
    BY <1>1, SetupFacts, EmptyFacts
  <2>2. QED
    BY <2>1, PieceTypes
<1>4. /\ c \in Requests /\ c.p = call.p /\ c.text = call.text /\ c.at = call.at /\ c.done = call.done
      /\ c.came = call.came /\ c.block = 0 /\ c.begun = call.begun /\ c.kept = call.kept
  BY <1>1 DEF Requests
<1> HIDE DEF c, e
<1>5. /\ d \in Requests /\ WellKept(d.p) /\ d.p.out = c.p.out \o <<e>> /\ <<e>> \in Seq(Pieces)
      /\ d.text = c.text /\ d.at = c.at /\ d.came = c.came
      /\ d.kept = c.kept /\ d.begun = c.begun /\ d.block = c.block /\ d.done = c.done
  BY <1>1, <1>3, <1>4, EmitTyped
<1> HIDE DEF d
<1>6. d.at <= Len(d.text)
  BY <1>1, <1>4, <1>5
<1>7. Grows(call, d)
  BY <1>4, <1>5, <1>6, Zenon DEF Grows
<1>8. QED
  BY <1>1, <1>2, <1>4, <1>5, <1>7, Zenon DEF Unchanged, e

LEMMA BringsTyped ==
  ASSUME su \in Setups, NEW i \in DOMAIN su.calls, NEW k
  PROVE  /\ Brings(i, k) \in Nat /\ Call(i, Brings(i, k)) \in Pieces
         /\ su.calls[i] = 1 => Arguments(i) = Brings(i, 1)
         /\ main.class # "langchain" => Arguments(i) - Dropped(i) = su.calls[i] - 1
<1>1. i \in Nat /\ su.calls[i] \in Nat \ {0}
  BY SetupFacts
<1>2. Brings(i, k) \in Nat /\ Brings(i, 1) \in Nat
  BY DEF Brings
<1>3. Call(i, Brings(i, k)) \in Pieces
  BY <1>1, <1>2, EmptyFacts, PieceTypes
<1>4. su.calls[i] = 1 => Arguments(i) = Brings(i, 1)
  BY <1>1, <1>2 DEF Arguments
<1>5. main.class # "langchain" => Arguments(i) - Dropped(i) = su.calls[i] - 1
  BY <1>1, <1>2 DEF Arguments, Dropped
<1>6. QED
  BY <1>2, <1>3, <1>4, <1>5

LEMMA ChunkGrows ==
  ASSUME CallTypeOK, NEW i \in DOMAIN su.calls, ChunkOfCall(i)
  PROVE  /\ Yields(call') /\ Grows(call, call') /\ Unchanged(call, call')
         /\ call'.came = [call.came EXCEPT ![i] = @ + 1]
         /\ UNCHANGED <<call.kept, call.begun, call.block>>
         /\ \/ call'.p.out = call.p.out \o <<Call(i, Brings(i, call.came[i] + 1))>>
            \/ su.calls[i] > 1 /\ call'.p = call.p
<1>1. /\ call \in Requests /\ WellKept(call.p) /\ call.at <= Len(call.text)
      /\ call.came \in [DOMAIN su.calls -> Nat] /\ su \in Setups /\ call.p.out \in Seq(Pieces)
  BY DEF CallTypeOK, RegistryOK, RequestOK, Requests, Parsers
<1> DEFINE c == [call EXCEPT !.came[i] = @ + 1]
           came == [call.came EXCEPT ![i] = @ + 1]
           e == Call(i, Brings(i, call.came[i] + 1))
           d == Emit(c, e)
<1>2. came \in [DOMAIN su.calls -> Nat] /\ came[i] = call.came[i] + 1
  BY <1>1
<1>3. c = [call EXCEPT !.came = came]
  BY <1>1 DEF Requests
<1>4. e \in Pieces
  BY <1>1, BringsTyped
<1>5. c.came[i] = call.came[i] + 1
  BY <1>1, <1>2, <1>3 DEF Requests
<1>6. \/ Yields(d)
      \/ su.calls[i] > 1 /\ Yields(c)
  <2>1. \/ Yields(Emit(c, Call(i, Brings(i, c.came[i]))))
        \/ su.calls[i] > 1 /\ Yields(c)
    BY Zenon DEF ChunkOfCall
  <2>2. QED
    BY <1>5, <2>1, Zenon
<1> HIDE DEF c, e, came
<1>7. /\ c \in Requests /\ c.p = call.p /\ c.text = call.text /\ c.at = call.at /\ c.done = call.done
      /\ c.came = came /\ c.block = call.block /\ c.begun = call.begun /\ c.kept = call.kept
  BY <1>1, <1>2, <1>3 DEF Requests
<1>8. /\ d \in Requests /\ WellKept(d.p) /\ d.p.out = c.p.out \o <<e>> /\ <<e>> \in Seq(Pieces)
      /\ d.text = c.text /\ d.at = c.at /\ d.came = c.came
      /\ d.kept = c.kept /\ d.begun = c.begun /\ d.block = c.block /\ d.done = c.done
  BY <1>1, <1>4, <1>7, EmitTyped
<1> HIDE DEF d
<1>9. CASE Yields(d)
  <2>1. call' = d /\ Yields(call')
    BY <1>9, Zenon DEF Yields
  <2>2. Grows(call, d)
    <3>1. d.at <= Len(d.text)
      BY <1>1, <1>7, <1>8
    <3>2. QED
      BY <1>7, <1>8, <3>1, Zenon DEF Grows
  <2>3. QED
    BY <1>7, <1>8, <2>1, <2>2, Zenon DEF Unchanged, e, came
<1>10. CASE su.calls[i] > 1 /\ Yields(c)
  <2>1. call' = c /\ Yields(call')
    BY <1>10, Zenon DEF Yields
  <2>2. Grows(call, c)
    <3>1. call.p.out = call.p.out \o <<>> /\ <<>> \in Seq(Pieces)
      BY <1>1, ConcatEmptySeq, EmptySeq
    <3>2. QED
      BY <1>1, <1>7, <3>1, Zenon DEF Grows
  <2>3. QED
    BY <1>7, <1>10, <2>1, <2>2, Zenon DEF Unchanged, came
<1>11. QED
  BY <1>6, <1>9, <1>10

\* What the reason to finish makes of the parser: at most one more piece.
LEMMA FinishedGrows ==
  ASSUME NEW p, WellKept(p)
  PROVE  /\ Finished(p) \in Parsers /\ WellKept(Finished(p))
         /\ \E more \in Seq(InText) : Finished(p).out = p.out \o more
<1>1. p.tool \in Texts /\ p.text \in Texts /\ p.out \in Seq(Pieces)
  BY DEF WellKept, Parsers
<1> DEFINE out == CASE p.inside /\ p.tool # <<>> -> Append(p.out, Unclosed(p.tool))
                    [] p.text # <<>> -> Append(p.out, Text(p.text))
                    [] OTHER -> p.out
<1>2. \A e \in InText : Append(p.out, e) = p.out \o <<e>> /\ <<e>> \in Seq(InText)
  BY <1>1, OneMore, PiecesInText
<1>3. p.out = p.out \o <<>> /\ <<>> \in Seq(InText)
  BY <1>1, ConcatEmptySeq, EmptySeq
<1>4. Unclosed(p.tool) \in InText /\ Text(p.text) \in InText
  <2>1. OpenTag \o p.tool \in Texts
    BY <1>1, TagTypes, TextsJoin
  <2>2. /\ Native(p.tool) \in Pieces /\ Native(p.tool).call = 0
        /\ Text(OpenTag \o p.tool) \in Pieces /\ Text(OpenTag \o p.tool).call = 0
        /\ Text(p.text) \in Pieces /\ Text(p.text).call = 0
    BY <1>1, <2>1, PieceTypes
  <2>3. QED
    BY <2>2, Zenon DEF InText, Unclosed
<1>5. \E more \in Seq(InText) : out = p.out \o more
  <2>1. CASE p.inside /\ p.tool # <<>>
    <3>1. out = Append(p.out, Unclosed(p.tool))
      BY <1>1, <2>1 DEF WellKept
    <3>2. QED
      BY <1>2, <1>4, <3>1, Zenon
  <2>2. CASE ~(p.inside /\ p.tool # <<>>) /\ p.text # <<>>
    <3>1. out = Append(p.out, Text(p.text))
      BY <2>2
    <3>2. QED
      BY <1>2, <1>4, <3>1, Zenon
  <2>3. CASE ~(p.inside /\ p.tool # <<>>) /\ p.text = <<>>
    <3>1. out = p.out
      BY <2>3
    <3>2. QED
      BY <1>3, <3>1, Zenon
  <2>4. QED
    BY <2>1, <2>2, <2>3
<1>6. PICK more \in Seq(InText) : out = p.out \o more
  BY <1>5
<1>7. out \in Seq(Pieces)
  BY <1>1, <1>6, PiecesInText, ConcatProperties
<1>8. Finished(p) = [Fresh EXCEPT !.out = out]
  BY Zenon DEF Finished
<1> HIDE DEF out
<1>9. /\ Finished(p) \in Parsers /\ Finished(p).out = out /\ Finished(p).inside = FALSE
  BY <1>7, <1>8, EmptyFacts DEF Fresh, Parsers
<1>10. QED
  BY <1>6, <1>9 DEF WellKept

\* The calls the server made, in the order they began.
LEMMA CallsTyped ==
  ASSUME su \in Setups, call \in Requests
  PROVE  /\ Calls(call) \in Seq(Pieces) /\ Len(Calls(call)) = Len(call.begun)
         /\ DOMAIN call.begun = 1..Len(call.begun) /\ Len(call.begun) \in Nat
         /\ \A j \in 1..Len(call.begun) :
              /\ call.begun[j] \in DOMAIN su.calls
              /\ Calls(call)[j] = Call(call.begun[j], call.kept[call.begun[j]])
<1> DEFINE b == call.begun
           e(j) == Call(b[j], call.kept[b[j]])
<1>1. b \in Seq(DOMAIN su.calls) /\ call.kept \in [DOMAIN su.calls -> Nat]
  BY DEF Requests
<1>2. Len(b) \in Nat /\ DOMAIN b = 1..Len(b) /\ \A j \in 1..Len(b) : b[j] \in DOMAIN su.calls
  <2> HIDE DEF b
  <2>1. QED
    BY <1>1, ElementOfSeq, LenProperties
<1>3. \A j \in 1..Len(b) : e(j) \in Pieces
  <2>1. <<>> \in Texts
    BY EmptyFacts
  <2>2. \A i, n \in Nat : Call(i, n) \in Pieces
    BY <2>1, PieceTypes
  <2>3. \A i \in DOMAIN su.calls : i \in Nat /\ call.kept[i] \in Nat
    BY <1>1, SetupFacts
  <2>4. QED
    BY <1>2, <2>2, <2>3, Zenon
<1>4. Calls(call) = [j \in 1..Len(b) |-> e(j)]
  BY <1>2, Zenon DEF Calls
<1> HIDE DEF e, b
<1>5. [j \in 1..Len(b) |-> e(j)] \in Seq(Pieces) /\ Len([j \in 1..Len(b) |-> e(j)]) = Len(b)
  BY <1>2, <1>3
<1>6. QED
  BY <1>2, <1>4, <1>5 DEF e, b

LEMMA FinishGrows ==
  ASSUME CallTypeOK, Finish
  PROVE  /\ Yields(call') /\ Grows(call, call')
         /\ call'.text = call.text /\ call'.at = call.at /\ call'.done = TRUE
         /\ UNCHANGED <<call.came, call.kept, call.begun, call.block>>
         /\ main.class = "openai" =>
              \E more \in Seq(InText) : call'.p.out = (call.p.out \o more) \o Calls(call)
         /\ main.class # "openai" => call'.p = call.p
<1>1. /\ call \in Requests /\ WellKept(call.p) /\ call.at <= Len(call.text)
      /\ call.p \in Parsers /\ call.p.out \in Seq(Pieces) /\ su \in Setups
  BY DEF CallTypeOK, RegistryOK, RequestOK, Requests, WellKept, Parsers
<1> DEFINE p == Finished(call.p)
           q == [p EXCEPT !.out = @ \o Calls(call)]
           d == IF main.class = "openai"
                  THEN [call EXCEPT !.done = TRUE, !.p = [p EXCEPT !.out = @ \o Calls(call)]]
                  ELSE [call EXCEPT !.done = TRUE]
<1>2. call' = d /\ Yields(call')
  <2>1. Yields(d)
    BY Zenon DEF Finish
  <2>2. call' = d
    BY <2>1, Zenon DEF Yields
  <2>3. QED
    BY <2>1, <2>2, Zenon
<1>3. CASE main.class = "openai"
  <2>1. d = [call EXCEPT !.done = TRUE, !.p = q]
    BY <1>3, Zenon
  <2>2. p \in Parsers /\ WellKept(p) /\ \E more \in Seq(InText) : p.out = call.p.out \o more
    BY <1>1, FinishedGrows
  <2>3. Calls(call) \in Seq(Pieces)
    BY <1>1, CallsTyped
  <2> HIDE DEF p, d
  <2> DEFINE out == p.out \o Calls(call)
  <2>4. out \in Seq(Pieces) /\ q = [p EXCEPT !.out = out]
    <3>1. p.out \in Seq(Pieces)
      BY <2>2 DEF Parsers
    <3>2. out \in Seq(Pieces)
      BY <2>3, <3>1, ConcatProperties
    <3>3. q = [p EXCEPT !.out = out]
      BY <2>2 DEF Parsers
    <3>4. QED
      BY <3>2, <3>3
  <2> HIDE DEF out, q
  <2>5. q \in Parsers /\ q.out = out /\ q.inside = p.inside /\ q.text = p.text
    BY <2>2, <2>4 DEF Parsers
  <2>6. WellKept(q)
    BY <2>2, <2>5 DEF WellKept
  <2>7. /\ d \in Requests /\ d.p = q /\ d.text = call.text /\ d.at = call.at /\ d.done = TRUE
        /\ d.came = call.came /\ d.kept = call.kept /\ d.begun = call.begun /\ d.block = call.block
    BY <1>1, <2>1, <2>5 DEF Requests
  <2>8. PICK more \in Seq(InText) : p.out = call.p.out \o more
    BY <2>2
  <2>9. d.p.out = (call.p.out \o more) \o Calls(call)
    BY <2>5, <2>7, <2>8, Zenon DEF out
  <2>10. \E all \in Seq(Pieces) : d.p.out = call.p.out \o all
    <3>1. more \in Seq(Pieces)
      BY <2>8, PiecesInText
    <3>2. more \o Calls(call) \in Seq(Pieces)
      BY <2>3, <3>1, ConcatProperties
    <3>3. (call.p.out \o more) \o Calls(call) = call.p.out \o (more \o Calls(call))
      <4>1. Associates(Pieces)
        BY Associative, Zenon
      <4>2. QED
        BY <1>1, <2>3, <3>1, <4>1, Zenon DEF Associates
    <3>4. QED
      BY <2>9, <3>2, <3>3, Zenon
  <2>11. d.at <= Len(d.text)
    BY <1>1, <2>7
  <2>12. Grows(call, d)
    BY <2>6, <2>7, <2>10, <2>11, Zenon DEF Grows
  <2>13. QED
    BY <1>2, <1>3, <2>7, <2>9, <2>12, Zenon
<1>4. CASE main.class # "openai"
  <2>1. d = [call EXCEPT !.done = TRUE]
    BY <1>4
  <2> HIDE DEF d
  <2>2. /\ d \in Requests /\ d.p = call.p /\ d.text = call.text /\ d.at = call.at /\ d.done = TRUE
        /\ d.came = call.came /\ d.kept = call.kept /\ d.begun = call.begun /\ d.block = call.block
    BY <1>1, <2>1 DEF Requests
  <2>3. call.p.out = call.p.out \o <<>> /\ <<>> \in Seq(Pieces)
    BY <1>1, ConcatEmptySeq, EmptySeq
  <2>4. Grows(call, d)
    BY <1>1, <2>2, <2>3, Zenon DEF Grows
  <2>5. QED
    BY <1>2, <1>4, <2>2, <2>4, Zenon
<1>5. QED
  BY <1>3, <1>4

\* A request that is answered at once.
LEMMA WholeGrows ==
  ASSUME CallTypeOK, Whole
  PROVE  /\ call' \in Requests /\ WellKept(call'.p) /\ call'.at <= Len(call'.text)
         /\ UNCHANGED <<su, registry, main, attempt, answer, verdict, turn>>
         /\ shown' \in Texts /\ ~Streams /\ phase = "request" /\ phase' = "answered"
         /\ shown = <<>> => shown' = TextOf(call'.p.out)
<1>0. su \in Setups /\ shown \in Texts
  BY DEF CallTypeOK, RegistryOK, RequestOK
<1>1. PICK text \in su.texts :
        LET kept == IF main.class = "openai" /\ su.calls = <<>> THEN Batch(text).text ELSE text
        IN /\ call' = [Fetch(text) EXCEPT !.done = TRUE,
                                          !.p.out = IF kept = <<>> THEN <<>> ELSE <<Text(kept)>>]
           /\ shown' = shown \o kept
  BY Zenon DEF Whole
<1> DEFINE kept == IF main.class = "openai" /\ su.calls = <<>> THEN Batch(text).text ELSE text
           out == IF kept = <<>> THEN <<>> ELSE <<Text(kept)>>
           f == Fetch(text)
           q == [f.p EXCEPT !.out = out]
<1>2. text \in Texts
  BY <1>0, SetupFacts
<1>3. kept \in Texts
  <2>1. Batch(text) \in Answers
    BY <1>2, BatchText
  <2>2. Batch(text).text \in Texts
    BY <2>1 DEF Answers
  <2>3. QED
    BY <1>2, <2>2
<1>4. /\ f \in Requests /\ f.text = text /\ f.at = 0 /\ f.p = Fresh
  BY <1>0, <1>2, FetchTyped
<1>5. shown' = shown \o kept /\ call' = [f EXCEPT !.done = TRUE, !.p = q]
  <2>1. call' = [f EXCEPT !.done = TRUE, !.p.out = out]
    BY <1>1, Zenon
  <2>2. f \in Requests /\ f.p \in Parsers
    BY <1>4, EmptyFacts DEF Requests
  <2> HIDE DEF f, out
  <2>3. call' = [f EXCEPT !.done = TRUE, !.p = q]
    BY <2>1, <2>2 DEF Requests, Parsers
  <2>4. QED
    BY <1>1, <2>3, Zenon
<1> HIDE DEF kept, f
<1>6. out \in Seq(Pieces) /\ TextOf(out) = kept
  <2>1. Text(kept) \in Pieces /\ Shows(Text(kept)) = kept
    BY <1>3, PieceTypes DEF Shows
  <2>2. QED
    BY <2>1, OnePiece
<1> HIDE DEF out
<1>7. q \in Parsers /\ q.out = out /\ q.inside = FALSE
  BY <1>4, <1>6, EmptyFacts DEF Fresh, Parsers
<1> HIDE DEF q
<1>8. call' \in Requests /\ call'.p = q /\ call'.text = text /\ call'.at = 0
  BY <1>4, <1>5, <1>7 DEF Requests
<1>9. call'.at <= Len(call'.text)
  BY <1>2, <1>8 DEF Texts
<1>10. shown' \in Texts /\ (shown = <<>> => shown' = kept)
  BY <1>0, <1>3, <1>5, TextsJoin
<1>11. QED
  BY <1>6, <1>7, <1>8, <1>9, <1>10 DEF WellKept, Whole

-----------------------------------------------------------------------------
(* The types are kept. *)

\* A step of the stream: its text, its calls, its end.
StreamStep ==
  \/ \E k \in 1 .. Len(call.text) : Content(k)
  \/ \E i \in DOMAIN su.calls : Delta(i) \/ BlockStart(i) \/ ChunkOfCall(i)
  \/ BlockDelta \/ BlockStop \/ Finish

LEMMA StreamGrows ==
  ASSUME CallTypeOK, StreamStep
  PROVE  /\ Yields(call') /\ Grows(call, call') /\ phase = "stream" /\ phase' = phase
         /\ UNCHANGED <<su, main>> /\ (~call.done \/ call.block # 0)
<1>1. CASE \E k \in 1 .. Len(call.text) : Content(k)
  <2>1. PICK k \in 1 .. Len(call.text) : Content(k)
    BY <1>1
  <2>2. Yields(call') /\ Grows(call, call')
    BY <2>1, ContentGrows
  <2>3. QED
    BY <2>1, <2>2 DEF Content, Yields
<1>2. ASSUME NEW i \in DOMAIN su.calls, Delta(i)
      PROVE  Yields(call') /\ Grows(call, call') /\ phase = "stream" /\ phase' = phase /\ ~call.done
  BY <1>2, DeltaGrows, Zenon DEF Delta, Streaming
<1>3. ASSUME NEW i \in DOMAIN su.calls, BlockStart(i)
      PROVE  Yields(call') /\ Grows(call, call') /\ phase = "stream" /\ phase' = phase /\ ~call.done
  BY <1>3, BlockGrows, Zenon DEF BlockStart, Streaming
<1>4. ASSUME NEW i \in DOMAIN su.calls, ChunkOfCall(i)
      PROVE  Yields(call') /\ Grows(call, call') /\ phase = "stream" /\ phase' = phase /\ ~call.done
  BY <1>4, ChunkGrows, Zenon DEF ChunkOfCall, Streaming
<1>5. CASE BlockDelta
  <2>1. Yields(call') /\ Grows(call, call')
    BY <1>5, BlockDeltaGrows
  <2>2. QED
    BY <1>5, <2>1 DEF BlockDelta, Streaming, Yields
<1>6. CASE BlockStop
  <2>1. Yields(call') /\ Grows(call, call')
    BY <1>6, BlockStopGrows
  <2>2. QED
    BY <1>6, <2>1 DEF BlockStop, Streaming, Yields
<1>7. CASE Finish
  <2>1. Yields(call') /\ Grows(call, call')
    BY <1>7, FinishGrows
  <2>2. QED
    BY <1>7, <2>1 DEF Finish, Yields
<1>8. Yields(call') => UNCHANGED <<su, main>>
  BY DEF Yields
<1>9. QED
  BY <1>1, <1>2, <1>3, <1>4, <1>5, <1>6, <1>7, <1>8, Zenon DEF StreamStep

\* What is kept of a request that no step of the stream touches.
LEMMA SameRequest ==
  ASSUME CallTypeOK, UNCHANGED <<su, call, shown>>
  PROVE  RequestOK'
<1>1. Requests' = Requests
  BY DEF Requests
<1>2. QED
  BY <1>1 DEF CallTypeOK, RequestOK

LEMMA AcceptedTyped ==
  ASSUME CallTypeOK, Accepted
  PROVE  /\ call' \in Requests /\ WellKept(call'.p) /\ call'.at <= Len(call'.text)
         /\ \E text \in Texts : call' = Fetch(text)
<1>1. PICK text \in su.texts : call' = Fetch(text)
  BY DEF Accepted
<1>2. su \in Setups /\ text \in Texts
  BY SetupFacts DEF CallTypeOK, RegistryOK
<1>3. /\ call' \in Requests /\ call'.text = text /\ call'.at = 0 /\ call'.p = Fresh
  BY <1>1, <1>2, FetchTyped
<1>4. call'.at <= Len(call'.text)
  BY <1>2, <1>3 DEF Texts
<1>5. WellKept(call'.p)
  BY <1>3, EmptyFacts
<1>6. QED
  BY <1>1, <1>2, <1>3, <1>4, <1>5

LEMMA StepRequest == CallTypeOK /\ [CallNext]_callVars => RequestOK'
<1> SUFFICES ASSUME CallTypeOK, [CallNext]_callVars PROVE RequestOK'
  OBVIOUS
<1>1. CASE StreamStep
  BY <1>1, StreamGrows, YieldsShow
<1>2. CASE Begin
  <2>1. su' = su /\ call' = call /\ shown' = <<>>
    BY <1>2 DEF Begin
  <2>2. Requests' = Requests
    BY <2>1 DEF Requests
  <2>3. QED
    BY <2>1, <2>2, EmptyFacts DEF CallTypeOK, RequestOK
<1>3. CASE Accepted
  <2>1. call' \in Requests /\ WellKept(call'.p) /\ call'.at <= Len(call'.text)
    BY <1>3, AcceptedTyped
  <2>2. su' = su /\ shown' = shown
    BY <1>3 DEF Accepted
  <2>3. Requests' = Requests
    BY <2>2 DEF Requests
  <2>4. QED
    BY <2>1, <2>2, <2>3 DEF CallTypeOK, RequestOK
<1>4. CASE Whole
  <2>1. /\ call' \in Requests /\ WellKept(call'.p) /\ call'.at <= Len(call'.text)
        /\ su' = su /\ shown' \in Texts
    BY <1>4, WholeGrows
  <2>2. Requests' = Requests
    BY <2>1 DEF Requests
  <2>3. QED
    BY <2>1, <2>2 DEF RequestOK
<1>5. CASE \/ Register \/ ListProviders \/ Ensure \/ Refused \/ StreamEnds \/ Cut \/ Answer
           \/ JudgeSkipped \/ JudgeByStrategy \/ JudgeOfItsOwn \/ Decide \/ OutOfTurns
           \/ UNCHANGED callVars
  <2>1. UNCHANGED <<su, call, shown>>
    BY <1>5 DEF Register, ListProviders, Ensure, Refused, StreamEnds, Cut, Answer, JudgeSkipped,
       JudgeByStrategy, JudgeOfItsOwn, Decide, OutOfTurns, callVars
  <2>2. QED
    BY <2>1, SameRequest
<1>6. QED
  BY <1>1, <1>2, <1>3, <1>4, <1>5 DEF CallNext, StreamStep

LEMMA StepRun == CallTypeOK /\ [CallNext]_callVars => RunOK'
<1> SUFFICES ASSUME CallTypeOK, [CallNext]_callVars PROVE RunOK'
  OBVIOUS
<1>0. /\ su \in Setups /\ RunOK /\ main \in Instances
  BY DEF CallTypeOK, RegistryOK
<1>1. su.retries \in Nat /\ su.decideRetries \in Nat /\ su.turns \in Nat /\ su.marks \subseteq 0..10
  BY <1>0, SetupFacts
<1>2. CASE StreamStep
  BY <1>2, StreamGrows, YieldsShow
<1>3. CASE Register \/ ListProviders \/ Ensure
  BY <1>0, <1>3 DEF Register, ListProviders, Ensure, RunOK, Phases, answer, verdict
<1>4. CASE Begin
  <2>1. turn' \in 0..su.turns /\ attempt' \in 0..su.retries
    BY <1>0, <1>1, <1>4 DEF Begin, RunOK
  <2>2. QED
    BY <1>0, <1>4, <2>1 DEF Begin, RunOK, Phases, answer, verdict
<1>5. CASE Refused
  <2>1. attempt' \in 0..su.retries /\ phase' \in Phases
    BY <1>0, <1>1, <1>5 DEF Refused, RunOK, Phases
  <2>2. QED
    BY <1>0, <1>5, <2>1 DEF Refused, RunOK, answer, verdict
<1>6. CASE Accepted \/ Whole \/ StreamEnds \/ Cut \/ OutOfTurns \/ JudgeSkipped
  BY <1>0, <1>6 DEF Accepted, Whole, StreamEnds, Cut, OutOfTurns, JudgeSkipped, RunOK, Phases,
     answer, verdict
<1>7. CASE Answer
  <2> DEFINE out == call.p.out
  <2>1. out \in Seq(Pieces)
    BY DEF CallTypeOK, RequestOK, WellKept, Parsers
  <2>2. TextOf(out) \in Texts
    BY <2>1, PiecesGrow
  <2>3. ToolCalls(out) \subseteq Pieces
    <3> HIDE DEF out
    <3>1. \A i \in DOMAIN out : out[i] \in Pieces
      BY <2>1, ElementOfSeq
    <3>2. QED
      BY <3>1 DEF ToolCalls, ToSet
  <2>4. last' \in Texts /\ called' \subseteq Pieces
    BY <1>0, <1>7, <2>2, <2>3 DEF Answer, RunOK
  <2>5. QED
    BY <1>0, <1>7, <2>4 DEF Answer, RunOK, Phases, verdict
<1>8. CASE JudgeByStrategy
  <2>1. score' \in 0..10
    BY <1>1, <1>8 DEF JudgeByStrategy, FailOpen
  <2>2. QED
    BY <1>0, <1>8, <2>1 DEF JudgeByStrategy, RunOK, Phases, answer
<1>9. CASE JudgeOfItsOwn
  <2>1. score' \in {None} \cup 0..10
    BY <1>0, <1>1, <1>9 DEF JudgeOfItsOwn, RunOK
  <2>2. phase' \in Phases
    BY <1>9 DEF JudgeOfItsOwn, Phases
  <2>3. QED
    BY <1>0, <1>9, <2>1, <2>2 DEF JudgeOfItsOwn, RunOK, answer
<1>10. CASE Decide
  <2>1. phase' \in Phases
    BY <1>10 DEF Decide, Phases
  <2>2. retried' \in 0..su.decideRetries
    BY <1>0, <1>1, <1>10 DEF Decide, RunOK
  <2>3. QED
    BY <1>0, <1>10, <2>1, <2>2 DEF Decide, RunOK, answer
<1>11. CASE UNCHANGED callVars
  BY <1>0, <1>11 DEF RunOK, callVars
<1>12. QED
  BY <1>2, <1>3, <1>4, <1>5, <1>6, <1>7, <1>8, <1>9, <1>10, <1>11 DEF CallNext, StreamStep

\* The parts of the state of a call have their types: the registry holds classes, what
\* was yielded is pieces, what is held back is text, and the counters stay in their bounds.
THEOREM TypesOfCalls == CallSpec => []CallTypeOK
<1>1. CallTypeOK /\ [CallNext]_callVars => CallTypeOK'
  BY StepRegistry, StepRequest, StepRun DEF CallTypeOK
<1>2. QED
  BY InitTyped, <1>1, PTL DEF CallSpec

-----------------------------------------------------------------------------
(* What was shown is the text of the answer, and nothing of the stream is lost. *)

ShownInv ==
  /\ phase = "request" => shown = <<>>
  /\ phase \in {"stream", "answered"} => shown = TextOf(call.p.out)

\* The other steps: neither a request nor an answer comes of them.
Aside ==
  \/ Register \/ ListProviders \/ Ensure \/ Answer \/ JudgeSkipped \/ JudgeByStrategy
  \/ JudgeOfItsOwn \/ Decide \/ OutOfTurns

LEMMA AsideQuiet ==
  ASSUME Aside
  PROVE  phase' \notin {"request", "stream", "answered"}
<1>1. CASE Register \/ ListProviders \/ Ensure
  BY <1>1 DEF Register, ListProviders, Ensure
<1>2. CASE Answer \/ JudgeSkipped \/ JudgeByStrategy \/ JudgeOfItsOwn
  BY <1>2 DEF Answer, JudgeSkipped, JudgeByStrategy, JudgeOfItsOwn
<1>3. CASE Decide
  BY <1>3 DEF Decide
<1>4. CASE OutOfTurns
  BY <1>4 DEF OutOfTurns
<1>5. QED
  BY <1>1, <1>2, <1>3, <1>4 DEF Aside

\* The steps of a run, as the proofs below tell them apart.
LEMMA StepsOfCall ==
  ASSUME [CallNext]_callVars
  PROVE  \/ Aside \/ Begin \/ Refused \/ Accepted \/ Whole \/ StreamStep \/ StreamEnds \/ Cut
         \/ UNCHANGED callVars
BY DEF CallNext, Aside, StreamStep

LEMMA StepShown == CallTypeOK /\ ShownInv /\ [CallNext]_callVars => ShownInv'
<1> SUFFICES ASSUME CallTypeOK, ShownInv, [CallNext]_callVars PROVE ShownInv'
  OBVIOUS
<1>1. CASE Aside
  BY <1>1, AsideQuiet DEF ShownInv
<1>2. CASE Begin
  BY <1>2 DEF Begin, ShownInv
<1>3. CASE Refused
  BY <1>3 DEF Refused, ShownInv
<1>4. CASE Accepted
  <2>1. phase = "request" /\ phase' = "stream" /\ shown' = shown
    BY <1>4 DEF Accepted
  <2>2. PICK text \in Texts : call' = Fetch(text)
    BY <1>4, AcceptedTyped
  <2>3. call'.p.out = <<>> /\ TextOf(<<>>) = <<>>
    BY <2>2, FetchTyped, EmptyFacts DEF CallTypeOK, RegistryOK
  <2>4. QED
    BY <2>1, <2>3 DEF ShownInv
<1>5. CASE Whole
  BY <1>5, WholeGrows DEF ShownInv
<1>6. CASE StreamStep
  <2>1. Yields(call') /\ Grows(call, call') /\ phase = "stream" /\ phase' = phase
    BY <1>6, StreamGrows
  <2>2. shown = TextOf(call.p.out)
    BY <2>1 DEF ShownInv
  <2>3. shown' = TextOf(call'.p.out)
    BY <2>1, <2>2, YieldsShow
  <2>4. QED
    BY <2>1, <2>3 DEF ShownInv
<1>7. CASE StreamEnds \/ Cut
  BY <1>7 DEF StreamEnds, Cut, ShownInv
<1>8. CASE UNCHANGED callVars
  BY <1>8 DEF callVars, ShownInv
<1>9. QED
  BY <1>1, <1>2, <1>3, <1>4, <1>5, <1>6, <1>7, <1>8, StepsOfCall

\* The text shown over all attempts is the text of the answer.
THEOREM ShownAnswered == CallSpec => []ShownIsAnswered
<1>1. CallInit => ShownInv
  BY DEF CallInit, ShownInv
<1>2. ShownInv => ShownIsAnswered
  BY DEF ShownInv, ShownIsAnswered
<1>3. QED
  BY TypesOfCalls, <1>1, <1>2, StepShown, PTL DEF CallSpec

LEMMA LostAsRaw ==
  NothingLost = ((phase = "stream" /\ main.class = "openai" /\ ~call.done) =>
                   Raw(call.p) = SubSeq(call.text, 1, call.at))
BY Zenon DEF NothingLost, Streaming, Raw, Unread

LEMMA StepLost == CallTypeOK /\ NothingLost /\ [CallNext]_callVars => NothingLost'
<1> SUFFICES ASSUME CallTypeOK, NothingLost, [CallNext]_callVars,
                    phase' = "stream", main'.class = "openai", ~call'.done
             PROVE  Raw(call'.p) = SubSeq(call'.text, 1, call'.at)
  BY Zenon DEF NothingLost, Streaming, Raw, Unread
<1>1. CASE Aside
  BY <1>1, AsideQuiet
<1>2. CASE Begin \/ Refused \/ Whole \/ StreamEnds \/ Cut
  BY <1>2 DEF Begin, Refused, Whole, StreamEnds, Cut
<1>3. CASE Accepted
  <2>1. PICK text \in Texts : call' = Fetch(text)
    BY <1>3, AcceptedTyped
  <2>2. call'.text = text /\ call'.at = 0 /\ call'.p = Fresh
    BY <2>1, FetchTyped DEF CallTypeOK, RegistryOK
  <2>3. SubSeq(text, 1, 0) = <<>>
    BY <2>1 DEF Texts
  <2>4. QED
    BY <2>2, <2>3, EmptyFacts
<1>4. CASE StreamStep
  <2>1. phase = "stream" /\ main' = main
    BY <1>4, StreamGrows
  <2>2. ASSUME ~call.done PROVE Raw(call.p) = SubSeq(call.text, 1, call.at)
    BY <2>1, <2>2, LostAsRaw
  <2>3. ASSUME NEW k \in 1 .. Len(call.text), Content(k)
        PROVE  Raw(call'.p) = SubSeq(call'.text, 1, call'.at)
    <3>1. /\ call'.text = call.text /\ call'.at = call.at + k
          /\ Raw(call'.p) = Raw(call.p) \o SubSeq(call.text, call.at + 1, call.at + k)
      BY <2>1, <2>3, ContentGrows
    <3>2. ~call.done /\ call.at + k <= Len(call.text)
      BY <2>3 DEF Content
    <3>3. call.text \in Texts /\ call.at \in Nat /\ Len(call.text) \in Nat
      BY DEF CallTypeOK, RequestOK, Requests, Texts
    <3> DEFINE s == call.text
               n == call.at
    <3>4. s \in Seq(Symbols) /\ n \in Nat /\ n + k <= Len(s) /\ Len(s) \in Nat /\ k \in 1..Len(s)
      BY <3>2, <3>3 DEF Texts
    <3> HIDE DEF s, n
    <3>5. SubSeq(s, 1, n) \o SubSeq(s, n + 1, n + k) = SubSeq(s, 1, n + k)
      BY <3>4, ConcatAdjacentSubSeq
    <3>6. QED
      BY <2>2, <3>1, <3>2, <3>5, Zenon DEF s, n
  <2>4. ASSUME NEW i \in DOMAIN su.calls, Delta(i)
        PROVE  Raw(call'.p) = SubSeq(call'.text, 1, call'.at)
    <3>1. Unchanged(call, call') /\ call'.p = call.p
      BY <2>4, DeltaGrows
    <3>2. ~call.done
      BY <2>4 DEF Delta
    <3>3. QED
      BY <2>2, <3>1, <3>2 DEF Unchanged
  <2>5. ASSUME NEW i \in DOMAIN su.calls, BlockStart(i) \/ ChunkOfCall(i)
        PROVE  FALSE
    BY <2>1, <2>5 DEF BlockStart, ChunkOfCall, Streaming
  <2>6. CASE BlockDelta \/ BlockStop
    BY <2>1, <2>6 DEF BlockDelta, BlockStop, Streaming
  <2>7. CASE Finish
    BY <2>7, FinishGrows
  <2>8. QED
    BY <1>4, <2>3, <2>4, <2>5, <2>6, <2>7 DEF StreamStep
<1>5. CASE UNCHANGED callVars
  BY <1>5, LostAsRaw DEF callVars
<1>6. QED
  BY <1>1, <1>2, <1>3, <1>4, <1>5, StepsOfCall

\* What the parser yielded and what it holds back are what came of the text.
THEOREM NothingIsLost == CallSpec => []NothingLost
<1>1. CallInit => NothingLost
  BY DEF CallInit, NothingLost, Streaming
<1>2. QED
  BY TypesOfCalls, <1>1, StepLost, PTL DEF CallSpec

-----------------------------------------------------------------------------
(* The calls of the server are yielded once, with the pieces of their arguments. *)

Once(out, i, n) ==
  \E j \in DOMAIN out : /\ out[j].call = i /\ out[j].n = n
                        /\ \A k \in DOMAIN out : out[k].call = i => k = j
Absent(out, i) == \A j \in DOMAIN out : out[j].call # i

\* Lists of events one after the other.
LEMMA JoinCalls ==
  ASSUME NEW out \in Seq(Pieces), NEW more \in Seq(Pieces), NEW i, NEW n
  PROVE  /\ Absent(out, i) /\ Absent(more, i) => Absent(out \o more, i)
         /\ Once(out, i, n) /\ Absent(more, i) => Once(out \o more, i, n)
         /\ Absent(out, i) /\ Once(more, i, n) => Once(out \o more, i, n)
<1> DEFINE all == out \o more
           a == Len(out)
           b == Len(more)
<1>1. /\ a \in Nat /\ b \in Nat /\ DOMAIN out = 1..a /\ DOMAIN more = 1..b
      /\ all \in Seq(Pieces) /\ Len(all) = a + b
      /\ \A j \in 1..(a + b) : all[j] = IF j <= a THEN out[j] ELSE more[j - a]
  BY ConcatProperties
<1>2. DOMAIN all = 1..(a + b)
  BY <1>1
<1> HIDE DEF all, a, b
<1>3. \A j \in DOMAIN out : j \in DOMAIN all /\ all[j] = out[j]
  BY <1>1, <1>2
<1>4. \A j \in DOMAIN more : a + j \in DOMAIN all /\ all[a + j] = more[j]
  <2> TAKE j \in DOMAIN more
  <2>1. a + j \in 1..(a + b) /\ ~(a + j <= a) /\ (a + j) - a = j
    BY <1>1
  <2>2. all[a + j] = more[(a + j) - a]
    BY <1>1, <2>1, Zenon
  <2>3. QED
    BY <1>2, <2>1, <2>2
<1>5. \A j \in DOMAIN all : j \in DOMAIN out \/ \E k \in DOMAIN more : j = a + k
  <2> TAKE j \in DOMAIN all
  <2>1. j \in Int /\ 1 <= j /\ j <= a + b
    BY <1>1, <1>2
  <2>2. CASE j <= a
    BY <1>1, <2>1, <2>2
  <2>3. CASE ~(j <= a)
    <3>1. j - a \in 1..b /\ j = a + (j - a)
      BY <1>1, <2>1, <2>3
    <3>2. QED
      BY <1>1, <3>1, Zenon
  <2>4. QED
    BY <2>2, <2>3
<1>6. Absent(out, i) /\ Absent(more, i) => Absent(all, i)
  <2> SUFFICES ASSUME Absent(out, i), Absent(more, i), NEW j \in DOMAIN all PROVE all[j].call # i
    BY DEF Absent
  <2>1. CASE j \in DOMAIN out
    BY <1>3, <2>1 DEF Absent
  <2>2. ASSUME NEW k \in DOMAIN more, j = a + k PROVE all[j].call # i
    BY <1>4, <2>2 DEF Absent
  <2>3. QED
    BY <1>5, <2>1, <2>2
<1>7. ASSUME Once(out, i, n), Absent(more, i) PROVE Once(all, i, n)
  <2>1. PICK j \in DOMAIN out : /\ out[j].call = i /\ out[j].n = n
                                /\ \A k \in DOMAIN out : out[k].call = i => k = j
    BY <1>7, Zenon DEF Once
  <2>2. ASSUME NEW k \in DOMAIN all, all[k].call = i PROVE k = j
    <3>1. CASE k \in DOMAIN out
      BY <1>3, <2>1, <2>2, <3>1
    <3>2. ASSUME NEW m \in DOMAIN more, k = a + m PROVE FALSE
      BY <1>4, <1>7, <2>2, <3>2 DEF Absent
    <3>3. QED
      BY <1>5, <3>1, <3>2
  <2>3. QED
    BY <1>3, <2>1, <2>2, Zenon DEF Once
<1>8. ASSUME Absent(out, i), Once(more, i, n) PROVE Once(all, i, n)
  <2>1. PICK j \in DOMAIN more : /\ more[j].call = i /\ more[j].n = n
                                 /\ \A k \in DOMAIN more : more[k].call = i => k = j
    BY <1>8, Zenon DEF Once
  <2>2. ASSUME NEW k \in DOMAIN all, all[k].call = i PROVE k = a + j
    <3>1. CASE k \in DOMAIN out
      BY <1>3, <1>8, <2>2, <3>1 DEF Absent
    <3>2. ASSUME NEW m \in DOMAIN more, k = a + m PROVE k = a + j
      BY <1>4, <2>1, <2>2, <3>2
    <3>3. QED
      BY <1>5, <3>1, <3>2
  <2>3. QED
    BY <1>4, <2>1, <2>2, Zenon DEF Once
<1>9. QED
  BY <1>6, <1>7, <1>8, Zenon DEF all

\* What the parser finds in the text is no call of the server's own.
LEMMA InTextAbsent ==
  ASSUME NEW more \in Seq(InText), NEW i \in Nat \ {0}
  PROVE  Absent(more, i)
<1>1. \A j \in DOMAIN more : more[j] \in InText
  BY ElementOfSeq
<1>2. QED
  BY <1>1 DEF InText, Absent

LEMMA OneCall ==
  ASSUME NEW i \in Nat, NEW n \in Nat, NEW k \in Nat
  PROVE  /\ <<Call(i, n)>> \in Seq(Pieces) /\ Once(<<Call(i, n)>>, i, n)
         /\ k # i => Absent(<<Call(i, n)>>, k)
<1> DEFINE e == Call(i, n)
<1>1. e \in Pieces /\ e.call = i /\ e.n = n
  BY EmptyFacts, PieceTypes
<1> HIDE DEF e
<1>2. <<e>> \in Seq(Pieces) /\ DOMAIN <<e>> = {1} /\ <<e>>[1] = e
  BY <1>1
<1>3. QED
  BY <1>1, <1>2 DEF e, Once, Absent

\* The calls that began are yielded once, each with its pieces.
Begins(c, i) ==
  IF c.came[i] = 0 THEN \A j \in DOMAIN c.begun : c.begun[j] # i
  ELSE \E j \in DOMAIN c.begun : c.begun[j] = i /\ \A k \in DOMAIN c.begun : c.begun[k] = i => k = j

LEMMA CallsOnce ==
  ASSUME su \in Setups, call \in Requests, NEW i \in DOMAIN su.calls, call.came[i] # 0,
         Begins(call, i)
  PROVE  Once(Calls(call), i, call.kept[i])
<1>1. /\ Calls(call) \in Seq(Pieces) /\ DOMAIN Calls(call) = DOMAIN call.begun
      /\ \A j \in DOMAIN call.begun : /\ call.begun[j] \in DOMAIN su.calls
                                      /\ Calls(call)[j] = Call(call.begun[j], call.kept[call.begun[j]])
  BY CallsTyped
<1>2. \A j \in DOMAIN su.calls : /\ Call(j, call.kept[j]).call = j
                                 /\ Call(j, call.kept[j]).n = call.kept[j]
  BY DEF Call, Event
<1>3. PICK j \in DOMAIN call.begun :
        call.begun[j] = i /\ \A k \in DOMAIN call.begun : call.begun[k] = i => k = j
  BY Zenon DEF Begins
<1> HIDE DEF Calls
<1> DEFINE cs == Calls(call)
           b == call.begun
<1>4. j \in DOMAIN cs /\ cs[j].call = i /\ cs[j].n = call.kept[i]
  BY <1>1, <1>2, <1>3
<1>5. \A k \in DOMAIN cs : cs[k].call = i => k = j
  BY <1>1, <1>2, <1>3
<1>6. QED
  BY <1>4, <1>5, Zenon DEF Once

YieldedOnce(c, i) == Once(c.p.out, i, Arguments(i) - Dropped(i))

\* What came of a call, what was kept of it, and whether it was yielded.
KeptOK(c, i) == c.kept[i] = IF c.came[i] = 0 THEN 0 ELSE c.came[i] - 1
AtEndOK(c, i) ==
  Begins(c, i) /\ KeptOK(c, i) /\ IF c.done THEN YieldedOnce(c, i) ELSE Absent(c.p.out, i)
AtOnceOK(c, i) ==
  /\ main.class # "langchain" => KeptOK(c, i)
  /\ IF c.came[i] = su.calls[i] /\ c.block # i THEN YieldedOnce(c, i) ELSE Absent(c.p.out, i)
Progress(c) ==
  /\ c.done => c.came = su.calls /\ c.block = 0
  /\ main.class # "anthropic" => c.block = 0
  /\ c.block # 0 => c.came[c.block] # 0
  /\ \A i \in DOMAIN su.calls : IF main.class = "openai" THEN AtEndOK(c, i)
                                ELSE Gathered(i) => AtOnceOK(c, i)

CallsInv ==
  /\ phase = "stream" => Streams /\ Progress(call)
  /\ phase = "answered" /\ call.done /\ Streams =>
       \A i \in DOMAIN su.calls : Gathered(i) => YieldedOnce(call, i)

LEMMA AcceptedProgress ==
  ASSUME CallTypeOK, Accepted
  PROVE  Progress(call')
<1>0. su \in Setups
  BY DEF CallTypeOK, RegistryOK
<1>1. PICK text \in Texts : call' = Fetch(text)
  BY AcceptedTyped
<1> DEFINE d == Fetch(text)
<1>2. /\ d.p = Fresh /\ d.done = FALSE /\ d.begun = <<>> /\ d.block = 0
      /\ d.came = [i \in DOMAIN su.calls |-> 0] /\ d.kept = [i \in DOMAIN su.calls |-> 0]
  BY <1>0, <1>1, FetchTyped
<1> HIDE DEF d
<1>3. d.p.out = <<>>
  BY <1>2, EmptyFacts
<1>4. ASSUME NEW i \in DOMAIN su.calls PROVE AtEndOK(d, i) /\ AtOnceOK(d, i)
  <2>1. su.calls[i] \in Nat \ {0}
    BY <1>0, SetupFacts
  <2>2. Absent(d.p.out, i)
    BY <1>3 DEF Absent
  <2>3. d.came[i] = 0 /\ KeptOK(d, i) /\ Begins(d, i)
    BY <1>2 DEF KeptOK, Begins
  <2>4. QED
    BY <1>2, <2>1, <2>2, <2>3 DEF AtEndOK, AtOnceOK
<1>5. Progress(d)
  BY <1>2, <1>4 DEF Progress
<1>6. QED
  BY <1>1, <1>5 DEF d

\* What was yielded stays; the new pieces are of other calls.
LEMMA CallsStay ==
  ASSUME CallTypeOK, NEW d, NEW more \in Seq(Pieces), d.p.out = call.p.out \o more,
         NEW i, Absent(more, i)
  PROVE  /\ Absent(call.p.out, i) => Absent(d.p.out, i)
         /\ YieldedOnce(call, i) => YieldedOnce(d, i)
<1>1. call.p.out \in Seq(Pieces)
  BY DEF CallTypeOK, RequestOK, WellKept, Parsers
<1>2. QED
  BY <1>1, JoinCalls, Zenon DEF YieldedOnce

LEMMA ContentProgress ==
  ASSUME CallTypeOK, Progress(call), NEW k \in 1 .. Len(call.text), Content(k)
  PROVE  Progress(call')
<1>1. /\ UNCHANGED <<call.came, call.kept, call.begun, call.block, call.done>>
      /\ \E more \in Seq(InText) : call'.p.out = call.p.out \o more
  BY ContentGrows
<1>2. PICK more \in Seq(InText) : call'.p.out = call.p.out \o more
  BY <1>1
<1>3. ASSUME NEW i \in DOMAIN su.calls
      PROVE  /\ Absent(call.p.out, i) => Absent(call'.p.out, i)
             /\ YieldedOnce(call, i) => YieldedOnce(call', i)
  <2>1. more \in Seq(Pieces)
    BY PiecesInText
  <2>2. i \in Nat \ {0}
    BY SetupFacts DEF CallTypeOK, RegistryOK
  <2>3. Absent(more, i)
    BY <2>2, InTextAbsent
  <2>4. QED
    BY <1>2, <2>1, <2>3, CallsStay
<1>4. ASSUME NEW i \in DOMAIN su.calls
      PROVE  (KeptOK(call, i) => KeptOK(call', i)) /\ (Begins(call, i) => Begins(call', i))
  BY <1>1, Zenon DEF KeptOK, Begins
<1>5. QED
  BY <1>1, <1>3, <1>4, Zenon DEF Progress, AtEndOK, AtOnceOK

LEMMA DeltaProgress ==
  ASSUME CallTypeOK, Progress(call), NEW i \in DOMAIN su.calls, Delta(i)
  PROVE  Progress(call')
<1>1. /\ Unchanged(call, call') /\ call'.p = call.p /\ call'.block = call.block
      /\ call'.came = [call.came EXCEPT ![i] = @ + 1]
      /\ call'.begun = IF call.came[i] = 0 THEN Append(call.begun, i) ELSE call.begun
      /\ call'.kept = IF call.came[i] = 0 THEN call.kept ELSE [call.kept EXCEPT ![i] = @ + 1]
  BY DeltaGrows
<1>2. main.class = "openai" /\ ~call.done /\ call'.done = FALSE
  <2>1. call \in Requests
    BY DEF CallTypeOK, RequestOK
  <2>2. QED
    BY <1>1, <2>1 DEF Delta, Streaming, Unchanged, Requests
<1>3. /\ call.came \in [DOMAIN su.calls -> Nat] /\ call.kept \in [DOMAIN su.calls -> Nat]
      /\ call.begun \in Seq(DOMAIN su.calls)
  BY DEF CallTypeOK, RequestOK, Requests
<1>4. \A k \in DOMAIN su.calls : Begins(call, k) /\ KeptOK(call, k) /\ Absent(call.p.out, k)
  BY <1>2 DEF Progress, AtEndOK
<1>5. ASSUME NEW k \in DOMAIN su.calls PROVE KeptOK(call', k)
  <2>1. KeptOK(call, k) /\ KeptOK(call, i)
    BY <1>4
  <2>2. CASE call.came[i] = 0
    BY <1>1, <1>3, <2>1, <2>2 DEF KeptOK
  <2>3. CASE call.came[i] # 0
    BY <1>1, <1>3, <2>1, <2>3 DEF KeptOK
  <2>4. QED
    BY <2>2, <2>3
<1>6. ASSUME NEW k \in DOMAIN su.calls PROVE Begins(call', k)
  <2>1. Begins(call, k) /\ Begins(call, i)
    BY <1>4
  <2>2. CASE call.came[i] # 0
    <3>1. call'.begun = call.begun /\ (call'.came[k] = 0 <=> call.came[k] = 0)
      BY <1>1, <1>3, <2>2
    <3>2. QED
      BY <2>1, <3>1, Zenon DEF Begins
  <2>3. CASE call.came[i] = 0
    <3> DEFINE b == call.begun
               n == Len(b)
               b2 == Append(b, i)
    <3>1. /\ n \in Nat /\ DOMAIN b = 1..n /\ DOMAIN b2 = 1..(n + 1) /\ b2[n + 1] = i
          /\ \A j \in 1..n : b2[j] = b[j]
      <4> HIDE DEF b
      <4>1. b \in Seq(DOMAIN su.calls)
        BY <1>3 DEF b
      <4>2. QED
        BY <4>1, AppendProperties, LenProperties
    <3>2. call'.begun = b2 /\ call'.came[i] # 0 /\ (k # i => call'.came[k] = call.came[k])
      BY <1>1, <1>3, <2>3
    <3>3. \A j \in DOMAIN b : b[j] # i
      BY <2>1, <2>3 DEF Begins
    <3> HIDE DEF b2, n
    <3>4. CASE k = i
      <4>1. n + 1 \in DOMAIN b2 /\ b2[n + 1] = i /\ \A j \in DOMAIN b2 : b2[j] = i => j = n + 1
        BY <3>1, <3>3
      <4>2. QED
        BY <3>2, <3>4, <4>1, Zenon DEF Begins
    <3>5. CASE k # i /\ call.came[k] = 0
      <4>1. \A j \in DOMAIN b2 : b2[j] # k
        <5>1. \A j \in DOMAIN b : b[j] # k
          BY <2>1, <3>5 DEF Begins
        <5>2. QED
          BY <3>1, <3>5, <5>1
      <4>2. QED
        BY <3>2, <3>5, <4>1, Zenon DEF Begins
    <3>6. CASE k # i /\ call.came[k] # 0
      <4>1. PICK j \in DOMAIN b : b[j] = k /\ \A m \in DOMAIN b : b[m] = k => m = j
        BY <2>1, <3>6 DEF Begins
      <4>2. j \in DOMAIN b2 /\ b2[j] = k /\ \A m \in DOMAIN b2 : b2[m] = k => m = j
        BY <3>1, <3>6, <4>1
      <4>3. QED
        BY <3>2, <3>6, <4>2, Zenon DEF Begins
    <3>7. QED
      BY <3>4, <3>5, <3>6
  <2>4. QED
    BY <2>2, <2>3
<1>7. call.block = 0
  BY <1>2 DEF Progress
<1>8. \A k \in DOMAIN su.calls : AtEndOK(call', k)
  BY <1>1, <1>2, <1>4, <1>5, <1>6 DEF AtEndOK
<1>9. QED
  BY <1>1, <1>2, <1>7, <1>8 DEF Progress

LEMMA BlockStartProgress ==
  ASSUME CallTypeOK, Progress(call), NEW i \in DOMAIN su.calls, BlockStart(i)
  PROVE  Progress(call')
<1>1. /\ Unchanged(call, call') /\ call'.p = call.p
      /\ call'.came = [call.came EXCEPT ![i] = 1] /\ call'.block = i /\ call'.kept = call.kept
  BY BlockGrows
<1>2. main.class = "anthropic" /\ ~call.done /\ call.block = 0 /\ call.came[i] = 0 /\ ~call'.done
  BY <1>1 DEF BlockStart, Streaming, Unchanged
<1>3. /\ call.came \in [DOMAIN su.calls -> Nat] /\ su \in Setups
  BY DEF CallTypeOK, RegistryOK, RequestOK, Requests
<1>4. \A k \in DOMAIN su.calls : k \in Nat \ {0} /\ su.calls[k] \in Nat \ {0}
  BY <1>3, SetupFacts
<1>5. ASSUME NEW k \in DOMAIN su.calls PROVE AtOnceOK(call', k)
  <2>1. AtOnceOK(call, k) /\ KeptOK(call, k)
    BY <1>2 DEF Progress, AtOnceOK, Gathered
  <2>2. KeptOK(call', k)
    BY <1>1, <1>2, <1>3, <2>1 DEF KeptOK
  <2>3. CASE k = i
    <3>1. Absent(call.p.out, k)
      BY <1>2, <1>4, <2>1, <2>3 DEF AtOnceOK
    <3>2. QED
      BY <1>1, <2>2, <2>3, <3>1 DEF AtOnceOK
  <2>4. CASE k # i
    <3>1. call'.came[k] = call.came[k] /\ call.block # k /\ call'.block # k
      BY <1>1, <1>2, <1>3, <1>4, <2>4
    <3>2. QED
      BY <1>1, <2>1, <2>2, <3>1 DEF AtOnceOK, YieldedOnce
  <2>5. QED
    BY <2>3, <2>4
<1>6. call'.came[i] # 0
  BY <1>1, <1>3
<1>7. QED
  BY <1>1, <1>2, <1>5, <1>6 DEF Progress

LEMMA BlockDeltaProgress ==
  ASSUME CallTypeOK, Progress(call), BlockDelta
  PROVE  Progress(call')
<1> DEFINE i == call.block
<1>1. /\ Unchanged(call, call') /\ call'.p = call.p /\ i \in DOMAIN su.calls
      /\ call'.came = [call.came EXCEPT ![i] = @ + 1] /\ call'.block = i
      /\ call'.kept = [call.kept EXCEPT ![i] = @ + 1]
  BY BlockDeltaGrows
<1>2. main.class = "anthropic" /\ i # 0 /\ call.came[i] # 0 /\ ~call.done /\ ~call'.done
  BY <1>1 DEF BlockDelta, Streaming, Unchanged, Progress
<1>3. /\ call.came \in [DOMAIN su.calls -> Nat] /\ call.kept \in [DOMAIN su.calls -> Nat]
  BY DEF CallTypeOK, RequestOK, Requests
<1>4. \A k \in DOMAIN su.calls : AtOnceOK(call, k) /\ KeptOK(call, k)
  BY <1>2 DEF Progress, AtOnceOK, Gathered
<1> HIDE DEF i
<1>5. call.block = i
  BY DEF i
<1>6. ASSUME NEW k \in DOMAIN su.calls PROVE AtOnceOK(call', k)
  <2>1. KeptOK(call', k)
    <3>1. KeptOK(call, k) /\ call.came[k] \in Nat /\ call.kept[k] \in Nat
      BY <1>3, <1>4
    <3>2. CASE k = i
      <4>1. call'.came[k] = call.came[k] + 1 /\ call'.kept[k] = call.kept[k] + 1
        BY <1>1, <1>3, <3>2
      <4>2. QED
        BY <1>2, <3>1, <3>2, <4>1 DEF KeptOK
    <3>3. CASE k # i
      <4>1. call'.came[k] = call.came[k] /\ call'.kept[k] = call.kept[k]
        BY <1>1, <1>3, <3>3
      <4>2. QED
        BY <3>1, <4>1 DEF KeptOK
    <3>4. QED
      BY <3>2, <3>3
  <2>2. CASE k = i
    <3>1. Absent(call.p.out, k)
      BY <1>4, <1>5, <2>2 DEF AtOnceOK
    <3>2. QED
      BY <1>1, <2>1, <2>2, <3>1 DEF AtOnceOK
  <2>3. CASE k # i
    <3>1. call'.came[k] = call.came[k] /\ call.block # k /\ call'.block # k
      BY <1>1, <1>3, <1>5, <2>3
    <3>2. QED
      BY <1>1, <1>4, <2>1, <3>1 DEF AtOnceOK, YieldedOnce
  <2>4. QED
    BY <2>2, <2>3
<1>7. call'.came[i] # 0
  BY <1>1, <1>3
<1>8. QED
  BY <1>1, <1>2, <1>6, <1>7 DEF Progress

LEMMA BlockStopProgress ==
  ASSUME CallTypeOK, Progress(call), BlockStop
  PROVE  Progress(call')
<1> DEFINE i == call.block
           e == Call(i, call.kept[i])
<1>1. /\ Unchanged(call, call') /\ i \in DOMAIN su.calls /\ call'.p.out = call.p.out \o <<e>>
      /\ call'.came = call.came /\ call'.kept = call.kept /\ call'.block = 0
  BY BlockStopGrows
<1>2. main.class = "anthropic" /\ i # 0 /\ ~call.done /\ ~call'.done /\ call.came[i] = su.calls[i]
  BY <1>1 DEF BlockStop, Streaming, Unchanged, Progress
<1>3. su \in Setups /\ call.kept \in [DOMAIN su.calls -> Nat] /\ call.p.out \in Seq(Pieces)
  BY DEF CallTypeOK, RegistryOK, RequestOK, Requests, WellKept, Parsers
<1>4. \A k \in DOMAIN su.calls : k \in Nat \ {0} /\ su.calls[k] \in Nat \ {0}
  BY <1>3, SetupFacts
<1>5. \A k \in DOMAIN su.calls : AtOnceOK(call, k) /\ KeptOK(call, k)
  BY <1>2 DEF Progress, AtOnceOK, Gathered
<1>6. /\ <<e>> \in Seq(Pieces) /\ Once(<<e>>, i, call.kept[i])
      /\ \A k \in DOMAIN su.calls : k # i => Absent(<<e>>, k)
  <2>1. i \in Nat /\ call.kept[i] \in Nat
    BY <1>1, <1>3, <1>4
  <2>2. QED
    BY <1>4, <2>1, OneCall
<1>7. call.block = i
  OBVIOUS
<1> HIDE DEF e, i
<1>8. ASSUME NEW k \in DOMAIN su.calls PROVE AtOnceOK(call', k)
  <2>1. KeptOK(call', k)
    BY <1>1, <1>5, Zenon DEF KeptOK
  <2>2. CASE k = i
    <3>1. Absent(call.p.out, i)
      BY <1>5, <1>7, <2>2 DEF AtOnceOK
    <3>2. call.kept[i] = su.calls[i] - 1
      BY <1>1, <1>2, <1>4, <1>5 DEF KeptOK
    <3>6. call.kept[i] = Arguments(i) - Dropped(i)
      BY <1>1, <1>2, <1>3, <3>2, BringsTyped
    <3>3. YieldedOnce(call', k)
      <4>1. Once(call.p.out \o <<e>>, i, call.kept[i])
        BY <1>3, <1>6, <3>1, JoinCalls
      <4>2. QED
        BY <1>1, <2>2, <3>6, <4>1, Zenon DEF YieldedOnce
    <3>4. call'.came[k] = su.calls[k] /\ call'.block # k
      BY <1>1, <1>2, <1>4, <2>2
    <3>5. QED
      BY <2>1, <3>3, <3>4 DEF AtOnceOK
  <2>3. CASE k # i
    <3>1. call'.came[k] = call.came[k] /\ call.block # k /\ call'.block # k
      BY <1>1, <1>4, <1>7, <2>3
    <3>2. Absent(<<e>>, k)
      BY <1>6, <2>3
    <3>3. /\ Absent(call.p.out, k) => Absent(call'.p.out, k)
          /\ YieldedOnce(call, k) => YieldedOnce(call', k)
      BY <1>1, <1>6, <3>2, CallsStay
    <3>4. QED
      BY <1>5, <2>1, <3>1, <3>3, Zenon DEF AtOnceOK
  <2>4. QED
    BY <2>2, <2>3
<1>9. QED
  BY <1>1, <1>2, <1>8 DEF Progress

LEMMA ChunkProgress ==
  ASSUME CallTypeOK, Progress(call), NEW i \in DOMAIN su.calls, ChunkOfCall(i)
  PROVE  Progress(call')
<1> DEFINE e == Call(i, Brings(i, call.came[i] + 1))
<1>1. /\ Unchanged(call, call') /\ call'.came = [call.came EXCEPT ![i] = @ + 1]
      /\ call'.block = call.block
      /\ call'.p.out = call.p.out \o <<e>> \/ (su.calls[i] > 1 /\ call'.p = call.p)
  BY ChunkGrows
<1>2. main.class = "langchain" /\ ~call.done /\ ~call'.done /\ call.came[i] < su.calls[i]
      /\ call.block = 0
  BY <1>1 DEF ChunkOfCall, Streaming, Unchanged, Progress
<1>3. /\ su \in Setups /\ call.came \in [DOMAIN su.calls -> Nat] /\ call.p.out \in Seq(Pieces)
  BY DEF CallTypeOK, RegistryOK, RequestOK, Requests, WellKept, Parsers
<1>4. \A k \in DOMAIN su.calls : k \in Nat \ {0} /\ su.calls[k] \in Nat \ {0}
  BY <1>3, SetupFacts
<1>5. \A k \in DOMAIN su.calls : Gathered(k) => AtOnceOK(call, k)
  BY <1>2 DEF Progress
<1>6. /\ <<e>> \in Seq(Pieces) /\ Once(<<e>>, i, Brings(i, call.came[i] + 1))
      /\ \A k \in DOMAIN su.calls : k # i => Absent(<<e>>, k)
  <2>1. i \in Nat /\ Brings(i, call.came[i] + 1) \in Nat
    BY <1>3, <1>4, BringsTyped
  <2>2. QED
    BY <1>4, <2>1, OneCall
<1> HIDE DEF e
<1>7. ASSUME NEW k \in DOMAIN su.calls, Gathered(k) PROVE AtOnceOK(call', k)
  <2>1. call.block # k /\ call'.block # k
    BY <1>1, <1>2, <1>4
  <2>2. CASE k = i
    <3>1. su.calls[i] = 1 /\ call.came[i] = 0
      BY <1>2, <1>3, <1>7, <2>2 DEF Gathered
    <3>2. Absent(call.p.out, i)
      BY <1>5, <1>7, <2>2, <3>1 DEF AtOnceOK
    <3>3. YieldedOnce(call', k)
      <4>1. call'.p.out = call.p.out \o <<e>>
        BY <1>1, <3>1
      <4>2. Once(call.p.out \o <<e>>, i, Brings(i, call.came[i] + 1))
        BY <1>3, <1>6, <3>2, JoinCalls
      <4>3. Arguments(i) - Dropped(i) = Brings(i, call.came[i] + 1)
        <5>1. Arguments(i) = Brings(i, 1) /\ Brings(i, 1) \in Nat
          BY <1>3, <3>1, BringsTyped
        <5>2. Dropped(i) = 0
          BY <1>2 DEF Dropped
        <5>3. QED
          BY <3>1, <5>1, <5>2
      <4>4. QED
        BY <2>2, <4>1, <4>2, <4>3, Zenon DEF YieldedOnce
    <3>4. call'.came[k] = su.calls[k]
      BY <1>1, <1>3, <2>2, <3>1
    <3>5. QED
      BY <1>2, <2>1, <3>3, <3>4 DEF AtOnceOK
  <2>3. CASE k # i
    <3>1. call'.came[k] = call.came[k]
      BY <1>1, <1>3, <2>3
    <3>2. Absent(<<e>>, k)
      BY <1>6, <2>3
    <3>3. /\ Absent(call.p.out, k) => Absent(call'.p.out, k)
          /\ YieldedOnce(call, k) => YieldedOnce(call', k)
      <4>1. CASE call'.p.out = call.p.out \o <<e>>
        BY <1>6, <3>2, <4>1, CallsStay
      <4>2. CASE call'.p = call.p
        BY <4>2, Zenon DEF YieldedOnce
      <4>3. QED
        BY <1>1, <4>1, <4>2
    <3>4. QED
      BY <1>2, <1>5, <1>7, <2>1, <3>1, <3>3, Zenon DEF AtOnceOK
  <2>4. QED
    BY <2>2, <2>3
<1>8. QED
  BY <1>1, <1>2, <1>7 DEF Progress

LEMMA FinishProgress ==
  ASSUME CallTypeOK, Progress(call), Finish
  PROVE  Progress(call')
<1>1. /\ call'.done = TRUE
      /\ UNCHANGED <<call.came, call.kept, call.begun, call.block>>
      /\ main.class = "openai" =>
           \E more \in Seq(InText) : call'.p.out = (call.p.out \o more) \o Calls(call)
      /\ main.class # "openai" => call'.p = call.p
  BY FinishGrows
<1>2. ~call.done /\ call.came = su.calls /\ call.block = 0
  BY DEF Finish, AllCame
<1>3. su \in Setups /\ call \in Requests /\ call.p.out \in Seq(Pieces)
  BY DEF CallTypeOK, RegistryOK, RequestOK, Requests, WellKept, Parsers
<1>4. \A k \in DOMAIN su.calls : k \in Nat \ {0} /\ su.calls[k] \in Nat \ {0}
  BY <1>3, SetupFacts
<1>5. CASE main.class = "openai"
  <2>1. PICK more \in Seq(InText) : call'.p.out = (call.p.out \o more) \o Calls(call)
    BY <1>1, <1>5
  <2>2. more \in Seq(Pieces) /\ Calls(call) \in Seq(Pieces)
    BY <1>3, PiecesInText, CallsTyped
  <2>3. ASSUME NEW k \in DOMAIN su.calls PROVE AtEndOK(call', k)
    <3>1. AtEndOK(call, k)
      BY <1>5 DEF Progress
    <3>2. Absent(call.p.out, k) /\ Begins(call, k) /\ KeptOK(call, k)
      BY <1>2, <3>1 DEF AtEndOK
    <3>3. call.came[k] # 0 /\ call.kept[k] = Arguments(k) - Dropped(k)
      <4>1. call.came[k] # 0 /\ call.kept[k] = su.calls[k] - 1
        BY <1>2, <1>4, <3>2 DEF KeptOK
      <4>2. Arguments(k) - Dropped(k) = su.calls[k] - 1
        BY <1>3, <1>5, BringsTyped
      <4>3. QED
        BY <4>1, <4>2
    <3>4. Once(Calls(call), k, Arguments(k) - Dropped(k))
      BY <1>3, <3>2, <3>3, CallsOnce
    <3>5. Absent(call.p.out \o more, k) /\ call.p.out \o more \in Seq(Pieces)
      <4>1. Absent(more, k)
        BY <1>4, InTextAbsent
      <4>2. QED
        BY <1>3, <2>2, <3>2, <4>1, JoinCalls, ConcatProperties
    <3>6. YieldedOnce(call', k)
      <4> DEFINE one == call.p.out \o more
      <4>1. one \in Seq(Pieces) /\ Absent(one, k)
        BY <3>5
      <4> HIDE DEF one
      <4>2. Once(one \o Calls(call), k, Arguments(k) - Dropped(k))
        BY <2>2, <3>4, <4>1, JoinCalls
      <4>3. QED
        BY <2>1, <4>2, Zenon DEF YieldedOnce, one
    <3>7. Begins(call', k) /\ KeptOK(call', k)
      BY <1>1, <3>2, Zenon DEF Begins, KeptOK
    <3>8. QED
      BY <1>1, <3>6, <3>7 DEF AtEndOK
  <2>4. QED
    BY <1>1, <1>2, <1>5, <2>3 DEF Progress
<1>6. CASE main.class # "openai"
  <2>1. ASSUME NEW k \in DOMAIN su.calls, Gathered(k) PROVE AtOnceOK(call', k)
    <3>1. AtOnceOK(call, k)
      BY <1>6, <2>1 DEF Progress
    <3>2. call'.p = call.p /\ (KeptOK(call, k) => KeptOK(call', k))
          /\ call'.came = call.came /\ call'.block = call.block
      BY <1>1, <1>6, Zenon DEF KeptOK
    <3>3. YieldedOnce(call, k) => YieldedOnce(call', k)
      BY <3>2, Zenon DEF YieldedOnce
    <3>4. QED
      BY <3>1, <3>2, <3>3, Zenon DEF AtOnceOK
  <2>2. QED
    BY <1>1, <1>2, <1>6, <2>1 DEF Progress
<1>7. QED
  BY <1>5, <1>6

LEMMA StepCalls == CallTypeOK /\ CallsInv /\ [CallNext]_callVars => CallsInv'
<1> SUFFICES ASSUME CallTypeOK, CallsInv, [CallNext]_callVars PROVE CallsInv'
  OBVIOUS
<1>1. CASE Aside
  BY <1>1, AsideQuiet DEF CallsInv
<1>2. CASE Begin \/ Refused
  BY <1>2 DEF Begin, Refused, CallsInv
<1>3. ASSUME UNCHANGED <<su, main>>, phase' = "stream", Streams, Progress(call') PROVE CallsInv'
  <2>1. Streams'
    BY <1>3 DEF Streams
  <2>2. \A i : YieldedOnce(call, i)' <=> YieldedOnce(call', i)
    BY <1>3 DEF YieldedOnce, Once, Arguments, Dropped, Brings
  <2>3. Progress(call)'
    BY <1>3, <2>2 DEF Progress, AtEndOK, AtOnceOK, Gathered, KeptOK, Begins, Absent
  <2>4. QED
    BY <1>3, <2>1, <2>3 DEF CallsInv
<1>4. CASE Accepted
  <2>1. UNCHANGED <<su, main>> /\ phase' = "stream" /\ Streams
    BY <1>4 DEF Accepted, registry
  <2>2. QED
    BY <1>3, <1>4, <2>1, AcceptedProgress
<1>5. CASE Whole
  <2>1. UNCHANGED <<su, main>> /\ ~Streams /\ phase' = "answered"
    BY <1>5, WholeGrows
  <2>2. QED
    BY <2>1 DEF CallsInv, Streams
<1>6. CASE StreamStep
  <2>1. phase = "stream" /\ phase' = "stream" /\ UNCHANGED <<su, main>>
    BY <1>6, StreamGrows
  <2>2. Streams /\ Progress(call)
    BY <2>1 DEF CallsInv
  <2>3. Progress(call')
    BY <1>6, <2>2, ContentProgress, DeltaProgress, BlockStartProgress, BlockDeltaProgress,
       BlockStopProgress, ChunkProgress, FinishProgress, Zenon DEF StreamStep
  <2>4. QED
    BY <1>3, <2>1, <2>2, <2>3
<1>7. CASE StreamEnds \/ Cut
  <2>1. UNCHANGED <<su, main, call>> /\ phase = "stream" /\ phase' # "stream"
    BY <1>7 DEF StreamEnds, Cut, registry
  <2>2. Progress(call)
    BY <2>1 DEF CallsInv
  <2>3. ASSUME call.done, NEW i \in DOMAIN su.calls, Gathered(i) PROVE YieldedOnce(call, i)
    <3>1. call.came = su.calls /\ call.block = 0
      BY <2>2, <2>3 DEF Progress
    <3>2. i # 0
      BY SetupFacts DEF CallTypeOK, RegistryOK
    <3>3. QED
      BY <2>2, <2>3, <3>1, <3>2 DEF Progress, AtEndOK, AtOnceOK
  <2>4. call.done => (\A i \in DOMAIN su.calls : Gathered(i) => YieldedOnce(call, i))'
    BY <2>1, <2>3 DEF YieldedOnce, Gathered, Arguments, Dropped, Brings
  <2>5. QED
    BY <2>1, <2>4 DEF CallsInv
<1>8. CASE UNCHANGED callVars
  BY <1>8 DEF callVars, CallsInv, Streams, Progress, AtEndOK, AtOnceOK, Gathered, YieldedOnce,
     Arguments, Dropped, Brings, KeptOK, Begins
<1>9. QED
  BY <1>1, <1>2, <1>4, <1>5, <1>6, <1>7, <1>8, StepsOfCall

\* Every call whose chunks are put together is yielded once, with all pieces of its own
\* arguments but those that come with its opening.  (openai.py:319-370, anthropic.py:152-191)
THEOREM CallsAreWhole == CallSpec => []CallsWhole
<1>1. CallInit => CallsInv
  BY DEF CallInit, CallsInv
<1>2. CallTypeOK /\ CallsInv => CallsWhole
  BY DEF CallsInv, CallsWhole, YieldedOnce, Once
<1>3. QED
  BY TypesOfCalls, <1>1, <1>2, StepCalls, PTL DEF CallSpec

-----------------------------------------------------------------------------
(* A stream and its whole text.  Places in a part of a text are those in the text. *)

\* What stands in s behind the first i symbols, up to the symbol e.
Part(s, i, e) == SubSeq(s, i + 1, e)

LEMMA PartFacts ==
  ASSUME NEW s \in Texts, NEW e \in 0..Len(s), NEW i \in 0..e
  PROVE  /\ Part(s, i, e) \in Texts /\ Len(Part(s, i, e)) = e - i
         /\ \A n \in 1..(e - i) : Part(s, i, e)[n] = s[i + n]
         /\ \A j \in i..e : Part(s, i, j) \o Part(s, j, e) = Part(s, i, e)
<1>0. Len(s) \in Nat /\ s \in Seq(Symbols)
  BY DEF Texts
<1>1. \A j \in (i + 1)..e : s[j] \in Symbols
  BY <1>0
<1>2. /\ SubSeq(s, i + 1, e) \in Seq(Symbols)
      /\ Len(SubSeq(s, i + 1, e)) = IF i + 1 <= e THEN e - (i + 1) + 1 ELSE 0
      /\ \A n \in 1 .. e - (i + 1) + 1 : SubSeq(s, i + 1, e)[n] = s[i + 1 + n - 1]
  BY <1>0, <1>1, SubSeqProperties
<1>3. Part(s, i, e) \in Texts /\ Len(Part(s, i, e)) = e - i
  BY <1>0, <1>2 DEF Part, Texts
<1>4. ASSUME NEW n \in 1..(e - i) PROVE Part(s, i, e)[n] = s[i + n]
  <2>1. n \in 1 .. e - (i + 1) + 1 /\ i + 1 + n - 1 = i + n
    BY <1>0
  <2>2. SubSeq(s, i + 1, e)[n] = s[i + 1 + n - 1]
    BY <1>2, <2>1
  <2>3. QED
    BY <2>1, <2>2 DEF Part
<1>5. ASSUME NEW j \in i..e PROVE Part(s, i, j) \o Part(s, j, e) = Part(s, i, e)
  <2>1. i + 1 \in 1..(Len(s) + 1) /\ j \in (i + 1) - 1 .. Len(s) /\ e \in j..Len(s)
    BY <1>0
  <2>2. QED
    BY <1>0, <2>1, ConcatAdjacentSubSeq DEF Part
<1>6. QED
  BY <1>3, <1>4, <1>5

\* A part of a part is a part of the whole.
LEMMA PartOfPart ==
  ASSUME NEW s \in Texts, NEW e \in 0..Len(s), NEW i \in 0..e,
         NEW n \in 0..(e - i), NEW m \in 0..n
  PROVE  Part(Part(s, i, e), m, n) = Part(s, i + m, i + n)
<1>0. Len(s) \in Nat
  BY DEF Texts
<1> DEFINE r == Part(s, i, e)
           a == Part(r, m, n)
           b == Part(s, i + m, i + n)
<1>1. r \in Texts /\ Len(r) = e - i /\ \A k \in 1..(e - i) : r[k] = s[i + k]
  BY PartFacts
<1> HIDE DEF r
<1>2. a \in Texts /\ Len(a) = n - m /\ \A k \in 1..(n - m) : a[k] = r[m + k]
  <2>1. n \in 0..Len(r)
    BY <1>1
  <2>2. QED
    BY <1>1, <2>1, PartFacts
<1>3. b \in Texts /\ Len(b) = n - m /\ \A k \in 1..(n - m) : b[k] = s[i + m + k]
  <2>1. i + n \in 0..Len(s) /\ i + m \in 0..(i + n) /\ (i + n) - (i + m) = n - m
    BY <1>0
  <2>2. /\ Part(s, i + m, i + n) \in Texts /\ Len(Part(s, i + m, i + n)) = (i + n) - (i + m)
        /\ \A k \in 1..((i + n) - (i + m)) : Part(s, i + m, i + n)[k] = s[i + m + k]
    BY <2>1, PartFacts
  <2>3. QED
    BY <2>1, <2>2
<1> HIDE DEF a, b
<1>4. \A k \in 1..(n - m) : a[k] = b[k]
  <2> TAKE k \in 1..(n - m)
  <2>1. m + k \in 1..(e - i) /\ i + (m + k) = i + m + k
    BY <1>0
  <2>2. a[k] = r[m + k] /\ r[m + k] = s[i + (m + k)] /\ b[k] = s[i + m + k]
    BY <1>1, <1>2, <1>3, <2>1
  <2>3. QED
    BY <2>1, <2>2
<1>5. a = b
  BY <1>2, <1>3, <1>4, SeqEqual DEF Texts
<1>6. QED
  BY <1>5 DEF a, b, r

\* Where a tag stands in a part of a text.
LEMMA PlacesInPart ==
  ASSUME NEW s \in Texts, NEW e \in 0..Len(s), NEW i \in 0..e, NEW tag \in Texts, NEW k \in Nat
  PROVE  k \in Places(Part(s, i, e), tag) <=> (i + k \in Places(s, tag) /\ i + k + Len(tag) <= e)
<1>0. Len(s) \in Nat /\ Len(tag) \in Nat
  BY DEF Texts
<1> DEFINE r == Part(s, i, e)
           t == Len(tag)
<1>1. r \in Texts /\ Len(r) = e - i
  BY PartFacts
<1>2. k \in Places(r, tag) <=> (k \in 0..Len(r) /\ k + t <= Len(r) /\ SubSeq(r, k + 1, k + t) = tag)
  BY DEF Places
<1>3. i + k \in Places(s, tag) <=>
        (i + k \in 0..Len(s) /\ i + k + t <= Len(s) /\ SubSeq(s, i + k + 1, i + k + t) = tag)
  BY DEF Places
<1>4. ASSUME k + t <= e - i PROVE SubSeq(r, k + 1, k + t) = SubSeq(s, i + k + 1, i + k + t)
  <2>1. k + t \in 0..(e - i) /\ k \in 0..(k + t) /\ i + (k + t) = i + k + t
    BY <1>0, <1>4
  <2>2. Part(r, k, k + t) = Part(s, i + k, i + (k + t))
    BY <2>1, PartOfPart
  <2>3. QED
    BY <2>1, <2>2, Zenon DEF Part
<1> HIDE DEF r
<1>5. t \in Nat
  BY <1>0
<1> HIDE DEF t
<1>6. ASSUME k \in Places(r, tag) PROVE i + k \in Places(s, tag) /\ i + k + t <= e
  BY <1>0, <1>1, <1>2, <1>3, <1>4, <1>5, <1>6
<1>7. ASSUME i + k \in Places(s, tag), i + k + t <= e PROVE k \in Places(r, tag)
  <2>1. k + t <= e - i /\ k \in 0..Len(r) /\ k + t <= Len(r)
    BY <1>0, <1>1, <1>5, <1>7
  <2>2. SubSeq(s, i + k + 1, i + k + t) = tag
    BY <1>3, <1>7, Zenon
  <2>3. SubSeq(r, k + 1, k + t) = tag
    BY <1>4, <2>1, <2>2, Zenon
  <2>4. QED
    BY <1>2, <2>1, <2>3, Zenon
<1>8. QED
  BY <1>6, <1>7, Zenon DEF r, t

\* The first place of tag in s that is not before place i.
FirstTag(s, tag, i, k) ==
  k \in Places(s, tag) /\ i <= k /\ \A j \in Places(s, tag) : i <= j => k <= j

\* What stands before the first tag of a part, and behind it.
LEMMA FirstInPart ==
  ASSUME NEW s \in Texts, NEW e \in 0..Len(s), NEW i \in 0..e, NEW tag \in Texts
  PROVE  /\ Has(Part(s, i, e), tag) =>
              \E k \in i..e : FirstTag(s, tag, i, k) /\ k + Len(tag) <= e
         /\ \A k \in Nat : FirstTag(s, tag, i, k) /\ k + Len(tag) <= e =>
              /\ Has(Part(s, i, e), tag)
              /\ BeforeTag(Part(s, i, e), tag) = Part(s, i, k)
              /\ AfterTag(Part(s, i, e), tag) = Part(s, k + Len(tag), e)
<1>0. Len(s) \in Nat /\ Len(tag) \in Nat
  BY DEF Texts
<1> DEFINE r == Part(s, i, e)
           t == Len(tag)
<1>1. r \in Texts /\ Len(r) = e - i
  BY PartFacts
<1>2. \A k \in Nat : k \in Places(r, tag) <=> (i + k \in Places(s, tag) /\ i + k + t <= e)
  BY PlacesInPart
<1>3. Places(r, tag) \in SUBSET Nat /\ Places(s, tag) \in SUBSET Nat
  BY <1>0, <1>1 DEF Places
<1>4. t \in Nat
  BY <1>0
<1>5. ASSUME Has(r, tag) PROVE \E k \in i..e : FirstTag(s, tag, i, k) /\ k + t <= e
  <2>1. Places(r, tag) # {}
    BY <1>5 DEF Has
  <2>2. PICK n \in Places(r, tag) : \A m \in Places(r, tag) : n <= m
    BY <1>3, <2>1, LeastNumber
  <2> HIDE DEF r, t
  <2>3. n \in Nat /\ i + n \in Places(s, tag) /\ i + n + t <= e
    BY <1>2, <1>3, <2>2
  <2>4. ASSUME NEW j \in Places(s, tag), i <= j PROVE i + n <= j
    <3>1. CASE j + t <= e
      <4>1. j - i \in Nat /\ i + (j - i) = j
        BY <1>3, <2>4
      <4>2. j - i \in Places(r, tag)
        BY <1>2, <2>4, <3>1, <4>1
      <4>3. QED
        BY <2>2, <2>3, <4>1, <4>2
    <3>2. CASE ~(j + t <= e)
      BY <1>3, <1>4, <2>3, <3>2
    <3>3. QED
      BY <3>1, <3>2
  <2>5. i + n \in i..e
    BY <1>4, <2>3
  <2>6. FirstTag(s, tag, i, i + n)
    BY <2>3, <2>4, <2>5 DEF FirstTag
  <2>7. QED
    BY <2>3, <2>5, <2>6
<1>6. ASSUME NEW k \in Nat, FirstTag(s, tag, i, k), k + t <= e
      PROVE  /\ Has(r, tag) /\ BeforeTag(r, tag) = Part(s, i, k)
             /\ AfterTag(r, tag) = Part(s, k + t, e)
  <2>1. k - i \in Nat /\ i + (k - i) = k /\ k \in Places(s, tag)
    BY <1>6 DEF FirstTag
  <2>2. k - i \in Places(r, tag)
    BY <1>2, <1>6, <2>1
  <2>3. ASSUME NEW m \in Places(r, tag) PROVE k - i <= m
    <3>1. m \in Nat /\ i + m \in Places(s, tag)
      BY <1>2, <1>3
    <3>2. k <= i + m
      BY <1>6, <3>1 DEF FirstTag
    <3>3. QED
      BY <2>1, <3>1, <3>2
  <2>4. Min(Places(r, tag)) = k - i
    <3>1. \A n \in Places(r, tag) : (\A m \in Places(r, tag) : n <= m) => n = k - i
      BY <1>3, <2>1, <2>2, <2>3
    <3>2. QED
      BY <2>2, <2>3, <3>1 DEF Min
  <2>5. BeforeTag(r, tag) = Part(r, 0, k - i)
    <3>1. Part(r, 0, k - i) = SubSeq(r, 1, k - i)
      <4>1. 0 + 1 = 1
        OBVIOUS
      <4>2. QED
        BY <4>1, Zenon DEF Part
    <3>2. QED
      BY <2>4, <3>1, Zenon DEF BeforeTag
  <2>6. AfterTag(r, tag) = Part(r, (k - i) + t, e - i)
    BY <1>1, <2>4 DEF AfterTag, Part
  <2>7. Part(r, 0, k - i) = Part(s, i, k)
    <3>1. k - i \in 0..(e - i) /\ 0 \in 0..(k - i) /\ i + 0 = i
      BY <1>4, <1>6, <2>1
    <3>2. Part(r, 0, k - i) = Part(s, i + 0, i + (k - i))
      BY <3>1, PartOfPart
    <3>3. QED
      BY <2>1, <3>1, <3>2
  <2>8. Part(r, (k - i) + t, e - i) = Part(s, k + t, e)
    <3>1. e - i \in 0..(e - i) /\ (k - i) + t \in 0..(e - i)
          /\ i + ((k - i) + t) = k + t /\ i + (e - i) = e
      BY <1>4, <1>6, <2>1
    <3>2. Part(r, (k - i) + t, e - i) = Part(s, i + ((k - i) + t), i + (e - i))
      BY <3>1, PartOfPart
    <3>3. QED
      BY <3>1, <3>2
  <2>9. Has(r, tag)
    BY <2>2 DEF Has
  <2>10. QED
    BY <2>5, <2>6, <2>7, <2>8, <2>9, Zenon
<1>7. QED
  BY <1>5, <1>6

\* The same for the tags of a call, which have two symbols each.
LEMMA TagInPart ==
  ASSUME NEW s \in Texts, NEW e \in 0..Len(s), NEW i \in 0..e, NEW tag \in {OpenTag, CloseTag}
  PROVE  /\ Has(Part(s, i, e), tag) => \E k \in i..e : FirstTag(s, tag, i, k) /\ k + 2 <= e
         /\ \A k \in Nat : FirstTag(s, tag, i, k) /\ k + 2 <= e =>
              /\ Has(Part(s, i, e), tag)
              /\ BeforeTag(Part(s, i, e), tag) = Part(s, i, k)
              /\ AfterTag(Part(s, i, e), tag) = Part(s, k + 2, e)
<1> DEFINE t == tag
<1>1. t \in Texts /\ Len(t) = 2
  BY TagTypes
<1> HIDE DEF t
<1>2. /\ Has(Part(s, i, e), t) => \E k \in i..e : FirstTag(s, t, i, k) /\ k + Len(t) <= e
      /\ \A k \in Nat : FirstTag(s, t, i, k) /\ k + Len(t) <= e =>
           /\ Has(Part(s, i, e), t)
           /\ BeforeTag(Part(s, i, e), t) = Part(s, i, k)
           /\ AfterTag(Part(s, i, e), t) = Part(s, k + Len(t), e)
  BY <1>1, FirstInPart, Zenon
<1>3. QED
  BY <1>1, <1>2, Zenon DEF t

\* The places of a tag are in the text.
LEMMA PlaceBounds ==
  ASSUME NEW s \in Texts, NEW tag \in {OpenTag, CloseTag}, NEW k \in Places(s, tag)
  PROVE  k \in Nat /\ k + 2 <= Len(s)
<1> DEFINE t == tag
<1>1. Len(t) = 2 /\ k \in Places(s, t)
  BY TagTypes
<1> HIDE DEF t
<1>2. QED
  BY <1>1 DEF Places, Texts


\* What the whole text yields from place i on: nothing but text where no call is, ...
LEMMA BatchPlain ==
  ASSUME NEW s \in Texts, NEW i \in 0..Len(s),
         \/ \A k \in Places(s, OpenTag) : ~(i <= k)
         \/ \E k \in Nat : /\ FirstTag(s, OpenTag, i, k)
                           /\ \A m \in Places(s, CloseTag) : ~(k + 2 <= m)
  PROVE  Batches(s)[i].text = Part(s, i, Len(s)) /\ Batches(s)[i].natives = <<>>
<1>0. Len(s) \in Nat /\ Len(s) \in 0..Len(s) /\ i \in 0..Len(s)
  BY DEF Texts
<1> DEFINE r == Part(s, i, Len(s))
<1>1. r = SubSeq(s, i + 1, Len(s))
  BY DEF Part
<1>2. Batches(s)[i] = BatchStep(s, Batches(s), i)
  BY BatchesAll
<1>3. ~Has(r, OpenTag) \/ ~Has(AfterTag(r, OpenTag), CloseTag)
  <2>1. CASE \A k \in Places(s, OpenTag) : ~(i <= k)
    <3>1. ~Has(r, OpenTag)
      BY <1>0, <2>1, TagInPart DEF FirstTag
    <3>2. QED
      BY <3>1
  <2>2. ASSUME NEW k \in Nat, FirstTag(s, OpenTag, i, k),
               \A m \in Places(s, CloseTag) : ~(k + 2 <= m)
        PROVE  ~Has(AfterTag(r, OpenTag), CloseTag)
    <3>1. k + 2 <= Len(s)
      BY <2>2, PlaceBounds DEF FirstTag
    <3>2. AfterTag(r, OpenTag) = Part(s, k + 2, Len(s))
      BY <1>0, <2>2, <3>1, TagInPart
    <3>3. k + 2 \in 0..Len(s)
      BY <1>0, <3>1
    <3>4. ~Has(Part(s, k + 2, Len(s)), CloseTag)
      BY <1>0, <2>2, <3>3, TagInPart DEF FirstTag
    <3>5. QED
      BY <3>2, <3>4
  <2>3. QED
    BY <2>1, <2>2
<1> HIDE DEF r
<1>4. BatchStep(s, Batches(s), i) = [text |-> r, natives |-> <<>>]
  BY <1>1, <1>3, Zenon DEF BatchStep
<1>5. QED
  BY <1>2, <1>4 DEF r

\* ... and before a call what stands there, the call, and what the rest yields.
CallAt(s, i, k, m) ==
  LET body == Part(s, k + 2, m)
      rest == Batches(s)[m + 2]
  IN /\ k + 2 <= m /\ m + 2 <= Len(s) /\ body \in Texts /\ rest \in Answers
     /\ Parsable(body) => /\ Batches(s)[i].text = Part(s, i, k) \o rest.text
                          /\ Batches(s)[i].natives = <<body>> \o rest.natives
     /\ ~Parsable(body) =>
          /\ Batches(s)[i].text = (Part(s, i, k) \o (OpenTag \o body \o CloseTag)) \o rest.text
          /\ Batches(s)[i].natives = rest.natives

LEMMA BatchCall ==
  ASSUME NEW s \in Texts, NEW i \in 0..Len(s), NEW k \in Nat, FirstTag(s, OpenTag, i, k),
         NEW m \in Nat, FirstTag(s, CloseTag, k + 2, m)
  PROVE  CallAt(s, i, k, m)
<1> DEFINE body == Part(s, k + 2, m)
           rest == Batches(s)[m + 2]
<1>0. Len(s) \in Nat /\ Len(s) \in 0..Len(s) /\ i \in 0..Len(s) /\ i \in Nat
  BY DEF Texts
<1> DEFINE r == Part(s, i, Len(s))
           g == Batches(s)
<1>1. r = SubSeq(s, i + 1, Len(s))
  BY DEF Part
<1>2. g[i] = BatchStep(s, g, i)
  BY BatchesAll
<1>3. i <= k /\ k + 2 <= m /\ m + 2 <= Len(s) /\ k + 2 <= Len(s)
  <2>1. i <= k /\ k + 2 <= m /\ m \in Places(s, CloseTag)
    BY DEF FirstTag
  <2>2. m + 2 <= Len(s)
    BY <2>1, PlaceBounds
  <2>3. QED
    BY <1>0, <2>1, <2>2
<1>4. Has(r, OpenTag) /\ BeforeTag(r, OpenTag) = Part(s, i, k) /\ AfterTag(r, OpenTag) = Part(s, k + 2, Len(s))
  BY <1>0, <1>3, TagInPart
<1>5. Has(Part(s, k + 2, Len(s)), CloseTag) /\ BeforeTag(Part(s, k + 2, Len(s)), CloseTag) = body
  <2>1. k + 2 \in 0..Len(s)
    BY <1>0, <1>3
  <2>2. QED
    BY <1>0, <1>3, <2>1, TagInPart
<1>6. body \in Texts /\ Len(body) = m - (k + 2) /\ Part(s, i, k) \in Texts /\ Len(Part(s, i, k)) = k - i
  <2>1. m \in 0..Len(s) /\ k + 2 \in 0..m /\ k \in 0..Len(s) /\ i \in 0..k
    BY <1>0, <1>3
  <2>2. QED
    BY <2>1, PartFacts
<1> DEFINE before == Part(s, i, k)
           raw == OpenTag \o body \o CloseTag
<1>7. raw \in Texts /\ Len(raw) = Len(body) + 4
  <2> DEFINE half == OpenTag \o body
  <2>0. OpenTag \in Texts /\ CloseTag \in Texts /\ Len(OpenTag) = 2 /\ Len(CloseTag) = 2
    BY TagTypes
  <2>1. half \in Texts /\ Len(half) = 2 + Len(body)
    <3> DEFINE o == OpenTag
    <3>1. o \in Texts /\ Len(o) = 2
      BY <2>0
    <3> HIDE DEF o
    <3>2. o \o body \in Texts /\ Len(o \o body) = 2 + Len(body)
      BY <1>6, <3>1, JoinedLength
    <3>3. QED
      BY <3>2, Zenon DEF o
  <2> HIDE DEF half
  <2>2. half \o CloseTag \in Texts /\ Len(half \o CloseTag) = Len(half) + 2
    BY <2>0, <2>1, JoinedLength
  <2>3. Len(body) \in Nat
    BY <1>6 DEF Texts
  <2>4. Len(half \o CloseTag) = Len(body) + 4
    BY <2>1, <2>2, <2>3
  <2>5. QED
    BY <2>2, <2>4, Zenon DEF half
<1>8. i + Len(before) + Len(raw) = m + 2
  <2> DEFINE x == Len(before)
             y == Len(raw)
  <2>1. x = k - i /\ y = (m - (k + 2)) + 4
    BY <1>6, <1>7
  <2> HIDE DEF x, y
  <2>2. i + x + y = m + 2
    BY <1>0, <2>1
  <2>3. QED
    BY <2>2, Zenon DEF x, y
<1>9. rest \in Answers
  <2>1. m + 2 \in 0..Len(s)
    BY <1>3, <1>0
  <2>2. QED
    BY <2>1, BatchesAll
<1> HIDE DEF r, g, body, rest
<1>10. BatchStep(s, g, i) =
         IF Parsable(body) THEN [text |-> before \o rest.text, natives |-> <<body>> \o rest.natives]
         ELSE [rest EXCEPT !.text = before \o raw \o @]
  <2>1. rest = g[i + Len(before) + Len(raw)]
    BY <1>8, Zenon DEF g, rest
  <2>2. QED
    BY <1>1, <1>4, <1>5, <2>1, Zenon DEF BatchStep
<1> DEFINE u == before \o raw \o rest.text
           v == before \o rest.text
           w == <<body>> \o rest.natives
<1>11. BatchStep(s, g, i) = IF Parsable(body) THEN [text |-> v, natives |-> w] ELSE [rest EXCEPT !.text = u]
  BY <1>10, Zenon
<1> HIDE DEF before, raw, u, v, w
<1>12. /\ Parsable(body) => g[i].text = v /\ g[i].natives = w
       /\ ~Parsable(body) => g[i].text = u /\ g[i].natives = rest.natives
  BY <1>2, <1>9, <1>11 DEF Answers
<1>13. QED
  BY <1>3, <1>6, <1>9, <1>12, Zenon DEF CallAt, body, rest, before, raw, u, v, w, g

\* What stands before the next call is text, wherever the reading of it begins.
LEMMA BatchSkips ==
  ASSUME NEW s \in Texts, NEW j \in 0..Len(s), NEW i \in 0..j,
         \A k \in Places(s, OpenTag) : i <= k => j <= k
  PROVE  /\ Batches(s)[i].text = Part(s, i, j) \o Batches(s)[j].text
         /\ Batches(s)[i].natives = Batches(s)[j].natives
<1>0. Len(s) \in Nat /\ i \in 0..Len(s) /\ Len(s) \in 0..Len(s) /\ i \in Nat /\ j \in Nat
  BY DEF Texts
<1> DEFINE g == Batches(s)
           n == Len(s)
<1>1. Part(s, i, n) = Part(s, i, j) \o Part(s, j, n) /\ Part(s, i, j) \in Texts
  <2>1. j \in i..n
    OBVIOUS
  <2>2. QED
    BY <1>0, <2>1, PartFacts
<1>2. ASSUME g[i].text = Part(s, i, n), g[i].natives = <<>>, g[j].text = Part(s, j, n), g[j].natives = <<>>
      PROVE  g[i].text = Part(s, i, j) \o g[j].text /\ g[i].natives = g[j].natives
  BY <1>1, <1>2, Zenon
<1>3. CASE \A k \in Places(s, OpenTag) : ~(j <= k)
  <2>1. \A k \in Places(s, OpenTag) : ~(i <= k)
    BY <1>3
  <2>2. g[i].text = Part(s, i, n) /\ g[i].natives = <<>>
    BY <1>0, <2>1, BatchPlain
  <2>3. g[j].text = Part(s, j, n) /\ g[j].natives = <<>>
    BY <1>0, <1>3, BatchPlain
  <2>4. QED
    BY <1>2, <2>2, <2>3
<1>4. CASE \E k \in Places(s, OpenTag) : j <= k
  <2> DEFINE T == {k \in Places(s, OpenTag) : j <= k}
  <2>1. T \in SUBSET Nat /\ T # {}
    BY <1>4, PlaceBounds
  <2>2. PICK k \in T : \A h \in T : k <= h
    <3> HIDE DEF T
    <3>1. QED
      BY <2>1, LeastNumber
  <2>3. FirstTag(s, OpenTag, j, k) /\ k \in Nat /\ k + 2 <= n /\ j <= k
    BY <2>2, PlaceBounds DEF FirstTag
  <2>4. FirstTag(s, OpenTag, i, k)
    <3>1. i <= k
      BY <1>0, <2>3
    <3>2. QED
      BY <2>3, <3>1 DEF FirstTag
  <2>5. CASE \A m \in Places(s, CloseTag) : ~(k + 2 <= m)
    <3>1. g[i].text = Part(s, i, n) /\ g[i].natives = <<>>
      BY <1>0, <2>3, <2>4, <2>5, BatchPlain
    <3>2. g[j].text = Part(s, j, n) /\ g[j].natives = <<>>
      BY <1>0, <2>3, <2>5, BatchPlain
    <3>3. QED
      BY <1>2, <3>1, <3>2
  <2>6. CASE \E m \in Places(s, CloseTag) : k + 2 <= m
    <3> DEFINE U == {m \in Places(s, CloseTag) : k + 2 <= m}
    <3>1. U \in SUBSET Nat /\ U # {}
      BY <2>6, PlaceBounds
    <3>2. PICK m \in U : \A h \in U : m <= h
      <4> HIDE DEF U
      <4>1. QED
        BY <3>1, LeastNumber
    <3>3. FirstTag(s, CloseTag, k + 2, m) /\ m \in Nat
      BY <3>2, PlaceBounds DEF FirstTag
    <3> DEFINE body == Part(s, k + 2, m)
               rest == g[m + 2]
               raw == OpenTag \o body \o CloseTag
    <3>0. i \in 0..Len(s) /\ j \in 0..Len(s) /\ k \in Nat
      BY <1>0, <2>3
    <3>4. CallAt(s, i, k, m)
      BY <2>4, <3>0, <3>3, BatchCall
    <3>5. CallAt(s, j, k, m)
      BY <2>3, <3>0, <3>3, BatchCall
    <3>6. Part(s, i, k) = Part(s, i, j) \o Part(s, j, k) /\ Part(s, j, k) \in Texts
      <4>1. k \in 0..n /\ i \in 0..k /\ j \in 0..k /\ j \in i..k
        BY <1>0, <2>3
      <4>2. QED
        BY <4>1, PartFacts
    <3>7. raw \in Texts /\ rest.text \in Texts
      <4>0. body \in Texts /\ rest \in Answers
        BY <3>4, Zenon DEF CallAt
      <4> HIDE DEF body, rest
      <4>1. OpenTag \o body \in Texts
        BY <4>0, TagTypes, TextsJoin
      <4>2. raw \in Texts
        BY <4>1, TagTypes, TextsJoin
      <4>3. QED
        BY <4>0, <4>2 DEF Answers
    <3> DEFINE a == Part(s, i, j)
               b == Part(s, j, k)
               c == rest.text
    <3>8. a \in Texts /\ b \in Texts /\ c \in Texts /\ raw \in Texts
      BY <1>1, <3>6, <3>7
    <3>9. /\ Part(s, i, k) = a \o b
          /\ Parsable(body) => g[i].text = Part(s, i, k) \o c /\ g[j].text = b \o c
          /\ ~Parsable(body) => /\ g[i].text = (Part(s, i, k) \o raw) \o c
                                /\ g[j].text = (b \o raw) \o c
          /\ g[i].natives = g[j].natives
      BY <3>4, <3>5, <3>6, Zenon DEF CallAt
    <3> HIDE DEF a, b, c, raw, body, rest
    <3>10. Regroups(a, b, c) /\ Regroups(a, b, raw) /\ Regroups(a, b \o raw, c)
      <4>1. b \o raw \in Texts
        BY <3>8, TextsJoin
      <4>2. QED
        BY <3>8, <4>1, AllRegroup, Zenon
    <3>11. g[i].text = a \o g[j].text
      BY <3>9, <3>10, Zenon DEF Regroups
    <3>12. QED
      BY <3>9, <3>11, Zenon DEF a
  <2>7. QED
    BY <2>5, <2>6
<1>5. QED
  BY <1>3, <1>4 DEF g

\* The calls found in a list of pieces.
Finds(e) == IF e.kind = "native" THEN <<e.body>> ELSE <<>>
FoundPieces(events) == [i \in DOMAIN events |-> Finds(events[i])]

LEMMA FoundOf ==
  ASSUME NEW ev \in Seq(Pieces)
  PROVE  /\ FoundPieces(ev) \in Seq(Seq(Texts)) /\ Len(FoundPieces(ev)) = Len(ev)
         /\ \A i \in 1..Len(ev) : FoundPieces(ev)[i] = Finds(ev[i])
         /\ NativesOf(ev) = FlattenSeq(FoundPieces(ev))
<1>1. Len(ev) \in Nat /\ DOMAIN ev = 1..Len(ev) /\ \A i \in 1..Len(ev) : ev[i] \in Pieces
  BY ElementOfSeq, LenProperties
<1>2. \A e \in Pieces : Finds(e) \in Seq(Texts)
  <2>1. \A e \in Pieces : <<e.body>> \in Seq(Texts) /\ <<>> \in Seq(Texts)
    BY DEF Pieces
  <2>2. QED
    BY <2>1 DEF Finds
<1> DEFINE n == Len(ev)
<1>3. FoundPieces(ev) = [i \in 1..n |-> Finds(ev[i])]
  BY <1>1 DEF FoundPieces
<1>4. [i \in 1..n |-> Finds(ev[i])] \in [1..n -> Seq(Texts)]
  BY <1>1, <1>2
<1>5. n \in Nat
  BY <1>1
<1> HIDE DEF n
<1>6. FoundPieces(ev) \in Seq(Seq(Texts)) /\ Len(FoundPieces(ev)) = n
  BY <1>3, <1>4, <1>5
<1>7. \A i \in 1..n : FoundPieces(ev)[i] = Finds(ev[i])
  BY <1>3, Zenon
<1>8. NativesOf(ev) = FlattenSeq(FoundPieces(ev))
  BY DEF NativesOf, FoundPieces, Finds
<1>9. QED
  BY <1>6, <1>7, <1>8 DEF n

\* More pieces hold more calls.
LEMMA NativesGrow ==
  ASSUME NEW ev \in Seq(Pieces), NEW more \in Seq(Pieces)
  PROVE  NativesOf(ev) \in Seq(Texts) /\ NativesOf(ev \o more) = NativesOf(ev) \o NativesOf(more)
<1>1. /\ ev \o more \in Seq(Pieces) /\ Len(ev \o more) = Len(ev) + Len(more)
      /\ \A i \in 1..(Len(ev) + Len(more)) :
           (ev \o more)[i] = IF i <= Len(ev) THEN ev[i] ELSE more[i - Len(ev)]
  BY ConcatProperties
<1> DEFINE all == ev \o more
           s == FoundPieces(all)
           a == FoundPieces(ev)
           b == FoundPieces(more)
<1>2. s \in Seq(Seq(Texts)) /\ a \in Seq(Seq(Texts)) /\ b \in Seq(Seq(Texts))
  BY <1>1, FoundOf
<1>3. Len(s) = Len(ev) + Len(more) /\ Len(a) = Len(ev) /\ Len(b) = Len(more)
  BY <1>1, FoundOf
<1>4. \A i \in 1..(Len(ev) + Len(more)) : s[i] = IF i <= Len(a) THEN a[i] ELSE b[i - Len(a)]
  <2> TAKE i \in 1..(Len(ev) + Len(more))
  <2>0. Len(ev) \in Nat /\ Len(more) \in Nat
    OBVIOUS
  <2>1. s[i] = Finds(all[i])
    BY <1>1, FoundOf
  <2>2. CASE i <= Len(ev)
    <3>1. i \in 1..Len(ev)
      BY <2>0, <2>2
    <3>2. a[i] = Finds(ev[i])
      BY <3>1, FoundOf
    <3>3. QED
      BY <1>1, <1>3, <2>1, <2>2, <3>2
  <2>3. CASE ~(i <= Len(ev))
    <3>1. i - Len(ev) \in 1..Len(more)
      BY <2>0, <2>3
    <3>2. b[i - Len(ev)] = Finds(more[i - Len(ev)])
      BY <3>1, FoundOf
    <3>3. QED
      BY <1>1, <1>3, <2>1, <2>3, <3>2
  <2>4. QED
    BY <2>2, <2>3
<1>5. /\ NativesOf(all) = FlattenSeq(s) /\ NativesOf(ev) = FlattenSeq(a)
      /\ NativesOf(more) = FlattenSeq(b)
  BY <1>1, FoundOf
<1> HIDE DEF s, a, b, all
<1>6. /\ a \o b \in Seq(Seq(Texts)) /\ Len(a \o b) = Len(a) + Len(b)
      /\ \A i \in 1..(Len(a) + Len(b)) : (a \o b)[i] = IF i <= Len(a) THEN a[i] ELSE b[i - Len(a)]
  BY <1>2, ConcatProperties
<1>7. s = a \o b
  BY <1>2, <1>3, <1>4, <1>6, SeqEqual
<1>8. FlattenSeq(a) \in Seq(Texts) /\ FlattenSeq(a \o b) = FlattenSeq(a) \o FlattenSeq(b)
  BY <1>2, FlatConcat
<1>9. QED
  BY <1>5, <1>7, <1>8, Zenon DEF all

\* The calls of no piece, and of one.
LEMMA OneFound ==
  ASSUME NEW e \in Pieces
  PROVE  NativesOf(<<>>) = <<>> /\ NativesOf(<<e>>) = Finds(e)
<1>1. <<e>> \in Seq(Pieces) /\ <<>> \in Seq(Pieces) /\ Len(<<e>>) = 1 /\ <<e>>[1] = e
  OBVIOUS
<1>2. NativesOf(<<>>) = <<>>
  <2>1. [i \in DOMAIN <<>> |-> IF <<>>[i].kind = "native" THEN <<<<>>[i].body>> ELSE <<>>] = <<>>
    OBVIOUS
  <2>2. FlattenSeq(<<>>) = <<>>
    BY DEF FlattenSeq
  <2>3. QED
    BY <2>1, <2>2 DEF NativesOf
<1> DEFINE ss == FoundPieces(<<e>>)
<1>3. ss \in Seq(Seq(Texts)) /\ Len(ss) = 1 /\ ss[1] = Finds(e) /\ NativesOf(<<e>>) = FlattenSeq(ss)
  <2>1. 1 \in 1..Len(<<e>>)
    BY <1>1
  <2>2. QED
    BY <1>1, <2>1, FoundOf
<1> HIDE DEF ss
<1>4. FlattenSeq(ss) = ss[1]
  <2>1. ss # <<>>
    BY <1>3
  <2>2. PICK f \in [1..Len(ss) -> Seq(Texts)] : f[1] = ss[1] /\ FlattenSeq(ss) = f[Len(ss)]
    BY <1>3, <2>1, FlatUnfolds
  <2>3. QED
    BY <1>3, <2>2
<1>5. QED
  BY <1>2, <1>3, <1>4

\* A parser that has read e symbols of s: what it holds back begins at place k, and what
\* it has yielded is, in front of what the whole text yields from there, what the whole
\* text yields.
Reading(p, s, e, k) ==
  /\ k \in 0..e
  /\ p.inside => k \in Places(s, OpenTag) /\ k + 2 <= e /\ p.tool = Part(s, k + 2, e)
  /\ ~p.inside => p.text = Part(s, k, e)
  /\ Batches(s)[0].text = TextOf(p.out) \o Batches(s)[k].text
  /\ Batches(s)[0].natives = NativesOf(p.out) \o Batches(s)[k].natives
Agrees(p, s, e) == \E k \in 0..e : Reading(p, s, e, k)

\* Yielding a piece that the whole text yields at the place in hand.
LEMMA PieceAgrees ==
  ASSUME NEW s \in Texts, NEW out \in Seq(Pieces), NEW e \in Pieces,
         NEW i \in 0..Len(s), NEW j \in 0..Len(s),
         Batches(s)[0].text = TextOf(out) \o Batches(s)[i].text,
         Batches(s)[0].natives = NativesOf(out) \o Batches(s)[i].natives,
         Batches(s)[i].text = Shows(e) \o Batches(s)[j].text,
         Batches(s)[i].natives = Finds(e) \o Batches(s)[j].natives
  PROVE  /\ Batches(s)[0].text = TextOf(Append(out, e)) \o Batches(s)[j].text
         /\ Batches(s)[0].natives = NativesOf(Append(out, e)) \o Batches(s)[j].natives
<1> DEFINE m == <<e>>
           b == Batches(s)[j]
           t == TextOf(out)
           f == NativesOf(out)
           x == Shows(e)
           y == Finds(e)
<1>1. Append(out, e) = out \o m /\ m \in Seq(Pieces)
  BY OneMore, OnePiece
<1>2. TextOf(m) = x /\ NativesOf(m) = y
  BY OnePiece, OneFound
<1>3. b.text \in Texts /\ b.natives \in Seq(Texts)
  BY BatchesAll DEF Answers
<1>4. t \in Texts /\ x \in Texts
  BY PiecesGrow, PieceTexts
<1>5. f \in Seq(Texts) /\ y \in Seq(Texts)
  <2>1. f \in Seq(Texts)
    BY NativesGrow
  <2>2. <<e.body>> \in Seq(Texts) /\ <<>> \in Seq(Texts)
    BY DEF Pieces
  <2>3. QED
    BY <2>1, <2>2 DEF Finds
<1>6. TextOf(Append(out, e)) = t \o x /\ NativesOf(Append(out, e)) = f \o y
  <2> HIDE DEF m
  <2>1. TextOf(out \o m) = TextOf(out) \o TextOf(m) /\ NativesOf(out \o m) = NativesOf(out) \o NativesOf(m)
    BY <1>1, PiecesGrow, NativesGrow
  <2>2. QED
    BY <1>1, <1>2, <2>1, Zenon
<1>7. Batches(s)[0].text = t \o (x \o b.text) /\ Batches(s)[0].natives = f \o (y \o b.natives)
  BY Zenon
<1> DEFINE u == b.text
           v == b.natives
<1>8. Regroups(t, x, u)
  BY <1>3, <1>4, AllRegroup, Zenon
<1>9. (f \o y) \o v = f \o (y \o v)
  <2>1. Associates(Texts)
    BY Associative, Zenon
  <2>2. QED
    BY <1>3, <1>5, <2>1, Zenon DEF Associates
<1>10. (t \o x) \o u = t \o (x \o u)
  BY <1>8, Zenon DEF Regroups
<1>11. QED
  BY <1>6, <1>7, <1>9, <1>10, Zenon

\* A piece of text, and a call and a body between two tags, are what they show and hold.
LEMMA PieceHolds ==
  ASSUME NEW body \in Texts
  PROVE  /\ Text(body) \in Pieces /\ Shows(Text(body)) = body /\ Finds(Text(body)) = <<>>
         /\ Between(body) \in Pieces
         /\ Parsable(body) => Shows(Between(body)) = <<>> /\ Finds(Between(body)) = <<body>>
         /\ ~Parsable(body) => /\ Shows(Between(body)) = OpenTag \o body \o CloseTag
                               /\ Finds(Between(body)) = <<>>
<1> DEFINE raw == OpenTag \o body \o CloseTag
<1>1. raw \in Texts
  <2>1. OpenTag \o body \in Texts
    BY TagTypes, TextsJoin
  <2>2. QED
    BY <2>1, TagTypes, TextsJoin
<1>2. /\ Text(body) \in Pieces /\ Native(body) \in Pieces
      /\ Text(body).kind = "text" /\ Text(body).body = body
      /\ Native(body).kind = "native" /\ Native(body).body = body
  BY PieceTypes
<1>3. Between(body) = IF Parsable(body) THEN Native(body) ELSE Text(raw)
  BY DEF Between
<1> HIDE DEF raw
<1>4. Text(raw) \in Pieces /\ Text(raw).kind = "text" /\ Text(raw).body = raw
  BY <1>1, PieceTypes
<1>5. \A x \in Pieces : /\ x.kind = "text" => Shows(x) = x.body /\ Finds(x) = <<>>
                        /\ x.kind = "native" => Shows(x) = <<>> /\ Finds(x) = <<x.body>>
  BY DEF Shows, Finds
<1>6. QED
  BY <1>2, <1>3, <1>4, <1>5, Zenon DEF raw

LEMMA ClosingAgrees ==
  ASSUME NEW s \in Texts, NEW e \in 0..Len(s), NEW p, WellKept(p), p.inside, Agrees(p, s, e)
  PROVE  Agrees(Closing(p), s, e)
<1>1. p.tool \in Texts /\ p.text = <<>> /\ p.out \in Seq(Pieces)
  BY DEF WellKept, Parsers
<1>2. PICK k \in 0..e : Reading(p, s, e, k)
  BY DEF Agrees
<1>3. k \in Places(s, OpenTag) /\ k + 2 <= e /\ p.tool = Part(s, k + 2, e) /\ k \in Nat /\ e \in Nat
  BY <1>2 DEF Reading
<1>4. CASE ~Has(p.tool, CloseTag)
  BY <1>4 DEF Closing
<1>5. CASE Has(p.tool, CloseTag)
  <2>0. k + 2 \in 0..e /\ Len(s) \in Nat /\ k \in 0..Len(s)
    BY <1>3 DEF Texts
  <2>1. PICK m \in (k + 2)..e : FirstTag(s, CloseTag, k + 2, m) /\ m + 2 <= e
    BY <1>3, <1>5, <2>0, TagInPart
  <2>2. m \in Nat /\ BeforeTag(p.tool, CloseTag) = Part(s, k + 2, m)
        /\ AfterTag(p.tool, CloseTag) = Part(s, m + 2, e)
    BY <1>3, <2>0, <2>1, TagInPart
  <2> DEFINE body == Part(s, k + 2, m)
             rest == Batches(s)[m + 2]
             raw == OpenTag \o body \o CloseTag
             q == Closing(p)
  <2>3. FirstTag(s, OpenTag, k, k)
    BY <1>3 DEF FirstTag
  <2>4. CallAt(s, k, k, m)
    BY <1>3, <2>0, <2>1, <2>2, <2>3, BatchCall
  <2>5. body \in Texts /\ rest \in Answers
    BY <2>4, Zenon DEF CallAt
  <2>6. Part(s, k, k) = <<>>
    <3>1. k + 1 \in Int /\ k \in Int /\ k < k + 1
      BY <1>3
    <3>2. QED
      BY <3>1, SubSeqEmpty DEF Part
  <2>7. /\ Parsable(body) => /\ Batches(s)[k].text = <<>> \o rest.text
                             /\ Batches(s)[k].natives = <<body>> \o rest.natives
        /\ ~Parsable(body) => /\ Batches(s)[k].text = (<<>> \o raw) \o rest.text
                              /\ Batches(s)[k].natives = rest.natives
    BY <2>4, <2>6, Zenon DEF CallAt
  <2>8. raw \in Texts /\ <<>> \in Texts
    <3> HIDE DEF body
    <3>1. OpenTag \o body \in Texts
      BY <2>5, TagTypes, TextsJoin
    <3>2. QED
      BY <3>1, TagTypes, TextsJoin
  <2>9. q = [text |-> <<>> \o Part(s, m + 2, e), inside |-> FALSE, tool |-> <<>>,
             out |-> Append(p.out, Between(body))]
    BY <1>1, <1>5, <2>2, Zenon DEF Closing
  <2>10. m + 2 \in 0..e /\ m + 2 \in 0..Len(s)
    BY <2>0, <2>1, <2>2
  <2>11. Part(s, m + 2, e) \in Texts
    BY <2>10, PartFacts
  <2>12. <<>> \o Part(s, m + 2, e) = Part(s, m + 2, e) /\ <<>> \o raw = raw
    <3> DEFINE x == Part(s, m + 2, e)
    <3> HIDE DEF x, raw
    <3>1. <<>> \o x = x /\ <<>> \o raw = raw
      BY <2>8, <2>11, TextsJoin DEF x
    <3>2. QED
      BY <3>1 DEF x
  <2>13. rest.natives = <<>> \o rest.natives
    <3> HIDE DEF rest
    <3>1. rest.natives \in Seq(Texts)
      BY <2>5 DEF Answers
    <3>2. QED
      BY <3>1, ConcatEmptySeq
  <2>14. /\ Between(body) \in Pieces
         /\ Batches(s)[k].text = Shows(Between(body)) \o Batches(s)[m + 2].text
         /\ Batches(s)[k].natives = Finds(Between(body)) \o Batches(s)[m + 2].natives
    BY <2>5, <2>7, <2>12, <2>13, PieceHolds, Zenon
  <2>15. /\ Batches(s)[0].text = TextOf(p.out) \o Batches(s)[k].text
         /\ Batches(s)[0].natives = NativesOf(p.out) \o Batches(s)[k].natives
    BY <1>2 DEF Reading
  <2> HIDE DEF body, rest, raw, q
  <2>16. /\ Batches(s)[0].text = TextOf(Append(p.out, Between(body))) \o Batches(s)[m + 2].text
         /\ Batches(s)[0].natives = NativesOf(Append(p.out, Between(body))) \o Batches(s)[m + 2].natives
    BY <1>1, <2>0, <2>10, <2>14, <2>15, PieceAgrees
  <2>17. q.text = Part(s, m + 2, e) /\ q.inside = FALSE /\ q.out = Append(p.out, Between(body))
    BY <2>9, <2>12
  <2>18. Reading(q, s, e, m + 2)
    BY <2>10, <2>16, <2>17, Zenon DEF Reading
  <2>19. QED
    BY <2>10, <2>18, Zenon DEF Agrees, q
<1>6. QED
  BY <1>4, <1>5

LEMMA OpeningAgrees ==
  ASSUME NEW s \in Texts, NEW e \in 0..Len(s), NEW p, WellKept(p), ~p.inside,
         Has(p.text, OpenTag), Agrees(p, s, e)
  PROVE  Agrees(Opening(p), s, e)
<1>1. p.text \in Texts /\ p.out \in Seq(Pieces) /\ p \in Parsers
  BY DEF WellKept, Parsers
<1>2. PICK k \in 0..e : Reading(p, s, e, k)
  BY DEF Agrees
<1>3. p.text = Part(s, k, e) /\ k \in Nat /\ e \in Nat /\ Len(s) \in Nat
  BY <1>2 DEF Reading, Texts
<1>4. PICK m \in k..e : FirstTag(s, OpenTag, k, m) /\ m + 2 <= e
  BY <1>3, TagInPart
<1>5. m \in Nat /\ BeforeTag(p.text, OpenTag) = Part(s, k, m) /\ AfterTag(p.text, OpenTag) = Part(s, m + 2, e)
  BY <1>3, <1>4, TagInPart
<1> DEFINE b == Part(s, k, m)
           a == Part(s, m + 2, e)
           new == IF b = <<>> THEN p.out ELSE Append(p.out, Text(b))
           q == [text |-> <<>>, inside |-> TRUE, tool |-> a, out |-> new]
<1>6. Opening(p) = Closing(q)
  BY <1>5, Zenon DEF Opening
<1>7. m \in 0..Len(s) /\ k \in 0..m /\ k \in 0..Len(s) /\ m + 2 \in 0..e /\ m \in 0..e
  BY <1>3, <1>4, <1>5
<1>8. b \in Texts /\ a \in Texts
  BY <1>7, PartFacts
<1>9. Batches(s)[k].text = b \o Batches(s)[m].text /\ Batches(s)[k].natives = Batches(s)[m].natives
  <2>1. \A j \in Places(s, OpenTag) : k <= j => m <= j
    BY <1>4 DEF FirstTag
  <2>2. QED
    BY <1>7, <2>1, BatchSkips
<1>10. /\ Batches(s)[0].text = TextOf(p.out) \o Batches(s)[k].text
       /\ Batches(s)[0].natives = NativesOf(p.out) \o Batches(s)[k].natives
  BY <1>2 DEF Reading
<1>11. Batches(s)[m].text \in Texts /\ Batches(s)[m].natives \in Seq(Texts)
  BY <1>7, BatchesAll DEF Answers
<1>12. /\ Batches(s)[0].text = TextOf(new) \o Batches(s)[m].text
       /\ Batches(s)[0].natives = NativesOf(new) \o Batches(s)[m].natives
       /\ new \in Seq(Pieces)
  <2>1. CASE b = <<>>
    <3> DEFINE x == Batches(s)[m].text
    <3>1. x \in Texts
      BY <1>11
    <3> HIDE DEF x
    <3>2. <<>> \o x = x
      BY <3>1, TextsJoin
    <3>3. Batches(s)[k].text = Batches(s)[m].text
      BY <1>9, <2>1, <3>2, Zenon DEF x
    <3>4. QED
      BY <1>1, <1>9, <1>10, <2>1, <3>3
  <2>2. CASE b # <<>>
    <3> HIDE DEF b
    <3>1. Text(b) \in Pieces /\ Shows(Text(b)) = b /\ Finds(Text(b)) = <<>>
      BY <1>8, PieceHolds
    <3>2. Batches(s)[m].natives = <<>> \o Batches(s)[m].natives
      <4> DEFINE x == Batches(s)[m].natives
      <4>1. x \in Seq(Texts)
        BY <1>11
      <4> HIDE DEF x
      <4>2. x = <<>> \o x
        BY <4>1, ConcatEmptySeq
      <4>3. QED
        BY <4>2 DEF x
    <3>3. /\ Batches(s)[k].text = Shows(Text(b)) \o Batches(s)[m].text
          /\ Batches(s)[k].natives = Finds(Text(b)) \o Batches(s)[m].natives
      BY <1>9, <3>1, <3>2, Zenon
    <3>4. /\ Batches(s)[0].text = TextOf(Append(p.out, Text(b))) \o Batches(s)[m].text
          /\ Batches(s)[0].natives = NativesOf(Append(p.out, Text(b))) \o Batches(s)[m].natives
      BY <1>1, <1>7, <1>10, <3>1, <3>3, PieceAgrees
    <3>5. Append(p.out, Text(b)) \in Seq(Pieces)
      BY <1>1, <3>1, OneMore
    <3>6. QED
      BY <2>2, <3>4, <3>5
  <2>3. QED
    BY <2>1, <2>2
<1> HIDE DEF b, a, new
<1>13. q.text = <<>> /\ q.inside = TRUE /\ q.tool = a /\ q.out = new
  OBVIOUS
<1>14. WellKept(q)
  BY <1>8, <1>12, EmptyFacts DEF WellKept, Parsers
<1>15. m \in Places(s, OpenTag) /\ m + 2 <= e
  BY <1>4 DEF FirstTag
<1> HIDE DEF q
<1>16. Reading(q, s, e, m)
  BY <1>7, <1>12, <1>13, <1>15, Zenon DEF Reading, a
<1>17. Agrees(q, s, e)
  BY <1>7, <1>16, Zenon DEF Agrees
<1>18. Agrees(Closing(q), s, e)
  BY <1>13, <1>14, <1>17, ClosingAgrees
<1>19. QED
  BY <1>6, <1>18 DEF q, new, a, b

\* A part without a tag: no tag that begins in it ends in it.
LEMMA NoTagInPart ==
  ASSUME NEW s \in Texts, NEW e \in 0..Len(s), NEW i \in 0..e, NEW tag \in {OpenTag, CloseTag},
         ~Has(Part(s, i, e), tag)
  PROVE  \A k \in Places(s, tag) : i <= k => k + 2 > e
<1> SUFFICES ASSUME NEW k \in Places(s, tag), i <= k, ~(k + 2 > e) PROVE FALSE
  OBVIOUS
<1>0. k \in Nat /\ i \in Nat /\ e \in Nat /\ Len(s) \in Nat
  BY PlaceBounds DEF Texts
<1> DEFINE t == tag
<1>1. t \in Texts /\ Len(t) = 2 /\ k \in Places(s, t)
  BY TagTypes
<1> HIDE DEF t
<1>2. k - i \in Nat /\ i + (k - i) = k /\ k + Len(t) <= e
  BY <1>0, <1>1
<1> DEFINE d == k - i
<1>3. d \in Nat /\ i + d \in Places(s, t) /\ i + d + Len(t) <= e
  BY <1>1, <1>2
<1> HIDE DEF d
<1>4. d \in Places(Part(s, i, e), t)
  BY <1>1, <1>3, PlacesInPart, Zenon
<1>5. QED
  BY <1>4, Zenon DEF Has, t

LEMMA FlushAgrees ==
  ASSUME NEW s \in Texts, NEW e \in 0..Len(s), NEW p, WellKept(p), ~p.inside,
         ~Has(p.text, OpenTag), Agrees(p, s, e)
  PROVE  Agrees(Flush(p), s, e)
<1>1. p.text \in Texts /\ p.out \in Seq(Pieces) /\ p \in Parsers
  BY DEF WellKept, Parsers
<1>2. PICK k \in 0..e : Reading(p, s, e, k)
  BY DEF Agrees
<1>3. p.text = Part(s, k, e) /\ k \in Nat /\ e \in Nat /\ Len(s) \in Nat /\ e <= Len(s)
  BY <1>2 DEF Reading, Texts
<1>4. Len(p.text) = e - k /\ Len(OpenTag) = 2
  BY <1>3, PartFacts, TagTypes
<1>5. CASE Len(p.text) <= Len(OpenTag)
  BY <1>5 DEF Flush
<1>6. CASE ~(Len(p.text) <= Len(OpenTag))
  <2> DEFINE m == e - 2
             a == SubSeq(p.text, 1, Len(p.text) - Len(OpenTag))
             b == SubSeq(p.text, Len(p.text) - Len(OpenTag) + 1, Len(p.text))
             q == Flush(p)
  <2>1. m \in 0..e /\ m \in 0..Len(s) /\ k \in 0..m /\ k \in 0..Len(s) /\ (e - k) - 2 = m - k
    BY <1>3, <1>4, <1>6
  <2>2. a = Part(s, k, m) /\ b = Part(s, m, e)
    <3>1. Len(p.text) - Len(OpenTag) = m - k /\ Len(p.text) = e - k
      BY <1>4, <2>1
    <3>2. Part(p.text, 0, m - k) = Part(s, k + 0, k + (m - k))
      <4>1. m - k \in 0..(e - k) /\ 0 \in 0..(m - k)
        BY <1>3, <2>1
      <4>2. QED
        BY <1>3, <4>1, PartOfPart
    <3>3. Part(p.text, m - k, e - k) = Part(s, k + (m - k), k + (e - k))
      <4>1. e - k \in 0..(e - k) /\ m - k \in 0..(e - k)
        BY <1>3, <2>1
      <4>2. QED
        BY <1>3, <4>1, PartOfPart
    <3>4. k + 0 = k /\ k + (m - k) = m /\ k + (e - k) = e /\ 0 + 1 = 1
      BY <1>3, <2>1
    <3>5. a = SubSeq(p.text, 1, m - k) /\ b = SubSeq(p.text, (m - k) + 1, e - k)
      BY <3>1
    <3> HIDE DEF m, a, b
    <3>6. QED
      BY <3>2, <3>3, <3>4, <3>5, Zenon DEF Part
  <2>3. Part(s, k, m) \in Texts /\ Part(s, m, e) \in Texts
    BY <1>3, <2>1, PartFacts
  <2>4. q = [p EXCEPT !.text = SubSeq(@, Len(p.text) - Len(OpenTag) + 1, Len(@)),
                      !.out = Append(@, Text(SubSeq(p.text, 1, Len(p.text) - Len(OpenTag))))]
    BY <1>6, Zenon DEF Flush
  <2>5. q.text = b /\ q.inside = p.inside /\ q.out = Append(p.out, Text(a))
    BY <1>1, <2>4 DEF Parsers
  <2>6. Batches(s)[k].text = Part(s, k, m) \o Batches(s)[m].text /\ Batches(s)[k].natives = Batches(s)[m].natives
    <3>1. \A j \in Places(s, OpenTag) : k <= j => m <= j
      <4>1. \A j \in Places(s, OpenTag) : k <= j => j + 2 > e
        BY <1>3, NoTagInPart
      <4>2. \A j \in Places(s, OpenTag) : j \in Nat
        BY PlaceBounds
      <4>3. QED
        BY <1>3, <4>1, <4>2
    <3>2. QED
      BY <2>1, <3>1, BatchSkips
  <2>7. Batches(s)[m].natives = <<>> \o Batches(s)[m].natives
    <3>1. Batches(s)[m].natives \in Seq(Texts)
      BY <2>1, BatchesAll DEF Answers
    <3> DEFINE x == Batches(s)[m].natives
    <3> HIDE DEF x
    <3>2. x = <<>> \o x
      BY <3>1, ConcatEmptySeq DEF x
    <3>3. QED
      BY <3>2 DEF x
  <2>8. /\ Batches(s)[0].text = TextOf(p.out) \o Batches(s)[k].text
        /\ Batches(s)[0].natives = NativesOf(p.out) \o Batches(s)[k].natives
    BY <1>2 DEF Reading
  <2> HIDE DEF a, b, q, m
  <2>9. Text(a) \in Pieces /\ Shows(Text(a)) = a /\ Finds(Text(a)) = <<>>
    BY <2>2, <2>3, PieceHolds
  <2>10. /\ Batches(s)[k].text = Shows(Text(a)) \o Batches(s)[m].text
         /\ Batches(s)[k].natives = Finds(Text(a)) \o Batches(s)[m].natives
    BY <2>2, <2>6, <2>7, <2>9, Zenon
  <2>11. /\ Batches(s)[0].text = TextOf(Append(p.out, Text(a))) \o Batches(s)[m].text
         /\ Batches(s)[0].natives = NativesOf(Append(p.out, Text(a))) \o Batches(s)[m].natives
    BY <1>1, <2>1, <2>8, <2>9, <2>10, PieceAgrees
  <2>12. Reading(q, s, e, m)
    BY <2>1, <2>2, <2>5, <2>11, Zenon DEF Reading
  <2>13. QED
    BY <2>1, <2>12, Zenon DEF Agrees, q
<1>7. QED
  BY <1>5, <1>6

\* However much of the text a chunk has, reading it keeps to the whole text.
LEMMA ChunkAgrees ==
  ASSUME NEW s \in Texts, NEW f \in 0..Len(s), NEW e \in 0..f, NEW p, WellKept(p), Agrees(p, s, e)
  PROVE  Agrees(Chunk(p, Part(s, e, f)), s, f)
<1>1. /\ p \in Parsers /\ p.text \in Texts /\ p.tool \in Texts /\ p.out \in Seq(Pieces)
      /\ p.inside \in BOOLEAN /\ (p.inside => p.text = <<>>)
  BY DEF WellKept, Parsers
<1>2. PICK k \in 0..e : Reading(p, s, e, k)
  BY DEF Agrees
<1>3. k \in Nat /\ e \in Nat /\ f \in Nat /\ Len(s) \in Nat /\ k \in 0..f /\ e \in 0..Len(s)
  BY DEF Texts
<1> DEFINE c == Part(s, e, f)
           q == IF p.inside THEN [p EXCEPT !.tool = @ \o c] ELSE [p EXCEPT !.text = @ \o c]
<1>4. c \in Texts
  BY PartFacts
<1>5. p.text \o c \in Texts /\ p.tool \o c \in Texts
  BY <1>1, <1>4, TextsJoin
<1>6. Chunk(p, c) = IF p.inside THEN Closing(q) ELSE IF Has(q.text, OpenTag) THEN Opening(q) ELSE Flush(q)
  BY DEF Chunk
<1> HIDE DEF c
<1>7. /\ q \in Parsers /\ q.inside = p.inside /\ q.out = p.out
      /\ p.inside => q.text = p.text /\ q.tool = p.tool \o c
      /\ ~p.inside => q.text = p.text \o c
  BY <1>1, <1>5 DEF Parsers
<1> HIDE DEF q
<1>8. WellKept(q)
  BY <1>1, <1>7 DEF WellKept
<1>9. Agrees(q, s, f)
  <2>1. ASSUME p.inside
        PROVE  k \in Places(s, OpenTag) /\ k + 2 <= f /\ q.tool = Part(s, k + 2, f)
    <3>1. k \in Places(s, OpenTag) /\ k + 2 <= e /\ p.tool = Part(s, k + 2, e)
      BY <1>2, <2>1 DEF Reading
    <3>2. k + 2 \in 0..f /\ e \in (k + 2)..f /\ k + 2 <= f
      BY <1>3, <3>1
    <3>3. Part(s, k + 2, e) \o Part(s, e, f) = Part(s, k + 2, f)
      BY <3>2, PartFacts
    <3>4. QED
      BY <1>7, <2>1, <3>1, <3>2, <3>3, Zenon DEF c
  <2>2. ASSUME ~p.inside PROVE q.text = Part(s, k, f)
    <3>1. p.text = Part(s, k, e)
      BY <1>2, <2>2 DEF Reading
    <3>2. e \in k..f
      BY <1>3
    <3>3. Part(s, k, e) \o Part(s, e, f) = Part(s, k, f)
      BY <1>3, <3>2, PartFacts
    <3>4. QED
      BY <1>7, <2>2, <3>1, <3>3, Zenon DEF c
  <2>3. Reading(q, s, f, k)
    BY <1>2, <1>3, <1>7, <2>1, <2>2, Zenon DEF Reading
  <2>4. QED
    BY <1>3, <2>3, Zenon DEF Agrees
<1>10. CASE q.inside
  <2>1. Agrees(Closing(q), s, f)
    BY <1>8, <1>9, <1>10, ClosingAgrees
  <2>2. QED
    BY <1>6, <1>7, <1>10, <2>1 DEF c
<1>11. CASE ~q.inside /\ Has(q.text, OpenTag)
  <2>1. Agrees(Opening(q), s, f)
    BY <1>8, <1>9, <1>11, OpeningAgrees
  <2>2. QED
    BY <1>6, <1>7, <1>11, <2>1 DEF c
<1>12. CASE ~q.inside /\ ~Has(q.text, OpenTag)
  <2>1. Agrees(Flush(q), s, f)
    BY <1>8, <1>9, <1>12, FlushAgrees
  <2>2. QED
    BY <1>6, <1>7, <1>12, <2>1 DEF c
<1>13. QED
  BY <1>10, <1>11, <1>12

\* When all was read, no call is open and no tag is left, emptying the buffer yields what
\* the whole text yields.
LEMMA FinishedAgrees ==
  ASSUME NEW s \in Texts, NEW p, WellKept(p), ~p.inside, ~Has(p.text, OpenTag),
         Agrees(p, s, Len(s))
  PROVE  /\ Finished(p).out \in Seq(Pieces)
         /\ TextOf(Finished(p).out) = Batch(s).text
         /\ NativesOf(Finished(p).out) = Batch(s).natives
<1>1. p.text \in Texts /\ p.out \in Seq(Pieces) /\ p \in Parsers
  BY DEF WellKept, Parsers
<1> DEFINE n == Len(s)
<1>2. PICK k \in 0..n : Reading(p, s, n, k)
  BY DEF Agrees
<1>3. p.text = Part(s, k, n) /\ k \in Nat /\ n \in Nat /\ n \in 0..n
  BY <1>2 DEF Reading, Texts
<1>4. Batches(s)[k].text = p.text /\ Batches(s)[k].natives = <<>>
  <2>1. \A j \in Places(s, OpenTag) : ~(k <= j)
    <3>1. \A j \in Places(s, OpenTag) : k <= j => j + 2 > n
      BY <1>3, NoTagInPart
    <3>2. \A j \in Places(s, OpenTag) : j \in Nat /\ j + 2 <= n
      BY PlaceBounds
    <3>3. QED
      BY <1>3, <3>1, <3>2
  <2>2. QED
    BY <1>3, <2>1, BatchPlain
<1>5. /\ Batch(s).text = TextOf(p.out) \o p.text
      /\ Batch(s).natives = NativesOf(p.out)
  <2>1. Batch(s) = Batches(s)[0]
    BY BatchUnfolds
  <2>2. /\ Batches(s)[0].text = TextOf(p.out) \o p.text
        /\ Batches(s)[0].natives = NativesOf(p.out) \o <<>>
    BY <1>2, <1>4, Zenon DEF Reading
  <2>3. NativesOf(p.out) \o <<>> = NativesOf(p.out)
    <3>1. NativesOf(p.out) \in Seq(Texts)
      BY <1>1, NativesGrow
    <3> DEFINE x == NativesOf(p.out)
    <3> HIDE DEF x
    <3>2. x \o <<>> = x
      BY <3>1, ConcatEmptySeq DEF x
    <3>3. QED
      BY <3>2 DEF x
  <2>4. QED
    BY <2>1, <2>2, <2>3
<1>6. Finished(p).out = IF p.text # <<>> THEN Append(p.out, Text(p.text)) ELSE p.out
  <2> DEFINE out == CASE p.inside /\ p.tool # <<>> -> Append(p.out, Unclosed(p.tool))
                      [] p.text # <<>> -> Append(p.out, Text(p.text))
                      [] OTHER -> p.out
  <2>1. Finished(p) = [Fresh EXCEPT !.out = out]
    BY Zenon DEF Finished
  <2>2. out = IF p.text # <<>> THEN Append(p.out, Text(p.text)) ELSE p.out
    <3>1. CASE p.text = <<>>
      BY <3>1
    <3>2. CASE p.text # <<>>
      BY <3>2
    <3>3. QED
      BY <3>1, <3>2
  <2> HIDE DEF out
  <2>3. Finished(p).out = out
    BY <2>1 DEF Fresh
  <2>4. QED
    BY <2>2, <2>3
<1>7. CASE p.text = <<>>
  <2>1. TextOf(p.out) \in Texts
    BY <1>1, PiecesGrow
  <2> DEFINE x == TextOf(p.out)
  <2> HIDE DEF x
  <2>2. x \o <<>> = x
    BY <2>1, TextsJoin DEF x
  <2>3. QED
    BY <1>1, <1>5, <1>6, <1>7, <2>2 DEF x
<1>8. CASE p.text # <<>>
  <2> DEFINE x == p.text
             e == Text(x)
             m == <<e>>
  <2>1. e \in Pieces /\ Shows(e) = x /\ Finds(e) = <<>>
    BY <1>1, PieceHolds
  <2> HIDE DEF e
  <2>2. /\ Append(p.out, e) \in Seq(Pieces) /\ TextOf(Append(p.out, e)) = TextOf(p.out) \o x
        /\ Append(p.out, e) = p.out \o m /\ m \in Seq(Pieces) /\ NativesOf(m) = <<>>
    BY <1>1, <2>1, OneMore, OnePiece, OneFound
  <2> HIDE DEF m
  <2>3. NativesOf(p.out \o m) = NativesOf(p.out) \o <<>> /\ NativesOf(p.out) \in Seq(Texts)
    BY <1>1, <2>2, NativesGrow
  <2>4. NativesOf(p.out) \o <<>> = NativesOf(p.out)
    <3> DEFINE y == NativesOf(p.out)
    <3> HIDE DEF y
    <3>1. y \o <<>> = y
      BY <2>3, ConcatEmptySeq DEF y
    <3>2. QED
      BY <3>1 DEF y
  <2>5. QED
    BY <1>5, <1>6, <1>8, <2>2, <2>3, <2>4, Zenon DEF e
<1>9. QED
  BY <1>7, <1>8

\* The calls of the server's own show no text and are not found in it.
LEMMA CallsSilent ==
  ASSUME su \in Setups, call \in Requests, NEW out \in Seq(Pieces)
  PROVE  /\ TextOf(out \o Calls(call)) = TextOf(out)
         /\ NativesOf(out \o Calls(call)) = NativesOf(out)
<1> DEFINE c == Calls(call)
           n == Len(call.begun)
<1>1. /\ c \in Seq(Pieces) /\ Len(c) = n /\ n \in Nat
      /\ \A j \in 1..n : \E i, x \in Nat : c[j] = Call(i, x)
  <2>1. /\ c \in Seq(Pieces) /\ Len(c) = n /\ n \in Nat
        /\ \A j \in 1..n : /\ call.begun[j] \in DOMAIN su.calls
                           /\ c[j] = Call(call.begun[j], call.kept[call.begun[j]])
    BY CallsTyped
  <2>2. \A i \in DOMAIN su.calls : i \in Nat /\ call.kept[i] \in Nat
    BY SetupFacts DEF Requests
  <2> HIDE DEF c, n
  <2>3. QED
    BY <2>1, <2>2, Zenon
<1>2. \A j \in 1..n : Shows(c[j]) = <<>> /\ Finds(c[j]) = <<>>
  <2>1. \A i, x \in Nat : Call(i, x).kind = "call"
    BY EmptyFacts, PieceTypes
  <2> HIDE DEF c, n
  <2>2. \A i, x \in Nat : Shows(Call(i, x)) = <<>> /\ Finds(Call(i, x)) = <<>>
    BY <2>1 DEF Shows, Finds
  <2>3. QED
    BY <1>1, <2>2, Zenon
<1> HIDE DEF c, n
<1>3. \A S : \A ss \in Seq(Seq(S)) : (\A j \in 1..Len(ss) : ss[j] = <<>>) => FlattenSeq(ss) = <<>>
  <2> SUFFICES ASSUME NEW S, NEW ss \in Seq(Seq(S)), \A j \in 1..Len(ss) : ss[j] = <<>>
               PROVE  FlattenSeq(ss) = <<>>
    OBVIOUS
  <2>1. CASE ss = <<>>
    BY <2>1 DEF FlattenSeq
  <2>2. CASE ss # <<>>
    <3>1. PICK f \in [1..Len(ss) -> Seq(S)] :
            /\ f[1] = ss[1]
            /\ \A i \in 2..Len(ss) : f[i] = f[i - 1] \o ss[i]
            /\ FlattenSeq(ss) = f[Len(ss)]
      BY <2>2, FlatUnfolds
    <3>2. Len(ss) \in Nat /\ Len(ss) # 0
      BY <2>2, EmptySeq
    <3> DEFINE T == {i \in 1..Len(ss) : f[i] = <<>>}
    <3>3. 1 \in T
      BY <3>1, <3>2
    <3>4. ASSUME NEW i \in 1..(Len(ss) - 1), i \in T PROVE i + 1 \in T
      <4>1. i + 1 \in 2..Len(ss) /\ i + 1 \in 1..Len(ss) /\ (i + 1) - 1 = i
        BY <3>2
      <4>2. f[i + 1] = f[i] \o ss[i + 1] /\ f[i] = <<>> /\ ss[i + 1] = <<>>
        BY <3>1, <3>4, <4>1
      <4>3. <<>> \o <<>> = <<>>
        BY EmptySeq, ConcatEmptySeq
      <4>4. QED
        BY <4>1, <4>2, <4>3
    <3>5. 1..Len(ss) \subseteq T
      <4> HIDE DEF T
      <4>1. QED
        BY <3>2, <3>3, <3>4, AllUpTo
    <3>6. Len(ss) \in 1..Len(ss)
      BY <3>2
    <3>7. f[Len(ss)] = <<>>
      BY <3>5, <3>6, Zenon
    <3>8. QED
      BY <3>1, <3>7, Zenon
  <2>3. QED
    BY <2>1, <2>2
<1>4. TextOf(c) = <<>>
  <2> DEFINE ss == ShownPieces(c)
  <2>1. TextOf(c) = FlattenSeq(ss)
    BY DEF TextOf, ShownPieces, Shows
  <2>2. ss \in Seq(Seq(Symbols)) /\ Len(ss) = n /\ \A j \in 1..n : ss[j] = <<>>
    BY <1>1, <1>2, PiecesOf DEF Texts
  <2> HIDE DEF ss
  <2>3. QED
    BY <1>3, <2>1, <2>2
<1>5. NativesOf(c) = <<>>
  <2> DEFINE ss == FoundPieces(c)
  <2>1. ss \in Seq(Seq(Texts)) /\ Len(ss) = n /\ (\A j \in 1..n : ss[j] = <<>>)
        /\ NativesOf(c) = FlattenSeq(ss)
    BY <1>1, <1>2, FoundOf
  <2> HIDE DEF ss
  <2>2. QED
    BY <1>3, <2>1
<1>6. /\ TextOf(out \o c) = TextOf(out) \o <<>> /\ NativesOf(out \o c) = NativesOf(out) \o <<>>
      /\ TextOf(out) \in Texts /\ NativesOf(out) \in Seq(Texts)
  BY <1>1, <1>4, <1>5, PiecesGrow, NativesGrow
<1> DEFINE x == TextOf(out)
           y == NativesOf(out)
<1>7. /\ TextOf(out \o c) = x \o <<>> /\ NativesOf(out \o c) = y \o <<>>
      /\ x \in Texts /\ y \in Seq(Texts)
  BY <1>6
<1> HIDE DEF x, y
<1>8. x \o <<>> = x /\ y \o <<>> = y
  BY <1>7, TextsJoin, ConcatEmptySeq
<1>9. QED
  BY <1>7, <1>8 DEF x, y, c

\* While an OpenAI stream comes in, its parser keeps to the whole text.
BatchInv ==
  (phase = "stream" /\ main.class = "openai" /\ ~call.done) => Agrees(call.p, call.text, call.at)

LEMMA StepBatch == CallTypeOK /\ BatchInv /\ [CallNext]_callVars => BatchInv'
<1> SUFFICES ASSUME CallTypeOK, BatchInv, [CallNext]_callVars,
                    phase' = "stream", main'.class = "openai", ~call'.done
             PROVE  Agrees(call'.p, call'.text, call'.at)
  BY Zenon DEF BatchInv
<1>1. CASE Aside
  BY <1>1, AsideQuiet
<1>2. CASE Begin \/ Refused \/ Whole \/ StreamEnds \/ Cut
  BY <1>2 DEF Begin, Refused, Whole, StreamEnds, Cut
<1>3. CASE Accepted
  <2>1. PICK s \in Texts : call' = Fetch(s)
    BY <1>3, AcceptedTyped
  <2>2. call'.text = s /\ call'.at = 0 /\ call'.p = Fresh
    BY <2>1, FetchTyped DEF CallTypeOK, RegistryOK
  <2>3. Part(s, 0, 0) = <<>>
    BY SubSeqEmpty DEF Part
  <2>4. 0 \in 0..Len(s) /\ 0 \in 0..0
    BY DEF Texts
  <2>5. Batches(s)[0].text \in Texts /\ Batches(s)[0].natives \in Seq(Texts)
    BY <2>4, BatchesAll DEF Answers
  <2> DEFINE x == Batches(s)[0].text
             y == Batches(s)[0].natives
  <2>6. x = <<>> \o x /\ y = <<>> \o y
    <3> HIDE DEF x, y
    <3>1. x \in Texts /\ y \in Seq(Texts)
      BY <2>5 DEF x, y
    <3>2. QED
      BY <3>1, TextsJoin, ConcatEmptySeq
  <2>7. TextOf(<<>>) = <<>> /\ NativesOf(<<>>) = <<>>
    <3>1. Text(<<>>) \in Pieces
      BY EmptyFacts, PieceTypes
    <3>2. QED
      BY <3>1, EmptyFacts, OneFound
  <2>8. Fresh.inside = FALSE /\ Fresh.text = <<>> /\ Fresh.out = <<>>
    BY DEF Fresh
  <2>9. Reading(Fresh, s, 0, 0)
    BY <2>3, <2>4, <2>6, <2>7, <2>8, Zenon DEF Reading
  <2>10. QED
    BY <2>2, <2>4, <2>9, Zenon DEF Agrees
<1>4. CASE StreamStep
  <2>1. phase = "stream" /\ main' = main
    BY <1>4, StreamGrows
  <2>2. ASSUME ~call.done PROVE Agrees(call.p, call.text, call.at)
    BY <2>1, <2>2 DEF BatchInv
  <2>3. ASSUME NEW k \in 1 .. Len(call.text), Content(k)
        PROVE  Agrees(call'.p, call'.text, call'.at)
    <3>1. call'.text = call.text /\ call'.at = call.at + k
      BY <2>3, ContentGrows
    <3>2. ~call.done /\ call.at + k <= Len(call.text)
      BY <2>3 DEF Content
    <3>3. /\ call \in Requests /\ call.text \in Texts /\ call.at \in Nat /\ Len(call.text) \in Nat
          /\ WellKept(call.p)
      BY DEF CallTypeOK, RequestOK, Requests, Texts
    <3> DEFINE c == [call EXCEPT !.at = @ + k]
               chunk == SubSeq(call.text, call.at + 1, call.at + k)
               q == Chunk(call.p, chunk)
    <3>4. call' = [c EXCEPT !.p = Chunk(@, chunk)]
      BY <2>1, <2>3, Zenon DEF Content, Yields
    <3>5. c.p = call.p /\ c \in [text : Texts, at : {call.at + k}, p : Parsers,
             came : [DOMAIN su.calls -> Nat], kept : [DOMAIN su.calls -> Nat],
             begun : Seq(DOMAIN su.calls), block : {0} \cup DOMAIN su.calls, done : BOOLEAN]
      BY <3>3 DEF Requests
    <3> HIDE DEF c, chunk
    <3>6. call'.p = q
      BY <3>4, <3>5
    <3> DEFINE s == call.text
               e == call.at
               f == call.at + k
    <3>7. chunk = Part(s, e, f)
      BY DEF chunk, Part
    <3>8. s \in Texts /\ f \in 0..Len(s) /\ e \in 0..f
      BY <3>2, <3>3
    <3>9. Agrees(call.p, s, e)
      BY <2>2, <3>2
    <3> HIDE DEF s, e, f
    <3>10. Agrees(Chunk(call.p, Part(s, e, f)), s, f)
      BY <3>3, <3>8, <3>9, ChunkAgrees
    <3>11. QED
      BY <3>1, <3>6, <3>7, <3>10, Zenon DEF s, e, f
  <2>4. ASSUME NEW i \in DOMAIN su.calls, Delta(i)
        PROVE  Agrees(call'.p, call'.text, call'.at)
    <3>1. Unchanged(call, call') /\ call'.p = call.p
      BY <2>4, DeltaGrows
    <3>2. ~call.done
      BY <2>4 DEF Delta
    <3>3. QED
      BY <2>2, <3>1, <3>2, Zenon DEF Unchanged
  <2>5. ASSUME NEW i \in DOMAIN su.calls, BlockStart(i) \/ ChunkOfCall(i)
        PROVE  FALSE
    BY <2>1, <2>5 DEF BlockStart, ChunkOfCall, Streaming
  <2>6. CASE BlockDelta \/ BlockStop
    BY <2>1, <2>6 DEF BlockDelta, BlockStop, Streaming
  <2>7. CASE Finish
    BY <2>7, FinishGrows
  <2>8. QED
    BY <1>4, <2>3, <2>4, <2>5, <2>6, <2>7 DEF StreamStep
<1>5. CASE UNCHANGED callVars
  BY <1>5 DEF callVars, BatchInv
<1>6. QED
  BY <1>1, <1>2, <1>3, <1>4, <1>5, StepsOfCall

\* What StreamAsBatch says of a step.
AsBatch ==
  (/\ Streaming("openai") /\ ~call.done /\ call'.done
   /\ ~call.p.inside /\ ~Has(call.p.text, OpenTag))
  => /\ TextOf(call'.p.out) = Batch(call.text).text
     /\ NativesOf(call'.p.out) = Batch(call.text).natives

LEMMA EndAsBatch == CallTypeOK /\ BatchInv /\ [CallNext]_callVars => AsBatch
<1> SUFFICES ASSUME CallTypeOK, BatchInv, [CallNext]_callVars,
                    Streaming("openai"), ~call.done, call'.done,
                    ~call.p.inside, ~Has(call.p.text, OpenTag)
             PROVE  /\ TextOf(call'.p.out) = Batch(call.text).text
                    /\ NativesOf(call'.p.out) = Batch(call.text).natives
  BY Zenon DEF AsBatch
<1>0. phase = "stream" /\ main.class = "openai"
  BY DEF Streaming
<1>1. CASE Aside \/ Begin \/ Refused \/ Accepted \/ Whole
  BY <1>0, <1>1 DEF Aside, Register, ListProviders, Ensure, Answer, JudgeSkipped, JudgeByStrategy,
     JudgeOfItsOwn, Decide, OutOfTurns, Begin, Refused, Accepted, Whole
<1>2. CASE StreamEnds \/ Cut \/ UNCHANGED callVars
  BY <1>2 DEF StreamEnds, Cut, callVars
<1>3. ASSUME StreamStep, ~Finish PROVE FALSE
  <2>1. ASSUME NEW k \in 1 .. Len(call.text), Content(k) PROVE FALSE
    BY <2>1, ContentGrows
  <2>2. ASSUME NEW i \in DOMAIN su.calls, Delta(i) PROVE FALSE
    BY <2>2, DeltaGrows DEF Unchanged
  <2>3. ASSUME NEW i \in DOMAIN su.calls, BlockStart(i) \/ ChunkOfCall(i) PROVE FALSE
    BY <1>0, <2>3 DEF BlockStart, ChunkOfCall, Streaming
  <2>4. CASE BlockDelta \/ BlockStop
    BY <1>0, <2>4 DEF BlockDelta, BlockStop, Streaming
  <2>5. QED
    BY <1>3, <2>1, <2>2, <2>3, <2>4 DEF StreamStep
<1>4. CASE Finish
  <2> DEFINE p == Finished(call.p)
             q == [p EXCEPT !.out = @ \o Calls(call)]
             s == call.text
  <2>1. /\ call \in Requests /\ WellKept(call.p) /\ s \in Texts /\ su \in Setups
    BY DEF CallTypeOK, RegistryOK, RequestOK, Requests
  <2>2. call.at = Len(s)
    BY <1>4 DEF Finish, AllCame
  <2>3. Agrees(call.p, s, Len(s))
    BY <1>0, <2>2 DEF BatchInv
  <2>4. call' = [call EXCEPT !.done = TRUE, !.p = q]
    BY <1>0, <1>4, Zenon DEF Finish, Yields
  <2>5. p \in Parsers
    BY <2>1, FinishedGrows
  <2> HIDE DEF p, s
  <2>6. q.out = p.out \o Calls(call)
    BY <2>5 DEF Parsers
  <2> HIDE DEF q
  <2>7. call'.p = q
    BY <2>1, <2>4 DEF Requests
  <2>8. p.out \in Seq(Pieces) /\ TextOf(p.out) = Batch(s).text /\ NativesOf(p.out) = Batch(s).natives
    BY <2>1, <2>3, FinishedAgrees DEF p
  <2>9. TextOf(p.out \o Calls(call)) = TextOf(p.out) /\ NativesOf(p.out \o Calls(call)) = NativesOf(p.out)
    BY <2>1, <2>8, CallsSilent
  <2>10. QED
    BY <2>6, <2>7, <2>8, <2>9, Zenon DEF s
<1>5. QED
  BY <1>1, <1>2, <1>3, <1>4, StepsOfCall

\* However the text was cut into chunks, a stream that ends with no call open yields the
\* text and the calls that the whole text would.
THEOREM StreamIsBatch == CallSpec => StreamAsBatch
<1>1. CallInit => BatchInv
  BY DEF CallInit, BatchInv
<1>2. CallTypeOK /\ BatchInv /\ [CallNext]_callVars => [AsBatch]_callVars
  BY EndAsBatch
<1>3. CallSpec => [][AsBatch]_callVars
  BY TypesOfCalls, <1>1, <1>2, StepBatch, PTL DEF CallSpec
<1>4. QED
  BY <1>3 DEF StreamAsBatch, AsBatch
=================================================================================
