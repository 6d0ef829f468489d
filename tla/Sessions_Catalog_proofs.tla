------------------------ MODULE Sessions_Catalog_proofs ------------------------
(***************************************************************************)
(* Theorems about module Sessions, for any ids, overlapping runs, users,    *)
(* facts and configurations; and about module Catalog, for any tools,       *)
(* sources, capabilities, resources and configurations of the stage.        *)
(***************************************************************************)
EXTENDS Sessions, Catalog, FiniteSetTheorems, SequenceTheorems, TLAPS

(***************************************************************************)
(* Sessions.                                                                *)
(***************************************************************************)

-----------------------------------------------------------------------------
(* The session objects.  A step makes a new one, or changes one but for its
   configuration, or changes none; a crash leaves none. *)

Made ==
  \E o \in SessionStates, sid \in Sids :
    /\ objs' = Append(objs, o)
    /\ managed' = [managed EXCEPT ![sid] = Len(objs')]
Changed ==
  /\ \E i \in DOMAIN objs, o \in SessionStates :
       o.config = objs[i].config /\ objs' = [objs EXCEPT ![i] = o]
  /\ UNCHANGED managed
Left ==
  /\ UNCHANGED objs
  /\ UNCHANGED managed \/ \E sid \in Sids : managed' = [managed EXCEPT ![sid] = None]

\* The steps of runs that leave the objects alone.
RunSteps ==
  \E x \in Slots : RunStart(x) \/ Input(x) \/ History(x) \/ Searches(x) \/ Prompt(x)
                   \/ Iterate(x) \/ RunFails(x)
\* The steps of the host that leave the objects and the runs alone.
HostSteps ==
  \/ \E sid \in Sids : Delete(sid) \/ SaveToDb(sid) \/ SaveBegin(sid) \/ DeleteFile(sid)
                       \/ ReadProgress(sid)
  \/ SaveWrite \/ SaveReplace \/ SaveFails \/ AddItem \/ UpdateStatus \/ Memorise
Loads == \E sid \in Sids : Create(sid) \/ LoadFromDb(sid) \/ LoadFile(sid)
Attaches == \E sid \in Sids : AttachProgress(sid)
RunEnds == \E x \in Slots : RunEnd(x)

LEMMA Steps ==
  [Next]_vars => RunSteps \/ HostSteps \/ Loads \/ Attaches \/ RunEnds \/ Crash \/ UNCHANGED vars
BY DEF Next, RunSteps, HostSteps, Loads, Attaches, RunEnds

LEMMA SnapshotType == \A o \in SessionStates : Snapshot(o) \in Data
BY DEF Snapshot, SessionStates, Data

LEMMA RestoredType == \A d \in Data, c \in Configs : Restored(d, c) \in SessionStates
BY DEF Restored, SessionStates, Data

LEMMA LoadsMake ==
  ASSUME TypeOK, Loads PROVE Made
<1>1. su.config \in Configs /\ Start \in Configs
  BY DEF Configs, TypeOK
<1>2. ASSUME NEW sid \in Sids, Create(sid) PROVE Made
  <2>1. Fresh(sid, su.config) \in SessionStates
    BY <1>1 DEF Fresh, SessionStates
  <2>2. QED
    BY <1>2, <2>1 DEF Create, Made
<1>3. ASSUME NEW sid \in Sids, LoadFromDb(sid) PROVE Made
  <2>1. db[sid] \in Data
    BY <1>3 DEF LoadFromDb, TypeOK
  <2>2. QED
    BY <1>1, <1>3, <2>1, RestoredType DEF LoadFromDb, Adopt, Made
<1>4. ASSUME NEW sid \in Sids, LoadFile(sid) PROVE Made
  <2>1. files[FileOf(sid)] \in Data
    BY <1>4 DEF LoadFile, TypeOK, FileNames
  <2>2. QED
    BY <1>1, <1>4, <2>1, RestoredType DEF LoadFile, Made
<1>5. QED
  BY <1>2, <1>3, <1>4 DEF Loads

LEMMA AttachChanges ==
  ASSUME TypeOK, Attaches PROVE Changed
<1>1. PICK sid \in Sids : AttachProgress(sid)
  BY DEF Attaches
<1> DEFINE i == managed[sid]
           o == [objs[i] EXCEPT !.progress = log]
<1>2. i \in DOMAIN objs
  BY <1>1 DEF AttachProgress, TypeOK
<1>3. objs[i] \in SessionStates
  BY <1>2 DEF TypeOK
<1>4. o \in SessionStates /\ o.config = objs[i].config
  BY <1>3 DEF SessionStates, TypeOK
<1>5. objs' = [objs EXCEPT ![i] = o] /\ UNCHANGED managed
  BY <1>1 DEF AttachProgress
<1> HIDE DEF o, i
<1>6. QED
  BY <1>2, <1>4, <1>5 DEF Changed

\* What the end of a run makes of its session.
LEMMA TurnType ==
  ASSUME NEW o \in SessionStates, NEW n \in Nat, NEW output \in BOOLEAN
  PROVE  Turn(o, n, output) \in SessionStates /\ Turn(o, n, output).config = o.config
<1>1. User(n) \in Messages /\ Answer(n) \in Messages
  BY DEF User, Answer, Messages
<1>2. (IF output THEN <<Answer(n)>> ELSE <<>>) \in Seq(Messages)
  BY <1>1
<1>3. o.messages \o <<User(n)>> \o (IF output THEN <<Answer(n)>> ELSE <<>>) \in Seq(Messages)
  <2>1. o.messages \in Seq(Messages)
    BY DEF SessionStates
  <2>2. <<User(n)>> \in Seq(Messages)
    BY <1>1
  <2>3. QED
    BY <1>2, <2>1, <2>2, ConcatProperties
<1> DEFINE more == o.messages \o <<User(n)>> \o (IF output THEN <<Answer(n)>> ELSE <<>>)
<1>4. Turn(o, n, output) =
        [o EXCEPT !.messages = more, !.turns = o.turns + 1, !.tokens = o.tokens + n]
  BY DEF Turn, SessionStates
<1>5. more \in Seq(Messages)
  BY <1>3
<1> HIDE DEF more
<1>6. o.turns + 1 \in Nat /\ o.tokens + n \in Nat
  BY DEF SessionStates
<1>7. QED
  BY <1>4, <1>5, <1>6 DEF SessionStates

LEMMA EndChanges ==
  ASSUME TypeOK, RunEnds PROVE Changed
<1>1. PICK x \in Slots : RunEnd(x)
  BY DEF RunEnds
<1>2. runs[x] # Idle
  BY <1>1 DEF RunEnd, Idle
<1>3. runs[x].obj \in DOMAIN objs /\ runs[x].q \in Nat
  BY <1>2 DEF TypeOK
<1>4. objs[runs[x].obj] \in SessionStates
  BY <1>3 DEF TypeOK
<1>5. PICK output \in BOOLEAN : objs' = [objs EXCEPT ![runs[x].obj] = Recorded(x, output)]
  BY <1>1 DEF RunEnd
<1>6. UNCHANGED managed
  BY <1>1 DEF RunEnd
<1>7. QED
  BY <1>3, <1>4, <1>5, <1>6, TurnType DEF Recorded, Changed

LEMMA Objects ==
  ASSUME TypeOK, [Next]_vars
  PROVE  Made \/ Changed \/ Left \/ Crash
<1>1. CASE RunSteps
  <2>1. PICK x \in Slots : \/ RunStart(x) \/ Input(x) \/ History(x) \/ Searches(x) \/ Prompt(x)
                           \/ Iterate(x) \/ RunFails(x)
    BY <1>1 DEF RunSteps
  <2>2. UNCHANGED <<objs, managed>>
    BY <2>1 DEF RunStart, Input, History, Searches, Prompt, Iterate, RunFails
  <2>3. QED
    BY <2>2 DEF Left
<1>2. CASE HostSteps
  BY <1>2 DEF HostSteps, Delete, SaveToDb, SaveBegin, DeleteFile, ReadProgress, SaveWrite,
              SaveReplace, SaveFails, AddItem, UpdateStatus, Memorise, Left
<1>3. CASE UNCHANGED vars
  BY <1>3 DEF vars, Left
<1>4. QED
  BY <1>1, <1>2, <1>3, Steps, LoadsMake, AttachChanges, EndChanges

\* Objects stay, with their configurations, until a crash takes all.
LEMMA ObjectsStay ==
  ASSUME TypeOK, [Next]_vars, ~Crash
  PROVE  /\ DOMAIN objs \subseteq DOMAIN objs'
         /\ \A i \in DOMAIN objs : objs'[i].config = objs[i].config
<1>1. CASE Made
  <2>1. PICK o \in SessionStates : objs' = Append(objs, o)
    BY <1>1 DEF Made
  <2>2. QED
    BY <2>1, AppendProperties DEF TypeOK
<1>2. CASE Changed
  BY <1>2 DEF Changed, TypeOK
<1>3. CASE Left
  BY <1>3 DEF Left
<1>4. QED
  BY <1>1, <1>2, <1>3, Objects

LEMMA ObjectTypes ==
  ASSUME TypeOK, [Next]_vars
  PROVE  objs' \in Seq(SessionStates) /\ managed' \in [Sids -> DOMAIN objs' \cup {None}]
<1>1. CASE Made
  <2>1. PICK o \in SessionStates, sid \in Sids :
          objs' = Append(objs, o) /\ managed' = [managed EXCEPT ![sid] = Len(objs')]
    BY <1>1 DEF Made
  <2>2. /\ objs' \in Seq(SessionStates) /\ DOMAIN objs \subseteq DOMAIN objs'
        /\ Len(objs') \in DOMAIN objs'
    BY <2>1, AppendProperties DEF TypeOK
  <2>3. QED
    BY <2>1, <2>2 DEF TypeOK
<1>2. CASE Changed
  <2>1. PICK i \in DOMAIN objs, o \in SessionStates : objs' = [objs EXCEPT ![i] = o]
    BY <1>2 DEF Changed
  <2>2. objs' \in Seq(SessionStates) /\ DOMAIN objs' = DOMAIN objs
    BY <2>1 DEF TypeOK
  <2>3. QED
    BY <1>2, <2>2 DEF Changed, TypeOK
<1>3. CASE Left
  BY <1>3 DEF Left, TypeOK
<1>4. CASE Crash
  BY <1>4 DEF Crash, TypeOK
<1>5. QED
  BY <1>1, <1>2, <1>3, <1>4, Objects

-----------------------------------------------------------------------------
(* Types *)

RunOK(x) ==
  runs[x] # Idle =>
    /\ {"at", "obj", "q", "recalled"} \subseteq DOMAIN runs[x]
    /\ runs[x].obj \in DOMAIN objs /\ runs[x].q \in Nat

\* A step of a run keeps the object and the question it began with.
LEMMA RunStepKeeps ==
  ASSUME TypeOK, NEW x \in Slots,
         Input(x) \/ History(x) \/ Searches(x) \/ Prompt(x) \/ Iterate(x)
  PROVE  /\ runs[x] # Idle
         /\ DOMAIN runs' = DOMAIN runs /\ \A y \in Slots \ {x} : runs'[y] = runs[y]
         /\ DOMAIN runs'[x] = DOMAIN runs[x]
         /\ runs'[x].obj = runs[x].obj /\ runs'[x].q = runs[x].q
         /\ UNCHANGED objs
<1>1. runs[x] # Idle
  <2>1. runs[x].at # "idle"
    BY DEF Input, History, Searches, Prompt, Iterate
  <2>2. QED
    BY <2>1 DEF Idle
<1>2. {"at", "obj", "q", "recalled"} \subseteq DOMAIN runs[x] /\ DOMAIN runs = Slots
  BY <1>1 DEF TypeOK
<1>3. CASE Input(x)
  <2>1. PICK c : runs' = [runs EXCEPT ![x].at = "history", ![x].complexity = c,
                                      ![x].messages = Append(@, User(runs[x].q))]
    BY <1>3 DEF Input
  <2>2. QED
    BY <1>1, <1>2, <1>3, <2>1 DEF Input
<1>4. CASE History(x)
  BY <1>1, <1>2, <1>4 DEF History
<1>5. CASE Searches(x)
  <2>1. PICK section, found :
          runs' = [runs EXCEPT ![x].at = "prompt", ![x].prompt = @ \o section,
                               ![x].recalled = found]
    BY <1>5 DEF Searches
  <2>2. QED
    BY <1>1, <1>2, <1>5, <2>1 DEF Searches
<1>6. CASE Prompt(x)
  <2>1. PICK prompt : runs' = [runs EXCEPT ![x].at = "loop", ![x].prompt = prompt]
    BY <1>6 DEF Prompt
  <2>2. QED
    BY <1>1, <1>2, <1>6, <2>1 DEF Prompt
<1>7. CASE Iterate(x)
  BY <1>1, <1>2, <1>7 DEF Iterate
<1>8. QED
  BY <1>3, <1>4, <1>5, <1>6, <1>7

LEMMA RunTypes ==
  ASSUME TypeOK, [Next]_vars
  PROVE  DOMAIN runs' = Slots /\ \A x \in Slots : RunOK(x)'
<1>1. ASSUME NEW x \in Slots, Input(x) \/ History(x) \/ Searches(x) \/ Prompt(x) \/ Iterate(x)
      PROVE  DOMAIN runs' = Slots /\ \A y \in Slots : RunOK(y)'
  <2>1. \A y \in Slots : RunOK(y)
    BY DEF TypeOK, RunOK
  <2>2. /\ runs[x] # Idle
        /\ DOMAIN runs' = DOMAIN runs /\ \A y \in Slots \ {x} : runs'[y] = runs[y]
        /\ DOMAIN runs'[x] = DOMAIN runs[x]
        /\ runs'[x].obj = runs[x].obj /\ runs'[x].q = runs[x].q
        /\ UNCHANGED objs
    BY <1>1, RunStepKeeps
  <2>3. QED
    BY <2>1, <2>2 DEF TypeOK, RunOK
<1>2. ASSUME NEW x \in Slots, RunStart(x)
      PROVE  DOMAIN runs' = Slots /\ \A y \in Slots : RunOK(y)'
  <2>1. PICK sid \in Sids :
          /\ managed[sid] # None
          /\ runs' = [runs EXCEPT ![x] =
            [at |-> "input", obj |-> managed[sid], q |-> asked + 1,
             history |-> objs[managed[sid]].messages, messages |-> objs[managed[sid]].messages,
             complexity |-> None, recalled |-> {}, prompt |-> <<>>,
             iteration |-> 0, lessons |-> <<>>, view |-> <<>>, retried |-> <<>>]]
    BY <1>2 DEF RunStart
  <2>2. managed[sid] \in DOMAIN objs /\ asked + 1 \in Nat
    BY <2>1 DEF TypeOK
  <2>3. UNCHANGED objs
    BY <1>2 DEF RunStart
  <2>4. DOMAIN runs' = Slots
    BY <2>1 DEF TypeOK
  <2>5. {"at", "obj", "q", "recalled"} \subseteq DOMAIN runs'[x]
        /\ runs'[x].obj = managed[sid] /\ runs'[x].q = asked + 1
    BY <2>1 DEF TypeOK
  <2>6. \A y \in Slots \ {x} : runs'[y] = runs[y]
    BY <2>1 DEF TypeOK
  <2>7. \A y \in Slots \ {x} : RunOK(y)'
    BY <2>3, <2>6 DEF TypeOK, RunOK
  <2>8. RunOK(x)'
    BY <2>2, <2>3, <2>5 DEF RunOK
  <2>9. QED
    BY <2>4, <2>7, <2>8
<1>3. CASE RunSteps
  <2>1. ASSUME NEW x \in Slots, RunFails(x)
        PROVE  DOMAIN runs' = Slots /\ \A y \in Slots : RunOK(y)'
    BY <2>1 DEF RunFails, TypeOK, RunOK
  <2>2. QED
    BY <1>1, <1>2, <1>3, <2>1 DEF RunSteps
<1>4. CASE RunEnds
  <2>1. DOMAIN objs' = DOMAIN objs
    BY <1>4, EndChanges DEF Changed
  <2>2. QED
    BY <1>4, <2>1 DEF RunEnds, RunEnd, TypeOK, RunOK
<1>5. CASE Crash
  BY <1>5 DEF Crash, RunOK
<1>6. CASE HostSteps \/ Loads \/ Attaches \/ UNCHANGED vars
  <2>1. UNCHANGED runs
    BY <1>6 DEF HostSteps, Loads, Attaches, Create, LoadFromDb, Adopt, LoadFile, AttachProgress,
                Delete, SaveToDb, SaveBegin, DeleteFile, ReadProgress, SaveWrite, SaveReplace,
                SaveFails, AddItem, UpdateStatus, Memorise, vars
  <2>2. CASE Crash
    BY <1>5, <2>2
  <2>3. CASE ~Crash
    BY <2>1, <2>3, ObjectsStay DEF TypeOK, RunOK
  <2>4. QED
    BY <2>2, <2>3
<1>7. QED
  BY <1>3, <1>4, <1>5, <1>6, Steps

LEMMA StoreTypes ==
  ASSUME TypeOK, [Next]_vars
  PROVE  /\ db' \in [Sids -> Data \cup {None}]
         /\ files' \in [FileNames -> Data \cup {None, Torn}]
         /\ saving' \in [sid : Sids, data : Data, tmp : Data \cup {Torn}] \cup {None}
         /\ saved' \in [Sids -> Data \cup {None}]
         /\ log' \in Seq(ProgressItems)
<1> DEFINE Stores == /\ db' \in [Sids -> Data \cup {None}]
                     /\ files' \in [FileNames -> Data \cup {None, Torn}]
                     /\ saving' \in [sid : Sids, data : Data, tmp : Data \cup {Torn}] \cup {None}
                     /\ saved' \in [Sids -> Data \cup {None}]
                     /\ log' \in Seq(ProgressItems)
<1>1. ASSUME UNCHANGED <<db, files, saving, saved, log>> PROVE Stores
  BY <1>1 DEF TypeOK
<1>2. ASSUME NEW sid \in Sids, managed[sid] # None PROVE Snapshot(objs[managed[sid]]) \in Data
  BY <1>2, SnapshotType DEF TypeOK
<1>3. ASSUME NEW sid \in Sids, SaveToDb(sid) PROVE Stores
  BY <1>2, <1>3 DEF SaveToDb, TypeOK
<1>4. ASSUME NEW sid \in Sids, SaveBegin(sid) PROVE Stores
  BY <1>2, <1>4 DEF SaveBegin, TypeOK
<1>5. ASSUME NEW sid \in Sids, DeleteFile(sid) PROVE Stores
  BY <1>5 DEF DeleteFile, TypeOK, FileNames
<1>6. ASSUME NEW sid \in Sids, ReadProgress(sid) PROVE Stores
  <2>1. objs[managed[sid]].progress \in Seq(ProgressItems)
    <3>1. objs[managed[sid]] \in SessionStates
      BY <1>6 DEF ReadProgress, TypeOK
    <3>2. QED
      BY <3>1 DEF SessionStates
  <2>2. QED
    BY <1>6, <2>1 DEF ReadProgress, TypeOK
<1>7. CASE SaveWrite
  <2>1. saving \in [sid : Sids, data : Data, tmp : Data \cup {Torn}]
    BY <1>7 DEF SaveWrite, TypeOK
  <2>2. [saving EXCEPT !.tmp = saving.data] \in [sid : Sids, data : Data, tmp : Data \cup {Torn}]
    BY <2>1
  <2>3. QED
    BY <1>7, <2>2 DEF SaveWrite, TypeOK
<1>8. CASE SaveReplace
  <2>1. saving \in [sid : Sids, data : Data, tmp : Data \cup {Torn}]
    BY <1>8 DEF SaveReplace, TypeOK
  <2>2. saving.sid \in Sids /\ saving.data \in Data /\ saving.tmp \in Data \cup {Torn}
    BY <2>1
  <2>3. QED
    BY <1>8, <2>2 DEF SaveReplace, TypeOK
<1>9. CASE SaveFails
  BY <1>9 DEF SaveFails, TypeOK
<1>10. CASE AddItem
  <2>1. PICK id \in Items : log' = Append(log, [id |-> id, status |-> "pending"])
    BY <1>10 DEF AddItem
  <2>2. [id |-> id, status |-> "pending"] \in ProgressItems
    BY DEF ProgressItems, Statuses
  <2>3. log' \in Seq(ProgressItems)
    BY <2>1, <2>2, AppendProperties DEF TypeOK
  <2>4. QED
    BY <1>10, <2>3 DEF AddItem, TypeOK
<1>11. CASE UpdateStatus
  <2>1. PICK i \in DOMAIN log, st \in Statuses : log' = [log EXCEPT ![i].status = st]
    BY <1>11 DEF UpdateStatus
  <2>2. log[i] \in ProgressItems
    BY DEF TypeOK
  <2>3. [log[i] EXCEPT !.status = st] \in ProgressItems
    BY <2>2 DEF ProgressItems
  <2>4. log' \in Seq(ProgressItems)
    BY <2>1, <2>3 DEF TypeOK
  <2>5. QED
    BY <1>11, <2>4 DEF UpdateStatus, TypeOK
<1>12. CASE Crash
  BY <1>12 DEF Crash, TypeOK
<1>13. ASSUME RunSteps \/ RunEnds \/ Loads \/ Attaches \/ UNCHANGED vars \/ Memorise
              \/ \E sid \in Sids : Delete(sid)
       PROVE  Stores
  <2>1. UNCHANGED <<db, files, saving, saved, log>>
    BY <1>13 DEF RunSteps, RunEnds, Loads, Attaches, vars, RunStart, Input, History, Searches,
                 Prompt, Iterate, RunFails, RunEnd, Create, LoadFromDb, Adopt, LoadFile,
                 AttachProgress, Memorise, Delete
  <2>2. QED
    BY <1>1, <2>1
<1>14. QED
  BY <1>3, <1>4, <1>5, <1>6, <1>7, <1>8, <1>9, <1>10, <1>11, <1>12, <1>13, Steps DEF HostSteps

LEMMA InitType == Init => TypeOK
BY DEF Init, TypeOK, FileNames

LEMMA StepType == TypeOK /\ [Next]_vars => TypeOK'
<1> SUFFICES ASSUME TypeOK, [Next]_vars PROVE TypeOK'
  OBVIOUS
<1>1. UNCHANGED su
  BY Steps DEF RunSteps, RunEnds, HostSteps, Loads, Attaches, vars, RunStart, Input, History,
     Searches, Prompt, Iterate, RunFails, RunEnd, Create, LoadFromDb, Adopt, LoadFile, AttachProgress,
     Memorise, Delete, SaveToDb, SaveBegin, DeleteFile, ReadProgress, SaveWrite, SaveReplace,
     SaveFails, AddItem, UpdateStatus, Crash
<1>2. asked' = asked \/ asked' = asked + 1
  BY Steps DEF RunSteps, RunEnds, HostSteps, Loads, Attaches, vars, RunStart, Input, History,
     Searches, Prompt, Iterate, RunFails, RunEnd, Create, LoadFromDb, Adopt, LoadFile, AttachProgress,
     Memorise, Delete, SaveToDb, SaveBegin, DeleteFile, ReadProgress, SaveWrite, SaveReplace,
     SaveFails, AddItem, UpdateStatus, Crash
<1>3. QED
  BY <1>1, <1>2, ObjectTypes, RunTypes, StoreTypes DEF TypeOK, RunOK

\* Every state of a behaviour has its types; sessions of objects, files and database are
\* of one kind, and a run refers to an object that is there.
THEOREM Types == Spec => []TypeOK
<1>1. QED
  BY InitType, StepType, PTL DEF Spec

-----------------------------------------------------------------------------
(* Files.  Durable is inductive with what is known of a write in progress: the
   temporary file is torn or whole, and belongs to an id that the store accepts. *)

WriteInv ==
  saving # None => FileOf(saving.sid) # None /\ saving.tmp \in {Torn, saving.data}

LEMMA StepDurable ==
  ASSUME TypeOK, WriteInv, Durable, [Next]_vars PROVE WriteInv' /\ Durable'
<1>1. ASSUME UNCHANGED <<files, saved>>, UNCHANGED saving \/ saving' = None
      PROVE  WriteInv' /\ Durable'
  BY <1>1 DEF WriteInv, Durable
<1>2. ASSUME NEW sid \in Sids, SaveBegin(sid) PROVE WriteInv' /\ Durable'
  BY <1>2 DEF SaveBegin, WriteInv, Durable
<1>3. ASSUME NEW sid \in Sids, DeleteFile(sid) PROVE WriteInv' /\ Durable'
  <2>1. FileOf(sid) \in FileNames /\ UNCHANGED saving
    BY <1>3 DEF DeleteFile, FileNames
  <2>2. ASSUME NEW t \in Sids, FileOf(t) # None PROVE files'[FileOf(t)] = saved'[t]
    <3>1. CASE t = sid
      BY <1>3, <2>1, <3>1 DEF DeleteFile, TypeOK
    <3>2. CASE t # sid
      <4>1. FileOf(t) # FileOf(sid) /\ FileOf(t) \in FileNames
        BY <2>2, <3>2, SessionsAssumption DEF FileNames
      <4>2. QED
        BY <1>3, <2>2, <3>2, <4>1 DEF DeleteFile, TypeOK, Durable
    <3>3. QED
      BY <3>1, <3>2
  <2>3. QED
    BY <2>1, <2>2 DEF WriteInv, Durable
<1>4. CASE SaveWrite
  <2>1. saving \in [sid : Sids, data : Data, tmp : Data \cup {Torn}]
    BY <1>4 DEF SaveWrite, TypeOK
  <2>2. saving'.sid = saving.sid /\ saving'.data = saving.data /\ saving'.tmp = saving.data
    BY <1>4, <2>1 DEF SaveWrite
  <2>3. FileOf(saving.sid) # None
    BY <1>4 DEF SaveWrite, WriteInv
  <2>4. WriteInv'
    BY <2>2, <2>3 DEF WriteInv
  <2>5. QED
    BY <1>4, <2>4 DEF SaveWrite, Durable
<1>5. CASE SaveReplace
  <2> DEFINE sid == saving.sid
  <2>1. sid \in Sids /\ saving.tmp = saving.data /\ FileOf(sid) # None
    BY <1>5 DEF SaveReplace, TypeOK, WriteInv
  <2>2. /\ files' = [files EXCEPT ![FileOf(sid)] = saving.data]
        /\ saved' = [saved EXCEPT ![sid] = saving.data]
        /\ saving' = None
    BY <1>5, <2>1 DEF SaveReplace
  <2>3. FileOf(sid) \in FileNames
    BY <2>1 DEF FileNames
  <2> HIDE DEF sid
  <2>4. ASSUME NEW t \in Sids, FileOf(t) # None PROVE files'[FileOf(t)] = saved'[t]
    <3>1. CASE t = sid
      BY <2>1, <2>2, <2>3, <3>1 DEF TypeOK
    <3>2. CASE t # sid
      <4>1. FileOf(t) # FileOf(sid) /\ FileOf(t) \in FileNames
        BY <2>1, <2>4, <3>2, SessionsAssumption DEF FileNames
      <4>2. QED
        BY <2>2, <2>4, <3>2, <4>1 DEF TypeOK, Durable
    <3>3. QED
      BY <3>1, <3>2
  <2>5. QED
    BY <2>2, <2>4 DEF WriteInv, Durable
<1>6. CASE RunSteps \/ RunEnds \/ Loads \/ Attaches \/ UNCHANGED vars \/ Crash
  <2>1. CASE RunSteps \/ RunEnds
    <3>1. PICK x \in Slots : \/ RunStart(x) \/ Input(x) \/ History(x) \/ Searches(x)
                             \/ Prompt(x) \/ Iterate(x) \/ RunFails(x) \/ RunEnd(x)
      BY <2>1 DEF RunSteps, RunEnds
    <3>2. UNCHANGED <<files, saved, saving>>
      BY <3>1 DEF RunStart, Input, History, Searches, Prompt, Iterate, RunFails, RunEnd
    <3>3. QED
      BY <1>1, <3>2
  <2>2. CASE Loads \/ Attaches \/ UNCHANGED vars \/ Crash
    BY <1>1, <2>2 DEF Loads, Attaches, vars, Create, LoadFromDb, Adopt, LoadFile, AttachProgress,
       Crash
  <2>3. QED
    BY <1>6, <2>1, <2>2
<1>7. CASE HostSteps
  <2>1. ASSUME NEW sid \in Sids, Delete(sid) \/ SaveToDb(sid) \/ ReadProgress(sid)
        PROVE  WriteInv' /\ Durable'
    BY <1>1, <2>1 DEF Delete, SaveToDb, ReadProgress
  <2>2. CASE SaveFails \/ AddItem \/ UpdateStatus \/ Memorise
    BY <1>1, <2>2 DEF SaveFails, AddItem, UpdateStatus, Memorise
  <2>3. QED
    BY <1>2, <1>3, <1>4, <1>5, <1>7, <2>1, <2>2 DEF HostSteps
<1>8. QED
  BY <1>6, <1>7, Steps

\* The file of a session holds what the last save that ended has written, in every
\* behaviour with crashes, failed writes, loads and deletions between any two steps, if
\* ids that the store accepts have files of their own (FileSessionStore.save).
THEOREM FilesDurable == Spec => []Durable
<1>1. Init => TypeOK /\ WriteInv /\ Durable
  <2>1. Init => WriteInv /\ Durable
    BY DEF Init, WriteInv, Durable, FileNames
  <2>2. QED
    BY <2>1, InitType
<1>2. TypeOK /\ WriteInv /\ Durable /\ [Next]_vars => (TypeOK /\ WriteInv /\ Durable)'
  BY StepType, StepDurable
<1>3. QED
  BY <1>1, <1>2, PTL DEF Spec

-----------------------------------------------------------------------------
(* Memories.  The scopes of a run are those of its object's configuration, which
   no step changes while the run lasts. *)

Own(x) == \A f \in runs[x].recalled : ScopeOf(f) \in Scopes(x)

\* What is found for a run is within its scopes.
LEMMA RecallsAreOwn ==
  ASSUME NEW x, NEW found \in Recalls(x), NEW f \in found
  PROVE  ScopeOf(f) \in Scopes(x)
BY DEF Recalls, Searched

LEMMA ScopesStay ==
  ASSUME NEW x, runs'[x].obj = runs[x].obj, UNCHANGED su,
         objs'[runs[x].obj].config = objs[runs[x].obj].config
  PROVE  Scopes(x)' = Scopes(x)
BY DEF Scopes, Config

LEMMA SetupStays == [Next]_vars => UNCHANGED su
BY Steps DEF RunSteps, RunEnds, HostSteps, Loads, Attaches, vars, RunStart, Input, History,
   Searches, Prompt, Iterate, RunFails, RunEnd, Create, LoadFromDb, Adopt, LoadFile, AttachProgress,
   Memorise, Delete, SaveToDb, SaveBegin, DeleteFile, ReadProgress, SaveWrite, SaveReplace,
   SaveFails, AddItem, UpdateStatus, Crash

LEMMA StepRecallOwn ==
  ASSUME TypeOK, RecallOwn, [Next]_vars PROVE RecallOwn'
<1>1. UNCHANGED su
  BY SetupStays
<1>2. \A x \in Slots : runs[x] # Idle => Own(x)
  BY DEF RecallOwn, Own
<1>3. ASSUME NEW x \in Slots, ~Crash, runs'[x] = runs[x] PROVE runs'[x] # Idle => Own(x)'
  <2> SUFFICES ASSUME runs[x] # Idle PROVE Own(x)'
    BY <1>3
  <2>1. runs[x].obj \in DOMAIN objs
    BY DEF TypeOK
  <2>2. objs'[runs[x].obj].config = objs[runs[x].obj].config
    BY <1>3, <2>1, ObjectsStay
  <2>3. Scopes(x)' = Scopes(x)
    BY <1>1, <1>3, <2>2, ScopesStay
  <2>4. QED
    BY <1>2, <1>3, <2>3 DEF Own
<1>4. CASE HostSteps \/ Loads \/ Attaches \/ UNCHANGED vars
  <2>1. UNCHANGED runs
    BY <1>4 DEF HostSteps, Loads, Attaches, Create, LoadFromDb, Adopt, LoadFile, AttachProgress,
                Delete, SaveToDb, SaveBegin, DeleteFile, ReadProgress, SaveWrite, SaveReplace,
                SaveFails, AddItem, UpdateStatus, Memorise, vars
  <2>2. CASE Crash
    BY <2>2 DEF Crash, RecallOwn
  <2>3. CASE ~Crash
    BY <1>3, <2>1, <2>3 DEF RecallOwn, Own
  <2>4. QED
    BY <2>2, <2>3
<1>5. CASE Crash
  BY <1>5 DEF Crash, RecallOwn
<1>6. ASSUME NEW x \in Slots, ~Crash,
             \A y \in Slots \ {x} : runs'[y] = runs[y],
             runs'[x] # Idle => Own(x)'
      PROVE  RecallOwn'
  BY <1>3, <1>6 DEF RecallOwn, Own
<1>7. ASSUME NEW x \in Slots, RunEnd(x) \/ RunFails(x), ~Crash PROVE RecallOwn'
  <2>1. runs' = [runs EXCEPT ![x] = Idle]
    BY <1>7 DEF RunEnd, RunFails
  <2>2. QED
    BY <1>6, <1>7, <2>1 DEF TypeOK
<1>8. ASSUME NEW x \in Slots, RunStart(x), ~Crash PROVE RecallOwn'
  <2>1. runs'[x].recalled = {} /\ \A y \in Slots \ {x} : runs'[y] = runs[y]
    BY <1>8 DEF RunStart, TypeOK
  <2>2. QED
    BY <1>6, <1>8, <2>1 DEF Own
<1>9. ASSUME NEW x \in Slots, ~Crash,
             Input(x) \/ History(x) \/ Searches(x) \/ Prompt(x) \/ Iterate(x)
      PROVE  RecallOwn'
  <2>1. /\ runs[x] # Idle /\ runs'[x].obj = runs[x].obj /\ UNCHANGED objs
        /\ \A y \in Slots \ {x} : runs'[y] = runs[y]
    BY <1>9, RunStepKeeps
  <2>2. Scopes(x)' = Scopes(x)
    BY <1>1, <2>1, ScopesStay
  <2>3. {"at", "obj", "q", "recalled"} \subseteq DOMAIN runs[x] /\ DOMAIN runs = Slots
    BY <2>1 DEF TypeOK
  <2>4. runs'[x].recalled = runs[x].recalled \/ runs'[x].recalled \in Recalls(x) \cup {{}}
    <3>1. CASE Input(x)
      <4>1. PICK c : runs' = [runs EXCEPT ![x].at = "history", ![x].complexity = c,
                                          ![x].messages = Append(@, User(runs[x].q))]
        BY <3>1 DEF Input
      <4>2. QED
        BY <2>3, <4>1
    <3>2. CASE History(x)
      <4>1. CASE Bypass(x)
        BY <2>3, <3>2, <4>1 DEF History
      <4>2. CASE ~Bypass(x)
        <5> DEFINE at == IF Config(x).strategy = "embedding_search" THEN "search" ELSE "prompt"
                   messages == Insert(runs[x].messages,
                                      Limited(runs[x].history, Config(x).maxHistory))
        <5>1. \A found \in IF Config(x).strategy = "embedding_search" THEN {{}} ELSE Recalls(x) :
                found \in Recalls(x) \cup {{}}
          OBVIOUS
        <5>2. PICK found \in Recalls(x) \cup {{}} :
                runs' = [runs EXCEPT
                  ![x].at = IF Config(x).strategy = "embedding_search" THEN "search" ELSE "prompt",
                  ![x].messages = Insert(@, Limited(runs[x].history, Config(x).maxHistory)),
                  ![x].recalled = found]
          BY <3>2, <4>2, <5>1 DEF History
        <5>3. runs' = [runs EXCEPT ![x].at = at, ![x].messages = messages, ![x].recalled = found]
          BY <2>3, <5>2
        <5> HIDE DEF at, messages
        <5>4. QED
          BY <2>3, <5>2, <5>3
      <4>3. QED
        BY <4>1, <4>2
    <3>3. CASE Searches(x)
      <4>1. PICK section \in {<<>>, <<"relevant_memories">>}, found \in Recalls(x) :
              runs' = [runs EXCEPT ![x].at = "prompt", ![x].prompt = @ \o section,
                                   ![x].recalled = found]
        BY <3>3 DEF Searches
      <4>2. QED
        BY <2>3, <4>1
    <3>4. CASE Prompt(x)
      <4>1. PICK prompt : runs' = [runs EXCEPT ![x].at = "loop", ![x].prompt = prompt]
        BY <3>4 DEF Prompt
      <4>2. QED
        BY <2>3, <4>1
    <3>5. CASE Iterate(x)
      BY <2>3, <3>5 DEF Iterate
    <3>6. QED
      BY <1>9, <3>1, <3>2, <3>3, <3>4, <3>5
  <2>5. Own(x)'
    BY <1>2, <2>1, <2>2, <2>4, RecallsAreOwn DEF Own
  <2>6. QED
    BY <1>6, <1>9, <2>1, <2>5
<1>10. QED
  BY <1>4, <1>5, <1>7, <1>8, <1>9, Steps DEF RunSteps, RunEnds

\* A run recalls facts of its own user and the organisation only, whatever overlaps,
\* and whatever is written, deleted or loaded meanwhile
\* (MemoryStage._recall_user_memory, _resolve_memory_scopes).
THEOREM MemoriesApart == Spec => []RecallOwn
<1>1. Init => TypeOK /\ RecallOwn
  BY InitType DEF Init, RecallOwn
<1>2. TypeOK /\ RecallOwn /\ [Next]_vars => (TypeOK /\ RecallOwn)'
  BY StepType, StepRecallOwn
<1>3. QED
  BY <1>1, <1>2, PTL DEF Spec
-----------------------------------------------------------------------------
(* Sums.  A recursive function exists and is the only one of its kind, by the least
   place where that would fail. *)

\* A set of numbers that is not empty has a least one.
LEMMA Least ==
  ASSUME NEW T \in SUBSET Nat, T # {}
  PROVE  \E least \in T : \A n \in T : least <= n
<1>1. IsWellFoundedOn(OpToRel(<, Nat), Nat)
  BY NatLessThanWellFounded
<1>2. PICK least \in T : \A n \in T : <<n, least>> \notin OpToRel(<, Nat)
  BY <1>1, WFMin, Zenon
<1>3. ASSUME NEW n \in T, n < least PROVE FALSE
  BY <1>2, <1>3 DEF OpToRel
<1>4. QED
  BY <1>3

\* The equation of Total's function up to n.
SumsTo(sum, numbers, n) ==
  sum = [k \in 0..n |-> IF k = 0 THEN 0 ELSE sum[k - 1] + numbers[k]]

LEMMA SumExists ==
  ASSUME NEW numbers \in Seq(Nat)
  PROVE  \A n \in 0..Len(numbers) : \E sum : SumsTo(sum, numbers, n)
<1> DEFINE T == {n \in 0..Len(numbers) : ~\E sum : SumsTo(sum, numbers, n)}
<1> SUFFICES ASSUME T # {} PROVE FALSE
  OBVIOUS
<1>0. T \in SUBSET Nat
  OBVIOUS
<1>1. PICK n \in T : \A k \in T : n <= k
  <2> HIDE DEF T
  <2>1. QED
    BY <1>0, Least, Zenon
<1>2. CASE n = 0
  <2>1. SumsTo([k \in 0..0 |-> 0], numbers, 0)
    BY DEF SumsTo
  <2>2. QED
    BY <1>2, <2>1
<1>3. CASE n # 0
  <2>1. n - 1 \in 0..Len(numbers) /\ n - 1 \notin T
    <3>1. n \in 0..Len(numbers) /\ n - 1 \in Nat
      BY <1>1, <1>3
    <3>2. n - 1 \in 0..Len(numbers) /\ ~(n <= n - 1)
      BY <3>1
    <3>3. QED
      BY <1>1, <3>2
  <2>2. PICK sum : SumsTo(sum, numbers, n - 1)
    BY <2>1
  <2> DEFINE more == [k \in 0..n |-> IF k = n THEN sum[n - 1] + numbers[n] ELSE sum[k]]
  <2>3. \A k \in 0..(n - 1) : sum[k] = IF k = 0 THEN 0 ELSE sum[k - 1] + numbers[k]
    BY <2>2 DEF SumsTo
  <2>4. \A k \in 0..n : more[k] = IF k = 0 THEN 0 ELSE more[k - 1] + numbers[k]
    BY <1>1, <1>3, <2>3
  <2>5. SumsTo(more, numbers, n)
    BY <2>4 DEF SumsTo
  <2>6. QED
    BY <1>1, <2>5
<1>4. QED
  BY <1>2, <1>3

LEMMA SumExtends ==
  ASSUME NEW numbers, NEW longer, NEW sum, NEW more, NEW n \in Nat,
         SumsTo(sum, numbers, n), SumsTo(more, longer, n + 1),
         \A k \in 1..n : longer[k] = numbers[k]
  PROVE  more[n + 1] = sum[n] + longer[n + 1]
<1> DEFINE T == {k \in 0..n : more[k] # sum[k]}
<1>1. /\ \A j \in 0..n : sum[j] = IF j = 0 THEN 0 ELSE sum[j - 1] + numbers[j]
      /\ \A j \in 0..(n + 1) : more[j] = IF j = 0 THEN 0 ELSE more[j - 1] + longer[j]
  BY DEF SumsTo
<1>2. ASSUME NEW k \in T, \A j \in T : k <= j PROVE FALSE
  <2>1. CASE k = 0
    BY <1>1, <2>1
  <2>2. CASE k # 0
    <3>1. k - 1 \in 0..n /\ k - 1 \notin T
      BY <1>2, <2>2
    <3>2. more[k - 1] = sum[k - 1]
      BY <3>1
    <3>3. QED
      BY <1>1, <2>2, <3>2
  <2>3. QED
    BY <2>1, <2>2
<1>3. T \in SUBSET Nat
  OBVIOUS
<1> HIDE DEF T
<1>4. T = {}
  BY <1>2, <1>3, Least
<1>5. more[n] = sum[n]
  BY <1>4 DEF T
<1>6. QED
  BY <1>1, <1>5

\* Total is the last value of a function that meets the equation.
LEMMA TotalSums ==
  ASSUME NEW numbers \in Seq(Nat)
  PROVE  \E sum : SumsTo(sum, numbers, Len(numbers)) /\ Total(numbers) = sum[Len(numbers)]
<1> DEFINE sum == CHOOSE f : SumsTo(f, numbers, Len(numbers))
<1>1. SumsTo(sum, numbers, Len(numbers))
  BY SumExists
<1>2. Total(numbers) = sum[Len(numbers)]
  BY DEF Total, SumsTo
<1>3. QED
  BY <1>1, <1>2

\* A number more at the end is added.
LEMMA TotalAppend ==
  /\ Total(<<>>) = 0
  /\ \A numbers \in Seq(Nat), number \in Nat :
       Total(Append(numbers, number)) = Total(numbers) + number
<1>1. Total(<<>>) = 0
  <2>1. PICK sum : SumsTo(sum, <<>>, Len(<<>>)) /\ Total(<<>>) = sum[Len(<<>>)]
    <3>1. <<>> \in Seq(Nat)
      OBVIOUS
    <3>2. QED
      BY <3>1, TotalSums, Zenon
  <2>2. QED
    BY <2>1 DEF SumsTo
<1>2. ASSUME NEW numbers \in Seq(Nat), NEW number \in Nat
      PROVE  Total(Append(numbers, number)) = Total(numbers) + number
  <2> DEFINE longer == Append(numbers, number)
             n == Len(numbers)
  <2>1. longer \in Seq(Nat) /\ Len(longer) = n + 1 /\ n \in Nat
        /\ longer[n + 1] = number /\ \A k \in 1..n : longer[k] = numbers[k]
    OBVIOUS
  <2>2. PICK sum : SumsTo(sum, numbers, n) /\ Total(numbers) = sum[n]
    BY TotalSums
  <2> HIDE DEF longer, n
  <2>3. PICK more : SumsTo(more, longer, n + 1) /\ Total(longer) = more[n + 1]
    BY <2>1, TotalSums
  <2>4. \A k \in 1..n : longer[k] = numbers[k]
    BY <2>1
  <2>5. more[n + 1] = sum[n] + longer[n + 1]
    BY <2>1, <2>2, <2>3, <2>4, SumExtends
  <2>6. QED
    BY <2>1, <2>2, <2>3, <2>5 DEF longer
<1>3. QED
  BY <1>1, <1>2

-----------------------------------------------------------------------------
(* Turns.  A conversation is whole when its answers are and its totals are those of
   its questions. *)

WholeOf(messages, turns, tokens) ==
  /\ \A i \in DOMAIN messages : messages[i].role = "assistant" =>
       /\ i > 1 /\ messages[i - 1].role = "user"
       /\ messages[i - 1].q = messages[i].q
  /\ turns = Cardinality(Questions(messages))
  /\ tokens = Total(Spent(messages))

LEMMA WholeParts == \A d : Whole(d) <=> WholeOf(d.messages, d.turns, d.tokens)
BY DEF Whole, WholeOf

\* What a message at the end adds to the questions and to what they cost.
LEMMA MessageAdds ==
  ASSUME NEW messages \in Seq(Messages), NEW e \in Messages
  PROVE  LET n == Len(messages)
             more == Append(messages, e)
         IN /\ IsFiniteSet(Questions(messages)) /\ n + 1 \notin Questions(messages)
            /\ e.role = "user" => Questions(more) = Questions(messages) \cup {n + 1}
            /\ e.role # "user" => Questions(more) = Questions(messages)
            /\ Spent(messages) \in Seq(Nat)
            /\ Spent(more) = Append(Spent(messages), IF e.role = "user" THEN e.q ELSE 0)
<1> DEFINE n == Len(messages)
           more == Append(messages, e)
           cost == IF e.role = "user" THEN e.q ELSE 0
<1>1. /\ n \in Nat /\ DOMAIN messages = 1..n /\ DOMAIN more = 1..(n + 1)
      /\ more[n + 1] = e /\ \A i \in 1..n : more[i] = messages[i]
  OBVIOUS
<1> HIDE DEF more
<1>2. Questions(messages) \subseteq 1..n
  BY <1>1 DEF Questions
<1>3. IsFiniteSet(Questions(messages))
  <2>1. IsFiniteSet(1..n) /\ Questions(messages) \in SUBSET (1..n)
    BY <1>1, <1>2, FS_Interval
  <2>2. QED
    BY <2>1, FS_Subset
<1>4. /\ e.role = "user" => Questions(more) = Questions(messages) \cup {n + 1}
      /\ e.role # "user" => Questions(more) = Questions(messages)
  BY <1>1 DEF Questions
<1>5. Spent(messages) \in Seq(Nat) /\ Len(Spent(messages)) = n
  <2>1. Spent(messages) = [i \in 1..n |-> IF i \in Questions(messages) THEN messages[i].q ELSE 0]
    BY <1>1 DEF Spent
  <2>2. \A i \in 1..n : messages[i].q \in Nat
    <3>1. \A i \in 1..n : messages[i] \in Messages
      OBVIOUS
    <3>2. QED
      BY <3>1 DEF Messages
  <2>3. Spent(messages) \in [1..n -> Nat]
    BY <2>1, <2>2
  <2>4. QED
    BY <1>1, <2>3
<1>6. Spent(more) = Append(Spent(messages), cost)
  <2>1. Spent(more) = [i \in 1..(n + 1) |-> IF i \in Questions(more) THEN more[i].q ELSE 0]
    BY <1>1 DEF Spent
  <2>2. \A i \in 1..n : Spent(more)[i] = Spent(messages)[i]
    BY <1>1, <1>4, <2>1 DEF Spent
  <2>3. Spent(more)[n + 1] = cost
    BY <1>1, <1>2, <1>4, <2>1
  <2>4. cost \in Nat
    BY DEF Messages
  <2>5. Spent(more) \in [1..(n + 1) -> Nat]
    <3>1. \A i \in 1..n : Spent(messages)[i] \in Nat
      BY <1>5
    <3>2. \A i \in 1..(n + 1) : Spent(more)[i] \in Nat
      BY <1>1, <2>2, <2>3, <2>4, <3>1
    <3>3. QED
      BY <2>1, <3>2
  <2> DEFINE spent == Spent(messages)
             longer == Append(spent, cost)
  <2>6. longer \in [1..(n + 1) -> Nat] /\ longer[n + 1] = cost /\ \A i \in 1..n : longer[i] = spent[i]
    <3> HIDE DEF spent, cost, n
    <3>1. spent \in Seq(Nat) /\ Len(spent) = n
      BY <1>5 DEF spent
    <3>2. longer \in Seq(Nat) /\ Len(longer) = n + 1 /\ n \in Nat
      BY <2>4, <3>1
    <3>3. longer[n + 1] = cost /\ \A i \in 1..n : longer[i] = spent[i]
      BY <2>4, <3>1
    <3> HIDE DEF longer
    <3>4. QED
      BY <3>2, <3>3
  <2>7. \A i \in 1..(n + 1) : Spent(more)[i] = longer[i]
    <3> HIDE DEF longer, cost
    <3>1. QED
      BY <1>1, <2>2, <2>3, <2>6
  <2>8. QED
    <3> HIDE DEF longer, cost
    <3>1. Spent(more) = longer
      BY <2>5, <2>6, <2>7
    <3>2. QED
      BY <3>1 DEF longer
<1>7. QED
  BY <1>1, <1>2, <1>3, <1>4, <1>5, <1>6 DEF more

\* A question, alone or with its answer, keeps a conversation whole.
LEMMA QuestionWhole ==
  ASSUME NEW messages \in Seq(Messages), NEW turns \in Nat, NEW tokens \in Nat, NEW n \in Nat,
         WholeOf(messages, turns, tokens)
  PROVE  /\ WholeOf(Append(messages, User(n)), turns + 1, tokens + n)
         /\ WholeOf(Append(Append(messages, User(n)), Answer(n)), turns + 1, tokens + n)
<1>1. User(n) \in Messages /\ Answer(n) \in Messages
  BY DEF User, Answer, Messages
<1>2. /\ User(n).role = "user" /\ User(n).q = n
      /\ Answer(n).role = "assistant" /\ Answer(n).q = n
  BY DEF User, Answer
<1> DEFINE asking == Append(messages, User(n))
           answer == Append(asking, Answer(n))
           len == Len(messages)
<1>3. asking \in Seq(Messages) /\ Len(asking) = len + 1 /\ len \in Nat
  BY <1>1
<1>4. /\ DOMAIN messages = 1..len
      /\ DOMAIN asking = 1..(len + 1) /\ asking[len + 1] = User(n)
      /\ \A i \in 1..len : asking[i] = messages[i]
      /\ DOMAIN answer = 1..(len + 2) /\ answer[len + 2] = Answer(n)
      /\ \A i \in 1..(len + 1) : answer[i] = asking[i]
  BY <1>1, <1>3
<1>5. /\ Cardinality(Questions(asking)) = turns + 1 /\ Cardinality(Questions(answer)) = turns + 1
  <2>1. IsFiniteSet(Questions(messages)) /\ len + 1 \notin Questions(messages)
        /\ Questions(asking) = Questions(messages) \cup {len + 1}
    BY <1>1, <1>2, MessageAdds
  <2>2. Questions(answer) = Questions(asking)
    BY <1>1, <1>2, <1>3, MessageAdds
  <2>3. Cardinality(Questions(asking)) = Cardinality(Questions(messages)) + 1
    BY <2>1, FS_AddElement
  <2>4. QED
    BY <2>2, <2>3 DEF WholeOf
<1>6. /\ Total(Spent(asking)) = tokens + n /\ Total(Spent(answer)) = tokens + n
  <2>1. Spent(messages) \in Seq(Nat) /\ Spent(asking) = Append(Spent(messages), n)
    BY <1>1, <1>2, MessageAdds
  <2>2. Spent(asking) \in Seq(Nat) /\ Spent(answer) = Append(Spent(asking), 0)
    BY <1>1, <1>2, <1>3, MessageAdds
  <2>3. Total(Spent(asking)) = tokens + n
    BY <2>1, TotalAppend DEF WholeOf
  <2>4. Total(Spent(answer)) = Total(Spent(asking)) + 0
    BY <2>2, TotalAppend
  <2>5. QED
    BY <2>3, <2>4
<1> HIDE DEF asking, answer, len
<1>7. WholeOf(asking, turns + 1, tokens + n)
  <2>1. ASSUME NEW i \in 1..(len + 1), asking[i].role = "assistant"
        PROVE  i > 1 /\ asking[i - 1].role = "user" /\ asking[i - 1].q = asking[i].q
    <3>1. i \in 1..len
      BY <1>2, <1>3, <1>4, <2>1
    <3>2. i \in DOMAIN messages /\ messages[i].role = "assistant"
      BY <1>4, <2>1, <3>1
    <3>3. i > 1 /\ messages[i - 1].role = "user" /\ messages[i - 1].q = messages[i].q
      BY <3>2 DEF WholeOf
    <3>4. i - 1 \in 1..len
      BY <1>3, <3>1, <3>3
    <3>5. QED
      BY <1>4, <3>1, <3>3, <3>4
  <2>2. QED
    BY <1>4, <1>5, <1>6, <2>1 DEF WholeOf
<1>8. WholeOf(answer, turns + 1, tokens + n)
  <2>1. ASSUME NEW i \in 1..(len + 2), answer[i].role = "assistant"
        PROVE  i > 1 /\ answer[i - 1].role = "user" /\ answer[i - 1].q = answer[i].q
    <3>1. CASE i = len + 2
      BY <1>2, <1>3, <1>4, <3>1
    <3>2. CASE i # len + 2
      <4>1. i \in 1..(len + 1) /\ asking[i].role = "assistant"
        BY <1>3, <1>4, <2>1, <3>2
      <4>2. i > 1 /\ asking[i - 1].role = "user" /\ asking[i - 1].q = asking[i].q
        BY <1>4, <1>7, <4>1 DEF WholeOf
      <4>3. QED
        BY <1>3, <1>4, <4>1, <4>2
    <3>3. QED
      BY <3>1, <3>2
  <2>2. QED
    BY <1>4, <1>5, <1>6, <2>1 DEF WholeOf
<1>9. QED
  BY <1>7, <1>8 DEF asking, answer

\* A new session is whole; storing, loading and progress leave it as it is.
LEMMA FreshWhole == \A sid, config : Whole(Fresh(sid, config))
<1>1. Questions(<<>>) = {} /\ Spent(<<>>) = <<>>
  BY DEF Questions, Spent
<1>2. Cardinality({}) = 0 /\ Total(<<>>) = 0
  BY FS_EmptySet, TotalAppend
<1>3. WholeOf(<<>>, 0, 0)
  <2> DEFINE none == <<>>
  <2>1. DOMAIN none = {} /\ Questions(none) = {} /\ Total(Spent(none)) = 0
    BY <1>1, <1>2
  <2> HIDE DEF none
  <2>2. WholeOf(none, 0, 0)
    BY <1>2, <2>1 DEF WholeOf
  <2>3. QED
    BY <2>2 DEF none
<1>4. QED
  BY <1>3, WholeParts DEF Fresh

LEMMA CopyWhole ==
  /\ \A o : Whole(Snapshot(o)) <=> Whole(o)
  /\ \A d, config : Whole(Restored(d, config)) <=> Whole(d)
  /\ \A o \in SessionStates : \A p : Whole([o EXCEPT !.progress = p]) <=> Whole(o)
<1>1. \A o \in SessionStates : \A p :
        LET r == [o EXCEPT !.progress = p]
        IN r.messages = o.messages /\ r.turns = o.turns /\ r.tokens = o.tokens
  BY DEF SessionStates
<1>2. \A o : LET d == Snapshot(o)
              IN d.messages = o.messages /\ d.turns = o.turns /\ d.tokens = o.tokens
  BY DEF Snapshot
<1>3. \A d, config : LET o == Restored(d, config)
                      IN o.messages = d.messages /\ o.turns = d.turns /\ o.tokens = d.tokens
  BY DEF Restored
<1>4. QED
  BY <1>1, <1>2, <1>3, WholeParts

\* The end of a run adds a whole turn.
LEMMA TurnWhole ==
  ASSUME NEW o \in SessionStates, NEW n \in Nat, NEW output \in BOOLEAN, Whole(o)
  PROVE  Whole(Turn(o, n, output))
<1> DEFINE asking == Append(o.messages, User(n))
           answer == Append(asking, Answer(n))
           added == o.messages \o <<User(n)>> \o (IF output THEN <<Answer(n)>> ELSE <<>>)
<1>1. o.messages \in Seq(Messages) /\ o.turns \in Nat /\ o.tokens \in Nat
  BY DEF SessionStates
<1>2. User(n) \in Messages /\ Answer(n) \in Messages
  BY DEF User, Answer, Messages
<1>3. added = IF output THEN answer ELSE asking
  <2>1. o.messages \o <<User(n)>> = asking /\ asking \in Seq(Messages)
    BY <1>1, <1>2
  <2> HIDE DEF asking
  <2>2. asking \o <<Answer(n)>> = Append(asking, Answer(n)) /\ asking \o <<>> = asking
    BY <1>2, <2>1
  <2>3. QED
    BY <2>1, <2>2
<1>4. WholeOf(asking, o.turns + 1, o.tokens + n) /\ WholeOf(answer, o.turns + 1, o.tokens + n)
  BY <1>1, QuestionWhole, WholeParts
<1> HIDE DEF asking, answer
<1>5. WholeOf(added, o.turns + 1, o.tokens + n)
  BY <1>3, <1>4
<1>6. /\ Turn(o, n, output).messages = added
      /\ Turn(o, n, output).turns = o.turns + 1
      /\ Turn(o, n, output).tokens = o.tokens + n
  <2>1. Turn(o, n, output) =
          [o EXCEPT !.messages = added, !.turns = o.turns + 1, !.tokens = o.tokens + n]
    BY DEF Turn, SessionStates
  <2> HIDE DEF added
  <2>2. QED
    BY <2>1 DEF SessionStates
<1> HIDE DEF added
<1>7. QED
  BY <1>5, <1>6, WholeParts

\* What is about to be written is whole, too.
WholeInv == TurnsWhole /\ (saving # None => Whole(saving.data))

LEMMA StepObjectsWhole ==
  ASSUME TypeOK, WholeInv, [Next]_vars
  PROVE  \A i \in DOMAIN objs' : Whole(objs'[i])
<1>1. \A i \in DOMAIN objs : Whole(objs[i])
  BY DEF WholeInv, TurnsWhole
<1>2. ASSUME NEW o, Whole(o), objs' = Append(objs, o)
      PROVE  \A i \in DOMAIN objs' : Whole(objs'[i])
  BY <1>1, <1>2 DEF TypeOK
<1>3. ASSUME NEW i \in DOMAIN objs, NEW o, Whole(o), objs' = [objs EXCEPT ![i] = o]
      PROVE  \A j \in DOMAIN objs' : Whole(objs'[j])
  BY <1>1, <1>3 DEF TypeOK
<1>4. CASE Loads
  <2>1. ASSUME NEW sid \in Sids, Create(sid) PROVE \A i \in DOMAIN objs' : Whole(objs'[i])
    BY <1>2, <2>1, FreshWhole DEF Create
  <2>2. ASSUME NEW sid \in Sids, LoadFromDb(sid) PROVE \A i \in DOMAIN objs' : Whole(objs'[i])
    BY <1>2, <2>2, CopyWhole DEF LoadFromDb, Adopt, WholeInv, TurnsWhole
  <2>3. ASSUME NEW sid \in Sids, LoadFile(sid) PROVE \A i \in DOMAIN objs' : Whole(objs'[i])
    <3>1. Whole(files[FileOf(sid)])
      BY <2>3 DEF LoadFile, WholeInv, TurnsWhole, FileNames
    <3>2. PICK config : objs' = Append(objs, Restored(files[FileOf(sid)], config))
      BY <2>3 DEF LoadFile
    <3>3. QED
      BY <1>2, <3>1, <3>2, CopyWhole
  <2>4. QED
    BY <1>4, <2>1, <2>2, <2>3 DEF Loads
<1>5. CASE Attaches
  <2>1. PICK sid \in Sids : AttachProgress(sid)
    BY <1>5 DEF Attaches
  <2> DEFINE i == managed[sid]
             o == [objs[i] EXCEPT !.progress = log]
  <2>2. i \in DOMAIN objs /\ objs' = [objs EXCEPT ![i] = o]
    BY <2>1 DEF AttachProgress, TypeOK
  <2>3. Whole(o)
    <3>1. objs[i] \in SessionStates /\ Whole(objs[i])
      BY <1>1, <2>2 DEF TypeOK
    <3> HIDE DEF i
    <3>2. QED
      BY <3>1, CopyWhole
  <2> HIDE DEF i, o
  <2>4. QED
    BY <1>3, <2>2, <2>3
<1>6. CASE RunEnds
  <2>1. PICK x \in Slots : RunEnd(x)
    BY <1>6 DEF RunEnds
  <2>2. runs[x].obj \in DOMAIN objs /\ runs[x].q \in Nat
    BY <2>1 DEF RunEnd, Idle, TypeOK
  <2>3. PICK output \in BOOLEAN : objs' = [objs EXCEPT ![runs[x].obj] = Recorded(x, output)]
    BY <2>1 DEF RunEnd
  <2>4. Whole(Recorded(x, output))
    BY <1>1, <2>2, TurnWhole DEF Recorded, TypeOK
  <2>5. QED
    BY <1>3, <2>2, <2>3, <2>4
<1>7. CASE Crash
  BY <1>7 DEF Crash
<1>8. CASE HostSteps \/ UNCHANGED vars
  BY <1>1, <1>8 DEF HostSteps, Delete, SaveToDb, SaveBegin, DeleteFile, ReadProgress, SaveWrite,
     SaveReplace, SaveFails, AddItem, UpdateStatus, Memorise, vars
<1>9. CASE RunSteps
  <2>1. PICK x \in Slots : \/ RunStart(x) \/ Input(x) \/ History(x) \/ Searches(x) \/ Prompt(x)
                           \/ Iterate(x) \/ RunFails(x)
    BY <1>9 DEF RunSteps
  <2>2. QED
    BY <1>1, <2>1 DEF RunStart, Input, History, Searches, Prompt, Iterate, RunFails
<1>10. QED
  BY <1>4, <1>5, <1>6, <1>7, <1>8, <1>9, Steps

LEMMA StepStoresWhole ==
  ASSUME TypeOK, WriteInv, WholeInv, [Next]_vars
  PROVE  /\ \A s \in Sids : db'[s] # None => Whole(db'[s])
         /\ \A f \in FileNames : files'[f] \notin {None, Torn} => Whole(files'[f])
         /\ saving' # None => Whole(saving'.data)
<1> DEFINE Stored ==
      /\ \A s \in Sids : db'[s] # None => Whole(db'[s])
      /\ \A f \in FileNames : files'[f] \notin {None, Torn} => Whole(files'[f])
      /\ saving' # None => Whole(saving'.data)
<1>1. ASSUME UNCHANGED <<db, files>>, UNCHANGED saving \/ saving' = None PROVE Stored
  BY <1>1 DEF WholeInv, TurnsWhole
<1>2. ASSUME NEW sid \in Sids, managed[sid] # None PROVE Whole(Snapshot(objs[managed[sid]]))
  BY <1>2, CopyWhole DEF TypeOK, WholeInv, TurnsWhole
<1>3. ASSUME NEW sid \in Sids, SaveToDb(sid) PROVE Stored
  BY <1>2, <1>3 DEF SaveToDb, TypeOK, WholeInv, TurnsWhole
<1>4. ASSUME NEW sid \in Sids, SaveBegin(sid) PROVE Stored
  <2>1. saving'.data = Snapshot(objs[managed[sid]]) /\ UNCHANGED <<db, files>>
    BY <1>4 DEF SaveBegin
  <2>2. QED
    BY <1>2, <1>4, <2>1 DEF SaveBegin, WholeInv, TurnsWhole
<1>5. ASSUME NEW sid \in Sids, DeleteFile(sid) PROVE Stored
  BY <1>5 DEF DeleteFile, TypeOK, WholeInv, TurnsWhole
<1>6. CASE SaveWrite
  <2>1. saving # None /\ saving \in [sid : Sids, data : Data, tmp : Data \cup {Torn}]
    BY <1>6 DEF SaveWrite, TypeOK
  <2>2. saving'.data = saving.data /\ UNCHANGED <<db, files>>
    BY <1>6, <2>1 DEF SaveWrite
  <2>3. QED
    BY <2>1, <2>2 DEF WholeInv, TurnsWhole
<1>7. CASE SaveReplace
  <2>1. saving.tmp = saving.data /\ Whole(saving.data)
    BY <1>7 DEF SaveReplace, WriteInv, WholeInv
  <2>2. files' = [files EXCEPT ![FileOf(saving.sid)] = saving.data] /\ UNCHANGED db /\ saving' = None
    BY <1>7, <2>1 DEF SaveReplace
  <2>3. QED
    BY <2>1, <2>2 DEF TypeOK, WholeInv, TurnsWhole
<1>8. ASSUME NEW sid \in Sids, Delete(sid) \/ ReadProgress(sid) PROVE Stored
  BY <1>1, <1>8 DEF Delete, ReadProgress
<1>9. CASE SaveFails \/ AddItem \/ UpdateStatus \/ Memorise
  BY <1>1, <1>9 DEF SaveFails, AddItem, UpdateStatus, Memorise
<1>10. CASE RunSteps \/ RunEnds
  <2>1. PICK x \in Slots : \/ RunStart(x) \/ Input(x) \/ History(x) \/ Searches(x) \/ Prompt(x)
                           \/ Iterate(x) \/ RunFails(x) \/ RunEnd(x)
    BY <1>10 DEF RunSteps, RunEnds
  <2>2. UNCHANGED <<db, files, saving>>
    BY <2>1 DEF RunStart, Input, History, Searches, Prompt, Iterate, RunFails, RunEnd
  <2>3. QED
    BY <1>1, <2>2
<1>11. CASE Loads \/ Attaches \/ Crash \/ UNCHANGED vars
  BY <1>1, <1>11 DEF Loads, Attaches, vars, Create, LoadFromDb, Adopt, LoadFile, AttachProgress,
     Crash
<1>12. QED
  BY <1>3, <1>4, <1>5, <1>6, <1>7, <1>8, <1>9, <1>10, <1>11, Steps DEF HostSteps

\* Every answer stands right behind its question and the totals are those of the turns,
\* in objects, database and files, however runs overlap and whatever is stored, loaded
\* or lost between any two steps (HarnessSession.run).
THEOREM WholeTurns == Spec => []TurnsWhole
<1>1. Init => WholeInv
  BY DEF Init, WholeInv, TurnsWhole, FileNames
<1>2. Init => TypeOK /\ WriteInv /\ Durable
  BY InitType DEF Init, WriteInv, Durable, FileNames
<1>3. TypeOK /\ WriteInv /\ Durable /\ WholeInv /\ [Next]_vars
        => (TypeOK /\ WriteInv /\ Durable /\ WholeInv)'
  <2> SUFFICES ASSUME TypeOK, WriteInv, Durable, WholeInv, [Next]_vars PROVE WholeInv'
    BY StepType, StepDurable
  <2>1. QED
    BY StepObjectsWhole, StepStoresWhole DEF WholeInv, TurnsWhole
<1>4. WholeInv => TurnsWhole
  BY DEF WholeInv
<1>5. QED
  BY <1>1, <1>2, <1>3, <1>4, PTL DEF Spec

-----------------------------------------------------------------------------
(* Lessons *)

\* The latest entries of a list of numbers, and those of a list that grows.
LEMMA LastOfFacts ==
  ASSUME NEW list \in Seq(Nat), NEW n \in Nat, NEW e \in Nat
  PROVE  /\ LastOf(list, n) \in Seq(Nat)
         /\ LastOf(LastOf(list, n), n) = LastOf(list, n)
         /\ LastOf(Append(LastOf(list, n), e), n) = LastOf(Append(list, e), n)
<1> DEFINE len == Len(list)
           kept == LastOf(list, n)
           more == Append(list, e)
<1>1. len \in Nat /\ DOMAIN list = 1..len
  OBVIOUS
<1>2. CASE n >= len
  BY <1>1, <1>2 DEF LastOf
<1>3. CASE n < len
  <2>1. kept = SubSeq(list, len - n + 1, len)
    BY <1>1, <1>3 DEF LastOf
  <2>2. kept \in Seq(Nat) /\ Len(kept) = n /\ \A i \in 1..n : kept[i] = list[len - n + i]
    <3> DEFINE m == len - n + 1
    <3>1. m \in Int /\ len \in Int /\ \A i \in m..len : list[i] \in Nat
      <4>1. \A i \in 1..len : list[i] \in Nat
        BY <1>1
      <4>2. m \in Int /\ len \in Int /\ \A i \in m..len : i \in 1..len
        BY <1>1, <1>3
      <4>3. QED
        BY <4>1, <4>2
    <3> HIDE DEF kept, len
    <3>2. m <= len => len - m + 1 = n
      BY <1>1, <1>3
    <3>3. m <= len \/ (n = 0 /\ len - m + 1 = 0)
      BY <1>1, <1>3
    <3>4. \A i \in 1..n : m + i - 1 = len - n + i
      BY <1>1, <1>3
    <3> HIDE DEF m
    <3>5. /\ SubSeq(list, m, len) \in Seq(Nat)
          /\ Len(SubSeq(list, m, len)) = IF m <= len THEN len - m + 1 ELSE 0
          /\ \A i \in 1..(len - m + 1) : SubSeq(list, m, len)[i] = list[m + i - 1]
      BY <3>1, SubSeqProperties
    <3>6. kept = SubSeq(list, m, len)
      BY <2>1 DEF m
    <3>7. QED
      BY <3>1, <3>2, <3>3, <3>4, <3>5, <3>6
  <2>3. /\ more \in Seq(Nat) /\ Len(more) = len + 1 /\ more[len + 1] = e
        /\ \A i \in 1..len : more[i] = list[i]
    BY <1>1
  <2> DEFINE longer == Append(kept, e)
  <2> HIDE DEF kept, more, len
  <2>4. /\ longer \in Seq(Nat) /\ Len(longer) = n + 1 /\ longer[n + 1] = e
        /\ \A i \in 1..n : longer[i] = kept[i]
    BY <2>2
  <2> HIDE DEF longer
  <2>5. LastOf(more, n) = SubSeq(more, len + 1 - n + 1, len + 1)
    BY <1>1, <1>3, <2>3 DEF LastOf
  <2>6. LastOf(longer, n) = SubSeq(longer, 2, n + 1)
    BY <2>4 DEF LastOf
  <2>7. /\ LastOf(more, n) \in Seq(Nat) /\ Len(LastOf(more, n)) = n
        /\ \A i \in 1..n : LastOf(more, n)[i] = more[len + 1 - n + i]
    BY <1>1, <1>3, <2>3, <2>5
  <2>8. /\ LastOf(longer, n) \in Seq(Nat) /\ Len(LastOf(longer, n)) = n
        /\ \A i \in 1..n : LastOf(longer, n)[i] = longer[i + 1]
    BY <2>4, <2>6
  <2>9. \A i \in 1..n : longer[i + 1] = more[len + 1 - n + i]
    <3> TAKE i \in 1..n
    <3>1. CASE i = n
      BY <1>1, <2>3, <2>4, <3>1
    <3>2. CASE i # n
      BY <1>1, <1>3, <2>2, <2>3, <2>4, <3>2
    <3>3. QED
      BY <3>1, <3>2
  <2>10. LastOf(longer, n) = LastOf(more, n)
    BY <2>7, <2>8, <2>9, SeqEqual
  <2>11. LastOf(kept, n) = kept
    BY <2>2 DEF LastOf
  <2>12. QED
    BY <2>2, <2>10, <2>11 DEF kept, more, longer
<1>4. QED
  BY <1>1, <1>2, <1>3

\* What a run's buffer and the model's view hold, and what they are made of.
LessonOf(run, max) ==
  /\ {"at", "iteration", "lessons", "view", "retried"} \subseteq DOMAIN run
  /\ run.iteration \in Nat /\ run.retried \in Seq(Nat)
  /\ \A k \in DOMAIN run.retried : run.retried[k] <= run.iteration
  /\ run.lessons = LastOf(run.retried, max)
  /\ run.view = LastOf(SubSeq(run.retried, 1, Cardinality(Earlier(run))), max)
LessonInv == \A x \in Slots : runs[x] # Idle => LessonOf(runs[x], su.lessons)

\* Before the loop nothing of this changes.
LEMMA LessonsKeep ==
  ASSUME TypeOK, LessonInv, NEW x \in Slots, Input(x) \/ History(x) \/ Searches(x) \/ Prompt(x)
  PROVE  LessonOf(runs'[x], su.lessons)
<1>1. runs[x] # Idle
  BY RunStepKeeps
<1>2. LessonOf(runs[x], su.lessons) /\ DOMAIN runs = Slots
  BY <1>1 DEF LessonInv, TypeOK
<1>3. /\ DOMAIN runs'[x] = DOMAIN runs[x]
      /\ runs'[x].iteration = runs[x].iteration /\ runs'[x].retried = runs[x].retried
      /\ runs'[x].lessons = runs[x].lessons /\ runs'[x].view = runs[x].view
  <2>1. CASE Input(x)
    <3>1. PICK c : runs' = [runs EXCEPT ![x].at = "history", ![x].complexity = c,
                                        ![x].messages = Append(@, User(runs[x].q))]
      BY <2>1 DEF Input
    <3>2. QED
      BY <1>2, <3>1
  <2>2. CASE History(x)
    <3> DEFINE at == IF Config(x).strategy = "embedding_search" THEN "search" ELSE "prompt"
               messages == Insert(runs[x].messages,
                                  Limited(runs[x].history, Config(x).maxHistory))
    <3>1. CASE Bypass(x)
      <4>1. runs' = [runs EXCEPT ![x].at = "prompt"]
        BY <2>2, <3>1 DEF History
      <4>2. QED
        BY <1>2, <4>1
    <3>2. CASE ~Bypass(x)
      <4>1. PICK found :
              runs' = [runs EXCEPT
                ![x].at = IF Config(x).strategy = "embedding_search" THEN "search" ELSE "prompt",
                ![x].messages = Insert(@, Limited(runs[x].history, Config(x).maxHistory)),
                ![x].recalled = found]
        BY <2>2, <3>2 DEF History
      <4>2. runs' = [runs EXCEPT ![x].at = at, ![x].messages = messages, ![x].recalled = found]
        BY <1>2, <4>1
      <4> HIDE DEF at, messages
      <4>3. QED
        BY <1>2, <4>2
    <3>3. QED
      BY <3>1, <3>2
  <2>3. CASE Searches(x)
    <3>1. PICK section, found :
            runs' = [runs EXCEPT ![x].at = "prompt", ![x].prompt = @ \o section,
                                 ![x].recalled = found]
      BY <2>3 DEF Searches
    <3>2. QED
      BY <1>2, <3>1
  <2>4. CASE Prompt(x)
    <3>1. PICK prompt : runs' = [runs EXCEPT ![x].at = "loop", ![x].prompt = prompt]
      BY <2>4 DEF Prompt
    <3>2. QED
      BY <1>2, <3>1
  <2>5. QED
    BY <2>1, <2>2, <2>3, <2>4
<1>4. Earlier(runs'[x]) = Earlier(runs[x])
  BY <1>3 DEF Earlier
<1>5. QED
  BY <1>2, <1>3, <1>4 DEF LessonOf

\* An iteration shows what the buffer held, and a retry adds its lesson.
LEMMA IterateLessons ==
  ASSUME TypeOK, LessonInv, NEW x \in Slots, Iterate(x)
  PROVE  LessonOf(runs'[x], su.lessons)
<1> DEFINE run == runs[x]
           i == run.iteration + 1
           max == su.lessons
           next == runs'[x]
<1>1. run # Idle
  BY DEF Iterate, Idle
<1>2. LessonOf(run, max) /\ DOMAIN runs = Slots
  BY <1>1 DEF LessonInv, TypeOK
<1>3. max \in Nat
  BY SessionsAssumption DEF TypeOK
<1>4. /\ DOMAIN next = DOMAIN run /\ next.iteration = i /\ next.view = LastOf(run.lessons, max)
      /\ \/ next.retried = run.retried /\ next.lessons = run.lessons
         \/ /\ next.retried = Append(run.retried, i)
            /\ next.lessons = LastOf(Append(run.lessons, i), max)
  BY <1>2 DEF Iterate, LessonOf, View, Latest
<1> HIDE DEF run, max, next
<1>5. /\ i \in Nat /\ run.iteration \in Nat /\ run.retried \in Seq(Nat)
      /\ \A k \in DOMAIN run.retried : run.retried[k] \in Nat /\ run.retried[k] < i
  BY <1>2 DEF LessonOf
<1>6. /\ run.lessons = LastOf(run.retried, max)
      /\ LastOf(run.lessons, max) = LastOf(run.retried, max)
      /\ LastOf(Append(run.lessons, i), max) = LastOf(Append(run.retried, i), max)
  BY <1>2, <1>3, <1>5, LastOfFacts DEF LessonOf
<1>7. next.lessons = LastOf(next.retried, max)
  BY <1>4, <1>6
<1> DEFINE n == Len(run.retried)
<1>8. /\ n \in Nat /\ DOMAIN run.retried = 1..n /\ next.retried \in Seq(Nat)
      /\ \A k \in 1..n : k \in DOMAIN next.retried /\ next.retried[k] = run.retried[k]
      /\ \A k \in DOMAIN next.retried : k \in 1..n \/ next.retried[k] = i
  <2>1. CASE next.retried = run.retried
    BY <1>5, <2>1
  <2>2. CASE next.retried = Append(run.retried, i)
    BY <1>5, <2>2
  <2>3. QED
    BY <1>4, <2>1, <2>2
<1> HIDE DEF n
<1>9. SubSeq(next.retried, 1, Cardinality(Earlier(next))) = run.retried
  <2>3. Earlier(next) = 1..n
    <3>1. Earlier(next) = {k \in DOMAIN next.retried : next.retried[k] < i}
      BY <1>4 DEF Earlier
    <3>2. ASSUME NEW k \in 1..n PROVE k \in DOMAIN next.retried /\ next.retried[k] < i
      BY <1>5, <1>8
    <3>3. ASSUME NEW k \in DOMAIN next.retried, next.retried[k] < i PROVE k \in 1..n
      BY <1>5, <1>8, <3>3
    <3>4. QED
      BY <3>1, <3>2, <3>3
  <2>4. Cardinality(1..n) = n
    <3>1. CASE n = 0
      BY <3>1, FS_Interval
    <3>2. CASE n # 0
      BY <1>8, <3>2, FS_Interval
    <3>3. QED
      BY <3>1, <3>2
  <2>5. SubSeq(next.retried, 1, n) \in Seq(Nat) /\ Len(SubSeq(next.retried, 1, n)) = n
        /\ \A k \in 1..n : SubSeq(next.retried, 1, n)[k] = run.retried[k]
    <3>1. \A k \in 1..n : next.retried[k] \in Nat
      BY <1>5, <1>8
    <3>2. QED
      BY <1>8, <3>1, SubSeqProperties
  <2>6. SubSeq(next.retried, 1, n) = run.retried
    BY <1>5, <2>5, SeqEqual DEF n
  <2>7. QED
    BY <2>3, <2>4, <2>6
<1>10. LessonOf(next, max)
  <2>1. ASSUME NEW k \in DOMAIN next.retried PROVE next.retried[k] <= i
    <3>1. CASE k \in 1..n
      <4>1. next.retried[k] = run.retried[k] /\ k \in DOMAIN run.retried
        BY <1>8, <3>1
      <4>2. run.retried[k] \in Nat /\ run.retried[k] < i
        BY <1>5, <4>1
      <4>3. QED
        BY <1>5, <4>1, <4>2
    <3>2. CASE next.retried[k] = i
      BY <1>5, <3>2
    <3>3. QED
      BY <1>8, <3>1, <3>2
  <2>2. QED
    BY <1>2, <1>4, <1>5, <1>6, <1>7, <1>8, <1>9, <2>1 DEF LessonOf
<1>11. QED
  BY <1>10 DEF next, max

LEMMA StepLessons == TypeOK /\ LessonInv /\ [Next]_vars => LessonInv'
<1> SUFFICES ASSUME TypeOK, LessonInv, [Next]_vars PROVE LessonInv'
  OBVIOUS
<1>1. UNCHANGED su /\ DOMAIN runs = Slots
  BY SetupStays DEF TypeOK
<1>2. ASSUME NEW x \in Slots, \A y \in Slots \ {x} : runs'[y] = runs[y],
             runs'[x] # Idle => LessonOf(runs'[x], su.lessons)
      PROVE  LessonInv'
  BY <1>1, <1>2 DEF LessonInv
<1>3. ASSUME NEW x \in Slots, RunStart(x) PROVE LessonInv'
  <2>1. /\ {"at", "iteration", "lessons", "view", "retried"} \subseteq DOMAIN runs'[x]
        /\ runs'[x].iteration = 0 /\ runs'[x].lessons = <<>>
        /\ runs'[x].view = <<>> /\ runs'[x].retried = <<>>
        /\ \A y \in Slots \ {x} : runs'[y] = runs[y]
    BY <1>1, <1>3 DEF RunStart
  <2>2. su.lessons \in Nat
    BY SessionsAssumption DEF TypeOK
  <2>3. LastOf(<<>>, su.lessons) = <<>>
    BY <2>2 DEF LastOf
  <2>4. Earlier(runs'[x]) = {} /\ Cardinality({}) = 0
    BY <2>1, FS_EmptySet DEF Earlier
  <2>5. SubSeq(<<>>, 1, 0) = <<>>
    OBVIOUS
  <2>6. LessonOf(runs'[x], su.lessons)
    <3>1. <<>> \in Seq(Nat) /\ DOMAIN <<>> = {}
      OBVIOUS
    <3>2. runs'[x].view = LastOf(SubSeq(runs'[x].retried, 1, Cardinality(Earlier(runs'[x]))), su.lessons)
      BY <2>1, <2>3, <2>4, <2>5
    <3>3. QED
      BY <2>1, <2>3, <3>1, <3>2 DEF LessonOf
  <2>7. QED
    BY <1>2, <2>1, <2>6
<1>4. ASSUME NEW x \in Slots, Input(x) \/ History(x) \/ Searches(x) \/ Prompt(x) \/ Iterate(x)
      PROVE  LessonInv'
  <2>1. LessonOf(runs'[x], su.lessons)
    BY <1>4, LessonsKeep, IterateLessons
  <2>2. QED
    BY <1>2, <1>4, <2>1, RunStepKeeps
<1>5. ASSUME NEW x \in Slots, RunFails(x) \/ RunEnd(x) PROVE LessonInv'
  BY <1>1, <1>2, <1>5 DEF RunFails, RunEnd
<1>6. CASE Crash
  BY <1>6 DEF Crash, LessonInv
<1>7. CASE HostSteps \/ Loads \/ Attaches \/ UNCHANGED vars
  BY <1>1, <1>7 DEF HostSteps, Loads, Attaches, Create, LoadFromDb, Adopt, LoadFile, AttachProgress,
     Delete, SaveToDb, SaveBegin, DeleteFile, ReadProgress, SaveWrite, SaveReplace,
     SaveFails, AddItem, UpdateStatus, Memorise, vars, LessonInv
<1>8. QED
  BY <1>3, <1>4, <1>5, <1>6, <1>7, Steps DEF RunSteps, RunEnds

\* The model sees, and the buffer holds, the latest lessons of its own run, whatever
\* other runs, the host and crashes do (state_bridge.py: record_iteration,
\* apply_state_view).
THEOREM LatestLessons == Spec => []LessonsLatest
<1>1. Init => TypeOK /\ LessonInv
  BY InitType DEF Init, LessonInv
<1>2. TypeOK /\ LessonInv /\ [Next]_vars => (TypeOK /\ LessonInv)'
  BY StepType, StepLessons
<1>3. LessonInv => LessonsLatest
  BY DEF LessonInv, LessonOf, LessonsLatest
<1>4. QED
  BY <1>1, <1>2, <1>3, PTL DEF Spec

(***************************************************************************)
(* Catalog.                                                                 *)
(***************************************************************************)

-----------------------------------------------------------------------------
(* Operators the proofs share. *)

\* Put(f, g): g where it is defined, f elsewhere.
LEMMA PutGives ==
  ASSUME NEW f, NEW g
  PROVE  /\ DOMAIN Put(f, g) = DOMAIN f \cup DOMAIN g
         /\ \A x \in DOMAIN g : Put(f, g)[x] = g[x]
         /\ \A x \in DOMAIN f : x \notin DOMAIN g => Put(f, g)[x] = f[x]
BY DEF Put

\* What get() returns for a known name is registered.
LEMMA LookupKnown ==
  ASSUME NEW x, Lookup(x) # NoName
  PROVE  Lookup(x) \in DOMAIN caps
BY DEF Lookup

\* The runners are told apart by their first components.
LEMMA RunnersDiffer ==
  /\ Builtin # Nobody /\ Resource # Nobody /\ Resource # Builtin
  /\ \A x : Capability(x) # Nobody /\ Source(x) # Nobody
  /\ \A x : Capability(x) # Builtin /\ Source(x) # Builtin
BY DEF Builtin, Resource, Nobody, Capability, Source

-----------------------------------------------------------------------------
(* CallsResolved: only Call writes the call, and it builds the arguments
   from the values given before anything else. *)

\* Resolved() keeps a value that was given, in the type of its parameter, unless
\* the enumeration excludes it.
LEMMA ResolvedKeeps ==
  ASSUME NEW S, NEW given, NEW hinted,
         \A p \in DOMAIN given : given[p] \in Values,
         NEW p \in DOMAIN S, p \in DOMAIN given,
         InEnum(S[p], Coerced(S[p], given[p]))
  PROVE  /\ p \in DOMAIN Resolved(S, given, hinted)
         /\ Resolved(S, given, hinted)[p] = Coerced(S[p], given[p])
<1> DEFINE found == Found(S, given, hinted)
           there == {q \in DOMAIN S : found[q] # NoValue}
           args == [q \in there |-> Coerced(S[q], found[q])]
           kept == {q \in there : InEnum(S[q], args[q])}
<1>1. found[p] = given[p]
  BY DEF Found
<1>2. given[p] # NoValue
  BY CatalogAssumption DEF CatalogAssumption
<1>3. p \in there
  BY <1>1, <1>2
<1>4. args[p] = Coerced(S[p], given[p])
  BY <1>1, <1>3
<1>5. p \in kept
  BY <1>3, <1>4
<1>6. Resolved(S, given, hinted) = [q \in kept |-> args[q]]
  BY DEF Resolved
<1> QED
  BY <1>4, <1>5, <1>6

LEMMA CallsResolvedInit == CatalogInit => CallsResolved
BY DEF CatalogInit, CallsResolved, NoCall

LEMMA CallsResolvedNext ==
  ASSUME CallsResolved, [CatalogNext]_catalogVars
  PROVE  CallsResolved'
<1>1. CASE UNCHANGED call
  BY <1>1 DEF CallsResolved
<1>2. CASE Call
  <2>1. PICK t \in Tools \cap Offered, Sx \in Schemas :
        \E given \in UNION {[P -> Values] : P \in SUBSET DOMAIN Sx} :
        \E params \in BoundParams(t) :
        \E hinted \in [DOMAIN params -> Values \cup {NoValue}] :
          LET args == Resolved(params, given, hinted)
          IN call' = [tool |-> t, params |-> params, given |-> given,
                      args |-> IF DOMAIN args = {} THEN given ELSE args,
                      missing |-> Missing(params, args)]
    BY <1>2 DEF Call
  <2>2. PICK given \in UNION {[P -> Values] : P \in SUBSET DOMAIN Sx},
             params \in BoundParams(t) :
        \E hinted \in [DOMAIN params -> Values \cup {NoValue}] :
          LET args == Resolved(params, given, hinted)
          IN call' = [tool |-> t, params |-> params, given |-> given,
                      args |-> IF DOMAIN args = {} THEN given ELSE args,
                      missing |-> Missing(params, args)]
    BY <2>1
  <2>3. PICK hinted \in [DOMAIN params -> Values \cup {NoValue}] :
          LET args == Resolved(params, given, hinted)
          IN call' = [tool |-> t, params |-> params, given |-> given,
                      args |-> IF DOMAIN args = {} THEN given ELSE args,
                      missing |-> Missing(params, args)]
    BY <2>2
  <2> DEFINE args == Resolved(params, given, hinted)
  <2>4. /\ call'.params = params /\ call'.given = given
        /\ call'.args = IF DOMAIN args = {} THEN given ELSE args
        /\ call'.missing = Missing(params, args)
    BY <2>3
  <2>5. \A p \in DOMAIN given : given[p] \in Values
    BY <2>2
  <2>6. ASSUME NEW p \in DOMAIN params, p \in DOMAIN given,
               InEnum(params[p], Coerced(params[p], given[p]))
        PROVE  p \in DOMAIN args /\ args[p] = Coerced(params[p], given[p])
    BY <2>5, <2>6, ResolvedKeeps
  <2>7. ASSUME NEW p \in DOMAIN params, params[p].required
        PROVE  p \in DOMAIN args \/ p \in Missing(params, args)
    BY <2>7 DEF Missing
  <2> HIDE DEF args
  <2>8. \A p \in DOMAIN call'.params \cap DOMAIN call'.given :
          InEnum(call'.params[p], Coerced(call'.params[p], call'.given[p]))
            => /\ p \in DOMAIN call'.args
               /\ call'.args[p] = Coerced(call'.params[p], call'.given[p])
    BY <2>4, <2>6
  <2>9. \A p \in DOMAIN call'.params :
          call'.params[p].required => p \in DOMAIN call'.args \/ p \in call'.missing
    BY <2>4, <2>7
  <2> QED
    BY <2>8, <2>9 DEF CallsResolved, InEnum, Coerced
<1> QED
  BY <1>1, <1>2 DEF CatalogNext, catalogVars, runVars, Load, Enter, Bind, Discover,
       ListSource, Index, ToolSearch, Others

\* Every call is made with the values given for it, in the types of its parameters,
\* and tells which required ones are missing (ParameterResolver.resolve).
THEOREM ArgumentsResolved == CatalogSpec => []CallsResolved
<1>1. CatalogInit => CallsResolved
  BY CallsResolvedInit
<1>2. CallsResolved /\ [CatalogNext]_catalogVars => CallsResolved'
  BY CallsResolvedNext
<1> QED
  BY <1>1, <1>2, PTL DEF CatalogSpec

-----------------------------------------------------------------------------
(* What has been loaded.  The resource registry keeps an executor for every
   definition, and defines a name again only where two sessions have it and the
   legacy path loads them.  A defined name is in one of the batches loaded so far;
   as sessions come first, it is in a session where a session is next. *)
Batch == [kind : ToolKinds, from : STRING, tools : SUBSET Tools]
Unpublished == (ToolKinds \X Tools) \cup {<<"rag", c>> : c \in Collections}

\* Every capability makes one of the tools.
CapsInv == \A n \in DOMAIN caps : caps[n].tool \in Tools

Done == Len(res.batches) - Len(batches)

TwoSessions(t) ==
  \E i, j \in DOMAIN res.batches :
    /\ i # j /\ res.batches[i].kind = "mcp_tool" /\ res.batches[j].kind = "mcp_tool"
    /\ t \in res.batches[i].tools \cap res.batches[j].tools

LoadInv ==
  /\ res \in ResourceSetups
  /\ batches \in Seq(Batch) /\ Done \in Nat
  /\ \A i \in DOMAIN batches : batches[i] = res.batches[Done + i]
  /\ definitions \in [Tools -> Nat]
  /\ \A t \in Tools : definitions[t] > 0 =>
       /\ t \in DOMAIN executors
       /\ \E i \in 1 .. Done : t \in res.batches[i].tools
  /\ \A t \in Tools : definitions[t] > 1 => ~res.service /\ TwoSessions(t)
  /\ DOMAIN infos \subseteq Tools
  /\ \A t \in DOMAIN infos : infos[t].kind \in ToolKinds
  /\ collections \subseteq Collections
  /\ toPublish \subseteq Unpublished

\* What there is to load is a sequence of batches, the sessions before the others.
LEMMA SetupTyped ==
  ASSUME res \in ResourceSetups
  PROVE  /\ res \in ResourceSetup /\ res.batches \in Seq(Batch)
         /\ \A i, j \in DOMAIN res.batches :
              i < j /\ res.batches[j].kind = "mcp_tool" => res.batches[i].kind = "mcp_tool"
BY ResourceAssumption DEF ResourceAssumption, ResourceSetup, Batch

LEMMA LoadInvInit == CatalogInit => LoadInv /\ CapsInv
<1> SUFFICES ASSUME CatalogInit PROVE LoadInv /\ CapsInv
  OBVIOUS
<1>1. res \in ResourceSetups /\ batches = res.batches
  BY DEF CatalogInit, ResInit
<1>2. batches \in Seq(Batch)
  BY <1>1, SetupTyped
<1>3. Done = 0
  BY <1>1, <1>2 DEF Done
<1>4. \A i \in DOMAIN batches : batches[i] = res.batches[Done + i]
  BY <1>1, <1>2, <1>3
<1>5. definitions = [t \in Tools |-> 0] /\ DOMAIN infos = {} /\ collections = {} /\ toPublish = {}
  BY DEF CatalogInit, ResInit
<1>6. CapsInv
  BY DEF CatalogInit, CapInit, CapsInv
<1> QED
  BY <1>1, <1>2, <1>3, <1>4, <1>5, <1>6 DEF LoadInv

\* A batch is loaded: only new names, or names of the legacy path.
LEMMA LoadToolsKeeps ==
  ASSUME LoadInv, NEW tools, LoadTools(tools), batches # <<>>,
         tools \subseteq Taken(Head(batches))
  PROVE  LoadInv'
<1> DEFINE next == Done + 1
           head == res.batches[next]
<1>1. /\ res.batches \in Seq(Batch) /\ batches \in Seq(Batch) /\ Done \in Nat
      /\ next \in DOMAIN res.batches /\ head = Head(batches) /\ head \in Batch
      /\ Tail(batches) \in Seq(Batch) /\ Len(Tail(batches)) = Len(batches) - 1
  BY SetupTyped DEF LoadInv, Done
<1>2. tools \subseteq Tools /\ tools \subseteq head.tools /\ head.kind \in ToolKinds
  BY <1>1 DEF Taken, Batch
<1>3. /\ batches' = Tail(batches)
      /\ definitions' = [t \in Tools |-> IF t \in tools THEN definitions[t] + 1
                                         ELSE definitions[t]]
      /\ DOMAIN executors' = DOMAIN executors \cup tools
      /\ DOMAIN infos' = DOMAIN infos \cup tools
      /\ \A t \in DOMAIN infos' :
           infos'[t].kind = IF t \in tools THEN Head(batches).kind ELSE infos[t].kind
      /\ UNCHANGED <<res, collections, toPublish>>
  BY DEF LoadTools
<1>4. definitions' \in [Tools -> Nat]
  BY <1>3 DEF LoadInv
<1>5. Done' = next
  BY <1>1, <1>3 DEF Done
<1>6. \A i \in DOMAIN batches' : batches'[i] = res.batches[Done' + i]
  <2> SUFFICES ASSUME NEW i \in DOMAIN Tail(batches)
               PROVE  Tail(batches)[i] = res.batches[next + i]
    BY <1>3, <1>5
  <2>1. i \in Nat /\ i + 1 \in DOMAIN batches /\ Tail(batches)[i] = batches[i + 1]
    BY <1>1
  <2>2. batches[i + 1] = res.batches[Done + (i + 1)]
    BY <2>1 DEF LoadInv
  <2>3. Done + (i + 1) = next + i
    BY <1>1, <2>1
  <2> QED
    BY <2>1, <2>2, <2>3
<1>7. ASSUME NEW t \in Tools, definitions'[t] > 0
      PROVE  t \in DOMAIN executors' /\ \E i \in 1 .. Done' : t \in res.batches[i].tools
  <2>1. CASE t \in tools
    BY <1>1, <1>2, <1>3, <1>5, <2>1
  <2>2. CASE t \notin tools
    <3>1. t \in DOMAIN executors /\ \E i \in 1 .. Done : t \in res.batches[i].tools
      BY <1>3, <1>7, <2>2 DEF LoadInv
    <3> QED
      BY <1>1, <1>3, <1>5, <3>1
  <2> QED
    BY <2>1, <2>2
<1>8. ASSUME NEW t \in Tools, definitions'[t] > 1 PROVE ~res.service /\ TwoSessions(t)
  <2>1. CASE t \in tools
    <3>1. definitions[t] > 0
      BY <1>3, <1>8, <2>1 DEF LoadInv
    <3>2. t \in DOMAIN executors
      BY <3>1 DEF LoadInv
    <3>3. head.kind = "mcp_tool" /\ ~res.service
      BY <1>1, <2>1, <3>2 DEF Taken
    <3>4. PICK i \in 1 .. Done : t \in res.batches[i].tools
      BY <3>1 DEF LoadInv
    <3>5. i \in DOMAIN res.batches /\ i < next
      BY <1>1, <3>4
    <3>6. res.batches[i].kind = "mcp_tool"
      BY <1>1, <3>3, <3>5, SetupTyped DEF LoadInv
    <3>7. t \in head.tools /\ i # next
      BY <1>1, <1>2, <2>1, <3>5
    <3> QED
      BY <1>1, <3>3, <3>4, <3>5, <3>6, <3>7 DEF TwoSessions
  <2>2. CASE t \notin tools
    BY <1>3, <1>8, <2>2 DEF LoadInv
  <2> QED
    BY <2>1, <2>2
<1>9. DOMAIN infos' \subseteq Tools /\ \A t \in DOMAIN infos' : infos'[t].kind \in ToolKinds
  BY <1>1, <1>2, <1>3 DEF LoadInv
<1> HIDE DEF next, head
<1>10. /\ res' = res /\ res \in ResourceSetups /\ batches' \in Seq(Batch) /\ Done' \in Nat
       /\ collections' = collections /\ toPublish' = toPublish
  BY <1>1, <1>3, <1>5 DEF LoadInv, next
<1>11. \A t \in Tools : definitions'[t] > 1 => ~res'.service /\ TwoSessions(t)'
  BY <1>8, <1>10 DEF TwoSessions
<1> QED
  BY <1>4, <1>6, <1>7, <1>9, <1>10, <1>11 DEF LoadInv

LEMMA LoadInvNext ==
  ASSUME LoadInv, CapsInv, [CatalogNext]_catalogVars
  PROVE  LoadInv'
<1>1. CASE UNCHANGED resVars
  BY <1>1 DEF resVars, LoadInv, Done, TwoSessions
<1>2. ASSUME NEW tools, LoadTools(tools), tools = Taken(Head(batches)) \/ tools = {},
             batches # <<>>
      PROVE  LoadInv'
  BY <1>2, LoadToolsKeeps
<1>3. CASE LoadSession
  BY <1>2, <1>3 DEF LoadSession, NextIs
<1>4. CASE LoadNode
  BY <1>2, <1>4 DEF LoadNode, NextIs
<1>5. CASE LoadPackage
  BY <1>5, LoadToolsKeeps DEF LoadPackage, NextIs
<1>6. CASE LoadCollections
  <2>1. /\ res.selected \subseteq Collections /\ res.stored \subseteq Collections
    BY SetupTyped DEF LoadInv, ResourceSetup
  <2>2. collections' \subseteq Collections
    BY <1>6, <2>1 DEF LoadCollections
  <2>3. toPublish' \subseteq {<<infos[t].kind, t>> : t \in DOMAIN infos}
                              \cup {<<"rag", c>> : c \in collections'}
    BY <1>6 DEF LoadCollections
  <2>4. \A t \in DOMAIN infos : <<infos[t].kind, t>> \in ToolKinds \X Tools
    BY DEF LoadInv
  <2>5. toPublish' \subseteq Unpublished
    BY <2>2, <2>3, <2>4 DEF Unpublished
  <2> QED
    BY <1>6, <2>2, <2>5 DEF LoadCollections, LoadInv, Done, TwoSessions
<1>7. CASE Publish
  <2>1. toPublish' \subseteq toPublish
    BY <1>7 DEF Publish
  <2> QED
    BY <1>7, <2>1 DEF Publish, LoadInv, Done, TwoSessions
<1>8. CASE Load
  BY <1>3, <1>4, <1>5, <1>6, <1>7, <1>8 DEF Load, ResNext
<1>9. CASE Enter
  BY <1>1, <1>9 DEF Enter
<1>10. CASE Bind
  BY <1>1, <1>10 DEF Bind
<1>11. CASE Discover
  BY <1>1, <1>11 DEF Discover
<1>12. CASE ListSource \/ Index \/ ToolSearch \/ Call \/ Others
  BY <1>1, <1>12 DEF ListSource, Index, ToolSearch, Call, Others
<1> QED
  BY <1>1, <1>8, <1>9, <1>10, <1>11, <1>12 DEF CatalogNext, catalogVars

\* register() and unregister() leave specifications that make tools.
LEMMA RegisterKeeps ==
  ASSUME CapsInv, NEW n, NEW spec, NEW overwrite, spec.tool \in Tools,
         Register(n, spec, overwrite)
  PROVE  CapsInv'
<1>1. caps' = [x \in DOMAIN caps \cup {n} |-> IF x = n THEN spec ELSE caps[x]]
  BY DEF Register
<1> QED
  BY <1>1 DEF CapsInv

LEMMA CapsInvNext ==
  ASSUME LoadInv, CapsInv, [CatalogNext]_catalogVars
  PROVE  CapsInv'
<1>1. CASE UNCHANGED capVars
  BY <1>1 DEF capVars, CapsInv
<1>2. CASE Publish
  <2>1. CASE UNCHANGED capVars
    BY <1>1, <2>1
  <2>2. ASSUME NEW p \in toPublish,
               Register(CapName(p[1], p[2]), PublishedSpec(p[1], p[2]), TRUE)
        PROVE  CapsInv'
    <3>1. PublishedSpec(p[1], p[2]).tool = IF p[1] = "rag" THEN RagTool(p[2]) ELSE p[2]
      BY DEF PublishedSpec
    <3>2. \/ p[1] \in ToolKinds /\ p[2] \in Tools
          \/ p[1] = "rag" /\ p[2] \in Collections
      BY DEF LoadInv, Unpublished
    <3>3. "rag" \notin ToolKinds
      BY DEF ToolKinds
    <3>4. PublishedSpec(p[1], p[2]).tool \in Tools
      BY <3>1, <3>2, <3>3, ResourceAssumption DEF ResourceAssumption
    <3> QED
      BY <2>2, <3>4, RegisterKeeps
  <2> QED
    BY <1>2, <2>1, <2>2 DEF Publish
<1>3. CASE Load
  BY <1>1, <1>2, <1>3 DEF Load, ResNext, LoadSession, LoadNode, LoadPackage, LoadTools,
       LoadCollections
<1>4. CASE ChangeCapabilities
  <2>1. ASSUME NEW o \in Offers, NEW overwrite \in BOOLEAN,
               Register(o.name, o.spec, overwrite)
        PROVE  CapsInv'
    BY <2>1, RegisterKeeps, CatalogAssumption DEF CatalogAssumption
  <2>2. ASSUME NEW n \in DOMAIN caps, Unregister(n)
        PROVE  CapsInv'
    BY <2>2 DEF Unregister, CapsInv
  <2> QED
    BY <1>4, <2>1, <2>2 DEF ChangeCapabilities
<1>5. CASE Others
  BY <1>1, <1>4, <1>5 DEF Others, RegisterSource
<1>6. CASE Enter \/ Bind \/ Discover \/ ListSource \/ Index \/ ToolSearch \/ Call
  BY <1>1, <1>6 DEF Enter, Bind, Discover, ListSource, Index, ToolSearch, Call
<1> QED
  BY <1>1, <1>3, <1>5, <1>6 DEF CatalogNext, catalogVars

-----------------------------------------------------------------------------
(* The sources: those listed and those still to be listed have the tools they
   list, and are known still or have been replaced. *)
Listable == {o \in SourceObjects : o.lists \subseteq o.has}
Known == {sources[i] : i \in DOMAIN sources} \cup {setup.nested[i] : i \in DOMAIN setup.nested}

SourcesInv ==
  /\ setup \in CatalogSetup /\ setup.nested \in Seq(Listable)
  /\ sources \in Seq(Listable)
  /\ todo \in Seq(Listable)
  /\ \A i \in DOMAIN todo : todo[i] \in Known \/ todo[i].id \in replaced

LEMMA SourcesInvInit == CatalogInit => SourcesInv
<1> SUFFICES ASSUME CatalogInit PROVE SourcesInv
  OBVIOUS
<1>1. setup \in CatalogSetups /\ setup \in CatalogSetup
  BY CatalogAssumption DEF CatalogInit, CatalogAssumption
<1>2. setup.nested \in Seq(SourceObjects) /\ setup.global \in Seq(SourceObjects)
  BY <1>1 DEF CatalogSetup
<1>3. /\ \A i \in DOMAIN setup.global : setup.global[i].lists \subseteq setup.global[i].has
      /\ \A i \in DOMAIN setup.nested : setup.nested[i].lists \subseteq setup.nested[i].has
  BY <1>1, CatalogAssumption DEF CatalogAssumption
<1>4. setup.nested \in Seq(Listable)
  BY <1>2, <1>3 DEF Listable
<1>5. setup.global \in Seq(Listable)
  BY <1>2, <1>3 DEF Listable
<1> QED
  BY <1>1, <1>4, <1>5 DEF CatalogInit, SourcesInv

\* What becomes of the sources: one is appended, or one takes the place of another
\* of its id.  A source that was known still is, or its id has been replaced.
LEMMA SourcesStay ==
  ASSUME SourcesInv, [CatalogNext]_catalogVars
  PROVE  /\ UNCHANGED setup /\ sources' \in Seq(Listable) /\ replaced \subseteq replaced'
         /\ \A o \in Known : o \in Known' \/ o.id \in replaced'
<1>1. CASE UNCHANGED <<setup, sources, replaced>>
  BY <1>1 DEF SourcesInv, Known
<1>2. CASE RegisterSource /\ UNCHANGED setup
  <2>1. PICK o \in Reloads :
          LET same == {i \in DOMAIN sources : sources[i].id = o.id}
          IN IF same = {} THEN sources' = Append(sources, o) /\ UNCHANGED replaced
             ELSE /\ sources' = [sources EXCEPT ![CHOOSE i \in same : \A j \in same : i <= j] = o]
                  /\ replaced' = replaced \cup {o.id}
    BY <1>2 DEF RegisterSource
  <2>2. o \in Listable
    BY CatalogAssumption DEF CatalogAssumption, Listable
  <2> DEFINE same == {i \in DOMAIN sources : sources[i].id = o.id}
             first == CHOOSE i \in same : \A j \in same : i <= j
  <2>3. CASE same = {}
    <3>1. sources' = Append(sources, o) /\ UNCHANGED replaced
      BY <2>1, <2>3
    <3>2. sources' \in Seq(Listable)
      BY <2>2, <3>1 DEF SourcesInv
    <3>3. \A i \in DOMAIN sources : i \in DOMAIN sources' /\ sources'[i] = sources[i]
      BY <3>1 DEF SourcesInv
    <3> QED
      BY <1>2, <3>1, <3>2, <3>3 DEF Known
  <2>4. CASE same # {}
    <3>1. sources' = [sources EXCEPT ![first] = o] /\ replaced' = replaced \cup {o.id}
      BY <2>1, <2>4
    <3>2. first \in same
      <4>1. same \in SUBSET Nat
        BY DEF SourcesInv
      <4>2. \E i \in same : \A j \in same : i <= j
        <5> HIDE DEF same
        <5>1. QED
          BY <2>4, <4>1, Least, Zenon
      <4> QED
        BY <4>2
    <3> HIDE DEF first
    <3>3. sources' \in Seq(Listable)
      BY <2>2, <3>1, <3>2 DEF SourcesInv
    <3>4. \A i \in DOMAIN sources :
            \/ i \in DOMAIN sources' /\ sources'[i] = sources[i]
            \/ sources[i].id \in replaced'
      BY <3>1, <3>2
    <3> QED
      BY <1>2, <3>1, <3>3, <3>4 DEF Known
  <2> QED
    BY <2>3, <2>4
<1>3. CASE Others
  BY <1>1, <1>2, <1>3 DEF Others, ChangeCapabilities
<1>4. CASE Load \/ Enter \/ Bind \/ Discover
  BY <1>1, <1>4 DEF Load, Enter, Bind, Discover
<1>5. CASE ListSource \/ Index \/ ToolSearch \/ Call
  BY <1>1, <1>5 DEF ListSource, Index, ToolSearch, Call
<1> QED
  BY <1>1, <1>3, <1>4, <1>5 DEF CatalogNext, catalogVars

LEMMA SourcesInvNext ==
  ASSUME SourcesInv, [CatalogNext]_catalogVars
  PROVE  SourcesInv'
<1>1. /\ UNCHANGED setup /\ sources' \in Seq(Listable) /\ replaced \subseteq replaced'
      /\ \A o \in Known : o \in Known' \/ o.id \in replaced'
  BY SourcesStay
<1>2. CASE UNCHANGED todo
  BY <1>1, <1>2 DEF SourcesInv
<1>3. CASE Discover
  <2>1. todo' = sources \o setup.nested /\ UNCHANGED <<sources, replaced>>
    BY <1>3 DEF Discover
  <2>2. todo' \in Seq(Listable)
    BY <2>1 DEF SourcesInv
  <2>3. ASSUME NEW i \in DOMAIN todo' PROVE todo'[i] \in Known
    <3>1. \/ i \in DOMAIN sources /\ todo'[i] = sources[i]
          \/ i - Len(sources) \in DOMAIN setup.nested
             /\ todo'[i] = setup.nested[i - Len(sources)]
      BY <2>1, <2>3 DEF SourcesInv
    <3> QED
      BY <3>1 DEF Known
  <2> QED
    BY <1>1, <2>1, <2>2, <2>3 DEF SourcesInv, Known
<1>4. CASE ListSource
  <2>1. todo # <<>> /\ todo' = Tail(todo)
    BY <1>4 DEF ListSource
  <2>2. todo' \in Seq(Listable)
    BY <2>1 DEF SourcesInv
  <2>3. \A i \in DOMAIN todo' : i + 1 \in DOMAIN todo /\ todo'[i] = todo[i + 1]
    BY <2>1 DEF SourcesInv
  <2> QED
    BY <1>1, <2>2, <2>3 DEF SourcesInv
<1>5. CASE Load \/ Enter \/ Bind \/ Index \/ ToolSearch \/ Call \/ Others
  BY <1>2, <1>5 DEF Load, Enter, Bind, Index, ToolSearch, Call, Others, runVars, stageVars
<1> QED
  BY <1>2, <1>3, <1>4, <1>5 DEF CatalogNext, catalogVars, runVars, stageVars

-----------------------------------------------------------------------------
(* How often a name is defined.  Until the strategy is wanted everything that is
   offered came in from the host, and each way in looks at the names taken. *)
ShapeInv ==
  /\ defs \in [Offerable -> Nat]
  /\ pc # "ready" => Offered \subseteq Tools /\ Offered \subseteq DOMAIN origin
                     /\ \A t \in DOMAIN origin : origin[t] # Builtin
  /\ DOMAIN schemas \subseteq Tools

\* The strategy has defined a name once more that came in from elsewhere.
DefinedAgain(t) ==
  /\ pc = "ready" /\ setup.strategy = "progressive_3level" /\ t \in StrategyNames
  /\ t \in DOMAIN origin /\ origin[t] # Builtin /\ defs[t] = 2

Excused(t) == SharedBySessions(t) \/ t \in repeated \/ DefinedAgain(t)
OnceInv == \A t \in Offerable : defs[t] <= 1 \/ Excused(t)

\* What materialize_capabilities does to the names of a run.
LEMMA MaterializeGives ==
  ASSUME CapsInv, NEW names, Materialize(names)
  PROVE  \E made \in SUBSET Tools :
           /\ defs' = Define(made \ Offered)
           /\ DOMAIN registry' = DOMAIN registry \cup made
           /\ \A t \in DOMAIN registry' :
                IF t \in made THEN \E n : registry'[t] = Capability(n)
                ELSE registry'[t] = registry[t]
           /\ DOMAIN origin' = DOMAIN origin \cup (made \ Offered)
           /\ \A t \in DOMAIN origin' :
                IF t \in made \ Offered THEN \E n : origin'[t] = Capability(n)
                ELSE origin'[t] = origin[t]
<1> DEFINE resolved == {n \in names : Lookup(n) # NoName /\ caps[Lookup(n)].factory = "tool"}
           toolOf(n) == caps[Lookup(n)].tool
           made == {toolOf(n) : n \in resolved}
<1>1. made \in SUBSET Tools
  BY LookupKnown DEF CapsInv
<1>2. PICK last \in [made -> resolved] :
        /\ registry' = Put(registry, [t \in made |-> Capability(last[t])])
        /\ defs' = Define(made \ Offered)
        /\ origin' = Put(origin, [t \in made \ Offered |-> Capability(last[t])])
  BY DEF Materialize
<1> HIDE DEF made
<1> DEFINE bound == [t \in made |-> Capability(last[t])]
           fresh == [t \in made \ Offered |-> Capability(last[t])]
<1>3. DOMAIN bound = made /\ \A t \in made : bound[t] = Capability(last[t])
  OBVIOUS
<1>4. DOMAIN fresh = made \ Offered /\ \A t \in made \ Offered : fresh[t] = Capability(last[t])
  OBVIOUS
<1>5. registry' = Put(registry, bound) /\ origin' = Put(origin, fresh)
  BY <1>2
<1> HIDE DEF bound, fresh
<1>6. DOMAIN registry' = DOMAIN registry \cup made
  BY <1>3, <1>5, PutGives
<1>7. ASSUME NEW t \in DOMAIN registry'
      PROVE  IF t \in made THEN \E n : registry'[t] = Capability(n)
             ELSE registry'[t] = registry[t]
  <2>1. /\ \A x \in DOMAIN bound : registry'[x] = bound[x]
        /\ \A x \in DOMAIN registry : x \notin DOMAIN bound => registry'[x] = registry[x]
    <3>1. /\ \A x \in DOMAIN bound : Put(registry, bound)[x] = bound[x]
          /\ \A x \in DOMAIN registry :
               x \notin DOMAIN bound => Put(registry, bound)[x] = registry[x]
      BY PutGives, Zenon
    <3> QED
      BY <1>5, <3>1, Zenon
  <2>2. CASE t \in made
    <3>1. registry'[t] = Capability(last[t])
      BY <1>3, <2>1, <2>2
    <3> QED
      BY <2>2, <3>1
  <2>3. CASE t \notin made
    BY <1>3, <1>6, <2>1, <2>3
  <2> QED
    BY <2>2, <2>3
<1>8. DOMAIN origin' = DOMAIN origin \cup (made \ Offered)
  BY <1>4, <1>5, PutGives
<1>9. ASSUME NEW t \in DOMAIN origin'
      PROVE  IF t \in made \ Offered THEN \E n : origin'[t] = Capability(n)
             ELSE origin'[t] = origin[t]
  <2>1. /\ \A x \in DOMAIN fresh : Put(origin, fresh)[x] = fresh[x]
        /\ \A x \in DOMAIN origin : x \notin DOMAIN fresh => Put(origin, fresh)[x] = origin[x]
    BY PutGives, Zenon
  <2>2. CASE t \in made \ Offered
    <3>1. origin'[t] = Capability(last[t])
      BY <1>4, <1>5, <2>1, <2>2
    <3> QED
      BY <2>2, <3>1
  <2>3. CASE t \notin made \ Offered
    BY <1>4, <1>5, <1>8, <2>1, <2>3
  <2> QED
    BY <2>2, <2>3
<1> QED
  BY <1>1, <1>2, <1>6, <1>7, <1>8, <1>9

\* One definition more for every name of a set.
LEMMA DefineGives ==
  ASSUME defs \in [Offerable -> Nat], NEW S, defs' = Define(S)
  PROVE  /\ defs' \in [Offerable -> Nat]
         /\ \A t \in Offerable : defs'[t] = IF t \in S THEN defs[t] + 1 ELSE defs[t]
         /\ Offered' = Offered \cup (S \cap Offerable)
BY DEF Define, Offered

\* Tools that are not offered yet are offered once.
LEMMA DefineOnce ==
  ASSUME ShapeInv, OnceInv, NEW S, S \cap Offered = {}, S \subseteq Tools, defs' = Define(S),
         UNCHANGED <<repeated, setup, res>>, DOMAIN schemas' \subseteq Tools, pc # "ready",
         Offered \cup S \subseteq DOMAIN origin', \A t \in DOMAIN origin' : origin'[t] # Builtin
  PROVE  ShapeInv' /\ OnceInv'
<1>1. defs \in [Offerable -> Nat]
  BY DEF ShapeInv
<1>2. /\ defs' \in [Offerable -> Nat]
      /\ \A t \in Offerable : defs'[t] = IF t \in S THEN defs[t] + 1 ELSE defs[t]
      /\ Offered' = Offered \cup (S \cap Offerable)
  BY <1>1, DefineGives
<1>3. ShapeInv'
  BY <1>2 DEF ShapeInv
<1>4. ASSUME NEW t \in Offerable PROVE defs'[t] <= 1 \/ Excused(t)'
  <2>1. CASE t \in S
    BY <1>1, <1>2, <2>1 DEF Offered
  <2>2. CASE t \notin S
    BY <1>2, <2>2 DEF OnceInv, Excused, SharedBySessions, DefinedAgain
  <2> QED
    BY <2>1, <2>2
<1> QED
  BY <1>3, <1>4 DEF OnceInv

LEMMA ShapeInit == CatalogInit => ShapeInv /\ OnceInv
BY DEF CatalogInit, ShapeInv, OnceInv, Offered

\* Entering the stage takes over what the resource registry has defined.
LEMMA EnterOnce ==
  ASSUME LoadInv, ShapeInv, Enter
  PROVE  ShapeInv' /\ OnceInv'
<1>1. /\ defs' = [t \in Offerable |-> IF t \in Tools /\ setup.wired THEN definitions[t] ELSE 0]
      /\ origin' = [t \in {u \in Tools : setup.wired /\ definitions[u] > 0} |-> Resource]
      /\ UNCHANGED <<repeated, setup, res, schemas>>
  BY DEF Enter, resVars
<1>2. defs' \in [Offerable -> Nat] /\ Offered' \subseteq Tools /\ Offered' \subseteq DOMAIN origin'
  BY <1>1 DEF LoadInv, Offered
<1>3. \A t \in DOMAIN origin' : origin'[t] # Builtin
  BY <1>1, RunnersDiffer
<1>4. ASSUME NEW t \in Offerable, defs'[t] > 1 PROVE SharedBySessions(t)'
  <2>1. t \in Tools /\ setup.wired /\ definitions[t] > 1
    BY <1>1, <1>4
  <2>2. SharedBySessions(t)
    BY <2>1 DEF LoadInv, TwoSessions, SharedBySessions
  <2> QED
    BY <1>1, <2>2 DEF SharedBySessions
<1>5. \A t \in Offerable : defs'[t] <= 1 \/ SharedBySessions(t)'
  BY <1>2, <1>4
<1> QED
  BY <1>1, <1>2, <1>3, <1>5 DEF ShapeInv, OnceInv, Excused

LEMMA MaterializeOnce ==
  ASSUME CapsInv, ShapeInv, OnceInv, NEW names, Materialize(names),
         UNCHANGED <<repeated, setup, res, schemas>>, pc # "ready"
  PROVE  ShapeInv' /\ OnceInv'
<1>1. PICK made \in SUBSET Tools :
        /\ defs' = Define(made \ Offered)
        /\ DOMAIN origin' = DOMAIN origin \cup (made \ Offered)
        /\ \A t \in DOMAIN origin' :
             IF t \in made \ Offered THEN \E n : origin'[t] = Capability(n)
             ELSE origin'[t] = origin[t]
  BY MaterializeGives
<1> DEFINE S == made \ Offered
<1>2. S \cap Offered = {} /\ S \subseteq Tools /\ defs' = Define(S)
  BY <1>1
<1>3. DOMAIN schemas' \subseteq Tools
  BY DEF ShapeInv
<1>4. Offered \cup S \subseteq DOMAIN origin' /\ \A t \in DOMAIN origin' : origin'[t] # Builtin
  BY <1>1, RunnersDiffer DEF ShapeInv
<1> HIDE DEF S
<1> QED
  BY <1>2, <1>3, <1>4, DefineOnce

\* A source is listed: its tools come in under names that are free.
LEMMA ListOnce ==
  ASSUME SourcesInv, ShapeInv, OnceInv, ListSource
  PROVE  ShapeInv' /\ OnceInv'
<1> DEFINE o == Head(todo)
<1>1. PICK fails \in BOOLEAN :
        LET got == IF fails \/ Disabled(o.id) THEN {} ELSE Listed(o)
            eager == got \cap Eager(o)
        IN /\ schemas' = Put(schemas, [t \in got |-> Source(o.id)])
           /\ defs' = Define(eager)
           /\ origin' = Put(origin, [t \in eager |-> Source(o.id)])
  BY DEF ListSource
<1> DEFINE got == IF fails \/ Disabled(o.id) THEN {} ELSE Listed(o)
           S == got \cap Eager(o)
           new == [t \in got |-> Source(o.id)]
           come == [t \in S |-> Source(o.id)]
<1>2. o \in Listable
  BY DEF ListSource, SourcesInv
<1>3. Listed(o) \subseteq Tools /\ Listed(o) \cap Offered = {}
  BY <1>2 DEF Listed, Listable, SourceObjects
<1>4. got \subseteq Tools /\ got \cap Offered = {}
  BY <1>3
<1>5. S \cap Offered = {} /\ S \subseteq Tools /\ defs' = Define(S)
  BY <1>1, <1>4
<1>6. /\ DOMAIN new = got /\ schemas' = Put(schemas, new)
      /\ DOMAIN come = S /\ origin' = Put(origin, come)
      /\ \A t \in S : come[t] # Builtin
  BY <1>1, RunnersDiffer
<1> HIDE DEF got, S, new, come
<1>7. DOMAIN schemas' \subseteq Tools
  <2>1. DOMAIN Put(schemas, new) = DOMAIN schemas \cup DOMAIN new
    BY PutGives, Zenon
  <2> QED
    BY <1>4, <1>6, <2>1 DEF ShapeInv
<1>8. UNCHANGED <<repeated, setup, res, pc>> /\ pc # "ready"
  BY DEF ListSource, resVars
<1>9. /\ DOMAIN Put(origin, come) = DOMAIN origin \cup DOMAIN come
      /\ \A x \in DOMAIN come : Put(origin, come)[x] = come[x]
      /\ \A x \in DOMAIN origin : x \notin DOMAIN come => Put(origin, come)[x] = origin[x]
  BY PutGives, Zenon
<1>10. Offered \cup S \subseteq DOMAIN origin' /\ \A t \in DOMAIN origin' : origin'[t] # Builtin
  BY <1>6, <1>8, <1>9 DEF ShapeInv
<1> QED
  BY <1>5, <1>7, <1>8, <1>10, DefineOnce

\* The strategy and the built-in tools: a name that is offered already is added only
\* by progressive_3level, as a tool of its own, and keeps the origin it has.
LEMMA IndexOnce ==
  ASSUME ShapeInv, OnceInv, Index
  PROVE  ShapeInv' /\ OnceInv'
<1> DEFINE progressive == setup.strategy = "progressive_3level"
           added == IF progressive THEN StrategyTools ELSE GivenBack
           dropped == {"discover_tools"} \ setup.builtins
           wanted == Requested \ (Offered \cup added)
           built == IF progressive THEN wanted \cup added ELSE wanted
           inBuilt == [t \in built \ Offered |-> Builtin]
           inAdded == [t \in added \ built |-> schemas[t]]
           S == added \cup wanted
<1>1. /\ defs' = [t \in Offerable |->
                     IF t \in dropped THEN 0 ELSE defs[t] + IF t \in S THEN 1 ELSE 0]
      /\ origin' = Put(Put(origin, inBuilt), inAdded)
      /\ schemas' = IF progressive /\ DOMAIN schemas = {} THEN [t \in Offered |-> origin[t]]
                    ELSE schemas
  BY DEF Index
<1>2. pc = "list" /\ pc' = "ready" /\ UNCHANGED <<repeated, setup, res>>
  BY DEF Index, resVars
<1>3. /\ Offered \subseteq Tools /\ Offered \subseteq DOMAIN origin
      /\ \A t \in DOMAIN origin : origin[t] # Builtin
  BY <1>2 DEF ShapeInv
<1>4. StrategyTools \subseteq StrategyNames
  BY DEF StrategyTools, StrategyNames
<1>5. ASSUME NEW t \in S, t \in Offered
      PROVE  progressive /\ t \in StrategyNames
  BY <1>4, <1>5 DEF GivenBack
<1>6. (added \ built) \cap Offered = {}
  BY DEF GivenBack
<1>7. DOMAIN inBuilt = built \ Offered /\ DOMAIN inAdded = added \ built
  OBVIOUS
<1> HIDE DEF added, dropped, wanted, built, inBuilt, inAdded, S
<1>8. ASSUME NEW t \in Offered PROVE t \in DOMAIN origin' /\ origin'[t] = origin[t]
  <2> DEFINE first == Put(origin, inBuilt)
  <2>1. t \in DOMAIN first /\ first[t] = origin[t]
    <3>1. /\ DOMAIN Put(origin, inBuilt) = DOMAIN origin \cup DOMAIN inBuilt
          /\ \A x \in DOMAIN origin :
               x \notin DOMAIN inBuilt => Put(origin, inBuilt)[x] = origin[x]
      BY PutGives, Zenon
    <3> QED
      BY <1>3, <1>7, <3>1
  <2> HIDE DEF first
  <2>2. t \in DOMAIN Put(first, inAdded) /\ Put(first, inAdded)[t] = first[t]
    <3>1. /\ DOMAIN Put(first, inAdded) = DOMAIN first \cup DOMAIN inAdded
          /\ \A x \in DOMAIN first : x \notin DOMAIN inAdded => Put(first, inAdded)[x] = first[x]
      BY PutGives, Zenon
    <3> QED
      BY <1>6, <1>7, <2>1, <3>1
  <2> QED
    BY <1>1, <2>1, <2>2 DEF first
<1>9. defs \in [Offerable -> Nat]
  BY DEF ShapeInv
<1>10. defs' \in [Offerable -> Nat]
  BY <1>1, <1>9
<1>11. DOMAIN schemas' \subseteq Tools
  BY <1>1, <1>3 DEF ShapeInv
<1>12. ASSUME NEW t \in Offerable PROVE defs'[t] <= 1 \/ Excused(t)'
  <2>1. CASE t \in dropped \/ t \notin Offered
    BY <1>1, <1>9, <2>1 DEF Offered
  <2>2. CASE t \notin dropped /\ (SharedBySessions(t) \/ t \in repeated)
    BY <1>2, <2>2 DEF Excused, SharedBySessions
  <2>3. CASE t \notin dropped /\ t \in Offered /\ ~(SharedBySessions(t) \/ t \in repeated)
    <3>1. defs[t] = 1
      BY <1>2, <1>9, <2>3 DEF OnceInv, Excused, DefinedAgain, Offered
    <3>2. CASE t \in S
      <4>1. defs'[t] = 2
        BY <1>1, <2>3, <3>1, <3>2
      <4>2. t \in DOMAIN origin' /\ origin'[t] # Builtin
        BY <1>3, <1>8, <2>3
      <4> QED
        BY <1>2, <1>5, <2>3, <3>2, <4>1, <4>2 DEF Excused, DefinedAgain
    <3>3. CASE t \notin S
      BY <1>1, <2>3, <3>1, <3>3
    <3> QED
      BY <3>2, <3>3
  <2> QED
    BY <2>1, <2>2, <2>3
<1> QED
  BY <1>2, <1>10, <1>11, <1>12 DEF ShapeInv, OnceInv

\* A call of ToolSearch gives a name more than one definition only by repeating it, and
\* leaves those that are defined alone.
LEMMA ToolSearchOnce ==
  ASSUME ShapeInv, OnceInv, ToolSearch
  PROVE  ShapeInv' /\ OnceInv'
<1>1. PICK times \in [DOMAIN schemas -> 0..2] :
        LET fresh == {t \in DOMAIN schemas : times[t] > 0 /\ defs[t] = 0}
        IN /\ defs' = Promote(times)
           /\ origin' = Put(origin, [t \in fresh |-> schemas[t]])
           /\ repeated' = repeated \cup {t \in fresh : times[t] > 1}
  BY DEF ToolSearch
<1> DEFINE fresh == {t \in DOMAIN schemas : times[t] > 0 /\ defs[t] = 0}
           new == [t \in fresh |-> schemas[t]]
<1>2. pc = "ready" /\ pc' = "ready" /\ UNCHANGED <<setup, res, schemas>>
  BY DEF ToolSearch, resVars
<1>3. DOMAIN schemas \subseteq Offerable
  BY DEF ShapeInv, Offerable
<1>4. defs' \in [Offerable -> Nat]
  BY <1>1 DEF Promote, ShapeInv
<1>5. DOMAIN new = fresh /\ origin' = Put(origin, new)
  BY <1>1
<1>6. repeated \subseteq repeated' /\ \A t \in fresh : times[t] > 1 => t \in repeated'
  BY <1>1
<1> HIDE DEF new
<1>7. ASSUME NEW t \in Offerable PROVE defs'[t] <= 1 \/ Excused(t)'
  <2>1. CASE t \in DOMAIN schemas /\ defs[t] = 0
    <3>1. defs'[t] = times[t] /\ times[t] \in 0..2
      BY <1>1, <2>1 DEF Promote
    <3>2. times[t] > 1 => t \in repeated'
      BY <1>6, <2>1, <3>1
    <3> QED
      BY <3>1, <3>2 DEF Excused
  <2>2. CASE ~(t \in DOMAIN schemas /\ defs[t] = 0)
    <3>1. defs'[t] = defs[t]
      BY <1>1, <2>2 DEF Promote
    <3>2. t \in DOMAIN origin => t \in DOMAIN origin' /\ origin'[t] = origin[t]
      <4>1. /\ DOMAIN Put(origin, new) = DOMAIN origin \cup DOMAIN new
            /\ \A x \in DOMAIN origin : x \notin DOMAIN new => Put(origin, new)[x] = origin[x]
        BY PutGives, Zenon
      <4> QED
        BY <1>5, <2>2, <4>1
    <3>3. SharedBySessions(t)' = SharedBySessions(t)
      BY <1>2 DEF SharedBySessions
    <3>4. DefinedAgain(t) => DefinedAgain(t)'
      BY <1>2, <3>1, <3>2 DEF DefinedAgain
    <3> QED
      BY <1>6, <3>1, <3>3, <3>4 DEF OnceInv, Excused
  <2> QED
    BY <2>1, <2>2
<1> QED
  BY <1>2, <1>4, <1>7 DEF ShapeInv, OnceInv

LEMMA OnceNext ==
  ASSUME LoadInv, CapsInv, SourcesInv, ShapeInv, OnceInv, [CatalogNext]_catalogVars
  PROVE  ShapeInv' /\ OnceInv'
<1>1. CASE UNCHANGED <<defs, origin, schemas, repeated, setup, res, pc>>
  BY <1>1 DEF ShapeInv, OnceInv, Offered, Excused, SharedBySessions, DefinedAgain
<1>2. CASE Load
  <2>1. UNCHANGED res
    BY <1>2 DEF Load, ResNext, LoadSession, LoadNode, LoadPackage, LoadTools,
         LoadCollections, Publish
  <2> QED
    BY <1>1, <1>2, <2>1 DEF Load, runVars, stageVars
<1>3. CASE Enter
  BY <1>3, EnterOnce
<1>4. CASE Bind
  <2>1. Materialize(setup.declared)
    BY <1>4 DEF Bind
  <2>2. UNCHANGED <<repeated, setup, res, schemas>> /\ pc # "ready"
    BY <1>4 DEF Bind, resVars
  <2> QED
    BY <2>1, <2>2, MaterializeOnce
<1>5. CASE Discover
  <2>1. UNCHANGED <<repeated, setup, res, schemas>> /\ pc = "discover" /\ pc' = "list"
    BY <1>5 DEF Discover, resVars
  <2>2. ASSUME NEW names, Materialize(names) PROVE ShapeInv' /\ OnceInv'
    BY <2>1, <2>2, MaterializeOnce
  <2>3. CASE UNCHANGED <<defs, origin>>
    BY <2>1, <2>3 DEF ShapeInv, OnceInv, Offered, Excused, SharedBySessions, DefinedAgain
  <2> QED
    BY <1>5, <2>2, <2>3 DEF Discover
<1>6. CASE ListSource
  BY <1>6, ListOnce
<1>7. CASE Index
  BY <1>7, IndexOnce
<1>8. CASE ToolSearch
  BY <1>8, ToolSearchOnce
<1>9. CASE Call \/ Others
  BY <1>1, <1>9 DEF Call, Others, resVars, runVars, stageVars
<1> QED
  BY <1>1, <1>2, <1>3, <1>4, <1>5, <1>6, <1>7, <1>8, <1>9
     DEF CatalogNext, catalogVars, resVars, runVars, stageVars

LEMMA CatalogInvariants ==
  CatalogSpec => [](LoadInv /\ CapsInv /\ SourcesInv /\ ShapeInv /\ OnceInv)
<1>1. CatalogInit => LoadInv /\ CapsInv /\ SourcesInv /\ ShapeInv /\ OnceInv
  BY LoadInvInit, SourcesInvInit, ShapeInit
<1>2. LoadInv /\ CapsInv /\ SourcesInv /\ ShapeInv /\ OnceInv /\ [CatalogNext]_catalogVars
        => (LoadInv /\ CapsInv /\ SourcesInv /\ ShapeInv /\ OnceInv)'
  BY LoadInvNext, CapsInvNext, SourcesInvNext, OnceNext
<1> QED
  BY <1>1, <1>2, PTL DEF CatalogSpec

\* A name comes to the model once, whichever way it came in (the tool-index stage, the
\* strategies, the capabilities, ToolSearch), but for what OneDefinition excepts.
THEOREM DefinedOnce == CatalogSpec => []OneDefinition
<1>1. ShapeInv /\ OnceInv => OneDefinition
  BY DEF ShapeInv, OnceInv, OneDefinition, Offered, Excused, DefinedAgain
<1> QED
  BY <1>1, CatalogInvariants, PTL

-----------------------------------------------------------------------------
(* Who runs what is offered.  A definition remembers where it came from;
   whoever that is still runs the tool, or its source has been replaced. *)
Backed(t, w) ==
  \/ t \in DOMAIN registry
  \/ setup.wired /\ CanExecute(t) /\ w = Resource
  \/ \E o \in Known : t \in o.has /\ w = Source(o.id)
  \/ \E s \in replaced : w = Source(s)

RegistryInv == \A t \in DOMAIN registry : registry[t] # Nobody
OriginInv == \A t \in Offered : t \in DOMAIN origin /\ Backed(t, origin[t])
SchemasInv == \A t \in DOMAIN schemas : Backed(t, schemas[t])
BackedInv == RegistryInv /\ OriginInv /\ SchemasInv

\* Nothing that runs a tool goes away but a source that is replaced.
LEMMA BackedStays ==
  ASSUME UNCHANGED setup, replaced \subseteq replaced',
         \A o \in Known : o \in Known' \/ o.id \in replaced',
         DOMAIN executors \subseteq DOMAIN executors',
         DOMAIN registry \subseteq DOMAIN registry',
         NEW t, NEW w, Backed(t, w)
  PROVE  Backed(t, w)'
<1>1. CASE \E o \in Known : t \in o.has /\ w = Source(o.id)
  BY <1>1 DEF Backed
<1>2. CASE ~\E o \in Known : t \in o.has /\ w = Source(o.id)
  BY <1>2 DEF Backed, CanExecute
<1> QED
  BY <1>1, <1>2

LEMMA ExecutorsStay ==
  ASSUME [CatalogNext]_catalogVars
  PROVE  DOMAIN executors \subseteq DOMAIN executors'
<1>1. CASE UNCHANGED executors
  BY <1>1
<1>2. ASSUME NEW tools, LoadTools(tools)
      PROVE  DOMAIN executors \subseteq DOMAIN executors'
  BY <1>2 DEF LoadTools
<1>3. CASE LoadSession \/ LoadNode \/ LoadPackage
  BY <1>2, <1>3 DEF LoadSession, LoadNode, LoadPackage
<1>4. CASE Load
  BY <1>1, <1>3, <1>4 DEF Load, ResNext, LoadCollections, Publish
<1>5. CASE ~Load
  BY <1>1, <1>5 DEF CatalogNext, catalogVars, resVars, Enter, Bind, Discover, ListSource, Index,
       ToolSearch, Call, Others
<1> QED
  BY <1>4, <1>5

\* An instance that is registered stays registered, under whatever instance follows it.
LEMMA RegistryStays ==
  ASSUME CapsInv, RegistryInv, [CatalogNext]_catalogVars
  PROVE  DOMAIN registry \subseteq DOMAIN registry' /\ RegistryInv'
<1>1. CASE UNCHANGED registry
  BY <1>1 DEF RegistryInv
<1>2. ASSUME NEW names, Materialize(names)
      PROVE  DOMAIN registry \subseteq DOMAIN registry' /\ RegistryInv'
  <2>1. PICK made \in SUBSET Tools :
          /\ DOMAIN registry' = DOMAIN registry \cup made
          /\ \A t \in DOMAIN registry' :
               IF t \in made THEN \E n : registry'[t] = Capability(n)
               ELSE registry'[t] = registry[t]
    BY <1>2, MaterializeGives
  <2> QED
    BY <2>1, RunnersDiffer DEF RegistryInv
<1>3. CASE Index
  <2>1. PICK built : registry' = Put(registry, [t \in built |-> Builtin])
    BY <1>3 DEF Index
  <2> DEFINE new == [t \in built |-> Builtin]
  <2>2. \A t \in DOMAIN new : new[t] = Builtin
    OBVIOUS
  <2>3. registry' = Put(registry, new)
    BY <2>1
  <2> HIDE DEF new
  <2>4. /\ DOMAIN Put(registry, new) = DOMAIN registry \cup DOMAIN new
        /\ \A x \in DOMAIN new : Put(registry, new)[x] = new[x]
        /\ \A x \in DOMAIN registry : x \notin DOMAIN new => Put(registry, new)[x] = registry[x]
    BY PutGives, Zenon
  <2> QED
    BY <2>2, <2>3, <2>4, RunnersDiffer DEF RegistryInv
<1>4. CASE Bind \/ Discover
  BY <1>1, <1>2, <1>4 DEF Bind, Discover
<1> QED
  BY <1>1, <1>3, <1>4 DEF CatalogNext, catalogVars, runVars, stageVars, Load, Enter, ListSource,
       ToolSearch, Call, Others

LEMMA BackedKept ==
  ASSUME CapsInv, SourcesInv, RegistryInv, [CatalogNext]_catalogVars
  PROVE  \A t, w : Backed(t, w) => Backed(t, w)'
<1>1. /\ UNCHANGED setup /\ replaced \subseteq replaced'
      /\ \A o \in Known : o \in Known' \/ o.id \in replaced'
  BY SourcesStay
<1>2. DOMAIN executors \subseteq DOMAIN executors' /\ DOMAIN registry \subseteq DOMAIN registry'
  BY ExecutorsStay, RegistryStays
<1> QED
  BY <1>1, <1>2, BackedStays

LEMMA BackedInit == CatalogInit => BackedInv
BY DEF CatalogInit, BackedInv, RegistryInv, OriginInv, SchemasInv, Offered

\* What a step leaves of the origins stays backed; what it adds has to be.
LEMMA OriginKept ==
  ASSUME OriginInv, \A t, w : Backed(t, w) => Backed(t, w)',
         \A t \in Offered' : \/ t \in DOMAIN origin' /\ Backed(t, origin[t])'
                             \/ t \in Offered /\ t \in DOMAIN origin' /\ origin'[t] = origin[t]
  PROVE  OriginInv'
<1>1. ASSUME NEW t \in Offered, t \in DOMAIN origin', origin'[t] = origin[t]
      PROVE  Backed(t, origin[t])'
  <2>1. PICK w : w = origin[t]
    OBVIOUS
  <2>2. Backed(t, w)
    BY <2>1 DEF OriginInv
  <2>3. Backed(t, w)'
    BY <2>2
  <2> QED
    BY <1>1, <2>1, <2>3
<1> QED
  BY <1>1 DEF OriginInv

LEMMA SchemasKept ==
  ASSUME SchemasInv, \A t, w : Backed(t, w) => Backed(t, w)',
         \A t \in DOMAIN schemas' : \/ Backed(t, schemas[t])'
                                    \/ t \in DOMAIN schemas /\ schemas'[t] = schemas[t]
  PROVE  SchemasInv'
<1>1. ASSUME NEW t \in DOMAIN schemas, schemas'[t] = schemas[t]
      PROVE  Backed(t, schemas[t])'
  <2>1. PICK w : w = schemas[t]
    OBVIOUS
  <2>2. Backed(t, w)
    BY <2>1 DEF SchemasInv
  <2>3. Backed(t, w)'
    BY <2>2
  <2> QED
    BY <1>1, <2>1, <2>3
<1> QED
  BY <1>1 DEF SchemasInv

LEMMA EnterBacked ==
  ASSUME LoadInv, Enter
  PROVE  OriginInv'
<1>1. /\ defs' = [t \in Offerable |-> IF t \in Tools /\ setup.wired THEN definitions[t] ELSE 0]
      /\ origin' = [t \in {u \in Tools : setup.wired /\ definitions[u] > 0} |-> Resource]
      /\ UNCHANGED <<setup, executors>>
  BY DEF Enter, resVars
<1>2. ASSUME NEW t \in Offered' PROVE t \in DOMAIN origin' /\ Backed(t, origin[t])'
  <2>1. t \in Tools /\ setup.wired /\ definitions[t] > 0
    BY <1>1, <1>2 DEF Offered
  <2>2. CanExecute(t)'
    BY <1>1, <2>1 DEF LoadInv, CanExecute
  <2> QED
    BY <1>1, <2>1, <2>2 DEF Backed
<1> QED
  BY <1>2 DEF OriginInv

LEMMA MaterializeBacked ==
  ASSUME CapsInv, ShapeInv, OriginInv, NEW names, Materialize(names),
         \A t, w : Backed(t, w) => Backed(t, w)'
  PROVE  OriginInv'
<1>1. PICK made \in SUBSET Tools :
        /\ defs' = Define(made \ Offered)
        /\ DOMAIN registry' = DOMAIN registry \cup made
        /\ DOMAIN origin' = DOMAIN origin \cup (made \ Offered)
        /\ \A t \in DOMAIN origin' :
             IF t \in made \ Offered THEN \E n : origin'[t] = Capability(n)
             ELSE origin'[t] = origin[t]
  BY MaterializeGives
<1> DEFINE S == made \ Offered
<1>2. defs' = Define(S)
  BY <1>1
<1> HIDE DEF S
<1>3. Offered' = Offered \cup (S \cap Offerable)
  BY <1>2, DefineGives DEF ShapeInv
<1>4. ASSUME NEW t \in Offered'
      PROVE  \/ t \in DOMAIN origin' /\ Backed(t, origin[t])'
             \/ t \in Offered /\ t \in DOMAIN origin' /\ origin'[t] = origin[t]
  <2>1. CASE t \in Offered
    BY <1>1, <2>1 DEF OriginInv
  <2>2. CASE t \in S
    BY <1>1, <2>2 DEF S, Backed
  <2> QED
    BY <1>3, <1>4, <2>1, <2>2
<1> QED
  BY <1>4, OriginKept

\* A source is listed; what comes in comes from it.
LEMMA ListBacked ==
  ASSUME SourcesInv, ShapeInv, OriginInv, SchemasInv, ListSource,
         \A t, w : Backed(t, w) => Backed(t, w)'
  PROVE  OriginInv' /\ SchemasInv'
<1>1. PICK o : o = Head(todo)
  OBVIOUS
<1>2. o \in Listable /\ (o \in Known \/ o.id \in replaced)
  BY <1>1 DEF ListSource, SourcesInv
<1>3. PICK got, eager :
        /\ eager \subseteq got /\ got \subseteq o.has
        /\ schemas' = Put(schemas, [t \in got |-> Source(o.id)])
        /\ defs' = Define(eager)
        /\ origin' = Put(origin, [t \in eager |-> Source(o.id)])
  <2>1. PICK fails \in BOOLEAN :
          LET S == IF fails \/ Disabled(o.id) THEN {} ELSE Listed(o)
              E == S \cap Eager(o)
          IN /\ schemas' = Put(schemas, [t \in S |-> Source(o.id)])
             /\ defs' = Define(E)
             /\ origin' = Put(origin, [t \in E |-> Source(o.id)])
    BY <1>1 DEF ListSource
  <2> DEFINE S == IF fails \/ Disabled(o.id) THEN {} ELSE Listed(o)
             E == S \cap Eager(o)
  <2>2. E \subseteq S /\ S \subseteq o.has
    BY <1>2 DEF Listed, Listable
  <2> QED
    BY <2>1, <2>2
<1> DEFINE w == Source(o.id)
           inSchemas == [t \in got |-> w]
           inOrigin == [t \in eager |-> w]
<1>4. \A t \in got : Backed(t, w)
  BY <1>2, <1>3 DEF Backed
<1>5. /\ schemas' = Put(schemas, inSchemas) /\ defs' = Define(eager)
      /\ origin' = Put(origin, inOrigin)
  BY <1>3
<1>6. /\ DOMAIN inSchemas = got /\ \A t \in got : inSchemas[t] = w
      /\ DOMAIN inOrigin = eager /\ \A t \in eager : inOrigin[t] = w
  OBVIOUS
<1> HIDE DEF w, inSchemas, inOrigin
<1>7. \A t \in got : Backed(t, w)'
  BY <1>4
<1>8. /\ DOMAIN schemas' = DOMAIN schemas \cup got
      /\ \A t \in got : schemas'[t] = w
      /\ \A t \in DOMAIN schemas : t \notin got => schemas'[t] = schemas[t]
  <2>1. /\ DOMAIN Put(schemas, inSchemas) = DOMAIN schemas \cup DOMAIN inSchemas
        /\ \A x \in DOMAIN inSchemas : Put(schemas, inSchemas)[x] = inSchemas[x]
        /\ \A x \in DOMAIN schemas :
             x \notin DOMAIN inSchemas => Put(schemas, inSchemas)[x] = schemas[x]
    BY PutGives, Zenon
  <2> QED
    BY <1>5, <1>6, <2>1
<1>9. /\ DOMAIN origin' = DOMAIN origin \cup eager
      /\ \A t \in eager : origin'[t] = w
      /\ \A t \in DOMAIN origin : t \notin eager => origin'[t] = origin[t]
  <2>1. /\ DOMAIN Put(origin, inOrigin) = DOMAIN origin \cup DOMAIN inOrigin
        /\ \A x \in DOMAIN inOrigin : Put(origin, inOrigin)[x] = inOrigin[x]
        /\ \A x \in DOMAIN origin :
             x \notin DOMAIN inOrigin => Put(origin, inOrigin)[x] = origin[x]
    BY PutGives, Zenon
  <2> QED
    BY <1>5, <1>6, <2>1
<1>10. SchemasInv'
  <2>1. ASSUME NEW t \in got PROVE Backed(t, schemas[t])'
    BY <1>7, <1>8
  <2>2. \A t \in DOMAIN schemas' :
          Backed(t, schemas[t])' \/ (t \in DOMAIN schemas /\ schemas'[t] = schemas[t])
    BY <1>8, <2>1
  <2> QED
    BY <2>2, SchemasKept
<1>11. OriginInv'
  <2>1. Offered' = Offered \cup (eager \cap Offerable)
    BY <1>5, DefineGives DEF ShapeInv
  <2>2. ASSUME NEW t \in eager PROVE t \in DOMAIN origin' /\ Backed(t, origin[t])'
    BY <1>3, <1>7, <1>9
  <2>3. ASSUME NEW t \in Offered, t \notin eager
        PROVE  t \in DOMAIN origin' /\ origin'[t] = origin[t]
    BY <1>9, <2>3 DEF OriginInv
  <2>4. \A t \in Offered' : \/ t \in DOMAIN origin' /\ Backed(t, origin[t])'
                            \/ t \in Offered /\ t \in DOMAIN origin' /\ origin'[t] = origin[t]
    BY <2>1, <2>2, <2>3
  <2> QED
    BY <2>4, OriginKept
<1> QED
  BY <1>10, <1>11

\* The built-in tools come with their instances, what eager_load gives back with the
\* source it was listed by; a name that was offered before keeps its origin.
LEMMA IndexBacked ==
  ASSUME ShapeInv, OriginInv, SchemasInv, Index,
         \A t, w : Backed(t, w) => Backed(t, w)'
  PROVE  OriginInv' /\ SchemasInv'
<1> DEFINE progressive == setup.strategy = "progressive_3level"
           added == IF progressive THEN StrategyTools ELSE GivenBack
           dropped == {"discover_tools"} \ setup.builtins
           wanted == Requested \ (Offered \cup added)
           built == IF progressive THEN wanted \cup added ELSE wanted
           inRegistry == [t \in built |-> Builtin]
           inBuilt == [t \in built \ Offered |-> Builtin]
           inAdded == [t \in added \ built |-> schemas[t]]
<1>1. /\ defs' = [t \in Offerable |->
                     IF t \in dropped THEN 0
                     ELSE defs[t] + IF t \in added \cup wanted THEN 1 ELSE 0]
      /\ origin' = Put(Put(origin, inBuilt), inAdded)
      /\ registry' = Put(registry, inRegistry)
      /\ schemas' = IF progressive /\ DOMAIN schemas = {} THEN [t \in Offered |-> origin[t]]
                    ELSE schemas
  BY DEF Index
<1>2. /\ DOMAIN inRegistry = built
      /\ DOMAIN inBuilt = built \ Offered /\ DOMAIN inAdded = added \ built
      /\ \A t \in added \ built : inAdded[t] = schemas[t] /\ t \in DOMAIN schemas
      /\ (added \ built) \cap Offered = {} /\ wanted \subseteq built
  BY DEF GivenBack
<1> HIDE DEF added, dropped, wanted, built, inRegistry, inBuilt, inAdded
<1>3. Offered' \subseteq Offered \cup added \cup wanted
  BY <1>1 DEF Offered, ShapeInv
<1>4. /\ DOMAIN origin' = DOMAIN origin \cup (built \ Offered) \cup (added \ built)
      /\ \A t \in added \ built : origin'[t] = schemas[t]
      /\ \A t \in DOMAIN origin \cap Offered : origin'[t] = origin[t]
  <2>1. /\ DOMAIN Put(origin, inBuilt) = DOMAIN origin \cup DOMAIN inBuilt
        /\ \A x \in DOMAIN origin :
             x \notin DOMAIN inBuilt => Put(origin, inBuilt)[x] = origin[x]
    BY PutGives, Zenon
  <2> DEFINE first == Put(origin, inBuilt)
  <2> HIDE DEF first
  <2>2. /\ DOMAIN Put(first, inAdded) = DOMAIN first \cup DOMAIN inAdded
        /\ \A x \in DOMAIN inAdded : Put(first, inAdded)[x] = inAdded[x]
        /\ \A x \in DOMAIN first :
             x \notin DOMAIN inAdded => Put(first, inAdded)[x] = first[x]
    BY PutGives, Zenon
  <2>3. /\ DOMAIN first = DOMAIN origin \cup (built \ Offered)
        /\ \A x \in DOMAIN origin \cap Offered : first[x] = origin[x]
    BY <1>2, <2>1 DEF first
  <2>4. origin' = Put(first, inAdded)
    BY <1>1 DEF first
  <2> QED
    BY <1>2, <2>2, <2>3, <2>4
<1>5. \A t \in built : t \in DOMAIN registry'
  <2>1. DOMAIN Put(registry, inRegistry) = DOMAIN registry \cup DOMAIN inRegistry
    BY PutGives, Zenon
  <2> QED
    BY <1>1, <1>2, <2>1
<1>6. ASSUME NEW t \in built \ Offered PROVE t \in DOMAIN origin' /\ Backed(t, origin[t])'
  BY <1>4, <1>5 DEF Backed
<1>7. ASSUME NEW t \in added \ built
      PROVE  t \in DOMAIN origin' /\ Backed(t, origin[t])'
  <2>1. PICK w : w = schemas[t]
    OBVIOUS
  <2>2. Backed(t, w)'
    BY <1>2, <1>7, <2>1 DEF SchemasInv
  <2> QED
    BY <1>4, <1>7, <2>1, <2>2
<1>8. OriginInv'
  <2>1. ASSUME NEW t \in Offered
        PROVE  t \in DOMAIN origin' /\ origin'[t] = origin[t]
    BY <1>4, <2>1 DEF OriginInv
  <2>2. \A t \in Offered' : \/ t \in DOMAIN origin' /\ Backed(t, origin[t])'
                            \/ t \in Offered /\ t \in DOMAIN origin' /\ origin'[t] = origin[t]
    BY <1>2, <1>3, <1>6, <1>7, <2>1
  <2> QED
    BY <2>2, OriginKept
<1>9. SchemasInv'
  <2>1. CASE progressive /\ DOMAIN schemas = {}
    <3>1. ASSUME NEW t \in Offered PROVE Backed(t, schemas[t])'
      <4>1. PICK w : w = origin[t]
        OBVIOUS
      <4>2. Backed(t, w)'
        BY <4>1 DEF OriginInv
      <4> QED
        BY <1>1, <2>1, <4>1, <4>2
    <3>2. DOMAIN schemas' = Offered
      BY <1>1, <2>1
    <3> QED
      BY <3>1, <3>2 DEF SchemasInv
  <2>2. CASE ~(progressive /\ DOMAIN schemas = {})
    <3>1. schemas' = schemas
      BY <1>1, <2>2
    <3> QED
      BY <3>1, SchemasKept
  <2> QED
    BY <2>1, <2>2
<1> QED
  BY <1>8, <1>9

\* ToolSearch promotes what was listed.
LEMMA ToolSearchBacked ==
  ASSUME ShapeInv, OriginInv, SchemasInv, ToolSearch,
         \A t, w : Backed(t, w) => Backed(t, w)'
  PROVE  OriginInv' /\ SchemasInv'
<1>1. PICK times \in [DOMAIN schemas -> 0..2] :
        LET fresh == {t \in DOMAIN schemas : times[t] > 0 /\ defs[t] = 0}
        IN defs' = Promote(times) /\ origin' = Put(origin, [t \in fresh |-> schemas[t]])
  BY DEF ToolSearch
<1> DEFINE fresh == {t \in DOMAIN schemas : times[t] > 0 /\ defs[t] = 0}
           new == [t \in fresh |-> schemas[t]]
<1>2. /\ DOMAIN new = fresh /\ \A t \in fresh : new[t] = schemas[t] /\ t \in DOMAIN schemas
      /\ origin' = Put(origin, new)
  BY <1>1
<1>3. Offered' \subseteq Offered \cup fresh
  BY <1>1 DEF Promote, Offered, ShapeInv
<1> HIDE DEF fresh, new
<1>4. /\ DOMAIN origin' = DOMAIN origin \cup fresh
      /\ \A t \in fresh : origin'[t] = schemas[t]
      /\ \A t \in DOMAIN origin : t \notin fresh => origin'[t] = origin[t]
  <2>1. /\ DOMAIN Put(origin, new) = DOMAIN origin \cup DOMAIN new
        /\ \A x \in DOMAIN new : Put(origin, new)[x] = new[x]
        /\ \A x \in DOMAIN origin : x \notin DOMAIN new => Put(origin, new)[x] = origin[x]
    BY PutGives, Zenon
  <2> QED
    BY <1>2, <2>1
<1>5. ASSUME NEW t \in fresh PROVE t \in DOMAIN origin' /\ Backed(t, origin[t])'
  <2>1. PICK w : w = schemas[t]
    OBVIOUS
  <2>2. Backed(t, w)'
    BY <1>2, <2>1 DEF SchemasInv
  <2> QED
    BY <1>4, <2>1, <2>2
<1>6. OriginInv'
  <2>1. ASSUME NEW t \in Offered, t \notin fresh
        PROVE  t \in DOMAIN origin' /\ origin'[t] = origin[t]
    BY <1>4, <2>1 DEF OriginInv
  <2>2. \A t \in Offered' : \/ t \in DOMAIN origin' /\ Backed(t, origin[t])'
                            \/ t \in Offered /\ t \in DOMAIN origin' /\ origin'[t] = origin[t]
    BY <1>3, <1>5, <2>1
  <2> QED
    BY <2>2, OriginKept
<1>7. SchemasInv'
  <2>1. schemas' = schemas
    BY DEF ToolSearch
  <2> QED
    BY <2>1, SchemasKept
<1> QED
  BY <1>6, <1>7

LEMMA BackedNext ==
  ASSUME LoadInv, CapsInv, SourcesInv, ShapeInv, BackedInv, [CatalogNext]_catalogVars
  PROVE  BackedInv'
<1>1. RegistryInv'
  BY RegistryStays DEF BackedInv
<1>2. \A t, w : Backed(t, w) => Backed(t, w)'
  BY BackedKept DEF BackedInv
<1>3. RegistryInv /\ OriginInv /\ SchemasInv
  BY DEF BackedInv
<1>4. ASSUME UNCHANGED schemas PROVE SchemasInv'
  BY <1>2, <1>3, <1>4, SchemasKept
<1>5. ASSUME UNCHANGED <<defs, origin>> PROVE OriginInv'
  <2>1. Offered' = Offered
    BY <1>5 DEF Offered
  <2> QED
    BY <1>2, <1>3, <1>5, <2>1, OriginKept DEF OriginInv
<1>6. ASSUME NEW names, Materialize(names) PROVE OriginInv'
  BY <1>2, <1>3, <1>6, MaterializeBacked
<1>7. OriginInv' /\ SchemasInv'
  <2>1. CASE Enter
    BY <1>4, <2>1, EnterBacked DEF Enter
  <2>2. CASE Bind
    BY <1>4, <1>6, <2>2 DEF Bind
  <2>3. CASE Discover
    BY <1>4, <1>5, <1>6, <2>3 DEF Discover
  <2>4. CASE ListSource
    BY <1>2, <1>3, <2>4, ListBacked
  <2>5. CASE Index
    BY <1>2, <1>3, <2>5, IndexBacked
  <2>6. CASE ToolSearch
    BY <1>2, <1>3, <2>6, ToolSearchBacked
  <2>7. CASE UNCHANGED <<defs, origin, schemas>>
    BY <1>4, <1>5, <2>7
  <2> QED
    BY <2>1, <2>2, <2>3, <2>4, <2>5, <2>6, <2>7
       DEF CatalogNext, catalogVars, runVars, stageVars, Load, Call, Others
<1> QED
  BY <1>1, <1>7 DEF BackedInv

\* A tool that a known source has is found by the search over all of them.
LEMMA SearchFinds ==
  ASSUME SourcesInv, NEW t, \E o \in Known : t \in o.has
  PROVE  \E i \in DOMAIN (setup.nested \o sources) : t \in (setup.nested \o sources)[i].has
<1> DEFINE all == setup.nested \o sources
<1>1. setup.nested \in Seq(Listable) /\ sources \in Seq(Listable)
  BY DEF SourcesInv
<1>2. CASE \E i \in DOMAIN setup.nested : t \in setup.nested[i].has
  BY <1>1, <1>2
<1>3. CASE \E i \in DOMAIN sources : t \in sources[i].has
  <2>1. PICK i \in DOMAIN sources : t \in sources[i].has
    BY <1>3
  <2>2. /\ Len(setup.nested) + i \in DOMAIN all
        /\ all[Len(setup.nested) + i] = sources[i]
    BY <1>1
  <2> QED
    BY <2>1, <2>2
<1> QED
  BY <1>2, <1>3 DEF Known

\* A call of rag_search without an instance is the stage's own with collections, and has
\* an excuse without them: it came in from the resources or from a source.
LEMMA BackedRuns ==
  ASSUME SourcesInv, BackedInv
  PROVE  OfferedRuns
<1> SUFFICES ASSUME NEW t \in Offered, ~\E s \in replaced : origin[t] = Source(s),
                    ~(/\ t = "rag_search" /\ ~setup.rag
                      /\ origin[t] \in {Resource} \cup {Source(s) : s \in Ids})
             PROVE  Runner(t) # Nobody
  BY DEF OfferedRuns
<1>1. \/ t \in DOMAIN registry
      \/ setup.wired /\ CanExecute(t) /\ origin[t] = Resource
      \/ \E o \in Known : t \in o.has /\ origin[t] = Source(o.id)
  BY DEF BackedInv, OriginInv, Backed
<1>2. t \in DOMAIN registry => registry[t] # Nobody
  BY DEF BackedInv, RegistryInv
<1>3. Instance(t) = IF t \in DOMAIN registry THEN registry[t] ELSE Nobody
  BY DEF Instance
<1>4. \A o \in Known : o.id \in Ids
  BY DEF SourcesInv, Known, Listable, SourceObjects
<1> DEFINE all == setup.nested \o sources
           having == {i \in DOMAIN all : t \in all[i].has}
           found == all[CHOOSE i \in having : \A j \in having : i <= j].id
<1>5. Runner(t) = IF t = "discover_tools" THEN Builtin
                  ELSE IF t \in {"search_tools", "rag_search"}
                  THEN IF t \in DOMAIN registry \/ (t = "rag_search" /\ ~setup.rag)
                       THEN Instance(t) ELSE Builtin
                  ELSE IF setup.wired /\ CanExecute(t) THEN Resource
                  ELSE IF having # {} THEN Source(found)
                  ELSE Instance(t)
  BY DEF Runner
<1>6. (\E o \in Known : t \in o.has) => having # {}
  BY SearchFinds
<1> HIDE DEF having, found
<1>7. CASE t \in {"discover_tools", "search_tools"}
  BY <1>2, <1>3, <1>5, <1>7, RunnersDiffer
<1>8. CASE t = "rag_search"
  <2>1. CASE t \in DOMAIN registry \/ setup.rag
    BY <1>2, <1>3, <1>5, <1>8, <2>1, RunnersDiffer
  <2>2. CASE ~(t \in DOMAIN registry \/ setup.rag)
    BY <1>1, <1>4, <1>8, <2>2
  <2> QED
    BY <2>1, <2>2
<1>9. CASE t \notin {"discover_tools", "search_tools", "rag_search"}
  BY <1>1, <1>2, <1>3, <1>5, <1>6, <1>9, RunnersDiffer
<1> QED
  BY <1>7, <1>8, <1>9

\* Every tool the model is offered has somebody who runs it, whatever was registered, bound,
\* deferred or promoted, unless its source has been replaced in the meantime.
THEOREM EveryToolRuns == CatalogSpec => []OfferedRuns
<1>1. CatalogInit => BackedInv
  BY BackedInit
<1>2. (LoadInv /\ CapsInv /\ SourcesInv /\ ShapeInv /\ OnceInv) /\ BackedInv
        /\ [CatalogNext]_catalogVars => BackedInv'
  BY BackedNext
<1>3. (LoadInv /\ CapsInv /\ SourcesInv /\ ShapeInv /\ OnceInv) /\ BackedInv => OfferedRuns
  BY BackedRuns
<1> QED
  BY <1>1, <1>2, <1>3, CatalogInvariants, PTL DEF CatalogSpec
=============================================================================
