------------------------------- MODULE Sessions -------------------------------
(***************************************************************************)
(* Conversations over several runs: HarnessSession and SessionManager       *)
(* (core/session.py) with the stores of memory/store.py and the progress    *)
(* log of memory/progress.py; what a run is given of the past by s01_input, *)
(* s02_history and s03_prompt, with the memory of memory/memory_store.py;   *)
(* and the lessons a run keeps from iteration to iteration                  *)
(* (memory/state_bridge.py, core/state_loop.py).  Runs are tasks of one     *)
(* event loop: what lies between two awaits is one action.  A crash of the  *)
(* process loses all but files and database.                                *)
(***************************************************************************)
EXTENDS Naturals, Sequences, FiniteSets, SequencesExt

CONSTANTS
  None, Torn,    \* nothing, not set; a file that was not written to the end
  Sids,          \* session ids
  FileOf(_),     \* the name FileSessionStore gives the file of an id, None if it refuses it
  Slots,         \* runs that overlap
  Users,         \* users
  Facts,         \* entries of the long-term memory
  ScopeOf(_),    \* their scope
  Items,         \* ids of progress items
  Complexities,  \* what s01_input may say of an input
  Setups, Start  \* configurations and bounds of a behaviour; the one of restored sessions

(* A setup: [config : the HarnessConfig, user : who runs (or None), runs, objects,
   iterations, edits, writes : bounds on runs, session objects, iterations and on
   changes of progress and of memory, lessons : max_lessons of the recorder].  Of a config:
   [strategy, maxHistory, scopes (templates), rules, tools, resources, citation,
   thinking] of the stages s01 to s03. *)
\* Two ids that the store accepts have files of their own, as those of SessionManager
\* have: FileSessionStore takes characters out of others.
ASSUME SessionsAssumption ==
  /\ None \notin Nat
  /\ \A s, t \in Sids : FileOf(s) = FileOf(t) /\ FileOf(s) # None => s = t
  /\ \A su \in Setups : {su.runs, su.objects, su.iterations, su.edits, su.writes, su.lessons} \subseteq Nat

Statuses == {"pending", "in_progress", "done", "failed", "blocked"}

VARIABLES
  su,        \* the setup of this behaviour
  objs,      \* session objects, in order of creation
  managed,   \* SessionManager._sessions: id -> object, None
  runs,      \* slot -> the run in it, Idle
  asked,     \* number of runs started: the question of a run is its number
  db,        \* records of the database: id -> snapshot, None
  files,     \* files of the store: name -> snapshot, Torn, None
  saving,    \* the write in progress: [sid, data, tmp : the temporary file], None
  saved,     \* history: id -> the data of the last save that ended
  memory,    \* facts in the MemoryStore
  log,       \* the host's ProgressLog: sequence of [id, status]
  edits      \* changes of log or memory
vars == <<su, objs, managed, runs, asked, db, files, saving, saved, memory, log, edits>>

Messages == [role : {"user", "assistant"}, q : Nat]
ProgressItems == [id : Items, status : Statuses]
Data ==
  [sid : Sids, messages : Seq(Messages), turns : Nat, tokens : Nat, progress : Seq(ProgressItems)]
Configs == {Start} \cup {s.config : s \in Setups}
SessionStates ==
  [sid : Sids, config : Configs, messages : Seq(Messages), turns : Nat, tokens : Nat,
   progress : Seq(ProgressItems)]

Idle == [at |-> "idle"]
User(q) == [role |-> "user", q |-> q]
Answer(q) == [role |-> "assistant", q |-> q]

Fresh(sid, config) ==
  [sid |-> sid, config |-> config, messages |-> <<>>, turns |-> 0, tokens |-> 0, progress |-> <<>>]
\* to_dict and from_dict: of the configuration only fields that no stage reads here.
Snapshot(o) ==
  [sid |-> o.sid, messages |-> o.messages, turns |-> o.turns, tokens |-> o.tokens,
   progress |-> o.progress]
Restored(data, config) ==
  [sid |-> data.sid, config |-> config, messages |-> data.messages, turns |-> data.turns,
   tokens |-> data.tokens, progress |-> data.progress]

FileNames == {FileOf(s) : s \in Sids} \ {None}

Init ==
  /\ su \in Setups
  /\ objs = <<>> /\ managed = [s \in Sids |-> None]
  /\ runs = [x \in Slots |-> Idle] /\ asked = 0
  /\ db = [s \in Sids |-> None] /\ files = [f \in FileNames |-> None]
  /\ saving = None /\ saved = [s \in Sids |-> None]
  /\ memory = {} /\ log = <<>> /\ edits = 0

(***************************************************************************)
(* The sessions.                                                            *)
(***************************************************************************)
\* SessionManager.create (ids are random: one that is in use does not come again).
Create(sid) ==
  /\ saving = None /\ Len(objs) < su.objects
  /\ managed[sid] = None /\ db[sid] = None
  /\ FileOf(sid) # None => files[FileOf(sid)] = None
  /\ objs' = Append(objs, Fresh(sid, su.config))
  /\ managed' = [managed EXCEPT ![sid] = Len(objs')]
  /\ UNCHANGED <<su, runs, asked, db, files, saving, saved, memory, log, edits>>

\* SessionManager.delete: runs of the session go on with their object.
Delete(sid) ==
  /\ saving = None /\ managed[sid] # None
  /\ managed' = [managed EXCEPT ![sid] = None]
  /\ UNCHANGED <<su, objs, runs, asked, db, files, saving, saved, memory, log, edits>>

\* save_to_db and load_from_db; the database may fail, and then nothing changes.
SaveToDb(sid) ==
  /\ saving = None /\ managed[sid] # None
  /\ db' = [db EXCEPT ![sid] = Snapshot(objs[managed[sid]])]
  /\ UNCHANGED <<su, objs, managed, runs, asked, files, saving, saved, memory, log, edits>>

Adopt(sid, data) ==
  /\ Len(objs) < su.objects
  /\ objs' = Append(objs, Restored(data, Start))
  /\ managed' = [managed EXCEPT ![sid] = Len(objs')]

LoadFromDb(sid) ==
  /\ saving = None /\ db[sid] # None
  /\ Adopt(sid, db[sid])
  /\ UNCHANGED <<su, runs, asked, db, files, saving, saved, memory, log, edits>>

(***************************************************************************)
(* FileSessionStore.save: a temporary file, then os.replace; an exception   *)
(* removes the temporary file.  No task runs in between, but the process    *)
(* may die, and leaves a file that nobody reads.                             *)
(***************************************************************************)
\* The session's own file is opened for writing.
SaveBeginInPlace(sid) ==
  /\ saving = None /\ managed[sid] # None /\ FileOf(sid) # None
  /\ saving' = [sid |-> sid, data |-> Snapshot(objs[managed[sid]]), tmp |-> Torn]
  /\ files' = [files EXCEPT ![FileOf(sid)] = Torn]
  /\ UNCHANGED <<su, objs, managed, runs, asked, db, saved, memory, log, edits>>
SaveBegin(sid) ==
  /\ saving = None /\ managed[sid] # None /\ FileOf(sid) # None
  /\ saving' = [sid |-> sid, data |-> Snapshot(objs[managed[sid]]), tmp |-> Torn]
  /\ UNCHANGED <<su, objs, managed, runs, asked, db, files, saved, memory, log, edits>>

SaveWrite ==
  /\ saving # None /\ saving.tmp = Torn
  /\ saving' = [saving EXCEPT !.tmp = saving.data]
  /\ UNCHANGED <<su, objs, managed, runs, asked, db, files, saved, memory, log, edits>>

SaveReplace ==
  /\ saving # None /\ saving.tmp # Torn
  /\ files' = [files EXCEPT ![FileOf(saving.sid)] = saving.tmp]
  /\ saved' = [saved EXCEPT ![saving.sid] = saving.data]
  /\ saving' = None
  /\ UNCHANGED <<su, objs, managed, runs, asked, db, memory, log, edits>>

SaveFails ==
  /\ saving # None
  /\ saving' = None
  /\ UNCHANGED <<su, objs, managed, runs, asked, db, files, saved, memory, log, edits>>

\* load_session, with or without a configuration of the host.
LoadFile(sid) ==
  /\ saving = None /\ FileOf(sid) # None
  /\ files[FileOf(sid)] \notin {None, Torn}
  /\ Len(objs) < su.objects
  /\ \E config \in {Start, su.config} :
       objs' = Append(objs, Restored(files[FileOf(sid)], config))
  /\ managed' = [managed EXCEPT ![sid] = Len(objs')]
  /\ UNCHANGED <<su, runs, asked, db, files, saving, saved, memory, log, edits>>

DeleteFile(sid) ==
  /\ saving = None /\ FileOf(sid) # None /\ files[FileOf(sid)] # None
  /\ files' = [files EXCEPT ![FileOf(sid)] = None]
  /\ saved' = [saved EXCEPT ![sid] = None]
  /\ UNCHANGED <<su, objs, managed, runs, asked, db, saving, memory, log, edits>>

Crash ==
  /\ objs # <<>>
  /\ objs' = <<>> /\ managed' = [s \in Sids |-> None]
  /\ runs' = [x \in Slots |-> Idle]
  /\ saving' = None /\ memory' = {} /\ log' = <<>>
  /\ UNCHANGED <<su, asked, db, files, saved, edits>>

(***************************************************************************)
(* The progress log, which the host keeps and attaches to a session.        *)
(***************************************************************************)
AddItem ==
  /\ saving = None /\ edits < su.edits /\ edits' = edits + 1
  /\ \E id \in Items :
       /\ \A i \in DOMAIN log : log[i].id # id
       /\ log' = Append(log, [id |-> id, status |-> "pending"])
  /\ UNCHANGED <<su, objs, managed, runs, asked, db, files, saving, saved, memory>>

UpdateStatus ==
  /\ saving = None /\ edits < su.edits /\ edits' = edits + 1
  /\ \E i \in DOMAIN log, s \in Statuses : log' = [log EXCEPT ![i].status = s]
  /\ UNCHANGED <<su, objs, managed, runs, asked, db, files, saving, saved, memory>>

AttachProgress(sid) ==
  /\ saving = None /\ managed[sid] # None
  /\ objs' = [objs EXCEPT ![managed[sid]].progress = log]
  /\ UNCHANGED <<su, managed, runs, asked, db, files, saving, saved, memory, log, edits>>

\* A new process takes up the work.
ReadProgress(sid) ==
  /\ saving = None /\ managed[sid] # None /\ log = <<>>
  /\ log' = objs[managed[sid]].progress
  /\ UNCHANGED <<su, objs, managed, runs, asked, db, files, saving, saved, memory, edits>>

(***************************************************************************)
(* A run.  HarnessSession.run takes deep copies of the history, both as     *)
(* conversation_history and as the messages of the run.                     *)
(***************************************************************************)
Config(x) == objs[runs[x].obj].config

RunStart(x) ==
  /\ saving = None /\ runs[x] = Idle /\ asked < su.runs
  /\ \E sid \in Sids :
       /\ managed[sid] # None
       /\ runs' = [runs EXCEPT ![x] =
            [at |-> "input", obj |-> managed[sid], q |-> asked + 1,
             history |-> objs[managed[sid]].messages, messages |-> objs[managed[sid]].messages,
             complexity |-> None, recalled |-> {}, prompt |-> <<>>,
             iteration |-> 0, lessons |-> <<>>, view |-> <<>>, retried |-> <<>>]]
  /\ asked' = asked + 1
  /\ UNCHANGED <<su, objs, managed, db, files, saving, saved, memory, log, edits>>

\* s01_input: the question goes behind what is there, and may be classified.
Input(x) ==
  /\ saving = None /\ runs[x].at = "input"
  /\ \E c \in IF Config(x).classify THEN Complexities ELSE {None} :
       runs' = [runs EXCEPT ![x].at = "history", ![x].complexity = c,
                            ![x].messages = Append(@, User(runs[x].q))]
  /\ UNCHANGED <<su, objs, managed, asked, db, files, saving, saved, memory, log, edits>>

\* _resolve_memory_scopes: a template that needs the user is skipped without one.
Scopes(x) ==
  {<<"org", None>> : t \in Config(x).scopes \cap {"org"}}
  \cup (IF su.user = None THEN {} ELSE {<<"user", su.user>> : t \in Config(x).scopes \cap {"user"}})

\* InMemoryMemoryStore.search: no scopes means all; the words and top_k select any of them.
Searched(scopes) == SUBSET {f \in memory : scopes = {} \/ ScopeOf(f) \in scopes}
RecallsMutant(x) == Searched(Scopes(x))
Recalls(x) == IF Scopes(x) = {} THEN {{}} ELSE Searched(Scopes(x))

Bypass(x) ==
  LET config == Config(x)
  IN \/ config.strategy = "none"
     \/ config.strategy = "default" /\ Scopes(x) = {} /\ runs[x].history = <<>>

LastOf(list, n) == IF n >= Len(list) THEN list ELSE SubSeq(list, Len(list) - n + 1, Len(list))
Limited(history, max) == IF max = None THEN history ELSE LastOf(history, max)
\* Before the last message, one by one.
Insert(messages, more) == Front(messages) \o more \o <<Last(messages)>>

\* s02_history: the history of the run, and memories of the user for s03.
History(x) ==
  /\ saving = None /\ runs[x].at = "history"
  /\ IF Bypass(x)
     THEN runs' = [runs EXCEPT ![x].at = "prompt"]
     ELSE \E found \in IF Config(x).strategy = "embedding_search" THEN {{}} ELSE Recalls(x) :
            runs' = [runs EXCEPT
              ![x].at = IF Config(x).strategy = "embedding_search" THEN "search" ELSE "prompt",
              ![x].messages = Insert(@, Limited(runs[x].history, Config(x).maxHistory)),
              ![x].recalled = found]
  /\ UNCHANGED <<su, objs, managed, asked, db, files, saving, saved, memory, log, edits>>

\* The awaited searches of embedding_search; what they find is put behind the system
\* prompt of the moment.  Then the memories of the user.
Searches(x) ==
  /\ saving = None /\ runs[x].at = "search"
  /\ \E section \in {<<>>, <<"relevant_memories">>}, found \in Recalls(x) :
       runs' = [runs EXCEPT ![x].at = "prompt", ![x].prompt = @ \o section, ![x].recalled = found]
  /\ UNCHANGED <<su, objs, managed, asked, db, files, saving, saved, memory, log, edits>>

(***************************************************************************)
(* s03_prompt: the system prompt is made anew from its sections, in the     *)
(* order of their priorities (ties in the order of the code).               *)
(***************************************************************************)
SectionOrder ==
  <<"identity", "rules", "user_memory", "active_policies", "active_resources", "citation",
    "planning", "grounding", "harness_stages", "meta_tools_by_stage", "tools",
    "available_prompt_templates">>

ThinkingMode(x) ==
  IF Config(x).thinking # "auto" THEN Config(x).thinking
  ELSE CASE runs[x].complexity = "simple" -> "none"
         [] runs[x].complexity = "complex" -> "react"
         [] OTHER -> "cot"

\* _detect_citation_need decides for "auto" by the names of the attached collections.
CitationModes(x) ==
  IF Config(x).citation # "auto" THEN {Config(x).citation}
  ELSE {"off"} \cup (IF Config(x).resources THEN {"strict"} ELSE {})

\* Identity and rules come from the configuration or from the registered templates,
\* which are named too.
TemplateSections == {"identity", "available_prompt_templates"}
BasicSections(x) ==
  {n \in {"rules"} : Config(x).rules}
  \cup {n \in {"user_memory"} : runs[x].recalled # {}}
\* Collections, graphs, connections and files that are attached, each with its tool.
ResourceSections(x) == {n \in {"active_resources"} : Config(x).resources}
PolicySections(x) == {n \in {"active_policies"} : Config(x).policies}
CitationSections(citation) ==
  {n \in {"citation"} : citation \in {"enabled", "strict"}}
  \cup {n \in {"grounding"} : citation = "strict"}
PlanningSections(x) == {n \in {"planning"} : runs[x].iteration <= 1 /\ ThinkingMode(x) # "none"}
\* Tools by category, those that are deferred only counted, and by stage.
ToolSections(x) == {n \in {"tools"} : Config(x).tools}
StageSections(x) == {"harness_stages"} \cup {n \in {"meta_tools_by_stage"} : Config(x).tools}
Present(x, citation) ==
  TemplateSections \cup BasicSections(x) \cup ResourceSections(x) \cup PolicySections(x)
  \cup CitationSections(citation) \cup PlanningSections(x) \cup ToolSections(x)
  \cup StageSections(x)

Prompt(x) ==
  /\ saving = None /\ runs[x].at = "prompt"
  /\ \E citation \in CitationModes(x) :
       runs' = [runs EXCEPT ![x].at = "loop",
         ![x].prompt = SelectSeq(SectionOrder, LAMBDA n : n \in Present(x, citation))]
  /\ UNCHANGED <<su, objs, managed, asked, db, files, saving, saved, memory, log, edits>>

(***************************************************************************)
(* The loop, as far as it concerns what is kept: apply_state_view before    *)
(* the call of the model, record_iteration after the decision.  A retry     *)
(* leaves a lesson in a buffer of the latest ones; a recorder that raises   *)
(* before that is ignored.                                                   *)
(***************************************************************************)
LatestMutant(lessons) == SubSeq(lessons, 1, IF Len(lessons) < su.lessons THEN Len(lessons) ELSE su.lessons)
Latest(lessons) == LastOf(lessons, su.lessons)

\* apply_state_view: a block of the system prompt, which replaces that of the turn before.
View(x) == LastOf(runs[x].lessons, su.lessons)

Iterate(x) ==
  /\ saving = None /\ runs[x].at = "loop" /\ runs[x].iteration < su.iterations
  /\ LET i == runs[x].iteration + 1
         seen == [runs EXCEPT ![x].iteration = i, ![x].view = View(x)]
     IN \/ runs' = [seen EXCEPT ![x].lessons = Latest(Append(@, i)),
                                ![x].retried = Append(@, i)]
        \/ runs' = seen
        \/ runs' = [seen EXCEPT ![x].at = "end"]
  /\ UNCHANGED <<su, objs, managed, asked, db, files, saving, saved, memory, log, edits>>

\* The turn is recorded at once, when the run has ended.
Turn(o, q, output) ==
  [o EXCEPT !.messages = @ \o <<User(q)>> \o (IF output THEN <<Answer(q)>> ELSE <<>>),
            !.turns = @ + 1, !.tokens = @ + q]
\* The turn is put behind the history the run began with.
RecordedMutant(x, output) ==
  Turn([objs[runs[x].obj] EXCEPT !.messages = runs[x].history], runs[x].q, output)
Recorded(x, output) == Turn(objs[runs[x].obj], runs[x].q, output)

RunEnd(x) ==
  /\ saving = None /\ runs[x].at = "end"
  /\ \E output \in BOOLEAN : objs' = [objs EXCEPT ![runs[x].obj] = Recorded(x, output)]
  /\ runs' = [runs EXCEPT ![x] = Idle]
  /\ UNCHANGED <<su, managed, asked, db, files, saving, saved, memory, log, edits>>

\* A run that raises, or is cancelled, leaves no turn.
RunFails(x) ==
  /\ saving = None /\ runs[x] # Idle /\ runs[x].at # "end"
  /\ runs' = [runs EXCEPT ![x] = Idle]
  /\ UNCHANGED <<su, objs, managed, asked, db, files, saving, saved, memory, log, edits>>

\* MemoryStore.write and delete, by the host's extractor or at any other time.
Memorise ==
  /\ saving = None /\ edits < su.writes /\ edits' = edits + 1
  /\ \E f \in Facts : memory' = (memory \cup {f}) \ (memory \cap {f})
  /\ UNCHANGED <<su, objs, managed, runs, asked, db, files, saving, saved, log>>

Next ==
  \/ \E sid \in Sids :
       \/ Create(sid) \/ Delete(sid) \/ SaveToDb(sid) \/ LoadFromDb(sid)
       \/ SaveBegin(sid) \/ LoadFile(sid) \/ DeleteFile(sid)
       \/ AttachProgress(sid) \/ ReadProgress(sid)
  \/ SaveWrite \/ SaveReplace \/ SaveFails \/ Crash \/ AddItem \/ UpdateStatus \/ Memorise
  \/ \E x \in Slots :
       \/ RunStart(x) \/ Input(x) \/ History(x) \/ Searches(x) \/ Prompt(x)
       \/ Iterate(x) \/ RunEnd(x) \/ RunFails(x)

Spec == Init /\ [][Next]_vars

(***************************************************************************)
(* Properties.                                                              *)
(***************************************************************************)
TypeOK ==
  /\ su \in Setups
  /\ objs \in Seq(SessionStates)
  /\ managed \in [Sids -> DOMAIN objs \cup {None}]
  /\ DOMAIN runs = Slots
  /\ \A x \in Slots : runs[x] # Idle =>
       /\ {"at", "obj", "q", "recalled"} \subseteq DOMAIN runs[x]
       /\ runs[x].obj \in DOMAIN objs /\ runs[x].q \in Nat
  /\ asked \in Nat
  /\ db \in [Sids -> Data \cup {None}]
  /\ files \in [FileNames -> Data \cup {None, Torn}]
  /\ saving \in [sid : Sids, data : Data, tmp : Data \cup {Torn}] \cup {None}
  /\ saved \in [Sids -> Data \cup {None}]
  /\ log \in Seq(ProgressItems)

\* The sum of a sequence of numbers; what the questions of a conversation cost.
Total(numbers) ==
  LET sum[n \in 0..Len(numbers)] == IF n = 0 THEN 0 ELSE sum[n - 1] + numbers[n]
  IN sum[Len(numbers)]
Questions(messages) == {i \in DOMAIN messages : messages[i].role = "user"}
Spent(messages) ==
  [i \in DOMAIN messages |-> IF i \in Questions(messages) THEN messages[i].q ELSE 0]
Whole(data) ==
  /\ \A i \in DOMAIN data.messages : data.messages[i].role = "assistant" =>
       /\ i > 1 /\ data.messages[i - 1].role = "user"
       /\ data.messages[i - 1].q = data.messages[i].q
  /\ data.turns = Cardinality(Questions(data.messages))
  /\ data.tokens = Total(Spent(data.messages))

\* However runs of a session overlap, fail, or go on after their session was loaded
\* anew, every answer stands right behind its question, and the totals are those of
\* the turns that are there; in objects, database and files (core/session.py).
TurnsWhole ==
  /\ \A o \in DOMAIN objs : Whole(objs[o])
  /\ \A s \in Sids : db[s] # None => Whole(db[s])
  /\ \A f \in FileNames : files[f] \notin {None, Torn} => Whole(files[f])

\* The file of a session holds what the last save that ended wrote, whatever has
\* happened since, a crash in the middle of a save included (memory/store.py).
Durable ==
  \A s \in Sids : FileOf(s) # None => files[FileOf(s)] = saved[s]

\* A run recalls facts of its own user and of the organisation, and only of the kinds
\* its configuration names (stages/s02_history/stage.py).
RecallOwn ==
  \A x \in Slots : runs[x] # Idle =>
    \A f \in runs[x].recalled : ScopeOf(f) \in Scopes(x)

\* The model sees, and the buffer holds, the latest lessons of the run's failed
\* iterations, in order, and never those of other runs (memory/state_bridge.py).
Earlier(run) == {k \in DOMAIN run.retried : run.retried[k] < run.iteration}
LessonsLatest ==
  \A x \in Slots : runs[x] # Idle =>
    /\ runs[x].lessons = LastOf(runs[x].retried, su.lessons)
    /\ runs[x].view =
         LastOf(SubSeq(runs[x].retried, 1, Cardinality(Earlier(runs[x]))), su.lessons)

=============================================================================
