---------------------------- MODULE Conversation ----------------------------
(***************************************************************************)
(* The messages of a conversation, run after run: HarnessSession.run gives *)
(* the history to a run (core/session.py), s01 and s02 put question and    *)
(* history together, s06 compacts them in the first turn                   *)
(* (stages/s06_context), every attempt of the main call truncates them     *)
(* (core/llm_call.py), replies and tool results are added, and             *)
(* s09_finalize settles the output, which the session records.             *)
(*                                                                         *)
(* A text is long or not, which is what both limits count.  s06's L3 acts  *)
(* on tool results only; as s06 is bypassed after the first turn it meets  *)
(* none, and it is left out.                                               *)
(***************************************************************************)
EXTENDS Integers, SequencesExt

CONSTANTS
  Setups,      \* the setups a behaviour may have
  MaxRuns,     \* bound: questions of a session
  MaxTurns     \* config.max_iterations

Strategies == {"token_budget", "sliding_window", "context_collapse_overlay",
               "autocompact_llm", "cascade"}

\* The parameters of s02, s06 and the main call that touch the messages.
SetupType == [
  direct     : BOOLEAN,     \* HarnessSession: the history is in the messages already
  recall     : BOOLEAN,     \* s02_history is active and injects the history
  maxHistory : Nat,         \* max_history; unset is like any large number
  strategy   : Strategies,
  keep       : Nat,         \* keep_tail or window_size; unset is 0
  limit      : Nat,         \* context_limit, in long texts
  retries    : Nat]         \* max_retries of the main call

ASSUME ConversationAssumption ==
  Setups \subseteq SetupType /\ MaxRuns \in Nat /\ MaxTurns \in Nat \ {0}

\* A message is known by the run and the turn that made it; the text of a tool
\* result does not count, and notes stand for what is left out.
Note == [kind |-> "note", run |-> 0, turn |-> 0, long |-> FALSE]
Messages ==
  [kind : {"user", "text", "uses", "results"}, run : 1..MaxRuns, turn : 0..MaxTurns, long : BOOLEAN]
    \cup {Note}

VARIABLES
  setup,      \* the setup of this behaviour
  past,       \* SessionState.messages
  run,        \* questions asked so far
  pc,         \* "idle", "context", "call", "act" or "boundary"
  turn,       \* state.loop_iteration
  attempt,    \* attempts of this call that failed
  messages,   \* state.messages
  stored,     \* state.pd_stores["history"]
  answer,     \* state.last_assistant_text: the message it is in; Note if it is empty
  made,       \* history: all messages this run was given or made
  truncated   \* history: messages that truncation removed

vars == <<setup, past, run, pc, turn, attempt, messages, stored, answer, made, truncated>>

TypeOK ==
  /\ setup \in Setups
  /\ past \in Seq(Messages)
  /\ run \in 0..MaxRuns
  /\ pc \in {"idle", "context", "call", "act", "boundary"}
  /\ turn \in 0..MaxTurns
  /\ attempt \in 0..setup.retries
  /\ messages \in Seq(Messages)
  /\ stored \subseteq Messages
  /\ answer \in Messages
  /\ made \in Seq(Messages)
  /\ truncated \subseteq Messages

Init ==
  /\ setup \in Setups
  /\ past = <<>> /\ run = 0 /\ pc = "idle" /\ turn = 0 /\ attempt = 0
  /\ messages = <<>> /\ stored = {} /\ answer = Note
  /\ made = <<>> /\ truncated = {}

-----------------------------------------------------------------------------
(* Python's s[-k:] and s[1:-k], for k = 0 too. *)

LastOnes(s, k) == IF k = 0 \/ k > Len(s) THEN s ELSE SubSeq(s, Len(s) - k + 1, Len(s))

Middle(s, k) == IF k = 0 THEN <<>> ELSE SubSeq(s, 2, Len(s) - k)

Question(r, long) == [kind |-> "user", run |-> r, turn |-> 0, long |-> long]

\* What _execute_default of s02 injects.
Recalled ==
  IF ~setup.recall \/ setup.maxHistory = 0 THEN <<>> ELSE LastOnes(past, setup.maxHistory)

\* A question: HarnessSession.run copies the history, s01 appends the question,
\* s02 inserts the history before it; the loop begins.
Begin ==
  /\ pc = "idle" /\ run < MaxRuns
  /\ run' = run + 1
  /\ \E long \in BOOLEAN :
       messages' = (IF setup.direct THEN past ELSE <<>>) \o Recalled \o <<Question(run + 1, long)>>
  /\ made' = messages'
  /\ pc' = "context" /\ turn' = 1 /\ attempt' = 0
  /\ stored' = {} /\ answer' = Note /\ truncated' = {}
  /\ UNCHANGED <<setup, past>>

-----------------------------------------------------------------------------
(* s06_context *)

Elements(s) == {s[i] : i \in DOMAIN s}

\* try_context_collapse, try_autocompact: the middle is stored, and a note takes
\* its place unless the summary failed.
Foldable == Len(messages) > setup.keep + 1
Fold(noted) ==
  /\ Foldable
  /\ stored' = stored \cup Elements(Middle(messages, setup.keep))
  /\ messages' = IF noted THEN <<Head(messages), Note>> \o LastOnes(messages, setup.keep)
                 ELSE messages

Collapse    == Fold(TRUE)
Autocompact == Fold(TRUE) \/ Fold(FALSE)

\* Mutant: the first message is forgotten.
TokenBudgetHeadless ==
  /\ Len(messages) > 4
  /\ messages' = LastOnes(messages, 4)
  /\ UNCHANGED stored

\* First and last three.
TokenBudget ==
  /\ Len(messages) > 4
  /\ messages' = <<Head(messages)>> \o LastOnes(messages, 3)
  /\ UNCHANGED stored

SlidingWindow ==
  /\ Len(messages) > setup.keep
  /\ messages' = LastOnes(messages, setup.keep)
  /\ UNCHANGED stored

\* The pressure on the context decides: the window slides in any case, cascade
\* takes L5 instead of L4 under the higher pressure.
Compact ==
  \/ setup.strategy = "token_budget" /\ TokenBudget
  \/ setup.strategy = "sliding_window" /\ SlidingWindow
  \/ setup.strategy \in {"context_collapse_overlay", "cascade"} /\ Collapse
  \/ setup.strategy \in {"autocompact_llm", "cascade"} /\ Autocompact

NoPressure ==
  /\ setup.strategy = "sliding_window" => Len(messages) <= setup.keep
  /\ UNCHANGED <<messages, stored>>

\* Mutant: s06 is not bypassed in later turns.
ContextAlways ==
  /\ pc = "context"
  /\ Compact \/ NoPressure
  /\ pc' = "call" /\ attempt' = 0
  /\ UNCHANGED <<setup, past, run, turn, answer, made, truncated>>

\* s06 acts in the first turn only.
Context ==
  /\ pc = "context"
  /\ IF turn > 1 THEN UNCHANGED <<messages, stored>> ELSE Compact \/ NoPressure
  /\ pc' = "call" /\ attempt' = 0
  /\ UNCHANGED <<setup, past, run, turn, answer, made, truncated>>

-----------------------------------------------------------------------------
(* The main call: _call_with_retry, _single_call *)

\* _truncate_messages_if_needed keeps two fifths at each end.
Long(s)  == {i \in DOMAIN s : s[i].long}
Share(s) == IF (2 * Len(s)) \div 5 > 1 THEN (2 * Len(s)) \div 5 ELSE 1
TooLong(s) ==
  /\ Cardinality(Long(s)) > setup.limit
  /\ Len(s) > 2
  /\ 2 * Share(s) < Len(s)
Truncated(s) ==
  IF TooLong(s)
    THEN SubSeq(s, 1, Share(s)) \o <<Note>> \o SubSeq(s, Len(s) - Share(s) + 1, Len(s))
    ELSE s
Removed(s) ==
  IF TooLong(s) THEN Elements(SubSeq(s, Share(s) + 1, Len(s) - Share(s))) ELSE {}

Truncate == truncated' = truncated \cup Removed(messages)

\* A failed attempt leaves the truncated messages behind.
CallAgain ==
  /\ pc = "call" /\ attempt < setup.retries
  /\ attempt' = attempt + 1
  /\ messages' = Truncated(messages) /\ Truncate
  /\ UNCHANGED <<setup, past, run, pc, turn, stored, answer, made>>

Add(message) ==
  /\ messages' = Append(Truncated(messages), message)
  /\ made' = Append(made, message)

\* A text alone, or nothing at all.
ReplyText ==
  /\ pc = "call"
  /\ Truncate
  /\ \/ \E long \in BOOLEAN :
          LET reply == [kind |-> "text", run |-> run, turn |-> turn, long |-> long]
          IN  Add(reply) /\ answer' = reply
     \/ messages' = Truncated(messages) /\ UNCHANGED <<made, answer>>
  /\ pc' = "boundary"
  /\ UNCHANGED <<setup, past, run, turn, attempt, stored>>

\* Tool calls, with a text or without.
ReplyCalls ==
  /\ pc = "call"
  /\ Truncate
  /\ \E long \in BOOLEAN :
       LET reply == [kind |-> "uses", run |-> run, turn |-> turn, long |-> long]
       IN  Add(reply) /\ (answer' = reply \/ (~long /\ answer' = answer))
  /\ pc' = "act"
  /\ UNCHANGED <<setup, past, run, turn, attempt, stored>>

\* flush_tool_results, by s07_act or by the gate.
Results ==
  /\ pc = "act"
  /\ LET results == [kind |-> "results", run |-> run, turn |-> turn, long |-> FALSE]
     IN  messages' = Append(messages, results) /\ made' = Append(made, results)
  /\ pc' = "boundary"
  /\ UNCHANGED <<setup, past, run, turn, attempt, stored, answer, truncated>>

NextTurn ==
  /\ pc = "boundary" /\ turn < MaxTurns
  /\ turn' = turn + 1 /\ pc' = "context"
  /\ UNCHANGED <<setup, past, run, attempt, messages, stored, answer, made, truncated>>

-----------------------------------------------------------------------------
(* The end of a run: s09_finalize, HarnessSession.run *)

Asked == CHOOSE i \in DOMAIN made : made[i].kind = "user" /\ made[i].run = run

\* The history keeps an output as a plain text.
AsText(message) == [message EXCEPT !.kind = "text"]
Payload == [kind |-> "text", run |-> run, turn |-> 0, long |-> FALSE]

\* The output, as a sequence of at most one.  Without a text of this run,
\* _fallback_output takes the last assistant text among the messages, then the
\* arguments of a tool that has run, if there are any.
LastTexts ==
  {i \in DOMAIN messages :
     /\ messages[i].kind = "text"
     /\ \A j \in DOMAIN messages : j > i => messages[j].kind # "text"}
Outputs ==
  IF answer # Note THEN {<<AsText(answer)>>}
  ELSE IF LastTexts # {} THEN {<<messages[i]>> : i \in LastTexts}
  ELSE {<<>>} \cup {<<Payload>> : m \in {m \in Elements(made) : m.kind = "results"}}

\* Mutant: the session keeps the messages of the run.
FinishWithMessages ==
  /\ pc \in {"call", "act", "boundary"}
  /\ pc = "call" => attempt = 0
  /\ past' = messages
  /\ pc' = "idle"
  /\ UNCHANGED <<setup, run, turn, attempt, messages, stored, answer, made, truncated>>

\* The loop may end at the boundary, or at a guard that blocks before the call or
\* after the reply.  The session records the question, and the output if there is one.
Finish ==
  /\ pc \in {"call", "act", "boundary"}
  /\ pc = "call" => attempt = 0
  /\ \E output \in Outputs : past' = Append(past, made[Asked]) \o output
  /\ pc' = "idle"
  /\ UNCHANGED <<setup, run, turn, attempt, messages, stored, answer, made, truncated>>

\* Pipeline.run turns the errors of stages and of the last attempt into a result
\* without output; an error after the output is settled leaves what Finish leaves.
Fail ==
  /\ pc # "idle"
  /\ past' = Append(past, made[Asked])
  /\ pc' = "idle"
  /\ UNCHANGED <<setup, run, turn, attempt, messages, stored, answer, made, truncated>>

\* A cancelled run leaves no trace in the session.
Cancel ==
  /\ pc # "idle"
  /\ pc' = "idle"
  /\ UNCHANGED <<setup, past, run, turn, attempt, messages, stored, answer, made, truncated>>

Step == Context \/ CallAgain \/ ReplyText \/ ReplyCalls \/ Results \/ NextTurn \/ Finish

Next == Begin \/ Step \/ Fail \/ Cancel

Spec == Init /\ [][Next]_vars

-----------------------------------------------------------------------------
(* Properties *)

Running == pc # "idle"

\* The LLM always gets the newest message last, and the oldest message of the run first
\* unless the window slid over it, whatever was compacted, truncated and retried.
EndsKept ==
  Running =>
    /\ Last(Truncated(messages)) = Last(made)
    /\ setup.strategy # "sliding_window" => Head(Truncated(messages)) = Head(made)

\* The strategies that fold lose nothing: each message is there or can be fetched
\* unless truncation removed it.
Fetchable ==
  Running /\ setup.strategy \notin {"token_budget", "sliding_window"} =>
    Elements(made) \subseteq Elements(messages) \cup stored \cup truncated

\* Tool results directly follow the message with the calls they answer, and calls are
\* followed by their results, unless truncation has parted them: no compaction
\* does.
Pair(s, i) ==
  /\ s[i].kind = "results" =>
       i > 1 /\ s[i - 1].kind = "uses" /\ s[i - 1].run = s[i].run /\ s[i - 1].turn = s[i].turn
  /\ s[i].kind = "uses" /\ (i < Len(s) \/ pc # "act") => i < Len(s) /\ s[i + 1].kind = "results"
PairsUntruncated ==
  Running /\ truncated = {} => \A i \in DOMAIN messages : Pair(messages, i)

\* The session only grows, by the question of the run and perhaps a text, whatever
\* the run has done to its copy of the history.
PastGrows ==
  [][past' # past =>
       /\ IsPrefix(past, past')
       /\ Len(past') - Len(past) \in 1..2
       /\ past'[Len(past) + 1].kind = "user" /\ past'[Len(past) + 1].run = run
       /\ Last(past').kind \in {"user", "text"}]_vars
=============================================================================
