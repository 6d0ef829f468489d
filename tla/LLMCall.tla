-------------------------------- MODULE LLMCall --------------------------------
(*********************************************************************************)
(* The main LLM call of a run (core/llm_call.py) on top of a provider: finding    *)
(* the provider's class and key, the request with its retries, the stream the     *)
(* provider turns into events, the answer the run keeps, and the evaluation of    *)
(* the answer by a judge, which decides whether the run tries again.              *)
(* The server writes a text and calls tools; NativeCalls has the parser of the    *)
(* calls that stand in the text.                                                  *)
(*********************************************************************************)
EXTENDS NativeCalls, Integers, FiniteSets

None == -1

CONSTANTS
  Setups     \* [names, plugins, entry, provider, models, keys, contextKey, stream, retries,
             \*  faults, texts, calls, early, judging, strategy, judge, judgeModel,
             \*  useMain, marks, threshold, hard, decideRetries, turns]: calls has the
             \*  number of pieces each call comes in, early the calls whose first
             \*  piece already brings arguments

Unset == "unset"
Classes == {"openai", "anthropic", "langchain"}

ASSUME LLMCallAssumption ==
  \A s \in Setups :
    /\ {s.provider, "openai"} \subseteq s.names
    /\ s.judge \in s.names \cup {""}
    /\ \A f \in {s.plugins, s.entry} :
         DOMAIN f \subseteq s.names /\ \A n \in DOMAIN f : f[n] \in Classes
    /\ s.texts \subseteq Texts
    /\ s.calls \in Seq(Nat \ {0})   \* each call has a first piece
    /\ s.early \subseteq DOMAIN s.calls
    /\ s.retries \in Nat /\ s.decideRetries \in Nat /\ s.turns \in Nat
    /\ s.marks \subseteq 0 .. 10

VARIABLES
  su,       \* the setup
  reg,      \* _REGISTRY: the class of each provider name, or Unset
  scanned,  \* _ENTRY_POINTS_DISCOVERED
  main,     \* state.provider
  judge,    \* the instance that evaluated last
  phase,    \* where the run is
  attempt,  \* of _call_with_retry, from 0
  call,     \* the request that is answered
  shown,    \* the text the MessageEvents of this call have shown
  last,     \* state.last_assistant_text
  called,   \* the tool calls of all answers so far
  score,    \* state.validation_score, in tenths
  retried,  \* state.retry_count
  turn      \* main calls begun

callVars == <<su, reg, scanned, main, judge, phase, attempt, call, shown, last, called, score,
              retried, turn>>
registry == <<reg, scanned>>
answer == <<last, called>>
verdict == <<judge, score, retried>>

NoInstance == [name |-> "", class |-> Unset, key |-> <<>>]

\* A request: the text the server writes and how much of it came, how many pieces of
\* each tool call came and how many of them were kept, the calls in the order they
\* began, and the block an Anthropic stream is in.
Fetch(text) ==
  [text |-> text, at |-> 0, p |-> Fresh, came |-> [i \in DOMAIN su.calls |-> 0],
   kept |-> [i \in DOMAIN su.calls |-> 0], begun |-> <<>>, block |-> 0, done |-> FALSE]

--------------------------------------------------------------------------------
(* The registry of providers *)

Builtins == {"anthropic", "openai", "google", "bedrock", "vllm"}
BuiltinClass(n) == IF n = "anthropic" THEN "anthropic" ELSE "openai"

\* _register_defaults: the built-in providers when nothing is registered yet, and the
\* entry points once.
Registered(r, seen) ==
  LET base == IF \A n \in DOMAIN r : r[n] = Unset
                THEN [n \in DOMAIN r |-> IF n \in Builtins THEN BuiltinClass(n) ELSE Unset]
                ELSE r
  IN IF seen THEN base
     ELSE [n \in DOMAIN r |-> IF n \in DOMAIN su.entry THEN su.entry[n] ELSE base[n]]

\* create_provider looks a name up, registering the defaults when it is missing.
Looked(n) == IF reg[n] # Unset THEN reg ELSE Registered(reg, scanned)
ClassOf(n) == IF Looked(n)[n] # Unset THEN Looked(n)[n] ELSE Looked(n)["openai"]

CallInit ==
  /\ su \in Setups
  /\ reg = [n \in su.names |-> Unset] /\ scanned = FALSE
  /\ main = NoInstance /\ judge = NoInstance
  /\ phase = "setup" /\ attempt = 0 /\ call = Fetch(<<>>) /\ shown = <<>>
  /\ last = <<>> /\ called = {} /\ score = None /\ retried = 0 /\ turn = 0

Register ==
  /\ phase = "setup"
  /\ \E n \in DOMAIN su.plugins : reg' = [reg EXCEPT ![n] = su.plugins[n]]
  /\ UNCHANGED <<su, scanned, main, phase, attempt, call, shown, answer, verdict, turn>>

ListProviders ==
  /\ phase = "setup"
  /\ reg' = Registered(reg, scanned) /\ scanned' = TRUE
  /\ UNCHANGED <<su, main, phase, attempt, call, shown, answer, verdict, turn>>

\* The places a key is looked for, in order; the context holds the key of the provider
\* of the run, whatever name is asked for.
Key(n, places) ==
  LET found == {i \in DOMAIN places : <<places[i], n>> \in su.keys}
  IN IF found = {} THEN <<>> ELSE <<places[Min(found)], n>>
KeyPlaces == <<"services", "env", "file">>
MainKey == IF su.contextKey THEN <<"context", su.provider>> ELSE Key(su.provider, KeyPlaces)

\* The key in the context may be another provider's: a judge does not take it.
JudgeKey(n) == Key(n, KeyPlaces)

\* ensure_provider: without a model, a key or a class the call raises.
Ensure ==
  /\ phase = "setup"
  /\ IF su.provider \notin su.models \/ MainKey = <<>>
       THEN phase' = "failed" /\ UNCHANGED <<registry, main>>
       ELSE /\ reg' = Looked(su.provider)
            /\ scanned' = (scanned \/ reg[su.provider] = Unset)
            /\ IF ClassOf(su.provider) = Unset
                 THEN phase' = "failed" /\ UNCHANGED main
                 ELSE /\ phase' = "ready"
                      /\ main' = [name |-> su.provider, class |-> ClassOf(su.provider),
                                  key |-> MainKey]
  /\ UNCHANGED <<su, attempt, call, shown, answer, verdict, turn>>

--------------------------------------------------------------------------------
(* Requests and retries *)

Begin ==
  /\ phase = "ready" /\ turn < su.turns
  /\ phase' = "request" /\ attempt' = 0 /\ shown' = <<>> /\ turn' = turn + 1
  /\ UNCHANGED <<su, registry, main, call, answer, verdict>>

\* The errors a status stands for, and those after which it is tried again.
Statuses == {"rate", "overload", "auth", "server", "bad"}
Recoverable == {"rate", "overload", "server"}

\* An answer with an error status: some are tried again, after a delay.
Refused ==
  /\ phase = "request" /\ main.class # "langchain"
  /\ \E fault \in su.faults \cap Statuses :
       IF fault \in Recoverable /\ attempt < su.retries
         THEN attempt' = attempt + 1 /\ UNCHANGED phase
         ELSE phase' = "failed" /\ UNCHANGED attempt
  /\ UNCHANGED <<su, registry, main, call, shown, answer, verdict, turn>>

Streams == su.stream \/ main.class = "langchain"

Accepted ==
  /\ phase = "request" /\ Streams
  /\ \E text \in su.texts : call' = Fetch(text)
  /\ phase' = "stream"
  /\ UNCHANGED <<su, registry, main, attempt, shown, answer, verdict, turn>>

\* The whole answer at once: its tool calls are not read by the caller.
Whole ==
  /\ phase = "request" /\ ~Streams
  /\ \E text \in su.texts :
       LET kept == IF main.class = "openai" /\ su.calls = <<>> THEN Batch(text).text ELSE text
       IN /\ call' = [Fetch(text) EXCEPT !.done = TRUE,
                                         !.p.out = IF kept = <<>> THEN <<>> ELSE <<Text(kept)>>]
          /\ shown' = shown \o kept
  /\ phase' = "answered"
  /\ UNCHANGED <<su, registry, main, attempt, answer, verdict, turn>>

--------------------------------------------------------------------------------
(* The stream *)

Streaming(class) == phase = "stream" /\ main.class = class

\* The arguments piece k of call i brings, and those of the whole call.
Brings(i, k) == IF k = 1 /\ i \notin su.early THEN 0 ELSE 1
Arguments(i) == su.calls[i] - 1 + Brings(i, 1)

\* The request becomes c: what its parser yields is shown as it is yielded.
Yields(c) ==
  /\ call' = c
  /\ shown' = shown \o TextOf(SubSeq(c.p.out, Len(call.p.out) + 1, Len(c.p.out)))
  /\ UNCHANGED <<su, registry, main, attempt, answer, verdict, turn>>

Emit(c, e) == [c EXCEPT !.p.out = Append(@, e)]

\* The next k symbols of the text arrive.
Content(k) ==
  /\ phase = "stream" /\ ~call.done /\ call.block = 0 /\ call.at + k <= Len(call.text)
  /\ LET c == [call EXCEPT !.at = @ + k]
         chunk == SubSeq(call.text, call.at + 1, call.at + k)
     IN Yields(IF main.class = "openai" THEN [c EXCEPT !.p = Chunk(@, chunk)]
               ELSE Emit(c, Text(chunk)))
  /\ UNCHANGED phase

DeltaMutant(i) ==
  /\ Streaming("openai") /\ ~call.done /\ call.came[i] < su.calls[i]
  /\ Yields(IF call.came[i] = 0
              THEN [call EXCEPT !.came[i] = 1, !.begun = Append(@, i)]
              ELSE [call EXCEPT !.came[i] = @ + 1, !.kept[Last(call.begun)] = @ + 1])
  /\ UNCHANGED phase

\* A piece of call i.  The first one makes the entry, and its arguments are not kept.
Delta(i) ==
  /\ Streaming("openai") /\ ~call.done /\ call.came[i] < su.calls[i]
  /\ Yields(IF call.came[i] = 0
              THEN [call EXCEPT !.came[i] = 1, !.begun = Append(@, i)]
              ELSE [call EXCEPT !.came[i] = @ + 1, !.kept[i] = @ + 1])
  /\ UNCHANGED phase

\* The blocks of an Anthropic stream come one after the other.
BlockStart(i) ==
  /\ Streaming("anthropic") /\ ~call.done /\ call.block = 0
  /\ call.came[i] = 0 /\ \A j \in 1 .. i - 1 : call.came[j] = su.calls[j]
  /\ Yields([call EXCEPT !.block = i, !.came[i] = 1])
  /\ UNCHANGED phase

BlockDelta ==
  /\ Streaming("anthropic") /\ call.block # 0 /\ call.came[call.block] < su.calls[call.block]
  /\ Yields([call EXCEPT !.came[call.block] = @ + 1, !.kept[call.block] = @ + 1])
  /\ UNCHANGED phase

BlockStop ==
  /\ Streaming("anthropic") /\ call.block # 0 /\ call.came[call.block] = su.calls[call.block]
  /\ Yields(Emit([call EXCEPT !.block = 0], Call(call.block, call.kept[call.block])))
  /\ UNCHANGED phase

\* A chunk with a piece of call i is yielded as a call of its own; a piece that LangChain
\* cannot read as a call is not.
ChunkOfCall(i) ==
  /\ Streaming("langchain") /\ ~call.done /\ call.came[i] < su.calls[i]
  /\ LET c == [call EXCEPT !.came[i] = @ + 1]
     IN \/ Yields(Emit(c, Call(i, Brings(i, c.came[i]))))
        \/ su.calls[i] > 1 /\ Yields(c)
  /\ UNCHANGED phase

AllCame == call.at = Len(call.text) /\ call.came = su.calls /\ call.block = 0

Calls(c) == [j \in DOMAIN c.begun |-> Call(c.begun[j], c.kept[c.begun[j]])]

\* The server says why it stops: buffers are emptied, the calls it made are yielded.
Finish ==
  /\ phase = "stream" /\ ~call.done /\ AllCame
  /\ LET p == Finished(call.p)
     IN Yields(IF main.class = "openai"
                 THEN [call EXCEPT !.done = TRUE, !.p = [p EXCEPT !.out = @ \o Calls(call)]]
                 ELSE [call EXCEPT !.done = TRUE])
  /\ UNCHANGED phase

\* The stream is over, after a reason to finish or without one.
StreamEnds ==
  /\ phase = "stream" /\ (call.done \/ "short" \in su.faults)
  /\ phase' = "answered"
  /\ UNCHANGED <<su, registry, main, attempt, call, shown, answer, verdict, turn>>

CutMutant ==
  /\ phase = "stream" /\ "cut" \in su.faults
  /\ IF attempt < su.retries THEN phase' = "request" /\ attempt' = attempt + 1
     ELSE phase' = "failed" /\ UNCHANGED attempt
  /\ UNCHANGED <<su, registry, main, call, shown, answer, verdict, turn>>

\* The connection breaks.  The exception is none of those tried again; LangChain's
\* adapter turns it into an event that the caller does not read.
Cut ==
  /\ phase = "stream" /\ "cut" \in su.faults
  /\ phase' = IF main.class = "langchain" THEN "answered" ELSE "failed"
  /\ UNCHANGED <<su, registry, main, attempt, call, shown, answer, verdict, turn>>

--------------------------------------------------------------------------------
(* The answer and its evaluation *)

ToolCalls(events) == {e \in ToSet(events) : e.kind # "text"}

Answer ==
  /\ phase = "answered"
  /\ last' = IF TextOf(call.p.out) = <<>> THEN last ELSE TextOf(call.p.out)
  /\ called' = called \cup ToolCalls(call.p.out)
  /\ phase' = IF su.judging = "off" THEN "judged" ELSE "judging"
  /\ UNCHANGED <<su, registry, main, attempt, call, shown, verdict, turn>>

\* resolve_judge_provider: the instance that judges, and the registry it leaves.
WantsJudge ==
  /\ ~su.useMain /\ su.judge \notin {"", su.provider}
  /\ su.judgeModel \/ su.judge \in su.models
  /\ JudgeKey(su.judge) # <<>>
JudgeInstance ==
  IF WantsJudge /\ ClassOf(su.judge) # Unset
    THEN [name |-> su.judge, class |-> ClassOf(su.judge), key |-> JudgeKey(su.judge)]
    ELSE main

RuleScores == {3, 5, 6, 7, 8, 10}
FailOpen == 7

JudgeSkipped ==
  /\ phase = "judging" /\ (last = <<>> \/ su.strategy = "none")
  /\ phase' = "judged"
  /\ UNCHANGED <<su, registry, main, attempt, call, shown, answer, verdict, turn>>

\* A registered strategy: the main provider judges, and passes when it cannot.
JudgeByStrategy ==
  /\ phase = "judging" /\ last # <<>> /\ su.strategy \in {"llm_judge", "rule_based"}
  /\ \E s \in IF su.strategy = "llm_judge" THEN su.marks \cup {FailOpen}
              ELSE su.marks \cap RuleScores : score' = s
  /\ judge' = IF su.strategy = "llm_judge" THEN main ELSE judge
  /\ phase' = "judged"
  /\ UNCHANGED <<su, registry, main, attempt, call, shown, answer, retried, turn>>

\* aux_call hands a model on to chat, which takes none.
AuxAnswers == su.useMain \/ ~su.judgeModel

\* Any other name: a judge of its own.  Without a threshold reading its answer raises.
JudgeOfItsOwn ==
  /\ phase = "judging" /\ last # <<>> /\ su.strategy = "other"
  /\ judge' = JudgeInstance
  /\ reg' = IF WantsJudge THEN Looked(su.judge) ELSE reg
  /\ scanned' = (scanned \/ (WantsJudge /\ reg[su.judge] = Unset))
  /\ \/ phase' = "judged" /\ UNCHANGED score     \* the call fails, or its answer is no JSON
     \/ /\ AuxAnswers
        /\ IF su.threshold = None THEN phase' = "failed" /\ UNCHANGED score
           ELSE /\ \E s \in su.marks : score' = s \/ (su.hard /\ score' = 0)
                /\ phase' = "judged"
  /\ UNCHANGED <<su, main, attempt, call, shown, answer, retried, turn>>

\* The decide stage, and the run that counts its retries.  There is no decide strategy of
\* the name "judge_then_loop", and a score cannot be compared with a threshold unset.
Decide ==
  /\ phase = "judged"
  /\ IF su.judging = "picked" \/ (score # None /\ su.threshold = None)
       THEN phase' = "error" /\ UNCHANGED retried
     ELSE IF score # None /\ score < su.threshold /\ retried < su.decideRetries
       THEN /\ retried' = retried + 1
            /\ phase' = IF retried + 1 >= su.decideRetries THEN "complete" ELSE "ready"
     ELSE /\ phase' \in IF score # None /\ score < su.threshold THEN {"complete"}
                        ELSE IF last = <<>> THEN {"ready"}
                        ELSE IF called # {} THEN {"ready", "complete"} ELSE {"complete"}
          /\ UNCHANGED retried
  /\ UNCHANGED <<su, registry, main, attempt, call, shown, answer, judge, score, turn>>

\* The bound of the model on turns, as the loop has one on iterations.
OutOfTurns ==
  /\ phase = "ready" /\ turn = su.turns
  /\ phase' = "complete"
  /\ UNCHANGED <<su, registry, main, attempt, call, shown, answer, verdict, turn>>

CallNext ==
  \/ Register \/ ListProviders \/ Ensure \/ Begin \/ Refused \/ Accepted \/ Whole
  \/ \E k \in 1 .. Len(call.text) : Content(k)
  \/ \E i \in DOMAIN su.calls : Delta(i) \/ BlockStart(i) \/ ChunkOfCall(i)
  \/ BlockDelta \/ BlockStop \/ Finish \/ StreamEnds \/ Cut
  \/ Answer \/ JudgeSkipped \/ JudgeByStrategy \/ JudgeOfItsOwn \/ Decide
  \/ OutOfTurns

CallSpec == CallInit /\ [][CallNext]_callVars

--------------------------------------------------------------------------------
(* Properties *)

\* While an OpenAI stream comes in, what was yielded and what the buffers hold is what
\* the server wrote, in its order: neither a tag split over chunks nor a text held back
\* as the possible beginning of a tag loses or doubles anything.  (openai.py:189-313)
NothingLost ==
  (Streaming("openai") /\ ~call.done) =>
    Written(call.p.out) \o (IF call.p.inside THEN OpenTag \o call.p.tool ELSE call.p.text)
      = SubSeq(call.text, 1, call.at)

\* However the text is cut into chunks, a stream that ends with no call open and no tag
\* left in the buffer yields the text and the calls that the whole text would.
StreamAsBatch ==
  [][(/\ Streaming("openai") /\ ~call.done /\ call'.done
      /\ ~call.p.inside /\ ~Has(call.p.text, OpenTag))
     => /\ TextOf(call'.p.out) = Batch(call.text).text
        /\ NativesOf(call'.p.out) = Batch(call.text).natives]_callVars

\* The calls whose chunks are put together: all of the two providers that stream by
\* themselves, and of LangChain those that come in one chunk, as its adapter yields every
\* chunk by itself.  (langchain_adapter.py:138-155)
Gathered(i) == main.class # "langchain" \/ su.calls[i] = 1

\* The arguments that come with the piece that opens a call: OpenAI's provider makes the
\* entry with empty ones and Anthropic's does not read them.  (openai.py:322-327,
\* anthropic.py:152-157)
Dropped(i) == IF main.class = "langchain" THEN 0 ELSE Brings(i, 1)

\* When the server has said why it stops, each call whose chunks are put together has been
\* yielded once, with all pieces of its own arguments but those dropped at its opening,
\* whatever the order in which the pieces of several calls came.  (openai.py:319-370,
\* anthropic.py:152-191)
CallsWhole ==
  (phase = "answered" /\ call.done /\ Streams) =>
    \A i \in DOMAIN su.calls : Gathered(i) =>
      \E j \in DOMAIN call.p.out :
        /\ call.p.out[j].call = i /\ call.p.out[j].n = Arguments(i) - Dropped(i)
        /\ \A k \in DOMAIN call.p.out : call.p.out[k].call = i => k = j

\* The text shown while the answer came in, over all attempts, is the text of the answer:
\* nothing is tried again once something was shown.
ShownIsAnswered == phase = "answered" => shown = TextOf(call.p.out)
================================================================================
