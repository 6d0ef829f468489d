------------------------------- MODULE Catalog -------------------------------
(***************************************************************************)
(* The tools a run offers the model, and who runs them: the tool-index     *)
(* stage (stages/s04_tool/stage.py) with its discovery strategies          *)
(* (stages/strategies/discovery.py), the table of tool sources             *)
(* (tools/__init__.py), the capabilities bound to a run                    *)
(* (capabilities/materializer.py), the ToolSearch tool (tools/builtin.py)  *)
(* and the dispatch of a call (stages/s07_act/stage.py, _dispatch_tool).   *)
(* The sources and the capabilities belong to the process: other tasks may *)
(* replace them at every await of the stage.                               *)
(***************************************************************************)
EXTENDS Resources

CONSTANTS
  Ids,              \* source ids
  Offers,           \* what other tasks register: records of CapabilityOffer
  Reloads,          \* tool sources other tasks register
  Similar,          \* <<intent, name>>: they share a token (CapabilityMatcher)
  Values, NoValue,  \* values of parameters, and none at all
  Numerals,         \* contents that read as a number
  SearchThreshold,  \* known tools from which search_tools is offered (12)
  MaxChanges,       \* bound: changes other tasks make in one behaviour
  MaxCalls,         \* bound: calls of ToolSearch and of tools
  CatalogSetups     \* configurations of the stage

Builtins == {"discover_tools", "search_tools", "ToolSearch", "fetch_pd", "check_policy",
             "discover_prompt", "Skill", "fetch_synthesize", "keep", "check", "recall",
             "discover_collection", "rag_search", "query_graph"}
StrategyNames == {"discover_tools", "search_tools", "ToolSearch", "fetch_pd"}
AlwaysOffered == {"fetch_pd", "check_policy", "discover_prompt", "Skill", "fetch_synthesize"}
RecallTools == {"keep", "check", "recall"}
Offerable == Tools \cup Builtins

\* A tool source: what has_tool() knows, what list_tools() returns under the
\* filters of the run, and which of that is tagged builtin, pd or system.
SourceObjects == [id : Ids, has : SUBSET Tools, lists : SUBSET Tools, meta : SUBSET Tools]
CapabilityOffer == [name : Names, spec : Specs]

CatalogSetup ==
  [strategy  : {"none", "progressive_3level", "eager_load"},
   mode      : {"strict", "eager_all", "deferred_default"},
   everyone  : SUBSET (SUBSET Tools),  \* selected_tools as a list: {it}, or {}
   perSource : UNION {[s -> SUBSET Tools] : s \in SUBSET Ids},   \* or as a dict
   builtins  : SUBSET Builtins, rag : BOOLEAN, graph : BOOLEAN,
   declared  : SUBSET Names, intent : Names \cup {NoName}, topK : Nat,
   wired     : BOOLEAN,                \* the host hands the resources to the run
   global    : Seq(SourceObjects),     \* register_tool_source() before the run
   nested    : Seq(SourceObjects)]     \* state.extra_tool_sources

ASSUME CatalogAssumption ==
  /\ Offers \subseteq CapabilityOffer /\ \A o \in Offers : o.spec.tool \in Tools
  /\ Reloads \subseteq SourceObjects
  /\ NoValue \notin Values
  /\ {SearchThreshold, MaxChanges, MaxCalls} \subseteq Nat
  /\ CatalogSetups \subseteq CatalogSetup
  /\ \A o \in Reloads : o.lists \subseteq o.has
  /\ \A s \in CatalogSetups :
       /\ \A i \in DOMAIN s.global : s.global[i].lists \subseteq s.global[i].has
       /\ \A i \in DOMAIN s.nested : s.nested[i].lists \subseteq s.nested[i].has

VARIABLES
  setup,      \* the configuration of this behaviour
  sources,    \* _TOOL_SOURCES
  pc,         \* how far the stage is
  todo,       \* sources still to be listed
  defs,       \* name -> entries of state.tool_definitions under it
  origin,     \* name -> where its definition came from
  schemas,    \* state.tool_schemas: name -> where it came from
  deferred,   \* state.deferred_tools
  sourceOf,   \* state.metadata["tool_source_of"]
  registry,   \* state.metadata["tool_registry"]: name -> instance
  bindings,   \* state.metadata["capability_bindings"]: capability -> tool
  loaded,     \* state.tool.loaded_names
  call,       \* the call being made: its tool, arguments and what is missing
  repeated,   \* history: names one ToolSearch call asked for twice
  replaced,   \* history: ids whose source was replaced during the run
  changes, calls
stageVars == <<pc, todo, defs, origin, schemas, deferred, sourceOf, registry, bindings>>
runVars == <<stageVars, loaded, call, repeated>>
bookVars == <<changes, calls>>
catalogVars == <<capVars, resVars, setup, sources, runVars, replaced, bookVars>>

NoCall == [tool |-> NoName, params |-> <<>>, given |-> <<>>, args |-> <<>>, missing |-> {}]

\* Where a definition came from and who runs a tool: the resource registry, the capability
\* of a name, the source of an id, or an instance of the stage.
Resource == <<"resource", "registry">>
Capability(n) == <<"capability", n>>
Source(id) == <<"source", id>>
Builtin == <<"builtin", "stage">>
Nobody == <<"nobody", "none">>

CatalogInit ==
  /\ CapInit /\ ResInit
  /\ setup \in CatalogSetups
  /\ sources = setup.global
  /\ pc = "idle" /\ todo = <<>>
  /\ defs = [t \in Offerable |-> 0]
  /\ origin = [t \in {} |-> t] /\ schemas = [t \in {} |-> t]
  /\ deferred = {} /\ sourceOf = [t \in {} |-> t]
  /\ registry = [t \in {} |-> t] /\ bindings = [c \in {} |-> c]
  /\ loaded = {} /\ call = NoCall /\ repeated = {} /\ replaced = {}
  /\ changes = 0 /\ calls = 0

Offered == {t \in Offerable : defs[t] > 0}
Put(f, g) == [x \in DOMAIN f \cup DOMAIN g |-> IF x \in DOMAIN g THEN g[x] ELSE f[x]]
Define(S) == [t \in Offerable |-> IF t \in S THEN defs[t] + 1 ELSE defs[t]]

(***************************************************************************)
(* The stage is entered: skipped when nothing of the configuration calls   *)
(* for it, or when its strategy is "none".                                 *)
(***************************************************************************)
Bypassed ==
  /\ ~\E t \in Tools : setup.wired /\ definitions[t] > 0
  /\ ~setup.rag /\ sources = <<>> /\ setup.declared = {} /\ setup.builtins = {}

Enter ==
  /\ loading = "loaded" /\ pc = "idle"
  /\ pc' = IF Bypassed \/ setup.strategy = "none" THEN "skipped" ELSE "bind"
  /\ defs' = [t \in Offerable |-> IF t \in Tools /\ setup.wired THEN definitions[t] ELSE 0]
  /\ origin' = [t \in {u \in Tools : setup.wired /\ definitions[u] > 0} |-> Resource]
  /\ UNCHANGED <<capVars, resVars, setup, sources, todo, schemas, deferred, sourceOf, registry,
                 bindings, loaded, call, repeated, replaced, bookVars>>

\* materialize_capabilities and merge_into_state: a name that is unknown, has no
\* factory or whose factory fails is left out.  The instance is registered in
\* any case, the definition added only when the name is free.
Materialize(names) ==
  LET resolved == {n \in names : Lookup(n) # NoName /\ caps[Lookup(n)].factory = "tool"}
      toolOf(n) == caps[Lookup(n)].tool
      made == {toolOf(n) : n \in resolved}
  IN \E last \in [made -> resolved] :
       /\ \A t \in made : toolOf(last[t]) = t
       /\ registry' = Put(registry, [t \in made |-> Capability(last[t])])
       /\ bindings' = Put(bindings, [n \in resolved |-> toolOf(n)])
       /\ defs' = Define(made \ Offered)
       /\ origin' = Put(origin, [t \in made \ Offered |-> Capability(last[t])])

Bind ==
  /\ pc = "bind" /\ pc' = "discover"
  /\ Materialize(setup.declared)
  /\ UNCHANGED <<capVars, resVars, setup, sources, todo, schemas, deferred, sourceOf,
                 loaded, call, repeated, replaced, bookVars>>

\* _discover_and_bind_capabilities: of the 2 * top_k best matches the first top_k
\* that are neither bound nor declared; then the sources to list are collected.
Suggested ==
  {top \ (DOMAIN bindings \cup setup.declared) :
     top \in Matches(setup.intent, Similar, 2 * setup.topK)}

Discover ==
  /\ pc = "discover" /\ pc' = "list"
  /\ todo' = sources \o setup.nested
  /\ IF setup.intent = NoName THEN UNCHANGED <<registry, bindings, defs, origin>>
     ELSE \E fresh \in Suggested : \E names \in SUBSET fresh :
            /\ Cardinality(names) = IF Cardinality(fresh) < setup.topK
                                    THEN Cardinality(fresh) ELSE setup.topK
            /\ Materialize(names)
  /\ UNCHANGED <<capVars, resVars, setup, sources, schemas, deferred, sourceOf,
                 loaded, call, repeated, replaced, bookVars>>

(***************************************************************************)
(* One awaited list_tools().  A source with an empty whitelist is left out; *)
(* one that fails is skipped; a name that is taken belongs to whoever came  *)
(* first.  With a selection its tools are eager and the others deferred;    *)
(* without one the process-wide mode decides.                               *)
(***************************************************************************)
Explicit == setup.everyone # {} \/ DOMAIN setup.perSource # {}

Allowed(s) == (UNION setup.everyone)
              \cup (IF s \in DOMAIN setup.perSource THEN setup.perSource[s] ELSE {})

Disabled(s) == s \in DOMAIN setup.perSource /\ setup.perSource[s] = {}

Listed(o) ==
  LET new == o.lists \ (Offered \cup deferred)
  IN IF ~Explicit /\ setup.mode = "strict" THEN new \cap o.meta ELSE new

Eager(o) ==
  Listed(o) \cap (IF Explicit THEN Allowed(o.id)
                  ELSE IF setup.mode = "deferred_default" THEN {} ELSE Tools)

ListSource ==
  /\ pc = "list" /\ todo # <<>>
  /\ todo' = Tail(todo)
  /\ LET o == Head(todo) IN
     \E fails \in BOOLEAN :
       LET got == IF fails \/ Disabled(o.id) THEN {} ELSE Listed(o)
           eager == got \cap Eager(o)
       IN /\ schemas' = Put(schemas, [t \in got |-> Source(o.id)])
          /\ sourceOf' = Put(sourceOf, [t \in got |-> o.id])
          /\ defs' = Define(eager)
          /\ origin' = Put(origin, [t \in eager |-> Source(o.id)])
          /\ deferred' = deferred \cup (got \ eager)
  /\ UNCHANGED <<capVars, resVars, setup, sources, pc, registry, bindings,
                 loaded, call, repeated, replaced, bookVars>>

(***************************************************************************)
(* The strategy and the built-in tools, whose names a resource, a           *)
(* capability or a source may have brought in already.  progressive_3level  *)
(* adds its tools without a look at the names; eager_load gives back all    *)
(* that was deferred.  No discover_tools stays unless it is selected; five  *)
(* tools are offered always, the recall tools on request, the retrieval     *)
(* tools with their collections, each only under a name that is free.       *)
(***************************************************************************)
KnownEntries ==
  IF DOMAIN schemas = {} THEN UNION {{t} \X (1 .. defs[t]) : t \in Offered} ELSE DOMAIN schemas

StrategyTools ==
  {"discover_tools", "fetch_pd"}
  \cup (IF deferred # {} THEN {"ToolSearch"} ELSE {})
  \cup (IF Cardinality(KnownEntries) >= SearchThreshold THEN {"search_tools"} ELSE {})

\* What eager_load gives back.
GivenBack == {t \in deferred : t \notin Offered /\ t \in DOMAIN schemas}

Requested ==
  (AlwaysOffered \cup (RecallTools \cap setup.builtins))
  \cup (IF setup.rag THEN {"discover_collection", "rag_search"} ELSE {})
  \cup (IF setup.graph THEN {"query_graph"} ELSE {})

Index ==
  /\ pc = "list" /\ todo = <<>> /\ pc' = "ready"
  /\ LET progressive == setup.strategy = "progressive_3level"
         added == IF progressive THEN StrategyTools ELSE GivenBack
         dropped == {"discover_tools"} \ setup.builtins
         asked == Requested \ (Offered \cup added)
         built == IF progressive THEN asked \cup added ELSE asked
     IN /\ defs' = [t \in Offerable |->
                      IF t \in dropped THEN 0
                      ELSE defs[t] + IF t \in added \cup asked THEN 1 ELSE 0]
        /\ origin' = Put(Put(origin, [t \in built \ Offered |-> Builtin]),
                         [t \in added \ built |-> schemas[t]])
        /\ registry' = Put(registry, [t \in built |-> Builtin])
        /\ schemas' = IF progressive /\ DOMAIN schemas = {}
                      THEN [t \in Offered |-> origin[t]] ELSE schemas
        /\ deferred' = IF progressive THEN deferred ELSE {}
        /\ loaded' = IF progressive THEN loaded ELSE loaded \cup added
  /\ UNCHANGED <<capVars, resVars, setup, sources, todo, sourceOf, bindings,
                 call, repeated, replaced, bookVars>>

(***************************************************************************)
(* Who runs a tool that is called: for the two discovery tools and          *)
(* rag_search the instance registered by that name or, where there is none, *)
(* the stage itself (rag_search: if there are collections); for any other   *)
(* name the resource registry, the sources (those of the nested run first)  *)
(* and at last the instance registered by that name.                        *)
(***************************************************************************)
Instance(t) == IF t \in DOMAIN registry THEN registry[t] ELSE Nobody

RunnerMutant(t) ==
  IF t = "discover_tools" \/ (t = "search_tools" /\ Instance(t) = Nobody) THEN Builtin
  ELSE IF \E i \in DOMAIN sources : t \in sources[i].has THEN Source("any")
  ELSE Instance(t)
Runner(t) ==
  LET all == setup.nested \o sources
      having == {i \in DOMAIN all : t \in all[i].has}
  IN IF t = "discover_tools" THEN Builtin
     ELSE IF t \in {"search_tools", "rag_search"}
     THEN IF t \in DOMAIN registry \/ (t = "rag_search" /\ ~setup.rag) THEN Instance(t)
          ELSE Builtin
     ELSE IF setup.wired /\ CanExecute(t) THEN Resource
     ELSE IF having # {}
     THEN Source(all[CHOOSE i \in having : \A j \in having : i <= j].id)
     ELSE Instance(t)

\* ToolSearch, where the built-in one answers: the names that are known and not yet
\* defined, one definition for every time the call lists them.
Promote(times) ==
  [t \in Offerable |-> IF t \in DOMAIN schemas /\ defs[t] = 0 THEN times[t] ELSE defs[t]]

ToolSearch ==
  /\ pc = "ready" /\ defs["ToolSearch"] > 0 /\ Runner("ToolSearch") = Builtin
  /\ calls < MaxCalls
  /\ \E times \in [DOMAIN schemas -> 0..2] :
       LET fresh == {t \in DOMAIN schemas : times[t] > 0 /\ defs[t] = 0}
       IN /\ \E t \in DOMAIN schemas : times[t] > 0
          /\ defs' = Promote(times)
          /\ origin' = Put(origin, [t \in fresh |-> schemas[t]])
          /\ loaded' = loaded \cup fresh
          /\ repeated' = repeated \cup {t \in fresh : times[t] > 1}
  /\ calls' = calls + 1
  /\ UNCHANGED <<capVars, resVars, setup, sources, pc, todo, schemas, deferred, sourceOf,
                 registry, bindings, call, replaced, changes>>

(***************************************************************************)
(* ParameterResolver.resolve() (capabilities/parameter_resolver.py): for    *)
(* every parameter the value given, else what its hint finds in the state,  *)
(* else its default, converted to the parameter's type; a value outside its *)
(* enumeration is dropped.  A value is [type, of : content].                *)
(***************************************************************************)
FoundMutant(schema, given, hinted) ==
  [p \in DOMAIN schema |->
     IF hinted[p] # NoValue THEN hinted[p]
     ELSE IF p \in DOMAIN given THEN given[p] ELSE schema[p].default]
Found(schema, given, hinted) ==
  [p \in DOMAIN schema |->
     IF p \in DOMAIN given THEN given[p]
     ELSE IF hinted[p] # NoValue THEN hinted[p] ELSE schema[p].default]

InEnum(param, v) == param.enum = {} \/ v \in param.enum

\* _coerce: the content in the parameter's type; what is no number stays as it is.
Coerced(param, v) ==
  IF param.type \in {"int", "float"} /\ (v.type \in {"list", "dict"} \/ v.of \notin Numerals)
  THEN v
  ELSE [v EXCEPT !.type = param.type]

Resolved(schema, given, hinted) ==
  LET found == Found(schema, given, hinted)
      there == {p \in DOMAIN schema : found[p] # NoValue}
      args == [p \in there |-> Coerced(schema[p], found[p])]
  IN [p \in {q \in there : InEnum(schema[q], args[q])} |-> args[p]]

Missing(schema, args) == {p \in DOMAIN schema : schema[p].required} \ DOMAIN args

\* _enrich_with_capability: one of the capabilities bound to the tool, if it is still
\* registered and has parameters; the arguments of the model when none is left.
BoundParams(t) ==
  LET bound == {c \in DOMAIN bindings : bindings[c] = t}
  IN IF bound = {} THEN {<<>>}
     ELSE {IF Lookup(c) = NoName THEN <<>> ELSE caps[Lookup(c)].params : c \in bound}

\* A call of any tool but the built-in ToolSearch, which is an action of its own.
Call ==
  /\ pc = "ready" /\ calls < MaxCalls /\ calls' = calls + 1
  /\ \E t \in Tools \cap Offered, S \in Schemas :
     \E given \in UNION {[P -> Values] : P \in SUBSET DOMAIN S} :
     \E params \in BoundParams(t) :
     \E hinted \in [DOMAIN params -> Values \cup {NoValue}] :
       LET args == Resolved(params, given, hinted)
       IN /\ t = "ToolSearch" => Runner(t) # Builtin
          /\ call' = [tool |-> t, params |-> params, given |-> given,
                      args |-> IF DOMAIN args = {} THEN given ELSE args,
                      missing |-> Missing(params, args)]
  /\ UNCHANGED <<capVars, resVars, setup, sources, stageVars, loaded, repeated, replaced,
                 changes>>

(***************************************************************************)
(* Other tasks of the process: register_tool_source(), which replaces the   *)
(* source of the same id, and the capability registry.                      *)
(***************************************************************************)
RegisterSource ==
  /\ \E o \in Reloads :
       LET same == {i \in DOMAIN sources : sources[i].id = o.id}
       IN IF same = {} THEN /\ sources' = Append(sources, o)
                            /\ UNCHANGED replaced
          ELSE /\ sources' = [sources EXCEPT ![CHOOSE i \in same : \A j \in same : i <= j] = o]
               /\ replaced' = replaced \cup {o.id}
  /\ UNCHANGED capVars

ChangeCapabilities ==
  /\ \/ \E o \in Offers, overwrite \in BOOLEAN : Register(o.name, o.spec, overwrite)
     \/ \E n \in DOMAIN caps : Unregister(n)
  /\ UNCHANGED <<sources, replaced>>

Others ==
  /\ changes < MaxChanges /\ changes' = changes + 1
  /\ RegisterSource \/ ChangeCapabilities
  /\ UNCHANGED <<resVars, setup, runVars, calls>>

Load == ResNext /\ UNCHANGED <<setup, sources, runVars, replaced, bookVars>>

CatalogNext ==
  \/ Load \/ Enter \/ Bind \/ Discover \/ ListSource \/ Index
  \/ ToolSearch \/ Call \/ Others

CatalogSpec == CatalogInit /\ [][CatalogNext]_catalogVars
----------------------------------------------------------------------------
\* A tool the model is offered has somebody who runs it, however its definition
\* came in (a resource, a capability, a source, a strategy, ToolSearch), unless
\* its source has been replaced in the meantime, or it is a rag_search of a resource
\* or a source in a run without collections: the stage takes every call of that name.
OfferedRuns ==
  pc = "ready" =>
    \A t \in Offered :
      \/ Runner(t) # Nobody
      \/ \E s \in replaced : origin[t] = Source(s)
      \/ t = "rag_search" /\ ~setup.rag /\ origin[t] \in {Resource} \cup {Source(s) : s \in Ids}

\* Two MCP sessions that are loaded over the legacy path have the name.
SharedBySessions(t) ==
  /\ setup.wired /\ ~res.service
  /\ \E i, j \in DOMAIN res.batches :
       /\ i # j /\ res.batches[i].kind = "mcp_tool" /\ res.batches[j].kind = "mcp_tool"
       /\ t \in res.batches[i].tools \cap res.batches[j].tools

\* A name is defined to the model once, whichever of the ways it comes in by; the
\* exceptions are names two sessions of the legacy MCP path share, names that one
\* ToolSearch call repeats, and the four names that progressive_3level defines once
\* more where they came in from elsewhere before it.
OneDefinition ==
  \A t \in Offered :
    \/ defs[t] = 1
    \/ SharedBySessions(t) \/ t \in repeated
    \/ /\ setup.strategy = "progressive_3level" /\ t \in StrategyNames
       /\ origin[t] # Builtin /\ defs[t] = 2

\* The arguments a call is made with: a value the model gave for a parameter of the
\* capability arrives, in the parameter's type if it has one there, unless the
\* enumeration excludes it, and a required parameter without a value is reported.
CallsResolved ==
  LET S == call.params IN
  /\ \A p \in DOMAIN S \cap DOMAIN call.given :
       LET value == Coerced(S[p], call.given[p])
       IN InEnum(S[p], value) => p \in DOMAIN call.args /\ call.args[p] = value
  /\ \A p \in DOMAIN S : S[p].required => p \in DOMAIN call.args \/ p \in call.missing
=============================================================================
