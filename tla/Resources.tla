------------------------------ MODULE Resources ------------------------------
(***************************************************************************)
(* The resource registry of xgen_harness/adapters/resource_registry.py: it  *)
(* loads the tools of MCP sessions, of workflow nodes (node_adapters.py) and *)
(* of gallery packages (tools/gallery.py), each under its name, and the     *)
(* document collections, and may publish them all as capabilities.          *)
(***************************************************************************)
EXTENDS Capabilities, Sequences

CONSTANTS
  Tools,            \* names of tools, a subset of Names
  Collections,      \* names of document collections
  CapName(_, _),    \* kind, name -> name of the capability published for it
  RagTool(_),       \* collection -> name of its rag_search_<collection> tool
  SchemaOf(_),      \* tool or collection -> its parameters (_schema_to_param_specs)
  ResourceSetups    \* what there is to load

ToolKinds == {"mcp_tool", "api_tool", "db_tool", "gallery_tool"}

\* What load_all() finds: the MCP sessions, nodes and packages in the order it
\* takes them (sessions first), each with its tools, and the collections.
ResourceSetup ==
  [service  : BOOLEAN,                \* the host provides an MCP service
   batches  : Seq([kind : ToolKinds, from : STRING, tools : SUBSET Tools]),
   selected : SUBSET Collections,     \* rag_collections of the configuration
   stored   : SUBSET Collections,     \* what the documents service lists
   publish  : BOOLEAN]                \* publish_capabilities() is called

ASSUME ResourceAssumption ==
  /\ Tools \subseteq Names
  /\ ResourceSetups \subseteq ResourceSetup
  /\ \A r \in ResourceSetups : \A i, j \in DOMAIN r.batches :
       i < j /\ r.batches[j].kind = "mcp_tool" => r.batches[i].kind = "mcp_tool"
  /\ \A k \in ToolKinds, t \in Tools : CapName(k, t) \in Names
  /\ \A c \in Collections :
       CapName("rag", c) \in Names /\ RagTool(c) \in Tools /\ c \in Names
  /\ \A x \in Tools \cup Collections : SchemaOf(x) \in Schemas
  /\ ToolKinds \cup {"retrieval", "rag"} \subseteq Labels

VARIABLES
  res,           \* the setup of this behaviour
  loading,       \* how far load_all() and publish_capabilities() are
  batches,       \* what is still to be loaded
  definitions,   \* tool -> how many entries _tool_defs has under that name
  executors,     \* _tool_executors
  infos,         \* what the newest entry of _tool_infos says of a name
  collections,   \* names in _rag_collections
  toPublish      \* what is still to be registered as a capability
resVars == <<res, loading, batches, definitions, executors, infos, collections, toPublish>>

ResInit ==
  /\ res \in ResourceSetups
  /\ loading = "tools"
  /\ batches = res.batches
  /\ definitions = [t \in Tools |-> 0]
  /\ executors = [t \in {} |-> t]
  /\ infos = [t \in {} |-> t]
  /\ collections = {}
  /\ toPublish = {}

\* The loaders skip a name that is taken, all but the legacy MCP path, which
\* defines it once more and replaces its executor.
TakenMutant(batch) == batch.tools
Taken(batch) ==
  IF batch.kind = "mcp_tool" /\ ~res.service THEN batch.tools
  ELSE batch.tools \ DOMAIN executors

\* The tools of the first batch that come in, each replacing its namesake.
LoadTools(tools) ==
  LET made == [kind |-> Head(batches).kind, from |-> Head(batches).from]
      put(f) == [t \in DOMAIN f \cup tools |-> IF t \in tools THEN made ELSE f[t]]
  IN /\ batches' = Tail(batches)
     /\ definitions' = [t \in Tools |-> IF t \in tools THEN definitions[t] + 1
                                        ELSE definitions[t]]
     /\ executors' = put(executors)
     /\ infos' = put(infos)
     /\ UNCHANGED <<res, loading, collections, toPublish, capVars>>

NextIs(kinds) == loading = "tools" /\ batches # <<>> /\ Head(batches).kind \in kinds

\* _load_mcp_tools: one session; a listing that fails is skipped.
LoadSession ==
  /\ NextIs({"mcp_tool"})
  /\ \E tools \in {Taken(Head(batches)), {}} : LoadTools(tools)

\* _load_api_tools: one node of the workflow, for which its adapter builds one tool;
\* an adapter that fails or a node without an address is skipped.
LoadNode ==
  /\ NextIs({"api_tool", "db_tool"})
  /\ \E tools \in {Taken(Head(batches)), {}} : LoadTools(tools)

\* _load_gallery_tools: one package; one that cannot be imported has no tools, and
\* of those it declares a tool that cannot be built is left out.
LoadPackage ==
  /\ NextIs({"gallery_tool"})
  /\ \E tools \in SUBSET Taken(Head(batches)) : LoadTools(tools)

\* _load_rag_collections: the selected ones, whatever the service answers; all
\* that it lists only when none is selected.  It is the end of load_all().
LoadCollections ==
  /\ loading = "tools" /\ batches = <<>>
  /\ \E listed \in {res.stored, {}} :
       /\ collections' = IF res.selected # {} THEN res.selected ELSE listed
       /\ toPublish' = IF ~res.publish THEN {}
                       ELSE {<<infos[t].kind, t>> : t \in DOMAIN infos}
                            \cup {<<"rag", c>> : c \in collections'}
  /\ loading' = IF res.publish THEN "publish" ELSE "loaded"
  /\ UNCHANGED <<res, batches, definitions, executors, infos, capVars>>

\* publish_capabilities(): a tool under kind.name with its name as an alias, a
\* collection under retrieval.rag_<name>, in any order; an older registration is
\* overwritten.
PublishedSpec(kind, x) ==
  [labels  |-> IF kind = "rag" THEN {"retrieval", "rag"} ELSE {kind},
   aliases |-> {x},
   factory |-> "tool",
   tool    |-> IF kind = "rag" THEN RagTool(x) ELSE x,
   params  |-> SchemaOf(x)]

Publish ==
  /\ loading = "publish"
  /\ \/ \E p \in toPublish :
          /\ Register(CapName(p[1], p[2]), PublishedSpec(p[1], p[2]), TRUE)
          /\ toPublish' = toPublish \ {p}
          /\ UNCHANGED loading
     \/ /\ toPublish = {}
        /\ loading' = "loaded"
        /\ UNCHANGED <<toPublish, capVars>>
  /\ UNCHANGED <<res, batches, definitions, executors, infos, collections>>

ResNext == LoadSession \/ LoadNode \/ LoadPackage \/ LoadCollections \/ Publish

\* execute_tool(): the executor of the name, of whichever kind, or an error text.
CanExecute(t) == t \in DOMAIN executors
=============================================================================
