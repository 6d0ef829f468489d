----------------------------- MODULE MCCatalog -----------------------------
(***************************************************************************)
(* Setups on which TLC checks module Catalog.                              *)
(***************************************************************************)
EXTENDS Catalog

CONSTANTS a, b, capA, capB, mcp, other, none, v, w, noValue

\* Tools of the host, and four that bear names of the stage's own.
MetaTools == {"discover_tools", "ToolSearch", "fetch_pd", "rag_search"}
MCTools == {a, b} \cup MetaTools
MCNames == MCTools \cup {capA, capB}
MCLabels == {"mcp_tool", "api_tool", "db_tool", "gallery_tool", "retrieval", "rag"}
MCCapName(k, x) == IF x = a THEN capA ELSE capB
MCRagTool(c) == b

\* A parameter with an enumeration and a number that must be there; v reads as one.
MCValues == {[type |-> "str", of |-> v], [type |-> "int", of |-> v], [type |-> "str", of |-> w]}
Parameters ==
  [q |-> [type |-> "str", enum |-> {[type |-> "str", of |-> v]}, required |-> FALSE,
          default |-> noValue],
   r |-> [type |-> "int", enum |-> {}, required |-> TRUE, default |-> noValue]]
MCSchemas == {<<>>, Parameters}
MCSchemaOf(x) == Parameters

\* Nothing to load; two sessions that share a tool, over the legacy path; two over
\* the service and a package, published as capabilities with a collection; a session
\* and a node with names of the stage's own.
Unloaded == [service |-> TRUE, batches |-> <<>>, selected |-> {}, stored |-> {},
             publish |-> FALSE]
Session(k, f, S) == [kind |-> k, from |-> f, tools |-> S]
Sessions(S, T) == <<Session("mcp_tool", "s1", S), Session("mcp_tool", "s2", T)>>
Legacy == [Unloaded EXCEPT !.service = FALSE, !.batches = Sessions({a}, {a, b})]
Published == [Unloaded EXCEPT
  !.batches = Sessions({a}, {a}) \o <<Session("gallery_tool", "g", {a})>>,
  !.selected = {b}, !.publish = TRUE]
Named == [Unloaded EXCEPT
  !.service = FALSE,
  !.batches = <<Session("mcp_tool", "s1", {"fetch_pd"}), Session("api_tool", "n1", {"rag_search"})>>]
MCResourceSetups == {Unloaded, Legacy, Published, Named}

ToolSource(i, S, M) == [id |-> i, has |-> S, lists |-> S, meta |-> M]
Meta(i, S) == ToolSource(i, S, S)
Both == <<ToolSource(mcp, {a}, {}), ToolSource(other, {a, b}, {b})>>

MCOffer(n, t) == [name |-> n,
  spec |-> [labels |-> {"rag"}, aliases |-> {b}, factory |-> "tool", tool |-> t, params |-> <<>>]]
MCOffers == {MCOffer(capA, b), MCOffer(capB, b)}
MCReloads == {ToolSource(mcp, {b}, {})}
MCSimilar == {<<a, capB>>}

Base == [strategy |-> "progressive_3level", mode |-> "strict", everyone |-> {},
         perSource |-> <<>>, builtins |-> {"discover_tools"}, rag |-> FALSE, graph |-> FALSE,
         declared |-> {}, intent |-> none, topK |-> 1, wired |-> FALSE,
         global |-> Both, nested |-> <<>>]

MCCatalogSetups == {
  [Base EXCEPT !.everyone = {{a}}],
  [Base EXCEPT !.perSource = [s \in {mcp} |-> {}], !.builtins = {"discover_tools", "recall"}],
  [Base EXCEPT !.mode = "deferred_default", !.rag = TRUE],
  [Base EXCEPT !.mode = "eager_all", !.strategy = "eager_load", !.graph = TRUE],
  [Base EXCEPT !.everyone = {{b}}, !.strategy = "eager_load"],
  [Base EXCEPT !.global = <<>>, !.nested = <<ToolSource(other, {a, b}, {a})>>, !.rag = TRUE,
               !.builtins = {}],
  [Base EXCEPT !.strategy = "none"],
  [Base EXCEPT !.wired = TRUE, !.declared = {capA, b}, !.intent = a],
  [Base EXCEPT !.global = <<Meta(mcp, {"fetch_pd", "rag_search"})>>, !.wired = TRUE],
  [Base EXCEPT !.global = <<Meta(mcp, {"discover_tools", "rag_search"})>>, !.rag = TRUE,
               !.builtins = {}],
  [Base EXCEPT !.mode = "deferred_default",
               !.global = <<Meta(mcp, {"discover_tools", "fetch_pd"})>>, !.builtins = {}],
  [Base EXCEPT !.everyone = {{"ToolSearch"}},
               !.global = <<Meta(mcp, {"ToolSearch"}), ToolSource(other, {a}, {})>>],
  [Base EXCEPT !.everyone = {{"fetch_pd"}}, !.strategy = "eager_load",
               !.global = <<Meta(mcp, {"ToolSearch", "fetch_pd", "discover_tools"})>>]}
=============================================================================
