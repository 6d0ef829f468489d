---------------------------- MODULE Capabilities ----------------------------
(***************************************************************************)
(* The capability registry of xgen_harness/capabilities/registry.py: one   *)
(* table of specifications by name, and the indexes kept beside it, by     *)
(* label (the category, the tags and the kind of provider, each index of   *)
(* the code holding labels of its own) and by alias.  Every method holds    *)
(* the registry's lock, so that it is one action.                          *)
(***************************************************************************)
EXTENDS Naturals, FiniteSets

CONSTANTS
  Names,     \* names of capabilities and of tools, and aliases (lower case)
  Labels,    \* categories, tags and provider kinds
  Schemas,   \* the parameter lists of specifications
  NoName     \* what get() returns for a name it does not know

ASSUME CapabilityAssumption == NoName \notin Names

\* A CapabilitySpec: its labels and aliases, what its tool_factory does when it
\* is called, and the name of the tool that comes out of it.
Factories == {"none", "raises", "tool"}
Specs == [labels : SUBSET Labels, aliases : SUBSET Names,
          factory : Factories, tool : Names, params : Schemas]

VARIABLES
  caps,      \* _by_name
  byLabel,   \* _by_category, _by_tag and _by_provider
  byAlias    \* _by_alias
capVars == <<caps, byLabel, byAlias>>

CapInit ==
  /\ caps = [n \in {} |-> n]
  /\ byLabel = [l \in Labels |-> {}]
  /\ byAlias = [a \in {} |-> a]

\* _remove_from_indexes: the name leaves the labels of its specification, and
\* an alias goes only while it still leads to that name.
UnindexedLabels(n) ==
  [l \in Labels |-> IF l \in caps[n].labels THEN byLabel[l] \ {n} ELSE byLabel[l]]

UnindexedAliases(n) ==
  [a \in {x \in DOMAIN byAlias : x \in caps[n].aliases => byAlias[x] # n} |-> byAlias[a]]

\* register(): an unknown name, or a known one with overwrite=True, whose old
\* entries go first.  An alias of another capability is taken over.
Register(n, spec, overwrite) ==
  /\ n \in DOMAIN caps => overwrite
  /\ LET labels  == IF n \in DOMAIN caps THEN UnindexedLabels(n) ELSE byLabel
         aliases == IF n \in DOMAIN caps THEN UnindexedAliases(n) ELSE byAlias
     IN /\ caps' = [x \in DOMAIN caps \cup {n} |-> IF x = n THEN spec ELSE caps[x]]
        /\ byLabel' = [l \in Labels |->
                         IF l \in spec.labels THEN labels[l] \cup {n} ELSE labels[l]]
        /\ byAlias' = [a \in DOMAIN aliases \cup spec.aliases |->
                         IF a \in spec.aliases THEN n ELSE aliases[a]]

Unregister(n) ==
  /\ n \in DOMAIN caps
  /\ caps' = [x \in DOMAIN caps \ {n} |-> caps[x]]
  /\ byLabel' = UnindexedLabels(n)
  /\ byAlias' = UnindexedAliases(n)

\* get(): the name itself comes before an alias.
Lookup(x) ==
  IF x \in DOMAIN caps THEN x
  ELSE IF x \in DOMAIN byAlias /\ byAlias[x] \in DOMAIN caps THEN byAlias[x]
  ELSE NoName

\* find_by_category, find_by_tag, find_by_provider
WithLabel(l) == byLabel[l] \cap DOMAIN caps

(***************************************************************************)
(* CapabilityMatcher.match() and _finalize(): the lists an intent, a word   *)
(* of the user, may get.  The name or alias and the labels it equals come   *)
(* first; unless they fill the limit, the specifications that share a token *)
(* with it follow.  The scores that order them are abstracted: as many      *)
(* candidates as the limit allows, whichever they are.                      *)
(***************************************************************************)
ExactMatches(intent) ==
  ({Lookup(intent)} \ {NoName})
  \cup (IF intent \in Labels THEN WithLabel(intent) ELSE {})

KeywordMatches(intent, similar) == {n \in DOMAIN caps : <<intent, n>> \in similar}

Finalized(candidates, limit) ==
  LET length == IF Cardinality(candidates) < limit THEN Cardinality(candidates) ELSE limit
  IN {S \in SUBSET candidates : Cardinality(S) = length}

Matches(intent, similar, limit) ==
  LET exact == ExactMatches(intent)
  IN Finalized(IF exact # {} /\ Cardinality(exact) >= limit THEN exact
               ELSE exact \cup KeywordMatches(intent, similar), limit)

----------------------------------------------------------------------------
=============================================================================
