--------------------------- MODULE EvidenceChain ---------------------------
(***************************************************************************)
(* quantum.evidence: the graph behind a metric snapshot, from the snapshot *)
(* over profile, rules and approvals to events, source records and the     *)
(* bytes of the source files, and its verifier.  Builders change a graph;  *)
(* the store of retained bytes changes on its own.                         *)
(*                                                                         *)
(* Nodes are a function of their ids (a repeated id is not modelled) and a *)
(* hash stands for what it is the hash of.  `sealed' says that the content *)
(* hash of the graph was taken after its last change.                      *)
(***************************************************************************)
EXTENDS Integers, Sequences, SequencesExt, FiniteSets

CONSTANTS
  BaseGraph, BaseStore,
  GraphEdits,      \* what builders may change
  StoreChanges,    \* what may happen to retained bytes
  GraphEditLimit   \* bound on the changes of a behaviour

VARIABLES
  graph,           \* tenant, mode, sealed, root, nodes, edges
  store,           \* storage locator -> bytes, for the locators that load
  verdict,         \* the last verification: its errors and what it was told
  graphEdits       \* changes so far

evidenceVars == <<graph, store, verdict, graphEdits>>

(* EDGE_SIGNATURES: the type of the source and of the target of an edge.   *)
EdgeSignatures ==
  [RESULT_DEFINED_BY             |-> <<"METRIC_SNAPSHOT", "METRIC_DEFINITION">>,
   RESULT_CALCULATED_WITH        |-> <<"METRIC_SNAPSHOT", "CALCULATION_PROFILE">>,
   RESULT_USES_RESOLUTION        |-> <<"METRIC_SNAPSHOT", "RULE_RESOLUTION">>,
   RESOLUTION_SELECTS_RULE       |-> <<"RULE_RESOLUTION", "CONFIGURATION_RULE">>,
   PROFILE_SELECTS_RULE          |-> <<"CALCULATION_PROFILE", "CONFIGURATION_RULE">>,
   PROFILE_USES_ROUNDING         |-> <<"CALCULATION_PROFILE", "ROUNDING_POLICY">>,
   PROFILE_USES_SOURCE_AUTHORITY |-> <<"CALCULATION_PROFILE", "SOURCE_AUTHORITY">>,
   RESULT_DERIVED_FROM_EVENT     |-> <<"METRIC_SNAPSHOT", "CANONICAL_EVENT">>,
   EVENT_NORMALIZED_FROM_RECORD  |-> <<"CANONICAL_EVENT", "SOURCE_RECORD">>,
   RECORD_READ_FROM_FILE         |-> <<"SOURCE_RECORD", "SOURCE_FILE">>,
   RESULT_USES_TRANSFORMATION    |-> <<"METRIC_SNAPSHOT", "TRANSFORMATION">>,
   RESULT_USES_PRODUCT_MASTER    |-> <<"METRIC_SNAPSHOT", "PRODUCT_MASTER">>,
   RESULT_HAS_FRESHNESS          |-> <<"METRIC_SNAPSHOT", "FRESHNESS_ASSESSMENT">>,
   RESULT_HAS_CONFIDENCE         |-> <<"METRIC_SNAPSHOT", "CONFIDENCE_ASSESSMENT">>,
   RESULT_RECONCILED_BY          |-> <<"METRIC_SNAPSHOT", "RECONCILIATION_RESULT">>,
   ARTIFACT_APPROVED_BY          |-> <<"ANY", "APPROVAL">>,
   SNAPSHOT_SUPERSEDES           |-> <<"METRIC_SNAPSHOT", "METRIC_SNAPSHOT">>,
   SNAPSHOT_RESTATES             |-> <<"METRIC_SNAPSHOT", "METRIC_SNAPSHOT">>]

(* Graphs are finite.                                                      *)
IsGraph(g) ==
  /\ DOMAIN g = DOMAIN BaseGraph
  /\ IsFiniteSet(DOMAIN g.nodes) /\ IsFiniteSet(g.edges)

ASSUME GraphAssumption ==
  /\ IsGraph(BaseGraph) /\ {"sealed", "nodes", "edges"} \subseteq DOMAIN BaseGraph
  /\ \A e \in GraphEdits : e.edit \in {"drop", "change", "draw", "erase", "unseal"}

Known(g, e) == e.from \in DOMAIN g.nodes /\ e.to \in DOMAIN g.nodes

Fits(g, e) ==
  /\ e.type \in DOMAIN EdgeSignatures
  /\ EdgeSignatures[e.type][1] \in {"ANY", g.nodes[e.from].type}
  /\ EdgeSignatures[e.type][2] = g.nodes[e.to].type

(* The edges that count: between nodes of the graph, of the right types.   *)
TypedEdges(g) == {e \in g.edges : Known(g, e) /\ Fits(g, e)}

Targets(g, n, type) == {e.to : e \in {f \in TypedEdges(g) : f.from = n /\ f.type = type}}
Adjacent(g, n) == {e.to : e \in {f \in TypedEdges(g) : f.from = n}}

(* A slip: a node is finished as soon as it is found.                      *)
FoundAndFinished(g, s, n) ==
  [stack |-> Append(s.stack, [node |-> n, left |-> Adjacent(g, n)]),
   colours |-> [s.colours EXCEPT ![n] = 2]]

(* _has_cycle: the search goes on from the node on top of its stack, by a  *)
(* target it has not followed yet.  Colours: 0 not seen, 1 on the stack, 2 *)
(* finished.                                                               *)
Found(g, s, n) ==
  [stack |-> Append(s.stack, [node |-> n, left |-> Adjacent(g, n)]),
   colours |-> [s.colours EXCEPT ![n] = 1]]
Followed(s, t) ==
  [stack |-> Append(Front(s.stack), [Last(s.stack) EXCEPT !.left = @ \ {t}]),
   colours |-> s.colours]
Finished(s) ==
  [stack |-> Front(s.stack), colours |-> [s.colours EXCEPT ![Last(s.stack).node] = 2]]

(* With an empty stack it begins again at a node it has not seen; at a     *)
(* target that is on the stack it ends.                                    *)
SearchStep(g, s) ==
  LET white == {n \in DOMAIN g.nodes : s.colours[n] = 0}
      left == Last(s.stack).left
      next == CHOOSE t \in left : TRUE
  IN CASE s.stack = << >> /\ white = {} -> s
       [] s.stack = << >> /\ white # {} -> Found(g, s, CHOOSE n \in white : TRUE)
       [] s.stack # << >> /\ left = {} -> Finished(s)
       [] s.stack # << >> /\ left # {} /\ s.colours[next] = 0 -> Found(g, Followed(s, next), next)
       [] s.stack # << >> /\ left # {} /\ s.colours[next] = 1 -> s
       [] s.stack # << >> /\ left # {} /\ s.colours[next] = 2 -> Followed(s, next)

(* Enough steps: every node is found and finished and every edge followed  *)
(* at most once.                                                           *)
SearchLength(g) == 2 * Cardinality(DOMAIN g.nodes) + Cardinality(g.edges)
Searched(g) ==
  LET search[k \in 0..SearchLength(g)] ==
        IF k = 0 THEN [stack |-> << >>, colours |-> [n \in DOMAIN g.nodes |-> 0]]
        ELSE SearchStep(g, search[k - 1])
  IN search[SearchLength(g)]

(* A search that met a node of its stack leaves nodes unfinished.          *)
HasCycle(g) == LET s == Searched(g) IN \E n \in DOMAIN g.nodes : s.colours[n] # 2

(* The nodes found by following edges; no path is longer than the number   *)
(* of nodes.                                                               *)
WithAdjacent(g, found) == found \cup UNION {Adjacent(g, n) : n \in found}
ReachedFrom(g, found) ==
  LET reached[k \in 0..Cardinality(DOMAIN g.nodes)] ==
        IF k = 0 THEN found ELSE WithAdjacent(g, reached[k - 1])
  IN reached[Cardinality(DOMAIN g.nodes)]

Roots(g) == {n \in DOMAIN g.nodes : g.nodes[n].type = "METRIC_SNAPSHOT" /\ g.nodes[n].ref = g.root}

IsApproved(g, n) == \E a \in Targets(g, n, "ARTIFACT_APPROVED_BY") : g.nodes[a].approved

(* The source files of the root's events, over their records.              *)
FilesOf(g, root) ==
  UNION {Targets(g, r, "RECORD_READ_FROM_FILE") :
           r \in UNION {Targets(g, v, "EVENT_NORMALIZED_FROM_RECORD") :
                          v \in Targets(g, root, "RESULT_DERIVED_FROM_EVENT")}}

(* What is wrong with one source file.  The bytes are looked at when the   *)
(* caller gives a loader; without one they may only be required.           *)
FileErrors(f, bytes, loader, required) ==
  {e \in {"HASH_MISMATCH", "SOURCE_FILE_UNAVAILABLE", "SOURCE_BYTES_MISMATCH"} :
     CASE e = "HASH_MISMATCH" -> f.retained # f.ref
       [] e = "SOURCE_FILE_UNAVAILABLE" ->
            IF loader THEN f.locator \notin DOMAIN bytes ELSE required
       [] e = "SOURCE_BYTES_MISMATCH" ->
            loader /\ f.locator \in DOMAIN bytes /\ bytes[f.locator] # f.retained}

(* The typed paths a publishable snapshot needs, of both verifiers.        *)
PathsMissing(g, root) ==
  LET singular == {"RESULT_DEFINED_BY", "RESULT_CALCULATED_WITH", "RESULT_HAS_FRESHNESS",
                   "RESULT_HAS_CONFIDENCE"}
      some == {"RESULT_USES_RESOLUTION", "RESULT_USES_TRANSFORMATION", "RESULT_DERIVED_FROM_EVENT"}
      resolutions == Targets(g, root, "RESULT_USES_RESOLUTION")
      rules == UNION {Targets(g, r, "RESOLUTION_SELECTS_RULE") : r \in resolutions}
      events == Targets(g, root, "RESULT_DERIVED_FROM_EVENT")
      records == UNION {Targets(g, v, "EVENT_NORMALIZED_FROM_RECORD") : v \in events}
  IN \/ \E t \in singular : Cardinality(Targets(g, root, t)) # 1
     \/ \E t \in some : Targets(g, root, t) = {}
     \/ \E r \in resolutions : Cardinality(Targets(g, r, "RESOLUTION_SELECTS_RULE")) # 1
     \/ \E p \in Targets(g, root, "RESULT_CALCULATED_WITH") :
          \/ Cardinality(Targets(g, p, "PROFILE_USES_ROUNDING")) # 1
          \/ Cardinality(Targets(g, p, "PROFILE_USES_SOURCE_AUTHORITY")) # 1
          \/ rules = {}
          \/ Targets(g, p, "PROFILE_SELECTS_RULE") # rules
     \/ \E v \in events : Targets(g, v, "EVENT_NORMALIZED_FROM_RECORD") = {}
     \/ \E r \in records : Targets(g, r, "RECORD_READ_FROM_FILE") = {}

ApprovalMissing(g, root) ==
  \E p \in Targets(g, root, "RESULT_CALCULATED_WITH") :
    \E a \in Targets(g, p, "PROFILE_USES_ROUNDING")
               \cup Targets(g, p, "PROFILE_USES_SOURCE_AUTHORITY") : ~IsApproved(g, a)

(* The transformations of the root are numbered from 0, without gaps.      *)
OrderAmbiguous(g, root) ==
  LET used == {e \in TypedEdges(g) : e.from = root /\ e.type = "RESULT_USES_TRANSFORMATION"}
  IN {e.sequence : e \in used} # 0..(Cardinality(used) - 1)

(* verify_evidence_chain: the graph, then, if it has one root, what hangs  *)
(* from the root.                                                          *)
GraphErrors(g) ==
  {e \in {"HASH_MISMATCH", "TENANT_MISMATCH", "MODE_CONTAMINATION", "NODE_MISSING",
          "EDGE_DUPLICATE", "EDGE_INVALID", "GRAPH_CYCLE"} :
     CASE e = "HASH_MISMATCH" -> ~g.sealed
       [] e = "TENANT_MISMATCH" -> \E n \in DOMAIN g.nodes : g.nodes[n].tenant # g.tenant
       [] e = "MODE_CONTAMINATION" -> \E n \in DOMAIN g.nodes : g.nodes[n].mode # g.mode
       [] e = "NODE_MISSING" ->
            Cardinality(Roots(g)) # 1 \/ \E d \in g.edges : ~Known(g, d)
       [] e = "EDGE_DUPLICATE" ->
            \E c, d \in g.edges : c # d /\ <<c.from, c.to, c.type>> = <<d.from, d.to, d.type>>
       [] e = "EDGE_INVALID" -> \E d \in g.edges : Known(g, d) /\ ~Fits(g, d)
       [] e = "GRAPH_CYCLE" -> HasCycle(g)}

RootErrors(g, root) ==
  {e \in {"ORPHAN_NODE", "REQUIRED_PATH_MISSING", "TRANSFORMATION_ORDER_AMBIGUOUS",
          "APPROVAL_MISSING"} :
     CASE e = "ORPHAN_NODE" -> ReachedFrom(g, {root}) # DOMAIN g.nodes
       [] e = "REQUIRED_PATH_MISSING" -> PathsMissing(g, root)
       [] e = "TRANSFORMATION_ORDER_AMBIGUOUS" -> OrderAmbiguous(g, root)
       [] e = "APPROVAL_MISSING" -> ApprovalMissing(g, root)}

Errors(g, bytes, loader, required) ==
  GraphErrors(g)
    \cup (IF Cardinality(Roots(g)) # 1 THEN {}
          ELSE LET root == CHOOSE n \in Roots(g) : TRUE
               IN RootErrors(g, root)
                    \cup UNION {FileErrors(g.nodes[f], bytes, loader, required) :
                                  f \in FilesOf(g, root)})

Unverified ==
  [errors |-> {"NOT_VERIFIED"}, loader |-> FALSE, required |-> FALSE, bytes |-> << >>]

(* A builder drops or changes a node, draws or drops an edge, or forgets   *)
(* to take the hash again.                                                 *)
EditedGraph(g, e) ==
  CASE e.edit = "drop"   -> [g EXCEPT !.nodes = [n \in DOMAIN @ \ {e.node} |-> @[n]]]
    [] e.edit = "change" -> [g EXCEPT !.nodes = [@ EXCEPT ![e.node] = e.value]]
    [] e.edit = "draw"   -> [g EXCEPT !.edges = @ \cup {e.edge}]
    [] e.edit = "erase"  -> [g EXCEPT !.edges = @ \ {e.edge}]
    [] e.edit = "unseal" -> [g EXCEPT !.sealed = FALSE]

EditGraph(e) ==
  /\ graphEdits < GraphEditLimit
  /\ e.edit \in {"drop", "change"} => e.node \in DOMAIN graph.nodes
  /\ graph' = EditedGraph(graph, e)
  /\ verdict' = Unverified
  /\ graphEdits' = graphEdits + 1
  /\ UNCHANGED store

(* External: the bytes behind a locator are replaced or no longer load.    *)
ChangeStore(s) ==
  /\ graphEdits < GraphEditLimit
  /\ store' = s
  /\ graphEdits' = graphEdits + 1
  /\ UNCHANGED <<graph, verdict>>

Verify(loader, required) ==
  /\ verdict' = [errors |-> Errors(graph, store, loader, required), loader |-> loader,
                 required |-> required, bytes |-> store]
  /\ UNCHANGED <<graph, store, graphEdits>>

EvidenceInit ==
  /\ graph = BaseGraph
  /\ store = BaseStore
  /\ verdict = Unverified
  /\ graphEdits = 0

EvidenceChange ==
  \/ \E e \in GraphEdits : EditGraph(e)
  \/ \E s \in StoreChanges : ChangeStore(s)

EvidenceNext ==
  \/ EvidenceChange
  \/ \E loader, required \in BOOLEAN : Verify(loader, required)

EvidenceSpec == EvidenceInit /\ [][EvidenceNext]_evidenceVars
-----------------------------------------------------------------------------
(* The nodes that n leads to, in one step or more, and those of a type.    *)
LeadsTo(g, n) == ReachedFrom(g, Adjacent(g, n))
Below(g, n, type) == {m \in LeadsTo(g, n) : g.nodes[m].type = type}

(* The one policy of a type that n leads to is approved.                   *)
OneApproved(g, n, type) ==
  /\ Cardinality(Below(g, n, type)) = 1
  /\ \A m \in Below(g, n, type) : \E a \in Below(g, m, "APPROVAL") : g.nodes[a].approved

(* The bytes of a file, when they were loaded, are the ones its reference  *)
(* names, and they were loaded or not required.                            *)
BytesMatch(g, f, v) ==
  /\ v.loader \/ ~v.required
  /\ v.loader => /\ g.nodes[f].locator \in DOMAIN v.bytes
                 /\ v.bytes[g.nodes[f].locator] = g.nodes[f].ref

IsEvidence(g, v) ==
  LET root == CHOOSE n \in DOMAIN g.nodes :
                g.nodes[n].type = "METRIC_SNAPSHOT" /\ g.nodes[n].ref = g.root
      profile == CHOOSE p \in Adjacent(g, root) : g.nodes[p].type = "CALCULATION_PROFILE"
      resolutions == {r \in Adjacent(g, root) : g.nodes[r].type = "RULE_RESOLUTION"}
      events == {n \in Adjacent(g, root) : g.nodes[n].type = "CANONICAL_EVENT"}
  IN /\ LeadsTo(g, root) = DOMAIN g.nodes \ {root}
     /\ \A n \in DOMAIN g.nodes :
          /\ n \notin LeadsTo(g, n)
          /\ g.nodes[n].tenant = g.tenant /\ g.nodes[n].mode = g.mode
     /\ \A type \in {"ROUNDING_POLICY", "SOURCE_AUTHORITY"} : OneApproved(g, profile, type)
     /\ Below(g, profile, "CONFIGURATION_RULE") # {}
     /\ Below(g, profile, "CONFIGURATION_RULE")
          = UNION {Below(g, r, "CONFIGURATION_RULE") : r \in resolutions}
     /\ \A e \in events : /\ Below(g, e, "SOURCE_FILE") # {}
                          /\ \A f \in Below(g, e, "SOURCE_FILE") : BytesMatch(g, f, v)

(* A graph the verifier finds nothing wrong with is evidence: its root     *)
(* leads to every node and no node leads back to itself, all nodes share   *)
(* tenant and mode, its one rounding policy and its one source authority   *)
(* are approved, profile and resolutions select the same rules, and every  *)
(* event of the root leads to a file; a file's bytes, when they were       *)
(* loaded, are the ones its reference names, and they were loaded or not   *)
(* required.                                                               *)
VerifiedIsEvidence == verdict.errors = {} => IsEvidence(graph, verdict)
=============================================================================
