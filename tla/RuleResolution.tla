-------------------------- MODULE RuleResolution --------------------------
(***************************************************************************)
(* quantum.finance: which rule of a catalogue applies in a context, and    *)
(* what it evaluates to.  A resolution is handed to the caller, who may    *)
(* keep it, change the catalogue and come back; the process remembers the  *)
(* resolutions it has made in a bounded cache, and evaluates no other.     *)
(*                                                                         *)
(* A content hash stands for its document and a trace id for the payload   *)
(* of its resolution.  A context has a scenario exactly in SCENARIO mode   *)
(* (_validate_context).  Times are numbers.                                *)
(***************************************************************************)
EXTENDS Integers, Sequences, FiniteSets, SequencesExt

CONSTANTS
  Catalogues,      \* sets of rules a caller may hold
  Contexts,
  Environments,    \* variables: functions from names to states of typed values
  IsExpression(_, _),    \* a tree over dependencies passes validation
  ExpressionValue(_, _), \* state and signature of a tree in an environment, or
                         \* the state RAISES: both are SafeExpression's
  CacheLimit,      \* _CACHE_LIMIT
  CallLimit,       \* bound on the calls of a behaviour
  None

ASSUME CacheLimitAssumption == CacheLimit \in Nat \ {0}

(* Catalogues are finite; instants, priorities and versions are numbers.   *)
ASSUME CataloguesAssumption ==
  \A c \in Catalogues :
     /\ IsFiniteSet(c)
     /\ \A r \in c : /\ r.priority \in Int /\ r.from \in Int /\ r.version \in Int
                     /\ r.to \in Int \cup {None}
ASSUME ContextsAssumption == \A x \in Contexts : x.instant \in Int

VARIABLES
  traces,   \* _TRACES, oldest use first: resolution and catalogue
  uses,     \* history: distinct resolutions by last use, oldest first
  last,     \* what the last call returned or raised
  calls     \* calls so far

ruleVars == <<traces, uses, last, calls>>

Dimensions == <<"product", "group", "account", "marketplace", "profile", "scenario">>
Approved == {"SHADOW", "PILOT", "ACTIVE"}

(* _validate_rule_document, the conditions that relate two fields.  A rule *)
(* is scoped by the dimensions in the domain of its scope.                 *)
ValidDocument(r) ==
  /\ r.to # None => r.from < r.to
  /\ ~{"product", "group"} \subseteq DOMAIN r.scope
  /\ (r.currency # None) <=> (r.unit = "MONEY")
  /\ r.method = "RATE" => r.unit = "RATE" /\ Cardinality(r.dependencies) = 1
  /\ r.method = "SAFE_EXPRESSION" => IsExpression(r.expression, r.dependencies)

(* _signature: what the unit and the currency of a rule promise.           *)
Signature(r) ==
  CASE r.unit = "MONEY" -> <<"MONEY", "MONEY", r.currency>>
    [] r.unit = "RATE"  -> <<"RATE", "RATE", "-">>
    [] OTHER            -> <<"DECIMAL", r.unit, "-">>

(* Why resolve_rule leaves a rule out.                                     *)
Exclusions(r, x) ==
  {e \in {"ORGANIZATION", "STATUS", "VALIDITY", "SCENARIO", "SCOPE"} :
     CASE e = "ORGANIZATION" -> r.organization # x.organization
       [] e = "STATUS"       -> r.status \notin Approved
       [] e = "VALIDITY"     -> x.instant < r.from \/ (r.to # None /\ x.instant >= r.to)
       [] e = "SCENARIO"     -> "scenario" \in DOMAIN r.scope /\ r.scope["scenario"] # x.scope["scenario"]
       [] e = "SCOPE"        -> \E d \in DOMAIN r.scope \ {"scenario"} : r.scope[d] # x.scope[d]}

Eligible(c, x) == {r \in c : Exclusions(r, x) = {}}

(* ordering_tuple: where the rule is scoped, in order, then its priority,  *)
(* the start of its validity and its version.                              *)
Ordering(r) ==
  [i \in 1..6 |-> IF Dimensions[i] \in DOMAIN r.scope THEN 1 ELSE 0]
    \o <<r.priority, r.from, r.version>>

Precedes(a, b) ==
  \E i \in 1..9 : a[i] > b[i] /\ \A j \in 1..(i - 1) : a[j] = b[j]

Best(e) == {r \in e : \A s \in e : ~Precedes(Ordering(s), Ordering(r))}

Overlapping(e) ==
  \E r, s \in e : r # s /\ r.exclusivity # None /\ r.exclusivity = s.exclusivity

(* _base_resolve.  The trace holds a reference to every rule of the        *)
(* catalogue, selected or not.                                             *)
Resolution(c, x) ==
  LET e == Eligible(c, x)
      outcome(state, diagnostic, rule) ==
        [context |-> x, candidates |-> c, state |-> state, diagnostic |-> diagnostic,
         selected |-> rule]
  IN CASE Overlapping(e) -> outcome("CONFLICT", "RULE_EXCLUSIVITY_OVERLAP", None)
       [] ~Overlapping(e) /\ e = {} ->
            outcome("BLOCKED",
                    IF \E r \in c : Exclusions(r, x) = {"STATUS"} THEN "RULE_NOT_APPROVED"
                                                                  ELSE "RULE_REQUIRED_MISSING",
                    None)
       [] ~Overlapping(e) /\ e # {} ->
            IF Cardinality(Best(e)) = 1
            THEN outcome("VALID", None, CHOOSE r \in Best(e) : TRUE)
            ELSE outcome("CONFLICT", "RULE_RESOLUTION_TIE", None)

Holds(z) == \E i \in DOMAIN traces : traces[i].resolution = z
Entry(z) == traces[CHOOSE i \in DOMAIN traces : traces[i].resolution = z]

(* What is at a place of s is taken out, if there is such a place.         *)
TakenOut(s, places) ==
  IF places = {} THEN s ELSE RemoveAt(s, CHOOSE i \in places : TRUE)
Without(s, z) == TakenOut(s, {i \in DOMAIN s : s[i].resolution = z})

(* Keep the newest `limit' entries: popitem(last=False) while too many.    *)
Newest(s, limit) ==
  IF Len(s) <= limit THEN s ELSE SubSeq(s, Len(s) - limit + 1, Len(s))

(* _register: the entry is written, moved to the end, the oldest go.       *)
Registered(z, c) ==
  Newest(Append(Without(traces, z), [resolution |-> z, rules |-> c]), CacheLimit)

(* A slip: using an entry does not move it to the end.                     *)
LookedUp(z) == traces

(* _trusted, its effect on the cache: an entry that is found is moved to   *)
(* the end, whether or not the catalogue agrees.                           *)
Touched(z) ==
  IF Holds(z) THEN Append(Without(traces, z), Entry(z)) ELSE traces

(* A slip: the fingerprint of the catalogue is not compared.               *)
Remembered(z, c) == Holds(z)

(* _trusted, its answer.                                                   *)
Trusted(z, c) == Holds(z) /\ Entry(z).rules = c

Used(z) == Append(TakenOut(uses, {i \in DOMAIN uses : uses[i] = z}), z)

(* resolve_rule: a malformed document anywhere in the catalogue raises.    *)
ResolveRule(c, x) ==
  /\ calls < CallLimit
  /\ \A r \in c : ValidDocument(r)
  /\ traces' = Registered(Resolution(c, x), c)
  /\ uses' = Used(Resolution(c, x))
  /\ last' = [call |-> "resolve", resolution |-> Resolution(c, x)]
  /\ calls' = calls + 1

(* The state of the value of a selected rule.  A dependency that is not    *)
(* given makes it UNAVAILABLE, before anything else is looked at; a rate   *)
(* takes the state of its dependency, a fixed value none; an expression    *)
(* must have the signature of its rule.                                    *)
RuleState(r, v) ==
  CASE ~r.dependencies \subseteq DOMAIN v -> "UNAVAILABLE"
    [] r.dependencies \subseteq DOMAIN v /\ r.method = "FIXED_VALUE" -> "VALID"
    [] r.dependencies \subseteq DOMAIN v /\ r.method = "RATE" ->
         v[CHOOSE d \in r.dependencies : TRUE]
    [] r.dependencies \subseteq DOMAIN v /\ r.method = "SAFE_EXPRESSION" ->
         LET x == ExpressionValue(r.expression, [d \in r.dependencies |-> v[d]])
         IN IF x.state = "RAISES" \/ x.signature # Signature(r) THEN "RAISES" ELSE x.state

(* evaluate_resolved_rule, given a resolution the cache holds.             *)
Raised(why) == [call |-> "raised", why |-> why]
EvaluateResolvedRule(z, c, v) ==
  /\ calls < CallLimit
  /\ \A r \in c : ValidDocument(r)
  /\ traces' = Touched(z)
  /\ uses' = IF Holds(z) THEN Used(z) ELSE uses
  /\ last' =
       IF ~Trusted(z, c) THEN Raised("RULE_RESOLUTION_REPLAY_MISMATCH")
       ELSE IF z.selected = None
            THEN [call |-> "evaluate", resolution |-> z, rules |-> c, state |-> z.state]
            ELSE IF RuleState(z.selected, v) = "RAISES" THEN Raised("EXPRESSION")
                 ELSE [call |-> "evaluate", resolution |-> z, rules |-> c,
                       state |-> RuleState(z.selected, v)]
  /\ calls' = calls + 1

(* A resolution the cache does not hold, whatever it says: evicted, made   *)
(* by another process, or not by resolve_rule at all.                      *)
EvaluateUnknown(c) ==
  /\ calls < CallLimit
  /\ \A r \in c : ValidDocument(r)
  /\ last' = Raised("RULE_RESOLUTION_REPLAY_MISMATCH")
  /\ calls' = calls + 1
  /\ UNCHANGED <<traces, uses>>

(* _snapshot or resolve_rule meets a malformed document.                   *)
RejectCatalogue(c) ==
  /\ calls < CallLimit
  /\ \E r \in c : ~ValidDocument(r)
  /\ last' = Raised("RULE_DOCUMENT_INVALID")
  /\ calls' = calls + 1
  /\ UNCHANGED <<traces, uses>>

(* The process ends: the cache lives in it; callers keep their resolutions.*)
Restart ==
  /\ calls < CallLimit
  /\ traces' = << >>
  /\ uses' = << >>
  /\ last' = Raised("restarted")
  /\ calls' = calls + 1

RuleInit ==
  /\ traces = << >>
  /\ uses = << >>
  /\ last = Raised("nothing")
  /\ calls = 0

RuleNext ==
  \/ \E c \in Catalogues, x \in Contexts : ResolveRule(c, x)
  \/ \E i \in DOMAIN traces, c \in Catalogues, v \in Environments :
       EvaluateResolvedRule(traces[i].resolution, c, v)
  \/ \E c \in Catalogues : EvaluateUnknown(c)
  \/ \E c \in Catalogues : RejectCatalogue(c)
  \/ Restart

RuleSpec == RuleInit /\ [][RuleNext]_ruleVars
-----------------------------------------------------------------------------
(* The rule r applies before s: at the first dimension that only one of    *)
(* them is scoped by, it is r; without such a dimension, the priority, the *)
(* start of validity and the version decide.                               *)
AppliesBefore(r, s) ==
  LET only == {i \in 1..6 : ~(Dimensions[i] \in DOMAIN r.scope <=> Dimensions[i] \in DOMAIN s.scope)}
      first == CHOOSE i \in only : \A j \in only : i <= j
  IN IF only # {} THEN Dimensions[first] \in DOMAIN r.scope
     ELSE \/ r.priority > s.priority
          \/ r.priority = s.priority /\ r.from > s.from
          \/ r.priority = s.priority /\ r.from = s.from /\ r.version > s.version

(* A value is produced only from a rule of the catalogue given with the    *)
(* call, approved, in force at the instant and within its scope (a rule of *)
(* a scenario never in ACTUAL mode), and no other such rule of that        *)
(* catalogue applies before it, ties with it or shares its exclusivity     *)
(* group: a resolution kept across a change of the catalogue is refused.   *)
EvaluatedIsCurrent ==
  last.call = "evaluate" /\ last.state = "VALID" =>
    LET r == last.resolution.selected
        x == last.resolution.context
        applies(s) ==
          /\ s.organization = x.organization
          /\ s.status \in Approved
          /\ s.from <= x.instant /\ (s.to # None => x.instant < s.to)
          /\ \A d \in DOMAIN s.scope : s.scope[d] = x.scope[d]
    IN /\ r \in last.rules
       /\ applies(r)
       /\ \A s \in last.rules \ {r} :
            applies(s) => /\ AppliesBefore(r, s)
                          /\ r.exclusivity = None \/ r.exclusivity # s.exclusivity

(* The CacheLimit resolutions most recently made or evaluated by this      *)
(* process are the ones it still accepts: using a resolution keeps it from *)
(* being evicted by older ones.                                            *)
RecentlyUsedAccepted ==
  {traces[i].resolution : i \in DOMAIN traces} = ToSet(Newest(uses, CacheLimit))
=============================================================================
