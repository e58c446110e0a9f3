------------------------------ MODULE RuleWalk ------------------------------
(***************************************************************************)
(* The published rules of a module: which of them an event or an agent's   *)
(* decision calls, and what walking a rule's steps collects before it has  *)
(* to stop.  engine/rules_v3.py with the step kinds of                     *)
(* registry/rule_steps.py.                                                 *)
(*                                                                         *)
(* A rule id is a number, in the order of the ids the code sorts by.       *)
(***************************************************************************)
EXTENDS Effects

-----------------------------------------------------------------------------
\* The kinds that stop a walk, with the status each leaves on the agenda.  No
\* kind outside this table is published; none of them has a worker.
Suspending == [check               |-> "awaiting_active_check",
               adjudicated_check   |-> "awaiting_active_check",
               presentation        |-> "awaiting_presentation",
               await_player_input  |-> "awaiting_player_input",
               invoke_ruleset_action |-> "running",
               create_npc_action_opportunity |-> "running",
               create_time_task    |-> "running",
               cancel_time_task    |-> "running"]

BeforeRule(r, q) == r.priority > q.priority \/ (r.priority = q.priority /\ r.id < q.id)

\* matching_event_rules: by priority, then by id.
MatchingEventRules(s, a, eventType) ==
  LET matched == {r \in Module.rules : /\ r.trigger = "event" /\ r.eventType = eventType
                                       /\ Satisfies(s, a, r.when)}
      Rank(r) == Cardinality({q \in matched : BeforeRule(q, r)})
  IN  [i \in 1..Cardinality(matched) |-> CHOOSE r \in matched : Rank(r) = i - 1]

-----------------------------------------------------------------------------
\* walk_rule_from: effects are collected until a finish, a step that suspends,
\* a step met before, or the rule's budget of steps.
Standing(start) == [cursor |-> start, visited |-> {}, effects |-> <<>>, count |-> 0,
                    kind |-> None, running |-> TRUE, completed |-> FALSE]

Halted(w, kind) == [w EXCEPT !.kind = kind, !.running = FALSE]

Stepped(rule, w) ==
  LET step == rule.steps[w.cursor]
      here == [w EXCEPT !.visited = @ \cup {w.cursor}, !.count = @ + 1]
  IN  CASE w.cursor \in w.visited -> Halted(w, "loop")
        [] w.cursor \notin w.visited /\ step.kind = "finish" ->
             [here EXCEPT !.running = FALSE, !.completed = TRUE]
        [] w.cursor \notin w.visited /\ step.kind = "effect" ->
             [here EXCEPT !.effects = Append(@, step.effect), !.cursor = step.next]
        [] OTHER -> Halted(here, step.kind)

WalkFrom(rule, start) ==
  LET walk[n \in 0..rule.maxSteps] ==
        IF n = 0 THEN Standing(start)
        ELSE IF walk[n - 1].running THEN Stepped(rule, walk[n - 1]) ELSE walk[n - 1]
      Budgeted(end) == IF end.running THEN Halted(end, "step_budget") ELSE end
  IN  Budgeted(walk[rule.maxSteps])

Walk(rule, branch) == WalkFrom(rule, rule.branches[branch])

\* agenda_status_for_walk.
StatusOf(rule, walk) ==
  CASE walk.completed -> "stable"
    [] walk.kind \in {"loop", "step_budget"} -> "failed"
    [] walk.kind = "check" /\ rule.steps[walk.cursor].passive -> "awaiting_passive_check"
    [] OTHER -> Suspending[walk.kind]

-----------------------------------------------------------------------------
\* Whether a rule an agent named may be used where the actor stands, for what
\* was aimed at and how.  An empty scope leaves that dimension open.
ScopeAdmits(rule, place, family, target) ==
  LET Within(value, scope) == scope = {} \/ value \in scope
  IN  /\ rule.trigger = "agent_match"
      /\ Within(place, rule.scope.locations)
      /\ Within(family, rule.scope.families)
      /\ Within(target.kind, rule.scope.kinds)
      /\ Within(target.id, rule.scope.targets)

\* resolve_rule_option: the rule and the option were both published.
Declared(decision) ==
  \E r \in Module.rules : /\ r.id = decision.rule /\ r.trigger = "agent_match"
                          /\ decision.option \in r.options \cap DOMAIN r.branches

RuleOf(decision) == CHOOSE r \in Module.rules : r.id = decision.rule

\* The check a branch runs before what it may commit is decided.
PendingCheck(rule, branch) ==
  LET CheckOf(w) == IF w.kind \in {"check", "adjudicated_check"} THEN w.cursor ELSE None
  IN  CheckOf(Walk(rule, branch))

\* effects_after_degree: nothing, when the degree has no route.
EffectsAfterDegree(rule, step, degree) ==
  IF degree \in DOMAIN rule.steps[step].routes
  THEN WalkFrom(rule, rule.steps[step].routes[degree]).effects
  ELSE <<>>
=============================================================================
