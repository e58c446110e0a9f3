-------------------------- MODULE ModuleValidation --------------------------
(***************************************************************************)
(* What a module has to pass before it is published: the structural checks *)
(* of contracts/module_v3.py, which block it, and the references and rule  *)
(* graphs of module/validation_v3.py, which send it back for revision.     *)
(* Each finding is a code with the place it was found at.                  *)
(*                                                                         *)
(* A draft is the record of an authored file: its collections are          *)
(* sequences of records with an id, in the file's order; Loaded is what    *)
(* the engine looks up in it.                                              *)
(***************************************************************************)
EXTENDS World

CONSTANT Drafts   \* the files looked at

\* A collection of the file, in its order.
Rows(items) == Len(items) \in Nat /\ DOMAIN items = 1..Len(items)

Ids(items) == {items[i].id : i \in DOMAIN items}

UniqueIds(items) == Cardinality(Ids(items)) = Len(items)

Named(items, id) == items[CHOOSE i \in DOMAIN items : items[i].id = id]

\* What any parsed file is like: what it must name it names, a step is of a kind
\* there is, and an hour is a number.
StepKinds == DOMAIN Suspending \cup {"finish", "effect"}

Authored(draft) ==
  /\ \A items \in {draft.locations, draft.edges, draft.entities, draft.rules, draft.points} : Rows(items)
  /\ None \notin Ids(draft.locations) \cup {draft.start} \cup draft.revealed
  /\ \A i \in DOMAIN draft.edges : None \notin {draft.edges[i].from, draft.edges[i].to}
  /\ \A i \in DOMAIN draft.points : draft.points[i].hour \in Nat
  /\ \A i \in DOMAIN draft.rules :
        /\ {"branches", "steps", "maxSteps"} \subseteq DOMAIN draft.rules[i]
        /\ Rows(draft.rules[i].steps)
        /\ \A j \in DOMAIN draft.rules[i].steps : draft.rules[i].steps[j].kind \in StepKinds

ASSUME DraftsAssumption ==
  /\ None \notin StepKinds \cup {"step_budget", "loop"}
  /\ \A draft \in Drafts : Authored(draft)

-----------------------------------------------------------------------------
\* The validators of the contract.
Checks == {"check", "adjudicated_check"}

\* _step_targets: every step this one can hand control to.  An awaited input
\* resumes at its next step.
StepTargets(step) ==
  CASE step.kind \in Checks -> {step.routes[d] : d \in DOMAIN step.routes}
                               \cup (IF step.kind = "check" THEN {} ELSE {step.cancel})
    [] step.kind = "finish" -> {}
    [] OTHER -> {step.next}

GraphValid(rule) ==
  /\ rule.branches # <<>> /\ rule.steps # <<>>
  /\ UniqueIds(rule.branches) /\ UniqueIds(rule.steps)
  /\ \A i \in DOMAIN rule.branches : rule.branches[i].entry \in Ids(rule.steps)
  /\ \A i \in DOMAIN rule.steps : StepTargets(rule.steps[i]) \subseteq Ids(rule.steps)

\* Every option an agent may choose is a branch of its own.
EntryValid(rule) ==
  IF rule.trigger = "event" THEN rule.entry \in Ids(rule.branches)
  ELSE rule.options # {} /\ rule.options \subseteq Ids(rule.branches)

\* The orders count from 0 and the hours rise with them.
PointsValid(points) ==
  /\ points # <<>> /\ UniqueIds(points)
  /\ {points[i].order : i \in DOMAIN points} = 0..Len(points) - 1
  /\ \A i, j \in DOMAIN points : points[i].order < points[j].order => points[i].hour < points[j].hour

SchemaValid(draft) ==
  /\ draft.locations # <<>>
  /\ \A i \in DOMAIN draft.locations : draft.locations[i].parent # draft.locations[i].id
  /\ \A i \in DOMAIN draft.edges : draft.edges[i].from # draft.edges[i].to
  /\ \A i \in DOMAIN draft.goals : draft.goals[i].targets # {}
  /\ \A i \in DOMAIN draft.rules : GraphValid(draft.rules[i]) /\ EntryValid(draft.rules[i])
  /\ PointsValid(draft.points)
  /\ \A items \in {draft.information, draft.goals, draft.entities, draft.locations,
                   draft.edges, draft.rules, draft.anchors} : UniqueIds(items)

-----------------------------------------------------------------------------
\* The references.  A reference that may be left out is None.
Missing(refs, known, code, at) == {<<code, at, r>> : r \in refs \ (known \cup {None})}

RegisteredPredicates == {"entity_state_is", "time_of_day_is", "information_is", "core_resolved"}

ActorBindings == {"actor", "target", "scene", "location"}

\* _condition_issues: the names of a condition's predicates, nothing of their
\* arguments.
ConditionIssues(condition, at) ==
  {<<"PREDICATE_UNKNOWN", at, p>> :
     p \in {l.predicate.name : l \in UNION condition} \ RegisteredPredicates}

\* A mutant: only two places inside each other are a cycle.
CycleIssuesOfPairs(locations) ==
  {<<"LOCATION_CYCLE", <<"locations", i>>>> : i \in {k \in DOMAIN locations :
     \E j \in DOMAIN locations : /\ locations[k].parent = locations[j].id
                                 /\ locations[j].parent = locations[k].id}}

ParentIn(locations, l) == IF l \in Ids(locations) THEN Named(locations, l).parent ELSE None

Upward(locations, at) ==
  IF at.cursor \in at.seen \cup {None} THEN at
  ELSE [seen |-> at.seen \cup {at.cursor}, cursor |-> ParentIn(locations, at.cursor)]

\* From a place up its parents until one is met again.
Climb(locations, l) ==
  LET up[n \in 0..Len(locations)] ==
        IF n = 0 THEN [seen |-> {}, cursor |-> l] ELSE Upward(locations, up[n - 1])
  IN  up[Len(locations)]

\* A cycle that was reported from another of its places is not again.
Reported(locations, i, found) ==
  LET end == Climb(locations, locations[i].id)
  IN  IF end.cursor \in found.reported \cup {None} THEN found
      ELSE [reported |-> found.reported \cup end.seen,
            issues   |-> found.issues \cup {<<"LOCATION_CYCLE", <<"locations", i>>>>}]

\* _location_cycle_issues
CycleIssues(locations) ==
  LET after[i \in 0..Len(locations)] ==
        IF i = 0 THEN [reported |-> {}, issues |-> {}] ELSE Reported(locations, i, after[i - 1])
  IN  after[Len(locations)].issues

\* _reachable_steps: what can be handed control from the entry of any branch.
ReachableSteps(rule) ==
  LET reach[n \in 0..Len(rule.steps)] ==
        IF n = 0 THEN {rule.branches[i].entry : i \in DOMAIN rule.branches}
        ELSE reach[n - 1] \cup UNION {StepTargets(Named(rule.steps, s)) : s \in reach[n - 1]}
  IN  reach[Len(rule.steps)]

\* _effect_issues: what a command names, but not what it coins; the end of the
\* game is never a rule's to commit.
EffectIssues(effect, known, at) ==
  CASE effect.type = "commit_terminal_ending" -> {<<"DIRECT_ENDING_FORBIDDEN", at>>}
    [] effect.type \in {"ensure_runtime_location", "ensure_runtime_entity"} -> {}
    [] OTHER -> UNION {Missing({effect.refs[c]}, known[c], "NOT_FOUND", at) : c \in DOMAIN effect.refs}

\* _actor_binding_issues, and the checks of one step.
StepIssues(rule, i, reachable, known, at) ==
  LET step == rule.steps[i]
      here == <<at, "steps", i>>
  IN  {<<"RULE_STEP_UNREACHABLE", here>> : s \in {step.id} \ reachable}
      \cup (CASE step.kind = "effect" -> EffectIssues(step.effect, known, here)
              [] step.kind = "create_npc_action_opportunity" ->
                   Missing({step.entity}, known.entity, "NOT_FOUND", here)
              [] step.kind \in Checks /\ DOMAIN step.routes = {} -> {<<"RULE_CHECK_UNROUTED", here>>}
              [] OTHER -> {})
      \cup {<<"ACTOR_BINDING_UNKNOWN", here>> :
              b \in IF step.kind \in {"check", "invoke_ruleset_action"}
                    THEN {step.binding} \ ActorBindings ELSE {}}
      \cup {<<"RULE_PRESENTATION_NOT_FOUND", here>> :
              p \in IF step.kind = "presentation" /\ rule.presentation # None
                    THEN {step.presentation} \ {rule.presentation} ELSE {}}

\* _rule_issues.  Of an agent's rule only the places of its scope are looked up.
RuleIssues(rule, known, at) ==
  (IF rule.trigger = "event" THEN ConditionIssues(rule.when, at)
   ELSE Missing(rule.scope.locations, known.location, "NOT_FOUND", at))
  \cup LET reachable == ReachableSteps(rule)
       IN  UNION {StepIssues(rule, i, reachable, known, at) : i \in DOMAIN rule.steps}

KnownIn(draft) ==
  [information |-> Ids(draft.information), entity |-> Ids(draft.entities), location |-> Ids(draft.locations)]

\* The references of one goal, entity, place, way or anchor of the file.  The
\* conditions an entity is visible under are not looked at, and facets without an
\* anchor are only missed where there is an anchor.
GoalIssues(draft, i) ==
  Missing(draft.goals[i].targets, KnownIn(draft).information, "NOT_FOUND", <<"goals", i>>)

EntityIssues(draft, i) ==
  Missing({draft.entities[i].located}, KnownIn(draft).location, "NOT_FOUND", <<"entities", i>>)
  \cup Missing(draft.entities[i].relations, KnownIn(draft).entity \cup KnownIn(draft).location,
               "RELATION_TARGET_NOT_FOUND", <<"entities", i>>)

PlaceIssues(draft, i) ==
  Missing({draft.locations[i].parent, draft.locations[i].region}, KnownIn(draft).location,
          "NOT_FOUND", <<"locations", i>>)

EdgeIssues(draft, i) ==
  Missing({draft.edges[i].from, draft.edges[i].to}, KnownIn(draft).location, "NOT_FOUND", <<"edges", i>>)
  \cup Missing({draft.edges[i].access}, KnownIn(draft).entity, "NOT_FOUND", <<"edges", i>>)
  \cup UNION {ConditionIssues(c, <<"edges", i>>) : c \in draft.edges[i].conditions}

AnchorIssues(draft, i) ==
  Missing(draft.anchors[i].facts, KnownIn(draft).information, "NOT_FOUND", <<"anchors", i>>)

InitialIssues(draft) ==
  LET at == <<"initial_state", 1>>
  IN  Missing({draft.start, draft.placement}, KnownIn(draft).location, "NOT_FOUND", at)
      \cup Missing(draft.revealed, KnownIn(draft).information, "NOT_FOUND", at)
      \cup Missing(DOMAIN draft.entityState, KnownIn(draft).entity, "NOT_FOUND", at)
      \cup Missing({draft.startPoint}, Ids(draft.points), "TIME_POINT_NOT_FOUND", at)

\* _semantic_issues
SemanticIssues(draft) ==
  UNION ({GoalIssues(draft, i) : i \in DOMAIN draft.goals}
         \cup {EntityIssues(draft, i) : i \in DOMAIN draft.entities}
         \cup {PlaceIssues(draft, i) : i \in DOMAIN draft.locations}
         \cup {EdgeIssues(draft, i) : i \in DOMAIN draft.edges}
         \cup {RuleIssues(draft.rules[i], KnownIn(draft), <<"rules", i>>) : i \in DOMAIN draft.rules}
         \cup {AnchorIssues(draft, i) : i \in DOMAIN draft.anchors}
         \cup {CycleIssues(draft.locations), InitialIssues(draft),
               Missing(draft.required, Ids(draft.goals), "NOT_FOUND", <<"core_resolution", 1>>)})

\* validate_module_v3
Verdict(draft) ==
  CASE ~SchemaValid(draft) -> "blocked"
    [] SchemaValid(draft) /\ SemanticIssues(draft) # {} -> "needs_revision"
    [] OTHER -> "pass"

-----------------------------------------------------------------------------
\* The content the engine looks things up in: a table by id of each collection,
\* the points in order, the rules in the order of their ids.
Loaded(draft) ==
  LET entity(e) == Named(draft.entities, e)
      point(k)  == CHOOSE i \in DOMAIN draft.points : draft.points[i].order = k - 1
  IN  [locations |-> Ids(draft.locations),
       parent |-> [l \in Ids(draft.locations) |-> Named(draft.locations, l).parent],
       region |-> [l \in {k \in Ids(draft.locations) : Named(draft.locations, k).region # None}
                     |-> Named(draft.locations, l).region],
       edges |-> ToSet(draft.edges),
       entities |-> Ids(draft.entities),
       spec |-> [e \in Ids(draft.entities) |-> entity(e)],
       entityState |-> [e \in Ids(draft.entities) |-> At(draft.entityState, e, Empty)],
       information |-> Ids(draft.information), revealed |-> draft.revealed,
       fact |-> [f \in Ids(draft.information) |-> Named(draft.information, f)],
       rules |-> {[draft.rules[i] EXCEPT
                     !.branches = [b \in Ids(draft.rules[i].branches) |-> Named(draft.rules[i].branches, b).entry],
                     !.steps = [s \in Ids(draft.rules[i].steps) |-> Named(draft.rules[i].steps, s)]] :
                    i \in DOMAIN draft.rules},
       world |-> draft.world, start |-> draft.start,
       points |-> [k \in DOMAIN draft.points |-> draft.points[point(k)]],
       startPoint |-> IF draft.startPoint = None THEN 1
                      ELSE CHOOSE k \in DOMAIN draft.points : draft.points[point(k)].id = draft.startPoint]

EngineOf(m) == INSTANCE Containment WITH Module <- m

-----------------------------------------------------------------------------
\* What it takes for a room to run on a module.
WalksWithin(m, rule, known) ==
  \A start \in DOMAIN rule.steps :
     LET walk == WalkFrom([rule EXCEPT !.maxSteps = Cardinality(DOMAIN rule.steps) + 1], start)
     IN  /\ walk.kind # "step_budget"
         /\ \A i \in DOMAIN walk.effects : EffectIssues(walk.effects[i], known, rule.id) = {}

RunsOn(m) ==
  LET state == EngineOf(m)!InitialState
      known == [information |-> m.information, entity |-> m.entities, location |-> m.locations]
      AtRoot(trail) == m.parent[trail[1]] = None
  IN  /\ state.scene \in m.locations /\ state.facts \subseteq m.information
      /\ \A l \in m.locations : AtRoot(EngineOf(m)!Breadcrumbs(l))
      /\ \A a \in Actors : AtRoot(EngineOf(m)!LocationContext(state, a).trail)
      /\ \A i \in DOMAIN state.items :
            state.items[i].custody.kind = "location" => state.items[i].custody.ref \in m.locations
      /\ \A e \in m.edges : {e.from, e.to} \subseteq m.locations /\ e.access \in m.entities \cup {None}
      /\ \A k \in DOMAIN m.points \ {1} :
            EngineOf(m)!AbsoluteHour([day |-> 0, point |-> k - 1]) < EngineOf(m)!AbsoluteHour([day |-> 0, point |-> k])
      /\ \A r \in m.rules : WalksWithin(m, r, known)

PassedRun == \A draft \in Drafts : Verdict(draft) = "pass" => RunsOn(Loaded(draft))

\* A room begins in order on every module that passes, and stays on its feet:
\* what is shown of a place leads up to one without a parent, also in the first
\* view of the game; every way has two ends and a gate that exists; items lie
\* somewhere; the day only goes forward; and from whatever entry a rule is walked,
\* or resumed behind a check, it commits nothing without a target and no end of
\* the game, and finishes, waits or comes round within its own steps.
PublishedModulesRun == commands = 0 /\ run = Idle => PassedRun
=============================================================================
