------------------------------- MODULE World --------------------------------
(***************************************************************************)
(* How a resolved adjudication changes the world of a room:                *)
(* AdjudicationEngineService (engine/adjudication.py) from the validation  *)
(* of what an agent proposes to the commit of its effects and of the event *)
(* rules they set off.                                                     *)
(*                                                                         *)
(* A command runs on a draft of the state inside one transaction that      *)
(* holds the room's row; the steps of a run below are the steps of that    *)
(* transaction, and no other command is between them.  A checked           *)
(* adjudication is validated when it is submitted and applied when its     *)
(* roll is final, in another transaction: others may have committed since. *)
(* The protocol of the check itself, its rolls and retries, is             *)
(* Adjudication's.                                                         *)
(***************************************************************************)
EXTENDS Projection, Persistence

CONSTANTS Adjudications,   \* what agents propose; a set of records
          MaxCommands,     \* bound: commands committed in a behaviour
          MaxPending,      \* bound: checks that wait at a time
          AgendaDepth,     \* RuleAgenda.max_chain_depth
          AgendaSteps      \* RuleAgenda.max_steps

\* The places an effect takes for granted.
Refers(e) ==
  CASE e.type = "set_visibility" /\ e.kind = "location" -> {e.id}
    [] e.type = "ensure_runtime_location" -> {e.connected}
    [] e.type = "ensure_runtime_entity" -> {e.at}
    [] e.type = "move_entity" -> {e.at} \ {None}
    [] OTHER -> {}

\* What the contract of an effect asks of its fields: something is moved either
\* to a place or to somebody, what is coined has a name, and visible is a Boolean.
WellFormed(e) ==
  /\ e.type = "move_entity" => (e.at = None) # (e.holder = None)
  /\ e.type = "ensure_runtime_location" => e.id # None
  /\ e.type = "set_visibility" => e.visible \in BOOLEAN

\* An effect that needs no validation where these places exist.
SoundAt(places, e) ==
  /\ WellFormed(e) /\ Refers(e) \subseteq places
  /\ e.type = "ensure_runtime_location" => e.connected # e.id
  /\ e.type = "move_entity" => e.holder \in Actors \cup {None}

Proposable(effects) ==
  /\ effects \in Seq({effects[i] : i \in DOMAIN effects})
  /\ \A i \in DOMAIN effects : WellFormed(effects[i])

ASSUME WorldAssumption ==
  /\ MaxCommands \in Nat /\ MaxPending \in Nat
  /\ AgendaDepth \in Nat /\ AgendaSteps \in Nat
  /\ Party \notin Actors
  /\ \A adj \in Adjudications :
        adj.actor \in Actors /\ Proposable(adj.success) /\ Proposable(adj.failure)

\* Every step that a rule names exists.  The effects of a rule that an agent
\* names are applied unchecked, and of what they coin and whom they hand it to no
\* validator has looked at anything (validation_v3.py:474): they have to be sound as
\* they are written.
ASSUME RulesAssumption ==
  /\ IsFiniteSet(Module.rules) /\ None \notin {"check", "adjudicated_check"}
  /\ \A r, q \in Module.rules : r.id = q.id => r = q
  /\ \A r \in Module.rules :
        /\ r.id \in Nat /\ r.priority \in Int
        /\ r.maxSteps \in Nat /\ r.maxDepth \in Nat
        /\ \A o \in DOMAIN r.branches : r.branches[o] \in DOMAIN r.steps
        /\ r.trigger = "event" => r.entry \in DOMAIN r.branches
        /\ \A i \in DOMAIN r.steps :
             LET step == r.steps[i]
             IN  /\ step.kind = "effect" =>
                      /\ step.next \in DOMAIN r.steps /\ WellFormed(step.effect)
                      /\ r.trigger = "agent_match" => SoundAt(Module.locations, step.effect)
                 /\ step.kind \in {"check", "adjudicated_check"} =>
                      \A d \in DOMAIN step.routes : step.routes[d] \in DOMAIN r.steps

VARIABLES game,      \* the committed GameState
          pending,   \* adjudications that wait for their check
          run,       \* the transaction under way, or Idle
          commands,  \* how many commands were committed
          audit      \* the last commit: its adjudication, narration evidence, created ids

vars == <<game, pending, run, commands, audit>>

Degrees == {"critical_success", "regular_success", "failure"}

\* passes_difficulty: of these a regular success passes a regular check only.
Difficulties == {"regular", "hard"}

Passes(degree, difficulty) ==
  degree = "critical_success" \/ (degree = "regular_success" /\ difficulty = "regular")

\* What a check came to; without a check it passes.
Results == {[degree |-> d, passed |-> Passes(d, difficulty)] :
              d \in Degrees, difficulty \in Difficulties}

NoRoll == [degree |-> None, passed |-> TRUE]

NoAgenda == [status |-> "running", depth |-> 0, maxDepth |-> AgendaDepth, steps |-> 0,
             maxSteps |-> AgendaSteps, queue |-> <<>>, failure |-> None, rule |-> None,
             step |-> None]

\* A run: todo, the effects still to apply; events, those emitted; cursor, how
\* many of them the cascade has read; waiting, the rules the last one called.
Idle == [at |-> "idle"]

Begun(adj, result, effects) ==
  [at |-> "effects", adj |-> adj, passed |-> result.passed, draft |-> game, todo |-> effects,
   events |-> IF adj.checked THEN <<[type |-> "check.rolled", effect |-> None],
                                    [type |-> "check.resolved", effect |-> None]>>
              ELSE <<>>,
   cursor |-> 0, waiting |-> <<>>, agenda |-> NoAgenda]

Init ==
  /\ game = InitialState
  /\ pending = {}
  /\ run = Idle
  /\ commands = 0
  /\ audit = [adj |-> None, evidence |-> {}, results |-> {}, created |-> {}]

-----------------------------------------------------------------------------
\* _validate_adjudication, after the kind of the target was put right.
Valid(adj) ==
  LET target == [adj.target EXCEPT !.kind = NormalizedKind(game, adj.target)]
  IN  /\ target.kind \in KindsOf(game, target.id)
      /\ adj.rule # None =>
           /\ Declared(adj.rule)
           /\ ScopeAdmits(RuleOf(adj.rule), game.scene, adj.family, target)
      /\ adj.rule = None => PersistenceProblem(adj) = None
      /\ ValidSequence(game, adj.success, adj.consented)
      /\ ValidSequence(game, adj.failure, adj.consented)

\* _owned_effects: of a rule the agent named, the rule's.  A branch that asks
\* for a check commits nothing without one.
RuleEffects(adj, degree) ==
  LET rule == RuleOf(adj.rule)
      After(step) ==
       CASE step # None /\ adj.checked  -> EffectsAfterDegree(rule, step, degree)
        [] step # None /\ ~adj.checked -> <<>>
        [] OTHER -> Walk(rule, adj.rule.option).effects
  IN  After(PendingCheck(rule, adj.rule.option))

OwnedEffects(adj, result) ==
  IF adj.rule # None THEN RuleEffects(adj, result.degree)
  ELSE IF result.passed THEN adj.success ELSE adj.failure

\* A branch that neither checks nor finishes cannot be run to its end.
Runnable(adj) ==
  adj.rule # None => (\/ PendingCheck(RuleOf(adj.rule), adj.rule.option) # None
                      \/ Walk(RuleOf(adj.rule), adj.rule.option).completed)

-----------------------------------------------------------------------------
\* submit, without a check: applied at once.
Submit(adj) ==
  /\ run = Idle /\ commands < MaxCommands
  /\ ~adj.checked /\ Valid(adj) /\ Runnable(adj)
  /\ run' = Begun(adj, NoRoll, OwnedEffects(adj, NoRoll))
  /\ UNCHANGED <<game, pending, commands, audit>>

\* submit, with a check: what it would do is frozen until the roll is final.
SubmitChecked(adj) ==
  /\ run = Idle /\ commands < MaxCommands
  /\ adj.checked /\ Valid(adj) /\ adj \notin pending
  /\ Cardinality(pending) < MaxPending
  /\ pending' = pending \cup {adj}
  /\ UNCHANGED <<game, run, commands, audit>>

\* decide or decide_post_roll with a final result.  What was validated at the
\* submission is not validated again.
Resolve(adj, result) ==
  /\ run = Idle /\ commands < MaxCommands
  /\ adj \in pending /\ Runnable(adj)
  /\ run' = Begun(adj, result, OwnedEffects(adj, result))
  /\ pending' = pending \ {adj}
  /\ UNCHANGED <<game, commands, audit>>

\* decide with a cancel: the check and what hung on it are dropped.
Cancel(adj) ==
  /\ run = Idle
  /\ adj \in pending /\ pending' = pending \ {adj}
  /\ UNCHANGED <<game, run, commands, audit>>

-----------------------------------------------------------------------------
Refuse ==
  /\ run' = Idle
  /\ pending' = IF run.adj.checked THEN pending \cup {run.adj} ELSE pending
  /\ UNCHANGED <<game, commands, audit>>

Emitted(events, event, e) == IF event = None THEN events
                             ELSE Append(events, [type |-> event, effect |-> e])

\* _apply_effect: the next of the effects; a refusal rolls the command back.
Accept(result) ==
  IF result.ok
  THEN /\ run' = [run EXCEPT !.draft = result.state, !.todo = Tail(@),
                             !.events = Emitted(@, result.event, Head(run.todo))]
       /\ UNCHANGED <<game, pending, commands, audit>>
  ELSE Refuse

ApplyEffect ==
  /\ run.at \in {"effects", "rule"} /\ run.todo # <<>>
  /\ Accept(Apply(run.draft, run.adj.actor, Head(run.todo)))

\* The command's own effects are done; its outcome is the last of its events.
Conclude ==
  /\ run.at = "effects" /\ run.todo = <<>>
  /\ run' = [run EXCEPT !.at = "cascade",
                        !.events = Append(@, [type |-> IF run.passed THEN "action.succeeded"
                                                       ELSE "action.failed",
                                              effect |-> None])]
  /\ UNCHANGED <<game, pending, commands, audit>>

\* The cascade reads the next event.  Its rules join the agenda in their order;
\* that a rule was triggered calls no rule.
ReadEvent ==
  /\ run.at = "cascade" /\ run.waiting = <<>> /\ run.cursor < Len(run.events)
  /\ LET event == run.events[run.cursor + 1]
         rules == IF event.type = "rule.triggered" THEN <<>>
                  ELSE MatchingEventRules(run.draft, run.adj.actor, event.type)
     IN  run' = [run EXCEPT !.cursor = @ + 1, !.waiting = rules,
                            !.agenda.queue = @ \o [i \in 1..Len(rules) |->
                               [event |-> run.cursor + 1, rule |-> rules[i].id,
                                status |-> "queued"]]]
  /\ UNCHANGED <<game, pending, commands, audit>>

Minimum(i, j) == IF i < j THEN i ELSE j

\* A mutant: a rule that runs is found by its status, not by its place.
MarkedLast(agenda, status) ==
  LET at == CHOOSE i \in 1..Len(agenda.queue) :
              /\ agenda.queue[i].status \in {"queued", "running"}
              /\ \A j \in i + 1..Len(agenda.queue) : agenda.queue[j].status \notin {"queued", "running"}
  IN  [agenda EXCEPT !.queue[at].status = status]

\* The agenda with its first rule not run yet given a status.
Marked(agenda, status) ==
  LET at == CHOOSE i \in 1..Len(agenda.queue) :
              /\ agenda.queue[i].status \in {"queued", "running"}
              /\ \A j \in 1..i - 1 : agenda.queue[j].status \notin {"queued", "running"}
  IN  [agenda EXCEPT !.queue[at].status = status]

Stopped(agenda, status, rule, step) ==
  [agenda EXCEPT !.status = status, !.rule = rule.id, !.step = step,
                 !.failure = IF status = "failed" THEN "agenda_budget_exceeded" ELSE None]

\* The next rule of the event: within the budgets it is recorded, what its walk
\* collected is validated on the draft, and then applied.
FireRule ==
  /\ run.at = "cascade" /\ run.waiting # <<>>
  /\ LET rule   == Head(run.waiting)
         walk   == Walk(rule, rule.entry)
         charged == [run.agenda EXCEPT !.depth = @ + 1, !.maxDepth = Minimum(@, rule.maxDepth),
                                       !.maxSteps = Minimum(@, rule.maxSteps)]
         counted == [charged EXCEPT !.steps = @ + walk.count]
     IN  CASE charged.depth > charged.maxDepth ->
                /\ run' = [run EXCEPT !.at = "commit",
                             !.agenda = Stopped(Marked(charged, "failed"), "failed", rule, None)]
                /\ UNCHANGED <<game, pending, commands, audit>>
           [] charged.depth <= charged.maxDepth /\ counted.steps > counted.maxSteps ->
                /\ run' = [run EXCEPT !.at = "commit",
                             !.agenda = Stopped(Marked(counted, "failed"), "failed", rule, walk.cursor)]
                /\ UNCHANGED <<game, pending, commands, audit>>
           [] OTHER ->
                IF ValidSequence(run.draft, walk.effects, FALSE)
                THEN /\ run' = [run EXCEPT !.at = "rule", !.todo = walk.effects,
                                  !.agenda = Marked(counted, "running"),
                                  !.events = Append(@, [type |-> "rule.triggered", effect |-> None])]
                     /\ UNCHANGED <<game, pending, commands, audit>>
                ELSE Refuse

\* The rule's effects are done.  A rule that has to wait stops the cascade: what
\* is queued behind it, and the events not read yet, stay as they are.
EndRule ==
  /\ run.at = "rule" /\ run.todo = <<>>
  /\ LET rule == Head(run.waiting)
         walk == Walk(rule, rule.entry)
         status == StatusOf(rule, walk)
     IN  run' = IF status = "stable"
                THEN [run EXCEPT !.at = "cascade", !.waiting = Tail(@),
                                 !.agenda = Marked(@, "completed")]
                ELSE [run EXCEPT !.at = "commit",
                                 !.agenda = Stopped(IF status = "failed" THEN Marked(@, "failed") ELSE @,
                                                    status, rule, walk.cursor)]
  /\ UNCHANGED <<game, pending, commands, audit>>

\* The draft becomes the state; with any rule queued its agenda is kept in it,
\* beside the earlier ones, which nothing reads: only the last is modelled.
Commit ==
  /\ \/ run.at = "commit"
     \/ run.at = "cascade" /\ run.waiting = <<>> /\ run.cursor = Len(run.events)
  /\ LET agenda == IF run.at = "commit" THEN run.agenda
                   ELSE [run.agenda EXCEPT !.status = "stable"]
     IN  game' = IF agenda.queue = <<>> THEN run.draft
                 ELSE [run.draft EXCEPT !.agendas = <<agenda>>]
  /\ audit' = [adj |-> run.adj,
               evidence |-> NarrationEvidence(game, run.draft, run.adj.actor, run.events),
               results |-> CommittedResults(run.events),
               created |-> {run.events[i].effect.id :
                              i \in {j \in 1..Len(run.events) :
                                       run.events[j].type \in {"entity.created", "location.created"}}}]
  /\ run' = Idle
  /\ commands' = commands + 1
  /\ UNCHANGED pending

Next ==
  \/ \E adj \in Adjudications :
        \/ Submit(adj)
        \/ SubmitChecked(adj)
        \/ Cancel(adj)
        \/ \E result \in Results : Resolve(adj, result)
  \/ ApplyEffect
  \/ Conclude
  \/ ReadEvent
  \/ FireRule
  \/ EndRule
  \/ Commit

Spec == Init /\ [][Next]_vars

-----------------------------------------------------------------------------
\* Whatever was created, moved or hidden, everything the state names exists: the
\* scene, the places items lie at and actors know, the anchors of coined places;
\* and what is unknown has no position.  Ids are only checked when a command is
\* submitted, not when its effects are applied.
KnowledgeOK(places, ids) ==
  /\ DOMAIN places \subseteq ids
  /\ \A l \in DOMAIN places : places[l].existence = "unknown" => places[l] = Unknown

HangsTogether ==
  run = Idle =>
  LET ids == LocationIds(game)
  IN  /\ game.scene \in ids
      /\ KnowledgeOK(game.partyPlaces, ids)
      /\ \A a \in Actors : KnowledgeOK(game.actorPlaces[a], ids)
      /\ \A l \in DOMAIN game.runtimeLocations :
            game.runtimeLocations[l].connected \in ids \ {l}
      /\ \A i \in DOMAIN game.items :
            LET custody == game.items[i].custody
            IN  \/ custody.kind = "actor" /\ custody.ref \in Actors
                \/ custody.kind = "location" /\ custody.ref \in ids
                \/ IsCanonItem(i) /\ custody = CanonItem(i).custody
      /\ \A e \in DOMAIN game.entities : game.entities[e].holder = None
      /\ game.time.point \in 1..Len(Module.points)
      /\ commands \in 0..MaxCommands /\ Cardinality(pending) <= MaxPending

\* An exit a player is shown is one the engine can answer: the way may be closed,
\* but the place is neither unknown nor without a position (projection_v3.py:422).
ShownExitsAreAnswered ==
  run = Idle => \A a \in Actors : \A e \in AvailableExits(game, a) :
     ResolveLocationTarget(game, a, e.to).status \in {"known_reachable", "known_blocked"}

\* A cascade that came to rest ran every rule it queued; one that did not
\* stopped at one rule, ran all before it and none behind it.  No event calls
\* a rule twice.  Each rule that ran was within the depth of the agenda, its own
\* and that of every rule before it; and only a cascade that says it failed is
\* out of its budgets.
Accounted(agenda) ==
  LET queue == agenda.queue
      done  == {i \in DOMAIN queue : queue[i].status = "completed"}
  IN  /\ \A i, j \in DOMAIN queue :
            i # j => <<queue[i].event, queue[i].rule>> # <<queue[j].event, queue[j].rule>>
      /\ \A i \in done :
            /\ i <= AgendaDepth
            /\ \A r \in Module.rules : r.id \in {queue[j].rule : j \in 1..i} => i <= r.maxDepth
      /\ agenda.status # "failed" => agenda.depth <= agenda.maxDepth /\ agenda.steps <= agenda.maxSteps
      /\ IF agenda.status = "stable" THEN done = DOMAIN queue
         ELSE \E i \in DOMAIN queue :
                 /\ queue[i].rule = agenda.rule
                 /\ queue[i].status = IF agenda.status = "failed" THEN "failed" ELSE "running"
                 /\ done = 1..i - 1
                 /\ \A j \in i + 1..Len(queue) : queue[j].status = "queued"

AgendaAccounts == run = Idle => \A n \in DOMAIN game.agendas : Accounted(game.agendas[n])

\* What an actor finds out alone stays with that actor: a command whose effects
\* are all scoped to its actor, and which sets off no rule, changes nothing that
\* any other player is shown.
Private(effects) == \A i \in 1..Len(effects) :
  \/ effects[i].type = "narrative_only"
  \/ /\ effects[i].type \in {"reveal_information", "hide_information", "set_visibility"}
     /\ effects[i].scope = "actor"

SecretsStay ==
  [][ (/\ commands' # commands /\ run.adj.rule = None
       /\ Private(run.adj.success) /\ Private(run.adj.failure)
       /\ run.agenda.queue = <<>>)
      => \A b \in Actors \ {run.adj.actor} : View(game', b) = View(game, b) ]_vars

\* The party moves only along ways that are open where it moves: through a gate
\* that was opened, or conditions that hold, never past a guide.
OpenWay(s, a) ==
  {<<e.from, e.to>> : e \in {w \in Module.edges :
      /\ w.traversal # "guided"
      /\ \A c \in w.conditions : Satisfies(s, a, c)
      /\ (w.traversal = "gated" /\ w.conditions = {}) =>
            Flag(s, w.access, "unlocked") \/ Flag(s, w.access, "open")}}
  \cup {<<e.from, e.to>> : e \in RuntimeEdges(s)}

TravelNeedsAWay ==
  [][ (run # Idle /\ run' # Idle /\ run'.draft.scene # run.draft.scene)
      => run'.draft.scene \in ReachableBy(OpenWay(run.draft, run.adj.actor), run.draft.scene,
                                         Cardinality(LocationIds(run.draft))) ]_vars
=============================================================================
