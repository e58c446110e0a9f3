------------------------------ MODULE HostTurn ------------------------------
(***************************************************************************)
(* A turn of a player, from the words to what the engine commits:          *)
(* ActionPlanTurnApplication.start (core/action_plan_turn.py) with         *)
(* HostTurnDecisionExecutor.execute (action_plan_orchestrator.py) on the   *)
(* world of World.                                                         *)
(*                                                                         *)
(* The room lock lets one turn at a time run.  It does not stop the        *)
(* choices in a check that waits, which commit between the awaits of the   *)
(* turn.  The number of commits is the revision of the state.  Plans are   *)
(* run here for what their steps decide; ActionPlan has their protocol.    *)
(***************************************************************************)
EXTENDS Preservation

CONSTANTS Utterances,   \* what players say
          Proposals,    \* what the model proposes, whoever acts
          MaxRepairs    \* ActionPlanPolicy.max_repair_attempts

\* The fields an adjudication has (ActionAdjudication, contracts/adjudication.py).
AdjudicationFields ==
  {"actor", "target", "family", "rule", "checked", "success", "failure", "consented",
   "intent", "explicit", "summary", "how"}

\* What a model proposes was parsed: it has the fields of an adjudication, and
\* effects of some type as their contract has them.  Nobody names everybody, and
\* a code is not the lack of one.
ASSUME HostAssumption ==
  /\ \A p \in Proposals :
        /\ DOMAIN p = AdjudicationFields
        /\ \A effects \in {p.success, p.failure} :
              Proposable(effects) /\ \A i \in DOMAIN effects : "type" \in DOMAIN effects[i]
  /\ \A said \in Utterances : IsFiniteSet(said.people)
  /\ None \notin {"SOURCE_REVISION_STALE", "TARGET_UNAVAILABLE", "UNKNOWN_RULE",
                  "RULE_OUT_OF_SCOPE", "PERSISTENT_EFFECT_REQUIRED", "PERSISTENT_EFFECT_MISMATCH",
                  "TERMINAL_ENDING", "INVENTORY_TARGET_NOT_PORTABLE", "TIME_ADVANCE_BLOCKED",
                  "TIME_POINT_MISMATCH"}

VARIABLE turn

hostVars == <<vars, turn>>

\* at, the await it is at, or how it ended; steps, those of its plan that are
\* left; first, its adjudication as it was first sent; decided, the revision it
\* was made with, and made, the one it claims; codes, those it was refused with;
\* named, the place the player's words named when they were first understood.
Ended == {"idle", "told", "waiting", "clarified", "failed"}

NoTurn == [at |-> "idle", actor |-> None, said |-> None, steps |-> <<>>, adj |-> None,
           first |-> None, decided |-> 0, made |-> 0, attempts |-> 0, code |-> None,
           codes |-> {}, named |-> None]

HostInit == Init /\ turn = NoTurn

IsPlan == turn.steps # <<>>

Ctx == IF IsPlan
       THEN [single |-> FALSE, kind |-> Head(turn.steps).kind, goal |-> Head(turn.steps).goal,
             said |-> turn.said]
       ELSE [single |-> TRUE, kind |-> StepKind(turn.first), goal |-> turn.first.summary,
             said |-> turn.said]

By(a, proposal) == [proposal EXCEPT !.actor = a]

\* What the model may propose for an actor.
Proposed(a) == {By(a, p) : p \in Proposals}

\* A model that is not there: the words as one step.
Spoken(said, kind) == [single |-> TRUE, kind |-> kind, goal |-> said.words, said |-> said]

EndTurn(how) == turn' = [NoTurn EXCEPT !.at = how]

\* The turns a model's answer may begin, or what is said without a model: with a
\* plan, or with a decision, which is normalized first.
Beginnings(a, said) ==
  LET answers == Proposed(a) \cup {Offline(game, a, Spoken(said, said.kind))}
      Taking(named) ==
        LET begun == [NoTurn EXCEPT !.actor = a, !.said = said, !.decided = commands,
                                      !.named = named]
            Taken(n)  == IF n.steps # <<>> THEN [begun EXCEPT !.at = "step", !.steps = n.steps]
                         ELSE [begun EXCEPT !.at = "decided", !.adj = n.adj, !.first = n.adj]
        IN  IF said.plan # <<>> THEN {[begun EXCEPT !.at = "step", !.steps = said.plan]}
            ELSE {Taken(Normalized(game, said, p, named)) : p \in answers}
  IN  Taking(TravelTarget(game, a, said.words))

\* start: the view, and the planner's answer to it.
Understand(a, said) ==
  /\ run = Idle /\ turn.at \in Ended
  /\ turn' \in Beginnings(a, said)
  /\ UNCHANGED vars

\* execute: the view is projected again, and the decision bound to its revision.
Bind ==
  /\ run = Idle /\ turn.at = "decided"
  /\ turn' = [turn EXCEPT !.at = "bound", !.made = commands]
  /\ UNCHANGED vars

\* _freeze_current_adjudication: a step is decided with the view it is bound to.
Freeze(d) ==
  IF d = NotFound THEN EndTurn("clarified")
  ELSE turn' = [turn EXCEPT !.at = "bound", !.adj = d, !.first = d, !.decided = commands,
                            !.made = commands, !.attempts = 0, !.codes = {},
                            !.named = TravelTarget(game, turn.actor, Ctx.goal)]

DecideStep ==
  /\ run = Idle /\ turn.at = "step"
  /\ \E d \in RuleFirst(game, turn.actor, Ctx, Proposed(turn.actor)) : Freeze(d)
  /\ UNCHANGED vars

\* After a refusal: another attempt, or the host asks the player.  An unknown
\* rule is no refusal but an error, which a single action does not survive.
AfterRefusal(code) ==
  IF code \in Repairable /\ turn.attempts < MaxRepairs
  THEN turn' = [turn EXCEPT !.at = "repair", !.code = code, !.codes = @ \cup {code}]
  ELSE EndTurn(IF code = "UNKNOWN_RULE" /\ ~IsPlan THEN "failed" ELSE "clarified")

\* submit: refused, begun, or a check that waits for the player's choice.
Accepted ==
  IF turn.adj.checked
  THEN /\ Cardinality(pending) < MaxPending
       /\ pending' = pending \cup {turn.adj}
       /\ EndTurn("waiting")
       /\ UNCHANGED <<game, run, commands, audit>>
  ELSE /\ run' = Begun(turn.adj, NoRoll, OwnedEffects(turn.adj, NoRoll))
       /\ turn' = [turn EXCEPT !.at = "sent"]
       /\ UNCHANGED <<game, pending, commands, audit>>

\* A rule that cannot be run to its end is refused for good: it stops a plan.
Answered(code) ==
  CASE code # None -> AfterRefusal(code) /\ UNCHANGED vars
    [] code = None /\ ~turn.adj.checked /\ ~Runnable(turn.adj) ->
         EndTurn(IF IsPlan THEN "failed" ELSE "clarified") /\ UNCHANGED vars
    [] OTHER -> Accepted

Send ==
  /\ run = Idle /\ turn.at = "bound" /\ commands < MaxCommands
  /\ Answered(Rejection(game, commands, turn.adj, turn.made))

\* The proposal that is to take its place, on the latest view; what changes
\* more than the mechanics of the action is not sent.
Resend(d) ==
  IF d = NotFound \/ ~Preserved(game, turn.actor, turn.said, turn.adj, d, turn.code)
  THEN EndTurn("clarified")
  ELSE turn' = [turn EXCEPT !.at = "bound", !.adj = d, !.decided = commands,
                            !.made = commands, !.attempts = @ + 1]

Repair ==
  /\ run = Idle /\ turn.at = "repair"
  /\ \E d \in RuleFirst(game, turn.actor, Ctx, Proposed(turn.actor)) : Resend(d)
  /\ UNCHANGED vars

\* The transaction under way, this turn's or a check's.  A refusal while it is
\* applied rolls it back, and is one more refusal of the turn.
Engine ==
  /\ ApplyEffect \/ Conclude \/ ReadEvent \/ FireRule \/ EndRule \/ Commit
  /\ CASE turn.at # "sent" \/ run' # Idle -> UNCHANGED turn
       [] turn.at = "sent" /\ run' = Idle /\ commands' # commands ->
            turn' = [turn EXCEPT !.at = "committed", !.made = commands']
       [] OTHER ->
            AfterRefusal(IF run.at = "effects" /\ Head(run.todo).type = "move_entity"
                     THEN "INVENTORY_TARGET_NOT_PORTABLE" ELSE "TARGET_UNAVAILABLE")

\* refresh_adjudication: the view has to be the one of the execution.
Refresh ==
  /\ run = Idle /\ turn.at = "committed"
  /\ IF commands # turn.made THEN EndTurn("failed")
     ELSE IF Len(turn.steps) > 1
     THEN turn' = [turn EXCEPT !.at = "step", !.steps = Tail(@), !.code = None]
     ELSE EndTurn("told")
  /\ UNCHANGED vars

\* A choice in a check that waits, by whoever it is.
Choice == \E adj \in pending : \/ Cancel(adj)
                               \/ \E result \in Results : Resolve(adj, result)

HostNext ==
  \/ \E a \in Actors, said \in Utterances : Understand(a, said)
  \/ Bind
  \/ DecideStep
  \/ Repair
  \/ Send
  \/ Engine
  \/ Refresh
  \/ Choice /\ UNCHANGED turn

HostSpec == HostInit /\ [][HostNext]_hostVars

-----------------------------------------------------------------------------
\* What the host decides by itself, the engine takes: it does not refuse the
\* decision on the state it was made on, nor any effect of it that it applies.
AppliedAll(s, a, effects) ==
  LET run_[n \in 0..Len(effects)] ==
        IF n = 0 THEN Done(s, None)
        ELSE IF run_[n - 1].ok THEN Apply(run_[n - 1].state, a, effects[n]) ELSE run_[n - 1]
  IN  run_[Len(effects)].ok

HostDecisionsStand ==
  (run = Idle /\ turn.at \in Ended) => \A a \in Actors, said \in Utterances :
     LET d == Deterministic(game, a, Spoken(said, said.kind))
     IN  d # None => /\ Rejection(game, commands, d, commands) = None
                     /\ AppliedAll(game, a, OwnedEffects(d, NoRoll))

\* What its author has to see to, for the host's decision on a rule to stand: the
\* rule has options, each with a branch; if it asks for kinds of targets it names
\* targets, of all of these kinds, and else targets are things or places only; and
\* nothing it does can fail, as a journey or handing over what is no item may.
\* And of a rule, words choose no option but its own.
KindsIn(id) ==
  {k \in {"information", "entity", "location", "actor", "world"} :
     \/ k = "information" /\ id \in Module.information
     \/ k = "entity"      /\ id \in Module.entities
     \/ k = "location"    /\ id \in Module.locations
     \/ k = "actor"       /\ id \in Actors
     \/ k = "world"       /\ id = Module.world}

Unfailing(e) ==
  /\ e.type \in {"narrative_only", "reveal_information", "hide_information", "set_visibility",
                 "ensure_runtime_location", "ensure_runtime_entity", "move_entity",
                 "change_entity_state", "consume_entity", "advance_world_time",
                 "mark_core_resolved", "set_ending_availability"}
  /\ e.type = "move_entity" => e.holder = None

Fits(r) ==
  /\ r.options # {} /\ r.options \subseteq DOMAIN r.branches
  /\ r.scope.kinds # {} => /\ r.scope.targets # {}
                          /\ \A id \in r.scope.targets : r.scope.kinds \subseteq KindsIn(id)
  /\ r.scope.kinds = {} => \A id \in r.scope.targets :
                             KindsIn(id) # {} /\ KindsIn(id) \subseteq {"entity", "location"}
  /\ \A i \in DOMAIN r.steps : r.steps[i].kind = "effect" => Unfailing(r.steps[i].effect)

RulesFit ==
  /\ \A r \in {q \in Module.rules : q.trigger = "agent_match"} : Fits(r)
  /\ \A said \in Utterances : \A id \in DOMAIN said.rules :
        \A r \in Module.rules : r.id = id => said.rules[id].option \in {None} \cup r.options

\* A place the player named is where a journey goes, whatever the model proposed
\* and however often it was repaired: the party ends there, or where the closed
\* way to it begins.
NamedPlaceWins ==
  [][ (/\ turn.at = "sent" /\ commands' # commands
       /\ turn.named # None /\ turn.first.family = "travel")
      => LET way == ResolveLocationTarget(game, turn.actor, turn.named)
         IN  game'.scene \in {game.scene, turn.named}
             \/ (way.status = "known_blocked" /\ game'.scene = End(way.path)) ]_hostVars

\* Without the player nothing is smuggled in: unless what has to last was missing
\* or a thing could not be carried, the action that is sent after its repairs
\* does what the first one did, effect by effect, if to another target; never is
\* a check dropped or an effect of a failure changed.
Kinds(effects) == [i \in {j \in DOMAIN effects : effects[j].type # "narrative_only"} |->
                    effects[i].type]

NothingSmuggledIn ==
  turn.at \in {"bound", "sent"} =>
    /\ turn.adj.checked = turn.first.checked
    /\ turn.adj.rule \in {turn.first.rule, None}
    /\ Kinds(turn.adj.failure) = Kinds(turn.first.failure)
    /\ turn.codes \cap {"PERSISTENT_EFFECT_REQUIRED", "PERSISTENT_EFFECT_MISMATCH",
                         "INVENTORY_TARGET_NOT_PORTABLE"} = {}
       => Kinds(turn.adj.success) = Kinds(turn.first.success)
=============================================================================
