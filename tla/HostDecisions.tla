--------------------------- MODULE HostDecisions ----------------------------
(***************************************************************************)
(* What the host decides without asking a model, and what it makes of a    *)
(* model's decision: core/action_plan_turn.py.                             *)
(*                                                                         *)
(* Words are given by what they hit.  A phrase says whether it holds a     *)
(* verb of travel, how well it names each place, whether it names its      *)
(* destination directly, and the common venue it asks for; an utterance,   *)
(* besides its words, the people it wants along, how well it hits what can *)
(* be seen and the rules that are published, and the limits it sets.       *)
(* Longer hits rank higher; hits of one rank are ambiguous.                *)
(***************************************************************************)
EXTENDS World, SequencesExt, TLC

CONSTANTS Connectors   \* places of the public road net

Silent == [text |-> "none", travels |-> FALSE, names |-> Empty, direct |-> FALSE, venue |-> None]

Narrative == [type |-> "narrative_only"]
EnterPlace(l) == [type |-> "enter_location", id |-> l]
MovePerson(p, l) == [type |-> "move_entity", id |-> p, at |-> l, holder |-> None]

\* An adjudication as the host builds it: summary and how are its wording.
Decision(a, target, family, effects, goal) ==
  [actor |-> a, target |-> target, family |-> family, rule |-> None, checked |-> FALSE,
   success |-> effects, failure |-> <<>>, consented |-> FALSE, intent |-> "none",
   explicit |-> FALSE, summary |-> goal, how |-> goal]

Place(l)  == [kind |-> "location", id |-> l]
Thing(e)  == [kind |-> "entity", id |-> e]

\* The one that ranks above all others, or None.
FirstOf(set, default) == IF set = {} THEN default ELSE CHOOSE x \in set : TRUE

Top(ranks, hit) == {x \in hit : \A y \in hit \ {x} : ranks[y] < ranks[x]}

Best(ranks, candidates) == FirstOf(Top(ranks, candidates \cap DOMAIN ranks), None)

-----------------------------------------------------------------------------
\* A mutant: any place there is may be named.
DestinationsAll(s, a) == LocationIds(s)

\* _match_travel_target: of the places the player is shown, known and located or
\* at the end of an exit, the one that is named best.
Located(known) == {l \in DOMAIN known : known[l].localization = "located"}

Destinations(s, a) ==
  Located(KnownLocations(s, a)) \cup {e.to : e \in AvailableExits(s, a)}

TravelTarget(s, a, phrase) ==
  IF phrase.travels THEN Best(phrase.names, Destinations(s, a)) ELSE None

\* _has_unmatched_explicit_travel_destination.
Unmatched(s, a, phrase) == phrase.direct /\ TravelTarget(s, a, phrase) = None

\* _requested_companions and where the agent's view has them.
Requested(s, said) == IF said.together THEN said.people \cap EntityIds(s) ELSE {}

WhereIs(s, e) == KeeperEntity(s, e).at

\* _companion_move_effects: those who are here come along.
CompanionMoves(s, said, destination) ==
  SetToSeq({MovePerson(e, destination) : e \in {x \in Requested(s, said) : WhereIs(s, x) = s.scene}})

\* Those who would have to be met first.
Absent(s, said) == {e \in Requested(s, said) : WhereIs(s, e) \notin {None, s.scene}}

-----------------------------------------------------------------------------
\* _ambient_venue_anchor: a venue is hung on the road net, not on a private room.
Roads(known) == {l \in Connectors \cap Located(known) : known[l].access # "blocked"}

Anchor(s, a) == FirstOf(Roads(KnownLocations(s, a)), s.scene)

\* _ambient_venue_adjudication: a common venue, asked for in the player's own
\* words too, that collides with no place there is, becomes a place.
Coined(a, venue, anchor, goal) ==
  Decision(a, Place(anchor), "travel",
           <<[type |-> "ensure_runtime_location", id |-> venue, connected |-> anchor,
              parent |-> None], EnterPlace(venue)>>, goal)

Ambient(s, a, ctx) ==
  LET v == ctx.goal.venue
  IN  IF v = None \/ v # ctx.said.words.venue \/ v \in LocationIds(s)
         \/ (DOMAIN ctx.goal.names) \cap LocationIds(s) # {}
      THEN None
      ELSE Coined(a, v, Anchor(s, a), ctx.goal)

\* A step of travel.  Of a single action the player's own words come first.
TravelsTo(s, a, ctx, to) ==
      CASE to = None    -> Ambient(s, a, ctx)
        [] to # None /\ to = s.scene ->
             Decision(a, Place(to), "action", <<Narrative>>, [Silent EXCEPT !.text = to])
        [] OTHER -> Decision(a, Place(to), "travel",
                             <<EnterPlace(to)>> \o CompanionMoves(s, ctx.said, to), ctx.goal)

Preferred(first, second) == IF first # None THEN first ELSE second

Travels(s, a, ctx) ==
  TravelsTo(s, a, ctx,
            Preferred(IF ctx.single THEN TravelTarget(s, a, ctx.said.words) ELSE None,
                      TravelTarget(s, a, ctx.goal)))

\* _match_rule_candidate, and the decision that names the rule: what it does is
\* the rule's, and whether it asks for a check.
MatchedRule(s, said, target) ==
  LET published == {r.rule : r \in RuleCandidates(s)}
      fitting   == {r \in {q \in Module.rules : q.id \in published} :
                      target # None /\ r.scope.targets # {} => target \in r.scope.targets}
  IN  Best([r \in DOMAIN said.rules |-> said.rules[r].rank], {r.id : r \in fitting})

RuleDecision(s, a, ctx, rule, target) ==
  LET r == CHOOSE q \in Module.rules : q.id = rule
      option == IF ctx.said.rules[rule].option # None THEN ctx.said.rules[rule].option
                ELSE CHOOSE o \in r.options : TRUE
      kind == FirstOf(r.scope.kinds, IF target # None THEN "entity" ELSE "location")
      id   == FirstOf(r.scope.targets, IF target # None THEN target ELSE s.scene)
  IN  [Decision(a, [kind |-> kind, id |-> id], FirstOf(r.scope.families, ctx.kind), <<>>, ctx.goal)
         EXCEPT !.rule = [rule |-> rule, option |-> option],
                !.checked = PendingCheck(r, option) # None]

SeenThing(s, a, said) == Best(said.things, {v.id : v \in VisibleEntities(s, a)})

\* Anything else: a rule the words clearly mean, or talk with someone in sight.
ActsOn(s, a, ctx, target, rule) ==
       CASE rule # None -> RuleDecision(s, a, ctx, rule, target)
        [] rule = None /\ ctx.kind = "dialogue" /\ target # None ->
             Decision(a, Thing(target), "talk", <<Narrative>>, ctx.goal)
        [] OTHER -> None

Acts(s, a, ctx) ==
  LET On(target) == ActsOn(s, a, ctx, target, MatchedRule(s, ctx.said, target))
  IN  On(SeenThing(s, a, ctx.said))

\* _deterministic_step_adjudication: what the view settles, or None.  How long to
\* wait or to rest is for a model to say: _time_capability tells a party of no block
\* of its clock, and the module a room is pinned to has a point after every other.
Deterministic(s, a, ctx) ==
  CASE ctx.kind \in {"wait", "rest"} -> None
    [] ctx.kind = "travel" -> Travels(s, a, ctx)
    [] OTHER -> Acts(s, a, ctx)

\* _DeterministicStepAdjudicator, without a model: the rest is only told.
Offline(s, a, ctx) ==
  LET Aimed(target) == IF target # None THEN Thing(target) ELSE Place(s.scene)
  IN  Preferred(Deterministic(s, a, ctx),
                Decision(a, Aimed(SeenThing(s, a, ctx.said)), ctx.kind, <<Narrative>>, ctx.goal))

\* The same utterance, turned into an action that stays where it is and that the
\* engine will not take as travel.
Unresolved(s, adj, words) ==
  [adj EXCEPT !.summary = words, !.how = words, !.target = Place(s.scene), !.family = "travel",
              !.intent = "location", !.success = <<Narrative>>, !.failure = <<>>]

NotFound == [code |-> "TRAVEL_DESTINATION_NOT_FOUND"]

\* _RuleFirstStepAdjudicator: what the view settles; else the model's proposal,
\* unless it goes somewhere known in place of somewhere that is not.
Guarded(s, a, ctx, proposal) ==
  IF /\ ctx.kind = "travel" /\ ctx.said.words.direct /\ Unmatched(s, a, ctx.goal)
     /\ IdsOf(proposal.success, "ensure_runtime_location") = {}
  THEN IF ctx.single THEN Unresolved(s, proposal, ctx.said.words) ELSE NotFound
  ELSE proposal

RuleFirst(s, a, ctx, proposals) ==
  LET Answers(certain) == IF certain # None THEN {certain}
                          ELSE {Guarded(s, a, ctx, p) : p \in proposals}
  IN  Answers(Deterministic(s, a, ctx))

-----------------------------------------------------------------------------
Single(adj) == [steps |-> <<>>, adj |-> adj]

\* Two journeys in place of one: to the companion, and together to the end.
\* What is said of a step names the place it goes to.
Journey(l) == [text |-> l, travels |-> TRUE, names |-> l :> 9, direct |-> TRUE, venue |-> None]

Meeting(s, said, destination) ==
  LET companion == CHOOSE e \in Absent(s, said) : TRUE
  IN  [steps |-> <<[kind |-> "travel", goal |-> Journey(WhereIs(s, companion))],
                   [kind |-> "travel", goal |-> Journey(destination)]>>,
       adj |-> None]

\* A mutant: an effect that enters a place is left as the model wrote it.
RedirectedNot(adj, s, said, to) ==
  LET moves == CompanionMoves(s, said, to)
  IN  [adj EXCEPT !.intent = "location", !.success = @ \o moves]

\* The proposal, bound for the destination, with those who come along.
Redirected(adj, s, said, to) ==
  LET moves == CompanionMoves(s, said, to)
      along == {moves[i].id : i \in 1..Len(moves)}
      moved == {adj.success[i].id : i \in {j \in 1..Len(adj.success) :
                                             adj.success[j].type = "move_entity"}}
      Bound(e) == CASE e.type = "enter_location" -> EnterPlace(to)
                    [] e.type = "move_entity" -> IF e.id \in along THEN MovePerson(e.id, to) ELSE e
                    [] OTHER -> e
      missing == SetToSeq({m \in ToSet(moves) : m.id \notin moved})
  IN  [adj EXCEPT !.target  = IF to \in IdsOf(adj.success, "ensure_runtime_location")
                              THEN @ ELSE Place(to),
                  !.intent  = "location",
                  !.success = [i \in 1..Len(@) |-> Bound(@[i])] \o missing]

\* _normalize_single_travel_decision: a model's single action obeys the words of
\* the player, who may already be there, go nowhere that is known, have to meet
\* a companion first, or just be taken to another place.
Normalized(s, said, adj, named) ==
  LET enters  == IdsOf(adj.success, "enter_location")
      coined  == enters \cap IdsOf(adj.success, "ensure_runtime_location")
      aimed   == IF adj.target.kind = "location" THEN adj.target.id ELSE None
      to == Preferred(named, FirstOf(coined, aimed))
  IN  IF named = s.scene /\ Absent(s, said) = {}
      THEN Single([adj EXCEPT !.summary = [Silent EXCEPT !.text = named],
                              !.how = [Silent EXCEPT !.text = named],
                              !.target = Place(named), !.family = "action", !.intent = "none",
                              !.checked = FALSE, !.success = <<Narrative>>, !.failure = <<>>])
      ELSE IF said.words.direct /\ named = None /\ coined = {}
      THEN Single(Unresolved(s, adj, said.words))
      ELSE CASE adj.family # "travel" \/ enters = {} \/ to = None -> Single(adj)
             [] adj.family = "travel" /\ enters # {} /\ to # None /\ Absent(s, said) # {} ->
                  Meeting(s, said, to)
             [] OTHER -> Single(Redirected(adj, s, said, to))

\* _single_action_step_kind: the step a repair of a single action is.
StepKind(adj) ==
  IF adj.family \in {"travel", "wait", "rest", "dialogue"} THEN adj.family ELSE "action"
=============================================================================
