------------------------------ MODULE MCWorld ------------------------------
(***************************************************************************)
(* A haunted house: a street, a hall, a study behind a locked door and a   *)
(* crypt below a slab, to which a secret stair and the study both lead.    *)
(***************************************************************************)
EXTENDS ModuleValidation, TLC

CONSTANTS a, b

MCActors == {a, b}
MCKit == [x \in Actors |-> IF x = a THEN {"lantern"} ELSE {}]

Edge(n, from, to, traversal, visibility, access, conditions) ==
  [id |-> <<"edge", n>>, from |-> from, to |-> to, traversal |-> traversal,
   visibility |-> visibility, access |-> access, conditions |-> conditions]

FlagIs(id, key, value) == [name |-> "entity_state_is", id |-> id, key |-> key, value |-> value]

SlabOpen == {{Is(FlagIs("slab", "open", TRUE))}}

EntityOf(kind, located, flags, visibility, conditions) ==
  [item |-> kind = "item", carriedBy |-> None, located |-> located, flags |-> flags,
   visibility |-> visibility, conditions |-> conditions]

Step(kind, effect, next) == [kind |-> kind, effect |-> effect, next |-> next, passive |-> FALSE]

EventRule(id, type, when, priority, steps, maxSteps, maxDepth) ==
  [id |-> id, trigger |-> "event", eventType |-> type, when |-> when, priority |-> priority,
   entry |-> "default", branches |-> [default |-> 1], steps |-> steps,
   maxSteps |-> maxSteps, maxDepth |-> maxDepth]

Reveal(id, scope) == [type |-> "reveal_information", id |-> id, scope |-> scope]
Hide(id, scope) == [type |-> "hide_information", id |-> id, scope |-> scope]
Show(kind, id, visible, scope) ==
  [type |-> "set_visibility", kind |-> kind, id |-> id, visible |-> visible, scope |-> scope]
Enter(id) == [type |-> "enter_location", id |-> id]
Change(id, key, value) == [type |-> "change_entity_state", id |-> id, key |-> key, value |-> value]
Move(id, at, holder) == [type |-> "move_entity", id |-> id, at |-> at, holder |-> holder]
Consume(id) == [type |-> "consume_entity", id |-> id]
NewPlace(id, connected) ==
  [type |-> "ensure_runtime_location", id |-> id, connected |-> connected, parent |-> None]
NewEntity(id, kind, at) == [type |-> "ensure_runtime_entity", id |-> id, kind |-> kind, at |-> at]
Advance(to) == [type |-> "advance_world_time", to |-> to]

\* The door's rule finds the slab; the slab's state is an event again, and calls
\* it again, until the chain is too deep.  Resolving the core has to be
\* presented before anything else follows.  Who knows the truth spreads a rumor,
\* more than one command has steps for.  At night one is led back to the hall, and
\* finds a candle that is only there once.
MCRules ==
  {EventRule(1, "entity.state_changed", {{Is(FlagIs("door", "open", TRUE)), Not([name |-> "core_resolved", value |-> TRUE])}}, 5,
             <<Step("effect", Change("slab", "discovered", TRUE), 2), Step("finish", None, None)>>, 4, 2),
   EventRule(2, "core.resolved", Always, 5,
             <<Step("effect", Reveal("truth", "party"), 2), Step("presentation", None, None)>>, 4, 4),
   EventRule(3, "core.resolved", Always, 1,
             <<Step("effect", [type |-> "set_ending_availability", available |-> TRUE], 2),
               Step("finish", None, None)>>, 4, 4),
   EventRule(4, "travel.resolved", {{Is([name |-> "time_of_day_is", value |-> "night"])}}, 0,
             <<Step("effect", Enter("hall"), 2), Step("effect", NewEntity("candle", "object", "hall"), 1)>>,
             4, 4),
   EventRule(5, "information.revealed", {{Is([name |-> "information_is", id |-> "truth"])}}, 0,
             <<Step("effect", Reveal("rumor", "party"), 2), Step("finish", None, None)>>, 3, 4),
   [id |-> 6, trigger |-> "agent_match", options |-> {"push", "look"}, priority |-> 0,
    scope |-> [locations |-> {"hall"}, families |-> {}, kinds |-> {"entity"}, targets |-> {"slab"}],
    branches |-> [push |-> 1, look |-> 3], maxSteps |-> 4, maxDepth |-> 4,
    steps |-> <<[kind |-> "check", passive |-> FALSE, routes |-> [regular_success |-> 2, failure |-> 4]],
                Step("effect", Change("slab", "open", TRUE), 4),
                Step("effect", Reveal("rumor", "actor"), 4),
                Step("finish", None, None)>>]}

MCModule ==
  LET edges ==
        {Edge(1, "street", "hall", "automatic", "public", None, {}),
         Edge(2, "hall", "street", "automatic", "public", None, {}),
         Edge(3, "hall", "study", "gated", "public", "door", {}),
         Edge(4, "study", "hall", "automatic", "public", None, {}),
         Edge(5, "hall", "crypt", "automatic", "hidden", "slab", {SlabOpen}),
         Edge(6, "study", "crypt", "automatic", "public", None, {}),
         Edge(7, "crypt", "hall", "automatic", "public", None, {})}
      spec ==
        [door  |-> EntityOf("object", "hall", [locked |-> TRUE], "public", {}),
         slab  |-> EntityOf("object", "hall", Empty, "public",
                            {{{Is(FlagIs("slab", "discovered", TRUE))}}}),
         diary |-> EntityOf("item", "study", Empty, "party", {}),
         amulet |-> [EntityOf("item", None, Empty, "keeper", {}) EXCEPT !.carriedBy = "ghoul"],
         ghoul |-> EntityOf("npc", "crypt", Empty, "keeper", {})]
  IN  [locations |-> {"street", "hall", "study", "crypt"},
       parent |-> [street |-> None, hall |-> "street", study |-> "hall", crypt |-> "hall"],
       region |-> "street" :> "street", edges |-> edges,
       entities |-> DOMAIN spec, spec |-> spec,
       entityState |-> [e \in DOMAIN spec |-> Empty],
       information |-> {"rumor", "truth"},
       fact |-> [rumor |-> [pivotal |-> FALSE, known |-> FALSE, forPlayers |-> TRUE],
                 truth |-> [pivotal |-> TRUE, known |-> FALSE, forPlayers |-> TRUE]],
       revealed |-> {}, rules |-> MCRules, world |-> "world", start |-> "hall",
       points |-> <<[hour |-> 12], [hour |-> 20]>>, startPoint |-> 1]

Free(actor, checked, success, failure) ==
  [actor |-> actor, target |-> [kind |-> "location", id |-> "hall"], family |-> "act",
   rule |-> None, checked |-> checked, success |-> success, failure |-> failure,
   consented |-> FALSE, intent |-> "none", explicit |-> FALSE]

Ruled(actor, option, checked) ==
  [Free(actor, checked, <<>>, <<>>) EXCEPT !.target = [kind |-> "actor", id |-> "slab"],
                                            !.rule = [rule |-> 6, option |-> option]]

MCAdjudications ==
  {Free(a, FALSE, <<Enter("study")>>, <<>>),
   Free(b, FALSE, <<Enter("street")>>, <<>>),
   Free(b, FALSE, <<Enter("crypt")>>, <<>>),
   Free(a, TRUE, <<Change("door", "open", TRUE)>>, <<Reveal("rumor", "actor")>>),
   Free(a, FALSE, <<Reveal("truth", "actor")>>, <<>>),
   Free(a, FALSE, <<Reveal("truth", "party"), Change("door", "open", TRUE)>>, <<>>),
   Free(b, FALSE, <<Hide("truth", "party"), Show("entity", "door", FALSE, "party")>>, <<>>),
   Free(b, FALSE, <<Show("location", "crypt", TRUE, "actor")>>, <<>>),
   Free(a, FALSE, <<Show("location", "crypt", FALSE, "party")>>, <<>>),
   Free(a, FALSE, <<NewPlace("inn", "street"), Enter("inn")>>, <<>>),
   Free(b, FALSE, <<Show("location", "inn", FALSE, "party")>>, <<>>),
   Free(a, FALSE, <<NewEntity("coin", "object", "hall"), Move("coin", None, a)>>, <<>>),
   Free(b, TRUE, <<NewEntity("coin", "object", "street")>>, <<NewEntity("coin", "npc", "street")>>),
   Free(b, FALSE, <<Move("diary", None, b), Move("ghoul", "hall", None)>>, <<>>),
   Free(b, FALSE, <<Consume("diary"), Consume("ghoul")>>, <<>>),
   [Free(a, FALSE, <<Advance(2)>>, <<>>) EXCEPT !.consented = TRUE],
   Free(a, FALSE, <<[type |-> "mark_core_resolved"]>>, <<>>),
   Ruled(b, "push", TRUE), Ruled(a, "look", FALSE)}

-----------------------------------------------------------------------------
\* The files looked at: a sound house, and what an author may get wrong in it:
\* which place is in which, what follows what in a rule, what is named.
Site(id, parent) == [id |-> id, parent |-> parent, region |-> None]
WithId(id, record) == [id |-> id] @@ record
StepAt(id, kind, effect, next) == [id |-> id] @@ Step(kind, effect, next)
EffectOn(c, id) == [type |-> "narrative_only", refs |-> (c :> id)]

Author(next, routed) ==
  <<[id |-> 1, trigger |-> "event", eventType |-> "core.resolved", when |-> SlabOpen, priority |-> 0,
     entry |-> "default", presentation |-> "shiver", maxSteps |-> 8, maxDepth |-> 2,
     branches |-> <<[id |-> "default", entry |-> 1]>>,
     steps |-> <<StepAt(1, "effect", EffectOn("location", "crypt"), next[1]),
                 StepAt(2, "effect", EffectOn("entity", "door"), next[2]),
                 [StepAt(3, "presentation", None, next[3]) EXCEPT !.passive = TRUE]
                   @@ [presentation |-> "shiver"],
                 StepAt(4, "finish", None, None)>>],
    [id |-> 2, trigger |-> "agent_match", options |-> {"push"}, priority |-> 0, entry |-> None,
     scope |-> [locations |-> {"hall"}, families |-> {}, kinds |-> {}, targets |-> {"nobody"}],
     presentation |-> None, maxSteps |-> 8, maxDepth |-> 2,
     branches |-> <<[id |-> "push", entry |-> 1]>>,
     steps |-> <<[id |-> 1, kind |-> "check", binding |-> "actor", passive |-> FALSE,
                  routes |-> [regular_success |-> 2, failure |-> routed]],
                 StepAt(2, "effect", EffectOn("information", "truth"), 3),
                 StepAt(3, "finish", None, None)>>]>>

House ==
  [information |-> <<WithId("rumor", MCModule.fact.rumor), WithId("truth", MCModule.fact.truth)>>,
   goals |-> <<[id |-> "learn", targets |-> {"truth"}]>>, required |-> {"learn"},
   anchors |-> <<[id |-> "dawn", facts |-> {"rumor"}]>>,
   entities |-> <<WithId("door", MCModule.spec.door) @@ [relations |-> {"hall"}],
                  WithId("diary", MCModule.spec.diary) @@ [relations |-> {}]>>,
   locations |-> <<Site("street", None), Site("hall", "street"), Site("study", "hall"),
                   Site("crypt", "hall")>>,
   edges |-> <<Edge(1, "street", "hall", "automatic", "public", None, {}),
               Edge(3, "hall", "study", "gated", "public", "door", {SlabOpen})>>,
   rules |-> Author(<<2, 3, 4>>, 3), world |-> "world", start |-> "hall", placement |-> None,
   revealed |-> {}, entityState |-> Empty, startPoint |-> None,
   points |-> <<[id |-> "noon", hour |-> 12, order |-> 0], [id |-> "evening", hour |-> 20, order |-> 1]>>]

Hierarchies ==
  LET places == Ids(House.locations)
  IN  {[House EXCEPT !.locations = <<Site("street", up.street), Site("hall", up.hall),
                                     Site("study", up.study), Site("crypt", up.crypt)>>] :
         up \in [places -> places \cup {None}]}

RuleGraphs ==
  {[House EXCEPT !.rules = Author(next, routed)] : next \in [1..3 -> 1..5], routed \in {2, 4}}

Misnamed ==
  LET Nowhere(d) ==
        {[d EXCEPT !.start = "attic"], [d EXCEPT !.placement = "attic"], [d EXCEPT !.revealed = {"lie"}],
         [d EXCEPT !.edges[1].to = "attic"], [d EXCEPT !.edges[2].access = "gate"],
         [d EXCEPT !.edges[2].from = "study"], [d EXCEPT !.entities[2].located = "attic"],
         [d EXCEPT !.entities[1].relations = {"attic"}], [d EXCEPT !.goals[1].targets = {"lie"}],
         [d EXCEPT !.required = {"win"}], [d EXCEPT !.anchors[1].facts = {"lie"}],
         [d EXCEPT !.entityState = [gate |-> Empty]], [d EXCEPT !.startPoint = "dawn"],
         [d EXCEPT !.startPoint = "evening"], [d EXCEPT !.locations[2].region = "attic"],
         [d EXCEPT !.points[2].hour = 3], [d EXCEPT !.points[1].order = 1, !.points[2].order = 0],
         [d EXCEPT !.locations[4].id = "study"], [d EXCEPT !.rules[1].when = {{Is([name |-> "is_haunted"])}}],
         [d EXCEPT !.rules[1].presentation = "scream"], [d EXCEPT !.rules[2].options = {"push", "pull"}],
         [d EXCEPT !.rules[2].steps[1].binding = "everybody"],
         [d EXCEPT !.rules[2].steps[2].effect.refs = [information |-> "lie"]],
         [d EXCEPT !.rules[2].steps[2].effect.type = "commit_terminal_ending"]}
  IN  Nowhere(House)

MCDrafts == {House} \cup Hierarchies \cup RuleGraphs \cup Misnamed
=============================================================================
