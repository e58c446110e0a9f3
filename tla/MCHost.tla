------------------------------- MODULE MCHost -------------------------------
(***************************************************************************)
(* A turn in a small house: a street that is the public road, a hall, a    *)
(* study behind a locked door and a crypt nobody knows of.  Ann is in the  *)
(* hall, Bob in the street; the diary in the hall cannot be carried once   *)
(* it is used up.                                                          *)
(***************************************************************************)
EXTENDS MCWorld, HostTurn

\* A rule that waits for a presentation, and so cannot be run to its end.
Stuck ==
  [id |-> 7, trigger |-> "agent_match", options |-> {"wait"}, priority |-> 0,
   scope |-> [locations |-> {}, families |-> {}, kinds |-> {}, targets |-> {}],
   branches |-> [wait |-> 1], maxSteps |-> 4, maxDepth |-> 4,
   steps |-> <<Step("presentation", None, None)>>]

HostModule ==
  LET spec == [door  |-> EntityOf("object", "hall", [locked |-> TRUE], "public", {}),
               slab  |-> EntityOf("object", "hall", Empty, "public", {}),
               diary |-> EntityOf("item", "hall", Empty, "party", {}),
               ann   |-> EntityOf("npc", "hall", Empty, "public", {}),
               bob   |-> EntityOf("npc", "street", Empty, "public", {})]
  IN  [MCModule EXCEPT !.edges = {e \in @ : e.id[2] # 6}, !.spec = spec, !.entities = DOMAIN spec,
                       !.entityState = [e \in DOMAIN spec |-> Empty],
                       !.rules = {r \in MCRules : r.id = 6} \cup {Stuck}]

\* Whose choice in a check it is makes no difference here: one player is enough.
HostActors == {a}

HostConnectors == {"street"}

Words(text, names) ==
  [text |-> text, travels |-> names # Empty, names |-> names, direct |-> names # Empty, venue |-> None]

Says(words, kind) ==
  [words |-> words, kind |-> kind, together |-> FALSE, people |-> {}, things |-> Empty,
   rules |-> Empty, limits |-> {}, mentions |-> {}, plan |-> <<>>]

ToStudy == Words("to the study", "study" :> 5 @@ "hall" :> 2)
ToInn   == [Words("to an inn", Empty) EXCEPT !.travels = TRUE, !.direct = TRUE, !.venue = "inn"]
Below   == [Words("below", "crypt" :> 5) EXCEPT !.direct = FALSE]
TakeDiary == Words("take the diary", Empty)
PushSlab  == Words("push the slab", Empty)
Rest      == Words("rest until noon", Empty)

HostUtterances ==
  {[Says(ToStudy, "travel") EXCEPT !.together = TRUE, !.people = {"ann"}],
   [Says(Below, "travel") EXCEPT !.together = TRUE, !.people = {"bob"}],
   Says(ToInn, "travel"),
   [Says(TakeDiary, "action") EXCEPT !.things = "diary" :> 1, !.mentions = {"diary"}],
   [Says(PushSlab, "action") EXCEPT !.things = "slab" :> 1, !.mentions = {"slab"},
                                    !.limits = {"unspent"},
                                    !.rules = 6 :> [rank |-> 3, option |-> "push"]],
   [Says([Words("out, rest, then below", Empty) EXCEPT !.direct = TRUE], "action") EXCEPT
      !.plan = <<[kind |-> "travel", goal |-> Words("to the street", "street" :> 3)],
                 [kind |-> "rest", goal |-> Rest],
                 [kind |-> "travel", goal |-> [Below EXCEPT !.direct = TRUE]]>>]}

\* The rules of the house are as an author should write them.
ASSUME HouseRulesFit == RulesFit

Proposal(target, family, effects, goal) == Decision(None, target, family, effects, goal)

HostProposals ==
  {Proposal(Place("street"), "travel", <<Enter("street")>>, ToStudy),
   [Proposal(Place("hall"), "travel", <<Enter("study"), Move("ann", "hall", None)>>, ToStudy)
      EXCEPT !.intent = "location"],
   Proposal(Place("street"), "travel",
            <<NewPlace("inn", "street"), Enter("inn")>>, ToInn),
   [Proposal(Thing("diary"), "pick_up", <<Move("diary", None, a)>>, TakeDiary) EXCEPT !.intent = "inventory"],
   [Proposal(Thing("slab"), "pick_up", <<Move("slab", None, a)>>, TakeDiary) EXCEPT !.intent = "inventory"],
   [Proposal(Thing("slab"), "open", <<Narrative>>, PushSlab) EXCEPT !.checked = TRUE, !.intent = "object_state"],
   [Proposal(Thing("slab"), "open", <<Change("slab", "open", TRUE)>>, PushSlab)
      EXCEPT !.checked = TRUE, !.intent = "object_state"],
   [Proposal(Thing("crypt"), "act", <<Narrative>>, PushSlab) EXCEPT
      !.failure = <<Consume("diary")>>],
   [Proposal(Thing("slab"), "act", <<Change("slab", "discovered", TRUE)>>, PushSlab) EXCEPT
      !.failure = <<Consume("diary")>>],
   [Proposal(Thing("slab"), "act", <<Narrative>>, PushSlab) EXCEPT
      !.failure = <<Consume("diary")>>],
   Proposal(Place("hall"), "rest", <<Advance(None)>>, Rest),
   Proposal(Place("crypt"), "travel", <<Enter("crypt")>>, Silent),
   [Proposal(Place("hall"), "act", <<Narrative>>, Silent) EXCEPT !.rule = [rule |-> 7, option |-> "wait"]],
   [Proposal(Thing("slab"), "act", <<Narrative>>, PushSlab) EXCEPT
      !.rule = [rule |-> 6, option |-> "push"], !.checked = TRUE]}
=============================================================================
