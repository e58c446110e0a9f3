----------------------------- MODULE Projection -----------------------------
(***************************************************************************)
(* What the state shows: to a player (project_v3, engine/projection_v3.py) *)
(* and to the agent that keeps the game (keeper_capabilities_v3).          *)
(***************************************************************************)
EXTENDS RuleWalk, Containment

VisibleToPlayers == {"public", "party"}

\* A mutant: an override of the whole party is forgotten.
OverrideAllowsOwn(s, a, kind, id) == At(s.override, <<a, kind, id>>, None) # FALSE

OverrideAllows(s, a, kind, id) == Override(s, a, kind, id) # FALSE

\* The gate of a canon entity: its visibility, its conditions, an override.
CanonShown(s, a, e) ==
  /\ Module.spec[e].visibility \in VisibleToPlayers
  /\ Met(s, a, Module.spec[e].conditions)
  /\ OverrideAllows(s, a, "entity", e)

\* Flags a standard effect made public.
PublicState(s, id, flags) ==
  [k \in At(s.publicKeys, id, {}) \cap PublicKeys \cap DOMAIN flags |-> flags[k]]

\* Everything here or carried by the actor, canon or coined, but what is hidden.
VisibleEntities(s, a) ==
  LET record(e) == IF e \in Module.entities THEN s.entities[e] ELSE s.runtimeEntities[e]
      place(e)  == IF e \in Module.entities /\ record(e).at = None
                   THEN Module.spec[e].located ELSE record(e).at
      here(e)   == place(e) = s.scene \/ record(e).holder = a
      shown(e)  == IF e \in Module.entities THEN CanonShown(s, a, e)
                   ELSE OverrideAllows(s, a, "entity", e)
  IN  {[id |-> e, state |-> PublicState(s, e, record(e).flags)] :
         e \in {x \in Module.entities \cup DOMAIN s.runtimeEntities :
                  ~record(x).consumed /\ here(x) /\ shown(x)}}

\* Recognized active items: carried by the actor, or lying where the party is.
ShownItems(s, a) ==
  {i \in DOMAIN s.items :
     /\ At(s.actorItems[a], i, At(s.partyItems, i, "unknown")) # "unknown"
     /\ s.items[i].status = "active"
     /\ s.items[i].origin = "canon" => i \in Module.entities /\ CanonShown(s, a, i)}

Inventory(s, a)  == {i \in ShownItems(s, a) : s.items[i].custody = [kind |-> "actor", ref |-> a]}
LooseItems(s, a) == {i \in ShownItems(s, a) : s.items[i].custody = [kind |-> "location", ref |-> s.scene]}

\* _available_exits: authored ways to known places, then runtime ways that no
\* shown exit leads to already.
AuthoredExits(s, knowledge) ==
  {e \in Module.edges : e.from = s.scene /\ At(knowledge, e.to, Unknown).existence # "unknown"}

WithRuntimeExits(s, a, authored) ==
  LET runtime  == {e \in RuntimeEdges(s) : /\ e.from = s.scene
                                           /\ OverrideAllows(s, a, "location", e.to)
                                           /\ \A f \in authored : f.to # e.to}
  IN  authored \cup {CHOOSE e \in runtime : e.to = l : l \in {e.to : e \in runtime}}

AvailableExits(s, a) == WithRuntimeExits(s, a, AuthoredExits(s, EffectiveKnowledge(s, a)))

KnownPlaces(knowledge) ==
  [l \in {k \in DOMAIN knowledge : knowledge[k].existence # "unknown"} |->
         [access |-> knowledge[l].access, visited |-> knowledge[l].visited,
          localization |-> knowledge[l].localization]]

KnownLocations(s, a) == KnownPlaces(EffectiveKnowledge(s, a))

KnownInformation(s, a) ==
  {i \in Module.information :
     /\ OverrideAllows(s, a, "information", i)
     /\ Module.fact[i].known \/ i \in s.facts \cup s.actorFacts[a]
     /\ Module.fact[i].forPlayers}

\* project_v3.
View(s, a) ==
  [scene |-> s.scene, context |-> LocationContext(s, a), entities |-> VisibleEntities(s, a),
   inventory |-> Inventory(s, a), loose |-> LooseItems(s, a), exits |-> AvailableExits(s, a),
   places |-> KnownLocations(s, a), information |-> KnownInformation(s, a),
   time |-> s.time, coreResolved |-> s.coreResolved, endingAvailable |-> s.endingAvailable]

-----------------------------------------------------------------------------
\* The candidates published to the agent where the party stands.
RuleCandidates(s) ==
  {[rule |-> r.id, options |-> {[id |-> o, check |-> PendingCheck(r, o) # None] : o \in r.options}] :
     r \in {q \in Module.rules : /\ q.trigger = "agent_match"
                                 /\ q.scope.locations = {} \/ s.scene \in q.scope.locations}}

\* Where an entity is and whether it is used up, an item by its custody.
KeeperEntity(s, e) ==
  LET record == IF e \in DOMAIN s.runtimeEntities THEN s.runtimeEntities[e]
                ELSE At(s.entities, e, Generic)
      custody(kind) == IF IsItem(s, e) /\ s.items[e].custody.kind = kind
                       THEN s.items[e].custody.ref ELSE None
      first(x, y) == IF x # None THEN x ELSE y
      located == IF e \in Module.entities THEN Module.spec[e].located ELSE None
  IN  [id |-> e, at |-> first(custody("location"), first(record.at, located)),
       holder |-> first(custody("actor"), record.holder),
       consumed |-> IF IsItem(s, e) THEN s.items[e].status = "retired" ELSE record.consumed]

\* keeper_capabilities_v3: all there is, told apart by whether players know it.
KeeperView(s, a) ==
  [information |-> {[id |-> i, party |-> i \in s.facts, actor |-> i \in s.actorFacts[a]] :
                      i \in Module.information},
   locations |-> LocationIds(s),
   entities |-> {KeeperEntity(s, e) : e \in EntityIds(s)},
   rules |-> RuleCandidates(s),
   nextPoint |-> NextPoint(s.time).point]

\* _narration_evidence: entities a command discovered, as the player sees them
\* in the end; the narration has to mention them.
NarrationEvidence(before, after, a, events) ==
  {v \in VisibleEntities(after, a) :
     /\ \E i \in 1..Len(events) : /\ events[i].type = "entity.state_changed"
                                  /\ events[i].effect.id = v.id
                                  /\ events[i].effect.key = "discovered" /\ events[i].effect.value
     /\ ~Flag(before, v.id, "discovered")}
=============================================================================
