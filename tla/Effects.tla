------------------------------ MODULE Effects ------------------------------
(***************************************************************************)
(* The closed table of effects: who may propose one, what makes it well    *)
(* formed, what it does.  registry/effects.py.                             *)
(*                                                                         *)
(* An effect is a record with its type and the fields of that type.        *)
(* Applying one gives whether it was accepted, the state and the event.    *)
(***************************************************************************)
EXTENDS Navigation

CONSTANT PublicKeys   \* flags every player may see once an effect set them

Party == "party"

\* A mutant: the scope of an effect is not looked at.
ScopedParty(a, e) == Party

Scoped(a, e) == IF e.scope = "actor" THEN a ELSE Party

-----------------------------------------------------------------------------
\* What may be referred to at a point of a sequence of effects.
VocabularyOf(s) ==
  [entities  |-> EntityIds(s),
   locations |-> LocationIds(s),
   portable  |-> DOMAIN s.items,
   time      |-> s.time]

ValidEntry(v, e) ==
  CASE e.type \in {"reveal_information", "hide_information"} -> e.id \in Module.information
    [] e.type = "set_visibility" ->
         \/ e.kind = "information" /\ e.id \in Module.information
         \/ e.kind = "entity"      /\ e.id \in v.entities
         \/ e.kind = "location"    /\ e.id \in v.locations
    [] e.type = "enter_location" -> e.id \in v.locations
    [] e.type = "ensure_runtime_location" ->
         /\ e.id \notin v.locations /\ e.connected \in v.locations
         /\ e.parent \in v.locations \cup {None}
    [] e.type = "ensure_runtime_entity" -> e.id \notin v.entities /\ e.at \in v.locations
    [] e.type = "move_entity" ->
         /\ e.id \in v.entities
         /\ e.at \in v.locations \cup {None} /\ e.holder \in Actors \cup {None}
         /\ e.holder # None => e.id \in v.portable
    [] e.type \in {"change_entity_state", "consume_entity"} -> e.id \in v.entities
    [] OTHER -> TRUE

\* Only the next point of the day, and for a party only with its consent.
ValidTime(v, e, consented) ==
  e.type = "advance_world_time" =>
    /\ TimeIsShared => consented
    /\ e.to \in {None, NextPoint(v.time).point}

\* A terminal ending has to be confirmed as a draft; no effect commits one.
Registered(e) == e.type # "commit_terminal_ending"

\* What an effect writes is in scope for those after it.
Absorbed(v, e) ==
  [v EXCEPT !.locations = IF e.type = "ensure_runtime_location" THEN @ \cup {e.id} ELSE @,
            !.entities  = IF e.type = "ensure_runtime_entity" THEN @ \cup {e.id} ELSE @,
            !.portable  = IF e.type = "ensure_runtime_entity" /\ e.kind = "object"
                          THEN @ \cup {e.id} ELSE @,
            !.time      = IF e.type = "advance_world_time" THEN NextPoint(@) ELSE @]

\* _validate_effect_sequence: each effect against what is in scope where it stands.
ValidSequence(s, effects, consented) ==
  LET scope[n \in 0..Len(effects)] ==
        IF n = 0 THEN VocabularyOf(s) ELSE Absorbed(scope[n - 1], effects[n])
  IN  \A i \in 1..Len(effects) :
         /\ Registered(effects[i])
         /\ ValidEntry(scope[i - 1], effects[i])
         /\ ValidTime(scope[i - 1], effects[i], consented)

-----------------------------------------------------------------------------
\* The authority it takes to propose an effect, 0 to 5.
Pivotal(id) == id \in Module.information /\ Module.fact[id].pivotal

KeeperOnly(id) == id \in Module.entities /\ Module.spec[id].visibility = "keeper"

AuthorityOf(s, e) ==
  CASE e.type = "narrative_only" -> 0
    [] e.type \in {"reveal_information", "hide_information"} -> IF Pivotal(e.id) THEN 4 ELSE 2
    [] e.type = "set_visibility" ->
         IF e.kind = "information" THEN IF Pivotal(e.id) THEN 4 ELSE 2
         ELSE IF e.id \in DOMAIN s.runtimeEntities \cup DOMAIN s.runtimeLocations THEN 1
         ELSE IF e.kind = "entity" /\ KeeperOnly(e.id) THEN 4 ELSE 3
    [] e.type \in {"enter_location", "advance_world_time"} -> 2
    [] e.type \in {"ensure_runtime_location", "ensure_runtime_entity"} -> 1
    [] e.type = "move_entity" -> IF e.holder # None THEN 3 ELSE 2
    [] e.type = "change_entity_state" -> IF e.id \in DOMAIN s.runtimeEntities THEN 1 ELSE 3
    [] e.type = "consume_entity" -> IF KeeperOnly(e.id) THEN 4 ELSE 3
    [] e.type \in {"mark_core_resolved", "set_ending_availability"} -> 4
    [] OTHER -> 5

\* _classify_effects: the highest level of a sequence, 3 at least with a check.
AuthorityOfAll(s, effects, checked) ==
  LET levels == {AuthorityOf(s, effects[i]) : i \in 1..Len(effects)}
                \cup (IF checked THEN {3} ELSE {})
  IN  IF levels = {} THEN None ELSE CHOOSE l \in levels : \A m \in levels : m <= l

-----------------------------------------------------------------------------
Done(s, event) == [ok |-> TRUE, state |-> s, event |-> event]
Refused(s)     == [ok |-> FALSE, state |-> s, event |-> None]

ApplyInformation(s, a, e) ==
  LET Written(known) == IF e.type = "reveal_information" THEN known \cup {e.id}
                        ELSE known \ {e.id}
  IN  IF e.scope = "party" THEN [s EXCEPT !.facts = Written(@)]
      ELSE [s EXCEPT !.actorFacts[a] = Written(@)]

\* A mutant: hiding a place leaves what was known of its position.
VisibilityKnowledgeKept(visible, previous) ==
  IF visible THEN Known(previous.access, previous.visited, previous.connections)
  ELSE [previous EXCEPT !.existence = "unknown"]

\* Hiding a place forgets what was known of it; showing it keeps that.
VisibilityKnowledge(visible, previous) ==
  IF visible THEN Known(previous.access, previous.visited, previous.connections) ELSE Unknown

ApplySetVisibility(s, a, e) ==
  LET overridden == [s EXCEPT !.override = Put(@, <<Scoped(a, e), e.kind, e.id>>, e.visible)]
      Seen(places) == Put(places, e.id, VisibilityKnowledge(e.visible, At(places, e.id, Unknown)))
  IN  CASE e.kind # "location" -> overridden
        [] e.kind = "location" /\ e.scope = "actor" ->
             [overridden EXCEPT !.actorPlaces[a] = Seen(@)]
        [] OTHER -> [overridden EXCEPT !.partyPlaces = Seen(@)]

\* A party goes to where one of it goes; a closed way leaves it at the frontier.
Travelled(s, a, e, r) ==
  LET previous == At(s.partyPlaces, e.id, Unknown)
      Learnt(access, visited) == Put(s.partyPlaces, e.id, Known(access, visited, previous.connections))
  IN  CASE r.status = "known_reachable" ->
             Done([s EXCEPT !.scene = e.id, !.partyPlaces = Learnt("reachable", TRUE),
                            !.context = [b \in DOMAIN @ \ {a} |-> @[b]]],
                  "travel.resolved")
        [] r.status = "known_blocked" ->
             Done([s EXCEPT !.scene = End(r.path),
                            !.partyPlaces = Learnt("blocked", previous.visited),
                            !.context = Put(@, a, [destination |-> e.id, at |-> End(r.path),
                                                   boundary |-> r.boundary])],
                  "travel.interrupted")
        [] OTHER -> Refused(s)

ApplyEnterLocation(s, a, e) == Travelled(s, a, e, ResolveLocationTarget(s, a, e.id))

ApplyEnsureRuntimeLocation(s, e) ==
  [s EXCEPT !.runtimeLocations = Put(@, e.id, [connected |-> e.connected, parent |-> e.parent]),
            !.partyPlaces = Put(@, e.id, Known("reachable", FALSE, {}))]

\* An object becomes an item that lies where it was found; a person does not.
ApplyEnsureRuntimeEntity(s, e) ==
  IF e.kind = "object"
  THEN [s EXCEPT !.items = Put(@, e.id, Item("runtime", "location", e.at)),
                 !.partyItems = Put(@, e.id, "recognized")]
  ELSE [s EXCEPT !.runtimeEntities = Put(@, e.id, [Generic EXCEPT !.at = e.at])]

\* resolve_entity_storage, and the record that holds what is not an item.
IsItem(s, id) == id \in DOMAIN s.items

RecordOf(s, id) == IF id \in DOMAIN s.runtimeEntities THEN s.runtimeEntities[id]
                   ELSE At(s.entities, id, Generic)

Mutated(s, id, record) ==
  IF id \in DOMAIN s.runtimeEntities
  THEN [s EXCEPT !.runtimeEntities[id] = record]
  ELSE [s EXCEPT !.entities = Put(@, id, record)]

Versioned(item) == [item EXCEPT !.version = @ + 1]

Revalued(item, key, value) == [Versioned(item) EXCEPT !.values = Put(@, key, value)]

\* Only an item can be carried.
ApplyMoveEntity(s, e) ==
  LET carried == e.holder # None
      custody == IF carried THEN [kind |-> "actor", ref |-> e.holder]
                 ELSE [kind |-> "location", ref |-> e.at]
      moved   == [s EXCEPT !.items[e.id] = [Versioned(@) EXCEPT !.custody = custody]]
      placed  == [RecordOf(s, e.id) EXCEPT !.at = e.at, !.holder = e.holder]
  IN  CASE IsItem(s, e.id) /\ carried ->
             Done([moved EXCEPT !.actorItems[e.holder] = Put(@, e.id, "known")], "entity.moved")
        [] IsItem(s, e.id) /\ ~carried ->
             Done([moved EXCEPT !.partyItems = Put(@, e.id, "recognized")], "entity.moved")
        [] ~IsItem(s, e.id) /\ carried -> Refused(s)
        [] OTHER -> Done(Mutated(s, e.id, placed), "entity.moved")

ApplyChangeEntityState(s, e) ==
  LET set     == [RecordOf(s, e.id) EXCEPT !.flags = Put(@, e.key, e.value)]
      written == IF IsItem(s, e.id)
                 THEN [s EXCEPT !.items[e.id] = Revalued(@, e.key, e.value)]
                 ELSE Mutated(s, e.id, set)
  IN  IF e.key \in PublicKeys
      THEN [written EXCEPT !.publicKeys = Put(@, e.id, At(@, e.id, {}) \cup {e.key})]
      ELSE written

ApplyConsumeEntity(s, e) ==
  IF IsItem(s, e.id)
  THEN [s EXCEPT !.items[e.id] = [Versioned(@) EXCEPT !.status = "retired"]]
  ELSE Mutated(s, e.id, [RecordOf(s, e.id) EXCEPT !.consumed = TRUE])

\* Execution of an effect.  Ids are not looked at again, but for the way to a
\* place, which is read from the map as it is now, and for what cannot be carried.
Apply(s, a, e) ==
  CASE e.type = "narrative_only"          -> Done(s, None)
    [] e.type = "reveal_information"      -> Done(ApplyInformation(s, a, e), "information.revealed")
    [] e.type = "hide_information"        -> Done(ApplyInformation(s, a, e), "information.hidden")
    [] e.type = "set_visibility"          -> Done(ApplySetVisibility(s, a, e), "visibility.changed")
    [] e.type = "enter_location"          -> ApplyEnterLocation(s, a, e)
    [] e.type = "ensure_runtime_location" -> Done(ApplyEnsureRuntimeLocation(s, e), "location.created")
    [] e.type = "ensure_runtime_entity"   -> Done(ApplyEnsureRuntimeEntity(s, e), "entity.created")
    [] e.type = "move_entity"             -> ApplyMoveEntity(s, e)
    [] e.type = "change_entity_state"     -> Done(ApplyChangeEntityState(s, e), "entity.state_changed")
    [] e.type = "consume_entity"          -> Done(ApplyConsumeEntity(s, e), "entity.consumed")
    [] e.type = "advance_world_time"      -> Done([s EXCEPT !.time = NextPoint(@)], "time.point_entered")
    [] e.type = "mark_core_resolved"      -> Done([s EXCEPT !.coreResolved = TRUE], "core.resolved")
    [] e.type = "set_ending_availability" ->
         Done([s EXCEPT !.endingAvailable = e.available], "ending.availability_changed")
    [] OTHER -> Refused(s)
=============================================================================
