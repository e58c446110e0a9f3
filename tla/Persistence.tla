---------------------------- MODULE Persistence -----------------------------
(***************************************************************************)
(* What an action has to leave behind: engine/persistent_results.py.       *)
(*                                                                         *)
(* A free adjudication declares an intent; a controlled family of actions  *)
(* fixes one.  Either way its success must hold the effect that makes it   *)
(* last, on the target it is aimed at, or it is refused before any roll.   *)
(***************************************************************************)
EXTENDS Effects

StateValues ==
  [character_state |-> [consciousness |-> {"conscious", "unconscious", "dead"},
                        posture       |-> {"standing", "prone"},
                        restraint     |-> {"free", "restrained"},
                        injury        |-> {"none", "minor", "major", "critical"}],
   object_state    |-> [open |-> BOOLEAN, locked |-> BOOLEAN, broken |-> BOOLEAN]]

\* _FAMILY_POLICIES: the intent a family fixes, with the state or the effect.
State(intent, key, value) == [intent |-> intent, key |-> key, value |-> value, effect |-> "state"]
Policy(intent, effect)    == [intent |-> intent, key |-> None, value |-> None, effect |-> effect]

Policies ==
  [knock_out       |-> State("character_state", "consciousness", "unconscious"),
   wake            |-> State("character_state", "consciousness", "conscious"),
   kill            |-> State("character_state", "consciousness", "dead"),
   knock_down      |-> State("character_state", "posture", "prone"),
   stand_up        |-> State("character_state", "posture", "standing"),
   restrain        |-> State("character_state", "restraint", "restrained"),
   release         |-> State("character_state", "restraint", "free"),
   injure_minor    |-> State("character_state", "injury", "minor"),
   injure_major    |-> State("character_state", "injury", "major"),
   injure_critical |-> State("character_state", "injury", "critical"),
   heal            |-> State("character_state", "injury", "none"),
   open            |-> State("object_state", "open", TRUE),
   close           |-> State("object_state", "open", FALSE),
   lock            |-> State("object_state", "locked", TRUE),
   unlock          |-> State("object_state", "locked", FALSE),
   break           |-> State("object_state", "broken", TRUE),
   repair          |-> State("object_state", "broken", FALSE),
   pick_up  |-> Policy("inventory", "move"), transfer |-> Policy("inventory", "move"),
   drop     |-> Policy("inventory", "move"), consume  |-> Policy("inventory", "consume"),
   travel   |-> Policy("location", "enter")]

Governed(family) == family \in DOMAIN Policies

-----------------------------------------------------------------------------
\* An effect on the target, or on what the same sequence creates to be one.
IdsOf(effects, type) ==
  {effects[i].id : i \in {j \in 1..Len(effects) : effects[j].type = type}}

StateMatches(adj, e, intent) ==
  /\ e.type = "change_entity_state" /\ e.id = adj.target.id
  /\ e.key \in DOMAIN StateValues[intent] /\ e.value \in StateValues[intent][e.key]
  /\ Governed(adj.family) => /\ e.key = Policies[adj.family].key
                             /\ e.value = Policies[adj.family].value

InventoryMatches(adj, e) ==
  LET made == {adj.success[i].id : i \in {j \in 1..Len(adj.success) :
                 adj.success[j].type = "ensure_runtime_entity" /\ adj.success[j].kind = "object"}}
  IN  \/ /\ e.type = "move_entity" /\ e.id \in {adj.target.id} \cup made
         /\ Governed(adj.family) => Policies[adj.family].effect = "move"
         /\ adj.family = "pick_up"  => e.holder = adj.actor
         /\ adj.family = "transfer" => e.holder # None
         /\ adj.family = "drop"     => e.at # None
      \/ /\ e.type = "consume_entity" /\ e.id \in {adj.target.id} \cup made
         /\ Governed(adj.family) => Policies[adj.family].effect = "consume"

LocationMatches(adj, e) ==
  /\ e.type = "enter_location"
  /\ e.id \in {adj.target.id} \cup IdsOf(adj.success, "ensure_runtime_location")
  /\ Governed(adj.family) => Policies[adj.family].effect = "enter"

Matches(adj, e, intent) ==
  CASE intent \in {"character_state", "object_state"} -> StateMatches(adj, e, intent)
    [] intent = "inventory" -> InventoryMatches(adj, e)
    [] intent = "location"  -> LocationMatches(adj, e)
    [] OTHER -> FALSE

\* effective_persistence_intent, and validate_persistent_effects: the code of
\* the problem, or None.  Writing "none" does not turn a kill into talk.
Intent(adj) == IF adj.explicit /\ Governed(adj.family) THEN Policies[adj.family].intent
               ELSE adj.intent

PersistenceProblem(adj) ==
  LET meaningful == {i \in 1..Len(adj.success) : adj.success[i].type # "narrative_only"}
  IN  CASE Intent(adj) = "none" -> None
        [] Intent(adj) # "none" /\ meaningful = {} -> "PERSISTENT_EFFECT_REQUIRED"
        [] OTHER ->
             IF /\ Governed(adj.family) => Policies[adj.family].intent = adj.intent
                /\ \E i \in meaningful : Matches(adj, adj.success[i], Intent(adj))
             THEN None ELSE "PERSISTENT_EFFECT_MISMATCH"

-----------------------------------------------------------------------------
\* committed_results_from_events: what the narrator may cite as lasting.  Of a
\* journey there is no result: "location.entered" is not an event of a v3 module.
CommittedResults(events) ==
  {[id |-> events[i].effect.id,
    kind |-> CASE events[i].type # "entity.state_changed" -> "inventory"
               [] events[i].type = "entity.state_changed"
                  /\ events[i].effect.key \in DOMAIN StateValues.character_state -> "character_state"
               [] OTHER -> "object_state"] :
     i \in {j \in 1..Len(events) :
              \/ events[j].type \in {"entity.moved", "entity.consumed"}
              \/ /\ events[j].type = "entity.state_changed"
                 /\ events[j].effect.key \in DOMAIN StateValues.character_state
                                             \cup DOMAIN StateValues.object_state}}
=============================================================================
