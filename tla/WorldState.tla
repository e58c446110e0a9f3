----------------------------- MODULE WorldState -----------------------------
(***************************************************************************)
(* The game state of one room and what is read off it without changing it: *)
(* engine/models.py, engine/initialization.py, engine/timeline.py and      *)
(* registry/predicates.py, over a published ModuleContent v3.              *)
(*                                                                         *)
(* A dict is a function on the keys it has.  A condition, in the code a    *)
(* tree of all, any and not over predicates, is given by its disjunctive   *)
(* normal form: a set of sets of literals.  Names, descriptions and other  *)
(* wording are left out.  The flags of an entity are Booleans; the three   *)
(* keys the engine itself gives a meaning (location_id, holder_actor_id,   *)
(* consumed) are the fields at, holder and consumed.                       *)
(***************************************************************************)
EXTENDS Integers, Sequences, FiniteSets

CONSTANTS Actors,
          Kit,      \* [Actors -> SUBSET ids]: the equipment a card declares
          Module,   \* the published content the room is pinned to
          None

\* locations, entities and information are the sets of canon ids; parent, spec
\* and fact give the rest of each; region, of the places that have one, theirs, and
\* of a place that is a region itself; points is the day in order.
ASSUME ModuleAssumption ==
  /\ Actors # {} /\ None \notin Actors \cup Module.locations \cup Module.entities
  /\ Module.start \in Module.locations
  /\ \A e \in Module.edges :
        {e.from, e.to} \subseteq Module.locations /\ e.from # e.to /\ e.id[2] \in Nat
  /\ IsFiniteSet(Module.locations) /\ IsFiniteSet(Module.edges)
  /\ \A l \in Module.locations : Module.parent[l] \in Module.locations \cup {None}
  /\ Len(Module.points) \in Nat /\ Module.startPoint \in 1..Len(Module.points)

-----------------------------------------------------------------------------
\* A dict over another, with one key written, and a read with a default.
Over(f, g) == [k \in DOMAIN f \cup DOMAIN g |-> IF k \in DOMAIN f THEN f[k] ELSE g[k]]

Put(f, k, v) == [j \in DOMAIN f \cup {k} |-> IF j = k THEN v ELSE f[j]]

At(f, k, default) == IF k \in DOMAIN f THEN f[k] ELSE default

Empty == [k \in {} |-> None]

\* LocationKnowledge of one audience about one place.
Unknown == [existence |-> "unknown", localization |-> "unknown", access |-> "unknown",
            visited |-> FALSE, connections |-> {}]

Known(access, visited, connections) ==
  [existence |-> "known", localization |-> "located", access |-> access,
   visited |-> visited, connections |-> connections]

\* What is stored of an entity that is not an item.
Generic == [flags |-> Empty, at |-> None, holder |-> None, consumed |-> FALSE]

\* An ItemInstance: custody names an actor's inventory or a place.
Item(origin, kind, ref) ==
  [origin |-> origin, custody |-> [kind |-> kind, ref |-> ref], version |-> 1,
   status |-> "active", values |-> Empty]

-----------------------------------------------------------------------------
\* create_initial_game_state: places, entity defaults with the module's
\* overrides, canon items and each card's declared kit.
CanonItem(e) ==
  LET carrier == Module.spec[e].carriedBy
      place   == Module.spec[e].located
  IN  IF carrier # None THEN Item("canon", "actor", carrier)
      ELSE Item("canon", "location", IF place # None THEN place ELSE Module.start)

IsCanonItem(e) == e \in Module.entities /\ Module.spec[e].item

CarriedKit ==
  [i \in UNION {Kit[a] : a \in Actors} |->
     Item("runtime", "actor", CHOOSE a \in Actors : i \in Kit[a])]

InitialState ==
  [scene      |-> Module.start,
   facts      |-> Module.revealed,
   actorFacts |-> [a \in Actors |-> {}],
   override   |-> Empty,
   partyPlaces |-> Empty,
   actorPlaces |-> [a \in Actors |-> Empty],
   context    |-> Empty,
   runtimeLocations |-> Empty,
   runtimeEntities  |-> Empty,
   entities   |-> [e \in Module.entities |->
                     [Generic EXCEPT !.flags = Over(Module.entityState[e], Module.spec[e].flags)]],
   publicKeys |-> Empty,
   items      |-> Over([e \in {x \in Module.entities : IsCanonItem(x)} |-> CanonItem(e)], CarriedKit),
   partyItems |-> [i \in {e \in Module.entities :
                            IsCanonItem(e) /\ Module.spec[e].visibility \in {"public", "party"}} |-> "known"],
   actorItems |-> [a \in Actors |-> [i \in Kit[a] |-> "known"]],
   time       |-> [day |-> 0, point |-> Module.startPoint],
   coreResolved    |-> FALSE,
   endingAvailable |-> FALSE,
   agendas    |-> <<>>]

-----------------------------------------------------------------------------
\* engine/timeline.py and the day's boundary, 06:00 to 18:00.
HourOf(time) == Module.points[time.point].hour

TimeOfDay(time) == IF HourOf(time) \in 6..17 THEN "day" ELSE "night"

NextPoint(time) == IF time.point < Len(Module.points)
                   THEN [time EXCEPT !.point = @ + 1]
                   ELSE [day |-> time.day + 1, point |-> 1]

AbsoluteHour(time) == 24 * time.day + HourOf(time)

\* One actor's clock moves alone; a party's only with everybody's consent.
TimeIsShared == Cardinality(Actors) > 1

-----------------------------------------------------------------------------
\* registry/predicates.py.  An entity that was made an item is read with the
\* item's values over the flags it was authored with.
EntityFlags(s, e) ==
  LET base == IF e \in DOMAIN s.runtimeEntities THEN s.runtimeEntities[e].flags
              ELSE At(s.entities, e, Generic).flags
  IN  IF e \in DOMAIN s.items THEN Over(s.items[e].values, base) ELSE base

\* An absent flag reads as false.
Flag(s, e, key) == At(EntityFlags(s, e), key, FALSE)

Holds(s, a, p) ==
  CASE p.name = "entity_state_is" -> Flag(s, p.id, p.key) = p.value
    [] p.name = "time_of_day_is"  -> TimeOfDay(s.time) = p.value
    [] p.name = "information_is"  -> p.id \in s.facts \cup s.actorFacts[a]
    [] p.name = "core_resolved"   -> s.coreResolved = p.value
    [] OTHER -> FALSE

Is(p)  == [predicate |-> p, sign |-> TRUE]
Not(p) == [predicate |-> p, sign |-> FALSE]
Always == {{}}

Satisfies(s, a, condition) ==
  \E clause \in condition :
     \A l \in clause : Holds(s, a, l.predicate) = l.sign

\* A visibility override of the actor comes before the party's.
Override(s, a, kind, id) ==
  At(s.override, <<a, kind, id>>, At(s.override, <<"party", kind, id>>, None))

-----------------------------------------------------------------------------
\* The ids a command may name, and the kinds under which an id is found.
LocationIds(s) == Module.locations \cup DOMAIN s.runtimeLocations

EntityIds(s) == Module.entities \cup DOMAIN s.runtimeEntities \cup DOMAIN s.items

KindsOf(s, id) ==
  {k \in {"information", "entity", "location", "actor", "world"} :
     CASE k = "information" -> id \in Module.information
       [] k = "entity"      -> id \in EntityIds(s)
       [] k = "location"    -> id \in LocationIds(s)
       [] k = "actor"       -> id \in Actors
       [] k = "world"       -> id = Module.world}

\* A wrong kind is put right when the id is found under exactly one.
NormalizedKind(s, target) ==
  LET kinds == KindsOf(s, target.id)
  IN  IF target.kind \notin kinds /\ Cardinality(kinds) = 1
      THEN CHOOSE k \in kinds : TRUE
      ELSE target.kind
=============================================================================
