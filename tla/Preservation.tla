---------------------------- MODULE Preservation ----------------------------
(***************************************************************************)
(* Why the engine refuses an adjudication, and which other one may be put  *)
(* in its place without asking the player: the codes of                    *)
(* engine/adjudication.py and registry/effects.py as the host is told      *)
(* them, and host/application/semantic_preservation.py.                    *)
(***************************************************************************)
EXTENDS HostDecisions

\* The code of an effect that is refused where it stands in its sequence.
EffectCode(v, e, consented) ==
  CASE ~Registered(e) -> "TERMINAL_ENDING"
    [] Registered(e) /\ ~ValidEntry(v, e) ->
         IF /\ e.type = "move_entity" /\ e.id \in v.entities /\ e.holder \in Actors
            /\ e.at \in v.locations \cup {None}
         THEN "INVENTORY_TARGET_NOT_PORTABLE" ELSE "TARGET_UNAVAILABLE"
    [] OTHER ->
         CASE ValidTime(v, e, consented) -> None
           [] ~ValidTime(v, e, consented) /\ TimeIsShared /\ ~consented -> "TIME_ADVANCE_BLOCKED"
           [] OTHER -> "TIME_POINT_MISMATCH"

SequenceCode(s, effects, consented) ==
  LET scope[n \in 0..Len(effects)] ==
        IF n = 0 THEN VocabularyOf(s) ELSE Absorbed(scope[n - 1], effects[n])
      codes == [i \in 1..Len(effects) |-> EffectCode(scope[i - 1], effects[i], consented)]
      First(c) == LET refused == {i \in DOMAIN c : c[i] # None}
                  IN  IF refused = {} THEN None
                      ELSE c[CHOOSE i \in refused : \A j \in refused : i <= j]
  IN  First(codes)

\* What submit answers on a state, to an adjudication made with a view of a
\* revision: the first problem in the order the engine looks for them.
Rejection(s, revision, adj, made) ==
  LET target == [adj.target EXCEPT !.kind = NormalizedKind(s, adj.target)]
  IN  CASE made # revision -> "SOURCE_REVISION_STALE"
        [] made = revision /\ target.kind \notin KindsOf(s, target.id) -> "TARGET_UNAVAILABLE"
        [] OTHER ->
             IF adj.rule # None /\ ~Declared(adj.rule) THEN "UNKNOWN_RULE"
             ELSE IF adj.rule # None /\ ~ScopeAdmits(RuleOf(adj.rule), s.scene, adj.family, target)
                  THEN "RULE_OUT_OF_SCOPE"
             ELSE Preferred(IF adj.rule = None THEN PersistenceProblem(adj) ELSE None,
                            Preferred(SequenceCode(s, adj.success, adj.consented),
                                      SequenceCode(s, adj.failure, adj.consented)))

\* auto_repairable, or retry_with_latest_revision.
Repairable == {"SOURCE_REVISION_STALE", "TARGET_UNAVAILABLE", "RULE_OUT_OF_SCOPE",
               "PERSISTENT_EFFECT_REQUIRED", "PERSISTENT_EFFECT_MISMATCH",
               "INVENTORY_TARGET_NOT_PORTABLE", "TIME_POINT_MISMATCH"}

-----------------------------------------------------------------------------
\* _same_method_family: the open family a plan's step has stands for any open one.
SameFamily(before, after) ==
  before = after \/ (after = "action" /\ before \notin {"travel", "dialogue", "wait", "rest"})

RuleDropped(before, after, code) ==
  code = "RULE_OUT_OF_SCOPE" /\ before.rule # None /\ after.rule = None

\* _check_explicit_constraints: the limits the player set in words.
WithinLimits(said, adj) ==
  LET types == {adj.success[i].type : i \in DOMAIN adj.success}
               \cup {adj.failure[i].type : i \in DOMAIN adj.failure}
  IN  /\ "unharmed" \in said.limits => adj.family \notin {"combat", "attack", "threaten"}
      /\ "observe"  \in said.limits => adj.family \notin {"combat", "theft", "steal"}
      /\ "unspent"  \in said.limits => "consume_entity" \notin types
      /\ "unseen"   \in said.limits => adj.family \notin {"combat", "opencombat", "public"}

\* _safe_target_kind, as the player sees it.  What is in sight is an npc or an
\* object: the contracts of entities and of ensure_runtime_entity know no other kind.
ShownKind(s, a, id) ==
  CASE id = s.scene \/ id \in DOMAIN KnownLocations(s, a) -> "location"
    [] id \in {v.id : v \in VisibleEntities(s, a)} -> "entity"
    [] id \in Actors -> "actor"
    [] id \in KnownInformation(s, a) -> "information"
    [] OTHER -> None

\* _compare_target: the same, its kind put right, an item that cannot be carried
\* left for the place, or the one thing in sight that the words name.
TargetKept(s, a, said, before, after, code) ==
  LET old == before.target
      new == after.target
      shown == {id \in said.mentions : ShownKind(s, a, id) # None}
  IN  CASE old = new -> TRUE
        [] old # new /\ old.id = new.id -> ShownKind(s, a, new.id) = new.kind
        [] OTHER ->
             \/ /\ code = "INVENTORY_TARGET_NOT_PORTABLE"
                /\ old.kind = "entity" /\ new = Place(s.scene) /\ before.intent = "inventory"
                /\ \E i \in DOMAIN before.success : /\ before.success[i].type = "move_entity"
                                                    /\ before.success[i].holder # None
                /\ old.id \notin LooseItems(s, a) \cup Inventory(s, a)
             \/ /\ code = "TARGET_UNAVAILABLE" /\ old.kind = new.kind
                /\ shown = {new.id}

-----------------------------------------------------------------------------
\* _effect_payload: an effect with one target written for the other, wherever a
\* text of it is the old one; no id is called like a type of effects.
Retargeted(e, old, new) ==
  [k \in DOMAIN e |-> IF k \notin {"type", "visible", "value", "available", "to"} /\ e[k] = old
                      THEN new ELSE e[k]]

Meaningful(effects) == SelectSeq(effects, LAMBDA e : e # Narrative)

\* _inventory_portability_repair_status: nothing taken, or a thing made and taken.
PortabilityRepaired(before, after) ==
  LET was == Meaningful(before)
      is  == Meaningful(after)
  IN  /\ Len(was) = 1 /\ was[1].type = "move_entity" /\ was[1].holder # None
      /\ \/ is = <<>>
         \/ /\ Len(is) = 2
            /\ is[1].type = "ensure_runtime_entity" /\ is[1].kind = "object"
            /\ is[2].type = "move_entity" /\ is[2].id = is[1].id
            /\ is[2].holder = was[1].holder

\* _is_persistent_effect_repair: one effect in place of one, or of none.
PersistenceRepaired(before, after, code) ==
  /\ code \in {"PERSISTENT_EFFECT_REQUIRED", "PERSISTENT_EFFECT_MISMATCH"}
  /\ Len(Meaningful(before)) <= 1 /\ Len(Meaningful(after)) = 1

\* A mutant: of more effects than before, only the number is looked at.
BranchKeptByLength(branch, before, after, code) == Len(after) >= Len(before)

\* _compare_effect_branch: unchanged, with more telling, or repaired in one of
\* two ways.  Effects the engine pointed at may be left out too, but no
\* rejection of the engine points at any.
BranchKept(branch, before, after, code) ==
  \/ before = after
  \/ branch = "success" /\ code = "INVENTORY_TARGET_NOT_PORTABLE"
     /\ PortabilityRepaired(before, after)
  \/ /\ Len(after) >= Len(before)
     /\ SubSeq(after, 1, Len(before)) = before
     /\ \A i \in Len(before) + 1..Len(after) : after[i] = Narrative
  \/ branch = "success" /\ PersistenceRepaired(before, after, code)

\* compare_repair_semantics: anything else is for the player to say.
Preserved(s, a, said, before, after, code) ==
  LET Aligned(effects) ==
        [i \in 1..Len(effects) |-> Retargeted(effects[i], before.target.id, after.target.id)]
  IN  /\ before.summary = after.summary
      /\ SameFamily(before.family, after.family) /\ before.how = after.how
      /\ before.rule = after.rule \/ RuleDropped(before, after, code)
      /\ before.checked = after.checked
      /\ WithinLimits(said, after)
      /\ TargetKept(s, a, said, before, after, code)
      /\ BranchKept("success", Aligned(before.success), after.success, code)
      /\ BranchKept("failure", Aligned(before.failure), after.failure, code)
=============================================================================
