--------------------------- MODULE CharacterRules ---------------------------
(***************************************************************************)
(* The rules a character card is judged by when it is completed            *)
(* (core/coc7_rules.py) and the draft of the one-click generator           *)
(* (core/coc7_character_generation.py), for any ruleset.                   *)
(*                                                                         *)
(* A card's build is what its player chose (age, occupation, skills and,   *)
(* one after the other, those for the occupation's free slots), Unset what *)
(* was left out; its attributes and where they come from ("pointbuy" or    *)
(* "roll") are kept apart, since a roll is the server's own.               *)
(***************************************************************************)
EXTENDS Integers, FiniteSets, Sequences, TLC
LOCAL INSTANCE SequencesExt
LOCAL INSTANCE FiniteSetsExt

CONSTANTS Ruleset,     \* attributes, pointBuy, rolled, age, skills, cap, occupations
          Unset,       \* what a player left out
          AnySkill     \* the candidates of a slot that takes any skill

Credit == "credit-rating"

\* evaluate_skill_base: a number, or an attribute divided.
Base(skill, attributes) ==
  LET base == Ruleset.skills[skill].base
  IN  IF base.of = "number" THEN base.n ELSE attributes[base.of] \div base.n

\* evaluate_skill_points_formula: terms of the best of some attributes, times a factor.
OccupationBudget(occupation, attributes) ==
  MapThenSumSet(LAMBDA term : Max({attributes[k] : k \in term.best}) * term.times,
                occupation.formula)

-----------------------------------------------------------------------------
\* _validate_attributes: the declared keys, each within the range of its way of
\* generation, and bought points within the budget.
Range_(key, method) ==
  IF method = "pointbuy" /\ key \in Ruleset.pointBuy.keys
  THEN Ruleset.pointBuy.low .. Ruleset.pointBuy.high
  ELSE Ruleset.rolled.low .. Ruleset.rolled.high

AttributeIssues(attributes, method) ==
  IF DOMAIN attributes # Ruleset.attributes
     \/ \E k \in DOMAIN attributes : attributes[k] \notin Range_(k, method)
  THEN {"INVALID_ATTRIBUTES"}
  ELSE IF /\ method = "pointbuy"
          /\ MapThenSumSet(LAMBDA k : attributes[k], Ruleset.pointBuy.keys) > Ruleset.pointBuy.budget
  THEN {"ATTRIBUTE_POINTS_EXCEEDED"} ELSE {}

AgeIssues(age) ==
  IF age = Unset \/ age \in Ruleset.age.low .. Ruleset.age.high THEN {} ELSE {"INVALID_AGE"}

-----------------------------------------------------------------------------
\* A card may have no occupation yet: no budget, no slots, no range of credit.
Unemployed == [skills |-> {}, slots |-> <<>>, formula |-> {}, credit |-> [low |-> 0, high |-> 0]]

Job(name) == IF name = Unset THEN Unemployed ELSE Ruleset.occupations[name]

\* The free slots of an occupation, each taken as often as its count.
Units(occupation) == FlattenSeq([i \in DOMAIN occupation.slots |->
                       [n \in 1 .. occupation.slots[i].count |-> occupation.slots[i].of]])

Accepts(units, u, skill) == units[u] = AnySkill \/ skill \in units[u]

\* Mutant of TryAssign: a slot that is taken stays taken.
TryAssignFree(units, weighed, given) ==
  LET free == {u \in DOMAIN units \ DOMAIN given : Accepts(units, u, weighed)}
  IN  IF free # {} THEN (Min(free) :> weighed) @@ given ELSE given

\* try_assign: a free slot, or one whose skill can move on; what has been tried is
\* not tried again.  given: the slots taken so far.
TryAssign(units, weighed, given) ==
  LET Takings == UNION {[U -> DOMAIN Ruleset.skills] : U \in SUBSET DOMAIN units}
      Try[skill \in DOMAIN Ruleset.skills, taken \in Takings, visited \in SUBSET DOMAIN units] ==
        LET mine == {u \in DOMAIN units \ visited : Accepts(units, u, skill)}
            free == mine \ DOMAIN taken
            failed == [found |-> FALSE, visited |-> visited, taken |-> taken]
            Displace(r, u) ==
              IF r.found \/ u \in r.visited THEN r
              ELSE LET moved == Try[taken[u], taken, r.visited \cup {u}]
                   IN  [moved EXCEPT !.taken = IF moved.found THEN (u :> skill) @@ @ ELSE taken]
        IN  IF free # {} THEN [failed EXCEPT !.found = TRUE, !.taken = (Min(free) :> skill) @@ @]
            ELSE FoldLeft(Displace, failed, SetToSortSeq(mine, <))
  IN  Try[weighed, given, {}].taken

\* _match_choice_slots: heavier skills first; the skills that found a slot.
Matched(occupation, weight) ==
  LET units == Units(occupation)
      order == SetToSortSeq(DOMAIN weight, LAMBDA s, t : weight[s] > weight[t])
      taken == FoldLeft(LAMBDA acc, s : TryAssign(units, s, acc), <<>>, order)
  IN  {taken[u] : u \in DOMAIN taken}

\* What it is meant to be: of the sets of skills that fit in the slots together,
\* one with the most points.
Fits(occupation, S) ==
  LET units == Units(occupation)
  IN  \E f \in [S -> DOMAIN units] :
        /\ \A s, t \in S : f[s] = f[t] => s = t
        /\ \A s \in S : Accepts(units, f[s], s)

MostPoints(occupation, weight) ==
  Max({MapThenSumSet(LAMBDA s : weight[s], S) :
         S \in {S \in SUBSET DOMAIN weight : Fits(occupation, S)}})

-----------------------------------------------------------------------------
Value(build, attributes, skill) ==
  IF skill \in DOMAIN build.skills THEN build.skills[skill] ELSE Base(skill, attributes)

Allocated(build, attributes, skill) == Value(build, attributes, skill) - Base(skill, attributes)

\* The points on skills that may take a free slot of the occupation.
Allocations(build, attributes) ==
  LET job == Job(build.occupation)
      S == {s \in DOMAIN Ruleset.skills :
              s # Credit /\ s \notin job.skills /\ Allocated(build, attributes, s) > 0}
  IN  [s \in S |-> Allocated(build, attributes, s)]

\* _resolve_explicit_choice_slots: the choices that can be one, and do fit.
Choosable(job, choices) ==
  {s \in ToSet(choices) : /\ s \in DOMAIN Ruleset.skills /\ s \notin job.skills
                   /\ s # Credit /\ Ruleset.skills[s].allocatable}

\* Before choices were kept the slots were filled from the points.
SlotSkills(build, attributes) ==
  LET job == Job(build.occupation)
  IN  IF build.choices = Unset THEN Matched(job, Allocations(build, attributes))
      ELSE Matched(job, [s \in Choosable(job, build.choices) |-> 0])

ChoiceIssues(build, attributes) ==
  LET job == Job(build.occupation)
  IN  IF build.choices = Unset THEN {}
      ELSE (IF IsInjective(build.choices) THEN {} ELSE {"OCCUPATION_CHOICE_DUPLICATE"})
           \cup (IF SlotSkills(build, attributes) # ToSet(build.choices)
                 THEN {"OCCUPATION_CHOICE_INVALID"} ELSE {})
           \cup (IF Len(build.choices) # Len(Units(job))
                 THEN {"OCCUPATION_CHOICES_INCOMPLETE"} ELSE {})

SkillIssues(build, attributes) ==
  LET known == DOMAIN Ruleset.skills
  IN  (IF DOMAIN build.skills \subseteq known THEN {} ELSE {"UNKNOWN_SKILL"})
      \cup UNION {(IF Allocated(build, attributes, s) > 0 /\ ~Ruleset.skills[s].allocatable
                   THEN {"SKILL_NOT_ALLOCATABLE"} ELSE {})
                  \cup (IF s # Credit /\ Allocated(build, attributes, s) < 0
                        THEN {"SKILL_BELOW_BASE"} ELSE {})
                  \cup (IF s # Credit /\ Value(build, attributes, s) > Ruleset.cap
                        THEN {"SKILL_ABOVE_CAP"} ELSE {}) : s \in known}

\* The points of the occupation's skills, and all others, of which credit beyond the
\* least the occupation asks for.
OccupationSpent(build, attributes) ==
  LET job == Job(build.occupation)
      own == (job.skills \cup SlotSkills(build, attributes)) \ {Credit}
  IN  job.credit.low + MapThenSumSet(LAMBDA s : Max({0, Allocated(build, attributes, s)}), own)

InterestSpent(build, attributes) ==
  LET job == Job(build.occupation)
      own == job.skills \cup SlotSkills(build, attributes) \cup {Credit}
  IN  Max({0, Value(build, attributes, Credit) - job.credit.low})
      + MapThenSumSet(LAMBDA s : Max({0, Allocated(build, attributes, s)}),
                      DOMAIN Ruleset.skills \ own)

\* The credit rating that is looked at is the card's own: none is a rating of 0.
CreditRating(build) == IF Credit \in DOMAIN build.skills THEN build.skills[Credit] ELSE 0

\* Interest points buy anything, occupation points the occupation's skills: the one
\* budget, and both together, bound what may be spent.
PointIssues(build, attributes) ==
  LET job == Job(build.occupation)
      interest == attributes["INT"] * 2
      spent == InterestSpent(build, attributes)
  IN  (IF spent > interest THEN {"INTEREST_POINTS_EXCEEDED"} ELSE {})
      \cup (IF spent + OccupationSpent(build, attributes) > interest + OccupationBudget(job, attributes)
            THEN {"SKILL_POINTS_EXCEEDED"} ELSE {})
      \cup (IF \/ build.occupation = Unset
               \/ CreditRating(build) \in job.credit.low .. job.credit.high
            THEN {} ELSE {"CREDIT_OUT_OF_RANGE"})

\* validate_age and validate_character: an unfit attribute ends the computation.
Issues(build, attributes, method) ==
  AgeIssues(build.age)
  \cup (IF AttributeIssues(attributes, method) # {} THEN AttributeIssues(attributes, method)
        ELSE IF build.occupation \notin DOMAIN Ruleset.occupations \cup {Unset} THEN {"OCCUPATION_NOT_FOUND"}
        ELSE ChoiceIssues(build, attributes) \cup SkillIssues(build, attributes)
             \cup PointIssues(build, attributes))

-----------------------------------------------------------------------------
\* _choose_occupation_choices and _allocate_points: the slots filled with skills that
\* fit, the budgets spent on the skills as far as their cap allows.
ChoiceSets(job) ==
  LET able == Choosable(job, SetToSeq(DOMAIN Ruleset.skills))
  IN  {S \in SUBSET able : Cardinality(S) = Len(Units(job)) /\ Fits(job, S)}

Spendings(skills, points, attributes) ==
  LET left == [s \in skills |-> Max({0, Ruleset.cap - Base(s, attributes)})]
      all == MapThenSumSet(LAMBDA s : left[s], skills)
  IN  {f \in [skills -> 0 .. Ruleset.cap] :
         /\ \A s \in skills : f[s] <= left[s]
         /\ MapThenSumSet(LAMBDA s : f[s], skills) = Min({Max({0, points}), all})}

\* generate_character_draft, before it is judged by the rules above.
Drafts(name, attributes) ==
  LET job == Ruleset.occupations[name]
      credit == job.credit.low
      Draft(choices, own, other) ==
        [age |-> 28, occupation |-> name, choices |-> SetToSeq(choices),
         skills |-> [s \in DOMAIN Ruleset.skills |->
                       IF s = Credit THEN credit
                       ELSE Base(s, attributes) + (IF s \in DOMAIN own THEN own[s]
                                                   ELSE IF s \in DOMAIN other THEN other[s] ELSE 0)]]
      Owned(choices) == (job.skills \cup choices) \ {Credit}
      Others(choices) == {s \in DOMAIN Ruleset.skills \ Owned(choices) :
                            s # Credit /\ Ruleset.skills[s].allocatable}
  IN  UNION {{Draft(choices, own, other) :
                own \in Spendings(Owned(choices), OccupationBudget(job, attributes) - credit, attributes),
                other \in Spendings(Others(choices), attributes["INT"] * 2, attributes)} :
             choices \in ChoiceSets(job)}
=============================================================================
