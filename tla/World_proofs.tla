---------------------------- MODULE World_proofs ----------------------------
(***************************************************************************)
(* Proofs about the world of a room, for every module, party, vocabulary   *)
(* of proposals and bound that meets the assumptions of World: whatever is *)
(* done to it, everything the committed state names exists; the agenda of  *)
(* each cascade of rules accounts for itself; the party moves along open   *)
(* ways only; every exit that is shown is one the engine can answer; and   *)
(* what an actor finds out alone is shown to nobody else.  Then, about the *)
(* host that drives this engine, for every utterance and every proposal of *)
(* a model: all of this stays true, no repair smuggles anything in, and    *)
(* what the host decides without asking a model stands.  Last, about the   *)
(* validation of an authored file: what passes it can be begun and run.    *)
(*                                                                         *)
(* Ids are only checked when a command is submitted.  What carries them to *)
(* the commit is that no effect loses a place, so what was grounded in the *)
(* places of one state (Grounded) stays so in every later one, and that an *)
(* effect whose places exist keeps a state whole (ApplyKeeps).  The rest   *)
(* is to say, step by step, what a walk of a rule collects, what the       *)
(* validation of a sequence lets through, and where a route can lead.      *)
(***************************************************************************)
EXTENDS ModuleValidation, HostTurn, FiniteSetTheorems, WellFoundedInduction, TLAPS

-----------------------------------------------------------------------------
(* Numbers, sequences and functions that are defined step by step.         *)

\* Among sets of elements of a finite set, one has no other below it.
LEMMA SmallestSet ==
  ASSUME NEW S, IsFiniteSet(S), NEW F, F \subseteq SUBSET S, F # {}
  PROVE  \E s \in F : \A u \in F : u \subseteq s => u = s
<1>1. F \subseteq FiniteSubsetsOf(S)
  BY FS_FiniteSubsetsOfFinite
<1>2. IsWellFoundedOn(StrictSubsetOrdering(S), FiniteSubsetsOf(S))
  BY FS_StrictSubsetOrderingWellFounded
<1>3. PICK s \in F : \A u \in F : <<u, s>> \notin StrictSubsetOrdering(S)
  BY <1>1, <1>2, WFMin
<1>. QED BY <1>3 DEF StrictSubsetOrdering

\* What holds at 0 and goes from each number to the next holds up to N.  (Of
\* the numbers for which it fails, one would be the smallest.)
LEMMA StepByStep ==
  ASSUME NEW N \in Nat, NEW G, 0 \in G, \A m \in 0..N : m < N /\ m \in G => m + 1 \in G
  PROVE  \A n \in 0..N : n \in G
<1>. DEFINE Bad == {n \in 0..N : n \notin G}
            Below == {0..n : n \in Bad}
            All == 0..N
<1>1. SUFFICES ASSUME Bad # {} PROVE FALSE
  OBVIOUS
<1>2. Below \subseteq SUBSET All /\ Below # {}
  BY <1>1
<1>a. IsFiniteSet(All)
  <2>1. 0 \in Int /\ N \in Int
    OBVIOUS
  <2>. QED BY <2>1, FS_Interval, Zenon
<1>3. PICK s \in Below : \A u \in Below : u \subseteq s => u = s
  <2>1. Below \subseteq SUBSET All
    BY <1>2
  <2>2. Below # {}
    BY <1>2
  <2>3. \E s \in Below : \A u \in Below : u \subseteq s => u = s
    <3>. HIDE DEF Below, Bad, All
    <3>. QED BY <2>1, <2>2, <1>a, SmallestSet
  <2>. QED BY <2>3, Zenon
<1>4. PICK n \in Bad : s = 0..n
  BY <1>3
<1>5. n \in 0..N /\ n \notin G /\ n # 0
  BY <1>4
<1>6. n - 1 \in 0..N /\ n - 1 < N /\ n - 1 \notin G
  BY <1>5
<1>7. 0..(n - 1) \in Below /\ 0..(n - 1) \subseteq s
  BY <1>4, <1>5, <1>6
<1>8. 0..(n - 1) = 0..n
  BY <1>3, <1>4, <1>7
<1>9. n \in 0..n /\ n \notin 0..(n - 1)
  BY <1>5
<1>. QED BY <1>8, <1>9

\* A sequence, of whatever.
IsSequence(t) == t \in Seq({t[i] : i \in DOMAIN t})

\* What is a sequence of anything is one of its own elements.
LEMMA SequenceOf ==
  ASSUME NEW S, NEW t \in Seq(S)
  PROVE  IsSequence(t) /\ Len(t) \in Nat /\ DOMAIN t = 1..Len(t)
<1>1. Len(t) \in Nat /\ DOMAIN t = 1..Len(t)
  OBVIOUS
<1>2. t \in [1..Len(t) -> {t[i] : i \in DOMAIN t}]
  BY <1>1
<1>. QED BY <1>1, <1>2 DEF IsSequence

\* Appending keeps what is there and adds the last.
LEMMA Appended ==
  ASSUME NEW t, IsSequence(t), NEW e
  PROVE  /\ IsSequence(Append(t, e)) /\ Len(Append(t, e)) = Len(t) + 1
         /\ Append(t, e)[Len(t) + 1] = e
         /\ \A i \in 1..Len(t) : Append(t, e)[i] = t[i]
<1>. DEFINE S == {t[i] : i \in DOMAIN t} \cup {e}
<1>1. t \in Seq(S) /\ e \in S
  BY DEF IsSequence
<1>2. Append(t, e) \in Seq(S)
  BY <1>1
<1>3. Len(t) \in Nat /\ DOMAIN t = 1..Len(t)
  BY <1>1, SequenceOf
<1>4. Len(Append(t, e)) = Len(t) + 1 /\ Append(t, e)[Len(t) + 1] = e
  BY <1>1
<1>5. \A i \in 1..Len(t) : Append(t, e)[i] = t[i]
  BY <1>1
<1>6. IsSequence(Append(t, e))
  BY <1>2, SequenceOf
<1>. QED BY <1>4, <1>5, <1>6

\* The tail of a sequence is the sequence without its first.
LEMMA Tailed ==
  ASSUME NEW t, IsSequence(t), t # <<>>
  PROVE  /\ IsSequence(Tail(t)) /\ Len(Tail(t)) = Len(t) - 1 /\ Len(t) > 0
         /\ \A i \in 1..Len(t) - 1 : Tail(t)[i] = t[i + 1]
<1>. DEFINE S == {t[i] : i \in DOMAIN t}
<1>1. t \in Seq(S)
  BY DEF IsSequence
<1>2. Tail(t) \in Seq(S) /\ Len(t) \in Nat
  BY <1>1
<1>3. Len(Tail(t)) = Len(t) - 1 /\ Len(t) > 0
  BY <1>1
<1>4. \A i \in 1..Len(t) - 1 : Tail(t)[i] = t[i + 1]
  BY <1>1
<1>6. IsSequence(Tail(t))
  BY <1>2, SequenceOf
<1>. QED BY <1>3, <1>4, <1>6

\* The empty sequence is a sequence of no elements.
LEMMA NothingIsSequence == IsSequence(<<>>) /\ Len(<<>>) = 0 /\ DOMAIN <<>> = {}
BY DEF IsSequence

-----------------------------------------------------------------------------
(* A walk of a rule. *)

\* The walk, n steps on.
Walked(rule, start, w, N) ==
  w = [n \in 0..N |->
         IF n = 0 THEN Standing(start)
         ELSE IF w[n - 1].running THEN Stepped(rule, w[n - 1]) ELSE w[n - 1]]

\* The walk of a rule is the function its definition chooses.
LEMMA WalkedExists ==
  ASSUME NEW rule, NEW start, NEW N \in Nat
  PROVE  \E w : Walked(rule, start, w, N)
<1>. DEFINE G == {m \in 0..N : \E w : Walked(rule, start, w, m)}
<1>1. 0 \in G
  <2>. DEFINE w == [n \in 0..0 |-> Standing(start)]
  <2>1. Walked(rule, start, w, 0)
    BY DEF Walked
  <2>. QED BY <2>1
<1>2. ASSUME NEW m \in 0..N, m < N, m \in G PROVE m + 1 \in G
  <2>1. PICK w : Walked(rule, start, w, m)
    BY <1>2
  <2>. DEFINE Next1 == IF w[m].running THEN Stepped(rule, w[m]) ELSE w[m]
              v == [n \in 0..m + 1 |-> IF n = m + 1 THEN Next1 ELSE w[n]]
  <2>2. \A n \in 0..m : v[n] = w[n]
    OBVIOUS
  <2>3. v[m + 1] = Next1
    OBVIOUS
  <2>4. \A n \in 0..m : w[n] = IF n = 0 THEN Standing(start)
                               ELSE IF w[n - 1].running THEN Stepped(rule, w[n - 1]) ELSE w[n - 1]
    BY <2>1 DEF Walked
  <2>5. \A n \in 0..m + 1 : v[n] = IF n = 0 THEN Standing(start)
                               ELSE IF v[n - 1].running THEN Stepped(rule, v[n - 1]) ELSE v[n - 1]
    <3>. HIDE DEF v
    <3>1. TAKE n \in 0..m + 1
    <3>2. CASE n = m + 1
      BY <2>2, <2>3, <3>2
    <3>3. CASE n # m + 1
      <4>1. n \in 0..m /\ (n # 0 => n - 1 \in 0..m)
        BY <3>3
      <4>. QED BY <2>2, <2>4, <4>1
    <3>. QED BY <3>2, <3>3
  <2>6. v = [n \in 0..m + 1 |-> v[n]]
    OBVIOUS
  <2>7. Walked(rule, start, v, m + 1)
    <3>. HIDE DEF v
    <3>. QED BY <2>5, <2>6 DEF Walked
  <2>8. \E u : Walked(rule, start, u, m + 1)
    <3>. HIDE DEF v
    <3>. QED BY <2>7
  <2>9. m + 1 \in 0..N
    BY <1>2
  <2>. HIDE DEF v
  <2>. QED BY <2>8, <2>9
<1>3. N \in G
  <2>. HIDE DEF G
  <2>. QED BY <1>1, <1>2, StepByStep
<1>. QED BY <1>3

\* A walk ends where its function ends, halted when its budget ends first.
LEMMA WalkIs ==
  ASSUME NEW rule, NEW start, rule.maxSteps \in Nat
  PROVE  \E w : /\ Walked(rule, start, w, rule.maxSteps)
                /\ LET end == w[rule.maxSteps]
                   IN  WalkFrom(rule, start) = IF end.running THEN Halted(end, "step_budget") ELSE end
<1>. DEFINE w == CHOOSE w : Walked(rule, start, w, rule.maxSteps)
<1>1. Walked(rule, start, w, rule.maxSteps)
  BY WalkedExists
<1>2. LET end == w[rule.maxSteps]
      IN  WalkFrom(rule, start) = IF end.running THEN Halted(end, "step_budget") ELSE end
  BY DEF WalkFrom, Walked
<1>. QED BY <1>1, <1>2

\* What a walk is like at every step: it stands at a step of the rule, has
\* collected effects of the rule, and has counted.
WalkOK(rule, w) ==
  /\ DOMAIN w = {"cursor", "visited", "effects", "count", "kind", "running", "completed"}
  /\ w.cursor \in DOMAIN rule.steps
  /\ IsSequence(w.effects)
  /\ \A i \in 1..Len(w.effects) :
        \E j \in DOMAIN rule.steps : rule.steps[j].kind = "effect" /\ w.effects[i] = rule.steps[j].effect
  /\ w.count \in Nat
  /\ w.kind \in {"check", "adjudicated_check"} => rule.steps[w.cursor].kind = w.kind

RuleSteps(rule) ==
  \A i \in DOMAIN rule.steps : rule.steps[i].kind = "effect" => rule.steps[i].next \in DOMAIN rule.steps

\* A walk starts in order.
LEMMA StandingOK ==
  ASSUME NEW rule, NEW start \in DOMAIN rule.steps, None \notin {"check", "adjudicated_check"}
  PROVE  WalkOK(rule, Standing(start))
BY NothingIsSequence DEF WalkOK, Standing

\* A step of a walk keeps it in order: it goes on to steps there are, and what it
\* collects are effects the rule names.
LEMMA SteppedOK ==
  ASSUME NEW rule, RuleSteps(rule), NEW w, WalkOK(rule, w)
  PROVE  WalkOK(rule, Stepped(rule, w))
<1>. DEFINE step == rule.steps[w.cursor]
            v == Stepped(rule, w)
<1>0. /\ w.cursor \in DOMAIN rule.steps /\ w.count \in Nat /\ IsSequence(w.effects)
      /\ DOMAIN w = {"cursor", "visited", "effects", "count", "kind", "running", "completed"}
  BY DEF WalkOK
<1>1. CASE w.cursor \in w.visited
  <2>1. DOMAIN v = DOMAIN w /\ v.cursor = w.cursor /\ v.effects = w.effects
        /\ v.count = w.count /\ v.kind = "loop"
    BY <1>0, <1>1 DEF Stepped, Halted
  <2>. QED BY <2>1 DEF WalkOK
<1>2. CASE w.cursor \notin w.visited /\ step.kind = "finish"
  <2>1. DOMAIN v = DOMAIN w /\ v.cursor = w.cursor /\ v.effects = w.effects
        /\ v.count = w.count + 1 /\ v.kind = w.kind
    BY <1>0, <1>2 DEF Stepped
  <2>. QED BY <2>1 DEF WalkOK
<1>3. CASE w.cursor \notin w.visited /\ step.kind = "effect"
  <2>1. DOMAIN v = DOMAIN w /\ v.cursor = step.next /\ v.effects = Append(w.effects, step.effect)
        /\ v.count = w.count + 1 /\ v.kind = w.kind
    BY <1>0, <1>3 DEF Stepped
  <2>. QED BY <2>1, <1>0, <1>3, Appended DEF WalkOK, RuleSteps
<1>4. CASE w.cursor \notin w.visited /\ step.kind \notin {"finish", "effect"}
  <2>1. DOMAIN v = DOMAIN w /\ v.cursor = w.cursor /\ v.effects = w.effects
        /\ v.count = w.count + 1 /\ v.kind = step.kind
    BY <1>0, <1>4 DEF Stepped, Halted
  <2>. QED BY <2>1 DEF WalkOK
<1>. QED BY <1>1, <1>2, <1>3, <1>4

\* A walk from any step there is ends in order.
LEMMA WalkFromOK ==
  ASSUME NEW rule, RuleSteps(rule), rule.maxSteps \in Nat, NEW start \in DOMAIN rule.steps,
         None \notin {"check", "adjudicated_check"}
  PROVE  WalkOK(rule, WalkFrom(rule, start))
<1>1. PICK w : /\ Walked(rule, start, w, rule.maxSteps)
               /\ LET end == w[rule.maxSteps]
                  IN  WalkFrom(rule, start) = IF end.running THEN Halted(end, "step_budget") ELSE end
  BY WalkIs
<1>. DEFINE N == rule.maxSteps
            G == {n \in 0..N : WalkOK(rule, w[n])}
            end == w[N]
<1>2. \A n \in 0..N : w[n] = IF n = 0 THEN Standing(start)
                             ELSE IF w[n - 1].running THEN Stepped(rule, w[n - 1]) ELSE w[n - 1]
  BY <1>1 DEF Walked
<1>3. 0 \in G
  BY <1>2, StandingOK
<1>4. ASSUME NEW m \in 0..N, m < N, m \in G PROVE m + 1 \in G
  <2>1. m + 1 \in 0..N /\ m + 1 # 0 /\ (m + 1) - 1 = m
    BY <1>4
  <2>2. w[m + 1] = IF w[m].running THEN Stepped(rule, w[m]) ELSE w[m]
    BY <1>2, <2>1
  <2>. QED BY <1>4, <2>1, <2>2, SteppedOK
<1>5. WalkOK(rule, end)
  <2>1. N \in 0..N
    OBVIOUS
  <2>2. N \in G
    <3>. HIDE DEF G, N
    <3>0. N \in Nat
      BY DEF N
    <3>. QED BY <1>3, <1>4, <2>1, <3>0, StepByStep
  <2>. QED BY <2>2
<1>6. CASE end.running
  <2>. DEFINE v == Halted(end, "step_budget")
  <2>1. WalkFrom(rule, start) = v
    BY <1>1, <1>6
  <2>2. DOMAIN v = DOMAIN end /\ v.cursor = end.cursor /\ v.effects = end.effects /\ v.count = end.count
        /\ v.kind = "step_budget"
    BY <1>5 DEF Halted, WalkOK
  <2>3. WalkOK(rule, v)
    BY <1>5, <2>2 DEF WalkOK
  <2>. QED BY <2>1, <2>3
<1>7. CASE ~end.running
  BY <1>1, <1>5, <1>7
<1>. QED BY <1>6, <1>7

-----------------------------------------------------------------------------
(* What is validated is sound, and stays so. *)

\* What the effects before the i-th coin.
CoinedBefore(effects, i) ==
  {effects[j].id : j \in {m \in 1..i - 1 : effects[m].type = "ensure_runtime_location"}}

Grounded(ids, effects) ==
  /\ IsSequence(effects)
  /\ \A i \in 1..Len(effects) : SoundAt(ids \cup CoinedBefore(effects, i), effects[i])

\* What is sound where some places exist is sound where more do.
LEMMA SoundMore ==
  ASSUME NEW ids, NEW more, ids \subseteq more, NEW e, SoundAt(ids, e)
  PROVE  SoundAt(more, e)
BY DEF SoundAt

\* What is grounded in some places is grounded in more.
LEMMA GroundedMore ==
  ASSUME NEW ids, NEW more, ids \subseteq more, NEW effects, Grounded(ids, effects)
  PROVE  Grounded(more, effects)
<1>1. SUFFICES ASSUME NEW i \in 1..Len(effects)
               PROVE  SoundAt(more \cup CoinedBefore(effects, i), effects[i])
  BY DEF Grounded
<1>2. SoundAt(ids \cup CoinedBefore(effects, i), effects[i])
  BY DEF Grounded
<1>3. ids \cup CoinedBefore(effects, i) \subseteq more \cup CoinedBefore(effects, i)
  OBVIOUS
<1>. QED BY <1>2, <1>3, SoundMore

\* Effects that are each sound on their own are grounded together.
LEMMA GroundedAlone ==
  ASSUME NEW ids, NEW effects, IsSequence(effects), \A i \in 1..Len(effects) : SoundAt(ids, effects[i])
  PROVE  Grounded(ids, effects)
<1>1. SUFFICES ASSUME NEW i \in 1..Len(effects)
               PROVE  SoundAt(ids \cup CoinedBefore(effects, i), effects[i])
  BY DEF Grounded
<1>2. ids \subseteq ids \cup CoinedBefore(effects, i)
  OBVIOUS
<1>. QED BY <1>2, SoundMore

\* The first of grounded effects is sound on the places themselves.
LEMMA GroundedHead ==
  ASSUME NEW ids, NEW effects, Grounded(ids, effects), effects # <<>>
  PROVE  SoundAt(ids, Head(effects))
<1>1. Len(effects) > 0 /\ Len(effects) \in Nat
  <2>1. effects \in Seq({effects[i] : i \in DOMAIN effects})
    BY DEF Grounded, IsSequence
  <2>. QED BY <2>1
<1>2. Head(effects) = effects[1]
  <2>1. effects \in Seq({effects[i] : i \in DOMAIN effects})
    BY DEF Grounded, IsSequence
  <2>. QED BY <2>1, <1>1
<1>3. SoundAt(ids \cup CoinedBefore(effects, 1), effects[1])
  BY <1>1 DEF Grounded
<1>4. CoinedBefore(effects, 1) = {}
  BY DEF CoinedBefore
<1>5. ids \cup CoinedBefore(effects, 1) \subseteq ids
  BY <1>4
<1>. QED BY <1>2, <1>3, <1>5, SoundMore

\* Once the first is applied, the rest is grounded in the places there are then.
LEMMA GroundedTail ==
  ASSUME NEW ids, NEW effects, Grounded(ids, effects), effects # <<>>,
         NEW more, ids \subseteq more,
         effects[1].type = "ensure_runtime_location" => effects[1].id \in more
  PROVE  Grounded(more, Tail(effects))
<1>1. /\ IsSequence(Tail(effects)) /\ Len(Tail(effects)) = Len(effects) - 1 /\ Len(effects) > 0
      /\ \A i \in 1..Len(effects) - 1 : Tail(effects)[i] = effects[i + 1]
  BY Tailed DEF Grounded
<1>0. Len(effects) \in Nat
  BY SequenceOf DEF Grounded, IsSequence
<1>2. SUFFICES ASSUME NEW i \in 1..Len(effects) - 1
               PROVE  SoundAt(more \cup CoinedBefore(Tail(effects), i), Tail(effects)[i])
  BY <1>1 DEF Grounded
<1>3. SoundAt(ids \cup CoinedBefore(effects, i + 1), effects[i + 1])
  <2>1. PICK j : j = i + 1
    OBVIOUS
  <2>2. j \in 1..Len(effects)
    BY <1>0, <2>1
  <2>3. \A m \in 1..Len(effects) : SoundAt(ids \cup CoinedBefore(effects, m), effects[m])
    BY Zenon DEF Grounded
  <2>. QED BY <2>1, <2>2, <2>3, Zenon
<1>4. ASSUME NEW j \in 1..i, effects[j].type = "ensure_runtime_location"
      PROVE  effects[j].id \in more \cup CoinedBefore(Tail(effects), i)
  <2>1. CASE j = 1
    BY <1>4, <2>1
  <2>2. CASE j # 1
    <3>1. j - 1 \in 1..i - 1 /\ Tail(effects)[j - 1] = effects[j]
      BY <1>0, <1>1, <2>2
    <3>. QED BY <1>4, <3>1 DEF CoinedBefore
  <2>. QED BY <2>1, <2>2
<1>5. CoinedBefore(effects, i + 1) \subseteq more \cup CoinedBefore(Tail(effects), i)
  <2>1. (i + 1) - 1 = i
    OBVIOUS
  <2>. QED BY <1>4, <2>1 DEF CoinedBefore
<1>6. SoundAt(more \cup CoinedBefore(Tail(effects), i), effects[i + 1])
  <2>1. ids \cup CoinedBefore(effects, i + 1) \subseteq more \cup CoinedBefore(Tail(effects), i)
    BY <1>5
  <2>. QED BY <1>3, <2>1, SoundMore
<1>. QED BY <1>1, <1>6

\* What is in scope at each effect of a sequence.
Scoping(s, effects, f, N) ==
  f = [n \in 0..N |-> IF n = 0 THEN VocabularyOf(s) ELSE Absorbed(f[n - 1], effects[n])]

\* The vocabulary that validation carries along is the function it chooses.
LEMMA ScopingExists ==
  ASSUME NEW s, NEW effects, NEW N \in Nat
  PROVE  \E f : Scoping(s, effects, f, N)
<1>. DEFINE G == {m \in 0..N : \E f : Scoping(s, effects, f, m)}
<1>1. 0 \in G
  <2>. DEFINE f == [n \in 0..0 |-> VocabularyOf(s)]
  <2>1. Scoping(s, effects, f, 0)
    BY DEF Scoping
  <2>. QED BY <2>1
<1>2. ASSUME NEW m \in 0..N, m < N, m \in G PROVE m + 1 \in G
  <2>1. PICK f : Scoping(s, effects, f, m)
    BY <1>2
  <2>. DEFINE v == [n \in 0..m + 1 |-> IF n = m + 1 THEN Absorbed(f[m], effects[m + 1]) ELSE f[n]]
  <2>2. \A n \in 0..m : v[n] = f[n]
    OBVIOUS
  <2>3. v[m + 1] = Absorbed(f[m], effects[m + 1])
    OBVIOUS
  <2>4. \A n \in 0..m : f[n] = IF n = 0 THEN VocabularyOf(s) ELSE Absorbed(f[n - 1], effects[n])
    BY <2>1 DEF Scoping
  <2>5. \A n \in 0..m + 1 : v[n] = IF n = 0 THEN VocabularyOf(s) ELSE Absorbed(v[n - 1], effects[n])
    <3>. HIDE DEF v
    <3>1. TAKE n \in 0..m + 1
    <3>2. CASE n = m + 1
      BY <2>2, <2>3, <3>2
    <3>3. CASE n # m + 1
      <4>1. n \in 0..m /\ (n # 0 => n - 1 \in 0..m)
        BY <3>3
      <4>. QED BY <2>2, <2>4, <4>1
    <3>. QED BY <3>2, <3>3
  <2>6. v = [n \in 0..m + 1 |-> v[n]]
    OBVIOUS
  <2>8. \E u : Scoping(s, effects, u, m + 1)
    <3>. HIDE DEF v
    <3>1. Scoping(s, effects, v, m + 1)
      BY <2>5, <2>6 DEF Scoping
    <3>. QED BY <3>1
  <2>9. m + 1 \in 0..N
    BY <1>2
  <2>. HIDE DEF v
  <2>. QED BY <2>8, <2>9
<1>3. N \in G
  <2>. HIDE DEF G
  <2>. QED BY <1>1, <1>2, StepByStep
<1>. QED BY <1>3

\* A valid sequence is one each of whose effects is valid in its vocabulary.
LEMMA ValidIs ==
  ASSUME NEW s, NEW effects, Len(effects) \in Nat, NEW consented, ValidSequence(s, effects, consented)
  PROVE  \E f : /\ Scoping(s, effects, f, Len(effects))
                /\ \A i \in 1..Len(effects) : ValidEntry(f[i - 1], effects[i])
<1>. DEFINE f == CHOOSE f : Scoping(s, effects, f, Len(effects))
<1>1. Scoping(s, effects, f, Len(effects))
  BY ScopingExists
<1>2. \A i \in 1..Len(effects) : ValidEntry(f[i - 1], effects[i])
  BY DEF ValidSequence, Scoping
<1>. QED BY <1>1, <1>2

\* At each effect, the places in scope are those there were, and what was coined.
LEMMA ScopingPlaces ==
  ASSUME NEW s, NEW effects, NEW N \in Nat, NEW f, Scoping(s, effects, f, N)
  PROVE  \A n \in 0..N : f[n].locations = LocationIds(s) \cup CoinedBefore(effects, n + 1)
<1>. DEFINE Fields == {"entities", "locations", "portable", "time"}
            G == {n \in 0..N : /\ DOMAIN f[n] = Fields
                               /\ f[n].locations = LocationIds(s) \cup CoinedBefore(effects, n + 1)}
<1>1. \A n \in 0..N : f[n] = IF n = 0 THEN VocabularyOf(s) ELSE Absorbed(f[n - 1], effects[n])
  BY DEF Scoping
<1>2. 0 \in G
  <2>1. f[0] = VocabularyOf(s)
    BY <1>1
  <2>2. DOMAIN f[0] = Fields /\ f[0].locations = LocationIds(s)
    BY <2>1 DEF VocabularyOf
  <2>3. CoinedBefore(effects, 0 + 1) = {}
    BY DEF CoinedBefore
  <2>. QED BY <2>2, <2>3
<1>3. ASSUME NEW m \in 0..N, m < N, m \in G PROVE m + 1 \in G
  <2>1. m + 1 \in 0..N /\ m + 1 # 0 /\ (m + 1) - 1 = m /\ (m + 2) - 1 = m + 1 /\ (m + 1) + 1 = m + 2
    BY <1>3
  <2>2. f[m + 1] = Absorbed(f[m], effects[m + 1])
    BY <1>1, <2>1
  <2>3. DOMAIN f[m] = Fields /\ f[m].locations = LocationIds(s) \cup CoinedBefore(effects, m + 1)
    BY <1>3
  <2>4. DOMAIN f[m + 1] = Fields
    BY <2>2, <2>3 DEF Absorbed
  <2>5. f[m + 1].locations = IF effects[m + 1].type = "ensure_runtime_location"
                             THEN f[m].locations \cup {effects[m + 1].id} ELSE f[m].locations
    BY <2>2, <2>3 DEF Absorbed
  <2>6. CoinedBefore(effects, m + 2) = CoinedBefore(effects, m + 1) \cup
          {effects[j].id : j \in {k \in {m + 1} : effects[k].type = "ensure_runtime_location"}}
    <3>1. 1..(m + 1) = {m + 1} \cup 1..m
      OBVIOUS
    <3>. QED BY <3>1, <2>1 DEF CoinedBefore
  <2>7. f[m + 1].locations = LocationIds(s) \cup CoinedBefore(effects, m + 2)
    BY <2>3, <2>5, <2>6
  <2>. QED BY <2>1, <2>4, <2>7
<1>4. \A n \in 0..N : n \in G
  <2>. HIDE DEF G
  <2>. QED BY <1>2, <1>3, StepByStep
<1>. QED BY <1>4

\* A sequence that was validated on a state is grounded in the places of the state.
LEMMA ValidIsGrounded ==
  ASSUME NEW s, NEW effects, IsSequence(effects), \A i \in 1..Len(effects) : WellFormed(effects[i]),
         NEW consented, ValidSequence(s, effects, consented)
  PROVE  Grounded(LocationIds(s), effects)
<1>0. Len(effects) \in Nat
  BY SequenceOf DEF IsSequence
<1>1. PICK f : /\ Scoping(s, effects, f, Len(effects))
               /\ \A i \in 1..Len(effects) : ValidEntry(f[i - 1], effects[i])
  BY <1>0, ValidIs
<1>2. SUFFICES ASSUME NEW i \in 1..Len(effects)
               PROVE  SoundAt(LocationIds(s) \cup CoinedBefore(effects, i), effects[i])
  BY DEF Grounded
<1>3. i - 1 \in 0..Len(effects) /\ (i - 1) + 1 = i
  BY <1>0
<1>4. f[i - 1].locations = LocationIds(s) \cup CoinedBefore(effects, i)
  <2>1. \A n \in 0..Len(effects) : f[n].locations = LocationIds(s) \cup CoinedBefore(effects, n + 1)
    BY <1>0, <1>1, ScopingPlaces
  <2>2. f[i - 1].locations = LocationIds(s) \cup CoinedBefore(effects, (i - 1) + 1)
    BY <1>3, <2>1
  <2>. QED BY <1>3, <2>2
<1>5. ValidEntry(f[i - 1], effects[i]) /\ WellFormed(effects[i])
  BY <1>1
<1>. DEFINE v == f[i - 1]
            e == effects[i]
<1>. HIDE DEF v, e
<1>6. ValidEntry(v, e) /\ WellFormed(e)
  BY <1>5 DEF v, e
<1>7. SoundAt(v.locations, e)
  BY <1>6 DEF ValidEntry, WellFormed, SoundAt, Refers
<1>. QED BY <1>4, <1>7 DEF v, e

-----------------------------------------------------------------------------
(* What a state is like, and what applying an effect keeps of it. *)

StateFields ==
  {"scene", "facts", "actorFacts", "override", "partyPlaces", "actorPlaces", "context",
   "runtimeLocations", "runtimeEntities", "entities", "publicKeys", "items", "partyItems",
   "actorItems", "time", "coreResolved", "endingAvailable", "agendas"}

ItemFields == {"origin", "custody", "version", "status", "values"}

RecordFields == {"flags", "at", "holder", "consumed"}

CustodyOK(i, custody, ids) ==
  \/ custody.kind = "actor" /\ custody.ref \in Actors
  \/ custody.kind = "location" /\ custody.ref \in ids
  \/ IsCanonItem(i) /\ custody = CanonItem(i).custody

PlacesOK(s) ==
  /\ None \notin DOMAIN s.runtimeLocations /\ IsFiniteSet(DOMAIN s.runtimeLocations)
  /\ \A l \in DOMAIN s.runtimeLocations :
        s.runtimeLocations[l].connected \in LocationIds(s) \ {l}
  /\ s.scene \in LocationIds(s)

KnownOK(s) ==
  /\ KnowledgeOK(s.partyPlaces, LocationIds(s))
  /\ DOMAIN s.actorPlaces = Actors /\ DOMAIN s.actorFacts = Actors
  /\ \A a \in Actors : KnowledgeOK(s.actorPlaces[a], LocationIds(s))

ThingsOK(s) ==
  /\ \A i \in DOMAIN s.items : /\ DOMAIN s.items[i] = ItemFields
                               /\ CustodyOK(i, s.items[i].custody, LocationIds(s))
  /\ \A e \in DOMAIN s.entities : /\ DOMAIN s.entities[e] = RecordFields
                                  /\ s.entities[e].holder = None

TimeOK(s) ==
  /\ DOMAIN s.time = {"day", "point"} /\ s.time.day \in Nat
  /\ s.time.point \in 1..Len(Module.points)

StateOK(s) == DOMAIN s = StateFields /\ PlacesOK(s) /\ KnownOK(s) /\ ThingsOK(s) /\ TimeOK(s)

-----------------------------------------------------------------------------
(* Where a way leads: only to places there are. *)

\* A set of numbers that is not empty has a smallest.
LEMMA SmallestNumber ==
  ASSUME NEW N \in Nat, NEW S, S \subseteq 0..N, S # {}
  PROVE  \E n \in S : \A m \in S : n <= m
<1>1. SUFFICES ASSUME \A n \in S : \E m \in S : m < n PROVE FALSE
  OBVIOUS
<1>. DEFINE G == {m \in 0..N : \A k \in 0..m : k \notin S}
<1>2. 0 \in G
  BY <1>1
<1>3. \A m \in 0..N : m < N /\ m \in G => m + 1 \in G
  BY <1>1
<1>4. \A m \in 0..N : m \in G
  <2>. HIDE DEF G
  <2>. QED BY <1>2, <1>3, StepByStep
<1>5. N \in 0..N /\ N \in G
  BY <1>4
<1>6. \A k \in 0..N : k \notin S
  BY <1>5
<1>. QED BY <1>6

\* The image of a finite set is finite.
LEMMA ImageIsFinite ==
  ASSUME NEW S, IsFiniteSet(S), NEW f, DOMAIN f = S
  PROVE  IsFiniteSet({f[x] : x \in S})
<1>. DEFINE T == {f[x] : x \in S}
            g == [x \in S |-> f[x]]
<1>1. g \in Surjection(S, T)
  BY DEF Surjection
<1>. QED BY <1>1, FS_Surjection

\* The paths of each length from a place.
Growing(edges, from, f, N) ==
  f = [n \in 0..N |-> IF n = 0 THEN {<<from>>} ELSE Extended(edges, f[n - 1])]

\* The paths that grow along the edges are the function the search chooses.
LEMMA GrowingExists ==
  ASSUME NEW edges, NEW from, NEW N \in Nat
  PROVE  \E f : Growing(edges, from, f, N)
<1>. DEFINE G == {m \in 0..N : \E f : Growing(edges, from, f, m)}
<1>1. 0 \in G
  <2>. DEFINE f == [n \in 0..0 |-> {<<from>>}]
  <2>1. Growing(edges, from, f, 0)
    BY DEF Growing
  <2>. QED BY <2>1
<1>2. ASSUME NEW m \in 0..N, m < N, m \in G PROVE m + 1 \in G
  <2>1. PICK f : Growing(edges, from, f, m)
    BY <1>2
  <2>. DEFINE v == [n \in 0..m + 1 |-> IF n = m + 1 THEN Extended(edges, f[m]) ELSE f[n]]
  <2>2. \A n \in 0..m : v[n] = f[n]
    OBVIOUS
  <2>3. v[m + 1] = Extended(edges, f[m])
    OBVIOUS
  <2>4. \A n \in 0..m : f[n] = IF n = 0 THEN {<<from>>} ELSE Extended(edges, f[n - 1])
    BY <2>1 DEF Growing
  <2>5. \A n \in 0..m + 1 : v[n] = IF n = 0 THEN {<<from>>} ELSE Extended(edges, v[n - 1])
    <3>. HIDE DEF v
    <3>1. TAKE n \in 0..m + 1
    <3>2. CASE n = m + 1
      BY <2>2, <2>3, <3>2
    <3>3. CASE n # m + 1
      <4>1. n \in 0..m /\ (n # 0 => n - 1 \in 0..m)
        BY <3>3
      <4>. QED BY <2>2, <2>4, <4>1
    <3>. QED BY <3>2, <3>3
  <2>6. v = [n \in 0..m + 1 |-> v[n]]
    OBVIOUS
  <2>8. \E u : Growing(edges, from, u, m + 1)
    <3>. HIDE DEF v
    <3>1. Growing(edges, from, v, m + 1)
      BY <2>5, <2>6 DEF Growing
    <3>. QED BY <3>1
  <2>9. m + 1 \in 0..N
    BY <1>2
  <2>. HIDE DEF v
  <2>. QED BY <2>8, <2>9
<1>3. N \in G
  <2>. HIDE DEF G
  <2>. QED BY <1>1, <1>2, StepByStep
<1>. QED BY <1>3

\* Paths of places there are, none of them empty.
PathsIn(ids, P) == \A p \in P : p \in Seq(ids) /\ p # <<>>

\* To extend paths by edges between places there are keeps them in those places.
LEMMA ExtendedIn ==
  ASSUME NEW ids, NEW edges, \A e \in edges : e.to \in ids, NEW P, PathsIn(ids, P)
  PROVE  PathsIn(ids, Extended(edges, P))
<1>1. SUFFICES ASSUME NEW q \in Extended(edges, P) PROVE q \in Seq(ids) /\ q # <<>>
  BY DEF PathsIn
<1>2. PICK p \in P, e \in edges : q = Append(p, e.to)
  BY DEF Extended
<1>3. p \in Seq(ids) /\ e.to \in ids
  BY DEF PathsIn
<1>4. Append(p, e.to) \in Seq(ids) /\ Append(p, e.to) # <<>>
  BY <1>3
<1>. QED BY <1>2, <1>4

\* Paths that start and grow between places there are stay in those places.
LEMMA GrowingIn ==
  ASSUME NEW ids, NEW edges, \A e \in edges : e.to \in ids, NEW from \in ids,
         NEW N \in Nat, NEW f, Growing(edges, from, f, N)
  PROVE  \A n \in 0..N : PathsIn(ids, f[n])
<1>. DEFINE G == {n \in 0..N : PathsIn(ids, f[n])}
<1>1. \A n \in 0..N : f[n] = IF n = 0 THEN {<<from>>} ELSE Extended(edges, f[n - 1])
  BY DEF Growing
<1>2. 0 \in G
  <2>1. f[0] = {<<from>>}
    BY <1>1
  <2>2. <<from>> \in Seq(ids) /\ <<from>> # <<>>
    OBVIOUS
  <2>3. PathsIn(ids, {<<from>>})
    BY <2>2, Zenon DEF PathsIn
  <2>4. PathsIn(ids, f[0])
    BY <2>1, <2>3
  <2>. QED BY <2>4
<1>3. ASSUME NEW m \in 0..N, m < N, m \in G PROVE m + 1 \in G
  <2>1. m + 1 \in 0..N /\ m + 1 # 0 /\ (m + 1) - 1 = m
    BY <1>3
  <2>2. f[m + 1] = Extended(edges, f[m])
    BY <1>1, <2>1
  <2>. QED BY <1>3, <2>1, <2>2, ExtendedIn
<1>4. \A n \in 0..N : n \in G
  <2>. HIDE DEF G
  <2>. QED BY <1>2, <1>3, StepByStep
<1>. QED BY <1>4

\* A shortest path, if one is found, starts where it should and stays in the places.
LEMMA ShortestIn ==
  ASSUME NEW ids, NEW edges, IsFiniteSet(edges), \A e \in edges : e.to \in ids, NEW from \in ids, NEW to
  PROVE  PathsIn(ids, ShortestPaths(edges, from, to))
<1>. DEFINE places == {from} \cup {e.to : e \in edges}
            N == Cardinality(places)
            f == CHOOSE f : Growing(edges, from, f, N)
            ending == [n \in DOMAIN f |-> {p \in f[n] : End(p) = to}]
            lengths == {n \in DOMAIN ending : ending[n] # {}}
            least == CHOOSE n \in lengths : \A m \in lengths : n <= m
<1>1. N \in Nat
  <2>. DEFINE g == [e \in edges |-> e.to]
  <2>1. IsFiniteSet({g[e] : e \in edges})
    BY ImageIsFinite
  <2>2. {e.to : e \in edges} = {g[e] : e \in edges}
    OBVIOUS
  <2>3. IsFiniteSet({from} \cup {e.to : e \in edges})
    BY <2>1, <2>2, FS_AddElement
  <2>. QED BY <2>3, FS_CardinalityType
<1>. HIDE DEF N
<1>2. Growing(edges, from, f, N)
  BY <1>1, GrowingExists
<1>3. ShortestPaths(edges, from, to) = IF lengths = {} THEN {} ELSE ending[least]
  BY DEF ShortestPaths, Growing, N
<1>. HIDE DEF f
<1>4. DOMAIN f = 0..N
  BY <1>2 DEF Growing
<1>5. CASE lengths # {}
  <2>1. lengths \subseteq 0..N
    BY <1>4
  <2>2. least \in lengths
    <3>. HIDE DEF lengths
    <3>1. \E n \in lengths : \A m \in lengths : n <= m
      BY <1>1, <1>5, <2>1, SmallestNumber
    <3>. QED BY <3>1
  <2>3. least \in 0..N /\ ending[least] \subseteq f[least]
    <3>. HIDE DEF least
    <3>. QED BY <1>4, <2>1, <2>2
  <2>4. \A n \in 0..N : PathsIn(ids, f[n])
    BY <1>1, <1>2, GrowingIn
  <2>. HIDE DEF ending, least
  <2>. QED BY <1>3, <1>5, <2>3, <2>4 DEF PathsIn
<1>6. CASE lengths = {}
  BY <1>3, <1>6 DEF PathsIn
<1>. QED BY <1>5, <1>6

\* The ways of a state join places there are.
LEMMA RuntimeEdgesJoin ==
  ASSUME NEW s, StateOK(s), None \notin Module.locations
  PROVE  /\ \A e \in RuntimeEdges(s) : e.to \in LocationIds(s)
         /\ IsFiniteSet(RuntimeEdges(s))
<1>. DEFINE AnchorOf(l) == IF s.runtimeLocations[l].connected # None
                         THEN s.runtimeLocations[l].connected ELSE s.runtimeLocations[l].parent
            Way(from, to, l) == [id |-> <<"runtime", l, from = l>>, from |-> from, to |-> to,
                                 traversal |-> "automatic", visibility |-> "public",
                                 access |-> None, conditions |-> {}]
            Anchored == {l \in DOMAIN s.runtimeLocations : AnchorOf(l) \notin {None, l}}
            both == [l \in Anchored |-> {Way(AnchorOf(l), l, l), Way(l, AnchorOf(l), l)}]
<1>0. PlacesOK(s)
  BY DEF StateOK
<1>1. \A l \in Anchored : AnchorOf(l) \in LocationIds(s) /\ l \in LocationIds(s)
  <2>1. None \notin LocationIds(s)
    BY <1>0 DEF PlacesOK, LocationIds
  <2>. QED BY <1>0, <2>1 DEF PlacesOK, LocationIds
<1>2. RuntimeEdges(s) = UNION {{Way(AnchorOf(l), l, l), Way(l, AnchorOf(l), l)} : l \in Anchored}
  BY DEF RuntimeEdges
<1>3. \A e \in RuntimeEdges(s) : e.to \in LocationIds(s)
  <2>1. TAKE e \in RuntimeEdges(s)
  <2>2. PICK l \in Anchored : e \in {Way(AnchorOf(l), l, l), Way(l, AnchorOf(l), l)}
    BY <1>2
  <2>3. e.to \in {l, AnchorOf(l)}
    <3>. HIDE DEF AnchorOf, Anchored
    <3>. QED BY <2>2
  <2>. QED BY <1>1, <2>2, <2>3
<1>4. IsFiniteSet(RuntimeEdges(s))
  <2>1. IsFiniteSet(Anchored)
    BY <1>0, FS_Subset DEF PlacesOK
  <2>2. IsFiniteSet({both[l] : l \in Anchored})
    <3>1. DOMAIN both = Anchored
      OBVIOUS
    <3>. HIDE DEF both, Anchored
    <3>. QED BY <2>1, <3>1, ImageIsFinite
  <2>3. \A T \in {both[l] : l \in Anchored} : IsFiniteSet(T)
    <3>1. TAKE T \in {both[l] : l \in Anchored}
    <3>. HIDE DEF Anchored
    <3>2. PICK l \in Anchored : T = both[l]
      BY <3>1
    <3>. HIDE DEF AnchorOf, Way
    <3>3. T = {Way(AnchorOf(l), l, l)} \cup {Way(l, AnchorOf(l), l)}
      BY <3>2
    <3>4. IsFiniteSet({Way(AnchorOf(l), l, l)}) /\ IsFiniteSet({Way(l, AnchorOf(l), l)})
      BY FS_Singleton
    <3>. QED BY <3>3, <3>4, FS_Union
  <2>4. RuntimeEdges(s) = UNION {both[l] : l \in Anchored}
    <3>. HIDE DEF AnchorOf, Way, Anchored
    <3>. QED BY <1>2
  <2>. HIDE DEF both, Anchored
  <2>. QED BY <2>2, <2>3, <2>4, FS_UNION
<1>. QED BY <1>3, <1>4

\* The edges routes are made of join places there are.
LEMMA RouteEdgesJoin ==
  ASSUME NEW s, StateOK(s), NEW a, NEW knowledge
  PROVE  /\ \A e \in RouteEdges(s, a, knowledge) : e.to \in LocationIds(s)
         /\ IsFiniteSet(RouteEdges(s, a, knowledge))
<1>1. /\ None \notin Module.locations /\ IsFiniteSet(Module.edges)
      /\ \A e \in Module.edges : e.to \in Module.locations
  BY ModuleAssumption
<1>2. RouteEdges(s, a, knowledge) \subseteq Module.edges \cup RuntimeEdges(s)
  BY DEF RouteEdges
<1>3. \A e \in RuntimeEdges(s) : e.to \in LocationIds(s)
  BY <1>1, RuntimeEdgesJoin
<1>4. IsFiniteSet(RuntimeEdges(s))
  BY <1>1, RuntimeEdgesJoin
<1>5. IsFiniteSet(Module.edges \cup RuntimeEdges(s))
  BY <1>1, <1>4, FS_Union
<1>6. IsFiniteSet(RouteEdges(s, a, knowledge))
  BY <1>2, <1>5, FS_Subset
<1>. QED BY <1>1, <1>2, <1>3, <1>6 DEF LocationIds

\* The last place a route gets to before it is closed exists.
LEMMA FrontierIsThere ==
  ASSUME NEW s, StateOK(s), NEW a, NEW edges, NEW path \in Seq(LocationIds(s)), path # <<>>
  PROVE  End(Frontier(s, a, edges, path).path) \in LocationIds(s)
<1>. DEFINE Between(i) == {e \in edges : e.from = path[i] /\ e.to = path[i + 1]}
            First(i)   == CHOOSE e \in Between(i) :
                             \A f \in Between(i) \cap Module.edges :
                                e \in Module.edges /\ e.id[2] <= f.id[2]
            Before(e) == IF e.access # None THEN e.access ELSE e.id
            shut == {i \in 1..Len(path) - 1 : ~EdgeIsTraversable(s, a, First(i))}
            at == CHOOSE i \in shut : \A j \in shut : i <= j
<1>1. Frontier(s, a, edges, path) =
        IF shut = {} THEN Resolution("known_blocked", <<s.scene>>, "route")
        ELSE Resolution("known_blocked", SubSeq(path, 1, at), Before(First(at)))
  BY DEF Frontier
<1>2. s.scene \in LocationIds(s)
  BY DEF StateOK, PlacesOK
<1>3. CASE shut = {}
  <2>0. Frontier(s, a, edges, path) = Resolution("known_blocked", <<s.scene>>, "route")
    BY <1>1, <1>3, Zenon
  <2>1. Frontier(s, a, edges, path).path = <<s.scene>>
    BY <2>0 DEF Resolution
  <2>2. End(<<s.scene>>) = s.scene
    BY DEF End
  <2>. QED BY <1>2, <2>1, <2>2
<1>4. CASE shut # {}
  <2>0. Len(path) \in Nat
    OBVIOUS
  <2>1. shut \subseteq 0..Len(path)
    BY <2>0
  <2>2. at \in shut
    <3>. HIDE DEF shut
    <3>1. \E i \in shut : \A j \in shut : i <= j
      BY <1>4, <2>0, <2>1, SmallestNumber
    <3>. QED BY <3>1
  <2>3. at \in 1..Len(path)
    <3>. HIDE DEF at
    <3>. QED BY <2>0, <2>2
  <2>4. Frontier(s, a, edges, path).path = SubSeq(path, 1, at)
    <3>. DEFINE way == SubSeq(path, 1, at)
                boundary == Before(First(at))
    <3>1. Frontier(s, a, edges, path) = Resolution("known_blocked", way, boundary)
      BY <1>1, <1>4, Zenon
    <3>2. Frontier(s, a, edges, path).path = way
      <4>. HIDE DEF way, boundary
      <4>. QED BY <3>1 DEF Resolution
    <3>. QED BY <3>2, Zenon
  <2>5. End(SubSeq(path, 1, at)) = path[at]
    <3>. HIDE DEF at
    <3>. QED BY <2>0, <2>3 DEF End
  <2>6. path[at] \in LocationIds(s)
    <3>. HIDE DEF at
    <3>. QED BY <2>3
  <2>. QED BY <2>4, <2>5, <2>6
<1>. QED BY <1>3, <1>4

\* A way that is found leads to a place there is, and a closed one stops at one.
LEMMA ResolvedPlace ==
  ASSUME NEW s, StateOK(s), NEW a, NEW l,
         NEW r, r = ResolveLocationTarget(s, a, l), r.status \in {"known_reachable", "known_blocked"}
  PROVE  /\ l \in LocationIds(s)
         /\ r.status = "known_blocked" => End(r.path) \in LocationIds(s)
<1>. DEFINE knowledge == EffectiveKnowledge(s, a)
            edges == RouteEdges(s, a, knowledge)
            open == ShortestPaths({e \in edges : EdgeIsTraversable(s, a, e)}, s.scene, l)
            structural == ShortestPaths(edges, s.scene, l)
<1>. HIDE DEF knowledge, edges, open, structural
<1>1. r = ResolvedAlong(s, a, l, knowledge, edges)
  BY DEF ResolveLocationTarget, ResolvedWith, knowledge, edges
<1>2. l \in LocationIds(s)
  <2>1. SUFFICES ASSUME l \notin LocationIds(s) PROVE FALSE
    OBVIOUS
  <2>2. r = Resolution("unsupported", <<>>, None)
    BY <1>1, <2>1 DEF ResolvedAlong
  <2>. QED BY <2>2 DEF Resolution
<1>3. ASSUME r.status = "known_blocked" PROVE End(r.path) \in LocationIds(s)
  <2>1. At(knowledge, l, Unknown).existence # "unknown"
    <3>1. SUFFICES ASSUME At(knowledge, l, Unknown).existence = "unknown" PROVE FALSE
      OBVIOUS
    <3>2. r.status \in {"hidden_canon_collision", "unsupported"}
      BY <1>1, <1>2, <3>1 DEF ResolvedAlong, Resolution
    <3>. QED BY <3>2
  <2>2. r = IF knowledge[l].localization # "located" THEN Resolution("known_unlocated", <<>>, None)
            ELSE IF open # {} THEN Resolution("known_reachable", CHOOSE p \in open : TRUE, None)
            ELSE IF structural # {} THEN Frontier(s, a, edges, CHOOSE p \in structural : TRUE)
            ELSE Resolution("known_blocked", <<s.scene>>, "route")
    BY <1>1, <1>2, <2>1 DEF ResolvedAlong, open, structural
  <2>3. \/ structural # {} /\ r = Frontier(s, a, edges, CHOOSE p \in structural : TRUE)
        \/ r.path = <<s.scene>>
    BY <1>3, <2>2 DEF Resolution
  <2>4. s.scene \in LocationIds(s)
    BY DEF StateOK, PlacesOK
  <2>5. CASE r.path = <<s.scene>>
    <3>1. End(<<s.scene>>) = s.scene
      BY DEF End
    <3>. QED BY <2>4, <2>5, <3>1
  <2>6. CASE structural # {} /\ r = Frontier(s, a, edges, CHOOSE p \in structural : TRUE)
    <3>1. IsFiniteSet(edges)
      BY RouteEdgesJoin DEF edges
    <3>2. \A e \in edges : e.to \in LocationIds(s)
      BY RouteEdgesJoin DEF edges
    <3>3. PathsIn(LocationIds(s), structural)
      BY <2>4, <3>1, <3>2, ShortestIn DEF structural
    <3>4. PICK p : p \in structural /\ r = Frontier(s, a, edges, p)
      BY <2>6
    <3>5. p \in Seq(LocationIds(s)) /\ p # <<>>
      BY <3>3, <3>4 DEF PathsIn
    <3>. QED BY <3>4, <3>5, FrontierIsThere
  <2>. QED BY <2>3, <2>5, <2>6
<1>. QED BY <1>2, <1>3

-----------------------------------------------------------------------------
(* What applying an effect keeps.                                          *)

\* A later state of a game, of which as much holds, and what an effect may not touch.
Keeps(s, t) == StateOK(t) /\ LocationIds(s) \subseteq LocationIds(t) /\ t.agendas = s.agendas

Like(s, t) ==
  /\ DOMAIN t = DOMAIN s
  /\ t.scene = s.scene /\ t.partyPlaces = s.partyPlaces /\ t.actorPlaces = s.actorPlaces
  /\ t.runtimeLocations = s.runtimeLocations /\ t.items = s.items /\ t.entities = s.entities
  /\ t.time = s.time /\ t.agendas = s.agendas /\ DOMAIN t.actorFacts = DOMAIN s.actorFacts

\* A state that differs only in what no property of the places is about is kept.
LEMMA LikeKeeps ==
  ASSUME NEW s, StateOK(s), NEW t, Like(s, t)
  PROVE  Keeps(s, t)
<1>1. LocationIds(t) = LocationIds(s)
  BY DEF Like, LocationIds
<1>2. PlacesOK(t) /\ KnownOK(t) /\ ThingsOK(t) /\ TimeOK(t)
  BY <1>1 DEF StateOK, Like, PlacesOK, KnownOK, ThingsOK, TimeOK
<1>. QED BY <1>1, <1>2 DEF Keeps, StateOK, Like

\* Everything but what is known of the places is as it was, and those exist.
LEMMA KnownKeeps ==
  ASSUME NEW s, StateOK(s), NEW t, DOMAIN t = StateFields, t.scene = s.scene,
         t.runtimeLocations = s.runtimeLocations, t.items = s.items, t.entities = s.entities,
         t.time = s.time, t.agendas = s.agendas, KnownOK(t)
  PROVE  Keeps(s, t)
<1>1. LocationIds(t) = LocationIds(s)
  BY DEF LocationIds
<1>2. PlacesOK(t) /\ ThingsOK(t) /\ TimeOK(t)
  BY <1>1 DEF StateOK, PlacesOK, ThingsOK, TimeOK
<1>. QED BY <1>1, <1>2 DEF Keeps, StateOK

\* To learn of a place there is keeps what is known of places in order.
LEMMA PutKnown ==
  ASSUME NEW places, NEW ids, KnowledgeOK(places, ids), NEW l \in ids, NEW known,
         known.existence = "unknown" => known = Unknown
  PROVE  KnowledgeOK(Put(places, l, known), ids)
BY DEF KnowledgeOK, Put

\* Revealing or hiding information keeps a state whole.
LEMMA InformationKeeps ==
  ASSUME NEW s, StateOK(s), NEW a, NEW e
  PROVE  Keeps(s, ApplyInformation(s, a, e))
<1>. DEFINE t == ApplyInformation(s, a, e)
<1>0. DOMAIN s = StateFields
  BY DEF StateOK
<1>1. Like(s, t)
  BY <1>0 DEF ApplyInformation, Like, StateFields
<1>. QED BY <1>1, LikeKeeps

\* Showing or hiding a thing or a place keeps a state whole.
LEMMA VisibilityKeeps ==
  ASSUME NEW s, StateOK(s), NEW a \in Actors, NEW e, SoundAt(LocationIds(s), e),
         e.type = "set_visibility"
  PROVE  Keeps(s, ApplySetVisibility(s, a, e))
<1>. DEFINE t == ApplySetVisibility(s, a, e)
            u == [s EXCEPT !.override = Put(@, <<Scoped(a, e), e.kind, e.id>>, e.visible)]
            Seen(places) == Put(places, e.id, VisibilityKnowledge(e.visible, At(places, e.id, Unknown)))
<1>0. DOMAIN s = StateFields
  BY DEF StateOK
<1>1. Like(s, u) /\ DOMAIN u = StateFields
  BY <1>0 DEF Like, StateFields
<1>2. CASE e.kind # "location"
  <2>1. t = u
    BY <1>2 DEF ApplySetVisibility
  <2>. QED BY <1>1, <2>1, LikeKeeps
<1>3. ASSUME e.kind = "location", NEW places, KnowledgeOK(places, LocationIds(s))
      PROVE  KnowledgeOK(Seen(places), LocationIds(s))
  <2>1. e.id \in LocationIds(s)
    BY <1>3 DEF SoundAt, Refers
  <2>. DEFINE known == VisibilityKnowledge(e.visible, At(places, e.id, Unknown))
  <2>2. known.existence = "unknown" => known = Unknown
    BY DEF VisibilityKnowledge, Known
  <2>. HIDE DEF known
  <2>3. KnowledgeOK(Put(places, e.id, known), LocationIds(s))
    BY <1>3, <2>1, <2>2, PutKnown
  <2>. QED BY <2>3 DEF known
<1>. HIDE DEF Seen
<1>4. CASE e.kind = "location" /\ e.scope = "actor"
  <2>1. t = [u EXCEPT !.actorPlaces[a] = Seen(@)]
    BY <1>4 DEF ApplySetVisibility, Seen
  <2>2. /\ DOMAIN t = StateFields /\ t.scene = s.scene /\ t.runtimeLocations = s.runtimeLocations
        /\ t.items = s.items /\ t.entities = s.entities /\ t.time = s.time /\ t.agendas = s.agendas
        /\ t.partyPlaces = s.partyPlaces
        /\ t.actorPlaces = [s.actorPlaces EXCEPT ![a] = Seen(@)] /\ t.actorFacts = s.actorFacts
    BY <1>1, <2>1 DEF Like, StateFields
  <2>3. KnownOK(t)
    <3>1. LocationIds(t) = LocationIds(s)
      BY <2>2 DEF LocationIds
    <3>2. KnownOK(s)
      BY DEF StateOK
    <3>3. KnowledgeOK(Seen(s.actorPlaces[a]), LocationIds(s))
      BY <1>3, <1>4, <3>2 DEF KnownOK
    <3>. QED BY <2>2, <3>1, <3>2, <3>3 DEF KnownOK
  <2>. QED BY <2>2, <2>3, KnownKeeps
<1>5. CASE e.kind = "location" /\ e.scope # "actor"
  <2>1. t = [u EXCEPT !.partyPlaces = Seen(@)]
    BY <1>5 DEF ApplySetVisibility, Seen
  <2>2. /\ DOMAIN t = StateFields /\ t.scene = s.scene /\ t.runtimeLocations = s.runtimeLocations
        /\ t.items = s.items /\ t.entities = s.entities /\ t.time = s.time /\ t.agendas = s.agendas
        /\ t.partyPlaces = Seen(s.partyPlaces)
        /\ t.actorPlaces = s.actorPlaces /\ t.actorFacts = s.actorFacts
    BY <1>1, <2>1 DEF Like, StateFields
  <2>3. KnownOK(t)
    <3>1. LocationIds(t) = LocationIds(s)
      BY <2>2 DEF LocationIds
    <3>2. KnownOK(s)
      BY DEF StateOK
    <3>3. KnowledgeOK(Seen(s.partyPlaces), LocationIds(s))
      BY <1>3, <1>5, <3>2 DEF KnownOK
    <3>. QED BY <2>2, <3>1, <3>2, <3>3 DEF KnownOK
  <2>. QED BY <2>2, <2>3, KnownKeeps
<1>. QED BY <1>2, <1>4, <1>5

\* A state with other things in it.
LEMMA ThingsKeep ==
  ASSUME NEW s, StateOK(s), NEW t, DOMAIN t = StateFields, t.scene = s.scene,
         t.runtimeLocations = s.runtimeLocations, t.partyPlaces = s.partyPlaces,
         t.actorPlaces = s.actorPlaces, t.time = s.time, t.agendas = s.agendas,
         t.actorFacts = s.actorFacts, ThingsOK(t)
  PROVE  Keeps(s, t)
<1>1. LocationIds(t) = LocationIds(s)
  BY DEF LocationIds
<1>2. PlacesOK(t) /\ KnownOK(t) /\ TimeOK(t)
  BY <1>1 DEF StateOK, PlacesOK, KnownOK, TimeOK
<1>. QED BY <1>1, <1>2 DEF Keeps, StateOK

ItemOK(i, item, ids) == DOMAIN item = ItemFields /\ CustodyOK(i, item.custody, ids)

RecordOK(record) == DOMAIN record = RecordFields /\ record.holder = None

\* An item in order replaces one, or joins them.
LEMMA PutItem ==
  ASSUME NEW s, StateOK(s), NEW id, NEW item, ItemOK(id, item, LocationIds(s)),
         NEW t, DOMAIN t = StateFields, t.scene = s.scene,
         t.runtimeLocations = s.runtimeLocations, t.partyPlaces = s.partyPlaces,
         t.actorPlaces = s.actorPlaces, t.time = s.time, t.agendas = s.agendas,
         t.actorFacts = s.actorFacts, t.entities = s.entities,
         DOMAIN t.items \subseteq DOMAIN s.items \cup {id},
         \A i \in DOMAIN t.items : t.items[i] = IF i = id THEN item ELSE s.items[i]
  PROVE  Keeps(s, t)
<1>1. LocationIds(t) = LocationIds(s)
  BY DEF LocationIds
<1>2. ThingsOK(s)
  BY DEF StateOK
<1>3. ThingsOK(t)
  BY <1>1, <1>2 DEF ThingsOK, ItemOK
<1>. QED BY <1>3, ThingsKeep

\* A record of an entity in order replaces one.
LEMMA MutatedKeeps ==
  ASSUME NEW s, StateOK(s), NEW id, NEW record,
         id \notin DOMAIN s.runtimeEntities => RecordOK(record)
  PROVE  Keeps(s, Mutated(s, id, record)) /\ DOMAIN Mutated(s, id, record) = StateFields
<1>. DEFINE t == Mutated(s, id, record)
<1>0. DOMAIN s = StateFields /\ ThingsOK(s)
  BY DEF StateOK
<1>1. CASE id \in DOMAIN s.runtimeEntities
  <2>1. Like(s, t) /\ DOMAIN t = StateFields
    BY <1>0, <1>1 DEF Mutated, Like, StateFields
  <2>. QED BY <2>1, LikeKeeps
<1>2. CASE id \notin DOMAIN s.runtimeEntities
  <2>1. /\ DOMAIN t = StateFields /\ t.scene = s.scene /\ t.items = s.items
        /\ t.runtimeLocations = s.runtimeLocations /\ t.partyPlaces = s.partyPlaces
        /\ t.actorPlaces = s.actorPlaces /\ t.time = s.time /\ t.agendas = s.agendas
        /\ t.entities = Put(s.entities, id, record) /\ t.actorFacts = s.actorFacts
    BY <1>0, <1>2 DEF Mutated, StateFields
  <2>2. LocationIds(t) = LocationIds(s)
    BY <2>1 DEF LocationIds
  <2>3. ThingsOK(t)
    BY <1>0, <1>2, <2>1, <2>2 DEF ThingsOK, RecordOK, Put
  <2>. QED BY <2>1, <2>3, ThingsKeep
<1>. QED BY <1>1, <1>2

\* A place coined beside one there is keeps a state whole.
LEMMA CoinedPlaceKeeps ==
  ASSUME NEW s, StateOK(s), None \notin Module.locations, NEW e, SoundAt(LocationIds(s), e),
         e.type = "ensure_runtime_location"
  PROVE  /\ Keeps(s, ApplyEnsureRuntimeLocation(s, e))
         /\ e.id \in LocationIds(ApplyEnsureRuntimeLocation(s, e))
<1>. DEFINE t == ApplyEnsureRuntimeLocation(s, e)
            place == [connected |-> e.connected, parent |-> e.parent]
            ids == LocationIds(s)
<1>0. DOMAIN s = StateFields /\ PlacesOK(s) /\ KnownOK(s) /\ ThingsOK(s) /\ TimeOK(s)
  BY DEF StateOK
<1>1. e.connected \in ids /\ e.connected # e.id /\ e.id # None
  BY DEF SoundAt, Refers, WellFormed
<1>2. /\ DOMAIN t = StateFields /\ t.scene = s.scene /\ t.items = s.items /\ t.entities = s.entities
      /\ t.runtimeLocations = Put(s.runtimeLocations, e.id, place)
      /\ t.partyPlaces = Put(s.partyPlaces, e.id, Known("reachable", FALSE, {}))
      /\ t.actorPlaces = s.actorPlaces /\ t.time = s.time /\ t.agendas = s.agendas
      /\ t.actorFacts = s.actorFacts
  BY <1>0 DEF ApplyEnsureRuntimeLocation, StateFields
<1>3. LocationIds(t) = ids \cup {e.id}
  BY <1>2 DEF LocationIds, Put
<1>4. PlacesOK(t)
  <2>1. None \notin DOMAIN t.runtimeLocations
    BY <1>0, <1>1, <1>2 DEF PlacesOK, Put
  <2>2. IsFiniteSet(DOMAIN t.runtimeLocations)
    <3>1. DOMAIN t.runtimeLocations = DOMAIN s.runtimeLocations \cup {e.id}
      BY <1>2 DEF Put
    <3>. QED BY <1>0, <3>1, FS_AddElement DEF PlacesOK
  <2>3. \A l \in DOMAIN t.runtimeLocations : t.runtimeLocations[l].connected \in LocationIds(t) \ {l}
    <3>. HIDE DEF t
    <3>1. TAKE l \in DOMAIN t.runtimeLocations
    <3>2. CASE l = e.id
      <4>1. t.runtimeLocations[l] = place
        BY <1>2, <3>2 DEF Put
      <4>. QED BY <1>1, <1>3, <3>2, <4>1
    <3>3. CASE l # e.id
      <4>1. l \in DOMAIN s.runtimeLocations /\ t.runtimeLocations[l] = s.runtimeLocations[l]
        BY <1>2, <3>1, <3>3 DEF Put
      <4>. QED BY <1>0, <1>3, <4>1 DEF PlacesOK
    <3>. QED BY <3>2, <3>3
  <2>4. t.scene \in LocationIds(t)
    BY <1>0, <1>2, <1>3 DEF PlacesOK
  <2>. QED BY <2>1, <2>2, <2>3, <2>4 DEF PlacesOK
<1>5. ASSUME NEW places, KnowledgeOK(places, ids) PROVE KnowledgeOK(places, LocationIds(t))
  BY <1>3, <1>5 DEF KnowledgeOK
<1>6. KnownOK(t)
  <2>1. /\ KnowledgeOK(s.partyPlaces, LocationIds(t))
        /\ \A a \in Actors : KnowledgeOK(s.actorPlaces[a], LocationIds(t))
    BY <1>0, <1>5 DEF KnownOK
  <2>2. e.id \in LocationIds(t)
    BY <1>3
  <2>. DEFINE known == Known("reachable", FALSE, {})
  <2>3. known.existence = "unknown" => known = Unknown
    BY DEF Known
  <2>. HIDE DEF known
  <2>4. KnowledgeOK(Put(s.partyPlaces, e.id, known), LocationIds(t))
    <3>. HIDE DEF t
    <3>. QED BY <2>1, <2>2, <2>3, PutKnown
  <2>. QED BY <1>0, <1>2, <2>1, <2>4 DEF KnownOK, known
<1>7. ThingsOK(t) /\ TimeOK(t)
  BY <1>0, <1>2, <1>3 DEF ThingsOK, TimeOK, CustodyOK
<1>8. Keeps(s, t)
  BY <1>2, <1>3, <1>4, <1>6, <1>7 DEF Keeps, StateOK
<1>. QED BY <1>3, <1>8

\* A thing coined at a place there is keeps a state whole.
LEMMA CoinedThingKeeps ==
  ASSUME NEW s, StateOK(s), NEW e, SoundAt(LocationIds(s), e), e.type = "ensure_runtime_entity"
  PROVE  Keeps(s, ApplyEnsureRuntimeEntity(s, e))
<1>. DEFINE t == ApplyEnsureRuntimeEntity(s, e)
            item == Item("runtime", "location", e.at)
<1>0. DOMAIN s = StateFields
  BY DEF StateOK
<1>1. CASE e.kind = "object"
  <2>1. ItemOK(e.id, item, LocationIds(s))
    BY DEF ItemOK, Item, ItemFields, CustodyOK, SoundAt, Refers
  <2>2. /\ DOMAIN t = StateFields /\ t.scene = s.scene /\ t.entities = s.entities
        /\ t.runtimeLocations = s.runtimeLocations /\ t.partyPlaces = s.partyPlaces
        /\ t.actorPlaces = s.actorPlaces /\ t.time = s.time /\ t.agendas = s.agendas
        /\ t.items = Put(s.items, e.id, item) /\ t.actorFacts = s.actorFacts
    BY <1>0, <1>1 DEF ApplyEnsureRuntimeEntity, StateFields
  <2>3. /\ DOMAIN t.items \subseteq DOMAIN s.items \cup {e.id}
        /\ \A i \in DOMAIN t.items : t.items[i] = IF i = e.id THEN item ELSE s.items[i]
    BY <2>2 DEF Put
  <2>4. Keeps(s, t)
    <3>. HIDE DEF t, item
    <3>. QED BY <2>1, <2>2, <2>3, PutItem
  <2>. QED BY <2>4
<1>2. CASE e.kind # "object"
  <2>1. Like(s, t)
    BY <1>0, <1>2 DEF ApplyEnsureRuntimeEntity, Like, StateFields
  <2>. QED BY <2>1, LikeKeeps
<1>. QED BY <1>1, <1>2

\* The record of an entity is in order, also before it has one.
LEMMA RecordOfOK ==
  ASSUME NEW s, StateOK(s), NEW id, id \notin DOMAIN s.runtimeEntities
  PROVE  RecordOK(RecordOf(s, id))
BY DEF StateOK, ThingsOK, RecordOf, RecordOK, At, Generic, RecordFields

\* To move a thing to a place there is, or to a player, keeps a state whole.
LEMMA MoveKeeps ==
  ASSUME NEW s, StateOK(s), NEW e, SoundAt(LocationIds(s), e), e.type = "move_entity"
  PROVE  Keeps(s, ApplyMoveEntity(s, e).state)
<1>. DEFINE carried == e.holder # None
            custody == IF carried THEN [kind |-> "actor", ref |-> e.holder]
                       ELSE [kind |-> "location", ref |-> e.at]
            item == [Versioned(s.items[e.id]) EXCEPT !.custody = custody]
            moved == [s EXCEPT !.items[e.id] = item]
            placed == [RecordOf(s, e.id) EXCEPT !.at = e.at, !.holder = e.holder]
            t == ApplyMoveEntity(s, e).state
<1>0. DOMAIN s = StateFields /\ ThingsOK(s)
  BY DEF StateOK
<1>1. CustodyOK(e.id, custody, LocationIds(s))
  BY DEF CustodyOK, SoundAt, WellFormed, Refers
<1>2. CASE IsItem(s, e.id)
  <2>1. ItemOK(e.id, item, LocationIds(s))
    <3>1. DOMAIN s.items[e.id] = ItemFields
      BY <1>0, <1>2 DEF ThingsOK, IsItem
    <3>2. DOMAIN item = ItemFields /\ item.custody = custody
      <4>. HIDE DEF custody
      <4>. QED BY <3>1 DEF Versioned, ItemFields
    <3>. QED BY <1>1, <3>2 DEF ItemOK
  <2>2. /\ DOMAIN t = StateFields /\ t.scene = s.scene /\ t.entities = s.entities
        /\ t.runtimeLocations = s.runtimeLocations /\ t.partyPlaces = s.partyPlaces
        /\ t.actorPlaces = s.actorPlaces /\ t.time = s.time /\ t.agendas = s.agendas
        /\ t.items = [s.items EXCEPT ![e.id] = item] /\ t.actorFacts = s.actorFacts
    <3>1. DOMAIN moved = StateFields /\ moved.items = [s.items EXCEPT ![e.id] = item]
          /\ moved.actorFacts = s.actorFacts /\ Like(s, [moved EXCEPT !.items = s.items])
      <4>. HIDE DEF item
      <4>. QED BY <1>0 DEF StateFields, Like
    <3>2. CASE carried
      <4>1. t = [moved EXCEPT !.actorItems[e.holder] = Put(@, e.id, "known")]
        BY <1>2, <3>2 DEF ApplyMoveEntity, Done
      <4>. HIDE DEF t, moved
      <4>. QED BY <3>1, <4>1 DEF StateFields, Like
    <3>3. CASE ~carried
      <4>1. t = [moved EXCEPT !.partyItems = Put(@, e.id, "recognized")]
        BY <1>2, <3>3 DEF ApplyMoveEntity, Done
      <4>. HIDE DEF t, moved
      <4>. QED BY <3>1, <4>1 DEF StateFields, Like
    <3>. QED BY <3>2, <3>3
  <2>3. /\ DOMAIN t.items \subseteq DOMAIN s.items \cup {e.id}
        /\ \A i \in DOMAIN t.items : t.items[i] = IF i = e.id THEN item ELSE s.items[i]
    <3>. HIDE DEF t, item
    <3>. QED BY <2>2
  <2>4. Keeps(s, t)
    <3>. HIDE DEF t, item
    <3>. QED BY <2>1, <2>2, <2>3, PutItem
  <2>. QED BY <2>4
<1>3. CASE ~IsItem(s, e.id) /\ carried
  <2>1. t = s
    BY <1>3 DEF ApplyMoveEntity, Refused
  <2>. QED BY <2>1, LikeKeeps DEF Like
<1>4. CASE ~IsItem(s, e.id) /\ ~carried
  <2>1. t = Mutated(s, e.id, placed)
    BY <1>4 DEF ApplyMoveEntity, Done
  <2>2. e.id \notin DOMAIN s.runtimeEntities => RecordOK(placed)
    <3>1. SUFFICES ASSUME e.id \notin DOMAIN s.runtimeEntities PROVE RecordOK(placed)
      OBVIOUS
    <3>2. RecordOK(RecordOf(s, e.id))
      BY <3>1, RecordOfOK
    <3>. QED BY <1>4, <3>2 DEF RecordOK, RecordFields
  <2>. QED BY <2>1, <2>2, MutatedKeeps
<1>. QED BY <1>2, <1>3, <1>4

\* To change the state of an entity or item keeps a state whole.
LEMMA ChangedKeeps ==
  ASSUME NEW s, StateOK(s), NEW e
  PROVE  Keeps(s, ApplyChangeEntityState(s, e))
<1>. DEFINE set == [RecordOf(s, e.id) EXCEPT !.flags = Put(@, e.key, e.value)]
            item == Revalued(s.items[e.id], e.key, e.value)
            written == IF IsItem(s, e.id)
                       THEN [s EXCEPT !.items[e.id] = Revalued(@, e.key, e.value)]
                       ELSE Mutated(s, e.id, set)
            t == ApplyChangeEntityState(s, e)
<1>0. DOMAIN s = StateFields /\ ThingsOK(s)
  BY DEF StateOK
<1>1. Keeps(s, written) /\ DOMAIN written = StateFields
  <2>1. CASE IsItem(s, e.id)
    <3>1. ItemOK(e.id, item, LocationIds(s))
      <4>1. DOMAIN s.items[e.id] = ItemFields /\ CustodyOK(e.id, s.items[e.id].custody, LocationIds(s))
        BY <1>0, <2>1 DEF ThingsOK, IsItem
      <4>2. DOMAIN item = ItemFields /\ item.custody = s.items[e.id].custody
        BY <4>1 DEF Revalued, Versioned, ItemFields
      <4>. QED BY <4>1, <4>2 DEF ItemOK
    <3>2. /\ DOMAIN written = StateFields /\ written.scene = s.scene /\ written.entities = s.entities
          /\ written.runtimeLocations = s.runtimeLocations /\ written.partyPlaces = s.partyPlaces
          /\ written.actorPlaces = s.actorPlaces /\ written.time = s.time /\ written.agendas = s.agendas
          /\ written.items = [s.items EXCEPT ![e.id] = item] /\ written.actorFacts = s.actorFacts
      BY <1>0, <2>1 DEF StateFields
    <3>3. /\ DOMAIN written.items \subseteq DOMAIN s.items \cup {e.id}
          /\ \A i \in DOMAIN written.items : written.items[i] = IF i = e.id THEN item ELSE s.items[i]
      <4>. HIDE DEF written, item
      <4>. QED BY <3>2
    <3>4. Keeps(s, written)
      <4>. HIDE DEF written, item
      <4>. QED BY <3>1, <3>2, <3>3, PutItem
    <3>. QED BY <3>2, <3>4
  <2>2. CASE ~IsItem(s, e.id)
    <3>1. written = Mutated(s, e.id, set)
      BY <2>2
    <3>2. e.id \notin DOMAIN s.runtimeEntities => RecordOK(set)
      <4>1. SUFFICES ASSUME e.id \notin DOMAIN s.runtimeEntities PROVE RecordOK(set)
        OBVIOUS
      <4>2. RecordOK(RecordOf(s, e.id))
        BY <4>1, RecordOfOK
      <4>. QED BY <4>2 DEF RecordOK, RecordFields
    <3>. QED BY <3>1, <3>2, MutatedKeeps
  <2>. QED BY <2>1, <2>2
<1>2. CASE e.key \in PublicKeys
  <2>. DEFINE keys == Put(written.publicKeys, e.id, At(written.publicKeys, e.id, {}) \cup {e.key})
  <2>1. t = [written EXCEPT !.publicKeys = keys]
    BY <1>2, Zenon DEF ApplyChangeEntityState
  <2>2. Like(written, t)
    <3>. HIDE DEF written, keys, t
    <3>. QED BY <1>1, <2>1 DEF Like, StateFields
  <2>3. StateOK(written)
    BY <1>1 DEF Keeps
  <2>4. Keeps(written, t)
    <3>. HIDE DEF written, t
    <3>. QED BY <2>2, <2>3, LikeKeeps
  <2>5. Keeps(s, t)
    <3>. HIDE DEF written, t
    <3>. QED BY <1>1, <2>4 DEF Keeps
  <2>. QED BY <2>5
<1>3. CASE e.key \notin PublicKeys
  <2>1. t = written
    BY <1>3, Zenon DEF ApplyChangeEntityState
  <2>. QED BY <1>1, <2>1
<1>. QED BY <1>2, <1>3

\* To consume a thing keeps a state whole.
LEMMA ConsumedKeeps ==
  ASSUME NEW s, StateOK(s), NEW e
  PROVE  Keeps(s, ApplyConsumeEntity(s, e))
<1>. DEFINE t == ApplyConsumeEntity(s, e)
            item == [Versioned(s.items[e.id]) EXCEPT !.status = "retired"]
            record == [RecordOf(s, e.id) EXCEPT !.consumed = TRUE]
<1>0. DOMAIN s = StateFields /\ ThingsOK(s)
  BY DEF StateOK
<1>1. CASE IsItem(s, e.id)
  <2>1. ItemOK(e.id, item, LocationIds(s))
    <3>1. DOMAIN s.items[e.id] = ItemFields /\ CustodyOK(e.id, s.items[e.id].custody, LocationIds(s))
      BY <1>0, <1>1 DEF ThingsOK, IsItem
    <3>2. DOMAIN item = ItemFields /\ item.custody = s.items[e.id].custody
      BY <3>1 DEF Versioned, ItemFields
    <3>. QED BY <3>1, <3>2 DEF ItemOK
  <2>2. /\ DOMAIN t = StateFields /\ t.scene = s.scene /\ t.entities = s.entities
        /\ t.runtimeLocations = s.runtimeLocations /\ t.partyPlaces = s.partyPlaces
        /\ t.actorPlaces = s.actorPlaces /\ t.time = s.time /\ t.agendas = s.agendas
        /\ t.items = [s.items EXCEPT ![e.id] = item] /\ t.actorFacts = s.actorFacts
    <3>1. t = [s EXCEPT !.items[e.id] = item]
      BY <1>1 DEF ApplyConsumeEntity
    <3>. HIDE DEF item, t
    <3>. QED BY <1>0, <3>1 DEF StateFields
  <2>3. /\ DOMAIN t.items \subseteq DOMAIN s.items \cup {e.id}
        /\ \A i \in DOMAIN t.items : t.items[i] = IF i = e.id THEN item ELSE s.items[i]
    <3>. HIDE DEF t, item
    <3>. QED BY <2>2
  <2>4. Keeps(s, t)
    <3>. HIDE DEF t, item
    <3>. QED BY <2>1, <2>2, <2>3, PutItem
  <2>. QED BY <2>4
<1>2. CASE ~IsItem(s, e.id)
  <2>1. t = Mutated(s, e.id, record)
    BY <1>2 DEF ApplyConsumeEntity
  <2>2. e.id \notin DOMAIN s.runtimeEntities => RecordOK(record)
    <3>1. SUFFICES ASSUME e.id \notin DOMAIN s.runtimeEntities PROVE RecordOK(record)
      OBVIOUS
    <3>2. RecordOK(RecordOf(s, e.id))
      BY <3>1, RecordOfOK
    <3>. QED BY <3>2 DEF RecordOK, RecordFields
  <2>. QED BY <2>1, <2>2, MutatedKeeps
<1>. QED BY <1>1, <1>2

\* To travel leads the party only to a place there is.
LEMMA TravelledKeeps ==
  ASSUME NEW s, StateOK(s), NEW a, NEW e
  PROVE  Keeps(s, ApplyEnterLocation(s, a, e).state)
<1>. DEFINE r == ResolveLocationTarget(s, a, e.id)
            previous == At(s.partyPlaces, e.id, Unknown)
            Learnt(access, visited) ==
              Put(s.partyPlaces, e.id, Known(access, visited, previous.connections))
            t == ApplyEnterLocation(s, a, e).state
<1>0. DOMAIN s = StateFields /\ PlacesOK(s) /\ KnownOK(s) /\ ThingsOK(s) /\ TimeOK(s)
  BY DEF StateOK
<1>1. ApplyEnterLocation(s, a, e) = Travelled(s, a, e, r)
  BY DEF ApplyEnterLocation
<1>2. r.status \in {"known_reachable", "known_blocked"} =>
        /\ e.id \in LocationIds(s)
        /\ r.status = "known_blocked" => End(r.path) \in LocationIds(s)
  BY ResolvedPlace
<1>. HIDE DEF r
<1>3. ASSUME e.id \in LocationIds(s), NEW access, NEW visited
      PROVE  KnowledgeOK(Learnt(access, visited), LocationIds(s))
  <2>. DEFINE known == Known(access, visited, previous.connections)
  <2>1. known.existence = "unknown" => known = Unknown
    BY DEF Known
  <2>2. KnowledgeOK(s.partyPlaces, LocationIds(s))
    BY <1>0 DEF KnownOK
  <2>. HIDE DEF known
  <2>3. KnowledgeOK(Put(s.partyPlaces, e.id, known), LocationIds(s))
    BY <1>3, <2>1, <2>2, PutKnown
  <2>. QED BY <2>3 DEF known
<1>. HIDE DEF Learnt
<1>4. CASE r.status = "known_reachable"
  <2>1. t = [s EXCEPT !.scene = e.id, !.partyPlaces = Learnt("reachable", TRUE),
                      !.context = [b \in DOMAIN @ \ {a} |-> @[b]]]
    BY <1>1, <1>4 DEF Travelled, Done, Learnt
  <2>2. /\ DOMAIN t = StateFields /\ t.scene = e.id /\ t.partyPlaces = Learnt("reachable", TRUE)
        /\ t.actorPlaces = s.actorPlaces /\ t.runtimeLocations = s.runtimeLocations
        /\ t.items = s.items /\ t.entities = s.entities /\ t.time = s.time /\ t.agendas = s.agendas
        /\ t.actorFacts = s.actorFacts
    BY <1>0, <2>1 DEF StateFields
  <2>3. LocationIds(t) = LocationIds(s)
    BY <2>2 DEF LocationIds
  <2>4. PlacesOK(t) /\ ThingsOK(t) /\ TimeOK(t)
    BY <1>0, <1>2, <1>4, <2>2, <2>3 DEF PlacesOK, ThingsOK, TimeOK
  <2>5. KnownOK(t)
    BY <1>0, <1>2, <1>3, <1>4, <2>2, <2>3 DEF KnownOK
  <2>. HIDE DEF t
  <2>6. Keeps(s, t)
    BY <2>2, <2>3, <2>4, <2>5 DEF Keeps, StateOK
  <2>. QED BY <2>6 DEF t
<1>5. CASE r.status = "known_blocked"
  <2>. DEFINE ctx == [destination |-> e.id, at |-> End(r.path), boundary |-> r.boundary]
              known == Learnt("blocked", previous.visited)
  <2>1. t = [s EXCEPT !.scene = End(r.path), !.partyPlaces = known, !.context = Put(@, a, ctx)]
    BY <1>1, <1>5 DEF Travelled, Done, Learnt
  <2>. HIDE DEF t
  <2>2. /\ DOMAIN t = StateFields /\ t.scene = End(r.path) /\ t.partyPlaces = known
        /\ t.actorPlaces = s.actorPlaces /\ t.runtimeLocations = s.runtimeLocations
        /\ t.items = s.items /\ t.entities = s.entities /\ t.time = s.time /\ t.agendas = s.agendas
        /\ t.actorFacts = s.actorFacts
    <3>. HIDE DEF ctx, known
    <3>. QED BY <1>0, <2>1 DEF StateFields
  <2>3. LocationIds(t) = LocationIds(s)
    BY <2>2 DEF LocationIds
  <2>4. PlacesOK(t) /\ ThingsOK(t) /\ TimeOK(t)
    BY <1>0, <1>2, <1>5, <2>2, <2>3 DEF PlacesOK, ThingsOK, TimeOK
  <2>5. KnownOK(t)
    BY <1>0, <1>2, <1>3, <1>5, <2>2, <2>3 DEF KnownOK
  <2>6. Keeps(s, t)
    BY <2>2, <2>3, <2>4, <2>5 DEF Keeps, StateOK
  <2>. QED BY <2>6 DEF t
<1>6. CASE r.status \notin {"known_reachable", "known_blocked"}
  <2>1. t = s
    BY <1>1, <1>6 DEF Travelled, Refused
  <2>2. Keeps(s, s)
    BY DEF Keeps
  <2>. QED BY <2>1, <2>2
<1>. QED BY <1>4, <1>5, <1>6

\* To advance the time leads to a point of the day there is.
LEMMA TimeKeeps ==
  ASSUME NEW s, StateOK(s)
  PROVE  Keeps(s, [s EXCEPT !.time = NextPoint(@)])
<1>. DEFINE t == [s EXCEPT !.time = NextPoint(@)]
<1>0. DOMAIN s = StateFields /\ TimeOK(s)
  BY DEF StateOK
<1>1. /\ DOMAIN t = StateFields /\ t.scene = s.scene /\ t.partyPlaces = s.partyPlaces
      /\ t.actorPlaces = s.actorPlaces /\ t.runtimeLocations = s.runtimeLocations
      /\ t.items = s.items /\ t.entities = s.entities /\ t.agendas = s.agendas
      /\ t.time = NextPoint(s.time)
  BY <1>0 DEF StateFields
<1>2. LocationIds(t) = LocationIds(s)
  BY <1>1 DEF LocationIds
<1>3. PlacesOK(t) /\ KnownOK(t) /\ ThingsOK(t)
  BY <1>1, <1>2 DEF StateOK, PlacesOK, KnownOK, ThingsOK
<1>4. Len(Module.points) \in Nat /\ 1 \in 1..Len(Module.points)
  BY ModuleAssumption
<1>5. TimeOK(t)
  <2>. DEFINE now == s.time
  <2>1. DOMAIN now = {"day", "point"} /\ now.day \in Nat /\ now.point \in 1..Len(Module.points)
    BY <1>0 DEF TimeOK
  <2>. HIDE DEF now
  <2>2. /\ DOMAIN NextPoint(now) = {"day", "point"} /\ NextPoint(now).day \in Nat
        /\ NextPoint(now).point \in 1..Len(Module.points)
    <3>1. CASE now.point < Len(Module.points)
      <4>1. NextPoint(now) = [now EXCEPT !.point = @ + 1]
        BY <3>1 DEF NextPoint
      <4>2. DOMAIN NextPoint(now) = {"day", "point"} /\ NextPoint(now).day = now.day
            /\ NextPoint(now).point = now.point + 1
        BY <2>1, <4>1
      <4>. QED BY <1>4, <2>1, <3>1, <4>2
    <3>2. CASE ~(now.point < Len(Module.points))
      <4>1. NextPoint(now) = [day |-> now.day + 1, point |-> 1]
        BY <3>2 DEF NextPoint
      <4>. QED BY <1>4, <2>1, <4>1
    <3>. QED BY <3>1, <3>2
  <2>. HIDE DEF t
  <2>. QED BY <1>1, <2>2 DEF TimeOK, now
<1>. HIDE DEF t
<1>6. Keeps(s, t)
  BY <1>1, <1>2, <1>3, <1>5 DEF Keeps, StateOK
<1>. QED BY <1>6 DEF t

\* What is accepted keeps a state whole.
LEMMA ApplyKeeps ==
  ASSUME NEW s, StateOK(s), NEW a \in Actors, NEW e, SoundAt(LocationIds(s), e), Apply(s, a, e).ok
  PROVE  /\ Keeps(s, Apply(s, a, e).state)
         /\ e.type = "ensure_runtime_location" => e.id \in LocationIds(Apply(s, a, e).state)
<1>. DEFINE t == Apply(s, a, e).state
<1>0. DOMAIN s = StateFields /\ None \notin Module.locations
  BY ModuleAssumption DEF StateOK
<1>1. CASE e.type = "ensure_runtime_location"
  <2>1. t = ApplyEnsureRuntimeLocation(s, e)
    BY <1>1 DEF Apply, Done
  <2>. QED BY <1>0, <1>1, <2>1, CoinedPlaceKeeps
<1>2. CASE e.type # "ensure_runtime_location"
  <2>1. CASE e.type = "narrative_only"
    <3>1. t = s
      BY <2>1 DEF Apply, Done
    <3>. QED BY <1>2, <3>1 DEF Keeps
  <2>2. CASE e.type \in {"reveal_information", "hide_information"}
    <3>1. t = ApplyInformation(s, a, e)
      BY <2>2 DEF Apply, Done
    <3>. QED BY <1>2, <3>1, InformationKeeps
  <2>3. CASE e.type = "set_visibility"
    <3>1. t = ApplySetVisibility(s, a, e)
      BY <2>3 DEF Apply, Done
    <3>. QED BY <1>2, <2>3, <3>1, VisibilityKeeps
  <2>4. CASE e.type = "enter_location"
    <3>1. t = ApplyEnterLocation(s, a, e).state
      BY <2>4 DEF Apply
    <3>. QED BY <1>2, <3>1, TravelledKeeps
  <2>5. CASE e.type = "ensure_runtime_entity"
    <3>1. t = ApplyEnsureRuntimeEntity(s, e)
      BY <2>5 DEF Apply, Done
    <3>. QED BY <1>2, <2>5, <3>1, CoinedThingKeeps
  <2>6. CASE e.type = "move_entity"
    <3>1. t = ApplyMoveEntity(s, e).state
      BY <2>6 DEF Apply
    <3>. QED BY <1>2, <2>6, <3>1, MoveKeeps
  <2>7. CASE e.type = "change_entity_state"
    <3>1. t = ApplyChangeEntityState(s, e)
      BY <2>7 DEF Apply, Done
    <3>. QED BY <1>2, <3>1, ChangedKeeps
  <2>8. CASE e.type = "consume_entity"
    <3>1. t = ApplyConsumeEntity(s, e)
      BY <2>8 DEF Apply, Done
    <3>. QED BY <1>2, <3>1, ConsumedKeeps
  <2>9. CASE e.type = "advance_world_time"
    <3>1. t = [s EXCEPT !.time = NextPoint(@)]
      BY <2>9 DEF Apply, Done
    <3>. QED BY <1>2, <3>1, TimeKeeps
  <2>10. CASE e.type = "mark_core_resolved"
    <3>1. t = [s EXCEPT !.coreResolved = TRUE]
      BY <2>10 DEF Apply, Done
    <3>2. Like(s, t)
      <4>. HIDE DEF t
      <4>. QED BY <1>0, <3>1 DEF Like, StateFields
    <3>. QED BY <1>2, <3>2, LikeKeeps
  <2>11. CASE e.type = "set_ending_availability"
    <3>1. t = [s EXCEPT !.endingAvailable = e.available]
      BY <2>11 DEF Apply, Done
    <3>2. Like(s, t)
      <4>. HIDE DEF t
      <4>. QED BY <1>0, <3>1 DEF Like, StateFields
    <3>. QED BY <1>2, <3>2, LikeKeeps
  <2>12. CASE e.type \notin {"narrative_only", "reveal_information", "hide_information", "set_visibility",
                             "enter_location", "ensure_runtime_location", "ensure_runtime_entity",
                             "move_entity", "change_entity_state", "consume_entity",
                             "advance_world_time", "mark_core_resolved", "set_ending_availability"}
    <3>1. Apply(s, a, e) = Refused(s)
      BY <2>12 DEF Apply
    <3>2. ~Apply(s, a, e).ok
      BY <3>1 DEF Refused
    <3>. QED BY <3>2
  <2>. QED BY <1>2, <2>1, <2>2, <2>3, <2>4, <2>5, <2>6, <2>7, <2>8, <2>9, <2>10, <2>11, <2>12
<1>. QED BY <1>1, <1>2

-----------------------------------------------------------------------------
(* The rules of a module, and what an adjudication owns. *)

\* What RulesAssumption says of one rule.
LEMMA RuleIsSound ==
  ASSUME NEW rule \in Module.rules
  PROVE  /\ RuleSteps(rule) /\ rule.maxSteps \in Nat
         /\ None \notin {"check", "adjudicated_check"}
         /\ \A o \in DOMAIN rule.branches : rule.branches[o] \in DOMAIN rule.steps
         /\ rule.trigger = "event" => rule.entry \in DOMAIN rule.branches
         /\ \A i \in DOMAIN rule.steps : rule.steps[i].kind = "effect" =>
              /\ WellFormed(rule.steps[i].effect)
              /\ rule.trigger = "agent_match" => SoundAt(Module.locations, rule.steps[i].effect)
         /\ \A i \in DOMAIN rule.steps : rule.steps[i].kind \in {"check", "adjudicated_check"} =>
              \A d \in DOMAIN rule.steps[i].routes : rule.steps[i].routes[d] \in DOMAIN rule.steps
BY RulesAssumption, Zenon DEF RuleSteps

\* A declared rule is one of the module that agents may name, with the branch it names.
LEMMA DeclaredRule ==
  ASSUME NEW decision, Declared(decision)
  PROVE  /\ RuleOf(decision) \in Module.rules /\ RuleOf(decision).trigger = "agent_match"
         /\ decision.option \in DOMAIN RuleOf(decision).branches
<1>1. PICK r \in Module.rules : /\ r.id = decision.rule /\ r.trigger = "agent_match"
                                /\ decision.option \in r.options \cap DOMAIN r.branches
  BY DEF Declared
<1>2. RuleOf(decision) \in Module.rules /\ RuleOf(decision).id = decision.rule
  BY <1>1 DEF RuleOf
<1>3. RuleOf(decision) = r
  BY <1>1, <1>2, RulesAssumption
<1>. QED BY <1>1, <1>3

\* What a walk of a rule that an agent may name collects is sound.
LEMMA AgentWalk ==
  ASSUME NEW rule \in Module.rules, rule.trigger = "agent_match", NEW start \in DOMAIN rule.steps,
         NEW ids, Module.locations \subseteq ids
  PROVE  Grounded(ids, WalkFrom(rule, start).effects)
<1>. DEFINE w == WalkFrom(rule, start)
<1>1. WalkOK(rule, w)
  BY RuleIsSound, WalkFromOK
<1>. HIDE DEF w
<1>2. IsSequence(w.effects)
  BY <1>1 DEF WalkOK
<1>3. ASSUME NEW i \in 1..Len(w.effects) PROVE SoundAt(ids, w.effects[i])
  <2>1. PICK j \in DOMAIN rule.steps : rule.steps[j].kind = "effect"
                                       /\ w.effects[i] = rule.steps[j].effect
    BY <1>1 DEF WalkOK
  <2>2. SoundAt(Module.locations, rule.steps[j].effect)
    BY <2>1, RuleIsSound
  <2>3. SoundAt(ids, rule.steps[j].effect)
    BY <2>2, SoundMore
  <2>. QED BY <2>1, <2>3
<1>4. Grounded(ids, w.effects)
  BY <1>2, <1>3, GroundedAlone
<1>. QED BY <1>4 DEF w

\* Nothing to apply takes nothing for granted.
LEMMA NothingGrounded == ASSUME NEW ids PROVE Grounded(ids, <<>>)
BY NothingIsSequence DEF Grounded

\* What a rule named by an agent owns is grounded, whatever was rolled.
LEMMA RuleEffectsGrounded ==
  ASSUME NEW adj, Declared(adj.rule), NEW degree, NEW ids, Module.locations \subseteq ids
  PROVE  Grounded(ids, RuleEffects(adj, degree))
<1>. DEFINE rule == RuleOf(adj.rule)
            option == adj.rule.option
            step == PendingCheck(rule, option)
<1>1. /\ rule \in Module.rules /\ rule.trigger = "agent_match" /\ option \in DOMAIN rule.branches
  BY DeclaredRule
<1>2. rule.branches[option] \in DOMAIN rule.steps
  BY <1>1, RuleIsSound
<1>. DEFINE w == Walk(rule, option)
<1>3. WalkOK(rule, w)
  BY <1>1, <1>2, RuleIsSound, WalkFromOK DEF Walk
<1>4. step # None => /\ step \in DOMAIN rule.steps
                     /\ rule.steps[step].kind \in {"check", "adjudicated_check"}
  <2>1. step = IF w.kind \in {"check", "adjudicated_check"} THEN w.cursor ELSE None
    BY DEF PendingCheck
  <2>. HIDE DEF step, w
  <2>. QED BY <1>3, <2>1 DEF WalkOK
<1>5. Grounded(ids, w.effects)
  BY <1>1, <1>2, AgentWalk DEF Walk
<1>6. ASSUME step # None PROVE Grounded(ids, EffectsAfterDegree(rule, step, degree))
  <2>. HIDE DEF step, rule
  <2>1. CASE degree \in DOMAIN rule.steps[step].routes
    <3>1. rule.steps[step].routes[degree] \in DOMAIN rule.steps
      BY <1>1, <1>4, <1>6, <2>1, RuleIsSound
    <3>2. EffectsAfterDegree(rule, step, degree) =
            WalkFrom(rule, rule.steps[step].routes[degree]).effects
      BY <2>1 DEF EffectsAfterDegree
    <3>. QED BY <1>1, <3>1, <3>2, AgentWalk
  <2>2. CASE degree \notin DOMAIN rule.steps[step].routes
    <3>1. EffectsAfterDegree(rule, step, degree) = <<>>
      BY <2>2 DEF EffectsAfterDegree
    <3>. QED BY <3>1, NothingGrounded
  <2>. QED BY <2>1, <2>2
<1>7. RuleEffects(adj, degree) \in {EffectsAfterDegree(rule, step, degree), <<>>, w.effects}
      /\ (RuleEffects(adj, degree) = EffectsAfterDegree(rule, step, degree) =>
            step # None \/ RuleEffects(adj, degree) \in {<<>>, w.effects})
  <2>1. RuleEffects(adj, degree) =
          CASE step # None /\ adj.checked  -> EffectsAfterDegree(rule, step, degree)
            [] step # None /\ ~adj.checked -> <<>>
            [] OTHER -> w.effects
    BY DEF RuleEffects
  <2>. HIDE DEF step, rule, w
  <2>. QED BY <2>1
<1>. HIDE DEF step, rule, w
<1>. QED BY <1>5, <1>6, <1>7, NothingGrounded

-----------------------------------------------------------------------------
(* The state, and the transaction under way. *)

\* An adjudication as the engine can be handed one, whoever made it: of an actor of
\* the room, its effects as their contract has them.
Orderly(adj) ==
  adj.actor \in Actors /\ Proposable(adj.success) /\ Proposable(adj.failure)

\* The steps of World, with any orderly adjudication.  All that follows is proved
\* of these: of World's own Next, and of the host that drives the same engine.
DrivenNext ==
  \/ \E adj : Orderly(adj) /\ (Submit(adj) \/ SubmitChecked(adj))
  \/ \E adj : Cancel(adj) \/ \E result \in Results : Resolve(adj, result)
  \/ ApplyEffect \/ Conclude \/ ReadEvent \/ FireRule \/ EndRule \/ Commit

DrivenSpec == Init /\ [][DrivenNext]_vars

RunFields == {"at", "adj", "passed", "draft", "todo", "events", "cursor", "waiting", "agenda"}

AdjOK(adj) ==
  /\ adj.actor \in Actors
  /\ Grounded(LocationIds(game), adj.success) /\ Grounded(LocationIds(game), adj.failure)
  /\ adj.rule # None => Declared(adj.rule)

RunOK ==
  /\ DOMAIN run = RunFields /\ run.at \in {"effects", "cascade", "rule", "commit"}
  /\ commands < MaxCommands
  /\ AdjOK(run.adj)
  /\ run.adj.checked => Cardinality(pending \cup {run.adj}) <= MaxPending
  /\ StateOK(run.draft) /\ LocationIds(game) \subseteq LocationIds(run.draft)
  /\ run.draft.agendas = game.agendas
  /\ Grounded(LocationIds(run.draft), run.todo)

WorldInv ==
  /\ StateOK(game)
  /\ commands \in 0..MaxCommands
  /\ IsFiniteSet(pending) /\ Cardinality(pending) <= MaxPending
  /\ \A adj \in pending : AdjOK(adj)
  /\ run = Idle \/ RunOK

\* The initial state is whole.
LEMMA InitialStateOK == StateOK(InitialState)
<1>. DEFINE s == InitialState
<1>1. /\ DOMAIN s = StateFields /\ s.scene = Module.start /\ s.partyPlaces = Empty
      /\ s.actorPlaces = [a \in Actors |-> Empty] /\ s.runtimeLocations = Empty
      /\ s.entities = [e \in Module.entities |->
           [Generic EXCEPT !.flags = Over(Module.entityState[e], Module.spec[e].flags)]]
      /\ s.items = Over([e \in {x \in Module.entities : IsCanonItem(x)} |-> CanonItem(e)], CarriedKit)
      /\ s.time = [day |-> 0, point |-> Module.startPoint] /\ DOMAIN s.actorFacts = Actors
  BY DEF InitialState, StateFields
<1>. HIDE DEF s
<1>2. DOMAIN Empty = {}
  BY DEF Empty
<1>3. PlacesOK(s)
  <2>1. IsFiniteSet({})
    BY FS_EmptySet
  <2>. QED BY <1>1, <1>2, <2>1, ModuleAssumption DEF PlacesOK, LocationIds
<1>4. KnownOK(s)
  BY <1>1, <1>2 DEF KnownOK, KnowledgeOK
<1>5. ThingsOK(s)
  <2>1. ASSUME NEW i \in DOMAIN s.items
        PROVE  DOMAIN s.items[i] = ItemFields /\ CustodyOK(i, s.items[i].custody, LocationIds(s))
    <3>1. CASE IsCanonItem(i)
      <4>1. s.items[i] = CanonItem(i)
        BY <1>1, <3>1 DEF Over, IsCanonItem
      <4>2. DOMAIN CanonItem(i) = ItemFields
        BY DEF CanonItem, Item, ItemFields
      <4>. QED BY <3>1, <4>1, <4>2 DEF CustodyOK
    <3>2. CASE ~IsCanonItem(i)
      <4>1. i \in DOMAIN CarriedKit /\ s.items[i] = CarriedKit[i]
        BY <1>1, <2>1, <3>2 DEF Over
      <4>. DEFINE owner == CHOOSE a \in Actors : i \in Kit[a]
      <4>2. CarriedKit[i] = Item("runtime", "actor", owner)
        BY <4>1 DEF CarriedKit
      <4>3. owner \in Actors
        BY <4>1 DEF CarriedKit
      <4>. HIDE DEF owner
      <4>. QED BY <4>1, <4>2, <4>3 DEF Item, ItemFields, CustodyOK
    <3>. QED BY <3>1, <3>2
  <2>2. ASSUME NEW e \in DOMAIN s.entities
        PROVE  DOMAIN s.entities[e] = RecordFields /\ s.entities[e].holder = None
    BY <1>1, <2>2 DEF Generic, RecordFields
  <2>. QED BY <2>1, <2>2 DEF ThingsOK
<1>6. TimeOK(s)
  BY <1>1, ModuleAssumption DEF TimeOK
<1>7. StateOK(s)
  BY <1>1, <1>3, <1>4, <1>5, <1>6 DEF StateOK
<1>. QED BY <1>7 DEF s

\* What an adjudication in order applies is grounded in the committed state.
LEMMA OwnedGrounded ==
  ASSUME NEW adj, AdjOK(adj), NEW result
  PROVE  Grounded(LocationIds(game), OwnedEffects(adj, result))
<1>1. Module.locations \subseteq LocationIds(game)
  BY DEF LocationIds
<1>2. CASE adj.rule # None
  BY <1>1, <1>2, RuleEffectsGrounded DEF OwnedEffects, AdjOK
<1>3. CASE adj.rule = None
  BY <1>3 DEF OwnedEffects, AdjOK
<1>. QED BY <1>2, <1>3

\* What was validated is in order.
LEMMA ValidIsOK ==
  ASSUME NEW adj, Orderly(adj), Valid(adj)
  PROVE  AdjOK(adj)
<1>1. /\ adj.actor \in Actors /\ Proposable(adj.success) /\ Proposable(adj.failure)
  BY DEF Orderly
<1>2. /\ ValidSequence(game, adj.success, adj.consented)
      /\ ValidSequence(game, adj.failure, adj.consented)
      /\ adj.rule # None => Declared(adj.rule)
  BY DEF Valid
<1>3. ASSUME NEW effects, Proposable(effects), ValidSequence(game, effects, adj.consented)
      PROVE  Grounded(LocationIds(game), effects)
  <2>1. IsSequence(effects)
    BY <1>3 DEF Proposable, IsSequence
  <2>2. DOMAIN effects = 1..Len(effects)
    BY <2>1, SequenceOf DEF IsSequence
  <2>3. \A i \in 1..Len(effects) : WellFormed(effects[i])
    BY <1>3, <2>2 DEF Proposable
  <2>. QED BY <1>3, <2>1, <2>3, ValidIsGrounded
<1>. QED BY <1>1, <1>2, <1>3 DEF AdjOK

\* With the same game, what was in order is.
LEMMA AdjStays ==
  ASSUME LocationIds(game) \subseteq LocationIds(game'), NEW adj, AdjOK(adj)
  PROVE  AdjOK(adj)'
<1>1. Grounded(LocationIds(game'), adj.success) /\ Grounded(LocationIds(game'), adj.failure)
  BY GroundedMore DEF AdjOK
<1>. QED BY <1>1 DEF AdjOK

\* The invariant holds at first.
LEMMA WorldInit == Init => WorldInv
<1>1. SUFFICES ASSUME Init PROVE WorldInv
  OBVIOUS
<1>2. IsFiniteSet({}) /\ Cardinality({}) = 0
  BY FS_EmptySet
<1>. QED BY <1>1, <1>2, InitialStateOK, WorldAssumption DEF Init, WorldInv

\* A transaction that begins with an adjudication in order is in order.
LEMMA BegunOK ==
  ASSUME WorldInv, NEW adj, AdjOK(adj), NEW result,
         run' = Begun(adj, result, OwnedEffects(adj, result)),
         commands < MaxCommands, game' = game, commands' = commands,
         adj.checked => Cardinality(pending' \cup {adj}) <= MaxPending
  PROVE  RunOK'
<1>1. /\ DOMAIN run' = RunFields /\ run'.at = "effects" /\ run'.adj = adj /\ run'.draft = game
      /\ run'.todo = OwnedEffects(adj, result)
  BY DEF Begun, RunFields
<1>2. Grounded(LocationIds(game), OwnedEffects(adj, result))
  BY OwnedGrounded
<1>3. AdjOK(adj)'
  BY AdjStays
<1>. QED BY <1>1, <1>2, <1>3 DEF RunOK, WorldInv

\* Submit: validated and begun in one step.
LEMMA SubmitKeepsWorld ==
  ASSUME WorldInv, NEW adj, Orderly(adj), Submit(adj)
  PROVE  WorldInv'
<1>1. AdjOK(adj)
  BY ValidIsOK DEF Submit
<1>2. RunOK'
  BY <1>1, BegunOK DEF Submit
<1>3. \A p \in pending : AdjOK(p)'
  BY AdjStays DEF WorldInv, Submit
<1>. QED BY <1>2, <1>3 DEF WorldInv, Submit

\* SubmitChecked: what waits was validated, and is not more than may wait.
LEMMA SubmitCheckedKeepsWorld ==
  ASSUME WorldInv, NEW adj, Orderly(adj), SubmitChecked(adj)
  PROVE  WorldInv'
<1>1. AdjOK(adj)
  BY ValidIsOK DEF SubmitChecked
<1>2. \A p \in pending' : AdjOK(p)'
  BY <1>1, AdjStays DEF WorldInv, SubmitChecked
<1>3. IsFiniteSet(pending') /\ Cardinality(pending') <= MaxPending
  <2>1. IsFiniteSet(pending) /\ adj \notin pending /\ Cardinality(pending) < MaxPending
        /\ pending' = pending \cup {adj}
    BY DEF WorldInv, SubmitChecked
  <2>2. MaxPending \in Nat /\ Cardinality(pending) \in Nat
    BY <2>1, FS_CardinalityType, WorldAssumption
  <2>3. IsFiniteSet(pending \cup {adj}) /\ Cardinality(pending \cup {adj}) = Cardinality(pending) + 1
    BY <2>1, FS_AddElement
  <2>. QED BY <2>1, <2>2, <2>3
<1>. QED BY <1>2, <1>3 DEF WorldInv, SubmitChecked

\* With one taken away, no more wait than before.
LEMMA Fewer ==
  ASSUME WorldInv, NEW adj
  PROVE  /\ IsFiniteSet(pending \ {adj}) /\ Cardinality(pending \ {adj}) <= MaxPending
         /\ adj \in pending => Cardinality((pending \ {adj}) \cup {adj}) <= MaxPending
<1>1. IsFiniteSet(pending) /\ Cardinality(pending) <= MaxPending /\ MaxPending \in Nat
  BY WorldAssumption DEF WorldInv
<1>2. IsFiniteSet(pending \ {adj}) /\ Cardinality(pending \ {adj}) <= Cardinality(pending)
      /\ Cardinality(pending \ {adj}) \in Nat /\ Cardinality(pending) \in Nat
  BY <1>1, FS_Subset, FS_CardinalityType
<1>3. adj \in pending => (pending \ {adj}) \cup {adj} = pending
  OBVIOUS
<1>. QED BY <1>1, <1>2, <1>3

\* Resolve: what waited is still grounded, because no place is ever lost.
LEMMA ResolveKeepsWorld ==
  ASSUME WorldInv, NEW adj, NEW result, Resolve(adj, result)
  PROVE  WorldInv'
<1>1. AdjOK(adj)
  BY DEF WorldInv, Resolve
<1>2. RunOK'
  BY <1>1, BegunOK, Fewer DEF Resolve
<1>3. \A p \in pending' : AdjOK(p)'
  BY AdjStays DEF WorldInv, Resolve
<1>. QED BY <1>2, <1>3, Fewer DEF WorldInv, Resolve

\* Cancel: what still waits waited before.
LEMMA CancelKeepsWorld ==
  ASSUME WorldInv, NEW adj, Cancel(adj)
  PROVE  WorldInv'
<1>3. \A p \in pending' : AdjOK(p)'
  BY AdjStays DEF WorldInv, Cancel
<1>. QED BY <1>3, Fewer DEF WorldInv, Cancel

\* Refuse: what waited waits again.
LEMMA RefuseKeepsWorld ==
  ASSUME WorldInv, RunOK, Refuse
  PROVE  WorldInv'
<1>1. IsFiniteSet(pending') /\ Cardinality(pending') <= MaxPending
  BY FS_AddElement DEF WorldInv, RunOK, Refuse
<1>2. \A p \in pending' : AdjOK(p)'
  BY AdjStays DEF WorldInv, RunOK, Refuse
<1>. QED BY <1>1, <1>2 DEF WorldInv, Refuse

\* A step of the transaction that leaves the game alone, whatever else it does.
LEMMA StepKeepsWorld ==
  ASSUME WorldInv, RunOK, UNCHANGED <<game, pending, commands>>, DOMAIN run' = RunFields,
         run'.at \in {"effects", "cascade", "rule", "commit"}, run'.adj = run.adj,
         StateOK(run'.draft), LocationIds(run.draft) \subseteq LocationIds(run'.draft),
         run'.draft.agendas = run.draft.agendas, Grounded(LocationIds(run'.draft), run'.todo)
  PROVE  WorldInv'
<1>1. \A p \in pending : AdjOK(p)'
  BY AdjStays DEF WorldInv
<1>0. PICK adj : adj = run.adj
  OBVIOUS
<1>2. AdjOK(adj)'
  BY <1>0, AdjStays DEF RunOK
<1>3. LocationIds(game') \subseteq LocationIds(run'.draft)
  BY DEF RunOK
<1>4. RunOK'
  BY <1>0, <1>2, <1>3 DEF RunOK
<1>. QED BY <1>1, <1>4 DEF WorldInv

\* A transaction that stands somewhere is in order.
LEMMA NotIdle == ASSUME WorldInv, run.at \in {"effects", "cascade", "rule", "commit"} PROVE RunOK
BY DEF WorldInv, Idle

\* ApplyEffect: the next effect is sound, and the rest is grounded in what it leaves.
LEMMA ApplyEffectKeepsWorld ==
  ASSUME WorldInv, ApplyEffect
  PROVE  WorldInv'
<1>. DEFINE e == Head(run.todo)
            result == Apply(run.draft, run.adj.actor, e)
<1>0. RunOK
  BY NotIdle DEF ApplyEffect
<1>1. run.at \in {"effects", "rule"} /\ run.todo # <<>> /\ Accept(result)
  BY DEF ApplyEffect
<1>2. SoundAt(LocationIds(run.draft), e)
  BY <1>0, <1>1, GroundedHead DEF RunOK
<1>3. StateOK(run.draft) /\ run.adj.actor \in Actors /\ Grounded(LocationIds(run.draft), run.todo)
  BY <1>0, WorldAssumption DEF RunOK, AdjOK
<1>. HIDE DEF result
<1>4. CASE ~result.ok
  BY <1>0, <1>1, <1>4, RefuseKeepsWorld DEF Accept
<1>5. CASE result.ok
  <2>1. Keeps(run.draft, result.state)
        /\ (e.type = "ensure_runtime_location" => e.id \in LocationIds(result.state))
    BY <1>2, <1>3, <1>5, ApplyKeeps DEF result
  <2>2. e = run.todo[1]
    <3>1. run.todo \in Seq({run.todo[i] : i \in DOMAIN run.todo})
      BY <1>3 DEF Grounded, IsSequence
    <3>. QED BY <1>1, <3>1
  <2>3. Grounded(LocationIds(result.state), Tail(run.todo))
    <3>. HIDE DEF e
    <3>. QED BY <1>1, <1>3, <2>1, <2>2, GroundedTail DEF Keeps
  <2>. HIDE DEF e
  <2>4. run' = [run EXCEPT !.draft = result.state, !.todo = Tail(@),
                           !.events = Emitted(@, result.event, Head(run.todo))]
        /\ UNCHANGED <<game, pending, commands, audit>>
    BY <1>1, <1>5 DEF Accept
  <2>. DEFINE events == Emitted(run.events, result.event, Head(run.todo))
              rest == Tail(run.todo)
  <2>5. DOMAIN run = RunFields
    BY <1>0 DEF RunOK
  <2>6. DOMAIN run' = RunFields /\ run'.draft = result.state /\ run'.todo = rest /\ run'.at = run.at
        /\ run'.adj = run.adj
    <3>1. run' = [run EXCEPT !.draft = result.state, !.todo = rest, !.events = events]
      BY <2>4
    <3>. HIDE DEF rest, events
    <3>. QED BY <2>5, <3>1 DEF RunFields
  <2>. QED BY <1>0, <1>1, <2>1, <2>3, <2>4, <2>6, StepKeepsWorld DEF Keeps
<1>. QED BY <1>4, <1>5

\* Conclude only records an event.
LEMMA ConcludeKeepsWorld ==
  ASSUME WorldInv, Conclude
  PROVE  WorldInv'
<1>0. RunOK /\ DOMAIN run = RunFields
  BY NotIdle DEF Conclude, RunOK
<1>1. DOMAIN run' = RunFields /\ run'.draft = run.draft /\ run'.todo = run.todo /\ run'.at = "cascade"
      /\ run'.adj = run.adj
  BY <1>0 DEF Conclude, RunFields
<1>. QED BY <1>0, <1>1, StepKeepsWorld DEF Conclude, RunOK

\* ReadEvent only queues rules.
LEMMA ReadEventKeepsWorld ==
  ASSUME WorldInv, ReadEvent
  PROVE  WorldInv'
<1>0. RunOK /\ DOMAIN run = RunFields /\ run.at = "cascade"
  BY NotIdle DEF ReadEvent, RunOK
<1>1. \E cursor, rules, queue :
         run' = [run EXCEPT !.cursor = cursor, !.waiting = rules, !.agenda.queue = queue]
  BY DEF ReadEvent
<1>2. DOMAIN run' = RunFields /\ run'.draft = run.draft /\ run'.todo = run.todo /\ run'.at = "cascade"
      /\ run'.adj = run.adj
  BY <1>0, <1>1 DEF RunFields
<1>. QED BY <1>0, <1>2, StepKeepsWorld DEF ReadEvent, RunOK

\* EndRule only marks the agenda.
LEMMA EndRuleKeepsWorld ==
  ASSUME WorldInv, EndRule
  PROVE  WorldInv'
<1>0. RunOK /\ DOMAIN run = RunFields /\ run.at = "rule"
  BY NotIdle DEF EndRule, RunOK
<1>1. \/ \E waiting, agenda :
           run' = [run EXCEPT !.at = "cascade", !.waiting = waiting, !.agenda = agenda]
      \/ \E agenda : run' = [run EXCEPT !.at = "commit", !.agenda = agenda]
  BY DEF EndRule
<1>2. DOMAIN run' = RunFields /\ run'.draft = run.draft /\ run'.todo = run.todo
      /\ run'.at \in {"cascade", "commit"} /\ run'.adj = run.adj
  BY <1>0, <1>1 DEF RunFields
<1>. QED BY <1>0, <1>2, StepKeepsWorld DEF EndRule, RunOK

EventRules == {r \in Module.rules : r.trigger = "event"}

\* What an event rule collected, and was validated, is sound on the draft.
LEMMA EventWalk ==
  ASSUME NEW rule \in EventRules
  PROVE  /\ WalkOK(rule, Walk(rule, rule.entry))
         /\ \A s : ValidSequence(s, Walk(rule, rule.entry).effects, FALSE)
                     => Grounded(LocationIds(s), Walk(rule, rule.entry).effects)
<1>. DEFINE w == Walk(rule, rule.entry)
<1>0. rule \in Module.rules /\ rule.trigger = "event"
  BY DEF EventRules
<1>1. rule.branches[rule.entry] \in DOMAIN rule.steps
  BY <1>0, RuleIsSound
<1>2. WalkOK(rule, w)
  BY <1>0, <1>1, RuleIsSound, WalkFromOK DEF Walk
<1>. HIDE DEF w
<1>3. IsSequence(w.effects)
  BY <1>2 DEF WalkOK
<1>4. ASSUME NEW i \in 1..Len(w.effects) PROVE WellFormed(w.effects[i])
  <2>1. PICK j \in DOMAIN rule.steps : rule.steps[j].kind = "effect"
                                       /\ w.effects[i] = rule.steps[j].effect
    BY <1>2 DEF WalkOK
  <2>2. WellFormed(rule.steps[j].effect)
    BY <1>0, <2>1, RuleIsSound
  <2>. QED BY <2>1, <2>2
<1>5. ASSUME NEW s, ValidSequence(s, w.effects, FALSE) PROVE Grounded(LocationIds(s), w.effects)
  BY <1>3, <1>4, <1>5, ValidIsGrounded
<1>. QED BY <1>2, <1>5 DEF w

\* The first of a sequence that is not empty is one of its elements.
LEMMA HeadOf ==
  ASSUME NEW S, NEW t \in Seq(S), t # <<>>
  PROVE  Head(t) \in S /\ Head(t) = t[1] /\ Len(t) \in Nat \ {0} /\ 1 \in 1..Len(t)
OBVIOUS

\* FireRule: the effects of the rule were validated on the draft.
LEMMA FireRuleKeepsWorld ==
  ASSUME WorldInv, run.waiting \in Seq(EventRules), FireRule
  PROVE  WorldInv'
<1>0. RunOK /\ DOMAIN run = RunFields /\ run.at = "cascade" /\ run.waiting # <<>>
  BY NotIdle DEF FireRule, RunOK
<1>. DEFINE rule == Head(run.waiting)
            effects == Walk(rule, rule.entry).effects
<1>1. rule \in EventRules
  BY <1>0, HeadOf
<1>2. \/ /\ \E agenda : run' = [run EXCEPT !.at = "commit", !.agenda = agenda]
         /\ UNCHANGED <<game, pending, commands>>
      \/ /\ ValidSequence(run.draft, effects, FALSE)
         /\ \E agenda, events :
              run' = [run EXCEPT !.at = "rule", !.todo = effects, !.agenda = agenda, !.events = events]
         /\ UNCHANGED <<game, pending, commands>>
      \/ Refuse
  BY Zenon DEF FireRule
<1>. HIDE DEF rule, effects
<1>3. CASE /\ \E agenda : run' = [run EXCEPT !.at = "commit", !.agenda = agenda]
           /\ UNCHANGED <<game, pending, commands>>
  <2>1. DOMAIN run' = RunFields /\ run'.draft = run.draft /\ run'.todo = run.todo
        /\ run'.at = "commit" /\ run'.adj = run.adj
    BY <1>0, <1>3 DEF RunFields
  <2>. QED BY <1>0, <1>3, <2>1, StepKeepsWorld DEF RunOK
<1>4. CASE /\ ValidSequence(run.draft, effects, FALSE)
           /\ \E agenda, events :
                run' = [run EXCEPT !.at = "rule", !.todo = effects, !.agenda = agenda, !.events = events]
           /\ UNCHANGED <<game, pending, commands>>
  <2>1. DOMAIN run' = RunFields /\ run'.draft = run.draft /\ run'.todo = effects
        /\ run'.at = "rule" /\ run'.adj = run.adj
    BY <1>0, <1>4 DEF RunFields
  <2>2. Grounded(LocationIds(run.draft), effects)
    BY <1>1, <1>4, EventWalk DEF effects
  <2>. QED BY <1>0, <1>4, <2>1, <2>2, StepKeepsWorld DEF RunOK
<1>5. CASE Refuse
  BY <1>0, <1>5, RefuseKeepsWorld
<1>. QED BY <1>2, <1>3, <1>4, <1>5

\* Commit: the draft becomes the state.
LEMMA CommitKeepsWorld ==
  ASSUME WorldInv, Commit
  PROVE  WorldInv'
<1>0. RunOK /\ DOMAIN run = RunFields
  BY NotIdle DEF Commit, RunOK
<1>. DEFINE agenda == IF run.at = "commit" THEN run.agenda ELSE [run.agenda EXCEPT !.status = "stable"]
<1>1. /\ game' = IF agenda.queue = <<>> THEN run.draft ELSE [run.draft EXCEPT !.agendas = <<agenda>>]
      /\ run' = Idle /\ commands' = commands + 1 /\ pending' = pending
  BY Zenon DEF Commit
<1>. HIDE DEF agenda
<1>2. DOMAIN run.draft = StateFields
  BY <1>0 DEF RunOK, StateOK
<1>. DEFINE news == <<agenda>>
<1>3. /\ DOMAIN game' = StateFields /\ game'.scene = run.draft.scene
      /\ game'.partyPlaces = run.draft.partyPlaces /\ game'.actorPlaces = run.draft.actorPlaces
      /\ game'.runtimeLocations = run.draft.runtimeLocations /\ game'.items = run.draft.items
      /\ game'.entities = run.draft.entities /\ game'.time = run.draft.time
      /\ game'.actorFacts = run.draft.actorFacts
  <2>1. game' = run.draft \/ game' = [run.draft EXCEPT !.agendas = news]
    BY <1>1
  <2>. HIDE DEF news
  <2>. QED BY <1>2, <2>1 DEF StateFields
<1>4. LocationIds(game') = LocationIds(run.draft)
  BY <1>3 DEF LocationIds
<1>5. StateOK(game')
  BY <1>0, <1>3, <1>4 DEF RunOK, StateOK, PlacesOK, KnownOK, ThingsOK, TimeOK
<1>6. \A p \in pending : AdjOK(p)'
  BY <1>0, <1>4, AdjStays DEF RunOK, WorldInv
<1>7. commands' \in 0..MaxCommands
  BY <1>0, <1>1, WorldAssumption DEF RunOK, WorldInv
<1>. QED BY <1>1, <1>5, <1>6, <1>7 DEF WorldInv

\* A stuttering step changes nothing.
LEMMA SameKeepsWorld ==
  ASSUME WorldInv, UNCHANGED vars
  PROVE  WorldInv'
<1>1. game' = game /\ pending' = pending /\ run' = run /\ commands' = commands
  BY DEF vars
<1>2. \A p \in pending : AdjOK(p)'
  BY <1>1, AdjStays DEF WorldInv
<1>3. RunOK => RunOK'
  <2>0. PICK adj : adj = run.adj
    OBVIOUS
  <2>1. SUFFICES ASSUME RunOK PROVE RunOK'
    OBVIOUS
  <2>2. AdjOK(adj)'
    BY <1>1, <2>0, <2>1, AdjStays DEF RunOK
  <2>. QED BY <1>1, <2>0, <2>1, <2>2 DEF RunOK
<1>. QED BY <1>1, <1>2, <1>3 DEF WorldInv

-----------------------------------------------------------------------------
(* The cascade of rules. *)

AgendaFields ==
  {"status", "depth", "maxDepth", "steps", "maxSteps", "queue", "failure", "rule", "step"}

\* How many of the rules on the agenda are behind the cascade.
Fired(r) == Len(r.agenda.queue) - Len(r.waiting)

CascadeTyped(r) ==
  /\ IsSequence(r.events) /\ r.cursor \in Nat
  /\ r.waiting \in Seq(EventRules)
  /\ DOMAIN r.agenda = AgendaFields
  /\ IsSequence(r.agenda.queue)
  /\ r.agenda.depth \in Nat /\ r.agenda.maxDepth \in Nat
  /\ r.agenda.steps \in Nat /\ r.agenda.maxSteps \in Nat

\* Every entry of the queue names a rule an event read so far called, once.
QueueNames(queue, cursor) ==
  /\ \A i \in 1..Len(queue) : /\ DOMAIN queue[i] = {"event", "rule", "status"}
                              /\ queue[i].event \in 1..cursor
  /\ \A i, j \in 1..Len(queue) :
        i # j => <<queue[i].event, queue[i].rule>> # <<queue[j].event, queue[j].rule>>

\* The rules that wait are the last of the queue; those before them ran.
QueueOK(r) ==
  LET queue == r.agenda.queue
  IN  /\ QueueNames(queue, r.cursor)
      /\ Len(r.waiting) <= Len(queue)
      /\ \A i \in 1..Len(r.waiting) : queue[Fired(r) + i].rule = r.waiting[i].id
      /\ \A i \in 1..Fired(r) : queue[i].status = "completed"
      /\ \A i \in Fired(r) + 1..Len(queue) :
            queue[i].status = IF r.at = "rule" /\ i = Fired(r) + 1 THEN "running" ELSE "queued"

\* The budget of the agenda is never more than that of any rule that was charged.
BudgetOK(r) ==
  LET agenda == r.agenda
  IN  /\ agenda.depth = IF r.at = "rule" THEN Fired(r) + 1 ELSE Fired(r)
      /\ agenda.depth <= agenda.maxDepth /\ agenda.maxDepth <= AgendaDepth
      /\ agenda.steps <= agenda.maxSteps
      /\ \A i \in 1..agenda.depth : \A q \in Module.rules :
            q.id = agenda.queue[i].rule => agenda.maxDepth <= q.maxDepth

CascadeOK(r) == CascadeTyped(r) /\ QueueOK(r) /\ BudgetOK(r)

CascadeInv ==
  /\ run.at \in {"effects", "cascade", "rule"} => CascadeOK(run)
  /\ run.at = "effects" => run.waiting = <<>> /\ run.agenda.queue = <<>>
  /\ run.at = "rule" => run.waiting # <<>>
  /\ run.at = "commit" => DOMAIN run.agenda = AgendaFields /\ Accounted(run.agenda)

GameAccounted == \A n \in DOMAIN game.agendas : Accounted(game.agendas[n])

\* The rules an event calls are event rules, each called once: they are ranked by an
\* order in which no two have the same place.
LEMMA MatchingRules ==
  ASSUME NEW s, NEW a, NEW type
  PROVE  LET rules == MatchingEventRules(s, a, type)
         IN  /\ rules \in Seq(EventRules)
             /\ \A i, j \in 1..Len(rules) : i # j => rules[i].id # rules[j].id
<1>. DEFINE matched == {r \in Module.rules : /\ r.trigger = "event" /\ r.eventType = type
                                             /\ Satisfies(s, a, r.when)}
            Ahead(r) == {q \in matched : BeforeRule(q, r)}
            Rank(r) == Cardinality(Ahead(r))
            n == Cardinality(matched)
            rules == [i \in 1..n |-> CHOOSE r \in matched : Rank(r) = i - 1]
<1>1. MatchingEventRules(s, a, type) = rules
  BY DEF MatchingEventRules
<1>2. /\ IsFiniteSet(Module.rules)
      /\ \A r \in Module.rules : r.id \in Nat /\ r.priority \in Int
      /\ \A r, q \in Module.rules : r.id = q.id => r = q
  BY RulesAssumption
<1>3. /\ \A r \in matched : r \in EventRules /\ r.id \in Nat /\ r.priority \in Int
      /\ \A r, q \in matched : r.id = q.id => r = q
  BY <1>2 DEF EventRules
<1>4. IsFiniteSet(matched) /\ n \in Nat
  BY <1>2, FS_Subset, FS_CardinalityType
<1>. HIDE DEF matched, n
<1>5. \A r \in matched : r \notin Ahead(r) /\ Ahead(r) \subseteq matched
  BY <1>3 DEF BeforeRule
<1>6. \A r \in matched : IsFiniteSet(Ahead(r)) /\ Rank(r) \in 0..n - 1
  <2>1. TAKE r \in matched
  <2>2. IsFiniteSet(Ahead(r)) /\ Rank(r) \in Nat
    <3>. HIDE DEF Ahead
    <3>. QED BY <1>4, <1>5, FS_Subset, FS_CardinalityType
  <2>3. Rank(r) <= n /\ (n = Rank(r) => matched = Ahead(r))
    <3>. HIDE DEF Ahead
    <3>. QED BY <1>4, <1>5, FS_Subset DEF n
  <2>4. Rank(r) # n
    <3>. HIDE DEF Ahead
    <3>. QED BY <1>5, <2>3
  <2>. HIDE DEF Rank
  <2>. QED BY <1>4, <2>2, <2>3, <2>4
<1>7. ASSUME NEW r \in matched, NEW q \in matched, BeforeRule(r, q) PROVE Rank(r) < Rank(q)
  <2>1. Ahead(r) \subseteq Ahead(q)
    BY <1>3, <1>7 DEF BeforeRule
  <2>2. r \in Ahead(q) /\ r \notin Ahead(r)
    BY <1>5, <1>7
  <2>3. Rank(r) <= Rank(q) /\ (Rank(q) = Rank(r) => Ahead(q) = Ahead(r))
    <3>. HIDE DEF Ahead
    <3>. QED BY <1>6, <2>1, FS_Subset
  <2>. HIDE DEF Ahead
  <2>4. Rank(r) \in Nat /\ Rank(q) \in Nat
    BY <1>4, <1>6
  <2>. HIDE DEF Rank
  <2>. QED BY <2>2, <2>3, <2>4
<1>8. \A r, q \in matched : r # q => Rank(r) # Rank(q)
  <2>1. SUFFICES ASSUME NEW r \in matched, NEW q \in matched, r # q PROVE Rank(r) # Rank(q)
    OBVIOUS
  <2>2. BeforeRule(r, q) \/ BeforeRule(q, r)
    BY <1>3, <2>1 DEF BeforeRule
  <2>3. Rank(r) < Rank(q) \/ Rank(q) < Rank(r)
    BY <1>7, <2>2
  <2>4. Rank(r) \in Nat /\ Rank(q) \in Nat
    BY <1>4, <1>6
  <2>. HIDE DEF Rank
  <2>. QED BY <2>3, <2>4
<1>. HIDE DEF Rank, Ahead
<1>9. ASSUME NEW i \in 1..n PROVE \E r \in matched : Rank(r) = i - 1
  <2>. DEFINE f == [r \in matched |-> Rank(r)]
              T == 0..n - 1
  <2>1. f \in Injection(matched, T)
    BY <1>6, <1>8, Zenon DEF Injection, IsInjective
  <2>2. IsFiniteSet(T) /\ Cardinality(T) = n
    <3>1. 0 \in Int /\ n - 1 \in Int
      BY <1>4
    <3>2. IsFiniteSet(0..n - 1) /\ Cardinality(0..n - 1) = IF 0 > n - 1 THEN 0 ELSE (n - 1) - 0 + 1
      BY <3>1, FS_Interval
    <3>. QED BY <1>4, <3>2
  <2>3. f \in Surjection(matched, T)
    <3>. HIDE DEF f, T
    <3>. QED BY <2>1, <2>2, FS_Injection DEF n
  <2>4. i - 1 \in T
    BY <1>4
  <2>. QED BY <2>3, <2>4 DEF Surjection
<1>10. \A i \in 1..n : rules[i] \in matched /\ Rank(rules[i]) = i - 1
  BY <1>9
<1>11. rules \in Seq(EventRules) /\ Len(rules) = n
  <2>1. rules \in [1..n -> EventRules]
    BY <1>3, <1>10
  <2>. HIDE DEF rules
  <2>. QED BY <1>4, <2>1
<1>12. \A i, j \in 1..n : i # j => rules[i].id # rules[j].id
  <2>1. TAKE i, j \in 1..n
  <2>2. HAVE i # j
  <2>3. rules[i] # rules[j]
    <3>. HIDE DEF rules
    <3>. QED BY <1>4, <1>10, <2>2
  <2>. HIDE DEF rules
  <2>. QED BY <1>3, <1>10, <2>3
<1>. HIDE DEF rules
<1>. QED BY <1>1, <1>11, <1>12

\* No cascade runs at first, and no agenda is kept.
LEMMA CascadeInit == Init => CascadeInv /\ GameAccounted
<1>1. SUFFICES ASSUME Init PROVE CascadeInv /\ GameAccounted
  OBVIOUS
<1>2. run.at = "idle"
  BY <1>1 DEF Init, Idle
<1>3. DOMAIN game.agendas = {}
  BY <1>1, NothingIsSequence DEF Init, InitialState
<1>. QED BY <1>2, <1>3 DEF CascadeInv, GameAccounted

\* A transaction begins with an empty agenda.
LEMMA BegunCascade ==
  ASSUME NEW adj, NEW result, NEW effects, run' = Begun(adj, result, effects)
  PROVE  CascadeInv'
<1>. DEFINE two == <<[type |-> "check.rolled", effect |-> None],
                     [type |-> "check.resolved", effect |-> None]>>
<1>1. run'.at = "effects" /\ run'.waiting = <<>> /\ run'.agenda = NoAgenda /\ run'.cursor = 0
      /\ (run'.events = two \/ run'.events = <<>>)
  BY DEF Begun
<1>2. IsSequence(run'.events)
  <2>1. IsSequence(two)
    <3>. DEFINE S == {[type |-> "check.rolled", effect |-> None],
                      [type |-> "check.resolved", effect |-> None]}
    <3>1. two \in Seq(S)
      OBVIOUS
    <3>. QED BY <3>1, SequenceOf
  <2>. HIDE DEF two
  <2>. QED BY <1>1, <2>1, NothingIsSequence
<1>. DEFINE agenda == run'.agenda
<1>3. /\ DOMAIN agenda = AgendaFields /\ agenda.queue = <<>> /\ agenda.depth = 0 /\ agenda.steps = 0
      /\ agenda.maxDepth = AgendaDepth /\ agenda.maxSteps = AgendaSteps
  BY <1>1 DEF NoAgenda, AgendaFields
<1>. HIDE DEF agenda
<1>4. AgendaDepth \in Nat /\ AgendaSteps \in Nat
  BY WorldAssumption
<1>5. <<>> \in Seq(EventRules) /\ Len(<<>>) = 0 /\ IsSequence(<<>>)
  BY NothingIsSequence
<1>6. CascadeTyped(run')
  BY <1>1, <1>2, <1>3, <1>4, <1>5 DEF CascadeTyped, agenda
<1>7. Fired(run') = 0
  BY <1>1, <1>3, <1>5 DEF Fired, agenda
<1>8. QueueOK(run')
  BY <1>1, <1>3, <1>5, <1>7 DEF QueueOK, QueueNames, agenda
<1>9. BudgetOK(run')
  BY <1>1, <1>3, <1>4, <1>7 DEF BudgetOK, agenda
<1>. QED BY <1>1, <1>3, <1>6, <1>8, <1>9 DEF CascadeInv, CascadeOK, agenda

\* Nothing the cascade goes by is touched.
LEMMA SameCascade ==
  ASSUME CascadeInv, run.at \in {"effects", "rule"}, run'.at = run.at, run'.cursor = run.cursor,
         run'.waiting = run.waiting, run'.agenda = run.agenda, IsSequence(run'.events)
  PROVE  CascadeInv'
<1>1. CascadeOK(run)
  BY DEF CascadeInv
<1>2. Fired(run') = Fired(run)
  BY DEF Fired
<1>3. CascadeTyped(run') /\ QueueOK(run') /\ BudgetOK(run')
  BY <1>1, <1>2 DEF CascadeOK, CascadeTyped, QueueOK, BudgetOK
<1>. QED BY <1>3 DEF CascadeInv, CascadeOK

\* ApplyEffect leaves the agenda alone.
LEMMA ApplyEffectCascade ==
  ASSUME WorldInv, CascadeInv, ApplyEffect
  PROVE  CascadeInv'
<1>. DEFINE result == Apply(run.draft, run.adj.actor, Head(run.todo))
            events == Emitted(run.events, result.event, Head(run.todo))
<1>0. RunOK /\ DOMAIN run = RunFields /\ run.at \in {"effects", "rule"} /\ Accept(result)
  BY NotIdle DEF ApplyEffect, RunOK
<1>. HIDE DEF result
<1>1. CASE ~result.ok
  <2>1. run' = Idle
    BY <1>0, <1>1 DEF Accept, Refuse
  <2>. QED BY <2>1 DEF CascadeInv, Idle
<1>2. CASE result.ok
  <2>1. \E draft, todo : run' = [run EXCEPT !.draft = draft, !.todo = todo, !.events = events]
    BY <1>0, <1>2 DEF Accept
  <2>2. IsSequence(events)
    <3>1. IsSequence(run.events)
      BY <1>0 DEF CascadeInv, CascadeOK, CascadeTyped
    <3>. QED BY <3>1, Appended DEF Emitted
  <2>. HIDE DEF events
  <2>3. /\ run'.at = run.at /\ run'.cursor = run.cursor /\ run'.waiting = run.waiting
        /\ run'.agenda = run.agenda /\ run'.events = events
    BY <1>0, <2>1 DEF RunFields
  <2>. QED BY <1>0, <2>2, <2>3, SameCascade
<1>. QED BY <1>1, <1>2

\* Conclude starts the cascade.
LEMMA ConcludeCascade ==
  ASSUME WorldInv, CascadeInv, Conclude
  PROVE  CascadeInv'
<1>0. RunOK /\ DOMAIN run = RunFields /\ run.at = "effects"
  BY NotIdle DEF Conclude, RunOK
<1>1. CascadeOK(run)
  BY <1>0 DEF CascadeInv
<1>. DEFINE event == [type |-> IF run.passed THEN "action.succeeded" ELSE "action.failed",
                      effect |-> None]
            events == Append(run.events, event)
<1>2. run' = [run EXCEPT !.at = "cascade", !.events = events]
  BY DEF Conclude
<1>3. IsSequence(events)
  BY <1>1, Appended DEF CascadeOK, CascadeTyped
<1>. HIDE DEF event, events
<1>4. /\ run'.at = "cascade" /\ run'.cursor = run.cursor /\ run'.waiting = run.waiting
      /\ run'.agenda = run.agenda /\ run'.events = events
  BY <1>0, <1>2 DEF RunFields
<1>5. Fired(run') = Fired(run)
  BY <1>4 DEF Fired
<1>6. CascadeTyped(run') /\ QueueOK(run') /\ BudgetOK(run')
  BY <1>0, <1>1, <1>3, <1>4, <1>5 DEF CascadeOK, CascadeTyped, QueueOK, BudgetOK
<1>. QED BY <1>4, <1>6 DEF CascadeInv, CascadeOK

\* One sequence behind another.
LEMMA JoinedIs ==
  ASSUME NEW q, IsSequence(q), NEW t, IsSequence(t), NEW s, s = q \o t
  PROVE  /\ IsSequence(s) /\ Len(s) = Len(q) + Len(t) /\ Len(q) \in Nat /\ Len(t) \in Nat
         /\ \A i \in 1..Len(q) : s[i] = q[i]
         /\ \A i \in 1..Len(t) : s[Len(q) + i] = t[i]
<1>. DEFINE S == {q[i] : i \in DOMAIN q} \cup {t[i] : i \in DOMAIN t}
<1>1. q \in Seq(S) /\ t \in Seq(S)
  BY DEF IsSequence
<1>. HIDE DEF S
<1>2. s \in Seq(S) /\ Len(q) \in Nat /\ Len(t) \in Nat /\ Len(s) = Len(q) + Len(t)
  BY <1>1
<1>3. \A i \in 1..Len(q) : s[i] = q[i]
  BY <1>1
<1>4. \A i \in 1..Len(t) : s[Len(q) + i] = t[i]
  BY <1>1
<1>5. IsSequence(s)
  BY <1>2, SequenceOf
<1>. QED BY <1>2, <1>3, <1>4, <1>5

\* The entries an event adds: one for each rule it calls.
Called(added, n, cursor, ids) ==
  \A i \in 1..n : /\ DOMAIN added[i] = {"event", "rule", "status"}
                  /\ added[i].event = cursor + 1 /\ added[i].rule = ids[i]
                  /\ added[i].status = "queued"

Distinct(ids, n) == \A i, j \in 1..n : i # j => ids[i] # ids[j]

\* What an event calls joins the queue behind what earlier events called.
LEMMA QueueGrows ==
  ASSUME NEW old, IsSequence(old), NEW added, IsSequence(added), NEW cursor \in Nat,
         NEW n \in Nat, NEW ids, Len(added) = n, QueueNames(old, cursor),
         Called(added, n, cursor, ids), Distinct(ids, n)
  PROVE  /\ IsSequence(old \o added) /\ Len(old \o added) = Len(old) + n /\ Len(old) \in Nat
         /\ QueueNames(old \o added, cursor + 1)
         /\ \A i \in 1..Len(old) : (old \o added)[i] = old[i]
         /\ \A i \in 1..n : /\ (old \o added)[Len(old) + i].rule = ids[i]
                            /\ (old \o added)[Len(old) + i].status = "queued"
<1>1. PICK queue : queue = old \o added
  OBVIOUS
<1>2. PICK m : m = Len(old)
  OBVIOUS
<1>3. /\ IsSequence(queue) /\ Len(queue) = m + n /\ m \in Nat
      /\ \A i \in 1..m : queue[i] = old[i]
      /\ \A i \in 1..n : queue[m + i] = added[i]
  <2>1. IsSequence(queue)
    BY <1>1, JoinedIs, Zenon
  <2>2. Len(queue) = m + n /\ m \in Nat
    BY <1>1, <1>2, JoinedIs
  <2>3. \A i \in 1..m : queue[i] = old[i]
    BY <1>1, <1>2, JoinedIs
  <2>4. \A i \in 1..n : queue[m + i] = added[i]
    BY <1>1, <1>2, JoinedIs
  <2>. QED BY <2>1, <2>2, <2>3, <2>4
<1>4. ASSUME NEW i \in 1..n
      PROVE  /\ DOMAIN queue[m + i] = {"event", "rule", "status"}
             /\ queue[m + i].event = cursor + 1 /\ queue[m + i].rule = ids[i]
             /\ queue[m + i].status = "queued"
  BY <1>3, Zenon DEF Called
<1>5. ASSUME NEW i \in 1..m + n, i \notin 1..m
      PROVE  \E k \in 1..n : i = m + k
  <2>1. i - m \in 1..n /\ i = m + (i - m)
    BY <1>3, <1>5
  <2>. QED BY <2>1, Zenon
<1>6. ASSUME NEW i \in 1..m
      PROVE  /\ DOMAIN queue[i] = {"event", "rule", "status"} /\ queue[i].event \in 1..cursor
  BY <1>2, <1>3, Zenon DEF QueueNames
<1>7. cursor + 1 \in 1..cursor + 1 /\ \A x \in 1..cursor : x \in 1..cursor + 1 /\ x # cursor + 1
  OBVIOUS
<1>8. ASSUME NEW i \in 1..m + n
      PROVE  /\ DOMAIN queue[i] = {"event", "rule", "status"} /\ queue[i].event \in 1..cursor + 1
  <2>1. CASE i \in 1..m
    BY <1>6, <1>7, <2>1, Zenon
  <2>2. CASE i \notin 1..m
    <3>1. PICK k \in 1..n : i = m + k
      BY <1>5, <2>2
    <3>2. DOMAIN queue[m + k] = {"event", "rule", "status"} /\ queue[m + k].event = cursor + 1
      BY <1>4, Zenon
    <3>. QED BY <1>7, <3>1, <3>2, Zenon
  <2>. QED BY <2>1, <2>2
<1>9. ASSUME NEW i \in 1..m + n, NEW j \in 1..m + n, i # j,
             queue[i].event = queue[j].event, queue[i].rule = queue[j].rule
      PROVE  FALSE
  <2>1. CASE i \in 1..m /\ j \in 1..m
    BY <1>2, <1>3, <1>9, <2>1 DEF QueueNames
  <2>2. CASE i \in 1..m /\ j \notin 1..m
    <3>1. PICK k \in 1..n : j = m + k
      BY <1>5, <2>2
    <3>. QED BY <1>4, <1>6, <1>7, <1>9, <2>2, <3>1, Zenon
  <2>3. CASE j \in 1..m /\ i \notin 1..m
    <3>1. PICK k \in 1..n : i = m + k
      BY <1>5, <2>3
    <3>. QED BY <1>4, <1>6, <1>7, <1>9, <2>3, <3>1, Zenon
  <2>4. CASE i \notin 1..m /\ j \notin 1..m
    <3>1. PICK k \in 1..n : i = m + k
      BY <1>5, <2>4
    <3>2. PICK l \in 1..n : j = m + l
      BY <1>5, <2>4
    <3>3. k # l
      BY <1>9, <3>1, <3>2, Zenon
    <3>4. ids[k] = ids[l]
      BY <1>4, <1>9, <3>1, <3>2, Zenon
    <3>. QED BY <3>3, <3>4, Zenon DEF Distinct
  <2>. QED BY <2>1, <2>2, <2>3, <2>4
<1>10. QueueNames(queue, cursor + 1)
  BY <1>3, <1>8, <1>9 DEF QueueNames
<1>. QED BY <1>1, <1>2, <1>3, <1>4, <1>10, Zenon

\* ReadEvent: all the queue so far was completed, and the rules called join it.
LEMMA ReadEventCascade ==
  ASSUME WorldInv, CascadeInv, ReadEvent
  PROVE  CascadeInv'
<1>0. RunOK /\ DOMAIN run = RunFields /\ run.at = "cascade" /\ run.waiting = <<>>
  BY NotIdle DEF ReadEvent, RunOK
<1>1. CascadeOK(run)
  BY <1>0 DEF CascadeInv
<1>. DEFINE event == run.events[run.cursor + 1]
            rules == IF event.type = "rule.triggered" THEN <<>>
                     ELSE MatchingEventRules(run.draft, run.adj.actor, event.type)
            added == [i \in 1..Len(rules) |-> [event |-> run.cursor + 1, rule |-> rules[i].id,
                                               status |-> "queued"]]
            queue == run.agenda.queue \o added
<1>2. run' = [run EXCEPT !.cursor = @ + 1, !.waiting = rules, !.agenda.queue = queue]
  BY Zenon DEF ReadEvent
<1>3. rules \in Seq(EventRules) /\ \A i, j \in 1..Len(rules) : i # j => rules[i].id # rules[j].id
  BY MatchingRules
<1>. HIDE DEF rules
<1>4. IsSequence(added) /\ Len(added) = Len(rules) /\ Len(rules) \in Nat
  <2>1. Len(rules) \in Nat
    BY <1>3
  <2>. DEFINE S == {[event |-> run.cursor + 1, rule |-> rules[i].id, status |-> "queued"] :
                      i \in 1..Len(rules)}
  <2>2. added \in [1..Len(rules) -> S]
    OBVIOUS
  <2>. HIDE DEF added, S
  <2>3. added \in Seq(S) /\ Len(added) = Len(rules)
    BY <2>1, <2>2
  <2>. QED BY <2>1, <2>3, SequenceOf
<1>. DEFINE ids == [i \in 1..Len(rules) |-> rules[i].id]
            n == Len(rules)
<1>5. Called(added, n, run.cursor, ids) /\ Distinct(ids, n) /\ \A i \in 1..n : ids[i] = rules[i].id
  BY <1>3 DEF Called, Distinct
<1>. HIDE DEF added, ids
<1>6. IsSequence(run.agenda.queue) /\ run.cursor \in Nat /\ DOMAIN run.agenda = AgendaFields
  BY <1>1 DEF CascadeOK, CascadeTyped
<1>7. PICK old : old = run.agenda.queue
  OBVIOUS
<1>8. IsSequence(old) /\ QueueNames(old, run.cursor) /\ n \in Nat /\ Len(added) = n
  BY <1>1, <1>4, <1>6, <1>7 DEF CascadeOK, QueueOK
<1>. HIDE DEF n
<1>9. /\ IsSequence(old \o added) /\ Len(old \o added) = Len(old) + n /\ Len(old) \in Nat
      /\ QueueNames(old \o added, run.cursor + 1)
      /\ \A i \in 1..Len(old) : (old \o added)[i] = old[i]
      /\ \A i \in 1..n : /\ (old \o added)[Len(old) + i].rule = ids[i]
                         /\ (old \o added)[Len(old) + i].status = "queued"
  BY <1>4, <1>5, <1>6, <1>8, QueueGrows
<1>10. queue = old \o added
  BY <1>7
<1>11. /\ IsSequence(queue) /\ Len(queue) = Len(old) + n /\ Len(old) \in Nat
       /\ QueueNames(queue, run.cursor + 1)
       /\ \A i \in 1..Len(old) : queue[i] = old[i]
       /\ \A i \in 1..n : queue[Len(old) + i].rule = ids[i] /\ queue[Len(old) + i].status = "queued"
  <2>. HIDE DEF queue
  <2>. QED BY <1>9, <1>10
<1>. HIDE DEF queue, event
<1>12. /\ run'.at = "cascade" /\ run'.cursor = run.cursor + 1 /\ run'.waiting = rules
       /\ run'.events = run.events
       /\ DOMAIN run'.agenda = AgendaFields /\ run'.agenda.queue = queue
       /\ run'.agenda.depth = run.agenda.depth /\ run'.agenda.maxDepth = run.agenda.maxDepth
       /\ run'.agenda.steps = run.agenda.steps /\ run'.agenda.maxSteps = run.agenda.maxSteps
  BY <1>0, <1>2, <1>6 DEF RunFields, AgendaFields
<1>13. Fired(run) = Len(old) /\ Fired(run') = Len(old)
  <2>1. Len(run.waiting) = 0
    BY <1>0, NothingIsSequence
  <2>2. Fired(run) = Len(old)
    BY <1>7, <1>11, <2>1 DEF Fired
  <2>3. Len(run'.waiting) = n /\ n \in Nat
    BY <1>4, <1>12 DEF n
  <2>. QED BY <1>11, <1>12, <2>2, <2>3 DEF Fired
<1>14. CascadeTyped(run')
  BY <1>1, <1>3, <1>6, <1>11, <1>12 DEF CascadeOK, CascadeTyped
<1>15. QueueOK(run')
  <2>1. \A i \in 1..Len(old) : old[i].status = "completed"
    BY <1>1, <1>7, <1>13 DEF CascadeOK, QueueOK
  <2>2. \A i \in 1..Len(old) : queue[i].status = "completed"
    BY <1>11, <2>1
  <2>3. \A i \in Len(old) + 1..Len(queue) : queue[i].status = "queued"
    <3>1. TAKE i \in Len(old) + 1..Len(queue)
    <3>2. i - Len(old) \in 1..n /\ i = Len(old) + (i - Len(old))
      BY <1>4, <1>11 DEF n
    <3>. QED BY <1>11, <3>2
  <2>4. Len(rules) <= Len(queue) /\ Len(rules) = n
    BY <1>4, <1>11 DEF n
  <2>5. \A i \in 1..Len(rules) : queue[Len(old) + i].rule = rules[i].id
    BY <1>5, <1>11, <2>4
  <2>6. /\ run'.at # "rule" /\ run'.cursor = run.cursor + 1 /\ run'.waiting = rules
        /\ run'.agenda.queue = queue /\ Fired(run') = Len(old)
    BY <1>12, <1>13
  <2>7. QueueNames(queue, run.cursor + 1)
    BY <1>11
  <2>. QED BY <2>2, <2>3, <2>4, <2>5, <2>6, <2>7 DEF QueueOK
<1>16. BudgetOK(run')
  <2>1. BudgetOK(run)
    BY <1>1 DEF CascadeOK
  <2>2. run.agenda.depth = Len(old)
    BY <1>0, <1>13, <2>1 DEF BudgetOK
  <2>3. \A i \in 1..Len(old) : queue[i].rule = run.agenda.queue[i].rule
    BY <1>7, <1>11
  <2>. QED BY <1>0, <1>11, <1>12, <1>13, <2>1, <2>2, <2>3 DEF BudgetOK
<1>. QED BY <1>12, <1>14, <1>15, <1>16 DEF CascadeInv, CascadeOK

-----------------------------------------------------------------------------
(* What marking a rule of the agenda does, and when an agenda accounts.     *)

\* The first k rules of the agenda are behind the cascade; the next has status st.
StandsAt(agenda, k, st) ==
  /\ DOMAIN agenda = AgendaFields /\ IsSequence(agenda.queue)
  /\ k + 1 \in 1..Len(agenda.queue)
  /\ \A i \in 1..Len(agenda.queue) : DOMAIN agenda.queue[i] = {"event", "rule", "status"}
  /\ \A i \in 1..k : agenda.queue[i].status = "completed"
  /\ agenda.queue[k + 1].status = st
  /\ \A i \in k + 2..Len(agenda.queue) : agenda.queue[i].status = "queued"

\* The same entries in the queue, but for their statuses.
SameEntries(queue, new) ==
  /\ Len(new) = Len(queue)
  /\ \A i \in 1..Len(queue) : /\ DOMAIN new[i] = DOMAIN queue[i]
                              /\ new[i].event = queue[i].event /\ new[i].rule = queue[i].rule

\* Who is queued does not depend on statuses.
LEMMA SameNames ==
  ASSUME NEW queue, NEW new, NEW cursor, SameEntries(queue, new), QueueNames(queue, cursor)
  PROVE  QueueNames(new, cursor)
BY DEF SameEntries, QueueNames

\* A sequence with one of its elements replaced.
LEMMA ReplacedIs ==
  ASSUME NEW q, IsSequence(q), NEW x \in 1..Len(q), NEW e, NEW new, new = [q EXCEPT ![x] = e]
  PROVE  /\ IsSequence(new) /\ Len(new) = Len(q) /\ Len(q) \in Nat
         /\ new[x] = e
         /\ \A i \in 1..Len(q) : i # x => new[i] = q[i]
<1>. DEFINE S == {q[i] : i \in DOMAIN q} \cup {e}
<1>1. q \in Seq(S) /\ e \in S
  BY DEF IsSequence
<1>. HIDE DEF S
<1>2. new \in Seq(S) /\ Len(q) \in Nat /\ Len(new) = Len(q)
  BY <1>1
<1>3. new[x] = e /\ \A i \in 1..Len(q) : i # x => new[i] = q[i]
  BY <1>1
<1>4. IsSequence(new)
  BY <1>2, SequenceOf
<1>. QED BY <1>2, <1>3, <1>4

\* The rule that is marked is the first that did not run, and only its status changes.
LEMMA MarkedIs ==
  ASSUME NEW agenda, NEW k \in Nat, NEW old, old \in {"queued", "running"}, StandsAt(agenda, k, old),
         NEW st, NEW new, new = Marked(agenda, st)
  PROVE  /\ StandsAt(new, k, st) /\ SameEntries(agenda.queue, new.queue)
         /\ new.status = agenda.status /\ new.depth = agenda.depth
         /\ new.maxDepth = agenda.maxDepth /\ new.steps = agenda.steps
         /\ new.maxSteps = agenda.maxSteps
<1>. DEFINE Active == {"queued", "running"}
            queue == agenda.queue
            Next1(i) == /\ queue[i].status \in Active
                        /\ \A j \in 1..i - 1 : queue[j].status \notin Active
            at == CHOOSE i \in 1..Len(queue) : Next1(i)
<1>1. /\ DOMAIN agenda = AgendaFields /\ IsSequence(queue) /\ k + 1 \in 1..Len(queue)
      /\ \A i \in 1..k : queue[i].status = "completed"
      /\ queue[k + 1].status \in Active /\ queue[k + 1].status = old
      /\ \A i \in k + 2..Len(queue) : queue[i].status = "queued"
      /\ \A i \in 1..Len(queue) : DOMAIN queue[i] = {"event", "rule", "status"}
  BY DEF StandsAt
<1>2. Len(queue) \in Nat
  BY <1>1, SequenceOf DEF IsSequence
<1>3. Next1(k + 1)
  <2>1. \A j \in 1..(k + 1) - 1 : queue[j].status = "completed"
    BY <1>1
  <2>. QED BY <1>1, <2>1
<1>4. \A i \in 1..Len(queue) : Next1(i) => i = k + 1
  <2>1. SUFFICES ASSUME NEW i \in 1..Len(queue), Next1(i), i # k + 1 PROVE FALSE
    OBVIOUS
  <2>2. i \notin 1..k
    BY <1>1, <2>1
  <2>3. k + 1 \in 1..i - 1
    BY <1>2, <2>1, <2>2
  <2>. QED BY <1>1, <2>1, <2>3
<1>5. at = k + 1
  <2>. HIDE DEF Next1
  <2>. QED BY <1>1, <1>3, <1>4
<1>6. new = [agenda EXCEPT !.queue[at].status = st]
  BY Zenon DEF Marked
<1>. HIDE DEF at
<1>7. new = [agenda EXCEPT !.queue = [queue EXCEPT ![k + 1] = [queue[k + 1] EXCEPT !.status = st]]]
  BY <1>5, <1>6
<1>. DEFINE e == [queue[k + 1] EXCEPT !.status = st]
            nq == [queue EXCEPT ![k + 1] = e]
<1>8. DOMAIN e = {"event", "rule", "status"} /\ e.status = st
      /\ e.event = queue[k + 1].event /\ e.rule = queue[k + 1].rule
  BY <1>1
<1>9. PICK entry, nextQueue : entry = e /\ nextQueue = nq
  OBVIOUS
<1>10. /\ IsSequence(nextQueue) /\ Len(nextQueue) = Len(queue) /\ nextQueue[k + 1] = entry
       /\ \A i \in 1..Len(queue) : i # k + 1 => nextQueue[i] = queue[i]
  <2>1. nextQueue = [queue EXCEPT ![k + 1] = entry]
    BY <1>9, Zenon
  <2>. HIDE DEF e, nq
  <2>2. IsSequence(nextQueue)
    BY <1>1, <2>1, ReplacedIs, Zenon
  <2>3. Len(nextQueue) = Len(queue)
    BY <1>1, <2>1, ReplacedIs
  <2>4. nextQueue[k + 1] = entry
    BY <1>1, <2>1, ReplacedIs
  <2>5. \A i \in 1..Len(queue) : i # k + 1 => nextQueue[i] = queue[i]
    BY <1>1, <2>1, ReplacedIs
  <2>. QED BY <2>2, <2>3, <2>4, <2>5
<1>11. new = [agenda EXCEPT !.queue = nextQueue]
  BY <1>7, <1>9, Zenon
<1>12. DOMAIN entry = {"event", "rule", "status"} /\ entry.status = st
       /\ entry.event = queue[k + 1].event /\ entry.rule = queue[k + 1].rule
  BY <1>8, <1>9, Zenon
<1>. HIDE DEF e, nq, Next1
<1>13. /\ DOMAIN new = AgendaFields /\ new.queue = nextQueue
       /\ new.status = agenda.status /\ new.depth = agenda.depth
       /\ new.maxDepth = agenda.maxDepth /\ new.steps = agenda.steps
       /\ new.maxSteps = agenda.maxSteps
  BY <1>1, <1>11 DEF AgendaFields
<1>14. \A i \in 1..Len(queue) : /\ DOMAIN nextQueue[i] = DOMAIN queue[i]
                                /\ nextQueue[i].event = queue[i].event
                                /\ nextQueue[i].rule = queue[i].rule
  BY <1>1, <1>10, <1>12
<1>15. SameEntries(queue, nextQueue)
  BY <1>10, <1>14 DEF SameEntries
<1>16. \A i \in 1..k : nextQueue[i].status = "completed"
  BY <1>1, <1>2, <1>10
<1>17. \A i \in k + 2..Len(queue) : nextQueue[i].status = "queued"
  BY <1>1, <1>2, <1>10
<1>18. \A i \in 1..Len(queue) : DOMAIN nextQueue[i] = {"event", "rule", "status"}
  BY <1>1, <1>14
<1>19. StandsAt(new, k, st)
  BY <1>1, <1>10, <1>12, <1>13, <1>16, <1>17, <1>18 DEF StandsAt
<1>. QED BY <1>13, <1>15, <1>19

\* What the rules that ran say of how far the cascade could go.
WithinDepth(queue, k) ==
  /\ k <= AgendaDepth
  /\ \A i \in 1..k : \A r \in Module.rules : r.id = queue[i].rule => k <= r.maxDepth

InBudget(agenda) ==
  agenda.status # "failed" => agenda.depth <= agenda.maxDepth /\ agenda.steps <= agenda.maxSteps

\* Each of the rules that ran was within the depths of those up to it.
LEMMA DoneAccounts ==
  ASSUME NEW queue, NEW k \in Nat, WithinDepth(queue, k)
  PROVE  \A i \in 1..k :
            /\ i <= AgendaDepth
            /\ \A r \in Module.rules : r.id \in {queue[j].rule : j \in 1..i} => i <= r.maxDepth
<1>1. AgendaDepth \in Nat /\ \A r \in Module.rules : r.maxDepth \in Nat
  BY WorldAssumption, RulesAssumption
<1>. QED BY <1>1 DEF WithinDepth

\* An agenda whose cascade stopped at a rule accounts for itself.
LEMMA StoppedAccounts ==
  ASSUME NEW agenda, NEW cursor, NEW k \in Nat,
         StandsAt(agenda, k, IF agenda.status = "failed" THEN "failed" ELSE "running"),
         QueueNames(agenda.queue, cursor), WithinDepth(agenda.queue, k), InBudget(agenda),
         agenda.status # "stable", agenda.rule = agenda.queue[k + 1].rule
  PROVE  Accounted(agenda)
<1>. DEFINE queue == agenda.queue
            done == {i \in DOMAIN queue : queue[i].status = "completed"}
<1>1. /\ IsSequence(queue) /\ k + 1 \in 1..Len(queue)
      /\ \A i \in 1..k : queue[i].status = "completed"
      /\ queue[k + 1].status = IF agenda.status = "failed" THEN "failed" ELSE "running"
      /\ \A i \in k + 2..Len(queue) : queue[i].status = "queued"
  BY DEF StandsAt
<1>2. Len(queue) \in Nat /\ DOMAIN queue = 1..Len(queue)
  BY <1>1, SequenceOf DEF IsSequence
<1>3. done = 1..k
  BY <1>1, <1>2
<1>4. \A i, j \in DOMAIN queue :
         i # j => <<queue[i].event, queue[i].rule>> # <<queue[j].event, queue[j].rule>>
  BY <1>2 DEF QueueNames
<1>5. \A i \in 1..k :
         /\ i <= AgendaDepth
         /\ \A r \in Module.rules : r.id \in {queue[j].rule : j \in 1..i} => i <= r.maxDepth
  BY DoneAccounts
<1>6. \A j \in (k + 1) + 1..Len(queue) : queue[j].status = "queued"
  BY <1>1
<1>7. k + 1 \in DOMAIN queue /\ 1..k = 1..(k + 1) - 1
  BY <1>1, <1>2
<1>8. \E i \in DOMAIN queue :
         /\ queue[i].rule = agenda.rule
         /\ queue[i].status = IF agenda.status = "failed" THEN "failed" ELSE "running"
         /\ done = 1..i - 1
         /\ \A j \in i + 1..Len(queue) : queue[j].status = "queued"
  <2>1. done = 1..(k + 1) - 1
    BY <1>3, <1>7
  <2>2. k + 1 \in DOMAIN queue /\ queue[k + 1].rule = agenda.rule
    BY <1>7
  <2>. HIDE DEF done, queue
  <2>. QED BY <1>1, <1>6, <2>1, <2>2, Zenon
<1>9. \A i \in done :
         /\ i <= AgendaDepth
         /\ \A r \in Module.rules : r.id \in {queue[j].rule : j \in 1..i} => i <= r.maxDepth
  <2>. HIDE DEF done, queue
  <2>. QED BY <1>3, <1>5
<1>. QED BY <1>4, <1>8, <1>9, Zenon DEF Accounted, InBudget

\* An agenda whose cascade came to rest accounts for itself.
LEMMA RestAccounts ==
  ASSUME NEW agenda, NEW cursor, IsSequence(agenda.queue), QueueNames(agenda.queue, cursor),
         \A i \in 1..Len(agenda.queue) : agenda.queue[i].status = "completed",
         WithinDepth(agenda.queue, Len(agenda.queue)), InBudget(agenda), agenda.status = "stable"
  PROVE  Accounted(agenda)
<1>. DEFINE queue == agenda.queue
            done == {i \in DOMAIN queue : queue[i].status = "completed"}
<1>1. Len(queue) \in Nat /\ DOMAIN queue = 1..Len(queue)
  BY SequenceOf DEF IsSequence
<1>2. done = DOMAIN queue
  BY <1>1
<1>3. \A i, j \in DOMAIN queue :
         i # j => <<queue[i].event, queue[i].rule>> # <<queue[j].event, queue[j].rule>>
  BY <1>1 DEF QueueNames
<1>4. \A i \in 1..Len(queue) :
         /\ i <= AgendaDepth
         /\ \A r \in Module.rules : r.id \in {queue[j].rule : j \in 1..i} => i <= r.maxDepth
  BY <1>1, DoneAccounts
<1>5. \A i \in done :
         /\ i <= AgendaDepth
         /\ \A r \in Module.rules : r.id \in {queue[j].rule : j \in 1..i} => i <= r.maxDepth
  <2>. HIDE DEF done, queue
  <2>. QED BY <1>1, <1>2, <1>4
<1>. QED BY <1>2, <1>3, <1>5, Zenon DEF Accounted, InBudget

\* What stopping at a rule changes of the agenda.
LEMMA StoppedIs ==
  ASSUME NEW agenda, DOMAIN agenda = AgendaFields, NEW status, NEW rule, NEW step,
         NEW new, new = Stopped(agenda, status, rule, step)
  PROVE  /\ DOMAIN new = AgendaFields /\ new.queue = agenda.queue /\ new.status = status
         /\ new.rule = rule.id /\ new.depth = agenda.depth /\ new.maxDepth = agenda.maxDepth
         /\ new.steps = agenda.steps /\ new.maxSteps = agenda.maxSteps
<1>. DEFINE failure == IF status = "failed" THEN "agenda_budget_exceeded" ELSE None
            id == rule.id
<1>1. new = [agenda EXCEPT !.status = status, !.rule = id, !.step = step, !.failure = failure]
  BY Zenon DEF Stopped
<1>. HIDE DEF failure, id
<1>2. /\ DOMAIN new = AgendaFields /\ new.queue = agenda.queue /\ new.status = status
      /\ new.rule = id /\ new.depth = agenda.depth /\ new.maxDepth = agenda.maxDepth
      /\ new.steps = agenda.steps /\ new.maxSteps = agenda.maxSteps
  BY <1>1 DEF AgendaFields
<1>. QED BY <1>2 DEF id

\* Where the cascade stands before the next of the rules that wait, or at it.
LEMMA NextRule ==
  ASSUME CascadeOK(run), run.waiting # <<>>, run.at \in {"cascade", "rule"}
  PROVE  LET rule == Head(run.waiting)
             k    == Fired(run)
         IN  /\ rule \in EventRules /\ rule = run.waiting[1] /\ Len(run.waiting) \in Nat \ {0}
             /\ k \in Nat /\ Len(run.agenda.queue) = k + Len(run.waiting)
             /\ StandsAt(run.agenda, k, IF run.at = "rule" THEN "running" ELSE "queued")
             /\ run.agenda.queue[k + 1].rule = rule.id
             /\ WithinDepth(run.agenda.queue, k)
<1>. DEFINE k == Fired(run)
            queue == run.agenda.queue
            rule == Head(run.waiting)
<1>1. /\ run.waiting \in Seq(EventRules) /\ IsSequence(queue) /\ DOMAIN run.agenda = AgendaFields
      /\ run.agenda.depth \in Nat /\ run.agenda.maxDepth \in Nat
  BY DEF CascadeOK, CascadeTyped
<1>2. /\ rule \in EventRules /\ rule = run.waiting[1] /\ Len(run.waiting) \in Nat \ {0}
      /\ 1 \in 1..Len(run.waiting)
  BY <1>1, HeadOf
<1>3. Len(queue) \in Nat
  BY <1>1, SequenceOf DEF IsSequence
<1>4. Len(run.waiting) <= Len(queue)
  BY DEF CascadeOK, QueueOK
<1>5. k \in Nat /\ Len(queue) = k + Len(run.waiting) /\ k + 1 \in 1..Len(queue)
  <2>1. k = Len(queue) - Len(run.waiting)
    BY DEF Fired
  <2>2. PICK m, n : m = Len(run.waiting) /\ n = Len(queue)
    OBVIOUS
  <2>3. m \in Nat \ {0} /\ n \in Nat /\ m <= n /\ k = n - m
    BY <1>2, <1>3, <1>4, <2>1, <2>2
  <2>. HIDE DEF k
  <2>4. k \in Nat /\ n = k + m /\ k + 1 \in 1..n
    BY <2>3
  <2>. QED BY <2>2, <2>4
<1>. HIDE DEF k, rule
<1>6. /\ \A i \in 1..Len(run.waiting) : queue[k + i].rule = run.waiting[i].id
      /\ \A i \in 1..k : queue[i].status = "completed"
      /\ \A i \in k + 1..Len(queue) :
            queue[i].status = IF run.at = "rule" /\ i = k + 1 THEN "running" ELSE "queued"
      /\ \A i \in 1..Len(queue) : DOMAIN queue[i] = {"event", "rule", "status"}
  BY DEF CascadeOK, QueueOK, QueueNames, k
<1>7. queue[k + 1].rule = rule.id
  BY <1>2, <1>6
<1>8. queue[k + 1].status = IF run.at = "rule" THEN "running" ELSE "queued"
  BY <1>5, <1>6
<1>9. \A i \in k + 2..Len(queue) : queue[i].status = "queued"
  <2>1. TAKE i \in k + 2..Len(queue)
  <2>2. i \in k + 1..Len(queue) /\ i # k + 1
    BY <1>3, <1>5
  <2>. QED BY <1>6, <2>2
<1>10. StandsAt(run.agenda, k, IF run.at = "rule" THEN "running" ELSE "queued")
  BY <1>1, <1>5, <1>6, <1>8, <1>9 DEF StandsAt
<1>11. WithinDepth(queue, k)
  <2>1. /\ run.agenda.depth = IF run.at = "rule" THEN k + 1 ELSE k
        /\ run.agenda.depth <= run.agenda.maxDepth /\ run.agenda.maxDepth <= AgendaDepth
        /\ \A i \in 1..run.agenda.depth : \A q \in Module.rules :
              q.id = queue[i].rule => run.agenda.maxDepth <= q.maxDepth
    BY DEF CascadeOK, BudgetOK, k
  <2>2. k <= run.agenda.depth /\ k <= run.agenda.maxDepth /\ 1..k \subseteq 1..run.agenda.depth
    BY <1>1, <1>5, <2>1
  <2>3. AgendaDepth \in Nat /\ \A r \in Module.rules : r.maxDepth \in Nat
    BY WorldAssumption, RulesAssumption
  <2>4. k <= AgendaDepth
    BY <1>1, <1>5, <2>1, <2>2, <2>3
  <2>5. ASSUME NEW i \in 1..k, NEW r \in Module.rules, r.id = queue[i].rule PROVE k <= r.maxDepth
    <3>1. run.agenda.maxDepth <= r.maxDepth
      BY <2>1, <2>2, <2>5
    <3>. QED BY <1>1, <1>5, <2>2, <2>3, <3>1
  <2>. QED BY <2>4, <2>5 DEF WithinDepth
<1>. QED BY <1>2, <1>5, <1>7, <1>10, <1>11 DEF k, rule

\* A rule that is out of its budgets, or has to wait, ends the cascade with an
\* agenda that accounts for itself.
LEMMA StopCascade ==
  ASSUME NEW agenda, NEW k \in Nat, NEW cursor, NEW rule, NEW status, NEW step,
         StandsAt(agenda, k, IF status = "failed" THEN "failed" ELSE "running"),
         QueueNames(agenda.queue, cursor), WithinDepth(agenda.queue, k),
         agenda.queue[k + 1].rule = rule.id, status # "stable",
         status # "failed" => agenda.depth <= agenda.maxDepth /\ agenda.steps <= agenda.maxSteps,
         run'.at = "commit", run'.agenda = Stopped(agenda, status, rule, step)
  PROVE  CascadeInv'
<1>1. PICK new : new = Stopped(agenda, status, rule, step)
  OBVIOUS
<1>2. DOMAIN agenda = AgendaFields
  BY DEF StandsAt
<1>3. /\ DOMAIN new = AgendaFields /\ new.queue = agenda.queue /\ new.status = status
      /\ new.rule = rule.id /\ new.depth = agenda.depth /\ new.maxDepth = agenda.maxDepth
      /\ new.steps = agenda.steps /\ new.maxSteps = agenda.maxSteps
  BY <1>1, <1>2, StoppedIs
<1>4. StandsAt(new, k, IF new.status = "failed" THEN "failed" ELSE "running")
  BY <1>2, <1>3 DEF StandsAt
<1>5. InBudget(new)
  BY <1>3 DEF InBudget
<1>6. QueueNames(new.queue, cursor) /\ WithinDepth(new.queue, k) /\ new.rule = new.queue[k + 1].rule
      /\ new.status # "stable"
  BY <1>3
<1>7. Accounted(new)
  BY <1>4, <1>5, <1>6, StoppedAccounts
<1>. QED BY <1>1, <1>3, <1>7 DEF CascadeInv

\* The agenda after a rule was charged to its budgets, and its steps counted.
Charged(agenda, rule) ==
  [agenda EXCEPT !.depth = @ + 1, !.maxDepth = Minimum(@, rule.maxDepth),
                 !.maxSteps = Minimum(@, rule.maxSteps)]

Counted(agenda, n) == [agenda EXCEPT !.steps = @ + n]

\* What charging a rule to the budgets changes of the agenda.
LEMMA ChargedIs ==
  ASSUME NEW agenda, DOMAIN agenda = AgendaFields, NEW rule \in EventRules, NEW n \in Nat,
         agenda.depth \in Nat, agenda.maxDepth \in Nat, agenda.maxSteps \in Nat, agenda.steps \in Nat,
         NEW charged, charged = Charged(agenda, rule), NEW counted, counted = Counted(charged, n)
  PROVE  /\ DOMAIN charged = AgendaFields /\ DOMAIN counted = AgendaFields
         /\ charged.queue = agenda.queue /\ counted.queue = agenda.queue
         /\ charged.depth = agenda.depth + 1 /\ counted.depth = charged.depth
         /\ charged.maxDepth \in Nat /\ counted.maxDepth = charged.maxDepth
         /\ charged.maxDepth <= agenda.maxDepth /\ charged.maxDepth <= rule.maxDepth
         /\ counted.maxSteps \in Nat /\ counted.steps \in Nat
<1>. DEFINE depth == Minimum(agenda.maxDepth, rule.maxDepth)
            steps == Minimum(agenda.maxSteps, rule.maxSteps)
<1>1. rule.maxDepth \in Nat /\ rule.maxSteps \in Nat
  BY RulesAssumption DEF EventRules
<1>2. /\ depth \in Nat /\ depth <= agenda.maxDepth /\ depth <= rule.maxDepth
      /\ steps \in Nat
  BY <1>1 DEF Minimum
<1>3. charged = [agenda EXCEPT !.depth = agenda.depth + 1, !.maxDepth = depth, !.maxSteps = steps]
  BY DEF Charged
<1>. HIDE DEF depth, steps
<1>4. /\ DOMAIN charged = AgendaFields /\ charged.queue = agenda.queue
      /\ charged.depth = agenda.depth + 1 /\ charged.maxDepth = depth /\ charged.maxSteps = steps
      /\ charged.steps = agenda.steps
  BY <1>3 DEF AgendaFields
<1>5. /\ DOMAIN counted = AgendaFields /\ counted.queue = agenda.queue
      /\ counted.depth = charged.depth /\ counted.maxDepth = charged.maxDepth
      /\ counted.maxSteps = charged.maxSteps /\ counted.steps = charged.steps + n
  BY <1>4 DEF AgendaFields, Counted
<1>. QED BY <1>2, <1>4, <1>5

\* FireRule: charged within the budgets, or stopped with the budgets as they were kept.
LEMMA FireRuleCascade ==
  ASSUME WorldInv, CascadeInv, FireRule
  PROVE  CascadeInv'
<1>0. RunOK /\ DOMAIN run = RunFields /\ run.at = "cascade" /\ run.waiting # <<>>
  BY NotIdle DEF FireRule, RunOK
<1>1. CascadeOK(run)
  BY <1>0 DEF CascadeInv
<1>2. PICK rule, k, agenda : rule = Head(run.waiting) /\ k = Fired(run) /\ agenda = run.agenda
  OBVIOUS
<1>3. /\ rule \in EventRules /\ rule = run.waiting[1] /\ Len(run.waiting) \in Nat \ {0}
      /\ k \in Nat /\ Len(agenda.queue) = k + Len(run.waiting)
      /\ StandsAt(agenda, k, "queued")
      /\ agenda.queue[k + 1].rule = rule.id
      /\ WithinDepth(agenda.queue, k)
  BY <1>0, <1>1, <1>2, NextRule
<1>4. /\ DOMAIN agenda = AgendaFields /\ IsSequence(agenda.queue)
      /\ agenda.depth \in Nat /\ agenda.maxDepth \in Nat
      /\ agenda.steps \in Nat /\ agenda.maxSteps \in Nat
      /\ QueueNames(agenda.queue, run.cursor) /\ IsSequence(run.events)
      /\ run.waiting \in Seq(EventRules) /\ run.cursor \in Nat
      /\ \A i \in 1..Len(run.waiting) : agenda.queue[k + i].rule = run.waiting[i].id
      /\ agenda.depth = k /\ agenda.maxDepth <= AgendaDepth
      /\ \A i \in 1..k : \A q \in Module.rules :
            q.id = agenda.queue[i].rule => agenda.maxDepth <= q.maxDepth
  BY <1>0, <1>1, <1>2 DEF CascadeOK, CascadeTyped, QueueOK, BudgetOK
<1>5. PICK walk, n : walk = Walk(rule, rule.entry) /\ n = walk.count
  OBVIOUS
<1>6. n \in Nat
  BY <1>3, <1>5, EventWalk DEF WalkOK
<1>7. PICK charged, counted :
         charged = Charged(agenda, rule) /\ counted = Counted(charged, n)
  OBVIOUS
<1>8. /\ DOMAIN charged = AgendaFields /\ DOMAIN counted = AgendaFields
      /\ charged.queue = agenda.queue /\ counted.queue = agenda.queue
      /\ charged.depth = agenda.depth + 1 /\ counted.depth = charged.depth
      /\ charged.maxDepth \in Nat /\ counted.maxDepth = charged.maxDepth
      /\ charged.maxDepth <= agenda.maxDepth /\ charged.maxDepth <= rule.maxDepth
      /\ counted.maxSteps \in Nat /\ counted.steps \in Nat
  <2>1. /\ rule \in EventRules /\ DOMAIN agenda = AgendaFields
        /\ agenda.depth \in Nat /\ agenda.maxDepth \in Nat
        /\ agenda.maxSteps \in Nat /\ agenda.steps \in Nat
    BY <1>3, <1>4
  <2>2. DOMAIN charged = AgendaFields /\ DOMAIN counted = AgendaFields
    BY <1>6, <1>7, <2>1, ChargedIs
  <2>3. charged.queue = agenda.queue
    BY <1>6, <1>7, <2>1, ChargedIs
  <2>4. counted.queue = agenda.queue
    BY <1>6, <1>7, <2>1, ChargedIs
  <2>5. charged.depth = agenda.depth + 1
    BY <1>6, <1>7, <2>1, ChargedIs
  <2>6. counted.depth = charged.depth /\ counted.maxDepth = charged.maxDepth
    BY <1>6, <1>7, <2>1, ChargedIs
  <2>7. /\ charged.maxDepth \in Nat
        /\ charged.maxDepth <= agenda.maxDepth /\ charged.maxDepth <= rule.maxDepth
    BY <1>6, <1>7, <2>1, ChargedIs
  <2>8. counted.maxSteps \in Nat /\ counted.steps \in Nat
    BY <1>6, <1>7, <2>1, ChargedIs
  <2>. QED BY <2>2, <2>3, <2>4, <2>5, <2>6, <2>7, <2>8
<1>9. StandsAt(charged, k, "queued") /\ StandsAt(counted, k, "queued")
  BY <1>3, <1>8 DEF StandsAt
<1>10. \/ run' = [run EXCEPT !.at = "commit",
                    !.agenda = Stopped(Marked(charged, "failed"), "failed", rule, None)]
       \/ run' = [run EXCEPT !.at = "commit",
                    !.agenda = Stopped(Marked(counted, "failed"), "failed", rule, walk.cursor)]
       \/ /\ ~(charged.depth > charged.maxDepth)
          /\ ~(charged.depth <= charged.maxDepth /\ counted.steps > counted.maxSteps)
          /\ run' = [run EXCEPT !.at = "rule", !.todo = walk.effects,
                       !.agenda = Marked(counted, "running"),
                       !.events = Append(@, [type |-> "rule.triggered", effect |-> None])]
       \/ run' = Idle
  BY <1>2, <1>5, <1>7, Zenon DEF FireRule, Refuse, Charged, Counted
<1>11. ASSUME NEW before, before \in {charged, counted}, NEW step,
              run' = [run EXCEPT !.at = "commit",
                        !.agenda = Stopped(Marked(before, "failed"), "failed", rule, step)]
       PROVE  CascadeInv'
  <2>1. PICK marked : marked = Marked(before, "failed")
    OBVIOUS
  <2>2. StandsAt(before, k, "queued") /\ before.queue = agenda.queue
    BY <1>8, <1>9, <1>11
  <2>3. StandsAt(marked, k, "failed") /\ SameEntries(before.queue, marked.queue)
    BY <1>3, <2>1, <2>2, MarkedIs
  <2>4. QueueNames(marked.queue, run.cursor)
    BY <1>4, <2>2, <2>3, SameNames
  <2>5. /\ k + 1 \in 1..Len(agenda.queue) /\ 1..k \subseteq 1..Len(agenda.queue)
        /\ \A i \in 1..Len(agenda.queue) : marked.queue[i].rule = agenda.queue[i].rule
    BY <1>3, <2>2, <2>3 DEF SameEntries
  <2>6. marked.queue[k + 1].rule = rule.id /\ WithinDepth(marked.queue, k)
    BY <1>3, <2>5 DEF WithinDepth
  <2>7. PICK stopped : stopped = Stopped(marked, "failed", rule, step)
    OBVIOUS
  <2>8. run' = [run EXCEPT !.at = "commit", !.agenda = stopped]
    BY <1>11, <2>1, <2>7, Zenon
  <2>9. run'.at = "commit" /\ run'.agenda = stopped
    BY <1>0, <2>8 DEF RunFields
  <2>. QED BY <1>3, <2>3, <2>4, <2>6, <2>7, <2>9, StopCascade
<1>12. CASE /\ ~(charged.depth > charged.maxDepth)
            /\ ~(charged.depth <= charged.maxDepth /\ counted.steps > counted.maxSteps)
            /\ run' = [run EXCEPT !.at = "rule", !.todo = walk.effects,
                         !.agenda = Marked(counted, "running"),
                         !.events = Append(@, [type |-> "rule.triggered", effect |-> None])]
  <2>1. counted.depth <= counted.maxDepth /\ counted.steps <= counted.maxSteps /\ counted.depth = k + 1
    BY <1>3, <1>4, <1>8, <1>12, SMTT(20)
  <2>2. PICK marked, events :
           /\ marked = Marked(counted, "running")
           /\ events = Append(run.events, [type |-> "rule.triggered", effect |-> None])
    OBVIOUS
  <2>3. IsSequence(events)
    BY <1>4, <2>2, Appended
  <2>4. /\ StandsAt(marked, k, "running") /\ SameEntries(agenda.queue, marked.queue)
        /\ marked.depth = counted.depth /\ marked.maxDepth = counted.maxDepth
        /\ marked.steps = counted.steps /\ marked.maxSteps = counted.maxSteps
    BY <1>3, <1>8, <1>9, <2>2, MarkedIs
  <2>5. \E effects : run' = [run EXCEPT !.at = "rule", !.todo = effects, !.agenda = marked,
                                        !.events = events]
    BY <1>12, <2>2, Zenon
  <2>6. /\ run'.at = "rule" /\ run'.agenda = marked /\ run'.events = events
        /\ run'.cursor = run.cursor /\ run'.waiting = run.waiting
    BY <1>0, <2>5 DEF RunFields
  <2>7. /\ Len(marked.queue) = Len(agenda.queue)
        /\ \A i \in 1..Len(agenda.queue) : marked.queue[i].rule = agenda.queue[i].rule
    BY <2>4 DEF SameEntries
  <2>8. Fired(run') = k
    BY <1>2, <2>6, <2>7 DEF Fired
  <2>9. CascadeTyped(run')
    BY <1>4, <1>8, <2>1, <2>3, <2>4, <2>6 DEF CascadeTyped, StandsAt
  <2>10. QueueOK(run')
    <3>1. QueueNames(marked.queue, run.cursor)
      BY <1>4, <2>4, SameNames
    <3>2. \A i \in 1..Len(run.waiting) : k + i \in 1..Len(agenda.queue)
      BY <1>3
    <3>3. \A i \in 1..Len(run.waiting) : marked.queue[k + i].rule = run.waiting[i].id
      BY <1>4, <2>7, <3>2
    <3>4. /\ \A i \in 1..k : marked.queue[i].status = "completed"
          /\ marked.queue[k + 1].status = "running"
          /\ \A i \in k + 2..Len(marked.queue) : marked.queue[i].status = "queued"
      BY <2>4 DEF StandsAt
    <3>5. \A i \in k + 1..Len(marked.queue) :
             marked.queue[i].status = IF run'.at = "rule" /\ i = k + 1 THEN "running" ELSE "queued"
      BY <1>3, <2>6, <2>7, <3>4
    <3>6. Len(run.waiting) <= Len(marked.queue)
      BY <1>3, <2>7
    <3>. QED BY <2>6, <2>8, <3>1, <3>3, <3>4, <3>5, <3>6 DEF QueueOK
  <2>11. BudgetOK(run')
    <3>1. AgendaDepth \in Nat /\ \A q \in Module.rules : q.maxDepth \in Nat
      BY WorldAssumption, RulesAssumption
    <3>2. marked.maxDepth <= AgendaDepth /\ marked.maxDepth \in Nat
      BY <1>4, <1>8, <2>4, <3>1
    <3>3. ASSUME NEW i \in 1..k + 1, NEW q \in Module.rules, q.id = marked.queue[i].rule
          PROVE  marked.maxDepth <= q.maxDepth
      <4>1. i \in 1..Len(agenda.queue)
        BY <1>3
      <4>2. q.id = agenda.queue[i].rule
        BY <2>7, <3>3, <4>1
      <4>3. CASE i = k + 1
        <5>1. q = rule
          BY <1>3, <4>2, <4>3, RulesAssumption DEF EventRules
        <5>. QED BY <1>8, <2>4, <5>1
      <4>4. CASE i # k + 1
        <5>1. i \in 1..k
          BY <1>3, <4>4
        <5>2. agenda.maxDepth <= q.maxDepth
          BY <1>4, <4>2, <5>1
        <5>. QED BY <1>4, <1>8, <2>4, <3>1, <5>2
      <4>. QED BY <4>3, <4>4
    <3>. QED BY <2>1, <2>4, <2>6, <2>8, <3>2, <3>3 DEF BudgetOK
  <2>. QED BY <1>0, <2>6, <2>9, <2>10, <2>11 DEF CascadeInv, CascadeOK
<1>13. CASE run' = Idle
  BY <1>13 DEF CascadeInv, Idle
<1>. QED BY <1>10, <1>11, <1>12, <1>13

\* EndRule: the rule is completed, or the cascade stops at it.
LEMMA EndRuleCascade ==
  ASSUME WorldInv, CascadeInv, EndRule
  PROVE  CascadeInv'
<1>0. RunOK /\ DOMAIN run = RunFields /\ run.at = "rule" /\ run.waiting # <<>>
  BY NotIdle DEF EndRule, RunOK, CascadeInv
<1>1. CascadeOK(run)
  BY <1>0 DEF CascadeInv
<1>2. PICK rule, k, agenda : rule = Head(run.waiting) /\ k = Fired(run) /\ agenda = run.agenda
  OBVIOUS
<1>3. /\ Len(run.waiting) \in Nat \ {0} /\ k \in Nat /\ Len(agenda.queue) = k + Len(run.waiting)
      /\ StandsAt(agenda, k, "running")
      /\ agenda.queue[k + 1].rule = rule.id
      /\ WithinDepth(agenda.queue, k)
  BY <1>0, <1>1, <1>2, NextRule
<1>4. /\ DOMAIN agenda = AgendaFields /\ IsSequence(agenda.queue)
      /\ agenda.depth \in Nat /\ agenda.maxDepth \in Nat
      /\ agenda.steps \in Nat /\ agenda.maxSteps \in Nat
      /\ QueueNames(agenda.queue, run.cursor) /\ IsSequence(run.events)
      /\ run.waiting \in Seq(EventRules) /\ run.cursor \in Nat
      /\ \A i \in 1..Len(run.waiting) : agenda.queue[k + i].rule = run.waiting[i].id
      /\ agenda.depth = k + 1 /\ agenda.depth <= agenda.maxDepth /\ agenda.maxDepth <= AgendaDepth
      /\ agenda.steps <= agenda.maxSteps
      /\ \A i \in 1..k + 1 : \A q \in Module.rules :
            q.id = agenda.queue[i].rule => agenda.maxDepth <= q.maxDepth
  BY <1>0, <1>1, <1>2 DEF CascadeOK, CascadeTyped, QueueOK, BudgetOK
<1>5. PICK walk, status : walk = Walk(rule, rule.entry) /\ status = StatusOf(rule, walk)
  OBVIOUS
<1>6. run' = IF status = "stable"
             THEN [run EXCEPT !.at = "cascade", !.waiting = Tail(@), !.agenda = Marked(@, "completed")]
             ELSE [run EXCEPT !.at = "commit",
                     !.agenda = Stopped(IF status = "failed" THEN Marked(@, "failed") ELSE @,
                                        status, rule, walk.cursor)]
  BY <1>2, <1>5, Zenon DEF EndRule
<1>7. CASE status = "stable"
  <2>1. PICK marked, waiting : marked = Marked(agenda, "completed") /\ waiting = Tail(run.waiting)
    OBVIOUS
  <2>2. run' = [run EXCEPT !.at = "cascade", !.waiting = waiting, !.agenda = marked]
    BY <1>2, <1>6, <1>7, <2>1
  <2>3. /\ run'.at = "cascade" /\ run'.agenda = marked /\ run'.events = run.events
        /\ run'.cursor = run.cursor /\ run'.waiting = waiting
    BY <1>0, <2>2 DEF RunFields
  <2>4. /\ StandsAt(marked, k, "completed") /\ SameEntries(agenda.queue, marked.queue)
        /\ marked.depth = agenda.depth /\ marked.maxDepth = agenda.maxDepth
        /\ marked.steps = agenda.steps /\ marked.maxSteps = agenda.maxSteps
    <3>1. k \in Nat /\ StandsAt(agenda, k, "running") /\ marked = Marked(agenda, "completed")
      BY <1>3, <2>1
    <3>. QED BY ONLY <3>1, MarkedIs
  <2>5. /\ Len(marked.queue) = Len(agenda.queue)
        /\ \A i \in 1..Len(agenda.queue) : marked.queue[i].rule = agenda.queue[i].rule
    BY <2>4 DEF SameEntries
  <2>6. /\ waiting \in Seq(EventRules) /\ Len(waiting) = Len(run.waiting) - 1
        /\ \A i \in 1..Len(waiting) : waiting[i] = run.waiting[i + 1]
    BY <1>0, <1>4, <2>1
  <2>7. Fired(run') = k + 1
    <3>1. Fired(run') = Len(marked.queue) - Len(waiting)
      BY <2>3 DEF Fired
    <3>2. PICK m, n : m = Len(run.waiting) /\ n = Len(agenda.queue)
      OBVIOUS
    <3>3. m \in Nat /\ n = k + m /\ Fired(run') = n - (m - 1)
      BY <1>3, <2>5, <2>6, <3>1, <3>2
    <3>. QED BY <1>3, <3>3
  <2>8. CascadeTyped(run')
    BY <1>4, <2>3, <2>4, <2>6 DEF CascadeTyped, StandsAt
  <2>9. QueueOK(run')
    <3>1. QueueNames(marked.queue, run.cursor)
      BY <1>4, <2>4, SameNames
    <3>2. ASSUME NEW i \in 1..Len(waiting) PROVE marked.queue[k + 1 + i].rule = waiting[i].id
      <4>1. /\ i + 1 \in 1..Len(run.waiting) /\ k + (i + 1) \in 1..Len(agenda.queue)
            /\ k + 1 + i = k + (i + 1)
        BY <1>3, <2>6
      <4>2. agenda.queue[k + (i + 1)].rule = run.waiting[i + 1].id
        BY <1>4, <4>1
      <4>. QED BY <2>5, <2>6, <4>1, <4>2
    <3>3. /\ \A i \in 1..k : marked.queue[i].status = "completed"
          /\ marked.queue[k + 1].status = "completed"
          /\ \A i \in k + 2..Len(marked.queue) : marked.queue[i].status = "queued"
      BY <2>4 DEF StandsAt
    <3>4. \A i \in 1..k + 1 : marked.queue[i].status = "completed"
      <4>1. TAKE i \in 1..k + 1
      <4>2. i \in 1..k \/ i = k + 1
        BY <1>3
      <4>. QED BY <3>3, <4>2
    <3>5. \A i \in k + 1 + 1..Len(marked.queue) : marked.queue[i].status = "queued"
      BY <1>3, <3>3
    <3>6. Len(waiting) <= Len(marked.queue)
      BY <1>3, <2>5, <2>6
    <3>. QED BY <2>3, <2>7, <3>1, <3>2, <3>4, <3>5, <3>6 DEF QueueOK
  <2>10. BudgetOK(run')
    <3>1. \A i \in 1..k + 1 : i \in 1..Len(agenda.queue)
      BY <1>3
    <3>2. \A i \in 1..k + 1 : \A q \in Module.rules :
             q.id = marked.queue[i].rule => marked.maxDepth <= q.maxDepth
      BY <1>4, <2>4, <2>5, <3>1
    <3>. QED BY <1>4, <2>3, <2>4, <2>7, <3>2 DEF BudgetOK
  <2>. QED BY <2>3, <2>8, <2>9, <2>10 DEF CascadeInv, CascadeOK
<1>8. CASE status = "failed"
  <2>1. PICK marked : marked = Marked(agenda, "failed")
    OBVIOUS
  <2>2. PICK stopped : stopped = Stopped(marked, status, rule, walk.cursor)
    OBVIOUS
  <2>3. run' = [run EXCEPT !.at = "commit", !.agenda = stopped]
    BY <1>2, <1>6, <1>8, <2>1, <2>2
  <2>4. run'.at = "commit" /\ run'.agenda = stopped
    BY <1>0, <2>3 DEF RunFields
  <2>5. StandsAt(marked, k, "failed") /\ SameEntries(agenda.queue, marked.queue)
    BY <1>3, <2>1, MarkedIs
  <2>6. QueueNames(marked.queue, run.cursor)
    BY <1>4, <2>5, SameNames
  <2>7. /\ k + 1 \in 1..Len(agenda.queue) /\ 1..k \subseteq 1..Len(agenda.queue)
        /\ \A i \in 1..Len(agenda.queue) : marked.queue[i].rule = agenda.queue[i].rule
    BY <1>3, <2>5 DEF SameEntries
  <2>8. marked.queue[k + 1].rule = rule.id /\ WithinDepth(marked.queue, k)
    BY <1>3, <2>7 DEF WithinDepth
  <2>. QED BY <1>3, <1>8, <2>2, <2>4, <2>5, <2>6, <2>8, StopCascade
<1>9. CASE status # "stable" /\ status # "failed"
  <2>1. PICK stopped : stopped = Stopped(agenda, status, rule, walk.cursor)
    OBVIOUS
  <2>2. run' = [run EXCEPT !.at = "commit", !.agenda = stopped]
    BY <1>2, <1>6, <1>9, <2>1
  <2>3. run'.at = "commit" /\ run'.agenda = stopped
    BY <1>0, <2>2 DEF RunFields
  <2>4. StandsAt(agenda, k, IF status = "failed" THEN "failed" ELSE "running")
    BY <1>3, <1>9
  <2>5. /\ QueueNames(agenda.queue, run.cursor) /\ status # "stable"
        /\ (status # "failed" => agenda.depth <= agenda.maxDepth /\ agenda.steps <= agenda.maxSteps)
    BY <1>4, <1>9
  <2>6. /\ k \in Nat /\ WithinDepth(agenda.queue, k) /\ agenda.queue[k + 1].rule = rule.id
        /\ run'.at = "commit" /\ run'.agenda = Stopped(agenda, status, rule, walk.cursor)
    BY <1>3, <2>1, <2>3
  <2>. QED BY <2>4, <2>5, <2>6, StopCascade, Zenon
<1>. QED BY <1>7, <1>8, <1>9

\* The agenda that is kept accounts for itself.
LEMMA CommitAccounts ==
  ASSUME WorldInv, CascadeInv, GameAccounted, Commit
  PROVE  CascadeInv' /\ GameAccounted'
<1>0. RunOK /\ DOMAIN run = RunFields /\ run.at \in {"commit", "cascade"}
      /\ (run.at = "cascade" => run.waiting = <<>>)
  BY NotIdle DEF Commit, RunOK
<1>1. PICK agenda :
         agenda = IF run.at = "commit" THEN run.agenda ELSE [run.agenda EXCEPT !.status = "stable"]
  OBVIOUS
<1>2. /\ game' = IF agenda.queue = <<>> THEN run.draft ELSE [run.draft EXCEPT !.agendas = <<agenda>>]
      /\ run' = Idle
  BY <1>1, Zenon DEF Commit
<1>3. DOMAIN run.draft = StateFields /\ run.draft.agendas = game.agendas
  BY <1>0 DEF RunOK, StateOK
<1>4. Accounted(agenda)
  <2>1. CASE run.at = "commit"
    BY <1>1, <2>1 DEF CascadeInv
  <2>2. CASE run.at = "cascade"
    <3>1. CascadeOK(run) /\ run.waiting = <<>> /\ Len(run.waiting) = 0
      BY <1>0, <2>2, NothingIsSequence DEF CascadeInv
    <3>2. /\ DOMAIN run.agenda = AgendaFields /\ IsSequence(run.agenda.queue)
          /\ run.agenda.maxDepth \in Nat
      BY <3>1 DEF CascadeOK, CascadeTyped
    <3>3. PICK n : n = Len(run.agenda.queue)
      OBVIOUS
    <3>4. n \in Nat
      BY <3>2, <3>3, SequenceOf DEF IsSequence
    <3>5. Fired(run) = n
      BY <3>1, <3>3, <3>4 DEF Fired
    <3>6. agenda = [run.agenda EXCEPT !.status = "stable"]
      BY <1>1, <2>2
    <3>7. /\ agenda.queue = run.agenda.queue /\ agenda.status = "stable"
          /\ agenda.depth = run.agenda.depth /\ agenda.maxDepth = run.agenda.maxDepth
          /\ agenda.steps = run.agenda.steps /\ agenda.maxSteps = run.agenda.maxSteps
      BY <3>2, <3>6 DEF AgendaFields
    <3>8. /\ QueueNames(agenda.queue, run.cursor)
          /\ \A i \in 1..n : agenda.queue[i].status = "completed"
      BY <3>1, <3>5, <3>7 DEF CascadeOK, QueueOK
    <3>9. /\ agenda.depth = n /\ agenda.depth <= agenda.maxDepth /\ agenda.maxDepth <= AgendaDepth
          /\ agenda.steps <= agenda.maxSteps
          /\ \A i \in 1..n : \A q \in Module.rules :
                q.id = agenda.queue[i].rule => agenda.maxDepth <= q.maxDepth
      BY <2>2, <3>1, <3>5, <3>7 DEF CascadeOK, BudgetOK
    <3>10. WithinDepth(agenda.queue, n)
      <4>1. AgendaDepth \in Nat /\ \A r \in Module.rules : r.maxDepth \in Nat
        BY WorldAssumption, RulesAssumption
      <4>2. agenda.maxDepth \in Nat
        BY <3>2, <3>7
      <4>3. n <= AgendaDepth
        BY <3>4, <3>9, <4>1, <4>2
      <4>4. ASSUME NEW i \in 1..n, NEW r \in Module.rules, r.id = agenda.queue[i].rule
            PROVE  n <= r.maxDepth
        <5>1. agenda.maxDepth <= r.maxDepth
          BY <3>9, <4>4
        <5>. QED BY <3>4, <3>9, <4>1, <4>2, <5>1
      <4>. QED BY <4>3, <4>4 DEF WithinDepth
    <3>11. InBudget(agenda)
      BY <3>9 DEF InBudget
    <3>12. IsSequence(agenda.queue) /\ Len(agenda.queue) = n
      BY <3>2, <3>3, <3>7
    <3>. QED BY <3>7, <3>8, <3>10, <3>11, <3>12, RestAccounts
  <2>. QED BY <1>0, <2>1, <2>2
<1>5. game'.agendas = game.agendas \/ game'.agendas = <<agenda>>
  <2>1. PICK news : news = <<agenda>>
    OBVIOUS
  <2>2. game' = run.draft \/ game' = [run.draft EXCEPT !.agendas = news]
    BY <1>2, <2>1
  <2>. QED BY <1>3, <2>1, <2>2 DEF StateFields
<1>6. PICK news : news = <<agenda>>
  OBVIOUS
<1>7. \A n \in DOMAIN news : news[n] = agenda
  BY <1>6
<1>8. \A n \in DOMAIN game'.agendas : Accounted(game'.agendas[n])
  <2>1. CASE game'.agendas = game.agendas
    BY <2>1 DEF GameAccounted
  <2>2. CASE game'.agendas = news
    BY <1>4, <1>7, <2>2, Zenon
  <2>. QED BY <1>5, <1>6, <2>1, <2>2
<1>9. CascadeInv'
  BY <1>2 DEF CascadeInv, Idle
<1>. QED BY <1>8, <1>9 DEF GameAccounted

\* Between commits the committed state stands.
LEMMA GameStands ==
  ASSUME GameAccounted, game' = game
  PROVE  GameAccounted'
BY Zenon DEF GameAccounted

\* A cascade that no step touches stands.
LEMMA CascadeStands ==
  ASSUME CascadeInv, run' = run
  PROVE  CascadeInv'
BY Zenon DEF CascadeInv

-----------------------------------------------------------------------------
(* What a step does to the draft and to the game. *)

\* The steps of a transaction, by what they do to its draft.
Begins == run = Idle /\ run' # Idle /\ game' = game /\ run'.draft = game
Applies ==
  /\ RunOK /\ game' = game /\ run' # Idle
  /\ SoundAt(LocationIds(run.draft), Head(run.todo))
  /\ Apply(run.draft, run.adj.actor, Head(run.todo)).ok
  /\ run'.draft = Apply(run.draft, run.adj.actor, Head(run.todo)).state
Stands == game' = game /\ (run' = Idle \/ (run # Idle /\ run' # Idle /\ run'.draft = run.draft))
Commits ==
  /\ RunOK /\ run' = Idle
  /\ game' = run.draft \/ \E news : game' = [run.draft EXCEPT !.agendas = news]

\* Every step of the world is one of these.
LEMMA DraftMoves ==
  ASSUME WorldInv, [DrivenNext]_vars
  PROVE  Begins \/ Applies \/ Stands \/ Commits
<1>1. CASE ApplyEffect
  <2>1. RunOK /\ DOMAIN run = RunFields /\ run.todo # <<>>
    BY <1>1, NotIdle DEF ApplyEffect, RunOK
  <2>2. SoundAt(LocationIds(run.draft), Head(run.todo))
    BY <2>1, GroundedHead DEF RunOK
  <2>. DEFINE a == run.adj.actor
              result == Apply(run.draft, a, Head(run.todo))
              events == Emitted(run.events, result.event, Head(run.todo))
              rest == Tail(run.todo)
  <2>3. \/ game' = game /\ run' = Idle
        \/ /\ result.ok /\ game' = game
           /\ run' = [run EXCEPT !.draft = result.state, !.todo = rest, !.events = events]
    BY <1>1 DEF ApplyEffect, Accept, Refuse
  <2>. HIDE DEF result, events, rest
  <2>4. CASE game' = game /\ run' = Idle
    BY <2>4 DEF Stands
  <2>5. CASE /\ result.ok /\ game' = game
             /\ run' = [run EXCEPT !.draft = result.state, !.todo = rest, !.events = events]
    <3>1. run'.draft = result.state /\ run'.at = run.at
      BY <2>1, <2>5 DEF RunFields
    <3>2. run' # Idle
      BY <2>1, <3>1 DEF Idle, RunOK
    <3>. QED BY <2>1, <2>2, <2>5, <3>1, <3>2 DEF Applies, result
  <2>. QED BY <2>3, <2>4, <2>5
<1>2. CASE Conclude \/ ReadEvent \/ FireRule \/ EndRule
  <2>0. RunOK /\ DOMAIN run = RunFields
    BY <1>2, NotIdle DEF Conclude, ReadEvent, FireRule, EndRule, RunOK
  <2>1. game' = game
    BY <1>2, Zenon DEF Conclude, ReadEvent, FireRule, EndRule, Refuse
  <2>2. run' = Idle \/ (run'.draft = run.draft /\ run'.at \in {"effects", "cascade", "rule", "commit"})
    <3>1. CASE Conclude
      <4>1. \E events : run' = [run EXCEPT !.at = "cascade", !.events = events]
        BY <3>1 DEF Conclude
      <4>. QED BY <2>0, <4>1 DEF RunFields
    <3>2. CASE ReadEvent
      <4>1. \E cursor, rules, queue :
               run' = [run EXCEPT !.cursor = cursor, !.waiting = rules, !.agenda.queue = queue]
        BY <3>2 DEF ReadEvent
      <4>. QED BY <2>0, <4>1 DEF RunFields, RunOK
    <3>3. CASE FireRule
      <4>1. \/ run' = Idle
            \/ \E agenda : run' = [run EXCEPT !.at = "commit", !.agenda = agenda]
            \/ \E agenda, events, effects :
                 run' = [run EXCEPT !.at = "rule", !.todo = effects, !.agenda = agenda, !.events = events]
        BY <3>3, Zenon DEF FireRule, Refuse
      <4>. QED BY <2>0, <4>1 DEF RunFields
    <3>4. CASE EndRule
      <4>1. \/ \E waiting, agenda :
                 run' = [run EXCEPT !.at = "cascade", !.waiting = waiting, !.agenda = agenda]
            \/ \E agenda : run' = [run EXCEPT !.at = "commit", !.agenda = agenda]
        BY <3>4 DEF EndRule
      <4>. QED BY <2>0, <4>1 DEF RunFields
    <3>. QED BY <1>2, <3>1, <3>2, <3>3, <3>4
  <2>3. run # Idle /\ (run' # Idle \/ run' = Idle)
    BY <2>0 DEF Idle, RunOK
  <2>. QED BY <2>1, <2>2, <2>3 DEF Stands
<1>3. CASE Commit
  <2>1. RunOK
    BY <1>3, NotIdle DEF Commit
  <2>2. run' = Idle
    BY <1>3 DEF Commit
  <2>3. game' = run.draft \/ \E news : game' = [run.draft EXCEPT !.agendas = news]
    BY <1>3, Zenon DEF Commit
  <2>. QED BY <2>1, <2>2, <2>3 DEF Commits
<1>4. ASSUME NEW adj, NEW result, Submit(adj) \/ Resolve(adj, result) PROVE Begins
  <2>1. run = Idle /\ game' = game /\ \E effects, d : run' = Begun(adj, d, effects)
    BY <1>4 DEF Submit, Resolve
  <2>2. run'.draft = game /\ run'.at = "effects"
    BY <2>1 DEF Begun
  <2>. QED BY <2>1, <2>2 DEF Begins, Idle
<1>5. ASSUME game' = game, run' = run PROVE Stands
  BY <1>5 DEF Stands
<1>6. ASSUME NEW adj, SubmitChecked(adj) \/ Cancel(adj) PROVE Stands
  BY <1>5, <1>6 DEF SubmitChecked, Cancel
<1>7. CASE UNCHANGED vars
  BY <1>5, <1>7 DEF vars
<1>. QED BY <1>1, <1>2, <1>3, <1>4, <1>6, <1>7 DEF DrivenNext

-----------------------------------------------------------------------------
(* How the party gets where it is: along ways that are open.               *)

\* A path of n steps along the edges.
Trail(edges, from, n, p) ==
  /\ IsSequence(p) /\ Len(p) = n + 1 /\ p[1] = from
  /\ \A i \in 1..n : \E e \in edges : e.from = p[i] /\ e.to = p[i + 1]

\* To extend trails gives trails of one step more.
LEMMA ExtendedTrail ==
  ASSUME NEW edges, NEW from, NEW n \in Nat, NEW P, \A p \in P : Trail(edges, from, n, p)
  PROVE  \A q \in Extended(edges, P) : Trail(edges, from, n + 1, q)
<1>1. SUFFICES ASSUME NEW q \in Extended(edges, P) PROVE Trail(edges, from, n + 1, q)
  OBVIOUS
<1>2. PICK p \in P, e \in edges : q = Append(p, e.to) /\ e.from = End(p)
  BY DEF Extended
<1>3. IsSequence(p) /\ Len(p) = n + 1 /\ p[1] = from
      /\ \A i \in 1..n : \E f \in edges : f.from = p[i] /\ f.to = p[i + 1]
  BY DEF Trail
<1>. DEFINE to == e.to
<1>4. e.from = p[n + 1] /\ q = Append(p, to)
  BY <1>2, <1>3 DEF End
<1>. HIDE DEF to
<1>5. IsSequence(q) /\ Len(q) = n + 2 /\ q[n + 2] = to /\ \A i \in 1..n + 1 : q[i] = p[i]
  BY <1>3, <1>4, Appended
<1>6. ASSUME NEW i \in 1..n + 1 PROVE \E f \in edges : f.from = q[i] /\ f.to = q[i + 1]
  <2>1. CASE i = n + 1
    <3>1. e.from = q[i] /\ e.to = q[i + 1]
      BY <1>4, <1>5, <2>1 DEF to
    <3>. QED BY <3>1
  <2>2. CASE i # n + 1
    <3>1. i \in 1..n /\ i + 1 \in 1..n + 1
      BY <2>2
    <3>. QED BY <1>3, <1>5, <3>1
  <2>. QED BY <2>1, <2>2
<1>7. n + 2 = (n + 1) + 1 /\ 1 \in 1..n + 1
  OBVIOUS
<1>8. Len(q) = (n + 1) + 1 /\ q[1] = from
  BY <1>3, <1>5, <1>7
<1>. QED BY <1>5, <1>6, <1>8 DEF Trail

\* What grows along the edges in n steps are trails of n steps.
LEMMA GrowingTrail ==
  ASSUME NEW edges, NEW from, NEW N \in Nat, NEW f, Growing(edges, from, f, N)
  PROVE  \A n \in 0..N : \A p \in f[n] : Trail(edges, from, n, p)
<1>. DEFINE G == {n \in 0..N : \A p \in f[n] : Trail(edges, from, n, p)}
<1>1. \A n \in 0..N : f[n] = IF n = 0 THEN {<<from>>} ELSE Extended(edges, f[n - 1])
  BY DEF Growing
<1>2. 0 \in G
  <2>1. f[0] = {<<from>>}
    BY <1>1
  <2>2. <<from>> \in Seq({from}) /\ Len(<<from>>) = 1 /\ <<from>>[1] = from
    OBVIOUS
  <2>3. IsSequence(<<from>>)
    BY <2>2, SequenceOf, Zenon
  <2>4. 1..0 = {} /\ 0 + 1 = 1
    OBVIOUS
  <2>5. Trail(edges, from, 0, <<from>>)
    BY <2>2, <2>3, <2>4 DEF Trail
  <2>. QED BY <2>1, <2>5
<1>3. ASSUME NEW m \in 0..N, m < N, m \in G PROVE m + 1 \in G
  <2>1. m + 1 \in 0..N /\ m + 1 # 0 /\ (m + 1) - 1 = m
    BY <1>3
  <2>2. f[m + 1] = Extended(edges, f[m])
    BY <1>1, <2>1
  <2>. QED BY <1>3, <2>1, <2>2, ExtendedTrail
<1>4. \A n \in 0..N : n \in G
  <2>. HIDE DEF G
  <2>. QED BY <1>2, <1>3, StepByStep
<1>. QED BY <1>4

\* A shortest path is a trail to where it should lead, with no more steps than
\* there are places.
LEMMA ShortestTrail ==
  ASSUME NEW ids, IsFiniteSet(ids), NEW edges, IsFiniteSet(edges), \A e \in edges : e.to \in ids,
         NEW from \in ids, NEW to, NEW p \in ShortestPaths(edges, from, to)
  PROVE  \E n \in 0..Cardinality(ids) : Trail(edges, from, n, p) /\ End(p) = to
<1>. DEFINE places == {from} \cup {e.to : e \in edges}
            N == Cardinality(places)
            f == CHOOSE f : Growing(edges, from, f, N)
            ending == [n \in DOMAIN f |-> {q \in f[n] : End(q) = to}]
            lengths == {n \in DOMAIN ending : ending[n] # {}}
            least == CHOOSE n \in lengths : \A m \in lengths : n <= m
<1>1. N \in Nat /\ Cardinality(ids) \in Nat /\ N <= Cardinality(ids)
  <2>1. places \subseteq ids
    OBVIOUS
  <2>. HIDE DEF places
  <2>. QED BY <2>1, FS_Subset, FS_CardinalityType
<1>. HIDE DEF N
<1>2. Growing(edges, from, f, N)
  BY <1>1, GrowingExists
<1>3. ShortestPaths(edges, from, to) = IF lengths = {} THEN {} ELSE ending[least]
  BY DEF ShortestPaths, Growing, N
<1>. HIDE DEF f
<1>4. DOMAIN f = 0..N
  BY <1>2 DEF Growing
<1>5. lengths # {} /\ lengths \subseteq 0..N
  BY <1>3, <1>4
<1>6. least \in lengths
  <2>. HIDE DEF lengths
  <2>1. \E n \in lengths : \A m \in lengths : n <= m
    BY <1>1, <1>5, SmallestNumber
  <2>. QED BY <2>1
<1>7. least \in 0..N /\ p \in f[least] /\ End(p) = to
  <2>1. p \in ending[least]
    <3>. HIDE DEF ending, least, lengths
    <3>. QED BY <1>3, <1>5
  <2>. HIDE DEF least
  <2>. QED BY <1>4, <1>5, <1>6, <2>1
<1>. HIDE DEF least
<1>8. Trail(edges, from, least, p) /\ least \in 0..Cardinality(ids)
  BY <1>1, <1>2, <1>7, GrowingTrail
<1>. QED BY <1>7, <1>8

\* The places reached in each number of steps.
Reaching(ways, from, r, N) ==
  r = [k \in 0..N |-> IF k = 0 THEN {from} ELSE Onward(ways, r[k - 1])]

\* What is reached is the function its definition chooses.
LEMMA ReachingExists ==
  ASSUME NEW ways, NEW from, NEW N \in Nat
  PROVE  \E r : Reaching(ways, from, r, N)
<1>. DEFINE G == {m \in 0..N : \E r : Reaching(ways, from, r, m)}
<1>1. 0 \in G
  <2>. DEFINE r == [k \in 0..0 |-> {from}]
  <2>1. Reaching(ways, from, r, 0)
    BY DEF Reaching
  <2>. QED BY <2>1
<1>2. ASSUME NEW m \in 0..N, m < N, m \in G PROVE m + 1 \in G
  <2>1. PICK r : Reaching(ways, from, r, m)
    BY <1>2
  <2>. DEFINE v == [n \in 0..m + 1 |-> IF n = m + 1 THEN Onward(ways, r[m]) ELSE r[n]]
  <2>2. \A n \in 0..m : v[n] = r[n]
    OBVIOUS
  <2>3. v[m + 1] = Onward(ways, r[m])
    OBVIOUS
  <2>4. \A n \in 0..m : r[n] = IF n = 0 THEN {from} ELSE Onward(ways, r[n - 1])
    BY <2>1 DEF Reaching
  <2>5. \A n \in 0..m + 1 : v[n] = IF n = 0 THEN {from} ELSE Onward(ways, v[n - 1])
    <3>. HIDE DEF v
    <3>1. TAKE n \in 0..m + 1
    <3>2. CASE n = m + 1
      BY <2>2, <2>3, <3>2
    <3>3. CASE n # m + 1
      <4>1. n \in 0..m /\ (n # 0 => n - 1 \in 0..m)
        BY <3>3
      <4>. QED BY <2>2, <2>4, <4>1
    <3>. QED BY <3>2, <3>3
  <2>6. v = [n \in 0..m + 1 |-> v[n]]
    OBVIOUS
  <2>8. \E u : Reaching(ways, from, u, m + 1)
    <3>. HIDE DEF v
    <3>1. v = [n \in 0..m + 1 |-> IF n = 0 THEN {from} ELSE Onward(ways, v[n - 1])]
      BY <2>5, <2>6
    <3>2. Reaching(ways, from, v, m + 1)
      BY <3>1 DEF Reaching
    <3>. QED BY <3>2
  <2>9. m + 1 \in 0..N
    BY <1>2
  <2>. HIDE DEF v
  <2>. QED BY <2>8, <2>9
<1>3. N \in G
  <2>. HIDE DEF G
  <2>. QED BY <1>1, <1>2, StepByStep
<1>. QED BY <1>3

\* A path of no more than n steps, each along a way, ends where n steps reach.
LEMMA TrailReaches ==
  ASSUME NEW ways, NEW from, NEW N \in Nat, NEW n \in 0..N, NEW p, Len(p) = n + 1, p[1] = from,
         \A i \in 1..n : <<p[i], p[i + 1]>> \in ways
  PROVE  End(p) \in ReachableBy(ways, from, N)
<1>. DEFINE r == CHOOSE r : Reaching(ways, from, r, N)
<1>0. Reaching(ways, from, r, N)
  BY ReachingExists
<1>1. ReachableBy(ways, from, N) = r[N]
  BY Zenon DEF Reaching, ReachableBy
<1>. HIDE DEF r
<1>2. \A k \in 0..N : r[k] = IF k = 0 THEN {from} ELSE Onward(ways, r[k - 1])
  <2>1. r = [k \in 0..N |-> IF k = 0 THEN {from} ELSE Onward(ways, r[k - 1])]
    BY <1>0, Zenon DEF Reaching
  <2>. QED BY <2>1
<1>o. \A S, w : S \subseteq Onward(ways, S) /\ (w \in ways /\ w[1] \in S => w[2] \in Onward(ways, S))
  BY DEF Onward
<1>. DEFINE at(k) == IF k < n THEN k + 1 ELSE n + 1
            G == {k \in 0..N : p[at(k)] \in r[k]}
<1>3. 0 \in G
  <2>1. at(0) = 1
    OBVIOUS
  <2>2. r[0] = {from}
    BY <1>2
  <2>. HIDE DEF at
  <2>. QED BY <2>1, <2>2
<1>4. ASSUME NEW k \in 0..N, k < N, k \in G PROVE k + 1 \in G
  <2>1. k + 1 \in 0..N /\ r[k + 1] = Onward(ways, r[k])
    <3>1. k + 1 \in 0..N /\ k + 1 # 0 /\ (k + 1) - 1 = k
      BY <1>4
    <3>. QED BY <1>2, <3>1
  <2>2. p[at(k)] \in r[k]
    BY <1>4
  <2>3. CASE k < n
    <3>1. at(k) = k + 1 /\ at(k + 1) = k + 2 /\ k + 1 \in 1..n
      BY <2>3
    <3>. DEFINE w == <<p[k + 1], p[(k + 1) + 1]>>
    <3>0. (k + 1) + 1 = k + 2
      OBVIOUS
    <3>2. w \in ways /\ w[1] = p[k + 1] /\ w[2] = p[k + 2]
      BY <3>0, <3>1
    <3>. HIDE DEF w, at
    <3>3. p[k + 1] \in r[k]
      BY <2>2, <3>1
    <3>4. p[k + 2] \in Onward(ways, r[k])
      BY <1>o, <3>2, <3>3
    <3>5. p[at(k + 1)] \in r[k + 1]
      BY <2>1, <3>1, <3>4
    <3>. QED BY <2>1, <3>5
  <2>4. CASE ~(k < n)
    <3>1. at(k) = n + 1 /\ at(k + 1) = n + 1
      BY <2>4
    <3>. HIDE DEF at
    <3>2. p[n + 1] \in r[k]
      BY <2>2, <3>1
    <3>3. p[n + 1] \in Onward(ways, r[k])
      BY <1>o, <3>2
    <3>4. p[at(k + 1)] \in r[k + 1]
      BY <2>1, <3>1, <3>3
    <3>. QED BY <2>1, <3>4
  <2>. QED BY <2>3, <2>4
<1>5. N \in G
  <2>. HIDE DEF G
  <2>1. N \in 0..N
    OBVIOUS
  <2>. QED BY <1>3, <1>4, <2>1, StepByStep
<1>6. at(N) = n + 1
  OBVIOUS
<1>7. p[at(N)] \in r[N]
  BY <1>5
<1>. HIDE DEF at, G
<1>8. End(p) = p[n + 1]
  BY DEF End
<1>. QED BY <1>1, <1>6, <1>7, <1>8

\* A known way that can be passed is an open one.
LEMMA TraversableIsOpen ==
  ASSUME NEW s, NEW a, NEW knowledge, NEW e \in RouteEdges(s, a, knowledge), EdgeIsTraversable(s, a, e)
  PROVE  <<e.from, e.to>> \in OpenWay(s, a)
<1>1. e \in Module.edges \cup RuntimeEdges(s)
  BY DEF RouteEdges
<1>2. CASE e \in Module.edges
  BY <1>2 DEF EdgeIsTraversable, Met, OpenWay
<1>3. CASE e \in RuntimeEdges(s)
  BY <1>3 DEF OpenWay
<1>. QED BY <1>1, <1>2, <1>3

\* Of edges between the same places one is asked first.
LEMMA FirstAuthored ==
  ASSUME NEW B, B # {}
  PROVE  \E e \in B : \A f \in B \cap Module.edges : e \in Module.edges /\ e.id[2] <= f.id[2]
<1>1. CASE B \cap Module.edges = {}
  BY <1>1
<1>2. CASE B \cap Module.edges # {}
  <2>1. PICK g : g \in B \cap Module.edges
    BY <1>2
  <2>. DEFINE N == g.id[2]
              S == {n \in 0..N : \E e \in B \cap Module.edges : e.id[2] = n}
  <2>2. \A e \in Module.edges : e.id[2] \in Nat
    BY ModuleAssumption
  <2>3. N \in Nat /\ S \subseteq 0..N /\ S # {}
    BY <2>1, <2>2
  <2>4. PICK n \in S : \A m \in S : n <= m
    <3>. HIDE DEF S, N
    <3>. QED BY <2>3, SmallestNumber
  <2>5. PICK e \in B \cap Module.edges : e.id[2] = n
    BY <2>4
  <2>6. ASSUME NEW f \in B \cap Module.edges PROVE e.id[2] <= f.id[2]
    <3>. DEFINE m == f.id[2]
    <3>1. m \in Nat /\ n \in 0..N
      BY <2>2, <2>4
    <3>2. m \in 0..N => m \in S
      OBVIOUS
    <3>. HIDE DEF m, N, S
    <3>3. n <= m
      BY <2>3, <2>4, <3>1, <3>2
    <3>. QED BY <2>5, <3>3 DEF m
  <2>. QED BY <2>5, <2>6
<1>. QED BY <1>1, <1>2

\* Where a route is closed, the ways up to there are open.
LEMMA FrontierReached ==
  ASSUME NEW s, NEW a, NEW knowledge, NEW edges, edges = RouteEdges(s, a, knowledge),
         NEW N \in Nat, NEW n \in 0..N, NEW path, Trail(edges, s.scene, n, path)
  PROVE  End(Frontier(s, a, edges, path).path) \in ReachableBy(OpenWay(s, a), s.scene, N)
<1>. DEFINE Between(i) == {e \in edges : e.from = path[i] /\ e.to = path[i + 1]}
            First(i)   == CHOOSE e \in Between(i) :
                             \A f \in Between(i) \cap Module.edges :
                                e \in Module.edges /\ e.id[2] <= f.id[2]
            Before(e) == IF e.access # None THEN e.access ELSE e.id
            shut == {i \in 1..Len(path) - 1 : ~EdgeIsTraversable(s, a, First(i))}
            at == CHOOSE i \in shut : \A j \in shut : i <= j
<1>1. Frontier(s, a, edges, path) =
        IF shut = {} THEN Resolution("known_blocked", <<s.scene>>, "route")
        ELSE Resolution("known_blocked", SubSeq(path, 1, at), Before(First(at)))
  BY DEF Frontier
<1>0. IsSequence(path) /\ Len(path) = n + 1 /\ path[1] = s.scene
      /\ \A i \in 1..n : \E e \in edges : e.from = path[i] /\ e.to = path[i + 1]
  BY DEF Trail
<1>2. CASE shut = {}
  <2>1. Frontier(s, a, edges, path) = Resolution("known_blocked", <<s.scene>>, "route")
    BY <1>1, <1>2, Zenon
  <2>2. Frontier(s, a, edges, path).path = <<s.scene>>
    BY <2>1 DEF Resolution
  <2>. DEFINE here == s.scene
              p == <<here>>
  <2>3. Len(p) = 0 + 1 /\ p[1] = here /\ 0 \in 0..N
    OBVIOUS
  <2>4. \A i \in 1..0 : <<p[i], p[i + 1]>> \in OpenWay(s, a)
    OBVIOUS
  <2>. HIDE DEF here, p
  <2>5. End(p) \in ReachableBy(OpenWay(s, a), here, N)
    BY <2>3, <2>4, TrailReaches
  <2>. QED BY <2>2, <2>5 DEF here, p
<1>3. CASE shut # {}
  <2>1. n \in Nat /\ shut \subseteq 0..n
    BY <1>0
  <2>2. at \in shut /\ \A j \in shut : at <= j
    <3>. HIDE DEF shut
    <3>1. \E i \in shut : \A j \in shut : i <= j
      BY <1>3, <2>1, SmallestNumber
    <3>. QED BY <3>1
  <2>3. at \in 1..n
    <3>. HIDE DEF at
    <3>. QED BY <1>0, <2>2
  <2>. DEFINE p == SubSeq(path, 1, at)
              boundary == Before(First(at))
  <2>4. Frontier(s, a, edges, path).path = p
    <3>1. Frontier(s, a, edges, path) = Resolution("known_blocked", p, boundary)
      BY <1>1, <1>3, Zenon
    <3>. HIDE DEF p, boundary
    <3>. QED BY <3>1 DEF Resolution
  <2>. HIDE DEF at
  <2>5. Len(p) = (at - 1) + 1 /\ at - 1 \in 0..N /\ \A i \in 1..at : p[i] = path[i]
    BY <1>0, <2>3 DEF IsSequence
  <2>6. ASSUME NEW i \in 1..at - 1 PROVE <<path[i], path[i + 1]>> \in OpenWay(s, a)
    <3>1. i \in 1..n /\ i \in 1..Len(path) - 1 /\ ~(at <= i)
      BY <1>0, <2>3
    <3>2. EdgeIsTraversable(s, a, First(i))
      BY <2>2, <3>1
    <3>3. Between(i) # {}
      BY <1>0, <3>1
    <3>4. First(i) \in Between(i)
      <4>. HIDE DEF Between
      <4>1. \E e \in Between(i) : \A f \in Between(i) \cap Module.edges :
               e \in Module.edges /\ e.id[2] <= f.id[2]
        BY <3>3, FirstAuthored
      <4>. QED BY <4>1
    <3>. DEFINE e == First(i)
    <3>5. e \in edges /\ e.from = path[i] /\ e.to = path[i + 1]
      <4>. HIDE DEF First
      <4>. QED BY <3>4
    <3>. HIDE DEF First
    <3>6. <<e.from, e.to>> \in OpenWay(s, a)
      BY <3>2, <3>5, TraversableIsOpen
    <3>. QED BY <3>5, <3>6
  <2>. HIDE DEF p
  <2>7. \A i \in 1..at - 1 : <<p[i], p[i + 1]>> \in OpenWay(s, a)
    <3>1. TAKE i \in 1..at - 1
    <3>2. i \in 1..at /\ i + 1 \in 1..at
      BY <2>3, <3>1
    <3>. QED BY <2>5, <2>6, <3>2
  <2>8. p[1] = s.scene
    BY <1>0, <2>3, <2>5
  <2>9. End(p) \in ReachableBy(OpenWay(s, a), s.scene, N)
    BY <2>5, <2>7, <2>8, TrailReaches
  <2>. QED BY <2>4, <2>9
<1>. QED BY <1>2, <1>3

\* A route that is closed somewhere is known to be blocked.
LEMMA FrontierIsClosed ==
  ASSUME NEW s, NEW a, NEW edges, NEW path
  PROVE  Frontier(s, a, edges, path).status = "known_blocked"
<1>1. \E way, boundary : Frontier(s, a, edges, path) = Resolution("known_blocked", way, boundary)
  BY Zenon DEF Frontier
<1>. QED BY <1>1 DEF Resolution

\* The place a journey is resolved to, or where it stops, is reached along ways
\* that are open.
LEMMA ResolvedReached ==
  ASSUME NEW s, StateOK(s), NEW a, NEW l, NEW r, r = ResolveLocationTarget(s, a, l)
  PROVE  LET reached == ReachableBy(OpenWay(s, a), s.scene, Cardinality(LocationIds(s)))
         IN  /\ r.status = "known_reachable" => l \in reached
             /\ r.status = "known_blocked" => End(r.path) = s.scene \/ End(r.path) \in reached
<1>. DEFINE ids == LocationIds(s)
            N == Cardinality(ids)
            reached == ReachableBy(OpenWay(s, a), s.scene, N)
            knowledge == EffectiveKnowledge(s, a)
            edges == RouteEdges(s, a, knowledge)
            passable == {e \in edges : EdgeIsTraversable(s, a, e)}
            open == ShortestPaths(passable, s.scene, l)
            structural == ShortestPaths(edges, s.scene, l)
<1>1. s.scene \in ids /\ IsFiniteSet(ids) /\ N \in Nat
  <2>1. IsFiniteSet(Module.locations) /\ IsFiniteSet(DOMAIN s.runtimeLocations)
    BY ModuleAssumption DEF StateOK, PlacesOK
  <2>2. IsFiniteSet(LocationIds(s))
    BY <2>1, FS_Union DEF LocationIds
  <2>. QED BY <2>2, FS_CardinalityType DEF StateOK, PlacesOK
<1>2. IsFiniteSet(edges) /\ \A e \in edges : e.to \in ids
  BY RouteEdgesJoin
<1>3. IsFiniteSet(passable) /\ \A e \in passable : e.to \in ids
  BY <1>2, FS_Subset
<1>. HIDE DEF ids, N
<1>4. ASSUME NEW p \in open PROVE l \in reached
  <2>1. PICK n \in 0..N : Trail(passable, s.scene, n, p) /\ End(p) = l
    <3>. HIDE DEF passable
    <3>. QED BY <1>1, <1>3, ShortestTrail DEF N
  <2>2. Len(p) = n + 1 /\ p[1] = s.scene
        /\ \A i \in 1..n : \E e \in passable : e.from = p[i] /\ e.to = p[i + 1]
    BY <2>1 DEF Trail
  <2>3. \A i \in 1..n : <<p[i], p[i + 1]>> \in OpenWay(s, a)
    BY <2>2, TraversableIsOpen
  <2>. QED BY <1>1, <2>1, <2>2, <2>3, TrailReaches
<1>5. ASSUME NEW p \in structural PROVE End(Frontier(s, a, edges, p).path) \in reached
  <2>1. PICK n \in 0..N : Trail(edges, s.scene, n, p)
    BY <1>1, <1>2, ShortestTrail DEF N
  <2>. QED BY <1>1, <2>1, FrontierReached
<1>6. r = ResolvedAlong(s, a, l, knowledge, edges)
  BY DEF ResolveLocationTarget, ResolvedWith
<1>. HIDE DEF knowledge, edges, passable
<1>7. r = CASE l \notin LocationIds(s) -> Resolution("unsupported", <<>>, None)
            [] l \in LocationIds(s) /\ At(knowledge, l, Unknown).existence = "unknown" ->
                 Resolution(IF l \in Module.locations THEN "hidden_canon_collision"
                            ELSE "unsupported", <<>>, None)
            [] OTHER ->
                 IF knowledge[l].localization # "located" THEN Resolution("known_unlocated", <<>>, None)
                 ELSE IF open # {} THEN Resolution("known_reachable", CHOOSE p \in open : TRUE, None)
                 ELSE IF structural # {} THEN Frontier(s, a, edges, CHOOSE p \in structural : TRUE)
                 ELSE Resolution("known_blocked", <<s.scene>>, "route")
  BY <1>6, Zenon DEF ResolvedAlong, passable
<1>. HIDE DEF open, structural, reached
<1>8. \/ r.status \notin {"known_reachable", "known_blocked"}
      \/ r.status = "known_reachable" /\ open # {}
      \/ structural # {} /\ r = Frontier(s, a, edges, CHOOSE p \in structural : TRUE)
      \/ r.status = "known_blocked" /\ r.path = <<s.scene>>
  BY <1>7 DEF Resolution
<1>9. CASE structural # {} /\ r = Frontier(s, a, edges, CHOOSE p \in structural : TRUE)
  <2>1. PICK p \in structural : r = Frontier(s, a, edges, p)
    BY <1>9
  <2>2. End(r.path) \in reached
    BY <1>5, <2>1
  <2>3. r.status = "known_blocked"
    BY <2>1, FrontierIsClosed
  <2>. QED BY <2>2, <2>3 DEF reached, N, ids
<1>10. CASE r.status = "known_reachable" /\ open # {}
  BY <1>4, <1>10 DEF reached, N, ids
<1>11. CASE r.status = "known_blocked" /\ r.path = <<s.scene>>
  BY <1>11 DEF End
<1>12. CASE r.status \notin {"known_reachable", "known_blocked"}
  BY <1>12
<1>. QED BY <1>8, <1>9, <1>10, <1>11, <1>12

\* No other effect moves the party.
LEMMA SceneStays ==
  ASSUME NEW s, StateOK(s), NEW a, NEW e, e.type # "enter_location"
  PROVE  Apply(s, a, e).state.scene = s.scene
<1>. DEFINE t == Apply(s, a, e).state
<1>0. DOMAIN s = StateFields
  BY DEF StateOK
<1>1. ASSUME NEW id, NEW record PROVE Mutated(s, id, record).scene = s.scene
  BY <1>0 DEF Mutated, StateFields
<1>2. ApplyInformation(s, a, e).scene = s.scene
  BY <1>0 DEF ApplyInformation, StateFields
<1>3. ApplySetVisibility(s, a, e).scene = s.scene
  <2>. DEFINE u == [s EXCEPT !.override = Put(@, <<Scoped(a, e), e.kind, e.id>>, e.visible)]
  <2>1. DOMAIN u = StateFields /\ u.scene = s.scene
    BY <1>0 DEF StateFields
  <2>2. \/ ApplySetVisibility(s, a, e) = u
        \/ \E v : ApplySetVisibility(s, a, e) = [u EXCEPT !.actorPlaces = v]
        \/ \E v : ApplySetVisibility(s, a, e) = [u EXCEPT !.partyPlaces = v]
    <3>. DEFINE Seen(places) == Put(places, e.id, VisibilityKnowledge(e.visible, At(places, e.id, Unknown)))
                v1 == [u.actorPlaces EXCEPT ![a] = Seen(@)]
                v2 == Seen(u.partyPlaces)
    <3>1. CASE e.kind # "location"
      BY <3>1 DEF ApplySetVisibility
    <3>2. CASE e.kind = "location" /\ e.scope = "actor"
      <4>1. ApplySetVisibility(s, a, e) = [u EXCEPT !.actorPlaces = v1]
        BY <3>2, <2>1 DEF ApplySetVisibility
      <4>. QED BY <4>1, Zenon
    <3>3. CASE e.kind = "location" /\ e.scope # "actor"
      <4>1. ApplySetVisibility(s, a, e) = [u EXCEPT !.partyPlaces = v2]
        BY <3>3, <2>1 DEF ApplySetVisibility
      <4>. QED BY <4>1, Zenon
    <3>. QED BY <3>1, <3>2, <3>3
  <2>. HIDE DEF u
  <2>. QED BY <2>1, <2>2 DEF StateFields
<1>4. ApplyEnsureRuntimeLocation(s, e).scene = s.scene
  BY <1>0 DEF ApplyEnsureRuntimeLocation, StateFields
<1>5. ApplyEnsureRuntimeEntity(s, e).scene = s.scene
  BY <1>0 DEF ApplyEnsureRuntimeEntity, StateFields
<1>6. ApplyMoveEntity(s, e).state.scene = s.scene
  BY <1>0, <1>1 DEF ApplyMoveEntity, Done, Refused, StateFields
<1>7. ApplyChangeEntityState(s, e).scene = s.scene
  BY <1>0, <1>1 DEF ApplyChangeEntityState, StateFields
<1>8. ApplyConsumeEntity(s, e).scene = s.scene
  BY <1>0, <1>1 DEF ApplyConsumeEntity, StateFields
<1>9. /\ [s EXCEPT !.time = NextPoint(@)].scene = s.scene
      /\ [s EXCEPT !.coreResolved = TRUE].scene = s.scene
      /\ [s EXCEPT !.endingAvailable = e.available].scene = s.scene
  BY <1>0 DEF StateFields
<1>. QED BY <1>2, <1>3, <1>4, <1>5, <1>6, <1>7, <1>8, <1>9 DEF Apply, Done, Refused

\* An effect that moves the party moves it along open ways.
LEMMA AppliedTravel ==
  ASSUME NEW s, StateOK(s), NEW a, NEW e, NEW t, t = Apply(s, a, e).state, t.scene # s.scene
  PROVE  t.scene \in ReachableBy(OpenWay(s, a), s.scene, Cardinality(LocationIds(s)))
<1>. DEFINE r == ResolveLocationTarget(s, a, e.id)
            reached == ReachableBy(OpenWay(s, a), s.scene, Cardinality(LocationIds(s)))
<1>1. e.type = "enter_location"
  BY SceneStays
<1>2. Apply(s, a, e) = Travelled(s, a, e, r)
  BY <1>1 DEF Apply, ApplyEnterLocation
<1>3. /\ r.status = "known_reachable" => e.id \in reached
      /\ r.status = "known_blocked" => End(r.path) = s.scene \/ End(r.path) \in reached
  BY ResolvedReached
<1>. HIDE DEF r, reached
<1>4. DOMAIN s = StateFields
  BY DEF StateOK
<1>5. CASE r.status = "known_reachable"
  <2>1. \E places, context :
           Travelled(s, a, e, r).state = [s EXCEPT !.scene = e.id, !.partyPlaces = places, !.context = context]
    BY <1>5 DEF Travelled, Done
  <2>2. t.scene = e.id
    BY <1>2, <1>4, <2>1 DEF StateFields
  <2>. QED BY <1>3, <1>5, <2>2 DEF reached
<1>6. CASE r.status = "known_blocked"
  <2>. DEFINE end == End(r.path)
  <2>1. \E places, context :
           Travelled(s, a, e, r).state = [s EXCEPT !.scene = end, !.partyPlaces = places, !.context = context]
    BY <1>6 DEF Travelled, Done
  <2>. HIDE DEF end
  <2>2. t.scene = end
    BY <1>2, <1>4, <2>1 DEF StateFields
  <2>. QED BY <1>3, <1>6, <2>2 DEF reached, end
<1>7. CASE r.status \notin {"known_reachable", "known_blocked"}
  <2>1. t = s
    BY <1>2, <1>7 DEF Travelled, Refused
  <2>. QED BY <2>1
<1>. QED BY <1>5, <1>6, <1>7

\* What a step may not do: move the party where no open way leads.
TravelStep ==
  (run # Idle /\ run' # Idle /\ run'.draft.scene # run.draft.scene)
    => run'.draft.scene \in ReachableBy(OpenWay(run.draft, run.adj.actor), run.draft.scene,
                                       Cardinality(LocationIds(run.draft)))

\* A transaction moves the party only by applying an effect, along open ways.
LEMMA NextTravels ==
  ASSUME WorldInv, [DrivenNext]_vars
  PROVE  TravelStep
<1>1. SUFFICES ASSUME run # Idle, run' # Idle, run'.draft.scene # run.draft.scene PROVE TravelStep
  BY DEF TravelStep
<1>2. Applies
  BY <1>1, DraftMoves DEF Begins, Stands, Commits
<1>. DEFINE a == run.adj.actor
            result == Apply(run.draft, a, Head(run.todo))
<1>3. StateOK(run.draft) /\ run'.draft = result.state
  BY <1>2 DEF Applies, RunOK
<1>. HIDE DEF a
<1>4. run'.draft.scene \in ReachableBy(OpenWay(run.draft, a), run.draft.scene,
                                      Cardinality(LocationIds(run.draft)))
  BY <1>1, <1>3, AppliedTravel
<1>. QED BY <1>4 DEF TravelStep, a

-----------------------------------------------------------------------------
(* What was hidden from somebody is what is overridden for them. *)

Unseen(s, audience, l) ==
  LET key == <<audience, "location", l>>
  IN  key \in DOMAIN s.override /\ s.override[key] = FALSE

PlacesSeen(s, audience, places) ==
  \A l \in DOMAIN places : IF places[l].existence = "unknown" THEN Unseen(s, audience, l)
                           ELSE places[l].localization = "located"

ShownKnown(s, audience, places) ==
  \A l : LET key == <<audience, "location", l>>
         IN  key \in DOMAIN s.override =>
               \/ s.override[key] = FALSE
               \/ l \in DOMAIN places /\ places[l].existence # "unknown"

SeenOK(s) ==
  /\ PlacesSeen(s, Party, s.partyPlaces)
  /\ \A b \in Actors : /\ PlacesSeen(s, b, s.actorPlaces[b])
                       /\ ShownKnown(s, b, s.actorPlaces[b])

\* Whatever leaves the overrides and what is known of places alone.
LEMMA SeenLike ==
  ASSUME NEW s, SeenOK(s), NEW t, t.override = s.override, t.partyPlaces = s.partyPlaces,
         t.actorPlaces = s.actorPlaces
  PROVE  SeenOK(t)
BY DEF SeenOK, PlacesSeen, ShownKnown, Unseen

\* The party may learn of a place, and where it lies.
LEMMA SeenLearnt ==
  ASSUME NEW s, SeenOK(s), NEW t, t.override = s.override, t.actorPlaces = s.actorPlaces,
         NEW l, NEW access, NEW visited, NEW connections,
         t.partyPlaces = Put(s.partyPlaces, l, Known(access, visited, connections))
  PROVE  SeenOK(t)
<1>. DEFINE known == Known(access, visited, connections)
<1>1. known.existence = "known" /\ known.localization = "located"
  BY DEF Known
<1>. HIDE DEF known
<1>2. t.partyPlaces = Put(s.partyPlaces, l, known)
  BY DEF known
<1>3. PlacesSeen(t, Party, t.partyPlaces)
  BY <1>1, <1>2 DEF SeenOK, PlacesSeen, Unseen, Put
<1>. QED BY <1>3 DEF SeenOK, PlacesSeen, ShownKnown, Unseen

\* To show or hide something keeps the two in step.
LEMMA SeenVisibility ==
  ASSUME NEW s, StateOK(s), SeenOK(s), NEW a \in Actors, NEW e, e.visible \in BOOLEAN,
         Party \notin Actors
  PROVE  SeenOK(ApplySetVisibility(s, a, e))
<1>. DEFINE t == ApplySetVisibility(s, a, e)
            key == <<Scoped(a, e), e.kind, e.id>>
            over == Put(s.override, key, e.visible)
            u == [s EXCEPT !.override = over]
            Learnt(places) == VisibilityKnowledge(e.visible, At(places, e.id, Unknown))
            Seen(places) == Put(places, e.id, Learnt(places))
<1>0. DOMAIN s = StateFields /\ DOMAIN s.actorPlaces = Actors
  BY DEF StateOK, KnownOK
<1>1. /\ DOMAIN u = StateFields /\ u.override = over /\ u.partyPlaces = s.partyPlaces
      /\ u.actorPlaces = s.actorPlaces
  <2>. HIDE DEF over
  <2>. QED BY <1>0 DEF StateFields
<1>2. \A k : /\ k # key => (k \in DOMAIN over <=> k \in DOMAIN s.override) /\ (k \in DOMAIN s.override => over[k] = s.override[k])
             /\ k = key => k \in DOMAIN over /\ over[k] = e.visible
  <2>. HIDE DEF key
  <2>. QED BY DEF Put
<1>3. \A places : IF e.visible THEN Learnt(places).existence = "known" /\ Learnt(places).localization = "located"
                  ELSE Learnt(places).existence = "unknown"
  BY DEF VisibilityKnowledge, Known, Unknown
<1>. HIDE DEF over
<1>4. ASSUME NEW audience, NEW places, audience # Scoped(a, e) \/ e.kind # "location"
      PROVE  \A r : r.override = over =>
               /\ PlacesSeen(s, audience, places) => PlacesSeen(r, audience, places)
               /\ ShownKnown(s, audience, places) => ShownKnown(r, audience, places)
  <2>1. \A l : <<audience, "location", l>> # key
    BY <1>4
  <2>. HIDE DEF key
  <2>. QED BY <1>2, <2>1 DEF PlacesSeen, ShownKnown, Unseen
<1>5. ASSUME NEW audience, NEW places, audience = Scoped(a, e), e.kind = "location"
      PROVE  \A r : r.override = over =>
               /\ PlacesSeen(s, audience, places) => PlacesSeen(r, audience, Seen(places))
               /\ ShownKnown(s, audience, places) => ShownKnown(r, audience, Seen(places))
  <2>1. <<audience, "location", e.id>> = key /\ \A l : l # e.id => <<audience, "location", l>> # key
    BY <1>5
  <2>. DEFINE learnt == Learnt(places)
  <2>2. /\ DOMAIN Seen(places) = DOMAIN places \cup {e.id} /\ Seen(places)[e.id] = learnt
        /\ \A l \in DOMAIN places : l # e.id => Seen(places)[l] = places[l]
    BY DEF Put
  <2>3. IF e.visible THEN learnt.existence = "known" /\ learnt.localization = "located"
        ELSE learnt.existence = "unknown"
    BY <1>3
  <2>. HIDE DEF key, Seen, learnt
  <2>4. ASSUME NEW r, r.override = over, PlacesSeen(s, audience, places)
        PROVE  PlacesSeen(r, audience, Seen(places))
    BY <1>2, <2>1, <2>2, <2>3, <2>4 DEF PlacesSeen, Unseen
  <2>5. ASSUME NEW r, r.override = over, ShownKnown(s, audience, places)
        PROVE  ShownKnown(r, audience, Seen(places))
    BY <1>2, <2>1, <2>2, <2>3, <2>5 DEF ShownKnown
  <2>. QED BY <2>4, <2>5
<1>. HIDE DEF key, u, Seen, Learnt
<1>6. CASE e.kind # "location"
  <2>1. t = u
    BY <1>6 DEF ApplySetVisibility, u, over, key
  <2>. QED BY <1>1, <1>4, <1>6, <2>1 DEF SeenOK
<1>7. CASE e.kind = "location" /\ e.scope = "actor"
  <2>1. t = [u EXCEPT !.actorPlaces[a] = Seen(@)]
    BY <1>7 DEF ApplySetVisibility, u, over, key, Seen, Learnt
  <2>2. /\ t.override = over /\ t.partyPlaces = s.partyPlaces
        /\ t.actorPlaces = [s.actorPlaces EXCEPT ![a] = Seen(@)]
    BY <1>1, <2>1 DEF StateFields
  <2>3. Scoped(a, e) = a
    BY <1>7 DEF Scoped
  <2>4. PlacesSeen(t, Party, t.partyPlaces)
    BY <1>4, <2>2, <2>3 DEF SeenOK
  <2>5. ASSUME NEW b \in Actors
        PROVE  PlacesSeen(t, b, t.actorPlaces[b]) /\ ShownKnown(t, b, t.actorPlaces[b])
    <3>1. CASE b = a
      BY <1>0, <1>5, <1>7, <2>2, <2>3, <3>1 DEF SeenOK
    <3>2. CASE b # a
      BY <1>0, <1>4, <2>2, <2>3, <3>2 DEF SeenOK
    <3>. QED BY <3>1, <3>2
  <2>. QED BY <2>4, <2>5 DEF SeenOK
<1>8. CASE e.kind = "location" /\ e.scope # "actor"
  <2>1. t = [u EXCEPT !.partyPlaces = Seen(@)]
    BY <1>8 DEF ApplySetVisibility, u, over, key, Seen, Learnt
  <2>2. /\ t.override = over /\ t.partyPlaces = Seen(s.partyPlaces) /\ t.actorPlaces = s.actorPlaces
    BY <1>1, <2>1 DEF StateFields
  <2>3. Scoped(a, e) = Party
    BY <1>8 DEF Scoped
  <2>4. PlacesSeen(t, Party, t.partyPlaces)
    BY <1>5, <1>8, <2>2, <2>3 DEF SeenOK
  <2>5. ASSUME NEW b \in Actors
        PROVE  PlacesSeen(t, b, t.actorPlaces[b]) /\ ShownKnown(t, b, t.actorPlaces[b])
    <3>1. b # Scoped(a, e)
      BY <2>3
    <3>. QED BY <1>4, <2>2, <3>1 DEF SeenOK
  <2>. QED BY <2>4, <2>5 DEF SeenOK
<1>. QED BY <1>6, <1>7, <1>8
\* Nobody has overridden or learnt anything yet.
LEMMA SeenAtFirst == SeenOK(InitialState)
<1>1. /\ InitialState.override = Empty /\ InitialState.partyPlaces = Empty
      /\ InitialState.actorPlaces = [b \in Actors |-> Empty]
  BY DEF InitialState
<1>2. DOMAIN Empty = {}
  BY DEF Empty
<1>. QED BY <1>1, <1>2 DEF SeenOK, PlacesSeen, ShownKnown

\* What is accepted keeps the two in step.
LEMMA SeenApplied ==
  ASSUME NEW s, StateOK(s), SeenOK(s), NEW a \in Actors, NEW e, SoundAt(LocationIds(s), e),
         Apply(s, a, e).ok
  PROVE  SeenOK(Apply(s, a, e).state)
<1>. DEFINE t == Apply(s, a, e).state
            Same(u) == u.override = s.override /\ u.partyPlaces = s.partyPlaces
                       /\ u.actorPlaces = s.actorPlaces
<1>0. DOMAIN s = StateFields
  BY DEF StateOK
<1>1. CASE e.type = "set_visibility"
  <2>1. e.visible \in BOOLEAN /\ Party \notin Actors
    BY <1>1, WorldAssumption DEF SoundAt, WellFormed
  <2>2. t = ApplySetVisibility(s, a, e)
    BY <1>1 DEF Apply, Done
  <2>. QED BY <2>1, <2>2, SeenVisibility
<1>2. CASE e.type = "ensure_runtime_location"
  <2>. DEFINE places == [connected |-> e.connected, parent |-> e.parent]
              learnt == Put(s.partyPlaces, e.id, Known("reachable", FALSE, {}))
              hung == Put(s.runtimeLocations, e.id, places)
  <2>1. t = [s EXCEPT !.runtimeLocations = hung, !.partyPlaces = learnt]
    BY <1>2 DEF Apply, Done, ApplyEnsureRuntimeLocation
  <2>. HIDE DEF t
  <2>2. t.override = s.override /\ t.actorPlaces = s.actorPlaces /\ t.partyPlaces = learnt
    <3>. HIDE DEF hung, learnt
    <3>. QED BY <1>0, <2>1 DEF StateFields
  <2>3. SeenOK(t)
    BY <2>2, SeenLearnt
  <2>. QED BY <2>3 DEF t
<1>3. CASE e.type = "enter_location"
  <2>. DEFINE r == ResolveLocationTarget(s, a, e.id)
              previous == At(s.partyPlaces, e.id, Unknown)
  <2>1. Apply(s, a, e) = Travelled(s, a, e, r)
    BY <1>3 DEF Apply, ApplyEnterLocation
  <2>. HIDE DEF r
  <2>2. r.status \in {"known_reachable", "known_blocked"}
    BY <2>1 DEF Travelled, Refused
  <2>. HIDE DEF t
  <2>3. ASSUME NEW access, NEW visited, NEW scene, NEW context,
               t = [s EXCEPT !.scene = scene,
                             !.partyPlaces = Put(s.partyPlaces, e.id,
                                                 Known(access, visited, previous.connections)),
                             !.context = context]
        PROVE  SeenOK(t)
    <3>. DEFINE learnt == Put(s.partyPlaces, e.id, Known(access, visited, previous.connections))
    <3>1. t.override = s.override /\ t.actorPlaces = s.actorPlaces /\ t.partyPlaces = learnt
      <4>1. t = [s EXCEPT !.scene = scene, !.partyPlaces = learnt, !.context = context]
        BY <2>3
      <4>. HIDE DEF learnt
      <4>. QED BY <1>0, <4>1 DEF StateFields
    <3>. QED BY <3>1, SeenLearnt
  <2>. DEFINE freed == [b \in DOMAIN s.context \ {a} |-> s.context[b]]
              stuck == Put(s.context, a, [destination |-> e.id, at |-> End(r.path),
                                          boundary |-> r.boundary])
              Moved(access, visited, scene, context) ==
                [s EXCEPT !.scene = scene,
                          !.partyPlaces = Put(s.partyPlaces, e.id,
                                              Known(access, visited, previous.connections)),
                          !.context = context]
  <2>4. \/ t = Moved("reachable", TRUE, e.id, freed)
        \/ t = Moved("blocked", previous.visited, End(r.path), stuck)
    BY <2>1, <2>2 DEF Travelled, Done, t
  <2>. HIDE DEF freed, stuck
  <2>7. SeenOK(t)
    BY <2>3, <2>4
  <2>. QED BY <2>7 DEF t
<1>4. CASE e.type \notin {"set_visibility", "ensure_runtime_location", "enter_location"}
  <2>1. ASSUME NEW id, NEW record PROVE Same(Mutated(s, id, record)) /\ DOMAIN Mutated(s, id, record) = StateFields
    BY <1>0 DEF Mutated, StateFields
  <2>2. Same(ApplyInformation(s, a, e))
    BY <1>0 DEF ApplyInformation, StateFields
  <2>3. Same(ApplyEnsureRuntimeEntity(s, e))
    BY <1>0 DEF ApplyEnsureRuntimeEntity, StateFields
  <2>4. Same(ApplyMoveEntity(s, e).state)
    BY <1>0, <2>1 DEF ApplyMoveEntity, Done, Refused, StateFields
  <2>5. Same(ApplyChangeEntityState(s, e))
    BY <1>0, <2>1 DEF ApplyChangeEntityState, StateFields
  <2>6. Same(ApplyConsumeEntity(s, e))
    BY <1>0, <2>1 DEF ApplyConsumeEntity, StateFields
  <2>7. /\ Same([s EXCEPT !.time = NextPoint(@)]) /\ Same([s EXCEPT !.coreResolved = TRUE])
        /\ Same([s EXCEPT !.endingAvailable = e.available]) /\ Same(s)
    BY <1>0 DEF StateFields
  <2>. HIDE DEF Same
  <2>8. Same(t)
    BY <1>4, <2>2, <2>3, <2>4, <2>5, <2>6, <2>7 DEF Apply, Done, Refused
  <2>. HIDE DEF t
  <2>9. SeenOK(t)
    BY <2>8, SeenLike DEF Same
  <2>. QED BY <2>9 DEF t
<1>. QED BY <1>1, <1>2, <1>3, <1>4

\* What holds of the committed state and of the draft of a transaction.
SeenInv == SeenOK(game) /\ (run # Idle => SeenOK(run.draft))

\* Every step keeps the two in step.
LEMMA NextKeepsSeen ==
  ASSUME WorldInv, SeenInv, [DrivenNext]_vars
  PROVE  SeenInv'
<1>1. CASE Begins
  BY <1>1 DEF Begins, SeenInv
<1>2. CASE Applies
  <2>1. run # Idle /\ StateOK(run.draft) /\ run.adj.actor \in Actors
    BY <1>2, WorldAssumption DEF Applies, RunOK, AdjOK, Idle
  <2>2. SeenOK(run.draft)
    BY <2>1 DEF SeenInv
  <2>3. SeenOK(run'.draft)
    BY <1>2, <2>1, <2>2, SeenApplied DEF Applies
  <2>. QED BY <1>2, <2>3 DEF Applies, SeenInv
<1>3. CASE Stands
  BY <1>3 DEF Stands, SeenInv
<1>4. CASE Commits
  <2>1. run # Idle /\ DOMAIN run.draft = StateFields
    BY <1>4 DEF Commits, RunOK, Idle, StateOK
  <2>2. SeenOK(run.draft)
    BY <2>1 DEF SeenInv
  <2>3. game'.override = run.draft.override /\ game'.partyPlaces = run.draft.partyPlaces
        /\ game'.actorPlaces = run.draft.actorPlaces
    BY <1>4, <2>1 DEF Commits, StateFields
  <2>4. SeenOK(game')
    BY <2>2, <2>3, SeenLike
  <2>. QED BY <1>4, <2>4 DEF Commits, SeenInv
<1>. QED BY <1>1, <1>2, <1>3, <1>4, DraftMoves

-----------------------------------------------------------------------------
(* An exit that is shown leads to a place that is known and has a position. *)

\* What is known of places, and where they lie.
LocatedAt(knowledge) ==
  \A l \in DOMAIN knowledge : knowledge[l].existence # "unknown" => knowledge[l].localization = "located"

\* What is written over knowledge decides what is known.
Overlays(k, knowledge, explicit) ==
  /\ DOMAIN k = DOMAIN explicit \cup DOMAIN knowledge
  /\ \A l \in DOMAIN explicit : k[l].existence = explicit[l].existence
  /\ \A l \in DOMAIN knowledge \ DOMAIN explicit : k[l] = knowledge[l]
  /\ LocatedAt(knowledge) /\ LocatedAt(explicit) => LocatedAt(k)

\* That is what OverlaidAll does.
LEMMA OverlaidIs ==
  ASSUME NEW knowledge, NEW explicit
  PROVE  Overlays(OverlaidAll(knowledge, explicit), knowledge, explicit)
<1>. DEFINE over == [l \in DOMAIN explicit |-> Overlaid(At(knowledge, l, None), explicit[l])]
            k == OverlaidAll(knowledge, explicit)
<1>1. k = Over(over, knowledge)
  BY DEF OverlaidAll
<1>2. DOMAIN over = DOMAIN explicit
  OBVIOUS
<1>3. ASSUME NEW l \in DOMAIN explicit
      PROVE  /\ over[l].existence = explicit[l].existence
             /\ over[l].localization # explicit[l].localization => explicit[l].localization = "unknown"
  <2>. DEFINE inferred == At(knowledge, l, None)
              e == explicit[l]
  <2>1. over[l] = Overlaid(inferred, e)
    OBVIOUS
  <2>. HIDE DEF inferred, e, over
  <2>2. /\ Overlaid(inferred, e).existence = e.existence
        /\ Overlaid(inferred, e).localization # e.localization => e.localization = "unknown"
    BY DEF Overlaid
  <2>. QED BY <2>1, <2>2 DEF e
<1>. HIDE DEF over, k
<1>4. /\ DOMAIN k = DOMAIN explicit \cup DOMAIN knowledge
      /\ \A l \in DOMAIN explicit : k[l] = over[l]
      /\ \A l \in DOMAIN knowledge \ DOMAIN explicit : k[l] = knowledge[l]
  BY <1>1, <1>2 DEF Over
<1>5. ASSUME LocatedAt(knowledge), LocatedAt(explicit) PROVE LocatedAt(k)
  BY <1>3, <1>4, <1>5 DEF LocatedAt
<1>6. Overlays(k, knowledge, explicit)
  BY <1>3, <1>4, <1>5 DEF Overlays
<1>. QED BY <1>6 DEF k

\* What an actor knows of places: what it was told of one, or else what the party
\* was, or else what it sees from the scene.
LEMMA KnowledgeIs ==
  ASSUME NEW s, SeenOK(s), NEW a \in Actors, NEW sweep
  PROVE  LET k == KnowledgeFrom(s, a, sweep)
             marked == sweep.swept \cup {e.to : e \in sweep.ways}
         IN  /\ LocatedAt(k)
             /\ \A l \in marked :
                   /\ l \in DOMAIN k
                   /\ k[l].existence =
                        IF l \in DOMAIN s.actorPlaces[a] THEN s.actorPlaces[a][l].existence
                        ELSE IF l \in DOMAIN s.partyPlaces THEN s.partyPlaces[l].existence ELSE "known"
<1>. DEFINE marked == sweep.swept \cup {e.to : e \in sweep.ways}
            inferred == [l \in marked |->
                           Known(IF l \in sweep.swept THEN "reachable" ELSE "blocked",
                                 l = s.scene,
                                 {e.id : e \in {w \in sweep.ways : l \in {w.from, w.to}}})]
            above == [l \in Ancestors(marked) \ marked |-> Known("unknown", FALSE, {})]
            base == Over(inferred, above)
            party == OverlaidAll(base, s.partyPlaces)
            k == KnowledgeFrom(s, a, sweep)
<1>1. k = OverlaidAll(party, s.actorPlaces[a])
  BY DEF KnowledgeFrom
<1>2. /\ \A l \in DOMAIN inferred : inferred[l].existence = "known" /\ inferred[l].localization = "located"
      /\ \A l \in DOMAIN above : above[l].existence = "known" /\ above[l].localization = "located"
      /\ DOMAIN inferred = marked
  BY DEF Known
<1>. HIDE DEF inferred, above, marked
<1>3. /\ \A l \in DOMAIN base : base[l].existence = "known" /\ base[l].localization = "located"
      /\ marked \subseteq DOMAIN base
  BY <1>2 DEF Over
<1>4. LocatedAt(s.partyPlaces) /\ LocatedAt(s.actorPlaces[a])
  BY DEF SeenOK, PlacesSeen, LocatedAt
<1>5. LocatedAt(base)
  BY <1>3 DEF LocatedAt
<1>. HIDE DEF base, k
<1>6. Overlays(party, base, s.partyPlaces)
  BY OverlaidIs
<1>7. Overlays(k, party, s.actorPlaces[a])
  BY <1>1, OverlaidIs
<1>. HIDE DEF party
<1>8. ASSUME NEW l \in marked
      PROVE  /\ l \in DOMAIN k
             /\ k[l].existence =
                  IF l \in DOMAIN s.actorPlaces[a] THEN s.actorPlaces[a][l].existence
                  ELSE IF l \in DOMAIN s.partyPlaces THEN s.partyPlaces[l].existence ELSE "known"
  BY <1>3, <1>6, <1>7 DEF Overlays
<1>9. LocatedAt(k)
  BY <1>4, <1>5, <1>6, <1>7 DEF Overlays
<1>. QED BY <1>8, <1>9 DEF k, marked

\* The far end of a runtime way from the scene is in sight, if it is not hidden.
LEMMA RuntimeWayIsSwept ==
  ASSUME NEW s, StateOK(s), NEW a, NEW e \in RuntimeEdges(s), e.from = s.scene,
         OverrideAllows(s, a, "location", e.to)
  PROVE  e \in Sweep(s, a).ways
<1>. DEFINE ways == WaysSeen(s, a, KnownConnections(Over(s.actorPlaces[a], s.partyPlaces)))
            open == {w \in ways : EdgeIsTraversable(s, a, w)}
            pairs == {<<w.from, w.to>> : w \in open}
            N == Cardinality(LocationIds(s))
<1>1. e \in ways
  BY DEF WaysSeen, LocationVisible, OverrideAllows
<1>2. Sweep(s, a).ways = {w \in ways : w.from \in Reached(s, open)}
  BY DEF Sweep
<1>. HIDE DEF ways
<1>3. Reached(s, open) = ReachableBy(pairs, s.scene, N)
  BY DEF Reached
<1>4. N \in Nat
  <2>1. IsFiniteSet(LocationIds(s))
    BY ModuleAssumption, FS_Union DEF StateOK, PlacesOK, LocationIds
  <2>. QED BY <2>1, FS_CardinalityType
<1>5. s.scene \in ReachableBy(pairs, s.scene, N)
  <2>. DEFINE here == s.scene
              p == <<here>>
  <2>1. Len(p) = 0 + 1 /\ p[1] = here /\ 0 \in 0..N /\ End(p) = here
    BY <1>4 DEF End
  <2>2. \A i \in 1..0 : <<p[i], p[i + 1]>> \in pairs
    OBVIOUS
  <2>. HIDE DEF p, here, pairs, N
  <2>3. End(p) \in ReachableBy(pairs, here, N)
    BY <1>4, <2>1, <2>2, TrailReaches
  <2>. QED BY <2>1, <2>3 DEF here
<1>. HIDE DEF pairs, N, open
<1>. QED BY <1>1, <1>2, <1>3, <1>5

\* A place that is known and has a position can be reached, or the way is closed.
LEMMA LocatedIsAnswered ==
  ASSUME NEW s, NEW a, NEW l \in LocationIds(s), NEW k, k = EffectiveKnowledge(s, a),
         At(k, l, Unknown).existence # "unknown", k[l].localization = "located"
  PROVE  ResolveLocationTarget(s, a, l).status \in {"known_reachable", "known_blocked"}
<1>. DEFINE edges == RouteEdges(s, a, k)
            open == ShortestPaths({e \in edges : EdgeIsTraversable(s, a, e)}, s.scene, l)
            structural == ShortestPaths(edges, s.scene, l)
            r == ResolveLocationTarget(s, a, l)
<1>. HIDE DEF edges, open, structural
<1>1. r = ResolvedAlong(s, a, l, k, edges)
  BY DEF ResolveLocationTarget, ResolvedWith, edges
<1>. HIDE DEF r
<1>2. r = IF k[l].localization # "located" THEN Resolution("known_unlocated", <<>>, None)
          ELSE IF open # {} THEN Resolution("known_reachable", CHOOSE p \in open : TRUE, None)
          ELSE IF structural # {} THEN Frontier(s, a, edges, CHOOSE p \in structural : TRUE)
          ELSE Resolution("known_blocked", <<s.scene>>, "route")
  BY <1>1 DEF ResolvedAlong, open, structural
<1>3. CASE open # {}
  BY <1>2, <1>3 DEF Resolution, r
<1>4. CASE open = {} /\ structural # {}
  BY <1>2, <1>4, FrontierIsClosed DEF r
<1>5. CASE open = {} /\ structural = {}
  BY <1>2, <1>5 DEF Resolution, r
<1>. QED BY <1>3, <1>4, <1>5

\* So every exit that is shown is answered.
LEMMA ExitsAreAnswered ==
  ASSUME NEW s, StateOK(s), SeenOK(s), NEW a \in Actors, NEW e \in AvailableExits(s, a)
  PROVE  ResolveLocationTarget(s, a, e.to).status \in {"known_reachable", "known_blocked"}
<1>. DEFINE k == EffectiveKnowledge(s, a)
            sweep == Sweep(s, a)
            marked == sweep.swept \cup {w.to : w \in sweep.ways}
            l == e.to
            authored == AuthoredExits(s, k)
            runtime == {w \in RuntimeEdges(s) : /\ w.from = s.scene
                                                /\ OverrideAllows(s, a, "location", w.to)
                                                /\ \A f \in authored : f.to # w.to}
<1>. HIDE DEF sweep
<1>1. k = KnowledgeFrom(s, a, sweep)
  BY DEF EffectiveKnowledge, sweep
<1>. HIDE DEF k
<1>2. /\ LocatedAt(k)
      /\ \A p \in marked :
            /\ p \in DOMAIN k
            /\ k[p].existence =
                 IF p \in DOMAIN s.actorPlaces[a] THEN s.actorPlaces[a][p].existence
                 ELSE IF p \in DOMAIN s.partyPlaces THEN s.partyPlaces[p].existence ELSE "known"
  BY <1>1, KnowledgeIs
<1>3. e \in authored \/ e \in runtime
  <2>1. AvailableExits(s, a) = authored \cup {CHOOSE w \in runtime : w.to = p : p \in {w.to : w \in runtime}}
    BY DEF AvailableExits, WithRuntimeExits, k
  <2>. HIDE DEF authored, runtime
  <2>2. CASE e \in authored
    BY <2>2
  <2>3. CASE e \notin authored
    <3>1. PICK p \in {w.to : w \in runtime} : e = CHOOSE w \in runtime : w.to = p
      BY <2>1, <2>3
    <3>2. \E w \in runtime : w.to = p
      BY <3>1
    <3>. QED BY <3>1, <3>2
  <2>. QED BY <2>2, <2>3
<1>4. l \in LocationIds(s)
  <2>1. CASE e \in authored
    BY <2>1, ModuleAssumption DEF AuthoredExits, LocationIds
  <2>2. CASE e \in runtime
    BY <2>2, ModuleAssumption, RuntimeEdgesJoin
  <2>. QED BY <1>3, <2>1, <2>2
<1>5. l \in DOMAIN k /\ k[l].existence # "unknown"
  <2>1. CASE e \in authored
    <3>1. At(k, l, Unknown).existence # "unknown"
      BY <2>1 DEF AuthoredExits
    <3>. HIDE DEF l
    <3>. QED BY <3>1 DEF At, Unknown
  <2>2. CASE e \in runtime
    <3>1. e \in RuntimeEdges(s) /\ e.from = s.scene /\ OverrideAllows(s, a, "location", l)
      BY <2>2
    <3>2. l \in marked
      BY <3>1, RuntimeWayIsSwept DEF sweep
    <3>. HIDE DEF l, marked, runtime
    <3>3. At(s.override, <<a, "location", l>>, At(s.override, <<"party", "location", l>>, None)) # FALSE
      BY <3>1 DEF OverrideAllows, Override
    <3>4. PlacesSeen(s, Party, s.partyPlaces) /\ PlacesSeen(s, a, s.actorPlaces[a])
          /\ ShownKnown(s, a, s.actorPlaces[a])
      BY DEF SeenOK
    <3>. DEFINE mine == <<a, "location", l>>
                ours == <<"party", "location", l>>
    <3>5. CASE mine \in DOMAIN s.override
      <4>1. s.override[mine] # FALSE
        BY <3>3, <3>5 DEF At
      <4>2. l \in DOMAIN s.actorPlaces[a] /\ s.actorPlaces[a][l].existence # "unknown"
        BY <3>4, <3>5, <4>1 DEF ShownKnown
      <4>. QED BY <1>2, <3>2, <4>2
    <3>6. CASE mine \notin DOMAIN s.override
      <4>1. l \in DOMAIN s.actorPlaces[a] => s.actorPlaces[a][l].existence # "unknown"
        BY <3>4, <3>6 DEF PlacesSeen, Unseen
      <4>2. ~Unseen(s, Party, l)
        BY <3>3, <3>6 DEF At, Unseen, Party
      <4>3. l \in DOMAIN s.partyPlaces => s.partyPlaces[l].existence # "unknown"
        BY <3>4, <4>2 DEF PlacesSeen
      <4>. QED BY <1>2, <3>2, <4>1, <4>3
    <3>. QED BY <3>5, <3>6
  <2>. QED BY <1>3, <2>1, <2>2
<1>6. k[l].localization = "located" /\ At(k, l, Unknown).existence # "unknown"
  BY <1>2, <1>5 DEF LocatedAt, At
<1>. HIDE DEF l
<1>7. ResolveLocationTarget(s, a, l).status \in {"known_reachable", "known_blocked"}
  BY <1>4, <1>6, LocatedIsAnswered DEF k
<1>. QED BY <1>7 DEF l

-----------------------------------------------------------------------------
(* What a player is shown depends on: everything but the secrets of others. *)

\* Two states that differ only in what one actor knows and has seen or not.
Alike(s, t, a) ==
  /\ DOMAIN s = StateFields /\ DOMAIN t = StateFields
  /\ \A f \in StateFields \ {"actorFacts", "override", "actorPlaces"} : t[f] = s[f]
  /\ \A b \in Actors \ {a} : t.actorFacts[b] = s.actorFacts[b] /\ t.actorPlaces[b] = s.actorPlaces[b]
  /\ \A audience, kind, id :
        audience # a => LET key == <<audience, kind, id>>
                        IN  /\ key \in DOMAIN t.override <=> key \in DOMAIN s.override
                            /\ key \in DOMAIN s.override => t.override[key] = s.override[key]

\* What of them is the same, for somebody else.
LEMMA AlikeFields ==
  ASSUME NEW a, NEW s, NEW t, Alike(s, t, a)
  PROVE  /\ t.scene = s.scene /\ t.facts = s.facts /\ t.partyPlaces = s.partyPlaces
         /\ t.context = s.context /\ t.runtimeLocations = s.runtimeLocations
         /\ t.runtimeEntities = s.runtimeEntities /\ t.entities = s.entities
         /\ t.publicKeys = s.publicKeys /\ t.items = s.items /\ t.partyItems = s.partyItems
         /\ t.actorItems = s.actorItems /\ t.time = s.time
         /\ t.coreResolved = s.coreResolved /\ t.endingAvailable = s.endingAvailable
BY DEF Alike, StateFields

\* The overrides that count for somebody else.
LEMMA AlikeOverride ==
  ASSUME NEW a, NEW b \in Actors \ {a}, Party # a, NEW s, NEW t, Alike(s, t, a), NEW kind, NEW id
  PROVE  Override(t, b, kind, id) = Override(s, b, kind, id)
<1>1. \A audience : audience # a =>
        /\ <<audience, kind, id>> \in DOMAIN t.override <=> <<audience, kind, id>> \in DOMAIN s.override
        /\ <<audience, kind, id>> \in DOMAIN s.override =>
             t.override[<<audience, kind, id>>] = s.override[<<audience, kind, id>>]
  BY DEF Alike
<1>2. \A audience : audience # a =>
        \A default : At(t.override, <<audience, kind, id>>, default)
                       = At(s.override, <<audience, kind, id>>, default)
  BY <1>1 DEF At
<1>3. b # a /\ "party" # a
  BY DEF Party
<1>. QED BY <1>2, <1>3 DEF Override

\* Conditions hold of somebody else alike.
LEMMA AlikeHolds ==
  ASSUME NEW a, NEW b \in Actors \ {a}, NEW s, NEW t, Alike(s, t, a)
  PROVE  /\ \A e, key : Flag(t, e, key) = Flag(s, e, key)
         /\ \A conditions : Met(t, b, conditions) <=> Met(s, b, conditions)
<1>0. t.runtimeEntities = s.runtimeEntities /\ t.entities = s.entities /\ t.items = s.items
  BY AlikeFields
<1>1. \A e, key : Flag(t, e, key) = Flag(s, e, key)
  <2>1. \A e : EntityFlags(t, e) = EntityFlags(s, e)
    BY <1>0 DEF EntityFlags
  <2>. QED BY <2>1 DEF Flag
<1>2. t.actorFacts[b] = s.actorFacts[b] /\ t.facts = s.facts /\ t.time = s.time
      /\ t.coreResolved = s.coreResolved
  BY AlikeFields DEF Alike
<1>3. ASSUME NEW p PROVE Holds(t, b, p) = Holds(s, b, p)
  <2>1. CASE p.name = "entity_state_is"
    <3>1. \A u : Holds(u, b, p) = (Flag(u, p.id, p.key) = p.value)
      BY <2>1 DEF Holds
    <3>. QED BY <1>1, <3>1
  <2>2. CASE p.name = "time_of_day_is"
    <3>1. \A u : Holds(u, b, p) = (TimeOfDay(u.time) = p.value)
      BY <2>2 DEF Holds
    <3>. QED BY <1>2, <3>1
  <2>3. CASE p.name = "information_is"
    <3>1. \A u : Holds(u, b, p) = (p.id \in u.facts \cup u.actorFacts[b])
      BY <2>3 DEF Holds
    <3>. QED BY <1>2, <3>1
  <2>4. CASE p.name = "core_resolved"
    <3>1. \A u : Holds(u, b, p) = (u.coreResolved = p.value)
      BY <2>4 DEF Holds
    <3>. QED BY <1>2, <3>1
  <2>5. CASE p.name \notin {"entity_state_is", "time_of_day_is", "information_is", "core_resolved"}
    <3>1. \A u : Holds(u, b, p) = FALSE
      BY <2>5 DEF Holds
    <3>. QED BY <3>1
  <2>. QED BY <2>1, <2>2, <2>3, <2>4, <2>5
<1>4. \A c : Satisfies(t, b, c) <=> Satisfies(s, b, c)
  BY <1>3 DEF Satisfies
<1>. QED BY <1>1, <1>4 DEF Met

\* So does what somebody else knows of places, and where they can go.
LEMMA AlikeKnowledge ==
  ASSUME NEW a, NEW b \in Actors \ {a}, Party # a, NEW s, NEW t, Alike(s, t, a)
  PROVE  EffectiveKnowledge(t, b) = EffectiveKnowledge(s, b) /\ RuntimeEdges(t) = RuntimeEdges(s)
<1>0. /\ t.scene = s.scene /\ t.runtimeLocations = s.runtimeLocations
      /\ t.partyPlaces = s.partyPlaces /\ t.actorPlaces[b] = s.actorPlaces[b]
  BY AlikeFields DEF Alike
<1>1. RuntimeEdges(t) = RuntimeEdges(s) /\ LocationIds(t) = LocationIds(s)
  BY <1>0 DEF RuntimeEdges, LocationIds
<1>2. \A kind, id : Override(t, b, kind, id) = Override(s, b, kind, id)
  BY AlikeOverride
<1>3. /\ \A e, key : Flag(t, e, key) = Flag(s, e, key)
      /\ \A conditions : Met(t, b, conditions) <=> Met(s, b, conditions)
  BY AlikeHolds
<1>4. \A e, connections : EdgeIsKnown(t, b, e, connections) <=> EdgeIsKnown(s, b, e, connections)
  BY <1>2, <1>3 DEF EdgeIsKnown
<1>5. \A e : EdgeIsTraversable(t, b, e) <=> EdgeIsTraversable(s, b, e)
  BY <1>3 DEF EdgeIsTraversable
<1>6. \A l : LocationVisible(t, b, l) <=> LocationVisible(s, b, l)
  BY <1>2 DEF LocationVisible
<1>7. \A connections : WaysSeen(t, b, connections) = WaysSeen(s, b, connections)
  BY <1>1, <1>4, <1>6 DEF WaysSeen
<1>8. \A open : Reached(t, open) = Reached(s, open)
  BY <1>0, <1>1 DEF Reached
<1>9. Sweep(t, b) = Sweep(s, b)
  <2>. DEFINE ways == WaysSeen(s, b, KnownConnections(Over(s.actorPlaces[b], s.partyPlaces)))
              Open(u) == {e \in ways : EdgeIsTraversable(u, b, e)}
  <2>1. WaysSeen(t, b, KnownConnections(Over(t.actorPlaces[b], t.partyPlaces))) = ways
    BY <1>0, <1>7
  <2>2. Sweep(s, b) = [ways |-> {e \in ways : e.from \in Reached(s, Open(s))}, swept |-> Reached(s, Open(s))]
    BY DEF Sweep
  <2>3. Sweep(t, b) = [ways |-> {e \in ways : e.from \in Reached(t, Open(t))}, swept |-> Reached(t, Open(t))]
    BY <2>1 DEF Sweep
  <2>. HIDE DEF ways
  <2>4. Open(t) = Open(s)
    BY <1>5
  <2>. HIDE DEF Open
  <2>. QED BY <1>8, <2>2, <2>3, <2>4
<1>10. \A sweep : KnowledgeFrom(t, b, sweep) = KnowledgeFrom(s, b, sweep)
  BY <1>0 DEF KnowledgeFrom
<1>. QED BY <1>1, <1>9, <1>10 DEF EffectiveKnowledge

\* And so does all that somebody else is shown.
LEMMA AlikeView ==
  ASSUME NEW a, NEW b \in Actors \ {a}, Party # a, NEW s, NEW t, Alike(s, t, a)
  PROVE  View(t, b) = View(s, b)
<1>0. /\ t.scene = s.scene /\ t.facts = s.facts /\ t.partyPlaces = s.partyPlaces
      /\ t.context = s.context /\ t.runtimeLocations = s.runtimeLocations
      /\ t.runtimeEntities = s.runtimeEntities /\ t.entities = s.entities
      /\ t.publicKeys = s.publicKeys /\ t.items = s.items /\ t.partyItems = s.partyItems
      /\ t.actorItems = s.actorItems /\ t.time = s.time
      /\ t.coreResolved = s.coreResolved /\ t.endingAvailable = s.endingAvailable
      /\ t.actorFacts[b] = s.actorFacts[b]
  BY AlikeFields DEF Alike
<1>1. EffectiveKnowledge(t, b) = EffectiveKnowledge(s, b) /\ RuntimeEdges(t) = RuntimeEdges(s)
  BY AlikeKnowledge
<1>2. \A kind, id : OverrideAllows(t, b, kind, id) <=> OverrideAllows(s, b, kind, id)
  <2>1. \A kind, id : Override(t, b, kind, id) = Override(s, b, kind, id)
    BY AlikeOverride
  <2>. QED BY <2>1 DEF OverrideAllows
<1>3. \A e : CanonShown(t, b, e) <=> CanonShown(s, b, e)
  <2>1. \A conditions : Met(t, b, conditions) <=> Met(s, b, conditions)
    BY AlikeHolds
  <2>. QED BY <1>2, <2>1 DEF CanonShown
<1>4. LocationContext(t, b) = LocationContext(s, b)
  BY <1>0 DEF LocationContext, ContainmentParent
<1>5. VisibleEntities(t, b) = VisibleEntities(s, b)
  <2>. DEFINE record(own, coined, e) == IF e \in Module.entities THEN own[e] ELSE coined[e]
              place(own, coined, e) ==
                IF e \in Module.entities /\ record(own, coined, e).at = None
                THEN Module.spec[e].located ELSE record(own, coined, e).at
              here(own, coined, scene, e) ==
                place(own, coined, e) = scene \/ record(own, coined, e).holder = b
              shown(u, e) == IF e \in Module.entities THEN CanonShown(u, b, e)
                             ELSE OverrideAllows(u, b, "entity", e)
              Seen(u, own, coined, scene) ==
                {x \in Module.entities \cup DOMAIN coined :
                   ~record(own, coined, x).consumed /\ here(own, coined, scene, x) /\ shown(u, x)}
              Shown(u, own, coined, scene) ==
                {[id |-> e, state |-> PublicState(u, e, record(own, coined, e).flags)] :
                   e \in Seen(u, own, coined, scene)}
  <2>1. \A u : VisibleEntities(u, b) = Shown(u, u.entities, u.runtimeEntities, u.scene)
    BY Zenon DEF VisibleEntities
  <2>2. \A e : shown(t, e) <=> shown(s, e)
    BY <1>2, <1>3
  <2>3. \A e, flags : PublicState(t, e, flags) = PublicState(s, e, flags)
    BY <1>0 DEF PublicState
  <2>. HIDE DEF record, place, here, shown
  <2>4. \A own, coined, scene : Seen(t, own, coined, scene) = Seen(s, own, coined, scene)
    BY <2>2
  <2>. HIDE DEF Seen
  <2>5. \A own, coined, scene : Shown(t, own, coined, scene) = Shown(s, own, coined, scene)
    BY <2>3, <2>4
  <2>. HIDE DEF Shown
  <2>. QED BY <1>0, <2>1, <2>5
<1>6. ShownItems(t, b) = ShownItems(s, b)
  BY <1>0, <1>3 DEF ShownItems
<1>7. Inventory(t, b) = Inventory(s, b) /\ LooseItems(t, b) = LooseItems(s, b)
  BY <1>0, <1>6 DEF Inventory, LooseItems
<1>8. AvailableExits(t, b) = AvailableExits(s, b)
  <2>1. \A knowledge : AuthoredExits(t, knowledge) = AuthoredExits(s, knowledge)
    BY <1>0 DEF AuthoredExits
  <2>2. ASSUME NEW authored PROVE WithRuntimeExits(t, b, authored) = WithRuntimeExits(s, b, authored)
    <3>. DEFINE Runtime(u) == {e \in RuntimeEdges(u) : /\ e.from = u.scene
                                                      /\ OverrideAllows(u, b, "location", e.to)
                                                      /\ \A f \in authored : f.to # e.to}
                Exits(ways) == authored \cup {CHOOSE e \in ways : e.to = l : l \in {e.to : e \in ways}}
    <3>1. \A u : WithRuntimeExits(u, b, authored) = Exits(Runtime(u))
      BY DEF WithRuntimeExits
    <3>2. Runtime(t) = Runtime(s)
      BY <1>0, <1>1, <1>2
    <3>. HIDE DEF Runtime, Exits
    <3>. QED BY <3>1, <3>2
  <2>. QED BY <1>1, <2>1, <2>2 DEF AvailableExits
<1>9. KnownLocations(t, b) = KnownLocations(s, b)
  BY <1>1 DEF KnownLocations
<1>10. KnownInformation(t, b) = KnownInformation(s, b)
  BY <1>0, <1>2 DEF KnownInformation
<1>. QED BY <1>0, <1>4, <1>5, <1>7, <1>8, <1>9, <1>10 DEF View
-----------------------------------------------------------------------------
(* A private command changes the secrets of its actor only.                *)

\* What an effect of a private command may be.
Secret(e) ==
  \/ e.type = "narrative_only"
  \/ e.type \in {"reveal_information", "hide_information", "set_visibility"} /\ e.scope = "actor"

\* To be alike is kept by whoever writes to the secrets of one actor again.
LEMMA AlikeOn ==
  ASSUME NEW g, NEW s, NEW a, Alike(g, s, a), NEW t, Alike(s, t, a)
  PROVE  Alike(g, t, a)
<1>1. /\ DOMAIN g = StateFields /\ DOMAIN t = StateFields
      /\ \A f \in StateFields \ {"actorFacts", "override", "actorPlaces"} : t[f] = g[f]
  BY DEF Alike
<1>2. \A b \in Actors \ {a} : t.actorFacts[b] = g.actorFacts[b] /\ t.actorPlaces[b] = g.actorPlaces[b]
  BY DEF Alike
<1>3. ASSUME NEW audience, NEW kind, NEW id, audience # a
      PROVE  /\ <<audience, kind, id>> \in DOMAIN t.override <=> <<audience, kind, id>> \in DOMAIN g.override
             /\ <<audience, kind, id>> \in DOMAIN g.override =>
                  t.override[<<audience, kind, id>>] = g.override[<<audience, kind, id>>]
  BY <1>3 DEF Alike
<1>. QED BY <1>1, <1>2, <1>3 DEF Alike

\* A secret effect leaves all but its actor's secrets alone.
LEMMA SecretIsAlike ==
  ASSUME NEW s, StateOK(s), NEW a \in Actors, NEW e, Secret(e), NEW t, t = Apply(s, a, e).state
  PROVE  Alike(s, t, a)
<1>0. DOMAIN s = StateFields /\ DOMAIN s.actorPlaces = Actors /\ DOMAIN s.actorFacts = Actors
  BY DEF StateOK, KnownOK
<1>1. CASE e.type = "narrative_only"
  <2>1. t = s
    BY <1>1 DEF Apply, Done
  <2>. QED BY <1>0, <2>1 DEF Alike
<1>2. CASE e.type \in {"reveal_information", "hide_information"} /\ e.scope = "actor"
  <2>1. t = ApplyInformation(s, a, e)
    BY <1>2 DEF Apply, Done
  <2>2. PICK written : t = [s EXCEPT !.actorFacts = [s.actorFacts EXCEPT ![a] = written]]
    BY <1>2, <2>1 DEF ApplyInformation
  <2>. DEFINE facts == [s.actorFacts EXCEPT ![a] = written]
  <2>3. t = [s EXCEPT !.actorFacts = facts] /\ \A b \in Actors \ {a} : facts[b] = s.actorFacts[b]
    BY <1>0, <2>2
  <2>. HIDE DEF facts
  <2>4. /\ DOMAIN t = StateFields /\ t.actorFacts = facts /\ t.override = s.override
        /\ t.actorPlaces = s.actorPlaces
        /\ \A f \in StateFields \ {"actorFacts", "override", "actorPlaces"} : t[f] = s[f]
    BY <1>0, <2>3 DEF StateFields
  <2>. QED BY <1>0, <2>3, <2>4 DEF Alike
<1>3. CASE e.type = "set_visibility" /\ e.scope = "actor"
  <2>. DEFINE key == <<a, e.kind, e.id>>
              over == Put(s.override, key, e.visible)
              u == [s EXCEPT !.override = over]
  <2>1. t = ApplySetVisibility(s, a, e) /\ Scoped(a, e) = a
    BY <1>3 DEF Apply, Done, Scoped
  <2>2. t = u \/ \E seen : t = [u EXCEPT !.actorPlaces[a] = seen]
    BY <1>3, <2>1 DEF ApplySetVisibility
  <2>3. /\ DOMAIN u = StateFields /\ u.override = over /\ u.actorPlaces = s.actorPlaces
        /\ \A f \in StateFields \ {"override"} : u[f] = s[f]
    <3>. HIDE DEF over
    <3>. QED BY <1>0 DEF StateFields
  <2>4. \A audience, kind, id : audience # a =>
          /\ <<audience, kind, id>> \in DOMAIN over <=> <<audience, kind, id>> \in DOMAIN s.override
          /\ <<audience, kind, id>> \in DOMAIN s.override =>
               over[<<audience, kind, id>>] = s.override[<<audience, kind, id>>]
    BY DEF Put
  <2>. HIDE DEF u, over
  <2>5. /\ DOMAIN t = StateFields /\ t.override = over /\ t.actorFacts = s.actorFacts
        /\ \A b \in Actors \ {a} : t.actorPlaces[b] = s.actorPlaces[b]
        /\ \A f \in StateFields \ {"override", "actorPlaces"} : t[f] = s[f]
    <3>1. CASE t = u
      BY <2>3, <3>1 DEF StateFields
    <3>2. CASE \E seen : t = [u EXCEPT !.actorPlaces[a] = seen]
      <4>1. PICK seen : t = [u EXCEPT !.actorPlaces[a] = seen]
        BY <3>2
      <4>. DEFINE places == [u.actorPlaces EXCEPT ![a] = seen]
      <4>2. t = [u EXCEPT !.actorPlaces = places]
        BY <4>1, <2>3 DEF StateFields
      <4>3. \A b \in Actors \ {a} : places[b] = s.actorPlaces[b]
        BY <1>0, <2>3
      <4>. HIDE DEF places
      <4>. QED BY <2>3, <4>2, <4>3 DEF StateFields
    <3>. QED BY <2>2, <3>1, <3>2
  <2>. QED BY <1>0, <2>4, <2>5 DEF Alike
<1>. QED BY <1>1, <1>2, <1>3 DEF Secret

\* A command that is private, and has called no rule.
Confidential(r) ==
  /\ r.adj.rule = None
  /\ Private(r.adj.success) /\ Private(r.adj.failure) /\ r.agenda.queue = <<>>

\* So far it has changed its actor's secrets only, and what is left is secret.
SecretInv ==
  run # Idle /\ Confidential(run) =>
    /\ Alike(game, run.draft, run.adj.actor)
    /\ run.at = "effects" => \A i \in 1..Len(run.todo) : Secret(run.todo[i])

\* Private is what all effects of a secret are.
LEMMA PrivateIs ==
  ASSUME NEW effects
  PROVE  Private(effects) <=> \A i \in 1..Len(effects) : Secret(effects[i])
BY DEF Private, Secret

\* To mark a rule leaves the length of the queue alone.
LEMMA MarkedQueue ==
  ASSUME NEW agenda, DOMAIN agenda = AgendaFields, NEW st
  PROVE  /\ DOMAIN Marked(agenda, st) = AgendaFields
         /\ DOMAIN Marked(agenda, st).queue = DOMAIN agenda.queue
<1>. DEFINE queue == agenda.queue
            at == CHOOSE i \in 1..Len(agenda.queue) :
                    /\ agenda.queue[i].status \in {"queued", "running"}
                    /\ \A j \in 1..i - 1 : agenda.queue[j].status \notin {"queued", "running"}
            new == [queue EXCEPT ![at] = [queue[at] EXCEPT !.status = st]]
<1>1. Marked(agenda, st) = [agenda EXCEPT !.queue[at].status = st]
  BY Zenon DEF Marked
<1>. HIDE DEF at
<1>2. Marked(agenda, st) = [agenda EXCEPT !.queue = new]
  BY <1>1
<1>3. DOMAIN new = DOMAIN agenda.queue
  OBVIOUS
<1>. HIDE DEF new
<1>. QED BY <1>2, <1>3 DEF AgendaFields

\* Reading an event calls no rule only if none was called before.
LEMMA ReadEventSecret ==
  ASSUME WorldInv, CascadeInv, ReadEvent, run'.agenda.queue = <<>>
  PROVE  /\ run.agenda.queue = <<>> /\ run'.draft = run.draft /\ run'.adj = run.adj
         /\ run'.at = "cascade" /\ game' = game
<1>0. DOMAIN run = RunFields /\ run.at = "cascade"
  BY NotIdle DEF ReadEvent, RunOK
<1>1. DOMAIN run.agenda = AgendaFields /\ IsSequence(run.agenda.queue)
  BY <1>0 DEF CascadeInv, CascadeOK, CascadeTyped
<1>. DEFINE event == run.events[run.cursor + 1]
            rules == IF event.type = "rule.triggered" THEN <<>>
                     ELSE MatchingEventRules(run.draft, run.adj.actor, event.type)
            added == [i \in 1..Len(rules) |-> [event |-> run.cursor + 1, rule |-> rules[i].id,
                                               status |-> "queued"]]
            queue == run.agenda.queue \o added
<1>2. run' = [run EXCEPT !.cursor = @ + 1, !.waiting = rules, !.agenda.queue = queue] /\ game' = game
  BY Zenon DEF ReadEvent
<1>3. Len(rules) \in Nat
  <2>1. rules \in Seq(EventRules)
    BY MatchingRules
  <2>. HIDE DEF rules
  <2>. QED BY <2>1
<1>4. IsSequence(added)
  <2>. DEFINE S == {[event |-> run.cursor + 1, rule |-> rules[i].id, status |-> "queued"] :
                      i \in 1..Len(rules)}
  <2>1. added \in [1..Len(rules) -> S]
    OBVIOUS
  <2>. HIDE DEF added, S, rules
  <2>2. added \in Seq(S)
    BY <1>3, <2>1
  <2>. QED BY <2>2, SequenceOf
<1>. HIDE DEF rules, added, event
<1>5. PICK old : old = run.agenda.queue
  OBVIOUS
<1>6. IsSequence(old) /\ queue = old \o added
  BY <1>1, <1>5
<1>. HIDE DEF queue
<1>7. Len(queue) = Len(old) + Len(added) /\ Len(old) \in Nat /\ Len(added) \in Nat
  BY <1>4, <1>6, JoinedIs
<1>8. /\ run'.agenda.queue = queue /\ run'.draft = run.draft /\ run'.adj = run.adj
      /\ run'.at = "cascade"
  BY <1>0, <1>1, <1>2 DEF RunFields, AgendaFields
<1>9. Len(old) = 0
  BY <1>7, <1>8
<1>10. old = <<>>
  <2>1. old \in Seq({old[i] : i \in DOMAIN old})
    BY <1>6 DEF IsSequence
  <2>. QED BY <1>9, <2>1
<1>. QED BY <1>2, <1>5, <1>8, <1>10

\* A rule that was called is not forgotten: it stays on the agenda.
LEMMA CalledStay ==
  ASSUME WorldInv, CascadeInv, FireRule \/ EndRule, run' # Idle
  PROVE  run'.agenda.queue # <<>>
<1>0. /\ DOMAIN run = RunFields /\ run.waiting # <<>> /\ run.at \in {"cascade", "rule"}
      /\ CascadeOK(run)
  <2>1. run.at \in {"cascade", "rule"}
    BY DEF FireRule, EndRule
  <2>2. DOMAIN run = RunFields
    BY <2>1, NotIdle DEF RunOK
  <2>. QED BY <2>1, <2>2 DEF CascadeInv, FireRule, EndRule
<1>1. PICK agenda, rule, walk : /\ agenda = run.agenda /\ rule = Head(run.waiting)
                                /\ walk = Walk(rule, rule.entry)
  OBVIOUS
<1>2. Len(agenda.queue) = Fired(run) + Len(run.waiting) /\ Fired(run) \in Nat
      /\ Len(run.waiting) \in Nat \ {0} /\ rule \in EventRules
  BY <1>0, <1>1, NextRule
<1>3. /\ DOMAIN agenda = AgendaFields /\ IsSequence(agenda.queue)
      /\ agenda.depth \in Nat /\ agenda.maxDepth \in Nat
      /\ agenda.steps \in Nat /\ agenda.maxSteps \in Nat
  BY <1>0, <1>1 DEF CascadeOK, CascadeTyped
<1>4. DOMAIN agenda.queue = 1..Len(agenda.queue) /\ Len(agenda.queue) > 0
  BY <1>2, <1>3, SequenceOf DEF IsSequence
<1>5. 1 \in DOMAIN agenda.queue
  BY <1>2, <1>4
<1>6. ASSUME NEW a, DOMAIN a = AgendaFields, a.queue = agenda.queue, NEW st, NEW step,
             \/ run'.agenda = Marked(a, st) \/ run'.agenda = Stopped(a, st, rule, step)
             \/ run'.agenda = Stopped(Marked(a, "failed"), st, rule, step)
      PROVE  1 \in DOMAIN run'.agenda.queue
  <2>1. CASE run'.agenda = Marked(a, st)
    BY <1>5, <1>6, <2>1, MarkedQueue
  <2>2. CASE run'.agenda = Stopped(a, st, rule, step)
    BY <1>5, <1>6, <2>2, StoppedIs
  <2>3. CASE run'.agenda = Stopped(Marked(a, "failed"), st, rule, step)
    <3>1. DOMAIN Marked(a, "failed") = AgendaFields /\ 1 \in DOMAIN Marked(a, "failed").queue
      BY <1>5, <1>6, MarkedQueue
    <3>. QED BY <2>3, <3>1, StoppedIs
  <2>. QED BY <1>6, <2>1, <2>2, <2>3
<1>7. CASE FireRule
  <2>0. PICK n : n = walk.count
    OBVIOUS
  <2>1. PICK charged, counted : charged = Charged(agenda, rule) /\ counted = Counted(charged, n)
    OBVIOUS
  <2>2. /\ DOMAIN charged = AgendaFields /\ DOMAIN counted = AgendaFields
        /\ charged.queue = agenda.queue /\ counted.queue = agenda.queue
    <3>1. /\ n \in Nat /\ rule \in EventRules /\ DOMAIN agenda = AgendaFields
          /\ agenda.depth \in Nat /\ agenda.maxDepth \in Nat
          /\ agenda.maxSteps \in Nat /\ agenda.steps \in Nat
      BY <1>1, <1>2, <1>3, <2>0, EventWalk DEF WalkOK
    <3>2. DOMAIN charged = AgendaFields /\ charged.queue = agenda.queue
      BY <2>1, <3>1, ChargedIs
    <3>3. DOMAIN counted = AgendaFields
      BY <2>1, <3>1, ChargedIs
    <3>4. counted.queue = agenda.queue
      BY <2>1, <3>1, ChargedIs
    <3>. QED BY <3>2, <3>3, <3>4
  <2>3. \/ run' = [run EXCEPT !.at = "commit",
                      !.agenda = Stopped(Marked(charged, "failed"), "failed", rule, None)]
        \/ run' = [run EXCEPT !.at = "commit",
                      !.agenda = Stopped(Marked(counted, "failed"), "failed", rule, walk.cursor)]
        \/ run' = [run EXCEPT !.at = "rule", !.todo = walk.effects,
                      !.agenda = Marked(counted, "running"),
                      !.events = Append(@, [type |-> "rule.triggered", effect |-> None])]
    BY <1>1, <1>7, <2>0, <2>1, Zenon DEF FireRule, Refuse, Charged, Counted
  <2>4. \/ run'.agenda = Stopped(Marked(charged, "failed"), "failed", rule, None)
        \/ run'.agenda = Stopped(Marked(counted, "failed"), "failed", rule, walk.cursor)
        \/ run'.agenda = Marked(counted, "running")
    BY <1>0, <2>3 DEF RunFields
  <2>5. 1 \in DOMAIN run'.agenda.queue
    BY <1>6, <2>2, <2>4
  <2>. QED BY <2>5
<1>8. CASE EndRule
  <2>1. PICK status : status = StatusOf(rule, walk)
    OBVIOUS
  <2>2. run' = IF status = "stable"
               THEN [run EXCEPT !.at = "cascade", !.waiting = Tail(@), !.agenda = Marked(@, "completed")]
               ELSE [run EXCEPT !.at = "commit",
                       !.agenda = Stopped(IF status = "failed" THEN Marked(@, "failed") ELSE @,
                                          status, rule, walk.cursor)]
    BY <1>1, <1>8, <2>1, Zenon DEF EndRule
  <2>3. \/ run'.agenda = Marked(agenda, "completed")
        \/ run'.agenda = Stopped(agenda, status, rule, walk.cursor)
        \/ run'.agenda = Stopped(Marked(agenda, "failed"), status, rule, walk.cursor)
    BY <1>0, <1>1, <2>2 DEF RunFields
  <2>4. 1 \in DOMAIN run'.agenda.queue
    BY <1>3, <1>6, <2>3
  <2>. QED BY <2>4
<1>. QED BY <1>7, <1>8

\* A transaction begins with nothing changed, and with the effects of its command.
LEMMA BegunSecret ==
  ASSUME WorldInv, NEW adj, NEW result, run' = Begun(adj, result, OwnedEffects(adj, result)),
         game' = game
  PROVE  SecretInv'
<1>1. /\ run'.adj = adj /\ run'.draft = game /\ run'.todo = OwnedEffects(adj, result)
  BY DEF Begun
<1>2. SUFFICES ASSUME Confidential(run')
               PROVE  /\ Alike(game, game, adj.actor)
                      /\ \A i \in 1..Len(run'.todo) : Secret(run'.todo[i])
  BY <1>1 DEF SecretInv
<1>3. Alike(game, game, adj.actor)
  BY DEF Alike, WorldInv, StateOK
<1>4. run'.todo = adj.success \/ run'.todo = adj.failure
  BY <1>1, <1>2 DEF Confidential, OwnedEffects
<1>. QED BY <1>1, <1>2, <1>3, <1>4, PrivateIs DEF Confidential

\* An effect of a private command is secret: it is one of its own.
LEMMA AppliedSecret ==
  ASSUME WorldInv, CascadeInv, SecretInv, ApplyEffect
  PROVE  SecretInv'
<1>. DEFINE e == Head(run.todo)
            a == run.adj.actor
            result == Apply(run.draft, a, e)
            events == Emitted(run.events, result.event, e)
<1>0. /\ RunOK /\ DOMAIN run = RunFields /\ run.at \in {"effects", "rule"} /\ Accept(result)
      /\ run # Idle /\ run.todo # <<>>
  BY NotIdle DEF ApplyEffect, RunOK, Idle
<1>. HIDE DEF result
<1>1. CASE ~result.ok
  <2>1. run' = Idle
    BY <1>0, <1>1 DEF Accept, Refuse
  <2>. QED BY <2>1 DEF SecretInv
<1>2. CASE result.ok
  <2>. DEFINE draft == result.state
              todo == Tail(run.todo)
  <2>1. run' = [run EXCEPT !.draft = draft, !.todo = todo, !.events = events] /\ game' = game
    BY <1>0, <1>2 DEF Accept
  <2>. HIDE DEF events, draft, todo, e
  <2>2. /\ run'.at = run.at /\ run'.adj = run.adj /\ run'.agenda = run.agenda
        /\ run'.draft = draft /\ run'.todo = todo
    BY <1>0, <2>1 DEF RunFields
  <2>3. SUFFICES ASSUME Confidential(run')
                 PROVE  /\ Alike(game, draft, a)
                        /\ run.at = "effects" => \A i \in 1..Len(todo) : Secret(todo[i])
    BY <2>1, <2>2 DEF SecretInv
  <2>4. Confidential(run)
    BY <2>2, <2>3 DEF Confidential
  <2>5. run.at = "effects"
    <3>1. SUFFICES ASSUME run.at = "rule" PROVE FALSE
      BY <1>0
    <3>2. CascadeOK(run) /\ run.waiting # <<>>
      BY <3>1 DEF CascadeInv
    <3>3. Len(run.agenda.queue) > 0
      BY <3>1, <3>2, NextRule
    <3>. QED BY <2>4, <3>3 DEF Confidential
  <2>6. Alike(game, run.draft, a) /\ \A i \in 1..Len(run.todo) : Secret(run.todo[i])
    BY <1>0, <2>4, <2>5 DEF SecretInv
  <2>7. IsSequence(run.todo)
    BY <1>0 DEF RunOK, Grounded
  <2>8. /\ Len(todo) = Len(run.todo) - 1 /\ Len(run.todo) > 0 /\ Len(run.todo) \in Nat
        /\ \A i \in 1..Len(run.todo) - 1 : todo[i] = run.todo[i + 1]
    BY <1>0, <2>7, Tailed, SequenceOf DEF todo, IsSequence
  <2>9. \A i \in 1..Len(todo) : Secret(todo[i])
    <3>1. TAKE i \in 1..Len(todo)
    <3>2. i + 1 \in 1..Len(run.todo) /\ todo[i] = run.todo[i + 1]
      BY <2>8, <3>1
    <3>. QED BY <2>6, <3>2
  <2>10. Secret(e)
    <3>1. e = run.todo[1] /\ 1 \in 1..Len(run.todo)
      BY <2>7, <2>8, HeadOf, <1>0 DEF e, IsSequence
    <3>. QED BY <2>6, <3>1
  <2>11. Alike(run.draft, draft, a)
    <3>1. StateOK(run.draft) /\ a \in Actors
      BY <1>0, WorldAssumption DEF RunOK, AdjOK
    <3>. HIDE DEF a
    <3>. QED BY <2>10, <3>1, SecretIsAlike DEF draft, result
  <2>. QED BY <2>6, <2>9, <2>11, AlikeOn
<1>. QED BY <1>1, <1>2

\* Every step keeps what a private command may have changed.
LEMMA NextKeepsSecret ==
  ASSUME WorldInv, CascadeInv, SecretInv, [DrivenNext]_vars
  PROVE  SecretInv'
<1>1. ASSUME NEW adj, Submit(adj) PROVE SecretInv'
  BY <1>1, BegunSecret DEF Submit
<1>2. ASSUME NEW adj, NEW result \in Results, Resolve(adj, result) PROVE SecretInv'
  BY <1>2, BegunSecret DEF Resolve
<1>3. ASSUME game' = game, run' = run PROVE SecretInv'
  BY <1>3 DEF SecretInv
<1>4. ASSUME NEW adj, SubmitChecked(adj) \/ Cancel(adj) PROVE SecretInv'
  BY <1>3, <1>4 DEF SubmitChecked, Cancel
<1>5. CASE ApplyEffect
  BY <1>5, AppliedSecret
<1>6. CASE Conclude
  <2>1. DOMAIN run = RunFields /\ run # Idle
    BY <1>6, NotIdle DEF Conclude, RunOK, Idle
  <2>2. game' = game /\ \E events : run' = [run EXCEPT !.at = "cascade", !.events = events]
    BY <1>6 DEF Conclude
  <2>3. /\ run'.draft = run.draft /\ run'.adj = run.adj /\ run'.agenda = run.agenda
        /\ run'.at = "cascade"
    BY <2>1, <2>2 DEF RunFields
  <2>. QED BY <2>1, <2>2, <2>3 DEF Confidential, SecretInv
<1>7. CASE ReadEvent
  <2>1. run # Idle
    BY <1>7 DEF ReadEvent, Idle
  <2>2. SUFFICES ASSUME Confidential(run')
                 PROVE  Alike(game', run'.draft, run'.adj.actor) /\ run'.at # "effects"
    BY DEF SecretInv
  <2>3. run'.agenda.queue = <<>>
    BY <2>2 DEF Confidential
  <2>4. /\ run.agenda.queue = <<>> /\ run'.draft = run.draft /\ run'.adj = run.adj
        /\ run'.at = "cascade" /\ game' = game
    BY <1>7, <2>3, ReadEventSecret
  <2>. QED BY <2>1, <2>2, <2>4 DEF Confidential, SecretInv
<1>8. CASE FireRule \/ EndRule
  BY <1>8, CalledStay DEF SecretInv, Confidential
<1>9. CASE Commit
  BY <1>9 DEF Commit, SecretInv
<1>10. CASE UNCHANGED vars
  BY <1>3, <1>10 DEF vars
<1>. QED BY <1>1, <1>2, <1>4, <1>5, <1>6, <1>7, <1>8, <1>9, <1>10 DEF DrivenNext

\* A step of which a private command is committed shows nobody else anything.
SecretStep ==
  (/\ commands' # commands /\ run.adj.rule = None
   /\ Private(run.adj.success) /\ Private(run.adj.failure)
   /\ run.agenda.queue = <<>>)
  => \A b \in Actors \ {run.adj.actor} : View(game', b) = View(game, b)

\* No step shows others what a private command did.
LEMMA NextIsSecret ==
  ASSUME WorldInv, SecretInv, DrivenNext
  PROVE  SecretStep
<1>1. SUFFICES ASSUME commands' # commands, Confidential(run)
               PROVE  \A b \in Actors \ {run.adj.actor} : View(game', b) = View(game, b)
  BY DEF SecretStep, Confidential
<1>2. Commit
  BY <1>1, Zenon DEF DrivenNext, Submit, SubmitChecked, Cancel, Resolve, ApplyEffect, Accept, Refuse, Conclude,
                     ReadEvent, FireRule, EndRule
<1>3. RunOK /\ DOMAIN run = RunFields /\ run # Idle
  BY <1>2, NotIdle DEF Commit, RunOK, Idle
<1>4. game' = run.draft
  <2>. DEFINE agenda == IF run.at = "commit" THEN run.agenda ELSE [run.agenda EXCEPT !.status = "stable"]
  <2>1. game' = IF agenda.queue = <<>> THEN run.draft ELSE [run.draft EXCEPT !.agendas = <<agenda>>]
    BY <1>2, Zenon DEF Commit
  <2>2. agenda.queue = run.agenda.queue
    OBVIOUS
  <2>. QED BY <1>1, <2>1, <2>2 DEF Confidential
<1>5. run.adj.actor \in Actors /\ Party \notin Actors
  BY <1>3, WorldAssumption DEF RunOK, AdjOK
<1>6. Alike(game, run.draft, run.adj.actor)
  BY <1>1, <1>3 DEF SecretInv
<1>. QED BY <1>4, <1>5, <1>6, AlikeView

-----------------------------------------------------------------------------
(* The host: what it sends to the engine, whatever was proposed to it.     *)

\* A finite set, in some order.
LEMMA Ordered ==
  ASSUME NEW S, IsFiniteSet(S)
  PROVE  SetToSeq(S) \in Seq(S)
<1>1. Cardinality(S) \in Nat /\ ExistsBijection(1..Cardinality(S), S)
  BY FS_CardinalityType
<1>2. PICK f \in [1..Cardinality(S) -> S] : IsInjective(f)
  BY <1>1 DEF ExistsBijection, Bijection, Injection, IsInjective
<1>. DEFINE g == CHOOSE h \in [1..Cardinality(S) -> S] : IsInjective(h)
<1>3. g \in [1..Cardinality(S) -> S]
  BY <1>2
<1>4. SetToSeq(S) = g
  BY DEF SetToSeq
<1>. HIDE DEF g
<1>. QED BY <1>1, <1>3, <1>4

\* Effects as their contract has them, each of some type.
Typed(effects) == Proposable(effects) /\ \A i \in DOMAIN effects : "type" \in DOMAIN effects[i]

TypedEffect(e) == WellFormed(e) /\ "type" \in DOMAIN e

\* An adjudication of an actor.
AdjOf(a, adj) ==
  DOMAIN adj = AdjudicationFields /\ adj.actor = a /\ Typed(adj.success) /\ Typed(adj.failure)

\* A sequence of such effects.
LEMMA TypedAll ==
  ASSUME NEW S, NEW t \in Seq(S), \A e \in S : TypedEffect(e)
  PROVE  Typed(t)
<1>1. IsSequence(t) /\ DOMAIN t = 1..Len(t)
  BY SequenceOf
<1>2. \A i \in DOMAIN t : t[i] \in S
  BY <1>1
<1>. QED BY <1>1, <1>2 DEF Typed, Proposable, IsSequence, TypedEffect

\* And back.
LEMMA TypedEach ==
  ASSUME NEW t, Typed(t)
  PROVE  /\ t \in Seq({t[i] : i \in DOMAIN t}) /\ DOMAIN t = 1..Len(t) /\ Len(t) \in Nat
         /\ \A i \in DOMAIN t : TypedEffect(t[i])
<1>1. IsSequence(t)
  BY DEF Typed, Proposable, IsSequence
<1>2. DOMAIN t = 1..Len(t) /\ Len(t) \in Nat
  BY <1>1, SequenceOf DEF IsSequence
<1>. QED BY <1>1, <1>2 DEF Typed, Proposable, IsSequence, TypedEffect

\* The effects the host builds itself.
LEMMA HostEffects ==
  /\ TypedEffect(Narrative)
  /\ \A l : TypedEffect(EnterPlace(l))
  /\ \A p, l : l # None => TypedEffect(MovePerson(p, l))
  /\ \A v, l : v # None => TypedEffect([type |-> "ensure_runtime_location", id |-> v,
                                        connected |-> l, parent |-> None])
<1>1. /\ TypedEffect(Narrative)
      /\ \A l : TypedEffect(EnterPlace(l))
  BY DEF Narrative, EnterPlace, TypedEffect, WellFormed
<1>2. ASSUME NEW p, NEW l, l # None PROVE TypedEffect(MovePerson(p, l))
  <2>. DEFINE e == MovePerson(p, l)
  <2>1. e.type = "move_entity" /\ e.at = l /\ e.holder = None /\ "type" \in DOMAIN e
    BY DEF MovePerson
  <2>. HIDE DEF e
  <2>2. TypedEffect(e)
    BY <1>2, <2>1 DEF TypedEffect, WellFormed
  <2>. QED BY <2>2 DEF e
<1>3. ASSUME NEW v, NEW l, v # None
      PROVE  TypedEffect([type |-> "ensure_runtime_location", id |-> v, connected |-> l, parent |-> None])
  BY <1>3 DEF TypedEffect, WellFormed
<1>. QED BY <1>1, <1>2, <1>3

\* Owning nothing, and telling only, are typed sequences.
LEMMA FewEffects ==
  Typed(<<>>) /\ Typed(<<Narrative>>)
<1>. DEFINE S == {Narrative}
            t == <<Narrative>>
<1>1. <<>> \in Seq(S) /\ t \in Seq(S)
  OBVIOUS
<1>2. \A e \in S : TypedEffect(e)
  BY HostEffects
<1>3. Typed(<<>>) /\ Typed(t)
  <2>. HIDE DEF S, t
  <2>. QED BY <1>1, <1>2, TypedAll
<1>. QED BY <1>3

\* A decision the host builds, whatever its target, family and wording.
LEMMA DecisionIs ==
  ASSUME NEW a, NEW target, NEW family, NEW effects, Typed(effects), NEW goal
  PROVE  AdjOf(a, Decision(a, target, family, effects, goal))
BY FewEffects DEF Decision, AdjOf, AdjudicationFields

\* Those who come along, each moved to a place there is.
LEMMA CompanionsMove ==
  ASSUME NEW s, NEW said, IsFiniteSet(said.people), NEW to, to # None
  PROVE  \E S : /\ IsFiniteSet(S) /\ CompanionMoves(s, said, to) \in Seq(S)
                /\ \A e \in S : TypedEffect(e) /\ e.type = "move_entity"
<1>. DEFINE P == {x \in Requested(s, said) : WhereIs(s, x) = s.scene}
            S == {MovePerson(e, to) : e \in P}
<1>1. IsFiniteSet(P)
  <2>1. P \subseteq said.people
    BY DEF Requested
  <2>. QED BY <2>1, FS_Subset
<1>2. IsFiniteSet(S)
  <2>. DEFINE g == [e \in P |-> MovePerson(e, to)]
  <2>1. S = {g[e] : e \in P}
    OBVIOUS
  <2>2. DOMAIN g = P
    OBVIOUS
  <2>. HIDE DEF P, g
  <2>. QED BY <1>1, <2>1, <2>2, ImageIsFinite
<1>3. CompanionMoves(s, said, to) = SetToSeq(S)
  BY DEF CompanionMoves
<1>4. \A e \in S : TypedEffect(e) /\ e.type = "move_entity"
  BY HostEffects DEF MovePerson
<1>. QED BY <1>2, <1>3, <1>4, Ordered

\* What the view settles is of the actor, and its effects are the host's own.
LEMMA DeterministicIs ==
  ASSUME NEW s, NEW a, NEW ctx, IsFiniteSet(ctx.said.people), Deterministic(s, a, ctx) # None
  PROVE  AdjOf(a, Deterministic(s, a, ctx))
<1>2. ASSUME NEW to, TravelsTo(s, a, ctx, to) # None PROVE AdjOf(a, TravelsTo(s, a, ctx, to))
  <2>1. ASSUME Ambient(s, a, ctx) # None PROVE AdjOf(a, Ambient(s, a, ctx))
    <3>. DEFINE v == ctx.goal.venue
                new == [type |-> "ensure_runtime_location", id |-> v,
                        connected |-> Anchor(s, a), parent |-> None]
    <3>1. v # None /\ Ambient(s, a, ctx) = Coined(a, v, Anchor(s, a), ctx.goal)
      BY <2>1 DEF Ambient
    <3>2. Typed(<<new, EnterPlace(v)>>)
      <4>. DEFINE S == {new, EnterPlace(v)}
                  both == <<new, EnterPlace(v)>>
      <4>1. \A e \in S : TypedEffect(e)
        BY <3>1, HostEffects
      <4>2. both \in Seq(S)
        <5>. HIDE DEF new
        <5>. QED OBVIOUS
      <4>3. Typed(both)
        <5>. HIDE DEF S, both
        <5>. QED BY <4>1, <4>2, TypedAll
      <4>. QED BY <4>3
    <3>. QED BY <3>1, <3>2, DecisionIs DEF Coined
  <2>2. CASE to = None
    BY <1>2, <2>1, <2>2 DEF TravelsTo
  <2>3. CASE to # None /\ to = s.scene
    BY <2>3, DecisionIs, FewEffects DEF TravelsTo
  <2>4. CASE to # None /\ to # s.scene
    <3>. DEFINE along == CompanionMoves(s, ctx.said, to)
    <3>1. PICK S : along \in Seq(S) /\ \A e \in S : TypedEffect(e)
      BY <2>4, CompanionsMove
    <3>2. <<EnterPlace(to)>> \o along \in Seq(S \cup {EnterPlace(to)})
      BY <3>1
    <3>3. \A e \in S \cup {EnterPlace(to)} : TypedEffect(e)
      BY <3>1, HostEffects
    <3>4. Typed(<<EnterPlace(to)>> \o along)
      <4>. HIDE DEF along
      <4>. QED BY <3>2, <3>3, TypedAll
    <3>5. TravelsTo(s, a, ctx, to) =
            Decision(a, Place(to), "travel", <<EnterPlace(to)>> \o along, ctx.goal)
      BY <2>4, Zenon DEF TravelsTo
    <3>. QED BY <3>4, <3>5, DecisionIs
  <2>. QED BY <2>2, <2>3, <2>4
<1>3. ASSUME NEW target, NEW rule, ActsOn(s, a, ctx, target, rule) # None
      PROVE  AdjOf(a, ActsOn(s, a, ctx, target, rule))
  <2>1. CASE rule # None
    <3>1. PICK kind, id, family, option, checked :
            RuleDecision(s, a, ctx, rule, target) =
              [Decision(a, [kind |-> kind, id |-> id], family, <<>>, ctx.goal)
                 EXCEPT !.rule = [rule |-> rule, option |-> option], !.checked = checked]
      BY Zenon DEF RuleDecision
    <3>. DEFINE d == Decision(a, [kind |-> kind, id |-> id], family, <<>>, ctx.goal)
    <3>2. AdjOf(a, d)
      BY DecisionIs, FewEffects
    <3>. HIDE DEF d
    <3>3. AdjOf(a, [d EXCEPT !.rule = [rule |-> rule, option |-> option], !.checked = checked])
      BY <3>2 DEF AdjOf, AdjudicationFields
    <3>4. ActsOn(s, a, ctx, target, rule) = RuleDecision(s, a, ctx, rule, target)
      BY <2>1, Zenon DEF ActsOn
    <3>. QED BY <3>1, <3>3, <3>4 DEF d
  <2>2. CASE rule = None /\ ctx.kind = "dialogue" /\ target # None
    BY <2>2, DecisionIs, FewEffects DEF ActsOn
  <2>3. CASE ~(rule # None) /\ ~(rule = None /\ ctx.kind = "dialogue" /\ target # None)
    BY <1>3, <2>3 DEF ActsOn
  <2>. QED BY <2>1, <2>2, <2>3
<1>4. CASE ctx.kind \in {"wait", "rest"}
  BY <1>4 DEF Deterministic
<1>5. CASE ctx.kind \notin {"wait", "rest"} /\ ctx.kind = "travel"
  <2>1. Deterministic(s, a, ctx) = Travels(s, a, ctx)
    BY <1>5 DEF Deterministic
  <2>. QED BY <1>2, <2>1, Zenon DEF Travels
<1>6. CASE ctx.kind \notin {"wait", "rest"} /\ ctx.kind # "travel"
  <2>1. Deterministic(s, a, ctx) = Acts(s, a, ctx)
    BY <1>6 DEF Deterministic
  <2>. QED BY <1>3, <2>1, Zenon DEF Acts
<1>. QED BY <1>4, <1>5, <1>6

\* Without a model, too.
LEMMA OfflineIs ==
  ASSUME NEW s, NEW a, NEW ctx, IsFiniteSet(ctx.said.people)
  PROVE  AdjOf(a, Offline(s, a, ctx))
<1>1. PICK target : Offline(s, a, ctx) = Preferred(Deterministic(s, a, ctx),
                                   Decision(a, target, ctx.kind, <<Narrative>>, ctx.goal))
  BY Zenon DEF Offline
<1>2. AdjOf(a, Decision(a, target, ctx.kind, <<Narrative>>, ctx.goal))
  BY DecisionIs, FewEffects
<1>. QED BY <1>1, <1>2, DeterministicIs DEF Preferred

\* What stays where it is.
LEMMA UnresolvedIs ==
  ASSUME NEW s, NEW a, NEW adj, AdjOf(a, adj), NEW words
  PROVE  AdjOf(a, Unresolved(s, adj, words))
BY FewEffects DEF Unresolved, AdjOf, AdjudicationFields

\* What the host lets through of a proposal.
LEMMA RuleFirstIs ==
  ASSUME NEW s, NEW a, NEW ctx, IsFiniteSet(ctx.said.people), NEW proposals,
         \A p \in proposals : AdjOf(a, p),
         NEW d \in RuleFirst(s, a, ctx, proposals), d # NotFound
  PROVE  AdjOf(a, d)
<1>1. CASE d = Deterministic(s, a, ctx) /\ d # None
  BY <1>1, DeterministicIs
<1>2. CASE \E p \in proposals : d = Guarded(s, a, ctx, p)
  <2>1. PICK p \in proposals : d = Guarded(s, a, ctx, p)
    BY <1>2
  <2>2. d \in {p, NotFound, Unresolved(s, p, ctx.said.words)}
    BY <2>1, Zenon DEF Guarded
  <2>. QED BY <2>2, UnresolvedIs
<1>. QED BY <1>1, <1>2 DEF RuleFirst

\* A proposal bound for another place is one still.
LEMMA RedirectedIs ==
  ASSUME NEW s, NEW a, NEW adj, AdjOf(a, adj), NEW said, IsFiniteSet(said.people),
         NEW to, to # None
  PROVE  AdjOf(a, Redirected(adj, s, said, to))
<1>. DEFINE moves == CompanionMoves(s, said, to)
            missing == SetToSeq({m \in ToSet(moves) : m.id \notin
                                   {adj.success[i].id : i \in {j \in 1..Len(adj.success) :
                                             adj.success[j].type = "move_entity"}}})
            along == {moves[i].id : i \in 1..Len(moves)}
            Bound(e) == CASE e.type = "enter_location" -> EnterPlace(to)
                          [] e.type = "move_entity" ->
                               IF e.id \in along THEN MovePerson(e.id, to) ELSE e
                          [] OTHER -> e
            bound == [i \in 1..Len(adj.success) |-> Bound(adj.success[i])]
<1>1. PICK S : IsFiniteSet(S) /\ moves \in Seq(S) /\ \A e \in S : TypedEffect(e)
  BY CompanionsMove
<1>2. missing \in Seq(S)
  <2>1. PICK M : M = {m \in ToSet(moves) : m.id \notin
                                   {adj.success[i].id : i \in {j \in 1..Len(adj.success) :
                                             adj.success[j].type = "move_entity"}}}
    OBVIOUS
  <2>2. M \subseteq S
    <3>. HIDE DEF moves
    <3>. QED BY <1>1, <2>1 DEF ToSet
  <2>3. IsFiniteSet(M)
    BY <1>1, <2>2, FS_Subset
  <2>4. SetToSeq(M) \in Seq(M)
    BY <2>3, Ordered
  <2>5. SetToSeq(M) \in Seq(S)
    BY <2>2, <2>4
  <2>. QED BY <2>1, <2>5
<1>3. /\ DOMAIN adj.success = 1..Len(adj.success) /\ Len(adj.success) \in Nat
      /\ \A i \in 1..Len(adj.success) : TypedEffect(adj.success[i])
  BY TypedEach DEF AdjOf
<1>4. ASSUME NEW i \in 1..Len(adj.success) PROVE TypedEffect(bound[i])
  <2>. DEFINE e == adj.success[i]
  <2>1. bound[i] = Bound(e) /\ TypedEffect(e)
    BY <1>3
  <2>2. Bound(e) \in {e, EnterPlace(to), MovePerson(e.id, to)}
    <3>. HIDE DEF e, along
    <3>1. CASE e.type = "enter_location"
      BY <3>1
    <3>2. CASE e.type # "enter_location" /\ e.type = "move_entity"
      BY <3>2
    <3>3. CASE e.type # "enter_location" /\ e.type # "move_entity"
      BY <3>3
    <3>. QED BY <3>1, <3>2, <3>3
  <2>. HIDE DEF e, bound, Bound
  <2>. QED BY <2>1, <2>2, HostEffects
<1>5. PICK T : T = S \cup {bound[i] : i \in 1..Len(adj.success)}
  OBVIOUS
<1>6. \A e \in T : TypedEffect(e)
  <2>. HIDE DEF bound
  <2>. QED BY <1>1, <1>4, <1>5
<1>7. bound \in Seq(T) /\ missing \in Seq(T)
  <2>1. bound \in [1..Len(adj.success) -> T]
    <3>. HIDE DEF Bound
    <3>. QED BY <1>5
  <2>2. missing \in Seq(T)
    <3>. HIDE DEF missing
    <3>. QED BY <1>2, <1>5
  <2>. HIDE DEF bound, missing
  <2>. QED BY <1>3, <2>1, <2>2
<1>8. Typed(bound \o missing)
  <2>. HIDE DEF bound, missing
  <2>1. bound \o missing \in Seq(T)
    BY <1>7
  <2>. QED BY <1>6, <2>1, TypedAll
<1>9. PICK target : Redirected(adj, s, said, to) =
        [adj EXCEPT !.target = target, !.intent = "location", !.success = bound \o missing]
  BY Zenon DEF Redirected
<1>. HIDE DEF bound, missing
<1>. QED BY <1>8, <1>9 DEF AdjOf, AdjudicationFields

\* What becomes of a model's single action, if not two journeys.
LEMMA NormalizedIs ==
  ASSUME NEW s, NEW a, NEW adj, AdjOf(a, adj), NEW said, IsFiniteSet(said.people),
         NEW named, Normalized(s, said, adj, named).steps = <<>>
  PROVE  AdjOf(a, Normalized(s, said, adj, named).adj)
<1>. DEFINE there == [adj EXCEPT !.summary = [Silent EXCEPT !.text = named],
                              !.how = [Silent EXCEPT !.text = named],
                              !.target = Place(named), !.family = "action", !.intent = "none",
                              !.checked = FALSE, !.success = <<Narrative>>, !.failure = <<>>]
            n == Normalized(s, said, adj, named)
<1>1. AdjOf(a, there)
  BY FewEffects DEF AdjOf, AdjudicationFields
<1>2. PICK to : \/ n = Single(there)
                \/ n = Single(Unresolved(s, adj, said.words))
                \/ n = Single(adj)
                \/ n = Meeting(s, said, to)
                \/ to # None /\ n = Single(Redirected(adj, s, said, to))
  BY Zenon DEF Normalized
<1>3. n # Meeting(s, said, to)
  <2>1. PICK one, two : Meeting(s, said, to).steps = <<one, two>>
    BY DEF Meeting
  <2>2. <<one, two>> # <<>>
    OBVIOUS
  <2>. QED BY <2>1, <2>2
<1>4. \A d : Single(d).adj = d
  BY DEF Single
<1>5. AdjOf(a, n.adj)
  <2>. HIDE DEF n, there
  <2>1. AdjOf(a, Unresolved(s, adj, said.words))
    BY UnresolvedIs
  <2>2. to # None => AdjOf(a, Redirected(adj, s, said, to))
    BY RedirectedIs
  <2>. QED BY <1>1, <1>2, <1>3, <1>4, <2>1, <2>2
<1>. QED BY <1>5

-----------------------------------------------------------------------------
(* What the engine takes, and what a repair may change. *)

\* A sequence that is not refused is valid.
LEMMA NotRefused ==
  ASSUME NEW s, NEW effects, Len(effects) \in Nat, NEW consented,
         SequenceCode(s, effects, consented) = None
  PROVE  ValidSequence(s, effects, consented)
<1>. DEFINE f == CHOOSE f : Scoping(s, effects, f, Len(effects))
            c == [i \in 1..Len(effects) |-> EffectCode(f[i - 1], effects[i], consented)]
            refused == {i \in DOMAIN c : c[i] # None}
            first == CHOOSE i \in refused : \A j \in refused : i <= j
<1>1. (IF refused = {} THEN None ELSE c[first]) = None
  BY DEF SequenceCode, Scoping
<1>2. refused = {}
  <2>1. SUFFICES ASSUME refused # {} PROVE FALSE
    OBVIOUS
  <2>2. refused \subseteq 0..Len(effects)
    OBVIOUS
  <2>3. \E i \in refused : \A j \in refused : i <= j
    <3>. HIDE DEF refused
    <3>. QED BY <2>1, <2>2, SmallestNumber
  <2>4. first \in refused
    <3>. HIDE DEF refused
    <3>. QED BY <2>3
  <2>5. c[first] # None
    <3>. HIDE DEF first
    <3>. QED BY <2>4
  <2>. QED BY <1>1, <2>1, <2>5
<1>3. ASSUME NEW i \in 1..Len(effects)
      PROVE  /\ Registered(effects[i]) /\ ValidEntry(f[i - 1], effects[i])
             /\ ValidTime(f[i - 1], effects[i], consented)
  <2>1. EffectCode(f[i - 1], effects[i], consented) = None
    <3>1. i \in DOMAIN c /\ c[i] = EffectCode(f[i - 1], effects[i], consented)
      <4>. HIDE DEF f
      <4>. QED OBVIOUS
    <3>. HIDE DEF c
    <3>. QED BY <1>2, <3>1
  <2>. DEFINE v == f[i - 1]
              e == effects[i]
  <2>. HIDE DEF v, e
  <2>2. ASSUME EffectCode(v, e, consented) = None
        PROVE  Registered(e) /\ ValidEntry(v, e) /\ ValidTime(v, e, consented)
    <3>1. Registered(e)
      BY <2>2, HostAssumption DEF EffectCode
    <3>2. ValidEntry(v, e)
      BY <2>2, <3>1, HostAssumption DEF EffectCode
    <3>. QED BY <2>2, <3>1, <3>2, HostAssumption DEF EffectCode
  <2>. QED BY <2>1, <2>2 DEF v, e
<1>. QED BY <1>3 DEF ValidSequence, Scoping

\* What is not refused is valid.
LEMMA AcceptedIsValid ==
  ASSUME NEW adj, Typed(adj.success), Typed(adj.failure), NEW made,
         Rejection(game, commands, adj, made) = None
  PROVE  Valid(adj)
<1>. DEFINE target == [adj.target EXCEPT !.kind = NormalizedKind(game, adj.target)]
            problem == IF adj.rule = None THEN PersistenceProblem(adj) ELSE None
            success == SequenceCode(game, adj.success, adj.consented)
            failure == SequenceCode(game, adj.failure, adj.consented)
            inner == IF adj.rule # None /\ ~Declared(adj.rule) THEN "UNKNOWN_RULE"
                     ELSE IF adj.rule # None /\ ~ScopeAdmits(RuleOf(adj.rule), game.scene, adj.family, target)
                     THEN "RULE_OUT_OF_SCOPE"
                     ELSE Preferred(problem, Preferred(success, failure))
<1>1. Rejection(game, commands, adj, made) =
        CASE made # commands -> "SOURCE_REVISION_STALE"
          [] made = commands /\ target.kind \notin KindsOf(game, target.id) -> "TARGET_UNAVAILABLE"
          [] OTHER -> inner
  BY Zenon DEF Rejection
<1>2. made = commands /\ target.kind \in KindsOf(game, target.id) /\ inner = None
  <2>. HIDE DEF target, inner
  <2>. QED BY <1>1, HostAssumption
<1>3. /\ adj.rule # None => /\ Declared(adj.rule)
                            /\ ScopeAdmits(RuleOf(adj.rule), game.scene, adj.family, target)
      /\ problem = None /\ success = None /\ failure = None
  <2>. HIDE DEF target, problem, success, failure
  <2>. QED BY <1>2, HostAssumption DEF Preferred
<1>4. /\ ValidSequence(game, adj.success, adj.consented)
      /\ ValidSequence(game, adj.failure, adj.consented)
  <2>1. Len(adj.success) \in Nat /\ Len(adj.failure) \in Nat
    BY TypedEach
  <2>. QED BY <1>3, <2>1, NotRefused
<1>. HIDE DEF success, failure
<1>. QED BY <1>2, <1>3, <1>4, Zenon DEF Valid

\* The effects of a branch as the repair of a target words them.
Rewritten(before, old, new) == [i \in 1..Len(before) |-> Retargeted(before[i], old, new)]

\* The effects of an action that do something, one by one, are of the same types
\* when they are written for another target and more is told.
LEMMA BranchKinds ==
  ASSUME NEW before, Typed(before), NEW after, Typed(after), NEW old, NEW new, NEW branch, NEW code,
         BranchKept(branch, Rewritten(before, old, new), after, code),
         \/ branch = "failure"
         \/ code \notin {"PERSISTENT_EFFECT_REQUIRED", "PERSISTENT_EFFECT_MISMATCH",
                         "INVENTORY_TARGET_NOT_PORTABLE"}
  PROVE  Kinds(after) = Kinds(before)
<1>. DEFINE aligned == [i \in 1..Len(before) |-> Retargeted(before[i], old, new)]
            n == Len(before)
<1>1. /\ DOMAIN before = 1..n /\ n \in Nat /\ \A i \in 1..n : TypedEffect(before[i])
      /\ DOMAIN after = 1..Len(after) /\ Len(after) \in Nat
  BY TypedEach
<1>2. DOMAIN aligned = 1..n /\ Len(aligned) = n
  <2>1. aligned \in Seq({aligned[i] : i \in 1..n})
    <3>1. aligned \in [1..n -> {aligned[i] : i \in 1..n}]
      OBVIOUS
    <3>. HIDE DEF aligned, n
    <3>. QED BY <1>1, <3>1, SMTT(20)
  <2>2. DOMAIN aligned = 1..n
    OBVIOUS
  <2>. HIDE DEF aligned, n
  <2>. QED BY <1>1, <2>1, <2>2
<1>3. \A i \in 1..n : aligned[i].type = before[i].type
  <2>1. ASSUME NEW e, TypedEffect(e) PROVE Retargeted(e, old, new).type = e.type
    BY <2>1 DEF TypedEffect, Retargeted
  <2>. QED BY <1>1, <2>1
<1>4. /\ Len(after) >= n
      /\ \A i \in 1..n : after[i] = aligned[i]
      /\ \A i \in n + 1..Len(after) : after[i].type = "narrative_only"
  <2>1. \/ aligned = after
        \/ /\ Len(after) >= n /\ SubSeq(after, 1, n) = aligned
           /\ \A i \in n + 1..Len(after) : after[i] = Narrative
    <3>1. BranchKept(branch, aligned, after, code)
      BY DEF Rewritten
    <3>. HIDE DEF aligned
    <3>. QED BY <1>2, <3>1 DEF BranchKept, PersistenceRepaired
  <2>. HIDE DEF aligned, n
  <2>2. CASE aligned = after
    BY <1>1, <1>2, <2>2
  <2>3. CASE /\ Len(after) >= n /\ SubSeq(after, 1, n) = aligned
             /\ \A i \in n + 1..Len(after) : after[i] = Narrative
    <3>1. \A i \in 1..n : SubSeq(after, 1, n)[i] = after[i]
      <4>1. after \in Seq({after[i] : i \in DOMAIN after})
        BY TypedEach
      <4>. QED BY <1>1, <2>3, <4>1
    <3>2. Narrative.type = "narrative_only"
      BY DEF Narrative
    <3>. QED BY <2>3, <3>1, <3>2
  <2>. QED BY <2>1, <2>2, <2>3
<1>5. PICK A : A = {j \in DOMAIN after : after[j].type # "narrative_only"}
  OBVIOUS
<1>6. A = {j \in DOMAIN before : before[j].type # "narrative_only"}
  <2>. HIDE DEF aligned, n
  <2>. QED BY <1>1, <1>3, <1>4, <1>5
<1>7. \A i \in A : after[i].type = before[i].type
  <2>. HIDE DEF aligned, n
  <2>. QED BY <1>1, <1>3, <1>4, <1>5, <1>6
<1>. QED BY <1>5, <1>6, <1>7 DEF Kinds

\* A repair that was accepted keeps the mechanics of the action.
LEMMA PreservedKeeps ==
  ASSUME NEW s, NEW a, NEW said, NEW before, NEW after, AdjOf(a, before), AdjOf(a, after), NEW code,
         Preserved(s, a, said, before, after, code)
  PROVE  /\ after.checked = before.checked /\ after.rule \in {before.rule, None}
         /\ Kinds(after.failure) = Kinds(before.failure)
         /\ code \notin {"PERSISTENT_EFFECT_REQUIRED", "PERSISTENT_EFFECT_MISMATCH",
                         "INVENTORY_TARGET_NOT_PORTABLE"}
              => Kinds(after.success) = Kinds(before.success)
<1>1. /\ before.rule = after.rule \/ RuleDropped(before, after, code)
      /\ before.checked = after.checked
      /\ BranchKept("success", Rewritten(before.success, before.target.id, after.target.id),
                    after.success, code)
      /\ BranchKept("failure", Rewritten(before.failure, before.target.id, after.target.id),
                    after.failure, code)
  BY Zenon DEF Preserved, Rewritten
<1>2. /\ Typed(before.success) /\ Typed(before.failure)
      /\ Typed(after.success) /\ Typed(after.failure)
  BY DEF AdjOf
<1>3. Kinds(after.failure) = Kinds(before.failure)
  BY <1>1, <1>2, BranchKinds
<1>4. code \notin {"PERSISTENT_EFFECT_REQUIRED", "PERSISTENT_EFFECT_MISMATCH",
                  "INVENTORY_TARGET_NOT_PORTABLE"}
        => Kinds(after.success) = Kinds(before.success)
  BY <1>1, <1>2, BranchKinds
<1>5. after.rule \in {before.rule, None}
  BY <1>1 DEF RuleDropped
<1>. QED BY <1>1, <1>3, <1>4, <1>5

-----------------------------------------------------------------------------
(* A turn of the host. *)

TurnFields == {"at", "actor", "said", "steps", "adj", "first", "decided", "made", "attempts",
               "code", "codes", "named"}

\* What was asked for first is what the action still does.
Unsmuggled(t) ==
  /\ t.adj.checked = t.first.checked
  /\ t.adj.rule \in {t.first.rule, None}
  /\ Kinds(t.adj.failure) = Kinds(t.first.failure)
  /\ t.codes \cap {"PERSISTENT_EFFECT_REQUIRED", "PERSISTENT_EFFECT_MISMATCH",
                   "INVENTORY_TARGET_NOT_PORTABLE"} = {}
     => Kinds(t.adj.success) = Kinds(t.first.success)

TurnOK(t) ==
  /\ DOMAIN t = TurnFields
  /\ t.at \in Ended \cup {"decided", "step", "bound", "sent", "repair", "committed"}
  /\ t.at \notin Ended => t.actor \in Actors /\ t.said \in Utterances
  /\ t.at \in {"decided", "bound", "sent", "repair"} => AdjOf(t.actor, t.adj) /\ Unsmuggled(t)
  /\ t.at = "repair" => t.code \in t.codes

HostInv == TurnOK(turn)

\* Nobody's turn.
LEMMA NoTurnIs == DOMAIN NoTurn = TurnFields
BY DEF NoTurn, TurnFields

\* A turn that ends, however it does.
LEMMA EndTurnOK ==
  ASSUME NEW how \in Ended, EndTurn(how)
  PROVE  TurnOK(turn')
<1>1. turn' = [NoTurn EXCEPT !.at = how]
  BY DEF EndTurn
<1>2. DOMAIN turn' = TurnFields /\ turn'.at = how
  BY <1>1, NoTurnIs DEF TurnFields
<1>. QED BY <1>2 DEF TurnOK, Ended

\* What the model proposes for an actor.
LEMMA ProposedIs == ASSUME NEW a, NEW d \in Proposed(a) PROVE AdjOf(a, d)
<1>. PICK p \in Proposals : d = By(a, p)
  BY DEF Proposed
<1>1. DOMAIN p = AdjudicationFields /\ Typed(p.success) /\ Typed(p.failure)
  BY HostAssumption DEF Typed
<1>. QED BY <1>1 DEF By, AdjOf, AdjudicationFields

\* A turn that begins with a step of a plan, or with a decision as it was first made.
LEMMA TakenOK ==
  ASSUME NEW a \in Actors, NEW said \in Utterances, NEW begun, DOMAIN begun = TurnFields,
         begun.actor = a, begun.said = said, NEW n, n.steps = <<>> => AdjOf(a, n.adj)
  PROVE  TurnOK(IF n.steps # <<>> THEN [begun EXCEPT !.at = "step", !.steps = n.steps]
                ELSE [begun EXCEPT !.at = "decided", !.adj = n.adj, !.first = n.adj])
<1>1. CASE n.steps # <<>>
  <2>. DEFINE t == [begun EXCEPT !.at = "step", !.steps = n.steps]
  <2>1. DOMAIN t = TurnFields /\ t.at = "step" /\ t.actor = a /\ t.said = said
    BY DEF TurnFields
  <2>. HIDE DEF t
  <2>2. TurnOK(t)
    BY <2>1 DEF TurnOK, Ended
  <2>. QED BY <1>1, <2>2 DEF t
<1>2. CASE n.steps = <<>>
  <2>. DEFINE t == [begun EXCEPT !.at = "decided", !.adj = n.adj, !.first = n.adj]
  <2>1. /\ DOMAIN t = TurnFields /\ t.at = "decided" /\ t.actor = a
        /\ t.said = said /\ t.adj = n.adj /\ t.first = n.adj
    BY DEF TurnFields
  <2>. HIDE DEF t
  <2>2. Unsmuggled(t)
    BY <2>1 DEF Unsmuggled
  <2>3. TurnOK(t)
    BY <1>2, <2>1, <2>2 DEF TurnOK
  <2>. QED BY <1>2, <2>3 DEF t
<1>. QED BY <1>1, <1>2

\* start: whatever a model answers.
LEMMA UnderstandOK ==
  ASSUME NEW a \in Actors, NEW said \in Utterances
  PROVE  \A t \in Beginnings(a, said) : TurnOK(t)
<1>. DEFINE named == TravelTarget(game, a, said.words)
            answers == Proposed(a) \cup {Offline(game, a, Spoken(said, said.kind))}
            begun == [NoTurn EXCEPT !.actor = a, !.said = said, !.decided = commands,
                                      !.named = named]
            Taken(n) == IF n.steps # <<>> THEN [begun EXCEPT !.at = "step", !.steps = n.steps]
                        ELSE [begun EXCEPT !.at = "decided", !.adj = n.adj, !.first = n.adj]
<1>1. DOMAIN begun = TurnFields /\ begun.actor = a /\ begun.said = said
  BY NoTurnIs DEF TurnFields
<1>2. Beginnings(a, said) =
        IF said.plan # <<>> THEN {[begun EXCEPT !.at = "step", !.steps = said.plan]}
        ELSE {Taken(Normalized(game, said, p, named)) : p \in answers}
  BY Zenon DEF Beginnings
<1>. HIDE DEF named, begun
<1>3. CASE said.plan # <<>>
  <2>. DEFINE n == [steps |-> said.plan]
  <2>1. n.steps = said.plan
    OBVIOUS
  <2>. HIDE DEF n
  <2>2. TurnOK(Taken(n))
    BY <1>1, <1>3, <2>1, TakenOK, Zenon
  <2>3. Taken(n) = [begun EXCEPT !.at = "step", !.steps = said.plan]
    BY <1>3, <2>1
  <2>. QED BY <1>2, <1>3, <2>2, <2>3
<1>4. CASE said.plan = <<>>
  <2>1. IsFiniteSet(said.people) /\ IsFiniteSet(Spoken(said, said.kind).said.people)
    BY HostAssumption DEF Spoken
  <2>2. ASSUME NEW p \in answers PROVE TurnOK(Taken(Normalized(game, said, p, named)))
    <3>1. AdjOf(a, p)
      BY <2>1, ProposedIs, OfflineIs
    <3>. DEFINE n == Normalized(game, said, p, named)
    <3>2. n.steps = <<>> => AdjOf(a, n.adj)
      BY <2>1, <3>1, NormalizedIs
    <3>. HIDE DEF n
    <3>3. TurnOK(Taken(n))
      BY <1>1, <3>2, TakenOK, Zenon
    <3>. QED BY <3>3 DEF n
  <2>. HIDE DEF answers, Taken
  <2>. QED BY <1>2, <1>4, <2>2, Zenon
<1>. QED BY <1>3, <1>4

\* The view of a step is that of its turn.
LEMMA ViewOfTurn == ASSUME TurnOK(turn), turn.at \notin Ended PROVE IsFiniteSet(Ctx.said.people)
<1>1. Ctx.said = turn.said
  BY DEF Ctx
<1>. QED BY <1>1, HostAssumption DEF TurnOK

\* Bind: the decision stays.
LEMMA BindOK == ASSUME TurnOK(turn), Bind PROVE TurnOK(turn')
<1>1. turn.at = "decided" /\ turn' = [turn EXCEPT !.at = "bound", !.made = commands]
  BY DEF Bind
<1>2. /\ DOMAIN turn' = TurnFields /\ turn'.at = "bound"
      /\ \A f \in TurnFields \ {"at", "made"} : turn'[f] = turn[f]
  BY <1>1 DEF TurnOK, TurnFields
<1>3. turn.at \notin Ended
  BY <1>1 DEF Ended
<1>. QED BY <1>1, <1>2, <1>3 DEF TurnOK, Unsmuggled, TurnFields

\* A step is decided.
LEMMA DecideStepOK ==
  ASSUME TurnOK(turn), DecideStep
  PROVE  TurnOK(turn')
<1>. PICK d \in RuleFirst(game, turn.actor, Ctx, Proposed(turn.actor)) : Freeze(d)
  BY DEF DecideStep
<1>1. turn.at = "step" /\ turn.at \notin Ended /\ Freeze(d)
  BY DEF DecideStep, Ended
<1>2. d # NotFound => AdjOf(turn.actor, d)
  BY <1>1, ViewOfTurn, ProposedIs, RuleFirstIs
<1>3. CASE d = NotFound
  BY <1>1, <1>3, EndTurnOK DEF Freeze, Ended
<1>4. CASE d # NotFound
  <2>1. PICK named : turn' = [turn EXCEPT !.at = "bound", !.adj = d, !.first = d,
             !.decided = commands, !.made = commands, !.attempts = 0, !.codes = {}, !.named = named]
    BY <1>1, <1>4, Zenon DEF Freeze
  <2>2. /\ DOMAIN turn' = TurnFields /\ turn'.at = "bound" /\ turn'.actor = turn.actor
        /\ turn'.said = turn.said /\ turn'.adj = d /\ turn'.first = d
    BY <2>1 DEF TurnOK, TurnFields
  <2>3. Unsmuggled(turn')
    BY <2>2 DEF Unsmuggled
  <2>. QED BY <1>1, <1>2, <1>4, <2>2, <2>3 DEF TurnOK
<1>. QED BY <1>3, <1>4

\* A repair: what is sent again does what was sent.
LEMMA RepairOK ==
  ASSUME TurnOK(turn), Repair
  PROVE  TurnOK(turn')
<1>. PICK d \in RuleFirst(game, turn.actor, Ctx, Proposed(turn.actor)) : Resend(d)
  BY DEF Repair
<1>1. turn.at = "repair" /\ turn.at \notin Ended /\ Resend(d)
  BY DEF Repair, Ended
<1>2. d # NotFound => AdjOf(turn.actor, d)
  BY <1>1, ViewOfTurn, ProposedIs, RuleFirstIs
<1>3. CASE d = NotFound \/ ~Preserved(game, turn.actor, turn.said, turn.adj, d, turn.code)
  BY <1>1, <1>3, EndTurnOK DEF Resend, Ended
<1>4. CASE d # NotFound /\ Preserved(game, turn.actor, turn.said, turn.adj, d, turn.code)
  <2>1. turn' = [turn EXCEPT !.at = "bound", !.adj = d, !.decided = commands,
                            !.made = commands, !.attempts = @ + 1]
    BY <1>1, <1>4 DEF Resend
  <2>2. /\ DOMAIN turn' = TurnFields /\ turn'.at = "bound" /\ turn'.actor = turn.actor
        /\ turn'.said = turn.said /\ turn'.adj = d /\ turn'.first = turn.first
        /\ turn'.codes = turn.codes
    BY <2>1 DEF TurnOK, TurnFields
  <2>3. AdjOf(turn.actor, turn.adj) /\ Unsmuggled(turn) /\ turn.code \in turn.codes
    BY <1>1 DEF TurnOK
  <2>4. /\ d.checked = turn.adj.checked /\ d.rule \in {turn.adj.rule, None}
        /\ Kinds(d.failure) = Kinds(turn.adj.failure)
        /\ turn.code \notin {"PERSISTENT_EFFECT_REQUIRED", "PERSISTENT_EFFECT_MISMATCH",
                              "INVENTORY_TARGET_NOT_PORTABLE"}
             => Kinds(d.success) = Kinds(turn.adj.success)
    <3>1. AdjOf(turn.actor, d)
      BY <1>2, <1>4
    <3>. QED BY <1>4, <2>3, <3>1, PreservedKeeps
  <2>5. Unsmuggled(turn')
    BY <2>2, <2>3, <2>4 DEF Unsmuggled
  <2>. QED BY <1>1, <1>2, <1>4, <2>2, <2>5 DEF TurnOK
<1>. QED BY <1>3, <1>4

\* A refusal: there is one more code that allows what it allows.
LEMMA AfterRefusalOK ==
  ASSUME TurnOK(turn), turn.at \in {"bound", "sent"}, NEW code, AfterRefusal(code)
  PROVE  TurnOK(turn')
<1>1. \/ turn' = [turn EXCEPT !.at = "repair", !.code = code, !.codes = @ \cup {code}]
      \/ EndTurn("failed") \/ EndTurn("clarified")
  BY DEF AfterRefusal
<1>2. CASE turn' = [turn EXCEPT !.at = "repair", !.code = code, !.codes = @ \cup {code}]
  <2>1. /\ DOMAIN turn' = TurnFields /\ turn'.at = "repair" /\ turn'.actor = turn.actor
        /\ turn'.said = turn.said /\ turn'.adj = turn.adj /\ turn'.first = turn.first
        /\ turn'.codes = turn.codes \cup {code} /\ turn'.code = code
    BY <1>2 DEF TurnOK, TurnFields
  <2>2. AdjOf(turn.actor, turn.adj) /\ Unsmuggled(turn)
    BY DEF TurnOK
  <2>3. Unsmuggled(turn')
    BY <2>1, <2>2 DEF Unsmuggled
  <2>. QED BY <2>1, <2>2, <2>3 DEF TurnOK, Ended
<1>3. EndTurn("failed") \/ EndTurn("clarified") => TurnOK(turn')
  BY EndTurnOK DEF Ended
<1>. QED BY <1>1, <1>2, <1>3

\* submit, and what it answers.
LEMMA SendOK == ASSUME TurnOK(turn), Send PROVE TurnOK(turn')
<1>. DEFINE code == Rejection(game, commands, turn.adj, turn.made)
<1>1. turn.at = "bound" /\ Answered(code)
  BY DEF Send
<1>. HIDE DEF code
<1>2. AfterRefusal(code) \/ EndTurn("failed") \/ EndTurn("clarified") \/ Accepted
  BY <1>1, Zenon DEF Answered
<1>3. Accepted => EndTurn("waiting") \/ turn' = [turn EXCEPT !.at = "sent"]
  BY DEF Accepted
<1>4. CASE turn' = [turn EXCEPT !.at = "sent"]
  <2>1. /\ DOMAIN turn' = TurnFields /\ turn'.at = "sent"
        /\ \A f \in TurnFields \ {"at"} : turn'[f] = turn[f]
    BY <1>4 DEF TurnOK, TurnFields
  <2>2. turn.at \notin Ended
    BY <1>1 DEF Ended
  <2>. QED BY <1>1, <2>1, <2>2 DEF TurnOK, Unsmuggled, TurnFields
<1>5. EndTurn("failed") \/ EndTurn("clarified") \/ EndTurn("waiting") => TurnOK(turn')
  BY EndTurnOK DEF Ended
<1>. QED BY <1>1, <1>2, <1>3, <1>4, <1>5, AfterRefusalOK

\* The transaction, and what becomes of the turn whose it is.
LEMMA EngineOK == ASSUME TurnOK(turn), Engine PROVE TurnOK(turn')
<1>1. \/ turn' = turn
      \/ turn.at = "sent" /\ turn' = [turn EXCEPT !.at = "committed", !.made = commands']
      \/ turn.at = "sent" /\ \E code : AfterRefusal(code)
  <2>1. CASE turn.at # "sent" \/ run' # Idle
    BY <2>1, Zenon DEF Engine
  <2>2. CASE turn.at = "sent" /\ run' = Idle
    BY <2>2, Zenon DEF Engine
  <2>. QED BY <2>1, <2>2
<1>2. CASE turn.at = "sent" /\ turn' = [turn EXCEPT !.at = "committed", !.made = commands']
  <2>1. /\ DOMAIN turn' = TurnFields /\ turn'.at = "committed"
        /\ \A f \in TurnFields \ {"at", "made"} : turn'[f] = turn[f]
    BY <1>2 DEF TurnOK, TurnFields
  <2>2. turn.at \notin Ended
    BY <1>2 DEF Ended
  <2>. QED BY <1>2, <2>1, <2>2 DEF TurnOK, TurnFields
<1>. QED BY <1>1, <1>2, AfterRefusalOK

\* The step after.
LEMMA RefreshOK == ASSUME TurnOK(turn), Refresh PROVE TurnOK(turn')
<1>1. turn.at = "committed"
      /\ \/ EndTurn("failed") \/ EndTurn("told")
         \/ turn' = [turn EXCEPT !.at = "step", !.steps = Tail(@), !.code = None]
  BY DEF Refresh
<1>2. CASE turn' = [turn EXCEPT !.at = "step", !.steps = Tail(@), !.code = None]
  <2>1. /\ DOMAIN turn' = TurnFields /\ turn'.at = "step"
        /\ turn'.actor = turn.actor /\ turn'.said = turn.said
    BY <1>2 DEF TurnOK, TurnFields
  <2>. QED BY <1>1, <2>1 DEF TurnOK, Ended
<1>3. EndTurn("failed") \/ EndTurn("told") => TurnOK(turn')
  BY EndTurnOK DEF Ended
<1>. QED BY <1>1, <1>2, <1>3

\* Every step of the host keeps its turn in order.
LEMMA HostKeepsTurn == TurnOK(turn) /\ [HostNext]_hostVars => TurnOK(turn')
<1>. SUFFICES ASSUME TurnOK(turn), [HostNext]_hostVars PROVE TurnOK(turn')
  OBVIOUS
<1>1. CASE UNCHANGED turn
  BY <1>1
<1>2. UNCHANGED hostVars => UNCHANGED turn
  BY DEF hostVars
<1>3. ASSUME NEW a \in Actors, NEW said \in Utterances, Understand(a, said)
      PROVE  TurnOK(turn')
  <2>1. turn' \in Beginnings(a, said)
    BY <1>3, Zenon DEF Understand
  <2>. QED BY <2>1, UnderstandOK, Zenon
<1>. QED BY <1>1, <1>2, <1>3, BindOK, DecideStepOK, RepairOK, SendOK, EngineOK, RefreshOK,
            Zenon DEF HostNext

\* What the host does to the world, the world can do.
LEMMA AcceptedDrives ==
  ASSUME TurnOK(turn), turn.at = "bound", run = Idle, commands < MaxCommands,
         Rejection(game, commands, turn.adj, turn.made) = None,
         turn.adj.checked \/ Runnable(turn.adj), Accepted
  PROVE  [DrivenNext]_vars
<1>. DEFINE adj == turn.adj
<1>1. AdjOf(turn.actor, adj) /\ turn.actor \in Actors
  BY DEF TurnOK, Ended
<1>2. Orderly(adj) /\ Typed(adj.success) /\ Typed(adj.failure)
  BY <1>1 DEF Orderly, AdjOf, Typed
<1>3. Valid(adj)
  BY <1>2, AcceptedIsValid
<1>4. CASE adj.checked /\ adj \in pending
  <2>1. pending' = pending \cup {adj} /\ UNCHANGED <<game, run, commands, audit>>
    BY <1>4 DEF Accepted
  <2>2. UNCHANGED vars
    <3>. HIDE DEF adj
    <3>. QED BY <1>4, <2>1 DEF vars
  <2>. QED BY <2>2
<1>5. CASE adj.checked /\ adj \notin pending
  <2>1. SubmitChecked(adj)
    BY <1>3, <1>5 DEF Accepted, SubmitChecked
  <2>. QED BY <1>2, <2>1 DEF DrivenNext
<1>6. CASE ~adj.checked
  <2>1. Submit(adj)
    BY <1>3, <1>6 DEF Accepted, Submit
  <2>. QED BY <1>2, <2>1 DEF DrivenNext
<1>. QED BY <1>4, <1>5, <1>6

\* A turn is nothing to the world but what it submits.
LEMMA HostDrives == TurnOK(turn) /\ [HostNext]_hostVars => [DrivenNext]_vars
<1>. SUFFICES ASSUME TurnOK(turn), [HostNext]_hostVars PROVE [DrivenNext]_vars
  OBVIOUS
<1>1. ASSUME NEW a, NEW said, Understand(a, said) PROVE UNCHANGED vars
  BY <1>1, Zenon DEF Understand
<1>2. Bind \/ Refresh => UNCHANGED vars
  BY DEF Bind, Refresh
<1>3. DecideStep \/ Repair => UNCHANGED vars
  BY Zenon DEF DecideStep, Repair
<1>4. CASE Send
  <2>. DEFINE code == Rejection(game, commands, turn.adj, turn.made)
  <2>1. run = Idle /\ turn.at = "bound" /\ commands < MaxCommands /\ Answered(code)
    BY <1>4 DEF Send
  <2>. HIDE DEF code
  <2>2. CASE code # None
    BY <2>1, <2>2, Zenon DEF Answered
  <2>3. CASE code = None /\ ~turn.adj.checked /\ ~Runnable(turn.adj)
    BY <2>1, <2>3, Zenon DEF Answered
  <2>4. CASE code = None /\ (turn.adj.checked \/ Runnable(turn.adj))
    <3>1. Accepted
      BY <2>1, <2>4, Zenon DEF Answered
    <3>. QED BY <2>1, <2>4, <3>1, AcceptedDrives DEF code
  <2>. QED BY <2>2, <2>3, <2>4
<1>5. Engine => DrivenNext
  BY DEF Engine, DrivenNext
<1>6. Choice => DrivenNext
  BY DEF Choice, DrivenNext
<1>7. UNCHANGED hostVars => UNCHANGED vars
  BY DEF hostVars
<1>. QED BY <1>1, <1>2, <1>3, <1>4, <1>5, <1>6, <1>7, Zenon DEF HostNext

\* The turn of the host is in order.
LEMMA HostInvariant == HostSpec => []HostInv
<1>1. HostInit => HostInv
  <2>1. ASSUME turn = NoTurn PROVE TurnOK(turn)
    BY <2>1 DEF TurnOK, NoTurn, TurnFields, Ended
  <2>. QED BY <2>1 DEF HostInit, HostInv
<1>2. HostInv /\ [HostNext]_hostVars => HostInv'
  BY HostKeepsTurn DEF HostInv
<1>. QED BY <1>1, <1>2, PTL DEF HostSpec

\* The host drives the world.
LEMMA HostDrivesWorld == HostSpec => DrivenSpec
<1>1. HostInit => Init
  BY DEF HostInit
<1>2. HostInv /\ [HostNext]_hostVars => [DrivenNext]_vars
  BY HostDrives DEF HostInv
<1>. QED BY <1>1, <1>2, HostInvariant, PTL DEF HostSpec, DrivenSpec

-----------------------------------------------------------------------------
(* Sequences whose effects are all taken, and all applied.                 *)

\* A sequence each of whose effects is valid where it stands is not refused.
LEMMA Taken ==
  ASSUME NEW s, NEW effects, Len(effects) \in Nat, NEW consented,
         \A f : Scoping(s, effects, f, Len(effects)) =>
                  \A i \in 1..Len(effects) : /\ Registered(effects[i])
                                             /\ ValidEntry(f[i - 1], effects[i])
                                             /\ ValidTime(f[i - 1], effects[i], consented)
  PROVE  SequenceCode(s, effects, consented) = None
<1>. DEFINE f == CHOOSE f : Scoping(s, effects, f, Len(effects))
            c == [i \in 1..Len(effects) |-> EffectCode(f[i - 1], effects[i], consented)]
            refused == {i \in DOMAIN c : c[i] # None}
            first == CHOOSE i \in refused : \A j \in refused : i <= j
<1>1. SequenceCode(s, effects, consented) = IF refused = {} THEN None ELSE c[first]
  BY DEF SequenceCode, Scoping
<1>2. Scoping(s, effects, f, Len(effects))
  BY ScopingExists
<1>. HIDE DEF f
<1>3. ASSUME NEW v, NEW e, Registered(e), ValidEntry(v, e), ValidTime(v, e, consented)
      PROVE  EffectCode(v, e, consented) = None
  BY <1>3 DEF EffectCode
<1>4. \A i \in 1..Len(effects) : c[i] = None
  BY <1>2, <1>3
<1>. HIDE DEF c
<1>5. DOMAIN c = 1..Len(effects)
  BY DEF c
<1>. QED BY <1>1, <1>4, <1>5

\* The vocabulary keeps all that was in scope.
LEMMA ScopingKeeps ==
  ASSUME NEW s, NEW effects, NEW N \in Nat, NEW f, Scoping(s, effects, f, N)
  PROVE  \A n \in 0..N : EntityIds(s) \subseteq f[n].entities /\ LocationIds(s) \subseteq f[n].locations
<1>. DEFINE Fields == {"entities", "locations", "portable", "time"}
            G == {n \in 0..N : /\ DOMAIN f[n] = Fields
                               /\ EntityIds(s) \subseteq f[n].entities
                               /\ LocationIds(s) \subseteq f[n].locations}
<1>1. \A n \in 0..N : f[n] = IF n = 0 THEN VocabularyOf(s) ELSE Absorbed(f[n - 1], effects[n])
  BY DEF Scoping
<1>2. 0 \in G
  <2>1. f[0] = VocabularyOf(s)
    BY <1>1
  <2>. QED BY <2>1 DEF VocabularyOf
<1>3. ASSUME NEW m \in 0..N, m < N, m \in G PROVE m + 1 \in G
  <2>1. m + 1 \in 0..N /\ m + 1 # 0 /\ (m + 1) - 1 = m
    BY <1>3
  <2>2. f[m + 1] = Absorbed(f[m], effects[m + 1])
    BY <1>1, <2>1
  <2>3. /\ DOMAIN f[m] = Fields
        /\ EntityIds(s) \subseteq f[m].entities /\ LocationIds(s) \subseteq f[m].locations
    BY <1>3
  <2>4. DOMAIN f[m + 1] = Fields
    BY <2>2, <2>3 DEF Absorbed
  <2>5. f[m].entities \subseteq f[m + 1].entities
    BY <2>2, <2>3 DEF Absorbed
  <2>6. f[m].locations \subseteq f[m + 1].locations
    BY <2>2, <2>3 DEF Absorbed
  <2>7. EntityIds(s) \subseteq f[m + 1].entities /\ LocationIds(s) \subseteq f[m + 1].locations
    BY <2>3, <2>5, <2>6
  <2>. QED BY <2>1, <2>4, <2>7
<1>4. \A n \in 0..N : n \in G
  <2>. HIDE DEF G
  <2>. QED BY <1>2, <1>3, StepByStep
<1>. QED BY <1>4

-----------------------------------------------------------------------------
\* Effects applied one after the other, until one is refused.
Applying(s, a, effects, r, N) ==
  r = [n \in 0..N |-> IF n = 0 THEN Done(s, None)
                      ELSE IF r[n - 1].ok THEN Apply(r[n - 1].state, a, effects[n]) ELSE r[n - 1]]

\* That is the function its definition chooses.
LEMMA ApplyingExists ==
  ASSUME NEW s, NEW a, NEW effects, NEW N \in Nat
  PROVE  \E r : Applying(s, a, effects, r, N)
<1>. DEFINE After(x, n) == IF x.ok THEN Apply(x.state, a, effects[n]) ELSE x
            G == {m \in 0..N : \E r : Applying(s, a, effects, r, m)}
<1>1. 0 \in G
  <2>. DEFINE r == [n \in 0..0 |-> Done(s, None)]
  <2>1. Applying(s, a, effects, r, 0)
    BY DEF Applying
  <2>. QED BY <2>1
<1>2. ASSUME NEW m \in 0..N, m < N, m \in G PROVE m + 1 \in G
  <2>1. PICK r : Applying(s, a, effects, r, m)
    BY <1>2
  <2>4. \A n \in 0..m : r[n] = IF n = 0 THEN Done(s, None) ELSE After(r[n - 1], n)
    BY <2>1, Zenon DEF Applying
  <2>. HIDE DEF After
  <2>. DEFINE v == [n \in 0..m + 1 |-> IF n = m + 1 THEN After(r[m], m + 1) ELSE r[n]]
  <2>2. \A n \in 0..m : v[n] = r[n]
    OBVIOUS
  <2>3. v[m + 1] = After(r[m], m + 1)
    OBVIOUS
  <2>5. \A n \in 0..m + 1 : v[n] = IF n = 0 THEN Done(s, None) ELSE After(v[n - 1], n)
    <3>. HIDE DEF v
    <3>1. TAKE n \in 0..m + 1
    <3>2. CASE n = m + 1
      BY <2>2, <2>3, <3>2
    <3>3. CASE n # m + 1
      <4>1. n \in 0..m /\ (n # 0 => n - 1 \in 0..m)
        BY <3>3
      <4>. QED BY <2>2, <2>4, <4>1
    <3>. QED BY <3>2, <3>3
  <2>6. v = [n \in 0..m + 1 |-> v[n]]
    OBVIOUS
  <2>8. \E u : Applying(s, a, effects, u, m + 1)
    <3>. HIDE DEF v
    <3>1. v = [n \in 0..m + 1 |-> IF n = 0 THEN Done(s, None) ELSE After(v[n - 1], n)]
      BY <2>5, <2>6
    <3>2. Applying(s, a, effects, v, m + 1)
      BY <3>1, Zenon DEF Applying, After
    <3>. QED BY <3>2
  <2>9. m + 1 \in 0..N
    BY <1>2
  <2>. HIDE DEF v
  <2>. QED BY <2>8, <2>9
<1>3. N \in G
  <2>. HIDE DEF G
  <2>. QED BY <1>1, <1>2, StepByStep
<1>. QED BY <1>3

\* What cannot fail does not, on any state.
LEMMA UnfailingIs ==
  ASSUME NEW s, NEW a, NEW e, Unfailing(e)
  PROVE  Apply(s, a, e).ok
<1>1. CASE e.type = "move_entity"
  <2>1. e.holder = None
    BY <1>1 DEF Unfailing
  <2>2. ApplyMoveEntity(s, e).ok
    BY <2>1 DEF ApplyMoveEntity, Done
  <2>. QED BY <1>1, <2>2 DEF Apply
<1>2. CASE e.type # "move_entity"
  <2>1. e.type \in {"narrative_only", "reveal_information", "hide_information", "set_visibility",
                    "ensure_runtime_location", "ensure_runtime_entity", "change_entity_state",
                    "consume_entity", "advance_world_time", "mark_core_resolved",
                    "set_ending_availability"}
    BY <1>2 DEF Unfailing
  <2>2. \E t, event : Apply(s, a, e) = Done(t, event)
    BY <2>1, Zenon DEF Apply
  <2>. QED BY <2>2 DEF Done
<1>. QED BY <1>1, <1>2

\* Once the first n are applied, and no other can fail, all are.
LEMMA AllApplied ==
  ASSUME NEW s, NEW a, NEW effects, Len(effects) \in Nat, NEW n \in 0..Len(effects),
         \A r : Applying(s, a, effects, r, Len(effects)) => r[n].ok,
         \A i \in n + 1..Len(effects) : Unfailing(effects[i])
  PROVE  AppliedAll(s, a, effects)
<1>. DEFINE r == CHOOSE r : Applying(s, a, effects, r, Len(effects))
            N == Len(effects)
<1>1. AppliedAll(s, a, effects) = r[N].ok
  BY DEF AppliedAll, Applying
<1>2. Applying(s, a, effects, r, N)
  BY ApplyingExists
<1>. HIDE DEF r
<1>3. \A m \in 0..N : r[m] = IF m = 0 THEN Done(s, None)
                             ELSE IF r[m - 1].ok THEN Apply(r[m - 1].state, a, effects[m]) ELSE r[m - 1]
  BY <1>2 DEF Applying
<1>4. r[n].ok
  BY <1>2
<1>. DEFINE G == {m \in 0..N : m >= n => r[m].ok}
<1>5. 0 \in G
  BY <1>4
<1>6. ASSUME NEW m \in 0..N, m < N, m \in G PROVE m + 1 \in G
  <2>1. m + 1 \in 0..N /\ m + 1 # 0 /\ (m + 1) - 1 = m
    BY <1>6
  <2>2. CASE m >= n
    <3>1. r[m].ok /\ Unfailing(effects[m + 1])
      BY <1>6, <2>2
    <3>2. r[m + 1] = Apply(r[m].state, a, effects[m + 1])
      BY <1>3, <2>1, <3>1
    <3>. QED BY <2>1, <3>1, <3>2, UnfailingIs
  <2>3. CASE ~(m >= n)
    <3>1. m + 1 = n \/ ~(m + 1 >= n)
      BY <2>3
    <3>. QED BY <1>4, <2>1, <3>1
  <2>. QED BY <2>2, <2>3
<1>7. N \in G
  <2>1. N \in 0..N
    OBVIOUS
  <2>. HIDE DEF G, N
  <2>2. N \in Nat
    BY DEF N
  <2>. QED BY <1>5, <1>6, <2>1, <2>2, StepByStep
<1>. QED BY <1>1, <1>7

-----------------------------------------------------------------------------
(* What an actor knows of exists.                                          *)

\* What is reached are places the ways lead to.
LEMMA ReachedAre ==
  ASSUME NEW ways, NEW ids, NEW from \in ids, \A w \in ways : w[2] \in ids, NEW N \in Nat
  PROVE  ReachableBy(ways, from, N) \subseteq ids
<1>. DEFINE r == CHOOSE r : Reaching(ways, from, r, N)
            G == {n \in 0..N : r[n] \subseteq ids}
<1>1. ReachableBy(ways, from, N) = r[N]
  BY DEF ReachableBy, Reaching
<1>2. Reaching(ways, from, r, N)
  BY ReachingExists
<1>. HIDE DEF r
<1>3. \A n \in 0..N : r[n] = IF n = 0 THEN {from} ELSE Onward(ways, r[n - 1])
  BY <1>2 DEF Reaching
<1>4. 0 \in G
  BY <1>3
<1>5. ASSUME NEW m \in 0..N, m < N, m \in G PROVE m + 1 \in G
  <2>1. m + 1 \in 0..N /\ m + 1 # 0 /\ (m + 1) - 1 = m
    BY <1>5
  <2>2. r[m + 1] = Onward(ways, r[m])
    BY <1>3, <2>1
  <2>3. Onward(ways, r[m]) \subseteq ids
    BY <1>5 DEF Onward
  <2>. QED BY <2>1, <2>2, <2>3
<1>6. N \in G
  <2>1. N \in 0..N
    OBVIOUS
  <2>. HIDE DEF G
  <2>. QED BY <1>4, <1>5, <2>1, StepByStep
<1>. QED BY <1>1, <1>6

\* What places lie in, step by step.
Rising(places, r, N) ==
  r = [n \in 0..N |-> IF n = 0 THEN {Module.parent[l] : l \in places \cap Module.locations} \ {None}
                      ELSE r[n - 1] \cup ({Module.parent[l] : l \in r[n - 1] \cap Module.locations} \ {None})]

\* That is the function its definition chooses.
LEMMA RisingExists ==
  ASSUME NEW places, NEW N \in Nat
  PROVE  \E r : Rising(places, r, N)
<1>. DEFINE Up(S) == {Module.parent[l] : l \in S \cap Module.locations} \ {None}
            G == {m \in 0..N : \E r : Rising(places, r, m)}
<1>1. 0 \in G
  <2>. DEFINE r == [n \in 0..0 |-> Up(places)]
  <2>1. Rising(places, r, 0)
    BY DEF Rising
  <2>. QED BY <2>1
<1>2. ASSUME NEW m \in 0..N, m < N, m \in G PROVE m + 1 \in G
  <2>1. PICK r : Rising(places, r, m)
    BY <1>2
  <2>4. \A n \in 0..m : r[n] = IF n = 0 THEN Up(places) ELSE r[n - 1] \cup Up(r[n - 1])
    BY <2>1, Zenon DEF Rising
  <2>. HIDE DEF Up
  <2>. DEFINE v == [n \in 0..m + 1 |-> IF n = m + 1 THEN r[m] \cup Up(r[m]) ELSE r[n]]
  <2>2. \A n \in 0..m : v[n] = r[n]
    OBVIOUS
  <2>3. v[m + 1] = r[m] \cup Up(r[m])
    OBVIOUS
  <2>5. \A n \in 0..m + 1 : v[n] = IF n = 0 THEN Up(places) ELSE v[n - 1] \cup Up(v[n - 1])
    <3>. HIDE DEF v
    <3>1. TAKE n \in 0..m + 1
    <3>2. CASE n = m + 1
      BY <2>2, <2>3, <3>2
    <3>3. CASE n # m + 1
      <4>1. n \in 0..m /\ (n # 0 => n - 1 \in 0..m)
        BY <3>3
      <4>. QED BY <2>2, <2>4, <4>1
    <3>. QED BY <3>2, <3>3
  <2>6. v = [n \in 0..m + 1 |-> v[n]]
    OBVIOUS
  <2>8. \E u : Rising(places, u, m + 1)
    <3>. HIDE DEF v
    <3>1. v = [n \in 0..m + 1 |-> IF n = 0 THEN Up(places) ELSE v[n - 1] \cup Up(v[n - 1])]
      BY <2>5, <2>6
    <3>2. Rising(places, v, m + 1)
      BY <3>1, Zenon DEF Rising, Up
    <3>. QED BY <3>2
  <2>9. m + 1 \in 0..N
    BY <1>2
  <2>. HIDE DEF v
  <2>. QED BY <2>8, <2>9
<1>3. N \in G
  <2>. HIDE DEF G
  <2>. QED BY <1>1, <1>2, StepByStep
<1>. QED BY <1>3

\* What places lie in are places of the module.
LEMMA AncestorsArePlaces ==
  ASSUME NEW places
  PROVE  Ancestors(places) \subseteq Module.locations
<1>. DEFINE N == Cardinality(Module.locations)
            r == CHOOSE r : Rising(places, r, N)
            Up(S) == {Module.parent[l] : l \in S \cap Module.locations} \ {None}
            G == {n \in 0..N : r[n] \subseteq Module.locations}
<1>0. N \in Nat
  BY ModuleAssumption, FS_CardinalityType
<1>1. Ancestors(places) = r[N]
  BY DEF Ancestors, Rising
<1>2. Rising(places, r, N)
  BY <1>0, RisingExists
<1>. HIDE DEF r, N
<1>3. \A n \in 0..N : r[n] = IF n = 0 THEN Up(places) ELSE r[n - 1] \cup Up(r[n - 1])
  BY <1>2, Zenon DEF Rising
<1>4. \A S : Up(S) \subseteq Module.locations
  BY ModuleAssumption
<1>. HIDE DEF Up
<1>5. 0 \in G
  <2>1. 0 \in 0..N
    BY ONLY <1>0
  <2>2. r[0] = Up(places)
    BY ONLY <1>3, <2>1
  <2>3. r[0] \subseteq Module.locations
    BY <1>4, <2>2
  <2>. QED BY <2>1, <2>3
<1>6. ASSUME NEW m \in 0..N, m < N, m \in G PROVE m + 1 \in G
  <2>1. m + 1 \in 0..N /\ m + 1 # 0 /\ (m + 1) - 1 = m
    BY <1>0, <1>6
  <2>2. r[m + 1] = r[m] \cup Up(r[m])
    BY <1>3, <2>1
  <2>. QED BY <1>4, <1>6, <2>1, <2>2
<1>7. N \in G
  <2>1. N \in 0..N
    BY <1>0
  <2>. HIDE DEF G
  <2>. QED BY <1>0, <1>5, <1>6, <2>1, StepByStep
<1>. QED BY <1>1, <1>7

\* How many places there are is a number.
LEMMA PlacesAreFew == ASSUME NEW s, StateOK(s) PROVE Cardinality(LocationIds(s)) \in Nat
<1>1. IsFiniteSet(LocationIds(s))
  BY ModuleAssumption, FS_Union DEF StateOK, PlacesOK, LocationIds
<1>. QED BY <1>1, FS_CardinalityType

\* So an actor knows of places there are, and no others.
LEMMA KnownArePlaces ==
  ASSUME NEW s, StateOK(s), NEW a \in Actors
  PROVE  DOMAIN EffectiveKnowledge(s, a) \subseteq LocationIds(s)
<1>. DEFINE ids == LocationIds(s)
            ways == WaysSeen(s, a, KnownConnections(Over(s.actorPlaces[a], s.partyPlaces)))
            open == {e \in ways : EdgeIsTraversable(s, a, e)}
            pairs == {<<e.from, e.to>> : e \in open}
            sweep == Sweep(s, a)
            marked == sweep.swept \cup {e.to : e \in sweep.ways}
            k == EffectiveKnowledge(s, a)
<1>1. \A e \in ways : e.to \in ids
  BY ModuleAssumption, RuntimeEdgesJoin DEF WaysSeen, LocationIds
<1>2. sweep.swept = Reached(s, open) /\ sweep.ways \subseteq ways
  BY DEF Sweep
<1>. HIDE DEF ways
<1>3. Reached(s, open) \subseteq ids
  <2>1. Reached(s, open) = ReachableBy(pairs, s.scene, Cardinality(ids))
    BY DEF Reached
  <2>2. \A w \in pairs : w[2] \in ids
    BY <1>1
  <2>3. s.scene \in ids
    BY DEF StateOK, PlacesOK
  <2>. HIDE DEF pairs, ids
  <2>4. Cardinality(ids) \in Nat
    BY PlacesAreFew DEF ids
  <2>. QED BY <2>1, <2>2, <2>3, <2>4, ReachedAre
<1>. HIDE DEF sweep
<1>4. marked \subseteq ids
  BY <1>1, <1>2, <1>3
<1>. HIDE DEF marked, open
<1>. DEFINE base == Over([l \in marked |->
                            Known(IF l \in sweep.swept THEN "reachable" ELSE "blocked",
                                  l = s.scene,
                                  {e.id : e \in {w \in sweep.ways : l \in {w.from, w.to}}})],
                         [l \in Ancestors(marked) \ marked |-> Known("unknown", FALSE, {})])
            party == OverlaidAll(base, s.partyPlaces)
<1>5. k = OverlaidAll(party, s.actorPlaces[a])
  BY DEF EffectiveKnowledge, KnowledgeFrom, sweep, marked
<1>6. DOMAIN base \subseteq ids
  <2>1. Ancestors(marked) \subseteq ids
    BY AncestorsArePlaces DEF LocationIds
  <2>. QED BY <1>4, <2>1 DEF Over
<1>7. DOMAIN s.partyPlaces \subseteq ids /\ DOMAIN s.actorPlaces[a] \subseteq ids
  BY DEF StateOK, KnownOK, KnowledgeOK
<1>. HIDE DEF base, ids, k
<1>8. DOMAIN party = DOMAIN s.partyPlaces \cup DOMAIN base
  BY OverlaidIs DEF Overlays
<1>. HIDE DEF party
<1>9. DOMAIN k = DOMAIN s.actorPlaces[a] \cup DOMAIN party
  BY <1>5, OverlaidIs DEF Overlays
<1>. QED BY <1>6, <1>7, <1>8, <1>9 DEF k, ids

\* Of a place that only the party was told of, the actor knows what the party does.
LEMMA PartyKnows ==
  ASSUME NEW s, SeenOK(s), NEW a \in Actors, NEW l \in DOMAIN s.partyPlaces,
         l \notin DOMAIN s.actorPlaces[a], s.partyPlaces[l].existence = "known"
  PROVE  LET k == EffectiveKnowledge(s, a)
         IN  At(k, l, Unknown).existence # "unknown" /\ k[l].localization = "located"
<1>. DEFINE k == EffectiveKnowledge(s, a)
            sweep == Sweep(s, a)
<1>1. k = KnowledgeFrom(s, a, sweep)
  BY DEF EffectiveKnowledge
<1>. HIDE DEF sweep, k
<1>2. LocatedAt(k)
  BY <1>1, KnowledgeIs
<1>3. PICK base : k = OverlaidAll(OverlaidAll(base, s.partyPlaces), s.actorPlaces[a])
  BY <1>1, Zenon DEF KnowledgeFrom
<1>. DEFINE party == OverlaidAll(base, s.partyPlaces)
<1>4. Overlays(party, base, s.partyPlaces)
  BY OverlaidIs
<1>5. Overlays(k, party, s.actorPlaces[a])
  BY <1>3, OverlaidIs
<1>. HIDE DEF party
<1>6. l \in DOMAIN k /\ k[l].existence = "known"
  BY <1>4, <1>5 DEF Overlays
<1>7. k[l].localization = "located"
  BY <1>2, <1>6 DEF LocatedAt
<1>. QED BY <1>6, <1>7 DEF At, k

-----------------------------------------------------------------------------
(* What the host decides by itself.                                        *)

\* The best hit is one of the candidates, and was hit.
LEMMA BestIs ==
  ASSUME NEW ranks, NEW candidates, Best(ranks, candidates) # None
  PROVE  Best(ranks, candidates) \in candidates \cap DOMAIN ranks
<1>. DEFINE top == Top(ranks, candidates \cap DOMAIN ranks)
<1>1. top \subseteq candidates \cap DOMAIN ranks
  BY DEF Top
<1>2. Best(ranks, candidates) = IF top = {} THEN None ELSE CHOOSE x \in top : TRUE
  BY DEF Best, FirstOf
<1>. HIDE DEF top
<1>. QED BY <1>1, <1>2

\* A journey the engine has an answer to.
IsAnswered(s, a, l) == ResolveLocationTarget(s, a, l).status \in {"known_reachable", "known_blocked"}

\* Where a journey may go, the engine can answer.
LEMMA DestinationsAreAnswered ==
  ASSUME NEW s, StateOK(s), SeenOK(s), NEW a \in Actors, NEW l \in Destinations(s, a)
  PROVE  l \in LocationIds(s) /\ IsAnswered(s, a, l)
<1>1. CASE l \in Located(KnownLocations(s, a))
  <2>. DEFINE k == EffectiveKnowledge(s, a)
  <2>1. l \in DOMAIN k /\ k[l].existence # "unknown" /\ k[l].localization = "located"
    <3>. HIDE DEF k
    <3>1. l \in Located(KnownPlaces(k))
      BY <1>1 DEF KnownLocations, k
    <3>. QED BY <3>1 DEF Located, KnownPlaces
  <2>2. l \in LocationIds(s)
    BY <2>1, KnownArePlaces
  <2>3. At(k, l, Unknown).existence # "unknown"
    BY <2>1 DEF At
  <2>. QED BY <2>1, <2>2, <2>3, LocatedIsAnswered DEF IsAnswered
<1>2. CASE l \in {e.to : e \in AvailableExits(s, a)}
  <2>1. IsAnswered(s, a, l)
    BY <1>2, ExitsAreAnswered DEF IsAnswered
  <2>2. l \in LocationIds(s)
    BY <2>1, ResolvedPlace DEF IsAnswered
  <2>. QED BY <2>1, <2>2
<1>. QED BY <1>1, <1>2 DEF Destinations

\* A journey that is answered is made, if only as far as the way is open.
LEMMA EnterApplies ==
  ASSUME NEW s, NEW a, NEW l, IsAnswered(s, a, l)
  PROVE  Apply(s, a, EnterPlace(l)).ok
<1>. DEFINE e == EnterPlace(l)
            r == ResolveLocationTarget(s, a, l)
<1>1. e.type = "enter_location" /\ e.id = l
  BY DEF EnterPlace
<1>. HIDE DEF e
<1>2. Apply(s, a, e) = Travelled(s, a, e, r)
  BY <1>1 DEF Apply, ApplyEnterLocation
<1>3. r.status \in {"known_reachable", "known_blocked"}
  BY DEF IsAnswered
<1>. HIDE DEF r
<1>4. \E t, event : Travelled(s, a, e, r) = Done(t, event)
  BY <1>3, Zenon DEF Travelled
<1>. QED BY <1>2, <1>4 DEF Done, e

\* Where a coined place is hung on the map, there is a place.
LEMMA AnchorIsPlace ==
  ASSUME NEW s, StateOK(s), NEW a \in Actors
  PROVE  Anchor(s, a) \in LocationIds(s)
<1>. DEFINE k == EffectiveKnowledge(s, a)
            roads == Roads(KnownLocations(s, a))
<1>1. roads \subseteq DOMAIN KnownPlaces(k)
  BY DEF Roads, Located, KnownLocations
<1>2. DOMAIN KnownPlaces(k) \subseteq DOMAIN k
  BY DEF KnownPlaces
<1>3. DOMAIN k \subseteq LocationIds(s)
  BY KnownArePlaces
<1>4. s.scene \in LocationIds(s)
  BY DEF StateOK, PlacesOK
<1>5. Anchor(s, a) = IF roads = {} THEN s.scene ELSE CHOOSE x \in roads : TRUE
  BY DEF Anchor, FirstOf
<1>. HIDE DEF roads
<1>. QED BY <1>1, <1>2, <1>3, <1>4, <1>5

\* What is seen is there.
LEMMA SeenIsThing ==
  ASSUME NEW s, NEW a, NEW said, SeenThing(s, a, said) # None
  PROVE  SeenThing(s, a, said) \in EntityIds(s)
<1>1. {v.id : v \in VisibleEntities(s, a)} \subseteq EntityIds(s)
  BY DEF VisibleEntities, EntityIds
<1>. QED BY <1>1, BestIs DEF SeenThing

-----------------------------------------------------------------------------
(* Why the engine takes it.                                                *)

\* A kind under which an id is found is left as it is.
LEMMA KindStays ==
  ASSUME NEW s, NEW target, target.kind \in KindsOf(s, target.id)
  PROVE  NormalizedKind(s, target) = target.kind
BY DEF NormalizedKind

\* Places and things are found as such.
LEMMA FoundAs ==
  ASSUME NEW s
  PROVE  /\ \A l \in LocationIds(s) : "location" \in KindsOf(s, l)
         /\ \A e \in EntityIds(s) : "entity" \in KindsOf(s, e)
BY DEF KindsOf

\* A decision that names no rule is taken, if its target and its effects are.
LEMMA FreeDecisionTaken ==
  ASSUME NEW s, NEW n, NEW a, NEW kind, NEW id, kind \in KindsOf(s, id), NEW family, NEW goal,
         NEW effects, SequenceCode(s, effects, FALSE) = None
  PROVE  Rejection(s, n, Decision(a, [kind |-> kind, id |-> id], family, effects, goal), n) = None
<1>. DEFINE d == Decision(a, [kind |-> kind, id |-> id], family, effects, goal)
            target == [d.target EXCEPT !.kind = NormalizedKind(s, d.target)]
<1>1. /\ d.target = [kind |-> kind, id |-> id] /\ d.rule = None /\ d.consented = FALSE
      /\ d.success = effects /\ d.failure = <<>> /\ d.intent = "none" /\ d.explicit = FALSE
  BY DEF Decision
<1>. HIDE DEF d
<1>2. target.kind = kind /\ target.id = id
  BY <1>1, KindStays
<1>3. SequenceCode(s, <<>>, FALSE) = None
  <2>. DEFINE none == <<>>
  <2>1. Len(none) \in Nat /\ 1..Len(none) = {}
    OBVIOUS
  <2>. HIDE DEF none
  <2>2. SequenceCode(s, none, FALSE) = None
    BY <2>1, Taken
  <2>. QED BY <2>2 DEF none
<1>4. PersistenceProblem(d) = None
  <2>1. Intent(d) = "none"
    BY <1>1 DEF Intent
  <2>. QED BY <2>1 DEF PersistenceProblem
<1>. DEFINE inner == IF d.rule # None /\ ~Declared(d.rule) THEN "UNKNOWN_RULE"
                     ELSE IF d.rule # None /\ ~ScopeAdmits(RuleOf(d.rule), s.scene, d.family, target)
                     THEN "RULE_OUT_OF_SCOPE"
                     ELSE Preferred(IF d.rule = None THEN PersistenceProblem(d) ELSE None,
                                    Preferred(SequenceCode(s, d.success, d.consented),
                                              SequenceCode(s, d.failure, d.consented)))
<1>5. inner = None
  BY <1>1, <1>3, <1>4 DEF Preferred
<1>6. Rejection(s, n, d, n) =
        CASE n # n -> "SOURCE_REVISION_STALE"
          [] n = n /\ target.kind \notin KindsOf(s, target.id) -> "TARGET_UNAVAILABLE"
          [] OTHER -> inner
  BY Zenon DEF Rejection
<1>. HIDE DEF target, inner
<1>7. Rejection(s, n, d, n) = None
  BY <1>2, <1>5, <1>6
<1>. QED BY <1>7 DEF d

\* What the engine applies of it.
LEMMA FreeDecisionOwns ==
  ASSUME NEW a, NEW target, NEW family, NEW effects, NEW goal
  PROVE  OwnedEffects(Decision(a, target, family, effects, goal), NoRoll) = effects
BY DEF OwnedEffects, Decision, NoRoll

\* Stands: the engine takes a decision, and applies all of it.
Upheld(s, n, a, d) ==
  Rejection(s, n, d, n) = None /\ AppliedAll(s, a, OwnedEffects(d, NoRoll))

\* A decision that names no rule stands, if its effects do.
LEMMA FreeStands ==
  ASSUME NEW s, NEW n, NEW a, NEW kind, NEW id, kind \in KindsOf(s, id), NEW family, NEW goal,
         NEW effects, SequenceCode(s, effects, FALSE) = None, AppliedAll(s, a, effects)
  PROVE  Upheld(s, n, a, Decision(a, [kind |-> kind, id |-> id], family, effects, goal))
<1>. DEFINE d == Decision(a, [kind |-> kind, id |-> id], family, effects, goal)
<1>1. Rejection(s, n, d, n) = None
  BY FreeDecisionTaken
<1>2. OwnedEffects(d, NoRoll) = effects
  BY FreeDecisionOwns
<1>. HIDE DEF d
<1>3. Upheld(s, n, a, d)
  BY <1>1, <1>2 DEF Upheld
<1>. QED BY <1>3 DEF d

\* A decision that tells something, or does nothing, stands.
LEMMA ToldStands ==
  ASSUME NEW s, NEW n, NEW a, NEW kind, NEW id, kind \in KindsOf(s, id), NEW family, NEW goal,
         NEW effects \in {<<>>, <<Narrative>>}
  PROVE  Upheld(s, n, a, Decision(a, [kind |-> kind, id |-> id], family, effects, goal))
<1>1. Len(effects) \in Nat
  OBVIOUS
<1>2. \A i \in 1..Len(effects) : effects[i] = Narrative
  OBVIOUS
<1>3. Narrative.type = "narrative_only"
  BY DEF Narrative
<1>4. \A i \in 1..Len(effects) : effects[i].type = "narrative_only"
  BY <1>2, <1>3
<1>5. SequenceCode(s, effects, FALSE) = None
  <2>1. \A v, i : i \in 1..Len(effects) =>
          Registered(effects[i]) /\ ValidEntry(v, effects[i]) /\ ValidTime(v, effects[i], FALSE)
    BY <1>4 DEF Registered, ValidEntry, ValidTime
  <2>. HIDE DEF Narrative
  <2>. QED BY <1>1, <2>1, Taken
<1>6. AppliedAll(s, a, effects)
  <2>1. 0 \in 0..Len(effects)
    BY <1>1
  <2>2. \A r : Applying(s, a, effects, r, Len(effects)) => r[0].ok
    BY <1>1, <2>1 DEF Applying, Done
  <2>3. \A i \in 0 + 1..Len(effects) : Unfailing(effects[i])
    BY <1>4 DEF Unfailing
  <2>. QED BY <1>1, <2>1, <2>2, <2>3, AllApplied
<1>. QED BY <1>5, <1>6, FreeStands

\* The effects that move those who come along, and that none of them can fail.
Following(s, said, to, S) ==
  /\ CompanionMoves(s, said, to) \in Seq(S)
  /\ \A e \in S : e.type = "move_entity" /\ e.id \in EntityIds(s) /\ e.at = to /\ e.holder = None

\* Those who come along are moved where the party goes, by nothing that can fail.
LEMMA CompanionsFollow ==
  ASSUME NEW s, NEW said, IsFiniteSet(said.people), NEW to, to # None
  PROVE  \E S : Following(s, said, to, S)
<1>. DEFINE P == {x \in Requested(s, said) : WhereIs(s, x) = s.scene}
            S == {MovePerson(e, to) : e \in P}
<1>0. P \subseteq EntityIds(s)
  BY DEF Requested
<1>1. IsFiniteSet(P)
  <2>1. P \subseteq said.people
    BY DEF Requested
  <2>. QED BY <2>1, FS_Subset
<1>2. IsFiniteSet(S)
  <2>. DEFINE g == [e \in P |-> MovePerson(e, to)]
  <2>1. S = {g[e] : e \in P}
    OBVIOUS
  <2>2. DOMAIN g = P
    OBVIOUS
  <2>. HIDE DEF P, g
  <2>. QED BY <1>1, <2>1, <2>2, ImageIsFinite
<1>3. CompanionMoves(s, said, to) = SetToSeq(S)
  BY DEF CompanionMoves
<1>4. \A e \in S : e.type = "move_entity" /\ e.id \in EntityIds(s) /\ e.at = to /\ e.holder = None
  <2>. HIDE DEF P
  <2>. QED BY <1>0 DEF MovePerson
<1>. HIDE DEF S
<1>. QED BY <1>2, <1>3, <1>4, Ordered DEF Following

\* A journey to where one may go stands, with those who come along.
LEMMA TravelStands ==
  ASSUME NEW s, StateOK(s), SeenOK(s), NEW n, NEW a \in Actors, NEW said, IsFiniteSet(said.people),
         NEW to \in Destinations(s, a), to # None, NEW goal
  PROVE  Upheld(s, n, a, Decision(a, Place(to), "travel",
                                   <<EnterPlace(to)>> \o CompanionMoves(s, said, to), goal))
<1>. DEFINE along == CompanionMoves(s, said, to)
            effects == <<EnterPlace(to)>> \o along
<1>0. to \in LocationIds(s) /\ IsAnswered(s, a, to)
  BY DestinationsAreAnswered
<1>a. PICK S : Following(s, said, to, S)
  BY CompanionsFollow
<1>1. /\ along \in Seq(S)
      /\ \A e \in S : e.type = "move_entity" /\ e.id \in EntityIds(s) /\ e.at = to /\ e.holder = None
  BY <1>a DEF Following
<1>. HIDE DEF along
<1>2. /\ Len(effects) \in Nat /\ Len(effects) >= 1 /\ effects[1] = EnterPlace(to)
      /\ \A i \in 2..Len(effects) : effects[i] \in S
  <2>1. Len(along) \in Nat /\ \A i \in 1..Len(along) : along[i] \in S
    BY <1>1
  <2>. DEFINE enter == EnterPlace(to)
  <2>2. Len(<<enter>> \o along) = Len(along) + 1 /\ (<<enter>> \o along)[1] = enter
        /\ \A i \in 2..Len(along) + 1 : (<<enter>> \o along)[i] = along[i - 1]
    <3>. HIDE DEF enter
    <3>. QED BY <1>1, <2>1
  <2>3. \A i \in 2..Len(along) + 1 : i - 1 \in 1..Len(along)
    BY <2>1
  <2>. QED BY <2>1, <2>2, <2>3
<1>. HIDE DEF effects
<1>3. EnterPlace(to).type = "enter_location" /\ EnterPlace(to).id = to
  BY DEF EnterPlace
<1>4. SequenceCode(s, effects, FALSE) = None
  <2>1. ASSUME NEW f, Scoping(s, effects, f, Len(effects)), NEW i \in 1..Len(effects)
        PROVE  /\ Registered(effects[i]) /\ ValidEntry(f[i - 1], effects[i])
               /\ ValidTime(f[i - 1], effects[i], FALSE)
    <3>1. i - 1 \in 0..Len(effects)
      BY <1>2
    <3>2. EntityIds(s) \subseteq f[i - 1].entities /\ LocationIds(s) \subseteq f[i - 1].locations
      BY <1>2, <2>1, <3>1, ScopingKeeps
    <3>. DEFINE e == effects[i]
                v == f[i - 1]
    <3>3. EntityIds(s) \subseteq v.entities /\ LocationIds(s) \subseteq v.locations
      BY <3>2
    <3>. HIDE DEF v
    <3>4. CASE i = 1
      <4>1. e.type = "enter_location" /\ e.id = to
        BY <1>2, <1>3, <3>4
      <4>. HIDE DEF e
      <4>2. Registered(e) /\ ValidEntry(v, e) /\ ValidTime(v, e, FALSE)
        BY <1>0, <3>3, <4>1 DEF Registered, ValidEntry, ValidTime
      <4>. QED BY <4>2 DEF e, v
    <3>5. CASE i # 1
      <4>1. i \in 2..Len(effects)
        BY <1>2, <3>5
      <4>2. e.type = "move_entity" /\ e.id \in EntityIds(s) /\ e.at = to /\ e.holder = None
        BY <1>1, <1>2, <4>1
      <4>. HIDE DEF e
      <4>3. Registered(e) /\ ValidEntry(v, e) /\ ValidTime(v, e, FALSE)
        BY <1>0, <3>3, <4>2 DEF Registered, ValidEntry, ValidTime
      <4>. QED BY <4>3 DEF e, v
    <3>. QED BY <3>4, <3>5
  <2>. QED BY <1>2, <2>1, Taken
<1>5. AppliedAll(s, a, effects)
  <2>1. 1 \in 0..Len(effects) /\ 0 \in 0..Len(effects)
    BY <1>2
  <2>2. ASSUME NEW r, Applying(s, a, effects, r, Len(effects)) PROVE r[1].ok
    <3>1. \A m \in 0..Len(effects) :
             r[m] = IF m = 0 THEN Done(s, None)
                    ELSE IF r[m - 1].ok THEN Apply(r[m - 1].state, a, effects[m]) ELSE r[m - 1]
      BY <2>2 DEF Applying
    <3>2. r[0].ok /\ r[0].state = s
      BY <2>1, <3>1 DEF Done
    <3>3. r[1] = Apply(s, a, effects[1])
      BY <2>1, <3>1, <3>2
    <3>. QED BY <1>0, <1>2, <3>3, EnterApplies
  <2>3. \A i \in 1 + 1..Len(effects) : Unfailing(effects[i])
    BY <1>1, <1>2 DEF Unfailing
  <2>. QED BY <1>2, <2>1, <2>2, <2>3, AllApplied
<1>6. Place(to) = [kind |-> "location", id |-> to] /\ "location" \in KindsOf(s, to)
  BY <1>0, FoundAs DEF Place
<1>7. Upheld(s, n, a, Decision(a, Place(to), "travel", effects, goal))
  BY <1>4, <1>5, <1>6, FreeStands
<1>. QED BY <1>7 DEF effects, along

\* A venue that is coined can be entered at once.
LEMMA CoinedStands ==
  ASSUME NEW s, StateOK(s), SeenOK(s), NEW n, NEW a \in Actors, NEW v, v # None, v \notin LocationIds(s),
         NEW anchor \in LocationIds(s), NEW goal
  PROVE  Upheld(s, n, a, Coined(a, v, anchor, goal))
<1>. DEFINE new == [type |-> "ensure_runtime_location", id |-> v, connected |-> anchor, parent |-> None]
            effects == <<new, EnterPlace(v)>>
<1>1. /\ new.type = "ensure_runtime_location" /\ new.id = v /\ new.connected = anchor
      /\ new.parent = None
  OBVIOUS
<1>2. EnterPlace(v).type = "enter_location" /\ EnterPlace(v).id = v
  BY DEF EnterPlace
<1>. HIDE DEF new
<1>3. Len(effects) = 2 /\ effects[1] = new /\ effects[2] = EnterPlace(v)
  OBVIOUS
<1>. HIDE DEF effects
<1>4. SequenceCode(s, effects, FALSE) = None
  <2>1. ASSUME NEW f, Scoping(s, effects, f, Len(effects)), NEW i \in 1..Len(effects)
        PROVE  /\ Registered(effects[i]) /\ ValidEntry(f[i - 1], effects[i])
               /\ ValidTime(f[i - 1], effects[i], FALSE)
    <3>1. \A m \in 0..2 : f[m].locations = LocationIds(s) \cup CoinedBefore(effects, m + 1)
      <4>1. \A m \in 0..Len(effects) :
              f[m].locations = LocationIds(s) \cup CoinedBefore(effects, m + 1)
        <5>1. Len(effects) \in Nat
          BY <1>3
        <5>. QED BY <2>1, <5>1, ScopingPlaces
      <4>. QED BY <1>3, <4>1
    <3>2. CASE i = 1
      <4>1. f[0].locations = LocationIds(s)
        <5>1. CoinedBefore(effects, 0 + 1) = {}
          BY DEF CoinedBefore
        <5>2. 0 \in 0..2
          OBVIOUS
        <5>3. f[0].locations = LocationIds(s) \cup CoinedBefore(effects, 0 + 1)
          BY <3>1, <5>2
        <5>. QED BY <5>1, <5>3
      <4>2. Registered(new) /\ ValidEntry(f[0], new) /\ ValidTime(f[0], new, FALSE)
        BY <1>1, <4>1 DEF Registered, ValidEntry, ValidTime
      <4>3. i - 1 = 0 /\ effects[i] = new
        BY <1>3, <3>2
      <4>. QED BY <4>2, <4>3
    <3>3. CASE i = 2
      <4>1. v \in f[1].locations
        <5>1. v \in CoinedBefore(effects, 1 + 1)
          BY <1>1, <1>3 DEF CoinedBefore
        <5>. QED BY <3>1, <5>1
      <4>. DEFINE e == EnterPlace(v)
      <4>2. e.type = "enter_location" /\ e.id = v
        BY <1>2
      <4>. HIDE DEF e
      <4>3. Registered(e) /\ ValidEntry(f[1], e) /\ ValidTime(f[1], e, FALSE)
        BY <4>1, <4>2 DEF Registered, ValidEntry, ValidTime
      <4>4. i - 1 = 1 /\ effects[i] = e
        BY <1>3, <3>3 DEF e
      <4>. QED BY <4>3, <4>4
    <3>4. i \in 1..2
      BY <1>3
    <3>5. i = 1 \/ i = 2
      BY ONLY <3>4
    <3>. QED BY <3>2, <3>3, <3>5, Zenon
  <2>2. Len(effects) \in Nat
    BY <1>3
  <2>. QED BY <2>1, <2>2, Taken
<1>. DEFINE t == ApplyEnsureRuntimeLocation(s, new)
<1>5. Apply(s, a, new) = Done(t, "location.created")
  BY <1>1 DEF Apply
<1>6. SoundAt(LocationIds(s), new)
  BY <1>1 DEF SoundAt, WellFormed, Refers
<1>7. StateOK(t) /\ v \in LocationIds(t) /\ t.actorPlaces = s.actorPlaces
      /\ t.partyPlaces = Put(s.partyPlaces, v, Known("reachable", FALSE, {}))
  <2>1. StateOK(t) /\ v \in LocationIds(t)
    BY <1>1, <1>6, CoinedPlaceKeeps, ModuleAssumption DEF Keeps
  <2>2. DOMAIN s = StateFields
    BY DEF StateOK
  <2>3. t.actorPlaces = s.actorPlaces
        /\ t.partyPlaces = Put(s.partyPlaces, v, Known("reachable", FALSE, {}))
    BY <1>1, <2>2 DEF ApplyEnsureRuntimeLocation, StateFields
  <2>. QED BY <2>1, <2>3
<1>8. SeenOK(t)
  <2>1. Apply(s, a, new).ok /\ Apply(s, a, new).state = t
    BY <1>5 DEF Done
  <2>. QED BY <1>6, <2>1, SeenApplied
<1>. HIDE DEF t
<1>9. IsAnswered(t, a, v)
  <2>. DEFINE known == Known("reachable", FALSE, {})
  <2>1. known.existence = "known"
    BY DEF Known
  <2>. HIDE DEF known
  <2>2. v \in DOMAIN t.partyPlaces /\ t.partyPlaces[v].existence = "known"
    BY <1>7, <2>1 DEF Put, known
  <2>3. v \notin DOMAIN t.actorPlaces[a]
    BY <1>7 DEF StateOK, KnownOK, KnowledgeOK
  <2>. DEFINE k == EffectiveKnowledge(t, a)
  <2>4. At(k, v, Unknown).existence # "unknown" /\ k[v].localization = "located"
    BY <1>8, <2>2, <2>3, PartyKnows
  <2>. QED BY <1>7, <2>4, LocatedIsAnswered DEF IsAnswered
<1>10. AppliedAll(s, a, effects)
  <2>1. ASSUME NEW r, Applying(s, a, effects, r, Len(effects)) PROVE r[2].ok
    <3>1. \A m \in 0..2 :
             r[m] = IF m = 0 THEN Done(s, None)
                    ELSE IF r[m - 1].ok THEN Apply(r[m - 1].state, a, effects[m]) ELSE r[m - 1]
      BY <1>3, <2>1 DEF Applying
    <3>2. r[0].ok /\ r[0].state = s
      BY <3>1 DEF Done
    <3>3. r[1] = Apply(s, a, new)
      BY <1>3, <3>1, <3>2
    <3>4. r[1].ok /\ r[1].state = t
      BY <1>5, <3>3 DEF Done
    <3>5. r[2] = Apply(t, a, EnterPlace(v))
      BY <1>3, <3>1, <3>4
    <3>. QED BY <1>9, <3>5, EnterApplies
  <2>2. 2 \in 0..Len(effects) /\ Len(effects) \in Nat /\ 2 + 1..Len(effects) = {}
    BY <1>3
  <2>. QED BY <2>1, <2>2, AllApplied
<1>11. Place(anchor) = [kind |-> "location", id |-> anchor] /\ "location" \in KindsOf(s, anchor)
  BY FoundAs DEF Place
<1>12. Upheld(s, n, a, Decision(a, Place(anchor), "travel", effects, goal))
  BY <1>4, <1>10, <1>11, FreeStands
<1>. QED BY <1>12 DEF Coined, effects, new

\* Effects that no more than repeat what the steps of a rule name.
NamedBy(rule, effects) ==
  /\ IsSequence(effects)
  /\ \A i \in 1..Len(effects) :
        \E j \in DOMAIN rule.steps : rule.steps[j].kind = "effect" /\ effects[i] = rule.steps[j].effect

\* What a rule that an agent names owns, its steps name.
LEMMA RuleEffectsNamed ==
  ASSUME NEW adj, Declared(adj.rule), NEW degree
  PROVE  NamedBy(RuleOf(adj.rule), RuleEffects(adj, degree))
<1>. DEFINE rule == RuleOf(adj.rule)
            option == adj.rule.option
            step == PendingCheck(rule, option)
            w == Walk(rule, option)
<1>1. rule \in Module.rules /\ option \in DOMAIN rule.branches
  BY DeclaredRule
<1>2. rule.branches[option] \in DOMAIN rule.steps
  BY <1>1, RuleIsSound
<1>3. ASSUME NEW start \in DOMAIN rule.steps
      PROVE  WalkOK(rule, WalkFrom(rule, start)) /\ NamedBy(rule, WalkFrom(rule, start).effects)
  <2>1. WalkOK(rule, WalkFrom(rule, start))
    BY <1>1, RuleIsSound, WalkFromOK
  <2>. QED BY <2>1 DEF WalkOK, NamedBy
<1>4. WalkOK(rule, w) /\ NamedBy(rule, w.effects)
  BY <1>2, <1>3 DEF Walk
<1>5. NamedBy(rule, <<>>)
  BY NothingIsSequence DEF NamedBy
<1>6. step # None => /\ step \in DOMAIN rule.steps
                     /\ rule.steps[step].kind \in {"check", "adjudicated_check"}
  <2>1. step = IF w.kind \in {"check", "adjudicated_check"} THEN w.cursor ELSE None
    BY DEF PendingCheck
  <2>. HIDE DEF step, w
  <2>. QED BY <1>4, <2>1 DEF WalkOK
<1>7. ASSUME step # None PROVE NamedBy(rule, EffectsAfterDegree(rule, step, degree))
  <2>. HIDE DEF step, rule
  <2>1. CASE degree \in DOMAIN rule.steps[step].routes
    <3>1. rule.steps[step].routes[degree] \in DOMAIN rule.steps
      BY <1>1, <1>6, <1>7, <2>1, RuleIsSound
    <3>2. EffectsAfterDegree(rule, step, degree) =
            WalkFrom(rule, rule.steps[step].routes[degree]).effects
      BY <2>1 DEF EffectsAfterDegree
    <3>. QED BY <1>3, <3>1, <3>2
  <2>2. CASE degree \notin DOMAIN rule.steps[step].routes
    <3>1. EffectsAfterDegree(rule, step, degree) = <<>>
      BY <2>2 DEF EffectsAfterDegree
    <3>. QED BY <1>5, <3>1
  <2>. QED BY <2>1, <2>2
<1>8. RuleEffects(adj, degree) =
        CASE step # None /\ adj.checked  -> EffectsAfterDegree(rule, step, degree)
          [] step # None /\ ~adj.checked -> <<>>
          [] OTHER -> w.effects
  BY DEF RuleEffects
<1>. HIDE DEF step, rule, w
<1>9. NamedBy(rule, RuleEffects(adj, degree))
  BY <1>4, <1>5, <1>7, <1>8
<1>. QED BY <1>9 DEF rule

\* Of two kinds under which an id may be found, the one it is found under is right.
LEMMA KindPutRight ==
  ASSUME NEW s, NEW target, KindsOf(s, target.id) \subseteq {"entity", "location"},
         KindsOf(s, target.id) # {}, target.kind \in {"entity", "location"}
  PROVE  NormalizedKind(s, target) \in KindsOf(s, target.id)
<1>. DEFINE kinds == KindsOf(s, target.id)
<1>1. CASE target.kind \in kinds
  BY <1>1, KindStays
<1>2. CASE target.kind \notin kinds
  <2>1. PICK k : kinds = {k}
    <3>. HIDE DEF kinds
    <3>1. kinds \subseteq {"entity", "location"} /\ kinds # {}
      BY DEF kinds
    <3>. QED BY <1>2, <3>1
  <2>2. Cardinality(kinds) = 1
    BY <2>1, FS_Singleton
  <2>3. NormalizedKind(s, target) = CHOOSE j \in kinds : TRUE
    <3>. HIDE DEF kinds
    <3>1. NormalizedKind(s, target) =
            IF target.kind \notin kinds /\ Cardinality(kinds) = 1
            THEN CHOOSE j \in kinds : TRUE ELSE target.kind
      BY DEF NormalizedKind, kinds
    <3>. QED BY <1>2, <2>2, <3>1
  <2>. HIDE DEF kinds
  <2>4. NormalizedKind(s, target) \in kinds
    BY <2>1, <2>3
  <2>. QED BY <2>4 DEF kinds
<1>. QED BY <1>1, <1>2

\* The kinds of an id that the module gives it are among those it is found under.
LEMMA KindsInAre ==
  ASSUME NEW s, NEW id
  PROVE  /\ KindsIn(id) \subseteq KindsOf(s, id)
         /\ KindsOf(s, id) \subseteq KindsIn(id) \cup {"entity", "location"}
BY DEF KindsIn, KindsOf, EntityIds, LocationIds

\* The rule the words mean is published where the party stands, and was named.
LEMMA MatchedIs ==
  ASSUME NEW s, NEW said, NEW target, MatchedRule(s, said, target) # None
  PROVE  /\ MatchedRule(s, said, target) \in DOMAIN said.rules
         /\ \E r \in Module.rules :
               /\ r.id = MatchedRule(s, said, target) /\ r.trigger = "agent_match"
               /\ r.scope.locations = {} \/ s.scene \in r.scope.locations
<1>. DEFINE published == {c.rule : c \in RuleCandidates(s)}
            fitting == {r \in {q \in Module.rules : q.id \in published} :
                          target # None /\ r.scope.targets # {} => target \in r.scope.targets}
            ranks == [r \in DOMAIN said.rules |-> said.rules[r].rank]
            ids == {r.id : r \in fitting}
            m == MatchedRule(s, said, target)
<1>1. m = Best(ranks, ids)
  BY DEF MatchedRule
<1>2. DOMAIN ranks = DOMAIN said.rules
  OBVIOUS
<1>3. ids \subseteq published
  OBVIOUS
<1>4. \A p \in published : \E r \in Module.rules :
         /\ r.id = p /\ r.trigger = "agent_match"
         /\ r.scope.locations = {} \/ s.scene \in r.scope.locations
  BY DEF RuleCandidates
<1>. HIDE DEF ranks, ids, published, m
<1>5. m \in ids \cap DOMAIN ranks
  BY <1>1, BestIs DEF m
<1>. QED BY <1>2, <1>3, <1>4, <1>5 DEF m

\* A decision on a rule, and how its fields follow the scope of the rule.
OnRule(a, rule, option, kind, id, family, checked, goal) ==
  [Decision(a, [kind |-> kind, id |-> id], family, <<>>, goal)
     EXCEPT !.rule = [rule |-> rule, option |-> option], !.checked = checked]

OnScope(s, r, target, option, kind, id, family) ==
  /\ option \in r.options
  /\ r.scope.families = {} \/ family \in r.scope.families
  /\ IF r.scope.kinds = {} THEN kind \in {"entity", "location"} ELSE kind \in r.scope.kinds
  /\ IF r.scope.targets = {}
     THEN id = (IF target # None THEN target ELSE s.scene)
          /\ (r.scope.kinds = {} => kind = IF target # None THEN "entity" ELSE "location")
     ELSE id \in r.scope.targets

\* A decision d of the host on the rule r.
DecidedOn(d, s, a, rule, target, r, goal) ==
  \E kind, id, family, option, checked :
    /\ d = OnRule(a, rule, option, kind, id, family, checked, goal)
    /\ OnScope(s, r, target, option, kind, id, family)

\* What the host decides when the words mean a rule.
LEMMA RuleDecisionIs ==
  ASSUME NEW s, NEW a, NEW ctx, NEW rule, NEW target, NEW r \in Module.rules, r.id = rule,
         r.options # {}, ctx.said.rules[rule].option \in {None} \cup r.options
  PROVE  DecidedOn(RuleDecision(s, a, ctx, rule, target), s, a, rule, target, r, ctx.goal)
<1>. DEFINE q == CHOOSE q : q \in Module.rules /\ q.id = rule
            option == IF ctx.said.rules[rule].option # None THEN ctx.said.rules[rule].option
                      ELSE CHOOSE o \in r.options : TRUE
            kind == FirstOf(r.scope.kinds, IF target # None THEN "entity" ELSE "location")
            id   == FirstOf(r.scope.targets, IF target # None THEN target ELSE s.scene)
            family == FirstOf(r.scope.families, ctx.kind)
            checked == PendingCheck(r, option) # None
<1>1. (CHOOSE p \in Module.rules : p.id = rule) = r
  <2>1. \A p \in Module.rules : p.id = rule => p = r
    BY RulesAssumption
  <2>. QED BY <2>1
<1>2. RuleDecision(s, a, ctx, rule, target) =
        OnRule(a, rule, option, kind, id, family, checked, ctx.goal)
  BY <1>1, Zenon DEF RuleDecision, OnRule
<1>3. option \in r.options
  OBVIOUS
<1>4. r.scope.families = {} \/ family \in r.scope.families
  BY DEF FirstOf
<1>5. IF r.scope.kinds = {} THEN kind \in {"entity", "location"} ELSE kind \in r.scope.kinds
  BY DEF FirstOf
<1>6. IF r.scope.targets = {}
      THEN id = (IF target # None THEN target ELSE s.scene)
           /\ (r.scope.kinds = {} => kind = IF target # None THEN "entity" ELSE "location")
      ELSE id \in r.scope.targets
  BY DEF FirstOf
<1>7. OnScope(s, r, target, option, kind, id, family)
  BY <1>3, <1>4, <1>5, <1>6, Zenon DEF OnScope
<1>. HIDE DEF option, kind, id, family, checked
<1>. QED BY <1>2, <1>7, Zenon DEF DecidedOn

\* A decision on a rule stands, if the rule fits and stands where the party does.
LEMMA RuleStands ==
  ASSUME NEW s, StateOK(s), NEW n, NEW a, NEW ctx, NEW target, target # None => target \in EntityIds(s),
         NEW rule, NEW r \in Module.rules, r.id = rule, r.trigger = "agent_match", Fits(r),
         r.scope.locations = {} \/ s.scene \in r.scope.locations,
         ctx.said.rules[rule].option \in {None} \cup r.options
  PROVE  Upheld(s, n, a, RuleDecision(s, a, ctx, rule, target))
<1>z. r.options # {}
  BY DEF Fits
<1>d. DecidedOn(RuleDecision(s, a, ctx, rule, target), s, a, rule, target, r, ctx.goal)
  BY <1>z, RuleDecisionIs, Zenon
<1>1. PICK kind, id, family, option, checked :
           /\ RuleDecision(s, a, ctx, rule, target) = OnRule(a, rule, option, kind, id, family, checked, ctx.goal)
           /\ OnScope(s, r, target, option, kind, id, family)
  BY <1>d, Zenon DEF DecidedOn
<1>0. OnScope(s, r, target, option, kind, id, family)
  BY <1>1
<1>. DEFINE base == Decision(a, [kind |-> kind, id |-> id], family, <<>>, ctx.goal)
            d == [base EXCEPT !.rule = [rule |-> rule, option |-> option], !.checked = checked]
            named == [rule |-> rule, option |-> option]
            aimed == [d.target EXCEPT !.kind = NormalizedKind(s, d.target)]
<1>2. /\ d.target = [kind |-> kind, id |-> id] /\ d.rule = named /\ d.consented = FALSE
      /\ d.success = <<>> /\ d.failure = <<>> /\ d.intent = "none" /\ d.explicit = FALSE
      /\ d.family = family
  BY DEF Decision
<1>. HIDE DEF d, base
<1>3. named.rule = rule /\ named.option = option
  OBVIOUS
<1>. HIDE DEF named
<1>4. Declared(named) /\ RuleOf(named) = r
  <2>1. Declared(named)
    BY <1>0, <1>3 DEF Declared, Fits, OnScope
  <2>2. \A p \in Module.rules : p.id = rule => p = r
    BY RulesAssumption
  <2>3. RuleOf(named) = CHOOSE p \in Module.rules : p.id = rule
    BY <1>3 DEF RuleOf
  <2>. QED BY <2>1, <2>2, <2>3
<1>5. aimed.id = id /\ aimed.kind \in KindsOf(s, id)
      /\ (r.scope.kinds = {} \/ aimed.kind \in r.scope.kinds)
  <2>. DEFINE t == [kind |-> kind, id |-> id]
  <2>1. t.kind = kind /\ t.id = id
    OBVIOUS
  <2>2. aimed.id = id /\ aimed.kind = NormalizedKind(s, t)
    BY <1>2
  <2>. HIDE DEF t, aimed
  <2>3. CASE r.scope.kinds # {}
    <3>1. id \in r.scope.targets /\ kind \in r.scope.kinds /\ kind \in KindsIn(id)
      BY <1>0, <2>3 DEF Fits, OnScope
    <3>2. kind \in KindsOf(s, id)
      BY <3>1, KindsInAre
    <3>3. NormalizedKind(s, t) = kind
      BY <2>1, <3>2, KindStays
    <3>. QED BY <2>2, <3>1, <3>2, <3>3
  <2>4. CASE r.scope.kinds = {} /\ r.scope.targets # {}
    <3>1. id \in r.scope.targets /\ kind \in {"entity", "location"}
          /\ KindsIn(id) # {} /\ KindsIn(id) \subseteq {"entity", "location"}
      BY <1>0, <2>4 DEF Fits, OnScope
    <3>2. KindsOf(s, id) # {} /\ KindsOf(s, id) \subseteq {"entity", "location"}
      <4>1. KindsIn(id) \subseteq KindsOf(s, id) /\ KindsOf(s, id) \subseteq KindsIn(id) \cup {"entity", "location"}
        BY KindsInAre
      <4>. QED BY ONLY <3>1, <4>1
    <3>3. NormalizedKind(s, t) \in KindsOf(s, id)
      BY <2>1, <3>1, <3>2, KindPutRight
    <3>. QED BY <2>2, <2>4, <3>3
  <2>5. CASE r.scope.kinds = {} /\ r.scope.targets = {}
    <3>1. kind \in KindsOf(s, id)
      <4>1. CASE target # None
        BY <1>0, <2>5, <4>1, FoundAs DEF OnScope
      <4>2. CASE target = None
        <5>1. s.scene \in LocationIds(s)
          BY DEF StateOK, PlacesOK
        <5>. QED BY <1>0, <2>5, <4>2, <5>1, FoundAs DEF OnScope
      <4>. QED BY <4>1, <4>2
    <3>2. NormalizedKind(s, t) = kind
      BY <2>1, <3>1, KindStays
    <3>. QED BY <2>2, <2>5, <3>1, <3>2
  <2>. QED BY <2>3, <2>4, <2>5
<1>. HIDE DEF aimed
<1>6. ScopeAdmits(r, s.scene, family, aimed)
  <2>1. r.scope.targets = {} \/ aimed.id \in r.scope.targets
    BY <1>0, <1>5 DEF OnScope
  <2>. QED BY <1>0, <1>5, <2>1 DEF ScopeAdmits, OnScope
<1>7. SequenceCode(s, <<>>, FALSE) = None /\ AppliedAll(s, a, <<>>)
  <2>. DEFINE none == <<>>
  <2>1. Len(none) = 0
    OBVIOUS
  <2>. HIDE DEF none
  <2>2. Len(none) \in Nat /\ 1..Len(none) = {}
    BY <2>1
  <2>3. SequenceCode(s, none, FALSE) = None
    BY <2>2, Taken
  <2>4. AppliedAll(s, a, none)
    <3>1. 0 \in 0..Len(none) /\ 0 + 1..Len(none) = {}
      BY <2>1
    <3>2. \A f : Applying(s, a, none, f, Len(none)) => f[0].ok
      BY <3>1 DEF Applying, Done
    <3>. QED BY <2>2, <3>1, <3>2, AllApplied
  <2>. QED BY <2>3, <2>4 DEF none
<1>8. PersistenceProblem(d) = None
  <2>1. Intent(d) = "none"
    BY <1>2 DEF Intent
  <2>. QED BY <2>1 DEF PersistenceProblem
<1>9. Rejection(s, n, d, n) = None
  <2>. DEFINE inner == IF d.rule # None /\ ~Declared(d.rule) THEN "UNKNOWN_RULE"
                       ELSE IF d.rule # None /\ ~ScopeAdmits(RuleOf(d.rule), s.scene, d.family, aimed)
                       THEN "RULE_OUT_OF_SCOPE"
                       ELSE Preferred(IF d.rule = None THEN PersistenceProblem(d) ELSE None,
                                      Preferred(SequenceCode(s, d.success, d.consented),
                                                SequenceCode(s, d.failure, d.consented)))
  <2>1. inner = None
    BY <1>2, <1>4, <1>6, <1>7, <1>8 DEF Preferred
  <2>2. Rejection(s, n, d, n) =
          CASE n # n -> "SOURCE_REVISION_STALE"
            [] n = n /\ aimed.kind \notin KindsOf(s, aimed.id) -> "TARGET_UNAVAILABLE"
            [] OTHER -> inner
    BY Zenon DEF Rejection, aimed
  <2>. HIDE DEF inner
  <2>. QED BY <1>5, <2>1, <2>2
<1>10. AppliedAll(s, a, OwnedEffects(d, NoRoll))
  <2>1. CASE d.rule = None
    <3>1. OwnedEffects(d, NoRoll) = <<>>
      BY <1>2, <2>1 DEF OwnedEffects, NoRoll
    <3>. QED BY <1>7, <3>1
  <2>2. CASE d.rule # None
    <3>. DEFINE owned == RuleEffects(d, NoRoll.degree)
    <3>1. OwnedEffects(d, NoRoll) = owned
      BY <2>2 DEF OwnedEffects
    <3>2. NamedBy(r, owned)
      BY <1>2, <1>4, RuleEffectsNamed
    <3>. HIDE DEF owned
    <3>3. Len(owned) \in Nat /\ \A i \in 1..Len(owned) : Unfailing(owned[i])
      <4>1. Len(owned) \in Nat
        BY <3>2, SequenceOf DEF NamedBy, IsSequence
      <4>. QED BY <3>2, <4>1 DEF NamedBy, Fits
    <3>4. 0 \in 0..Len(owned) /\ \A i \in 0 + 1..Len(owned) : Unfailing(owned[i])
      BY <3>3
    <3>5. \A f : Applying(s, a, owned, f, Len(owned)) => f[0].ok
      BY <3>4 DEF Applying, Done
    <3>. QED BY <3>1, <3>3, <3>4, <3>5, AllApplied
  <2>. QED BY <2>1, <2>2
<1>11. Upheld(s, n, a, d)
  BY <1>9, <1>10 DEF Upheld
<1>. QED BY <1>1, <1>11 DEF d, base, OnRule

\* The rules of the module as Fits says of one.
LEMMA EachFits ==
  ASSUME RulesFit, NEW r \in Module.rules, r.trigger = "agent_match"
  PROVE  Fits(r)
BY DEF RulesFit

\* What the view settles stands: the engine takes it, and applies all of it.
LEMMA DeterministicStands ==
  ASSUME RulesFit, NEW s, StateOK(s), SeenOK(s), NEW n, NEW a \in Actors, NEW said \in Utterances,
         NEW ctx, ctx.said = said, Deterministic(s, a, ctx) # None
  PROVE  Upheld(s, n, a, Deterministic(s, a, ctx))
<1>0. /\ IsFiniteSet(said.people) /\ "location" \in KindsOf(s, s.scene)
      /\ \A l : Place(l) = [kind |-> "location", id |-> l]
      /\ \A e : Thing(e) = [kind |-> "entity", id |-> e]
  <2>1. s.scene \in LocationIds(s)
    BY DEF StateOK, PlacesOK
  <2>. QED BY <2>1, FoundAs, HostAssumption DEF Place, Thing
<1>2. ASSUME NEW to, to # None => to \in Destinations(s, a), TravelsTo(s, a, ctx, to) # None
      PROVE  Upheld(s, n, a, TravelsTo(s, a, ctx, to))
  <2>1. ASSUME Ambient(s, a, ctx) # None PROVE Upheld(s, n, a, Ambient(s, a, ctx))
    <3>. DEFINE v == ctx.goal.venue
    <3>1. v # None /\ v \notin LocationIds(s)
          /\ Ambient(s, a, ctx) = Coined(a, v, Anchor(s, a), ctx.goal)
      BY <2>1 DEF Ambient
    <3>2. Anchor(s, a) \in LocationIds(s)
      BY AnchorIsPlace
    <3>. HIDE DEF v
    <3>. QED BY <3>1, <3>2, CoinedStands
  <2>2. CASE to = None
    BY <1>2, <2>1, <2>2 DEF TravelsTo
  <2>3. CASE to # None /\ to = s.scene
    <3>1. \E goal : TravelsTo(s, a, ctx, to) = Decision(a, Place(to), "action", <<Narrative>>, goal)
      BY <2>3, Zenon DEF TravelsTo
    <3>. QED BY <1>0, <2>3, <3>1, ToldStands
  <2>4. CASE to # None /\ to # s.scene
    <3>1. TravelsTo(s, a, ctx, to) =
            Decision(a, Place(to), "travel",
                     <<EnterPlace(to)>> \o CompanionMoves(s, ctx.said, to), ctx.goal)
      BY <2>4, Zenon DEF TravelsTo
    <3>2. to \in Destinations(s, a) /\ to # None
      BY <1>2, <2>4
    <3>3. Upheld(s, n, a, Decision(a, Place(to), "travel",
                     <<EnterPlace(to)>> \o CompanionMoves(s, said, to), ctx.goal))
      BY <1>0, <3>2, TravelStands
    <3>. QED BY <3>1, <3>3
  <2>. QED BY <2>2, <2>3, <2>4
<1>3. ASSUME NEW target, target # None => target \in EntityIds(s),
             NEW rule, rule = MatchedRule(s, said, target), ActsOn(s, a, ctx, target, rule) # None
      PROVE  Upheld(s, n, a, ActsOn(s, a, ctx, target, rule))
  <2>1. CASE rule # None
    <3>1. ActsOn(s, a, ctx, target, rule) = RuleDecision(s, a, ctx, rule, target)
      BY <2>1, Zenon DEF ActsOn
    <3>2. rule \in DOMAIN said.rules
      BY <1>3, <2>1, MatchedIs
    <3>3. PICK r \in Module.rules : /\ r.id = rule /\ r.trigger = "agent_match"
                                    /\ r.scope.locations = {} \/ s.scene \in r.scope.locations
      BY <1>3, <2>1, MatchedIs
    <3>4. Fits(r)
      BY <3>3, EachFits
    <3>5. ctx.said.rules[rule].option \in {None} \cup r.options
      BY <3>2, <3>3 DEF RulesFit
    <3>. QED BY <1>3, <3>1, <3>3, <3>4, <3>5, RuleStands
  <2>2. CASE rule = None /\ ctx.kind = "dialogue" /\ target # None
    <3>1. ActsOn(s, a, ctx, target, rule) = Decision(a, Thing(target), "talk", <<Narrative>>, ctx.goal)
      BY <2>2, Zenon DEF ActsOn
    <3>2. "entity" \in KindsOf(s, target)
      BY <1>3, <2>2, FoundAs
    <3>. QED BY <1>0, <3>1, <3>2, ToldStands
  <2>3. CASE ~(rule # None) /\ ~(rule = None /\ ctx.kind = "dialogue" /\ target # None)
    BY <1>3, <2>3 DEF ActsOn
  <2>. QED BY <2>1, <2>2, <2>3
<1>4. CASE ctx.kind \in {"wait", "rest"}
  BY <1>4 DEF Deterministic
<1>5. CASE ctx.kind \notin {"wait", "rest"} /\ ctx.kind = "travel"
  <2>1. Deterministic(s, a, ctx) = Travels(s, a, ctx)
    BY <1>5 DEF Deterministic
  <2>2. \A phrase : TravelTarget(s, a, phrase) # None => TravelTarget(s, a, phrase) \in Destinations(s, a)
    BY BestIs DEF TravelTarget
  <2>3. PICK to : Travels(s, a, ctx) = TravelsTo(s, a, ctx, to)
                  /\ to \in {None, TravelTarget(s, a, ctx.said.words), TravelTarget(s, a, ctx.goal)}
    <3>. DEFINE first == IF ctx.single THEN TravelTarget(s, a, ctx.said.words) ELSE None
                to == Preferred(first, TravelTarget(s, a, ctx.goal))
    <3>1. Travels(s, a, ctx) = TravelsTo(s, a, ctx, to)
      BY Zenon DEF Travels
    <3>2. to \in {None, TravelTarget(s, a, ctx.said.words), TravelTarget(s, a, ctx.goal)}
      BY DEF Preferred
    <3>. HIDE DEF to
    <3>. QED BY <3>1, <3>2
  <2>4. to # None => to \in Destinations(s, a)
    BY <2>2, <2>3
  <2>. QED BY <1>2, <2>1, <2>3, <2>4
<1>6. CASE ctx.kind \notin {"wait", "rest"} /\ ctx.kind # "travel"
  <2>. DEFINE target == SeenThing(s, a, said)
              rule == MatchedRule(s, said, target)
  <2>1. Deterministic(s, a, ctx) = Acts(s, a, ctx)
    BY <1>6 DEF Deterministic
  <2>2. Acts(s, a, ctx) = ActsOn(s, a, ctx, target, rule)
    BY Zenon DEF Acts
  <2>3. target # None => target \in EntityIds(s)
    BY SeenIsThing
  <2>. HIDE DEF target
  <2>4. rule = MatchedRule(s, said, target)
    OBVIOUS
  <2>. HIDE DEF rule
  <2>. QED BY <1>3, <2>1, <2>2, <2>3, <2>4
<1>. QED BY <1>4, <1>5, <1>6

-----------------------------------------------------------------------------
(* The theorems.                                                           *)

WorldIInv == WorldInv /\ CascadeInv /\ GameAccounted

\* Every step keeps the invariant.
LEMMA NextKeepsAll ==
  ASSUME WorldIInv, [DrivenNext]_vars
  PROVE  WorldIInv'
<1>0. WorldInv /\ CascadeInv /\ GameAccounted
  BY DEF WorldIInv
<1>1. ASSUME NEW adj, Orderly(adj), Submit(adj) PROVE WorldIInv'
  <2>1. \E result, effects : run' = Begun(adj, result, effects)
    BY <1>1 DEF Submit
  <2>2. game' = game
    BY <1>1 DEF Submit
  <2>. QED BY <1>0, <1>1, <2>1, <2>2, SubmitKeepsWorld, BegunCascade, GameStands DEF WorldIInv
<1>2. ASSUME NEW adj, Orderly(adj), SubmitChecked(adj) PROVE WorldIInv'
  <2>1. game' = game /\ run' = run
    BY <1>2 DEF SubmitChecked
  <2>. QED BY <1>0, <1>2, <2>1, SubmitCheckedKeepsWorld, CascadeStands, GameStands DEF WorldIInv
<1>3. ASSUME NEW adj, Cancel(adj) PROVE WorldIInv'
  <2>1. game' = game /\ run' = run
    BY <1>3 DEF Cancel
  <2>. QED BY <1>0, <1>3, <2>1, CancelKeepsWorld, CascadeStands, GameStands DEF WorldIInv
<1>4. ASSUME NEW adj, NEW result \in Results, Resolve(adj, result)
      PROVE  WorldIInv'
  <2>1. \E effects : run' = Begun(adj, result, effects)
    BY <1>4 DEF Resolve
  <2>2. game' = game
    BY <1>4 DEF Resolve
  <2>. QED BY <1>0, <1>4, <2>1, <2>2, ResolveKeepsWorld, BegunCascade, GameStands DEF WorldIInv
<1>5. CASE ApplyEffect
  <2>1. game' = game
    BY <1>5, Zenon DEF ApplyEffect, Accept, Refuse
  <2>. QED BY <1>0, <1>5, <2>1, ApplyEffectKeepsWorld, ApplyEffectCascade, GameStands DEF WorldIInv
<1>6. CASE Conclude
  <2>1. game' = game
    BY <1>6 DEF Conclude
  <2>. QED BY <1>0, <1>6, <2>1, ConcludeKeepsWorld, ConcludeCascade, GameStands DEF WorldIInv
<1>7. CASE ReadEvent
  <2>1. game' = game
    BY <1>7, Zenon DEF ReadEvent
  <2>. QED BY <1>0, <1>7, <2>1, ReadEventKeepsWorld, ReadEventCascade, GameStands DEF WorldIInv
<1>8. CASE FireRule
  <2>1. game' = game
    BY <1>8, Zenon DEF FireRule, Refuse
  <2>2. run.waiting \in Seq(EventRules)
    BY <1>0, <1>8 DEF FireRule, CascadeInv, CascadeOK, CascadeTyped
  <2>. QED BY <1>0, <1>8, <2>1, <2>2, FireRuleKeepsWorld, FireRuleCascade, GameStands DEF WorldIInv
<1>9. CASE EndRule
  <2>1. game' = game
    BY <1>9, Zenon DEF EndRule
  <2>. QED BY <1>0, <1>9, <2>1, EndRuleKeepsWorld, EndRuleCascade, GameStands DEF WorldIInv
<1>10. CASE Commit
  BY <1>0, <1>10, CommitKeepsWorld, CommitAccounts DEF WorldIInv
<1>11. CASE UNCHANGED vars
  <2>1. game' = game /\ run' = run
    BY <1>11 DEF vars
  <2>. QED BY <1>0, <1>11, <2>1, SameKeepsWorld, CascadeStands, GameStands DEF WorldIInv
<1>. QED BY <1>1, <1>2, <1>3, <1>4, <1>5, <1>6, <1>7, <1>8, <1>9, <1>10, <1>11 DEF DrivenNext

\* The invariant the theorems rest on: what the state names exists, also in the
\* draft of the transaction under way, whose effects left to apply are sound on
\* it; and the agenda of that transaction says where its cascade stands.
LEMMA DrivenInvariant == DrivenSpec => []WorldIInv
<1>1. Init => WorldIInv
  BY WorldInit, CascadeInit DEF WorldIInv
<1>2. WorldIInv /\ [DrivenNext]_vars => WorldIInv'
  BY NextKeepsAll
<1>. QED BY <1>1, <1>2, PTL DEF DrivenSpec

\* World hands the engine the adjudications it assumes orderly.
LEMMA WorldDrives == Spec => DrivenSpec
<1>1. [Next]_vars => [DrivenNext]_vars
  <2>1. \A adj \in Adjudications : Orderly(adj)
    BY WorldAssumption DEF Orderly
  <2>. QED BY <2>1 DEF Next, DrivenNext
<1>. QED BY <1>1, PTL DEF Spec, DrivenSpec

\* So the invariant holds of World.
THEOREM WorldInvariant == Spec => []WorldIInv
BY DrivenInvariant, WorldDrives, PTL

\* HangsTogether, whoever drives the engine.
LEMMA DrivenHangsTogether == DrivenSpec => []HangsTogether
<1>1. WorldIInv => HangsTogether
  <2>1. ASSUME WorldInv PROVE HangsTogether
    <3>1. StateOK(game) /\ commands \in 0..MaxCommands /\ Cardinality(pending) <= MaxPending
      BY <2>1 DEF WorldInv
    <3>2. game.scene \in LocationIds(game)
          /\ \A l \in DOMAIN game.runtimeLocations :
                game.runtimeLocations[l].connected \in LocationIds(game) \ {l}
      BY <3>1 DEF StateOK, PlacesOK
    <3>3. /\ KnowledgeOK(game.partyPlaces, LocationIds(game))
          /\ \A a \in Actors : KnowledgeOK(game.actorPlaces[a], LocationIds(game))
      BY <3>1 DEF StateOK, KnownOK
    <3>4. /\ \A i \in DOMAIN game.items :
                LET custody == game.items[i].custody
                IN  \/ custody.kind = "actor" /\ custody.ref \in Actors
                    \/ custody.kind = "location" /\ custody.ref \in LocationIds(game)
                    \/ IsCanonItem(i) /\ custody = CanonItem(i).custody
          /\ \A e \in DOMAIN game.entities : game.entities[e].holder = None
      BY <3>1, Zenon DEF StateOK, ThingsOK, CustodyOK
    <3>5. game.time.point \in 1..Len(Module.points)
      BY <3>1 DEF StateOK, TimeOK
    <3>. QED BY <3>1, <3>2, <3>3, <3>4, <3>5, Zenon DEF HangsTogether
  <2>. QED BY <2>1 DEF WorldIInv
<1>. QED BY <1>1, DrivenInvariant, PTL

\* Whatever rules, agents and players did to it, and although a checked command
\* is applied long after it was validated, every place that the committed state
\* names exists, for every module, party, set of adjudications and bound.
THEOREM HangsTogetherTheorem == Spec => []HangsTogether
BY DrivenHangsTogether, WorldDrives, PTL

\* AgendaAccounts, whoever drives the engine.
LEMMA DrivenAgendaAccounts == DrivenSpec => []AgendaAccounts
<1>1. WorldIInv => AgendaAccounts
  BY Zenon DEF WorldIInv, GameAccounted, AgendaAccounts
<1>. QED BY <1>1, DrivenInvariant, PTL

\* For every set of rules and every budget, the agenda a commit keeps tells which
\* of its rules ran, at which one it stopped and that none ran behind that one;
\* no event called a rule twice, and none ran deeper than its own limit or that
\* of a rule before it.
THEOREM AgendaAccountsTheorem == Spec => []AgendaAccounts
BY DrivenAgendaAccounts, WorldDrives, PTL

\* TravelNeedsAWay, whoever drives the engine.
LEMMA DrivenTravelNeedsAWay == DrivenSpec => TravelNeedsAWay
<1>1. WorldIInv /\ [DrivenNext]_vars => [TravelStep]_vars
  BY NextTravels DEF WorldIInv
<1>2. TravelNeedsAWay <=> [][TravelStep]_vars
  BY DEF TravelNeedsAWay, TravelStep
<1>. QED BY <1>1, <1>2, DrivenInvariant, PTL DEF DrivenSpec

\* Whatever agents propose and rules do, the party moves only along ways that are
\* open where it moves, for every map, and as far as it likes in one journey; a
\* closed way leaves it where the open ones end.
THEOREM TravelNeedsAWayTheorem == Spec => TravelNeedsAWay
BY DrivenTravelNeedsAWay, WorldDrives, PTL

\* ShownExitsAreAnswered, whoever drives the engine.
LEMMA DrivenShownExitsAreAnswered == DrivenSpec => []ShownExitsAreAnswered
<1>1. Init => SeenInv
  BY SeenAtFirst DEF Init, SeenInv, Idle
<1>2. WorldIInv /\ SeenInv /\ [DrivenNext]_vars => SeenInv'
  BY NextKeepsSeen DEF WorldIInv
<1>3. WorldIInv /\ SeenInv => ShownExitsAreAnswered
  BY ExitsAreAnswered DEF WorldIInv, WorldInv, SeenInv, ShownExitsAreAnswered
<1>. QED BY <1>1, <1>2, <1>3, DrivenInvariant, PTL DEF DrivenSpec

\* Whoever hid or showed what, and whatever was coined, every exit a player is
\* shown leads where the engine has an answer: there, or as far as the way is
\* open. What holds it up is that a place was hidden from somebody exactly when
\* an override says so, and that what is known of a place has a position.
THEOREM ShownExitsAreAnsweredTheorem == Spec => []ShownExitsAreAnswered
BY DrivenShownExitsAreAnswered, WorldDrives, PTL

\* SecretsStay, whoever drives the engine.
LEMMA DrivenSecretsStay == DrivenSpec => SecretsStay
<1>1. Init => SecretInv
  BY DEF Init, SecretInv
<1>2. WorldIInv /\ SecretInv /\ [DrivenNext]_vars => SecretInv'
  BY NextKeepsSecret DEF WorldIInv
<1>3. WorldIInv /\ SecretInv /\ [DrivenNext]_vars => [SecretStep]_vars
  BY NextIsSecret DEF WorldIInv
<1>4. SecretsStay <=> [][SecretStep]_vars
  BY DEF SecretsStay, SecretStep
<1>. QED BY <1>1, <1>2, <1>3, <1>4, DrivenInvariant, PTL DEF DrivenSpec

\* Whatever modules, rules and maps there are: a command whose effects are all for
\* its actor alone, and which calls no rule, shows no other player anything new
\* when it is committed, and takes nothing from what they were shown.
THEOREM SecretsStayTheorem == Spec => SecretsStay
BY DrivenSecretsStay, WorldDrives, PTL

\* Whatever a model proposes, however its proposals are repaired and whatever
\* commits in between: an action that is sent does what it did when it was first
\* sent, effect by effect, in their places, unless what the engine asked for was
\* missing or a thing could not be carried; and never is its check dropped, or an
\* effect of its failure changed.
THEOREM NothingSmuggledInTheorem == HostSpec => []NothingSmuggledIn
<1>1. HostInv => NothingSmuggledIn
  BY DEF HostInv, TurnOK, Unsmuggled, NothingSmuggledIn, Ended
<1>. QED BY <1>1, HostInvariant, PTL

\* Nothing that a model proposes or a player says can break the world: all that is
\* proved of the engine holds of the game that the host drives.
THEOREM HostKeepsTheWorld ==
  HostSpec => /\ [](HangsTogether /\ ShownExitsAreAnswered /\ AgendaAccounts)
              /\ TravelNeedsAWay /\ SecretsStay
BY HostDrivesWorld, DrivenHangsTogether, DrivenShownExitsAreAnswered, DrivenAgendaAccounts,
   DrivenTravelNeedsAWay, DrivenSecretsStay, PTL

\* Whatever was said and whatever became of the world before: what the host
\* decides without asking a model, the engine takes on the state it was decided on
\* and applies to its end - a journey to any place the player is shown, however it
\* was learnt of, with whoever comes along; a venue coined on the spot; talk; and
\* the rule the words mean, where the rules fit to be chosen so.
THEOREM HostDecisionsStandTheorem == RulesFit => (HostSpec => []HostDecisionsStand)
<1>. SUFFICES ASSUME RulesFit PROVE HostSpec => []HostDecisionsStand
  OBVIOUS
<1>1. Init => SeenInv
  BY SeenAtFirst DEF Init, SeenInv, Idle
<1>2. WorldIInv /\ SeenInv /\ [DrivenNext]_vars => SeenInv'
  BY NextKeepsSeen DEF WorldIInv
<1>3. WorldIInv /\ SeenInv => HostDecisionsStand
  <2>1. ASSUME WorldIInv, SeenInv PROVE StateOK(game) /\ SeenOK(game)
    BY <2>1 DEF WorldIInv, WorldInv, SeenInv
  <2>2. ASSUME StateOK(game), SeenOK(game), NEW a \in Actors, NEW said \in Utterances,
               NEW d, d = Deterministic(game, a, Spoken(said, said.kind)), d # None
        PROVE  Rejection(game, commands, d, commands) = None
               /\ AppliedAll(game, a, OwnedEffects(d, NoRoll))
    <3>. DEFINE ctx == Spoken(said, said.kind)
    <3>1. ctx.said = said
      BY DEF Spoken
    <3>. HIDE DEF ctx
    <3>2. Upheld(game, commands, a, d)
      BY <2>2, <3>1, DeterministicStands DEF ctx
    <3>. QED BY <3>2 DEF Upheld
  <2>. QED BY <2>1, <2>2, Zenon DEF HostDecisionsStand
<1>. QED BY <1>1, <1>2, <1>3, DrivenInvariant, HostDrivesWorld, PTL DEF DrivenSpec

-----------------------------------------------------------------------------
(* A module that passes its validation can be run.                         *)

\* What is looked up under an id is a row with this id.
LEMMA NamedIs ==
  ASSUME NEW items, NEW id \in Ids(items)
  PROVE  \E i \in DOMAIN items : Named(items, id) = items[i] /\ items[i].id = id
<1>1. \E i \in DOMAIN items : items[i].id = id
  BY DEF Ids
<1>. QED BY <1>1 DEF Named

\* Nothing is missing where all is known.
LEMMA NothingMissing ==
  ASSUME NEW refs, NEW known, NEW code, NEW at, Missing(refs, known, code, at) = {}
  PROVE  refs \subseteq known \cup {None}
<1>1. SUFFICES ASSUME NEW r \in refs, r \notin known \cup {None} PROVE FALSE
  OBVIOUS
<1>2. <<code, at, r>> \in Missing(refs, known, code, at)
  BY <1>1 DEF Missing
<1>. QED BY <1>2

\* What passes has passed both halves.
LEMMA PassesBoth ==
  ASSUME NEW draft, Verdict(draft) = "pass"
  PROVE  SchemaValid(draft) /\ SemanticIssues(draft) = {}
BY DEF Verdict

-----------------------------------------------------------------------------
(* The places, each inside another. *)

\* The climb, n places up.
Climbed(up, locations, l, N) ==
  up = [n \in 0..N |-> IF n = 0 THEN [seen |-> {}, cursor |-> l] ELSE Upward(locations, up[n - 1])]

\* A climb is the function its definition chooses.
LEMMA ClimbedExists ==
  ASSUME NEW locations, NEW l, NEW N \in Nat
  PROVE  \E up : Climbed(up, locations, l, N)
<1>. DEFINE first == [seen |-> {}, cursor |-> l]
            G == {m \in 0..N : \E w : Climbed(w, locations, l, m)}
<1>1. 0 \in G
  <2>. DEFINE w == [n \in 0..0 |-> first]
  <2>1. Climbed(w, locations, l, 0)
    BY DEF Climbed
  <2>. QED BY <2>1
<1>2. ASSUME NEW m \in 0..N, m < N, m \in G PROVE m + 1 \in G
  <2>1. PICK w : Climbed(w, locations, l, m)
    BY <1>2
  <2>. DEFINE v == [n \in 0..m + 1 |-> IF n = m + 1 THEN Upward(locations, w[m]) ELSE w[n]]
  <2>2. (\A n \in 0..m : v[n] = w[n]) /\ v[m + 1] = Upward(locations, w[m])
    OBVIOUS
  <2>3. \A n \in 0..m : w[n] = IF n = 0 THEN first ELSE Upward(locations, w[n - 1])
    BY <2>1 DEF Climbed
  <2>4. v = [n \in 0..m + 1 |-> v[n]]
    OBVIOUS
  <2>. HIDE DEF v, first
  <2>5. \A n \in 0..m + 1 : v[n] = IF n = 0 THEN first ELSE Upward(locations, v[n - 1])
    <3>1. TAKE n \in 0..m + 1
    <3>2. CASE n = m + 1
      BY <2>2, <3>2
    <3>3. CASE n # m + 1
      <4>1. n \in 0..m /\ (n # 0 => n - 1 \in 0..m)
        BY <3>3
      <4>. QED BY <2>2, <2>3, <4>1
    <3>. QED BY <3>2, <3>3
  <2>6. Climbed(v, locations, l, m + 1)
    BY <2>4, <2>5 DEF Climbed, first
  <2>7. m + 1 \in 0..N
    BY <1>2
  <2>. QED BY <2>6, <2>7
<1>3. N \in G
  <2>. HIDE DEF G
  <2>. QED BY <1>1, <1>2, StepByStep
<1>. QED BY <1>3

LEMMA ClimbIs ==
  ASSUME NEW locations, NEW l, Len(locations) \in Nat
  PROVE  \E up : Climbed(up, locations, l, Len(locations)) /\ Climb(locations, l) = up[Len(locations)]
<1>. DEFINE up == CHOOSE up : Climbed(up, locations, l, Len(locations))
<1>1. Climbed(up, locations, l, Len(locations))
  BY ClimbedExists
<1>2. Climb(locations, l) = up[Len(locations)]
  BY DEF Climb, Climbed
<1>. QED BY <1>1, <1>2

\* The search for cycles, n places on.
Searched(up, locations, N) ==
  up = [n \in 0..N |-> IF n = 0 THEN [reported |-> {}, issues |-> {}] ELSE Reported(locations, n, up[n - 1])]

\* A search is the function its definition chooses.
LEMMA SearchedExists ==
  ASSUME NEW locations, NEW N \in Nat
  PROVE  \E up : Searched(up, locations, N)
<1>. DEFINE first == [reported |-> {}, issues |-> {}]
            G == {m \in 0..N : \E w : Searched(w, locations, m)}
<1>1. 0 \in G
  <2>. DEFINE w == [n \in 0..0 |-> first]
  <2>1. Searched(w, locations, 0)
    BY DEF Searched
  <2>. QED BY <2>1
<1>2. ASSUME NEW m \in 0..N, m < N, m \in G PROVE m + 1 \in G
  <2>1. PICK w : Searched(w, locations, m)
    BY <1>2
  <2>. DEFINE v == [n \in 0..m + 1 |-> IF n = m + 1 THEN Reported(locations, m + 1, w[m]) ELSE w[n]]
  <2>2. (\A n \in 0..m : v[n] = w[n]) /\ v[m + 1] = Reported(locations, m + 1, w[m])
    OBVIOUS
  <2>3. \A n \in 0..m : w[n] = IF n = 0 THEN first ELSE Reported(locations, n, w[n - 1])
    BY <2>1 DEF Searched
  <2>4. v = [n \in 0..m + 1 |-> v[n]]
    OBVIOUS
  <2>. HIDE DEF v, first
  <2>5. \A n \in 0..m + 1 : v[n] = IF n = 0 THEN first ELSE Reported(locations, n, v[n - 1])
    <3>1. TAKE n \in 0..m + 1
    <3>2. CASE n = m + 1
      BY <2>2, <3>2
    <3>3. CASE n # m + 1
      <4>1. n \in 0..m /\ (n # 0 => n - 1 \in 0..m)
        BY <3>3
      <4>. QED BY <2>2, <2>3, <4>1
    <3>. QED BY <3>2, <3>3
  <2>6. Searched(v, locations, m + 1)
    BY <2>4, <2>5 DEF Searched, first
  <2>7. m + 1 \in 0..N
    BY <1>2
  <2>. QED BY <2>6, <2>7
<1>3. N \in G
  <2>. HIDE DEF G
  <2>. QED BY <1>1, <1>2, StepByStep
<1>. QED BY <1>3

LEMMA SearchIs ==
  ASSUME NEW locations, Len(locations) \in Nat
  PROVE  \E up : Searched(up, locations, Len(locations)) /\ CycleIssues(locations) = up[Len(locations)].issues
<1>. DEFINE up == CHOOSE up : Searched(up, locations, Len(locations))
<1>1. Searched(up, locations, Len(locations))
  BY SearchedExists
<1>2. CycleIssues(locations) = up[Len(locations)].issues
  BY DEF CycleIssues, Searched
<1>. QED BY <1>1, <1>2
\* A trail, n places out.
Crumbed(up, m, l, N) ==
  up = [n \in 0..N |-> IF n = 0 THEN <<l>> ELSE EngineOf(m)!Outward(up[n - 1])]

\* A trail is the function its definition chooses.
LEMMA CrumbedExists ==
  ASSUME NEW m, NEW l, NEW N \in Nat
  PROVE  \E up : Crumbed(up, m, l, N)
<1>. DEFINE first == <<l>>
            G == {k \in 0..N : \E w : Crumbed(w, m, l, k)}
<1>1. 0 \in G
  <2>. DEFINE w == [n \in 0..0 |-> first]
  <2>1. Crumbed(w, m, l, 0)
    BY DEF Crumbed
  <2>. QED BY <2>1
<1>2. ASSUME NEW k \in 0..N, k < N, k \in G PROVE k + 1 \in G
  <2>1. PICK w : Crumbed(w, m, l, k)
    BY <1>2
  <2>. DEFINE v == [n \in 0..k + 1 |-> IF n = k + 1 THEN EngineOf(m)!Outward(w[k]) ELSE w[n]]
  <2>2. (\A n \in 0..k : v[n] = w[n]) /\ v[k + 1] = EngineOf(m)!Outward(w[k])
    OBVIOUS
  <2>3. \A n \in 0..k : w[n] = IF n = 0 THEN first ELSE EngineOf(m)!Outward(w[n - 1])
    BY <2>1 DEF Crumbed
  <2>4. v = [n \in 0..k + 1 |-> v[n]]
    OBVIOUS
  <2>. HIDE DEF v, first
  <2>5. \A n \in 0..k + 1 : v[n] = IF n = 0 THEN first ELSE EngineOf(m)!Outward(v[n - 1])
    <3>1. TAKE n \in 0..k + 1
    <3>2. CASE n = k + 1
      BY <2>2, <3>2
    <3>3. CASE n # k + 1
      <4>1. n \in 0..k /\ (n # 0 => n - 1 \in 0..k)
        BY <3>3
      <4>. QED BY <2>2, <2>3, <4>1
    <3>. QED BY <3>2, <3>3
  <2>6. Crumbed(v, m, l, k + 1)
    BY <2>4, <2>5 DEF Crumbed, first
  <2>7. k + 1 \in 0..N
    BY <1>2
  <2>. QED BY <2>6, <2>7
<1>3. N \in G
  <2>. HIDE DEF G
  <2>. QED BY <1>1, <1>2, StepByStep
<1>. QED BY <1>3

LEMMA CrumbsAre ==
  ASSUME NEW m, NEW l, Cardinality(m.locations) \in Nat
  PROVE  \E up : Crumbed(up, m, l, Cardinality(m.locations)) /\ EngineOf(m)!Breadcrumbs(l) = up[Cardinality(m.locations)]
<1>. DEFINE up == CHOOSE up : Crumbed(up, m, l, Cardinality(m.locations))
<1>1. Crumbed(up, m, l, Cardinality(m.locations))
  BY CrumbedExists
<1>2. EngineOf(m)!Breadcrumbs(l) = up[Cardinality(m.locations)]
  BY DEF EngineOf!Breadcrumbs, EngineOf!Cardinality, Cardinality, Crumbed
<1>. QED BY <1>1, <1>2

\* Every place is in a place there is, or in none, and None is no place.
Nested(locations) ==
  /\ None \notin Ids(locations)
  /\ \A l \in Ids(locations) : Named(locations, l).parent \in Ids(locations) \cup {None}

\* The tables of a file the trail is read from.
Mapped(m, locations) ==
  /\ m.locations = Ids(locations)
  /\ \A l \in Ids(locations) : m.parent[l] = Named(locations, l).parent

\* What the trail has, when the climb has not come round.
Places(t) == {t[i] : i \in DOMAIN t}

\* The climb and the trail side by side: they stand at the same place and have met
\* the same ones, until the one has left the topmost and the other stays at it; or
\* the climb came round.
Abreast(m, locations, at, t) ==
  \/ at.cursor \in at.seen /\ at.cursor # None
  \/ /\ at.cursor = None /\ IsSequence(t) /\ Len(t) > 0
     /\ t[1] \in m.locations /\ m.parent[t[1]] = None
  \/ /\ at.cursor \notin at.seen /\ at.cursor \in Ids(locations)
     /\ IsSequence(t) /\ Len(t) > 0
     /\ t[1] = at.cursor /\ Places(t) = at.seen \cup {at.cursor}

\* A place before a sequence of them.
LEMMA Preceded ==
  ASSUME NEW t, IsSequence(t), NEW e
  PROVE  /\ IsSequence(<<e>> \o t) /\ Len(<<e>> \o t) > 0
         /\ (<<e>> \o t)[1] = e /\ Places(<<e>> \o t) = {e} \cup Places(t)
<1>. DEFINE S == Places(t) \cup {e}
            u == <<e>> \o t
<1>1. t \in Seq(S) /\ Len(t) \in Nat /\ DOMAIN t = 1..Len(t)
  BY SequenceOf DEF IsSequence, Places
<1>2. u \in Seq(S) /\ Len(u) = Len(t) + 1 /\ u[1] = e /\ \A i \in 1..Len(t) : u[i + 1] = t[i]
  BY <1>1
<1>3. DOMAIN u = 1..Len(t) + 1
  BY <1>1, <1>2
<1>4. Places(u) = {e} \cup Places(t)
  <2>. HIDE DEF u
  <2>1. ASSUME NEW x \in Places(u) PROVE x \in {e} \cup Places(t)
    <3>1. PICK i \in 1..Len(t) + 1 : x = u[i]
      BY <1>3, <2>1 DEF Places
    <3>2. i = 1 \/ (i - 1 \in 1..Len(t) /\ (i - 1) + 1 = i)
      BY <1>1
    <3>3. i = 1 \/ u[i] = t[i - 1]
      BY <1>2, <3>2
    <3>. QED BY <1>1, <1>2, <3>1, <3>2, <3>3 DEF Places
  <2>2. ASSUME NEW x \in {e} \cup Places(t) PROVE x \in Places(u)
    <3>1. CASE x = e
      BY <1>1, <1>2, <1>3, <3>1 DEF Places
    <3>2. CASE x \in Places(t)
      <4>1. PICK i \in 1..Len(t) : x = t[i]
        BY <1>1, <3>2 DEF Places
      <4>2. i + 1 \in 1..Len(t) + 1
        BY <1>1
      <4>. QED BY <1>2, <1>3, <4>1, <4>2 DEF Places
    <3>. QED BY <2>2, <3>1, <3>2
  <2>. QED BY <2>1, <2>2
<1>5. IsSequence(u)
  BY <1>2, SequenceOf
<1>. QED BY <1>1, <1>2, <1>4, <1>5

\* They begin at one place.
LEMMA AbreastFirst ==
  ASSUME NEW m, NEW locations, Nested(locations), NEW l \in Ids(locations)
  PROVE  Abreast(m, locations, [seen |-> {}, cursor |-> l], <<l>>)
<1>1. <<l>> \in Seq({l}) /\ Len(<<l>>) = 1 /\ <<l>>[1] = l /\ DOMAIN <<l>> = 1..1
  OBVIOUS
<1>2. IsSequence(<<l>>)
  BY <1>1, SequenceOf
<1>3. Places(<<l>>) = {l}
  BY <1>1 DEF Places
<1>. QED BY <1>1, <1>2, <1>3 DEF Abreast

\* What is one place out.
LEMMA OutwardIs ==
  ASSUME NEW m, NEW t
  PROVE  EngineOf(m)!Outward(t) =
           LET up == IF t[1] \in m.locations THEN m.parent[t[1]] ELSE None
           IN  IF up = None \/ up \in Places(t) THEN t ELSE <<up>> \o t
BY DEF EngineOf!Outward, Places

\* They go on side by side.
LEMMA AbreastNext ==
  ASSUME NEW m, NEW locations, Nested(locations), Mapped(m, locations),
         NEW at, NEW t, Abreast(m, locations, at, t)
  PROVE  Abreast(m, locations, Upward(locations, at), EngineOf(m)!Outward(t))
<1>. DEFINE up == m.parent[t[1]]
            higher == Upward(locations, at)
<1>1. CASE at.cursor \in at.seen /\ at.cursor # None
  BY <1>1 DEF Abreast, Upward
<1>2. CASE at.cursor = None /\ IsSequence(t) /\ Len(t) > 0 /\ t[1] \in m.locations /\ m.parent[t[1]] = None
  <2>1. higher = at
    BY <1>2 DEF Upward
  <2>2. EngineOf(m)!Outward(t) = t
    BY <1>2, OutwardIs
  <2>. QED BY <1>2, <2>1, <2>2 DEF Abreast
<1>3. CASE /\ at.cursor \notin at.seen /\ at.cursor \in Ids(locations)
           /\ IsSequence(t) /\ Len(t) > 0
           /\ t[1] = at.cursor /\ Places(t) = at.seen \cup {at.cursor}
  <2>1. up = Named(locations, at.cursor).parent /\ t[1] \in m.locations /\ up \in Ids(locations) \cup {None}
    BY <1>3 DEF Mapped, Nested
  <2>2. higher = [seen |-> at.seen \cup {at.cursor}, cursor |-> up]
    <3>1. at.cursor \notin at.seen \cup {None}
      BY <1>3 DEF Nested
    <3>. QED BY <1>3, <2>1, <3>1 DEF Upward, ParentIn
  <2>3. higher.seen = Places(t) /\ higher.cursor = up
    BY <1>3, <2>2
  <2>4. CASE up = None
    <3>1. EngineOf(m)!Outward(t) = t
      BY <2>1, <2>4, OutwardIs
    <3>. QED BY <1>3, <2>1, <2>3, <2>4, <3>1 DEF Abreast
  <2>5. CASE up # None /\ up \in Places(t)
    BY <2>3, <2>5 DEF Abreast
  <2>6. CASE up # None /\ up \notin Places(t)
    <3>1. EngineOf(m)!Outward(t) = <<up>> \o t
      BY <2>1, <2>6, OutwardIs
    <3>2. /\ IsSequence(<<up>> \o t) /\ Len(<<up>> \o t) > 0
          /\ (<<up>> \o t)[1] = up /\ Places(<<up>> \o t) = {up} \cup Places(t)
      BY <1>3, Preceded
    <3>3. up \in Ids(locations)
      BY <2>1, <2>6
    <3>. HIDE DEF up, higher
    <3>4. Abreast(m, locations, higher, <<up>> \o t)
      BY <2>3, <2>6, <3>2, <3>3 DEF Abreast
    <3>. QED BY <3>1, <3>4 DEF higher
  <2>. QED BY <2>4, <2>5, <2>6
<1>. QED BY <1>1, <1>2, <1>3 DEF Abreast

\* Of a place whose climb leaves the topmost, the trail begins at the topmost.
LEMMA TrailToRoot ==
  ASSUME NEW m, NEW locations, Nested(locations), Mapped(m, locations),
         Len(locations) \in Nat, UniqueIds(locations),
         NEW l \in Ids(locations), Climb(locations, l).cursor = None
  PROVE  m.parent[EngineOf(m)!Breadcrumbs(l)[1]] = None
<1>. DEFINE N == Len(locations)
<1>1. Cardinality(m.locations) = N
  BY DEF Mapped, UniqueIds
<1>2. PICK up : Climbed(up, locations, l, N) /\ Climb(locations, l) = up[N]
  BY ClimbIs
<1>3. PICK out : Crumbed(out, m, l, N) /\ EngineOf(m)!Breadcrumbs(l) = out[N]
  BY <1>1, CrumbsAre
<1>4. \A n \in 0..N : up[n] = IF n = 0 THEN [seen |-> {}, cursor |-> l] ELSE Upward(locations, up[n - 1])
  BY <1>2 DEF Climbed
<1>5. \A n \in 0..N : out[n] = IF n = 0 THEN <<l>> ELSE EngineOf(m)!Outward(out[n - 1])
  BY <1>3 DEF Crumbed
<1>. DEFINE G == {n \in 0..N : Abreast(m, locations, up[n], out[n])}
<1>6. 0 \in G
  BY <1>4, <1>5, AbreastFirst
<1>7. ASSUME NEW n \in 0..N, n < N, n \in G PROVE n + 1 \in G
  <2>1. n + 1 \in 0..N /\ n + 1 # 0 /\ (n + 1) - 1 = n
    BY <1>7
  <2>2. up[n + 1] = Upward(locations, up[n]) /\ out[n + 1] = EngineOf(m)!Outward(out[n])
    BY <1>4, <1>5, <2>1
  <2>. QED BY <1>7, <2>1, <2>2, AbreastNext
<1>8. N \in G
  <2>0. N \in Nat /\ N \in 0..N
    OBVIOUS
  <2>1. \A n \in 0..N : n < N /\ n \in G => n + 1 \in G
    BY <1>7
  <2>. HIDE DEF G, N
  <2>2. \A n \in 0..N : n \in G
    BY ONLY <1>6, <2>0, <2>1, StepByStep
  <2>. QED BY <2>0, <2>2
<1>9. Abreast(m, locations, up[N], out[N]) /\ up[N].cursor = None
  BY <1>2, <1>8
<1>10. None \notin Ids(locations)
  BY DEF Nested
<1>. QED BY <1>3, <1>9, <1>10 DEF Abreast

\* Where no cycle is found, the climb from every place leaves the topmost.
LEMMA EveryClimbEnds ==
  ASSUME NEW locations, Len(locations) \in Nat, CycleIssues(locations) = {}
  PROVE  \A i \in 1..Len(locations) : Climb(locations, locations[i].id).cursor = None
<1>. DEFINE N == Len(locations)
            Ends(i) == Climb(locations, locations[i].id).cursor = None
<1>1. PICK up : Searched(up, locations, N) /\ CycleIssues(locations) = up[N].issues
  BY SearchIs
<1>2. \A n \in 0..N : up[n] = IF n = 0 THEN [reported |-> {}, issues |-> {}] ELSE Reported(locations, n, up[n - 1])
  BY <1>1 DEF Searched
<1>. DEFINE G == {n \in 0..N : up[n].issues = {} => up[n].reported = {} /\ \A i \in 1..n : Ends(i)}
<1>3. 0 \in G
  BY <1>2
<1>4. ASSUME NEW n \in 0..N, n < N, n \in G PROVE n + 1 \in G
  <2>1. n + 1 \in 0..N /\ n + 1 # 0 /\ (n + 1) - 1 = n /\ \A i \in 1..n + 1 : i = n + 1 \/ i \in 1..n
    BY <1>4
  <2>2. up[n + 1] = Reported(locations, n + 1, up[n])
    BY <1>2, <2>1
  <2>. DEFINE end == Climb(locations, locations[n + 1].id)
  <2>3. CASE end.cursor \in up[n].reported \cup {None}
    <3>1. up[n + 1] = up[n]
      BY <2>2, <2>3 DEF Reported
    <3>2. up[n].issues = {} => end.cursor = None
      BY <1>4, <2>3
    <3>. QED BY <1>4, <2>1, <3>1, <3>2
  <2>4. CASE end.cursor \notin up[n].reported \cup {None}
    <3>. DEFINE issue == <<"LOCATION_CYCLE", <<"locations", n + 1>>>>
    <3>0. up[n + 1] = [reported |-> up[n].reported \cup end.seen, issues |-> up[n].issues \cup {issue}]
      BY <2>2, <2>4 DEF Reported
    <3>1. up[n + 1].issues # {}
      <4>. HIDE DEF issue, end
      <4>. QED BY <3>0
    <3>. QED BY <2>1, <3>1
  <2>. QED BY <2>3, <2>4
<1>5. N \in G
  <2>0. N \in Nat /\ N \in 0..N
    OBVIOUS
  <2>1. \A n \in 0..N : n < N /\ n \in G => n + 1 \in G
    BY <1>4
  <2>. HIDE DEF G, N
  <2>2. \A n \in 0..N : n \in G
    BY ONLY <1>3, <2>0, <2>1, StepByStep
  <2>. QED BY <2>0, <2>2
<1>. QED BY <1>1, <1>5

\* What is found of each of its parts is nothing, where nothing is found of the module.
LEMMA NothingFound ==
  ASSUME NEW draft, SemanticIssues(draft) = {}
  PROVE  /\ \A i \in DOMAIN draft.entities : EntityIssues(draft, i) = {}
         /\ \A i \in DOMAIN draft.locations : PlaceIssues(draft, i) = {}
         /\ \A i \in DOMAIN draft.edges : EdgeIssues(draft, i) = {}
         /\ \A i \in DOMAIN draft.rules : RuleIssues(draft.rules[i], KnownIn(draft), <<"rules", i>>) = {}
         /\ CycleIssues(draft.locations) = {}
         /\ InitialIssues(draft) = {}
<1>1. CycleIssues(draft.locations) = {} /\ InitialIssues(draft) = {}
  BY DEF SemanticIssues
<1>2. ASSUME NEW i \in DOMAIN draft.entities PROVE EntityIssues(draft, i) = {}
  BY DEF SemanticIssues
<1>3. ASSUME NEW i \in DOMAIN draft.locations PROVE PlaceIssues(draft, i) = {}
  BY DEF SemanticIssues
<1>4. ASSUME NEW i \in DOMAIN draft.edges PROVE EdgeIssues(draft, i) = {}
  BY DEF SemanticIssues
<1>5. ASSUME NEW i \in DOMAIN draft.rules
      PROVE  RuleIssues(draft.rules[i], KnownIn(draft), <<"rules", i>>) = {}
  BY DEF SemanticIssues
<1>. QED BY <1>1, <1>2, <1>3, <1>4, <1>5

\* The sets it is looked up in.
LEMMA KnownIs ==
  ASSUME NEW draft
  PROVE  /\ KnownIn(draft).location = Ids(draft.locations) /\ KnownIn(draft).entity = Ids(draft.entities)
         /\ KnownIn(draft).information = Ids(draft.information)
BY DEF KnownIn

\* What the references of a module that passes name.
LEMMA PlacesFound ==
  ASSUME NEW draft, Authored(draft), SemanticIssues(draft) = {}
  PROVE  /\ draft.start \in Ids(draft.locations)
         /\ draft.revealed \subseteq Ids(draft.information)
         /\ \A i \in DOMAIN draft.locations : draft.locations[i].parent \in Ids(draft.locations) \cup {None}
         /\ \A i \in DOMAIN draft.entities : draft.entities[i].located \in Ids(draft.locations) \cup {None}
         /\ \A i \in DOMAIN draft.edges :
               /\ {draft.edges[i].from, draft.edges[i].to} \subseteq Ids(draft.locations)
               /\ draft.edges[i].access \in Ids(draft.entities) \cup {None}
         /\ CycleIssues(draft.locations) = {}
<1>. DEFINE L == Ids(draft.locations)
<1>1. None \notin {draft.start} \cup draft.revealed
      /\ \A i \in DOMAIN draft.edges : None \notin {draft.edges[i].from, draft.edges[i].to}
  BY DEF Authored
<1>2. Missing({draft.start, draft.placement}, L, "NOT_FOUND", <<"initial_state", 1>>) = {}
  BY NothingFound, KnownIs DEF InitialIssues
<1>3. Missing(draft.revealed, Ids(draft.information), "NOT_FOUND", <<"initial_state", 1>>) = {}
  BY NothingFound, KnownIs DEF InitialIssues
<1>4. ASSUME NEW i \in DOMAIN draft.locations PROVE draft.locations[i].parent \in L \cup {None}
  <2>1. Missing({draft.locations[i].parent, draft.locations[i].region}, L, "NOT_FOUND", <<"locations", i>>) = {}
    BY NothingFound, KnownIs DEF PlaceIssues
  <2>. HIDE DEF L
  <2>. QED BY <2>1, NothingMissing
<1>5. ASSUME NEW i \in DOMAIN draft.entities PROVE draft.entities[i].located \in L \cup {None}
  <2>1. Missing({draft.entities[i].located}, L, "NOT_FOUND", <<"entities", i>>) = {}
    BY NothingFound, KnownIs DEF EntityIssues
  <2>. HIDE DEF L
  <2>. QED BY <2>1, NothingMissing
<1>6. ASSUME NEW i \in DOMAIN draft.edges
      PROVE  {draft.edges[i].from, draft.edges[i].to} \subseteq L /\ draft.edges[i].access \in Ids(draft.entities) \cup {None}
  <2>1. Missing({draft.edges[i].from, draft.edges[i].to}, L, "NOT_FOUND", <<"edges", i>>) = {}
    BY NothingFound, KnownIs DEF EdgeIssues
  <2>2. Missing({draft.edges[i].access}, Ids(draft.entities), "NOT_FOUND", <<"edges", i>>) = {}
    BY NothingFound, KnownIs DEF EdgeIssues
  <2>. HIDE DEF L
  <2>3. {draft.edges[i].from, draft.edges[i].to} \subseteq L \cup {None}
    BY <2>1, NothingMissing
  <2>4. {draft.edges[i].access} \subseteq Ids(draft.entities) \cup {None}
    BY <2>2, NothingMissing
  <2>. QED BY <1>1, <2>3, <2>4
<1>7. CycleIssues(draft.locations) = {}
  BY NothingFound
<1>8. draft.start \in L /\ draft.revealed \subseteq Ids(draft.information)
  <2>. HIDE DEF L
  <2>1. {draft.start, draft.placement} \subseteq L \cup {None}
    BY <1>2, NothingMissing
  <2>2. draft.revealed \subseteq Ids(draft.information) \cup {None}
    BY <1>3, NothingMissing
  <2>. QED BY <1>1, <2>1, <2>2
<1>. QED BY <1>4, <1>5, <1>6, <1>7, <1>8

\* From every place of a module that passes, what leads to it begins at the topmost.
LEMMA EveryTrailToRoot ==
  ASSUME NEW draft, Authored(draft), SchemaValid(draft), SemanticIssues(draft) = {},
         NEW m, Mapped(m, draft.locations), NEW l \in Ids(draft.locations)
  PROVE  m.parent[EngineOf(m)!Breadcrumbs(l)[1]] = None
<1>. DEFINE locations == draft.locations
<1>1. Rows(locations) /\ None \notin Ids(locations)
  BY DEF Authored
<1>2. UniqueIds(locations)
  BY DEF SchemaValid
<1>3. Nested(locations)
  <2>1. ASSUME NEW k \in Ids(locations) PROVE Named(locations, k).parent \in Ids(locations) \cup {None}
    <3>1. PICK i \in DOMAIN locations : Named(locations, k) = locations[i]
      BY NamedIs
    <3>. QED BY <3>1, PlacesFound
  <2>. QED BY <1>1, <2>1 DEF Nested
<1>4. PICK i \in DOMAIN locations : l = locations[i].id
  BY DEF Ids
<1>5. Climb(locations, l).cursor = None
  <2>1. CycleIssues(locations) = {}
    BY PlacesFound
  <2>2. i \in 1..Len(locations) /\ Len(locations) \in Nat
    BY <1>1 DEF Rows
  <2>. HIDE DEF locations
  <2>. QED BY <1>4, <2>1, <2>2, EveryClimbEnds
<1>6. Len(locations) \in Nat
  BY <1>1 DEF Rows
<1>. HIDE DEF locations
<1>7. Mapped(m, locations) /\ l \in Ids(locations)
  BY DEF locations
<1>. QED BY <1>2, <1>3, <1>5, <1>6, <1>7, TrailToRoot

\* The points of a file, ordered: their hours rise.
LEMMA HoursRise ==
  ASSUME NEW points, Rows(points), PointsValid(points), NEW k \in DOMAIN points, k # 1
  PROVE  LET point(n) == CHOOSE i \in DOMAIN points : points[i].order = n - 1
         IN  /\ k - 1 \in DOMAIN points /\ point(k - 1) \in DOMAIN points /\ point(k) \in DOMAIN points
             /\ points[point(k - 1)].hour < points[point(k)].hour
<1>. DEFINE point(n) == CHOOSE i \in DOMAIN points : points[i].order = n - 1
<1>1. Len(points) \in Nat /\ DOMAIN points = 1..Len(points)
  BY DEF Rows
<1>2. {points[i].order : i \in DOMAIN points} = 0..Len(points) - 1
  BY DEF PointsValid
<1>3. ASSUME NEW n \in DOMAIN points PROVE point(n) \in DOMAIN points /\ points[point(n)].order = n - 1
  <2>1. n - 1 \in 0..Len(points) - 1
    BY <1>1
  <2>2. \E i \in DOMAIN points : points[i].order = n - 1
    BY <1>2, <2>1
  <2>. QED BY <2>2
<1>4. k - 1 \in DOMAIN points /\ (k - 1) - 1 < k - 1
  BY <1>1
<1>5. points[point(k - 1)].order < points[point(k)].order
  BY <1>3, <1>4
<1>. HIDE DEF point
<1>6. points[point(k - 1)].hour < points[point(k)].hour
  BY <1>3, <1>4, <1>5 DEF PointsValid
<1>. QED BY <1>3, <1>4, <1>6 DEF point

-----------------------------------------------------------------------------
(* What a rule of it commits.                                              *)

\* What a step of a walk, while it runs, has met: each of as many steps as it took.
Fresh(rule, w, n) ==
  /\ DOMAIN w = {"cursor", "visited", "effects", "count", "kind", "running", "completed"}
  /\ w.cursor \in DOMAIN rule.steps
  /\ w.visited \subseteq DOMAIN rule.steps
  /\ w.kind # "step_budget"
  /\ w.running => Cardinality(w.visited) = n

\* No step is of the kind of a walk that has run out.
OfAKind(rule) == \A i \in DOMAIN rule.steps : rule.steps[i].kind # "step_budget"

LEMMA FreshFirst ==
  ASSUME NEW rule, NEW start \in DOMAIN rule.steps, None # "step_budget"
  PROVE  Fresh(rule, Standing(start), 0)
BY FS_EmptySet DEF Fresh, Standing

\* A walk that goes on has met one step more.
LEMMA FreshNext ==
  ASSUME NEW rule, RuleSteps(rule), OfAKind(rule), IsFiniteSet(DOMAIN rule.steps),
         NEW w, NEW n \in Nat, Fresh(rule, w, n), w.running
  PROVE  Fresh(rule, Stepped(rule, w), n + 1)
<1>. DEFINE step == rule.steps[w.cursor]
            v == Stepped(rule, w)
<1>0. /\ w.cursor \in DOMAIN rule.steps /\ w.visited \subseteq DOMAIN rule.steps /\ w.kind # "step_budget"
      /\ DOMAIN w = {"cursor", "visited", "effects", "count", "kind", "running", "completed"}
      /\ Cardinality(w.visited) = n
  BY DEF Fresh
<1>1. CASE w.cursor \in w.visited
  <2>1. DOMAIN v = DOMAIN w /\ v.cursor = w.cursor /\ v.visited = w.visited /\ v.kind = "loop" /\ v.running = FALSE
    BY <1>0, <1>1 DEF Stepped, Halted
  <2>. QED BY <1>0, <2>1 DEF Fresh
<1>2. CASE w.cursor \notin w.visited /\ step.kind = "finish"
  <2>1. /\ DOMAIN v = DOMAIN w /\ v.cursor = w.cursor /\ v.visited = w.visited \cup {w.cursor}
        /\ v.kind = w.kind /\ v.running = FALSE
    BY <1>0, <1>2 DEF Stepped
  <2>. QED BY <1>0, <2>1 DEF Fresh
<1>3. CASE w.cursor \notin w.visited /\ step.kind = "effect"
  <2>1. /\ DOMAIN v = DOMAIN w /\ v.cursor = step.next /\ v.visited = w.visited \cup {w.cursor}
        /\ v.kind = w.kind
    BY <1>0, <1>3 DEF Stepped
  <2>2. Cardinality(w.visited \cup {w.cursor}) = n + 1
    <3>1. IsFiniteSet(w.visited)
      BY <1>0, FS_Subset
    <3>. QED BY <1>0, <1>3, <3>1, FS_AddElement
  <2>3. v.cursor \in DOMAIN rule.steps
    BY <1>0, <1>3, <2>1 DEF RuleSteps
  <2>. HIDE DEF v
  <2>. QED BY <1>0, <2>1, <2>2, <2>3 DEF Fresh, v
<1>4. CASE w.cursor \notin w.visited /\ step.kind \notin {"finish", "effect"}
  <2>1. /\ DOMAIN v = DOMAIN w /\ v.cursor = w.cursor /\ v.visited = w.visited \cup {w.cursor}
        /\ v.kind = step.kind /\ v.running = FALSE
    BY <1>0, <1>4 DEF Stepped, Halted
  <2>. QED BY <1>0, <2>1 DEF Fresh, OfAKind
<1>. QED BY <1>1, <1>2, <1>3, <1>4

\* With a budget above the number of steps, no walk runs out of it.
LEMMA WalkEnds ==
  ASSUME NEW rule, RuleSteps(rule), OfAKind(rule), IsFiniteSet(DOMAIN rule.steps),
         rule.maxSteps = Cardinality(DOMAIN rule.steps) + 1,
         NEW start \in DOMAIN rule.steps, None # "step_budget"
  PROVE  WalkFrom(rule, start).kind # "step_budget"
<1>0. Cardinality(DOMAIN rule.steps) \in Nat /\ rule.maxSteps \in Nat
  BY FS_CardinalityType
<1>1. PICK w : /\ Walked(rule, start, w, rule.maxSteps)
               /\ LET end == w[rule.maxSteps]
                  IN  WalkFrom(rule, start) = IF end.running THEN Halted(end, "step_budget") ELSE end
  BY <1>0, WalkIs
<1>. DEFINE N == rule.maxSteps
            G == {n \in 0..N : Fresh(rule, w[n], n)}
            end == w[N]
<1>2. \A n \in 0..N : w[n] = IF n = 0 THEN Standing(start)
                             ELSE IF w[n - 1].running THEN Stepped(rule, w[n - 1]) ELSE w[n - 1]
  BY <1>1 DEF Walked
<1>3. 0 \in G
  BY <1>0, <1>2, FreshFirst
<1>4. ASSUME NEW n \in 0..N, n < N, n \in G PROVE n + 1 \in G
  <2>1. n + 1 \in 0..N /\ n + 1 # 0 /\ (n + 1) - 1 = n
    BY <1>4, <1>0
  <2>2. w[n + 1] = IF w[n].running THEN Stepped(rule, w[n]) ELSE w[n]
    BY <1>2, <2>1
  <2>3. Fresh(rule, w[n], n)
    BY <1>4
  <2>4. CASE w[n].running
    <3>1. Fresh(rule, Stepped(rule, w[n]), n + 1)
      BY <2>3, <2>4, FreshNext
    <3>. QED BY <2>1, <2>2, <2>4, <3>1
  <2>5. CASE ~w[n].running
    <3>1. w[n + 1] = w[n]
      BY <2>2, <2>5
    <3>2. Fresh(rule, w[n], n + 1)
      BY <2>3, <2>5 DEF Fresh
    <3>. QED BY <2>1, <3>1, <3>2
  <2>. QED BY <2>4, <2>5
<1>5. Fresh(rule, end, N)
  <2>0. N \in Nat /\ N \in 0..N
    BY <1>0
  <2>1. \A n \in 0..N : n < N /\ n \in G => n + 1 \in G
    BY <1>4
  <2>2. N \in G
    <3>. HIDE DEF G, N
    <3>1. \A n \in 0..N : n \in G
      BY ONLY <1>3, <2>0, <2>1, StepByStep
    <3>. QED BY <2>0, <3>1
  <2>. QED BY <2>2
<1>6. ~end.running
  <2>1. SUFFICES ASSUME end.running PROVE FALSE
    OBVIOUS
  <2>2. end.visited \subseteq DOMAIN rule.steps /\ Cardinality(end.visited) = N
    BY <1>5, <2>1 DEF Fresh
  <2>3. Cardinality(end.visited) <= Cardinality(DOMAIN rule.steps)
    <3>. HIDE DEF end
    <3>. QED BY <2>2, FS_Subset
  <2>. QED BY <1>0, <2>2, <2>3
<1>7. WalkFrom(rule, start) = end
  BY <1>1, <1>6
<1>. QED BY <1>5, <1>7 DEF Fresh

\* The tables a file is loaded to.
LEMMA LoadedIs ==
  ASSUME NEW draft
  PROVE  LET m == Loaded(draft)
             point(k)  == CHOOSE i \in DOMAIN draft.points : draft.points[i].order = k - 1
         IN  /\ m.locations = Ids(draft.locations) /\ m.entities = Ids(draft.entities)
             /\ m.information = Ids(draft.information)
             /\ m.parent = [l \in Ids(draft.locations) |-> Named(draft.locations, l).parent]
             /\ m.spec = [e \in Ids(draft.entities) |-> Named(draft.entities, e)]
             /\ m.edges = {draft.edges[i] : i \in DOMAIN draft.edges}
             /\ m.revealed = draft.revealed /\ m.start = draft.start
             /\ m.points = [k \in DOMAIN draft.points |-> draft.points[point(k)]]
             /\ m.rules = {[draft.rules[i] EXCEPT
                     !.branches = [b \in Ids(draft.rules[i].branches) |-> Named(draft.rules[i].branches, b).entry],
                     !.steps = [s \in Ids(draft.rules[i].steps) |-> Named(draft.rules[i].steps, s)]] :
                    i \in DOMAIN draft.rules}
BY DEF Loaded, ToSet

\* What the engine begins with, on a module.
LEMMA BegunIs ==
  ASSUME NEW m
  PROVE  LET state == EngineOf(m)!InitialState
         IN  /\ state.scene = m.start /\ state.facts = m.revealed
             /\ \A a : EngineOf(m)!LocationContext(state, a).trail =
                         IF m.start \in m.locations THEN EngineOf(m)!Breadcrumbs(m.start)
                         ELSE EngineOf(m)!LocationContext(state, a).trail
<1>1. EngineOf(m)!InitialState.scene = m.start /\ EngineOf(m)!InitialState.facts = m.revealed
  BY DEF EngineOf!InitialState
<1>2. ASSUME NEW s, s.scene = m.start, m.start \in m.locations, NEW a
      PROVE  EngineOf(m)!LocationContext(s, a).trail = EngineOf(m)!Breadcrumbs(m.start)
  BY <1>2 DEF EngineOf!LocationContext
<1>. QED BY <1>1, <1>2

\* Where an item is when a room begins.
LEMMA ItemsBegin ==
  ASSUME NEW m, NEW i \in DOMAIN EngineOf(m)!InitialState.items,
         EngineOf(m)!InitialState.items[i].custody.kind = "location"
  PROVE  LET ref == EngineOf(m)!InitialState.items[i].custody.ref
         IN  ref = m.start \/ (i \in m.entities /\ m.spec[i].located # None /\ ref = m.spec[i].located)
<1>. DEFINE canon == [e \in {x \in m.entities : EngineOf(m)!IsCanonItem(x)} |-> EngineOf(m)!CanonItem(e)]
            kit == EngineOf(m)!CarriedKit
            items == EngineOf(m)!InitialState.items
<1>1. items = [k \in DOMAIN canon \cup DOMAIN kit |-> IF k \in DOMAIN canon THEN canon[k] ELSE kit[k]]
  BY DEF EngineOf!InitialState, EngineOf!Over
<1>2. i \in DOMAIN canon \cup DOMAIN kit /\ items[i] = IF i \in DOMAIN canon THEN canon[i] ELSE kit[i]
  BY <1>1
<1>3. CASE i \in DOMAIN canon
  <2>1. items[i] = EngineOf(m)!CanonItem(i) /\ i \in m.entities
    BY <1>2, <1>3
  <2>. QED BY <2>1 DEF EngineOf!CanonItem, EngineOf!Item
<1>4. CASE i \notin DOMAIN canon
  <2>1. items[i] = kit[i] /\ i \in DOMAIN kit
    BY <1>2, <1>4
  <2>2. kit[i].custody.kind = "actor"
    BY <2>1 DEF EngineOf!CarriedKit, EngineOf!Item
  <2>. QED BY <2>1, <2>2
<1>. QED BY <1>3, <1>4

LEMMA HourIs ==
  ASSUME NEW m, NEW time
  PROVE  EngineOf(m)!AbsoluteHour(time) = 24 * time.day + m.points[time.point].hour
BY DEF EngineOf!AbsoluteHour, EngineOf!HourOf

\* An effect that names what there is does so wherever it stands.
LEMMA FoundAnywhere ==
  ASSUME NEW effect, NEW known, NEW at, EffectIssues(effect, known, at) = {}, NEW here
  PROVE  EffectIssues(effect, known, here) = {}
<1>. DEFINE Of(c, p) == Missing({effect.refs[c]}, known[c], "NOT_FOUND", p)
<1>1. CASE effect.type = "commit_terminal_ending"
  BY <1>1 DEF EffectIssues
<1>2. CASE effect.type \in {"ensure_runtime_location", "ensure_runtime_entity"}
  BY <1>2 DEF EffectIssues
<1>3. CASE effect.type \notin {"commit_terminal_ending", "ensure_runtime_location", "ensure_runtime_entity"}
  <2>1. \A p : EffectIssues(effect, known, p) = UNION {Of(c, p) : c \in DOMAIN effect.refs}
    BY <1>3 DEF EffectIssues
  <2>2. ASSUME NEW c \in DOMAIN effect.refs PROVE Of(c, here) = {}
    <3>1. Of(c, at) = {}
      <4>. HIDE DEF Of
      <4>. QED BY <2>1
    <3>2. {effect.refs[c]} \subseteq known[c] \cup {None}
      BY <3>1, NothingMissing
    <3>. QED BY <3>2 DEF Missing
  <2>. HIDE DEF Of
  <2>. QED BY <2>1, <2>2
<1>. QED BY <1>1, <1>2, <1>3

\* What is found of an effect is found of the step that commits it.
LEMMA StepsFound ==
  ASSUME NEW rule, NEW i, NEW reachable, NEW known, NEW at, rule.steps[i].kind = "effect"
  PROVE  EffectIssues(rule.steps[i].effect, known, <<at, "steps", i>>) \subseteq StepIssues(rule, i, reachable, known, at)
<1>. DEFINE step == rule.steps[i]
            here == <<at, "steps", i>>
            A == {<<"RULE_STEP_UNREACHABLE", here>> : s \in {step.id} \ reachable}
            B == CASE step.kind = "effect" -> EffectIssues(step.effect, known, here)
                   [] step.kind = "create_npc_action_opportunity" ->
                        Missing({step.entity}, known.entity, "NOT_FOUND", here)
                   [] step.kind \in Checks /\ DOMAIN step.routes = {} -> {<<"RULE_CHECK_UNROUTED", here>>}
                   [] OTHER -> {}
            C == {<<"ACTOR_BINDING_UNKNOWN", here>> :
                    b \in IF step.kind \in {"check", "invoke_ruleset_action"} THEN {step.binding} \ ActorBindings ELSE {}}
            D == {<<"RULE_PRESENTATION_NOT_FOUND", here>> :
                    p \in IF step.kind = "presentation" /\ rule.presentation # None
                          THEN {step.presentation} \ {rule.presentation} ELSE {}}
<1>1. StepIssues(rule, i, reachable, known, at) = A \cup B \cup C \cup D
  BY Zenon DEF StepIssues
<1>2. B = EffectIssues(step.effect, known, here)
  BY DEF Checks
<1>. HIDE DEF A, B, C, D
<1>. QED BY <1>1, <1>2

\* Where nothing is found of a rule, nothing is found of what its steps commit.
LEMMA EffectsFound ==
  ASSUME NEW rule, NEW known, NEW at, RuleIssues(rule, known, at) = {},
         NEW i \in DOMAIN rule.steps, rule.steps[i].kind = "effect", NEW here
  PROVE  EffectIssues(rule.steps[i].effect, known, here) = {}
<1>. DEFINE reachable == ReachableSteps(rule)
<1>1. UNION {StepIssues(rule, k, reachable, known, at) : k \in DOMAIN rule.steps} \subseteq RuleIssues(rule, known, at)
  <2>. HIDE DEF reachable
  <2>. QED BY DEF RuleIssues, reachable
<1>2. StepIssues(rule, i, reachable, known, at) = {}
  <2>. HIDE DEF reachable
  <2>. QED BY <1>1
<1>3. EffectIssues(rule.steps[i].effect, known, <<at, "steps", i>>) \subseteq StepIssues(rule, i, reachable, known, at)
  <2>. HIDE DEF reachable
  <2>. QED BY StepsFound
<1>. QED BY <1>2, <1>3, FoundAnywhere

\* The rule of a file, loaded.
LoadedRule(rule) ==
  [rule EXCEPT !.branches = [b \in Ids(rule.branches) |-> Named(rule.branches, b).entry],
               !.steps = [s \in Ids(rule.steps) |-> Named(rule.steps, s)]]

\* The walks of a loaded rule of a module that passes end, and name what there is.
LEMMA WalksOfPassed ==
  ASSUME NEW draft, Authored(draft), SchemaValid(draft), SemanticIssues(draft) = {},
         NEW i \in DOMAIN draft.rules, NEW m
  PROVE  WalksWithin(m, LoadedRule(draft.rules[i]), KnownIn(draft))
<1>. DEFINE rule == draft.rules[i]
            steps == rule.steps
            loaded == LoadedRule(rule)
            walked == [loaded EXCEPT !.maxSteps = Cardinality(DOMAIN loaded.steps) + 1]
            known == KnownIn(draft)
<1>1. {"branches", "steps", "maxSteps"} \subseteq DOMAIN rule /\ Rows(steps)
      /\ \A j \in DOMAIN steps : steps[j].kind \in StepKinds
  BY DEF Authored
<1>2. loaded.steps = [s \in Ids(steps) |-> Named(steps, s)] /\ DOMAIN loaded = DOMAIN rule
  BY <1>1 DEF LoadedRule
<1>3. walked.steps = loaded.steps /\ walked.maxSteps = Cardinality(DOMAIN loaded.steps) + 1
  BY <1>1, <1>2
<1>4. DOMAIN walked.steps = Ids(steps)
      /\ \A s \in Ids(steps) : \E j \in DOMAIN steps : walked.steps[s] = steps[j]
  BY <1>2, <1>3, NamedIs
<1>5. GraphValid(rule)
  BY DEF SchemaValid
<1>6. RuleSteps(walked)
  <2>1. ASSUME NEW s \in Ids(steps), walked.steps[s].kind = "effect" PROVE walked.steps[s].next \in Ids(steps)
    <3>1. PICK j \in DOMAIN steps : walked.steps[s] = steps[j]
      BY <1>4
    <3>2. StepTargets(steps[j]) \subseteq Ids(steps)
      BY <1>5 DEF GraphValid
    <3>3. StepTargets(steps[j]) = {steps[j].next}
      BY <2>1, <3>1 DEF StepTargets, Checks
    <3>. QED BY <3>1, <3>2, <3>3
  <2>. HIDE DEF walked
  <2>. QED BY <1>4, <2>1 DEF RuleSteps
<1>7. OfAKind(walked)
  <2>1. "step_budget" \notin StepKinds
    BY DEF StepKinds, Suspending
  <2>. HIDE DEF walked, steps
  <2>. QED BY <1>1, <1>4, <2>1 DEF OfAKind
<1>8. IsFiniteSet(DOMAIN walked.steps)
  <2>1. Len(steps) \in Nat /\ DOMAIN steps = 1..Len(steps)
    BY <1>1 DEF Rows
  <2>2. IsFiniteSet(DOMAIN steps)
    <3>1. 1 \in Int /\ Len(steps) \in Int
      BY <2>1
    <3>. HIDE DEF steps
    <3>. QED BY <2>1, <3>1, FS_Interval
  <2>. DEFINE ids == [j \in DOMAIN steps |-> steps[j].id]
  <2>3. IsFiniteSet({ids[j] : j \in DOMAIN steps})
    <3>1. DOMAIN ids = DOMAIN steps
      OBVIOUS
    <3>. HIDE DEF steps, ids
    <3>. QED BY <2>2, <3>1, ImageIsFinite
  <2>. QED BY <1>4, <2>3 DEF Ids
<1>9. Cardinality(DOMAIN walked.steps) \in Nat
  BY <1>8, FS_CardinalityType
<1>10. walked.maxSteps = Cardinality(DOMAIN walked.steps) + 1 /\ walked.maxSteps \in Nat
  BY <1>3, <1>9
<1>11. None # "step_budget" /\ None \notin {"check", "adjudicated_check"}
  BY DraftsAssumption, RulesAssumption
<1>12. RuleIssues(rule, known, <<"rules", i>>) = {}
  BY NothingFound
<1>13. ASSUME NEW start \in DOMAIN walked.steps
       PROVE  /\ WalkFrom(walked, start).kind # "step_budget"
              /\ \A k \in DOMAIN WalkFrom(walked, start).effects :
                   EffectIssues(WalkFrom(walked, start).effects[k], known, loaded.id) = {}
  <2>. HIDE DEF walked, known, loaded, steps, rule
  <2>. DEFINE walk == WalkFrom(walked, start)
  <2>1. walk.kind # "step_budget"
    BY <1>6, <1>7, <1>8, <1>10, <1>11, WalkEnds
  <2>2. WalkOK(walked, walk)
    BY <1>6, <1>10, <1>11, WalkFromOK
  <2>3. ASSUME NEW k \in DOMAIN walk.effects PROVE EffectIssues(walk.effects[k], known, loaded.id) = {}
    <3>1. k \in 1..Len(walk.effects)
      BY <2>2 DEF WalkOK, IsSequence
    <3>2. PICK s \in DOMAIN walked.steps : walked.steps[s].kind = "effect" /\ walk.effects[k] = walked.steps[s].effect
      BY <2>2, <3>1 DEF WalkOK
    <3>3. PICK j \in DOMAIN steps : walked.steps[s] = steps[j]
      BY <1>4, <3>2
    <3>. QED BY <1>12, <3>2, <3>3, EffectsFound DEF steps
  <2>. QED BY <2>1, <2>3
<1>14. DOMAIN loaded.steps = DOMAIN walked.steps
  BY <1>3
<1>. QED BY <1>13, <1>14 DEF WalksWithin

\* On a module that passes, a room runs.
LEMMA PassedModuleRuns ==
  ASSUME NEW draft, Authored(draft), Verdict(draft) = "pass"
  PROVE  RunsOn(Loaded(draft))
<1>. DEFINE m == Loaded(draft)
            state == EngineOf(m)!InitialState
            known == [information |-> m.information, entity |-> m.entities, location |-> m.locations]
            point(k)  == CHOOSE i \in DOMAIN draft.points : draft.points[i].order = k - 1
<1>1. SchemaValid(draft) /\ SemanticIssues(draft) = {}
  BY PassesBoth
<1>2. /\ m.locations = Ids(draft.locations) /\ m.entities = Ids(draft.entities)
      /\ m.information = Ids(draft.information)
      /\ m.parent = [l \in Ids(draft.locations) |-> Named(draft.locations, l).parent]
      /\ m.spec = [e \in Ids(draft.entities) |-> Named(draft.entities, e)]
      /\ m.edges = {draft.edges[i] : i \in DOMAIN draft.edges}
      /\ m.revealed = draft.revealed /\ m.start = draft.start
      /\ m.points = [k \in DOMAIN draft.points |-> draft.points[point(k)]]
      /\ m.rules = {LoadedRule(draft.rules[i]) : i \in DOMAIN draft.rules}
  BY LoadedIs DEF LoadedRule
<1>3. known = KnownIn(draft)
  BY <1>2 DEF KnownIn
<1>4. Mapped(m, draft.locations)
  BY <1>2 DEF Mapped
<1>. HIDE DEF m
<1>5. m.start \in m.locations /\ m.revealed \subseteq m.information
  BY <1>1, <1>2, PlacesFound
<1>6. state.scene \in m.locations /\ state.facts \subseteq m.information
  BY <1>5, BegunIs
<1>7. \A l \in m.locations : m.parent[EngineOf(m)!Breadcrumbs(l)[1]] = None
  BY <1>1, <1>2, <1>4, EveryTrailToRoot
<1>8. \A a \in Actors : m.parent[EngineOf(m)!LocationContext(state, a).trail[1]] = None
  <2>1. \A a : EngineOf(m)!LocationContext(state, a).trail = EngineOf(m)!Breadcrumbs(m.start)
    BY <1>5, BegunIs
  <2>. QED BY <1>5, <1>7, <2>1
<1>9. \A i \in DOMAIN state.items :
         state.items[i].custody.kind = "location" => state.items[i].custody.ref \in m.locations
  <2>1. ASSUME NEW e \in m.entities PROVE m.spec[e].located \in m.locations \cup {None}
    <3>1. e \in Ids(draft.entities) /\ m.spec[e] = Named(draft.entities, e)
      BY <1>2
    <3>2. PICK i \in DOMAIN draft.entities : Named(draft.entities, e) = draft.entities[i]
      BY <3>1, NamedIs
    <3>. QED BY <1>1, <1>2, <3>1, <3>2, PlacesFound
  <2>2. ASSUME NEW i \in DOMAIN state.items, state.items[i].custody.kind = "location"
        PROVE  state.items[i].custody.ref \in m.locations
    <3>1. \/ state.items[i].custody.ref = m.start
          \/ i \in m.entities /\ m.spec[i].located # None /\ state.items[i].custody.ref = m.spec[i].located
      BY <2>2, ItemsBegin
    <3>. QED BY <1>5, <2>1, <3>1
  <2>. QED BY <2>2
<1>10. \A e \in m.edges : {e.from, e.to} \subseteq m.locations /\ e.access \in m.entities \cup {None}
  BY <1>1, <1>2, PlacesFound
<1>11. ASSUME NEW k \in DOMAIN m.points \ {1}
       PROVE  EngineOf(m)!AbsoluteHour([day |-> 0, point |-> k - 1]) < EngineOf(m)!AbsoluteHour([day |-> 0, point |-> k])
  <2>1. Rows(draft.points) /\ \A i \in DOMAIN draft.points : draft.points[i].hour \in Nat
    BY DEF Authored
  <2>2. PointsValid(draft.points) /\ k \in DOMAIN draft.points /\ k # 1
    BY <1>1, <1>2 DEF SchemaValid
  <2>3. /\ k - 1 \in DOMAIN draft.points /\ point(k - 1) \in DOMAIN draft.points /\ point(k) \in DOMAIN draft.points
        /\ draft.points[point(k - 1)].hour < draft.points[point(k)].hour
    BY <2>1, <2>2, HoursRise
  <2>. HIDE DEF point
  <2>4. m.points[k - 1] = draft.points[point(k - 1)] /\ m.points[k] = draft.points[point(k)]
    BY <1>2, <2>2, <2>3
  <2>5. m.points[k - 1].hour \in Nat /\ m.points[k].hour \in Nat /\ m.points[k - 1].hour < m.points[k].hour
    BY <2>1, <2>3, <2>4
  <2>6. EngineOf(m)!AbsoluteHour([day |-> 0, point |-> k - 1]) = 24 * 0 + m.points[k - 1].hour
    BY HourIs
  <2>7. EngineOf(m)!AbsoluteHour([day |-> 0, point |-> k]) = 24 * 0 + m.points[k].hour
    BY HourIs
  <2>. QED BY <2>5, <2>6, <2>7
<1>12. \A r \in m.rules : WalksWithin(m, r, known)
  <2>1. \A i \in DOMAIN draft.rules : WalksWithin(m, LoadedRule(draft.rules[i]), KnownIn(draft))
    BY <1>1, WalksOfPassed
  <2>. HIDE DEF known
  <2>. QED BY <1>2, <1>3, <2>1
<1>. HIDE DEF state, known
<1>13. RunsOn(m)
  BY <1>6, <1>7, <1>8, <1>9, <1>10, <1>11, <1>12 DEF RunsOn, state, known
<1>. QED BY <1>13 DEF m

\* Every published module can be run, whatever is in its file.
THEOREM PublishedModulesRunTheorem == Spec => []PublishedModulesRun
<1>1. PassedRun
  BY DraftsAssumption, PassedModuleRuns DEF PassedRun
<1>2. PublishedModulesRun
  BY <1>1 DEF PublishedModulesRun
<1>. QED BY <1>2, PTL
=============================================================================
