---------------------------- MODULE CheckProtocol ----------------------------
(***************************************************************************)
(* What the rule engine promises of one action, whatever clients send and  *)
(* whatever is retried or lost: the command state machine of               *)
(* engine/adjudication.py.  An action without a check takes effect at      *)
(* once; a checked one first waits for a choice, which is cancelled or     *)
(* rolled, and takes effect when the roll is settled.  Its effects are     *)
(* committed by the step that resolves it, once.                           *)
(***************************************************************************)
EXTENDS Naturals

CONSTANT Actions           \* action request ids

VARIABLES stage,           \* stage[a]: how far action a has come
          effects          \* effects[a]: times a's effects were committed

Stages == {"idle", "choosing", "rolled", "resolved", "cancelled"}

Init ==
  /\ stage = [a \in Actions |-> "idle"]
  /\ effects = [a \in Actions |-> 0]

\* Action a goes to stage s; only a step into "resolved" has effects.
MoveTo(a, s) ==
  /\ stage' = [stage EXCEPT ![a] = s]
  /\ effects' = IF s = "resolved" THEN [effects EXCEPT ![a] = @ + 1] ELSE effects

\* submit, with or without a check.
Submit(a) == stage[a] = "idle" /\ \E s \in {"choosing", "resolved"} : MoveTo(a, s)

\* decide: cancel before the first roll, or roll.
Decide(a) == stage[a] = "choosing" /\ \E s \in {"cancelled", "rolled"} : MoveTo(a, s)

\* decide_post_roll: accept, spend luck or push.
Settle(a) == stage[a] = "rolled" /\ MoveTo(a, "resolved")

Next == \E a \in Actions : Submit(a) \/ Decide(a) \/ Settle(a)

Spec == Init /\ [][Next]_<<stage, effects>>

\* Effects are committed exactly when the action is resolved, and once.
EffectsWhenResolved ==
  \A a \in Actions : effects[a] = IF stage[a] = "resolved" THEN 1 ELSE 0
=============================================================================
