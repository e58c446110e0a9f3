---------------------------- MODULE MCRoomLobby -----------------------------
(* Two accounts and two requests at once, a small ruleset: one occupation   *)
(* whose two free slots need a rearrangement to take the best two skills, a *)
(* budget that the dice may exceed, and builds that keep and break it.      *)
EXTENDS RoomLobby

Number(n) == [of |-> "number", n |-> n]

MCRuleset ==
  [attributes |-> {"EDU", "INT", "LUCK"},
   pointBuy |-> [keys |-> {"EDU", "INT"}, low |-> 1, high |-> 3, budget |-> 4],
   rolled |-> [low |-> 1, high |-> 9],
   age |-> [low |-> 15, high |-> 89],
   cap |-> 3,
   skills |-> [law |-> [base |-> [of |-> "EDU", n |-> 2], allocatable |-> TRUE],
               spot |-> [base |-> Number(1), allocatable |-> TRUE],
               talk |-> [base |-> Number(1), allocatable |-> TRUE],
               mythos |-> [base |-> Number(0), allocatable |-> FALSE]]
              @@ (Credit :> [base |-> Number(0), allocatable |-> TRUE]),
   occupations |-> [sleuth |->
     [skills |-> {"law"}, credit |-> [low |-> 1, high |-> 2],
      slots |-> <<[count |-> 1, of |-> AnySkill], [count |-> 1, of |-> {"spot"}]>>,
      formula |-> {[best |-> {"EDU", "LUCK"}, times |-> 2]}]]]

Bought == [EDU |-> 2, INT |-> 2, LUCK |-> 1]
Dice == [EDU |-> 3, INT |-> 2, LUCK |-> 1]

\* Chosen slots that need a rearrangement; slots left to the rules, and the mythos.
Chosen == [age |-> 30, occupation |-> "sleuth", choices |-> <<"spot", "talk">>,
           skills |-> [law |-> 2, spot |-> 3, talk |-> 2] @@ (Credit :> 1)]
Forbidden == [Chosen EXCEPT !.choices = Unset, !.skills = @ @@ [mythos |-> 1]]

\* One skill chosen for both slots.
Twice == [Chosen EXCEPT !.choices = <<"spot", "spot">>]

MCAttributes == {Bought, Dice}
MCRolls == {Dice}
MCBuilds == {Chosen, Forbidden, Twice}

Symmetry == Permutations(Requests)
=============================================================================
