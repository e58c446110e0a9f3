------------------------- MODULE TimeConsent_proofs -------------------------
(***************************************************************************)
(* Proofs about TimeConsent, for every party, any actions, workers and     *)
(* calls.  ConsentGiven and ResumedOnce hold with and without row locks,   *)
(* EndIsFinal and StatusTellsTheTruth with them.                           *)
(***************************************************************************)
EXTENDS TimeConsent, TLAPS

Active(c) == call[c].pc # "idle"
Voting(c) == Active(c) /\ call[c].voter # NoOne
SaidYes(i) == {p \in Players : <<p, i>> \in said}

\* Either way two calls never write votes of one proposal at a time; a row
\* lock keeps every other call off the row.
Exclusive ==
  /\ RowLocks => \A c, d \in Calls : Active(c) /\ Active(d) /\ call[c].made = call[d].made => c = d
  /\ ~RowLocks => \A c, d \in Calls : Voting(c) /\ Voting(d) => c = d

\* A stored vote is a real one, but for those filled in once time has moved.
VotesAreSaid ==
  \A i \in 1..made :
    \/ proposal[i].accepted \subseteq SaidYes(i)
    \/ proposal[i].status # "pending" /\ moved[proposal[i].action] # 0

\* What a call has established when it reaches its next await.
CallKnows(c) ==
  LET i == call[c].made
      a == proposal[i].action
  IN
  /\ RowLocks => proposal[i].status = "pending"
  /\ call[c].voter # NoOne /\ call[c].yes => call[c].voter \in SaidYes(i)
  /\ call[c].voter # NoOne => resumed[i].times = 0
  /\ call[c].pc \in {"judging", "submitting"} /\ RowLocks => moved[a] # i
  /\ call[c].pc = "judging" /\ call[c].voter # NoOne /\ ~RowLocks => moved[a] = 0
  /\ call[c].pc \in {"submitting", "approving"} =>
       call[c].voter # NoOne /\ SaidYes(i) = Players
  /\ call[c].pc = "approving" => moved[a] # 0

Untold ==
  /\ \A i \in Proposals : proposal[i].status \in {"absent", "pending"} => resumed[i].times = 0
  /\ ResumedOnce

VoteInv ==
  /\ Exclusive
  /\ VotesAreSaid
  /\ \A c \in Calls : Active(c) => CallKnows(c)
  /\ Untold
  /\ ConsentGiven
  /\ RowLocks => StatusTellsTheTruth

IInv == TypeOK /\ VoteInv

-----------------------------------------------------------------------------
LEMMA InitIInv == Init => IInv
  <1> SUFFICES ASSUME Init PROVE IInv
    OBVIOUS
  <1> USE DEF Init, NotHandling, NotAsking, Absent
  <1>1. TypeOK
    BY PartyAssumption, TimeBoundsAssumption
    DEF TypeOK, Record, Status, Asking, Handling, Proposals
  <1>2. VoteInv
    BY PartyAssumption, TimeBoundsAssumption
    DEF VoteInv, Exclusive, VotesAreSaid, Active, Voting, Untold, ResumedOnce,
        ConsentGiven, StatusTellsTheTruth, Proposals
  <1>3. QED
    BY <1>1, <1>2 DEF IInv

\* What the votes depend on; workers and the room's environment leave it alone.
votes == <<moved, made, proposal, call, said, resumed>>

LEMMA VotesUnchanged ==
  ASSUME VoteInv, UNCHANGED votes
  PROVE  VoteInv'
  BY DEF votes, VoteInv, Exclusive, VotesAreSaid, Active, Voting, SaidYes, CallKnows,
         Untold, ResumedOnce, ConsentGiven, StatusTellsTheTruth

\* The writes of a terminal update, spelled out.
LEMMA SettlesWrites ==
  ASSUME TypeOK, NEW c \in Calls, Active(c),
         NEW status \in Status \ {"absent", "pending"}, NEW accepted \in SUBSET Players,
         Settles(c, status, accepted)
  PROVE  LET i == call[c].made IN
         /\ i \in Proposals /\ i \in 1..made
         /\ proposal' \in [Proposals -> Record]
         /\ proposal'[i].status = status
         /\ proposal'[i].accepted = accepted
         /\ proposal'[i].action = proposal[i].action
         /\ \A j \in Proposals : j # i => proposal'[j] = proposal[j]
         /\ call' \in [Calls -> Handling]
         /\ call'[c] = NotHandling
         /\ \A d \in Calls : d # c => call'[d] = call[d]
         /\ resumed' \in [Proposals -> [times : Nat, parent : {"none", "step", "plan"}]]
         /\ call[c].voter = NoOne => resumed' = resumed
         /\ call[c].voter # NoOne => resumed'[i].times = resumed[i].times + 1
         /\ \A j \in Proposals : j # i => resumed'[j] = resumed[j]
  <1> DEFINE i == call[c].made
  <1>1. /\ i \in 1..made /\ i \in Proposals
        /\ proposal \in [Proposals -> Record]
        /\ call \in [Calls -> Handling]
        /\ resumed \in [Proposals -> [times : Nat, parent : {"none", "step", "plan"}]]
    BY TimeBoundsAssumption DEF TypeOK, Active, Proposals
  <1>2. /\ proposal' \in [Proposals -> Record]
        /\ proposal'[i].status = status
        /\ proposal'[i].accepted = accepted
        /\ proposal'[i].action = proposal[i].action
        /\ \A j \in Proposals : j # i => proposal'[j] = proposal[j]
    <2>1. proposal' = [proposal EXCEPT ![i] =
             [proposal[i] EXCEPT !.status = status, !.accepted = accepted]]
      BY <1>1 DEF Settles
    <2>2. \A r \in Record : [[r EXCEPT !.status = status] EXCEPT !.accepted = accepted] \in Record
      BY DEF Record
    <2>3. [proposal[i] EXCEPT !.status = status, !.accepted = accepted] \in Record
      BY <1>1, <2>2
    <2>4. QED
      BY <1>1, <2>1, <2>3 DEF Record
  <1>3. /\ call' \in [Calls -> Handling]
        /\ call'[c] = NotHandling
        /\ \A d \in Calls : d # c => call'[d] = call[d]
    <2>1. NotHandling \in Handling
      BY TimeBoundsAssumption DEF NotHandling, Handling
    <2>2. call' = [call EXCEPT ![c] = NotHandling]
      BY DEF Settles, Ends
    <2>3. QED
      BY <1>1, <2>1, <2>2
  <1>4. Parent(c) \in {"step", "plan"}
    BY <1>1 DEF Parent, Record, Handling
  <1>5. /\ resumed' \in [Proposals -> [times : Nat, parent : {"none", "step", "plan"}]]
        /\ call[c].voter = NoOne => resumed' = resumed
        /\ call[c].voter # NoOne => resumed'[i].times = resumed[i].times + 1
        /\ \A j \in Proposals : j # i => resumed'[j] = resumed[j]
    <2>1. resumed' = IF call[c].voter = NoOne THEN resumed
                     ELSE [resumed EXCEPT ![i] = [times |-> resumed[i].times + 1,
                                                  parent |-> Parent(c)]]
      BY DEF Settles
    <2>2. resumed[i].times + 1 \in Nat
      BY <1>1
    <2>3. QED
      BY <1>1, <1>4, <2>1, <2>2
  <1>6. QED
    BY <1>1, <1>2, <1>3, <1>5

\* An end written by a call keeps the votes' invariant, when it neither adds
\* votes that were not given nor denies what the engine did.
LEMMA SettlesKeepsVotes ==
  ASSUME IInv, NEW c \in Calls, Active(c),
         NEW status \in Status \ {"absent", "pending"}, NEW accepted \in SUBSET Players,
         Settles(c, status, accepted), UNCHANGED <<moved, made, said>>,
         accepted = proposal[call[c].made].accepted \/ moved[proposal[call[c].made].action] # 0,
         status = "approved" => moved[proposal[call[c].made].action] # 0,
         status \in Cancelled /\ RowLocks =>
           moved[proposal[call[c].made].action] # call[c].made
  PROVE  VoteInv'
  <1> DEFINE i == call[c].made
             a == proposal[i].action
  <1> USE DEF IInv
  <1>1. /\ i \in Proposals /\ i \in 1..made
        /\ proposal'[i].status = status
        /\ proposal'[i].accepted = accepted
        /\ proposal'[i].action = a
        /\ \A j \in Proposals : j # i => proposal'[j] = proposal[j]
        /\ call'[c] = NotHandling
        /\ \A d \in Calls : d # c => call'[d] = call[d]
        /\ call[c].voter = NoOne => resumed' = resumed
        /\ call[c].voter # NoOne => resumed'[i].times = resumed[i].times + 1
        /\ \A j \in Proposals : j # i => resumed'[j] = resumed[j]
        /\ resumed \in [Proposals -> [times : Nat, parent : {"none", "step", "plan"}]]
    BY SettlesWrites DEF TypeOK
  <1>2. /\ \A j \in 1..made : j \in Proposals
        /\ made' = made /\ moved' = moved /\ said' = said
    BY TimeBoundsAssumption DEF TypeOK, Proposals
  <1>3. \A d \in Calls : Active(d)' => d # c /\ call'[d] = call[d] /\ Active(d)
    BY <1>1 DEF Active, NotHandling
  <1>4. Exclusive'
    BY <1>3 DEF VoteInv, Exclusive, Voting, Active
  <1>5. VotesAreSaid'
    BY <1>1, <1>2 DEF VoteInv, VotesAreSaid, SaidYes
  <1>6. ASSUME NEW d \in Calls, Active(d)'
        PROVE  CallKnows(d)'
    <2>1. d # c /\ call'[d] = call[d] /\ Active(d) /\ CallKnows(d)
      BY <1>3, <1>6 DEF VoteInv
    <2>2. CASE call[d].made # i
      <3>1. call[d].made \in Proposals
        BY <1>2, <2>1 DEF TypeOK, Active
      <3>2. proposal'[call[d].made] = proposal[call[d].made]
            /\ resumed'[call[d].made] = resumed[call[d].made]
        BY <1>1, <2>2, <3>1
      <3>3. QED
        BY <1>2, <2>1, <3>2 DEF CallKnows, SaidYes
    <2>3. CASE call[d].made = i
      <3>1. ~RowLocks
        BY <2>1, <2>3 DEF VoteInv, Exclusive
      <3>2. call[d].voter = NoOne \/ call[c].voter = NoOne
        BY <2>1, <3>1 DEF VoteInv, Exclusive, Voting
      <3>3. QED
        BY <1>1, <1>2, <2>1, <2>3, <3>1, <3>2 DEF CallKnows, SaidYes
    <2>4. QED
      BY <2>2, <2>3
  <1>7. Untold'
    <2>1. \A j \in Proposals : proposal'[j].status \in {"absent", "pending"} => resumed'[j].times = 0
      BY <1>1 DEF VoteInv, Untold
    <2>2. resumed'[i].times <= 1
      BY <1>1 DEF VoteInv, Untold, ResumedOnce, CallKnows
    <2>3. QED
      BY <1>1, <2>1, <2>2 DEF VoteInv, Untold, ResumedOnce
  <1>8. ConsentGiven'
    <2>1. \A b \in Actions : moved[b] # 0 => moved[b] \in Proposals
      BY <1>2 DEF TypeOK
    <2>2. \A j \in Proposals : proposal'[j].action = proposal[j].action
      BY <1>1
    <2>3. QED
      BY <1>2, <2>1, <2>2 DEF VoteInv, ConsentGiven
  <1>9. RowLocks => StatusTellsTheTruth'
    BY <1>1, <1>2 DEF VoteInv, StatusTellsTheTruth, Cancelled
  <1>10. QED
    BY <1>4, <1>5, <1>6, <1>7, <1>8, <1>9 DEF VoteInv

-----------------------------------------------------------------------------
(* Typing.  Most actions replace one worker's or one call's record.        *)

LEMMA AskTypeOK ==
  ASSUME TypeOK, NEW w \in Workers, NEW x \in Asking,
         x.pc # "idle" => x.action # NoOne, x.pc = "waiting" => x.made \in 1..made,
         ask' = [ask EXCEPT ![w] = x], UNCHANGED <<room, moved, table, call, said, resumed>>,
         shown' \subseteq 1..made
  PROVE  TypeOK'
  <1>1. ask' \in [Workers -> Asking]
    BY DEF TypeOK
  <1>2. \A v \in Workers : /\ ask'[v].pc # "idle" => ask'[v].action # NoOne
                           /\ ask'[v].pc = "waiting" => ask'[v].made \in 1..made
    BY DEF TypeOK
  <1>3. QED
    BY <1>1, <1>2 DEF TypeOK, room, table

LEMMA CallTypeOK ==
  ASSUME TypeOK, NEW c \in Calls, NEW x \in Handling,
         IF x.pc = "idle" THEN x = NotHandling ELSE x.made \in 1..made,
         call' = [call EXCEPT ![c] = x], UNCHANGED <<inGame, table, ask, resumed>>,
         revision' \in Nat, moved' \in [Actions -> 0..made],
         shown' \subseteq 1..made, said' \subseteq Players \X (1..made)
  PROVE  TypeOK'
  <1>1. call' \in [Calls -> Handling]
    BY DEF TypeOK
  <1>2. \A d \in Calls : IF call'[d].pc = "idle" THEN call'[d] = NotHandling
                         ELSE call'[d].made \in 1..made
    BY DEF TypeOK
  <1>3. QED
    BY <1>1, <1>2 DEF TypeOK, table

LEMMA SettlesTypeOK ==
  ASSUME TypeOK, NEW c \in Calls, Active(c),
         NEW status \in Status \ {"absent", "pending"}, NEW accepted \in SUBSET Players,
         Settles(c, status, accepted), UNCHANGED <<room, moved, made, late, ask, shown, said>>
  PROVE  TypeOK'
  <1> DEFINE i == call[c].made
  <1>1. /\ i \in Proposals /\ i \in 1..made
        /\ proposal' \in [Proposals -> Record]
        /\ proposal'[i].status = status
        /\ proposal'[i].action = proposal[i].action
        /\ \A j \in Proposals : j # i => proposal'[j] = proposal[j]
        /\ call' \in [Calls -> Handling]
        /\ call'[c] = NotHandling
        /\ \A d \in Calls : d # c => call'[d] = call[d]
        /\ resumed' \in [Proposals -> [times : Nat, parent : {"none", "step", "plan"}]]
    BY SettlesWrites
  <1>2. \A j \in Proposals : /\ proposal'[j].status = "absent" <=> j > made
                             /\ proposal'[j].action = NoOne <=> j > made
    <2>1. ~(i > made)
      BY <1>1 DEF TypeOK
    <2>2. QED
      BY <1>1, <2>1 DEF TypeOK
  <1>3. \A d \in Calls : IF call'[d].pc = "idle" THEN call'[d] = NotHandling
                         ELSE call'[d].made \in 1..made
    BY <1>1 DEF TypeOK, NotHandling
  <1>4. QED
    BY <1>1, <1>2, <1>3 DEF TypeOK, room

LEMMA WorkerTypeOK ==
  ASSUME TypeOK, NEW w \in Workers, WorkerStep(w)
  PROVE  TypeOK'
  <1>0. /\ NotAsking \in Asking /\ NotAsking.pc = "idle"
        /\ \A i \in 1..made : i \in Proposals
        /\ NoOne \notin Actions
        /\ ask[w] \in Asking
        /\ revision \in Nat /\ shown \subseteq 1..made /\ made \in Nat
    BY PartyAssumption, TimeBoundsAssumption
    DEF NotAsking, Asking, TypeOK, Proposals
  <1>1. ASSUME NEW a \in Actions, Ask(w, a) PROVE TypeOK'
    <2> DEFINE x == [pc |-> "blocked", action |-> a, source |-> revision, made |-> 0]
    <2>1. x \in Asking /\ x.pc = "blocked" /\ x.action # NoOne
      BY <1>0, TimeBoundsAssumption DEF Asking
    <2>2. QED
      BY <1>0, <1>1, <2>1, AskTypeOK DEF Ask
  <1>2. ASSUME NEW a \in Actions, AskAgain(w, a) PROVE TypeOK'
    <2>1. PICK i \in 1..made : ask' = [ask EXCEPT ![w] = Waiting(a, i)]
      BY <1>2 DEF AskAgain, OfAction
    <2> DEFINE x == Waiting(a, i)
    <2>2. x \in Asking /\ x.action # NoOne /\ x.made \in 1..made
      BY <1>0 DEF Asking, Proposals, Waiting
    <2>3. QED
      BY <1>0, <1>2, <2>1, <2>2, AskTypeOK DEF AskAgain
  <1>3. ASSUME LookForPending(w) PROVE TypeOK'
    <2>0. ask[w].pc = "blocked" /\ ask[w].action # NoOne
      BY <1>3 DEF LookForPending, TypeOK
    <2>1. CASE ask' = [ask EXCEPT ![w] = NotAsking]
      BY <1>0, <1>3, <2>1, AskTypeOK DEF LookForPending
    <2>2. CASE ask' = [ask EXCEPT ![w].pc = "clear"]
      <3> DEFINE x == [ask[w] EXCEPT !.pc = "clear"]
      <3>1. x \in Asking /\ x.pc = "clear" /\ x.action # NoOne
        BY <1>0, <2>0 DEF Asking
      <3>2. ask' = [ask EXCEPT ![w] = x]
        BY <2>2
      <3>3. QED
        BY <1>0, <1>3, <3>1, <3>2, AskTypeOK DEF LookForPending
    <2>3. ASSUME NEW i \in Pending, ask' = [ask EXCEPT ![w] = Waiting(ask[w].action, i)]
          PROVE  TypeOK'
      <3> DEFINE x == Waiting(ask[w].action, i)
      <3>1. i \in 1..made
        BY DEF Pending, Proposals, TypeOK
      <3>2. x \in Asking /\ x.action # NoOne /\ x.made \in 1..made
        BY <1>0, <2>0, <3>1 DEF Asking, Proposals, Waiting
      <3>3. ask' = [ask EXCEPT ![w] = x]
        BY <2>3
      <3>4. QED
        BY <1>0, <1>3, <3>2, <3>3, AskTypeOK DEF LookForPending
    <2>4. QED
      BY <1>3, <2>1, <2>2, <2>3 DEF LookForPending
  <1>4. ASSUME Insert(w) PROVE TypeOK'
    <2> DEFINE i == made + 1
               r == [action |-> ask[w].action, source |-> ask[w].source, status |-> "pending",
                     accepted |-> {Requester[ask[w].action]}, parent |-> "step"]
               x == Waiting(ask[w].action, i)
    <2>0. /\ i \in Proposals /\ i \in 1..i
          /\ ask[w].pc = "clear" /\ ask[w].action # NoOne
      BY <1>0, <1>4, TimeBoundsAssumption DEF Insert, TypeOK, Proposals
    <2>1. /\ ask[w].action \in Actions /\ ask[w].source \in Nat
          /\ Requester[ask[w].action] \in Players
      BY <1>0, <2>0, PartyAssumption DEF Asking
    <2>2. /\ r \in Record /\ r.status = "pending" /\ r.action # NoOne
          /\ x \in Asking /\ x.action # NoOne /\ x.made = i
      BY <1>0, <2>0, <2>1 DEF Record, Status, Asking, Proposals, Waiting
    <2>3. proposal' = [proposal EXCEPT ![i] = r] /\ made' = i
      BY <1>4 DEF Insert
    <2>4. ask' = [ask EXCEPT ![w] = x]
      BY <1>4 DEF Insert
    <2>5. proposal' \in [Proposals -> Record] /\ ask' \in [Workers -> Asking]
      BY <2>2, <2>3, <2>4 DEF TypeOK
    <2>6. \A j \in Proposals : /\ proposal'[j].status = "absent" <=> j > i
                               /\ proposal'[j].action = NoOne <=> j > i
      <3>1. \A j \in Proposals : j # i => proposal'[j] = proposal[j]
        BY <2>3 DEF TypeOK
      <3>2. proposal'[i] = r
        BY <2>0, <2>3 DEF TypeOK
      <3>3. \A j \in Proposals : j # i => (j > i <=> j > made)
        BY <1>0 DEF Proposals
      <3>4. QED
        BY <1>0, <2>2, <3>1, <3>2, <3>3 DEF TypeOK
    <2>7. \A v \in Workers : /\ ask'[v].pc # "idle" => ask'[v].action # NoOne
                             /\ ask'[v].pc = "waiting" => ask'[v].made \in 1..i
      <3>1. ask'[w] = x /\ \A v \in Workers : v # w => ask'[v] = ask[v]
        BY <2>4 DEF TypeOK
      <3>2. \A j \in 1..made : j \in 1..i
        BY <1>0
      <3>3. QED
        BY <2>0, <2>2, <3>1, <3>2 DEF TypeOK
    <2>8. /\ moved' \in [Actions -> 0..i] /\ late' \subseteq 1..i /\ shown' \subseteq 1..i
          /\ said' \subseteq Players \X (1..i) /\ i \in 0..MaxProposals
          /\ \A c \in Calls : IF call[c].pc = "idle" THEN call[c] = NotHandling
                              ELSE call[c].made \in 1..i
      <3>1. i \in 0..MaxProposals /\ \A j \in 0..made : j \in 0..i
        BY <1>0, <2>0 DEF Proposals
      <3>2. \A j \in 1..made : j \in 1..i
        BY <1>0
      <3>3. moved' \in [Actions -> 0..i]
        BY <1>4, <3>1 DEF Insert, TypeOK
      <3>4. late' \subseteq 1..i /\ shown' \subseteq 1..i
        BY <1>4, <3>2 DEF Insert, TypeOK
      <3>5. said' = said \cup {<<Requester[ask[w].action], i>>}
        BY <1>4 DEF Insert
      <3>6. said' \subseteq Players \X (1..i)
        BY <2>0, <2>1, <3>2, <3>5 DEF TypeOK
      <3>7. QED
        BY <3>1, <3>2, <3>3, <3>4, <3>6 DEF TypeOK
    <2>9. QED
      BY <1>4, <2>3, <2>5, <2>6, <2>7, <2>8 DEF Insert, TypeOK, room
  <1>5. ASSUME Bind(w) PROVE TypeOK'
    <2> DEFINE i == ask[w].made
    <2>1. i \in 1..made /\ i \in Proposals
      BY <1>0, <1>5 DEF Bind, TypeOK
    <2>2. ask' = [ask EXCEPT ![w] = NotAsking] /\ shown' \subseteq 1..made
      BY <1>0, <1>5, <2>1 DEF Bind
    <2>3. CASE UNCHANGED proposal
      BY <1>0, <1>5, <2>2, <2>3, AskTypeOK DEF Bind, table
    <2>4. CASE proposal' = [proposal EXCEPT ![i].parent = "plan"]
      <3>1. /\ proposal' \in [Proposals -> Record]
            /\ \A j \in Proposals : /\ proposal'[j].status = proposal[j].status
                                    /\ proposal'[j].action = proposal[j].action
        <4>1. \A r \in Record : [r EXCEPT !.parent = "plan"] \in Record
          BY DEF Record
        <4>2. proposal \in [Proposals -> Record]
          BY DEF TypeOK
        <4>3. proposal' = [proposal EXCEPT ![i] = [proposal[i] EXCEPT !.parent = "plan"]]
          BY <2>1, <2>4, <4>2
        <4>4. QED
          BY <2>1, <4>1, <4>2, <4>3 DEF Record
      <3>2. /\ ask' \in [Workers -> Asking]
            /\ \A v \in Workers : v # w => ask'[v] = ask[v]
            /\ ask'[w] = NotAsking
        BY <1>0, <2>2 DEF TypeOK
      <3>3. \A v \in Workers : /\ ask'[v].pc # "idle" => ask'[v].action # NoOne
                               /\ ask'[v].pc = "waiting" => ask'[v].made \in 1..made
        <4>1. \A v \in Workers : v # w =>
                /\ ask'[v].pc # "idle" => ask'[v].action # NoOne
                /\ ask'[v].pc = "waiting" => ask'[v].made \in 1..made
          BY <3>2 DEF TypeOK
        <4>2. ask'[w].pc = "idle"
          BY <3>2 DEF NotAsking
        <4>3. QED
          BY <4>1, <4>2
      <3>4. QED
        BY <1>5, <2>2, <3>1, <3>2, <3>3 DEF Bind, TypeOK, room
    <2>5. QED
      BY <1>5, <2>3, <2>4 DEF Bind
  <1>6. ASSUME WorkerDies(w) PROVE TypeOK'
    BY <1>0, <1>6, AskTypeOK DEF WorkerDies
  <1>7. QED
    BY <1>1, <1>2, <1>3, <1>4, <1>5, <1>6 DEF WorkerStep

LEMMA CallTypes ==
  ASSUME TypeOK, NEW c \in Calls, CallStep(c)
  PROVE  TypeOK'
  <1>0. /\ NotHandling \in Handling /\ NotHandling.pc = "idle"
        /\ \A i \in 1..made : i \in Proposals /\ i \in 0..MaxProposals
        /\ proposal \in [Proposals -> Record]
        /\ call[c] \in Handling
        /\ Active(c) => call[c].made \in 1..made
        /\ revision \in Nat /\ shown \subseteq 1..made /\ made \in Nat
        /\ moved \in [Actions -> 0..made] /\ said \subseteq Players \X (1..made)
    BY TimeBoundsAssumption DEF NotHandling, Handling, TypeOK, Proposals, Active
  <1>a. ASSUME NEW pc \in {"judging", "submitting", "approving"}, Active(c)
        PROVE  LET x == [call[c] EXCEPT !.pc = pc] IN
               x \in Handling /\ x.pc # "idle" /\ x.made \in 1..made
    BY <1>0, <1>a DEF Handling
  <1>b. /\ {"approved", "expired", "stale", "rejected"} \subseteq Status \ {"absent", "pending"}
        /\ Active(c) => proposal[call[c].made].accepted \in SUBSET Players
    BY <1>0 DEF Status, Record
  <1>1. ASSUME NEW p \in Players, NEW i \in Proposals, NEW yes \in BOOLEAN,
               Respond(c, p, i, yes)
        PROVE  TypeOK'
    <2> DEFINE x == [pc |-> "asking", made |-> i, voter |-> p, yes |-> yes,
                     parent |-> proposal[i].parent]
    <2>1. i \in 1..made /\ proposal[i].parent \in {"step", "plan"}
      BY <1>0, <1>1 DEF Respond, Record
    <2>2. x \in Handling /\ x.pc # "idle" /\ x.made \in 1..made
      BY <1>0, <2>1 DEF Handling
    <2>3. said' \subseteq Players \X (1..made)
      BY <1>0, <1>1, <2>1 DEF Respond
    <2>4. QED
      BY <1>0, <1>1, <2>2, <2>3, CallTypeOK DEF Respond, room
  <1>2. ASSUME GetPending(c) PROVE TypeOK'
    <2>1. PICK i \in Pending :
             call' = [call EXCEPT ![c] = [NotHandling EXCEPT !.pc = "asking", !.made = i]]
      BY <1>2 DEF GetPending
    <2> DEFINE x == [NotHandling EXCEPT !.pc = "asking", !.made = i]
    <2>2. i \in 1..made
      BY DEF Pending, Proposals, TypeOK
    <2>3. x \in Handling /\ x.pc # "idle" /\ x.made \in 1..made
      BY <1>0, <2>2 DEF Handling, NotHandling
    <2>4. QED
      BY <1>0, <1>2, <2>1, <2>3, CallTypeOK DEF GetPending, room
  <1>3. ASSUME AskEngine(c) PROVE TypeOK'
    <2>1. Active(c)
      BY <1>3 DEF AskEngine, Active
    <2>2. CASE Settles(c, "approved", Players)
      BY <1>3, <1>b, <2>1, <2>2, SettlesTypeOK DEF AskEngine
    <2>3. CASE call' = [call EXCEPT ![c].pc = "judging"] /\ UNCHANGED <<proposal, resumed>>
      BY <1>0, <1>3, <1>a, <2>1, <2>3, CallTypeOK DEF AskEngine, room, table
    <2>4. QED
      BY <1>3, <2>2, <2>3 DEF AskEngine
  <1>4. ASSUME Judge(c) PROVE TypeOK'
    <2> DEFINE i == call[c].made
               p == call[c].voter
    <2>1. Active(c) /\ i \in 1..made /\ i \in Proposals
      BY <1>0, <1>4 DEF Judge, Active
    <2>2. CASE \E status \in {"expired", "stale", "rejected"} :
                 Settles(c, status, proposal[i].accepted) /\ UNCHANGED shown
      BY <1>4, <1>b, <2>1, <2>2, SettlesTypeOK DEF Judge
    <2>3. CASE shown' = shown \cup {i} /\ Ends(c) /\ UNCHANGED <<proposal, resumed>>
      BY <1>0, <1>4, <2>1, <2>3, CallTypeOK DEF Judge, Ends, room, table
    <2>4. CASE call' = [call EXCEPT ![c].pc = "submitting"] /\ UNCHANGED <<proposal, shown, resumed>>
      BY <1>0, <1>4, <1>a, <2>1, <2>4, CallTypeOK DEF Judge, room, table
    <2>5. CASE /\ proposal' = [proposal EXCEPT ![i].accepted = proposal[i].accepted \cup {p}]
               /\ p # NoOne /\ Ends(c) /\ UNCHANGED <<shown, resumed>>
      <3>1. p \in Players
        BY <1>0, <2>5 DEF Handling
      <3>2. proposal[i].accepted \cup {p} \in SUBSET Players
        BY <1>b, <2>1, <3>1
      <3>3. \A r \in Record, v \in SUBSET Players : [r EXCEPT !.accepted = v] \in Record
        BY DEF Record
      <3>4. proposal' = [proposal EXCEPT ![i] =
              [proposal[i] EXCEPT !.accepted = proposal[i].accepted \cup {p}]]
        BY <1>0, <2>1, <2>5
      <3>5. /\ proposal' \in [Proposals -> Record]
            /\ \A j \in Proposals : /\ proposal'[j].status = proposal[j].status
                                    /\ proposal'[j].action = proposal[j].action
        BY <1>0, <2>1, <3>2, <3>3, <3>4 DEF Record
      <3>6. call' = [call EXCEPT ![c] = NotHandling]
        BY <2>5 DEF Ends
      <3>7. call' \in [Calls -> Handling]
        BY <1>0, <3>6 DEF TypeOK
      <3>8. \A d \in Calls : IF call'[d].pc = "idle" THEN call'[d] = NotHandling
                             ELSE call'[d].made \in 1..made
        BY <1>0, <3>6 DEF TypeOK, NotHandling
      <3>9. QED
        BY <1>4, <2>5, <3>5, <3>7, <3>8 DEF Judge, TypeOK, room
    <2>6. QED
      BY <1>4, <2>2, <2>3, <2>4, <2>5 DEF Judge
  <1>5. ASSUME Commit(c) PROVE TypeOK'
    <2>1. Active(c) /\ call[c].made \in 1..made
      BY <1>0, <1>5 DEF Commit, Active
    <2>2. moved' \in [Actions -> 0..made] /\ revision' \in Nat
      BY <1>0, <1>5, <2>1 DEF Commit
    <2>3. QED
      BY <1>0, <1>5, <1>a, <2>1, <2>2, CallTypeOK DEF Commit
  <1>6. ASSUME Refuse(c) PROVE TypeOK'
    BY <1>6, <1>b, SettlesTypeOK DEF Refuse, Active
  <1>7. ASSUME Approve(c) PROVE TypeOK'
    BY <1>7, <1>b, SettlesTypeOK DEF Approve, Active
  <1>8. ASSUME CallDies(c) PROVE TypeOK'
    BY <1>0, <1>8, CallTypeOK DEF CallDies, Ends, room
  <1>9. QED
    BY <1>1, <1>2, <1>3, <1>4, <1>5, <1>6, <1>7, <1>8 DEF CallStep

LEMMA NextTypeOK == TypeOK /\ [Next]_vars => TypeOK'
  <1> SUFFICES ASSUME TypeOK, [Next]_vars PROVE TypeOK'
    OBVIOUS
  <1>1. CASE OtherCommit
    BY <1>1 DEF OtherCommit, TypeOK, table
  <1>2. CASE ChangePhase
    BY <1>2 DEF ChangePhase, TypeOK, table
  <1>3. ASSUME NEW i \in Proposals, Expire(i) PROVE TypeOK'
    <2>1. i \in 1..made
      BY <1>3 DEF Expire, Pending, Proposals, TypeOK
    <2>2. QED
      BY <1>3, <2>1 DEF Expire, TypeOK, room
  <1>4. CASE UNCHANGED vars
    BY <1>4 DEF vars, room, table, TypeOK
  <1>5. QED
    BY <1>1, <1>2, <1>3, <1>4, WorkerTypeOK, CallTypes DEF Next

-----------------------------------------------------------------------------
(* The votes.  A call that awaits something changes only what it knows; one *)
(* that ends is covered by SettlesKeepsVotes.                               *)

\* A call moves on: nothing but its own record is written.
LEMMA CallMoves ==
  ASSUME IInv, NEW c \in Calls, NEW x, call' = [call EXCEPT ![c] = x],
         UNCHANGED <<moved, made, proposal, said, resumed>>,
         IF x.pc = "idle" THEN TRUE
         ELSE Active(c) /\ x.made = call[c].made /\ x.voter = call[c].voter /\ CallKnows(c)'
  PROVE  VoteInv'
  <1> USE DEF IInv
  <1>1. /\ call'[c] = x
        /\ \A d \in Calls : d # c => call'[d] = call[d]
    BY DEF TypeOK
  <1>2. \A d \in Calls : Active(d)' => /\ Active(d)
                                       /\ call'[d].made = call[d].made
                                       /\ call'[d].voter = call[d].voter
    BY <1>1 DEF Active
  <1>3. Exclusive'
    BY <1>2 DEF VoteInv, Exclusive, Voting
  <1>4. ASSUME NEW d \in Calls, Active(d)' PROVE CallKnows(d)'
    <2>1. CASE d = c
      BY <1>1, <1>4, <2>1 DEF Active
    <2>2. CASE d # c
      BY <1>1, <1>4, <2>2, SMTT(20) DEF VoteInv, Active, CallKnows, SaidYes
    <2>3. QED
      BY <2>1, <2>2
  <1>5. VotesAreSaid' /\ Untold' /\ ConsentGiven' /\ (RowLocks => StatusTellsTheTruth')
    BY DEF VoteInv, VotesAreSaid, SaidYes, Untold, ResumedOnce, ConsentGiven,
           StatusTellsTheTruth
  <1>6. QED
    BY <1>3, <1>4, <1>5 DEF VoteInv

\* The new proposal is nobody's yet: no call has it, no action moved by it.
LEMMA InsertKeepsVotes ==
  ASSUME IInv, NEW w \in Workers, Insert(w)
  PROVE  VoteInv'
  <1>0. PICK i : i = made + 1
    OBVIOUS
  <1>a. PICK a : a = ask[w].action
    OBVIOUS
  <1> USE DEF IInv
  <1>1. /\ made \in Nat /\ made' = i /\ i \in Proposals
        /\ \A j \in 1..made : j \in Proposals /\ j # i
        /\ UNCHANGED <<moved, call, resumed>>
        /\ said' = said \cup {<<Requester[a], i>>}
    BY <1>0, <1>a, TimeBoundsAssumption DEF Insert, room, TypeOK, Proposals
  <1>2. /\ proposal'[i].status = "pending"
        /\ proposal'[i].accepted = {Requester[a]}
        /\ \A j \in Proposals : j # i => proposal'[j] = proposal[j]
    BY <1>0, <1>1, <1>a DEF Insert, TypeOK
  <1>3. \A j \in 1..made : SaidYes(j)' = SaidYes(j)
    BY <1>1 DEF SaidYes
  <1>4. Requester[a] \in Players
    <2>1. ask[w] \in Asking /\ a # NoOne
      BY <1>a DEF Insert, TypeOK
    <2>2. QED
      BY <1>a, <2>1, PartyAssumption DEF Asking
  <1>5. Requester[a] \in SaidYes(i)'
    BY <1>1, <1>4 DEF SaidYes
  <1>6. \A d \in Calls : Active(d) => call[d].made \in 1..made
    BY DEF TypeOK, Active
  <1>7. \A j \in 1..i : j = i \/ j \in 1..made
    BY <1>0, <1>1
  <1>8. Exclusive'
    BY <1>1 DEF VoteInv, Exclusive, Active, Voting
  <1>9. VotesAreSaid'
    BY <1>1, <1>2, <1>3, <1>5, <1>7 DEF VoteInv, VotesAreSaid
  <1>10. \A d \in Calls : Active(d)' => CallKnows(d)'
    <2> SUFFICES ASSUME NEW d \in Calls, Active(d)' PROVE CallKnows(d)'
      OBVIOUS
    <2>1. /\ Active(d) /\ CallKnows(d) /\ call'[d] = call[d]
          /\ call[d].made \in 1..made
      BY <1>1, <1>6 DEF Active, VoteInv
    <2>2. /\ proposal'[call[d].made] = proposal[call[d].made]
          /\ SaidYes(call[d].made)' = SaidYes(call[d].made)
      BY <1>1, <1>2, <1>3, <2>1
    <2>3. QED
      BY <1>1, <2>1, <2>2 DEF CallKnows, SaidYes
  <1>11. Untold'
    <2>1. proposal[i].status = "absent"
      BY <1>0, <1>1 DEF TypeOK
    <2>2. QED
      BY <1>1, <1>2, <2>1 DEF VoteInv, Untold, ResumedOnce
  <1>12. ConsentGiven'
    <2>1. \A b \in Actions : moved[b] # 0 => moved[b] \in 1..made
      BY <1>1 DEF TypeOK
    <2>2. QED
      BY <1>1, <1>2, <2>1 DEF VoteInv, ConsentGiven
  <1>13. RowLocks => StatusTellsTheTruth'
    BY <1>1, <1>2, <1>7 DEF VoteInv, StatusTellsTheTruth, Cancelled
  <1>14. QED
    BY <1>8, <1>9, <1>10, <1>11, <1>12, <1>13 DEF VoteInv

\* Binding writes the parent, which no vote depends on.
LEMMA BindKeepsVotes ==
  ASSUME IInv, NEW w \in Workers, Bind(w)
  PROVE  VoteInv'
  <1> USE DEF IInv
  <1>1. /\ \A j \in Proposals : /\ proposal'[j].status = proposal[j].status
                                /\ proposal'[j].action = proposal[j].action
                                /\ proposal'[j].accepted = proposal[j].accepted
        /\ UNCHANGED <<made, moved, call, said, resumed>>
    BY DEF Bind, TypeOK, Record, room
  <1>2. /\ \A j \in 1..made : j \in Proposals
        /\ \A b \in Actions : moved[b] # 0 => moved[b] \in Proposals
        /\ \A d \in Calls : Active(d) => call[d].made \in Proposals
    BY TimeBoundsAssumption DEF TypeOK, Proposals, Active
  <1>3. Exclusive'
    BY <1>1 DEF VoteInv, Exclusive, Active, Voting
  <1>4. VotesAreSaid'
    BY <1>1, <1>2 DEF VoteInv, VotesAreSaid, SaidYes
  <1>5. \A d \in Calls : Active(d)' => CallKnows(d)'
    BY <1>1, <1>2 DEF VoteInv, Active, CallKnows, SaidYes
  <1>6. Untold' /\ ConsentGiven' /\ (RowLocks => StatusTellsTheTruth')
    BY <1>1, <1>2 DEF VoteInv, Untold, ResumedOnce, ConsentGiven, StatusTellsTheTruth
  <1>7. QED
    BY <1>3, <1>4, <1>5, <1>6 DEF VoteInv

\* A call starts only where it is alone, on a proposal that is pending.
LEMMA CallStarts ==
  ASSUME IInv, NEW c \in Calls, call[c].pc = "idle", NEW i \in Pending, Unlocked(i),
         NEW x \in Handling, x.pc = "asking", x.made = i,
         x.voter # NoOne => ResponseLockFree,
         call' = [call EXCEPT ![c] = x],
         UNCHANGED <<moved, made, proposal, resumed>>, said \subseteq said',
         x.voter # NoOne /\ x.yes => <<x.voter, i>> \in said'
  PROVE  VoteInv'
  <1> USE DEF IInv
  <1>1. /\ call'[c] = x
        /\ \A d \in Calls : d # c => call'[d] = call[d]
        /\ ~Active(c)
    BY DEF TypeOK, Active
  <1>2. /\ i \in Proposals /\ proposal[i].status = "pending"
        /\ resumed[i].times = 0
    BY DEF Pending, VoteInv, Untold
  <1>3. \A j : SaidYes(j) \subseteq SaidYes(j)'
    BY DEF SaidYes
  <1>4. Exclusive'
    <2>1. ASSUME RowLocks, NEW d, NEW e \in Calls, d \in Calls, Active(d)', Active(e)',
                 call'[d].made = call'[e].made
          PROVE  d = e
      BY <1>1, <2>1 DEF VoteInv, Exclusive, Active, Unlocked
    <2>2. ASSUME ~RowLocks, NEW d \in Calls, NEW e \in Calls, Voting(d)', Voting(e)'
          PROVE  d = e
      <3>1. x.voter # NoOne => \A f \in Calls : call[f].voter = NoOne
        BY <2>2 DEF ResponseLockFree
      <3>2. QED
        BY <1>1, <2>2, <3>1 DEF VoteInv, Exclusive, Active, Voting
    <2>3. QED
      BY <2>1, <2>2 DEF Exclusive
  <1>5. ASSUME NEW d \in Calls, Active(d)' PROVE CallKnows(d)'
    <2>1. CASE d = c
      <3>1. x.voter # NoOne /\ x.yes => x.voter \in SaidYes(i)'
        BY DEF SaidYes, Handling
      <3>2. QED
        BY <1>1, <1>2, <2>1, <3>1 DEF CallKnows, SaidYes
    <2>2. CASE d # c
      <3>1. Active(d) /\ CallKnows(d) /\ call'[d] = call[d]
        BY <1>1, <1>5, <2>2 DEF VoteInv, Active
      <3>2. SaidYes(call[d].made) = Players => SaidYes(call[d].made)' = Players
        BY <3>1 DEF SaidYes
      <3>3. QED
        BY <3>1, <3>2 DEF CallKnows, SaidYes
    <2>3. QED
      BY <2>1, <2>2
  <1>6. VotesAreSaid'
    BY <1>3 DEF VoteInv, VotesAreSaid, SaidYes
  <1>7. Untold' /\ ConsentGiven' /\ (RowLocks => StatusTellsTheTruth')
    BY DEF VoteInv, Untold, ResumedOnce, ConsentGiven, StatusTellsTheTruth
  <1>8. QED
    BY <1>4, <1>5, <1>6, <1>7 DEF VoteInv

\* A vote that is not the last is stored: it is the voter's own.
LEMMA VoteKeepsVotes ==
  ASSUME IInv, NEW c \in Calls, Voting(c), call[c].yes,
         proposal' = [proposal EXCEPT ![call[c].made].accepted =
                        proposal[call[c].made].accepted \cup {call[c].voter}],
         proposal[call[c].made].accepted \subseteq SaidYes(call[c].made),
         Ends(c), UNCHANGED <<moved, made, said, resumed>>
  PROVE  VoteInv'
  <1> USE DEF IInv
  <1>1. /\ call'[c] = NotHandling
        /\ \A d \in Calls : d # c => call'[d] = call[d]
        /\ call[c].made \in 1..made /\ call[c].made \in Proposals
        /\ \A j \in 1..made : j \in Proposals
        /\ \A b \in Actions : moved[b] # 0 => moved[b] \in Proposals
        /\ \A d \in Calls : Active(d) => call[d].made \in Proposals
    BY TimeBoundsAssumption DEF Ends, TypeOK, Voting, Active, Proposals
  <1>2. /\ \A j \in Proposals : /\ proposal'[j].status = proposal[j].status
                                /\ proposal'[j].action = proposal[j].action
        /\ \A j \in Proposals : j # call[c].made => proposal'[j] = proposal[j]
        /\ proposal'[call[c].made].accepted =
             proposal[call[c].made].accepted \cup {call[c].voter}
    BY <1>1 DEF TypeOK, Record
  <1>3. call[c].voter \in SaidYes(call[c].made)
    BY DEF VoteInv, CallKnows, Voting
  <1>4. \A d \in Calls : Active(d)' => Active(d) /\ d # c /\ call'[d] = call[d]
    BY <1>1 DEF Active, NotHandling
  <1>5. Exclusive'
    BY <1>4 DEF VoteInv, Exclusive, Voting, Active
  <1>6. VotesAreSaid'
    <2> SUFFICES ASSUME NEW j \in 1..made
                 PROVE  \/ proposal'[j].accepted \subseteq SaidYes(j)
                        \/ proposal'[j].status # "pending" /\ moved[proposal'[j].action] # 0
      BY DEF VotesAreSaid, SaidYes
    <2>1. CASE j = call[c].made
      BY <1>2, <1>3, <2>1
    <2>2. CASE j # call[c].made
      BY <1>1, <1>2, <2>2 DEF VoteInv, VotesAreSaid
    <2>3. QED
      BY <2>1, <2>2
  <1>7. \A d \in Calls : Active(d)' => CallKnows(d)'
    <2> SUFFICES ASSUME NEW d \in Calls, Active(d)' PROVE CallKnows(d)'
      OBVIOUS
    <2>1. /\ Active(d) /\ call'[d] = call[d] /\ CallKnows(d)
          /\ call[d].made \in Proposals
      BY <1>1, <1>4 DEF VoteInv
    <2>2. /\ proposal'[call[d].made].status = proposal[call[d].made].status
          /\ proposal'[call[d].made].action = proposal[call[d].made].action
      BY <1>2, <2>1
    <2>3. QED
      BY <2>1, <2>2 DEF CallKnows, SaidYes
  <1>8. Untold' /\ ConsentGiven' /\ (RowLocks => StatusTellsTheTruth')
    BY <1>1, <1>2 DEF VoteInv, Untold, ResumedOnce, ConsentGiven, StatusTellsTheTruth
  <1>9. QED
    BY <1>5, <1>6, <1>7, <1>8 DEF VoteInv

\* Time moves: the call knows that everyone said yes to its proposal.
LEMMA CommitKeepsVotes ==
  ASSUME IInv, NEW c \in Calls, Commit(c)
  PROVE  VoteInv'
  <1>0. PICK i, a : i = call[c].made /\ a = proposal[i].action
    OBVIOUS
  <1> USE DEF IInv
  <1>1. /\ call[c].pc = "submitting" /\ Active(c) /\ CallKnows(c)
        /\ i \in 1..made /\ i \in Proposals /\ i # 0 /\ a \in Actions
        /\ proposal[i] \in Record
        /\ UNCHANGED <<made, proposal, said, resumed>>
    <2>1. call[c].pc = "submitting" /\ Active(c) /\ UNCHANGED <<made, proposal, said, resumed>>
      BY DEF Commit, Active, table
    <2>2. i \in 1..made /\ i \in Proposals /\ proposal[i] \in Record /\ a # NoOne /\ i # 0
      BY <1>0, <2>1, TimeBoundsAssumption DEF TypeOK, Active, Proposals
    <2>3. a \in Actions
      BY <1>0, <2>2 DEF Record
    <2>4. QED
      BY <2>1, <2>2, <2>3 DEF VoteInv
  <1>2. call[c].voter # NoOne /\ SaidYes(i) = Players
    BY <1>0, <1>1 DEF CallKnows
  <1>3. /\ call'[c] = [call[c] EXCEPT !.pc = "approving"]
        /\ \A d \in Calls : d # c => call'[d] = call[d]
    BY DEF Commit, TypeOK
  <1>4. /\ moved'[a] # 0
        /\ \A b \in Actions : b # a => moved'[b] = moved[b]
        /\ moved[a] # 0 => moved' = moved
        /\ moved[a] = 0 => moved'[a] = i
    BY <1>0, <1>1 DEF Commit, TypeOK
  <1>5. /\ call'[c].pc = "approving" /\ call'[c].made = i
        /\ call'[c].voter = call[c].voter /\ call'[c].yes = call[c].yes
    BY <1>0, <1>3 DEF TypeOK, Handling
  <1>6. \A d \in Calls : Active(d)' => /\ Active(d)
                                       /\ call'[d].made = call[d].made
                                       /\ call'[d].voter = call[d].voter
    BY <1>0, <1>1, <1>3, <1>5 DEF Active
  <1>7. Exclusive'
    BY <1>6 DEF VoteInv, Exclusive, Voting
  <1>8. \A j \in 1..made : moved[proposal[j].action] # 0 => moved'[proposal[j].action] # 0
    <2>1. \A j \in 1..made : proposal[j].action \in Actions
      BY TimeBoundsAssumption DEF TypeOK, Record, Proposals
    <2>2. QED
      BY <1>4, <2>1
  <1>9. VotesAreSaid'
    BY <1>1, <1>8 DEF VoteInv, VotesAreSaid, SaidYes
  <1>10. ASSUME NEW d \in Calls, Active(d)' PROVE CallKnows(d)'
    <2>1. CASE d = c
      BY <1>0, <1>1, <1>4, <1>5, <2>1 DEF CallKnows, SaidYes
    <2>2. CASE d # c
      <3>1. call'[d] = call[d] /\ Active(d) /\ CallKnows(d)
        BY <1>3, <1>6, <1>10, <2>2 DEF VoteInv
      <3>2. /\ call[d].made \in 1..made
            /\ proposal[call[d].made].action \in Actions
        BY <3>1, TimeBoundsAssumption DEF TypeOK, Active, Record, Proposals
      <3>3. RowLocks => call[d].made # i
        BY <1>0, <1>1, <2>2, <3>1 DEF VoteInv, Exclusive
      <3>4. ~RowLocks => call[d].voter = NoOne
        BY <1>1, <1>2, <2>2, <3>1 DEF VoteInv, Exclusive, Voting
      <3>5. call[d].pc \in {"judging", "submitting"} /\ RowLocks =>
              moved'[proposal[call[d].made].action] # call[d].made
        BY <1>4, <3>1, <3>2, <3>3 DEF CallKnows
      <3>6. QED
        BY <1>1, <1>8, <3>1, <3>2, <3>4, <3>5 DEF CallKnows, SaidYes
    <2>3. QED
      BY <2>1, <2>2
  <1>11. Untold'
    BY <1>1 DEF VoteInv, Untold, ResumedOnce
  <1>12. ConsentGiven'
    <2>1. \A p \in Players : <<p, i>> \in said
      BY <1>2 DEF SaidYes
    <2>2. QED
      BY <1>0, <1>1, <1>4, <2>1 DEF VoteInv, ConsentGiven
  <1>13. ASSUME RowLocks PROVE StatusTellsTheTruth'
    <2>1. proposal[i].status = "pending"
      BY <1>0, <1>1, <1>13 DEF CallKnows
    <2>2. \A j \in 1..made : proposal[j].action \in Actions
      BY TimeBoundsAssumption DEF TypeOK, Record, Proposals
    <2>3. QED
      BY <1>1, <1>4, <1>8, <1>13, <2>1, <2>2 DEF VoteInv, StatusTellsTheTruth, Cancelled
  <1>14. QED
    BY <1>7, <1>9, <1>10, <1>11, <1>12, <1>13 DEF VoteInv

LEMMA CallStepKeepsVotes ==
  ASSUME IInv, NEW c \in Calls, CallStep(c)
  PROVE  VoteInv'
  <1> USE DEF IInv
  <1>a. /\ {"approved", "expired", "stale", "rejected"} \subseteq Status \ {"absent", "pending"}
        /\ Active(c) => /\ CallKnows(c)
                        /\ call[c].made \in 1..made /\ call[c].made # 0
                        /\ proposal[call[c].made].accepted \in SUBSET Players
        /\ call[c] \in Handling
        /\ NotHandling \in Handling
    BY TimeBoundsAssumption DEF VoteInv, TypeOK, Active, Proposals, Record, Status,
                                NotHandling, Handling
  <1>b. ASSUME NEW pc \in {"judging", "submitting"}
        PROVE  LET x == [call[c] EXCEPT !.pc = pc] IN
               x.pc = pc /\ x.made = call[c].made /\ x.voter = call[c].voter /\ x.yes = call[c].yes
    BY <1>a DEF Handling
  <1>1. ASSUME NEW p \in Players, NEW i \in Proposals, NEW yes \in BOOLEAN,
               Respond(c, p, i, yes)
        PROVE  VoteInv'
    <2> DEFINE x == [pc |-> "asking", made |-> i, voter |-> p, yes |-> yes,
                     parent |-> proposal[i].parent]
    <2>1. x \in Handling
      BY DEF Handling, TypeOK, Record, Proposals
    <2>2. i \in Pending /\ said \subseteq said' /\ (yes => <<p, i>> \in said')
      BY <1>1 DEF Respond, Pending
    <2>3. QED
      BY <1>1, <2>1, <2>2, CallStarts DEF Respond, table
  <1>2. ASSUME GetPending(c) PROVE VoteInv'
    <2>1. PICK i \in Pending :
            /\ Unlocked(i)
            /\ call' = [call EXCEPT ![c] = [NotHandling EXCEPT !.pc = "asking", !.made = i]]
      BY <1>2 DEF GetPending
    <2> DEFINE x == [NotHandling EXCEPT !.pc = "asking", !.made = i]
    <2>2. /\ x \in Handling /\ x.pc = "asking" /\ x.made = i /\ x.voter = NoOne
      <3>1. i \in 0..MaxProposals
        BY TimeBoundsAssumption DEF Pending, Proposals
      <3>2. QED
        BY <1>a, <3>1 DEF Handling, NotHandling
    <2>3. QED
      BY <1>2, <2>1, <2>2, CallStarts DEF GetPending, table
  <1>3. ASSUME AskEngine(c) PROVE VoteInv'
    <2>1. Active(c) /\ UNCHANGED <<moved, made, said>>
      BY <1>3 DEF AskEngine, Active
    <2>2. CASE moved[proposal[call[c].made].action] # 0
      BY <1>3, <1>a, <2>1, <2>2, SettlesKeepsVotes DEF AskEngine, Cancelled
    <2>3. CASE moved[proposal[call[c].made].action] = 0
      <3> DEFINE x == [call[c] EXCEPT !.pc = "judging"]
      <3>1. call' = [call EXCEPT ![c] = x] /\ UNCHANGED <<proposal, resumed>>
        BY <1>3, <2>3 DEF AskEngine
      <3>2. call'[c] = x
        BY <3>1 DEF TypeOK
      <3>3. CallKnows(c)'
        BY <1>a, <1>b, <2>1, <2>3, <3>1, <3>2 DEF CallKnows, SaidYes
      <3>4. QED
        BY <1>b, <2>1, <3>1, <3>3, CallMoves
    <2>4. QED
      BY <2>2, <2>3
  <1>4. ASSUME Judge(c) PROVE VoteInv'
    <2> DEFINE i == call[c].made
               p == call[c].voter
    <2>1. /\ Active(c) /\ CallKnows(c) /\ call[c].pc = "judging"
          /\ UNCHANGED <<moved, made, said>>
      BY <1>4, <1>a DEF Judge, Active
    <2>2. CASE \E status \in {"expired", "stale", "rejected"} :
                 Settles(c, status, proposal[i].accepted)
      <3>1. RowLocks => moved[proposal[i].action] # i
        BY <2>1 DEF CallKnows
      <3>2. QED
        BY <1>a, <2>1, <2>2, <3>1, SettlesKeepsVotes
    <2>3. CASE Ends(c) /\ UNCHANGED <<proposal, resumed>>
      BY <2>1, <2>3, CallMoves DEF Ends, NotHandling
    <2>4. ASSUME p # NoOne, call[c].yes PROVE proposal[i].accepted \subseteq SaidYes(i)
      BY <1>a, <2>1, <2>4 DEF CallKnows, VoteInv, VotesAreSaid
    <2>5. CASE /\ p # NoOne /\ call[c].yes /\ Complete(i, p)
               /\ call' = [call EXCEPT ![c].pc = "submitting"]
               /\ UNCHANGED <<proposal, resumed>>
      <3> DEFINE x == [call[c] EXCEPT !.pc = "submitting"]
      <3>1. call' = [call EXCEPT ![c] = x] /\ call'[c] = x
        BY <2>5 DEF TypeOK
      <3>2. p \in SaidYes(i)
        BY <2>1, <2>5 DEF CallKnows
      <3>3. SaidYes(i) = Players
        BY <2>4, <2>5, <3>2 DEF Complete, SaidYes
      <3>4. CallKnows(c)'
        BY <1>a, <1>b, <2>1, <2>5, <3>1, <3>3 DEF CallKnows, SaidYes
      <3>5. QED
        BY <1>b, <2>1, <2>5, <3>1, <3>4, CallMoves
    <2>6. CASE /\ p # NoOne /\ call[c].yes /\ Ends(c) /\ UNCHANGED resumed
               /\ proposal' = [proposal EXCEPT ![i].accepted = proposal[i].accepted \cup {p}]
      BY <2>1, <2>4, <2>6, VoteKeepsVotes DEF Voting
    <2>7. QED
      BY <1>4, <2>2, <2>3, <2>5, <2>6 DEF Judge
  <1>5. ASSUME Commit(c) PROVE VoteInv'
    BY <1>5, CommitKeepsVotes
  <1>6. ASSUME Refuse(c) PROVE VoteInv'
    <2>1. Active(c) /\ UNCHANGED <<moved, made, said>>
      BY <1>6 DEF Refuse, Active
    <2>2. QED
      BY <1>6, <1>a, <2>1, SettlesKeepsVotes DEF Refuse
  <1>7. ASSUME Approve(c) PROVE VoteInv'
    <2>1. Active(c) /\ UNCHANGED <<moved, made, said>> /\ call[c].pc = "approving"
      BY <1>7 DEF Approve, Active
    <2>2. moved[proposal[call[c].made].action] # 0
      BY <1>a, <2>1 DEF CallKnows
    <2>3. QED
      BY <1>7, <1>a, <2>1, <2>2, SettlesKeepsVotes DEF Approve, Cancelled
  <1>8. ASSUME CallDies(c) PROVE VoteInv'
    BY <1>8, CallMoves DEF CallDies, Ends, NotHandling, table
  <1>9. QED
    BY <1>1, <1>2, <1>3, <1>4, <1>5, <1>6, <1>7, <1>8 DEF CallStep

LEMMA NextIInv == IInv /\ [Next]_vars => IInv'
  <1> SUFFICES ASSUME IInv, [Next]_vars PROVE VoteInv'
    BY NextTypeOK DEF IInv
  <1> USE DEF IInv
  <1>1. ASSUME NEW w \in Workers, WorkerStep(w) PROVE VoteInv'
    <2>1. CASE UNCHANGED votes
      BY <2>1, VotesUnchanged
    <2>2. CASE Insert(w)
      BY <2>2, InsertKeepsVotes
    <2>3. CASE Bind(w)
      BY <2>3, BindKeepsVotes
    <2>4. QED
      BY <1>1, <2>1, <2>2, <2>3
      DEF WorkerStep, Ask, AskAgain, LookForPending, WorkerDies, votes, table
  <1>2. CASE UNCHANGED votes
    BY <1>2, VotesUnchanged
  <1>3. QED
    BY <1>1, <1>2, CallStepKeepsVotes
    DEF Next, OtherCommit, ChangePhase, Expire, vars, votes, table

LEMMA AlwaysIInv == Spec => []IInv
  <1>1. QED
    BY InitIInv, NextIInv, PTL DEF Spec

-----------------------------------------------------------------------------
\* In any run the proposals, workers and calls keep their shape.
THEOREM TimeConsentTypes == Spec => []TypeOK
  BY AlwaysIInv, PTL DEF IInv

\* However calls race, repeat and die, and whatever the database locks, time
\* moves only through a proposal that every player has answered with yes.
THEOREM ConsentGivenTheorem == Spec => []ConsentGiven
  <1>1. IInv => ConsentGiven
    BY DEF IInv, VoteInv
  <1>2. QED
    BY AlwaysIInv, <1>1, PTL

\* One answer at most resumes the action that asked, with either database.
THEOREM ResumedOnceTheorem == Spec => []ResumedOnce
  <1>1. IInv => ResumedOnce
    BY DEF IInv, VoteInv, Untold
  <1>2. QED
    BY AlwaysIInv, <1>1, PTL

\* With row locks, no proposal is reported as cancelled through which time has
\* moved, and none as approved whose action is not committed.
THEOREM StatusTellsTheTruthTheorem ==
  ASSUME RowLocks
  PROVE  Spec => []StatusTellsTheTruth
  <1>1. IInv => StatusTellsTheTruth
    BY DEF IInv, VoteInv
  <1>2. QED
    BY AlwaysIInv, <1>1, PTL

\* With row locks, an ended proposal stays as it ended: a call writes only the
\* row it holds, which was pending when it took it.
THEOREM EndIsFinalTheorem ==
  ASSUME RowLocks
  PROVE  Spec => EndIsFinal
  <1>1. ASSUME IInv, [Next]_vars, NEW i \in 1..made, proposal[i].status # "pending"
        PROVE  proposal'[i].status = proposal[i].status
    <2> USE DEF IInv
    <2>0. i \in Proposals /\ made \in Nat /\ proposal \in [Proposals -> Record]
      BY <1>1, TimeBoundsAssumption DEF TypeOK, Proposals
    <2>1. ASSUME NEW c \in Calls, CallStep(c)
          PROVE  proposal'[i].status = proposal[i].status
      <3>1. Active(c) => call[c].made # i
        BY <1>1 DEF VoteInv, CallKnows
      <3>2. \A status, accepted : Active(c) /\ Settles(c, status, accepted) =>
              proposal'[i] = proposal[i]
        BY <2>0, <3>1 DEF Settles
      <3>3. CASE UNCHANGED proposal
        BY <3>3
      <3>4. CASE Judge(c)
        <4>1. Active(c)
          BY <3>4 DEF Judge, Active
        <4>2. QED
          BY <2>0, <3>1, <3>2, <3>4, <4>1 DEF Judge
      <3>5. CASE AskEngine(c)
        BY <3>2, <3>5 DEF AskEngine, Active
      <3>6. CASE Refuse(c)
        BY <3>2, <3>6 DEF Refuse, Active
      <3>7. CASE Approve(c)
        BY <3>2, <3>7 DEF Approve, Active
      <3>8. QED
        BY <2>1, <3>3, <3>4, <3>5, <3>6, <3>7
        DEF CallStep, Respond, GetPending, Commit, CallDies, table
    <2>2. ASSUME NEW w \in Workers, WorkerStep(w)
          PROVE  proposal'[i].status = proposal[i].status
      <3>1. CASE Insert(w)
        <4>1. i # made + 1
          BY <2>0
        <4>2. QED
          BY <2>0, <3>1, <4>1 DEF Insert
      <3>2. CASE Bind(w)
        <4>1. \A j \in Proposals : proposal[j].status = "pending" => j # i
          BY <1>1
        <4>2. proposal' # proposal => proposal' = [proposal EXCEPT ![ask[w].made].parent = "plan"]
          BY <3>2 DEF Bind
        <4>3. proposal'[i].status = proposal[i].status
          BY <2>0, <4>2 DEF Record
        <4>4. QED
          BY <4>3
      <3>3. CASE UNCHANGED proposal
        BY <3>3
      <3>4. QED
        BY <2>2, <3>1, <3>2, <3>3
        DEF WorkerStep, Ask, AskAgain, LookForPending, WorkerDies, table
    <2>3. CASE UNCHANGED proposal
      BY <2>3
    <2>4. QED
      BY <1>1, <2>1, <2>2, <2>3
      DEF Next, OtherCommit, ChangePhase, Expire, vars, table
  <1>2. IInv /\ [Next]_vars =>
          [\A i \in 1..made : proposal[i].status # "pending" =>
             proposal'[i].status = proposal[i].status]_vars
    BY <1>1
  <1>3. QED
    BY AlwaysIInv, <1>2, PTL DEF Spec, EndIsFinal
=============================================================================
