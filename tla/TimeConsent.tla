---------------------------- MODULE TimeConsent ----------------------------
(***************************************************************************)
(* The consent of a whole party to move the shared clock of one room       *)
(* (service/time_advance.py).  The engine refuses to move the time of a    *)
(* party (TIME_ADVANCE_BLOCKED); the adjudication is frozen in a proposal, *)
(* every player answers it, and the last yes submits it to the engine,     *)
(* which commits in a transaction of its own, before the proposal is       *)
(* marked approved.                                                        *)
(*                                                                         *)
(* A call (respond, or get_pending on a join) awaits the database and the  *)
(* engine between reading the proposal and writing it.  With row locks     *)
(* (PostgreSQL) the proposal is locked meanwhile; without (SQLite, the     *)
(* default) only respond calls exclude each other, by a lock of the        *)
(* process.  Calls and workers may die at any await.                       *)
(***************************************************************************)
EXTENDS Naturals, FiniteSets

CONSTANTS Players,       \* the players of the room, who never leave it
          Actions,       \* request ids of step adjudications that move time
          Requester,     \* Actions -> Players
          Workers,       \* host-agent turns that submit the actions
          Calls,         \* calls of respond and get_pending
          NoOne,
          RowLocks,      \* SELECT ... FOR UPDATE locks the row
          MaxProposals,  \* bound on the proposals made (model checking)
          MaxRevision    \* bound on the room's revisions (model checking)

ASSUME PartyAssumption ==
  /\ IsFiniteSet(Players)
  /\ Cardinality(Players) > 1
  /\ Requester \in [Actions -> Players]
  /\ NoOne \notin Players \cup Actions
ASSUME RowLocksAssumption == RowLocks \in BOOLEAN
ASSUME TimeBoundsAssumption == MaxProposals \in Nat \ {0} /\ MaxRevision \in Nat

VARIABLES revision,  \* GameSession.state_version
          inGame,    \* Room.phase = "InGame"
          moved,     \* action -> the proposal it was committed through, or 0
          made,      \* proposals made so far: newest last (created_at)
          proposal,  \* TimeAdvanceProposalRecord
          late,      \* proposals past expires_at
          ask,       \* per worker: the submission it is in
          call,      \* per call: the proposal it is handling
          shown,     \* proposals some client has been sent
          said,      \* history: who answered yes to which proposal
          resumed    \* history: what each respond that ended one resumed

room == <<revision, inGame>>
table == <<made, proposal, late>>
vars == <<room, moved, table, ask, call, shown, said, resumed>>

Proposals == 1..MaxProposals
Status == {"absent", "pending", "approved", "rejected", "expired", "stale"}
Cancelled == {"rejected", "expired", "stale"}

\* parent: parent_action_id, of the step until the plan has bound it.
Record == [action : Actions \cup {NoOne}, source : Nat, status : Status,
           accepted : SUBSET Players, parent : {"step", "plan"}]
Absent == [action |-> NoOne, source |-> 0, status |-> "absent", accepted |-> {},
           parent |-> "step"]

\* blocked: refused by the engine; clear: no other pending proposal was found;
\* waiting: holds an execution awaiting consent to `made`.
Asking == [pc : {"idle", "blocked", "clear", "waiting"}, action : Actions \cup {NoOne},
           source : Nat, made : 0..MaxProposals]
NotAsking == [pc |-> "idle", action |-> NoOne, source |-> 0, made |-> 0]
Waiting(a, i) == [pc |-> "waiting", action |-> a, source |-> 0, made |-> i]

\* voter: the player who responds, NoOne in get_pending; parent: as first read.
Handling == [pc : {"idle", "asking", "judging", "submitting", "approving"},
             made : 0..MaxProposals, voter : Players \cup {NoOne}, yes : BOOLEAN,
             parent : {"step", "plan"}]
NotHandling == [pc |-> "idle", made |-> 0, voter |-> NoOne, yes |-> FALSE,
                parent |-> "step"]

TypeOK ==
  /\ revision \in Nat
  /\ inGame \in BOOLEAN
  /\ made \in 0..MaxProposals
  /\ moved \in [Actions -> 0..made]
  /\ proposal \in [Proposals -> Record]
  /\ \A i \in Proposals : /\ proposal[i].status = "absent" <=> i > made
                          /\ proposal[i].action = NoOne <=> i > made
  /\ late \subseteq 1..made
  /\ ask \in [Workers -> Asking]
  /\ \A w \in Workers : /\ ask[w].pc # "idle" => ask[w].action # NoOne
                        /\ ask[w].pc = "waiting" => ask[w].made \in 1..made
  /\ call \in [Calls -> Handling]
  /\ \A c \in Calls : IF call[c].pc = "idle" THEN call[c] = NotHandling
                      ELSE call[c].made \in 1..made
  /\ shown \subseteq 1..made
  /\ said \subseteq Players \X (1..made)
  /\ resumed \in [Proposals -> [times : Nat, parent : {"none", "step", "plan"}]]

Init ==
  /\ revision = 0
  /\ inGame = TRUE
  /\ moved = [a \in Actions |-> 0]
  /\ made = 0
  /\ proposal = [i \in Proposals |-> Absent]
  /\ late = {}
  /\ ask = [w \in Workers |-> NotAsking]
  /\ call = [c \in Calls |-> NotHandling]
  /\ shown = {}
  /\ said = {}
  /\ resumed = [i \in Proposals |-> [times |-> 0, parent |-> "none"]]

-----------------------------------------------------------------------------
\* _active_record takes the newest of the pending proposals, _record_for_action
\* the newest of the action's.
Pending == {i \in Proposals : proposal[i].status = "pending"}
OfAction(a) == {i \in 1..made : proposal[i].action = a}
IsNewest(i, S) == i \in S /\ \A j \in S : j <= i

\* ConsentAwareAdjudicationEngine.get_status, for the requester: the newest
\* proposal of the action, then the engine.
ActionStatus(a) ==
  LET Latest(S) == \E i \in OfAction(a) : IsNewest(i, OfAction(a)) /\ proposal[i].status \in S
  IN IF Latest({"pending"}) THEN "awaiting_time_consent"
     ELSE IF Latest(Cancelled) THEN "cancelled"
     ELSE IF moved[a] # 0 THEN "resolved" ELSE "not_found"

\* _is_stale (no actor is ever removed from a game).
IsStale(i) == ~inGame \/ proposal[i].source # revision

Unlocked(i) == RowLocks => \A c \in Calls : call[c].made # i

\* _response_lock, in the one process that SQLite serves; several processes
\* may share a database with row locks.
ResponseLockFree == RowLocks \/ \A c \in Calls : call[c].voter = NoOne

-----------------------------------------------------------------------------
\* submit, of an adjudication made at this revision: the worker found no
\* execution of the action, and the engine answers TIME_ADVANCE_BLOCKED.
Ask(w, a) ==
  /\ ask[w].pc = "idle"
  /\ ActionStatus(a) = "not_found"
  /\ ask' = [ask EXCEPT ![w] = [pc |-> "blocked", action |-> a, source |-> revision,
                                made |-> 0]]
  /\ UNCHANGED <<room, moved, table, call, shown, said, resumed>>

\* A worker that resumes the action finds it waiting (get_status).
AskAgain(w, a) ==
  /\ ask[w].pc = "idle"
  /\ ActionStatus(a) = "awaiting_time_consent"
  /\ \E i \in OfAction(a) :
       /\ IsNewest(i, OfAction(a))
       /\ ask' = [ask EXCEPT ![w] = Waiting(a, i)]
  /\ UNCHANGED <<room, moved, table, call, shown, said, resumed>>

\* Mutant of LookForPending: it sees the proposals of its own action only.
LookForPendingOfAction(w) ==
  /\ ask[w].pc = "blocked"
  /\ \/ /\ ask[w].source # revision
        /\ ask' = [ask EXCEPT ![w] = NotAsking]
     \/ /\ ask[w].source = revision
        /\ Pending \cap OfAction(ask[w].action) = {}
        /\ ask' = [ask EXCEPT ![w].pc = "clear"]
     \/ /\ ask[w].source = revision
        /\ \E i \in Pending \cap OfAction(ask[w].action) :
             ask' = [ask EXCEPT ![w] = Waiting(ask[w].action, i)]
  /\ UNCHANGED <<room, moved, table, call, shown, said, resumed>>

\* create_from_adjudication up to the insert: errors unless the adjudication
\* is of this revision and no proposal of another action is pending.
LookForPending(w) ==
  /\ ask[w].pc = "blocked"
  /\ \/ /\ ask[w].source # revision
        /\ ask' = [ask EXCEPT ![w] = NotAsking]
     \/ /\ ask[w].source = revision
        /\ Pending = {}
        /\ ask' = [ask EXCEPT ![w].pc = "clear"]
     \/ /\ ask[w].source = revision
        /\ \E i \in Pending :
             /\ IsNewest(i, Pending)
             /\ Unlocked(i)
             /\ IF proposal[i].action = ask[w].action
                THEN ask' = [ask EXCEPT ![w] = Waiting(ask[w].action, i)]
                ELSE ask' = [ask EXCEPT ![w] = NotAsking]
  /\ UNCHANGED <<room, moved, table, call, shown, said, resumed>>

\* Mutant of Insert: the new proposal takes the id of the last one.
InsertUnderLastId(w) ==
  /\ ask[w].pc = "clear"
  /\ made < MaxProposals
  /\ LET a == ask[w].action IN
       /\ proposal' = [proposal EXCEPT ![made] =
            [action |-> a, source |-> ask[w].source, status |-> "pending",
             accepted |-> {Requester[a]}, parent |-> "step"]]
       /\ said' = said \cup {<<Requester[a], made>>}
       /\ ask' = [ask EXCEPT ![w] = Waiting(a, made)]
  /\ UNCHANGED <<room, moved, made, late, call, shown, resumed>>

\* The insert (no unique key is in its way): the requester has said yes.
Insert(w) ==
  /\ ask[w].pc = "clear"
  /\ made < MaxProposals
  /\ LET i == made + 1
         a == ask[w].action
     IN /\ made' = i
        /\ proposal' = [proposal EXCEPT ![i] =
             [action |-> a, source |-> ask[w].source, status |-> "pending",
              accepted |-> {Requester[a]}, parent |-> "step"]]
        /\ said' = said \cup {<<Requester[a], i>>}
        /\ ask' = [ask EXCEPT ![w] = Waiting(a, i)]
  /\ UNCHANGED <<room, moved, late, call, shown, resumed>>

\* bind_parent_action, when the plan waits; then the proposal is broadcast.
Bind(w) ==
  /\ ask[w].pc = "waiting"
  /\ LET i == ask[w].made IN
       IF proposal[i].status = "pending"
       THEN /\ Unlocked(i)
            /\ proposal' = [proposal EXCEPT ![i].parent = "plan"]
            /\ shown' = shown \cup {i}
       ELSE UNCHANGED <<proposal, shown>>
  /\ ask' = [ask EXCEPT ![w] = NotAsking]
  /\ UNCHANGED <<room, moved, made, late, call, said, resumed>>

WorkerDies(w) ==
  /\ ask[w].pc # "idle"
  /\ ask' = [ask EXCEPT ![w] = NotAsking]
  /\ UNCHANGED <<room, moved, table, call, shown, said, resumed>>

-----------------------------------------------------------------------------
Ends(c) == call' = [call EXCEPT ![c] = NotHandling]

\* The parent action a call knows: the row is read again after the engine.
Parent(c) == IF call[c].pc \in {"submitting", "approving"}
             THEN proposal[call[c].made].parent ELSE call[c].parent

\* The terminal write of a call, which a respond follows by resuming the
\* parent action (ws.py).
Settles(c, status, accepted) ==
  LET i == call[c].made IN
  /\ proposal' = [proposal EXCEPT ![i].status = status, ![i].accepted = accepted]
  /\ resumed' = IF call[c].voter = NoOne THEN resumed
                ELSE [resumed EXCEPT ![i] = [times |-> resumed[i].times + 1,
                                             parent |-> Parent(c)]]
  /\ Ends(c)

\* Mutant of Respond: an ended proposal is handled again.
RespondAnyStatus(c, p, i, yes) ==
  /\ call[c].pc = "idle"
  /\ i \in shown
  /\ Unlocked(i)
  /\ ResponseLockFree
  /\ p \in proposal[i].accepted => yes
  /\ call' = [call EXCEPT ![c] = [pc |-> "asking", made |-> i, voter |-> p, yes |-> yes,
                                  parent |-> proposal[i].parent]]
  /\ said' = IF yes THEN said \cup {<<p, i>>} ELSE said
  /\ UNCHANGED <<room, moved, table, ask, shown, resumed>>

\* respond: behind the lock of the process, to a proposal the player has been
\* sent.  The answer to an ended one changes nothing; no yes is taken back.
Respond(c, p, i, yes) ==
  /\ call[c].pc = "idle"
  /\ i \in shown
  /\ Unlocked(i)
  /\ ResponseLockFree
  /\ proposal[i].status = "pending"
  /\ p \in proposal[i].accepted => yes
  /\ call' = [call EXCEPT ![c] = [pc |-> "asking", made |-> i, voter |-> p, yes |-> yes,
                                  parent |-> proposal[i].parent]]
  /\ said' = IF yes THEN said \cup {<<p, i>>} ELSE said
  /\ UNCHANGED <<room, moved, table, ask, shown, resumed>>

\* get_pending, when a player joins or a plan has begun to wait: its question to the
\* engine and what it makes of the answer are AskEngine and Judge, as after a vote.
GetPending(c) ==
  /\ call[c].pc = "idle"
  /\ \E i \in Pending :
       /\ IsNewest(i, Pending)
       /\ Unlocked(i)
       /\ call' = [call EXCEPT ![c] = [NotHandling EXCEPT !.pc = "asking", !.made = i]]
  /\ UNCHANGED <<room, moved, table, ask, shown, said, resumed>>

\* Mutant of AskEngine: the engine is not asked.
AskEngineNothing(c) ==
  /\ call[c].pc = "asking"
  /\ call' = [call EXCEPT ![c].pc = "judging"]
  /\ UNCHANGED <<room, moved, table, ask, shown, said, resumed>>

\* Both ask the engine first: an execution that a call which died has left
\* there makes the proposal approved.
AskEngine(c) ==
  /\ call[c].pc = "asking"
  /\ IF moved[proposal[call[c].made].action] # 0
     THEN Settles(c, "approved", Players)
     ELSE /\ call' = [call EXCEPT ![c].pc = "judging"]
          /\ UNCHANGED <<proposal, resumed>>
  /\ UNCHANGED <<room, moved, made, late, ask, shown, said>>

\* Mutant of Complete: votes are counted, a repeated one again.
CompleteByCount(i, p) ==
  Cardinality(proposal[i].accepted) + 1 >= Cardinality(Players)

\* The last yes is in.
Complete(i, p) == proposal[i].accepted \cup {p} = Players

\* The proposal is expired, stale, shown to the joining player, rejected,
\* given a vote, or has all of them (then nothing is written yet).
Judge(c) ==
  LET i == call[c].made
      p == call[c].voter
  IN
  /\ call[c].pc = "judging"
  /\ \/ /\ i \in late
        /\ Settles(c, "expired", proposal[i].accepted)
        /\ UNCHANGED shown
     \/ /\ i \notin late
        /\ IsStale(i)
        /\ Settles(c, "stale", proposal[i].accepted)
        /\ UNCHANGED shown
     \/ /\ i \notin late
        /\ ~IsStale(i)
        /\ p = NoOne
        /\ shown' = shown \cup {i}
        /\ Ends(c)
        /\ UNCHANGED <<proposal, resumed>>
     \/ /\ i \notin late
        /\ ~IsStale(i)
        /\ p # NoOne /\ ~call[c].yes
        /\ Settles(c, "rejected", proposal[i].accepted)
        /\ UNCHANGED shown
     \/ /\ i \notin late
        /\ ~IsStale(i)
        /\ p # NoOne /\ call[c].yes
        /\ IF Complete(i, p)
           THEN /\ call' = [call EXCEPT ![c].pc = "submitting"]
                /\ UNCHANGED proposal
           ELSE /\ proposal' = [proposal EXCEPT ![i].accepted = proposal[i].accepted \cup {p}]
                /\ Ends(c)
        /\ UNCHANGED <<shown, resumed>>
  /\ UNCHANGED <<room, moved, made, late, ask, said>>

\* submit_with_time_consent commits, or finds the action committed already.
Commit(c) ==
  LET i == call[c].made
      a == proposal[i].action
  IN
  /\ call[c].pc = "submitting"
  /\ \/ /\ moved[a] = 0
        /\ inGame
        /\ proposal[i].source = revision
        /\ moved' = [moved EXCEPT ![a] = i]
        /\ revision' = revision + 1
     \/ /\ moved[a] # 0
        /\ UNCHANGED <<moved, revision>>
  /\ call' = [call EXCEPT ![c].pc = "approving"]
  /\ UNCHANGED <<inGame, table, ask, shown, said, resumed>>

\* It refuses another revision; the refresh has dropped the last vote.
Refuse(c) ==
  LET i == call[c].made IN
  /\ call[c].pc = "submitting"
  /\ moved[proposal[i].action] = 0
  /\ proposal[i].source # revision
  /\ Settles(c, "stale", proposal[i].accepted)
  /\ UNCHANGED <<room, moved, made, late, ask, shown, said>>

\* The refresh has dropped the last vote here too: the row is approved with
\* the votes that were stored before it.
Approve(c) ==
  /\ call[c].pc = "approving"
  /\ Settles(c, "approved", proposal[call[c].made].accepted)
  /\ UNCHANGED <<room, moved, made, late, ask, shown, said>>

\* A crash or an exception: what was not committed is lost.
CallDies(c) ==
  /\ call[c].pc # "idle"
  /\ Ends(c)
  /\ UNCHANGED <<room, moved, table, ask, shown, said, resumed>>

-----------------------------------------------------------------------------
\* Any other commit of the room.
OtherCommit ==
  /\ inGame
  /\ revision < MaxRevision
  /\ revision' = revision + 1
  /\ UNCHANGED <<inGame, moved, table, ask, call, shown, said, resumed>>

\* The host suspends the room or resumes it.
ChangePhase ==
  /\ inGame' = ~inGame
  /\ UNCHANGED <<revision, moved, table, ask, call, shown, said, resumed>>

\* PROPOSAL_TTL passes (nobody looks at it once the proposal has ended).
Expire(i) ==
  /\ i \in Pending \ late
  /\ late' = late \cup {i}
  /\ UNCHANGED <<room, moved, made, proposal, ask, call, shown, said, resumed>>

WorkerStep(w) ==
  \/ \E a \in Actions : Ask(w, a) \/ AskAgain(w, a)
  \/ LookForPending(w) \/ Insert(w) \/ Bind(w) \/ WorkerDies(w)

CallStep(c) ==
  \/ \E p \in Players, i \in Proposals, yes \in BOOLEAN : Respond(c, p, i, yes)
  \/ GetPending(c) \/ AskEngine(c) \/ Judge(c)
  \/ Commit(c) \/ Refuse(c) \/ Approve(c) \/ CallDies(c)

Next ==
  \/ \E w \in Workers : WorkerStep(w)
  \/ \E c \in Calls : CallStep(c)
  \/ OtherCommit
  \/ ChangePhase
  \/ \E i \in Proposals : Expire(i)

Spec == Init /\ [][Next]_vars

-----------------------------------------------------------------------------
\* Time moves only when every player of the room has answered yes to that very
\* proposal, whatever votes were lost, repeated, late or raced.
ConsentGiven ==
  \A a \in Actions : moved[a] # 0 =>
    /\ proposal[moved[a]].action = a
    /\ \A p \in Players : <<p, moved[a]>> \in said

\* What a plan is told of its action never denies what the engine did: time is
\* not moved through a proposal reported as cancelled, however its calls died
\* between the two commits, nor is one approved without moving it.
StatusTellsTheTruth ==
  \A i \in 1..made :
    /\ proposal[i].status = "approved" => moved[proposal[i].action] # 0
    /\ proposal[i].status \in Cancelled => moved[proposal[i].action] # i

\* The action that asked is resumed by one answer at most (docstring of
\* respond: concurrent last votes do not narrate twice).
ResumedOnce == \A i \in Proposals : resumed[i].times <= 1

\* test_time_advance.py, line 123: no second proposal of another action while
\* one of the same revision is open.
OneOpenProposal ==
  \A i, j \in Pending : proposal[i].source = proposal[j].source => i = j

\* models/engine.py, lines 138-139: the answer that ends a proposal resumes
\* the plan that asked, not its step.
PlanIsResumed == \A i \in Proposals : resumed[i].parent # "step"

\* Comment of respond (line 464): row locks, or the process lock on SQLite,
\* serialise the calls: an ended proposal stays as it ended.
EndIsFinal ==
  [][\A i \in 1..made : proposal[i].status # "pending" =>
       proposal'[i].status = proposal[i].status]_vars
=============================================================================
