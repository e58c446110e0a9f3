---------------------------- MODULE Adjudication ----------------------------
(***************************************************************************)
(* The adjudication commands of one room: engine/adjudication.py with the  *)
(* transactional store under it (adapters/sqlalchemy_engine_store.py).     *)
(*                                                                         *)
(* Every command (submit, decide, decide_post_roll) is one database        *)
(* transaction: a worker loads the runtime and the records the command     *)
(* names, validates, and commits under a compare-and-swap on the room's    *)
(* revision.  Workers interleave, die between the two steps, and receive   *)
(* any command any number of times: clients retry, and a response may be   *)
(* lost.                                                                   *)
(*                                                                         *)
(* A request is abstracted to what the engine tests.  The effects of an    *)
(* action are abstracted to the fact that they were committed, a roll to   *)
(* whether it passed and what luck would have to pay.  The revision counts *)
(* commits; the code's event_sequence grows by the events of each commit,  *)
(* of which there is always at least one.                                  *)
(***************************************************************************)
EXTENDS Naturals, FiniteSetsExt

CONSTANTS Players, Actions,
          Owner,          \* Owner[a]: the player whose actor acts in a
          Clicks,         \* request ids of decide and decide_post_roll
          Workers,
          InitialLuck, MaxCost,
          MaxRevision     \* bound on the commits (model checking)

ASSUME OwnerAssumption == Owner \in [Actions -> Players]
ASSUME LuckAssumption == InitialLuck \in Nat /\ MaxCost \in Nat
ASSUME MaxRevisionAssumption == MaxRevision \in Nat

VARIABLES revision,  \* state_version of the game session
          phase,     \* phase of the game state, and Room.phase with it
          luck,      \* luck of each player's actor
          decision,  \* pending_check_decisions, by action
          run,       \* check_runs, by action
          log,       \* adjudication_command_executions
          effects,   \* history: how often an action's effects were committed
          job        \* the transaction each worker has open

vars == <<revision, phase, luck, decision, run, log, effects, job>>

-----------------------------------------------------------------------------
\* `rev` is the source_revision, `version` the decision or check version a
\* decision is about.  A submit is identified by its action.
Msg == [type : {"submit"}, id : Actions, action : Actions, rev : Nat,
        version : {0}, arg : {"none", "check"}]
       \cup
       [type : {"decide"}, id : Clicks, action : Actions, rev : Nat,
        version : Nat, arg : {"select", "cancel"}]
       \cup
       [type : {"post_roll"}, id : Clicks, action : Actions, rev : Nat,
        version : Nat, arg : {"accept", "luck", "push"}]

Options == {"accept", "luck", "push"}

NoDecision == [status |-> "none", version |-> 0]
NoRun == [status |-> "none", version |-> 0, rolls |-> 0, passed |-> FALSE,
          cost |-> 0, options |-> {}, kind |-> "none"]
NoJob == [rev |-> 0]

Decision == [status : {"none", "awaiting_skill_choice", "rolled", "resolved",
                       "cancelled"},
             version : Nat]
Run == [status : {"none", "awaiting_post_roll_decision", "resolved"},
        version : Nat, rolls : 0..2, passed : BOOLEAN, cost : Nat,
        options : SUBSET Options, kind : Options \cup {"none"}]
Command == [msg : Msg, rev : Nat \ {0},
            status : {"awaiting_skill_choice", "awaiting_post_roll_decision",
                      "resolved", "cancelled"}]

TypeOK ==
  /\ revision \in Nat
  /\ phase \in {"playing", "ended"}
  /\ luck \in [Players -> Nat]
  /\ decision \in [Actions -> Decision]
  /\ run \in [Actions -> Run]
  /\ log \subseteq Command
  /\ effects \in [Actions -> Nat]
  /\ job \in [Workers -> [msg : Msg, rev : Nat] \cup {NoJob}]

Init ==
  /\ revision = 0
  /\ phase = "playing"
  /\ luck = [p \in Players |-> InitialLuck]
  /\ decision = [a \in Actions |-> NoDecision]
  /\ run = [a \in Actions |-> NoRun]
  /\ log = {}
  /\ effects = [a \in Actions |-> 0]
  /\ job = [w \in Workers |-> NoJob]

-----------------------------------------------------------------------------
\* find_adjudication_command: the request id has been committed.
Committed(id) == \E c \in log : c.msg.id = id

\* What a first roll can be: passed, or failed at a price in luck, with a
\* fumble that luck cannot repair.
RollResults == [passed : {TRUE}, fumble : {FALSE}, cost : {0}]
               \cup [passed : {FALSE}, fumble : BOOLEAN, cost : 1..MaxCost]

\* _post_roll_options: the menu is never empty, not even after a success.
PostRollOptions(roll, balance) ==
  {"accept"}
  \cup {o \in {"luck"} : ~roll.passed /\ ~roll.fumble /\ roll.cost <= balance}
  \cup {o \in {"push"} : ~roll.passed}

\* ValidSubmit, ValidDecide, ValidPostRoll: the checks of each command between
\* the replay test and its commit.
ValidSubmit(m) ==
  m.type = "submit" /\ m.id = m.action
    /\ (m.arg = "check" => decision[m.action].status = "none")

\* Mutant of ValidDecide: a settled decision may be decided again.
ValidDecideAnyStatus(m) ==
  m.type = "decide"
    /\ decision[m.action].status # "none"
    /\ decision[m.action].version = m.version

ValidDecide(m) ==
  m.type = "decide"
    /\ decision[m.action].status = "awaiting_skill_choice"
    /\ decision[m.action].version = m.version

\* Mutant of ValidPostRoll: luck is not compared with the balance again.
ValidPostRollOldBalance(m) ==
  m.type = "post_roll"
    /\ run[m.action].status = "awaiting_post_roll_decision"
    /\ run[m.action].version = m.version
    /\ m.arg \in run[m.action].options

\* Luck is checked again when it is spent (_spend_luck): another check of the
\* same actor may have taken it since the menu was made.
ValidPostRoll(m) ==
  m.type = "post_roll"
    /\ run[m.action].status = "awaiting_post_roll_decision"
    /\ run[m.action].version = m.version
    /\ m.arg \in run[m.action].options
    /\ (m.arg = "luck" => luck[Owner[m.action]] >= run[m.action].cost)

Valid(m) ==
  /\ phase = "playing"
  /\ m.rev = revision
  /\ ~Committed(m.id)
  /\ ValidSubmit(m) \/ ValidDecide(m) \/ ValidPostRoll(m)

\* A worker loads and validates a command.  Every rejection, and the replay
\* of a committed request id, leaves the room as it was.
Load(w, m) ==
  /\ job[w] = NoJob
  /\ Valid(m)
  /\ job' = [job EXCEPT ![w] = [msg |-> m, rev |-> revision]]
  /\ UNCHANGED <<revision, phase, luck, decision, run, log, effects>>

-----------------------------------------------------------------------------
\* Mutant of MayCommit: the write does not compare the revision.
MayCommitBlind(w) ==
  /\ job[w] # NoJob
  /\ revision < MaxRevision
  /\ phase = "playing"
  /\ ~Committed(job[w].msg.id)

\* commit_adjudication: the revision and the request id are compared again,
\* and the room must still be in game: the end of the game moves no revision.
MayCommit(w) ==
  /\ job[w] # NoJob
  /\ revision < MaxRevision
  /\ phase = "playing"
  /\ revision = job[w].rev
  /\ ~Committed(job[w].msg.id)

\* The record of the command is part of the same transaction.
Record(w, status) ==
  /\ log' = log \cup {[msg |-> job[w].msg, rev |-> revision + 1, status |-> status]}
  /\ revision' = revision + 1
  /\ job' = [job EXCEPT ![w] = NoJob]

\* _finalize_action: the owned effects of the action.  None of them ends the
\* session: commit_terminal_ending is refused as an effect.
Finalize(a) == effects' = [effects EXCEPT ![a] = @ + 1]

\* submit with check.mode = none.
SubmitUnchecked(w) ==
  LET m == job[w].msg IN
    /\ MayCommit(w)
    /\ m.type = "submit" /\ m.arg = "none"
    /\ Finalize(m.action)
    /\ Record(w, "resolved")
    /\ UNCHANGED <<phase, luck, decision, run>>

\* submit with a check: a pending decision, for the player to choose.
SubmitChecked(w) ==
  LET m == job[w].msg IN
    /\ MayCommit(w)
    /\ m.type = "submit" /\ m.arg = "check"
    /\ decision' = [decision EXCEPT ![m.action] =
                      [status |-> "awaiting_skill_choice", version |-> 1]]
    /\ Record(w, "awaiting_skill_choice")
    /\ UNCHANGED <<phase, luck, run, effects>>

\* decide: cancel.
CancelCheck(w) ==
  LET m == job[w].msg IN
    /\ MayCommit(w)
    /\ m.type = "decide" /\ m.arg = "cancel"
    /\ decision' = [decision EXCEPT ![m.action] =
                      [status |-> "cancelled", version |-> @.version + 1]]
    /\ Record(w, "cancelled")
    /\ UNCHANGED <<phase, luck, run, effects>>

\* decide: select a skill and roll.  The menu is never empty, so the roll
\* always waits for a post-roll decision.
SelectAndRoll(w) ==
  LET m == job[w].msg IN
    /\ MayCommit(w)
    /\ m.type = "decide" /\ m.arg = "select"
    /\ decision' = [decision EXCEPT ![m.action] =
                      [status |-> "rolled", version |-> @.version + 1]]
    /\ \E roll \in RollResults :
         run' = [run EXCEPT ![m.action] =
                  [status |-> "awaiting_post_roll_decision", version |-> 1,
                   rolls |-> 1, passed |-> roll.passed, cost |-> roll.cost,
                   options |-> PostRollOptions(roll, luck[Owner[m.action]]),
                   kind |-> "none"]]
    /\ Record(w, "awaiting_post_roll_decision")
    /\ UNCHANGED <<phase, luck, effects>>

\* The run as it is stored once a post-roll decision settled it.
Settled(r, passed, rolls, kind) ==
  [status |-> "resolved", version |-> r.version + 1, rolls |-> rolls,
   passed |-> passed, cost |-> r.cost, options |-> {}, kind |-> kind]

\* Mutant of Resolve: the run is settled, its decision is left as it was.
ResolveRunOnly(w, passed, rolls) ==
  LET m == job[w].msg IN
    /\ run' = [run EXCEPT ![m.action] = Settled(@, passed, rolls, m.arg)]
    /\ Finalize(m.action)
    /\ Record(w, "resolved")
    /\ UNCHANGED <<phase, decision>>

\* decide_post_roll: the run ends with `passed` after `rolls` rolls, its
\* decision is resolved and the effects of the result are committed.
Resolve(w, passed, rolls) ==
  LET m == job[w].msg IN
    /\ run' = [run EXCEPT ![m.action] = Settled(@, passed, rolls, m.arg)]
    /\ decision' = [decision EXCEPT ![m.action] =
                      [status |-> "resolved", version |-> @.version + 1]]
    /\ Finalize(m.action)
    /\ Record(w, "resolved")
    /\ UNCHANGED phase

\* The player accepts the roll as it stands.
AcceptResult(w) ==
  LET m == job[w].msg IN
    /\ MayCommit(w)
    /\ m.type = "post_roll" /\ m.arg = "accept"
    /\ Resolve(w, run[m.action].passed, run[m.action].rolls)
    /\ UNCHANGED luck

\* The player pays the missing points with luck, and passes.
SpendLuck(w) ==
  LET m == job[w].msg IN
    /\ MayCommit(w)
    /\ m.type = "post_roll" /\ m.arg = "luck"
    /\ luck' = [luck EXCEPT ![Owner[m.action]] = @ - run[m.action].cost]
    /\ Resolve(w, TRUE, run[m.action].rolls)

\* The player pushes: the server rolls a second time and that is final.
Push(w) ==
  LET m == job[w].msg IN
    /\ MayCommit(w)
    /\ m.type = "post_roll" /\ m.arg = "push"
    /\ \E passed \in BOOLEAN : Resolve(w, passed, 2)
    /\ UNCHANGED luck

\* The host ends the game, with checks pending or not (end_game): the game
\* state is ended and the room completed in one transaction, which leaves the
\* revision alone.
EndGame ==
  /\ phase = "playing"
  /\ phase' = "ended"
  /\ UNCHANGED <<revision, luck, decision, run, log, effects, job>>

\* The transaction is rolled back: the revision moved on, the request id was
\* taken, the session ended, the connection was lost or the worker died.
Rollback(w) ==
  /\ job[w] # NoJob
  /\ job' = [job EXCEPT ![w] = NoJob]
  /\ UNCHANGED <<revision, phase, luck, decision, run, log, effects>>

\* Messages that can be accepted now: of the current revision, about the
\* current versions.  All others are rejected whatever they say.
Requests ==
  [type : {"submit"}, id : Actions, action : Actions, rev : {revision},
   version : {0}, arg : {"none", "check"}]
  \cup
  UNION {[type : {"decide"}, id : Clicks, action : {a}, rev : {revision},
          version : {decision[a].version}, arg : {"select", "cancel"}]
         \cup
         [type : {"post_roll"}, id : Clicks, action : {a}, rev : {revision},
          version : {run[a].version}, arg : Options] : a \in Actions}

Commit(w) ==
  \/ SubmitUnchecked(w)
  \/ SubmitChecked(w)
  \/ CancelCheck(w)
  \/ SelectAndRoll(w)
  \/ AcceptResult(w)
  \/ SpendLuck(w)
  \/ Push(w)

Next ==
  \/ EndGame
  \/ \E w \in Workers :
       \/ \E m \in Requests : Load(w, m)
       \/ Commit(w)
       \/ Rollback(w)

Spec == Init /\ [][Next]_vars

-----------------------------------------------------------------------------
\* get_status and recover_action answer with the latest command of an action.
CommandsOf(a) == {c \in log : c.msg.action = a}

Latest(a) == CHOOSE c \in CommandsOf(a) : \A d \in CommandsOf(a) : d.rev <= c.rev

Status(a) == IF CommandsOf(a) = {} THEN "not_submitted" ELSE Latest(a).status

\* How far an action has come, by its rows and not by its commands.
Stage(a) ==
  IF run[a].status = "awaiting_post_roll_decision" THEN "rolled"
  ELSE IF decision[a].status = "awaiting_skill_choice" THEN "choosing"
  ELSE IF decision[a].status = "cancelled" THEN "cancelled"
  ELSE IF effects[a] > 0 THEN "resolved" ELSE "idle"

\* The action state machine the engine promises (docs/rule-engine-v3.md).
Protocol == INSTANCE CheckProtocol WITH stage <- [a \in Actions |-> Stage(a)]

\* Whatever is retried, replayed, interleaved or lost, what becomes of an
\* action is a run of the command state machine: its effects are committed by
\* the step that resolves it, once, and nothing follows.
ImplementsProtocol == Protocol!Spec

\* The decision, the roll and the effects of an action agree in every
\* committed state: a roll without a rolled decision, or effects without a
\* settled roll, are not left behind by any order of commits.
RowsAgree ==
  \A a \in Actions :
    /\ (decision[a].status = "rolled") <=> (run[a].status = "awaiting_post_roll_decision")
    /\ (decision[a].status = "resolved") <=> (run[a].status = "resolved")
    /\ decision[a].status # "none" =>
         effects[a] = IF decision[a].status = "resolved" THEN 1 ELSE 0

\* What a reconnecting client is told about an action (its latest command) is
\* what the rows say: no pending dialog is shown for a settled action, and
\* none is missing for an open one.
StatusIsTheRows ==
  \A a \in Actions :
    Status(a) = CASE Stage(a) = "idle" -> "not_submitted"
                  [] Stage(a) = "choosing" -> "awaiting_skill_choice"
                  [] Stage(a) = "rolled" -> "awaiting_post_roll_decision"
                  [] OTHER -> Stage(a)

\* Every commit changed the state it was validated against: commands are
\* serialised by revision, one commit to a revision, one to a request id.
CommittedOnWhatItSaw ==
  /\ \A c \in log : c.rev = c.msg.rev + 1 /\ c.rev <= revision
  /\ \A c, d \in log : c.rev = d.rev \/ c.msg.id = d.msg.id => c = d

\* Luck that left a balance paid for a roll that stands as passed, each roll
\* once, and the balance is what is left: two open checks of one actor cannot
\* both spend the same points.
LuckIsAccountedFor ==
  \A p \in Players :
    LET paid == {a \in Actions : Owner[a] = p /\ run[a].kind = "luck"} IN
      /\ luck[p] + MapThenSumSet(LAMBDA a : run[a].cost, paid) = InitialLuck
      /\ \A a \in paid : run[a].passed /\ run[a].rolls = 1

\* The first roll is authoritative: no step replaces it except the one push,
\* and a settled run never changes again, nor anything once the session ended.
RollsStand ==
  [][\A a \in Actions :
       /\ run[a].status = "resolved" => run'[a] = run[a]
       /\ run[a].status # "none" =>
            /\ run'[a].rolls > run[a].rolls => run'[a].kind = "push"
            /\ run'[a].passed # run[a].passed => run'[a].kind \in {"push", "luck"}
       /\ phase = "ended" => run'[a] = run[a] /\ effects'[a] = effects[a]]_vars
=============================================================================
