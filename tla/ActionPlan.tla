----------------------------- MODULE ActionPlan -----------------------------
(***************************************************************************)
(* The saga of compound actions in one room:                               *)
(* host/application/action_plan_orchestrator.py over its run store         *)
(* (adapters/sqlalchemy_action_plan_store.py, or the in-memory one), with  *)
(* the rule engine below it as the CheckProtocol that Adjudication is      *)
(* shown to implement.                                                     *)
(*                                                                         *)
(* A plan is a row with a version and a worker lease; a room's reservation *)
(* names the plan that may advance.  A worker claims a plan, advances it   *)
(* step by step with one compare-and-swap per write, and may stop between  *)
(* any two of them: a crash, a lost connection, an exception.  Its lease   *)
(* expires whether it is dead or only slow.                                *)
(*                                                                         *)
(* Abstractions.  A run_version is compared for equality only, so a worker *)
(* holds instead whether its copy is still the stored row (`fresh`): each  *)
(* write makes the copies of all others stale.  What an adjudication says  *)
(* is left out; that a step has a frozen one is its status "ready".  The   *)
(* wait for a time consent is not in this module.                          *)
(***************************************************************************)
EXTENDS Naturals

CONSTANTS Plans,          \* parent action ids, each of one compound action
          StepCount,      \* steps of a plan
          Workers,
          MaxPerWindow,   \* policy: max_steps_per_advance
          MaxRepairs,     \* policy: max_repair_attempts
          Sql,            \* the store is the SQL one
          ReservationTtl, \* reservations expire
          LeaseTtl,       \* leases expire under a worker that is alive
          None

ASSUME StepCountAssumption == StepCount \in Nat /\ StepCount >= 2
ASSUME PolicyAssumption == MaxPerWindow \in Nat \ {0} /\ MaxRepairs \in Nat
ASSUME StoreAssumption == {Sql, ReservationTtl, LeaseTtl} \subseteq BOOLEAN
ASSUME NoneAssumption == None \notin Plans

VARIABLES plan,         \* action_plan_runs, by parent action id
          reservation,  \* room_action_reservations: the plan, or None
          expired,      \* the reservation is older than RESERVATION_TTL
          job,          \* what each worker is doing
          stage,        \* the engine: how far the check of a step has come
          effects,      \* the engine: how often a step's effects were committed
          outcome       \* the engine: how a resolved step ended

vars == <<plan, reservation, expired, job, stage, effects, outcome>>

Steps == 1..StepCount
StepIds == Plans \X Steps

Engine == INSTANCE CheckProtocol WITH Actions <- StepIds

-----------------------------------------------------------------------------
Terminal == {"completed", "cancelled", "stopped"}

Reserving == {"active", "checkpointed", "waiting_for_player",
              "needs_clarification", "retryable_failure", "awaiting_narration"}

PlanStatus == Terminal \cup Reserving \cup {"none"}

StepStatus == {"pending", "adjudicating", "ready", "waiting_for_player",
               "completed", "stopped"}

\* idx: the current step; exec: the row holds an execution of that step;
\* cancel: a pending post-roll cancel; repairs: those of the current step;
\* lease: of a worker, "live" or "expired".
Run == [status : PlanStatus, idx : 1..StepCount + 1, step : [Steps -> StepStatus],
        exec : BOOLEAN, lease : {"none", "live", "expired"}, cancel : BOOLEAN,
        repairs : 0..MaxRepairs]

NewRun == [status |-> "active", idx |-> 1, step |-> [i \in Steps |-> "pending"],
           exec |-> FALSE, lease |-> "none", cancel |-> FALSE, repairs |-> 0]

NoRun == [NewRun EXCEPT !.status = "none"]

\* pc: where the worker is in advance_one_window, or between the two calls of
\* request_cancel_after_current; seen, good: the execution it got from the
\* engine; done: steps completed in this window.
Job == [pc : {"idle", "reconcile", "loop", "freezing", "ready", "executed", "release",
              "cancelling"},
        plan : Plans \cup {None}, fresh : BOOLEAN, idx : 1..StepCount + 1,
        seen : Engine!Stages, good : BOOLEAN, done : 0..MaxPerWindow]

\* A step without a check succeeds where it is submitted.
Outcome == {"none", "unchecked", "passed", "failed"}

Idle == [pc |-> "idle", plan |-> None, fresh |-> FALSE, idx |-> 1,
         seen |-> "idle", good |-> FALSE, done |-> 0]

TypeOK ==
  /\ plan \in [Plans -> Run]
  /\ reservation \in Plans \cup {None}
  /\ expired \in BOOLEAN
  /\ job \in [Workers -> Job]
  /\ stage \in [StepIds -> Engine!Stages]
  /\ effects \in [StepIds -> Nat]
  /\ outcome \in [StepIds -> Outcome]

Init ==
  /\ plan = [p \in Plans |-> NoRun]
  /\ reservation = None
  /\ expired = FALSE
  /\ job = [w \in Workers |-> Idle]
  /\ Engine!Init
  /\ outcome = [s \in StepIds |-> "none"]

-----------------------------------------------------------------------------
\* validate_run: what a stored row must satisfy to be readable again.
AllowedCurrent(status) ==
  CASE status = "active" -> {"pending", "adjudicating", "ready"}
    [] status \in {"checkpointed", "retryable_failure"} -> {"pending"}
    [] status = "waiting_for_player" -> {"waiting_for_player"}
    [] status \in {"needs_clarification", "cancelled", "stopped"} -> {"stopped"}
    [] OTHER -> {}

ValidRun(r) ==
  /\ \A i \in Steps : /\ i < r.idx => r.step[i] = "completed"
                      /\ i > r.idx => r.step[i] = "pending"
  /\ IF r.idx > StepCount THEN r.status \in {"awaiting_narration", "completed"}
                          ELSE r.step[r.idx] \in AllowedCurrent(r.status)
  /\ r.status \in Terminal => r.lease = "none"
  /\ r.cancel => r.status = "waiting_for_player"

\* load: a store that finds a row it cannot validate raises.
Readable(p) == plan[p].status # "none" /\ ValidRun(plan[p])

\* load_active_for_room: the plan the room is reserved for, unless that expired.
ActivePlan == IF expired THEN None ELSE reservation

\* create of both stores: the room must be free, or its reservation expired.
RoomIsFree == reservation = None \/ expired

\* claim of both stores: a terminal row is only returned, the plan must hold the
\* reservation, and no other worker a live lease.
MayClaim(p) ==
  /\ plan[p].status \in Reserving
  /\ reservation = p
  /\ plan[p].lease # "live"

\* Mutant of Reserved: both stores delete whatever reservation there is.
ReservedByNone(p, status) ==
  IF status \in Reserving THEN p ELSE None

\* The room's reservation once row p has the given status.  The SQL store then
\* deletes whatever reservation the room has, the other one only that of p.
Reserved(p, status) ==
  IF status \in Reserving THEN p
  ELSE IF Sql \/ reservation = p THEN None ELSE reservation

\* compare_and_swap, after the version was found equal: a plan that should
\* hold the reservation must still hold it, and a write refreshes it.
Write(p, r) ==
  /\ plan[p].status \in Reserving => reservation = p
  /\ plan' = [plan EXCEPT ![p] = r]
  /\ reservation' = Reserved(p, r.status)
  /\ expired' = (expired /\ reservation' # None /\ r.status \notin Reserving)

\* A write makes the copies that workers other than w have of p stale; w goes
\* on as j.
Outdate(p, w, j) ==
  job' = [v \in Workers |->
            IF v = w THEN j
            ELSE [job[v] EXCEPT !.fresh = job[v].fresh /\ job[v].plan # p]]

OutdateAll(p) ==
  job' = [v \in Workers |-> [job[v] EXCEPT !.fresh = job[v].fresh /\ job[v].plan # p]]

\* Mutant of Save: the version is not compared.
SaveBlind(w, r, j) ==
  /\ ValidRun(r)
  /\ Write(job[w].plan, r)
  /\ Outdate(job[w].plan, w, j)

\* Worker w writes its plan, validated, as r, and goes on as j.
Save(w, r, j) ==
  /\ job[w].fresh
  /\ ValidRun(r)
  /\ Write(job[w].plan, r)
  /\ Outdate(job[w].plan, w, j)

\* _replace_steps and _transition: a terminal row keeps no lease.
To(r, status) ==
  [r EXCEPT !.status = status, !.lease = IF status \in Terminal THEN "none" ELSE @]

\* _mark_step_failure: a step that is tried again forgets its execution.
SetStep(r, s) ==
  [r EXCEPT !.step[r.idx] = s, !.exec = IF s = "pending" THEN FALSE ELSE @]

\* _stop_for_validation: the engine refused the step, for the plan to end so.
StopForValidation(r, status) ==
  [To(SetStep(r, "stopped"), status) EXCEPT !.exec = FALSE]

\* _prepare_repair: the step is adjudicated again, with what the engine said.
PrepareRepair(r) == [SetStep(r, "pending") EXCEPT !.repairs = @ + 1]

At(w, pc) == [job[w] EXCEPT !.pc = pc]

\* The row of w's plan, and the engine's id of the step w is at.
Row(w) == plan[job[w].plan]
StepId(w) == <<job[w].plan, job[w].idx>>

EngineUnchanged == UNCHANGED <<stage, effects, outcome>>

\* What the engine says of step s: whether it is resolved and not failed.
Succeeded(s) == stage[s] = "resolved" /\ outcome[s] # "failed"

-----------------------------------------------------------------------------
\* _load_or_create of a new plan, and the store's create.
Create(p) ==
  /\ plan[p].status = "none"
  /\ RoomIsFree
  /\ plan' = [plan EXCEPT ![p] = NewRun]
  /\ reservation' = p
  /\ expired' = FALSE
  /\ UNCHANGED job
  /\ EngineUnchanged

\* What a claim makes of the plan's status.
Claimed(status) ==
  IF status \in {"checkpointed", "retryable_failure"} THEN "active" ELSE status

\* advance_one_window: what it does with a plan of that status.
Entry(status) ==
  CASE status = "active" -> "loop"
    [] status = "waiting_for_player" -> "reconcile"
    [] OTHER -> "release"

\* claim, by a fresh worker.  _advance_loaded looked at the plan before, and
\* starts no window for one that is at its end or awaits its narration; since
\* then another worker may have brought it there.
Claim(w, p) ==
  LET status == Claimed(plan[p].status)
  IN
    /\ job[w].pc = "idle"
    /\ MayClaim(p)
    /\ plan' = [plan EXCEPT ![p].status = status, ![p].lease = "live"]
    /\ expired' = FALSE
    /\ Outdate(p, w, [Idle EXCEPT !.pc = Entry(status), !.plan = p, !.fresh = TRUE,
                                  !.idx = plan[p].idx])
    /\ UNCHANGED reservation
    /\ EngineUnchanged

\* _reconcile_waiting: ask the engine what became of the check.
Reconcile(w) ==
  /\ job[w].pc = "reconcile"
  /\ job' = [job EXCEPT ![w] =
              [@ EXCEPT !.pc = IF stage[StepId(w)] \in {"choosing", "rolled"}
                               THEN "release" ELSE "executed",
                        !.seen = stage[StepId(w)], !.good = Succeeded(StepId(w))]]
  /\ UNCHANGED <<plan, reservation, expired>>
  /\ EngineUnchanged

\* The window is full: the plan is handed back.
Checkpoint(w) ==
  /\ job[w].pc = "loop" /\ job[w].done = MaxPerWindow
  /\ Save(w, [To(Row(w), "checkpointed") EXCEPT !.lease = "none"], Idle)
  /\ EngineUnchanged

\* _freeze_current_adjudication, first half: the step is being adjudicated.
StartFreeze(w) ==
  /\ job[w].pc = "loop" /\ job[w].done < MaxPerWindow
  /\ Row(w).step[job[w].idx] = "pending"
  /\ Save(w, SetStep(Row(w), "adjudicating"), At(w, "freezing"))
  /\ EngineUnchanged

\* A worker finds the step as another one left it.
TakeOverStep(w) ==
  /\ job[w].pc = "loop" /\ job[w].done < MaxPerWindow
  /\ job[w].fresh
  /\ \/ Row(w).step[job[w].idx] = "adjudicating" /\ job' = [job EXCEPT ![w] = At(w, "freezing")]
     \/ Row(w).step[job[w].idx] = "ready" /\ job' = [job EXCEPT ![w] = At(w, "ready")]
  /\ UNCHANGED <<plan, reservation, expired>>
  /\ EngineUnchanged

\* Second half: the adjudication is stored before the engine sees it.
Freeze(w) ==
  /\ job[w].pc = "freezing"
  /\ Save(w, SetStep(Row(w), "ready"), At(w, "ready"))
  /\ EngineUnchanged

\* The adjudicator failed, for now or for good, or a repair changed the
\* meaning of the step.
FreezeFails(w) ==
  /\ job[w].pc = "freezing"
  /\ \/ Save(w, To(SetStep(Row(w), "pending"), "retryable_failure"), At(w, "release"))
     \/ Save(w, To(SetStep(Row(w), "stopped"), "needs_clarification"), At(w, "release"))
  /\ EngineUnchanged

\* executor.submit: the engine takes the step; or it has it, and replays what
\* it first answered, or refuses a changed request and is asked for its status.
\* The worker does not look at its plan before it submits.
SubmitStep(w) ==
  LET s == StepId(w)
      Got(seen, good) == job' = [job EXCEPT ![w] = [@ EXCEPT !.pc = "executed", !.seen = seen,
                                                              !.good = good]]
  IN
    /\ job[w].pc = "ready"
    /\ \/ /\ Engine!Submit(s)
          /\ outcome' = [outcome EXCEPT ![s] = IF stage'[s] = "resolved" THEN "unchecked" ELSE @]
          /\ Got(stage'[s], stage'[s] = "resolved")
       \/ /\ stage[s] # "idle"
          /\ \/ Got(stage[s], Succeeded(s))
             \/ outcome[s] # "unchecked" /\ Got("choosing", FALSE)
          /\ EngineUnchanged
    /\ UNCHANGED <<plan, reservation, expired>>

\* Mutant of CanRepair: one too many.
CanRepairOnceMore(r) == r.repairs <= MaxRepairs

\* The budget for repairs of the current step.
CanRepair(r) == r.repairs < MaxRepairs

\* The engine refused the step and does not have it: the player must choose, a
\* hard rejection, a repair within the budget, none left, or a revision that
\* moved since the adjudication was frozen.
Reject(w) ==
  /\ job[w].pc = "ready"
  /\ stage[StepId(w)] = "idle"
  /\ \/ Save(w, StopForValidation(Row(w), "needs_clarification"), At(w, "release"))
     \/ Save(w, StopForValidation(Row(w), "stopped"), Idle)
     \/ Save(w, To(SetStep(Row(w), "pending"), "retryable_failure"), At(w, "release"))
     \/ CanRepair(Row(w)) /\ Save(w, PrepareRepair(Row(w)), At(w, "loop"))
  /\ EngineUnchanged

\* Mutant of StepFailed: a failed check does not stop the plan.
CancelFailed(seen, good) == seen = "cancelled"

StepFailed(seen, good) == seen = "cancelled" \/ ~good

\* Mutant of CancelsNext: a pending cancel is forgotten.
CancelsNothing(r) == FALSE

\* A pending cancel stops the step after the current one.
CancelsNext(r) == r.cancel /\ r.idx < StepCount

\* Mutant of Stopped: a plan that stops does not consume the cancel.
StoppedOnly(r) == To(SetStep(r, "stopped"), "stopped")

Stopped(r) == [To(SetStep(r, "stopped"), "stopped") EXCEPT !.cancel = FALSE]

\* The row once it has taken over what the engine says of its current step.
Adopted(r, seen, good) ==
  LET with == [r EXCEPT !.exec = TRUE]
      next == [SetStep(r, "completed") EXCEPT !.idx = @ + 1, !.exec = FALSE,
                                              !.cancel = FALSE, !.repairs = 0]
  IN IF seen \in {"choosing", "rolled"} THEN
       To(SetStep(with, "waiting_for_player"), "waiting_for_player")
     ELSE IF seen \in {"resolved", "cancelled"} /\ StepFailed(seen, good) THEN Stopped(with)
     ELSE IF r.idx = StepCount THEN To(next, "awaiting_narration")
     ELSE IF CancelsNext(r) THEN To(SetStep(next, "stopped"), "cancelled")
     ELSE To(next, "active")

\* _apply_execution.
ApplyExecution(w) ==
  LET r == Adopted(Row(w), job[w].seen, job[w].good)
      j == CASE r.status = "active" ->
                  [At(w, "loop") EXCEPT !.idx = r.idx, !.done = @ + 1]
             [] r.status \in Terminal -> Idle
             [] OTHER -> At(w, "release")
  IN
    /\ job[w].pc = "executed"
    /\ Save(w, r, j)
    /\ EngineUnchanged

\* _release_lease, and the end of the window.
ReleaseLease(w) ==
  /\ job[w].pc = "release"
  /\ Save(w, [Row(w) EXCEPT !.lease = "none"], Idle)
  /\ EngineUnchanged

\* The worker ends where it is: a crash, a lost connection, an exception of a
\* call, the conflict its next write would meet.
Abandon(w) ==
  /\ job[w].pc # "idle"
  /\ job' = [job EXCEPT ![w] = Idle]
  /\ UNCHANGED <<plan, reservation, expired>>
  /\ EngineUnchanged

-----------------------------------------------------------------------------
\* cancel_remaining of ActionPlanTurnService, while the player has to choose a
\* skill: that check is cancelled with the plan.
CancelCheck(p) ==
  LET s == <<p, plan[p].idx>>
  IN  /\ plan[p].status = "waiting_for_player" /\ ~plan[p].cancel
      /\ stage[s] = "choosing"
      /\ Engine!Decide(s) /\ stage'[s] = "cancelled"
      /\ UNCHANGED <<plan, reservation, expired, job, outcome>>

\* request_cancel_after_current: the player cancels after a roll.  The request
\* looks at the plan and the check, then stores the intent.
AskCancel(w, p) ==
  /\ job[w].pc = "idle"
  /\ plan[p].status = "waiting_for_player" /\ ~plan[p].cancel
  /\ stage[<<p, plan[p].idx>>] = "rolled"
  /\ job' = [job EXCEPT ![w] = [Idle EXCEPT !.pc = "cancelling", !.plan = p, !.fresh = TRUE,
                                              !.idx = plan[p].idx]]
  /\ UNCHANGED <<plan, reservation, expired>>
  /\ EngineUnchanged

RequestCancel(w) ==
  /\ job[w].pc = "cancelling"
  /\ Save(w, [Row(w) EXCEPT !.cancel = TRUE], Idle)
  /\ EngineUnchanged

\* _recover_pending_post_roll_cancel: whoever meets the intent accepts the roll.
RecoverCancel(p) ==
  LET s == <<p, plan[p].idx>>
  IN  /\ plan[p].cancel /\ Readable(p)
      /\ stage[s] = "rolled"
      /\ Engine!Settle(s)
      /\ \E o \in {"passed", "failed"} : outcome' = [outcome EXCEPT ![s] = o]
      /\ UNCHANGED <<plan, reservation, expired, job>>

\* cancel_remaining, first write: a check that was cancelled is adopted.
AdoptCancelled(p) ==
  /\ plan[p].status = "waiting_for_player"
  /\ stage[<<p, plan[p].idx>>] = "cancelled"
  /\ Write(p, Adopted(plan[p], "cancelled", FALSE))
  /\ OutdateAll(p)
  /\ EngineUnchanged

\* Mutant of Cancellable: a step that was frozen counts as not started.
CancellableReady(p) ==
  LET r == plan[p] IN
    r.idx <= StepCount =>
      \/ r.step[r.idx] \in {"pending", "ready"}
      \/ r.status = "needs_clarification" /\ ~r.exec
      \/ r.step[r.idx] = "stopped" /\ r.exec /\ stage[<<p, r.idx>>] = "cancelled"

\* cancel_remaining, the boundary: the current step was not started, or it
\* ended without a result.
Cancellable(p) ==
  LET r == plan[p] IN
    r.idx <= StepCount =>
      \/ r.step[r.idx] = "pending"
      \/ r.status = "needs_clarification" /\ ~r.exec
      \/ r.step[r.idx] = "stopped" /\ r.exec /\ stage[<<p, r.idx>>] = "cancelled"

\* cancel_remaining, last write; also how start supersedes a plan of the same
\* player that needs clarification or a retry.  Only the in-memory store
\* validates this row.
CancelRemaining(p) ==
  LET r == plan[p]
      cancelled == IF r.idx > StepCount THEN To(r, "cancelled")
                   ELSE To(SetStep(r, "stopped"), "cancelled")
  IN
    /\ r.status \in Reserving \cup {"stopped"}
    /\ Cancellable(p)
    /\ ~Sql => ValidRun(cancelled)
    /\ Write(p, cancelled)
    /\ OutdateAll(p)
    /\ EngineUnchanged

\* mark_narration_persisted: the narration of the active plan is stored.
MarkNarrated(p) ==
  /\ ActivePlan = p
  /\ plan[p].status = "awaiting_narration"
  /\ Write(p, To(plan[p], "completed"))
  /\ OutdateAll(p)
  /\ EngineUnchanged

\* The player decides a pending check, with or without a plan to resume.
PlayerDecides(s) ==
  /\ Engine!Decide(s)
  /\ UNCHANGED <<plan, reservation, expired, job, outcome>>

PlayerSettles(s) ==
  /\ Engine!Settle(s)
  /\ \E o \in {"passed", "failed"} : outcome' = [outcome EXCEPT ![s] = o]
  /\ UNCHANGED <<plan, reservation, expired, job>>

\* Time passes: 30 s for a lease from its claim, 5 min for a reservation from
\* its last write, which is no earlier.
LeaseExpires(p) ==
  /\ plan[p].lease = "live"
  /\ LeaseTtl \/ \A w \in Workers : job[w].plan = p => job[w].pc = "cancelling"
  /\ plan' = [plan EXCEPT ![p].lease = "expired"]
  /\ UNCHANGED <<reservation, expired, job>>
  /\ EngineUnchanged

ReservationExpires ==
  /\ ReservationTtl
  /\ reservation # None /\ ~expired
  /\ plan[reservation].lease # "live"
  /\ expired' = TRUE
  /\ UNCHANGED <<plan, reservation, job>>
  /\ EngineUnchanged

Advance(w) ==
  \/ Reconcile(w)
  \/ Checkpoint(w)
  \/ StartFreeze(w)
  \/ TakeOverStep(w)
  \/ Freeze(w)
  \/ FreezeFails(w)
  \/ SubmitStep(w)
  \/ Reject(w)
  \/ ApplyExecution(w)
  \/ ReleaseLease(w)
  \/ RequestCancel(w)
  \/ Abandon(w)

Next ==
  \/ \E w \in Workers : Advance(w) \/ \E p \in Plans : Claim(w, p) \/ AskCancel(w, p)
  \/ \E p \in Plans :
       \/ Create(p)
       \/ CancelCheck(p)
       \/ RecoverCancel(p)
       \/ AdoptCancelled(p)
       \/ CancelRemaining(p)
       \/ MarkNarrated(p)
       \/ LeaseExpires(p)
  \/ \E s \in StepIds : PlayerDecides(s) \/ PlayerSettles(s)
  \/ ReservationExpires

Spec == Init /\ [][Next]_vars

-----------------------------------------------------------------------------
\* What the narrator is given (build_narration_context).

\* _completed_summaries: the steps before the current one.
CompletedSummaries(r) == {i \in Steps : i < r.idx}

\* _narration_summaries: the current one too, when it stopped with an execution.
NarrationSummaries(r) ==
  CompletedSummaries(r) \cup {i \in Steps : i = r.idx /\ r.step[i] = "stopped" /\ r.exec}

\* How the plan ended, or None while there is nothing to narrate.
Termination(r) ==
  CASE r.status \in {"awaiting_narration", "completed"} -> "resolved"
    [] r.status \in {"needs_clarification", "cancelled", "stopped"} -> r.status
    [] OTHER -> None

\* _from_plan: a plan is narrated once it is at such an end.
Narratable(p) == Termination(plan[p]) # None

-----------------------------------------------------------------------------
\* A step reaches the engine only after every step before it succeeded there
\* (advance_one_window over workers that crash, replay and race).
StepsInOrder ==
  \A p \in Plans, i \in Steps :
    stage[<<p, i>>] # "idle" => \A j \in 1..(i - 1) : Succeeded(<<p, j>>)

\* What a plan says of its steps is true of the engine: a completed step
\* succeeded there, a waiting one was submitted, and a plan that is narrated
\* as resolved succeeded in every step.
PlanTellsTheTruth ==
  \A p \in Plans :
    /\ \A i \in Steps :
         /\ plan[p].step[i] = "completed" => Succeeded(<<p, i>>)
         /\ plan[p].step[i] = "waiting_for_player" => stage[<<p, i>>] # "idle"
    /\ plan[p].status \in {"awaiting_narration", "completed"} =>
         \A i \in Steps : Succeeded(<<p, i>>)

\* _apply_execution never builds a row that its own validation refuses: a plan
\* could not get past such an execution, however often it is resumed.
ExecutionsCanBeAdopted ==
  \A w \in Workers : job[w].pc = "executed" /\ job[w].fresh =>
    ValidRun(Adopted(Row(w), job[w].seen, job[w].good))

\* Whenever a plan is narrated, the narrator is given every effect its steps
\* have had in the engine, that of a failed or cancelled step included.
EffectsReported ==
  \A p \in Plans : Narratable(p) =>
    \A i \in Steps : effects[<<p, i>>] > 0 => i \in NarrationSummaries(plan[p])

\* _validated (action_plan_orchestrator.py, line 1368): an invariant broken by
\* a write fails at the writer, so every stored row can be read again.
RowsReadable == \A p \in Plans : plan[p].status # "none" => ValidRun(plan[p])

\* docs/architecture/issue-208-action-plan.md, line 585: one unfinished plan
\* to a room.
OnePlanPerRoom ==
  \A p, q \in Plans :
    plan[p].status \in Reserving /\ plan[q].status \in Reserving => p = q

\* A plan moves forward only, and what is finished stays finished; the one
\* exception is a stopped plan that is then cancelled (cancel_remaining).
ForwardOnly ==
  [][\A p \in Plans :
       /\ plan'[p].idx >= plan[p].idx
       /\ plan[p].status \in Terminal /\ plan'[p].status # plan[p].status =>
            plan[p].status = "stopped" /\ plan'[p].status = "cancelled"]_vars

\* A cancel that was accepted at a roll holds through crashes and races: it is
\* pending until the plan moves to its end, and neither then nor once the plan
\* is cancelled is a later step submitted.
CancelHolds ==
  [][\A p \in Plans :
       /\ plan[p].cancel /\ ~plan'[p].cancel =>
            plan'[p].status \in Terminal \cup {"awaiting_narration"}
       /\ plan[p].cancel \/ plan[p].status = "cancelled" =>
            \A i \in Steps : i > plan[p].idx => stage'[<<p, i>>] = stage[<<p, i>>]]_vars

\* Only the plan that holds the room's reservation submits steps.
OnlyReservedSubmits ==
  [][\A p \in Plans, i \in Steps :
       stage[<<p, i>>] = "idle" /\ stage'[<<p, i>>] # "idle" => reservation = p]_vars
=============================================================================
