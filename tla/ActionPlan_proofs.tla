-------------------------- MODULE ActionPlan_proofs --------------------------
(* Compound actions for any number of plans, steps and workers, with or     *)
(* without expiring leases and reservations, over both stores.              *)
EXTENDS ActionPlan, TLAPS

\* A row as it may be stored: readable while it can still be claimed, and what it
\* says of its steps is so in the engine.
RowFits(p, r) ==
  /\ r.status \in Reserving => ValidRun(r)
  /\ r.status \in Terminal => r.lease = "none"
  /\ r.status = "none" => r.idx = 1 /\ r.step = [i \in Steps |-> "pending"]
  /\ r.cancel => r.status = "waiting_for_player"
  /\ r.status \in {"awaiting_narration", "completed"} => r.idx > StepCount
  /\ \A i \in Steps :
       /\ i < r.idx => Succeeded(<<p, i>>)
       /\ i >= r.idx => r.step[i] # "completed"
       /\ i > r.idx => stage[<<p, i>>] = "idle"
       /\ r.step[i] = "waiting_for_player" => stage[<<p, i>>] # "idle"

\* What a worker is at goes with the row it has a copy of, while that is the stored
\* one; and what the engine told it stays true when it is not.
CopyFits(j, r) ==
  /\ r.status \in Reserving
  /\ j.pc # "release" => j.idx = r.idx
  /\ j.pc \in {"loop", "freezing", "ready"} => r.status = "active"
  /\ j.pc = "freezing" => r.step[r.idx] = "adjudicating"
  /\ j.pc = "ready" => r.step[r.idx] = "ready"
  /\ j.pc \in {"reconcile", "cancelling"} => r.status = "waiting_for_player"
  /\ j.pc = "executed" => r.status \in {"active", "waiting_for_player"}

JobFits(j, rows) ==
  /\ j.pc = "idle" => ~j.fresh
  /\ j.pc # "idle" => j.plan \in Plans /\ j.idx <= rows[j.plan].idx
  /\ j.pc \in {"reconcile", "freezing", "ready", "executed"}
     => j.idx \in Steps /\ j.done < MaxPerWindow
  /\ j.pc \in {"reconcile", "executed"} => stage[<<j.plan, j.idx>>] # "idle"
  /\ j.pc = "executed" => /\ j.seen # "idle"
                          /\ j.good => Succeeded(<<j.plan, j.idx>>)
  /\ j.fresh => CopyFits(j, rows[j.plan])

\* A row without an execution of its current step is of a step that the engine has
\* not taken, but for one that is ready or waits.
RowTells(p, r) ==
  r.idx \in Steps =>
    /\ r.step[r.idx] \in {"pending", "adjudicating", "ready"} => r.exec = FALSE
    /\ r.exec = FALSE /\ r.step[r.idx] \in {"pending", "adjudicating", "stopped"} =>
         stage[<<p, r.idx>>] = "idle"
    /\ r.status \in {"cancelled", "stopped"} => r.step[r.idx] = "stopped"

\* How a row may move on: what a plan has reached or ended with stays, and a cancel
\* stays pending until the plan comes to its end.
RowMoves(r, t) ==
  /\ t.idx >= r.idx
  /\ r.status \in Terminal /\ t.status # r.status =>
       r.status = "stopped" /\ t.status = "cancelled"
  /\ r.cancel /\ ~t.cancel => t.status \in Terminal \cup {"awaiting_narration"}

RowsMove == \A p \in Plans : RowMoves(plan[p], plan'[p])

PlanInv ==
  /\ TypeOK
  /\ \A p \in Plans : RowFits(p, plan[p])
  /\ \A w \in Workers : JobFits(job[w], plan)

-----------------------------------------------------------------------------
(* Rows and the ways they are written.                                     *)

\* A row in another status.
LEMMA ToFields ==
  ASSUME NEW r \in Run, NEW status \in PlanStatus
  PROVE  LET t == To(r, status)
         IN  /\ t \in Run /\ t.status = status /\ t.idx = r.idx /\ t.step = r.step
             /\ status \in Terminal => t.lease = "none"
             /\ status \notin Terminal => t.lease = r.lease
             /\ t.cancel = r.cancel /\ t.exec = r.exec /\ t.repairs = r.repairs
  BY DEF To, Run, PlanStatus, Terminal, Reserving

\* A row whose current step has another status.
LEMMA SetStepFields ==
  ASSUME NEW r \in Run, r.idx \in Steps, NEW s \in StepStatus
  PROVE  /\ SetStep(r, s) \in Run
         /\ SetStep(r, s).status = r.status /\ SetStep(r, s).idx = r.idx
         /\ SetStep(r, s).lease = r.lease /\ SetStep(r, s).cancel = r.cancel
         /\ SetStep(r, s).repairs = r.repairs
         /\ s = "pending" => SetStep(r, s).exec = FALSE
         /\ s # "pending" => SetStep(r, s).exec = r.exec
         /\ SetStep(r, s).step = [r.step EXCEPT ![r.idx] = s]
  BY DEF SetStep, Run

\* A row that is still at work is at one of its steps.
LEMMA AtAStep ==
  ASSUME NEW r \in Run, ValidRun(r), r.status \in {"active", "waiting_for_player"}
  PROVE  r.idx \in Steps
  BY StepCountAssumption DEF ValidRun, Run, Steps

\* A worker with a fresh copy, and the row it is of.
LEMMA FreshFits ==
  ASSUME PlanInv, NEW w \in Workers, job[w].fresh
  PROVE  /\ job[w] \in Job /\ job[w].pc # "idle" /\ job[w].plan \in Plans
         /\ Row(w) \in Run /\ RowFits(job[w].plan, Row(w)) /\ CopyFits(job[w], Row(w))
         /\ ValidRun(Row(w))
  <1>1. job[w] \in Job /\ JobFits(job[w], plan)
    BY DEF PlanInv, TypeOK
  <1>2. job[w].pc # "idle" /\ job[w].plan \in Plans /\ CopyFits(job[w], Row(w))
    BY <1>1 DEF JobFits, Row
  <1>3. Row(w) \in Run /\ RowFits(job[w].plan, Row(w))
    BY <1>2 DEF PlanInv, TypeOK, Row
  <1>4. QED
    BY <1>1, <1>2, <1>3 DEF CopyFits, RowFits

\* A write of one row, by a worker or by a request: the others' copies are stale.
Outdated(v, p) == [job[v] EXCEPT !.fresh = job[v].fresh /\ job[v].plan # p]

\* A copy that became stale is a copy.
LEMMA OutdatedIsJob ==
  ASSUME NEW v \in Workers, job[v] \in Job, NEW p
  PROVE  Outdated(v, p) \in Job
  BY DEF Outdated, Job

\* Who writes one row that fits, and leaves the other workers stale, keeps the invariant.
LEMMA WriteKeeps ==
  ASSUME PlanInv, EngineUnchanged, NEW p \in Plans, NEW r \in Run, RowFits(p, r),
         RowMoves(plan[p], r),
         plan' = [plan EXCEPT ![p] = r], reservation' \in Plans \cup {None}, expired' \in BOOLEAN,
         job' \in [Workers -> Job],
         \A v \in Workers : job'[v] = Outdated(v, p) \/ JobFits(job'[v], plan')
  PROVE  PlanInv' /\ RowsMove
  <1>0. RowsMove
    <2> SUFFICES ASSUME NEW q \in Plans PROVE RowMoves(plan[q], plan'[q])
      BY DEF RowsMove
    <2>1. plan'[q] = IF q = p THEN r ELSE plan[q]
      BY DEF PlanInv, TypeOK
    <2>2. RowMoves(plan[q], plan[q])
      BY DEF PlanInv, TypeOK, Run, RowMoves
    <2>3. QED
      BY <2>1, <2>2
  <1>1. plan' \in [Plans -> Run] /\ (\A q \in Plans : plan'[q].idx >= plan[q].idx)
    BY <1>0 DEF PlanInv, TypeOK, RowsMove, RowMoves
  <1>2. TypeOK'
    BY <1>1 DEF PlanInv, TypeOK, EngineUnchanged
  <1>3. ASSUME NEW q \in Plans PROVE RowFits(q, plan[q])'
    <2>1. RowFits(q, plan'[q])
      BY DEF PlanInv, TypeOK
    <2>2. QED
      BY <2>1 DEF RowFits, Succeeded, EngineUnchanged
  <1>4. ASSUME NEW v \in Workers PROVE JobFits(job[v], plan)'
    <2>1. JobFits(job[v], plan) /\ job[v] \in Job
      BY DEF PlanInv, TypeOK
    <2>2. ASSUME job'[v] = Outdated(v, p) PROVE JobFits(job'[v], plan')
      <3>1. /\ job'[v].pc = job[v].pc /\ job'[v].plan = job[v].plan /\ job'[v].idx = job[v].idx
            /\ job'[v].seen = job[v].seen /\ job'[v].good = job[v].good
            /\ job'[v].done = job[v].done
            /\ job'[v].fresh = (job[v].fresh /\ job[v].plan # p)
        BY <2>1, <2>2 DEF Outdated, Job
      <3>2. job[v].pc # "idle" => job[v].idx <= plan'[job[v].plan].idx
        BY <1>1, <2>1 DEF JobFits, Job, Run, Steps, PlanInv, TypeOK
      <3>3. job'[v].fresh => job[v].plan \in Plans /\ plan'[job[v].plan] = plan[job[v].plan]
        BY <2>1, <3>1 DEF JobFits, PlanInv, TypeOK
      <3>4. job'[v].fresh => CopyFits(job'[v], plan'[job'[v].plan])
        BY <2>1, <3>1, <3>3 DEF JobFits, CopyFits
      <3>5. QED
        BY <2>1, <3>1, <3>2, <3>4 DEF JobFits
    <2>3. JobFits(job'[v], plan')
      BY <2>2
    <2>4. QED
      BY <2>3 DEF JobFits, Succeeded, EngineUnchanged
  <1>5. QED
    BY <1>0, <1>2, <1>3, <1>4 DEF PlanInv

\* The same of a worker that writes its plan and goes on.
LEMMA SaveKeeps ==
  ASSUME PlanInv, EngineUnchanged, NEW w \in Workers, NEW r \in Run, NEW j \in Job, Save(w, r, j),
         RowFits(job[w].plan, r), RowMoves(Row(w), r),
         JobFits(j, [plan EXCEPT ![job[w].plan] = r])
  PROVE  PlanInv' /\ RowsMove
  <1> DEFINE p == job[w].plan
  <1>1. p \in Plans
    BY FreshFits DEF Save
  <1>2. plan' = [plan EXCEPT ![p] = r] /\ reservation' \in Plans \cup {None} /\ expired' \in BOOLEAN
    BY <1>1 DEF Save, Write, Reserved, PlanInv, TypeOK
  <1>3. job' \in [Workers -> Job]
    BY OutdatedIsJob DEF Save, Outdate, Outdated, PlanInv, TypeOK
  <1>4. \A v \in Workers : job'[v] = Outdated(v, p) \/ JobFits(job'[v], plan')
    BY <1>2 DEF Save, Outdate, Outdated
  <1>5. QED
    BY <1>1, <1>2, <1>3, <1>4, WriteKeeps DEF Row

\* The same for a request, which has no copy.
LEMMA RequestKeeps ==
  ASSUME PlanInv, EngineUnchanged, NEW p \in Plans, NEW r \in Run, Write(p, r), OutdateAll(p),
         RowFits(p, r), RowMoves(plan[p], r)
  PROVE  PlanInv' /\ RowsMove
  <1>1. plan' = [plan EXCEPT ![p] = r] /\ reservation' \in Plans \cup {None} /\ expired' \in BOOLEAN
    BY DEF Write, Reserved, PlanInv, TypeOK
  <1>2. job' \in [Workers -> Job]
    BY OutdatedIsJob DEF OutdateAll, Outdated, PlanInv, TypeOK
  <1>3. \A v \in Workers : job'[v] = Outdated(v, p)
    BY DEF OutdateAll, Outdated
  <1>4. QED
    BY <1>1, <1>2, <1>3, WriteKeeps

\* A worker that stops writes nothing.
LEMMA IdleFits ==
  ASSUME NEW rows
  PROVE  Idle \in Job /\ JobFits(Idle, rows)
  BY StepCountAssumption, PolicyAssumption DEF Idle, Job, JobFits, Engine!Stages

-----------------------------------------------------------------------------
(* What the engine does to one step.                                       *)

EngineStep(s) ==
  /\ stage' \in [StepIds -> Engine!Stages] /\ effects' \in [StepIds -> Nat]
  /\ outcome' \in [StepIds -> Outcome]
  /\ \A t \in StepIds : t # s => stage'[t] = stage[t] /\ outcome'[t] = outcome[t]
  /\ stage'[s] # "idle" /\ stage[s] \notin {"resolved", "cancelled"}

\* A step of the engine at a plan's step that is not behind the current one.
LEMMA EngineStepKeeps ==
  ASSUME PlanInv, NEW q \in Plans, NEW i \in Steps, EngineStep(<<q, i>>), i <= plan[q].idx,
         UNCHANGED <<plan, reservation, expired>>,
         job' \in [Workers -> Job],
         \A w \in Workers : job'[w] = job[w] \/ JobFits(job[w], plan)'
  PROVE  PlanInv'
  <1> DEFINE s == <<q, i>>
  <1>0. \A t \in StepIds : /\ Succeeded(t) => Succeeded(t)'
                           /\ stage[t] # "idle" => stage'[t] # "idle"
    BY DEF EngineStep, Succeeded
  <1>1. TypeOK'
    BY DEF EngineStep, PlanInv, TypeOK
  <1>2. ASSUME NEW p \in Plans PROVE RowFits(p, plan[p])'
    <2>1. RowFits(p, plan[p])
      BY DEF PlanInv
    <2>2. ASSUME NEW k \in Steps, k > plan[p].idx PROVE stage'[<<p, k>>] = "idle"
      <3>1. <<p, k>> # s
        BY <2>2 DEF Steps, PlanInv, TypeOK, Run
      <3>2. QED
        BY <2>1, <2>2, <3>1 DEF EngineStep, RowFits, StepIds
    <2>3. \A k \in Steps : /\ k < plan[p].idx => Succeeded(<<p, k>>)'
                           /\ plan[p].step[k] = "waiting_for_player" => stage'[<<p, k>>] # "idle"
      BY <1>0, <2>1 DEF RowFits, StepIds
    <2>4. QED
      BY <2>1, <2>2, <2>3 DEF RowFits
  <1>3. ASSUME NEW w \in Workers PROVE JobFits(job[w], plan)'
    <2>1. JobFits(job[w], plan)
      BY DEF PlanInv
    <2>2. CASE job'[w] = job[w]
      BY <1>0, <2>1, <2>2 DEF JobFits, StepIds, CopyFits
    <2>3. QED
      BY <2>2
  <1>4. QED
    BY <1>1, <1>2, <1>3 DEF PlanInv

-----------------------------------------------------------------------------
(* The steps of a worker.                                                  *)

\* A worker that goes on to another step.
LEMMA AtFields ==
  ASSUME NEW w \in Workers, job[w] \in Job,
         NEW pc \in {"loop", "freezing", "ready", "executed", "release"}
  PROVE  At(w, pc) \in Job /\ At(w, pc) = [job[w] EXCEPT !.pc = pc]
  BY DEF At, Job

\* A step that fails, and what then becomes of the plan.
LEMMA SetStepToFields ==
  ASSUME NEW r \in Run, r.idx \in Steps, NEW s \in StepStatus, NEW status \in PlanStatus
  PROVE  /\ To(SetStep(r, s), status) \in Run
         /\ To(SetStep(r, s), status).status = status
         /\ To(SetStep(r, s), status).idx = r.idx
         /\ To(SetStep(r, s), status).cancel = r.cancel
         /\ To(SetStep(r, s), status).step = [r.step EXCEPT ![r.idx] = s]
         /\ status \in Terminal => To(SetStep(r, s), status).lease = "none"
         /\ status \notin Terminal => To(SetStep(r, s), status).lease = r.lease
  <1> DEFINE q == SetStep(r, s)
  <1>1. /\ q \in Run /\ q.idx = r.idx /\ q.cancel = r.cancel /\ q.lease = r.lease
        /\ q.step = [r.step EXCEPT ![r.idx] = s]
        /\ s = "pending" => q.exec = FALSE
        /\ s # "pending" => q.exec = r.exec
        /\ q.repairs = r.repairs
    BY SetStepFields
  <1> HIDE DEF q
  <1>2. QED
    BY <1>1, ToFields DEF q

\* Only a step that begins anew forgets its execution.
LEMMA SetStepToExec ==
  ASSUME NEW r \in Run, r.idx \in Steps, NEW s \in StepStatus, NEW status \in PlanStatus
  PROVE  /\ s = "pending" => ~To(SetStep(r, s), status).exec
         /\ s # "pending" => (To(SetStep(r, s), status).exec <=> r.exec)
  <1> DEFINE q == SetStep(r, s)
  <1>1. /\ q \in Run /\ (s = "pending" => q.exec = FALSE) /\ (s # "pending" => q.exec = r.exec)
    BY SetStepFields
  <1> HIDE DEF q
  <1>2. To(q, status).exec = q.exec
    BY <1>1, ToFields
  <1>3. QED
    BY <1>1, <1>2 DEF q

\* A worker of an active plan writes what became of the step it is at.
LEMMA StepSaved ==
  ASSUME PlanInv, EngineUnchanged, NEW w \in Workers, job[w].pc \in {"loop", "freezing", "ready"},
         NEW r \in Run, NEW j, Save(w, r, j),
         r.idx = Row(w).idx, r.cancel = Row(w).cancel,
         r.status \notin {"none", "awaiting_narration", "completed"},
         r.status \in Terminal => r.lease = "none",
         NEW s, s \notin {"completed", "waiting_for_player"},
         r.step = [Row(w).step EXCEPT ![Row(w).idx] = s],
         NEW pc \in {"loop", "freezing", "ready", "release"},
         \/ j = Idle
         \/ /\ j = At(w, pc) /\ CopyFits(j, r)
            /\ pc \in {"freezing", "ready"} => job[w].done < MaxPerWindow
  PROVE  PlanInv' /\ RowsMove
  <1> DEFINE p == job[w].plan
  <1>1. /\ Row(w) \in Run /\ RowFits(p, Row(w)) /\ ValidRun(r) /\ ValidRun(Row(w)) /\ p \in Plans
        /\ Row(w).status = "active" /\ job[w] \in Job /\ job[w].fresh /\ job[w].idx = Row(w).idx
    BY FreshFits DEF Save, CopyFits
  <1>2. Row(w).idx \in Steps
    BY <1>1, AtAStep
  <1>3. RowFits(p, r) /\ RowMoves(Row(w), r)
    BY <1>1, <1>2 DEF RowFits, RowMoves, Run, Terminal
  <1>4. j \in Job /\ JobFits(j, [plan EXCEPT ![p] = r])
    <2>1. CASE j = Idle
      BY <2>1, IdleFits
    <2>2. CASE j = At(w, pc)
      <3>1. j \in Job /\ j = [job[w] EXCEPT !.pc = pc]
        BY <1>1, <2>2, AtFields
      <3>2. [plan EXCEPT ![p] = r][p] = r
        BY <1>1 DEF PlanInv, TypeOK
      <3>3. j # Idle
        BY <3>1 DEF Idle, Job
      <3>4. CopyFits(j, r) /\ (pc \in {"freezing", "ready"} => job[w].done < MaxPerWindow)
        BY <3>3
      <3>5. QED
        BY <1>1, <1>2, <3>1, <3>2, <3>4 DEF JobFits, Job, Run, Steps
    <2>3. QED
      BY <2>1, <2>2
  <1>5. QED
    BY <1>1, <1>3, <1>4, SaveKeeps

\* A full window: the plan is handed back.
LEMMA CheckpointKeeps ==
  ASSUME PlanInv, NEW w \in Workers, Checkpoint(w)
  PROVE  PlanInv' /\ RowsMove
  <1> DEFINE r == [To(Row(w), "checkpointed") EXCEPT !.lease = "none"]
  <1>1. Save(w, r, Idle) /\ EngineUnchanged /\ job[w].pc = "loop"
    BY DEF Checkpoint
  <1>2. /\ Row(w) \in Run /\ RowFits(job[w].plan, Row(w)) /\ ValidRun(r)
        /\ Row(w).status = "active"
    BY <1>1, FreshFits DEF Save, CopyFits
  <1>3. /\ r \in Run /\ r.status = "checkpointed" /\ r.idx = Row(w).idx /\ r.step = Row(w).step
        /\ r.cancel = Row(w).cancel
    BY <1>2, ToFields DEF Run, PlanStatus, Reserving
  <1>4. RowFits(job[w].plan, r) /\ RowMoves(Row(w), r)
    BY <1>2, <1>3 DEF RowFits, RowMoves, Run, Terminal
  <1>5. Idle \in Job /\ JobFits(Idle, [plan EXCEPT ![job[w].plan] = r])
    BY IdleFits
  <1> HIDE DEF r
  <1>6. QED
    BY <1>1, <1>3, <1>4, <1>5, SaveKeeps

\* The step is marked before it is adjudicated.
LEMMA StartFreezeKeeps ==
  ASSUME PlanInv, NEW w \in Workers, StartFreeze(w)
  PROVE  PlanInv' /\ RowsMove
  <1> DEFINE r == SetStep(Row(w), "adjudicating")
  <1>1. /\ Save(w, r, At(w, "freezing")) /\ EngineUnchanged
        /\ job[w].pc = "loop" /\ job[w].done < MaxPerWindow
    BY DEF StartFreeze
  <1>2. /\ Row(w) \in Run /\ ValidRun(Row(w)) /\ job[w] \in Job
        /\ Row(w).status = "active" /\ job[w].idx = Row(w).idx
    BY <1>1, FreshFits DEF Save, CopyFits
  <1>3. Row(w).idx \in Steps
    BY <1>2, AtAStep
  <1>4. /\ r \in Run /\ r.status = "active" /\ r.idx = Row(w).idx /\ r.cancel = Row(w).cancel
        /\ r.step = [Row(w).step EXCEPT ![Row(w).idx] = "adjudicating"]
    BY <1>2, <1>3, SetStepFields DEF StepStatus
  <1>5. CopyFits(At(w, "freezing"), r)
    BY <1>2, <1>3, <1>4, AtFields DEF CopyFits, Reserving, Run, Job
  <1>6. r.status \notin Terminal \cup {"none", "awaiting_narration", "completed"}
    BY <1>4 DEF Terminal
  <1> HIDE DEF r
  <1>7. QED
    BY <1>1, <1>4, <1>5, <1>6, StepSaved

\* The adjudication is stored with the step.
LEMMA FreezeKeeps ==
  ASSUME PlanInv, NEW w \in Workers, Freeze(w)
  PROVE  PlanInv' /\ RowsMove
  <1> DEFINE r == SetStep(Row(w), "ready")
  <1>1. Save(w, r, At(w, "ready")) /\ EngineUnchanged /\ job[w].pc = "freezing"
    BY DEF Freeze
  <1>2. /\ Row(w) \in Run /\ ValidRun(Row(w)) /\ job[w] \in Job /\ job[w].done < MaxPerWindow
        /\ Row(w).status = "active" /\ job[w].idx = Row(w).idx
    BY <1>1, FreshFits DEF Save, CopyFits, PlanInv, JobFits
  <1>3. Row(w).idx \in Steps
    BY <1>2, AtAStep
  <1>4. /\ r \in Run /\ r.status = "active" /\ r.idx = Row(w).idx /\ r.cancel = Row(w).cancel
        /\ r.step = [Row(w).step EXCEPT ![Row(w).idx] = "ready"]
    BY <1>2, <1>3, SetStepFields DEF StepStatus
  <1>5. CopyFits(At(w, "ready"), r)
    BY <1>2, <1>3, <1>4, AtFields DEF CopyFits, Reserving, Run, Job
  <1>6. QED
    BY <1>1, <1>2, <1>4, <1>5, StepSaved DEF Terminal

\* The adjudicator fails, for now or for good.
LEMMA FreezeFailsKeeps ==
  ASSUME PlanInv, NEW w \in Workers, FreezeFails(w)
  PROVE  PlanInv' /\ RowsMove
  <1>1. PICK s \in {"pending", "stopped"}, status \in {"retryable_failure", "needs_clarification"} :
          Save(w, To(SetStep(Row(w), s), status), At(w, "release"))
    BY DEF FreezeFails
  <1> DEFINE r == To(SetStep(Row(w), s), status)
  <1>2. job[w].pc = "freezing" /\ EngineUnchanged
    BY DEF FreezeFails
  <1>3. /\ Row(w) \in Run /\ ValidRun(Row(w)) /\ job[w] \in Job
        /\ Row(w).status = "active" /\ job[w].idx = Row(w).idx
    BY <1>1, <1>2, FreshFits DEF Save, CopyFits
  <1>4. Row(w).idx \in Steps
    BY <1>3, AtAStep
  <1>5. s \in StepStatus /\ status \in PlanStatus
    BY DEF StepStatus, PlanStatus, Reserving
  <1>6. /\ r \in Run /\ r.status = status /\ r.idx = Row(w).idx /\ r.cancel = Row(w).cancel
        /\ r.step = [Row(w).step EXCEPT ![Row(w).idx] = s]
    BY <1>3, <1>4, <1>5, SetStepToFields
  <1>7. CopyFits(At(w, "release"), r)
    BY <1>3, <1>6, AtFields DEF CopyFits, Reserving, Job
  <1>8. QED
    BY <1>1, <1>2, <1>6, <1>7, StepSaved DEF Terminal

\* The engine refuses the step before it begins: repaired, stopped, or retried later.
LEMMA RejectKeeps ==
  ASSUME PlanInv, NEW w \in Workers, Reject(w)
  PROVE  PlanInv' /\ RowsMove
  <1> DEFINE row == Row(w)
  <1>1. job[w].pc = "ready" /\ EngineUnchanged /\ job[w].fresh
    BY DEF Reject, Save
  <1>2. /\ row \in Run /\ ValidRun(row) /\ job[w] \in Job
        /\ row.status = "active" /\ job[w].idx = row.idx
    BY <1>1, FreshFits DEF CopyFits
  <1>3. row.idx \in Steps
    BY <1>2, AtAStep
  <1>4. ASSUME NEW status \in {"needs_clarification", "stopped"}, NEW j,
               Save(w, StopForValidation(row, status), j),
               j = Idle \/ (j = At(w, "release") /\ status = "needs_clarification")
        PROVE  PlanInv' /\ RowsMove
    <2> DEFINE r == StopForValidation(row, status)
    <2>1. status \in PlanStatus /\ "stopped" \in StepStatus
      BY DEF StepStatus, PlanStatus, Reserving, Terminal
    <2>2. /\ r \in Run /\ r.status = status /\ r.idx = row.idx /\ r.cancel = row.cancel
          /\ r.step = [row.step EXCEPT ![row.idx] = "stopped"]
          /\ status \in Terminal => r.lease = "none"
      <3> DEFINE t == To(SetStep(row, "stopped"), status)
      <3>1. /\ t \in Run /\ t.status = status /\ t.idx = row.idx /\ t.cancel = row.cancel
            /\ t.step = [row.step EXCEPT ![row.idx] = "stopped"]
            /\ status \in Terminal => t.lease = "none"
        BY <1>2, <1>3, <2>1, SetStepToFields
      <3>2. r = [t EXCEPT !.exec = FALSE]
        BY DEF StopForValidation
      <3> HIDE DEF t, r
      <3>3. QED
        BY <3>1, <3>2 DEF Run
    <2>3. status = "needs_clarification" => CopyFits(At(w, "release"), r)
      BY <1>2, <2>2, AtFields DEF CopyFits, Reserving, Job
    <2>4. CASE j = Idle
      BY <1>1, <1>4, <2>2, <2>4, StepSaved
    <2>5. CASE j = At(w, "release") /\ status = "needs_clarification"
      BY <1>1, <1>4, <2>2, <2>3, <2>5, StepSaved
    <2>6. QED
      BY <1>4, <2>4, <2>5
  <1>5. ASSUME Save(w, To(SetStep(row, "pending"), "retryable_failure"), At(w, "release"))
        PROVE  PlanInv' /\ RowsMove
    <2> DEFINE r == To(SetStep(row, "pending"), "retryable_failure")
    <2>1. "retryable_failure" \in PlanStatus /\ "pending" \in StepStatus
      BY DEF StepStatus, PlanStatus, Reserving
    <2>2. /\ r \in Run /\ r.status = "retryable_failure" /\ r.idx = row.idx /\ r.cancel = row.cancel
          /\ r.step = [row.step EXCEPT ![row.idx] = "pending"]
      BY <1>2, <1>3, <2>1, SetStepToFields
    <2>3. CopyFits(At(w, "release"), r)
      BY <1>2, <2>2, AtFields DEF CopyFits, Reserving, Job
    <2>4. QED
      BY <1>1, <1>5, <2>2, <2>3, StepSaved DEF Terminal
  <1>6. ASSUME CanRepair(row), Save(w, PrepareRepair(row), At(w, "loop"))
        PROVE  PlanInv' /\ RowsMove
    <2> DEFINE r == PrepareRepair(row)
    <2>1. /\ r \in Run /\ r.status = "active" /\ r.idx = row.idx /\ r.cancel = row.cancel
          /\ r.step = [row.step EXCEPT ![row.idx] = "pending"]
      <3>1. "pending" \in StepStatus
        BY DEF StepStatus
      <3>2. row.repairs + 1 \in 0 .. MaxRepairs
        BY <1>2, <1>6, PolicyAssumption DEF CanRepair, Run
      <3>3. QED
        BY <1>2, <1>3, <3>1, <3>2, SetStepFields, ZenonT(40) DEF PrepareRepair, Run
    <2>2. CopyFits(At(w, "loop"), r)
      BY <1>2, <2>1, AtFields DEF CopyFits, Reserving, Job
    <2>3. QED
      BY <1>1, <1>6, <2>1, <2>2, StepSaved DEF Terminal
  <1>7. QED
    BY <1>4, <1>5, <1>6 DEF Reject

-----------------------------------------------------------------------------
(* Adopting what the engine said.                                          *)

\* The row with its current step completed: what a resumed, a cancelled and a
\* finished plan start from.
LEMMA CompletedFields ==
  ASSUME NEW r \in Run, r.idx \in Steps
  PROVE  LET n == [SetStep(r, "completed") EXCEPT !.idx = @ + 1, !.exec = FALSE,
                                                  !.cancel = FALSE, !.repairs = 0]
         IN  /\ n \in Run /\ n.idx = r.idx + 1 /\ n.lease = r.lease /\ n.cancel = FALSE
             /\ n.exec = FALSE
             /\ n.status = r.status /\ n.step = [r.step EXCEPT ![r.idx] = "completed"]
  <1> DEFINE q == SetStep(r, "completed")
             n == [q EXCEPT !.idx = @ + 1, !.exec = FALSE, !.cancel = FALSE, !.repairs = 0]
  <1>1. /\ q \in Run /\ q.idx = r.idx /\ q.lease = r.lease /\ q.status = r.status
        /\ q.step = [r.step EXCEPT ![r.idx] = "completed"]
    BY SetStepFields DEF StepStatus
  <1>2. r.idx + 1 \in 1 .. StepCount + 1 /\ 0 \in 0 .. MaxRepairs
    BY StepCountAssumption, PolicyAssumption DEF Steps
  <1> HIDE DEF q
  <1>3. /\ n \in Run /\ n.idx = r.idx + 1 /\ n.lease = r.lease /\ n.cancel = FALSE /\ n.exec = FALSE
        /\ n.status = r.status /\ n.step = [r.step EXCEPT ![r.idx] = "completed"]
    BY <1>1, <1>2 DEF Run
  <1>4. QED
    BY <1>3 DEF q

\* The row once the step waits, or has stopped the plan, or is completed.
LEMMA WaitingFields ==
  ASSUME NEW r \in Run, r.idx \in Steps
  PROVE  LET a == To(SetStep([r EXCEPT !.exec = TRUE], "waiting_for_player"), "waiting_for_player")
         IN  /\ a \in Run /\ a.status = "waiting_for_player" /\ a.idx = r.idx
             /\ a.step = [r.step EXCEPT ![r.idx] = "waiting_for_player"] /\ a.cancel = r.cancel
             /\ a.lease = r.lease
  <1> DEFINE q == [r EXCEPT !.exec = TRUE]
  <1>1. q \in Run /\ q.idx = r.idx /\ q.step = r.step /\ q.cancel = r.cancel /\ q.lease = r.lease
    BY DEF Run
  <1>2. /\ "waiting_for_player" \in StepStatus /\ "waiting_for_player" \in PlanStatus
        /\ "waiting_for_player" \notin Terminal
    BY DEF StepStatus, PlanStatus, Reserving, Terminal
  <1> HIDE DEF q
  <1>3. /\ To(SetStep(q, "waiting_for_player"), "waiting_for_player") \in Run
        /\ To(SetStep(q, "waiting_for_player"), "waiting_for_player").status = "waiting_for_player"
        /\ To(SetStep(q, "waiting_for_player"), "waiting_for_player").idx = q.idx
        /\ To(SetStep(q, "waiting_for_player"), "waiting_for_player").step
             = [q.step EXCEPT ![q.idx] = "waiting_for_player"]
        /\ To(SetStep(q, "waiting_for_player"), "waiting_for_player").cancel = q.cancel
        /\ To(SetStep(q, "waiting_for_player"), "waiting_for_player").lease = q.lease
    BY <1>1, <1>2, SetStepToFields
  <1>4. QED
    BY <1>1, <1>3 DEF q

\* A plan that stops at its step.
LEMMA StoppedFields ==
  ASSUME NEW r \in Run, r.idx \in Steps
  PROVE  LET a == Stopped([r EXCEPT !.exec = TRUE])
         IN  /\ a \in Run /\ a.status = "stopped" /\ a.idx = r.idx /\ a.cancel = FALSE
             /\ a.lease = "none" /\ a.step = [r.step EXCEPT ![r.idx] = "stopped"]
             /\ a.exec
  <1> DEFINE q == [r EXCEPT !.exec = TRUE]
             t == To(SetStep(q, "stopped"), "stopped")
  <1>1. q \in Run /\ q.idx = r.idx /\ q.step = r.step /\ q.exec = TRUE
    BY DEF Run
  <1>2. "stopped" \in StepStatus /\ "stopped" \in PlanStatus /\ "stopped" \in Terminal
    BY DEF StepStatus, PlanStatus, Terminal
  <1> HIDE DEF q
  <1>3. /\ t \in Run /\ t.status = "stopped" /\ t.idx = q.idx /\ t.lease = "none"
        /\ t.step = [q.step EXCEPT ![q.idx] = "stopped"]
    BY <1>1, <1>2, SetStepToFields
  <1>6. t.exec
    BY <1>1, <1>2, SetStepToExec
  <1>4. Stopped(q) = [t EXCEPT !.cancel = FALSE]
    BY DEF Stopped
  <1> HIDE DEF t
  <1>5. QED
    BY <1>1, <1>3, <1>4, <1>6 DEF Run, q

\* Whatever the engine says of the step a plan is at, the plan can take it over,
\* and says the truth then.
LEMMA AdoptedFits ==
  ASSUME NEW p \in Plans, NEW r \in Run, RowFits(p, r), ValidRun(r),
         r.status \in {"active", "waiting_for_player"}, stage[<<p, r.idx>>] # "idle",
         NEW seen \in Engine!Stages \ {"idle"}, NEW good \in BOOLEAN,
         good => Succeeded(<<p, r.idx>>)
  PROVE  LET a == Adopted(r, seen, good)
         IN  /\ a \in Run /\ ValidRun(a) /\ RowFits(p, a)
             /\ a.status \in Terminal \cup {"active", "waiting_for_player", "awaiting_narration"}
             /\ a.idx = r.idx \/ a.idx = r.idx + 1
             /\ a.status = "active" => a.idx = r.idx + 1 /\ a.idx \in Steps
             /\ RowTells(p, a) /\ (a.status \notin Terminal => a.lease = r.lease)
             /\ r.cancel => a.cancel \/ a.status \in Terminal \cup {"awaiting_narration"}
  <1> DEFINE a == Adopted(r, seen, good)
             with == [r EXCEPT !.exec = TRUE]
             next == [SetStep(r, "completed") EXCEPT !.idx = @ + 1, !.exec = FALSE,
                                                     !.cancel = FALSE, !.repairs = 0]
  <1>1. r.idx \in Steps
    BY AtAStep
  <1>2. \A i \in Steps : /\ i < r.idx => Succeeded(<<p, i>>) /\ r.step[i] = "completed"
                         /\ i > r.idx => stage[<<p, i>>] = "idle" /\ r.step[i] = "pending"
    BY DEF RowFits, ValidRun
  <1>3. CASE seen \in {"choosing", "rolled"}
    <2>1. a = To(SetStep(with, "waiting_for_player"), "waiting_for_player")
      BY <1>3 DEF Adopted
    <2>2. /\ a \in Run /\ a.status = "waiting_for_player" /\ a.idx = r.idx
          /\ a.step = [r.step EXCEPT ![r.idx] = "waiting_for_player"] /\ a.cancel = r.cancel
          /\ a.lease = r.lease
      BY <1>1, <2>1, WaitingFields
    <2> HIDE DEF a
    <2>3. ValidRun(a)
      BY <1>1, <1>2, <2>2, ZenonT(40) DEF ValidRun, AllowedCurrent, Run, Terminal, Steps
    <2>4. RowFits(p, a)
      BY <1>1, <1>2, <2>2, <2>3 DEF RowFits, Run, Terminal
    <2>5. RowTells(p, a)
      BY <1>1, <2>2 DEF RowTells, Run
    <2>6. QED
      BY <2>2, <2>3, <2>4, <2>5 DEF a
  <1>4. CASE seen \in {"resolved", "cancelled"} /\ StepFailed(seen, good)
    <2>1. a = Stopped(with)
      BY <1>4 DEF Adopted
    <2>2. /\ a \in Run /\ a.status = "stopped" /\ a.idx = r.idx /\ a.cancel = FALSE
          /\ a.lease = "none"
          /\ a.step = [r.step EXCEPT ![r.idx] = "stopped"]
      BY <1>1, <2>1, StoppedFields
    <2>7. a.exec
      BY <1>1, <2>1, StoppedFields
    <2> HIDE DEF a
    <2>3. ValidRun(a)
      BY <1>1, <1>2, <2>2, ZenonT(40) DEF ValidRun, AllowedCurrent, Run, Terminal, Steps
    <2>4. RowFits(p, a)
      BY <1>1, <1>2, <2>2, <2>3 DEF RowFits, Run, Terminal
    <2>5. RowTells(p, a)
      BY <1>1, <2>2, <2>7 DEF RowTells, Run
    <2>6. QED
      BY <2>2, <2>3, <2>4, <2>5 DEF a, Terminal
  <1>5. CASE seen \in {"resolved", "cancelled"} /\ ~StepFailed(seen, good)
    <2>1. Succeeded(<<p, r.idx>>)
      BY <1>5 DEF StepFailed
    <2>2. /\ next \in Run /\ next.idx = r.idx + 1 /\ next.lease = r.lease
          /\ next.cancel = FALSE /\ next.exec = FALSE /\ next.status = r.status
          /\ next.step = [r.step EXCEPT ![r.idx] = "completed"]
      BY <1>1, CompletedFields
    <2>3. a = IF r.idx = StepCount THEN To(next, "awaiting_narration")
              ELSE IF CancelsNext(r) THEN To(SetStep(next, "stopped"), "cancelled")
              ELSE To(next, "active")
      BY <1>5 DEF Adopted
    <2>4. next.idx \in Steps <=> r.idx # StepCount
      BY <1>1, <2>2, StepCountAssumption DEF Steps
    <2> HIDE DEF next, a
    <2>9. \A i \in Steps : /\ i < next.idx => Succeeded(<<p, i>>)
                           /\ i < next.idx => next.step[i] = "completed"
                           /\ i >= next.idx => next.step[i] = "pending" /\ stage[<<p, i>>] = "idle"
      <3> TAKE i \in Steps
      <3>1. /\ i < r.idx \/ i = r.idx \/ i > r.idx
            /\ i < next.idx <=> i < r.idx \/ i = r.idx
            /\ i >= next.idx <=> i > r.idx
        BY <1>1, <2>2, StepCountAssumption DEF Steps
      <3>2. next.step[i] = IF i = r.idx THEN "completed" ELSE r.step[i]
        BY <1>1, <2>2 DEF Run
      <3>3. QED
        BY <1>2, <2>1, <3>1, <3>2
    <2>5. CASE r.idx = StepCount
      <3>1. "awaiting_narration" \in PlanStatus /\ "awaiting_narration" \notin Terminal
        BY DEF PlanStatus, Reserving, Terminal
      <3>2. /\ a \in Run /\ a.status = "awaiting_narration" /\ a.idx = next.idx
            /\ a.step = next.step /\ a.cancel = next.cancel /\ a.exec = next.exec
            /\ a.lease = next.lease
        BY <2>2, <2>3, <2>5, <3>1, ToFields
      <3>3. a.idx > StepCount /\ a.cancel = FALSE
        BY <2>2, <2>5, <3>2, StepCountAssumption
      <3>4. ValidRun(a)
        BY <1>1, <1>2, <2>2, <2>5, <3>2, <3>3 DEF ValidRun, Run, Terminal, Steps
      <3>5. RowFits(p, a)
        BY <2>2, <2>9, <3>2, <3>3, <3>4, StepCountAssumption DEF RowFits, Run, Terminal, Steps
      <3>6. RowTells(p, a)
        BY <3>3, StepCountAssumption DEF RowTells, Steps
      <3>7. QED
        BY <2>2, <3>2, <3>4, <3>5, <3>6 DEF a
    <2>6. CASE r.idx # StepCount /\ CancelsNext(r)
      <3>1. "cancelled" \in PlanStatus /\ "stopped" \in StepStatus /\ "cancelled" \in Terminal
        BY DEF PlanStatus, StepStatus, Terminal
      <3>2. /\ a \in Run /\ a.status = "cancelled" /\ a.idx = next.idx /\ a.lease = "none"
            /\ a.step = [next.step EXCEPT ![next.idx] = "stopped"] /\ a.cancel = next.cancel
        BY <2>2, <2>3, <2>4, <2>6, <3>1, SetStepToFields
      <3>3. ValidRun(a)
        <4>1. a.idx \in Steps /\ a.idx <= StepCount /\ a.step[a.idx] = "stopped"
          BY <2>2, <2>4, <2>6, <3>2, StepCountAssumption DEF Run, Steps
        <4>2. \A i \in Steps : /\ i < a.idx => a.step[i] = "completed"
                               /\ i > a.idx => a.step[i] = "pending"
          <5> TAKE i \in Steps
          <5>1. i # a.idx => a.step[i] = next.step[i]
            BY <2>2, <3>2 DEF Run
          <5>2. i \in Nat /\ a.idx \in Nat /\ a.idx = next.idx
            BY <3>2, <4>1, StepCountAssumption DEF Steps
          <5>3. /\ i < next.idx => next.step[i] = "completed"
                /\ i >= next.idx => next.step[i] = "pending"
            BY <2>9
          <5>4. QED
            BY <5>1, <5>2, <5>3
        <4>3. a.cancel = FALSE
          BY <2>2, <3>2
        <4>4. QED
          BY <3>2, <4>1, <4>2, <4>3, StepCountAssumption DEF ValidRun, AllowedCurrent, Steps
      <3>4. RowFits(p, a)
        BY <2>2, <2>4, <2>6, <2>9, <3>2, <3>3, StepCountAssumption DEF RowFits, Run, Reserving,
           Steps
      <3>5. RowTells(p, a)
        BY <2>2, <2>4, <2>6, <2>9, <3>2, StepCountAssumption DEF RowTells, Run, Steps
      <3>6. QED
        BY <2>2, <3>1, <3>2, <3>3, <3>4, <3>5 DEF a
    <2>7. CASE r.idx # StepCount /\ ~CancelsNext(r)
      <3>1. "active" \in PlanStatus /\ "active" \notin Terminal
        BY DEF PlanStatus, Reserving, Terminal
      <3>2. /\ a \in Run /\ a.status = "active" /\ a.idx = next.idx
            /\ a.step = next.step /\ a.cancel = next.cancel /\ a.exec = next.exec
            /\ a.lease = next.lease
        BY <2>2, <2>3, <2>7, <3>1, ToFields
      <3>3. ValidRun(a)
        BY <2>2, <2>4, <2>7, <2>9, <3>2, StepCountAssumption
        DEF ValidRun, AllowedCurrent, Run, Terminal, Steps
      <3>4. RowFits(p, a)
        BY <2>2, <2>4, <2>7, <2>9, <3>2, <3>3, StepCountAssumption DEF RowFits, Run, Terminal, Steps
      <3>5. ~r.cancel
        BY <1>1, <2>7, StepCountAssumption DEF CancelsNext, Steps
      <3>6. RowTells(p, a)
        BY <2>2, <2>4, <2>7, <2>9, <3>2, StepCountAssumption DEF RowTells, Run, Steps
      <3>7. QED
        BY <2>2, <2>4, <2>7, <3>1, <3>2, <3>3, <3>4, <3>5, <3>6 DEF a
    <2>8. QED
      BY <2>5, <2>6, <2>7
  <1>6. QED
    BY <1>3, <1>4, <1>5 DEF Engine!Stages

-----------------------------------------------------------------------------
(* Steps in which nothing is written, and the other writes of a worker.    *)

\* A worker goes on, or a request does, and neither the rows nor the engine change.
LEMMA JobStepKeeps ==
  ASSUME PlanInv, EngineUnchanged, UNCHANGED <<plan, reservation, expired>>,
         NEW w \in Workers, NEW j \in Job, JobFits(j, plan), job' = [job EXCEPT ![w] = j]
  PROVE  PlanInv'
  <1>1. TypeOK'
    BY DEF PlanInv, TypeOK, EngineUnchanged
  <1>2. ASSUME NEW p \in Plans PROVE RowFits(p, plan[p])'
    BY DEF PlanInv, RowFits, Succeeded, EngineUnchanged
  <1>3. ASSUME NEW v \in Workers PROVE JobFits(job[v], plan)'
    <2>1. JobFits(job'[v], plan)
      BY DEF PlanInv, TypeOK
    <2>2. QED
      BY <2>1 DEF JobFits, Succeeded, EngineUnchanged
  <1>4. QED
    BY <1>1, <1>2, <1>3 DEF PlanInv

\* The execution of a step is read from the engine.
LEMMA ReconcileKeeps ==
  ASSUME PlanInv, NEW w \in Workers, Reconcile(w)
  PROVE  PlanInv'
  <1> DEFINE s == StepId(w)
             pc == IF stage[s] \in {"choosing", "rolled"} THEN "release" ELSE "executed"
             j == [job[w] EXCEPT !.pc = pc, !.seen = stage[s], !.good = Succeeded(s)]
  <1>1. job[w] \in Job /\ JobFits(job[w], plan) /\ job[w].pc = "reconcile"
    BY DEF PlanInv, TypeOK, Reconcile
  <1>2. s = <<job[w].plan, job[w].idx>> /\ s \in StepIds /\ stage[s] # "idle"
    BY <1>1 DEF JobFits, StepId, StepIds
  <1>3. stage[s] \in Engine!Stages /\ Succeeded(s) \in BOOLEAN
    BY <1>2 DEF PlanInv, TypeOK, Succeeded
  <1> HIDE DEF s
  <1>4. pc \in {"release", "executed"}
    OBVIOUS
  <1> HIDE DEF pc
  <1>5. /\ j \in Job /\ j.plan = job[w].plan /\ j.idx = job[w].idx /\ j.done = job[w].done
        /\ j.fresh = job[w].fresh /\ j.pc = pc /\ j.seen = stage[s] /\ j.good = Succeeded(s)
    BY <1>1, <1>3, <1>4 DEF Job
  <1>6. job' = [job EXCEPT ![w] = j]
    BY DEF Reconcile, pc, s
  <1> HIDE DEF j
  <1>7. j.fresh => CopyFits(j, plan[j.plan])
    BY <1>1, <1>4, <1>5 DEF JobFits, CopyFits
  <1>8. JobFits(j, plan)
    BY <1>1, <1>2, <1>4, <1>5, <1>7 DEF JobFits
  <1>9. QED
    BY <1>5, <1>6, <1>8, JobStepKeeps DEF Reconcile

\* A worker takes up a step where another one left it.
LEMMA TakeOverStepKeeps ==
  ASSUME PlanInv, NEW w \in Workers, TakeOverStep(w)
  PROVE  PlanInv'
  <1>1. PICK pc \in {"freezing", "ready"} :
          /\ job' = [job EXCEPT ![w] = At(w, pc)]
          /\ Row(w).step[job[w].idx] = IF pc = "ready" THEN "ready" ELSE "adjudicating"
    BY DEF TakeOverStep
  <1>2. job[w].pc = "loop" /\ job[w].done < MaxPerWindow /\ job[w].fresh
    BY DEF TakeOverStep
  <1>3. /\ job[w] \in Job /\ JobFits(job[w], plan) /\ CopyFits(job[w], Row(w)) /\ Row(w) \in Run
        /\ Row(w).status = "active" /\ ValidRun(Row(w)) /\ job[w].idx = Row(w).idx
    BY <1>2, FreshFits DEF PlanInv, CopyFits
  <1>4. job[w].idx \in Steps
    BY <1>3, AtAStep
  <1>5. At(w, pc) \in Job /\ At(w, pc) = [job[w] EXCEPT !.pc = pc]
    BY <1>3, AtFields
  <1>6. CopyFits(At(w, pc), Row(w))
    BY <1>1, <1>2, <1>3, <1>4, <1>5 DEF CopyFits, Job
  <1>7. JobFits(At(w, pc), plan)
    BY <1>2, <1>3, <1>4, <1>5, <1>6 DEF JobFits, Job, Row
  <1>8. QED
    BY <1>1, <1>5, <1>7, JobStepKeeps DEF TakeOverStep

\* A worker ends where it is, and its copy with it.
LEMMA AbandonKeeps ==
  ASSUME PlanInv, NEW w \in Workers, Abandon(w)
  PROVE  PlanInv'
  BY IdleFits, JobStepKeeps DEF Abandon

\* A request to cancel looks at the plan and the check.
LEMMA AskCancelKeeps ==
  ASSUME PlanInv, NEW w \in Workers, NEW p \in Plans, AskCancel(w, p)
  PROVE  PlanInv'
  <1> DEFINE j == [Idle EXCEPT !.pc = "cancelling", !.plan = p, !.fresh = TRUE,
                               !.idx = plan[p].idx]
  <1>1. plan[p] \in Run
    BY DEF PlanInv, TypeOK
  <1>2. /\ j \in Job /\ j.pc = "cancelling" /\ j.plan = p /\ j.fresh /\ j.idx = plan[p].idx
    BY <1>1, IdleFits DEF Job, Idle, Run
  <1>3. job' = [job EXCEPT ![w] = j] /\ plan[p].status = "waiting_for_player"
    BY DEF AskCancel
  <1> HIDE DEF j
  <1>4. CopyFits(j, plan[p])
    BY <1>2, <1>3 DEF CopyFits, Reserving
  <1>5. JobFits(j, plan)
    BY <1>1, <1>2, <1>4 DEF JobFits, Run
  <1>6. QED
    BY <1>2, <1>3, <1>5, JobStepKeeps DEF AskCancel

\* A worker gives its lease back.
LEMMA ReleaseLeaseKeeps ==
  ASSUME PlanInv, NEW w \in Workers, ReleaseLease(w)
  PROVE  PlanInv' /\ RowsMove
  <1> DEFINE r == [Row(w) EXCEPT !.lease = "none"]
  <1>1. Save(w, r, Idle) /\ EngineUnchanged
    BY DEF ReleaseLease
  <1>2. Row(w) \in Run /\ RowFits(job[w].plan, Row(w)) /\ ValidRun(r)
    BY <1>1, FreshFits DEF Save
  <1>3. /\ r \in Run /\ r.status = Row(w).status /\ r.idx = Row(w).idx /\ r.step = Row(w).step
        /\ r.cancel = Row(w).cancel /\ r.lease = "none"
    BY <1>2 DEF Run
  <1> HIDE DEF r
  <1>4. RowFits(job[w].plan, r)
    BY <1>2, <1>3 DEF RowFits
  <1>5. RowMoves(Row(w), r)
    BY <1>2, <1>3 DEF RowMoves, Run
  <1>6. QED
    BY <1>1, <1>3, <1>4, <1>5, IdleFits, SaveKeeps

\* The row is marked: cancel when the step allows it.
LEMMA RequestCancelKeeps ==
  ASSUME PlanInv, NEW w \in Workers, RequestCancel(w)
  PROVE  PlanInv' /\ RowsMove
  <1> DEFINE r == [Row(w) EXCEPT !.cancel = TRUE]
  <1>1. Save(w, r, Idle) /\ EngineUnchanged /\ job[w].pc = "cancelling"
    BY DEF RequestCancel
  <1>2. /\ Row(w) \in Run /\ RowFits(job[w].plan, Row(w)) /\ ValidRun(r)
        /\ Row(w).status = "waiting_for_player"
    BY <1>1, FreshFits DEF Save, CopyFits
  <1>3. /\ r \in Run /\ r.status = Row(w).status /\ r.idx = Row(w).idx /\ r.step = Row(w).step
        /\ r.lease = Row(w).lease /\ r.cancel = TRUE
    BY <1>2 DEF Run
  <1> HIDE DEF r
  <1>4. RowFits(job[w].plan, r)
    BY <1>2, <1>3 DEF RowFits, Terminal
  <1>5. RowMoves(Row(w), r)
    BY <1>2, <1>3 DEF RowMoves, Run
  <1>6. QED
    BY <1>1, <1>3, <1>4, <1>5, IdleFits, SaveKeeps

\* The outcome of a step is adopted into the row.
LEMMA ApplyExecutionKeeps ==
  ASSUME PlanInv, NEW w \in Workers, ApplyExecution(w)
  PROVE  PlanInv' /\ RowsMove
  <1> DEFINE p == job[w].plan
             row == Row(w)
             r == Adopted(row, job[w].seen, job[w].good)
             on == [At(w, "loop") EXCEPT !.idx = r.idx, !.done = @ + 1]
             j == CASE r.status = "active" -> on
                    [] r.status \in Terminal -> Idle
                    [] OTHER -> At(w, "release")
  <1>1. Save(w, r, j) /\ EngineUnchanged /\ job[w].pc = "executed" /\ job[w].fresh
    BY DEF ApplyExecution, Save
  <1>2. /\ row \in Run /\ RowFits(p, row) /\ ValidRun(row) /\ job[w] \in Job /\ p \in Plans
        /\ row.status \in {"active", "waiting_for_player"} /\ job[w].idx = row.idx
    BY <1>1, FreshFits DEF CopyFits
  <1>3. /\ job[w].seen \in Engine!Stages \ {"idle"} /\ job[w].good \in BOOLEAN
        /\ job[w].good => Succeeded(<<p, row.idx>>)
        /\ stage[<<p, row.idx>>] # "idle" /\ job[w].done < MaxPerWindow
    BY <1>1, <1>2 DEF PlanInv, JobFits, Job
  <1>4. /\ r \in Run /\ ValidRun(r) /\ RowFits(p, r)
        /\ r.idx = row.idx \/ r.idx = row.idx + 1
        /\ r.status \in Terminal \cup {"active", "waiting_for_player", "awaiting_narration"}
        /\ r.status = "active" => r.idx = row.idx + 1 /\ r.idx \in Steps
        /\ row.cancel => r.cancel \/ r.status \in Terminal \cup {"awaiting_narration"}
    BY <1>2, <1>3, AdoptedFits
  <1> HIDE DEF r
  <1>5. r.idx >= row.idx /\ RowMoves(row, r)
    BY <1>2, <1>4 DEF RowMoves, Run, Terminal
  <1>6. [plan EXCEPT ![p] = r][p] = r
    BY <1>2 DEF PlanInv, TypeOK
  <1>7. j \in Job /\ JobFits(j, [plan EXCEPT ![p] = r])
    <2>1. CASE r.status = "active"
      <3>1. At(w, "loop") \in Job /\ At(w, "loop") = [job[w] EXCEPT !.pc = "loop"]
        BY <1>2, AtFields
      <3>7. job[w].done \in 0 .. MaxPerWindow
        BY <1>2 DEF Job
      <3>2. r.idx \in 1 .. StepCount + 1 /\ job[w].done + 1 \in 0 .. MaxPerWindow
        BY <1>3, <1>4, <3>7, PolicyAssumption DEF Run
      <3>3. /\ on \in Job /\ on.pc = "loop" /\ on.plan = p /\ on.idx = r.idx
            /\ on.fresh = job[w].fresh
        BY <1>2, <3>1, <3>2 DEF Job
      <3>4. j = on
        BY <2>1 DEF Terminal
      <3> HIDE DEF on, j
      <3>5. CopyFits(j, r)
        BY <2>1, <3>3, <3>4 DEF CopyFits, Reserving
      <3>6. QED
        BY <1>2, <1>6, <3>2, <3>3, <3>4, <3>5 DEF JobFits
    <2>2. CASE r.status \in Terminal
      BY <2>2, IdleFits DEF Terminal
    <2>3. CASE r.status \in {"waiting_for_player", "awaiting_narration"}
      <3>1. j = At(w, "release")
        BY <2>3 DEF Terminal
      <3>2. j \in Job /\ j = [job[w] EXCEPT !.pc = "release"]
        BY <1>2, <3>1, AtFields
      <3> HIDE DEF j
      <3>3. j.pc = "release" /\ j.plan = p /\ j.idx = job[w].idx
        BY <1>2, <3>2 DEF Job
      <3>4. CopyFits(j, r)
        BY <2>3, <3>3 DEF CopyFits, Reserving
      <3>5. j.idx <= r.idx
        BY <1>2, <1>5, <3>3
      <3>6. QED
        BY <1>2, <1>6, <3>2, <3>3, <3>4, <3>5 DEF JobFits
    <2>4. QED
      BY <1>4, <2>1, <2>2, <2>3
  <1> HIDE DEF j
  <1>8. QED
    BY <1>1, <1>4, <1>5, <1>7, SaveKeeps

-----------------------------------------------------------------------------
(* What reaches the engine.                                                *)

\* Each operation of the engine is a step of one action.
LEMMA EngineOperations ==
  ASSUME TypeOK, NEW s \in StepIds, Engine!Submit(s) \/ Engine!Decide(s) \/ Engine!Settle(s)
  PROVE  /\ stage' \in [StepIds -> Engine!Stages] /\ effects' \in [StepIds -> Nat]
         /\ \A t \in StepIds : t # s => stage'[t] = stage[t]
         /\ stage'[s] # "idle" /\ stage[s] \notin {"resolved", "cancelled"}
         /\ Engine!Submit(s) => stage[s] = "idle"
         /\ Engine!Decide(s) => stage[s] = "choosing" /\ stage'[s] \in {"cancelled", "rolled"}
         /\ Engine!Settle(s) => stage[s] = "rolled"
  BY DEF TypeOK, Engine!Submit, Engine!Decide, Engine!Settle, Engine!MoveTo, Engine!Stages

\* A step that is not idle in the engine is one its plan has come to.
LEMMA SubmittedIsReached ==
  ASSUME PlanInv, NEW p \in Plans, NEW i \in Steps, stage[<<p, i>>] # "idle"
  PROVE  i <= plan[p].idx
  <1>1. plan[p] \in Run /\ RowFits(p, plan[p])
    BY DEF PlanInv, TypeOK
  <1>2. QED
    BY <1>1 DEF RowFits, Run, Steps

\* A player's decision, with or without the plan.
LEMMA DecisionKeeps ==
  ASSUME PlanInv, NEW p \in Plans, NEW i \in Steps,
         Engine!Decide(<<p, i>>) \/ Engine!Settle(<<p, i>>),
         \/ UNCHANGED outcome
         \/ \E o \in {"passed", "failed"} : outcome' = [outcome EXCEPT ![<<p, i>>] = o],
         UNCHANGED <<plan, reservation, expired, job>>
  PROVE  PlanInv'
  <1> DEFINE s == <<p, i>>
  <1>1. s \in StepIds /\ TypeOK
    BY DEF StepIds, PlanInv
  <1> HIDE DEF s
  <1>2. /\ stage' \in [StepIds -> Engine!Stages] /\ effects' \in [StepIds -> Nat]
        /\ \A t \in StepIds : t # s => stage'[t] = stage[t]
        /\ stage'[s] # "idle" /\ stage[s] \notin {"resolved", "cancelled"} /\ stage[s] # "idle"
    BY <1>1, EngineOperations DEF s
  <1>3. outcome' \in [StepIds -> Outcome] /\ \A t \in StepIds : t # s => outcome'[t] = outcome[t]
    BY <1>1 DEF TypeOK, Outcome, s
  <1>4. EngineStep(s) /\ i <= plan[p].idx
    BY <1>2, <1>3, SubmittedIsReached DEF EngineStep, s
  <1>5. job' \in [Workers -> Job] /\ \A w \in Workers : job'[w] = job[w]
    BY <1>1 DEF TypeOK
  <1>6. QED
    BY <1>4, <1>5, EngineStepKeeps DEF s

\* A check that waits for a choice is cancelled with its plan.
LEMMA CancelCheckKeeps ==
  ASSUME PlanInv, NEW p \in Plans, CancelCheck(p)
  PROVE  PlanInv'
  <1>1. plan[p] \in Run /\ RowFits(p, plan[p]) /\ plan[p].status = "waiting_for_player"
    BY DEF PlanInv, TypeOK, CancelCheck
  <1>2. plan[p].idx \in Steps
    BY <1>1, AtAStep DEF RowFits, Reserving
  <1>3. QED
    BY <1>2, DecisionKeeps DEF CancelCheck

\* Whoever meets the intent to cancel accepts the roll.
LEMMA RecoverCancelKeeps ==
  ASSUME PlanInv, NEW p \in Plans, RecoverCancel(p)
  PROVE  PlanInv'
  <1>1. plan[p] \in Run /\ RowFits(p, plan[p]) /\ plan[p].status = "waiting_for_player"
    BY DEF PlanInv, TypeOK, RecoverCancel, RowFits
  <1>2. plan[p].idx \in Steps
    BY <1>1, AtAStep DEF RowFits, Reserving
  <1>3. QED
    BY <1>2, DecisionKeeps DEF RecoverCancel

\* A player decides or settles a step in the engine.
LEMMA PlayerKeeps ==
  ASSUME PlanInv, NEW s \in StepIds, PlayerDecides(s) \/ PlayerSettles(s)
  PROVE  PlanInv'
  <1>1. PICK p \in Plans, i \in Steps : s = <<p, i>>
    BY DEF StepIds
  <1>2. QED
    BY <1>1, DecisionKeeps DEF PlayerDecides, PlayerSettles

\* The worker has the answer of the engine, whichever it is: the one it gives now, or
\* gave before.
Told(w, seen, good) == [job[w] EXCEPT !.pc = "executed", !.seen = seen, !.good = good]

\* A worker that was told of a step of its plan.
LEMMA ToldFits ==
  ASSUME PlanInv, NEW w \in Workers, job[w].pc = "ready",
         NEW seen \in Engine!Stages \ {"idle"}, NEW good \in BOOLEAN
  PROVE  LET j == Told(w, seen, good)
         IN  /\ j \in Job /\ j.pc = "executed" /\ j.seen = seen /\ j.good = good
             /\ j.plan = job[w].plan /\ j.idx = job[w].idx /\ j.done = job[w].done
             /\ j.plan \in Plans /\ j.idx \in Steps /\ j.done < MaxPerWindow
             /\ j.idx <= plan[j.plan].idx
             /\ j.fresh => CopyFits(j, plan[j.plan])
  <1>1. job[w] \in Job /\ JobFits(job[w], plan)
    BY DEF PlanInv, TypeOK
  <1>2. /\ job[w].plan \in Plans /\ job[w].idx \in Steps /\ job[w].done < MaxPerWindow
        /\ job[w].idx <= plan[job[w].plan].idx
        /\ job[w].fresh => CopyFits(job[w], plan[job[w].plan])
    BY <1>1 DEF JobFits
  <1> DEFINE j == Told(w, seen, good)
  <1>3. /\ j \in Job /\ j.pc = "executed" /\ j.seen = seen /\ j.good = good
        /\ j.plan = job[w].plan /\ j.idx = job[w].idx /\ j.done = job[w].done
        /\ j.fresh = job[w].fresh
    BY <1>1 DEF Told, Job
  <1> HIDE DEF j
  <1>4. j.fresh => CopyFits(j, plan[j.plan])
    BY <1>2, <1>3 DEF CopyFits
  <1>5. QED
    BY <1>2, <1>3, <1>4 DEF j

\* A frozen step is submitted to the engine.
LEMMA SubmitStepKeeps ==
  ASSUME PlanInv, NEW w \in Workers, SubmitStep(w)
  PROVE  PlanInv'
  <1> DEFINE s == StepId(w)
  <1>1. job[w].pc = "ready" /\ UNCHANGED <<plan, reservation, expired>>
    BY DEF SubmitStep
  <1>2. /\ job[w].plan \in Plans /\ job[w].idx \in Steps /\ job[w].idx <= plan[job[w].plan].idx
        /\ s = <<job[w].plan, job[w].idx>> /\ s \in StepIds /\ TypeOK
    BY <1>1 DEF PlanInv, JobFits, StepId, StepIds
  <1> HIDE DEF s
  <1>3. CASE /\ Engine!Submit(s)
             /\ outcome' = [outcome EXCEPT ![s] = IF stage'[s] = "resolved" THEN "unchecked" ELSE @]
             /\ job' = [job EXCEPT ![w] = Told(w, stage'[s], stage'[s] = "resolved")]
    <2>1. EngineStep(s)
      <3>1. outcome' \in [StepIds -> Outcome] /\ \A t \in StepIds : t # s
            => outcome'[t] = outcome[t]
        BY <1>2, <1>3 DEF TypeOK, Outcome
      <3>2. QED
        BY <1>2, <1>3, <3>1, EngineOperations DEF EngineStep
    <2>2. /\ stage'[s] \in Engine!Stages \ {"idle"}
          /\ stage'[s] = "resolved" => outcome'[s] # "failed"
      <3>1. stage'[s] \in Engine!Stages \ {"idle"}
        BY <1>2, <2>1 DEF EngineStep
      <3>2. stage'[s] = "resolved" => outcome'[s] = "unchecked"
        BY <1>2, <1>3 DEF TypeOK
      <3>3. QED
        BY <3>1, <3>2
    <2>3. PICK seen \in Engine!Stages \ {"idle"}, good \in BOOLEAN :
            /\ job' = [job EXCEPT ![w] = Told(w, seen, good)]
            /\ good => stage'[s] = "resolved" /\ outcome'[s] # "failed"
      BY <1>3, <2>2
    <2> DEFINE j == Told(w, seen, good)
    <2>4. /\ j \in Job /\ j.pc = "executed" /\ j.seen = seen /\ j.good = good
          /\ j.plan = job[w].plan /\ j.idx = job[w].idx /\ j.done = job[w].done
          /\ j.plan \in Plans /\ j.idx \in Steps /\ j.done < MaxPerWindow
          /\ j.idx <= plan[j.plan].idx
          /\ j.fresh => CopyFits(j, plan[j.plan])
      BY <1>1, <2>3, ToldFits
    <2>5. job' = [job EXCEPT ![w] = j]
      BY <2>3
    <2> HIDE DEF j
    <2>6. job' \in [Workers -> Job] /\ job'[w] = j /\ \A v \in Workers : v = w \/ job'[v] = job[v]
      BY <1>2, <2>4, <2>5 DEF TypeOK
    <2>7. JobFits(job[w], plan)'
      <3>1. job'[w].fresh => CopyFits(job'[w], plan'[job'[w].plan])
        BY <1>1, <2>4, <2>6
      <3>2. job'[w].plan \in Plans /\ job'[w].idx <= plan'[job'[w].plan].idx
        BY <1>1, <2>4, <2>6
      <3>3. stage'[<<job'[w].plan, job'[w].idx>>] # "idle"
        BY <1>2, <2>1, <2>4, <2>6 DEF EngineStep
      <3>4. job'[w].good => Succeeded(<<job[w].plan, job[w].idx>>)'
        <4>1. <<job'[w].plan, job'[w].idx>> = s /\ job'[w].good = good
          BY <1>2, <2>4, <2>6
        <4>2. job'[w].good => stage'[s] = "resolved" /\ outcome'[s] # "failed"
          BY <2>3, <4>1
        <4>3. QED
          BY <4>1, <4>2 DEF Succeeded
      <3>5. QED
        BY <2>4, <2>6, <3>1, <3>2, <3>3, <3>4 DEF JobFits
    <2>8. QED
      BY <1>1, <1>2, <2>1, <2>6, <2>7, EngineStepKeeps
  <1>4. CASE /\ stage[s] # "idle" /\ EngineUnchanged
             /\ \/ job' = [job EXCEPT ![w] = Told(w, stage[s], Succeeded(s))]
                \/ job' = [job EXCEPT ![w] = Told(w, "choosing", FALSE)]
    <2>1. /\ stage[s] \in Engine!Stages \ {"idle"} /\ Succeeded(s) \in BOOLEAN
          /\ "choosing" \in Engine!Stages \ {"idle"}
      BY <1>2, <1>4 DEF TypeOK, Succeeded, Engine!Stages
    <2>2. PICK seen \in Engine!Stages \ {"idle"}, good \in BOOLEAN :
            /\ job' = [job EXCEPT ![w] = Told(w, seen, good)]
            /\ good => Succeeded(s)
      BY <1>4, <2>1
    <2> DEFINE j == Told(w, seen, good)
    <2>3. /\ j \in Job /\ j.pc = "executed" /\ j.seen = seen /\ j.good = good
          /\ j.plan = job[w].plan /\ j.idx = job[w].idx
          /\ j.plan \in Plans /\ j.idx \in Steps /\ j.done < MaxPerWindow
          /\ j.idx <= plan[j.plan].idx
          /\ j.fresh => CopyFits(j, plan[j.plan])
      BY <1>1, <2>2, ToldFits
    <2>4. job' = [job EXCEPT ![w] = j]
      BY <2>2
    <2> HIDE DEF j
    <2>5. JobFits(j, plan)
      BY <1>2, <1>4, <2>2, <2>3 DEF JobFits
    <2>6. QED
      BY <1>1, <1>4, <2>3, <2>4, <2>5, JobStepKeeps
  <1>5. QED
    BY <1>3, <1>4 DEF SubmitStep, Told, s

-----------------------------------------------------------------------------
(* Requests, and time.                                                     *)

\* A plan that was just created.
LEMMA NewRunFields ==
  /\ NewRun \in Run /\ NewRun.status = "active" /\ NewRun.idx = 1 /\ NewRun.cancel = FALSE
  /\ NewRun.lease = "none" /\ NewRun.step = [i \in Steps |-> "pending"]
  <1>1. [i \in Steps |-> "pending"] \in [Steps -> StepStatus]
    BY DEF StepStatus
  <1>2. 1 \in 1 .. StepCount + 1 /\ 0 \in 0 .. MaxRepairs /\ "active" \in PlanStatus
    BY StepCountAssumption, PolicyAssumption DEF PlanStatus, Reserving
  <1>3. QED
    BY <1>1, <1>2 DEF NewRun, Run

\* The invariant holds before there is any plan.
LEMMA InitPlanInv ==
  ASSUME Init
  PROVE  PlanInv
  <1>1. NoRun \in Run /\ NoRun.status = "none" /\ NoRun.idx = 1 /\ NoRun.cancel = FALSE
        /\ NoRun.step = [i \in Steps |-> "pending"]
    <2>1. "none" \in PlanStatus
      BY DEF PlanStatus
    <2>2. QED
      BY <2>1, NewRunFields DEF NoRun, Run
  <1>2. TypeOK
    BY <1>1, IdleFits DEF Init, TypeOK, Engine!Init, Engine!Stages, Outcome
  <1>3. ASSUME NEW p \in Plans PROVE RowFits(p, plan[p])
    <2>1. plan[p] = NoRun /\ \A i \in Steps : stage[<<p, i>>] = "idle" /\ ~(i < 1)
      BY DEF Init, Engine!Init, StepIds, Steps
    <2>2. QED
      BY <1>1, <2>1 DEF RowFits, Reserving, Terminal
  <1>4. ASSUME NEW w \in Workers PROVE JobFits(job[w], plan)
    BY IdleFits DEF Init
  <1>5. QED
    BY <1>2, <1>3, <1>4 DEF PlanInv

\* A plan is created.
LEMMA CreateKeeps ==
  ASSUME PlanInv, NEW p \in Plans, Create(p)
  PROVE  PlanInv' /\ RowsMove
  <1>1. /\ NewRun \in Run /\ NewRun.status = "active" /\ NewRun.idx = 1 /\ NewRun.cancel = FALSE
        /\ NewRun.step = [i \in Steps |-> "pending"]
    BY NewRunFields
  <1>2. RowFits(p, plan[p]) /\ plan[p].status = "none" /\ plan[p].idx = 1
    BY DEF PlanInv, RowFits, Create
  <1>3. ValidRun(NewRun)
    BY <1>1, StepCountAssumption DEF ValidRun, AllowedCurrent, Terminal, Steps
  <1>4. RowFits(p, NewRun)
    BY <1>1, <1>2, <1>3 DEF RowFits, Terminal, Steps
  <1>5. /\ plan' = [plan EXCEPT ![p] = NewRun] /\ reservation' \in Plans \cup {None}
        /\ expired' \in BOOLEAN /\ job' = job /\ job' \in [Workers -> Job]
    BY DEF Create, PlanInv, TypeOK
  <1>6. ASSUME NEW v \in Workers PROVE JobFits(job'[v], plan')
    <2>1. JobFits(job[v], plan) /\ job[v] \in Job
      BY DEF PlanInv, TypeOK
    <2>2. job[v].fresh => job[v].plan # p
      BY <1>2, <2>1 DEF JobFits, CopyFits, Reserving
    <2>3. \A q \in Plans : q # p => plan'[q] = plan[q]
      BY <1>5 DEF PlanInv, TypeOK
    <2>4. plan'[p].idx = plan[p].idx
      BY <1>1, <1>2, <1>5 DEF PlanInv, TypeOK
    <2>5. QED
      BY <1>5, <2>1, <2>2, <2>3, <2>4 DEF JobFits
  <1>7. RowMoves(plan[p], NewRun)
    BY <1>1, <1>2 DEF RowMoves, RowFits, Terminal
  <1>8. QED
    BY <1>1, <1>4, <1>5, <1>6, <1>7, WriteKeeps DEF Create

\* A worker claims a plan whose lease is free.
LEMMA ClaimKeeps ==
  ASSUME PlanInv, NEW w \in Workers, NEW p \in Plans, Claim(w, p)
  PROVE  PlanInv' /\ RowsMove
  <1> DEFINE status == Claimed(plan[p].status)
             r == [plan[p] EXCEPT !.status = status, !.lease = "live"]
             j == [Idle EXCEPT !.pc = Entry(status), !.plan = p, !.fresh = TRUE,
                               !.idx = plan[p].idx]
  <1>1. plan[p] \in Run /\ RowFits(p, plan[p]) /\ ValidRun(plan[p]) /\ plan[p].status \in Reserving
    BY DEF PlanInv, TypeOK, RowFits, Claim, MayClaim
  <1>2. /\ status \in Reserving \ {"checkpointed", "retryable_failure"}
        /\ \/ status = plan[p].status
           \/ status = "active" /\ plan[p].status \in {"checkpointed", "retryable_failure"}
    BY <1>1 DEF Claimed, Reserving
  <1>3. /\ Outdate(p, w, j) /\ plan' = [plan EXCEPT ![p] = r] /\ reservation' = reservation
        /\ expired' = FALSE /\ EngineUnchanged
    BY <1>1 DEF Claim, PlanInv, TypeOK, Run
  <1> HIDE DEF status
  <1>4. /\ r \in Run /\ r.status = status /\ r.idx = plan[p].idx /\ r.step = plan[p].step
        /\ r.cancel = plan[p].cancel
    BY <1>1, <1>2 DEF Run, PlanStatus
  <1>5. Entry(status) \in {"loop", "reconcile", "release"}
        /\ (Entry(status) = "loop" => status = "active")
        /\ (Entry(status) = "reconcile" => status = "waiting_for_player")
    BY DEF Entry
  <1>6. /\ j \in Job /\ j.pc = Entry(status) /\ j.plan = p /\ j.fresh /\ j.idx = plan[p].idx
        /\ j.done = 0
    BY <1>1, <1>5, IdleFits DEF Job, Idle, Run
  <1> HIDE DEF r, j
  <1>7. ValidRun(r)
    BY <1>1, <1>2, <1>4 DEF ValidRun, AllowedCurrent, Reserving, Terminal
  <1>8. RowFits(p, r)
    BY <1>1, <1>2, <1>4, <1>7 DEF RowFits, Reserving, Terminal
  <1>9. CopyFits(j, r)
    BY <1>2, <1>4, <1>5, <1>6 DEF CopyFits
  <1>10. plan'[p] = r /\ 0 < MaxPerWindow
    BY <1>1, <1>3, PolicyAssumption DEF PlanInv, TypeOK
  <1>11. j.pc = "reconcile" => j.idx \in Steps /\ stage[<<p, j.idx>>] # "idle"
    <2>1. SUFFICES ASSUME j.pc = "reconcile" PROVE j.idx \in Steps /\ stage[<<p, j.idx>>] # "idle"
      OBVIOUS
    <2>2. r.status = "waiting_for_player"
      BY <1>4, <1>5, <1>6, <2>1
    <2>3. r.idx \in Steps
      BY <1>4, <1>7, <2>2, AtAStep
    <2>4. r.step[r.idx] = "waiting_for_player"
      BY <1>7, <2>2, <2>3, StepCountAssumption DEF ValidRun, AllowedCurrent, Steps
    <2>5. QED
      BY <1>4, <1>6, <1>8, <2>3, <2>4 DEF RowFits
  <1>12. JobFits(j, plan')
    BY <1>1, <1>4, <1>5, <1>6, <1>9, <1>10, <1>11 DEF JobFits, Run
  <1>13. \A v \in Workers : job'[v] = Outdated(v, p) \/ JobFits(job'[v], plan')
    BY <1>3, <1>12 DEF Outdate, Outdated
  <1>14. job' \in [Workers -> Job]
    BY <1>3, <1>6, OutdatedIsJob DEF Outdate, Outdated, PlanInv, TypeOK
  <1>15. reservation' \in Plans \cup {None} /\ expired' \in BOOLEAN
    BY <1>3 DEF PlanInv, TypeOK
  <1>17. RowMoves(plan[p], r)
    BY <1>1, <1>4 DEF RowMoves, Run, Reserving, Terminal
  <1>16. QED
    BY <1>3, <1>4, <1>8, <1>13, <1>14, <1>15, <1>17, WriteKeeps

\* A step that the engine cancelled is adopted.
LEMMA AdoptCancelledKeeps ==
  ASSUME PlanInv, NEW p \in Plans, AdoptCancelled(p)
  PROVE  PlanInv' /\ RowsMove
  <1> DEFINE r == Adopted(plan[p], "cancelled", FALSE)
  <1>1. /\ plan[p] \in Run /\ RowFits(p, plan[p]) /\ plan[p].status = "waiting_for_player"
        /\ stage[<<p, plan[p].idx>>] # "idle"
    BY DEF PlanInv, TypeOK, AdoptCancelled
  <1>2. ValidRun(plan[p]) /\ "cancelled" \in Engine!Stages \ {"idle"}
    BY <1>1 DEF RowFits, Reserving, Engine!Stages
  <1>3. /\ r \in Run /\ RowFits(p, r) /\ (r.idx = plan[p].idx \/ r.idx = plan[p].idx + 1)
        /\ plan[p].cancel => r.cancel \/ r.status \in Terminal \cup {"awaiting_narration"}
    BY <1>1, <1>2, AdoptedFits
  <1>4. Write(p, r) /\ OutdateAll(p) /\ EngineUnchanged
    BY DEF AdoptCancelled
  <1> HIDE DEF r
  <1>5. RowMoves(plan[p], r)
    BY <1>1, <1>3 DEF RowMoves, Run, Terminal
  <1>6. QED
    BY <1>3, <1>4, <1>5, RequestKeeps

\* A narrated plan is completed.
LEMMA MarkNarratedKeeps ==
  ASSUME PlanInv, NEW p \in Plans, MarkNarrated(p)
  PROVE  PlanInv' /\ RowsMove
  <1> DEFINE r == To(plan[p], "completed")
  <1>1. plan[p] \in Run /\ RowFits(p, plan[p]) /\ plan[p].status = "awaiting_narration"
    BY DEF PlanInv, TypeOK, MarkNarrated
  <1>2. "completed" \in PlanStatus /\ "completed" \in Terminal /\ "completed" \notin Reserving
    BY DEF PlanStatus, Terminal, Reserving
  <1>3. /\ r \in Run /\ r.status = "completed" /\ r.idx = plan[p].idx /\ r.step = plan[p].step
        /\ r.lease = "none" /\ r.cancel = plan[p].cancel
    BY <1>1, <1>2, ToFields
  <1>4. Write(p, r) /\ OutdateAll(p) /\ EngineUnchanged
    BY DEF MarkNarrated
  <1> HIDE DEF r
  <1>5. RowFits(p, r) /\ RowMoves(plan[p], r)
    BY <1>1, <1>2, <1>3 DEF RowFits, RowMoves, Run, Terminal
  <1>6. QED
    BY <1>3, <1>4, <1>5, RequestKeeps

\* The steps that are left are cancelled.
LEMMA CancelRemainingKeeps ==
  ASSUME PlanInv, NEW p \in Plans, CancelRemaining(p)
  PROVE  PlanInv' /\ RowsMove
  <1> DEFINE row == plan[p]
             r == IF row.idx > StepCount THEN To(row, "cancelled")
                  ELSE To(SetStep(row, "stopped"), "cancelled")
  <1>1. /\ row \in Run /\ RowFits(p, row) /\ row.status \in Reserving \cup {"stopped"}
        /\ Cancellable(p) /\ Write(p, r) /\ OutdateAll(p) /\ EngineUnchanged
    BY DEF PlanInv, TypeOK, CancelRemaining
  <1>2. /\ "cancelled" \in PlanStatus /\ "cancelled" \in Terminal /\ "cancelled" \notin Reserving
        /\ "stopped" \in StepStatus
    BY DEF PlanStatus, Terminal, Reserving, StepStatus
  <1>3. row.cancel = FALSE
    <2>1. SUFFICES ASSUME row.cancel = TRUE PROVE FALSE
      BY <1>1 DEF Run
    <2>2. row.status = "waiting_for_player" /\ ValidRun(row)
      BY <1>1, <2>1 DEF RowFits, Reserving
    <2>3. row.idx \in Steps
      BY <1>1, <2>2, AtAStep
    <2>4. row.idx <= StepCount /\ row.step[row.idx] = "waiting_for_player"
      BY <2>2, <2>3, StepCountAssumption DEF ValidRun, AllowedCurrent, Steps
    <2>5. QED
      BY <1>1, <2>2, <2>4 DEF Cancellable
  <1>4. /\ r \in Run /\ r.status = "cancelled" /\ r.idx = row.idx /\ r.cancel = row.cancel
        /\ r.lease = "none"
        /\ \/ r.step = row.step
           \/ row.idx \in Steps /\ r.step = [row.step EXCEPT ![row.idx] = "stopped"]
    <2>1. CASE row.idx > StepCount
      <3>1. r = To(row, "cancelled")
        BY <2>1
      <3> HIDE DEF r
      <3>2. QED
        BY <1>1, <1>2, <3>1, ToFields
    <2>2. CASE ~(row.idx > StepCount)
      <3>1. row.idx \in Steps
        BY <1>1, <2>2, StepCountAssumption DEF Run, Steps
      <3>2. r = To(SetStep(row, "stopped"), "cancelled")
        BY <2>2
      <3> HIDE DEF r
      <3>3. QED
        BY <1>1, <1>2, <3>1, <3>2, SetStepToFields
    <2>3. QED
      BY <2>1, <2>2
  <1> HIDE DEF r
  <1>5. \A i \in Steps : /\ r.step[i] # row.step[i] => r.step[i] = "stopped"
    BY <1>1, <1>4 DEF Run
  <1>6. RowFits(p, r)
    BY <1>1, <1>2, <1>3, <1>4, <1>5 DEF RowFits, Run
  <1>8. RowMoves(row, r)
    BY <1>1, <1>2, <1>3, <1>4 DEF RowMoves, Run, Reserving, Terminal
  <1>7. QED
    BY <1>1, <1>4, <1>6, <1>8, RequestKeeps

\* A lease runs out.
LEMMA LeaseExpiresKeeps ==
  ASSUME PlanInv, NEW p \in Plans, LeaseExpires(p)
  PROVE  PlanInv' /\ RowsMove
  <1> DEFINE r == [plan[p] EXCEPT !.lease = "expired"]
  <1>1. /\ plan[p] \in Run /\ RowFits(p, plan[p]) /\ plan[p].lease = "live"
        /\ plan' = [plan EXCEPT ![p] = r] /\ UNCHANGED <<reservation, expired, job>>
        /\ EngineUnchanged
    BY DEF PlanInv, TypeOK, LeaseExpires
  <1>2. /\ r \in Run /\ r.status = plan[p].status /\ r.idx = plan[p].idx /\ r.step = plan[p].step
        /\ r.cancel = plan[p].cancel /\ plan[p].status \notin Terminal
    BY <1>1 DEF Run, RowFits
  <1> HIDE DEF r
  <1>3. RowFits(p, r)
    BY <1>1, <1>2 DEF RowFits, ValidRun
  <1>4. ASSUME NEW v \in Workers PROVE JobFits(job'[v], plan')
    <2>1. JobFits(job[v], plan) /\ job'[v] = job[v]
      BY <1>1 DEF PlanInv
    <2>2. \A q \in Plans : /\ plan'[q].status = plan[q].status /\ plan'[q].idx = plan[q].idx
                           /\ plan'[q].step = plan[q].step
      BY <1>1, <1>2 DEF PlanInv, TypeOK
    <2>3. QED
      BY <2>1, <2>2 DEF JobFits, CopyFits
  <1>5. /\ reservation' \in Plans \cup {None} /\ expired' \in BOOLEAN /\ job' \in [Workers -> Job]
        /\ RowMoves(plan[p], r)
    BY <1>1, <1>2 DEF PlanInv, TypeOK, Run, RowMoves
  <1>6. QED
    BY <1>1, <1>2, <1>3, <1>4, <1>5, WriteKeeps

\* What does not change the rows, the workers and the engine.
LEMMA NothingWrittenKeeps ==
  ASSUME PlanInv, UNCHANGED <<plan, job, stage, effects, outcome, reservation>>,
         expired' \in BOOLEAN
  PROVE  PlanInv'
  BY DEF PlanInv, TypeOK, RowFits, JobFits, Succeeded

\* Every action keeps the invariant, and moves the rows forward.
LEMMA NextPlanInv ==
  ASSUME PlanInv, [Next]_vars
  PROVE  PlanInv' /\ RowsMove
  <1>0. UNCHANGED plan => RowsMove
    <2> SUFFICES ASSUME UNCHANGED plan, NEW p \in Plans PROVE RowMoves(plan[p], plan'[p])
      BY DEF RowsMove
    <2>1. plan[p] \in Run
      BY DEF PlanInv, TypeOK
    <2>2. QED
      BY <2>1 DEF RowMoves, Run
  <1>1. ASSUME NEW w \in Workers, Advance(w) PROVE PlanInv' /\ RowsMove
    <2>1. CASE Reconcile(w) \/ TakeOverStep(w) \/ SubmitStep(w) \/ Abandon(w)
      <3>1. UNCHANGED plan
        BY <2>1 DEF Reconcile, TakeOverStep, SubmitStep, Abandon
      <3>2. QED
        BY <1>0, <2>1, <3>1, ReconcileKeeps, TakeOverStepKeeps, SubmitStepKeeps, AbandonKeeps
    <2>2. CASE Checkpoint(w) \/ StartFreeze(w) \/ Freeze(w) \/ FreezeFails(w) \/ Reject(w)
      BY <2>2, CheckpointKeeps, StartFreezeKeeps, FreezeKeeps, FreezeFailsKeeps, RejectKeeps
    <2>3. CASE ApplyExecution(w) \/ ReleaseLease(w) \/ RequestCancel(w)
      BY <2>3, ApplyExecutionKeeps, ReleaseLeaseKeeps, RequestCancelKeeps
    <2>4. QED
      BY <1>1, <2>1, <2>2, <2>3 DEF Advance
  <1>2. ASSUME NEW w \in Workers, NEW p \in Plans, Claim(w, p) \/ AskCancel(w, p)
        PROVE  PlanInv' /\ RowsMove
    BY <1>0, <1>2, ClaimKeeps, AskCancelKeeps DEF AskCancel
  <1>3. ASSUME NEW p \in Plans,
               \/ Create(p)
               \/ AdoptCancelled(p)
               \/ CancelRemaining(p)
               \/ MarkNarrated(p)
               \/ LeaseExpires(p)
        PROVE  PlanInv' /\ RowsMove
    BY <1>3, CreateKeeps, AdoptCancelledKeeps, CancelRemainingKeeps, MarkNarratedKeeps,
       LeaseExpiresKeeps
  <1>4. ASSUME NEW p \in Plans, CancelCheck(p) \/ RecoverCancel(p) PROVE PlanInv' /\ RowsMove
    BY <1>0, <1>4, CancelCheckKeeps, RecoverCancelKeeps DEF CancelCheck, RecoverCancel
  <1>5. ASSUME NEW s \in StepIds, PlayerDecides(s) \/ PlayerSettles(s)
        PROVE  PlanInv' /\ RowsMove
    BY <1>0, <1>5, PlayerKeeps DEF PlayerDecides, PlayerSettles
  <1>6. CASE ReservationExpires
    BY <1>0, <1>6, NothingWrittenKeeps DEF ReservationExpires, EngineUnchanged
  <1>7. CASE UNCHANGED vars
    BY <1>0, <1>7, NothingWrittenKeeps DEF vars, PlanInv, TypeOK
  <1>8. QED
    BY <1>1, <1>2, <1>3, <1>4, <1>5, <1>6, <1>7 DEF Next

\* The engine moves by its own operations only, and only at a step that the plan has
\* reached: a worker whose copy is stale is behind its plan, never ahead.
LEMMA EngineMoves ==
  ASSUME PlanInv, [Next]_vars
  PROVE  \/ UNCHANGED <<stage, effects>>
         \/ \E p \in Plans, i \in Steps :
              /\ i <= plan[p].idx
              /\ Engine!Submit(<<p, i>>) \/ Engine!Decide(<<p, i>>) \/ Engine!Settle(<<p, i>>)
  <1> DEFINE Moves(p, i) == /\ i <= plan[p].idx
                            /\ \/ Engine!Submit(<<p, i>>)
                               \/ Engine!Decide(<<p, i>>)
                               \/ Engine!Settle(<<p, i>>)
  <1>1. ASSUME NEW p \in Plans, NEW i \in Steps,
               Engine!Decide(<<p, i>>) \/ Engine!Settle(<<p, i>>)
        PROVE  i <= plan[p].idx
    BY <1>1, SubmittedIsReached DEF Engine!Decide, Engine!Settle
  <1>2. ASSUME NEW w \in Workers, Advance(w)
        PROVE  UNCHANGED <<stage, effects>> \/ \E p \in Plans, i \in Steps : Moves(p, i)
    <2>1. CASE SubmitStep(w)
      <3>1. /\ job[w].plan \in Plans /\ job[w].idx \in Steps
            /\ job[w].idx <= plan[job[w].plan].idx
        BY <2>1 DEF SubmitStep, PlanInv, JobFits
      <3>2. Engine!Submit(<<job[w].plan, job[w].idx>>) \/ UNCHANGED <<stage, effects>>
        BY <2>1 DEF SubmitStep, StepId, EngineUnchanged
      <3>3. QED
        BY <3>1, <3>2
    <2>2. CASE ~SubmitStep(w)
      BY <1>2, <2>2
      DEF Advance, EngineUnchanged, Reconcile, Checkpoint, StartFreeze, TakeOverStep, Freeze,
          FreezeFails, Reject, ApplyExecution, ReleaseLease, RequestCancel, Abandon
    <2>3. QED
      BY <2>1, <2>2
  <1>3. ASSUME NEW p \in Plans, CancelCheck(p) \/ RecoverCancel(p)
        PROVE  \E q \in Plans, i \in Steps : Moves(q, i)
    <2>1. plan[p] \in Run /\ RowFits(p, plan[p]) /\ plan[p].status = "waiting_for_player"
      BY <1>3 DEF PlanInv, TypeOK, RowFits, CancelCheck, RecoverCancel
    <2>2. plan[p].idx \in Steps
      BY <2>1, AtAStep DEF RowFits, Reserving
    <2>3. QED
      BY <1>1, <1>3, <2>2 DEF CancelCheck, RecoverCancel
  <1>4. ASSUME NEW s \in StepIds, PlayerDecides(s) \/ PlayerSettles(s)
        PROVE  \E p \in Plans, i \in Steps : Moves(p, i)
    <2>1. PICK p \in Plans, i \in Steps : s = <<p, i>>
      BY DEF StepIds
    <2>2. QED
      BY <1>1, <1>4, <2>1 DEF PlayerDecides, PlayerSettles
  <1>5. ASSUME NEW p \in Plans, NEW w \in Workers,
               \/ Create(p) \/ AdoptCancelled(p) \/ CancelRemaining(p) \/ MarkNarrated(p)
               \/ LeaseExpires(p) \/ ReservationExpires \/ Claim(w, p) \/ AskCancel(w, p)
        PROVE  UNCHANGED <<stage, effects>>
    BY <1>5 DEF EngineUnchanged, Create, AdoptCancelled, CancelRemaining, MarkNarrated,
                LeaseExpires, ReservationExpires, Claim, AskCancel
  <1>6. QED
    BY <1>2, <1>3, <1>4, <1>5 DEF Next, vars, ReservationExpires, EngineUnchanged, Create,
       AdoptCancelled, CancelRemaining, MarkNarrated, LeaseExpires

-----------------------------------------------------------------------------
(* The theorems.                                                           *)

\* The rows, the workers and the engine fit together in every reachable state: the
\* inductive invariant of the saga.
THEOREM PlanInvariant == Spec => []PlanInv
  <1>1. Init => PlanInv
    BY InitPlanInv
  <1>2. PlanInv /\ [Next]_vars => PlanInv'
    BY NextPlanInv
  <1>3. QED
    BY <1>1, <1>2, PTL DEF Spec

\* Every variable of the saga keeps its type: no row is at a step past the end of its
\* plan, and no repair is counted beyond the policy.
THEOREM PlanTypeCorrect == Spec => []TypeOK
  <1>1. PlanInv => TypeOK
    BY DEF PlanInv
  <1>2. QED
    BY <1>1, PlanInvariant, PTL

\* A step reaches the engine only after every step before it succeeded there, with any
\* number of workers that crash, replay and race (advance_one_window).
THEOREM StepsInOrderTheorem == Spec => []StepsInOrder
  <1>1. PlanInv => StepsInOrder
    <2> SUFFICES ASSUME PlanInv, NEW p \in Plans, NEW i \in Steps, stage[<<p, i>>] # "idle",
                        NEW j \in 1..(i - 1)
                 PROVE  Succeeded(<<p, j>>)
      BY DEF StepsInOrder
    <2>1. i <= plan[p].idx
      BY SubmittedIsReached
    <2>2. plan[p] \in Run /\ RowFits(p, plan[p])
      BY DEF PlanInv, TypeOK
    <2>3. j \in Steps /\ j < plan[p].idx
      BY <2>1, <2>2, StepCountAssumption DEF Steps, Run
    <2>4. QED
      BY <2>2, <2>3 DEF RowFits
  <1>2. QED
    BY <1>1, PlanInvariant, PTL

\* What a plan says of its steps is true of the engine (the property of the run, for
\* any number of plans, steps and workers): completed steps succeeded there, a waiting
\* one was submitted, and a plan narrated as resolved succeeded in every step.
THEOREM PlanTellsTheTruthTheorem == Spec => []PlanTellsTheTruth
  <1>1. PlanInv => PlanTellsTheTruth
    <2> SUFFICES ASSUME PlanInv, NEW p \in Plans
                 PROVE  /\ \A i \in Steps :
                             /\ plan[p].step[i] = "completed" => Succeeded(<<p, i>>)
                             /\ plan[p].step[i] = "waiting_for_player" => stage[<<p, i>>] # "idle"
                        /\ plan[p].status \in {"awaiting_narration", "completed"} =>
                             \A i \in Steps : Succeeded(<<p, i>>)
      BY DEF PlanTellsTheTruth
    <2>1. plan[p] \in Run /\ RowFits(p, plan[p])
      BY DEF PlanInv, TypeOK
    <2>2. \A i \in Steps : i < plan[p].idx \/ i >= plan[p].idx
      BY <2>1 DEF Run, Steps
    <2>3. plan[p].idx > StepCount => \A i \in Steps : i < plan[p].idx
      BY <2>1, StepCountAssumption DEF Run, Steps
    <2>4. QED
      BY <2>1, <2>2, <2>3 DEF RowFits
  <1>2. QED
    BY <1>1, PlanInvariant, PTL

\* _apply_execution never builds a row that its own validation refuses: no plan is
\* stuck on what the engine answered, whatever that was.
THEOREM ExecutionsCanBeAdoptedTheorem == Spec => []ExecutionsCanBeAdopted
  <1>1. PlanInv => ExecutionsCanBeAdopted
    <2> SUFFICES ASSUME PlanInv, NEW w \in Workers, job[w].pc = "executed", job[w].fresh
                 PROVE  ValidRun(Adopted(Row(w), job[w].seen, job[w].good))
      BY DEF ExecutionsCanBeAdopted
    <2>1. /\ Row(w) \in Run /\ RowFits(job[w].plan, Row(w)) /\ ValidRun(Row(w))
          /\ Row(w).status \in {"active", "waiting_for_player"} /\ job[w].idx = Row(w).idx
          /\ job[w].plan \in Plans /\ job[w] \in Job
      BY FreshFits DEF CopyFits
    <2>2. /\ job[w].seen \in Engine!Stages \ {"idle"} /\ job[w].good \in BOOLEAN
          /\ job[w].good => Succeeded(<<job[w].plan, Row(w).idx>>)
          /\ stage[<<job[w].plan, Row(w).idx>>] # "idle"
      BY <2>1 DEF PlanInv, JobFits, Job
    <2>3. QED
      BY <2>1, <2>2, AdoptedFits
  <1>2. QED
    BY <1>1, PlanInvariant, PTL

\* A plan moves forward only, and what is finished stays finished but for a stopped
\* plan that is then cancelled.
THEOREM ForwardOnlyTheorem == Spec => ForwardOnly
  <1>1. PlanInv /\ [Next]_vars =>
          [\A p \in Plans :
             /\ plan'[p].idx >= plan[p].idx
             /\ plan[p].status \in Terminal /\ plan'[p].status # plan[p].status =>
                  plan[p].status = "stopped" /\ plan'[p].status = "cancelled"]_vars
    BY NextPlanInv DEF RowsMove, RowMoves
  <1>2. QED
    BY <1>1, PlanInvariant, PTL DEF Spec, ForwardOnly

\* A cancel that was accepted at a roll holds, with any number of workers that crash
\* and race: it is pending until the plan is at its end, and no later step is submitted.
THEOREM CancelHoldsTheorem == Spec => CancelHolds
  <1>1. ASSUME PlanInv, [Next]_vars, NEW p \in Plans, NEW i \in Steps, i > plan[p].idx
        PROVE  stage'[<<p, i>>] = stage[<<p, i>>]
    <2>1. CASE UNCHANGED <<stage, effects>>
      BY <2>1
    <2>2. ASSUME NEW q \in Plans, NEW k \in Steps, k <= plan[q].idx,
                 Engine!Submit(<<q, k>>) \/ Engine!Decide(<<q, k>>) \/ Engine!Settle(<<q, k>>)
          PROVE  stage'[<<p, i>>] = stage[<<p, i>>]
      <3>1. <<q, k>> \in StepIds /\ <<p, i>> \in StepIds /\ TypeOK
        BY <1>1, <2>2 DEF StepIds, PlanInv
      <3>2. <<p, i>> # <<q, k>>
        BY <1>1, <2>2, <3>1 DEF TypeOK, Run, Steps
      <3>3. QED
        BY <2>2, <3>1, <3>2, EngineOperations
    <2>3. QED
      BY <1>1, <2>1, <2>2, EngineMoves
  <1>2. PlanInv /\ [Next]_vars =>
          [\A p \in Plans :
             /\ plan[p].cancel /\ ~plan'[p].cancel =>
                  plan'[p].status \in Terminal \cup {"awaiting_narration"}
             /\ plan[p].cancel \/ plan[p].status = "cancelled" =>
                  \A i \in Steps : i > plan[p].idx => stage'[<<p, i>>] = stage[<<p, i>>]]_vars
    <2> SUFFICES ASSUME PlanInv, [Next]_vars, NEW p \in Plans
                 PROVE  /\ plan[p].cancel /\ ~plan'[p].cancel =>
                             plan'[p].status \in Terminal \cup {"awaiting_narration"}
                        /\ plan[p].cancel \/ plan[p].status = "cancelled" =>
                             \A i \in Steps :
                               i > plan[p].idx => stage'[<<p, i>>] = stage[<<p, i>>]
      OBVIOUS
    <2>1. RowMoves(plan[p], plan'[p])
      BY NextPlanInv DEF RowsMove
    <2>2. QED
      BY <1>1, <2>1 DEF RowMoves
  <1>3. QED
    BY <1>2, PlanInvariant, PTL DEF Spec, CancelHolds

\* The saga uses the engine by its protocol: each of its steps is one operation of the
\* engine, on one step of one plan, or none.
THEOREM SagaUsesTheEngine == Spec => Engine!Spec
  <1>1. Init => Engine!Init
    BY DEF Init
  <1>2. PlanInv /\ [Next]_vars => [Engine!Next]_<<stage, effects>>
    <2> SUFFICES ASSUME PlanInv, [Next]_vars PROVE [Engine!Next]_<<stage, effects>>
      OBVIOUS
    <2>1. \A p \in Plans, i \in Steps : <<p, i>> \in StepIds
      BY DEF StepIds
    <2>2. QED
      BY <2>1, EngineMoves DEF Engine!Next
  <1>3. QED
    BY <1>1, <1>2, PlanInvariant, PTL DEF Spec, Engine!Spec

-----------------------------------------------------------------------------
(* What the narrator is told, while no lease expires under a worker that is *)
(* alive: then a worker that is about to submit a step still holds its plan. *)

\* A worker with a fresh copy has the lease, alone; and a worker does not come to
\* submit with a stale one.
LeaseFits ==
  /\ \A w \in Workers : job[w].fresh /\ job[w].pc # "cancelling" => Row(w).lease = "live"
  /\ \A v, w \in Workers :
       /\ v # w /\ job[v].fresh /\ job[w].fresh
       /\ job[v].pc # "cancelling" /\ job[w].pc # "cancelling"
       => job[v].plan # job[w].plan
  /\ \A w \in Workers : job[w].pc = "ready" => job[w].fresh

TellInv ==
  /\ LeaseFits
  /\ \A p \in Plans : RowTells(p, plan[p])
  /\ \A s \in StepIds : effects[s] > 0 => stage[s] # "idle"

\* A worker that is about to submit is at the current step of its plan, which is
\* active and ready: nobody else writes that plan.
LEMMA ReadyHolds ==
  ASSUME PlanInv, LeaseFits, NEW w \in Workers, job[w].pc = "ready"
  PROVE  /\ job[w].fresh /\ job[w].plan \in Plans /\ Row(w) \in Run /\ ValidRun(Row(w))
         /\ Row(w).status = "active" /\ Row(w).lease = "live"
         /\ Row(w).idx \in Steps /\ job[w].idx = Row(w).idx /\ Row(w).step[Row(w).idx] = "ready"
  <1>1. job[w].fresh /\ Row(w).lease = "live"
    BY DEF LeaseFits
  <1>2. /\ job[w].plan \in Plans /\ Row(w) \in Run /\ ValidRun(Row(w)) /\ Row(w).status = "active"
        /\ job[w].idx = Row(w).idx /\ Row(w).step[Row(w).idx] = "ready"
    BY <1>1, FreshFits DEF CopyFits
  <1>3. QED
    BY <1>1, <1>2, AtAStep

\* A write by somebody else than a worker, or by one, leaves the others' leases.
LEMMA LeaseKept ==
  ASSUME PlanInv, LeaseFits, NEW p \in Plans, NEW r, plan' = [plan EXCEPT ![p] = r],
         NEW w,
         \A v \in Workers : v # w => job'[v] = Outdated(v, p),
         \A v \in Workers : v # w => ~(job[v].pc = "ready" /\ job[v].plan = p),
         \A v \in Workers : v = w =>
           /\ job'[v].pc = "ready" => job'[v].fresh
           /\ job'[v].fresh => job'[v].plan = p
           /\ job'[v].fresh /\ job'[v].pc # "cancelling" => r.lease = "live"
  PROVE  LeaseFits'
  <1>1. ASSUME NEW v \in Workers, v # w
        PROVE  /\ job'[v].pc = job[v].pc /\ job'[v].plan = job[v].plan
               /\ job[v].fresh /\ job[v].plan # p => job'[v].fresh
               /\ job'[v].fresh => /\ job[v].fresh /\ job[v].plan # p
                                   /\ plan'[job[v].plan] = plan[job[v].plan]
    <2>1. job[v] \in Job /\ JobFits(job[v], plan)
      BY DEF PlanInv, TypeOK
    <2>2. /\ job'[v].pc = job[v].pc /\ job'[v].plan = job[v].plan
          /\ job'[v].fresh = (job[v].fresh /\ job[v].plan # p)
      BY <1>1, <2>1 DEF Outdated, Job
    <2>3. job'[v].fresh => plan'[job[v].plan] = plan[job[v].plan]
      BY <2>1, <2>2 DEF JobFits, PlanInv, TypeOK
    <2>4. QED
      BY <2>2, <2>3
  <1>2. plan'[p] = r
    BY DEF PlanInv, TypeOK
  <1>3. ASSUME NEW v \in Workers, job'[v].fresh, job'[v].pc # "cancelling"
        PROVE  plan'[job'[v].plan].lease = "live"
    <2>1. CASE v = w
      BY <1>2, <1>3, <2>1
    <2>2. CASE v # w
      BY <1>1, <1>3, <2>2 DEF LeaseFits, Row
    <2>3. QED
      BY <2>1, <2>2
  <1>4. ASSUME NEW u \in Workers, NEW v \in Workers, u # v, job'[u].fresh, job'[v].fresh,
               job'[u].pc # "cancelling", job'[v].pc # "cancelling"
        PROVE  job'[u].plan # job'[v].plan
    <2>1. CASE u # w /\ v # w
      BY <1>1, <1>4, <2>1 DEF LeaseFits
    <2>2. CASE u = w \/ v = w
      BY <1>1, <1>4, <2>2
    <2>3. QED
      BY <2>1, <2>2
  <1>5. ASSUME NEW v \in Workers, job'[v].pc = "ready" PROVE job'[v].fresh
    <2>1. CASE v = w
      BY <1>5, <2>1
    <2>2. CASE v # w
      BY <1>1, <1>5, <2>2 DEF LeaseFits
    <2>3. QED
      BY <2>1, <2>2
  <1>6. QED
    BY <1>3, <1>4, <1>5 DEF LeaseFits, Row

\* A worker that writes its plan keeps the lease, or stops.
LEMMA LeaseSaved ==
  ASSUME PlanInv, LeaseFits, NEW w \in Workers, NEW r \in Run, NEW j \in Job, Save(w, r, j),
         \/ j = Idle
         \/ /\ j.plan = job[w].plan /\ job[w].pc # "cancelling"
            /\ Row(w).lease = "live" => r.lease = "live"
            /\ j.pc = "ready" => j.fresh
  PROVE  LeaseFits'
  <1> DEFINE p == job[w].plan
  <1>1. /\ job[w].fresh /\ p \in Plans /\ CopyFits(job[w], Row(w))
        /\ plan' = [plan EXCEPT ![p] = r]
    BY FreshFits DEF Save, Write
  <1>2. job'[w] = j /\ \A v \in Workers : v # w => job'[v] = Outdated(v, p)
    BY DEF Save, Outdate, Outdated
  <1>3. ASSUME NEW v \in Workers, v # w, job[v].pc = "ready", job[v].plan = p PROVE FALSE
    <2>1. job[v].fresh /\ Row(v).status = "active" /\ Row(v) = Row(w)
      BY <1>3, ReadyHolds DEF Row
    <2>2. job[w].pc # "cancelling"
      BY <1>1, <2>1 DEF CopyFits
    <2>3. QED
      BY <1>1, <1>3, <2>1, <2>2 DEF LeaseFits
  <1>4. /\ j.pc = "ready" => j.fresh
        /\ j.fresh => j.plan = p /\ r.lease = "live"
    <2>1. CASE j = Idle
      BY <2>1 DEF Idle
    <2>2. CASE j # Idle
      BY <1>1, <2>2 DEF LeaseFits
    <2>3. QED
      BY <2>1, <2>2
  <1>5. \A v \in Workers : v = w =>
          /\ job'[v].pc = "ready" => job'[v].fresh
          /\ job'[v].fresh => job'[v].plan = p
          /\ job'[v].fresh /\ job'[v].pc # "cancelling" => r.lease = "live"
    BY <1>2, <1>4
  <1>6. \A v \in Workers : v # w => ~(job[v].pc = "ready" /\ job[v].plan = p)
    BY <1>3
  <1> HIDE DEF p
  <1>7. QED
    BY <1>1, <1>2, <1>5, <1>6, LeaseKept

\* A request writes a plan that no worker is about to submit a step of.
LEMMA LeaseRequested ==
  ASSUME PlanInv, LeaseFits, NEW p \in Plans, NEW r, Write(p, r), OutdateAll(p),
         plan[p].status # "active" \/ plan[p].step[plan[p].idx] # "ready"
  PROVE  LeaseFits'
  <1>1. plan' = [plan EXCEPT ![p] = r] /\ \A v \in Workers : job'[v] = Outdated(v, p)
    BY DEF Write, OutdateAll, Outdated
  <1>2. ASSUME NEW v \in Workers, job[v].pc = "ready", job[v].plan = p PROVE FALSE
    BY <1>2, ReadyHolds DEF Row
  <1>3. PICK w : w \notin Workers
    BY NoSetContainsEverything
  <1>4. QED
    BY <1>1, <1>2, <1>3, LeaseKept

\* A worker goes on, and no row changes.
LEMMA LeaseOfJob ==
  ASSUME PlanInv, LeaseFits, UNCHANGED plan, NEW w \in Workers, NEW j \in Job,
         job' = [job EXCEPT ![w] = j],
         \/ j.pc \in {"idle", "cancelling"} /\ (j.pc = "idle" => ~j.fresh)
         \/ /\ j.plan = job[w].plan /\ j.fresh = job[w].fresh /\ job[w].pc # "cancelling"
            /\ j.pc = "ready" => j.fresh
  PROVE  LeaseFits'
  <1>1. job'[w] = j /\ \A v \in Workers : v # w => job'[v] = job[v]
    BY DEF PlanInv, TypeOK
  <1>2. \A v \in Workers : /\ job'[v].fresh /\ job'[v].pc # "cancelling" =>
                                /\ job[v].fresh /\ job[v].pc # "cancelling"
                                /\ job'[v].plan = job[v].plan
                           /\ job'[v].pc = "ready" => job'[v].fresh
    BY <1>1 DEF LeaseFits
  <1>3. QED
    BY <1>2 DEF LeaseFits, Row

\* What is written is told, and what is not stays so.
LEMMA WriteTells ==
  ASSUME PlanInv, TellInv, EngineUnchanged, NEW p \in Plans, NEW r, plan' = [plan EXCEPT ![p] = r],
         RowTells(p, r), LeaseFits'
  PROVE  TellInv'
  <1>1. ASSUME NEW q \in Plans PROVE RowTells(q, plan[q])'
    <2>1. RowTells(q, plan'[q])
      BY DEF PlanInv, TypeOK, TellInv
    <2>2. QED
      BY <2>1 DEF RowTells, EngineUnchanged
  <1>2. QED
    BY <1>1 DEF TellInv, EngineUnchanged

\* A worker writes a row that is told, and keeps its lease or gives it up.
LEMMA SaveTells ==
  ASSUME PlanInv, TellInv, EngineUnchanged, NEW w \in Workers, NEW r \in Run, NEW j \in Job,
         Save(w, r, j), RowTells(job[w].plan, r),
         \/ j = Idle
         \/ /\ j.plan = job[w].plan /\ job[w].pc # "cancelling"
            /\ Row(w).lease = "live" => r.lease = "live"
            /\ j.pc = "ready" => j.fresh
  PROVE  TellInv'
  <1>1. job[w].plan \in Plans /\ plan' = [plan EXCEPT ![job[w].plan] = r]
    BY FreshFits DEF Save, Write
  <1>2. LeaseFits'
    BY LeaseSaved DEF TellInv
  <1>3. QED
    BY <1>1, <1>2, WriteTells

\* A step without a write, in the saga or in the engine.
LEMMA StepTells ==
  ASSUME PlanInv, TellInv, UNCHANGED plan, LeaseFits',
         \/ UNCHANGED <<stage, effects>>
         \/ \E p \in Plans, i \in Steps :
              /\ i = plan[p].idx
                 => plan[p].step[i] \in {"ready", "waiting_for_player"} \/ stage[<<p, i>>] # "idle"
              /\ Engine!Submit(<<p, i>>) \/ Engine!Decide(<<p, i>>) \/ Engine!Settle(<<p, i>>)
  PROVE  TellInv'
  <1>1. CASE UNCHANGED <<stage, effects>>
    BY <1>1 DEF TellInv, RowTells
  <1>2. ASSUME NEW p \in Plans, NEW i \in Steps,
               i = plan[p].idx =>
                 plan[p].step[i] \in {"ready", "waiting_for_player"} \/ stage[<<p, i>>] # "idle",
               Engine!Submit(<<p, i>>) \/ Engine!Decide(<<p, i>>) \/ Engine!Settle(<<p, i>>)
        PROVE  TellInv'
    <2> DEFINE s == <<p, i>>
    <2>1. s \in StepIds /\ TypeOK
      BY <1>2 DEF StepIds, PlanInv
    <2>2. /\ \A t \in StepIds : t # s => stage'[t] = stage[t] /\ effects'[t] = effects[t]
          /\ stage'[s] # "idle"
      BY <1>2, <2>1, EngineOperations
      DEF Engine!Submit, Engine!Decide, Engine!Settle, Engine!MoveTo, TypeOK
    <2>3. ASSUME NEW q \in Plans PROVE RowTells(q, plan[q])'
      <3>1. RowTells(q, plan[q]) /\ plan'[q] = plan[q]
        BY DEF TellInv
      <3>2. CASE <<q, plan[q].idx>> = s
        BY <1>2, <3>1, <3>2 DEF RowTells
      <3>3. CASE <<q, plan[q].idx>> # s
        BY <2>2, <3>1, <3>3 DEF RowTells, StepIds
      <3>4. QED
        BY <3>2, <3>3
    <2>4. \A t \in StepIds : effects'[t] > 0 => stage'[t] # "idle"
      BY <2>2 DEF TellInv
    <2>5. QED
      BY <2>3, <2>4 DEF TellInv
  <1>3. QED
    BY <1>1, <1>2

\* A worker whose copy is fresh, and the row it is at.
LEMMA FreshTells ==
  ASSUME PlanInv, TellInv, NEW w \in Workers, job[w].fresh,
         Row(w).status \in {"active", "waiting_for_player"}
  PROVE  /\ Row(w) \in Run /\ job[w] \in Job /\ job[w].plan \in Plans /\ Row(w).idx \in Steps
         /\ RowTells(job[w].plan, Row(w))
         /\ RowFits(job[w].plan, Row(w)) /\ ValidRun(Row(w))
  <1>1. Row(w) \in Run /\ job[w] \in Job /\ job[w].plan \in Plans /\ ValidRun(Row(w))
        /\ RowFits(job[w].plan, Row(w))
    BY FreshFits
  <1>2. RowTells(job[w].plan, Row(w))
    BY <1>1 DEF TellInv, Row
  <1>3. QED
    BY <1>1, <1>2, AtAStep

\* A full window: the step is not begun.
LEMMA CheckpointTells ==
  ASSUME PlanInv, TellInv, NEW w \in Workers, Checkpoint(w)
  PROVE  TellInv'
  <1> DEFINE r == [To(Row(w), "checkpointed") EXCEPT !.lease = "none"]
  <1>1. Save(w, r, Idle) /\ EngineUnchanged /\ job[w].pc = "loop" /\ job[w].fresh
    BY DEF Checkpoint, Save
  <1>2. Row(w).status = "active"
    BY <1>1, FreshFits DEF CopyFits
  <1>3. Row(w) \in Run /\ RowTells(job[w].plan, Row(w))
    BY <1>1, <1>2, FreshTells
  <1>4. /\ r \in Run /\ r.status = "checkpointed" /\ r.idx = Row(w).idx /\ r.step = Row(w).step
        /\ r.exec = Row(w).exec
    BY <1>3, ToFields DEF Run, PlanStatus, Reserving
  <1> HIDE DEF r
  <1>5. RowTells(job[w].plan, r)
    BY <1>3, <1>4 DEF RowTells
  <1>6. QED
    BY <1>1, <1>4, <1>5, IdleFits, SaveTells

\* A worker at a step writes what became of it: the step it is at was not taken by the
\* engine, or is ready.
LEMMA StepTold ==
  ASSUME PlanInv, TellInv, EngineUnchanged, NEW w \in Workers,
         job[w].fresh, Row(w).status = "active",
         NEW r \in Run, NEW pc \in {"loop", "freezing", "ready", "release"}, NEW j,
         Save(w, r, j), j = Idle \/ (j = At(w, pc) /\ (Row(w).lease = "live" => r.lease = "live")),
         r.idx = Row(w).idx, NEW s \in StepStatus,
         r.step = [Row(w).step EXCEPT ![Row(w).idx] = s],
         s \in {"pending", "adjudicating", "ready", "stopped"},
         s \in {"pending", "adjudicating", "ready"} => ~r.exec,
         s # "ready" => stage[<<job[w].plan, Row(w).idx>>] = "idle",
         r.status \in {"cancelled", "stopped"} => s = "stopped"
  PROVE  TellInv'
  <1>1. /\ Row(w) \in Run /\ job[w] \in Job /\ job[w].plan \in Plans /\ Row(w).idx \in Steps
        /\ job[w].pc \notin {"idle", "cancelling"}
    BY FreshTells, FreshFits DEF CopyFits
  <1>2. r.step[r.idx] = s
    BY <1>1 DEF Run
  <1>3. RowTells(job[w].plan, r)
    BY <1>1, <1>2 DEF RowTells, Run
  <1>4. /\ j \in Job
        /\ j = Idle \/ (j.plan = job[w].plan /\ j.fresh = job[w].fresh
           /\ (Row(w).lease = "live" => r.lease = "live"))
    <2>1. CASE j = Idle
      BY <2>1, IdleFits
    <2>2. CASE j = At(w, pc) /\ (Row(w).lease = "live" => r.lease = "live")
      <3>1. j \in Job /\ j = [job[w] EXCEPT !.pc = pc]
        BY <1>1, <2>2, AtFields
      <3>2. j.plan = job[w].plan /\ j.fresh = job[w].fresh
        BY <1>1, <3>1 DEF Job
      <3>3. QED
        BY <2>2, <3>1, <3>2
    <2>3. QED
      BY <2>1, <2>2
  <1>5. QED
    BY <1>1, <1>3, <1>4, SaveTells

\* The step is marked: the engine has not seen it.
LEMMA StartFreezeTells ==
  ASSUME PlanInv, TellInv, NEW w \in Workers, StartFreeze(w)
  PROVE  TellInv'
  <1> DEFINE r == SetStep(Row(w), "adjudicating")
  <1>1. /\ Save(w, r, At(w, "freezing")) /\ EngineUnchanged /\ job[w].fresh
        /\ job[w].pc = "loop" /\ Row(w).step[job[w].idx] = "pending"
    BY DEF StartFreeze, Save
  <1>2. Row(w).status = "active" /\ job[w].idx = Row(w).idx
    BY <1>1, FreshFits DEF CopyFits
  <1>3. Row(w) \in Run /\ Row(w).idx \in Steps /\ RowTells(job[w].plan, Row(w))
    BY <1>1, <1>2, FreshTells
  <1>4. Row(w).exec = FALSE /\ stage[<<job[w].plan, Row(w).idx>>] = "idle"
    BY <1>1, <1>2, <1>3 DEF RowTells
  <1>5. /\ r \in Run /\ r.status = "active" /\ r.idx = Row(w).idx /\ r.lease = Row(w).lease
        /\ r.step = [Row(w).step EXCEPT ![Row(w).idx] = "adjudicating"]
        /\ "adjudicating" \in StepStatus
    BY <1>2, <1>3, SetStepFields DEF StepStatus
  <1>6. r.exec = FALSE
    BY <1>3, <1>4, <1>5, SetStepFields
  <1> HIDE DEF r
  <1>7. QED
    BY <1>1, <1>2, <1>4, <1>5, <1>6, StepTold

\* The step is ready: from here on the engine may have it.
LEMMA FreezeTells ==
  ASSUME PlanInv, TellInv, NEW w \in Workers, Freeze(w)
  PROVE  TellInv'
  <1> DEFINE r == SetStep(Row(w), "ready")
  <1>1. /\ Save(w, r, At(w, "ready")) /\ EngineUnchanged /\ job[w].fresh /\ job[w].pc = "freezing"
    BY DEF Freeze, Save
  <1>2. Row(w).status = "active" /\ Row(w).step[Row(w).idx] = "adjudicating"
    BY <1>1, FreshFits DEF CopyFits
  <1>3. Row(w) \in Run /\ Row(w).idx \in Steps /\ RowTells(job[w].plan, Row(w))
    BY <1>1, <1>2, FreshTells
  <1>4. Row(w).exec = FALSE
    BY <1>2, <1>3 DEF RowTells
  <1>5. /\ r \in Run /\ r.status = "active" /\ r.idx = Row(w).idx /\ r.lease = Row(w).lease
        /\ r.step = [Row(w).step EXCEPT ![Row(w).idx] = "ready"] /\ "ready" \in StepStatus
    BY <1>2, <1>3, SetStepFields DEF StepStatus
  <1>6. r.exec = FALSE
    BY <1>3, <1>4, <1>5, SetStepFields
  <1> HIDE DEF r
  <1>7. QED
    BY <1>1, <1>2, <1>5, <1>6, StepTold

\* A failed adjudication: the engine has not seen the step.
LEMMA FreezeFailsTells ==
  ASSUME PlanInv, TellInv, NEW w \in Workers, FreezeFails(w)
  PROVE  TellInv'
  <1>1. PICK s \in {"pending", "stopped"}, status \in {"retryable_failure", "needs_clarification"} :
          Save(w, To(SetStep(Row(w), s), status), At(w, "release"))
    BY DEF FreezeFails
  <1> DEFINE r == To(SetStep(Row(w), s), status)
  <1>2. job[w].pc = "freezing" /\ EngineUnchanged /\ job[w].fresh
    BY <1>1 DEF FreezeFails, Save
  <1>3. Row(w).status = "active" /\ Row(w).step[Row(w).idx] = "adjudicating"
    BY <1>2, FreshFits DEF CopyFits
  <1>4. Row(w) \in Run /\ Row(w).idx \in Steps /\ RowTells(job[w].plan, Row(w))
    BY <1>2, <1>3, FreshTells
  <1>5. stage[<<job[w].plan, Row(w).idx>>] = "idle"
    BY <1>3, <1>4 DEF RowTells
  <1>6. s \in StepStatus /\ status \in PlanStatus /\ status \notin Terminal
    BY DEF StepStatus, PlanStatus, Reserving, Terminal
  <1>7. /\ r \in Run /\ r.status = status /\ r.idx = Row(w).idx /\ r.lease = Row(w).lease
        /\ r.step = [Row(w).step EXCEPT ![Row(w).idx] = s]
    BY <1>4, <1>6, SetStepToFields
  <1>8. s = "pending" => ~r.exec
    BY <1>4, <1>6, SetStepToExec
  <1> HIDE DEF r
  <1>9. QED
    BY <1>1, <1>2, <1>3, <1>5, <1>6, <1>7, <1>8, StepTold DEF r

\* A refused step left nothing in the engine.
LEMMA RejectTells ==
  ASSUME PlanInv, TellInv, NEW w \in Workers, Reject(w)
  PROVE  TellInv'
  <1> DEFINE row == Row(w)
  <1>1. job[w].pc = "ready" /\ EngineUnchanged /\ job[w].fresh /\ stage[StepId(w)] = "idle"
    BY DEF Reject, Save
  <1>2. row.status = "active" /\ job[w].idx = row.idx
    BY <1>1, FreshFits DEF CopyFits
  <1>3. row \in Run /\ row.idx \in Steps
    BY <1>1, <1>2, FreshTells
  <1>4. stage[<<job[w].plan, row.idx>>] = "idle"
    BY <1>1, <1>2 DEF StepId
  <1>5. ASSUME NEW status \in {"needs_clarification", "stopped"}, NEW j,
               Save(w, StopForValidation(row, status), j),
               j = Idle \/ (j = At(w, "release") /\ status = "needs_clarification")
        PROVE  TellInv'
    <2> DEFINE r == StopForValidation(row, status)
               t == To(SetStep(row, "stopped"), status)
    <2>1. status \in PlanStatus /\ "stopped" \in StepStatus /\ "needs_clarification" \notin Terminal
      BY DEF StepStatus, PlanStatus, Reserving, Terminal
    <2>2. /\ t \in Run /\ t.status = status /\ t.idx = row.idx
          /\ t.step = [row.step EXCEPT ![row.idx] = "stopped"]
          /\ status = "needs_clarification" => t.lease = row.lease
      BY <1>3, <2>1, SetStepToFields
    <2>3. r = [t EXCEPT !.exec = FALSE]
      BY DEF StopForValidation
    <2> HIDE DEF t, r
    <2>4. /\ r \in Run /\ r.status = status /\ r.idx = row.idx
          /\ r.step = [row.step EXCEPT ![row.idx] = "stopped"]
          /\ status = "needs_clarification" => r.lease = row.lease
      BY <2>2, <2>3 DEF Run
    <2>5. Save(w, r, j)
          /\ (j = Idle \/ (j = At(w, "release") /\ (row.lease = "live" => r.lease = "live")))
      BY <1>5, <2>4 DEF r
    <2>6. QED
      BY <1>1, <1>2, <1>4, <2>1, <2>4, <2>5, StepTold
  <1>6. ASSUME Save(w, To(SetStep(row, "pending"), "retryable_failure"), At(w, "release"))
        PROVE  TellInv'
    <2> DEFINE r == To(SetStep(row, "pending"), "retryable_failure")
    <2>1. /\ "retryable_failure" \in PlanStatus /\ "pending" \in StepStatus
          /\ "retryable_failure" \notin Terminal
      BY DEF StepStatus, PlanStatus, Reserving, Terminal
    <2>2. /\ r \in Run /\ r.status = "retryable_failure" /\ r.idx = row.idx /\ r.lease = row.lease
          /\ r.step = [row.step EXCEPT ![row.idx] = "pending"]
      BY <1>3, <2>1, SetStepToFields
    <2>3. ~r.exec
      BY <1>3, <2>1, SetStepToExec
    <2> HIDE DEF r
    <2>4. Save(w, r, At(w, "release"))
      BY <1>6 DEF r
    <2>5. QED
      BY <1>1, <1>2, <1>4, <2>1, <2>2, <2>3, <2>4, StepTold
  <1>7. ASSUME CanRepair(row), Save(w, PrepareRepair(row), At(w, "loop"))
        PROVE  TellInv'
    <2> DEFINE r == PrepareRepair(row)
               t == SetStep(row, "pending")
    <2>1. /\ t \in Run /\ t.status = row.status /\ t.idx = row.idx /\ t.lease = row.lease
          /\ t.step = [row.step EXCEPT ![row.idx] = "pending"] /\ t.exec = FALSE
          /\ t.repairs = row.repairs /\ "pending" \in StepStatus
      BY <1>3, SetStepFields DEF StepStatus
    <2>2. row.repairs + 1 \in 0 .. MaxRepairs
      BY <1>3, <1>7, PolicyAssumption DEF CanRepair, Run
    <2>3. r = [t EXCEPT !.repairs = t.repairs + 1]
      BY DEF PrepareRepair
    <2> HIDE DEF t, r
    <2>4. /\ r \in Run /\ r.status = "active" /\ r.idx = row.idx /\ r.lease = row.lease
          /\ r.step = [row.step EXCEPT ![row.idx] = "pending"]
      BY <1>2, <2>1, <2>2, <2>3 DEF Run
    <2>5. ~r.exec
      BY <2>1, <2>3 DEF Run
    <2>6. Save(w, r, At(w, "loop"))
      BY <1>7 DEF r
    <2>7. QED
      BY <1>1, <1>2, <1>4, <2>1, <2>4, <2>5, <2>6, StepTold
  <1>8. QED
    BY <1>5, <1>6, <1>7 DEF Reject

\* An adopted outcome goes with its execution.
LEMMA ApplyExecutionTells ==
  ASSUME PlanInv, TellInv, NEW w \in Workers, ApplyExecution(w)
  PROVE  TellInv'
  <1> DEFINE p == job[w].plan
             row == Row(w)
             r == Adopted(row, job[w].seen, job[w].good)
             on == [At(w, "loop") EXCEPT !.idx = r.idx, !.done = @ + 1]
             j == CASE r.status = "active" -> on
                    [] r.status \in Terminal -> Idle
                    [] OTHER -> At(w, "release")
  <1>1. Save(w, r, j) /\ EngineUnchanged /\ job[w].pc = "executed" /\ job[w].fresh
    BY DEF ApplyExecution, Save
  <1>2. /\ row \in Run /\ RowFits(p, row) /\ ValidRun(row) /\ job[w] \in Job /\ p \in Plans
        /\ row.status \in {"active", "waiting_for_player"} /\ job[w].idx = row.idx
    BY <1>1, FreshFits DEF CopyFits
  <1>3. /\ job[w].seen \in Engine!Stages \ {"idle"} /\ job[w].good \in BOOLEAN
        /\ job[w].good => Succeeded(<<p, row.idx>>)
        /\ stage[<<p, row.idx>>] # "idle" /\ job[w].done < MaxPerWindow
    BY <1>1, <1>2 DEF PlanInv, JobFits, Job
  <1>4. /\ r \in Run /\ RowTells(p, r) /\ (r.status \notin Terminal => r.lease = row.lease)
        /\ r.status \in Terminal \cup {"active", "waiting_for_player", "awaiting_narration"}
    BY <1>2, <1>3, AdoptedFits
  <1> HIDE DEF r
  <1>5. j \in Job /\ (j = Idle \/ (j.plan = p /\ j.pc # "ready" /\ r.status \notin Terminal))
    <2>1. CASE r.status = "active"
      <3>1. At(w, "loop") \in Job /\ At(w, "loop") = [job[w] EXCEPT !.pc = "loop"]
        BY <1>2, AtFields
      <3>2. job[w].done \in 0 .. MaxPerWindow
        BY <1>2 DEF Job
      <3>3. r.idx \in 1 .. StepCount + 1 /\ job[w].done + 1 \in 0 .. MaxPerWindow
        BY <1>3, <1>4, <3>2, PolicyAssumption DEF Run
      <3>4. on \in Job /\ on.pc = "loop" /\ on.plan = p
        BY <1>2, <3>1, <3>3 DEF Job
      <3>5. j = on /\ r.status \notin Terminal
        BY <2>1 DEF Terminal
      <3> HIDE DEF on, j
      <3>6. QED
        BY <3>4, <3>5
    <2>2. CASE r.status \in Terminal
      BY <2>2, IdleFits DEF Terminal
    <2>3. CASE r.status \in {"waiting_for_player", "awaiting_narration"}
      <3>1. j = At(w, "release") /\ r.status \notin Terminal
        BY <2>3 DEF Terminal
      <3>2. j \in Job /\ j = [job[w] EXCEPT !.pc = "release"]
        BY <1>2, <3>1, AtFields
      <3> HIDE DEF j
      <3>3. QED
        BY <1>2, <3>1, <3>2 DEF Job
    <2>4. QED
      BY <1>4, <2>1, <2>2, <2>3
  <1> HIDE DEF j
  <1>6. QED
    BY <1>1, <1>4, <1>5, SaveTells

\* Neither the lease nor the cancel flag is about a step.
LEMMA ReleaseLeaseTells ==
  ASSUME PlanInv, TellInv, NEW w \in Workers, ReleaseLease(w) \/ RequestCancel(w)
  PROVE  TellInv'
  <1>1. PICK r : /\ Save(w, r, Idle) /\ EngineUnchanged
                 /\ r = [Row(w) EXCEPT !.lease = "none"] \/ r = [Row(w) EXCEPT !.cancel = TRUE]
    BY DEF ReleaseLease, RequestCancel
  <1>2. Row(w) \in Run /\ job[w].plan \in Plans
    BY <1>1, FreshFits DEF Save
  <1>3. RowTells(job[w].plan, Row(w))
    BY <1>2 DEF TellInv, Row
  <1>4. /\ r \in Run /\ r.status = Row(w).status /\ r.idx = Row(w).idx /\ r.step = Row(w).step
        /\ r.exec = Row(w).exec
    BY <1>1, <1>2 DEF Run
  <1>5. RowTells(job[w].plan, r)
    BY <1>3, <1>4 DEF RowTells
  <1>6. QED
    BY <1>1, <1>4, <1>5, IdleFits, SaveTells

\* What a worker does without writing its plan.
LEMMA JobTells ==
  ASSUME PlanInv, TellInv, NEW w \in Workers,
         Reconcile(w) \/ TakeOverStep(w) \/ SubmitStep(w) \/ Abandon(w)
  PROVE  TellInv'
  <1>1. job[w] \in Job /\ UNCHANGED plan
    BY DEF PlanInv, TypeOK, Reconcile, TakeOverStep, SubmitStep, Abandon
  <1>2. PlanInv'
    BY ReconcileKeeps, TakeOverStepKeeps, SubmitStepKeeps, AbandonKeeps
  <1>3. job'[w] \in Job /\ job' = [job EXCEPT ![w] = job'[w]]
    <2>1. \E j : job' = [job EXCEPT ![w] = j]
      BY DEF Reconcile, TakeOverStep, SubmitStep, Abandon
    <2>2. QED
      BY <1>2, <2>1 DEF PlanInv, TypeOK
  <1>4. CASE Abandon(w)
    <2>1. job'[w] = Idle
      BY <1>4 DEF Abandon, PlanInv, TypeOK
    <2>2. LeaseFits'
      BY <1>1, <1>3, <2>1, LeaseOfJob DEF Idle, TellInv
    <2>3. QED
      BY <1>1, <1>4, <2>2, StepTells DEF Abandon, EngineUnchanged
  <1>5. CASE Reconcile(w) \/ TakeOverStep(w) \/ SubmitStep(w)
    <2>1. ASSUME TakeOverStep(w) PROVE LeaseFits'
      <3>1. PICK pc \in {"freezing", "ready"} : job' = [job EXCEPT ![w] = At(w, pc)]
        BY <2>1 DEF TakeOverStep
      <3>2. At(w, pc) \in Job /\ At(w, pc) = [job[w] EXCEPT !.pc = pc]
        BY <1>1, AtFields
      <3>3. At(w, pc).plan = job[w].plan /\ At(w, pc).fresh = job[w].fresh
        BY <1>1, <3>2 DEF Job
      <3>4. QED
        BY <1>1, <2>1, <3>1, <3>2, <3>3, LeaseOfJob DEF TakeOverStep, TellInv
    <2>2. ASSUME Reconcile(w) \/ SubmitStep(w) PROVE LeaseFits'
      <3>0. PICK pc \in {"release", "executed"} :
              \E seen, good :
                job' = [job EXCEPT ![w] = [job[w] EXCEPT !.pc = pc, !.seen = seen, !.good = good]]
        BY <1>1, <2>2, ZenonT(40) DEF Reconcile, SubmitStep, PlanInv, TypeOK
      <3>1. PICK seen, good :
              job' = [job EXCEPT ![w] = [job[w] EXCEPT !.pc = pc, !.seen = seen, !.good = good]]
        BY <3>0
      <3> DEFINE j == [job[w] EXCEPT !.pc = pc, !.seen = seen, !.good = good]
      <3>2. job' = [job EXCEPT ![w] = j] /\ j = job'[w]
        BY <3>1 DEF PlanInv, TypeOK
      <3>3. j.plan = job[w].plan /\ j.fresh = job[w].fresh /\ j.pc = pc
        BY <1>1 DEF Job
      <3> HIDE DEF j
      <3>4. job[w].pc # "cancelling" /\ j \in Job /\ pc # "ready"
        BY <1>3, <2>2, <3>2 DEF Reconcile, SubmitStep
      <3>5. QED
        BY <1>1, <3>2, <3>3, <3>4, LeaseOfJob DEF TellInv
    <2>3. LeaseFits'
      BY <1>5, <2>1, <2>2
    <2>4. CASE SubmitStep(w)
      <3>1. /\ job[w].plan \in Plans /\ job[w].idx \in Steps /\ job[w].idx = Row(w).idx
            /\ Row(w).step[Row(w).idx] = "ready"
        BY <2>4, ReadyHolds DEF SubmitStep, TellInv
      <3>2. Engine!Submit(<<job[w].plan, job[w].idx>>) \/ UNCHANGED <<stage, effects>>
        BY <2>4 DEF SubmitStep, StepId, EngineUnchanged
      <3>3. QED
        BY <1>1, <2>3, <3>1, <3>2, StepTells DEF Row
    <2>5. CASE Reconcile(w) \/ TakeOverStep(w)
      BY <1>1, <2>3, <2>5, StepTells DEF Reconcile, TakeOverStep, EngineUnchanged
    <2>6. QED
      BY <1>5, <2>4, <2>5
  <1>6. QED
    BY <1>4, <1>5

\* A request to cancel only reads at first.
LEMMA AskCancelTells ==
  ASSUME PlanInv, TellInv, NEW w \in Workers, NEW p \in Plans, AskCancel(w, p)
  PROVE  TellInv'
  <1>1. PlanInv' /\ UNCHANGED <<plan, stage, effects>>
    BY AskCancelKeeps DEF AskCancel, EngineUnchanged
  <1>2. PICK j : job' = [job EXCEPT ![w] = j] /\ j = [Idle EXCEPT !.pc = "cancelling", !.plan = p,
                                                      !.fresh = TRUE, !.idx = plan[p].idx]
    BY DEF AskCancel
  <1>3. j \in Job /\ j.pc = "cancelling"
    BY <1>1, <1>2 DEF PlanInv, TypeOK, Idle
  <1>4. LeaseFits'
    BY <1>1, <1>2, <1>3, LeaseOfJob DEF TellInv
  <1>5. QED
    BY <1>1, <1>4, StepTells

\* A player's decision: the step is one that the engine has.
LEMMA DecisionTells ==
  ASSUME PlanInv, TellInv, NEW p \in Plans, NEW i \in Steps,
         Engine!Decide(<<p, i>>) \/ Engine!Settle(<<p, i>>), UNCHANGED <<plan, job>>
  PROVE  TellInv'
  <1>1. stage[<<p, i>>] # "idle"
    BY DEF Engine!Decide, Engine!Settle
  <1>2. LeaseFits'
    BY DEF TellInv, LeaseFits, Row
  <1>3. QED
    BY <1>1, <1>2, StepTells

\* A request writes a row that is told, of a plan that no worker is submitting.
LEMMA RequestTells ==
  ASSUME PlanInv, TellInv, EngineUnchanged, NEW p \in Plans, NEW r, Write(p, r), OutdateAll(p),
         RowTells(p, r), plan[p].status # "active" \/ plan[p].step[plan[p].idx] # "ready"
  PROVE  TellInv'
  <1>1. LeaseFits'
    BY LeaseRequested DEF TellInv
  <1>2. plan' = [plan EXCEPT ![p] = r]
    BY DEF Write
  <1>3. QED
    BY <1>1, <1>2, WriteTells

\* The cancelled step has its execution.
LEMMA AdoptCancelledTells ==
  ASSUME PlanInv, TellInv, NEW p \in Plans, AdoptCancelled(p)
  PROVE  TellInv'
  <1> DEFINE r == Adopted(plan[p], "cancelled", FALSE)
  <1>1. /\ plan[p] \in Run /\ RowFits(p, plan[p]) /\ plan[p].status = "waiting_for_player"
        /\ stage[<<p, plan[p].idx>>] # "idle"
    BY DEF PlanInv, TypeOK, AdoptCancelled
  <1>2. ValidRun(plan[p]) /\ "cancelled" \in Engine!Stages \ {"idle"}
    BY <1>1 DEF RowFits, Reserving, Engine!Stages
  <1>3. RowTells(p, r)
    BY <1>1, <1>2, AdoptedFits
  <1>4. Write(p, r) /\ OutdateAll(p) /\ EngineUnchanged
    BY DEF AdoptCancelled
  <1> HIDE DEF r
  <1>5. QED
    BY <1>1, <1>3, <1>4, RequestTells

\* A completed plan is past its steps.
LEMMA MarkNarratedTells ==
  ASSUME PlanInv, TellInv, NEW p \in Plans, MarkNarrated(p)
  PROVE  TellInv'
  <1> DEFINE r == To(plan[p], "completed")
  <1>1. plan[p] \in Run /\ RowFits(p, plan[p]) /\ plan[p].status = "awaiting_narration"
    BY DEF PlanInv, TypeOK, MarkNarrated
  <1>2. r.idx = plan[p].idx /\ plan[p].idx > StepCount
    BY <1>1, ToFields DEF RowFits, PlanStatus, Terminal
  <1>3. Write(p, r) /\ OutdateAll(p) /\ EngineUnchanged
    BY DEF MarkNarrated
  <1> HIDE DEF r
  <1>4. RowTells(p, r)
    BY <1>1, <1>2, StepCountAssumption DEF RowTells, Steps, Run
  <1>5. QED
    BY <1>1, <1>3, <1>4, RequestTells

\* The steps that are cancelled with the plan have not begun.
LEMMA CancelRemainingTells ==
  ASSUME PlanInv, TellInv, NEW p \in Plans, CancelRemaining(p)
  PROVE  TellInv'
  <1> DEFINE row == plan[p]
             r == IF row.idx > StepCount THEN To(row, "cancelled")
                  ELSE To(SetStep(row, "stopped"), "cancelled")
  <1>1. /\ row \in Run /\ RowFits(p, row) /\ row.status \in Reserving \cup {"stopped"}
        /\ RowTells(p, row) /\ Cancellable(p) /\ Write(p, r) /\ OutdateAll(p) /\ EngineUnchanged
    BY DEF PlanInv, TypeOK, CancelRemaining, TellInv
  <1>2. /\ "cancelled" \in PlanStatus /\ "stopped" \in StepStatus
    BY DEF PlanStatus, Terminal, StepStatus
  <1>3. row.idx \in Steps <=> ~(row.idx > StepCount)
    BY <1>1, StepCountAssumption DEF Run, Steps
  <1>4. CASE row.idx > StepCount
    <2>1. r = To(row, "cancelled")
      BY <1>4
    <2> HIDE DEF r
    <2>2. r.idx = row.idx
      BY <1>1, <1>2, <2>1, ToFields
    <2>3. RowTells(p, r)
      BY <1>3, <1>4, <2>2 DEF RowTells
    <2>4. row.status # "active"
      BY <1>1, <1>3, <1>4, AtAStep DEF RowFits, Reserving
    <2>5. QED
      BY <1>1, <2>3, <2>4, RequestTells
  <1>5. CASE row.idx \in Steps
    <2>1. r = To(SetStep(row, "stopped"), "cancelled")
      BY <1>3, <1>5
    <2>2. \/ row.step[row.idx] = "pending"
          \/ row.status = "needs_clarification" /\ row.step[row.idx] = "stopped" /\ row.exec = FALSE
          \/ row.step[row.idx] = "stopped" /\ row.exec = TRUE
      <3>1. \/ row.step[row.idx] = "pending"
            \/ row.status = "needs_clarification" /\ row.exec = FALSE
            \/ row.step[row.idx] = "stopped" /\ row.exec = TRUE
        BY <1>1, <1>3, <1>5, StepCountAssumption DEF Cancellable, Run, Steps
      <3>2. row.status = "needs_clarification" => row.step[row.idx] = "stopped"
        BY <1>1, <1>3, <1>5 DEF RowFits, ValidRun, AllowedCurrent, Reserving
      <3>3. QED
        BY <3>1, <3>2
    <2> HIDE DEF r
    <2>3. /\ r \in Run /\ r.idx = row.idx /\ r.step = [row.step EXCEPT ![row.idx] = "stopped"]
      BY <1>1, <1>2, <1>5, <2>1, SetStepToFields
    <2>4. r.exec <=> row.exec
      BY <1>1, <1>2, <1>5, <2>1, SetStepToExec
    <2>5. r.step[r.idx] = "stopped"
      BY <1>1, <1>5, <2>3 DEF Run
    <2>6. row.exec \/ stage[<<p, row.idx>>] = "idle"
      BY <1>1, <1>5, <2>2 DEF RowTells, Run
    <2>7. RowTells(p, r)
      BY <2>3, <2>4, <2>5, <2>6 DEF RowTells
    <2>8. QED
      BY <1>1, <2>2, <2>7, RequestTells
  <1>6. QED
    BY <1>3, <1>4, <1>5

\* A new plan has not begun.
LEMMA CreateTells ==
  ASSUME PlanInv, TellInv, NEW p \in Plans, Create(p)
  PROVE  TellInv'
  <1>1. /\ plan' = [plan EXCEPT ![p] = NewRun] /\ job' = job /\ EngineUnchanged
        /\ plan[p].status = "none"
    BY DEF Create
  <1>2. RowFits(p, plan[p]) /\ RowTells(p, plan[p])
    BY DEF PlanInv, TellInv
  <1>3. 1 \in Steps /\ plan[p].idx = 1 /\ plan[p].step = [i \in Steps |-> "pending"]
    BY <1>1, <1>2, StepCountAssumption DEF RowFits, Steps
  <1>4. stage[<<p, 1>>] = "idle"
    BY <1>2, <1>3 DEF RowTells
  <1>5. NewRun.idx = 1 /\ NewRun.status = "active" /\ NewRun.exec = FALSE
        /\ NewRun.step[1] = "pending"
    BY <1>3 DEF NewRun
  <1>6. RowTells(p, NewRun)
    BY <1>4, <1>5 DEF RowTells
  <1>7. LeaseFits'
    <2>1. ASSUME NEW v \in Workers, job[v].fresh PROVE plan'[job[v].plan] = plan[job[v].plan]
      <3>1. job[v].plan \in Plans /\ plan[job[v].plan].status \in Reserving
        BY <2>1, FreshFits DEF CopyFits, Row
      <3>2. job[v].plan # p
        BY <1>1, <3>1 DEF Reserving
      <3>3. QED
        BY <1>1, <3>1, <3>2 DEF PlanInv, TypeOK
    <2>2. QED
      BY <1>1, <2>1 DEF LeaseFits, TellInv, Row
  <1>8. QED
    BY <1>1, <1>6, <1>7, WriteTells

\* Who claims a plan has its lease, alone.
LEMMA ClaimTells ==
  ASSUME PlanInv, TellInv, NEW w \in Workers, NEW p \in Plans, Claim(w, p)
  PROVE  TellInv'
  <1> DEFINE status == Claimed(plan[p].status)
             r == [plan[p] EXCEPT !.status = status, !.lease = "live"]
             j == [Idle EXCEPT !.pc = Entry(status), !.plan = p, !.fresh = TRUE,
                               !.idx = plan[p].idx]
  <1>1. plan[p] \in Run /\ RowTells(p, plan[p]) /\ plan[p].lease # "live"
        /\ plan[p].status \in Reserving
    BY DEF PlanInv, TypeOK, TellInv, Claim, MayClaim
  <1>2. Outdate(p, w, j) /\ plan' = [plan EXCEPT ![p] = r] /\ EngineUnchanged
    BY <1>1 DEF Claim, PlanInv, TypeOK, Run
  <1>3. status \notin {"cancelled", "stopped"}
    BY <1>1 DEF Claimed, Reserving
  <1>4. Entry(status) # "ready"
    BY DEF Entry
  <1> HIDE DEF status
  <1>5. /\ r.idx = plan[p].idx /\ r.step = plan[p].step /\ r.exec = plan[p].exec
        /\ r.status = status /\ r.lease = "live"
    BY <1>1 DEF Run
  <1>6. j.pc # "ready" /\ j.plan = p
    BY <1>4 DEF Idle
  <1>7. job'[w] = j
    BY <1>2 DEF Outdate
  <1> HIDE DEF r, j
  <1>8. RowTells(p, r)
    BY <1>1, <1>3, <1>5 DEF RowTells
  <1>9. \A v \in Workers : v # w => ~(job[v].pc = "ready" /\ job[v].plan = p)
    BY <1>1, ReadyHolds DEF TellInv, Row
  <1>10. \A v \in Workers : v = w =>
           /\ job'[v].pc = "ready" => job'[v].fresh
           /\ job'[v].fresh => job'[v].plan = p
           /\ job'[v].fresh /\ job'[v].pc # "cancelling" => r.lease = "live"
    BY <1>5, <1>6, <1>7
  <1>11. LeaseFits /\ plan' = [plan EXCEPT ![p] = r]
    BY <1>2 DEF TellInv, r
  <1>12. LeaseFits'
    <2>1. \A v \in Workers : v # w => job'[v] = Outdated(v, p)
      BY <1>2 DEF Outdate, Outdated
    <2>2. QED
      BY <1>9, <1>10, <1>11, <2>1, LeaseKept
  <1>13. QED
    BY <1>2, <1>8, <1>11, <1>12, WriteTells

\* The assumption is used here: no worker with a copy of the plan is at work on it.
LEMMA LeaseExpiresTells ==
  ASSUME PlanInv, TellInv, ~LeaseTtl, NEW p \in Plans, LeaseExpires(p)
  PROVE  TellInv'
  <1> DEFINE r == [plan[p] EXCEPT !.lease = "expired"]
  <1>1. /\ plan[p] \in Run /\ RowTells(p, plan[p]) /\ plan' = [plan EXCEPT ![p] = r]
        /\ job' = job /\ EngineUnchanged
        /\ \A w \in Workers : job[w].plan = p => job[w].pc = "cancelling"
    BY DEF PlanInv, TypeOK, TellInv, LeaseExpires
  <1>2. /\ r.status = plan[p].status /\ r.idx = plan[p].idx /\ r.step = plan[p].step
        /\ r.exec = plan[p].exec
    BY <1>1 DEF Run
  <1> HIDE DEF r
  <1>3. RowTells(p, r)
    BY <1>1, <1>2 DEF RowTells
  <1>4. LeaseFits'
    <2>1. ASSUME NEW v \in Workers, job[v].fresh, job[v].pc # "cancelling"
          PROVE  plan'[job[v].plan] = plan[job[v].plan]
      BY <1>1, <2>1, FreshFits DEF PlanInv, TypeOK
    <2>2. QED
      BY <1>1, <2>1 DEF LeaseFits, TellInv, Row
  <1>5. QED
    BY <1>1, <1>3, <1>4, WriteTells

\* Nothing is in the engine yet.
LEMMA InitTells ==
  ASSUME Init
  PROVE  TellInv
  <1>1. LeaseFits
    BY DEF Init, LeaseFits, Idle
  <1>2. ASSUME NEW p \in Plans PROVE RowTells(p, plan[p])
    <2>1. /\ plan[p] = NoRun /\ NoRun.idx = 1 /\ NoRun.exec = FALSE /\ NoRun.status = "none"
          /\ \A i \in Steps : NoRun.step[i] = "pending" /\ stage[<<p, i>>] = "idle"
      BY DEF Init, Engine!Init, NoRun, NewRun, StepIds
    <2>2. QED
      BY <2>1 DEF RowTells
  <1>3. \A s \in StepIds : ~(effects[s] > 0)
    BY DEF Init, Engine!Init
  <1>4. QED
    BY <1>1, <1>2, <1>3 DEF TellInv

\* No step makes a row say less than the engine did.
LEMMA NextTells ==
  ASSUME PlanInv, TellInv, ~LeaseTtl, [Next]_vars
  PROVE  TellInv'
  <1>1. ASSUME NEW w \in Workers, Advance(w) PROVE TellInv'
    BY <1>1, CheckpointTells, StartFreezeTells, FreezeTells, FreezeFailsTells, RejectTells,
       ApplyExecutionTells, ReleaseLeaseTells, JobTells
    DEF Advance
  <1>2. ASSUME NEW w \in Workers, NEW p \in Plans, Claim(w, p) \/ AskCancel(w, p) PROVE TellInv'
    BY <1>2, ClaimTells, AskCancelTells
  <1>3. ASSUME NEW p \in Plans,
               \/ Create(p)
               \/ AdoptCancelled(p)
               \/ CancelRemaining(p)
               \/ MarkNarrated(p)
               \/ LeaseExpires(p)
        PROVE  TellInv'
    BY <1>3, CreateTells, AdoptCancelledTells, CancelRemainingTells, MarkNarratedTells,
       LeaseExpiresTells
  <1>4. ASSUME NEW p \in Plans, CancelCheck(p) \/ RecoverCancel(p) PROVE TellInv'
    <2>1. plan[p] \in Run /\ RowFits(p, plan[p]) /\ plan[p].status = "waiting_for_player"
      BY <1>4 DEF PlanInv, TypeOK, RowFits, CancelCheck, RecoverCancel
    <2>2. plan[p].idx \in Steps
      BY <2>1, AtAStep DEF RowFits, Reserving
    <2>3. QED
      BY <1>4, <2>2, DecisionTells DEF CancelCheck, RecoverCancel
  <1>5. ASSUME NEW s \in StepIds, PlayerDecides(s) \/ PlayerSettles(s) PROVE TellInv'
    <2>1. PICK p \in Plans, i \in Steps : s = <<p, i>>
      BY DEF StepIds
    <2>2. QED
      BY <1>5, <2>1, DecisionTells DEF PlayerDecides, PlayerSettles
  <1>6. CASE ReservationExpires \/ UNCHANGED vars
    <2>1. UNCHANGED <<plan, job, stage, effects>>
      BY <1>6 DEF ReservationExpires, EngineUnchanged, vars
    <2>2. LeaseFits'
      BY <2>1 DEF TellInv, LeaseFits, Row
    <2>3. QED
      BY <2>1, <2>2, StepTells
  <1>7. QED
    BY <1>1, <1>2, <1>3, <1>4, <1>5, <1>6 DEF Next

\* As long as no lease expires under a worker that is alive, whatever crashes and
\* whoever takes over: a plan that is narrated is narrated with every effect its steps
\* have had in the engine (build_narration_context).
THEOREM EffectsReportedTheorem == ~LeaseTtl => (Spec => []EffectsReported)
  <1> SUFFICES ASSUME ~LeaseTtl PROVE Spec => []EffectsReported
    OBVIOUS
  <1>1. PlanInv /\ TellInv => EffectsReported
    <2> SUFFICES ASSUME PlanInv, TellInv, NEW p \in Plans, Narratable(p),
                        NEW i \in Steps, effects[<<p, i>>] > 0
                 PROVE  i \in NarrationSummaries(plan[p])
      BY DEF EffectsReported
    <2>1. plan[p] \in Run /\ RowFits(p, plan[p]) /\ RowTells(p, plan[p])
      BY DEF PlanInv, TypeOK, TellInv
    <2>2. stage[<<p, i>>] # "idle"
      BY DEF TellInv, StepIds
    <2>3. i <= plan[p].idx
      BY <2>2, SubmittedIsReached
    <2>4. CASE i < plan[p].idx
      BY <2>4 DEF NarrationSummaries, CompletedSummaries
    <2>5. CASE i = plan[p].idx
      <3>1. plan[p].status \in {"needs_clarification", "cancelled", "stopped"}
        <4>1. plan[p].status \in {"awaiting_narration", "completed", "needs_clarification",
                                  "cancelled", "stopped"}
          BY DEF Narratable, Termination
        <4>2. QED
          BY <2>1, <2>5, <4>1, StepCountAssumption DEF RowFits, Steps
      <3>2. plan[p].step[i] = "stopped"
        BY <2>1, <2>5, <3>1, StepCountAssumption
        DEF RowFits, RowTells, ValidRun, AllowedCurrent, Reserving, Steps
      <3>3. plan[p].exec
        BY <2>1, <2>2, <2>5, <3>2 DEF RowTells, Run
      <3>4. QED
        BY <2>5, <3>2, <3>3 DEF NarrationSummaries
    <2>6. QED
      BY <2>1, <2>3, <2>4, <2>5 DEF Run, Steps
  <1>2. Init => TellInv
    BY InitTells
  <1>3. PlanInv /\ TellInv /\ [Next]_vars => TellInv'
    BY NextTells
  <1>4. QED
    BY <1>1, <1>2, <1>3, PlanInvariant, PTL DEF Spec
=============================================================================
