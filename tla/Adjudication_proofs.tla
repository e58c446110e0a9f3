------------------------- MODULE Adjudication_proofs -------------------------
(***************************************************************************)
(* Proofs about Adjudication for every room: any players, actions, clicks, *)
(* workers and luck.                                                       *)
(*                                                                         *)
(* The argument is that of optimistic concurrency: what a worker validated *)
(* holds when it commits, because a commit requires the revision it loaded *)
(* and every commit moves the revision (ValidatedJobs).  The rest says     *)
(* what the rows of an action look like between commits.                   *)
(***************************************************************************)
EXTENDS Adjudication, FiniteSetTheorems, TLAPS

\* A job whose revision is still the room's is still valid, unless the game
\* was ended, which moves no revision.
ValidatedJobs ==
  \A w \in Workers : job[w] # NoJob =>
    /\ job[w].rev <= revision
    /\ job[w].msg.rev = job[w].rev
    /\ job[w].rev = revision /\ phase = "playing" => Valid(job[w].msg)

\* What exists of an action was submitted, and its effects were committed at
\* most once.
Submitted ==
  \A a \in Actions :
    /\ decision[a].status # "none" \/ effects[a] > 0 => Committed(a)
    /\ effects[a] \in {0, 1}

IInv == TypeOK /\ ValidatedJobs /\ RowsAgree /\ Submitted /\ CommittedOnWhatItSaw

-----------------------------------------------------------------------------
\* The invariant holds initially.
LEMMA InitIInv == Init => IInv
<1> SUFFICES ASSUME Init PROVE IInv
  OBVIOUS
<1> USE DEF Init
<1>1. TypeOK
  BY OwnerAssumption, LuckAssumption DEF TypeOK, Decision, Run, NoDecision, NoRun, NoJob
<1>2. ValidatedJobs
  BY DEF ValidatedJobs
<1>3. RowsAgree
  BY DEF RowsAgree, NoDecision, NoRun
<1>4. Submitted
  BY DEF Submitted, NoDecision
<1>5. CommittedOnWhatItSaw
  BY DEF CommittedOnWhatItSaw
<1> QED
  BY <1>1, <1>2, <1>3, <1>4, <1>5 DEF IInv

\* What a worker may commit is a valid message of the current revision.
LEMMA CommitIsValid ==
  ASSUME IInv, NEW w \in Workers, MayCommit(w)
  PROVE  /\ job[w] \in [msg : Msg, rev : Nat]
         /\ job[w].msg \in Msg
         /\ job[w].msg.action \in Actions
         /\ job[w].msg.rev = revision
         /\ Valid(job[w].msg)
<1>1. job[w] # NoJob /\ job[w].rev = revision
  BY DEF MayCommit
<1>2. job[w] \in [msg : Msg, rev : Nat]
  BY <1>1 DEF IInv, TypeOK
<1>3. job[w].msg \in Msg
  BY <1>2
<1>4. job[w].msg.action \in Actions
  BY <1>3 DEF Msg
<1>5. job[w].msg.rev = revision /\ Valid(job[w].msg)
  BY <1>1 DEF IInv, ValidatedJobs, MayCommit
<1> QED
  BY <1>2, <1>3, <1>4, <1>5

\* A commit is recorded, whatever the command.
LEMMA CommitRecords ==
  ASSUME NEW w \in Workers, Commit(w)
  PROVE  /\ MayCommit(w)
         /\ \E s \in {"awaiting_skill_choice", "awaiting_post_roll_decision",
                      "resolved", "cancelled"} : Record(w, s)
<1>1. CASE SubmitUnchecked(w)
  BY <1>1 DEF SubmitUnchecked
<1>2. CASE SubmitChecked(w)
  BY <1>2 DEF SubmitChecked
<1>3. CASE CancelCheck(w)
  BY <1>3 DEF CancelCheck
<1>4. CASE SelectAndRoll(w)
  BY <1>4 DEF SelectAndRoll
<1>5. CASE AcceptResult(w)
  BY <1>5 DEF AcceptResult, Resolve
<1>6. CASE SpendLuck(w)
  BY <1>6 DEF SpendLuck, Resolve
<1>7. CASE Push(w)
  BY <1>7 DEF Push, Resolve
<1> QED
  BY <1>1, <1>2, <1>3, <1>4, <1>5, <1>6, <1>7 DEF Commit

\* The log and the jobs after a commit: the revision moved, so no other job
\* can commit, and the new command is the only one of its revision.
LEMMA RecordStep ==
  ASSUME IInv, NEW w \in Workers, MayCommit(w),
         NEW s \in {"awaiting_skill_choice", "awaiting_post_roll_decision",
                    "resolved", "cancelled"},
         Record(w, s)
  PROVE  /\ revision' \in Nat
         /\ log' \subseteq Command
         /\ job' \in [Workers -> [msg : Msg, rev : Nat] \cup {NoJob}]
         /\ ValidatedJobs'
         /\ CommittedOnWhatItSaw'
         /\ \A id : Committed(id) => Committed(id)'
         /\ \E d \in log' : d.msg.id = job[w].msg.id
<1> DEFINE m == job[w].msg
           c == [msg |-> m, rev |-> revision + 1, status |-> s]
<1>1. m \in Msg /\ m.rev = revision /\ ~Committed(m.id)
  BY CommitIsValid DEF MayCommit
<1>2. /\ log' = log \cup {c}
      /\ revision' = revision + 1
      /\ job' = [job EXCEPT ![w] = NoJob]
  BY DEF Record
<1>3. revision \in Nat /\ log \subseteq Command
      /\ job \in [Workers -> [msg : Msg, rev : Nat] \cup {NoJob}]
  BY DEF IInv, TypeOK
<1>4. revision' \in Nat /\ log' \subseteq Command
  BY <1>1, <1>2, <1>3 DEF Command
<1>5. job' \in [Workers -> [msg : Msg, rev : Nat] \cup {NoJob}]
  BY <1>2, <1>3
<1>6. ValidatedJobs'
  <2> SUFFICES ASSUME NEW v \in Workers, job'[v] # NoJob
               PROVE  /\ job'[v].rev <= revision'
                      /\ job'[v].msg.rev = job'[v].rev
                      /\ job'[v].rev # revision'
    BY DEF ValidatedJobs
  <2>1. job'[v] = job[v] /\ job[v] # NoJob
    BY <1>2, <1>3
  <2>2. job[v] \in [msg : Msg, rev : Nat]
    BY <2>1, <1>3
  <2>3. job[v].rev <= revision /\ job[v].msg.rev = job[v].rev /\ job[v].rev \in Nat
    BY <2>1, <2>2 DEF IInv, ValidatedJobs
  <2> QED
    BY <2>1, <2>3, <1>2, <1>3
<1>7. CommittedOnWhatItSaw'
  <2>1. \A d \in log : d.rev = d.msg.rev + 1 /\ d.rev <= revision /\ d.rev \in Nat
    BY <1>3 DEF IInv, CommittedOnWhatItSaw, Command
  <2>2. \A d \in log : d.msg.id # m.id
    BY <1>1 DEF Committed
  <2>3. \A d, e \in log : d.rev = e.rev \/ d.msg.id = e.msg.id => d = e
    BY DEF IInv, CommittedOnWhatItSaw
  <2>4. c.rev = c.msg.rev + 1 /\ c.rev <= revision' /\ c.msg.id = m.id
    BY <1>1, <1>2, <1>3
  <2>5. \A d \in log : d.rev # c.rev
    BY <2>1, <1>3
  <2>6. \A d \in log' : d.rev = d.msg.rev + 1 /\ d.rev <= revision'
    BY <2>1, <2>4, <1>2, <1>3
  <2>7. \A d, e \in log' : d.rev = e.rev \/ d.msg.id = e.msg.id => d = e
    BY <2>2, <2>3, <2>4, <2>5, <1>2
  <2> QED
    BY <2>6, <2>7 DEF CommittedOnWhatItSaw
<1>8. \A id : Committed(id) => Committed(id)'
  BY <1>2 DEF Committed
<1>9. \E d \in log' : d.msg.id = m.id
  <2>1. c \in log' /\ c.msg = m
    BY <1>2
  <2> QED
    BY <2>1
<1> QED
  BY <1>4, <1>5, <1>6, <1>7, <1>8, <1>9

-----------------------------------------------------------------------------
\* The rows after a commit.  Each command rewrites the rows of its own action.
RowsOk ==
  /\ phase' \in {"playing", "ended"}
  /\ luck' \in [Players -> Nat]
  /\ decision' \in [Actions -> Decision]
  /\ run' \in [Actions -> Run]
  /\ effects' \in [Actions -> Nat]
  /\ RowsAgree'
  /\ Submitted'

\* A command keeps the invariant if, of its own action, it leaves rows that
\* agree, and of the others nothing is touched.
LEMMA OwnRows ==
  ASSUME IInv, NEW a \in Actions,
         NEW d \in Decision, NEW r \in Run, NEW e \in {0, 1},
         decision' = [decision EXCEPT ![a] = d],
         run' = [run EXCEPT ![a] = r],
         effects' = [effects EXCEPT ![a] = e],
         (d.status = "rolled") <=> (r.status = "awaiting_post_roll_decision"),
         (d.status = "resolved") <=> (r.status = "resolved"),
         d.status # "none" => e = IF d.status = "resolved" THEN 1 ELSE 0,
         \A id : Committed(id) => Committed(id)',
         \E c \in log' : c.msg.id = a
  PROVE  /\ decision' \in [Actions -> Decision]
         /\ run' \in [Actions -> Run]
         /\ effects' \in [Actions -> Nat]
         /\ RowsAgree'
         /\ Submitted'
<1>1. /\ decision \in [Actions -> Decision]
      /\ run \in [Actions -> Run]
      /\ effects \in [Actions -> Nat]
  BY DEF IInv, TypeOK
<1>2. /\ decision' \in [Actions -> Decision]
      /\ run' \in [Actions -> Run]
      /\ effects' \in [Actions -> Nat]
  BY <1>1
<1>3. \A b \in Actions : IF b = a THEN decision'[b] = d /\ run'[b] = r /\ effects'[b] = e
                         ELSE /\ decision'[b] = decision[b]
                              /\ run'[b] = run[b]
                              /\ effects'[b] = effects[b]
  BY <1>1
<1>4. RowsAgree'
  BY <1>3 DEF IInv, RowsAgree
<1>5. Submitted'
  BY <1>3 DEF IInv, Submitted, Committed
<1> QED
  BY <1>2, <1>4, <1>5

\* submit without a check.
LEMMA SubmitUncheckedRows ==
  ASSUME IInv, NEW w \in Workers, SubmitUnchecked(w)
  PROVE  RowsOk
<1> DEFINE m == job[w].msg
           a == m.action
<1>1. MayCommit(w) /\ m.type = "submit" /\ m.arg = "none" /\ Finalize(a)
      /\ Record(w, "resolved") /\ UNCHANGED <<phase, luck, decision, run>>
  BY DEF SubmitUnchecked
<1>2. m \in Msg /\ a \in Actions /\ Valid(m)
  BY <1>1, CommitIsValid
<1>3. ~Committed(m.id) /\ m.id = a
  BY <1>1, <1>2 DEF Valid, ValidSubmit, ValidDecide, ValidPostRoll
<1>4. decision[a].status = "none" /\ effects[a] = 0
  BY <1>2, <1>3 DEF IInv, Submitted
<1>5. effects' = [effects EXCEPT ![a] = 1]
  BY <1>1, <1>2, <1>4 DEF Finalize, IInv, TypeOK
<1>6. decision' = [decision EXCEPT ![a] = decision[a]] /\ run' = [run EXCEPT ![a] = run[a]]
  BY <1>1, <1>2 DEF IInv, TypeOK
<1>7. decision[a] \in Decision /\ run[a] \in Run
  BY <1>2 DEF IInv, TypeOK
<1>8. /\ (decision[a].status = "rolled") <=> (run[a].status = "awaiting_post_roll_decision")
      /\ (decision[a].status = "resolved") <=> (run[a].status = "resolved")
  BY <1>2 DEF IInv, RowsAgree
<1>9. (\A id : Committed(id) => Committed(id)') /\ \E c \in log' : c.msg.id = a
  BY <1>1, <1>3, RecordStep
<1>10. /\ decision' \in [Actions -> Decision]
       /\ run' \in [Actions -> Run]
       /\ effects' \in [Actions -> Nat]
       /\ RowsAgree'
       /\ Submitted'
  BY <1>2, <1>4, <1>5, <1>6, <1>7, <1>8, <1>9, OwnRows
<1>11. phase' \in {"playing", "ended"} /\ luck' \in [Players -> Nat]
  BY <1>1 DEF IInv, TypeOK, Finalize
<1> QED
  BY <1>10, <1>11 DEF RowsOk

\* submit with a check.
LEMMA SubmitCheckedRows ==
  ASSUME IInv, NEW w \in Workers, SubmitChecked(w)
  PROVE  RowsOk
<1> DEFINE m == job[w].msg
           a == m.action
           d == [status |-> "awaiting_skill_choice", version |-> 1]
<1>1. MayCommit(w) /\ m.type = "submit" /\ m.arg = "check"
      /\ decision' = [decision EXCEPT ![a] = d]
      /\ Record(w, "awaiting_skill_choice") /\ UNCHANGED <<phase, luck, run, effects>>
  BY DEF SubmitChecked
<1>2. m \in Msg /\ a \in Actions /\ Valid(m)
  BY <1>1, CommitIsValid
<1>3. ~Committed(m.id) /\ m.id = a
  BY <1>1, <1>2 DEF Valid, ValidSubmit, ValidDecide, ValidPostRoll
<1>4. decision[a].status = "none" /\ effects[a] = 0
  BY <1>2, <1>3 DEF IInv, Submitted
<1>5. effects' = [effects EXCEPT ![a] = 0] /\ run' = [run EXCEPT ![a] = run[a]]
  BY <1>1, <1>2, <1>4 DEF IInv, TypeOK
<1>6. d \in Decision /\ run[a] \in Run
  BY <1>2 DEF IInv, TypeOK, Decision
<1>7. run[a].status \notin {"awaiting_post_roll_decision", "resolved"}
  BY <1>2, <1>4 DEF IInv, RowsAgree
<1>8. (\A id : Committed(id) => Committed(id)') /\ \E c \in log' : c.msg.id = a
  BY <1>1, <1>3, RecordStep
<1>9. /\ decision' \in [Actions -> Decision]
      /\ run' \in [Actions -> Run]
      /\ effects' \in [Actions -> Nat]
      /\ RowsAgree'
      /\ Submitted'
  BY <1>1, <1>2, <1>5, <1>6, <1>7, <1>8, OwnRows
<1>10. phase' \in {"playing", "ended"} /\ luck' \in [Players -> Nat]
  BY <1>1 DEF IInv, TypeOK
<1> QED
  BY <1>9, <1>10 DEF RowsOk

\* What a valid decide or post-roll decision finds.
LEMMA DecideFinds ==
  ASSUME IInv, NEW m \in Msg, Valid(m), m.type = "decide"
  PROVE  /\ m.action \in Actions
         /\ decision[m.action].status = "awaiting_skill_choice"
         /\ decision[m.action].version \in Nat
         /\ effects[m.action] = 0
         /\ run[m.action].status = "none"
         /\ Committed(m.action)
<1>1. m.action \in Actions /\ decision[m.action].status = "awaiting_skill_choice"
  BY DEF Msg, Valid, ValidSubmit, ValidDecide, ValidPostRoll
<1>2. decision[m.action] \in Decision /\ run[m.action] \in Run
  BY <1>1 DEF IInv, TypeOK
<1>3. effects[m.action] = 0
  BY <1>1 DEF IInv, RowsAgree
<1>4. run[m.action].status = "none"
  BY <1>1, <1>2 DEF IInv, RowsAgree, Run
<1>5. Committed(m.action)
  BY <1>1 DEF IInv, Submitted
<1> QED
  BY <1>1, <1>2, <1>3, <1>4, <1>5 DEF Decision

LEMMA PostRollFinds ==
  ASSUME IInv, NEW m \in Msg, Valid(m), m.type = "post_roll"
  PROVE  /\ m.action \in Actions
         /\ m.arg \in Options
         /\ decision[m.action].status = "rolled"
         /\ decision[m.action].version \in Nat
         /\ effects[m.action] = 0
         /\ run[m.action] \in Run
         /\ run[m.action].status = "awaiting_post_roll_decision"
         /\ m.arg = "luck" => run[m.action].cost <= luck[Owner[m.action]]
         /\ Committed(m.action)
<1>1. /\ m.action \in Actions
      /\ run[m.action].status = "awaiting_post_roll_decision"
      /\ m.arg = "luck" => luck[Owner[m.action]] >= run[m.action].cost
  BY DEF Msg, Valid, ValidSubmit, ValidDecide, ValidPostRoll
<1>2. m.arg \in Options
  BY DEF Msg, Options
<1>3. decision[m.action] \in Decision /\ run[m.action] \in Run /\ luck \in [Players -> Nat]
  BY <1>1 DEF IInv, TypeOK
<1>4. decision[m.action].status = "rolled"
  BY <1>1 DEF IInv, RowsAgree
<1>5. effects[m.action] = 0
  BY <1>1, <1>4 DEF IInv, RowsAgree
<1>6. Committed(m.action)
  BY <1>1, <1>4 DEF IInv, Submitted
<1>7. Owner[m.action] \in Players
  BY <1>1, OwnerAssumption
<1>8. m.arg = "luck" => run[m.action].cost <= luck[Owner[m.action]]
  BY <1>1, <1>3, <1>7 DEF Run
<1> QED
  BY <1>1, <1>2, <1>3, <1>4, <1>5, <1>6, <1>8 DEF Decision

\* decide: cancel.
LEMMA CancelCheckRows ==
  ASSUME IInv, NEW w \in Workers, CancelCheck(w)
  PROVE  RowsOk
<1> DEFINE m == job[w].msg
           a == m.action
           d == [status |-> "cancelled", version |-> decision[a].version + 1]
<1>1. MayCommit(w) /\ m.type = "decide"
      /\ decision' = [decision EXCEPT ![a] = d]
      /\ Record(w, "cancelled") /\ UNCHANGED <<phase, luck, run, effects>>
  BY DEF CancelCheck
<1>2. m \in Msg /\ a \in Actions /\ Valid(m)
  BY <1>1, CommitIsValid
<1>3. decision[a].version \in Nat /\ effects[a] = 0 /\ run[a].status = "none" /\ Committed(a)
  BY <1>1, <1>2, DecideFinds
<1>4. effects' = [effects EXCEPT ![a] = 0] /\ run' = [run EXCEPT ![a] = run[a]]
  BY <1>1, <1>2, <1>3 DEF IInv, TypeOK
<1>5. d \in Decision /\ run[a] \in Run
  BY <1>2, <1>3 DEF IInv, TypeOK, Decision
<1>6. (\A id : Committed(id) => Committed(id)') /\ \E c \in log' : c.msg.id = a
  BY <1>1, <1>3, RecordStep DEF Committed
<1>7. /\ decision' \in [Actions -> Decision]
      /\ run' \in [Actions -> Run]
      /\ effects' \in [Actions -> Nat]
      /\ RowsAgree'
      /\ Submitted'
  BY <1>1, <1>2, <1>3, <1>4, <1>5, <1>6, OwnRows
<1>8. phase' \in {"playing", "ended"} /\ luck' \in [Players -> Nat]
  BY <1>1 DEF IInv, TypeOK
<1> QED
  BY <1>7, <1>8 DEF RowsOk

\* decide: select and roll.
LEMMA SelectAndRollRows ==
  ASSUME IInv, NEW w \in Workers, SelectAndRoll(w)
  PROVE  RowsOk
<1> DEFINE m == job[w].msg
           a == m.action
           d == [status |-> "rolled", version |-> decision[a].version + 1]
<1>1. MayCommit(w) /\ m.type = "decide"
      /\ decision' = [decision EXCEPT ![a] = d]
      /\ Record(w, "awaiting_post_roll_decision") /\ UNCHANGED <<phase, luck, effects>>
  BY DEF SelectAndRoll
<1>2. PICK roll \in RollResults :
        run' = [run EXCEPT ![a] =
                 [status |-> "awaiting_post_roll_decision", version |-> 1,
                  rolls |-> 1, passed |-> roll.passed, cost |-> roll.cost,
                  options |-> PostRollOptions(roll, luck[Owner[a]]),
                  kind |-> "none"]]
  BY DEF SelectAndRoll
<1> DEFINE r == [status |-> "awaiting_post_roll_decision", version |-> 1,
                 rolls |-> 1, passed |-> roll.passed, cost |-> roll.cost,
                 options |-> PostRollOptions(roll, luck[Owner[a]]),
                 kind |-> "none"]
<1>3. m \in Msg /\ a \in Actions /\ Valid(m)
  BY <1>1, CommitIsValid
<1>4. decision[a].version \in Nat /\ effects[a] = 0 /\ Committed(a)
  BY <1>1, <1>3, DecideFinds
<1>5. effects' = [effects EXCEPT ![a] = 0]
  BY <1>1, <1>3, <1>4 DEF IInv, TypeOK
<1>6. d \in Decision
  BY <1>4 DEF Decision
<1>7. r \in Run
  <2>1. roll.passed \in BOOLEAN /\ roll.cost \in Nat
    <3>1. CASE roll \in [passed : {TRUE}, fumble : {FALSE}, cost : {0}]
      <4>1. roll.passed \in {TRUE} /\ roll.cost \in {0}
        BY <3>1
      <4>2. roll.passed = TRUE
        BY <4>1, Zenon
      <4>3. roll.cost \in Nat
        BY <4>1
      <4> QED
        BY <4>2, <4>3
    <3>2. CASE roll \in [passed : {FALSE}, fumble : BOOLEAN, cost : 1..MaxCost]
      <4>1. roll.passed \in {FALSE} /\ roll.cost \in 1..MaxCost
        BY <3>2
      <4>2. roll.passed = FALSE
        BY <4>1, Zenon
      <4>3. roll.cost \in Nat
        BY <4>1, LuckAssumption
      <4> QED
        BY <4>2, <4>3
    <3> QED
      BY <1>2, <3>1, <3>2 DEF RollResults
  <2>2. PostRollOptions(roll, luck[Owner[a]]) \in SUBSET Options
    BY DEF PostRollOptions, Options
  <2> QED
    BY <2>1, <2>2 DEF Run
<1>8. (\A id : Committed(id) => Committed(id)') /\ \E c \in log' : c.msg.id = a
  BY <1>1, <1>4, RecordStep DEF Committed
<1>9. d.status = "rolled" /\ r.status = "awaiting_post_roll_decision"
  OBVIOUS
<1> HIDE DEF d, r
<1>10. /\ decision' \in [Actions -> Decision]
       /\ run' \in [Actions -> Run]
       /\ effects' \in [Actions -> Nat]
       /\ RowsAgree'
       /\ Submitted'
  BY <1>1, <1>2, <1>3, <1>5, <1>6, <1>7, <1>8, <1>9, OwnRows DEF d, r
<1>11. phase' \in {"playing", "ended"} /\ luck' \in [Players -> Nat]
  BY <1>1 DEF IInv, TypeOK
<1> QED
  BY <1>10, <1>11 DEF RowsOk

\* decide_post_roll: accept, luck and push end in Resolve.
LEMMA ResolveRows ==
  ASSUME IInv, NEW w \in Workers, MayCommit(w), job[w].msg.type = "post_roll",
         NEW passed \in BOOLEAN, NEW rolls \in 0..2, Resolve(w, passed, rolls),
         luck' \in [Players -> Nat]
  PROVE  RowsOk
<1> DEFINE m == job[w].msg
           a == m.action
           d == [status |-> "resolved", version |-> decision[a].version + 1]
           r == Settled(run[a], passed, rolls, m.arg)
<1>1. /\ run' = [run EXCEPT ![a] = r]
      /\ decision' = [decision EXCEPT ![a] = d]
      /\ Finalize(a)
      /\ Record(w, "resolved")
      /\ UNCHANGED phase
  BY DEF Resolve
<1>2. m \in Msg /\ a \in Actions /\ Valid(m)
  BY CommitIsValid
<1>3. /\ decision[a].version \in Nat /\ effects[a] = 0 /\ Committed(a)
      /\ run[a] \in Run /\ m.arg \in Options
  BY <1>2, PostRollFinds
<1>4. effects' = [effects EXCEPT ![a] = 1]
  BY <1>1, <1>2, <1>3 DEF Finalize, IInv, TypeOK
<1>5. d \in Decision
  BY <1>3 DEF Decision
<1>6. r \in Run
  BY <1>3 DEF Run, Settled
<1>7. (\A id : Committed(id) => Committed(id)') /\ \E c \in log' : c.msg.id = a
  BY <1>1, <1>3, RecordStep DEF Committed
<1>8. d.status = "resolved" /\ r.status = "resolved"
  BY DEF Settled
<1> HIDE DEF d, r
<1>9. /\ decision' \in [Actions -> Decision]
      /\ run' \in [Actions -> Run]
      /\ effects' \in [Actions -> Nat]
      /\ RowsAgree'
      /\ Submitted'
  BY <1>1, <1>2, <1>4, <1>5, <1>6, <1>7, <1>8, OwnRows
<1>10. phase' \in {"playing", "ended"}
  BY <1>1 DEF IInv, TypeOK, Finalize
<1> QED
  BY <1>9, <1>10 DEF RowsOk

LEMMA AcceptResultRows ==
  ASSUME IInv, NEW w \in Workers, AcceptResult(w)
  PROVE  RowsOk
<1>1. /\ MayCommit(w) /\ job[w].msg.type = "post_roll"
      /\ Resolve(w, run[job[w].msg.action].passed, run[job[w].msg.action].rolls)
      /\ UNCHANGED luck
  BY DEF AcceptResult
<1>2. job[w].msg \in Msg /\ Valid(job[w].msg)
  BY <1>1, CommitIsValid
<1>3. run[job[w].msg.action] \in Run
  BY <1>1, <1>2, PostRollFinds
<1>4. run[job[w].msg.action].passed \in BOOLEAN /\ run[job[w].msg.action].rolls \in 0..2
  BY <1>3 DEF Run
<1>5. luck' \in [Players -> Nat]
  BY <1>1 DEF IInv, TypeOK
<1> QED
  BY <1>1, <1>4, <1>5, ResolveRows

\* The balance was compared with the cost at this very revision.
LEMMA SpendLuckRows ==
  ASSUME IInv, NEW w \in Workers, SpendLuck(w)
  PROVE  RowsOk
<1> DEFINE m == job[w].msg
           a == m.action
<1>1. /\ MayCommit(w) /\ m.type = "post_roll" /\ m.arg = "luck"
      /\ luck' = [luck EXCEPT ![Owner[a]] = @ - run[a].cost]
      /\ Resolve(w, TRUE, run[a].rolls)
  BY DEF SpendLuck
<1>2. m \in Msg /\ Valid(m)
  BY <1>1, CommitIsValid
<1>3. a \in Actions /\ run[a] \in Run /\ run[a].cost <= luck[Owner[a]]
  BY <1>1, <1>2, PostRollFinds
<1>4. run[a].rolls \in 0..2 /\ run[a].cost \in Nat
  BY <1>3 DEF Run
<1>5. luck \in [Players -> Nat] /\ Owner[a] \in Players
  BY <1>3, OwnerAssumption DEF IInv, TypeOK
<1>6. luck[Owner[a]] - run[a].cost \in Nat
  BY <1>3, <1>4, <1>5
<1>7. luck' \in [Players -> Nat]
  BY <1>1, <1>5, <1>6
<1> QED
  BY <1>1, <1>4, <1>7, ResolveRows

LEMMA PushRows ==
  ASSUME IInv, NEW w \in Workers, Push(w)
  PROVE  RowsOk
<1>1. /\ MayCommit(w) /\ job[w].msg.type = "post_roll"
      /\ UNCHANGED luck
  BY DEF Push
<1>2. PICK passed \in BOOLEAN : Resolve(w, passed, 2)
  BY DEF Push
<1>3. luck' \in [Players -> Nat]
  BY <1>1 DEF IInv, TypeOK
<1> QED
  BY <1>1, <1>2, <1>3, ResolveRows

\* Loading a command opens a job whose message is valid now.
LEMMA LoadStep ==
  ASSUME IInv, NEW w \in Workers, NEW m \in Requests, Load(w, m)
  PROVE  IInv'
<1>1. /\ Valid(m) /\ job' = [job EXCEPT ![w] = [msg |-> m, rev |-> revision]]
      /\ UNCHANGED <<revision, phase, luck, decision, run, log, effects>>
  BY DEF Load
<1>2. m \in Msg
  <2>1. revision \in Nat /\ \A a \in Actions : decision[a] \in Decision /\ run[a] \in Run
    BY DEF IInv, TypeOK
  <2>2. \A a \in Actions : decision[a].version \in Nat /\ run[a].version \in Nat
    BY <2>1 DEF Decision, Run
  <2> QED
    BY <2>1, <2>2 DEF Requests, Msg, Options
<1>3. TypeOK'
  BY <1>1, <1>2 DEF IInv, TypeOK
<1>4. ValidatedJobs'
  <2>1. \A n : Valid(n) = Valid(n)'
    BY <1>1 DEF Valid, Committed, ValidSubmit, ValidDecide, ValidPostRoll
  <2>2. m.rev = revision /\ revision \in Nat
    BY <1>1 DEF Valid, IInv, TypeOK
  <2>3. job \in [Workers -> [msg : Msg, rev : Nat] \cup {NoJob}]
    BY DEF IInv, TypeOK
  <2> SUFFICES ASSUME NEW v \in Workers, job'[v] # NoJob
               PROVE  /\ job'[v].rev <= revision
                      /\ job'[v].msg.rev = job'[v].rev
                      /\ job'[v].rev = revision /\ phase = "playing" => Valid(job'[v].msg)
    BY <1>1, <2>1 DEF ValidatedJobs
  <2>4. CASE v = w
    BY <2>4, <1>1, <2>2, <2>3
  <2>5. CASE v # w
    BY <2>5, <1>1, <2>3 DEF IInv, ValidatedJobs
  <2> QED
    BY <2>4, <2>5
<1>5. RowsAgree' /\ Submitted' /\ CommittedOnWhatItSaw'
  BY <1>1 DEF IInv, RowsAgree, Submitted, CommittedOnWhatItSaw, Committed
<1> QED
  BY <1>3, <1>4, <1>5 DEF IInv

LEMMA RollbackStep ==
  ASSUME IInv, NEW w \in Workers, Rollback(w)
  PROVE  IInv'
<1>1. /\ job' = [job EXCEPT ![w] = NoJob]
      /\ UNCHANGED <<revision, phase, luck, decision, run, log, effects>>
  BY DEF Rollback
<1>2. TypeOK'
  BY <1>1 DEF IInv, TypeOK
<1>3. ValidatedJobs'
  <2>1. \A n : Valid(n) = Valid(n)'
    BY <1>1 DEF Valid, Committed, ValidSubmit, ValidDecide, ValidPostRoll
  <2>2. job \in [Workers -> [msg : Msg, rev : Nat] \cup {NoJob}]
    BY DEF IInv, TypeOK
  <2> SUFFICES ASSUME NEW v \in Workers, job'[v] # NoJob
               PROVE  /\ job'[v].rev <= revision
                      /\ job'[v].msg.rev = job'[v].rev
                      /\ job'[v].rev = revision /\ phase = "playing" => Valid(job'[v].msg)
    BY <1>1, <2>1 DEF ValidatedJobs
  <2> QED
    BY <1>1, <2>2 DEF IInv, ValidatedJobs
<1>4. RowsAgree' /\ Submitted' /\ CommittedOnWhatItSaw'
  BY <1>1 DEF IInv, RowsAgree, Submitted, CommittedOnWhatItSaw, Committed
<1> QED
  BY <1>2, <1>3, <1>4 DEF IInv

\* The end of the game disturbs no row, and no job can commit after it.
LEMMA EndGameStep ==
  ASSUME IInv, EndGame
  PROVE  IInv'
<1>1. /\ phase' = "ended"
      /\ UNCHANGED <<revision, luck, decision, run, log, effects, job>>
  BY DEF EndGame
<1>2. TypeOK'
  BY <1>1 DEF IInv, TypeOK
<1>3. ValidatedJobs'
  BY <1>1 DEF IInv, ValidatedJobs
<1>4. RowsAgree' /\ Submitted' /\ CommittedOnWhatItSaw'
  BY <1>1 DEF IInv, RowsAgree, Submitted, CommittedOnWhatItSaw, Committed
<1> QED
  BY <1>2, <1>3, <1>4 DEF IInv

LEMMA CommitStep ==
  ASSUME IInv, NEW w \in Workers, Commit(w)
  PROVE  IInv'
<1>1. PICK s \in {"awaiting_skill_choice", "awaiting_post_roll_decision",
                  "resolved", "cancelled"} : MayCommit(w) /\ Record(w, s)
  BY CommitRecords
<1>2. /\ revision' \in Nat
      /\ log' \subseteq Command
      /\ job' \in [Workers -> [msg : Msg, rev : Nat] \cup {NoJob}]
      /\ ValidatedJobs'
      /\ CommittedOnWhatItSaw'
  BY <1>1, RecordStep
<1>3. RowsOk
  BY SubmitUncheckedRows, SubmitCheckedRows, CancelCheckRows, SelectAndRollRows,
     AcceptResultRows, SpendLuckRows, PushRows DEF Commit
<1> QED
  BY <1>2, <1>3 DEF RowsOk, IInv, TypeOK

\* The inductive invariant.
THEOREM AdjudicationInvariant == Spec => []IInv
<1>1. IInv /\ [Next]_vars => IInv'
  <2> SUFFICES ASSUME IInv, [Next]_vars PROVE IInv'
    OBVIOUS
  <2>1. ASSUME NEW w \in Workers, NEW m \in Requests, Load(w, m) PROVE IInv'
    BY <2>1, LoadStep
  <2>2. ASSUME NEW w \in Workers, Commit(w) PROVE IInv'
    BY <2>2, CommitStep
  <2>3. ASSUME NEW w \in Workers, Rollback(w) PROVE IInv'
    BY <2>3, RollbackStep
  <2>4. CASE UNCHANGED vars
    <3>1. \A n : Valid(n) = Valid(n)'
      BY <2>4 DEF vars, Valid, Committed, ValidSubmit, ValidDecide, ValidPostRoll
    <3>2. ValidatedJobs'
      BY <2>4, <3>1 DEF vars, IInv, ValidatedJobs
    <3> QED
      BY <2>4, <3>2 DEF vars, IInv, TypeOK, RowsAgree, Submitted,
                        CommittedOnWhatItSaw, Committed
  <2>5. CASE EndGame
    BY <2>5, EndGameStep
  <2> QED
    BY <2>1, <2>2, <2>3, <2>4, <2>5 DEF Next
<1> QED
  BY <1>1, InitIInv, PTL DEF Spec

\* Type correctness, and with it that luck never falls below zero: a choice
\* made when the menu was shown is paid from the balance at the commit.
THEOREM AdjudicationTypes == Spec => []TypeOK
<1>1. IInv => TypeOK
  BY DEF IInv
<1> QED
  BY <1>1, AdjudicationInvariant, PTL

\* Decision, roll and effects of every action agree in every committed state.
THEOREM RowsAgreeTheorem == Spec => []RowsAgree
<1>1. IInv => RowsAgree
  BY DEF IInv
<1> QED
  BY <1>1, AdjudicationInvariant, PTL

\* Commands are serialised: each changed the revision it was validated
\* against, and no request id or revision has two.
THEOREM Serialised == Spec => []CommittedOnWhatItSaw
<1>1. IInv => CommittedOnWhatItSaw
  BY DEF IInv
<1> QED
  BY <1>1, AdjudicationInvariant, PTL

-----------------------------------------------------------------------------
(* Refinement: what becomes of an action is a run of CheckProtocol.         *)

\* A commit moves the stage of its own action only, as its rows say.
LEMMA StageMoves ==
  ASSUME IInv, NEW a \in Actions, NEW d \in Decision, NEW r \in Run, NEW e \in {0, 1},
         decision' = [decision EXCEPT ![a] = d],
         run' = [run EXCEPT ![a] = r],
         effects' = [effects EXCEPT ![a] = e],
         NEW s, Stage(a)' = s
  PROVE  [b \in Actions |-> Stage(b)]' = [[b \in Actions |-> Stage(b)] EXCEPT ![a] = s]
<1>1. \A b \in Actions : b # a =>
        decision'[b] = decision[b] /\ run'[b] = run[b] /\ effects'[b] = effects[b]
  BY DEF IInv, TypeOK
<1>2. \A b \in Actions : b # a => Stage(b)' = Stage(b)
  BY <1>1 DEF Stage
<1> QED
  BY <1>2

LEMMA SubmitUncheckedProtocol ==
  ASSUME IInv, NEW w \in Workers, SubmitUnchecked(w),
         NEW a \in Actions, a = job[w].msg.action
  PROVE  Protocol!Next
<1> DEFINE m == job[w].msg
<1>1. MayCommit(w) /\ m.type = "submit" /\ m.arg = "none" /\ Finalize(a)
      /\ UNCHANGED <<decision, run>>
  BY DEF SubmitUnchecked
<1>2. m \in Msg /\ a \in Actions /\ Valid(m)
  BY <1>1, CommitIsValid
<1>3. ~Committed(a)
  BY <1>1, <1>2 DEF Valid, ValidSubmit, ValidDecide, ValidPostRoll
<1>4. decision[a].status = "none" /\ effects[a] = 0
  BY <1>2, <1>3 DEF IInv, Submitted
<1>5. run[a].status # "awaiting_post_roll_decision" /\ run[a] \in Run /\ decision[a] \in Decision
  BY <1>2, <1>4 DEF IInv, RowsAgree, TypeOK
<1>6. effects' = [effects EXCEPT ![a] = 1] /\ effects' = [effects EXCEPT ![a] = @ + 1]
      /\ decision' = [decision EXCEPT ![a] = decision[a]]
      /\ run' = [run EXCEPT ![a] = run[a]]
  BY <1>1, <1>2, <1>4 DEF Finalize, IInv, TypeOK
<1>7. Stage(a) = "idle"
  BY <1>4, <1>5 DEF Stage
<1>8. Stage(a)' = "resolved"
  BY <1>1, <1>2, <1>4, <1>5, <1>6 DEF Stage, IInv, TypeOK
<1>9. [b \in Actions |-> Stage(b)]' = [[b \in Actions |-> Stage(b)] EXCEPT ![a] = "resolved"]
  BY <1>2, <1>5, <1>6, <1>8, StageMoves
<1>10. Protocol!Submit(a)
  BY <1>2, <1>6, <1>7, <1>9 DEF Protocol!Submit, Protocol!MoveTo
<1> QED
  BY <1>2, <1>10 DEF Protocol!Next

LEMMA SubmitCheckedProtocol ==
  ASSUME IInv, NEW w \in Workers, SubmitChecked(w),
         NEW a \in Actions, a = job[w].msg.action
  PROVE  Protocol!Next
<1> DEFINE m == job[w].msg
           d == [status |-> "awaiting_skill_choice", version |-> 1]
<1>1. MayCommit(w) /\ m.type = "submit" /\ m.arg = "check"
      /\ decision' = [decision EXCEPT ![a] = d]
      /\ UNCHANGED <<run, effects>>
  BY DEF SubmitChecked
<1>2. m \in Msg /\ a \in Actions /\ Valid(m)
  BY <1>1, CommitIsValid
<1>3. ~Committed(a)
  BY <1>1, <1>2 DEF Valid, ValidSubmit, ValidDecide, ValidPostRoll
<1>4. decision[a].status = "none" /\ effects[a] = 0
  BY <1>2, <1>3 DEF IInv, Submitted
<1>5. run[a].status # "awaiting_post_roll_decision" /\ run[a] \in Run /\ d \in Decision
  BY <1>2, <1>4 DEF IInv, RowsAgree, TypeOK, Decision
<1>6. effects' = [effects EXCEPT ![a] = 0] /\ run' = [run EXCEPT ![a] = run[a]]
  BY <1>1, <1>2, <1>4 DEF IInv, TypeOK
<1>7. Stage(a) = "idle"
  BY <1>4, <1>5 DEF Stage
<1>8. Stage(a)' = "choosing"
  BY <1>1, <1>2, <1>5 DEF Stage, IInv, TypeOK
<1>9. [b \in Actions |-> Stage(b)]' = [[b \in Actions |-> Stage(b)] EXCEPT ![a] = "choosing"]
  BY <1>1, <1>2, <1>5, <1>6, <1>8, StageMoves
<1>10. Protocol!Submit(a)
  BY <1>1, <1>2, <1>7, <1>9 DEF Protocol!Submit, Protocol!MoveTo
<1> QED
  BY <1>2, <1>10 DEF Protocol!Next

LEMMA CancelCheckProtocol ==
  ASSUME IInv, NEW w \in Workers, CancelCheck(w),
         NEW a \in Actions, a = job[w].msg.action
  PROVE  Protocol!Next
<1> DEFINE m == job[w].msg
           d == [status |-> "cancelled", version |-> decision[a].version + 1]
<1>1. MayCommit(w) /\ m.type = "decide"
      /\ decision' = [decision EXCEPT ![a] = d]
      /\ UNCHANGED <<run, effects>>
  BY DEF CancelCheck
<1>2. m \in Msg /\ a \in Actions /\ Valid(m)
  BY <1>1, CommitIsValid
<1>3. /\ decision[a].status = "awaiting_skill_choice" /\ decision[a].version \in Nat
      /\ effects[a] = 0 /\ run[a].status = "none"
  BY <1>1, <1>2, DecideFinds
<1>4. effects' = [effects EXCEPT ![a] = 0] /\ run' = [run EXCEPT ![a] = run[a]]
      /\ d \in Decision /\ run[a] \in Run
  BY <1>1, <1>2, <1>3 DEF IInv, TypeOK, Decision
<1>5. Stage(a) = "choosing"
  BY <1>3 DEF Stage
<1>6. Stage(a)' = "cancelled"
  BY <1>1, <1>2, <1>3 DEF Stage, IInv, TypeOK
<1>7. [b \in Actions |-> Stage(b)]' = [[b \in Actions |-> Stage(b)] EXCEPT ![a] = "cancelled"]
  BY <1>1, <1>2, <1>4, <1>6, StageMoves
<1>8. Protocol!Decide(a)
  BY <1>1, <1>2, <1>5, <1>7 DEF Protocol!Decide, Protocol!MoveTo
<1> QED
  BY <1>2, <1>8 DEF Protocol!Next

LEMMA SelectAndRollProtocol ==
  ASSUME IInv, NEW w \in Workers, SelectAndRoll(w),
         NEW a \in Actions, a = job[w].msg.action
  PROVE  Protocol!Next
<1> DEFINE m == job[w].msg
           d == [status |-> "rolled", version |-> decision[a].version + 1]
<1>1. MayCommit(w) /\ m.type = "decide"
      /\ decision' = [decision EXCEPT ![a] = d]
      /\ UNCHANGED effects
  BY DEF SelectAndRoll
<1>2. run' = [run EXCEPT ![a] = run'[a]] /\ run'[a].status = "awaiting_post_roll_decision"
  <2>1. PICK roll \in RollResults :
          run' = [run EXCEPT ![a] =
                   [status |-> "awaiting_post_roll_decision", version |-> 1,
                    rolls |-> 1, passed |-> roll.passed, cost |-> roll.cost,
                    options |-> PostRollOptions(roll, luck[Owner[a]]),
                    kind |-> "none"]]
    BY DEF SelectAndRoll
  <2>2. run \in [Actions -> Run]
    BY DEF IInv, TypeOK
  <2> QED
    BY <2>1, <2>2
<1>3. m \in Msg /\ a \in Actions /\ Valid(m)
  BY <1>1, CommitIsValid
<1>4. /\ decision[a].status = "awaiting_skill_choice" /\ decision[a].version \in Nat
      /\ effects[a] = 0 /\ run[a].status = "none"
  BY <1>1, <1>3, DecideFinds
<1>5. run \in [Actions -> Run] /\ RowsOk
  BY SelectAndRollRows DEF IInv, TypeOK
<1>6. run'[a] \in Run
  BY <1>5 DEF RowsOk
<1>7. effects' = [effects EXCEPT ![a] = 0] /\ d \in Decision
  BY <1>1, <1>4 DEF IInv, TypeOK, Decision
<1>8. Stage(a) = "choosing"
  BY <1>4 DEF Stage
<1>9. Stage(a)' = "rolled"
  BY <1>2 DEF Stage
<1>10. [b \in Actions |-> Stage(b)]' = [[b \in Actions |-> Stage(b)] EXCEPT ![a] = "rolled"]
  BY <1>1, <1>2, <1>6, <1>7, <1>9, StageMoves
<1>11. Protocol!Decide(a)
  BY <1>1, <1>8, <1>10 DEF Protocol!Decide, Protocol!MoveTo
<1> QED
  BY <1>11 DEF Protocol!Next

LEMMA ResolveProtocol ==
  ASSUME IInv, NEW w \in Workers, MayCommit(w), job[w].msg.type = "post_roll",
         NEW a \in Actions, a = job[w].msg.action,
         NEW passed \in BOOLEAN, NEW rolls \in 0..2, Resolve(w, passed, rolls),
         RowsOk
  PROVE  Protocol!Next
<1> DEFINE m == job[w].msg
           d == [status |-> "resolved", version |-> decision[a].version + 1]
<1>1. /\ decision' = [decision EXCEPT ![a] = d]
      /\ run' = [run EXCEPT ![a] = Settled(run[a], passed, rolls, m.arg)]
      /\ Finalize(a)
  BY DEF Resolve
<1>2. m \in Msg /\ Valid(m)
  BY CommitIsValid
<1>3. /\ decision[a].version \in Nat /\ effects[a] = 0
      /\ run[a] \in Run /\ run[a].status = "awaiting_post_roll_decision"
  BY <1>2, PostRollFinds
<1>4. effects' = [effects EXCEPT ![a] = 1] /\ effects' = [effects EXCEPT ![a] = @ + 1]
      /\ d \in Decision
  BY <1>1, <1>3 DEF Finalize, IInv, TypeOK, Decision
<1>5. run'[a].status = "resolved" /\ decision'[a].status = "resolved" /\ effects'[a] = 1
  BY <1>1, <1>4 DEF IInv, TypeOK, Settled
<1>6. run'[a] \in Run /\ run' = [run EXCEPT ![a] = run'[a]]
  BY <1>1 DEF RowsOk, IInv, TypeOK
<1>7. Stage(a) = "rolled"
  BY <1>3 DEF Stage
<1>8. Stage(a)' = "resolved"
  BY <1>5 DEF Stage
<1>9. [b \in Actions |-> Stage(b)]' = [[b \in Actions |-> Stage(b)] EXCEPT ![a] = "resolved"]
  BY <1>1, <1>4, <1>6, <1>8, StageMoves
<1>10. Protocol!Settle(a)
  BY <1>4, <1>7, <1>9 DEF Protocol!Settle, Protocol!MoveTo
<1> QED
  BY <1>10 DEF Protocol!Next

LEMMA CommitProtocol ==
  ASSUME IInv, NEW w \in Workers, Commit(w)
  PROVE  Protocol!Next
<1> DEFINE m == job[w].msg
<1>1. MayCommit(w)
  BY CommitRecords
<1>2. PICK a \in Actions : a = m.action
  BY <1>1, CommitIsValid
<1>3. m \in Msg /\ Valid(m)
  BY <1>1, CommitIsValid
<1>4. CASE SubmitUnchecked(w)
  BY <1>2, <1>4, SubmitUncheckedProtocol
<1>5. CASE SubmitChecked(w)
  BY <1>2, <1>5, SubmitCheckedProtocol
<1>6. CASE CancelCheck(w)
  BY <1>2, <1>6, CancelCheckProtocol
<1>7. CASE SelectAndRoll(w)
  BY <1>2, <1>7, SelectAndRollProtocol
<1>8. ASSUME m.type = "post_roll" PROVE run[a].passed \in BOOLEAN /\ run[a].rolls \in 0..2
  BY <1>2, <1>3, <1>8, PostRollFinds DEF Run
<1>9. CASE AcceptResult(w)
  <2>1. m.type = "post_roll" /\ Resolve(w, run[a].passed, run[a].rolls)
    BY <1>2, <1>9 DEF AcceptResult
  <2>2. RowsOk
    BY <1>9, AcceptResultRows
  <2> QED
    BY <1>1, <1>2, <1>8, <2>1, <2>2, ResolveProtocol
<1>10. CASE SpendLuck(w)
  <2>1. m.type = "post_roll" /\ Resolve(w, TRUE, run[a].rolls)
    BY <1>2, <1>10 DEF SpendLuck
  <2>2. RowsOk
    BY <1>10, SpendLuckRows
  <2> QED
    BY <1>1, <1>2, <1>8, <2>1, <2>2, ResolveProtocol
<1>11. CASE Push(w)
  <2>1. m.type = "post_roll"
    BY <1>11 DEF Push
  <2>2. PICK passed \in BOOLEAN : Resolve(w, passed, 2)
    BY <1>11 DEF Push
  <2>3. RowsOk
    BY <1>11, PushRows
  <2> QED
    BY <1>1, <1>2, <2>1, <2>2, <2>3, ResolveProtocol
<1> QED
  BY <1>4, <1>5, <1>6, <1>7, <1>9, <1>10, <1>11 DEF Commit

\* Every behaviour of the engine is, action by action, one of the documented
\* command state machine: retries, replays and races change nothing of it.
THEOREM EngineImplementsProtocol == Spec => ImplementsProtocol
<1>1. Init => Protocol!Init
  <2> SUFFICES ASSUME Init PROVE Protocol!Init
    OBVIOUS
  <2>1. \A a \in Actions : Stage(a) = "idle"
    BY DEF Init, NoDecision, NoRun, Stage
  <2> QED
    BY <2>1 DEF Init, Protocol!Init
<1>2. IInv /\ [Next]_vars =>
        [Protocol!Next]_<<[a \in Actions |-> Stage(a)], effects>>
  <2> SUFFICES ASSUME IInv, [Next]_vars
               PROVE  [Protocol!Next]_<<[a \in Actions |-> Stage(a)], effects>>
    OBVIOUS
  <2>1. ASSUME NEW w \in Workers, Commit(w) PROVE Protocol!Next
    BY <2>1, CommitProtocol
  <2>2. ASSUME UNCHANGED <<decision, run, effects>>
        PROVE  UNCHANGED <<[a \in Actions |-> Stage(a)], effects>>
    BY <2>2 DEF Stage
  <2>3. ASSUME NEW w \in Workers, NEW m \in Requests, Load(w, m)
        PROVE  UNCHANGED <<decision, run, effects>>
    BY <2>3 DEF Load
  <2>4. ASSUME NEW w \in Workers, Rollback(w)
        PROVE  UNCHANGED <<decision, run, effects>>
    BY <2>4 DEF Rollback
  <2>5. ASSUME EndGame PROVE UNCHANGED <<decision, run, effects>>
    BY <2>5 DEF EndGame
  <2> QED
    BY <2>1, <2>2, <2>3, <2>4, <2>5 DEF Next, vars
<1> QED
  BY <1>1, <1>2, AdjudicationInvariant, PTL DEF Spec, ImplementsProtocol, Protocol!Spec

-----------------------------------------------------------------------------
\* No step replaces the first roll except a push, pays for it twice, or moves
\* anything after the end of the session.
RollsStandStep ==
  \A a \in Actions :
    /\ run[a].status = "resolved" => run'[a] = run[a]
    /\ run[a].status # "none" =>
         /\ run'[a].rolls > run[a].rolls => run'[a].kind = "push"
         /\ run'[a].passed # run[a].passed => run'[a].kind \in {"push", "luck"}
    /\ phase = "ended" => run'[a] = run[a] /\ effects'[a] = effects[a]

LEMMA ResolveRollsStand ==
  ASSUME IInv, NEW w \in Workers, MayCommit(w), job[w].msg.type = "post_roll",
         NEW passed, NEW rolls, Resolve(w, passed, rolls),
         LET r == run[job[w].msg.action] IN
           \/ passed = r.passed /\ rolls = r.rolls
           \/ passed = TRUE /\ rolls = r.rolls /\ job[w].msg.arg = "luck"
           \/ job[w].msg.arg = "push"
  PROVE  RollsStandStep
<1> DEFINE m == job[w].msg
           a == m.action
<1>1. run' = [run EXCEPT ![a] = Settled(run[a], passed, rolls, m.arg)] /\ phase = "playing"
  BY DEF Resolve, MayCommit
<1>2. m \in Msg /\ a \in Actions /\ Valid(m)
  BY CommitIsValid
<1>3. run[a].status = "awaiting_post_roll_decision" /\ run[a] \in Run
  BY <1>2, PostRollFinds
<1>4. run \in [Actions -> Run]
  BY DEF IInv, TypeOK
<1>5. /\ run'[a].rolls = rolls /\ run'[a].passed = passed /\ run'[a].kind = m.arg
      /\ \A b \in Actions : b # a => run'[b] = run[b]
  BY <1>1, <1>2, <1>4 DEF Settled
<1>6. run'[a].rolls > run[a].rolls => run'[a].kind = "push"
  BY <1>3, <1>5 DEF Run
<1>7. run'[a].passed # run[a].passed => run'[a].kind \in {"push", "luck"}
  BY <1>5
<1>8. \A b \in Actions : b # a => ~(run'[b].rolls > run[b].rolls)
  BY <1>4, <1>5 DEF Run
<1> QED
  BY <1>1, <1>3, <1>5, <1>6, <1>7, <1>8 DEF RollsStandStep

\* The first roll is authoritative and a settled roll is final, for every room.
THEOREM RollsStandTheorem == Spec => RollsStand
<1>1. IInv /\ [Next]_vars => [RollsStandStep]_vars
  <2> SUFFICES ASSUME IInv, Next PROVE RollsStandStep
    OBVIOUS
  <2>1. run \in [Actions -> Run] /\ \A b \in Actions : ~(run[b].rolls > run[b].rolls)
    BY DEF IInv, TypeOK, Run
  <2>2. ASSUME run' = run, phase = "ended" => effects' = effects PROVE RollsStandStep
    BY <2>1, <2>2 DEF RollsStandStep
  <2>3. ASSUME NEW w \in Workers, NEW m \in Requests, Load(w, m) PROVE RollsStandStep
    BY <2>2, <2>3 DEF Load
  <2>4. ASSUME NEW w \in Workers, Rollback(w) PROVE RollsStandStep
    BY <2>2, <2>4 DEF Rollback
  <2>5. ASSUME NEW w \in Workers, SubmitUnchecked(w) \/ SubmitChecked(w) \/ CancelCheck(w)
        PROVE  RollsStandStep
    BY <2>2, <2>5 DEF SubmitUnchecked, SubmitChecked, CancelCheck, MayCommit
  <2>6. ASSUME NEW w \in Workers, SelectAndRoll(w) PROVE RollsStandStep
    <3> DEFINE a == job[w].msg.action
    <3>1. MayCommit(w) /\ job[w].msg.type = "decide" /\ UNCHANGED effects
      BY <2>6 DEF SelectAndRoll
    <3>2. a \in Actions /\ run[a].status = "none"
      BY <3>1, CommitIsValid, DecideFinds
    <3>3. \A b \in Actions : b # a => run'[b] = run[b]
      BY <2>1, <2>6 DEF SelectAndRoll
    <3>4. phase = "playing"
      BY <3>1 DEF MayCommit
    <3> QED
      BY <2>1, <3>2, <3>3, <3>4 DEF RollsStandStep
  <2>7. ASSUME NEW w \in Workers, AcceptResult(w) PROVE RollsStandStep
    BY <2>7, ResolveRollsStand, CommitRecords DEF AcceptResult, Commit
  <2>8. ASSUME NEW w \in Workers, SpendLuck(w) PROVE RollsStandStep
    BY <2>8, ResolveRollsStand, CommitRecords DEF SpendLuck, Commit
  <2>9. ASSUME NEW w \in Workers, Push(w) PROVE RollsStandStep
    BY <2>9, ResolveRollsStand, CommitRecords DEF Push, Commit
  <2>10. ASSUME EndGame PROVE RollsStandStep
    BY <2>2, <2>10 DEF EndGame
  <2> QED
    BY <2>3, <2>4, <2>5, <2>6, <2>7, <2>8, <2>9, <2>10 DEF Next, Commit
<1>2. RollsStand <=> [][RollsStandStep]_vars
  BY DEF RollsStand, RollsStandStep
<1> QED
  BY <1>1, <1>2, AdjudicationInvariant, PTL DEF Spec

-----------------------------------------------------------------------------
(* Luck: a sum over a finite set is proved about by its smallest part for    *)
(* which the claim fails.                                                    *)

\* Of sets of parts of a finite set, one contains no other.
LEMMA SmallestSet ==
  ASSUME NEW S, IsFiniteSet(S), NEW F, F \subseteq SUBSET S, F # {}
  PROVE  \E s \in F : \A u \in F : u \subseteq s => u = s
<1>1. F \subseteq FiniteSubsetsOf(S)
  BY FS_FiniteSubsetsOfFinite
<1>2. IsWellFoundedOn(StrictSubsetOrdering(S), FiniteSubsetsOf(S))
  BY FS_StrictSubsetOrderingWellFounded
<1>3. PICK s \in F : \A u \in F : <<u, s>> \notin StrictSubsetOrdering(S)
  BY <1>1, <1>2, WFMin
<1>. QED BY <1>3 DEF StrictSubsetOrdering

\* What the actions of S cost, and the same as the fold computes it: an element is
\* picked, and the rest is added up.
Bill(price, S) == MapThenSumSet(LAMBDA a : price[a].cost, S)

Pick(s) == CHOOSE x \in s : TRUE

Rest(s) == s \ {Pick(s)}

LEMMA PickIsIn == ASSUME NEW s, s # {} PROVE Pick(s) \in s /\ Rest(s) \subseteq s /\ Rest(s) # s
BY DEF Pick, Rest

Priced(price, S) == \A a \in S : price[a].cost \in Nat

\* h adds up the prices of each part of S, one element after the other.
Adds(h, price, S) ==
  h = [s \in SUBSET S |-> IF s = {} THEN 0 ELSE price[Pick(s)].cost + h[Rest(s)]]

\* There is one such h, and it does not depend on the set it is computed for.
LEMMA AddsIsUnique ==
  ASSUME NEW price, NEW S, IsFiniteSet(S), NEW h, NEW g, NEW T, S \subseteq T,
         Adds(h, price, S), Adds(g, price, T)
  PROVE  \A s \in SUBSET S : h[s] = g[s]
<1>. DEFINE Bad == {s \in SUBSET S : h[s] # g[s]}
<1>1. SUFFICES ASSUME Bad # {} PROVE FALSE
  OBVIOUS
<1>2. PICK s \in Bad : \A u \in Bad : u \subseteq s => u = s
  <2>1. Bad \subseteq SUBSET S
    OBVIOUS
  <2>. HIDE DEF Bad
  <2>. QED BY <1>1, <2>1, SmallestSet
<1>3. s # {} /\ s \in SUBSET T /\ s \in SUBSET S /\ h[s] # g[s]
  BY <1>2 DEF Adds
<1>4. Rest(s) \in SUBSET S /\ Rest(s) \notin Bad
  BY <1>2, <1>3, PickIsIn
<1>5. h[s] = price[Pick(s)].cost + h[Rest(s)]
  BY <1>3 DEF Adds
<1>6. g[s] = price[Pick(s)].cost + g[Rest(s)]
  BY <1>3 DEF Adds
<1>. QED BY <1>3, <1>4, <1>5, <1>6

LEMMA AddsExists ==
  ASSUME NEW price, NEW S, IsFiniteSet(S)
  PROVE  \E h : Adds(h, price, S)
<1>. DEFINE Bad == {s \in SUBSET S : ~ \E h : Adds(h, price, s)}
            Total(s) == (CHOOSE h : Adds(h, price, s))[s]
<1>1. SUFFICES ASSUME Bad # {} PROVE FALSE
  OBVIOUS
<1>2. PICK s \in Bad : \A u \in Bad : u \subseteq s => u = s
  <2>1. Bad \subseteq SUBSET S
    OBVIOUS
  <2>. HIDE DEF Bad
  <2>. QED BY <1>1, <2>1, SmallestSet
<1>3. \A u \in SUBSET s : u # s => Adds(CHOOSE h : Adds(h, price, u), price, u)
  BY <1>2
<1>. DEFINE Sum(u) == IF u = {} THEN 0 ELSE price[Pick(u)].cost + Total(Rest(u))
            g == [u \in SUBSET s |-> Sum(u)]
<1>4. ASSUME NEW u \in SUBSET s, u # s PROVE Total(u) = Sum(u)
  <2>. DEFINE h == CHOOSE h : Adds(h, price, u)
              k == CHOOSE k : Adds(k, price, Rest(u))
  <2>1. Adds(h, price, u)
    BY <1>3, <1>4
  <2>2. CASE u = {}
    BY <2>1, <2>2 DEF Adds
  <2>3. CASE u # {}
    <3>1. h[u] = price[Pick(u)].cost + h[Rest(u)]
      BY <2>1, <2>3 DEF Adds
    <3>2. Rest(u) \in SUBSET s /\ Rest(u) # s /\ Rest(u) \subseteq u /\ IsFiniteSet(Rest(u))
      BY <2>3, <1>2, PickIsIn, FS_Subset
    <3>3. Adds(k, price, Rest(u))
      BY <3>2, <1>3
    <3>4. k[Rest(u)] = h[Rest(u)]
      <4>. HIDE DEF h, k
      <4>. QED BY <2>1, <3>2, <3>3, AddsIsUnique
    <3>. QED BY <2>3, <3>1, <3>4
  <2>. QED BY <2>2, <2>3
<1>5. \A u \in SUBSET s : u # {} => g[Rest(u)] = Total(Rest(u))
  <2>1. ASSUME NEW u \in SUBSET s, u # {} PROVE g[Rest(u)] = Total(Rest(u))
    <3>1. Rest(u) \in SUBSET s /\ Rest(u) # s
      BY <2>1, PickIsIn
    <3>2. Total(Rest(u)) = Sum(Rest(u))
      BY <3>1, <1>4
    <3>. HIDE DEF Total, Sum
    <3>. QED BY <3>1, <3>2
  <2>. QED BY <2>1
<1>6. g = [u \in SUBSET s |-> IF u = {} THEN 0 ELSE price[Pick(u)].cost + g[Rest(u)]]
  <2>. HIDE DEF Total
  <2>. QED BY <1>5
<1>7. Adds(g, price, s)
  <2>. HIDE DEF g
  <2>. QED BY <1>6 DEF Adds
<1>. QED BY <1>2, <1>7

\* The fold is well defined.
LEMMA BillAdds ==
  ASSUME NEW price, NEW S, IsFiniteSet(S)
  PROVE  \E h : Adds(h, price, S) /\ \A s \in SUBSET S : Bill(price, s) = h[s]
<1>1. PICK h : Adds(h, price, S)
  BY AddsExists
<1>2. ASSUME NEW s \in SUBSET S PROVE Bill(price, s) = h[s]
  <2>. DEFINE g == CHOOSE g : Adds(g, price, s)
  <2>1. IsFiniteSet(s)
    BY FS_Subset
  <2>2. Adds(g, price, s)
    BY <2>1, AddsExists
  <2>3. Bill(price, s) = g[s]
    BY DEF Bill, MapThenSumSet, MapThenFoldSet, Adds, Pick, Rest
  <2>. HIDE DEF g
  <2>. QED BY <1>1, <2>1, <2>2, <2>3, AddsIsUnique
<1>. QED BY <1>1, <1>2

\* The bill of nothing, and of one element more.
LEMMA BillUnfolds ==
  ASSUME NEW price, NEW S, IsFiniteSet(S)
  PROVE  /\ Bill(price, {}) = 0
         /\ S # {} => Bill(price, S) = price[Pick(S)].cost + Bill(price, Rest(S))
<1>1. PICK h : Adds(h, price, S) /\ \A s \in SUBSET S : Bill(price, s) = h[s]
  BY BillAdds
<1>2. h[{}] = 0 /\ (S # {} => h[S] = price[Pick(S)].cost + h[Rest(S)])
  BY <1>1 DEF Adds
<1>3. {} \in SUBSET S /\ S \in SUBSET S /\ (S # {} => Rest(S) \in SUBSET S)
  BY PickIsIn
<1>. QED BY <1>1, <1>2, <1>3

LEMMA BillIsNat ==
  ASSUME NEW price, NEW S, IsFiniteSet(S), Priced(price, S)
  PROVE  Bill(price, S) \in Nat
<1>. DEFINE Bad == {s \in SUBSET S : Bill(price, s) \notin Nat}
<1>1. SUFFICES ASSUME Bad # {} PROVE FALSE
  OBVIOUS
<1>2. PICK s \in Bad : \A u \in Bad : u \subseteq s => u = s
  <2>1. Bad \subseteq SUBSET S
    OBVIOUS
  <2>. HIDE DEF Bad
  <2>. QED BY <1>1, <2>1, SmallestSet
<1>3. IsFiniteSet(s)
  BY FS_Subset
<1>4. s # {} /\ Bill(price, s) = price[Pick(s)].cost + Bill(price, Rest(s))
  <2>1. /\ Bill(price, {}) = 0
        /\ s # {} => Bill(price, s) = price[Pick(s)].cost + Bill(price, Rest(s))
    BY <1>3, BillUnfolds
  <2>2. Bill(price, s) \notin Nat
    OBVIOUS
  <2>3. s # {}
    BY <2>1, <2>2
  <2>. QED BY <2>1, <2>3
<1>5. Pick(s) \in S /\ Rest(s) \in SUBSET S /\ Rest(s) \notin Bad
  BY <1>2, <1>4, PickIsIn
<1>. QED BY <1>2, <1>4, <1>5 DEF Priced

\* The order in which the fold picks does not matter.
LEMMA BillTakesOut ==
  ASSUME NEW price, NEW S, IsFiniteSet(S), Priced(price, S)
  PROVE  \A a \in S : Bill(price, S) = price[a].cost + Bill(price, S \ {a})
<1>. DEFINE Out(s, a) == Bill(price, s) = price[a].cost + Bill(price, s \ {a})
            Bad == {s \in SUBSET S : \E a \in s : ~Out(s, a)}
<1>1. SUFFICES ASSUME Bad # {} PROVE FALSE
  <2>1. S \in Bad \/ \A a \in S : Out(S, a)
    OBVIOUS
  <2>. QED BY <2>1
<1>2. PICK s \in Bad : \A u \in Bad : u \subseteq s => u = s
  <2>1. Bad \subseteq SUBSET S
    OBVIOUS
  <2>. HIDE DEF Bad
  <2>. QED BY <1>1, <2>1, SmallestSet
<1>3. ASSUME NEW u, u \subseteq s, u # s, NEW b \in u PROVE Out(u, b)
  <2>1. u \in SUBSET S /\ u \notin Bad
    BY <1>2, <1>3
  <2>. HIDE DEF Out
  <2>. QED BY <2>1
<1>4. PICK a \in s : ~Out(s, a)
  OBVIOUS
<1>. DEFINE x == Pick(s)  r == s \ {x}  q == s \ {a}
<1>5. x \in s /\ Rest(s) = r /\ s \subseteq S
  BY <1>4, PickIsIn DEF Rest
<1>6. IsFiniteSet(s) /\ IsFiniteSet(r) /\ IsFiniteSet(r \ {a})
  BY <1>5, FS_Subset, FS_RemoveElement
<1>7. Bill(price, s) = price[x].cost + Bill(price, r)
  BY <1>5, <1>6, BillUnfolds
<1>8. x # a
  BY <1>4, <1>7
<1>9. Bill(price, r) = price[a].cost + Bill(price, r \ {a})
  BY <1>3, <1>4, <1>5, <1>8
<1>10. Bill(price, q) = price[x].cost + Bill(price, q \ {x})
  BY <1>3, <1>4, <1>5, <1>8
<1>11. Bill(price, q \ {x}) = Bill(price, r \ {a})
  <2>1. q \ {x} = r \ {a}
    OBVIOUS
  <2>. HIDE DEF q, r, x
  <2>. QED BY <2>1, Zenon
<1>12. price[x].cost \in Nat /\ price[a].cost \in Nat /\ Bill(price, r \ {a}) \in Nat
  BY <1>4, <1>5, <1>6, BillIsNat DEF Priced
<1>13. Bill(price, s) = price[a].cost + Bill(price, q)
  <2>. HIDE DEF q, r, x
  <2>. QED BY <1>7, <1>9, <1>10, <1>11, <1>12
<1>. QED BY <1>4, <1>13

\* The bill depends on the prices of what is billed only.
LEMMA BillOfSame ==
  ASSUME NEW price, NEW other, NEW S, IsFiniteSet(S),
         \A a \in S : price[a].cost = other[a].cost
  PROVE  Bill(price, S) = Bill(other, S)
<1>1. PICK h : Adds(h, price, S) /\ \A s \in SUBSET S : Bill(price, s) = h[s]
  BY BillAdds
<1>2. \A s \in SUBSET S : s # {} => Pick(s) \in S
  BY PickIsIn
<1>3. Adds(h, other, S)
  BY <1>1, <1>2 DEF Adds
<1>4. PICK g : Adds(g, other, S) /\ \A s \in SUBSET S : Bill(other, s) = g[s]
  BY BillAdds
<1>5. S \in SUBSET S /\ S \subseteq S
  OBVIOUS
<1>6. h[S] = g[S]
  BY <1>3, <1>4, <1>5, AddsIsUnique
<1>. QED BY <1>1, <1>4, <1>5, <1>6
-----------------------------------------------------------------------------
Paid(r) == {a \in Actions : r[a].kind = "luck"}

PaidBy(r, p) == {a \in Actions : Owner[a] = p /\ r[a].kind = "luck"}

\* What was paid for is settled and stands; what waits was rolled once, and
\* nothing is paid for it yet; and the balance with the bill is what there was.
LuckInv ==
  /\ IsFiniteSet(Paid(run))
  /\ \A a \in Paid(run) : run[a].passed /\ run[a].rolls = 1 /\ run[a].status = "resolved"
  /\ \A a \in Actions : run[a].status = "awaiting_post_roll_decision" =>
       run[a].kind = "none" /\ run[a].rolls = 1
  /\ \A p \in Players : luck[p] + Bill(run, PaidBy(run, p)) = InitialLuck

LEMMA LuckInit == Init => LuckInv
<1> SUFFICES ASSUME Init PROVE LuckInv
  OBVIOUS
<1>1. run = [a \in Actions |-> NoRun] /\ luck = [p \in Players |-> InitialLuck]
  BY DEF Init
<1>2. Paid(run) = {} /\ \A p \in Players : PaidBy(run, p) = {}
  BY <1>1 DEF Paid, PaidBy, NoRun
<1>3. IsFiniteSet({}) /\ \A r : Bill(r, {}) = 0
  BY FS_EmptySet, BillUnfolds
<1>4. \A p \in Players : luck[p] + Bill(run, PaidBy(run, p)) = InitialLuck
  <2>1. ASSUME NEW p \in Players PROVE luck[p] + Bill(run, PaidBy(run, p)) = InitialLuck
    <3>1. Bill(run, PaidBy(run, p)) = 0
      BY <1>2, <1>3, Zenon
    <3> QED
      BY <1>1, <3>1, LuckAssumption
  <2> QED
    BY <2>1
<1> QED
  BY <1>1, <1>2, <1>3, <1>4 DEF LuckInv, NoRun

\* The bill of a player is of finitely many actions, each with a price.
LEMMA BillsArePriced ==
  ASSUME TypeOK, LuckInv, NEW p \in Players
  PROVE  /\ PaidBy(run, p) \subseteq Actions
         /\ IsFiniteSet(PaidBy(run, p))
         /\ Priced(run, PaidBy(run, p))
         /\ Bill(run, PaidBy(run, p)) \in Nat
<1>1. PaidBy(run, p) \subseteq Paid(run)
  BY DEF Paid, PaidBy
<1>2. IsFiniteSet(PaidBy(run, p))
  BY <1>1, FS_Subset DEF LuckInv
<1>3. Priced(run, PaidBy(run, p))
  BY DEF Priced, PaidBy, TypeOK, Run
<1> QED
  BY <1>2, <1>3, BillIsNat DEF PaidBy

\* A roll, and a choice that costs no luck.
LEMMA LuckUnspent ==
  ASSUME TypeOK, LuckInv, NEW a \in Actions, run[a].status # "resolved",
         \A b \in Actions : b # a => run'[b] = run[b], luck' = luck,
         run'[a].kind # "luck",
         run'[a].status = "awaiting_post_roll_decision" =>
           run'[a].kind = "none" /\ run'[a].rolls = 1
  PROVE  LuckInv'
<1>1. a \notin Paid(run) /\ a \notin Paid(run')
  BY DEF LuckInv, Paid
<1>2. Paid(run') = Paid(run) /\ \A p \in Players : PaidBy(run', p) = PaidBy(run, p)
  BY <1>1 DEF Paid, PaidBy
<1>3. ASSUME NEW p \in Players
      PROVE  luck'[p] + Bill(run', PaidBy(run', p)) = InitialLuck
  <2>1. \A b \in PaidBy(run, p) : run'[b].cost = run[b].cost
    BY <1>1 DEF Paid, PaidBy
  <2>2. Bill(run', PaidBy(run, p)) = Bill(run, PaidBy(run, p))
    BY <2>1, BillsArePriced, BillOfSame
  <2>3. Bill(run', PaidBy(run', p)) = Bill(run, PaidBy(run, p))
    BY <1>2, <2>2, Zenon
  <2> QED
    BY <2>3 DEF LuckInv
<1>4. \A b \in Paid(run') : run'[b].passed /\ run'[b].rolls = 1 /\ run'[b].status = "resolved"
  BY <1>1, <1>2 DEF LuckInv, Paid
<1>5. IsFiniteSet(Paid(run'))
  BY <1>2, Zenon DEF LuckInv
<1>6. \A b \in Actions : run'[b].status = "awaiting_post_roll_decision" =>
        run'[b].kind = "none" /\ run'[b].rolls = 1
  BY DEF LuckInv
<1> QED
  BY <1>3, <1>4, <1>5, <1>6 DEF LuckInv

\* Luck that is spent: one action more on the bill, for what leaves the balance.
LEMMA LuckSpent ==
  ASSUME TypeOK, LuckInv, NEW a \in Actions, run[a].status = "awaiting_post_roll_decision",
         \A b \in Actions : b # a => run'[b] = run[b],
         luck' = [luck EXCEPT ![Owner[a]] = @ - run[a].cost],
         run'[a].kind = "luck", run'[a].passed, run'[a].rolls = run[a].rolls,
         run'[a].status = "resolved", run'[a].cost = run[a].cost
  PROVE  LuckInv'
<1>1. a \notin Paid(run) /\ Paid(run') = Paid(run) \cup {a}
  BY DEF LuckInv, Paid
<1>2. /\ Owner[a] \in Players /\ run[a].cost \in Nat
      /\ luck \in [Players -> Nat] /\ InitialLuck \in Nat
  BY OwnerAssumption, LuckAssumption DEF TypeOK, Run
<1>3. ASSUME NEW p \in Players
      PROVE  luck'[p] + Bill(run', PaidBy(run', p)) = InitialLuck
  <2> DEFINE old == PaidBy(run, p)  new == PaidBy(run', p)
  <2>1. IsFiniteSet(old) /\ a \notin old /\ Bill(run, old) \in Nat
    BY <1>1, BillsArePriced DEF Paid, PaidBy
  <2>2. \A b \in old : run'[b].cost = run[b].cost
    BY <2>1 DEF PaidBy
  <2>3. Bill(run', old) = Bill(run, old)
    BY <2>1, <2>2, BillOfSame
  <2>4. luck[p] + Bill(run, old) = InitialLuck
    BY DEF LuckInv
  <2>5. CASE p # Owner[a]
    <3>1. new = old
      BY <1>1, <2>5 DEF Paid, PaidBy
    <3>2. Bill(run', new) = Bill(run, old)
      BY <2>3, <3>1, Zenon
    <3> QED
      BY <1>2, <2>4, <2>5, <3>2
  <2>6. CASE p = Owner[a]
    <3>1. a \in new /\ new \ {a} = old /\ new = old \cup {a}
      BY <1>1, <2>6 DEF Paid, PaidBy
    <3>2. IsFiniteSet(new)
      BY <2>1, <3>1, FS_AddElement
    <3>3. Priced(run', new)
      BY <1>2, <3>1, BillsArePriced DEF Priced, PaidBy
    <3>4. Bill(run', new) = run'[a].cost + Bill(run', new \ {a})
      <4> HIDE DEF new
      <4> QED
        BY <3>1, <3>2, <3>3, BillTakesOut
    <3>5. Bill(run', new \ {a}) = Bill(run, old)
      <4> HIDE DEF new, old
      <4> QED
        BY <2>3, <3>1, Zenon
    <3>6. luck'[p] = luck[p] - run[a].cost
      BY <1>2, <2>6
    <3>7. Bill(run', new) = run[a].cost + Bill(run, old) /\ luck[p] \in Nat
      <4> HIDE DEF new, old
      <4> QED
        BY <1>2, <3>4, <3>5
    <3>8. luck'[p] + Bill(run', new) = InitialLuck
      <4> HIDE DEF new, old
      <4> QED
        BY <1>2, <2>1, <2>4, <3>6, <3>7
    <3> QED
      BY <3>8
  <2> QED
    BY <2>5, <2>6
<1>4. \A b \in Paid(run') : run'[b].passed /\ run'[b].rolls = 1 /\ run'[b].status = "resolved"
  BY <1>1 DEF LuckInv, Paid
<1>5. IsFiniteSet(Paid(run'))
  <2>1. IsFiniteSet(Paid(run) \cup {a})
    BY FS_AddElement DEF LuckInv
  <2> QED
    BY <1>1, <2>1, Zenon
<1>6. \A b \in Actions : run'[b].status = "awaiting_post_roll_decision" =>
        run'[b].kind = "none" /\ run'[b].rolls = 1
  BY DEF LuckInv
<1> QED
  BY <1>3, <1>4, <1>5, <1>6 DEF LuckInv

\* What a post-roll decision leaves of the rolls.
LEMMA ResolveFinds ==
  ASSUME IInv, NEW w \in Workers, MayCommit(w), job[w].msg.type = "post_roll",
         NEW passed, NEW rolls, Resolve(w, passed, rolls)
  PROVE  LET a == job[w].msg.action
         IN  /\ a \in Actions /\ run[a].status = "awaiting_post_roll_decision"
             /\ \A b \in Actions : b # a => run'[b] = run[b]
             /\ run'[a] = Settled(run[a], passed, rolls, job[w].msg.arg)
<1> DEFINE m == job[w].msg
           a == m.action
<1>1. m \in Msg /\ a \in Actions /\ Valid(m)
  BY CommitIsValid
<1>2. run[a].status = "awaiting_post_roll_decision" /\ run \in [Actions -> Run]
  BY <1>1, PostRollFinds DEF IInv, TypeOK
<1>3. run' = [run EXCEPT ![a] = Settled(run[a], passed, rolls, m.arg)]
  BY DEF Resolve
<1> QED
  BY <1>1, <1>2, <1>3

LEMMA LuckStep ==
  ASSUME IInv, LuckInv, [Next]_vars
  PROVE  LuckInv'
<1>1. TypeOK
  BY DEF IInv
<1>2. ASSUME run' = run, luck' = luck PROVE LuckInv'
  BY <1>2 DEF LuckInv, Paid, PaidBy
<1>3. ASSUME NEW w \in Workers, NEW m \in Requests, Load(w, m) PROVE LuckInv'
  BY <1>2, <1>3 DEF Load
<1>4. ASSUME NEW w \in Workers, Rollback(w) PROVE LuckInv'
  BY <1>2, <1>4 DEF Rollback
<1>5. ASSUME NEW w \in Workers, SubmitUnchecked(w) \/ SubmitChecked(w) \/ CancelCheck(w)
      PROVE  LuckInv'
  BY <1>2, <1>5 DEF SubmitUnchecked, SubmitChecked, CancelCheck
<1>6. ASSUME NEW w \in Workers, SelectAndRoll(w) PROVE LuckInv'
  <2> DEFINE a == job[w].msg.action
  <2>1. MayCommit(w) /\ job[w].msg.type = "decide" /\ UNCHANGED luck
    BY <1>6 DEF SelectAndRoll
  <2>2. a \in Actions /\ run[a].status = "none"
    BY <2>1, CommitIsValid, DecideFinds
  <2>3. /\ \A b \in Actions : b # a => run'[b] = run[b]
        /\ run'[a].kind = "none" /\ run'[a].rolls = 1
    BY <1>1, <1>6, <2>2 DEF SelectAndRoll, TypeOK
  <2> QED
    BY <1>1, <2>1, <2>2, <2>3, LuckUnspent
<1>7. ASSUME NEW w \in Workers, AcceptResult(w) \/ Push(w) PROVE LuckInv'
  <2> DEFINE a == job[w].msg.action
  <2>1. /\ MayCommit(w) /\ job[w].msg.type = "post_roll" /\ UNCHANGED luck
        /\ job[w].msg.arg \in {"accept", "push"}
    BY <1>7 DEF AcceptResult, Push
  <2>2. PICK passed, rolls : Resolve(w, passed, rolls)
    BY <1>7 DEF AcceptResult, Push
  <2>3. /\ a \in Actions /\ run[a].status = "awaiting_post_roll_decision"
        /\ \A b \in Actions : b # a => run'[b] = run[b]
        /\ run'[a] = Settled(run[a], passed, rolls, job[w].msg.arg)
    BY <2>1, <2>2, ResolveFinds
  <2>4. run'[a].kind # "luck" /\ run'[a].status = "resolved"
    BY <2>1, <2>3 DEF Settled
  <2> QED
    BY <1>1, <2>1, <2>3, <2>4, LuckUnspent
<1>8. ASSUME NEW w \in Workers, SpendLuck(w) PROVE LuckInv'
  <2> DEFINE a == job[w].msg.action
  <2>1. /\ MayCommit(w) /\ job[w].msg.type = "post_roll" /\ job[w].msg.arg = "luck"
        /\ luck' = [luck EXCEPT ![Owner[a]] = @ - run[a].cost]
        /\ Resolve(w, TRUE, run[a].rolls)
    BY <1>8 DEF SpendLuck
  <2>2. /\ a \in Actions /\ run[a].status = "awaiting_post_roll_decision"
        /\ \A b \in Actions : b # a => run'[b] = run[b]
        /\ run'[a] = Settled(run[a], TRUE, run[a].rolls, job[w].msg.arg)
    BY <2>1, ResolveFinds
  <2>3. /\ run'[a].kind = "luck" /\ run'[a].passed /\ run'[a].rolls = run[a].rolls
        /\ run'[a].status = "resolved" /\ run'[a].cost = run[a].cost
    BY <2>1, <2>2 DEF Settled
  <2> QED
    BY <1>1, <2>1, <2>2, <2>3, LuckSpent
<1>9. ASSUME EndGame \/ UNCHANGED vars PROVE LuckInv'
  BY <1>2, <1>9 DEF EndGame, vars
<1> QED
  BY <1>3, <1>4, <1>5, <1>6, <1>7, <1>8, <1>9 DEF Next, Commit

\* No luck is lost or spent twice: the balance of a player and what was paid for
\* the rolls that stand as passed make up what there was, whatever checks competed for it.
THEOREM LuckIsAccountedForTheorem == Spec => []LuckIsAccountedFor
<1>1. LuckInv => LuckIsAccountedFor
  BY DEF LuckInv, LuckIsAccountedFor, Bill, Paid, PaidBy
<1>2. Init => LuckInv
  BY LuckInit
<1>3. IInv /\ LuckInv /\ [Next]_vars => LuckInv'
  BY LuckStep
<1> QED
  BY <1>1, <1>2, <1>3, AdjudicationInvariant, PTL DEF Spec
=============================================================================
