---------------------------- MODULE Services_proofs ----------------------------
(***************************************************************************)
(* Proofs about the services that run beside the turns: the portraits, the *)
(* server's side of the spoken narration, the player on the page, what the *)
(* host is reminded of and what the players say to each other, for any     *)
(* characters, tasks, requests, messages, calls, restarts, turns, texts    *)
(* and limits.                                                             *)
(***************************************************************************)
EXTENDS MCServices, FiniteSetTheorems, WellFoundedInduction, TLAPS

-----------------------------------------------------------------------------
(* Portraits.  CancelHolds and NewestPortrait need no row locks;           *)
(* PortraitIsCompleted and DoneIsDone hold with them.                      *)

\* A task is not at work before it is made nor after it completed or failed.
NotAtWork(t) == task[t].status \in {"none", "completed", "failed"} => run[t] = "none"

\* What a row says of itself: a cancelled one has the flag, a made one a
\* character.
RowIsSound(t) ==
  /\ task[t].status \in {"cancelling", "cancelled"} => task[t].cancel
  /\ task[t].status = "none" <=> task[t].character = NoCharacter

\* A task that may still make the portrait is its character's newest.
MayMakeIt(t) == task[t].status \in Active /\ ~task[t].cancel

OnlyNewest ==
  \A t, u \in Tasks :
    MayMakeIt(t) /\ t < u => task[u].character # task[t].character

PortraitIsOwn ==
  \A c \in Characters : portrait[c] # 0 => task[portrait[c]].character = c

\* A cancel call that has read a row holds it as it read it.
CallHolds(k) ==
  call[k].step = "write" =>
    rowLock[call[k].task] = k /\ task[call[k].task].status = call[k].status

\* Tasks are made in their order, and a cancel is of a task that was made.
MadeInOrder ==
  \A t, u \in Tasks : u < t /\ task[t].status # "none" => task[u].status # "none"

CallNamesATask(k) == call[k].step # "idle" => task[call[k].task].status # "none"

Sound ==
  /\ \A t \in Tasks : NotAtWork(t) /\ RowIsSound(t)
  /\ MadeInOrder
  /\ \A k \in Calls : CallNamesATask(k)
  /\ OnlyNewest
  /\ PortraitIsOwn

Locked ==
  RowLocks => PortraitIsCompleted /\ \A k \in Calls : CallHolds(k)

IInv == TypeOK /\ Sound /\ Locked

-----------------------------------------------------------------------------
LEMMA InitIInv == Init => IInv
  <1> SUFFICES ASSUME Init PROVE IInv
    OBVIOUS
  <1>0. MaxTasks \in Nat /\ MaxRestarts \in Nat
    BY PortraitBoundsAssumption
  <1>1. TypeOK
    BY <1>0 DEF Init, TypeOK, Row, Active, Ended, Stages, Call
  <1>2. Sound
    BY NoCharacterAssumption
    DEF Init, Sound, NotAtWork, RowIsSound, MadeInOrder, CallNamesATask,
        OnlyNewest, MayMakeIt, Active, PortraitIsOwn
  <1>3. Locked
    BY DEF Init, Locked, PortraitIsCompleted, CallHolds
  <1>4. QED
    BY <1>1, <1>2, <1>3 DEF IInv

\* A status that the task is given.
LEMMA StatusTyped ==
  ASSUME TypeOK, NEW t \in Tasks, NEW s \in Active \cup Ended, SetStatus(t, s)
  PROVE  /\ task' \in [Tasks -> Row]
         /\ task'[t].status = s /\ task'[t].cancel = task[t].cancel
         /\ task'[t].character = task[t].character
         /\ \A u \in Tasks : u # t => task'[u] = task[u]
  BY DEF TypeOK, SetStatus, Row

LEMMA RunTyped ==
  ASSUME TypeOK, NEW t \in Tasks, Run(t)
  PROVE  TypeOK'
  <1> USE DEF Go
  <1>0. /\ task \in [Tasks -> Row] /\ run \in [Tasks -> Stages]
        /\ portrait \in [Characters -> {0} \cup Tasks]
    BY DEF TypeOK
  <1>1. CASE UNCHANGED <<task, portrait>> /\ \E s \in Stages : Go(t, s)
    BY <1>0, <1>1 DEF Run, ReadQueued, Start, Compose, Prompt, Generate, Materialize, After,
       ProviderStops, Raise, Complete, FinishCancelled, Fail, TypeOK
  <1>2. CASE ReadQueued(t)
    BY <1>1, <1>2 DEF ReadQueued, Stages, Tries
  <1>3. CASE Start(t)
    <2>1. CASE SetStatus(t, "generating") /\ Go(t, "started")
      <3>1. task' \in [Tasks -> Row]
        BY <2>1, StatusTyped DEF Active
      <3>2. QED
        BY <1>0, <1>3, <2>1, <3>1 DEF Start, TypeOK, Stages, Tries
    <2>2. CASE UNCHANGED task /\ Go(t, "failing")
      BY <1>1, <1>3, <2>2 DEF Start, Stages, Handlers
    <2>3. QED
      BY <1>3, <2>1, <2>2 DEF Start
  <1>4. CASE Compose(t) \/ Prompt(t) \/ Generate(t) \/ Materialize(t)
    BY <1>1, <1>4 DEF Compose, Prompt, Generate, Materialize, After, Stages, Tries, Handlers
  <1>5. CASE ProviderStops(t) \/ Raise(t)
    BY <1>1, <1>5 DEF ProviderStops, Raise, Stages, Handlers
  <1>6. CASE Complete(t)
    <2>1. CASE MayComplete(t)
      <3>1. SetStatus(t, "completed")
        BY <1>6, <2>1 DEF Complete
      <3>2. task' \in [Tasks -> Row]
        BY <3>1, StatusTyped DEF Ended
      <3>3. portrait' \in [Characters -> {0} \cup Tasks]
        BY <1>0, <1>6, <2>1 DEF Complete
      <3>4. run' \in [Tasks -> Stages]
        BY <1>0, <1>6, <2>1 DEF Complete, Stages
      <3>5. QED
        BY <1>6, <3>2, <3>3, <3>4 DEF Complete, TypeOK
    <2>2. CASE ~MayComplete(t)
      BY <1>1, <1>6, <2>2 DEF Complete, Stages, Tries
    <2>3. QED
      BY <2>1, <2>2
  <1>7. CASE FinishCancelled(t)
    <2>1. task' \in [Tasks -> Row]
      BY <1>0, <1>7 DEF FinishCancelled, Row, Ended
    <2>2. QED
      BY <1>0, <1>7, <2>1 DEF FinishCancelled, TypeOK, Stages
  <1>8. CASE Fail(t)
    <2>1. task' \in [Tasks -> Row]
      BY <1>0, <1>8, StatusTyped DEF Fail, Ended
    <2>2. QED
      BY <1>0, <1>8, <2>1 DEF Fail, TypeOK, Stages
  <1>9. QED
    BY <1>2, <1>3, <1>4, <1>5, <1>6, <1>7, <1>8 DEF Run

LEMMA Typed ==
  ASSUME TypeOK, [Next]_vars
  PROVE  TypeOK'
  <1>0. /\ task \in [Tasks -> Row] /\ run \in [Tasks -> Stages] /\ call \in [Calls -> Call]
        /\ told \in [Tasks -> BOOLEAN] /\ rowLock \in [Tasks -> Calls \cup {NoCall}]
        /\ restarts \in 0..MaxRestarts
    BY DEF TypeOK
  <1>1. ASSUME NEW t \in Tasks, NEW c \in Characters, Create(t, c) PROVE TypeOK'
    BY <1>0, <1>1 DEF Create, Go, TypeOK, Row, Active, Stages
  <1>2. ASSUME NEW k \in Calls, NEW t \in Tasks, CancelRead(k, t) PROVE TypeOK'
    <2>1. [step |-> "write", task |-> t, status |-> task[t].status] \in Call
      BY <1>2 DEF CancelRead, Call
    <2>2. call' \in [Calls -> Call]
      BY <1>0, <1>2, <2>1 DEF CancelRead
    <2>3. rowLock' \in [Tasks -> Calls \cup {NoCall}]
      BY <1>0, <1>2 DEF CancelRead
    <2>4. QED
      BY <1>2, <2>2, <2>3 DEF CancelRead, TypeOK
  <1>3. ASSUME NEW k \in Calls, CancelWrite(k) PROVE TypeOK'
    <2>0. /\ call[k] \in Call /\ call[k].step = "write" /\ call[k].task \in Tasks
          /\ call[k].status \in Active
      BY <1>0, <1>3 DEF CancelWrite, Call
    <2>1. [step |-> "idle"] \in Call /\ [call[k] EXCEPT !.step = "tell"] \in Call
      BY <2>0 DEF Call
    <2>2. call' \in [Calls -> Call]
      BY <1>0, <1>3, <2>1 DEF CancelWrite
    <2>3. CancelledStatus(call[k].status, task[call[k].task].status)
            \in Active \cup Ended \cup {"none"}
      BY <1>0, <2>0 DEF CancelledStatus, Row, Active, Ended
    <2>4. task' \in [Tasks -> Row]
      <3> DEFINE new == [status |-> CancelledStatus(call[k].status, task[call[k].task].status),
                         cancel |-> TRUE, character |-> task[call[k].task].character]
      <3>1. new \in Row
        BY <1>0, <2>0, <2>3 DEF Row
      <3>2. task' = task \/ task' = [task EXCEPT ![call[k].task] = new]
        BY <1>3 DEF CancelWrite
      <3>3. QED
        <4> HIDE DEF new
        <4>1. QED
          BY <1>0, <2>0, <3>1, <3>2
    <2>5. rowLock' \in [Tasks -> Calls \cup {NoCall}]
      BY <1>0, <1>3 DEF CancelWrite
    <2>6. QED
      BY <1>3, <2>2, <2>4, <2>5 DEF CancelWrite, TypeOK
  <1>4. ASSUME NEW k \in Calls, CancelTell(k) PROVE TypeOK'
    <2>0. call[k] \in Call /\ call[k].step = "tell" /\ call[k].task \in Tasks
      BY <1>0, <1>4 DEF CancelTell, Call
    <2>1. [step |-> "idle"] \in Call /\ [call[k] EXCEPT !.step = "interrupt"] \in Call
      BY <2>0 DEF Call
    <2>2. call' \in [Calls -> Call]
      BY <1>0, <1>4, <2>1 DEF CancelTell
    <2>3. told' \in [Tasks -> BOOLEAN]
      BY <1>0, <1>4, <2>0 DEF CancelTell
    <2>4. QED
      BY <1>4, <2>2, <2>3 DEF CancelTell, TypeOK
  <1>5. ASSUME NEW k \in Calls, CancelInterrupt(k) PROVE TypeOK'
    <2>0. [step |-> "idle"] \in Call
      BY DEF Call
    <2>1. call' \in [Calls -> Call]
      BY <1>0, <1>5, <2>0 DEF CancelInterrupt
    <2>2. run' \in [Tasks -> Stages]
      BY <1>0, <1>5 DEF CancelInterrupt, Go, Stages, Handlers
    <2>3. QED
      BY <1>5, <2>1, <2>2 DEF CancelInterrupt, TypeOK
  <1>6. CASE Restart
    <2>1. task' \in [Tasks -> Row]
      BY <1>0, <1>6 DEF Restart, Row, Active, Ended
    <2>2. restarts' \in 0..MaxRestarts
      BY <1>0, <1>6, PortraitBoundsAssumption DEF Restart
    <2>3. QED
      BY <1>6, <2>1, <2>2 DEF Restart, TypeOK, Stages, Call
  <1>7. CASE UNCHANGED vars
    BY <1>7 DEF vars, TypeOK
  <1>8. QED
    BY <1>1, <1>2, <1>3, <1>4, <1>5, <1>6, <1>7, RunTyped DEF Next, Cancel

-----------------------------------------------------------------------------
\* The calls that are open now were open before, about the same tasks.
CallsGoOn ==
  \A k \in Calls : call'[k].step # "idle" =>
    call[k].step # "idle" /\ call'[k].task = call[k].task

\* A step that writes no row.
LEMMA NoRowWritten ==
  ASSUME IInv, UNCHANGED <<task, portrait>>,
         \A u \in Tasks : run'[u] # "none" => run[u] # "none",
         \A k \in Calls : CallNamesATask(k)'
  PROVE  Sound'
  BY DEF IInv, TypeOK, Sound, NotAtWork, RowIsSound, MadeInOrder, OnlyNewest, MayMakeIt,
     PortraitIsOwn

\* A step that writes one row: a cancel stays, a task that was given up is not
\* taken up again without the flag, and who has ended is at work no more.
LEMMA OneRowWritten ==
  ASSUME IInv, NEW t \in Tasks, NEW s \in Active \cup Ended, NEW b \in BOOLEAN,
         task[t].status # "none",
         task' = [task EXCEPT ![t] = [status |-> s, cancel |-> b,
                                      character |-> task[t].character]],
         \A u \in Tasks : u # t => run'[u] = run[u],
         s \in {"completed", "failed"} => run'[t] = "none",
         s \in {"cancelling", "cancelled"} => b,
         task[t].cancel => b,
         s \in Active /\ ~b => task[t].status \in Active,
         CallsGoOn,
         \A c \in Characters :
           portrait'[c] = portrait[c] \/ (portrait'[c] = t /\ c = task[t].character)
  PROVE  Sound'
  <1>0. /\ task \in [Tasks -> Row] /\ \A u \in Tasks : u # t => task'[u] = task[u]
        /\ task'[t].status = s /\ task'[t].cancel = b
        /\ task'[t].character = task[t].character
        /\ call \in [Calls -> Call] /\ portrait \in [Characters -> {0} \cup Tasks]
    BY DEF IInv, TypeOK
  <1>1. s # "none"
    BY DEF Active, Ended
  <1>2. \A u \in Tasks : NotAtWork(u)' /\ RowIsSound(u)'
    BY <1>0, <1>1 DEF IInv, Sound, NotAtWork, RowIsSound
  <1>3. MadeInOrder'
    BY <1>0, <1>1 DEF IInv, Sound, MadeInOrder
  <1>4. ASSUME NEW k \in Calls PROVE CallNamesATask(k)'
    <2>1. call[k].step # "idle" => call[k].task \in Tasks
      BY <1>0 DEF Call
    <2>2. QED
      BY <1>0, <1>1, <2>1 DEF IInv, Sound, CallNamesATask, CallsGoOn
  <1>5. OnlyNewest'
    <2>1. \A u \in Tasks : MayMakeIt(u)' => MayMakeIt(u)
      BY <1>0 DEF MayMakeIt
    <2>2. \A u \in Tasks : task'[u].character = task[u].character
      BY <1>0
    <2>3. QED
      BY <2>1, <2>2 DEF IInv, Sound, OnlyNewest
  <1>6. PortraitIsOwn'
    BY <1>0 DEF IInv, Sound, PortraitIsOwn
  <1>7. QED
    BY <1>2, <1>3, <1>4, <1>5, <1>6 DEF Sound

LEMMA RunSound ==
  ASSUME IInv, NEW t \in Tasks, Run(t)
  PROVE  Sound'
  <1>0. /\ task \in [Tasks -> Row] /\ run \in [Tasks -> Stages]
        /\ task[t].status \in Active \cup Ended \cup {"none"} /\ task[t].cancel \in BOOLEAN
        /\ NotAtWork(t) /\ RowIsSound(t)
    BY DEF IInv, TypeOK, Sound, Row
  <1>1. UNCHANGED call /\ \A u \in Tasks : u # t => run'[u] = run[u]
    BY <1>0 DEF Run, ReadQueued, Start, Compose, Prompt, Generate, Materialize, After,
       ProviderStops, Raise, Complete, FinishCancelled, Fail, Go
  <1>2. run[t] # "none"
    BY DEF Run, ReadQueued, Start, Compose, Prompt, Generate, Materialize, After,
       ProviderStops, Raise, Complete, FinishCancelled, Fail
  <1>3. task[t].status \in {"queued", "generating", "cancelling", "cancelled"}
    BY <1>0, <1>2 DEF NotAtWork, Active, Ended
  <1>4. CallsGoOn /\ (UNCHANGED task => \A k \in Calls : CallNamesATask(k)')
    BY <1>1 DEF CallsGoOn, IInv, Sound, CallNamesATask
  <1>5. CASE UNCHANGED <<task, portrait>>
    BY <1>1, <1>2, <1>4, <1>5, NoRowWritten
  <1>6. CASE Start(t) /\ SetStatus(t, "generating")
    <2>1. UNCHANGED portrait
      BY <1>6 DEF Start
    <2>2. task[t].status \in {"queued", "generating"} \/ task[t].cancel
      BY <1>0, <1>3 DEF RowIsSound
    <2>3. QED
      BY <1>0, <1>1, <1>3, <1>4, <1>6, <2>1, <2>2, OneRowWritten DEF SetStatus, Active
  <1>7. CASE Complete(t) /\ MayComplete(t)
    <2>1. SetStatus(t, "completed") /\ run'[t] = "none"
      BY <1>0, <1>7 DEF Complete, Go
    <2>2. \A c \in Characters :
            portrait'[c] = portrait[c] \/ (portrait'[c] = t /\ c = task[t].character)
      BY <1>7 DEF Complete, IInv, TypeOK
    <2>3. QED
      BY <1>0, <1>1, <1>3, <1>4, <2>1, <2>2, OneRowWritten DEF SetStatus, Active, Ended
  <1>8. CASE FinishCancelled(t) /\ task[t].status \in Active
    <2>1. /\ UNCHANGED portrait
          /\ task' = [task EXCEPT ![t] = [status |-> "cancelled", cancel |-> TRUE,
                                          character |-> task[t].character]]
      BY <1>8 DEF FinishCancelled
    <2>2. QED
      BY <1>0, <1>1, <1>3, <1>4, <2>1, OneRowWritten DEF Active, Ended
  <1>9. CASE Fail(t) /\ SetStatus(t, "failed")
    <2>1. UNCHANGED portrait /\ run'[t] = "none"
      BY <1>0, <1>9 DEF Fail, Go
    <2>2. QED
      BY <1>0, <1>1, <1>3, <1>4, <1>9, <2>1, OneRowWritten DEF SetStatus, Active, Ended
  <1>10. QED
    BY <1>5, <1>6, <1>7, <1>8, <1>9
    DEF Run, ReadQueued, Start, Compose, Prompt, Generate, Materialize, After,
        ProviderStops, Raise, Complete, FinishCancelled, Fail

LEMMA CreateSound ==
  ASSUME IInv, NEW t \in Tasks, NEW c \in Characters, Create(t, c)
  PROVE  Sound'
  <1>0. /\ task \in [Tasks -> Row] /\ run \in [Tasks -> Stages] /\ call \in [Calls -> Call]
        /\ portrait \in [Characters -> {0} \cup Tasks] /\ c # NoCharacter
    BY NoCharacterAssumption DEF IInv, TypeOK
  <1>1. /\ task'[t].status = "queued" /\ task'[t].cancel = FALSE /\ task'[t].character = c
        /\ run'[t] = "scheduled" /\ task[t].status = "none"
        /\ \A u \in Tasks : u # t => task'[u] = task[u] /\ run'[u] = run[u]
        /\ UNCHANGED <<portrait, call>>
    BY <1>0 DEF Create, Go
  <1>2. \A u \in Tasks : NotAtWork(u)' /\ RowIsSound(u)'
    BY <1>0, <1>1 DEF IInv, Sound, NotAtWork, RowIsSound
  <1>3. \A u \in Tasks : u < t => task[u].status # "none"
    BY DEF Create
  <1>4. \A u \in Tasks : t < u => task[u].status = "none" /\ task[u].character = NoCharacter
    BY <1>1 DEF IInv, Sound, MadeInOrder, RowIsSound
  <1>5. MadeInOrder'
    BY <1>1, <1>3, <1>4 DEF IInv, Sound, MadeInOrder, Tasks
  <1>6. \A k \in Calls : CallNamesATask(k)'
    <2>1. ASSUME NEW k \in Calls, call[k].step # "idle" PROVE call[k].task \in Tasks
      BY <1>0, <2>1 DEF Call
    <2>2. QED
      BY <1>1, <2>1 DEF IInv, Sound, CallNamesATask
  <1>7. OnlyNewest'
    <2>1. SUFFICES ASSUME NEW v \in Tasks, NEW u \in Tasks, MayMakeIt(v)', v < u
                   PROVE  task'[u].character # task'[v].character
      BY DEF OnlyNewest
    <2>2. CASE v = t
      BY <1>0, <1>1, <1>4, <2>1, <2>2 DEF Tasks
    <2>3. CASE v # t /\ u = t
      <3>1. task[v].status \in Active
        BY <1>1, <2>1, <2>3 DEF MayMakeIt
      <3>2. QED
        BY <1>1, <2>3, <3>1 DEF Create, ActiveOf
    <2>4. CASE v # t /\ u # t
      BY <1>1, <2>1, <2>4 DEF IInv, Sound, OnlyNewest, MayMakeIt
    <2>5. QED
      BY <2>2, <2>3, <2>4
  <1>8. PortraitIsOwn'
    <2>1. ASSUME NEW d \in Characters, portrait[d] # 0 PROVE task'[portrait[d]].character = d
      <3>1. portrait[d] \in Tasks /\ task[portrait[d]].character = d
        BY <1>0, <2>1 DEF IInv, Sound, PortraitIsOwn
      <3>2. d # NoCharacter
        BY NoCharacterAssumption
      <3>3. portrait[d] # t
        BY <1>1, <3>1, <3>2 DEF IInv, Sound, RowIsSound
      <3>4. QED
        BY <1>1, <3>1, <3>3
    <2>2. QED
      BY <1>1, <2>1 DEF PortraitIsOwn
  <1>9. QED
    BY <1>2, <1>5, <1>6, <1>7, <1>8 DEF Sound

LEMMA CancelSound ==
  ASSUME IInv, NEW k \in Calls, Cancel(k) \/ \E t \in Tasks : CancelRead(k, t)
  PROVE  Sound'
  <1>0. /\ task \in [Tasks -> Row] /\ run \in [Tasks -> Stages] /\ call \in [Calls -> Call]
        /\ call[k] \in Call
    BY DEF IInv, TypeOK
  <1>1. ASSUME NEW t \in Tasks, CancelRead(k, t) PROVE Sound'
    <2>1. /\ UNCHANGED <<task, portrait, run>> /\ task[t].status # "none"
          /\ call'[k].task = t /\ \A l \in Calls : l # k => call'[l] = call[l]
      BY <1>0, <1>1 DEF CancelRead, Active
    <2>2. \A l \in Calls : CallNamesATask(l)'
      BY <2>1 DEF IInv, Sound, CallNamesATask
    <2>3. QED
      BY <2>1, <2>2, NoRowWritten
  <1>2. CASE CancelTell(k) \/ CancelInterrupt(k)
    <2>1. UNCHANGED <<task, portrait>>
      BY <1>2 DEF CancelTell, CancelInterrupt
    <2>2. \A u \in Tasks : run'[u] # "none" => run[u] # "none"
      BY <1>0, <1>2 DEF CancelTell, CancelInterrupt, Go, Tries, Handlers
    <2>3. CallsGoOn
      BY <1>0, <1>2 DEF CancelTell, CancelInterrupt, CallsGoOn, Call
    <2>4. \A l \in Calls : CallNamesATask(l)'
      BY <2>1, <2>3 DEF IInv, Sound, CallNamesATask, CallsGoOn
    <2>5. QED
      BY <2>1, <2>2, <2>4, NoRowWritten
  <1>3. CASE CancelWrite(k)
    <2> DEFINE t == call[k].task
               s == CancelledStatus(call[k].status, task[t].status)
    <2>0. /\ call[k].step = "write" /\ t \in Tasks /\ task[t].status # "none"
          /\ task[t].status \in Active \cup Ended /\ NotAtWork(t) /\ RowIsSound(t)
      <3>1. call[k].step = "write"
        BY <1>3 DEF CancelWrite
      <3>2. t \in Tasks /\ task[t].status # "none"
        BY <1>0, <3>1 DEF Call, IInv, Sound, CallNamesATask
      <3>3. QED
        BY <1>0, <3>1, <3>2 DEF Row, IInv, Sound
    <2>1. UNCHANGED <<portrait, run>> /\ CallsGoOn
      BY <1>0, <1>3 DEF CancelWrite, CallsGoOn, Call
    <2>2. CASE UNCHANGED task
      BY <2>1, <2>2, NoRowWritten DEF IInv, Sound, CallNamesATask, CallsGoOn
    <2>3. CASE task' = [task EXCEPT ![t] = [status |-> s, cancel |-> TRUE,
                                            character |-> task[t].character]]
      <3>1. s \in Active \cup Ended
        BY <2>0 DEF CancelledStatus, Active, Ended
      <3>2. s \in {"completed", "failed"} => run'[t] = "none"
        BY <2>0, <2>1 DEF CancelledStatus, NotAtWork
      <3>3. QED
        <4> HIDE DEF s, t
        <4>1. QED
          BY <2>0, <2>1, <2>3, <3>1, <3>2, OneRowWritten
    <2>4. QED
      BY <1>3, <2>2, <2>3 DEF CancelWrite
  <1>4. QED
    BY <1>1, <1>2, <1>3 DEF Cancel

LEMMA RestartSound ==
  ASSUME IInv, Restart
  PROVE  Sound'
  <1>0. task \in [Tasks -> Row] /\ portrait \in [Characters -> {0} \cup Tasks]
    BY DEF IInv, TypeOK
  <1>1. \A t \in Tasks : /\ task'[t].cancel = task[t].cancel
                         /\ task'[t].character = task[t].character
                         /\ task'[t].status \notin Active
                         /\ task'[t].status = "none" <=> task[t].status = "none"
                         /\ task'[t].status = "cancelled" => task[t].status = "cancelled"
                         /\ run'[t] = "none"
    BY <1>0 DEF Restart, Active
  <1>2. \A t \in Tasks : NotAtWork(t)' /\ RowIsSound(t)'
    BY <1>1 DEF IInv, Sound, NotAtWork, RowIsSound, Active
  <1>3. MadeInOrder' /\ OnlyNewest' /\ \A k \in Calls : CallNamesATask(k)'
    BY <1>1 DEF IInv, Sound, MadeInOrder, OnlyNewest, MayMakeIt, CallNamesATask, Restart
  <1>4. PortraitIsOwn'
    BY <1>0, <1>1 DEF IInv, Sound, PortraitIsOwn, Restart
  <1>5. QED
    BY <1>2, <1>3, <1>4 DEF Sound

-----------------------------------------------------------------------------
\* With row locks, a coroutine writes neither a row that a cancel holds nor one
\* that has ended.
LEMMA RunLocked ==
  ASSUME IInv, RowLocks, NEW t \in Tasks, Run(t)
  PROVE  PortraitIsCompleted' /\ \A k \in Calls : CallHolds(k)'
  <1>0. /\ task \in [Tasks -> Row] /\ portrait \in [Characters -> {0} \cup Tasks]
        /\ call \in [Calls -> Call] /\ NotAtWork(t)
        /\ PortraitIsCompleted /\ \A k \in Calls : CallHolds(k)
    BY DEF IInv, TypeOK, Sound, Locked
  <1>1. task[t].status \notin {"completed", "failed"}
    BY <1>0 DEF NotAtWork, Run, ReadQueued, Start, Compose, Prompt, Generate, Materialize, After,
       ProviderStops, Raise, Complete, FinishCancelled, Fail
  <1>2. UNCHANGED <<call, rowLock>>
    BY DEF Run, ReadQueued, Start, Compose, Prompt, Generate, Materialize, After,
       ProviderStops, Raise, Complete, FinishCancelled, Fail
  <1>3. \/ UNCHANGED task
        \/ RowFree(t) /\ \A u \in Tasks : u # t => task'[u] = task[u]
    BY <1>0 DEF Run, ReadQueued, Start, Compose, Prompt, Generate, Materialize, After,
       ProviderStops, Raise, Complete, FinishCancelled, Fail, SetStatus
  <1>4. ASSUME NEW k \in Calls PROVE CallHolds(k)'
    <2>1. call[k].step = "write" => call[k].task \in Tasks /\ k # NoCall
      BY <1>0, NoCallAssumption DEF Call
    <2>2. QED
      BY <1>0, <1>2, <1>3, <2>1 DEF CallHolds, RowFree
  <1>5. PortraitIsCompleted'
    <2>1. CASE UNCHANGED portrait
      <3>1. \A c \in Characters : portrait[c] # 0 => portrait[c] \in Tasks /\ portrait[c] # t
        BY <1>0, <1>1 DEF PortraitIsCompleted
      <3>2. QED
        BY <1>0, <1>3, <2>1, <3>1 DEF PortraitIsCompleted
    <2>2. CASE Complete(t) /\ MayComplete(t)
      <3>1. /\ task'[t].status = "completed" /\ task'[t].character = task[t].character
            /\ \A u \in Tasks : u # t => task'[u] = task[u]
            /\ \A c \in Characters :
                 portrait'[c] = portrait[c] \/ (portrait'[c] = t /\ c = task[t].character)
        BY <1>0, <2>2 DEF Complete, SetStatus
      <3>2. QED
        BY <1>0, <1>1, <3>1 DEF PortraitIsCompleted
    <2>3. QED
      BY <2>1, <2>2 DEF Run, ReadQueued, Start, Compose, Prompt, Generate, Materialize, After,
         ProviderStops, Raise, Complete, FinishCancelled, Fail
  <1>6. QED
    BY <1>4, <1>5

LEMMA CancelLocked ==
  ASSUME IInv, RowLocks, NEW k \in Calls, Cancel(k) \/ \E t \in Tasks : CancelRead(k, t)
  PROVE  PortraitIsCompleted' /\ \A l \in Calls : CallHolds(l)'
  <1>0. /\ task \in [Tasks -> Row] /\ portrait \in [Characters -> {0} \cup Tasks]
        /\ call \in [Calls -> Call] /\ call[k] \in Call
        /\ rowLock \in [Tasks -> Calls \cup {NoCall}]
        /\ PortraitIsCompleted /\ \A l \in Calls : CallHolds(l)
    BY DEF IInv, TypeOK, Locked
  <1>1. \A l \in Calls : l # k => call'[l] = call[l]
    BY <1>0 DEF Cancel, CancelWrite, CancelTell, CancelInterrupt, CancelRead
  <1>2. \A l \in Calls : call[l].step = "write" => call[l].task \in Tasks /\ l # NoCall
    BY <1>0, NoCallAssumption DEF Call
  <1>3. ASSUME NEW t \in Tasks, CancelRead(k, t)
        PROVE  PortraitIsCompleted' /\ \A l \in Calls : CallHolds(l)'
    <2>1. /\ UNCHANGED <<task, portrait>> /\ rowLock[t] = NoCall /\ rowLock'[t] = k
          /\ \A u \in Tasks : u # t => rowLock'[u] = rowLock[u]
          /\ call'[k].task = t /\ call'[k].status = task[t].status
      BY <1>0, <1>3 DEF CancelRead, RowFree
    <2>2. QED
      BY <1>0, <1>1, <1>2, <2>1 DEF PortraitIsCompleted, CallHolds
  <1>4. CASE CancelTell(k) \/ CancelInterrupt(k)
    <2>1. UNCHANGED <<task, portrait, rowLock>> /\ call'[k].step # "write"
      BY <1>0, <1>4 DEF CancelTell, CancelInterrupt, Call
    <2>2. QED
      BY <1>0, <1>1, <2>1 DEF PortraitIsCompleted, CallHolds
  <1>5. CASE CancelWrite(k)
    <2>1. call[k].step = "write" /\ call[k].task \in Tasks /\ call[k].status \in Active
      BY <1>0, <1>5 DEF CancelWrite, Call
    <2>2. rowLock[call[k].task] = k /\ task[call[k].task].status \in Active
      BY <1>0, <2>1 DEF CallHolds
    <2>3. /\ \A u \in Tasks : u # call[k].task => task'[u] = task[u] /\ rowLock'[u] = rowLock[u]
          /\ UNCHANGED portrait /\ call'[k].step # "write"
      BY <1>0, <1>5, <2>1 DEF CancelWrite, Call
    <2>4. \A l \in Calls : l # k /\ call[l].step = "write" => call[l].task # call[k].task
      BY <1>0, <2>1, <2>2 DEF CallHolds
    <2>5. \A l \in Calls : CallHolds(l)'
      BY <1>0, <1>1, <1>2, <2>3, <2>4 DEF CallHolds
    <2>6. \A c \in Characters :
            portrait[c] # 0 => portrait[c] \in Tasks /\ portrait[c] # call[k].task
      BY <1>0, <2>2 DEF PortraitIsCompleted, Active
    <2>7. PortraitIsCompleted'
      BY <1>0, <2>3, <2>6 DEF PortraitIsCompleted
    <2>8. QED
      BY <2>5, <2>7
  <1>6. QED
    BY <1>3, <1>4, <1>5 DEF Cancel

LEMMA IInvIsInductive == IInv /\ [Next]_vars => IInv'
  <1> SUFFICES ASSUME IInv, [Next]_vars PROVE Sound' /\ Locked'
    BY Typed DEF IInv
  <1>0. /\ task \in [Tasks -> Row] /\ portrait \in [Characters -> {0} \cup Tasks]
        /\ call \in [Calls -> Call]
    BY DEF IInv, TypeOK
  <1>1. ASSUME NEW t \in Tasks, NEW c \in Characters, Create(t, c) PROVE Sound' /\ Locked'
    <2>1. /\ task[t].status = "none" /\ UNCHANGED <<portrait, call, rowLock>>
          /\ \A u \in Tasks : u # t => task'[u] = task[u]
      BY <1>0, <1>1 DEF Create
    <2>2. RowLocks => PortraitIsCompleted'
      BY <1>0, <2>1 DEF IInv, Locked, PortraitIsCompleted
    <2>3. ASSUME RowLocks, NEW k \in Calls PROVE CallHolds(k)'
      <3>1. call[k].step = "write" =>
              call[k].task \in Tasks /\ call[k].status \in Active /\ CallHolds(k)
        BY <1>0, <2>3 DEF Call, IInv, Locked
      <3>2. QED
        BY <2>1, <3>1 DEF CallHolds, Active
    <2>4. QED
      BY <1>1, <2>2, <2>3, CreateSound DEF Locked
  <1>2. ASSUME NEW t \in Tasks, Run(t) PROVE Sound' /\ Locked'
    BY <1>2, RunSound, RunLocked DEF Locked
  <1>3. ASSUME NEW k \in Calls, Cancel(k) \/ \E t \in Tasks : CancelRead(k, t)
        PROVE  Sound' /\ Locked'
    BY <1>3, CancelSound, CancelLocked DEF Locked
  <1>4. CASE Restart
    <2>1. RowLocks => PortraitIsCompleted'
      BY <1>0, <1>4 DEF Restart, IInv, Locked, PortraitIsCompleted, Active
    <2>2. \A k \in Calls : CallHolds(k)'
      BY <1>4 DEF Restart, CallHolds
    <2>3. QED
      BY <1>4, <2>1, <2>2, RestartSound DEF Locked
  <1>5. CASE UNCHANGED vars
    <2>1. Sound'
      BY <1>5, NoRowWritten DEF vars, IInv, Sound, CallNamesATask
    <2>2. Locked'
      BY <1>5 DEF vars, IInv, Locked, PortraitIsCompleted, CallHolds
    <2>3. QED
      BY <2>1, <2>2
  <1>6. QED
    BY <1>1, <1>2, <1>3, <1>4, <1>5 DEF Next

\* In every reachable state the rows are sound, and those that a cancel or a
\* portrait relies on are as it left them.
THEOREM PortraitInvariant == Spec => []IInv
  BY InitIInv, IInvIsInductive, PTL DEF Spec

-----------------------------------------------------------------------------
\* Rows, coroutines and calls keep their shape.
THEOREM PortraitTypes == Spec => []TypeOK
  BY PortraitInvariant, PTL DEF IInv

\* With row locks, the portrait of a character was made by a task of its own
\* that says it is completed, whenever cancels and restarts came.
THEOREM PortraitIsCompletedTheorem ==
  ASSUME RowLocks
  PROVE  Spec => []PortraitIsCompleted
  <1>1. IInv => PortraitIsCompleted
    BY DEF IInv, Locked
  <1>2. QED
    BY PortraitInvariant, <1>1, PTL

\* A task that is marked for cancellation before it completes never completes,
\* with or without row locks: the update that completes it tests the mark.
THEOREM CancelHoldsTheorem == Spec => CancelHolds
  <1>1. ASSUME IInv, [Next]_vars, NEW t \in Tasks,
               task[t].cancel, task[t].status # "completed"
        PROVE  task'[t].status # "completed"
    <2>0. task \in [Tasks -> Row] /\ call \in [Calls -> Call]
      BY <1>1 DEF IInv, TypeOK
    <2>1. ASSUME NEW u \in Tasks, Run(u) PROVE task'[t].status # "completed"
      BY <1>1, <2>0, <2>1 DEF Run, ReadQueued, Start, Compose, Prompt, Generate, Materialize,
         After, ProviderStops, Raise, Complete, MayComplete, FinishCancelled, Fail, SetStatus
    <2>2. ASSUME NEW u \in Tasks, NEW c \in Characters, Create(u, c)
          PROVE  task'[t].status # "completed"
      BY <1>1, <2>0, <2>2 DEF Create
    <2>3. ASSUME NEW k \in Calls, CancelWrite(k) PROVE task'[t].status # "completed"
      <3>1. call[k].task \in Tasks
        BY <2>0, <2>3 DEF CancelWrite, Call
      <3>2. \/ UNCHANGED task
            \/ /\ \A u \in Tasks : u # call[k].task => task'[u] = task[u]
               /\ task'[call[k].task].status =
                    CancelledStatus(call[k].status, task[call[k].task].status)
        BY <2>0, <2>3, <3>1 DEF CancelWrite
      <3>3. QED
        BY <1>1, <3>1, <3>2 DEF CancelledStatus
    <2>4. CASE Restart
      BY <1>1, <2>0, <2>4 DEF Restart
    <2>5. CASE UNCHANGED task
      BY <1>1, <2>5
    <2>6. QED
      BY <1>1, <2>1, <2>2, <2>3, <2>4, <2>5
      DEF Next, Cancel, CancelRead, CancelTell, CancelInterrupt, vars
  <1>2. ASSUME IInv, [Next]_vars
        PROVE  \A t \in Tasks : task[t].cancel /\ task[t].status # "completed" =>
                 task'[t].status # "completed"
    BY <1>1, <1>2
  <1>3. QED
    BY PortraitInvariant, <1>2, PTL DEF Spec, CancelHolds

\* With row locks, a task that completed or failed is not written again: not
\* by its coroutine, a late cancel or the recovery of the next process.
THEOREM DoneIsDoneTheorem == Spec => DoneIsDone
  <1>1. ASSUME IInv, [Next]_vars, RowLocks, NEW t \in Tasks,
               task[t].status \in {"completed", "failed"}
        PROVE  task'[t] = task[t]
    <2>0. /\ task \in [Tasks -> Row] /\ call \in [Calls -> Call]
          /\ run[t] = "none" /\ \A k \in Calls : CallHolds(k)
      BY <1>1 DEF IInv, TypeOK, Sound, NotAtWork, Locked
    <2>1. ASSUME NEW u \in Tasks, Run(u) PROVE task'[t] = task[t]
      BY <1>1, <2>0, <2>1 DEF Run, ReadQueued, Start, Compose, Prompt, Generate, Materialize,
         After, ProviderStops, Raise, Complete, FinishCancelled, Fail, SetStatus
    <2>2. ASSUME NEW u \in Tasks, NEW c \in Characters, Create(u, c)
          PROVE  task'[t] = task[t]
      BY <1>1, <2>0, <2>2 DEF Create
    <2>3. ASSUME NEW k \in Calls, CancelWrite(k) PROVE task'[t] = task[t]
      <3>1. call[k].step = "write" /\ call[k].status \in Active
        BY <2>0, <2>3 DEF CancelWrite, Call
      <3>2. call[k].task # t
        BY <1>1, <2>0, <3>1 DEF CallHolds, Active
      <3>3. QED
        BY <2>0, <2>3, <3>2 DEF CancelWrite
    <2>4. CASE Restart
      BY <1>1, <2>0, <2>4 DEF Restart, Active
    <2>5. CASE UNCHANGED task
      BY <2>5
    <2>6. QED
      BY <1>1, <2>1, <2>2, <2>3, <2>4, <2>5
      DEF Next, Cancel, CancelRead, CancelTell, CancelInterrupt, vars
  <1>2. ASSUME IInv, [Next]_vars
        PROVE  RowLocks => \A t \in Tasks : task[t].status \in {"completed", "failed"} =>
                 task'[t] = task[t]
    BY <1>1, <1>2
  <1>3. QED
    BY PortraitInvariant, <1>2, PTL DEF Spec, DoneIsDone

\* No older task replaces the portrait of a newer one, with or without row
\* locks: a task that may still complete is its character's newest.
THEOREM NewestPortraitTheorem == Spec => NewestPortrait
  <1>1. ASSUME IInv, [Next]_vars, NEW c \in Characters PROVE portrait'[c] >= portrait[c]
    <2>0. /\ portrait \in [Characters -> {0} \cup Tasks] /\ task \in [Tasks -> Row]
          /\ portrait[c] \in Nat
      BY <1>1, PortraitBoundsAssumption DEF IInv, TypeOK, Tasks
    <2>1. ASSUME NEW t \in Tasks, Complete(t), MayComplete(t) PROVE portrait'[c] >= portrait[c]
      <3>1. \/ portrait'[c] = portrait[c]
            \/ portrait'[c] = t /\ c = task[t].character
        BY <2>0, <2>1 DEF Complete
      <3>2. MayMakeIt(t)
        BY <2>1 DEF MayComplete, MayMakeIt, Active
      <3>3. \A u \in Tasks : t < u => task[u].character # task[t].character
        BY <1>1, <3>2 DEF IInv, Sound, OnlyNewest
      <3>4. portrait[c] # 0 => portrait[c] \in Tasks /\ task[portrait[c]].character = c
        BY <1>1, <2>0 DEF IInv, Sound, PortraitIsOwn
      <3>5. t \in Nat
        BY PortraitBoundsAssumption DEF Tasks
      <3>6. QED
        BY <2>0, <3>1, <3>3, <3>4, <3>5
    <2>2. CASE UNCHANGED portrait
      BY <2>0, <2>2
    <2>3. ASSUME NEW t \in Tasks, Run(t) PROVE portrait'[c] >= portrait[c]
      BY <2>1, <2>2, <2>3 DEF Run, ReadQueued, Start, Compose, Prompt, Generate, Materialize,
         After, ProviderStops, Raise, Complete, FinishCancelled, Fail
    <2>4. QED
      BY <1>1, <2>2, <2>3
      DEF Next, Create, Cancel, CancelRead, CancelWrite, CancelTell, CancelInterrupt, Restart,
          vars
  <1>2. ASSUME IInv, [Next]_vars
        PROVE  \A c \in Characters : portrait'[c] >= portrait[c]
    BY <1>1, <1>2
  <1>3. QED
    BY PortraitInvariant, <1>2, PTL DEF Spec, NewestPortrait

-----------------------------------------------------------------------------
(* The server's side of the spoken narration.                              *)

\* The line is of requests that wait for the semaphore, each once.
LineFits ==
  /\ \A i \in DOMAIN line : asking[line[i]].at = "queued"
  /\ \A i, j \in DOMAIN line : line[i] = line[j] => i = j

\* Calls that are being made, and the requests that make them, go together.
CallsFit ==
  /\ \A r \in Requests : asking[r].at \in Buying =>
       asking[r].key \in DOMAIN inflight /\ inflight[asking[r].key] = r
  /\ \A k \in DOMAIN inflight : asking[inflight[k]].at \in Buying /\ asking[inflight[k]].key = k
  /\ \A r \in Requests : asking[r].at = "waiting" => asking[r].key \in DOMAIN inflight

SpeechInv == SpeechTypeOK /\ LineFits /\ CallsFit

\* A request that makes no call and joins none goes elsewhere.
LEMMA GoesElsewhere ==
  ASSUME SpeechInv, NEW r \in Requests, asking[r].at \notin Buying, NEW entry \in Asking,
         entry.at \notin Buying, entry.at = "waiting" => entry.key \in DOMAIN inflight,
         asking' = [asking EXCEPT ![r] = entry], UNCHANGED <<inflight, line, voice>>
  PROVE  SpeechInv'
<1>. USE DEF SpeechInv
<1>1. SpeechTypeOK'
  BY DEF SpeechTypeOK
<1>2. asking'[r] = entry /\ \A q \in Requests \ {r} : asking'[q] = asking[q]
  BY DEF SpeechTypeOK
<1>3. \A i \in DOMAIN line : line[i] \in Requests /\ line[i] # r
  BY DEF SpeechTypeOK, LineFits, Buying
<1>4. LineFits'
  BY <1>2, <1>3 DEF LineFits
<1>5. \A k \in DOMAIN inflight : inflight[k] \in Requests /\ inflight[k] # r
  BY DEF SpeechTypeOK, CallsFit
<1>6. CallsFit'
  BY <1>2, <1>5 DEF CallsFit
<1>. QED BY <1>1, <1>4, <1>6

\* A request that is admitted, refused or answered keeps the calls in order.
LEMMA AdmitKeeps == ASSUME SpeechInv, NEW r \in Requests, Admit(r) PROVE SpeechInv'
<1>. DEFINE key == asking[r].key
<1>1. asking[r] \in Asking /\ key \in Key /\ asking[r].at = "read"
  BY DEF SpeechInv, SpeechTypeOK, Asking, Admit
<1>. DEFINE Put(at) == asking' = [asking EXCEPT ![r].at = at]
<1>2. UNCHANGED voice /\
      \/ \E at \in {"refused", "answered"} : Put(at) /\ UNCHANGED <<inflight, line>>
      \/ Put("waiting") /\ key \in DOMAIN inflight /\ UNCHANGED <<inflight, line>>
      \/ /\ Put("queued") /\ key \notin DOMAIN inflight
         /\ inflight' = [k \in DOMAIN inflight \cup {key} |-> IF k = key THEN r ELSE inflight[k]]
         /\ line' = Append(line, r)
  BY DEF Admit, IsInflight
<1>3. ASSUME NEW at \in {"refused", "answered", "waiting"}, Put(at), UNCHANGED <<inflight, line>>,
             at = "waiting" => key \in DOMAIN inflight
      PROVE  SpeechInv'
  <2>. DEFINE entry == [asking[r] EXCEPT !.at = at]
  <2>1. entry \in Asking /\ entry.at = at /\ entry.key = key
    BY <1>1 DEF Asking
  <2>2. asking' = [asking EXCEPT ![r] = entry]
    BY <1>3
  <2>3. /\ entry.at \notin Buying /\ asking[r].at \notin Buying
        /\ UNCHANGED <<inflight, line, voice>>
        /\ entry.at = "waiting" => entry.key \in DOMAIN inflight
    BY <1>1, <1>2, <1>3, <2>1 DEF Buying
  <2>. HIDE DEF entry
  <2>. QED BY <2>1, <2>2, <2>3, GoesElsewhere
<1>4. ASSUME Put("queued"), key \notin DOMAIN inflight,
             inflight' = [k \in DOMAIN inflight \cup {key} |-> IF k = key THEN r ELSE inflight[k]],
             line' = Append(line, r)
      PROVE  SpeechInv'
  <2>. USE DEF SpeechInv
  <2>1. [asking[r] EXCEPT !.at = "queued"] \in Asking
    BY <1>1 DEF Asking
  <2>2. asking' \in [Requests -> Asking]
    BY <1>4, <2>1 DEF SpeechTypeOK
  <2>3. /\ asking'[r].at = "queued" /\ asking'[r].key = key
        /\ \A q \in Requests \ {r} : asking'[q] = asking[q]
    BY <1>1, <1>4 DEF SpeechTypeOK, Asking
  <2>4. /\ DOMAIN inflight' = DOMAIN inflight \cup {key} /\ inflight'[key] = r
        /\ \A k \in DOMAIN inflight : inflight'[k] = inflight[k]
    BY <1>4
  <2>5. SpeechTypeOK'
    BY <1>1, <1>2, <1>4, <2>2, <2>4 DEF SpeechTypeOK
  <2>6. \A i \in DOMAIN line : line[i] \in Requests /\ line[i] # r
    BY <1>1 DEF SpeechTypeOK, LineFits
  <2>7. LineFits'
    <3>1. /\ Len(line') = Len(line) + 1 /\ line'[Len(line) + 1] = r
          /\ \A i \in DOMAIN line : line'[i] = line[i]
          /\ DOMAIN line = 1..Len(line) /\ DOMAIN line' = 1..Len(line) + 1 /\ Len(line) \in Nat
      BY <1>4 DEF SpeechTypeOK
    <3>2. \A i \in DOMAIN line' : i \in DOMAIN line \/ i = Len(line) + 1
      BY <3>1
    <3>. QED BY <2>3, <2>6, <3>1, <3>2 DEF LineFits
  <2>8. \A k \in DOMAIN inflight : inflight[k] \in Requests /\ inflight[k] # r
    BY <1>1 DEF SpeechTypeOK, CallsFit, Buying
  <2>9. CallsFit'
    <3>1. \A q \in Requests : asking'[q].at \in Buying =>
            asking'[q].key \in DOMAIN inflight' /\ inflight'[asking'[q].key] = q
      BY <2>3, <2>4 DEF CallsFit
    <3>2. \A k \in DOMAIN inflight' : asking'[inflight'[k]].at \in Buying
                                     /\ asking'[inflight'[k]].key = k
      BY <2>3, <2>4, <2>8 DEF CallsFit, Buying
    <3>3. \A q \in Requests : asking'[q].at = "waiting" => asking'[q].key \in DOMAIN inflight'
      BY <2>3, <2>4 DEF CallsFit
    <3>. QED BY <3>1, <3>2, <3>3 DEF CallsFit
  <2>. QED BY <2>5, <2>7, <2>9
<1>. QED BY <1>2, <1>3, <1>4

LEMMA CallKeeps == ASSUME SpeechInv, NEW r \in Requests, CallProvider(r) PROVE SpeechInv'
<1>. USE DEF SpeechInv
<1>1. /\ line # <<>> /\ Head(line) = r /\ line' = Tail(line) /\ UNCHANGED <<inflight, voice>>
      /\ asking' = [asking EXCEPT ![r].at = "calling"]
  BY DEF CallProvider
<1>2. /\ Len(line) \in Nat \ {0} /\ line[1] = r /\ DOMAIN line = 1..Len(line)
      /\ line' \in Seq(Requests) /\ DOMAIN line' = 1..Len(line) - 1
      /\ \A i \in 1..Len(line) - 1 : line'[i] = line[i + 1]
  BY <1>1 DEF SpeechTypeOK
<1>3. asking[r].at = "queued" /\ asking[r] \in Asking
  BY <1>2 DEF LineFits, SpeechTypeOK
<1>4. [asking[r] EXCEPT !.at = "calling"] \in Asking
  BY <1>3 DEF Asking
<1>5. SpeechTypeOK'
  BY <1>1, <1>2, <1>4 DEF SpeechTypeOK
<1>6. /\ asking'[r].at = "calling" /\ asking'[r].key = asking[r].key
      /\ \A q \in Requests \ {r} : asking'[q] = asking[q]
  BY <1>1, <1>3 DEF SpeechTypeOK, Asking
<1>7. LineFits'
  <2>1. \A i \in DOMAIN line' : i + 1 \in DOMAIN line /\ i + 1 # 1 /\ line'[i] = line[i + 1]
    BY <1>2
  <2>2. \A i \in DOMAIN line' : line'[i] \in Requests \ {r}
    BY <1>2, <2>1 DEF LineFits, SpeechTypeOK
  <2>3. \A i \in DOMAIN line' : asking'[line'[i]].at = "queued"
    BY <1>6, <2>1, <2>2 DEF LineFits
  <2>4. ASSUME NEW i \in DOMAIN line', NEW j \in DOMAIN line', line'[i] = line'[j] PROVE i = j
    <3>1. i + 1 = j + 1
      BY <2>1, <2>4 DEF LineFits
    <3>. QED BY <1>2, <3>1
  <2>. QED BY <2>3, <2>4 DEF LineFits
<1>8. CallsFit'
  <2>1. \A k \in DOMAIN inflight : inflight[k] \in Requests
    BY DEF SpeechTypeOK
  <2>. QED BY <1>1, <1>3, <1>6, <2>1 DEF CallsFit, Buying
<1>. QED BY <1>5, <1>7, <1>8

LEMMA SettleKeeps ==
  ASSUME SpeechInv, NEW r \in Requests, NEW how \in {"answered", "failed"}, Settle(r, how),
         UNCHANGED <<line, voice>>
  PROVE  SpeechInv'
<1>. USE DEF SpeechInv
<1>. DEFINE key == asking[r].key
            Settled(q) == q = r \/ (asking[q].at = "waiting" /\ asking[q].key = key)
<1>1. /\ asking[r].at = "calling"
      /\ \A q \in Requests :
           asking'[q] = IF Settled(q) THEN [asking[q] EXCEPT !.at = how] ELSE asking[q]
      /\ asking' = [q \in Requests |-> asking'[q]]
      /\ inflight' = [k \in DOMAIN inflight \ {key} |-> inflight[k]]
  BY DEF Settle
<1>2. \A q \in Requests : asking[q] \in Asking
  BY DEF SpeechTypeOK
<1>3. ASSUME NEW q \in Requests
      PROVE  /\ asking'[q] \in Asking
             /\ Settled(q) => asking'[q].at = how
             /\ ~Settled(q) => asking'[q] = asking[q]
  <2>1. CASE Settled(q)
    BY <1>1, <1>2, <2>1 DEF Asking
  <2>2. CASE ~Settled(q)
    BY <1>1, <1>2, <2>2
  <2>. QED BY <2>1, <2>2
<1>4. /\ DOMAIN inflight' = DOMAIN inflight \ {key}
      /\ \A k \in DOMAIN inflight' : inflight'[k] = inflight[k]
  BY <1>1
<1>5. SpeechTypeOK'
  BY <1>1, <1>3, <1>4 DEF SpeechTypeOK
<1>6. LineFits'
  <2>1. \A i \in DOMAIN line : line[i] \in Requests /\ ~Settled(line[i])
    BY <1>1 DEF SpeechTypeOK, LineFits
  <2>2. \A i \in DOMAIN line : asking'[line[i]] = asking[line[i]]
    BY <1>3, <2>1
  <2>. QED BY <2>2 DEF LineFits
<1>7. inflight[key] = r /\ key \in DOMAIN inflight
  BY <1>1 DEF CallsFit, Buying
<1>8. \A k \in DOMAIN inflight' : inflight[k] \in Requests /\ inflight[k] # r
  BY <1>4 DEF CallsFit, SpeechTypeOK
<1>9. \A k \in DOMAIN inflight' :
        ~Settled(inflight[k]) /\ asking'[inflight[k]] = asking[inflight[k]]
  <2>1. \A k \in DOMAIN inflight' : ~Settled(inflight[k])
    BY <1>4, <1>8 DEF CallsFit, Buying
  <2>. QED BY <1>3, <1>8, <2>1
<1>10. \A q \in Requests :
         asking'[q].at \in Buying \cup {"waiting"} => ~Settled(q) /\ asking'[q] = asking[q]
  BY <1>3 DEF Buying
<1>11. CallsFit'
  <2>1. \A q \in Requests : asking'[q].at \in Buying =>
          asking'[q].key \in DOMAIN inflight' /\ inflight'[asking'[q].key] = q
    <3>. SUFFICES ASSUME NEW q \in Requests, asking'[q].at \in Buying
                  PROVE  asking'[q].key \in DOMAIN inflight' /\ inflight'[asking'[q].key] = q
      OBVIOUS
    <3>1. asking'[q] = asking[q] /\ q # r
      BY <1>10
    <3>2. asking[q].key \in DOMAIN inflight /\ inflight[asking[q].key] = q
      BY <3>1 DEF CallsFit
    <3>3. asking[q].key # key
      BY <1>7, <3>1, <3>2
    <3>. QED BY <1>4, <3>1, <3>2, <3>3
  <2>2. \A k \in DOMAIN inflight' : asking'[inflight'[k]].at \in Buying
                                   /\ asking'[inflight'[k]].key = k
    BY <1>4, <1>9 DEF CallsFit
  <2>3. \A q \in Requests : asking'[q].at = "waiting" => asking'[q].key \in DOMAIN inflight'
    BY <1>4, <1>10 DEF CallsFit
  <2>. QED BY <2>1, <2>2, <2>3 DEF CallsFit
<1>. QED BY <1>5, <1>6, <1>11

LEMMA SpeechStep == SpeechInv /\ [SpeechNext]_speechVars => SpeechInv'
<1>. SUFFICES ASSUME SpeechInv, [SpeechNext]_speechVars PROVE SpeechInv'
  OBVIOUS
<1>1. ASSUME NEW r \in Requests, NEW s \in Sentences, Ask(r, s) PROVE SpeechInv'
  <2>1. [at |-> "read", key |-> <<s, voice>>] \in Asking
    BY DEF Asking, Key, SpeechInv, SpeechTypeOK
  <2>2. asking[r].at = "unasked"
    BY <1>1 DEF Ask
  <2>. QED BY <1>1, <2>1, <2>2, GoesElsewhere DEF Ask, Buying
<1>2. ASSUME NEW v \in Voices, ChooseVoice(v) PROVE SpeechInv'
  BY <1>2 DEF ChooseVoice, SpeechInv, SpeechTypeOK, LineFits, CallsFit
<1>3. ASSUME NEW r \in Requests, Admit(r) PROVE SpeechInv'
  BY <1>3, AdmitKeeps
<1>4. ASSUME NEW r \in Requests, CallProvider(r) PROVE SpeechInv'
  BY <1>4, CallKeeps
<1>5. ASSUME NEW r \in Requests, Answer(r) \/ FailCall(r) PROVE SpeechInv'
  BY <1>5, SettleKeeps DEF Answer, FailCall
<1>6. CASE ClockTick \/ UNCHANGED speechVars
  BY <1>6 DEF ClockTick, speechVars, SpeechInv, SpeechTypeOK, LineFits, CallsFit
<1>. QED BY <1>1, <1>2, <1>3, <1>4, <1>5, <1>6 DEF SpeechNext

-----------------------------------------------------------------------------
(* The cache of the spoken narration.                                       *)

\* A set of numbers that is not empty has a smallest.
LEMMA SmallestNumber ==
  ASSUME NEW S \in SUBSET Nat, S # {}
  PROVE  \E n \in S : \A m \in S : n <= m
<1>1. PICK R : R = {ss \in Nat \X Nat : ss[1] < ss[2]}
  OBVIOUS
<1>2. IsWellFoundedOn({ss \in Nat \X Nat : ss[1] < ss[2]}, Nat)
  BY NatLessThanWellFounded DEF OpToRel
<1>3. PICK n \in S : \A m \in S : ~(<<m, n>> \in R)
  <2>1. IsWellFoundedOn(R, Nat)
    BY <1>1, <1>2
  <2>. QED BY <2>1, WFMin
<1>4. ASSUME NEW m \in S PROVE n <= m
  <2>1. m \in Nat /\ n \in Nat /\ <<m, n>> \notin R
    BY <1>3
  <2>2. m < n => <<m, n>> \in R
    BY <1>1, <2>1
  <2>. QED BY <2>1, <2>2
<1>. QED BY <1>4

\* What holds at 0 and goes from each number to the next holds up to N.
LEMMA StepByStep ==
  ASSUME NEW N \in Nat, NEW G, 0 \in G, \A m \in 0..N : m < N /\ m \in G => m + 1 \in G
  PROVE  \A n \in 0..N : n \in G
<1>. DEFINE Bad == {n \in 0..N : n \notin G}
<1>1. SUFFICES ASSUME Bad # {} PROVE FALSE
  OBVIOUS
<1>2. PICK n \in Bad : \A m \in Bad : n <= m
  <2>1. Bad \in SUBSET Nat
    OBVIOUS
  <2>. HIDE DEF Bad
  <2>. QED BY <1>1, <2>1, SmallestNumber
<1>3. n \in 0..N /\ n \notin G /\ n # 0
  BY <1>2
<1>4. n - 1 \in 0..N /\ n - 1 < N /\ (n - 1) + 1 = n
  BY <1>3
<1>5. n - 1 \notin G
  BY <1>3, <1>4
<1>6. n - 1 \in Bad /\ ~(n <= n - 1)
  BY <1>4, <1>5
<1>. QED BY <1>2, <1>6

Entries == [key : Sentences \X Voices, expires : Nat]

BytesOf(e) == SizeOf[e.key[1]]

Distinct(entries) == \A i, j \in DOMAIN entries : i # j => entries[i].key # entries[j].key

\* An entry is of some bytes.
LEMMA BytesAreNumbers == \A e \in Entries : BytesOf(e) \in Nat
BY SpeechAssumption DEF Entries, BytesOf

\* The sums of the first entries, up to N.
Summed(s, f, N) == f = [n \in 0..N |-> IF n = 0 THEN 0 ELSE f[n - 1] + SizeOf[s[n].key[1]]]

Sums(s, f) ==
  /\ f \in [0..Len(s) -> Nat] /\ f[0] = 0
  /\ \A n \in 1..Len(s) : f[n] = f[n - 1] + BytesOf(s[n])

\* There are such sums.
LEMMA SummedExists ==
  ASSUME NEW s \in Seq(Entries)
  PROVE  \E f \in [0..Len(s) -> Nat] : Summed(s, f, Len(s))
<1>. DEFINE G == {n \in 0..Len(s) : \E f \in [0..n -> Nat] : Summed(s, f, n)}
<1>1. 0 \in G
  <2>. DEFINE f == [n \in 0..0 |-> 0]
  <2>1. f = [n \in 0..0 |-> IF n = 0 THEN 0 ELSE f[n - 1] + SizeOf[s[n].key[1]]]
    OBVIOUS
  <2>2. f \in [0..0 -> Nat] /\ Summed(s, f, 0)
    BY <2>1 DEF Summed
  <2>. QED BY <2>2
<1>2. ASSUME NEW m \in 0..Len(s), m < Len(s), m \in G PROVE m + 1 \in G
  <2>1. PICK f \in [0..m -> Nat] : Summed(s, f, m)
    BY <1>2
  <2>. DEFINE g == [n \in 0..m + 1 |-> IF n = m + 1 THEN f[m] + BytesOf(s[m + 1]) ELSE f[n]]
  <2>2. BytesOf(s[m + 1]) \in Nat /\ f[m] \in Nat /\ m + 1 \in 0..Len(s)
    BY <1>2, BytesAreNumbers
  <2>3. g \in [0..m + 1 -> Nat]
    BY <2>2
  <2>4. ASSUME NEW n \in 0..m + 1
        PROVE  g[n] = IF n = 0 THEN 0 ELSE g[n - 1] + SizeOf[s[n].key[1]]
    <3>1. CASE n = m + 1
      <4>1. m \in 0..m + 1 /\ m # m + 1 /\ (m + 1) - 1 = m /\ m + 1 # 0
        OBVIOUS
      <4>2. g[m] = f[m] /\ g[m + 1] = f[m] + BytesOf(s[m + 1])
        BY <4>1
      <4>. HIDE DEF g
      <4>. QED BY <3>1, <4>1, <4>2 DEF BytesOf
    <3>2. CASE n # m + 1
      <4>1. n \in 0..m /\ (n # 0 => n - 1 \in 0..m)
        BY <3>2
      <4>2. g[n] = f[n] /\ (n # 0 => g[n - 1] = f[n - 1])
        BY <4>1
      <4>3. f[n] = IF n = 0 THEN 0 ELSE f[n - 1] + SizeOf[s[n].key[1]]
        BY <2>1, <4>1 DEF Summed
      <4>. HIDE DEF g
      <4>. QED BY <4>2, <4>3
    <3>. QED BY <3>1, <3>2
  <2>5. Summed(s, g, m + 1)
    <3>1. DOMAIN g = 0..m + 1
      OBVIOUS
    <3>2. g = [n \in 0..m + 1 |-> g[n]]
      OBVIOUS
    <3>. HIDE DEF g
    <3>. QED BY <2>4, <3>1, <3>2 DEF Summed
  <2>. HIDE DEF g
  <2>. QED BY <2>2, <2>3, <2>5
<1>3. \A n \in 0..Len(s) : n \in G
  <2>. HIDE DEF G
  <2>. QED BY <1>1, <1>2, StepByStep
<1>. QED BY <1>3

\* And the size is the last of them.
LEMMA SizeIs ==
  ASSUME NEW s \in Seq(Entries)
  PROVE  \E f : Sums(s, f) /\ Size(s) = f[Len(s)] /\ Size(s) \in Nat
<1>1. PICK g \in [0..Len(s) -> Nat] : Summed(s, g, Len(s))
  BY SummedExists
<1>. DEFINE f == CHOOSE f : Summed(s, f, Len(s))
<1>0. Len(s) \in Nat
  OBVIOUS
<1>2. Summed(s, f, Len(s))
  BY <1>1
<1>3. Size(s) = f[Len(s)]
  BY DEF Size, Summed
<1>. HIDE DEF f
<1>4. f = g
  <2>. DEFINE G == {n \in 0..Len(s) : f[n] = g[n]}
  <2>1. /\ \A n \in 0..Len(s) : f[n] = IF n = 0 THEN 0 ELSE f[n - 1] + SizeOf[s[n].key[1]]
        /\ \A n \in 0..Len(s) : g[n] = IF n = 0 THEN 0 ELSE g[n - 1] + SizeOf[s[n].key[1]]
    BY <1>1, <1>2 DEF Summed
  <2>2. 0 \in G
    BY <2>1
  <2>3. ASSUME NEW m \in 0..Len(s), m < Len(s), m \in G PROVE m + 1 \in G
    <3>1. m + 1 \in 0..Len(s) /\ m + 1 # 0 /\ (m + 1) - 1 = m
      BY <2>3
    <3>. QED BY <2>1, <2>3, <3>1
  <2>4. \A n \in 0..Len(s) : n \in G
    <3>. HIDE DEF G
    <3>. QED BY <1>0, <2>2, <2>3, StepByStep
  <2>5. DOMAIN f = 0..Len(s) /\ f = [n \in 0..Len(s) |-> f[n]]
    BY <1>2 DEF Summed
  <2>. QED BY <2>4, <2>5
<1>5. Sums(s, g)
  <2>1. ASSUME NEW n \in 1..Len(s) PROVE g[n] = g[n - 1] + BytesOf(s[n])
    <3>1. n \in 0..Len(s) /\ n # 0
      BY <1>0
    <3>. QED BY <1>1, <3>1 DEF Summed, BytesOf
  <2>2. g[0] = 0
    BY <1>1 DEF Summed
  <2>. QED BY <2>1, <2>2 DEF Sums
<1>6. g[Len(s)] \in Nat
  OBVIOUS
<1>. QED BY <1>3, <1>4, <1>5, <1>6

\* The N entries of s behind k are the first N of t; and so grow their sums.
Agree(s, t, k, N) ==
  /\ k \in Nat /\ N \in Nat /\ k + N <= Len(s) /\ N <= Len(t)
  /\ \A i \in 1..N : s[k + i] = t[i]

GrowAlike(f, g, k, N) == f[k + N] = f[k] + g[N]

\* Sums of the same entries grow alike.
LEMMA Along ==
  ASSUME NEW s \in Seq(Entries), NEW f, Sums(s, f), NEW t \in Seq(Entries), NEW g, Sums(t, g),
         NEW k, NEW N, Agree(s, t, k, N)
  PROVE  GrowAlike(f, g, k, N)
<1>. USE DEF Agree
<1>. DEFINE G == {n \in 0..N : f[k + n] = f[k] + g[n]}
<1>0. Len(s) \in Nat /\ Len(t) \in Nat
  OBVIOUS
<1>1. ASSUME NEW n \in 0..N PROVE f[k + n] \in Nat /\ g[n] \in Nat
  <2>1. k + n \in 0..Len(s) /\ n \in 0..Len(t)
    BY <1>0
  <2>. QED BY <2>1 DEF Sums
<1>2. f[k] \in Nat
  BY <1>0 DEF Sums
<1>3. 0 \in G
  BY <1>1, <1>2 DEF Sums
<1>4. ASSUME NEW m \in 0..N, m < N, m \in G PROVE m + 1 \in G
  <2>1. /\ k + (m + 1) \in 1..Len(s) /\ (k + (m + 1)) - 1 = k + m
        /\ m + 1 \in 1..Len(t) /\ (m + 1) - 1 = m /\ m + 1 \in 1..N /\ m + 1 \in 0..N
    BY <1>0, <1>4
  <2>2. s[k + (m + 1)] = t[m + 1]
    BY <2>1
  <2>3. f[k + (m + 1)] = f[k + m] + BytesOf(s[k + (m + 1)])
    BY <2>1 DEF Sums
  <2>4. g[m + 1] = g[m] + BytesOf(t[m + 1])
    BY <2>1 DEF Sums
  <2>5. t[m + 1] \in Entries
    BY <2>1
  <2>6. BytesOf(t[m + 1]) \in Nat
    BY <2>5, BytesAreNumbers
  <2>7. f[k + m] = f[k] + g[m] /\ g[m] \in Nat
    BY <1>1, <1>4
  <2>8. f[k + (m + 1)] = f[k] + g[m + 1]
    <3>. HIDE DEF G
    <3>. QED BY <1>2, <2>2, <2>3, <2>4, <2>6, <2>7
  <2>. QED BY <2>1, <2>8
<1>5. \A n \in 0..N : n \in G
  <2>. HIDE DEF G
  <2>. QED BY <1>3, <1>4, StepByStep
<1>. QED BY <1>5 DEF GrowAlike

\* Nothing is of no size.
LEMMA SizeOfNothing == Size(<<>>) = 0
<1>1. <<>> \in Seq(Entries) /\ Len(<<>>) = 0
  OBVIOUS
<1>2. PICK f : Sums(<<>>, f) /\ Size(<<>>) = f[Len(<<>>)]
  BY <1>1, SizeIs
<1>. QED BY <1>1, <1>2 DEF Sums

\* One entry more.
LEMMA SizeOfMore ==
  ASSUME NEW s \in Seq(Entries), NEW e \in Entries
  PROVE  Size(Append(s, e)) = Size(s) + BytesOf(e)
<1>. DEFINE t == Append(s, e)
<1>1. t \in Seq(Entries) /\ Len(t) = Len(s) + 1 /\ t[Len(s) + 1] = e /\ Len(s) \in Nat
      /\ \A i \in 1..Len(s) : t[i] = s[i]
  OBVIOUS
<1>. HIDE DEF t
<1>2. PICK f : Sums(t, f) /\ Size(t) = f[Len(t)]
  BY <1>1, SizeIs
<1>3. PICK g : Sums(s, g) /\ Size(s) = g[Len(s)]
  BY SizeIs
<1>4. f[Len(s)] = Size(s)
  <2>1. \A i \in 1..Len(s) : t[0 + i] = s[i]
    BY <1>1
  <2>2. f[0 + Len(s)] = f[0] + g[Len(s)]
    <3>1. Agree(t, s, 0, Len(s))
      BY <1>1, <2>1 DEF Agree
    <3>2. GrowAlike(f, g, 0, Len(s))
      BY <1>1, <1>2, <1>3, <3>1, Along
    <3>. QED BY <3>2 DEF GrowAlike
  <2>3. g[Len(s)] \in Nat
    BY <1>1, <1>3 DEF Sums
  <2>. QED BY <1>1, <1>2, <1>3, <2>2, <2>3 DEF Sums
<1>5. f[Len(s) + 1] = f[(Len(s) + 1) - 1] + BytesOf(t[Len(s) + 1])
  BY <1>1, <1>2 DEF Sums
<1>6. (Len(s) + 1) - 1 = Len(s)
  BY <1>1
<1>. QED BY <1>1, <1>2, <1>4, <1>5, <1>6 DEF t

\* One sequence after another.
LEMMA SizeOfBoth ==
  ASSUME NEW s \in Seq(Entries), NEW t \in Seq(Entries)
  PROVE  Size(s \o t) = Size(s) + Size(t)
<1>. DEFINE u == s \o t
<1>1. /\ u \in Seq(Entries) /\ Len(s) \in Nat /\ Len(t) \in Nat /\ Len(u) = Len(s) + Len(t)
      /\ \A i \in 1..Len(s) : u[i] = s[i]
      /\ \A i \in 1..Len(t) : u[Len(s) + i] = t[i]
  OBVIOUS
<1>. HIDE DEF u
<1>2. PICK f : Sums(u, f) /\ Size(u) = f[Len(u)]
  BY <1>1, SizeIs
<1>3. PICK g : Sums(s, g) /\ Size(s) = g[Len(s)] /\ Size(s) \in Nat
  BY SizeIs
<1>4. PICK h : Sums(t, h) /\ Size(t) = h[Len(t)]
  BY SizeIs
<1>5. f[Len(s)] = Size(s)
  <2>1. \A i \in 1..Len(s) : u[0 + i] = s[i]
    BY <1>1
  <2>2. f[0 + Len(s)] = f[0] + g[Len(s)]
    <3>1. Agree(u, s, 0, Len(s))
      BY <1>1, <2>1 DEF Agree
    <3>2. GrowAlike(f, g, 0, Len(s))
      BY <1>1, <1>2, <1>3, <3>1, Along
    <3>. QED BY <3>2 DEF GrowAlike
  <2>. QED BY <1>1, <1>2, <1>3, <2>2 DEF Sums
<1>6. f[Len(s) + Len(t)] = f[Len(s)] + h[Len(t)]
  <2>1. Agree(u, t, Len(s), Len(t))
    BY <1>1 DEF Agree
  <2>2. GrowAlike(f, h, Len(s), Len(t))
    BY <1>1, <1>2, <1>4, <2>1, Along
  <2>. QED BY <2>2 DEF GrowAlike
<1>. QED BY <1>1, <1>2, <1>4, <1>5, <1>6 DEF u

\* The size of a part that goes up to the end or begins at the start.
LEMMA SizeOfParts ==
  ASSUME NEW s \in Seq(Entries), NEW at \in 1..Len(s)
  PROVE  /\ SubSeq(s, 1, at - 1) \in Seq(Entries) /\ SubSeq(s, at + 1, Len(s)) \in Seq(Entries)
         /\ Len(SubSeq(s, 1, at - 1)) = at - 1 /\ Len(SubSeq(s, at + 1, Len(s))) = Len(s) - at
         /\ \A i \in 1..at - 1 : SubSeq(s, 1, at - 1)[i] = s[i]
         /\ \A i \in 1..Len(s) - at : SubSeq(s, at + 1, Len(s))[i] = s[at + i]
         /\ Size(s) = Size(SubSeq(s, 1, at - 1)) + BytesOf(s[at]) + Size(SubSeq(s, at + 1, Len(s)))
<1>. DEFINE a == SubSeq(s, 1, at - 1)
            b == SubSeq(s, at + 1, Len(s))
<1>1. /\ Len(s) \in Nat /\ at \in Nat /\ at - 1 \in Nat /\ Len(s) - at \in Nat
      /\ a \in Seq(Entries) /\ Len(a) = at - 1 /\ \A i \in 1..at - 1 : a[i] = s[i]
  OBVIOUS
<1>2. /\ b \in Seq(Entries) /\ Len(b) = Len(s) - at
      /\ \A i \in 1..Len(s) - at : b[i] = s[at + i]
  OBVIOUS
<1>3. PICK f : Sums(s, f) /\ Size(s) = f[Len(s)]
  BY SizeIs
<1>4. PICK g : Sums(a, g) /\ Size(a) = g[Len(a)] /\ Size(a) \in Nat
  BY <1>1, SizeIs
<1>5. PICK h : Sums(b, h) /\ Size(b) = h[Len(b)]
  BY <1>2, SizeIs
<1>. HIDE DEF a, b
<1>6. f[at - 1] = Size(a)
  <2>1. \A i \in 1..at - 1 : s[0 + i] = a[i]
    BY <1>1
  <2>2. f[0 + (at - 1)] = f[0] + g[at - 1]
    <3>1. Agree(s, a, 0, at - 1)
      BY <1>1, <2>1 DEF Agree
    <3>2. GrowAlike(f, g, 0, at - 1)
      BY <1>1, <1>3, <1>4, <3>1, Along
    <3>. QED BY <3>2 DEF GrowAlike
  <2>. QED BY <1>1, <1>3, <1>4, <2>2 DEF Sums
<1>7. f[at] = f[at - 1] + BytesOf(s[at])
  BY <1>1, <1>3 DEF Sums
<1>8. f[at + (Len(s) - at)] = f[at] + h[Len(s) - at]
  <2>1. Agree(s, b, at, Len(s) - at)
    BY <1>1, <1>2 DEF Agree
  <2>2. GrowAlike(f, h, at, Len(s) - at)
    BY <1>1, <1>2, <1>3, <1>5, <2>1, Along
  <2>. QED BY <2>2 DEF GrowAlike
<1>9. at + (Len(s) - at) = Len(s)
  BY <1>1
<1>. QED BY <1>1, <1>2, <1>3, <1>5, <1>6, <1>7, <1>8, <1>9 DEF a, b

\* Taking an entry out leaves the others, each once, and takes its bytes.
LEMMA WithoutIs ==
  ASSUME NEW s \in Seq(Entries), Distinct(s), NEW key
  PROVE  /\ Without(s, key) \in Seq(Entries) /\ Distinct(Without(s, key))
         /\ Held(Without(s, key), key) = {}
         /\ Held(s, key) = {} => Without(s, key) = s
         /\ Held(s, key) # {} => /\ PlaceOf(s, key) \in 1..Len(s) /\ s[PlaceOf(s, key)].key = key
                                 /\ Size(s) = Size(Without(s, key)) + BytesOf(s[PlaceOf(s, key)])
<1>1. CASE Held(s, key) = {}
  BY <1>1 DEF Without
<1>2. CASE Held(s, key) # {}
  <2>1. PlaceOf(s, key) \in Held(s, key)
    BY <1>2 DEF PlaceOf
  <2>2. PICK at : at = PlaceOf(s, key)
    OBVIOUS
  <2>3. at \in 1..Len(s) /\ s[at].key = key /\ Len(s) \in Nat
    BY <2>1, <2>2 DEF Held
  <2>4. PICK a, b : a = SubSeq(s, 1, at - 1) /\ b = SubSeq(s, at + 1, Len(s))
    OBVIOUS
  <2>5. /\ a \in Seq(Entries) /\ b \in Seq(Entries) /\ Len(a) = at - 1 /\ Len(b) = Len(s) - at
        /\ \A i \in 1..at - 1 : a[i] = s[i]
        /\ \A i \in 1..Len(s) - at : b[i] = s[at + i]
        /\ Size(s) = Size(a) + BytesOf(s[at]) + Size(b)
    BY <2>3, <2>4, SizeOfParts
  <2>6. PICK u : u = a \o b
    OBVIOUS
  <2>7. /\ u \in Seq(Entries) /\ Len(u) = Len(s) - 1 /\ DOMAIN u = 1..Len(s) - 1
        /\ \A i \in 1..at - 1 : u[i] = a[i]
        /\ \A i \in at..Len(s) - 1 : u[i] = b[i - (at - 1)]
    <3>0. a \in Seq(Entries) /\ b \in Seq(Entries)
      BY <2>5
    <3>1. /\ u \in Seq(Entries) /\ Len(u) = Len(a) + Len(b)
          /\ \A i \in 1..Len(a) : u[i] = a[i]
          /\ \A i \in 1..Len(a) + Len(b) : i > Len(a) => u[i] = b[i - Len(a)]
      BY ONLY <2>6, <3>0
    <3>2. DOMAIN u = 1..Len(u)
      BY <3>1
    <3>3. Len(a) + Len(b) = Len(s) - 1 /\ Len(a) = at - 1
      BY <2>3, <2>5
    <3>4. ASSUME NEW i \in at..Len(s) - 1 PROVE u[i] = b[i - (at - 1)]
      <4>1. i \in 1..Len(a) + Len(b) /\ i > Len(a)
        BY <2>3, <3>3
      <4>. QED BY <3>1, <3>3, <4>1
    <3>. QED BY <3>1, <3>2, <3>3, <3>4
  <2>8. ASSUME NEW i \in DOMAIN u
        PROVE  \E p \in DOMAIN s \ {at} : u[i] = s[p] /\ p = IF i < at THEN i ELSE i + 1
    <3>1. CASE i < at
      BY <2>3, <2>5, <2>7, <3>1
    <3>2. CASE ~(i < at)
      <4>1. i \in at..Len(s) - 1 /\ i - (at - 1) \in 1..Len(s) - at /\ at + (i - (at - 1)) = i + 1
            /\ i + 1 \in 1..Len(s) /\ i + 1 # at
        BY <2>3, <2>7, <3>2
      <4>2. u[i] = s[i + 1]
        BY <2>5, <2>7, <4>1
      <4>. QED BY <3>2, <4>1, <4>2
    <3>. QED BY <3>1, <3>2
  <2>9. Distinct(u)
    <3>. SUFFICES ASSUME NEW i \in DOMAIN u, NEW j \in DOMAIN u, i # j PROVE u[i].key # u[j].key
      BY DEF Distinct
    <3>1. PICK p \in DOMAIN s \ {at} : u[i] = s[p] /\ p = IF i < at THEN i ELSE i + 1
      BY <2>8
    <3>2. PICK q \in DOMAIN s \ {at} : u[j] = s[q] /\ q = IF j < at THEN j ELSE j + 1
      BY <2>8
    <3>3. i \in Nat /\ j \in Nat /\ at \in Nat
      BY <2>3, <2>7
    <3>4. p # q
      BY <3>1, <3>2, <3>3
    <3>. QED BY <3>1, <3>2, <3>4 DEF Distinct
  <2>10. Held(u, key) = {}
    <3>1. at \in DOMAIN s
      BY <2>3
    <3>2. \A i \in DOMAIN u : u[i].key # s[at].key
      BY <2>8, <3>1 DEF Distinct
    <3>. QED BY <2>3, <3>2 DEF Held
  <2>11. Size(a) \in Nat /\ Size(b) \in Nat /\ BytesOf(s[at]) \in Nat
    BY <2>3, <2>5, SizeIs, BytesAreNumbers
  <2>12. Size(u) = Size(a) + Size(b)
    BY <2>5, <2>6, SizeOfBoth
  <2>13. Without(s, key) = u
    BY <1>2, <2>2, <2>4, <2>6 DEF Without
  <2>. QED BY <1>2, <2>2, <2>3, <2>5, <2>7, <2>9, <2>10, <2>11, <2>12, <2>13, SMTT(20)
<1>. QED BY <1>1, <1>2

\* An entry whose key nobody has is distinct from the others.
LEMMA StaysDistinct ==
  ASSUME NEW s \in Seq(Entries), Distinct(s), NEW e \in Entries, Held(s, e.key) = {}
  PROVE  Append(s, e) \in Seq(Entries) /\ Distinct(Append(s, e))
<1>. DEFINE u == Append(s, e)
<1>1. /\ u \in Seq(Entries) /\ Len(s) \in Nat /\ DOMAIN u = 1..Len(s) + 1 /\ u[Len(s) + 1] = e
      /\ \A i \in 1..Len(s) : u[i] = s[i] /\ i \in DOMAIN s
  OBVIOUS
<1>2. \A i \in 1..Len(s) : s[i].key # e.key
  BY <1>1 DEF Held
<1>. HIDE DEF u
<1>3. \A i \in DOMAIN u : i = Len(s) + 1 \/ i \in 1..Len(s)
  BY <1>1
<1>4. Distinct(u)
  BY <1>1, <1>2, <1>3 DEF Distinct
<1>. QED BY <1>1, <1>4 DEF u

\* What is moved stays what it was.
LEMMA MovedIs ==
  ASSUME NEW s \in Seq(Entries), Distinct(s), NEW key
  PROVE  /\ MovedToEnd(s, key) \in Seq(Entries) /\ Distinct(MovedToEnd(s, key))
         /\ Size(MovedToEnd(s, key)) = Size(s)
<1>1. CASE Held(s, key) = {}
  BY <1>1 DEF MovedToEnd
<1>2. CASE Held(s, key) # {}
  <2>1. PICK u, e : u = Without(s, key) /\ e = s[PlaceOf(s, key)]
    OBVIOUS
  <2>2. u \in Seq(Entries) /\ Distinct(u) /\ Held(u, key) = {}
    BY <2>1, WithoutIs
  <2>3. e \in Entries /\ e.key = key /\ Size(s) = Size(u) + BytesOf(e)
    BY <1>2, <2>1, WithoutIs
  <2>4. Append(u, e) \in Seq(Entries) /\ Distinct(Append(u, e)) /\ Size(Append(u, e)) = Size(s)
    BY <2>2, <2>3, StaysDistinct, SizeOfMore
  <2>. QED BY <1>2, <2>1, <2>4 DEF MovedToEnd
<1>. QED BY <1>1, <1>2

\* What is left of the first entries when those that expired are evicted, up to N.
KeptUpTo(f, N) ==
  f = [n \in 0..N |->
         IF n = 0 THEN <<>>
         ELSE IF audio[n].expires > clock THEN Append(f[n - 1], audio[n]) ELSE f[n - 1]]

\* There are such remains.
LEMMA KeptExists == audio \in Seq(Entries) => \E f : KeptUpTo(f, Len(audio))
<1>. SUFFICES ASSUME audio \in Seq(Entries) PROVE \E f : KeptUpTo(f, Len(audio))
  OBVIOUS
<1>. DEFINE G == {n \in 0..Len(audio) : \E f : KeptUpTo(f, n)}
<1>0. Len(audio) \in Nat
  OBVIOUS
<1>1. 0 \in G
  <2>. DEFINE f == [n \in 0..0 |-> <<>>]
  <2>1. KeptUpTo(f, 0)
    BY DEF KeptUpTo
  <2>. QED BY <1>0, <2>1
<1>2. ASSUME NEW m \in 0..Len(audio), m < Len(audio), m \in G PROVE m + 1 \in G
  <2>1. PICK f : KeptUpTo(f, m)
    BY <1>2
  <2>2. PICK last : last = IF audio[m + 1].expires > clock THEN Append(f[m], audio[m + 1])
                           ELSE f[m]
    OBVIOUS
  <2>3. PICK g : g = [n \in 0..m + 1 |-> IF n = m + 1 THEN last ELSE f[n]]
    OBVIOUS
  <2>4. ASSUME NEW n \in 0..m + 1
        PROVE  g[n] = IF n = 0 THEN <<>>
                      ELSE IF audio[n].expires > clock THEN Append(g[n - 1], audio[n])
                           ELSE g[n - 1]
    <3>1. CASE n = m + 1
      <4>1. m \in 0..m + 1 /\ m # m + 1 /\ n - 1 = m /\ n # 0
        BY <3>1
      <4>2. g[n - 1] = f[m] /\ g[n] = last
        BY <2>3, <3>1, <4>1
      <4>. QED BY <2>2, <3>1, <4>1, <4>2
    <3>2. CASE n # m + 1
      <4>1. n \in 0..m /\ (n # 0 => n - 1 \in 0..m /\ n - 1 \in 0..m + 1 /\ n - 1 # m + 1)
        BY <3>2
      <4>2. g[n] = f[n] /\ (n # 0 => g[n - 1] = f[n - 1])
        BY <2>3, <3>2, <4>1
      <4>3. f[n] = IF n = 0 THEN <<>>
                   ELSE IF audio[n].expires > clock THEN Append(f[n - 1], audio[n])
                        ELSE f[n - 1]
        BY <2>1, <4>1 DEF KeptUpTo
      <4>. QED BY <4>2, <4>3
    <3>. QED BY <3>1, <3>2
  <2>5. DOMAIN g = 0..m + 1 /\ g = [n \in 0..m + 1 |-> g[n]]
    BY <2>3
  <2>6. KeptUpTo(g, m + 1)
    BY <2>4, <2>5 DEF KeptUpTo
  <2>. QED BY <1>2, <2>6
<1>3. \A n \in 0..Len(audio) : n \in G
  <2>. HIDE DEF G
  <2>. QED BY <1>0, <1>1, <1>2, StepByStep
<1>. QED BY <1>0, <1>3

\* What has not expired are entries of the cache, each once, of no more bytes.
KeptFits(s, n, most) ==
  /\ s \in Seq(Entries) /\ Distinct(s) /\ Size(s) <= most
  /\ \A i \in DOMAIN s : \E j \in 1..n : s[i] = audio[j]

LEMMA FreshIs ==
  ASSUME audio \in Seq(Entries), Distinct(audio)
  PROVE  Fresh \in Seq(Entries) /\ Distinct(Fresh) /\ Size(Fresh) <= Size(audio)
<1>. DEFINE f == CHOOSE f : KeptUpTo(f, Len(audio))
<1>0. Len(audio) \in Nat /\ DOMAIN audio = 1..Len(audio)
  OBVIOUS
<1>1. KeptUpTo(f, Len(audio))
  BY KeptExists
<1>2. Fresh = f[Len(audio)]
  BY DEF Fresh, KeptUpTo
<1>. HIDE DEF f
<1>3. PICK h : Sums(audio, h) /\ Size(audio) = h[Len(audio)]
  BY SizeIs
<1>. DEFINE G == {n \in 0..Len(audio) : KeptFits(f[n], n, h[n])}
<1>4. 0 \in G
  <2>1. f[0] = <<>> /\ h[0] = 0
    BY <1>0, <1>1, <1>3 DEF KeptUpTo, Sums
  <2>2. <<>> \in Seq(Entries) /\ DOMAIN <<>> = {}
    OBVIOUS
  <2>3. KeptFits(<<>>, 0, 0)
    BY <2>2, SizeOfNothing DEF KeptFits, Distinct
  <2>. QED BY <1>0, <2>1, <2>3
<1>5. ASSUME NEW m \in 0..Len(audio), m < Len(audio), m \in G PROVE m + 1 \in G
  <2>1. m + 1 \in 1..Len(audio) /\ m + 1 \in 0..Len(audio) /\ m + 1 # 0 /\ (m + 1) - 1 = m /\ m \in Nat
    BY <1>0, <1>5
  <2>2. PICK s, e : s = f[m] /\ e = audio[m + 1]
    OBVIOUS
  <2>3. KeptFits(s, m, h[m]) /\ e \in Entries /\ BytesOf(e) \in Nat
    BY <1>5, <2>1, <2>2, BytesAreNumbers
  <2>4. h[m + 1] = h[m] + BytesOf(e) /\ h[m] \in Nat
    BY <1>3, <1>5, <2>1, <2>2 DEF Sums
  <2>5. f[m + 1] = IF e.expires > clock THEN Append(s, e) ELSE s
    BY <1>1, <2>1, <2>2 DEF KeptUpTo
  <2>6. Size(s) \in Nat
    BY <2>3, SizeIs DEF KeptFits
  <2>7. KeptFits(s, m + 1, h[m + 1])
    <3>1. \A j \in 1..m : j \in 1..m + 1
      BY <2>1
    <3>2. Size(s) <= h[m + 1]
      BY <2>3, <2>4, <2>6 DEF KeptFits
    <3>. QED BY <2>3, <3>1, <3>2 DEF KeptFits
  <2>8. KeptFits(Append(s, e), m + 1, h[m + 1])
    <3>1. Held(s, e.key) = {}
      <4>1. ASSUME NEW i \in DOMAIN s PROVE s[i].key # e.key
        <5>1. PICK j \in 1..m : s[i] = audio[j]
          BY <2>3 DEF KeptFits
        <5>2. j \in DOMAIN audio /\ m + 1 \in DOMAIN audio /\ j # m + 1
          BY <1>0, <2>1
        <5>. QED BY <2>2, <5>1, <5>2 DEF Distinct
      <4>. QED BY <4>1 DEF Held
    <3>2. Append(s, e) \in Seq(Entries) /\ Distinct(Append(s, e))
      BY <2>3, <3>1, StaysDistinct DEF KeptFits
    <3>3. Size(Append(s, e)) <= h[m + 1]
      <4>1. Size(Append(s, e)) = Size(s) + BytesOf(e)
        BY <2>3, SizeOfMore DEF KeptFits
      <4>. QED BY <2>3, <2>4, <2>6, <4>1 DEF KeptFits
    <3>4. ASSUME NEW i \in DOMAIN Append(s, e) PROVE \E j \in 1..m + 1 : Append(s, e)[i] = audio[j]
      <4>1. s \in Seq(Entries)
        BY <2>3 DEF KeptFits
      <4>2. (i \in DOMAIN s /\ Append(s, e)[i] = s[i]) \/ Append(s, e)[i] = e
        BY <4>1
      <4>3. \A k \in DOMAIN s : \E j \in 1..m : s[k] = audio[j]
        BY <2>3 DEF KeptFits
      <4>4. \A j \in 1..m : j \in 1..m + 1
        BY <2>1
      <4>5. m + 1 \in 1..m + 1
        BY <2>1
      <4>. QED BY <2>2, <4>2, <4>3, <4>4, <4>5
    <3>. QED BY <3>2, <3>3, <3>4 DEF KeptFits
  <2>. QED BY <2>1, <2>5, <2>7, <2>8
<1>6. \A n \in 0..Len(audio) : n \in G
  <2>. HIDE DEF G
  <2>. QED BY <1>0, <1>4, <1>5, StepByStep
<1>7. KeptFits(f[Len(audio)], Len(audio), h[Len(audio)])
  BY <1>0, <1>6
<1>. QED BY <1>2, <1>3, <1>7 DEF KeptFits

\* What is stored fits into the cache.
LEMMA StoredIs ==
  ASSUME audio \in Seq(Entries), Distinct(audio), Size(audio) <= CacheBytes, clock \in Nat,
         NEW key \in Sentences \X Voices
  PROVE  Stored(key) \in Seq(Entries) /\ Distinct(Stored(key)) /\ Size(Stored(key)) <= CacheBytes
<1>1. CASE 0 \in {CacheTtl, CacheBytes} \/ SizeOf[key[1]] > CacheBytes
  BY <1>1 DEF Stored
<1>2. CASE ~(0 \in {CacheTtl, CacheBytes} \/ SizeOf[key[1]] > CacheBytes)
  <2>1. PICK e : e = [key |-> key, expires |-> clock + CacheTtl]
    OBVIOUS
  <2>2. e \in Entries /\ e.key = key
    BY <2>1, SpeechAssumption DEF Entries
  <2>3. PICK all : all = Append(Without(audio, key), e)
    OBVIOUS
  <2>4. all \in Seq(Entries) /\ Distinct(all)
    BY <2>2, <2>3, WithoutIs, StaysDistinct
  <2>5. PICK n : n = Len(all)
    OBVIOUS
  <2>6. n \in Nat /\ DOMAIN all = 1..n
    BY <2>4, <2>5
  <2>. DEFINE Fits(i) == Size(SubSeq(all, i, n)) <= CacheBytes
              Some == {i \in 1..n + 1 : Fits(i)}
  <2>7. n + 1 \in Some
    <3>1. SubSeq(all, n + 1, n) = <<>>
      BY <2>4, <2>5, <2>6
    <3>2. Size(SubSeq(all, n + 1, n)) = 0
      BY <3>1, SizeOfNothing
    <3>. QED BY <2>6, <3>2, SpeechAssumption
  <2>8. PICK i \in Some : \A j \in Some : i <= j
    <3>1. Some \in SUBSET Nat /\ Some # {}
      BY <2>6, <2>7
    <3>. HIDE DEF Some
    <3>. QED BY <3>1, SmallestNumber
  <2>9. ASSUME NEW j \in 1..i - 1 PROVE Size(SubSeq(all, j, n)) > CacheBytes
    <3>1. i \in 1..n + 1 /\ j \in 1..n + 1 /\ ~(i <= j)
      BY <2>6, <2>8
    <3>2. ~Fits(j)
      BY <2>8, <3>1
    <3>3. SubSeq(all, j, n) \in Seq(Entries)
      BY <2>4, <2>5, <2>6, <3>1
    <3>4. Size(SubSeq(all, j, n)) \in Nat
      BY <3>3, SizeIs
    <3>. QED BY <3>2, <3>4, SpeechAssumption
  <2>10. FirstToStay(all) \in 1..n + 1 /\ Fits(FirstToStay(all))
    <3>1. \E k \in 1..Len(all) + 1 : /\ Size(SubSeq(all, k, Len(all))) <= CacheBytes
                                    /\ \A j \in 1..k - 1 : Size(SubSeq(all, j, Len(all))) > CacheBytes
      BY <2>5, <2>8, <2>9
    <3>. QED BY <2>5, <3>1 DEF FirstToStay
  <2>11. PICK at : at = FirstToStay(all)
    OBVIOUS
  <2>12. PICK u : u = SubSeq(all, at, n)
    OBVIOUS
  <2>13. /\ u \in Seq(Entries) /\ DOMAIN u = 1..(n + 1) - at
         /\ \A k \in 1..(n + 1) - at : u[k] = all[at + k - 1]
    BY <2>4, <2>5, <2>6, <2>10, <2>11, <2>12, SMTT(20)
  <2>14. Distinct(u)
    <3>. SUFFICES ASSUME NEW k \in DOMAIN u, NEW j \in DOMAIN u, k # j PROVE u[k].key # u[j].key
      BY DEF Distinct
    <3>0. n \in Nat /\ at \in 1..n + 1 /\ k \in 1..(n + 1) - at /\ j \in 1..(n + 1) - at
      BY <2>6, <2>10, <2>11, <2>13
    <3>1. /\ at + k - 1 \in DOMAIN all /\ at + j - 1 \in DOMAIN all /\ at + k - 1 # at + j - 1
          /\ u[k] = all[at + k - 1] /\ u[j] = all[at + j - 1]
      BY <2>6, <2>13, <3>0
    <3>. QED BY <2>4, <3>1 DEF Distinct
  <2>15. Stored(key) = u
    BY <1>2, <2>1, <2>3, <2>5, <2>11, <2>12 DEF Stored
  <2>. QED BY <2>10, <2>11, <2>12, <2>13, <2>14, <2>15
<1>. QED BY <1>1, <1>2

\* The cache counts what it holds, holds each sentence once and no more than it may; and
\* who asked, asked for a sentence in a voice.
CacheInv ==
  /\ clock \in Nat /\ audio \in Seq(Entries) /\ Distinct(audio)
  /\ bytes = Size(audio) /\ bytes <= CacheBytes
  /\ \A r \in Requests : asking[r].at # "unasked" => asking[r].key \in Sentences \X Voices

\* Requests keep the key they were read with.
LEMMA KeysStay ==
  ASSUME SpeechTypeOK, CacheInv, NEW r \in Requests, asking[r].at # "unasked",
         NEW at, asking' = [asking EXCEPT ![r].at = at]
  PROVE  \A q \in Requests : asking'[q].at # "unasked" => asking'[q].key \in Sentences \X Voices
<1>1. asking[r] \in Asking
  BY DEF SpeechTypeOK
<1>2. asking'[r].key = asking[r].key /\ \A q \in Requests \ {r} : asking'[q] = asking[q]
  BY <1>1 DEF SpeechTypeOK, Asking
<1>. QED BY <1>2 DEF CacheInv

\* Evicting and moving an entry keep the account.
LEMMA AdmitKeepsCache ==
  ASSUME SpeechTypeOK, CacheInv, NEW r \in Requests, Admit(r)
  PROVE  CacheInv'
<1>1. asking[r].at = "read" /\ clock' = clock
  BY DEF Admit
<1>2. \E at : asking' = [asking EXCEPT ![r].at = at]
  BY DEF Admit
<1>3. \A q \in Requests : asking'[q].at # "unasked" => asking'[q].key \in Sentences \X Voices
  BY <1>1, <1>2, KeysStay
<1>4. \/ UNCHANGED <<audio, bytes>>
      \/ /\ audio' = MovedToEnd(Fresh, asking[r].key)
         /\ bytes' = bytes - (Size(audio) - Size(Fresh))
  BY DEF Admit
<1>5. CASE UNCHANGED <<audio, bytes>>
  BY <1>1, <1>3, <1>5 DEF CacheInv, Distinct, Size
<1>6. CASE /\ audio' = MovedToEnd(Fresh, asking[r].key)
           /\ bytes' = bytes - (Size(audio) - Size(Fresh))
  <2>1. PICK s : s = Fresh
    OBVIOUS
  <2>2. s \in Seq(Entries) /\ Distinct(s) /\ Size(s) <= Size(audio)
    BY <2>1, FreshIs DEF CacheInv
  <2>3. audio' \in Seq(Entries) /\ Distinct(audio') /\ Size(audio') = Size(s)
    BY <1>6, <2>1, <2>2, MovedIs
  <2>4. Size(s) \in Nat /\ Size(audio) \in Nat
    BY <2>2, SizeIs DEF CacheInv
  <2>5. bytes' = Size(audio') /\ bytes' <= CacheBytes
    BY <1>6, <2>1, <2>2, <2>3, <2>4, SpeechAssumption DEF CacheInv
  <2>. QED BY <1>1, <1>3, <2>3, <2>5 DEF CacheInv, Distinct
<1>. QED BY <1>4, <1>5, <1>6

\* And so does every step.
LEMMA CacheStep == SpeechInv /\ CacheInv /\ [SpeechNext]_speechVars => CacheInv'
<1>. SUFFICES ASSUME SpeechInv, CacheInv, [SpeechNext]_speechVars PROVE CacheInv'
  OBVIOUS
<1>0. SpeechTypeOK
  BY DEF SpeechInv
<1>1. ASSUME NEW r \in Requests, NEW s \in Sentences, Ask(r, s) PROVE CacheInv'
  <2>1. \A q \in Requests : asking'[q] = asking[q] \/ asking'[q].key = <<s, voice>>
    BY <1>0, <1>1 DEF Ask, SpeechTypeOK
  <2>2. <<s, voice>> \in Sentences \X Voices
    BY <1>0 DEF SpeechTypeOK
  <2>3. UNCHANGED <<audio, bytes, clock>>
    BY <1>1 DEF Ask
  <2>. QED BY <2>1, <2>2, <2>3 DEF CacheInv, Distinct, Size
<1>2. ASSUME NEW v \in Voices, ChooseVoice(v) PROVE CacheInv'
  BY <1>2 DEF ChooseVoice, CacheInv, Distinct, Size
<1>3. ASSUME NEW r \in Requests, Admit(r) PROVE CacheInv'
  BY <1>0, <1>3, AdmitKeepsCache
<1>4. ASSUME NEW r \in Requests, CallProvider(r) PROVE CacheInv'
  <2>1. UNCHANGED <<audio, bytes, clock>> /\ asking' = [asking EXCEPT ![r].at = "calling"]
    BY <1>4 DEF CallProvider
  <2>2. asking[r].at = "queued"
    <3>1. Len(line) \in Nat \ {0} /\ DOMAIN line = 1..Len(line) /\ line[1] = r
      BY <1>0, <1>4 DEF CallProvider, SpeechTypeOK
    <3>2. 1 \in DOMAIN line
      BY <3>1
    <3>. QED BY <3>1, <3>2 DEF SpeechInv, LineFits
  <2>3. \A q \in Requests : asking'[q].at # "unasked" => asking'[q].key \in Sentences \X Voices
    BY <1>0, <2>1, <2>2, KeysStay
  <2>. QED BY <2>1, <2>3 DEF CacheInv, Distinct, Size
<1>5. ASSUME NEW r \in Requests, NEW how, Settle(r, how)
      PROVE  /\ asking[r].key \in Sentences \X Voices
             /\ \A q \in Requests : asking'[q].at # "unasked" =>
                  asking'[q].key \in Sentences \X Voices
  <2>1. asking[r].at = "calling" /\ asking[r].key \in Sentences \X Voices
    BY <1>5 DEF Settle, CacheInv
  <2>2. ASSUME NEW q \in Requests
        PROVE  /\ asking'[q].key = asking[q].key
               /\ asking'[q] # asking[q] => asking[q].at \in {"calling", "waiting"}
    <3>1. asking[q] \in Asking
      BY <1>0 DEF SpeechTypeOK
    <3>2. asking'[q] = IF q = r \/ (asking[q].at = "waiting" /\ asking[q].key = asking[r].key)
                       THEN [asking[q] EXCEPT !.at = how] ELSE asking[q]
      BY <1>5 DEF Settle
    <3>. QED BY <2>1, <3>1, <3>2 DEF Asking
  <2>. QED BY <2>1, <2>2 DEF CacheInv
<1>6. ASSUME NEW r \in Requests, Answer(r) PROVE CacheInv'
  <2>1. PICK key : key = asking[r].key
    OBVIOUS
  <2>2. /\ audio' = Stored(key) /\ bytes' = bytes - Size(audio) + Size(audio')
        /\ clock' = clock /\ Settle(r, "answered")
    BY <1>6, <2>1 DEF Answer
  <2>3. key \in Sentences \X Voices
    BY <1>5, <2>1, <2>2
  <2>4. audio' \in Seq(Entries) /\ Distinct(audio') /\ Size(audio') <= CacheBytes
    BY <2>2, <2>3, StoredIs DEF CacheInv
  <2>5. Size(audio) \in Nat /\ Size(audio') \in Nat
    BY <2>4, SizeIs DEF CacheInv
  <2>6. bytes' = Size(audio') /\ bytes' <= CacheBytes
    BY <2>2, <2>4, <2>5 DEF CacheInv
  <2>. QED BY <1>5, <2>2, <2>4, <2>6 DEF CacheInv, Distinct
<1>7. ASSUME NEW r \in Requests, FailCall(r) PROVE CacheInv'
  <2>1. UNCHANGED <<audio, bytes, clock>> /\ Settle(r, "failed")
    BY <1>7 DEF FailCall
  <2>. QED BY <1>5, <2>1 DEF CacheInv, Distinct, Size
<1>8. CASE ClockTick \/ UNCHANGED speechVars
  <2>1. UNCHANGED <<asking, audio, bytes>> /\ clock' \in {clock, clock + 1}
    BY <1>8 DEF ClockTick, speechVars
  <2>2. Size(audio)' = Size(audio)
    BY <2>1 DEF Size
  <2>. QED BY <2>1, <2>2 DEF CacheInv, Distinct
<1>. QED BY <1>1, <1>2, <1>3, <1>4, <1>6, <1>7, <1>8 DEF SpeechNext

\* For any requests, sentences, voices, limits and sizes, however calls, a change of the
\* voice and expiry interleave: no sentence is bought twice at once, who waits waits for a
\* call that is being made, and the cache counts the bytes it holds, holds no sentence
\* twice in one voice and never more than it may.
THEOREM BoughtOnceTheorem == SpeechSpec => []BoughtOnce
<1>1. ASSUME SpeechInit PROVE SpeechInv /\ CacheInv
  <2>1. Unasked \in Asking /\ Unasked.at = "unasked"
    BY DEF Unasked, Asking, Key
  <2>2. asking \in [Requests -> Asking] /\ \A r \in Requests : asking[r].at = "unasked"
    BY <1>1, <2>1 DEF SpeechInit
  <2>3. DOMAIN inflight = {} /\ inflight \in [DOMAIN inflight -> Requests]
    BY <1>1 DEF SpeechInit
  <2>4. line \in Seq(Requests) /\ DOMAIN line = {}
    BY <1>1 DEF SpeechInit
  <2>5. SpeechInv
    BY <1>1, <2>2, <2>3, <2>4
       DEF SpeechInit, SpeechInv, SpeechTypeOK, LineFits, CallsFit, Buying
  <2>6. /\ audio = <<>> /\ audio \in Seq(Entries) /\ DOMAIN audio = {} /\ bytes = 0
        /\ clock = 0 /\ Size(audio) = 0
    BY <1>1, SizeOfNothing DEF SpeechInit
  <2>7. CacheInv
    BY <2>2, <2>6, SpeechAssumption DEF CacheInv, Distinct
  <2>. QED BY <2>5, <2>7
<1>2. SpeechInv => CallsAreShared
  BY DEF SpeechInv, CallsFit, CallsAreShared
<1>3. SpeechInv /\ CacheInv => BoughtOnce
  BY <1>2 DEF CacheInv, Distinct, BoughtOnce
<1>. QED BY <1>1, <1>3, SpeechStep, CacheStep, PTL DEF SpeechSpec

-----------------------------------------------------------------------------
(* The player on the page.                                                 *)

\* Only the current coroutine and stopped ones are there.
NotYet == \A g \in Generations : g > generation => reader[g].at = "gone"

\* Who waits for the element to begin is who took it last.
Buffers ==
  \A g \in Generations : reader[g].at = "buffering" => sound = "loading" /\ source[1] = g

\* While listeners are woken by a sentence that ended, nobody else listens, and only a
\* stopped coroutine, woken before them, may have taken the element again.
Woken ==
  \A g \in Generations : reader[g].at = "woken" =>
    \A h \in Generations : /\ reader[h].at # "playing"
                           /\ reader[h].at = "buffering" => h < g

\* The current coroutine listens only to what is heard.
Listens == reader[generation].at = "playing" => sound \in {"playing", "paused"}

Silent == NotYet /\ Buffers /\ Woken /\ Listens /\ StaleIsSilent

PlayerInv == PlayerTypeOK /\ Silent
LEMMA GoneIs == Gone \in Coroutine /\ Gone.at = "gone"
BY DEF Gone, Coroutine

LEMMA ReadingIs ==
  ASSUME NEW m \in Messages PROVE Reading(m) \in Coroutine /\ Reading(m).at = "manifest"
BY DEF Reading, Coroutine

LEMMA RejectedIs ==
  ASSUME NEW r \in Coroutine
  PROVE  /\ Rejected(r) \in Coroutine /\ Rejected(r).at \in {"gone", "draining"}
         /\ r.next = "fetching" => Rejected(r).at = "draining"
         /\ r.next # "fetching" => Rejected(r).at = "gone"
<1>1. CASE r.next = "fetching"
  <2>1. Rejected(r) = [r EXCEPT !.at = "draining"]
    BY <1>1 DEF Rejected
  <2>. QED BY <1>1, <2>1 DEF Coroutine
<1>2. CASE r.next # "fetching"
  BY <1>2, GoneIs DEF Rejected
<1>. QED BY <1>1, <1>2

LEMMA StoppedIs ==
  ASSUME NEW r \in Coroutine
  PROVE  /\ Stopped(r) \in Coroutine
         /\ r.at = "buffering" => Stopped(r).at \in {"gone", "draining"}
         /\ r.at # "buffering" => Stopped(r) = r
BY RejectedIs DEF Stopped

LEMMA Readers ==
  ASSUME PlayerTypeOK, NEW g \in Generations
  PROVE  /\ reader[g] \in Coroutine
         /\ Rejected(reader[g]) \in Coroutine /\ Stopped(reader[g]) \in Coroutine
<1>1. reader[g] \in Coroutine
  BY DEF PlayerTypeOK
<1>. QED BY <1>1, RejectedIs, StoppedIs

LEMMA NothingWaits == <<>> \in Seq(Messages)
OBVIOUS

LEMMA TakesTheHead == ASSUME NEW waits \in Seq(Messages), waits # <<>>
  PROVE Head(waits) \in Messages /\ Tail(waits) \in Seq(Messages)
OBVIOUS

\* The types of what the steps have in common.
Processed ==
  /\ queue' \in Seq(Messages) /\ processing' \in BOOLEAN
  /\ reader' \in [Generations -> Coroutine]
  /\ status' \in {"idle", "synthesizing", "buffering", "playing", "paused", "failed"}
  /\ shown' \in Messages \cup {NoMessage}

LEMMA ProcessTypes ==
  ASSUME PlayerTypeOK, NEW waits \in Seq(Messages), NEW set, Process(waits, set)
  PROVE  Processed
<1>1. CASE processing \/ waits = <<>> \/ set # "on"
  BY <1>1 DEF Process, Processed, PlayerTypeOK
<1>2. CASE ~(processing \/ waits = <<>> \/ set # "on")
  <2>1. Head(waits) \in Messages /\ Tail(waits) \in Seq(Messages)
    BY <1>2, TakesTheHead
  <2>2. Reading(Head(waits)) \in Coroutine
    BY <2>1, ReadingIs
  <2>. QED BY <1>2, <2>1, <2>2 DEF Process, Processed, PlayerTypeOK
<1>. QED BY <1>1, <1>2

LEMMA NextMessageTypes ==
  ASSUME PlayerTypeOK, NEW g \in Generations, NextMessage(g)
  PROVE  Processed
<1>1. CASE IsCurrent(g) /\ queue # <<>>
  <2>1. Head(queue) \in Messages /\ Tail(queue) \in Seq(Messages)
    BY <1>1, TakesTheHead DEF PlayerTypeOK
  <2>2. Reading(Head(queue)) \in Coroutine
    BY <2>1, ReadingIs
  <2>. QED BY <1>1, <2>1, <2>2 DEF NextMessage, Processed, PlayerTypeOK
<1>2. CASE ~(IsCurrent(g) /\ queue # <<>>)
  <2>1. processing' \in BOOLEAN
    BY <1>2 DEF NextMessage
  <2>. QED BY <1>2, <2>1, GoneIs DEF NextMessage, Processed, PlayerTypeOK
<1>. QED BY <1>1, <1>2

LEMMA GiveUpTypes ==
  ASSUME PlayerTypeOK, NEW g \in Generations, GiveUp(g),
         reader' \in [Generations -> Coroutine]
  PROVE  Processed
<1>1. processing' \in BOOLEAN
  BY DEF GiveUp, NoLongerProcessing
<1>2. queue' \in Seq(Messages)
  <2>1. queue' = queue \/ queue' = <<>>
    BY DEF GiveUp
  <2>. QED BY <2>1, NothingWaits DEF PlayerTypeOK
<1>3. status' = status \/ status' = "failed"
  BY DEF GiveUp
<1>4. shown' = shown \/ shown' = NoMessage
  BY DEF GiveUp
<1>. QED BY <1>1, <1>2, <1>3, <1>4 DEF Processed, PlayerTypeOK

LEMMA FailReadingTypes ==
  ASSUME PlayerTypeOK, NEW g \in Generations, FailReading(g)
  PROVE  Processed
<1>1. reader' \in [Generations -> Coroutine]
  BY GoneIs DEF FailReading, PlayerTypeOK
<1>. QED BY <1>1, GiveUpTypes DEF FailReading

LEMMA PlayTypes ==
  ASSUME PlayerTypeOK, NEW g \in Generations, NEW r \in Coroutine, Play(g, r)
  PROVE  Processed /\ source' \in ObjectUrl /\ sound' = "loading"
<1>. DEFINE ahead == IF r.index < LengthOf[r.message] THEN "fetching" ELSE "none"
            own == [r EXCEPT !.at = "buffering", !.next = ahead]
<1>1. own \in Coroutine
  BY DEF Coroutine
<1>2. reader' = [h \in Generations |-> IF h = g THEN own ELSE Stopped(reader[h])]
  BY DEF Play
<1>3. \A h \in Generations : Stopped(reader[h]) \in Coroutine
  BY Readers
<1>. HIDE DEF own
<1>4. reader' \in [Generations -> Coroutine]
  BY <1>1, <1>2, <1>3
<1>5. source' \in ObjectUrl
  BY DEF Play, Url, ObjectUrl, Coroutine
<1>. QED BY <1>4, <1>5 DEF Play, Processed, PlayerTypeOK

\* And with the rest of the state.
LEMMA Retyped ==
  ASSUME PlayerTypeOK, Processed, generation' \in Generations, seen' \subseteq Messages,
         enabled' \in BOOLEAN, settings' \in {"unknown", "on", "off"}, source' \in ObjectUrl,
         urls' \subseteq ObjectUrl, sound' \in {"none", "loading", "playing", "paused", "ended"}
  PROVE  PlayerTypeOK'
BY DEF PlayerTypeOK, Processed

LEMMA PlayerTypesStep == PlayerTypeOK /\ [PlayerNext]_playerVars => PlayerTypeOK'
<1>. SUFFICES ASSUME PlayerTypeOK, [PlayerNext]_playerVars PROVE PlayerTypeOK'
  OBVIOUS
<1>. USE PlayerAssumption
<1>1. ASSUME NEW m \in Messages, Enqueue(m) PROVE PlayerTypeOK'
  <2>1. Append(queue, m) \in Seq(Messages)
    BY DEF PlayerTypeOK
  <2>2. Processed
    BY <1>1, <2>1, ProcessTypes DEF Enqueue, Processed, PlayerTypeOK
  <2>. QED BY <1>1, <2>2, Retyped DEF Enqueue, PlayerTypeOK
<1>2. ASSUME NEW m \in Messages, MarkSeen(m) PROVE PlayerTypeOK'
  BY <1>2 DEF MarkSeen, PlayerTypeOK
<1>3. ASSUME NEW m \in Messages, Replay(m) PROVE PlayerTypeOK'
  <2>1. Append(queue, m) \in Seq(Messages)
    BY DEF PlayerTypeOK
  <2>2. Processed
    BY <1>3, <2>1, ProcessTypes DEF Replay
  <2>. QED BY <1>3, <2>2, Retyped DEF Replay, PlayerTypeOK
<1>4. ASSUME NEW answer \in {"on", "off"}, SettingsArrive(answer) PROVE PlayerTypeOK'
  <2>1. Processed
    BY <1>4, ProcessTypes DEF SettingsArrive, PlayerTypeOK
  <2>. QED BY <1>4, <2>1, Retyped DEF SettingsArrive, PlayerTypeOK
<1>5. ASSUME NEW on \in BOOLEAN, Stop(on) PROVE PlayerTypeOK'
  <2>1. \A g \in Generations : Stopped(reader[g]) \in Coroutine
    BY Readers
  <2>2. reader' \in [Generations -> Coroutine]
    BY <1>5, <2>1 DEF Stop
  <2>3. generation' \in Generations /\ NoUrl \in ObjectUrl
    BY <1>5 DEF Stop, PlayerTypeOK, Generations, NoUrl, ObjectUrl
  <2>4. /\ queue' = <<>> /\ processing' = FALSE /\ status' = "idle"
        /\ shown' = NoMessage /\ urls' = {} /\ source' = NoUrl /\ sound' = "none"
        /\ enabled' = on /\ UNCHANGED <<seen, settings>>
    BY <1>5 DEF Stop
  <2>. QED BY <2>2, <2>3, <2>4, NothingWaits DEF PlayerTypeOK
<1>6. CASE SwitchOn
  BY <1>6 DEF SwitchOn, PlayerTypeOK
<1>7. CASE Pause
  BY <1>7 DEF Pause, PlayerTypeOK
<1>8. CASE Resume
  BY <1>8 DEF Resume, PlayerTypeOK
<1>9. CASE Begins
  <2>1. reader' \in [Generations -> Coroutine]
    <3>1. \A g \in Generations : [reader[g] EXCEPT !.at = "playing"] \in Coroutine
      BY Readers DEF Coroutine
    <3>. QED BY <1>9, <3>1, Readers DEF Begins
  <2>. QED BY <1>9, <2>1 DEF Begins, PlayerTypeOK
<1>10. CASE Ends
  <2>1. reader' \in [Generations -> Coroutine]
    <3>1. \A g \in Generations : [reader[g] EXCEPT !.at = "woken"] \in Coroutine
      BY Readers DEF Coroutine
    <3>. QED BY <1>10, <3>1, Readers DEF Ends
  <2>. QED BY <1>10, <2>1 DEF Ends, PlayerTypeOK
<1>11. ASSUME NEW g \in Generations, Manifest(g) PROVE PlayerTypeOK'
  <2>1. reader[g] \in Coroutine
    BY Readers
  <2>2. ASSUME reader' = [reader EXCEPT ![g].at = "sentence", ![g].index = 1,
                                        ![g].next = "fetching"]
        PROVE  reader' \in [Generations -> Coroutine]
    <3>1. [reader[g] EXCEPT !.at = "sentence", !.index = 1, !.next = "fetching"] \in Coroutine
      BY <2>1 DEF Coroutine
    <3>. QED BY <2>2, <3>1 DEF PlayerTypeOK
  <2>3. Processed
    BY <1>11, <2>2, FailReadingTypes, NextMessageTypes DEF Manifest, Processed, PlayerTypeOK
  <2>. QED BY <1>11, <2>3, Retyped DEF Manifest, PlayerTypeOK
<1>12. ASSUME NEW g \in Generations, Fetched(g) PROVE PlayerTypeOK'
  <2>1. reader[g] \in Coroutine
    BY Readers
  <2>2. ASSUME NEW next \in {"ready", "broken"}, reader' = [reader EXCEPT ![g].next = next]
        PROVE  reader' \in [Generations -> Coroutine]
    <3>1. [reader[g] EXCEPT !.next = next] \in Coroutine
      BY <2>1 DEF Coroutine
    <3>. QED BY <2>2, <3>1 DEF PlayerTypeOK
  <2>. DEFINE Same == UNCHANGED <<queue, processing, status, shown>>
  <2>3. /\ \/ Play(g, reader[g])
           \/ FailReading(g) /\ UNCHANGED <<source, sound>>
           \/ /\ \E next \in {"ready", "broken"} : reader' = [reader EXCEPT ![g].next = next]
              /\ Same /\ UNCHANGED <<source, sound>>
        /\ UNCHANGED <<generation, seen, enabled, settings>>
    BY <1>12 DEF Fetched
  <2>4. /\ Processed /\ source' \in ObjectUrl
        /\ sound' \in {"none", "loading", "playing", "paused", "ended"}
    <3>1. CASE Play(g, reader[g])
      BY <2>1, <3>1, PlayTypes
    <3>2. CASE FailReading(g) /\ UNCHANGED <<source, sound>>
      BY <3>2, FailReadingTypes DEF PlayerTypeOK
    <3>3. CASE /\ \E next \in {"ready", "broken"} : reader' = [reader EXCEPT ![g].next = next]
               /\ Same /\ UNCHANGED <<source, sound>>
      BY <2>2, <3>3 DEF PlayerTypeOK, Processed
    <3>. QED BY <2>3, <3>1, <3>2, <3>3
  <2>5. urls' \subseteq ObjectUrl
    <3>1. \A index \in Nat : Url(g, reader[g], index) \in ObjectUrl
      BY <2>1 DEF Url, ObjectUrl, Coroutine
    <3>2. reader[g].index \in Nat /\ reader[g].index + 1 \in Nat
      BY <2>1 DEF Coroutine
    <3>. QED BY <1>12, <3>1, <3>2 DEF Fetched, PlayerTypeOK
  <2>. QED BY <2>3, <2>4, <2>5, Retyped DEF PlayerTypeOK
<1>13. ASSUME NEW g \in Generations, GoesOn(g) PROVE PlayerTypeOK'
  <2>. DEFINE r == [reader[g] EXCEPT !.index = @ + 1]
  <2>1. r \in Coroutine /\ [r EXCEPT !.at = "sentence"] \in Coroutine
    <3>1. reader[g] \in Coroutine /\ reader[g].index + 1 \in Nat
      BY Readers DEF Coroutine
    <3>2. r \in Coroutine
      BY <3>1 DEF Coroutine
    <3>. QED BY <3>2 DEF Coroutine
  <2>2. /\ \/ NextMessage(g) /\ UNCHANGED <<source, sound>>
           \/ Play(g, r)
           \/ /\ reader' = [reader EXCEPT ![g] = [r EXCEPT !.at = "sentence"]]
              /\ UNCHANGED <<queue, processing, status, shown, source, sound>>
           \/ FailReading(g) /\ UNCHANGED <<source, sound>>
        /\ urls' \subseteq urls /\ UNCHANGED <<generation, seen, enabled, settings>>
    BY <1>13 DEF GoesOn
  <2>. HIDE DEF r
  <2>3. /\ Processed /\ source' \in ObjectUrl
        /\ sound' \in {"none", "loading", "playing", "paused", "ended"}
    <3>1. CASE NextMessage(g) /\ UNCHANGED <<source, sound>>
      BY <3>1, NextMessageTypes DEF PlayerTypeOK
    <3>2. CASE Play(g, r)
      BY <2>1, <3>2, PlayTypes
    <3>3. CASE /\ reader' = [reader EXCEPT ![g] = [r EXCEPT !.at = "sentence"]]
               /\ UNCHANGED <<queue, processing, status, shown, source, sound>>
      BY <2>1, <3>3 DEF PlayerTypeOK, Processed
    <3>4. CASE FailReading(g) /\ UNCHANGED <<source, sound>>
      BY <3>4, FailReadingTypes DEF PlayerTypeOK
    <3>. QED BY <2>2, <3>1, <3>2, <3>3, <3>4
  <2>. QED BY <2>2, <2>3, Retyped DEF PlayerTypeOK
<1>14. ASSUME NEW g \in Generations, PlayFails(g) PROVE PlayerTypeOK'
  <2>1. \A h \in Generations : reader[h] \in Coroutine /\ Rejected(reader[h]) \in Coroutine
    BY Readers
  <2>2. reader' \in [Generations -> Coroutine]
    BY <1>14, <2>1 DEF PlayFails
  <2>3. Processed
    BY <1>14, <2>2, GiveUpTypes DEF PlayFails, Processed, PlayerTypeOK
  <2>. QED BY <1>14, <2>3, Retyped DEF PlayFails, PlayerTypeOK
<1>15. CASE UNCHANGED playerVars
  BY <1>15 DEF playerVars, PlayerTypeOK
<1>. QED
  BY <1>1, <1>2, <1>3, <1>4, <1>5, <1>6, <1>7, <1>8, <1>9, <1>10, <1>11, <1>12, <1>13,
     <1>14, <1>15 DEF PlayerNext
-----------------------------------------------------------------------------
\* A step of one coroutine that leaves the element alone, and the coroutine anywhere but
\* at the element.
LEMMA OneMoves ==
  ASSUME PlayerInv, NEW g \in Generations, g <= generation,
         \A h \in Generations \ {g} : reader'[h] = reader[h],
         reader'[g].at \notin {"buffering", "playing", "woken"},
         processing' <=> reader'[generation].at # "gone",
         \A u \in urls' : u[1] = generation,
         UNCHANGED <<generation, source, sound>>
  PROVE  Silent'
<1>. USE DEF PlayerInv, Silent
<1>1. \A h \in Generations : h > generation => h # g
  BY DEF PlayerTypeOK, Generations
<1>2. NotYet'
  BY <1>1 DEF NotYet
<1>3. Buffers'
  BY DEF Buffers
<1>4. Woken'
  BY DEF Woken
<1>5. Listens'
  BY DEF Listens, PlayerTypeOK
<1>6. StaleIsSilent'
  BY DEF StaleIsSilent
<1>. QED BY <1>2, <1>3, <1>4, <1>5, <1>6

\* What NextMessage and FailReading do to the coroutine and the flag.
LEMMA NextMessageMoves ==
  ASSUME PlayerInv, NEW g \in Generations, reader[g].at # "gone", NextMessage(g)
  PROVE  /\ \A h \in Generations \ {g} : reader'[h] = reader[h]
         /\ reader'[g].at \in {"gone", "manifest"}
         /\ processing' <=> reader'[generation].at # "gone"
<1>1. processing <=> reader[generation].at # "gone"
  BY DEF PlayerInv, Silent, StaleIsSilent
<1>2. CASE IsCurrent(g) /\ queue # <<>>
  <2>1. Head(queue) \in Messages
    BY <1>2, TakesTheHead DEF PlayerInv, PlayerTypeOK
  <2>2. Reading(Head(queue)).at = "manifest"
    BY <2>1, ReadingIs
  <2>. QED BY <1>1, <1>2, <2>2 DEF NextMessage, PlayerInv, PlayerTypeOK, IsCurrent
<1>3. CASE ~(IsCurrent(g) /\ queue # <<>>)
  <2>1. reader' = [reader EXCEPT ![g] = Gone] /\ (processing' <=> processing /\ g # generation)
    BY <1>3 DEF NextMessage, IsCurrent
  <2>. QED BY <1>1, <2>1, GoneIs DEF PlayerInv, PlayerTypeOK
<1>. QED BY <1>2, <1>3

LEMMA FailReadingMoves ==
  ASSUME PlayerInv, NEW g \in Generations, FailReading(g)
  PROVE  /\ \A h \in Generations \ {g} : reader'[h] = reader[h]
         /\ reader'[g].at = "gone"
         /\ processing' <=> reader'[generation].at # "gone"
<1>1. processing <=> reader[generation].at # "gone"
  BY DEF PlayerInv, Silent, StaleIsSilent
<1>2. reader' = [reader EXCEPT ![g] = Gone] /\ (processing' <=> processing /\ g # generation)
  BY DEF FailReading, GiveUp, NoLongerProcessing, IsCurrent
<1>. QED BY <1>1, <1>2, GoneIs DEF PlayerInv, PlayerTypeOK

\* processQueue begins a coroutine of the current generation, or keeps what waits.
LEMMA ProcessIsSilent ==
  ASSUME PlayerInv, NEW waits \in Seq(Messages), NEW set, Process(waits, set),
         UNCHANGED <<generation, source, sound, urls>>
  PROVE  Silent'
<1>1. processing <=> reader[generation].at # "gone"
  BY DEF PlayerInv, Silent, StaleIsSilent
<1>2. CASE processing \/ waits = <<>> \/ set # "on"
  <2>1. UNCHANGED <<processing, reader>>
    BY <1>2 DEF Process
  <2>. QED BY <2>1 DEF PlayerInv, Silent, NotYet, Buffers, Woken, Listens, StaleIsSilent
<1>3. CASE ~(processing \/ waits = <<>> \/ set # "on")
  <2>1. Reading(Head(waits)).at = "manifest"
    BY <1>3, TakesTheHead, ReadingIs
  <2>2. /\ processing' = TRUE
        /\ reader' = [reader EXCEPT ![generation] = Reading(Head(waits))]
    BY <1>3 DEF Process
  <2>3. /\ generation \in Generations /\ generation <= generation
        /\ reader'[generation].at = "manifest"
        /\ \A h \in Generations \ {generation} : reader'[h] = reader[h]
    BY <2>1, <2>2 DEF PlayerInv, PlayerTypeOK, Generations
  <2>4. \A u \in urls' : u[1] = generation
    BY DEF PlayerInv, Silent, StaleIsSilent
  <2>. QED BY <2>2, <2>3, <2>4, OneMoves
<1>. QED BY <1>2, <1>3

\* The element is taken: by the current coroutine, or by a stopped one that was woken
\* before all others.
LEMMA PlayIsSilent ==
  ASSUME PlayerInv, NEW g \in Generations, NEW r \in Coroutine, Play(g, r),
         reader[g].at # "gone",
         \/ Quiet /\ g = generation
         \/ reader[g].at = "woken" /\ \A h \in Generations : h < g => reader[h].at # "woken",
         \A u \in urls' : u[1] = generation, UNCHANGED generation
  PROVE  Silent'
<1>. USE DEF PlayerInv, Silent
<1>1. /\ sound' = "loading" /\ source'[1] = g /\ UNCHANGED processing
      /\ reader'[g].at = "buffering"
  BY DEF Play, Url, Coroutine
<1>2. \A h \in Generations \ {g} :
        /\ reader[h].at = "buffering" => reader'[h].at \in {"gone", "draining"}
        /\ reader[h].at # "buffering" => reader'[h] = reader[h]
  <2>1. \A h \in Generations \ {g} : reader'[h] = Stopped(reader[h])
    BY DEF Play
  <2>. QED BY <2>1, StoppedIs, Readers
<1>3. g <= generation
  BY DEF NotYet, PlayerTypeOK, Generations
<1>4. NotYet'
  <2>1. \A h \in Generations : h > generation => h # g
    BY <1>3 DEF PlayerTypeOK, Generations
  <2>. QED BY <1>2, <2>1 DEF NotYet
<1>5. Buffers'
  BY <1>1, <1>2 DEF Buffers
<1>6. Woken'
  <2>. SUFFICES ASSUME NEW w \in Generations, reader'[w].at = "woken", NEW h \in Generations
                PROVE  reader'[h].at # "playing" /\ (reader'[h].at = "buffering" => h < w)
    BY DEF Woken
  <2>1. w # g /\ reader[w].at = "woken"
    BY <1>1, <1>2
  <2>2. g < w
    BY <2>1 DEF Quiet, Generations
  <2>3. reader[h].at # "playing"
    BY <2>1 DEF Woken
  <2>. QED BY <1>1, <1>2, <2>2, <2>3
<1>7. Listens' /\ StaleIsSilent'
  <2>1. generation \in Generations
    BY DEF PlayerTypeOK
  <2>2. CASE g = generation
    BY <1>1, <2>2 DEF Listens, StaleIsSilent
  <2>3. CASE g # generation
    <3>1. reader[g].at = "woken"
      BY <2>3
    <3>2. /\ reader[generation].at # "playing"
          /\ reader[generation].at = "buffering" => generation < g
      BY <2>1, <3>1 DEF Woken
    <3>3. reader[generation].at # "buffering"
      BY <1>3, <3>2 DEF Generations, PlayerTypeOK
    <3>4. reader'[generation] = reader[generation]
      BY <1>2, <2>1, <2>3, <3>3
    <3>. QED BY <1>1, <3>2, <3>4 DEF Listens, StaleIsSilent
  <2>. QED BY <2>2, <2>3
<1>. QED BY <1>4, <1>5, <1>6, <1>7

LEMMA SilentStep == PlayerInv /\ [PlayerNext]_playerVars => Silent'
<1>. SUFFICES ASSUME PlayerInv, [PlayerNext]_playerVars PROVE Silent'
  OBVIOUS
<1>. USE DEF PlayerInv, Silent
<1>0. ASSUME UNCHANGED <<generation, processing, reader, source, sound, urls>> PROVE Silent'
  BY <1>0 DEF NotYet, Buffers, Woken, Listens, StaleIsSilent
<1>a. /\ generation \in Generations
      /\ \A h \in Generations : reader[h].at # "gone" => h <= generation
      /\ \A u \in urls : u[1] = generation
      /\ processing <=> reader[generation].at # "gone"
  BY DEF NotYet, StaleIsSilent, PlayerTypeOK, Generations
<1>1. ASSUME NEW m \in Messages, Enqueue(m) PROVE Silent'
  <2>1. Append(queue, m) \in Seq(Messages)
    BY DEF PlayerTypeOK
  <2>. QED BY <1>0, <1>1, <2>1, ProcessIsSilent DEF Enqueue
<1>2. ASSUME NEW m \in Messages, MarkSeen(m) PROVE Silent'
  BY <1>0, <1>2 DEF MarkSeen
<1>3. ASSUME NEW m \in Messages, Replay(m) PROVE Silent'
  <2>1. Append(queue, m) \in Seq(Messages)
    BY DEF PlayerTypeOK
  <2>. QED BY <1>3, <2>1, ProcessIsSilent DEF Replay
<1>4. ASSUME NEW answer \in {"on", "off"}, SettingsArrive(answer) PROVE Silent'
  BY <1>4, ProcessIsSilent DEF SettingsArrive, PlayerTypeOK
<1>5. ASSUME NEW on \in BOOLEAN, Stop(on) PROVE Silent'
  <2>1. /\ generation' = generation + 1 /\ urls' = {} /\ processing' = FALSE /\ sound' = "none"
        /\ generation + 1 \in Generations /\ Quiet
    BY <1>5, PlayerAssumption DEF Stop, PlayerTypeOK, Generations
  <2>2. \A h \in Generations :
          /\ reader[h].at = "buffering" => reader'[h].at \in {"gone", "draining"}
          /\ reader[h].at # "buffering" => reader'[h] = reader[h]
    BY <1>5, StoppedIs, Readers DEF Stop
  <2>3. \A h \in Generations : h > generation => reader'[h].at = "gone"
    BY <2>2 DEF NotYet
  <2>4. \A h \in Generations : h > generation + 1 => h > generation
    BY DEF Generations, PlayerTypeOK
  <2>5. reader'[generation'].at = "gone"
    BY <2>1, <2>3 DEF Generations, PlayerTypeOK
  <2>6. \A h \in Generations : reader'[h].at \notin {"buffering", "woken"}
    BY <2>1, <2>2 DEF Quiet
  <2>. QED BY <2>1, <2>3, <2>4, <2>5, <2>6 DEF NotYet, Buffers, Woken, Listens, StaleIsSilent
<1>6. CASE SwitchOn
  BY <1>0, <1>6 DEF SwitchOn
<1>7. CASE Pause
  BY <1>7 DEF Pause, NotYet, Buffers, Woken, Listens, StaleIsSilent
<1>8. CASE Resume
  BY <1>8 DEF Resume, NotYet, Buffers, Woken, Listens, StaleIsSilent
<1>9. CASE Begins
  <2>1. /\ Quiet /\ sound' = "playing" /\ source \in urls
        /\ UNCHANGED <<generation, processing, source, urls>>
    BY <1>9 DEF Begins
  <2>2. \A h \in Generations :
          /\ reader[h].at = "buffering" => reader'[h].at = "playing"
          /\ reader[h].at # "buffering" => reader'[h] = reader[h]
    BY <1>9, Readers DEF Begins, Coroutine
  <2>3. \A h \in Generations : reader'[h].at \notin {"buffering", "woken"}
    BY <2>1, <2>2 DEF Quiet
  <2>4. source[1] = generation
    BY <2>1 DEF StaleIsSilent
  <2>. QED BY <1>a, <2>1, <2>2, <2>3, <2>4 DEF NotYet, Buffers, Woken, Listens, StaleIsSilent
<1>10. CASE Ends
  <2>1. /\ Quiet /\ sound = "playing" /\ sound' = "ended"
        /\ UNCHANGED <<generation, processing, source, urls>>
    BY <1>10 DEF Ends
  <2>2. \A h \in Generations :
          /\ reader[h].at = "playing" => reader'[h].at = "woken"
          /\ reader[h].at # "playing" => reader'[h] = reader[h]
    BY <1>10, Readers DEF Ends, Coroutine
  <2>3. \A h \in Generations : reader'[h].at \notin {"buffering", "playing"}
    BY <2>1, <2>2 DEF Buffers
  <2>. QED BY <1>a, <2>1, <2>2, <2>3 DEF NotYet, Buffers, Woken, Listens, StaleIsSilent
<1>11. ASSUME NEW g \in Generations, Manifest(g) PROVE Silent'
  <2>1. /\ reader[g].at = "manifest" /\ g <= generation
        /\ UNCHANGED <<generation, urls, source, sound>>
    BY <1>a, <1>11 DEF Manifest
  <2>2. CASE FailReading(g)
    BY <1>a, <2>1, <2>2, FailReadingMoves, OneMoves
  <2>3. CASE NextMessage(g)
    BY <1>a, <2>1, <2>3, NextMessageMoves, OneMoves
  <2>4. CASE /\ reader' = [reader EXCEPT ![g].at = "sentence", ![g].index = 1,
                                         ![g].next = "fetching"]
             /\ UNCHANGED processing
    <3>1. reader'[g].at = "sentence" /\ \A h \in Generations \ {g} : reader'[h] = reader[h]
      BY <2>4, Readers DEF PlayerTypeOK, Coroutine
    <3>2. processing' <=> reader'[generation].at # "gone"
      BY <1>a, <2>1, <2>4, <3>1
    <3>. QED BY <1>a, <2>1, <3>1, <3>2, OneMoves
  <2>. QED BY <1>11, <2>2, <2>3, <2>4 DEF Manifest
<1>12. ASSUME NEW g \in Generations, Fetched(g) PROVE Silent'
  <2>1. reader[g].next = "fetching" /\ Quiet /\ UNCHANGED generation
    BY <1>12 DEF Fetched
  <2>2. \A u \in urls' : u[1] = generation
    <3>1. \A index : Url(g, reader[g], index)[1] = g
      BY DEF Url
    <3>. QED BY <1>a, <1>12, <3>1 DEF Fetched, MayKeep, IsCurrent
  <2>3. CASE MayKeep(g) /\ reader[g].at = "sentence" /\ Play(g, reader[g])
    BY <2>1, <2>2, <2>3, Readers, PlayIsSilent DEF MayKeep, IsCurrent
  <2>4. CASE /\ reader[g].at \in {"sentence", "draining"}
             /\ FailReading(g) /\ UNCHANGED <<source, sound>>
    BY <1>a, <2>1, <2>2, <2>4, FailReadingMoves, OneMoves
  <2>5. CASE /\ \E next \in {"ready", "broken"} : reader' = [reader EXCEPT ![g].next = next]
             /\ UNCHANGED <<processing, source, sound>>
    <3>1. \A h \in Generations : reader'[h].at = reader[h].at
      BY <2>5, Readers DEF PlayerTypeOK, Coroutine
    <3>. QED BY <1>a, <2>1, <2>2, <2>5, <3>1 DEF NotYet, Buffers, Woken, Listens, StaleIsSilent
  <2>. QED BY <1>12, <2>3, <2>4, <2>5 DEF Fetched
<1>13. ASSUME NEW g \in Generations, GoesOn(g) PROVE Silent'
  <2>. DEFINE r == [reader[g] EXCEPT !.index = @ + 1]
  <2>1. /\ reader[g].at = "woken" /\ \A h \in Generations : h < g => reader[h].at # "woken"
        /\ g <= generation /\ UNCHANGED generation /\ \A u \in urls' : u[1] = generation
    BY <1>a, <1>13 DEF GoesOn
  <2>2. r \in Coroutine
    <3>1. reader[g] \in Coroutine /\ reader[g].index + 1 \in Nat
      BY Readers DEF Coroutine
    <3>. QED BY <3>1 DEF Coroutine
  <2>3. CASE NextMessage(g) /\ UNCHANGED <<source, sound>>
    BY <1>a, <2>1, <2>3, NextMessageMoves, OneMoves
  <2>4. CASE Play(g, r)
    <3>. HIDE DEF r
    <3>. QED BY <2>1, <2>2, <2>4, PlayIsSilent
  <2>5. CASE /\ reader' = [reader EXCEPT ![g] = [r EXCEPT !.at = "sentence"]]
             /\ UNCHANGED <<processing, source, sound>>
    <3>1. reader'[g].at = "sentence" /\ \A h \in Generations \ {g} : reader'[h] = reader[h]
      <4>1. [r EXCEPT !.at = "sentence"].at = "sentence"
        BY <2>2 DEF Coroutine
      <4>. HIDE DEF r
      <4>. QED BY <2>5, <4>1 DEF PlayerTypeOK
    <3>2. processing' <=> reader'[generation].at # "gone"
      BY <1>a, <2>1, <2>5, <3>1
    <3>. QED BY <1>a, <2>1, <2>5, <3>1, <3>2, OneMoves
  <2>6. CASE FailReading(g) /\ UNCHANGED <<source, sound>>
    BY <1>a, <2>1, <2>6, FailReadingMoves, OneMoves
  <2>. QED BY <1>13, <2>3, <2>4, <2>5, <2>6 DEF GoesOn
<1>14. ASSUME NEW g \in Generations, PlayFails(g) PROVE Silent'
  <2>1. /\ Quiet /\ sound = "loading" /\ reader[g].at = "buffering" /\ sound' = "none"
        /\ UNCHANGED <<generation, source>> /\ urls' \subseteq urls
    BY <1>14 DEF PlayFails
  <2>2. \A h \in Generations :
          \/ reader'[h] = reader[h] /\ h # g
          \/ reader'[h] = Rejected(reader[h]) /\ (h = g \/ reader[h].at = "playing")
    BY <1>14 DEF PlayFails
  <2>3. \A h \in Generations : reader'[h] = reader[h] \/ reader'[h].at \in {"gone", "draining"}
    BY <2>2, RejectedIs, Readers
  <2>4. \A h \in Generations \ {g} : reader[h].at # "buffering"
    BY <2>1 DEF Buffers
  <2>5. \A h \in Generations : reader'[h].at \notin {"buffering", "woken"}
    <3>1. reader'[g].at \in {"gone", "draining"}
      BY <2>2, RejectedIs, Readers
    <3>. QED BY <2>1, <2>3, <2>4, <3>1 DEF Quiet
  <2>6. reader[generation].at # "playing" /\ reader'[generation].at # "playing"
    BY <1>a, <2>1, <2>3 DEF Listens
  <2>7. processing' <=> reader'[generation].at # "gone"
    <3>1. CASE g # generation
      <4>1. reader'[generation] = reader[generation]
        BY <1>a, <2>2, <2>6, <3>1
      <4>2. processing' <=> processing
        BY <1>14, <3>1 DEF PlayFails, GiveUp, NoLongerProcessing, IsCurrent
      <4>. QED BY <1>a, <4>1, <4>2
    <3>2. CASE g = generation /\ reader[g].next = "fetching"
      <4>1. reader'[g].at = "draining" /\ UNCHANGED processing
        BY <1>14, <2>2, <3>2, RejectedIs, Readers DEF PlayFails
      <4>. QED BY <1>a, <2>1, <3>2, <4>1
    <3>3. CASE g = generation /\ reader[g].next # "fetching"
      <4>1. reader'[g].at = "gone" /\ (processing' <=> FALSE)
        BY <1>14, <2>2, <3>3, RejectedIs, Readers
        DEF PlayFails, GiveUp, NoLongerProcessing, IsCurrent
      <4>. QED BY <3>3, <4>1
    <3>. QED BY <3>1, <3>2, <3>3
  <2>8. NotYet'
    <3>1. \A h \in Generations : h > generation => h # g /\ reader[h].at = "gone"
      BY <2>1 DEF NotYet
    <3>. QED BY <2>1, <2>2, <3>1 DEF NotYet
  <2>. QED BY <1>a, <2>1, <2>5, <2>6, <2>7, <2>8 DEF Buffers, Woken, Listens, StaleIsSilent
<1>15. CASE UNCHANGED playerVars
  BY <1>0, <1>15 DEF playerVars
<1>. QED
  BY <1>1, <1>2, <1>3, <1>4, <1>5, <1>6, <1>7, <1>8, <1>9, <1>10, <1>11, <1>12, <1>13,
     <1>14, <1>15 DEF PlayerNext

LEMMA PlayerInvariant == PlayerSpec => []PlayerInv
<1>1. ASSUME PlayerInit PROVE PlayerInv
  <2>1. 0 \in Generations /\ NoUrl \in ObjectUrl
    BY PlayerAssumption DEF Generations, NoUrl, ObjectUrl
  <2>2. reader \in [Generations -> Coroutine] /\ \A g \in Generations : reader[g].at = "gone"
    BY <1>1, GoneIs DEF PlayerInit
  <2>3. PlayerTypeOK
    BY <1>1, <2>1, <2>2, NothingWaits DEF PlayerInit, PlayerTypeOK
  <2>4. /\ generation = 0 /\ urls = {} /\ sound = "none" /\ processing = FALSE
        /\ reader[generation].at = "gone"
    BY <1>1, <2>1, <2>2 DEF PlayerInit
  <2>5. Silent
    BY <2>2, <2>4 DEF Silent, NotYet, Buffers, Woken, Listens, StaleIsSilent
  <2>. QED BY <2>3, <2>5 DEF PlayerInv
<1>2. PlayerInv /\ [PlayerNext]_playerVars => PlayerInv'
  BY PlayerTypesStep, SilentStep DEF PlayerInv
<1>. QED BY <1>1, <1>2, PTL DEF PlayerSpec

\* However stop() meets fetches, plays and late events, for any messages, sentences and
\* number of stops: what can be heard belongs to the current generation, nothing of an
\* older one is kept, and the flag that lets nobody else read is up exactly while the
\* current coroutine is at work.
THEOREM StaleIsSilentTheorem == PlayerSpec => []StaleIsSilent
<1>1. PlayerInv => StaleIsSilent
  BY DEF PlayerInv, Silent
<1>. QED BY <1>1, PlayerInvariant, PTL

-----------------------------------------------------------------------------
(* What is read newest first.                                              *)

\* A set of numbers up to N that is not empty has a greatest.
LEMMA GreatestNumber ==
  ASSUME NEW N \in Nat, NEW S \in SUBSET (0..N), S # {}
  PROVE  \E n \in S : \A m \in S : n >= m
<1>. DEFINE T == {N - n : n \in S}
<1>1. T \in SUBSET Nat /\ T # {}
  <2>1. \A n \in S : n \in 0..N /\ N - n \in Nat
    OBVIOUS
  <2>. QED BY <2>1
<1>2. PICK k \in T : \A m \in T : k <= m
  <2>. HIDE DEF T
  <2>. QED BY <1>1, SmallestNumber
<1>3. PICK n \in S : k = N - n
  BY <1>2
<1>4. ASSUME NEW m \in S PROVE n >= m
  <2>1. N - m \in T
    OBVIOUS
  <2>2. k <= N - m
    BY <1>2, <2>1
  <2>3. n \in 0..N /\ m \in 0..N
    OBVIOUS
  <2>. QED BY <1>3, <2>2, <2>3
<1>. QED BY <1>4

\* The numbers of a set up to N can be put in a row, greatest first.
LEMMA DescendingExists ==
  ASSUME NEW N \in Nat, NEW S \in SUBSET (0..N)
  PROVE  \E q \in [1..Cardinality(S) -> S] : Descends(q, S)
<1>. DEFINE InARow(T) == \E q \in [1..Cardinality(T) -> T] : Descends(q, T)
            G == {n \in 0..N + 1 : \A T \in SUBSET (0..N) : Cardinality(T) = n => InARow(T)}
<1>0. ASSUME NEW T \in SUBSET (0..N)
      PROVE  IsFiniteSet(T) /\ Cardinality(T) \in 0..N + 1
  <2>1. 0 \in Int /\ N \in Int
    OBVIOUS
  <2>2. IsFiniteSet(0..N) /\ Cardinality(0..N) = N + 1
    BY <2>1, FS_Interval
  <2>3. IsFiniteSet(T) /\ Cardinality(T) <= Cardinality(0..N)
    BY <2>2, FS_Subset
  <2>4. Cardinality(T) \in Nat
    BY <2>3, FS_CardinalityType
  <2>. QED BY <2>2, <2>3, <2>4
<1>1. 0 \in G
  <2>1. ASSUME NEW T \in SUBSET (0..N), Cardinality(T) = 0 PROVE InARow(T)
    <3>1. T = {}
      BY <1>0, <2>1, FS_EmptySet
    <3>. DEFINE q == [i \in 1..0 |-> 0]
    <3>2. q \in [1..0 -> T] /\ DOMAIN q = {}
      OBVIOUS
    <3>3. Descends(q, T)
      <4>. HIDE DEF q
      <4>. QED BY <3>1, <3>2 DEF Descends
    <3>. QED BY <2>1, <3>2, <3>3
  <2>. QED BY <2>1
<1>2. ASSUME NEW m \in 0..N + 1, m < N + 1, m \in G PROVE m + 1 \in G
  <2>1. ASSUME NEW T \in SUBSET (0..N), Cardinality(T) = m + 1 PROVE InARow(T)
    <3>1. T # {} /\ IsFiniteSet(T)
      BY <1>0, <2>1, FS_EmptySet
    <3>2. PICK x \in T : \A y \in T : x >= y
      BY <3>1, GreatestNumber
    <3>. DEFINE U == T \ {x}
    <3>3. U \in SUBSET (0..N) /\ Cardinality(U) = m
      <4>1. Cardinality(T \ {x}) = Cardinality(T) - 1
        BY <3>1, FS_RemoveElement
      <4>. QED BY <2>1, <4>1
    <3>4. PICK q \in [1..m -> U] : Descends(q, U)
      <4>. HIDE DEF U
      <4>. QED BY <1>2, <3>3
    <3>. DEFINE r == [i \in 1..m + 1 |-> IF i = 1 THEN x ELSE q[i - 1]]
    <3>5. m \in Nat /\ DOMAIN q = 1..m /\ DOMAIN r = 1..m + 1
      OBVIOUS
    <3>6. r[1] = x /\ \A i \in 2..m + 1 : r[i] = q[i - 1] /\ i - 1 \in 1..m
      BY <3>5
    <3>7. \A i \in 1..m : i + 1 \in 2..m + 1 /\ r[i + 1] = q[i]
      BY <3>5
    <3>8. \A i \in 1..m : q[i] \in U
      OBVIOUS
    <3>. HIDE DEF r
    <3>9. {r[i] : i \in DOMAIN r} = T
      <4>1. ASSUME NEW i \in DOMAIN r PROVE r[i] \in T
        <5>1. i = 1 \/ i \in 2..m + 1
          BY <3>5
        <5>. QED BY <3>6, <3>8, <5>1
      <4>2. ASSUME NEW y \in T PROVE \E i \in DOMAIN r : r[i] = y
        <5>1. CASE y = x
          BY <3>5, <3>6, <5>1
        <5>2. CASE y # x
          <6>1. y \in {q[i] : i \in DOMAIN q}
            BY <3>4, <5>2 DEF Descends
          <6>2. PICK i \in 1..m : q[i] = y
            BY <3>5, <6>1
          <6>. QED BY <3>5, <3>7, <6>2
        <5>. QED BY <5>1, <5>2
      <4>. QED BY <4>1, <4>2
    <3>10. ASSUME NEW i \in DOMAIN r, NEW j \in DOMAIN r, i < j PROVE r[i] > r[j]
      <4>1. j \in 2..m + 1 /\ r[j] = q[j - 1] /\ j - 1 \in 1..m
        BY <3>5, <3>6, <3>10
      <4>2. CASE i = 1
        <5>1. q[j - 1] \in T /\ q[j - 1] # x
          BY <3>8, <4>1
        <5>2. q[j - 1] \in 0..N /\ x \in 0..N /\ x >= q[j - 1]
          BY <3>2, <5>1
        <5>. QED BY <3>6, <4>1, <4>2, <5>1, <5>2
      <4>3. CASE i # 1
        <5>1. i \in 2..m + 1 /\ i - 1 \in DOMAIN q /\ j - 1 \in DOMAIN q /\ i - 1 < j - 1
          BY <3>5, <3>10, <4>1, <4>3
        <5>2. q[i - 1] > q[j - 1]
          BY <3>4, <5>1 DEF Descends
        <5>. QED BY <3>6, <4>1, <5>1, <5>2
      <4>. QED BY <4>2, <4>3
    <3>11. r \in [1..m + 1 -> T]
      <4>1. r = [i \in DOMAIN r |-> r[i]]
        BY DEF r
      <4>. QED BY <3>5, <3>9, <4>1
    <3>. QED BY <2>1, <3>9, <3>10, <3>11 DEF Descends
  <2>2. m + 1 \in 0..N + 1
    BY <1>2
  <2>. HIDE DEF InARow
  <2>. QED BY <2>1, <2>2
<1>3. \A n \in 0..N + 1 : n \in G
  <2>1. N + 1 \in Nat
    OBVIOUS
  <2>. HIDE DEF G
  <2>. QED BY <1>1, <1>2, <2>1, StepByStep
<1>4. Cardinality(S) \in G
  BY <1>0, <1>3
<1>. QED BY <1>4

\* What is read newest first is all there is, each once.
LEMMA DescendingIs ==
  ASSUME NEW N \in Nat, NEW S \in SUBSET (0..N)
  PROVE  /\ Descending(S) \in Seq(S) /\ Descends(Descending(S), S)
         /\ Len(Descending(S)) \in Nat /\ DOMAIN Descending(S) = 1..Len(Descending(S))
<1>. DEFINE q == Descending(S)
<1>1. q \in [1..Cardinality(S) -> S] /\ Descends(q, S)
  BY DescendingExists DEF Descending
<1>2. Cardinality(S) \in Nat
  <2>1. 0 \in Int /\ N \in Int
    OBVIOUS
  <2>2. IsFiniteSet(0..N)
    BY <2>1, FS_Interval
  <2>3. IsFiniteSet(S)
    BY <2>2, FS_Subset
  <2>. QED BY <2>3, FS_CardinalityType
<1>. HIDE DEF q
<1>3. q \in Seq(S)
  BY <1>1, <1>2
<1>4. Len(q) \in Nat /\ DOMAIN q = 1..Len(q)
  BY <1>3
<1>. QED BY <1>1, <1>3, <1>4 DEF q

-----------------------------------------------------------------------------
(* What is kept of a list.                                                 *)

\* What is kept of the first elements of s, up to N.
Picked(f, s, S, N) ==
  f = [n \in 0..N |-> IF n = 0 THEN <<>>
                      ELSE IF s[n] \in S THEN Append(f[n - 1], s[n]) ELSE f[n - 1]]

\* There is such a function.
LEMMA PickedExists ==
  ASSUME NEW s, NEW N \in Nat, NEW S
  PROVE  \E f : Picked(f, s, S, N)
<1>. DEFINE G == {n \in 0..N : \E f : Picked(f, s, S, n)}
<1>1. 0 \in G
  <2>. DEFINE f == [n \in 0..0 |-> <<>>]
  <2>1. Picked(f, s, S, 0)
    BY DEF Picked
  <2>. QED BY <2>1
<1>2. ASSUME NEW m \in 0..N, m < N, m \in G PROVE m + 1 \in G
  <2>1. PICK f : Picked(f, s, S, m)
    BY <1>2
  <2>2. PICK last : last = IF s[m + 1] \in S THEN Append(f[m], s[m + 1]) ELSE f[m]
    OBVIOUS
  <2>. DEFINE g == [n \in 0..m + 1 |-> IF n = m + 1 THEN last ELSE f[n]]
  <2>3. ASSUME NEW n \in 0..m + 1
        PROVE  g[n] = IF n = 0 THEN <<>>
                      ELSE IF s[n] \in S THEN Append(g[n - 1], s[n]) ELSE g[n - 1]
    <3>1. CASE n = m + 1
      <4>1. m \in 0..m + 1 /\ m # m + 1 /\ (m + 1) - 1 = m /\ m + 1 # 0
        OBVIOUS
      <4>2. g[m] = f[m] /\ g[m + 1] = last
        BY <4>1
      <4>. HIDE DEF g
      <4>. QED BY <2>2, <3>1, <4>1, <4>2
    <3>2. CASE n # m + 1
      <4>1. n \in 0..m /\ (n # 0 => n - 1 \in 0..m /\ n - 1 # m + 1)
        BY <3>2
      <4>2. g[n] = f[n] /\ (n # 0 => g[n - 1] = f[n - 1])
        BY <4>1
      <4>3. f[n] = IF n = 0 THEN <<>>
                   ELSE IF s[n] \in S THEN Append(f[n - 1], s[n]) ELSE f[n - 1]
        BY <2>1, <4>1 DEF Picked
      <4>. HIDE DEF g
      <4>. QED BY <4>2, <4>3
    <3>. QED BY <3>1, <3>2
  <2>4. Picked(g, s, S, m + 1)
    <3>1. g = [n \in 0..m + 1 |-> g[n]]
      OBVIOUS
    <3>. HIDE DEF g
    <3>. QED BY <2>3, <3>1 DEF Picked
  <2>5. m + 1 \in 0..N
    BY <1>2
  <2>. HIDE DEF g
  <2>. QED BY <2>4, <2>5
<1>3. \A n \in 0..N : n \in G
  <2>. HIDE DEF G
  <2>. QED BY <1>1, <1>2, StepByStep
<1>. QED BY <1>3

\* u picks elements of S from s, of the places g, in their order.
Picks(u, s, S, g) ==
  /\ \A i \in 1..Len(u) : g[i] \in 1..Len(s) /\ g[i] >= i /\ u[i] = s[g[i]] /\ u[i] \in S
  /\ \A i, j \in 1..Len(u) : i < j => g[i] < g[j]

\* Those of s in S are picked from it; its head stays the head.
LEMMA ThoseIs ==
  ASSUME NEW E, NEW s \in Seq(E), NEW S
  PROVE  /\ Those(s, S) \in Seq(E)
         /\ \E g : Picks(Those(s, S), s, S, g)
         /\ Len(Those(s, S)) <= Len(s)
         /\ s # <<>> /\ s[1] \in S => Those(s, S) # <<>> /\ Those(s, S)[1] = s[1]
<1>. DEFINE N == Len(s)
            f == CHOOSE f : Picked(f, s, S, N)
            Fine(u, n) == /\ u \in Seq(E) /\ \E g : Picks(u, s, S, g) /\ \A i \in 1..Len(u) : g[i] <= n
                          /\ n > 0 /\ s[1] \in S => u # <<>> /\ u[1] = s[1]
            G == {n \in 0..N : Fine(f[n], n)}
<1>0. N \in Nat /\ DOMAIN s = 1..N
  OBVIOUS
<1>1. Those(s, S) = f[N]
  BY DEF Those, Picked
<1>2. Picked(f, s, S, N)
  BY <1>0, PickedExists
<1>. HIDE DEF f
<1>3. 0 \in G
  <2>1. f[0] = <<>>
    BY <1>0, <1>2 DEF Picked
  <2>2. <<>> \in Seq(E) /\ Len(<<>>) = 0
    OBVIOUS
  <2>3. Picks(<<>>, s, S, <<>>)
    BY <2>2 DEF Picks
  <2>4. Fine(<<>>, 0)
    BY <2>2, <2>3
  <2>. HIDE DEF Fine
  <2>. QED BY <1>0, <2>1, <2>4
<1>4. ASSUME NEW m \in 0..N, m < N, m \in G PROVE m + 1 \in G
  <2>0. m + 1 \in 0..N /\ m + 1 \in 1..N /\ m + 1 # 0 /\ (m + 1) - 1 = m /\ s[m + 1] \in E
    BY <1>0, <1>4
  <2>1. f[m + 1] = IF s[m + 1] \in S THEN Append(f[m], s[m + 1]) ELSE f[m]
    BY <1>2, <2>0 DEF Picked
  <2>2. PICK u : u = f[m] /\ Fine(u, m)
    BY <1>4
  <2>3. PICK g : Picks(u, s, S, g) /\ \A i \in 1..Len(u) : g[i] <= m
    BY <2>2
  <2>4. u \in Seq(E) /\ Len(u) \in Nat /\ (m > 0 /\ s[1] \in S => u # <<>> /\ u[1] = s[1])
    BY <2>2
  <2>5. CASE s[m + 1] \in S
    <3>1. PICK x : x = s[m + 1] /\ x \in E /\ x \in S
      BY <2>0, <2>5
    <3>2. PICK v : v = Append(u, x)
      OBVIOUS
    <3>3. /\ v \in Seq(E) /\ Len(v) = Len(u) + 1 /\ v[Len(u) + 1] = x /\ v # <<>>
          /\ \A i \in 1..Len(u) : v[i] = u[i]
      BY ONLY <2>4, <3>1, <3>2
    <3>. DEFINE h == [i \in 1..Len(u) + 1 |-> IF i = Len(u) + 1 THEN m + 1 ELSE g[i]]
    <3>4. /\ h[Len(u) + 1] = m + 1
          /\ \A i \in 1..Len(u) : h[i] = g[i] /\ i # Len(u) + 1
      BY <2>4
    <3>. HIDE DEF h
    <3>5. Len(u) <= m
      <4>1. CASE Len(u) = 0
        BY <4>1
      <4>2. CASE Len(u) # 0
        <5>1. Len(u) \in 1..Len(u)
          BY <2>4, <4>2
        <5>2. g[Len(u)] >= Len(u) /\ g[Len(u)] <= m /\ g[Len(u)] \in 1..N
          BY <2>3, <5>1 DEF Picks
        <5>. QED BY <2>4, <5>2
      <4>. QED BY <4>1, <4>2
    <3>6. \A i \in 1..Len(v) : i \in 1..Len(u) \/ i = Len(u) + 1
      BY <2>4, <3>3
    <3>7. ASSUME NEW i \in 1..Len(v)
          PROVE  h[i] \in 1..N /\ h[i] >= i /\ v[i] = s[h[i]] /\ v[i] \in S /\ h[i] <= m + 1
      <4>1. CASE i \in 1..Len(u)
        <5>1. g[i] \in 1..N /\ g[i] >= i /\ u[i] = s[g[i]] /\ u[i] \in S /\ g[i] <= m
          BY <2>3, <4>1 DEF Picks
        <5>. QED BY <3>3, <3>4, <4>1, <5>1
      <4>2. CASE i = Len(u) + 1
        BY <2>0, <2>4, <3>1, <3>3, <3>4, <3>5, <4>2
      <4>. QED BY <3>6, <4>1, <4>2
    <3>8. ASSUME NEW i \in 1..Len(v), NEW j \in 1..Len(v), i < j PROVE h[i] < h[j]
      <4>1. i \in 1..Len(u)
        BY <2>4, <3>3, <3>8
      <4>2. CASE j \in 1..Len(u)
        BY <2>3, <3>4, <3>8, <4>1, <4>2 DEF Picks
      <4>3. CASE j = Len(u) + 1
        <5>1. g[i] <= m /\ g[i] \in 1..N
          BY <2>3, <4>1 DEF Picks
        <5>. QED BY <3>4, <4>1, <4>3, <5>1
      <4>. QED BY <3>6, <4>2, <4>3
    <3>9. Picks(v, s, S, h)
      BY <3>7, <3>8 DEF Picks
    <3>10. m + 1 > 0 /\ s[1] \in S => v # <<>> /\ v[1] = s[1]
      <4>1. CASE m = 0
        <5>1. Len(u) = 0
          BY <2>4, <3>5, <4>1
        <5>. QED BY <3>1, <3>3, <4>1, <5>1
      <4>2. CASE m # 0
        <5>1. ASSUME s[1] \in S PROVE v[1] = s[1]
          <6>1. u # <<>> /\ u[1] = s[1]
            BY <2>4, <4>2, <5>1
          <6>2. 1 \in 1..Len(u)
            BY ONLY <2>4, <6>1
          <6>. QED BY <3>3, <6>1, <6>2
        <5>. QED BY <3>3, <5>1
      <4>. QED BY <4>1, <4>2
    <3>11. Fine(v, m + 1)
      BY <3>3, <3>7, <3>9, <3>10
    <3>12. f[m + 1] = v
      BY <2>1, <2>2, <2>5, <3>1, <3>2
    <3>. HIDE DEF Fine
    <3>. QED BY <2>0, <3>11, <3>12
  <2>6. CASE s[m + 1] \notin S
    <3>1. \A i \in 1..Len(u) : g[i] <= m + 1
      <4>. SUFFICES ASSUME NEW i \in 1..Len(u) PROVE g[i] <= m + 1
        OBVIOUS
      <4>1. g[i] \in 1..N /\ g[i] <= m
        BY <2>3 DEF Picks
      <4>. QED BY <4>1
    <3>2. s[1] \in S => u # <<>> /\ u[1] = s[1]
      BY <2>4, <2>6
    <3>3. Fine(u, m + 1)
      BY <2>3, <2>4, <3>1, <3>2
    <3>4. f[m + 1] = u
      BY <2>1, <2>2, <2>6
    <3>. HIDE DEF Fine
    <3>. QED BY <2>0, <3>3, <3>4
  <2>. QED BY <2>5, <2>6
<1>5. N \in G
  <2>1. \A n \in 0..N : n \in G
    <3>. HIDE DEF G, N
    <3>. QED BY <1>0, <1>3, <1>4, StepByStep
  <2>. QED BY <1>0, <2>1
<1>6. PICK u : u = Those(s, S)
  OBVIOUS
<1>7. /\ u \in Seq(E) /\ Len(u) \in Nat
      /\ N > 0 /\ s[1] \in S => u # <<>> /\ u[1] = s[1]
  BY <1>1, <1>5, <1>6
<1>8. PICK g : Picks(u, s, S, g)
  BY <1>1, <1>5, <1>6
<1>9. Len(u) <= N
  <2>1. CASE Len(u) = 0
    BY <1>0, <2>1
  <2>2. CASE Len(u) # 0
    <3>1. Len(u) \in 1..Len(u)
      BY <1>7, <2>2
    <3>2. g[Len(u)] >= Len(u) /\ g[Len(u)] \in 1..N
      BY <1>8, <3>1 DEF Picks
    <3>. QED BY <1>0, <1>7, <3>2
  <2>. QED BY <2>1, <2>2
<1>10. s # <<>> => N > 0
  OBVIOUS
<1>. QED BY <1>6, <1>7, <1>8, <1>9, <1>10

-----------------------------------------------------------------------------
(* How long it is.                                                         *)

\* The lengths of the first turns, up to N.
Counted(f, s, N) == f = [n \in 0..N |-> IF n = 0 THEN 0 ELSE f[n - 1] + Chars(s[n])]

Counts(s, f) ==
  /\ f[0] = 0 /\ \A n \in 0..Len(s) : f[n] \in Nat
  /\ \A n \in 1..Len(s) : f[n] = f[n - 1] + Chars(s[n])

\* There are such numbers.
LEMMA CountedExists ==
  ASSUME NEW s, NEW N \in Nat
  PROVE  \E f : Counted(f, s, N)
<1>. DEFINE G == {n \in 0..N : \E f : Counted(f, s, n)}
<1>1. 0 \in G
  <2>. DEFINE f == [n \in 0..0 |-> 0]
  <2>1. Counted(f, s, 0)
    BY DEF Counted
  <2>. QED BY <2>1
<1>2. ASSUME NEW m \in 0..N, m < N, m \in G PROVE m + 1 \in G
  <2>1. PICK f : Counted(f, s, m)
    BY <1>2
  <2>2. PICK last : last = f[m] + Chars(s[m + 1])
    OBVIOUS
  <2>. DEFINE g == [n \in 0..m + 1 |-> IF n = m + 1 THEN last ELSE f[n]]
  <2>3. ASSUME NEW n \in 0..m + 1
        PROVE  g[n] = IF n = 0 THEN 0 ELSE g[n - 1] + Chars(s[n])
    <3>1. CASE n = m + 1
      <4>1. m \in 0..m + 1 /\ m # m + 1 /\ (m + 1) - 1 = m /\ m + 1 # 0
        OBVIOUS
      <4>2. g[m] = f[m] /\ g[m + 1] = last
        BY <4>1
      <4>. HIDE DEF g
      <4>. QED BY <2>2, <3>1, <4>1, <4>2
    <3>2. CASE n # m + 1
      <4>1. n \in 0..m /\ (n # 0 => n - 1 \in 0..m /\ n - 1 # m + 1)
        BY <3>2
      <4>2. g[n] = f[n] /\ (n # 0 => g[n - 1] = f[n - 1])
        BY <4>1
      <4>3. f[n] = IF n = 0 THEN 0 ELSE f[n - 1] + Chars(s[n])
        BY <2>1, <4>1 DEF Counted
      <4>. HIDE DEF g
      <4>. QED BY <4>2, <4>3
    <3>. QED BY <3>1, <3>2
  <2>4. Counted(g, s, m + 1)
    <3>1. g = [n \in 0..m + 1 |-> g[n]]
      OBVIOUS
    <3>. HIDE DEF g
    <3>. QED BY <2>3, <3>1 DEF Counted
  <2>5. m + 1 \in 0..N
    BY <1>2
  <2>. HIDE DEF g
  <2>. QED BY <2>4, <2>5
<1>3. \A n \in 0..N : n \in G
  <2>. HIDE DEF G
  <2>. QED BY <1>1, <1>2, StepByStep
<1>. QED BY <1>3

\* And the length of all is the last of them.
LEMMA CharsAre ==
  ASSUME NEW E, NEW s \in Seq(E), \A turn \in E : Chars(turn) \in Nat
  PROVE  \E f : Counts(s, f) /\ CharsOf(s) = f[Len(s)] /\ CharsOf(s) \in Nat
<1>. DEFINE N == Len(s)
            f == CHOOSE f : Counted(f, s, N)
            G == {n \in 0..N : f[n] \in Nat}
<1>0. N \in Nat /\ \A n \in 1..N : Chars(s[n]) \in Nat
  OBVIOUS
<1>1. CharsOf(s) = f[N]
  BY DEF CharsOf, Counted
<1>2. Counted(f, s, N)
  BY <1>0, CountedExists
<1>. HIDE DEF f
<1>3. f[0] = 0 /\ \A n \in 1..N : f[n] = f[n - 1] + Chars(s[n])
  BY <1>0, <1>2 DEF Counted
<1>4. 0 \in G
  BY <1>0, <1>3
<1>5. ASSUME NEW m \in 0..N, m < N, m \in G PROVE m + 1 \in G
  <2>1. m + 1 \in 1..N /\ (m + 1) - 1 = m /\ m + 1 \in 0..N
    BY <1>0, <1>5
  <2>2. f[m + 1] = f[m] + Chars(s[m + 1]) /\ Chars(s[m + 1]) \in Nat
    BY <1>0, <1>3, <2>1
  <2>. QED BY <1>5, <2>1, <2>2
<1>6. \A n \in 0..N : n \in G
  <2>. HIDE DEF G, N
  <2>. QED BY <1>0, <1>4, <1>5, StepByStep
<1>7. Counts(s, f)
  BY <1>3, <1>6 DEF Counts
<1>8. f[N] \in Nat
  BY <1>0, <1>6
<1>. QED BY <1>1, <1>7, <1>8

Reversed(s) == [i \in DOMAIN s |-> s[Len(s) - i + 1]]

\* Read backwards, a list is the same list.
LEMMA ReversedIs ==
  ASSUME NEW E, NEW s \in Seq(E)
  PROVE  /\ Reversed(s) \in Seq(E) /\ Len(Reversed(s)) = Len(s) /\ Len(s) \in Nat
         /\ \A i \in 1..Len(s) : Len(s) - i + 1 \in 1..Len(s) /\ Reversed(s)[i] = s[Len(s) - i + 1]
<1>1. Len(s) \in Nat /\ DOMAIN s = 1..Len(s)
  OBVIOUS
<1>2. \A i \in 1..Len(s) : Len(s) - i + 1 \in 1..Len(s) /\ s[Len(s) - i + 1] \in E
  BY <1>1
<1>3. Reversed(s) \in [1..Len(s) -> E]
  BY <1>1, <1>2 DEF Reversed
<1>4. Reversed(s) \in Seq(E) /\ Len(Reversed(s)) = Len(s)
  <2>1. PICK r : r = Reversed(s) /\ r \in [1..Len(s) -> E]
    BY <1>3
  <2>2. r \in Seq(E) /\ Len(r) = Len(s)
    BY ONLY <1>1, <2>1
  <2>. QED BY <2>1, <2>2
<1>. QED BY <1>1, <1>2, <1>4 DEF Reversed

\* And as long.
LEMMA ReversedIsAsLong ==
  ASSUME NEW E, NEW s \in Seq(E), \A turn \in E : Chars(turn) \in Nat
  PROVE  CharsOf(Reversed(s)) = CharsOf(s)
<1>1. PICK r, N : r = Reversed(s) /\ N = Len(s)
  OBVIOUS
<1>2. /\ r \in Seq(E) /\ Len(r) = N /\ N \in Nat
      /\ \A i \in 1..N : N - i + 1 \in 1..N /\ r[i] = s[N - i + 1]
  BY <1>1, ReversedIs
<1>3. PICK f : Counts(s, f) /\ CharsOf(s) = f[N]
  BY <1>1, CharsAre
<1>4. PICK h : Counts(r, h) /\ CharsOf(r) = h[N]
  BY <1>2, CharsAre
<1>. DEFINE G == {n \in 0..N : h[n] + f[N - n] = f[N]}
<1>5. /\ \A n \in 0..N : f[n] \in Nat /\ h[n] \in Nat
      /\ f[0] = 0 /\ h[0] = 0
      /\ \A n \in 1..N : f[n] = f[n - 1] + Chars(s[n]) /\ h[n] = h[n - 1] + Chars(r[n])
  BY <1>1, <1>2, <1>3, <1>4 DEF Counts
<1>6. 0 \in G
  <2>1. N - 0 = N /\ N \in 0..N
    BY <1>2
  <2>. QED BY <1>2, <1>5, <2>1
<1>7. ASSUME NEW m \in 0..N, m < N, m \in G PROVE m + 1 \in G
  <2>1. /\ m + 1 \in 1..N /\ (m + 1) - 1 = m /\ N - m \in 1..N /\ N - (m + 1) + 1 = N - m
        /\ (N - m) - 1 = N - (m + 1) /\ N - (m + 1) \in 0..N /\ m + 1 \in 0..N
    BY <1>2, <1>7
  <2>2. h[m + 1] = h[m] + Chars(r[m + 1]) /\ r[m + 1] = s[N - m]
    BY <1>2, <1>5, <2>1
  <2>3. f[N - m] = f[N - (m + 1)] + Chars(s[N - m])
    BY <1>5, <2>1
  <2>4. Chars(s[N - m]) \in Nat
    BY <1>1, <2>1
  <2>5. h[m] + f[N - m] = f[N]
    BY <1>7
  <2>6. h[m] \in Nat /\ f[N - (m + 1)] \in Nat
    BY <1>5, <2>1
  <2>7. h[m + 1] + f[N - (m + 1)] = f[N]
    <3>. HIDE DEF G
    <3>. QED BY <2>2, <2>3, <2>4, <2>5, <2>6
  <2>. QED BY <2>1, <2>7
<1>8. N \in G
  <2>1. \A n \in 0..N : n \in G
    <3>. HIDE DEF G
    <3>. QED BY <1>2, <1>6, <1>7, StepByStep
  <2>. QED BY <1>2, <2>1
<1>9. h[N] = f[N]
  <2>1. N - N = 0 /\ N \in 0..N
    BY <1>2
  <2>. QED BY <1>5, <1>8, <2>1
<1>. QED BY <1>1, <1>3, <1>4, <1>9

\* One turn is as long as it is.
LEMMA CharsOfOne == ASSUME NEW x, Chars(x) \in Nat PROVE CharsOf(<<x>>) = Chars(x)
<1>1. PICK E : E = {x}
  OBVIOUS
<1>2. PICK s : s = <<x>>
  OBVIOUS
<1>3. s \in Seq(E) /\ Len(s) = 1 /\ s[1] = x
  BY <1>1, <1>2
<1>4. \A turn \in E : Chars(turn) \in Nat
  BY <1>1
<1>5. PICK f : Counts(s, f) /\ CharsOf(s) = f[Len(s)]
  BY <1>3, <1>4, CharsAre
<1>6. f[0] = 0 /\ 1 \in 1..Len(s) /\ f[1] = f[1 - 1] + Chars(s[1])
  BY <1>3, <1>5 DEF Counts
<1>. QED BY <1>2, <1>3, <1>5, <1>6

-----------------------------------------------------------------------------
(* What the history holds, and what of it may be told.                     *)

Happening == [type : {"action.broadcast", "narration.push"}, turn : AllTurns, by : Viewers,
              visibility : {"public", "player_scoped"}, length : Nat]

\* Events are of those who acted, a turn is uttered once, and the numbers are numbers.
HistoryInv ==
  /\ events \in Seq(Happening)
  /\ executions \in [AllTurns -> [after : Nat, intent : Nat, facts : Nat]]
  /\ \A i \in DOMAIN events : events[i].by = ActorOf(events[i].turn)
  /\ \A i, j \in DOMAIN events :
       /\ events[i].type = "action.broadcast" /\ events[j].type = "action.broadcast"
       /\ events[i].turn = events[j].turn
       => i = j

\* What is said of a turn, and what is done of it, has a length.
LEMMA HistoryTyped ==
  ASSUME NEW t \in AllTurns
  PROVE  /\ ActorOf(t) \in Viewers
         /\ {SaidIn[t].utterance, SaidIn[t].intent, SaidIn[t].facts, SaidIn[t].narration} \subseteq Nat
<1>1. PICK p \in Viewers : t \in TurnsOf[p]
  BY DEF AllTurns
<1>. QED BY <1>1, HistoryAssumption DEF ActorOf, Viewers

\* An event more of a turn that is not uttered again.
LEMMA OneEventMore ==
  ASSUME HistoryInv, NEW t \in AllTurns, NEW type \in {"action.broadcast", "narration.push"},
         NEW visibility \in {"public", "player_scoped"}, NEW length \in Nat,
         ~Has(t, type), UNCHANGED executions,
         events' = Append(events, Event(type, t, visibility, length))
  PROVE  HistoryInv'
<1>1. PICK e : e = Event(type, t, visibility, length)
  OBVIOUS
<1>2. e \in Happening /\ e.by = ActorOf(e.turn) /\ e.turn = t /\ e.type = type
  BY <1>1, HistoryTyped DEF Event, Happening
<1>3. PICK N : N = Len(events)
  OBVIOUS
<1>4. /\ events' \in Seq(Happening) /\ N \in Nat /\ DOMAIN events = 1..N /\ DOMAIN events' = 1..N + 1
      /\ events'[N + 1] = e /\ \A i \in 1..N : events'[i] = events[i]
  BY <1>1, <1>2, <1>3 DEF HistoryInv
<1>5. \A i \in 1..N + 1 : i \in 1..N \/ i = N + 1
  BY <1>4
<1>6. ASSUME NEW i \in DOMAIN events' PROVE events'[i].by = ActorOf(events'[i].turn)
  BY <1>2, <1>4, <1>5, <1>6 DEF HistoryInv
<1>7. ASSUME NEW i \in 1..N, events[i].type = type PROVE events[i].turn # t
  BY <1>4, <1>7 DEF Has
<1>8. ASSUME NEW i \in DOMAIN events', NEW j \in DOMAIN events',
             events'[i].type = "action.broadcast", events'[j].type = "action.broadcast",
             events'[i].turn = events'[j].turn
      PROVE  i = j
  <2>1. CASE i \in 1..N /\ j \in 1..N
    BY <1>4, <1>8, <2>1 DEF HistoryInv
  <2>2. CASE i = N + 1 /\ j \in 1..N
    BY <1>2, <1>4, <1>7, <1>8, <2>2
  <2>3. CASE j = N + 1 /\ i \in 1..N
    BY <1>2, <1>4, <1>7, <1>8, <2>3
  <2>4. CASE i = N + 1 /\ j = N + 1
    BY <2>4
  <2>. QED BY <1>4, <1>5, <2>1, <2>2, <2>3, <2>4
<1>9. executions' \in [AllTurns -> [after : Nat, intent : Nat, facts : Nat]]
  BY DEF HistoryInv
<1>10. ActorOf(t)' = ActorOf(t)
  OBVIOUS
<1>. QED BY <1>4, <1>6, <1>8, <1>9 DEF HistoryInv

\* A history begins with nothing.
LEMMA HistoryStarts == HistoryInit => HistoryInv
<1>. SUFFICES ASSUME HistoryInit PROVE HistoryInv
  OBVIOUS
<1>1. events \in Seq(Happening) /\ DOMAIN events = {}
  BY DEF HistoryInit
<1>2. executions \in [AllTurns -> [after : Nat, intent : Nat, facts : Nat]]
  BY DEF HistoryInit, NotExecuted
<1>. QED BY <1>1, <1>2 DEF HistoryInv

\* Every event and every execution leaves it a history.
LEMMA HistoryStep == HistoryInv /\ [HistoryNext]_historyVars => HistoryInv'
<1>. SUFFICES ASSUME HistoryInv, [HistoryNext]_historyVars PROVE HistoryInv'
  OBVIOUS
<1>1. ASSUME NEW t \in AllTurns, Broadcast(t) PROVE HistoryInv'
  <2>1. SaidIn[t].utterance \in Nat
    BY HistoryTyped
  <2>. QED BY <1>1, <2>1, OneEventMore DEF Broadcast
<1>2. ASSUME NEW t \in AllTurns, Execute(t) PROVE HistoryInv'
  <2>1. SaidIn[t].intent \in Nat /\ SaidIn[t].facts \in Nat /\ Len(events) \in Nat
    BY HistoryTyped DEF HistoryInv
  <2>2. executions' \in [AllTurns -> [after : Nat, intent : Nat, facts : Nat]]
    BY <1>2, <2>1 DEF Execute, HistoryInv
  <2>. QED BY <1>2, <2>2 DEF Execute, HistoryInv
<1>3. ASSUME NEW t \in AllTurns, Narrate(t) PROVE HistoryInv'
  <2>1. SaidIn[t].narration \in Nat
    BY HistoryTyped
  <2>2. PICK visibility \in {"public", "player_scoped"} :
          events' = Append(events, Event("narration.push", t, visibility, SaidIn[t].narration))
    BY <1>3 DEF Narrate
  <2>. QED BY <1>3, <2>1, <2>2, OneEventMore DEF Narrate
<1>4. CASE UNCHANGED historyVars
  BY <1>4 DEF HistoryInv, historyVars
<1>. QED BY <1>1, <1>2, <1>3, <1>4 DEF HistoryNext

\* Every turn that a viewer may be told of is of these.
Found(viewer, current) ==
  {i \in 1..CutoffOf(current) - 1 :
     /\ events[i].type = "action.broadcast" /\ events[i].turn # current
     /\ IsFor(events[i], viewer)}

\* Told to the viewer, the turn that was uttered at x.at gives nothing away.
MayBeTold(x, viewer, current) ==
  /\ x.at \in Found(viewer, current) /\ x.turn = events[x.at].turn
  /\ x.narration > 0 => \E n \in 1..CutoffOf(current) - 1 :
                          events[n].turn = x.turn /\ events[n].type = "narration.push"
  /\ ActorOf(x.turn) # viewer => ~x.private /\ x.intent = 0 /\ x.facts = 0
  /\ {x.utterance, x.intent, x.facts, x.narration} \subseteq Nat

\* A turn reads no further than where it began, or than the history goes.
LEMMA CutoffIs ==
  ASSUME HistoryInv, NEW current
  PROVE  CutoffOf(current) \in Nat \ {0} /\ 1..CutoffOf(current) - 1 \subseteq DOMAIN events
<1>. DEFINE own == {i \in DOMAIN events : events[i].turn = current /\ events[i].type = "action.broadcast"}
<1>1. Len(events) \in Nat /\ DOMAIN events = 1..Len(events)
  BY DEF HistoryInv
<1>2. CASE own = {}
  <2>1. CutoffOf(current) = Len(events) + 1
    BY <1>2 DEF CutoffOf
  <2>. QED BY <1>1, <2>1
<1>3. CASE own # {}
  <2>1. CutoffOf(current) = CHOOSE i \in own : TRUE
    BY <1>3 DEF CutoffOf
  <2>2. CutoffOf(current) \in 1..Len(events)
    BY <1>1, <1>3, <2>1
  <2>. QED BY <1>1, <2>2
<1>. QED BY <1>2, <1>3

\* What is cut is no longer than it may be, and no longer than it was.
LEMMA CutIs == ASSUME NEW n \in Nat, NEW limit \in Nat
               PROVE  Cut(n, limit) \in Nat /\ Cut(n, limit) <= n /\ Cut(n, limit) <= limit
BY DEF Cut

\* What is projected may be told.
LEMMA ProjectedIsSafe ==
  ASSUME HistoryInv, NEW viewer, NEW current, NEW i \in Found(viewer, current)
  PROVE  /\ MayBeTold(Projected(viewer, i, CutoffOf(current)), viewer, current)
         /\ Projected(viewer, i, CutoffOf(current)).at = i
<1>1. PICK cutoff, t : cutoff = CutoffOf(current) /\ t = events[i].turn
  OBVIOUS
<1>2. cutoff \in Nat \ {0} /\ 1..cutoff - 1 \subseteq DOMAIN events
  BY <1>1, CutoffIs
<1>3. \A n \in DOMAIN events : /\ events[n] \in Happening
                               /\ events[n].by = ActorOf(events[n].turn)
  BY DEF HistoryInv
<1>4. i \in DOMAIN events /\ t \in AllTurns /\ events[i].length \in Nat
  BY <1>1, <1>2, <1>3 DEF Found, Happening
<1>5. PICK narrated : narrated = NarrationsOf(viewer, t, cutoff)
  OBVIOUS
<1>6. \A n \in narrated : /\ n \in 1..cutoff - 1 /\ events[n].type = "narration.push"
                          /\ events[n].turn = t /\ events[n].length \in Nat
                          /\ events[n].visibility = "player_scoped" => ActorOf(t) = viewer
  BY <1>2, <1>3, <1>5 DEF NarrationsOf, Happening, IsFor
<1>7. PICK tell : tell = (MayTellIntent(viewer, t) /\ executions[t] # NotExecuted
                          /\ executions[t].after < cutoff)
  OBVIOUS
<1>8. /\ executions[t].intent \in Nat /\ executions[t].facts \in Nat
  BY <1>4 DEF HistoryInv
<1>9. PICK tells : tells = IF narrated = {} THEN 0
                         ELSE Cut(events[Newest(narrated)].length, NarrationLimit)
  OBVIOUS
<1>10. tells \in Nat /\ (tells > 0 => narrated # {})
  <2>1. CASE narrated = {}
    BY <1>9, <2>1
  <2>2. CASE narrated # {}
    <3>1. narrated \in SUBSET (0..cutoff - 1) /\ cutoff - 1 \in Nat
      BY <1>2, <1>6
    <3>2. Newest(narrated) \in narrated
      BY <2>2, <3>1, GreatestNumber DEF Newest
    <3>3. events[Newest(narrated)].length \in Nat
      BY <1>6, <3>2
    <3>. QED BY <1>9, <2>2, <3>3, CutIs, HistoryAssumption
  <2>. QED BY <2>1, <2>2
<1>11. PICK x : x = Projected(viewer, i, cutoff)
  OBVIOUS
<1>12. /\ x.turn = t /\ x.at = i /\ x.utterance = Cut(events[i].length, UtteranceLimit)
       /\ x.intent = (IF tell THEN Cut(executions[t].intent, IntentLimit) ELSE 0)
       /\ x.facts = (IF tell THEN Cut(executions[t].facts, ResultLimit) ELSE 0)
       /\ x.narration = tells
       /\ x.private = (\E n \in narrated : events[n].visibility = "player_scoped")
  BY <1>1, <1>5, <1>7, <1>9, <1>11 DEF Projected
<1>13. {x.utterance, x.intent, x.facts, x.narration} \subseteq Nat
  <2>0. {UtteranceLimit, IntentLimit, ResultLimit} \subseteq Nat
    BY HistoryAssumption
  <2>1. x.utterance \in Nat
    BY <1>4, <1>12, <2>0, CutIs
  <2>2. x.intent \in Nat
    <3>1. Cut(executions[t].intent, IntentLimit) \in Nat
      BY <1>8, <2>0, CutIs
    <3>. QED BY <1>12, <3>1
  <2>3. x.facts \in Nat
    <3>1. Cut(executions[t].facts, ResultLimit) \in Nat
      BY <1>8, <2>0, CutIs
    <3>. QED BY <1>12, <3>1
  <2>. QED BY <1>10, <1>12, <2>1, <2>2, <2>3
<1>14. ActorOf(t) # viewer => ~x.private /\ x.intent = 0 /\ x.facts = 0
  <2>1. ASSUME ActorOf(t) # viewer PROVE ~tell
    BY <1>7, <2>1 DEF MayTellIntent
  <2>2. ASSUME ActorOf(t) # viewer PROVE ~x.private
    BY <1>6, <1>12, <2>2
  <2>. QED BY <1>12, <2>1, <2>2
<1>15. x.narration > 0 => \E n \in 1..cutoff - 1 : events[n].turn = t /\ events[n].type = "narration.push"
  BY <1>6, <1>10, <1>12
<1>16. MayBeTold(x, viewer, current)
  BY <1>1, <1>12, <1>13, <1>14, <1>15 DEF MayBeTold
<1>. QED BY <1>1, <1>11, <1>12, <1>16

-----------------------------------------------------------------------------
(* Which turns are chosen.                                                 *)

\* No turn twice.
Apart(s) == \A i, j \in DOMAIN s : i # j => s[i].turn # s[j].turn

\* What is taken of a list without a turn twice has none twice.
LEMMA PartsStayApart ==
  ASSUME NEW E, NEW s \in Seq(E), Apart(s), NEW u \in Seq(E), NEW S, NEW g, Picks(u, s, S, g)
  PROVE  Apart(u)
<1>. SUFFICES ASSUME NEW i \in DOMAIN u, NEW j \in DOMAIN u, i # j PROVE u[i].turn # u[j].turn
  BY DEF Apart
<1>1. /\ DOMAIN u = 1..Len(u) /\ DOMAIN s = 1..Len(s) /\ Len(u) \in Nat /\ Len(s) \in Nat
  OBVIOUS
<1>2. /\ g[i] \in 1..Len(s) /\ g[j] \in 1..Len(s) /\ u[i] = s[g[i]] /\ u[j] = s[g[j]]
  BY <1>1 DEF Picks
<1>3. i < j \/ j < i
  BY <1>1
<1>4. g[i] < g[j] \/ g[j] < g[i]
  BY <1>1, <1>3 DEF Picks
<1>5. g[i] # g[j]
  BY <1>1, <1>2, <1>4
<1>. QED BY <1>1, <1>2, <1>5 DEF Apart

\* One list behind another.
LEMMA BothAre ==
  ASSUME NEW E, NEW u \in Seq(E), NEW v \in Seq(E)
  PROVE  /\ u \o v \in Seq(E) /\ Len(u \o v) = Len(u) + Len(v)
         /\ Len(u) \in Nat /\ Len(v) \in Nat
         /\ \A i \in 1..Len(u) : (u \o v)[i] = u[i]
         /\ \A i \in 1..Len(u \o v) : i > Len(u) => (u \o v)[i] = v[i - Len(u)]
OBVIOUS

\* Two lists with no turn in common, each without one twice.
LEMMA BothStayApart ==
  ASSUME NEW E, NEW u \in Seq(E), NEW v \in Seq(E), Apart(u), Apart(v),
         \A i \in 1..Len(u), j \in 1..Len(v) : u[i].turn # v[j].turn
  PROVE  u \o v \in Seq(E) /\ Apart(u \o v)
<1>1. PICK w : w = u \o v
  OBVIOUS
<1>2. /\ w \in Seq(E) /\ Len(w) = Len(u) + Len(v) /\ Len(u) \in Nat /\ Len(v) \in Nat
      /\ \A i \in 1..Len(u) : w[i] = u[i]
      /\ \A i \in 1..Len(w) : i > Len(u) => w[i] = v[i - Len(u)]
      /\ DOMAIN w = 1..Len(w) /\ DOMAIN u = 1..Len(u) /\ DOMAIN v = 1..Len(v)
  BY <1>1
<1>3. ASSUME NEW i \in DOMAIN w, NEW j \in DOMAIN w, i < j PROVE w[i].turn # w[j].turn
  <2>1. CASE j <= Len(u)
    <3>1. i \in DOMAIN u /\ j \in DOMAIN u /\ i # j /\ w[i] = u[i] /\ w[j] = u[j]
      BY <1>2, <1>3, <2>1
    <3>. QED BY <3>1 DEF Apart
  <2>2. CASE i <= Len(u) /\ j > Len(u)
    <3>1. i \in 1..Len(u) /\ j - Len(u) \in 1..Len(v) /\ w[i] = u[i] /\ w[j] = v[j - Len(u)]
      BY <1>2, <1>3, <2>2
    <3>. QED BY <3>1
  <2>3. CASE i > Len(u)
    <3>1. /\ i - Len(u) \in DOMAIN v /\ j - Len(u) \in DOMAIN v /\ i - Len(u) # j - Len(u)
          /\ w[i] = v[i - Len(u)] /\ w[j] = v[j - Len(u)]
      BY <1>2, <1>3, <2>3
    <3>. QED BY <3>1 DEF Apart
  <2>. QED BY <1>2, <1>3, <2>1, <2>2, <2>3
<1>4. \A i, j \in DOMAIN w : i # j => i < j \/ j < i
  BY <1>2
<1>. QED BY <1>1, <1>2, <1>3, <1>4 DEF Apart

\* What comes first of a list.
LEMMA FirstOnesAre ==
  ASSUME NEW E, NEW s \in Seq(E), NEW limit \in Nat
  PROVE  LET u == SubSeq(s, 1, Cut(Len(s), limit))
         IN  /\ u \in Seq(E) /\ Len(u) = Cut(Len(s), limit) /\ Len(u) <= limit /\ Len(u) <= Len(s)
             /\ \A i \in 1..Len(u) : u[i] = s[i]
             /\ Apart(s) => Apart(u)
<1>1. PICK n, u : n = Cut(Len(s), limit) /\ u = SubSeq(s, 1, n)
  OBVIOUS
<1>2. n \in Nat /\ n <= Len(s) /\ n <= limit /\ Len(s) \in Nat
  BY <1>1, CutIs
<1>3. u \in Seq(E) /\ Len(u) = n /\ \A i \in 1..n : u[i] = s[i]
  BY <1>1, <1>2
<1>4. DOMAIN u = 1..n /\ DOMAIN s = 1..Len(s) /\ 1..n \subseteq 1..Len(s)
  BY <1>2, <1>3
<1>5. Apart(s) => Apart(u)
  BY <1>3, <1>4 DEF Apart
<1>. QED BY <1>1, <1>2, <1>3, <1>5

\* A list of turns, the newest first of which is the head.
Listed(s, E) ==
  /\ s \in Seq(E) /\ Apart(s)
  /\ \A i \in DOMAIN s : s[1].at >= s[i].at

\* Those of the scene first: the same turns, and the newest before them all.
LEMMA PreferredIs ==
  ASSUME NEW E, NEW s, Listed(s, E), NEW scene
  PROVE  /\ Listed(Preferred(s, scene), E) /\ Len(Preferred(s, scene)) <= MaxTurns
         /\ s # <<>> => Preferred(s, scene) # <<>> /\ Preferred(s, scene)[1] = s[1]
<1>0. s \in Seq(E) /\ MaxTurns \in Nat /\ MaxTurns >= 1
  BY HistoryAssumption DEF Listed
<1>1. CASE s = <<>>
  <2>1. Preferred(s, scene) = s /\ Len(s) = 0
    BY <1>1 DEF Preferred
  <2>. QED BY <1>0, <1>1, <2>1
<1>2. CASE s # <<>>
  <2>1. PICK rest : rest = Tail(s)
    OBVIOUS
  <2>2. /\ rest \in Seq(E) /\ Len(s) \in Nat /\ Len(rest) = Len(s) - 1 /\ 1 \in DOMAIN s
        /\ \A i \in 1..Len(rest) : rest[i] = s[i + 1] /\ i + 1 \in DOMAIN s /\ i + 1 # 1
        /\ DOMAIN rest = 1..Len(rest) /\ DOMAIN s = 1..Len(s) /\ Len(rest) \in Nat
    BY <1>0, <1>2, <2>1
  <2>3. PICK here, others : here = {turn \in All(rest) : turn.scene = scene}
                            /\ others = All(rest) \ here
    OBVIOUS
  <2>4. PICK u, v, h : u = Those(rest, here) /\ v = Those(rest, others) /\ h = <<s[1]>>
    OBVIOUS
  <2>5. PICK g : u \in Seq(E) /\ Picks(u, rest, here, g)
    BY <2>2, <2>4, ThoseIs
  <2>6. PICK k : v \in Seq(E) /\ Picks(v, rest, others, k)
    BY <2>2, <2>4, ThoseIs
  <2>7. Apart(rest)
    <3>. SUFFICES ASSUME NEW i \in DOMAIN rest, NEW j \in DOMAIN rest, i # j
                  PROVE  rest[i].turn # rest[j].turn
      BY DEF Apart
    <3>1. i + 1 # j + 1
      BY <2>2
    <3>. QED BY <2>2, <3>1 DEF Apart, Listed
  <2>8. Apart(u) /\ Apart(v)
    BY <2>2, <2>5, <2>6, <2>7, PartsStayApart
  <2>9. ASSUME NEW i \in 1..Len(u), NEW j \in 1..Len(v) PROVE u[i].turn # v[j].turn
    <3>1. g[i] \in DOMAIN rest /\ u[i] = rest[g[i]] /\ u[i] \in here
      BY <2>2, <2>5 DEF Picks
    <3>2. k[j] \in DOMAIN rest /\ v[j] = rest[k[j]] /\ v[j] \in others
      BY <2>2, <2>6 DEF Picks
    <3>3. g[i] # k[j]
      BY <2>3, <3>1, <3>2
    <3>. QED BY <2>7, <3>1, <3>2, <3>3 DEF Apart
  <2>10. u \o v \in Seq(E) /\ Apart(u \o v)
    BY <2>5, <2>6, <2>8, <2>9, BothStayApart
  <2>11. PICK w : w = u \o v
    OBVIOUS
  <2>12. ASSUME NEW j \in 1..Len(w) PROVE \E i \in DOMAIN rest : w[j] = rest[i]
    <3>1. /\ Len(w) = Len(u) + Len(v) /\ Len(u) \in Nat /\ Len(v) \in Nat
          /\ \A i \in 1..Len(u) : w[i] = u[i]
          /\ \A i \in 1..Len(w) : i > Len(u) => w[i] = v[i - Len(u)]
      BY <2>5, <2>6, <2>11
    <3>2. CASE j <= Len(u)
      <4>1. j \in 1..Len(u) /\ w[j] = u[j]
        BY <3>1, <3>2
      <4>. QED BY <2>2, <2>5, <4>1 DEF Picks
    <3>3. CASE j > Len(u)
      <4>1. j - Len(u) \in 1..Len(v) /\ w[j] = v[j - Len(u)]
        BY <3>1, <3>3
      <4>. QED BY <2>2, <2>6, <4>1 DEF Picks
    <3>. QED BY <3>1, <3>2, <3>3
  <2>13. h \in Seq(E) /\ Len(h) = 1 /\ h[1] = s[1] /\ Apart(h)
    <3>1. s[1] \in E
      BY <1>0, <2>2
    <3>2. h \in Seq(E) /\ Len(h) = 1 /\ h[1] = s[1] /\ DOMAIN h = {1}
      BY <2>4, <3>1
    <3>. QED BY <3>2 DEF Apart
  <2>14. ASSUME NEW i \in 1..Len(h), NEW j \in 1..Len(w) PROVE h[i].turn # w[j].turn
    <3>1. PICK n \in DOMAIN rest : w[j] = rest[n]
      BY <2>12
    <3>2. n + 1 \in DOMAIN s /\ n + 1 # 1 /\ w[j] = s[n + 1] /\ 1 \in DOMAIN s
      BY <2>2, <3>1
    <3>3. i = 1
      BY <2>13
    <3>. QED BY <2>13, <3>2, <3>3 DEF Apart, Listed
  <2>15. PICK all : all = h \o w
    OBVIOUS
  <2>16. all \in Seq(E) /\ Apart(all)
    BY <2>10, <2>11, <2>13, <2>14, <2>15, BothStayApart
  <2>17. /\ Len(all) = 1 + Len(w) /\ Len(w) \in Nat /\ all[1] = s[1]
         /\ \A i \in 1..Len(all) : i # 1 => i - 1 \in 1..Len(w) /\ all[i] = w[i - 1]
    <3>1. w \in Seq(E) /\ h \in Seq(E) /\ Len(h) = 1 /\ h[1] = s[1]
      BY <2>10, <2>11, <2>13
    <3>a. /\ Len(all) = Len(h) + Len(w) /\ Len(w) \in Nat
          /\ \A i \in 1..Len(h) : all[i] = h[i]
          /\ \A i \in 1..Len(all) : i > Len(h) => all[i] = w[i - Len(h)]
      BY <2>15, <3>1, BothAre
    <3>2. /\ Len(all) = 1 + Len(w) /\ Len(w) \in Nat
          /\ \A i \in 1..Len(all) : all[i] = IF i <= 1 THEN h[i] ELSE w[i - 1]
      BY <3>1, <3>a
    <3>3. 1 \in 1..Len(all)
      BY <3>2
    <3>4. ASSUME NEW i \in 1..Len(all), i # 1 PROVE i - 1 \in 1..Len(w) /\ all[i] = w[i - 1]
      BY <3>2, <3>4
    <3>. QED BY <3>1, <3>2, <3>3, <3>4
  <2>18. PICK p : p = SubSeq(all, 1, Cut(Len(all), MaxTurns))
    OBVIOUS
  <2>19. Preferred(s, scene) = p
    <3>1. all = <<Head(s)>> \o Those(rest, here) \o Those(rest, others)
      <4>1. Head(s) = s[1]
        BY <1>0, <1>2
      <4>2. PICK a, b, c \in Seq(E) : a = h /\ b = u /\ c = v
        BY <2>5, <2>6, <2>13
      <4>3. a \o (b \o c) = (a \o b) \o c
        OBVIOUS
      <4>. QED BY <2>4, <2>11, <2>15, <4>1, <4>2, <4>3
    <3>. QED BY <1>2, <2>1, <2>3, <2>18, <3>1 DEF Preferred
  <2>20. /\ p \in Seq(E) /\ Len(p) = Cut(Len(all), MaxTurns) /\ Len(p) <= MaxTurns
         /\ Len(p) <= Len(all) /\ \A i \in 1..Len(p) : p[i] = all[i]
         /\ Apart(p)
    BY <1>0, <2>16, <2>18, FirstOnesAre
  <2>21. Len(p) \in Nat /\ Len(p) >= 1 /\ p # <<>> /\ p[1] = s[1] /\ DOMAIN p = 1..Len(p)
    BY <1>0, <2>17, <2>20 DEF Cut
  <2>22. ASSUME NEW i \in DOMAIN p PROVE p[1].at >= p[i].at
    <3>1. CASE i = 1
      <4>1. s[1].at >= s[1].at
        BY <2>2 DEF Listed
      <4>. QED BY <2>21, <3>1, <4>1
    <3>2. CASE i # 1
      <4>1. i \in 1..Len(p) /\ i \in 1..Len(all)
        BY <2>17, <2>20, <2>21
      <4>2. i - 1 \in 1..Len(w) /\ p[i] = w[i - 1]
        BY <2>17, <2>20, <3>2, <4>1
      <4>3. PICK n \in DOMAIN rest : w[i - 1] = rest[n]
        BY <2>12, <4>2
      <4>4. n + 1 \in DOMAIN s /\ p[i] = s[n + 1]
        BY <2>2, <4>2, <4>3
      <4>. QED BY <2>21, <4>4 DEF Listed
    <3>. QED BY <3>1, <3>2
  <2>. QED BY <2>19, <2>20, <2>21, <2>22 DEF Listed
<1>. QED BY <1>1, <1>2

-----------------------------------------------------------------------------
(* How they are shortened.                                                 *)

\* A list that gives up its oldest is short enough or down to its newest.
LEMMA ShortenedIs ==
  ASSUME NEW E, NEW s, Listed(s, E), s # <<>>, \A turn \in E : turn.at \in Nat
  PROVE  LET u == Shortened(s)
         IN  /\ u \in Seq(E) /\ Apart(u) /\ u # <<>> /\ u[1] = s[1] /\ Len(u) <= Len(s)
             /\ Len(u) = 1 \/ CharsOf(u) <= MaxChars
<1>. DEFINE From(k) == Those(s, {turn \in All(s) : turn.at >= k})
            fits == {k \in {turn.at : turn \in All(s)} : CharsOf(From(k)) <= MaxChars}
<1>1. /\ s \in Seq(E) /\ Len(s) \in Nat /\ DOMAIN s = 1..Len(s) /\ 1 \in DOMAIN s /\ Head(s) = s[1]
      /\ \A turn \in All(s) : turn \in E /\ turn.at \in Nat /\ s[1].at >= turn.at
  BY DEF Listed, All
<1>2. CASE fits = {}
  <2>1. PICK u : u = <<s[1]>>
    OBVIOUS
  <2>2. Shortened(s) = u
    BY <1>1, <1>2, <2>1 DEF Shortened
  <2>3. s[1] \in E
    BY <1>1
  <2>4. u \in Seq(E) /\ Len(u) = 1 /\ u[1] = s[1] /\ u # <<>> /\ DOMAIN u = {1}
    BY ONLY <2>1, <2>3
  <2>5. Apart(u) /\ Len(u) <= Len(s)
    BY <1>1, <2>4 DEF Apart
  <2>. QED BY <2>2, <2>4, <2>5
<1>3. CASE fits # {}
  <2>1. fits \in SUBSET Nat
    BY <1>1
  <2>2. PICK k : k = CHOOSE n \in fits : \A j \in fits : n <= j
    OBVIOUS
  <2>3. k \in fits
    <3>. HIDE DEF fits
    <3>1. \E n \in fits : \A m \in fits : n <= m
      BY <1>3, <2>1, SmallestNumber
    <3>. QED BY <2>2, <3>1
  <2>4. PICK u : u = From(k)
    OBVIOUS
  <2>5. Shortened(s) = u
    BY <1>3, <2>2, <2>4 DEF Shortened
  <2>6. CharsOf(u) <= MaxChars
    BY <2>3, <2>4
  <2>7. \E turn \in All(s) : k = turn.at
    BY <2>3
  <2>8. s[1] \in {turn \in All(s) : turn.at >= k}
    <3>1. s[1] \in All(s)
      BY <1>1 DEF All
    <3>. QED BY <1>1, <2>7, <3>1
  <2>9. /\ u \in Seq(E) /\ Len(u) <= Len(s) /\ u # <<>> /\ u[1] = s[1]
        /\ \E g : Picks(u, s, {turn \in All(s) : turn.at >= k}, g)
    <3>. HIDE DEF fits
    <3>. QED BY <1>1, <2>4, <2>8, ThoseIs
  <2>10. Apart(u)
    BY <1>1, <2>9, PartsStayApart DEF Listed
  <2>. QED BY <2>5, <2>6, <2>9, <2>10
<1>. QED BY <1>2, <1>3

\* What is left of one turn is short enough, and tells no more of it.
LEMMA ShrunkIs ==
  ASSUME NEW x, NEW viewer, NEW current, MayBeTold(x, viewer, current),
         x = [turn |-> x.turn, at |-> x.at, scene |-> x.scene, utterance |-> x.utterance,
              intent |-> x.intent, facts |-> x.facts, narration |-> x.narration,
              private |-> x.private]
  PROVE  /\ MayBeTold(Shrunk(x), viewer, current) /\ Shrunk(x).at = x.at
         /\ Chars(Shrunk(x)) \in Nat /\ Chars(Shrunk(x)) <= MaxChars
<1>0. MaxChars \in Nat /\ MaxChars >= 2
  BY HistoryAssumption
<1>1. x.utterance \in Nat /\ x.intent \in Nat /\ x.facts \in Nat /\ x.narration \in Nat
  BY DEF MayBeTold
<1>2. PICK bare : bare = [x EXCEPT !.intent = 0, !.facts = 0]
  OBVIOUS
<1>3. /\ bare.turn = x.turn /\ bare.at = x.at /\ bare.private = x.private /\ bare.intent = 0
      /\ bare.facts = 0 /\ bare.utterance = x.utterance /\ bare.narration = x.narration
      /\ bare = [turn |-> bare.turn, at |-> bare.at, scene |-> bare.scene,
                 utterance |-> bare.utterance, intent |-> bare.intent, facts |-> bare.facts,
                 narration |-> bare.narration, private |-> bare.private]
  BY <1>2
<1>4. Chars(bare) = x.utterance + x.narration
  BY <1>1, <1>3 DEF Chars
<1>5. CASE Chars(x) <= MaxChars
  <2>1. Shrunk(x) = x
    BY <1>5 DEF Shrunk
  <2>2. Chars(x) \in Nat
    BY <1>1 DEF Chars
  <2>. QED BY <1>5, <2>1, <2>2
<1>6. CASE ~(Chars(x) <= MaxChars) /\ Chars(bare) <= MaxChars
  <2>1. Shrunk(x) = bare
    BY <1>2, <1>6 DEF Shrunk
  <2>2. Chars(bare) \in Nat
    BY <1>1, <1>4
  <2>3. MayBeTold(bare, viewer, current)
    BY <1>1, <1>3 DEF MayBeTold
  <2>. QED BY <1>3, <1>6, <2>1, <2>2, <2>3
<1>7. CASE ~(Chars(x) <= MaxChars) /\ ~(Chars(bare) <= MaxChars)
  <2>1. PICK overflow, tells, kept :
          /\ overflow = Chars(bare) - MaxChars
          /\ tells = (IF bare.narration > overflow THEN bare.narration - overflow
                     ELSE IF bare.narration > 0 THEN 1 ELSE 0)
          /\ kept = UtteranceKept(bare)
    OBVIOUS
  <2>2. PICK y : y = [bare EXCEPT !.narration = tells, !.utterance = kept]
    OBVIOUS
  <2>3. Shrunk(x) = y
    BY <1>2, <1>7, <2>1, <2>2 DEF Shrunk
  <2>4. /\ y.turn = x.turn /\ y.at = x.at /\ y.private = x.private /\ y.intent = 0
        /\ y.facts = 0 /\ y.utterance = kept /\ y.narration = tells
    BY <1>3, <2>2
  <2>5. kept = IF x.utterance + (IF x.narration > 0 THEN 1 ELSE 0) > MaxChars
               THEN MaxChars - (IF x.narration > 0 THEN 1 ELSE 0) ELSE x.utterance
    BY <1>3, <2>1 DEF UtteranceKept
  <2>6. /\ tells \in Nat /\ kept \in Nat /\ tells + kept <= MaxChars /\ (tells > 0 => x.narration > 0)
    BY <1>0, <1>1, <1>3, <1>4, <1>7, <2>1, <2>5
  <2>7. Chars(y) = kept + tells
    BY <2>4, <2>6 DEF Chars
  <2>8. MayBeTold(y, viewer, current)
    BY <2>4, <2>6 DEF MayBeTold
  <2>. QED BY <2>3, <2>4, <2>6, <2>7, <2>8
<1>. QED BY <1>5, <1>6, <1>7

\* Whatever was said and done before a turn: what is read for it is safe.
LEMMA ReadIsSafe ==
  ASSUME HistoryInv, NEW viewer, NEW scene, NEW current
  PROVE  LET turns == Recent(viewer, current, scene)
             found == Candidates(viewer, current)
         IN  /\ \E E : turns \in Seq(E) /\ \A x \in E : MayBeTold(x, viewer, current)
             /\ Apart(turns) /\ Len(turns) <= MaxTurns /\ CharsOf(turns) <= MaxChars
             /\ found # <<>> => turns # <<>> /\ turns[Len(turns)].at = Head(found)
<1>1. PICK cutoff, F : cutoff = CutoffOf(current) /\ F = Found(viewer, current)
  OBVIOUS
<1>2. /\ cutoff \in Nat \ {0} /\ 1..cutoff - 1 \subseteq DOMAIN events
      /\ F \in SUBSET (0..cutoff - 1) /\ cutoff - 1 \in Nat /\ \A n \in F : n \in Nat
  <2>1. cutoff \in Nat \ {0} /\ 1..cutoff - 1 \subseteq DOMAIN events
    BY <1>1, CutoffIs
  <2>2. \A n \in F : n \in 1..cutoff - 1
    BY <1>1 DEF Found
  <2>. QED BY <2>1, <2>2
<1>0. MaxChars \in Nat /\ MaxChars >= 2 /\ MaxTurns \in Nat /\ MaxTurns >= 1 /\ CandidateLimit \in Nat
  BY HistoryAssumption
<1>3. PICK q : q = Descending(F)
  OBVIOUS
<1>4. /\ q \in Seq(F) /\ Len(q) \in Nat /\ DOMAIN q = 1..Len(q)
      /\ \A i, j \in DOMAIN q : i < j => q[i] > q[j]
  BY <1>2, <1>3, DescendingIs DEF Descends
<1>5. PICK found : found = Candidates(viewer, current)
  OBVIOUS
<1>6. found = SubSeq(q, 1, Cut(Len(q), CandidateLimit))
  BY <1>1, <1>3, <1>5 DEF Candidates, Found
<1>7. /\ found \in Seq(F) /\ Len(found) <= Len(q) /\ \A i \in 1..Len(found) : found[i] = q[i]
  BY <1>0, <1>4, <1>6, FirstOnesAre
<1>8. /\ Len(found) \in Nat /\ DOMAIN found = 1..Len(found) /\ 1..Len(found) \subseteq 1..Len(q)
      /\ \A i \in DOMAIN found : found[i] \in F
  BY <1>4, <1>7
<1>9. \A i, j \in DOMAIN found : i < j => found[i] > found[j]
  BY <1>4, <1>7, <1>8
<1>10. PICK tells : tells = [i \in DOMAIN found |-> Projected(viewer, found[i], cutoff)]
  OBVIOUS
<1>11. PICK E : E = {Projected(viewer, i, cutoff) : i \in F}
  OBVIOUS
<1>12. \A x \in E : /\ MayBeTold(x, viewer, current) /\ x.at \in Nat
                    /\ x = [turn |-> x.turn, at |-> x.at, scene |-> x.scene,
                            utterance |-> x.utterance, intent |-> x.intent, facts |-> x.facts,
                            narration |-> x.narration, private |-> x.private]
  <2>1. ASSUME NEW i \in F PROVE MayBeTold(Projected(viewer, i, cutoff), viewer, current)
                                 /\ Projected(viewer, i, cutoff).at \in Nat
    BY <1>1, <1>2, ProjectedIsSafe
  <2>2. ASSUME NEW i \in F, NEW x, x = Projected(viewer, i, cutoff)
        PROVE  x = [turn |-> x.turn, at |-> x.at, scene |-> x.scene,
                    utterance |-> x.utterance, intent |-> x.intent, facts |-> x.facts,
                    narration |-> x.narration, private |-> x.private]
    BY <2>2 DEF Projected
  <2>. QED BY <1>11, <2>1, <2>2
<1>13. /\ tells \in Seq(E) /\ Len(tells) = Len(found) /\ DOMAIN tells = 1..Len(found)
       /\ \A i \in 1..Len(found) : tells[i] \in E /\ tells[i].at = found[i]
                                   /\ tells[i].turn = events[found[i]].turn
                                   /\ found[i] \in F
  <2>1. tells \in [1..Len(found) -> E]
    BY <1>8, <1>10, <1>11
  <2>2. tells \in Seq(E) /\ Len(tells) = Len(found) /\ DOMAIN tells = 1..Len(found)
    BY ONLY <1>8, <2>1
  <2>3. ASSUME NEW i \in 1..Len(found)
        PROVE  tells[i] \in E /\ tells[i].at = found[i] /\ tells[i].turn = events[found[i]].turn
               /\ found[i] \in F
    <3>1. found[i] \in F /\ tells[i] = Projected(viewer, found[i], cutoff) /\ tells[i] \in E
      BY <1>8, <1>10, <2>1
    <3>2. tells[i].at = found[i]
      BY <1>1, <3>1, ProjectedIsSafe
    <3>3. tells[i].turn = events[tells[i].at].turn
      BY <1>12, <3>1 DEF MayBeTold
    <3>. QED BY <3>1, <3>2, <3>3
  <2>. QED BY <2>2, <2>3
<1>14. Apart(tells)
  <2>. SUFFICES ASSUME NEW i \in 1..Len(found), NEW j \in 1..Len(found), i # j,
                       tells[i].turn = tells[j].turn
                PROVE  FALSE
    BY <1>13 DEF Apart
  <2>1. found[i] \in F /\ found[j] \in F /\ events[found[i]].turn = events[found[j]].turn
    BY <1>13
  <2>2. found[i] = found[j]
    BY <1>1, <1>2, <2>1 DEF HistoryInv, Found
  <2>3. i < j \/ j < i
    BY <1>8
  <2>4. found[i] > found[j] \/ found[j] > found[i]
    BY <1>8, <1>9, <2>3
  <2>5. found[i] \in Nat
    BY <1>2, <2>1
  <2>. QED BY <2>2, <2>4, <2>5
<1>15. Listed(tells, E)
  <2>1. ASSUME NEW i \in DOMAIN tells PROVE tells[1].at >= tells[i].at
    <3>1. i \in 1..Len(found) /\ 1 \in 1..Len(found) /\ i >= 1
      BY <1>8, <1>13
    <3>2. found[1] \in Nat /\ found[i] \in Nat
      BY <1>2, <1>13, <3>1
    <3>3. i = 1 \/ found[1] > found[i]
      BY <1>8, <1>9, <3>1
    <3>. QED BY <1>13, <3>1, <3>2, <3>3
  <2>. QED BY <1>13, <1>14, <2>1 DEF Listed
<1>16. PICK turns : turns = Recent(viewer, current, scene)
  OBVIOUS
<1>17. turns = Selected(tells, scene)
  BY <1>1, <1>5, <1>10, <1>16 DEF Recent
<1>18. \A x \in E : Chars(x) \in Nat
  BY <1>12 DEF MayBeTold, Chars
<1>19. CASE tells = <<>>
  <2>1. turns = [i \in DOMAIN <<>> |-> <<>>[Len(<<>>) - i + 1]]
    BY <1>17, <1>19 DEF Selected
  <2>2. turns = <<>>
    BY <2>1
  <2>3. <<>> \in Seq(E) /\ Len(<<>>) = 0 /\ DOMAIN <<>> = {}
    OBVIOUS
  <2>4. CharsOf(<<>>) = 0
    <3>1. PICK s : s = <<>>
      OBVIOUS
    <3>2. s \in Seq(E) /\ Len(s) = 0
      BY <2>3, <3>1
    <3>3. \E f : Counts(s, f) /\ CharsOf(s) = f[Len(s)]
      BY <1>18, <3>2, CharsAre
    <3>. QED BY <3>1, <3>2, <3>3 DEF Counts
  <2>5. found = <<>>
    <3>1. Len(found) = 0
      BY <1>13, <1>19
    <3>. QED BY <1>7, <3>1
  <2>6. \E D : turns \in Seq(D) /\ \A x \in D : MayBeTold(x, viewer, current)
    BY <1>12, <2>2, <2>3
  <2>7. Apart(turns) /\ Len(turns) <= MaxTurns /\ CharsOf(turns) <= MaxChars
    BY <1>0, <2>2, <2>3, <2>4 DEF Apart
  <2>. QED BY <1>5, <1>16, <2>5, <2>6, <2>7
<1>20. CASE tells # <<>>
  <2>1. PICK p : p = Preferred(tells, scene)
    OBVIOUS
  <2>2. Listed(p, E) /\ Len(p) <= MaxTurns /\ p # <<>> /\ p[1] = tells[1]
    BY <1>15, <1>20, <2>1, PreferredIs
  <2>3. PICK kept : kept = Shortened(p)
    OBVIOUS
  <2>4. /\ kept \in Seq(E) /\ Apart(kept) /\ kept # <<>> /\ kept[1] = tells[1] /\ Len(kept) <= Len(p)
        /\ Len(kept) = 1 \/ CharsOf(kept) <= MaxChars
    BY <1>12, <2>2, <2>3, ShortenedIs
  <2>5. Len(kept) \in Nat /\ Len(kept) >= 1 /\ Len(kept) <= MaxTurns /\ Len(p) \in Nat
        /\ DOMAIN kept = 1..Len(kept)
    <3>1. p \in Seq(E)
      BY <2>2 DEF Listed
    <3>2. Len(p) \in Nat
      BY <3>1
    <3>3. Len(kept) \in Nat /\ Len(kept) >= 1 /\ DOMAIN kept = 1..Len(kept)
      BY ONLY <2>4
    <3>. QED BY <1>0, <2>2, <2>4, <3>2, <3>3
  <2>6. turns = IF Len(kept) = 1 THEN <<Shrunk(kept[1])>> ELSE Reversed(kept)
    BY <1>17, <1>20, <2>1, <2>3 DEF Selected, Reversed
  <2>7. found # <<>> /\ tells[1].at = Head(found)
    <3>1. Len(found) # 0
      BY <1>13, <1>20
    <3>2. 1 \in 1..Len(found) /\ Head(found) = found[1] /\ found # <<>>
      BY <1>7, <1>8, <3>1
    <3>. QED BY <1>13, <3>2
  <2>8. CASE Len(kept) = 1
    <3>1. PICK x, y : x = kept[1] /\ y = Shrunk(x)
      OBVIOUS
    <3>2. x \in E
      BY <2>4, <2>5, <3>1
    <3>3. MayBeTold(y, viewer, current) /\ y.at = x.at /\ Chars(y) \in Nat /\ Chars(y) <= MaxChars
      BY <1>12, <3>1, <3>2, ShrunkIs
    <3>4. turns = <<y>>
      BY <2>6, <2>8, <3>1
    <3>5. turns \in Seq({y}) /\ Len(turns) = 1 /\ turns[1] = y /\ DOMAIN turns = {1} /\ turns # <<>>
      BY <3>4
    <3>6. CharsOf(turns) <= MaxChars
      BY <3>3, <3>4, CharsOfOne
    <3>7. Apart(turns)
      BY <3>5 DEF Apart
    <3>8. \E D : turns \in Seq(D) /\ \A z \in D : MayBeTold(z, viewer, current)
      BY <3>3, <3>5
    <3>9. turns[Len(turns)].at = Head(found)
      BY <2>4, <2>7, <3>1, <3>3, <3>5
    <3>. QED BY <1>0, <1>5, <1>16, <3>5, <3>6, <3>7, <3>8, <3>9
  <2>9. CASE Len(kept) # 1
    <3>1. /\ turns = Reversed(kept) /\ turns \in Seq(E) /\ Len(turns) = Len(kept)
          /\ \A i \in 1..Len(kept) : Len(kept) - i + 1 \in 1..Len(kept)
                                     /\ turns[i] = kept[Len(kept) - i + 1]
      BY <2>4, <2>6, <2>9, ReversedIs
    <3>2. CharsOf(turns) <= MaxChars
      BY <1>18, <2>4, <2>9, <3>1, ReversedIsAsLong
    <3>3. DOMAIN turns = 1..Len(kept) /\ turns # <<>>
      BY <2>5, <3>1
    <3>4. Apart(turns)
      <4>. SUFFICES ASSUME NEW i \in 1..Len(kept), NEW j \in 1..Len(kept), i # j
                    PROVE  turns[i].turn # turns[j].turn
        BY <3>3 DEF Apart
      <4>1. PICK m, n : m = Len(kept) - i + 1 /\ n = Len(kept) - j + 1
        OBVIOUS
      <4>2. m \in DOMAIN kept /\ n \in DOMAIN kept /\ m # n /\ turns[i] = kept[m] /\ turns[j] = kept[n]
        BY <2>5, <3>1, <4>1
      <4>. QED BY <2>4, <4>2 DEF Apart
    <3>5. turns[Len(turns)].at = Head(found)
      <4>1. Len(kept) \in 1..Len(kept) /\ Len(kept) - Len(kept) + 1 = 1
        BY <2>5
      <4>2. turns[Len(kept)] = kept[1]
        BY <3>1, <4>1
      <4>. QED BY <2>4, <2>7, <3>1, <4>2
    <3>. QED BY <1>5, <1>12, <1>16, <2>5, <3>1, <3>2, <3>3, <3>4, <3>5
  <2>. QED BY <2>8, <2>9
<1>. QED BY <1>19, <1>20

\* What the history holds is safe to be told.
LEMMA HistoryIsSafe == HistoryInv => RecentIsSafe
<1>. SUFFICES ASSUME HistoryInv, NEW viewer \in Viewers, NEW scene \in Scenes,
                     NEW current \in TurnsOf[viewer]
              PROVE  LET turns  == Recent(viewer, current, scene)
                         cutoff == CutoffOf(current)
                     IN  /\ ~TurnFails(viewer, turns)
                         /\ \A i \in DOMAIN turns :
                              /\ turns[i].turn # current /\ turns[i].at < cutoff
                              /\ turns[i].narration > 0 =>
                                   \E n \in 1..cutoff - 1 : events[n].turn = turns[i].turn
                                                            /\ events[n].type = "narration.push"
                              /\ \A j \in DOMAIN turns : i # j => turns[i].turn # turns[j].turn
                         /\ Len(turns) <= MaxTurns /\ CharsOf(turns) <= MaxChars
                         /\ LET found == Candidates(viewer, current)
                            IN  found # <<>> => turns # <<>> /\ turns[Len(turns)].at = Head(found)
  BY Zenon DEF RecentIsSafe
<1>1. PICK turns, cutoff, found : /\ turns = Recent(viewer, current, scene)
                                  /\ cutoff = CutoffOf(current)
                                  /\ found = Candidates(viewer, current)
  OBVIOUS
<1>2. /\ \E E : turns \in Seq(E) /\ \A x \in E : MayBeTold(x, viewer, current)
      /\ Apart(turns) /\ Len(turns) <= MaxTurns /\ CharsOf(turns) <= MaxChars
      /\ found # <<>> => turns # <<>> /\ turns[Len(turns)].at = Head(found)
  BY <1>1, ReadIsSafe
<1>3. \A i \in DOMAIN turns : MayBeTold(turns[i], viewer, current)
  <2>1. PICK E : turns \in Seq(E) /\ \A x \in E : MayBeTold(x, viewer, current)
    BY <1>2
  <2>2. \A i \in DOMAIN turns : turns[i] \in E
    BY <2>1
  <2>. QED BY <2>1, <2>2
<1>4. ~TurnFails(viewer, turns)
  BY <1>3 DEF TurnFails, IsValidFor, MayBeTold
<1>5. ASSUME NEW i \in DOMAIN turns
      PROVE  /\ turns[i].turn # current /\ turns[i].at < cutoff
             /\ turns[i].narration > 0 =>
                  \E n \in 1..cutoff - 1 : events[n].turn = turns[i].turn
                                           /\ events[n].type = "narration.push"
  <2>1. MayBeTold(turns[i], viewer, current)
    BY <1>3
  <2>2. cutoff \in Nat
    BY <1>1, CutoffIs
  <2>. QED BY <1>1, <2>1, <2>2 DEF MayBeTold, Found
<1>. QED BY <1>1, <1>2, <1>4, <1>5 DEF Apart

-----------------------------------------------------------------------------
(* What the players say to each other.                                     *)

LinesSent == {0} \cup UNION {Lines[s] : s \in ChatSockets}

Message == [stamp : Nat, line : LinesSent]

InRow(p) == \A i, j \in DOMAIN p : i < j => p[i] > p[j]

\* Messages and stamps: who was given a stamp, and who has it.
StampsAreOwn ==
  /\ \A m \in heardChat : m.stamp \in 1..stamp
  /\ \A m, n \in heardChat : m.stamp = n.stamp => m = n
  /\ \A s \in ChatSockets : sending[s].at = "inserted" =>
       /\ sending[s].stamp \in 1..stamp
       /\ \A m \in heardChat : m.stamp # sending[s].stamp
       /\ \A t \in ChatSockets \ {s} : sending[t].at = "inserted" => sending[t].stamp # sending[s].stamp

\* A reader has pages of messages that were told; what was there when it began is there
\* still, or its last message is not.
PagesFit ==
  /\ pages \in Seq(Nat) /\ InRow(pages)
  /\ \A i \in DOMAIN pages : \E m \in heardChat : m.stamp = pages[i]
  /\ pages # <<>> =>
       /\ \A m \in there : m.stamp >= pages[Len(pages)] => \E i \in DOMAIN pages : pages[i] = m.stamp
       /\ there \subseteq chat \/ \A m \in chat : m.stamp # pages[Len(pages)]

ChatInv ==
  /\ stamp \in Nat /\ heardChat \subseteq Message /\ chat \subseteq heardChat /\ there \subseteq heardChat
  /\ sending \in [ChatSockets -> [at : {"listening", "read", "inserted"}, line : LinesSent, stamp : Nat]]
  /\ ~over => chat = heardChat /\ \A m, n \in heardChat : m.line = n.line => m = n
  /\ StampsAreOwn
  /\ PagesFit

\* The messages before an anchor.
Older(anchor) ==
  IF anchor = 0 THEN chat
  ELSE {m \in chat : IsBefore(m, anchor) /\ \E a \in chat : a.stamp = anchor}

\* The first n elements of a sequence.
LEMMA FirstOnesOf ==
  ASSUME NEW S, NEW q \in Seq(S), NEW n \in Nat, n <= Len(q)
  PROVE  SubSeq(q, 1, n) \in Seq(S) /\ Len(SubSeq(q, 1, n)) = n /\ \A i \in 1..n : SubSeq(q, 1, n)[i] = q[i]
OBVIOUS

\* A sequence over a set is one over every larger set.
LEMMA LargerKind ==
  ASSUME NEW S, NEW E, S \subseteq E, NEW q \in Seq(S)
  PROVE  q \in Seq(E)
<1>1. Len(q) \in Nat /\ q \in [1..Len(q) -> S]
  OBVIOUS
<1>2. q \in [1..Len(q) -> E]
  BY <1>1
<1>. QED BY <1>1, <1>2

\* A page is the newest of them, and leaves out none that is newer than its last.
LEMMA PageIs ==
  ASSUME ChatInv, NEW anchor
  PROVE  /\ Page(anchor) \in Seq(Nat) /\ InRow(Page(anchor))
         /\ \A i \in DOMAIN Page(anchor) : \E m \in Older(anchor) : m.stamp = Page(anchor)[i]
         /\ Page(anchor) # <<>> =>
              \A m \in Older(anchor) : m.stamp >= Page(anchor)[Len(Page(anchor))] =>
                \E i \in DOMAIN Page(anchor) : Page(anchor)[i] = m.stamp
<1>1. PICK S : S = {m.stamp : m \in Older(anchor)}
  OBVIOUS
<1>2. S \in SUBSET (0..stamp) /\ stamp \in Nat /\ S \subseteq Nat
  <2>1. \A m \in Older(anchor) : m.stamp \in 1..stamp
    BY DEF ChatInv, StampsAreOwn, Older
  <2>2. stamp \in Nat
    BY DEF ChatInv
  <2>. QED BY <1>1, <2>1, <2>2
<1>3. PICK q : q = Descending(S)
  OBVIOUS
<1>4. /\ q \in Seq(S) /\ {q[i] : i \in DOMAIN q} = S /\ InRow(q)
      /\ Len(q) \in Nat /\ DOMAIN q = 1..Len(q)
  <2>1. q \in Seq(S) /\ Descends(q, S)
    BY <1>2, <1>3, DescendingIs
  <2>2. {q[i] : i \in DOMAIN q} = S /\ \A i, j \in DOMAIN q : i < j => q[i] > q[j]
    BY <2>1, Zenon DEF Descends
  <2>3. Len(q) \in Nat /\ DOMAIN q = 1..Len(q)
    BY ONLY <2>1
  <2>. QED BY <2>1, <2>2, <2>3, Zenon DEF InRow
<1>5. PICK n, p : n = (IF Len(q) < PageLimit THEN Len(q) ELSE PageLimit) /\ p = SubSeq(q, 1, n)
  OBVIOUS
<1>6. Page(anchor) = p
  BY <1>1, <1>3, <1>5 DEF Page, Older
<1>7. n \in Nat /\ n <= Len(q)
  BY <1>4, <1>5, ChatAssumption
<1>8. p \in Seq(S) /\ Len(p) = n /\ DOMAIN p = 1..n /\ \A i \in 1..n : p[i] = q[i] /\ i \in DOMAIN q
  <2>1. q \in Seq(S) /\ DOMAIN q = 1..Len(q) /\ Len(q) \in Nat
    BY <1>4
  <2>2. p \in Seq(S) /\ Len(p) = n /\ \A i \in 1..n : p[i] = q[i]
    <3>1. p = SubSeq(q, 1, n)
      BY <1>5
    <3>. QED BY ONLY <1>7, <2>1, <3>1, FirstOnesOf
  <2>3. DOMAIN p = 1..n
    BY ONLY <2>2, <1>7
  <2>4. \A i \in 1..n : i \in DOMAIN q
    BY ONLY <1>7, <2>1
  <2>. QED BY <2>2, <2>3, <2>4
<1>9. p \in Seq(Nat) /\ InRow(p)
  <2>1. p \in Seq(Nat)
    BY <1>2, <1>8, LargerKind
  <2>. QED BY <1>4, <1>8, <2>1 DEF InRow
<1>10. \A i \in DOMAIN p : p[i] \in S
  BY <1>4, <1>8
<1>11. ASSUME p # <<>>, NEW m \in Older(anchor), m.stamp >= p[Len(p)]
       PROVE  \E i \in DOMAIN p : p[i] = m.stamp
  <2>1. n \in 1..n /\ p[n] = q[n] /\ n \in DOMAIN q
    <3>1. n # 0
      BY <1>8, <1>11
    <3>. QED BY <1>7, <1>8, <3>1
  <2>2. PICK j \in DOMAIN q : q[j] = m.stamp
    <3>1. m.stamp \in S
      BY <1>1, <1>11
    <3>. QED BY <1>4, <3>1
  <2>3. CASE j <= n
    <3>1. j \in 1..n
      BY <1>4, <1>7, <2>3
    <3>. QED BY <1>8, <2>2, <3>1
  <2>4. CASE j > n
    <3>1. q[n] > q[j]
      BY <1>4, <2>1, <2>4 DEF InRow
    <3>2. q[n] \in Nat /\ q[j] \in Nat
      BY <1>2, <1>4, <2>1
    <3>3. q[j] >= q[n]
      BY <1>8, <1>11, <2>1, <2>2
    <3>. QED BY <3>1, <3>2, <3>3
  <2>. QED BY <1>4, <1>7, <2>3, <2>4
<1>. QED BY <1>1, <1>6, <1>9, <1>10, <1>11

\* The room begins with nothing said.
LEMMA ChatStarts == ChatInit => ChatInv
<1>. SUFFICES ASSUME ChatInit PROVE ChatInv
  OBVIOUS
<1>1. \A s \in ChatSockets : sending[s].at = "listening"
  BY DEF ChatInit, NotSending
<1>2. sending \in [ChatSockets -> [at : {"listening", "read", "inserted"}, line : LinesSent, stamp : Nat]]
  BY DEF ChatInit, NotSending, LinesSent
<1>3. pages = <<>> /\ pages \in Seq(Nat) /\ DOMAIN pages = {}
  BY DEF ChatInit
<1>4. PagesFit
  BY <1>3 DEF PagesFit, InRow
<1>. QED BY <1>1, <1>2, <1>4 DEF ChatInit, ChatInv, StampsAreOwn

\* A message is given a stamp of its own.
LEMMA InsertKeeps == ASSUME ChatInv, NEW s \in ChatSockets, InsertMessage(s) PROVE ChatInv'
<1>1. /\ stamp' = stamp + 1 /\ stamp \in Nat /\ stamp' \in Nat
      /\ sending' = [sending EXCEPT ![s].at = "inserted", ![s].stamp = stamp + 1]
      /\ UNCHANGED <<chat, over, heardChat, pages, there>>
  BY DEF ChatInv, InsertMessage
<1>2. sending' \in [ChatSockets -> [at : {"listening", "read", "inserted"}, line : LinesSent, stamp : Nat]]
  BY <1>1 DEF ChatInv
<1>3. /\ sending'[s].stamp = stamp + 1
      /\ \A t \in ChatSockets \ {s} : sending'[t] = sending[t]
  BY <1>1 DEF ChatInv
<1>4. \A m \in heardChat : m.stamp \in 1..stamp /\ m.stamp # stamp + 1 /\ m.stamp \in 1..stamp'
  BY <1>1 DEF ChatInv, StampsAreOwn
<1>5. \A t \in ChatSockets \ {s} : sending[t].at = "inserted" =>
        sending[t].stamp # stamp + 1 /\ sending[t].stamp \in 1..stamp'
  BY <1>1 DEF ChatInv, StampsAreOwn
<1>6. StampsAreOwn'
  <2>1. \A m \in heardChat' : m.stamp \in 1..stamp'
    BY <1>1, <1>4
  <2>2. \A m, n \in heardChat' : m.stamp = n.stamp => m = n
    BY <1>1 DEF ChatInv, StampsAreOwn
  <2>3. ASSUME NEW t \in ChatSockets, sending'[t].at = "inserted"
        PROVE  /\ sending'[t].stamp \in 1..stamp'
               /\ \A m \in heardChat' : m.stamp # sending'[t].stamp
               /\ \A u \in ChatSockets \ {t} :
                    sending'[u].at = "inserted" => sending'[u].stamp # sending'[t].stamp
    <3>1. CASE t = s
      <4>1. stamp + 1 \in 1..stamp'
        BY <1>1
      <4>. QED BY <1>1, <1>3, <1>4, <1>5, <3>1, <4>1
    <3>2. CASE t # s
      <4>1. sending'[t] = sending[t]
        BY <1>3, <3>2
      <4>2. \A u \in ChatSockets \ {t} :
              sending'[u].at = "inserted" => sending'[u].stamp # sending'[t].stamp
        BY <1>3, <1>5, <2>3, <3>2, <4>1 DEF ChatInv, StampsAreOwn
      <4>3. sending[t].stamp \in 1..stamp'
        BY <1>5, <2>3, <3>2, <4>1
      <4>. QED BY <1>1, <2>3, <4>1, <4>2, <4>3 DEF ChatInv, StampsAreOwn
    <3>. QED BY <3>1, <3>2
  <2>. QED BY <2>1, <2>2, <2>3 DEF StampsAreOwn
<1>7. PagesFit'
  BY <1>1 DEF ChatInv, PagesFit, InRow
<1>. QED BY <1>1, <1>2, <1>6, <1>7 DEF ChatInv

\* It is saved, or is the one that was sent before.
LEMMA SaveKeepsChat == ASSUME ChatInv, NEW s \in ChatSockets, SaveMessage(s) PROVE ChatInv'
<1>1. PICK words, new, kept :
        /\ words = sending[s].line /\ new = [stamp |-> sending[s].stamp, line |-> words]
        /\ kept = IF SentBefore(words) = {} THEN {new} ELSE SentBefore(words)
  OBVIOUS
<1>2. /\ sending[s].at = "inserted" /\ chat' = chat \cup kept /\ heardChat' = heardChat \cup kept
      /\ sending' = [sending EXCEPT ![s] = NotSending]
      /\ UNCHANGED <<over, stamp, pages, there>>
  BY <1>1 DEF SaveMessage
<1>3. sending[s].line \in LinesSent /\ sending[s].stamp \in Nat
  BY DEF ChatInv
<1>4. new \in Message /\ new.stamp = sending[s].stamp /\ new.line = words
  BY <1>1, <1>3 DEF Message
<1>5. new.stamp \in 1..stamp /\ \A m \in heardChat : m.stamp # new.stamp
  BY <1>2, <1>4 DEF ChatInv, StampsAreOwn
<1>6. sending' \in [ChatSockets -> [at : {"listening", "read", "inserted"}, line : LinesSent, stamp : Nat]]
  BY <1>2 DEF ChatInv, NotSending, LinesSent
<1>7. /\ sending'[s].at = "listening"
      /\ \A t \in ChatSockets \ {s} : sending'[t] = sending[t]
  BY <1>2 DEF ChatInv, NotSending
<1>8. CASE SentBefore(words) # {}
  <2>1. chat' = chat /\ heardChat' = heardChat
    BY <1>1, <1>2, <1>8 DEF SentBefore, ChatInv
  <2>2. StampsAreOwn'
    <3>1. ASSUME NEW t \in ChatSockets, sending'[t].at = "inserted"
          PROVE  /\ sending'[t].stamp \in 1..stamp'
                 /\ \A m \in heardChat' : m.stamp # sending'[t].stamp
                 /\ \A u \in ChatSockets \ {t} :
                      sending'[u].at = "inserted" => sending'[u].stamp # sending'[t].stamp
      <4>1. t # s /\ sending'[t] = sending[t]
        BY <1>7, <3>1
      <4>2. \A u \in ChatSockets \ {t} : sending'[u].at = "inserted" =>
              u # s /\ sending'[u] = sending[u]
        BY <1>7
      <4>. QED BY <1>2, <2>1, <3>1, <4>1, <4>2 DEF ChatInv, StampsAreOwn
    <3>. QED BY <1>2, <2>1, <3>1 DEF StampsAreOwn, ChatInv
  <2>3. PagesFit'
    BY <1>2, <2>1 DEF ChatInv, PagesFit, InRow
  <2>. QED BY <1>2, <1>6, <2>1, <2>2, <2>3 DEF ChatInv
<1>9. CASE SentBefore(words) = {}
  <2>1. chat' = chat \cup {new} /\ heardChat' = heardChat \cup {new}
    BY <1>1, <1>2, <1>9
  <2>2. StampsAreOwn'
    <3>1. \A m \in heardChat' : m.stamp \in 1..stamp'
      BY <1>2, <1>5, <2>1 DEF ChatInv, StampsAreOwn
    <3>2. \A m, n \in heardChat' : m.stamp = n.stamp => m = n
      BY <1>5, <2>1 DEF ChatInv, StampsAreOwn
    <3>3. ASSUME NEW t \in ChatSockets, sending'[t].at = "inserted"
          PROVE  /\ sending'[t].stamp \in 1..stamp'
                 /\ \A m \in heardChat' : m.stamp # sending'[t].stamp
                 /\ \A u \in ChatSockets \ {t} :
                      sending'[u].at = "inserted" => sending'[u].stamp # sending'[t].stamp
      <4>1. t # s /\ sending'[t] = sending[t]
        BY <1>7, <3>3
      <4>2. \A u \in ChatSockets \ {t} : sending'[u].at = "inserted" =>
              u # s /\ sending'[u] = sending[u]
        BY <1>7
      <4>3. sending[t].stamp # new.stamp
        BY <1>2, <1>4, <3>3, <4>1 DEF ChatInv, StampsAreOwn
      <4>. QED BY <1>2, <2>1, <3>3, <4>1, <4>2, <4>3 DEF ChatInv, StampsAreOwn
    <3>. QED BY <3>1, <3>2, <3>3 DEF StampsAreOwn
  <2>3. PagesFit'
    <3>1. pages \in Seq(Nat) /\ InRow(pages) /\ pages' = pages /\ there' = there
      BY <1>2 DEF ChatInv, PagesFit
    <3>2. InRow(pages)'
      BY <3>1 DEF InRow
    <3>3. \A i \in DOMAIN pages : \E m \in heardChat' : m.stamp = pages[i]
      BY <2>1 DEF ChatInv, PagesFit
    <3>4. ASSUME pages # <<>>
          PROVE  there \subseteq chat' \/ \A m \in chat' : m.stamp # pages[Len(pages)]
      <4>1. Len(pages) \in DOMAIN pages
        BY <3>1, <3>4
      <4>2. new.stamp # pages[Len(pages)]
        BY <1>5, <4>1 DEF ChatInv, PagesFit
      <4>. QED BY <2>1, <3>4, <4>2 DEF ChatInv, PagesFit
    <3>5. pages # <<>> => \A m \in there : m.stamp >= pages[Len(pages)] =>
                            \E i \in DOMAIN pages : pages[i] = m.stamp
      BY DEF ChatInv, PagesFit
    <3>. QED BY <3>1, <3>2, <3>3, <3>4, <3>5 DEF PagesFit
  <2>4. ~over' => chat' = heardChat' /\ \A m, n \in heardChat' : m.line = n.line => m = n
    <3>. SUFFICES ASSUME ~over
                  PROVE  chat' = heardChat' /\ \A m, n \in heardChat' : m.line = n.line => m = n
      BY <1>2
    <3>1. chat = heardChat /\ \A m, n \in heardChat : m.line = n.line => m = n
      BY DEF ChatInv
    <3>2. \A m \in heardChat : m.line # words
      BY <1>9, <3>1 DEF SentBefore
    <3>. QED BY <1>4, <2>1, <3>1, <3>2
  <2>. QED BY <1>2, <1>4, <1>6, <2>1, <2>2, <2>3, <2>4 DEF ChatInv
<1>. QED BY <1>8, <1>9

\* One page more is of older messages, and leaves out none in between.
LEMMA OlderKeeps == ASSUME ChatInv, ReadOlder PROVE PagesFit'
<1>1. PICK last, p : last = pages[Len(pages)] /\ p = Page(last)
  OBVIOUS
<1>2. /\ pages # <<>> /\ pages' = pages \o p /\ UNCHANGED <<chat, sending, over, stamp, heardChat, there>>
  BY <1>1 DEF ReadOlder
<1>3. /\ pages \in Seq(Nat) /\ InRow(pages) /\ chat \subseteq heardChat /\ there \subseteq heardChat
      /\ \A i \in DOMAIN pages : \E m \in heardChat : m.stamp = pages[i]
      /\ \A m \in heardChat : m.stamp \in 1..stamp /\ stamp \in Nat
      /\ \A m \in there : m.stamp >= last => \E i \in DOMAIN pages : pages[i] = m.stamp
      /\ there \subseteq chat \/ \A m \in chat : m.stamp # last
  BY <1>1, <1>2 DEF ChatInv, PagesFit, StampsAreOwn
<1>4. /\ p \in Seq(Nat) /\ InRow(p)
      /\ \A i \in DOMAIN p : \E m \in Older(last) : m.stamp = p[i]
      /\ p # <<>> => \A m \in Older(last) : m.stamp >= p[Len(p)] => \E i \in DOMAIN p : p[i] = m.stamp
  BY <1>1, PageIs
<1>5. /\ Len(pages) \in Nat /\ Len(pages) \in DOMAIN pages /\ DOMAIN pages = 1..Len(pages)
      /\ Len(p) \in Nat /\ DOMAIN p = 1..Len(p) /\ last \in Nat
  BY <1>1, <1>2, <1>3, <1>4
<1>6. last \in 1..stamp /\ last # 0
  BY <1>1, <1>3, <1>5
<1>7. \A m \in Older(last) : m \in chat /\ m.stamp < last /\ \E a \in chat : a.stamp = last
  BY <1>6 DEF Older, IsBefore
<1>8. CASE p = <<>>
  <2>1. pages' = pages
    BY <1>2, <1>3, <1>8
  <2>. QED BY <1>2, <2>1 DEF ChatInv, PagesFit, InRow
<1>9. CASE p # <<>>
  <2>1. PICK r, N : r = pages \o p /\ N = Len(pages)
    OBVIOUS
  <2>2. /\ r \in Seq(Nat) /\ Len(r) = N + Len(p) /\ DOMAIN r = 1..Len(r)
        /\ \A i \in 1..N : r[i] = pages[i]
        /\ \A i \in 1..Len(r) : i > N => r[i] = p[i - N]
    <3>1. r \in Seq(Nat) /\ Len(r) = N + Len(p)
      BY <1>3, <1>4, <2>1, BothAre
    <3>2. DOMAIN r = 1..Len(r)
      BY ONLY <3>1
    <3>3. \A i \in 1..N : r[i] = pages[i]
      BY <1>3, <1>4, <2>1, BothAre
    <3>4. \A i \in 1..Len(r) : i > N => r[i] = p[i - N]
      BY <1>3, <1>4, <2>1, BothAre
    <3>. QED BY ONLY <3>1, <3>2, <3>3, <3>4, Zenon
  <2>3. Len(p) \in DOMAIN p /\ Len(p) >= 1
    BY <1>4, <1>5, <1>9
  <2>4. \A i \in DOMAIN p : p[i] < last /\ p[i] \in Nat
    BY <1>4, <1>5, <1>7
  <2>5. \A i \in 1..N : pages[i] >= last /\ pages[i] \in Nat
    <3>. SUFFICES ASSUME NEW i \in 1..N PROVE pages[i] >= last /\ pages[i] \in Nat
      OBVIOUS
    <3>1. i \in DOMAIN pages /\ N \in DOMAIN pages /\ i \in Nat /\ N \in Nat /\ i <= N
      BY <1>5, <2>1
    <3>2. \A k \in DOMAIN pages : pages[k] \in Nat
      <4>1. pages \in Seq(Nat)
        BY <1>3
      <4>. QED BY ONLY <4>1
    <3>3. i # N => i < N
      BY ONLY <3>1
    <3>4. i = N \/ pages[i] > pages[N]
      BY <1>3, <3>1, <3>3, Zenon DEF InRow
    <3>5. pages[i] \in Nat /\ pages[N] = last /\ last \in Nat
      BY <1>1, <1>5, <2>1, <3>1, <3>2
    <3>. QED BY ONLY <3>4, <3>5
  <2>6. InRow(r)
    <3>. SUFFICES ASSUME NEW i \in 1..Len(r), NEW j \in 1..Len(r), i < j PROVE r[i] > r[j]
      BY <2>2 DEF InRow
    <3>1. CASE j <= N
      <4>1. i \in DOMAIN pages /\ j \in DOMAIN pages /\ r[i] = pages[i] /\ r[j] = pages[j]
        BY <1>5, <2>1, <2>2, <3>1
      <4>. QED BY <1>3, <4>1 DEF InRow
    <3>2. CASE i <= N /\ j > N
      <4>1. i \in 1..N /\ j - N \in DOMAIN p /\ r[i] = pages[i] /\ r[j] = p[j - N]
        BY <1>5, <2>1, <2>2, <3>2
      <4>2. pages[i] >= last /\ p[j - N] < last /\ pages[i] \in Nat /\ p[j - N] \in Nat
        BY <2>4, <2>5, <4>1
      <4>. QED BY <1>5, <4>1, <4>2
    <3>3. CASE i > N
      <4>1. i - N \in DOMAIN p /\ j - N \in DOMAIN p /\ i - N < j - N /\ r[i] = p[i - N] /\ r[j] = p[j - N]
        BY <1>5, <2>1, <2>2, <3>3
      <4>. QED BY <1>4, <4>1 DEF InRow
    <3>. QED BY <1>5, <2>1, <2>2, <3>1, <3>2, <3>3
  <2>7. \A i \in 1..Len(p) : N + i \in DOMAIN r /\ r[N + i] = p[i]
    BY <1>5, <2>1, <2>2
  <2>8. \A i \in 1..N : i \in DOMAIN r /\ r[i] = pages[i]
    BY <1>5, <2>1, <2>2
  <2>9. ASSUME NEW i \in DOMAIN r PROVE \E m \in heardChat : m.stamp = r[i]
    <3>1. CASE i <= N
      <4>1. i \in DOMAIN pages /\ r[i] = pages[i]
        BY <1>5, <2>1, <2>2, <3>1
      <4>. QED BY <1>3, <4>1
    <3>2. CASE i > N
      <4>1. i - N \in DOMAIN p /\ r[i] = p[i - N]
        BY <1>5, <2>1, <2>2, <3>2
      <4>. QED BY <1>3, <1>4, <1>7, <4>1
    <3>. QED BY <1>5, <2>1, <2>2, <3>1, <3>2
  <2>10. r[Len(r)] = p[Len(p)] /\ r # <<>>
    <3>1. r[N + Len(p)] = p[Len(p)]
      BY <1>5, <2>3, <2>7
    <3>2. Len(r) # 0
      BY <1>5, <2>1, <2>2, <2>3
    <3>. QED BY <2>2, <3>1, <3>2
  <2>11. there \subseteq chat
    <3>1. \E a \in chat : a.stamp = last
      BY <1>4, <1>7, <2>3
    <3>. QED BY <1>3, <3>1
  <2>12. ASSUME NEW m \in there, m.stamp >= p[Len(p)] PROVE \E i \in DOMAIN r : r[i] = m.stamp
    <3>1. m.stamp \in Nat
      BY <1>3
    <3>2. CASE m.stamp >= last
      <4>1. PICK i \in 1..N : pages[i] = m.stamp
        BY <1>3, <1>5, <2>1, <3>2
      <4>. QED BY <2>8, <4>1
    <3>3. CASE ~(m.stamp >= last)
      <4>1. m \in Older(last)
        <5>1. m \in chat /\ m.stamp < last
          BY <1>5, <2>11, <3>1, <3>3
        <5>2. \E a \in chat : a.stamp = last
          BY <1>4, <1>7, <2>3
        <5>. QED BY <1>6, <5>1, <5>2 DEF Older, IsBefore
      <4>2. PICK i \in 1..Len(p) : p[i] = m.stamp
        BY <1>4, <1>5, <1>9, <2>12, <4>1
      <4>. QED BY <2>7, <4>2
    <3>. QED BY <3>2, <3>3
  <2>13. pages' = r
    BY <1>2, <2>1
  <2>. HIDE DEF InRow
  <2>14. InRow(pages') /\ pages' \in Seq(Nat)
    BY <2>2, <2>6, <2>13
  <2>. QED BY <1>2, <2>9, <2>10, <2>11, <2>12, <2>13, <2>14 DEF PagesFit, InRow
<1>. QED BY <1>8, <1>9

\* The newest page.
LEMMA NewestKeeps == ASSUME ChatInv, ReadNewest PROVE PagesFit'
<1>1. PICK p : p = Page(0)
  OBVIOUS
<1>2. pages' = p /\ there' = chat /\ UNCHANGED <<chat, sending, over, stamp, heardChat>>
  BY <1>1 DEF ReadNewest
<1>3. Older(0) = chat
  BY DEF Older
<1>4. /\ p \in Seq(Nat) /\ InRow(p)
      /\ \A i \in DOMAIN p : \E m \in chat : m.stamp = p[i]
      /\ p # <<>> => \A m \in chat : m.stamp >= p[Len(p)] => \E i \in DOMAIN p : p[i] = m.stamp
  BY <1>1, <1>3, PageIs
<1>5. InRow(pages)'
  BY <1>2, <1>4 DEF InRow
<1>6. chat \subseteq heardChat
  BY DEF ChatInv
<1>. QED BY <1>2, <1>4, <1>5, <1>6 DEF PagesFit

\* Whatever the players and the readers do, messages and pages stay as they must.
LEMMA ChatStep == ChatInv /\ [ChatNext]_chatVars => ChatInv'
<1>. SUFFICES ASSUME ChatInv, [ChatNext]_chatVars PROVE ChatInv'
  OBVIOUS
<1>1. ASSUME NEW s \in ChatSockets, NEW words \in Lines[s], ReadChatPhase(s, words) PROVE ChatInv'
  <2>1. /\ sending' = [sending EXCEPT ![s] = [NotSending EXCEPT !.at = "read", !.line = words]]
        /\ UNCHANGED <<chat, over, stamp, heardChat, pages, there>>
    BY <1>1 DEF ReadChatPhase
  <2>2. sending' \in [ChatSockets -> [at : {"listening", "read", "inserted"}, line : LinesSent, stamp : Nat]]
    BY <2>1 DEF ChatInv, NotSending, LinesSent
  <2>3. \A t \in ChatSockets : sending'[t].at = "inserted" => sending'[t] = sending[t]
    BY <2>1 DEF ChatInv, NotSending
  <2>4. StampsAreOwn'
    BY <2>1, <2>3 DEF ChatInv, StampsAreOwn
  <2>5. PagesFit'
    BY <2>1 DEF ChatInv, PagesFit, InRow
  <2>. QED BY <2>1, <2>2, <2>4, <2>5 DEF ChatInv
<1>2. ASSUME NEW s \in ChatSockets, InsertMessage(s) PROVE ChatInv'
  BY <1>2, InsertKeeps
<1>3. ASSUME NEW s \in ChatSockets, SaveMessage(s) PROVE ChatInv'
  BY <1>3, SaveKeepsChat
<1>4. CASE ClearChat
  <2>1. chat' = {} /\ over' /\ UNCHANGED <<sending, stamp, heardChat, pages, there>>
    BY <1>4 DEF ClearChat
  <2>2. StampsAreOwn'
    BY <2>1 DEF ChatInv, StampsAreOwn
  <2>3. PagesFit'
    BY <2>1 DEF ChatInv, PagesFit, InRow
  <2>. QED BY <2>1, <2>2, <2>3 DEF ChatInv
<1>5. CASE ReadNewest
  <2>1. there' = chat /\ UNCHANGED <<chat, sending, over, stamp, heardChat>>
    BY <1>5 DEF ReadNewest
  <2>2. StampsAreOwn'
    BY <2>1 DEF ChatInv, StampsAreOwn
  <2>. QED BY <1>5, <2>1, <2>2, NewestKeeps DEF ChatInv
<1>6. CASE ReadOlder
  <2>1. UNCHANGED <<chat, sending, over, stamp, heardChat, there>>
    BY <1>6 DEF ReadOlder
  <2>2. StampsAreOwn'
    BY <2>1 DEF ChatInv, StampsAreOwn
  <2>. QED BY <1>6, <2>1, <2>2, OlderKeeps DEF ChatInv
<1>7. CASE UNCHANGED chatVars
  BY <1>7 DEF chatVars, ChatInv, StampsAreOwn, PagesFit, InRow
<1>. QED BY <1>1, <1>2, <1>3, <1>4, <1>5, <1>6, <1>7 DEF ChatNext

\* What the chat promises follows.
LEMMA ChatIsKeptNow == ChatInv => ChatIsKept
BY DEF ChatInv, PagesFit, InRow, ChatIsKept

-----------------------------------------------------------------------------
\* A step of the services is a step of the history and one of the chat, or neither.
LEMMA ServicesStep ==
  ASSUME [ServicesNext]_servicesVars
  PROVE  [HistoryNext]_historyVars /\ [ChatNext]_chatVars
<1>1. CASE UNCHANGED servicesVars
  BY <1>1 DEF servicesVars, historyVars, chatVars
<1>2. CASE Only("portraits", Next, <<speechVars, playerVars, historyVars, chatVars>>)
  BY <1>2 DEF Only
<1>3. CASE Only("speech", SpeechNext, <<vars, playerVars, historyVars, chatVars>>)
  BY <1>3 DEF Only
<1>4. CASE Only("player", PlayerNext, <<vars, speechVars, historyVars, chatVars>>)
  BY <1>4 DEF Only
<1>5. CASE Only("history", HistoryNext, <<vars, speechVars, playerVars, chatVars>>)
  BY <1>5 DEF Only
<1>6. CASE Only("chat", ChatNext, <<vars, speechVars, playerVars, historyVars>>)
  BY <1>6 DEF Only
<1>. QED BY <1>1, <1>2, <1>3, <1>4, <1>5, <1>6 DEF ServicesNext

\* What is read back is true, however turns, retries, readers and the end of the game
\* interleave: a turn is reminded of turns before it, each once, within the limits, the
\* newest always among them, with nothing that its player may not know, so that it does not
\* fail; and of what the players said the pages repeat nothing and leave out nothing.
THEOREM ReadBackIsTrueTheorem == ServicesSpec => []ReadBackIsTrue
<1>1. ServicesInit => HistoryInv /\ ChatInv
  BY HistoryStarts, ChatStarts DEF ServicesInit
<1>2. HistoryInv /\ ChatInv /\ [ServicesNext]_servicesVars => (HistoryInv /\ ChatInv)'
  BY HistoryStep, ChatStep, ServicesStep
<1>3. HistoryInv /\ ChatInv => ReadBackIsTrue
  BY HistoryIsSafe, ChatIsKeptNow DEF ReadBackIsTrue
<1>. QED BY <1>1, <1>2, <1>3, PTL DEF ServicesSpec
==============================================================================
