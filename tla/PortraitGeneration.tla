------------------------- MODULE PortraitGeneration -------------------------
(***************************************************************************)
(* Portraits made in the background (app/service/portrait_generation.py).  *)
(* A player asks for one; the row of the task is committed and a coroutine *)
(* of the process carries it out, one short transaction at a time with     *)
(* calls of slow services between them.  The player may cancel: the        *)
(* request is committed first, then the provider and the coroutine are     *)
(* told.  A new process fails every task it finds active.                  *)
(*                                                                         *)
(* With RowLocks (PostgreSQL) cancel holds the row from its read to its    *)
(* commit, without (SQLite) it does not.                                   *)
(***************************************************************************)
EXTENDS Naturals

CONSTANTS Characters, NoCharacter,
          Calls,        \* calls of cancel
          NoCall,
          RowLocks,
          MaxTasks,     \* bound on the tasks made (model checking)
          MaxRestarts   \* bound on the restarts (model checking)

ASSUME NoCharacterAssumption == NoCharacter \notin Characters
ASSUME NoCallAssumption == NoCall \notin Calls
ASSUME RowLocksAssumption == RowLocks \in BOOLEAN
ASSUME PortraitBoundsAssumption == MaxTasks \in Nat /\ MaxRestarts \in Nat

VARIABLES task,      \* portrait_generation_tasks; their numbers are their order
          portrait,  \* character -> the task that made its portrait, or 0
          run,       \* the coroutine of each task
          told,      \* control.cancelled of each task
          call,      \* the cancel calls
          rowLock,   \* the call that holds the row of each task
          restarts

vars == <<task, portrait, run, told, call, rowLock, restarts>>

-----------------------------------------------------------------------------
Tasks == 1..MaxTasks

Active == {"queued", "generating", "cancelling"}
Ended == {"completed", "failed", "cancelled"}

Row == [status : Active \cup Ended \cup {"none"}, cancel : BOOLEAN,
        character : Characters \cup {NoCharacter}]

\* Where _run is: before its first read, between the read and the write that
\* starts the task, on its way through the services, committing the portrait,
\* discarding it, or in the handler that writes how it ended.  "none": there is
\* no coroutine.
Tries == {"starting", "started", "composing", "generating", "materializing",
          "completing", "discarding"}
Handlers == {"finishing", "failing"}
Stages == {"none", "scheduled"} \cup Tries \cup Handlers

Call == [step : {"idle"}] \cup
        [step : {"write", "tell", "interrupt"}, task : Tasks, status : Active]

TypeOK ==
  /\ task \in [Tasks -> Row]
  /\ portrait \in [Characters -> {0} \cup Tasks]
  /\ run \in [Tasks -> Stages]
  /\ told \in [Tasks -> BOOLEAN]
  /\ call \in [Calls -> Call]
  /\ rowLock \in [Tasks -> Calls \cup {NoCall}]
  /\ restarts \in 0..MaxRestarts

Init ==
  /\ task = [t \in Tasks |-> [status |-> "none", cancel |-> FALSE,
                              character |-> NoCharacter]]
  /\ portrait = [c \in Characters |-> 0]
  /\ run = [t \in Tasks |-> "none"]
  /\ told = [t \in Tasks |-> FALSE]
  /\ call = [k \in Calls |-> [step |-> "idle"]]
  /\ rowLock = [t \in Tasks |-> NoCall]
  /\ restarts = 0

-----------------------------------------------------------------------------
\* Mutant of ActiveOf: the index counts tasks that have not been started.
ActiveOfQueued(c) == {t \in Tasks : task[t].character = c /\ task[t].status = "queued"}

\* uq_portrait_generation_tasks_active_character.
ActiveOf(c) == {t \in Tasks : task[t].character = c /\ task[t].status \in Active}

Go(t, stage) == run' = [run EXCEPT ![t] = stage]

\* An update of the row waits for the cancel call that holds it.
RowFree(t) == rowLock[t] = NoCall

SetStatus(t, s) ==
  task' = [task EXCEPT ![t] = [status |-> s, cancel |-> @.cancel,
                               character |-> @.character]]

\* create: the row is committed, then its coroutine is scheduled.
Create(t, c) ==
  /\ task[t].status = "none"
  /\ \A u \in Tasks : u < t => task[u].status # "none"
  /\ ActiveOf(c) = {}
  /\ task' = [task EXCEPT ![t] = [status |-> "queued", cancel |-> FALSE,
                                  character |-> c]]
  /\ Go(t, "scheduled")
  /\ UNCHANGED <<portrait, told, call, rowLock, restarts>>

-----------------------------------------------------------------------------
\* _run reads its row ...
ReadQueued(t) ==
  /\ run[t] = "scheduled"
  /\ Go(t, IF task[t].status = "queued" /\ ~task[t].cancel THEN "starting"
           ELSE "none")
  /\ UNCHANGED <<task, portrait, told, call, rowLock, restarts>>

\* ... and writes the status without comparing it.  The index refuses it when
\* the task was cancelled meanwhile and another one made.
Start(t) ==
  /\ run[t] = "starting"
  /\ RowFree(t)
  /\ IF ActiveOf(task[t].character) \subseteq {t}
     THEN SetStatus(t, "generating") /\ Go(t, "started")
     ELSE UNCHANGED task /\ Go(t, "failing")
  /\ UNCHANGED <<portrait, told, call, rowLock, restarts>>

IsCancelled(t) == task[t].cancel \/ task[t].status \in {"cancelling", "cancelled"}

\* After each service the row is read again.
After(t, stage, next) ==
  /\ run[t] = stage
  /\ Go(t, IF IsCancelled(t) THEN "finishing" ELSE next)
  /\ UNCHANGED <<task, portrait, told, call, rowLock, restarts>>

Compose(t) == After(t, "started", "composing")
Prompt(t) == After(t, "composing", "generating")
Generate(t) == After(t, "generating", "materializing")
Materialize(t) == After(t, "materializing", "completing")

\* The provider notices the event between two polls.
ProviderStops(t) ==
  /\ run[t] = "generating" /\ told[t]
  /\ Go(t, "finishing")
  /\ UNCHANGED <<task, portrait, told, call, rowLock, restarts>>

\* A service failed, refused or took too long.
Raise(t) ==
  /\ run[t] \in {"started", "composing", "generating", "materializing"}
  /\ Go(t, "failing")
  /\ UNCHANGED <<task, portrait, told, call, rowLock, restarts>>

\* Mutant of MayComplete: the status alone is compared.
MayCompleteAnyway(t) == task[t].status \in {"generating", "cancelling"}

MayComplete(t) == task[t].status = "generating" /\ ~task[t].cancel

\* The task is completed and the portrait replaced in one transaction, by a
\* conditional update.
Complete(t) ==
  /\ run[t] = "completing"
  /\ RowFree(t)
  /\ IF MayComplete(t)
     THEN /\ SetStatus(t, "completed")
          /\ portrait' = [portrait EXCEPT ![task[t].character] = t]
          /\ Go(t, "none")
     ELSE Go(t, "discarding") /\ UNCHANGED <<task, portrait>>
  /\ UNCHANGED <<told, call, rowLock, restarts>>

\* _finish_cancelled, called by a handler or by _complete.
FinishCancelled(t) ==
  /\ run[t] \in {"finishing", "discarding"}
  /\ RowFree(t)
  /\ task' = IF task[t].status \notin Active THEN task
             ELSE [task EXCEPT ![t] = [status |-> "cancelled", cancel |-> TRUE,
                                       character |-> @.character]]
  /\ Go(t, "none")
  /\ UNCHANGED <<portrait, told, call, rowLock, restarts>>

\* Mutant of Fail: only a task that has not started is failed.
FailQueued(t) ==
  /\ run[t] = "failing"
  /\ RowFree(t)
  /\ IF task[t].status = "queued" THEN SetStatus(t, "failed") ELSE UNCHANGED task
  /\ Go(t, "none")
  /\ UNCHANGED <<portrait, told, call, rowLock, restarts>>

Fail(t) ==
  /\ run[t] = "failing"
  /\ RowFree(t)
  /\ IF task[t].status \in {"queued", "generating"}
     THEN SetStatus(t, "failed") ELSE UNCHANGED task
  /\ Go(t, "none")
  /\ UNCHANGED <<portrait, told, call, rowLock, restarts>>

-----------------------------------------------------------------------------
\* Mutant of CancelRead: the early return of an ended task is missing.
CancelReadAny(k, t) ==
  /\ call[k].step = "idle"
  /\ task[t].status # "none"
  /\ RowFree(t)
  /\ call' = [call EXCEPT ![k] = [step |-> "write", task |-> t,
                                  status |-> task[t].status]]
  /\ rowLock' = IF RowLocks THEN [rowLock EXCEPT ![t] = k] ELSE rowLock
  /\ UNCHANGED <<task, portrait, run, told, restarts>>

\* Mutant of CancelRead: the row is read without FOR UPDATE.
CancelReadNoLock(k, t) ==
  /\ call[k].step = "idle"
  /\ task[t].status \in Active
  /\ call' = [call EXCEPT ![k] = [step |-> "write", task |-> t,
                                  status |-> task[t].status]]
  /\ UNCHANGED <<task, portrait, run, told, rowLock, restarts>>

\* cancel reads the row; a task that has ended is left as it is.
CancelRead(k, t) ==
  /\ call[k].step = "idle"
  /\ task[t].status \in Active
  /\ RowFree(t)
  /\ call' = [call EXCEPT ![k] = [step |-> "write", task |-> t,
                                  status |-> task[t].status]]
  /\ rowLock' = IF RowLocks THEN [rowLock EXCEPT ![t] = k] ELSE rowLock
  /\ UNCHANGED <<task, portrait, run, told, restarts>>

\* The statuses it writes; one that is being cancelled keeps what it has.
CancelledStatus(seen, now) ==
  IF seen = "queued" THEN "cancelled"
  ELSE IF seen = "cancelling" THEN now
  ELSE "cancelling"

\* It commits what it changed of what it read; a task that was not started is
\* over at once.  Without row locks the task may have ended, and the index may
\* refuse to make it active again.
CancelWrite(k) ==
  LET t == call[k].task
      c == task[t].character
      s == CancelledStatus(call[k].status, task[t].status)
  IN
    /\ call[k].step = "write"
    /\ rowLock[t] \in {k, NoCall}
    /\ IF s \in Active /\ ~(ActiveOf(c) \subseteq {t})
       THEN /\ call' = [call EXCEPT ![k] = [step |-> "idle"]]
            /\ UNCHANGED task
       ELSE /\ call' = [call EXCEPT ![k].step = "tell"]
            /\ task' = [task EXCEPT ![t] = [status |-> s, cancel |-> TRUE,
                                            character |-> c]]
    /\ rowLock' = [rowLock EXCEPT ![t] = NoCall]
    /\ UNCHANGED <<portrait, run, told, restarts>>

\* It sets the event and asks the provider to stop ...
CancelTell(k) ==
  /\ call[k].step = "tell"
  /\ told' = [told EXCEPT ![call[k].task] =
                @ \/ run[call[k].task] \notin {"none", "scheduled"}]
  /\ call' = [call EXCEPT ![k] = IF @.status = "queued" THEN [step |-> "idle"]
                                 ELSE [@ EXCEPT !.step = "interrupt"]]
  /\ UNCHANGED <<task, portrait, run, rowLock, restarts>>

\* ... then interrupts the coroutine.  One that is still at work goes to its
\* handler, unless a provider swallows the interruption; in a handler nothing
\* catches it any more.
CancelInterrupt(k) ==
  LET t == call[k].task IN
    /\ call[k].step = "interrupt"
    /\ \/ run[t] \in Tries /\ Go(t, "finishing")
       \/ run[t] = "generating" /\ UNCHANGED run
       \/ run[t] \in Handlers \cup {"scheduled"} /\ Go(t, "none")
       \/ run[t] = "none" /\ UNCHANGED run
    /\ call' = [call EXCEPT ![k] = [step |-> "idle"]]
    /\ UNCHANGED <<task, portrait, told, rowLock, restarts>>

\* The process ends, by a crash or by shutdown, and the next one fails what it
\* finds active (recover_interrupted) before it serves anybody.
Restart ==
  /\ restarts < MaxRestarts
  /\ restarts' = restarts + 1
  /\ task' = [t \in Tasks |->
                IF task[t].status \in Active
                THEN [status |-> "failed", cancel |-> task[t].cancel,
                      character |-> task[t].character]
                ELSE task[t]]
  /\ run' = [t \in Tasks |-> "none"]
  /\ told' = [t \in Tasks |-> FALSE]
  /\ call' = [k \in Calls |-> [step |-> "idle"]]
  /\ rowLock' = [t \in Tasks |-> NoCall]
  /\ UNCHANGED portrait

-----------------------------------------------------------------------------
Run(t) ==
  \/ ReadQueued(t) \/ Start(t)
  \/ Compose(t) \/ Prompt(t) \/ Generate(t) \/ Materialize(t)
  \/ ProviderStops(t) \/ Raise(t)
  \/ Complete(t) \/ FinishCancelled(t) \/ Fail(t)

Cancel(k) == CancelWrite(k) \/ CancelTell(k) \/ CancelInterrupt(k)

Next ==
  \/ \E t \in Tasks, c \in Characters : Create(t, c)
  \/ \E t \in Tasks : Run(t)
  \/ \E k \in Calls, t \in Tasks : CancelRead(k, t)
  \/ \E k \in Calls : Cancel(k)
  \/ Restart

\* The event loop goes on with every coroutine and call, and every service
\* answers or times out (portrait_timeout_seconds and the clients' timeouts).
Fairness ==
  /\ \A t \in Tasks : WF_vars(Run(t))
  /\ \A k \in Calls : WF_vars(Cancel(k))

Spec == Init /\ [][Next]_vars /\ Fairness

-----------------------------------------------------------------------------
\* The portrait of a character was made by a task that says it is completed: a
\* cancelled or failed task leaves none, whenever the cancel came.
PortraitIsCompleted ==
  \A c \in Characters : portrait[c] # 0 =>
    task[portrait[c]].status = "completed" /\ task[portrait[c]].character = c

\* A task of which the player was told that it is cancelled never makes the
\* portrait, even when its provider answers late.
CancelHolds ==
  [][\A t \in Tasks : task[t].cancel /\ task[t].status # "completed" =>
       task'[t].status # "completed"]_vars

\* No older task replaces the portrait of a newer one.
NewestPortrait == [][\A c \in Characters : portrait'[c] >= portrait[c]]_vars

\* A completed or failed task stays so (with row locks).
DoneIsDone ==
  [][RowLocks => \A t \in Tasks : task[t].status \in {"completed", "failed"} =>
       task'[t] = task[t]]_vars

\* A task that nobody cancels ends, through restarts and failing services.
EndsUnlessCancelled ==
  \A t \in Tasks :
    task[t].status = "queued" ~> task[t].status \in Ended \/ task[t].cancel

\* tests/test_portrait_generation.py, line 833: a task whose cancellation was
\* accepted becomes cancelled, and the character can have another one.
CancelEnds ==
  \A t \in Tasks : task[t].status = "cancelling" ~> task[t].status \in Ended
=============================================================================
