------------------------------- MODULE Turns --------------------------------
(***************************************************************************)
(* The turns of one room as its WebSocket handlers run them                *)
(* (controller/ws.py with core/action_plan_turn.py): from an utterance,    *)
(* a choice in a check, a vote or a reconnection to the narration that is  *)
(* stored once and pushed to the room.                                     *)
(*                                                                         *)
(* A socket is a loop of RoomActionLock: it handles one message at a time, *)
(* and what it has read before an await may be old after it.  A turn goes  *)
(* on when its socket is gone; only what it sends is dropped.  The actions *)
(* here are single ones; ActionPlan has the plans of several steps, and    *)
(* Adjudication the check, of which only the status is kept.               *)
(***************************************************************************)
EXTENDS RoomActionLock, FiniteSets

CONSTANTS Room,
          Players, Host,       \* the players, and the one who starts the game
          PlayerOf,            \* [Loops -> Players]: whose socket it is
          Actions, Owner,      \* client_action_ids, and who submits each
          None,
          MaxRevision,         \* bound: commits of the engine
          MaxFaults            \* bound: restarts and closed sockets

ASSUME TurnsAssumption ==
  /\ Rooms = {Room} /\ Host \in Players
  /\ PlayerOf \in [Loops -> Players] /\ Owner \in [Actions -> Players]

VARIABLES open,      \* sockets registered with the ConnectionManager
          task,      \* what each socket's handler is at
          engine,    \* Actions -> status, view_revision of its latest command, and
                     \* what it waited for: nothing, a check, the others' consent (and is told)
          revision,  \* GameState.event_sequence
          results,   \* actions with a check.result event
          uttered,   \* actions with an action.broadcast event
          told,      \* Actions -> its stored narration.push event, or None
          pushes,    \* Actions -> how often its narration was pushed
          dialog,    \* Players -> the check dialog the client shows, or None
          missed,    \* actions whose turn was cut short after the engine's commit
          severed,   \* history: actions whose narration was stored and then not pushed
          opening,   \* the room's opening: "lobby", "started", "stored"
          heard,     \* sockets that were sent the opening since they joined
          answered,  \* actions whose turn.completed has reached the client
          faults

turnVars == <<open, task, engine, revision, results, uttered, told, pushes, dialog, missed, severed,
              opening, heard, answered, faults>>
allVars  == <<vars, turnVars>>

\* A handler: at, the await it is at; via, what it was called for; action; saw,
\* the status of the execution it was given; kind, of the narration it has made.
Resting == [at |-> "rest", via |-> "none", action |-> None, saw |-> "none", kind |-> "none"]

Waiting == {"skill", "post_roll"}
Settled == {"resolved", "cancelled"}

NotSubmitted == [status |-> "none", revision |-> 0, wait |-> "none"]

Statuses  == {"none", "consent"} \cup Waiting \cup Settled
Vias      == {"none", "join", "start", "submit", "choice", "vote"}
Handler   == [at : {"rest", "opening", "broadcast", "recover", "resume", "lock", "plan", "submit",
                    "finally", "dialog", "result", "narrate", "tell", "record", "push", "persist"},
              via : Vias, action : Actions \cup {None}, saw : Statuses,
              kind : {"none", "narration", "clarification"}]
Execution == [status : Statuses, revision : Nat, wait : {"none", "check", "consent", "told"}]
Story     == [kind : {"narration", "clarification"}, of : Statuses]
Dialog    == [action : Actions, status : Waiting, revision : Nat, via : Vias]

ASSUME NoneAssumption == None \notin Actions \cup Story \cup Dialog

TurnsTypeOK ==
  /\ open \subseteq Loops /\ task \in [Loops -> Handler]
  /\ engine \in [Actions -> Execution] /\ revision \in Nat
  /\ results \subseteq Actions /\ uttered \subseteq Actions
  /\ told \in [Actions -> Story \cup {None}] /\ pushes \in [Actions -> Nat]
  /\ dialog \in [Players -> Dialog \cup {None}]
  /\ missed \subseteq Actions /\ severed \subseteq Actions /\ opening \in {"lobby", "started", "stored"}
  /\ heard \subseteq Loops /\ answered \subseteq Actions /\ faults \in Nat

TurnsInit ==
  /\ Init
  /\ open = {} /\ task = [l \in Loops |-> Resting]
  /\ engine = [a \in Actions |-> NotSubmitted] /\ revision = 0
  /\ results = {} /\ uttered = {} /\ told = [a \in Actions |-> None] /\ pushes = [a \in Actions |-> 0]
  /\ dialog = [p \in Players |-> None]
  /\ missed = {} /\ severed = {} /\ opening = "lobby" /\ heard = {} /\ answered = {} /\ faults = 0

-----------------------------------------------------------------------------
\* A socket's handler at an await, and its next one.
At(l, step) == task[l].at = step

Go(l, step) == task' = [task EXCEPT ![l].at = step]

Begin(l, via, a, step) ==
  /\ l \in open /\ At(l, "rest")
  /\ task' = [task EXCEPT ![l] = [Resting EXCEPT !.at = step, !.via = via, !.action = a]]

\* Mutant of Finished: the lock is given back only by a turn that was told.
FinishedInOrder(l) ==
  IF task[l].via = "submit" /\ Running(l) /\ (At(l, "persist") \/ At(l, "dialog"))
  THEN [task[l] EXCEPT !.at = "finally"] ELSE Resting

\* The handler is done with the message; a submission goes on to its `finally`.
Finished(l) == IF task[l].via = "submit" /\ Running(l) THEN [task[l] EXCEPT !.at = "finally"]
               ELSE Resting

Finish(l) == task' = [task EXCEPT ![l] = Finished(l)]

Commit(a, status) ==
  /\ revision < MaxRevision
  /\ revision' = revision + 1
  /\ engine' = [engine EXCEPT ![a] = [status |-> status, revision |-> revision + 1,
                                      wait |-> IF status = "skill" THEN "check" ELSE @.wait]]

\* Mutant of Took: a cancelled check ends the message without a story.
TookResolved(l, status) ==
  task' = [task EXCEPT ![l] =
             IF status \in Waiting \cup {"resolved"}
             THEN [task[l] EXCEPT !.at = IF status \in Waiting THEN "dialog" ELSE "narrate",
                                  !.saw = status]
             ELSE Finished(l)]

\* After an execution: a dialog while it waits for its player, a narration when it
\* is settled; a consent is waited for without either, and the message is over.
Took(l, status) ==
  task' = [task EXCEPT ![l] =
             IF status \in Waiting \cup Settled
             THEN [task[l] EXCEPT !.at = IF status \in Waiting THEN "dialog" ELSE "narrate",
                                  !.saw = status]
             ELSE Finished(l)]

-----------------------------------------------------------------------------
\* room.join: the socket is registered first, and then sent the stored opening.
Join(l) ==
  /\ l \notin open /\ At(l, "rest")
  /\ open' = open \cup {l}
  /\ heard' = heard \ {l}
  /\ task' = [task EXCEPT ![l] = [Resting EXCEPT !.at = "opening", !.via = "join"]]
  /\ UNCHANGED <<vars, engine, revision, results, uttered, told, pushes, dialog, missed, severed, opening, answered, faults>>

\* Mutant of Replayed: a join trusts the broadcast.
ReplayedToNone(l) == {}

\* _send_persisted_opening, to a socket that is still there.
Replayed(l) == IF opening = "stored" /\ l \in open THEN {l} ELSE {}

\* find_active_action_for_player: of the player's open checks the post-roll one.
ActiveChecks(p) ==
  LET of(status) == {a \in Actions : Owner[a] = p /\ engine[a].status = status}
  IN  IF of("post_roll") # {} THEN of("post_roll") ELSE of("skill")

\* A join resumes the check its player had open, if there is one.
RecoverCheck(l) ==
  LET found == ActiveChecks(PlayerOf[l])
  IN  \/ found = {} /\ Finish(l)
      \/ \E a \in found : task' = [task EXCEPT ![l].at = "recover", ![l].action = a]

\* The rest of the join: the opening, and the open check.
FinishJoin(l) ==
  /\ At(l, "opening") /\ task[l].via = "join"
  /\ heard' = heard \cup Replayed(l)
  /\ RecoverCheck(l)
  /\ UNCHANGED <<vars, open, engine, revision, results, uttered, told, pushes, dialog, missed, severed, opening, answered, faults>>

\* game.start by the host begins the game, or finds it begun; an opening that is
\* not stored yet is generated, so that a second game.start makes up for a first
\* that was cut short.
StartGame(l) ==
  /\ PlayerOf[l] = Host
  /\ opening' = IF opening = "lobby" THEN "started" ELSE opening
  /\ IF opening = "stored" THEN l \in open /\ At(l, "rest") /\ UNCHANGED task
     ELSE Begin(l, "start", None, "opening")
  /\ UNCHANGED <<vars, open, engine, revision, results, uttered, told, pushes, dialog, missed, severed, heard, answered, faults>>

\* The first opening is stored, then broadcast; a second one is thrown away.
StoreOpening(l) ==
  /\ At(l, "opening") /\ task[l].via = "start"
  /\ opening' = "stored"
  /\ IF opening = "stored" THEN Finish(l) ELSE Go(l, "broadcast")
  /\ UNCHANGED <<vars, open, engine, revision, results, uttered, told, pushes, dialog, missed, severed, heard, answered, faults>>

BroadcastOpening(l) ==
  /\ At(l, "broadcast")
  /\ heard' = heard \cup open
  /\ Finish(l)
  /\ UNCHANGED <<vars, open, engine, revision, results, uttered, told, pushes, dialog, missed, severed, opening, answered, faults>>

-----------------------------------------------------------------------------
\* turn.completed, to those of the sockets that are still there.
Answered(a, sockets) == IF sockets \cap open = {} THEN {} ELSE {a}

\* _recover_persisted_turn_narration: a stored narration of a settled action is
\* sent again, as it is stored, and ends the message.
ReplayStored(l) ==
  /\ At(l, "recover")
  /\ LET a == task[l].action
     IN  IF told[a] # None /\ engine[a].status \in Settled
         THEN Finish(l) /\ answered' = answered \cup Answered(a, {l})
         ELSE /\ Go(l, IF task[l].via = "submit" THEN "lock" ELSE "resume")
              /\ UNCHANGED answered
  /\ UNCHANGED <<vars, open, engine, revision, results, uttered, told, pushes, dialog, missed, severed, opening, heard, faults>>

\* recover_action, here and of the proposals: the latest execution of a player's
\* own action.
RecoverAction(a, p) == IF Owner[a] = p THEN engine[a] ELSE NotSubmitted

\* Whose action a handler is at: after a vote the one who asked for the time.
PlayerAt(l) == IF task[l].via = "vote" THEN Owner[task[l].action] ELSE PlayerOf[l]

\* resume_single, whatever it was called for.
ResumeSingle(l) ==
  /\ At(l, "resume")
  /\ LET found == RecoverAction(task[l].action, PlayerAt(l))
     IN  IF found = NotSubmitted THEN Finish(l) ELSE Took(l, found.status)
  /\ UNCHANGED <<vars, open, engine, revision, results, uttered, told, pushes, dialog, missed, severed, opening, heard, answered, faults>>

-----------------------------------------------------------------------------
\* action.plan.submit.  The client submits the id of an action again when it has
\* lost the answer, and makes a new one when it has had it.
Submit(l, a) ==
  /\ opening # "lobby" /\ PlayerOf[l] = Owner[a] /\ a \notin answered
  /\ Begin(l, "submit", a, "recover")
  /\ UNCHANGED <<vars, open, engine, revision, results, uttered, told, pushes, dialog, missed, severed, opening, heard, answered, faults>>

\* The room lock, or ACTION_IN_PROGRESS.
Lock(l) ==
  /\ At(l, "lock")
  /\ \/ TryAcquire(l, Room) /\ Go(l, "plan")
     \/ Held(Room) /\ Finish(l) /\ UNCHANGED vars
  /\ UNCHANGED <<open, engine, revision, results, uttered, told, pushes, dialog, missed, severed, opening, heard, answered, faults>>

\* The utterance is recorded, and so broadcast, once; then the planner's answer: an
\* action, nothing readable (a clarification then), or an error that fails the turn.
Plan(l) ==
  /\ At(l, "plan")
  /\ uttered' = uttered \cup {task[l].action}
  /\ \/ Go(l, "submit")
     \/ task' = [task EXCEPT ![l].at = "tell", ![l].kind = "clarification"]
     \/ Finish(l)
  /\ UNCHANGED <<vars, open, engine, revision, results, told, pushes, dialog, missed, severed, opening, heard, answered, faults>>

\* HostTurnDecisionExecutor: an action the engine knows is not submitted twice,
\* its latest execution is taken; one it refuses becomes a clarification.
SubmitToEngine(l) ==
  /\ At(l, "submit")
  /\ LET a == task[l].action
     IN  IF engine[a].status # "none"
         THEN Took(l, engine[a].status) /\ UNCHANGED <<engine, revision>>
         ELSE \/ \E status \in {"resolved", "skill"} : Commit(a, status) /\ Took(l, status)
              \/ /\ engine' = [engine EXCEPT ![a].status = "consent", ![a].wait = "consent"]
                 /\ Took(l, "consent") /\ UNCHANGED revision
              \/ /\ task' = [task EXCEPT ![l].at = "narrate"]
                 /\ UNCHANGED <<engine, revision>>
  /\ UNCHANGED <<vars, open, results, uttered, told, pushes, dialog, missed, severed, opening, heard, answered, faults>>

\* The `finally`: the lock goes, if it is still this handler's.
Finally(l) ==
  /\ At(l, "finally")
  /\ Release(l)
  /\ task' = [task EXCEPT ![l] = Resting]
  /\ UNCHANGED <<open, engine, revision, results, uttered, told, pushes, dialog, missed, severed, opening, heard, answered, faults>>

-----------------------------------------------------------------------------
\* adjudication.pending, with the revision of the execution it shows.
SendDialog(l) ==
  /\ At(l, "dialog")
  /\ LET a == task[l].action
     IN  dialog' = IF l \in open
                   THEN [dialog EXCEPT ![PlayerOf[l]] = [action |-> a, status |-> task[l].saw,
                                                         revision |-> engine[a].revision,
                                                         via |-> task[l].via]]
                   ELSE dialog
  /\ Finish(l)
  /\ UNCHANGED <<vars, open, engine, revision, results, uttered, told, pushes, missed, severed, opening, heard, answered, faults>>

\* A choice in the dialog, without the room lock, that the engine takes; a stale
\* revision or a check that moved on is refused and the client puts the dialog away.
Chosen(l, statuses) ==
  LET d == dialog[PlayerOf[l]]
  IN  /\ Begin(l, "choice", d.action, "result")
      /\ d.revision = revision /\ engine[d.action].status = d.status
      /\ \E status \in statuses : Commit(d.action, status)
      /\ dialog' = [dialog EXCEPT ![PlayerOf[l]] = None]
      /\ UNCHANGED <<vars, open, results, uttered, told, pushes, missed, severed, opening, heard, answered, faults>>

\* adjudication.select: a skill, whose roll the player has then to decide about, or
\* the check is given up.
ChooseSkill(l) ==
  LET d == dialog[PlayerOf[l]]
  IN  d # None /\ d.status = "skill" /\ Chosen(l, {"cancelled", "post_roll"})

\* adjudication.post_roll: accept the roll, spend luck or push it.
DecidePostRoll(l) ==
  LET d == dialog[PlayerOf[l]]
  IN  d # None /\ d.status = "post_roll" /\ Chosen(l, {"resolved"})

ChooseInVain(l) ==
  LET d == dialog[PlayerOf[l]]
  IN  /\ d # None /\ l \in open /\ At(l, "rest")
      /\ d.revision # revision \/ engine[d.action].status # d.status
      /\ dialog' = [dialog EXCEPT ![PlayerOf[l]] = None]
      /\ UNCHANGED <<vars, open, task, engine, revision, results, uttered, told, pushes, missed, severed, opening, heard, answered, faults>>

\* The roll that decided the check stands.
ResultIsFinal(a) == engine[a].status = "resolved"

\* _emit_check_result: recorded once, before the turn that follows is told; a result
\* that breaks its contract loses the turn, after the engine has committed.
EmitCheckResult(l) ==
  /\ At(l, "result")
  /\ LET a == task[l].action
     IN  \/ /\ results' = IF ResultIsFinal(a) THEN results \cup {a} ELSE results
            /\ Go(l, "recover")
            /\ UNCHANGED missed
         \/ /\ ResultIsFinal(a) /\ Finish(l)
            /\ missed' = missed \cup {a}
            /\ UNCHANGED results
  /\ UNCHANGED <<vars, open, engine, revision, uttered, told, pushes, dialog, severed, opening, heard, answered, faults>>

\* time.advance.respond, the vote that settles a proposal: the action resumes in
\* the voter's handler, and is told on the sockets of its owner.
Vote(l, a) ==
  /\ engine[a].status = "consent"
  /\ Begin(l, "vote", a, "resume")
  /\ \/ Commit(a, "resolved")
     \/ engine' = [engine EXCEPT ![a].status = "cancelled"] /\ UNCHANGED revision
  /\ UNCHANGED <<vars, open, results, uttered, told, pushes, dialog, missed, severed, opening, heard, answered, faults>>

-----------------------------------------------------------------------------
\* _narrate: two attempts and a deterministic text; a provider that fails loses
\* the turn, after the engine has committed.
Narrate(l) ==
  /\ At(l, "narrate")
  /\ \/ /\ task' = [task EXCEPT ![l].at = "tell",
                                ![l].kind = IF task[l].saw \in Settled THEN "narration"
                                            ELSE "clarification"]
        /\ UNCHANGED missed
     \/ /\ Finish(l)
        /\ missed' = missed \cup {task[l].action}
  /\ UNCHANGED <<vars, open, engine, revision, results, uttered, told, pushes, dialog, severed, opening, heard, answered, faults>>

\* The sockets a turn is told on: its own, or after a vote those of its owner.
Audience(l) == IF task[l].via = "vote" THEN {k \in open : PlayerOf[k] = PlayerAt(l)}
               ELSE {l}

\* _send_completed_turn_message: turn.completed first, and the story of it then; with
\* no socket to tell it on, it is neither.
SendCompleted(l) ==
  /\ At(l, "tell")
  /\ LET a == task[l].action
     IN  /\ answered' = answered \cup Answered(a, Audience(l))
         /\ \/ Audience(l) # {} /\ Go(l, "record") /\ UNCHANGED missed
            \/ Audience(l) = {} /\ Finish(l) /\ missed' = missed \cup {a}
  /\ UNCHANGED <<vars, open, engine, revision, results, uttered, told, pushes, dialog, severed, opening, heard, faults>>

\* Mutant of Recorded: what the insert returns is not looked at.
RecordedAlways(a) == TRUE

\* record_event: the first narration of an action's id is stored.
Recorded(a) == told[a] = None

\* _deliver_turn_narration: committed before it is pushed, and pushed by the handler
\* whose row it is.
RecordNarration(l) ==
  /\ At(l, "record")
  /\ LET a == task[l].action
     IN  IF Recorded(a)
         THEN /\ told' = [told EXCEPT ![a] = [kind |-> task[l].kind, of |-> task[l].saw]]
              /\ Go(l, "push")
         ELSE Go(l, "persist") /\ UNCHANGED told
  /\ UNCHANGED <<vars, open, engine, revision, results, uttered, pushes, dialog, missed, severed, opening, heard, answered, faults>>

\* The chunks and narration.push: to the room, a clarification to its own socket.
PushNarration(l) ==
  /\ At(l, "push")
  /\ pushes' = [pushes EXCEPT ![task[l].action] = @ + 1]
  /\ Go(l, "persist")
  /\ UNCHANGED <<vars, open, engine, revision, results, uttered, told, dialog, missed, severed, opening, heard, answered, faults>>

\* mark_narration_persisted: the time proposal of an action that has been told no
\* longer holds the room.
MarkNarrationPersisted(l) ==
  /\ At(l, "persist")
  /\ engine' = [engine EXCEPT ![task[l].action].wait = IF @ = "consent" THEN "told" ELSE @]
  /\ Finish(l)
  /\ UNCHANGED <<vars, open, revision, results, uttered, told, pushes, dialog, missed, severed, opening, heard, answered, faults>>

-----------------------------------------------------------------------------
\* The client is gone; what its handler is at goes on.
Disconnect(l) ==
  /\ l \in open /\ faults < MaxFaults
  /\ open' = open \ {l} /\ faults' = faults + 1
  /\ UNCHANGED <<vars, task, engine, revision, results, uttered, told, pushes, dialog, missed, severed, opening, heard, answered>>

\* The process dies and starts again: lock, sockets and handlers are gone.
Cut(l) == task[l].action # None /\ engine[task[l].action].status \in Settled

ProcessRestart ==
  /\ faults < MaxFaults /\ faults' = faults + 1
  /\ Restart
  /\ open' = {} /\ task' = [l \in Loops |-> Resting]
  /\ missed' = missed \cup {task[l].action : l \in {k \in Loops : Cut(k)}}
  /\ severed' = severed \cup {task[l].action : l \in {k \in Loops : At(k, "push")}}
  /\ UNCHANGED <<engine, revision, results, uttered, told, pushes, dialog, opening, heard, answered>>

LockExpires == (Tick \/ Snapshot(Room)) /\ UNCHANGED turnVars

Step(l) ==
  \/ FinishJoin(l) \/ StoreOpening(l) \/ BroadcastOpening(l)
  \/ ReplayStored(l) \/ ResumeSingle(l)
  \/ Lock(l) \/ Plan(l) \/ SubmitToEngine(l) \/ Finally(l)
  \/ SendDialog(l) \/ EmitCheckResult(l) \/ Narrate(l)
  \/ SendCompleted(l) \/ RecordNarration(l) \/ PushNarration(l) \/ MarkNarrationPersisted(l)

TurnsNext ==
  \/ \E l \in Loops : \/ Step(l) \/ Join(l) \/ StartGame(l) \/ ChooseSkill(l) \/ DecidePostRoll(l)
                      \/ ChooseInVain(l) \/ Disconnect(l)
                      \/ \E a \in Actions : Submit(l, a) \/ Vote(l, a)
  \/ ProcessRestart
  \/ LockExpires

TurnsSpec == TurnsInit /\ [][TurnsNext]_allVars

-----------------------------------------------------------------------------
\* A narration is pushed at most once, whichever sockets, choices, votes and
\* reconnections race to tell an action, and never before its row is stored; a
\* stored one is pushed by the handler that stored it, unless the process died
\* between the two.  And it is told of what was committed: the utterance before it,
\* the engine's commit before it, and of its outcome.
ToldOnce ==
  \A a \in Actions :
    /\ pushes[a] <= 1
    /\ (pushes[a] = 1 => told[a] # None)
    /\ told[a] # None =>
         /\ a \in uttered
         /\ (pushes[a] = 1 \/ a \in severed \/ \E l \in Loops : At(l, "push") /\ task[l].action = a)
         /\ (told[a].kind = "narration" => told[a].of = engine[a].status /\ told[a].of \in Settled)

\* list_conversation_events: what a player who comes back is shown of the room; the
\* result of a check only to the one who rolled.
Conversation(p) ==
  [type : {"action.broadcast"}, action : uttered]
    \cup [type : {"narration.push"},
          action : {a \in Actions : told[a] # None /\ (told[a].kind = "narration" \/ Owner[a] = p)}]
    \cup [type : {"check.result"}, action : {a \in results : Owner[a] = p}]

\* A settled action is told by the handler that settled it, or another one is at
\* it, unless the turn was cut short: the provider failed, a check broke its
\* contract, the process died, or the vote that settled it found its owner offline.  Its player then finds it in
\* the conversation, with the result of its check once that is final and not before.
SettledIsTold ==
  \A a \in Actions :
    LET shown == {item.type : item \in {i \in Conversation(Owner[a]) : i.action = a}}
    IN  /\ engine[a].status \in Settled /\ a \notin missed /\ (\A l \in Loops : task[l].action # a)
             => /\ {"action.broadcast", "narration.push"} \subseteq shown
                /\ (engine[a].status = "resolved" /\ engine[a].wait = "check" => "check.result" \in shown)
        /\ "check.result" \in shown => engine[a].status = "resolved"

\* A socket in a room with an opening has been sent it: registered before it was
\* stored, by the broadcast; after, from the store, whatever order the join, the
\* start of the game, a restart and a reconnection come in.
OpeningReachesAll ==
  opening = "stored" =>
    \A l \in open : \/ l \in heard
                    \/ At(l, "opening")
                    \/ \E k \in Loops : At(k, "broadcast")

\* What the engine tells a player whose choice is stale, to refresh and try again
\* (adjudication.py, decide: "请刷新后重试"): the dialog that a refresh brings back
\* carries the revision the engine is at.
ResentDialogIsCurrent ==
  [][\A p \in Players :
       (dialog'[p] # dialog[p] /\ dialog'[p] # None) =>
         (dialog'[p].via = "join" => dialog'[p].revision = revision)]_allVars

\* "Send one completed turn and persist its authoritative narration once"
\* (_send_completed_turn_message): what is stored for a settled action is its
\* story, not what was answered before the action was understood.
StoredIsTheStory ==
  \A a \in Actions :
    (engine[a].status \in Settled /\ told[a] # None /\ a \notin missed /\ \A l \in Loops : task[l].action # a)
    => told[a].kind = "narration"

\* What _current_room_action_state shows of the room: a time proposal that is not
\* narrated before the lock.
ActionState ==
  LET proposed(status) == \E a \in Actions : engine[a].wait = "consent" /\ engine[a].status = status
  IN  IF proposed("consent") THEN "awaiting_player"
      ELSE IF proposed("resolved") \/ Held(Room) THEN "processing" ELSE "idle"

\* The lock goes back with the turn, however it ended: a handler that listens again
\* owns none, an entry that has not expired is that of a turn under way; and a room
\* is shown as processing only while somebody is at an action, or after the turn
\* that had to tell it was cut short.
LockIsGivenBack ==
  /\ \A l \in Loops : Running(l) => ~At(l, "rest")
  /\ Held(Room) => \E l \in Loops : Running(l) /\ loop[l].token = locks[Room].token
  /\ ActionState = "processing" =>
       \/ \E l \in Loops : ~At(l, "rest")
       \/ \E a \in missed : engine[a].wait = "consent"
=============================================================================
