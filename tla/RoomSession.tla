----------------------------- MODULE RoomSession -----------------------------
(***************************************************************************)
(* The two rows every writer of a running game shares: Room.phase and the  *)
(* game session (state_json under state_version and agenda_state_version). *)
(* They are written by the rule engine (sqlalchemy_engine_store.py), by    *)
(* the host's suspend, resume and end (service/room.py), by the inventory  *)
(* (service/inventory.py) and by the confirmation of an ending             *)
(* (service/ending.py), each in a transaction of its own.                  *)
(*                                                                         *)
(* A transaction reads what it needs (read committed), then updates one or *)
(* both rows; an UPDATE waits for the lock of its row and tests its WHERE  *)
(* on the row as committed then.  The second update of a transaction and   *)
(* its commit are one step.  A worker may die at any point, which rolls    *)
(* its transaction back.                                                   *)
(*                                                                         *)
(* Items are the portable ones; the floor is the current location.  A      *)
(* request that names another revision than the room's, an item it cannot  *)
(* move or a request id already used changes nothing and is left out.      *)
(***************************************************************************)
EXTENDS Naturals, FiniteSets

CONSTANTS Players, Items,
          Imported,    \* items that players bring from their character cards
          Drafts,      \* ending drafts
          Workers,
          Floor, None,
          MaxVersion   \* bound on state_version (model checking)

ASSUME ImportedAssumption == Imported \subseteq Items
ASSUME HolderAssumption == Floor \notin Players /\ None \notin Players \cup {Floor}
ASSUME NoneAssumption == None \notin Items \cup Drafts \cup Workers
ASSUME MaxVersionAssumption == MaxVersion \in Nat

VARIABLES room,         \* Room.phase, from InGame on
          session,      \* the game_sessions row
          check,        \* a check waits for a player (decisions and runs)
          reservation,  \* an action plan has the room (room_action_reservations)
          draft,        \* ending_drafts, with the revision each was made of
          import,       \* inventory_import_drafts, likewise
          events,       \* game_events
          roomLock, sessionLock,  \* the worker that has updated the row, or None
          job           \* what each worker's transaction is about to do

vars == <<room, session, check, reservation, draft, import, events,
          roomLock, sessionLock, job>>

-----------------------------------------------------------------------------
Holders == Players \cup {Floor, None}

\* state_json: None holds the items that are not in play yet.
State == [phase : {"playing", "ended"}, ending : Drafts \cup {None},
          open : BOOLEAN, holder : [Items -> Holders]]

Session == [state : State, version : Nat, agenda : Nat]

Event == [seq : Nat, kind : {"action", "item", "ending"},
          item : Items \cup {None}, from : Holders, to : Holders]

EndingDraft == [status : {"none", "active", "confirmed", "expired"}, revision : Nat]

ImportDraft == [status : {"none", "drafted", "confirmed"}, revision : Nat,
                by : Players \cup {None}]

Effects == {"act", "open", "close", "check", "settle"}

\* What a job does once it has read the session, by its next step.
Job ==
  [step : {"idle"}] \cup
  [step : {"engine", "engine2"}, seen : Session, effect : Effects] \cup
  [step : {"end", "end2"}, seen : Session] \cup
  [step : {"suspend", "resume"}] \cup
  [step : {"move", "import"}, seen : Session, item : Items,
   to : Players \cup {Floor}] \cup
  [step : {"confirm"}, draft : Drafts, quoted : BOOLEAN] \cup
  [step : {"ending", "ending2"}, seen : Session, draft : Drafts]

Idle == [step |-> "idle"]

TypeOK ==
  /\ room \in {"InGame", "Suspended", "Completed"}
  /\ session \in Session
  /\ check \in BOOLEAN /\ reservation \in BOOLEAN
  /\ draft \in [Drafts -> EndingDraft] /\ import \in [Imported -> ImportDraft]
  /\ \A i \in Imported : import[i].status = "drafted" => import[i].by \in Players
  /\ events \subseteq Event
  /\ roomLock \in Workers \cup {None} /\ sessionLock \in Workers \cup {None}
  /\ job \in [Workers -> Job]

StartHolder == [i \in Items |-> IF i \in Imported THEN None ELSE Floor]

\* begin_game has created the session in the transaction that made the room
\* InGame.
Init ==
  /\ room = "InGame"
  /\ session = [state |-> [phase |-> "playing", ending |-> None, open |-> FALSE,
                           holder |-> StartHolder],
                version |-> 0, agenda |-> 0]
  /\ check = FALSE /\ reservation = FALSE
  /\ draft = [d \in Drafts |-> [status |-> "none", revision |-> 0]]
  /\ import = [i \in Imported |-> [status |-> "none", revision |-> 0, by |-> None]]
  /\ events = {}
  /\ roomLock = None /\ sessionLock = None
  /\ job = [w \in Workers |-> Idle]

-----------------------------------------------------------------------------
Become(w, j) == job' = [job EXCEPT ![w] = j]

rows == <<room, session, check, reservation, draft, import, events>>

\* Mutant of Unchanged: the update compares the revision only.
UnchangedVersion(seen) == session.version = seen.version

\* Mutant of Unchanged: the update names the session and compares nothing.
UnchangedAny(seen) == TRUE

\* The WHERE of every update of the session.
Unchanged(seen) ==
  session.version = seen.version /\ session.agenda = seen.agenda

\* The update of the session: the whole state_json, the revision moved by n.
WriteSession(seen, state, n) ==
  session' = [state |-> state, version |-> seen.version + n,
              agenda |-> seen.agenda + 1]

\* The event of a step that moved the revision, the next of the sequence.
Log(seen, kind, item, from, to) ==
  events' = events \cup {[seq |-> seen.version + 1, kind |-> kind, item |-> item,
                          from |-> from, to |-> to]}

\* The transaction is over: its locks are released.
Done(w) ==
  /\ Become(w, Idle)
  /\ roomLock' = IF roomLock = w THEN None ELSE roomLock
  /\ sessionLock' = IF sessionLock = w THEN None ELSE sessionLock

\* An update matched no row, the connection was lost, the worker died or it
\* was chosen as the victim of a deadlock: nothing of it remains.
Rollback(w) ==
  /\ job[w] # Idle
  /\ Done(w)
  /\ UNCHANGED rows

\* The first of two updates waits for its row, tests it and keeps it locked.
LockRoom(w, phases, next) ==
  /\ roomLock = None
  /\ room \in phases
  /\ roomLock' = w
  /\ Become(w, next)
  /\ UNCHANGED <<rows, sessionLock>>

-----------------------------------------------------------------------------
\* The engine reads the runtime of a game that has not ended, and what the
\* command says of checks is tested there too.
EngineRead(w) ==
  /\ job[w] = Idle
  /\ session.state.phase = "playing"
  /\ session.version < MaxVersion
  /\ \E e \in Effects :
       /\ e = "settle" => check
       /\ e = "check" => ~check
       /\ Become(w, [step |-> "engine", seen |-> session, effect |-> e])
  /\ UNCHANGED <<rows, roomLock, sessionLock>>

\* commit and commit_adjudication update the room first: it must be in game.
EngineRoom(w) ==
  /\ job[w].step = "engine"
  /\ LockRoom(w, {"InGame"}, [job[w] EXCEPT !.step = "engine2"])

\* The state after an action: of its effects, only whether the ending is open
\* matters here.
After(state, effect) ==
  [phase |-> state.phase, ending |-> state.ending, holder |-> state.holder,
   open |-> IF effect = "open" THEN TRUE
            ELSE IF effect = "close" THEN FALSE ELSE state.open]

\* ... then the session, with the event and the rows of the check.
EngineCommit(w) ==
  /\ job[w].step = "engine2"
  /\ sessionLock = None
  /\ Unchanged(job[w].seen)
  /\ WriteSession(job[w].seen, After(job[w].seen.state, job[w].effect), 1)
  /\ Log(job[w].seen, "action", None, None, None)
  /\ check' = IF job[w].effect = "check" THEN TRUE
              ELSE IF job[w].effect = "settle" THEN FALSE ELSE check
  /\ Done(w)
  /\ UNCHANGED <<room, reservation, draft, import>>

\* An action plan takes the room and gives it back: the session is not touched.
Reserve == ~reservation /\ reservation' = TRUE

Unreserve == reservation /\ reservation' = FALSE

-----------------------------------------------------------------------------
\* The host's suspend and resume: a game that still plays, and one update of
\* the room under the phase that was read.
SuspendRead(w) ==
  /\ job[w] = Idle
  /\ room = "InGame" /\ session.state.phase = "playing"
  /\ Become(w, [step |-> "suspend"])
  /\ UNCHANGED <<rows, roomLock, sessionLock>>

ResumeRead(w) ==
  /\ job[w] = Idle
  /\ room = "Suspended" /\ session.state.phase = "playing"
  /\ Become(w, [step |-> "resume"])
  /\ UNCHANGED <<rows, roomLock, sessionLock>>

\* Mutant of ChangePhase: the phase is written without comparing it again.
ChangePhaseBlind(w, step, from, to) ==
  /\ job[w].step = step
  /\ roomLock = None
  /\ room' = to
  /\ Done(w)
  /\ UNCHANGED <<session, check, reservation, draft, import, events>>

ChangePhase(w, step, from, to) ==
  /\ job[w].step = step
  /\ roomLock = None
  /\ room = from
  /\ room' = to
  /\ Done(w)
  /\ UNCHANGED <<session, check, reservation, draft, import, events>>

Suspend(w) == ChangePhase(w, "suspend", "InGame", "Suspended")

Resume(w) == ChangePhase(w, "resume", "Suspended", "InGame")

\* end_game: the room first, then the session, whose revision stays.
EndRead(w) ==
  /\ job[w] = Idle
  /\ room \in {"InGame", "Suspended"}
  /\ Become(w, [step |-> "end", seen |-> session])
  /\ UNCHANGED <<rows, roomLock, sessionLock>>

EndRoom(w) ==
  /\ job[w].step = "end"
  /\ LockRoom(w, {"InGame", "Suspended"}, [job[w] EXCEPT !.step = "end2"])

EndCommit(w) ==
  LET seen == job[w].seen IN
    /\ job[w].step = "end2"
    /\ sessionLock = None
    /\ Unchanged(seen)
    /\ WriteSession(seen, [phase |-> "ended", open |-> seen.state.open,
                           ending |-> seen.state.ending,
                           holder |-> seen.state.holder], 0)
    /\ room' = "Completed"
    /\ Done(w)
    /\ UNCHANGED <<check, reservation, draft, import, events>>

-----------------------------------------------------------------------------
\* A draft of the items a player brings, made of the room's revision.
CreateImportDraft(i) ==
  /\ import[i].status = "none"
  /\ \E p \in Players :
       import' = [import EXCEPT ![i] = [status |-> "drafted", by |-> p,
                                        revision |-> session.version]]

\* Read and validate a move of item i to `to`: from the floor to the one who
\* picks it up, from its holder to the floor or to another player.  Neither the
\* phase of the room nor that of the game is looked at.
MoveRead(w) ==
  /\ job[w] = Idle
  /\ session.version < MaxVersion
  /\ \E i \in Items, to \in Players \cup {Floor} :
       /\ session.state.holder[i] # None
       /\ session.state.holder[i] = Floor => to # Floor
       /\ Become(w, [step |-> "move", seen |-> session, item |-> i, to |-> to])
  /\ UNCHANGED <<rows, roomLock, sessionLock>>

\* Mutant of ImportRead: the draft's status is not looked at.
ImportReadAnyStatus(w) ==
  /\ job[w] = Idle
  /\ session.version < MaxVersion
  /\ \E i \in Imported :
       /\ import[i].revision = session.version
       /\ Become(w, [step |-> "import", seen |-> session, item |-> i,
                     to |-> import[i].by])
  /\ UNCHANGED <<rows, roomLock, sessionLock>>

ImportRead(w) ==
  /\ job[w] = Idle
  /\ session.version < MaxVersion
  /\ \E i \in Imported :
       /\ import[i].status = "drafted" /\ import[i].revision = session.version
       /\ Become(w, [step |-> "import", seen |-> session, item |-> i,
                     to |-> import[i].by])
  /\ UNCHANGED <<rows, roomLock, sessionLock>>

\* The item changes hands in the state that was read, the session alone is
\* updated.
ItemCommit(w) ==
  LET seen == job[w].seen
      item == job[w].item
  IN
    /\ sessionLock = None
    /\ Unchanged(seen)
    /\ WriteSession(seen,
         [phase |-> seen.state.phase, ending |-> seen.state.ending,
          open |-> seen.state.open,
          holder |-> [seen.state.holder EXCEPT ![item] = job[w].to]], 1)
    /\ Log(seen, "item", item, seen.state.holder[item], job[w].to)
    /\ Done(w)
    /\ UNCHANGED <<room, check, reservation, draft>>

MoveCommit(w) ==
  /\ job[w].step = "move"
  /\ ItemCommit(w)
  /\ UNCHANGED import

ImportCommit(w) ==
  /\ job[w].step = "import"
  /\ ItemCommit(w)
  /\ import' = [import EXCEPT ![job[w].item] =
                  [status |-> "confirmed", revision |-> @.revision, by |-> @.by]]

-----------------------------------------------------------------------------
\* Nothing waits that would have to be settled before the end.
NothingPending == ~check /\ ~reservation

\* create_draft.  All it read is tested again when the draft is confirmed.
CreateDraft(d) ==
  /\ draft[d].status = "none"
  /\ session.state.phase = "playing" /\ session.state.open
  /\ NothingPending
  /\ draft' = [draft EXCEPT ![d] = [status |-> "active",
                                    revision |-> session.version]]

\* confirm_draft reads the draft; its request quotes the draft's revision or
\* another one.
ConfirmRead(w) ==
  /\ job[w] = Idle
  /\ \E d \in Drafts, quoted \in BOOLEAN :
       /\ draft[d].status = "active"
       /\ Become(w, [step |-> "confirm", draft |-> d, quoted |-> quoted])
  /\ UNCHANGED <<rows, roomLock, sessionLock>>

\* It then reads the session.  The game went on: the draft expires.
ConfirmStale(w) ==
  LET d == job[w].draft IN
    /\ job[w].step = "confirm"
    /\ ~job[w].quoted \/ draft[d].revision # session.version
    /\ draft' = [draft EXCEPT ![d] = [status |-> "expired", revision |-> @.revision]]
    /\ Done(w)
    /\ UNCHANGED <<room, session, check, reservation, import, events>>

\* Mutant of ConfirmCheck: the draft's revision is not compared.
ConfirmCheckAnyRevision(w) ==
  /\ job[w].step = "confirm" /\ job[w].quoted
  /\ session.state.phase = "playing" /\ session.state.open
  /\ NothingPending
  /\ session.version < MaxVersion
  /\ Become(w, [step |-> "ending", seen |-> session, draft |-> job[w].draft])
  /\ UNCHANGED <<rows, roomLock, sessionLock>>

\* Or it may end.
ConfirmCheck(w) ==
  /\ job[w].step = "confirm" /\ job[w].quoted
  /\ draft[job[w].draft].revision = session.version
  /\ session.state.phase = "playing" /\ session.state.open
  /\ NothingPending
  /\ session.version < MaxVersion
  /\ Become(w, [step |-> "ending", seen |-> session, draft |-> job[w].draft])
  /\ UNCHANGED <<rows, roomLock, sessionLock>>

\* The session is updated first ...
ConfirmSession(w) ==
  /\ job[w].step = "ending"
  /\ sessionLock = None
  /\ Unchanged(job[w].seen)
  /\ sessionLock' = w
  /\ Become(w, [job[w] EXCEPT !.step = "ending2"])
  /\ UNCHANGED <<rows, roomLock>>

\* ... then the room, and the draft is confirmed with it.
ConfirmCommit(w) ==
  LET seen == job[w].seen
      d == job[w].draft
  IN
    /\ job[w].step = "ending2"
    /\ roomLock = None
    /\ room \in {"InGame", "Suspended"}
    /\ WriteSession(seen, [phase |-> "ended", ending |-> d, open |-> FALSE,
                           holder |-> seen.state.holder], 1)
    /\ room' = "Completed"
    /\ Log(seen, "ending", None, None, None)
    /\ draft' = [draft EXCEPT ![d] = [status |-> "confirmed", revision |-> @.revision]]
    /\ Done(w)
    /\ UNCHANGED <<check, reservation, import>>

-----------------------------------------------------------------------------
Engine(w) == EngineRead(w) \/ EngineRoom(w) \/ EngineCommit(w)

Host(w) ==
  \/ SuspendRead(w) \/ Suspend(w)
  \/ ResumeRead(w) \/ Resume(w)
  \/ EndRead(w) \/ EndRoom(w) \/ EndCommit(w)

Inventory(w) == MoveRead(w) \/ MoveCommit(w) \/ ImportRead(w) \/ ImportCommit(w)

Ending(w) ==
  \/ ConfirmRead(w) \/ ConfirmStale(w) \/ ConfirmCheck(w)
  \/ ConfirmSession(w) \/ ConfirmCommit(w)

Plan ==
  /\ Reserve \/ Unreserve
  /\ UNCHANGED <<room, session, check, draft, import, events, roomLock,
                 sessionLock, job>>

DraftItems ==
  /\ \E i \in Imported : CreateImportDraft(i)
  /\ UNCHANGED <<room, session, check, reservation, draft, events, roomLock,
                 sessionLock, job>>

DraftEnding ==
  /\ \E d \in Drafts : CreateDraft(d)
  /\ UNCHANGED <<room, session, check, reservation, import, events, roomLock,
                 sessionLock, job>>

Next ==
  \/ Plan \/ DraftItems \/ DraftEnding
  \/ \E w \in Workers :
       Engine(w) \/ Host(w) \/ Inventory(w) \/ Ending(w) \/ Rollback(w)

Spec == Init /\ [][Next]_vars

-----------------------------------------------------------------------------
\* The room is completed exactly when its game has ended: no order of the
\* host's end, a suspend or resume, a confirmed ending and the engine leaves a
\* finished game in a running room or the other way round.
EndedTogether == (room = "Completed") <=> (session.state.phase = "ended")

\* The end stays: no writer that read the game while it played brings it back
\* or changes how it ended, though the host's end moves no revision.
EndIsFinal ==
  [][session.state.phase = "ended" =>
       session'.state.phase = "ended" /\ session'.state.ending = session.state.ending]_vars

\* The latest event of item i up to sequence n, and where that left it.
MovesUpTo(i, n) == {e \in events : e.item = i /\ e.seq <= n}

HolderAt(i, n) ==
  IF MovesUpTo(i, n) = {} THEN StartHolder[i]
  ELSE (CHOOSE e \in MovesUpTo(i, n) : \A f \in MovesUpTo(i, n) : f.seq <= e.seq).to

\* Every item is where its committed events put it, and each event took it from
\* where the one before had left it: two players cannot take one item, and no
\* writer of the whole state undoes a move it did not see.
CustodyIsTheLog ==
  /\ \A i \in Items : session.state.holder[i] = HolderAt(i, session.version)
  /\ \A e \in events : e.kind = "item" => e.from = HolderAt(e.item, e.seq - 1)

\* The revision counts the events: one event to each revision, none missing.
EventsAreTheRevisions ==
  /\ {e.seq : e \in events} = 1..session.version
  /\ \A e, f \in events : e.seq = f.seq => e = f

\* A game that was ended by a draft ended on what its player had read: nothing
\* happened between the draft and the end, it ended by one draft only, and no
\* check was left waiting.
EndsOnWhatWasRead ==
  session.state.ending # None =>
    /\ {e.seq : e \in {f \in events : f.kind = "ending"}}
         = {draft[session.state.ending].revision + 1}
    /\ ~check

\* The comment of end_game (app/service/room.py:788): the room is locked before
\* the session by everyone, so no two transactions wait for each other.
NoWaitCycle == roomLock = None \/ sessionLock = None \/ roomLock = sessionLock
=============================================================================
