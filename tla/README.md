# TLA+ specifications of the TRPG backend

The repository is a server for Call-of-Cthulhu tables with an AI keeper. Players
talk to it over a WebSocket; a *host agent* (language model calls) turns what
they say into structured adjudications; a deterministic *rule engine* decides
checks, rolls and effects; PostgreSQL, or SQLite by default, keeps the state.
Almost everything that can go wrong goes wrong between those parts: a turn takes
many seconds and awaits a model in its middle, several players act at once, a
client retries what it got no answer to, and a process may die between two
commits. These modules model that part of the system: who may write what, in
which order, and what stays true whatever the order was.

Paths below are relative to `src/`; `ws.py`, `room.py`, ... are
`trpg-backend/app/controller/ws.py`, `trpg-backend/app/service/room.py`, and
`collaboration_framework/` is `agent-collaboration-framework/collaboration_framework/`.

## 1. The system

### 1.1 Parts, state and operations

| part | state it keeps | operations | modelled in |
|---|---|---|---|
| room action lock (`service/action_lock.py`) | a dict of the process: room -> token, expiry | `try_acquire`, `snapshot`, `release` | `RoomActionLock` |
| adjudication engine (`collaboration_framework/engine/adjudication.py`) over `adapters/sqlalchemy_engine_store.py` | `game_sessions` (state_json, state_version), `pending_check_decisions`, `check_runs`, `adjudication_command_executions`, `game_events` | `submit`, `decide`, `decide_post_roll`, `get_status` | `Adjudication`, promise in `CheckProtocol` |
| action plan saga (`collaboration_framework/host/application/action_plan_orchestrator.py`) over `adapters/sqlalchemy_action_plan_store.py` | `action_plan_runs` (version, lease, cursor, steps), `room_action_reservations` | `start`, `resume`, `cancel_remaining`, `request_cancel_after_current`, `mark_narration_persisted` | `ActionPlan` |
| time consent (`service/time_advance.py`) | `time_advance_proposals`, a lock of the process | `create_from_adjudication`, `bind_parent_action`, `respond`, `get_pending`, the engine wrapper | `TimeConsent` |
| running game's writers: host (`service/room.py`), inventory (`service/inventory.py`), ending (`service/ending.py`) | `rooms.phase`, `game_sessions`, `ending_drafts`, `inventory_import_drafts` | suspend, resume, end; import, custody; draft, confirm | `RoomSession` |
| portrait generation (`service/portrait_generation.py`) | `portrait_generation_tasks`, coroutines and cancel events of the process | create, `_run`, `cancel`, `recover_interrupted` | `PortraitGeneration` |
| turns and narration (`ws.py`, `core/turn.py`, `core/action_plan_turn.py`, `core/websocket.py`) | one loop per socket, the socket registry, event rows, what each socket was sent | join and recover, submit, choose, vote, narrate, replay | `Turns` |
| host decisions (`core/action_plan_turn.py`, `host/application/preservation*.py`) | none of their own; the turn's copy of the state across its awaits | decide without a model, normalise a proposal, bind, repair | `HostDecisions`, `Preservation`, `HostTurn` |
| rules, effects, predicates, agendas (`collaboration_framework/engine`, `registry`) | `GameState`: knowledge, entities, items, time, agendas | validate and apply effects, wake and walk rules | `WorldState`, `Effects`, `RuleWalk`, `World` |
| navigation (`engine/navigation.py`), projection (`engine/projection_v3.py`), persistent effects | none | resolve a target, find a route; the view of a player; what has to last | `Navigation`, `Projection`, `Persistence` |
| module validation (`contracts/module_v3.py`, `module/validation_v3.py`) | none | verdict on a draft | `ModuleValidation` |
| lobby (`service/room.py`) and character cards (`service/character.py`, `core/coc7_rules.py`) | `rooms`, `room_players`, cards, drafts, the library of an account | join, select module, start story, begin game; draft, edit, roll, complete | `RoomLobby`, `CharacterRules` |
| client SDK (`trpg-sdk/src/resources/room-socket.ts`) and room page | one WebSocket, promises, cached view; queue and reveal of narrations | connect, send, match answers, reveal, show | `RoomClient` |
| host speech (`service/host_speech.py`), speech player (`useHostSpeech.ts`) | cache, calls in flight, limits; queue, generation, audio element | ask, answer, change voice; enqueue, stop, read out | `HostSpeech`, `SpeechPlayer` |
| recent history (`adapters/sqlalchemy_recent_history.py`), chat (`service/chat.py`) | none; `chat_messages` | read the turns before; send, page, clear | `RecentHistory`, `RoomChat` |
| engine service of v1/v2 modules, dice, CoC7 tables, publishing and cache, model adapters, accounts, row types, start-up | see `PROJECT.json` | | not modelled; section 7 says why |

### 1.2 How they interact

    player --ws.py--> RoomActionLock --> ActionPlan (orchestrator, model calls)
                                            | submit / get_status
                                            v
                      TimeConsent wraps --> Adjudication (engine)
                                            | one transaction per command
                                            v
           Room.phase + GameSession  <-- host, inventory, ending (RoomSession)

A submitted action takes the room lock, becomes a plan row with a reservation of
the room, and is advanced step by step; each step goes to the engine under the
request id of the step. A check leaves the plan waiting; the player's choice
goes to the engine directly, and afterwards the handler resumes the plan. A
step that moves the clock of a party is refused by the engine and kept in a
proposal until everybody has agreed. All of them end in compare-and-swap
updates of the same two rows, which the host, the inventory and the ending
write too, without the lock and without the plan.

Before that, the lobby makes a session out of a room, a module that passed
validation and the cards of its players. Within a turn, the host's code decides
what it can by itself, lets a model propose the rest, and repairs what the engine
refuses; the engine applies effects to the world and lets them wake rules. Behind
it, the turn is told: a narration is stored once, pushed to the room's
sockets, revealed by the page and read aloud, and read back by the next turn.

There are four separate ways in which the code excludes concurrent work, and
each covers a different set of writers: the lock (one process, 60 s), the
reservation and lease of a plan (database, 5 min and 30 s), the revision
(`state_version`, `agenda_state_version`) and row locks (not on SQLite). Most of
the hazards in `PROJECT.json` are places where one of them is taken for another.

### 1.3 What is hard, and what correct means

| part | hard behaviour | correct means |
|---|---|---|
| lock | a turn outlives its lock and reaches its `finally` late | one turn in its lock time per room; nobody loses an entry that is his |
| engine | retried, replayed and racing commands; the host ends the game under an open check | each action runs `CheckProtocol` once; rows agree with each other; luck is never spent twice; a roll stands |
| plan | crash between the engine's commit and the plan's; slow workers that lost their lease; cancel while a roll is decided | steps reach the engine in order; the plan says what the engine did; an accepted cancel holds; a finished plan hides no effect |
| time consent | two transactions (engine, proposal); votes that race, are repeated or lost; joins that converge the proposal | time moves by the consent of all; a proposal reports what happened; it ends once and resumes its action once |
| room and session | four writers of two rows, of which some move no revision | room and game end together and for good; items are where the log put them; a game ends on what its player read |
| portraits | cancel at any moment of a background task; restart | a cancelled task makes no portrait; no older task wins; a task nobody cancels ends |
| turns | several handlers come to tell one action; reconnection, restart, a lock that expires under its holder | told once, of what was committed; not forgotten; the lock goes back |
| host | a check commits between two awaits of a turn; a model's repair of its own proposal | what the host decides the engine takes; a repair does not smuggle effects in; a named place wins |
| world | long sequences of effects over state that changed since they were validated; rules that wake rules | nothing refers to what is not there; secrets leave by an effect that tells them; every cascade is accounted for |
| lobby | requests that interleave between load and commit, without versions | one game per room, of cards that the rules accept, rolled by the server |
| client | lines that break, close late, or are replaced; fragments that repeat | one line; every promise settled; every narration shown, once |
| speech, history, chat | awaits under a shared cache; coroutines that cannot be cancelled; reads beside inserts | nothing bought twice; nothing stale is heard; nothing is told to whom it does not belong, or lost between pages |

## 2. Modules

One module per component, with `MC<module>` beside it that gives the
constants of the checked instance a shape (symmetry, functions) and
`<module>_proofs` where theorems are proved (`Turns_proofs` has those of the lock as
well, `Services_proofs` those of the portraits, the speech service, the player, the history
and the chat). `CheckProtocol` is the abstract
specification of the engine: `Adjudication` is shown to implement it, and
`ActionPlan` uses it as its engine, so that the saga is checked against exactly
what the engine was shown to promise. Mutated forms of a definition stand before
it, under a comment that calls them mutants; no specification uses them.

**RoomActionLock.** `locks` is the dict `_locks`, `loop` what every handler task
holds, `now` the monotonic clock. `TryAcquire` overwrites an expired entry as
`try_acquire` does, `Release` is the `finally` with its token test, `Snapshot`
the busy query that drops an expired entry, `Restart` loses both dict and tasks.
Tokens are counted (`uuid4` never repeats).

**Adjudication.** A command is a transaction of two steps. `Load` is the read and
all tests up to the commit (`Valid...`, from `_replay`, `_validate_identity`,
`_require_revision` and the tests of each command), and one action per outcome
of a command is its commit, all of which repeat the compare-and-swap of
`commit_adjudication` (`MayCommit`). `EndGame` is the host's `end_game`, which
leaves the revision alone. A roll is any result the dice allow, effects are
the fact that they were committed, and a menu is `PostRollOptions`, which is
never empty: the code waits for a decision after a success as well.

**ActionPlan.** A worker (one `start` or `resume`) holds a copy of the row.
`pc` names its place in `advance_one_window`; every write is a compare-and-swap,
modelled by `fresh`: a write of one worker makes the copies of all others stale.
`Adopted` is `_apply_execution` for every execution the engine can return,
`ValidRun` is `validate_run`, and `Write` the store with its reservation rules,
which differ between the two stores (`Sql`). `Abandon` is a crash, a lost
connection, or a conflict, at any point. Time is `LeaseExpires` and
`ReservationExpires`. Steps of the engine that the player causes
(`PlayerDecides`, `PlayerSettles`) come at any moment.

**TimeConsent.** `proposal` is the table, a call is a `respond` or a
`get_pending` with the places where it awaits (`asking` the engine, `judging`,
`submitting`, `approving`), a worker is a turn that asks for consent. `Commit` is
the engine's transaction, before and apart from `Approve`. `RowLocks`
chooses between PostgreSQL, where a call keeps the row locked, and SQLite, where
only `respond` calls exclude each other. `said` and `resumed` are history:
what players answered, and how often a call resumed the action.

**RoomSession.** `room` and `session` are the two rows. A worker's `job` is a
transaction between its read and its commit, with what it read; an update waits
for the row's lock and tests its WHERE then. The writers are the engine's commit
(room first, then session), `suspend_game`, `resume_game`, `end_game`,
`create_import_draft`, `confirm_import_draft`, `change_custody`, `create_draft`
and `confirm_draft` (session first, then room). `Rollback` is every way in which
a transaction ends without a commit.

**PortraitGeneration.** `run` is where the coroutine of a task is, `call` where
a cancel is between its read, commit, message and interruption, `told` the
event. Handlers (`finishing`, `failing`) are stages of their own, because
an interruption in a handler is not caught. `Restart` is the end of the process
and `recover_interrupted` of the next.

**Turns** EXTENDS `RoomActionLock`: its loops are the sockets, and `task[l]` says
at which await of which message a loop's handler is and what it has read before
it. `engine` holds of each action what the handlers look at (status, revision,
kind of wait), `told` and `pushes` the narration stored and pushed, `opening` the
first narration of a game. A turn goes on when its socket is gone; `Disconnect`
only takes the socket out of the registry, `ProcessRestart` ends all turns.
`Vote` is a `time.respond`, whose approval is narrated for its owner, not
for the one who voted last. A turn is told in four steps, each an await or a
commit: `SendCompleted`, `RecordNarration`, `PushNarration`, `MarkNarrationPersisted`;
a restart may come between any two. `missed` and `severed` are history, which no
action reads: the actions whose telling was cut short after the engine's commit, and
those whose narration was stored and, the process having died, not pushed.

**WorldState, Navigation, Effects, RuleWalk, Containment, Projection, Persistence** are the
operators of the engine on one `GameState`, a record: `WorldState` its shape, its
initial value and the predicates of rules; `Navigation` the whole of
`navigation.py`, with knowledge by player and party and a route as a shortest
path; `Effects` the validation of a sequence of effects against the vocabulary that
it builds up itself, the authority each needs, and `Apply`; `RuleWalk` which rules
an event wakes and the walk through one under its budget; `Containment` what a place
is in, up to a place that is in none; `Projection` what a
player and a keeper are shown; `Persistence` which proposals must last, and do.
None of them has a RECURSIVE operator: walks and closures are recursive functions.

**World** EXTENDS them with a transaction (`run`) that submits an adjudication,
rolls, applies it effect by effect and fires its cascade, and with checks that wait
(`pending`) while others commit. Effects are validated at submission and
applied later, without another look at their ids: that is where `HangsTogether`
could break. **ModuleValidation** EXTENDS `World`: the issues of the schema and of
`validation_v3.py` as a set of codes with places, and `Loaded`, what the engine
makes of a draft that passed. It reads a trail through `Containment`, instantiated with
the loaded draft in the place of the module (`EngineOf`).

**HostDecisions, Preservation, HostTurn.** An utterance is a record of what its
words hit (a place, a person, a venue, companions): the matching of words is
abstracted to its outcome. `Deterministic` is what the host decides without a model,
`Normalized` what it makes of a model's proposal, `Preserves` whether a repair
keeps the semantics of what it repairs. `HostTurn` runs them over
the awaits of a turn on the state of `World`, with a choice in a check (`Engine`)
committing at any of them. `RulesFit` is what rules must be like for
`HostDecisionsStand`: an assumption the runs check of their module and the proof makes.

**CharacterRules, RoomLobby.** `CharacterRules` judges a card by any ruleset: the
points of an occupation and of interests, the free slots of an occupation (a
matching, compared with the best by enumeration), point buy and rolls.
`RoomLobby` runs every request as a load (with its tests) and a commit of the
columns it changed; only `players` has a unique key, only a begun session and the
room's phase at begin are compared. `rolled`, `identities`, `begun` and `seeded` are history.

**RoomClient.** `lines` are the WebSockets ever opened, `ws` the one the client
keeps, `pending` the promises, `queue`, `revealing` and `shown` the page's
narrations. The server is what its frames say. `Tick` is the reveal timer.

**HostSpeech, SpeechPlayer, RecentHistory, RoomChat** share nothing with each other
or with `PortraitGeneration`; `MCServices` moves one of the five in each behaviour
and leaves the others as they are, so that one run explores each by itself.
`HostSpeech` steps from await to await under its lock; `SpeechPlayer` gives every
generation its coroutine, and the microtasks behind an event run before anything
else; `RecentHistory` reads for every player and turn after every event, long
after the turn it reads for; `RoomChat` gives an insert its number before its
commit, which is what makes a page's cursor delicate. Both are read back by `ORDER BY
... DESC LIMIT`, which is `Descending`, in a module of its own.

## 3. What is checked

All runs are exhaustive over their instance. `CHECK_DEADLOCK FALSE` is set
in all of them: the system may stop, when every action is settled, the game has
ended, or every counter is at its bound.

| run | instance | shows |
|---|---|---|
| `adjudication` | 2 actions of one actor, 2 workers, 4 clicks, luck 2, 6 commits | `RowsAgree`, `CommittedOnWhatItSaw`, `LuckIsAccountedFor`, `RollsStand`, `ImplementsProtocol` |
| `action_plan` | one plan of 3 steps, 2 workers, windows of 2, 1 repair, SQL store, leases expire under live workers | `PlanTellsTheTruth`, `ExecutionsCanBeAdopted`, `CancelHolds` |
| `action_plan_room` | 2 plans of 2 steps, 2 workers, in-memory store, reservations expire | `EffectsReported` |
| `action_plan_two_unfinished` | 3 plans, SQL store | `OnePlanPerRoom` is violated |
| `time_consent` | 3 players, 2 actions, 1 turn at a time, 2 calls, row locks, 2 proposals | `ConsentGiven`, `StatusTellsTheTruth`, `ResumedOnce` |
| `room_session` | 2 players, 2 items (one imported), 1 draft, 2 transactions at a time, 3 revisions | `EndedTogether`, `CustodyIsTheLog`, `EndsOnWhatWasRead` |
| `turns` | 3 sockets of 2 players, 1 action, 1 lock expiry, 1 fault (a restart or closed socket), 3 commits | `OneLiveLoop`, `ToldOnce`, `SettledIsTold`, `OpeningReachesAll`, `LockIsGivenBack` |
| `world` | 2 players, 4 places with gates, secrets and rules that wake each other, 3 commands, 1 check waiting, agenda depth 3, about 900 drafts | `HangsTogether`, `ShownExitsAreAnswered`, `AgendaAccounts`, `SecretsStay`, `TravelNeedsAWay`, `PublishedModulesRun` |
| `host` | 1 player over the same house, 2 commits, 2 repairs | `HostDecisionsStand`, `NothingSmuggledIn`, `NamedPlaceWins` |
| `lobby` | 2 accounts, 2 requests at once, 1 module, 2 builds, 2 sets of attributes, 4 writes | `BegunOnce`, `ActorsAreFit`, `RollIsAttested` |
| `client` | 2 rooms, 2 lines, 1 action, 2 narrations of 2 fragments | `ViewIsOfTheRoom`, `NobodyWaitsInVain`, `ReceivedIsShown` |
| `services` | portraits: 1 character, 2 tasks, 2 cancels, 1 restart; speech: 3 requests of 2 players, 2 sentences, 2 voices, cache of 2; player: 2 messages, 1 stop; history: 3 turns of 2 players in 2 scenes; chat: 3 sockets, pages of 1, 4 inserts | `CancelHolds`, `EndsUnlessCancelled`, `BoughtOnce`, `StaleIsSilent`, `ReadBackIsTrue` |

### 3.1 Why the bounds are enough

- **Two workers** (transactions, calls, requests) at a time are what a race needs:
  each property relates what one actor read to what one other wrote meanwhile, and
  a third actor can be played by one of the two after it is done, since a job
  carries nothing over. `turns` has three sockets: two of one player, who may both
  come to tell his action, and one of another, who votes or is told.
- **`MaxTime`, `MaxTokens`** of `turns` let the lock expire under its holder and be
  taken over by another; one fault is enough, because what a fault leaves behind
  is in the store and the next handler starts from there.
- **`MaxRevision` = 6** of `Adjudication` is exactly two checks from submit to
  settlement; luck 2 and prices to 2 make the two checks compete for one balance.
  Four clicks let every one of these commits have its own request id, and be
  replayed under it.
- **Three steps, windows of two** give a plan a checkpoint in its middle, a step
  before and a step after the one that waits. The room run has two plans instead
  and windows of one, so that every step ends a window.
- **Two proposals** let a new one follow one that ended while a call on the old
  is still running; **`MaxRevision` = 1** of `TimeConsent` bounds only the commits
  of others, which make a proposal stale; consented moves are not bounded by it.
- **`MaxVersion` = 3** of `RoomSession` holds an import or an opened ending, a
  move of an item and the end, in every order.
- **Three commands** of `World` are a check that is submitted, a command that
  changes the world under it, and its commit. The adjudications offered have an
  effect of every type, and pairs of which one takes away what the other is about:
  both create a coin, use up the diary that is carried, hide what was shown.
- **The drafts** of `PublishedModulesRun` are one small house in every
  hierarchy of its four places, with every graph of one rule's steps, and with one
  wrong name in each place that has one.
- **`Overlapping`** of `lobby` names the kinds of requests that others may
  come between. Joins, begins and drafts overlap. Two kinds are left out because
  a property fails with them, which section 6 tells: a slow `start_story`, and an
  edit of a card beside its completion.
- **Two lines and two narrations** let an old line close after a new one is up, and a
  narration arrive while another is revealed; two fragments are the fewest of which
  one is lost.
- **A cache of 2 bytes** holds one sentence of two or two of one, so that entries
  are evicted; **`MaxTurns` = 2** of three turns makes the history choose.

`action_plan_room` takes the in-memory store for a reason: on the SQL store a
plan can lose its reservation as the finding of `action_plan_two_unfinished`
says. It also takes workers that may crash but do not outlive their lease
(`LeaseTtl = FALSE`): one that does may submit after another call has cancelled
its plan, since nothing is compared between the freeze and the submission, and
`EffectsReported` does not survive that. `action_plan` has the slow workers, and
its properties hold in spite of them. `time_consent` has one turn at a time, which
is what the room lock arranges within 60 s; with two, a second proposal can be
open (section 6).

### 3.2 Fairness

`PortraitGeneration` has weak fairness on every step of a coroutine and of a cancel
call. The event loop runs a task that is ready, and every service call has a
timeout (`portrait_timeout_seconds` and those of the clients), so each step is
taken. `EndsUnlessCancelled` is checked under it.

`RoomClient` has weak fairness on `OnClose`, `Tick` and `CommitNarration`: the browser
delivers the close event of a line that is lost, runs the reveal's interval, and
React commits a state that was set. Nothing is assumed of the server.
`NobodyWaitsInVain` and the second part of `ReceivedIsShown` are checked under it.

The other modules have none, on purpose. Nothing in the code resumes a plan,
ends an expired proposal or finishes a transaction by itself: each waits for a
player to act or to join, and the process may die at any moment. A progress
property under fairness for those steps would assume what the code does not do;
`SettledIsTold` says as a safety property what can be said: whoever settled an
action is at telling it, or a fault came between.

## 4. What is proved

The theorems hold for every number of players, actions, workers, calls and
rooms, and have no assumptions but the named `ASSUME`s of the modules. TLC
has checked the inductive invariants on the instances of section 3 as well.

**Turns_proofs** (the lock): `TypeCorrect`, `OneLiveLoopTheorem`,
`LiveLoopKeepsItsEntryTheorem`. The invariant `LockInv` adds to the types that
tokens are unique and issued (`TokensAreUnique`), that a running loop names a
room, and that a live loop's entry is its own. The last implies `OneLiveLoop`: two
live loops of a room would own one entry, hence share a token. Uniqueness is needed
where a late `Release` compares tokens.

**Adjudication_proofs**: `AdjudicationTypes`, `RowsAgreeTheorem`, `Serialised`,
`LuckIsAccountedForTheorem`,
`EngineImplementsProtocol`, `RollsStandTheorem`. The inductive invariant is
`IInv == TypeOK /\ ValidatedJobs /\ RowsAgree /\ Submitted /\ CommittedOnWhatItSaw`.
`ValidatedJobs` carries the tests of a `Load` to its commit: while the revision is
the one a job has read, what was tested of its action (status, version, menu,
luck) is still so, for everything that changes it moves the revision. Without
it nothing is known of a row when a commit writes it. `Submitted` ties an
action's rows to its submission in the log, so that a second submit of the same
action is a replay. Type correctness is part of the
argument, not a formality: that luck stays in `Nat` is the test of `_spend_luck`
at work. `LuckIsAccountedFor` has an invariant of its own, `LuckInv`: finitely many rolls were
paid for, what was paid for stays paid for, a roll that may still be bought is not paid for,
and balance and bill make the first balance. Its lemmas say what a sum over a finite set is
without an induction theorem: of the sets for which one of them fails a smallest one would exist
(`SmallestSet`, from the well-foundedness of strict inclusion), and taking an
element out of it gives a smaller one (`AddsIsUnique` to `BillTakesOut`).
`EngineImplementsProtocol` proves step by step that each commit is the
`CheckProtocol` step of its action, and every other action a stutter.

**TimeConsent_proofs**: `TimeConsentTypes`, `ConsentGivenTheorem`,
`ResumedOnceTheorem`, `StatusTellsTheTruthTheorem`, `EndIsFinalTheorem`; the
last two for databases with row locks (`RowLocks`), as their statements say.
The invariant is `IInv == TypeOK /\ VoteInv`. `Exclusive` says which calls keep
each other out: by the row, or, without row locks, by the lock of the process
among the votes only. `CallKnows` is what a call has established when it reaches
its next await: a voter said yes, one that submits has every player's yes, one
past the engine finds its action moved, and a proposal that is held is pending
until its call writes it. `VotesAreSaid` keeps stored votes to real ones, except
on an approved row, which `AskEngine` fills in.

**RoomSession_proofs**: `RoomSessionTypes`, `EndedTogetherTheorem`,
`EndIsFinalTheorem`, `CustodyTheorem`, `EventsTheorem`,
`EndsOnWhatWasReadTheorem`: every property of the run, for any numbers. The
invariant is `IInv == TypeOK /\ (\A w : JobKnows(w)) /\ RowsAreRight`. `JobKnows`
is the argument: every write of the session moves `agenda_state_version`, so a
transaction whose WHERE matches (`UnchangedIsSeen`) has read the session as it
is, and what it tested then is still true: a game that plays for the engine, the
draft's revision and no open check for an ending, which keeps this from its
first update to its second by the row it holds. `EndingIsLogged` connects the
ending, its draft and its event. The lemmas `LogMovesOneItem` and `LoggedWrite`
say what one more event does to `HolderAt`, whose CHOOSE of the latest event is
unique because sequence numbers are.

**Services_proofs** (the portraits): `PortraitTypes`, `CancelHoldsTheorem`,
`NewestPortraitTheorem`, and for databases with row locks
`PortraitIsCompletedTheorem` and `DoneIsDoneTheorem`. The invariant is
`IInv == TypeOK /\ Sound /\ Locked`. `Sound` holds on every database: a task that
completed or failed has no coroutine at work (`NotAtWork`), tasks are made in the order of
their numbers, and a task that may still complete is the newest of its character
(`OnlyNewest`), which is what the unique index on active rows gives. A start can
write `generating` over a cancel it has not seen and make the row active again
beside a newer one; the mark stays, and a marked task never completes, which is
why `RowIsSound` ties the status to the mark. `Locked` is what the row
locks add: the row of a call between its read and its write has not ended
(`CallHolds`), so a late cancel cannot overwrite `completed`.

**ActionPlan_proofs**: `PlanInvariant`, `PlanTypeCorrect`, `StepsInOrderTheorem`,
`PlanTellsTheTruthTheorem`, `ExecutionsCanBeAdoptedTheorem`, `ForwardOnlyTheorem`,
`CancelHoldsTheorem` and `SagaUsesTheEngine`, for both stores, any number of plans,
steps and workers, with leases that expire under live workers; and
`EffectsReportedTheorem` for leases that do not (`~LeaseTtl`, as its run has it).
The invariant is `PlanInv == TypeOK /\ RowFits /\ JobFits`. `RowFits` ties a row to
the engine: what is before its index succeeded there, what is after it was not
submitted. `JobFits` says what a worker knows at each await, and has two halves,
since a write makes every other copy of the row old (`Outdated`): with a fresh copy
`CopyFits` ties the await to the row as it is, so the writes that follow keep
`RowFits`; with an old one only what the engine said remains, which stays true.
The index of a plan never goes back, so a late submission of an old worker is one
of a step that was reached, and a replay. `RowFits` asks `ValidRun` only of the
statuses that reserve the room: a cancelled row need not be readable
(section 6), and no proof may say so. `SagaUsesTheEngine` is the composition: with
every action, the saga does one operation of `CheckProtocol` or none. For
`EffectsReported` a second invariant, `TellInv`, adds that a worker with a fresh copy
has the lease alone, and never submits with an old one (`LeaseFits`), and that a row without
an execution is of a step which the engine has not taken (`RowTells`). TLC
has checked `PlanInv` on both passing runs and `TellInv` on `action_plan_room`.

**Turns_proofs** (the turns): `TurnsImplementTheLock`, `TurnsInvariant`, `TurnsTypeCorrect`,
`ToldOnceTheorem`, `SettledIsToldTheorem`, `OpeningReachesAllTheorem`,
`LockIsGivenBackTheorem` and `OneLiveTurn`: every property of the run, for any
number of sockets, players, actions, commits and faults. The first is the
refinement `TurnsSpec => Spec` of `RoomActionLock`: each step of a turn, a
restart or a closed socket included, is a step of the lock or leaves it alone. So
`LockInv` holds of the room without being proved again, and `OneLiveTurn` follows
from `OneLiveLoopTheorem`. The invariant is `TurnsInv == LockInv /\ EntryHasOwner /\ TurnInv`:
- `Fits`, `SawIsTrue`: where a handler is goes with the message it is at, and what
  it saw before an await is still so; nothing undoes a settled action.
- `HasTeller`: a settled action that is neither told nor missed has a handler on its
  way to tell it. It needs `VotedHasTeller`, since an action whose consent was voted
  is told by the handler of the last vote and not by its owner's, and `WaitFits`,
  which keeps the two kinds apart.
- `OnePusher` with `ToldOnce`: the stored row is what makes a second telling harmless,
  since whoever comes late finds it (`Recorded`); only who stored it comes to push it.
- `ResultsStand`, `DialogsAreOwn`, `UtteredFirst`: results, dialogs and utterances go
  with the engine's status.
- `OpeningHeard`: a socket that has not heard the stored opening is joining, or its
  broadcast is under way. It is stronger than `OpeningReachesAll`, which lets any
  handler `At` the opening count: that of a `game.start` sends nothing to its socket.
- `EntryHasOwner`: an entry of the lock is of a loop; with `LockInv` it is of a running one.

What an action does to the handlers is stated once, by thirteen lemmas (`GoMoves` to
`ToldOfMoved`), and the lemma of an action (`JoinKeeps` and the rest) has one
step per conjunct of `TurnInv`.

**Rooms_proofs** (the lobby): `LobbyTypeCorrect`, `OnePlayerTheorem`, `BegunOnceTheorem`,
`RollIsAttestedTheorem`, `ActorsAreJudgedTheorem`, for any accounts, modules, cards and
requests in flight. The last three say in their statements which requests may not
be interrupted between load and commit, as their run has it: `BegunOnce` assumes that
neither "start" nor "select" is in `Overlapping`, the two about cards that "card" is not.
Without these assumptions they are false (section 6), because the code compares nothing
there; joins, drafts and game starts race in all of them.
- `LobbyTypes`: types, and `CardsStay`: a request on a card holds the row of one that is there.
- `OneRow` is the unique key of players: two joins may both find no row, one inserts.
- `Begun` and `Staged` carry the phase a `game.start` has compared to its commit: a room
  without a session is not Playing, so the first commit takes it out of reach of the others.
- `AttestInv` and `FitInv` follow attributes and verdicts of a card through every copy: the
  row, the loaded copy of an edit, the library, a draft that is being made, and the
  actors that a `game.start` froze before its commit. `AsLoaded` says that the copy of
  an edit is the row still, which is what needs the assumption.

**Services_proofs** (speech and player): `BoughtOnceTheorem`,
`StaleIsSilentTheorem`. For the speech service the invariant is `SpeechInv == SpeechTypeOK
/\ LineFits /\ CallsFit` with `CacheInv`: the line holds each asking request once, a request that
is calling is the only buyer of its key in `inflight`, and the cache is a sequence of entries
with different keys whose bytes it counts. The lemmas about the cache say what its
operators do to sequences (`SizeOfBoth`, `SizeOfParts`, `WithoutIs`, `MovedIs`, `FreshIs`,
`StoredIs`); the sum of the bytes is a recursive function, handled by `StepByStep` as below.
They assume of the constants that sizes, the cache's limit and its lifetime are numbers
(`SpeechAssumption`). For the player `PlayerInv == PlayerTypeOK /\ Silent`
adds to `StaleIsSilent` where each coroutine is (`NotYet`, `Woken`), whose buffers the
queue and the fetched sentence are (`Buffers`), and that the audio element's listeners
are those of one coroutine (`Listens`). TLC has checked it with `MaxGeneration` 1 and 2.

**Services_proofs** (history and chat): `ReadBackIsTrueTheorem`, for any players, turns, scenes,
texts, limits, sockets and page size that meet `HistoryAssumption` (lengths are numbers; the
limits are those `RecentHistoryBudget` admits, at least one turn and two characters) and
`ChatAssumption`.
- `HistoryInv` says of the events their types, that a turn is uttered once and an event's
  player is who acted. The rest is what a read computes of such a history, moment by moment:
  what is found has its turn once and in order (`DescendingIs`), a turn is projected as this
  player may know it (`ProjectedIsSafe`), preferring and shortening keep turns apart and the
  newest first (`PreferredIs`, `ShortenedIs`), and the one turn that is left is cut to fit
  (`ShrunkIs`). `Those` and `CharsOf` are recursive functions: that each is what its equation
  says and keeps what it must goes by `StepByStep`, and `CharsAre` and `ReversedIsAsLong` say
  that the order told is no longer than the order chosen.
- `ChatInv` ties stamps to messages (`StampsAreOwn`) and says of the pages (`PagesFit`) that
  what the reader found there is there still, or the last message it was given is not,
  which is what lets the next page go on from it, or be empty (`OlderKeeps`).

**Rooms_proofs** (the client): `ClientInvariant`, `OneLineTheorem`, `ViewIsOfTheRoomTheorem`,
`PromiseIsOfTheLineTheorem`. `ClientInv` is inductive as it stands: types with `OneLine`,
`ViewIsOfTheRoom` and `PromiseIsOfTheLine`. `OneLine` is what the others need: a frame can
only come over the line of the socket, whose room is the one the view was cleared for.

**World_proofs**: `WorldInvariant`, `HangsTogetherTheorem`, `AgendaAccountsTheorem`,
`TravelNeedsAWayTheorem`, `ShownExitsAreAnsweredTheorem` and `SecretsStayTheorem`, for any
module, party, set of adjudications and budgets that meet `ModuleAssumption`,
`WorldAssumption` and `RulesAssumption`. The invariant is
`WorldIInv == WorldInv /\ CascadeInv /\ GameAccounted`, which TLC has checked on `MCWorld`.
- `WorldInv` has `StateOK` of the committed state and of the draft under way, and
  `Grounded` of everything that is still to be applied: each effect is sound on the
  places there are together with those coined before it. It is what carries ids from
  the validation to the commit, other commands in between: no effect loses a
  place, so what was grounded stays so (`GroundedMore`, `AdjStays`).
- `ApplyKeeps` has one lemma per kind of effect. `ValidIsGrounded` says what passing the
  validation of a sequence gives, `AgentWalk` and `EventWalk` what a walk of a rule
  collects, `ResolvedPlace` that a route leads to a place there is.
- `RulesAssumption` asks more of the rules that agents name, because the code applies their
  effects unvalidated, and no validator looks at whom they hand a thing to, or at what
  they coin (section 6). Without it `HangsTogether` is false.
- `CascadeInv` says where the cascade stands: the rules that wait are the last of the
  queue (`QueueOK`), all before them are completed, depth counts them, and the budget left is at
  most that of each rule charged (`BudgetOK`). That an event calls no rule twice
  comes from `MatchingRules`: the ranking by priority and id is a sequence without repetition.
- `DraftMoves` says once what a step does to the draft and the game. A shortest path is a `Trail`, and a trail along open ways leads where a
  reachability of the property's own does (`TrailReaches`); where the path is closed, the
  frontier is the end of the open part (`FrontierReached`), which needs the edges
  numbered, since of parallel ones the first authored is asked.
- `SeenInv` ties three maps that different effects write: a place is unknown to the party or
  to an actor only where an override hides it from them (`PlacesSeen`), an actor's
  override that shows a place goes with knowledge of it (`ShownKnown`), and what is known
  has a position. So an exit the projection lets through is known to navigation
  (`KnowledgeIs`, `RuntimeWayIsSwept`), and its target is reachable or blocked. The name of the
  party's overrides is no actor's (`WorldAssumption`), and `visible` is a Boolean (`WellFormed`).
- `Alike` says of two states that they differ in the secrets of one actor only; it follows
  that everybody else has the same view of both (`AlikeView`). While a private command
  runs, its draft is like the game and what is left to apply is secret (`SecretInv`): an
  effect that is scoped to the actor writes to that actor's facts, places and overrides alone
  (`SecretIsAlike`), and a rule cannot have run and left no trace (`CalledStay`).
- What walks, validation and routes compute step by step is proved without an induction
  theorem: a recursive function is the one its definition chooses (`WalkedExists`,
  `ScopingExists`, `GrowingExists`), and what holds of a set of numbers from each to
  the next holds of all (`StepByStep`, from the smallest counterexample).

Proved, but not among the properties of a run any more, since the theorem says
more than the run did: `LiveLoopKeepsItsEntry`, the types of every module above,
`EndIsFinal` of `TimeConsent` and of `RoomSession`, `EventsAreTheRevisions`,
`PortraitIsCompleted`, `NewestPortrait`, `DoneIsDone`, and of `ActionPlan`
`StepsInOrder` and `ForwardOnly`.

**World_proofs** (the host): `NothingSmuggledInTheorem`, `HostDecisionsStandTheorem` and
`HostKeepsTheWorld`, of `HostSpec`.
- A step of a turn is a step of the world that an agent drives, or leaves the world alone
  (`HostDrivesWorld`). Since the host sends what no set `Adjudications` has, the
  properties of the world are proved of `DrivenSpec`, which begins a command with any
  adjudication that is well formed (`Orderly`) and not refused; `Spec` of `World` is one such
  system, `HostSpec` another. So a model's proposals need no trust: what is
  not refused is grounded.
- `HostInv` is `TurnOK`: where a turn is, what it sends is an adjudication of its actor whose effects
  are in order, and goes with the first one as `Preserved` compares them (`BranchKept` pairs effects
  by their place). `Deterministic` and `Normalized` yield such adjudications for all words.
- `HostAssumption` is what parsing gives: a proposal has the fields of an adjudication and
  its effects have a type; and that names of people are finitely many.
- `HostDecisionsStand` follows from the invariants of the world. What is known to an actor
  is a place there is (`KnownArePlaces`), so each destination the words can hit is one the
  engine answers (`DestinationsAreAnswered`); what is decided owns effects that are valid
  where they stand (`Taken`), and `AllApplied` says that a sequence none of whose effects may
  fail is applied to its end, whatever state the ones before leave. A journey adds that
  the party arrives or stops, never fails (`EnterApplies`). For a rule, its effects are among
  those its steps name (`RuleEffectsNamed`), and the kind the host guesses for the target is
  put right by the engine's normalisation where only one fits (`KindPutRight`).
- Of rules it assumes `RulesFit`, which a validator does not check: a rule chosen by words
  has options with branches; if it asks for kinds of targets it names targets, of all these
  kinds (the host takes the first kind of a set, `action_plan_turn.py:1901`); if not, its
  targets are things or places; and it has no effect that may fail. The rules of the
  small house meet it (`HouseRulesFit`, evaluated by TLC), and so do those of the module 追书人.
  In 银之锁 two rules, `enter_corridor` and `escape_through_exit`, send the party somewhere:
  of these the theorem says nothing, since the way may be closed to it by then.

**World_proofs** (the module): `PublishedModulesRunTheorem`, of every file that is `Authored`: what
parsing gives, that what must be named is, that a step is of a known kind and an hour a number.
- The validator climbs from each place until it meets a place again (`Climb`), the projection
  goes out from the place it shows (`Outward`). They go side by side (`Abreast`): they stand
  at the same place and have met the same ones, until the climb leaves a topmost place, at
  which the trail then stays, or comes round. As many steps as there are places are
  enough for both, and that no cycle is found says that no climb came round
  (`EveryClimbEnds`: what was not reported is not taken for reported before).
- A walk that goes on has met as many steps as it took (`Fresh`), so with one more than the
  rule has it has ended (`WalkEnds`). Nothing found of a rule is nothing found of the
  effects of its steps, wherever the walk met them (`EffectsFound`).
- What `RunsOn` says of ways, items, facts and hours comes from the references
  (`NothingFound`) and from the order of the points (`HoursRise`).

Model-checked only: the part of `ActorsAreFit` that compares the recursive matching of skills with
its best choice, an induction over data; the liveness properties (`EndsUnlessCancelled`,
`NobodyWaitsInVain`, `ReceivedIsShown`), which are out of the provers' reach, like everything about
ENABLED; and `NamedPlaceWins`, which is false of
arbitrary modules, where an event's rule may move the party in the same commit.

## 5. Where the code does not do what it says

`action_plan_two_unfinished` expects a violation: the SQL store deletes whatever
reservation the room has when it writes a terminal row
(`sqlalchemy_action_plan_store.py:172`), so cancelling a plan that had
stopped frees the room of another player's running plan. The in-memory store
deletes only its own (`in_memory_action_plan_store.py:141`). `PROJECT.json` quotes
the line that says otherwise.

## 6. Further observations, without a run

Met while modelling; the models follow the code in each. Where a definition of a
module states what fails, it is named: giving it to TLC in the module's
configuration shows the behaviour.

Plans, time and the end of a game:

- `cancel_remaining` writes a row that `validate_run` refuses
  (`action_plan_orchestrator.py:602`, `RowsReadable`); the SQL store cannot load it again.
- A proposal answered between its insert and `bind_parent_action` resumes the
  step, not the plan (`time_advance.py:310`, `PlanIsResumed`).
- Two turns at once insert two open proposals (`time_advance.py:242` against
  `tests/test_time_advance.py:123`): `FOR UPDATE` locks nothing where there
  is no row. Without row locks (SQLite) a join can overwrite an approval
  (`time_advance.py:163` against the comment at `:464`).
- `confirm_draft` updates the session before the room (`ending.py:295`), against
  the order that the comment of `end_game` states (`room.py:788`, `NoWaitCycle`);
  an engine commit beside it makes a wait cycle.
- A confirmation of an ending sent twice writes `expired` over `confirmed`
  (`ending.py:258`), and a plan may reserve the room between the test for pending work
  and the commit of the end (`ending.py:266`).
- A reservation that expires lets another plan take the room of a live one
  (`sqlalchemy_action_plan_store.py:45`).
- A roll that passed waits for a post-roll decision too (`adjudication.py:1441`),
  where `docs/rule-engine-v3.md:16-17` speaks of failed ones; a plan in
  `needs_clarification` may have committed earlier steps.

Turns:

- A dialog sent again carries the revision of its action's last commit
  (`ws.py:537`), other commands move the revision, and the dialog's buttons are
  refused until the next refresh, which brings back the same dialog
  (`ResentDialogIsCurrent`; fails with two actions).
- What is stored first for an action is what stays (`ws.py:604`): after a
  clarification was stored, the narration of what the action then did is not
  (`StoredIsTheStory`), and that of a later cancel is not pushed.
- An action approved by a vote while its owner is offline is not told
  (`ws.py:1448`): the engine that looks it up is the plain one, and
  `time_advance.py:571` has no caller. The room then shows as processing.
- A crash between the commit and the narration of a single action without a
  check is told only when the client submits it again.
- A crash between the row of a narration and its broadcast (`ws.py:907`, `:944`) leaves
  a narration that no socket was sent: the room sees it when it next reads the history.
- The `force_processing` broadcast is not taken back when a stored narration is
  replayed after a choice.

Host and world:

- A repair of a venue always ends in a clarification (`action_plan_turn.py:2105`
  against `tests/test_rule_match_adjudication.py:612`).
- A decision is bound to the revision at its submission, not to the one it was
  made on (`action_plan_orchestrator.py:1567` and `:1710` against
  `docs/rule-engine-v3.md:24-25`).
- Only travel is held to the place that was named: a proposal of another family may go
  elsewhere. Where the way is blocked, companions stay behind
  (`action_plan_turn.py:1990`). `INVALID_EFFECT_REMOVED` is never reached.
- The comment at `action_plan_turn.py:1827` has a party's wait or rest be a mere pause; but
  `projection_v3.py:843-846` takes that block away, and how long it lasts is the model's to say.
- The v3 engine emits no `location.entered`, so no rule wakes on it. Rules that match
  an adjudication apply effects that were not validated as a sequence, and
  `validation_v3.py:474` skips what such a rule coins, what it shows or hides, and whom it hands a
  thing to, although its comment has the engine check that at submission: `RulesAssumption`
  of `World` says what an author has to see to.
- A canon item may be carried by an NPC (`initialization.py:154`): its custody is then of the kind
  `actor_inventory` and names no player, which `HangsTogether` allows for.
- The chain depth counts rules, not levels, and a cascade that suspends drops the
  rules behind it.
- An exit whose way is hidden is shown when its place is known by another way: the
  knowledge of the way itself is not asked for (`projection_v3.py:387`); a deferred creation
  overwrites what was created under its id meanwhile (`effects.py:20`).
- In validation `ENDING_ANCHOR_MISSING` cannot be reached (`validation_v3.py:218`),
  `RULE_CHECK_UNROUTED` is shadowed by the schema, the visibility conditions of entities,
  the targets of a scope and event types are not looked at, and `default_actor_placement`
  has no reader.

Lobby and cards:

- `start_story` writes its phase without comparing (`room.py:432`): a slow
  duplicate takes a room that plays back to Building. `BegunOnce` fails when
  `Overlapping` has "start".
- `join_room` counts before it inserts (`room.py:330`): two joins overfill a room,
  and one may land in a room that plays.
- An edit beside a completion leaves a complete card with what the edit wrote
  (`character.py:301`): `ActorsAreFit` fails when `Overlapping` has "card".

Client and services:

- The client does not reconnect by itself after `onclose`; a streaming bubble stays
  when its line breaks; the promise of an action stays open while its adjudication is pending;
  history that is merged late may be out of order.
- A coroutine of the speech player that `stop()` left behind clears what the page
  shows of the next generation (`useHostSpeech.ts:99-100`, `ShownIsRead`); a
  refused `resume()` says "failed"; an object URL may leak; messages enqueued while
  a failed playback drains are dropped.
- `check.result` is recorded under the number of the check and so never found by
  the reader of the history; executions are read from rows that the adjudicating
  engine does not write; with three turns or more the order is not chronological
  (`RecentIsInOrder`).
- A chat message may be inserted just after the end of the game cleared the chat.
- A task that was cancelled before it was started may show as generating for a
  moment (`portrait_generation.py:557`); an interruption that reaches the coroutine in
  its handler leaves the task `cancelling`, and the character without
  portraits, until the next restart (`CancelEnds`).

## 7. Abstractions, and what is not modelled

- **Content.** What a player says is what its words hit; what a model answers is
  any proposal of a small set; texts are lengths, sentences and fragments are members of sets.
  How words are compared, prompts, labels and layout are left out.
- **The engine, twice.** `Adjudication` has the protocol of a check and counts its effects,
  `World` has the effects and the rules and a check that waits. They meet in
  the outcome of a check, which both take as any the dice allow.
- **Success levels.** Three degrees and two difficulties: a regular success passes a
  regular check, a critical one any (`Passes`). A fumble is a failure; a hard or extreme
  roll is a critical one where it passes and a regular one where it does not.
- **Rejections** leave the state alone in the code and are therefore not steps, but
  where a property is about them (`HostTurn` hands them to the repair).
- **Transactions.** The second update and the commit of a transaction are one
  step in `RoomSession`, and one command's commit is one step in `Adjudication`:
  the database's atomicity is assumed, not shown. `load_runtime`'s back-fill of
  skills (`sqlalchemy_engine_store.py:391`) updates the session before the room
  in a transaction of the engine; the model leaves it out, it happens once to
  sessions of an older format.
- **Revision.** `event_sequence` and `state_version` grow by the events of a
  commit; the models count commits.
- **Time consent and plans** are separate modules: a plan that waits for a
  consent is in `TimeConsent` a worker that waits, in `Turns` an action with
  `wait = "consent"`, in `ActionPlan` not present. `Turns` has single actions only.
- **Telling.** The chunks of a narration and its `narration.push` are one step
  (`RoomClient` has the chunks apart); after a vote the loop over the owner's sockets is one
  pass, since only the first of them finds no row. Frames are dropped at a closed
  socket, a failing database is not modelled.
- **Lobby** requests of kinds outside `Overlapping` are one step.
- **Not modelled.** The engine service of v1 and v2 modules: an older path, of which
  the backend uses the first view only. The dice: arithmetic on
  one roll, which unit tests reach. The CoC7 tables (a fifth of the
  implementation's lines), rows and messages: data. Publishing and cache:
  loaders that run once before requests are taken, and a cache whose key is a
  fingerprint of its content. Model adapters: external calls, which the models
  have as answers that come late, wrong or not at all. Accounts: hashing and
  lookups. Start-up and migrations: run once.

## 8. Plan

Done: the modules of section 2, in the order lock, engine, plan, consent, session,
portraits; then turns, world, host, lobby, client, services.

To prove next, by what a mistake would cost:

1. `OneOpenProposal` of `TimeConsent` for a single worker.
2. `NamedPlaceWins` for modules whose rules do not move the party.

To model next: plans of several steps on the socket (`Turns` with `ActionPlan`), the
resumption of a plan by a vote, and the readiness and names of the lobby.
