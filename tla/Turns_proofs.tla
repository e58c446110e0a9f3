----------------------------- MODULE Turns_proofs -----------------------------
(***************************************************************************)
(* Proofs about the room lock, for any number of rooms, handler tasks,     *)
(* tokens and ticks, and about the turns of a room which take it, for any  *)
(* number of sockets, players, actions, commits and faults.                *)
(***************************************************************************)
EXTENDS Turns, TLAPS

-----------------------------------------------------------------------------
(* The room lock.                                                          *)

LEMMA InitLockInv == Init => LockInv
  BY LockTimeoutAssumption
  DEF Init, LockInv, TypeOK, Entry, NoEntry, Idle, TokensAreUnique,
      RunningLoopsHaveARoom, LiveLoopKeepsItsEntry, Live, Running

\* A token that was just issued belongs to nobody: the acquiring loop is the
\* only live one of the room, because the entry it overwrites was not held.
LEMMA TryAcquireLockInv ==
  ASSUME LockInv, NEW l \in Loops, NEW r \in Rooms, TryAcquire(l, r)
  PROVE  LockInv'
  <1> USE DEF TryAcquire, Running, NoEntry, Idle, Held
  <1>1. TypeOK'
    BY LockTimeoutAssumption DEF LockInv, TypeOK, Entry
  <1>2. TokensAreUnique'
    <2>1. \A k \in Loops : loop'[k].token <= issued'
      BY DEF LockInv, TypeOK, TokensAreUnique
    <2>2. \A q \in Rooms : locks'[q].token <= issued'
      BY DEF LockInv, TypeOK, Entry, TokensAreUnique
    <2>3. \A j, k \in Loops :
            loop'[j].token # 0 /\ loop'[k].token = loop'[j].token => j = k
      BY DEF LockInv, TypeOK, TokensAreUnique
    <2>4. QED
      BY <2>1, <2>2, <2>3 DEF TokensAreUnique
  <1>3. RunningLoopsHaveARoom'
    BY DEF LockInv, TypeOK, RunningLoopsHaveARoom
  <1>4. LiveLoopKeepsItsEntry'
    <2> SUFFICES ASSUME NEW q \in Rooms, NEW k \in Loops, Live(k, q)'
                 PROVE  locks'[q] = [token |-> loop'[k].token,
                                     expiresAt |-> loop'[k].until]
      BY DEF LiveLoopKeepsItsEntry
    <2>1. CASE k = l
      BY <2>1 DEF LockInv, TypeOK, Live
    <2>2. CASE k # l
      <3>1. Live(k, q) /\ loop'[k] = loop[k]
        BY <2>2 DEF LockInv, TypeOK, Live
      <3>2. locks[q] = [token |-> loop[k].token, expiresAt |-> loop[k].until]
        BY <3>1 DEF LockInv, LiveLoopKeepsItsEntry
      <3>3. q # r
        BY <3>1, <3>2 DEF Live
      <3>4. QED
        BY <3>1, <3>2, <3>3 DEF LockInv, TypeOK
    <2>3. QED
      BY <2>1, <2>2
  <1>5. QED
    BY <1>1, <1>2, <1>3, <1>4 DEF LockInv

\* A release drops only the entry with the loop's own token, and no other
\* loop has that token.
LEMMA ReleaseLockInv ==
  ASSUME LockInv, NEW l \in Loops, Release(l)
  PROVE  LockInv'
  <1> USE DEF Release, Running, NoEntry, Idle
  <1> DEFINE room == loop[l].room
  <1>0. room \in Rooms
    BY DEF LockInv, RunningLoopsHaveARoom
  <1>1. TypeOK'
    BY DEF LockInv, TypeOK, Entry
  <1>2. TokensAreUnique'
    BY <1>0 DEF LockInv, TypeOK, Entry, TokensAreUnique
  <1>3. RunningLoopsHaveARoom'
    BY DEF LockInv, TypeOK, RunningLoopsHaveARoom
  <1>4. LiveLoopKeepsItsEntry'
    <2> SUFFICES ASSUME NEW q \in Rooms, NEW k \in Loops, Live(k, q)'
                 PROVE  locks'[q] = [token |-> loop'[k].token,
                                     expiresAt |-> loop'[k].until]
      BY DEF LiveLoopKeepsItsEntry
    <2>1. k # l /\ loop'[k] = loop[k] /\ Live(k, q)
      BY DEF LockInv, TypeOK, Live
    <2>2. locks[q] = [token |-> loop[k].token, expiresAt |-> loop[k].until]
      BY <2>1 DEF LockInv, LiveLoopKeepsItsEntry
    <2>3. loop[k].token # loop[l].token
      BY <2>1 DEF LockInv, TokensAreUnique
    <2>4. locks'[q] = locks[q]
      BY <1>0, <2>2, <2>3 DEF LockInv, TypeOK
    <2>5. QED
      BY <2>1, <2>2, <2>4
  <1>5. QED
    BY <1>1, <1>2, <1>3, <1>4 DEF LockInv

\* The lazy clean-up drops only an expired entry, whose loop is not live.
LEMMA SnapshotLockInv ==
  ASSUME LockInv, NEW r \in Rooms, Snapshot(r)
  PROVE  LockInv'
  <1> USE DEF Snapshot, Running, NoEntry
  <1>1. TypeOK'
    BY DEF LockInv, TypeOK, Entry
  <1>2. TokensAreUnique'
    BY DEF LockInv, TypeOK, Entry, TokensAreUnique
  <1>3. RunningLoopsHaveARoom'
    BY DEF LockInv, RunningLoopsHaveARoom
  <1>4. LiveLoopKeepsItsEntry'
    BY DEF LockInv, TypeOK, Entry, LiveLoopKeepsItsEntry, Live
  <1>5. QED
    BY <1>1, <1>2, <1>3, <1>4 DEF LockInv

\* Type correctness, unique tokens and the live loop's entry are preserved
\* by every step of the handlers, the clock and a process restart.
LEMMA NextLockInv == LockInv /\ [Next]_vars => LockInv'
  <1> SUFFICES ASSUME LockInv, [Next]_vars PROVE LockInv'
    OBVIOUS
  <1>1. ASSUME NEW l \in Loops, NEW r \in Rooms, TryAcquire(l, r) PROVE LockInv'
    BY <1>1, TryAcquireLockInv
  <1>2. ASSUME NEW l \in Loops, Release(l) PROVE LockInv'
    BY <1>2, ReleaseLockInv
  <1>3. ASSUME NEW r \in Rooms, Snapshot(r) PROVE LockInv'
    BY <1>3, SnapshotLockInv
  <1>4. CASE Restart
    BY <1>4
    DEF Restart, LockInv, TypeOK, Entry, NoEntry, Idle, TokensAreUnique,
        RunningLoopsHaveARoom, LiveLoopKeepsItsEntry, Live, Running
  <1>5. CASE Tick
    <2>1. \A l \in Loops, r \in Rooms : Live(l, r)' => Live(l, r)
      BY <1>5 DEF Tick, Live, Running, LockInv, TypeOK
    <2>2. QED
      BY <1>5, <2>1
      DEF Tick, LockInv, TypeOK, TokensAreUnique, RunningLoopsHaveARoom,
          LiveLoopKeepsItsEntry, Running
  <1>6. CASE UNCHANGED vars
    BY <1>6
    DEF vars, LockInv, TypeOK, TokensAreUnique, RunningLoopsHaveARoom,
        LiveLoopKeepsItsEntry, Live, Running
  <1>7. QED
    BY <1>1, <1>2, <1>3, <1>4, <1>5, <1>6 DEF Next

\* Every reachable state of the lock manager satisfies the invariant.
THEOREM LockInvariant == Spec => []LockInv
  BY InitLockInv, NextLockInv, PTL DEF Spec

\* Two live loops of one room would both own the room's single entry, so
\* they would have the same token: they are the same loop.
THEOREM OneLiveLoopTheorem == Spec => []OneLiveLoop
  <1>1. LockInv => OneLiveLoop
    <2> SUFFICES ASSUME LockInv, NEW r \in Rooms, NEW k \in Loops, NEW l \in Loops,
                        Live(k, r), Live(l, r)
                 PROVE  k = l
      BY DEF OneLiveLoop
    <2>1. /\ locks[r].token = loop[k].token
          /\ locks[r].token = loop[l].token
      <3>1. locks[r] = [token |-> loop[k].token, expiresAt |-> loop[k].until]
        BY DEF LockInv, LiveLoopKeepsItsEntry
      <3>2. locks[r] = [token |-> loop[l].token, expiresAt |-> loop[l].until]
        BY DEF LockInv, LiveLoopKeepsItsEntry
      <3>3. QED
        BY <3>1, <3>2
    <2>2. QED
      BY <2>1 DEF LockInv, TokensAreUnique, Live
  <1>2. QED
    BY <1>1, LockInvariant, PTL

\* The entry of a live loop survives late releases and lazy clean-ups.
THEOREM LiveLoopKeepsItsEntryTheorem == Spec => []LiveLoopKeepsItsEntry
  <1>1. LockInv => LiveLoopKeepsItsEntry
    BY DEF LockInv
  <1>2. QED
    BY <1>1, LockInvariant, PTL

\* The variables keep their types.
THEOREM TypeCorrect == Spec => []TypeOK
  <1>1. LockInv => TypeOK
    BY DEF LockInv
  <1>2. QED
    BY <1>1, LockInvariant, PTL

-----------------------------------------------------------------------------
(* The turns.                                                              *)

\* Where a handler is goes with what it was called for, and only a submission
\* that has not come to its `finally` runs with a lock.
HandlerFits(l) ==
  LET t == task[l]
  IN  /\ t.at \in {"rest", "opening", "broadcast"} => t.action = None
      /\ t.at \in {"lock", "plan", "submit", "finally"} => t.via = "submit"
      /\ t.at = "opening" => t.via \in {"join", "start"}
      /\ t.at = "result" => t.via = "choice"
      /\ t.at = "resume" => t.via # "submit"
      /\ t.at \in {"recover", "resume", "lock", "plan", "submit", "dialog", "result", "narrate",
         "tell", "record", "push", "persist"}
           => t.action \in Actions
      /\ t.at = "dialog" => t.saw \in Waiting /\ t.via # "vote"
      /\ t.at \in {"tell", "record"} => t.kind # "none"
      /\ t.at \in {"recover", "opening"} => t.via # "vote"
      /\ t.action # None /\ t.via # "vote" => Owner[t.action] = PlayerOf[l]
      /\ Running(l)
         => t.via = "submit" /\ t.at \in {"plan", "submit", "dialog", "narrate", "tell", "record",
                                          "push", "persist", "finally"}

Fits == \A l \in Loops : HandlerFits(l)

\* What a handler has seen or been called for is so: nothing undoes a settled
\* action.
SawTrue(l) ==
  LET t == task[l]
  IN  /\ t.saw \in Settled => t.action # None /\ engine[t.action].status = t.saw
      /\ t.kind = "narration" => t.saw \in Settled
      /\ t.via = "vote" => t.action # None /\ engine[t.action].status \in Settled

SawIsTrue == \A l \in Loops : SawTrue(l)

\* A dialog is shown to the owner of its action.
DialogsAreOwn == \A p \in Players : dialog[p] # None => Owner[dialog[p].action] = p

\* Nobody submits or tells what was not uttered.
UtteredFirst ==
  /\ \A a \in Actions : engine[a].status # "none" => a \in uttered
  /\ \A l \in Loops : task[l].at \in {"submit", "narrate", "tell", "record"} => task[l].action \in uttered

WaitFits ==
  \A a \in Actions :
    LET e == engine[a]
    IN  /\ e.status = "none" => e.wait = "none"
        /\ e.status = "consent" => e.wait \in {"consent", "told"}
        /\ e.wait = "consent" => e.status \in {"consent"} \cup Settled

\* The handler that is sure to tell an action, or to miss it.
Teller(l, a) ==
  /\ task[l].action = a
  /\ \/ task[l].at \in {"narrate", "tell", "record", "push", "persist"}
     \/ task[l].at \in {"result", "recover", "resume"} /\ task[l].via # "submit"

HasTeller ==
  \A a \in Actions :
    engine[a].status \in Settled => a \in missed \/ told[a] # None \/ \E l \in Loops : Teller(l, a)

VotedHasTeller ==
  \A a \in Actions :
    engine[a].status \in Settled /\ engine[a].wait = "consent" =>
      a \in missed \/ \E l \in Loops : Teller(l, a) /\ task[l].via = "vote"

ResultsStand ==
  \A a \in Actions :
    /\ a \in results => engine[a].status = "resolved"
    /\ engine[a].status = "resolved" /\ engine[a].wait = "check" =>
         a \in results \/ a \in missed \/ \E l \in Loops : At(l, "result") /\ task[l].action = a

\* The socket of a handler whose game.start stored no opening was there for the
\* broadcast of the one that did.
OpeningHeard ==
  opening = "stored" =>
    \A l \in open : \/ l \in heard
                    \/ At(l, "opening") /\ task[l].via = "join"
                    \/ \E k \in Loops : At(k, "broadcast")

EntryHasOwner ==
  locks[Room].token # 0 => \E l \in Loops : loop[l].token = locks[Room].token

\* Only the handler that stored a narration comes to push it, and has not yet.
Pusher(l) ==
  LET a == task[l].action
  IN  /\ At(l, "push") \/ At(l, "persist") => told[a] # None
      /\ At(l, "push") => pushes[a] = 0 /\ \A k \in Loops : At(k, "push") /\ task[k].action = a => k = l

OnePusher == \A l \in Loops : Pusher(l)

TurnInv ==
  /\ TurnsTypeOK /\ Fits /\ SawIsTrue /\ DialogsAreOwn /\ UtteredFirst /\ WaitFits
  /\ HasTeller /\ VotedHasTeller /\ ResultsStand /\ OpeningHeard
  /\ OnePusher /\ ToldOnce

TurnsInv == LockInv /\ EntryHasOwner /\ TurnInv

-----------------------------------------------------------------------------
(* What a step does to the handlers.                                       *)

OnlyMoves(l) ==
  /\ task' \in [Loops -> Handler]
  /\ \A k \in Loops \ {l} : task'[k] = task[k]

GoesOn(l, step) ==
  /\ OnlyMoves(l)
  /\ task'[l].at = step
  /\ task'[l].via = task[l].via /\ task'[l].action = task[l].action
  /\ task'[l].saw = task[l].saw /\ task'[l].kind = task[l].kind

Finishes(l) ==
  \/ OnlyMoves(l) /\ task'[l] = Resting /\ ~(task[l].via = "submit" /\ Running(l))
  \/ GoesOn(l, "finally") /\ task[l].via = "submit" /\ Running(l)

Takes(l, status) ==
  \/ /\ status \in Waiting \cup Settled /\ OnlyMoves(l)
     /\ task'[l].at = IF status \in Waiting THEN "dialog" ELSE "narrate"
     /\ task'[l].via = task[l].via /\ task'[l].action = task[l].action
     /\ task'[l].saw = status /\ task'[l].kind = task[l].kind
  \/ status \notin Waiting \cup Settled /\ Finishes(l)

Begins(l, via, a, step) ==
  /\ l \in open /\ task[l].at = "rest" /\ OnlyMoves(l)
  /\ task'[l].at = step /\ task'[l].via = via /\ task'[l].action = a
  /\ task'[l].saw = "none" /\ task'[l].kind = "none"

Steps == {"rest", "opening", "broadcast", "recover", "resume", "lock", "plan", "submit",
          "finally", "dialog", "result", "narrate", "tell", "record", "push", "persist"}

\* Going on: only this handler moves, to that step.
LEMMA GoMoves ==
  ASSUME TurnsTypeOK, NEW l \in Loops, NEW step \in Steps, Go(l, step)
  PROVE  GoesOn(l, step)
  BY DEF Go, GoesOn, OnlyMoves, TurnsTypeOK, Handler, Steps

\* A handler that is through rests, or gives its turn back first.
LEMMA FinishMoves ==
  ASSUME TurnsTypeOK, NEW l \in Loops, Finish(l)
  PROVE  Finishes(l)
  <1>1. Resting \in Handler
    BY DEF Resting, Handler, Vias, Statuses
  <1>2. CASE task[l].via = "submit" /\ Running(l)
    BY <1>2, GoMoves DEF Finish, Finished, Finishes, Go, Steps
  <1>3. CASE ~(task[l].via = "submit" /\ Running(l))
    BY <1>1, <1>3 DEF Finish, Finished, Finishes, OnlyMoves, TurnsTypeOK
  <1>4. QED
    BY <1>2, <1>3

\* Taking the outcome of an execution: a dialog or a narration follows, or nothing.
LEMMA TookMoves ==
  ASSUME TurnsTypeOK, NEW l \in Loops, NEW status \in Statuses, Took(l, status)
  PROVE  Takes(l, status)
  <1>1. CASE status \in Waiting \cup Settled
    BY <1>1, ZenonT(40) DEF Took, Takes, OnlyMoves, TurnsTypeOK, Handler
  <1>2. CASE status \notin Waiting \cup Settled
    BY <1>2, FinishMoves DEF Took, Takes, Finish
  <1>3. QED
    BY <1>1, <1>2

\* A handler begins: only it moves, and it holds nothing else.
LEMMA BeginMoves ==
  ASSUME TurnsTypeOK, NEW l \in Loops, NEW via \in Vias, NEW a \in Actions \cup {None},
         NEW step \in Steps, Begin(l, via, a, step)
  PROVE  Begins(l, via, a, step)
  BY DEF Begin, Begins, At, OnlyMoves, TurnsTypeOK, Handler, Resting, Steps, Statuses

Recovers(l, a) ==
  /\ OnlyMoves(l) /\ task'[l].at = "recover" /\ task'[l].action = a
  /\ task'[l].via = task[l].via /\ task'[l].saw = task[l].saw /\ task'[l].kind = task[l].kind

Tells(l, kind) ==
  /\ OnlyMoves(l) /\ task'[l].at = "tell" /\ task'[l].kind = kind
  /\ task'[l].via = task[l].via /\ task'[l].action = task[l].action /\ task'[l].saw = task[l].saw

\* What a step does to the engine.
OnlyEngine(a) ==
  /\ engine' \in [Actions -> Execution]
  /\ \A b \in Actions \ {a} : engine'[b] = engine[b]

Commits(a, status) ==
  /\ OnlyEngine(a) /\ revision' \in Nat
  /\ engine'[a].status = status
  /\ engine'[a].wait = IF status = "skill" THEN "check" ELSE engine[a].wait

BecomesStatus(a, status, wait) ==
  OnlyEngine(a) /\ engine'[a].status = status /\ engine'[a].wait = wait

\* A commit of the engine changes the one execution, and the revision.
LEMMA CommitMoves ==
  ASSUME TurnsTypeOK, NEW a \in Actions, NEW status \in Statuses, Commit(a, status)
  PROVE  Commits(a, status)
  <1>1. revision' \in Nat
    BY DEF Commit, TurnsTypeOK
  <1>2. engine' \in [Actions -> Execution]
    BY <1>1 DEF Commit, TurnsTypeOK, Execution
  <1>3. QED
    BY <1>1, <1>2 DEF Commit, Commits, OnlyEngine, TurnsTypeOK


-----------------------------------------------------------------------------
(* One handler moves: what is left to show of each part of the invariant.   *)

SettledStays ==
  \A a \in Actions : engine[a].status \in Settled => engine'[a].status = engine[a].status

\* A step of one handler leaves the others where they fit.
LEMMA FitsOfMoved ==
  ASSUME Fits, NEW l \in Loops, OnlyMoves(l), HandlerFits(l)',
         \A k \in Loops \ {l} : Running(k)' => Running(k)
  PROVE  Fits'
  <1> SUFFICES ASSUME NEW k \in Loops, k # l PROVE HandlerFits(k)'
    BY DEF Fits
  <1>1. task'[k] = task[k] /\ (Running(k)' => Running(k))
    BY DEF OnlyMoves
  <1>2. QED
    BY <1>1 DEF Fits, HandlerFits

\* What another handler saw stays true, since what is settled stays settled.
LEMMA SawOfMoved ==
  ASSUME TurnsTypeOK, SawIsTrue, NEW l \in Loops, OnlyMoves(l), SawTrue(l)', SettledStays
  PROVE  SawIsTrue'
  <1> SUFFICES ASSUME NEW k \in Loops, k # l PROVE SawTrue(k)'
    BY DEF SawIsTrue
  <1>1. task'[k] = task[k] /\ task[k] \in Handler
    BY DEF OnlyMoves, TurnsTypeOK
  <1>2. task[k].action # None => task[k].action \in Actions
    BY <1>1 DEF Handler
  <1>3. QED
    BY <1>1, <1>2 DEF SawIsTrue, SawTrue, SettledStays

\* What a step of handler l does to an action, for the parts of the invariant: an
\* execution begins after the utterance is stored.
SubmitsUttered ==
  \A a \in Actions : engine'[a].status # "none" => engine[a].status # "none" \/ a \in uttered'

\* What was told stays told.
ToldStays == \A a \in Actions : told[a] # None => told'[a] # None

\* What the step settles it is to tell, and it remains so until it has told it.
SettlesAsTeller(l) ==
  \A a \in Actions : engine'[a].status \in Settled => engine[a].status \in Settled \/ Teller(l, a)'

StaysTeller(l) ==
  \A a \in Actions : Teller(l, a) /\ engine'[a].status \in Settled =>
                       Teller(l, a)' \/ a \in missed' \/ told'[a] # None

\* The same of an action that waited for a consent, and its voter.
SettlesByVote(l) ==
  \A a \in Actions : engine'[a].status \in Settled /\ engine'[a].wait = "consent" =>
                       \/ engine[a].status \in Settled /\ engine[a].wait = "consent"
                       \/ Teller(l, a)' /\ task'[l].via = "vote"

StaysVoter(l) ==
  \A a \in Actions : Teller(l, a) /\ task[l].via = "vote" /\ engine'[a].wait = "consent" =>
                       a \in missed' \/ (Teller(l, a)' /\ task'[l].via = "vote")

\* A check that the step resolves goes on to its result, which is then stored.
ResolvesForResult(l) ==
  \A a \in Actions : engine'[a].status = "resolved" /\ engine'[a].wait = "check" =>
                       \/ engine[a].status = "resolved" /\ engine[a].wait = "check"
                       \/ task'[l].at = "result" /\ task'[l].action = a

EmitsResult(l) ==
  \A a \in Actions : task[l].at = "result" /\ task[l].action = a
    /\ engine'[a].status = "resolved" =>
                       \/ a \in results' \cup missed'
                       \/ task'[l].at = "result" /\ task'[l].action = a

\* The socket of l is sent the opening that is stored.
HearsOpening(l) ==
  opening' = "stored" /\ l \in open' =>
    \/ l \in heard'
    \/ task'[l].at = "opening" /\ task'[l].via = "join"
    \/ /\ l \in open /\ ~(task[l].at = "opening" /\ task[l].via = "join")
       /\ l \in heard => l \in heard'

\* Nothing is executed, narrated or told before its utterance is stored.
LEMMA UtteredOfMoved ==
  ASSUME UtteredFirst, NEW l \in Loops, OnlyMoves(l), uttered \subseteq uttered',
         SubmitsUttered,
         task'[l].at \in {"submit", "narrate", "tell", "record"} => task'[l].action \in uttered'
  PROVE  UtteredFirst'
  BY DEF UtteredFirst, OnlyMoves, SubmitsUttered

\* An action keeps its teller when the handler that moves, if it was that, still is
\* or has told or missed it, and is that of the actions it settles.
LEMMA TellerOfMoved ==
  ASSUME HasTeller, NEW l \in Loops, OnlyMoves(l), missed \subseteq missed',
         ToldStays, SettlesAsTeller(l), StaysTeller(l)
  PROVE  HasTeller'
  <1> SUFFICES ASSUME NEW a \in Actions, engine'[a].status \in Settled,
                      a \notin missed', told'[a] = None, ~Teller(l, a)'
               PROVE  \E k \in Loops : Teller(k, a)'
    BY DEF HasTeller
  <1>1. PICK k \in Loops : Teller(k, a)
    BY DEF HasTeller, ToldStays, SettlesAsTeller
  <1>2. k # l
    BY <1>1 DEF StaysTeller
  <1>3. QED
    BY <1>1, <1>2 DEF Teller, OnlyMoves

\* An action settled by a vote keeps the handler of the vote as its teller.
LEMMA VotedOfMoved ==
  ASSUME VotedHasTeller, NEW l \in Loops, OnlyMoves(l), missed \subseteq missed',
         SettlesByVote(l), StaysVoter(l)
  PROVE  VotedHasTeller'
  <1> SUFFICES ASSUME NEW a \in Actions, engine'[a].status \in Settled, engine'[a].wait = "consent",
                      a \notin missed', ~(Teller(l, a)' /\ task'[l].via = "vote")
               PROVE  \E k \in Loops : Teller(k, a)' /\ task'[k].via = "vote"
    BY DEF VotedHasTeller
  <1>1. PICK k \in Loops : Teller(k, a) /\ task[k].via = "vote"
    BY DEF VotedHasTeller, SettlesByVote
  <1>2. k # l
    BY <1>1 DEF StaysVoter
  <1>3. QED
    BY <1>1, <1>2 DEF Teller, OnlyMoves

\* A result is stored of a resolved check, and one is missing only on its way.
LEMMA ResultsOfMoved ==
  ASSUME ResultsStand, NEW l \in Loops, OnlyMoves(l), SettledStays,
         results \subseteq results', missed \subseteq missed',
         \A a \in results' : a \in results \/ engine'[a].status = "resolved",
         ResolvesForResult(l), EmitsResult(l)
  PROVE  ResultsStand'
  <1> SUFFICES ASSUME NEW a \in Actions
               PROVE  /\ a \in results' => engine'[a].status = "resolved"
                      /\ engine'[a].status = "resolved" /\ engine'[a].wait = "check" =>
                           a \in results' \/ a \in missed'
                             \/ \E k \in Loops : task'[k].at = "result" /\ task'[k].action = a
    BY DEF ResultsStand, At
  <1>1. a \in results' => engine'[a].status = "resolved"
    BY DEF ResultsStand, SettledStays, Settled
  <1>2. ASSUME engine'[a].status = "resolved", engine'[a].wait = "check",
               a \notin results', a \notin missed', ~(task'[l].at = "result" /\ task'[l].action = a)
        PROVE  \E k \in Loops : task'[k].at = "result" /\ task'[k].action = a
    <2>1. engine[a].status = "resolved" /\ engine[a].wait = "check"
      BY <1>2 DEF ResolvesForResult
    <2>2. PICK k \in Loops : task[k].at = "result" /\ task[k].action = a
      BY <1>2, <2>1 DEF ResultsStand, At
    <2>3. k # l
      BY <1>2, <2>2 DEF EmitsResult
    <2>4. QED
      BY <2>2, <2>3 DEF OnlyMoves
  <1>3. QED
    BY <1>1, <1>2

\* The socket of a handler that moves hears the opening, and the others still do.
LEMMA OpeningOfMoved ==
  ASSUME OpeningHeard, NEW l \in Loops, OnlyMoves(l),
         opening' = "stored" => opening = "stored", open' \subseteq Loops,
         open' \subseteq open \cup {l}, heard \subseteq heard' \cup {l},
         HearsOpening(l),
         task[l].at = "broadcast" => task'[l].at = "broadcast" \/ open' \subseteq heard'
  PROVE  OpeningHeard'
  <1> SUFFICES ASSUME opening = "stored", opening' = "stored", NEW k \in open', k \notin heard',
                      ~(task'[k].at = "opening" /\ task'[k].via = "join")
               PROVE  \E j \in Loops : task'[j].at = "broadcast"
    BY DEF OpeningHeard, At
  <1>1. k \in open /\ k \notin heard /\ ~(task[k].at = "opening" /\ task[k].via = "join")
    BY DEF OnlyMoves, HearsOpening
  <1>2. PICK j \in Loops : task[j].at = "broadcast"
    BY <1>1 DEF OpeningHeard, At
  <1>3. QED
    BY <1>2 DEF OnlyMoves

\* A handler that stores and pushes nothing leaves the stories as they were told, and
\* to be pushed by whoever is to push them.
LEMMA ToldOfMoved ==
  ASSUME OnePusher, ToldOnce, NEW l \in Loops, OnlyMoves(l), SettledStays,
         task[l].at # "push", task'[l].at \notin {"push", "persist"},
         UNCHANGED <<told, pushes, severed>>, uttered \subseteq uttered'
  PROVE  OnePusher' /\ ToldOnce'
  <1>1. \A k \in Loops : At(k, "push")' <=> At(k, "push")
    BY DEF OnlyMoves, At
  <1>2. \A k \in Loops : (At(k, "push") \/ At(k, "persist"))' => task'[k] = task[k]
    BY DEF OnlyMoves, At
  <1>3. OnePusher'
    BY <1>1, <1>2 DEF OnePusher, Pusher, At
  <1>4. ToldOnce'
    <2> SUFFICES ASSUME NEW a \in Actions
                 PROVE  /\ pushes[a] <= 1
                        /\ (pushes[a] = 1 => told[a] # None)
                        /\ told[a] # None =>
                             /\ a \in uttered'
                             /\ \/ pushes[a] = 1 \/ a \in severed
                                \/ \E k \in Loops : At(k, "push")' /\ task'[k].action = a
                             /\ told[a].kind = "narration"
                                => told[a].of = engine'[a].status /\ told[a].of \in Settled
      BY DEF ToldOnce
    <2>1. told[a] # None /\ told[a].kind = "narration" => engine'[a].status = engine[a].status
      BY DEF ToldOnce, SettledStays
    <2>2. QED
      BY <1>1, <1>2, <2>1 DEF ToldOnce
  <1>5. QED
    BY <1>3, <1>4

\* room.join, its first half: the socket is registered.
LEMMA JoinKeeps ==
  ASSUME TurnInv, NEW l \in Loops, Join(l)
  PROVE  TurnInv'
  <1> USE NoneAssumption, TurnsAssumption DEF TurnInv, vars
  <1>0. OnlyMoves(l) /\ task'[l] = [Resting EXCEPT !.at = "opening", !.via = "join"]
    BY DEF Join, OnlyMoves, TurnsTypeOK, Handler, Resting, Vias, Statuses
  <1>m. OnlyMoves(l)
    BY <1>0
  <1>1. TurnsTypeOK'
    BY <1>0 DEF Join, OnlyMoves, Resting, TurnsTypeOK
  <1>2. Fits'
    <2>1. HandlerFits(l)'
      BY <1>0
      DEF Resting, Join, At, HandlerFits, Fits, Running, SawIsTrue, SawTrue, Settled, Waiting
    <2>2. \A k \in Loops \ {l} : Running(k)' => Running(k)
      BY <1>0 DEF Join, Running, Idle, TypeOK
    <2>3. QED
      BY <1>m, <2>1, <2>2, FitsOfMoved DEF Join
  <1>3. SawIsTrue'
    <2>1. SawTrue(l)'
      BY <1>0 DEF Resting, At, SawTrue, SawIsTrue, Fits, HandlerFits, Settled
    <2>2. SettledStays
      BY <1>0 DEF Join, At, SettledStays, TurnsTypeOK
    <2>3. QED
      BY <1>m, <2>1, <2>2, SawOfMoved DEF Join
  <1>4. DialogsAreOwn'
    BY <1>0 DEF Join, DialogsAreOwn
  <1>5. UtteredFirst'
    <2>1. SubmitsUttered
      BY <1>0 DEF Join, SubmitsUttered
    <2>2. task'[l].at \in {"submit", "narrate", "tell", "record"} => task'[l].action \in uttered'
      BY <1>0 DEF Join, At, UtteredFirst, TurnsTypeOK
    <2>3. QED
      BY <1>m, <2>1, <2>2, UtteredOfMoved DEF Join
  <1>6. WaitFits'
    BY <1>0 DEF Join, WaitFits, Fits
  <1>7. HasTeller'
    <2>1. ToldStays
      BY <1>0 DEF Join, ToldStays
    <2>2. SettlesAsTeller(l)
      BY <1>0 DEF Join, SettlesAsTeller
    <2>3. StaysTeller(l)
      BY <1>0 DEF Join, At, Teller, TurnsTypeOK, Fits, HandlerFits, StaysTeller
    <2>4. QED
      BY <1>m, <2>1, <2>2, <2>3, TellerOfMoved DEF Join
  <1>8. VotedHasTeller'
    <2>1. SettlesByVote(l)
      BY <1>0 DEF Join, SettlesByVote
    <2>2. StaysVoter(l)
      BY <1>0 DEF Join, At, Teller, TurnsTypeOK, Fits, HandlerFits, StaysVoter
    <2>3. QED
      BY <1>m, <2>1, <2>2, VotedOfMoved DEF Join
  <1>9. ResultsStand'
    <2>1. \A b \in results' : b \in results \/ engine'[b].status = "resolved"
      BY <1>0 DEF Join
    <2>2. SettledStays
      BY <1>0 DEF Join, At, SettledStays, TurnsTypeOK
    <2>3. ResolvesForResult(l)
      BY <1>0 DEF Join, ResolvesForResult
    <2>4. EmitsResult(l)
      BY <1>0 DEF Join, At, TurnsTypeOK, EmitsResult
    <2>5. QED
      BY <1>m, <2>1, <2>2, <2>3, <2>4, ResultsOfMoved DEF Join
  <1>10. OpeningHeard'
    <2>1. HearsOpening(l)
      BY <1>0 DEF Join, At, TurnsTypeOK, HearsOpening
    <2>2. task[l].at = "broadcast" => task'[l].at = "broadcast" \/ open' \subseteq heard'
      BY <1>0 DEF Join, At, TurnsTypeOK
    <2>3. QED
      BY <1>m, <2>1, <2>2, OpeningOfMoved DEF TurnsTypeOK, Join
  <1>11. OnePusher' /\ ToldOnce'
    <2>1. task[l].at # "push" /\ task'[l].at \notin {"push", "persist"}
      BY <1>0 DEF Join, Resting, At
    <2>2. SettledStays
      BY <1>0 DEF Join, At, SettledStays, TurnsTypeOK
    <2>3. QED
      BY <1>m, <2>1, <2>2, ToldOfMoved DEF Join
  <1> QED
    BY <1>1, <1>2, <1>3, <1>4, <1>5, <1>6, <1>7, <1>8, <1>9, <1>10, <1>11

\* The second half of room.join: the opening is replayed, a pending check is taken up.
LEMMA FinishJoinKeeps ==
  ASSUME TurnInv, NEW l \in Loops, FinishJoin(l)
  PROVE  TurnInv'
  <1> USE NoneAssumption, TurnsAssumption DEF TurnInv, vars
  <1>0. \/ Finishes(l)
        \/ \E a \in ActiveChecks(PlayerOf[l]) : a \in Actions /\ Owner[a] = PlayerOf[l]
             /\ Recovers(l, a)
    <2>1. ASSUME NEW a \in ActiveChecks(PlayerOf[l]),
                 task' = [task EXCEPT ![l].at = "recover", ![l].action = a]
          PROVE  a \in Actions /\ Owner[a] = PlayerOf[l] /\ Recovers(l, a)
      <3>1. a \in Actions /\ Owner[a] = PlayerOf[l]
        BY <2>1 DEF ActiveChecks
      <3>0. task[l] \in Handler
        BY DEF TurnsTypeOK
      <3>2. [task[l] EXCEPT !.at = "recover", !.action = a] \in Handler
        BY <3>0, <3>1 DEF Handler
      <3>3. task' \in [Loops -> Handler]
            /\ task'[l] = [task[l] EXCEPT !.at = "recover", !.action = a]
        BY <2>1, <3>2 DEF TurnsTypeOK
      <3>4. QED
        BY <2>1, <3>1, <3>3 DEF Recovers, OnlyMoves, TurnsTypeOK
    <2>2. QED
      BY <2>1, FinishMoves DEF FinishJoin, RecoverCheck
  <1>m. OnlyMoves(l)
    BY <1>0 DEF Finishes, Recovers, GoesOn
  <1>1. TurnsTypeOK'
    BY <1>0 DEF FinishJoin, Replayed, OnlyMoves, Finishes, Recovers, TurnsTypeOK
  <1>2. Fits'
    <2>1. HandlerFits(l)'
      BY <1>0
      DEF Finishes, Recovers, GoesOn, Resting, FinishJoin, At, Replayed, HandlerFits, Fits,
          Running, SawIsTrue, SawTrue, Settled, Waiting
    <2>2. \A k \in Loops \ {l} : Running(k)' => Running(k)
      BY <1>0 DEF FinishJoin, At, Replayed, Running, Idle, TypeOK
    <2>3. QED
      BY <1>m, <2>1, <2>2, FitsOfMoved DEF FinishJoin
  <1>3. SawIsTrue'
    <2>1. SawTrue(l)'
      BY <1>0
      DEF Finishes, Recovers, GoesOn, Resting, FinishJoin, At, Replayed, SawTrue, SawIsTrue, Fits,
          HandlerFits, TurnsTypeOK, Settled, Waiting
    <2>2. SettledStays
      BY <1>0 DEF FinishJoin, At, SettledStays, TurnsTypeOK
    <2>3. QED
      BY <1>m, <2>1, <2>2, SawOfMoved DEF FinishJoin
  <1>4. DialogsAreOwn'
    BY <1>0 DEF FinishJoin, DialogsAreOwn
  <1>5. UtteredFirst'
    <2>1. SubmitsUttered
      BY <1>0 DEF FinishJoin, SubmitsUttered
    <2>2. task'[l].at \in {"submit", "narrate", "tell", "record"} => task'[l].action \in uttered'
      BY <1>0
      DEF Finishes, Recovers, Resting, FinishJoin, Replayed, UtteredFirst, HandlerFits,
          TurnsTypeOK
    <2>3. QED
      BY <1>m, <2>1, <2>2, UtteredOfMoved DEF FinishJoin
  <1>6. WaitFits'
    BY <1>0 DEF FinishJoin, WaitFits, Fits
  <1>7. HasTeller'
    <2>1. ToldStays
      BY <1>0 DEF FinishJoin, ToldStays
    <2>2. SettlesAsTeller(l)
      BY <1>0 DEF FinishJoin, SettlesAsTeller
    <2>3. StaysTeller(l)
      BY <1>0 DEF FinishJoin, At, Teller, TurnsTypeOK, Fits, HandlerFits, StaysTeller
    <2>4. QED
      BY <1>m, <2>1, <2>2, <2>3, TellerOfMoved DEF FinishJoin
  <1>8. VotedHasTeller'
    <2>1. SettlesByVote(l)
      BY <1>0 DEF FinishJoin, SettlesByVote
    <2>2. StaysVoter(l)
      BY <1>0 DEF FinishJoin, StaysVoter
    <2>3. QED
      BY <1>m, <2>1, <2>2, VotedOfMoved DEF FinishJoin
  <1>9. ResultsStand'
    <2>1. \A b \in results' : b \in results \/ engine'[b].status = "resolved"
      BY <1>0 DEF FinishJoin
    <2>2. SettledStays
      BY <1>0 DEF FinishJoin, At, SettledStays, TurnsTypeOK
    <2>3. ResolvesForResult(l)
      BY <1>0 DEF FinishJoin, ResolvesForResult
    <2>4. EmitsResult(l)
      BY <1>0 DEF FinishJoin, At, TurnsTypeOK, EmitsResult
    <2>5. QED
      BY <1>m, <2>1, <2>2, <2>3, <2>4, ResultsOfMoved DEF FinishJoin
  <1>10. OpeningHeard'
    <2>1. HearsOpening(l)
      BY <1>0 DEF FinishJoin, At, Replayed, TurnsTypeOK, HearsOpening
    <2>2. task[l].at = "broadcast" => task'[l].at = "broadcast" \/ open' \subseteq heard'
      BY <1>0 DEF FinishJoin, At, TurnsTypeOK
    <2>3. QED
      BY <1>m, <2>1, <2>2, OpeningOfMoved DEF TurnsTypeOK, FinishJoin
  <1>11. OnePusher' /\ ToldOnce'
    <2>1. task[l].at # "push" /\ task'[l].at \notin {"push", "persist"}
      BY <1>0 DEF FinishJoin, Finishes, GoesOn, Recovers, Resting, At
    <2>2. SettledStays
      BY <1>0 DEF FinishJoin, At, SettledStays, TurnsTypeOK
    <2>3. QED
      BY <1>m, <2>1, <2>2, ToldOfMoved DEF FinishJoin
  <1> QED
    BY <1>1, <1>2, <1>3, <1>4, <1>5, <1>6, <1>7, <1>8, <1>9, <1>10, <1>11

\* game.start.
LEMMA StartGameKeeps ==
  ASSUME TurnInv, NEW l \in Loops, StartGame(l)
  PROVE  TurnInv'
  <1> USE NoneAssumption, TurnsAssumption DEF TurnInv, vars
  <1>0. UNCHANGED task \/ Begins(l, "start", None, "opening")
    BY BeginMoves DEF StartGame, Steps, Vias
  <1>1. TurnsTypeOK'
    BY <1>0 DEF StartGame, OnlyMoves, Begins, TurnsTypeOK
  <1>2. Fits'
    BY <1>0
    DEF StartGame, OnlyMoves, Begins, TurnsTypeOK, Fits, HandlerFits, Running, Resting
  <1>3. SawIsTrue'
    BY <1>0 DEF StartGame, OnlyMoves, Begins, TurnsTypeOK, SawIsTrue, SawTrue, Settled
  <1>4. DialogsAreOwn'
    BY <1>0 DEF StartGame, DialogsAreOwn
  <1>5. UtteredFirst'
    BY <1>0 DEF StartGame, OnlyMoves, Begins, TurnsTypeOK, UtteredFirst
  <1>6. WaitFits'
    BY <1>0 DEF StartGame, WaitFits, Fits
  <1>7. HasTeller'
    BY <1>0 DEF StartGame, At, OnlyMoves, Begins, TurnsTypeOK, HasTeller, Teller, Settled
  <1>8. VotedHasTeller'
    <2>1. SettlesByVote(l)
      BY <1>0 DEF StartGame, SettlesByVote
    <2>2. StaysVoter(l)
      BY <1>0 DEF Begins, At, Teller, TurnsTypeOK, Fits, StaysVoter
    <2>3. QED
      BY <1>0, <2>1, <2>2, VotedOfMoved DEF TurnsTypeOK, StartGame, OnlyMoves, Begins
  <1>9. ResultsStand'
    BY <1>0
    DEF StartGame, At, OnlyMoves, Begins, TurnsTypeOK, ResultsStand, Settled, Waiting, Fits,
        HandlerFits
  <1>10. OpeningHeard'
    BY <1>0 DEF StartGame, At, Waiting, Settled, TurnsTypeOK, OpeningHeard
  <1>11. OnePusher' /\ ToldOnce'
    <2>1. CASE UNCHANGED task
      BY <2>1 DEF StartGame, OnePusher, Pusher, ToldOnce, At
    <2>2. CASE Begins(l, "start", None, "opening")
      <3>1. OnlyMoves(l) /\ task[l].at # "push" /\ task'[l].at \notin {"push", "persist"}
        BY <2>2 DEF Begins
      <3>2. SettledStays
        BY DEF StartGame, SettledStays
      <3>3. QED
        BY <3>1, <3>2, ToldOfMoved DEF StartGame
    <2>3. QED
      BY <1>0, <2>1, <2>2
  <1> QED
    BY <1>1, <1>2, <1>3, <1>4, <1>5, <1>6, <1>7, <1>8, <1>9, <1>10, <1>11

\* The opening is stored, by the first who gets there.
LEMMA StoreOpeningKeeps ==
  ASSUME TurnInv, NEW l \in Loops, StoreOpening(l)
  PROVE  TurnInv'
  <1> USE NoneAssumption, TurnsAssumption DEF TurnInv, vars
  <1>0. (Finishes(l) /\ opening = "stored") \/ GoesOn(l, "broadcast")
    BY FinishMoves, GoMoves DEF StoreOpening, Steps
  <1>m. OnlyMoves(l)
    BY <1>0 DEF GoesOn, Finishes
  <1>1. TurnsTypeOK'
    BY <1>0 DEF StoreOpening, OnlyMoves, GoesOn, Finishes, TurnsTypeOK
  <1>2. Fits'
    <2>1. HandlerFits(l)'
      BY <1>0
      DEF GoesOn, Finishes, Resting, StoreOpening, At, HandlerFits, Fits, Running, SawIsTrue,
          SawTrue, Settled, Waiting
    <2>2. \A k \in Loops \ {l} : Running(k)' => Running(k)
      BY <1>0 DEF StoreOpening, At, Running, Idle, TypeOK
    <2>3. QED
      BY <1>m, <2>1, <2>2, FitsOfMoved DEF StoreOpening
  <1>3. SawIsTrue'
    <2>1. SawTrue(l)'
      BY <1>0
      DEF GoesOn, Finishes, Resting, StoreOpening, At, SawTrue, SawIsTrue, Fits, HandlerFits,
          TurnsTypeOK, Settled, Waiting
    <2>2. SettledStays
      BY <1>0 DEF StoreOpening, At, SettledStays, TurnsTypeOK
    <2>3. QED
      BY <1>m, <2>1, <2>2, SawOfMoved DEF StoreOpening
  <1>4. DialogsAreOwn'
    BY <1>0 DEF StoreOpening, DialogsAreOwn
  <1>5. UtteredFirst'
    <2>1. SubmitsUttered
      BY <1>0 DEF StoreOpening, SubmitsUttered
    <2>2. task'[l].at \in {"submit", "narrate", "tell", "record"} => task'[l].action \in uttered'
      BY <1>0 DEF GoesOn, Finishes, Resting, StoreOpening, At, Fits
    <2>3. QED
      BY <1>m, <2>1, <2>2, UtteredOfMoved DEF StoreOpening
  <1>6. WaitFits'
    BY <1>0 DEF StoreOpening, WaitFits, Fits
  <1>7. HasTeller'
    <2>1. ToldStays
      BY <1>0 DEF StoreOpening, ToldStays
    <2>2. SettlesAsTeller(l)
      BY <1>0 DEF StoreOpening, SettlesAsTeller
    <2>3. StaysTeller(l)
      BY <1>0 DEF StoreOpening, At, Teller, TurnsTypeOK, Fits, HandlerFits, StaysTeller
    <2>4. QED
      BY <1>m, <2>1, <2>2, <2>3, TellerOfMoved DEF StoreOpening
  <1>8. VotedHasTeller'
    <2>1. SettlesByVote(l)
      BY <1>0 DEF StoreOpening, SettlesByVote
    <2>2. StaysVoter(l)
      BY <1>0 DEF StoreOpening, StaysVoter
    <2>3. QED
      BY <1>m, <2>1, <2>2, VotedOfMoved DEF StoreOpening
  <1>9. ResultsStand'
    <2>1. \A b \in results' : b \in results \/ engine'[b].status = "resolved"
      BY <1>0 DEF StoreOpening
    <2>2. SettledStays
      BY <1>0 DEF StoreOpening, At, SettledStays, TurnsTypeOK
    <2>3. ResolvesForResult(l)
      BY <1>0 DEF StoreOpening, ResolvesForResult
    <2>4. EmitsResult(l)
      BY <1>0 DEF StoreOpening, At, TurnsTypeOK, EmitsResult
    <2>5. QED
      BY <1>m, <2>1, <2>2, <2>3, <2>4, ResultsOfMoved DEF StoreOpening
  <1>10. OpeningHeard'
    BY <1>0 DEF StoreOpening, At, OnlyMoves, GoesOn, Finishes, TurnsTypeOK, OpeningHeard
  <1>11. OnePusher' /\ ToldOnce'
    <2>1. task[l].at # "push" /\ task'[l].at \notin {"push", "persist"}
      BY <1>0 DEF StoreOpening, Finishes, GoesOn, Resting, At
    <2>2. SettledStays
      BY <1>0 DEF StoreOpening, At, SettledStays, TurnsTypeOK
    <2>3. QED
      BY <1>m, <2>1, <2>2, ToldOfMoved DEF StoreOpening
  <1> QED
    BY <1>1, <1>2, <1>3, <1>4, <1>5, <1>6, <1>7, <1>8, <1>9, <1>10, <1>11

\* The opening is sent to every socket of the room.
LEMMA BroadcastOpeningKeeps ==
  ASSUME TurnInv, NEW l \in Loops, BroadcastOpening(l)
  PROVE  TurnInv'
  <1> USE NoneAssumption, TurnsAssumption DEF TurnInv, vars
  <1>0. Finishes(l)
    BY FinishMoves DEF BroadcastOpening
  <1>m. OnlyMoves(l)
    BY <1>0 DEF Finishes, GoesOn
  <1>1. TurnsTypeOK'
    BY <1>0 DEF BroadcastOpening, OnlyMoves, Finishes, At, Fits, HandlerFits, TurnsTypeOK
  <1>2. Fits'
    <2>1. HandlerFits(l)'
      BY <1>0
      DEF Finishes, GoesOn, Resting, BroadcastOpening, At, HandlerFits, Fits, Running, SawIsTrue,
          SawTrue, Settled, Waiting
    <2>2. \A k \in Loops \ {l} : Running(k)' => Running(k)
      BY <1>0 DEF BroadcastOpening, At, Running, Idle, TypeOK
    <2>3. QED
      BY <1>m, <2>1, <2>2, FitsOfMoved DEF BroadcastOpening
  <1>3. SawIsTrue'
    <2>1. SawTrue(l)'
      BY <1>0
      DEF Finishes, GoesOn, Resting, BroadcastOpening, At, SawTrue, SawIsTrue, Fits, HandlerFits,
          TurnsTypeOK, Settled, Waiting
    <2>2. SettledStays
      BY <1>0 DEF BroadcastOpening, At, SettledStays, TurnsTypeOK
    <2>3. QED
      BY <1>m, <2>1, <2>2, SawOfMoved DEF BroadcastOpening
  <1>4. DialogsAreOwn'
    BY <1>0 DEF BroadcastOpening, DialogsAreOwn
  <1>5. UtteredFirst'
    <2>1. SubmitsUttered
      BY <1>0 DEF BroadcastOpening, SubmitsUttered
    <2>2. task'[l].at \in {"submit", "narrate", "tell", "record"} => task'[l].action \in uttered'
      BY <1>0
      DEF Finishes, GoesOn, Resting, BroadcastOpening, At, UtteredFirst, Fits, HandlerFits,
          TurnsTypeOK
    <2>3. QED
      BY <1>m, <2>1, <2>2, UtteredOfMoved DEF BroadcastOpening
  <1>6. WaitFits'
    BY <1>0 DEF BroadcastOpening, WaitFits, Fits
  <1>7. HasTeller'
    <2>1. ToldStays
      BY <1>0 DEF BroadcastOpening, ToldStays
    <2>2. SettlesAsTeller(l)
      BY <1>0 DEF BroadcastOpening, SettlesAsTeller
    <2>3. StaysTeller(l)
      BY <1>0 DEF BroadcastOpening, At, Teller, TurnsTypeOK, Fits, HandlerFits, StaysTeller
    <2>4. QED
      BY <1>m, <2>1, <2>2, <2>3, TellerOfMoved DEF BroadcastOpening
  <1>8. VotedHasTeller'
    <2>1. SettlesByVote(l)
      BY <1>0 DEF BroadcastOpening, SettlesByVote
    <2>2. StaysVoter(l)
      BY <1>0 DEF BroadcastOpening, At, Teller, HandlerFits, StaysVoter
    <2>3. QED
      BY <1>m, <2>1, <2>2, VotedOfMoved DEF BroadcastOpening
  <1>9. ResultsStand'
    <2>1. \A b \in results' : b \in results \/ engine'[b].status = "resolved"
      BY <1>0 DEF BroadcastOpening
    <2>2. SettledStays
      BY <1>0 DEF BroadcastOpening, At, SettledStays, TurnsTypeOK
    <2>3. ResolvesForResult(l)
      BY <1>0 DEF BroadcastOpening, ResolvesForResult
    <2>4. EmitsResult(l)
      BY <1>0 DEF BroadcastOpening, At, TurnsTypeOK, EmitsResult
    <2>5. QED
      BY <1>m, <2>1, <2>2, <2>3, <2>4, ResultsOfMoved DEF BroadcastOpening
  <1>10. OpeningHeard'
    <2>1. HearsOpening(l)
      BY <1>0 DEF BroadcastOpening, HearsOpening
    <2>2. task[l].at = "broadcast" => task'[l].at = "broadcast" \/ open' \subseteq heard'
      BY <1>0 DEF BroadcastOpening
    <2>3. QED
      BY <1>m, <2>1, <2>2, OpeningOfMoved DEF TurnsTypeOK, BroadcastOpening
  <1>11. OnePusher' /\ ToldOnce'
    <2>1. task[l].at # "push" /\ task'[l].at \notin {"push", "persist"}
      BY <1>0 DEF BroadcastOpening, Finishes, GoesOn, Resting, At
    <2>2. SettledStays
      BY <1>0 DEF BroadcastOpening, At, SettledStays, TurnsTypeOK
    <2>3. QED
      BY <1>m, <2>1, <2>2, ToldOfMoved DEF BroadcastOpening
  <1> QED
    BY <1>1, <1>2, <1>3, <1>4, <1>5, <1>6, <1>7, <1>8, <1>9, <1>10, <1>11

\* A stored turn is told again instead of being played again.
LEMMA ReplayStoredKeeps ==
  ASSUME TurnInv, NEW l \in Loops, ReplayStored(l)
  PROVE  TurnInv'
  <1> USE NoneAssumption, TurnsAssumption DEF TurnInv, vars
  <1>0. \/ Finishes(l) /\ told[task[l].action] # None
        \/ task[l].via = "submit" /\ GoesOn(l, "lock")
        \/ task[l].via # "submit" /\ GoesOn(l, "resume")
    BY FinishMoves, GoMoves DEF ReplayStored, Steps
  <1>m. OnlyMoves(l)
    BY <1>0 DEF GoesOn, Finishes
  <1>1. TurnsTypeOK'
    BY <1>0
    DEF ReplayStored, Answered, OnlyMoves, GoesOn, Finishes, At, Fits, HandlerFits, TurnsTypeOK
  <1>2. Fits'
    <2>1. HandlerFits(l)'
      BY <1>0
      DEF GoesOn, Finishes, Resting, ReplayStored, At, Answered, HandlerFits, Fits, Running,
          SawIsTrue, SawTrue, Settled, Waiting
    <2>2. \A k \in Loops \ {l} : Running(k)' => Running(k)
      BY <1>0 DEF ReplayStored, At, Answered, Running, Idle, TypeOK
    <2>3. QED
      BY <1>m, <2>1, <2>2, FitsOfMoved DEF ReplayStored
  <1>3. SawIsTrue'
    <2>1. SawTrue(l)'
      BY <1>0
      DEF GoesOn, Finishes, Resting, ReplayStored, At, Answered, SawTrue, SawIsTrue, Fits,
          HandlerFits, TurnsTypeOK, Settled, Waiting
    <2>2. SettledStays
      BY <1>0 DEF ReplayStored, At, SettledStays, TurnsTypeOK
    <2>3. QED
      BY <1>m, <2>1, <2>2, SawOfMoved DEF ReplayStored
  <1>4. DialogsAreOwn'
    BY <1>0 DEF ReplayStored, DialogsAreOwn
  <1>5. UtteredFirst'
    <2>1. SubmitsUttered
      BY <1>0 DEF ReplayStored, SubmitsUttered
    <2>2. task'[l].at \in {"submit", "narrate", "tell", "record"} => task'[l].action \in uttered'
      BY <1>0
      DEF GoesOn, Finishes, Resting, ReplayStored, At, Answered, UtteredFirst, Fits, HandlerFits,
          TurnsTypeOK
    <2>3. QED
      BY <1>m, <2>1, <2>2, UtteredOfMoved DEF ReplayStored
  <1>6. WaitFits'
    BY <1>0 DEF ReplayStored, WaitFits, Fits
  <1>7. HasTeller'
    <2>1. ToldStays
      BY <1>0 DEF ReplayStored, ToldStays
    <2>2. SettlesAsTeller(l)
      BY <1>0 DEF ReplayStored, SettlesAsTeller
    <2>3. StaysTeller(l)
      BY <1>0
      DEF GoesOn, Finishes, Resting, ReplayStored, At, Answered, Teller, Settled, StaysTeller
    <2>4. QED
      BY <1>m, <2>1, <2>2, <2>3, TellerOfMoved DEF ReplayStored
  <1>8. VotedHasTeller'
    <2>1. SettlesByVote(l)
      BY <1>0 DEF ReplayStored, SettlesByVote
    <2>2. StaysVoter(l)
      BY <1>0 DEF ReplayStored, At, Teller, TurnsTypeOK, Fits, HandlerFits, StaysVoter
    <2>3. QED
      BY <1>m, <2>1, <2>2, VotedOfMoved DEF ReplayStored
  <1>9. ResultsStand'
    <2>1. \A b \in results' : b \in results \/ engine'[b].status = "resolved"
      BY <1>0 DEF ReplayStored
    <2>2. SettledStays
      BY <1>0 DEF ReplayStored, At, SettledStays, TurnsTypeOK
    <2>3. ResolvesForResult(l)
      BY <1>0 DEF ReplayStored, ResolvesForResult
    <2>4. EmitsResult(l)
      BY <1>0 DEF ReplayStored, At, TurnsTypeOK, EmitsResult
    <2>5. QED
      BY <1>m, <2>1, <2>2, <2>3, <2>4, ResultsOfMoved DEF ReplayStored
  <1>10. OpeningHeard'
    <2>1. HearsOpening(l)
      BY <1>0 DEF ReplayStored, At, TurnsTypeOK, HearsOpening
    <2>2. task[l].at = "broadcast" => task'[l].at = "broadcast" \/ open' \subseteq heard'
      BY <1>0 DEF ReplayStored, At, TurnsTypeOK
    <2>3. QED
      BY <1>m, <2>1, <2>2, OpeningOfMoved DEF TurnsTypeOK, ReplayStored
  <1>11. OnePusher' /\ ToldOnce'
    <2>1. task[l].at # "push" /\ task'[l].at \notin {"push", "persist"}
      BY <1>0 DEF ReplayStored, Finishes, GoesOn, Resting, At
    <2>2. SettledStays
      BY <1>0 DEF ReplayStored, At, SettledStays, TurnsTypeOK
    <2>3. QED
      BY <1>m, <2>1, <2>2, ToldOfMoved DEF ReplayStored
  <1> QED
    BY <1>1, <1>2, <1>3, <1>4, <1>5, <1>6, <1>7, <1>8, <1>9, <1>10, <1>11

\* An execution that stands is resumed by its action.
LEMMA ResumeSingleKeeps ==
  ASSUME TurnInv, NEW l \in Loops, ResumeSingle(l)
  PROVE  TurnInv'
  <1> USE NoneAssumption, TurnsAssumption DEF TurnInv, vars
  <1>0. LET a == task[l].action
        IN  \/ Finishes(l) /\ (Owner[a] = PlayerAt(l) => engine[a] = NotSubmitted)
            \/ Takes(l, engine[a].status) /\ Owner[a] = PlayerAt(l)
    BY FinishMoves, TookMoves
    DEF ResumeSingle, RecoverAction, At, TurnsTypeOK, Fits, HandlerFits, Execution, NotSubmitted
  <1>m. OnlyMoves(l)
    BY <1>0 DEF Finishes, Takes, GoesOn
  <1>1. TurnsTypeOK'
    BY <1>0
    DEF ResumeSingle, PlayerAt, OnlyMoves, Finishes, Takes, At, Fits, HandlerFits, TurnsTypeOK
  <1>2. Fits'
    <2>1. HandlerFits(l)'
      BY <1>0, SMTT(20)
      DEF Finishes, Takes, GoesOn, Resting, Waiting, Settled, ResumeSingle, At, PlayerAt,
          HandlerFits, Fits, Running, SawIsTrue, SawTrue
    <2>2. \A k \in Loops \ {l} : Running(k)' => Running(k)
      BY <1>0 DEF ResumeSingle, At, PlayerAt, Running, Idle, TypeOK
    <2>3. QED
      BY <1>m, <2>1, <2>2, FitsOfMoved DEF ResumeSingle
  <1>3. SawIsTrue'
    <2>1. SawTrue(l)'
      BY <1>0
      DEF Finishes, Takes, GoesOn, Resting, Waiting, Settled, ResumeSingle, At, PlayerAt, SawTrue,
          SawIsTrue, Fits, HandlerFits, TurnsTypeOK
    <2>2. SettledStays
      BY <1>0 DEF ResumeSingle, At, SettledStays, TurnsTypeOK
    <2>3. QED
      BY <1>m, <2>1, <2>2, SawOfMoved DEF ResumeSingle
  <1>4. DialogsAreOwn'
    BY <1>0 DEF ResumeSingle, DialogsAreOwn
  <1>5. UtteredFirst'
    <2>1. SubmitsUttered
      BY <1>0 DEF ResumeSingle, SubmitsUttered
    <2>2. task'[l].at \in {"submit", "narrate", "tell", "record"} => task'[l].action \in uttered'
      BY <1>0
      DEF Finishes, Takes, GoesOn, Resting, Waiting, Settled, ResumeSingle, At, PlayerAt,
          UtteredFirst, Fits, HandlerFits, TurnsTypeOK
    <2>3. QED
      BY <1>m, <2>1, <2>2, UtteredOfMoved DEF ResumeSingle
  <1>6. WaitFits'
    BY <1>0 DEF ResumeSingle, WaitFits, Fits
  <1>7. HasTeller'
    <2>1. ToldStays
      BY <1>0 DEF ResumeSingle, ToldStays
    <2>2. SettlesAsTeller(l)
      BY <1>0 DEF ResumeSingle, SettlesAsTeller
    <2>3. StaysTeller(l)
      BY <1>0
      DEF Finishes, Takes, GoesOn, Resting, Waiting, Settled, ResumeSingle, At, PlayerAt,
          NotSubmitted, Teller, TurnsTypeOK, Fits, HandlerFits, StaysTeller
    <2>4. QED
      BY <1>m, <2>1, <2>2, <2>3, TellerOfMoved DEF ResumeSingle
  <1>8. VotedHasTeller'
    <2>1. SettlesByVote(l)
      BY <1>0 DEF ResumeSingle, SettlesByVote
    <2>2. StaysVoter(l)
      BY <1>0
      DEF Finishes, Takes, GoesOn, Resting, Waiting, Settled, ResumeSingle, At, PlayerAt,
          SawIsTrue, SawTrue, NotSubmitted, Teller, TurnsTypeOK, Fits, HandlerFits, StaysVoter
    <2>3. QED
      BY <1>m, <2>1, <2>2, VotedOfMoved DEF ResumeSingle
  <1>9. ResultsStand'
    <2>1. \A b \in results' : b \in results \/ engine'[b].status = "resolved"
      BY <1>0 DEF ResumeSingle
    <2>2. SettledStays
      BY <1>0 DEF ResumeSingle, At, SettledStays, TurnsTypeOK
    <2>3. ResolvesForResult(l)
      BY <1>0 DEF ResumeSingle, ResolvesForResult
    <2>4. EmitsResult(l)
      BY <1>0 DEF ResumeSingle, At, TurnsTypeOK, EmitsResult
    <2>5. QED
      BY <1>m, <2>1, <2>2, <2>3, <2>4, ResultsOfMoved DEF ResumeSingle
  <1>10. OpeningHeard'
    <2>1. HearsOpening(l)
      BY <1>0 DEF ResumeSingle, At, TurnsTypeOK, HearsOpening
    <2>2. task[l].at = "broadcast" => task'[l].at = "broadcast" \/ open' \subseteq heard'
      BY <1>0 DEF ResumeSingle, At, TurnsTypeOK
    <2>3. QED
      BY <1>m, <2>1, <2>2, OpeningOfMoved DEF TurnsTypeOK, ResumeSingle
  <1>11. OnePusher' /\ ToldOnce'
    <2>1. task[l].at # "push" /\ task'[l].at \notin {"push", "persist"}
      BY <1>0 DEF ResumeSingle, Takes, Finishes, GoesOn, Resting, At
    <2>2. SettledStays
      BY <1>0 DEF ResumeSingle, At, SettledStays, TurnsTypeOK
    <2>3. QED
      BY <1>m, <2>1, <2>2, ToldOfMoved DEF ResumeSingle
  <1> QED
    BY <1>1, <1>2, <1>3, <1>4, <1>5, <1>6, <1>7, <1>8, <1>9, <1>10, <1>11

\* The turn gets the room, or finds it busy.
LEMMA LockKeeps ==
  ASSUME TurnInv, NEW l \in Loops, TypeOK, Lock(l)
  PROVE  TurnInv'
  <1> USE NoneAssumption, TurnsAssumption DEF TurnInv, vars
  <1>0. (Finishes(l) /\ UNCHANGED vars) \/ (GoesOn(l, "plan") /\ TryAcquire(l, Room))
    BY FinishMoves, GoMoves DEF Lock, Steps
  <1>m. OnlyMoves(l)
    BY <1>0 DEF GoesOn, Finishes
  <1>1. TurnsTypeOK'
    BY <1>0 DEF Lock, TryAcquire, OnlyMoves, GoesOn, Finishes, TurnsTypeOK
  <1>2. Fits'
    <2>1. HandlerFits(l)'
      BY <1>0
      DEF GoesOn, Finishes, Resting, Lock, At, TryAcquire, HandlerFits, Fits, Running, SawIsTrue,
          SawTrue, Settled, Waiting, Idle, TypeOK
    <2>2. \A k \in Loops \ {l} : Running(k)' => Running(k)
      BY <1>0 DEF Lock, At, TryAcquire, Running, Idle, TypeOK
    <2>3. QED
      BY <1>m, <2>1, <2>2, FitsOfMoved DEF Lock
  <1>3. SawIsTrue'
    <2>1. SawTrue(l)'
      BY <1>0
      DEF GoesOn, Finishes, Resting, Lock, At, TryAcquire, SawTrue, SawIsTrue, Fits, HandlerFits,
          TurnsTypeOK, Settled, Waiting
    <2>2. SettledStays
      BY <1>0 DEF Lock, At, SettledStays, TurnsTypeOK
    <2>3. QED
      BY <1>m, <2>1, <2>2, SawOfMoved DEF Lock
  <1>4. DialogsAreOwn'
    BY <1>0 DEF Lock, DialogsAreOwn
  <1>5. UtteredFirst'
    <2>1. SubmitsUttered
      BY <1>0 DEF Lock, SubmitsUttered
    <2>2. task'[l].at \in {"submit", "narrate", "tell", "record"} => task'[l].action \in uttered'
      BY <1>0
      DEF GoesOn, Finishes, Resting, Lock, At, TryAcquire, UtteredFirst, Fits, HandlerFits,
          TurnsTypeOK
    <2>3. QED
      BY <1>m, <2>1, <2>2, UtteredOfMoved DEF Lock
  <1>6. WaitFits'
    BY <1>0 DEF Lock, WaitFits, Fits
  <1>7. HasTeller'
    <2>1. ToldStays
      BY <1>0 DEF Lock, ToldStays
    <2>2. SettlesAsTeller(l)
      BY <1>0 DEF Lock, SettlesAsTeller
    <2>3. StaysTeller(l)
      BY <1>0 DEF Lock, At, Teller, TurnsTypeOK, Fits, HandlerFits, StaysTeller
    <2>4. QED
      BY <1>m, <2>1, <2>2, <2>3, TellerOfMoved DEF Lock
  <1>8. VotedHasTeller'
    <2>1. SettlesByVote(l)
      BY <1>0 DEF Lock, SettlesByVote
    <2>2. StaysVoter(l)
      BY <1>0 DEF Lock, At, Teller, TurnsTypeOK, Fits, HandlerFits, StaysVoter
    <2>3. QED
      BY <1>m, <2>1, <2>2, VotedOfMoved DEF Lock
  <1>9. ResultsStand'
    <2>1. \A b \in results' : b \in results \/ engine'[b].status = "resolved"
      BY <1>0 DEF Lock
    <2>2. SettledStays
      BY <1>0 DEF Lock, At, SettledStays, TurnsTypeOK
    <2>3. ResolvesForResult(l)
      BY <1>0 DEF Lock, ResolvesForResult
    <2>4. EmitsResult(l)
      BY <1>0 DEF Lock, At, TurnsTypeOK, EmitsResult
    <2>5. QED
      BY <1>m, <2>1, <2>2, <2>3, <2>4, ResultsOfMoved DEF Lock
  <1>10. OpeningHeard'
    <2>1. HearsOpening(l)
      BY <1>0 DEF Lock, At, TurnsTypeOK, HearsOpening
    <2>2. task[l].at = "broadcast" => task'[l].at = "broadcast" \/ open' \subseteq heard'
      BY <1>0 DEF Lock, At, TurnsTypeOK
    <2>3. QED
      BY <1>m, <2>1, <2>2, OpeningOfMoved DEF TurnsTypeOK, Lock
  <1>11. OnePusher' /\ ToldOnce'
    <2>1. task[l].at # "push" /\ task'[l].at \notin {"push", "persist"}
      BY <1>0 DEF Lock, Finishes, GoesOn, Resting, At
    <2>2. SettledStays
      BY <1>0 DEF Lock, At, SettledStays, TurnsTypeOK
    <2>3. QED
      BY <1>m, <2>1, <2>2, ToldOfMoved DEF Lock
  <1> QED
    BY <1>1, <1>2, <1>3, <1>4, <1>5, <1>6, <1>7, <1>8, <1>9, <1>10, <1>11

\* The utterance is recorded, then the planner answers.
LEMMA PlanKeeps ==
  ASSUME TurnInv, NEW l \in Loops, Plan(l)
  PROVE  TurnInv'
  <1> USE NoneAssumption, TurnsAssumption DEF TurnInv, vars
  <1>0. GoesOn(l, "submit") \/ Tells(l, "clarification") \/ Finishes(l)
    <2>1. ASSUME task' = [task EXCEPT ![l].at = "tell", ![l].kind = "clarification"]
          PROVE  Tells(l, "clarification")
      <3>0. task[l] \in Handler
        BY DEF TurnsTypeOK
      <3>1. [task[l] EXCEPT !.at = "tell", !.kind = "clarification"] \in Handler
        BY <3>0 DEF Handler
      <3>2. task' \in [Loops -> Handler]
            /\ task'[l] = [task[l] EXCEPT !.at = "tell", !.kind = "clarification"]
        BY <2>1, <3>1 DEF TurnsTypeOK
      <3>3. QED
        BY <2>1, <3>2 DEF Tells, OnlyMoves, TurnsTypeOK
    <2>2. QED
      BY <2>1, FinishMoves, GoMoves DEF Plan, Steps
  <1>m. OnlyMoves(l)
    BY <1>0 DEF GoesOn, Finishes, Tells
  <1>1. TurnsTypeOK'
    BY <1>0 DEF Plan, OnlyMoves, GoesOn, Finishes, Tells, At, Fits, HandlerFits, TurnsTypeOK
  <1>2. Fits'
    <2>1. HandlerFits(l)'
      BY <1>0
      DEF GoesOn, Finishes, Tells, Resting, Plan, At, HandlerFits, Fits, Running, SawIsTrue,
          SawTrue, Settled, Waiting
    <2>2. \A k \in Loops \ {l} : Running(k)' => Running(k)
      BY <1>0 DEF Plan, At, Running, TypeOK
    <2>3. QED
      BY <1>m, <2>1, <2>2, FitsOfMoved DEF Plan
  <1>3. SawIsTrue'
    <2>1. SawTrue(l)'
      BY <1>0
      DEF GoesOn, Finishes, Tells, Resting, Plan, At, SawTrue, SawIsTrue, Fits, HandlerFits,
          TurnsTypeOK, Settled, Waiting
    <2>2. SettledStays
      BY <1>0 DEF Plan, At, SettledStays, TurnsTypeOK
    <2>3. QED
      BY <1>m, <2>1, <2>2, SawOfMoved DEF Plan
  <1>4. DialogsAreOwn'
    BY <1>0 DEF Plan, DialogsAreOwn
  <1>5. UtteredFirst'
    <2>1. SubmitsUttered
      BY <1>0 DEF Plan, SubmitsUttered
    <2>2. task'[l].at \in {"submit", "narrate", "tell", "record"} => task'[l].action \in uttered'
      BY <1>0
      DEF GoesOn, Finishes, Tells, Resting, Plan, At, UtteredFirst, Fits, HandlerFits, TurnsTypeOK
    <2>3. QED
      BY <1>m, <2>1, <2>2, UtteredOfMoved DEF Plan
  <1>6. WaitFits'
    BY <1>0 DEF Plan, WaitFits, Fits
  <1>7. HasTeller'
    <2>1. ToldStays
      BY <1>0 DEF Plan, ToldStays
    <2>2. SettlesAsTeller(l)
      BY <1>0 DEF Plan, SettlesAsTeller
    <2>3. StaysTeller(l)
      BY <1>0 DEF Plan, At, Teller, Fits, StaysTeller
    <2>4. QED
      BY <1>m, <2>1, <2>2, <2>3, TellerOfMoved DEF Plan
  <1>8. VotedHasTeller'
    <2>1. SettlesByVote(l)
      BY <1>0 DEF Plan, SettlesByVote
    <2>2. StaysVoter(l)
      BY <1>0 DEF Plan, At, Teller, TurnsTypeOK, Fits, HandlerFits, StaysVoter
    <2>3. QED
      BY <1>m, <2>1, <2>2, VotedOfMoved DEF Plan
  <1>9. ResultsStand'
    <2>1. \A b \in results' : b \in results \/ engine'[b].status = "resolved"
      BY <1>0 DEF Plan
    <2>2. SettledStays
      BY <1>0 DEF Plan, At, SettledStays, TurnsTypeOK
    <2>3. ResolvesForResult(l)
      BY <1>0 DEF Plan, ResolvesForResult
    <2>4. EmitsResult(l)
      BY <1>0 DEF Plan, At, TurnsTypeOK, EmitsResult
    <2>5. QED
      BY <1>m, <2>1, <2>2, <2>3, <2>4, ResultsOfMoved DEF Plan
  <1>10. OpeningHeard'
    <2>1. HearsOpening(l)
      BY <1>0 DEF Plan, At, TurnsTypeOK, HearsOpening
    <2>2. task[l].at = "broadcast" => task'[l].at = "broadcast" \/ open' \subseteq heard'
      BY <1>0 DEF Plan, At, TurnsTypeOK
    <2>3. QED
      BY <1>m, <2>1, <2>2, OpeningOfMoved DEF TurnsTypeOK, Plan
  <1>11. OnePusher' /\ ToldOnce'
    <2>1. task[l].at # "push" /\ task'[l].at \notin {"push", "persist"}
      BY <1>0 DEF Plan, Finishes, GoesOn, Tells, Resting, At
    <2>2. SettledStays
      BY <1>0 DEF Plan, At, SettledStays, TurnsTypeOK
    <2>3. QED
      BY <1>m, <2>1, <2>2, ToldOfMoved DEF Plan
  <1> QED
    BY <1>1, <1>2, <1>3, <1>4, <1>5, <1>6, <1>7, <1>8, <1>9, <1>10, <1>11

\* The engine takes the intent: consent, a check, an outcome, or a refusal.
LEMMA SubmitToEngineKeeps ==
  ASSUME TurnInv, NEW l \in Loops, SubmitToEngine(l)
  PROVE  TurnInv'
  <1> USE NoneAssumption, TurnsAssumption DEF TurnInv, vars
  <1>0. LET a == task[l].action
        IN  \/ engine[a].status # "none" /\ Takes(l, engine[a].status)
               /\ UNCHANGED <<engine, revision>>
            \/ /\ engine[a].status = "none"
               /\ \/ \E status \in {"resolved", "skill"} : Commits(a, status) /\ Takes(l, status)
                  \/ BecomesStatus(a, "consent", "consent") /\ Takes(l, "consent")
                     /\ UNCHANGED revision
                  \/ GoesOn(l, "narrate") /\ UNCHANGED <<engine, revision>>
    <2> DEFINE a == task[l].action
    <2>1. a \in Actions /\ engine[a].status \in Statuses
      BY DEF SubmitToEngine, At, Fits, HandlerFits, TurnsTypeOK, Execution
    <2>2. ASSUME engine' = [engine EXCEPT ![a].status = "consent", ![a].wait = "consent"]
          PROVE  BecomesStatus(a, "consent", "consent")
      BY <2>1, <2>2 DEF BecomesStatus, OnlyEngine, TurnsTypeOK, Execution, Statuses
    <2>3. CASE engine[a].status # "none"
      BY <2>1, <2>3, TookMoves DEF SubmitToEngine
    <2>4. CASE engine[a].status = "none"
      <3>1. ASSUME NEW status \in {"resolved", "skill"}, Commit(a, status), Took(l, status)
            PROVE  Commits(a, status) /\ Takes(l, status)
        BY <2>1, <3>1, TookMoves, CommitMoves DEF Statuses, Settled, Waiting
      <3>2. Took(l, "consent") => Takes(l, "consent")
        BY TookMoves DEF Statuses
      <3>3. task' = [task EXCEPT ![l] = [task[l] EXCEPT !.at = "narrate"]] => GoesOn(l, "narrate")
        BY GoMoves DEF Go, Steps, TurnsTypeOK
      <3>4. QED
        BY <2>2, <2>4, <3>1, <3>2, <3>3, GoMoves DEF SubmitToEngine
    <2>5. QED
      BY <2>3, <2>4
  <1>m. OnlyMoves(l)
    BY <1>0 DEF GoesOn, Takes, Finishes
  <1>a. LET a == task[l].action
        IN  \/ UNCHANGED engine
            \/ /\ a \in Actions /\ engine[a].status = "none" /\ OnlyEngine(a)
               /\ \/ engine'[a].status = "resolved" /\ engine'[a].wait = "none"
                  \/ engine'[a].status = "skill" /\ engine'[a].wait = "check"
                  \/ engine'[a].status = "consent" /\ engine'[a].wait = "consent"
    BY <1>0
    DEF SubmitToEngine, At, Fits, HandlerFits, WaitFits, Commits, BecomesStatus, OnlyEngine
  <1>1. TurnsTypeOK'
    BY <1>0
    DEF SubmitToEngine, At, OnlyMoves, GoesOn, Finishes, Takes, OnlyEngine, Commits,
        BecomesStatus, Waiting, Settled, TurnsTypeOK, Fits, HandlerFits
  <1>2. Fits'
    <2>1. task[l].via = "submit" /\ task[l].action \in Actions
          /\ Owner[task[l].action] = PlayerOf[l]
      BY DEF SubmitToEngine, At, Fits, HandlerFits
    <2>2. \/ task'[l] = Resting /\ ~Running(l)
          \/ /\ task'[l].via = "submit" /\ task'[l].action = task[l].action
             /\ task'[l].at \in {"narrate", "finally"}
                \/ (task'[l].at = "dialog" /\ task'[l].saw \in Waiting)
      BY <1>0, <2>1 DEF Takes, Finishes, GoesOn, Waiting
    <2>3. HandlerFits(l)'
      BY <2>1, <2>2 DEF SubmitToEngine, HandlerFits, Resting, Running
    <2>4. QED
      BY <1>m, <2>3, FitsOfMoved DEF SubmitToEngine, Running
  <1>3. SawIsTrue'
    <2>1. SawTrue(l)'
      <3> DEFINE a == task[l].action
      <3>1. a \in Actions /\ a # None /\ task[l].via = "submit" /\ SawTrue(l)
        BY DEF SubmitToEngine, At, Fits, HandlerFits, SawIsTrue
      <3>2. /\ \/ GoesOn(l, "narrate") /\ UNCHANGED engine
               \/ Takes(l, engine'[a].status)
            /\ engine[a].status # "none" => UNCHANGED engine
        BY <1>0 DEF Commits, BecomesStatus
      <3>3. ASSUME task'[l].via = "submit", task'[l].action = a, task'[l].kind = task[l].kind,
                   task'[l].saw = task[l].saw
            PROVE  SawTrue(l)'
        BY <3>1, <3>2, <3>3 DEF SawTrue, Settled
      <3>4. CASE GoesOn(l, "narrate") /\ UNCHANGED engine
        BY <3>1, <3>3, <3>4 DEF GoesOn
      <3>5. CASE Takes(l, engine'[a].status)
        <4>1. CASE engine'[a].status \in Waiting \cup Settled
          BY <3>1, <3>2, <3>5, <4>1 DEF Takes, SawTrue, Settled, Waiting
        <4>2. CASE Finishes(l)
          BY <3>1, <3>3, <4>2 DEF Finishes, GoesOn, Resting, SawTrue, Settled
        <4>3. QED
          BY <3>5, <4>1, <4>2 DEF Takes
      <3>6. QED
        BY <3>2, <3>4, <3>5
    <2>2. SettledStays
      BY <1>0, <1>a
      DEF Takes, Finishes, OnlyEngine, Resting, Settled, SubmitToEngine, At, SettledStays,
          TurnsTypeOK
    <2>3. QED
      BY <1>m, <2>1, <2>2, SawOfMoved DEF SubmitToEngine
  <1>4. DialogsAreOwn'
    BY <1>0 DEF SubmitToEngine, DialogsAreOwn
  <1>5. UtteredFirst'
    <2>1. task[l].action \in uttered
      BY DEF SubmitToEngine, At, UtteredFirst
    <2>2. SubmitsUttered
      BY <1>a, <2>1 DEF SubmitToEngine, OnlyEngine, SubmitsUttered
    <2>3. task'[l].at \in {"submit", "narrate", "tell", "record"} => task'[l].action \in uttered'
      BY <1>0, <2>1 DEF SubmitToEngine, At, GoesOn, Takes, Finishes, Resting
    <2>4. QED
      BY <1>0, <2>2, <2>3, UtteredOfMoved DEF SubmitToEngine, GoesOn, Takes, Finishes
  <1>6. WaitFits'
    BY <1>a DEF WaitFits, OnlyEngine, Settled
  <1>7. HasTeller'
    <2>1. ToldStays
      BY <1>0, <1>a DEF SubmitToEngine, ToldStays
    <2>2. SettlesAsTeller(l)
      BY <1>0, <1>a
      DEF GoesOn, Takes, Commits, BecomesStatus, Finishes, OnlyEngine, Resting, Waiting, Settled,
          SubmitToEngine, At, Teller, TurnsTypeOK, Fits, HandlerFits, SettlesAsTeller
    <2>3. StaysTeller(l)
      BY <1>0, <1>a DEF SubmitToEngine, At, Teller, TurnsTypeOK, Fits, HandlerFits, StaysTeller
    <2>4. QED
      BY <1>m, <2>1, <2>2, <2>3, TellerOfMoved DEF SubmitToEngine
  <1>8. VotedHasTeller'
    <2>1. SettlesByVote(l)
      BY <1>0, <1>a
      DEF GoesOn, Takes, Commits, BecomesStatus, Finishes, OnlyEngine, Resting, Waiting, Settled,
          SubmitToEngine, At, Teller, TurnsTypeOK, WaitFits, SettlesByVote
    <2>2. StaysVoter(l)
      BY <1>0, <1>a DEF SubmitToEngine, At, Teller, TurnsTypeOK, StaysVoter
    <2>3. QED
      BY <1>m, <2>1, <2>2, VotedOfMoved DEF SubmitToEngine
  <1>9. ResultsStand'
    <2>1. \A b \in results' : b \in results \/ engine'[b].status = "resolved"
      BY <1>0, <1>a DEF SubmitToEngine
    <2>2. SettledStays
      BY <1>0, <1>a
      DEF GoesOn, Takes, Commits, BecomesStatus, Finishes, OnlyEngine, Resting, Waiting, Settled,
          SubmitToEngine, At, SettledStays, TurnsTypeOK
    <2>3. ResolvesForResult(l)
      BY <1>0, <1>a
      DEF GoesOn, Commits, BecomesStatus, OnlyEngine, Waiting, Settled, SubmitToEngine, At,
          ResolvesForResult
    <2>4. EmitsResult(l)
      BY <1>0, <1>a DEF SubmitToEngine, At, TurnsTypeOK, EmitsResult
    <2>5. QED
      BY <1>m, <2>1, <2>2, <2>3, <2>4, ResultsOfMoved DEF SubmitToEngine
  <1>10. OpeningHeard'
    <2>1. HearsOpening(l)
      BY <1>0, <1>a DEF SubmitToEngine, At, TurnsTypeOK, HearsOpening
    <2>2. task[l].at = "broadcast" => task'[l].at = "broadcast" \/ open' \subseteq heard'
      BY <1>0, <1>a DEF SubmitToEngine, At, TurnsTypeOK
    <2>3. QED
      BY <1>m, <2>1, <2>2, OpeningOfMoved DEF TurnsTypeOK, SubmitToEngine
  <1>11. OnePusher' /\ ToldOnce'
    <2>1. task[l].at # "push" /\ task'[l].at \notin {"push", "persist"}
      BY <1>0, <1>a DEF SubmitToEngine, Takes, Finishes, GoesOn, Resting, At
    <2>2. SettledStays
      BY <1>0, <1>a
      DEF GoesOn, Takes, Commits, BecomesStatus, Finishes, OnlyEngine, Resting, Waiting, Settled,
          SubmitToEngine, At, SettledStays, TurnsTypeOK
    <2>3. QED
      BY <1>m, <2>1, <2>2, ToldOfMoved DEF SubmitToEngine
  <1> QED
    BY <1>1, <1>2, <1>3, <1>4, <1>5, <1>6, <1>7, <1>8, <1>9, <1>10, <1>11

\* The lock is given back, whatever became of the turn.
LEMMA FinallyKeeps ==
  ASSUME TurnInv, NEW l \in Loops, TypeOK, Finally(l)
  PROVE  TurnInv'
  <1> USE NoneAssumption, TurnsAssumption DEF TurnInv, vars
  <1>0. OnlyMoves(l) /\ task'[l] = Resting /\ loop' = [loop EXCEPT ![l] = Idle]
    BY DEF Finally, Release, OnlyMoves, TurnsTypeOK, Handler, Resting, Vias, Statuses
  <1>m. OnlyMoves(l)
    BY <1>0
  <1>1. TurnsTypeOK'
    BY <1>0 DEF Finally, Idle, OnlyMoves, Resting, TurnsTypeOK
  <1>2. Fits'
    <2>1. HandlerFits(l)'
      BY <1>0 DEF Resting, Idle, HandlerFits, Fits, Running, SawTrue, Waiting, TypeOK
    <2>2. \A k \in Loops \ {l} : Running(k)' => Running(k)
      BY <1>0 DEF Finally, At, Idle, Running
    <2>3. QED
      BY <1>m, <2>1, <2>2, FitsOfMoved DEF Finally
  <1>3. SawIsTrue'
    <2>1. SawTrue(l)'
      BY <1>0
      DEF Resting, Finally, At, Idle, SawTrue, SawIsTrue, Fits, HandlerFits, TurnsTypeOK, Settled,
          Waiting
    <2>2. SettledStays
      BY <1>0 DEF Finally, At, SettledStays, TurnsTypeOK
    <2>3. QED
      BY <1>m, <2>1, <2>2, SawOfMoved DEF Finally
  <1>4. DialogsAreOwn'
    BY <1>0 DEF Finally, DialogsAreOwn
  <1>5. UtteredFirst'
    <2>1. SubmitsUttered
      BY <1>0 DEF Finally, SubmitsUttered
    <2>2. task'[l].at \in {"submit", "narrate", "tell", "record"} => task'[l].action \in uttered'
      BY <1>0 DEF Resting, Finally, At, Fits, HandlerFits, TurnsTypeOK
    <2>3. QED
      BY <1>m, <2>1, <2>2, UtteredOfMoved DEF Finally
  <1>6. WaitFits'
    BY <1>0 DEF Finally, WaitFits, Fits
  <1>7. HasTeller'
    <2>1. ToldStays
      BY <1>0 DEF Finally, ToldStays
    <2>2. SettlesAsTeller(l)
      BY <1>0 DEF Finally, SettlesAsTeller
    <2>3. StaysTeller(l)
      BY <1>0 DEF Finally, At, Teller, TurnsTypeOK, Fits, HandlerFits, StaysTeller
    <2>4. QED
      BY <1>m, <2>1, <2>2, <2>3, TellerOfMoved DEF Finally
  <1>8. VotedHasTeller'
    <2>1. SettlesByVote(l)
      BY <1>0 DEF Finally, SettlesByVote
    <2>2. StaysVoter(l)
      BY <1>0 DEF Finally, At, Teller, HandlerFits, StaysVoter
    <2>3. QED
      BY <1>m, <2>1, <2>2, VotedOfMoved DEF Finally
  <1>9. ResultsStand'
    <2>1. \A b \in results' : b \in results \/ engine'[b].status = "resolved"
      BY <1>0 DEF Finally
    <2>2. SettledStays
      BY <1>0 DEF Finally, At, SettledStays, TurnsTypeOK
    <2>3. ResolvesForResult(l)
      BY <1>0 DEF Finally, ResolvesForResult
    <2>4. EmitsResult(l)
      BY <1>0 DEF Finally, At, TurnsTypeOK, EmitsResult
    <2>5. QED
      BY <1>m, <2>1, <2>2, <2>3, <2>4, ResultsOfMoved DEF Finally
  <1>10. OpeningHeard'
    <2>1. HearsOpening(l)
      BY <1>0 DEF Finally, At, TurnsTypeOK, HearsOpening
    <2>2. task[l].at = "broadcast" => task'[l].at = "broadcast" \/ open' \subseteq heard'
      BY <1>0 DEF Finally, At, TurnsTypeOK
    <2>3. QED
      BY <1>m, <2>1, <2>2, OpeningOfMoved DEF TurnsTypeOK, Finally
  <1>11. OnePusher' /\ ToldOnce'
    <2>1. task[l].at # "push" /\ task'[l].at \notin {"push", "persist"}
      BY <1>0 DEF Finally, Resting, At
    <2>2. SettledStays
      BY <1>0 DEF Finally, At, SettledStays, TurnsTypeOK
    <2>3. QED
      BY <1>m, <2>1, <2>2, ToldOfMoved DEF Finally
  <1> QED
    BY <1>1, <1>2, <1>3, <1>4, <1>5, <1>6, <1>7, <1>8, <1>9, <1>10, <1>11

\* A dialog is sent to the player whose choice it is.
LEMMA SendDialogKeeps ==
  ASSUME TurnInv, NEW l \in Loops, SendDialog(l)
  PROVE  TurnInv'
  <1> USE NoneAssumption, TurnsAssumption DEF TurnInv, vars
  <1>0. Finishes(l)
    BY FinishMoves DEF SendDialog
  <1>m. OnlyMoves(l)
    BY <1>0 DEF Finishes, GoesOn
  <1>1. TurnsTypeOK'
    BY <1>0
    DEF SendDialog, At, OnlyMoves, GoesOn, Finishes, Waiting, Settled, Statuses, Vias, Handler,
        Execution, Dialog, TurnsTypeOK, Fits, HandlerFits
  <1>2. Fits'
    <2>1. HandlerFits(l)'
      BY <1>0
      DEF Finishes, GoesOn, Resting, SendDialog, At, HandlerFits, Fits, Running, SawIsTrue,
          SawTrue, Settled, Waiting
    <2>2. \A k \in Loops \ {l} : Running(k)' => Running(k)
      BY <1>0 DEF SendDialog, Running, Idle, TypeOK
    <2>3. QED
      BY <1>m, <2>1, <2>2, FitsOfMoved DEF SendDialog
  <1>3. SawIsTrue'
    <2>1. SawTrue(l)'
      BY <1>0
      DEF Finishes, GoesOn, Resting, SendDialog, At, SawTrue, SawIsTrue, Fits, HandlerFits,
          TurnsTypeOK, Settled, Waiting
    <2>2. SettledStays
      BY <1>0 DEF SendDialog, At, SettledStays, TurnsTypeOK
    <2>3. QED
      BY <1>m, <2>1, <2>2, SawOfMoved DEF SendDialog
  <1>4. DialogsAreOwn'
    <2> SUFFICES ASSUME NEW p \in Players, dialog'[p] # None PROVE Owner[dialog'[p].action] = p
      BY DEF DialogsAreOwn
    <2>1. CASE dialog'[p] = dialog[p]
      BY <2>1 DEF DialogsAreOwn
    <2>2. CASE dialog'[p] # dialog[p]
      <3>1. p = PlayerOf[l] /\ dialog'[p].action = task[l].action
        BY <2>2 DEF SendDialog
      <3>2. QED
        BY <3>1 DEF SendDialog, At, Fits, HandlerFits
    <2>3. QED
      BY <2>1, <2>2
  <1>5. UtteredFirst'
    <2>1. SubmitsUttered
      BY <1>0 DEF SendDialog, SubmitsUttered
    <2>2. task'[l].at \in {"submit", "narrate", "tell", "record"} => task'[l].action \in uttered'
      BY <1>0
      DEF Finishes, GoesOn, Resting, SendDialog, At, UtteredFirst, Fits, HandlerFits, TurnsTypeOK
    <2>3. QED
      BY <1>m, <2>1, <2>2, UtteredOfMoved DEF SendDialog
  <1>6. WaitFits'
    BY <1>0 DEF SendDialog, WaitFits, Fits
  <1>7. HasTeller'
    <2>1. ToldStays
      BY <1>0 DEF SendDialog, ToldStays
    <2>2. SettlesAsTeller(l)
      BY <1>0 DEF SendDialog, SettlesAsTeller
    <2>3. StaysTeller(l)
      BY <1>0 DEF SendDialog, At, Teller, TurnsTypeOK, Fits, HandlerFits, StaysTeller
    <2>4. QED
      BY <1>m, <2>1, <2>2, <2>3, TellerOfMoved DEF SendDialog
  <1>8. VotedHasTeller'
    <2>1. SettlesByVote(l)
      BY <1>0 DEF SendDialog, SettlesByVote
    <2>2. StaysVoter(l)
      BY <1>0 DEF SendDialog, At, Teller, TurnsTypeOK, Fits, HandlerFits, StaysVoter
    <2>3. QED
      BY <1>m, <2>1, <2>2, VotedOfMoved DEF SendDialog
  <1>9. ResultsStand'
    <2>1. \A b \in results' : b \in results \/ engine'[b].status = "resolved"
      BY <1>0 DEF SendDialog
    <2>2. SettledStays
      BY <1>0 DEF SendDialog, At, SettledStays, TurnsTypeOK
    <2>3. ResolvesForResult(l)
      BY <1>0 DEF SendDialog, ResolvesForResult
    <2>4. EmitsResult(l)
      BY <1>0 DEF SendDialog, At, TurnsTypeOK, EmitsResult
    <2>5. QED
      BY <1>m, <2>1, <2>2, <2>3, <2>4, ResultsOfMoved DEF SendDialog
  <1>10. OpeningHeard'
    <2>1. HearsOpening(l)
      BY <1>0 DEF SendDialog, At, TurnsTypeOK, HearsOpening
    <2>2. task[l].at = "broadcast" => task'[l].at = "broadcast" \/ open' \subseteq heard'
      BY <1>0 DEF SendDialog, At, TurnsTypeOK
    <2>3. QED
      BY <1>m, <2>1, <2>2, OpeningOfMoved DEF TurnsTypeOK, SendDialog
  <1>11. OnePusher' /\ ToldOnce'
    <2>1. task[l].at # "push" /\ task'[l].at \notin {"push", "persist"}
      BY <1>0 DEF SendDialog, Finishes, GoesOn, Resting, At
    <2>2. SettledStays
      BY <1>0 DEF SendDialog, At, SettledStays, TurnsTypeOK
    <2>3. QED
      BY <1>m, <2>1, <2>2, ToldOfMoved DEF SendDialog
  <1> QED
    BY <1>1, <1>2, <1>3, <1>4, <1>5, <1>6, <1>7, <1>8, <1>9, <1>10, <1>11

\* A choice is taken by the engine.
LEMMA ChosenKeeps ==
  ASSUME TurnInv, NEW l \in Loops, dialog[PlayerOf[l]] # None,
         NEW statuses \in SUBSET (Settled \cup {"post_roll"}), Chosen(l, statuses)
  PROVE  TurnInv'
  <1> USE NoneAssumption, TurnsAssumption DEF TurnInv, vars
  <1>0. LET d == dialog[PlayerOf[l]]
        IN  /\ Begins(l, "choice", d.action, "result")
            /\ \E status \in Settled \cup {"post_roll"} : Commits(d.action, status)
    <2> DEFINE d == dialog[PlayerOf[l]]
    <2>1. d \in Dialog
      BY DEF TurnsTypeOK
    <2>2. d.action \in Actions
      BY <2>1 DEF Dialog
    <2>3. Begins(l, "choice", d.action, "result")
      BY <2>2, BeginMoves DEF Chosen, Steps, Vias
    <2>4. \E status \in Settled \cup {"post_roll"} : Commits(d.action, status)
      <3>1. PICK status \in statuses : Commit(d.action, status)
        BY DEF Chosen
      <3>2. status \in Statuses
        BY DEF Statuses, Settled, Waiting
      <3>3. QED
        BY <2>2, <3>1, <3>2, CommitMoves
    <2>5. QED
      BY <2>3, <2>4
  <1>m. OnlyMoves(l)
    BY <1>0 DEF Begins
  <1>a. LET a == dialog[PlayerOf[l]].action
        IN  a \in Actions /\ engine[a].status \in Waiting /\ Owner[a] = PlayerOf[l]
    BY DEF Chosen, TurnsTypeOK, Dialog, DialogsAreOwn
  <1>b. LET a == dialog[PlayerOf[l]].action
        IN  OnlyEngine(a) /\ engine'[a].status \in Settled \cup {"post_roll"}
            /\ engine'[a].wait = engine[a].wait
    BY <1>0 DEF Commits, Settled
  <1>1. TurnsTypeOK'
    BY <1>0
    DEF Chosen, OnlyMoves, Begins, OnlyEngine, Commits, BecomesStatus, Settled,
        TurnsTypeOK
  <1>2. Fits'
    <2>1. HandlerFits(l)'
      BY <1>0, <1>a, <1>b
      DEF Begins, Commits, OnlyEngine, Waiting, Chosen, At, HandlerFits, Fits, Running, SawIsTrue,
          SawTrue, Settled
    <2>2. \A k \in Loops \ {l} : Running(k)' => Running(k)
      BY <1>0, <1>a, <1>b DEF Chosen, At, Running, TypeOK
    <2>3. QED
      BY <1>m, <2>1, <2>2, FitsOfMoved DEF Chosen
  <1>3. SawIsTrue'
    <2>1. SawTrue(l)'
      BY <1>0, <1>a, <1>b
      DEF Begins, Commits, OnlyEngine, Waiting, Chosen, At, SawTrue, SawIsTrue, Fits, HandlerFits,
          TurnsTypeOK, Settled
    <2>2. SettledStays
      BY <1>0, <1>a, <1>b
      DEF Begins, Commits, OnlyEngine, Waiting, Chosen, At, SettledStays, TurnsTypeOK, Settled
    <2>3. QED
      BY <1>m, <2>1, <2>2, SawOfMoved DEF Chosen
  <1>4. DialogsAreOwn'
    BY <1>0 DEF Chosen, DialogsAreOwn
  <1>5. UtteredFirst'
    <2>1. SubmitsUttered
      BY <1>0, <1>a, <1>b
      DEF Begins, Commits, OnlyEngine, Waiting, Chosen, At, TurnsTypeOK, SubmitsUttered
    <2>2. task'[l].at \in {"submit", "narrate", "tell", "record"} => task'[l].action \in uttered'
      BY <1>0, <1>a, <1>b
      DEF Begins, Commits, OnlyEngine, Waiting, Chosen, At, UtteredFirst, Fits, HandlerFits,
          TurnsTypeOK
    <2>3. QED
      BY <1>m, <2>1, <2>2, UtteredOfMoved DEF Chosen
  <1>6. WaitFits'
    BY <1>0, <1>a DEF WaitFits, Commits, OnlyEngine, Settled, Waiting
  <1>7. HasTeller'
    <2>1. ToldStays
      BY <1>0, <1>a, <1>b DEF Chosen, ToldStays
    <2>2. SettlesAsTeller(l)
      BY <1>0, <1>a, <1>b
      DEF Begins, Commits, OnlyEngine, Waiting, Chosen, At, Teller, HandlerFits, SettlesAsTeller
    <2>3. StaysTeller(l)
      BY <1>0, <1>a, <1>b
      DEF Begins, Commits, OnlyEngine, Waiting, Chosen, At, Teller, TurnsTypeOK, Fits,
          HandlerFits, Settled, StaysTeller
    <2>4. QED
      BY <1>m, <2>1, <2>2, <2>3, TellerOfMoved DEF Chosen
  <1>8. VotedHasTeller'
    <2>1. SettlesByVote(l)
      BY <1>0, <1>a, <1>b
      DEF OnlyEngine, Waiting, At, Teller, TurnsTypeOK, WaitFits, Settled, SettlesByVote
    <2>2. StaysVoter(l)
      BY <1>0, <1>a, <1>b DEF Begins, Waiting, Chosen, At, Teller, Fits, HandlerFits, StaysVoter
    <2>3. QED
      BY <1>m, <2>1, <2>2, VotedOfMoved DEF Chosen
  <1>9. ResultsStand'
    <2>1. \A b \in results' : b \in results \/ engine'[b].status = "resolved"
      BY <1>0, <1>a, <1>b DEF Chosen
    <2>2. SettledStays
      BY <1>0, <1>a, <1>b
      DEF Begins, Commits, OnlyEngine, Waiting, Chosen, At, SettledStays, TurnsTypeOK, Settled
    <2>3. ResolvesForResult(l)
      BY <1>0, <1>a, <1>b DEF Begins, Commits, OnlyEngine, Waiting, TurnsTypeOK, ResolvesForResult
    <2>4. EmitsResult(l)
      BY <1>0, <1>a, <1>b DEF Begins, Commits, Waiting, Chosen, At, EmitsResult
    <2>5. QED
      BY <1>m, <2>1, <2>2, <2>3, <2>4, ResultsOfMoved DEF Chosen
  <1>10. OpeningHeard'
    <2>1. HearsOpening(l)
      BY <1>0, <1>a, <1>b
      DEF Begins, Commits, OnlyEngine, Waiting, Chosen, At, TurnsTypeOK, HearsOpening
    <2>2. task[l].at = "broadcast" => task'[l].at = "broadcast" \/ open' \subseteq heard'
      BY <1>0, <1>a, <1>b DEF Begins, Commits, OnlyEngine, Waiting, TurnsTypeOK
    <2>3. QED
      BY <1>m, <2>1, <2>2, OpeningOfMoved DEF TurnsTypeOK, Chosen
  <1>11. OnePusher' /\ ToldOnce'
    <2>1. task[l].at # "push" /\ task'[l].at \notin {"push", "persist"}
      BY <1>0 DEF Chosen, Begins, At
    <2>2. SettledStays
      BY <1>0, <1>a, <1>b
      DEF Begins, Commits, OnlyEngine, Waiting, Chosen, At, SettledStays, TurnsTypeOK, Settled
    <2>3. QED
      BY <1>m, <2>1, <2>2, ToldOfMoved DEF Chosen
  <1> QED
    BY <1>1, <1>2, <1>3, <1>4, <1>5, <1>6, <1>7, <1>8, <1>9, <1>10, <1>11

\* A choice that the engine refuses changes nothing in it.
LEMMA ChooseInVainKeeps ==
  ASSUME TurnInv, NEW l \in Loops, ChooseInVain(l)
  PROVE  TurnInv'
  <1> USE NoneAssumption, TurnsAssumption DEF TurnInv, vars
  <1>0. UNCHANGED task
    BY DEF ChooseInVain
  <1>1. TurnsTypeOK'
    BY <1>0 DEF ChooseInVain, TurnsTypeOK
  <1>2. Fits'
    BY <1>0
    DEF ChooseInVain, At, Resting, Waiting, Settled, TurnsTypeOK, Fits, HandlerFits,
        DialogsAreOwn, Running, SawIsTrue, SawTrue
  <1>3. SawIsTrue'
    BY <1>0
    DEF ChooseInVain, At, Resting, Waiting, Settled, TurnsTypeOK, SawIsTrue, SawTrue, Fits,
        HandlerFits
  <1>4. DialogsAreOwn'
    BY <1>0 DEF ChooseInVain, DialogsAreOwn
  <1>5. UtteredFirst'
    BY <1>0 DEF ChooseInVain, UtteredFirst
  <1>6. WaitFits'
    BY <1>0 DEF ChooseInVain, WaitFits, Fits
  <1>7. HasTeller'
    BY <1>0 DEF ChooseInVain, HasTeller, Teller
  <1>8. VotedHasTeller'
    BY <1>0 DEF ChooseInVain, VotedHasTeller, Teller
  <1>9. ResultsStand'
    BY <1>0 DEF ChooseInVain, At, Resting, TurnsTypeOK, ResultsStand, WaitFits, SawIsTrue, SawTrue
  <1>10. OpeningHeard'
    BY <1>0
    DEF ChooseInVain, At, Resting, Waiting, Settled, TurnsTypeOK, OpeningHeard, Fits, HandlerFits
  <1>11. OnePusher' /\ ToldOnce'
    BY <1>0 DEF ChooseInVain, OnePusher, Pusher, ToldOnce, At
  <1> QED
    BY <1>1, <1>2, <1>3, <1>4, <1>5, <1>6, <1>7, <1>8, <1>9, <1>10, <1>11

\* The result of a check is stored and sent.
LEMMA EmitCheckResultKeeps ==
  ASSUME TurnInv, NEW l \in Loops, EmitCheckResult(l)
  PROVE  TurnInv'
  <1> USE NoneAssumption, TurnsAssumption DEF TurnInv, vars
  <1>0. \/ GoesOn(l, "recover") /\ UNCHANGED missed
        \/ Finishes(l) /\ missed' = missed \cup {task[l].action}
    BY GoMoves, FinishMoves DEF EmitCheckResult, Steps
  <1>m. OnlyMoves(l)
    BY <1>0 DEF Finishes, GoesOn
  <1>1. TurnsTypeOK'
    BY <1>0
    DEF EmitCheckResult, ResultIsFinal, OnlyMoves, Finishes, GoesOn, At, Fits, HandlerFits, TurnsTypeOK
  <1>2. Fits'
    <2>1. HandlerFits(l)'
      BY <1>0
      DEF Finishes, GoesOn, Resting, EmitCheckResult, At, ResultIsFinal, HandlerFits, Fits, Running, SawIsTrue,
          SawTrue, Settled, Waiting
    <2>2. \A k \in Loops \ {l} : Running(k)' => Running(k)
      BY <1>0 DEF EmitCheckResult, At, Running, Idle
    <2>3. QED
      BY <1>m, <2>1, <2>2, FitsOfMoved DEF EmitCheckResult
  <1>3. SawIsTrue'
    <2>1. SawTrue(l)'
      BY <1>0 DEF Finishes, GoesOn, Resting, EmitCheckResult, At, SawTrue, SawIsTrue, Fits, Settled, Waiting
    <2>2. SettledStays
      BY <1>0 DEF EmitCheckResult, At, SettledStays, TurnsTypeOK
    <2>3. QED
      BY <1>m, <2>1, <2>2, SawOfMoved DEF EmitCheckResult
  <1>4. DialogsAreOwn'
    BY <1>0 DEF EmitCheckResult, DialogsAreOwn
  <1>5. UtteredFirst'
    <2>1. SubmitsUttered
      BY <1>0 DEF EmitCheckResult, SubmitsUttered
    <2>2. task'[l].at \in {"submit", "narrate", "tell", "record"} => task'[l].action \in uttered'
      BY <1>0
      DEF Finishes, GoesOn, Resting, EmitCheckResult, At, ResultIsFinal, UtteredFirst, Fits, HandlerFits, TurnsTypeOK
    <2>3. QED
      BY <1>m, <2>1, <2>2, UtteredOfMoved DEF EmitCheckResult
  <1>6. WaitFits'
    BY <1>0 DEF EmitCheckResult, WaitFits, Fits
  <1>7. HasTeller'
    <2>1. ToldStays
      BY <1>0 DEF EmitCheckResult, ToldStays
    <2>2. SettlesAsTeller(l)
      BY <1>0 DEF EmitCheckResult, SettlesAsTeller
    <2>3. StaysTeller(l)
      BY <1>0 DEF Finishes, GoesOn, Resting, EmitCheckResult, At, Teller, TurnsTypeOK, Fits, StaysTeller
    <2>4. QED
      BY <1>m, <2>1, <2>2, <2>3, TellerOfMoved DEF EmitCheckResult
  <1>8. VotedHasTeller'
    <2>1. SettlesByVote(l)
      BY <1>0 DEF EmitCheckResult, SettlesByVote
    <2>2. StaysVoter(l)
      BY <1>0 DEF EmitCheckResult, At, Teller, TurnsTypeOK, Fits, HandlerFits, StaysVoter
    <2>3. QED
      BY <1>m, <2>1, <2>2, VotedOfMoved DEF EmitCheckResult
  <1>9. ResultsStand'
    <2>1. \A b \in results' : b \in results \/ engine'[b].status = "resolved"
      BY <1>0 DEF EmitCheckResult, At, ResultIsFinal, TurnsTypeOK
    <2>2. SettledStays
      BY <1>0 DEF EmitCheckResult, At, SettledStays, TurnsTypeOK
    <2>3. ResolvesForResult(l)
      BY <1>0 DEF EmitCheckResult, ResolvesForResult
    <2>4. EmitsResult(l)
      BY <1>0 DEF EmitCheckResult, At, ResultIsFinal, TurnsTypeOK, EmitsResult
    <2>5. QED
      BY <1>m, <2>1, <2>2, <2>3, <2>4, ResultsOfMoved DEF EmitCheckResult
  <1>10. OpeningHeard'
    <2>1. HearsOpening(l)
      BY <1>0 DEF EmitCheckResult, At, TurnsTypeOK, HearsOpening
    <2>2. task[l].at = "broadcast" => task'[l].at = "broadcast" \/ open' \subseteq heard'
      BY <1>0 DEF EmitCheckResult, At, TurnsTypeOK
    <2>3. QED
      BY <1>m, <2>1, <2>2, OpeningOfMoved DEF TurnsTypeOK, EmitCheckResult
  <1>11. OnePusher' /\ ToldOnce'
    <2>1. task[l].at # "push" /\ task'[l].at \notin {"push", "persist"}
      BY <1>0 DEF EmitCheckResult, Finishes, GoesOn, Resting, At
    <2>2. SettledStays
      BY <1>0 DEF EmitCheckResult, At, SettledStays, TurnsTypeOK
    <2>3. QED
      BY <1>m, <2>1, <2>2, ToldOfMoved DEF EmitCheckResult
  <1> QED
    BY <1>1, <1>2, <1>3, <1>4, <1>5, <1>6, <1>7, <1>8, <1>9, <1>10, <1>11

\* The host narrates the outcome.
LEMMA NarrateKeeps ==
  ASSUME TurnInv, NEW l \in Loops, Narrate(l)
  PROVE  TurnInv'
  <1> USE NoneAssumption, TurnsAssumption DEF TurnInv, vars
  <1>0. \/ /\ Tells(l, IF task[l].saw \in Settled THEN "narration" ELSE "clarification")
           /\ UNCHANGED missed
        \/ Finishes(l) /\ missed' = missed \cup {task[l].action}
    BY FinishMoves DEF Narrate, Tells, OnlyMoves, TurnsTypeOK, Handler
  <1>m. OnlyMoves(l)
    BY <1>0 DEF Finishes, Tells, GoesOn
  <1>1. TurnsTypeOK'
    BY <1>0 DEF Narrate, At, OnlyMoves, GoesOn, Finishes, Tells, TurnsTypeOK, Fits, HandlerFits
  <1>2. Fits'
    <2>1. HandlerFits(l)'
      BY <1>0
      DEF Finishes, Tells, GoesOn, Resting, Narrate, At, HandlerFits, Fits, Running, SawIsTrue,
          SawTrue, Settled, Waiting
    <2>2. \A k \in Loops \ {l} : Running(k)' => Running(k)
      BY <1>0 DEF Narrate, At, Running, TypeOK
    <2>3. QED
      BY <1>m, <2>1, <2>2, FitsOfMoved DEF Narrate
  <1>3. SawIsTrue'
    <2>1. SawTrue(l)'
      BY <1>0
      DEF Finishes, Tells, GoesOn, Resting, Narrate, At, SawTrue, SawIsTrue, Fits, HandlerFits,
          TurnsTypeOK, Settled, Waiting
    <2>2. SettledStays
      BY <1>0 DEF Narrate, At, SettledStays, TurnsTypeOK
    <2>3. QED
      BY <1>m, <2>1, <2>2, SawOfMoved DEF Narrate
  <1>4. DialogsAreOwn'
    BY <1>0 DEF Narrate, DialogsAreOwn
  <1>5. UtteredFirst'
    <2>1. SubmitsUttered
      BY <1>0 DEF Narrate, SubmitsUttered
    <2>2. task'[l].at \in {"submit", "narrate", "tell", "record"} => task'[l].action \in uttered'
      BY <1>0
      DEF Finishes, Tells, GoesOn, Resting, Narrate, At, UtteredFirst, Fits, HandlerFits,
          TurnsTypeOK
    <2>3. QED
      BY <1>m, <2>1, <2>2, UtteredOfMoved DEF Narrate
  <1>6. WaitFits'
    BY <1>0 DEF Narrate, WaitFits, Fits
  <1>7. HasTeller'
    <2>1. ToldStays
      BY <1>0 DEF Narrate, ToldStays
    <2>2. SettlesAsTeller(l)
      BY <1>0 DEF Narrate, SettlesAsTeller
    <2>3. StaysTeller(l)
      BY <1>0
      DEF Finishes, Tells, GoesOn, Resting, Narrate, At, Teller, TurnsTypeOK, Fits, HandlerFits,
          Settled, StaysTeller
    <2>4. QED
      BY <1>m, <2>1, <2>2, <2>3, TellerOfMoved DEF Narrate
  <1>8. VotedHasTeller'
    <2>1. SettlesByVote(l)
      BY <1>0 DEF Narrate, SettlesByVote
    <2>2. StaysVoter(l)
      BY <1>0
      DEF Finishes, Tells, GoesOn, Resting, Narrate, At, Teller, TurnsTypeOK, Fits, HandlerFits,
          StaysVoter
    <2>3. QED
      BY <1>m, <2>1, <2>2, VotedOfMoved DEF Narrate
  <1>9. ResultsStand'
    <2>1. \A b \in results' : b \in results \/ engine'[b].status = "resolved"
      BY <1>0 DEF Narrate
    <2>2. SettledStays
      BY <1>0 DEF Narrate, At, SettledStays, TurnsTypeOK
    <2>3. ResolvesForResult(l)
      BY <1>0 DEF Narrate, ResolvesForResult
    <2>4. EmitsResult(l)
      BY <1>0 DEF Narrate, At, TurnsTypeOK, EmitsResult
    <2>5. QED
      BY <1>m, <2>1, <2>2, <2>3, <2>4, ResultsOfMoved DEF Narrate
  <1>10. OpeningHeard'
    <2>1. HearsOpening(l)
      BY <1>0 DEF Narrate, At, TurnsTypeOK, HearsOpening
    <2>2. task[l].at = "broadcast" => task'[l].at = "broadcast" \/ open' \subseteq heard'
      BY <1>0 DEF Narrate, At, TurnsTypeOK
    <2>3. QED
      BY <1>m, <2>1, <2>2, OpeningOfMoved DEF TurnsTypeOK, Narrate
  <1>11. OnePusher' /\ ToldOnce'
    <2>1. task[l].at # "push" /\ task'[l].at \notin {"push", "persist"}
      BY <1>0 DEF Narrate, Finishes, GoesOn, Tells, Resting, At
    <2>2. SettledStays
      BY <1>0 DEF Narrate, At, SettledStays, TurnsTypeOK
    <2>3. QED
      BY <1>m, <2>1, <2>2, ToldOfMoved DEF Narrate
  <1> QED
    BY <1>1, <1>2, <1>3, <1>4, <1>5, <1>6, <1>7, <1>8, <1>9, <1>10, <1>11

\* turn.completed is sent: the story is stored next, or there was nobody to send it to.
LEMMA SendCompletedKeeps ==
  ASSUME TurnInv, NEW l \in Loops, SendCompleted(l)
  PROVE  TurnInv'
  <1> USE NoneAssumption, TurnsAssumption DEF TurnInv, vars
  <1>a. task[l].action \in Actions
    BY DEF SendCompleted, At, Fits, HandlerFits
  <1>0. \/ GoesOn(l, "record") /\ UNCHANGED missed
        \/ Finishes(l) /\ missed' = missed \cup {task[l].action}
    BY GoMoves, FinishMoves DEF SendCompleted, Steps
  <1>m. OnlyMoves(l)
    BY <1>0 DEF Finishes, GoesOn
  <1>1. TurnsTypeOK'
    BY <1>0, <1>a DEF SendCompleted, Answered, OnlyMoves, Finishes, GoesOn, TurnsTypeOK
  <1>2. Fits'
    <2>1. HandlerFits(l)'
      BY <1>0, <1>a
      DEF Finishes, GoesOn, Resting, SendCompleted, At, HandlerFits, Fits, Running, SawIsTrue, SawTrue, Settled, Waiting
    <2>2. \A k \in Loops \ {l} : Running(k)' => Running(k)
      BY DEF SendCompleted, Running
    <2>3. QED
      BY <1>m, <2>1, <2>2, FitsOfMoved DEF SendCompleted
  <1>s. SettledStays
    BY <1>0, <1>a DEF SendCompleted, SettledStays, OnlyEngine
  <1>3. SawIsTrue'
    <2>1. SawTrue(l)'
      BY <1>0, <1>a, <1>s
      DEF Finishes, GoesOn, Resting, SendCompleted, At, SawTrue, SawIsTrue, SettledStays, Fits, HandlerFits, TurnsTypeOK,
          Settled, Waiting
    <2>2. QED
      BY <1>m, <1>s, <2>1, SawOfMoved DEF SendCompleted
  <1>4. DialogsAreOwn'
    BY DEF SendCompleted, DialogsAreOwn
  <1>5. UtteredFirst'
    <2>1. SubmitsUttered
      BY <1>0, <1>a DEF SendCompleted, OnlyEngine, SubmitsUttered
    <2>2. task'[l].at \in {"submit", "narrate", "tell", "record"} => task'[l].action \in uttered'
      BY <1>0, <1>a DEF Finishes, GoesOn, Resting, SendCompleted, At, UtteredFirst
    <2>3. QED
      BY <1>m, <2>1, <2>2, UtteredOfMoved DEF SendCompleted
  <1>6. WaitFits'
    BY <1>0, <1>a DEF SendCompleted, WaitFits, OnlyEngine
  <1>7. HasTeller'
    <2>1. ToldStays
      BY <1>0, <1>a DEF SendCompleted, ToldStays
    <2>2. SettlesAsTeller(l)
      BY <1>0, <1>a DEF SendCompleted, OnlyEngine, SettlesAsTeller
    <2>3. StaysTeller(l)
      BY <1>0, <1>a DEF Finishes, GoesOn, Resting, SendCompleted, At, Teller, OnePusher, Pusher, StaysTeller
    <2>4. QED
      BY <1>m, <2>1, <2>2, <2>3, TellerOfMoved DEF SendCompleted
  <1>8. VotedHasTeller'
    <2>1. SettlesByVote(l)
      BY <1>0, <1>a DEF SendCompleted, OnlyEngine, SettlesByVote
    <2>2. StaysVoter(l)
      BY <1>0, <1>a DEF Finishes, GoesOn, Resting, SendCompleted, At, Teller, StaysVoter
    <2>3. QED
      BY <1>m, <2>1, <2>2, VotedOfMoved DEF SendCompleted
  <1>9. ResultsStand'
    <2>1. \A b \in results' : b \in results \/ engine'[b].status = "resolved"
      BY DEF SendCompleted
    <2>2. ResolvesForResult(l)
      BY <1>0, <1>a DEF SendCompleted, OnlyEngine, ResolvesForResult
    <2>3. EmitsResult(l)
      BY DEF SendCompleted, At, EmitsResult
    <2>4. QED
      BY <1>m, <1>s, <2>1, <2>2, <2>3, ResultsOfMoved DEF SendCompleted
  <1>10. OpeningHeard'
    <2>1. HearsOpening(l)
      BY DEF SendCompleted, At, HearsOpening
    <2>2. task[l].at # "broadcast"
      BY DEF SendCompleted, At
    <2>3. QED
      BY <1>m, <2>1, <2>2, OpeningOfMoved DEF TurnsTypeOK, SendCompleted
  <1>11. OnePusher' /\ ToldOnce'
    <2>1. task[l].at # "push" /\ task'[l].at \notin {"push", "persist"}
      BY <1>0 DEF SendCompleted, Finishes, GoesOn, Resting, At
    <2>2. QED
      BY <1>m, <1>s, <2>1, ToldOfMoved DEF SendCompleted
  <1> QED
    BY <1>1, <1>2, <1>3, <1>4, <1>5, <1>6, <1>7, <1>8, <1>9, <1>10, <1>11

\* The story is stored, or another one was: only who stores it comes to push it.
LEMMA RecordNarrationKeeps ==
  ASSUME TurnInv, NEW l \in Loops, RecordNarration(l)
  PROVE  TurnInv'
  <1> USE NoneAssumption, TurnsAssumption DEF TurnInv, vars
  <1> DEFINE a == task[l].action
             story == [kind |-> task[l].kind, of |-> task[l].saw]
  <1>a. a \in Actions /\ story \in Story
    BY DEF RecordNarration, At, Fits, HandlerFits, TurnsTypeOK, Handler, Story
  <1>0. \/ GoesOn(l, "push") /\ told[a] = None /\ told' = [told EXCEPT ![a] = story]
        \/ GoesOn(l, "persist") /\ told[a] # None /\ UNCHANGED told
    BY GoMoves DEF RecordNarration, Recorded, Steps
  <1>t. told'[a] # None /\ \A b \in Actions : told[b] # None => told'[b] = told[b]
    BY <1>0, <1>a DEF TurnsTypeOK
  <1> HIDE DEF a, story
  <1>m. OnlyMoves(l)
    BY <1>0 DEF GoesOn
  <1>1. TurnsTypeOK'
    <2>1. told' \in [Actions -> Story \cup {None}]
      BY <1>0, <1>a DEF TurnsTypeOK
    <2>2. QED
      BY <1>m, <2>1 DEF RecordNarration, OnlyMoves, TurnsTypeOK
  <1>2. Fits'
    <2>1. HandlerFits(l)'
      BY <1>0, <1>a
      DEF GoesOn, Resting, RecordNarration, At, HandlerFits, Fits, Running, SawIsTrue, SawTrue, Settled, Waiting
    <2>2. \A k \in Loops \ {l} : Running(k)' => Running(k)
      BY DEF RecordNarration, Running
    <2>3. QED
      BY <1>m, <2>1, <2>2, FitsOfMoved DEF RecordNarration
  <1>s. SettledStays
    BY <1>0, <1>a DEF RecordNarration, SettledStays, OnlyEngine
  <1>3. SawIsTrue'
    <2>1. SawTrue(l)'
      BY <1>0, <1>a, <1>s
      DEF GoesOn, Resting, RecordNarration, At, SawTrue, SawIsTrue, SettledStays, Fits, HandlerFits, TurnsTypeOK,
          Settled, Waiting
    <2>2. QED
      BY <1>m, <1>s, <2>1, SawOfMoved DEF RecordNarration
  <1>4. DialogsAreOwn'
    BY DEF RecordNarration, DialogsAreOwn
  <1>5. UtteredFirst'
    <2>1. SubmitsUttered
      BY <1>0, <1>a DEF RecordNarration, OnlyEngine, SubmitsUttered
    <2>2. task'[l].at \in {"submit", "narrate", "tell", "record"} => task'[l].action \in uttered'
      BY <1>0, <1>a DEF GoesOn, Resting, RecordNarration, At, UtteredFirst
    <2>3. QED
      BY <1>m, <2>1, <2>2, UtteredOfMoved DEF RecordNarration
  <1>6. WaitFits'
    BY <1>0, <1>a DEF RecordNarration, WaitFits, OnlyEngine
  <1>7. HasTeller'
    <2>1. ToldStays
      BY <1>t DEF RecordNarration, ToldStays
    <2>2. SettlesAsTeller(l)
      BY <1>0, <1>a DEF RecordNarration, OnlyEngine, SettlesAsTeller
    <2>3. StaysTeller(l)
      BY <1>0, <1>a DEF GoesOn, Resting, RecordNarration, At, Teller, OnePusher, Pusher, StaysTeller
    <2>4. QED
      BY <1>m, <2>1, <2>2, <2>3, TellerOfMoved DEF RecordNarration
  <1>8. VotedHasTeller'
    <2>1. SettlesByVote(l)
      BY <1>0, <1>a DEF RecordNarration, OnlyEngine, SettlesByVote
    <2>2. StaysVoter(l)
      BY <1>0, <1>a DEF GoesOn, Resting, RecordNarration, At, Teller, StaysVoter
    <2>3. QED
      BY <1>m, <2>1, <2>2, VotedOfMoved DEF RecordNarration
  <1>9. ResultsStand'
    <2>1. \A b \in results' : b \in results \/ engine'[b].status = "resolved"
      BY DEF RecordNarration
    <2>2. ResolvesForResult(l)
      BY <1>0, <1>a DEF RecordNarration, OnlyEngine, ResolvesForResult
    <2>3. EmitsResult(l)
      BY DEF RecordNarration, At, EmitsResult
    <2>4. QED
      BY <1>m, <1>s, <2>1, <2>2, <2>3, ResultsOfMoved DEF RecordNarration
  <1>10. OpeningHeard'
    <2>1. HearsOpening(l)
      BY DEF RecordNarration, At, HearsOpening
    <2>2. task[l].at # "broadcast"
      BY DEF RecordNarration, At
    <2>3. QED
      BY <1>m, <2>1, <2>2, OpeningOfMoved DEF TurnsTypeOK, RecordNarration
  <1>11. OnePusher' /\ ToldOnce'
    <2>1. OnePusher'
      <3> SUFFICES ASSUME NEW k \in Loops PROVE Pusher(k)'
        BY DEF OnePusher
      <3>1. CASE k = l
        <4>1. task'[l].action = a /\ pushes' = pushes
          BY <1>0 DEF GoesOn, RecordNarration, a
        <4>2. told[a] = None => pushes[a] = 0 /\ \A j \in Loops : ~(At(j, "push") /\ task[j].action = a)
          <5>1. pushes[a] \in Nat /\ pushes[a] <= 1 /\ (pushes[a] = 1 => told[a] # None)
            BY <1>a DEF ToldOnce, TurnsTypeOK
          <5>2. \A j \in Loops : At(j, "push") => told[task[j].action] # None
            BY DEF OnePusher, Pusher
          <5>3. QED
            BY <5>1, <5>2
        <4>3. \A j \in Loops \ {l} : task'[j] = task[j]
          BY <1>m DEF OnlyMoves
        <4>4. CASE GoesOn(l, "push") /\ told[a] = None
          BY <1>t, <3>1, <4>1, <4>2, <4>3, <4>4 DEF Pusher, At
        <4>5. CASE GoesOn(l, "persist")
          BY <1>t, <3>1, <4>1, <4>5 DEF Pusher, At, GoesOn
        <4>6. QED
          BY <1>0, <4>4, <4>5
      <3>2. CASE k # l
        <4>1. task'[k] = task[k] /\ pushes' = pushes /\ Pusher(k)
          BY <1>m, <3>2 DEF OnlyMoves, RecordNarration, OnePusher
        <4>2. CASE At(k, "push") \/ At(k, "persist")
          <5>1. task[k].action \in Actions /\ told[task[k].action] # None
            BY <4>1, <4>2 DEF Pusher, At, Fits, HandlerFits
          <5>2. told'[task[k].action] # None
            BY <1>t, <5>1
          <5>3. At(l, "push")' => task'[l].action = a /\ task[k].action # a
            BY <1>0, <5>1 DEF GoesOn, At, a
          <5>4. \A j \in Loops \ {l} : task'[j] = task[j]
            BY <1>m DEF OnlyMoves
          <5>5. QED
            BY <3>2, <4>1, <4>2, <5>2, <5>3, <5>4 DEF Pusher, At
        <4>3. CASE ~(At(k, "push") \/ At(k, "persist"))
          BY <4>1, <4>3 DEF Pusher, At
        <4>4. QED
          BY <4>2, <4>3
      <3>3. QED
        BY <3>1, <3>2
    <2>2. ToldOnce'
      <3> SUFFICES ASSUME NEW b \in Actions
                   PROVE  /\ pushes[b] <= 1
                          /\ (pushes[b] = 1 => told'[b] # None)
                          /\ told'[b] # None =>
                               /\ b \in uttered
                               /\ \/ pushes[b] = 1 \/ b \in severed
                                  \/ \E k \in Loops : At(k, "push")' /\ task'[k].action = b
                               /\ told'[b].kind = "narration"
                                  => told'[b].of = engine[b].status /\ told'[b].of \in Settled
        BY DEF ToldOnce, RecordNarration
      <3>1. CASE GoesOn(l, "push") /\ b = a /\ told' = [told EXCEPT ![a] = story]
        <4>1. b \in uttered /\ task'[l].at = "push" /\ task'[l].action = b
          BY <3>1 DEF UtteredFirst, RecordNarration, At, GoesOn, a
        <4>2. told'[b] = story
          BY <1>a, <3>1 DEF TurnsTypeOK
        <4>3. story.kind = "narration" => story.of = engine[b].status /\ story.of \in Settled
          BY <3>1 DEF SawIsTrue, SawTrue, a, story
        <4>4. QED
          BY <1>t, <3>1, <4>1, <4>2, <4>3 DEF ToldOnce, At
      <3>2. CASE ~(GoesOn(l, "push") /\ b = a /\ told' = [told EXCEPT ![a] = story])
        <4>1. told'[b] = told[b]
          BY <1>0, <1>a, <3>2 DEF TurnsTypeOK
        <4>2. \A k \in Loops : At(k, "push") => At(k, "push")' /\ task'[k].action = task[k].action
          BY <1>m DEF OnlyMoves, RecordNarration, At
        <4>3. QED
          BY <4>1, <4>2 DEF ToldOnce
      <3>3. QED
        BY <3>1, <3>2
    <2>3. QED
      BY <2>1, <2>2
  <1> QED
    BY <1>1, <1>2, <1>3, <1>4, <1>5, <1>6, <1>7, <1>8, <1>9, <1>10, <1>11

\* The stored story is pushed, by the one handler that stored it.
LEMMA PushNarrationKeeps ==
  ASSUME TurnInv, NEW l \in Loops, PushNarration(l)
  PROVE  TurnInv'
  <1> USE NoneAssumption, TurnsAssumption DEF TurnInv, vars
  <1>a. task[l].action \in Actions /\ told[task[l].action] # None
    BY DEF PushNarration, At, Fits, HandlerFits, OnePusher, Pusher
  <1>0. GoesOn(l, "persist")
    BY GoMoves DEF PushNarration, Steps
  <1>m. OnlyMoves(l)
    BY <1>0 DEF GoesOn
  <1>1. TurnsTypeOK'
    <2>1. pushes' \in [Actions -> Nat]
      BY <1>a DEF PushNarration, TurnsTypeOK
    <2>2. QED
      BY <1>m, <2>1 DEF PushNarration, OnlyMoves, TurnsTypeOK
  <1>2. Fits'
    <2>1. HandlerFits(l)'
      BY <1>0, <1>a
      DEF GoesOn, Resting, PushNarration, At, HandlerFits, Fits, Running, SawIsTrue, SawTrue, Settled, Waiting
    <2>2. \A k \in Loops \ {l} : Running(k)' => Running(k)
      BY DEF PushNarration, Running
    <2>3. QED
      BY <1>m, <2>1, <2>2, FitsOfMoved DEF PushNarration
  <1>s. SettledStays
    BY <1>0, <1>a DEF PushNarration, SettledStays, OnlyEngine
  <1>3. SawIsTrue'
    <2>1. SawTrue(l)'
      BY <1>0, <1>a, <1>s
      DEF GoesOn, Resting, PushNarration, At, SawTrue, SawIsTrue, SettledStays, Fits, HandlerFits, TurnsTypeOK,
          Settled, Waiting
    <2>2. QED
      BY <1>m, <1>s, <2>1, SawOfMoved DEF PushNarration
  <1>4. DialogsAreOwn'
    BY DEF PushNarration, DialogsAreOwn
  <1>5. UtteredFirst'
    <2>1. SubmitsUttered
      BY <1>0, <1>a DEF PushNarration, OnlyEngine, SubmitsUttered
    <2>2. task'[l].at \in {"submit", "narrate", "tell", "record"} => task'[l].action \in uttered'
      BY <1>0, <1>a DEF GoesOn, Resting, PushNarration, At, UtteredFirst
    <2>3. QED
      BY <1>m, <2>1, <2>2, UtteredOfMoved DEF PushNarration
  <1>6. WaitFits'
    BY <1>0, <1>a DEF PushNarration, WaitFits, OnlyEngine
  <1>7. HasTeller'
    <2>1. ToldStays
      BY <1>0, <1>a DEF PushNarration, ToldStays
    <2>2. SettlesAsTeller(l)
      BY <1>0, <1>a DEF PushNarration, OnlyEngine, SettlesAsTeller
    <2>3. StaysTeller(l)
      BY <1>0, <1>a DEF GoesOn, Resting, PushNarration, At, Teller, OnePusher, Pusher, StaysTeller
    <2>4. QED
      BY <1>m, <2>1, <2>2, <2>3, TellerOfMoved DEF PushNarration
  <1>8. VotedHasTeller'
    <2>1. SettlesByVote(l)
      BY <1>0, <1>a DEF PushNarration, OnlyEngine, SettlesByVote
    <2>2. StaysVoter(l)
      BY <1>0, <1>a DEF GoesOn, Resting, PushNarration, At, Teller, StaysVoter
    <2>3. QED
      BY <1>m, <2>1, <2>2, VotedOfMoved DEF PushNarration
  <1>9. ResultsStand'
    <2>1. \A b \in results' : b \in results \/ engine'[b].status = "resolved"
      BY DEF PushNarration
    <2>2. ResolvesForResult(l)
      BY <1>0, <1>a DEF PushNarration, OnlyEngine, ResolvesForResult
    <2>3. EmitsResult(l)
      BY DEF PushNarration, At, EmitsResult
    <2>4. QED
      BY <1>m, <1>s, <2>1, <2>2, <2>3, ResultsOfMoved DEF PushNarration
  <1>10. OpeningHeard'
    <2>1. HearsOpening(l)
      BY DEF PushNarration, At, HearsOpening
    <2>2. task[l].at # "broadcast"
      BY DEF PushNarration, At
    <2>3. QED
      BY <1>m, <2>1, <2>2, OpeningOfMoved DEF TurnsTypeOK, PushNarration
  <1>11. OnePusher' /\ ToldOnce'
    <2> DEFINE a == task[l].action
    <2>1. /\ pushes[a] = 0 /\ pushes'[a] = 1 /\ \A b \in Actions \ {a} : pushes'[b] = pushes[b]
          /\ \A k \in Loops \ {l} : ~(At(k, "push") /\ task[k].action = a)
      BY <1>a DEF PushNarration, OnePusher, Pusher, TurnsTypeOK
    <2>2. \A k \in Loops \ {l} : task'[k] = task[k]
      BY <1>m DEF OnlyMoves
    <2>3. task'[l].at = "persist" /\ task'[l].action = a
      BY <1>0 DEF GoesOn
    <2>4. OnePusher'
      <3> SUFFICES ASSUME NEW k \in Loops PROVE Pusher(k)'
        BY DEF OnePusher
      <3>1. CASE k = l
        BY <1>a, <2>3, <3>1 DEF Pusher, At, PushNarration
      <3>2. CASE k # l
        <4>1. task'[k] = task[k] /\ Pusher(k) /\ told' = told
          BY <2>2, <3>2 DEF OnePusher, PushNarration
        <4>2. At(k, "push") => task[k].action # a /\ task[k].action \in Actions
          BY <2>1, <3>2 DEF At, Fits, HandlerFits
        <4>3. QED
          BY <2>1, <2>2, <2>3, <3>2, <4>1, <4>2 DEF Pusher, At
      <3>3. QED
        BY <3>1, <3>2
    <2>5. ToldOnce'
      <3> SUFFICES ASSUME NEW b \in Actions
                   PROVE  /\ pushes'[b] <= 1
                          /\ (pushes'[b] = 1 => told[b] # None)
                          /\ told[b] # None =>
                               /\ b \in uttered
                               /\ \/ pushes'[b] = 1 \/ b \in severed
                                  \/ \E k \in Loops : At(k, "push")' /\ task'[k].action = b
                               /\ told[b].kind = "narration"
                                  => told[b].of = engine[b].status /\ told[b].of \in Settled
        BY DEF ToldOnce, PushNarration
      <3>1. CASE b = a
        BY <1>a, <2>1, <3>1 DEF ToldOnce
      <3>2. CASE b # a
        <4>1. \A k \in Loops : At(k, "push") /\ task[k].action = b
                 => At(k, "push")' /\ task'[k].action = b
          BY <2>2, <3>2 DEF At
        <4>2. QED
          BY <2>1, <3>2, <4>1 DEF ToldOnce
      <3>3. QED
        BY <3>1, <3>2
    <2>6. QED
      BY <2>4, <2>5
  <1> QED
    BY <1>1, <1>2, <1>3, <1>4, <1>5, <1>6, <1>7, <1>8, <1>9, <1>10, <1>11

\* The turn is over: the proposal it came from lets go of the room.
LEMMA MarkNarrationPersistedKeeps ==
  ASSUME TurnInv, NEW l \in Loops, MarkNarrationPersisted(l)
  PROVE  TurnInv'
  <1> USE NoneAssumption, TurnsAssumption DEF TurnInv, vars
  <1>0. /\ Finishes(l) /\ OnlyEngine(task[l].action) /\ task[l].action \in Actions
        /\ engine'[task[l].action].status = engine[task[l].action].status
        /\ engine'[task[l].action].wait # "consent"
        /\ \/ engine'[task[l].action].wait = engine[task[l].action].wait
           \/ engine[task[l].action].wait = "consent" /\ engine'[task[l].action].wait = "told"
    <2>1. task[l].action \in Actions
      BY DEF MarkNarrationPersisted, At, Fits, HandlerFits
    <2>2. engine[task[l].action] \in Execution /\ engine \in [Actions -> Execution]
      BY <2>1 DEF TurnsTypeOK
    <2>3. QED
      BY <2>1, <2>2, FinishMoves DEF MarkNarrationPersisted, OnlyEngine, Execution
  <1>m. OnlyMoves(l)
    BY <1>0 DEF Finishes, GoesOn
  <1>1. TurnsTypeOK'
    BY <1>0, <1>m DEF MarkNarrationPersisted, OnlyMoves, OnlyEngine, TurnsTypeOK
  <1>2. Fits'
    <2>1. HandlerFits(l)'
      BY <1>0
      DEF Finishes, GoesOn, Resting, MarkNarrationPersisted, At, HandlerFits, Fits, Running, SawIsTrue, SawTrue, Settled, Waiting
    <2>2. \A k \in Loops \ {l} : Running(k)' => Running(k)
      BY DEF MarkNarrationPersisted, Running
    <2>3. QED
      BY <1>m, <2>1, <2>2, FitsOfMoved DEF MarkNarrationPersisted
  <1>s. SettledStays
    BY <1>0 DEF MarkNarrationPersisted, SettledStays, OnlyEngine
  <1>3. SawIsTrue'
    <2>1. SawTrue(l)'
      BY <1>0, <1>s
      DEF Finishes, GoesOn, Resting, MarkNarrationPersisted, At, SawTrue, SawIsTrue, SettledStays, Fits, HandlerFits, TurnsTypeOK,
          Settled, Waiting
    <2>2. QED
      BY <1>m, <1>s, <2>1, SawOfMoved DEF MarkNarrationPersisted
  <1>4. DialogsAreOwn'
    BY DEF MarkNarrationPersisted, DialogsAreOwn
  <1>5. UtteredFirst'
    <2>1. SubmitsUttered
      BY <1>0 DEF MarkNarrationPersisted, OnlyEngine, SubmitsUttered
    <2>2. task'[l].at \in {"submit", "narrate", "tell", "record"} => task'[l].action \in uttered'
      BY <1>0 DEF Finishes, GoesOn, Resting, MarkNarrationPersisted, At, UtteredFirst
    <2>3. QED
      BY <1>m, <2>1, <2>2, UtteredOfMoved DEF MarkNarrationPersisted
  <1>6. WaitFits'
    BY <1>0 DEF MarkNarrationPersisted, WaitFits, OnlyEngine
  <1>7. HasTeller'
    <2>1. ToldStays
      BY <1>0 DEF MarkNarrationPersisted, ToldStays
    <2>2. SettlesAsTeller(l)
      BY <1>0 DEF MarkNarrationPersisted, OnlyEngine, SettlesAsTeller
    <2>3. StaysTeller(l)
      BY <1>0 DEF Finishes, GoesOn, Resting, MarkNarrationPersisted, At, Teller, OnePusher, Pusher, StaysTeller
    <2>4. QED
      BY <1>m, <2>1, <2>2, <2>3, TellerOfMoved DEF MarkNarrationPersisted
  <1>8. VotedHasTeller'
    <2>1. SettlesByVote(l)
      BY <1>0 DEF MarkNarrationPersisted, OnlyEngine, SettlesByVote
    <2>2. StaysVoter(l)
      BY <1>0 DEF Finishes, GoesOn, Resting, MarkNarrationPersisted, At, Teller, StaysVoter
    <2>3. QED
      BY <1>m, <2>1, <2>2, VotedOfMoved DEF MarkNarrationPersisted
  <1>9. ResultsStand'
    <2>1. \A b \in results' : b \in results \/ engine'[b].status = "resolved"
      BY DEF MarkNarrationPersisted
    <2>2. ResolvesForResult(l)
      BY <1>0 DEF MarkNarrationPersisted, OnlyEngine, ResolvesForResult
    <2>3. EmitsResult(l)
      BY DEF MarkNarrationPersisted, At, EmitsResult
    <2>4. QED
      BY <1>m, <1>s, <2>1, <2>2, <2>3, ResultsOfMoved DEF MarkNarrationPersisted
  <1>10. OpeningHeard'
    <2>1. HearsOpening(l)
      BY DEF MarkNarrationPersisted, At, HearsOpening
    <2>2. task[l].at # "broadcast"
      BY DEF MarkNarrationPersisted, At
    <2>3. QED
      BY <1>m, <2>1, <2>2, OpeningOfMoved DEF TurnsTypeOK, MarkNarrationPersisted
  <1>11. OnePusher' /\ ToldOnce'
    <2>1. task[l].at # "push" /\ task'[l].at \notin {"push", "persist"}
      BY <1>0 DEF MarkNarrationPersisted, Finishes, GoesOn, Resting, At
    <2>2. QED
      BY <1>m, <1>s, <2>1, ToldOfMoved DEF MarkNarrationPersisted
  <1> QED
    BY <1>1, <1>2, <1>3, <1>4, <1>5, <1>6, <1>7, <1>8, <1>9, <1>10, <1>11

\* A socket closes; its handler runs on.
LEMMA DisconnectKeeps ==
  ASSUME TurnInv, NEW l \in Loops, Disconnect(l)
  PROVE  TurnInv'
  <1> USE NoneAssumption, TurnsAssumption DEF TurnInv, vars
  <1>0. UNCHANGED task
    BY DEF Disconnect
  <1>1. TurnsTypeOK'
    BY <1>0 DEF Disconnect, TurnsTypeOK
  <1>2. Fits'
    BY <1>0
    DEF Disconnect, At, Resting, Waiting, Settled, TurnsTypeOK, Fits, HandlerFits, DialogsAreOwn,
        Running, SawIsTrue, SawTrue
  <1>3. SawIsTrue'
    BY <1>0
    DEF Disconnect, At, Resting, Waiting, Settled, TurnsTypeOK, SawIsTrue, SawTrue, Fits,
        HandlerFits
  <1>4. DialogsAreOwn'
    BY <1>0 DEF Disconnect, DialogsAreOwn
  <1>5. UtteredFirst'
    BY <1>0 DEF Disconnect, UtteredFirst
  <1>6. WaitFits'
    BY <1>0 DEF Disconnect, WaitFits, Fits
  <1>7. HasTeller'
    BY <1>0 DEF Disconnect, HasTeller, Teller
  <1>8. VotedHasTeller'
    BY <1>0 DEF Disconnect, VotedHasTeller, Teller
  <1>9. ResultsStand'
    BY <1>0 DEF Disconnect, At, TurnsTypeOK, ResultsStand, Fits, HandlerFits, SawIsTrue, SawTrue
  <1>10. OpeningHeard'
    BY <1>0 DEF Disconnect, At, Resting, Settled, OpeningHeard, HandlerFits
  <1>11. OnePusher' /\ ToldOnce'
    BY <1>0 DEF Disconnect, OnePusher, Pusher, ToldOnce, At
  <1> QED
    BY <1>1, <1>2, <1>3, <1>4, <1>5, <1>6, <1>7, <1>8, <1>9, <1>10, <1>11

\* A client submits an action, a new one or the same once more.
LEMMA SubmitKeeps ==
  ASSUME TurnInv, NEW l \in Loops, NEW a \in Actions, Submit(l, a)
  PROVE  TurnInv'
  <1> USE NoneAssumption, TurnsAssumption DEF TurnInv, vars
  <1>0. Begins(l, "submit", a, "recover")
    BY BeginMoves DEF Submit, Steps, Vias
  <1>m. OnlyMoves(l)
    BY <1>0 DEF Begins
  <1>1. TurnsTypeOK'
    BY <1>0 DEF Submit, OnlyMoves, Begins, TurnsTypeOK
  <1>2. Fits'
    <2>1. HandlerFits(l)'
      BY <1>0
      DEF Begins, Submit, At, HandlerFits, Fits, Running, SawIsTrue, SawTrue, Settled, Waiting
    <2>2. \A k \in Loops \ {l} : Running(k)' => Running(k)
      BY <1>0 DEF Submit, At, Running, Idle, TypeOK
    <2>3. QED
      BY <1>m, <2>1, <2>2, FitsOfMoved DEF Submit
  <1>3. SawIsTrue'
    <2>1. SawTrue(l)'
      BY <1>0
      DEF Begins, Submit, At, SawTrue, SawIsTrue, Fits, HandlerFits, TurnsTypeOK, Settled, Waiting
    <2>2. SettledStays
      BY <1>0 DEF Submit, At, SettledStays, TurnsTypeOK
    <2>3. QED
      BY <1>m, <2>1, <2>2, SawOfMoved DEF Submit
  <1>4. DialogsAreOwn'
    BY <1>0 DEF Submit, DialogsAreOwn
  <1>5. UtteredFirst'
    <2>1. SubmitsUttered
      BY <1>0 DEF Submit, SubmitsUttered
    <2>2. task'[l].at \in {"submit", "narrate", "tell", "record"} => task'[l].action \in uttered'
      BY <1>0 DEF Begins, UtteredFirst, Fits, HandlerFits, TurnsTypeOK
    <2>3. QED
      BY <1>m, <2>1, <2>2, UtteredOfMoved DEF Submit
  <1>6. WaitFits'
    BY <1>0 DEF Submit, WaitFits, Fits
  <1>7. HasTeller'
    <2>1. ToldStays
      BY <1>0 DEF Submit, ToldStays
    <2>2. SettlesAsTeller(l)
      BY <1>0 DEF Submit, SettlesAsTeller
    <2>3. StaysTeller(l)
      BY <1>0 DEF Begins, At, Teller, TurnsTypeOK, Fits, HandlerFits, StaysTeller
    <2>4. QED
      BY <1>m, <2>1, <2>2, <2>3, TellerOfMoved DEF Submit
  <1>8. VotedHasTeller'
    <2>1. SettlesByVote(l)
      BY <1>0 DEF Submit, SettlesByVote
    <2>2. StaysVoter(l)
      BY <1>0 DEF Begins, Submit, At, Teller, TurnsTypeOK, Fits, HandlerFits, StaysVoter
    <2>3. QED
      BY <1>m, <2>1, <2>2, VotedOfMoved DEF Submit
  <1>9. ResultsStand'
    <2>1. \A b \in results' : b \in results \/ engine'[b].status = "resolved"
      BY <1>0 DEF Submit
    <2>2. SettledStays
      BY <1>0 DEF Submit, At, SettledStays, TurnsTypeOK
    <2>3. ResolvesForResult(l)
      BY <1>0 DEF Submit, ResolvesForResult
    <2>4. EmitsResult(l)
      BY <1>0 DEF Begins, Submit, At, TurnsTypeOK, EmitsResult
    <2>5. QED
      BY <1>m, <2>1, <2>2, <2>3, <2>4, ResultsOfMoved DEF Submit
  <1>10. OpeningHeard'
    <2>1. HearsOpening(l)
      BY <1>0 DEF Begins, Submit, At, TurnsTypeOK, HearsOpening
    <2>2. task[l].at = "broadcast" => task'[l].at = "broadcast" \/ open' \subseteq heard'
      BY <1>0 DEF Begins, Submit, At, TurnsTypeOK
    <2>3. QED
      BY <1>m, <2>1, <2>2, OpeningOfMoved DEF TurnsTypeOK, Submit
  <1>11. OnePusher' /\ ToldOnce'
    <2>1. task[l].at # "push" /\ task'[l].at \notin {"push", "persist"}
      BY <1>0 DEF Submit, Begins, At
    <2>2. SettledStays
      BY <1>0 DEF Submit, At, SettledStays, TurnsTypeOK
    <2>3. QED
      BY <1>m, <2>1, <2>2, ToldOfMoved DEF Submit
  <1> QED
    BY <1>1, <1>2, <1>3, <1>4, <1>5, <1>6, <1>7, <1>8, <1>9, <1>10, <1>11

\* The vote of a time proposal that settles it.
LEMMA VoteKeeps ==
  ASSUME TurnInv, NEW l \in Loops, NEW a \in Actions, Vote(l, a)
  PROVE  TurnInv'
  <1> USE NoneAssumption, TurnsAssumption DEF TurnInv, vars
  <1>0. /\ Begins(l, "vote", a, "resume") /\ engine[a].status = "consent"
        /\ \E status \in Settled : BecomesStatus(a, status, engine[a].wait)
        /\ revision' \in Nat
    <2>1. Begins(l, "vote", a, "resume") /\ engine[a].status = "consent"
      BY BeginMoves DEF Vote, Steps, Vias
    <2>2. CASE Commit(a, "resolved")
      BY <2>1, <2>2, CommitMoves DEF Commits, BecomesStatus, Settled, Statuses
    <2>3. CASE engine' = [engine EXCEPT ![a].status = "cancelled"] /\ UNCHANGED revision
      BY <2>1, <2>3 DEF BecomesStatus, OnlyEngine, TurnsTypeOK, Execution, Settled, Statuses
    <2>4. QED
      BY <2>1, <2>2, <2>3 DEF Vote
  <1>m. OnlyMoves(l)
    BY <1>0 DEF Begins
  <1>1. TurnsTypeOK'
    BY <1>0 DEF Vote, OnlyMoves, Begins, OnlyEngine, BecomesStatus, Settled, TurnsTypeOK
  <1>2. Fits'
    <2>1. HandlerFits(l)'
      BY <1>0
      DEF Begins, BecomesStatus, OnlyEngine, Vote, At, HandlerFits, Fits, Running, SawIsTrue,
          SawTrue, Settled, Waiting
    <2>2. \A k \in Loops \ {l} : Running(k)' => Running(k)
      BY <1>0 DEF Vote, At, Running, Idle, TypeOK
    <2>3. QED
      BY <1>m, <2>1, <2>2, FitsOfMoved DEF Vote
  <1>3. SawIsTrue'
    <2>1. SawTrue(l)'
      BY <1>0
      DEF Begins, BecomesStatus, OnlyEngine, Vote, At, SawTrue, SawIsTrue, Fits, HandlerFits,
          TurnsTypeOK, Settled, Waiting
    <2>2. SettledStays
      BY <1>0 DEF Begins, BecomesStatus, OnlyEngine, Vote, At, SettledStays, TurnsTypeOK, Settled
    <2>3. QED
      BY <1>m, <2>1, <2>2, SawOfMoved DEF Vote
  <1>4. DialogsAreOwn'
    BY <1>0 DEF Vote, DialogsAreOwn
  <1>5. UtteredFirst'
    <2>1. SubmitsUttered
      BY <1>0 DEF Begins, BecomesStatus, OnlyEngine, Vote, At, TurnsTypeOK, SubmitsUttered
    <2>2. task'[l].at \in {"submit", "narrate", "tell", "record"} => task'[l].action \in uttered'
      BY <1>0
      DEF Begins, BecomesStatus, OnlyEngine, Vote, At, UtteredFirst, Fits, HandlerFits,
          TurnsTypeOK
    <2>3. QED
      BY <1>m, <2>1, <2>2, UtteredOfMoved DEF Vote
  <1>6. WaitFits'
    BY <1>0 DEF WaitFits, BecomesStatus, OnlyEngine, Settled
  <1>7. HasTeller'
    <2>1. ToldStays
      BY <1>0 DEF Vote, ToldStays
    <2>2. SettlesAsTeller(l)
      BY <1>0
      DEF Begins, BecomesStatus, OnlyEngine, Vote, Teller, HandlerFits, Settled, SettlesAsTeller
    <2>3. StaysTeller(l)
      BY <1>0
      DEF Begins, BecomesStatus, OnlyEngine, Vote, At, Teller, TurnsTypeOK, Fits, HandlerFits,
          Settled, StaysTeller
    <2>4. QED
      BY <1>m, <2>1, <2>2, <2>3, TellerOfMoved DEF Vote
  <1>8. VotedHasTeller'
    <2>1. SettlesByVote(l)
      BY <1>0
      DEF Begins, BecomesStatus, OnlyEngine, Vote, At, Teller, TurnsTypeOK, WaitFits, Settled,
          SettlesByVote
    <2>2. StaysVoter(l)
      BY <1>0 DEF Begins, BecomesStatus, OnlyEngine, Teller, TurnsTypeOK, Fits, StaysVoter
    <2>3. QED
      BY <1>m, <2>1, <2>2, VotedOfMoved DEF Vote
  <1>9. ResultsStand'
    <2>1. \A b \in results' : b \in results \/ engine'[b].status = "resolved"
      BY <1>0 DEF Vote
    <2>2. SettledStays
      BY <1>0 DEF Begins, BecomesStatus, OnlyEngine, Vote, At, SettledStays, TurnsTypeOK, Settled
    <2>3. ResolvesForResult(l)
      BY <1>0 DEF Begins, BecomesStatus, OnlyEngine, Vote, At, WaitFits, ResolvesForResult
    <2>4. EmitsResult(l)
      BY <1>0 DEF Begins, BecomesStatus, OnlyEngine, Vote, At, TurnsTypeOK, EmitsResult
    <2>5. QED
      BY <1>m, <2>1, <2>2, <2>3, <2>4, ResultsOfMoved DEF Vote
  <1>10. OpeningHeard'
    <2>1. HearsOpening(l)
      BY <1>0 DEF Begins, BecomesStatus, Vote, TurnsTypeOK, HearsOpening
    <2>2. task[l].at = "broadcast" => task'[l].at = "broadcast" \/ open' \subseteq heard'
      BY <1>0 DEF Begins, BecomesStatus, OnlyEngine, Vote, At, TurnsTypeOK
    <2>3. QED
      BY <1>m, <2>1, <2>2, OpeningOfMoved DEF TurnsTypeOK, Vote
  <1>11. OnePusher' /\ ToldOnce'
    <2>1. task[l].at # "push" /\ task'[l].at \notin {"push", "persist"}
      BY <1>0 DEF Vote, Begins, At
    <2>2. SettledStays
      BY <1>0 DEF Begins, BecomesStatus, OnlyEngine, Vote, At, SettledStays, TurnsTypeOK, Settled
    <2>3. QED
      BY <1>m, <2>1, <2>2, ToldOfMoved DEF Vote
  <1> QED
    BY <1>1, <1>2, <1>3, <1>4, <1>5, <1>6, <1>7, <1>8, <1>9, <1>10, <1>11

\* The process restarts: every handler and every lock is gone.
LEMMA ProcessRestartKeeps ==
  ASSUME TurnInv, ProcessRestart
  PROVE  TurnInv'
  <1> USE NoneAssumption, TurnsAssumption DEF TurnInv, vars
  <1>0. task' = [l \in Loops |-> Resting] /\ loop' = [l \in Loops |-> Idle]
    BY DEF ProcessRestart, Restart
  <1>1. TurnsTypeOK'
    <2>1. Resting \in Handler
      BY DEF Resting, Statuses, Vias, Handler
    <2>2. task' \in [Loops -> Handler]
      BY <1>0, <2>1
    <2>3. \A l \in Loops : task[l].action \in Actions \cup {None}
      BY DEF TurnsTypeOK, Handler
    <2>4. missed' \subseteq Actions
      BY <2>3 DEF ProcessRestart, Cut, TurnsTypeOK
    <2>5. severed' \subseteq Actions
      BY DEF ProcessRestart, At, TurnsTypeOK, Fits, HandlerFits
    <2>6. faults' \in Nat /\ open' \subseteq Loops
      BY DEF ProcessRestart, TurnsTypeOK
    <2>7. QED
      BY <2>2, <2>4, <2>5, <2>6 DEF ProcessRestart, TurnsTypeOK
  <1>2. Fits'
    BY <1>0
    DEF ProcessRestart, Cut, At, Idle, Resting, Waiting, Settled, TurnsTypeOK, Fits, HandlerFits,
        DialogsAreOwn, Running, SawIsTrue, SawTrue
  <1>3. SawIsTrue'
    BY <1>0
    DEF ProcessRestart, Cut, At, Idle, Resting, Waiting, Settled, TurnsTypeOK, SawIsTrue, SawTrue,
        Fits, HandlerFits
  <1>4. DialogsAreOwn'
    BY <1>0 DEF ProcessRestart, DialogsAreOwn
  <1>5. UtteredFirst'
    BY <1>0
    DEF ProcessRestart, Cut, At, Idle, Resting, Waiting, Settled, TurnsTypeOK, UtteredFirst, Fits,
        HandlerFits
  <1>6. WaitFits'
    BY <1>0 DEF ProcessRestart, WaitFits, Fits
  <1>7. HasTeller'
    BY <1>0
    DEF ProcessRestart, Cut, At, Idle, Resting, Waiting, Settled, TurnsTypeOK, HasTeller, Teller,
        Fits, HandlerFits, SawIsTrue, SawTrue, PlayerAt
  <1>8. VotedHasTeller'
    BY <1>0
    DEF ProcessRestart, Cut, At, Idle, Resting, Waiting, Settled, TurnsTypeOK, VotedHasTeller,
        Teller, Fits, HandlerFits, SawIsTrue, SawTrue, WaitFits, PlayerAt
  <1>9. ResultsStand'
    BY <1>0
    DEF ProcessRestart, Cut, Waiting, Settled, ResultsStand, Fits, HandlerFits, WaitFits,
        SawIsTrue, SawTrue
  <1>10. OpeningHeard'
    BY <1>0 DEF ProcessRestart, OpeningHeard
  <1>11. OnePusher' /\ ToldOnce'
    <2>1. OnePusher' /\ \A l \in Loops : ~At(l, "push")'
      BY <1>0 DEF OnePusher, Pusher, At, Resting
    <2>2. \A a \in Actions : a \in severed' <=>
            a \in severed \/ \E l \in Loops : At(l, "push") /\ task[l].action = a
      BY DEF ProcessRestart
    <2>3. ToldOnce'
      BY <2>2 DEF ProcessRestart, ToldOnce
    <2>4. QED
      BY <2>1, <2>3
  <1> QED
    BY <1>1, <1>2, <1>3, <1>4, <1>5, <1>6, <1>7, <1>8, <1>9, <1>10, <1>11

-----------------------------------------------------------------------------
(* The room lock under the turns.                                          *)

\* What the turns do to the lock is what the lock's own specification allows.
LEMMA TurnIsLockStep == [TurnsNext]_allVars => [Next]_vars
  <1> SUFFICES ASSUME [TurnsNext]_allVars PROVE [Next]_vars
    OBVIOUS
  <1>0. Room \in Rooms
    BY TurnsAssumption
  <1>1. ASSUME NEW l \in Loops, Step(l) PROVE [Next]_vars
    <2>1. CASE Lock(l)
      BY <1>0, <2>1 DEF Lock, Next
    <2>2. CASE Finally(l)
      BY <2>2 DEF Finally, Next
    <2>3. CASE FinishJoin(l) \/ StoreOpening(l) \/ BroadcastOpening(l) \/ ReplayStored(l)
               \/ ResumeSingle(l)
      BY <2>3 DEF FinishJoin, StoreOpening, BroadcastOpening, ReplayStored, ResumeSingle
    <2>4. CASE Plan(l) \/ SubmitToEngine(l) \/ SendDialog(l) \/ EmitCheckResult(l) \/ Narrate(l)
      BY <2>4 DEF Plan, SubmitToEngine, SendDialog, EmitCheckResult, Narrate
    <2>5. CASE \/ SendCompleted(l) \/ RecordNarration(l) \/ PushNarration(l)
               \/ MarkNarrationPersisted(l)
      BY <2>5 DEF SendCompleted, RecordNarration, PushNarration, MarkNarrationPersisted
    <2>6. QED
      BY <1>1, <2>1, <2>2, <2>3, <2>4, <2>5 DEF Step
  <1>2. ASSUME NEW l \in Loops,
               \/ Join(l) \/ StartGame(l) \/ ChooseSkill(l) \/ DecidePostRoll(l)
               \/ ChooseInVain(l) \/ Disconnect(l)
        PROVE  [Next]_vars
    BY <1>2 DEF Join, StartGame, ChooseSkill, DecidePostRoll, Chosen, ChooseInVain, Disconnect
  <1>3. ASSUME NEW l \in Loops, NEW a \in Actions, Submit(l, a) \/ Vote(l, a)
        PROVE  [Next]_vars
    BY <1>3 DEF Submit, Vote
  <1>4. CASE ProcessRestart
    BY <1>4 DEF ProcessRestart, Next
  <1>5. CASE LockExpires
    BY <1>0, <1>5 DEF LockExpires, Next
  <1>6. CASE UNCHANGED allVars
    BY <1>6 DEF allVars
  <1>7. QED
    BY <1>1, <1>2, <1>3, <1>4, <1>5, <1>6 DEF TurnsNext

\* The turns of a room implement the specification of its lock.
THEOREM TurnsImplementTheLock == TurnsSpec => Spec
  <1>1. TurnsInit => Init
    BY DEF TurnsInit
  <1>2. QED
    BY <1>1, TurnIsLockStep, PTL DEF TurnsSpec, Spec

\* Every step of the lock keeps its entry owned by a handler.
LEMMA EntryKeepsOwner == LockInv /\ EntryHasOwner /\ [Next]_vars => EntryHasOwner'
  <1> SUFFICES ASSUME LockInv, EntryHasOwner, [Next]_vars, locks'[Room].token # 0
               PROVE  \E k \in Loops : loop'[k].token = locks'[Room].token
    BY DEF EntryHasOwner
  <1> USE TurnsAssumption DEF LockInv, TypeOK
  <1>1. ASSUME NEW l \in Loops, NEW r \in Rooms, TryAcquire(l, r)
        PROVE  \E k \in Loops : loop'[k].token = locks'[Room].token
    <2>1. r = Room /\ loop'[l].token = issued + 1 /\ locks'[Room].token = issued + 1
      BY <1>1 DEF TryAcquire
    <2>2. QED
      BY <2>1
  <1>2. ASSUME NEW l \in Loops, Release(l)
        PROVE  \E k \in Loops : loop'[k].token = locks'[Room].token
    <2>1. loop[l].room = Room
      BY <1>2 DEF Release, RunningLoopsHaveARoom
    <2>2. locks' = locks /\ locks[Room].token # loop[l].token
      BY <1>2, <2>1 DEF Release, NoEntry
    <2>3. PICK k \in Loops : loop[k].token = locks[Room].token
      BY <2>2 DEF EntryHasOwner
    <2>4. loop'[k] = loop[k]
      BY <1>2, <2>2, <2>3 DEF Release
    <2>5. QED
      BY <2>2, <2>3, <2>4
  <1>3. ASSUME NEW r \in Rooms, Snapshot(r) PROVE FALSE
    BY <1>3 DEF Snapshot, NoEntry
  <1>4. CASE Restart
    BY <1>4 DEF Restart, NoEntry
  <1>5. CASE Tick \/ UNCHANGED vars
    BY <1>5 DEF Tick, vars, EntryHasOwner
  <1>6. QED
    BY <1>1, <1>2, <1>3, <1>4, <1>5 DEF Next

-----------------------------------------------------------------------------
(* The invariant of the turns.                                             *)

\* The invariant holds in a room that was just created.
LEMMA InitTurnsInv == TurnsInit => TurnsInv
  <1> SUFFICES ASSUME TurnsInit PROVE TurnsInv
    OBVIOUS
  <1> USE NoneAssumption, TurnsAssumption DEF TurnsInit
  <1>1. LockInv
    BY InitLockInv
  <1>2. EntryHasOwner
    BY DEF EntryHasOwner, Init, NoEntry
  <1>3. Resting \in Handler /\ NotSubmitted \in Execution
    BY DEF Resting, Handler, Vias, Statuses, NotSubmitted, Execution
  <1>4. TurnsTypeOK
    BY <1>3 DEF TurnsTypeOK
  <1>5. Fits
    BY DEF Fits, HandlerFits, Resting, Running, Init, Idle
  <1>6. SawIsTrue
    BY DEF SawIsTrue, SawTrue, Resting, Settled
  <1>7. DialogsAreOwn /\ UtteredFirst /\ WaitFits
    BY DEF DialogsAreOwn, UtteredFirst, WaitFits, Resting, NotSubmitted
  <1>8. HasTeller /\ VotedHasTeller /\ ResultsStand
    BY DEF HasTeller, VotedHasTeller, ResultsStand, NotSubmitted, Settled
  <1>9. OpeningHeard /\ OnePusher /\ ToldOnce
    BY DEF OpeningHeard, OnePusher, Pusher, ToldOnce, At, Resting
  <1>10. QED
    BY <1>1, <1>2, <1>4, <1>5, <1>6, <1>7, <1>8, <1>9 DEF TurnsInv, TurnInv

\* Every step of the room keeps what the turns rely on.
LEMMA NextTurnInv ==
  ASSUME LockInv, TurnInv, [TurnsNext]_allVars
  PROVE  TurnInv'
  <1>0. TypeOK
    BY DEF LockInv
  <1>1. ASSUME NEW l \in Loops, Step(l) PROVE TurnInv'
    BY <1>0, <1>1, FinishJoinKeeps, StoreOpeningKeeps, BroadcastOpeningKeeps, ReplayStoredKeeps,
       ResumeSingleKeeps, LockKeeps, PlanKeeps, SubmitToEngineKeeps, FinallyKeeps, SendDialogKeeps,
       EmitCheckResultKeeps, NarrateKeeps, SendCompletedKeeps, RecordNarrationKeeps,
       PushNarrationKeeps, MarkNarrationPersistedKeeps DEF Step
  <1>2. ASSUME NEW l \in Loops, ChooseSkill(l) \/ DecidePostRoll(l) PROVE TurnInv'
    <2>1. dialog[PlayerOf[l]] # None
      BY <1>2 DEF ChooseSkill, DecidePostRoll
    <2>2. \E statuses \in SUBSET (Settled \cup {"post_roll"}) : Chosen(l, statuses)
      BY <1>2 DEF ChooseSkill, DecidePostRoll, Settled
    <2>3. QED
      BY <2>1, <2>2, ChosenKeeps
  <1>3. ASSUME NEW l \in Loops, Join(l) \/ StartGame(l) \/ ChooseInVain(l) \/ Disconnect(l)
        PROVE  TurnInv'
    BY <1>3, JoinKeeps, StartGameKeeps, ChooseInVainKeeps, DisconnectKeeps
  <1>4. ASSUME NEW l \in Loops, NEW a \in Actions, Submit(l, a) \/ Vote(l, a)
        PROVE  TurnInv'
    BY <1>4, SubmitKeeps, VoteKeeps
  <1>5. CASE ProcessRestart
    BY <1>5, ProcessRestartKeeps
  <1>6. CASE LockExpires \/ UNCHANGED allVars
    <2>1. UNCHANGED turnVars /\ loop' = loop
      BY <1>6 DEF LockExpires, Tick, Snapshot, allVars, vars
    <2>2. TurnsTypeOK' /\ Fits' /\ SawIsTrue' /\ DialogsAreOwn' /\ UtteredFirst' /\ WaitFits'
      BY <2>1
      DEF TurnInv, turnVars, TurnsTypeOK, Fits, HandlerFits, Running, SawIsTrue, SawTrue,
          DialogsAreOwn, UtteredFirst, WaitFits
    <2>3. HasTeller' /\ VotedHasTeller' /\ ResultsStand'
      BY <2>1 DEF TurnInv, turnVars, HasTeller, VotedHasTeller, Teller, ResultsStand, At
    <2>4. OpeningHeard' /\ OnePusher' /\ ToldOnce'
      BY <2>1 DEF TurnInv, turnVars, OpeningHeard, At, OnePusher, Pusher, ToldOnce
    <2>5. QED
      BY <2>2, <2>3, <2>4 DEF TurnInv
  <1>7. QED
    BY <1>1, <1>2, <1>3, <1>4, <1>5, <1>6 DEF TurnsNext

\* Every reachable state of a room's turns satisfies the invariant.
THEOREM TurnsInvariant == TurnsSpec => []TurnsInv
  <1>1. TurnsInv /\ [TurnsNext]_allVars => TurnsInv'
    BY TurnIsLockStep, NextLockInv, EntryKeepsOwner, NextTurnInv DEF TurnsInv
  <1>2. QED
    BY <1>1, InitTurnsInv, PTL DEF TurnsSpec

-----------------------------------------------------------------------------
(* What follows for every room.                                            *)

\* A narration is pushed at most once, after its row is stored and by whoever stored
\* it, unless the process died between the two; and it is the story of what was
\* committed (_deliver_turn_narration, record_event).
THEOREM ToldOnceTheorem == TurnsSpec => []ToldOnce
  <1>1. TurnsInv => ToldOnce
    BY DEF TurnsInv, TurnInv
  <1>2. QED
    BY <1>1, TurnsInvariant, PTL

\* What a settled action did is told to its player, or somebody is at telling it,
\* or the turn was cut short; and the result of a check is shown when it is final
\* (_emit_check_result, list_conversation_events).
THEOREM SettledIsToldTheorem == TurnsSpec => []SettledIsTold
  <1>1. TurnsInv => SettledIsTold
    <2> SUFFICES ASSUME TurnsInv, NEW a \in Actions
                 PROVE  LET shown == {item.type : item \in {i \in Conversation(Owner[a]) :
                                                              i.action = a}}
                        IN  /\ /\ engine[a].status \in Settled /\ a \notin missed
                               /\ \A l \in Loops : task[l].action # a
                               => /\ {"action.broadcast", "narration.push"} \subseteq shown
                                  /\ engine[a].status = "resolved" /\ engine[a].wait = "check"
                                     => "check.result" \in shown
                            /\ "check.result" \in shown => engine[a].status = "resolved"
      BY DEF SettledIsTold
    <2> DEFINE shown == {item.type : item \in {i \in Conversation(Owner[a]) : i.action = a}}
    <2>1. ASSUME a \in uttered PROVE "action.broadcast" \in shown
      <3>1. [type |-> "action.broadcast", action |-> a] \in Conversation(Owner[a])
        BY <2>1 DEF Conversation
      <3>2. QED
        BY <3>1
    <2>2. ASSUME told[a] # None PROVE "narration.push" \in shown
      <3>1. [type |-> "narration.push", action |-> a] \in Conversation(Owner[a])
        BY <2>2 DEF Conversation
      <3>2. QED
        BY <3>1
    <2>3. ASSUME a \in results PROVE "check.result" \in shown
      <3>1. [type |-> "check.result", action |-> a] \in Conversation(Owner[a])
        BY <2>3 DEF Conversation
      <3>2. QED
        BY <3>1
    <2>4. ASSUME "check.result" \in shown PROVE a \in results
      BY <2>4 DEF Conversation
    <2>5. ASSUME engine[a].status \in Settled, a \notin missed, \A l \in Loops : task[l].action # a
          PROVE  /\ a \in uttered /\ told[a] # None
                 /\ engine[a].status = "resolved" /\ engine[a].wait = "check" => a \in results
      BY <2>5 DEF TurnsInv, TurnInv, HasTeller, Teller, UtteredFirst, ResultsStand, Settled
    <2>6. a \in results => engine[a].status = "resolved"
      BY DEF TurnsInv, TurnInv, ResultsStand
    <2> HIDE DEF shown
    <2>7. QED
      BY <2>1, <2>2, <2>3, <2>4, <2>5, <2>6 DEF shown
  <1>2. QED
    BY <1>1, TurnsInvariant, PTL

\* Every socket of a room with an opening has been sent it, or a handler is about
\* to (room.join registers before it reads, game.start stores before it sends).
THEOREM OpeningReachesAllTheorem == TurnsSpec => []OpeningReachesAll
  <1>1. TurnsInv => OpeningReachesAll
    BY DEF TurnsInv, TurnInv, OpeningHeard, OpeningReachesAll
  <1>2. QED
    BY <1>1, TurnsInvariant, PTL

\* The lock goes back with the turn (the handler's `finally`), and the room is shown
\* as busy only while a handler is at a turn or after one that was cut short.
THEOREM LockIsGivenBackTheorem == TurnsSpec => []LockIsGivenBack
  <1>1. TurnsInv => LockIsGivenBack
    <2> SUFFICES ASSUME TurnsInv PROVE LockIsGivenBack
      OBVIOUS
    <2>1. \A l \in Loops : Running(l) => ~At(l, "rest")
      BY DEF TurnsInv, TurnInv, Fits, HandlerFits, At
    <2>2. Held(Room) => \E l \in Loops : Running(l) /\ loop[l].token = locks[Room].token
      BY DEF TurnsInv, EntryHasOwner, Held, Running
    <2>3. ASSUME ActionState = "processing"
          PROVE  \/ \E l \in Loops : ~At(l, "rest")
                 \/ \E a \in missed : engine[a].wait = "consent"
      <3>1. CASE Held(Room)
        BY <2>1, <2>2, <3>1
      <3>2. CASE ~Held(Room)
        <4>1. PICK a \in Actions : engine[a].wait = "consent" /\ engine[a].status = "resolved"
          BY <2>3, <3>2 DEF ActionState
        <4>2. a \in missed \/ \E l \in Loops : Teller(l, a)
          BY <4>1 DEF TurnsInv, TurnInv, VotedHasTeller, Settled
        <4>3. QED
          BY <4>1, <4>2 DEF Teller, At
      <3>3. QED
        BY <3>1, <3>2
    <2>4. QED
      BY <2>1, <2>2, <2>3 DEF LockIsGivenBack
  <1>2. QED
    BY <1>1, TurnsInvariant, PTL

\* The variables of the turns keep their types.
THEOREM TurnsTypeCorrect == TurnsSpec => []TurnsTypeOK
  <1>1. TurnsInv => TurnsTypeOK
    BY DEF TurnsInv, TurnInv
  <1>2. QED
    BY <1>1, TurnsInvariant, PTL

\* With every handler, fault and vote around it, at most one turn of a room is
\* within its lock time.
THEOREM OneLiveTurn == TurnsSpec => []OneLiveLoop
  BY TurnsImplementTheLock, OneLiveLoopTheorem, PTL
=============================================================================
