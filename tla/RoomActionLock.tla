--------------------------- MODULE RoomActionLock ---------------------------
(***************************************************************************)
(* The in-process room lock that keeps two host-agent turns of one room    *)
(* from running at once (service/action_lock.py), with the WebSocket       *)
(* submit handlers that use it (controller/ws.py, action.plan.submit).     *)
(*                                                                         *)
(* A handler that obtains the lock runs a turn loop: it reads the world,   *)
(* calls the model, writes the result and releases the lock in a           *)
(* `finally`.  Locks expire, so that a loop that never reaches its         *)
(* `finally` cannot close the room; tokens keep a late `finally` from      *)
(* releasing the lock of the loop that came after it.                      *)
(***************************************************************************)
EXTENDS Naturals

CONSTANTS Rooms,          \* room ids
          Loops,          \* WebSocket handler tasks that submit actions
          LockTimeout,    \* LOCK_TIMEOUT_SECONDS
          MaxTime,        \* bound on the monotonic clock (model checking)
          MaxTokens       \* bound on the tokens issued (model checking)

ASSUME LockTimeoutAssumption == LockTimeout \in Nat \ {0}
ASSUME BoundsAssumption == MaxTime \in Nat /\ MaxTokens \in Nat

VARIABLES locks,   \* _locks: room -> entry, or NoEntry when the key is absent
          loop,    \* what each handler task is doing
          now,     \* time.monotonic()
          issued   \* tokens handed out so far (uuid4: never the same twice)

vars == <<locks, loop, now, issued>>

\* Token 0 is never issued: it marks an absent entry.
NoEntry == [token |-> 0, expiresAt |-> 0]

\* A handler that is not inside the try/finally that owns a token.  `until`
\* remembers when the lock obtained with `token` expires.
Idle == [room |-> "none", token |-> 0, until |-> 0]

\* A stored entry expires one timeout after some acquisition.
Entry == [token : Nat \ {0}, expiresAt : {t \in Nat : t >= LockTimeout}]

TypeOK ==
  /\ locks \in [Rooms -> Entry \cup {NoEntry}]
  /\ loop \in [Loops -> [room : Rooms \cup {"none"}, token : Nat, until : Nat]]
  /\ now \in Nat
  /\ issued \in Nat

Init ==
  /\ locks = [r \in Rooms |-> NoEntry]
  /\ loop = [l \in Loops |-> Idle]
  /\ now = 0
  /\ issued = 0

Running(l) == loop[l].token # 0

\* `entry is not None and now < entry.expires_at`
Held(r) == locks[r].token # 0 /\ now < locks[r].expiresAt

-----------------------------------------------------------------------------
\* Mutant of TryAcquire: an expired entry is kept for its old expiry time.
TryAcquireKeepsExpiry(l, r) ==
  /\ ~Running(l)
  /\ issued < MaxTokens
  /\ ~Held(r)
  /\ issued' = issued + 1
  /\ locks' = [locks EXCEPT ![r].token = issued + 1]
  /\ loop' = [loop EXCEPT ![l] = [room |-> r, token |-> issued + 1,
                                  until |-> now + LockTimeout]]
  /\ UNCHANGED now

\* try_acquire returns a token: the room is free or the holder has expired,
\* whose entry is overwritten.
TryAcquire(l, r) ==
  /\ ~Running(l)
  /\ issued < MaxTokens
  /\ ~Held(r)
  /\ issued' = issued + 1
  /\ locks' = [locks EXCEPT ![r] = [token |-> issued + 1,
                                    expiresAt |-> now + LockTimeout]]
  /\ loop' = [loop EXCEPT ![l] = [room |-> r, token |-> issued + 1,
                                  until |-> now + LockTimeout]]
  /\ UNCHANGED now

\* Mutant of Release: the entry goes whoever owns it.
ReleaseAnyToken(l) ==
  /\ Running(l)
  /\ loop' = [loop EXCEPT ![l] = Idle]
  /\ locks' = [locks EXCEPT ![loop[l].room] = NoEntry]
  /\ UNCHANGED <<now, issued>>

\* The `finally` of the submit handler: the turn is over, whatever became of
\* it, and the entry goes only if it still carries this handler's token.
Release(l) ==
  /\ Running(l)
  /\ loop' = [loop EXCEPT ![l] = Idle]
  /\ locks' = IF locks[loop[l].room].token = loop[l].token
                THEN [locks EXCEPT ![loop[l].room] = NoEntry]
                ELSE locks
  /\ UNCHANGED <<now, issued>>

\* Mutant of Snapshot: the comparison with expires_at is off by one tick.
SnapshotEarly(r) ==
  /\ locks[r].token # 0
  /\ now + 1 >= locks[r].expiresAt
  /\ locks' = [locks EXCEPT ![r] = NoEntry]
  /\ UNCHANGED <<loop, now, issued>>

\* snapshot: the busy-state query drops an expired entry as it reads it.
Snapshot(r) ==
  /\ locks[r].token # 0
  /\ now >= locks[r].expiresAt
  /\ locks' = [locks EXCEPT ![r] = NoEntry]
  /\ UNCHANGED <<loop, now, issued>>

\* The process dies and starts again: the dict and the tasks are gone.
Restart ==
  /\ locks' = [r \in Rooms |-> NoEntry]
  /\ loop' = [l \in Loops |-> Idle]
  /\ UNCHANGED <<now, issued>>

Tick ==
  /\ now < MaxTime
  /\ now' = now + 1
  /\ UNCHANGED <<locks, loop, issued>>

Next ==
  \/ \E l \in Loops, r \in Rooms : TryAcquire(l, r)
  \/ \E l \in Loops : Release(l)
  \/ \E r \in Rooms : Snapshot(r)
  \/ Restart
  \/ Tick

Spec == Init /\ [][Next]_vars

-----------------------------------------------------------------------------
\* A loop that still owns its lock: it has a token that has not expired.
Live(l, r) == Running(l) /\ loop[l].room = r /\ now < loop[l].until

\* The lock's purpose (action_lock.py, module docstring): of the turn loops
\* of a room at most one is within its lock time, whatever late releases,
\* expiries, take-overs and restarts came before.
OneLiveLoop ==
  \A r \in Rooms : \A k, l \in Loops : Live(k, r) /\ Live(l, r) => k = l

\* A late `finally` of an expired loop, or a lazy clean-up, never takes the
\* entry of the loop that now owns the room (the token check of release).
LiveLoopKeepsItsEntry ==
  \A r \in Rooms : \A l \in Loops :
    Live(l, r) => locks[r] = [token |-> loop[l].token, expiresAt |-> loop[l].until]

\* What makes both inductive: tokens of running loops and of entries were
\* issued, and no two running loops share one.
TokensAreUnique ==
  /\ \A l \in Loops : loop[l].token <= issued
  /\ \A r \in Rooms : locks[r].token <= issued
  /\ \A k, l \in Loops : Running(k) /\ loop[k].token = loop[l].token => k = l

\* Running loops name the room whose lock they took.
RunningLoopsHaveARoom == \A l \in Loops : Running(l) => loop[l].room \in Rooms

LockInv ==
  /\ TypeOK
  /\ TokensAreUnique
  /\ RunningLoopsHaveARoom
  /\ LiveLoopKeepsItsEntry
=============================================================================
