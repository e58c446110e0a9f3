---------------------------- MODULE RecentHistory ----------------------------
(***************************************************************************)
(* What the models are told of the turns before: read from the room's      *)
(* events and executions when a turn is judged or narrated                 *)
(* (adapters/sqlalchemy_recent_history.py), possibly long after the turn   *)
(* began and others went on.  A text is its length.                        *)
(*                                                                         *)
(* check.result carries the number of the check, not of the turn: the      *)
(* reader never finds it, and it is left out here.                         *)
(***************************************************************************)
EXTENDS Naturals, Sequences, Descending

CONSTANTS TurnsOf,         \* [player -> the turns it may take]
          Scenes,
          SaidIn,          \* [turn -> its scene and the lengths of its texts]
          UtteranceLimit, NarrationLimit, IntentLimit, ResultLimit,
          CandidateLimit, MaxTurns, MaxChars

\* RecentHistoryBudget has room for a turn, and one character of each half of it.
ASSUME HistoryAssumption ==
  /\ {UtteranceLimit, NarrationLimit, IntentLimit, ResultLimit, CandidateLimit} \subseteq Nat
  /\ MaxTurns \in Nat \ {0} /\ MaxChars \in Nat \ 0..1
  /\ \A p \in DOMAIN TurnsOf : \A t \in TurnsOf[p] :
       {SaidIn[t].utterance, SaidIn[t].intent, SaidIn[t].facts, SaidIn[t].narration} \subseteq Nat

VARIABLES events,      \* the room's events in the order of their time and number
          executions   \* turn -> what was executed, and after how many events

historyVars == <<events, executions>>

Viewers == DOMAIN TurnsOf
AllTurns == UNION {TurnsOf[p] : p \in Viewers}
ActorOf(t) == CHOOSE p \in Viewers : t \in TurnsOf[p]

NotExecuted == [after |-> 0, intent |-> 0, facts |-> 0]

HistoryInit ==
  /\ events = <<>>
  /\ executions = [t \in AllTurns |-> NotExecuted]

-----------------------------------------------------------------------------
Has(t, type) == \E i \in DOMAIN events : events[i].turn = t /\ events[i].type = type

Event(type, t, visibility, length) ==
  [type |-> type, turn |-> t, by |-> ActorOf(t), visibility |-> visibility, length |-> length]

\* _broadcast_action_utterance: once for a turn, for everybody.
Broadcast(t) ==
  /\ ~Has(t, "action.broadcast")
  /\ events' = Append(events, Event("action.broadcast", t, "public", SaidIn[t].utterance))
  /\ UNCHANGED executions

\* The engine's commit of the turn.
Execute(t) ==
  /\ Has(t, "action.broadcast") /\ executions[t] = NotExecuted /\ ~Has(t, "narration.push")
  /\ executions' = [executions EXCEPT ![t] =
                      [after |-> Len(events), intent |-> SaidIn[t].intent, facts |-> SaidIn[t].facts]]
  /\ UNCHANGED events

\* The narration of what was executed is for everybody, a question to the player
\* is for that player.
Narrate(t) ==
  /\ Has(t, "action.broadcast") /\ ~Has(t, "narration.push")
  /\ \E visibility \in {"public", "player_scoped"} :
       events' = Append(events, Event("narration.push", t, visibility, SaidIn[t].narration))
  /\ UNCHANGED executions

HistoryNext == \E t \in AllTurns : Broadcast(t) \/ Execute(t) \/ Narrate(t)

-----------------------------------------------------------------------------
Cut(n, limit) == IF n > limit THEN limit ELSE n

\* The event the turn began with; what came later is not read.
CutoffOf(current) ==
  LET own == {i \in DOMAIN events : events[i].turn = current /\ events[i].type = "action.broadcast"}
  IN  IF own = {} THEN Len(events) + 1 ELSE CHOOSE i \in own : TRUE

IsFor(e, viewer) == e.visibility = "public" \/ e.by = viewer

\* The turns to choose from, newest first.
Candidates(viewer, current) ==
  LET found == {i \in 1..CutoffOf(current) - 1 :
                  /\ events[i].type = "action.broadcast" /\ events[i].turn # current
                  /\ IsFor(events[i], viewer)}
      newestFirst == Descending(found)
  IN  SubSeq(newestFirst, 1, Cut(Len(newestFirst), CandidateLimit))

\* A mutant: the intent of whoever acted.
MayTellIntentOfAny(viewer, t) == TRUE

\* Of an execution only the player who acted is told.
MayTellIntent(viewer, t) == ActorOf(t) = viewer

\* A mutant: the narration is looked up for the turn alone.
NarrationsOfAny(viewer, t, cutoff) ==
  {i \in DOMAIN events : events[i].type = "narration.push" /\ events[i].turn = t}

NarrationsOf(viewer, t, cutoff) ==
  {i \in 1..cutoff - 1 : /\ events[i].type = "narration.push" /\ events[i].turn = t
                         /\ IsFor(events[i], viewer)}

Newest(places) == CHOOSE i \in places : \A j \in places : i >= j

\* One turn as its viewer may know it.  0: nothing of the kind.
Projected(viewer, i, cutoff) ==
  LET t         == events[i].turn
      narrated  == NarrationsOf(viewer, t, cutoff)
      done      == executions[t]
      tell      == MayTellIntent(viewer, t) /\ done # NotExecuted /\ done.after < cutoff
  IN  [turn |-> t, at |-> i, scene |-> SaidIn[t].scene,
       utterance |-> Cut(events[i].length, UtteranceLimit),
       intent    |-> IF tell THEN Cut(done.intent, IntentLimit) ELSE 0,
       facts     |-> IF tell THEN Cut(done.facts, ResultLimit) ELSE 0,
       narration |-> IF narrated = {} THEN 0
                     ELSE Cut(events[Newest(narrated)].length, NarrationLimit),
       private   |-> \E n \in narrated : events[n].visibility = "player_scoped"]

\* _turn_chars
Chars(turn) == turn.utterance + turn.intent + turn.facts + turn.narration

CharsOf(turns) ==
  LET sum[n \in 0..Len(turns)] == IF n = 0 THEN 0 ELSE sum[n - 1] + Chars(turns[n])
  IN  sum[Len(turns)]

\* Those of a list that are in a set, in their order.
Those(turns, S) ==
  LET kept[n \in 0..Len(turns)] ==
        IF n = 0 THEN <<>>
        ELSE IF turns[n] \in S THEN Append(kept[n - 1], turns[n]) ELSE kept[n - 1]
  IN  kept[Len(turns)]

All(turns) == {turns[i] : i \in DOMAIN turns}

\* The newest turn, then those of the scene, then the others.
Preferred(turns, scene) ==
  IF turns = <<>> THEN <<>>
  ELSE LET rest == Tail(turns)
           here == {turn \in All(rest) : turn.scene = scene}
           all  == <<Head(turns)>> \o Those(rest, here) \o Those(rest, All(rest) \ here)
       IN  SubSeq(all, 1, Cut(Len(all), MaxTurns))

\* The oldest are given up until the rest is short enough; never the newest.
Shortened(turns) ==
  LET From(k) == Those(turns, {turn \in All(turns) : turn.at >= k})
      fits    == {k \in {turn.at : turn \in All(turns)} : CharsOf(From(k)) <= MaxChars}
  IN  IF fits = {} THEN <<Head(turns)>>
      ELSE From(CHOOSE k \in fits : \A j \in fits : k <= j)

\* A mutant: the utterance is left as it is.
Unshrunk(turn) == turn.utterance

\* What the utterance keeps when it is too long even with one character told.
UtteranceKept(turn) ==
  LET told == IF turn.narration > 0 THEN 1 ELSE 0
  IN  IF turn.utterance + told > MaxChars THEN MaxChars - told ELSE turn.utterance

\* The newest turn alone may be too long: it loses its result, then the tail of
\* what was told, then the tail of what was said.
Shrunk(turn) ==
  LET bare     == [turn EXCEPT !.intent = 0, !.facts = 0]
      overflow == Chars(bare) - MaxChars
  IN  IF Chars(turn) <= MaxChars THEN turn
      ELSE IF Chars(bare) <= MaxChars THEN bare
      ELSE [bare EXCEPT !.narration = IF @ > overflow THEN @ - overflow
                                      ELSE IF @ > 0 THEN 1 ELSE 0,
                        !.utterance = UtteranceKept(bare)]

\* _select_turns
Selected(turns, scene) ==
  LET kept == IF turns = <<>> THEN <<>> ELSE Shortened(Preferred(turns, scene))
  IN  IF Len(kept) = 1 THEN <<Shrunk(kept[1])>>
      ELSE [i \in DOMAIN kept |-> kept[Len(kept) - i + 1]]

Recent(viewer, current, scene) ==
  LET cutoff == CutoffOf(current)
      found  == Candidates(viewer, current)
  IN  Selected([i \in DOMAIN found |-> Projected(viewer, found[i], cutoff)], scene)

\* RecentTurnContext.validate_visibility
IsValidFor(viewer, turns) ==
  \A i \in DOMAIN turns : ActorOf(turns[i].turn) # viewer =>
    ~turns[i].private /\ turns[i].intent = 0 /\ turns[i].facts = 0

\* _read_recent_history: a history that is not valid fails the turn.
TurnFails(viewer, turns) == ~IsValidFor(viewer, turns)

-----------------------------------------------------------------------------
\* Whenever a turn reads the history, and whoever plays it: it is valid for the
\* player, so that the turn does not fail; it tells nothing of the turn itself nor of what
\* came after it, tells the turn before it, and is never longer than it may be.
RecentIsSafe ==
  \A viewer \in Viewers, scene \in Scenes : \A current \in TurnsOf[viewer] :
    LET turns  == Recent(viewer, current, scene)
        cutoff == CutoffOf(current)
    IN  /\ ~TurnFails(viewer, turns)
        /\ \A i \in DOMAIN turns :
             /\ turns[i].turn # current /\ turns[i].at < cutoff
             /\ turns[i].narration > 0 =>
                  \E n \in 1..cutoff - 1 : events[n].turn = turns[i].turn
                                           /\ events[n].type = "narration.push"
             /\ \A j \in DOMAIN turns : i # j => turns[i].turn # turns[j].turn
        /\ Len(turns) <= MaxTurns /\ CharsOf(turns) <= MaxChars
        /\ LET found == Candidates(viewer, current)
           IN  found # <<>> => turns # <<>> /\ turns[Len(turns)].at = Head(found)

\* The turns are told in the order in which they came.  They are not when one of
\* another scene is newer than one of this scene.
RecentIsInOrder ==
  \A viewer \in Viewers, scene \in Scenes : \A current \in TurnsOf[viewer] :
    LET turns == Recent(viewer, current, scene)
    IN  \A i, j \in DOMAIN turns : i < j => turns[i].at < turns[j].at
=============================================================================
