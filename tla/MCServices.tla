----------------------------- MODULE MCServices -----------------------------
(* Five services that share nothing, checked in one run: an instance of one  *)
(* of them moves while the others stay as they are.                          *)
EXTENDS PortraitGeneration, HostSpeech, SpeechPlayer, RecentHistory, RoomChat

VARIABLE moving

servicesVars == <<vars, speechVars, playerVars, historyVars, chatVars, moving>>

Only(part, next, others) == moving = part /\ next /\ UNCHANGED <<others, moving>>

ServicesInit ==
  /\ Init /\ SpeechInit /\ PlayerInit /\ HistoryInit /\ ChatInit
  /\ moving \in {"portraits", "speech", "player", "history", "chat"}
  /\ moving # "speech" => voice = "v1"
  /\ moving # "player" => enabled

ServicesNext ==
  \/ Only("portraits", Next, <<speechVars, playerVars, historyVars, chatVars>>)
  \/ Only("speech", SpeechNext, <<vars, playerVars, historyVars, chatVars>>)
  \/ Only("player", PlayerNext, <<vars, speechVars, historyVars, chatVars>>)
  \/ Only("history", HistoryNext, <<vars, speechVars, playerVars, chatVars>>)
  \/ Only("chat", ChatNext, <<vars, speechVars, playerVars, historyVars>>)

\* The fairness of the portraits, while they are what moves.
ServicesSpec ==
  /\ ServicesInit /\ [][ServicesNext]_servicesVars
  /\ \A t \in Tasks : WF_vars(moving = "portraits" /\ Run(t))
  /\ \A k \in Calls : WF_vars(moving = "portraits" /\ Cancel(k))

\* m1 has two sentences, m2 one.
MCLengthOf == [m \in Messages |-> IF m = "m1" THEN 2 ELSE 1]

MCSizeOf == [s \in Sentences |-> IF s = "s1" THEN 2 ELSE 1]

MCAskedBy == <<"l1", "l1", "l2">>

\* Two sockets of one player, who repeats a message, and one of another.
MCLines == [s \in ChatSockets |-> IF s = "c3" THEN {3} ELSE {1, 2}]

MCTurnsOf == [p \in {"p1", "p2"} |-> IF p = "p1" THEN {1, 2} ELSE {3}]

Said(scene, u, i, f, n) ==
  [scene |-> scene, utterance |-> u, intent |-> i, facts |-> f, narration |-> n]
MCSaidIn == <<Said("s1", 1, 2, 1, 4), Said("s2", 4, 1, 1, 1), Said("s1", 1, 1, 3, 1)>>

\* What is read back of a room, by its players or for a model, is what was told
\* and no more (sqlalchemy_recent_history.py, chat.py).
ReadBackIsTrue == RecentIsSafe /\ ChatIsKept
=============================================================================
