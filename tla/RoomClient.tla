----------------------------- MODULE RoomClient -----------------------------
(***************************************************************************)
(* The client's end of the room channel: RoomSocket of the SDK, which      *)
(* keeps one WebSocket, matches answers with the promises of submitted     *)
(* actions and caches the player's view, and the part of RoomPage that     *)
(* shows narrations: a queue of authoritative texts, and the one text that *)
(* is revealed while its fragments arrive.                                 *)
(*                                                                         *)
(* A promise is a member of pending while it is open.  The server is what  *)
(* its frames say: it may answer an action it has received, tell a story,  *)
(* push it again, fail, or say nothing, and lines break at any moment.     *)
(***************************************************************************)
EXTENDS Naturals, Sequences, SequencesExt

CONSTANTS
  Rooms,
  Page,        \* the room whose page is open
  Actions,     \* client action ids of the player
  MaxLines,    \* bound: WebSockets opened
  MaxStories,  \* bound: narrations the server stores
  Fragments,   \* fragments a narration is cut into; each takes one tick to reveal
  Nothing

ASSUME ClientAssumption ==
  /\ Page \in Rooms
  /\ Nothing \notin Rooms
  /\ MaxLines \in Nat /\ MaxStories \in Nat
  /\ Fragments \in Nat \ {0, 1}  \* a text of one piece is pushed without

VARIABLES
  lines,       \* the WebSockets made, each with its room, readyState and what it is told
  ws,          \* RoomSocket.ws: the number of a line, or 0
  playerView,  \* the room the cached view is of, or Nothing
  pending,     \* pendingActions
  sentOn,      \* history: the line an action was last sent on
  told,        \* stories the server has stored, in their order
  stream,      \* streamingNarration: its story, fragments and what is revealed
  queue,       \* pendingNarrations
  shown        \* the narrations among messages

socketVars == <<lines, ws, playerView, pending, sentOn>>
pageVars == <<stream, queue, shown>>
clientVars == <<socketVars, told, pageVars>>

Stories == 1..MaxStories
Line(r) == [room |-> r, state |-> "connecting", story |-> 0, next |-> 0]
NoStream == [story |-> 0, chunks |-> {}, revealed |-> 0]
Live == {"connecting", "open"}

ClientInit ==
  /\ lines = <<>> /\ ws = 0
  /\ playerView = Nothing
  /\ pending = {} /\ sentOn = [a \in Actions |-> 0]
  /\ told = 0
  /\ stream = NoStream /\ queue = <<>> /\ shown = <<>>

CanSend == ws # 0 /\ lines[ws].state = "open"

\* Mutant of Closed: the old line is left alone.
ClosedNever(ls, n) == ls

\* close(): a line that is up goes to closing, and hands over no frame any more.
Closed(ls, n) ==
  IF n = 0 \/ ls[n].state \notin Live THEN ls
  ELSE [ls EXCEPT ![n] = [Line(@.room) EXCEPT !.state = "closing"]]

-----------------------------------------------------------------------------
(* RoomSocket.                                                             *)

Reusable(r) == ws # 0 /\ lines[ws].room = r /\ lines[ws].state \in Live

\* Mutant of Rejected: the promises wait for the next line.
RejectedNot(actions) == actions

\* What becomes of the open promises when their line is replaced or lost: all are
\* rejected with a transport error.
Rejected(actions) == {}

Connect(r) ==
  /\ ~Reusable(r)
  /\ Len(lines) < MaxLines
  /\ lines' = Append(Closed(lines, ws), Line(r))
  /\ ws' = Len(lines')
  /\ pending' = Rejected(pending)
  /\ playerView' = Nothing
  /\ UNCHANGED <<sentOn, told, pageVars>>

Disconnect ==
  /\ lines' = Closed(lines, ws)
  /\ ws' = 0
  /\ pending' = Rejected(pending)
  /\ UNCHANGED <<playerView, sentOn, told, pageVars>>

\* Mutant of IsCurrent: every close event takes the socket with it.
IsCurrentAlways(n) == TRUE

\* onclose tells a line it still uses from one that it has replaced.
IsCurrent(n) == ws = n

OnClose(n) ==
  /\ lines[n].state = "closing"
  /\ lines' = [lines EXCEPT ![n].state = "closed"]
  /\ IF IsCurrent(n)
       THEN ws' = 0 /\ pending' = Rejected(pending)
       ELSE UNCHANGED <<ws, pending>>
  /\ UNCHANGED <<playerView, sentOn, told, pageVars>>

\* A second submission of an open action is sent again and shares its promise;
\* a first one that cannot be sent is rejected at once.
SubmitPlannedAction(a) ==
  /\ pending' = IF CanSend THEN pending \union {a} ELSE pending
  /\ sentOn' = IF CanSend THEN [sentOn EXCEPT ![a] = ws] ELSE sentOn
  /\ UNCHANGED <<lines, ws, playerView, told, pageVars>>

-----------------------------------------------------------------------------
(* The page.                                                               *)

\* A fragment of another story starts the reveal anew.
Accumulated(s, story, k) ==
  LET base == IF s.story = story THEN s ELSE [NoStream EXCEPT !.story = story]
  IN  [base EXCEPT !.chunks = @ \union {k}]

Revealing == stream.revealed < Len(SetToSeq(stream.chunks))

Tick ==
  /\ Revealing
  /\ stream' = [stream EXCEPT !.revealed = @ + 1]
  /\ UNCHANGED <<socketVars, told, queue, shown>>

\* A message that is shown under its id is not added again.
AppendLive(messages, story) ==
  IF Contains(messages, story) THEN messages ELSE Append(messages, story)

\* The head of the queue waits until it is revealed, and only for itself.
CommitNarration ==
  /\ queue # <<>>
  /\ ~(stream.story = Head(queue) /\ Revealing)
  /\ shown' = AppendLive(shown, Head(queue))
  /\ queue' = Tail(queue)
  /\ stream' = IF stream.story = Head(queue) THEN NoStream ELSE stream
  /\ UNCHANGED <<socketVars, told>>

\* The history that was asked for arrives: what is not shown yet goes first.
LoadHistory ==
  /\ shown' = SelectSeq([i \in 1..told |-> i], LAMBDA s : ~Contains(shown, s)) \o shown
  /\ UNCHANGED <<socketVars, told, stream, queue>>

\* Mutant of QueueAfterFailure: the queue goes with the reveal.
QueueDropped == <<>>

\* A failed turn ends the reveal; what is queued is stored by the server and stays.
QueueAfterFailure == queue

-----------------------------------------------------------------------------
(* onmessage: the socket's part of a frame, then the page's.  A line is a  *)
(* FIFO that drops what is under way when it closes, so a frame is sent    *)
(* and received in one step.                                               *)

PageSees(f) ==
  /\ stream' = CASE f.kind = "chunk" -> Accumulated(stream, f.story, f.seq)
                 [] f.kind \in {"failed", "error"} -> NoStream
                 [] OTHER -> stream
  /\ queue' = CASE f.kind = "push" -> Append(queue, f.story)
                [] f.kind \in {"failed", "error"} -> QueueAfterFailure
                [] OTHER -> queue

\* An answer nobody waits for changes the view and nothing else.
Receive(n, f) ==
  /\ lines[n].state = "open"
  /\ playerView' = IF f.kind \in {"completed", "view"} THEN lines[n].room ELSE playerView
  /\ pending' = IF f.kind \in {"completed", "failed", "error"}
                  THEN pending \ {f.action} ELSE pending
  /\ IF lines[n].room = Page THEN PageSees(f) ELSE UNCHANGED <<stream, queue>>
  /\ UNCHANGED <<ws, sentOn, shown>>

-----------------------------------------------------------------------------
(* The network and the server.                                             *)

Opens(n) ==
  /\ lines[n].state = "connecting"
  /\ lines' = [lines EXCEPT ![n].state = "open"]
  /\ UNCHANGED <<ws, playerView, pending, sentOn, told, pageVars>>

Breaks(n) ==
  /\ lines[n].state \in Live
  /\ lines' = Closed(lines, n)
  /\ UNCHANGED <<ws, playerView, pending, sentOn, told, pageVars>>

\* An action that reached the server is answered on any line its player has now.
Answers(n, a) ==
  /\ sentOn[a] # 0 /\ lines[sentOn[a]].room = lines[n].room
  /\ \E kind \in {"completed", "failed", "error"} :
       Receive(n, [kind |-> kind, action |-> a])
  /\ UNCHANGED <<lines, told>>

\* _send_view_updated, and _send_error about no action in particular.
Informs(n) ==
  /\ \/ Receive(n, [kind |-> "view"])
     \/ Receive(n, [kind |-> "error", action |-> Nothing])
  /\ UNCHANGED <<lines, told>>

\* The server stores a story, whether or not somebody of its room is there.
StoresStory ==
  /\ told < MaxStories
  /\ told' = told + 1
  /\ UNCHANGED <<socketVars, pageVars>>

\* A stored story goes to a line when it is new, and again when its player joins; a
\* text of several pieces is sent piece by piece first, and other frames may come
\* between.  MaxStories bounds the queue, too.
StartsStory(n) ==
  /\ lines[n].room = Page /\ lines[n].state = "open" /\ lines[n].story = 0
  /\ \E story \in 1..told, next \in {1, Fragments + 1} :
       lines' = [lines EXCEPT ![n].story = story, ![n].next = next]
  /\ UNCHANGED <<ws, playerView, pending, sentOn, told, pageVars>>

SendsFragment(n) ==
  /\ lines[n].story # 0 /\ lines[n].next \in 1..Fragments
  /\ lines' = [lines EXCEPT ![n].next = @ + 1]
  /\ Receive(n, [kind |-> "chunk", story |-> lines[n].story, seq |-> lines[n].next])
  /\ UNCHANGED told

SendsStory(n) ==
  /\ lines[n].story # 0 /\ lines[n].next > Fragments
  /\ Len(queue) < MaxStories
  /\ lines' = [lines EXCEPT ![n].story = 0, ![n].next = 0]
  /\ Receive(n, [kind |-> "push", story |-> lines[n].story])
  /\ UNCHANGED told

ClientNext ==
  \/ \E r \in Rooms : Connect(r)
  \/ Disconnect
  \/ \E a \in Actions : SubmitPlannedAction(a)
  \/ \E n \in DOMAIN lines :
       \/ OnClose(n) \/ Opens(n) \/ Breaks(n)
       \/ \E a \in Actions : Answers(n, a)
       \/ Informs(n) \/ StartsStory(n) \/ SendsFragment(n) \/ SendsStory(n)
  \/ Tick \/ CommitNarration \/ LoadHistory \/ StoresStory

\* The browser fires the close event of a line that is closing, and the page's timer
\* and its effects run.  Nothing else is promised: no line comes back by itself.
Fairness ==
  /\ \A n \in 1..MaxLines : WF_clientVars(n \in DOMAIN lines /\ OnClose(n))
  /\ WF_clientVars(Tick)
  /\ WF_clientVars(CommitNarration)

ClientSpec == ClientInit /\ [][ClientNext]_clientVars /\ Fairness

-----------------------------------------------------------------------------
(* Properties.                                                             *)

WebSocket == [room : Rooms, state : {"connecting", "open", "closing", "closed"},
              story : Nat, next : Nat]

ClientTypeOK ==
  /\ lines \in Seq(WebSocket) /\ ws \in 0..Len(lines)
  /\ playerView \in Rooms \union {Nothing}
  /\ pending \subseteq Actions /\ sentOn \in [Actions -> Nat]
  /\ told \in 0..MaxStories

\* RoomSocket holds the only line that is up: an old one that closes late does not take
\* the new one with it, and none is left open behind the client's back, where the
\* server would still count the player as present.
OneLine == \A n \in DOMAIN lines : lines[n].state \in Live => ws = n

\* A promise whose line is lost, for whatever reason, is settled: the page can offer
\* the retry, instead of waiting for an answer that cannot come.
NobodyWaitsInVain ==
  \A a \in Actions :
    (a \in pending /\ lines[sentOn[a]].state \notin Live) ~> (a \notin pending)

\* A promise that is open is of an action that was sent on the line the client has.
PromiseIsOfTheLine == \A a \in pending : ws # 0 /\ sentOn[a] = ws

\* The cached view is one of the room the client is connected to.
ViewIsOfTheRoom == ws # 0 /\ playerView # Nothing => playerView = lines[ws].room

\* A narration the page has received is shown in the end, however the turns after it
\* fail, fragments repeat or the line breaks, and never twice.
ReceivedIsShown ==
  /\ [](\A i, j \in DOMAIN shown : shown[i] = shown[j] => i = j)
  /\ \A story \in Stories : Contains(queue, story) ~> Contains(shown, story)
=============================================================================
