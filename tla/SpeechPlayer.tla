---------------------------- MODULE SpeechPlayer ----------------------------
(***************************************************************************)
(* The spoken narration in a player's browser (hooks/useHostSpeech.ts).    *)
(* Messages wait in a queue; a coroutine (processQueue) reads them out     *)
(* sentence by sentence on the page's one audio element and fetches a      *)
(* sentence ahead.  stop() cannot end a coroutine: it raises the           *)
(* generation, aborts what is being fetched and takes the source away; a   *)
(* coroutine that waits for the element waits on, and is woken by the      *)
(* first sentence of a later generation that ends.                         *)
(*                                                                         *)
(* The microtasks that follow the event run before anything else, oldest   *)
(* listener first: while a coroutine is woken no other step is taken.      *)
(***************************************************************************)
EXTENDS Naturals, Sequences, FiniteSets

CONSTANTS Messages, NoMessage,
          LengthOf,       \* [Messages -> Nat], the sentences of each
          MaxGeneration,  \* bound on the calls of stop (model checking)
          MaxQueue        \* bound on the queue (model checking)

ASSUME PlayerAssumption ==
  /\ LengthOf \in [Messages -> Nat] /\ NoMessage \notin Messages
  /\ MaxGeneration \in Nat /\ MaxQueue \in Nat

VARIABLES generation, queue, seen, enabled,
          settings,    \* "unknown" until the server has answered, then "on", "off"
          processing,
          reader,      \* generation -> its coroutine
          source,      \* what the element is to play
          sound,       \* "none", "loading", "playing", "paused", "ended"
          urls,        \* the object URLs that are still valid
          status, shown

playerVars == <<generation, queue, seen, enabled, settings, processing, reader,
                source, sound, urls, status, shown>>

Generations == 0..MaxGeneration

\* A coroutine and where it waits; next is the fetch it holds.
Gone == [at |-> "gone", message |-> NoMessage, index |-> 0, next |-> "none"]
NoUrl == <<0, NoMessage, 0>>

PlayerInit ==
  /\ generation = 0 /\ queue = <<>> /\ seen = {} /\ enabled \in BOOLEAN
  /\ settings = "unknown" /\ processing = FALSE
  /\ reader = [g \in Generations |-> Gone]
  /\ source = NoUrl /\ sound = "none" /\ urls = {}
  /\ status = "idle" /\ shown = NoMessage

IsCurrent(g) == g = generation
Quiet == \A g \in Generations : reader[g].at # "woken"

-----------------------------------------------------------------------------
\* processQueue: one at a time, and only when the server can speak.  The head of
\* the queue is taken; the coroutine waits for its sentences.
Reading(message) == [at |-> "manifest", message |-> message, index |-> 0, next |-> "none"]

Process(line, set) ==
  IF processing \/ line = <<>> \/ set # "on"
  THEN queue' = line /\ UNCHANGED <<processing, reader, status, shown>>
  ELSE /\ queue' = Tail(line) /\ processing' = TRUE
       /\ reader' = [reader EXCEPT ![generation] = Reading(Head(line))]
       /\ status' = "synthesizing" /\ shown' = Head(line)

\* enqueue, for the narration that has just come; a message is taken once.
Enqueue(m) ==
  /\ Quiet /\ Len(queue) < MaxQueue
  /\ enabled /\ m \notin seen
  /\ seen' = seen \cup {m}
  /\ IF settings = "off" THEN UNCHANGED <<queue, processing, reader, status, shown>>
     ELSE Process(Append(queue, m), settings)
  /\ UNCHANGED <<generation, enabled, settings, source, sound, urls>>

\* markSeen, for what was said before the player came.
MarkSeen(m) ==
  /\ Quiet /\ seen' = seen \cup {m}
  /\ UNCHANGED <<generation, queue, enabled, settings, processing, reader, source, sound,
                 urls, status, shown>>

Replay(m) ==
  /\ Quiet /\ Len(queue) < MaxQueue /\ settings = "on"
  /\ Process(Append(queue, m), settings)
  /\ UNCHANGED <<generation, seen, enabled, settings, source, sound, urls>>

\* getHostSpeechSettings has answered; the effect takes up what was kept.
SettingsArrive(answer) ==
  /\ Quiet /\ settings = "unknown" /\ settings' = answer
  /\ Process(queue, answer)
  /\ UNCHANGED <<generation, seen, enabled, source, sound, urls>>

\* The inner finally waits for what is being fetched.
Rejected(r) == IF r.next = "fetching" THEN [r EXCEPT !.at = "draining"] ELSE Gone

\* stop: also the first step of updateVoice, handleSettingsUpdated, of leaving
\* the room and of switching the speech off.  A play() that has not begun is
\* rejected.
Stopped(r) ==
  IF r.at # "buffering" THEN r
  ELSE Rejected(r)

Stop(on) ==
  /\ Quiet /\ generation < MaxGeneration
  /\ on # enabled => ~on
  /\ enabled' = on
  /\ generation' = generation + 1
  /\ source' = NoUrl /\ sound' = "none" /\ urls' = {}
  /\ queue' = <<>> /\ processing' = FALSE
  /\ reader' = [g \in Generations |-> Stopped(reader[g])]
  /\ status' = "idle" /\ shown' = NoMessage
  /\ UNCHANGED <<seen, settings>>

SwitchOn ==
  /\ Quiet /\ ~enabled /\ enabled' = TRUE
  /\ UNCHANGED <<generation, queue, seen, settings, processing, reader, source, sound,
                 urls, status, shown>>

Pause ==
  /\ Quiet /\ status = "playing" /\ status' = "paused"
  /\ sound' = IF sound = "playing" THEN "paused" ELSE sound
  /\ UNCHANGED <<generation, queue, seen, enabled, settings, processing, reader, source, urls, shown>>

\* The browser may refuse to go on.  Between two sentences the one that is over
\* is heard again.
Resume ==
  /\ Quiet /\ status = "paused"
  /\ \/ status' = "playing" /\ sound' = IF sound \in {"paused", "ended"} THEN "playing" ELSE sound
     \/ status' = "failed" /\ UNCHANGED sound
  /\ UNCHANGED <<generation, queue, seen, enabled, settings, processing, reader, source, urls, shown>>

-----------------------------------------------------------------------------
\* A coroutine is done with a message: the next one, when nobody has stopped it.
NextMessage(g) ==
     IF IsCurrent(g) /\ queue # <<>>
     THEN /\ queue' = Tail(queue) /\ reader' = [reader EXCEPT ![g] = Reading(Head(queue))]
          /\ status' = "synthesizing" /\ shown' = Head(queue) /\ UNCHANGED processing
     ELSE /\ reader' = [reader EXCEPT ![g] = Gone] /\ shown' = NoMessage
          /\ status' = IF IsCurrent(g) THEN "idle" ELSE status
          /\ processing' = (processing /\ ~IsCurrent(g)) /\ UNCHANGED queue

\* The finally of the outer try: the next generation's flag is not touched.
NoLongerProcessing(g) == processing /\ ~IsCurrent(g)

\* catch and finally: the queue is lost with the message that failed.
GiveUp(g) ==
  /\ processing' = NoLongerProcessing(g)
  /\ IF IsCurrent(g) THEN queue' = <<>> /\ status' = "failed" /\ shown' = NoMessage
     ELSE UNCHANGED <<queue, status, shown>>

FailReading(g) == GiveUp(g) /\ reader' = [reader EXCEPT ![g] = Gone]

\* getHostSpeechManifest.
Manifest(g) ==
  /\ Quiet /\ reader[g].at = "manifest"
  /\ \/ FailReading(g) /\ UNCHANGED <<source, sound>>
     \/ /\ IsCurrent(g) /\ UNCHANGED <<source, sound>>
        /\ IF LengthOf[reader[g].message] = 0 THEN NextMessage(g)
           ELSE /\ reader' = [reader EXCEPT ![g].at = "sentence", ![g].index = 1,
                                            ![g].next = "fetching"]
                /\ UNCHANGED <<queue, processing, status, shown>>
  /\ UNCHANGED <<generation, seen, enabled, settings, urls>>

Url(g, r, index) == <<g, r.message, index>>

\* playUrl takes the element; whoever waited for it to begin is rejected.
Play(g, r) ==
  LET ahead == IF r.index < LengthOf[r.message] THEN "fetching" ELSE "none"
  IN  /\ source' = Url(g, r, r.index) /\ sound' = "loading" /\ status' = "buffering"
      /\ reader' = [h \in Generations |->
                      IF h = g THEN [r EXCEPT !.at = "buffering", !.next = ahead]
                      ELSE Stopped(reader[h])]
      /\ UNCHANGED <<queue, processing, shown>>

\* A mutant: a sentence that comes after stop() is kept like any other.
MayKeepAnyway(g) == TRUE

\* fetchSentence looks at the signal once more.
MayKeep(g) == IsCurrent(g)

\* fetchSentence is over; the coroutine goes on if it waited for it.
Fetched(g) ==
  LET r    == reader[g]
      mine == IF r.at = "sentence" THEN r.index ELSE r.index + 1
  IN  /\ Quiet /\ r.next = "fetching"
      /\ \/ /\ MayKeep(g)
            /\ urls' = IF r.at = "draining" THEN urls ELSE urls \cup {Url(g, r, mine)}
            /\ CASE r.at = "sentence" -> Play(g, r)
                 [] r.at = "draining" -> FailReading(g) /\ UNCHANGED <<source, sound>>
                 [] OTHER -> /\ reader' = [reader EXCEPT ![g].next = "ready"]
                             /\ UNCHANGED <<queue, processing, status, shown, source, sound>>
         \/ /\ UNCHANGED urls
            /\ IF r.at \in {"sentence", "draining"} THEN FailReading(g) /\ UNCHANGED <<source, sound>>
               ELSE /\ reader' = [reader EXCEPT ![g].next = "broken"]
                    /\ UNCHANGED <<queue, processing, status, shown, source, sound>>
      /\ UNCHANGED <<generation, seen, enabled, settings>>

\* play() has begun.
Begins ==
  /\ Quiet /\ sound = "loading" /\ source \in urls /\ sound' = "playing"
  /\ reader' = [g \in Generations |->
                  IF reader[g].at = "buffering" THEN [reader[g] EXCEPT !.at = "playing"]
                  ELSE reader[g]]
  /\ status' = IF \E g \in Generations : reader[g].at = "buffering" /\ IsCurrent(g)
               THEN "playing" ELSE status
  /\ UNCHANGED <<generation, queue, seen, enabled, settings, processing, source, urls, shown>>

\* The sentence is over: every listener of the element hears of it.
Ends ==
  /\ Quiet /\ sound = "playing" /\ sound' = "ended"
  /\ reader' = [g \in Generations |->
                  IF reader[g].at = "playing" THEN [reader[g] EXCEPT !.at = "woken"]
                  ELSE reader[g]]
  /\ UNCHANGED <<generation, queue, seen, enabled, settings, processing, source, urls,
                 status, shown>>

\* The rest of the loop's body, oldest listener first.
GoesOn(g) ==
  LET r == [reader[g] EXCEPT !.index = @ + 1]
  IN  /\ reader[g].at = "woken" /\ \A h \in Generations : h < g => reader[h].at # "woken"
      /\ urls' = urls \ {Url(g, reader[g], reader[g].index)}
      /\ CASE r.next = "none" -> NextMessage(g) /\ UNCHANGED <<source, sound>>
           [] r.next = "ready" -> Play(g, r)
           [] r.next = "fetching" ->
                /\ reader' = [reader EXCEPT ![g] = [r EXCEPT !.at = "sentence"]]
                /\ UNCHANGED <<queue, processing, status, shown, source, sound>>
           [] OTHER -> FailReading(g) /\ UNCHANGED <<source, sound>>
      /\ UNCHANGED <<generation, seen, enabled, settings>>

\* The element may not play, or cannot play what it was given: then every
\* listener hears of it.  The sentence ahead is given back, the one that failed
\* is not.
PlayFails(g) ==
  LET r == reader[g]
  IN  /\ Quiet /\ sound = "loading" /\ r.at = "buffering"
      /\ sound' = "none" /\ UNCHANGED source
      /\ urls' = IF r.next = "ready" THEN urls \ {Url(g, r, r.index + 1)} ELSE urls
      /\ \E heard \in BOOLEAN :
           reader' = [h \in Generations |->
                        IF h = g \/ (heard /\ reader[h].at = "playing") THEN Rejected(reader[h])
                        ELSE reader[h]]
      /\ IF r.next = "fetching" THEN UNCHANGED <<queue, processing, status, shown>>
         ELSE GiveUp(g)
      /\ UNCHANGED <<generation, seen, enabled, settings>>

PlayerNext ==
  \/ \E m \in Messages : Enqueue(m) \/ MarkSeen(m) \/ Replay(m)
  \/ \E answer \in {"on", "off"} : SettingsArrive(answer)
  \/ \E on \in BOOLEAN : Stop(on)
  \/ SwitchOn \/ Pause \/ Resume \/ Begins \/ Ends
  \/ \E g \in Generations : Manifest(g) \/ Fetched(g) \/ GoesOn(g) \/ PlayFails(g)

PlayerSpec == PlayerInit /\ [][PlayerNext]_playerVars

-----------------------------------------------------------------------------
Coroutine ==
  [at : {"gone", "manifest", "sentence", "buffering", "playing", "woken", "draining"},
   message : Messages \cup {NoMessage}, index : Nat, next : {"none", "fetching", "ready", "broken"}]

ObjectUrl == Generations \X (Messages \cup {NoMessage}) \X Nat

PlayerTypeOK ==
  /\ generation \in Generations
  /\ queue \in Seq(Messages) /\ seen \subseteq Messages
  /\ enabled \in BOOLEAN /\ processing \in BOOLEAN
  /\ settings \in {"unknown", "on", "off"}
  /\ reader \in [Generations -> Coroutine]
  /\ source \in ObjectUrl /\ urls \subseteq ObjectUrl
  /\ sound \in {"none", "loading", "playing", "paused", "ended"}
  /\ status \in {"idle", "synthesizing", "buffering", "playing", "paused", "failed"}
  /\ shown \in Messages \cup {NoMessage}

\* However stop() meets fetches, plays and late events: what can be heard belongs
\* to the current generation, nothing of an older one is kept, and the flag that
\* lets nobody else read is up exactly while the current coroutine is at work.
StaleIsSilent ==
  /\ \A u \in urls : u[1] = generation
  /\ processing <=> reader[generation].at # "gone"
  /\ sound \in {"playing", "paused", "ended"} => source[1] = generation

\* useHostSpeech.ts, line 102: stop() disables an old coroutine at once.  It does
\* not: woken by the first sentence of the next generation that ends, it clears
\* what the page shows of it.
ShownIsRead ==
  reader[generation].at \in {"buffering", "playing"} => shown = reader[generation].message

=============================================================================
