----------------------------- MODULE HostSpeech -----------------------------
(***************************************************************************)
(* The spoken narration of one room, as the server gives it: a request for *)
(* a sentence is admitted, answered from a cache of limited size, joined   *)
(* to the call that is already being made for the same sentence and voice, *)
(* or becomes a call of the provider itself (app/service/host_speech.py,   *)
(* app/controller/v1/host_speech.py).                                      *)
(*                                                                         *)
(* One process serves all requests, and the lock is only held between two  *)
(* awaits: what lies between them is one step.                             *)
(***************************************************************************)
EXTENDS Naturals, Sequences, FiniteSets

CONSTANTS Requests, Sentences, Voices, NoOne,
          AskedBy,       \* [Requests -> the player]
          SizeOf,        \* [Sentences -> Nat], the bytes of the audio
          CacheBytes, CacheTtl,
          ListenerLimit, \* requests of one player in a window
          MissLimit,     \* calls of the provider for the room in a window
          RateWindow, Concurrency,
          MaxClock       \* bound on the clock (model checking)

ASSUME SpeechAssumption ==
  SizeOf \in [Sentences -> Nat] /\ CacheBytes \in Nat /\ CacheTtl \in Nat

VARIABLES asking,    \* where each request is
          audio,     \* the cache, least recently used first
          bytes,     \* what the cache counts of itself
          inflight,  \* key -> the request that makes the call
          line,      \* requests before the semaphore
          asked,     \* player -> the times of its requests in the window
          missed,    \* the times of the room's calls in the window
          voice,     \* the voice the host chose
          clock

speechVars == <<asking, audio, bytes, inflight, line, asked, missed, voice, clock>>

Unasked == [at |-> "unasked", key |-> <<NoOne, NoOne>>]
Listeners == {AskedBy[r] : r \in Requests}

SpeechInit ==
  /\ asking = [r \in Requests |-> Unasked]
  /\ audio = <<>> /\ bytes = 0
  /\ inflight = [k \in {} |-> NoOne] /\ line = <<>>
  /\ asked = [l \in Listeners |-> <<>>] /\ missed = <<>>
  /\ voice \in Voices /\ clock = 0

-----------------------------------------------------------------------------
\* get_host_speech_sentence finds the narration and reads the voice; the voice
\* may be another one when the request goes on.
Ask(r, s) ==
  /\ asking[r].at = "unasked"
  /\ asking' = [asking EXCEPT ![r] = [at |-> "read", key |-> <<s, voice>>]]
  /\ UNCHANGED <<audio, bytes, inflight, line, asked, missed, voice, clock>>

\* update_host_speech_settings, by the host.
ChooseVoice(v) ==
  /\ voice # v /\ voice' = v
  /\ UNCHANGED <<asking, audio, bytes, inflight, line, asked, missed, clock>>

\* _WindowRateLimiter.check: what is older than the window is forgotten.
InWindow(times) == SelectSeq(times, LAMBDA t : t + RateWindow > clock)

\* _evict_expired: of what the cache holds, what has not expired.
Fresh ==
  LET kept[n \in 0..Len(audio)] ==
        IF n = 0 THEN <<>>
        ELSE IF audio[n].expires > clock THEN Append(kept[n - 1], audio[n]) ELSE kept[n - 1]
  IN  kept[Len(audio)]

Size(entries) ==
  LET sum[n \in 0..Len(entries)] ==
        IF n = 0 THEN 0 ELSE sum[n - 1] + SizeOf[entries[n].key[1]]
  IN  sum[Len(entries)]

\* Where the entry of a key is, and the others (OrderedDict.pop).
Held(entries, key) == {i \in DOMAIN entries : entries[i].key = key}

PlaceOf(entries, key) == CHOOSE i \in Held(entries, key) : TRUE

Without(entries, key) ==
  IF Held(entries, key) = {} THEN entries
  ELSE SubSeq(entries, 1, PlaceOf(entries, key) - 1)
       \o SubSeq(entries, PlaceOf(entries, key) + 1, Len(entries))

\* OrderedDict.move_to_end: of an entry that was used.
MovedToEnd(entries, key) ==
  IF Held(entries, key) = {} THEN entries
  ELSE Append(Without(entries, key), entries[PlaceOf(entries, key)])

\* A mutant: only who found the line empty joins the call that is being made.
IsInflightAlone(key) == key \in DOMAIN inflight /\ line = <<>>

IsInflight(key) == key \in DOMAIN inflight

\* synthesize up to the semaphore.  A player's requests all count, the room's
\* only when nobody has the sentence; what expired is evicted on the way.
Admit(r) ==
  LET key   == asking[r].key
      by    == AskedBy[r]
      times == InWindow(asked[by])
      hit   == Held(Fresh, key) # {}
      Put(at) == asking' = [asking EXCEPT ![r].at = at]
  IN  /\ asking[r].at = "read"
      /\ UNCHANGED <<voice, clock>>
      /\ IF Len(times) >= ListenerLimit
         THEN /\ Put("refused") /\ asked' = [asked EXCEPT ![by] = times]
              /\ UNCHANGED <<audio, bytes, inflight, line, missed>>
         ELSE /\ asked' = [asked EXCEPT ![by] = Append(times, clock)]
              /\ bytes' = bytes - (Size(audio) - Size(Fresh))
              /\ audio' = MovedToEnd(Fresh, key)
              /\ CASE hit -> Put("answered") /\ UNCHANGED <<inflight, line, missed>>
                   [] ~hit /\ IsInflight(key) ->
                        Put("waiting") /\ UNCHANGED <<inflight, line, missed>>
                   [] ~hit /\ ~IsInflight(key) /\ Len(InWindow(missed)) >= MissLimit ->
                        /\ Put("refused") /\ missed' = InWindow(missed)
                        /\ UNCHANGED <<inflight, line>>
                   [] OTHER ->
                        /\ Put("queued") /\ missed' = Append(InWindow(missed), clock)
                        /\ inflight' = [k \in DOMAIN inflight \cup {key} |->
                                          IF k = key THEN r ELSE inflight[k]]
                        /\ line' = Append(line, r)

\* The semaphore, first come first served.
CallProvider(r) ==
  /\ line # <<>> /\ Head(line) = r
  /\ Cardinality({q \in Requests : asking[q].at = "calling"}) < Concurrency
  /\ asking' = [asking EXCEPT ![r].at = "calling"] /\ line' = Tail(line)
  /\ UNCHANGED <<audio, bytes, inflight, asked, missed, voice, clock>>

\* _store: nothing larger than the cache; the least recently used give way.
FirstToStay(entries) ==
  CHOOSE i \in 1..Len(entries) + 1 :
    /\ Size(SubSeq(entries, i, Len(entries))) <= CacheBytes
    /\ \A j \in 1..i - 1 : Size(SubSeq(entries, j, Len(entries))) > CacheBytes

Stored(key) ==
  IF 0 \in {CacheTtl, CacheBytes} \/ SizeOf[key[1]] > CacheBytes THEN audio
  ELSE LET all == Append(Without(audio, key), [key |-> key, expires |-> clock + CacheTtl])
       IN  SubSeq(all, FirstToStay(all), Len(all))

\* Everybody who waits for the call has its result, or its failure; the next
\* request for the sentence finds no call.
Settle(r, how) ==
  LET key == asking[r].key
  IN  /\ asking[r].at = "calling"
      /\ asking' = [q \in Requests |->
                      IF q = r \/ (asking[q].at = "waiting" /\ asking[q].key = key)
                      THEN [asking[q] EXCEPT !.at = how] ELSE asking[q]]
      /\ inflight' = [k \in DOMAIN inflight \ {key} |-> inflight[k]]

Answer(r) ==
  /\ Settle(r, "answered")
  /\ audio' = Stored(asking[r].key)
  /\ bytes' = bytes - Size(audio) + Size(audio')
  /\ UNCHANGED <<line, asked, missed, voice, clock>>

\* The provider refused, broke off or took too long.
FailCall(r) ==
  /\ Settle(r, "failed")
  /\ UNCHANGED <<audio, bytes, line, asked, missed, voice, clock>>

ClockTick ==
  /\ clock < MaxClock /\ clock' = clock + 1
  /\ UNCHANGED <<asking, audio, bytes, inflight, line, asked, missed, voice>>

SpeechNext ==
  \/ \E r \in Requests, s \in Sentences : Ask(r, s)
  \/ \E v \in Voices : ChooseVoice(v)
  \/ \E r \in Requests : Admit(r) \/ CallProvider(r) \/ Answer(r) \/ FailCall(r)
  \/ ClockTick

SpeechSpec == SpeechInit /\ [][SpeechNext]_speechVars

-----------------------------------------------------------------------------
Key == (Sentences \cup {NoOne}) \X (Voices \cup {NoOne})

Asking == [at : {"unasked", "read", "waiting", "queued", "calling", "answered", "refused", "failed"},
           key : Key]

SpeechTypeOK ==
  /\ asking \in [Requests -> Asking]
  /\ inflight \in [DOMAIN inflight -> Requests] /\ DOMAIN inflight \subseteq Key
  /\ line \in Seq(Requests)
  /\ voice \in Voices

Buying == {"queued", "calling"}

\* However requests, voices and expiry interleave: no sentence is bought twice at
\* once, and who waits waits for a call that is being made.
CallsAreShared ==
  /\ \A r, q \in Requests : r # q /\ {asking[r].at, asking[q].at} \subseteq Buying
                            => asking[r].key # asking[q].key
  /\ \A r \in Requests : asking[r].at = "waiting" =>
        asking[r].key \in DOMAIN inflight /\ asking[inflight[asking[r].key]].at \in Buying

\* And the cache knows what it holds, holds no sentence twice and never more than it
\* may.
BoughtOnce ==
  /\ CallsAreShared
  /\ bytes = Size(audio) /\ bytes <= CacheBytes
  /\ \A i, j \in DOMAIN audio : i # j => audio[i].key # audio[j].key

=============================================================================
