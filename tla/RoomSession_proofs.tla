------------------------- MODULE RoomSession_proofs -------------------------
(***************************************************************************)
(* Proofs about RoomSession, for any players, items, drafts and workers.   *)
(* The argument: every write of the session moves agenda_state_version, so *)
(* a writer whose WHERE matches has read the session as it is; what it     *)
(* tested of it still holds when it writes.                                *)
(***************************************************************************)
EXTENDS RoomSession, TLAPS

\* The steps at which a transaction remembers the session it has read.
Reading == {"engine", "engine2", "end", "end2", "move", "import", "ending", "ending2"}

\* What a transaction knows: its session is an older one or the current one,
\* and what it tested when it read is true of the session it has read.
JobKnows(w) ==
  LET j == job[w] IN
  /\ j.step \in Reading =>
       /\ j.seen.agenda <= session.agenda
       /\ j.seen.agenda = session.agenda => j.seen = session
  /\ j.step \in {"engine", "engine2"} => j.seen.state.phase = "playing"
  /\ j.step \in {"confirm", "ending", "ending2"} => draft[j.draft].status # "none"
  /\ j.step \in {"ending", "ending2"} =>
       /\ draft[j.draft].revision = j.seen.version
       /\ j.seen.agenda = session.agenda => ~check
  /\ j.step = "ending2" => sessionLock = w /\ j.seen = session

\* A game that plays has no ending, and only an ending is logged as one.
EndingIsLogged ==
  /\ session.state.phase = "playing" => session.state.ending = None
  /\ session.state.ending # None => draft[session.state.ending].status # "none"
  /\ \A e \in events : e.kind = "ending" => session.state.ending # None

RowsAreRight ==
  /\ EndingIsLogged
  /\ EndedTogether
  /\ EventsAreTheRevisions
  /\ CustodyIsTheLog
  /\ EndsOnWhatWasRead

IInv ==
  /\ TypeOK
  /\ \A w \in Workers : JobKnows(w)
  /\ RowsAreRight

-----------------------------------------------------------------------------
\* What a job's step says of its other fields.
LEMMA JobFields ==
  ASSUME NEW j \in Job
  PROVE  /\ j.step \in Reading => j.seen \in Session
         /\ j.step \in {"engine", "engine2"} => j.effect \in Effects
         /\ j.step \in {"move", "import"} => j.item \in Items /\ j.to \in Players \cup {Floor}
         /\ j.step \in {"confirm", "ending", "ending2"} => j.draft \in Drafts
         /\ j.step = "confirm" => j.quoted \in BOOLEAN
  BY DEF Job, Reading

\* The second step of a transaction of two updates.
LEMMA NextStep ==
  ASSUME NEW j \in Job
  PROVE  /\ j.step = "engine" =>
              [j EXCEPT !.step = "engine2"] \in Job /\ [j EXCEPT !.step = "engine2"].seen = j.seen
         /\ j.step = "end" =>
              [j EXCEPT !.step = "end2"] \in Job /\ [j EXCEPT !.step = "end2"].seen = j.seen
         /\ j.step = "ending" =>
              /\ [j EXCEPT !.step = "ending2"] \in Job
              /\ [j EXCEPT !.step = "ending2"].seen = j.seen
              /\ [j EXCEPT !.step = "ending2"].draft = j.draft
  BY DEF Job

LEMMA InitIInv == Init => IInv
  <1> SUFFICES ASSUME Init PROVE IInv
    OBVIOUS
  <1> USE DEF Init
  <1>1. TypeOK
    BY NoneAssumption, HolderAssumption, ImportedAssumption
    DEF TypeOK, EndingDraft, ImportDraft, Session, State, Holders, StartHolder, Job, Idle
  <1>2. \A w \in Workers : JobKnows(w)
    BY DEF JobKnows, Idle, Reading
  <1>3. EndingIsLogged /\ EndedTogether /\ EventsAreTheRevisions /\ EndsOnWhatWasRead
    BY DEF EndingIsLogged, EndedTogether, EventsAreTheRevisions, EndsOnWhatWasRead
  <1>4. CustodyIsTheLog
    BY DEF CustodyIsTheLog, HolderAt, MovesUpTo
  <1>5. QED
    BY <1>1, <1>2, <1>3, <1>4 DEF IInv, RowsAreRight

-----------------------------------------------------------------------------
\* Every event is of a revision up to the current one.
LEMMA EventsOfThePast ==
  ASSUME TypeOK, EventsAreTheRevisions, NEW e \in events
  PROVE  e \in Event /\ e.seq \in Nat /\ e.seq <= session.version
  <1>1. e \in Event /\ session.version \in Nat
    BY DEF TypeOK, Session
  <1>2. e.seq \in 1..session.version
    BY DEF EventsAreTheRevisions
  <1>3. QED
    BY <1>1, <1>2

\* The next event puts its own item where it says and leaves the past alone.
LEMMA LogMovesOneItem ==
  ASSUME TypeOK, EventsAreTheRevisions,
         NEW kind, NEW item, NEW from, NEW to,
         Log(session, kind, item, from, to),
         NEW i
  PROVE  /\ \A n \in Nat : n <= session.version => HolderAt(i, n)' = HolderAt(i, n)
         /\ \A n \in Nat : n = session.version + 1 =>
              HolderAt(i, n)' = IF item = i THEN to ELSE HolderAt(i, session.version)
  <1> DEFINE last == [seq |-> session.version + 1, kind |-> kind, item |-> item,
                      from |-> from, to |-> to]
  <1>1. events' = events \cup {last} /\ session.version \in Nat
    BY DEF Log, TypeOK, Session
  <1>2. \A e \in events : e.seq \in Nat /\ e.seq <= session.version
    BY EventsOfThePast
  <1>3. ASSUME NEW n \in Nat, n <= session.version
        PROVE  HolderAt(i, n)' = HolderAt(i, n)
    <2>1. last.seq > n
      BY <1>1, <1>3
    <2>2. MovesUpTo(i, n)' = MovesUpTo(i, n)
      BY <1>1, <2>1, <1>3 DEF MovesUpTo
    <2>3. QED
      BY <2>2 DEF HolderAt
  <1>4. ASSUME NEW n \in Nat, n = session.version + 1
        PROVE  HolderAt(i, n)' = IF item = i THEN to ELSE HolderAt(i, session.version)
    <2>1. CASE item # i
      <3>1. MovesUpTo(i, n)' = MovesUpTo(i, session.version)
        BY <1>1, <1>2, <1>4, <2>1 DEF MovesUpTo
      <3>2. QED
        BY <3>1, <2>1 DEF HolderAt
    <2>2. CASE item = i
      <3> DEFINE all == {e \in events' : e.item = i /\ e.seq <= n}
      <3>1. last \in all /\ last.seq = n /\ last.to = to
        BY <1>1, <1>4, <2>2
      <3>2. \A e \in all : e.seq <= last.seq /\ (e.seq >= last.seq => e = last)
        BY <1>1, <1>2, <1>4, <3>1
      <3>3. (CHOOSE e \in all : \A f \in all : f.seq <= e.seq) = last
        <4> HIDE DEF all, last
        <4>1. \A e \in all : (\A f \in all : f.seq <= e.seq) => e = last
          BY <3>1, <3>2
        <4>2. \A f \in all : f.seq <= last.seq
          BY <3>2
        <4>3. QED
          BY <3>1, <4>1, <4>2
      <3>4. HolderAt(i, n)' = IF all = {} THEN StartHolder[i]
              ELSE (CHOOSE e \in all : \A f \in all : f.seq <= e.seq).to
        BY DEF HolderAt, MovesUpTo
      <3>5. QED
        BY <3>1, <3>3, <3>4, <2>2
    <2>3. QED
      BY <2>1, <2>2
  <1>5. QED
    BY <1>3, <1>4

\* A write of the current session that logs one event, of the item that it
\* moved if it moved one, keeps the log complete and the custody true.
LEMMA LoggedWrite ==
  ASSUME TypeOK, EventsAreTheRevisions, CustodyIsTheLog,
         NEW kind, NEW item, NEW from, NEW to,
         Log(session, kind, item, from, to),
         session'.version = session.version + 1,
         \A i \in Items : session'.state.holder[i] =
                            IF item = i THEN to ELSE session.state.holder[i],
         kind = "item" => item \in Items /\ from = session.state.holder[item]
  PROVE  EventsAreTheRevisions' /\ CustodyIsTheLog'
  <1> DEFINE last == [seq |-> session.version + 1, kind |-> kind, item |-> item,
                      from |-> from, to |-> to]
  <1>1. events' = events \cup {last} /\ session.version \in Nat
    BY DEF Log, TypeOK, Session
  <1>2. \A e \in events : e.seq \in 1..session.version
    BY DEF EventsAreTheRevisions
  <1>3. EventsAreTheRevisions'
    <2>1. {e.seq : e \in events} = 1..session.version
      BY DEF EventsAreTheRevisions
    <2>2. {e.seq : e \in events'} = {e.seq : e \in events} \cup {session.version + 1}
      <3>1. last.seq = session.version + 1
        OBVIOUS
      <3>2. QED
        <4> HIDE DEF last
        <4>1. QED
          BY <1>1, <3>1
    <2>3. {e.seq : e \in events'} = 1..session'.version
      BY <1>1, <2>1, <2>2
    <2>4. ASSUME NEW e \in events', NEW f \in events', e.seq = f.seq PROVE e = f
      BY <1>1, <1>2, <2>4 DEF EventsAreTheRevisions
    <2>5. QED
      BY <2>3, <2>4 DEF EventsAreTheRevisions
  <1>4. \A i : \A n \in Nat :
          /\ n <= session.version => HolderAt(i, n)' = HolderAt(i, n)
          /\ n = session.version + 1 =>
               HolderAt(i, n)' = IF item = i THEN to ELSE HolderAt(i, session.version)
    BY LogMovesOneItem
  <1>5. ASSUME NEW i \in Items
        PROVE  session'.state.holder[i] = HolderAt(i, session.version)'
    <2>1. \A n \in Nat : n = session.version + 1 =>
            HolderAt(i, n)' = IF item = i THEN to ELSE HolderAt(i, session.version)
      BY <1>4
    <2>2. PICK n \in Nat : n = session'.version
      BY <1>1
    <2>3. HolderAt(i, session.version)' = HolderAt(i, n)'
      BY <2>2 DEF HolderAt, MovesUpTo
    <2>4. HolderAt(i, n)' = IF item = i THEN to ELSE HolderAt(i, session.version)
      BY <2>1, <2>2
    <2>5. QED
      BY <2>3, <2>4 DEF CustodyIsTheLog
  <1>6. ASSUME NEW e \in events', e.kind = "item"
        PROVE  e.from = HolderAt(e.item, e.seq - 1)'
    <2>1. CASE e = last
      <3>1. e.seq - 1 = session.version /\ e.item = item /\ e.from = from
        BY <1>1, <2>1
      <3>2. HolderAt(item, session.version) = session.state.holder[item]
        BY <1>6, <2>1 DEF CustodyIsTheLog
      <3>3. e.from = HolderAt(e.item, e.seq - 1)
        BY <1>6, <2>1, <3>1, <3>2
      <3>4. QED
        BY <1>1, <1>4, <3>1, <3>3
    <2>2. CASE e \in events
      <3>1. e.seq - 1 \in Nat /\ e.seq - 1 <= session.version
        BY <1>1, <1>2, <2>2
      <3>2. e.from = HolderAt(e.item, e.seq - 1)
        BY <1>6, <2>2 DEF CustodyIsTheLog
      <3>3. QED
        BY <1>4, <3>1, <3>2
    <2>3. QED
      BY <1>1, <2>1, <2>2
  <1>7. QED
    BY <1>3, <1>5, <1>6 DEF CustodyIsTheLog

-----------------------------------------------------------------------------
\* A job of a worker in its place.
LEMMA BecomeTyped ==
  ASSUME TypeOK, NEW w \in Workers, NEW j \in Job, Become(w, j)
  PROVE  job' \in [Workers -> Job]
  BY DEF TypeOK, Become

LEMMA DoneTyped ==
  ASSUME TypeOK, NEW w \in Workers, Done(w)
  PROVE  /\ job' \in [Workers -> Job]
         /\ roomLock' \in Workers \cup {None} /\ sessionLock' \in Workers \cup {None}
  BY DEF TypeOK, Done, Become, Job, Idle

\* The session as it is written.
LEMMA WriteTyped ==
  ASSUME NEW seen \in Session, NEW state \in State, NEW n \in {0, 1},
         WriteSession(seen, state, n)
  PROVE  session' \in Session
  BY DEF WriteSession, Session

LEMMA LogTyped ==
  ASSUME TypeOK, NEW seen \in Session, NEW kind \in {"action", "item", "ending"},
         NEW item \in Items \cup {None}, NEW from \in Holders, NEW to \in Holders,
         Log(seen, kind, item, from, to)
  PROVE  events' \subseteq Event
  BY DEF TypeOK, Log, Event, Session

\* Reads and locks leave the rows alone.
LEMMA QuietTyped ==
  ASSUME TypeOK, UNCHANGED rows, NEW w \in Workers, NEW j \in Job, Become(w, j),
         roomLock' \in Workers \cup {None}, sessionLock' \in Workers \cup {None}
  PROVE  TypeOK'
  BY BecomeTyped DEF TypeOK, rows

LEMMA EngineTyped ==
  ASSUME TypeOK, NEW w \in Workers, Engine(w)
  PROVE  TypeOK'
  <1>0. job[w] \in Job /\ session \in Session /\ w \in Workers \cup {None}
    BY DEF TypeOK
  <1>1. CASE EngineRead(w)
    <2>1. PICK e \in Effects :
            Become(w, [step |-> "engine", seen |-> session, effect |-> e])
      BY <1>1 DEF EngineRead
    <2>2. [step |-> "engine", seen |-> session, effect |-> e] \in Job
      BY <1>0 DEF Job
    <2>3. UNCHANGED rows /\ roomLock' \in Workers \cup {None}
            /\ sessionLock' \in Workers \cup {None}
      BY <1>1 DEF EngineRead, TypeOK
    <2>4. QED
      BY <2>1, <2>2, <2>3, QuietTyped
  <1>2. CASE EngineRoom(w)
    <2>1. [job[w] EXCEPT !.step = "engine2"] \in Job
      BY <1>0, <1>2, NextStep DEF EngineRoom
    <2>2. /\ UNCHANGED rows /\ roomLock' \in Workers \cup {None}
          /\ sessionLock' \in Workers \cup {None}
          /\ Become(w, [job[w] EXCEPT !.step = "engine2"])
      BY <1>0, <1>2 DEF EngineRoom, LockRoom, TypeOK
    <2>3. QED
      BY <2>1, <2>2, QuietTyped
  <1>3. CASE EngineCommit(w)
    <2>1. job[w].seen \in Session /\ job[w].effect \in Effects
      BY <1>0, <1>3, JobFields DEF EngineCommit, Reading
    <2>2. After(job[w].seen.state, job[w].effect) \in State
      BY <2>1 DEF After, Session, State
    <2>3. session' \in Session
      BY <1>3, <2>1, <2>2, WriteTyped DEF EngineCommit
    <2>4. events' \subseteq Event
      BY <1>3, <2>1, LogTyped DEF EngineCommit, Holders
    <2>5. QED
      BY <1>3, <2>3, <2>4, DoneTyped DEF EngineCommit, TypeOK
  <1>4. QED
    BY <1>1, <1>2, <1>3 DEF Engine

LEMMA HostTyped ==
  ASSUME TypeOK, NEW w \in Workers, Host(w)
  PROVE  TypeOK'
  <1>0. job[w] \in Job /\ session \in Session /\ w \in Workers \cup {None}
    BY DEF TypeOK
  <1>1. CASE SuspendRead(w) \/ ResumeRead(w)
    <2>1. PICK j \in {[step |-> "suspend"], [step |-> "resume"]} : Become(w, j)
      BY <1>1 DEF SuspendRead, ResumeRead
    <2>2. j \in Job
      BY DEF Job
    <2>3. UNCHANGED rows /\ roomLock' \in Workers \cup {None}
            /\ sessionLock' \in Workers \cup {None}
      BY <1>1 DEF SuspendRead, ResumeRead, TypeOK
    <2>4. QED
      BY <2>1, <2>2, <2>3, QuietTyped
  <1>2. CASE Suspend(w) \/ Resume(w)
    BY <1>2, DoneTyped DEF Suspend, Resume, ChangePhase, TypeOK
  <1>3. CASE EndRead(w)
    <2>1. [step |-> "end", seen |-> session] \in Job
      BY <1>0 DEF Job
    <2>2. UNCHANGED rows /\ roomLock' \in Workers \cup {None}
            /\ sessionLock' \in Workers \cup {None}
      BY <1>3 DEF EndRead, TypeOK
    <2>3. QED
      BY <1>3, <2>1, <2>2, QuietTyped DEF EndRead
  <1>4. CASE EndRoom(w)
    <2>1. [job[w] EXCEPT !.step = "end2"] \in Job
      BY <1>0, <1>4, NextStep DEF EndRoom
    <2>2. /\ UNCHANGED rows /\ roomLock' \in Workers \cup {None}
          /\ sessionLock' \in Workers \cup {None}
          /\ Become(w, [job[w] EXCEPT !.step = "end2"])
      BY <1>0, <1>4 DEF EndRoom, LockRoom, TypeOK
    <2>3. QED
      BY <2>1, <2>2, QuietTyped
  <1>5. CASE EndCommit(w)
    <2>1. job[w].seen \in Session
      BY <1>0, <1>5, JobFields DEF EndCommit, Reading
    <2>2. [phase |-> "ended", open |-> job[w].seen.state.open,
           ending |-> job[w].seen.state.ending, holder |-> job[w].seen.state.holder] \in State
      BY <2>1 DEF Session, State
    <2>3. session' \in Session
      BY <1>5, <2>1, <2>2, WriteTyped DEF EndCommit
    <2>4. QED
      BY <1>5, <2>3, DoneTyped DEF EndCommit, TypeOK
  <1>6. QED
    BY <1>1, <1>2, <1>3, <1>4, <1>5 DEF Host

LEMMA InventoryTyped ==
  ASSUME TypeOK, NEW w \in Workers, Inventory(w)
  PROVE  TypeOK'
  <1>0. job[w] \in Job /\ session \in Session
    BY DEF TypeOK
  <1>1. CASE MoveRead(w)
    <2>1. PICK i \in Items, to \in Players \cup {Floor} :
            Become(w, [step |-> "move", seen |-> session, item |-> i, to |-> to])
      BY <1>1 DEF MoveRead
    <2>2. [step |-> "move", seen |-> session, item |-> i, to |-> to] \in Job
      BY <1>0 DEF Job
    <2>3. UNCHANGED rows /\ roomLock' \in Workers \cup {None}
            /\ sessionLock' \in Workers \cup {None}
      BY <1>1 DEF MoveRead, TypeOK
    <2>4. QED
      BY <2>1, <2>2, <2>3, QuietTyped
  <1>2. CASE ImportRead(w)
    <2>1. PICK i \in Imported :
            /\ import[i].status = "drafted"
            /\ Become(w, [step |-> "import", seen |-> session, item |-> i,
                          to |-> import[i].by])
      BY <1>2 DEF ImportRead
    <2>2. i \in Items /\ import[i].by \in Players \cup {Floor}
      BY <2>1, ImportedAssumption DEF TypeOK
    <2>3. [step |-> "import", seen |-> session, item |-> i, to |-> import[i].by] \in Job
      BY <1>0, <2>2 DEF Job
    <2>4. UNCHANGED rows /\ roomLock' \in Workers \cup {None}
            /\ sessionLock' \in Workers \cup {None}
      BY <1>2 DEF ImportRead, TypeOK
    <2>5. QED
      BY <2>1, <2>3, <2>4, QuietTyped
  <1>3. CASE MoveCommit(w) \/ ImportCommit(w)
    <2> DEFINE seen == job[w].seen
               item == job[w].item
               holder == [seen.state.holder EXCEPT ![item] = job[w].to]
    <2>1. seen \in Session /\ item \in Items /\ job[w].to \in Players \cup {Floor}
      BY <1>0, <1>3, JobFields DEF MoveCommit, ImportCommit, Reading
    <2>2. seen.state.holder \in [Items -> Holders] /\ job[w].to \in Holders
      BY <2>1 DEF Session, State, Holders
    <2>3. holder \in [Items -> Holders]
      BY <2>1, <2>2
    <2>4. [phase |-> seen.state.phase, ending |-> seen.state.ending,
           open |-> seen.state.open, holder |-> holder] \in State
      BY <2>1, <2>3 DEF Session, State
    <2>5. session' \in Session
      BY <1>3, <2>1, <2>4, WriteTyped DEF MoveCommit, ImportCommit, ItemCommit
    <2>6. events' \subseteq Event
      BY <1>3, <2>1, <2>2, LogTyped DEF MoveCommit, ImportCommit, ItemCommit
    <2>7. /\ import' \in [Imported -> [status : {"none", "drafted", "confirmed"},
                                       revision : Nat, by : Players \cup {None}]]
          /\ \A i \in Imported : import'[i].status = "drafted" => import'[i].by \in Players
      <3>1. CASE MoveCommit(w)
        BY <3>1 DEF MoveCommit, TypeOK, ImportDraft
      <3>2. CASE ImportCommit(w)
        BY <3>2 DEF ImportCommit, TypeOK, ImportDraft
      <3>3. QED
        BY <1>3, <3>1, <3>2
    <2>8. QED
      BY <1>3, <2>5, <2>6, <2>7, DoneTyped
      DEF MoveCommit, ImportCommit, ItemCommit, TypeOK, ImportDraft
  <1>4. QED
    BY <1>1, <1>2, <1>3 DEF Inventory

LEMMA EndingTyped ==
  ASSUME TypeOK, NEW w \in Workers, Ending(w)
  PROVE  TypeOK'
  <1>0. job[w] \in Job /\ session \in Session /\ w \in Workers \cup {None}
    BY DEF TypeOK
  <1>1. CASE ConfirmRead(w)
    <2>1. PICK d \in Drafts, quoted \in BOOLEAN :
            Become(w, [step |-> "confirm", draft |-> d, quoted |-> quoted])
      BY <1>1 DEF ConfirmRead
    <2>2. [step |-> "confirm", draft |-> d, quoted |-> quoted] \in Job
      BY DEF Job
    <2>3. UNCHANGED rows /\ roomLock' \in Workers \cup {None}
            /\ sessionLock' \in Workers \cup {None}
      BY <1>1 DEF ConfirmRead, TypeOK
    <2>4. QED
      BY <2>1, <2>2, <2>3, QuietTyped
  <1>2. CASE ConfirmStale(w)
    BY <1>2, DoneTyped DEF ConfirmStale, TypeOK, EndingDraft
  <1>3. CASE ConfirmCheck(w)
    <2>1. job[w].draft \in Drafts
      BY <1>0, <1>3, JobFields DEF ConfirmCheck
    <2>2. [step |-> "ending", seen |-> session, draft |-> job[w].draft] \in Job
      BY <1>0, <2>1 DEF Job
    <2>3. UNCHANGED rows /\ roomLock' \in Workers \cup {None}
            /\ sessionLock' \in Workers \cup {None}
      BY <1>3 DEF ConfirmCheck, TypeOK
    <2>4. QED
      BY <1>3, <2>2, <2>3, QuietTyped DEF ConfirmCheck
  <1>4. CASE ConfirmSession(w)
    <2>1. [job[w] EXCEPT !.step = "ending2"] \in Job
      BY <1>0, <1>4, NextStep DEF ConfirmSession
    <2>2. /\ UNCHANGED rows /\ roomLock' \in Workers \cup {None}
          /\ sessionLock' \in Workers \cup {None}
          /\ Become(w, [job[w] EXCEPT !.step = "ending2"])
      BY <1>0, <1>4 DEF ConfirmSession, TypeOK
    <2>3. QED
      BY <2>1, <2>2, QuietTyped
  <1>5. CASE ConfirmCommit(w)
    <2> DEFINE seen == job[w].seen
               d == job[w].draft
    <2>1. seen \in Session /\ d \in Drafts
      BY <1>0, <1>5, JobFields DEF ConfirmCommit, Reading
    <2>2. [phase |-> "ended", ending |-> d, open |-> FALSE,
           holder |-> seen.state.holder] \in State
      BY <2>1 DEF Session, State
    <2>3. session' \in Session
      BY <1>5, <2>1, <2>2, WriteTyped DEF ConfirmCommit
    <2>4. events' \subseteq Event
      BY <1>5, <2>1, LogTyped DEF ConfirmCommit, Holders
    <2>5. QED
      BY <1>5, <2>3, <2>4, DoneTyped DEF ConfirmCommit, TypeOK, EndingDraft
  <1>6. QED
    BY <1>1, <1>2, <1>3, <1>4, <1>5 DEF Ending

LEMMA Typed ==
  ASSUME TypeOK, [Next]_vars
  PROVE  TypeOK'
  <1>1. CASE Plan
    BY <1>1 DEF Plan, Reserve, Unreserve, TypeOK
  <1>2. CASE DraftItems
    BY <1>2 DEF DraftItems, CreateImportDraft, TypeOK, ImportDraft, Session
  <1>3. CASE DraftEnding
    BY <1>3 DEF DraftEnding, CreateDraft, TypeOK, EndingDraft, Session
  <1>4. ASSUME NEW w \in Workers, Rollback(w) PROVE TypeOK'
    BY <1>4, DoneTyped DEF Rollback, rows, TypeOK
  <1>5. CASE UNCHANGED vars
    BY <1>5 DEF vars, TypeOK
  <1>6. QED
    BY <1>1, <1>2, <1>3, <1>4, <1>5, EngineTyped, HostTyped, InventoryTyped, EndingTyped
    DEF Next

-----------------------------------------------------------------------------
\* A made draft keeps the revision that it was made of.
DraftsKept ==
  \A d \in Drafts : draft[d].status # "none" =>
    draft'[d].status # "none" /\ draft'[d].revision = draft[d].revision

\* A WHERE that matches has found the session that was read.
LEMMA UnchangedIsSeen ==
  ASSUME IInv, NEW w \in Workers, job[w].step \in Reading, Unchanged(job[w].seen)
  PROVE  job[w].seen = session
  BY DEF IInv, JobKnows, Unchanged

\* What a transaction knows survives the steps of the others: either they leave
\* session and checks alone, or they make the session it has read an old one.
LEMMA OthersUndisturbed ==
  ASSUME IInv, NEW w \in Workers, NEW v \in Workers, v # w, job'[v] = job[v],
         DraftsKept, sessionLock = v => sessionLock' = v,
         \/ session' = session /\ check' = check
         \/ session'.agenda = session.agenda + 1 /\ sessionLock \in {None, w}
  PROVE  JobKnows(v)'
  <1>1. job[v] \in Job /\ session \in Session /\ v # None
    BY NoneAssumption DEF IInv, TypeOK
  <1>2. job[v].step \in Reading => job[v].seen \in Session
    BY <1>1, JobFields
  <1>3. job[v].step \in {"confirm", "ending", "ending2"} => job[v].draft \in Drafts
    BY <1>1, JobFields
  <1>4. JobKnows(v)
    BY DEF IInv
  <1>5. session.agenda \in Nat /\ (job[v].step \in Reading => job[v].seen.agenda \in Nat)
    BY <1>1, <1>2 DEF Session
  <1>6. CASE session' = session /\ check' = check
    BY <1>3, <1>4, <1>6 DEF JobKnows, DraftsKept, Reading
  <1>7. CASE session'.agenda = session.agenda + 1 /\ sessionLock \in {None, w}
    <2>1. job[v].step # "ending2"
      BY <1>1, <1>4, <1>7 DEF JobKnows
    <2>2. job[v].step \in Reading => job[v].seen.agenda < session'.agenda
      BY <1>4, <1>5, <1>7 DEF JobKnows
    <2>3. job[v].step \in Reading =>
            job[v].seen.agenda <= session'.agenda /\ job[v].seen.agenda # session'.agenda
      BY <1>5, <1>7, <2>2
    <2>4. QED
      BY <1>3, <1>4, <2>1, <2>3 DEF JobKnows, DraftsKept, Reading
  <1>8. QED
    BY <1>6, <1>7

\* Steps that leave the two rows, the checks and the log alone.
LEMMA QuietIsRight ==
  ASSUME IInv, UNCHANGED <<room, session, check, events>>, DraftsKept
  PROVE  RowsAreRight'
  <1>1. session.state.ending \in Drafts \cup {None}
    BY DEF IInv, TypeOK, Session, State
  <1>2. EndingIsLogged'
    BY <1>1 DEF IInv, RowsAreRight, EndingIsLogged, DraftsKept
  <1>3. EndedTogether' /\ EventsAreTheRevisions'
    BY DEF IInv, RowsAreRight, EndedTogether, EventsAreTheRevisions
  <1>4. CustodyIsTheLog'
    BY DEF IInv, RowsAreRight, CustodyIsTheLog, HolderAt, MovesUpTo
  <1>5. EndsOnWhatWasRead'
    BY <1>1 DEF IInv, RowsAreRight, EndsOnWhatWasRead, DraftsKept, EndingIsLogged
  <1>6. QED
    BY <1>2, <1>3, <1>4, <1>5 DEF RowsAreRight

\* The same when a worker goes on as j.
LEMMA QuietStep ==
  ASSUME IInv, NEW w \in Workers, NEW j, Become(w, j), JobKnows(w)',
         UNCHANGED <<room, session, check, events>>, DraftsKept,
         \A v \in Workers : v # w /\ sessionLock = v => sessionLock' = v
  PROVE  RowsAreRight' /\ \A v \in Workers : JobKnows(v)'
  <1>1. \A v \in Workers : v # w => job'[v] = job[v]
    BY DEF Become, IInv, TypeOK
  <1>2. \A v \in Workers : v # w => JobKnows(v)'
    BY <1>1, OthersUndisturbed
  <1>3. QED
    BY <1>2, QuietIsRight

\* The end of a transaction: its worker knows nothing more, and no lock of
\* another is released.
LEMMA DoneKnows ==
  ASSUME IInv, NEW w \in Workers, Done(w)
  PROVE  /\ JobKnows(w)' /\ Become(w, Idle)
         /\ \A v \in Workers : v # w /\ sessionLock = v => sessionLock' = v
  <1>1. Become(w, Idle) /\ job'[w] = Idle
    BY DEF Done, Become, IInv, TypeOK
  <1>2. JobKnows(w)'
    BY <1>1 DEF JobKnows, Idle, Reading
  <1>3. QED
    BY <1>1, <1>2 DEF Done

\* A commit that writes the session.
LEMMA WriteStep ==
  ASSUME IInv, NEW w \in Workers, Done(w), DraftsKept,
         session'.agenda = session.agenda + 1, sessionLock \in {None, w}
  PROVE  \A v \in Workers : JobKnows(v)'
  <1>1. \A v \in Workers : v # w => job'[v] = job[v]
    BY DoneKnows DEF Become, IInv, TypeOK
  <1>2. \A v \in Workers : v # w => JobKnows(v)'
    BY <1>1, DoneKnows, OthersUndisturbed
  <1>3. QED
    BY <1>2, DoneKnows

LEMMA EngineRight ==
  ASSUME IInv, NEW w \in Workers, Engine(w)
  PROVE  RowsAreRight' /\ \A v \in Workers : JobKnows(v)'
  <1>0. /\ job[w] \in Job /\ session \in Session /\ job \in [Workers -> Job]
        /\ JobKnows(w) /\ session.agenda \in Nat /\ session.version \in Nat
    BY DEF IInv, TypeOK, Session
  <1>1. CASE EngineRead(w)
    <2>1. PICK e \in Effects :
            Become(w, [step |-> "engine", seen |-> session, effect |-> e])
      BY <1>1 DEF EngineRead
    <2>2. JobKnows(w)'
      BY <1>0, <1>1, <2>1 DEF EngineRead, Become, JobKnows, rows
    <2>3. QED
      BY <1>1, <2>1, <2>2, QuietStep DEF EngineRead, rows, DraftsKept
  <1>2. CASE EngineRoom(w)
    <2> DEFINE j == [job[w] EXCEPT !.step = "engine2"]
    <2>1. Become(w, j) /\ UNCHANGED rows /\ UNCHANGED sessionLock
      BY <1>2 DEF EngineRoom, LockRoom
    <2>2. j.step = "engine2" /\ j.seen = job[w].seen /\ job[w].step = "engine"
      BY <1>0, <1>2, NextStep DEF EngineRoom, Job
    <2>3. job'[w] = j
      BY <1>0, <2>1 DEF Become
    <2>4. JobKnows(w)'
      <3> HIDE DEF j
      <3>1. QED
        BY <1>0, <2>1, <2>2, <2>3 DEF JobKnows, rows, Reading
    <2>5. QED
      BY <2>1, <2>4, QuietStep DEF rows, DraftsKept
  <1>3. CASE EngineCommit(w)
    <2>1. job[w].seen = session
      BY <1>3, UnchangedIsSeen DEF EngineCommit, Reading
    <2>2. session.state.phase = "playing"
      BY <1>0, <1>3, <2>1 DEF EngineCommit, JobKnows
    <2>3. /\ session' = [state |-> After(session.state, job[w].effect),
                         version |-> session.version + 1, agenda |-> session.agenda + 1]
          /\ Log(session, "action", None, None, None)
      BY <1>3, <2>1 DEF EngineCommit, WriteSession
    <2>4. /\ session'.state.phase = "playing"
          /\ session'.state.ending = session.state.ending
          /\ session'.state.holder = session.state.holder
          /\ session'.version = session.version + 1
          /\ session'.agenda = session.agenda + 1
      BY <2>2, <2>3 DEF After
    <2>5. DraftsKept /\ Done(w) /\ sessionLock = None /\ UNCHANGED <<room, draft>>
      BY <1>3 DEF EngineCommit, DraftsKept
    <2>6. \A v \in Workers : JobKnows(v)'
      BY <2>4, <2>5, WriteStep
    <2>7. session.state.ending = None
      BY <2>2 DEF IInv, RowsAreRight, EndingIsLogged
    <2>8. EndingIsLogged'
      BY <2>3, <2>4, <2>7 DEF IInv, RowsAreRight, EndingIsLogged, Log
    <2>9. EndedTogether'
      BY <2>2, <2>4, <2>5 DEF IInv, RowsAreRight, EndedTogether
    <2>10. EventsAreTheRevisions' /\ CustodyIsTheLog'
      BY <2>3, <2>4, NoneAssumption, LoggedWrite DEF IInv, RowsAreRight
    <2>11. EndsOnWhatWasRead'
      BY <2>4, <2>7 DEF EndsOnWhatWasRead
    <2>12. QED
      BY <2>6, <2>8, <2>9, <2>10, <2>11 DEF RowsAreRight
  <1>4. QED
    BY <1>1, <1>2, <1>3 DEF Engine

LEMMA HostRight ==
  ASSUME IInv, NEW w \in Workers, Host(w)
  PROVE  RowsAreRight' /\ \A v \in Workers : JobKnows(v)'
  <1>0. /\ job[w] \in Job /\ session \in Session /\ job \in [Workers -> Job]
        /\ JobKnows(w) /\ session.agenda \in Nat /\ session.version \in Nat
    BY DEF IInv, TypeOK, Session
  <1>1. CASE SuspendRead(w) \/ ResumeRead(w)
    <2>1. PICK j \in {[step |-> "suspend"], [step |-> "resume"]} : Become(w, j)
      BY <1>1 DEF SuspendRead, ResumeRead
    <2>2. JobKnows(w)'
      BY <1>0, <2>1 DEF Become, JobKnows, Reading
    <2>3. QED
      BY <1>1, <2>1, <2>2, QuietStep DEF SuspendRead, ResumeRead, rows, DraftsKept
  <1>2. CASE Suspend(w) \/ Resume(w)
    <2>1. /\ room # "Completed" /\ room' # "Completed" /\ Done(w)
          /\ UNCHANGED <<session, check, draft, events>>
      BY <1>2 DEF Suspend, Resume, ChangePhase
    <2>2. DraftsKept
      BY <2>1 DEF DraftsKept
    <2>3. \A v \in Workers : v # w => job'[v] = job[v]
      BY <1>0, <2>1 DEF Done, Become
    <2>4. \A v \in Workers : v # w => JobKnows(v)'
      BY <2>1, <2>2, <2>3, DoneKnows, OthersUndisturbed
    <2>5. EndedTogether'
      BY <2>1 DEF IInv, RowsAreRight, EndedTogether
    <2>6. EndingIsLogged' /\ EventsAreTheRevisions' /\ EndsOnWhatWasRead'
      BY <2>1 DEF IInv, RowsAreRight, EndingIsLogged, EventsAreTheRevisions, EndsOnWhatWasRead
    <2>7. CustodyIsTheLog'
      BY <2>1 DEF IInv, RowsAreRight, CustodyIsTheLog, HolderAt, MovesUpTo
    <2>8. QED
      BY <2>1, <2>4, <2>5, <2>6, <2>7, DoneKnows DEF RowsAreRight
  <1>3. CASE EndRead(w)
    <2>1. JobKnows(w)'
      BY <1>0, <1>3 DEF EndRead, Become, JobKnows, rows
    <2>2. QED
      BY <1>3, <2>1, QuietStep DEF EndRead, rows, DraftsKept
  <1>4. CASE EndRoom(w)
    <2> DEFINE j == [job[w] EXCEPT !.step = "end2"]
    <2>1. Become(w, j) /\ UNCHANGED rows /\ UNCHANGED sessionLock
      BY <1>4 DEF EndRoom, LockRoom
    <2>2. j.step = "end2" /\ j.seen = job[w].seen /\ job[w].step = "end"
      BY <1>0, <1>4, NextStep DEF EndRoom, Job
    <2>3. job'[w] = j
      BY <1>0, <2>1 DEF Become
    <2>4. JobKnows(w)'
      <3> HIDE DEF j
      <3>1. QED
        BY <1>0, <2>1, <2>2, <2>3 DEF JobKnows, rows, Reading
    <2>5. QED
      BY <2>1, <2>4, QuietStep DEF rows, DraftsKept
  <1>5. CASE EndCommit(w)
    <2>1. job[w].seen = session
      BY <1>5, UnchangedIsSeen DEF EndCommit, Reading
    <2>2. session' = [state |-> [phase |-> "ended", open |-> session.state.open,
                                 ending |-> session.state.ending,
                                 holder |-> session.state.holder],
                      version |-> session.version + 0, agenda |-> session.agenda + 1]
      BY <1>5, <2>1 DEF EndCommit, WriteSession
    <2>3. /\ session'.state.phase = "ended"
          /\ session'.state.ending = session.state.ending
          /\ session'.state.holder = session.state.holder
          /\ session'.version = session.version
          /\ session'.agenda = session.agenda + 1
      BY <1>0, <2>2
    <2>4. /\ DraftsKept /\ Done(w) /\ sessionLock = None /\ room' = "Completed"
          /\ UNCHANGED <<check, draft, events>>
      BY <1>5 DEF EndCommit, DraftsKept
    <2>5. \A v \in Workers : JobKnows(v)'
      BY <2>3, <2>4, WriteStep
    <2>6. EndingIsLogged' /\ EndedTogether' /\ EventsAreTheRevisions' /\ EndsOnWhatWasRead'
      BY <2>3, <2>4 DEF IInv, RowsAreRight, EndingIsLogged, EndedTogether,
         EventsAreTheRevisions, EndsOnWhatWasRead
    <2>7. CustodyIsTheLog'
      BY <2>3, <2>4 DEF IInv, RowsAreRight, CustodyIsTheLog, HolderAt, MovesUpTo
    <2>8. QED
      BY <2>5, <2>6, <2>7 DEF RowsAreRight
  <1>6. QED
    BY <1>1, <1>2, <1>3, <1>4, <1>5 DEF Host

LEMMA InventoryRight ==
  ASSUME IInv, NEW w \in Workers, Inventory(w)
  PROVE  RowsAreRight' /\ \A v \in Workers : JobKnows(v)'
  <1>0. /\ job[w] \in Job /\ session \in Session /\ job \in [Workers -> Job]
        /\ JobKnows(w) /\ session.agenda \in Nat /\ session.version \in Nat
    BY DEF IInv, TypeOK, Session
  <1>1. CASE MoveRead(w) \/ ImportRead(w)
    <2>1. PICK s \in {"move", "import"}, i \in Items, to \in Holders :
            Become(w, [step |-> s, seen |-> session, item |-> i, to |-> to])
      BY <1>1, ImportedAssumption DEF MoveRead, ImportRead, Holders, IInv, TypeOK
    <2>2. UNCHANGED rows /\ UNCHANGED sessionLock
      BY <1>1 DEF MoveRead, ImportRead
    <2>3. JobKnows(w)'
      BY <1>0, <2>1, <2>2 DEF Become, JobKnows, rows
    <2>4. QED
      BY <2>1, <2>2, <2>3, QuietStep DEF rows, DraftsKept
  <1>2. CASE MoveCommit(w) \/ ImportCommit(w)
    <2> DEFINE item == job[w].item
               to == job[w].to
               holder == session.state.holder
    <2>1. ItemCommit(w) /\ job[w].step \in {"move", "import"}
      BY <1>2 DEF MoveCommit, ImportCommit
    <2>2. job[w].seen = session
      BY <2>1, UnchangedIsSeen DEF ItemCommit, Reading
    <2>3. item \in Items /\ holder \in [Items -> Holders]
      BY <1>0, <2>1, JobFields DEF Session, State
    <2>4. /\ session' = [state |-> [phase |-> session.state.phase,
                                    ending |-> session.state.ending,
                                    open |-> session.state.open,
                                    holder |-> [holder EXCEPT ![item] = to]],
                         version |-> session.version + 1, agenda |-> session.agenda + 1]
          /\ Log(session, "item", item, holder[item], to)
      BY <2>1, <2>2 DEF ItemCommit, WriteSession
    <2>5. /\ session'.state.phase = session.state.phase
          /\ session'.state.ending = session.state.ending
          /\ session'.state.holder = [holder EXCEPT ![item] = to]
          /\ session'.version = session.version + 1
          /\ session'.agenda = session.agenda + 1
      BY <2>4
    <2>6. /\ DraftsKept /\ Done(w) /\ sessionLock = None
          /\ UNCHANGED <<room, check, draft>>
      BY <2>1 DEF ItemCommit, DraftsKept
    <2>7. \A v \in Workers : JobKnows(v)'
      BY <2>5, <2>6, WriteStep
    <2>8. \A e : e \in events' /\ e.kind = "ending" => e \in events
      BY <2>4 DEF Log
    <2>9. EndingIsLogged' /\ EndedTogether'
      BY <2>5, <2>6, <2>8 DEF IInv, RowsAreRight, EndingIsLogged, EndedTogether
    <2>10. EventsAreTheRevisions' /\ CustodyIsTheLog'
      <3>1. \A i \in Items : session'.state.holder[i] = IF item = i THEN to ELSE holder[i]
        BY <2>3, <2>5
      <3>2. QED
        BY <2>3, <2>4, <2>5, <3>1, LoggedWrite DEF IInv, RowsAreRight
    <2>11. EndsOnWhatWasRead'
      <3>1. {f \in events' : f.kind = "ending"} = {f \in events : f.kind = "ending"}
        BY <2>4, <2>8 DEF Log
      <3>2. QED
        BY <2>5, <2>6, <3>1 DEF IInv, RowsAreRight, EndsOnWhatWasRead
    <2>12. QED
      BY <2>7, <2>9, <2>10, <2>11 DEF RowsAreRight
  <1>3. QED
    BY <1>1, <1>2 DEF Inventory

LEMMA EndingRight ==
  ASSUME IInv, NEW w \in Workers, Ending(w)
  PROVE  RowsAreRight' /\ \A v \in Workers : JobKnows(v)'
  <1>0. /\ job[w] \in Job /\ session \in Session /\ job \in [Workers -> Job]
        /\ JobKnows(w) /\ session.agenda \in Nat /\ session.version \in Nat
    BY DEF IInv, TypeOK, Session
  <1>1. CASE ConfirmRead(w)
    <2>1. PICK d \in Drafts, quoted \in BOOLEAN :
            /\ draft[d].status = "active"
            /\ Become(w, [step |-> "confirm", draft |-> d, quoted |-> quoted])
      BY <1>1 DEF ConfirmRead
    <2>2. JobKnows(w)'
      BY <1>0, <1>1, <2>1 DEF ConfirmRead, Become, JobKnows, Reading, rows
    <2>3. QED
      BY <1>1, <2>1, <2>2, QuietStep DEF ConfirmRead, rows, DraftsKept
  <1>2. CASE ConfirmStale(w)
    <2>1. DraftsKept
      BY <1>0, <1>2 DEF ConfirmStale, DraftsKept, IInv, TypeOK
    <2>2. QED
      BY <1>2, <2>1, DoneKnows, QuietStep DEF ConfirmStale
  <1>3. CASE ConfirmCheck(w)
    <2> DEFINE j == [step |-> "ending", seen |-> session, draft |-> job[w].draft]
    <2>1. Become(w, j) /\ UNCHANGED rows /\ UNCHANGED sessionLock
      BY <1>3 DEF ConfirmCheck
    <2>2. draft[job[w].draft].revision = session.version /\ ~check
      BY <1>3 DEF ConfirmCheck, NothingPending
    <2>3. draft[job[w].draft].status # "none"
      BY <1>0, <1>3 DEF ConfirmCheck, JobKnows
    <2>4. JobKnows(w)'
      BY <1>0, <2>1, <2>2, <2>3 DEF Become, JobKnows, rows
    <2>5. QED
      BY <2>1, <2>4, QuietStep DEF rows, DraftsKept
  <1>4. CASE ConfirmSession(w)
    <2> DEFINE j == [job[w] EXCEPT !.step = "ending2"]
    <2>1. /\ Become(w, j) /\ UNCHANGED rows /\ sessionLock = None /\ sessionLock' = w
          /\ job[w].step = "ending" /\ Unchanged(job[w].seen)
      BY <1>4 DEF ConfirmSession
    <2>2. j.step = "ending2" /\ j.seen = job[w].seen /\ j.draft = job[w].draft
      BY <1>0, <2>1, NextStep DEF Job
    <2>3. job'[w] = j /\ job[w].seen = session
      BY <1>0, <2>1, UnchangedIsSeen DEF Become, Reading
    <2>4. JobKnows(w)'
      <3> HIDE DEF j
      <3>1. QED
        BY <1>0, <2>1, <2>2, <2>3 DEF JobKnows, rows, Reading
    <2>5. \A v \in Workers : sessionLock # v
      BY <2>1, NoneAssumption
    <2>6. QED
      BY <2>1, <2>4, <2>5, QuietStep DEF rows, DraftsKept
  <1>5. CASE ConfirmCommit(w)
    <2> DEFINE d == job[w].draft
    <2>1. /\ job[w].seen = session /\ sessionLock = w /\ d \in Drafts
          /\ draft[d].revision = session.version /\ draft[d].status # "none" /\ ~check
      BY <1>0, <1>5, JobFields DEF ConfirmCommit, JobKnows
    <2>2. /\ session' = [state |-> [phase |-> "ended", ending |-> d, open |-> FALSE,
                                    holder |-> session.state.holder],
                         version |-> session.version + 1, agenda |-> session.agenda + 1]
          /\ Log(session, "ending", None, None, None)
      BY <1>5, <2>1 DEF ConfirmCommit, WriteSession
    <2>3. /\ session'.state.phase = "ended" /\ session'.state.ending = d
          /\ session'.state.holder = session.state.holder
          /\ session'.version = session.version + 1
          /\ session'.agenda = session.agenda + 1
      BY <2>2
    <2>4. Done(w) /\ room # "Completed" /\ room' = "Completed" /\ UNCHANGED check
      BY <1>5 DEF ConfirmCommit
    <2>5. DraftsKept /\ draft'[d].status # "none" /\ draft'[d].revision = draft[d].revision
      BY <1>5, <2>1 DEF ConfirmCommit, DraftsKept, IInv, TypeOK
    <2>6. \A v \in Workers : JobKnows(v)'
      BY <2>1, <2>3, <2>4, <2>5, WriteStep
    <2>7. d # None
      BY <2>1, NoneAssumption
    <2>8. session.state.ending = None /\ \A e \in events : e.kind # "ending"
      <3>1. session.state.phase # "ended" /\ session.state.phase \in {"playing", "ended"}
        BY <1>0, <2>4 DEF IInv, RowsAreRight, EndedTogether, Session, State
      <3>2. QED
        BY <3>1 DEF IInv, RowsAreRight, EndingIsLogged
    <2>9. EndingIsLogged' /\ EndedTogether'
      BY <2>3, <2>4, <2>5, <2>7 DEF EndingIsLogged, EndedTogether
    <2>10. EventsAreTheRevisions' /\ CustodyIsTheLog'
      BY <2>2, <2>3, NoneAssumption, LoggedWrite DEF IInv, RowsAreRight
    <2>11. EndsOnWhatWasRead'
      <3> DEFINE last == [seq |-> session.version + 1, kind |-> "ending", item |-> None,
                          from |-> None, to |-> None]
      <3>1. {f \in events' : f.kind = "ending"} = {last}
        BY <2>2, <2>8 DEF Log
      <3>2. last.seq = draft'[d].revision + 1
        BY <2>1, <2>5
      <3>3. {e.seq : e \in {f \in events' : f.kind = "ending"}} = {draft'[d].revision + 1}
        <4> HIDE DEF last
        <4>1. QED
          BY <3>1, <3>2
      <3>4. QED
        BY <2>1, <2>3, <2>4, <3>3 DEF EndsOnWhatWasRead
    <2>12. QED
      BY <2>6, <2>9, <2>10, <2>11 DEF RowsAreRight
  <1>6. QED
    BY <1>1, <1>2, <1>3, <1>4, <1>5 DEF Ending

-----------------------------------------------------------------------------
LEMMA IInvIsInductive == IInv /\ [Next]_vars => IInv'
  <1> SUFFICES ASSUME IInv, [Next]_vars
               PROVE  RowsAreRight' /\ \A v \in Workers : JobKnows(v)'
    BY Typed DEF IInv
  <1>0. job \in [Workers -> Job]
    BY DEF IInv, TypeOK
  <1>1. CASE Plan \/ DraftItems \/ DraftEnding \/ UNCHANGED vars
    <2>1. /\ UNCHANGED <<room, session, check, events, job, sessionLock>>
      BY <1>1 DEF Plan, DraftItems, DraftEnding, vars
    <2>2. DraftsKept
      BY <1>1 DEF Plan, DraftItems, DraftEnding, CreateDraft, vars, DraftsKept, IInv, TypeOK
    <2>3. ASSUME NEW v \in Workers PROVE JobKnows(v)'
      <3>1. job[v] \in Job /\ JobKnows(v)
        BY <1>0 DEF IInv
      <3>2. job[v].step \in {"confirm", "ending", "ending2"} => job[v].draft \in Drafts
        BY <3>1, JobFields
      <3>3. QED
        BY <2>1, <2>2, <3>1, <3>2 DEF JobKnows, DraftsKept
    <2>4. QED
      BY <2>1, <2>2, <2>3, QuietIsRight
  <1>2. ASSUME NEW w \in Workers, Rollback(w)
        PROVE  RowsAreRight' /\ \A v \in Workers : JobKnows(v)'
    BY <1>2, DoneKnows, QuietStep DEF Rollback, rows, DraftsKept
  <1>3. QED
    BY <1>1, <1>2, EngineRight, HostRight, InventoryRight, EndingRight DEF Next

\* In every reachable state, each open transaction knows what it tested, and
\* the rows agree with each other and with the log.
THEOREM RoomSessionInvariant == Spec => []IInv
  BY InitIInv, IInvIsInductive, PTL DEF Spec

-----------------------------------------------------------------------------
\* The rows, the drafts and the open transactions keep their shape.
THEOREM RoomSessionTypes == Spec => []TypeOK
  BY RoomSessionInvariant, PTL DEF IInv

\* No order of the host's end, suspends and resumes, confirmed endings, moves
\* of items and engine commits leaves a finished game in a running room, or a
\* running game in a completed room.
THEOREM EndedTogetherTheorem == Spec => []EndedTogether
  <1>1. IInv => EndedTogether
    BY DEF IInv, RowsAreRight
  <1>2. QED
    BY RoomSessionInvariant, <1>1, PTL

\* Every item is where its logged moves put it, each taken from where the one
\* before had left it: no writer of the whole state undoes a move, and no two
\* players get one item.
THEOREM CustodyTheorem == Spec => []CustodyIsTheLog
  <1>1. IInv => CustodyIsTheLog
    BY DEF IInv, RowsAreRight
  <1>2. QED
    BY RoomSessionInvariant, <1>1, PTL

\* One event to each revision, none missing.
THEOREM EventsTheorem == Spec => []EventsAreTheRevisions
  <1>1. IInv => EventsAreTheRevisions
    BY DEF IInv, RowsAreRight
  <1>2. QED
    BY RoomSessionInvariant, <1>1, PTL

\* A game ended by a draft ended on the revision the draft was made of, and
\* with no check left waiting, although draft, test and commit are steps with
\* other transactions between them.
THEOREM EndsOnWhatWasReadTheorem == Spec => []EndsOnWhatWasRead
  <1>1. IInv => EndsOnWhatWasRead
    BY DEF IInv, RowsAreRight
  <1>2. QED
    BY RoomSessionInvariant, <1>1, PTL

\* No step brings an ended game back or changes how it ended: what was read
\* before the end no longer matches, because the end moves the agenda version.
THEOREM EndIsFinalTheorem == Spec => EndIsFinal
  <1> DEFINE Final == session.state.phase = "ended" =>
               /\ session'.state.phase = "ended"
               /\ session'.state.ending = session.state.ending
  <1>1. ASSUME IInv, [Next]_vars PROVE Final
    <2> SUFFICES ASSUME session.state.phase = "ended" PROVE Final
      OBVIOUS
    <2>1. room = "Completed" /\ EndedTogether
      BY <1>1 DEF IInv, RowsAreRight, EndedTogether
    <2>2. ASSUME NEW w \in Workers, EngineCommit(w) PROVE Final
      <3>1. job[w].seen = session
        BY <1>1, <2>2, UnchangedIsSeen DEF EngineCommit, Reading
      <3>2. QED
        BY <2>2, <3>1 DEF EngineCommit, WriteSession, After
    <2>3. ASSUME NEW w \in Workers, EndCommit(w) PROVE Final
      <3>1. job[w].seen = session
        BY <1>1, <2>3, UnchangedIsSeen DEF EndCommit, Reading
      <3>2. QED
        BY <2>3, <3>1 DEF EndCommit, WriteSession
    <2>4. ASSUME NEW w \in Workers, MoveCommit(w) \/ ImportCommit(w) PROVE Final
      <3>1. ItemCommit(w) /\ job[w].step \in Reading
        BY <2>4 DEF MoveCommit, ImportCommit, Reading
      <3>2. job[w].seen = session
        BY <1>1, <3>1, UnchangedIsSeen DEF ItemCommit
      <3>3. QED
        BY <3>1, <3>2 DEF ItemCommit, WriteSession
    <2>5. ASSUME NEW w \in Workers, ConfirmCommit(w) PROVE Final
      BY <2>1, <2>5 DEF ConfirmCommit
    <2>6. ASSUME UNCHANGED session PROVE Final
      BY <2>6
    <2>7. CASE UNCHANGED vars
      BY <2>6, <2>7 DEF vars
    <2>8. CASE Plan \/ DraftItems \/ DraftEnding
      BY <2>6, <2>8 DEF Plan, DraftItems, DraftEnding
    <2>9. ASSUME NEW w \in Workers, Rollback(w) PROVE Final
      BY <2>6, <2>9 DEF Rollback, rows
    <2>10. ASSUME NEW w \in Workers, Engine(w) PROVE Final
      BY <2>2, <2>6, <2>10 DEF Engine, EngineRead, EngineRoom, LockRoom, rows
    <2>11. ASSUME NEW w \in Workers, Host(w) PROVE Final
      BY <2>3, <2>6, <2>11 DEF Host, SuspendRead, Suspend, ResumeRead, Resume,
         ChangePhase, EndRead, EndRoom, LockRoom, rows
    <2>12. ASSUME NEW w \in Workers, Inventory(w) PROVE Final
      BY <2>4, <2>6, <2>12 DEF Inventory, MoveRead, ImportRead, rows
    <2>13. ASSUME NEW w \in Workers, Ending(w) PROVE Final
      BY <2>5, <2>6, <2>13 DEF Ending, ConfirmRead, ConfirmStale, ConfirmCheck,
         ConfirmSession, rows
    <2>14. QED
      BY <1>1, <2>7, <2>8, <2>9, <2>10, <2>11, <2>12, <2>13 DEF Next
  <1>2. QED
    BY RoomSessionInvariant, <1>1, PTL DEF Spec, EndIsFinal
=============================================================================
