------------------------------ MODULE RoomLobby -----------------------------
(***************************************************************************)
(* A room from its creation to the start of its game (service/room.py,     *)
(* service/character.py): accounts join, the host selects a module and     *)
(* starts the story, players draft, edit, roll and complete their cards,   *)
(* from scratch or from the library of their account, and the host begins  *)
(* the game with a copy of every card.                                     *)
(*                                                                         *)
(* A request loads its rows, decides on what it has loaded, and commits    *)
(* the columns it changed: SQLAlchemy writes no others, and checks no      *)
(* version.  Requests of the kinds in Overlapping may find other commits   *)
(* between; the others are one step.                                       *)
(***************************************************************************)
EXTENDS CharacterRules
LOCAL INSTANCE FiniteSetsExt

CONSTANTS Accounts, Host, None,
          MaxPlayers,             \* rooms.max_players
          Modules,                \* published module versions that fit the room
          Attributes, Builds,     \* what a client may send for a card
          Rolls,                  \* SUBSET Attributes: what the dice may give
          Requests,               \* requests in flight at once
          Overlapping,            \* kinds of requests that others may interleave with
          MaxWrites               \* bound: commits of cards

ASSUME LobbyAssumption ==
  /\ Host \in Accounts /\ Rolls \subseteq Attributes /\ MaxWrites \in Nat
  /\ Overlapping \subseteq {"join", "select", "start", "begin", "draft", "card"}

VARIABLES room,      \* the row: phase and module
          players,   \* rows of players: [account, id], the id its order of joining
          cards,     \* accounts -> the card of their player, or None
          library,   \* accounts -> a card of their library, or None
          session,   \* the GameSession: cards copied into actors, or None
          request,   \* what each request has loaded
          writes,
          \* what is remembered of the answers and the dice
          identities, \* what room.join answered: [account, id]
          seeded,     \* drafts answered as made from the library, with what was there
          rolled,     \* accounts -> attributes the server rolled for them
          begun       \* how many game.start were told that they began the game

vars == <<room, players, cards, library, session, request, writes, identities, seeded, rolled, begun>>

Idle == [op |-> "none"]
NewCard == [status |-> "draft", attributes |-> None, build |-> None, method |-> "pointbuy"]

HostRow == [account |-> Host, id |-> 1]

\* create_room: the room and its host's player in one transaction.
Init ==
  /\ room = [phase |-> "Lobby", module |-> None]
  /\ players = {HostRow} /\ cards = [a \in Accounts |-> None]
  /\ library = [a \in Accounts |-> None] /\ session = None
  /\ request = [r \in Requests |-> Idle] /\ writes = 0
  /\ identities = {HostRow} /\ seeded = {} /\ rolled = [a \in Accounts |-> {}] /\ begun = 0

Rows(a) == {p \in players : p.account = a}
IsIn(a) == Rows(a) # {}
Editable == room.phase \in {"Lobby", "Building"}

\* A request of a kind that does not overlap is alone between its load and its commit.
Interruptible(q) == request[q] = Idle \/ request[q].op \in Overlapping
Alone(r) == \A q \in Requests \ {r} : Interruptible(q)
Free(r) == request[r] = Idle /\ Alone(r)
At(r, op) == request[r].op = op /\ Alone(r)
Done(r) == request' = [request EXCEPT ![r] = Idle]

\* The card as a request writes it: the columns it changed over the row as it is.
Write(a, card) == /\ writes < MaxWrites /\ writes' = writes + 1
                  /\ cards' = [cards EXCEPT ![a] = card]

roomVars == <<room, players, session, identities, begun>>
cardVars == <<cards, library, writes, seeded, rolled>>

-----------------------------------------------------------------------------
\* join_room: a member is told who it is; a new one needs the lobby and a seat.
LoadJoin(r, a) ==
  /\ Free(r)
  /\ IF IsIn(a) THEN identities' = identities \cup Rows(a) /\ UNCHANGED request
     ELSE /\ room.phase = "Lobby" /\ Cardinality(players) < MaxPlayers
          /\ request' = [request EXCEPT ![r] = [op |-> "join", account |-> a]]
          /\ UNCHANGED identities
  /\ UNCHANGED <<room, players, session, begun, cardVars>>

\* Mutant of Vacant: no unique constraint on room and account.
VacantAlways(a) == TRUE

\* uq_players_room_user
Vacant(a) == ~IsIn(a)

\* The insert, or the identity of the request that was first.
InsertPlayer(r) ==
  /\ At(r, "join")
  /\ LET a == request[r].account
         row == [account |-> a, id |-> Cardinality(players) + 1]
     IN  IF Vacant(a) THEN /\ players' = players \cup {row}
                           /\ identities' = identities \cup {row}
         ELSE /\ identities' = identities \cup Rows(a)
              /\ UNCHANGED players
  /\ Done(r) /\ UNCHANGED <<room, session, begun, cardVars>>

\* select_module and start_story, of the host in the lobby.
LoadSelect(r, m) ==
  /\ Free(r) /\ room.phase = "Lobby"
  /\ request' = [request EXCEPT ![r] = [op |-> "select", module |-> m]]
  /\ UNCHANGED <<roomVars, cardVars>>

SelectModule(r) ==
  /\ At(r, "select")
  /\ room' = [room EXCEPT !.module = request[r].module]
  /\ Done(r) /\ UNCHANGED <<players, session, identities, begun, cardVars>>

LoadStart(r) ==
  /\ Free(r) /\ room.phase = "Lobby" /\ room.module # None
  /\ request' = [request EXCEPT ![r] = [op |-> "start"]]
  /\ UNCHANGED <<roomVars, cardVars>>

StartStory(r) ==
  /\ At(r, "start")
  /\ room' = [room EXCEPT !.phase = "Building"]
  /\ Done(r) /\ UNCHANGED <<players, session, identities, begun, cardVars>>

-----------------------------------------------------------------------------
\* begin_game: every player has a complete card, of which it keeps a copy.
LoadBegin(r) ==
  /\ Free(r) /\ room.phase = "Building" /\ session = None
  /\ \A p \in players : cards[p.account] # None /\ cards[p.account].status = "complete"
  /\ request' = [request EXCEPT ![r] =
       [op |-> "begin", module |-> room.module,
        actors |-> {[player |-> p, card |-> cards[p.account]] : p \in players}]]
  /\ UNCHANGED <<roomVars, cardVars>>

\* Mutant of MayBegin: the session and the phase are written over what is there.
MayBeginAnyway == TRUE

\* The session's key is the room's, and the phase is compared as it is set.
MayBegin == session = None /\ room.phase = "Building"

\* It begins the game, or finds that another request has; neither: a conflict.
BeginGame(r) ==
  /\ At(r, "begin")
  /\ IF MayBegin
     THEN /\ session' = [module |-> request[r].module, actors |-> request[r].actors]
          /\ room' = [room EXCEPT !.phase = "InGame"]
          /\ begun' = begun + 1
     ELSE UNCHANGED <<session, room, begun>>
  /\ Done(r) /\ UNCHANGED <<players, identities, cardVars>>

-----------------------------------------------------------------------------
\* _seed_character_from_template: what a card of the library has, and no play on it.
SeededCard(template) ==
  [NewCard EXCEPT !.attributes = template.attributes, !.build = template.build,
                  !.method = template.method]

\* create_character_draft, empty or from the library; a draft that is there is
\* answered, unless one from the library was asked for.
LoadDraft(r, a, from) ==
  /\ Free(r) /\ Editable /\ IsIn(a) /\ cards[a] = None
  /\ from => library[a] # None
  /\ request' = [request EXCEPT ![r] =
       [op |-> "draft", account |-> a, from |-> from,
        card |-> IF from THEN SeededCard(library[a]) ELSE NewCard]]
  /\ UNCHANGED <<roomVars, cardVars>>

\* Mutant of AnswersExisting: the draft that was first is answered to everyone.
AnswersExistingAlways(from) == TRUE

\* After a lost race for the unique key: an empty draft is as good as another.
AnswersExisting(from) == ~from

InsertDraft(r) ==
  /\ At(r, "draft")
  /\ LET a == request[r].account
         from == request[r].from
         Answered == IF from THEN seeded \cup {[account |-> a, card |-> request[r].card,
                                                made |-> cards'[a]]} ELSE seeded
     IN  IF cards[a] = None
         THEN Write(a, request[r].card) /\ seeded' = Answered
         ELSE /\ UNCHANGED <<cards, writes>>
              /\ seeded' = IF AnswersExisting(from) THEN Answered ELSE seeded
  /\ Done(r) /\ UNCHANGED <<roomVars, library, rolled>>

\* A request on a card loads the row first.
LoadCard(r, a) ==
  /\ Free(r) /\ Editable /\ IsIn(a) /\ cards[a] # None
  /\ request' = [request EXCEPT ![r] = [op |-> "card", account |-> a, card |-> cards[a]]]
  /\ UNCHANGED <<roomVars, cardVars>>

\* Mutant of Modified: an edit leaves a completed card complete.
ModifiedNot(loaded, row) == row.status

\* _mark_character_modified: a card that was loaded complete is a draft again.
Modified(loaded, row) == IF loaded.status = "complete" THEN "draft" ELSE row.status

\* Mutant of MethodAfter: an edit keeps where the attributes came from.
MethodKept(loaded, row, attributes) == row.method

\* Attributes other than the rolled ones are the client's own.
MethodAfter(loaded, row, attributes) ==
  IF loaded.method = "roll" /\ attributes # loaded.attributes THEN "pointbuy" ELSE row.method

UpdateCharacter(r, attributes, build) ==
  /\ At(r, "card")
  /\ LET a == request[r].account
         loaded == request[r].card
     IN  Write(a, [cards[a] EXCEPT !.status = Modified(loaded, cards[a]),
                                   !.attributes = attributes, !.build = build,
                                   !.method = MethodAfter(loaded, cards[a], attributes)])
  /\ Done(r) /\ UNCHANGED <<roomVars, library, seeded, rolled>>

\* roll_attributes; quick_generate_character rolls them too, and saves a build that
\* the rules accept.
RollAttributes(r, attributes, builds) ==
  /\ At(r, "card")
  /\ LET a == request[r].account
         loaded == request[r].card
     IN  /\ \E build \in builds :
              Write(a, [cards[a] EXCEPT !.status = Modified(loaded, cards[a]),
                                        !.attributes = attributes, !.build = build,
                                        !.method = "roll"])
         /\ rolled' = [rolled EXCEPT ![a] = @ \cup {attributes}]
  /\ Done(r) /\ UNCHANGED <<roomVars, library, seeded>>

Roll(r, attributes) == At(r, "card") /\ RollAttributes(r, attributes, {cards[request[r].account].build})

Generated == [attributes \in Rolls |->
  UNION {{b \in Drafts(name, attributes) : Issues(b, attributes, "roll") = {}} :
           name \in DOMAIN Ruleset.occupations}]

QuickGenerate(r, attributes) == RollAttributes(r, attributes, Generated[attributes])

\* A card that was never filled in is judged as one that leaves everything out.
Blank == [age |-> Unset, occupation |-> Unset, choices |-> Unset, skills |-> [s \in {} |-> 0]]

Built(build) == IF build = None THEN Blank ELSE build

\* The verdict of the rules on what clients send and the generator makes; a card
\* without attributes does not have those of the ruleset, and is always refused.
Verdict ==
  [c \in ({None} \cup Builds \cup UNION {Generated[d] : d \in Rolls})
          \X Attributes \X {"pointbuy", "roll"} |->
     Issues(Built(c[1]), c[2], c[3])]

Judged(card) == LET c == <<card.build, card.attributes, card.method>>
                IN  c \in DOMAIN Verdict /\ Verdict[c] = {}

\* complete_character: judged as loaded.
CompleteCharacter(r) ==
  /\ At(r, "card")
  /\ LET a == request[r].account
         loaded == request[r].card
     IN  IF Judged(loaded)
         THEN Write(a, [cards[a] EXCEPT !.status = "complete"])
         ELSE UNCHANGED <<cards, writes>>
  /\ Done(r) /\ UNCHANGED <<roomVars, library, seeded, rolled>>

-----------------------------------------------------------------------------
\* The library of an account: a card is saved as bought whatever the client says,
\* keeps a roll as long as its attributes are kept, and is rolled by the server.
Keep(a, card) == /\ \A r \in Requests : Interruptible(r)
                 /\ writes < MaxWrites /\ writes' = writes + 1
                 /\ library' = [library EXCEPT ![a] = card]

SaveTemplate(a, attributes, build) ==
  /\ Keep(a, [NewCard EXCEPT !.attributes = attributes, !.build = build])
  /\ UNCHANGED <<roomVars, request, cards, seeded, rolled>>

UpdateTemplate(a, attributes, build) ==
  /\ library[a] # None
  /\ Keep(a, [library[a] EXCEPT
               !.attributes = attributes, !.build = build,
               !.method = IF @ = "roll" /\ attributes = library[a].attributes THEN "roll"
                          ELSE "pointbuy"])
  /\ UNCHANGED <<roomVars, request, cards, seeded, rolled>>

RollTemplate(a, attributes, builds) ==
  /\ library[a] # None
  /\ \E build \in builds :
       Keep(a, [library[a] EXCEPT !.attributes = attributes, !.build = build, !.method = "roll"])
  /\ rolled' = [rolled EXCEPT ![a] = @ \cup {attributes}]
  /\ UNCHANGED <<roomVars, request, cards, seeded>>

DeleteTemplate(a) ==
  /\ library[a] # None
  /\ Keep(a, None)
  /\ UNCHANGED <<roomVars, request, cards, seeded, rolled>>

-----------------------------------------------------------------------------
Next ==
  \/ \E r \in Requests :
       \/ InsertPlayer(r) \/ SelectModule(r) \/ BeginGame(r) \/ InsertDraft(r)
       \/ LoadStart(r) \/ StartStory(r) \/ LoadBegin(r) \/ CompleteCharacter(r)
       \/ \E m \in Modules : LoadSelect(r, m)
       \/ \E a \in Accounts : \/ LoadJoin(r, a) \/ LoadCard(r, a)
                              \/ \E from \in BOOLEAN : LoadDraft(r, a, from)
       \/ \E attributes \in Attributes, build \in Builds : UpdateCharacter(r, attributes, build)
       \/ \E attributes \in Rolls : Roll(r, attributes) \/ QuickGenerate(r, attributes)
  \/ \E a \in Accounts :
       \/ DeleteTemplate(a)
       \/ \E attributes \in Attributes, build \in Builds :
            SaveTemplate(a, attributes, build) \/ UpdateTemplate(a, attributes, build)
       \/ library[a] # None /\ \E attributes \in Rolls :
            \/ RollTemplate(a, attributes, {library[a].build})
            \/ RollTemplate(a, attributes, Generated[attributes])

Spec == Init /\ [][Next]_vars

-----------------------------------------------------------------------------
Card == [status : {"draft", "complete"}, attributes : Attributes \cup {None},
         build : {None} \cup Builds \cup UNION {Generated[d] : d \in Rolls},
         method : {"pointbuy", "roll"}]

Player == [account : Accounts, id : Nat]

Actor == [player : Player, card : Card]

Session == [module : Modules \cup {None}, actors : SUBSET Actor]

Request ==
  {Idle} \cup [op : {"join"}, account : Accounts] \cup [op : {"select"}, module : Modules]
  \cup [op : {"start"}] \cup [op : {"begin"}, module : Modules \cup {None}, actors : SUBSET Actor]
  \cup [op : {"draft"}, account : Accounts, from : BOOLEAN, card : Card]
  \cup [op : {"card"}, account : Accounts, card : Card]

ASSUME NoneAssumption == None \notin Modules \cup Card \cup Session

LobbyTypeOK ==
  /\ room \in [phase : {"Lobby", "Building", "InGame"}, module : Modules \cup {None}]
  /\ players \subseteq Player /\ identities \subseteq Player
  /\ cards \in [Accounts -> Card \cup {None}] /\ library \in [Accounts -> Card \cup {None}]
  /\ session \in Session \cup {None}
  /\ request \in [Requests -> Request]
  /\ writes \in Nat /\ begun \in Nat
  /\ rolled \in [Accounts -> SUBSET Rolls]

\* Joins that race, reconnect and repeat: an account is one player of the room, and
\* every answer it was given names that player.
OnePlayerPerAccount ==
  \A p, q \in players \cup identities : p.account = q.account => p = q

\* However many game.start race, one of them begins the game, its session is there
\* with the room's module while the game is on, and no other of them is told that it began it.
BegunOnce ==
  /\ begun <= 1
  /\ (room.phase = "InGame") <=> (session # None)
  /\ session # None => begun = 1 /\ session.module = room.module

\* The cards of which the skills that take an occupation's free slots are worth
\* the most points any choice of them is.
WellSlotted ==
  {<<c[1], c[2]>> : c \in
    {c \in DOMAIN Verdict :
       LET job == Job(Built(c[1]).occupation)
           weight == Allocations(Built(c[1]), c[2])
       IN  /\ Fits(job, Matched(job, weight))
           /\ MapThenSumSet(LAMBDA s : weight[s], Matched(job, weight)) = MostPoints(job, weight)}}

\* The game is played with cards that the rules accept, each complete when it was
\* copied, whatever edits and rolls raced with game.start.
ActorsAreJudged ==
  session # None => \A actor \in session.actors : actor.card.status = "complete" /\ Judged(actor.card)

\* And no card is refused because its occupation's free slots were filled badly.
ActorsAreFit ==
  /\ ActorsAreJudged
  /\ \A a \in Accounts :
       cards[a] # None /\ cards[a].attributes # None =>
         <<cards[a].build, cards[a].attributes>> \in WellSlotted

\* Attributes that count as rolled (and so escape the budget) were rolled by the
\* server for this account, in the room or in the library.
RollIsAttested ==
  \A a \in Accounts :
    /\ cards[a] # None /\ cards[a].method = "roll" => cards[a].attributes \in rolled[a]
    /\ library[a] # None /\ library[a].method = "roll" => library[a].attributes \in rolled[a]

\* A draft answered as made from the library is that card, also after a lost race.
SeededIsSeeded == \A s \in seeded : s.made.build = s.card.build /\ s.made.attributes = s.card.attributes
=============================================================================
