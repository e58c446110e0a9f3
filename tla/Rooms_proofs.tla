---------------------------- MODULE Rooms_proofs ----------------------------
(***************************************************************************)
(* Proofs about what surrounds the game in a room: the lobby, where a game *)
(* is made of players, a module and cards, for any accounts, cards and     *)
(* requests in flight; and, at the end, the client that looks at a room    *)
(* over its one line.                                                      *)
(***************************************************************************)
EXTENDS RoomLobby, RoomClient, FiniteSetTheorems, TLAPS

-----------------------------------------------------------------------------
(* The lobby.                                                              *)

Is(r, op) == request[r].op = op

\* What a request holds, by its kind.
LEMMA RequestShape ==
  ASSUME LobbyTypeOK, NEW r \in Requests
  PROVE  /\ Is(r, "join") => request[r] \in [op : {"join"}, account : Accounts]
         /\ Is(r, "select") => request[r] \in [op : {"select"}, module : Modules]
         /\ Is(r, "begin") => request[r] \in
              [op : {"begin"}, module : Modules \cup {None}, actors : SUBSET Actor]
         /\ Is(r, "draft") => request[r] \in
              [op : {"draft"}, account : Accounts, from : BOOLEAN, card : Card]
         /\ Is(r, "card") => request[r] \in [op : {"card"}, account : Accounts, card : Card]
<1>1. request[r] \in Request
  BY DEF LobbyTypeOK
<1>. QED BY <1>1 DEF Request, Idle, Is

\* A step that changes a request only, and leaves it well formed.
LEMMA SetRequest ==
  ASSUME LobbyTypeOK, NEW r \in Requests, NEW q \in Request,
         request' = [request EXCEPT ![r] = q],
         UNCHANGED <<room, players, session, begun, cards, library, writes, rolled>>,
         identities' \subseteq Player
  PROVE  LobbyTypeOK'
BY DEF LobbyTypeOK

LEMMA IdleIsRequest == Idle \in Request
BY DEF Request

LEMMA NewCardIsCard == NewCard \in Card
BY DEF NewCard, Card
LEMMA SeededIsCard == ASSUME NEW template \in Card PROVE SeededCard(template) \in Card
BY NewCardIsCard DEF SeededCard, NewCard, Card

\* A request on a card holds the row of a card that is there.
CardsStay == \A r \in Requests : Is(r, "card") => cards[request[r].account] # None

\* A commit of a card: the row, whatever it was, is a card after it.
LEMMA CardWritten ==
  ASSUME LobbyTypeOK, CardsStay, LobbyAssumption,
         NEW a \in Accounts, NEW card \in Card, NEW r \in Requests,
         Write(a, card), Done(r), UNCHANGED <<roomVars, library>>,
         rolled' \in [Accounts -> SUBSET Rolls]
  PROVE  LobbyTypeOK' /\ CardsStay'
<1>1. request' \in [Requests -> Request]
  BY IdleIsRequest DEF LobbyTypeOK, Done
<1>2. cards' \in [Accounts -> Card \cup {None}] /\ writes' \in Nat
  BY DEF LobbyTypeOK, Write
<1>3. LobbyTypeOK'
  BY <1>1, <1>2 DEF LobbyTypeOK, roomVars
<1>4. \A b \in Accounts : cards[b] # None => cards'[b] # None
  BY NoneAssumption DEF LobbyTypeOK, Write
<1>5. ASSUME NEW q \in Requests, Is(q, "card")' PROVE cards'[request'[q].account] # None
  <2>1. Is(q, "card") /\ request'[q] = request[q]
    BY <1>5 DEF Is, Done, Idle, LobbyTypeOK
  <2>2. request[q].account \in Accounts
    BY <2>1, RequestShape
  <2>. QED BY <1>4, <2>1, <2>2 DEF CardsStay
<1>. QED BY <1>3, <1>5 DEF CardsStay

\* A request that writes no card.
LEMMA RequestOnly ==
  ASSUME LobbyTypeOK, CardsStay, NEW r \in Requests, NEW q \in Request,
         q.op = "card" => cards[q.account] # None,
         request' = [request EXCEPT ![r] = q], UNCHANGED cards
  PROVE  request' \in [Requests -> Request] /\ CardsStay'
BY DEF LobbyTypeOK, CardsStay, Is

\* A card that a request has loaded, and the row as it is now.
LEMMA LoadedCard ==
  ASSUME LobbyTypeOK, CardsStay, NEW r \in Requests, At(r, "card")
  PROVE  /\ request[r].account \in Accounts /\ request[r].card \in Card
         /\ cards[request[r].account] \in Card
         /\ request[r] = [op |-> "card", account |-> request[r].account, card |-> request[r].card]
<1>1. request[r] \in [op : {"card"}, account : Accounts, card : Card]
  BY RequestShape DEF At, Is
<1>2. cards[request[r].account] # None
  BY DEF At, Is, CardsStay
<1>. QED BY <1>1, <1>2 DEF LobbyTypeOK

\* A commit of a card of a library.
LEMMA Kept ==
  ASSUME LobbyTypeOK, CardsStay, LobbyAssumption,
         NEW a \in Accounts, NEW card \in Card \cup {None},
         Keep(a, card), UNCHANGED <<roomVars, request, cards>>,
         rolled' \in [Accounts -> SUBSET Rolls]
  PROVE  LobbyTypeOK' /\ CardsStay'
<1>1. library' \in [Accounts -> Card \cup {None}] /\ writes' \in Nat
  BY DEF LobbyTypeOK, Keep
<1>. QED BY <1>1 DEF LobbyTypeOK, CardsStay, Is, roomVars

\* Nothing but a request changes, and perhaps what room.join answered.
LEMMA Loaded ==
  ASSUME LobbyTypeOK, CardsStay, NEW r \in Requests, NEW q \in Request,
         q.op = "card" => cards[q.account] # None,
         request' = [request EXCEPT ![r] = q],
         UNCHANGED <<room, players, session, begun, cardVars>>, identities' \subseteq Player
  PROVE  LobbyTypeOK' /\ CardsStay'
<1>1. request' \in [Requests -> Request] /\ CardsStay'
  BY RequestOnly DEF cardVars
<1>. QED BY <1>1 DEF LobbyTypeOK, cardVars

LobbyTypes == LobbyTypeOK /\ CardsStay /\ IsFiniteSet(players)

LEMMA InitLobby == Init => LobbyTypes
<1>. SUFFICES ASSUME Init PROVE LobbyTypes
  OBVIOUS
<1>1. LobbyTypeOK
  BY LobbyAssumption, IdleIsRequest DEF Init, LobbyTypeOK, HostRow, Player
<1>2. CardsStay
  BY DEF Init, CardsStay, Is, Idle
<1>3. IsFiniteSet(players)
  BY FS_Singleton DEF Init
<1>. QED BY <1>1, <1>2, <1>3 DEF LobbyTypes
LEMMA GeneratedIsABuild ==
  ASSUME NEW d \in Rolls, NEW build \in Generated[d], NEW card \in Card
  PROVE  [card EXCEPT !.build = build] \in Card
BY DEF Card

LEMMA EditIsCard ==
  ASSUME LobbyAssumption, NEW row \in Card, NEW status \in {"draft", "complete"},
         NEW attributes \in Attributes, NEW method \in {"pointbuy", "roll"},
         NEW build, build \in Builds \/ build = row.build \/ \E d \in Rolls : build \in Generated[d]
  PROVE  [status |-> status, attributes |-> attributes, build |-> build, method |-> method] \in Card
BY DEF Card

\* What the dice gave is remembered.
LEMMA Remembered ==
  ASSUME LobbyTypeOK, NEW a \in Accounts, NEW attributes \in Rolls,
         rolled' = [rolled EXCEPT ![a] = @ \cup {attributes}]
  PROVE  rolled' \in [Accounts -> SUBSET Rolls]
BY DEF LobbyTypeOK

LEMMA TypeStep == LobbyTypes /\ [Next]_vars => LobbyTypes'
<1>. SUFFICES ASSUME LobbyTypes, [Next]_vars PROVE LobbyTypes'
  OBVIOUS
<1>. USE LobbyAssumption DEF LobbyTypes
<1>1. ASSUME NEW r \in Requests, InsertPlayer(r) PROVE LobbyTypes'
  <2>1. request[r].account \in Accounts
    BY <1>1, RequestShape DEF InsertPlayer, At, Is
  <2>2. Cardinality(players) \in Nat
    BY FS_CardinalityType
  <2>3. Rows(request[r].account) \subseteq players
    BY DEF Rows
  <2>. DEFINE row == [account |-> request[r].account, id |-> Cardinality(players) + 1]
  <2>6. row \in Player
    BY <2>1, <2>2 DEF Player
  <2>7. /\ players' = players \/ players' = players \cup {row}
        /\ identities' \subseteq identities \cup players \cup {row}
    BY <1>1, <2>3 DEF InsertPlayer
  <2>. HIDE DEF row
  <2>8. IsFiniteSet(players')
    BY <2>7, FS_AddElement
  <2>4. players' \subseteq Player /\ identities' \subseteq Player /\ IsFiniteSet(players')
    BY <2>6, <2>7, <2>8 DEF LobbyTypeOK
  <2>5. request' \in [Requests -> Request] /\ CardsStay'
    BY <1>1, RequestOnly, IdleIsRequest DEF InsertPlayer, Done, cardVars, Idle
  <2>. QED BY <1>1, <2>4, <2>5 DEF InsertPlayer, LobbyTypeOK, cardVars
<1>2. ASSUME NEW r \in Requests, SelectModule(r) \/ StartStory(r) \/ BeginGame(r)
      PROVE  LobbyTypes'
  <2>1. request' \in [Requests -> Request] /\ CardsStay'
    BY <1>2, RequestOnly, IdleIsRequest
    DEF SelectModule, StartStory, BeginGame, Done, cardVars, Idle
  <2>2. room' \in [phase : {"Lobby", "Building", "InGame"}, module : Modules \cup {None}]
    <3>1. SelectModule(r) => request[r].module \in Modules
      BY RequestShape DEF SelectModule, At, Is
    <3>. QED BY <1>2, <3>1 DEF SelectModule, StartStory, BeginGame, LobbyTypeOK
  <2>3. session' \in Session \cup {None} /\ begun' \in Nat
    <3>1. BeginGame(r) => /\ request[r].module \in Modules \cup {None}
                          /\ request[r].actors \in SUBSET Actor
      BY RequestShape DEF BeginGame, At, Is
    <3>. QED BY <1>2, <3>1 DEF SelectModule, StartStory, BeginGame, LobbyTypeOK, Session
  <2>. QED
    BY <1>2, <2>1, <2>2, <2>3
    DEF SelectModule, StartStory, BeginGame, LobbyTypeOK, cardVars
<1>3. ASSUME NEW r \in Requests, InsertDraft(r) PROVE LobbyTypes'
  <2>1. request[r].account \in Accounts /\ request[r].card \in Card
    BY <1>3, RequestShape DEF InsertDraft, At, Is
  <2>2. CASE cards[request[r].account] = None
    BY <1>3, <2>1, <2>2, CardWritten DEF InsertDraft, LobbyTypeOK, roomVars
  <2>3. CASE cards[request[r].account] # None
    <3>1. UNCHANGED <<cards, writes>>
      BY <1>3, <2>3 DEF InsertDraft
    <3>2. request' \in [Requests -> Request] /\ CardsStay'
      BY <1>3, <3>1, RequestOnly, IdleIsRequest DEF InsertDraft, Done, Idle
    <3>. QED BY <1>3, <3>1, <3>2 DEF InsertDraft, LobbyTypeOK, roomVars
  <2>. QED BY <2>2, <2>3
<1>4. ASSUME NEW r \in Requests, NEW m \in Modules, LoadSelect(r, m) PROVE LobbyTypes'
  BY <1>4, Loaded DEF LoadSelect, Request, roomVars, LobbyTypeOK
<1>5. ASSUME NEW r \in Requests, LoadStart(r) PROVE LobbyTypes'
  BY <1>5, Loaded DEF LoadStart, Request, roomVars, LobbyTypeOK
<1>6. ASSUME NEW r \in Requests, LoadBegin(r) PROVE LobbyTypes'
  <2>. DEFINE actors == {[player |-> p, card |-> cards[p.account]] : p \in players}
              q == [op |-> "begin", module |-> room.module, actors |-> actors]
  <2>1. ASSUME NEW p \in players PROVE [player |-> p, card |-> cards[p.account]] \in Actor
    BY <1>6 DEF LoadBegin, LobbyTypeOK, Player, Actor
  <2>2. q \in Request
    BY <2>1 DEF Request, LobbyTypeOK
  <2>3. request' = [request EXCEPT ![r] = q] /\ q.op = "begin"
    BY <1>6 DEF LoadBegin
  <2>4. UNCHANGED <<roomVars, cardVars>>
    BY <1>6 DEF LoadBegin
  <2>. HIDE DEF q
  <2>. QED BY <2>2, <2>3, <2>4, Loaded DEF roomVars, LobbyTypeOK
<1>7. ASSUME NEW r \in Requests, NEW a \in Accounts, LoadJoin(r, a) PROVE LobbyTypes'
  <2>1. identities' \subseteq Player
    BY <1>7 DEF LoadJoin, Rows, LobbyTypeOK
  <2>2. CASE UNCHANGED request
    BY <1>7, <2>1, <2>2 DEF LoadJoin, LobbyTypeOK, cardVars, CardsStay, Is
  <2>3. CASE request' = [request EXCEPT ![r] = [op |-> "join", account |-> a]]
    BY <1>7, <2>1, <2>3, Loaded DEF LoadJoin, Request, LobbyTypeOK, cardVars
  <2>. QED BY <1>7, <2>2, <2>3 DEF LoadJoin
<1>8. ASSUME NEW r \in Requests, NEW a \in Accounts, LoadCard(r, a) PROVE LobbyTypes'
  <2>1. cards[a] \in Card
    BY <1>8 DEF LoadCard, LobbyTypeOK
  <2>2. [op |-> "card", account |-> a, card |-> cards[a]] \in Request
    BY <2>1 DEF Request
  <2>. QED BY <1>8, <2>2, Loaded DEF LoadCard, LobbyTypeOK, roomVars
<1>9. ASSUME NEW r \in Requests, NEW a \in Accounts, NEW from \in BOOLEAN, LoadDraft(r, a, from)
      PROVE  LobbyTypes'
  <2>. DEFINE card == IF from THEN SeededCard(library[a]) ELSE NewCard
              q == [op |-> "draft", account |-> a, from |-> from, card |-> card]
  <2>1. from => library[a] \in Card
    BY <1>9 DEF LoadDraft, LobbyTypeOK
  <2>2. card \in Card
    BY <2>1, SeededIsCard, NewCardIsCard
  <2>3. q \in Request
    BY <2>2 DEF Request
  <2>4. request' = [request EXCEPT ![r] = q] /\ q.op # "card"
    BY <1>9 DEF LoadDraft
  <2>5. UNCHANGED <<roomVars, cardVars>>
    BY <1>9 DEF LoadDraft
  <2>. HIDE DEF q
  <2>. QED BY <2>3, <2>4, <2>5, Loaded DEF roomVars, LobbyTypeOK
<1>10. ASSUME NEW r \in Requests, CompleteCharacter(r) PROVE LobbyTypes'
  <2>. DEFINE a == request[r].account
              card == [cards[a] EXCEPT !.status = "complete"]
  <2>1. a \in Accounts /\ cards[a] \in Card
    BY <1>10, LoadedCard DEF CompleteCharacter
  <2>2. card \in Card
    BY <2>1 DEF Card
  <2>3. CASE Judged(request[r].card)
    <3>1. Write(a, card)
      BY <1>10, <2>3 DEF CompleteCharacter
    <3>. HIDE DEF card, a
    <3>. QED BY <1>10, <2>1, <2>2, <3>1, CardWritten DEF CompleteCharacter, LobbyTypeOK, roomVars
  <2>4. CASE ~Judged(request[r].card)
    <3>1. request' \in [Requests -> Request] /\ CardsStay'
      BY <1>10, <2>4, RequestOnly, IdleIsRequest DEF CompleteCharacter, Done, Idle
    <3>. QED BY <1>10, <2>4, <3>1 DEF CompleteCharacter, LobbyTypeOK, roomVars
  <2>. QED BY <2>3, <2>4
<1>11. ASSUME NEW r \in Requests, NEW attributes \in Attributes, NEW build \in Builds,
              UpdateCharacter(r, attributes, build)
       PROVE  LobbyTypes'
  <2>. DEFINE a == request[r].account
              card == [cards[a] EXCEPT !.status = Modified(request[r].card, cards[a]),
                                       !.attributes = attributes, !.build = build,
                                       !.method = MethodAfter(request[r].card, cards[a], attributes)]
  <2>1. a \in Accounts /\ cards[a] \in Card
    BY <1>11, LoadedCard DEF UpdateCharacter
  <2>2. card \in Card
    BY <2>1 DEF Card, Modified, MethodAfter
  <2>3. Write(a, card)
    BY <1>11 DEF UpdateCharacter
  <2>. HIDE DEF card, a
  <2>. QED BY <1>11, <2>1, <2>2, <2>3, CardWritten DEF UpdateCharacter, LobbyTypeOK, roomVars
<1>12. ASSUME NEW r \in Requests, NEW attributes \in Rolls,
              Roll(r, attributes) \/ QuickGenerate(r, attributes)
       PROVE  LobbyTypes'
  <2>. DEFINE a == request[r].account
              Card_(build) == [cards[a] EXCEPT !.status = Modified(request[r].card, cards[a]),
                                       !.attributes = attributes, !.build = build,
                                       !.method = "roll"]
  <2>1. a \in Accounts /\ cards[a] \in Card
    BY <1>12, LoadedCard DEF Roll, QuickGenerate, RollAttributes
  <2>2. PICK build : /\ build = cards[a].build \/ build \in Generated[attributes]
                     /\ Write(a, Card_(build))
    BY <1>12 DEF Roll, QuickGenerate, RollAttributes
  <2>3. Card_(build) \in Card
    <3>1. Modified(request[r].card, cards[a]) \in {"draft", "complete"}
      BY <2>1 DEF Card, Modified
    <3>2. attributes \in Attributes
      BY LobbyAssumption
    <3>3. build \in {None} \cup Builds \cup UNION {Generated[d] : d \in Rolls}
      <4>1. cards[a].build \in {None} \cup Builds \cup UNION {Generated[d] : d \in Rolls}
        BY <2>1 DEF Card
      <4>. QED BY <2>2, <4>1
    <3>. QED BY <2>1, <3>1, <3>2, <3>3 DEF Card
  <2>4. /\ rolled' = [rolled EXCEPT ![a] = @ \cup {attributes}]
        /\ UNCHANGED <<roomVars, library>> /\ Done(r)
    BY <1>12 DEF Roll, QuickGenerate, RollAttributes
  <2>6. rolled' \in [Accounts -> SUBSET Rolls]
    BY <2>1, <2>4, Remembered
  <2>5. Write(a, Card_(build))
    BY <2>2
  <2>. HIDE DEF Card_, a
  <2>. QED BY <2>1, <2>3, <2>4, <2>5, <2>6, CardWritten DEF LobbyTypeOK, roomVars
<1>13. ASSUME NEW a \in Accounts, DeleteTemplate(a) PROVE LobbyTypes'
  BY <1>13, Kept DEF DeleteTemplate, LobbyTypeOK, roomVars
<1>14. ASSUME NEW a \in Accounts, NEW attributes \in Attributes, NEW build \in Builds,
              SaveTemplate(a, attributes, build)
       PROVE  LobbyTypes'
  <2>1. [NewCard EXCEPT !.attributes = attributes, !.build = build] \in Card
    BY DEF Card, NewCard
  <2>. QED BY <1>14, <2>1, Kept DEF SaveTemplate, LobbyTypeOK, roomVars
<1>15. ASSUME NEW a \in Accounts, NEW attributes \in Attributes, NEW build \in Builds,
              UpdateTemplate(a, attributes, build)
       PROVE  LobbyTypes'
  <2>. DEFINE method == IF library[a].method = "roll" /\ attributes = library[a].attributes
                        THEN "roll" ELSE "pointbuy"
              card == [library[a] EXCEPT !.attributes = attributes, !.build = build,
                                         !.method = method]
  <2>1. library[a] \in Card
    BY <1>15 DEF UpdateTemplate, LobbyTypeOK
  <2>2. card \in Card
    BY <2>1 DEF Card
  <2>3. Keep(a, card)
    BY <1>15 DEF UpdateTemplate
  <2>. HIDE DEF card
  <2>. QED BY <1>15, <2>2, <2>3, Kept DEF UpdateTemplate, LobbyTypeOK, roomVars
<1>16. ASSUME NEW a \in Accounts, library[a] # None, NEW attributes \in Rolls,
              \/ RollTemplate(a, attributes, {library[a].build})
              \/ RollTemplate(a, attributes, Generated[attributes])
       PROVE  LobbyTypes'
  <2>. DEFINE Card_(build) == [library[a] EXCEPT !.attributes = attributes, !.build = build,
                                                 !.method = "roll"]
  <2>1. library[a] \in Card
    BY <1>16 DEF LobbyTypeOK
  <2>2. PICK build : /\ build = library[a].build \/ build \in Generated[attributes]
                     /\ Keep(a, Card_(build))
    BY <1>16 DEF RollTemplate
  <2>3. Card_(build) \in Card
    <3>1. attributes \in Attributes
      BY LobbyAssumption
    <3>2. build \in {None} \cup Builds \cup UNION {Generated[d] : d \in Rolls}
      <4>1. library[a].build \in {None} \cup Builds \cup UNION {Generated[d] : d \in Rolls}
        BY <2>1 DEF Card
      <4>. QED BY <2>2, <4>1
    <3>. QED BY <2>1, <3>1, <3>2 DEF Card
  <2>4. /\ rolled' = [rolled EXCEPT ![a] = @ \cup {attributes}]
        /\ UNCHANGED <<roomVars, request, cards>>
    BY <1>16 DEF RollTemplate
  <2>6. rolled' \in [Accounts -> SUBSET Rolls]
    BY <2>4, Remembered
  <2>5. Keep(a, Card_(build))
    BY <2>2
  <2>. HIDE DEF Card_
  <2>. QED BY <2>3, <2>4, <2>5, <2>6, Kept DEF LobbyTypeOK, roomVars
<1>17. CASE UNCHANGED vars
  BY <1>17 DEF vars, LobbyTypeOK, CardsStay, Is
<1>. QED
  BY <1>1, <1>2, <1>3, <1>4, <1>5, <1>6, <1>7, <1>8, <1>9, <1>10, <1>11, <1>12, <1>13,
     <1>14, <1>15, <1>16, <1>17 DEF Next

\* Every row, card, request in flight, session and memory is of its type.
THEOREM LobbyTypeCorrect == Spec => []LobbyTypeOK
<1>1. Spec => []LobbyTypes
  BY InitLobby, TypeStep, PTL DEF Spec
<1>2. LobbyTypes => LobbyTypeOK
  BY DEF LobbyTypes
<1>. QED BY <1>1, <1>2, PTL
-----------------------------------------------------------------------------
\* Joins: the identities that were answered are rows, one of them for each account.
OneRow ==
  /\ identities \subseteq players
  /\ \A p, q \in players : p.account = q.account => p = q

LEMMA OneRowStep == OneRow /\ [Next]_vars => OneRow'
<1>. SUFFICES ASSUME OneRow, [Next]_vars PROVE OneRow'
  OBVIOUS
<1>1. ASSUME NEW r \in Requests, NEW a \in Accounts, LoadJoin(r, a) PROVE OneRow'
  BY <1>1 DEF LoadJoin, OneRow, Rows
<1>2. ASSUME NEW r \in Requests, InsertPlayer(r) PROVE OneRow'
  <2>. DEFINE a == request[r].account
              row == [account |-> a, id |-> Cardinality(players) + 1]
  <2>1. CASE Vacant(a)
    <3>1. players' = players \cup {row} /\ identities' = identities \cup {row}
      BY <1>2, <2>1 DEF InsertPlayer
    <3>2. row.account = a /\ \A p \in players : p.account # a
      BY <2>1 DEF Vacant, IsIn, Rows
    <3>. HIDE DEF row, a
    <3>. QED BY <3>1, <3>2 DEF OneRow
  <2>2. CASE ~Vacant(a)
    BY <1>2, <2>2 DEF InsertPlayer, OneRow, Rows
  <2>. QED BY <2>1, <2>2
<1>3. ASSUME UNCHANGED <<players, identities>> PROVE OneRow'
  BY <1>3 DEF OneRow
<1>. QED
  BY <1>1, <1>2, <1>3, ZenonT(40)
  DEF Next, vars, roomVars, cardVars, SelectModule, BeginGame, InsertDraft, LoadStart, StartStory,
      LoadBegin, CompleteCharacter, LoadSelect, LoadCard, LoadDraft, UpdateCharacter, Roll,
      QuickGenerate, RollAttributes, DeleteTemplate, SaveTemplate, UpdateTemplate, RollTemplate

\* Joins that race, reconnect and repeat: an account is one player of the room, and
\* every answer it was given names that player.
THEOREM OnePlayerTheorem == Spec => []OnePlayerPerAccount
<1>1. Init => OneRow
  BY DEF Init, OneRow
<1>2. OneRow => OnePlayerPerAccount
  BY DEF OneRow, OnePlayerPerAccount
<1>. QED BY <1>1, <1>2, OneRowStep, PTL DEF Spec

-----------------------------------------------------------------------------
\* The start of the game: how far the room is decides what may be in flight.
Begun ==
  /\ begun = IF session = None THEN 0 ELSE 1
  /\ room.phase = "InGame" <=> session # None
  /\ session # None => session.module = room.module

Staged ==
  /\ \A r \in Requests : Is(r, "start") \/ Is(r, "select") => room.phase = "Lobby"
  /\ \A r \in Requests : Is(r, "begin") => room.phase # "Lobby" /\ request[r].module = room.module

\* The steps that leave the room's phase and its session alone, and load no request on them.
Quiet ==
  /\ UNCHANGED <<room, session, begun>>
  /\ \A q \in Requests : request'[q].op \in {"start", "select", "begin"} => request'[q] = request[q]

LEMMA SetOther ==
  ASSUME LobbyTypes, NEW r \in Requests, NEW q, q.op \notin {"start", "select", "begin"},
         request' = [request EXCEPT ![r] = q], UNCHANGED <<room, session, begun>>
  PROVE  Quiet
BY DEF LobbyTypes, LobbyTypeOK, Quiet

LEMMA MostAreQuiet ==
  ASSUME LobbyTypes, [Next]_vars
  PROVE  \/ Quiet
         \/ \E r \in Requests : \/ SelectModule(r) \/ StartStory(r) \/ BeginGame(r)
                               \/ LoadStart(r) \/ LoadBegin(r)
                               \/ \E m \in Modules : LoadSelect(r, m)
<1>1. ASSUME NEW r \in Requests, Done(r), UNCHANGED <<room, session, begun>> PROVE Quiet
  BY <1>1, SetOther DEF Done, Idle
<1>2. ASSUME UNCHANGED <<room, session, begun, request>> PROVE Quiet
  BY <1>2 DEF Quiet
<1>3. ASSUME NEW r \in Requests, NEW a \in Accounts, LoadJoin(r, a) PROVE Quiet
  BY <1>2, <1>3, SetOther DEF LoadJoin
<1>4. ASSUME NEW r \in Requests, NEW a \in Accounts, LoadCard(r, a) PROVE Quiet
  BY <1>4, SetOther DEF LoadCard, roomVars
<1>5. ASSUME NEW r \in Requests, NEW a \in Accounts, NEW from \in BOOLEAN, LoadDraft(r, a, from)
      PROVE  Quiet
  BY <1>5, SetOther DEF LoadDraft, roomVars
<1>6. ASSUME NEW r \in Requests, InsertPlayer(r) \/ InsertDraft(r) \/ CompleteCharacter(r)
      PROVE  Quiet
  BY <1>1, <1>6 DEF InsertPlayer, InsertDraft, CompleteCharacter, roomVars
<1>7. ASSUME NEW r \in Requests, NEW attributes \in Attributes, NEW build \in Builds,
             UpdateCharacter(r, attributes, build)
      PROVE  Quiet
  BY <1>1, <1>7 DEF UpdateCharacter, roomVars
<1>8. ASSUME NEW r \in Requests, NEW attributes \in Rolls,
             Roll(r, attributes) \/ QuickGenerate(r, attributes)
      PROVE  Quiet
  BY <1>1, <1>8 DEF Roll, QuickGenerate, RollAttributes, roomVars
<1>9. ASSUME NEW a \in Accounts,
             \/ DeleteTemplate(a)
             \/ \E attributes \in Attributes, build \in Builds :
                  SaveTemplate(a, attributes, build) \/ UpdateTemplate(a, attributes, build)
             \/ \E attributes, builds : RollTemplate(a, attributes, builds)
      PROVE  Quiet
  BY <1>2, <1>9 DEF DeleteTemplate, SaveTemplate, UpdateTemplate, RollTemplate, roomVars
<1>10. CASE UNCHANGED vars
  BY <1>2, <1>10 DEF vars
<1>. QED BY <1>3, <1>4, <1>5, <1>6, <1>7, <1>8, <1>9, <1>10 DEF Next

\* Requests of a kind that does not overlap: while one is in flight nothing else moves.
LEMMA NoOther ==
  ASSUME NEW r \in Requests, Alone(r), NEW q \in Requests \ {r}, NEW op, op \notin Overlapping,
         op # "none"
  PROVE  ~Is(q, op)
BY DEF Alone, Interruptible, Is, Idle

LEMMA BegunStep ==
  ASSUME "start" \notin Overlapping, "select" \notin Overlapping,
         LobbyTypes, Begun, Staged, [Next]_vars
  PROVE  Begun' /\ Staged'
<1>. USE DEF LobbyTypes
<1>1. CASE Quiet
  <2>1. Begun'
    BY <1>1 DEF Quiet, Begun
  <2>. QED BY <1>1, <2>1 DEF Quiet, Staged, Is
<1>2. ASSUME NEW r \in Requests, SelectModule(r) PROVE Begun' /\ Staged'
  <2>1. room.phase = "Lobby" /\ session = None
    BY <1>2 DEF SelectModule, At, Is, Staged, Begun
  <2>2. room'.phase = "Lobby" /\ UNCHANGED <<session, begun>>
    BY <1>2, <2>1 DEF SelectModule, LobbyTypeOK
  <2>3. \A q \in Requests : request'[q] = request[q] \/ request'[q] = Idle
    BY <1>2 DEF SelectModule, Done, LobbyTypeOK
  <2>4. Begun'
    BY <2>1, <2>2 DEF Begun
  <2>. QED BY <2>1, <2>2, <2>3, <2>4 DEF Staged, Is, Idle
<1>3. ASSUME NEW r \in Requests, StartStory(r) PROVE Begun' /\ Staged'
  <2>1. room.phase = "Lobby" /\ session = None
    BY <1>3 DEF StartStory, At, Is, Staged, Begun
  <2>2. room'.phase = "Building" /\ UNCHANGED <<session, begun>>
    BY <1>3, <2>1 DEF StartStory, LobbyTypeOK
  <2>3. \A q \in Requests \ {r} : ~Is(q, "start") /\ ~Is(q, "select")
    BY <1>3, NoOther DEF StartStory, At
  <2>4. \A q \in Requests : request'[q] = Idle \/ (q # r /\ request'[q] = request[q])
    BY <1>3 DEF StartStory, Done, LobbyTypeOK
  <2>5. Begun'
    BY <2>1, <2>2 DEF Begun
  <2>. QED BY <2>1, <2>2, <2>3, <2>4, <2>5 DEF Staged, Is, Idle
<1>4. ASSUME NEW r \in Requests, BeginGame(r) PROVE Begun' /\ Staged'
  <2>1. \A q \in Requests : request'[q] = request[q] \/ request'[q] = Idle
    BY <1>4 DEF BeginGame, Done, LobbyTypeOK
  <2>2. CASE MayBegin
    <3>1. request[r] \in [op : {"begin"}, module : Modules \cup {None}, actors : SUBSET Actor]
      BY <1>4, RequestShape DEF BeginGame, At, Is
    <3>2. request[r].module = room.module
      BY <1>4 DEF BeginGame, At, Is, Staged
    <3>3. /\ session' \in Session /\ session'.module = room.module
          /\ room'.phase = "InGame" /\ room'.module = room.module /\ begun' = 1
      BY <1>4, <2>2, <3>1, <3>2 DEF BeginGame, MayBegin, Begun, LobbyTypeOK, Session
    <3>4. session' # None
      BY <3>3, NoneAssumption
    <3>5. room.phase = "Building"
      BY <2>2 DEF MayBegin
    <3>6. Begun'
      BY <3>3, <3>4 DEF Begun
    <3>. QED BY <2>1, <3>3, <3>5, <3>6 DEF Staged, Is, Idle
  <2>3. CASE ~MayBegin
    <3>1. UNCHANGED <<session, room, begun>>
      BY <1>4, <2>3 DEF BeginGame
    <3>2. Begun'
      BY <3>1 DEF Begun
    <3>. QED BY <2>1, <3>1, <3>2 DEF Staged, Is, Idle
  <2>. QED BY <2>2, <2>3
<1>5. ASSUME NEW r \in Requests, NEW m \in Modules, LoadSelect(r, m)
      PROVE  Begun' /\ Staged'
  <2>1. room.phase = "Lobby" /\ UNCHANGED <<room, session, begun>>
    BY <1>5 DEF LoadSelect, roomVars
  <2>2. \A q \in Requests : request'[q] = request[q] \/ request'[q].op = "select"
    BY <1>5 DEF LoadSelect, LobbyTypeOK
  <2>3. Begun'
    BY <2>1 DEF Begun
  <2>. QED BY <2>1, <2>2, <2>3 DEF Staged, Is
<1>6. ASSUME NEW r \in Requests, LoadBegin(r) PROVE Begun' /\ Staged'
  <2>1. room.phase = "Building" /\ UNCHANGED <<room, session, begun>>
    BY <1>6 DEF LoadBegin, roomVars
  <2>2. \A q \in Requests : \/ request'[q] = request[q]
                            \/ request'[q].op = "begin" /\ request'[q].module = room.module
    BY <1>6 DEF LoadBegin, LobbyTypeOK
  <2>3. Begun'
    BY <2>1 DEF Begun
  <2>. QED BY <2>1, <2>2, <2>3 DEF Staged, Is
<1>7. ASSUME NEW r \in Requests, LoadStart(r) PROVE Begun' /\ Staged'
  <2>1. room.phase = "Lobby" /\ UNCHANGED <<room, session, begun>>
    BY <1>7 DEF LoadStart, roomVars
  <2>2. \A q \in Requests : request'[q] = request[q] \/ request'[q].op = "start"
    BY <1>7 DEF LoadStart, LobbyTypeOK
  <2>3. Begun'
    BY <2>1 DEF Begun
  <2>. QED BY <2>1, <2>2, <2>3 DEF Staged, Is
<1>. QED BY <1>1, <1>2, <1>3, <1>4, <1>5, <1>6, <1>7, MostAreQuiet

\* However many game.start race with each other, with joins, drafts and edits of cards,
\* one of them begins the game with the room's module, and no other is told that it did;
\* where a late start_story or select_module cannot come between, which the code does not
\* compare for.
THEOREM BegunOnceTheorem ==
  ASSUME "start" \notin Overlapping, "select" \notin Overlapping
  PROVE  Spec => []BegunOnce
<1>. DEFINE Inv == LobbyTypes /\ Begun /\ Staged
<1>1. Init => Inv
  BY InitLobby DEF Init, Begun, Staged, Is, Idle
<1>2. Inv /\ [Next]_vars => Inv'
  BY TypeStep, BegunStep
<1>3. Inv => BegunOnce
  BY DEF Begun, BegunOnce
<1>. QED BY <1>1, <1>2, <1>3, PTL DEF Spec

-----------------------------------------------------------------------------
\* Cards: what a request on a card has loaded is the row, where no other commit of a
\* card comes between.
AsLoaded ==
  \A r \in Requests : Is(r, "card") => cards[request[r].account] = request[r].card

\* Every card there is, and every card about to be inserted, has its roll attested.
Attested(a, card) == card.method = "roll" => card.attributes \in rolled[a]

AttestInv ==
  /\ \A a \in Accounts : cards[a] # None => Attested(a, cards[a])
  /\ \A a \in Accounts : library[a] # None => Attested(a, library[a])
  /\ \A r \in Requests : Is(r, "draft") => Attested(request[r].account, request[r].card)

\* A card counts as complete only as the rules accepted it, a draft about to be inserted is
\* none, and a game is begun with such cards.
Sound(card) == card.status = "complete" => Judged(card)

Fit(actors) == \A actor \in actors : actor.card.status = "complete" /\ Judged(actor.card)

FitInv ==
  /\ \A a \in Accounts : cards[a] # None => Sound(cards[a])
  /\ \A r \in Requests : Is(r, "draft") => request[r].card.status = "draft"
  /\ \A r \in Requests : Is(r, "begin") => Fit(request[r].actors)
  /\ session # None => Fit(session.actors)

CardInv == AsLoaded /\ AttestInv /\ FitInv

\* A commit of a card by a request that is alone: the card that it leaves.
LEMMA WrittenIsSound ==
  ASSUME "card" \notin Overlapping, LobbyTypes, CardInv,
         NEW r \in Requests, Alone(r), Done(r), NEW a \in Accounts, NEW card \in Card,
         Write(a, card), UNCHANGED <<session, library>>,
         \A b \in Accounts : rolled[b] \subseteq rolled'[b],
         Sound(card), card.method = "roll" => card.attributes \in rolled'[a]
  PROVE  CardInv'
<1>. USE DEF LobbyTypes
<1>1. \A q \in Requests : request'[q] = Idle \/ (q # r /\ request'[q] = request[q])
  BY DEF Done, LobbyTypeOK
<1>2. \A q \in Requests : ~Is(q, "card")'
  BY <1>1, NoOther DEF Is, Idle
<1>3. \A b \in Accounts : cards'[b] = IF b = a THEN card ELSE cards[b]
  BY DEF Write, LobbyTypeOK
<1>4. AsLoaded'
  BY <1>2 DEF AsLoaded
<1>5. \A q \in Requests : Is(q, "draft")' => Is(q, "draft") /\ request'[q] = request[q]
  BY <1>1 DEF Is, Idle
<1>6. \A q \in Requests : Is(q, "begin")' => Is(q, "begin") /\ request'[q] = request[q]
  BY <1>1 DEF Is, Idle
<1>7. \A q \in Requests : Is(q, "draft") => request[q].account \in Accounts
  BY RequestShape
<1>8. AttestInv'
  <2>1. \A b \in Accounts : cards'[b] # None /\ cards'[b].method = "roll"
                           => cards'[b].attributes \in rolled'[b]
    BY <1>3 DEF CardInv, AttestInv, Attested
  <2>2. \A b \in Accounts : library'[b] # None /\ library'[b].method = "roll"
        => library'[b].attributes \in rolled'[b]
    BY DEF CardInv, AttestInv, Attested
  <2>3. \A q \in Requests : Is(q, "draft")' /\ request'[q].card.method = "roll"
        => request'[q].card.attributes \in rolled'[request'[q].account]
    BY <1>5, <1>7 DEF CardInv, AttestInv, Attested
  <2>. QED BY <2>1, <2>2, <2>3 DEF AttestInv, Attested
<1>9. FitInv'
  BY <1>3, <1>5, <1>6 DEF CardInv, FitInv, Sound
<1>. QED BY <1>4, <1>8, <1>9 DEF CardInv

\* A commit of a library.
LEMMA KeptIsSound ==
  ASSUME LobbyTypes, CardInv, NEW a \in Accounts, NEW card \in Card \cup {None},
         Keep(a, card), UNCHANGED <<session, request, cards>>,
         \A b \in Accounts : rolled[b] \subseteq rolled'[b],
         card # None => (card.method = "roll" => card.attributes \in rolled'[a])
  PROVE  CardInv'
<1>. USE DEF LobbyTypes
<1>1. \A b \in Accounts : library'[b] = IF b = a THEN card ELSE library[b]
  BY DEF Keep, LobbyTypeOK
<1>2. \A q \in Requests : Is(q, "draft") => request[q].account \in Accounts
  BY RequestShape
<1>3. AttestInv'
  <2>1. \A b \in Accounts : cards'[b] # None /\ cards'[b].method = "roll"
                           => cards'[b].attributes \in rolled'[b]
    BY DEF CardInv, AttestInv, Attested
  <2>2. \A b \in Accounts : library'[b] # None /\ library'[b].method = "roll"
        => library'[b].attributes \in rolled'[b]
    BY <1>1 DEF CardInv, AttestInv, Attested
  <2>3. \A q \in Requests : Is(q, "draft")' /\ request'[q].card.method = "roll"
        => request'[q].card.attributes \in rolled'[request'[q].account]
    BY <1>2 DEF CardInv, AttestInv, Attested, Is
  <2>. QED BY <2>1, <2>2, <2>3 DEF AttestInv, Attested
<1>4. AsLoaded' /\ FitInv'
  BY DEF CardInv, AsLoaded, FitInv, Is, Sound
<1>. QED BY <1>3, <1>4 DEF CardInv

\* A step that commits no card: the requests it leaves are those that were, and one it loads.
LEMMA LoadedIsSound ==
  ASSUME LobbyTypes, CardInv, NEW r \in Requests, NEW q,
         request' = [request EXCEPT ![r] = q],
         q.op = "card" => cards[q.account] = q.card,
         q.op = "draft" => Attested(q.account, q.card) /\ q.card.status = "draft",
         q.op = "begin" => Fit(q.actors),
         UNCHANGED <<cards, library, rolled>>,
         session' # None => Fit(session'.actors)
  PROVE  CardInv'
<1>. USE DEF LobbyTypes
<1>1. \A p \in Requests : request'[p] = IF p = r THEN q ELSE request[p]
  BY DEF LobbyTypeOK
<1>2. AsLoaded'
  BY <1>1 DEF CardInv, AsLoaded, Is
<1>3. AttestInv'
  BY <1>1 DEF CardInv, AttestInv, Attested, Is
<1>4. FitInv'
  BY <1>1 DEF CardInv, FitInv, Sound, Is
<1>. QED BY <1>2, <1>3, <1>4 DEF CardInv
LEMMA CardStep ==
  ASSUME "card" \notin Overlapping, LobbyTypes, CardInv, [Next]_vars
  PROVE  CardInv'
<1>. USE LobbyAssumption DEF LobbyTypes
<1>1. session # None => Fit(session.actors)
  BY DEF CardInv, FitInv
<1>2. ASSUME NEW r \in Requests, Done(r), UNCHANGED <<cards, library, rolled, session>>
      PROVE  CardInv'
  BY <1>1, <1>2, LoadedIsSound DEF Done, Idle
<1>3. ASSUME UNCHANGED <<cards, library, rolled, session, request>> PROVE CardInv'
  BY <1>3 DEF CardInv, AsLoaded, AttestInv, Attested, FitInv, Sound, Is
<1>4. ASSUME NEW r \in Requests, InsertPlayer(r) \/ SelectModule(r) \/ StartStory(r)
      PROVE  CardInv'
  BY <1>2, <1>4 DEF InsertPlayer, SelectModule, StartStory, cardVars
<1>5. ASSUME NEW r \in Requests, BeginGame(r) PROVE CardInv'
  <2>1. Fit(request[r].actors)
    BY <1>5 DEF BeginGame, At, Is, CardInv, FitInv
  <2>2. session' # None => Fit(session'.actors)
    BY <1>1, <1>5, <2>1 DEF BeginGame
  <2>. QED BY <1>5, <2>2, LoadedIsSound DEF BeginGame, Done, Idle, cardVars
<1>6. ASSUME NEW r \in Requests, NEW m \in Modules, LoadSelect(r, m) PROVE CardInv'
  BY <1>1, <1>6, LoadedIsSound DEF LoadSelect, roomVars, cardVars
<1>7. ASSUME NEW r \in Requests, LoadStart(r) PROVE CardInv'
  BY <1>1, <1>7, LoadedIsSound DEF LoadStart, roomVars, cardVars
<1>8. ASSUME NEW r \in Requests, LoadBegin(r) PROVE CardInv'
  <2>. DEFINE actors == {[player |-> p, card |-> cards[p.account]] : p \in players}
              q == [op |-> "begin", module |-> room.module, actors |-> actors]
  <2>1. ASSUME NEW p \in players
        PROVE  cards[p.account].status = "complete" /\ Judged(cards[p.account])
    <3>1. p.account \in Accounts
      BY DEF LobbyTypeOK, Player
    <3>. QED BY <1>8, <3>1 DEF LoadBegin, CardInv, FitInv, Sound
  <2>2. Fit(actors)
    BY <2>1 DEF Fit
  <2>3. /\ request' = [request EXCEPT ![r] = q]
        /\ UNCHANGED <<session, cards, library, rolled>>
    BY <1>8 DEF LoadBegin, roomVars, cardVars
  <2>4. q.op = "begin" /\ q.actors = actors
    OBVIOUS
  <2>. HIDE DEF q, actors
  <2>. QED BY <1>1, <2>2, <2>3, <2>4, LoadedIsSound
<1>9. ASSUME NEW r \in Requests, NEW a \in Accounts, LoadJoin(r, a) PROVE CardInv'
  <2>1. CASE UNCHANGED request
    BY <1>3, <1>9, <2>1 DEF LoadJoin, cardVars
  <2>2. CASE request' = [request EXCEPT ![r] = [op |-> "join", account |-> a]]
    BY <1>1, <1>9, <2>2, LoadedIsSound DEF LoadJoin, cardVars
  <2>. QED BY <1>9, <2>1, <2>2 DEF LoadJoin
<1>10. ASSUME NEW r \in Requests, NEW a \in Accounts, LoadCard(r, a) PROVE CardInv'
  BY <1>1, <1>10, LoadedIsSound DEF LoadCard, roomVars, cardVars
<1>11. ASSUME NEW r \in Requests, NEW a \in Accounts, NEW from \in BOOLEAN, LoadDraft(r, a, from)
       PROVE  CardInv'
  <2>. DEFINE card == IF from THEN SeededCard(library[a]) ELSE NewCard
              q == [op |-> "draft", account |-> a, from |-> from, card |-> card]
  <2>1. from => Attested(a, library[a])
    BY <1>11 DEF LoadDraft, CardInv, AttestInv
  <2>2. card.status = "draft" /\ Attested(a, card)
    BY <2>1 DEF SeededCard, NewCard, Attested
  <2>3. /\ request' = [request EXCEPT ![r] = q]
        /\ UNCHANGED <<session, cards, library, rolled>>
    BY <1>11 DEF LoadDraft, roomVars, cardVars
  <2>4. q.op = "draft" /\ q.account = a /\ q.card = card
    OBVIOUS
  <2>. HIDE DEF q, card
  <2>. QED BY <1>1, <2>2, <2>3, <2>4, LoadedIsSound
<1>12. ASSUME NEW r \in Requests, InsertDraft(r) PROVE CardInv'
  <2>1. CASE cards[request[r].account] = None
    <3>1. request[r].account \in Accounts /\ request[r].card \in Card
      BY <1>12, RequestShape DEF InsertDraft, At, Is
    <3>2. request[r].card.status = "draft" /\ Attested(request[r].account, request[r].card)
      BY <1>12 DEF InsertDraft, At, Is, CardInv, FitInv, AttestInv
    <3>3. /\ Write(request[r].account, request[r].card) /\ Alone(r) /\ Done(r)
          /\ UNCHANGED <<session, library, rolled>>
      BY <1>12, <2>1 DEF InsertDraft, At, roomVars
    <3>. QED BY <3>1, <3>2, <3>3, WrittenIsSound DEF Sound, Attested
  <2>2. CASE cards[request[r].account] # None
    BY <1>2, <1>12, <2>2 DEF InsertDraft, roomVars
  <2>. QED BY <2>1, <2>2
\* What a request on a card finds.
<1>13. ASSUME NEW r \in Requests, At(r, "card")
       PROVE  LET a == request[r].account IN
              /\ a \in Accounts /\ cards[a] \in Card /\ request[r].card = cards[a]
              /\ Sound(cards[a]) /\ Attested(a, cards[a]) /\ Alone(r)
  <2>1. request[r].account \in Accounts /\ cards[request[r].account] \in Card
    BY <1>13, LoadedCard
  <2>2. cards[request[r].account] # None
    BY <2>1, NoneAssumption
  <2>. QED BY <1>13, <2>1, <2>2 DEF CardInv, AsLoaded, AttestInv, FitInv, At, Is
<1>14. ASSUME NEW r \in Requests, CompleteCharacter(r) PROVE CardInv'
  <2>. DEFINE a == request[r].account
              card == [cards[a] EXCEPT !.status = "complete"]
  <2>1. CASE Judged(request[r].card)
    <3>1. /\ a \in Accounts /\ cards[a] \in Card /\ Judged(cards[a])
          /\ Attested(a, cards[a]) /\ Alone(r)
      BY <1>13, <1>14, <2>1 DEF CompleteCharacter
    <3>2. card \in Card /\ Sound(card) /\ Attested(a, card)
      BY <3>1 DEF Card, Sound, Judged, Attested
    <3>3. Write(a, card) /\ Done(r) /\ UNCHANGED <<session, library, rolled>>
      BY <1>14, <2>1 DEF CompleteCharacter, roomVars
    <3>. HIDE DEF card, a
    <3>. QED BY <3>1, <3>2, <3>3, WrittenIsSound DEF Attested
  <2>2. CASE ~Judged(request[r].card)
    BY <1>2, <1>14, <2>2 DEF CompleteCharacter, roomVars
  <2>. QED BY <2>1, <2>2
<1>15. ASSUME NEW r \in Requests, NEW attributes \in Attributes, NEW build \in Builds,
              UpdateCharacter(r, attributes, build)
       PROVE  CardInv'
  <2>. DEFINE a == request[r].account
              card == [cards[a] EXCEPT !.status = Modified(request[r].card, cards[a]),
                                       !.attributes = attributes, !.build = build,
                                       !.method = MethodAfter(request[r].card, cards[a], attributes)]
  <2>1. /\ a \in Accounts /\ cards[a] \in Card /\ request[r].card = cards[a]
        /\ Attested(a, cards[a]) /\ Alone(r)
    BY <1>13, <1>15 DEF UpdateCharacter
  <2>2. card \in Card /\ card.status = "draft"
    BY <2>1 DEF Card, Modified, MethodAfter
  <2>3. Attested(a, card)
    BY <2>1 DEF Card, MethodAfter, Attested
  <2>4. Write(a, card) /\ Done(r) /\ UNCHANGED <<session, library, rolled>>
    BY <1>15 DEF UpdateCharacter, roomVars
  <2>. HIDE DEF card, a
  <2>. QED BY <2>1, <2>2, <2>3, <2>4, WrittenIsSound DEF Attested, Sound
<1>16. ASSUME NEW r \in Requests, NEW attributes \in Rolls,
              Roll(r, attributes) \/ QuickGenerate(r, attributes)
       PROVE  CardInv'
  <2>. DEFINE a == request[r].account
              Card_(build) == [cards[a] EXCEPT !.status = Modified(request[r].card, cards[a]),
                                       !.attributes = attributes, !.build = build,
                                       !.method = "roll"]
  <2>1. a \in Accounts /\ cards[a] \in Card /\ request[r].card = cards[a] /\ Alone(r)
    BY <1>13, <1>16 DEF Roll, QuickGenerate, RollAttributes
  <2>2. PICK build : /\ build = cards[a].build \/ build \in Generated[attributes]
                     /\ Write(a, Card_(build))
    BY <1>16 DEF Roll, QuickGenerate, RollAttributes
  <2>3. /\ Card_(build) \in Card /\ Card_(build).status = "draft"
        /\ Card_(build).attributes = attributes
    <3>1. Modified(request[r].card, cards[a]) = "draft"
      BY <2>1 DEF Card, Modified
    <3>2. attributes \in Attributes
      BY LobbyAssumption
    <3>3. build \in {None} \cup Builds \cup UNION {Generated[d] : d \in Rolls}
      <4>1. cards[a].build \in {None} \cup Builds \cup UNION {Generated[d] : d \in Rolls}
        BY <2>1 DEF Card
      <4>. QED BY <2>2, <4>1
    <3>. QED BY <2>1, <3>1, <3>2, <3>3 DEF Card
  <2>4. /\ rolled' = [rolled EXCEPT ![a] = @ \cup {attributes}]
        /\ UNCHANGED <<session, library>> /\ Done(r)
    BY <1>16 DEF Roll, QuickGenerate, RollAttributes, roomVars
  <2>5. attributes \in rolled'[a] /\ \A b \in Accounts : rolled[b] \subseteq rolled'[b]
    BY <2>1, <2>4 DEF LobbyTypeOK
  <2>6. Write(a, Card_(build))
    BY <2>2
  <2>. HIDE DEF Card_, a
  <2>. QED BY <2>1, <2>3, <2>4, <2>5, <2>6, WrittenIsSound DEF Sound
<1>17. ASSUME NEW a \in Accounts, DeleteTemplate(a) PROVE CardInv'
  BY <1>17, KeptIsSound DEF DeleteTemplate, roomVars
<1>18. ASSUME NEW a \in Accounts, NEW attributes \in Attributes, NEW build \in Builds,
              SaveTemplate(a, attributes, build)
       PROVE  CardInv'
  <2>. DEFINE card == [NewCard EXCEPT !.attributes = attributes, !.build = build]
  <2>1. card \in Card /\ card.method = "pointbuy"
    BY DEF Card, NewCard
  <2>2. Keep(a, card) /\ UNCHANGED <<session, request, cards, rolled>>
    BY <1>18 DEF SaveTemplate, roomVars
  <2>. HIDE DEF card
  <2>. QED BY <2>1, <2>2, KeptIsSound
<1>19. ASSUME NEW a \in Accounts, NEW attributes \in Attributes, NEW build \in Builds,
              UpdateTemplate(a, attributes, build)
       PROVE  CardInv'
  <2>. DEFINE method == IF library[a].method = "roll" /\ attributes = library[a].attributes
                        THEN "roll" ELSE "pointbuy"
              card == [library[a] EXCEPT !.attributes = attributes, !.build = build,
                                         !.method = method]
  <2>1. library[a] \in Card /\ Attested(a, library[a])
    BY <1>19 DEF UpdateTemplate, LobbyTypeOK, CardInv, AttestInv
  <2>2. card \in Card /\ Attested(a, card)
    BY <2>1 DEF Card, Attested
  <2>3. Keep(a, card) /\ UNCHANGED <<session, request, cards, rolled>>
    BY <1>19 DEF UpdateTemplate, roomVars
  <2>. HIDE DEF card
  <2>. QED BY <2>2, <2>3, KeptIsSound DEF Attested
<1>20. ASSUME NEW a \in Accounts, library[a] # None, NEW attributes \in Rolls,
              \/ RollTemplate(a, attributes, {library[a].build})
              \/ RollTemplate(a, attributes, Generated[attributes])
       PROVE  CardInv'
  <2>. DEFINE Card_(build) == [library[a] EXCEPT !.attributes = attributes, !.build = build,
                                                 !.method = "roll"]
  <2>1. library[a] \in Card
    BY <1>20 DEF LobbyTypeOK
  <2>2. PICK build : /\ build = library[a].build \/ build \in Generated[attributes]
                     /\ Keep(a, Card_(build))
    BY <1>20 DEF RollTemplate
  <2>3. Card_(build) \in Card /\ Card_(build).attributes = attributes
    <3>1. attributes \in Attributes
      BY LobbyAssumption
    <3>2. build \in {None} \cup Builds \cup UNION {Generated[d] : d \in Rolls}
      <4>1. library[a].build \in {None} \cup Builds \cup UNION {Generated[d] : d \in Rolls}
        BY <2>1 DEF Card
      <4>. QED BY <2>2, <4>1
    <3>. QED BY <2>1, <3>1, <3>2 DEF Card
  <2>4. /\ rolled' = [rolled EXCEPT ![a] = @ \cup {attributes}]
        /\ UNCHANGED <<session, request, cards>>
    BY <1>20 DEF RollTemplate, roomVars
  <2>5. attributes \in rolled'[a] /\ \A b \in Accounts : rolled[b] \subseteq rolled'[b]
    BY <2>4 DEF LobbyTypeOK
  <2>6. Keep(a, Card_(build))
    BY <2>2
  <2>. HIDE DEF Card_
  <2>. QED BY <2>3, <2>4, <2>5, <2>6, KeptIsSound
<1>21. CASE UNCHANGED vars
  BY <1>3, <1>21 DEF vars
<1>. QED
  BY <1>4, <1>5, <1>6, <1>7, <1>8, <1>9, <1>10, <1>11, <1>12, <1>14, <1>15, <1>16, <1>17,
     <1>18, <1>19, <1>20, <1>21 DEF Next

LEMMA CardInvariant ==
  ASSUME "card" \notin Overlapping
  PROVE  Spec => [](LobbyTypes /\ CardInv)
<1>1. Init => LobbyTypes /\ CardInv
  BY InitLobby DEF Init, CardInv, AsLoaded, AttestInv, FitInv, Is, Idle
<1>2. LobbyTypes /\ CardInv /\ [Next]_vars => LobbyTypes' /\ CardInv'
  BY TypeStep, CardStep
<1>. QED BY <1>1, <1>2, PTL DEF Spec

\* Attributes that count as rolled, and so escape the budget of points, were rolled by the
\* server for this account, whatever was edited, rolled, saved to a library and drawn
\* from it, as long as the edits of one card do not interleave.
THEOREM RollIsAttestedTheorem ==
  ASSUME "card" \notin Overlapping
  PROVE  Spec => []RollIsAttested
<1>1. CardInv => RollIsAttested
  BY DEF CardInv, AttestInv, Attested, RollIsAttested
<1>. QED BY <1>1, CardInvariant, PTL

\* The game is played with cards that were complete when they were copied and that the
\* rules accept, whatever joins, drafts, edits and library cards raced with game.start, as
\* long as the edits of one card do not interleave.
THEOREM ActorsAreJudgedTheorem ==
  ASSUME "card" \notin Overlapping
  PROVE  Spec => []ActorsAreJudged
<1>1. CardInv => ActorsAreJudged
  BY DEF CardInv, FitInv, Fit, ActorsAreJudged
<1>. QED BY <1>1, CardInvariant, PTL

-----------------------------------------------------------------------------
(* The client's side of a room, for any rooms, actions, lines and          *)
(* narrations: its one line, and the view and promises that go with it.    *)

ClientInv == ClientTypeOK /\ OneLine /\ ViewIsOfTheRoom /\ PromiseIsOfTheLine

\* What the lines are like, one by one.
LEMMA Lines ==
  ASSUME ClientTypeOK
  PROVE  /\ Len(lines) \in Nat /\ DOMAIN lines = 1..Len(lines) /\ ws \in Nat
         /\ \A n \in DOMAIN lines : lines[n] \in WebSocket
         /\ ws # 0 => ws \in DOMAIN lines
BY DEF ClientTypeOK

\* A step that changes lines where they are: none comes up, and none changes its room.
LinesKept(new) ==
  /\ new \in Seq(WebSocket) /\ Len(new) = Len(lines)
  /\ \A n \in DOMAIN lines : /\ new[n].room = lines[n].room
                             /\ new[n].state \in Live => lines[n].state \in Live

LEMMA SameIsKept == ASSUME ClientTypeOK PROVE LinesKept(lines)
BY DEF LinesKept, ClientTypeOK

LEMMA OneIsKept ==
  ASSUME ClientTypeOK, NEW n \in DOMAIN lines, NEW line \in WebSocket,
         line.room = lines[n].room, line.state \in Live => lines[n].state \in Live
  PROVE  LinesKept([lines EXCEPT ![n] = line])
BY DEF LinesKept, ClientTypeOK

LEMMA ClosedIsKept ==
  ASSUME ClientTypeOK, NEW n, n = 0 \/ n \in DOMAIN lines
  PROVE  /\ LinesKept(Closed(lines, n))
         /\ n # 0 => Closed(lines, n)[n].state \notin Live
<1>1. CASE n = 0 \/ lines[n].state \notin Live
  BY <1>1, SameIsKept DEF Closed
<1>2. CASE n # 0 /\ lines[n].state \in Live
  <2>. DEFINE line == [Line(lines[n].room) EXCEPT !.state = "closing"]
  <2>1. lines[n] \in WebSocket
    BY <1>2, Lines
  <2>2. line \in WebSocket /\ line.room = lines[n].room /\ line.state = "closing"
    BY <2>1 DEF Line, WebSocket
  <2>3. Closed(lines, n) = [lines EXCEPT ![n] = line]
    BY <1>2 DEF Closed
  <2>. HIDE DEF line
  <2>4. Closed(lines, n)[n] = line
    BY <1>2, <2>3 DEF ClientTypeOK
  <2>. QED BY <1>2, <2>2, <2>3, <2>4, OneIsKept DEF Live
<1>. QED BY <1>1, <1>2

\* The client keeps its line, or has none any more, while lines change where they are.
LEMMA KeptIsFine ==
  ASSUME ClientInv, LinesKept(lines'),
         \/ ws' = ws /\ pending' \subseteq pending
         \/ ws' = 0 /\ pending' = {} /\ \A n \in DOMAIN lines' : lines'[n].state \notin Live,
         playerView' = playerView \/ (ws # 0 /\ playerView' = lines[ws].room),
         UNCHANGED sentOn, told' \in 0..MaxStories
  PROVE  ClientInv'
<1>. USE DEF ClientInv, LinesKept
<1>1. DOMAIN lines' = DOMAIN lines
  BY DEF ClientTypeOK
<1>2. ws # 0 => lines[ws].room \in Rooms
  BY Lines DEF WebSocket
<1>3. ClientTypeOK'
  BY <1>2 DEF ClientTypeOK
<1>4. OneLine'
  BY <1>1 DEF OneLine
<1>5. ViewIsOfTheRoom'
  BY <1>1, Lines DEF ViewIsOfTheRoom
<1>6. PromiseIsOfTheLine'
  BY DEF PromiseIsOfTheLine
<1>. QED BY <1>3, <1>4, <1>5, <1>6

LEMMA ClientStep == ClientInv /\ [ClientNext]_clientVars => ClientInv'
<1>. SUFFICES ASSUME ClientInv, [ClientNext]_clientVars PROVE ClientInv'
  OBVIOUS
<1>. USE DEF ClientInv
<1>1. told \in 0..MaxStories /\ LinesKept(lines)
  BY SameIsKept DEF ClientTypeOK
<1>2. ASSUME UNCHANGED <<socketVars, told>> PROVE ClientInv'
  BY <1>1, <1>2, KeptIsFine DEF socketVars
<1>3. ASSUME NEW r \in Rooms, Connect(r) PROVE ClientInv'
  <2>. DEFINE old == Closed(lines, ws)
  <2>1. LinesKept(old) /\ (ws # 0 => old[ws].state \notin Live)
    BY Lines, ClosedIsKept
  <2>2. Line(r) \in WebSocket
    BY DEF Line, WebSocket
  <2>3. /\ lines' = Append(old, Line(r)) /\ ws' = Len(lines') /\ pending' = {}
        /\ playerView' = Nothing /\ UNCHANGED <<sentOn, told>>
    BY <1>3 DEF Connect, Rejected
  <2>. HIDE DEF old
  <2>4. /\ lines' \in Seq(WebSocket) /\ Len(lines') = Len(lines) + 1
        /\ Len(lines) \in Nat /\ DOMAIN lines = 1..Len(lines) /\ DOMAIN lines' = 1..Len(lines) + 1
        /\ \A n \in DOMAIN lines : lines'[n] = old[n]
    BY <2>1, <2>2, <2>3 DEF LinesKept, ClientTypeOK
  <2>5. ClientTypeOK'
    BY <2>3, <2>4 DEF ClientTypeOK
  <2>6. ASSUME NEW n \in DOMAIN lines PROVE lines'[n].state \notin Live
    BY <2>1, <2>4 DEF LinesKept, OneLine
  <2>7. OneLine'
    BY <2>3, <2>4, <2>6 DEF OneLine
  <2>. QED BY <2>3, <2>5, <2>7 DEF ViewIsOfTheRoom, PromiseIsOfTheLine
<1>4. CASE Disconnect
  <2>1. LinesKept(Closed(lines, ws)) /\ (ws # 0 => Closed(lines, ws)[ws].state \notin Live)
    BY Lines, ClosedIsKept
  <2>2. \A n \in DOMAIN lines' : lines'[n].state \notin Live
    BY <1>4, <2>1, Lines DEF Disconnect, LinesKept, OneLine
  <2>. QED BY <1>1, <1>4, <2>1, <2>2, KeptIsFine DEF Disconnect, Rejected
<1>5. ASSUME NEW n \in DOMAIN lines, OnClose(n) PROVE ClientInv'
  <2>. DEFINE line == [lines[n] EXCEPT !.state = "closed"]
  <2>1. lines[n] \in WebSocket /\ lines[n].state = "closing"
    BY <1>5, Lines DEF OnClose
  <2>2. line \in WebSocket /\ line.room = lines[n].room /\ line.state = "closed"
    BY <2>1 DEF WebSocket
  <2>3. lines' = [lines EXCEPT ![n] = line]
    BY <1>5 DEF OnClose
  <2>. HIDE DEF line
  <2>4. LinesKept(lines') /\ lines'[n].state \notin Live /\ DOMAIN lines' = DOMAIN lines
    BY <2>2, <2>3, OneIsKept DEF Live, ClientTypeOK
  <2>5. ws = n => \A m \in DOMAIN lines' : lines'[m].state \notin Live
    BY <2>4 DEF LinesKept, OneLine
  <2>. QED BY <1>1, <1>5, <2>4, <2>5, KeptIsFine DEF OnClose, IsCurrent, Rejected
<1>6. ASSUME NEW a \in Actions, SubmitPlannedAction(a) PROVE ClientInv'
  <2>1. CASE CanSend
    <3>1. /\ pending' = pending \union {a} /\ sentOn' = [sentOn EXCEPT ![a] = ws] /\ ws # 0
          /\ UNCHANGED <<lines, ws, playerView, told>>
      BY <1>6, <2>1 DEF SubmitPlannedAction, CanSend
    <3>2. ClientTypeOK'
      BY <3>1, Lines DEF ClientTypeOK
    <3>3. PromiseIsOfTheLine'
      BY <3>1 DEF PromiseIsOfTheLine, ClientTypeOK
    <3>. QED BY <3>1, <3>2, <3>3 DEF OneLine, ViewIsOfTheRoom
  <2>2. CASE ~CanSend
    BY <1>2, <1>6, <2>2 DEF SubmitPlannedAction, socketVars
  <2>. QED BY <2>1, <2>2
<1>7. ASSUME NEW n \in DOMAIN lines, Opens(n) PROVE ClientInv'
  <2>. DEFINE line == [lines[n] EXCEPT !.state = "open"]
  <2>1. lines[n] \in WebSocket /\ lines[n].state = "connecting"
    BY <1>7, Lines DEF Opens
  <2>2. line \in WebSocket /\ line.room = lines[n].room /\ lines[n].state \in Live
    BY <2>1 DEF WebSocket, Live
  <2>3. lines' = [lines EXCEPT ![n] = line]
    BY <1>7 DEF Opens
  <2>. HIDE DEF line
  <2>4. LinesKept(lines')
    BY <2>2, <2>3, OneIsKept
  <2>. QED BY <1>1, <1>7, <2>4, KeptIsFine DEF Opens
<1>8. ASSUME NEW n \in DOMAIN lines, Breaks(n) PROVE ClientInv'
  <2>1. LinesKept(lines')
    BY <1>8, ClosedIsKept DEF Breaks
  <2>. QED BY <1>1, <1>8, <2>1, KeptIsFine DEF Breaks
\* What a frame changes: an open line is the client's own.
<1>9. ASSUME NEW n \in DOMAIN lines, NEW f, Receive(n, f), LinesKept(lines'), UNCHANGED told
      PROVE  ClientInv'
  <2>1. ws = n
    BY <1>9 DEF Receive, OneLine, Live
  <2>2. ws # 0
    BY <2>1, Lines
  <2>3. /\ ws' = ws /\ pending' \subseteq pending /\ UNCHANGED sentOn
        /\ playerView' = playerView \/ playerView' = lines[ws].room
    BY <1>9, <2>1 DEF Receive
  <2>. QED BY <1>1, <1>9, <2>2, <2>3, KeptIsFine
<1>10. ASSUME NEW n \in DOMAIN lines, NEW a \in Actions, Answers(n, a) PROVE ClientInv'
  BY <1>1, <1>9, <1>10 DEF Answers
<1>11. ASSUME NEW n \in DOMAIN lines, Informs(n) PROVE ClientInv'
  BY <1>1, <1>9, <1>11 DEF Informs
<1>12. ASSUME NEW n \in DOMAIN lines, StartsStory(n) PROVE ClientInv'
  <2>1. PICK story \in 1..told, next \in {1, Fragments + 1} :
          lines' = [lines EXCEPT ![n].story = story, ![n].next = next]
    BY <1>12 DEF StartsStory
  <2>. DEFINE line == [lines[n] EXCEPT !.story = story, !.next = next]
  <2>2. lines[n] \in WebSocket /\ story \in Nat /\ next \in Nat
    BY <1>1, ClientAssumption, Lines
  <2>3. /\ line \in WebSocket /\ line.room = lines[n].room /\ line.state = lines[n].state
        /\ lines' = [lines EXCEPT ![n] = line]
    BY <2>1, <2>2 DEF WebSocket
  <2>. HIDE DEF line
  <2>4. LinesKept(lines')
    BY <2>3, OneIsKept
  <2>. QED BY <1>1, <1>12, <2>4, KeptIsFine DEF StartsStory
<1>13. ASSUME NEW n \in DOMAIN lines, SendsFragment(n) PROVE ClientInv'
  <2>. DEFINE line == [lines[n] EXCEPT !.next = @ + 1]
  <2>1. lines[n] \in WebSocket
    BY Lines
  <2>2. /\ line \in WebSocket /\ line.room = lines[n].room /\ line.state = lines[n].state
        /\ lines' = [lines EXCEPT ![n] = line]
    BY <1>13, <2>1 DEF WebSocket, SendsFragment
  <2>. HIDE DEF line
  <2>3. LinesKept(lines')
    BY <2>2, OneIsKept
  <2>. QED BY <1>9, <1>13, <2>3 DEF SendsFragment
<1>14. ASSUME NEW n \in DOMAIN lines, SendsStory(n) PROVE ClientInv'
  <2>. DEFINE line == [lines[n] EXCEPT !.story = 0, !.next = 0]
  <2>1. lines[n] \in WebSocket
    BY Lines
  <2>2. /\ line \in WebSocket /\ line.room = lines[n].room /\ line.state = lines[n].state
        /\ lines' = [lines EXCEPT ![n] = line]
    BY <1>14, <2>1 DEF WebSocket, SendsStory
  <2>. HIDE DEF line
  <2>3. LinesKept(lines')
    BY <2>2, OneIsKept
  <2>. QED BY <1>9, <1>14, <2>3 DEF SendsStory
<1>15. CASE Tick \/ CommitNarration \/ LoadHistory
  BY <1>2, <1>15 DEF Tick, CommitNarration, LoadHistory
<1>16. CASE StoresStory
  <2>1. told' \in 0..MaxStories
    BY <1>1, <1>16, ClientAssumption DEF StoresStory
  <2>. QED BY <1>1, <1>16, <2>1, KeptIsFine DEF StoresStory, socketVars
<1>17. CASE UNCHANGED clientVars
  BY <1>2, <1>17 DEF clientVars
<1>. QED
  BY <1>3, <1>4, <1>5, <1>6, <1>7, <1>8, <1>10, <1>11, <1>12, <1>13, <1>14, <1>15, <1>16,
     <1>17 DEF ClientNext

\* The inductive invariant.
THEOREM ClientInvariant == ClientSpec => []ClientInv
<1>1. ASSUME ClientInit PROVE ClientInv
  <2>1. lines \in Seq(WebSocket) /\ Len(lines) = 0 /\ DOMAIN lines = {}
    BY <1>1 DEF ClientInit
  <2>. QED
    BY <1>1, <2>1, ClientAssumption
    DEF ClientInit, ClientInv, ClientTypeOK, OneLine, ViewIsOfTheRoom, PromiseIsOfTheLine
<1>. QED BY <1>1, ClientStep, PTL DEF ClientSpec

\* The client's socket holds the only line that is up, however often it connects to rooms,
\* lines break and old ones close late.
THEOREM OneLineTheorem == ClientSpec => []OneLine
<1>1. ClientInv => OneLine
  BY DEF ClientInv
<1>. QED BY <1>1, ClientInvariant, PTL

\* The cached view is one of the room the client is connected to: a frame of another room
\* cannot arrive any more.
THEOREM ViewIsOfTheRoomTheorem == ClientSpec => []ViewIsOfTheRoom
<1>1. ClientInv => ViewIsOfTheRoom
  BY DEF ClientInv
<1>. QED BY <1>1, ClientInvariant, PTL

\* No promise is left of a line that was replaced or lost.
THEOREM PromiseIsOfTheLineTheorem == ClientSpec => []PromiseIsOfTheLine
<1>1. ClientInv => PromiseIsOfTheLine
  BY DEF ClientInv
<1>. QED BY <1>1, ClientInvariant, PTL
=============================================================================
