--------------------------- MODULE GameLogicProofs ---------------------------
(***************************************************************************)
(* Proofs about GameLogic for any number of players and hearts, any clock, *)
(* any dictionary and any frames: its invariants, that it implements       *)
(* GameRules as long as nobody leaves a game at the wrong moment, and that *)
(* a client can follow it by its messages.                                 *)
(***************************************************************************)
EXTENDS ClientView, OrderFacts, SequenceTheorems

Player == [id : Id, hp : 0 .. MAX_HP]

(* No two places of the list hold one id, and all hold connected clients.  *)
UniqueIds ==
  /\ \A i, j \in 1 .. Len(players) : players[i].id = players[j].id => i = j
  /\ \A i \in 1 .. Len(players) : players[i].id \in connected

(* Two players with hearts, and a turn that points to a player: what       *)
(* next_turn() needs and does not check.                                   *)
GameCanGoOn ==
  ~AnyDeparture /\ game_started /\ fault = "none" =>
    /\ player_turn # FREED
    /\ \E i, j \in AlivePlaces(players) : i # j

IInv ==
  /\ TypeOK
  /\ UniqueIds
  /\ TurnHolderAlive
  /\ LobbyIsFresh
  /\ GameCanGoOn
  /\ OnlyLateWordsStop

----------------------------------------------------------------------------
(* Going round a list of n places from place i. *)
LEMMA GoingRound ==
  ASSUME NEW list \in Seq(Player), NEW i \in 1 .. Len(list), NEW k \in 1 .. Len(list)
  PROVE  After(list, i, k) = IF i + k <= Len(list) THEN i + k ELSE i + k - Len(list)
<1>1. ASSUME NEW n \in Nat \ {0}, NEW x \in 0 .. n - 1
      PROVE  x % n = x
  OBVIOUS
<1>2. ASSUME NEW n \in Nat \ {0}, NEW x \in n .. 2 * n - 1
      PROVE  x % n = x - n
  OBVIOUS
<1>3. Len(list) \in Nat \ {0} /\ i - 1 + k \in Int
  OBVIOUS
<1>4. CASE i + k <= Len(list)
  <2>1. i - 1 + k \in 0 .. Len(list) - 1
    BY <1>4
  <2>2. (i - 1 + k) % Len(list) = i - 1 + k
    BY <1>1, <1>3, <2>1
  <2>3. QED
    BY <1>4, <2>2 DEF After
<1>5. CASE ~(i + k <= Len(list))
  <2> DEFINE n == Len(list)
             x == i - 1 + k
  <2>1. n \in Nat \ {0} /\ x \in n .. 2 * n - 1
    BY <1>3, <1>5
  <2>2. x % n = x - n
    <3> HIDE DEF n, x
    <3> QED
      BY <1>2, <2>1
  <2>3. QED
    BY <1>5, <2>2 DEF After
<1>6. QED
  BY <1>4, <1>5

(* get_next_alive_player() returns a player with hearts other than the one *)
(* it starts from, or NULL; and it returns NULL only if there is none.     *)
LEMMA NextAlive ==
  ASSUME NEW list \in Seq(Player), NEW i \in 1 .. Len(list),
         \A m, n \in 1 .. Len(list) : list[m].id = list[n].id => m = n
  PROVE  /\ get_next_alive_player(list, i) \in (AlivePlaces(list) \ {i}) \cup {NULL}
         /\ (\E j \in AlivePlaces(list) : j # i) => get_next_alive_player(list, i) # NULL
<1> DEFINE Ends == WalkEnds(list, i)
           least == CHOOSE k \in Ends : \A j \in Ends : k <= j
<1>1. Ends \in SUBSET Nat /\ \A k \in Ends : k \in 1 .. Len(list)
  BY DEF WalkEnds
<1>2. Ends # {}
  <2>1. After(list, i, Len(list)) = i
    BY GoingRound
  <2>2. Len(list) \in Ends
    BY <2>1 DEF WalkEnds
  <2>3. QED
    BY <2>2
<1>3. least \in Ends /\ \A j \in Ends : least <= j
  <2> HIDE DEF Ends
  <2>1. \E k \in Ends : \A j \in Ends : k <= j
    BY <1>1, <1>2, LeastElement
  <2>2. QED
    BY <2>1
<1> DEFINE stop == After(list, i, least)
<1>4. least \in 1 .. Len(list)
  BY <1>1, <1>3
<1>5. stop \in 1 .. Len(list) /\ (least < Len(list) => stop # i)
  <2>1. stop = IF i + least <= Len(list) THEN i + least ELSE i + least - Len(list)
    BY <1>4, GoingRound
  <2> HIDE DEF least, stop
  <2>2. QED
    BY <1>4, <2>1
<1>6. get_next_alive_player(list, i) = IF list[stop].id = list[i].id THEN NULL ELSE stop
  BY DEF get_next_alive_player
<1>7. list[stop].hp > 0 \/ list[stop].id = list[i].id
  BY <1>3 DEF WalkEnds
<1> HIDE DEF stop, least
<1>8. get_next_alive_player(list, i) \in (AlivePlaces(list) \ {i}) \cup {NULL}
  BY <1>5, <1>6, <1>7 DEF AlivePlaces
<1>9. ASSUME NEW j \in AlivePlaces(list), j # i
      PROVE  get_next_alive_player(list, i) # NULL
  <2> DEFINE k == IF j > i THEN j - i ELSE j - i + Len(list)
  <2>1. j \in 1 .. Len(list) /\ list[j].hp > 0
    BY DEF AlivePlaces
  <2>2. k \in 1 .. Len(list) - 1
    BY <1>9, <2>1
  <2>3. After(list, i, k) = IF i + k <= Len(list) THEN i + k ELSE i + k - Len(list)
    BY <2>2, GoingRound
  <2>4. After(list, i, k) = j
    BY <2>1, <2>3
  <2>5. k \in Ends
    BY <2>1, <2>2, <2>4 DEF WalkEnds
  <2>6. least <= k
    BY <1>3, <2>5
  <2>7. stop # i
    BY <1>4, <1>5, <2>2, <2>6
  <2>8. list[stop].id # list[i].id
    BY <1>5, <2>7
  <2>9. QED
    BY <1>5, <1>6, <2>8 DEF NULL
<1>10. QED
  BY <1>8, <1>9

(* Counting to two. *)
LEMMA TwoElements ==
  ASSUME NEW S, IsFiniteSet(S)
  PROVE  /\ Cardinality(S) \in Nat
         /\ Cardinality(S) >= 2 <=> \E x, y \in S : x # y
         /\ Cardinality(S) = 0 <=> S = {}
<1>1. Cardinality(S) \in Nat
  BY FS_CardinalityType
<1>2. Cardinality(S) = 0 <=> S = {}
  BY FS_EmptySet
<1>3. Cardinality(S) = 1 <=> \E x : S = {x}
  BY FS_Singleton
<1>4. (\E x, y \in S : x # y) <=> ~(S = {}) /\ ~(\E x : S = {x})
  OBVIOUS
<1>5. QED
  BY <1>1, <1>2, <1>3, <1>4

LEMMA AliveCount ==
  ASSUME NEW list \in Seq(Player)
  PROVE  /\ IsFiniteSet(AlivePlaces(list))
         /\ get_alive_player_count(list) \in Nat
         /\ get_alive_player_count(list) >= 2 <=> \E i, j \in AlivePlaces(list) : i # j
         /\ get_alive_player_count(list) = 0 <=> AlivePlaces(list) = {}
<1>1. IsFiniteSet(1 .. Len(list)) /\ AlivePlaces(list) \in SUBSET (1 .. Len(list))
  BY FS_Interval DEF AlivePlaces
<1>2. IsFiniteSet(AlivePlaces(list))
  BY <1>1, FS_Subset
<1>3. QED
  BY <1>2, TwoElements DEF get_alive_player_count

(* Who gets the turn has hearts, and somebody gets it if two players do.   *)
LEMMA NextHolderAlive ==
  ASSUME NEW list \in Seq(Player),
         player_turn \in 1 .. Len(list) \cup {NULL},
         \A m, n \in 1 .. Len(list) : list[m].id = list[n].id => m = n,
         player_turn = NULL => 1 \in AlivePlaces(list)
  PROVE  /\ NextHolder(list) \in AlivePlaces(list) \cup {NULL}
         /\ (\E i \in AlivePlaces(list) : i # player_turn) => NextHolder(list) # NULL
<1>1. CASE player_turn = NULL
  BY <1>1 DEF NextHolder, NULL
<1>2. CASE player_turn \in 1 .. Len(list)
  BY <1>2, NextAlive DEF NextHolder, NULL
<1>3. QED
  BY <1>1, <1>2

(* start_turn_timer stays between one tick and its start. *)
LEMMA ShortenRange ==
  ASSUME NEW t \in 1 .. MAX_TURN_TIMER
  PROVE  Shorten(t) \in 1 .. MAX_TURN_TIMER
BY GameAssumption DEF Shorten

(* Every initial state satisfies the inductive invariant. *)
LEMMA InitIInv == Init => IInv
<1> SUFFICES ASSUME Init PROVE IInv
  OBVIOUS
<1>1. Len(players) = 0 /\ players \in Seq([id : Id, hp : 0 .. MAX_HP])
  BY DEF Init
<1>2. TypeOK
  <2>1. /\ start_turn_timer \in 1 .. MAX_TURN_TIMER
        /\ turn_timer \in Int /\ turn_timer <= MAX_TURN_TIMER
        /\ send_time_timer \in Int /\ send_time_timer <= MAX_SEND_TIMER
    BY GameAssumption DEF Init
  <2>2. /\ player_turn \in 1 .. Len(players) \cup {NULL, FREED}
        /\ game_started \in BOOLEAN
        /\ required_substr \in Substr \cup {NoSubstr}
        /\ step \in {"terminal", "messages", "clock"}
        /\ fault \in {"none", "null_turn", "no_next_player", "freed_player"}
        /\ connected \subseteq Id
        /\ told \subseteq connected
    BY DEF Init
  <2>3. QED
    BY <1>1, <2>1, <2>2 DEF TypeOK
<1>3. UniqueIds /\ TurnHolderAlive /\ LobbyIsFresh /\ GameCanGoOn /\ OnlyLateWordsStop
  BY <1>1 DEF Init, UniqueIds, TurnHolderAlive, LobbyIsFresh, GameCanGoOn,
              OnlyLateWordsStop
<1>4. QED
  BY <1>2, <1>3 DEF IInv

(* Passing the turn at no cost keeps the game well formed, and cannot fail *)
(* while two players have hearts.                                          *)
LEMMA PassTurnIInv ==
  ASSUME IInv, NEW before, NEW after, PassTurn(before, after),
         fault = "none", player_turn # FREED,
         game_started \/ \E i, j \in AlivePlaces(players) : i # j,
         game_started',
         step' \in {"terminal", "messages", "clock"}, told' \in SUBSET connected
  PROVE  IInv' \/ (fault' = "no_next_player" /\ UNCHANGED <<playing, clocks, clients>>
                     /\ ~(\E i, j \in AlivePlaces(players) : i # j))
<1> USE DEF IInv, TypeOK
<1>1. players \in Seq(Player)
  BY DEF Player
<1>2. player_turn = NULL => 1 \in AlivePlaces(players)
  BY <1>1, GameAssumption DEF LobbyIsFresh, TurnHolderAlive, AlivePlaces, NULL, FREED
<1>3. /\ NextHolder(players) \in AlivePlaces(players) \cup {NULL}
      /\ (\E i \in AlivePlaces(players) : i # player_turn) => NextHolder(players) # NULL
  BY <1>1, <1>2, NextHolderAlive DEF UniqueIds
<1>4. CASE NextHolder(players) = NULL
  BY <1>3, <1>4 DEF PassTurn, Die
<1>5. CASE NextHolder(players) # NULL
  <2>1. /\ player_turn' = NextHolder(players)
        /\ start_turn_timer' = Shorten(start_turn_timer)
        /\ turn_timer' = Shorten(start_turn_timer)
        /\ required_substr' \in Substr
        /\ UNCHANGED <<players, send_time_timer, fault, connected>>
    BY <1>5 DEF PassTurn
  <2>2. player_turn' \in AlivePlaces(players) /\ player_turn' \in 1 .. Len(players)
    BY <1>3, <1>5, <2>1 DEF AlivePlaces
  <2>3. TypeOK'
    BY <2>1, <2>2, ShortenRange
  <2>4. UniqueIds' /\ OnlyLateWordsStop' /\ LobbyIsFresh'
    BY <2>1 DEF UniqueIds, OnlyLateWordsStop, LobbyIsFresh
  <2>5. TurnHolderAlive'
    BY <2>1, <2>2 DEF TurnHolderAlive, AlivePlaces
  <2>6. GameCanGoOn'
    BY <2>1, <2>2, SMTT(30) DEF GameCanGoOn, AlivePlaces, FREED
  <2>7. QED
    BY <2>3, <2>4, <2>5, <2>6
<1>6. QED
  BY <1>4, <1>5

(* A step that leaves the game alone and stays alive keeps the invariant. *)
LEMMA QuietStep ==
  ASSUME IInv, UNCHANGED <<playing, clocks, fault>>,
         step' \in {"terminal", "messages", "clock"},
         connected' \in SUBSET Id, told' \in SUBSET connected',
         connected \subseteq connected'
  PROVE  IInv'
<1> USE DEF IInv, playing, clocks
<1>1. TypeOK'
  BY DEF TypeOK
<1>2. UniqueIds'
  BY DEF UniqueIds
<1>3. (TurnHolderAlive /\ LobbyIsFresh /\ GameCanGoOn /\ OnlyLateWordsStop)'
  BY DEF TurnHolderAlive, LobbyIsFresh, GameCanGoOn, OnlyLateWordsStop, AlivePlaces
<1>4. QED
  BY <1>1, <1>2, <1>3

(* So does dying of a late word, or of a departure at the wrong moment. *)
LEMMA DieIInv ==
  ASSUME IInv, NEW why \in {"null_turn", "no_next_player", "freed_player"}, Die(why),
         AnyDeparture \/ why = "null_turn"
  PROVE  IInv'
<1> USE DEF IInv, playing, clocks, clients, Die
<1>1. TypeOK' /\ UniqueIds'
  BY DEF TypeOK, UniqueIds
<1>2. (TurnHolderAlive /\ LobbyIsFresh /\ GameCanGoOn /\ OnlyLateWordsStop)'
  BY DEF TurnHolderAlive, LobbyIsFresh, GameCanGoOn, OnlyLateWordsStop, AlivePlaces
<1>3. QED
  BY <1>1, <1>2

LEMMA JoinIInv ==
  ASSUME IInv, NEW id \in Id, Join(id)
  PROVE  IInv'
<1> USE DEF IInv, TypeOK, Join, clocks
<1> DEFINE new == [id |-> id, hp |-> MAX_HP]
<1>1. new \in Player /\ players \in Seq(Player)
  BY GameAssumption DEF Player
<1>2. /\ players' \in Seq(Player)
      /\ Len(players') = Len(players) + 1
      /\ \A i \in 1 .. Len(players) : players'[i] = players[i]
      /\ players'[Len(players) + 1] = new
  BY <1>1, AppendProperties
<1>3. \A i \in 1 .. Len(players') : i \in 1 .. Len(players) \/ i = Len(players) + 1
  BY <1>2
<1>4. player_turn = NULL /\ ~game_started
  BY DEF LobbyIsFresh
<1>5. TypeOK'
  BY <1>2, <1>4 DEF Player
<1>6. UniqueIds'
  <2>1. id \notin connected /\ connected' = connected \cup {id} /\ new.id = id
    OBVIOUS
  <2>2. \A i \in 1 .. Len(players) : players[i].id \in connected
    BY DEF UniqueIds
  <2>3. \A i \in 1 .. Len(players') : players'[i].id \in connected'
    BY <1>2, <1>3, <2>1, <2>2
  <2>4. ASSUME NEW i \in 1 .. Len(players'), NEW j \in 1 .. Len(players'),
               players'[i].id = players'[j].id
        PROVE  i = j
    <3>1. CASE i \in 1 .. Len(players) /\ j \in 1 .. Len(players)
      BY <1>2, <2>4, <3>1 DEF UniqueIds
    <3>2. CASE i = Len(players) + 1 \/ j = Len(players) + 1
      BY <1>2, <1>3, <2>1, <2>2, <2>4, <3>2
    <3>3. QED
      BY <1>3, <3>1, <3>2
  <2>5. QED
    BY <2>3, <2>4 DEF UniqueIds
<1>7. LobbyIsFresh'
  BY <1>2, <1>3, <1>4 DEF LobbyIsFresh
<1>8. (TurnHolderAlive /\ GameCanGoOn /\ OnlyLateWordsStop)'
  BY <1>4 DEF TurnHolderAlive, GameCanGoOn, OnlyLateWordsStop
<1>9. QED
  BY <1>5, <1>6, <1>7, <1>8

(* After a departure every player but the one who left is where he was, or *)
(* one place nearer the front.                                             *)
LEMMA Deleted ==
  ASSUME NEW list \in Seq(Player), NEW place \in 1 .. Len(list)
  PROVE  /\ DeleteAt(list, place) \in Seq(Player)
         /\ Len(DeleteAt(list, place)) = Len(list) - 1
         /\ \A i \in 1 .. Len(list) - 1 :
              DeleteAt(list, place)[i] = IF i < place THEN list[i] ELSE list[i + 1]
<1> DEFINE short == DeleteAt(list, place)
           n == Len(list) - 1
<1>1. n \in Nat
  OBVIOUS
<1>2. \A i \in 1 .. n : list[i] \in Player /\ list[i + 1] \in Player
  OBVIOUS
<1>3. short = [i \in 1 .. n |-> IF i < place THEN list[i] ELSE list[i + 1]]
  BY DEF DeleteAt
<1>4. \A i \in 1 .. n : (IF i < place THEN list[i] ELSE list[i + 1]) \in Player
  BY <1>2
<1> HIDE DEF short, n
<1>5. short \in [1 .. n -> Player]
  BY <1>3, <1>4
<1>6. short \in Seq(Player) /\ Len(short) = n
  BY <1>1, <1>5
<1>7. QED
  BY <1>3, <1>6 DEF short, n

LEMMA LeftIInv ==
  ASSUME IInv, NEW id \in Id, Left(id)
  PROVE  IInv'
<1> USE DEF IInv, clocks
<1>1. players \in Seq(Player) /\ TypeOK
  BY DEF TypeOK, Player
<1>2. CASE PlaceOf(players, id) = {}
  <2>1. UNCHANGED <<players, player_turn, game_started, required_substr, clocks, step, fault>>
    BY <1>2 DEF Left
  <2>2. connected' = connected \ {id} /\ told' = told \ {id}
    BY DEF Left
  <2>3. TypeOK'
    BY <2>1, <2>2 DEF TypeOK
  <2>4. UniqueIds'
    BY <1>2, <2>1, <2>2 DEF UniqueIds, PlaceOf
  <2>5. (TurnHolderAlive /\ LobbyIsFresh /\ GameCanGoOn /\ OnlyLateWordsStop)'
    BY <2>1 DEF TurnHolderAlive, LobbyIsFresh, GameCanGoOn, OnlyLateWordsStop, AlivePlaces
  <2>6. QED
    BY <2>3, <2>4, <2>5
<1>3. CASE PlaceOf(players, id) # {}
  <2>1. PICK place \in PlaceOf(players, id) :
          /\ players' = DeleteAt(players, place)
          /\ player_turn' = TurnAfterDelete(place)
    BY <1>3 DEF Left
  <2>2. place \in 1 .. Len(players) /\ players[place].id = id
    BY <2>1 DEF PlaceOf
  <2>3. /\ players' \in Seq(Player)
        /\ Len(players') = Len(players) - 1
        /\ \A i \in 1 .. Len(players) - 1 :
             players'[i] = IF i < place THEN players[i] ELSE players[i + 1]
    BY <1>1, <2>1, <2>2, Deleted
  <2>4. /\ connected' = connected \ {id} /\ told' = told \ {id}
        /\ UNCHANGED <<game_started, required_substr, clocks, step, fault>>
        /\ fault = "none"
        /\ MayLeave(id)
    BY DEF Left
  <2>5. player_turn \in 1 .. Len(players) \cup {NULL, FREED}
    BY <1>1 DEF TypeOK
  <2>6. /\ player_turn \in 1 .. place - 1 => player_turn' = player_turn
        /\ player_turn = place => player_turn' = FREED
        /\ player_turn \in place + 1 .. Len(players) => player_turn' = player_turn - 1
        /\ player_turn \in {NULL, FREED} => player_turn' = player_turn
    BY <2>1, <2>2 DEF TurnAfterDelete, NULL, FREED
  <2>7. TypeOK'
    <3>1. player_turn' \in 1 .. Len(players') \cup {NULL, FREED}
      BY <2>2, <2>3, <2>5, <2>6
    <3>2. QED
      BY <1>1, <2>3, <2>4, <3>1 DEF TypeOK, Player
  <2>8. UniqueIds'
    <3>1. \A i \in 1 .. Len(players') : i < place \/ i + 1 \in 1 .. Len(players)
      BY <2>2, <2>3
    <3>2. ASSUME NEW i \in 1 .. Len(players'), NEW j \in 1 .. Len(players'),
                 players'[i].id = players'[j].id
          PROVE  i = j
      <4> DEFINE from(k) == IF k < place THEN k ELSE k + 1
      <4>1. /\ from(i) \in 1 .. Len(players) /\ players'[i] = players[from(i)]
            /\ from(j) \in 1 .. Len(players) /\ players'[j] = players[from(j)]
        BY <2>2, <2>3
      <4>2. from(i) = from(j)
        <5> HIDE DEF from
        <5>1. QED
          BY <3>2, <4>1 DEF UniqueIds
      <4>3. QED
        BY <2>2, <4>2
    <3>3. \A i \in 1 .. Len(players') : players'[i].id \in connected \ {id}
      BY <2>2, <2>3, <3>1 DEF UniqueIds
    <3>4. QED
      BY <2>4, <3>2, <3>3 DEF UniqueIds
  <2>9. TurnHolderAlive'
    BY <2>2, <2>3, <2>4, <2>5, <2>6 DEF TurnHolderAlive, AlivePlaces, NULL, FREED
  <2>10. LobbyIsFresh'
    <3>1. ~game_started => \A i \in 1 .. Len(players') : players'[i].hp = MAX_HP
      BY <2>2, <2>3 DEF LobbyIsFresh
    <3>2. QED
      BY <2>4, <2>6, <3>1 DEF LobbyIsFresh
  <2>11. OnlyLateWordsStop'
    BY <2>4 DEF OnlyLateWordsStop
  <2>12. GameCanGoOn'
    <3> SUFFICES ASSUME ~AnyDeparture, game_started
                 PROVE  /\ player_turn' # FREED
                        /\ \E i, j \in AlivePlaces(players') : i # j
      BY <2>4 DEF GameCanGoOn
    <3> DEFINE stay == AlivePlaces(players) \ PlaceOf(players, id)
    <3>1. player_turn \notin PlaceOf(players, id) /\ Cardinality(stay) >= 2
      BY <1>3, <2>4 DEF MayLeave
    <3>2. player_turn # FREED /\ player_turn # place
      BY <2>1, <2>4, <3>1 DEF GameCanGoOn
    <3>3. player_turn' # FREED
      BY <2>2, <2>5, <2>6, <3>2 DEF NULL, FREED
    <3>4. IsFiniteSet(stay)
      <4>1. IsFiniteSet(AlivePlaces(players)) /\ stay \in SUBSET AlivePlaces(players)
        BY <1>1, AliveCount
      <4>2. QED
        BY <4>1, FS_Subset
    <3>5. PICK i \in stay, j \in stay : i # j
      BY <3>1, <3>4, TwoElements
    <3> DEFINE now(k) == IF k < place THEN k ELSE k - 1
    <3>6. \A k \in stay : now(k) \in AlivePlaces(players')
      BY <2>1, <2>2, <2>3 DEF AlivePlaces
    <3>7. now(i) # now(j)
      BY <2>1, <2>2, <3>5 DEF AlivePlaces
    <3>8. QED
      BY <3>3, <3>5, <3>6, <3>7
  <2>13. QED
    BY <2>7, <2>8, <2>9, <2>10, <2>11, <2>12
<1>4. QED
  BY <1>2, <1>3

(* The list lose_hp() leaves: one heart less for one player who had one. *)
LEMMA LoseHp ==
  ASSUME NEW list \in Seq(Player), NEW i \in AlivePlaces(list)
  PROVE  /\ lose_hp(list, i) \in Seq(Player)
         /\ Len(lose_hp(list, i)) = Len(list)
         /\ \A j \in 1 .. Len(list) :
              /\ lose_hp(list, i)[j].id = list[j].id
              /\ lose_hp(list, i)[j].hp = IF j = i THEN list[j].hp - 1 ELSE list[j].hp
<1>1. i \in 1 .. Len(list) /\ list[i] \in Player /\ list[i].hp > 0
  BY DEF AlivePlaces
<1>2. [list[i] EXCEPT !.hp = @ - 1] \in Player
  BY <1>1, GameAssumption, SMTT(30) DEF Player
<1>3. lose_hp(list, i) = [list EXCEPT ![i] = [list[i] EXCEPT !.hp = @ - 1]]
  BY DEF lose_hp
<1>4. /\ lose_hp(list, i) \in Seq(Player)
      /\ Len(lose_hp(list, i)) = Len(list)
      /\ \A j \in 1 .. Len(list) :
           lose_hp(list, i)[j] = IF j = i THEN [list[i] EXCEPT !.hp = @ - 1] ELSE list[j]
  BY <1>1, <1>2, <1>3, ExceptSeq
<1>5. \A j \in 1 .. Len(list) : list[j] \in Player
  OBVIOUS
<1>6. QED
  BY <1>1, <1>4, <1>5 DEF Player

(* game_restart() changes hearts and nothing else of the list. *)
LEMMA AllHeartsBack ==
  ASSUME NEW list \in Seq(Player)
  PROVE  /\ Len(AllHearts(list)) = Len(list)
         /\ \A j \in 1 .. Len(list) :
              /\ AllHearts(list)[j].id = list[j].id
              /\ AllHearts(list)[j].hp = MAX_HP
<1>1. \A j \in 1 .. Len(list) : list[j] \in Player
  OBVIOUS
<1>2. \A j \in 1 .. Len(list) :
        /\ [list[j] EXCEPT !.hp = MAX_HP] \in Player
        /\ [list[j] EXCEPT !.hp = MAX_HP].id = list[j].id
        /\ [list[j] EXCEPT !.hp = MAX_HP].hp = MAX_HP
  BY <1>1, GameAssumption DEF Player
<1>3. AllHearts(list) \in [1 .. Len(list) -> Player] /\ Len(list) \in Nat
  BY <1>2 DEF AllHearts
<1>4. AllHearts(list) \in Seq(Player) /\ Len(AllHearts(list)) = Len(list)
  BY <1>3
<1>5. QED
  BY <1>2, <1>4 DEF AllHearts

LEMMA TimeOutIInv ==
  ASSUME IInv, NEW deltatime \in DeltaTime, TimeOut(deltatime)
  PROVE  IInv'
<1> DEFINE list == lose_hp(players, player_turn)
           holder == NextHolder(list)
<1> USE DEF IInv
<1>1. players \in Seq(Player) /\ TypeOK
  BY DEF TypeOK, Player
<1>2. /\ game_started /\ turn_timer <= 0 /\ fault = "none"
      /\ player_turn # FREED
      /\ player_turn \in AlivePlaces(players)
  BY DEF TimeOut, TurnHolderAlive
<1>3. /\ list \in Seq(Player) /\ Len(list) = Len(players)
      /\ \A j \in 1 .. Len(players) :
           /\ list[j].id = players[j].id
           /\ list[j].hp = IF j = player_turn THEN players[j].hp - 1 ELSE players[j].hp
  BY <1>1, <1>2, LoseHp
<1>4. /\ holder \in AlivePlaces(list) \cup {NULL}
      /\ (\E i \in AlivePlaces(list) : i # player_turn) => holder # NULL
  <2>1. player_turn \in 1 .. Len(list) /\ player_turn # NULL
    BY <1>1, <1>2, <1>3 DEF AlivePlaces, NULL
  <2>2. \A m, n \in 1 .. Len(list) : list[m].id = list[n].id => m = n
    BY <1>3 DEF UniqueIds
  <2> HIDE DEF list
  <2>3. QED
    BY <1>3, <2>1, <2>2, NextHolderAlive
<1>5. CASE holder = NULL
  <2>1. ~(\E i \in AlivePlaces(list) : i # player_turn)
    BY <1>4, <1>5
  <2>2. \A i \in AlivePlaces(players) : i # player_turn => i \in AlivePlaces(list)
    BY <1>3 DEF AlivePlaces
  <2>3. AnyDeparture
    BY <1>2, <2>1, <2>2 DEF GameCanGoOn
  <2>4. Die("no_next_player")
    BY <1>5 DEF TimeOut
  <2>5. QED
    BY <2>3, <2>4, DieIInv
<1>6. CASE holder # NULL
  <2>1. /\ start_turn_timer' = MAX_TURN_TIMER
        /\ required_substr' \in Substr
        /\ step' = "terminal"
        /\ send_time_timer' = IF send_time_timer <= 0 THEN MAX_SEND_TIMER
                                                      ELSE send_time_timer - deltatime
        /\ UNCHANGED <<fault, connected, told>>
    BY <1>6 DEF TimeOut, EndFrame, clients
  <2>2. send_time_timer' \in Int /\ send_time_timer' <= MAX_SEND_TIMER
    BY <1>1, <2>1, GameAssumption DEF TypeOK
  <2>3. holder \in AlivePlaces(list) /\ holder \in 1 .. Len(list)
    BY <1>4, <1>6 DEF AlivePlaces
  <2>4. CASE get_alive_player_count(list) = 1
    <3>1. /\ players' = AllHearts(list)
          /\ player_turn' = NULL
          /\ game_started' = FALSE
          /\ turn_timer' = 0
      BY <1>6, <2>4 DEF TimeOut
    <3>2. /\ players' \in Seq(Player) /\ Len(players') = Len(players)
          /\ \A j \in 1 .. Len(players) :
               players'[j].id = players[j].id /\ players'[j].hp = MAX_HP
      <4>1. \A j \in 1 .. Len(list) : list[j] \in Player
        BY <1>3
      <4>2. AllHearts(list)
              = [j \in 1 .. Len(list) |-> [list[j] EXCEPT !.hp = MAX_HP]]
        BY DEF AllHearts
      <4> HIDE DEF list
      <4>3. \A j \in 1 .. Len(list) :
              /\ [list[j] EXCEPT !.hp = MAX_HP] \in Player
              /\ [list[j] EXCEPT !.hp = MAX_HP].id = list[j].id
              /\ [list[j] EXCEPT !.hp = MAX_HP].hp = MAX_HP
        BY <4>1, GameAssumption DEF Player
      <4>4. AllHearts(list) \in [1 .. Len(list) -> Player] /\ Len(list) \in Nat
        BY <1>3, <4>2, <4>3
      <4>5. AllHearts(list) \in Seq(Player) /\ Len(AllHearts(list)) = Len(list)
        BY <4>4
      <4>6. QED
        BY <1>3, <3>1, <4>2, <4>3, <4>5
    <3>3. TypeOK'
      <4>1. /\ start_turn_timer' \in 1 .. MAX_TURN_TIMER
            /\ turn_timer' \in Int /\ turn_timer' <= MAX_TURN_TIMER
        BY <2>1, <3>1, GameAssumption
      <4>2. players' \in Seq([id : Id, hp : 0 .. MAX_HP])
        BY <3>2 DEF Player
      <4>3. QED
        BY <1>1, <2>1, <2>2, <3>1, <4>1, <4>2 DEF TypeOK
    <3>4. UniqueIds'
      BY <2>1, <3>2 DEF UniqueIds
    <3>5. (TurnHolderAlive /\ LobbyIsFresh /\ GameCanGoOn /\ OnlyLateWordsStop)'
      BY <2>1, <3>1, <3>2
         DEF TurnHolderAlive, LobbyIsFresh, GameCanGoOn, OnlyLateWordsStop
    <3>6. QED
      BY <3>3, <3>4, <3>5
  <2>5. CASE get_alive_player_count(list) # 1
    <3>1. /\ players' = list
          /\ player_turn' = holder
          /\ turn_timer' = MAX_TURN_TIMER
          /\ game_started' = game_started
      BY <1>6, <2>5 DEF TimeOut
    <3>2. \E i, j \in AlivePlaces(list) : i # j
      <4> HIDE DEF list, holder
      <4>1. QED
        BY <1>3, <2>3, <2>5, AliveCount
    <3> HIDE DEF list, holder
    <3>3. TypeOK'
      BY <1>1, <1>3, <2>1, <2>2, <2>3, <3>1, GameAssumption DEF TypeOK, Player
    <3>4. UniqueIds'
      BY <1>3, <2>1, <3>1 DEF UniqueIds
    <3>5. (TurnHolderAlive /\ LobbyIsFresh /\ GameCanGoOn /\ OnlyLateWordsStop)'
      BY <1>2, <1>3, <2>1, <2>3, <3>1, <3>2
         DEF TurnHolderAlive, LobbyIsFresh, GameCanGoOn, OnlyLateWordsStop, AlivePlaces,
             NULL, FREED
    <3>6. QED
      BY <3>3, <3>4, <3>5
  <2>6. QED
    BY <2>4, <2>5
<1>7. QED
  BY <1>5, <1>6

LEMMA CountdownIInv ==
  ASSUME IInv, NEW deltatime \in DeltaTime, Countdown(deltatime)
  PROVE  IInv'
<1> USE DEF IInv, Countdown, EndFrame, playing, clients
<1>1. turn_timer' \in Int /\ turn_timer' <= MAX_TURN_TIMER
  BY GameAssumption DEF TypeOK
<1>2. send_time_timer' \in Int /\ send_time_timer' <= MAX_SEND_TIMER
  BY GameAssumption DEF TypeOK
<1>3. TypeOK' /\ UniqueIds'
  BY <1>1, <1>2 DEF TypeOK, UniqueIds
<1>4. (TurnHolderAlive /\ LobbyIsFresh /\ GameCanGoOn /\ OnlyLateWordsStop)'
  BY DEF TurnHolderAlive, LobbyIsFresh, GameCanGoOn, OnlyLateWordsStop, AlivePlaces
<1>5. QED
  BY <1>3, <1>4

(* Every step preserves the inductive invariant. *)
LEMMA NextIInv == IInv /\ [Next]_vars => IInv'
<1> SUFFICES ASSUME IInv, [Next]_vars PROVE IInv'
  OBVIOUS
<1>a. TypeOK /\ players \in Seq(Player)
  BY DEF IInv, TypeOK, Player
<1>1. CASE NoLine \/ StartRefused \/ NoMoreMessages \/ Lobby
  BY <1>1, <1>a, QuietStep
     DEF NoLine, StartRefused, NoMoreMessages, Lobby, clients, TypeOK
<1>2. CASE Start
  <2>1. \E i, j \in AlivePlaces(players) : i # j
    BY <1>2, <1>a, AliveCount DEF Start
  <2>2. PassTurn(<<>>, << <<"T_GAME_START">> >>) /\ fault = "none" /\ player_turn # FREED
    BY <1>2 DEF Start
  <2>3. game_started' /\ step' = "messages" /\ told' = connected
    BY <1>2 DEF Start
  <2>4. QED
    BY <2>1, <2>2, <2>3, PassTurnIInv
<1>3. CASE StartThroughFreed
  <2>1. AnyDeparture
    BY <1>3 DEF StartThroughFreed, IInv, LobbyIsFresh, GameCanGoOn, NULL, FREED
  <2>2. QED
    BY <1>3, <2>1, DieIInv DEF StartThroughFreed
<1>4. ASSUME NEW id \in Id, Join(id) PROVE IInv'
  BY <1>4, JoinIInv
<1>5. ASSUME NEW id \in Id, JoinRefused(id) PROVE IInv'
  BY <1>5, <1>a, QuietStep DEF JoinRefused, TypeOK
<1>6. ASSUME NEW id \in Id, Left(id) PROVE IInv'
  BY <1>6, LeftIInv
<1>7. ASSUME NEW id \in Id, WordWithoutTurn(id) PROVE IInv'
  BY <1>7, DieIInv DEF WordWithoutTurn
<1>8. ASSUME NEW id \in Id, WordOutOfTurn(id) PROVE IInv'
  BY <1>8, <1>a, QuietStep DEF WordOutOfTurn, clients, TypeOK
<1>9. ASSUME NEW id \in Id, NEW word \in Word, WordWrong(id, word) PROVE IInv'
  BY <1>9, <1>a, QuietStep DEF WordWrong, clients, TypeOK
<1>10. ASSUME NEW id \in Id, NEW word \in Word, WordRight(id, word) PROVE IInv'
  <2>1. /\ PassTurn(<< <<"T_CORRECT_WORD", id, word>> >>, <<>>)
        /\ fault = "none"
        /\ UNCHANGED <<game_started, step, told>>
        /\ player_turn \in 1 .. Len(players)
    BY <1>10 DEF WordRight, CanSend, PlaceOf
  <2>2. game_started /\ player_turn # FREED
    BY <2>1 DEF IInv, LobbyIsFresh, NULL, FREED
  <2>3. IInv' \/ (fault' = "no_next_player" /\ UNCHANGED <<playing, clocks, clients>>
                    /\ ~(\E i, j \in AlivePlaces(players) : i # j))
    BY <1>a, <2>1, <2>2, PassTurnIInv DEF TypeOK
  <2>4. CASE fault' = "no_next_player" /\ ~(\E i, j \in AlivePlaces(players) : i # j)
    <3>1. AnyDeparture
      BY <2>1, <2>2, <2>4 DEF IInv, GameCanGoOn
    <3>2. Die("no_next_player")
      BY <2>1, <2>4 DEF PassTurn
    <3>3. QED
      BY <3>1, <3>2, DieIInv
  <2>5. QED
    BY <2>3, <2>4
<1>11. ASSUME NEW deltatime \in DeltaTime, Countdown(deltatime) PROVE IInv'
  BY <1>11, CountdownIInv
<1>12. ASSUME NEW deltatime \in DeltaTime, TimeOut(deltatime) PROVE IInv'
  BY <1>12, TimeOutIInv
<1>13. CASE TimeOutThroughFreed
  <2>1. AnyDeparture
    BY <1>13 DEF TimeOutThroughFreed, IInv, GameCanGoOn
  <2>2. QED
    BY <1>13, <2>1, DieIInv DEF TimeOutThroughFreed
<1>14. CASE Dead \/ UNCHANGED vars
  BY <1>14, <1>a, QuietStep DEF Dead, vars, clients, TypeOK
<1>15. QED
  BY <1>1, <1>2, <1>3, <1>4, <1>5, <1>6, <1>7, <1>8, <1>9, <1>10, <1>11, <1>12, <1>13,
     <1>14 DEF Next, Terminal, Message, Clock

LEMMA AlwaysIInv == Spec => []IInv
BY InitIInv, NextIInv, PTL DEF Spec

----------------------------------------------------------------------------
(* Every variable keeps its type; no player ever has fewer than no hearts. *)
THEOREM TypeCorrect == Spec => []TypeOK
<1>1. IInv => TypeOK
  BY DEF IInv
<1>2. QED
  BY <1>1, AlwaysIInv, PTL

(* While a game runs the turn is with a player who has hearts. *)
THEOREM TurnIsWithTheLiving == Spec => []TurnHolderAlive
<1>1. IInv => TurnHolderAlive
  BY DEF IInv
<1>2. QED
  BY <1>1, AlwaysIInv, PTL

(* No game leaves anything behind for the next one. *)
THEOREM GamesStartAfresh == Spec => []LobbyIsFresh
<1>1. IInv => LobbyIsFresh
  BY DEF IInv
<1>2. QED
  BY <1>1, AlwaysIInv, PTL

(* Unless a player leaves at the wrong moment, next_turn() finds a player  *)
(* whenever it is called.                                                  *)
THEOREM NextTurnNeverFails == Spec => []OnlyLateWordsStop
<1>1. IInv => OnlyLateWordsStop
  BY DEF IInv
<1>2. QED
  BY <1>1, AlwaysIInv, PTL

(* While a game goes on, hearts are lost by running out of time and in no  *)
(* other way.                                                              *)
THEOREM HeartsAreLostToTheClock == Spec => HeartsMove
<1> DEFINE Move ==
      game_started /\ game_started' /\ fault' = "none" =>
        \A i \in 1 .. Len(players), j \in 1 .. Len(players') :
          players[i].id = players'[j].id =>
            players'[j].hp = IF step = "clock" /\ turn_timer <= 0 /\ player_turn = i
                               THEN players[i].hp - 1 ELSE players[i].hp
<1>1. IInv /\ [Next]_vars => [Move]_vars
  <2> SUFFICES ASSUME IInv, [Next]_vars, game_started, game_started', fault' = "none",
                      NEW i \in 1 .. Len(players), NEW j \in 1 .. Len(players'),
                      players[i].id = players'[j].id,
                      ~(UNCHANGED vars)
               PROVE  players'[j].hp = IF step = "clock" /\ turn_timer <= 0 /\ player_turn = i
                                         THEN players[i].hp - 1 ELSE players[i].hp
    OBVIOUS
  <2>a. players \in Seq(Player) /\ TypeOK
    BY DEF IInv, TypeOK, Player
  <2>b. \A m, n \in 1 .. Len(players) : players[m].id = players[n].id => m = n
    BY DEF IInv, UniqueIds
  <2>1. CASE players' = players /\ ~(step = "clock" /\ turn_timer <= 0 /\ player_turn = i)
    BY <2>1, <2>b
  <2>2. ASSUME NEW id \in Id, Left(id)
        PROVE  players'[j].hp = players[i].hp
    <3>1. CASE PlaceOf(players, id) = {}
      BY <2>2, <2>b, <3>1 DEF Left
    <3>2. CASE PlaceOf(players, id) # {}
      <4>1. PICK place \in PlaceOf(players, id) : players' = DeleteAt(players, place)
        BY <2>2, <3>2 DEF Left
      <4>2. place \in 1 .. Len(players)
        BY <4>1 DEF PlaceOf
      <4>3. /\ Len(players') = Len(players) - 1
            /\ players'[j] = IF j < place THEN players[j] ELSE players[j + 1]
        BY <2>a, <4>1, <4>2, Deleted
      <4>4. QED
        BY <2>b, <4>2, <4>3
    <3>3. QED
      BY <3>1, <3>2
  <2>3. ASSUME NEW deltatime \in DeltaTime, TimeOut(deltatime)
        PROVE  players'[j].hp = IF player_turn = i THEN players[i].hp - 1 ELSE players[i].hp
    <3>1. player_turn \in AlivePlaces(players)
      BY <2>3 DEF TimeOut, IInv, TurnHolderAlive
    <3>2. players' = lose_hp(players, player_turn)
      BY <2>3 DEF TimeOut, Die
    <3>3. QED
      BY <2>a, <2>b, <3>1, <3>2, LoseHp
  <2>4. ASSUME NEW deltatime \in DeltaTime, TimeOut(deltatime)
        PROVE  step = "clock" /\ turn_timer <= 0
    BY <2>4 DEF TimeOut
  <2>5. CASE Terminal \/ NoMoreMessages
    BY <2>1, <2>5 DEF Terminal, NoLine, StartRefused, Start, StartThroughFreed, PassTurn,
                      Die, NoMoreMessages, playing
  <2>6. CASE Message
    <3>1. step # "clock"
      BY <2>6 DEF Message, Join, JoinRefused, Left, WordWithoutTurn, WordOutOfTurn,
                  WordWrong, WordRight, CanSend
    <3>2. CASE \E id \in Id : Left(id)
      BY <2>2, <3>1, <3>2
    <3>3. CASE ~(\E id \in Id : Left(id))
      <4>1. players' = players
        BY <2>6, <3>3 DEF Message, Join, JoinRefused, WordWithoutTurn, WordOutOfTurn,
                          WordWrong, WordRight, PassTurn, Die, playing
      <4>2. QED
        BY <2>1, <3>1, <4>1
    <3>4. QED
      BY <3>2, <3>3
  <2>7. CASE Clock
    <3>1. CASE \E deltatime \in DeltaTime : TimeOut(deltatime)
      BY <2>3, <2>4, <3>1
    <3>2. CASE \E deltatime \in DeltaTime : Countdown(deltatime)
      BY <2>1, <2>a, <3>2 DEF Countdown, playing, TypeOK
    <3>3. CASE Lobby \/ TimeOutThroughFreed
      BY <3>3 DEF Lobby, TimeOutThroughFreed, Die
    <3>4. QED
      BY <2>7, <3>1, <3>2, <3>3 DEF Clock
  <2>8. QED
    BY <2>5, <2>6, <2>7 DEF Next, Dead
<1>2. QED
  BY <1>1, AlwaysIInv, PTL DEF Spec, HeartsMove

----------------------------------------------------------------------------
(* GameLogic implements GameRules: every step of the thread is a step of   *)
(* the game, or none.                                                      *)

(* The table of GameRules, read off the list of players. *)
TableOfPlayers ==
  /\ Seats \in Seq(Id)
  /\ Len(Seats) = Len(players)
  /\ \A i \in 1 .. Len(players) :
       /\ players[i].id \in Id
       /\ Seats[i] = players[i].id
       /\ Rules!Seat(players[i].id) = i
       /\ Hearts[players[i].id] = players[i].hp
  /\ Rules!Seated = {players[i].id : i \in 1 .. Len(players)}
  /\ Hearts = [q \in Rules!Seated |-> Hearts[q]]

(* With one place to an id, seats and hearts are those of the list. *)
LEMMA TableIsTheList == TypeOK /\ UniqueIds => TableOfPlayers
<1> SUFFICES ASSUME TypeOK, UniqueIds PROVE TableOfPlayers
  OBVIOUS
<1>1. players \in Seq(Player)
  BY DEF TypeOK, Player
<1>2. \A i \in 1 .. Len(players) : players[i].id \in Id
  <2>1. \A i \in 1 .. Len(players) : players[i] \in Player
    BY <1>1
  <2>2. QED
    BY <2>1 DEF Player
<1>3. Seats \in Seq(Id) /\ Len(Seats) = Len(players)
  <2>1. Seats \in [1 .. Len(players) -> Id] /\ Len(players) \in Nat
    BY <1>1, <1>2 DEF Seats
  <2>2. QED
    BY <2>1
<1>4. \A i \in 1 .. Len(players) : Seats[i] = players[i].id
  BY DEF Seats
<1>5. \A i \in 1 .. Len(players) : Rules!Seat(players[i].id) = i
  BY <1>3, <1>4 DEF Rules!Seat, UniqueIds
<1>6. ASSUME NEW i \in 1 .. Len(players)
      PROVE  Hearts[players[i].id] = players[i].hp
  <2>1. PlaceOf(players, players[i].id) = {i}
    BY DEF PlaceOf, UniqueIds
  <2>2. (CHOOSE j \in PlaceOf(players, players[i].id) : TRUE) = i
    BY <2>1
  <2>3. QED
    BY <2>2 DEF Hearts
<1>7. Rules!Seated = {players[i].id : i \in 1 .. Len(players)}
  BY <1>3, <1>4 DEF Rules!Seated
<1>8. Hearts = [q \in Rules!Seated |-> Hearts[q]]
  BY <1>7 DEF Hearts
<1>9. QED
  BY <1>2, <1>3, <1>4, <1>5, <1>6, <1>7, <1>8 DEF TableOfPlayers

(* get_next_alive_player() passes over nobody who has hearts. *)
LEMMA NextPassesTheDead ==
  ASSUME NEW list \in Seq(Player), NEW i \in 1 .. Len(list),
         \A m, n \in 1 .. Len(list) : list[m].id = list[n].id => m = n,
         NEW n, n = get_next_alive_player(list, i), n # NULL
  PROVE  /\ n \in AlivePlaces(list) \ {i}
         /\ \A k \in IF i < n THEN i + 1 .. n - 1
                              ELSE (i + 1 .. Len(list)) \cup (1 .. n - 1) :
              list[k].hp = 0
<1>1. n \in AlivePlaces(list) \ {i}
  BY NextAlive
<1>2. SUFFICES ASSUME NEW k \in 1 .. Len(list),
                      k \in IF i < n THEN i + 1 .. n - 1
                                     ELSE (i + 1 .. Len(list)) \cup (1 .. n - 1)
               PROVE  list[k].hp = 0
  BY <1>1 DEF AlivePlaces
<1> DEFINE Ends == WalkEnds(list, i)
           least == CHOOSE e \in Ends : \A j \in Ends : e <= j
           steps(p) == IF p > i THEN p - i ELSE p - i + Len(list)
<1>3. n \in 1 .. Len(list) /\ n # i
  BY <1>1 DEF AlivePlaces
<1>4. \A p \in 1 .. Len(list) :
        /\ steps(p) \in 1 .. Len(list)
        /\ After(list, i, steps(p)) = p
  <2> TAKE p \in 1 .. Len(list)
  <2>1. steps(p) \in 1 .. Len(list)
    OBVIOUS
  <2>2. After(list, i, steps(p))
          = IF i + steps(p) <= Len(list) THEN i + steps(p) ELSE i + steps(p) - Len(list)
    BY <2>1, GoingRound
  <2>3. QED
    BY <2>1, <2>2
<1>5. Ends # {} /\ Ends \in SUBSET Nat /\ \A e \in Ends : e \in 1 .. Len(list)
  <2>1. list[After(list, i, steps(n))].hp > 0
    BY <1>1, <1>3, <1>4 DEF AlivePlaces
  <2>2. steps(n) \in Ends
    BY <1>3, <1>4, <2>1 DEF WalkEnds
  <2>3. QED
    BY <2>2 DEF WalkEnds
<1>6. least \in Ends /\ \A j \in Ends : least <= j
  <2> HIDE DEF Ends
  <2>1. \E e \in Ends : \A j \in Ends : e <= j
    BY <1>5, LeastElement
  <2>2. QED
    BY <2>1
<1>7. n = After(list, i, least)
  BY DEF get_next_alive_player
<1>8. least = steps(n)
  <2>1. least \in 1 .. Len(list)
    BY <1>5, <1>6
  <2>2. n = IF i + least <= Len(list) THEN i + least ELSE i + least - Len(list)
    BY <1>7, <2>1, GoingRound
  <2> HIDE DEF least
  <2>3. QED
    BY <1>3, <2>1, <2>2
<1>9. steps(k) < steps(n)
  BY <1>2, <1>3
<1>10. steps(k) \notin Ends
  <2>1. steps(k) \in Nat /\ steps(n) \in Nat
    BY <1>3, <1>4
  <2> HIDE DEF Ends, least, steps
  <2>2. QED
    BY <1>6, <1>8, <1>9, <2>1
<1>11. ~(list[After(list, i, steps(k))].hp > 0)
  BY <1>4, <1>10 DEF WalkEnds
<1>12. list[k] \in Player
  OBVIOUS
<1>13. QED
  BY <1>4, <1>11, <1>12 DEF Player

(* So the turn goes where the rules say, with the hearts of any list of    *)
(* the same players.                                                       *)
LEMMA TurnGoesOn ==
  ASSUME IInv, NEW list \in Seq(Player), Len(list) = Len(players),
         \A j \in 1 .. Len(players) : list[j].id = players[j].id,
         NEW h, \A j \in 1 .. Len(players) : h[players[j].id] = list[j].hp,
         player_turn \in 1 .. Len(players),
         NEW n, n = get_next_alive_player(list, player_turn), n # NULL
  PROVE  /\ n \in 1 .. Len(players)
         /\ Rules!GoesTo(Turn, players[n].id, h)
<1>1. TableOfPlayers /\ UniqueIds
  BY TableIsTheList DEF IInv
<1>2. \A i, j \in 1 .. Len(list) : list[i].id = list[j].id => i = j
  BY <1>1 DEF UniqueIds
<1>3. /\ n \in AlivePlaces(list) \ {player_turn}
      /\ \A k \in IF player_turn < n THEN player_turn + 1 .. n - 1
                     ELSE (player_turn + 1 .. Len(list)) \cup (1 .. n - 1) :
           list[k].hp = 0
  BY <1>2, NextPassesTheDead
<1>4. n \in 1 .. Len(players) /\ n # player_turn /\ list[n].hp > 0
  BY <1>3 DEF AlivePlaces
<1>5. Turn = players[player_turn].id
  BY DEF Turn
<1> DEFINE q == players[n].id
<1>6. Rules!Seat(Turn) = player_turn /\ Rules!Seat(q) = n
  BY <1>1, <1>4, <1>5 DEF TableOfPlayers
<1>7. q \in Rules!Seated \ {Turn} /\ h[q] > 0
  BY <1>1, <1>4, <1>5 DEF TableOfPlayers, UniqueIds
<1>8. \A r \in Rules!Passed(Turn, q) : h[r] = 0
  <2>1. SUFFICES ASSUME NEW k \in IF player_turn < n THEN player_turn + 1 .. n - 1
                                   ELSE (player_turn + 1 .. Len(players)) \cup (1 .. n - 1)
                 PROVE  h[Seats[k]] = 0
    BY <1>1, <1>6 DEF Rules!Passed, TableOfPlayers
  <2>2. k \in 1 .. Len(players)
    BY <1>4, <2>1
  <2>3. k \in IF player_turn < n THEN player_turn + 1 .. n - 1
               ELSE (player_turn + 1 .. Len(list)) \cup (1 .. n - 1)
    BY <2>1
  <2>4. list[k].hp = 0
    BY <1>3, <2>3
  <2>5. QED
    BY <1>1, <2>2, <2>4 DEF TableOfPlayers
<1>9. QED
  BY <1>4, <1>7, <1>8 DEF Rules!GoesTo

(* The empty list is the empty table. *)
LEMMA RulesStart == Init => Rules!RulesInit
<1> SUFFICES ASSUME Init PROVE Rules!RulesInit
  OBVIOUS
<1>1. players = <<>> /\ player_turn = 0
  BY DEF Init, NULL
<1>2. 1 .. Len(players) = {}
  BY <1>1
<1>3. Turn = FREED
  BY <1>1, <1>2 DEF Turn
<1>4. Seats = <<>>
  BY <1>1 DEF Seats
<1>5. Hearts = <<>>
  BY <1>2 DEF Hearts
<1>6. QED
  BY <1>3, <1>4, <1>5 DEF Rules!RulesInit

(* A step that leaves the list and the turn alone is no step of the game. *)
LEMMA QuietRules ==
  ASSUME UNCHANGED <<players, player_turn>>
  PROVE  UNCHANGED Rules!rulesVars
BY DEF Rules!rulesVars, Seats, Hearts, Turn, PlaceOf

(* next_turn(true) begins a game that has not begun, or passes the turn. *)
LEMMA PassTurnRules ==
  ASSUME IInv, ~AnyDeparture, fault = "none", NEW before, NEW after,
         PassTurn(before, after), Len(players) > 1 \/ player_turn # NULL
  PROVE  [Rules!RulesNext]_Rules!rulesVars
<1>1. TableOfPlayers /\ TypeOK /\ players \in Seq(Player)
  BY TableIsTheList DEF IInv, TypeOK, Player
<1>2. player_turn \in 1 .. Len(players) \cup {NULL}
  BY <1>1 DEF IInv, LobbyIsFresh, GameCanGoOn, TypeOK, NULL, FREED
<1>3. CASE NextHolder(players) = NULL
  BY <1>3, QuietRules DEF PassTurn, Die, playing
<1>4. CASE NextHolder(players) # NULL
  <2>1. players' = players /\ player_turn' = NextHolder(players)
    BY <1>4 DEF PassTurn
  <2>2. UNCHANGED <<Seats, Hearts>>
    BY <2>1 DEF Seats, Hearts, PlaceOf
  <2>3. CASE player_turn = NULL
    <3>1. player_turn' = 1 /\ Len(players) > 1
      BY <2>1, <2>3 DEF NextHolder
    <3>2. Len(Seats) > 1 /\ Seats[1] = players[1].id
      <4>1. 1 \in 1 .. Len(players)
        BY <1>1, <3>1
      <4>2. QED
        BY <1>1, <3>1, <4>1 DEF TableOfPlayers
    <3>3. Turn = FREED /\ Turn' = Seats[1]
      BY <1>1, <2>1, <2>3, <3>1, <3>2 DEF Turn, NULL
    <3>4. QED
      BY <2>2, <3>2, <3>3 DEF Rules!RulesNext, Rules!Begin
  <2>4. CASE player_turn \in 1 .. Len(players)
    <3> DEFINE n == get_next_alive_player(players, player_turn)
    <3>1. player_turn' = n /\ n # NULL
      BY <1>4, <2>1, <2>4 DEF NextHolder, NULL
    <3>2. n \in 1 .. Len(players) /\ Rules!GoesTo(Turn, players[n].id, Hearts)
      <4> HIDE DEF n
      <4>1. \A j \in 1 .. Len(players) : Hearts[players[j].id] = players[j].hp
        BY <1>1 DEF TableOfPlayers
      <4>2. QED
        BY <1>1, <2>4, <3>1, <4>1, TurnGoesOn DEF n
    <3>3. Turn' = players[n].id
      BY <2>1, <3>1, <3>2 DEF Turn
    <3>4. Turn # FREED
      BY <1>1, <2>4, GameAssumption, SMTT(30) DEF Turn, TableOfPlayers, FREED
    <3>5. QED
      BY <2>2, <3>2, <3>3, <3>4 DEF Rules!RulesNext, Rules!Pass
  <2>5. QED
    BY <1>2, <2>3, <2>4
<1>5. QED
  BY <1>3, <1>4

(* A join is somebody sitting down. *)
LEMMA JoinRules ==
  ASSUME IInv, NEW id \in Id, Join(id), TableOfPlayers'
  PROVE  Rules!Sit(id)
<1>1. TableOfPlayers /\ TypeOK /\ players \in Seq(Player)
  BY TableIsTheList DEF IInv, TypeOK, Player
<1> DEFINE new == [id |-> id, hp |-> MAX_HP]
           n == Len(players)
<1>2. new \in Player
  BY GameAssumption DEF Player
<1>3. /\ Len(players') = n + 1
      /\ \A i \in 1 .. n : players'[i] = players[i]
      /\ players'[n + 1] = new
      /\ n \in Nat
  BY <1>1, <1>2, AppendProperties DEF Join
<1>s. /\ Seats \in Seq(Id) /\ Len(Seats) = n
      /\ \A i \in 1 .. n : Seats[i] = players[i].id /\ Hearts[players[i].id] = players[i].hp
  BY <1>1 DEF TableOfPlayers
<1>t. \A i \in 1 .. n + 1 : Hearts'[players'[i].id] = players'[i].hp
  BY <1>3 DEF TableOfPlayers
<1>4. Turn = FREED /\ Turn' = FREED
  BY <1>3 DEF Join, IInv, LobbyIsFresh, Turn, NULL
<1>5. id \notin Rules!Seated
  BY <1>1 DEF Join, IInv, UniqueIds, TableOfPlayers
<1>6. Seats' = Append(Seats, id)
  <2>1. Seats' \in Seq(Id) /\ Len(Seats') = n + 1
    BY <1>3 DEF TableOfPlayers
  <2>2. /\ Append(Seats, id) \in Seq(Id) /\ Len(Append(Seats, id)) = n + 1
        /\ \A i \in 1 .. n : Append(Seats, id)[i] = Seats[i]
        /\ Append(Seats, id)[n + 1] = id
    BY <1>s, AppendProperties
  <2>3. ASSUME NEW i \in 1 .. n + 1
        PROVE  Seats'[i] = Append(Seats, id)[i]
    <3>1. Seats'[i] = players'[i].id
      BY <1>3 DEF TableOfPlayers
    <3>2. CASE i \in 1 .. n
      BY <1>3, <1>s, <2>2, <3>1, <3>2
    <3>3. CASE i = n + 1
      BY <1>3, <2>2, <3>1, <3>3
    <3>4. i \in 1 .. n \/ i = n + 1
      BY <1>3
    <3>5. QED
      BY <3>2, <3>3, <3>4
  <2>4. QED
    BY <2>1, <2>2, <2>3, SeqEqual
<1>7. Hearts' = [q \in Rules!Seated \cup {id} |-> IF q = id THEN MAX_HP ELSE Hearts[q]]
  <2>1. Rules!Seated' = Rules!Seated \cup {id}
    <3>1. Rules!Seated' = {players'[i].id : i \in 1 .. n + 1}
      BY <1>3 DEF TableOfPlayers
    <3>2. \A i \in 1 .. n + 1 : i \in 1 .. n \/ i = n + 1
      BY <1>3
    <3>3. 1 .. n \subseteq 1 .. n + 1 /\ n + 1 \in 1 .. n + 1
      BY <1>3
    <3>4. Rules!Seated = {players[i].id : i \in 1 .. n}
      BY <1>1 DEF TableOfPlayers
    <3>5. QED
      BY <1>3, <3>1, <3>2, <3>3, <3>4
  <2>2. Hearts'[id] = MAX_HP
    <3>1. n + 1 \in 1 .. n + 1
      BY <1>3
    <3>2. QED
      BY <1>3, <1>t, <3>1
  <2>3. ASSUME NEW q \in Rules!Seated
        PROVE  Hearts'[q] = Hearts[q]
    <3>1. PICK i \in 1 .. n : q = players[i].id
      BY <1>1 DEF TableOfPlayers
    <3>2. i \in 1 .. n + 1 /\ players'[i] = players[i]
      BY <1>3
    <3>3. QED
      BY <1>s, <1>t, <3>1, <3>2
  <2>4. Hearts' = [q \in Rules!Seated' |-> Hearts'[q]]
    BY DEF TableOfPlayers
  <2>5. QED
    BY <1>5, <2>1, <2>2, <2>3, <2>4
<1>8. QED
  BY <1>4, <1>5, <1>6, <1>7 DEF Rules!Sit

(* A player who leaves when he may takes his hearts with him, and nobody   *)
(* else's.                                                                 *)
LEMMA LeftRules ==
  ASSUME IInv, ~AnyDeparture, NEW id \in Id, Left(id), TableOfPlayers',
         PlaceOf(players, id) # {}
  PROVE  Rules!Leave(id)
<1>1. TableOfPlayers /\ TypeOK /\ UniqueIds /\ players \in Seq(Player)
  BY TableIsTheList DEF IInv, TypeOK, Player
<1> DEFINE n == Len(players)
<1>2. PICK place \in PlaceOf(players, id) :
        /\ players' = DeleteAt(players, place)
        /\ player_turn' = TurnAfterDelete(place)
  BY DEF Left
<1>3. place \in 1 .. n /\ players[place].id = id /\ n \in Nat
  BY <1>1, <1>2 DEF PlaceOf
<1>4. /\ Len(players') = n - 1
      /\ \A i \in 1 .. n - 1 : players'[i] = players[IF i < place THEN i ELSE i + 1]
  BY <1>1, <1>2, <1>3, Deleted
<1>s. /\ Seats \in Seq(Id) /\ Len(Seats) = n
      /\ \A i \in 1 .. n : /\ Seats[i] = players[i].id
                            /\ Hearts[players[i].id] = players[i].hp
                            /\ Rules!Seat(players[i].id) = i
      /\ Rules!Seated = {players[i].id : i \in 1 .. n}
  BY <1>1 DEF TableOfPlayers
<1>t. /\ Seats' \in Seq(Id) /\ Len(Seats') = n - 1
      /\ \A i \in 1 .. n - 1 : /\ Seats'[i] = players'[i].id
                                /\ Hearts'[players'[i].id] = players'[i].hp
      /\ Rules!Seated' = {players'[i].id : i \in 1 .. n - 1}
      /\ Hearts' = [q \in Rules!Seated' |-> Hearts'[q]]
  BY <1>4 DEF TableOfPlayers
<1>5. id \in Rules!Seated /\ Rules!Seat(id) = place
  BY <1>3, <1>s
<1>6. player_turn \in 1 .. n \cup {NULL, FREED} /\ player_turn # place
  <2>1. MayLeave(id) /\ (~game_started => player_turn = NULL)
    BY DEF Left, IInv, LobbyIsFresh
  <2>2. QED
    BY <1>1, <1>2, <1>3, <2>1 DEF MayLeave, TypeOK, NULL
<1>7. Turn' = Turn
  <2>1. CASE player_turn \in {NULL, FREED}
    <3>1. player_turn' = player_turn
      BY <1>2, <1>3, <2>1 DEF TurnAfterDelete, NULL, FREED
    <3>2. QED
      BY <1>3, <1>4, <2>1, <3>1 DEF Turn, NULL, FREED
  <2>2. CASE player_turn \in 1 .. n
    <3>1. player_turn' = IF player_turn < place THEN player_turn ELSE player_turn - 1
      BY <1>2, <1>3, <1>6, <2>2 DEF TurnAfterDelete
    <3>2. player_turn' \in 1 .. n - 1
      BY <1>3, <1>6, <2>2, <3>1
    <3>3. players'[player_turn'] = players[player_turn]
      BY <1>3, <1>4, <1>6, <2>2, <3>1, <3>2
    <3>4. QED
      BY <1>4, <2>2, <3>2, <3>3 DEF Turn
  <2>3. QED
    BY <1>6, <2>1, <2>2
<1>8. id # Turn
  BY <1>1, <1>3, <1>6, GameAssumption DEF Turn, FREED, UniqueIds
<1>9. Turn # FREED => \E q \in Rules!Seated \ {id, Turn} : Hearts[q] > 0
  <2> SUFFICES ASSUME Turn # FREED
               PROVE  \E q \in Rules!Seated \ {id, Turn} : Hearts[q] > 0
    OBVIOUS
  <2>1. player_turn \in 1 .. n /\ Turn = players[player_turn].id
    BY DEF Turn
  <2>2. game_started
    BY <1>3, <2>1 DEF IInv, LobbyIsFresh, NULL
  <2> DEFINE stay == AlivePlaces(players) \ PlaceOf(players, id)
  <2>3. Cardinality(stay) >= 2
    BY <1>2, <2>2 DEF Left, MayLeave
  <2>4. IsFiniteSet(stay)
    <3>1. IsFiniteSet(AlivePlaces(players)) /\ stay \in SUBSET AlivePlaces(players)
      BY <1>1, AliveCount
    <3>2. QED
      BY <3>1, FS_Subset
  <2>5. PICK i \in stay : i # player_turn
    <3> HIDE DEF stay
    <3>1. \E i, j \in stay : i # j
      BY <2>3, <2>4, TwoElements
    <3>2. QED
      BY <3>1
  <2>6. i \in 1 .. n /\ players[i].hp > 0 /\ players[i].id # id
    BY <2>5 DEF AlivePlaces, PlaceOf
  <2>7. players[i].id # Turn
    BY <1>1, <2>1, <2>5, <2>6 DEF UniqueIds
  <2>8. QED
    BY <1>s, <2>6, <2>7
<1>10. Seats' = [i \in 1 .. Len(Seats) - 1 |->
                   Seats[IF i < Rules!Seat(id) THEN i ELSE i + 1]]
  <2>1. Seats' = [i \in 1 .. n - 1 |-> Seats'[i]]
    BY <1>3, <1>t
  <2>2. ASSUME NEW i \in 1 .. n - 1
        PROVE  Seats'[i] = Seats[IF i < place THEN i ELSE i + 1]
    <3> DEFINE j == IF i < place THEN i ELSE i + 1
    <3>1. j \in 1 .. n
      BY <1>3
    <3>2. players'[i] = players[j]
      BY <1>4
    <3> HIDE DEF j
    <3>3. Seats'[i] = Seats[j]
      BY <1>s, <1>t, <3>1, <3>2
    <3>4. QED
      BY <3>3 DEF j
  <2>3. QED
    BY <1>s, <1>5, <2>1, <2>2
<1>11. Rules!Seated' = Rules!Seated \ {id}
  <2>1. ASSUME NEW i \in 1 .. n - 1
        PROVE  players'[i].id \in Rules!Seated \ {id}
    <3>1. PICK j \in 1 .. n : players'[i] = players[j] /\ j # place
      BY <1>3, <1>4
    <3>2. QED
      BY <1>1, <1>3, <1>s, <3>1 DEF UniqueIds
  <2>2. ASSUME NEW j \in 1 .. n, j # place
        PROVE  players[j].id \in Rules!Seated'
    <3>1. PICK i \in 1 .. n - 1 : j = IF i < place THEN i ELSE i + 1
      <4>1. j < place => j \in 1 .. n - 1
        BY <1>3
      <4>2. j > place => j - 1 \in 1 .. n - 1 /\ j = (j - 1) + 1 /\ ~(j - 1 < place)
        BY <1>3
      <4>3. QED
        BY <1>3, <2>2, <4>1, <4>2
    <3>2. QED
      BY <1>4, <1>t, <3>1
  <2>3. Rules!Seated' \subseteq Rules!Seated \ {id}
    BY <1>t, <2>1
  <2>4. ASSUME NEW q \in Rules!Seated \ {id}
        PROVE  q \in Rules!Seated'
    <3>1. PICK j \in 1 .. n : q = players[j].id
      BY <1>s
    <3>2. j # place
      BY <1>3, <3>1
    <3>3. QED
      BY <2>2, <3>1, <3>2
  <2>5. QED
    BY <2>3, <2>4
<1>12. ASSUME NEW q \in Rules!Seated \ {id}
       PROVE  Hearts'[q] = Hearts[q]
  <2>1. PICK i \in 1 .. n - 1 : q = players'[i].id
    BY <1>11, <1>t
  <2>2. PICK j \in 1 .. n : players'[i] = players[j]
    BY <1>3, <1>4
  <2>3. QED
    BY <1>s, <1>t, <2>1, <2>2
<1>13. Hearts' = [q \in Rules!Seated \ {id} |-> Hearts[q]]
  BY <1>11, <1>12, <1>t
<1>14. QED
  BY <1>5, <1>7, <1>8, <1>9, <1>10, <1>13 DEF Rules!Leave

(* The clock runs out: the holder loses a heart, and the turn goes on or   *)
(* the game is over.                                                       *)
LEMMA TimeOutRules ==
  ASSUME IInv, ~AnyDeparture, NEW deltatime \in DeltaTime, TimeOut(deltatime),
         TableOfPlayers'
  PROVE  [Rules!RulesNext]_Rules!rulesVars
<1> DEFINE list == lose_hp(players, player_turn)
           holder == NextHolder(list)
           left == [Hearts EXCEPT ![Turn] = @ - 1]
           alive == {q \in Rules!Seated : left[q] > 0}
           n == Len(players)
<1>1. TableOfPlayers /\ TypeOK /\ UniqueIds /\ players \in Seq(Player)
  BY TableIsTheList DEF IInv, TypeOK, Player
<1>2. game_started /\ player_turn \in AlivePlaces(players) /\ player_turn # FREED
  BY DEF TimeOut, IInv, TurnHolderAlive
<1>3. player_turn \in 1 .. n /\ player_turn # NULL
  BY <1>2 DEF AlivePlaces, NULL
<1>4. /\ list \in Seq(Player) /\ Len(list) = n
      /\ \A j \in 1 .. n :
           /\ list[j].id = players[j].id
           /\ list[j].hp = IF j = player_turn THEN players[j].hp - 1 ELSE players[j].hp
  BY <1>1, <1>2, LoseHp
<1>s. /\ Seats \in Seq(Id) /\ Len(Seats) = n
      /\ \A i \in 1 .. n : Seats[i] = players[i].id /\ Hearts[players[i].id] = players[i].hp
      /\ Rules!Seated = {players[i].id : i \in 1 .. n}
      /\ Hearts = [q \in Rules!Seated |-> Hearts[q]]
  BY <1>1 DEF TableOfPlayers
<1>5. Turn = players[player_turn].id /\ Turn # FREED
  <2>1. Turn = players[player_turn].id
    BY <1>3 DEF Turn
  <2>2. players[player_turn].id \in Id
    BY <1>1, <1>3 DEF TableOfPlayers
  <2>3. QED
    BY <2>1, <2>2, GameAssumption DEF FREED
<1> HIDE DEF list
<1>6. \A j \in 1 .. n : left[players[j].id] = list[j].hp
  BY <1>1, <1>3, <1>4, <1>5, <1>s DEF UniqueIds
<1>7. CASE holder = NULL
  BY <1>7, QuietRules DEF TimeOut, Die, playing, list
<1>8. CASE holder # NULL
  <2>1. holder = get_next_alive_player(list, player_turn)
    BY <1>3 DEF NextHolder
  <2>2. holder \in 1 .. n /\ Rules!GoesTo(Turn, players[holder].id, left)
    <3> HIDE DEF left, holder
    <3>1. QED
      BY <1>3, <1>4, <1>6, <1>8, <2>1, TurnGoesOn
  <2>3. CASE get_alive_player_count(list) = 1
    <3>1. players' = AllHearts(list) /\ player_turn' = NULL
      BY <1>8, <2>3 DEF TimeOut, list
    <3>2. /\ Len(players') = n
          /\ \A j \in 1 .. n : players'[j].id = players[j].id /\ players'[j].hp = MAX_HP
      BY <1>4, <3>1, AllHeartsBack
    <3>3. /\ Seats' \in Seq(Id) /\ Len(Seats') = n
          /\ \A j \in 1 .. n : Seats'[j] = players[j].id /\ Hearts'[players[j].id] = MAX_HP
          /\ Rules!Seated' = {players'[j].id : j \in 1 .. n}
          /\ Hearts' = [q \in Rules!Seated' |-> Hearts'[q]]
      BY <3>2 DEF TableOfPlayers
    <3>4. Seats' = Seats
      BY <1>s, <3>3, SeqEqual
    <3>5. Rules!Seated' = Rules!Seated
      <4>1. {players'[j].id : j \in 1 .. n} = {players[j].id : j \in 1 .. n}
        BY <3>2
      <4>2. QED
        BY <1>s, <3>3, <4>1
    <3>6. Hearts' = [q \in Rules!Seated |-> MAX_HP]
      <4>1. \A q \in Rules!Seated : Hearts'[q] = MAX_HP
        <5> TAKE q \in Rules!Seated
        <5>1. PICK j \in 1 .. n : q = players[j].id
          BY <1>s
        <5>2. QED
          BY <3>3, <5>1
      <4>2. QED
        BY <3>3, <3>5, <4>1
    <3>7. Turn' = FREED
      BY <3>1, <3>2 DEF Turn, NULL
    <3>8. \E p \in alive : alive = {p}
      <4>1. PICK i \in AlivePlaces(list) : AlivePlaces(list) = {i}
        BY <1>4, <2>3, AliveCount, FS_Singleton DEF get_alive_player_count
      <4>2. i \in 1 .. n /\ list[i].hp > 0
        BY <1>4 DEF AlivePlaces
      <4>3. \A j \in 1 .. n : list[j].hp > 0 => j = i
        BY <1>4, <4>1 DEF AlivePlaces
      <4>4. players[i].id \in alive
        BY <1>6, <1>s, <4>2
      <4>5. ASSUME NEW q \in alive
            PROVE  q = players[i].id
        <5>1. PICK j \in 1 .. n : q = players[j].id
          BY <1>s
        <5>2. list[j].hp > 0
          BY <1>6, <5>1
        <5>3. QED
          BY <4>3, <5>1, <5>2
      <4>6. QED
        BY <4>4, <4>5
    <3>9. Rules!LoseHeart
      BY <1>5, <3>4, <3>6, <3>7, <3>8 DEF Rules!LoseHeart
    <3>10. QED
      BY <3>9 DEF Rules!RulesNext
  <2>4. CASE get_alive_player_count(list) # 1
    <3>1. players' = list /\ player_turn' = holder
      BY <1>8, <2>4 DEF TimeOut, list
    <3>2. /\ \A j \in 1 .. n : players'[j].id = players[j].id /\ players'[j].hp = list[j].hp
          /\ Len(players') = n
      BY <1>4, <3>1
    <3>3. /\ Seats' \in Seq(Id) /\ Len(Seats') = n
          /\ \A j \in 1 .. n : Seats'[j] = players[j].id
                                /\ Hearts'[players[j].id] = list[j].hp
          /\ Rules!Seated' = {players'[j].id : j \in 1 .. n}
          /\ Hearts' = [q \in Rules!Seated' |-> Hearts'[q]]
      BY <3>2 DEF TableOfPlayers
    <3>4. Seats' = Seats
      BY <1>s, <3>3, SeqEqual
    <3>5. Rules!Seated' = Rules!Seated
      <4>1. {players'[j].id : j \in 1 .. n} = {players[j].id : j \in 1 .. n}
        BY <3>2
      <4>2. QED
        BY <1>s, <3>3, <4>1
    <3>6. Hearts' = left
      <4>1. left = [q \in Rules!Seated |-> left[q]]
        BY <1>s
      <4>2. \A q \in Rules!Seated : Hearts'[q] = left[q]
        <5> TAKE q \in Rules!Seated
        <5>1. PICK j \in 1 .. n : q = players[j].id
          BY <1>s
        <5> HIDE DEF left
        <5>2. QED
          BY <1>6, <3>3, <5>1
      <4> HIDE DEF left
      <4>3. QED
        BY <3>3, <3>5, <4>1, <4>2
    <3>7. Turn' = players[holder].id
      BY <2>2, <3>1, <3>2 DEF Turn
    <3>8. \E p, q \in alive : p # q
      <4>1. holder \in AlivePlaces(list)
        <5>1. left[players[holder].id] > 0
          BY <2>2 DEF Rules!GoesTo
        <5> HIDE DEF left, holder
        <5>2. QED
          BY <1>4, <1>6, <2>2, <5>1 DEF AlivePlaces
      <4>2. PICK i \in AlivePlaces(list), j \in AlivePlaces(list) : i # j
        <5> HIDE DEF holder
        <5>1. QED
          BY <1>4, <2>4, <4>1, AliveCount
      <4>3. /\ i \in 1 .. n /\ list[i].hp > 0
            /\ j \in 1 .. n /\ list[j].hp > 0
        BY <1>4 DEF AlivePlaces
      <4>4. players[i].id \in alive /\ players[j].id \in alive
        BY <1>6, <1>s, <4>3
      <4>5. players[i].id # players[j].id
        BY <1>1, <4>2, <4>3 DEF UniqueIds
      <4>6. QED
        BY <4>4, <4>5
    <3>9. Rules!LoseHeart
      <4> HIDE DEF holder
      <4>1. QED
        BY <1>5, <2>2, <3>4, <3>6, <3>7, <3>8 DEF Rules!LoseHeart
    <3>10. QED
      BY <3>9 DEF Rules!RulesNext
  <2>5. QED
    BY <2>3, <2>4
<1>9. QED
  BY <1>7, <1>8

(* Every step of the thread is a step of the game, or none. *)
LEMMA RulesSteps ==
  ASSUME ~AnyDeparture
  PROVE  IInv /\ IInv' /\ [Next]_vars => [Rules!RulesNext]_Rules!rulesVars
<1> SUFFICES ASSUME IInv, IInv', [Next]_vars
             PROVE  [Rules!RulesNext]_Rules!rulesVars
  OBVIOUS
<1>a. TableOfPlayers' /\ players \in Seq(Player)
  <2>1. TypeOK' /\ UniqueIds' /\ TypeOK
    BY DEF IInv
  <2>2. (TypeOK /\ UniqueIds => TableOfPlayers)'
    BY TableIsTheList, PTL
  <2>3. QED
    BY <2>1, <2>2 DEF TypeOK, Player
<1>1. CASE UNCHANGED <<players, player_turn>>
  BY <1>1, QuietRules
<1>2. CASE Terminal
  <2>1. CASE Start
    <3>1. PassTurn(<<>>, << <<"T_GAME_START">> >>) /\ fault = "none"
      BY <2>1 DEF Start
    <3>2. Len(players) > 1 \/ player_turn # NULL
      <4>1. PICK i \in AlivePlaces(players), j \in AlivePlaces(players) : i # j
        BY <1>a, <2>1, AliveCount DEF Start
      <4>2. i \in 1 .. Len(players) /\ j \in 1 .. Len(players)
        BY DEF AlivePlaces
      <4>3. QED
        BY <1>a, <4>1, <4>2
    <3>3. QED
      BY <3>1, <3>2, PassTurnRules
  <2>2. CASE NoLine \/ StartRefused \/ StartThroughFreed
    BY <1>1, <2>2 DEF NoLine, StartRefused, StartThroughFreed, Die, playing
  <2>3. QED
    BY <1>2, <2>1, <2>2 DEF Terminal
<1>3. ASSUME NEW id \in Id, Join(id)
      PROVE  [Rules!RulesNext]_Rules!rulesVars
  BY <1>3, <1>a, JoinRules DEF Rules!RulesNext
<1>4. ASSUME NEW id \in Id, Left(id)
      PROVE  [Rules!RulesNext]_Rules!rulesVars
  <2>1. CASE PlaceOf(players, id) = {}
    BY <1>1, <1>4, <2>1 DEF Left
  <2>2. CASE PlaceOf(players, id) # {}
    BY <1>4, <1>a, <2>2, LeftRules DEF Rules!RulesNext
  <2>3. QED
    BY <2>1, <2>2
<1>5. ASSUME NEW id \in Id, NEW word \in Word, WordRight(id, word)
      PROVE  [Rules!RulesNext]_Rules!rulesVars
  <2>1. /\ PassTurn(<< <<"T_CORRECT_WORD", id, word>> >>, <<>>) /\ fault = "none"
        /\ player_turn \in 1 .. Len(players)
    BY <1>5 DEF WordRight, CanSend, PlaceOf
  <2>2. player_turn # NULL
    BY <2>1 DEF NULL
  <2>3. QED
    BY <2>1, <2>2, PassTurnRules
<1>6. CASE Message
  <2>1. ASSUME NEW id \in Id,
               JoinRefused(id) \/ WordWithoutTurn(id) \/ WordOutOfTurn(id)
                 \/ \E word \in Word : WordWrong(id, word)
        PROVE  UNCHANGED <<players, player_turn>>
    BY <2>1 DEF JoinRefused, WordWithoutTurn, WordOutOfTurn, WordWrong, Die, playing
  <2>2. QED
    BY <1>1, <1>3, <1>4, <1>5, <1>6, <2>1 DEF Message
<1>7. CASE Clock
  <2>1. ASSUME NEW deltatime \in DeltaTime, TimeOut(deltatime)
        PROVE  [Rules!RulesNext]_Rules!rulesVars
    BY <1>a, <2>1, TimeOutRules
  <2>2. CASE Lobby \/ TimeOutThroughFreed \/ \E deltatime \in DeltaTime : Countdown(deltatime)
    BY <1>1, <2>2 DEF Lobby, TimeOutThroughFreed, Countdown, Die, playing
  <2>3. QED
    BY <1>7, <2>1, <2>2 DEF Clock
<1>8. CASE NoMoreMessages \/ Dead \/ UNCHANGED vars
  BY <1>1, <1>8 DEF NoMoreMessages, Dead, vars, playing
<1>9. QED
  BY <1>2, <1>6, <1>7, <1>8 DEF Next

(* The game logic thread plays by the rules: with no departure at the      *)
(* wrong moment, server_logic.c implements the game of GameRules.          *)
THEOREM GameIsPlayedByTheRules == ~AnyDeparture /\ Spec => PlaysByTheRules
<1> SUFFICES ASSUME ~AnyDeparture PROVE Spec => PlaysByTheRules
  OBVIOUS
<1>1. IInv /\ IInv' /\ [Next]_vars => [Rules!RulesNext]_Rules!rulesVars
  BY RulesSteps
<1>2. QED
  BY <1>1, RulesStart, AlwaysIInv, PTL DEF Spec, PlaysByTheRules, Rules!RulesSpec

----------------------------------------------------------------------------
(* ClientView: a client can follow the game by its messages. *)

(* The pictures f are what a client shows while it reads s. *)
Leads(a, s, b) ==
  \E f : /\ f[0] = a /\ f[Len(s)] = b
         /\ \A n \in 1 .. Len(s) : f[n] = Follow(f[n - 1], s[n])

LEMMA LeadsToFollowed ==
  ASSUME NEW S, NEW s \in Seq(S), NEW a, NEW b, Leads(a, s, b)
  PROVE  Followed(a, s) = b
<1> DEFINE N == Len(s)
           Shows(g) == g = [n \in 0 .. N |-> IF n = 0 THEN a ELSE Follow(g[n - 1], s[n])]
           after == CHOOSE g : Shows(g)
<1>1. N \in Nat
  OBVIOUS
<1>2. Followed(a, s) = after[N]
  BY DEF Followed
<1>3. PICK f : /\ f[0] = a /\ f[N] = b
               /\ \A n \in 1 .. N : f[n] = Follow(f[n - 1], s[n])
  BY DEF Leads
<1> HIDE DEF N
<1>4. Shows([n \in 0 .. N |-> f[n]])
  <2> DEFINE g == [n \in 0 .. N |-> f[n]]
  <2>1. \A n \in 0 .. N : g[n] = f[n]
    OBVIOUS
  <2> HIDE DEF g
  <2>2. \A n \in 0 .. N : g[n] = IF n = 0 THEN a ELSE Follow(g[n - 1], s[n])
    <3>1. TAKE n \in 0 .. N
    <3>2. CASE n = 0
      BY <1>1, <1>3, <2>1, <3>2
    <3>3. CASE n # 0
      <4>1. n \in 1 .. N /\ n - 1 \in 0 .. N
        BY <1>1, <3>3
      <4> QED
        BY <1>3, <2>1, <3>3, <4>1
    <3> QED
      BY <3>2, <3>3
  <2>3. g = [n \in 0 .. N |-> IF n = 0 THEN a ELSE Follow(g[n - 1], s[n])]
    BY <2>2 DEF g
  <2> QED
    BY <2>3 DEF g
<1>5. Shows(after)
  BY <1>4
<1> HIDE DEF after
<1>6. \A n \in 0 .. N : after[n] = IF n = 0 THEN a ELSE Follow(after[n - 1], s[n])
  <2>1. after = [n \in 0 .. N |-> IF n = 0 THEN a ELSE Follow(after[n - 1], s[n])]
    BY <1>5
  <2> QED
    BY ONLY <2>1
<1> DEFINE Same == {n \in 0 .. N : after[n] = f[n]}
<1>7. 0 \in Same
  BY <1>1, <1>3, <1>6
<1>8. ASSUME NEW n \in 1 .. N, n - 1 \in Same
      PROVE  n \in Same
  <2>1. n \in 0 .. N /\ n # 0
    BY <1>1
  <2> QED
    BY <1>3, <1>6, <1>8, <2>1
<1> HIDE DEF Same
<1>9. \A n \in 0 .. N : n \in Same
  BY <1>1, <1>7, <1>8, Ascending
<1>10. N \in 0 .. N
  BY <1>1
<1> QED
  BY <1>2, <1>3, <1>9, <1>10 DEF Same

(* Reading nothing, one message, or some after others. *)
LEMMA LeadsNowhere == \A a : Leads(a, <<>>, a)
<1> TAKE a
<1> DEFINE f == [n \in 0 .. 0 |-> a]
<1>1. f[0] = a /\ Len(<<>>) = 0
  OBVIOUS
<1> HIDE DEF f
<1>2. \A n \in 1 .. 0 : f[n] = Follow(f[n - 1], <<>>[n])
  OBVIOUS
<1> QED
  BY <1>1, <1>2 DEF Leads

LEMMA LeadsOne == \A a, m : Leads(a, <<m>>, Follow(a, m))
<1> TAKE a, m
<1> DEFINE b == Follow(a, m)
           f == [n \in 0 .. 1 |-> IF n = 0 THEN a ELSE b]
           s == <<m>>
<1>1. f[0] = a /\ f[1] = b /\ Len(s) = 1 /\ s[1] = m
  OBVIOUS
<1> HIDE DEF f, s
<1>2. \A n \in 1 .. 1 : f[n] = Follow(f[n - 1], s[n])
  <2>1. \A n \in 1 .. 1 : n = 1 /\ n - 1 = 0
    OBVIOUS
  <2> QED
    BY <1>1, <2>1
<1> QED
  BY <1>1, <1>2 DEF Leads, s

LEMMA LeadsOn ==
  ASSUME NEW S, NEW s \in Seq(S), NEW t \in Seq(S), NEW a, NEW b, NEW c,
         Leads(a, s, b), Leads(b, t, c)
  PROVE  Leads(a, s \o t, c)
<1> DEFINE M == Len(s)
           N == Len(t)
<1>1. PICK f : f[0] = a /\ f[M] = b /\ \A n \in 1 .. M : f[n] = Follow(f[n - 1], s[n])
  BY DEF Leads
<1>2. PICK g : g[0] = b /\ g[N] = c /\ \A n \in 1 .. N : g[n] = Follow(g[n - 1], t[n])
  BY DEF Leads
<1>3. /\ M \in Nat /\ N \in Nat /\ Len(s \o t) = M + N
      /\ \A n \in 1 .. M + N : (s \o t)[n] = IF n <= M THEN s[n] ELSE t[n - M]
  BY ConcatProperties
<1> DEFINE h == [n \in 0 .. M + N |-> IF n <= M THEN f[n] ELSE g[n - M]]
           u == s \o t
<1>4. \A n \in 0 .. M + N : h[n] = IF n <= M THEN f[n] ELSE g[n - M]
  OBVIOUS
<1> HIDE DEF h, M, N, u
<1>5. h[0] = a
  BY <1>1, <1>3, <1>4
<1>6. h[M + N] = c
  <2>1. CASE N = 0
    BY <1>1, <1>2, <1>3, <1>4, <2>1
  <2>2. CASE N # 0
    <3>1. M + N \in 0 .. M + N /\ ~(M + N <= M) /\ (M + N) - M = N
      BY <1>3, <2>2
    <3> QED
      BY <1>2, <1>4, <3>1
  <2> QED
    BY <2>1, <2>2
<1>7. ASSUME NEW n \in 1 .. M + N
      PROVE  h[n] = Follow(h[n - 1], u[n])
  <2>1. n \in 0 .. M + N /\ n - 1 \in 0 .. M + N /\ n \in Int
    BY <1>3
  <2>2. CASE n <= M
    <3>1. n \in 1 .. M /\ n - 1 <= M
      BY <1>3, <2>2
    <3> QED
      BY <1>1, <1>3, <1>4, <2>1, <2>2, <3>1 DEF u
  <2>3. CASE n = M + 1
    <3>1. n - M = 1 /\ n - 1 = M /\ ~(n <= M) /\ 1 \in 1 .. N /\ 1 - 1 = 0
      BY <1>3, <2>3
    <3>2. h[n] = g[1] /\ h[n - 1] = f[M] /\ u[n] = t[1]
      BY <1>3, <1>4, <2>1, <3>1 DEF u
    <3>3. g[1] = Follow(g[0], t[1])
      BY <1>2, <3>1
    <3> QED
      BY <1>1, <1>2, <3>2, <3>3
  <2>4. CASE n > M + 1
    <3>1. ~(n <= M) /\ ~(n - 1 <= M) /\ n - M \in 1 .. N /\ (n - 1) - M = (n - M) - 1
      BY <1>3, <2>4
    <3>2. h[n] = g[n - M] /\ h[n - 1] = g[(n - M) - 1] /\ u[n] = t[n - M]
      BY <1>3, <1>4, <2>1, <3>1 DEF u
    <3> QED
      BY <1>2, <3>1, <3>2
  <2> QED
    BY <1>3, <2>1, <2>2, <2>3, <2>4
<1>8. Len(u) = M + N
  BY <1>3 DEF u
<1>9. Leads(a, u, c)
  BY <1>5, <1>6, <1>7, <1>8 DEF Leads
<1> QED
  BY <1>9 DEF u

(* One message put in front of others. *)
LEMMA InFrontOf ==
  \A d, b, e : /\ <<d>> \o <<>> = <<d>>
              /\ <<d>> \o <<b>> = <<d, b>>
              /\ <<d>> \o <<b, e>> = <<d, b, e>>
<1> TAKE d, b, e
<1> DEFINE S == {d, b, e}
           s == <<d>>
           none == <<>>
           one == <<b>>
           two == <<b, e>>
           pair == <<d, b>>
           triple == <<d, b, e>>
<1>1. /\ s \in Seq(S) /\ none \in Seq(S) /\ one \in Seq(S) /\ two \in Seq(S)
      /\ pair \in Seq(S) /\ triple \in Seq(S)
  OBVIOUS
<1>2. /\ Len(s) = 1 /\ Len(none) = 0 /\ Len(one) = 1 /\ Len(two) = 2
      /\ Len(pair) = 2 /\ Len(triple) = 3
      /\ s[1] = d /\ one[1] = b /\ two[1] = b /\ two[2] = e
      /\ pair[1] = d /\ pair[2] = b /\ triple[1] = d /\ triple[2] = b /\ triple[3] = e
  OBVIOUS
<1> HIDE DEF S, s, none, one, two, pair, triple
<1>3. \A t \in Seq(S) :
        /\ s \o t \in Seq(S) /\ Len(s \o t) = Len(s) + Len(t)
        /\ \A k \in 1 .. Len(s) + Len(t) : (s \o t)[k] = IF k <= Len(s) THEN s[k] ELSE t[k - Len(s)]
  BY ONLY <1>1, ConcatProperties
<1>4. s \o none = s
  <2>1. s \o none \in Seq(S) /\ Len(s \o none) = Len(s) /\ \A k \in 1 .. 1 : (s \o none)[k] = s[k]
    BY <1>1, <1>2, <1>3
  <2>2. \A k \in 1 .. 1 : (s \o none)[k] = s[k]
    BY <2>1
  <2> QED
    BY ONLY <1>1, <1>2, <2>1, <2>2, SeqEqual
<1>5. s \o one = pair
  <2>1. s \o one \in Seq(S) /\ Len(s \o one) = Len(pair) /\ \A k \in 1 .. 2 : (s \o one)[k] = pair[k]
    BY <1>1, <1>2, <1>3
  <2> QED
    BY <1>1, <1>2, <2>1, SeqEqual
<1>6. s \o two = triple
  <2>1. s \o two \in Seq(S) /\ Len(s \o two) = Len(triple) /\ \A k \in 1 .. 3 : (s \o two)[k] = triple[k]
    <3>1. /\ s \o two \in Seq(S) /\ Len(s \o two) = 3
          /\ \A k \in 1 .. 3 : (s \o two)[k] = IF k <= 1 THEN s[k] ELSE two[k - 1]
      <4>1. /\ s \o two \in Seq(S) /\ Len(s \o two) = Len(s) + Len(two)
            /\ \A k \in 1 .. Len(s) + Len(two) :
                 (s \o two)[k] = IF k <= Len(s) THEN s[k] ELSE two[k - Len(s)]
        BY <1>1, <1>3
      <4>2. Len(s) = 1 /\ Len(two) = 2 /\ Len(s) + Len(two) = 3
        BY <1>2
      <4> QED
        BY ONLY <4>1, <4>2
    <3>2. /\ 1 \in 1 .. 3 /\ 2 \in 1 .. 3 /\ 3 \in 1 .. 3 /\ 1 <= 1 /\ ~(2 <= 1) /\ ~(3 <= 1)
          /\ 2 - 1 = 1 /\ 3 - 1 = 2
      OBVIOUS
    <3>3. (s \o two)[1] = d /\ (s \o two)[2] = b /\ (s \o two)[3] = e
      BY <1>2, <3>1, <3>2
    <3>4. \A k \in 1 .. 3 : k = 1 \/ k = 2 \/ k = 3
      OBVIOUS
    <3> QED
      BY <1>2, <3>1, <3>3, <3>4
  <2> QED
    BY <1>1, <1>2, <2>1, SeqEqual
<1> QED
  BY <1>4, <1>5, <1>6 DEF s, none, one, two, pair, triple


LEMMA CodeRelayed ==
  \A c : /\ Relayed(<<c>>)[1] = NetCode[c]
         /\ \A x : Relayed(<<c, x>>)[1] = NetCode[c] /\ Relayed(<<c, x>>)[2] = x
         /\ \A x, y : Relayed(<<c, x, y>>)[1] = NetCode[c] /\ Relayed(<<c, x, y>>)[2] = x
<1> TAKE c
<1> DEFINE d == NetCode[c]
<1>1. Relayed(<<c>>) = <<d>>
  <2>1. <<c>>[1] = c /\ Tail(<<c>>) = <<>>
    OBVIOUS
  <2> QED
    BY <2>1, InFrontOf DEF Relayed
<1>2. ASSUME NEW x
      PROVE  Relayed(<<c, x>>) = <<d, x>>
  <2>1. <<c, x>>[1] = c /\ Tail(<<c, x>>) = <<x>>
    OBVIOUS
  <2> QED
    BY <2>1, InFrontOf DEF Relayed
<1>3. ASSUME NEW x, NEW y
      PROVE  Relayed(<<c, x, y>>) = <<d, x, y>>
  <2>1. <<c, x, y>>[1] = c /\ Tail(<<c, x, y>>) = <<x, y>>
    OBVIOUS
  <2> QED
    BY <2>1, InFrontOf DEF Relayed
<1> HIDE DEF d
<1> QED
  BY <1>1, <1>2, <1>3 DEF d

(* What a client shows, and what one shows that lists these players. *)
ShownAs(p, on, turn, substr) ==
  [phase |-> "main", players |-> p, my_id |-> 0, game_started |-> on,
   player_turn |-> turn, req_substr |-> substr]

ListShown(list) ==
  [i \in 1 .. Len(list) |-> [id |-> list[i].id, name |-> <<>>, hp |-> list[i].hp]]

Picture(list, on, turn, substr) == ShownAs(ListShown(list), on, turn, substr)

IdOfTurn(list, turn) == IF turn \in 1 .. Len(list) THEN list[turn].id ELSE turn

Fields == {"phase", "players", "my_id", "game_started", "player_turn", "req_substr"}

OfFields(v) == v = [x \in Fields |-> v[x]]

LEMMA ShownByFields ==
  \A v, p, on, turn, substr :
    /\ OfFields(v)
    /\ v.phase = "main" /\ v.players = p /\ v.my_id = 0 /\ v.game_started = on
    /\ v.player_turn = turn /\ v.req_substr = substr
    => v = ShownAs(p, on, turn, substr)
BY DEF OfFields, Fields, ShownAs

LEMMA ShownHasFields ==
  \A v, p, on, turn, substr :
    v = ShownAs(p, on, turn, substr)
    => /\ OfFields(v) /\ DOMAIN v = Fields
       /\ v.phase = "main" /\ v.players = p /\ v.my_id = 0 /\ v.game_started = on
       /\ v.player_turn = turn /\ v.req_substr = substr
BY DEF OfFields, Fields, ShownAs

LEMMA NewClientShown ==
  ASSUME NEW p, NEW on, NEW turn, NEW substr
  PROVE  [C!NewClient EXCEPT !.phase = "main", !.players = p, !.game_started = on,
                             !.player_turn = turn, !.req_substr = substr]
           = ShownAs(p, on, turn, substr)
<1> DEFINE v == C!NewClient
           w == [v EXCEPT !.phase = "main", !.players = p, !.game_started = on,
                          !.player_turn = turn, !.req_substr = substr]
<1>1. DOMAIN v = Fields /\ v.my_id = 0
  BY DEF Fields, C!NewClient
<1> HIDE DEF v
<1>2. OfFields(w)
  BY <1>1 DEF OfFields, Fields
<1>3. w.phase = "main" /\ w.my_id = 0
  BY <1>1 DEF Fields
<1>4. w.players = p
  BY <1>1 DEF Fields
<1>5. w.game_started = on
  BY <1>1 DEF Fields
<1>6. w.player_turn = turn
  BY <1>1 DEF Fields
<1>7. w.req_substr = substr
  BY <1>1 DEF Fields
<1> HIDE DEF w
<1>8. w = ShownAs(p, on, turn, substr)
  BY ONLY <1>2, <1>3, <1>4, <1>5, <1>6, <1>7, ShownByFields
<1> QED
  BY <1>8 DEF v, w

LEMMA ViewIsPicture ==
  /\ View = Picture(players, game_started, IdOfTurn(players, player_turn), required_substr)
  /\ View' = Picture(players', game_started', IdOfTurn(players', player_turn'), required_substr')
<1>1. View = Picture(players, game_started, IdOfTurn(players, player_turn), required_substr)
  BY NewClientShown DEF View, Picture, ListShown, IdOfTurn
<1>2. View' = Picture(players', game_started', IdOfTurn(players', player_turn'), required_substr')
  BY NewClientShown DEF View, Picture, ListShown, IdOfTurn, C!NewClient
<1> QED
  BY <1>1, <1>2

Singular(list) == \A i, j \in 1 .. Len(list) : list[i].id = list[j].id => i = j

LEMMA PictureKnows ==
  ASSUME NEW list \in Seq(Player), Singular(list), NEW on, NEW turn, NEW substr,
         NEW i \in 1 .. Len(list)
  PROVE  /\ C!Known(Picture(list, on, turn, substr), list[i].id)
         /\ C!FirstOf(Picture(list, on, turn, substr), list[i].id) = i
<1> DEFINE v == Picture(list, on, turn, substr)
<1>1. Len(list) \in Nat
  OBVIOUS
<1>2. v.players = [j \in 1 .. Len(list) |-> [id |-> list[j].id, name |-> <<>>, hp |-> list[j].hp]]
  BY DEF Picture, ShownAs, ListShown
<1>3. Len(v.players) = Len(list) /\ \A j \in 1 .. Len(list) : v.players[j].id = list[j].id
  BY <1>1, <1>2
<1> HIDE DEF v
<1>4. C!IdPlaces(v, list[i].id) = {i}
  BY <1>3 DEF C!IdPlaces, Singular
<1>5. C!FirstOf(v, list[i].id) = CHOOSE k \in {i} : \A j \in {i} : k <= j
  BY <1>4 DEF C!FirstOf
<1>6. C!FirstOf(v, list[i].id) = i
  BY <1>1, <1>5
<1>7. C!Known(v, list[i].id)
  BY <1>4 DEF C!Known
<1> QED
  BY <1>6, <1>7 DEF v

SaysSubstr(x) == <<"T_SEND_REQ_STR", x>>
SaysTime(x) == <<"T_TURN_TIME", x>>
SaysWrong(x) == <<"T_INCORRECT_WORD", x>>
SaysRefused(x) == <<"T_GAME_STARTED_NO_JOINING", x>>
SaysTurn(x) == <<"T_PLAYER_TURN", x>>
SaysWon(x) == <<"T_PLAYER_WON", x>>
SaysRight(x, w) == <<"T_CORRECT_WORD", x, w>>

(* What each of the logic thread's messages makes of a picture. *)
LEMMA FollowedEach ==
  ASSUME NEW list \in Seq(Player), Singular(list), NEW on, NEW turn, NEW substr, NEW v,
         v = Picture(list, on, turn, substr)
  PROVE  /\ \A x : /\ Follow(v, SaysSubstr(x)) = Picture(list, on, turn, x)
                   /\ Follow(v, SaysTime(x)) = v
                   /\ Follow(v, SaysWrong(x)) = v
                   /\ Follow(v, SaysRefused(x)) = v
         /\ \A i \in 1 .. Len(list) :
              /\ Follow(v, SaysTurn(list[i].id)) = Picture(list, on, list[i].id, substr)
              /\ Follow(v, SaysWon(list[i].id)) = v
              /\ \A w : Follow(v, SaysRight(list[i].id, w)) = v
<1>1. \A i \in 1 .. Len(list) : C!Known(v, list[i].id)
  BY PictureKnows
<1>2. ASSUME NEW x
      PROVE  /\ Follow(v, SaysSubstr(x)) = [v EXCEPT !.req_substr = x]
             /\ Follow(v, SaysTime(x)) = v
             /\ Follow(v, SaysWrong(x)) = v
             /\ Follow(v, SaysRefused(x)) = v
  <2> DEFINE m == <<"T_SEND_REQ_STR", x>>
             q == <<"T_TURN_TIME", x>>
             r == <<"T_INCORRECT_WORD", x>>
             n == <<"T_GAME_STARTED_NO_JOINING", x>>
  <2>1. /\ m[1] = "T_SEND_REQ_STR" /\ q[1] = "T_TURN_TIME" /\ r[1] = "T_INCORRECT_WORD"
        /\ n[1] = "T_GAME_STARTED_NO_JOINING"
    OBVIOUS
  <2>2. Relayed(m)[1] = "N_SEND_REQ_STR" /\ Relayed(m)[2] = x
    BY CodeRelayed DEF NetCode
  <2>3. Relayed(q)[1] = "N_TURN_TIME"
    BY CodeRelayed DEF NetCode
  <2>4. Relayed(r)[1] = "N_INCORRECT_WORD"
    BY CodeRelayed DEF NetCode
  <2> HIDE DEF m, q, r, n
  <2>5. Follow(v, m) = [v EXCEPT !.req_substr = x]
    BY <2>1, <2>2 DEF Follow, ForAll, NetCode, C!process_server_command
  <2>6. Follow(v, q) = v
    BY <2>1, <2>3 DEF Follow, ForAll, NetCode, C!process_server_command
  <2>7. Follow(v, r) = v
    BY <2>1, <2>4 DEF Follow, ForAll, NetCode, C!process_server_command
  <2>8. Follow(v, n) = v
    BY <2>1 DEF Follow, ForAll, NetCode
  <2> QED
    BY <2>5, <2>6, <2>7, <2>8 DEF m, q, r, n, SaysSubstr, SaysTime, SaysWrong, SaysRefused
<1>4. ASSUME NEW i \in 1 .. Len(list), NEW w
      PROVE  /\ Follow(v, SaysTurn(list[i].id)) = [v EXCEPT !.player_turn = list[i].id]
             /\ Follow(v, SaysWon(list[i].id)) = v
             /\ Follow(v, SaysRight(list[i].id, w)) = v
  <2> DEFINE x == list[i].id
             m == <<"T_PLAYER_TURN", x>>
             q == <<"T_PLAYER_WON", x>>
             r == <<"T_CORRECT_WORD", x, w>>
  <2>1. C!Known(v, x)
    BY <1>1
  <2> HIDE DEF x
  <2>2. m[1] = "T_PLAYER_TURN" /\ q[1] = "T_PLAYER_WON" /\ r[1] = "T_CORRECT_WORD"
    OBVIOUS
  <2>3. Relayed(m)[1] = "N_PLAYER_TURN" /\ Relayed(m)[2] = x
    BY CodeRelayed DEF NetCode
  <2>4. Relayed(q)[1] = "N_PLAYER_WON" /\ Relayed(q)[2] = x
    BY CodeRelayed DEF NetCode
  <2>5. Relayed(r)[1] = "N_CORRECT_WORD" /\ Relayed(r)[2] = x
    BY CodeRelayed DEF NetCode
  <2> HIDE DEF m, q, r
  <2>6. Follow(v, m) = [v EXCEPT !.player_turn = x]
    BY <2>1, <2>2, <2>3 DEF Follow, ForAll, NetCode, C!process_server_command
  <2>7. Follow(v, q) = v
    BY <2>1, <2>2, <2>4 DEF Follow, ForAll, NetCode, C!process_server_command, C!naming_alert
  <2>8. Follow(v, r) = v
    BY <2>1, <2>2, <2>5 DEF Follow, ForAll, NetCode, C!process_server_command, C!naming_alert
  <2> QED
    BY <2>6, <2>7, <2>8 DEF m, q, r, x, SaysTurn, SaysWon, SaysRight
<1>5. ASSUME NEW x
      PROVE  /\ [v EXCEPT !.req_substr = x] = Picture(list, on, turn, x)
             /\ [v EXCEPT !.player_turn = x] = Picture(list, on, x, substr)
  <2> DEFINE p == ListShown(list)
  <2>1. /\ v = ShownAs(p, on, turn, substr)
        /\ Picture(list, on, turn, x) = ShownAs(p, on, turn, x)
        /\ Picture(list, on, x, substr) = ShownAs(p, on, x, substr)
    BY DEF Picture
  <2> HIDE DEF p
  <2>2. [v EXCEPT !.req_substr = x] = ShownAs(p, on, turn, x)
    BY <2>1 DEF ShownAs
  <2>4. [v EXCEPT !.player_turn = x] = ShownAs(p, on, x, substr)
    BY <2>1 DEF ShownAs
  <2> QED
    BY <2>1, <2>2, <2>4
<1>6. \A i \in 1 .. Len(list) :
        /\ Follow(v, SaysTurn(list[i].id)) = Picture(list, on, list[i].id, substr)
        /\ Follow(v, SaysWon(list[i].id)) = v
        /\ \A w : Follow(v, SaysRight(list[i].id, w)) = v
  BY <1>4, <1>5
<1> QED
  BY <1>2, <1>5, <1>6

IsTrue(x) == x = TRUE
IsFalse(x) == x = FALSE

LEMMA FollowedStart ==
  ASSUME NEW list \in Seq(Player), NEW on, NEW turn, NEW substr, NEW v,
         v = Picture(list, on, turn, substr), NEW yes, IsTrue(yes)
  PROVE  Follow(v, <<"T_GAME_START">>) = Picture(list, yes, turn, substr)
<1>1. Follow(v, <<"T_GAME_START">>) = [v EXCEPT !.game_started = yes]
  <2> DEFINE m == <<"T_GAME_START">>
  <2>1. m[1] = "T_GAME_START"
    OBVIOUS
  <2>2. Relayed(m)[1] = "N_GAME_START"
    BY CodeRelayed DEF NetCode
  <2> HIDE DEF m
  <2>3. Follow(v, m) = [v EXCEPT !.game_started = TRUE]
    BY <2>1, <2>2 DEF Follow, ForAll, NetCode, C!process_server_command
  <2>4. [v EXCEPT !.game_started = TRUE] = [v EXCEPT !.game_started = yes]
    BY DEF IsTrue
  <2> QED
    BY <2>3, <2>4 DEF m
<1>2. [v EXCEPT !.game_started = yes] = Picture(list, yes, turn, substr)
  <2> DEFINE p == ListShown(list)
  <2>1. v = ShownAs(p, on, turn, substr) /\ Picture(list, yes, turn, substr) = ShownAs(p, yes, turn, substr)
    BY DEF Picture
  <2> HIDE DEF p
  <2>2. [v EXCEPT !.game_started = yes] = ShownAs(p, yes, turn, substr)
    BY ONLY <2>1 DEF ShownAs
  <2> QED
    BY <2>1, <2>2
<1> QED
  BY <1>1, <1>2

LEMMA FollowedLoss ==
  ASSUME NEW list \in Seq(Player), Singular(list), NEW on, NEW turn, NEW substr,
         NEW i \in AlivePlaces(list)
  PROVE  Follow(Picture(list, on, turn, substr), <<"T_LOSE_HP", list[i].id>>)
           = Picture(lose_hp(list, i), on, turn, substr)
<1> DEFINE v == Picture(list, on, turn, substr)
           x == list[i].id
           m == <<"T_LOSE_HP", x>>
           lost == lose_hp(list, i)
<1>1. i \in 1 .. Len(list) /\ Len(list) \in Nat
  BY DEF AlivePlaces
<1>2. C!Known(v, x) /\ C!FirstOf(v, x) = i
  BY <1>1, PictureKnows
<1>3. /\ Len(lost) = Len(list)
      /\ \A j \in 1 .. Len(list) :
           /\ lost[j].id = list[j].id
           /\ lost[j].hp = IF j = i THEN list[j].hp - 1 ELSE list[j].hp
  BY LoseHp
<1>4. Follow(v, m) = [v EXCEPT !.players[i].hp = @ - 1]
  <2> HIDE DEF v, x
  <2>1. m[1] = "T_LOSE_HP"
    OBVIOUS
  <2>2. Relayed(m)[1] = "N_LOSE_HP" /\ Relayed(m)[2] = x
    BY CodeRelayed DEF NetCode
  <2> HIDE DEF m
  <2> QED
    BY <1>2, <2>1, <2>2 DEF Follow, ForAll, NetCode, C!process_server_command, C!lose_heart
<1> DEFINE shown == [j \in 1 .. Len(list) |-> [id |-> list[j].id, name |-> <<>>, hp |-> list[j].hp]]
           after == [j \in 1 .. Len(list) |-> [id |-> list[j].id, name |-> <<>>, hp |-> lost[j].hp]]
<1>5. v = ShownAs(shown, on, turn, substr)
  BY DEF Picture, ListShown
<1>6. Picture(lost, on, turn, substr) = ShownAs(after, on, turn, substr)
  <2>1. ListShown(lost) = after
    BY <1>3 DEF ListShown
  <2> QED
    BY <2>1 DEF Picture
<1>7. [shown EXCEPT ![i].hp = @ - 1] = after
  <2>1. /\ DOMAIN shown = 1 .. Len(list)
        /\ \A j \in 1 .. Len(list) :
             shown[j] = [id |-> list[j].id, name |-> <<>>, hp |-> list[j].hp]
    OBVIOUS
  <2>2. \A j \in 1 .. Len(list) :
          after[j] = [id |-> list[j].id, name |-> <<>>, hp |-> lost[j].hp]
    OBVIOUS
  <2> HIDE DEF shown, lost
  <2>3. [shown[i] EXCEPT !.hp = @ - 1]
          = [id |-> list[i].id, name |-> <<>>, hp |-> list[i].hp - 1]
    BY <1>1, <2>1
  <2>4. \A j \in 1 .. Len(list) :
          [shown EXCEPT ![i].hp = @ - 1][j]
            = IF j = i THEN [shown[i] EXCEPT !.hp = @ - 1] ELSE shown[j]
    BY <1>1, <2>1
  <2>5. \A j \in 1 .. Len(list) : [shown EXCEPT ![i].hp = @ - 1][j] = after[j]
    BY <1>1, <1>3, <2>1, <2>2, <2>3, <2>4
  <2>6. DOMAIN [shown EXCEPT ![i].hp = @ - 1] = 1 .. Len(list)
    BY <2>1
  <2>7. [shown EXCEPT ![i].hp = @ - 1]
          = [j \in 1 .. Len(list) |-> [shown EXCEPT ![i].hp = @ - 1][j]]
    BY <2>6
  <2> DEFINE e == [shown EXCEPT ![i].hp = @ - 1]
  <2>8. e = [j \in 1 .. Len(list) |-> e[j]] /\ \A j \in 1 .. Len(list) : e[j] = after[j]
    BY <2>5, <2>7
  <2>9. after = [j \in 1 .. Len(list) |-> after[j]]
    OBVIOUS
  <2> HIDE DEF e, after
  <2> QED
    BY <2>8, <2>9 DEF e
<1> HIDE DEF shown, after, m, lost
<1>8. v.players = shown
  BY <1>5, ShownHasFields
<1> HIDE DEF v
<1>9. [v EXCEPT !.players[i].hp = @ - 1]
        = [v EXCEPT !.players = [shown EXCEPT ![i].hp = @ - 1]]
  BY <1>8
<1>10. [v EXCEPT !.players = after] = ShownAs(after, on, turn, substr)
  BY <1>5 DEF ShownAs
<1> QED
  BY <1>4, <1>6, <1>7, <1>9, <1>10 DEF m, lost, v

LEMMA FollowedRestart ==
  ASSUME NEW list \in Seq(Player), NEW old \in Seq(Player), Len(old) = Len(list),
         \A j \in 1 .. Len(list) : old[j].id = list[j].id, NEW on, NEW turn, NEW substr,
         NEW no, IsFalse(no)
  PROVE  Follow(Picture(old, on, turn, substr), <<"T_RESTART_GAME">>)
           = Picture(AllHearts(list), no, C!NoTurn, substr)
<1> DEFINE v == Picture(old, on, turn, substr)
           m == <<"T_RESTART_GAME">>
           n == Len(list)
           shown == [j \in 1 .. n |-> [id |-> list[j].id, name |-> <<>>, hp |-> old[j].hp]]
           after == [j \in 1 .. n |-> [id |-> list[j].id, name |-> <<>>, hp |-> MAX_HP]]
<1>1. n \in Nat
  OBVIOUS
<1>2. v = ShownAs(shown, on, turn, substr)
  BY DEF Picture, ListShown
<1>3. Follow(v, m) = C!restart_game(v)
  <2> HIDE DEF v
  <2>1. m[1] = "T_RESTART_GAME"
    OBVIOUS
  <2>2. Relayed(m)[1] = "N_RESTART_GAME"
    BY CodeRelayed DEF NetCode
  <2> HIDE DEF m
  <2> QED
    BY <2>1, <2>2 DEF Follow, ForAll, NetCode, C!process_server_command
<1>4. [j \in 1 .. Len(shown) |-> [shown[j] EXCEPT !.hp = MAX_HP]] = after
  BY <1>1
<1>5. Picture(AllHearts(list), no, C!NoTurn, substr) = ShownAs(after, no, C!NoTurn, substr)
  <2> DEFINE all == AllHearts(list)
  <2>1. Len(all) = n /\ \A j \in 1 .. n : all[j].id = list[j].id /\ all[j].hp = MAX_HP
    BY AllHeartsBack
  <2> HIDE DEF all
  <2>2. ListShown(all) = after
    BY <2>1 DEF ListShown
  <2> QED
    BY <2>2 DEF Picture, all
<1>6. v.players = shown
  BY <1>2, ShownHasFields
<1> HIDE DEF shown, after, m, v
<1>7. C!restart_game(v)
        = [v EXCEPT !.game_started = FALSE, !.player_turn = C!NoTurn,
                    !.players = [j \in 1 .. Len(shown) |-> [shown[j] EXCEPT !.hp = MAX_HP]]]
  BY <1>6 DEF C!restart_game
<1>8. C!restart_game(v)
        = [v EXCEPT !.game_started = no, !.player_turn = C!NoTurn, !.players = after]
  BY <1>4, <1>7 DEF IsFalse
<1>9. [v EXCEPT !.game_started = no, !.player_turn = C!NoTurn, !.players = after]
        = ShownAs(after, no, C!NoTurn, substr)
  <2> DEFINE w == [v EXCEPT !.game_started = no, !.player_turn = C!NoTurn, !.players = after]
  <2>1. /\ OfFields(v) /\ DOMAIN v = Fields
        /\ v.phase = "main" /\ v.my_id = 0 /\ v.req_substr = substr
    BY <1>2, ShownHasFields
  <2>2. OfFields(w)
    BY <2>1 DEF OfFields, Fields
  <2>3. w.phase = "main" /\ w.my_id = 0 /\ w.req_substr = substr
    BY <2>1 DEF Fields
  <2>4. w.game_started = no
    BY <2>1 DEF Fields
  <2>5. w.player_turn = C!NoTurn
    BY <2>1 DEF Fields
  <2>6. w.players = after
    BY <2>1 DEF Fields
  <2> HIDE DEF w
  <2>7. w = ShownAs(after, no, C!NoTurn, substr)
    BY ONLY <2>2, <2>3, <2>4, <2>5, <2>6, ShownByFields
  <2> QED
    BY <2>7 DEF w
<1> QED
  BY <1>3, <1>5, <1>8, <1>9 DEF m, v
LEMMA LeadsTwo == \A a, m, n : Leads(a, <<m, n>>, Follow(Follow(a, m), n))
<1> TAKE a, m, n
<1> DEFINE b == Follow(a, m)
           c == Follow(b, n)
           f == [k \in 0 .. 2 |-> IF k = 0 THEN a ELSE IF k = 1 THEN b ELSE c]
           s == <<m, n>>
<1>1. f[0] = a /\ f[1] = b /\ f[2] = c /\ Len(s) = 2 /\ s[1] = m /\ s[2] = n
  OBVIOUS
<1>2. b = Follow(a, m) /\ c = Follow(b, n)
  OBVIOUS
<1> HIDE DEF f, s, b, c
<1>3. \A k \in 1 .. 2 : f[k] = Follow(f[k - 1], s[k])
  <2>1. \A k \in 1 .. 2 : (k = 1 /\ k - 1 = 0) \/ (k = 2 /\ k - 1 = 1)
    OBVIOUS
  <2> QED
    BY <1>1, <1>2, <2>1
<1>4. Leads(a, s, c)
  BY <1>1, <1>3 DEF Leads
<1> QED
  BY <1>4 DEF s, c, b

LEMMA LeadsThree ==
  \A a, m, n, o : Leads(a, <<m, n, o>>, Follow(Follow(Follow(a, m), n), o))
<1> TAKE a, m, n, o
<1> DEFINE S == {m, n, o}
           b == Follow(a, m)
           c == Follow(Follow(b, n), o)
           s == <<m>>
           t == <<n, o>>
<1>1. s \in Seq(S) /\ t \in Seq(S)
  OBVIOUS
<1>2. Leads(a, s, b) /\ Leads(b, t, c)
  BY LeadsOne, LeadsTwo
<1>3. s \o t = <<m, n, o>>
  BY InFrontOf
<1> HIDE DEF S, b, c, s, t
<1>4. Leads(a, s \o t, c)
  BY <1>1, <1>2, LeadsOn
<1> QED
  BY <1>3, <1>4 DEF b, c

(* The messages of next_turn(). *)
LEMMA FollowedTurn ==
  ASSUME NEW list \in Seq(Player), Singular(list), NEW on, NEW turn, NEW old,
         NEW substr, NextHolder(list) \in 1 .. Len(list)
  PROVE  Leads(Picture(list, on, turn, old), TurnMessages(list, substr),
               Picture(list, on, list[NextHolder(list)].id, substr))
<1> DEFINE h == NextHolder(list)
           m == SaysSubstr(substr)
           n == SaysTurn(list[h].id)
           o == SaysTime(turn_timer)
           a == Picture(list, on, turn, old)
           b == Picture(list, on, turn, substr)
           c == Picture(list, on, list[h].id, substr)
<1>0. /\ a = Picture(list, on, turn, old) /\ b = Picture(list, on, turn, substr)
      /\ c = Picture(list, on, list[h].id, substr)
      /\ m = SaysSubstr(substr) /\ n = SaysTurn(list[h].id) /\ o = SaysTime(turn_timer)
      /\ h \in 1 .. Len(list)
  OBVIOUS
<1> HIDE DEF a, b, c, m, n, o, h
<1>1. Follow(a, SaysSubstr(substr)) = Picture(list, on, turn, substr)
  BY <1>0, FollowedEach
<1>2. Follow(b, SaysTurn(list[h].id)) = Picture(list, on, list[h].id, substr)
  BY <1>0, FollowedEach
<1>3. Follow(c, SaysTime(turn_timer)) = c
  BY <1>0, FollowedEach
<1>4. TurnMessages(list, substr) = <<m, n, o>>
  BY DEF TurnMessages, SaysSubstr, SaysTurn, SaysTime, m, n, o, h
<1>5. Leads(a, <<m, n, o>>, c)
  BY <1>0, <1>1, <1>2, <1>3, LeadsThree
<1> QED
  BY <1>4, <1>5 DEF a, c, h

LEMMA FollowedNothing ==
  ASSUME sent' = <<>>, UNCHANGED playing
  PROVE  Followed(View, sent') = View'
<1>1. View' = View
  BY ViewIsPicture DEF playing
<1>2. Leads(View, <<>>, View)
  BY LeadsNowhere
<1>3. <<>> \in Seq({})
  OBVIOUS
<1> DEFINE s == <<>>
<1> HIDE DEF s
<1>4. Followed(View, s) = View
  BY <1>2, <1>3, LeadsToFollowed DEF s
<1> QED
  BY <1>1, <1>4 DEF s

LEMMA FollowedOne ==
  ASSUME NEW m, sent' = <<m>>, Follow(View, m) = View, UNCHANGED playing
  PROVE  Followed(View, sent') = View'
<1>1. View' = View
  BY ViewIsPicture DEF playing
<1> DEFINE s == <<m>>
<1>2. Leads(View, s, View)
  BY LeadsOne
<1>3. s \in Seq({m})
  OBVIOUS
<1> HIDE DEF s
<1>4. Followed(View, s) = View
  BY <1>2, <1>3, LeadsToFollowed
<1> QED
  BY <1>1, <1>4 DEF s

LEMMA PassTurnFollowed ==
  ASSUME IInv, NEW S, NEW before \in Seq(S), NEW after \in Seq(S), PassTurn(before, after),
         player_turn # FREED,
         game_started \/ \E i, j \in AlivePlaces(players) : i # j,
         \A substr \in Substr : TurnMessages(players, substr) \in Seq(S),
         Leads(View, before, View),
         \A x, substr :
           Leads(Picture(players, game_started, x, substr), after,
                 Picture(players, game_started', x, substr))
  PROVE  Followed(View, sent') = View'
<1>1. players \in Seq(Player) /\ TypeOK /\ TurnHolderAlive /\ LobbyIsFresh /\ UniqueIds
  BY DEF IInv, TypeOK, Player
<1>2. player_turn = NULL => 1 \in AlivePlaces(players)
  <2>1. CASE game_started
    BY <1>1, <2>1 DEF TurnHolderAlive, AlivePlaces, NULL, FREED
  <2>2. CASE ~game_started
    <3>1. Len(players) \in Nat /\ Len(players) # 0
      BY <1>1, <2>2 DEF AlivePlaces
    <3>2. players[1].hp = MAX_HP /\ MAX_HP > 0
      BY <1>1, <2>2, <3>1, GameAssumption DEF LobbyIsFresh
    <3> QED
      BY <3>1, <3>2 DEF AlivePlaces
  <2> QED
    BY <2>1, <2>2
<1>3. NextHolder(players) \in AlivePlaces(players) \cup {NULL}
  BY <1>1, <1>2, NextHolderAlive DEF TypeOK, UniqueIds
<1>4. CASE NextHolder(players) = NULL
  <2>1. sent' = <<>> /\ UNCHANGED playing
    BY <1>4 DEF PassTurn, Die
  <2> QED
    BY <2>1, FollowedNothing
<1>5. CASE NextHolder(players) # NULL
  <2> DEFINE h == NextHolder(players)
  <2>1. player_turn' = h /\ players' = players
    BY <1>5 DEF PassTurn
  <2>2. PICK substr \in Substr :
          required_substr' = substr /\ sent' = before \o TurnMessages(players, substr) \o after
    BY <1>5 DEF PassTurn
  <2>3. h \in 1 .. Len(players)
    BY <1>3, <1>5 DEF AlivePlaces
  <2> DEFINE turn == TurnMessages(players, substr)
             b == Picture(players, game_started, players[h].id, substr)
             c == Picture(players, game_started', players[h].id, substr)
  <2>4. View' = c
    BY <2>1, <2>2, <2>3, ViewIsPicture DEF IdOfTurn
  <2>5. Leads(View, turn, b)
    BY <1>1, <2>3, FollowedTurn, ViewIsPicture DEF UniqueIds, Singular
  <2>6. Leads(b, after, c)
    OBVIOUS
  <2>7. turn \in Seq(S)
    OBVIOUS
  <2> HIDE DEF b, c, turn, h
  <2>8. before \o turn \in Seq(S) /\ before \o turn \o after \in Seq(S)
    BY <2>7, ConcatProperties
  <2>9. Leads(View, before \o turn, b)
    BY <2>5, <2>7, LeadsOn
  <2>10. Leads(View, before \o turn \o after, c)
    BY <2>6, <2>8, <2>9, LeadsOn
  <2>11. Followed(View, before \o turn \o after) = c
    BY <2>8, <2>10, LeadsToFollowed
  <2> QED
    BY <2>2, <2>4, <2>11 DEF turn
<1> QED
  BY <1>4, <1>5

(* The end of a frame, with or without the time that is left. *)
LEMMA FrameFollowed ==
  ASSUME NEW S, NEW messages \in Seq(S), NEW deltatime, EndFrame(messages, deltatime),
         NEW list \in Seq(Player), Singular(list), NEW on, NEW turn, NEW substr, NEW v,
         v = Picture(list, on, turn, substr), View' = v,
         Leads(View, messages, v)
  PROVE  Followed(View, sent') = View'
<1> DEFINE m == SaysTime(turn_timer')
           T == S \cup {m}
           end == <<m>>
<1>1. CASE sent' = messages
  BY <1>1, LeadsToFollowed
<1>2. CASE sent' = Append(messages, m)
  <2>1. Follow(v, m) = v
    BY FollowedEach
  <2>2. messages \in Seq(T) /\ end \in Seq(T) /\ m \in T
    OBVIOUS
  <2>3. Leads(v, end, v)
    BY <2>1, LeadsOne
  <2> HIDE DEF T, m
  <2>4. Append(messages, m) = messages \o end
    <3>1. Append(messages, m) \in Seq(T) /\ Len(Append(messages, m)) = Len(messages) + 1
          /\ \A k \in 1 .. Len(messages) + 1 :
               Append(messages, m)[k] = IF k = Len(messages) + 1 THEN m ELSE messages[k]
      BY <2>2
    <3>2. /\ messages \o end \in Seq(T) /\ Len(messages \o end) = Len(messages) + Len(end)
          /\ \A k \in 1 .. Len(messages) + Len(end) :
               (messages \o end)[k] = IF k <= Len(messages) THEN messages[k]
                                      ELSE end[k - Len(messages)]
      BY <2>2, ConcatProperties
    <3>3. Len(end) = 1 /\ end[1] = m /\ Len(messages) \in Nat
      BY <2>2
    <3> HIDE DEF end
    <3>4. \A k \in 1 .. Len(messages) + 1 : Append(messages, m)[k] = (messages \o end)[k]
      <4>1. TAKE k \in 1 .. Len(messages) + 1
      <4>2. CASE k = Len(messages) + 1
        <5>1. k - Len(messages) = 1 /\ ~(k <= Len(messages))
          BY <3>3, <4>2
        <5> QED
          BY <3>1, <3>2, <3>3, <4>2, <5>1
      <4>3. CASE k # Len(messages) + 1
        <5>1. k <= Len(messages)
          BY <3>3, <4>3
        <5> QED
          BY <3>1, <3>2, <3>3, <4>3, <5>1
      <4> QED
        BY <4>2, <4>3
    <3> QED
      BY <3>1, <3>2, <3>3, <3>4, SeqEqual
  <2> HIDE DEF end
  <2>5. messages \o end \in Seq(T)
    BY <2>2, ConcatProperties
  <2>6. Leads(View, messages \o end, v)
    BY <2>2, <2>3, LeadsOn
  <2>7. Followed(View, messages \o end) = v
    BY <2>5, <2>6, LeadsToFollowed
  <2> QED
    BY <1>2, <2>4, <2>7
<1>3. sent' = messages \/ sent' = Append(messages, m)
  BY DEF EndFrame, SaysTime
<1> QED
  BY <1>1, <1>2, <1>3

LEMMA TimeOutFollowed ==
  ASSUME IInv, NEW deltatime \in DeltaTime, TimeOut(deltatime)
  PROVE  Followed(View, sent') = View'
<1> DEFINE list == lose_hp(players, player_turn)
           h == NextHolder(list)
           lost == << <<"T_LOSE_HP", list[player_turn].id>> >>
           won == << <<"T_PLAYER_WON", list[h].id>>, <<"T_RESTART_GAME">> >>
           no == FALSE
<1>1. players \in Seq(Player) /\ TypeOK /\ Singular(players) /\ player_turn \in AlivePlaces(players)
  BY DEF IInv, TypeOK, Player, UniqueIds, Singular, TimeOut, TurnHolderAlive
<1>2. player_turn \in 1 .. Len(players) /\ Len(players) \in Nat /\ player_turn # NULL
  BY <1>1 DEF AlivePlaces, NULL
<1>3. /\ list \in Seq(Player) /\ Len(list) = Len(players)
      /\ \A j \in 1 .. Len(players) : list[j].id = players[j].id
  BY <1>1, LoseHp
<1> HIDE DEF list
<1>4. Singular(list)
  BY <1>1, <1>3 DEF Singular
<1>5. h \in AlivePlaces(list) \cup {NULL}
  BY <1>2, <1>3, <1>4, NextHolderAlive DEF Singular
<1>6. CASE h = NULL
  <2>1. sent' = <<>> /\ UNCHANGED playing
    BY <1>6 DEF TimeOut, Die, list
  <2> QED
    BY <2>1, FollowedNothing
<1>7. CASE h # NULL
  <2>1. h \in 1 .. Len(list)
    BY <1>5, <1>7 DEF AlivePlaces
  <2>2. PICK substr \in Substr :
          /\ required_substr' = substr
          /\ \/ /\ players' = AllHearts(list) /\ player_turn' = NULL /\ game_started' = FALSE
                /\ EndFrame(lost \o TurnMessages(list, substr) \o won, deltatime)
             \/ /\ players' = list /\ player_turn' = h /\ game_started' = game_started
                /\ EndFrame(lost \o TurnMessages(list, substr), deltatime)
    BY <1>7 DEF TimeOut, list
  <2> DEFINE x == players[player_turn].id
             y == list[h].id
             turn == TurnMessages(list, substr)
             a == Picture(players, game_started, x, required_substr)
             b == Picture(list, game_started, x, required_substr)
             c == Picture(list, game_started, y, substr)
             d == Picture(AllHearts(list), no, C!NoTurn, substr)
             S == {lost[1], won[1], won[2], turn[1], turn[2], turn[3]}
  <2>0. IsFalse(no)
    BY DEF IsFalse
  <2> HIDE DEF no
  <2>3. View = a
    BY <1>2, ViewIsPicture DEF IdOfTurn
  <2>4. Leads(a, lost, b)
    <3>1. lost = << <<"T_LOSE_HP", x>> >>
      BY <1>2, <1>3
    <3>2. Follow(a, <<"T_LOSE_HP", x>>) = b
      BY <1>1, FollowedLoss DEF list
    <3> HIDE DEF lost
    <3> QED
      BY <3>1, <3>2, LeadsOne
  <2>5. Leads(b, turn, c)
    BY <1>3, <1>4, <2>1, FollowedTurn
  <2>6. Leads(c, won, d)
    <3>1. c = Picture(list, game_started, y, substr)
      OBVIOUS
    <3>2. Follow(c, SaysWon(list[h].id)) = c
      BY <1>3, <1>4, <2>1, <3>1, FollowedEach
    <3>3. Follow(c, <<"T_RESTART_GAME">>) = d
      BY <1>3, <2>0, FollowedRestart
    <3>4. won = << SaysWon(list[h].id), <<"T_RESTART_GAME">> >>
      BY DEF SaysWon
    <3> HIDE DEF won, c, d
    <3> QED
      BY <3>2, <3>3, <3>4, LeadsTwo
  <2>7. lost \in Seq(S) /\ won \in Seq(S) /\ turn \in Seq(S)
    <3>1. lost \in Seq(S)
      OBVIOUS
    <3>2. won \in Seq(S)
      OBVIOUS
    <3>3. turn \in Seq(S)
      BY DEF TurnMessages
    <3> QED
      BY <3>1, <3>2, <3>3
  <2> HIDE DEF S, lost, won, turn
  <2>8. /\ lost \o turn \in Seq(S) /\ lost \o turn \o won \in Seq(S)
    BY <2>7, ConcatProperties
  <2>9. Leads(a, lost \o turn, c)
    BY <2>4, <2>5, <2>7, LeadsOn
  <2>10. Leads(a, lost \o turn \o won, d)
    BY <2>6, <2>7, <2>8, <2>9, LeadsOn
  <2>11. CASE /\ players' = AllHearts(list) /\ player_turn' = NULL /\ game_started' = FALSE
              /\ EndFrame(lost \o turn \o won, deltatime)
    <3> DEFINE all == AllHearts(list)
    <3>1. Len(all) = Len(list) /\ \A j \in 1 .. Len(list) : all[j].id = list[j].id
      BY <1>3, AllHeartsBack
    <3>2. all \in Seq(Player)
      <4>1. \A j \in 1 .. Len(list) : list[j] \in Player
        BY <1>3
      <4>2. \A j \in 1 .. Len(list) : [list[j] EXCEPT !.hp = MAX_HP] \in Player
        BY <4>1, GameAssumption DEF Player
      <4>3. all \in [1 .. Len(list) -> Player] /\ Len(list) \in Nat
        BY <1>3, <4>2 DEF AllHearts
      <4> QED
        BY <4>3
    <3>3. Singular(all)
      BY <1>4, <3>1 DEF Singular
    <3>4. IdOfTurn(all, NULL) = C!NoTurn
      BY DEF IdOfTurn, NULL, C!NoTurn
    <3>5. View' = d
      BY <2>0, <2>2, <2>11, <3>4, ViewIsPicture DEF IsFalse
    <3>6. d = Picture(all, no, C!NoTurn, substr)
      OBVIOUS
    <3> HIDE DEF all, d
    <3> QED
      BY <2>3, <2>8, <2>10, <2>11, <3>2, <3>3, <3>5, <3>6, FrameFollowed
  <2>12. CASE /\ players' = list /\ player_turn' = h /\ game_started' = game_started
              /\ EndFrame(lost \o turn, deltatime)
    <3>1. View' = c
      BY <2>1, <2>2, <2>12, ViewIsPicture DEF IdOfTurn
    <3>2. c = Picture(list, game_started, y, substr)
      OBVIOUS
    <3> HIDE DEF c
    <3> QED
      BY <1>3, <1>4, <2>3, <2>8, <2>9, <2>12, <3>1, <3>2, FrameFollowed
  <2> QED
    BY <2>2, <2>11, <2>12 DEF turn
<1> QED
  BY <1>6, <1>7

LEMMA CountdownFollowed ==
  ASSUME IInv, NEW deltatime \in DeltaTime, Countdown(deltatime)
  PROVE  Followed(View, sent') = View'
<1>1. players \in Seq(Player) /\ Singular(players)
  BY DEF IInv, TypeOK, Player, UniqueIds, Singular
<1>2. UNCHANGED playing /\ EndFrame(<<>>, deltatime)
  BY DEF Countdown
<1> DEFINE turn == IdOfTurn(players, player_turn)
           none == <<>>
<1>3. View = Picture(players, game_started, turn, required_substr) /\ View' = View
  BY <1>2, ViewIsPicture DEF playing
<1>4. none \in Seq({}) /\ Leads(View, none, View)
  BY LeadsNowhere
<1> HIDE DEF none, turn
<1>5. EndFrame(none, deltatime)
  BY <1>2 DEF none
<1> QED
  BY <1>1, <1>3, <1>4, <1>5, FrameFollowed

LEMMA StartFollowed ==
  ASSUME IInv, Start
  PROVE  Followed(View, sent') = View'
<1> DEFINE before == <<>>
           after == << <<"T_GAME_START">> >>
           S == {<<"T_GAME_START">>, SaysTurn(players[NextHolder(players)].id), SaysTime(turn_timer)}
                  \cup {SaysSubstr(substr) : substr \in Substr}
<1>1. players \in Seq(Player)
  BY DEF IInv, TypeOK, Player
<1>2. \E i, j \in AlivePlaces(players) : i # j
  BY <1>1, AliveCount DEF Start
<1>3. before \in Seq(S) /\ after \in Seq(S)
  OBVIOUS
<1>4. \A substr \in Substr : TurnMessages(players, substr) \in Seq(S)
  BY DEF TurnMessages, SaysSubstr, SaysTime, SaysTurn
<1>5. Leads(View, before, View)
  BY LeadsNowhere
<1>6. ASSUME NEW x, NEW substr
      PROVE  Leads(Picture(players, game_started, x, substr), after,
                   Picture(players, game_started', x, substr))
  <2>1. IsTrue(game_started')
    BY DEF Start, IsTrue
  <2>2. Follow(Picture(players, game_started, x, substr), <<"T_GAME_START">>)
          = Picture(players, game_started', x, substr)
    BY <1>1, <2>1, FollowedStart
  <2> QED
    BY <2>1, <2>2, LeadsOne
<1> HIDE DEF before, after, S
<1>7. PassTurn(before, after) /\ player_turn # FREED
  BY DEF Start, before, after
<1> QED
  BY <1>2, <1>3, <1>4, <1>5, <1>6, <1>7, PassTurnFollowed

LEMMA WordRightFollowed ==
  ASSUME IInv, NEW id \in Id, NEW word \in Word, WordRight(id, word)
  PROVE  Followed(View, sent') = View'
<1> DEFINE m == SaysRight(id, word)
           before == <<m>>
           after == <<>>
           S == {m, SaysTurn(players[NextHolder(players)].id), SaysTime(turn_timer)}
                  \cup {SaysSubstr(substr) : substr \in Substr}
<1>1. /\ players \in Seq(Player) /\ Singular(players) /\ Len(players) \in Nat
      /\ player_turn \in 1 .. Len(players) /\ players[player_turn].id = id
  BY DEF IInv, TypeOK, Player, UniqueIds, Singular, WordRight, PlaceOf
<1>2. player_turn # FREED /\ player_turn # NULL
  BY <1>1 DEF FREED, NULL
<1>3. game_started
  BY <1>2 DEF IInv, LobbyIsFresh
<1>4. before \in Seq(S) /\ after \in Seq(S)
  OBVIOUS
<1>5. \A substr \in Substr : TurnMessages(players, substr) \in Seq(S)
  BY DEF TurnMessages, SaysSubstr, SaysTime, SaysTurn
<1>6. Leads(View, before, View)
  <2> DEFINE turn == IdOfTurn(players, player_turn)
  <2>1. View = Picture(players, game_started, turn, required_substr)
    BY ViewIsPicture
  <2> HIDE DEF turn
  <2>2. Follow(View, SaysRight(players[player_turn].id, word)) = View
    BY <1>1, <2>1, FollowedEach
  <2> QED
    BY <1>1, <2>2, LeadsOne
<1>7. game_started' = game_started
  BY DEF WordRight
<1>8. \A x, substr : Leads(Picture(players, game_started, x, substr), after,
                           Picture(players, game_started', x, substr))
  BY <1>7, LeadsNowhere
<1> HIDE DEF before, after, S
<1>9. PassTurn(before, after)
  BY DEF WordRight, before, after, SaysRight
<1> QED
  BY <1>2, <1>3, <1>4, <1>5, <1>6, <1>8, <1>9, PassTurnFollowed

(* Answers to one client change nothing that is shown. *)
LEMMA AnswerFollowed ==
  ASSUME IInv, UNCHANGED playing, NEW id, sent' = << SaysWrong(id) >> \/ sent' = << SaysRefused(id) >>
  PROVE  Followed(View, sent') = View'
<1>1. players \in Seq(Player) /\ Singular(players)
  BY DEF IInv, TypeOK, Player, UniqueIds, Singular
<1> DEFINE turn == IdOfTurn(players, player_turn)
<1>2. View = Picture(players, game_started, turn, required_substr)
  BY ViewIsPicture
<1> HIDE DEF turn
<1>3. Follow(View, SaysWrong(id)) = View /\ Follow(View, SaysRefused(id)) = View
  BY <1>1, <1>2, FollowedEach
<1> QED
  BY <1>3, FollowedOne

(* What each step of the logic thread sends is all that is needed to       *)
(* follow it, but for joins and departures: the substring, the turn, the   *)
(* hearts and whether there is a game are announced in an order in which   *)
(* the client's handlers make of them what the thread made of its list.    *)
THEOREM ClientsFollowTheGame == Spec => ClientsCanFollow
<1> DEFINE Follows == Len(players') = Len(players) => Followed(View, sent') = View'
<1>1. IInv /\ [Next]_vars => [Follows]_vars
  <2> SUFFICES ASSUME IInv, [Next]_vars, Len(players') = Len(players), ~(UNCHANGED vars)
               PROVE  Followed(View, sent') = View'
    OBVIOUS
  <2>1. players \in Seq(Player) /\ Len(players) \in Nat
    BY DEF IInv, TypeOK, Player
  <2>2. CASE Terminal \/ NoMoreMessages
    <3>1. CASE Start
      BY <3>1, StartFollowed
    <3>2. CASE NoLine \/ StartRefused \/ StartThroughFreed \/ NoMoreMessages
      <4>1. sent' = <<>> /\ UNCHANGED playing
        BY <3>2 DEF NoLine, StartRefused, StartThroughFreed, NoMoreMessages, Die
      <4> QED
        BY <4>1, FollowedNothing
    <3> QED
      BY <2>2, <3>1, <3>2 DEF Terminal
  <2>3. ASSUME NEW id \in Id, Join(id)
        PROVE  FALSE
    BY <2>1, <2>3 DEF Join
  <2>4. ASSUME NEW id \in Id, Left(id)
        PROVE  Followed(View, sent') = View'
    <3>1. CASE PlaceOf(players, id) = {}
      <4>1. sent' = <<>> /\ UNCHANGED playing
        BY <2>4, <3>1 DEF Left, playing
      <4> QED
        BY <4>1, FollowedNothing
    <3>2. CASE PlaceOf(players, id) # {}
      <4>1. PICK place \in PlaceOf(players, id) : players' = DeleteAt(players, place)
        BY <2>4, <3>2 DEF Left
      <4>2. place \in 1 .. Len(players)
        BY <4>1 DEF PlaceOf
      <4>3. Len(players') = Len(players) - 1
        BY <2>1, <4>1, <4>2, Deleted
      <4> QED
        BY <2>1, <4>3
    <3> QED
      BY <3>1, <3>2
  <2>5. ASSUME NEW id \in Id, JoinRefused(id)
        PROVE  Followed(View, sent') = View'
    <3>1. sent' = << SaysRefused(id) >> /\ UNCHANGED playing
      BY <2>5 DEF JoinRefused, SaysRefused
    <3> QED
      BY <3>1, AnswerFollowed
  <2>6. ASSUME NEW id \in Id, WordWithoutTurn(id) \/ WordOutOfTurn(id)
        PROVE  Followed(View, sent') = View'
    <3>1. sent' = <<>> /\ UNCHANGED playing
      BY <2>6 DEF WordWithoutTurn, WordOutOfTurn, Die
    <3> QED
      BY <3>1, FollowedNothing
  <2>7. ASSUME NEW id \in Id, NEW word \in Word, WordWrong(id, word)
        PROVE  Followed(View, sent') = View'
    <3>1. sent' = << SaysWrong(id) >> /\ UNCHANGED playing
      BY <2>7 DEF WordWrong, SaysWrong
    <3> QED
      BY <3>1, AnswerFollowed
  <2>8. CASE Clock
    <3>1. CASE Lobby \/ TimeOutThroughFreed
      <4>1. sent' = <<>> /\ UNCHANGED playing
        BY <3>1 DEF Lobby, TimeOutThroughFreed, Die
      <4> QED
        BY <4>1, FollowedNothing
    <3> QED
      BY <2>8, <3>1, CountdownFollowed, TimeOutFollowed DEF Clock
  <2>9. CASE Message
    BY <2>3, <2>4, <2>5, <2>6, <2>7, <2>9, WordRightFollowed DEF Message
  <2> QED
    BY <2>2, <2>8, <2>9 DEF Next, Dead
<1>2. QED
  BY <1>1, AlwaysIInv, PTL DEF Spec, ClientsCanFollow
=============================================================================
