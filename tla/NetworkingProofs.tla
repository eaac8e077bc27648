--------------------------- MODULE NetworkingProofs ---------------------------
(***************************************************************************)
(* Proofs about Networking for any descriptors, any number of seats, any   *)
(* names and words, and any number of connections and inputs.              *)
(***************************************************************************)
EXTENDS Networking, OrderFacts, SequenceTheorems

----------------------------------------------------------------------------
(* The text of messages: CustomProtocol's operators                        *)

Separating(text, chars) == {j \in 1 .. Len(text) : text[j] \in chars}

(* The places of some characters are places of the text, in order.         *)
LEMMA PlacesAreInOrder ==
  ASSUME NEW S, NEW text \in Seq(S), NEW chars
  PROVE  /\ PlacesIn(text, chars) \in Seq(1 .. Len(text))
         /\ Len(PlacesIn(text, chars)) = Cardinality(Separating(text, chars))
         /\ \A n \in 1 .. Len(PlacesIn(text, chars)) :
              /\ PlacesIn(text, chars)[n] \in Separating(text, chars)
              /\ Cardinality(Below(Separating(text, chars), PlacesIn(text, chars)[n])) = n - 1
<1> DEFINE places == Separating(text, chars)
           p == PlacesIn(text, chars)
<1>1. places \in SUBSET (1 .. Len(text)) /\ Len(text) \in Nat
  BY LenProperties DEF Separating
<1>2. Cardinality(places) \in Nat
  BY <1>1, BelowFinite
<1>3. p = [n \in 1 .. Cardinality(places) |->
             CHOOSE j \in places : Cardinality(Below(places, j)) = n - 1]
  BY DEF PlacesIn, Separating, Below
<1>4. \A n \in 1 .. Cardinality(places) : \E j \in places : Cardinality(Below(places, j)) = n - 1
  BY <1>1, NthPlace
<1> HIDE DEF places, p
<1>5. \A n \in 1 .. Cardinality(places) :
        p[n] \in places /\ Cardinality(Below(places, p[n])) = n - 1
  BY <1>3, <1>4
<1>6. p \in Seq(1 .. Len(text)) /\ Len(p) = Cardinality(places)
  <2>1. DOMAIN p = 1 .. Cardinality(places) /\ p = [n \in DOMAIN p |-> p[n]]
    BY <1>3
  <2>2. \A n \in 1 .. Cardinality(places) : p[n] \in 1 .. Len(text)
    BY <1>1, <1>5
  <2>3. p \in [1 .. Cardinality(places) -> 1 .. Len(text)]
    BY <2>1, <2>2
  <2> QED
    BY <1>2, <2>3
<1> QED
  BY <1>5, <1>6 DEF places, p

LEMMA PlacesGrow ==
  ASSUME NEW S, NEW text \in Seq(S), NEW chars,
         NEW n \in 1 .. Len(PlacesIn(text, chars)), NEW k \in 1 .. Len(PlacesIn(text, chars)),
         n < k
  PROVE  PlacesIn(text, chars)[n] < PlacesIn(text, chars)[k]
<1> DEFINE places == Separating(text, chars)
           i == PlacesIn(text, chars)[n]
           j == PlacesIn(text, chars)[k]
<1>1. places \in SUBSET (1 .. Len(text)) /\ Len(text) \in Nat
  BY LenProperties DEF Separating
<1>2. /\ i \in places /\ Cardinality(Below(places, i)) = n - 1
      /\ j \in places /\ Cardinality(Below(places, j)) = k - 1
      /\ n \in Int /\ k \in Int
  BY PlacesAreInOrder
<1> HIDE DEF places, i, j
<1>3. i \in Int /\ j \in Int
  BY <1>1, <1>2
<1>4. j < i => Cardinality(Below(places, j)) < Cardinality(Below(places, i))
  BY <1>1, <1>2, BelowGrows
<1>5. i # j
  BY <1>2
<1>6. ~(j < i)
  BY <1>2, <1>4
<1>7. i < j
  BY <1>3, <1>5, <1>6
<1> QED
  BY <1>7 DEF i, j

(* When there is one such place, it is found. *)
LEMMA OnlyPlace ==
  ASSUME NEW S, NEW text \in Seq(S), NEW chars, NEW j, Separating(text, chars) = {j}
  PROVE  Len(PlacesIn(text, chars)) = 1 /\ PlacesIn(text, chars)[1] = j
<1>1. Cardinality({j}) = 1
  BY FS_Singleton
<1>2. Len(PlacesIn(text, chars)) = 1
  BY <1>1, PlacesAreInOrder
<1>3. PlacesIn(text, chars)[1] \in Separating(text, chars)
  <2>1. 1 \in 1 .. Len(PlacesIn(text, chars))
    BY <1>2
  <2>2. \A n \in 1 .. Len(PlacesIn(text, chars)) :
          PlacesIn(text, chars)[n] \in Separating(text, chars)
    BY PlacesAreInOrder
  <2> HIDE DEF Separating
  <2> QED
    BY ONLY <2>1, <2>2
<1> QED
  BY <1>2, <1>3

(* The first of the places has none of the characters before it. *)
LEMMA FirstPlaceIsFirst ==
  ASSUME NEW S, NEW text \in Seq(S), NEW chars, NEW i \in 1 .. Len(text), text[i] \in chars
  PROVE  /\ Len(PlacesIn(text, chars)) >= 1
         /\ PlacesIn(text, chars)[1] \in 1 .. i
<1> DEFINE places == Separating(text, chars)
<1>1. i \in places
  BY DEF Separating
<1>2. places \in SUBSET (1 .. Len(text)) /\ Len(text) \in Nat
  BY LenProperties DEF Separating
<1>3. IsFiniteSet(places) /\ Cardinality(places) \in Nat
  BY <1>2, BelowFinite
<1>4. Cardinality(places) >= 1
  BY <1>1, <1>3, FS_EmptySet
<1>5. Len(PlacesIn(text, chars)) = Cardinality(places)
  BY PlacesAreInOrder
<1>6. 1 \in 1 .. Len(PlacesIn(text, chars))
  BY <1>3, <1>4, <1>5
<1> DEFINE first == PlacesIn(text, chars)[1]
<1>7. first \in places /\ Cardinality(Below(places, first)) = 0
  BY <1>6, PlacesAreInOrder
<1> HIDE DEF first, places
<1>8. IsFiniteSet(Below(places, first))
  BY <1>2, <1>7, BelowFinite
<1>9. Below(places, first) = {}
  BY <1>7, <1>8, FS_EmptySet
<1>10. ~(i < first)
  BY <1>1, <1>9 DEF Below
<1>11. first \in 1 .. i
  BY <1>2, <1>7, <1>10
<1> QED
  BY <1>4, <1>5, <1>11 DEF first

(* A part of a text. *)
LEMMA PartOfText ==
  ASSUME NEW S, NEW text \in Seq(S), NEW a \in Nat \ {0}, NEW b \in 0 .. Len(text)
  PROVE  /\ SubSeq(text, a, b) \in Seq(S)
         /\ Len(SubSeq(text, a, b)) = IF a <= b THEN b - a + 1 ELSE 0
         /\ \A i \in 1 .. Len(SubSeq(text, a, b)) : SubSeq(text, a, b)[i] = text[a + i - 1]
<1>1. Len(text) \in Nat /\ \A i \in a .. b : text[i] \in S
  BY LenProperties, ElementOfSeq
<1>2. /\ SubSeq(text, a, b) \in Seq(S)
      /\ Len(SubSeq(text, a, b)) = IF a <= b THEN b - a + 1 ELSE 0
      /\ \A i \in 1 .. b - a + 1 : SubSeq(text, a, b)[i] = text[a + i - 1]
  BY <1>1, SubSeqProperties
<1>3. Len(SubSeq(text, a, b)) = b - a + 1 \/ Len(SubSeq(text, a, b)) = 0
  BY <1>2
<1>4. 1 .. Len(SubSeq(text, a, b)) \subseteq 1 .. b - a + 1
  BY <1>1, <1>3
<1> QED
  BY <1>2, <1>4

(* The messages that come out at the other end are parts of what went in,  *)
(* none is empty, each ends in MSG_END, and the first is the one that      *)
(* begins where the text begins.                                           *)
LEMMA FramedParts ==
  ASSUME NEW S, NEW text \in Seq(S), NEW i \in 1 .. Len(Framed(text))
  PROVE  \E a, b \in 1 .. Len(text) :
           /\ Framed(text)[i] = SubSeq(text, a, b)
           /\ a <= b
           /\ text[b] = MSG_END
           /\ i = 1 => a = 1
           /\ i # 1 => a > 1
<1> DEFINE ends == PlacesIn(text, {MSG_END})
<1>1. /\ ends \in Seq(1 .. Len(text))
      /\ \A n \in 1 .. Len(ends) : ends[n] \in Separating(text, {MSG_END})
  BY PlacesAreInOrder
<1>2. Len(ends) \in Nat
  BY <1>1, LenProperties
<1>3. Framed(text) =
        [n \in 1 .. Len(ends) |->
           SubSeq(text, (IF n = 1 THEN 0 ELSE ends[n - 1]) + 1, ends[n])]
  BY DEF Framed
<1>4. Len(Framed(text)) = Len(ends)
  BY <1>2, <1>3
<1>5. \A n, k \in 1 .. Len(ends) : n < k => ends[n] < ends[k]
  BY PlacesGrow
<1> HIDE DEF ends
<1>6. i \in 1 .. Len(ends)
  BY <1>4
<1> DEFINE a == (IF i = 1 THEN 0 ELSE ends[i - 1]) + 1
           b == ends[i]
<1>7. Framed(text)[i] = SubSeq(text, a, b)
  BY <1>3, <1>6
<1>8. b \in 1 .. Len(text) /\ text[b] = MSG_END
  BY <1>1, <1>6 DEF Separating
<1>9. a \in 1 .. b /\ (i = 1 => a = 1) /\ (i # 1 => a > 1)
  <2>1. CASE i = 1
    BY <1>8, <2>1
  <2>2. CASE i # 1
    <3>1. i - 1 \in 1 .. Len(ends) /\ i - 1 < i
      BY <1>2, <1>6, <2>2
    <3>2. ends[i - 1] < ends[i]
      BY <1>5, <1>6, <3>1
    <3>3. ends[i - 1] \in 1 .. Len(text)
      BY <1>1, <3>1 DEF Separating
    <3>4. a = ends[i - 1] + 1
      BY <2>2
    <3> QED
      BY <1>8, <2>2, <3>2, <3>3, <3>4
  <2> QED
    BY <2>1, <2>2
<1>10. a \in 1 .. Len(text)
  BY <1>8, <1>9
<1> HIDE DEF a, b
<1>11. a <= b
  BY <1>8, <1>9
<1> QED
  BY <1>7, <1>8, <1>9, <1>10, <1>11

(* The first value of a message that holds MSG_END is what lies between    *)
(* its code and the first character that ends a value.                     *)
LEMMA FirstValue ==
  ASSUME NEW S, NEW text \in Seq(S), NEW i \in 1 .. Len(text), text[i] = MSG_END
  PROVE  \E e \in 1 .. i : Values(text)[1] = SubSeq(text, 2, e - 1)
<1> DEFINE ends == PlacesIn(text, {MSG_END, MSG_VAL_SEP})
<1>1. Len(ends) >= 1 /\ ends[1] \in 1 .. i
  BY FirstPlaceIsFirst
<1>2. ends \in Seq(1 .. Len(text))
  BY PlacesAreInOrder
<1>3. Values(text) =
        [n \in 1 .. Len(ends) |->
           SubSeq(text, (IF n = 1 THEN 1 ELSE ends[n - 1]) + 1, ends[n] - 1)]
  BY DEF Values
<1> HIDE DEF ends
<1>4. 1 \in 1 .. Len(ends)
  BY <1>1, <1>2, LenProperties
<1>5. Values(text)[1] = SubSeq(text, 1 + 1, ends[1] - 1)
  BY <1>3, <1>4
<1> QED
  BY <1>1, <1>5

(* One value that fits and has no character that ends one makes a message  *)
(* that is framed as it is and gives the value back.                       *)
LEMMA PlainComesThrough ==
  ASSUME NEW S, NEW value \in Seq(S), Plain(value), NEW code,
         code \notin {MSG_END, MSG_VAL_SEP}
  PROVE  LET sent == <<code>> \o value \o <<MSG_END>>
         IN  /\ create_msg(code, <<value>>) = sent
             /\ Framed(sent) = <<sent>>
             /\ Values(sent)[1] = value
             /\ ~TooLong(Values(sent)[1])
<1> USE NetworkAssumption
<1> DEFINE sent == <<code>> \o value \o <<MSG_END>>
           n == Len(value)
<1>1. n \in Nat /\ n < ARG_LEN - 1 /\ ARG_LEN \in Nat
  BY LenProperties DEF Plain
<1>2. Truncated(value) = value
  <2>1. Min({n, ARG_LEN - 1}) = n
    BY <1>1 DEF Min
  <2>2. SubSeq(value, 1, n) = value
    <3>1. 1 \in Nat \ {0} /\ n \in 0 .. Len(value)
      BY <1>1
    <3>2. /\ SubSeq(value, 1, n) \in Seq(S)
          /\ Len(SubSeq(value, 1, n)) = IF 1 <= n THEN n - 1 + 1 ELSE 0
          /\ \A j \in 1 .. Len(SubSeq(value, 1, n)) : SubSeq(value, 1, n)[j] = value[1 + j - 1]
      BY <3>1, PartOfText
    <3>3. Len(SubSeq(value, 1, n)) = n
      BY <1>1, <3>2
    <3>4. \A j \in 1 .. n : SubSeq(value, 1, n)[j] = value[j]
      BY <1>1, <3>2, <3>3
    <3> QED
      BY <3>2, <3>3, <3>4, SeqEqual
  <2> QED
    BY <2>1, <2>2 DEF Truncated
<1>3. create_msg(code, <<value>>) = <<code>> \o value \o <<>> \o <<MSG_END>>
  BY <1>2 DEF create_msg
<1> DEFINE C == S \cup {code, MSG_END}
<1>4. <<code>> \in Seq(C) /\ value \in Seq(C) /\ <<MSG_END>> \in Seq(C) /\ <<>> \in Seq(C)
  <2>1. \A j \in 1 .. Len(value) : value[j] \in C
    BY ElementOfSeq
  <2> QED
    BY <2>1
<1> HIDE DEF C
<1>5. <<code>> \o value \in Seq(C)
  BY <1>4, ConcatProperties
<1>6. <<code>> \o value \o <<>> = <<code>> \o value
  BY <1>5, ConcatEmptySeq
<1>7. create_msg(code, <<value>>) = sent
  BY <1>3, <1>6
<1>8. /\ sent \in Seq(C)
      /\ Len(sent) = n + 2
      /\ sent[1] = code
      /\ \A j \in 1 .. n : sent[j + 1] = value[j]
      /\ sent[n + 2] = MSG_END
  <2>1. /\ Len(<<code>> \o value) = 1 + n
        /\ \A j \in 1 .. 1 + n : (<<code>> \o value)[j] = IF j <= 1 THEN <<code>>[j] ELSE value[j - 1]
    BY <1>4, ConcatProperties
  <2>2. /\ sent \in Seq(C)
        /\ Len(sent) = 1 + n + 1
        /\ \A j \in 1 .. 1 + n + 1 :
             sent[j] = IF j <= 1 + n THEN (<<code>> \o value)[j] ELSE <<MSG_END>>[j - (1 + n)]
    BY <1>4, <1>5, <2>1, ConcatProperties
  <2>3. sent[1] = code
    BY <1>1, <2>1, <2>2
  <2>4. \A j \in 1 .. n : sent[j + 1] = value[j]
    <3>1. TAKE j \in 1 .. n
    <3>2. j + 1 \in 1 .. 1 + n /\ j + 1 \in 1 .. 1 + n + 1 /\ ~(j + 1 <= 1) /\ j + 1 - 1 = j
      BY <1>1, <3>1
    <3> QED
      BY <2>1, <2>2, <3>2
  <2>5. sent[n + 2] = MSG_END
    <3>1. n + 2 \in 1 .. 1 + n + 1 /\ ~(n + 2 <= 1 + n) /\ n + 2 - (1 + n) = 1
      BY <1>1
    <3> QED
      BY <2>2, <3>1
  <2> QED
    BY <1>1, <2>2, <2>3, <2>4, <2>5
<1> HIDE DEF sent
<1>9. \A j \in 1 .. n : value[j] \notin {MSG_END, MSG_VAL_SEP}
  BY DEF Plain
<1>10. ASSUME NEW chars \in SUBSET {MSG_END, MSG_VAL_SEP}, MSG_END \in chars
       PROVE  Separating(sent, chars) = {n + 2}
  <2>1. ASSUME NEW j \in 1 .. n + 2, sent[j] \in chars PROVE j = n + 2
    <3>1. j # 1
      BY <1>8, <2>1
    <3>2. ASSUME j \in 2 .. n + 1 PROVE FALSE
      <4>1. j - 1 \in 1 .. n /\ j - 1 + 1 = j
        BY <1>1, <3>2
      <4>2. sent[j] = value[j - 1]
        BY <1>8, <4>1
      <4> QED
        BY <1>9, <2>1, <4>1, <4>2
    <3> QED
      BY <1>1, <3>1, <3>2
  <2>2. n + 2 \in 1 .. n + 2 /\ sent[n + 2] \in chars
    BY <1>1, <1>8, <1>10
  <2> QED
    BY <1>8, <2>1, <2>2 DEF Separating
<1>11. Framed(sent) = <<sent>>
  <2> DEFINE ends == PlacesIn(sent, {MSG_END})
  <2>1. Len(ends) = 1 /\ ends[1] = n + 2
    <3>1. Separating(sent, {MSG_END}) = {n + 2}
      BY <1>10
    <3>2. sent \in Seq(C)
      BY <1>8
    <3> QED
      BY <3>1, <3>2, OnlyPlace
  <2>2. Framed(sent) =
          [k \in 1 .. Len(ends) |->
             SubSeq(sent, (IF k = 1 THEN 0 ELSE ends[k - 1]) + 1, ends[k])]
    BY DEF Framed
  <2> HIDE DEF ends
  <2>3. SubSeq(sent, 1, n + 2) = sent
    <3>1. 1 \in Nat \ {0} /\ n + 2 \in 0 .. Len(sent)
      BY <1>1, <1>8
    <3>2. /\ SubSeq(sent, 1, n + 2) \in Seq(C)
          /\ Len(SubSeq(sent, 1, n + 2)) = IF 1 <= n + 2 THEN n + 2 - 1 + 1 ELSE 0
          /\ \A j \in 1 .. Len(SubSeq(sent, 1, n + 2)) :
               SubSeq(sent, 1, n + 2)[j] = sent[1 + j - 1]
      BY <1>8, <3>1, PartOfText
    <3>3. Len(SubSeq(sent, 1, n + 2)) = n + 2
      BY <1>1, <3>2
    <3>4. \A j \in 1 .. n + 2 : SubSeq(sent, 1, n + 2)[j] = sent[j]
      BY <1>1, <3>2, <3>3
    <3> QED
      BY <1>8, <3>2, <3>3, <3>4, SeqEqual
  <2>4. Framed(sent) = [k \in 1 .. 1 |-> sent]
    BY <2>1, <2>2, <2>3
  <2> QED
    BY <2>4
<1>12. Values(sent)[1] = value
  <2> DEFINE ends == PlacesIn(sent, {MSG_END, MSG_VAL_SEP})
  <2>1. Len(ends) = 1 /\ ends[1] = n + 2
    <3>1. Separating(sent, {MSG_END, MSG_VAL_SEP}) = {n + 2}
      BY <1>10
    <3>2. sent \in Seq(C)
      BY <1>8
    <3> QED
      BY <3>1, <3>2, OnlyPlace
  <2>2. Values(sent) =
          [k \in 1 .. Len(ends) |->
             SubSeq(sent, (IF k = 1 THEN 1 ELSE ends[k - 1]) + 1, ends[k] - 1)]
    BY DEF Values
  <2> HIDE DEF ends
  <2>3. Values(sent)[1] = SubSeq(sent, 2, n + 1)
    <3>1. n + 2 - 1 = n + 1
      BY <1>1
    <3> QED
      BY <2>1, <2>2, <3>1
  <2>4. SubSeq(sent, 2, n + 1) = value
    <3>1. 2 \in Nat \ {0} /\ n + 1 \in 0 .. Len(sent)
      BY <1>1, <1>8
    <3>2. /\ SubSeq(sent, 2, n + 1) \in Seq(C)
          /\ Len(SubSeq(sent, 2, n + 1)) = IF 2 <= n + 1 THEN n + 1 - 2 + 1 ELSE 0
          /\ \A j \in 1 .. Len(SubSeq(sent, 2, n + 1)) :
               SubSeq(sent, 2, n + 1)[j] = sent[2 + j - 1]
      BY <1>8, <3>1, PartOfText
    <3>3. Len(SubSeq(sent, 2, n + 1)) = n
      BY <1>1, <3>2
    <3>4. \A j \in 1 .. n : SubSeq(sent, 2, n + 1)[j] = value[j]
      BY <1>1, <1>8, <3>2, <3>3
    <3> QED
      BY <1>4, <3>2, <3>3, <3>4, SeqEqual
  <2> QED
    BY <2>3, <2>4
<1>13. ~TooLong(value)
  BY <1>1 DEF TooLong
<1> QED
  BY <1>7, <1>11, <1>12, <1>13 DEF sent

----------------------------------------------------------------------------
(* The inductive invariant *)

(* What people type, and what clients send. *)
Typed == Letters \cup UNION {Range(name) : name \in Name}
Text == Seq(Typed)
Char == Typed \cup {"N_SEND_NAME", "N_SEND_WORD"}

(* What the server sends, and what the logic thread sends it. *)
ServerMessage ==
  {<<"N_GAME">>, <<"N_GAME_NOT_FULL">>, <<"N_GAME_STARTED_NO_JOINING">>}
    \cup {<<code, id>> : code \in {"N_PLAYER_LEFT", "N_SEND_ID"}, id \in Desc}
    \cup {<<code, id, name>> : code \in {"N_PLAYER_JOIN", "N_PLAYER_CHANGED_NAME"},
                               id \in Desc, name \in Text \cup {Unnamed}}

LogicMessage ==
  {<<"N_GAME">>} \cup {<<"T_GAME_STARTED_NO_JOINING", fd>> : fd \in Desc}

(* The client's list, for what the messages above make of it. *)
Process ==
  [phase : Phase,
   players : Seq([id : Desc, name : Text \cup {Unnamed}, hp : {MAX_HP}]),
   my_id : Desc \cup {0},
   game_started : {FALSE},
   player_turn : {NoTurn, FreedTurn},
   req_substr : {"none"}]

ServerTypes ==
  /\ clients \in Seq([sock : Desc, name : Name \cup {<<>>}])
  /\ client_count <= MAX_CLIENT_COUNT
  /\ reads \subseteq Desc \cup {READ_PIPE, SOCKET_LISTEN}
  /\ pc \in {"select", "thread", "accept", "clients"}
  /\ recv_str \in Text
  /\ fault \in {"none", "sigpipe", "select_failed"}
  /\ from_logic \in Seq(LogicMessage)
  /\ open \subseteq Desc

WorldTypes ==
  /\ peer \in [Desc -> Peer]
  /\ inbox \in [Desc -> Seq(ServerMessage)]
  /\ client \in [Desc -> Process]
  /\ arrivals \in 0 .. MaxArrivals
  /\ backlog \in 0 .. arrivals

(* A connection waits for the accept() that select() announced.            *)
SomebodyWaits ==
  /\ pc = "accept" => SOCKET_LISTEN \in reads
  /\ pc \in {"thread", "accept"} /\ SOCKET_LISTEN \in reads => backlog > 0

(* What is listed is open, or the 1 of an accept() that failed; what is    *)
(* served is watched.                                                      *)
SeatsAreOpen ==
  /\ Socks(clients) \subseteq open \cup {STDOUT}
  /\ reads \cap Desc \subseteq master

(* A message on its way to the server: a name as it was chosen, a word of  *)
(* this client as it was typed, or what became of a word that could not    *)
(* come through as it is.                                                  *)
Message(code, text) == <<code>> \o text \o <<MSG_END>>

WellSent(fd, m) ==
  /\ m \in Seq(Char) /\ m # <<>>
  /\ \A i \in 2 .. Len(m) : m[i] \in Typed
  /\ m[Len(m)] = MSG_END
  /\ m[1] = "N_SEND_NAME" => \E name \in Name : m = Message("N_SEND_NAME", name)
  /\ m[1] = "N_SEND_WORD" =>
       \E word \in TypedBy(fd) : ~Plain(word) \/ m = Message("N_SEND_WORD", word)

OnTheWay ==
  /\ outbox \in [Desc -> Seq(Seq(Char))]
  /\ \A fd \in Desc : \A k \in 1 .. Len(outbox[fd]) : WellSent(fd, outbox[fd][k])

IInv ==
  /\ ServerTypes
  /\ WorldTypes
  /\ SomebodyWaits
  /\ SeatsAreCounted
  /\ SeatsAreOpen
  /\ OnTheWay

(* How often a client lists somebody when it has read the messages before  *)
(* the k-th: a client on standard output is told everything once per entry *)
(* of the server's list, also that somebody left.                          *)
Announces(msg, id) == msg[1] = "N_PLAYER_JOIN" /\ msg[2] = id

Joins(q, id, k) == {h \in 1 .. k - 1 : Announces(q[h], id)}
Leaves(q, id, k) == {h \in 1 .. k - 1 : q[h] = <<"N_PLAYER_LEFT", id>>}

Tally(cl, q, id, k) ==
  Cardinality(IdPlaces(cl, id)) + Cardinality(Joins(q, id, k)) - Cardinality(Leaves(q, id, k))

Concerns(msg, id) ==
  msg[1] \in {"N_PLAYER_LEFT", "N_PLAYER_CHANGED_NAME"} /\ msg[2] = id

(* No message that waits is about somebody unknown by then, and those of   *)
(* ids are in the end listed as often as a departure will be announced.    *)
Sound(cl, q, ids, times) ==
  /\ cl.phase = "greet" => q # <<>> /\ q[1] = <<"N_GAME_NOT_FULL">>
  /\ \A id \in ids : Tally(cl, q, id, Len(q) + 1) >= times
  /\ \A id \in Desc : \A k \in 1 .. Len(q) : Concerns(q[k], id) => Tally(cl, q, id, k) >= 1

Informed(fd) ==
  peer[fd] = "up" =>
    fd \in master /\ Sound(client[fd], inbox[fd], master, Cardinality(Places(fd)))

EverybodyIsInformed == \A fd \in Desc : Informed(fd)

NothingToTheGone ==
  \A fd \in Desc : peer[fd] # "up" => inbox[fd] = <<>>

(* Standard output, the one descriptor that may be listed twice, listed    *)
(* and unwatched, or closed: it is closed only when the list is full, and  *)
(* then select() fails if it is watched.                                   *)
StandardOutput ==
  /\ pc # "select" => master \subseteq open
  /\ STDOUT \in Socks(clients) \ master =>
       client_count < MAX_CLIENT_COUNT /\ Desc \subseteq open
  /\ \A i, j \in 1 .. Len(clients) :
       clients[i].sock = STDOUT /\ clients[j].sock = STDOUT /\ i # j => Fd \subseteq open

Announcements ==
  /\ EverybodyIsInformed
  /\ NothingToTheGone
  /\ StandardOutput
  /\ NoClientCrashes

----------------------------------------------------------------------------
(* Lemmas for one step *)

LEMMA Descriptors ==
  /\ STDOUT \in Desc
  /\ Desc \in SUBSET Nat
  /\ 0 \notin Desc /\ READ_PIPE \notin Desc /\ SOCKET_LISTEN \notin Desc
  /\ READ_PIPE # SOCKET_LISTEN
BY NetworkAssumption DEF Desc, STDOUT, READ_PIPE, SOCKET_LISTEN

LEMMA NamesAreText ==
  /\ <<>> \in Text
  /\ \A name \in Name : name \in Text
  /\ \A word \in Word : word \in Text
<1>1. <<>> \in Text
  BY DEF Text
<1>2. ASSUME NEW name \in Name PROVE name \in Text
  <2>1. name \in Seq(Range(name))
    BY NetworkAssumption
  <2>2. Range(name) \subseteq Typed
    BY DEF Typed
  <2>3. \A i \in 1 .. Len(name) : name[i] \in Typed
    BY <2>1, <2>2, ElementOfSeq
  <2> QED
    BY <2>1, <2>3 DEF Text
<1>3. ASSUME NEW word \in Word PROVE word \in Text
  <2>1. word \in Seq(Range(word))
    BY NetworkAssumption
  <2>2. Range(word) \subseteq Typed
    BY DEF Typed, Letters
  <2>3. \A i \in 1 .. Len(word) : word[i] \in Typed
    BY <2>1, <2>2, ElementOfSeq
  <2> QED
    BY <2>1, <2>3 DEF Text
<1> QED
  BY <1>1, <1>2, <1>3

(* A list as send_to_all() walks it. *)
Listed == Seq([sock : Desc, name : Text])

(* send_to_all() brings its message to the sockets of the list, as often   *)
(* as they are in it.                                                      *)
LEMMA ToAllSends ==
  ASSUME NEW list \in Listed, NEW msg, NEW fd \in Desc
  PROVE  /\ ToAll(list, msg)[fd] \in Seq({msg})
         /\ ToAll(list, msg)[fd] # <<>> <=> fd \in Socks(list)
<1> DEFINE places == {j \in 1 .. Len(list) : list[j].sock = fd}
<1>1. ToAll(list, msg)[fd] = [i \in 1 .. Cardinality(places) |-> msg]
  BY DEF ToAll
<1>2. Len(list) \in Nat
  BY DEF Listed
<1>3. IsFiniteSet(places) /\ Cardinality(places) \in Nat
  BY <1>2, BelowFinite
<1>4. fd \in Socks(list) <=> places # {}
  BY DEF Socks
<1> HIDE DEF places
<1>5. Cardinality(places) = 0 <=> places = {}
  BY <1>3, FS_EmptySet
<1>6. ToAll(list, msg)[fd] \in Seq({msg}) /\ Len(ToAll(list, msg)[fd]) = Cardinality(places)
  BY <1>1, <1>3
<1>7. ToAll(list, msg)[fd] = <<>> <=> Len(ToAll(list, msg)[fd]) = 0
  BY <1>6, EmptySeq
<1> QED
  BY <1>3, <1>4, <1>5, <1>6, <1>7

LEMMA ToAllType ==
  ASSUME NEW list \in Listed, NEW S, NEW msg \in S
  PROVE  ToAll(list, msg) \in [Desc -> Seq(S)]
<1>1. \A fd \in Desc : ToAll(list, msg)[fd] \in Seq(S)
  <2>1. TAKE fd \in Desc
  <2>2. ToAll(list, msg)[fd] \in Seq({msg})
    BY ToAllSends
  <2>3. \A i \in 1 .. Len(ToAll(list, msg)[fd]) : ToAll(list, msg)[fd][i] \in S
    BY <2>2, ElementOfSeq
  <2> QED
    BY <2>2, <2>3
<1>2. ToAll(list, msg) = [fd \in Desc |-> ToAll(list, msg)[fd]]
  BY DEF ToAll
<1> QED
  BY <1>1, <1>2

LEMMA ListedClients ==
  ASSUME ServerTypes
  PROVE  /\ clients \in Listed
         /\ Len(clients) \in Nat
         /\ \A i \in 1 .. Len(clients) :
              /\ clients[i] \in [sock : Desc, name : Name \cup {<<>>}]
              /\ clients[i].sock \in Desc /\ clients[i].name \in Text
<1>1. clients \in Seq([sock : Desc, name : Name \cup {<<>>}])
  BY DEF ServerTypes
<1>2. \A i \in 1 .. Len(clients) :
        /\ clients[i] \in [sock : Desc, name : Name \cup {<<>>}]
        /\ clients[i] \in [sock : Desc, name : Text]
  <2>1. TAKE i \in 1 .. Len(clients)
  <2>2. clients[i] \in [sock : Desc, name : Name \cup {<<>>}]
    BY <1>1, ElementOfSeq
  <2> QED
    BY <2>2, NamesAreText
<1>3. Len(clients) \in Nat
  BY <1>1, LenProperties
<1>4. clients \in Listed
  <2> DEFINE n == Len(clients)
             R == [sock : Desc, name : Text]
  <2>1. clients = [i \in 1 .. n |-> clients[i]]
    BY <1>1
  <2>2. \A i \in 1 .. n : clients[i] \in R
    BY <1>2
  <2>3. n \in Nat
    BY <1>3
  <2> HIDE DEF n, R
  <2>4. clients \in Seq(R)
    BY <2>1, <2>2, <2>3
  <2> QED
    BY <2>4 DEF Listed, R
<1> QED
  BY <1>2, <1>3, <1>4

(* What a write to many sockets leaves. *)
LEMMA SendEffect ==
  ASSUME WorldTypes,
         NEW batch \in [Desc -> Seq(ServerMessage)], NEW ends \in [Desc -> Peer],
         Send(batch, ends)
  PROVE  /\ peer' \in [Desc -> Peer]
         /\ inbox' \in [Desc -> Seq(ServerMessage)]
         /\ \A fd \in Desc :
              /\ peer'[fd] = "up" <=> ends[fd] = "up"
              /\ inbox'[fd] = IF ends[fd] = "up" THEN inbox[fd] \o batch[fd] ELSE <<>>
         /\ fault' = fault
<1>1. PICK answered \in SUBSET Hit(batch, ends, "fin") :
        peer' = [fd \in Desc |-> IF fd \in answered \cup Hit(batch, ends, "reset")
                                  THEN "dead" ELSE ends[fd]]
  BY DEF Send
<1>2. inbox' = [fd \in Desc |-> IF ends[fd] = "up" THEN inbox[fd] \o batch[fd] ELSE <<>>]
  BY DEF Send
<1>3. peer' \in [Desc -> Peer]
  <2>1. "dead" \in Peer
    BY DEF Peer
  <2> QED
    BY <1>1, <2>1
<1>4. \A fd \in Desc : peer'[fd] = "up" <=> ends[fd] = "up"
  BY <1>1 DEF Hit
<1>5. inbox' \in [Desc -> Seq(ServerMessage)]
  <2>1. ASSUME NEW fd \in Desc PROVE inbox[fd] \o batch[fd] \in Seq(ServerMessage)
    <3>1. inbox[fd] \in Seq(ServerMessage) /\ batch[fd] \in Seq(ServerMessage)
      BY DEF WorldTypes
    <3> QED
      BY <3>1, ConcatProperties
  <2>2. <<>> \in Seq(ServerMessage)
    OBVIOUS
  <2> QED
    BY <1>2, <2>1, <2>2
<1> QED
  BY <1>2, <1>3, <1>4, <1>5 DEF Send

(* remove_client_data() and the name's change are about the first entry.   *)
LEMMA FirstPlaceOf ==
  ASSUME ServerTypes, NEW sock \in Socks(clients)
  PROVE  /\ FirstPlace(sock) \in 1 .. Len(clients)
         /\ clients[FirstPlace(sock)].sock = sock
         /\ \A j \in 1 .. Len(clients) : clients[j].sock = sock => FirstPlace(sock) <= j
<1>1. Places(sock) # {} /\ Places(sock) \in SUBSET Nat
  BY DEF Places, Socks
<1>2. \E i \in Places(sock) : \A j \in Places(sock) : i <= j
  BY <1>1, LeastElement
<1>3. FirstPlace(sock) \in Places(sock) /\ \A j \in Places(sock) : FirstPlace(sock) <= j
  BY <1>2 DEF FirstPlace
<1> QED
  BY <1>3 DEF Places

(* accept() gives a free descriptor, or 1. *)
LEMMA AcceptGives ==
  ASSUME ServerTypes
  PROVE  /\ wait_for_client \in Desc
         /\ wait_for_client # STDOUT => wait_for_client \in Free
         /\ Free # {} => wait_for_client \in Free
<1>1. Free \in SUBSET Nat /\ Free \subseteq Desc
  BY Descriptors DEF Free
<1>2. Free # {} => Lowest(Free) \in Free
  <2>1. Free # {} => \E x \in Free : \A y \in Free : x <= y
    BY <1>1, LeastElement
  <2> QED
    BY <2>1 DEF Lowest
<1> QED
  BY <1>1, <1>2, Descriptors DEF wait_for_client

(* What the other parts of a step leave of the messages to the server.     *)
LEMMA StaysWellSent ==
  ASSUME inputs \subseteq inputs'
  PROVE  \A fd, m : WellSent(fd, m) => WellSent(fd, m)'
BY DEF WellSent, TypedBy

LEMMA OutboxKept ==
  ASSUME OnTheWay, outbox' = outbox, inputs \subseteq inputs'
  PROVE  OnTheWay'
BY StaysWellSent DEF OnTheWay

(* recv() takes the first message. *)
LEMMA OutboxServed ==
  ASSUME OnTheWay, inputs' = inputs, NEW fd \in Desc, outbox[fd] # <<>>,
         outbox' = [outbox EXCEPT ![fd] = Tail(@)]
  PROVE  /\ OnTheWay'
         /\ Head(outbox[fd]) = outbox[fd][1]
         /\ WellSent(fd, Head(outbox[fd]))
<1>1. outbox[fd] \in Seq(Seq(Char)) /\ outbox[fd] # <<>>
  BY DEF OnTheWay
<1>2. /\ Tail(outbox[fd]) \in Seq(Seq(Char))
      /\ Len(Tail(outbox[fd])) = Len(outbox[fd]) - 1
      /\ \A k \in 1 .. Len(Tail(outbox[fd])) : Tail(outbox[fd])[k] = outbox[fd][k + 1]
      /\ Head(outbox[fd]) = outbox[fd][1]
      /\ Len(outbox[fd]) \in Nat \ {0}
  BY <1>1, HeadTailProperties, EmptySeq, LenProperties
<1>3. outbox' \in [Desc -> Seq(Seq(Char))]
  BY <1>2 DEF OnTheWay
<1>4. ASSUME NEW d \in Desc, NEW k \in 1 .. Len(outbox'[d])
      PROVE  \E j \in 1 .. Len(outbox[d]) : outbox'[d][k] = outbox[d][j]
  <2>1. CASE d = fd
    <3>1. outbox'[d] = Tail(outbox[fd])
      BY <2>1 DEF OnTheWay
    <3>2. k \in 1 .. Len(Tail(outbox[fd]))
      BY <3>1
    <3>3. k + 1 \in 1 .. Len(outbox[fd])
      <4> DEFINE n == Len(outbox[fd])
                 r == Len(Tail(outbox[fd]))
      <4>1. n \in Nat \ {0} /\ r = n - 1 /\ k \in 1 .. r
        BY <1>2, <3>2
      <4> HIDE DEF n, r
      <4>2. k + 1 \in 1 .. n
        BY <4>1
      <4> QED
        BY <4>2 DEF n
    <3> QED
      BY <1>2, <2>1, <3>1, <3>2, <3>3
  <2>2. CASE d # fd
    <3>1. outbox'[d] = outbox[d]
      BY <2>2 DEF OnTheWay
    <3> QED
      BY <3>1
  <2> QED
    BY <2>1, <2>2
<1>5. \A d \in Desc : \A k \in 1 .. Len(outbox'[d]) : WellSent(d, outbox[d][k])'
  <2>1. TAKE d \in Desc
  <2>2. TAKE k \in 1 .. Len(outbox'[d])
  <2> DEFINE m == outbox'[d][k]
  <2>3. PICK j \in 1 .. Len(outbox[d]) : m = outbox[d][j]
    BY <1>4
  <2>4. WellSent(d, outbox[d][j])
    BY DEF OnTheWay
  <2> QED
    BY <2>3, <2>4 DEF WellSent, TypedBy
<1>6. WellSent(fd, outbox[fd][1])
  BY <1>2 DEF OnTheWay
<1> QED
  BY <1>2, <1>3, <1>5, <1>6 DEF OnTheWay

(* A client writes. *)
LEMMA OutboxWritten ==
  ASSUME OnTheWay, inputs \subseteq inputs', NEW fd \in Desc, NEW pieces \in Seq(Seq(Char)),
         \A i \in 1 .. Len(pieces) : WellSent(fd, pieces[i])',
         outbox' = [outbox EXCEPT ![fd] = @ \o pieces]
  PROVE  OnTheWay'
<1>1. outbox[fd] \in Seq(Seq(Char))
  BY DEF OnTheWay
<1>2. /\ outbox[fd] \o pieces \in Seq(Seq(Char))
      /\ Len(outbox[fd] \o pieces) = Len(outbox[fd]) + Len(pieces)
      /\ \A k \in 1 .. Len(outbox[fd]) + Len(pieces) :
           (outbox[fd] \o pieces)[k] =
             IF k <= Len(outbox[fd]) THEN outbox[fd][k] ELSE pieces[k - Len(outbox[fd])]
      /\ Len(outbox[fd]) \in Nat /\ Len(pieces) \in Nat
  BY <1>1, ConcatProperties, LenProperties
<1>3. outbox' \in [Desc -> Seq(Seq(Char))]
  BY <1>2 DEF OnTheWay
<1>4. ASSUME NEW d \in Desc, NEW k \in 1 .. Len(outbox'[d])
      PROVE  \/ \E j \in 1 .. Len(outbox[d]) : outbox'[d][k] = outbox[d][j]
             \/ d = fd /\ \E j \in 1 .. Len(pieces) : outbox'[d][k] = pieces[j]
  <2>1. CASE d = fd
    <3>1. outbox'[d] = outbox[fd] \o pieces
      BY <2>1 DEF OnTheWay
    <3>2. k \in 1 .. Len(outbox[fd]) + Len(pieces)
      BY <1>2, <3>1
    <3>3. CASE k <= Len(outbox[fd])
      <4>1. k \in 1 .. Len(outbox[fd])
        BY <1>2, <3>2, <3>3
      <4> QED
        BY <1>2, <2>1, <3>1, <3>2, <3>3, <4>1
    <3>4. CASE ~(k <= Len(outbox[fd]))
      <4>1. k - Len(outbox[fd]) \in 1 .. Len(pieces)
        BY <1>2, <3>2, <3>4
      <4> QED
        BY <1>2, <2>1, <3>1, <3>2, <3>4, <4>1
    <3> QED
      BY <3>3, <3>4
  <2>2. CASE d # fd
    <3>1. outbox'[d] = outbox[d]
      BY <2>2 DEF OnTheWay
    <3> QED
      BY <3>1
  <2> QED
    BY <2>1, <2>2
<1>5. \A d \in Desc : \A k \in 1 .. Len(outbox'[d]) : WellSent(d, outbox[d][k])'
  <2>1. TAKE d \in Desc
  <2>2. TAKE k \in 1 .. Len(outbox'[d])
  <2> DEFINE m == outbox'[d][k]
  <2>3. CASE \E j \in 1 .. Len(outbox[d]) : m = outbox[d][j]
    <3>1. PICK j \in 1 .. Len(outbox[d]) : m = outbox[d][j]
      BY <2>3
    <3>2. WellSent(d, outbox[d][j])
      BY DEF OnTheWay
    <3> QED
      BY <3>1, <3>2 DEF WellSent, TypedBy
  <2>4. CASE d = fd /\ \E j \in 1 .. Len(pieces) : m = pieces[j]
    BY <2>4 DEF WellSent
  <2> QED
    BY <1>4, <2>3, <2>4
<1> QED
  BY <1>3, <1>5 DEF OnTheWay

(* A step that leaves the list, the count and the watched sockets alone.   *)
LEMMA SeatsKept ==
  ASSUME SeatsAreCounted, SeatsAreOpen,
         UNCHANGED <<clients, client_count, master>>,
         open \subseteq open' \cup {STDOUT},
         reads' \cap Desc \subseteq reads \cup master
  PROVE  SeatsAreCounted' /\ SeatsAreOpen'
<1>1. SeatsAreCounted'
  BY DEF SeatsAreCounted, Socks
<1>2. SeatsAreOpen'
  BY DEF SeatsAreOpen, Socks
<1> QED
  BY <1>1, <1>2

----------------------------------------------------------------------------
(* The networking thread's steps *)

LEMMA InitIInv == Init => IInv
<1> SUFFICES ASSUME Init PROVE IInv
  OBVIOUS
<1> USE NetworkAssumption
<1>1. ServerTypes
  <2>1. recv_str \in Text
    BY NamesAreText DEF Init
  <2>2. <<>> \in Seq([sock : Desc, name : Name \cup {<<>>}]) /\ <<>> \in Seq(LogicMessage)
    OBVIOUS
  <2> QED
    BY <2>1, <2>2, Descriptors DEF Init, ServerTypes
<1>2. WorldTypes
  <2>1. peer \in [Desc -> Peer]
    BY DEF Init, Peer
  <2>2. inbox \in [Desc -> Seq(ServerMessage)]
    BY DEF Init
  <2>3. client \in [Desc -> Process]
    <3>1. NewClient \in Process
      BY DEF NewClient, Process, Phase
    <3> QED
      BY <3>1 DEF Init
  <2> QED
    BY <2>1, <2>2, <2>3 DEF Init, WorldTypes
<1>3. SomebodyWaits
  BY DEF Init, SomebodyWaits
<1>4. SeatsAreCounted /\ SeatsAreOpen
  <2>1. Socks(clients) = {} /\ Len(clients) = 0
    BY DEF Init, Socks
  <2> QED
    BY <2>1 DEF Init, SeatsAreCounted, SeatsAreOpen
<1>5. OnTheWay
  BY DEF Init, OnTheWay
<1> QED
  BY <1>1, <1>2, <1>3, <1>4, <1>5 DEF IInv

LEMMA StutterIInv == ASSUME IInv, UNCHANGED vars PROVE IInv'
<1> USE DEF vars, server, kernel, people
<1>1. ServerTypes'
  BY DEF IInv, ServerTypes
<1>2. WorldTypes'
  BY DEF IInv, WorldTypes
<1>3. SomebodyWaits'
  BY DEF IInv, SomebodyWaits
<1>4. SeatsAreCounted' /\ SeatsAreOpen'
  BY SeatsKept DEF IInv
<1>5. OnTheWay'
  BY OutboxKept DEF IInv
<1> QED
  BY <1>1, <1>2, <1>3, <1>4, <1>5 DEF IInv

(* Steps of the loop that neither send nor receive. *)
LEMMA LoopIInv ==
  ASSUME IInv, Select \/ SelectFails \/ ThreadDone \/ ClientsDone
  PROVE  IInv'
<1> USE DEF server, kernel, people
<1>1. UNCHANGED <<clients, client_count, master, recv_str, from_logic, kernel, people>>
  BY DEF Select, SelectFails, ThreadDone, ClientsDone
<1>2. reads' \subseteq Desc \cup {READ_PIPE, SOCKET_LISTEN} /\ reads' \cap Desc \subseteq reads \cup master
  <2>1. Ready \subseteq Desc \cup {READ_PIPE, SOCKET_LISTEN} /\ Ready \cap Desc \subseteq master
    <3>1. master \subseteq Desc
      <4>1. Socks(clients) \subseteq Desc
        BY ListedClients DEF Socks, IInv
      <4> QED
        BY <4>1 DEF IInv, SeatsAreCounted
    <3> QED
      BY <3>1, Descriptors DEF Ready
  <2>2. reads' = reads \/ reads' = Ready
    BY DEF Select, SelectFails, ThreadDone, ClientsDone
  <2> QED
    BY <2>1, <2>2 DEF IInv, ServerTypes
<1>3. ServerTypes'
  BY <1>1, <1>2 DEF IInv, ServerTypes, Select, SelectFails, ThreadDone, ClientsDone
<1>4. WorldTypes'
  BY <1>1 DEF IInv, WorldTypes
<1>5. SomebodyWaits'
  <2>1. CASE Select
    <3>1. SOCKET_LISTEN \in Ready => backlog > 0
      <4>1. master \subseteq Desc
        <5>1. Socks(clients) \subseteq Desc
          BY ListedClients DEF Socks, IInv
        <5> QED
          BY <5>1 DEF IInv, SeatsAreCounted
      <4> QED
        BY <4>1, Descriptors DEF Ready
    <3> QED
      BY <1>1, <2>1, <3>1 DEF SomebodyWaits, Select
  <2>2. CASE SelectFails
    BY <1>1, <2>2 DEF SomebodyWaits, SelectFails, IInv
  <2>3. CASE ThreadDone
    BY <1>1, <2>3 DEF SomebodyWaits, ThreadDone, IInv
  <2>4. CASE ClientsDone
    BY <1>1, <2>4 DEF SomebodyWaits, ClientsDone, IInv
  <2> QED
    BY <2>1, <2>2, <2>3, <2>4
<1>6. SeatsAreCounted' /\ SeatsAreOpen'
  BY <1>1, <1>2, SeatsKept DEF IInv
<1>7. OnTheWay'
  BY <1>1, OutboxKept DEF IInv
<1> QED
  BY <1>3, <1>4, <1>5, <1>6, <1>7 DEF IInv

(* SIGPIPE changes nothing but the fault. *)
LEMMA KilledIInv ==
  ASSUME IInv, NEW batch, NEW ends, SendKills(batch, ends)
  PROVE  IInv'
<1> USE DEF server, kernel, people
<1>1. fault' = "sigpipe" /\ UNCHANGED <<server, from_logic, kernel, people>>
  BY DEF SendKills
<1>2. ServerTypes'
  BY <1>1 DEF IInv, ServerTypes
<1>3. WorldTypes'
  BY <1>1 DEF IInv, WorldTypes
<1>4. SomebodyWaits'
  BY <1>1 DEF IInv, SomebodyWaits
<1>5. SeatsAreCounted' /\ SeatsAreOpen'
  BY <1>1, SeatsKept DEF IInv
<1>6. OnTheWay'
  BY <1>1, OutboxKept DEF IInv
<1> QED
  BY <1>2, <1>3, <1>4, <1>5, <1>6 DEF IInv

(* What is relayed has its type. *)
LEMMA RelayedType ==
  ASSUME IInv, NEW msg \in LogicMessage
  PROVE  Relayed(msg) \in [Desc -> Seq(ServerMessage)]
<1>1. CASE msg[1] = "T_GAME_STARTED_NO_JOINING"
  <2>1. <<"N_GAME_STARTED_NO_JOINING">> \in ServerMessage
    BY DEF ServerMessage
  <2>2. << <<"N_GAME_STARTED_NO_JOINING">> >> \in Seq(ServerMessage)
    BY <2>1
  <2> QED
    BY <1>1, <2>2 DEF Relayed, ToOne
<1>2. CASE msg[1] # "T_GAME_STARTED_NO_JOINING"
  <2>1. msg = <<"N_GAME">>
    BY <1>2 DEF LogicMessage
  <2>2. msg \in ServerMessage
    BY <2>1 DEF ServerMessage
  <2>3. ToAll(clients, msg) \in [Desc -> Seq(ServerMessage)]
    BY <2>2, ListedClients, ToAllType DEF IInv
  <2> QED
    BY <1>2, <2>3 DEF Relayed
<1> QED
  BY <1>1, <1>2

LEMMA RelayIInv ==
  ASSUME IInv, process_thread_command
  PROVE  IInv'
<1> USE DEF server, people
<1>1. from_logic \in Seq(LogicMessage) /\ from_logic # <<>>
  BY DEF IInv, ServerTypes, process_thread_command
<1>2. Head(from_logic) \in LogicMessage /\ Tail(from_logic) \in Seq(LogicMessage)
  BY <1>1, HeadTailProperties
<1> DEFINE batch == Relayed(Head(from_logic))
<1>3. batch \in [Desc -> Seq(ServerMessage)]
  BY <1>2, RelayedType
<1> HIDE DEF batch
<1>4. \/ SendKills(batch, peer)
      \/ /\ Send(batch, peer)
         /\ from_logic' = Tail(from_logic)
         /\ UNCHANGED <<server, open, backlog, outbox, people>>
  BY DEF process_thread_command, batch
<1>5. CASE SendKills(batch, peer)
  BY <1>5, KilledIInv
<1>6. ASSUME Send(batch, peer), from_logic' = Tail(from_logic),
             UNCHANGED <<server, open, backlog, outbox, people>>
      PROVE  IInv'
  <2>1. /\ peer' \in [Desc -> Peer] /\ inbox' \in [Desc -> Seq(ServerMessage)]
        /\ fault' = fault
    <3>1. WorldTypes /\ peer \in [Desc -> Peer]
      BY DEF IInv, WorldTypes
    <3> QED
      BY <1>3, <1>6, <3>1, SendEffect
  <2>2. ServerTypes'
    BY <1>2, <1>6, <2>1 DEF IInv, ServerTypes
  <2>3. WorldTypes'
    BY <1>6, <2>1 DEF IInv, WorldTypes
  <2>4. SomebodyWaits'
    BY <1>6 DEF IInv, SomebodyWaits
  <2>5. SeatsAreCounted' /\ SeatsAreOpen'
    BY <1>6, SeatsKept DEF IInv
  <2>6. OnTheWay'
    BY <1>6, OutboxKept DEF IInv
  <2> QED
    BY <2>2, <2>3, <2>4, <2>5, <2>6 DEF IInv
<1> QED
  BY <1>4, <1>5, <1>6

LEMMA TurnAwayIInv ==
  ASSUME IInv, TurnAway
  PROVE  IInv'
<1> USE DEF people
<1>1. /\ UNCHANGED <<clients, client_count, master, reads, recv_str, fault, from_logic, people>>
      /\ pc = "accept" /\ pc' = "select"
  BY DEF TurnAway
<1>2. /\ open' \subseteq open /\ open \subseteq open' \cup {STDOUT}
      /\ backlog' \in 0 .. arrivals
      /\ peer' \in [Desc -> Peer]
      /\ inbox' \in [Desc -> Seq(ServerMessage)]
      /\ outbox' = outbox \/ outbox' = [outbox EXCEPT ![STDOUT] = <<>>]
  <2>1. CASE Free = {}
    <3>1. /\ open' = open \ {STDOUT}
          /\ peer' = [peer EXCEPT ![STDOUT] = "none"]
          /\ inbox' = [inbox EXCEPT ![STDOUT] = <<>>]
          /\ outbox' = [outbox EXCEPT ![STDOUT] = <<>>]
          /\ backlog' = backlog
      BY <2>1 DEF TurnAway
    <3>2. /\ peer \in [Desc -> Peer] /\ "none" \in Peer
          /\ inbox \in [Desc -> Seq(ServerMessage)] /\ <<>> \in Seq(ServerMessage)
          /\ backlog \in 0 .. arrivals
      BY DEF IInv, WorldTypes, Peer
    <3>3. peer' \in [Desc -> Peer]
      BY ONLY <3>1, <3>2
    <3>4. inbox' \in [Desc -> Seq(ServerMessage)]
      BY ONLY <3>1, <3>2
    <3> QED
      BY <3>1, <3>2, <3>3, <3>4
  <2>2. CASE Free # {}
    <3>1. /\ backlog' = backlog - 1 /\ UNCHANGED <<open, peer, inbox, outbox>>
      BY <2>2 DEF TurnAway
    <3>2. backlog > 0 /\ backlog \in 0 .. arrivals /\ arrivals \in Nat
      BY <1>1, NetworkAssumption DEF IInv, SomebodyWaits, WorldTypes
    <3>3. backlog' \in 0 .. arrivals
      BY <3>1, <3>2
    <3> QED
      BY <3>1, <3>3 DEF IInv, WorldTypes
  <2> QED
    BY <2>1, <2>2
<1>3. ServerTypes'
  BY <1>1, <1>2 DEF IInv, ServerTypes
<1>4. WorldTypes'
  BY <1>1, <1>2 DEF IInv, WorldTypes
<1>5. SomebodyWaits'
  BY <1>1 DEF SomebodyWaits
<1>6. SeatsAreCounted' /\ SeatsAreOpen'
  BY <1>1, <1>2, SeatsKept DEF IInv
<1>7. OnTheWay'
  <2>1. CASE outbox' = outbox
    BY <1>1, <2>1, OutboxKept DEF IInv
  <2>2. CASE outbox' = [outbox EXCEPT ![STDOUT] = <<>>]
    <3>1. outbox' \in [Desc -> Seq(Seq(Char))]
      <4>1. outbox \in [Desc -> Seq(Seq(Char))] /\ <<>> \in Seq(Seq(Char))
        BY DEF IInv, OnTheWay
      <4> QED
        BY ONLY <2>2, <4>1
    <3>2. \A d \in Desc : outbox'[d] = outbox[d] \/ outbox'[d] = <<>>
      BY <2>2 DEF IInv, OnTheWay
    <3>3. ASSUME NEW d \in Desc, NEW k \in 1 .. Len(outbox'[d])
          PROVE  WellSent(d, outbox[d][k])'
      <4>1. outbox'[d] = outbox[d]
        <5>1. outbox'[d] # <<>>
          OBVIOUS
        <5> QED
          BY <3>2, <5>1
      <4>2. WellSent(d, outbox[d][k])
        BY <4>1 DEF IInv, OnTheWay
      <4> QED
        BY <1>1, <4>1, <4>2 DEF WellSent, TypedBy
    <3> QED
      BY <3>1, <3>3 DEF OnTheWay
  <2> QED
    BY <1>2, <2>1, <2>2
<1> QED
  BY <1>3, <1>4, <1>5, <1>6, <1>7 DEF IInv

(* What is sent to a newcomer and about it has its type. *)
LEMMA ThenType ==
  ASSUME NEW S, NEW first \in [Desc -> Seq(S)], NEW second \in [Desc -> Seq(S)]
  PROVE  Then(first, second) \in [Desc -> Seq(S)]
<1>1. \A fd \in Desc : first[fd] \o second[fd] \in Seq(S)
  <2>1. TAKE fd \in Desc
  <2>2. first[fd] \in Seq(S) /\ second[fd] \in Seq(S)
    OBVIOUS
  <2> QED
    BY <2>2, ConcatProperties
<1> QED
  BY <1>1 DEF Then

LEMMA ToOneType ==
  ASSUME NEW S, NEW msgs \in Seq(S), NEW sock
  PROVE  ToOne(sock, msgs) \in [Desc -> Seq(S)]
<1>1. <<>> \in Seq(S)
  OBVIOUS
<1> QED
  BY <1>1 DEF ToOne

(* The messages of Welcome() to everybody and to the newcomer alone. *)
RosterOf(list) == [i \in 1 .. Len(list) |-> <<"N_PLAYER_JOIN", list[i].sock, list[i].name>>]
Greeting(list) == << <<"N_GAME_NOT_FULL">> >> \o RosterOf(list)
JoinOf(sock) == <<"N_PLAYER_JOIN", sock, Unnamed>>

LEMMA WelcomeParts ==
  ASSUME ServerTypes, NEW sock \in Desc
  PROVE  /\ Welcome(sock) = Then(ToOne(sock, Greeting(clients)),
                                 Then(ToAll(create_client_data(sock), JoinOf(sock)),
                                      ToOne(sock, << <<"N_SEND_ID", sock>> >>)))
         /\ Greeting(clients) \in Seq(ServerMessage)
         /\ JoinOf(sock) \in ServerMessage
         /\ create_client_data(sock) \in Listed
         /\ << <<"N_SEND_ID", sock>> >> \in Seq(ServerMessage)
<1>1. RosterOf(clients) \in Seq(ServerMessage)
  <2>1. \A i \in 1 .. Len(clients) :
          <<"N_PLAYER_JOIN", clients[i].sock, clients[i].name>> \in ServerMessage
    <3>1. TAKE i \in 1 .. Len(clients)
    <3>2. clients[i].sock \in Desc /\ clients[i].name \in Text
      BY ListedClients
    <3> QED
      BY <3>2 DEF ServerMessage
  <2>2. Len(clients) \in Nat
    BY ListedClients
  <2> QED
    BY <2>1, <2>2 DEF RosterOf
<1>2. <<"N_GAME_NOT_FULL">> \in ServerMessage
  BY DEF ServerMessage
<1>3. Greeting(clients) \in Seq(ServerMessage)
  <2>1. << <<"N_GAME_NOT_FULL">> >> \in Seq(ServerMessage)
    BY <1>2
  <2> QED
    BY <1>1, <2>1, ConcatProperties DEF Greeting
<1>4. JoinOf(sock) \in ServerMessage
  BY DEF ServerMessage, JoinOf
<1>5. << <<"N_SEND_ID", sock>> >> \in Seq(ServerMessage)
  <2>1. <<"N_SEND_ID", sock>> \in ServerMessage
    BY DEF ServerMessage
  <2> QED
    BY <2>1
<1>6. create_client_data(sock) \in Listed
  <2> DEFINE R == [sock : Desc, name : Text]
             new == [sock |-> sock, name |-> <<>>]
  <2>1. clients \in Seq(R)
    BY ListedClients DEF Listed
  <2>2. new \in R
    BY NamesAreText
  <2> HIDE DEF R, new
  <2>3. Append(clients, new) \in Seq(R)
    BY <2>1, <2>2
  <2> QED
    BY <2>3 DEF create_client_data, Listed, R, new
<1> QED
  BY <1>3, <1>4, <1>5, <1>6 DEF Welcome, Greeting, RosterOf, JoinOf

(* A client that only goes to another phase. *)
LEMMA PhaseChanges ==
  ASSUME NEW cl \in Process, NEW phase \in Phase
  PROVE  /\ [cl EXCEPT !.phase = phase] \in Process
         /\ [cl EXCEPT !.phase = phase].phase = phase
         /\ [cl EXCEPT !.phase = phase].players = cl.players
BY DEF Process

LEMMA WelcomeType ==
  ASSUME ServerTypes, NEW sock \in Desc
  PROVE  Welcome(sock) \in [Desc -> Seq(ServerMessage)]
<1>1. ToOne(sock, Greeting(clients)) \in [Desc -> Seq(ServerMessage)]
  BY WelcomeParts, ToOneType
<1>2. ToAll(create_client_data(sock), JoinOf(sock)) \in [Desc -> Seq(ServerMessage)]
  BY WelcomeParts, ToAllType
<1>3. ToOne(sock, << <<"N_SEND_ID", sock>> >>) \in [Desc -> Seq(ServerMessage)]
  BY WelcomeParts, ToOneType
<1> DEFINE first == ToOne(sock, Greeting(clients))
           news == ToAll(create_client_data(sock), JoinOf(sock))
           last == ToOne(sock, << <<"N_SEND_ID", sock>> >>)
<1>4. Welcome(sock) = Then(first, Then(news, last))
  BY WelcomeParts
<1> HIDE DEF first, news, last
<1>5. Then(news, last) \in [Desc -> Seq(ServerMessage)]
  BY <1>2, <1>3, ThenType DEF news, last
<1>6. Then(first, Then(news, last)) \in [Desc -> Seq(ServerMessage)]
  BY <1>1, <1>5, ThenType DEF first
<1> QED
  BY <1>4, <1>6

(* The list with a newcomer at its end. *)
LEMMA NewcomerListed ==
  ASSUME ServerTypes, NEW sock \in Desc
  PROVE  LET list == create_client_data(sock)
             n == Len(clients)
         IN  /\ list \in Seq([sock : Desc, name : Name \cup {<<>>}])
             /\ Len(list) = n + 1
             /\ \A i \in 1 .. n : list[i] = clients[i]
             /\ list[n + 1] = [sock |-> sock, name |-> <<>>]
             /\ Socks(list) = Socks(clients) \cup {sock}
<1> DEFINE R == [sock : Desc, name : Name \cup {<<>>}]
           new == [sock |-> sock, name |-> <<>>]
           list == create_client_data(sock)
           n == Len(clients)
<1>1. clients \in Seq(R) /\ new \in R /\ n \in Nat
  BY ListedClients DEF ServerTypes
<1>2. list = Append(clients, new)
  BY DEF create_client_data
<1>3. new.sock = sock
  OBVIOUS
<1> HIDE DEF R, new, list
<1>4. /\ list \in Seq(R)
      /\ Len(list) = n + 1
      /\ \A i \in 1 .. n : list[i] = clients[i]
      /\ list[n + 1] = new
  BY <1>1, <1>2, AppendProperties
<1>5. Socks(list) = Socks(clients) \cup {sock}
  <2>1. 1 .. n + 1 = (1 .. n) \cup {n + 1}
    BY <1>1
  <2> QED
    BY <1>3, <1>4, <2>1 DEF Socks
<1> QED
  BY <1>4, <1>5 DEF R, new, list

LEMMA LetInIInv ==
  ASSUME IInv, LetIn
  PROVE  IInv'
<1> DEFINE w == wait_for_client
<1>1. ServerTypes /\ WorldTypes /\ SomebodyWaits /\ SeatsAreCounted /\ SeatsAreOpen /\ OnTheWay
  BY DEF IInv
<1>2. w \in Desc /\ (w # STDOUT => w \in Free) /\ (Free # {} => w \in Free)
  BY <1>1, AcceptGives
<1>3. Welcome(w) \in [Desc -> Seq(ServerMessage)]
  BY <1>1, <1>2, WelcomeType
<1>4. PICK end \in {"up", "fin"} :
        \/ /\ Send(Welcome(w), Accepted(end))
           /\ clients' = create_client_data(w)
           /\ client_count' = client_count + 1
           /\ master' = master \cup {w}
           /\ open' = open \cup {w}
           /\ client' = IF Free = {} THEN client
                        ELSE [client EXCEPT ![w] =
                                IF end = "up" THEN NewClient
                                              ELSE [NewClient EXCEPT !.phase = "exited"]]
           /\ backlog' = IF Free = {} THEN backlog ELSE backlog - 1
           /\ pc' = "clients"
           /\ UNCHANGED <<reads, recv_str, from_logic, outbox, arrivals, inputs>>
        \/ SendKills(Welcome(w), Accepted(end))
  BY DEF LetIn
<1>5. pc = "accept" /\ ~Full
  BY DEF LetIn
<1> DEFINE batch == Welcome(w)
           ends == Accepted(end)
           list == create_client_data(w)
           n == Len(clients)
<1>6. ends \in [Desc -> Peer]
  <2>1. peer \in [Desc -> Peer] /\ end \in Peer
    BY <1>1 DEF WorldTypes, Peer
  <2> QED
    BY <2>1 DEF Accepted
<1>7. /\ list \in Seq([sock : Desc, name : Name \cup {<<>>}])
      /\ Len(list) = n + 1
      /\ \A i \in 1 .. n : list[i] = clients[i]
      /\ list[n + 1] = [sock |-> w, name |-> <<>>]
      /\ Socks(list) = Socks(clients) \cup {w}
      /\ n \in Nat
  BY <1>1, <1>2, NewcomerListed, ListedClients
<1> HIDE DEF w, batch, ends, list
<1>8. CASE SendKills(batch, ends)
  BY <1>8, KilledIInv
<1>9. ASSUME Send(batch, ends),
             clients' = list,
             client_count' = client_count + 1,
             master' = master \cup {w},
             open' = open \cup {w},
             client' = IF Free = {} THEN client
                        ELSE [client EXCEPT ![w] =
                                IF end = "up" THEN NewClient
                                              ELSE [NewClient EXCEPT !.phase = "exited"]],
             backlog' = IF Free = {} THEN backlog ELSE backlog - 1,
             pc' = "clients",
             UNCHANGED <<reads, recv_str, from_logic, outbox, arrivals, inputs>>
      PROVE  IInv'
  <2>1. /\ peer' \in [Desc -> Peer] /\ inbox' \in [Desc -> Seq(ServerMessage)]
        /\ fault' = fault
    <3>1. batch \in [Desc -> Seq(ServerMessage)]
      BY <1>3 DEF batch
    <3> QED
      BY <1>1, <1>6, <1>9, <3>1, SendEffect
  <2>2. ServerTypes'
    <3>1. client_count' <= MAX_CLIENT_COUNT
      <4>1. client_count = n /\ client_count <= MAX_CLIENT_COUNT /\ client_count # MAX_CLIENT_COUNT
        BY <1>1, <1>5 DEF SeatsAreCounted, ServerTypes, Full
      <4>2. MAX_CLIENT_COUNT \in Nat
        BY NetworkAssumption
      <4> QED
        BY <1>7, <1>9, <4>1, <4>2
    <3>2. open' \subseteq Desc
      BY <1>1, <1>2, <1>9 DEF ServerTypes
    <3> QED
      BY <1>1, <1>7, <1>9, <2>1, <3>1, <3>2 DEF ServerTypes
  <2>3. WorldTypes'
    <3>1. client' \in [Desc -> Process]
      <4>1. NewClient \in Process /\ [NewClient EXCEPT !.phase = "exited"] \in Process
        <5>1. NewClient \in Process /\ "exited" \in Phase
          BY DEF NewClient, Process, Phase
        <5> QED
          BY <5>1, PhaseChanges
      <4>2. client \in [Desc -> Process]
        BY <1>1 DEF WorldTypes
      <4> QED
        BY <1>9, <4>1, <4>2
    <3>2. backlog' \in 0 .. arrivals
      <4>1. backlog > 0 /\ backlog \in 0 .. arrivals /\ arrivals \in Nat
        BY <1>1, <1>5, NetworkAssumption DEF SomebodyWaits, WorldTypes
      <4> QED
        BY <1>9, <4>1
    <3> QED
      BY <1>1, <1>9, <2>1, <3>1, <3>2 DEF WorldTypes
  <2>4. SomebodyWaits'
    BY <1>9 DEF SomebodyWaits
  <2>5. SeatsAreCounted'
    <3>1. client_count' = Len(clients')
      BY <1>1, <1>7, <1>9 DEF SeatsAreCounted
    <3>2. /\ master' \subseteq Socks(clients')
          /\ Socks(clients') \ {STDOUT} \subseteq master'
      BY <1>1, <1>7, <1>9 DEF SeatsAreCounted
    <3>3. ASSUME NEW i \in 1 .. n, list[i].sock = w PROVE w = STDOUT
      <4>1. w \in Socks(clients)
        BY <1>7, <3>3 DEF Socks
      <4> QED
        BY <1>1, <1>2, <4>1 DEF SeatsAreOpen, Free
    <3>4. ASSUME NEW i \in 1 .. n + 1, NEW j \in 1 .. n + 1, list[i].sock = list[j].sock
          PROVE  i = j \/ list[i].sock = STDOUT
      <4>1. list[n + 1].sock = w
        BY <1>7
      <4>2. i \in 1 .. n \/ i = n + 1
        BY <1>7
      <4>3. j \in 1 .. n \/ j = n + 1
        BY <1>7
      <4>4. CASE i \in 1 .. n /\ j \in 1 .. n
        BY <1>1, <1>7, <3>4, <4>4 DEF SeatsAreCounted
      <4>5. CASE i \in 1 .. n /\ j = n + 1
        BY <3>3, <3>4, <4>1, <4>5
      <4>6. CASE j \in 1 .. n /\ i = n + 1
        BY <3>3, <3>4, <4>1, <4>6
      <4> QED
        BY <4>2, <4>3, <4>4, <4>5, <4>6
    <3> QED
      BY <1>7, <1>9, <3>1, <3>2, <3>4 DEF SeatsAreCounted
  <2>6. SeatsAreOpen'
    BY <1>1, <1>7, <1>9 DEF SeatsAreOpen
  <2>7. OnTheWay'
    BY <1>1, <1>9, OutboxKept
  <2> QED
    BY <2>2, <2>3, <2>4, <2>5, <2>6, <2>7 DEF IInv
<1> QED
  <2>1. \/ /\ Send(batch, ends)
           /\ clients' = list
           /\ client_count' = client_count + 1
           /\ master' = master \cup {w}
           /\ open' = open \cup {w}
           /\ client' = IF Free = {} THEN client
                        ELSE [client EXCEPT ![w] =
                                IF end = "up" THEN NewClient
                                              ELSE [NewClient EXCEPT !.phase = "exited"]]
           /\ backlog' = IF Free = {} THEN backlog ELSE backlog - 1
           /\ pc' = "clients"
           /\ UNCHANGED <<reads, recv_str, from_logic, outbox, arrivals, inputs>>
        \/ SendKills(batch, ends)
    BY <1>4 DEF batch, ends, list
  <2> QED
    BY <1>8, <1>9, <2>1

(* What parse_msg_body() makes of the first message of a client: typed     *)
(* text, a name as it was chosen, or a word as it was typed unless this    *)
(* client typed one that does not come through.                            *)
LEMMA WhatIsParsed ==
  ASSUME ServerTypes, OnTheWay, NEW fd \in Desc, outbox[fd] # <<>>
  PROVE  /\ Parsed(fd) \in Text
         /\ get_msg_code(Head(outbox[fd])) = "N_SEND_NAME" => Parsed(fd) \in Name
         /\ get_msg_code(Head(outbox[fd])) = "N_SEND_WORD" =>
              \E word \in TypedBy(fd) : ~Plain(word) \/ Parsed(fd) = word
<1> DEFINE m == Head(outbox[fd])
<1>1. outbox[fd] \in Seq(Seq(Char)) /\ Len(outbox[fd]) \in Nat \ {0} /\ m = outbox[fd][1]
  BY EmptySeq, LenProperties, HeadTailProperties DEF OnTheWay
<1>2. WellSent(fd, m)
  BY <1>1 DEF OnTheWay
<1> HIDE DEF m
<1>3. /\ m \in Seq(Char) /\ m # <<>>
      /\ \A i \in 2 .. Len(m) : m[i] \in Typed
      /\ m[Len(m)] = MSG_END
      /\ m[1] = "N_SEND_NAME" => \E name \in Name : m = Message("N_SEND_NAME", name)
      /\ m[1] = "N_SEND_WORD" =>
           \E word \in TypedBy(fd) : ~Plain(word) \/ m = Message("N_SEND_WORD", word)
  BY <1>2 DEF WellSent
<1>4. Len(m) \in Nat \ {0} /\ get_msg_code(m) = m[1]
  BY <1>3, EmptySeq, LenProperties, HeadTailProperties DEF get_msg_code
<1>5. Parsed(fd) = IF TooLong(Values(m)[1]) THEN recv_str ELSE Values(m)[1]
  <2>1. Len(<<recv_str>>) = 1 /\ <<recv_str>>[1] = recv_str
    OBVIOUS
  <2>2. parse_msg_body(m, <<recv_str>>)[1] =
          IF \E j \in 1 .. 1 : TooLong(Values(m)[j]) THEN <<recv_str>>[1] ELSE Values(m)[1]
    BY <2>1 DEF parse_msg_body
  <2>3. (\E j \in 1 .. 1 : TooLong(Values(m)[j])) <=> TooLong(Values(m)[1])
    OBVIOUS
  <2> QED
    BY <2>1, <2>2, <2>3 DEF Parsed, m
<1>6. Values(m)[1] \in Text
  <2>1. Len(m) \in 1 .. Len(m)
    BY <1>4
  <2>2. PICK e \in 1 .. Len(m) : Values(m)[1] = SubSeq(m, 2, e - 1)
    BY <1>3, <2>1, FirstValue
  <2> DEFINE value == SubSeq(m, 2, e - 1)
  <2>3. /\ value \in Seq(Char)
        /\ Len(value) = IF 2 <= e - 1 THEN e - 1 - 2 + 1 ELSE 0
        /\ \A i \in 1 .. Len(value) : value[i] = m[2 + i - 1]
    <3>1. 2 \in Nat \ {0} /\ e - 1 \in 0 .. Len(m)
      BY <1>4
    <3> QED
      BY <1>3, <3>1, PartOfText, SMTT(30)
  <2> HIDE DEF value
  <2>4. \A i \in 1 .. Len(value) : value[i] \in Typed
    <3>1. TAKE i \in 1 .. Len(value)
    <3>2. 2 + i - 1 \in 2 .. Len(m)
      BY <1>4, <2>3
    <3> QED
      BY <1>3, <2>3, <3>2
  <2>5. value \in Text
    BY <2>3, <2>4 DEF Text
  <2> QED
    BY <2>2, <2>5 DEF value
<1>7. ASSUME NEW text \in Name \cup Word, Plain(text),
             NEW code \in {"N_SEND_NAME", "N_SEND_WORD"}, m = Message(code, text)
      PROVE  Parsed(fd) = text
  <2>1. text \in Seq(Range(text))
    BY NetworkAssumption
  <2>2. code \notin {MSG_END, MSG_VAL_SEP}
    BY DEF MSG_END, MSG_VAL_SEP
  <2>3. Values(m)[1] = text /\ ~TooLong(Values(m)[1])
    BY <1>7, <2>1, <2>2, PlainComesThrough DEF Message
  <2> QED
    BY <1>5, <2>3
<1>8. Parsed(fd) \in Text
  BY <1>5, <1>6 DEF ServerTypes
<1>9. m[1] = "N_SEND_NAME" => Parsed(fd) \in Name
  BY <1>3, <1>7, NetworkAssumption
<1>10. m[1] = "N_SEND_WORD" => \E word \in TypedBy(fd) : ~Plain(word) \/ Parsed(fd) = word
  <2>1. TypedBy(fd) \subseteq Word
    BY DEF TypedBy
  <2> QED
    BY <1>3, <1>7, <2>1
<1> QED
  BY <1>4, <1>8, <1>9, <1>10 DEF m

(* Serving a client leaves the seats as they are, and reads less.          *)
LEMMA ServedClient ==
  ASSUME NEW fd \in Desc, Serving(fd)
  PROVE  fd \in Socks(clients) /\ fd \in reads /\ pc = "clients"
BY DEF Serving, Socks

LEMMA NameIInv ==
  ASSUME IInv, NEW fd \in Desc, NameCommand(fd)
  PROVE  IInv'
<1>1. ServerTypes /\ WorldTypes /\ SomebodyWaits /\ SeatsAreCounted /\ SeatsAreOpen /\ OnTheWay
  BY DEF IInv
<1> DEFINE name == Parsed(fd)
           news == ToAll(clients, <<"N_PLAYER_CHANGED_NAME", fd, name>>)
           p == FirstPlace(fd)
<1>2. /\ Serving(fd) /\ outbox[fd] # <<>> /\ get_msg_code(Head(outbox[fd])) = "N_SEND_NAME"
      /\ \/ /\ Send(news, peer)
            /\ More(fd)
            /\ recv_str' = name
            /\ clients' = [clients EXCEPT ![p].name = name]
            /\ outbox' = [outbox EXCEPT ![fd] = Tail(@)]
            /\ UNCHANGED <<client_count, master, pc, from_logic, open, backlog, people>>
         \/ SendKills(news, peer)
  BY DEF NameCommand, Command
<1>3. name \in Name /\ name \in Text
  BY <1>1, <1>2, WhatIsParsed
<1>4. news \in [Desc -> Seq(ServerMessage)]
  <2>1. <<"N_PLAYER_CHANGED_NAME", fd, name>> \in ServerMessage
    BY <1>3 DEF ServerMessage
  <2> QED
    BY <1>1, <2>1, ListedClients, ToAllType
<1>5. p \in 1 .. Len(clients)
  BY <1>1, <1>2, ServedClient, FirstPlaceOf
<1> HIDE DEF name, news, p
<1>6. CASE SendKills(news, peer)
  BY <1>6, KilledIInv
<1>7. ASSUME Send(news, peer), More(fd), recv_str' = name,
             clients' = [clients EXCEPT ![p].name = name],
             outbox' = [outbox EXCEPT ![fd] = Tail(@)],
             UNCHANGED <<client_count, master, pc, from_logic, open, backlog, people>>
      PROVE  IInv'
  <2> DEFINE R == [sock : Desc, name : Name \cup {<<>>}]
             n == Len(clients)
  <2>1. /\ peer' \in [Desc -> Peer] /\ inbox' \in [Desc -> Seq(ServerMessage)]
        /\ fault' = fault
    <3>1. peer \in [Desc -> Peer]
      BY <1>1 DEF WorldTypes
    <3> QED
      BY <1>1, <1>4, <1>7, <3>1, SendEffect
  <2>2. /\ clients' \in Seq(R)
        /\ Len(clients') = n
        /\ \A i \in 1 .. n : clients'[i].sock = clients[i].sock
    <3>1. clients \in Seq(R) /\ n \in Nat /\ \A i \in 1 .. n : clients[i] \in R
      BY <1>1, ListedClients DEF ServerTypes
    <3>2. clients[p] \in R
      BY <1>5, <3>1
    <3>3. [clients[p] EXCEPT !.name = name] \in R /\ [clients[p] EXCEPT !.name = name].sock = clients[p].sock
      BY <1>3, <3>2
    <3> HIDE DEF R, n
    <3>4. clients' = [clients EXCEPT ![p] = [clients[p] EXCEPT !.name = name]]
      BY <1>7
    <3>5. clients' \in Seq(R) /\ Len(clients') = Len(clients)
      BY <1>5, <3>1, <3>3, <3>4, ExceptSeq
    <3>6. ASSUME NEW i \in 1 .. n PROVE clients'[i].sock = clients[i].sock
      <4>1. clients'[i] = IF i = p THEN [clients[p] EXCEPT !.name = name] ELSE clients[i]
        BY <1>5, <3>1, <3>3, <3>4, ExceptSeq DEF n
      <4> QED
        BY <3>3, <4>1
    <3> QED
      BY <3>5, <3>6 DEF n
  <2>3. Socks(clients') = Socks(clients)
    BY <2>2 DEF Socks
  <2>4. reads' \subseteq reads
    BY <1>7 DEF More
  <2>5. ServerTypes'
    BY <1>1, <1>3, <1>7, <2>1, <2>2, <2>4 DEF ServerTypes
  <2>6. WorldTypes'
    BY <1>1, <1>7, <2>1 DEF WorldTypes, people
  <2>7. SomebodyWaits'
    BY <1>2, <1>7, ServedClient DEF SomebodyWaits
  <2>8. SeatsAreCounted'
    <3>1. /\ client_count' = Len(clients')
          /\ master' \subseteq Socks(clients')
          /\ Socks(clients') \ {STDOUT} \subseteq master'
      BY <1>1, <1>7, <2>2, <2>3 DEF SeatsAreCounted
    <3>2. \A i, j \in 1 .. n :
            clients[i].sock = clients[j].sock => i = j \/ clients[i].sock = STDOUT
      BY <1>1 DEF SeatsAreCounted
    <3>3. \A i, j \in 1 .. Len(clients') :
            clients'[i].sock = clients'[j].sock => i = j \/ clients'[i].sock = STDOUT
      <4> HIDE DEF n
      <4> QED
        BY <2>2, <3>2
    <3> QED
      BY <3>1, <3>3 DEF SeatsAreCounted
  <2>9. SeatsAreOpen'
    BY <1>1, <1>7, <2>3, <2>4 DEF SeatsAreOpen
  <2>10. OnTheWay'
    BY <1>1, <1>2, <1>7, OutboxServed DEF people
  <2> QED
    BY <2>5, <2>6, <2>7, <2>8, <2>9, <2>10 DEF IInv
<1> QED
  BY <1>2, <1>6, <1>7

(* A word, or what follows a MSG_END that was typed. *)
LEMMA WordIInv ==
  ASSUME IInv, NEW fd \in Desc, WordCommand(fd) \/ UnknownCommand(fd)
  PROVE  IInv'
<1>1. ServerTypes /\ WorldTypes /\ SomebodyWaits /\ SeatsAreCounted /\ SeatsAreOpen /\ OnTheWay
  BY DEF IInv
<1>2. /\ Serving(fd) /\ outbox[fd] # <<>> /\ More(fd)
      /\ recv_str' = Parsed(fd) \/ recv_str' = recv_str
      /\ outbox' = [outbox EXCEPT ![fd] = Tail(@)]
      /\ UNCHANGED <<clients, client_count, master, pc, fault, from_logic,
                     open, backlog, peer, inbox, people>>
  BY DEF WordCommand, UnknownCommand, Command
<1>3. recv_str' \in Text
  BY <1>1, <1>2, WhatIsParsed DEF ServerTypes
<1>4. reads' \subseteq reads
  BY <1>2 DEF More
<1>5. ServerTypes'
  BY <1>1, <1>2, <1>3, <1>4 DEF ServerTypes
<1>6. WorldTypes'
  BY <1>1, <1>2 DEF WorldTypes, people
<1>7. SomebodyWaits'
  BY <1>2, ServedClient DEF SomebodyWaits
<1>8. SeatsAreCounted' /\ SeatsAreOpen'
  BY <1>1, <1>2, <1>4, SeatsKept
<1>9. OnTheWay'
  BY <1>1, <1>2, OutboxServed DEF people
<1> QED
  BY <1>5, <1>6, <1>7, <1>8, <1>9 DEF IInv

LEMMA RecvFailsIInv ==
  ASSUME IInv, NEW fd \in Desc, RecvFails(fd)
  PROVE  IInv'
<1>1. ServerTypes /\ WorldTypes /\ SomebodyWaits /\ SeatsAreCounted /\ SeatsAreOpen /\ OnTheWay
  BY DEF IInv
<1>2. /\ Serving(fd)
      /\ peer' = [peer EXCEPT ![fd] = "dead"]
      /\ reads' = reads \ {fd}
      /\ UNCHANGED <<clients, client_count, master, pc, recv_str, fault, from_logic,
                     open, backlog, inbox, outbox, people>>
  BY DEF RecvFails
<1>3. ServerTypes'
  BY <1>1, <1>2 DEF ServerTypes
<1>4. WorldTypes'
  <2>1. peer' \in [Desc -> Peer]
    <3>1. peer \in [Desc -> Peer] /\ "dead" \in Peer
      BY <1>1 DEF WorldTypes, Peer
    <3> QED
      BY <1>2, <3>1
  <2> QED
    BY <1>1, <1>2, <2>1 DEF WorldTypes, people
<1>5. SomebodyWaits'
  BY <1>2, ServedClient DEF SomebodyWaits
<1>6. SeatsAreCounted' /\ SeatsAreOpen'
  BY <1>1, <1>2, SeatsKept
<1>7. OnTheWay'
  BY <1>1, <1>2, OutboxKept DEF people
<1> QED
  BY <1>3, <1>4, <1>5, <1>6, <1>7 DEF IInv

(* The list without one of its entries. *)
LEMMA OneLess ==
  ASSUME NEW R, NEW list \in Seq(R), NEW p \in 1 .. Len(list)
  PROVE  /\ RemoveAt(list, p) \in Seq(R)
         /\ Len(RemoveAt(list, p)) = Len(list) - 1
         /\ \A k \in 1 .. Len(list) - 1 :
              RemoveAt(list, p)[k] = list[IF k < p THEN k ELSE k + 1]
<1> DEFINE front == SubSeq(list, 1, p - 1)
           back == SubSeq(list, p + 1, Len(list))
           n == Len(list)
<1>1. n \in Nat /\ p \in 1 .. n
  BY LenProperties
<1>2. /\ front \in Seq(R) /\ Len(front) = p - 1
      /\ \A i \in 1 .. p - 1 : front[i] = list[i]
  <2>1. 1 \in Nat \ {0} /\ p - 1 \in 0 .. Len(list)
    BY <1>1
  <2>2. /\ front \in Seq(R)
        /\ Len(front) = IF 1 <= p - 1 THEN p - 1 - 1 + 1 ELSE 0
        /\ \A i \in 1 .. Len(front) : front[i] = list[1 + i - 1]
    BY <2>1, PartOfText
  <2>3. Len(front) = p - 1
    BY <1>1, <2>2
  <2>4. \A i \in 1 .. p - 1 : front[i] = list[i]
    <3>1. TAKE i \in 1 .. p - 1
    <3>2. 1 + i - 1 = i
      BY <1>1
    <3> QED
      BY <2>2, <2>3, <3>2
  <2> QED
    BY <2>2, <2>3, <2>4
<1>3. /\ back \in Seq(R) /\ Len(back) = n - p
      /\ \A i \in 1 .. n - p : back[i] = list[p + i]
  <2>1. p + 1 \in Nat \ {0} /\ n \in 0 .. Len(list)
    BY <1>1
  <2>2. /\ back \in Seq(R)
        /\ Len(back) = IF p + 1 <= n THEN n - (p + 1) + 1 ELSE 0
        /\ \A i \in 1 .. Len(back) : back[i] = list[p + 1 + i - 1]
    BY <2>1, PartOfText
  <2>3. Len(back) = n - p
    BY <1>1, <2>2
  <2>4. \A i \in 1 .. n - p : back[i] = list[p + i]
    <3>1. TAKE i \in 1 .. n - p
    <3>2. p + 1 + i - 1 = p + i
      BY <1>1
    <3> QED
      BY <2>2, <2>3, <3>2
  <2> QED
    BY <2>2, <2>3, <2>4
<1>4. RemoveAt(list, p) = front \o back
  BY DEF RemoveAt
<1> HIDE DEF front, back
<1>5. /\ front \o back \in Seq(R)
      /\ Len(front \o back) = n - 1
      /\ \A k \in 1 .. n - 1 :
           (front \o back)[k] = IF k <= p - 1 THEN front[k] ELSE back[k - (p - 1)]
  <2>1. /\ front \o back \in Seq(R)
        /\ Len(front \o back) = Len(front) + Len(back)
        /\ \A k \in 1 .. Len(front) + Len(back) :
             (front \o back)[k] = IF k <= Len(front) THEN front[k] ELSE back[k - Len(front)]
    BY <1>2, <1>3, ConcatProperties
  <2>2. Len(front) + Len(back) = n - 1
    BY <1>1, <1>2, <1>3
  <2> QED
    BY <1>2, <2>1, <2>2
<1>6. ASSUME NEW k \in 1 .. n - 1
      PROVE  (front \o back)[k] = list[IF k < p THEN k ELSE k + 1]
  <2>1. CASE k < p
    <3>1. k <= p - 1 /\ k \in 1 .. p - 1
      BY <1>1, <2>1
    <3> QED
      BY <1>2, <1>5, <2>1, <3>1
  <2>2. CASE ~(k < p)
    <3>1. ~(k <= p - 1) /\ k - (p - 1) \in 1 .. n - p /\ p + (k - (p - 1)) = k + 1
      BY <1>1, <2>2
    <3> QED
      BY <1>3, <1>5, <2>2, <3>1
  <2> QED
    BY <2>1, <2>2
<1> QED
  BY <1>4, <1>5, <1>6

LEMMA DisconnectIInv ==
  ASSUME IInv, NEW fd \in Desc, Disconnect(fd)
  PROVE  IInv'
<1>1. ServerTypes /\ WorldTypes /\ SomebodyWaits /\ SeatsAreCounted /\ SeatsAreOpen /\ OnTheWay
  BY DEF IInv
<1> DEFINE news == ToAllExcept(fd, <<"N_PLAYER_LEFT", fd>>)
           p == FirstPlace(fd)
           n == Len(clients)
           left == RemoveAt(clients, p)
<1>2. /\ Serving(fd)
      /\ \/ /\ Send(news, peer)
            /\ clients' = left
            /\ client_count' = client_count - 1
            /\ master' = master \ {fd}
            /\ reads' = reads \ {fd}
            /\ UNCHANGED <<pc, recv_str, from_logic, open, backlog, outbox, people>>
         \/ SendKills(news, peer)
  BY DEF Disconnect, remove_client_data, SeatFreed
<1>3. fd \in Socks(clients) /\ pc = "clients"
  BY <1>2, ServedClient
<1>4. p \in 1 .. n /\ clients[p].sock = fd /\ n \in Nat
  BY <1>1, <1>3, FirstPlaceOf, ListedClients
<1>5. news \in [Desc -> Seq(ServerMessage)]
  <2>1. <<"N_PLAYER_LEFT", fd>> \in ServerMessage
    BY DEF ServerMessage
  <2>2. ToAll(clients, <<"N_PLAYER_LEFT", fd>>) \in [Desc -> Seq(ServerMessage)]
    BY <1>1, <2>1, ListedClients, ToAllType
  <2>3. <<>> \in Seq(ServerMessage)
    OBVIOUS
  <2> QED
    BY <2>2, <2>3 DEF ToAllExcept
<1> DEFINE R == [sock : Desc, name : Name \cup {<<>>}]
<1>6. /\ left \in Seq(R) /\ Len(left) = n - 1
      /\ \A k \in 1 .. n - 1 : left[k] = clients[IF k < p THEN k ELSE k + 1]
  <2>1. clients \in Seq(R)
    BY <1>1 DEF ServerTypes
  <2> HIDE DEF R
  <2> QED
    BY <1>4, <2>1, OneLess
<1> HIDE DEF news, left, p, n
<1>7. CASE SendKills(news, peer)
  BY <1>7, KilledIInv
<1>8. ASSUME Send(news, peer),
             clients' = left,
             client_count' = client_count - 1,
             master' = master \ {fd},
             reads' = reads \ {fd},
             UNCHANGED <<pc, recv_str, from_logic, open, backlog, outbox, people>>
      PROVE  IInv'
  <2>1. /\ peer' \in [Desc -> Peer] /\ inbox' \in [Desc -> Seq(ServerMessage)]
        /\ fault' = fault
    <3>1. peer \in [Desc -> Peer]
      BY <1>1 DEF WorldTypes
    <3> QED
      BY <1>1, <1>5, <1>8, <3>1, SendEffect
  <2>2. client_count = n /\ client_count <= MAX_CLIENT_COUNT /\ MAX_CLIENT_COUNT \in Nat
    BY <1>1, NetworkAssumption DEF SeatsAreCounted, ServerTypes, n
  <2>3. ServerTypes'
    <3>1. client_count' <= MAX_CLIENT_COUNT
      BY <1>4, <1>8, <2>2
    <3>2. left \in Seq([sock : Desc, name : Name \cup {<<>>}])
      BY <1>6
    <3> QED
      BY <1>1, <1>8, <2>1, <3>1, <3>2 DEF ServerTypes
  <2>4. WorldTypes'
    BY <1>1, <1>8, <2>1 DEF WorldTypes, people
  <2>5. SomebodyWaits'
    BY <1>3, <1>8 DEF SomebodyWaits
  <2> DEFINE from(k) == IF k < p THEN k ELSE k + 1
  <2>6. \A k \in 1 .. n - 1 : from(k) \in 1 .. n /\ from(k) # p /\ left[k] = clients[from(k)]
    BY <1>4, <1>6
  <2>7. \A i \in 1 .. n : i # p => \E k \in 1 .. n - 1 : from(k) = i
    <3>1. TAKE i \in 1 .. n
    <3>2. HAVE i # p
    <3>3. CASE i < p
      <4>1. i \in 1 .. n - 1 /\ from(i) = i
        BY <1>4, <3>3
      <4> QED
        BY <4>1
    <3>4. CASE ~(i < p)
      <4>1. i - 1 \in 1 .. n - 1 /\ ~(i - 1 < p) /\ i - 1 + 1 = i
        BY <1>4, <3>2, <3>4
      <4>2. from(i - 1) = i
        BY <4>1
      <4> QED
        BY <4>1, <4>2
    <3> QED
      BY <3>3, <3>4
  <2>8. \A k, l \in 1 .. n - 1 : from(k) = from(l) => k = l
    BY <1>4
  <2> HIDE DEF from
  <2>9. Socks(clients') \subseteq Socks(clients) /\ Socks(clients) \subseteq Socks(clients') \cup {fd}
    <3>1. Len(left) = n - 1 /\ Len(clients) = n
      BY <1>6 DEF n
    <3>2. Socks(left) \subseteq Socks(clients)
      BY <2>6, <3>1 DEF Socks
    <3>3. ASSUME NEW i \in 1 .. n PROVE clients[i].sock \in Socks(left) \cup {fd}
      <4>1. CASE i = p
        BY <1>4, <4>1
      <4>2. CASE i # p
        <5>1. PICK k \in 1 .. n - 1 : from(k) = i
          BY <2>7, <4>2
        <5> QED
          BY <2>6, <3>1, <5>1 DEF Socks
      <4> QED
        BY <4>1, <4>2
    <3> QED
      BY <1>8, <3>1, <3>2, <3>3 DEF Socks
  <2>10. fd # STDOUT => fd \notin Socks(clients')
    <3>1. ASSUME NEW k \in 1 .. n - 1, left[k].sock = fd, fd # STDOUT PROVE FALSE
      <4>1. from(k) \in 1 .. n /\ from(k) # p /\ clients[from(k)].sock = fd
        BY <2>6, <3>1
      <4> QED
        BY <1>1, <1>4, <3>1, <4>1 DEF SeatsAreCounted, n
    <3> QED
      BY <1>6, <1>8, <3>1 DEF Socks
  <2>11. SeatsAreCounted'
    <3>1. client_count' = Len(clients')
      BY <1>4, <1>6, <1>8, <2>2
    <3>2. /\ master' \subseteq Socks(clients')
          /\ Socks(clients') \ {STDOUT} \subseteq master'
      BY <1>1, <1>8, <2>9, <2>10 DEF SeatsAreCounted
    <3>3. ASSUME NEW k \in 1 .. n - 1, NEW l \in 1 .. n - 1, left[k].sock = left[l].sock
          PROVE  k = l \/ left[k].sock = STDOUT
      <4>1. /\ from(k) \in 1 .. n /\ left[k] = clients[from(k)]
            /\ from(l) \in 1 .. n /\ left[l] = clients[from(l)]
        BY <2>6
      <4>2. from(k) = from(l) \/ clients[from(k)].sock = STDOUT
        BY <1>1, <3>3, <4>1 DEF SeatsAreCounted, n
      <4> QED
        BY <2>8, <4>1, <4>2
    <3> QED
      BY <1>6, <1>8, <3>1, <3>2, <3>3 DEF SeatsAreCounted
  <2>12. SeatsAreOpen'
    BY <1>1, <1>8, <2>9 DEF SeatsAreOpen
  <2>13. OnTheWay'
    BY <1>1, <1>8, OutboxKept DEF people
  <2> QED
    BY <2>3, <2>4, <2>5, <2>11, <2>12, <2>13 DEF IInv
<1> QED
  BY <1>2, <1>7, <1>8

----------------------------------------------------------------------------
(* The rest of the world's steps *)

(* A client's list: its length and its entries. *)
Entry == [id : Desc, name : Text \cup {Unnamed}, hp : {MAX_HP}]

LEMMA PlayersOf ==
  ASSUME NEW cl \in Process
  PROVE  /\ cl.players \in Seq(Entry) /\ Len(cl.players) \in Nat
         /\ \A i \in 1 .. Len(cl.players) : cl.players[i] \in Entry
<1>1. cl.players \in Seq(Entry)
  BY DEF Process, Entry
<1> QED
  BY <1>1, LenProperties, ElementOfSeq

LEMMA PlayersChange ==
  ASSUME NEW cl \in Process, NEW list \in Seq(Entry)
  PROVE  /\ [cl EXCEPT !.players = list] \in Process
         /\ [cl EXCEPT !.players = list].players = list
         /\ [cl EXCEPT !.players = list].phase = cl.phase
BY DEF Process, Entry

(* How often a client lists somebody, and what a message changes of it.    *)
Times(cl, id) == Cardinality(IdPlaces(cl, id))

Change(msg, id) ==
  IF Announces(msg, id) THEN 1 ELSE IF msg = <<"N_PLAYER_LEFT", id>> THEN -1 ELSE 0

LEMMA TimesType ==
  ASSUME NEW cl \in Process, NEW id
  PROVE  /\ IsFiniteSet(IdPlaces(cl, id)) /\ Times(cl, id) \in Nat
         /\ Known(cl, id) <=> Times(cl, id) >= 1
<1>1. IdPlaces(cl, id) \in SUBSET (1 .. Len(cl.players)) /\ Len(cl.players) \in Nat
  BY PlayersOf DEF IdPlaces
<1>2. IsFiniteSet(IdPlaces(cl, id)) /\ Times(cl, id) \in Nat
  BY <1>1, BelowFinite DEF Times
<1>3. Times(cl, id) = 0 <=> IdPlaces(cl, id) = {}
  BY <1>2, FS_EmptySet DEF Times
<1> QED
  BY <1>2, <1>3 DEF Known

(* get_player_from_id() finds the first. *)
LEMMA FirstOfIt ==
  ASSUME NEW cl \in Process, NEW id, Known(cl, id)
  PROVE  /\ FirstOf(cl, id) \in 1 .. Len(cl.players)
         /\ cl.players[FirstOf(cl, id)].id = id
<1>1. IdPlaces(cl, id) # {} /\ IdPlaces(cl, id) \in SUBSET Nat
  BY DEF Known, IdPlaces
<1>2. \E i \in IdPlaces(cl, id) : \A j \in IdPlaces(cl, id) : i <= j
  BY <1>1, LeastElement
<1>3. FirstOf(cl, id) \in IdPlaces(cl, id)
  BY <1>2 DEF FirstOf
<1> QED
  BY <1>3 DEF IdPlaces

LEMMA JoinRead ==
  ASSUME NEW cl \in Process, NEW id \in Desc, NEW name \in Text \cup {Unnamed}
  PROVE  LET now == create_player(cl, id, name)
         IN  /\ now \in Process /\ now.phase = cl.phase
             /\ \A x : Times(now, x) = Times(cl, x) + (IF x = id THEN 1 ELSE 0)
<1> DEFINE new == new_player(id, name)
           list == Append(cl.players, new)
           n == Len(cl.players)
<1>1. new \in Entry /\ new.id = id
  BY DEF new_player, Entry
<1>2. cl.players \in Seq(Entry) /\ n \in Nat
  BY PlayersOf
<1> HIDE DEF new
<1>3. /\ list \in Seq(Entry) /\ Len(list) = n + 1
      /\ \A i \in 1 .. n : list[i] = cl.players[i]
      /\ list[n + 1] = new
  BY <1>1, <1>2, AppendProperties
<1> HIDE DEF list
<1>4. create_player(cl, id, name) = [cl EXCEPT !.players = list]
  BY DEF create_player, list, new
<1> DEFINE now == create_player(cl, id, name)
<1>5. now \in Process /\ now.players = list /\ now.phase = cl.phase
  BY <1>3, <1>4, PlayersChange
<1> HIDE DEF now
<1>6. 1 .. n + 1 = (1 .. n) \cup {n + 1} /\ n + 1 \notin 1 .. n
  BY <1>2
<1>7. ASSUME NEW x PROVE Times(now, x) = Times(cl, x) + (IF x = id THEN 1 ELSE 0)
  <2>1. IdPlaces(now, x) = IF x = id THEN IdPlaces(cl, x) \cup {n + 1} ELSE IdPlaces(cl, x)
    BY <1>1, <1>3, <1>5, <1>6 DEF IdPlaces
  <2>2. n + 1 \notin IdPlaces(cl, x)
    BY <1>6 DEF IdPlaces
  <2>3. IsFiniteSet(IdPlaces(cl, x)) /\ Times(cl, x) \in Nat
    BY TimesType
  <2>4. Cardinality(IdPlaces(cl, x) \cup {n + 1}) = Cardinality(IdPlaces(cl, x)) + 1
    BY <2>2, <2>3, FS_AddElement
  <2> QED
    BY <2>1, <2>3, <2>4 DEF Times
<1> QED
  BY <1>5, <1>7 DEF now

LEMMA LeaveRead ==
  ASSUME NEW cl \in Process, NEW id \in Desc
  PROVE  LET now == remove_player(cl, id)
         IN  /\ now \in Process
             /\ Known(cl, id) =>
                  /\ now.phase = cl.phase
                  /\ \A x : Times(now, x) = Times(cl, x) - (IF x = id THEN 1 ELSE 0)
             /\ ~Known(cl, id) => now.phase = "crashed"
<1> DEFINE now == remove_player(cl, id)
<1>1. CASE ~Known(cl, id)
  <2>1. now = [cl EXCEPT !.phase = "crashed"]
    BY <1>1 DEF remove_player, Crashed
  <2>2. "crashed" \in Phase
    BY DEF Phase
  <2> QED
    BY <1>1, <2>1, <2>2, PhaseChanges
<1>2. CASE Known(cl, id)
  <2> DEFINE p == FirstOf(cl, id)
             n == Len(cl.players)
             list == RemoveAt(cl.players, p)
             turn == IF cl.player_turn = id THEN FreedTurn ELSE cl.player_turn
  <2>1. p \in 1 .. n /\ cl.players[p].id = id
    BY <1>2, FirstOfIt
  <2>2. cl.players \in Seq(Entry) /\ n \in Nat
    BY PlayersOf
  <2> HIDE DEF p
  <2>3. /\ list \in Seq(Entry) /\ Len(list) = n - 1
        /\ \A k \in 1 .. n - 1 : list[k] = cl.players[IF k < p THEN k ELSE k + 1]
    BY <2>1, <2>2, OneLess
  <2> HIDE DEF list, n
  <2>4. turn \in {NoTurn, FreedTurn}
    BY DEF Process
  <2> HIDE DEF turn
  <2>5. now = [cl EXCEPT !.players = list, !.player_turn = turn]
    BY <1>2 DEF remove_player, list, turn, p
  <2>6. now \in Process /\ now.players = list /\ now.phase = cl.phase
    BY <2>3, <2>4, <2>5 DEF Process, Entry
  <2> HIDE DEF now
  <2>7. ASSUME NEW x PROVE Times(now, x) = Times(cl, x) - (IF x = id THEN 1 ELSE 0)
    <3> DEFINE T == IdPlaces(cl, x)
               from(k) == IF k < p THEN k ELSE k + 1
    <3>1. T \in SUBSET (1 .. n) /\ (p \in T <=> x = id)
      BY <2>1 DEF IdPlaces, n
    <3>2. \A k \in 1 .. n - 1 : from(k) \in 1 .. n
      BY <2>1, <2>2
    <3>3. \A k \in 1 .. n - 1 : list[k].id = x <=> from(k) \in T
      BY <2>3, <3>2 DEF IdPlaces, n
    <3>4. IdPlaces(now, x) = {k \in 1 .. n - 1 : from(k) \in T}
      BY <2>3, <2>6, <3>3 DEF IdPlaces
    <3> HIDE DEF T
    <3>5. Cardinality({k \in 1 .. n - 1 : from(k) \in T}) = Cardinality(T) - (IF p \in T THEN 1 ELSE 0)
      BY <2>1, <2>2, <3>1, OnePlaceLess
    <3> QED
      BY <3>1, <3>4, <3>5 DEF Times, T
  <2> QED
    BY <1>2, <2>6, <2>7 DEF now
<1> QED
  BY <1>1, <1>2

LEMMA NameRead ==
  ASSUME NEW cl \in Process, NEW id \in Desc, NEW name \in Text \cup {Unnamed}
  PROVE  LET now == change_name(cl, id, name)
         IN  /\ now \in Process
             /\ Known(cl, id) =>
                  now.phase = cl.phase /\ \A x : Times(now, x) = Times(cl, x)
             /\ ~Known(cl, id) => now.phase = "crashed"
<1> DEFINE now == change_name(cl, id, name)
<1>1. CASE ~Known(cl, id)
  <2>1. now = [cl EXCEPT !.phase = "crashed"]
    BY <1>1 DEF change_name, Crashed
  <2>2. "crashed" \in Phase
    BY DEF Phase
  <2> QED
    BY <1>1, <2>1, <2>2, PhaseChanges
<1>2. CASE Known(cl, id)
  <2> DEFINE p == FirstOf(cl, id)
             n == Len(cl.players)
             entry == [cl.players[p] EXCEPT !.name = name]
             list == [cl.players EXCEPT ![p] = entry]
  <2>1. p \in 1 .. n
    BY <1>2, FirstOfIt
  <2>2. cl.players \in Seq(Entry) /\ n \in Nat /\ cl.players[p] \in Entry
    BY <2>1, PlayersOf
  <2>3. entry \in Entry /\ entry.id = cl.players[p].id
    BY <2>2 DEF Entry
  <2>4. now = [cl EXCEPT !.players = list]
    BY <1>2 DEF change_name
  <2> HIDE DEF p, n, entry
  <2>5. list \in Seq(Entry) /\ Len(list) = Len(cl.players)
    BY <2>1, <2>2, <2>3, ExceptSeq DEF n
  <2>6. \A i \in 1 .. n : list[i].id = cl.players[i].id
    <3>1. \A i \in 1 .. n : list[i] = IF i = p THEN entry ELSE cl.players[i]
      BY <2>1, <2>2, <2>3, ExceptSeq DEF n
    <3> QED
      BY <2>3, <3>1
  <2> HIDE DEF list
  <2>7. now \in Process /\ now.players = list /\ now.phase = cl.phase
    BY <2>4, <2>5, PlayersChange
  <2> HIDE DEF now
  <2>8. \A x : Times(now, x) = Times(cl, x)
    BY <2>5, <2>6, <2>7 DEF Times, IdPlaces, n
  <2> QED
    BY <1>2, <2>7, <2>8 DEF now
<1> QED
  BY <1>1, <1>2

(* What a message makes of a client: it crashes only of a departure or a   *)
(* name of somebody it does not know, and forgets nobody but who leaves.   *)
LEMMA MessageRead ==
  ASSUME NEW cl \in Process, NEW msg \in ServerMessage
  PROVE  LET now == process_server_command(cl, msg)
         IN  /\ now \in Process
             /\ now.phase \in {cl.phase, "exited", "crashed"}
             /\ now.phase = "crashed" /\ cl.phase # "crashed" =>
                  \E id \in Desc : Concerns(msg, id) /\ ~Known(cl, id)
             /\ now.phase # "crashed" =>
                  \A id \in Desc : Times(now, id) = Times(cl, id) + Change(msg, id)
<1> DEFINE now == process_server_command(cl, msg)
<1>1. ASSUME NEW id \in Desc, NEW name \in Text \cup {Unnamed}, msg = <<"N_PLAYER_JOIN", id, name>>
      PROVE  /\ now = create_player(cl, id, name)
             /\ \A x : Change(msg, x) = IF x = id THEN 1 ELSE 0
  BY <1>1 DEF process_server_command, Announces, Change
<1>2. ASSUME NEW id \in Desc, msg = <<"N_PLAYER_LEFT", id>>
      PROVE  /\ now = remove_player(cl, id) /\ Concerns(msg, id)
             /\ \A x : Change(msg, x) = IF x = id THEN -1 ELSE 0
  BY <1>2 DEF process_server_command, Announces, Concerns, Change
<1>3. ASSUME NEW id \in Desc, NEW name \in Text \cup {Unnamed},
             msg = <<"N_PLAYER_CHANGED_NAME", id, name>>
      PROVE  /\ now = change_name(cl, id, name) /\ Concerns(msg, id)
             /\ \A x : Change(msg, x) = 0
  BY <1>3 DEF process_server_command, Announces, Concerns, Change
<1>4. CASE \E id \in Desc, name \in Text \cup {Unnamed} : msg = <<"N_PLAYER_JOIN", id, name>>
  <2>1. PICK id \in Desc, name \in Text \cup {Unnamed} : msg = <<"N_PLAYER_JOIN", id, name>>
    BY <1>4
  <2> HIDE DEF now
  <2>2. /\ now \in Process /\ now.phase = cl.phase
        /\ \A x : Times(now, x) = Times(cl, x) + (IF x = id THEN 1 ELSE 0)
    BY <1>1, <2>1, JoinRead
  <2>3. \A x : Change(msg, x) = IF x = id THEN 1 ELSE 0
    BY <1>1, <2>1
  <2> QED
    BY <2>2, <2>3 DEF now
<1>5. CASE \E id \in Desc : msg = <<"N_PLAYER_LEFT", id>>
  <2>1. PICK id \in Desc : msg = <<"N_PLAYER_LEFT", id>>
    BY <1>5
  <2> HIDE DEF now
  <2>2. /\ now \in Process
        /\ Known(cl, id) =>
             /\ now.phase = cl.phase
             /\ \A x : Times(now, x) = Times(cl, x) - (IF x = id THEN 1 ELSE 0)
        /\ ~Known(cl, id) => now.phase = "crashed"
    BY <1>2, <2>1, LeaveRead
  <2>3. Concerns(msg, id) /\ \A x : Change(msg, x) = IF x = id THEN -1 ELSE 0
    BY <1>2, <2>1
  <2>4. \A x : Times(cl, x) \in Nat
    BY TimesType
  <2>5. now.phase # "crashed" => \A x : Times(now, x) = Times(cl, x) + Change(msg, x)
    BY <2>2, <2>3, <2>4
  <2> QED
    BY <2>2, <2>3, <2>5 DEF now
<1>6. CASE \E id \in Desc, name \in Text \cup {Unnamed} : msg = <<"N_PLAYER_CHANGED_NAME", id, name>>
  <2>1. PICK id \in Desc, name \in Text \cup {Unnamed} : msg = <<"N_PLAYER_CHANGED_NAME", id, name>>
    BY <1>6
  <2> HIDE DEF now
  <2>2. /\ now \in Process
        /\ Known(cl, id) => now.phase = cl.phase /\ \A x : Times(now, x) = Times(cl, x)
        /\ ~Known(cl, id) => now.phase = "crashed"
    BY <1>3, <2>1, NameRead
  <2>3. Concerns(msg, id) /\ \A x : Change(msg, x) = 0
    BY <1>3, <2>1
  <2>4. \A x : Times(cl, x) \in Nat
    BY TimesType
  <2> QED
    BY <2>2, <2>3, <2>4 DEF now
<1>7. CASE \E id \in Desc : msg = <<"N_SEND_ID", id>>
  <2>1. PICK id \in Desc : msg = <<"N_SEND_ID", id>>
    BY <1>7
  <2>2. now = [cl EXCEPT !.my_id = id]
    BY <2>1 DEF process_server_command
  <2>3. now \in Process /\ now.phase = cl.phase /\ now.players = cl.players
    BY <2>2 DEF Process
  <2>4. \A x : Change(msg, x) = 0 /\ Times(cl, x) \in Nat
    BY <2>1, TimesType DEF Announces, Change
  <2> HIDE DEF now
  <2>5. \A x : Times(now, x) = Times(cl, x)
    BY <2>3 DEF Times, IdPlaces
  <2> QED
    BY <2>3, <2>4, <2>5 DEF now
<1>8. CASE msg = <<"N_GAME_STARTED_NO_JOINING">>
  <2>1. now = [cl EXCEPT !.phase = "exited"]
    BY <1>8 DEF process_server_command
  <2>2. "exited" \in Phase
    BY DEF Phase
  <2>3. now \in Process /\ now.phase = "exited" /\ now.players = cl.players
    BY <2>1, <2>2, PhaseChanges
  <2>4. \A x : Change(msg, x) = 0 /\ Times(cl, x) \in Nat
    BY <1>8, TimesType DEF Announces, Change
  <2> HIDE DEF now
  <2>5. \A x : Times(now, x) = Times(cl, x)
    BY <2>3 DEF Times, IdPlaces
  <2> QED
    BY <2>3, <2>4, <2>5 DEF now
<1>9. CASE msg \in {<<"N_GAME">>, <<"N_GAME_NOT_FULL">>}
  <2>1. now = cl /\ \A x : Change(msg, x) = 0 /\ Times(cl, x) \in Nat
    BY <1>9, TimesType DEF process_server_command, Announces, Change
  <2> QED
    BY <2>1
<1>10. \/ msg \in {<<"N_GAME">>, <<"N_GAME_NOT_FULL">>}
       \/ msg = <<"N_GAME_STARTED_NO_JOINING">>
       \/ \E id \in Desc : msg = <<"N_SEND_ID", id>>
       \/ \E id \in Desc : msg = <<"N_PLAYER_LEFT", id>>
       \/ \E id \in Desc, name \in Text \cup {Unnamed} : msg = <<"N_PLAYER_JOIN", id, name>>
       \/ \E id \in Desc, name \in Text \cup {Unnamed} : msg = <<"N_PLAYER_CHANGED_NAME", id, name>>
  BY DEF ServerMessage
<1> QED
  BY <1>4, <1>5, <1>6, <1>7, <1>8, <1>9, <1>10

LEMMA GreetingRead ==
  ASSUME NEW cl \in Process, NEW msg
  PROVE  /\ greet(cl, msg) \in Process
         /\ greet(cl, msg).phase \in {"exited", "naming"}
         /\ greet(cl, msg).players = cl.players
<1>1. "exited" \in Phase /\ "naming" \in Phase
  BY DEF Phase
<1> QED
  BY <1>1, PhaseChanges DEF greet

LEMMA ConnectIInv ==
  ASSUME IInv, Connect
  PROVE  IInv'
<1> USE DEF server
<1>1. ServerTypes /\ WorldTypes /\ SomebodyWaits /\ SeatsAreCounted /\ SeatsAreOpen /\ OnTheWay
  BY DEF IInv
<1>2. /\ arrivals < MaxArrivals /\ arrivals' = arrivals + 1 /\ backlog' = backlog + 1
      /\ UNCHANGED <<server, fault, from_logic, open, peer, inbox, outbox, client, inputs>>
  BY DEF Connect
<1>3. /\ arrivals \in 0 .. MaxArrivals /\ backlog \in 0 .. arrivals /\ MaxArrivals \in Nat
  BY <1>1, NetworkAssumption DEF WorldTypes
<1>4. arrivals' \in 0 .. MaxArrivals /\ backlog' \in 0 .. arrivals' /\ backlog' > 0
  BY <1>2, <1>3
<1>5. ServerTypes'
  BY <1>1, <1>2 DEF ServerTypes
<1>6. WorldTypes'
  BY <1>1, <1>2, <1>4 DEF WorldTypes
<1>7. SomebodyWaits'
  BY <1>1, <1>2, <1>4 DEF SomebodyWaits
<1>8. SeatsAreCounted' /\ SeatsAreOpen'
  BY <1>1, <1>2, SeatsKept
<1>9. OnTheWay'
  BY <1>1, <1>2, OutboxKept
<1> QED
  BY <1>5, <1>6, <1>7, <1>8, <1>9 DEF IInv

LEMMA LogicIInv ==
  ASSUME IInv, NEW msg \in LogicMessage, LogicCommand(msg)
  PROVE  IInv'
<1> USE DEF server, kernel
<1>1. ServerTypes /\ WorldTypes /\ SomebodyWaits /\ SeatsAreCounted /\ SeatsAreOpen /\ OnTheWay
  BY DEF IInv
<1>2. /\ from_logic' = Append(from_logic, msg) /\ inputs \subseteq inputs'
      /\ UNCHANGED <<server, fault, kernel, client, arrivals>>
  BY DEF LogicCommand, NewInput
<1>3. from_logic' \in Seq(LogicMessage)
  BY <1>1, <1>2, AppendProperties DEF ServerTypes
<1>4. ServerTypes'
  BY <1>1, <1>2, <1>3 DEF ServerTypes
<1>5. WorldTypes'
  BY <1>1, <1>2 DEF WorldTypes
<1>6. SomebodyWaits'
  BY <1>1, <1>2 DEF SomebodyWaits
<1>7. SeatsAreCounted' /\ SeatsAreOpen'
  BY <1>1, <1>2, SeatsKept
<1>8. OnTheWay'
  BY <1>1, <1>2, OutboxKept
<1> QED
  BY <1>4, <1>5, <1>6, <1>7, <1>8 DEF IInv

(* A client's step that leaves the server, the descriptors and what it     *)
(* sent alone.                                                             *)
LEMMA ClientKeeps ==
  ASSUME IInv, WorldTypes',
         UNCHANGED <<server, fault, from_logic, open, backlog, outbox, arrivals, inputs>>
  PROVE  IInv'
<1> USE DEF server
<1>1. ServerTypes /\ SomebodyWaits /\ SeatsAreCounted /\ SeatsAreOpen /\ OnTheWay
  BY DEF IInv
<1>2. ServerTypes'
  BY <1>1 DEF ServerTypes
<1>3. SomebodyWaits'
  BY <1>1 DEF SomebodyWaits
<1>4. SeatsAreCounted' /\ SeatsAreOpen'
  BY <1>1, SeatsKept
<1>5. OnTheWay'
  BY <1>1, OutboxKept
<1> QED
  BY <1>2, <1>3, <1>4, <1>5 DEF IInv

LEMMA EndsIInv ==
  ASSUME IInv, NEW fd \in Desc, NEW last \in Process, Ends(fd, last)
  PROVE  /\ IInv'
         /\ client' = [client EXCEPT ![fd] = last]
         /\ inbox' = [inbox EXCEPT ![fd] = <<>>]
         /\ \A d \in Desc : peer'[d] = "up" <=> d # fd /\ peer[d] = "up"
<1>1. WorldTypes
  BY DEF IInv
<1>2. PICK end \in {"fin", "reset", "dead"} : peer' = [peer EXCEPT ![fd] = end]
  BY DEF Ends
<1>3. /\ client' = [client EXCEPT ![fd] = last]
      /\ inbox' = [inbox EXCEPT ![fd] = <<>>]
      /\ UNCHANGED <<server, fault, from_logic, open, backlog, outbox, arrivals, inputs>>
  BY DEF Ends
<1>4. peer \in [Desc -> Peer] /\ end \in Peer
  BY <1>1 DEF WorldTypes, Peer
<1>5. peer' \in [Desc -> Peer] /\ \A d \in Desc : peer'[d] = "up" <=> d # fd /\ peer[d] = "up"
  BY <1>2, <1>4
<1>6. inbox' \in [Desc -> Seq(ServerMessage)]
  <2>1. inbox \in [Desc -> Seq(ServerMessage)] /\ <<>> \in Seq(ServerMessage)
    BY <1>1 DEF WorldTypes
  <2> QED
    BY ONLY <1>3, <2>1
<1>7. client' \in [Desc -> Process]
  <2>1. client \in [Desc -> Process]
    BY <1>1 DEF WorldTypes
  <2> QED
    BY <1>3, <2>1
<1>8. WorldTypes'
  BY <1>1, <1>3, <1>5, <1>6, <1>7 DEF WorldTypes
<1> QED
  BY <1>3, <1>5, <1>8, ClientKeeps

LEMMA QuitsIInv ==
  ASSUME IInv, NEW fd \in Desc, ClientQuits(fd)
  PROVE  /\ IInv'
         /\ client' = [client EXCEPT ![fd] = [client[fd] EXCEPT !.phase = "exited"]]
         /\ inbox' = [inbox EXCEPT ![fd] = <<>>]
         /\ \A d \in Desc : peer'[d] = "up" <=> d # fd /\ peer[d] = "up"
<1>1. client[fd] \in Process /\ "exited" \in Phase
  BY DEF IInv, WorldTypes, Phase
<1>2. [client[fd] EXCEPT !.phase = "exited"] \in Process
  BY <1>1, PhaseChanges
<1> QED
  BY <1>2, EndsIInv DEF ClientQuits

(* What the client makes of the message it reads. *)
After(fd) ==
  IF client[fd].phase = "greet"
    THEN greet(client[fd], Head(inbox[fd]))
    ELSE process_server_command(client[fd], Head(inbox[fd]))

LEMMA ReadsIInv ==
  ASSUME IInv, NEW fd \in Desc, ClientReads(fd)
  PROVE  /\ IInv'
         /\ client' = [client EXCEPT ![fd] = After(fd)]
         /\ \/ /\ After(fd).phase \in {"exited", "crashed"}
               /\ inbox' = [inbox EXCEPT ![fd] = <<>>]
               /\ \A d \in Desc : peer'[d] = "up" <=> d # fd /\ peer[d] = "up"
            \/ /\ After(fd).phase \notin {"exited", "crashed"}
               /\ inbox' = [inbox EXCEPT ![fd] = Tail(@)]
               /\ peer' = peer
<1> DEFINE now == After(fd)
<1>1. WorldTypes
  BY DEF IInv
<1>2. inbox[fd] # <<>> /\ inbox[fd] \in Seq(ServerMessage) /\ client[fd] \in Process
  BY <1>1 DEF ClientReads, WorldTypes
<1>3. Head(inbox[fd]) \in ServerMessage /\ Tail(inbox[fd]) \in Seq(ServerMessage)
  BY <1>2, HeadTailProperties
<1>4. now \in Process
  BY <1>2, <1>3, MessageRead, GreetingRead DEF After
<1>5. IF now.phase \in {"exited", "crashed"}
        THEN Ends(fd, now)
        ELSE /\ client' = [client EXCEPT ![fd] = now]
             /\ inbox' = [inbox EXCEPT ![fd] = Tail(@)]
             /\ UNCHANGED <<server, fault, from_logic, open, backlog, peer, outbox,
                            arrivals, inputs>>
  BY DEF ClientReads, After
<1> HIDE DEF now
<1>6. CASE now.phase \in {"exited", "crashed"}
  <2>1. Ends(fd, now)
    BY <1>5, <1>6
  <2> QED
    BY <1>4, <1>6, <2>1, EndsIInv DEF now
<1>7. CASE now.phase \notin {"exited", "crashed"}
  <2>1. /\ client' = [client EXCEPT ![fd] = now]
        /\ inbox' = [inbox EXCEPT ![fd] = Tail(@)]
        /\ UNCHANGED <<server, fault, from_logic, open, backlog, peer, outbox, arrivals, inputs>>
    BY <1>5, <1>7
  <2>2. WorldTypes'
    <3>1. client' \in [Desc -> Process]
      <4>1. client \in [Desc -> Process]
        BY <1>1 DEF WorldTypes
      <4> QED
        BY <1>4, <2>1, <4>1
    <3>2. inbox' \in [Desc -> Seq(ServerMessage)]
      <4>1. inbox \in [Desc -> Seq(ServerMessage)]
        BY <1>1 DEF WorldTypes
      <4> QED
        BY <1>3, <2>1, <4>1
    <3> QED
      BY <1>1, <2>1, <3>1, <3>2 DEF WorldTypes
  <2>3. IInv'
    BY <2>1, <2>2, ClientKeeps
  <2> QED
    BY <1>7, <2>1, <2>3 DEF now
<1> QED
  BY <1>6, <1>7

LEMMA EndIsTyped == MSG_END \in Letters /\ MSG_END \in Typed
<1>1. MSG_END \in Letters
  BY DEF Letters
<1> QED
  BY <1>1 DEF Typed

(* The bytes of a name, or of a word, before they are framed. *)
LEMMA CreatedText ==
  ASSUME NEW code \in {"N_SEND_NAME", "N_SEND_WORD"}, NEW S \in SUBSET Typed,
         NEW value \in Seq(S), MSG_END \in S
  PROVE  LET text == create_msg(code, <<value>>)
         IN  /\ text \in Seq(Char)
             /\ text # <<>>
             /\ text[1] = code
             /\ \A i \in 2 .. Len(text) : text[i] \in S
<1> DEFINE k == Min({Len(value), ARG_LEN - 1})
           cut == Truncated(value)
           text == create_msg(code, <<value>>)
           C == S \cup {code}
<1>1. Len(value) \in Nat /\ ARG_LEN - 1 \in Nat
  BY NetworkAssumption, LenProperties
<1>2. k \in 0 .. Len(value)
  BY <1>1 DEF Min
<1>3. cut = SubSeq(value, 1, k)
  BY DEF Truncated
<1>4. cut \in Seq(S)
  <2>1. 1 \in Nat \ {0}
    OBVIOUS
  <2> HIDE DEF k, cut
  <2> QED
    BY <1>2, <1>3, <2>1, PartOfText
<1>5. text = <<code>> \o cut \o <<>> \o <<MSG_END>>
  BY DEF create_msg
<1>6. <<code>> \in Seq(C) /\ cut \in Seq(C) /\ <<MSG_END>> \in Seq(C)
  <2> HIDE DEF cut
  <2>1. \A i \in 1 .. Len(cut) : cut[i] \in C
    BY <1>4, ElementOfSeq
  <2> QED
    BY <1>4, <2>1
<1> HIDE DEF C, cut
<1> DEFINE front == <<code>> \o cut
<1>7. /\ front \in Seq(C) /\ Len(front) = 1 + Len(cut)
      /\ \A i \in 1 .. 1 + Len(cut) : front[i] = IF i <= 1 THEN <<code>>[i] ELSE cut[i - 1]
  BY <1>6, ConcatProperties
<1>8. front \o <<>> = front
  BY <1>7, ConcatEmptySeq
<1> HIDE DEF front
<1>9. text = front \o <<MSG_END>>
  BY <1>5, <1>8 DEF front
<1>10. Len(cut) \in Nat
  BY <1>4, LenProperties
<1>11. /\ text \in Seq(C) /\ Len(text) = 1 + Len(cut) + 1
       /\ \A i \in 1 .. 1 + Len(cut) + 1 :
            text[i] = IF i <= 1 + Len(cut) THEN front[i] ELSE <<MSG_END>>[i - (1 + Len(cut))]
  <2> DEFINE last == <<MSG_END>>
  <2>1. front \in Seq(C) /\ last \in Seq(C) /\ Len(last) = 1 /\ text = front \o last
    BY <1>6, <1>7, <1>9
  <2>2. Len(front) = 1 + Len(cut)
    BY <1>7
  <2> HIDE DEF last, text
  <2>3. /\ front \o last \in Seq(C)
        /\ Len(front \o last) = Len(front) + Len(last)
        /\ \A i \in 1 .. Len(front) + Len(last) :
             (front \o last)[i] = IF i <= Len(front) THEN front[i] ELSE last[i - Len(front)]
    BY <2>1, ConcatProperties
  <2>4. /\ text \in Seq(C)
        /\ Len(text) = 1 + Len(cut) + 1
        /\ \A i \in 1 .. 1 + Len(cut) + 1 :
             text[i] = IF i <= 1 + Len(cut) THEN front[i] ELSE last[i - (1 + Len(cut))]
    BY <2>1, <2>2, <2>3
  <2> QED
    BY <2>4 DEF last
<1> HIDE DEF text
<1>12. text[1] = code /\ text # <<>>
  <2>1. 1 \in 1 .. 1 + Len(cut) + 1 /\ 1 <= 1 + Len(cut) /\ 1 \in 1 .. 1 + Len(cut)
    BY <1>10
  <2>2. Len(text) # 0
    BY <1>10, <1>11
  <2> QED
    BY <1>7, <1>11, <2>1, <2>2
<1>13. ASSUME NEW i \in 2 .. Len(text) PROVE text[i] \in S
  <2>1. CASE i <= 1 + Len(cut)
    <3>1. i \in 1 .. 1 + Len(cut) /\ i \in 1 .. 1 + Len(cut) + 1 /\ ~(i <= 1) /\ i - 1 \in 1 .. Len(cut)
      BY <1>10, <2>1
    <3>2. text[i] = cut[i - 1]
      BY <1>7, <1>11, <2>1, <3>1
    <3> QED
      BY <1>4, <3>1, <3>2, ElementOfSeq
  <2>2. CASE ~(i <= 1 + Len(cut))
    <3>1. i = 1 + Len(cut) + 1 /\ i \in 1 .. 1 + Len(cut) + 1 /\ i - (1 + Len(cut)) = 1
      BY <1>10, <1>11, <2>2
    <3>2. text[i] = MSG_END
      BY <1>11, <2>2, <3>1
    <3> QED
      BY <3>2
  <2> QED
    BY <2>1, <2>2
<1>14. text \in Seq(Char)
  <2>1. C \subseteq Char
    BY DEF C, Char
  <2>2. \A i \in 1 .. Len(text) : text[i] \in Char
    BY <1>11, <2>1, ElementOfSeq
  <2> QED
    BY <1>11, <2>2
<1> QED
  BY <1>12, <1>13, <1>14 DEF text

LEMMA NamesIInv ==
  ASSUME IInv, NEW fd \in Desc, NEW name \in Name, ClientNames(fd, name)
  PROVE  /\ IInv'
         /\ client' = [client EXCEPT ![fd] = [client[fd] EXCEPT !.phase = "main"]]
         /\ UNCHANGED <<peer, inbox>>
<1> USE DEF server
<1>1. ServerTypes /\ WorldTypes /\ SomebodyWaits /\ SeatsAreCounted /\ SeatsAreOpen /\ OnTheWay
  BY DEF IInv
<1> DEFINE sent == create_msg("N_SEND_NAME", <<name>>)
           pieces == Framed(sent)
<1>2. /\ client' = [client EXCEPT ![fd] = [client[fd] EXCEPT !.phase = "main"]]
      /\ outbox' = [outbox EXCEPT ![fd] = @ \o pieces]
      /\ UNCHANGED <<server, fault, from_logic, open, backlog, peer, inbox, arrivals, inputs>>
  BY DEF ClientNames
<1>3. name \in Seq(Range(name)) /\ Plain(name)
  BY NetworkAssumption
<1>4. sent = Message("N_SEND_NAME", name) /\ pieces = <<sent>>
  <2>1. "N_SEND_NAME" \notin {MSG_END, MSG_VAL_SEP}
    BY DEF MSG_END, MSG_VAL_SEP
  <2> QED
    BY <1>3, <2>1, PlainComesThrough DEF Message
<1>5. /\ sent \in Seq(Char) /\ sent # <<>> /\ sent[1] = "N_SEND_NAME"
      /\ \A i \in 2 .. Len(sent) : sent[i] \in Typed
  <2>1. Typed \in SUBSET Typed /\ MSG_END \in Typed /\ name \in Seq(Typed)
    <3>1. MSG_END \in Typed
      BY EndIsTyped
    <3>2. name \in Seq(Typed)
      BY NamesAreText DEF Text
    <3> QED
      BY <3>1, <3>2
  <2> QED
    BY <2>1, CreatedText
<1>6. sent[Len(sent)] = MSG_END
  <2> DEFINE front == <<"N_SEND_NAME">> \o name
  <2>1. <<"N_SEND_NAME">> \in Seq(Char) /\ name \in Seq(Char)
    <3>1. name \in Text
      BY NamesAreText
    <3>2. name \in Seq(Typed) /\ \A i \in 1 .. Len(name) : name[i] \in Char
      BY <3>1, ElementOfSeq DEF Text, Char
    <3> QED
      BY <3>2 DEF Char
  <2>2. front \in Seq(Char) /\ Len(front) \in Nat
    BY <2>1, ConcatProperties, LenProperties
  <2>3. MSG_END \in Char
    BY EndIsTyped DEF Char
  <2>4. sent = front \o <<MSG_END>>
    BY <1>4 DEF Message
  <2> HIDE DEF front, sent
  <2>5. <<MSG_END>> \in Seq(Char) /\ Len(<<MSG_END>>) = 1 /\ <<MSG_END>>[1] = MSG_END
    BY <2>3
  <2>6. /\ Len(sent) = Len(front) + 1
        /\ \A i \in 1 .. Len(front) + 1 :
             sent[i] = IF i <= Len(front) THEN front[i] ELSE <<MSG_END>>[i - Len(front)]
    BY <2>2, <2>4, <2>5, ConcatProperties
  <2>7. Len(front) + 1 \in 1 .. Len(front) + 1 /\ ~(Len(front) + 1 <= Len(front))
        /\ Len(front) + 1 - Len(front) = 1
    BY <2>2
  <2> QED
    BY <2>5, <2>6, <2>7
<1> HIDE DEF sent, pieces
<1>7. WellSent(fd, sent)
  BY <1>4, <1>5, <1>6 DEF WellSent
<1>8. pieces \in Seq(Seq(Char)) /\ \A i \in 1 .. Len(pieces) : WellSent(fd, pieces[i])
  BY <1>4, <1>5, <1>7
<1>9. \A i \in 1 .. Len(pieces) : WellSent(fd, pieces[i])'
  BY <1>2, <1>8 DEF WellSent, TypedBy, pieces
<1>10. OnTheWay'
  BY <1>1, <1>2, <1>8, <1>9, OutboxWritten
<1>11. ServerTypes'
  BY <1>1, <1>2 DEF ServerTypes
<1>12. WorldTypes'
  <2>1. client[fd] \in Process /\ client \in [Desc -> Process] /\ "main" \in Phase
    BY <1>1 DEF WorldTypes, Phase
  <2>2. [client[fd] EXCEPT !.phase = "main"] \in Process
    BY <2>1, PhaseChanges
  <2>3. client' \in [Desc -> Process]
    BY <1>2, <2>1, <2>2
  <2> QED
    BY <1>1, <1>2, <2>3 DEF WorldTypes
<1>13. SomebodyWaits'
  BY <1>1, <1>2 DEF SomebodyWaits
<1>14. SeatsAreCounted' /\ SeatsAreOpen'
  BY <1>1, <1>2, SeatsKept
<1> QED
  BY <1>2, <1>10, <1>11, <1>12, <1>13, <1>14 DEF IInv

LEMMA TypesIInv ==
  ASSUME IInv, NEW fd \in Desc, NEW word \in Word, ClientTypes(fd, word)
  PROVE  IInv'
<1> USE DEF server
<1>1. ServerTypes /\ WorldTypes /\ SomebodyWaits /\ SeatsAreCounted /\ SeatsAreOpen /\ OnTheWay
  BY DEF IInv
<1> DEFINE sent == create_msg("N_SEND_WORD", <<word>>)
           pieces == Framed(sent)
<1>2. /\ outbox' = [outbox EXCEPT ![fd] = @ \o pieces]
      /\ inputs' = inputs \cup {<<"N_SEND_WORD", fd, word>>}
      /\ UNCHANGED <<server, fault, from_logic, open, backlog, peer, inbox, client, arrivals>>
  BY DEF ClientTypes, NewInput
<1>3. word \in Seq(Range(word))
  BY NetworkAssumption
<1>4. word \in Seq(Letters) /\ Letters \in SUBSET Typed /\ MSG_END \in Letters
  <2>1. Range(word) \subseteq Letters
    BY DEF Letters
  <2>2. \A i \in 1 .. Len(word) : word[i] \in Letters
    BY <1>3, <2>1, ElementOfSeq
  <2>3. word \in Seq(Letters)
    BY <1>3, <2>2
  <2> QED
    BY <2>3, EndIsTyped DEF Typed
<1>5. /\ sent \in Seq(Char) /\ sent # <<>> /\ sent[1] = "N_SEND_WORD"
      /\ \A i \in 2 .. Len(sent) : sent[i] \in Letters
  BY <1>4, CreatedText
<1>6. Plain(word) => sent = Message("N_SEND_WORD", word) /\ pieces = <<sent>>
  <2>1. "N_SEND_WORD" \notin {MSG_END, MSG_VAL_SEP}
    BY DEF MSG_END, MSG_VAL_SEP
  <2> QED
    BY <1>3, <2>1, PlainComesThrough DEF Message
<1>7. word \in TypedBy(fd)'
  BY <1>2 DEF TypedBy
<1> HIDE DEF sent
<1>8. \A i \in 1 .. Len(pieces) :
        \E a, b \in 1 .. Len(sent) :
          /\ pieces[i] = SubSeq(sent, a, b)
          /\ a <= b
          /\ sent[b] = MSG_END
          /\ i = 1 => a = 1
          /\ i # 1 => a > 1
  BY <1>5, FramedParts
<1> HIDE DEF pieces
<1>9. ASSUME NEW i \in 1 .. Len(pieces)
      PROVE  /\ pieces[i] \in Seq(Char) /\ pieces[i] # <<>>
             /\ \A j \in 2 .. Len(pieces[i]) : pieces[i][j] \in Typed
             /\ pieces[i][Len(pieces[i])] = MSG_END
             /\ pieces[i][1] # "N_SEND_NAME"
             /\ pieces[i][1] = "N_SEND_WORD" => i = 1
  <2>1. PICK a, b \in 1 .. Len(sent) :
          /\ pieces[i] = SubSeq(sent, a, b)
          /\ a <= b
          /\ sent[b] = MSG_END
          /\ i = 1 => a = 1
          /\ i # 1 => a > 1
    BY <1>8
  <2> DEFINE m == pieces[i]
  <2>2. Len(sent) \in Nat
    BY <1>5, LenProperties
  <2>3. /\ m \in Seq(Char)
        /\ Len(m) = b - a + 1
        /\ \A j \in 1 .. Len(m) : m[j] = sent[a + j - 1]
    <3>1. a \in Nat \ {0} /\ b \in 0 .. Len(sent)
      BY <2>2
    <3>2. /\ m \in Seq(Char)
          /\ Len(m) = IF a <= b THEN b - a + 1 ELSE 0
          /\ \A j \in 1 .. Len(m) : m[j] = sent[a + j - 1]
      BY <1>5, <2>1, <3>1, PartOfText
    <3> QED
      BY <2>1, <3>2
  <2> HIDE DEF m
  <2>4. Len(m) \in Nat \ {0} /\ m # <<>>
    <3>1. Len(m) # 0
      BY <2>1, <2>2, <2>3
    <3> QED
      BY <2>3, <3>1, LenProperties
  <2>5. ASSUME NEW j \in 2 .. Len(m) PROVE m[j] \in Typed
    <3>1. a + j - 1 \in 2 .. Len(sent) /\ j \in 1 .. Len(m)
      BY <2>1, <2>2, <2>3
    <3>2. sent[a + j - 1] \in Letters
      BY <1>5, <3>1
    <3> QED
      BY <1>4, <2>3, <3>1, <3>2
  <2>6. m[Len(m)] = MSG_END
    <3>1. Len(m) \in 1 .. Len(m) /\ a + Len(m) - 1 = b
      BY <2>2, <2>3, <2>4
    <3> QED
      BY <2>1, <2>3, <3>1
  <2>7. m[1] = sent[a]
    <3>1. 1 \in 1 .. Len(m) /\ a + 1 - 1 = a
      BY <2>2, <2>4
    <3> QED
      BY <2>3, <3>1
  <2>8. a = 1 => m[1] = "N_SEND_WORD" /\ i = 1
    BY <1>5, <2>1, <2>7
  <2>9. a # 1 => m[1] \in Letters
    <3>1. a # 1 => a \in 2 .. Len(sent)
      BY <2>2
    <3> QED
      BY <1>5, <2>7, <3>1
  <2>10. m[1] # "N_SEND_NAME" /\ (m[1] = "N_SEND_WORD" => i = 1)
    BY <2>8, <2>9, NetworkAssumption
  <2> QED
    BY <2>3, <2>4, <2>5, <2>6, <2>10 DEF m
<1>10. \A i \in 1 .. Len(pieces) : WellSent(fd, pieces[i])'
  <2>1. TAKE i \in 1 .. Len(pieces)
  <2>2. pieces[i][1] = "N_SEND_WORD" => ~Plain(word) \/ pieces[i] = Message("N_SEND_WORD", word)
    BY <1>6, <1>9
  <2>3. UNCHANGED <<pieces, sent>>
    BY DEF pieces, sent
  <2> QED
    BY <1>7, <1>9, <2>2, <2>3 DEF WellSent
<1>11. pieces \in Seq(Seq(Char))
  <2>1. \A i \in 1 .. Len(pieces) : pieces[i] \in Seq(Char)
    BY <1>9
  <2>2. pieces = [i \in 1 .. Len(PlacesIn(sent, {MSG_END})) |->
                    SubSeq(sent, (IF i = 1 THEN 0 ELSE PlacesIn(sent, {MSG_END})[i - 1]) + 1,
                           PlacesIn(sent, {MSG_END})[i])]
    BY DEF pieces, Framed
  <2>3. Len(PlacesIn(sent, {MSG_END})) \in Nat
    BY <1>5, PlacesAreInOrder, LenProperties
  <2> DEFINE n == Len(PlacesIn(sent, {MSG_END}))
  <2>4. DOMAIN pieces = 1 .. n /\ pieces = [i \in 1 .. n |-> pieces[i]]
    BY <2>2
  <2> HIDE DEF n
  <2>5. n \in Nat
    BY <2>3 DEF n
  <2>6. Len(pieces) = n
    BY <2>4, <2>5
  <2> QED
    BY <2>1, <2>4, <2>5, <2>6
<1>12. OnTheWay'
  <2>1. inputs \subseteq inputs'
    BY <1>2
  <2> QED
    BY <1>1, <1>2, <1>10, <1>11, <2>1, OutboxWritten
<1>13. ServerTypes'
  BY <1>1, <1>2 DEF ServerTypes
<1>14. WorldTypes'
  BY <1>1, <1>2 DEF WorldTypes
<1>15. SomebodyWaits'
  BY <1>1, <1>2 DEF SomebodyWaits
<1>16. SeatsAreCounted' /\ SeatsAreOpen'
  BY <1>1, <1>2, SeatsKept
<1> QED
  BY <1>12, <1>13, <1>14, <1>15, <1>16 DEF IInv

(* Every step keeps the invariant. *)
LEMMA NextIInv == IInv /\ [Next]_vars => IInv'
<1> SUFFICES ASSUME IInv, [Next]_vars PROVE IInv'
  OBVIOUS
<1>1. CASE NetworkThread
  <2>1. CASE Select \/ SelectFails \/ ThreadDone \/ ClientsDone
    BY <2>1, LoopIInv
  <2>2. CASE process_thread_command
    BY <2>2, RelayIInv
  <2>3. CASE LetIn
    BY <2>3, LetInIInv
  <2>4. CASE TurnAway
    BY <2>4, TurnAwayIInv
  <2>5. ASSUME NEW fd \in Desc, NameCommand(fd) PROVE IInv'
    BY <2>5, NameIInv
  <2>6. ASSUME NEW fd \in Desc, WordCommand(fd) \/ UnknownCommand(fd) PROVE IInv'
    BY <2>6, WordIInv
  <2>7. ASSUME NEW fd \in Desc, RecvFails(fd) PROVE IInv'
    BY <2>7, RecvFailsIInv
  <2>8. ASSUME NEW fd \in Desc, Disconnect(fd) PROVE IInv'
    BY <2>8, DisconnectIInv
  <2> QED
    BY <1>1, <2>1, <2>2, <2>3, <2>4, <2>5, <2>6, <2>7, <2>8 DEF NetworkThread
<1>2. CASE World
  <2>1. CASE Connect
    BY <2>1, ConnectIInv
  <2>2. ASSUME NEW msg \in LogicMessage, LogicCommand(msg) PROVE IInv'
    BY <2>2, LogicIInv
  <2>3. ASSUME NEW fd \in Desc, ClientQuits(fd) PROVE IInv'
    BY <2>3, QuitsIInv
  <2>4. ASSUME NEW fd \in Desc, ClientReads(fd) PROVE IInv'
    BY <2>4, ReadsIInv
  <2>5. ASSUME NEW fd \in Desc, NEW name \in Name, ClientNames(fd, name) PROVE IInv'
    BY <2>5, NamesIInv
  <2>6. ASSUME NEW fd \in Desc, NEW word \in Word, ClientTypes(fd, word) PROVE IInv'
    BY <2>6, TypesIInv
  <2>7. /\ <<"N_GAME">> \in LogicMessage
        /\ \A fd \in open : <<"T_GAME_STARTED_NO_JOINING", fd>> \in LogicMessage
    BY DEF LogicMessage, IInv, ServerTypes
  <2> QED
    BY <1>2, <2>1, <2>2, <2>3, <2>4, <2>5, <2>6, <2>7 DEF World
<1>3. CASE UNCHANGED vars
  BY <1>3, StutterIInv
<1> QED
  BY <1>1, <1>2, <1>3 DEF Next

LEMMA AlwaysIInv == Spec => []IInv
BY InitIInv, NextIInv, PTL DEF Spec

----------------------------------------------------------------------------
(* What follows from it *)

(* Every variable has its type, whatever descriptors, names and words      *)
(* there are: no entry of the list ever holds a socket that accept() did   *)
(* not give, nor recv_str a byte that nobody typed.                        *)
THEOREM TypeCorrect == Spec => []TypeOK
<1>1. IInv => TypeOK
  <2> SUFFICES ASSUME IInv PROVE TypeOK
    OBVIOUS
  <2>1. ServerTypes /\ WorldTypes /\ SeatsAreCounted
    BY DEF IInv
  <2>2. client_count \in 0 .. MAX_CLIENT_COUNT
    <3>1. client_count = Len(clients) /\ Len(clients) \in Nat /\ client_count <= MAX_CLIENT_COUNT
      BY <2>1, ListedClients DEF SeatsAreCounted, ServerTypes
    <3> QED
      BY <3>1, NetworkAssumption
  <2>3. master \subseteq Desc
    <3>1. Socks(clients) \subseteq Desc
      BY <2>1, ListedClients DEF Socks
    <3> QED
      BY <2>1, <3>1 DEF SeatsAreCounted
  <2>4. backlog \in 0 .. MaxArrivals
    <3>1. arrivals \in 0 .. MaxArrivals /\ backlog \in 0 .. arrivals /\ MaxArrivals \in Nat
      BY <2>1, NetworkAssumption DEF WorldTypes
    <3> QED
      BY <3>1
  <2>5. \A fd \in Desc : client[fd].phase \in Phase
    BY <2>1 DEF WorldTypes, Process
  <2>6. recv_str \in Seq(Letters \cup UNION {Range(name) : name \in Name})
    BY <2>1 DEF ServerTypes, Text, Typed
  <2> QED
    BY <2>1, <2>2, <2>3, <2>4, <2>5, <2>6 DEF TypeOK, ServerTypes, WorldTypes
<1> QED
  BY <1>1, AlwaysIInv, PTL

(* The number of clients, the list of them and the set select() watches    *)
(* agree through every accept and departure, for any number of seats and   *)
(* of descriptors.                                                         *)
THEOREM SeatsCounted == Spec => []SeatsAreCounted
<1>1. IInv => SeatsAreCounted
  BY DEF IInv
<1> QED
  BY <1>1, AlwaysIInv, PTL

----------------------------------------------------------------------------
(* What the logic thread is told *)

LEMMA SocksInOrder ==
  ASSUME NEW R, NEW list \in Seq(R)
  PROVE  LET socks == SockSeq(list)
             S == {list[i].sock : i \in 1 .. Len(list)}
         IN  /\ socks \in Seq(S) /\ Len(socks) = Len(list)
             /\ \A i \in 1 .. Len(list) : socks[i] = list[i].sock
<1> DEFINE n == Len(list)
           S == {list[i].sock : i \in 1 .. n}
           socks == SockSeq(list)
<1>1. n \in Nat
  BY LenProperties
<1>2. socks = [i \in 1 .. n |-> list[i].sock] /\ \A i \in 1 .. n : list[i].sock \in S
  BY DEF SockSeq
<1> HIDE DEF n, S, socks
<1>3. socks \in Seq(S) /\ Len(socks) = n /\ \A i \in 1 .. n : socks[i] = list[i].sock
  BY <1>1, <1>2
<1> QED
  BY <1>3 DEF n, S, socks

LEMMA SocksOfLonger ==
  ASSUME NEW R, NEW list \in Seq(R), NEW new \in R
  PROVE  SockSeq(Append(list, new)) = Append(SockSeq(list), new.sock)
<1> DEFINE n == Len(list)
           S == {list[i].sock : i \in 1 .. n} \cup {new.sock}
           longer == Append(list, new)
           socks == SockSeq(list)
           told == Append(socks, new.sock)
<1>1. /\ longer \in Seq(R) /\ Len(longer) = n + 1 /\ n \in Nat
      /\ \A i \in 1 .. n : longer[i] = list[i]
      /\ longer[n + 1] = new
  BY AppendProperties, LenProperties
<1>2. socks \in Seq(S) /\ Len(socks) = n /\ \A i \in 1 .. n : socks[i] = list[i].sock
  <2>1. /\ socks \in Seq({list[i].sock : i \in 1 .. n}) /\ Len(socks) = n
        /\ \A i \in 1 .. n : socks[i] = list[i].sock
    BY SocksInOrder
  <2>2. \A i \in 1 .. Len(socks) : socks[i] \in S
    BY <2>1
  <2> QED
    BY <2>1, <2>2
<1>3. new.sock \in S
  OBVIOUS
<1> HIDE DEF S, socks
<1>4. /\ Len(told) = n + 1
      /\ \A i \in 1 .. n : told[i] = list[i].sock
      /\ told[n + 1] = new.sock
      /\ told \in Seq(S)
  BY <1>1, <1>2, <1>3, AppendProperties
<1> HIDE DEF longer, told
<1>5. /\ Len(SockSeq(longer)) = n + 1
      /\ \A i \in 1 .. n + 1 : SockSeq(longer)[i] = longer[i].sock
      /\ SockSeq(longer) \in Seq({longer[i].sock : i \in 1 .. Len(longer)})
  BY <1>1, SocksInOrder
<1>6. \A i \in 1 .. n + 1 : SockSeq(longer)[i] = told[i]
  <2>1. TAKE i \in 1 .. n + 1
  <2>2. i \in 1 .. n \/ i = n + 1
    BY <1>1
  <2> QED
    BY <1>1, <1>4, <1>5, <2>2
<1>7. SockSeq(longer) = told
  BY <1>4, <1>5, <1>6, SeqEqual
<1> QED
  BY <1>7 DEF longer, told, socks

(* To take the first entry of a socket out of the list is to take the      *)
(* first of its number out of the numbers.                                 *)
LEMMA SocksOfShorter ==
  ASSUME NEW R, NEW list \in Seq(R), NEW p \in 1 .. Len(list),
         \A j \in 1 .. Len(list) : list[j].sock = list[p].sock => p <= j
  PROVE  SockSeq(RemoveAt(list, p)) = RemoveFirst(SockSeq(list), list[p].sock)
<1> DEFINE n == Len(list)
           S == {list[i].sock : i \in 1 .. n}
           socks == SockSeq(list)
           sock == list[p].sock
           shorter == RemoveAt(list, p)
           told == RemoveAt(socks, p)
<1>1. n \in Nat
  BY LenProperties
<1>2. socks \in Seq(S) /\ Len(socks) = n /\ \A i \in 1 .. n : socks[i] = list[i].sock
  BY SocksInOrder
<1>3. /\ shorter \in Seq(R) /\ Len(shorter) = n - 1
      /\ \A k \in 1 .. n - 1 : shorter[k] = list[IF k < p THEN k ELSE k + 1]
  BY OneLess
<1> HIDE DEF S, socks
<1>4. /\ told \in Seq(S) /\ Len(told) = n - 1
      /\ \A k \in 1 .. n - 1 : told[k] = socks[IF k < p THEN k ELSE k + 1]
  <2>1. p \in 1 .. Len(socks)
    BY <1>2
  <2>2. /\ RemoveAt(socks, p) \in Seq(S) /\ Len(RemoveAt(socks, p)) = Len(socks) - 1
        /\ \A k \in 1 .. Len(socks) - 1 : RemoveAt(socks, p)[k] = socks[IF k < p THEN k ELSE k + 1]
    BY <1>2, <2>1, OneLess
  <2> QED
    BY <1>2, <2>2
<1>5. RemoveFirst(socks, sock) = told
  <2> DEFINE I == {i \in 1 .. Len(socks) : socks[i] = sock}
  <2>1. p \in I /\ \A j \in I : p <= j
    BY <1>2
  <2>2. \A x \in I : (\A y \in I : x <= y) => x = p
    <3>1. I \subseteq Nat
      BY <1>1, <1>2
    <3> HIDE DEF I
    <3>2. TAKE x \in I
    <3>3. HAVE \A y \in I : x <= y
    <3>4. x <= p /\ p <= x /\ x \in Nat /\ p \in Nat
      BY <2>1, <3>1, <3>2, <3>3
    <3> QED
      BY <3>4
  <2>3. Min(I) = p
    <3> HIDE DEF I
    <3> QED
      BY <2>1, <2>2 DEF Min
  <2>4. SelectInSeq(socks, LAMBDA v : v = sock) = p
    BY <2>1, <2>3 DEF SelectInSeq
  <2>5. \E i \in 1 .. Len(socks) : socks[i] = sock
    BY <2>1
  <2> QED
    BY <2>4, <2>5 DEF RemoveFirst
<1> HIDE DEF shorter, told
<1>6. /\ Len(SockSeq(shorter)) = n - 1
      /\ \A i \in 1 .. n - 1 : SockSeq(shorter)[i] = shorter[i].sock
      /\ SockSeq(shorter) \in Seq({shorter[i].sock : i \in 1 .. Len(shorter)})
  BY <1>3, SocksInOrder
<1>7. \A i \in 1 .. n - 1 : SockSeq(shorter)[i] = told[i]
  <2>1. TAKE i \in 1 .. n - 1
  <2>2. (IF i < p THEN i ELSE i + 1) \in 1 .. n
    BY <1>1
  <2> QED
    BY <1>2, <1>3, <1>4, <1>6, <2>2
<1>8. SockSeq(shorter) = told
  BY <1>4, <1>6, <1>7, SeqEqual, SMTT(30)
<1> QED
  BY <1>5, <1>8 DEF shorter, socks

LEMMA SocksOfRenamed ==
  ASSUME NEW R, NEW list \in Seq([sock : Desc, name : R]), NEW p \in 1 .. Len(list), NEW name
  PROVE  SockSeq([list EXCEPT ![p].name = name]) = SockSeq(list)
<1> DEFINE renamed == [list EXCEPT ![p].name = name]
           n == Len(list)
<1>1. n \in Nat /\ DOMAIN list = 1 .. n /\ \A i \in 1 .. n : list[i] \in [sock : Desc, name : R]
  BY LenProperties, ElementOfSeq
<1>2. \A i \in 1 .. n : renamed[i].sock = list[i].sock
  BY <1>1
<1>3. Len(renamed) = n
  BY <1>1
<1> HIDE DEF renamed
<1> QED
  BY <1>2, <1>3 DEF SockSeq, renamed

(* Of what becomes of the list the logic thread is told, in one message at *)
(* a time: it has the same players in the same order.                      *)
Told ==
  IF enqueued' = <<>>
    THEN SockSeq(clients') = SockSeq(clients)
    ELSE /\ Len(enqueued') = 1
         /\ SockSeq(clients') = LogicTold(SockSeq(clients), enqueued'[1])

(* The logic thread learns of every client let in and of every departure,  *)
(* one at a time and in order, whatever the clients do: what it was sent   *)
(* is enough to rebuild the networking thread's list.                      *)
THEOREM LogicFollows == Spec => LogicCanFollow
<1>1. IInv /\ [Next]_vars => [Told]_vars
  <2> SUFFICES ASSUME IInv, [Next]_vars, ~UNCHANGED vars PROVE Told
    OBVIOUS
  <2> USE DEF server, kernel, people
  <2> DEFINE R == [sock : Desc, name : Name \cup {<<>>}]
  <2>1. ServerTypes /\ clients \in Seq(R)
    BY DEF IInv, ServerTypes
  <2>2. ASSUME enqueued' = <<>>, clients' = clients PROVE Told
    BY <2>2 DEF Told
  <2>3. ASSUME NEW batch, NEW ends, SendKills(batch, ends) PROVE Told
    BY <2>2, <2>3 DEF SendKills
  <2>4. CASE Select \/ SelectFails \/ ThreadDone \/ ClientsDone
    BY <2>2, <2>4 DEF Select, SelectFails, ThreadDone, ClientsDone
  <2>5. CASE process_thread_command
    BY <2>2, <2>3, <2>5 DEF process_thread_command
  <2>6. CASE LetIn
    <3> DEFINE w == wait_for_client
               new == [sock |-> w, name |-> <<>>]
    <3>1. new \in R
      BY <2>1, AcceptGives
    <3>2. CASE /\ clients' = create_client_data(w)
               /\ enqueued' = << <<"T_PLAYER_JOIN", w>> >>
      <4>1. SockSeq(create_client_data(w)) = Append(SockSeq(clients), new.sock)
        <5> HIDE DEF w, R
        <5> QED
          BY <2>1, <3>1, SocksOfLonger DEF create_client_data
      <4>2. LogicTold(SockSeq(clients), <<"T_PLAYER_JOIN", w>>) = Append(SockSeq(clients), w)
        BY DEF LogicTold
      <4>3. enqueued' # <<>> /\ Len(enqueued') = 1 /\ enqueued'[1] = <<"T_PLAYER_JOIN", w>>
        BY <3>2
      <4> HIDE DEF w
      <4> QED
        BY <3>2, <4>1, <4>2, <4>3 DEF Told
    <3> QED
      BY <2>3, <2>6, <3>2 DEF LetIn
  <2>7. CASE TurnAway
    BY <2>2, <2>7 DEF TurnAway
  <2>8. ASSUME NEW fd \in Desc, NameCommand(fd) PROVE Told
    <3> DEFINE p == FirstPlace(fd)
               name == Parsed(fd)
    <3>1. p \in 1 .. Len(clients)
      BY <2>1, <2>8, ServedClient, FirstPlaceOf DEF NameCommand, Command
    <3>2. SockSeq([clients EXCEPT ![p].name = name]) = SockSeq(clients)
      <4> HIDE DEF p, name
      <4> QED
        BY <2>1, <3>1, SocksOfRenamed
    <3>3. \/ clients' = [clients EXCEPT ![p].name = name] /\ enqueued' = <<>>
          \/ \E batch, ends : SendKills(batch, ends)
      BY <2>8 DEF NameCommand
    <3> HIDE DEF p, name
    <3> QED
      BY <2>3, <3>2, <3>3 DEF Told
  <2>9. ASSUME NEW fd \in Desc, WordCommand(fd) PROVE Told
    <3> DEFINE word == Parsed(fd)
    <3>1. enqueued' = << <<"T_SEND_WORD", fd, word>> >> /\ clients' = clients
      BY <2>9 DEF WordCommand
    <3> HIDE DEF word
    <3>2. LogicTold(SockSeq(clients), <<"T_SEND_WORD", fd, word>>) = SockSeq(clients)
      BY DEF LogicTold
    <3>3. enqueued' # <<>> /\ Len(enqueued') = 1 /\ enqueued'[1] = <<"T_SEND_WORD", fd, word>>
      BY <3>1
    <3> QED
      BY <3>1, <3>2, <3>3 DEF Told
  <2>10. ASSUME NEW fd \in Desc, UnknownCommand(fd) \/ RecvFails(fd) PROVE Told
    BY <2>2, <2>10 DEF UnknownCommand, RecvFails
  <2>11. ASSUME NEW fd \in Desc, Disconnect(fd) PROVE Told
    <3> DEFINE p == FirstPlace(fd)
    <3>1. /\ p \in 1 .. Len(clients) /\ clients[p].sock = fd
          /\ \A j \in 1 .. Len(clients) : clients[j].sock = fd => p <= j
      BY <2>1, <2>11, ServedClient, FirstPlaceOf DEF Disconnect
    <3>2. SockSeq(RemoveAt(clients, p)) = RemoveFirst(SockSeq(clients), fd)
      <4> HIDE DEF p, R
      <4> QED
        BY <2>1, <3>1, SocksOfShorter
    <3>3. \/ clients' = RemoveAt(clients, p) /\ enqueued' = << <<"T_PLAYER_LEFT", fd>> >>
          \/ \E batch, ends : SendKills(batch, ends)
      BY <2>11 DEF Disconnect, remove_client_data, LeftMessages
    <3>4. LogicTold(SockSeq(clients), <<"T_PLAYER_LEFT", fd>>) = RemoveFirst(SockSeq(clients), fd)
      BY DEF LogicTold
    <3> HIDE DEF p
    <3>5. CASE clients' = RemoveAt(clients, p) /\ enqueued' = << <<"T_PLAYER_LEFT", fd>> >>
      <4>1. enqueued' # <<>> /\ Len(enqueued') = 1 /\ enqueued'[1] = <<"T_PLAYER_LEFT", fd>>
        BY <3>5
      <4> QED
        BY <3>2, <3>4, <3>5, <4>1 DEF Told
    <3> QED
      BY <2>3, <3>3, <3>5
  <2>12. CASE World
    BY <2>2, <2>12 DEF World, Connect, LogicCommand, ClientQuits, ClientReads, ClientNames,
                       ClientTypes, Ends
  <2> QED
    BY <2>4, <2>5, <2>6, <2>7, <2>8, <2>9, <2>10, <2>11, <2>12 DEF Next, NetworkThread
<1>2. LogicCanFollow <=> [][Told]_vars
  BY DEF LogicCanFollow, Told
<1> QED
  BY <1>1, <1>2, AlwaysIInv, PTL DEF Spec

(* What the logic thread is told to be somebody's word is one. *)
Claimed ==
  \A k \in 1 .. Len(enqueued') :
    enqueued'[k][1] = "T_SEND_WORD" =>
      LET typed == TypedBy(enqueued'[k][2])
      IN  enqueued'[k][3] \in typed \/ \E word \in typed : ~Plain(word)

(* A word is given to the game under the number of the player who typed    *)
(* it, though all of them go through the one static recv_str, and however  *)
(* their bytes and departures interleave: but for what a player brings on  *)
(* itself with a word too long or with a character that ends a value.      *)
THEOREM WordsFromTheirSenders == Spec => WordsAreTheirSenders
<1>1. IInv /\ [Next]_vars => [Claimed]_vars
  <2> SUFFICES ASSUME IInv, [Next]_vars, ~UNCHANGED vars PROVE Claimed
    OBVIOUS
  <2>1. ServerTypes /\ OnTheWay
    BY DEF IInv
  <2>2. ASSUME enqueued' = <<>> PROVE Claimed
    BY <2>2 DEF Claimed
  <2>3. ASSUME NEW code, NEW fd, code # "T_SEND_WORD", enqueued' = << <<code, fd>> >> PROVE Claimed
    <3>1. \A k \in 1 .. Len(enqueued') : enqueued'[k] = <<code, fd>>
      BY <2>3
    <3> QED
      BY <2>3, <3>1 DEF Claimed
  <2>4. ASSUME NEW batch, NEW ends, SendKills(batch, ends) PROVE Claimed
    BY <2>2, <2>4 DEF SendKills
  <2>5. CASE Select \/ SelectFails \/ ThreadDone \/ ClientsDone \/ TurnAway
    BY <2>2, <2>5 DEF Select, SelectFails, ThreadDone, ClientsDone, TurnAway
  <2>6. CASE process_thread_command
    BY <2>2, <2>4, <2>6 DEF process_thread_command
  <2>7. CASE LetIn
    BY <2>3, <2>4, <2>7 DEF LetIn
  <2>8. ASSUME NEW fd \in Desc, WordCommand(fd) PROVE Claimed
    <3> DEFINE word == Parsed(fd)
    <3>1. /\ enqueued' = << <<"T_SEND_WORD", fd, word>> >>
          /\ \A k \in 1 .. Len(enqueued') : enqueued'[k] = <<"T_SEND_WORD", fd, word>>
      BY <2>8 DEF WordCommand
    <3>2. \E typed \in TypedBy(fd) : ~Plain(typed) \/ word = typed
      BY <2>1, <2>8, WhatIsParsed DEF WordCommand, Command
    <3> HIDE DEF word
    <3> QED
      BY <3>1, <3>2 DEF Claimed
  <2>9. ASSUME NEW fd \in Desc, NameCommand(fd) \/ UnknownCommand(fd) \/ RecvFails(fd) PROVE Claimed
    BY <2>2, <2>4, <2>9 DEF NameCommand, UnknownCommand, RecvFails
  <2>10. ASSUME NEW fd \in Desc, Disconnect(fd) PROVE Claimed
    BY <2>3, <2>4, <2>10 DEF Disconnect, LeftMessages
  <2>11. CASE World
    BY <2>2, <2>11 DEF World, Connect, LogicCommand, ClientQuits, ClientReads, ClientNames,
                       ClientTypes, Ends
  <2> QED
    BY <2>5, <2>6, <2>7, <2>8, <2>9, <2>10, <2>11 DEF Next, NetworkThread
<1>2. WordsAreTheirSenders <=> [][Claimed]_vars
  BY DEF WordsAreTheirSenders, Claimed
<1> QED
  BY <1>1, <1>2, AlwaysIInv, PTL DEF Spec

----------------------------------------------------------------------------
(* No client is told of somebody it does not know *)

LEMMA TallyType ==
  ASSUME NEW cl \in Process, NEW q \in Seq(ServerMessage), NEW id, NEW k \in Nat
  PROVE  /\ IsFiniteSet(Joins(q, id, k)) /\ Cardinality(Joins(q, id, k)) \in Nat
         /\ IsFiniteSet(Leaves(q, id, k)) /\ Cardinality(Leaves(q, id, k)) \in Nat
         /\ Tally(cl, q, id, k) \in Int
<1>1. CASE k = 0
  <2>1. Joins(q, id, k) = {} /\ Leaves(q, id, k) = {}
    BY <1>1 DEF Joins, Leaves
  <2> QED
    BY <2>1, FS_EmptySet, TimesType DEF Tally, Times
<1>2. CASE k # 0
  <2>1. k - 1 \in Nat
    BY <1>2
  <2>2. Joins(q, id, k) \in SUBSET (1 .. k - 1) /\ Leaves(q, id, k) \in SUBSET (1 .. k - 1)
    BY DEF Joins, Leaves
  <2>3. /\ IsFiniteSet(Joins(q, id, k)) /\ Cardinality(Joins(q, id, k)) \in Nat
        /\ IsFiniteSet(Leaves(q, id, k)) /\ Cardinality(Leaves(q, id, k)) \in Nat
    BY <2>1, <2>2, BelowFinite
  <2> QED
    BY <2>3, TimesType DEF Tally, Times
<1> QED
  BY <1>1, <1>2

LEMMA TallyFirst ==
  ASSUME NEW cl \in Process, NEW q, NEW id
  PROVE  Tally(cl, q, id, 1) = Times(cl, id)
<1>1. Joins(q, id, 1) = {} /\ Leaves(q, id, 1) = {}
  BY DEF Joins, Leaves
<1> QED
  BY <1>1, FS_EmptySet, TimesType DEF Tally, Times

(* One message more. *)
LEMMA TallyNext ==
  ASSUME NEW cl \in Process, NEW q \in Seq(ServerMessage), NEW id, NEW k \in Nat \ {0}
  PROVE  Tally(cl, q, id, k + 1) = Tally(cl, q, id, k) + Change(q[k], id)
<1>1. 1 .. (k + 1) - 1 = (1 .. k - 1) \cup {k} /\ k \notin 1 .. k - 1 /\ k \in Nat
  OBVIOUS
<1>2. /\ IsFiniteSet(Joins(q, id, k)) /\ Cardinality(Joins(q, id, k)) \in Nat
      /\ IsFiniteSet(Leaves(q, id, k)) /\ Cardinality(Leaves(q, id, k)) \in Nat
      /\ k \notin Joins(q, id, k) /\ k \notin Leaves(q, id, k)
  BY <1>1, TallyType DEF Joins, Leaves
<1>3. /\ Cardinality(Joins(q, id, k) \cup {k}) = Cardinality(Joins(q, id, k)) + 1
      /\ Cardinality(Leaves(q, id, k) \cup {k}) = Cardinality(Leaves(q, id, k)) + 1
  BY <1>2, FS_AddElement
<1>4. /\ Joins(q, id, k + 1) = IF Announces(q[k], id) THEN Joins(q, id, k) \cup {k} ELSE Joins(q, id, k)
      /\ Leaves(q, id, k + 1) =
           IF q[k] = <<"N_PLAYER_LEFT", id>> THEN Leaves(q, id, k) \cup {k} ELSE Leaves(q, id, k)
  BY <1>1 DEF Joins, Leaves
<1>5. Times(cl, id) \in Nat
  BY TimesType
<1>6. ~(Announces(q[k], id) /\ q[k] = <<"N_PLAYER_LEFT", id>>)
  BY DEF Announces
<1>7. CASE Announces(q[k], id)
  <2>1. /\ Change(q[k], id) = 1
        /\ Cardinality(Joins(q, id, k + 1)) = Cardinality(Joins(q, id, k)) + 1
        /\ Leaves(q, id, k + 1) = Leaves(q, id, k)
    BY <1>3, <1>4, <1>6, <1>7 DEF Change
  <2> QED
    BY <1>2, <1>5, <2>1 DEF Tally, Times
<1>8. CASE q[k] = <<"N_PLAYER_LEFT", id>>
  <2>1. /\ Change(q[k], id) = -1
        /\ Joins(q, id, k + 1) = Joins(q, id, k)
        /\ Cardinality(Leaves(q, id, k + 1)) = Cardinality(Leaves(q, id, k)) + 1
    BY <1>3, <1>4, <1>6, <1>8 DEF Change
  <2> QED
    BY <1>2, <1>5, <2>1 DEF Tally, Times
<1>9. CASE ~Announces(q[k], id) /\ q[k] # <<"N_PLAYER_LEFT", id>>
  BY <1>2, <1>4, <1>5, <1>9 DEF Tally, Times, Change
<1> QED
  BY <1>7, <1>8, <1>9

LEMMA TallySame ==
  ASSUME NEW cl, NEW q, NEW r, NEW id, NEW k, \A h \in 1 .. k - 1 : q[h] = r[h]
  PROVE  Tally(cl, q, id, k) = Tally(cl, r, id, k)
<1>1. Joins(q, id, k) = Joins(r, id, k) /\ Leaves(q, id, k) = Leaves(r, id, k)
  BY DEF Joins, Leaves
<1> QED
  BY <1>1 DEF Tally

(* Nobody leaves a list more often than it is in it. *)
LEMMA TallyIsANumber ==
  ASSUME NEW cl \in Process, NEW q \in Seq(ServerMessage), NEW id \in Desc,
         \A k \in 1 .. Len(q) : Concerns(q[k], id) => Tally(cl, q, id, k) >= 1
  PROVE  \A k \in 1 .. Len(q) + 1 : Tally(cl, q, id, k) >= 0
<1> DEFINE short == {k \in 1 .. Len(q) + 1 : ~(Tally(cl, q, id, k) >= 0)}
<1>1. Len(q) \in Nat
  BY LenProperties
<1>2. SUFFICES ASSUME short # {} PROVE FALSE
  BY <1>2
<1>3. short \in SUBSET Nat
  BY <1>1
<1>4. PICK k \in short : \A j \in short : k <= j
  BY <1>2, <1>3, LeastElement
<1>5. k \in 1 .. Len(q) + 1 /\ ~(Tally(cl, q, id, k) >= 0)
  BY <1>4
<1>6. k # 1
  <2>1. Tally(cl, q, id, 1) = Times(cl, id) /\ Times(cl, id) \in Nat
    BY TallyFirst, TimesType
  <2> QED
    BY <1>5, <2>1
<1> DEFINE j == k - 1
<1>7. j \in 1 .. Len(q) /\ j \in Nat \ {0} /\ j + 1 = k /\ ~(k <= j)
  BY <1>1, <1>5, <1>6
<1>8. j \notin short
  BY <1>4, <1>7
<1> HIDE DEF short, j
<1>9. Tally(cl, q, id, k) = Tally(cl, q, id, j) + Change(q[j], id)
  BY <1>7, TallyNext
<1>10. Tally(cl, q, id, j) \in Int
  BY <1>7, TallyType
<1>11. Tally(cl, q, id, j) >= 0
  BY <1>1, <1>7, <1>8 DEF short
<1>12. Change(q[j], id) \in {-1, 0, 1} /\ (Change(q[j], id) = -1 => Concerns(q[j], id))
  BY DEF Change, Concerns
<1>13. Change(q[j], id) = -1 => Tally(cl, q, id, j) >= 1
  BY <1>7, <1>12
<1> QED
  BY <1>5, <1>9, <1>10, <1>11, <1>12, <1>13

(* A message is read: it has left the queue, and made of the list what it  *)
(* had been counted for.                                                   *)
LEMMA TallyRead ==
  ASSUME NEW cl \in Process, NEW q \in Seq(ServerMessage), q # <<>>, NEW now \in Process,
         NEW id, Times(now, id) = Times(cl, id) + Change(q[1], id),
         NEW k \in 1 .. Len(q)
  PROVE  Tally(now, Tail(q), id, k) = Tally(cl, q, id, k + 1)
<1> DEFINE r == Tail(q)
<1>1. /\ r \in Seq(ServerMessage) /\ Len(r) = Len(q) - 1
      /\ \A h \in 1 .. Len(r) : r[h] = q[h + 1]
      /\ Len(q) \in Nat \ {0} /\ k \in Nat \ {0}
  BY EmptySeq, LenProperties, HeadTailProperties
<1>2. \A h \in 1 .. k - 1 : h + 1 \in 1 .. k /\ r[h] = q[h + 1]
  BY <1>1
<1>3. Joins(q, id, k + 1) \in SUBSET (1 .. k) /\ Leaves(q, id, k + 1) \in SUBSET (1 .. k)
  BY <1>1 DEF Joins, Leaves
<1>4. /\ Joins(r, id, k) = {h \in 1 .. k - 1 : h + 1 \in Joins(q, id, k + 1)}
      /\ Leaves(r, id, k) = {h \in 1 .. k - 1 : h + 1 \in Leaves(q, id, k + 1)}
  <2>1. (k + 1) - 1 = k
    BY <1>1
  <2> HIDE DEF r
  <2> QED
    BY <1>2, <2>1 DEF Joins, Leaves
<1>5. /\ Cardinality(Joins(r, id, k)) =
           Cardinality(Joins(q, id, k + 1)) - (IF 1 \in Joins(q, id, k + 1) THEN 1 ELSE 0)
      /\ Cardinality(Leaves(r, id, k)) =
           Cardinality(Leaves(q, id, k + 1)) - (IF 1 \in Leaves(q, id, k + 1) THEN 1 ELSE 0)
  <2>1. k \in Nat \ {0}
    BY <1>1
  <2> QED
    BY <1>3, <1>4, <2>1, FirstPlaceLess
<1>6. /\ 1 \in Joins(q, id, k + 1) <=> Announces(q[1], id)
      /\ 1 \in Leaves(q, id, k + 1) <=> q[1] = <<"N_PLAYER_LEFT", id>>
  BY <1>1 DEF Joins, Leaves
<1>7. ~(Announces(q[1], id) /\ q[1] = <<"N_PLAYER_LEFT", id>>)
  BY DEF Announces
<1>8. /\ Cardinality(Joins(q, id, k + 1)) \in Nat /\ Cardinality(Leaves(q, id, k + 1)) \in Nat
      /\ Times(cl, id) \in Nat
  BY <1>1, TallyType, TimesType
<1> HIDE DEF r
<1>9. Cardinality(IdPlaces(now, id)) = Cardinality(IdPlaces(cl, id)) + Change(q[1], id)
  BY DEF Times
<1>10. CASE Announces(q[1], id)
  BY <1>5, <1>6, <1>7, <1>8, <1>9, <1>10, SMTT(30) DEF Tally, Times, Change, r
<1>11. CASE q[1] = <<"N_PLAYER_LEFT", id>>
  BY <1>5, <1>6, <1>7, <1>8, <1>9, <1>11 DEF Tally, Times, Change, r
<1>12. CASE ~Announces(q[1], id) /\ q[1] # <<"N_PLAYER_LEFT", id>>
  BY <1>5, <1>6, <1>8, <1>9, <1>12 DEF Tally, Times, Change, r
<1> QED
  BY <1>10, <1>11, <1>12

LEMMA SoundRead ==
  ASSUME NEW cl \in Process, NEW q \in Seq(ServerMessage), q # <<>>, NEW now \in Process,
         NEW ids, ids \subseteq Desc, NEW times, Sound(cl, q, ids, times), now.phase # "greet",
         \A id \in Desc : Times(now, id) = Times(cl, id) + Change(q[1], id)
  PROVE  Sound(now, Tail(q), ids, times)
<1> DEFINE r == Tail(q)
<1>1. /\ Len(r) = Len(q) - 1 /\ Len(q) \in Nat \ {0}
      /\ \A h \in 1 .. Len(r) : r[h] = q[h + 1]
  BY EmptySeq, LenProperties, HeadTailProperties
<1>2. \A id \in Desc : \A k \in 1 .. Len(q) : Tally(now, r, id, k) = Tally(cl, q, id, k + 1)
  BY TallyRead
<1> HIDE DEF r
<1>3. \A id \in ids : Tally(now, r, id, Len(r) + 1) >= times
  <2>1. Len(r) + 1 = Len(q) /\ Len(q) \in 1 .. Len(q)
    BY <1>1
  <2>2. \A id \in ids : Tally(cl, q, id, Len(q) + 1) >= times
    BY DEF Sound
  <2> QED
    BY <1>2, <2>1, <2>2
<1>4. \A id \in Desc : \A k \in 1 .. Len(r) : Concerns(r[k], id) => Tally(now, r, id, k) >= 1
  <2>1. TAKE id \in Desc
  <2>2. TAKE k \in 1 .. Len(r)
  <2>3. k \in 1 .. Len(q) /\ k + 1 \in 1 .. Len(q) /\ r[k] = q[k + 1]
    BY <1>1
  <2>4. Concerns(q[k + 1], id) => Tally(cl, q, id, k + 1) >= 1
    BY <2>3 DEF Sound
  <2> QED
    BY <1>2, <2>3, <2>4
<1> QED
  BY <1>3, <1>4 DEF Sound, r

LEMMA SoundPhase ==
  ASSUME NEW cl, NEW now, now.players = cl.players, now.phase = "greet" => cl.phase = "greet",
         NEW q, NEW ids, NEW times, Sound(cl, q, ids, times)
  PROVE  Sound(now, q, ids, times)
<1>1. \A id, k : Tally(now, q, id, k) = Tally(cl, q, id, k)
  BY DEF Tally, IdPlaces
<1> QED
  BY <1>1 DEF Sound

(* The same message, so many times, at the end of the queue. *)
Gained(msg, id, times) ==
  IF Change(msg, id) = 1 THEN times ELSE IF Change(msg, id) = -1 THEN -times ELSE 0

LEMMA TallyCopies ==
  ASSUME NEW cl \in Process, NEW q \in Seq(ServerMessage), NEW msg \in ServerMessage,
         NEW b \in Seq(ServerMessage), \A j \in 1 .. Len(b) : b[j] = msg, NEW id
  PROVE  /\ \A k \in 1 .. Len(q) + 1 : Tally(cl, q \o b, id, k) = Tally(cl, q, id, k)
         /\ \A j \in 1 .. Len(b) + 1 :
              Tally(cl, q \o b, id, Len(q) + j)
                = Tally(cl, q, id, Len(q) + 1) + Gained(msg, id, j - 1)
<1> DEFINE r == q \o b
           n == Len(q)
           base == Tally(cl, q, id, n + 1)
           more(j) == Gained(msg, id, j - 1)
           wrong == {j \in 1 .. Len(b) + 1 : Tally(cl, r, id, n + j) # base + more(j)}
<1>1. n \in Nat /\ Len(b) \in Nat
  BY LenProperties
<1>2. /\ r \in Seq(ServerMessage) /\ Len(r) = n + Len(b)
      /\ \A k \in 1 .. n + Len(b) : r[k] = IF k <= n THEN q[k] ELSE b[k - n]
  BY <1>1, ConcatProperties
<1>3. \A k \in 1 .. n : r[k] = q[k]
  BY <1>1, <1>2
<1>4. \A j \in 1 .. Len(b) : r[n + j] = msg
  <2>1. TAKE j \in 1 .. Len(b)
  <2>2. n + j \in 1 .. n + Len(b) /\ ~(n + j <= n) /\ n + j - n = j
    BY <1>1
  <2> QED
    BY <1>1, <1>2, <2>2
<1> HIDE DEF r, n
<1>5. \A k \in 1 .. n + 1 : Tally(cl, r, id, k) = Tally(cl, q, id, k)
  <2>1. TAKE k \in 1 .. n + 1
  <2>2. \A h \in 1 .. k - 1 : r[h] = q[h]
    BY <1>1, <1>3
  <2> QED
    BY <2>2, TallySame
<1>6. base \in Int
  <2>1. n + 1 \in Nat
    BY <1>1
  <2> QED
    BY <2>1, TallyType
<1>7. wrong = {}
  <2>1. SUFFICES ASSUME wrong # {} PROVE FALSE
    BY <2>1
  <2>2. wrong \in SUBSET Nat
    BY <1>1
  <2>3. PICK j \in wrong : \A i \in wrong : j <= i
    BY <2>1, <2>2, LeastElement
  <2>4. j \in 1 .. Len(b) + 1 /\ Tally(cl, r, id, n + j) # base + more(j)
    BY <2>3
  <2>5. Tally(cl, r, id, n + 1) = base
    BY <1>1, <1>5
  <2> HIDE DEF base
  <2>6. j # 1
    <3>1. base + more(1) = base
      BY <1>6 DEF Gained
    <3> QED
      BY <2>4, <2>5, <3>1
  <2> DEFINE i == j - 1
  <2>7. i \in 1 .. Len(b) /\ i \in Nat \ {0} /\ j = i + 1 /\ ~(j <= i) /\ n + i \in Nat \ {0}
        /\ n + j = n + i + 1 /\ i \in 1 .. Len(b) + 1
    BY <1>1, <2>4, <2>6
  <2>8. i \notin wrong
    BY <2>3, <2>7
  <2> HIDE DEF i
  <2>9. Tally(cl, r, id, n + i) = base + more(i)
    BY <2>7, <2>8
  <2>10. Tally(cl, r, id, n + i + 1) = Tally(cl, r, id, n + i) + Change(r[n + i], id)
    BY <1>2, <2>7, TallyNext
  <2>11. r[n + i] = msg /\ Change(msg, id) \in {-1, 0, 1}
    BY <1>4, <2>7 DEF Change
  <2>12. more(j) = more(i) + Change(msg, id) /\ more(i) \in Int
    BY <2>7, <2>11 DEF Gained
  <2> HIDE DEF more
  <2>13. Tally(cl, r, id, n + j) = base + more(j)
    BY <1>6, <2>7, <2>9, <2>10, <2>11, <2>12
  <2> QED
    BY <2>4, <2>13
<1> QED
  BY <1>5, <1>7 DEF r, n

(* What is sent to everybody keeps a client sound. *)
LEMMA SoundSent ==
  ASSUME NEW cl \in Process, NEW q \in Seq(ServerMessage), NEW msg \in ServerMessage,
         NEW b \in Seq(ServerMessage), \A j \in 1 .. Len(b) : b[j] = msg, NEW ids, ids \subseteq Desc, NEW after, after \subseteq Desc,
         NEW times \in Nat \ {0}, Sound(cl, q, ids, times),
         \A id \in Desc : Concerns(msg, id) => id \in ids,
         \A id \in Desc : msg = <<"N_PLAYER_LEFT", id>> => Len(b) = times,
         \A id \in after : \/ id \in ids /\ msg # <<"N_PLAYER_LEFT", id>>
                           \/ Announces(msg, id) /\ Len(b) = times
  PROVE  Sound(cl, q \o b, after, times)
<1> DEFINE r == q \o b
           n == Len(q)
           m == Len(b)
<1>1. n \in Nat /\ m \in Nat
  BY LenProperties
<1>2. /\ r \in Seq(ServerMessage) /\ Len(r) = n + m
      /\ \A k \in 1 .. n + m : r[k] = IF k <= n THEN q[k] ELSE b[k - n]
  BY <1>1, ConcatProperties
<1>3. /\ \A id : \A k \in 1 .. n + 1 : Tally(cl, r, id, k) = Tally(cl, q, id, k)
      /\ \A id : \A j \in 1 .. m + 1 :
           Tally(cl, r, id, n + j)
             = Tally(cl, q, id, n + 1) + Gained(msg, id, j - 1)
  <2>1. ASSUME NEW id
        PROVE  /\ \A k \in 1 .. Len(q) + 1 : Tally(cl, q \o b, id, k) = Tally(cl, q, id, k)
               /\ \A j \in 1 .. Len(b) + 1 :
                    Tally(cl, q \o b, id, Len(q) + j)
                      = Tally(cl, q, id, Len(q) + 1) + Gained(msg, id, j - 1)
    BY TallyCopies, SMTT(30)
  <2> QED
    BY <2>1
<1>4. \A id : Tally(cl, q, id, n + 1) \in Int
  <2>1. n + 1 \in Nat
    BY <1>1
  <2> QED
    BY <2>1, TallyType
<1>5. \A id \in Desc : Tally(cl, q, id, n + 1) >= 0
  <2>1. TAKE id \in Desc
  <2>2. \A k \in 1 .. Len(q) : Concerns(q[k], id) => Tally(cl, q, id, k) >= 1
    BY DEF Sound
  <2>3. n + 1 \in 1 .. n + 1
    BY <1>1
  <2> QED
    BY <2>2, <2>3, TallyIsANumber
<1>6. \A id \in ids : Tally(cl, q, id, n + 1) >= times
  BY DEF Sound
<1> HIDE DEF r, n, m
<1>7. cl.phase = "greet" => r # <<>> /\ r[1] = <<"N_GAME_NOT_FULL">>
  <2>1. SUFFICES ASSUME cl.phase = "greet" PROVE r # <<>> /\ r[1] = <<"N_GAME_NOT_FULL">>
    OBVIOUS
  <2>2. q # <<>> /\ q[1] = <<"N_GAME_NOT_FULL">>
    BY <2>1 DEF Sound
  <2>3. n # 0
    BY <2>2, EmptySeq DEF n
  <2>4. 1 \in 1 .. n + m /\ 1 <= n /\ Len(r) # 0
    BY <1>1, <1>2, <2>3
  <2> QED
    BY <1>2, <2>2, <2>4
<1>8. ASSUME NEW id \in after PROVE Tally(cl, r, id, Len(r) + 1) >= times
  <2>1. m + 1 \in 1 .. m + 1 /\ Len(r) + 1 = n + (m + 1) /\ (m + 1) - 1 = m
    BY <1>1, <1>2
  <2>2. Tally(cl, r, id, Len(r) + 1) = Tally(cl, q, id, n + 1) + Gained(msg, id, m)
    BY <1>3, <2>1
  <2>3. CASE id \in ids /\ msg # <<"N_PLAYER_LEFT", id>>
    <3>1. Change(msg, id) \in {0, 1}
      BY <2>3 DEF Change
    <3> QED
      BY <1>1, <1>4, <1>6, <2>2, <2>3, <3>1 DEF Gained
  <2>4. CASE Announces(msg, id) /\ m = times
    <3>1. Change(msg, id) = 1
      BY <2>4 DEF Change
    <3> QED
      BY <1>1, <1>4, <1>5, <2>2, <2>4, <3>1 DEF Gained
  <2> QED
    BY <2>3, <2>4 DEF m
<1>9. ASSUME NEW id \in Desc, NEW k \in 1 .. Len(r), Concerns(r[k], id)
      PROVE  Tally(cl, r, id, k) >= 1
  <2>1. k \in 1 .. n + m
    BY <1>2
  <2>2. CASE k <= n
    <3>1. k \in 1 .. n /\ k \in 1 .. n + 1 /\ r[k] = q[k]
      BY <1>1, <1>2, <2>1, <2>2
    <3>2. Tally(cl, q, id, k) >= 1
      BY <1>9, <3>1 DEF Sound, n
    <3> QED
      BY <1>3, <3>1, <3>2
  <2>3. CASE ~(k <= n)
    <3> DEFINE j == k - n
    <3>1. j \in 1 .. m /\ j \in 1 .. m + 1 /\ k = n + j
      BY <1>1, <2>1, <2>3
    <3>2. r[k] = msg
      <4>1. r[k] = b[j]
        BY <1>2, <2>1, <2>3
      <4>2. b[j] = msg
        BY <3>1 DEF m
      <4> QED
        BY <4>1, <4>2
    <3> HIDE DEF j
    <3>3. id \in ids /\ Tally(cl, q, id, n + 1) >= times
      BY <1>6, <1>9, <3>2
    <3>4. Tally(cl, r, id, k) = Tally(cl, q, id, n + 1) + Gained(msg, id, j - 1)
      BY <1>3, <3>1
    <3>5. CASE msg = <<"N_PLAYER_LEFT", id>>
      <4>1. m = times /\ Change(msg, id) = -1
        BY <3>5 DEF m, Change, Announces
      <4> QED
        BY <1>1, <1>4, <3>1, <3>3, <3>4, <4>1 DEF Gained
    <3>6. CASE msg # <<"N_PLAYER_LEFT", id>>
      <4>1. Change(msg, id) \in {0, 1}
        BY <3>6 DEF Change
      <4> QED
        BY <1>1, <1>4, <3>1, <3>3, <3>4, <4>1 DEF Gained
    <3> QED
      BY <3>5, <3>6
  <2> QED
    BY <2>2, <2>3
<1>10. Sound(cl, r, after, times)
  BY <1>7, <1>8, <1>9 DEF Sound
<1> QED
  BY <1>10 DEF r

----------------------------------------------------------------------------
(* How often a socket is listed *)

Count(list, sock) == Cardinality({i \in 1 .. Len(list) : list[i].sock = sock})

LEMMA CountType ==
  ASSUME NEW R, NEW list \in Seq(R), NEW sock
  PROVE  /\ Count(list, sock) \in Nat
         /\ sock \in Socks(list) <=> Count(list, sock) >= 1
<1> DEFINE places == {i \in 1 .. Len(list) : list[i].sock = sock}
<1>1. Len(list) \in Nat
  BY LenProperties
<1>2. IsFiniteSet(places) /\ Cardinality(places) \in Nat
  BY <1>1, BelowFinite
<1>3. sock \in Socks(list) <=> places # {}
  BY DEF Socks
<1> HIDE DEF places
<1>4. Cardinality(places) = 0 <=> places = {}
  BY <1>2, FS_EmptySet
<1> QED
  BY <1>2, <1>3, <1>4 DEF Count, places

LEMMA CountLonger ==
  ASSUME NEW R, NEW list \in Seq(R), NEW longer, NEW sock,
         Len(longer) = Len(list) + 1, \A i \in 1 .. Len(list) : longer[i] = list[i]
  PROVE  Count(longer, sock)
           = Count(list, sock) + (IF longer[Len(list) + 1].sock = sock THEN 1 ELSE 0)
<1> DEFINE n == Len(list)
           places == {i \in 1 .. n : list[i].sock = sock}
           now == {i \in 1 .. Len(longer) : longer[i].sock = sock}
<1>1. n \in Nat
  BY LenProperties
<1>2. IsFiniteSet(places) /\ Cardinality(places) \in Nat
  BY <1>1, BelowFinite
<1> HIDE DEF n
<1>3. 1 .. n + 1 = (1 .. n) \cup {n + 1} /\ n + 1 \notin 1 .. n
  BY <1>1
<1>4. now = IF longer[n + 1].sock = sock THEN places \cup {n + 1} ELSE places
  BY <1>3 DEF n
<1>5. n + 1 \notin places
  BY <1>3
<1> HIDE DEF places, now
<1>6. Cardinality(places \cup {n + 1}) = Cardinality(places) + 1
  BY <1>2, <1>5, FS_AddElement
<1>7. Cardinality(now) = Cardinality(places) + (IF longer[n + 1].sock = sock THEN 1 ELSE 0)
  BY <1>2, <1>4, <1>6
<1> QED
  BY <1>7 DEF Count, n, places, now

LEMMA CountShorter ==
  ASSUME NEW R, NEW list \in Seq(R), NEW p \in 1 .. Len(list), NEW sock
  PROVE  Count(RemoveAt(list, p), sock)
           = Count(list, sock) - (IF list[p].sock = sock THEN 1 ELSE 0)
<1> DEFINE n == Len(list)
           left == RemoveAt(list, p)
           T == {i \in 1 .. n : list[i].sock = sock}
           from(k) == IF k < p THEN k ELSE k + 1
<1>1. n \in Nat
  BY LenProperties
<1>2. Len(left) = n - 1 /\ \A k \in 1 .. n - 1 : left[k] = list[from(k)]
  BY OneLess
<1>3. \A k \in 1 .. n - 1 : from(k) \in 1 .. n
  BY <1>1
<1>4. {k \in 1 .. n - 1 : left[k].sock = sock} = {k \in 1 .. n - 1 : from(k) \in T}
  BY <1>2, <1>3
<1>5. T \in SUBSET (1 .. n) /\ (p \in T <=> list[p].sock = sock)
  OBVIOUS
<1> HIDE DEF T, left
<1>6. Cardinality({k \in 1 .. n - 1 : from(k) \in T}) = Cardinality(T) - (IF p \in T THEN 1 ELSE 0)
  <2>1. p \in 1 .. n
    OBVIOUS
  <2> HIDE DEF n
  <2> QED
    BY <1>1, <1>5, <2>1, OnePlaceLess
<1> HIDE DEF from
<1>7. Count(left, sock) = Cardinality({k \in 1 .. n - 1 : from(k) \in T})
  BY <1>2, <1>4 DEF Count
<1>8. Count(list, sock) = Cardinality(T)
  BY DEF Count, T
<1> QED
  BY <1>5, <1>6, <1>7, <1>8 DEF left

(* send_to_all() brings a socket its message once per entry. *)
LEMMA ToAllCopies ==
  ASSUME NEW list \in Listed, NEW msg, NEW fd \in Desc
  PROVE  /\ Len(ToAll(list, msg)[fd]) = Count(list, fd)
         /\ \A j \in 1 .. Len(ToAll(list, msg)[fd]) : ToAll(list, msg)[fd][j] = msg
<1> DEFINE c == Count(list, fd)
<1>1. ToAll(list, msg)[fd] = [i \in 1 .. c |-> msg]
  BY DEF ToAll, Count
<1>2. c \in Nat
  BY CountType DEF Listed
<1> HIDE DEF c
<1>3. Len([i \in 1 .. c |-> msg]) = c
  BY <1>2
<1> QED
  BY <1>1, <1>3 DEF c

----------------------------------------------------------------------------
(* Each step keeps everybody informed *)

LEMMA InitAnnouncements == Init => Announcements
<1> SUFFICES ASSUME Init PROVE Announcements
  OBVIOUS
<1>1. \A fd \in Desc : peer[fd] # "up" /\ inbox[fd] = <<>> /\ client[fd] = NewClient
  BY DEF Init
<1>2. EverybodyIsInformed /\ NothingToTheGone
  BY <1>1 DEF EverybodyIsInformed, Informed, NothingToTheGone
<1>3. NoClientCrashes
  BY <1>1 DEF NoClientCrashes, NewClient
<1>4. StandardOutput
  BY DEF Init, StandardOutput, Socks
<1> QED
  BY <1>2, <1>3, <1>4 DEF Announcements

(* A step that neither writes to a client nor changes who is listed. *)
LEMMA QuietStep ==
  ASSUME Announcements,
         UNCHANGED <<clients, client_count, master, open, inbox, client>>,
         \A fd \in Desc : peer'[fd] = "up" <=> peer[fd] = "up",
         pc' = "select" \/ pc # "select" \/ master \subseteq open
  PROVE  Announcements'
<1>1. EverybodyIsInformed'
  BY DEF Announcements, EverybodyIsInformed, Informed, Places
<1>2. NothingToTheGone'
  BY DEF Announcements, NothingToTheGone
<1>3. StandardOutput'
  BY DEF Announcements, StandardOutput, Socks
<1>4. NoClientCrashes'
  BY DEF Announcements, NoClientCrashes
<1> QED
  BY <1>1, <1>2, <1>3, <1>4 DEF Announcements

(* A step of one client. *)
LEMMA ClientStep ==
  ASSUME Announcements, NEW fd \in Desc,
         UNCHANGED <<clients, client_count, master, open, pc>>,
         \A d \in Desc : d # fd =>
           /\ client'[d] = client[d] /\ inbox'[d] = inbox[d]
           /\ peer'[d] = "up" <=> peer[d] = "up",
         peer'[fd] = "up" =>
           /\ peer[fd] = "up"
           /\ Sound(client'[fd], inbox'[fd], master, Cardinality(Places(fd))),
         peer'[fd] # "up" => inbox'[fd] = <<>>,
         client'[fd].phase # "crashed"
  PROVE  Announcements'
<1>1. EverybodyIsInformed'
  <2>1. ASSUME NEW d \in Desc, peer'[d] = "up"
        PROVE  d \in master /\ Sound(client'[d], inbox'[d], master, Cardinality(Places(d)))
    BY <2>1 DEF Announcements, EverybodyIsInformed, Informed
  <2> QED
    BY <2>1 DEF EverybodyIsInformed, Informed, Places
<1>2. NothingToTheGone'
  BY DEF Announcements, NothingToTheGone
<1>3. StandardOutput'
  BY DEF Announcements, StandardOutput, Socks
<1>4. NoClientCrashes'
  BY DEF Announcements, NoClientCrashes
<1> QED
  BY <1>1, <1>2, <1>3, <1>4 DEF Announcements

(* The loop's own steps: the clients are served only while every watched   *)
(* socket is open, which is what select() has seen to.                     *)
LEMMA LoopAnnouncements ==
  ASSUME Announcements, Select \/ SelectFails \/ ThreadDone \/ ClientsDone
  PROVE  Announcements'
<1> USE DEF server, kernel, people
<1>1. UNCHANGED <<clients, client_count, master, open, peer, inbox, client>>
  BY DEF Select, SelectFails, ThreadDone, ClientsDone
<1>2. pc' = "select" \/ pc # "select" \/ master \subseteq open
  BY DEF Select, SelectFails, ThreadDone, ClientsDone
<1> QED
  BY <1>1, <1>2, QuietStep

LEMMA KilledAnnouncements ==
  ASSUME Announcements, NEW batch, NEW ends, SendKills(batch, ends)
  PROVE  Announcements'
<1> USE DEF server, kernel, people
<1>1. UNCHANGED <<clients, client_count, master, open, peer, inbox, client, pc>>
  BY DEF SendKills
<1> QED
  BY <1>1, QuietStep

LEMMA QuietAnnouncements ==
  ASSUME IInv, Announcements, NEW fd \in Desc,
         WordCommand(fd) \/ UnknownCommand(fd) \/ RecvFails(fd)
  PROVE  Announcements'
<1> USE DEF people
<1>1. UNCHANGED <<clients, client_count, master, open, inbox, client, pc>>
  BY DEF WordCommand, UnknownCommand, RecvFails
<1>2. \A d \in Desc : peer'[d] = "up" <=> peer[d] = "up"
  <2>1. CASE WordCommand(fd) \/ UnknownCommand(fd)
    BY <2>1 DEF WordCommand, UnknownCommand
  <2>2. CASE RecvFails(fd)
    <3>1. peer' = [peer EXCEPT ![fd] = "dead"] /\ peer[fd] = "reset" /\ peer \in [Desc -> Peer]
      BY <2>2 DEF RecvFails, IInv, WorldTypes
    <3> QED
      BY <3>1
  <2> QED
    BY <2>1, <2>2
<1>3. pc' = "select" \/ pc # "select" \/ master \subseteq open
  BY <1>1
<1> QED
  BY <1>1, <1>2, <1>3, QuietStep

(* The same message to several clients, about somebody they know. *)
LEMMA SentAnnouncements ==
  ASSUME IInv, Announcements, NEW batch \in [Desc -> Seq(ServerMessage)], Send(batch, peer),
         NEW msg \in ServerMessage, \A id \in Desc : msg # <<"N_PLAYER_LEFT", id>>,
         \A id \in Desc : Concerns(msg, id) => id \in master,
         \A fd \in Desc : \A j \in 1 .. Len(batch[fd]) : batch[fd][j] = msg,
         UNCHANGED <<client_count, master, open, client, pc>>,
         Len(clients') = Len(clients),
         \A i \in 1 .. Len(clients) : clients'[i].sock = clients[i].sock
  PROVE  Announcements'
<1>1. ServerTypes /\ WorldTypes /\ SeatsAreCounted /\ peer \in [Desc -> Peer]
  BY DEF IInv, WorldTypes
<1>2. \A fd \in Desc :
        /\ peer'[fd] = "up" <=> peer[fd] = "up"
        /\ inbox'[fd] = IF peer[fd] = "up" THEN inbox[fd] \o batch[fd] ELSE <<>>
  BY <1>1, SendEffect
<1>3. master \subseteq Socks(clients) /\ Socks(clients) \subseteq Desc
  BY <1>1, ListedClients DEF SeatsAreCounted, Socks
<1>4. EverybodyIsInformed'
  <2>1. ASSUME NEW fd \in Desc, peer'[fd] = "up"
        PROVE  fd \in master /\ Sound(client[fd], inbox[fd] \o batch[fd], master, Count(clients, fd))
    <3>1. fd \in master /\ Sound(client[fd], inbox[fd], master, Count(clients, fd))
      BY <1>2, <2>1 DEF Announcements, EverybodyIsInformed, Informed, Count, Places
    <3>2. Count(clients, fd) \in Nat \ {0}
      <4>1. Count(clients, fd) \in Nat /\ Count(clients, fd) >= 1
        BY <1>1, <1>3, <3>1, CountType DEF ServerTypes
      <4> QED
        BY <4>1
    <3>3. client[fd] \in Process /\ inbox[fd] \in Seq(ServerMessage)
      BY <1>1 DEF WorldTypes
    <3> DEFINE b == batch[fd]
               q == inbox[fd]
               cl == client[fd]
               times == Count(clients, fd)
    <3>4. b \in Seq(ServerMessage) /\ \A j \in 1 .. Len(b) : b[j] = msg
      OBVIOUS
    <3>5. master \subseteq Desc
      BY <1>3
    <3>6. \A id \in master : id \in master /\ msg # <<"N_PLAYER_LEFT", id>>
      BY <3>5
    <3> HIDE DEF b, q, cl, times
    <3>7. Sound(cl, q \o b, master, times)
      <4>1. cl \in Process /\ q \in Seq(ServerMessage) /\ times \in Nat \ {0}
        BY <3>2, <3>3 DEF cl, q, times
      <4>2. Sound(cl, q, master, times)
        BY <3>1 DEF cl, q, times
      <4>3. /\ \A id \in Desc : Concerns(msg, id) => id \in master
            /\ \A id \in Desc : msg = <<"N_PLAYER_LEFT", id>> => Len(b) = times
            /\ msg \in ServerMessage
        OBVIOUS
      <4>4. \A id \in master : \/ id \in master /\ msg # <<"N_PLAYER_LEFT", id>>
                               \/ Announces(msg, id) /\ Len(b) = times
        BY <3>6
      <4> QED
        BY ONLY <3>4, <3>5, <4>1, <4>2, <4>3, <4>4, SoundSent, ZenonT(30)
    <3> QED
      BY <3>1, <3>7 DEF b, q, cl, times
  <2>2. \A fd : Count(clients', fd) = Count(clients, fd)
    BY DEF Count
  <2>3. ASSUME NEW fd \in Desc, peer'[fd] = "up"
        PROVE  fd \in master' /\ Sound(client'[fd], inbox'[fd], master', Count(clients', fd))
    BY <1>2, <2>1, <2>2, <2>3
  <2> QED
    BY <2>3 DEF EverybodyIsInformed, Informed, Places, Count
<1>5. NothingToTheGone'
  BY <1>2 DEF NothingToTheGone
<1>6. StandardOutput'
  BY DEF Announcements, StandardOutput, Socks
<1>7. NoClientCrashes'
  BY DEF Announcements, NoClientCrashes
<1> QED
  BY <1>4, <1>5, <1>6, <1>7 DEF Announcements

LEMMA RelayAnnouncements ==
  ASSUME IInv, Announcements, process_thread_command
  PROVE  Announcements'
<1> USE DEF server, people
<1>1. from_logic \in Seq(LogicMessage) /\ from_logic # <<>>
  BY DEF IInv, ServerTypes, process_thread_command
<1> DEFINE m == Head(from_logic)
           batch == Relayed(m)
<1>2. m \in LogicMessage
  BY <1>1, HeadTailProperties
<1>3. batch \in [Desc -> Seq(ServerMessage)]
  BY <1>2, RelayedType
<1>4. \/ SendKills(batch, peer)
      \/ Send(batch, peer) /\ UNCHANGED <<server, open, people>>
  BY DEF process_thread_command
<1> HIDE DEF m
<1>5. \E msg \in {<<"N_GAME">>, <<"N_GAME_STARTED_NO_JOINING">>} :
        \A fd \in Desc : \A j \in 1 .. Len(batch[fd]) : batch[fd][j] = msg
  <2>1. CASE m[1] = "T_GAME_STARTED_NO_JOINING"
    <3> DEFINE msg == <<"N_GAME_STARTED_NO_JOINING">>
    <3>1. \A fd \in Desc : batch[fd] = <<msg>> \/ batch[fd] = <<>>
      BY <2>1 DEF Relayed, ToOne
    <3>2. \A fd \in Desc : \A j \in 1 .. Len(batch[fd]) : batch[fd][j] = msg
      <4>1. TAKE fd \in Desc
      <4>2. TAKE j \in 1 .. Len(batch[fd])
      <4>3. batch[fd] = <<msg>>
        <5>1. batch[fd] # <<>>
          BY <4>2
        <5> QED
          BY <3>1, <5>1
      <4>4. j \in 1 .. 1
        BY <4>3
      <4> QED
        BY <4>3, <4>4
    <3> QED
      BY <3>2
  <2>2. CASE m[1] # "T_GAME_STARTED_NO_JOINING"
    <3>1. m = <<"N_GAME">> /\ batch = ToAll(clients, m)
      BY <1>2, <2>2 DEF LogicMessage, Relayed
    <3>2. clients \in Listed
      BY ListedClients DEF IInv
    <3> QED
      BY <3>1, <3>2, ToAllCopies
  <2> QED
    BY <2>1, <2>2
<1>6. PICK msg \in {<<"N_GAME">>, <<"N_GAME_STARTED_NO_JOINING">>} :
        \A fd \in Desc : \A j \in 1 .. Len(batch[fd]) : batch[fd][j] = msg
  BY <1>5
<1>7. /\ msg \in ServerMessage
      /\ \A id \in Desc : msg # <<"N_PLAYER_LEFT", id>> /\ ~Concerns(msg, id)
  BY <1>6 DEF ServerMessage, Concerns
<1> HIDE DEF batch
<1>8. CASE SendKills(batch, peer)
  BY <1>8, KilledAnnouncements
<1>9. CASE Send(batch, peer) /\ UNCHANGED <<server, open, people>>
  BY <1>3, <1>6, <1>7, <1>9, SentAnnouncements
<1> QED
  BY <1>4, <1>8, <1>9

LEMMA NameAnnouncements ==
  ASSUME IInv, Announcements, NEW fd \in Desc, NameCommand(fd)
  PROVE  Announcements'
<1> USE DEF people
<1>1. ServerTypes /\ WorldTypes /\ SeatsAreOpen /\ OnTheWay
  BY DEF IInv
<1> DEFINE name == Parsed(fd)
           msg == <<"N_PLAYER_CHANGED_NAME", fd, name>>
           news == ToAll(clients, msg)
           p == FirstPlace(fd)
<1>2. /\ Serving(fd) /\ outbox[fd] # <<>> /\ get_msg_code(Head(outbox[fd])) = "N_SEND_NAME"
      /\ \/ /\ Send(news, peer)
            /\ clients' = [clients EXCEPT ![p].name = name]
            /\ UNCHANGED <<client_count, master, pc, from_logic, open, backlog, people>>
         \/ SendKills(news, peer)
  BY DEF NameCommand, Command
<1>3. name \in Text
  BY <1>1, <1>2, WhatIsParsed
<1>4. fd \in master
  BY <1>1, <1>2, ServedClient DEF SeatsAreOpen
<1> HIDE DEF name, p
<1>5. /\ msg \in ServerMessage
      /\ \A id \in Desc : msg # <<"N_PLAYER_LEFT", id>> /\ (Concerns(msg, id) => id \in master)
  BY <1>3, <1>4 DEF ServerMessage, Concerns
<1> HIDE DEF msg
<1>6. news \in [Desc -> Seq(ServerMessage)]
  BY <1>1, <1>5, ListedClients, ToAllType
<1>7. \A d \in Desc : \A j \in 1 .. Len(news[d]) : news[d][j] = msg
  BY <1>1, ListedClients, ToAllCopies
<1> HIDE DEF news
<1>8. CASE SendKills(news, peer)
  BY <1>8, KilledAnnouncements
<1>9. ASSUME Send(news, peer), clients' = [clients EXCEPT ![p].name = name],
             UNCHANGED <<client_count, master, pc, from_logic, open, backlog, people>>
      PROVE  Announcements'
  <2>1. Len(clients') = Len(clients) /\ \A i \in 1 .. Len(clients) : clients'[i].sock = clients[i].sock
    <3> DEFINE n == Len(clients)
    <3>1. /\ clients \in Seq([sock : Desc, name : Name \cup {<<>>}]) /\ n \in Nat
          /\ \A i \in 1 .. n : clients[i] \in [sock : Desc, name : Name \cup {<<>>}]
          /\ DOMAIN clients = 1 .. n
      BY <1>1, ListedClients DEF ServerTypes
    <3>2. Len(clients') = n
      BY <1>9, <3>1
    <3>3. \A i \in 1 .. n : clients'[i].sock = clients[i].sock
      BY <1>9, <3>1
    <3> QED
      BY <3>2, <3>3
  <2> QED
    BY <1>5, <1>6, <1>7, <1>9, <2>1, SentAnnouncements
<1> QED
  BY <1>2, <1>8, <1>9

(* Only standard output is ever closed, when there is no seat left.        *)
LEMMA TurnAwayAnnouncements ==
  ASSUME IInv, Announcements, TurnAway
  PROVE  Announcements'
<1> USE DEF people
<1>1. ServerTypes /\ WorldTypes /\ SeatsAreCounted
  BY DEF IInv
<1>2. /\ UNCHANGED <<clients, client_count, master, people>>
      /\ pc' = "select" /\ client_count = MAX_CLIENT_COUNT
  BY DEF TurnAway, Full
<1>3. CASE Free # {}
  <2>1. UNCHANGED <<open, peer, inbox>>
    BY <1>3 DEF TurnAway
  <2> QED
    BY <1>2, <2>1, QuietStep
<1>4. CASE Free = {}
  <2>1. /\ open' = open \ {STDOUT}
        /\ peer' = [peer EXCEPT ![STDOUT] = "none"]
        /\ inbox' = [inbox EXCEPT ![STDOUT] = <<>>]
    BY <1>4 DEF TurnAway
  <2>2. \A d \in Desc : /\ d # STDOUT => inbox'[d] = inbox[d] /\ peer'[d] = peer[d]
                        /\ d = STDOUT => inbox'[d] = <<>> /\ peer'[d] # "up"
    BY <1>1, <2>1 DEF WorldTypes
  <2>3. EverybodyIsInformed'
    BY <1>2, <2>2 DEF Announcements, EverybodyIsInformed, Informed, Places
  <2>4. NothingToTheGone'
    BY <2>2 DEF Announcements, NothingToTheGone
  <2>5. StandardOutput'
    <3>1. STDOUT \notin Socks(clients) \ master
      <4>1. client_count \in Nat /\ ~(client_count < MAX_CLIENT_COUNT)
        <5>1. client_count \in Nat
          BY <1>1, ListedClients DEF SeatsAreCounted
        <5> QED
          BY <1>2, <5>1
      <4> QED
        BY <4>1 DEF Announcements, StandardOutput
    <3>2. STDOUT \notin Fd
      BY NetworkAssumption DEF STDOUT, SOCKET_LISTEN
    <3> QED
      BY <1>2, <2>1, <3>1, <3>2 DEF Announcements, StandardOutput, Socks
  <2>6. NoClientCrashes'
    BY <1>2 DEF Announcements, NoClientCrashes
  <2> QED
    BY <2>3, <2>4, <2>5, <2>6 DEF Announcements
<1> QED
  BY <1>3, <1>4

LEMMA DisconnectAnnouncements ==
  ASSUME IInv, Announcements, NEW fd \in Desc, Disconnect(fd)
  PROVE  Announcements'
<1> USE DEF people
<1>1. ServerTypes /\ WorldTypes /\ SeatsAreCounted /\ SeatsAreOpen /\ peer \in [Desc -> Peer]
  BY DEF IInv, WorldTypes
<1> DEFINE msg == <<"N_PLAYER_LEFT", fd>>
           news == ToAllExcept(fd, msg)
           p == FirstPlace(fd)
           left == RemoveAt(clients, p)
           n == Len(clients)
<1>2. /\ Serving(fd) /\ peer[fd] # "up"
      /\ \/ /\ Send(news, peer)
            /\ clients' = left
            /\ client_count' = client_count - 1
            /\ master' = master \ {fd}
            /\ UNCHANGED <<pc, open, people>>
         \/ SendKills(news, peer)
  BY DEF Disconnect, remove_client_data, SeatFreed
<1>3. fd \in master /\ fd \in Socks(clients) /\ pc = "clients"
  BY <1>1, <1>2, ServedClient DEF SeatsAreOpen
<1>4. p \in 1 .. n /\ clients[p].sock = fd /\ n \in Nat
  BY <1>1, <1>3, FirstPlaceOf, ListedClients
<1>5. msg \in ServerMessage
  BY DEF ServerMessage
<1>6. \A d \in Desc : d # fd =>
        /\ news[d] \in Seq(ServerMessage)
        /\ Len(news[d]) = Count(clients, d)
        /\ \A j \in 1 .. Len(news[d]) : news[d][j] = msg
  <2>1. ToAll(clients, msg) \in [Desc -> Seq(ServerMessage)] /\ clients \in Listed
    BY <1>1, <1>5, ListedClients, ToAllType
  <2>2. TAKE d \in Desc
  <2>3. HAVE d # fd
  <2>4. news[d] = ToAll(clients, msg)[d]
    BY <2>1, <2>3 DEF ToAllExcept
  <2> HIDE DEF msg, news
  <2>5. /\ Len(ToAll(clients, msg)[d]) = Count(clients, d)
        /\ \A j \in 1 .. Len(ToAll(clients, msg)[d]) : ToAll(clients, msg)[d][j] = msg
    BY <2>1, ToAllCopies
  <2> QED
    BY <2>1, <2>4, <2>5
<1>7. news \in [Desc -> Seq(ServerMessage)]
  <2>1. ToAll(clients, msg) \in [Desc -> Seq(ServerMessage)]
    BY <1>1, <1>5, ListedClients, ToAllType
  <2>2. <<>> \in Seq(ServerMessage)
    OBVIOUS
  <2> QED
    BY <2>1, <2>2 DEF ToAllExcept
<1>8. \A id \in Desc : msg = <<"N_PLAYER_LEFT", id>> \/ Concerns(msg, id) => id = fd
  BY DEF Concerns
<1> DEFINE R == [sock : Desc, name : Name \cup {<<>>}]
<1>9. /\ left \in Seq(R) /\ Len(left) = n - 1
      /\ \A k \in 1 .. n - 1 : left[k] = clients[IF k < p THEN k ELSE k + 1]
      /\ \A d : Count(left, d) = Count(clients, d) - (IF fd = d THEN 1 ELSE 0)
  <2>1. clients \in Seq(R)
    BY <1>1 DEF ServerTypes
  <2> HIDE DEF R, p
  <2>2. p \in 1 .. Len(clients) /\ clients[p].sock = fd
    BY <1>4
  <2>3. /\ left \in Seq(R) /\ Len(left) = Len(clients) - 1
        /\ \A k \in 1 .. Len(clients) - 1 : left[k] = clients[IF k < p THEN k ELSE k + 1]
    BY <2>1, <2>2, OneLess
  <2>4. \A d : Count(left, d) = Count(clients, d) - (IF fd = d THEN 1 ELSE 0)
    BY <2>1, <2>2, CountShorter
  <2> QED
    BY <2>3, <2>4
<1> HIDE DEF msg, news, left, p, R
<1>10. CASE SendKills(news, peer)
  BY <1>10, KilledAnnouncements
<1>11. ASSUME Send(news, peer),
              clients' = left,
              client_count' = client_count - 1,
              master' = master \ {fd},
              UNCHANGED <<pc, open, people>>
       PROVE  Announcements'
  <2>1. \A d \in Desc :
          /\ peer'[d] = "up" <=> peer[d] = "up"
          /\ inbox'[d] = IF peer[d] = "up" THEN inbox[d] \o news[d] ELSE <<>>
    BY <1>1, <1>7, <1>11, SendEffect
  <2>2. master \subseteq Socks(clients) /\ Socks(clients) \subseteq Desc
    BY <1>1, ListedClients DEF SeatsAreCounted, Socks
  <2>3. EverybodyIsInformed'
    <3>1. ASSUME NEW d \in Desc, peer'[d] = "up"
          PROVE  /\ d \in master \ {fd}
                 /\ Sound(client[d], inbox[d] \o news[d], master \ {fd}, Count(left, d))
      <4>1. d # fd
        BY <1>2, <2>1, <3>1
      <4>2. d \in master /\ Sound(client[d], inbox[d], master, Count(clients, d))
        BY <2>1, <3>1 DEF Announcements, EverybodyIsInformed, Informed, Count, Places
      <4>3. Count(clients, d) \in Nat \ {0} /\ Count(left, d) = Count(clients, d)
        <5>1. Count(clients, d) \in Nat /\ Count(clients, d) >= 1
          BY <1>1, <2>2, <4>2, CountType DEF ServerTypes
        <5> QED
          BY <1>9, <4>1, <5>1
      <4>4. client[d] \in Process /\ inbox[d] \in Seq(ServerMessage)
        BY <1>1 DEF WorldTypes
      <4> DEFINE b == news[d]
                 q == inbox[d]
                 cl == client[d]
                 times == Count(clients, d)
                 after == master \ {fd}
      <4>5. b \in Seq(ServerMessage) /\ Len(b) = times /\ \A j \in 1 .. Len(b) : b[j] = msg
        BY <1>6, <4>1
      <4>6. master \subseteq Desc /\ after \subseteq Desc
        BY <2>2
      <4>7. \A id \in Desc : Concerns(msg, id) => id \in master
        BY <1>3, <1>8
      <4>8. \A id \in after : id \in master /\ msg # <<"N_PLAYER_LEFT", id>>
        BY <1>8, <4>6
      <4> HIDE DEF b, q, cl, times, after
      <4>9. Sound(cl, q \o b, after, times)
        BY <1>5, <4>2, <4>3, <4>4, <4>5, <4>6, <4>7, <4>8, SoundSent DEF cl, q, times
      <4> QED
        BY <4>1, <4>2, <4>3, <4>9 DEF b, q, cl, times, after
    <3> QED
      BY <1>11, <2>1, <3>1 DEF EverybodyIsInformed, Informed, Places, Count
  <2>4. NothingToTheGone'
    BY <2>1 DEF NothingToTheGone
  <2>5. StandardOutput'
    <3>1. master \subseteq open
      BY <1>3 DEF Announcements, StandardOutput
    <3> DEFINE from(k) == IF k < p THEN k ELSE k + 1
    <3>2. \A k \in 1 .. n - 1 : from(k) \in 1 .. n /\ from(k) # p /\ left[k] = clients[from(k)]
      BY <1>4, <1>9
    <3>3. \A k, l \in 1 .. n - 1 : from(k) = from(l) => k = l
      BY <1>4
    <3> HIDE DEF from
    <3>4. Socks(left) \subseteq Socks(clients)
      BY <1>9, <3>2 DEF Socks, n
    <3>5. ASSUME STDOUT \in Socks(left) \ (master \ {fd})
          PROVE  client_count - 1 < MAX_CLIENT_COUNT /\ Desc \subseteq open
      <4>1. client_count \in Nat /\ client_count <= MAX_CLIENT_COUNT /\ MAX_CLIENT_COUNT \in Nat
        BY <1>1, <1>4, NetworkAssumption DEF SeatsAreCounted, ServerTypes
      <4>2. CASE STDOUT \notin master
        <5>1. STDOUT \in Socks(clients) \ master
          BY <3>4, <3>5, <4>2
        <5> QED
          BY <4>1, <5>1 DEF Announcements, StandardOutput
      <4>3. CASE STDOUT \in master
        <5>1. fd = STDOUT
          BY <3>5, <4>3
        <5>2. PICK k \in 1 .. n - 1 : left[k].sock = STDOUT
          BY <1>9, <3>5 DEF Socks
        <5>3. from(k) \in 1 .. n /\ from(k) # p /\ clients[from(k)].sock = STDOUT
          BY <3>2, <5>2
        <5>4. Fd \subseteq open
          BY <1>4, <5>1, <5>3 DEF Announcements, StandardOutput
        <5> QED
          BY <3>1, <4>1, <4>3, <5>4 DEF Desc
      <4> QED
        BY <4>2, <4>3
    <3>6. ASSUME NEW k \in 1 .. n - 1, NEW l \in 1 .. n - 1,
                 left[k].sock = STDOUT, left[l].sock = STDOUT, k # l
          PROVE  Fd \subseteq open
      <4>1. /\ from(k) \in 1 .. n /\ clients[from(k)].sock = STDOUT
            /\ from(l) \in 1 .. n /\ clients[from(l)].sock = STDOUT
            /\ from(k) # from(l)
        BY <3>2, <3>3, <3>6
      <4> QED
        BY <4>1 DEF Announcements, StandardOutput
    <3> QED
      BY <1>9, <1>11, <3>1, <3>5, <3>6 DEF StandardOutput
  <2>6. NoClientCrashes'
    BY <1>11 DEF Announcements, NoClientCrashes
  <2> QED
    BY <2>3, <2>4, <2>5, <2>6 DEF Announcements
<1> QED
  BY <1>2, <1>10, <1>11

(* Messages of which none announces a departure: everybody who is          *)
(* announced by one of them is counted once more.                          *)
LEMMA TallyWelcomed ==
  ASSUME NEW cl \in Process, NEW q \in Seq(ServerMessage), NEW c \in Seq(ServerMessage),
         NEW id, \A j \in 1 .. Len(c) : c[j] # <<"N_PLAYER_LEFT", id>>
  PROVE  /\ \A k \in 1 .. Len(q) + 1 : Tally(cl, q \o c, id, k) = Tally(cl, q, id, k)
         /\ (\E j \in 1 .. Len(c) : Announces(c[j], id)) =>
              Tally(cl, q \o c, id, Len(q \o c) + 1) >= Tally(cl, q, id, Len(q) + 1) + 1
<1> DEFINE r == q \o c
           n == Len(q)
           m == Len(c)
<1>1. n \in Nat /\ m \in Nat
  BY LenProperties
<1>2. /\ r \in Seq(ServerMessage) /\ Len(r) = n + m
      /\ \A k \in 1 .. n + m : r[k] = IF k <= n THEN q[k] ELSE c[k - n]
  BY ConcatProperties
<1>3. \A k \in 1 .. n : r[k] = q[k]
  BY <1>1, <1>2
<1> HIDE DEF r, n, m
<1>4. \A k \in 1 .. n + 1 : Tally(cl, r, id, k) = Tally(cl, q, id, k)
  <2>1. TAKE k \in 1 .. n + 1
  <2>2. \A h \in 1 .. k - 1 : r[h] = q[h]
    BY <1>1, <1>3
  <2> QED
    BY <2>2, TallySame
<1>5. ASSUME NEW j \in 1 .. m, Announces(c[j], id)
      PROVE  Tally(cl, r, id, Len(r) + 1) >= Tally(cl, q, id, n + 1) + 1
  <2> DEFINE before == Joins(q, id, n + 1)
             after == Joins(r, id, n + m + 1)
             gone == Leaves(q, id, n + 1)
  <2>1. (n + 1) - 1 = n /\ (n + m + 1) - 1 = n + m /\ n + j \in 1 .. n + m /\ n + j \notin 1 .. n
        /\ 1 .. n \subseteq 1 .. n + m /\ ~(n + j <= n) /\ (n + j) - n = j
        /\ n + 1 \in Nat /\ n + m + 1 \in Nat
    BY <1>1
  <2>2. r[n + j] = c[j]
    <3>1. r[n + j] = c[(n + j) - n]
      BY <1>2, <2>1
    <3> QED
      BY <2>1, <3>1
  <2>3. before \cup {n + j} \subseteq after /\ n + j \notin before
    <3>1. /\ before = {h \in 1 .. n : Announces(q[h], id)}
          /\ after = {h \in 1 .. n + m : Announces(r[h], id)}
      <4>1. before = {h \in 1 .. (n + 1) - 1 : Announces(q[h], id)}
        BY DEF Joins
      <4>2. after = {h \in 1 .. (n + m + 1) - 1 : Announces(r[h], id)}
        BY DEF Joins
      <4> QED
        BY <2>1, <4>1, <4>2
    <3>2. \A h \in 1 .. n : r[h] = q[h] /\ h \in 1 .. n + m
      BY <1>3, <2>1
    <3> HIDE DEF before, after
    <3> QED
      BY <1>5, <2>1, <2>2, <3>1, <3>2
  <2>4. Leaves(r, id, n + m + 1) = gone
    <3>1. ASSUME NEW h \in 1 .. n + m, r[h] = <<"N_PLAYER_LEFT", id>>
          PROVE  h \in 1 .. n
      <4>1. CASE h <= n
        BY <1>1, <4>1
      <4>2. CASE ~(h <= n)
        <5>1. h - n \in 1 .. m /\ r[h] = c[h - n]
          BY <1>1, <1>2, <4>2
        <5> QED
          BY <3>1, <5>1 DEF m
      <4> QED
        BY <4>1, <4>2
    <3>2. /\ Leaves(r, id, n + m + 1) = {h \in 1 .. n + m : r[h] = <<"N_PLAYER_LEFT", id>>}
          /\ gone = {h \in 1 .. n : q[h] = <<"N_PLAYER_LEFT", id>>}
      <4>1. Leaves(r, id, n + m + 1) = {h \in 1 .. (n + m + 1) - 1 : r[h] = <<"N_PLAYER_LEFT", id>>}
        BY DEF Leaves
      <4>2. gone = {h \in 1 .. (n + 1) - 1 : q[h] = <<"N_PLAYER_LEFT", id>>}
        BY DEF Leaves
      <4> QED
        BY <2>1, <4>1, <4>2
    <3> QED
      BY <1>3, <2>1, <3>1, <3>2
  <2>5. /\ IsFiniteSet(before) /\ Cardinality(before) \in Nat
        /\ IsFiniteSet(after) /\ Cardinality(after) \in Nat
        /\ Cardinality(gone) \in Nat
    BY <1>2, <2>1, TallyType
  <2> HIDE DEF before, after, gone
  <2>6. Cardinality(before \cup {n + j}) = Cardinality(before) + 1
    BY <2>3, <2>5, FS_AddElement
  <2>7. Cardinality(before \cup {n + j}) <= Cardinality(after)
    BY <2>3, <2>5, FS_Subset
  <2>8. /\ Tally(cl, q, id, n + 1) = Times(cl, id) + Cardinality(before) - Cardinality(gone)
        /\ Tally(cl, r, id, n + m + 1) = Times(cl, id) + Cardinality(after) - Cardinality(gone)
    BY <2>4 DEF Tally, Times, before, after, gone
  <2>9. Times(cl, id) \in Nat /\ Len(r) + 1 = n + m + 1
    BY <1>1, <1>2, TimesType
  <2> QED
    BY <2>5, <2>6, <2>7, <2>8, <2>9
<1> QED
  BY <1>4, <1>5 DEF r, n, m

(* The messages of the greeting. *)
LEMMA GreetingSays ==
  ASSUME ServerTypes
  PROVE  /\ Greeting(clients) \in Seq(ServerMessage)
         /\ Len(Greeting(clients)) = Len(clients) + 1
         /\ Greeting(clients)[1] = <<"N_GAME_NOT_FULL">>
         /\ \A i \in 1 .. Len(clients) :
              Greeting(clients)[i + 1] = <<"N_PLAYER_JOIN", clients[i].sock, clients[i].name>>
<1> DEFINE roster == RosterOf(clients)
           greeting == Greeting(clients)
           n == Len(clients)
<1>0. n \in Nat /\ \A i \in 1 .. n : clients[i].sock \in Desc /\ clients[i].name \in Text
  BY ListedClients
<1>1. /\ roster \in Seq(ServerMessage) /\ Len(roster) = n
      /\ \A i \in 1 .. n : roster[i] = <<"N_PLAYER_JOIN", clients[i].sock, clients[i].name>>
  <2>1. \A i \in 1 .. n :
          <<"N_PLAYER_JOIN", clients[i].sock, clients[i].name>> \in ServerMessage
    BY <1>0 DEF ServerMessage
  <2> HIDE DEF n
  <2> QED
    BY <1>0, <2>1 DEF RosterOf, n
<1> DEFINE hello == << <<"N_GAME_NOT_FULL">> >>
<1>2. hello \in Seq(ServerMessage) /\ Len(hello) = 1 /\ hello[1] = <<"N_GAME_NOT_FULL">>
  <2>1. <<"N_GAME_NOT_FULL">> \in ServerMessage
    BY DEF ServerMessage
  <2> QED
    BY <2>1
<1>3. greeting = hello \o roster
  BY DEF Greeting
<1> HIDE DEF hello, roster, greeting, n
<1>4. /\ greeting \in Seq(ServerMessage) /\ Len(greeting) = 1 + n
      /\ \A i \in 1 .. 1 + n : greeting[i] = IF i <= 1 THEN hello[i] ELSE roster[i - 1]
  <2>1. /\ hello \o roster \in Seq(ServerMessage)
        /\ Len(hello \o roster) = Len(hello) + Len(roster)
        /\ \A i \in 1 .. Len(hello) + Len(roster) :
             (hello \o roster)[i] = IF i <= Len(hello) THEN hello[i] ELSE roster[i - Len(hello)]
    BY <1>1, <1>2, ConcatProperties
  <2> QED
    BY <1>1, <1>2, <1>3, <2>1
<1>5. greeting[1] = <<"N_GAME_NOT_FULL">>
  BY <1>0, <1>2, <1>4
<1>6. ASSUME NEW i \in 1 .. n
      PROVE  greeting[i + 1] = <<"N_PLAYER_JOIN", clients[i].sock, clients[i].name>>
  <2>1. i + 1 \in 1 .. 1 + n /\ ~(i + 1 <= 1) /\ i + 1 - 1 = i
    BY <1>0
  <2> QED
    BY <1>1, <1>4, <2>1
<1> QED
  BY <1>0, <1>4, <1>5, <1>6 DEF greeting, n

(* What a newcomer is sent: the greeting, everybody in the list and itself *)
(* by name, and nothing that could be about somebody unknown.              *)
LEMMA WelcomeSays ==
  ASSUME ServerTypes, NEW sock \in Desc
  PROVE  LET c == Welcome(sock)[sock]
         IN  /\ c \in Seq(ServerMessage) /\ c # <<>> /\ c[1] = <<"N_GAME_NOT_FULL">>
             /\ \A id \in Desc : \A j \in 1 .. Len(c) :
                  c[j] # <<"N_PLAYER_LEFT", id>> /\ ~Concerns(c[j], id)
             /\ \A id \in Socks(clients) \cup {sock} : \E j \in 1 .. Len(c) : Announces(c[j], id)
<1> DEFINE greeting == Greeting(clients)
           news == ToAll(create_client_data(sock), JoinOf(sock))[sock]
           id_msg == << <<"N_SEND_ID", sock>> >>
           rest == news \o id_msg
           c == Welcome(sock)[sock]
           n == Len(clients)
           m == Len(news)
<1>1. c = greeting \o rest
  BY WelcomeParts DEF Then, ToOne
<1>2. n \in Nat /\ \A i \in 1 .. n : clients[i].sock \in Desc /\ clients[i].name \in Text
  BY ListedClients
<1>3. /\ greeting \in Seq(ServerMessage) /\ Len(greeting) = n + 1
      /\ greeting[1] = <<"N_GAME_NOT_FULL">>
      /\ \A i \in 1 .. n : greeting[i + 1] = <<"N_PLAYER_JOIN", clients[i].sock, clients[i].name>>
  BY GreetingSays
<1>4. /\ news \in Seq(ServerMessage) /\ m >= 1 /\ m \in Nat
      /\ \A j \in 1 .. m : news[j] = JoinOf(sock)
  <2> DEFINE list == create_client_data(sock)
             all == ToAll(list, JoinOf(sock))
  <2>1. list \in Listed /\ JoinOf(sock) \in ServerMessage /\ sock \in Socks(list)
    BY WelcomeParts, NewcomerListed
  <2> HIDE DEF list
  <2>2. all \in [Desc -> Seq(ServerMessage)]
    BY <2>1, ToAllType
  <2>3. Len(all[sock]) = Count(list, sock) /\ \A j \in 1 .. Len(all[sock]) : all[sock][j] = JoinOf(sock)
    BY <2>1, ToAllCopies
  <2>4. Count(list, sock) \in Nat /\ Count(list, sock) >= 1
    BY <2>1, CountType DEF Listed
  <2> QED
    BY <2>2, <2>3, <2>4 DEF list
<1>5. id_msg \in Seq(ServerMessage) /\ Len(id_msg) = 1 /\ id_msg[1] = <<"N_SEND_ID", sock>>
  BY WelcomeParts
<1> HIDE DEF greeting, news, id_msg, c, n, m
<1>6. /\ rest \in Seq(ServerMessage) /\ Len(rest) = m + 1
      /\ \A j \in 1 .. m + 1 : rest[j] = IF j <= m THEN news[j] ELSE id_msg[j - m]
  <2>1. news \in Seq(ServerMessage) /\ id_msg \in Seq(ServerMessage)
    BY <1>4, <1>5
  <2>2. /\ news \o id_msg \in Seq(ServerMessage)
        /\ Len(news \o id_msg) = Len(news) + Len(id_msg)
        /\ \A j \in 1 .. Len(news) + Len(id_msg) :
             (news \o id_msg)[j] = IF j <= Len(news) THEN news[j] ELSE id_msg[j - Len(news)]
    BY ONLY <2>1, ConcatProperties
  <2> QED
    BY <1>5, <2>2 DEF m
<1> HIDE DEF rest
<1>7. /\ c \in Seq(ServerMessage) /\ Len(c) = (n + 1) + (m + 1)
      /\ \A j \in 1 .. (n + 1) + (m + 1) :
           c[j] = IF j <= n + 1 THEN greeting[j] ELSE rest[j - (n + 1)]
  <2>1. /\ greeting \o rest \in Seq(ServerMessage)
        /\ Len(greeting \o rest) = Len(greeting) + Len(rest)
        /\ \A j \in 1 .. Len(greeting) + Len(rest) :
             (greeting \o rest)[j] = IF j <= Len(greeting) THEN greeting[j] ELSE rest[j - Len(greeting)]
    BY <1>3, <1>6, ConcatProperties
  <2> QED
    BY <1>1, <1>3, <1>6, <2>1
<1>8. ASSUME NEW j \in 1 .. Len(c)
      PROVE  \/ c[j] = <<"N_GAME_NOT_FULL">>
             \/ \E i \in 1 .. n : c[j] = <<"N_PLAYER_JOIN", clients[i].sock, clients[i].name>>
             \/ c[j] = JoinOf(sock)
             \/ c[j] = <<"N_SEND_ID", sock>>
  <2>1. j \in 1 .. (n + 1) + (m + 1)
    BY <1>7
  <2>2. CASE j <= n + 1
    <3>1. c[j] = greeting[j]
      BY <1>7, <2>1, <2>2
    <3>2. CASE j = 1
      BY <1>3, <3>1, <3>2
    <3>3. CASE j # 1
      <4>1. j - 1 \in 1 .. n /\ j - 1 + 1 = j
        BY <1>2, <2>1, <2>2, <3>3
      <4> QED
        BY <1>3, <3>1, <4>1
    <3> QED
      BY <3>2, <3>3
  <2>3. CASE ~(j <= n + 1)
    <3> DEFINE h == j - (n + 1)
    <3>1. h \in 1 .. m + 1 /\ c[j] = rest[h]
      BY <1>2, <1>4, <1>7, <2>1, <2>3
    <3> HIDE DEF h
    <3>2. CASE h <= m
      <4>1. h \in 1 .. m
        BY <1>4, <3>1, <3>2
      <4> QED
        BY <1>4, <1>6, <3>1, <3>2, <4>1
    <3>3. CASE ~(h <= m)
      <4>1. h - m = 1
        BY <1>4, <3>1, <3>3
      <4> QED
        BY <1>5, <1>6, <3>1, <3>3, <4>1
    <3> QED
      BY <3>2, <3>3
  <2> QED
    BY <2>2, <2>3
<1>9. ASSUME NEW id \in Desc, NEW j \in 1 .. Len(c)
      PROVE  c[j] # <<"N_PLAYER_LEFT", id>> /\ ~Concerns(c[j], id)
  BY <1>8 DEF JoinOf, Concerns
<1>10. c # <<>> /\ c[1] = <<"N_GAME_NOT_FULL">>
  <2>1. 1 \in 1 .. (n + 1) + (m + 1) /\ 1 <= n + 1 /\ Len(c) # 0
    BY <1>2, <1>4, <1>7
  <2> QED
    BY <1>3, <1>7, <2>1, EmptySeq
<1>11. ASSUME NEW id \in Socks(clients) PROVE \E j \in 1 .. Len(c) : Announces(c[j], id)
  <2>1. PICK i \in 1 .. n : clients[i].sock = id
    BY <1>11 DEF Socks, n
  <2>2. i + 1 \in 1 .. (n + 1) + (m + 1) /\ i + 1 <= n + 1
    BY <1>2, <1>4
  <2>3. c[i + 1] = <<"N_PLAYER_JOIN", clients[i].sock, clients[i].name>>
    BY <1>3, <1>7, <2>2
  <2> QED
    BY <1>7, <2>1, <2>2, <2>3 DEF Announces
<1>12. \E j \in 1 .. Len(c) : Announces(c[j], sock)
  <2> DEFINE j == (n + 1) + 1
  <2>1. j \in 1 .. (n + 1) + (m + 1) /\ ~(j <= n + 1) /\ j - (n + 1) = 1
        /\ 1 \in 1 .. m + 1 /\ 1 <= m /\ 1 \in 1 .. m
    BY <1>2, <1>4
  <2>2. c[j] = rest[1] /\ rest[1] = news[1] /\ news[1] = JoinOf(sock)
    BY <1>4, <1>6, <1>7, <2>1
  <2>3. Announces(c[j], sock)
    BY <2>2 DEF Announces, JoinOf
  <2> QED
    BY <1>7, <2>1, <2>3
<1> QED
  BY <1>7, <1>9, <1>10, <1>11, <1>12 DEF c

(* What the others are sent of it: the newcomer's name, once per entry.    *)
LEMMA WelcomeTells ==
  ASSUME ServerTypes, NEW sock \in Desc, NEW d \in Desc, d # sock
  PROVE  /\ Welcome(sock)[d] \in Seq(ServerMessage)
         /\ Len(Welcome(sock)[d]) = Count(clients, d)
         /\ \A j \in 1 .. Len(Welcome(sock)[d]) : Welcome(sock)[d][j] = JoinOf(sock)
<1> DEFINE list == create_client_data(sock)
           all == ToAll(list, JoinOf(sock))
           n == Len(clients)
<1>1. list \in Listed /\ JoinOf(sock) \in ServerMessage
  BY WelcomeParts
<1>2. Len(list) = n + 1 /\ (\A i \in 1 .. n : list[i] = clients[i]) /\ list[n + 1].sock = sock
  <2>1. /\ Len(list) = n + 1 /\ (\A i \in 1 .. n : list[i] = clients[i])
        /\ list[n + 1] = [sock |-> sock, name |-> <<>>]
    BY NewcomerListed
  <2> HIDE DEF list
  <2> QED
    BY <2>1
<1>3. Welcome(sock)[d] = <<>> \o (all[d] \o <<>>)
  BY WelcomeParts DEF Then, ToOne
<1> HIDE DEF list
<1>4. all \in [Desc -> Seq(ServerMessage)]
  BY <1>1, ToAllType
<1>5. Len(all[d]) = Count(list, d) /\ \A j \in 1 .. Len(all[d]) : all[d][j] = JoinOf(sock)
  BY <1>1, ToAllCopies
<1>6. all[d] \in Seq(ServerMessage)
  BY <1>4
<1> HIDE DEF all
<1>7. Welcome(sock)[d] = all[d]
  <2>1. all[d] \o <<>> = all[d] /\ <<>> \o all[d] = all[d]
    BY <1>6, ConcatEmptySeq
  <2> QED
    BY <1>3, <2>1
<1>8. Count(list, d) = Count(clients, d)
  <2>1. Count(list, d) = Count(clients, d) + (IF list[n + 1].sock = d THEN 1 ELSE 0)
    BY <1>2, CountLonger DEF ServerTypes
  <2>2. Count(clients, d) \in Nat
    BY CountType DEF ServerTypes
  <2> QED
    BY <1>2, <2>1, <2>2
<1> QED
  BY <1>5, <1>6, <1>7, <1>8

(* An accept() that succeeds gives a number that nobody is known by: no    *)
(* entry of the list has it, and nothing waits for its reader.             *)
LEMMA NewcomerIsNew ==
  ASSUME IInv, Announcements, pc = "accept", NEW fd \in Desc, fd \notin open
  PROVE  fd \notin Socks(clients) /\ peer[fd] # "up" /\ inbox[fd] = <<>>
<1>1. SeatsAreCounted /\ SeatsAreOpen
  BY DEF IInv
<1>2. master \subseteq open
  BY DEF Announcements, StandardOutput
<1>3. fd \notin Socks(clients)
  <2>1. CASE fd = STDOUT
    <3>1. ~(Desc \subseteq open)
      BY <2>1
    <3>2. STDOUT \notin Socks(clients) \ master
      BY <3>1 DEF Announcements, StandardOutput
    <3> QED
      BY <1>2, <2>1, <3>2
  <2>2. CASE fd # STDOUT
    BY <1>1, <2>2 DEF SeatsAreOpen
  <2> QED
    BY <2>1, <2>2
<1>4. peer[fd] # "up"
  BY <1>2 DEF Announcements, EverybodyIsInformed, Informed
<1>5. inbox[fd] = <<>>
  BY <1>4 DEF Announcements, NothingToTheGone
<1> QED
  BY <1>3, <1>4, <1>5

(* The newcomer knows everybody from the start; and a client on standard   *)
(* output, when accept() fails, is told of everybody once more.            *)
LEMMA SoundWelcomed ==
  ASSUME NEW cl \in Process, NEW q \in Seq(ServerMessage), NEW c \in Seq(ServerMessage),
         NEW ids, ids \subseteq Desc, NEW times \in Nat,
         \A id \in Desc : \A j \in 1 .. Len(c) :
           c[j] # <<"N_PLAYER_LEFT", id>> /\ ~Concerns(c[j], id),
         \A id \in ids : \E j \in 1 .. Len(c) : Announces(c[j], id),
         \A id \in ids : Tally(cl, q, id, Len(q) + 1) >= times,
         \A id \in Desc : \A k \in 1 .. Len(q) : Concerns(q[k], id) => Tally(cl, q, id, k) >= 1,
         cl.phase = "greet" => (q \o c) # <<>> /\ (q \o c)[1] = <<"N_GAME_NOT_FULL">>
  PROVE  Sound(cl, q \o c, ids, times + 1)
<1> DEFINE r == q \o c
           n == Len(q)
           m == Len(c)
<1>1. n \in Nat /\ m \in Nat
  BY LenProperties
<1>2. /\ r \in Seq(ServerMessage) /\ Len(r) = n + m
      /\ \A k \in 1 .. n + m : r[k] = IF k <= n THEN q[k] ELSE c[k - n]
  BY ConcatProperties
<1>3. ASSUME NEW id \in Desc
      PROVE  /\ \A k \in 1 .. n + 1 : Tally(cl, r, id, k) = Tally(cl, q, id, k)
             /\ (\E j \in 1 .. m : Announces(c[j], id)) =>
                  Tally(cl, r, id, Len(r) + 1) >= Tally(cl, q, id, n + 1) + 1
  <2>1. \A j \in 1 .. Len(c) : c[j] # <<"N_PLAYER_LEFT", id>>
    OBVIOUS
  <2> QED
    BY <2>1, TallyWelcomed
<1>4. ASSUME NEW id \in ids PROVE Tally(cl, r, id, Len(r) + 1) >= times + 1
  <2>1. Tally(cl, r, id, Len(r) + 1) >= Tally(cl, q, id, n + 1) + 1
    BY <1>3
  <2>2. Tally(cl, q, id, n + 1) \in Int /\ Tally(cl, r, id, Len(r) + 1) \in Int
    <3>1. n + 1 \in Nat /\ Len(r) + 1 \in Nat
      BY <1>1, <1>2
    <3> QED
      BY <1>2, <3>1, TallyType
  <2> QED
    BY <2>1, <2>2
<1> HIDE DEF r, n, m
<1>5. ASSUME NEW id \in Desc, NEW k \in 1 .. Len(r), Concerns(r[k], id)
      PROVE  Tally(cl, r, id, k) >= 1
  <2>1. k \in 1 .. n + m
    BY <1>2
  <2>2. CASE k <= n
    <3>1. k \in 1 .. n /\ k \in 1 .. n + 1 /\ r[k] = q[k]
      BY <1>1, <1>2, <2>1, <2>2
    <3> QED
      BY <1>3, <1>5, <3>1 DEF n
  <2>3. CASE ~(k <= n)
    <3>1. k - n \in 1 .. m /\ r[k] = c[k - n]
      BY <1>1, <1>2, <2>1, <2>3
    <3> QED
      BY <1>5, <3>1 DEF m
  <2> QED
    BY <2>2, <2>3
<1> QED
  BY <1>4, <1>5 DEF Sound, r

LEMMA LetInAnnouncements ==
  ASSUME IInv, Announcements, LetIn
  PROVE  Announcements'
<1> DEFINE w == wait_for_client
           n == Len(clients)
<1>1. ServerTypes /\ WorldTypes /\ SeatsAreCounted /\ SeatsAreOpen
  BY DEF IInv
<1>2. /\ w \in Desc /\ (w # STDOUT => w \in Free) /\ (Free # {} => w \in Free)
      /\ (Free = {} => w = STDOUT)
  BY <1>1, AcceptGives DEF wait_for_client
<1>3. Welcome(w) \in [Desc -> Seq(ServerMessage)]
  BY <1>1, <1>2, WelcomeType
<1>4. pc = "accept" /\ master \subseteq open
  BY DEF LetIn, Announcements, StandardOutput
<1>5. PICK end \in {"up", "fin"} :
        \/ /\ Send(Welcome(w), Accepted(end))
           /\ clients' = create_client_data(w)
           /\ master' = master \cup {w}
           /\ open' = open \cup {w}
           /\ client' = IF Free = {} THEN client
                        ELSE [client EXCEPT ![w] =
                                IF end = "up" THEN NewClient
                                              ELSE [NewClient EXCEPT !.phase = "exited"]]
        \/ SendKills(Welcome(w), Accepted(end))
  BY DEF LetIn
<1> DEFINE batch == Welcome(w)
           ends == Accepted(end)
           list == create_client_data(w)
<1>6. peer \in [Desc -> Peer] /\ end \in Peer
  BY <1>1 DEF WorldTypes, Peer
<1>7. /\ ends \in [Desc -> Peer]
      /\ \A d \in Desc : ends[d] = IF Free # {} /\ d = w THEN end ELSE peer[d]
  BY <1>2, <1>6 DEF Accepted
<1>8. /\ Len(list) = n + 1 /\ n \in Nat
      /\ \A i \in 1 .. n : list[i] = clients[i]
      /\ list[n + 1].sock = w
      /\ Socks(list) = Socks(clients) \cup {w}
  <2>1. /\ Len(list) = n + 1 /\ (\A i \in 1 .. n : list[i] = clients[i])
        /\ list[n + 1] = [sock |-> w, name |-> <<>>]
        /\ Socks(list) = Socks(clients) \cup {w}
    <3> HIDE DEF w
    <3> QED
      BY <1>1, <1>2, NewcomerListed
  <2>2. n \in Nat
    BY <1>1, ListedClients
  <2> HIDE DEF w, list
  <2> QED
    BY <2>1, <2>2
<1>9. \A d : Count(list, d) = Count(clients, d) + (IF w = d THEN 1 ELSE 0)
  <2>1. TAKE d
  <2> HIDE DEF w, list
  <2> QED
    BY <1>1, <1>8, CountLonger DEF ServerTypes
<1>10. \A d \in Desc : d # w =>
         /\ batch[d] \in Seq(ServerMessage)
         /\ Len(batch[d]) = Count(clients, d)
         /\ \A j \in 1 .. Len(batch[d]) : batch[d][j] = JoinOf(w)
  BY <1>1, <1>2, WelcomeTells
<1>11. /\ batch[w] \in Seq(ServerMessage) /\ batch[w] # <<>> /\ batch[w][1] = <<"N_GAME_NOT_FULL">>
       /\ \A id \in Desc : \A j \in 1 .. Len(batch[w]) :
            batch[w][j] # <<"N_PLAYER_LEFT", id>> /\ ~Concerns(batch[w][j], id)
       /\ \A id \in Socks(clients) \cup {w} : \E j \in 1 .. Len(batch[w]) : Announces(batch[w][j], id)
  BY <1>1, <1>2, WelcomeSays
<1>12. w \notin open => w \notin Socks(clients) /\ peer[w] # "up" /\ inbox[w] = <<>>
  BY <1>2, <1>4, NewcomerIsNew
<1>13. Free # {} => w \notin open
  BY <1>2 DEF Free
<1>14. JoinOf(w) \in ServerMessage
  BY <1>1, <1>2, WelcomeParts
<1>15. master \subseteq Socks(clients) /\ Socks(clients) \subseteq Desc
  BY <1>1, ListedClients DEF SeatsAreCounted, Socks
<1> HIDE DEF w, batch, ends, list, n
<1>16. CASE SendKills(batch, ends)
  BY <1>16, KilledAnnouncements
<1>17. ASSUME Send(batch, ends),
              clients' = list,
              master' = master \cup {w},
              open' = open \cup {w},
              client' = IF Free = {} THEN client
                        ELSE [client EXCEPT ![w] =
                                IF end = "up" THEN NewClient
                                              ELSE [NewClient EXCEPT !.phase = "exited"]]
       PROVE  Announcements'
  <2>1. \A d \in Desc :
          /\ peer'[d] = "up" <=> ends[d] = "up"
          /\ inbox'[d] = IF ends[d] = "up" THEN inbox[d] \o batch[d] ELSE <<>>
    <3>1. batch \in [Desc -> Seq(ServerMessage)]
      BY <1>3 DEF batch
    <3> QED
      BY <1>1, <1>7, <1>17, <3>1, SendEffect
  <2>2. \A d \in Desc : client'[d] = IF Free # {} /\ d = w
                                     THEN IF end = "up" THEN NewClient
                                          ELSE [NewClient EXCEPT !.phase = "exited"]
                                     ELSE client[d]
    <3>1. client \in [Desc -> Process]
      BY <1>1 DEF WorldTypes
    <3> QED
      BY <1>2, <1>17, <3>1
  <2> DEFINE after == master \cup {w}
  <2>3. after \subseteq Desc /\ after \subseteq Socks(clients) \cup {w}
    BY <1>2, <1>15
  <2>4. ASSUME NEW d \in Desc, d # w, ends[d] = "up"
        PROVE  d \in after /\ Sound(client[d], inbox[d] \o batch[d], after, Count(list, d))
    <3>1. d \in master /\ Sound(client[d], inbox[d], master, Count(clients, d))
      BY <1>7, <2>4 DEF Announcements, EverybodyIsInformed, Informed, Count, Places
    <3>2. Count(clients, d) \in Nat \ {0} /\ Count(list, d) = Count(clients, d)
      <4>1. Count(clients, d) \in Nat /\ Count(clients, d) >= 1
        BY <1>1, <1>15, <3>1, CountType DEF ServerTypes
      <4> QED
        BY <1>9, <2>4, <4>1
    <3>3. client[d] \in Process /\ inbox[d] \in Seq(ServerMessage)
      BY <1>1 DEF WorldTypes
    <3> DEFINE b == batch[d]
               q == inbox[d]
               cl == client[d]
               times == Count(clients, d)
               msg == JoinOf(w)
    <3>4. b \in Seq(ServerMessage) /\ Len(b) = times /\ \A j \in 1 .. Len(b) : b[j] = msg
      BY <1>10, <2>4
    <3>5. \A id \in Desc : msg # <<"N_PLAYER_LEFT", id>> /\ ~Concerns(msg, id)
      BY DEF JoinOf, Concerns
    <3>6. Announces(msg, w)
      BY DEF JoinOf, Announces
    <3>7. master \subseteq Desc
      BY <1>15
    <3> HIDE DEF b, q, cl, times, msg
    <3>8. \A id \in after : \/ id \in master /\ msg # <<"N_PLAYER_LEFT", id>>
                            \/ Announces(msg, id) /\ Len(b) = times
      BY <3>4, <3>5, <3>6, <3>7
    <3>9. msg \in ServerMessage
      BY <1>14 DEF msg
    <3> HIDE DEF after
    <3>10. Sound(cl, q \o b, after, times)
      BY <2>3, <3>1, <3>2, <3>3, <3>4, <3>5, <3>7, <3>8, <3>9, SoundSent DEF cl, q, times
    <3> QED
      BY <3>1, <3>2, <3>10 DEF b, q, cl, times, after
  <2>5. ASSUME ends[w] = "up"
        PROVE  Sound(client'[w], inbox[w] \o batch[w], after, Count(list, w))
    <3> DEFINE c == batch[w]
               q == inbox[w]
               cl == client'[w]
               times == Count(clients, w)
    <3>1. /\ \A id \in Desc : \A j \in 1 .. Len(c) :
               c[j] # <<"N_PLAYER_LEFT", id>> /\ ~Concerns(c[j], id)
          /\ \A id \in after : \E j \in 1 .. Len(c) : Announces(c[j], id)
          /\ c \in Seq(ServerMessage) /\ c # <<>> /\ c[1] = <<"N_GAME_NOT_FULL">>
      BY <1>11, <2>3
    <3>2. times \in Nat /\ Count(list, w) = times + 1
      <4>1. times \in Nat
        BY <1>1, CountType DEF ServerTypes
      <4> QED
        BY <1>9, <4>1
    <3>3. q \in Seq(ServerMessage) /\ Len(q) \in Nat
      <4>1. q \in Seq(ServerMessage)
        BY <1>1, <1>2 DEF WorldTypes
      <4> QED
        BY <4>1, LenProperties
    <3>4. CASE Free # {}
      <4>1. cl = NewClient /\ q = <<>> /\ w \notin Socks(clients)
        BY <1>2, <1>7, <1>12, <1>13, <2>2, <2>5, <3>4
      <4>2. NewClient \in Process
        BY DEF NewClient, Process, Phase
      <4>3. times = 0
        <5>1. ~(times >= 1)
          BY <1>1, <4>1, CountType DEF ServerTypes
        <5> QED
          BY <3>2, <5>1
      <4>4. Len(q) = 0 /\ q \o c = c
        <5>1. <<>> \o c = c
          BY <3>1, ConcatEmptySeq
        <5> QED
          BY <4>1, <5>1
      <4>5. ASSUME NEW id \in Desc PROVE Tally(NewClient, <<>>, id, 1) >= 0
        <5>1. Tally(NewClient, <<>>, id, 1) = Times(NewClient, id) /\ Times(NewClient, id) \in Nat
          BY <4>2, TallyFirst, TimesType
        <5> QED
          BY <5>1
      <4> HIDE DEF c, q, cl, times, after
      <4>6. \A id \in after : Tally(cl, q, id, Len(q) + 1) >= times
        <5>1. Len(q) + 1 = 1
          BY <4>4
        <5> QED
          BY <2>3, <4>1, <4>3, <4>5, <5>1
      <4>7. \A id \in Desc : \A k \in 1 .. Len(q) : Concerns(q[k], id) => Tally(cl, q, id, k) >= 1
        BY <4>4
      <4>8. (q \o c) # <<>> /\ (q \o c)[1] = <<"N_GAME_NOT_FULL">>
        BY <3>1, <4>4
      <4>9. cl \in Process
        BY <4>1, <4>2
      <4>10. Sound(cl, q \o c, after, times + 1)
        BY <2>3, <3>1, <3>2, <3>3, <4>6, <4>7, <4>8, <4>9, SoundWelcomed
      <4> QED
        BY <3>2, <4>10 DEF c, q, cl
    <3>5. CASE Free = {}
      <4>1. cl = client[w] /\ peer[w] = "up"
        BY <1>2, <1>7, <2>2, <2>5, <3>5
      <4>2. w \in master /\ Sound(cl, q, master, times)
        BY <1>2, <4>1 DEF Announcements, EverybodyIsInformed, Informed, Count, Places
      <4>3. cl \in Process
        BY <1>1, <1>2, <4>1 DEF WorldTypes
      <4>4. after = master
        BY <4>2
      <4> HIDE DEF c, q, cl, times, after
      <4>5. /\ \A id \in after : Tally(cl, q, id, Len(q) + 1) >= times
            /\ \A id \in Desc : \A k \in 1 .. Len(q) : Concerns(q[k], id) => Tally(cl, q, id, k) >= 1
        BY <4>2, <4>4 DEF Sound
      <4>6. cl.phase = "greet" => (q \o c) # <<>> /\ (q \o c)[1] = <<"N_GAME_NOT_FULL">>
        <5>1. SUFFICES ASSUME cl.phase = "greet"
                       PROVE  (q \o c) # <<>> /\ (q \o c)[1] = <<"N_GAME_NOT_FULL">>
          OBVIOUS
        <5>2. q # <<>> /\ q[1] = <<"N_GAME_NOT_FULL">>
          BY <4>2, <5>1 DEF Sound
        <5>3. Len(q) # 0
          BY <3>3, <5>2, EmptySeq
        <5>4. /\ (q \o c) \in Seq(ServerMessage) /\ Len(q \o c) = Len(q) + Len(c)
              /\ \A k \in 1 .. Len(q) + Len(c) : (q \o c)[k] = IF k <= Len(q) THEN q[k] ELSE c[k - Len(q)]
          BY <3>1, <3>3, ConcatProperties
        <5>5. Len(c) \in Nat
          BY <3>1, LenProperties
        <5>6. 1 \in 1 .. Len(q) + Len(c) /\ 1 <= Len(q) /\ Len(q \o c) # 0
          BY <3>3, <5>3, <5>4, <5>5
        <5> QED
          BY <5>2, <5>4, <5>6
      <4>7. Sound(cl, q \o c, after, times + 1)
        BY <2>3, <3>1, <3>2, <3>3, <4>3, <4>5, <4>6, SoundWelcomed
      <4> QED
        BY <3>2, <4>7 DEF c, q, cl
    <3> QED
      BY <3>4, <3>5
  <2>6. EverybodyIsInformed'
    <3>1. ASSUME NEW d \in Desc, peer'[d] = "up"
          PROVE  d \in master' /\ Sound(client'[d], inbox'[d], master', Count(clients', d))
      <4>1. ends[d] = "up" /\ inbox'[d] = inbox[d] \o batch[d]
        BY <2>1, <3>1
      <4>2. CASE d = w
        BY <1>17, <2>5, <4>1, <4>2
      <4>3. CASE d # w
        <5>1. client'[d] = client[d]
          BY <2>2, <4>3
        <5> QED
          BY <1>17, <2>4, <4>1, <4>3, <5>1
      <4> QED
        BY <4>2, <4>3
    <3> QED
      BY <3>1 DEF EverybodyIsInformed, Informed, Places, Count
  <2>7. NothingToTheGone'
    BY <2>1 DEF NothingToTheGone
  <2>8. StandardOutput'
    <3>1. master' \subseteq open'
      BY <1>4, <1>17
    <3>2. STDOUT \notin Socks(list) \ (master \cup {w})
      <4>1. SUFFICES ASSUME STDOUT \in Socks(list) \ (master \cup {w}) PROVE FALSE
        OBVIOUS
      <4>2. STDOUT \in Socks(clients) \ master /\ w # STDOUT
        BY <1>8, <4>1
      <4>3. Desc \subseteq open
        BY <4>2 DEF Announcements, StandardOutput
      <4> QED
        BY <1>2, <4>2, <4>3 DEF Free
    <3>3. ASSUME NEW i \in 1 .. n + 1, NEW j \in 1 .. n + 1,
                 list[i].sock = STDOUT, list[j].sock = STDOUT, i # j
          PROVE  Fd \subseteq open \cup {w}
      <4>1. CASE i \in 1 .. n /\ j \in 1 .. n
        <5>1. clients[i].sock = STDOUT /\ clients[j].sock = STDOUT
          BY <1>8, <3>3, <4>1
        <5> QED
          BY <3>3, <4>1, <5>1 DEF Announcements, StandardOutput, n
      <4>2. CASE ~(i \in 1 .. n /\ j \in 1 .. n)
        <5>1. w = STDOUT /\ \E k \in 1 .. n : clients[k].sock = STDOUT
          BY <1>8, <3>3, <4>2
        <5>2. w \in Socks(clients)
          BY <5>1 DEF Socks, n
        <5>3. Free = {}
          BY <1>12, <1>13, <5>2
        <5> QED
          BY <5>3 DEF Free, Desc
      <4> QED
        BY <4>1, <4>2
    <3> QED
      BY <1>8, <1>17, <3>1, <3>2, <3>3 DEF StandardOutput
  <2>9. NoClientCrashes'
    <3>1. NewClient.phase # "crashed" /\ [NewClient EXCEPT !.phase = "exited"].phase # "crashed"
      BY DEF NewClient
    <3> QED
      BY <2>2, <3>1 DEF Announcements, NoClientCrashes
  <2> QED
    BY <2>6, <2>7, <2>8, <2>9 DEF Announcements
<1> QED
  <2>1. \/ /\ Send(batch, ends)
           /\ clients' = list
           /\ master' = master \cup {w}
           /\ open' = open \cup {w}
           /\ client' = IF Free = {} THEN client
                        ELSE [client EXCEPT ![w] =
                                IF end = "up" THEN NewClient
                                              ELSE [NewClient EXCEPT !.phase = "exited"]]
        \/ SendKills(batch, ends)
    BY <1>5 DEF batch, ends, list, w
  <2> QED
    BY <1>16, <1>17, <2>1

LEMMA QuitsAnnouncements ==
  ASSUME IInv, Announcements, NEW fd \in Desc, ClientQuits(fd)
  PROVE  Announcements'
<1>1. /\ client' = [client EXCEPT ![fd] = [client[fd] EXCEPT !.phase = "exited"]]
      /\ inbox' = [inbox EXCEPT ![fd] = <<>>]
      /\ \A d \in Desc : peer'[d] = "up" <=> d # fd /\ peer[d] = "up"
  BY QuitsIInv
<1>2. client \in [Desc -> Process] /\ inbox \in [Desc -> Seq(ServerMessage)] /\ "exited" \in Phase
  BY DEF IInv, WorldTypes, Phase
<1>3. [client[fd] EXCEPT !.phase = "exited"].phase = "exited"
  BY <1>2, PhaseChanges
<1>4. /\ client'[fd].phase # "crashed" /\ inbox'[fd] = <<>> /\ peer'[fd] # "up"
      /\ \A d \in Desc : d # fd => client'[d] = client[d] /\ inbox'[d] = inbox[d]
  BY <1>1, <1>2, <1>3
<1>5. UNCHANGED <<clients, client_count, master, open, pc>>
  BY DEF ClientQuits, Ends, server
<1> QED
  BY <1>1, <1>4, <1>5, ClientStep

(* The heart of it: what is read is about somebody the client lists.       *)
LEMMA ReadsAnnouncements ==
  ASSUME IInv, Announcements, NEW fd \in Desc, ClientReads(fd)
  PROVE  Announcements'
<1> DEFINE cl == client[fd]
           q == inbox[fd]
           now == After(fd)
           times == Cardinality(Places(fd))
           msg == q[1]
<1>1. /\ client' = [client EXCEPT ![fd] = now]
      /\ \/ /\ now.phase \in {"exited", "crashed"}
            /\ inbox' = [inbox EXCEPT ![fd] = <<>>]
            /\ \A d \in Desc : peer'[d] = "up" <=> d # fd /\ peer[d] = "up"
         \/ /\ now.phase \notin {"exited", "crashed"}
            /\ inbox' = [inbox EXCEPT ![fd] = Tail(@)]
            /\ peer' = peer
  BY ReadsIInv
<1>2. client \in [Desc -> Process] /\ inbox \in [Desc -> Seq(ServerMessage)]
  BY DEF IInv, WorldTypes
<1>3. cl \in Process /\ q \in Seq(ServerMessage) /\ q # <<>>
  BY <1>2 DEF ClientReads
<1>4. peer[fd] = "up" /\ cl.phase \in {"greet", "main"}
  BY DEF ClientReads, Goes
<1>5. Head(q) = msg /\ msg \in ServerMessage /\ 1 \in 1 .. Len(q)
  <2>1. Len(q) \in Nat \ {0}
    BY <1>3, LenProperties, EmptySeq
  <2> QED
    BY <1>3, <2>1, HeadTailProperties, ElementOfSeq
<1>6. Sound(cl, q, master, times) /\ master \subseteq Desc
  <2>1. Socks(clients) \subseteq Desc
    BY ListedClients DEF Socks, IInv
  <2> QED
    BY <1>4, <2>1 DEF Announcements, EverybodyIsInformed, Informed, IInv, SeatsAreCounted
<1>7. now = IF cl.phase = "greet" THEN greet(cl, msg) ELSE process_server_command(cl, msg)
  BY <1>5 DEF After
<1> HIDE DEF cl, q, now, msg
<1>8. CASE cl.phase = "greet"
  <2>1. now \in Process /\ now.phase \in {"exited", "naming"} /\ now.players = cl.players
    BY <1>3, <1>7, <1>8, GreetingRead
  <2>2. msg = <<"N_GAME_NOT_FULL">>
    BY <1>6, <1>8 DEF Sound, msg
  <2>3. \A id \in Desc : Change(msg, id) = 0
    BY <2>2 DEF Change, Announces
  <2>4. \A id \in Desc : Times(now, id) = Times(cl, id) /\ Times(cl, id) \in Nat
    BY <1>3, <2>1, TimesType DEF Times, IdPlaces
  <2> QED
    <3>1. \A id \in Desc : Times(now, id) = Times(cl, id) + Change(msg, id)
      BY <2>3, <2>4
    <3>2. Sound(now, Tail(q), master, times)
      <4>1. now.phase # "greet"
        BY <2>1
      <4>2. \A id \in Desc : Times(now, id) = Times(cl, id) + Change(q[1], id)
        BY <3>1 DEF msg
      <4> HIDE DEF times
      <4> QED
        BY <1>3, <1>6, <2>1, <4>1, <4>2, SoundRead
    <3>3. now.phase # "crashed"
      BY <2>1
    <3>4. /\ \A d \in Desc : d # fd => client'[d] = client[d] /\ inbox'[d] = inbox[d]
                                       /\ (peer'[d] = "up" <=> peer[d] = "up")
          /\ peer'[fd] = "up" => peer[fd] = "up" /\ inbox'[fd] = Tail(q)
          /\ peer'[fd] # "up" => inbox'[fd] = <<>>
          /\ client'[fd] = now
      BY <1>1, <1>2, <1>4 DEF q
    <3>5. UNCHANGED <<clients, client_count, master, open, pc>>
      BY DEF ClientReads, Ends, server
    <3> QED
      BY <3>2, <3>3, <3>4, <3>5, ClientStep
<1>9. CASE cl.phase = "main"
  <2>1. /\ now \in Process
        /\ now.phase \in {cl.phase, "exited", "crashed"}
        /\ now.phase = "crashed" /\ cl.phase # "crashed" =>
             \E id \in Desc : Concerns(msg, id) /\ ~Known(cl, id)
        /\ now.phase # "crashed" =>
             \A id \in Desc : Times(now, id) = Times(cl, id) + Change(msg, id)
    BY <1>3, <1>5, <1>7, <1>9, MessageRead
  <2>2. now.phase # "crashed"
    <3>1. SUFFICES ASSUME now.phase = "crashed" PROVE FALSE
      OBVIOUS
    <3>2. PICK id \in Desc : Concerns(msg, id) /\ ~Known(cl, id)
      BY <1>9, <2>1, <3>1
    <3>3. Tally(cl, q, id, 1) >= 1
      BY <1>5, <1>6, <3>2 DEF Sound, msg
    <3>4. Tally(cl, q, id, 1) = Times(cl, id) /\ (Known(cl, id) <=> Times(cl, id) >= 1)
      BY <1>3, TallyFirst, TimesType
    <3> QED
      BY <3>2, <3>3, <3>4
  <2>3. Sound(now, Tail(q), master, times)
    <3>1. now.phase # "greet"
      BY <1>9, <2>1
    <3>2. \A id \in Desc : Times(now, id) = Times(cl, id) + Change(q[1], id)
      BY <2>1, <2>2 DEF msg
    <3> HIDE DEF times
    <3> QED
      BY <1>3, <1>6, <2>1, <3>1, <3>2, SoundRead
  <2>4. /\ \A d \in Desc : d # fd => client'[d] = client[d] /\ inbox'[d] = inbox[d]
                                     /\ (peer'[d] = "up" <=> peer[d] = "up")
        /\ peer'[fd] = "up" => peer[fd] = "up" /\ inbox'[fd] = Tail(q)
        /\ peer'[fd] # "up" => inbox'[fd] = <<>>
        /\ client'[fd] = now
    BY <1>1, <1>2, <1>4 DEF q
  <2>5. UNCHANGED <<clients, client_count, master, open, pc>>
    BY DEF ClientReads, Ends, server
  <2> QED
    BY <2>2, <2>3, <2>4, <2>5, ClientStep
<1> QED
  BY <1>4, <1>8, <1>9 DEF cl

LEMMA NamesAnnouncements ==
  ASSUME IInv, Announcements, NEW fd \in Desc, NEW name \in Name, ClientNames(fd, name)
  PROVE  Announcements'
<1> DEFINE cl == client[fd]
           now == [cl EXCEPT !.phase = "main"]
<1>1. client \in [Desc -> Process] /\ "main" \in Phase
  BY DEF IInv, WorldTypes, Phase
<1>2. now.players = cl.players /\ now.phase = "main"
  BY <1>1, PhaseChanges
<1>3. /\ client' = [client EXCEPT ![fd] = now] /\ peer[fd] = "up"
      /\ UNCHANGED <<clients, client_count, master, open, pc, inbox, peer>>
  BY DEF ClientNames, Goes, server
<1> HIDE DEF now
<1>4. /\ client'[fd] = now
      /\ \A d \in Desc : d # fd => client'[d] = client[d]
  BY <1>1, <1>3
<1>5. Sound(cl, inbox[fd], master, Cardinality(Places(fd)))
  BY <1>3 DEF Announcements, EverybodyIsInformed, Informed
<1>6. Sound(now, inbox[fd], master, Cardinality(Places(fd)))
  BY <1>2, <1>5, SoundPhase
<1> QED
  BY <1>2, <1>3, <1>4, <1>6, ClientStep

LEMMA NextAnnouncements == IInv /\ Announcements /\ [Next]_vars => Announcements'
<1> SUFFICES ASSUME IInv, Announcements, [Next]_vars PROVE Announcements'
  OBVIOUS
<1> USE DEF server, kernel, people
<1>1. CASE NetworkThread
  <2>1. CASE Select \/ SelectFails \/ ThreadDone \/ ClientsDone
    BY <2>1, LoopAnnouncements
  <2>2. CASE process_thread_command
    BY <2>2, RelayAnnouncements
  <2>3. CASE LetIn
    BY <2>3, LetInAnnouncements
  <2>4. CASE TurnAway
    BY <2>4, TurnAwayAnnouncements
  <2>5. ASSUME NEW fd \in Desc, NameCommand(fd) PROVE Announcements'
    BY <2>5, NameAnnouncements
  <2>6. ASSUME NEW fd \in Desc, WordCommand(fd) \/ UnknownCommand(fd) \/ RecvFails(fd)
        PROVE  Announcements'
    BY <2>6, QuietAnnouncements
  <2>7. ASSUME NEW fd \in Desc, Disconnect(fd) PROVE Announcements'
    BY <2>7, DisconnectAnnouncements
  <2> QED
    BY <1>1, <2>1, <2>2, <2>3, <2>4, <2>5, <2>6, <2>7 DEF NetworkThread
<1>2. CASE World
  <2>1. CASE Connect
    BY <2>1, QuietStep DEF Connect
  <2>2. ASSUME NEW msg, LogicCommand(msg) PROVE Announcements'
    BY <2>2, QuietStep DEF LogicCommand
  <2>3. ASSUME NEW fd \in Desc, ClientQuits(fd) PROVE Announcements'
    BY <2>3, QuitsAnnouncements
  <2>4. ASSUME NEW fd \in Desc, ClientReads(fd) PROVE Announcements'
    BY <2>4, ReadsAnnouncements
  <2>5. ASSUME NEW fd \in Desc, NEW name \in Name, ClientNames(fd, name) PROVE Announcements'
    BY <2>5, NamesAnnouncements
  <2>6. ASSUME NEW fd \in Desc, NEW word \in Word, ClientTypes(fd, word) PROVE Announcements'
    BY <2>6, QuietStep DEF ClientTypes
  <2> QED
    BY <1>2, <2>1, <2>2, <2>3, <2>4, <2>5, <2>6 DEF World
<1>3. CASE UNCHANGED vars
  BY <1>3, QuietStep DEF vars
<1> QED
  BY <1>1, <1>2, <1>3 DEF Next

(* No client is sent a departure or a name of somebody it does not list,   *)
(* on which process_server_command() would read through a null pointer:    *)
(* for any number of clients, however they come, name themselves, leave    *)
(* and break off, however late each of them reads, and though a failed     *)
(* accept() may list standard output twice.                                *)
THEOREM ClientsNeverCrash == Spec => []NoClientCrashes
<1>1. Init => IInv /\ Announcements
  BY InitIInv, InitAnnouncements
<1>2. (IInv /\ Announcements) /\ [Next]_vars => (IInv /\ Announcements)'
  BY NextIInv, NextAnnouncements
<1>3. Announcements => NoClientCrashes
  BY DEF Announcements
<1> QED
  BY <1>1, <1>2, <1>3, PTL DEF Spec

----------------------------------------------------------------------------
(* What a client will show when it has read all that was sent *)

(* The clients f are those of process_server_command() on s, one after the *)
(* other.                                                                  *)
Along(f, cl, s) ==
  f[0] = cl /\ \A n \in 1 .. Len(s) : f[n] = process_server_command(f[n - 1], s[n])

LEMMA AlongCatchesUp ==
  ASSUME NEW s \in Seq(ServerMessage), NEW cl, NEW f, Along(f, cl, s)
  PROVE  CaughtUp(cl, s) = f[Len(s)]
<1> DEFINE N == Len(s)
           Runs(g) == g = [n \in 0 .. N |->
                             IF n = 0 THEN cl ELSE process_server_command(g[n - 1], s[n])]
           now == CHOOSE g : Runs(g)
<1>1. N \in Nat
  OBVIOUS
<1>2. CaughtUp(cl, s) = now[N]
  BY DEF CaughtUp
<1>3. f[0] = cl /\ \A n \in 1 .. N : f[n] = process_server_command(f[n - 1], s[n])
  BY DEF Along
<1> HIDE DEF N
<1>4. Runs([n \in 0 .. N |-> f[n]])
  <2> DEFINE g == [n \in 0 .. N |-> f[n]]
  <2>1. \A n \in 0 .. N : g[n] = f[n]
    OBVIOUS
  <2> HIDE DEF g
  <2>2. \A n \in 0 .. N : g[n] = IF n = 0 THEN cl ELSE process_server_command(g[n - 1], s[n])
    <3>1. TAKE n \in 0 .. N
    <3>2. CASE n = 0
      BY <1>1, <1>3, <2>1, <3>2
    <3>3. CASE n # 0
      <4>1. n \in 1 .. N /\ n - 1 \in 0 .. N
        BY <1>1, <3>3
      <4> QED
        BY <1>3, <2>1, <3>3, <4>1
    <3> QED
      BY <3>2, <3>3
  <2>3. g = [n \in 0 .. N |-> IF n = 0 THEN cl ELSE process_server_command(g[n - 1], s[n])]
    BY <2>2 DEF g
  <2> QED
    BY <2>3 DEF g
<1>5. Runs(now)
  BY <1>4
<1> HIDE DEF now
<1>6. \A n \in 0 .. N : now[n] = IF n = 0 THEN cl ELSE process_server_command(now[n - 1], s[n])
  <2>1. now = [n \in 0 .. N |-> IF n = 0 THEN cl ELSE process_server_command(now[n - 1], s[n])]
    BY <1>5
  <2> QED
    BY ONLY <2>1
<1> DEFINE Same == {n \in 0 .. N : now[n] = f[n]}
<1>7. 0 \in Same
  BY <1>1, <1>3, <1>6
<1>8. ASSUME NEW n \in 1 .. N, n - 1 \in Same
      PROVE  n \in Same
  <2>1. n \in 0 .. N /\ n # 0
    BY <1>1
  <2> QED
    BY <1>3, <1>6, <1>8, <2>1
<1> HIDE DEF Same
<1>9. \A n \in 0 .. N : n \in Same
  BY <1>1, <1>7, <1>8, Ascending
<1>10. N \in 0 .. N
  BY <1>1
<1> QED
  BY <1>2, <1>9, <1>10 DEF Same, N

LEMMA SomebodyGoesAlong ==
  ASSUME NEW s \in Seq(ServerMessage), NEW cl \in Process
  PROVE  \E f \in [0 .. Len(s) -> Process] : Along(f, cl, s)
<1> DEFINE N == Len(s)
           step == [x \in (1 .. N) \X Process |-> process_server_command(x[2], s[x[1]])]
<1>1. N \in Nat /\ \A n \in 1 .. N : s[n] \in ServerMessage
  BY ElementOfSeq
<1>2. \A n \in 1 .. N : \A c \in Process : step[<<n, c>>] = process_server_command(c, s[n])
  OBVIOUS
<1>3. \A n \in 1 .. N : \A c \in Process : step[<<n, c>>] \in Process
  <2>1. \A c \in Process : \A m \in ServerMessage : process_server_command(c, m) \in Process
    BY MessageRead
  <2> QED
    BY <1>1, <1>2, <2>1
<1> HIDE DEF step
<1>4. PICK f : Iterates(f, N, Process, cl, step)
  BY <1>1, <1>3, IterationExists
<1>5. /\ f \in [0 .. N -> Process] /\ f[0] = cl
      /\ \A n \in 1 .. N : f[n] = step[<<n, f[n - 1]>>]
  BY <1>4 DEF Iterates
<1>6. \A n \in 1 .. N : f[n] = process_server_command(f[n - 1], s[n])
  <2>1. TAKE n \in 1 .. N
  <2>2. n - 1 \in 0 .. N
    BY <1>1
  <2> QED
    BY <1>2, <1>5, <2>2
<1> QED
  BY <1>5, <1>6 DEF Along

LEMMA CaughtUpType ==
  ASSUME NEW s \in Seq(ServerMessage), NEW cl \in Process
  PROVE  CaughtUp(cl, s) \in Process
<1>1. PICK f \in [0 .. Len(s) -> Process] : Along(f, cl, s)
  BY SomebodyGoesAlong
<1>2. CaughtUp(cl, s) = f[Len(s)] /\ Len(s) \in 0 .. Len(s)
  BY <1>1, AlongCatchesUp
<1> QED
  BY <1>2

(* One message more, behind those that wait. *)
LEMMA CaughtUpOnOne ==
  ASSUME NEW s \in Seq(ServerMessage), NEW cl \in Process,
         NEW b \in Seq(ServerMessage), Len(b) = 1
  PROVE  CaughtUp(cl, s \o b) = process_server_command(CaughtUp(cl, s), b[1])
<1> DEFINE N == Len(s)
           r == s \o b
<1>1. N \in Nat
  OBVIOUS
<1>2. /\ r \in Seq(ServerMessage) /\ Len(r) = N + 1
      /\ \A n \in 1 .. N : r[n] = s[n]
      /\ r[N + 1] = b[1]
  <2>1. /\ r \in Seq(ServerMessage) /\ Len(r) = N + Len(b)
        /\ \A n \in 1 .. N + Len(b) : r[n] = IF n <= N THEN s[n] ELSE b[n - N]
    BY ConcatProperties
  <2> HIDE DEF r, N
  <2> QED
    BY <1>1, <2>1
<1>3. PICK f \in [0 .. N -> Process] : Along(f, cl, s)
  BY SomebodyGoesAlong
<1>4. CaughtUp(cl, s) = f[N]
  BY <1>3, AlongCatchesUp
<1>5. f[0] = cl /\ \A n \in 1 .. N : f[n] = process_server_command(f[n - 1], s[n])
  BY <1>3 DEF Along
<1> DEFINE last == process_server_command(f[N], b[1])
           g == [n \in 0 .. N + 1 |-> IF n = N + 1 THEN last ELSE f[n]]
<1>6. g[0] = cl /\ g[N + 1] = last /\ \A n \in 0 .. N : g[n] = f[n]
  BY <1>1, <1>5
<1> HIDE DEF g, N, r
<1>7. \A n \in 1 .. N + 1 : g[n] = process_server_command(g[n - 1], r[n])
  <2>1. TAKE n \in 1 .. N + 1
  <2>2. CASE n = N + 1
    <3>1. n - 1 = N /\ N \in 0 .. N
      BY <1>1, <2>2
    <3> QED
      BY <1>2, <1>6, <2>2, <3>1
  <2>3. CASE n # N + 1
    <3>1. n \in 1 .. N /\ n \in 0 .. N /\ n - 1 \in 0 .. N
      BY <1>1, <2>3
    <3> QED
      BY <1>2, <1>5, <1>6, <3>1
  <2> QED
    BY <2>2, <2>3
<1>8. Along(g, cl, r)
  BY <1>2, <1>6, <1>7 DEF Along
<1>9. CaughtUp(cl, r) = g[N + 1]
  BY <1>2, <1>8, AlongCatchesUp
<1> QED
  BY <1>4, <1>6, <1>9 DEF r

(* The first of those that wait, read now. *)
LEMMA CaughtUpFromFirst ==
  ASSUME NEW s \in Seq(ServerMessage), NEW cl \in Process, s # <<>>
  PROVE  CaughtUp(cl, s) = CaughtUp(process_server_command(cl, s[1]), Tail(s))
<1> DEFINE N == Len(s)
           t == Tail(s)
<1>1. /\ N \in Nat \ {0}
      /\ t \in Seq(ServerMessage) /\ Len(t) = N - 1
      /\ \A n \in 1 .. N - 1 : t[n] = s[n + 1]
  <2>1. N \in Nat \ {0}
    BY EmptySeq
  <2> QED
    BY <2>1, HeadTailProperties
<1>2. PICK f \in [0 .. N -> Process] : Along(f, cl, s)
  BY SomebodyGoesAlong
<1>3. CaughtUp(cl, s) = f[N]
  BY <1>2, AlongCatchesUp
<1>4. f[0] = cl /\ \A n \in 1 .. N : f[n] = process_server_command(f[n - 1], s[n])
  BY <1>2 DEF Along
<1> DEFINE g == [n \in 0 .. N - 1 |-> f[n + 1]]
<1>5. \A n \in 0 .. N - 1 : g[n] = f[n + 1]
  OBVIOUS
<1> HIDE DEF g, N, t
<1>6. g[0] = process_server_command(cl, s[1])
  <2>1. 1 \in 1 .. N /\ 0 \in 0 .. N - 1 /\ 1 - 1 = 0 /\ 0 + 1 = 1
    BY <1>1
  <2>2. f[1] = process_server_command(f[1 - 1], s[1])
    BY <1>4, <2>1
  <2> QED
    BY <1>4, <1>5, <2>1, <2>2
<1>7. \A n \in 1 .. N - 1 : g[n] = process_server_command(g[n - 1], t[n])
  <2>1. TAKE n \in 1 .. N - 1
  <2>2. /\ n + 1 \in 1 .. N /\ n \in 0 .. N - 1 /\ n - 1 \in 0 .. N - 1
        /\ (n + 1) - 1 = n /\ (n - 1) + 1 = n
    BY <1>1
  <2>3. f[n + 1] = process_server_command(f[(n + 1) - 1], s[n + 1])
    BY <1>4, <2>2
  <2> QED
    BY <1>1, <1>5, <2>2, <2>3
<1>8. Along(g, process_server_command(cl, s[1]), t)
  BY <1>1, <1>6, <1>7 DEF Along
<1>9. CaughtUp(process_server_command(cl, s[1]), t) = g[N - 1]
  BY <1>1, <1>8, AlongCatchesUp
<1>10. g[N - 1] = f[N]
  <2>1. N - 1 \in 0 .. N - 1 /\ (N - 1) + 1 = N
    BY <1>1
  <2> QED
    BY <1>5, <2>1
<1> QED
  BY <1>3, <1>9, <1>10 DEF t

(* Clients that differ in nothing a screen shows but the phase they are in *)
(* go on to differ in nothing else.                                        *)
Alike(cl, dl) == cl.players = dl.players /\ cl.my_id = dl.my_id

LEMMA ShownFields ==
  ASSUME NEW cl \in Process, NEW value
  PROVE  /\ [cl EXCEPT !.players = value].players = value
         /\ [cl EXCEPT !.players = value].my_id = cl.my_id
         /\ [cl EXCEPT !.my_id = value].players = cl.players
         /\ [cl EXCEPT !.my_id = value].my_id = value
         /\ [cl EXCEPT !.phase = value].players = cl.players
         /\ [cl EXCEPT !.phase = value].my_id = cl.my_id
BY DEF Process

LEMMA AlikeRead ==
  ASSUME NEW cl \in Process, NEW dl \in Process, Alike(cl, dl), NEW msg \in ServerMessage
  PROVE  Alike(process_server_command(cl, msg), process_server_command(dl, msg))
<1>1. cl.players = dl.players /\ cl.my_id = dl.my_id
  BY DEF Alike
<1>2. ASSUME NEW id
      PROVE  /\ IdPlaces(cl, id) = IdPlaces(dl, id)
             /\ Known(cl, id) = Known(dl, id) /\ FirstOf(cl, id) = FirstOf(dl, id)
  <2>1. IdPlaces(cl, id) = IdPlaces(dl, id)
    BY <1>1 DEF IdPlaces
  <2> QED
    BY <2>1 DEF Known, FirstOf
<1>3. CASE \E id \in Desc, name \in Text \cup {Unnamed} : msg = <<"N_PLAYER_JOIN", id, name>>
  <2>1. PICK id \in Desc, name \in Text \cup {Unnamed} : msg = <<"N_PLAYER_JOIN", id, name>>
    BY <1>3
  <2>2. \A c \in Process : process_server_command(c, msg)
                             = [c EXCEPT !.players = Append(@, new_player(id, name))]
    BY <2>1 DEF process_server_command, create_player
  <2>3. ASSUME NEW c \in Process
        PROVE  /\ process_server_command(c, msg).players
                    = Append(c.players, new_player(id, name))
               /\ process_server_command(c, msg).my_id = c.my_id
    <3> DEFINE d == [c EXCEPT !.players = Append(c.players, new_player(id, name))]
    <3>1. process_server_command(c, msg) = d
      BY <2>2
    <3>2. d.players = Append(c.players, new_player(id, name)) /\ d.my_id = c.my_id
      BY ShownFields
    <3> HIDE DEF d
    <3> QED
      BY <3>1, <3>2
  <2> QED
    BY <1>1, <2>3 DEF Alike
<1>4. CASE \E id \in Desc : msg = <<"N_PLAYER_LEFT", id>>
  <2>1. PICK id \in Desc : msg = <<"N_PLAYER_LEFT", id>>
    BY <1>4
  <2>2. \A c \in Process : process_server_command(c, msg) = remove_player(c, id)
    BY <2>1 DEF process_server_command
  <2>3. ASSUME NEW c \in Process
        PROVE  /\ remove_player(c, id).players
                    = IF Known(c, id) THEN RemoveAt(c.players, FirstOf(c, id)) ELSE c.players
               /\ remove_player(c, id).my_id = c.my_id
    BY DEF remove_player, Crashed, Process
  <2> QED
    BY <1>1, <1>2, <2>2, <2>3 DEF Alike
<1>5. CASE \E id \in Desc, name \in Text \cup {Unnamed} : msg = <<"N_PLAYER_CHANGED_NAME", id, name>>
  <2>1. PICK id \in Desc, name \in Text \cup {Unnamed} : msg = <<"N_PLAYER_CHANGED_NAME", id, name>>
    BY <1>5
  <2>2. \A c \in Process : process_server_command(c, msg) = change_name(c, id, name)
    BY <2>1 DEF process_server_command
  <2>3. ASSUME NEW c \in Process
        PROVE  /\ change_name(c, id, name).players
                    = IF Known(c, id)
                        THEN [c.players EXCEPT ![FirstOf(c, id)].name = name] ELSE c.players
               /\ change_name(c, id, name).my_id = c.my_id
    BY DEF change_name, Crashed, Process
  <2> QED
    BY <1>1, <1>2, <2>2, <2>3 DEF Alike
<1>6. CASE \E id \in Desc : msg = <<"N_SEND_ID", id>>
  <2>1. PICK id \in Desc : msg = <<"N_SEND_ID", id>>
    BY <1>6
  <2>2. \A c \in Process : process_server_command(c, msg) = [c EXCEPT !.my_id = id]
    BY <2>1 DEF process_server_command
  <2>3. ASSUME NEW c \in Process
        PROVE  /\ process_server_command(c, msg).players = c.players
               /\ process_server_command(c, msg).my_id = id
    <3> DEFINE d == [c EXCEPT !.my_id = id]
    <3>1. process_server_command(c, msg) = d
      BY <2>2
    <3>2. d.players = c.players /\ d.my_id = id
      BY ShownFields
    <3> HIDE DEF d
    <3> QED
      BY <3>1, <3>2
  <2> QED
    BY <1>1, <2>3 DEF Alike
<1>7. CASE msg = <<"N_GAME_STARTED_NO_JOINING">>
  <2>1. \A c \in Process : process_server_command(c, msg) = [c EXCEPT !.phase = "exited"]
    BY <1>7 DEF process_server_command
  <2>2. ASSUME NEW c \in Process
        PROVE  /\ process_server_command(c, msg).players = c.players
               /\ process_server_command(c, msg).my_id = c.my_id
    <3> DEFINE d == [c EXCEPT !.phase = "exited"]
    <3>1. process_server_command(c, msg) = d
      BY <2>1
    <3>2. d.players = c.players /\ d.my_id = c.my_id
      BY ShownFields
    <3> HIDE DEF d
    <3> QED
      BY <3>1, <3>2
  <2> QED
    BY <1>1, <2>2 DEF Alike
<1>8. CASE msg \in {<<"N_GAME">>, <<"N_GAME_NOT_FULL">>}
  <2>1. \A c \in Process : process_server_command(c, msg) = c
    BY <1>8 DEF process_server_command
  <2> QED
    BY <1>1, <2>1 DEF Alike
<1>9. \/ msg \in {<<"N_GAME">>, <<"N_GAME_NOT_FULL">>}
      \/ msg = <<"N_GAME_STARTED_NO_JOINING">>
      \/ \E id \in Desc : msg = <<"N_SEND_ID", id>>
      \/ \E id \in Desc : msg = <<"N_PLAYER_LEFT", id>>
      \/ \E id \in Desc, name \in Text \cup {Unnamed} : msg = <<"N_PLAYER_JOIN", id, name>>
      \/ \E id \in Desc, name \in Text \cup {Unnamed} : msg = <<"N_PLAYER_CHANGED_NAME", id, name>>
  BY DEF ServerMessage
<1> QED
  BY <1>3, <1>4, <1>5, <1>6, <1>7, <1>8, <1>9

LEMMA AlikeCaughtUp ==
  ASSUME NEW cl \in Process, NEW dl \in Process, Alike(cl, dl), NEW s \in Seq(ServerMessage)
  PROVE  Alike(CaughtUp(cl, s), CaughtUp(dl, s))
<1> DEFINE N == Len(s)
<1>1. N \in Nat /\ \A n \in 1 .. N : s[n] \in ServerMessage
  BY ElementOfSeq
<1>2. PICK f \in [0 .. N -> Process] : Along(f, cl, s)
  BY SomebodyGoesAlong
<1>3. PICK g \in [0 .. N -> Process] : Along(g, dl, s)
  BY SomebodyGoesAlong
<1>4. CaughtUp(cl, s) = f[N] /\ CaughtUp(dl, s) = g[N]
  BY <1>2, <1>3, AlongCatchesUp
<1>5. /\ f[0] = cl /\ \A n \in 1 .. N : f[n] = process_server_command(f[n - 1], s[n])
      /\ g[0] = dl /\ \A n \in 1 .. N : g[n] = process_server_command(g[n - 1], s[n])
  BY <1>2, <1>3 DEF Along
<1> DEFINE T == {n \in 0 .. N : Alike(f[n], g[n])}
<1> HIDE DEF N
<1>6. 0 \in T
  BY <1>1, <1>5
<1>7. ASSUME NEW n \in 1 .. N, n - 1 \in T
      PROVE  n \in T
  <2>1. n - 1 \in 0 .. N /\ n \in 0 .. N
    BY <1>1
  <2>2. f[n - 1] \in Process /\ g[n - 1] \in Process /\ Alike(f[n - 1], g[n - 1])
    BY <1>7, <2>1
  <2>3. Alike(process_server_command(f[n - 1], s[n]), process_server_command(g[n - 1], s[n]))
    BY <1>1, <2>2, AlikeRead
  <2> QED
    BY <1>5, <2>1, <2>3
<1> HIDE DEF T
<1>8. \A n \in 0 .. N : n \in T
  BY <1>1, <1>6, <1>7, Ascending
<1>9. N \in 0 .. N
  BY <1>1
<1> QED
  BY <1>4, <1>8, <1>9 DEF T

(* What a client shows of a list, fd being the socket it is listed under.  *)
Seats == Seq([sock : Desc, name : Name \cup {<<>>}])

Shows(cl, list, fd) ==
  /\ Len(cl.players) = Len(list)
  /\ \A i \in 1 .. Len(list) :
       /\ cl.players[i].id = list[i].sock
       /\ list[i].name # <<>> => cl.players[i].name = list[i].name
  /\ cl.my_id = fd

LEMMA ShowsAlike ==
  ASSUME NEW cl, NEW dl, Alike(cl, dl), NEW list, NEW fd, Shows(dl, list, fd)
  PROVE  Shows(cl, list, fd)
BY DEF Alike, Shows

(* Messages that change nothing in the list. *)
LEMMA NothingNew ==
  ASSUME NEW cl \in Process,
         NEW msg \in {<<"N_GAME">>, <<"N_GAME_NOT_FULL">>, <<"N_GAME_STARTED_NO_JOINING">>}
  PROVE  Alike(process_server_command(cl, msg), cl)
<1>1. CASE msg = <<"N_GAME_STARTED_NO_JOINING">>
  <2> DEFINE d == [cl EXCEPT !.phase = "exited"]
  <2>1. process_server_command(cl, msg) = d
    BY <1>1 DEF process_server_command
  <2>2. d.players = cl.players /\ d.my_id = cl.my_id
    BY ShownFields
  <2> HIDE DEF d
  <2> QED
    BY <2>1, <2>2 DEF Alike
<1>2. CASE msg \in {<<"N_GAME">>, <<"N_GAME_NOT_FULL">>}
  <2>1. process_server_command(cl, msg) = cl
    BY <1>2 DEF process_server_command
  <2> QED
    BY <2>1 DEF Alike
<1> QED
  BY <1>1, <1>2

LEMMA JoinShown ==
  ASSUME NEW cl \in Process, NEW id \in Desc, NEW name \in Text \cup {Unnamed}
  PROVE  LET now == process_server_command(cl, <<"N_PLAYER_JOIN", id, name>>)
             n == Len(cl.players)
         IN  /\ now \in Process /\ n \in Nat
             /\ now.my_id = cl.my_id
             /\ Len(now.players) = n + 1
             /\ \A i \in 1 .. n : now.players[i] = cl.players[i]
             /\ now.players[n + 1].id = id /\ now.players[n + 1].name = name
<1> DEFINE msg == <<"N_PLAYER_JOIN", id, name>>
           now == process_server_command(cl, msg)
           new == new_player(id, name)
           list == Append(cl.players, new)
           d == [cl EXCEPT !.players = list]
           n == Len(cl.players)
<1>1. now = d
  BY DEF process_server_command, create_player
<1>2. d.players = list /\ d.my_id = cl.my_id
  BY ShownFields
<1>3. new \in Entry /\ new.id = id /\ new.name = name
  BY DEF new_player, Entry
<1>4. cl.players \in Seq(Entry) /\ n \in Nat
  BY PlayersOf
<1> HIDE DEF new
<1>5. /\ list \in Seq(Entry) /\ Len(list) = n + 1
      /\ \A i \in 1 .. n : list[i] = cl.players[i]
      /\ list[n + 1] = new
  BY <1>3, <1>4, AppendProperties
<1>6. d \in Process
  BY <1>5, PlayersChange
<1> HIDE DEF list, d
<1> QED
  BY <1>1, <1>2, <1>3, <1>4, <1>5, <1>6

(* The list with a newcomer at its end. *)
LEMMA ShowsLonger ==
  ASSUME NEW cl \in Process, NEW list \in Seats, NEW fd, Shows(cl, list, fd),
         NEW sock \in Desc, NEW longer, Len(longer) = Len(list) + 1,
         \A i \in 1 .. Len(list) : longer[i] = list[i],
         longer[Len(list) + 1].sock = sock, longer[Len(list) + 1].name = <<>>
  PROVE  Shows(process_server_command(cl, JoinOf(sock)), longer, fd)
<1> DEFINE n == Len(list)
           now == process_server_command(cl, JoinOf(sock))
<1>1. n \in Nat /\ Len(cl.players) = n
  BY DEF Seats, Shows
<1>2. /\ now.my_id = cl.my_id
      /\ Len(now.players) = Len(cl.players) + 1
      /\ \A i \in 1 .. Len(cl.players) : now.players[i] = cl.players[i]
      /\ now.players[Len(cl.players) + 1].id = sock
  <2>1. Unnamed \in Text \cup {Unnamed} /\ JoinOf(sock) = <<"N_PLAYER_JOIN", sock, Unnamed>>
    BY DEF JoinOf
  <2> HIDE DEF now
  <2>2. /\ process_server_command(cl, <<"N_PLAYER_JOIN", sock, Unnamed>>).my_id = cl.my_id
        /\ Len(process_server_command(cl, <<"N_PLAYER_JOIN", sock, Unnamed>>).players)
             = Len(cl.players) + 1
        /\ \A i \in 1 .. Len(cl.players) :
             process_server_command(cl, <<"N_PLAYER_JOIN", sock, Unnamed>>).players[i]
               = cl.players[i]
        /\ process_server_command(cl, <<"N_PLAYER_JOIN", sock, Unnamed>>).
             players[Len(cl.players) + 1].id = sock
    BY ONLY <2>1, cl \in Process, sock \in Desc, JoinShown
  <2> QED
    BY <2>1, <2>2 DEF now
<1> HIDE DEF n, now
<1>3. \A i \in 1 .. n + 1 : i \in 1 .. n \/ i = n + 1
  BY <1>1
<1>4. /\ Len(longer) = n + 1 /\ longer[n + 1].sock = sock /\ longer[n + 1].name = <<>>
      /\ \A i \in 1 .. n : /\ longer[i] = list[i] /\ cl.players[i].id = list[i].sock
                           /\ list[i].name # <<>> => cl.players[i].name = list[i].name
      /\ cl.my_id = fd
  BY DEF n, Shows
<1> QED
  BY <1>1, <1>2, <1>3, <1>4 DEF Shows, now

(* The client looks where the server does. *)
LEMMA SamePlace ==
  ASSUME NEW cl \in Process, NEW list \in Seats, NEW fd, Shows(cl, list, fd),
         NEW p \in 1 .. Len(list), NEW sock, list[p].sock = sock,
         \A j \in 1 .. Len(list) : list[j].sock = sock => p <= j
  PROVE  Known(cl, sock) /\ FirstOf(cl, sock) = p
<1> DEFINE n == Len(list)
<1>1. n \in Nat
  BY DEF Seats
<1>2. IdPlaces(cl, sock) = {i \in 1 .. n : list[i].sock = sock}
  BY DEF Shows, IdPlaces
<1>3. p \in IdPlaces(cl, sock) /\ \A j \in IdPlaces(cl, sock) : p <= j
  BY <1>2
<1>4. \A i \in IdPlaces(cl, sock) : i \in Nat
  BY <1>2
<1>5. FirstOf(cl, sock) \in IdPlaces(cl, sock) /\ \A j \in IdPlaces(cl, sock) : FirstOf(cl, sock) <= j
  BY <1>3 DEF FirstOf
<1>6. FirstOf(cl, sock) <= p /\ p <= FirstOf(cl, sock)
  BY <1>3, <1>5
<1>7. FirstOf(cl, sock) \in Nat /\ p \in Nat
  BY <1>3, <1>4, <1>5
<1>8. FirstOf(cl, sock) = p
  BY ONLY <1>6, <1>7
<1> QED
  BY <1>3, <1>8 DEF Known

LEMMA ShowsShorter ==
  ASSUME NEW cl \in Process, NEW list \in Seats, NEW fd, Shows(cl, list, fd),
         NEW p \in 1 .. Len(list), NEW sock \in Desc, list[p].sock = sock,
         \A j \in 1 .. Len(list) : list[j].sock = sock => p <= j
  PROVE  Shows(process_server_command(cl, <<"N_PLAYER_LEFT", sock>>), RemoveAt(list, p), fd)
<1> DEFINE n == Len(list)
           now == process_server_command(cl, <<"N_PLAYER_LEFT", sock>>)
           left == RemoveAt(list, p)
           rest == RemoveAt(cl.players, p)
           from(k) == IF k < p THEN k ELSE k + 1
<1>1. n \in Nat /\ Len(cl.players) = n /\ cl.players \in Seq(Entry)
  BY PlayersOf DEF Seats, Shows
<1>2. Known(cl, sock) /\ FirstOf(cl, sock) = p
  BY SamePlace
<1>3. now = remove_player(cl, sock)
  BY DEF process_server_command
<1>4. now.players = rest /\ now.my_id = cl.my_id
  <2>1. /\ remove_player(cl, sock).players
             = IF Known(cl, sock) THEN RemoveAt(cl.players, FirstOf(cl, sock)) ELSE cl.players
        /\ remove_player(cl, sock).my_id = cl.my_id
    BY DEF remove_player, Crashed, Process
  <2> QED
    BY <1>2, <1>3, <2>1
<1>5. Len(rest) = n - 1 /\ \A k \in 1 .. n - 1 : rest[k] = cl.players[from(k)]
  <2>1. p \in 1 .. Len(cl.players)
    BY <1>1
  <2>2. /\ Len(RemoveAt(cl.players, p)) = Len(cl.players) - 1
        /\ \A k \in 1 .. Len(cl.players) - 1 :
             RemoveAt(cl.players, p)[k] = cl.players[IF k < p THEN k ELSE k + 1]
    BY <1>1, <2>1, OneLess
  <2> QED
    BY <1>1, <2>2
<1>6. Len(left) = n - 1 /\ \A k \in 1 .. n - 1 : left[k] = list[from(k)]
  <2>1. /\ Len(RemoveAt(list, p)) = Len(list) - 1
        /\ \A k \in 1 .. Len(list) - 1 : RemoveAt(list, p)[k] = list[IF k < p THEN k ELSE k + 1]
    BY OneLess DEF Seats
  <2> QED
    BY <2>1
<1>7. \A k \in 1 .. n - 1 : from(k) \in 1 .. n
  BY <1>1
<1>8. /\ \A i \in 1 .. n : /\ cl.players[i].id = list[i].sock
                           /\ list[i].name # <<>> => cl.players[i].name = list[i].name
      /\ cl.my_id = fd
  BY DEF Shows
<1> HIDE DEF now, left, rest, from, n
<1>9. ASSUME NEW k \in 1 .. n - 1
      PROVE  /\ rest[k].id = left[k].sock
             /\ left[k].name # <<>> => rest[k].name = left[k].name
  <2>1. from(k) \in 1 .. n /\ rest[k] = cl.players[from(k)] /\ left[k] = list[from(k)]
    BY <1>5, <1>6, <1>7
  <2> QED
    BY <1>8, <2>1
<1>10. Shows(now, left, fd)
  BY <1>4, <1>5, <1>6, <1>8, <1>9 DEF Shows
<1> QED
  BY <1>10 DEF now, left

LEMMA ShowsRenamed ==
  ASSUME NEW cl \in Process, NEW list \in Seats, NEW fd, Shows(cl, list, fd),
         NEW p \in 1 .. Len(list), NEW sock \in Desc, list[p].sock = sock,
         \A j \in 1 .. Len(list) : list[j].sock = sock => p <= j,
         NEW name \in Text
  PROVE  Shows(process_server_command(cl, <<"N_PLAYER_CHANGED_NAME", sock, name>>),
               [list EXCEPT ![p].name = name], fd)
<1> DEFINE n == Len(list)
           now == process_server_command(cl, <<"N_PLAYER_CHANGED_NAME", sock, name>>)
           renamed == [list EXCEPT ![p].name = name]
           shown == [cl.players EXCEPT ![p].name = name]
<1>1. n \in Nat /\ Len(cl.players) = n /\ cl.players \in Seq(Entry)
  BY PlayersOf DEF Seats, Shows
<1>2. Known(cl, sock) /\ FirstOf(cl, sock) = p
  BY SamePlace
<1>3. now = change_name(cl, sock, name)
  BY DEF process_server_command
<1>4. now.players = shown /\ now.my_id = cl.my_id
  <2>1. /\ change_name(cl, sock, name).players
             = IF Known(cl, sock) THEN [cl.players EXCEPT ![FirstOf(cl, sock)].name = name]
                                  ELSE cl.players
        /\ change_name(cl, sock, name).my_id = cl.my_id
    BY DEF change_name, Crashed, Process
  <2> QED
    BY <1>2, <1>3, <2>1
<1>5. /\ Len(shown) = n
      /\ \A i \in 1 .. n : /\ shown[i].id = cl.players[i].id
                           /\ shown[i].name = IF i = p THEN name ELSE cl.players[i].name
  <2>1. DOMAIN cl.players = 1 .. n /\ \A i \in 1 .. n : cl.players[i] \in Entry
    BY <1>1, PlayersOf
  <2>2. Len(shown) = n
    BY <1>1, <2>1
  <2>3. \A i \in 1 .. n : shown[i] = IF i = p THEN [cl.players[i] EXCEPT !.name = name]
                                              ELSE cl.players[i]
    BY <2>1
  <2>4. \A e \in Entry : [e EXCEPT !.name = name].id = e.id /\ [e EXCEPT !.name = name].name = name
    BY DEF Entry
  <2> HIDE DEF shown
  <2> QED
    BY <2>1, <2>2, <2>3, <2>4
<1>6. /\ Len(renamed) = n
      /\ \A i \in 1 .. n : /\ renamed[i].sock = list[i].sock
                           /\ renamed[i].name = IF i = p THEN name ELSE list[i].name
  <2> DEFINE R == [sock : Desc, name : Name \cup {<<>>}]
  <2>1. DOMAIN list = 1 .. n /\ \A i \in 1 .. n : list[i] \in R
    <3>1. list \in Seq(R)
      BY DEF Seats
    <3> HIDE DEF R
    <3> QED
      BY <3>1, ElementOfSeq
  <2>2. Len(renamed) = n
    BY <1>1, <2>1
  <2>3. \A i \in 1 .. n : renamed[i] = IF i = p THEN [list[i] EXCEPT !.name = name] ELSE list[i]
    BY <2>1
  <2>4. \A e \in R : [e EXCEPT !.name = name].sock = e.sock /\ [e EXCEPT !.name = name].name = name
    OBVIOUS
  <2> HIDE DEF renamed, R
  <2> QED
    BY <2>1, <2>2, <2>3, <2>4
<1>7. /\ \A i \in 1 .. n : /\ cl.players[i].id = list[i].sock
                           /\ list[i].name # <<>> => cl.players[i].name = list[i].name
      /\ cl.my_id = fd
  BY DEF Shows
<1> HIDE DEF now, renamed, shown, n
<1> QED
  BY <1>4, <1>5, <1>6, <1>7 DEF Shows, now, renamed

----------------------------------------------------------------------------
(* Every client that is listed once will show the list *)

Rosters ==
  \A fd \in Desc :
    peer[fd] = "up" /\ Count(clients, fd) = 1 =>
      Shows(CaughtUp(client[fd], inbox[fd]), clients, fd)

(* The newcomer, from the greeting, its own name and its id. *)
LEMMA GreetedShows ==
  ASSUME ServerTypes
  PROVE  LET cl == CaughtUp(NewClient, Greeting(clients))
         IN  cl \in Process /\ Shows(cl, clients, cl.my_id)
<1> DEFINE n == Len(clients)
           g == Greeting(clients)
           cl == CaughtUp(NewClient, g)
<1>1. n \in Nat /\ \A i \in 1 .. n : clients[i].sock \in Desc /\ clients[i].name \in Text
  BY ListedClients
<1>2. /\ g \in Seq(ServerMessage) /\ Len(g) = n + 1
      /\ g[1] = <<"N_GAME_NOT_FULL">>
      /\ \A i \in 1 .. n : g[i + 1] = <<"N_PLAYER_JOIN", clients[i].sock, clients[i].name>>
  BY GreetingSays
<1>3. NewClient \in Process /\ NewClient.players = <<>>
  BY DEF NewClient, Process, Phase
<1> HIDE DEF g, n
<1>4. cl \in Process
  BY <1>2, <1>3, CaughtUpType
<1>5. PICK f \in [0 .. Len(g) -> Process] : Along(f, NewClient, g)
  BY <1>2, <1>3, SomebodyGoesAlong
<1>6. cl = f[Len(g)]
  BY <1>2, <1>3, <1>5, AlongCatchesUp
<1>7. /\ f[0] = NewClient
      /\ \A k \in 1 .. n + 1 : f[k] = process_server_command(f[k - 1], g[k])
      /\ \A k \in 0 .. n + 1 : f[k] \in Process
  BY <1>2, <1>5 DEF Along
<1> DEFINE Lists(c, k) == /\ Len(c.players) = k
                          /\ \A i \in 1 .. k : /\ c.players[i].id = clients[i].sock
                                               /\ c.players[i].name = clients[i].name
           T == {k \in 0 .. n : Lists(f[k + 1], k)}
<1> HIDE DEF cl
<1>8. 0 \in T
  <2>1. f[1] = process_server_command(NewClient, <<"N_GAME_NOT_FULL">>)
    <3>1. 1 \in 1 .. n + 1 /\ 1 - 1 = 0
      BY <1>1
    <3> QED
      BY <1>2, <1>7, <3>1
  <2>2. Alike(f[1], NewClient)
    BY <1>3, <2>1, NothingNew
  <2>3. f[0 + 1].players = <<>>
    BY <1>3, <2>2 DEF Alike
  <2>4. Lists(f[0 + 1], 0)
    BY <2>3
  <2> HIDE DEF Lists
  <2> QED
    BY <1>1, <2>4
<1>9. ASSUME NEW k \in 1 .. n, k - 1 \in T
      PROVE  k \in T
  <2>1. k + 1 \in 1 .. n + 1 /\ (k + 1) - 1 = k /\ k \in 0 .. n + 1 /\ (k - 1) + 1 = k /\ k \in 0 .. n
    BY <1>1
  <2> DEFINE a == f[k]
             b == f[k + 1]
             id == clients[k].sock
             name == clients[k].name
  <2>2. Lists(a, k - 1) /\ a \in Process
    BY <1>7, <1>9, <2>1
  <2>3. b = process_server_command(a, <<"N_PLAYER_JOIN", id, name>>)
    BY <1>2, <1>7, <2>1
  <2>4. id \in Desc /\ name \in Text \cup {Unnamed}
    BY <1>1
  <2> HIDE DEF a, b, id, name
  <2>5. a \in Process
    BY <2>2
  <2>6. /\ Len(b.players) = Len(a.players) + 1
        /\ \A i \in 1 .. Len(a.players) : b.players[i] = a.players[i]
        /\ b.players[Len(a.players) + 1].id = id
        /\ b.players[Len(a.players) + 1].name = name
    <3> DEFINE read == process_server_command(a, <<"N_PLAYER_JOIN", id, name>>)
    <3>1. /\ Len(read.players) = Len(a.players) + 1
          /\ \A i \in 1 .. Len(a.players) : read.players[i] = a.players[i]
          /\ read.players[Len(a.players) + 1].id = id
          /\ read.players[Len(a.players) + 1].name = name
      BY ONLY <2>5, <2>4, JoinShown
    <3> HIDE DEF read
    <3>2. b = read
      BY <2>3 DEF read
    <3> QED
      BY ONLY <3>1, <3>2
  <2>7. Lists(b, k)
    <3>1. Len(a.players) = k - 1 /\ Len(b.players) = k
      BY <2>1, <2>2, <2>6
    <3>2. \A i \in 1 .. k : i \in 1 .. k - 1 \/ i = k
      BY <2>1
    <3>3. b.players[k].id = clients[k].sock /\ b.players[k].name = clients[k].name
      BY <2>1, <2>6, <3>1 DEF id, name
    <3>4. ASSUME NEW i \in 1 .. k - 1
          PROVE  b.players[i].id = clients[i].sock /\ b.players[i].name = clients[i].name
      BY <2>2, <2>6, <3>1
    <3> QED
      BY <3>1, <3>2, <3>3, <3>4
  <2> QED
    BY <2>1, <2>7 DEF b
<1> HIDE DEF Lists
<1>10. \A k \in 0 .. n : k \in T
  <2> HIDE DEF T
  <2> QED
    BY <1>1, <1>8, <1>9, Ascending
<1>11. Lists(cl, n)
  <2>1. n \in 0 .. n
    BY <1>1
  <2> QED
    BY <1>2, <1>6, <1>10, <2>1
<1> QED
  BY <1>4, <1>11 DEF Shows, Lists, cl, g, n

LEMMA NewcomerShows ==
  ASSUME ServerTypes, NEW sock \in Desc, sock \notin Socks(clients)
  PROVE  Shows(CaughtUp(NewClient, Welcome(sock)[sock]), create_client_data(sock), sock)
<1> DEFINE g == Greeting(clients)
           list == create_client_data(sock)
           news == ToAll(list, JoinOf(sock))[sock]
           id_msg == << <<"N_SEND_ID", sock>> >>
           a == CaughtUp(NewClient, g)
           b == process_server_command(a, JoinOf(sock))
           d == process_server_command(b, <<"N_SEND_ID", sock>>)
           n == Len(clients)
<1>1. Welcome(sock)[sock] = g \o (news \o id_msg)
  BY WelcomeParts DEF Then, ToOne
<1>2. /\ g \in Seq(ServerMessage) /\ JoinOf(sock) \in ServerMessage /\ list \in Listed
      /\ id_msg \in Seq(ServerMessage)
  BY WelcomeParts
<1>3. a \in Process /\ Shows(a, clients, a.my_id)
  BY GreetedShows
<1>4. NewClient \in Process
  BY DEF NewClient, Process, Phase
<1>5. /\ Len(list) = n + 1 /\ (\A i \in 1 .. n : list[i] = clients[i])
      /\ list[n + 1].sock = sock /\ list[n + 1].name = <<>>
  <2>1. /\ Len(list) = n + 1 /\ (\A i \in 1 .. n : list[i] = clients[i])
        /\ list[n + 1] = [sock |-> sock, name |-> <<>>]
    BY NewcomerListed
  <2> HIDE DEF list
  <2> QED
    BY <2>1
<1>6. n \in Nat /\ clients \in Seats
  BY ListedClients DEF ServerTypes, Seats
<1>7. id_msg[1] = <<"N_SEND_ID", sock>> /\ Len(id_msg) = 1
  OBVIOUS
<1> HIDE DEF list, n, g, id_msg, a
<1>8. news \in Seq(ServerMessage) /\ Len(news) = 1 /\ news[1] = JoinOf(sock)
  <2> DEFINE all == ToAll(list, JoinOf(sock))
  <2>1. all \in [Desc -> Seq(ServerMessage)]
    BY <1>2, ToAllType
  <2>2. Len(all[sock]) = Count(list, sock) /\ \A j \in 1 .. Len(all[sock]) : all[sock][j] = JoinOf(sock)
    BY <1>2, ToAllCopies
  <2>3. Count(list, sock) = 1
    <3>1. Count(clients, sock) \in Nat /\ ~(Count(clients, sock) >= 1)
      BY CountType DEF ServerTypes
    <3>2. Count(list, sock)
            = Count(clients, sock) + (IF list[Len(clients) + 1].sock = sock THEN 1 ELSE 0)
      BY <1>5, CountLonger DEF ServerTypes, n
    <3>3. list[Len(clients) + 1].sock = sock
      BY <1>5 DEF n
    <3> QED
      BY <3>1, <3>2, <3>3
  <2> HIDE DEF all
  <2> QED
    BY <2>1, <2>2, <2>3 DEF all
<1>9. Shows(b, list, a.my_id) /\ b \in Process
  <2>1. Shows(b, list, a.my_id)
    BY <1>3, <1>5, <1>6, ShowsLonger DEF n
  <2>2. b \in Process
    BY <1>2, <1>3, MessageRead
  <2> QED
    BY <2>1, <2>2
<1> HIDE DEF news
<1>10. CaughtUp(NewClient, g \o news) = b
  BY <1>2, <1>4, <1>8, CaughtUpOnOne DEF a
<1>11. CaughtUp(NewClient, (g \o news) \o id_msg) = d
  <2>1. g \o news \in Seq(ServerMessage)
    BY <1>2, <1>8, ConcatProperties
  <2> DEFINE q == g \o news
  <2> HIDE DEF q, b
  <2>2. CaughtUp(NewClient, q \o id_msg) = process_server_command(CaughtUp(NewClient, q), id_msg[1])
    BY <1>2, <1>4, <1>7, <2>1, CaughtUpOnOne DEF q
  <2> QED
    BY <1>7, <1>10, <2>2 DEF q
<1>12. (g \o news) \o id_msg = g \o (news \o id_msg)
  BY <1>2, <1>8, ConcatAssociative
<1>13. d.players = b.players /\ d.my_id = sock
  <2> HIDE DEF b
  <2> DEFINE e == [b EXCEPT !.my_id = sock]
  <2>1. d = e
    BY DEF process_server_command
  <2>2. e.players = b.players /\ e.my_id = sock
    BY <1>9, ShownFields
  <2> HIDE DEF e, d
  <2> QED
    BY <2>1, <2>2
<1> HIDE DEF b, d
<1>14. Shows(d, list, sock)
  BY <1>9, <1>13 DEF Shows
<1> QED
  BY <1>1, <1>11, <1>12, <1>14 DEF list, id_msg

LEMMA InitRosters == Init => Rosters
<1> SUFFICES ASSUME Init PROVE Rosters
  OBVIOUS
<1>1. \A fd \in Desc : peer[fd] # "up"
  BY DEF Init
<1> QED
  BY <1>1 DEF Rosters

(* A step that neither writes to a client nor changes the list. *)
LEMMA QuietRosters ==
  ASSUME Rosters, UNCHANGED <<clients, inbox, client>>,
         \A fd \in Desc : peer'[fd] = "up" => peer[fd] = "up"
  PROVE  Rosters'
BY DEF Rosters, Count

(* A step of one client. *)
LEMMA ClientRosters ==
  ASSUME Rosters, NEW fd \in Desc, clients' = clients,
         \A d \in Desc : d # fd =>
           /\ client'[d] = client[d] /\ inbox'[d] = inbox[d]
           /\ peer'[d] = "up" => peer[d] = "up",
         peer'[fd] = "up" =>
           /\ peer[fd] = "up"
           /\ Alike(CaughtUp(client'[fd], inbox'[fd]), CaughtUp(client[fd], inbox[fd]))
  PROVE  Rosters'
<1>1. ASSUME NEW d \in Desc, peer'[d] = "up", Count(clients, d) = 1
      PROVE  Shows(CaughtUp(client'[d], inbox'[d]), clients, d)
  <2>1. peer[d] = "up"
    BY <1>1
  <2>2. Shows(CaughtUp(client[d], inbox[d]), clients, d)
    BY <1>1, <2>1 DEF Rosters
  <2>3. CASE d # fd
    BY <2>2, <2>3
  <2>4. CASE d = fd
    <3>1. Alike(CaughtUp(client'[d], inbox'[d]), CaughtUp(client[d], inbox[d]))
      BY <1>1, <2>4
    <3> QED
      BY <2>2, <3>1, ShowsAlike
  <2> QED
    BY <2>3, <2>4
<1>2. \A d : Count(clients, d)' = Count(clients, d)
  BY DEF Count
<1> QED
  BY <1>1, <1>2 DEF Rosters, Count

(* A client that hears one message more. *)
LEMMA HearsOne ==
  ASSUME WorldTypes, Rosters, NEW fd \in Desc, peer[fd] = "up", Count(clients, fd) = 1,
         NEW b \in Seq(ServerMessage), Len(b) = 1, NEW msg, \A j \in 1 .. Len(b) : b[j] = msg
  PROVE  LET cl == CaughtUp(client[fd], inbox[fd])
         IN  /\ cl \in Process /\ Shows(cl, clients, fd)
             /\ CaughtUp(client[fd], inbox[fd] \o b) = process_server_command(cl, msg)
<1>1. client[fd] \in Process /\ inbox[fd] \in Seq(ServerMessage)
  BY DEF WorldTypes
<1>2. CaughtUp(client[fd], inbox[fd]) \in Process
  BY <1>1, CaughtUpType
<1>3. Shows(CaughtUp(client[fd], inbox[fd]), clients, fd)
  BY DEF Rosters
<1>4. b[1] = msg
  OBVIOUS
<1>5. CaughtUp(client[fd], inbox[fd] \o b)
        = process_server_command(CaughtUp(client[fd], inbox[fd]), b[1])
  BY <1>1, CaughtUpOnOne
<1> QED
  BY <1>2, <1>3, <1>4, <1>5

LEMMA LoopRosters ==
  ASSUME Rosters, Select \/ SelectFails \/ ThreadDone \/ ClientsDone
  PROVE  Rosters'
<1> USE DEF server, kernel, people
<1>1. UNCHANGED <<clients, inbox, client, peer>>
  BY DEF Select, SelectFails, ThreadDone, ClientsDone
<1> QED
  BY <1>1, QuietRosters

LEMMA KilledRosters ==
  ASSUME Rosters, NEW batch, NEW ends, SendKills(batch, ends)
  PROVE  Rosters'
<1> USE DEF server, kernel, people
<1>1. UNCHANGED <<clients, inbox, client, peer>>
  BY DEF SendKills
<1> QED
  BY <1>1, QuietRosters

LEMMA ServedRosters ==
  ASSUME IInv, Rosters, NEW fd \in Desc,
         WordCommand(fd) \/ UnknownCommand(fd) \/ RecvFails(fd)
  PROVE  Rosters'
<1> USE DEF people
<1>1. UNCHANGED <<clients, inbox, client>>
  BY DEF WordCommand, UnknownCommand, RecvFails
<1>2. \A d \in Desc : peer'[d] = "up" => peer[d] = "up"
  <2>1. CASE WordCommand(fd) \/ UnknownCommand(fd)
    BY <2>1 DEF WordCommand, UnknownCommand
  <2>2. CASE RecvFails(fd)
    <3>1. peer' = [peer EXCEPT ![fd] = "dead"] /\ peer \in [Desc -> Peer]
      BY <2>2 DEF RecvFails, IInv, WorldTypes
    <3> QED
      BY <3>1
  <2> QED
    BY <2>1, <2>2
<1> QED
  BY <1>1, <1>2, QuietRosters

(* The commands of the logic thread are about nobody in the list. *)
LEMMA RelayRosters ==
  ASSUME IInv, Rosters, process_thread_command
  PROVE  Rosters'
<1> USE DEF server, people
<1>1. WorldTypes /\ clients \in Listed /\ peer \in [Desc -> Peer]
  BY ListedClients DEF IInv, WorldTypes
<1>2. from_logic \in Seq(LogicMessage) /\ from_logic # <<>>
  BY DEF IInv, ServerTypes, process_thread_command
<1> DEFINE m == Head(from_logic)
           batch == Relayed(m)
<1>3. m \in LogicMessage
  BY <1>2, HeadTailProperties
<1>4. batch \in [Desc -> Seq(ServerMessage)]
  BY <1>3, RelayedType
<1>5. \/ SendKills(batch, peer)
      \/ Send(batch, peer) /\ UNCHANGED <<server, people>>
  BY DEF process_thread_command
<1> HIDE DEF m
<1>6. ASSUME NEW fd \in Desc, Count(clients, fd) = 1
      PROVE  \/ batch[fd] = <<>>
             \/ /\ Len(batch[fd]) = 1
                /\ \E msg \in {<<"N_GAME">>, <<"N_GAME_NOT_FULL">>, <<"N_GAME_STARTED_NO_JOINING">>} :
                     \A j \in 1 .. Len(batch[fd]) : batch[fd][j] = msg
  <2>1. CASE m[1] = "T_GAME_STARTED_NO_JOINING"
    <3>1. batch[fd] = << <<"N_GAME_STARTED_NO_JOINING">> >> \/ batch[fd] = <<>>
      BY <2>1 DEF Relayed, ToOne
    <3> HIDE DEF batch
    <3>2. ASSUME batch[fd] = << <<"N_GAME_STARTED_NO_JOINING">> >>
          PROVE  /\ Len(batch[fd]) = 1
                 /\ \A j \in 1 .. Len(batch[fd]) : batch[fd][j] = <<"N_GAME_STARTED_NO_JOINING">>
      BY <3>2
    <3> QED
      BY <3>1, <3>2
  <2>2. CASE m[1] # "T_GAME_STARTED_NO_JOINING"
    <3>1. m = <<"N_GAME">> /\ batch = ToAll(clients, m)
      BY <1>3, <2>2 DEF LogicMessage, Relayed
    <3> HIDE DEF batch
    <3>2. Len(batch[fd]) = Count(clients, fd) /\ \A j \in 1 .. Len(batch[fd]) : batch[fd][j] = m
      BY <1>1, <3>1, ToAllCopies
    <3> QED
      BY <1>6, <3>1, <3>2
  <2> QED
    BY <2>1, <2>2
<1> HIDE DEF batch
<1>7. CASE SendKills(batch, peer)
  BY <1>7, KilledRosters
<1>8. CASE Send(batch, peer) /\ UNCHANGED <<server, people>>
  <2>1. \A fd \in Desc :
          /\ peer'[fd] = "up" <=> peer[fd] = "up"
          /\ inbox'[fd] = IF peer[fd] = "up" THEN inbox[fd] \o batch[fd] ELSE <<>>
    BY <1>1, <1>4, <1>8, SendEffect
  <2>2. ASSUME NEW fd \in Desc, peer'[fd] = "up", Count(clients, fd) = 1
        PROVE  Shows(CaughtUp(client[fd], inbox[fd] \o batch[fd]), clients, fd)
    <3>1. peer[fd] = "up"
      BY <2>1, <2>2
    <3>2. CASE batch[fd] = <<>>
      <4>1. inbox[fd] \in Seq(ServerMessage)
        BY <1>1 DEF WorldTypes
      <4>2. inbox[fd] \o batch[fd] = inbox[fd]
        BY <3>2, <4>1, ConcatEmptySeq
      <4> QED
        BY <2>2, <3>1, <4>2 DEF Rosters
    <3>3. ASSUME Len(batch[fd]) = 1,
                 NEW msg \in {<<"N_GAME">>, <<"N_GAME_NOT_FULL">>, <<"N_GAME_STARTED_NO_JOINING">>},
                 \A j \in 1 .. Len(batch[fd]) : batch[fd][j] = msg
          PROVE  Shows(CaughtUp(client[fd], inbox[fd] \o batch[fd]), clients, fd)
      <4> DEFINE cl == CaughtUp(client[fd], inbox[fd])
      <4>1. /\ cl \in Process /\ Shows(cl, clients, fd)
            /\ CaughtUp(client[fd], inbox[fd] \o batch[fd]) = process_server_command(cl, msg)
        <5>1. batch[fd] \in Seq(ServerMessage)
          BY <1>4
        <5> QED
          BY <1>1, <2>2, <3>1, <3>3, <5>1, HearsOne
      <4> HIDE DEF cl
      <4>2. Alike(process_server_command(cl, msg), cl)
        BY <4>1, NothingNew
      <4> QED
        BY <4>1, <4>2, ShowsAlike
    <3> QED
      BY <1>6, <2>2, <3>2, <3>3
  <2>3. clients' = clients /\ client' = client
    BY <1>8
  <2>4. ASSUME NEW fd \in Desc, peer'[fd] = "up", Count(clients', fd) = 1
        PROVE  Shows(CaughtUp(client'[fd], inbox'[fd]), clients', fd)
    BY <2>1, <2>2, <2>3, <2>4
  <2> QED
    BY <2>4 DEF Rosters, Count
<1> QED
  BY <1>5, <1>7, <1>8

LEMMA NameRosters ==
  ASSUME IInv, Rosters, NEW fd \in Desc, NameCommand(fd)
  PROVE  Rosters'
<1> USE DEF people
<1>1. ServerTypes /\ WorldTypes /\ OnTheWay /\ clients \in Listed /\ clients \in Seats
      /\ peer \in [Desc -> Peer]
  BY ListedClients DEF IInv, WorldTypes, ServerTypes, Seats
<1> DEFINE name == Parsed(fd)
           msg == <<"N_PLAYER_CHANGED_NAME", fd, name>>
           news == ToAll(clients, msg)
           p == FirstPlace(fd)
           renamed == [clients EXCEPT ![p].name = name]
<1>2. /\ Serving(fd) /\ outbox[fd] # <<>> /\ get_msg_code(Head(outbox[fd])) = "N_SEND_NAME"
      /\ \/ Send(news, peer) /\ clients' = renamed /\ UNCHANGED people
         \/ SendKills(news, peer)
  BY DEF NameCommand, Command
<1>3. name \in Text
  BY <1>1, <1>2, WhatIsParsed
<1>4. /\ p \in 1 .. Len(clients) /\ clients[p].sock = fd
      /\ \A j \in 1 .. Len(clients) : clients[j].sock = fd => p <= j
  BY <1>1, <1>2, ServedClient, FirstPlaceOf
<1> HIDE DEF name, p
<1>5. msg \in ServerMessage
  BY <1>3 DEF ServerMessage
<1>6. news \in [Desc -> Seq(ServerMessage)]
  <2> HIDE DEF msg
  <2> QED
    BY <1>1, <1>5, ToAllType
<1>7. \A d \in Desc : /\ Len(news[d]) = Count(clients, d)
                      /\ \A j \in 1 .. Len(news[d]) : news[d][j] = msg
  <2> HIDE DEF msg
  <2> QED
    BY <1>1, ToAllCopies
<1>8. Len(renamed) = Len(clients) /\ \A i \in 1 .. Len(clients) : renamed[i].sock = clients[i].sock
  <2> DEFINE R == [sock : Desc, name : Name \cup {<<>>}]
             n == Len(clients)
  <2>1. /\ clients \in Seq(R) /\ n \in Nat /\ DOMAIN clients = 1 .. n
        /\ \A i \in 1 .. n : clients[i] \in R
    BY <1>1, ListedClients DEF ServerTypes
  <2>2. Len(renamed) = n
    BY <2>1
  <2>3. \A i \in 1 .. n : renamed[i].sock = clients[i].sock
    BY <2>1
  <2> QED
    BY <2>2, <2>3
<1>9. \A d : Count(renamed, d) = Count(clients, d)
  <2> HIDE DEF renamed
  <2> QED
    BY <1>8 DEF Count
<1> HIDE DEF news
<1>10. CASE SendKills(news, peer)
  BY <1>10, KilledRosters
<1>11. CASE Send(news, peer) /\ clients' = renamed /\ UNCHANGED people
  <2>1. \A d \in Desc :
          /\ peer'[d] = "up" <=> peer[d] = "up"
          /\ inbox'[d] = IF peer[d] = "up" THEN inbox[d] \o news[d] ELSE <<>>
    BY <1>1, <1>6, <1>11, SendEffect
  <2>2. ASSUME NEW d \in Desc, peer'[d] = "up", Count(renamed, d) = 1
        PROVE  Shows(CaughtUp(client'[d], inbox'[d]), renamed, d)
    <3> DEFINE cl == CaughtUp(client[d], inbox[d])
    <3>1. peer[d] = "up" /\ Count(clients, d) = 1
      BY <1>9, <2>1, <2>2
    <3>2. news[d] \in Seq(ServerMessage) /\ Len(news[d]) = 1
      BY <1>6, <1>7, <3>1
    <3>3. \A j \in 1 .. Len(news[d]) : news[d][j] = msg
      BY <1>7
    <3>4. /\ cl \in Process /\ Shows(cl, clients, d)
          /\ CaughtUp(client[d], inbox[d] \o news[d]) = process_server_command(cl, msg)
      <4> HIDE DEF msg
      <4> QED
        BY <1>1, <3>1, <3>2, <3>3, HearsOne
    <3> HIDE DEF cl
    <3>5. Shows(process_server_command(cl, msg), renamed, d)
      BY <1>1, <1>3, <1>4, <3>4, ShowsRenamed
    <3>6. client' = client /\ inbox'[d] = inbox[d] \o news[d]
      BY <1>11, <2>1, <3>1
    <3> HIDE DEF msg, renamed
    <3> QED
      BY <3>4, <3>5, <3>6
  <2>3. ASSUME NEW d \in Desc, peer'[d] = "up", Count(clients', d) = 1
        PROVE  Shows(CaughtUp(client'[d], inbox'[d]), clients', d)
    <3> HIDE DEF renamed
    <3> QED
      BY <1>11, <2>2, <2>3
  <2> QED
    BY <2>3 DEF Rosters, Count
<1> HIDE DEF renamed
<1> QED
  BY <1>2, <1>10, <1>11

LEMMA TurnAwayRosters ==
  ASSUME IInv, Rosters, TurnAway
  PROVE  Rosters'
<1> USE DEF people
<1>1. WorldTypes
  BY DEF IInv
<1>2. UNCHANGED <<clients, client>>
  BY DEF TurnAway
<1>3. CASE Free # {}
  <2>1. UNCHANGED <<peer, inbox>>
    BY <1>3 DEF TurnAway
  <2> QED
    BY <1>2, <2>1, QuietRosters
<1>4. CASE Free = {}
  <2>1. /\ peer' = [peer EXCEPT ![STDOUT] = "none"]
        /\ inbox' = [inbox EXCEPT ![STDOUT] = <<>>]
    BY <1>4 DEF TurnAway
  <2>2. \A d \in Desc : /\ d # STDOUT => inbox'[d] = inbox[d] /\ peer'[d] = peer[d]
                        /\ d = STDOUT => peer'[d] # "up"
    BY <1>1, <2>1 DEF WorldTypes
  <2>3. STDOUT \in Desc
    BY Descriptors
  <2> QED
    BY <1>2, <2>2, <2>3, ClientRosters
<1> QED
  BY <1>3, <1>4

(* Who leaves is named to everybody else, once to a client listed once.    *)
LEMMA DisconnectRosters ==
  ASSUME IInv, Rosters, NEW fd \in Desc, Disconnect(fd)
  PROVE  Rosters'
<1> USE DEF people
<1>1. ServerTypes /\ WorldTypes /\ clients \in Listed /\ clients \in Seats /\ peer \in [Desc -> Peer]
  BY ListedClients DEF IInv, WorldTypes, ServerTypes, Seats
<1> DEFINE msg == <<"N_PLAYER_LEFT", fd>>
           news == ToAllExcept(fd, msg)
           p == FirstPlace(fd)
           left == RemoveAt(clients, p)
<1>2. /\ Serving(fd) /\ peer[fd] # "up"
      /\ \/ Send(news, peer) /\ clients' = left /\ UNCHANGED people
         \/ SendKills(news, peer)
  BY DEF Disconnect, remove_client_data
<1>3. /\ p \in 1 .. Len(clients) /\ clients[p].sock = fd
      /\ \A j \in 1 .. Len(clients) : clients[j].sock = fd => p <= j
  BY <1>1, <1>2, ServedClient, FirstPlaceOf
<1>4. msg \in ServerMessage
  BY DEF ServerMessage
<1>5. ToAll(clients, msg) \in [Desc -> Seq(ServerMessage)]
  <2> HIDE DEF msg
  <2> QED
    BY <1>1, <1>4, ToAllType
<1>6. news \in [Desc -> Seq(ServerMessage)]
  <2>1. <<>> \in Seq(ServerMessage)
    OBVIOUS
  <2> HIDE DEF msg
  <2> QED
    BY <1>5, <2>1 DEF ToAllExcept
<1>7. \A d \in Desc : d # fd => /\ Len(news[d]) = Count(clients, d)
                                /\ \A j \in 1 .. Len(news[d]) : news[d][j] = msg
  <2>1. TAKE d \in Desc
  <2>2. HAVE d # fd
  <2> HIDE DEF msg
  <2>3. news[d] = ToAll(clients, msg)[d]
    BY <1>5, <2>2 DEF ToAllExcept
  <2> HIDE DEF news
  <2> QED
    BY <1>1, <2>3, ToAllCopies
<1> HIDE DEF p
<1>8. \A d : d # fd => Count(left, d) = Count(clients, d)
  <2>1. TAKE d
  <2>2. HAVE d # fd
  <2>3. Count(left, d) = Count(clients, d) - (IF clients[p].sock = d THEN 1 ELSE 0)
    BY <1>1, <1>3, CountShorter DEF Listed
  <2>4. Count(clients, d) \in Nat
    BY <1>1, CountType DEF Listed
  <2> QED
    BY <1>3, <2>2, <2>3, <2>4
<1> HIDE DEF news, left
<1>9. CASE SendKills(news, peer)
  BY <1>9, KilledRosters
<1>10. CASE Send(news, peer) /\ clients' = left /\ UNCHANGED people
  <2>1. \A d \in Desc :
          /\ peer'[d] = "up" <=> peer[d] = "up"
          /\ inbox'[d] = IF peer[d] = "up" THEN inbox[d] \o news[d] ELSE <<>>
    BY <1>1, <1>6, <1>10, SendEffect
  <2>2. ASSUME NEW d \in Desc, peer'[d] = "up", Count(left, d) = 1
        PROVE  Shows(CaughtUp(client'[d], inbox'[d]), left, d)
    <3> DEFINE cl == CaughtUp(client[d], inbox[d])
    <3>1. peer[d] = "up" /\ d # fd
      BY <1>2, <2>1, <2>2
    <3>2. Count(clients, d) = 1
      BY <1>8, <2>2, <3>1
    <3>3. news[d] \in Seq(ServerMessage) /\ Len(news[d]) = 1
      BY <1>6, <1>7, <3>1, <3>2
    <3>4. \A j \in 1 .. Len(news[d]) : news[d][j] = msg
      BY <1>7, <3>1
    <3>5. /\ cl \in Process /\ Shows(cl, clients, d)
          /\ CaughtUp(client[d], inbox[d] \o news[d]) = process_server_command(cl, msg)
      <4> HIDE DEF msg
      <4> QED
        BY <1>1, <3>1, <3>2, <3>3, <3>4, HearsOne
    <3> HIDE DEF cl
    <3>6. Shows(process_server_command(cl, msg), left, d)
      BY <1>1, <1>3, <3>5, ShowsShorter DEF left
    <3>7. client' = client /\ inbox'[d] = inbox[d] \o news[d]
      BY <1>10, <2>1, <3>1
    <3> HIDE DEF msg
    <3> QED
      BY <3>5, <3>6, <3>7
  <2>3. ASSUME NEW d \in Desc, peer'[d] = "up", Count(clients', d) = 1
        PROVE  Shows(CaughtUp(client'[d], inbox'[d]), clients', d)
    BY <1>10, <2>2, <2>3
  <2> QED
    BY <2>3 DEF Rosters, Count
<1> QED
  BY <1>2, <1>9, <1>10

(* The newcomer is told of everybody, and everybody of the newcomer.  When *)
(* accept() fails, a client on standard output is listed twice from then   *)
(* on.                                                                     *)
LEMMA LetInRosters ==
  ASSUME IInv, Announcements, Rosters, LetIn
  PROVE  Rosters'
<1> DEFINE w == wait_for_client
           n == Len(clients)
<1>1. ServerTypes /\ WorldTypes /\ SeatsAreCounted /\ clients \in Seats
  BY DEF IInv, ServerTypes, Seats
<1>2. w \in Desc /\ (Free # {} => w \in Free) /\ (Free = {} => w = STDOUT)
  BY <1>1, AcceptGives DEF wait_for_client
<1>3. Welcome(w) \in [Desc -> Seq(ServerMessage)]
  BY <1>1, <1>2, WelcomeType
<1>4. PICK end \in {"up", "fin"} :
        \/ /\ Send(Welcome(w), Accepted(end))
           /\ clients' = create_client_data(w)
           /\ client' = IF Free = {} THEN client
                        ELSE [client EXCEPT ![w] =
                                IF end = "up" THEN NewClient
                                              ELSE [NewClient EXCEPT !.phase = "exited"]]
        \/ SendKills(Welcome(w), Accepted(end))
  BY DEF LetIn
<1> DEFINE batch == Welcome(w)
           ends == Accepted(end)
           list == create_client_data(w)
<1>5. peer \in [Desc -> Peer] /\ end \in Peer
  BY <1>1 DEF WorldTypes, Peer
<1>6. /\ ends \in [Desc -> Peer]
      /\ \A d \in Desc : ends[d] = IF Free # {} /\ d = w THEN end ELSE peer[d]
  BY <1>2, <1>5 DEF Accepted
<1>7. /\ Len(list) = n + 1 /\ n \in Nat
      /\ \A i \in 1 .. n : list[i] = clients[i]
      /\ list[n + 1].sock = w /\ list[n + 1].name = <<>>
  <2>1. /\ Len(list) = n + 1 /\ (\A i \in 1 .. n : list[i] = clients[i])
        /\ list[n + 1] = [sock |-> w, name |-> <<>>]
    <3> HIDE DEF w
    <3> QED
      BY <1>1, <1>2, NewcomerListed
  <2>2. n \in Nat
    BY <1>1, ListedClients
  <2> HIDE DEF w, list
  <2> QED
    BY <2>1, <2>2
<1>8. \A d : /\ Count(list, d) = Count(clients, d) + (IF w = d THEN 1 ELSE 0)
             /\ Count(clients, d) \in Nat
  <2>1. TAKE d
  <2> HIDE DEF w, list
  <2>2. Count(list, d) = Count(clients, d) + (IF w = d THEN 1 ELSE 0)
    BY <1>1, <1>7, CountLonger DEF ServerTypes
  <2>3. Count(clients, d) \in Nat
    BY <1>1, CountType DEF ServerTypes
  <2> QED
    BY <2>2, <2>3
<1>9. \A d \in Desc : d # w =>
        /\ batch[d] \in Seq(ServerMessage)
        /\ Len(batch[d]) = Count(clients, d)
        /\ \A j \in 1 .. Len(batch[d]) : batch[d][j] = JoinOf(w)
  BY <1>1, <1>2, WelcomeTells
<1>10. w \notin open => w \notin Socks(clients) /\ inbox[w] = <<>>
  BY <1>2, NewcomerIsNew DEF LetIn
<1>11. Free # {} => w \notin open
  BY <1>2 DEF Free
<1>12. Free # {} => Shows(CaughtUp(NewClient, batch[w]), list, w)
  BY <1>1, <1>2, <1>10, <1>11, NewcomerShows
<1> HIDE DEF w, batch, ends, list, n
<1>13. CASE SendKills(batch, ends)
  BY <1>13, KilledRosters
<1>14. ASSUME Send(batch, ends),
              clients' = list,
              client' = IF Free = {} THEN client
                        ELSE [client EXCEPT ![w] =
                                IF end = "up" THEN NewClient
                                              ELSE [NewClient EXCEPT !.phase = "exited"]]
       PROVE  Rosters'
  <2>1. \A d \in Desc :
          /\ peer'[d] = "up" <=> ends[d] = "up"
          /\ inbox'[d] = IF ends[d] = "up" THEN inbox[d] \o batch[d] ELSE <<>>
    <3>1. batch \in [Desc -> Seq(ServerMessage)]
      BY <1>3 DEF batch
    <3> QED
      BY <1>1, <1>6, <1>14, <3>1, SendEffect
  <2>2. \A d \in Desc : client'[d] = IF Free # {} /\ d = w
                                     THEN IF end = "up" THEN NewClient
                                          ELSE [NewClient EXCEPT !.phase = "exited"]
                                     ELSE client[d]
    <3>1. client \in [Desc -> Process]
      BY <1>1 DEF WorldTypes
    <3> QED
      BY <1>2, <1>14, <3>1
  <2>3. ASSUME NEW d \in Desc, d # w, ends[d] = "up", Count(list, d) = 1
        PROVE  Shows(CaughtUp(client[d], inbox[d] \o batch[d]), list, d)
    <3> DEFINE cl == CaughtUp(client[d], inbox[d])
               b == batch[d]
               msg == JoinOf(w)
    <3>1. peer[d] = "up" /\ Count(clients, d) = 1
      BY <1>6, <1>8, <2>3
    <3>2. b \in Seq(ServerMessage) /\ Len(b) = 1 /\ \A j \in 1 .. Len(b) : b[j] = msg
      BY <1>9, <2>3, <3>1
    <3>3. /\ cl \in Process /\ Shows(cl, clients, d)
          /\ CaughtUp(client[d], inbox[d] \o b) = process_server_command(cl, msg)
      <4> HIDE DEF b, msg
      <4> QED
        BY <1>1, <3>1, <3>2, HearsOne
    <3> HIDE DEF cl
    <3>4. Shows(process_server_command(cl, msg), list, d)
      BY <1>1, <1>2, <1>7, <3>3, ShowsLonger DEF n
    <3> QED
      BY <3>3, <3>4
  <2>4. ASSUME ends[w] = "up", Count(list, w) = 1
        PROVE  Shows(CaughtUp(client'[w], inbox[w] \o batch[w]), list, w)
    <3>1. CASE Free = {}
      <4>1. peer[w] = "up"
        BY <1>2, <1>6, <2>4, <3>1
      <4>2. w \in Socks(clients)
        BY <1>1, <1>2, <4>1 DEF Announcements, EverybodyIsInformed, Informed, SeatsAreCounted
      <4>3. Count(clients, w) >= 1
        BY <1>1, <4>2, CountType DEF ServerTypes
      <4> QED
        BY <1>8, <2>4, <4>3
    <3>2. CASE Free # {}
      <4>1. client'[w] = NewClient
        BY <1>2, <1>6, <2>2, <2>4, <3>2
      <4>2. inbox[w] \o batch[w] = batch[w]
        <5>1. inbox[w] = <<>> /\ batch[w] \in Seq(ServerMessage)
          BY <1>2, <1>3, <1>10, <1>11, <3>2 DEF batch
        <5> QED
          BY <5>1, ConcatEmptySeq
      <4> QED
        BY <1>12, <3>2, <4>1, <4>2
    <3> QED
      BY <3>1, <3>2
  <2>5. ASSUME NEW d \in Desc, peer'[d] = "up", Count(clients', d) = 1
        PROVE  Shows(CaughtUp(client'[d], inbox'[d]), clients', d)
    <3>1. ends[d] = "up" /\ inbox'[d] = inbox[d] \o batch[d] /\ Count(list, d) = 1
      BY <1>14, <2>1, <2>5
    <3>2. CASE d = w
      BY <1>14, <2>4, <3>1, <3>2
    <3>3. CASE d # w
      <4>1. client'[d] = client[d]
        BY <2>2, <3>3
      <4> QED
        BY <1>14, <2>3, <3>1, <3>3, <4>1
    <3> QED
      BY <3>2, <3>3
  <2> QED
    BY <2>5 DEF Rosters, Count
<1> QED
  <2>1. \/ /\ Send(batch, ends)
           /\ clients' = list
           /\ client' = IF Free = {} THEN client
                        ELSE [client EXCEPT ![w] =
                                IF end = "up" THEN NewClient
                                              ELSE [NewClient EXCEPT !.phase = "exited"]]
        \/ SendKills(batch, ends)
    BY <1>4 DEF batch, ends, list, w
  <2> QED
    BY <1>13, <1>14, <2>1

LEMMA QuitsRosters ==
  ASSUME IInv, Rosters, NEW fd \in Desc, ClientQuits(fd)
  PROVE  Rosters'
<1>1. /\ client' = [client EXCEPT ![fd] = [client[fd] EXCEPT !.phase = "exited"]]
      /\ inbox' = [inbox EXCEPT ![fd] = <<>>]
      /\ \A d \in Desc : peer'[d] = "up" <=> d # fd /\ peer[d] = "up"
  BY QuitsIInv
<1>2. client \in [Desc -> Process] /\ inbox \in [Desc -> Seq(ServerMessage)]
  BY DEF IInv, WorldTypes
<1>3. \A d \in Desc : d # fd => client'[d] = client[d] /\ inbox'[d] = inbox[d]
  BY <1>1, <1>2
<1>4. clients' = clients
  BY DEF ClientQuits, Ends, server
<1> QED
  BY <1>1, <1>3, <1>4, ClientRosters

(* What is read now need not be read later. *)
LEMMA ReadsRosters ==
  ASSUME IInv, Announcements, Rosters, NEW fd \in Desc, ClientReads(fd)
  PROVE  Rosters'
<1> DEFINE cl == client[fd]
           q == inbox[fd]
           now == After(fd)
           msg == q[1]
<1>1. /\ client' = [client EXCEPT ![fd] = now]
      /\ \/ /\ inbox' = [inbox EXCEPT ![fd] = <<>>]
            /\ \A d \in Desc : peer'[d] = "up" <=> d # fd /\ peer[d] = "up"
         \/ /\ inbox' = [inbox EXCEPT ![fd] = Tail(@)]
            /\ peer' = peer
  BY ReadsIInv
<1>2. client \in [Desc -> Process] /\ inbox \in [Desc -> Seq(ServerMessage)]
  BY DEF IInv, WorldTypes
<1>3. cl \in Process /\ q \in Seq(ServerMessage) /\ q # <<>>
  BY <1>2 DEF ClientReads
<1>4. peer[fd] = "up" /\ cl.phase \in {"greet", "main"}
  BY DEF ClientReads, Goes
<1>5. Head(q) = msg /\ msg \in ServerMessage /\ Tail(q) \in Seq(ServerMessage)
  <2>1. Len(q) \in Nat \ {0}
    BY <1>3, LenProperties, EmptySeq
  <2> QED
    BY <1>3, <2>1, HeadTailProperties, ElementOfSeq
<1>6. cl.phase = "greet" => msg = <<"N_GAME_NOT_FULL">>
  BY <1>4 DEF Announcements, EverybodyIsInformed, Informed, Sound
<1>7. now = IF cl.phase = "greet" THEN greet(cl, msg) ELSE process_server_command(cl, msg)
  BY <1>5 DEF After
<1>8. /\ \A d \in Desc : d # fd => client'[d] = client[d] /\ inbox'[d] = inbox[d]
                                   /\ (peer'[d] = "up" => peer[d] = "up")
      /\ peer'[fd] = "up" => inbox'[fd] = Tail(q)
      /\ client'[fd] = now
  <2> HIDE DEF now
  <2> QED
    BY <1>1, <1>2, <1>4
<1>9. clients' = clients
  BY DEF ClientReads, Ends, server
<1> HIDE DEF cl, q, now, msg
<1> DEFINE read == process_server_command(cl, msg)
<1>10. Alike(now, read) /\ now \in Process /\ read \in Process
  <2>1. read \in Process
    BY <1>3, <1>5, MessageRead
  <2>2. CASE cl.phase = "greet"
    <3>1. now = greet(cl, msg) /\ now \in Process
      BY <1>3, <1>7, <2>2, GreetingRead
    <3>2. now.players = cl.players /\ now.my_id = cl.my_id
      BY <1>3, <3>1, ShownFields DEF greet
    <3>3. Alike(read, cl)
      BY <1>3, <1>6, <2>2, NothingNew
    <3> HIDE DEF read
    <3> QED
      BY <2>1, <3>1, <3>2, <3>3 DEF Alike
  <2>3. CASE cl.phase = "main"
    <3>1. now = read
      BY <1>7, <2>3
    <3> QED
      BY <2>1, <3>1 DEF Alike
  <2> QED
    BY <1>4, <2>2, <2>3 DEF cl
<1>11. CaughtUp(cl, q) = CaughtUp(read, Tail(q))
  BY <1>3, CaughtUpFromFirst DEF msg
<1> HIDE DEF read
<1>12. Alike(CaughtUp(now, Tail(q)), CaughtUp(cl, q))
  BY <1>5, <1>10, <1>11, AlikeCaughtUp
<1>13. peer'[fd] = "up" => Alike(CaughtUp(client'[fd], inbox'[fd]), CaughtUp(client[fd], inbox[fd]))
  BY <1>8, <1>12 DEF cl, q
<1> QED
  BY <1>4, <1>8, <1>9, <1>13, ClientRosters

LEMMA NamesRosters ==
  ASSUME IInv, Rosters, NEW fd \in Desc, NEW name \in Name, ClientNames(fd, name)
  PROVE  Rosters'
<1> DEFINE cl == client[fd]
           now == [cl EXCEPT !.phase = "main"]
<1>1. client \in [Desc -> Process] /\ inbox \in [Desc -> Seq(ServerMessage)] /\ "main" \in Phase
  BY DEF IInv, WorldTypes, Phase
<1>2. now \in Process /\ now.players = cl.players /\ now.my_id = cl.my_id
  BY <1>1, PhaseChanges, ShownFields
<1>3. /\ client' = [client EXCEPT ![fd] = now] /\ peer[fd] = "up"
      /\ UNCHANGED <<clients, inbox, peer>>
  BY DEF ClientNames, Goes, server
<1> HIDE DEF now
<1>4. /\ client'[fd] = now
      /\ \A d \in Desc : d # fd => client'[d] = client[d]
  BY <1>1, <1>3
<1>5. Alike(CaughtUp(now, inbox[fd]), CaughtUp(cl, inbox[fd]))
  <2>1. Alike(now, cl) /\ cl \in Process /\ inbox[fd] \in Seq(ServerMessage)
    BY <1>1, <1>2 DEF Alike
  <2> HIDE DEF cl
  <2> QED
    BY <1>2, <2>1, AlikeCaughtUp
<1> QED
  BY <1>3, <1>4, <1>5, ClientRosters

LEMMA NextRosters == IInv /\ Announcements /\ Rosters /\ [Next]_vars => Rosters'
<1> SUFFICES ASSUME IInv, Announcements, Rosters, [Next]_vars PROVE Rosters'
  OBVIOUS
<1> USE DEF server, kernel, people
<1>1. CASE NetworkThread
  <2>1. CASE Select \/ SelectFails \/ ThreadDone \/ ClientsDone
    BY <2>1, LoopRosters
  <2>2. CASE process_thread_command
    BY <2>2, RelayRosters
  <2>3. CASE LetIn
    BY <2>3, LetInRosters
  <2>4. CASE TurnAway
    BY <2>4, TurnAwayRosters
  <2>5. ASSUME NEW fd \in Desc, NameCommand(fd) PROVE Rosters'
    BY <2>5, NameRosters
  <2>6. ASSUME NEW fd \in Desc, WordCommand(fd) \/ UnknownCommand(fd) \/ RecvFails(fd)
        PROVE  Rosters'
    BY <2>6, ServedRosters
  <2>7. ASSUME NEW fd \in Desc, Disconnect(fd) PROVE Rosters'
    BY <2>7, DisconnectRosters
  <2> QED
    BY <1>1, <2>1, <2>2, <2>3, <2>4, <2>5, <2>6, <2>7 DEF NetworkThread
<1>2. CASE World
  <2>1. CASE Connect
    BY <2>1, QuietRosters DEF Connect
  <2>2. ASSUME NEW msg, LogicCommand(msg) PROVE Rosters'
    BY <2>2, QuietRosters DEF LogicCommand
  <2>3. ASSUME NEW fd \in Desc, ClientQuits(fd) PROVE Rosters'
    BY <2>3, QuitsRosters
  <2>4. ASSUME NEW fd \in Desc, ClientReads(fd) PROVE Rosters'
    BY <2>4, ReadsRosters
  <2>5. ASSUME NEW fd \in Desc, NEW name \in Name, ClientNames(fd, name) PROVE Rosters'
    BY <2>5, NamesRosters
  <2>6. ASSUME NEW fd \in Desc, NEW word \in Word, ClientTypes(fd, word) PROVE Rosters'
    BY <2>6, QuietRosters DEF ClientTypes
  <2> QED
    BY <1>2, <2>1, <2>2, <2>3, <2>4, <2>5, <2>6 DEF World
<1>3. CASE UNCHANGED vars
  BY <1>3, QuietRosters DEF vars
<1> QED
  BY <1>1, <1>2, <1>3 DEF Next

(* The message of the greeting that the client has still to read, and that *)
(* RostersConverge leaves out, changes nothing.                            *)
LEMMA RostersShown ==
  ASSUME IInv, Announcements, Rosters
  PROVE  RostersConverge
<1>1. ASSUME NEW i \in 1 .. Len(clients), NEW fd, fd = clients[i].sock,
             peer[fd] = "up", Places(fd) = {i},
             NEW unread,
             unread = IF client[fd].phase = "greet" THEN Tail(inbox[fd]) ELSE inbox[fd]
      PROVE  Agrees(CaughtUp(client[fd], unread)) /\ CaughtUp(client[fd], unread).my_id = fd
  <2> DEFINE cl == client[fd]
             q == inbox[fd]
  <2>1. fd \in Desc
    BY <1>1, ListedClients DEF IInv
  <2>2. cl \in Process /\ q \in Seq(ServerMessage)
    BY <2>1 DEF IInv, WorldTypes
  <2>3. Count(clients, fd) = 1
    <3>1. Count(clients, fd) = Cardinality({i})
      BY <1>1 DEF Count, Places
    <3> QED
      BY <3>1, FS_Singleton
  <2>4. Shows(CaughtUp(cl, q), clients, fd)
    BY <1>1, <2>1, <2>3 DEF Rosters
  <2>5. cl.phase = "greet" => q # <<>> /\ q[1] = <<"N_GAME_NOT_FULL">>
    BY <1>1, <2>1 DEF Announcements, EverybodyIsInformed, Informed, Sound
  <2>6. unread = IF cl.phase = "greet" THEN Tail(q) ELSE q
    BY <1>1
  <2> HIDE DEF cl, q
  <2>7. Shows(CaughtUp(cl, unread), clients, fd)
    <3>1. CASE cl.phase # "greet"
      BY <2>4, <2>6, <3>1
    <3>2. CASE cl.phase = "greet"
      <4> DEFINE read == process_server_command(cl, <<"N_GAME_NOT_FULL">>)
      <4>1. read = cl
        BY DEF process_server_command
      <4>2. CaughtUp(cl, q) = CaughtUp(read, Tail(q))
        BY <2>2, <2>5, <3>2, CaughtUpFromFirst
      <4> HIDE DEF read
      <4> QED
        BY <2>4, <2>6, <3>2, <4>1, <4>2
    <3> QED
      BY <3>1, <3>2
  <2> DEFINE end == CaughtUp(cl, unread)
  <2> HIDE DEF end
  <2>8. Shows(end, clients, fd)
    BY <2>7 DEF end
  <2>9. Agrees(end) /\ end.my_id = fd
    BY <2>8 DEF Shows, Agrees
  <2> QED
    BY <2>9 DEF end, cl
<1> QED
  BY <1>1, ZenonT(30) DEF RostersConverge

(* A client that is listed once and reads all that was sent to it shows    *)
(* the server's list, in its order and under the names chosen, and knows   *)
(* its own id: for any number of clients, in whatever order they come,     *)
(* name themselves and leave while create_client_data(),                   *)
(* remove_client_data() and process_client_command() tell the others, and  *)
(* however late each of them reads.                                        *)
THEOREM RostersAgree == Spec => []RostersConverge
<1>1. Init => IInv /\ Announcements /\ Rosters
  BY InitIInv, InitAnnouncements, InitRosters
<1>2. (IInv /\ Announcements /\ Rosters) /\ [Next]_vars => (IInv /\ Announcements /\ Rosters)'
  BY NextIInv, NextAnnouncements, NextRosters
<1>3. IInv /\ Announcements /\ Rosters => RostersConverge
  BY RostersShown
<1> QED
  BY <1>1, <1>2, <1>3, PTL DEF Spec
=============================================================================
