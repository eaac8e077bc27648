----------------------------- MODULE ClientProofs -----------------------------
(***************************************************************************)
(* For every size of the line, of glibc's cache and of the list of alerts, *)
(* and every length of frames: the types, the line that is sent, and that  *)
(* the list of alerts implements AlertBoard.                               *)
(***************************************************************************)
EXTENDS Client, OrderFacts, SequenceTheorems

----------------------------------------------------------------------------
(* The invariant *)

(* A client has its phase, whatever handler it went through. *)
HasFields(c) ==
  /\ c = [field \in DOMAIN c |-> c[field]]
  /\ "phase" \in DOMAIN c /\ c.phase \in Phase

PressedKey == Letter \cup {BACKSPACE}

LineIsMeant ==
  /\ input \in Seq(Letter)
  /\ input_len \in Int /\ input_len < INPUT_SIZE - 1
  /\ Len(input) = (IF input_len < 0 THEN 0 ELSE input_len)
  /\ typed \in Seq(PressedKey)
  /\ Regular(typed) => input = Meant(typed) /\ input_len = Len(input)

Place == Chunk \cup {NULL}

Text == {"none", "N_CORRECT_WORD", "N_LOSE_HP", "N_INCORRECT_WORD", "N_PLAYER_WON"}

Memory == [Chunk -> [text : Text, left : Int, next : Place]]

HeapTypes ==
  /\ alerts \in Place
  /\ chunk \in Memory
  /\ tcache \in Seq(Chunk) /\ Len(tcache) <= TCACHE_COUNT
  /\ binned \in SUBSET Chunk

(* The chunks of the list are linked, and disjoint from those freed; when  *)
(* the list is empty, the chunk that will be its first again was its last. *)
Linked(list, first, memory, cached) ==
  /\ list \in Seq(Chunk)
  /\ \A i, j \in 1 .. Len(list) : list[i] = list[j] => i = j
  /\ first = IF Len(list) = 0 THEN NULL ELSE list[1]
  /\ \A i \in 1 .. Len(list) :
       /\ memory[list[i]].next = IF i = Len(list) THEN NULL ELSE list[i + 1]
       /\ memory[list[i]].text # "none"
  /\ \A i \in 1 .. Len(cached) :
       /\ \A j \in 1 .. Len(list) : cached[i] # list[j]
       /\ \A j \in 1 .. Len(cached) : cached[i] = cached[j] => i = j
       /\ memory[cached[i]].text # "none"
  /\ Len(list) + Len(cached) <= TCACHE_COUNT
  /\ Len(list) = 0 /\ Len(cached) > 0 => memory[cached[1]].next = NULL

Tidy ==
  ~crowded =>
    /\ Linked(Follow, alerts, chunk, tcache)
    /\ binned = {}
    /\ Last(Walk) = NULL
    /\ fault = "none"

IInv ==
  /\ HasFields(client)
  /\ step \in {"read", "draw"}
  /\ deltatime \in DeltaTime \cup {0, Skewed}
  /\ fault \in {"none", "bad_alert"}
  /\ LineIsMeant
  /\ HeapTypes
  /\ Tidy

----------------------------------------------------------------------------
(* The line *)

Corrects(f, keys) ==
  f = [n \in 0 .. Len(keys) |-> IF n = 0 THEN <<>> ELSE Corrected(f[n - 1], keys[n])]

Corrections(keys) == CHOOSE f : Corrects(f, keys)

LEMMA CorrectedIsText ==
  ASSUME NEW text \in Seq(Letter), NEW key \in PressedKey
  PROVE  Corrected(text, key) \in Seq(Letter)
<1>1. CASE key # BACKSPACE
  <2>1. key \in Letter
    BY <1>1 DEF PressedKey
  <2> QED
    BY <1>1, <2>1 DEF Corrected
<1>2. CASE key = BACKSPACE /\ text = <<>>
  BY <1>2 DEF Corrected
<1>3. CASE key = BACKSPACE /\ text # <<>>
  <2>1. Front(text) = SubSeq(text, 1, Len(text) - 1)
    BY DEF Front
  <2>2. SubSeq(text, 1, Len(text) - 1) \in Seq(Letter)
    OBVIOUS
  <2> QED
    BY <1>3, <2>1, <2>2 DEF Corrected
<1> QED
  BY <1>1, <1>2, <1>3

LEMMA CorrectionsAre ==
  ASSUME NEW keys \in Seq(PressedKey)
  PROVE  /\ Corrections(keys)[0] = <<>>
         /\ \A n \in 0 .. Len(keys) : Corrections(keys)[n] \in Seq(Letter)
         /\ \A n \in 1 .. Len(keys) :
              Corrections(keys)[n] = Corrected(Corrections(keys)[n - 1], keys[n])
         /\ Meant(keys) = Corrections(keys)[Len(keys)]
<1> DEFINE N == Len(keys)
           D == Seq(Letter)
           step1 == [x \in (1 .. N) \X D |-> Corrected(x[2], keys[x[1]])]
           empty == <<>>
           F == Corrections(keys)
<1>1. N \in Nat /\ \A n \in 1 .. N : keys[n] \in PressedKey
  OBVIOUS
<1>2. \A n \in 1 .. N : \A text \in D : Corrected(text, keys[n]) \in D
  BY <1>1, CorrectedIsText
<1>3. \A n \in 1 .. N : \A text \in D : step1[<<n, text>>] = Corrected(text, keys[n])
  OBVIOUS
<1>4. empty \in D
  OBVIOUS
<1>M. Meant(keys) = F[Len(keys)]
  BY DEF Meant, Corrections, Corrects
<1> HIDE DEF step1, empty, N, D
<1>5. PICK f : Iterates(f, N, D, empty, step1)
  <2>1. \A n \in 1 .. N : \A text \in D : step1[<<n, text>>] \in D
    BY <1>2, <1>3
  <2> QED
    BY <1>1, <1>4, <2>1, IterationExists
<1>6. Corrects(f, keys)
  <2>1. \A n \in 0 .. N : f[n] = IF n = 0 THEN empty ELSE Corrected(f[n - 1], keys[n])
    <3>1. TAKE n \in 0 .. N
    <3>2. CASE n = 0
      BY <1>5, <3>2 DEF Iterates
    <3>3. CASE n # 0
      <4>1. n \in 1 .. N /\ n - 1 \in 0 .. N
        BY <1>1, <3>3
      <4>2. f[n] = step1[<<n, f[n - 1]>>] /\ f[n - 1] \in D
        BY <1>5, <4>1 DEF Iterates
      <4> QED
        BY <1>3, <3>3, <4>1, <4>2
    <3> QED
      BY <3>2, <3>3
  <2>2. f = [n \in 0 .. N |-> IF n = 0 THEN empty ELSE Corrected(f[n - 1], keys[n])]
    BY <1>5, <2>1 DEF Iterates
  <2> QED
    BY <2>2 DEF Corrects, N, empty
<1>7. Corrects(F, keys)
  BY <1>6 DEF Corrections
<1>8. \A n \in 0 .. N : F[n] = IF n = 0 THEN empty ELSE Corrected(F[n - 1], keys[n])
  <2>1. F = [n \in 0 .. N |-> IF n = 0 THEN empty ELSE Corrected(F[n - 1], keys[n])]
    BY <1>7 DEF Corrects, N, empty
  <2> QED
    BY ONLY <2>1
<1>9. F[0] = empty
  BY <1>1, <1>8
<1>10. \A n \in 1 .. N : n \in 0 .. N /\ n # 0
  BY <1>1
<1>11. \A n \in 1 .. N : F[n] = Corrected(F[n - 1], keys[n])
  BY <1>8, <1>10
<1>12. \A n \in 0 .. N : F[n] \in D
  <2> DEFINE T == {n \in 0 .. N : F[n] \in D}
  <2>1. 0 \in T
    BY <1>1, <1>4, <1>9
  <2>2. \A n \in 1 .. N : n - 1 \in T => n \in T
    BY <1>2, <1>10, <1>11
  <2> HIDE DEF T
  <2>3. \A n \in 0 .. N : n \in T
    BY <1>1, <2>1, <2>2, Ascending
  <2> QED
    BY <2>3 DEF T
<1> QED
  BY <1>9, <1>11, <1>12, <1>M DEF N, empty, D

(* A key more corrects what was meant before. *)
LEMMA MeantGrows ==
  ASSUME NEW keys \in Seq(PressedKey), NEW key \in PressedKey
  PROVE  Meant(Append(keys, key)) = Corrected(Meant(keys), key)
<1> DEFINE more == Append(keys, key)
           N == Len(keys)
           T == {n \in 0 .. N : Corrections(more)[n] = Corrections(keys)[n]}
<1>1. /\ more \in Seq(PressedKey) /\ Len(more) = N + 1 /\ more[N + 1] = key
      /\ N \in Nat /\ \A n \in 1 .. N : more[n] = keys[n]
  BY AppendProperties
<1> HIDE DEF more, N
<1>2. 0 \in T
  BY <1>1, CorrectionsAre
<1>3. \A n \in 1 .. N : n - 1 \in T => n \in T
  <2>1. TAKE n \in 1 .. N
  <2>2. HAVE n - 1 \in T
  <2>3. n \in 1 .. Len(more) /\ n \in 1 .. Len(keys)
    BY <1>1 DEF N
  <2>4. /\ Corrections(more)[n] = Corrected(Corrections(more)[n - 1], more[n])
        /\ Corrections(keys)[n] = Corrected(Corrections(keys)[n - 1], keys[n])
    BY <1>1, <2>3, CorrectionsAre
  <2>5. Corrections(more)[n - 1] = Corrections(keys)[n - 1]
    BY <2>2
  <2> QED
    BY <1>1, <2>1, <2>4, <2>5
<1> HIDE DEF T
<1>4. \A n \in 0 .. N : n \in T
  BY <1>1, <1>2, <1>3, Ascending
<1>5. Corrections(more)[N] = Corrections(keys)[N]
  BY <1>1, <1>4 DEF T
<1>6. N + 1 \in 1 .. Len(more) /\ (N + 1) - 1 = N
  BY <1>1
<1>7. Corrections(more)[N + 1] = Corrected(Corrections(more)[N], key)
  BY <1>1, <1>6, CorrectionsAre
<1>8. Meant(more) = Corrections(more)[N + 1] /\ Meant(keys) = Corrections(keys)[N]
  BY <1>1, CorrectionsAre DEF N
<1> QED
  BY <1>5, <1>7, <1>8 DEF more

LEMMA NothingMeant == Meant(<<>>) = <<>> /\ Regular(<<>>)
<1> DEFINE none == <<>>
<1>1. none \in Seq(PressedKey) /\ Len(none) = 0
  OBVIOUS
<1>2. Meant(none) = <<>>
  <2> HIDE DEF none
  <2> QED
    BY <1>1, CorrectionsAre
<1>3. Regular(none)
  BY DEF Regular
<1> QED
  BY <1>2, <1>3

LEMMA MeantIsText ==
  ASSUME NEW keys \in Seq(PressedKey)
  PROVE  Meant(keys) \in Seq(Letter)
<1>1. Len(keys) \in 0 .. Len(keys)
  OBVIOUS
<1> QED
  BY <1>1, CorrectionsAre

(* What a line must have been to be regular with a key more. *)
LEMMA RegularBefore ==
  ASSUME NEW keys \in Seq(PressedKey), NEW key \in PressedKey, Regular(Append(keys, key))
  PROVE  /\ Regular(keys)
         /\ key = BACKSPACE => Meant(keys) # <<>>
         /\ key # BACKSPACE => Len(Meant(keys)) + 1 < INPUT_SIZE - 1
<1> DEFINE more == Append(keys, key)
           N == Len(keys)
<1>1. /\ more \in Seq(PressedKey) /\ Len(more) = N + 1 /\ more[N + 1] = key
      /\ N \in Nat /\ \A n \in 1 .. N : more[n] = keys[n]
  BY AppendProperties
<1>2. \A k \in 0 .. N : SubSeq(more, 1, k) = SubSeq(keys, 1, k)
  <2>1. TAKE k \in 0 .. N
  <2>2. /\ SubSeq(more, 1, k) \in Seq(PressedKey) /\ Len(SubSeq(more, 1, k)) = k
        /\ \A i \in 1 .. k : SubSeq(more, 1, k)[i] = more[i]
    <3>1. \A i \in 1 .. k : more[i] \in PressedKey
      BY <1>1
    <3> HIDE DEF more
    <3> QED
      BY <1>1, <3>1
  <2>3. /\ SubSeq(keys, 1, k) \in Seq(PressedKey) /\ Len(SubSeq(keys, 1, k)) = k
        /\ \A i \in 1 .. k : SubSeq(keys, 1, k)[i] = keys[i]
    BY <1>1
  <2>4. \A i \in 1 .. k : more[i] = keys[i]
    BY <1>1
  <2> HIDE DEF more
  <2> QED
    BY <2>2, <2>3, <2>4, SeqEqual
<1>3. \A k \in 1 .. N + 1 :
        /\ more[k] = BACKSPACE => Meant(SubSeq(more, 1, k - 1)) # <<>>
        /\ more[k] # BACKSPACE => Len(Meant(SubSeq(more, 1, k - 1))) + 1 < INPUT_SIZE - 1
  BY <1>1 DEF Regular
<1> HIDE DEF more
<1>4. Regular(keys)
  <2>1. \A k \in 1 .. N : k \in 1 .. N + 1 /\ k - 1 \in 0 .. N
    BY <1>1
  <2> QED
    BY <1>1, <1>2, <1>3, <2>1 DEF Regular
<1>5. SubSeq(more, 1, N) = keys
  BY <1>1, <1>2, SubSeqFull
<1>6. N + 1 \in 1 .. N + 1 /\ (N + 1) - 1 = N
  BY <1>1
<1> QED
  BY <1>1, <1>3, <1>4, <1>5, <1>6

----------------------------------------------------------------------------
(* The message a line is sent in *)

LEMMA TheOnePlace ==
  ASSUME NEW C, NEW text \in Seq(C), NEW p \in 1 .. Len(text), NEW chars,
         \A j \in 1 .. Len(text) : text[j] \in chars <=> j = p
  PROVE  PlacesIn(text, chars) = <<p>>
<1> DEFINE places == {j \in 1 .. Len(text) : text[j] \in chars}
           one(n) == CHOOSE j \in places : Cardinality({i \in places : i < j}) = n - 1
<1>1. places = {p} /\ p \in Nat
  OBVIOUS
<1>2. Cardinality(places) = 1
  <2>1. Cardinality({p}) = 1
    BY FS_Singleton
  <2> QED
    BY <1>1, <2>1
<1>3. Cardinality({i \in places : i < p}) = 0
  <2>1. {i \in {p} : i < p} = {}
    BY <1>1
  <2> QED
    BY <1>1, <2>1, FS_EmptySet
<1>4. PlacesIn(text, chars) = [n \in 1 .. Cardinality(places) |-> one(n)]
  BY DEF PlacesIn
<1> HIDE DEF places
<1>5. \A n \in 1 .. 1 : one(n) = p
  BY <1>1, <1>3
<1> HIDE DEF one
<1>6. PlacesIn(text, chars) = [n \in 1 .. 1 |-> p]
  BY <1>2, <1>4, <1>5
<1> QED
  BY <1>6

LEMMA PlainIsSent ==
  ASSUME NEW text \in Seq(Letter), Plain(text)
  PROVE  LET sent == create_msg("N_SEND_WORD", <<text>>)
         IN  /\ Framed(sent) = <<sent>>
             /\ parse_msg_body(sent, << <<"before">> >>) = <<text>>
<1> DEFINE code == "N_SEND_WORD"
           C == Letter \cup {code, MSG_END}
           sent == create_msg(code, <<text>>)
           n == Len(text)
           whole == (<<code>> \o text) \o <<MSG_END>>
<1>1. n \in Nat /\ n < ARG_LEN - 1 /\ ARG_LEN \in Nat
  BY ClientAssumption DEF Plain
<1>2. Truncated(text) = text
  <2>1. Min({n, ARG_LEN - 1}) = n
    BY <1>1 DEF Min
  <2>2. SubSeq(text, 1, n) = text
    BY SubSeqFull
  <2> QED
    BY <2>1, <2>2 DEF Truncated
<1>3. /\ text \in Seq(C) /\ <<code>> \in Seq(C) /\ <<MSG_END>> \in Seq(C)
  <2>1. Letter \subseteq C
    OBVIOUS
  <2>2. text \in Seq(C)
    BY <2>1, SeqMonotonic
  <2> QED
    BY <2>2
<1> HIDE DEF C
<1>4. /\ <<code>> \o text \in Seq(C) /\ Len(<<code>> \o text) = n + 1
      /\ (<<code>> \o text)[1] = code
      /\ \A i \in 2 .. n + 1 : (<<code>> \o text)[i] = text[i - 1]
  BY <1>1, <1>3, ConcatProperties
<1>5. sent = whole
  <2>1. sent = <<code>> \o text \o <<>> \o <<MSG_END>>
    BY <1>2 DEF create_msg
  <2>2. (<<code>> \o text) \o <<>> = <<code>> \o text
    BY <1>4, ConcatEmptySeq
  <2> QED
    BY <2>1, <2>2
<1>6. /\ whole \in Seq(C) /\ Len(whole) = n + 2 /\ whole[1] = code
      /\ \A i \in 2 .. n + 1 : whole[i] = text[i - 1]
      /\ whole[n + 2] = MSG_END
  <2> DEFINE front == <<code>> \o text
             last == <<MSG_END>>
  <2>1. /\ front \in Seq(C) /\ Len(front) = n + 1 /\ last \in Seq(C) /\ Len(last) = 1
        /\ last[1] = MSG_END /\ front[1] = code
        /\ \A i \in 2 .. n + 1 : front[i] = text[i - 1]
    BY <1>3, <1>4
  <2> HIDE DEF front, last
  <2>2. /\ front \o last \in Seq(C) /\ Len(front \o last) = n + 2
        /\ \A i \in 1 .. n + 2 : (front \o last)[i] = IF i <= n + 1 THEN front[i] ELSE last[i - (n + 1)]
    <3>1. /\ front \o last \in Seq(C) /\ Len(front \o last) = Len(front) + Len(last)
          /\ \A i \in 1 .. Len(front) + Len(last) :
               (front \o last)[i] = IF i <= Len(front) THEN front[i] ELSE last[i - Len(front)]
      BY <2>1, ConcatProperties
    <3>2. Len(front) + Len(last) = n + 2
      BY <1>1, <2>1
    <3> QED
      BY <2>1, <3>1, <3>2
  <2>3. /\ (front \o last)[1] = code /\ (front \o last)[n + 2] = MSG_END
        /\ \A i \in 2 .. n + 1 : (front \o last)[i] = text[i - 1]
    BY <1>1, <2>1, <2>2
  <2> QED
    BY <2>2, <2>3 DEF front, last
<1> HIDE DEF whole, sent
<1>7. \A i \in 1 .. n : text[i] \notin {MSG_END, MSG_VAL_SEP}
  BY DEF Plain
<1>8. \A j \in 1 .. Len(whole) : /\ whole[j] \in {MSG_END} <=> j = n + 2
                                 /\ whole[j] \in {MSG_END, MSG_VAL_SEP} <=> j = n + 2
  <2>1. TAKE j \in 1 .. Len(whole)
  <2>2. CASE j = 1
    BY <1>1, <1>6, <2>2 DEF MSG_END, MSG_VAL_SEP
  <2>3. CASE j \in 2 .. n + 1
    <3>1. j - 1 \in 1 .. n
      BY <1>1, <2>3
    <3>2. whole[j] \notin {MSG_END, MSG_VAL_SEP}
      BY <1>6, <1>7, <2>3, <3>1
    <3> QED
      BY <1>1, <2>3, <3>2
  <2>4. CASE j = n + 2
    BY <1>6, <2>4
  <2> QED
    BY <1>1, <1>6, <2>2, <2>3, <2>4
<1>9. /\ PlacesIn(whole, {MSG_END}) = <<n + 2>>
      /\ PlacesIn(whole, {MSG_END, MSG_VAL_SEP}) = <<n + 2>>
  <2>1. n + 2 \in 1 .. Len(whole)
    BY <1>1, <1>6
  <2> QED
    <3>1. PlacesIn(whole, {MSG_END}) = <<n + 2>>
      BY <1>6, <1>8, <2>1, TheOnePlace
    <3>2. PlacesIn(whole, {MSG_END, MSG_VAL_SEP}) = <<n + 2>>
      BY <1>6, <1>8, <2>1, TheOnePlace
    <3> QED
      BY ONLY <3>1, <3>2
<1>10. Framed(whole) = <<whole>>
  <2>1. Framed(whole) = [i \in 1 .. 1 |-> SubSeq(whole, (IF i = 1 THEN 0 ELSE <<n + 2>>[i - 1]) + 1,
                                                 <<n + 2>>[i])]
    BY <1>9 DEF Framed
  <2>2. \A i \in 1 .. 1 : SubSeq(whole, (IF i = 1 THEN 0 ELSE <<n + 2>>[i - 1]) + 1, <<n + 2>>[i])
                            = SubSeq(whole, 1, n + 2)
    <3>1. TAKE i \in 1 .. 1
    <3>2. i = 1 /\ <<n + 2>>[1] = n + 2
      OBVIOUS
    <3> QED
      BY <3>2
  <2>3. SubSeq(whole, 1, n + 2) = whole
    BY <1>6, SubSeqFull
  <2> QED
    BY <2>1, <2>2, <2>3
<1>11. Values(whole)[1] = text
  <2>1. Values(whole)[1] = SubSeq(whole, 2, n + 1)
    <3>1. Values(whole) = [i \in 1 .. 1 |-> SubSeq(whole, (IF i = 1 THEN 1 ELSE <<n + 2>>[i - 1]) + 1,
                                                   <<n + 2>>[i] - 1)]
      BY <1>9 DEF Values
    <3>2. Values(whole)[1] = SubSeq(whole, 1 + 1, (n + 2) - 1)
      BY <3>1
    <3> QED
      BY <1>1, <3>2
  <2>2. \A i \in 2 .. n + 1 : whole[i] \in Letter
    <3>1. TAKE i \in 2 .. n + 1
    <3>2. i - 1 \in 1 .. n
      BY <1>1
    <3> QED
      BY <1>6, <3>2
  <2>3. /\ SubSeq(whole, 2, n + 1) \in Seq(Letter) /\ Len(SubSeq(whole, 2, n + 1)) = n
        /\ \A i \in 1 .. n : SubSeq(whole, 2, n + 1)[i] = whole[i + 1]
    <3>1. /\ SubSeq(whole, 2, n + 1) \in Seq(Letter)
          /\ Len(SubSeq(whole, 2, n + 1)) = IF 2 <= n + 1 THEN (n + 1) - 2 + 1 ELSE 0
          /\ \A i \in 1 .. (n + 1) - 2 + 1 : SubSeq(whole, 2, n + 1)[i] = whole[2 + i - 1]
      BY <1>1, <2>2, SubSeqProperties
    <3> QED
      BY <1>1, <3>1
  <2>4. \A i \in 1 .. n : i + 1 \in 2 .. n + 1 /\ (i + 1) - 1 = i
    BY <1>1
  <2>5. \A i \in 1 .. n : SubSeq(whole, 2, n + 1)[i] = text[i]
    BY <1>6, <2>3, <2>4
  <2> QED
    BY <2>1, <2>3, <2>5, SeqEqual
<1>12. parse_msg_body(whole, << <<"before">> >>) = <<text>>
  <2>1. ~TooLong(text)
    BY <1>1 DEF TooLong
  <2>2. \A i \in 1 .. 1 : ~(\E j \in 1 .. i : TooLong(Values(whole)[j]))
    BY <1>11, <2>1
  <2>3. parse_msg_body(whole, << <<"before">> >>)
          = [i \in 1 .. 1 |-> IF \E j \in 1 .. i : TooLong(Values(whole)[j])
                                THEN << <<"before">> >>[i] ELSE Values(whole)[i]]
    BY DEF parse_msg_body
  <2>4. \A i \in 1 .. 1 : (IF \E j \in 1 .. i : TooLong(Values(whole)[j])
                                THEN << <<"before">> >>[i] ELSE Values(whole)[i]) = text
    BY <1>11, <2>2
  <2> QED
    BY <2>3, <2>4
<1> QED
  BY <1>5, <1>10, <1>12 DEF sent

----------------------------------------------------------------------------
(* The handlers of messages *)

LEMMA CrashKeepsFields ==
  ASSUME NEW c, HasFields(c)
  PROVE  HasFields(Crashed(c)) /\ HasFields([c EXCEPT !.phase = "exited"])
  BY DEF HasFields, Crashed, Phase

LEMMA HandlersKeepFields ==
  ASSUME NEW c, HasFields(c), NEW message
  PROVE  HasFields(process_server_command(c, message)) /\ HasFields(display_ui(c))
<1> DEFINE new == process_server_command(c, message)
<1>1. HasFields([c EXCEPT !.req_substr = message[2]])
  BY DEF HasFields
<1>2. HasFields(naming_alert(c, message[2]))
  BY CrashKeepsFields DEF naming_alert
<1>3. HasFields(create_player(c, message[2], message[3]))
  BY DEF HasFields, create_player
<1>4. HasFields(remove_player(c, message[2]))
  <2>2. CASE ~Known(c, message[2])
    BY <2>2, CrashKeepsFields DEF remove_player
  <2>3. CASE Known(c, message[2])
    <3> DEFINE list == RemoveAt(c.players, FirstOf(c, message[2]))
               turn == IF c.player_turn = message[2] THEN FreedTurn ELSE c.player_turn
    <3>1. remove_player(c, message[2]) = [c EXCEPT !.players = list, !.player_turn = turn]
      BY <2>3 DEF remove_player
    <3> HIDE DEF list, turn
    <3> QED
      BY <3>1 DEF HasFields
  <2> QED
    BY <2>2, <2>3
<1>5. ASSUME NEW list PROVE HasFields([c EXCEPT !.players = list])
  BY DEF HasFields
<1>6. HasFields(change_name(c, message[2], message[3]))
  <2>1. CASE ~Known(c, message[2])
    BY <2>1, CrashKeepsFields DEF change_name
  <2>2. CASE Known(c, message[2])
    <3>1. change_name(c, message[2], message[3]) =
            [c EXCEPT !.players = [c.players EXCEPT ![FirstOf(c, message[2])].name = message[3]]]
      BY <2>2 DEF change_name, HasFields
    <3> QED
      BY <1>5, <3>1
  <2> QED
    BY <2>1, <2>2
<1>7. HasFields(lose_heart(c, message[2]))
  <2>1. CASE ~Known(c, message[2])
    BY <2>1, CrashKeepsFields DEF lose_heart
  <2>2. CASE Known(c, message[2])
    <3>1. lose_heart(c, message[2]) =
            [c EXCEPT !.players = [c.players EXCEPT ![FirstOf(c, message[2])].hp = @ - 1]]
      BY <2>2 DEF lose_heart, HasFields
    <3> QED
      BY <1>5, <3>1
  <2> QED
    BY <2>1, <2>2
<1>8. HasFields([c EXCEPT !.game_started = TRUE])
  BY DEF HasFields
<1>9. ASSUME NEW turn PROVE HasFields([c EXCEPT !.player_turn = turn])
  BY DEF HasFields
<1>10. HasFields([c EXCEPT !.my_id = message[2]])
  BY DEF HasFields
<1>11. HasFields(restart_game(c))
  <2>1. ASSUME NEW list
        PROVE  HasFields([c EXCEPT !.game_started = FALSE, !.player_turn = NoTurn,
                                   !.players = list])
    BY DEF HasFields
  <2> QED
    BY <2>1 DEF restart_game, HasFields
<1>12. HasFields([c EXCEPT !.phase = "exited"])
  BY CrashKeepsFields
<1>13. HasFields(new)
  BY <1>1, <1>2, <1>3, <1>4, <1>6, <1>7, <1>8, <1>9, <1>10, <1>11, <1>12
     DEF process_server_command
<1>14. HasFields(display_ui(c))
  BY CrashKeepsFields DEF display_ui
<1> QED
  BY <1>13, <1>14

----------------------------------------------------------------------------
(* The keys *)

LEMMA NothingTaken ==
  ASSUME NEW S, NEW s \in Seq(S), NEW n \in Int, n < 1
  PROVE  SubSeq(s, 1, n) = <<>>
<1>1. /\ SubSeq(s, 1, n) \in Seq(S)
      /\ Len(SubSeq(s, 1, n)) = IF 1 <= n THEN n - 1 + 1 ELSE 0
  <2>1. \A i \in 1 .. n : s[i] \in S
    OBVIOUS
  <2> QED
    BY <2>1, SubSeqProperties
<1> DEFINE none == SubSeq(s, 1, n)
<1> HIDE DEF none
<1>2. ~(1 <= n)
  OBVIOUS
<1>3. Len(none) = 0
  BY <1>1, <1>2 DEF none
<1> QED
  BY <1>1, <1>3, EmptySeq DEF none

LEMMA LetterKeepsLine ==
  ASSUME LineIsMeant, NEW letter \in Letter, TypeLetter(letter)
  PROVE  LineIsMeant'
<1>1. letter \in PressedKey /\ letter # BACKSPACE
  BY ClientAssumption DEF PressedKey
<1>2. /\ input \in Seq(Letter) /\ input_len \in Int /\ input_len < INPUT_SIZE - 1
      /\ Len(input) = (IF input_len < 0 THEN 0 ELSE input_len)
      /\ typed \in Seq(PressedKey) /\ INPUT_SIZE \in Nat
  BY ClientAssumption DEF LineIsMeant
<1>3. typed' = Append(typed, letter)
  BY DEF TypeLetter, MoreKeys
<1>4. typed' \in Seq(PressedKey)
  BY <1>1, <1>2, <1>3
<1>5. /\ input' \in Seq(Letter) /\ input_len' \in Int /\ input_len' < INPUT_SIZE - 1
      /\ Len(input') = (IF input_len' < 0 THEN 0 ELSE input_len')
  <2>1. CASE Overflows(input_len + 1)
    <3>1. input' = <<>> /\ input_len' = 0
      BY <2>1 DEF TypeLetter
    <3> QED
      BY <3>1, ClientAssumption
  <2>2. CASE ~Overflows(input_len + 1)
    <3>1. /\ input' = IF input_len < 0 THEN <<>> ELSE Append(input, letter)
          /\ input_len' = input_len + 1
      BY <2>2 DEF TypeLetter
    <3>2. input_len + 1 >= 0 /\ input_len + 1 < INPUT_SIZE - 1
      BY <1>2, <2>2 DEF Overflows
    <3>3. CASE input_len < 0
      BY <1>2, <3>1, <3>2, <3>3
    <3>4. CASE ~(input_len < 0)
      BY <1>2, <3>1, <3>2, <3>4
    <3> QED
      BY <3>3, <3>4
  <2> QED
    BY <2>1, <2>2
<1>6. ASSUME Regular(typed') PROVE input' = Meant(typed') /\ input_len' = Len(input')
  <2>1. Regular(typed) /\ Len(Meant(typed)) + 1 < INPUT_SIZE - 1
    BY <1>1, <1>2, <1>3, <1>6, RegularBefore
  <2>2. input = Meant(typed) /\ input_len = Len(input)
    BY <2>1 DEF LineIsMeant
  <2>3. ~Overflows(input_len + 1) /\ ~(input_len < 0)
    BY <1>2, <2>1, <2>2 DEF Overflows
  <2>4. input' = Append(input, letter) /\ input_len' = input_len + 1
    BY <2>3 DEF TypeLetter
  <2>5. Meant(typed') = Append(input, letter)
    BY <1>1, <1>2, <1>3, <2>2, MeantGrows DEF Corrected
  <2> QED
    BY <1>2, <2>2, <2>4, <2>5
<1> QED
  BY <1>4, <1>5, <1>6 DEF LineIsMeant

LEMMA BackspaceKeepsLine ==
  ASSUME LineIsMeant, Backspace
  PROVE  LineIsMeant'
<1>1. BACKSPACE \in PressedKey
  BY DEF PressedKey
<1>2. /\ input \in Seq(Letter) /\ input_len \in Int /\ input_len < INPUT_SIZE - 1
      /\ Len(input) = (IF input_len < 0 THEN 0 ELSE input_len)
      /\ typed \in Seq(PressedKey) /\ INPUT_SIZE \in Nat
  BY ClientAssumption DEF LineIsMeant
<1>3. /\ typed' = Append(typed, BACKSPACE) /\ input_len' = input_len - 1
      /\ input' = SubSeq(input, 1, input_len')
  BY <1>2 DEF Backspace, MoreKeys, AfterBackspace
<1>4. typed' \in Seq(PressedKey)
  BY <1>1, <1>2, <1>3
<1>5. /\ input' \in Seq(Letter) /\ input_len' \in Int /\ input_len' < INPUT_SIZE - 1
      /\ Len(input') = (IF input_len' < 0 THEN 0 ELSE input_len')
  <2>1. CASE input_len >= 1
    BY <1>2, <1>3, <2>1
  <2>2. CASE input_len < 1
    <3>1. input' = <<>>
      <4>1. input_len' \in Int /\ input_len' < 1
        BY <1>2, <1>3, <2>2
      <4>2. SubSeq(input, 1, input_len') = <<>>
        BY <1>2, <4>1, NothingTaken
      <4> QED
        BY <1>3, <4>2
    <3>2. (input_len' \in Int /\ input_len' < 0) \/ input_len' = 0
      BY <1>2, <1>3, <2>2
    <3> QED
      BY <1>2, <1>3, <3>1, <3>2
  <2> QED
    BY <1>2, <2>1, <2>2
<1>6. ASSUME Regular(typed') PROVE input' = Meant(typed') /\ input_len' = Len(input')
  <2>1. Regular(typed) /\ Meant(typed) # <<>>
    BY <1>1, <1>2, <1>3, <1>6, RegularBefore
  <2>2. input = Meant(typed) /\ input_len = Len(input)
    BY <2>1 DEF LineIsMeant
  <2>3. Meant(typed') = Front(input)
    BY <1>1, <1>2, <1>3, <2>1, <2>2, MeantGrows DEF Corrected
  <2>4. Front(input) = SubSeq(input, 1, input_len - 1)
    BY <2>2 DEF Front
  <2>5. input # <<>>
    BY <2>1, <2>2
  <2>6. Len(input) >= 1
    BY <1>2, <2>5, EmptySeq
  <2>7. ~(input_len - 1 < 0) /\ input_len' = input_len - 1
    BY <1>2, <1>3, <2>2, <2>6
  <2> QED
    BY <1>2, <1>3, <1>5, <2>2, <2>3, <2>4, <2>6, <2>7
<1> QED
  BY <1>4, <1>5, <1>6 DEF LineIsMeant

LEMMA EnterKeepsLine ==
  ASSUME Enter
  PROVE  LineIsMeant'
<1>1. input' = <<>> /\ input_len' = 0 /\ typed' = <<>>
  BY DEF Enter
<1>2. Meant(typed') = <<>>
  BY <1>1, NothingMeant
<1> QED
  BY <1>1, <1>2, ClientAssumption DEF LineIsMeant

LEMMA LineSame ==
  ASSUME LineIsMeant, UNCHANGED line
  PROVE  LineIsMeant'
<1>1. input' = input /\ input_len' = input_len /\ typed' = typed
  BY DEF line
<1> QED
  BY <1>1 DEF LineIsMeant

----------------------------------------------------------------------------
(* The walk along the list *)

Walks(f, memory, freed) ==
  f = [k \in 0 .. MaxAlerts |->
         [c \in Place |-> IF k = 0 \/ c \in freed \cup {NULL} THEN <<c>>
                          ELSE <<c>> \o f[k - 1][memory[c].next]]]

Paths(memory, freed) == CHOOSE f : Walks(f, memory, freed)

Walked == {walk \in Seq(Place) :
             walk # <<>> /\ \A i \in 1 .. Len(walk) - 1 : walk[i] \in Chunk}

LEMMA PlaceFacts == /\ NULL \in Place /\ NULL \notin Chunk
                    /\ \A c \in Place : c # NULL <=> c \in Chunk
  BY DEF Place, NULL, Chunk

LEMMA OneMoreWalked ==
  ASSUME NEW c \in Chunk, NEW walk \in Walked
  PROVE  <<c>> \o walk \in Walked
<1> DEFINE one == <<c>>
<1>1. /\ one \in Seq(Place) /\ Len(one) = 1 /\ one[1] = c
      /\ walk \in Seq(Place) /\ walk # <<>>
      /\ \A i \in 1 .. Len(walk) - 1 : walk[i] \in Chunk
  BY DEF Walked, Place
<1> HIDE DEF one
<1>2. /\ one \o walk \in Seq(Place) /\ Len(one \o walk) = 1 + Len(walk)
      /\ \A i \in 1 .. 1 + Len(walk) : (one \o walk)[i] = IF i <= 1 THEN one[i] ELSE walk[i - 1]
  BY <1>1, ConcatProperties
<1>3. \A i \in 1 .. Len(one \o walk) - 1 : (one \o walk)[i] \in Chunk
  <2>1. TAKE i \in 1 .. Len(one \o walk) - 1
  <2>2. CASE i = 1
    BY <1>1, <1>2, <2>2
  <2>3. CASE i # 1
    <3>1. Len(walk) \in Nat
      BY <1>1
    <3>2. i - 1 \in 1 .. Len(walk) - 1 /\ ~(i <= 1) /\ i \in 1 .. 1 + Len(walk)
      BY <1>2, <2>3, <3>1
    <3> QED
      BY <1>1, <1>2, <3>2
  <2> QED
    BY <2>2, <2>3
<1>4. one \o walk # <<>>
  <2>1. Len(one \o walk) # 0
    <3>1. Len(walk) \in Nat
      BY <1>1
    <3> QED
      BY <1>2, <3>1
  <2> QED
    BY <2>1, EmptySeq
<1> QED
  BY <1>2, <1>3, <1>4 DEF Walked, one

LEMMA PathsAre ==
  ASSUME NEW memory \in Memory, NEW freed
  PROVE  /\ \A k \in 0 .. MaxAlerts : \A c \in Place : Paths(memory, freed)[k][c] \in Walked
         /\ \A k \in 0 .. MaxAlerts : Paths(memory, freed)[k][NULL] = <<NULL>>
         /\ \A k \in 1 .. MaxAlerts : \A c \in Chunk :
              c \notin freed => Paths(memory, freed)[k][c]
                                 = <<c>> \o Paths(memory, freed)[k - 1][memory[c].next]
         /\ \A first : WalkFrom(first, memory, freed) = Paths(memory, freed)[MaxAlerts][first]
<1> DEFINE D == [Place -> Walked]
           ends == freed \cup {NULL}
           base == [c \in Place |-> <<c>>]
           next(d) == [c \in Place |-> IF c \in ends THEN <<c>> ELSE <<c>> \o d[memory[c].next]]
           further == [x \in (1 .. MaxAlerts) \X D |-> next(x[2])]
           F == Paths(memory, freed)
<1>1. MaxAlerts \in Nat
  BY ClientAssumption
<1>2. \A c \in Place : <<c>> \in Walked
  BY DEF Walked
<1>3. base \in D
  BY <1>2
<1>4. \A d \in D : next(d) \in D
  <2>1. TAKE d \in D
  <2>2. \A c \in Place : (IF c \in ends THEN <<c>> ELSE <<c>> \o d[memory[c].next]) \in Walked
    <3>1. TAKE c \in Place
    <3>2. CASE c \in ends
      BY <1>2, <3>2
    <3>3. CASE c \notin ends
      <4>1. c \in Chunk
        BY <3>3, PlaceFacts
      <4>2. memory[c].next \in Place
        BY <4>1 DEF Memory
      <4>3. d[memory[c].next] \in Walked
        BY <4>2
      <4> QED
        BY <3>3, <4>1, <4>3, OneMoreWalked
    <3> QED
      BY <3>2, <3>3
  <2> QED
    BY <2>2
<1>5. \A k \in 1 .. MaxAlerts : \A d \in D : further[<<k, d>>] = next(d)
  OBVIOUS
<1>M. \A first : WalkFrom(first, memory, freed) = F[MaxAlerts][first]
  BY DEF WalkFrom, Paths, Walks, Place
<1> HIDE DEF further, D, base, next
<1>6. PICK f : Iterates(f, MaxAlerts, D, base, further)
  <2>1. \A k \in 1 .. MaxAlerts : \A d \in D : further[<<k, d>>] \in D
    BY <1>4, <1>5
  <2> QED
    BY <1>1, <1>3, <2>1, IterationExists
<1>7. Walks(f, memory, freed)
  <2>1. \A k \in 0 .. MaxAlerts :
          f[k] = [c \in Place |-> IF k = 0 \/ c \in ends THEN <<c>>
                                  ELSE <<c>> \o f[k - 1][memory[c].next]]
    <3>1. TAKE k \in 0 .. MaxAlerts
    <3>2. CASE k = 0
      BY <1>6, <3>2 DEF Iterates, base
    <3>3. CASE k # 0
      <4>1. k \in 1 .. MaxAlerts /\ k - 1 \in 0 .. MaxAlerts
        BY <1>1, <3>3
      <4>2. f[k] = further[<<k, f[k - 1]>>] /\ f[k - 1] \in D
        BY <1>6, <4>1 DEF Iterates
      <4>3. f[k] = next(f[k - 1])
        BY <1>5, <4>1, <4>2
      <4> QED
        BY <3>3, <4>3 DEF next
    <3> QED
      BY <3>2, <3>3
  <2>2. f = [k \in 0 .. MaxAlerts |->
               [c \in Place |-> IF k = 0 \/ c \in ends THEN <<c>>
                                ELSE <<c>> \o f[k - 1][memory[c].next]]]
    BY <1>6, <2>1 DEF Iterates
  <2> QED
    BY <2>2 DEF Walks
<1>8. Walks(F, memory, freed)
  BY <1>7 DEF Paths
<1>9. \A k \in 0 .. MaxAlerts :
        F[k] = [c \in Place |-> IF k = 0 \/ c \in ends THEN <<c>>
                                ELSE <<c>> \o F[k - 1][memory[c].next]]
  <2>1. F = [k \in 0 .. MaxAlerts |->
               [c \in Place |-> IF k = 0 \/ c \in ends THEN <<c>>
                                ELSE <<c>> \o F[k - 1][memory[c].next]]]
    BY <1>8 DEF Walks
  <2> QED
    BY ONLY <2>1
<1>10. \A k \in 0 .. MaxAlerts : \A c \in Place :
         F[k][c] = IF k = 0 \/ c \in ends THEN <<c>> ELSE <<c>> \o F[k - 1][memory[c].next]
  BY ONLY <1>9
<1>11. \A k \in 0 .. MaxAlerts : F[k] \in D
  <2> DEFINE T == {k \in 0 .. MaxAlerts : F[k] \in D}
  <2>1. 0 \in T
    <3>1. F[0] = base
      BY <1>1, <1>9 DEF base
    <3> QED
      BY <1>1, <1>3, <3>1
  <2>2. \A k \in 1 .. MaxAlerts : k - 1 \in T => k \in T
    <3>1. TAKE k \in 1 .. MaxAlerts
    <3>2. HAVE k - 1 \in T
    <3>3. k \in 0 .. MaxAlerts /\ k # 0
      BY <1>1
    <3>4. F[k] = next(F[k - 1])
      BY <1>9, <3>3 DEF next
    <3> QED
      BY <1>4, <3>2, <3>3, <3>4
  <2> HIDE DEF T
  <2>3. \A k \in 0 .. MaxAlerts : k \in T
    BY <1>1, <2>1, <2>2, Ascending
  <2> QED
    BY <2>3 DEF T
<1>12. \A k \in 0 .. MaxAlerts : \A c \in Place : F[k][c] \in Walked
  BY <1>11 DEF D
<1>13. ASSUME NEW k \in 1 .. MaxAlerts, NEW c \in Chunk, c \notin freed
       PROVE  F[k][c] = <<c>> \o F[k - 1][memory[c].next]
  <2>1. k \in 0 .. MaxAlerts /\ k # 0 /\ c \in Place /\ c # NULL
    BY <1>1, PlaceFacts DEF Place
  <2>2. ~(k = 0 \/ c \in ends)
    BY <1>13, <2>1
  <2> QED
    BY <1>10, <2>1, <2>2, Zenon
<1>14. \A k \in 0 .. MaxAlerts : F[k][NULL] = <<NULL>>
  BY <1>10, PlaceFacts
<1> HIDE DEF F
<1>15. \A k \in 1 .. MaxAlerts : \A c \in Chunk :
         c \notin freed => F[k][c] = <<c>> \o F[k - 1][memory[c].next]
  BY <1>13
<1> QED
  BY <1>12, <1>14, <1>15, <1>M DEF F

(* A list has no more alerts than there are chunks. *)
LEMMA ListFits ==
  ASSUME NEW list, NEW first, NEW memory, NEW cached, Linked(list, first, memory, cached)
  PROVE  Len(list) \in Nat /\ Len(list) <= MaxAlerts
<1>1. list \in Seq(Chunk) /\ \A i, j \in 1 .. Len(list) : list[i] = list[j] => i = j
  BY DEF Linked
<1>2. Len(list) \in Nat /\ list \in [1 .. Len(list) -> Chunk] /\ MaxAlerts \in Nat
  BY <1>1, LenProperties, ClientAssumption
<1>3. /\ IsFiniteSet(1 .. Len(list)) /\ Cardinality(1 .. Len(list)) = Len(list)
      /\ IsFiniteSet(Chunk) /\ Cardinality(Chunk) = MaxAlerts
  <2>1. \A n \in Nat : IsFiniteSet(1 .. n) /\ Cardinality(1 .. n) = n
    <3>1. TAKE n \in Nat
    <3>2. /\ IsFiniteSet(1 .. n) /\ Cardinality(1 .. n) = IF 1 > n THEN 0 ELSE n - 1 + 1
      BY FS_Interval
    <3> QED
      BY <3>2
  <2> QED
    BY <1>2, <2>1 DEF Chunk
<1>4. ~(Cardinality(Chunk) < Cardinality(1 .. Len(list)))
  BY <1>1, <1>2, <1>3, FS_PigeonHole
<1> QED
  BY <1>2, <1>3, <1>4

(* A list that is linked is walked to its end. *)
LEMMA ListIsWalked ==
  ASSUME NEW list, NEW first, NEW memory \in Memory, NEW cached,
         Linked(list, first, memory, cached),
         NEW freed, \A i \in 1 .. Len(list) : list[i] \notin freed
  PROVE  WalkFrom(first, memory, freed) = list \o <<NULL>>
<1> DEFINE L == Len(list)
           path == Paths(memory, freed)
           place(i) == IF i = L + 1 THEN NULL ELSE list[i]
           tail(i) == SubSeq(list, i, L) \o <<NULL>>
           T == {k \in 0 .. MaxAlerts :
                   \A i \in 1 .. L + 1 : L + 1 - i <= k => path[k][place(i)] = tail(i)}
<1>1. L \in Nat /\ L <= MaxAlerts /\ MaxAlerts \in Nat
  BY ListFits, ClientAssumption
<1>2. /\ list \in Seq(Chunk)
      /\ first = place(1)
      /\ \A i \in 1 .. L : list[i] \in Chunk /\ memory[list[i]].next = place(i + 1)
  <2>1. /\ list \in Seq(Chunk) /\ first = IF Len(list) = 0 THEN NULL ELSE list[1]
        /\ \A i \in 1 .. Len(list) :
             memory[list[i]].next = IF i = Len(list) THEN NULL ELSE list[i + 1]
    BY DEF Linked
  <2> QED
    BY <1>1, <2>1
<1>3. \A i \in 1 .. L : tail(i) = <<list[i]>> \o tail(i + 1)
  <2>1. TAKE i \in 1 .. L
  <2>2. L \in i .. L
    BY <1>1
  <2>3. SubSeq(list, i, L) = <<list[i]>> \o SubSeq(list, i + 1, L)
    BY <1>2, <2>2, SubSeqRecursiveFirst
  <2>4. /\ <<list[i]>> \in Seq(Place) /\ <<NULL>> \in Seq(Place)
    BY <1>2, PlaceFacts DEF Place
  <2>5. SubSeq(list, i + 1, L) \in Seq(Place)
    <3>1. \A j \in i + 1 .. L : list[j] \in Place
      BY <1>1, <1>2 DEF Place
    <3>2. i + 1 \in Int /\ L \in Int
      BY <1>1
    <3> QED
      BY <3>1, <3>2, SubSeqProperties
  <2> HIDE DEF L
  <2>6. (<<list[i]>> \o SubSeq(list, i + 1, L)) \o <<NULL>>
          = <<list[i]>> \o (SubSeq(list, i + 1, L) \o <<NULL>>)
    <3> DEFINE one == <<list[i]>>
               others == SubSeq(list, i + 1, L)
               end == <<NULL>>
    <3>1. one \in Seq(Place) /\ others \in Seq(Place) /\ end \in Seq(Place)
      BY ONLY <2>4, <2>5
    <3> HIDE DEF one, others, end
    <3>2. (one \o others) \o end = one \o (others \o end)
      BY ONLY <3>1, ConcatAssociative, SMTT(40)
    <3> QED
      BY ONLY <3>2 DEF one, others, end
  <2> QED
    BY <2>3, <2>6
<1>4. tail(L + 1) = <<NULL>>
  <2>1. SubSeq(list, L + 1, L) = <<>>
    <3>1. L + 1 \in Int /\ L \in Int /\ L < L + 1
      BY <1>1
    <3> QED
      BY <3>1, SubSeqEmpty
  <2>2. <<NULL>> \in Seq(Place)
    BY PlaceFacts
  <2> QED
    BY <2>1, <2>2, ConcatEmptySeq
<1>5. tail(1) = list \o <<NULL>>
  BY <1>2, SubSeqFull
<1>P. /\ \A k \in 0 .. MaxAlerts : path[k][NULL] = <<NULL>>
      /\ \A k \in 1 .. MaxAlerts : \A c \in Chunk :
           c \notin freed => path[k][c] = <<c>> \o path[k - 1][memory[c].next]
  BY PathsAre
<1>W. WalkFrom(first, memory, freed) = path[MaxAlerts][first]
  BY PathsAre
<1>F. \A i \in 1 .. L : list[i] \notin freed
  OBVIOUS
<1> HIDE DEF path, tail, L
<1>6. \A k \in 0 .. MaxAlerts : path[k][place(L + 1)] = tail(L + 1)
  BY <1>P, <1>4
<1>7. 0 \in T
  <2>1. \A i \in 1 .. L + 1 : L + 1 - i <= 0 => i = L + 1
    BY <1>1
  <2> QED
    BY <1>1, <1>6, <2>1
<1>8. \A k \in 1 .. MaxAlerts : k - 1 \in T => k \in T
  <2>1. TAKE k \in 1 .. MaxAlerts
  <2>2. HAVE k - 1 \in T
  <2>3. ASSUME NEW i \in 1 .. L + 1, L + 1 - i <= k PROVE path[k][place(i)] = tail(i)
    <3>1. CASE i = L + 1
      BY <1>6, <3>1
    <3>2. CASE i # L + 1
      <4>1. i \in 1 .. L /\ i + 1 \in 1 .. L + 1 /\ L + 1 - (i + 1) <= k - 1 /\ k # 0
        BY <1>1, <2>3, <3>2
      <4>2. list[i] \in Chunk /\ list[i] \notin freed /\ place(i) = list[i]
        BY <1>2, <1>F, <3>2, <4>1
      <4>3. path[k][list[i]] = <<list[i]>> \o path[k - 1][memory[list[i]].next]
        BY <1>P, <4>1, <4>2
      <4>4. path[k - 1][place(i + 1)] = tail(i + 1)
        BY <2>2, <4>1
      <4> QED
        BY <1>2, <1>3, <4>1, <4>2, <4>3, <4>4
    <3> QED
      BY <3>1, <3>2
  <2> QED
    BY <2>3
<1> HIDE DEF T
<1>9. \A k \in 0 .. MaxAlerts : k \in T
  BY <1>1, <1>7, <1>8, Ascending
<1>10. path[MaxAlerts][place(1)] = tail(1)
  <2>1. 1 \in 1 .. L + 1 /\ L + 1 - 1 <= MaxAlerts /\ MaxAlerts \in 0 .. MaxAlerts
    BY <1>1
  <2> QED
    BY <1>9, <2>1 DEF T
<1> QED
  BY <1>2, <1>5, <1>10, <1>W

LEMMA BeforeTheEnd ==
  ASSUME NEW list \in Seq(Chunk)
  PROVE  /\ Last(list \o <<NULL>>) = NULL
         /\ Front(list \o <<NULL>>) = list
<1> DEFINE end == <<NULL>>
           walk == list \o end
<1>1. /\ list \in Seq(Place) /\ end \in Seq(Place) /\ Len(end) = 1 /\ end[1] = NULL
      /\ Len(list) \in Nat
  <2>1. Chunk \subseteq Place
    BY DEF Place
  <2> QED
    BY <2>1, SeqMonotonic, PlaceFacts
<1> HIDE DEF end
<1>2. /\ walk \in Seq(Place) /\ Len(walk) = Len(list) + 1
      /\ \A i \in 1 .. Len(list) + 1 : walk[i] = IF i <= Len(list) THEN list[i]
                                                 ELSE end[i - Len(list)]
  <2>1. list \in Seq(Place) /\ end \in Seq(Place)
    BY ONLY <1>1
  <2>2. /\ walk \in Seq(Place) /\ Len(walk) = Len(list) + Len(end)
        /\ \A i \in 1 .. Len(list) + Len(end) :
             walk[i] = IF i <= Len(list) THEN list[i] ELSE end[i - Len(list)]
    BY ONLY <2>1, ConcatProperties
  <2> HIDE DEF walk
  <2>3. Len(end) = 1
    BY ONLY <1>1
  <2> QED
    BY ONLY <2>2, <2>3
<1> HIDE DEF walk
<1>3. walk[Len(walk)] = NULL
  BY <1>1, <1>2
<1>4. SubSeq(walk, 1, Len(walk) - 1) = list
  <2>1. Len(walk) - 1 = Len(list)
    BY <1>1, <1>2
  <2>2. /\ SubSeq(walk, 1, Len(list)) \in Seq(Place) /\ Len(SubSeq(walk, 1, Len(list))) = Len(list)
        /\ \A i \in 1 .. Len(list) : SubSeq(walk, 1, Len(list))[i] = walk[i]
    BY <1>1, <1>2
  <2>3. \A i \in 1 .. Len(list) : SubSeq(walk, 1, Len(list))[i] = list[i]
    BY <1>1, <1>2, <2>2
  <2> QED
    BY <1>1, <2>1, <2>2, <2>3, SeqEqual
<1> QED
  BY <1>3, <1>4 DEF Last, Front, walk, end

LEMMA ListIsFollowed ==
  ASSUME NEW list, NEW first, NEW memory \in Memory, NEW cached \in Seq(Chunk),
         Linked(list, first, memory, cached)
  PROVE  /\ Last(WalkFrom(first, memory, Range(cached) \cup {})) = NULL
         /\ Front(WalkFrom(first, memory, Range(cached) \cup {})) = list
<1> DEFINE freed == Range(cached) \cup {}
<1>1. /\ list \in Seq(Chunk)
      /\ \A i \in 1 .. Len(cached) : \A j \in 1 .. Len(list) : cached[i] # list[j]
  BY DEF Linked
<1>2. \A j \in 1 .. Len(list) : list[j] \notin freed
  <2>1. freed = {cached[i] : i \in 1 .. Len(cached)}
    BY LenProperties DEF Range
  <2> QED
    BY <1>1, <2>1
<1> HIDE DEF freed
<1>3. WalkFrom(first, memory, freed) = list \o <<NULL>>
  BY <1>2, ListIsWalked
<1> QED
  BY <1>1, <1>3, BeforeTheEnd DEF freed

(* A walk meets alerts, and may end at the null pointer. *)
LEMMA WalkIsWalked ==
  ASSUME NEW first \in Place, NEW memory \in Memory, NEW freed
  PROVE  /\ Front(WalkFrom(first, memory, freed)) \in Seq(Chunk)
         /\ Last(WalkFrom(first, memory, freed)) # NULL
              => WalkFrom(first, memory, freed) \in Seq(Chunk)
<1> DEFINE walk == WalkFrom(first, memory, freed)
<1>1. walk \in Walked
  <2>1. MaxAlerts \in 0 .. MaxAlerts
    BY ClientAssumption
  <2>2. \A k \in 0 .. MaxAlerts : \A c \in Place : Paths(memory, freed)[k][c] \in Walked
    BY PathsAre
  <2>3. WalkFrom(first, memory, freed) = Paths(memory, freed)[MaxAlerts][first]
    BY PathsAre
  <2> QED
    BY <2>1, <2>2, <2>3
<1> HIDE DEF walk
<1>2. /\ walk \in Seq(Place) /\ Len(walk) \in Nat \ {0}
      /\ \A i \in 1 .. Len(walk) - 1 : walk[i] \in Chunk
  BY <1>1, EmptySeq DEF Walked
<1>3. Front(walk) \in Seq(Chunk)
  <2>1. SubSeq(walk, 1, Len(walk) - 1) \in Seq(Chunk)
    BY <1>2, SubSeqProperties
  <2> QED
    BY <2>1 DEF Front
<1>4. ASSUME Last(walk) # NULL PROVE walk \in Seq(Chunk)
  <2>1. walk[Len(walk)] \in Chunk
    <3>1. walk[Len(walk)] \in Place
      BY <1>2
    <3> QED
      BY <1>4, <3>1, PlaceFacts DEF Last
  <2>2. \A i \in 1 .. Len(walk) : walk[i] \in Chunk
    BY <1>2, <2>1
  <2>3. walk = [i \in 1 .. Len(walk) |-> walk[i]]
    BY <1>2
  <2> QED
    BY <1>2, <2>2, <2>3
<1> QED
  BY <1>3, <1>4 DEF walk

LEMMA FollowIsOfChunks ==
  ASSUME HeapTypes
  PROVE  Follow \in Seq(Chunk) /\ Front(Walk) \in Seq(Chunk)
<1>1. alerts \in Place /\ chunk \in Memory
  BY DEF HeapTypes
<1> QED
  BY <1>1, WalkIsWalked DEF Follow, Walk

----------------------------------------------------------------------------
(* A new alert *)

(* A list with a chunk in front that was not in it. *)
LEMMA NewInFront ==
  ASSUME NEW list, NEW first, NEW memory \in Memory, NEW cached \in Seq(Chunk),
         Linked(list, first, memory, cached),
         NEW c \in Chunk, \A i \in 1 .. Len(list) : list[i] # c,
         NEW cachedNow \in Seq(Chunk),
         \A i \in 1 .. Len(cachedNow) :
           /\ cachedNow[i] # c
           /\ \E j \in 1 .. Len(cached) : cachedNow[i] = cached[j]
           /\ \A j \in 1 .. Len(cachedNow) : cachedNow[i] = cachedNow[j] => i = j,
         Len(list) + 1 + Len(cachedNow) <= TCACHE_COUNT,
         Len(list) = 0 => memory[c].next = NULL,
         NEW entry, entry.text # "none",
         entry.next = IF first = NULL THEN memory[c].next ELSE first
  PROVE  Linked(<<c>> \o list, c, [memory EXCEPT ![c] = entry], cachedNow)
<1> DEFINE one == <<c>>
           now == [memory EXCEPT ![c] = entry]
<1>1. /\ list \in Seq(Chunk) /\ Len(list) \in Nat
      /\ one \in Seq(Chunk) /\ Len(one) = 1 /\ one[1] = c
  BY DEF Linked
<1>2. /\ now[c] = entry
      /\ \A d \in Chunk : d # c => now[d] = memory[d]
  BY DEF Memory
<1> HIDE DEF one, now
<1>3. /\ one \o list \in Seq(Chunk) /\ Len(one \o list) = Len(list) + 1
      /\ (one \o list)[1] = c
      /\ \A i \in 2 .. Len(list) + 1 : (one \o list)[i] = list[i - 1]
  <2>1. /\ one \o list \in Seq(Chunk) /\ Len(one \o list) = 1 + Len(list)
        /\ \A i \in 1 .. 1 + Len(list) :
             (one \o list)[i] = IF i <= 1 THEN one[i] ELSE list[i - 1]
    <3>1. /\ one \o list \in Seq(Chunk) /\ Len(one \o list) = Len(one) + Len(list)
          /\ \A i \in 1 .. Len(one) + Len(list) :
               (one \o list)[i] = IF i <= Len(one) THEN one[i] ELSE list[i - Len(one)]
      BY ONLY <1>1, ConcatProperties
    <3> QED
      BY <1>1, <3>1
  <2> QED
    BY <1>1, <2>1
<1> DEFINE longer == one \o list
<1> HIDE DEF longer
<1>4. /\ longer \in Seq(Chunk) /\ Len(longer) = Len(list) + 1 /\ longer[1] = c
      /\ \A i \in 2 .. Len(list) + 1 : longer[i] = list[i - 1]
  BY <1>3 DEF longer
<1>5. /\ \A i, j \in 1 .. Len(list) : list[i] = list[j] => i = j
      /\ first = IF Len(list) = 0 THEN NULL ELSE list[1]
      /\ \A i \in 1 .. Len(list) :
           /\ memory[list[i]].next = IF i = Len(list) THEN NULL ELSE list[i + 1]
           /\ memory[list[i]].text # "none"
      /\ \A i \in 1 .. Len(cached) :
           /\ \A j \in 1 .. Len(list) : cached[i] # list[j]
           /\ \A j \in 1 .. Len(cached) : cached[i] = cached[j] => i = j
           /\ memory[cached[i]].text # "none"
  BY DEF Linked
<1>6. ASSUME NEW i \in 1 .. Len(longer), NEW j \in 1 .. Len(longer), longer[i] = longer[j]
      PROVE  i = j
  <2>1. CASE i = 1 /\ j = 1
    BY <2>1
  <2>2. CASE i = 1 /\ j # 1
    <3>1. j \in 2 .. Len(list) + 1 /\ j - 1 \in 1 .. Len(list)
      BY <1>1, <1>4, <2>2
    <3> QED
      BY <1>4, <1>6, <2>2, <3>1
  <2>3. CASE i # 1 /\ j = 1
    <3>1. i \in 2 .. Len(list) + 1 /\ i - 1 \in 1 .. Len(list)
      BY <1>1, <1>4, <2>3
    <3> QED
      BY <1>4, <1>6, <2>3, <3>1
  <2>4. CASE i # 1 /\ j # 1
    <3>1. /\ i \in 2 .. Len(list) + 1 /\ i - 1 \in 1 .. Len(list)
          /\ j \in 2 .. Len(list) + 1 /\ j - 1 \in 1 .. Len(list)
      BY <1>1, <1>4, <2>4
    <3>2. i - 1 = j - 1
      <4>1. longer[i] = list[i - 1] /\ longer[j] = list[j - 1]
        BY ONLY <1>4, <3>1
      <4>2. \A a, b \in 1 .. Len(list) : list[a] = list[b] => a = b
        BY ONLY <1>5
      <4> QED
        BY ONLY <1>6, <3>1, <4>1, <4>2
    <3> QED
      BY ONLY <3>1, <3>2, <1>1
  <2> QED
    BY <2>1, <2>2, <2>3, <2>4
<1>7. ASSUME NEW i \in 1 .. Len(longer)
      PROVE  /\ now[longer[i]].next = IF i = Len(longer) THEN NULL ELSE longer[i + 1]
             /\ now[longer[i]].text # "none"
  <2>1. CASE i = 1
    <3>1. now[longer[i]] = entry
      BY <1>2, <1>4, <2>1
    <3>2. CASE Len(list) = 0
      BY <1>4, <1>5, <2>1, <3>1, <3>2
    <3>3. CASE Len(list) # 0
      <4>1. list[1] \in Chunk /\ 2 \in 2 .. Len(list) + 1 /\ 2 - 1 = 1
        BY <1>1, <3>3
      <4>2. first = list[1] /\ first # NULL
        BY <1>5, <3>3, <4>1, PlaceFacts
      <4>3. longer[2] = list[1] /\ i # Len(longer)
        BY <1>1, <1>4, <2>1, <3>3, <4>1
      <4> QED
        BY <2>1, <3>1, <4>2, <4>3
    <3> QED
      BY <3>2, <3>3
  <2>2. CASE i # 1
    <3>1. i \in 2 .. Len(list) + 1 /\ i - 1 \in 1 .. Len(list) /\ i \in Nat
      BY <1>1, <1>4, <2>2
    <3>2. longer[i] = list[i - 1] /\ list[i - 1] \in Chunk /\ list[i - 1] # c
      BY <1>1, <1>4, <3>1
    <3>3. now[longer[i]] = memory[list[i - 1]]
      BY <1>2, <3>2
    <3>4. /\ memory[list[i - 1]].next = IF i - 1 = Len(list) THEN NULL ELSE list[(i - 1) + 1]
          /\ memory[list[i - 1]].text # "none"
      BY <1>5, <3>1
    <3>5. i = Len(longer) <=> i - 1 = Len(list)
      BY <1>1, <1>4, <3>1
    <3>6. i # Len(longer) => longer[i + 1] = list[(i - 1) + 1]
      <4>1. i # Len(longer) => i + 1 \in 2 .. Len(list) + 1 /\ (i + 1) - 1 = (i - 1) + 1
        BY <1>1, <1>4, <3>1
      <4> QED
        BY <1>4, <4>1
    <3> QED
      BY <3>3, <3>4, <3>5, <3>6
  <2> QED
    BY <2>1, <2>2
<1>8. ASSUME NEW i \in 1 .. Len(cachedNow)
      PROVE  /\ \A j \in 1 .. Len(longer) : cachedNow[i] # longer[j]
             /\ now[cachedNow[i]].text # "none"
  <2>1. PICK k \in 1 .. Len(cached) : cachedNow[i] = cached[k]
    OBVIOUS
  <2>2. cachedNow[i] # c /\ cachedNow[i] \in Chunk
    OBVIOUS
  <2>3. now[cachedNow[i]].text # "none"
    BY <1>2, <1>5, <2>1, <2>2
  <2>4. ASSUME NEW j \in 1 .. Len(longer) PROVE cachedNow[i] # longer[j]
    <3>1. CASE j = 1
      BY <1>4, <2>2, <3>1
    <3>2. CASE j # 1
      <4>1. j \in 2 .. Len(list) + 1 /\ j - 1 \in 1 .. Len(list)
        BY <1>1, <1>4, <3>2
      <4> QED
        BY <1>4, <1>5, <2>1, <4>1
    <3> QED
      BY <3>1, <3>2
  <2> QED
    BY <2>3, <2>4
<1>9. Len(longer) + Len(cachedNow) <= TCACHE_COUNT /\ Len(longer) # 0
  <2>1. Len(cachedNow) \in Nat /\ TCACHE_COUNT \in Nat
    BY ClientAssumption
  <2> QED
    BY <1>1, <1>4, <2>1
<1>10. c = IF Len(longer) = 0 THEN NULL ELSE longer[1]
  BY <1>4, <1>9
<1>11. Linked(longer, c, now, cachedNow)
  BY <1>4, <1>6, <1>7, <1>8, <1>9, <1>10 DEF Linked
<1> QED
  BY <1>11 DEF longer, one, now

LEMMA AlertIsPutUp ==
  ASSUME HeapTypes, Tidy, NEW text \in Text \ {"none"}, NEW ttl \in Int,
         create_alert(text, ttl), UNCHANGED fault
  PROVE  /\ HeapTypes' /\ Tidy'
         /\ ~crowded' => Shown' = <<[text |-> text, left |-> ttl]>> \o Shown
<1>1. /\ alerts \in Place /\ chunk \in Memory /\ tcache \in Seq(Chunk)
      /\ Len(tcache) \in Nat /\ Len(tcache) <= TCACHE_COUNT /\ binned \in SUBSET Chunk
  BY DEF HeapTypes
<1>2. PICK c \in Malloc :
        /\ chunk' = [chunk EXCEPT ![c] = [text |-> text, left |-> ttl,
                                          next |-> NextOfNew(chunk[c].next)]]
        /\ alerts' = c
        /\ tcache' = IF tcache = <<>> THEN <<>> ELSE Tail(tcache)
        /\ binned' = binned \ {c}
        /\ crowded' = (crowded \/ Len(Follow) >= TCACHE_COUNT)
  BY DEF create_alert
<1> DEFINE entry == [text |-> text, left |-> ttl, next |-> NextOfNew(chunk[c].next)]
<1>3. c \in Chunk
  <2>1. CASE tcache # <<>>
    BY <1>1, <1>2, <2>1, HeadTailProperties DEF Malloc
  <2>2. CASE tcache = <<>>
    BY <1>1, <1>2, <2>2 DEF Malloc, Unused
  <2> QED
    BY <2>1, <2>2
<1>4. /\ tcache' \in Seq(Chunk)
      /\ Len(tcache') = IF tcache = <<>> THEN 0 ELSE Len(tcache) - 1
      /\ \A i \in 1 .. Len(tcache') : i + 1 \in 1 .. Len(tcache) /\ tcache'[i] = tcache[i + 1]
  <2>1. CASE tcache = <<>>
    BY <1>2, <2>1
  <2>2. CASE tcache # <<>>
    <3> DEFINE rest == Tail(tcache)
    <3>1. rest \in Seq(Chunk) /\ Len(rest) = Len(tcache) - 1
          /\ \A i \in 1 .. Len(rest) : rest[i] = tcache[i + 1]
      BY <1>1, <2>2, HeadTailProperties
    <3>2. tcache' = rest
      BY <1>2, <2>2
    <3> HIDE DEF rest
    <3>3. \A i \in 1 .. Len(rest) : i + 1 \in 1 .. Len(tcache)
      BY <1>1, <3>1
    <3> QED
      BY <2>2, <3>1, <3>2, <3>3
  <2> QED
    BY <2>1, <2>2
<1>5. entry \in [text : Text, left : Int, next : Place]
  <2>1. chunk[c].next \in Place
    BY <1>1, <1>3 DEF Memory
  <2> QED
    BY <1>1, <2>1 DEF NextOfNew
<1>6. chunk' = [chunk EXCEPT ![c] = entry] /\ chunk' \in Memory
  <2>1. chunk' = [chunk EXCEPT ![c] = entry]
    BY <1>2
  <2> HIDE DEF entry
  <2> QED
    BY <1>1, <1>3, <1>5, <2>1 DEF Memory
<1>7. HeapTypes'
  <2>1. Len(tcache') <= TCACHE_COUNT /\ TCACHE_COUNT \in Nat
    BY <1>1, <1>4, ClientAssumption
  <2>2. alerts' \in Place /\ binned' \in SUBSET Chunk
    BY <1>1, <1>2, <1>3 DEF Place
  <2> QED
    BY <1>4, <1>6, <2>1, <2>2 DEF HeapTypes
<1>8. ASSUME ~crowded'
      PROVE  Tidy' /\ Shown' = <<[text |-> text, left |-> ttl]>> \o Shown
  <2> DEFINE list == Follow
  <2>1. /\ ~crowded /\ ~(Len(list) >= TCACHE_COUNT)
        /\ Linked(list, alerts, chunk, tcache)
        /\ binned = {} /\ fault' = "none"
    BY <1>2, <1>8 DEF Tidy
  <2>2. list \in Seq(Chunk) /\ Len(list) \in Nat
    BY <2>1 DEF Linked
  <2> HIDE DEF list, entry
  <2>3. /\ alerts = IF Len(list) = 0 THEN NULL ELSE list[1]
        /\ \A i \in 1 .. Len(list) : chunk[list[i]].text # "none"
        /\ \A i \in 1 .. Len(tcache) :
             /\ \A j \in 1 .. Len(list) : tcache[i] # list[j]
             /\ \A j \in 1 .. Len(tcache) : tcache[i] = tcache[j] => i = j
        /\ Len(list) + Len(tcache) <= TCACHE_COUNT
        /\ Len(list) = 0 /\ Len(tcache) > 0 => chunk[tcache[1]].next = NULL
    BY <2>1 DEF Linked
  <2>4. tcache # <<>> => Len(tcache) > 0 /\ 1 \in 1 .. Len(tcache) /\ c = tcache[1]
    <3>1. tcache # <<>> => Len(tcache) \in Nat \ {0}
      BY <1>1, EmptySeq
    <3>2. tcache # <<>> => c = Head(tcache)
      BY <1>2 DEF Malloc
    <3> QED
      BY <1>1, <3>1, <3>2
  <2>5. tcache = <<>> => chunk[c] = Never
    BY <1>2, <2>1 DEF Malloc, Unused
  <2>6. \A i \in 1 .. Len(list) : list[i] # c
    <3>1. CASE tcache # <<>>
      BY <2>3, <2>4, <3>1
    <3>2. CASE tcache = <<>>
      <4>1. chunk[c].text = "none"
        BY <2>5, <3>2 DEF Never
      <4> QED
        BY <2>3, <4>1
    <3> QED
      BY <3>1, <3>2
  <2>7. Len(list) = 0 => chunk[c].next = NULL
    <3>1. CASE tcache # <<>>
      BY <2>3, <2>4, <3>1
    <3>2. CASE tcache = <<>>
      BY <2>5, <3>2 DEF Never
    <3> QED
      BY <3>1, <3>2
  <2>8. ASSUME NEW i \in 1 .. Len(tcache')
        PROVE  /\ tcache'[i] # c
               /\ \E j \in 1 .. Len(tcache) : tcache'[i] = tcache[j]
               /\ \A j \in 1 .. Len(tcache') : tcache'[i] = tcache'[j] => i = j
    <3>1. tcache # <<>>
      BY <1>4, <2>8
    <3>2. i + 1 \in 1 .. Len(tcache) /\ tcache'[i] = tcache[i + 1] /\ i + 1 # 1
      BY <1>4
    <3>3. tcache'[i] # c
      BY <2>3, <2>4, <3>1, <3>2
    <3>4. ASSUME NEW j \in 1 .. Len(tcache'), tcache'[i] = tcache'[j] PROVE i = j
      <4>1. j + 1 \in 1 .. Len(tcache) /\ tcache'[j] = tcache[j + 1]
        BY <1>4
      <4>2. i + 1 = j + 1
        BY <2>3, <3>2, <3>4, <4>1
      <4> QED
        BY <4>2
    <3> QED
      BY <3>2, <3>3, <3>4
  <2>9. Len(list) + 1 + Len(tcache') <= TCACHE_COUNT
    <3>1. TCACHE_COUNT \in Nat
      BY ClientAssumption
    <3>2. CASE tcache = <<>>
      BY <1>4, <2>1, <2>2, <3>1, <3>2
    <3>3. CASE tcache # <<>>
      BY <1>1, <1>4, <2>2, <2>3, <3>1, <3>3
    <3> QED
      BY <3>2, <3>3
  <2>10. /\ entry.text = text /\ entry.left = ttl /\ entry.text # "none"
         /\ entry.next = IF alerts = NULL THEN chunk[c].next ELSE alerts
    BY DEF entry, NextOfNew
  <2>11. Linked(<<c>> \o list, c, chunk', tcache')
    <3>1. Linked(<<c>> \o list, c, [chunk EXCEPT ![c] = entry], tcache')
      BY <1>1, <1>3, <1>4, <2>1, <2>6, <2>7, <2>8, <2>9, <2>10, NewInFront
    <3> QED
      BY <1>6, <3>1
  <2>12. binned' = {}
    BY <1>2, <2>1
  <2>13. /\ Last(WalkFrom(c, chunk', Range(tcache') \cup {})) = NULL
         /\ Front(WalkFrom(c, chunk', Range(tcache') \cup {})) = <<c>> \o list
    <3>1. chunk' \in Memory /\ tcache' \in Seq(Chunk)
      BY <1>4, <1>6
    <3> QED
      BY ONLY <2>11, <3>1, ListIsFollowed
  <2>14. Last(Walk') = NULL /\ Follow' = <<c>> \o list
    BY <1>2, <2>12, <2>13 DEF Follow, Walk, Freed
  <2>15. Tidy'
    BY <1>2, <2>1, <2>11, <2>12, <2>14 DEF Tidy
  <2>16. Shown' = <<[text |-> text, left |-> ttl]>> \o Shown
    <3> DEFINE longer == <<c>> \o list
               S == [text : Text, left : Int]
               top == <<[text |-> text, left |-> ttl]>>
               of(m) == [text |-> m.text, left |-> m.left]
    <3>1. /\ longer \in Seq(Chunk) /\ Len(longer) = Len(list) + 1 /\ longer[1] = c
          /\ \A i \in 2 .. Len(list) + 1 : longer[i] = list[i - 1]
      BY <1>3, <2>2
    <3>2. Shown = [i \in 1 .. Len(list) |-> of(chunk[list[i]])]
      BY DEF Shown, list
    <3>3. Shown' = [i \in 1 .. Len(longer) |-> of(chunk'[longer[i]])]
      BY <2>14 DEF Shown
    <3>4. \A d \in Chunk : of(chunk[d]) \in S /\ of(chunk'[d]) \in S
      BY <1>1, <1>6 DEF Memory
    <3>5. of(chunk'[c]) = [text |-> text, left |-> ttl]
      BY <1>1, <1>3, <1>6, <2>10 DEF Memory
    <3>6. \A d \in Chunk : d # c => of(chunk'[d]) = of(chunk[d])
      BY <1>1, <1>6 DEF Memory
    <3> HIDE DEF longer, of
    <3>7. Shown \in Seq(S) /\ Len(Shown) = Len(list)
          /\ \A i \in 1 .. Len(list) : Shown[i] = of(chunk[list[i]])
      BY <2>2, <3>2, <3>4
    <3>8. Shown' \in Seq(S) /\ Len(Shown') = Len(list) + 1
          /\ \A i \in 1 .. Len(list) + 1 : Shown'[i] = of(chunk'[longer[i]])
      BY <2>2, <3>1, <3>3, <3>4
    <3>9. top \in Seq(S) /\ Len(top) = 1 /\ top[1] = [text |-> text, left |-> ttl]
      OBVIOUS
    <3> HIDE DEF top, S
    <3>10. /\ top \o Shown \in Seq(S) /\ Len(top \o Shown) = Len(top) + Len(Shown)
           /\ \A i \in 1 .. Len(top) + Len(Shown) :
                (top \o Shown)[i] = IF i <= Len(top) THEN top[i] ELSE Shown[i - Len(top)]
      BY ONLY <3>7, <3>9, ConcatProperties
    <3>11. \A i \in 1 .. Len(list) + 1 : Shown'[i] = (top \o Shown)[i]
      <4>1. TAKE i \in 1 .. Len(list) + 1
      <4>2. CASE i = 1
        BY <2>2, <3>1, <3>5, <3>7, <3>8, <3>9, <3>10, <4>2
      <4>3. CASE i # 1
        <5>1. i \in 2 .. Len(list) + 1 /\ i - 1 \in 1 .. Len(list) /\ ~(i <= 1)
          BY <2>2, <4>3
        <5>2. (top \o Shown)[i] = of(chunk[list[i - 1]])
          BY <2>2, <3>7, <3>9, <3>10, <5>1
        <5>3. list[i - 1] \in Chunk /\ list[i - 1] # c
          BY <2>2, <2>6, <5>1
        <5> QED
          BY <3>1, <3>6, <3>8, <5>1, <5>2, <5>3
      <4> QED
        BY <4>2, <4>3
    <3>12. Len(top \o Shown) = Len(list) + 1
      BY <2>2, <3>7, <3>9, <3>10
    <3>13. Shown' = top \o Shown
      BY <3>8, <3>10, <3>11, <3>12, SeqEqual
    <3> QED
      BY <3>13 DEF top
  <2> QED
    BY <2>15, <2>16
<1>9. crowded' => Tidy'
  BY DEF Tidy
<1> QED
  BY <1>7, <1>8, <1>9

----------------------------------------------------------------------------
(* The alerts grow older *)

Round == {list \in [first : Place, prev : Place, chunk : Memory, tcache : Seq(Chunk),
                    binned : SUBSET Chunk] : Len(list.tcache) <= TCACHE_COUNT}

First == [first |-> alerts, prev |-> NULL, chunk |-> chunk, tcache |-> tcache,
          binned |-> binned]

Visits(f, list) ==
  f = [n \in 0 .. Len(list) |-> IF n = 0 THEN First ELSE Visit(f[n - 1], list[n])]

Rounds(list) == CHOOSE f : Visits(f, list)

LEMMA TimesAreNumbers ==
  ASSUME deltatime \in DeltaTime \cup {0, Skewed}
  PROVE  /\ deltatime \in Int
         /\ \A left \in Int : Older(left, deltatime) \in Int
<1>1. deltatime \in Int
  BY ClientAssumption DEF Skewed, Ages
<1> QED
  BY <1>1 DEF Older, Ages

LEMMA OlderMemory ==
  ASSUME NEW memory \in Memory, NEW c \in Chunk, NEW left \in Int
  PROVE  /\ [memory EXCEPT ![c].left = left] \in Memory
         /\ [memory EXCEPT ![c].left = left][c] =
              [text |-> memory[c].text, left |-> left, next |-> memory[c].next]
         /\ \A d \in Chunk : d # c => [memory EXCEPT ![c].left = left][d] = memory[d]
<1> DEFINE Entry == [text : Text, left : Int, next : Place]
           new == [text |-> memory[c].text, left |-> left, next |-> memory[c].next]
<1>1. memory \in [Chunk -> Entry] /\ memory[c] \in Entry
  BY DEF Memory
<1>2. [memory[c] EXCEPT !.left = left] = new
  BY <1>1
<1>3. new \in Entry
  BY <1>1
<1>4. [memory EXCEPT ![c].left = left] = [memory EXCEPT ![c] = new]
  BY <1>1, <1>2
<1> HIDE DEF Entry, new
<1>5. /\ [memory EXCEPT ![c] = new] \in [Chunk -> Entry]
      /\ [memory EXCEPT ![c] = new][c] = new
      /\ \A d \in Chunk : d # c => [memory EXCEPT ![c] = new][d] = memory[d]
  BY <1>1, <1>3
<1> QED
  BY <1>4, <1>5 DEF Entry, new, Memory

LEMMA RelinkedMemory ==
  ASSUME NEW memory \in Memory, NEW c \in Chunk, NEW next \in Place
  PROVE  /\ [memory EXCEPT ![c].next = next] \in Memory
         /\ [memory EXCEPT ![c].next = next][c] =
              [text |-> memory[c].text, left |-> memory[c].left, next |-> next]
         /\ \A d \in Chunk : d # c => [memory EXCEPT ![c].next = next][d] = memory[d]
<1> DEFINE Entry == [text : Text, left : Int, next : Place]
           new == [text |-> memory[c].text, left |-> memory[c].left, next |-> next]
<1>1. memory \in [Chunk -> Entry] /\ memory[c] \in Entry
  BY DEF Memory
<1>2. [memory[c] EXCEPT !.next = next] = new
  BY <1>1
<1>3. new \in Entry
  BY <1>1
<1>4. [memory EXCEPT ![c].next = next] = [memory EXCEPT ![c] = new]
  BY <1>1, <1>2
<1> HIDE DEF Entry, new
<1>5. /\ [memory EXCEPT ![c] = new] \in [Chunk -> Entry]
      /\ [memory EXCEPT ![c] = new][c] = new
      /\ \A d \in Chunk : d # c => [memory EXCEPT ![c] = new][d] = memory[d]
  BY <1>1, <1>3
<1> QED
  BY <1>4, <1>5 DEF Entry, new, Memory

(* What one round of update_alerts() makes of the list. *)
LEMMA VisitDoes ==
  ASSUME deltatime \in DeltaTime \cup {0, Skewed},
         NEW list \in Round, NEW c \in Chunk
  PROVE  LET left == Older(list.chunk[c].left, deltatime)
             aged == [list.chunk EXCEPT ![c].left = left]
             seen == Visit(list, c)
         IN  /\ seen \in Round
             /\ left \in Int /\ aged \in Memory
             /\ left > 0 => /\ seen.first = list.first /\ seen.prev = c /\ seen.chunk = aged
                            /\ seen.tcache = list.tcache /\ seen.binned = list.binned
             /\ ~(left > 0) =>
                  /\ seen.first = IF list.prev = NULL THEN list.chunk[c].next ELSE list.first
                  /\ seen.prev = list.prev
                  /\ seen.chunk = IF list.prev = NULL THEN aged
                                  ELSE [aged EXCEPT ![list.prev].next = list.chunk[c].next]
                  /\ Len(list.tcache) < TCACHE_COUNT =>
                       seen.tcache = <<c>> \o list.tcache /\ seen.binned = list.binned
<1> DEFINE left == Older(list.chunk[c].left, deltatime)
           aged == [list.chunk EXCEPT ![c].left = left]
           seen == Visit(list, c)
           Fields == [first : Place, prev : Place, chunk : Memory, tcache : Seq(Chunk),
                      binned : SUBSET Chunk]
<1>1. /\ list \in Fields
      /\ list.first \in Place /\ list.prev \in Place /\ list.chunk \in Memory
      /\ list.tcache \in Seq(Chunk) /\ list.binned \in SUBSET Chunk
      /\ Len(list.tcache) \in Nat /\ Len(list.tcache) <= TCACHE_COUNT /\ TCACHE_COUNT \in Nat
  BY ClientAssumption DEF Round
<1>2. left \in Int
  <2>1. list.chunk[c].left \in Int
    BY <1>1 DEF Memory
  <2> QED
    BY <2>1, TimesAreNumbers
<1>3. /\ aged \in Memory /\ aged[c].next = list.chunk[c].next /\ aged[c].next \in Place
  <2> HIDE DEF left
  <2>1. /\ aged \in Memory
        /\ aged[c] = [text |-> list.chunk[c].text, left |-> left, next |-> list.chunk[c].next]
    BY <1>1, <1>2, OlderMemory
  <2>2. list.chunk[c].next \in Place
    BY <1>1 DEF Memory
  <2> QED
    BY <2>1, <2>2
<1> DEFINE kept == [list EXCEPT !.chunk = aged, !.prev = c]
           first == IF list.prev = NULL THEN aged[c].next ELSE list.first
           memory == IF list.prev = NULL THEN aged
                     ELSE [aged EXCEPT ![list.prev].next = aged[c].next]
           cached == IF Len(list.tcache) < TCACHE_COUNT THEN <<c>> \o list.tcache ELSE list.tcache
           binnedNow == IF Len(list.tcache) < TCACHE_COUNT THEN list.binned
                        ELSE list.binned \cup {c}
           gone == [first |-> first, prev |-> list.prev, chunk |-> memory, tcache |-> cached,
                    binned |-> binnedNow]
<1>4. seen = IF left > 0 THEN [first |-> list.first, prev |-> c, chunk |-> aged,
                               tcache |-> list.tcache, binned |-> list.binned]
             ELSE gone
  <2> HIDE DEF left
  <2>1. CASE left > 0
    <3>1. seen = [list EXCEPT !.chunk = aged, !.prev = c]
      BY <2>1 DEF Visit, left
    <3> HIDE DEF aged, seen
    <3>2. list = [first |-> list.first, prev |-> list.prev, chunk |-> list.chunk,
                  tcache |-> list.tcache, binned |-> list.binned]
      BY <1>1
    <3>3. seen = [first |-> list.first, prev |-> c, chunk |-> aged,
                  tcache |-> list.tcache, binned |-> list.binned]
      BY ONLY <3>1, <3>2
    <3> QED
      BY <2>1, <3>3
  <2>2. CASE ~(left > 0)
    <3>1. seen = [list EXCEPT !.first = first, !.chunk = memory, !.tcache = cached,
                              !.binned = binnedNow]
      BY <2>2 DEF Visit, left, LastFreedFirst
    <3> HIDE DEF first, memory, cached, binnedNow, seen
    <3>2. list = [first |-> list.first, prev |-> list.prev, chunk |-> list.chunk,
                  tcache |-> list.tcache, binned |-> list.binned]
      BY <1>1
    <3>3. seen = gone
      BY ONLY <3>1, <3>2
    <3> QED
      BY <2>2, <3>3
  <2> QED
    BY <2>1, <2>2
<1>5. memory \in Memory
  <2>1. CASE list.prev = NULL
    BY <1>3, <2>1
  <2>2. CASE list.prev # NULL
    <3>1. list.prev \in Chunk
      BY <1>1, <2>2, PlaceFacts
    <3> HIDE DEF aged
    <3> QED
      BY <1>3, <2>2, <3>1, RelinkedMemory
  <2> QED
    BY <2>1, <2>2
<1>6. cached \in Seq(Chunk) /\ Len(cached) <= TCACHE_COUNT
  <2>1. CASE Len(list.tcache) < TCACHE_COUNT
    <3> DEFINE one == <<c>>
               before == list.tcache
    <3>1. one \in Seq(Chunk) /\ Len(one) = 1 /\ before \in Seq(Chunk)
      BY <1>1
    <3> HIDE DEF one, before
    <3>2. one \o before \in Seq(Chunk) /\ Len(one \o before) = Len(one) + Len(before)
      BY ONLY <3>1, ConcatProperties
    <3>3. cached = one \o before
      BY <2>1 DEF one, before
    <3>4. Len(one) + Len(before) <= TCACHE_COUNT
      BY <1>1, <2>1, <3>1 DEF before
    <3> QED
      BY <3>2, <3>3, <3>4
  <2>2. CASE ~(Len(list.tcache) < TCACHE_COUNT)
    BY <1>1, <2>2
  <2> QED
    BY <2>1, <2>2
<1>7. first \in Place /\ binnedNow \in SUBSET Chunk
  BY <1>1, <1>3
<1>8. seen \in Round
  <2>1. gone \in Round
    <3> HIDE DEF first, memory, cached, binnedNow
    <3> QED
      BY <1>1, <1>5, <1>6, <1>7 DEF Round
  <2>2. [first |-> list.first, prev |-> c, chunk |-> aged,
         tcache |-> list.tcache, binned |-> list.binned] \in Round
    <3>1. c \in Place
      BY DEF Place
    <3> HIDE DEF aged
    <3> QED
      BY <1>1, <1>3, <3>1 DEF Round
  <2> QED
    BY <1>4, <2>1, <2>2
<1>9. left > 0 => /\ seen.first = list.first /\ seen.prev = c /\ seen.chunk = aged
                  /\ seen.tcache = list.tcache /\ seen.binned = list.binned
  <2> HIDE DEF left, aged, seen
  <2> QED
    BY <1>4
<1>10. ~(left > 0) =>
         /\ seen.first = IF list.prev = NULL THEN list.chunk[c].next ELSE list.first
         /\ seen.prev = list.prev
         /\ seen.chunk = IF list.prev = NULL THEN aged
                         ELSE [aged EXCEPT ![list.prev].next = list.chunk[c].next]
         /\ Len(list.tcache) < TCACHE_COUNT =>
              seen.tcache = <<c>> \o list.tcache /\ seen.binned = list.binned
  <2> HIDE DEF left, aged, seen
  <2>1. ASSUME ~(left > 0)
        PROVE  /\ seen.first = first /\ seen.prev = list.prev /\ seen.chunk = memory
               /\ seen.tcache = cached /\ seen.binned = binnedNow
    <3> HIDE DEF first, memory, cached, binnedNow
    <3> QED
      BY <1>4, <2>1
  <2> QED
    BY <1>3, <2>1
<1> QED
  BY <1>2, <1>3, <1>8, <1>9, <1>10

(* The same, chunk by chunk. *)
LEMMA VisitSees ==
  ASSUME deltatime \in DeltaTime \cup {0, Skewed},
         NEW list \in Round, NEW c \in Chunk,
         NEW left, left = Older(list.chunk[c].left, deltatime),
         NEW seen, seen = Visit(list, c)
  PROVE  /\ seen \in Round /\ left \in Int
         /\ \A d \in Chunk :
              /\ seen.chunk[d].text = list.chunk[d].text
              /\ d # c => seen.chunk[d].left = list.chunk[d].left
         /\ left > 0 =>
              /\ seen.first = list.first /\ seen.prev = c
              /\ seen.tcache = list.tcache /\ seen.binned = list.binned
              /\ seen.chunk[c].left = left
              /\ \A d \in Chunk : seen.chunk[d].next = list.chunk[d].next
         /\ ~(left > 0) =>
              /\ seen.first = IF list.prev = NULL THEN list.chunk[c].next ELSE list.first
              /\ seen.prev = list.prev
              /\ \A d \in Chunk :
                   /\ d = list.prev => seen.chunk[d].next = list.chunk[c].next
                   /\ d # list.prev => seen.chunk[d].next = list.chunk[d].next
              /\ Len(list.tcache) < TCACHE_COUNT =>
                   seen.tcache = <<c>> \o list.tcache /\ seen.binned = list.binned
<1> DEFINE age == Older(list.chunk[c].left, deltatime)
           aged == [list.chunk EXCEPT ![c].left = age]
           visited == Visit(list, c)
           memory == list.chunk
<1>E. left = age /\ seen = visited
  OBVIOUS
<1>D. /\ visited \in Round
      /\ age \in Int /\ aged \in Memory
      /\ age > 0 => /\ visited.first = list.first /\ visited.prev = c /\ visited.chunk = aged
                    /\ visited.tcache = list.tcache /\ visited.binned = list.binned
      /\ ~(age > 0) =>
           /\ visited.first = IF list.prev = NULL THEN list.chunk[c].next ELSE list.first
           /\ visited.prev = list.prev
           /\ visited.chunk = IF list.prev = NULL THEN aged
                              ELSE [aged EXCEPT ![list.prev].next = list.chunk[c].next]
           /\ Len(list.tcache) < TCACHE_COUNT =>
                visited.tcache = <<c>> \o list.tcache /\ visited.binned = list.binned
  BY VisitDoes
<1>2. list.prev \in Place /\ memory \in Memory
  BY DEF Round
<1>3. aged = [memory EXCEPT ![c].left = left]
  BY <1>E
<1> HIDE DEF age, aged, visited, memory
<1>1. /\ seen \in Round
      /\ left \in Int /\ aged \in Memory
      /\ left > 0 => /\ seen.first = list.first /\ seen.prev = c /\ seen.chunk = aged
                     /\ seen.tcache = list.tcache /\ seen.binned = list.binned
      /\ ~(left > 0) =>
           /\ seen.first = IF list.prev = NULL THEN list.chunk[c].next ELSE list.first
           /\ seen.prev = list.prev
           /\ seen.chunk = IF list.prev = NULL THEN aged
                           ELSE [aged EXCEPT ![list.prev].next = list.chunk[c].next]
           /\ Len(list.tcache) < TCACHE_COUNT =>
                seen.tcache = <<c>> \o list.tcache /\ seen.binned = list.binned
  BY ONLY <1>D, <1>E
<1>4. \A d \in Chunk : /\ aged[d].text = memory[d].text /\ aged[d].next = memory[d].next
                       /\ d # c => aged[d].left = memory[d].left
                       /\ d = c => aged[d].left = left
  <2>1. memory \in Memory /\ c \in Chunk /\ left \in Int
    BY <1>1, <1>2
  <2>2. /\ aged[c] = [text |-> memory[c].text, left |-> left, next |-> memory[c].next]
        /\ \A d \in Chunk : d # c => aged[d] = memory[d]
    BY ONLY <1>3, <2>1, OlderMemory
  <2>3. TAKE d \in Chunk
  <2>4. CASE d = c
    BY <2>2, <2>4
  <2>5. CASE d # c
    BY <2>2, <2>5
  <2> QED
    BY <2>4, <2>5
<1>5. CASE left > 0
  BY <1>1, <1>4, <1>5 DEF memory
<1>6. CASE ~(left > 0)
  <2> DEFINE now == seen.chunk
             p == list.prev
             next == memory[c].next
  <2>1. \A d \in Chunk : /\ now[d].text = aged[d].text /\ now[d].left = aged[d].left
                         /\ d = p => now[d].next = next
                         /\ d # p => now[d].next = aged[d].next
    <3>1. CASE p = NULL
      <4>1. now = aged /\ \A d \in Chunk : d # p
        BY <1>1, <1>6, <3>1, PlaceFacts
      <4> HIDE DEF now, p, next
      <4> QED
        BY <4>1
    <3>2. CASE p # NULL
      <4>1. p \in Chunk /\ aged \in Memory /\ next \in Place
        BY <1>1, <1>2, <3>2, PlaceFacts DEF Memory
      <4>2. now = [aged EXCEPT ![p].next = next]
        BY <1>1, <1>6, <3>2 DEF memory
      <4> HIDE DEF now, p, next
      <4>3. /\ now[p] = [text |-> aged[p].text, left |-> aged[p].left, next |-> next]
            /\ \A d \in Chunk : d # p => now[d] = aged[d]
        BY ONLY <4>1, <4>2, RelinkedMemory
      <4>4. TAKE d \in Chunk
      <4>5. CASE d = p
        BY <4>3, <4>5
      <4>6. CASE d # p
        BY <4>3, <4>6
      <4> QED
        BY <4>5, <4>6
    <3> QED
      BY <3>1, <3>2
  <2>2. \A d \in Chunk : /\ now[d].text = memory[d].text
                         /\ d # c => now[d].left = memory[d].left
                         /\ d = p => now[d].next = next
                         /\ d # p => now[d].next = memory[d].next
    <3> HIDE DEF now, p, next
    <3> QED
      BY <1>4, <2>1
  <2> QED
    BY <1>1, <1>6, <2>2 DEF memory
<1> QED
  BY <1>5, <1>6

(* What is linked does not change with the times. *)
LEMMA OlderIsLinked ==
  ASSUME NEW list, NEW first, NEW memory, NEW cached \in Seq(Chunk),
         Linked(list, first, memory, cached), NEW now,
         \A d \in Chunk : now[d].next = memory[d].next /\ now[d].text = memory[d].text
  PROVE  Linked(list, first, now, cached)
<1>1. list \in Seq(Chunk)
  BY DEF Linked
<1>2. /\ \A i \in 1 .. Len(list) : list[i] \in Chunk
      /\ \A i \in 1 .. Len(cached) : cached[i] \in Chunk
  BY <1>1
<1>3. Len(cached) > 0 => now[cached[1]].next = memory[cached[1]].next
  <2>1. Len(cached) > 0 => 1 \in 1 .. Len(cached)
    BY LenProperties
  <2> QED
    BY <1>2, <2>1
<1> QED
  BY <1>2, <1>3 DEF Linked

(* A chunk taken out of the list, and freed. *)
LEMMA OneTakenOut ==
  ASSUME NEW whole, NEW first, NEW memory \in Memory, NEW cached \in Seq(Chunk),
         Linked(whole, first, memory, cached),
         NEW k \in Nat, k < Len(whole),
         NEW less \in Seq(Chunk), Len(less) = Len(whole) - 1,
         \A i \in 1 .. Len(less) : less[i] = whole[IF i <= k THEN i ELSE i + 1],
         NEW now,
         \A d \in Chunk :
           /\ now[d].text = memory[d].text
           /\ k > 0 /\ d = whole[k] => now[d].next = memory[whole[k + 1]].next
           /\ ~(k > 0 /\ d = whole[k]) => now[d].next = memory[d].next
  PROVE  Linked(less, IF k = 0 THEN memory[whole[1]].next ELSE first, now,
                <<whole[k + 1]>> \o cached)
<1> DEFINE c == whole[k + 1]
           one == <<c>>
           firstNow == IF k = 0 THEN memory[whole[1]].next ELSE first
           L == Len(whole)
           from(i) == IF i <= k THEN i ELSE i + 1
<1>1. /\ whole \in Seq(Chunk)
      /\ \A i, j \in 1 .. L : whole[i] = whole[j] => i = j
      /\ first = IF L = 0 THEN NULL ELSE whole[1]
      /\ \A i \in 1 .. L :
           /\ memory[whole[i]].next = IF i = L THEN NULL ELSE whole[i + 1]
           /\ memory[whole[i]].text # "none"
      /\ \A i \in 1 .. Len(cached) :
           /\ \A j \in 1 .. L : cached[i] # whole[j]
           /\ \A j \in 1 .. Len(cached) : cached[i] = cached[j] => i = j
           /\ memory[cached[i]].text # "none"
      /\ L + Len(cached) <= TCACHE_COUNT
  BY DEF Linked
<1>2. /\ L \in Nat /\ k + 1 \in 1 .. L /\ Len(less) = L - 1 /\ Len(cached) \in Nat
      /\ TCACHE_COUNT \in Nat
  BY <1>1, ClientAssumption
<1>3. /\ \A i \in 1 .. L : whole[i] \in Chunk
      /\ c \in Chunk /\ one \in Seq(Chunk) /\ Len(one) = 1 /\ one[1] = c
  BY <1>1, <1>2
<1>4. \A i \in 1 .. L - 1 : from(i) \in 1 .. L /\ from(i) # k + 1 /\ less[i] = whole[from(i)]
  BY <1>2
<1>N. \A d \in Chunk :
        /\ now[d].text = memory[d].text
        /\ k > 0 /\ d = whole[k] => now[d].next = memory[c].next
        /\ ~(k > 0 /\ d = whole[k]) => now[d].next = memory[d].next
  OBVIOUS
<1>K. k \in Nat /\ k < L
  OBVIOUS
<1> HIDE DEF c, one, L
<1> DEFINE cachedNow == one \o cached
<1>5. /\ cachedNow \in Seq(Chunk) /\ Len(cachedNow) = 1 + Len(cached)
      /\ cachedNow[1] = c
      /\ \A i \in 2 .. 1 + Len(cached) : cachedNow[i] = cached[i - 1]
  <2>1. cached \in Seq(Chunk)
    OBVIOUS
  <2>2. /\ one \o cached \in Seq(Chunk) /\ Len(one \o cached) = Len(one) + Len(cached)
        /\ \A i \in 1 .. Len(one) + Len(cached) :
             (one \o cached)[i] = IF i <= Len(one) THEN one[i] ELSE cached[i - Len(one)]
    BY ONLY <1>3, <2>1, ConcatProperties
  <2> QED
    BY <1>2, <1>3, <2>2
<1> HIDE DEF cachedNow
<1>6. ASSUME NEW i \in 1 .. Len(less), NEW j \in 1 .. Len(less), less[i] = less[j]
      PROVE  i = j
  <2>1. from(i) = from(j)
    <3>1. i \in 1 .. L - 1 /\ j \in 1 .. L - 1
      BY ONLY <1>2, <1>6
    <3>2. /\ from(i) \in 1 .. L /\ less[i] = whole[from(i)]
          /\ from(j) \in 1 .. L /\ less[j] = whole[from(j)]
      BY ONLY <1>4, <3>1
    <3>3. \A a, b \in 1 .. L : whole[a] = whole[b] => a = b
      BY ONLY <1>1
    <3> HIDE DEF from
    <3> QED
      BY ONLY <1>6, <3>2, <3>3
  <2> QED
    BY <1>2, <2>1
<1>7. firstNow = IF Len(less) = 0 THEN NULL ELSE less[1]
  <2>1. CASE k = 0
    <3>1. memory[whole[1]].next = IF 1 = L THEN NULL ELSE whole[1 + 1]
      BY <1>1, <1>2, <2>1
    <3>2. Len(less) # 0 => less[1] = whole[2]
      BY <1>2, <1>4, <2>1
    <3> QED
      BY <1>2, <2>1, <3>1, <3>2
  <2>2. CASE k # 0
    BY <1>1, <1>2, <1>4, <1>K, <2>2
  <2> QED
    BY <2>1, <2>2
<1>8. ASSUME NEW i \in 1 .. Len(less)
      PROVE  /\ now[less[i]].next = IF i = Len(less) THEN NULL ELSE less[i + 1]
             /\ now[less[i]].text # "none"
  <2>1. i \in 1 .. L - 1 /\ from(i) \in 1 .. L /\ less[i] = whole[from(i)] /\ less[i] \in Chunk
    BY <1>2, <1>3, <1>4
  <2>2. now[less[i]].text # "none"
    BY <1>1, <1>N, <2>1
  <2>3. CASE i < k
    <3>1. from(i) = i /\ i # k /\ k \in 1 .. L
      BY <1>2, <1>K, <2>1, <2>3
    <3>2. less[i] # whole[k]
      BY <1>1, <2>1, <3>1
    <3>3. now[less[i]].next = memory[whole[i]].next
      BY <1>N, <2>1, <3>1, <3>2
    <3>4. memory[whole[i]].next = whole[i + 1]
      BY <1>1, <1>K, <2>1, <2>3, <3>1
    <3>5. i # L - 1 /\ i + 1 \in 1 .. L - 1 /\ from(i + 1) = i + 1
      BY <1>K, <1>2, <2>1, <2>3
    <3> QED
      BY <1>2, <1>4, <2>2, <3>3, <3>4, <3>5
  <2>4. CASE i = k
    <3>1. from(i) = k /\ k > 0
      BY <2>1, <2>4
    <3>2. now[less[i]].next = memory[c].next
      BY <1>N, <2>1, <3>1
    <3>3. memory[c].next = IF k + 1 = L THEN NULL ELSE whole[(k + 1) + 1]
      BY <1>1, <1>2 DEF c
    <3>4. i = L - 1 <=> k + 1 = L
      BY <1>2, <1>K, <2>4
    <3>5. i # L - 1 => i + 1 \in 1 .. L - 1 /\ from(i + 1) = (k + 1) + 1
      BY <1>2, <1>K, <2>1, <2>4
    <3> QED
      BY <1>2, <1>4, <2>2, <3>2, <3>3, <3>4, <3>5
  <2>5. CASE i > k
    <3>1. from(i) = i + 1 /\ i + 1 # k /\ i + 1 \in 1 .. L
      BY <1>K, <2>1, <2>5
    <3>2. ~(k > 0 /\ less[i] = whole[k])
      <4>1. k > 0 => k \in 1 .. L
        BY <1>2, <1>K
      <4> QED
        BY <1>1, <2>1, <3>1, <4>1
    <3>3. now[less[i]].next = memory[whole[i + 1]].next
      BY <1>N, <2>1, <3>1, <3>2
    <3>4. memory[whole[i + 1]].next = IF i + 1 = L THEN NULL ELSE whole[(i + 1) + 1]
      BY <1>1, <3>1
    <3>5. i = L - 1 <=> i + 1 = L
      BY <1>2, <2>1
    <3>6. i # L - 1 => i + 1 \in 1 .. L - 1 /\ from(i + 1) = (i + 1) + 1
      BY <1>2, <1>K, <2>1, <2>5
    <3> QED
      BY <1>2, <1>4, <2>2, <3>3, <3>4, <3>5, <3>6
  <2> QED
    BY <1>K, <2>1, <2>3, <2>4, <2>5
<1>9. ASSUME NEW i \in 1 .. Len(cachedNow)
      PROVE  /\ \A j \in 1 .. Len(less) : cachedNow[i] # less[j]
             /\ \A j \in 1 .. Len(cachedNow) : cachedNow[i] = cachedNow[j] => i = j
             /\ now[cachedNow[i]].text # "none"
  <2>1. \A j \in 1 .. Len(cached) : cached[j] # c /\ cached[j] \in Chunk
    <3>1. \A j \in 1 .. Len(cached) : \A m \in 1 .. L : cached[j] # whole[m]
      BY ONLY <1>1
    <3>2. k + 1 \in 1 .. L
      BY ONLY <1>2
    <3>3. \A j \in 1 .. Len(cached) : cached[j] \in Chunk
      OBVIOUS
    <3> QED
      BY ONLY <3>1, <3>2, <3>3 DEF c
  <2>2. CASE i = 1
    <3>1. \A j \in 1 .. Len(less) : c # less[j]
      <4>1. TAKE j \in 1 .. Len(less)
      <4>2. from(j) \in 1 .. L /\ from(j) # k + 1 /\ less[j] = whole[from(j)] /\ k + 1 \in 1 .. L
        BY <1>2, <1>4
      <4> HIDE DEF from
      <4> QED
        BY <1>1, <4>2 DEF c
    <3>2. ASSUME NEW j \in 1 .. Len(cachedNow), j # 1 PROVE cachedNow[j] # c
      <4>1. j \in 2 .. 1 + Len(cached) /\ j - 1 \in 1 .. Len(cached)
        BY <1>2, <1>5, <3>2
      <4> QED
        BY <1>5, <2>1, <4>1
    <3>3. now[c].text # "none"
      BY <1>1, <1>2, <1>3, <1>N DEF c
    <3> QED
      BY <1>5, <2>2, <3>1, <3>2, <3>3
  <2>3. CASE i # 1
    <3>1. /\ i \in 2 .. 1 + Len(cached) /\ i - 1 \in 1 .. Len(cached)
          /\ cachedNow[i] = cached[i - 1]
      BY <1>2, <1>5, <2>3
    <3>2. \A j \in 1 .. Len(less) : cachedNow[i] # less[j]
      <4>1. TAKE j \in 1 .. Len(less)
      <4>2. from(j) \in 1 .. L /\ less[j] = whole[from(j)]
        BY <1>2, <1>4
      <4> HIDE DEF from
      <4>3. \A m \in 1 .. Len(cached) : \A n \in 1 .. L : cached[m] # whole[n]
        BY <1>1
      <4> QED
        BY <3>1, <4>2, <4>3
    <3>3. ASSUME NEW j \in 1 .. Len(cachedNow), cachedNow[i] = cachedNow[j] PROVE i = j
      <4>1. j # 1
        BY <1>5, <2>1, <3>1, <3>3
      <4>2. /\ j \in 2 .. 1 + Len(cached) /\ j - 1 \in 1 .. Len(cached)
            /\ cachedNow[j] = cached[j - 1]
        BY <1>2, <1>5, <4>1
      <4>3. i - 1 = j - 1
        BY <1>1, <3>1, <3>3, <4>2
      <4> QED
        BY <3>1, <4>2, <4>3
    <3>4. now[cachedNow[i]].text # "none"
      <4>1. cached[i - 1] \in Chunk /\ memory[cached[i - 1]].text # "none"
        BY <1>1, <2>1, <3>1
      <4> QED
        BY <1>N, <3>1, <4>1
    <3> QED
      BY <3>2, <3>3, <3>4
  <2> QED
    BY <2>2, <2>3
<1>10. Len(less) + Len(cachedNow) <= TCACHE_COUNT
  BY <1>1, <1>2, <1>5
<1>11. Len(less) = 0 => now[cachedNow[1]].next = NULL
  <2>1. ASSUME Len(less) = 0 PROVE now[c].next = NULL
    <3>1. k = 0 /\ L = 1 /\ k + 1 = L
      BY <1>2, <1>K, <2>1
    <3>2. now[c].next = memory[c].next
      BY <1>3, <1>N, <3>1
    <3>3. memory[c].next = NULL
      BY <1>1, <1>2, <3>1 DEF c
    <3> QED
      BY <3>2, <3>3
  <2> QED
    BY <1>5, <2>1
<1>12. less \in Seq(Chunk)
  OBVIOUS
<1> HIDE DEF firstNow
<1>13. Linked(less, firstNow, now, cachedNow)
  BY <1>6, <1>7, <1>8, <1>9, <1>10, <1>11, <1>12 DEF Linked
<1> QED
  BY <1>13 DEF firstNow, cachedNow, one, c

----------------------------------------------------------------------------
(* The rounds of update_alerts() *)

LEMMA RoundsAre ==
  ASSUME HeapTypes, deltatime \in DeltaTime \cup {0, Skewed},
         NEW list \in Seq(Chunk)
  PROVE  /\ Rounds(list)[0] = First
         /\ \A n \in 0 .. Len(list) : Rounds(list)[n] \in Round
         /\ \A n \in 1 .. Len(list) :
              Rounds(list)[n] = Visit(Rounds(list)[n - 1], list[n])
<1> DEFINE N == Len(list)
           D == Round
           step1 == [x \in (1 .. N) \X D |-> Visit(x[2], list[x[1]])]
           F == Rounds(list)
<1>1. N \in Nat /\ \A n \in 1 .. N : list[n] \in Chunk
  OBVIOUS
<1>2. \A n \in 1 .. N : \A d \in D : Visit(d, list[n]) \in D
  BY <1>1, VisitDoes
<1>3. \A n \in 1 .. N : \A d \in D : step1[<<n, d>>] = Visit(d, list[n])
  OBVIOUS
<1>4. First \in D
  BY PlaceFacts DEF First, HeapTypes, Round
<1> HIDE DEF step1, N, D
<1>5. PICK f : Iterates(f, N, D, First, step1)
  <2>1. \A n \in 1 .. N : \A d \in D : step1[<<n, d>>] \in D
    BY <1>2, <1>3
  <2> QED
    BY <1>1, <1>4, <2>1, IterationExists
<1>6. Visits(f, list)
  <2>1. \A n \in 0 .. N : f[n] = IF n = 0 THEN First ELSE Visit(f[n - 1], list[n])
    <3>1. TAKE n \in 0 .. N
    <3>2. CASE n = 0
      BY <1>5, <3>2 DEF Iterates
    <3>3. CASE n # 0
      <4>1. n \in 1 .. N /\ n - 1 \in 0 .. N
        BY <1>1, <3>3
      <4>2. f[n] = step1[<<n, f[n - 1]>>] /\ f[n - 1] \in D
        BY <1>5, <4>1 DEF Iterates
      <4> QED
        BY <1>3, <3>3, <4>1, <4>2
    <3> QED
      BY <3>2, <3>3
  <2>2. f = [n \in 0 .. N |-> IF n = 0 THEN First ELSE Visit(f[n - 1], list[n])]
    BY <1>5, <2>1 DEF Iterates
  <2> QED
    BY <2>2 DEF Visits, N
<1>7. Visits(F, list)
  BY <1>6 DEF Rounds
<1>8. \A n \in 0 .. N : F[n] = IF n = 0 THEN First ELSE Visit(F[n - 1], list[n])
  <2>1. F = [n \in 0 .. N |-> IF n = 0 THEN First ELSE Visit(F[n - 1], list[n])]
    BY <1>7 DEF Visits, N
  <2> QED
    BY ONLY <2>1
<1>9. F[0] = First
  BY <1>1, <1>8
<1>10. \A n \in 1 .. N : n \in 0 .. N /\ n # 0
  BY <1>1
<1>11. \A n \in 1 .. N : F[n] = Visit(F[n - 1], list[n])
  BY <1>8, <1>10
<1>12. \A n \in 0 .. N : F[n] \in D
  <2> DEFINE T == {n \in 0 .. N : F[n] \in D}
  <2>1. 0 \in T
    BY <1>1, <1>4, <1>9
  <2>2. \A n \in 1 .. N : n - 1 \in T => n \in T
    BY <1>2, <1>10, <1>11
  <2> HIDE DEF T
  <2>3. \A n \in 0 .. N : n \in T
    BY <1>1, <2>1, <2>2, Ascending
  <2> QED
    BY <2>3 DEF T
<1> QED
  BY <1>9, <1>11, <1>12 DEF N, D

LEMMA VisitedIs ==
  Visited = Rounds(Front(Walk))[Len(Front(Walk))]
  BY DEF Visited, Rounds, Visits, First

(* What AlertBoard leaves of the alerts, one after the other. *)
Item == [text : Text, left : Int]

Rests(f, board, time) ==
  f = [n \in 0 .. Len(board) |->
         IF n = 0 THEN <<>>
         ELSE IF board[n].left > time
           THEN Append(f[n - 1], [board[n] EXCEPT !.left = @ - time])
         ELSE f[n - 1]]

Rest(board, time) == CHOOSE f : Rests(f, board, time)

LEMMA RestsAre ==
  ASSUME NEW board \in Seq(Item), NEW time \in Int
  PROVE  /\ Rest(board, time)[0] = <<>>
         /\ \A n \in 0 .. Len(board) : Rest(board, time)[n] \in Seq(Item)
         /\ \A n \in 1 .. Len(board) :
              Rest(board, time)[n] =
                IF board[n].left > time
                  THEN Append(Rest(board, time)[n - 1],
                              [text |-> board[n].text, left |-> board[n].left - time])
                ELSE Rest(board, time)[n - 1]
<1> DEFINE N == Len(board)
           D == Seq(Item)
           less(n) == [board[n] EXCEPT !.left = @ - time]
           next(n, d) == IF board[n].left > time THEN Append(d, less(n)) ELSE d
           step1 == [x \in (1 .. N) \X D |-> next(x[1], x[2])]
           empty == <<>>
           F == Rest(board, time)
<1>1. N \in Nat /\ \A n \in 1 .. N : board[n] \in Item
  OBVIOUS
<1>L. \A n \in 1 .. N : /\ less(n) = [text |-> board[n].text, left |-> board[n].left - time]
                        /\ less(n) \in Item
  BY <1>1 DEF Item
<1>2. \A n \in 1 .. N : \A d \in D : next(n, d) \in D
  <2> HIDE DEF less
  <2> QED
    BY <1>L
<1>3. \A n \in 1 .. N : \A d \in D : step1[<<n, d>>] = next(n, d)
  <2> HIDE DEF next
  <2> QED
    OBVIOUS
<1>4. empty \in D
  OBVIOUS
<1>R. \A f : Rests(f, board, time) <=> f = [n \in 0 .. N |-> IF n = 0 THEN empty ELSE next(n, f[n - 1])]
  BY DEF Rests
<1> HIDE DEF step1, empty, N, D, next, less
<1>5. PICK f : Iterates(f, N, D, empty, step1)
  <2>1. \A n \in 1 .. N : \A d \in D : step1[<<n, d>>] \in D
    BY <1>2, <1>3
  <2> QED
    BY <1>1, <1>4, <2>1, IterationExists
<1>6. Rests(f, board, time)
  <2>1. \A n \in 0 .. N : f[n] = IF n = 0 THEN empty ELSE next(n, f[n - 1])
    <3>1. TAKE n \in 0 .. N
    <3>2. CASE n = 0
      BY <1>5, <3>2 DEF Iterates
    <3>3. CASE n # 0
      <4>1. n \in 1 .. N /\ n - 1 \in 0 .. N
        BY <1>1, <3>3
      <4>2. f[n] = step1[<<n, f[n - 1]>>] /\ f[n - 1] \in D
        BY <1>5, <4>1 DEF Iterates
      <4> QED
        BY <1>3, <3>3, <4>1, <4>2
    <3> QED
      BY <3>2, <3>3
  <2>2. f = [n \in 0 .. N |-> IF n = 0 THEN empty ELSE next(n, f[n - 1])]
    BY <1>5, <2>1 DEF Iterates
  <2> QED
    BY <1>R, <2>2
<1>7. Rests(F, board, time)
  BY <1>6 DEF Rest
<1>8. \A n \in 0 .. N : F[n] = IF n = 0 THEN empty ELSE next(n, F[n - 1])
  <2>1. F = [n \in 0 .. N |-> IF n = 0 THEN empty ELSE next(n, F[n - 1])]
    BY <1>R, <1>7
  <2> QED
    BY ONLY <2>1
<1>9. F[0] = empty
  BY <1>1, <1>8
<1>10. \A n \in 1 .. N : n \in 0 .. N /\ n # 0
  BY <1>1
<1>11. \A n \in 1 .. N : F[n] = next(n, F[n - 1])
  BY <1>8, <1>10
<1>12. \A n \in 0 .. N : F[n] \in D
  <2> DEFINE T == {n \in 0 .. N : F[n] \in D}
  <2>1. 0 \in T
    BY <1>1, <1>4, <1>9
  <2>2. \A n \in 1 .. N : n - 1 \in T => n \in T
    BY <1>2, <1>10, <1>11
  <2> HIDE DEF T
  <2>3. \A n \in 0 .. N : n \in T
    BY <1>1, <2>1, <2>2, Ascending
  <2> QED
    BY <2>3 DEF T
<1> HIDE DEF F
<1>13. \A n \in 1 .. N :
         F[n] = IF board[n].left > time
                  THEN Append(F[n - 1], [text |-> board[n].text, left |-> board[n].left - time])
                ELSE F[n - 1]
  BY <1>11, <1>L DEF next
<1> QED
  BY <1>9, <1>12, <1>13 DEF N, empty, D, F

(* No frame was skewed, nor is an alert left from one that was. *)
Timely == deltatime # Skewed /\ \A c \in Chunk : chunk[c].left # Ages

(* What m shows. *)
Face(m) == [text |-> m.text, left |-> m.left]

(* After n rounds over a list: the first k of the chunks that are linked   *)
(* were visited and stay, and the others are still to be visited.          *)
Halfway(list, n, round, rest, whole, k) ==
  /\ whole \in Seq(Chunk) /\ k \in Nat
  /\ Linked(whole, round.first, round.chunk, round.tcache)
  /\ Len(whole) = k + (Len(list) - n)
  /\ \A i \in 1 .. Len(list) - n :
       /\ whole[k + i] = list[n + i]
       /\ Face(round.chunk[list[n + i]]) = Face(chunk[list[n + i]])
  /\ round.prev = IF k = 0 THEN NULL ELSE whole[k]
  /\ round.binned = {}
  /\ Timely => /\ Len(rest) = k
               /\ \A i \in 1 .. k : rest[i] = Face(round.chunk[whole[i]])

LEMMA ShownAre ==
  ASSUME HeapTypes
  PROVE  /\ Shown \in Seq(Item) /\ Len(Shown) = Len(Follow)
         /\ \A i \in 1 .. Len(Follow) : Shown[i] = Face(chunk[Follow[i]])
<1>1. Follow \in Seq(Chunk) /\ chunk \in Memory
  BY FollowIsOfChunks DEF HeapTypes
<1>2. \A d \in Chunk : Face(chunk[d]) \in Item
  BY <1>1 DEF Memory, Face, Item
<1>3. Shown = [i \in 1 .. Len(Follow) |-> Face(chunk[Follow[i]])]
  BY DEF Shown, Face
<1> QED
  BY <1>1, <1>2, <1>3

(* An alert that is still shown after a round. *)
LEMMA RoundKeeps ==
  ASSUME NEW list \in Seq(Chunk), NEW n \in 1 .. Len(list),
         NEW round \in Round, NEW rest \in Seq(Item), NEW whole, NEW k,
         Halfway(list, n - 1, round, rest, whole, k),
         \A i, j \in 1 .. Len(list) : list[i] = list[j] => i = j,
         NEW seen \in Round, NEW left \in Int,
         seen.first = round.first, seen.prev = list[n],
         seen.tcache = round.tcache, seen.binned = round.binned,
         seen.chunk[list[n]].left = left,
         \A d \in Chunk :
           /\ seen.chunk[d].text = round.chunk[d].text
           /\ d # list[n] => seen.chunk[d].left = round.chunk[d].left
           /\ seen.chunk[d].next = round.chunk[d].next,
         NEW item \in Item, item.text = chunk[list[n]].text, item.left = left,
         NEW more, Timely => more = Append(rest, item)
  PROVE  Halfway(list, n, seen, more, whole, k + 1)
<1> DEFINE c == list[n]
           memory == round.chunk
           now == seen.chunk
           N == Len(list)
<1>1. /\ N \in Nat /\ n \in 1 .. N /\ c \in Chunk /\ memory \in Memory
      /\ round.tcache \in Seq(Chunk)
  BY DEF Round
<1>2. /\ whole \in Seq(Chunk) /\ k \in Nat
      /\ Linked(whole, round.first, memory, round.tcache)
      /\ Len(whole) = k + (N - (n - 1))
      /\ \A i \in 1 .. N - (n - 1) :
           /\ whole[k + i] = list[n - 1 + i]
           /\ Face(memory[list[n - 1 + i]]) = Face(chunk[list[n - 1 + i]])
      /\ round.binned = {}
      /\ Timely => /\ Len(rest) = k
                   /\ \A i \in 1 .. k : rest[i] = Face(memory[whole[i]])
  BY DEF Halfway
<1>F. /\ seen.first = round.first /\ seen.prev = c
      /\ seen.tcache = round.tcache /\ seen.binned = round.binned
  OBVIOUS
<1>U. \A i, j \in 1 .. N : list[i] = list[j] => i = j
  OBVIOUS
<1>M. Timely => more = Append(rest, [text |-> chunk[c].text, left |-> left])
  <2>1. item = [text |-> chunk[c].text, left |-> left]
    BY DEF Item
  <2> QED
    BY <2>1
<1>T. rest \in Seq(Item) /\ left \in Int
  OBVIOUS
<1>K. k \in Nat
  BY <1>2
<1>3. /\ now[c].left = left
      /\ \A d \in Chunk : /\ now[d].text = memory[d].text
                          /\ d # c => now[d].left = memory[d].left
                          /\ now[d].next = memory[d].next
  OBVIOUS
<1> HIDE DEF c, memory, now, N
<1>4. Linked(whole, seen.first, now, seen.tcache)
  <2>1. \A d \in Chunk : now[d].next = memory[d].next /\ now[d].text = memory[d].text
    BY <1>3
  <2> QED
    BY <1>1, <1>2, <1>F, <2>1, OlderIsLinked
<1>5. /\ 1 \in 1 .. N - (n - 1) /\ n - 1 + 1 = n
      /\ \A i \in 1 .. N - n : /\ i + 1 \in 1 .. N - (n - 1) /\ n - 1 + (i + 1) = n + i
                               /\ k + (i + 1) = k + 1 + i /\ n + i \in 1 .. N /\ n + i # n
  BY ONLY <1>1, <1>K
<1>6. whole[k + 1] = c /\ Face(memory[c]) = Face(chunk[c])
  BY <1>2, <1>5 DEF c
<1>7. ASSUME NEW i \in 1 .. N - n
      PROVE  /\ whole[k + 1 + i] = list[n + i]
             /\ Face(now[list[n + i]]) = Face(chunk[list[n + i]])
  <2>1. /\ whole[k + 1 + i] = list[n + i]
        /\ Face(memory[list[n + i]]) = Face(chunk[list[n + i]])
    <3>1. /\ i + 1 \in 1 .. N - (n - 1) /\ n - 1 + (i + 1) = n + i /\ k + (i + 1) = k + 1 + i
      BY <1>5
    <3>2. /\ whole[k + (i + 1)] = list[n - 1 + (i + 1)]
          /\ Face(memory[list[n - 1 + (i + 1)]]) = Face(chunk[list[n - 1 + (i + 1)]])
      BY <1>2, <3>1
    <3> QED
      BY <3>1, <3>2
  <2>2. list[n + i] \in Chunk /\ list[n + i] # c
    <3>1. n + i \in 1 .. N /\ n + i # n
      BY ONLY <1>5
    <3>2. /\ \A a \in 1 .. N : list[a] \in Chunk
          /\ n \in 1 .. N /\ c = list[n]
      BY <1>1 DEF c, N
    <3> QED
      BY ONLY <1>U, <3>1, <3>2
  <2> QED
    BY <1>3, <2>1, <2>2 DEF Face
<1>8. k + 1 \in Nat /\ Len(whole) = k + 1 + (N - n) /\ k + 1 # 0
  BY <1>1, <1>2
<1>9. ASSUME Timely
      PROVE  /\ Len(more) = k + 1
             /\ \A i \in 1 .. k + 1 : more[i] = Face(now[whole[i]])
  <2> DEFINE new == [text |-> chunk[c].text, left |-> left]
  <2>1. new = Face(now[c]) /\ new \in Item
    <3>1. memory[c].text = chunk[c].text
      BY <1>6 DEF Face
    <3>2. memory[c].text \in Text
      BY <1>1 DEF Memory
    <3> QED
      BY <1>1, <1>3, <1>T, <3>1, <3>2 DEF Face, Item
  <2> HIDE DEF new
  <2>2. more = Append(rest, new)
    BY <1>9, <1>M DEF new
  <2>3. /\ Len(more) = k + 1 /\ more[k + 1] = new
        /\ \A i \in 1 .. k : more[i] = rest[i]
    BY <1>2, <1>9, <1>T, <2>1, <2>2, AppendProperties
  <2>4. ASSUME NEW i \in 1 .. k PROVE more[i] = Face(now[whole[i]])
    <3>1. i \in 1 .. Len(whole) /\ k + 1 \in 1 .. Len(whole) /\ i # k + 1
      BY <1>1, <1>2
    <3>2. whole[i] # c /\ whole[i] \in Chunk
      BY <1>2, <1>6, <3>1 DEF Linked
    <3>3. Face(now[whole[i]]) = Face(memory[whole[i]])
      BY <1>3, <3>2 DEF Face
    <3> QED
      BY <1>2, <1>9, <2>3, <3>3
  <2>5. more[k + 1] = Face(now[whole[k + 1]])
    BY <1>6, <2>1, <2>3
  <2>6. \A i \in 1 .. k + 1 : i = k + 1 \/ i \in 1 .. k
    BY <1>2
  <2> QED
    BY <2>3, <2>4, <2>5, <2>6
<1> QED
  BY <1>2, <1>4, <1>6, <1>7, <1>8, <1>9, <1>F DEF Halfway, now, N

(* An alert that is taken down in a round. *)
LEMMA RoundTakesOut ==
  ASSUME NEW list \in Seq(Chunk), NEW n \in 1 .. Len(list),
         NEW round \in Round, NEW rest, NEW whole, NEW k,
         Halfway(list, n - 1, round, rest, whole, k),
         \A i, j \in 1 .. Len(list) : list[i] = list[j] => i = j,
         NEW seen \in Round,
         seen.first = IF round.prev = NULL THEN round.chunk[list[n]].next ELSE round.first,
         seen.prev = round.prev,
         \A d \in Chunk :
           /\ seen.chunk[d].text = round.chunk[d].text
           /\ d # list[n] => seen.chunk[d].left = round.chunk[d].left
           /\ d = round.prev => seen.chunk[d].next = round.chunk[list[n]].next
           /\ d # round.prev => seen.chunk[d].next = round.chunk[d].next,
         Len(round.tcache) < TCACHE_COUNT =>
           seen.tcache = <<list[n]>> \o round.tcache /\ seen.binned = round.binned
  PROVE  \E less : Halfway(list, n, seen, rest, less, k)
<1> DEFINE c == list[n]
           memory == round.chunk
           now == seen.chunk
           N == Len(list)
           L == Len(whole)
           less == [i \in 1 .. L - 1 |-> whole[IF i <= k THEN i ELSE i + 1]]
<1>1. /\ N \in Nat /\ n \in 1 .. N /\ c \in Chunk /\ memory \in Memory
      /\ round.tcache \in Seq(Chunk) /\ Len(round.tcache) \in Nat
  BY DEF Round
<1>2. /\ whole \in Seq(Chunk) /\ k \in Nat
      /\ Linked(whole, round.first, memory, round.tcache)
      /\ L = k + (N - (n - 1))
      /\ \A i \in 1 .. N - (n - 1) :
           /\ whole[k + i] = list[n - 1 + i]
           /\ Face(memory[list[n - 1 + i]]) = Face(chunk[list[n - 1 + i]])
      /\ round.prev = IF k = 0 THEN NULL ELSE whole[k]
      /\ round.binned = {}
      /\ Timely => /\ Len(rest) = k
                   /\ \A i \in 1 .. k : rest[i] = Face(memory[whole[i]])
  BY DEF Halfway
<1>F. /\ seen.first = IF round.prev = NULL THEN memory[c].next ELSE round.first
      /\ seen.prev = round.prev
      /\ \A d \in Chunk :
           /\ now[d].text = memory[d].text
           /\ d # c => now[d].left = memory[d].left
           /\ d = round.prev => now[d].next = memory[c].next
           /\ d # round.prev => now[d].next = memory[d].next
      /\ Len(round.tcache) < TCACHE_COUNT =>
           seen.tcache = <<c>> \o round.tcache /\ seen.binned = round.binned
  OBVIOUS
<1>U. \A i, j \in 1 .. N : list[i] = list[j] => i = j
  OBVIOUS
<1>K. /\ k \in Nat /\ L = k + (N - (n - 1))
      /\ round.prev = IF k = 0 THEN NULL ELSE whole[k]
      /\ Timely => /\ Len(rest) = k
                   /\ \A i \in 1 .. k : rest[i] = Face(memory[whole[i]])
  BY <1>2
<1> HIDE DEF c, memory, now, N, L, less
<1>4. L \in Nat /\ k < L /\ k + 1 \in 1 .. L /\ \A i \in 1 .. L : whole[i] \in Chunk
  BY <1>1, <1>2 DEF L
<1>5. /\ 1 \in 1 .. N - (n - 1) /\ n - 1 + 1 = n
      /\ \A i \in 1 .. N - n : /\ i + 1 \in 1 .. N - (n - 1) /\ n - 1 + (i + 1) = n + i
                               /\ k + (i + 1) = k + i + 1 /\ n + i \in 1 .. N /\ n + i # n
                               /\ k + i \in 1 .. L - 1 /\ ~(k + i <= k) /\ k + i + 1 \in 1 .. L
  <2>1. N \in Nat /\ n \in 1 .. N /\ k \in Nat /\ L = k + (N - (n - 1))
    BY <1>1, <1>K
  <2> QED
    BY ONLY <2>1
<1>6. whole[k + 1] = c
  BY <1>2, <1>5 DEF c
<1>7. /\ less \in Seq(Chunk) /\ Len(less) = L - 1
      /\ \A i \in 1 .. L - 1 : less[i] = whole[IF i <= k THEN i ELSE i + 1]
  <2>1. \A i \in 1 .. L - 1 : whole[IF i <= k THEN i ELSE i + 1] \in Chunk
    <3>1. TAKE i \in 1 .. L - 1
    <3>2. (IF i <= k THEN i ELSE i + 1) \in 1 .. L
      BY <1>2, <1>4
    <3> QED
      BY <1>4, <3>2
  <2>2. L - 1 \in Nat
    BY <1>4
  <2> DEFINE M == L - 1
             of(i) == whole[IF i <= k THEN i ELSE i + 1]
  <2>3. M \in Nat /\ less = [i \in 1 .. M |-> of(i)] /\ \A i \in 1 .. M : of(i) \in Chunk
    BY <2>1, <2>2 DEF less
  <2> HIDE DEF M, of
  <2>4. less \in Seq(Chunk) /\ Len(less) = M /\ \A i \in 1 .. M : less[i] = of(i)
    BY ONLY <2>3
  <2> QED
    BY <2>4 DEF M, of
<1>8. k > 0 => k \in 1 .. L /\ whole[k] \in Chunk /\ whole[k] # c /\ round.prev = whole[k]
               /\ round.prev # NULL
  <2>1. ASSUME k > 0
        PROVE  k \in 1 .. L /\ whole[k] \in Chunk /\ whole[k] # whole[k + 1]
    <3>1. k \in 1 .. L /\ k # k + 1
      BY <1>2, <1>4, <2>1
    <3>2. whole[k] = whole[k + 1] => k = k + 1
      BY <1>2, <1>4, <3>1 DEF Linked, L
    <3> QED
      BY <1>4, <3>1, <3>2
  <2>2. k > 0 => round.prev = whole[k]
    BY <1>2
  <2> QED
    BY <1>6, <2>1, <2>2, PlaceFacts
<1>9. \A d \in Chunk :
        /\ now[d].text = memory[d].text
        /\ d # c => now[d].left = memory[d].left
        /\ k > 0 /\ d = whole[k] => now[d].next = memory[c].next
        /\ ~(k > 0 /\ d = whole[k]) => now[d].next = memory[d].next
  <2>1. TAKE d \in Chunk
  <2>2. k > 0 /\ d = whole[k] => d = round.prev
    BY <1>8
  <2>3. ~(k > 0 /\ d = whole[k]) => d # round.prev
    <3>1. CASE k = 0
      BY <1>K, <3>1, PlaceFacts
    <3>2. CASE k # 0
      BY <1>8, <1>K, <3>2
    <3> QED
      BY <3>1, <3>2
  <2> QED
    BY <1>F, <2>1, <2>2, <2>3
<1>10. Len(round.tcache) < TCACHE_COUNT
  <2>1. Len(whole) + Len(round.tcache) <= TCACHE_COUNT
    BY <1>2 DEF Linked
  <2>2. TCACHE_COUNT \in Nat
    BY ClientAssumption
  <2> QED
    BY <1>1, <1>4, <2>1, <2>2 DEF L
<1>11. seen.first = IF k = 0 THEN memory[whole[1]].next ELSE round.first
  <2>1. CASE k = 0
    BY <1>2, <1>6, <1>F, <2>1
  <2>2. CASE k # 0
    BY <1>2, <1>8, <1>F, <2>2
  <2> QED
    BY <2>1, <2>2
<1>12. Linked(less, seen.first, now, seen.tcache)
  <2>1. \A d \in Chunk :
           /\ now[d].text = memory[d].text
           /\ k > 0 /\ d = whole[k] => now[d].next = memory[whole[k + 1]].next
           /\ ~(k > 0 /\ d = whole[k]) => now[d].next = memory[d].next
    BY <1>6, <1>9
  <2>2. \A i \in 1 .. Len(less) : less[i] = whole[IF i <= k THEN i ELSE i + 1]
    BY <1>7
  <2>3. Linked(less, IF k = 0 THEN memory[whole[1]].next ELSE round.first, now,
               <<whole[k + 1]>> \o round.tcache)
    BY <1>1, <1>2, <1>4, <1>7, <2>1, <2>2, OneTakenOut DEF L
  <2> QED
    BY <1>6, <1>10, <1>11, <1>F, <2>3
<1>13. ASSUME NEW i \in 1 .. N - n
       PROVE  /\ less[k + i] = list[n + i]
              /\ Face(now[list[n + i]]) = Face(chunk[list[n + i]])
  <2>1. /\ whole[k + i + 1] = list[n + i]
        /\ Face(memory[list[n + i]]) = Face(chunk[list[n + i]])
    <3>1. i + 1 \in 1 .. N - (n - 1) /\ n - 1 + (i + 1) = n + i /\ k + (i + 1) = k + i + 1
      BY <1>5
    <3>2. /\ whole[k + (i + 1)] = list[n - 1 + (i + 1)]
          /\ Face(memory[list[n - 1 + (i + 1)]]) = Face(chunk[list[n - 1 + (i + 1)]])
      BY <1>2, <3>1
    <3> QED
      BY <3>1, <3>2
  <2>2. less[k + i] = whole[k + i + 1]
    BY <1>5, <1>7
  <2>3. list[n + i] \in Chunk /\ list[n + i] # c
    BY <1>1, <1>5, <1>U DEF c, N
  <2> QED
    BY <1>9, <2>1, <2>2, <2>3 DEF Face
<1>14. Len(less) = k + (N - n)
  BY <1>1, <1>2, <1>7
<1>15. \A i \in 1 .. k : i \in 1 .. L - 1 /\ less[i] = whole[i] /\ whole[i] # c /\ whole[i] \in Chunk
  <2>1. TAKE i \in 1 .. k
  <2>2. i \in 1 .. L - 1 /\ i <= k /\ i \in 1 .. L /\ i # k + 1
    BY <1>2, <1>4
  <2>3. whole[i] = whole[k + 1] => i = k + 1
    BY <1>2, <1>4, <2>2 DEF Linked, L
  <2> QED
    BY <1>4, <1>6, <1>7, <2>2, <2>3
<1>16. Timely => /\ Len(rest) = k
                 /\ \A i \in 1 .. k : rest[i] = Face(now[less[i]])
  <2>1. \A i \in 1 .. k : Face(now[less[i]]) = Face(memory[whole[i]])
    BY <1>9, <1>15 DEF Face
  <2> QED
    BY <1>K, <2>1
<1>17. seen.prev = IF k = 0 THEN NULL ELSE less[k]
  <2>1. k # 0 => k \in 1 .. k
    BY <1>2
  <2> QED
    BY <1>2, <1>15, <1>F, <2>1
<1>18. seen.binned = {}
  BY <1>2, <1>10, <1>F
<1>19. Halfway(list, n, seen, rest, less, k)
  BY <1>2, <1>7, <1>12, <1>13, <1>14, <1>16, <1>17, <1>18 DEF Halfway, now, N
<1> QED
  BY <1>19

(* The list all the way: it stays linked, and what it shows is what        *)
(* AlertBoard leaves.                                                      *)
LEMMA RoundsKeepList ==
  ASSUME HeapTypes, Tidy, ~crowded, deltatime \in DeltaTime \cup {0, Skewed}
  PROVE  \E whole, k : Halfway(Follow, Len(Follow), Rounds(Follow)[Len(Follow)],
                               Rest(Shown, deltatime)[Len(Follow)], whole, k)
<1> DEFINE list == Follow
           N == Len(list)
           rest == Rest(Shown, deltatime)
           T == {n \in 0 .. N : \E whole, k : Halfway(list, n, Rounds(list)[n], rest[n], whole, k)}
<1>1. /\ list \in Seq(Chunk) /\ N \in Nat /\ binned = {}
      /\ Linked(list, alerts, chunk, tcache)
      /\ \A i, j \in 1 .. N : list[i] = list[j] => i = j
      /\ chunk \in Memory
  BY DEF Tidy, Linked, HeapTypes
<1>2. /\ Rounds(list)[0] = First
      /\ \A n \in 0 .. N : Rounds(list)[n] \in Round
      /\ \A n \in 1 .. N : Rounds(list)[n] = Visit(Rounds(list)[n - 1], list[n])
  BY <1>1, RoundsAre
<1>3. /\ Shown \in Seq(Item) /\ Len(Shown) = N
      /\ \A i \in 1 .. N : Shown[i] = Face(chunk[list[i]])
  BY ShownAre
<1>4. deltatime \in Int
  BY TimesAreNumbers
<1>5. /\ rest[0] = <<>>
      /\ \A n \in 0 .. N : rest[n] \in Seq(Item)
      /\ \A n \in 1 .. N :
           rest[n] = IF Shown[n].left > deltatime
                       THEN Append(rest[n - 1], [text |-> Shown[n].text,
                                                 left |-> Shown[n].left - deltatime])
                     ELSE rest[n - 1]
  BY <1>3, <1>4, RestsAre
<1> HIDE DEF list, N, rest
<1>6. 0 \in T
  <2>1. Halfway(list, 0, First, rest[0], list, 0)
    <3>1. Linked(list, First.first, First.chunk, First.tcache)
      BY <1>1 DEF First
    <3>2. \A i \in 1 .. N - 0 : 0 + i = i
      BY <1>1
    <3>3. First.prev = NULL /\ First.binned = {} /\ First.chunk = chunk
      BY <1>1 DEF First
    <3>4. Len(list) = 0 + (N - 0) /\ Len(list) = N
      BY <1>1 DEF N
    <3> QED
      BY <1>1, <1>5, <3>1, <3>2, <3>3, <3>4 DEF Halfway
  <2> QED
    BY <1>1, <1>2, <2>1
<1>7. \A n \in 1 .. N : n - 1 \in T => n \in T
  <2>1. TAKE n \in 1 .. N
  <2>2. HAVE n - 1 \in T
  <2> DEFINE round == Rounds(list)[n - 1]
             seen == Rounds(list)[n]
             c == list[n]
             left == Older(round.chunk[c].left, deltatime)
  <2>3. PICK whole, k : Halfway(list, n - 1, round, rest[n - 1], whole, k)
    BY <2>2
  <2>4. n - 1 \in 0 .. N /\ n \in 0 .. N /\ c \in Chunk /\ n \in 1 .. Len(list)
    BY <1>1 DEF N
  <2>5. round \in Round /\ seen \in Round /\ seen = Visit(round, c)
        /\ rest[n - 1] \in Seq(Item) /\ round.chunk \in Memory
    BY <1>2, <1>5, <2>4 DEF Round
  <2>6. /\ left \in Int
        /\ \A d \in Chunk :
             /\ seen.chunk[d].text = round.chunk[d].text
             /\ d # c => seen.chunk[d].left = round.chunk[d].left
        /\ left > 0 =>
             /\ seen.first = round.first /\ seen.prev = c
             /\ seen.tcache = round.tcache /\ seen.binned = round.binned
             /\ seen.chunk[c].left = left
             /\ \A d \in Chunk : seen.chunk[d].next = round.chunk[d].next
        /\ ~(left > 0) =>
             /\ seen.first = IF round.prev = NULL THEN round.chunk[c].next ELSE round.first
             /\ seen.prev = round.prev
             /\ \A d \in Chunk :
                  /\ d = round.prev => seen.chunk[d].next = round.chunk[c].next
                  /\ d # round.prev => seen.chunk[d].next = round.chunk[d].next
             /\ Len(round.tcache) < TCACHE_COUNT =>
                  seen.tcache = <<c>> \o round.tcache /\ seen.binned = round.binned
    <3>1. left = Older(round.chunk[c].left, deltatime)
      OBVIOUS
    <3> HIDE DEF round, seen, c, left
    <3> QED
      BY <2>4, <2>5, <3>1, VisitSees, SMTT(60)
  <2>7. Timely => /\ left = Shown[n].left - deltatime
                  /\ Shown[n].left > deltatime <=> left > 0
                  /\ Shown[n].text = chunk[c].text
    <3>1. Face(round.chunk[c]) = Face(chunk[c])
      <4>1. 1 \in 1 .. Len(list) - (n - 1) /\ n - 1 + 1 = n
        BY <1>1, <2>4 DEF N
      <4>2. Face(round.chunk[list[n - 1 + 1]]) = Face(chunk[list[n - 1 + 1]])
        <5> HIDE DEF round, c
        <5> QED
          BY <2>3, <4>1 DEF Halfway
      <4> QED
        BY <4>1, <4>2
    <3>2. Shown[n] = Face(chunk[c])
      BY <1>3
    <3>3. /\ round.chunk[c].left = chunk[c].left /\ chunk[c].left \in Int
          /\ Shown[n].left = chunk[c].left /\ Shown[n].text = chunk[c].text
      <4>1. chunk[c].left \in Int
        BY <1>1, <2>4 DEF Memory
      <4> HIDE DEF round, c
      <4> QED
        BY <3>1, <3>2, <4>1 DEF Face
    <3>4. Timely => left = chunk[c].left - deltatime
      <4> HIDE DEF round, c
      <4> QED
        BY <2>4, <3>3 DEF Timely, Older
    <3> HIDE DEF left, round, c
    <3> QED
      BY <1>4, <3>3, <3>4
  <2> HIDE DEF left, round
  <2>8. CASE left > 0
    <3>1. Timely => rest[n] = Append(rest[n - 1], [text |-> chunk[c].text, left |-> left])
      BY <1>5, <2>7, <2>8
    <3>2. Halfway(list, n, seen, rest[n], whole, k + 1)
      <4>1. /\ seen.first = round.first /\ seen.prev = list[n]
            /\ seen.tcache = round.tcache /\ seen.binned = round.binned
            /\ seen.chunk[list[n]].left = left
            /\ \A d \in Chunk :
                 /\ seen.chunk[d].text = round.chunk[d].text
                 /\ d # list[n] => seen.chunk[d].left = round.chunk[d].left
                 /\ seen.chunk[d].next = round.chunk[d].next
        BY <2>6, <2>8
      <4>2. \A i, j \in 1 .. Len(list) : list[i] = list[j] => i = j
        BY <1>1 DEF N
      <4>3. Timely => rest[n] = Append(rest[n - 1], [text |-> chunk[list[n]].text, left |-> left])
        BY <3>1
      <4>4. /\ seen \in Round /\ round \in Round /\ left \in Int /\ list \in Seq(Chunk)
            /\ n \in 1 .. Len(list) /\ Halfway(list, n - 1, round, rest[n - 1], whole, k)
            /\ rest[n - 1] \in Seq(Item)
        BY <1>1, <2>3, <2>4, <2>5, <2>6
      <4> DEFINE before == rest[n - 1]
                 more == rest[n]
      <4> DEFINE item == [text |-> chunk[list[n]].text, left |-> left]
      <4>7. item \in Item
        BY <1>1, <2>4, <2>6 DEF Item, Memory
      <4>8. item.text = chunk[list[n]].text /\ item.left = left
        OBVIOUS
      <4>5. /\ Timely => more = Append(before, item)
            /\ Halfway(list, n - 1, round, before, whole, k) /\ before \in Seq(Item)
        BY <4>3, <4>4
      <4> HIDE DEF seen, c, before, more, item
      <4>6. Halfway(list, n, seen, more, whole, k + 1)
        BY ONLY <4>1, <4>2, <4>4, <4>5, <4>7, <4>8, RoundKeeps, ZenonT(40)
      <4> QED
        BY <4>6 DEF more
    <3> QED
      BY <2>4, <3>2
  <2>9. CASE ~(left > 0)
    <3>1. Timely => rest[n] = rest[n - 1]
      BY <1>5, <2>7, <2>9
    <3>2. PICK less : Halfway(list, n, seen, rest[n - 1], less, k)
      <4>1. /\ seen.first = IF round.prev = NULL THEN round.chunk[list[n]].next ELSE round.first
            /\ seen.prev = round.prev
            /\ \A d \in Chunk :
                 /\ seen.chunk[d].text = round.chunk[d].text
                 /\ d # list[n] => seen.chunk[d].left = round.chunk[d].left
                 /\ d = round.prev => seen.chunk[d].next = round.chunk[list[n]].next
                 /\ d # round.prev => seen.chunk[d].next = round.chunk[d].next
            /\ Len(round.tcache) < TCACHE_COUNT =>
                 seen.tcache = <<list[n]>> \o round.tcache /\ seen.binned = round.binned
        BY <2>6, <2>9
      <4>2. \A i, j \in 1 .. Len(list) : list[i] = list[j] => i = j
        BY <1>1 DEF N
      <4>3. seen \in Round /\ round \in Round /\ list \in Seq(Chunk)
            /\ n \in 1 .. Len(list) /\ Halfway(list, n - 1, round, rest[n - 1], whole, k)
        BY <1>1, <2>3, <2>4, <2>5
      <4> HIDE DEF seen, c
      <4> QED
        BY ONLY <4>1, <4>2, <4>3, RoundTakesOut
    <3>3. Halfway(list, n, seen, rest[n], less, k)
      <4> HIDE DEF seen
      <4>1. CASE Timely
        BY <3>1, <3>2, <4>1
      <4>2. CASE ~Timely
        BY <3>2, <4>2 DEF Halfway
      <4> QED
        BY <4>1, <4>2
    <3> QED
      BY <2>4, <3>3
  <2> QED
    BY <2>8, <2>9
<1> HIDE DEF T
<1>8. \A n \in 0 .. N : n \in T
  BY <1>1, <1>6, <1>7, Ascending
<1>9. N \in T
  BY <1>1, <1>8
<1> QED
  BY <1>9 DEF T, list, N, rest

LEMMA AlertsGrowOlder ==
  ASSUME HeapTypes, Tidy, deltatime \in DeltaTime \cup {0, Skewed},
         alerts' = Visited.first, chunk' = Visited.chunk,
         tcache' = Visited.tcache, binned' = Visited.binned,
         fault' = (IF Last(Walk) = NULL THEN "none" ELSE "bad_alert"),
         UNCHANGED crowded
  PROVE  /\ HeapTypes' /\ Tidy'
         /\ ~crowded /\ Timely => Shown' = Rest(Shown, deltatime)[Len(Shown)]
<1>1. Front(Walk) \in Seq(Chunk)
  BY FollowIsOfChunks
<1>2. Visited \in Round
  <2>1. Len(Front(Walk)) \in 0 .. Len(Front(Walk))
    BY <1>1
  <2> QED
    BY <1>1, <2>1, RoundsAre, VisitedIs
<1>3. HeapTypes'
  BY <1>2 DEF HeapTypes, Round
<1>4. ASSUME ~crowded
      PROVE  /\ Tidy'
             /\ Timely => Shown' = Rest(Shown, deltatime)[Len(Shown)]
  <2> DEFINE list == Follow
             N == Len(list)
             rest == Rest(Shown, deltatime)[N]
  <2>1. Last(Walk) = NULL /\ Follow = Front(Walk)
    BY <1>4 DEF Tidy, Follow
  <2>2. PICK whole, k : Halfway(list, N, Rounds(list)[N], rest, whole, k)
    BY <1>4, RoundsKeepList
  <2>3. Visited = Rounds(list)[N]
    BY <2>1, VisitedIs
  <2>4. N \in Nat /\ list \in Seq(Chunk)
    BY <1>1, <2>1
  <2>5. Halfway(list, N, Visited, rest, whole, k)
    BY <2>2, <2>3
  <2> HIDE DEF list, N, rest
  <2>6. /\ whole \in Seq(Chunk) /\ k \in Nat
        /\ Linked(whole, Visited.first, Visited.chunk, Visited.tcache)
        /\ Len(whole) = k + (N - N)
        /\ Visited.binned = {}
        /\ Timely => /\ Len(rest) = k
                     /\ \A i \in 1 .. k : rest[i] = Face(Visited.chunk[whole[i]])
    BY <2>5 DEF Halfway, N
  <2>7. Len(whole) = k
    BY <2>4, <2>6
  <2>8. /\ Linked(whole, alerts', chunk', tcache') /\ binned' = {}
        /\ chunk' \in Memory /\ tcache' \in Seq(Chunk)
    BY <1>3, <2>6 DEF HeapTypes
  <2>9. /\ Last(WalkFrom(alerts', chunk', Range(tcache') \cup {})) = NULL
        /\ Front(WalkFrom(alerts', chunk', Range(tcache') \cup {})) = whole
    BY <2>8, ListIsFollowed
  <2>10. Last(Walk') = NULL /\ Follow' = whole
    BY <2>8, <2>9 DEF Follow, Walk, Freed
  <2>11. Tidy'
    BY <2>1, <2>8, <2>10 DEF Tidy
  <2>12. ASSUME Timely PROVE Shown' = Rest(Shown, deltatime)[Len(Shown)]
    <3>1. Shown \in Seq(Item) /\ Len(Shown) = N
      BY ShownAre DEF list, N
    <3>2. rest \in Seq(Item)
      <4>1. deltatime \in Int /\ N \in 0 .. Len(Shown)
        BY <2>4, <3>1, TimesAreNumbers
      <4> QED
        BY <3>1, <4>1, RestsAre DEF rest, N, list
    <3>3. Shown' = [i \in 1 .. Len(whole) |-> Face(chunk'[whole[i]])]
      BY <2>10 DEF Shown, Face
    <3>4. \A d \in Chunk : Face(chunk'[d]) \in Item
      BY <2>8 DEF Memory, Face, Item
    <3>5. /\ Shown' \in Seq(Item) /\ Len(Shown') = k
          /\ \A i \in 1 .. k : Shown'[i] = Face(chunk'[whole[i]])
      BY <2>6, <2>7, <3>3, <3>4
    <3>6. \A i \in 1 .. k : Shown'[i] = rest[i]
      BY <2>6, <2>12, <3>5
    <3>7. Shown' = rest
      BY <2>6, <2>12, <3>2, <3>5, <3>6, SeqEqual
    <3> QED
      BY <3>1, <3>7 DEF rest
  <2> QED
    BY <2>11, <2>12
<1>5. crowded => Tidy'
  BY DEF Tidy
<1> QED
  BY <1>3, <1>4, <1>5

----------------------------------------------------------------------------
(* The invariant is one *)

LEMMA HeapSame ==
  ASSUME HeapTypes, Tidy, UNCHANGED <<heap, fault>>
  PROVE  HeapTypes' /\ Tidy' /\ Shown' = Shown
<1>1. /\ alerts' = alerts /\ chunk' = chunk /\ tcache' = tcache /\ binned' = binned
      /\ crowded' = crowded /\ fault' = fault
  BY DEF heap
<1>2. Walk' = Walk
  BY <1>1 DEF Walk, Freed
<1>3. Follow' = Follow
  BY <1>2 DEF Follow
<1>4. Shown' = Shown
  BY <1>1, <1>3 DEF Shown
<1>5. HeapTypes'
  BY <1>1 DEF HeapTypes
<1>6. Tidy'
  BY <1>1, <1>2, <1>3 DEF Tidy
<1> QED
  BY <1>4, <1>5, <1>6

LEMMA InitHolds == Init => IInv
<1> SUFFICES ASSUME Init PROVE IInv
  OBVIOUS
<1> DEFINE none == <<>>
<1>1. HasFields(client)
  BY DEF Init, HasFields, NewClient, Phase
<1>2. LineIsMeant
  BY NothingMeant, ClientAssumption DEF Init, LineIsMeant
<1>3. chunk \in Memory
  BY PlaceFacts DEF Init, Memory, Never, Text
<1>4. HeapTypes
  <2>1. Len(tcache) = 0 /\ tcache \in Seq(Chunk)
    BY DEF Init
  <2> QED
    BY <1>3, <2>1, PlaceFacts, ClientAssumption DEF Init, HeapTypes
<1>5. Linked(none, alerts, chunk, tcache)
  BY ClientAssumption DEF Init, Linked
<1>6. binned = {} /\ fault = "none" /\ tcache \in Seq(Chunk)
  BY DEF Init
<1> HIDE DEF none
<1>7. /\ Last(WalkFrom(alerts, chunk, Range(tcache) \cup {})) = NULL
      /\ Front(WalkFrom(alerts, chunk, Range(tcache) \cup {})) = none
  BY <1>3, <1>5, <1>6, ListIsFollowed
<1>8. Last(Walk) = NULL /\ Follow = none
  BY <1>6, <1>7 DEF Walk, Freed, Follow
<1>9. Tidy
  BY <1>5, <1>6, <1>8 DEF Tidy
<1> QED
  BY <1>1, <1>2, <1>4, <1>9 DEF IInv, Init

LEMMA AlertFacts ==
  ASSUME NEW message, NEW alert \in AlertOf(message)
  PROVE  /\ alert[1] \in Text \ {"none"} /\ alert[2] \in Int
         /\ [text |-> alert[1], left |-> alert[2]]
              \in [text : {"N_CORRECT_WORD", "N_LOSE_HP", "N_INCORRECT_WORD"},
                   left : {default_alert_ttl}]
                  \cup [text : {"N_PLAYER_WON"}, left : {winner_ttl}]
<1>1. default_alert_ttl \in Int /\ winner_ttl \in Int
  BY ClientAssumption
<1>2. \/ /\ message[1] \in {"N_CORRECT_WORD", "N_LOSE_HP", "N_INCORRECT_WORD"}
         /\ alert = <<message[1], default_alert_ttl>>
      \/ /\ message[1] = "N_PLAYER_WON"
         /\ alert = <<message[1], winner_ttl>>
  BY DEF AlertOf
<1> QED
  BY <1>1, <1>2 DEF Text

----------------------------------------------------------------------------
(* The steps *)

(* What a step does to the alerts, seen from AlertBoard. *)
OnTheBoard == crowded' \/ LastingAlerts \/ Board!BoardNext \/ Shown' = Shown

LEMMA RestIsElapsed ==
  ASSUME NEW time, Shown' = Rest(Shown, time)[Len(Shown)]
  PROVE  Board!Elapse(time)
  BY DEF Board!Elapse, Rest, Rests

LEMMA CommandHolds ==
  ASSUME IInv, NEW message \in ServerMessage, ServerCommand(message)
  PROVE  IInv' /\ OnTheBoard
<1>1. /\ client' = process_server_command(client, message)
      /\ step' = step /\ deltatime' = deltatime /\ fault' = fault
      /\ UNCHANGED line
  BY DEF ServerCommand, line
<1>2. HasFields(client')
  BY <1>1, HandlersKeepFields DEF IInv
<1>3. LineIsMeant'
  BY <1>1, LineSame DEF IInv
<1>4. HeapTypes' /\ Tidy' /\ OnTheBoard
  <2>1. CASE AlertOf(message) = {}
    <3>1. UNCHANGED <<heap, fault>>
      BY <1>1, <2>1 DEF ServerCommand
    <3> QED
      BY <3>1, HeapSame DEF IInv, OnTheBoard
  <2>2. CASE AlertOf(message) # {}
    <3>1. PICK alert \in AlertOf(message) : create_alert(alert[1], alert[2])
      BY <2>2 DEF ServerCommand
    <3> DEFINE text == alert[1]
               ttl == alert[2]
               said == [text |-> text, left |-> ttl]
    <3>2. /\ text \in Text \ {"none"} /\ ttl \in Int
          /\ said \in [text : {"N_CORRECT_WORD", "N_LOSE_HP", "N_INCORRECT_WORD"},
                       left : {default_alert_ttl}]
                      \cup [text : {"N_PLAYER_WON"}, left : {winner_ttl}]
      BY <3>1, AlertFacts
    <3>3. create_alert(text, ttl)
      BY <3>1
    <3> HIDE DEF text, ttl
    <3>4. HeapTypes /\ Tidy /\ UNCHANGED fault
      BY <1>1 DEF IInv
    <3>5. /\ HeapTypes' /\ Tidy'
          /\ ~crowded' => Shown' = <<said>> \o Shown
      BY <3>2, <3>3, <3>4, AlertIsPutUp
    <3>6. ~crowded' => Board!Raise(said)
      BY <3>5 DEF Board!Raise
    <3> HIDE DEF said
    <3>7. ~crowded' => Board!BoardNext
      BY <3>2, <3>6 DEF Board!BoardNext
    <3> QED
      BY <3>5, <3>7 DEF OnTheBoard
  <2> QED
    BY <2>1, <2>2
<1> QED
  BY <1>1, <1>2, <1>3, <1>4 DEF IInv

LEMMA DrawHolds ==
  ASSUME IInv, Draw
  PROVE  IInv' /\ OnTheBoard
<1>1. /\ client' = display_ui(client) /\ step' = "read" /\ UNCHANGED line
      /\ deltatime' \in IF skewed THEN {Skewed} ELSE DeltaTime
  BY DEF Draw
<1>2. HasFields(client')
  BY <1>1, HandlersKeepFields DEF IInv
<1>3. LineIsMeant'
  BY <1>1, LineSame DEF IInv
<1>4. deltatime' \in DeltaTime \cup {0, Skewed}
  BY <1>1
<1>5. fault' \in {"none", "bad_alert"} /\ HeapTypes' /\ Tidy' /\ OnTheBoard
  <2>1. CASE client'.phase = "crashed"
    <3>1. UNCHANGED <<heap, fault>>
      BY <2>1 DEF Draw
    <3> QED
      BY <3>1, HeapSame DEF IInv, OnTheBoard
  <2>2. CASE client'.phase # "crashed"
    <3>1. /\ alerts' = Visited.first /\ chunk' = Visited.chunk
          /\ tcache' = Visited.tcache /\ binned' = Visited.binned
          /\ fault' = (IF Last(Walk) = NULL THEN "none" ELSE "bad_alert")
          /\ UNCHANGED crowded
      BY <2>2 DEF Draw
    <3>2. HeapTypes /\ Tidy /\ deltatime \in DeltaTime \cup {0, Skewed}
      BY DEF IInv
    <3>3. /\ HeapTypes' /\ Tidy'
          /\ ~crowded /\ Timely => Shown' = Rest(Shown, deltatime)[Len(Shown)]
      BY <3>1, <3>2, AlertsGrowOlder
    <3>4. OnTheBoard
      <4>1. SUFFICES ASSUME ~crowded', ~LastingAlerts PROVE Board!BoardNext
        BY DEF OnTheBoard
      <4>2. ~crowded /\ Timely /\ deltatime # Skewed
        BY <3>1, <4>1 DEF LastingAlerts, Timely
      <4>3. Board!Elapse(deltatime)
        BY <3>3, <4>2, RestIsElapsed
      <4>4. deltatime \in DeltaTime \cup {0}
        BY <3>2, <4>2
      <4> QED
        BY <4>3, <4>4 DEF Board!BoardNext
    <3>5. fault' \in {"none", "bad_alert"}
      BY <3>1
    <3> QED
      BY <3>3, <3>4, <3>5
  <2> QED
    BY <2>1, <2>2
<1> QED
  BY <1>1, <1>2, <1>3, <1>4, <1>5 DEF IInv

LEMMA KeyHolds ==
  ASSUME IInv, Key, LineIsMeant'
  PROVE  IInv' /\ OnTheBoard
<1>1. /\ client' = client /\ step' = "draw" /\ deltatime' = deltatime
      /\ UNCHANGED <<heap, fault>> /\ fault' = fault
  BY DEF Key
<1>2. HeapTypes' /\ Tidy' /\ Shown' = Shown
  BY <1>1, HeapSame DEF IInv
<1> QED
  BY <1>1, <1>2 DEF IInv, OnTheBoard

LEMMA StillHolds ==
  ASSUME IInv, UNCHANGED vars
  PROVE  IInv' /\ OnTheBoard
<1>1. /\ client' = client /\ step' = step /\ deltatime' = deltatime /\ fault' = fault
      /\ UNCHANGED line /\ UNCHANGED <<heap, fault>>
  BY DEF vars
<1>2. LineIsMeant'
  BY <1>1, LineSame DEF IInv
<1>3. HeapTypes' /\ Tidy' /\ Shown' = Shown
  BY <1>1, HeapSame DEF IInv
<1> QED
  BY <1>1, <1>2, <1>3 DEF IInv, OnTheBoard

LEMMA NextHolds ==
  ASSUME IInv, [Next]_vars
  PROVE  IInv' /\ OnTheBoard
<1>1. ASSUME NEW message \in ServerMessage, ServerCommand(message)
      PROVE  IInv' /\ OnTheBoard
  BY <1>1, CommandHolds
<1>2. ASSUME ServerGone PROVE IInv' /\ OnTheBoard
  <2>1. /\ client' = [client EXCEPT !.phase = "exited"]
        /\ step' = step /\ deltatime' = deltatime /\ fault' = fault
        /\ UNCHANGED line /\ UNCHANGED <<heap, fault>>
    BY <1>2 DEF ServerGone
  <2>2. HasFields(client')
    BY <2>1, CrashKeepsFields DEF IInv
  <2>3. LineIsMeant'
    BY <2>1, LineSame DEF IInv
  <2>4. HeapTypes' /\ Tidy' /\ Shown' = Shown
    BY <2>1, HeapSame DEF IInv
  <2> QED
    BY <2>1, <2>2, <2>3, <2>4 DEF IInv, OnTheBoard
<1>3. ASSUME NoKey \/ KeyDropped PROVE IInv' /\ OnTheBoard
  <2>1. Key /\ UNCHANGED line
    BY <1>3 DEF NoKey, KeyDropped
  <2> QED
    BY <2>1, LineSame, KeyHolds DEF IInv
<1>4. ASSUME Enter PROVE IInv' /\ OnTheBoard
  <2>1. Key
    BY <1>4 DEF Enter
  <2>2. LineIsMeant'
    BY <1>4, EnterKeepsLine
  <2> QED
    BY <2>1, <2>2, KeyHolds
<1>5. ASSUME Backspace PROVE IInv' /\ OnTheBoard
  <2>1. Key
    BY <1>5 DEF Backspace, MoreKeys
  <2>2. LineIsMeant'
    BY <1>5, BackspaceKeepsLine DEF IInv
  <2> QED
    BY <2>1, <2>2, KeyHolds
<1>6. ASSUME NEW letter \in Letter, TypeLetter(letter) PROVE IInv' /\ OnTheBoard
  <2>1. Key
    BY <1>6 DEF TypeLetter, MoreKeys
  <2>2. LineIsMeant'
    BY <1>6, LetterKeepsLine DEF IInv
  <2> QED
    BY <2>1, <2>2, KeyHolds
<1>7. ASSUME Draw PROVE IInv' /\ OnTheBoard
  BY <1>7, DrawHolds
<1>8. ASSUME Over \/ UNCHANGED vars PROVE IInv' /\ OnTheBoard
  BY <1>8, StillHolds DEF Over
<1> QED
  BY <1>1, <1>2, <1>3, <1>4, <1>5, <1>6, <1>7, <1>8 DEF Next

----------------------------------------------------------------------------
(* The theorems *)

THEOREM Inductive == Spec => []IInv
<1>1. IInv /\ [Next]_vars => IInv'
  BY NextHolds
<1> QED
  BY InitHolds, <1>1, PTL DEF Spec

(* The line's index and what is displayed of it go together, the index     *)
(* never leaves the buffer at its end, and the heap has its types:         *)
(* whatever handlers of client.c ran, in whatever frame.                   *)
THEOREM TypeCorrect == Spec => []TypeOK
<1>1. IInv => TypeOK
  BY DEF IInv, HasFields, LineIsMeant, HeapTypes, Place, TypeOK
<1> QED
  BY <1>1, Inductive, PTL

(* What process_terminal_input() sends at ENTER is one message, and the    *)
(* server reads in it the line that was meant, for every size of the       *)
(* buffers, every alphabet and every way to correct the line.              *)
THEOREM LineSentIsMeant == Spec => EnteredIsMeant
<1> DEFINE Sent ==
      msg' # <<>> /\ Regular(typed) /\ Plain(Meant(typed)) =>
        /\ Framed(msg') = <<msg'>>
        /\ parse_msg_body(msg', << <<"before">> >>) = <<Meant(typed)>>
<1>1. ASSUME IInv, [Next]_vars PROVE [Sent]_vars
  <2>1. CASE UNCHANGED vars
    BY <2>1
  <2>2. CASE Next /\ vars' # vars
    <3>1. SUFFICES ASSUME msg' # <<>>, Regular(typed), Plain(Meant(typed))
                   PROVE  /\ Framed(msg') = <<msg'>>
                          /\ parse_msg_body(msg', << <<"before">> >>) = <<Meant(typed)>>
      OBVIOUS
    <3>2. msg' = create_msg("N_SEND_WORD", <<input>>)
      BY <2>2, <3>1
         DEF Next, ServerCommand, ServerGone, NoKey, KeyDropped, Enter, Backspace, MoreKeys,
             TypeLetter, Draw, Over
    <3>3. input = Meant(typed) /\ input \in Seq(Letter)
      BY <1>1, <3>1 DEF IInv, LineIsMeant
    <3>4. LET sent == create_msg("N_SEND_WORD", <<input>>)
          IN  /\ Framed(sent) = <<sent>>
              /\ parse_msg_body(sent, << <<"before">> >>) = <<input>>
      BY <3>1, <3>3, PlainIsSent
    <3> QED
      BY <3>2, <3>3, <3>4
  <2> QED
    BY <1>1, <2>1, <2>2
<1> QED
  BY <1>1, Inductive, PTL DEF Spec, EnteredIsMeant

(* A letter on a line whose index is below zero makes the line empty, with *)
(* its index at zero: a letter is lost, however far below zero the index   *)
(* was, and no more than one.                                              *)
THEOREM OneLetterIsLost == Spec => StrayBackspacesCostOneLetter
<1> DEFINE Lost ==
      input_len < 0 /\ typed' # typed /\ typed' # <<>> /\ Last(typed') # BACKSPACE
        => input_len' = 0
<1>1. ASSUME IInv, [Next]_vars PROVE [Lost]_vars
  <2>1. CASE UNCHANGED vars
    BY <2>1
  <2>2. CASE Next /\ vars' # vars
    <3>1. SUFFICES ASSUME input_len < 0, typed' # typed, typed' # <<>>,
                          Last(typed') # BACKSPACE
                   PROVE  input_len' = 0
      OBVIOUS
    <3>2. typed \in Seq(PressedKey) /\ input_len \in Int /\ INPUT_SIZE \in Nat \ {0, 1}
      BY <1>1, ClientAssumption DEF IInv, LineIsMeant
    <3>3. ~Backspace
      <4>1. SUFFICES ASSUME Backspace PROVE FALSE
        OBVIOUS
      <4>2. typed' = Append(typed, BACKSPACE) /\ BACKSPACE \in PressedKey
        BY <4>1 DEF Backspace, MoreKeys, PressedKey
      <4>3. Last(typed') = BACKSPACE
        BY <3>2, <4>2 DEF Last
      <4> QED
        BY <3>1, <4>3
    <3>4. PICK letter \in Letter : TypeLetter(letter)
      BY <2>2, <3>1, <3>3
         DEF Next, ServerCommand, ServerGone, NoKey, KeyDropped, Enter, Draw, Over, line, vars
    <3>5. CASE Overflows(input_len + 1)
      BY <3>4, <3>5 DEF TypeLetter
    <3>6. CASE ~Overflows(input_len + 1)
      BY <3>1, <3>2, <3>4, <3>6 DEF TypeLetter, Overflows
    <3> QED
      BY <3>5, <3>6
  <2> QED
    BY <1>1, <2>1, <2>2
<1> QED
  BY <1>1, Inductive, PTL DEF Spec, StrayBackspacesCostOneLetter

(* The list on the heap is AlertBoard's, in every step of the program      *)
(* before more alerts were alive than glibc hands out again in reverse     *)
(* order and before a frame was skewed: create_alert() puts the new alert  *)
(* in front, and update_alerts(), which walks on from freed alerts, takes  *)
(* down those whose time is over and no other.                             *)
THEOREM AlertsAreShown == Spec => ShowsTheBoard
<1>1. Init => Board!BoardInit
  <2>1. SUFFICES ASSUME Init PROVE Shown = <<>>
    BY DEF Board!BoardInit
  <2>2. IInv /\ ~crowded /\ alerts = NULL
    BY <2>1, InitHolds DEF Init
  <2>3. Linked(Follow, alerts, chunk, tcache)
    BY <2>2 DEF IInv, Tidy
  <2>4. Len(Follow) = 0
    BY <2>2, <2>3, PlaceFacts, FollowIsOfChunks DEF Linked
  <2> QED
    BY <2>4 DEF Shown
<1>2. IInv /\ [Next]_vars => [crowded' \/ LastingAlerts \/ Board!BoardNext]_Shown
  BY NextHolds DEF OnTheBoard
<1> QED
  BY <1>1, <1>2, Inductive, PTL DEF Spec, ShowsTheBoard
=============================================================================
