------------------------------ MODULE WordLists ------------------------------
(***************************************************************************)
(* The word list on its way through two programs.  The generator           *)
(* (word_substr_generator/substr_list_generator.c) counts the substrings   *)
(* of its words and writes those that are frequent to a file.  The server  *)
(* (word_validator.c, called by game_init() of server_logic.c) loads that  *)
(* file and the words, and then asks for words that contain a substring.   *)
(* Files are sequences of characters, read by fgets() with its limits.     *)
(***************************************************************************)
EXTENDS WordSet, SequencesExt

CONSTANTS
  NL, CR,
  ALPHABET,               \* the letters, as a sequence
  File,                   \* word lists
  OCCURENCES_THRESHOLD,
  COUNT_BUCKETS,          \* buckets of the generator's table
  COUNT_LINE_LEN,         \* the generator's MAX_WORD_LEN
  MAX_WORD_LEN            \* the server's

ASSUME WordListAssumption ==
  /\ ALPHABET \in Seq(Range(ALPHABET))
  /\ NL # CR /\ {NL, CR} \cap Range(ALPHABET) = {}
  /\ File \subseteq Seq(Range(ALPHABET) \cup {NL, CR})
  /\ OCCURENCES_THRESHOLD \in Nat \ {0}
  /\ COUNT_BUCKETS \in Nat \ {0}
  /\ COUNT_LINE_LEN \in Nat \ {0, 1}
  /\ MAX_WORD_LEN \in Nat \ {0, 1}

VARIABLES
  wordlist,       \* the file wordlist2.txt
  stage,          \* how far the two programs are
  unread,         \* what the open file still holds
  substr_set,     \* the generator's table
  substr_list,    \* the file substr_list.txt
  substrs,        \* the server's list of substrings
  word_set,       \* the server's table
  required_substr,
  fault

vars == <<wordlist, stage, unread, substr_set, substr_list, substrs, word_set,
          required_substr, fault>>

NoSubstr == "none"

Init ==
  /\ wordlist \in File
  /\ stage = "count"
  /\ unread = wordlist
  /\ substr_set = set_create(COUNT_BUCKETS)
  /\ substr_list = <<>>
  /\ substrs = <<>>
  /\ word_set = set_create(0)
  /\ required_substr = NoSubstr
  /\ fault = "none"

----------------------------------------------------------------------------
(* Reading *)

Places(text, char) == {i \in 1 .. Len(text) : text[i] = char}

lines(text) == Cardinality(Places(text, NL))

(* fgets(): up to the newline, the end of the file, or the buffer's size   *)
(* but one.                                                                *)
fgets(text, size) ==
  SubSeq(text, 1, Min(Places(text, NL) \cup {Len(text), size - 1}))

After(text, size) == SubSeq(text, Len(fgets(text, size)) + 1, Len(text))

NoTail(str, char) == IF str # <<>> /\ Last(str) = char THEN Front(str) ELSE str

(* First the newline goes, then the carriage return. *)
Trim(str) == NoTail(NoTail(str, NL), CR)

----------------------------------------------------------------------------
(* The generator *)

\* MUTANT: the last substring of a word is counted too.
UpToTheEnd(word, k) == [i \in 1 .. Len(word) - k + 1 |-> SubSeq(word, i, i + k - 1)]

(* The substrings of k letters, but for the one at the end of the word.    *)
SubstrsOf(word, k) == [i \in 1 .. Len(word) - k |-> SubSeq(word, i, i + k - 1)]

get_substrs_from_word(s, word, k) ==
  LET inserted[n \in 0 .. Len(SubstrsOf(word, k))] ==
        IF n = 0 THEN s ELSE c_set_insert(inserted[n - 1], SubstrsOf(word, k)[n])
  IN  IF Len(word) < k THEN s ELSE inserted[Len(SubstrsOf(word, k))]

CountWord ==
  /\ stage = "count"
  /\ unread # <<>>
  /\ LET word == Trim(fgets(unread, COUNT_LINE_LEN))
     IN  substr_set' = get_substrs_from_word(get_substrs_from_word(substr_set, word, 2), word, 3)
  /\ unread' = After(unread, COUNT_LINE_LEN)
  /\ UNCHANGED <<wordlist, stage, substr_list, substrs, word_set, required_substr, fault>>

(* All strings of two letters and then all of three, in the order of the   *)
(* nested loops.                                                           *)
LetterAt(i) == ALPHABET[(i % Len(ALPHABET)) + 1]

Candidates ==
  LET m == Len(ALPHABET)
  IN  [n \in 1 .. m * m |-> <<LetterAt((n - 1) \div m), LetterAt(n - 1)>>]
        \o [n \in 1 .. m * m * m |->
              <<LetterAt((n - 1) \div (m * m)), LetterAt((n - 1) \div m), LetterAt(n - 1)>>]

\* MUTANT: a substring is listed if it was ever seen or not.
ListedAnyway(str) == c_set_get_count(substr_set, str) >= 0

Listed(str) == c_set_get_count(substr_set, str) >= OCCURENCES_THRESHOLD

WriteList ==
  /\ stage = "count"
  /\ unread = <<>>
  /\ LET written[n \in 0 .. Len(Candidates)] ==
           IF n = 0 THEN <<>>
           ELSE IF Listed(Candidates[n]) THEN written[n - 1] \o Append(Candidates[n], NL)
           ELSE written[n - 1]
     IN  substr_list' = written[Len(Candidates)]
  /\ unread' = substr_list'
  /\ stage' = "load_substrs"
  /\ UNCHANGED <<wordlist, substr_set, substrs, word_set, required_substr, fault>>

----------------------------------------------------------------------------
(* The server *)

\* MUTANT: room for a substring and its zero, and none for the newline.
RoomForThree == 4

SUBSTR_LINE_LEN == 5

LoadSubstr ==
  /\ stage = "load_substrs" /\ fault = "none"
  /\ unread # <<>>
  /\ IF Last(fgets(unread, SUBSTR_LINE_LEN)) = NL
       THEN /\ substrs' = Append(substrs, Front(fgets(unread, SUBSTR_LINE_LEN)))
            /\ unread' = After(unread, SUBSTR_LINE_LEN)
            /\ UNCHANGED fault
       ELSE /\ fault' = "no_newline"   \* strchr() finds none
            /\ UNCHANGED <<substrs, unread>>
  /\ UNCHANGED <<wordlist, stage, substr_set, substr_list, word_set, required_substr>>

(* initialize_wordlist() counts the lines to know how many buckets it      *)
(* needs.                                                                  *)
OpenWordlist ==
  /\ stage = "load_substrs" /\ fault = "none"
  /\ unread = <<>>
  /\ stage' = "load_words"
  /\ unread' = wordlist
  /\ word_set' = set_create((lines(wordlist) * 13) \div 10)
  /\ UNCHANGED <<wordlist, substr_set, substr_list, substrs, required_substr, fault>>

(* The remainder of a division by no buckets ends the server. *)
LoadWord ==
  /\ stage = "load_words" /\ fault = "none"
  /\ unread # <<>>
  /\ IF word_set.bucket_num = 0
       THEN /\ fault' = "division"
            /\ UNCHANGED <<word_set, unread>>
       ELSE /\ word_set' = set_insert(word_set, Trim(fgets(unread, MAX_WORD_LEN)))
            /\ unread' = After(unread, MAX_WORD_LEN)
            /\ UNCHANGED fault
  /\ UNCHANGED <<wordlist, stage, substr_set, substr_list, substrs, required_substr>>

WordsLoaded ==
  /\ stage = "load_words" /\ fault = "none"
  /\ unread = <<>>
  /\ stage' = "game"
  /\ UNCHANGED <<wordlist, unread, substr_set, substr_list, substrs, word_set,
                 required_substr, fault>>

(* rand() % substrs_len *)
get_random_required_substr ==
  /\ stage = "game" /\ fault = "none"
  /\ IF substrs = <<>>
       THEN /\ fault' = "division"
            /\ UNCHANGED required_substr
       ELSE /\ \E index \in 1 .. Len(substrs) : required_substr' = substrs[index]
            /\ UNCHANGED fault
  /\ UNCHANGED <<wordlist, stage, unread, substr_set, substr_list, substrs, word_set>>

strstr(word, substr) ==
  \E i \in 1 .. Len(word) - Len(substr) + 1 :
    SubSeq(word, i, i + Len(substr) - 1) = substr

word_is_valid(word, substr) == strstr(word, substr) /\ set_contains(word_set, word)

Dead == fault # "none" /\ UNCHANGED vars

Next ==
  \/ CountWord
  \/ WriteList
  \/ LoadSubstr
  \/ OpenWordlist
  \/ LoadWord
  \/ WordsLoaded
  \/ get_random_required_substr
  \/ Dead

Spec == Init /\ [][Next]_vars

----------------------------------------------------------------------------
(* What the file says, without fgets(): its lines, by where they begin. *)
LineStarts == {i \in 1 .. Len(wordlist) : i = 1 \/ wordlist[i - 1] = NL}

LineEnd(start) ==
  CHOOSE end \in start .. Len(wordlist) :
    /\ end = Len(wordlist) \/ wordlist[end] = NL
    /\ \A i \in start .. end - 1 : wordlist[i] # NL

LineAt(start) == Trim(SubSeq(wordlist, start, LineEnd(start)))

WordsOfFile == {LineAt(start) : start \in LineStarts}

(* The lines fit both programs' buffers, with their newlines and carriage  *)
(* returns; a longer one is taken for several words, cut differently by    *)
(* the two.                                                                *)
LinesFit ==
  \A start \in LineStarts :
    Len(LineAt(start)) + 2 < COUNT_LINE_LEN /\ Len(LineAt(start)) + 2 < MAX_WORD_LEN

(* A table keeps each string once, in the bucket of its hash, and counts   *)
(* its strings.                                                            *)
TableOK(s) ==
  LET nodes == UNION {{<<b, i>> : i \in 1 .. Len(s.buckets[b])} : b \in DOMAIN s.buckets}
      Val(node) == s.buckets[node[1]][node[2]].val
  IN  /\ s.size = Cardinality(nodes)
      /\ \A node, other \in nodes : Val(node) = Val(other) => node = other
      /\ \A node \in nodes : Bucket(s, Val(node)) = node[1]

(* Every variable has its type, and both tables are tables. *)
TypeOK ==
  /\ stage \in {"count", "load_substrs", "load_words", "game"}
  /\ \A i \in 1 .. Len(substrs) : Len(substrs[i]) \in {2, 3}
  /\ fault \in {"none", "no_newline", "division"}
  /\ TableOK(substr_set)
  /\ TableOK(word_set)

(* The validator knows the words of the file and nothing else, whichever   *)
(* collide, are repeated, are empty or end in a carriage return.           *)
WordsAreTheLines ==
  stage = "game" /\ LinesFit =>
    /\ \A word \in WordsOfFile : set_contains(word_set, word)
    /\ word_set.size = Cardinality(WordsOfFile)

(* A substring's count is the number of places in the words where it       *)
(* occurs, other than at the end of one.                                   *)
Occurrences(str) ==
  {place \in LineStarts \X (1 .. Len(wordlist)) :
     LET word == LineAt(place[1])
     IN  /\ place[2] + Len(str) <= Len(word)
         /\ SubSeq(word, place[2], place[2] + Len(str) - 1) = str}

CountsAreOccurrences ==
  stage # "count" /\ LinesFit =>
    \A str \in Range(Candidates) :
      c_set_get_count(substr_set, str) = Cardinality(Occurrences(str))

(* The server can read what the generator wrote: each frequent substring   *)
(* once, in the order of the loops, and none of them overruns a buffer.    *)
Frequent ==
  LET picked[n \in 0 .. Len(Candidates)] ==
        IF n = 0 THEN <<>>
        ELSE IF Listed(Candidates[n]) THEN Append(picked[n - 1], Candidates[n])
        ELSE picked[n - 1]
  IN  picked[Len(Candidates)]

SubstrsAreTheFrequent ==
  /\ fault # "no_newline"
  /\ stage = "game" => substrs = Frequent

(* Nobody loses a heart to a substring that is in no word: whatever is     *)
(* asked for, the validator accepts some word of the file.                 *)
EverySubstrHasAnAnswer ==
  required_substr # NoSubstr /\ LinesFit =>
    \E word \in WordsOfFile : word_is_valid(word, required_substr)
=============================================================================
