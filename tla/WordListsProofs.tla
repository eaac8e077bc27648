--------------------------- MODULE WordListsProofs ---------------------------
(***************************************************************************)
(* For every word list, alphabet, threshold and size of the tables and     *)
(* buffers, and for every hash: the tables are tables, the counts count,   *)
(* the list of substrings is read as it was written, and what is asked for *)
(* is in a word of the list.                                               *)
(***************************************************************************)
EXTENDS WordLists, OrderFacts, SequenceTheorems

Char == Range(ALPHABET) \cup {NL, CR}
Str == Seq(Char)

(* djb2_hash() returns an unsigned long, whatever string it is given. *)
HashIsANumber == \A str \in Str : djb2_hash(str) \in Nat

----------------------------------------------------------------------------
(* Tables *)

Node == [val : Str, count : Nat \ {0}]

Contents(s) ==
  UNION {{s.buckets[b][i].val : i \in 1 .. Len(s.buckets[b])} : b \in 0 .. s.bucket_num - 1}

(* TableOK() and the types it needs, said of the strings. *)
Table(s) ==
  /\ s = [size |-> s.size, bucket_num |-> s.bucket_num, buckets |-> s.buckets]
  /\ s.bucket_num \in Nat
  /\ s.buckets \in [0 .. s.bucket_num - 1 -> Seq(Node)]
  /\ \A b \in 0 .. s.bucket_num - 1 : \A i, j \in 1 .. Len(s.buckets[b]) :
       /\ Bucket(s, s.buckets[b][i].val) = b
       /\ s.buckets[b][i].val = s.buckets[b][j].val => i = j
  /\ IsFiniteSet(Contents(s))
  /\ s.size = Cardinality(Contents(s))

----------------------------------------------------------------------------
(* The invariant *)

(* How much of the word list the program that reads it has read. *)
Position == Len(wordlist) - Len(unread)

(* What is unread is the rest of the file, and begins with a line. *)
Reading ==
  stage # "load_substrs" =>
    /\ Len(unread) <= Len(wordlist)
    /\ unread = SubSeq(wordlist, Position + 1, Len(wordlist))
    /\ LinesFit /\ unread # <<>> => Position + 1 \in LineStarts

Started(p) == {start \in LineStarts : start <= p}

(* Occurrences in the lines that begin among the first p characters. *)
OccurrencesTo(str, p) == {place \in Occurrences(str) : place[1] <= p}

Counted ==
  LinesFit =>
    \A str \in Range(Candidates) :
      c_set_get_count(substr_set, str)
        = Cardinality(OccurrencesTo(str, IF stage = "count" THEN Position ELSE Len(wordlist)))

(* The list after n candidates: as it is written, and as it is read. *)
Writes(f) ==
  f = [n \in 0 .. Len(Candidates) |->
         IF n = 0 THEN <<>>
         ELSE IF Listed(Candidates[n]) THEN f[n - 1] \o Append(Candidates[n], NL)
         ELSE f[n - 1]]

Picks(f) ==
  f = [n \in 0 .. Len(Candidates) |->
         IF n = 0 THEN <<>>
         ELSE IF Listed(Candidates[n]) THEN Append(f[n - 1], Candidates[n])
         ELSE f[n - 1]]

Written == CHOOSE f : Writes(f)
Picked == CHOOSE f : Picks(f)

Rest(n) == SubSeq(Written[Len(Candidates)], Len(Written[n]) + 1, Len(Written[Len(Candidates)]))

ListIsRead ==
  stage = "load_substrs" =>
    \E n \in 0 .. Len(Candidates) : unread = Rest(n) /\ substrs = Picked[n]

SubstrsAreListed ==
  /\ stage = "count" => substrs = <<>>
  /\ substrs \in Seq(Range(Candidates))
  /\ stage # "count" => \A i \in 1 .. Len(substrs) : Listed(substrs[i])
  /\ stage \in {"load_words", "game"} => substrs = Picked[Len(Candidates)]
  /\ required_substr # NoSubstr => stage = "game" /\ required_substr \in Range(substrs)

WordsSoFar ==
  stage \in {"load_words", "game"} =>
    /\ LinesFit => Contents(word_set) = {LineAt(start) : start \in Started(Position)}
    /\ Position > 0 => word_set.bucket_num > 0
    /\ stage = "game" => unread = <<>>

IInv ==
  /\ stage \in {"count", "load_substrs", "load_words", "game"}
  /\ fault \in {"none", "division"}
  /\ wordlist \in File
  /\ unread \in Str
  /\ Table(substr_set) /\ substr_set.bucket_num > 0
  /\ Table(word_set)
  /\ Reading
  /\ Counted
  /\ ListIsRead
  /\ SubstrsAreListed
  /\ WordsSoFar

----------------------------------------------------------------------------
(* Lemmas about tables *)

LEMMA NewTable ==
  ASSUME NEW n \in Nat
  PROVE  /\ Table(set_create(n)) /\ set_create(n).bucket_num = n
         /\ Contents(set_create(n)) = {}
<1> DEFINE s == set_create(n)
<1>1. /\ s = [size |-> 0, bucket_num |-> n, buckets |-> [b \in 0 .. n - 1 |-> <<>>]]
      /\ s.size = 0 /\ s.bucket_num = n /\ s.buckets = [b \in 0 .. n - 1 |-> <<>>]
  BY DEF set_create
<1>2. \A b \in 0 .. n - 1 : s.buckets[b] = <<>> /\ 1 .. Len(s.buckets[b]) = {}
  BY <1>1
<1> HIDE DEF s
<1>3. Contents(s) = {}
  BY <1>1, <1>2 DEF Contents
<1>4. IsFiniteSet(Contents(s)) /\ Cardinality(Contents(s)) = 0
  BY <1>3, FS_EmptySet
<1>5. s.buckets \in [0 .. n - 1 -> Seq(Node)]
  <2>1. <<>> \in Seq(Node)
    OBVIOUS
  <2> QED
    BY <1>1, <2>1
<1> QED
  BY <1>1, <1>2, <1>3, <1>4, <1>5 DEF Table, s

LEMMA BucketInRange ==
  ASSUME HashIsANumber, NEW s, Table(s), s.bucket_num > 0, NEW str \in Str
  PROVE  /\ Bucket(s, str) \in 0 .. s.bucket_num - 1
         /\ Chain(s, str) = s.buckets[Bucket(s, str)]
         /\ Chain(s, str) \in Seq(Node)
<1>1. djb2_hash(str) \in Nat /\ s.bucket_num \in Nat \ {0}
  BY DEF HashIsANumber, Table
<1>2. Bucket(s, str) \in 0 .. s.bucket_num - 1
  BY <1>1 DEF Bucket
<1> QED
  BY <1>2 DEF Chain, Table

LEMMA ContentsAreStrings ==
  ASSUME NEW s, Table(s), NEW str \in Contents(s)
  PROVE  /\ str \in Str
         /\ \E b \in 0 .. s.bucket_num - 1 : \E i \in 1 .. Len(s.buckets[b]) :
              s.buckets[b][i].val = str
<1>1. PICK b \in 0 .. s.bucket_num - 1 : \E i \in 1 .. Len(s.buckets[b]) :
        s.buckets[b][i].val = str
  BY DEF Contents
<1>2. PICK i \in 1 .. Len(s.buckets[b]) : s.buckets[b][i].val = str
  BY <1>1
<1>3. s.buckets[b] \in Seq(Node)
  BY DEF Table
<1>4. s.buckets[b][i] \in Node
  BY <1>3
<1> QED
  BY <1>1, <1>2, <1>4 DEF Node

(* A string that is there is found in the bucket of its hash. *)
LEMMA ContainedIsInContents ==
  ASSUME HashIsANumber, NEW s, Table(s), s.bucket_num > 0, NEW str \in Str
  PROVE  set_contains(s, str) <=> str \in Contents(s)
<1> DEFINE b == Bucket(s, str)
<1>1. b \in 0 .. s.bucket_num - 1 /\ Chain(s, str) = s.buckets[b]
  BY BucketInRange
<1>2. ASSUME set_contains(s, str) PROVE str \in Contents(s)
  <2>1. PICK i \in 1 .. Len(Chain(s, str)) : Chain(s, str)[i].val = str
    BY <1>2 DEF set_contains, NodesOf
  <2> QED
    BY <1>1, <2>1 DEF Contents
<1>3. ASSUME str \in Contents(s) PROVE set_contains(s, str)
  <2>1. PICK c \in 0 .. s.bucket_num - 1 : \E i \in 1 .. Len(s.buckets[c]) :
          s.buckets[c][i].val = str
    BY <1>3 DEF Contents
  <2>2. PICK i \in 1 .. Len(s.buckets[c]) : s.buckets[c][i].val = str
    BY <2>1
  <2>3. Bucket(s, s.buckets[c][i].val) = c
    BY DEF Table
  <2>4. c = b
    BY <2>2, <2>3
  <2> QED
    BY <1>1, <2>2, <2>4 DEF set_contains, NodesOf
<1> QED
  BY <1>2, <1>3

(* A table is one as WordLists has it: its nodes and its strings are in    *)
(* one-to-one correspondence.                                              *)
LEMMA TableIsOK ==
  ASSUME NEW s, Table(s)
  PROVE  TableOK(s)
<1> DEFINE B == 0 .. s.bucket_num - 1
           nodes == UNION {{<<b, i>> : i \in 1 .. Len(s.buckets[b])} : b \in DOMAIN s.buckets}
           Val(node) == s.buckets[node[1]][node[2]].val
<1>1. DOMAIN s.buckets = B
  BY DEF Table
<1>2. ASSUME NEW node \in nodes
      PROVE  /\ node[1] \in B /\ node[2] \in 1 .. Len(s.buckets[node[1]])
             /\ node = <<node[1], node[2]>>
             /\ Bucket(s, Val(node)) = node[1]
             /\ Val(node) \in Contents(s)
  <2>1. PICK b \in B : node \in {<<b, i>> : i \in 1 .. Len(s.buckets[b])}
    BY <1>1
  <2>2. PICK i \in 1 .. Len(s.buckets[b]) : node = <<b, i>>
    BY <2>1
  <2>3. node[1] = b /\ node[2] = i
    BY <2>2
  <2>4. Bucket(s, s.buckets[b][i].val) = b
    BY DEF Table
  <2>5. s.buckets[b][i].val \in Contents(s)
    BY DEF Contents
  <2> QED
    BY <2>2, <2>3, <2>4, <2>5
<1>3. ASSUME NEW node \in nodes, NEW other \in nodes, Val(node) = Val(other)
      PROVE  node = other
  <2> DEFINE b == node[1]
             i == node[2]
             j == other[2]
  <2>1. /\ b \in B /\ i \in 1 .. Len(s.buckets[b]) /\ node = <<b, i>>
        /\ other[1] \in B /\ j \in 1 .. Len(s.buckets[other[1]]) /\ other = <<other[1], j>>
        /\ Bucket(s, Val(node)) = b /\ Bucket(s, Val(other)) = other[1]
    BY <1>2
  <2>2. other[1] = b
    BY <1>3, <2>1
  <2>3. s.buckets[b][i].val = s.buckets[b][j].val
    BY <1>3, <2>2
  <2>4. i = j
    BY <2>1, <2>2, <2>3 DEF Table
  <2> QED
    BY <2>1, <2>2, <2>4
<1>4. s.size = Cardinality(nodes)
  <2> DEFINE f == [node \in nodes |-> Val(node)]
  <2>1. f \in [nodes -> Contents(s)]
    BY <1>2
  <2>2. \A node, other \in nodes : f[node] = f[other] => node = other
    BY <1>3
  <2>3. \A str \in Contents(s) : \E node \in nodes : f[node] = str
    <3>1. TAKE str \in Contents(s)
    <3>2. PICK b \in B : \E i \in 1 .. Len(s.buckets[b]) : s.buckets[b][i].val = str
      BY ContentsAreStrings
    <3>3. PICK i \in 1 .. Len(s.buckets[b]) : s.buckets[b][i].val = str
      BY <3>2
    <3>4. <<b, i>> \in nodes /\ Val(<<b, i>>) = str
      BY <1>1, <3>3
    <3> HIDE DEF nodes, Val
    <3> QED
      BY <3>4
  <2>4. f \in Injection(nodes, Contents(s)) /\ f \in Surjection(nodes, Contents(s))
    <3>1. DOMAIN f = nodes
      OBVIOUS
    <3> HIDE DEF f, nodes
    <3> QED
      BY <2>1, <2>2, <2>3, <3>1 DEF Injection, IsInjective, Surjection
  <2> HIDE DEF f, nodes
  <2>5. Cardinality(nodes) = Cardinality(Contents(s))
    BY <2>4, FS_Injection DEF Table
  <2> QED
    BY <2>5 DEF Table
<1> QED
  BY <1>2, <1>3, <1>4 DEF TableOK

(* What is in a table is in the chain of its hash, once, with its count.   *)
LEMMA CountOfNode ==
  ASSUME HashIsANumber, NEW s, Table(s), s.bucket_num > 0, NEW str \in Str,
         NEW i \in 1 .. Len(Chain(s, str)), Chain(s, str)[i].val = str
  PROVE  /\ NodesOf(s, str) = {i}
         /\ set_contains(s, str)
         /\ c_set_get_count(s, str) = Chain(s, str)[i].count
<1>1. /\ Bucket(s, str) \in 0 .. s.bucket_num - 1
      /\ Chain(s, str) = s.buckets[Bucket(s, str)]
  BY BucketInRange
<1>2. \A j \in 1 .. Len(Chain(s, str)) : Chain(s, str)[j].val = str => j = i
  BY <1>1 DEF Table
<1>3. NodesOf(s, str) = {i}
  BY <1>2 DEF NodesOf
<1>4. (CHOOSE k \in NodesOf(s, str) : \A j \in NodesOf(s, str) : k <= j) = i
  <2>1. i <= i
    OBVIOUS
  <2> QED
    BY <1>3, <2>1
<1>5. set_contains(s, str)
  BY <1>3 DEF set_contains
<1> QED
  BY <1>3, <1>4, <1>5 DEF c_set_get_count

(* Putting a node in front of a chain. *)
LEMMA FirstOfChain ==
  ASSUME NEW chain \in Seq(Node), NEW node \in Node
  PROVE  LET longer == <<node>> \o chain
         IN  /\ longer \in Seq(Node) /\ Len(longer) = Len(chain) + 1
             /\ longer[1] = node
             /\ \A i \in 1 .. Len(chain) : longer[i + 1] = chain[i]
             /\ \A i \in 2 .. Len(longer) : i - 1 \in 1 .. Len(chain) /\ longer[i] = chain[i - 1]
<1>1. <<node>> \in Seq(Node) /\ Len(<<node>>) = 1 /\ <<node>>[1] = node
  OBVIOUS
<1> DEFINE one == <<node>>
           longer == one \o chain
<1>2. one \in Seq(Node) /\ Len(one) = 1 /\ one[1] = node
  BY <1>1
<1> HIDE DEF one
<1>3. /\ longer \in Seq(Node) /\ Len(longer) = Len(one) + Len(chain)
      /\ \A i \in 1 .. Len(one) + Len(chain) :
           longer[i] = IF i <= Len(one) THEN one[i] ELSE chain[i - Len(one)]
  BY <1>2, ConcatProperties
<1> HIDE DEF longer
<1>4. Len(chain) \in Nat
  OBVIOUS
<1>5. longer \in Seq(Node) /\ Len(longer) = Len(chain) + 1 /\ longer[1] = node
  BY <1>2, <1>3, <1>4
<1>6. \A i \in 1 .. Len(chain) : longer[i + 1] = chain[i]
  <2>1. TAKE i \in 1 .. Len(chain)
  <2>2. i + 1 \in 1 .. Len(one) + Len(chain) /\ ~(i + 1 <= Len(one)) /\ (i + 1) - Len(one) = i
    BY <1>2, <1>4
  <2> QED
    BY <1>3, <2>2
<1>7. \A i \in 2 .. Len(longer) : i - 1 \in 1 .. Len(chain) /\ longer[i] = chain[i - 1]
  <2>1. TAKE i \in 2 .. Len(longer)
  <2>2. i - 1 \in 1 .. Len(chain) /\ (i - 1) + 1 = i
    BY <1>4, <1>5
  <2> QED
    BY <1>6, <2>2
<1> QED
  BY <1>5, <1>6, <1>7 DEF longer, one

LEMMA AddingANode ==
  ASSUME HashIsANumber, NEW s, Table(s), s.bucket_num > 0, NEW str \in Str,
         ~set_contains(s, str)
  PROVE  LET r == AddNode(s, str)
         IN  /\ Table(r) /\ r.bucket_num = s.bucket_num
             /\ Contents(r) = Contents(s) \cup {str}
             /\ \A t \in Str : c_set_get_count(r, t) =
                                 IF t = str THEN 1 ELSE c_set_get_count(s, t)
<1> DEFINE r == AddNode(s, str)
           b == Bucket(s, str)
           B == 0 .. s.bucket_num - 1
           node == [val |-> str, count |-> 1]
           longer == <<node>> \o s.buckets[b]
<1>1. b \in B /\ Chain(s, str) = s.buckets[b] /\ s.buckets[b] \in Seq(Node)
  BY BucketInRange
<1>2. node \in Node /\ node.val = str /\ node.count = 1
  BY DEF Node
<1>3. /\ longer \in Seq(Node) /\ Len(longer) = Len(s.buckets[b]) + 1
      /\ longer[1] = node
      /\ \A i \in 1 .. Len(s.buckets[b]) : longer[i + 1] = s.buckets[b][i]
      /\ \A i \in 2 .. Len(longer) :
           i - 1 \in 1 .. Len(s.buckets[b]) /\ longer[i] = s.buckets[b][i - 1]
  <2> HIDE DEF node, b
  <2> QED
    BY <1>1, <1>2, FirstOfChain
<1>4. /\ r = [size |-> r.size, bucket_num |-> r.bucket_num, buckets |-> r.buckets]
      /\ r.size = s.size + 1 /\ r.bucket_num = s.bucket_num
      /\ r.buckets = [s.buckets EXCEPT ![b] = longer]
  <2>1. s = [size |-> s.size, bucket_num |-> s.bucket_num, buckets |-> s.buckets]
    BY DEF Table
  <2>2. r = [s EXCEPT !.size = s.size + 1, !.buckets = [s.buckets EXCEPT ![b] = longer]]
    BY DEF AddNode
  <2> HIDE DEF r, longer, b
  <2> QED
    BY <2>1, <2>2
<1>5. s.buckets \in [B -> Seq(Node)] /\ s.bucket_num \in Nat
  BY DEF Table
<1>6. /\ r.buckets \in [B -> Seq(Node)]
      /\ r.buckets[b] = longer
      /\ \A c \in B : c # b => r.buckets[c] = s.buckets[c]
  <2> HIDE DEF longer, b, r
  <2> QED
    BY <1>1, <1>3, <1>4, <1>5
<1>7. \A t : Bucket(r, t) = Bucket(s, t)
  BY <1>4 DEF Bucket
<1> HIDE DEF r, longer, node
<1>8. \A t \in Contents(s) : t # str
  BY ContainedIsInContents
<1>9. Contents(r) = Contents(s) \cup {str}
  <2>1. ASSUME NEW t \in Contents(r) PROVE t \in Contents(s) \cup {str}
    <3>1. PICK c \in B : \E i \in 1 .. Len(r.buckets[c]) : r.buckets[c][i].val = t
      BY <1>4 DEF Contents
    <3>2. PICK i \in 1 .. Len(r.buckets[c]) : r.buckets[c][i].val = t
      BY <3>1
    <3>3. CASE c # b
      <4>1. r.buckets[c] = s.buckets[c]
        BY <1>6, <3>3
      <4>2. i \in 1 .. Len(s.buckets[c]) /\ s.buckets[c][i].val = t
        BY <3>2, <4>1
      <4>3. t \in {s.buckets[c][j].val : j \in 1 .. Len(s.buckets[c])}
        BY <4>2
      <4> QED
        BY <4>3 DEF Contents
    <3>4. CASE c = b /\ i = 1
      BY <1>2, <1>3, <1>6, <3>2, <3>4
    <3>5. CASE c = b /\ i # 1
      <4>1. i \in 2 .. Len(longer)
        BY <1>3, <1>6, <3>5
      <4>2. i - 1 \in 1 .. Len(s.buckets[b]) /\ s.buckets[b][i - 1].val = t
        BY <1>3, <1>6, <3>2, <3>5, <4>1
      <4>3. \E j \in 1 .. Len(s.buckets[b]) : t = s.buckets[b][j].val
        BY ONLY <4>2
      <4> QED
        BY <1>1, <4>3 DEF Contents
    <3> QED
      BY <3>3, <3>4, <3>5
  <2>2. str \in Contents(r)
    <3>1. 1 \in 1 .. Len(r.buckets[b]) /\ r.buckets[b][1].val = str
      BY <1>1, <1>2, <1>3, <1>6
    <3> QED
      BY <1>1, <1>4, <3>1 DEF Contents
  <2>3. ASSUME NEW t \in Contents(s) PROVE t \in Contents(r)
    <3>1. PICK c \in B : \E i \in 1 .. Len(s.buckets[c]) : s.buckets[c][i].val = t
      BY DEF Contents
    <3>2. PICK i \in 1 .. Len(s.buckets[c]) : s.buckets[c][i].val = t
      BY <3>1
    <3>3. CASE c # b
      BY <1>4, <1>6, <3>2, <3>3 DEF Contents
    <3>4. CASE c = b
      <4>1. i + 1 \in 1 .. Len(longer) /\ longer[i + 1].val = t
        BY <1>1, <1>3, <3>2, <3>4
      <4> QED
        BY <1>1, <1>4, <1>6, <4>1 DEF Contents
    <3> QED
      BY <3>3, <3>4
  <2> QED
    BY <2>1, <2>2, <2>3
<1>10. \A c \in B : \A i, j \in 1 .. Len(r.buckets[c]) :
         /\ Bucket(r, r.buckets[c][i].val) = c
         /\ r.buckets[c][i].val = r.buckets[c][j].val => i = j
  <2>1. TAKE c \in B
  <2>2. TAKE i, j \in 1 .. Len(r.buckets[c])
  <2>3. CASE c # b
    BY <1>6, <1>7, <2>3 DEF Table
  <2>4. CASE c = b
    <3>1. \A k \in 2 .. Len(longer) :
            /\ k - 1 \in 1 .. Len(s.buckets[b])
            /\ longer[k].val = s.buckets[b][k - 1].val
            /\ longer[k].val \in Contents(s)
            /\ Bucket(s, longer[k].val) = b
      <4>1. TAKE k \in 2 .. Len(longer)
      <4>2. k - 1 \in 1 .. Len(s.buckets[b]) /\ longer[k].val = s.buckets[b][k - 1].val
        BY <1>3
      <4>3. Bucket(s, s.buckets[b][k - 1].val) = b
        BY <1>1, <4>2 DEF Table
      <4> QED
        BY <1>1, <4>2, <4>3 DEF Contents
    <3>2. \A k \in 1 .. Len(longer) : k = 1 \/ k \in 2 .. Len(longer)
      BY <1>1, <1>3
    <3>3. longer[1].val = str
      BY <1>2, <1>3
    <3>4. \A k \in 1 .. Len(longer) : Bucket(s, longer[k].val) = b
      BY <3>1, <3>2, <3>3
    <3>5. \A k \in 1 .. Len(longer) : longer[k].val = str => k = 1
      BY <1>8, <3>1, <3>2
    <3>6. ASSUME i \in 2 .. Len(longer), j \in 2 .. Len(longer), longer[i].val = longer[j].val
          PROVE  i = j
      <4>1. /\ i - 1 \in 1 .. Len(s.buckets[b]) /\ j - 1 \in 1 .. Len(s.buckets[b])
            /\ s.buckets[b][i - 1].val = s.buckets[b][j - 1].val
        BY <3>1, <3>6
      <4>2. \A k, l \in 1 .. Len(s.buckets[b]) :
              s.buckets[b][k].val = s.buckets[b][l].val => k = l
        BY <1>1 DEF Table
      <4>3. i - 1 = j - 1
        BY ONLY <4>1, <4>2
      <4> QED
        BY <3>6, <4>3
    <3>7. longer[i].val = longer[j].val => i = j
      BY <1>6, <2>2, <2>4, <3>2, <3>3, <3>5, <3>6
    <3> QED
      BY <1>6, <1>7, <2>2, <2>4, <3>4, <3>7
  <2> QED
    BY <2>3, <2>4
<1>11. IsFiniteSet(Contents(r)) /\ r.size = Cardinality(Contents(r))
  <2>1. IsFiniteSet(Contents(s)) /\ s.size = Cardinality(Contents(s))
    BY DEF Table
  <2>2. str \notin Contents(s)
    BY <1>8
  <2> QED
    BY <1>4, <1>9, <2>1, <2>2, FS_AddElement
<1>12. Table(r)
  BY <1>4, <1>5, <1>6, <1>10, <1>11 DEF Table
<1>13. ASSUME NEW t \in Str
       PROVE  c_set_get_count(r, t) = IF t = str THEN 1 ELSE c_set_get_count(s, t)
  <2>1. Bucket(s, t) \in B /\ Chain(s, t) = s.buckets[Bucket(s, t)]
    BY BucketInRange
  <2>2. Chain(r, t) = r.buckets[Bucket(s, t)]
    BY <1>7 DEF Chain
  <2>3. CASE t = str
    <3>1. 1 \in 1 .. Len(Chain(r, t)) /\ Chain(r, t)[1] = node
      BY <1>1, <1>3, <1>6, <2>2, <2>3
    <3> QED
      BY <1>2, <1>4, <1>12, <2>3, <3>1, CountOfNode
  <2>4. CASE t # str /\ ~set_contains(s, t)
    <3>1. t \notin Contents(r)
      BY <1>9, <2>4, ContainedIsInContents
    <3>2. ~set_contains(r, t)
      BY <1>4, <1>12, <3>1, ContainedIsInContents
    <3> QED
      BY <2>4, <3>2 DEF c_set_get_count
  <2>5. CASE t # str /\ set_contains(s, t)
    <3>1. PICK i \in 1 .. Len(Chain(s, t)) : Chain(s, t)[i].val = t
      BY <2>5 DEF set_contains, NodesOf
    <3>2. c_set_get_count(s, t) = Chain(s, t)[i].count
      BY <3>1, CountOfNode
    <3>3. \E k \in 1 .. Len(Chain(r, t)) : Chain(r, t)[k] = Chain(s, t)[i]
      <4>1. CASE Bucket(s, t) # b
        BY <1>6, <2>1, <2>2, <3>1, <4>1
      <4>2. CASE Bucket(s, t) = b
        <5>1. i + 1 \in 1 .. Len(longer) /\ longer[i + 1] = s.buckets[b][i]
          BY <1>1, <1>3, <2>1, <3>1, <4>2
        <5> QED
          BY <1>6, <2>1, <2>2, <4>2, <5>1
      <4> QED
        BY <4>1, <4>2
    <3>4. PICK k \in 1 .. Len(Chain(r, t)) : Chain(r, t)[k] = Chain(s, t)[i]
      BY <3>3
    <3>5. c_set_get_count(r, t) = Chain(r, t)[k].count
      BY <1>4, <1>12, <3>1, <3>4, CountOfNode
    <3> QED
      BY <2>5, <3>2, <3>4, <3>5
  <2> QED
    BY <2>3, <2>4, <2>5
<1> QED
  BY <1>4, <1>9, <1>12, <1>13 DEF r

LEMMA CountType ==
  ASSUME HashIsANumber, NEW s, Table(s), s.bucket_num > 0, NEW t \in Str
  PROVE  c_set_get_count(s, t) \in Nat
<1>1. CASE ~set_contains(s, t)
  BY <1>1 DEF c_set_get_count
<1>2. CASE set_contains(s, t)
  <2>1. PICK i \in 1 .. Len(Chain(s, t)) : Chain(s, t)[i].val = t
    BY <1>2 DEF set_contains, NodesOf
  <2>2. c_set_get_count(s, t) = Chain(s, t)[i].count
    BY <2>1, CountOfNode
  <2>3. Chain(s, t) \in Seq(Node)
    BY BucketInRange
  <2>4. Chain(s, t)[i] \in Node
    BY <2>3
  <2> QED
    BY <2>2, <2>4 DEF Node
<1> QED
  BY <1>1, <1>2

LEMMA CountingOneMore ==
  ASSUME HashIsANumber, NEW s, Table(s), s.bucket_num > 0, NEW str \in Str,
         set_contains(s, str)
  PROVE  LET r == c_set_insert(s, str)
         IN  /\ Table(r) /\ r.bucket_num = s.bucket_num
             /\ \A t \in Str : c_set_get_count(r, t) =
                                 c_set_get_count(s, t) + (IF t = str THEN 1 ELSE 0)
<1> DEFINE r == c_set_insert(s, str)
           b == Bucket(s, str)
           B == 0 .. s.bucket_num - 1
           old == s.buckets[b]
           new == CountUp(old, str)
<1>1. b \in B /\ Chain(s, str) = old /\ old \in Seq(Node)
  BY BucketInRange
<1>2. /\ r = [size |-> r.size, bucket_num |-> r.bucket_num, buckets |-> r.buckets]
      /\ r.size = s.size /\ r.bucket_num = s.bucket_num
      /\ r.buckets = [s.buckets EXCEPT ![b] = new]
  <2>1. s = [size |-> s.size, bucket_num |-> s.bucket_num, buckets |-> s.buckets]
    BY DEF Table
  <2>2. r = [s EXCEPT !.buckets = [s.buckets EXCEPT ![b] = new]]
    BY DEF c_set_insert
  <2> HIDE DEF r, new, b
  <2> QED
    BY <2>1, <2>2
<1>3. /\ new \in Seq(Node) /\ Len(new) = Len(old)
      /\ \A i \in 1 .. Len(old) :
           /\ new[i].val = old[i].val
           /\ new[i].count = old[i].count + (IF old[i].val = str THEN 1 ELSE 0)
  <2> HIDE DEF old
  <2>1. \A i \in 1 .. Len(old) :
          /\ new[i] \in Node
          /\ new[i].val = old[i].val
          /\ new[i].count = old[i].count + (IF old[i].val = str THEN 1 ELSE 0)
    <3>1. TAKE i \in 1 .. Len(old)
    <3>2. old[i] \in Node
      BY <1>1
    <3>3. CASE old[i].val = str
      <4>1. new[i] = [old[i] EXCEPT !.count = @ + 1]
        BY <3>3 DEF CountUp
      <4> HIDE DEF new
      <4> QED
        BY <3>2, <3>3, <4>1 DEF Node
    <3>4. CASE old[i].val # str
      <4>1. new[i] = old[i]
        BY <3>4 DEF CountUp
      <4> HIDE DEF new
      <4> QED
        BY <3>2, <3>4, <4>1 DEF Node
    <3> QED
      BY <3>3, <3>4
  <2>2. Len(old) \in Nat
    BY <1>1
  <2>3. new \in [1 .. Len(old) -> Node]
    BY <2>1 DEF CountUp
  <2> HIDE DEF new
  <2> QED
    BY <2>1, <2>2, <2>3
<1>4. s.buckets \in [B -> Seq(Node)] /\ s.bucket_num \in Nat
  BY DEF Table
<1> HIDE DEF new
<1>5. /\ r.buckets \in [B -> Seq(Node)]
      /\ r.buckets[b] = new
      /\ \A c \in B : c # b => r.buckets[c] = s.buckets[c]
  <2> HIDE DEF b, r
  <2> QED
    BY <1>1, <1>2, <1>3, <1>4
<1>6. \A t : Bucket(r, t) = Bucket(s, t)
  BY <1>2 DEF Bucket
<1> HIDE DEF r
<1>7. \A c \in B : /\ Len(r.buckets[c]) = Len(s.buckets[c])
                   /\ \A i \in 1 .. Len(s.buckets[c]) : r.buckets[c][i].val = s.buckets[c][i].val
  BY <1>1, <1>3, <1>5
<1>8. Contents(r) = Contents(s)
  <2>1. \A t : t \in Contents(r) <=> \E c \in B : \E i \in 1 .. Len(r.buckets[c]) :
                                       r.buckets[c][i].val = t
    BY <1>2 DEF Contents
  <2>2. \A t : t \in Contents(s) <=> \E c \in B : \E i \in 1 .. Len(s.buckets[c]) :
                                       s.buckets[c][i].val = t
    BY DEF Contents
  <2>3. ASSUME NEW t, t \in Contents(r) PROVE t \in Contents(s)
    <3>1. PICK c \in B : \E i \in 1 .. Len(r.buckets[c]) : r.buckets[c][i].val = t
      BY <2>1, <2>3
    <3> QED
      BY <1>7, <2>2, <3>1
  <2>4. ASSUME NEW t, t \in Contents(s) PROVE t \in Contents(r)
    <3>1. PICK c \in B : \E i \in 1 .. Len(s.buckets[c]) : s.buckets[c][i].val = t
      BY <2>2, <2>4
    <3> QED
      BY <1>7, <2>1, <3>1
  <2> QED
    BY <2>3, <2>4
<1>9. Table(r)
  <2>1. \A c \in B : \A i, j \in 1 .. Len(r.buckets[c]) :
          /\ Bucket(r, r.buckets[c][i].val) = c
          /\ r.buckets[c][i].val = r.buckets[c][j].val => i = j
    <3>1. TAKE c \in B
    <3>2. TAKE i, j \in 1 .. Len(r.buckets[c])
    <3>3. /\ i \in 1 .. Len(s.buckets[c]) /\ j \in 1 .. Len(s.buckets[c])
          /\ r.buckets[c][i].val = s.buckets[c][i].val
          /\ r.buckets[c][j].val = s.buckets[c][j].val
      BY <1>7
    <3>4. /\ Bucket(s, s.buckets[c][i].val) = c
          /\ s.buckets[c][i].val = s.buckets[c][j].val => i = j
      BY <3>3 DEF Table
    <3> QED
      BY ONLY <1>6, <3>3, <3>4
  <2>2. IsFiniteSet(Contents(r)) /\ r.size = Cardinality(Contents(r))
    BY <1>2, <1>8 DEF Table
  <2> QED
    BY <1>2, <1>4, <1>5, <2>1, <2>2 DEF Table
<1>10. ASSUME NEW t \in Str
       PROVE  c_set_get_count(r, t) = c_set_get_count(s, t) + (IF t = str THEN 1 ELSE 0)
  <2>1. Bucket(s, t) \in B /\ Chain(s, t) = s.buckets[Bucket(s, t)]
    BY BucketInRange
  <2>2. Chain(r, t) = r.buckets[Bucket(s, t)]
    BY <1>6 DEF Chain
  <2>3. CASE set_contains(s, t)
    <3>1. PICK i \in 1 .. Len(Chain(s, t)) : Chain(s, t)[i].val = t
      BY <2>3 DEF set_contains, NodesOf
    <3>2. i \in 1 .. Len(Chain(r, t)) /\ Chain(r, t)[i].val = t
      BY <1>7, <2>1, <2>2, <3>1
    <3>3. /\ c_set_get_count(s, t) = Chain(s, t)[i].count
          /\ c_set_get_count(r, t) = Chain(r, t)[i].count
      BY <1>2, <1>9, <3>1, <3>2, CountOfNode
    <3>4. Chain(s, t)[i].count \in Nat
      BY <3>3, CountType
    <3>5. CASE t = str
      <4>1. Chain(s, t)[i] = old[i] /\ Chain(r, t)[i] = new[i] /\ i \in 1 .. Len(old)
        BY <1>5, <1>1, <2>1, <2>2, <3>1, <3>5
      <4> QED
        BY <1>3, <3>1, <3>3, <3>5, <4>1
    <3>6. CASE t # str
      <4>1. Chain(r, t)[i].count = Chain(s, t)[i].count
        <5>1. CASE Bucket(s, t) = b
          <6>1. Chain(s, t)[i] = old[i] /\ Chain(r, t)[i] = new[i] /\ i \in 1 .. Len(old)
            BY <1>5, <1>1, <2>1, <2>2, <3>1, <5>1
          <6>2. old[i].val # str /\ old[i].count \in Nat
            BY <3>1, <3>4, <3>6, <6>1
          <6> QED
            BY <1>3, <6>1, <6>2
        <5>2. CASE Bucket(s, t) # b
          BY <1>5, <2>1, <2>2, <5>2
        <5> QED
          BY <5>1, <5>2
      <4> QED
        BY <3>3, <3>4, <3>6, <4>1
    <3> QED
      BY <3>5, <3>6
  <2>4. CASE ~set_contains(s, t)
    <3>1. ~set_contains(r, t)
      BY <1>2, <1>8, <1>9, <2>4, ContainedIsInContents
    <3>2. t # str
      BY <2>4
    <3> QED
      BY <2>4, <3>1, <3>2 DEF c_set_get_count
  <2> QED
    BY <2>3, <2>4
<1> QED
  BY <1>2, <1>9, <1>10 DEF r

(* counting_set.c counts, and set.c keeps, what is inserted.               *)
LEMMA CountingInsert ==
  ASSUME HashIsANumber, NEW s, Table(s), s.bucket_num > 0, NEW str \in Str
  PROVE  LET r == c_set_insert(s, str)
         IN  /\ Table(r) /\ r.bucket_num = s.bucket_num
             /\ \A t \in Str : c_set_get_count(r, t) =
                                 c_set_get_count(s, t) + (IF t = str THEN 1 ELSE 0)
<1>1. CASE set_contains(s, str)
  BY <1>1, CountingOneMore
<1>2. CASE ~set_contains(s, str)
  <2> DEFINE r == AddNode(s, str)
  <2>1. c_set_insert(s, str) = r
    BY <1>2 DEF c_set_insert
  <2>2. /\ Table(r) /\ r.bucket_num = s.bucket_num
        /\ \A t \in Str : c_set_get_count(r, t) =
                            IF t = str THEN 1 ELSE c_set_get_count(s, t)
    BY <1>2, AddingANode
  <2>3. c_set_get_count(s, str) = 0
    BY <1>2 DEF c_set_get_count
  <2>4. \A t \in Str : c_set_get_count(s, t) \in Nat
    BY CountType
  <2> HIDE DEF r
  <2>5. \A t \in Str : c_set_get_count(r, t) =
                         c_set_get_count(s, t) + (IF t = str THEN 1 ELSE 0)
    BY <2>2, <2>3, <2>4
  <2> QED
    BY <2>1, <2>2, <2>5
<1> QED
  BY <1>1, <1>2

LEMMA PlainInsert ==
  ASSUME HashIsANumber, NEW s, Table(s), s.bucket_num > 0, NEW str \in Str
  PROVE  LET r == set_insert(s, str)
         IN  /\ Table(r) /\ r.bucket_num = s.bucket_num
             /\ Contents(r) = Contents(s) \cup {str}
<1>1. CASE set_contains(s, str)
  <2>1. str \in Contents(s)
    BY <1>1, ContainedIsInContents
  <2> QED
    BY <1>1, <2>1 DEF set_insert
<1>2. CASE ~set_contains(s, str)
  BY <1>2, AddingANode DEF set_insert
<1> QED
  BY <1>1, <1>2

----------------------------------------------------------------------------
(* Counting the substrings of a word *)

LEMMA SubstringsAreStrings ==
  ASSUME NEW word \in Str, NEW k \in {2, 3}, Len(word) >= k
  PROVE  /\ Len(SubstrsOf(word, k)) = Len(word) - k
         /\ \A i \in 1 .. Len(word) - k :
              /\ SubstrsOf(word, k)[i] = SubSeq(word, i, i + k - 1)
              /\ SubSeq(word, i, i + k - 1) \in Str
<1>1. Len(word) - k \in Nat
  OBVIOUS
<1>2. \A i \in 1 .. Len(word) - k : SubSeq(word, i, i + k - 1) \in Str
  <2>1. TAKE i \in 1 .. Len(word) - k
  <2>1a. word \in Seq(Char) /\ Len(word) \in Nat
    BY DEF Str
  <2>2. \A j \in i .. i + k - 1 : j \in 1 .. Len(word)
    BY <1>1, <2>1a
  <2>3. i \in 1 .. Len(word) + 1 /\ i + k - 1 \in i - 1 .. Len(word)
    BY <1>1, <2>1a
  <2>4. SubSeq(word, i, i + k - 1) \in Seq(Char)
    <3> HIDE DEF Char
    <3> QED
      BY <2>1a, <2>3, SubSeqProperties
  <2> QED
    BY <2>4 DEF Str
<1> QED
  BY <1>1, <1>2 DEF SubstrsOf

(* Each of them is counted once for each place where it is, but the last.  *)
LEMMA CountingAWord ==
  ASSUME HashIsANumber, NEW s, Table(s), s.bucket_num > 0, NEW word \in Str, NEW k \in {2, 3}
  PROVE  LET r == get_substrs_from_word(s, word, k)
         IN  /\ Table(r) /\ r.bucket_num = s.bucket_num
             /\ \A t \in Str : c_set_get_count(r, t) =
                  c_set_get_count(s, t)
                    + Cardinality({i \in 1 .. Len(word) :
                                     i + k <= Len(word) /\ SubSeq(word, i, i + k - 1) = t})
<1> DEFINE Spots(t, n) == {i \in 1 .. n : SubSeq(word, i, i + k - 1) = t}
           all(t) == {i \in 1 .. Len(word) : i + k <= Len(word) /\ SubSeq(word, i, i + k - 1) = t}
<1>1. CASE Len(word) < k
  <2>1. get_substrs_from_word(s, word, k) = s
    BY <1>1 DEF get_substrs_from_word
  <2>2. \A t : all(t) = {}
    BY <1>1
  <2>3. \A t \in Str : c_set_get_count(s, t) = c_set_get_count(s, t) + Cardinality(all(t))
    <3>1. \A t \in Str : c_set_get_count(s, t) \in Nat
      BY CountType
    <3>2. Cardinality({}) = 0
      BY FS_EmptySet
    <3>3. \A t : Cardinality(all(t)) = 0
      <4> HIDE DEF all
      <4> QED
        BY <2>2, <3>2
    <3> HIDE DEF all
    <3> QED
      BY <3>1, <3>3
  <2> QED
    BY <2>1, <2>3
<1>2. CASE Len(word) >= k
  <2> DEFINE L == Len(word) - k
             Step(g, n) == IF n = 0 THEN s ELSE c_set_insert(g[n - 1], SubstrsOf(word, k)[n])
             Is(g) == g = [n \in 0 .. Len(SubstrsOf(word, k)) |-> Step(g, n)]
             loop == CHOOSE g : Is(g)
             D == {t \in [size : Nat, bucket_num : {s.bucket_num},
                          buckets : [0 .. s.bucket_num - 1 -> Seq(Node)]] : Table(t)}
             step == [x \in (1 .. L) \X D |-> c_set_insert(x[2], SubstrsOf(word, k)[x[1]])]
  <2>0. Len(word) \in Nat /\ k \in Nat
    BY DEF Str
  <2>1. /\ L \in Nat /\ Len(SubstrsOf(word, k)) = L
        /\ \A n \in 1 .. L : /\ SubstrsOf(word, k)[n] = SubSeq(word, n, n + k - 1)
                             /\ SubstrsOf(word, k)[n] \in Str
    <3>1. L \in Nat
      BY <1>2, <2>0
    <3>2. /\ Len(SubstrsOf(word, k)) = Len(word) - k
          /\ \A i \in 1 .. Len(word) - k :
               /\ SubstrsOf(word, k)[i] = SubSeq(word, i, i + k - 1)
               /\ SubSeq(word, i, i + k - 1) \in Str
      BY ONLY <1>2, SubstringsAreStrings, word \in Str, k \in {2, 3}
    <3> QED
      BY <3>1, <3>2
  <2>2. get_substrs_from_word(s, word, k) = loop[L]
    BY <1>2, <2>1 DEF get_substrs_from_word
  <2>3. \A t : Table(t) /\ t.bucket_num = s.bucket_num => t \in D
    <3>1. SUFFICES ASSUME NEW t, Table(t), t.bucket_num = s.bucket_num
                   PROVE  t \in [size : Nat, bucket_num : {s.bucket_num},
                                 buckets : [0 .. s.bucket_num - 1 -> Seq(Node)]]
      OBVIOUS
    <3>2. t.size \in Nat
      BY <3>1, FS_CardinalityType DEF Table
    <3> QED
      BY <3>1, <3>2 DEF Table
  <2>4. \A n \in 1 .. L : \A t \in D : c_set_insert(t, SubstrsOf(word, k)[n]) \in D
    <3>1. TAKE n \in 1 .. L
    <3>2. TAKE t \in D
    <3>3. Table(t) /\ t.bucket_num = s.bucket_num /\ t.bucket_num > 0
      OBVIOUS
    <3> HIDE DEF D
    <3>4. LET r == c_set_insert(t, SubstrsOf(word, k)[n])
          IN  Table(r) /\ r.bucket_num = t.bucket_num
      BY <2>1, <3>3, CountingInsert
    <3> QED
      BY <2>3, <3>3, <3>4
  <2>5. \E g : Is(g)
    <3>1. s \in D
      BY <2>3
    <3>2. \A n \in 1 .. L : \A d \in D : step[<<n, d>>] = c_set_insert(d, SubstrsOf(word, k)[n])
      <4> HIDE DEF D, L
      <4> QED
        OBVIOUS
    <3>3. PICK f : Iterates(f, L, D, s, step)
      <4>1. \A n \in 1 .. L : \A d \in D : step[<<n, d>>] \in D
        <5> HIDE DEF D, L, step
        <5> QED
          BY <2>4, <3>2
      <4>2. L \in Nat
        BY <2>1
      <4> HIDE DEF D, L, step
      <4> QED
        BY <3>1, <4>1, <4>2, IterationExists
    <3>4. \A n \in 0 .. L : f[n] = Step(f, n)
      <4>1. TAKE n \in 0 .. L
      <4>2. CASE n = 0
        BY <3>3, <4>2 DEF Iterates
      <4>3. CASE n # 0
        <5>1. n \in 1 .. L /\ n - 1 \in 0 .. L
          BY <2>1, <4>3
        <5> HIDE DEF D, L, step
        <5>2. f[n] = step[<<n, f[n - 1]>>] /\ f[n - 1] \in D
          BY <3>3, <5>1 DEF Iterates
        <5> QED
          BY <3>2, <4>3, <5>1, <5>2
      <4> QED
        BY <4>2, <4>3
    <3>5. f = [n \in 0 .. L |-> Step(f, n)]
      <4> HIDE DEF D, L, Step
      <4> QED
        BY <3>3, <3>4 DEF Iterates
    <3> QED
      BY <2>1, <3>5
  <2>6. Is(loop)
    <3> HIDE DEF Is
    <3> QED
      BY <2>5
  <2>7. loop[0] = s /\ \A n \in 1 .. L : loop[n] = c_set_insert(loop[n - 1], SubSeq(word, n, n + k - 1))
    <3>1. \A n \in 0 .. L : loop[n] = Step(loop, n)
      <4> HIDE DEF loop, Step, L
      <4> QED
        BY <2>1, <2>6
    <3>2. loop[0] = s
      <4>1. 0 \in 0 .. L
        BY <2>1
      <4> HIDE DEF loop, L
      <4> QED
        BY <3>1, <4>1
    <3>3. ASSUME NEW n \in 1 .. L
          PROVE  loop[n] = c_set_insert(loop[n - 1], SubSeq(word, n, n + k - 1))
      <4>1. n \in 0 .. L /\ n # 0
        BY <2>1
      <4>2. loop[n] = c_set_insert(loop[n - 1], SubstrsOf(word, k)[n])
        <5> HIDE DEF loop, L
        <5> QED
          BY <3>1, <4>1
      <4>3. SubstrsOf(word, k)[n] = SubSeq(word, n, n + k - 1)
        BY <2>1
      <4> HIDE DEF loop, L
      <4> QED
        BY <4>2, <4>3
    <3> HIDE DEF loop, L
    <3> QED
      BY <3>2, <3>3
  <2> HIDE DEF loop, Is, Step, step, D
  <2> DEFINE Right(n) == /\ Table(loop[n]) /\ loop[n].bucket_num = s.bucket_num
                         /\ \A t \in Str : c_set_get_count(loop[n], t) =
                              c_set_get_count(s, t) + Cardinality(Spots(t, n))
             right == {n \in 0 .. L : Right(n)}
  <2>8. \A t \in Str : c_set_get_count(s, t) \in Nat
    BY CountType
  <2>9. \A n \in 0 .. L : \A t : IsFiniteSet(Spots(t, n)) /\ Cardinality(Spots(t, n)) \in Nat
    <3>1. TAKE n \in 0 .. L
    <3>2. TAKE t
    <3>3. Spots(t, n) \in SUBSET (1 .. n) /\ n \in Nat
      OBVIOUS
    <3> HIDE DEF Spots
    <3> QED
      BY <3>3, BelowFinite
  <2>10. Right(0)
    <3>1. \A t : Spots(t, 0) = {}
      OBVIOUS
    <3>2. Cardinality({}) = 0
      BY FS_EmptySet
    <3>3. \A t : Cardinality(Spots(t, 0)) = 0
      <4> HIDE DEF Spots
      <4> QED
        BY <3>1, <3>2
    <3>4. loop[0] = s
      BY <2>7
    <3>5. \A t \in Str : c_set_get_count(s, t) = c_set_get_count(s, t) + Cardinality(Spots(t, 0))
      <4> HIDE DEF Spots
      <4> QED
        BY <2>8, <3>3
    <3> HIDE DEF Spots
    <3> QED
      BY <3>4, <3>5
  <2>11. ASSUME NEW n \in 1 .. L, Right(n - 1) PROVE Right(n)
    <3> DEFINE str == SubSeq(word, n, n + k - 1)
    <3>1. str \in Str
      BY <2>1
    <3>2. loop[n] = c_set_insert(loop[n - 1], str)
      BY <2>7
    <3> HIDE DEF str
    <3>3. /\ Table(loop[n]) /\ loop[n].bucket_num = s.bucket_num
          /\ \A t \in Str : c_set_get_count(loop[n], t) =
                 c_set_get_count(loop[n - 1], t) + (IF t = str THEN 1 ELSE 0)
      BY <2>11, <3>1, <3>2, CountingInsert
    <3>4. ASSUME NEW t \in Str
          PROVE  Cardinality(Spots(t, n)) = Cardinality(Spots(t, n - 1)) + (IF t = str THEN 1 ELSE 0)
      <4>0. \A i : i \in 1 .. n <=> i \in 1 .. n - 1 \/ i = n
        BY <2>1
      <4>1a. \A i : i \in Spots(t, n) <=> i \in Spots(t, n - 1) \/ (i = n /\ t = str)
        BY <4>0 DEF str
      <4>2. n \notin Spots(t, n - 1)
        OBVIOUS
      <4>1. Spots(t, n) = IF t = str THEN Spots(t, n - 1) \cup {n} ELSE Spots(t, n - 1)
        <5> HIDE DEF Spots
        <5>1. CASE t = str
          BY <4>1a, <5>1
        <5>2. CASE t # str
          BY <4>1a, <5>2
        <5> QED
          BY <5>1, <5>2
      <4>3. n - 1 \in 0 .. L
        OBVIOUS
      <4>4. IsFiniteSet(Spots(t, n - 1)) /\ Cardinality(Spots(t, n - 1)) \in Nat
        BY <2>9, <4>3
      <4> HIDE DEF Spots
      <4>5. CASE t = str
        <5>1. Cardinality(Spots(t, n - 1) \cup {n}) = Cardinality(Spots(t, n - 1)) + 1
          BY <4>2, <4>4, FS_AddElement
        <5> QED
          BY <4>1, <4>5, <5>1
      <4>6. CASE t # str
        BY <4>1, <4>4, <4>6
      <4> QED
        BY <4>5, <4>6
    <3>5. ASSUME NEW t \in Str
          PROVE  c_set_get_count(loop[n], t) = c_set_get_count(s, t) + Cardinality(Spots(t, n))
      <4>1. c_set_get_count(loop[n - 1], t) = c_set_get_count(s, t) + Cardinality(Spots(t, n - 1))
        BY <2>11
      <4>2. n - 1 \in 0 .. L
        OBVIOUS
      <4>3. c_set_get_count(s, t) \in Nat /\ Cardinality(Spots(t, n - 1)) \in Nat
        BY <2>8, <2>9, <4>2
      <4> HIDE DEF Spots
      <4> QED
        BY <3>3, <3>4, <4>1, <4>3
    <3> QED
      BY <3>3, <3>5
  <2> HIDE DEF Right
  <2>12. \A n \in 0 .. L : n \in right
    <3>1. 0 \in right
      BY <2>1, <2>10
    <3>2. \A n \in 1 .. L : n - 1 \in right => n \in right
      <4>1. TAKE n \in 1 .. L
      <4>2. n \in 0 .. L
        OBVIOUS
      <4> QED
        BY <2>11, <4>2
    <3> HIDE DEF right, L
    <3> QED
      BY <2>1, <3>1, <3>2, Ascending
  <2>13. Right(L)
    BY <2>1, <2>12
  <2>14. \A t : Spots(t, L) = all(t)
    <3>1. \A i : i \in 1 .. L <=> i \in 1 .. Len(word) /\ i + k <= Len(word)
      OBVIOUS
    <3> QED
      BY <3>1
  <2> QED
    BY <2>2, <2>13, <2>14 DEF Right
<1> QED
  BY <1>1, <1>2
----------------------------------------------------------------------------
(* Reading a file *)

(* What follows the first p characters of a text, up to the e-th.          *)
LEMMA Slice ==
  ASSUME NEW W \in Str, NEW p \in 0 .. Len(W), NEW e \in p .. Len(W)
  PROVE  /\ SubSeq(W, p + 1, e) \in Str
         /\ Len(SubSeq(W, p + 1, e)) = e - p
         /\ \A i \in 1 .. e - p : SubSeq(W, p + 1, e)[i] = W[p + i]
<1>1. W \in Seq(Char) /\ Len(W) \in Nat
  BY DEF Str
<1>2. p + 1 \in Int /\ e \in Int /\ p \in Int /\ p >= 0 /\ p <= e /\ e <= Len(W)
  BY <1>1
<1>3. \A i \in p + 1 .. e : W[i] \in Char
  BY <1>1, <1>2
<1>4. /\ SubSeq(W, p + 1, e) \in Seq(Char)
      /\ Len(SubSeq(W, p + 1, e)) = IF p + 1 <= e THEN e - (p + 1) + 1 ELSE 0
      /\ \A i \in 1 .. e - (p + 1) + 1 : SubSeq(W, p + 1, e)[i] = W[p + 1 + i - 1]
  <2> HIDE DEF Char
  <2> QED
    BY <1>2, <1>3, SubSeqProperties
<1>5. Len(SubSeq(W, p + 1, e)) = e - p
  BY <1>2, <1>4
<1>6. \A i \in 1 .. e - p : SubSeq(W, p + 1, e)[i] = W[p + i]
  <2>1. e - (p + 1) + 1 = e - p /\ \A i \in 1 .. e - p : p + 1 + i - 1 = p + i
    BY <1>2
  <2> QED
    BY <1>4, <2>1
<1> QED
  BY <1>4, <1>5, <1>6 DEF Str

(* A slice of the rest is a slice. *)
LEMMA SliceOfRest ==
  ASSUME NEW W \in Str, NEW p \in 0 .. Len(W), NEW a \in 0 .. Len(W) - p,
         NEW b \in a .. Len(W) - p
  PROVE  SubSeq(SubSeq(W, p + 1, Len(W)), a + 1, b) = SubSeq(W, p + a + 1, p + b)
<1> DEFINE R == SubSeq(W, p + 1, Len(W))
<1>1. Len(W) \in Nat /\ p \in Nat /\ a \in Nat /\ b \in Nat
  BY DEF Str
<1>2. p <= Len(W) /\ Len(W) \in p .. Len(W)
  BY <1>1
<1>3. /\ R \in Str /\ Len(R) = Len(W) - p
      /\ \A i \in 1 .. Len(W) - p : R[i] = W[p + i]
  BY <1>2, Slice
<1> HIDE DEF R
<1>4. a \in 0 .. Len(R) /\ b \in a .. Len(R)
  BY <1>3
<1>5. /\ SubSeq(R, a + 1, b) \in Str
      /\ Len(SubSeq(R, a + 1, b)) = b - a
      /\ \A i \in 1 .. b - a : SubSeq(R, a + 1, b)[i] = R[a + i]
  BY <1>3, <1>4, Slice
<1>6. p + a \in 0 .. Len(W) /\ p + b \in p + a .. Len(W)
  BY <1>1, <1>2
<1>7. /\ SubSeq(W, p + a + 1, p + b) \in Str
      /\ Len(SubSeq(W, p + a + 1, p + b)) = p + b - (p + a)
      /\ \A i \in 1 .. p + b - (p + a) : SubSeq(W, p + a + 1, p + b)[i] = W[p + a + i]
  <2> DEFINE c == p + a
             d == p + b
  <2>1. c \in 0 .. Len(W) /\ d \in c .. Len(W)
    BY <1>6
  <2> HIDE DEF c, d
  <2>2. /\ SubSeq(W, c + 1, d) \in Str
        /\ Len(SubSeq(W, c + 1, d)) = d - c
        /\ \A i \in 1 .. d - c : SubSeq(W, c + 1, d)[i] = W[c + i]
    BY ONLY <2>1, Slice, W \in Str
  <2> QED
    BY <2>2 DEF c, d
<1>8. p + b - (p + a) = b - a
  BY <1>1
<1>9. \A i \in 1 .. b - a : SubSeq(R, a + 1, b)[i] = SubSeq(W, p + a + 1, p + b)[i]
  <2>1. TAKE i \in 1 .. b - a
  <2>2. a + i \in 1 .. Len(W) - p /\ p + (a + i) = p + a + i
    BY <1>1
  <2> QED
    BY <1>3, <1>5, <1>7, <1>8, <2>2
<1>10. SubSeq(R, a + 1, b) = SubSeq(W, p + a + 1, p + b)
  BY <1>5, <1>7, <1>8, <1>9, SeqEqual DEF Str
<1> QED
  BY <1>10 DEF R

(* fgets() takes characters up to the first newline, the end of the file,  *)
(* or one less than its buffer, whichever is first.                        *)
LEMMA ReadFirst ==
  ASSUME NEW text \in Str, text # <<>>, NEW size \in Nat \ {0, 1}
  PROVE  \E cut \in 1 .. Len(text) :
           /\ fgets(text, size) = SubSeq(text, 1, cut)
           /\ Len(fgets(text, size)) = cut
           /\ After(text, size) = SubSeq(text, cut + 1, Len(text))
           /\ cut <= size - 1
           /\ \A i \in 1 .. cut - 1 : text[i] # NL
           /\ cut = Len(text) \/ cut = size - 1 \/ text[cut] = NL
<1> DEFINE ends == Places(text, NL) \cup {Len(text), size - 1}
<1>1. Len(text) \in Nat \ {0} /\ size - 1 \in Nat \ {0}
  BY DEF Str
<1>2. ends \in SUBSET Nat /\ ends # {}
  BY <1>1 DEF Places
<1>3. PICK cut \in ends : \A y \in ends : cut <= y
  <2> HIDE DEF ends
  <2> QED
    BY <1>2, LeastElement
<1>4. Min(ends) = cut
  <2> HIDE DEF ends
  <2>1. \A x \in ends : (\A y \in ends : x <= y) => x = cut
    <3>1. TAKE x \in ends
    <3>2. HAVE \A y \in ends : x <= y
    <3>3. x <= cut /\ cut <= x /\ x \in Nat /\ cut \in Nat
      BY <1>2, <1>3, <3>2
    <3> QED
      BY <3>3
  <2> QED
    BY <1>3, <2>1 DEF Min
<1>5. cut \in 1 .. Len(text) /\ cut <= size - 1
  <2>1. cut <= Len(text) /\ cut <= size - 1
    BY <1>3
  <2>2. cut >= 1 /\ cut \in Nat
    BY <1>1, <1>3 DEF Places
  <2> QED
    BY <1>1, <2>1, <2>2
<1>6. \A i \in 1 .. cut - 1 : text[i] # NL
  <2>1. TAKE i \in 1 .. cut - 1
  <2>2. SUFFICES ASSUME text[i] = NL PROVE FALSE
    OBVIOUS
  <2>3. i \in 1 .. Len(text)
    BY <1>1, <1>5
  <2>4. i \in ends
    BY <2>2, <2>3 DEF Places
  <2>5. cut <= i
    BY <1>3, <2>4
  <2> QED
    BY <1>5, <2>5
<1>7. cut = Len(text) \/ cut = size - 1 \/ text[cut] = NL
  BY <1>3 DEF Places
<1> HIDE DEF ends
<1>8. fgets(text, size) = SubSeq(text, 1, cut)
  BY <1>4 DEF fgets, ends
<1>9. Len(SubSeq(text, 1, cut)) = cut
  <2>1. 0 \in 0 .. Len(text) /\ cut \in 0 .. Len(text) /\ 0 + 1 = 1 /\ cut - 0 = cut
    BY <1>1, <1>5
  <2>2. Len(SubSeq(text, 0 + 1, cut)) = cut - 0
    BY ONLY <2>1, Slice, text \in Str
  <2> QED
    BY <2>1, <2>2
<1>10. After(text, size) = SubSeq(text, cut + 1, Len(text))
  BY <1>8, <1>9 DEF After
<1> QED
  BY <1>5, <1>6, <1>7, <1>8, <1>9, <1>10

(* One call of fgets() takes the text up to the e-th character of the file.*)
ReadsTo(W, p, text, size, e) ==
  /\ fgets(text, size) = SubSeq(W, p + 1, e)
  /\ After(text, size) = SubSeq(W, e + 1, Len(W))
  /\ e <= p + size - 1
  /\ \A i \in p + 1 .. e - 1 : W[i] # NL
  /\ e = Len(W) \/ e = p + size - 1 \/ W[e] = NL

(* The same when the first p characters of a file are read.                *)
LEMMA ReadNext ==
  ASSUME NEW W \in Str, NEW p \in 0 .. Len(W), NEW text,
         text = SubSeq(W, p + 1, Len(W)), text # <<>>, NEW size \in Nat \ {0, 1}
  PROVE  /\ Len(text) = Len(W) - p
         /\ \E e \in p + 1 .. Len(W) : ReadsTo(W, p, text, size, e)
<1>1. Len(W) \in Nat /\ p \in Nat /\ p <= Len(W) /\ Len(W) \in p .. Len(W)
  BY DEF Str
<1>2. /\ text \in Str /\ Len(text) = Len(W) - p
      /\ \A i \in 1 .. Len(W) - p : text[i] = W[p + i]
  BY <1>1, Slice
<1>3. PICK cut \in 1 .. Len(text) :
           /\ fgets(text, size) = SubSeq(text, 1, cut)
           /\ After(text, size) = SubSeq(text, cut + 1, Len(text))
           /\ cut <= size - 1
           /\ \A i \in 1 .. cut - 1 : text[i] # NL
           /\ cut = Len(text) \/ cut = size - 1 \/ text[cut] = NL
  BY <1>2, ReadFirst
<1> DEFINE e == p + cut
<1>4. e \in p + 1 .. Len(W) /\ e <= p + size - 1
  BY <1>1, <1>2, <1>3
<1>5. fgets(text, size) = SubSeq(W, p + 1, e)
  <2>1. 0 \in 0 .. Len(W) - p /\ cut \in 0 .. Len(W) - p
    BY <1>1, <1>2
  <2>2. SubSeq(SubSeq(W, p + 1, Len(W)), 0 + 1, cut) = SubSeq(W, p + 0 + 1, p + cut)
    BY ONLY <2>1, SliceOfRest, W \in Str, p \in 0 .. Len(W)
  <2>3. 0 + 1 = 1 /\ p + 0 + 1 = p + 1
    BY <1>1
  <2> QED
    BY <1>3, <2>2, <2>3
<1>6. After(text, size) = SubSeq(W, e + 1, Len(W))
  <2>1. cut \in 0 .. Len(W) - p /\ Len(W) - p \in cut .. Len(W) - p
    BY <1>1, <1>2
  <2>2. SubSeq(SubSeq(W, p + 1, Len(W)), cut + 1, Len(W) - p)
          = SubSeq(W, p + cut + 1, p + (Len(W) - p))
    BY ONLY <2>1, SliceOfRest, W \in Str, p \in 0 .. Len(W)
  <2>3. p + (Len(W) - p) = Len(W)
    BY <1>1
  <2> QED
    BY <1>2, <1>3, <2>2, <2>3
<1>7. \A i \in p + 1 .. e - 1 : W[i] # NL
  <2>1. TAKE i \in p + 1 .. e - 1
  <2>2. i - p \in 1 .. cut - 1 /\ i - p \in 1 .. Len(W) - p /\ p + (i - p) = i
    BY <1>1, <1>2
  <2> QED
    BY <1>2, <1>3, <2>2
<1>8. e = Len(W) \/ e = p + size - 1 \/ W[e] = NL
  <2>1. cut = Len(text) => e = Len(W)
    BY <1>1, <1>2
  <2>2. cut = size - 1 => e = p + size - 1
    BY <1>1
  <2>3. text[cut] = W[e]
    BY <1>2
  <2> QED
    BY <1>3, <2>1, <2>2, <2>3
<1> HIDE DEF e
<1> QED
  BY <1>2, <1>4, <1>5, <1>6, <1>7, <1>8 DEF ReadsTo
----------------------------------------------------------------------------
(* Lines *)

LEMMA TrimIsShorter ==
  ASSUME NEW str \in Str
  PROVE  Trim(str) \in Str /\ Len(Trim(str)) <= Len(str) /\ Len(Trim(str)) + 2 >= Len(str)
<1>1. ASSUME NEW s \in Str, NEW char
      PROVE  /\ NoTail(s, char) \in Str
             /\ Len(NoTail(s, char)) <= Len(s) /\ Len(NoTail(s, char)) + 1 >= Len(s)
  <2>1. Len(s) \in Nat
    BY DEF Str
  <2>2. CASE s # <<>> /\ Last(s) = char
    <3>1. Len(s) # 0
      BY <2>2 DEF Str
    <3>2. Len(s) - 1 \in 0 .. Len(s) /\ 0 \in 0 .. Len(s) /\ 0 + 1 = 1
      BY <2>1, <3>1
    <3> DEFINE e == Len(s) - 1
    <3>3. SubSeq(s, 0 + 1, e) \in Str /\ Len(SubSeq(s, 0 + 1, e)) = e - 0
      <4>1. e \in 0 .. Len(s)
        BY <3>2
      <4> HIDE DEF e
      <4> QED
        BY ONLY <3>2, <4>1, s \in Str, Slice
    <3>4. NoTail(s, char) = SubSeq(s, 1, e)
      BY <2>2 DEF NoTail, Front
    <3> QED
      BY <2>1, <3>2, <3>3, <3>4
  <2>3. CASE ~(s # <<>> /\ Last(s) = char)
    BY <2>1, <2>3 DEF NoTail
  <2> QED
    BY <2>2, <2>3
<1> DEFINE mid == NoTail(str, NL)
<1>2. mid \in Str /\ Len(mid) <= Len(str) /\ Len(mid) + 1 >= Len(str)
  BY <1>1
<1> HIDE DEF mid
<1>3. /\ NoTail(mid, CR) \in Str
      /\ Len(NoTail(mid, CR)) <= Len(mid) /\ Len(NoTail(mid, CR)) + 1 >= Len(mid)
  BY <1>1, <1>2
<1>4. \A s \in Str : Len(s) \in Nat
  BY DEF Str
<1> QED
  BY <1>2, <1>3, <1>4 DEF Trim, mid

(* Where a line ends. *)
LEMMA LineEnds ==
  ASSUME wordlist \in Str, NEW start \in 1 .. Len(wordlist)
  PROVE  /\ LineEnd(start) \in start .. Len(wordlist)
         /\ LineEnd(start) = Len(wordlist) \/ wordlist[LineEnd(start)] = NL
         /\ \A i \in start .. LineEnd(start) - 1 : wordlist[i] # NL
<1> DEFINE Ends(e) == /\ e = Len(wordlist) \/ wordlist[e] = NL
                      /\ \A i \in start .. e - 1 : wordlist[i] # NL
           ends == {e \in start .. Len(wordlist) : e = Len(wordlist) \/ wordlist[e] = NL}
<1>1. Len(wordlist) \in Nat
  BY DEF Str
<1>2. ends \in SUBSET Nat /\ ends # {}
  BY <1>1
<1>3. PICK e \in ends : \A y \in ends : e <= y
  <2> HIDE DEF ends
  <2> QED
    BY <1>2, LeastElement
<1>4. \A i \in start .. e - 1 : wordlist[i] # NL
  <2>1. TAKE i \in start .. e - 1
  <2>2. i \in start .. Len(wordlist) /\ ~(e <= i)
    BY <1>1
  <2> QED
    BY <1>3, <2>2
<1>5. e \in start .. Len(wordlist) /\ Ends(e)
  BY <1>4
<1>6. LineEnd(start) = CHOOSE x \in start .. Len(wordlist) : Ends(x)
  BY DEF LineEnd
<1>7. LineEnd(start) \in start .. Len(wordlist) /\ Ends(LineEnd(start))
  <2> HIDE DEF Ends, ends
  <2> QED
    BY <1>5, <1>6
<1> QED
  BY <1>7

(* A word is what fgets() takes, when the lines fit: the whole line; and   *)
(* what is left begins with the next.                                      *)
LineRead(p, text, size, e) ==
  /\ After(text, size) = SubSeq(wordlist, e + 1, Len(wordlist))
  /\ Trim(fgets(text, size)) \in Str
  /\ /\ p + 1 \in LineStarts
     /\ Len(LineAt(p + 1)) + 2 < size
     => /\ Trim(fgets(text, size)) = LineAt(p + 1)
        /\ e < Len(wordlist) => e + 1 \in LineStarts
        /\ Started(e) = Started(p) \cup {p + 1}

LEMMA ReadLine ==
  ASSUME wordlist \in Str, NEW p \in 0 .. Len(wordlist), NEW text,
         text = SubSeq(wordlist, p + 1, Len(wordlist)), text # <<>>,
         NEW size \in Nat \ {0, 1}
  PROVE  \E e \in p + 1 .. Len(wordlist) : LineRead(p, text, size, e)
<1>1. Len(wordlist) \in Nat /\ p \in Nat /\ p <= Len(wordlist)
  BY DEF Str
<1>1a. PICK e \in p + 1 .. Len(wordlist) : ReadsTo(wordlist, p, text, size, e)
  BY ReadNext
<1>2. /\ fgets(text, size) = SubSeq(wordlist, p + 1, e)
      /\ After(text, size) = SubSeq(wordlist, e + 1, Len(wordlist))
      /\ e <= p + size - 1
      /\ \A i \in p + 1 .. e - 1 : wordlist[i] # NL
      /\ e = Len(wordlist) \/ e = p + size - 1 \/ wordlist[e] = NL
  BY <1>1a DEF ReadsTo
<1>3. \A x \in p + 1 .. Len(wordlist) : /\ SubSeq(wordlist, p + 1, x) \in Str
                                        /\ Len(SubSeq(wordlist, p + 1, x)) = x - p
  <2>1. TAKE x \in p + 1 .. Len(wordlist)
  <2>2. x \in p .. Len(wordlist)
    BY <1>1
  <2> QED
    BY <2>2, Slice
<1>4. Trim(fgets(text, size)) \in Str
  BY <1>2, <1>3, TrimIsShorter
<1>5. ASSUME p + 1 \in LineStarts, Len(LineAt(p + 1)) + 2 < size
      PROVE  /\ Trim(fgets(text, size)) = LineAt(p + 1)
             /\ e < Len(wordlist) => e + 1 \in LineStarts
             /\ Started(e) = Started(p) \cup {p + 1}
  <2> DEFINE end == LineEnd(p + 1)
  <2>1. p + 1 \in 1 .. Len(wordlist)
    BY <1>5 DEF LineStarts
  <2>2. /\ end \in p + 1 .. Len(wordlist)
        /\ end = Len(wordlist) \/ wordlist[end] = NL
        /\ \A i \in p + 1 .. end - 1 : wordlist[i] # NL
    <3> DEFINE start == p + 1
    <3>1. start \in 1 .. Len(wordlist)
      BY <2>1
    <3> HIDE DEF start
    <3>2. /\ LineEnd(start) \in start .. Len(wordlist)
          /\ LineEnd(start) = Len(wordlist) \/ wordlist[LineEnd(start)] = NL
          /\ \A i \in start .. LineEnd(start) - 1 : wordlist[i] # NL
      BY <3>1, LineEnds
    <3> QED
      BY <3>2 DEF start
  <2>3. LineAt(p + 1) = Trim(SubSeq(wordlist, p + 1, end))
    BY DEF LineAt
  <2> HIDE DEF end
  <2>4. end - p < size
    <3>1. SubSeq(wordlist, p + 1, end) \in Str /\ Len(SubSeq(wordlist, p + 1, end)) = end - p
      BY <1>3, <2>2
    <3>2. Len(Trim(SubSeq(wordlist, p + 1, end))) + 2 >= end - p
      BY <3>1, TrimIsShorter
    <3>3. Len(Trim(SubSeq(wordlist, p + 1, end))) \in Nat
      BY <3>1, TrimIsShorter DEF Str
    <3> QED
      BY <1>1, <1>5, <2>2, <2>3, <3>2, <3>3
  <2>5. e = end
    <3>1. ~(e < end)
      <4>1. SUFFICES ASSUME e < end PROVE FALSE
        OBVIOUS
      <4>2. e \in p + 1 .. end - 1
        BY <1>1, <2>2, <4>1
      <4>3. wordlist[e] # NL /\ e # Len(wordlist) /\ e # p + size - 1
        BY <1>1, <2>2, <2>4, <4>1, <4>2
      <4> QED
        BY <1>2, <4>3
    <3>2. ~(end < e)
      <4>1. SUFFICES ASSUME end < e PROVE FALSE
        OBVIOUS
      <4>2. end \in p + 1 .. e - 1 /\ end # Len(wordlist)
        BY <1>1, <2>2, <4>1
      <4> QED
        BY <1>2, <2>2, <4>2
    <3> QED
      BY <1>1, <2>2, <3>1, <3>2
  <2>6. Trim(fgets(text, size)) = LineAt(p + 1)
    BY <1>2, <2>3, <2>5
  <2>7. ASSUME e < Len(wordlist) PROVE e + 1 \in LineStarts
    <3>1. wordlist[e] = NL /\ (e + 1) - 1 = e /\ e + 1 \in 1 .. Len(wordlist)
      BY <1>1, <2>2, <2>5, <2>7
    <3> QED
      BY <3>1 DEF LineStarts
  <2>8. \A start \in LineStarts : start <= e <=> start <= p \/ start = p + 1
    <3>1. TAKE start \in LineStarts
    <3>2. start \in 1 .. Len(wordlist) /\ (start = 1 \/ wordlist[start - 1] = NL)
      BY DEF LineStarts
    <3>3. ~(start <= e /\ start > p + 1)
      <4>1. SUFFICES ASSUME start <= e /\ start > p + 1 PROVE FALSE
        OBVIOUS
      <4>2. start - 1 \in p + 1 .. e - 1 /\ start # 1
        BY <1>1, <3>2, <4>1
      <4> QED
        BY <1>2, <3>2, <4>2
    <3> QED
      BY <1>1, <3>2, <3>3
  <2>9. Started(e) = Started(p) \cup {p + 1}
    BY <1>5, <2>8 DEF Started
  <2> QED
    BY <2>6, <2>7, <2>9
<1>6. LineRead(p, text, size, e)
  BY <1>2, <1>4, <1>5 DEF LineRead
<1> QED
  BY <1>6
----------------------------------------------------------------------------
(* Counting *)

(* Where a string is in a word, other than at its end. *)
InWord(word, str) ==
  {i \in 1 .. Len(word) :
     i + Len(str) <= Len(word) /\ SubSeq(word, i, i + Len(str) - 1) = str}

LEMMA InWordIsFinite ==
  ASSUME NEW word \in Str, NEW str
  PROVE  IsFiniteSet(InWord(word, str)) /\ Cardinality(InWord(word, str)) \in Nat
<1>1. InWord(word, str) \in SUBSET (1 .. Len(word)) /\ Len(word) \in Nat
  BY DEF InWord, Str
<1> QED
  BY <1>1, BelowFinite

(* The two calls for a word count a string of two or three letters at each *)
(* place where it is.                                                      *)
LEMMA CountingBothLengths ==
  ASSUME HashIsANumber, NEW s, Table(s), s.bucket_num > 0, NEW word \in Str
  PROVE  LET r == get_substrs_from_word(get_substrs_from_word(s, word, 2), word, 3)
         IN  /\ Table(r) /\ r.bucket_num = s.bucket_num
             /\ \A t \in Str : Len(t) \in {2, 3} =>
                  c_set_get_count(r, t) = c_set_get_count(s, t) + Cardinality(InWord(word, t))
<1> DEFINE q == get_substrs_from_word(s, word, 2)
           r == get_substrs_from_word(q, word, 3)
           At(t, k) == {i \in 1 .. Len(word) :
                          i + k <= Len(word) /\ SubSeq(word, i, i + k - 1) = t}
<1>1. /\ Table(q) /\ q.bucket_num = s.bucket_num
      /\ \A t \in Str : c_set_get_count(q, t) = c_set_get_count(s, t) + Cardinality(At(t, 2))
  <2>1. 2 \in {2, 3}
    OBVIOUS
  <2> QED
    BY <2>1, CountingAWord
<1>2. /\ Table(r) /\ r.bucket_num = s.bucket_num
      /\ \A t \in Str : c_set_get_count(r, t) = c_set_get_count(q, t) + Cardinality(At(t, 3))
  <2>1. 3 \in {2, 3} /\ q.bucket_num > 0
    BY <1>1
  <2> HIDE DEF q
  <2> QED
    BY <1>1, <2>1, CountingAWord
<1>3. ASSUME NEW t \in Str, NEW k \in {2, 3}, Len(t) # k
      PROVE  At(t, k) = {}
  <2>1. SUFFICES ASSUME NEW i \in At(t, k) PROVE FALSE
    OBVIOUS
  <2>2. /\ i \in 1 .. Len(word) /\ i + k <= Len(word) /\ SubSeq(word, i, i + k - 1) = t
        /\ Len(word) \in Nat
    BY <2>1 DEF Str
  <2> DEFINE p == i - 1
             e == i + k - 1
  <2>3. p \in 0 .. Len(word) /\ e \in p .. Len(word) /\ e - p = k /\ p + 1 = i
    BY <2>2
  <2>4. SubSeq(word, p + 1, e) = t
    BY <2>2, <2>3
  <2> HIDE DEF p, e
  <2>5. Len(SubSeq(word, p + 1, e)) = e - p
    BY <2>3, Slice
  <2> QED
    BY <1>3, <2>3, <2>4, <2>5
<1>4. ASSUME NEW t \in Str, Len(t) \in {2, 3}
      PROVE  c_set_get_count(r, t) = c_set_get_count(s, t) + Cardinality(InWord(word, t))
  <2>1. Cardinality({}) = 0
    BY FS_EmptySet
  <2>2. /\ c_set_get_count(s, t) \in Nat
        /\ Cardinality(InWord(word, t)) \in Nat
    BY CountType, InWordIsFinite
  <2>3. /\ c_set_get_count(q, t) = c_set_get_count(s, t) + Cardinality(At(t, 2))
        /\ c_set_get_count(r, t) = c_set_get_count(q, t) + Cardinality(At(t, 3))
    BY <1>1, <1>2
  <2>4. CASE Len(t) = 2
    <3>1. At(t, 2) = InWord(word, t)
      BY <2>4 DEF InWord
    <3>2. At(t, 3) = {}
      <4>1. 3 \in {2, 3} /\ Len(t) # 3
        BY <2>4
      <4> QED
        BY <1>3, <4>1
    <3> HIDE DEF At, q, r
    <3> QED
      BY <2>1, <2>2, <2>3, <3>1, <3>2
  <2>5. CASE Len(t) = 3
    <3>1. At(t, 3) = InWord(word, t)
      BY <2>5 DEF InWord
    <3>2. At(t, 2) = {}
      <4>1. 2 \in {2, 3} /\ Len(t) # 2
        BY <2>5
      <4> QED
        BY <1>3, <4>1
    <3> HIDE DEF At, q, r
    <3> QED
      BY <2>1, <2>2, <2>3, <3>1, <3>2
  <2> QED
    BY <1>4, <2>4, <2>5
<1> QED
  BY <1>2, <1>4

LEMMA OccurrencesFinite ==
  ASSUME wordlist \in Str, NEW str, NEW p
  PROVE  IsFiniteSet(OccurrencesTo(str, p)) /\ Cardinality(OccurrencesTo(str, p)) \in Nat
<1> DEFINE places == LineStarts \X (1 .. Len(wordlist))
<1>1. Len(wordlist) \in Nat /\ LineStarts \in SUBSET (1 .. Len(wordlist))
  BY DEF Str, LineStarts
<1>2. IsFiniteSet(LineStarts) /\ IsFiniteSet(1 .. Len(wordlist))
  BY <1>1, BelowFinite
<1>3. IsFiniteSet(places)
  BY <1>2, FS_Product
<1>4. OccurrencesTo(str, p) \in SUBSET places
  BY DEF OccurrencesTo, Occurrences
<1> HIDE DEF places
<1>5. IsFiniteSet(OccurrencesTo(str, p))
  BY <1>3, <1>4, FS_Subset
<1> QED
  BY <1>5, FS_CardinalityType

(* The next line has the occurrences of its word. *)
LEMMA OccurrencesInLine ==
  ASSUME wordlist \in Str, NEW p \in 0 .. Len(wordlist), NEW e \in p + 1 .. Len(wordlist),
         p + 1 \in LineStarts, Started(e) = Started(p) \cup {p + 1}, NEW str \in Str
  PROVE  Cardinality(OccurrencesTo(str, e))
           = Cardinality(OccurrencesTo(str, p)) + Cardinality(InWord(LineAt(p + 1), str))
<1> DEFINE word == LineAt(p + 1)
           line == {p + 1} \X InWord(word, str)
<1>1. Len(wordlist) \in Nat /\ p \in Nat /\ p + 1 \in 1 .. Len(wordlist)
  BY DEF Str, LineStarts
<1>2. word \in Str /\ Len(word) <= Len(wordlist) /\ Len(word) \in Nat
  <2> DEFINE end == LineEnd(p + 1)
  <2>1. end \in p + 1 .. Len(wordlist)
    <3> DEFINE start == p + 1
    <3>1. start \in 1 .. Len(wordlist)
      BY <1>1
    <3> HIDE DEF start
    <3>2. LineEnd(start) \in start .. Len(wordlist)
      BY <3>1, LineEnds
    <3> QED
      BY <3>2 DEF start
  <2>2. word = Trim(SubSeq(wordlist, p + 1, end))
    BY DEF LineAt
  <2> HIDE DEF end, word
  <2>3. end \in p .. Len(wordlist)
    BY <1>1, <2>1
  <2>4. SubSeq(wordlist, p + 1, end) \in Str /\ Len(SubSeq(wordlist, p + 1, end)) = end - p
    BY <2>3, Slice
  <2>5. word \in Str /\ Len(word) <= end - p
    BY <2>2, <2>4, TrimIsShorter
  <2>6. Len(word) \in Nat
    BY <2>5 DEF Str
  <2> QED
    BY <1>1, <2>1, <2>5, <2>6
<1>3. \A place : place \in Occurrences(str) /\ place[1] <= e
                   <=> place \in Occurrences(str) /\ (place[1] <= p \/ place[1] = p + 1)
  <2>1. \A start \in LineStarts : start <= e <=> start <= p \/ start = p + 1
    <3>1. \A start : start \in Started(e) <=> start \in Started(p) \/ start = p + 1
      OBVIOUS
    <3>2. p + 1 <= e
      BY <1>1
    <3> QED
      BY <3>1, <3>2 DEF Started
  <2>2. \A place \in Occurrences(str) : place[1] \in LineStarts
    BY DEF Occurrences
  <2> QED
    BY <2>1, <2>2
<1>4. \A place : place \in Occurrences(str) /\ place[1] = p + 1 <=> place \in line
  <2>1. ASSUME NEW place, place \in Occurrences(str), place[1] = p + 1 PROVE place \in line
    <3>1. /\ place \in LineStarts \X (1 .. Len(wordlist))
          /\ place[2] + Len(str) <= Len(word)
          /\ SubSeq(word, place[2], place[2] + Len(str) - 1) = str
      BY <2>1 DEF Occurrences
    <3>2. place = <<p + 1, place[2]>> /\ place[2] \in 1 .. Len(wordlist)
      BY <2>1, <3>1
    <3>3. place[2] \in 1 .. Len(word)
      <4>1. Len(str) \in Nat
        BY DEF Str
      <4> HIDE DEF word
      <4> QED
        BY <1>2, <3>1, <3>2, <4>1
    <3>4. place[2] \in InWord(word, str)
      BY <3>1, <3>3 DEF InWord
    <3> HIDE DEF word
    <3> QED
      BY <3>2, <3>4
  <2>2. ASSUME NEW place, place \in line PROVE place \in Occurrences(str) /\ place[1] = p + 1
    <3>1. place[1] = p + 1 /\ place[2] \in InWord(word, str) /\ place = <<p + 1, place[2]>>
      <4> HIDE DEF word
      <4> QED
        BY <2>2
    <3>2. place[2] \in 1 .. Len(wordlist)
      <4> HIDE DEF word
      <4> QED
        BY <1>1, <1>2, <3>1 DEF InWord
    <3>3. place \in LineStarts \X (1 .. Len(wordlist))
      BY <3>1, <3>2
    <3>4. /\ place[2] + Len(str) <= Len(word)
          /\ SubSeq(word, place[2], place[2] + Len(str) - 1) = str
      BY <3>1 DEF InWord
    <3> QED
      BY <3>1, <3>3, <3>4 DEF Occurrences
  <2> QED
    BY <2>1, <2>2
<1>5. OccurrencesTo(str, e) = OccurrencesTo(str, p) \cup line
  <2> HIDE DEF line
  <2> QED
    BY <1>3, <1>4 DEF OccurrencesTo
<1>6. OccurrencesTo(str, p) \cap line = {}
  <2>1. ~(p + 1 <= p)
    BY <1>1
  <2>2. \A place \in line : place[1] = p + 1
    OBVIOUS
  <2> HIDE DEF line
  <2> QED
    BY <2>1, <2>2 DEF OccurrencesTo
<1>7. /\ IsFiniteSet(line) /\ Cardinality(line) = Cardinality(InWord(word, str))
      /\ Cardinality(line) \in Nat
  <2> DEFINE here == {p + 1}
             inside == InWord(word, str)
  <2>1. IsFiniteSet(here) /\ Cardinality(here) = 1
    BY FS_Singleton
  <2>2. IsFiniteSet(inside) /\ Cardinality(inside) \in Nat
    <3> HIDE DEF word
    <3> QED
      BY <1>2, InWordIsFinite
  <2> HIDE DEF here, inside
  <2>3. IsFiniteSet(here \X inside) /\ Cardinality(here \X inside) = Cardinality(inside)
    BY <2>1, <2>2, FS_Product
  <2> QED
    BY <2>2, <2>3 DEF here, inside
<1> HIDE DEF line
<1>8. IsFiniteSet(OccurrencesTo(str, p)) /\ Cardinality(OccurrencesTo(str, p)) \in Nat
  BY OccurrencesFinite
<1> DEFINE before == OccurrencesTo(str, p)
<1>9. Cardinality(before \cup line)
        = Cardinality(before) + Cardinality(line) - Cardinality(before \cap line)
  <2> HIDE DEF before
  <2>1. IsFiniteSet(before)
    BY <1>8 DEF before
  <2> QED
    BY <1>7, <2>1, FS_Union
<1>10. Cardinality(before \cap line) = 0
  BY <1>6, FS_EmptySet
<1> QED
  BY <1>5, <1>7, <1>8, <1>9, <1>10
----------------------------------------------------------------------------
(* The list of substrings *)

Letters == Seq(Range(ALPHABET))

LEMMA LettersAreStrings ==
  ASSUME NEW str \in Letters
  PROVE  str \in Str /\ Len(str) \in Nat /\ \A i \in 1 .. Len(str) : str[i] # NL
<1>1. Len(str) \in Nat /\ \A i \in 1 .. Len(str) : str[i] \in Range(ALPHABET)
  BY DEF Letters
<1>2. NL \notin Range(ALPHABET)
  BY WordListAssumption
<1>3. str \in Seq(Char)
  <2>1. Range(ALPHABET) \subseteq Char
    BY DEF Char
  <2> HIDE DEF Char
  <2> QED
    BY <2>1 DEF Letters
<1> QED
  BY <1>1, <1>2, <1>3 DEF Str

(* The candidates have two letters or three. *)
LEMMA CandidatesAreShort ==
  /\ Candidates \in Seq(Str) /\ Len(Candidates) \in Nat
  /\ Range(Candidates) = {Candidates[n] : n \in 1 .. Len(Candidates)}
  /\ \A n \in 1 .. Len(Candidates) : Candidates[n] \in Letters /\ Len(Candidates[n]) \in {2, 3}
<1> DEFINE m == Len(ALPHABET)
           Short == {str \in Letters : Len(str) \in {2, 3}}
           pairs == [n \in 1 .. m * m |-> <<LetterAt((n - 1) \div m), LetterAt(n - 1)>>]
           triples == [n \in 1 .. m * m * m |->
                <<LetterAt((n - 1) \div (m * m)), LetterAt((n - 1) \div m), LetterAt(n - 1)>>]
<1>1. m \in Nat
  BY WordListAssumption
<1>2. ASSUME NEW i \in Nat, m # 0 PROVE LetterAt(i) \in Range(ALPHABET)
  <2>1. (i % m) + 1 \in 1 .. m
    <3> HIDE DEF m
    <3> QED
      BY <1>1, <1>2
  <2>2. ALPHABET[(i % m) + 1] \in Range(ALPHABET)
    BY <2>1, WordListAssumption
  <2> QED
    BY <2>2 DEF LetterAt
<1>3. \A a \in Nat : \A b \in Nat : b # 0 => a \div b \in Nat
  OBVIOUS
<1>4. m * m \in Nat /\ m * m * m \in Nat
  <2> HIDE DEF m
  <2> QED
    BY <1>1
<1>5. pairs \in Seq(Short)
  <2>1. ASSUME NEW n \in 1 .. m * m
        PROVE  <<LetterAt((n - 1) \div m), LetterAt(n - 1)>> \in Short
    <3>1. m # 0 /\ n - 1 \in Nat
      <4> HIDE DEF m
      <4> QED
        BY <1>1, <2>1
    <3>2. LetterAt((n - 1) \div m) \in Range(ALPHABET) /\ LetterAt(n - 1) \in Range(ALPHABET)
      <4>1. (n - 1) \div m \in Nat
        <5> HIDE DEF m
        <5> QED
          BY <1>1, <1>3, <3>1
      <4> HIDE DEF m
      <4> QED
        BY <1>2, <3>1, <4>1
    <3> HIDE DEF m
    <3> QED
      BY <3>2 DEF Letters
  <2> HIDE DEF m, Short
  <2> QED
    BY <1>4, <2>1, IsASeq
<1>6. triples \in Seq(Short)
  <2>1. ASSUME NEW n \in 1 .. m * m * m
        PROVE  <<LetterAt((n - 1) \div (m * m)), LetterAt((n - 1) \div m), LetterAt(n - 1)>> \in Short
    <3>1. m # 0 /\ n - 1 \in Nat /\ m * m # 0
      <4> HIDE DEF m
      <4>1. m # 0
        <5>1. 0 * 0 * 0 = 0
          OBVIOUS
        <5> QED
          BY <1>1, <2>1, <5>1
      <4>2. n - 1 \in Nat
        BY <1>4, <2>1
      <4>3. \A x \in Nat : x # 0 => x * x # 0
        OBVIOUS
      <4> QED
        BY <1>1, <4>1, <4>2, <4>3
    <3>2. (n - 1) \div (m * m) \in Nat /\ (n - 1) \div m \in Nat
      <4> HIDE DEF m
      <4> QED
        BY <1>1, <1>3, <1>4, <3>1
    <3>3. /\ LetterAt((n - 1) \div (m * m)) \in Range(ALPHABET)
          /\ LetterAt((n - 1) \div m) \in Range(ALPHABET)
          /\ LetterAt(n - 1) \in Range(ALPHABET)
      <4> HIDE DEF m
      <4> QED
        BY <1>2, <3>1, <3>2
    <3> HIDE DEF m
    <3> QED
      BY <3>3 DEF Letters
  <2> HIDE DEF m, Short
  <2> QED
    BY <1>4, <2>1, IsASeq
<1>7. Candidates = pairs \o triples
  BY DEF Candidates
<1>8. Candidates \in Seq(Short)
  <2> HIDE DEF pairs, triples, Short
  <2> QED
    BY <1>5, <1>6, <1>7, ConcatProperties
<1> HIDE DEF Short
<1>9. /\ Len(Candidates) \in Nat
      /\ \A n \in 1 .. Len(Candidates) : Candidates[n] \in Short
      /\ DOMAIN Candidates = 1 .. Len(Candidates)
  BY <1>8
<1>10. \A str \in Short : str \in Str
  BY LettersAreStrings DEF Short
<1>11. Candidates \in Seq(Str)
  <2>1. Short \subseteq Str
    BY <1>10
  <2> HIDE DEF Str
  <2> QED
    BY <1>8, <2>1
<1>12. \A n \in 1 .. Len(Candidates) : Candidates[n] \in Letters /\ Len(Candidates[n]) \in {2, 3}
  BY <1>9 DEF Short
<1>13. Range(Candidates) = {Candidates[n] : n \in 1 .. Len(Candidates)}
  BY <1>9 DEF Range
<1> QED
  BY <1>9, <1>11, <1>12, <1>13
(* A candidate as it is written: with a newline. *)
LEMMA LineOfCandidate ==
  ASSUME NEW n \in 1 .. Len(Candidates)
  PROVE  LET c == Candidates[n]
             line == Append(c, NL)
         IN  /\ c \in Str /\ Len(c) \in {2, 3} /\ \A i \in 1 .. Len(c) : c[i] # NL
             /\ line \in Str /\ Len(line) = Len(c) + 1
             /\ \A i \in 1 .. Len(c) : line[i] = c[i]
             /\ line[Len(c) + 1] = NL
<1> DEFINE c == Candidates[n]
<1>1. c \in Letters /\ Len(c) \in {2, 3}
  BY CandidatesAreShort
<1> HIDE DEF c
<1>2. c \in Str /\ \A i \in 1 .. Len(c) : c[i] # NL
  BY <1>1, LettersAreStrings
<1>3. /\ Append(c, NL) \in Str /\ Len(Append(c, NL)) = Len(c) + 1
      /\ \A i \in 1 .. Len(c) : Append(c, NL)[i] = c[i]
      /\ Append(c, NL)[Len(c) + 1] = NL
  <2>1. NL \in Char
    BY DEF Char
  <2> HIDE DEF Char
  <2> QED
    BY <1>2, <2>1, AppendProperties DEF Str
<1> QED
  BY <1>1, <1>2, <1>3 DEF c

LEMMA WrittenIs ==
  /\ Written[0] = <<>>
  /\ \A n \in 0 .. Len(Candidates) : Written[n] \in Str
  /\ \A n \in 1 .. Len(Candidates) :
       Written[n] = IF Listed(Candidates[n]) THEN Written[n - 1] \o Append(Candidates[n], NL)
                    ELSE Written[n - 1]
<1> DEFINE N == Len(Candidates)
           Next1(n, text) == IF Listed(Candidates[n]) THEN text \o Append(Candidates[n], NL)
                             ELSE text
           step == [x \in (1 .. N) \X Str |-> Next1(x[1], x[2])]
           empty == <<>>
<1>1. N \in Nat
  BY CandidatesAreShort
<1>2. \A n \in 1 .. N : \A text \in Str : Next1(n, text) \in Str
  <2>1. TAKE n \in 1 .. N
  <2>2. TAKE text \in Str
  <2> DEFINE line == Append(Candidates[n], NL)
  <2>3. line \in Str
    BY LineOfCandidate
  <2> HIDE DEF line
  <2>4. text \o line \in Str
    <3> HIDE DEF Char
    <3> QED
      BY <2>3, ConcatProperties DEF Str
  <2> QED
    BY <2>4 DEF line
<1> HIDE DEF Next1, N
<1>3. \A n \in 1 .. N : \A text \in Str : step[<<n, text>>] = Next1(n, text)
  OBVIOUS
<1>4. empty \in Str
  BY DEF Str
<1> HIDE DEF step, empty
<1>5. PICK f : Iterates(f, N, Str, empty, step)
  <2>1. \A n \in 1 .. N : \A text \in Str : step[<<n, text>>] \in Str
    BY <1>2, <1>3
  <2> QED
    BY <1>1, <1>4, <2>1, IterationExists
<1>6. Writes(f)
  <2>1. \A n \in 0 .. N : f[n] = IF n = 0 THEN empty ELSE Next1(n, f[n - 1])
    <3>1. TAKE n \in 0 .. N
    <3>2. CASE n = 0
      BY <1>5, <3>2 DEF Iterates
    <3>3. CASE n # 0
      <4>1. n \in 1 .. N /\ n - 1 \in 0 .. N
        BY <1>1, <3>3
      <4>2. f[n] = step[<<n, f[n - 1]>>] /\ f[n - 1] \in Str
        BY <1>5, <4>1 DEF Iterates
      <4> QED
        BY <1>3, <3>3, <4>1, <4>2
    <3> QED
      BY <3>2, <3>3
  <2>2. f = [n \in 0 .. N |-> IF n = 0 THEN empty ELSE Next1(n, f[n - 1])]
    BY <1>5, <2>1 DEF Iterates
  <2> QED
    BY <2>2 DEF Writes, N, empty, Next1
<1>7. Writes(Written)
  BY <1>6 DEF Written
<1>8. \A n \in 0 .. N : Written[n] = IF n = 0 THEN empty ELSE Next1(n, Written[n - 1])
  <2>1. Written = [n \in 0 .. N |-> IF n = 0 THEN empty ELSE Next1(n, Written[n - 1])]
    BY <1>7 DEF Writes, N, empty, Next1
  <2> QED
    BY ONLY <2>1
<1>9. Written[0] = empty
  BY <1>1, <1>8
<1>10. \A n \in 1 .. N : n \in 0 .. N /\ n # 0
  BY <1>1
<1>11. \A n \in 1 .. N : Written[n] = Next1(n, Written[n - 1])
  BY <1>8, <1>10
<1>12. \A n \in 0 .. N : Written[n] \in Str
  <2> DEFINE T == {n \in 0 .. N : Written[n] \in Str}
  <2>1. 0 \in T
    BY <1>1, <1>4, <1>9
  <2>2. \A n \in 1 .. N : n - 1 \in T => n \in T
    BY <1>2, <1>10, <1>11
  <2> HIDE DEF T
  <2>3. \A n \in 0 .. N : n \in T
    BY <1>1, <2>1, <2>2, Ascending
  <2> QED
    BY <2>3 DEF T
<1> QED
  BY <1>9, <1>11, <1>12 DEF N, empty, Next1

LEMMA PickedIs ==
  /\ Picked[0] = <<>>
  /\ \A n \in 0 .. Len(Candidates) : Picked[n] \in Seq(Range(Candidates))
  /\ \A n \in 1 .. Len(Candidates) :
       Picked[n] = IF Listed(Candidates[n]) THEN Append(Picked[n - 1], Candidates[n])
                   ELSE Picked[n - 1]
<1> DEFINE N == Len(Candidates)
           C == Range(Candidates)
           Lists == Seq(C)
           Next1(n, list) == IF Listed(Candidates[n]) THEN Append(list, Candidates[n])
                             ELSE list
           step == [x \in (1 .. N) \X Lists |-> Next1(x[1], x[2])]
           empty == <<>>
<1>1. N \in Nat /\ \A n \in 1 .. N : Candidates[n] \in C
  BY CandidatesAreShort
<1> HIDE DEF C
<1>2. \A n \in 1 .. N : \A list \in Lists : Next1(n, list) \in Lists
  BY <1>1
<1>4. empty \in Lists
  OBVIOUS
<1> HIDE DEF Next1, N, Lists
<1>3. \A n \in 1 .. N : \A list \in Lists : step[<<n, list>>] = Next1(n, list)
  OBVIOUS
<1> HIDE DEF step, empty
<1>5. PICK f : Iterates(f, N, Lists, empty, step)
  <2>1. \A n \in 1 .. N : \A list \in Lists : step[<<n, list>>] \in Lists
    BY <1>2, <1>3
  <2> QED
    BY <1>1, <1>4, <2>1, IterationExists
<1>6. Picks(f)
  <2>1. \A n \in 0 .. N : f[n] = IF n = 0 THEN empty ELSE Next1(n, f[n - 1])
    <3>1. TAKE n \in 0 .. N
    <3>2. CASE n = 0
      BY <1>5, <3>2 DEF Iterates
    <3>3. CASE n # 0
      <4>1. n \in 1 .. N /\ n - 1 \in 0 .. N
        BY <1>1, <3>3
      <4>2. f[n] = step[<<n, f[n - 1]>>] /\ f[n - 1] \in Lists
        BY <1>5, <4>1 DEF Iterates
      <4> QED
        BY <1>3, <3>3, <4>1, <4>2
    <3> QED
      BY <3>2, <3>3
  <2>2. f = [n \in 0 .. N |-> IF n = 0 THEN empty ELSE Next1(n, f[n - 1])]
    BY <1>5, <2>1 DEF Iterates
  <2> QED
    BY <2>2 DEF Picks, N, empty, Next1
<1>7. Picks(Picked)
  BY <1>6 DEF Picked
<1>8. \A n \in 0 .. N : Picked[n] = IF n = 0 THEN empty ELSE Next1(n, Picked[n - 1])
  <2>1. Picked = [n \in 0 .. N |-> IF n = 0 THEN empty ELSE Next1(n, Picked[n - 1])]
    BY <1>7 DEF Picks, N, empty, Next1
  <2> QED
    BY ONLY <2>1
<1>9. Picked[0] = empty
  BY <1>1, <1>8
<1>10. \A n \in 1 .. N : n \in 0 .. N /\ n # 0
  BY <1>1
<1>11. \A n \in 1 .. N : Picked[n] = Next1(n, Picked[n - 1])
  BY <1>8, <1>10
<1>12. \A n \in 0 .. N : Picked[n] \in Lists
  <2> DEFINE T == {n \in 0 .. N : Picked[n] \in Lists}
  <2>1. 0 \in T
    BY <1>1, <1>4, <1>9
  <2>2. \A n \in 1 .. N : n - 1 \in T => n \in T
    BY <1>2, <1>10, <1>11
  <2> HIDE DEF T
  <2>3. \A n \in 0 .. N : n \in T
    BY <1>1, <2>1, <2>2, Ascending
  <2> QED
    BY <2>3 DEF T
<1> QED
  BY <1>9, <1>11, <1>12 DEF N, empty, Next1, Lists, C
(* What is written stays. *)
LEMMA WrittenGrows ==
  ASSUME NEW n \in 0 .. Len(Candidates)
  PROVE  LET W == Written[Len(Candidates)]
         IN  /\ Len(Written[n]) \in 0 .. Len(W)
             /\ \A i \in 1 .. Len(Written[n]) : W[i] = Written[n][i]
<1> DEFINE N == Len(Candidates)
           Prefix(a, b) == Len(a) <= Len(b) /\ \A i \in 1 .. Len(a) : b[i] = a[i]
           T == {k \in 0 .. N : n <= k => Prefix(Written[n], Written[k])}
<1>1. N \in Nat
  BY CandidatesAreShort
<1>2. \A k \in 0 .. N : Written[k] \in Str /\ Len(Written[k]) \in Nat
  BY WrittenIs DEF Str
<1>3. \A a, b, c \in Str : Prefix(a, b) /\ Prefix(b, c) => Prefix(a, c)
  <2>1. TAKE a, b, c \in Str
  <2>2. Len(a) \in Nat /\ Len(b) \in Nat /\ Len(c) \in Nat
    BY DEF Str
  <2> QED
    BY <2>2
<1>4. \A k \in 0 .. N : Prefix(Written[k], Written[k])
  BY <1>2
<1>5. \A k \in 1 .. N : Prefix(Written[k - 1], Written[k])
  <2>1. TAKE k \in 1 .. N
  <2>2. k - 1 \in 0 .. N
    BY <1>1
  <2>3. CASE Listed(Candidates[k])
    <3> DEFINE line == Append(Candidates[k], NL)
               old == Written[k - 1]
    <3>1. Written[k] = old \o line
      BY <2>3, WrittenIs
    <3>2. line \in Str /\ old \in Str /\ Len(old) \in Nat /\ Len(line) \in Nat
      <4>1. line \in Str
        BY LineOfCandidate
      <4> HIDE DEF line
      <4> QED
        BY <1>2, <2>2, <4>1 DEF Str
    <3> HIDE DEF line, old
    <3>3. /\ Len(old \o line) = Len(old) + Len(line)
          /\ \A i \in 1 .. Len(old) + Len(line) :
               (old \o line)[i] = IF i <= Len(old) THEN old[i] ELSE line[i - Len(old)]
      <4> HIDE DEF Char
      <4> QED
        BY <3>2, ConcatProperties DEF Str
    <3>4. Prefix(old, old \o line)
      BY <3>2, <3>3
    <3> QED
      BY <3>1, <3>4 DEF old
  <2>4. CASE ~Listed(Candidates[k])
    <3>1. Written[k] = Written[k - 1]
      BY <2>4, WrittenIs
    <3> QED
      BY <1>4, <2>2, <3>1
  <2> QED
    BY <2>3, <2>4
<1> HIDE DEF Prefix
<1>6. 0 \in T
  <2>1. n <= 0 => n = 0
    BY <1>1
  <2> QED
    BY <1>1, <1>4, <2>1
<1>7. \A k \in 1 .. N : k - 1 \in T => k \in T
  <2>1. TAKE k \in 1 .. N
  <2>2. HAVE k - 1 \in T
  <2>3. k \in 0 .. N /\ k - 1 \in 0 .. N
    BY <1>1
  <2>4. ASSUME n <= k PROVE Prefix(Written[n], Written[k])
    <3>1. CASE n = k
      BY <1>4, <3>1
    <3>2. CASE n # k
      <4>1. n <= k - 1
        BY <2>4, <3>2
      <4>2. Prefix(Written[n], Written[k - 1])
        BY <2>2, <4>1
      <4> QED
        BY <1>2, <1>3, <1>5, <2>3, <4>2
    <3> QED
      BY <3>1, <3>2
  <2> QED
    BY <2>3, <2>4
<1> HIDE DEF T
<1>8. \A k \in 0 .. N : k \in T
  BY <1>1, <1>6, <1>7, Ascending
<1>9. N \in 0 .. N /\ n <= N
  BY <1>1
<1>10. Prefix(Written[n], Written[N])
  BY <1>8, <1>9 DEF T
<1> QED
  BY <1>2, <1>9, <1>10 DEF Prefix, N

(* Until all is read, another candidate is listed; and then none is.       *)
LEMMA NextListed ==
  ASSUME NEW n \in 0 .. Len(Candidates)
  PROVE  /\ Rest(n) # <<>> =>
              \E m \in 1 .. Len(Candidates) :
                /\ Listed(Candidates[m])
                /\ Written[m - 1] = Written[n] /\ Picked[m - 1] = Picked[n]
         /\ Rest(n) = <<>> => Picked[n] = Picked[Len(Candidates)]
<1> DEFINE N == Len(Candidates)
           Same(k) == Written[k] = Written[n] /\ Picked[k] = Picked[n]
           next == {m \in 1 .. N : Listed(Candidates[m]) /\ Same(m - 1)}
           T == {k \in 0 .. N : n <= k => Same(k)}
<1>1. N \in Nat
  BY CandidatesAreShort
<1>2. ASSUME next = {} PROVE Same(N)
  <2>1. 0 \in T
    BY <1>1
  <2>2. \A k \in 1 .. N : k - 1 \in T => k \in T
    <3>1. TAKE k \in 1 .. N
    <3>2. HAVE k - 1 \in T
    <3>3. CASE n = k
      BY <3>3
    <3>4. CASE n < k
      <4>1. n <= k - 1
        BY <3>4
      <4>2. Same(k - 1)
        BY <3>2, <4>1
      <4>3. ~Listed(Candidates[k])
        BY <1>2, <4>2
      <4>4. Written[k] = Written[k - 1] /\ Picked[k] = Picked[k - 1]
        BY <4>3, WrittenIs, PickedIs
      <4>5. k \in 0 .. N
        BY <1>1
      <4> QED
        BY <4>2, <4>4, <4>5
    <3>5. CASE k < n
      BY <1>1, <3>5
    <3> QED
      BY <3>3, <3>4, <3>5
  <2> HIDE DEF T
  <2>3. \A k \in 0 .. N : k \in T
    BY <1>1, <2>1, <2>2, Ascending
  <2>4. N \in 0 .. N /\ n <= N
    BY <1>1
  <2> QED
    BY <2>3, <2>4 DEF T
<1> DEFINE W == Written[N]
<1>3. /\ W \in Str /\ Len(W) \in Nat /\ Len(Written[n]) \in 0 .. Len(W)
  BY <1>1, WrittenGrows, WrittenIs DEF Str
<1>4. Rest(n) = SubSeq(W, Len(Written[n]) + 1, Len(W))
  BY DEF Rest
<1>5. Len(Rest(n)) = Len(W) - Len(Written[n])
  <2> DEFINE p == Len(Written[n])
  <2>1. p \in 0 .. Len(W) /\ Len(W) \in p .. Len(W)
    BY <1>3
  <2> HIDE DEF p, W
  <2>2. Len(SubSeq(W, p + 1, Len(W))) = Len(W) - p
    BY <1>3, <2>1, Slice
  <2> QED
    BY <1>4, <2>2 DEF p
<1>6. ASSUME Rest(n) # <<>>
      PROVE  \E m \in 1 .. N : Listed(Candidates[m]) /\ Same(m - 1)
  <2>1. SUFFICES ASSUME next = {} PROVE FALSE
    OBVIOUS
  <2>2. Written[n] = W
    BY <1>2, <2>1
  <2>3. Rest(n) = <<>>
    <3> DEFINE p == Len(W)
    <3>1. p \in Nat
      BY <1>3
    <3>2. Rest(n) = SubSeq(W, p + 1, p)
      BY <1>4, <2>2
    <3> HIDE DEF p, W
    <3> QED
      BY <3>1, <3>2, SubSeqEmpty
  <2> QED
    BY <1>6, <2>3
<1>7. ASSUME Rest(n) = <<>> PROVE Picked[n] = Picked[N]
  <2>1. Len(Written[n]) = Len(W)
    <3>1. Len(Rest(n)) = 0
      BY <1>7
    <3> HIDE DEF W
    <3> QED
      BY <1>3, <1>5, <3>1
  <2>2. next = {}
    <3>1. SUFFICES ASSUME NEW m \in next PROVE FALSE
      OBVIOUS
    <3>2. m \in 1 .. N /\ m \in 0 .. N /\ Listed(Candidates[m]) /\ Written[m - 1] = Written[n]
      BY <1>1, <3>1
    <3> DEFINE c == Candidates[m]
               line == Append(c, NL)
               old == Written[n]
    <3>3. Written[m] = old \o line
      BY <3>2, WrittenIs
    <3>4. line \in Str /\ Len(line) = Len(c) + 1 /\ Len(c) \in {2, 3}
      BY <3>2, LineOfCandidate
    <3>5. old \in Str
      BY WrittenIs
    <3>6. Len(Written[m]) \in 0 .. Len(W)
      BY <3>2, WrittenGrows
    <3> HIDE DEF c, line, old, W
    <3>7. Len(old \o line) = Len(old) + Len(line)
      <4> HIDE DEF Char
      <4> QED
        BY <3>4, <3>5, ConcatProperties DEF Str
    <3>8. Len(line) >= 3 /\ Len(line) \in Nat
      <4>1. Len(c) = 2 \/ Len(c) = 3
        BY <3>4
      <4>2. Len(line) = Len(c) + 1
        BY <3>4
      <4>3. CASE Len(c) = 2
        <5>1. Len(line) = 2 + 1
          BY <4>2, <4>3
        <5> QED
          BY <5>1
      <4>4. CASE Len(c) = 3
        <5>1. Len(line) = 3 + 1
          BY <4>2, <4>4
        <5> QED
          BY <5>1
      <4> QED
        BY <4>1, <4>3, <4>4
    <3>9. Len(old) = Len(W)
      BY ONLY <2>1 DEF old
    <3> QED
      BY <1>3, <3>3, <3>6, <3>7, <3>8, <3>9
  <2> QED
    BY <1>2, <2>2
<1> QED
  BY <1>6, <1>7
(* The server reads the next substring whole, with room for its newline.   *)
LEMMA SubstrIsRead ==
  ASSUME NEW n \in 0 .. Len(Candidates), unread = Rest(n), unread # <<>>
  PROVE  \E m \in 1 .. Len(Candidates) :
           /\ Listed(Candidates[m])
           /\ Last(fgets(unread, SUBSTR_LINE_LEN)) = NL
           /\ Front(fgets(unread, SUBSTR_LINE_LEN)) = Candidates[m]
           /\ Picked[m] = Append(Picked[n], Candidates[m])
           /\ After(unread, SUBSTR_LINE_LEN) = Rest(m)
<1> DEFINE N == Len(Candidates)
           W == Written[N]
<1>1. N \in Nat
  BY CandidatesAreShort
<1>2. PICK m \in 1 .. N : Listed(Candidates[m]) /\ Written[m - 1] = Written[n] /\ Picked[m - 1] = Picked[n]
  BY NextListed
<1> DEFINE c == Candidates[m]
           line == Append(c, NL)
           old == Written[n]
           p == Len(old)
           end == p + Len(c) + 1
<1>3. /\ c \in Str /\ Len(c) \in {2, 3} /\ \A i \in 1 .. Len(c) : c[i] # NL
      /\ line \in Str /\ Len(line) = Len(c) + 1
      /\ \A i \in 1 .. Len(c) : line[i] = c[i]
      /\ line[Len(c) + 1] = NL
  BY LineOfCandidate
<1>4. W \in Str /\ old \in Str /\ Len(W) \in Nat /\ p \in Nat /\ p <= Len(W)
  <2>1. W \in Str /\ old \in Str
    BY <1>1, WrittenIs
  <2>2. p \in 0 .. Len(W)
    BY WrittenGrows
  <2> QED
    BY <2>1, <2>2 DEF Str
<1>5. Written[m] = old \o line /\ m \in 0 .. N
  <2>1. m \in 0 .. N
    BY <1>1
  <2>2. Written[m] = Written[m - 1] \o Append(Candidates[m], NL)
    BY ONLY <1>2, WrittenIs
  <2> QED
    BY <1>2, <2>1, <2>2
<1> HIDE DEF c, line, old
<1>6. /\ Len(old \o line) = p + Len(line)
      /\ \A i \in 1 .. p + Len(line) :
           (old \o line)[i] = IF i <= p THEN old[i] ELSE line[i - p]
  <2> HIDE DEF Char, W
  <2> QED
    BY <1>3, <1>4, ConcatProperties DEF Str
<1>7. Len(Written[m]) = end /\ end <= Len(W)
  <2>1. Len(Written[m]) \in 0 .. Len(W)
    BY <1>5, WrittenGrows
  <2> HIDE DEF W
  <2> QED
    BY <1>3, <1>4, <1>5, <1>6, <2>1
<1>8. /\ \A i \in 1 .. Len(c) : W[p + i] = c[i]
      /\ W[end] = NL
  <2>1. \A i \in 1 .. end : W[i] = Written[m][i]
    BY <1>5, <1>7, WrittenGrows
  <2> HIDE DEF W
  <2>2. \A i \in 1 .. Len(c) + 1 : W[p + i] = line[i]
    <3>1. TAKE i \in 1 .. Len(c) + 1
    <3>2. /\ p + i \in 1 .. end /\ p + i \in 1 .. p + Len(line) /\ ~(p + i <= p)
          /\ (p + i) - p = i
      BY <1>3, <1>4
    <3> QED
      BY <1>5, <1>6, <2>1, <3>2
  <2>3. \A i \in 1 .. Len(c) : i \in 1 .. Len(c) + 1
    BY <1>3
  <2>4. Len(c) + 1 \in 1 .. Len(c) + 1 /\ p + (Len(c) + 1) = end
    BY <1>3, <1>4
  <2> QED
    BY <1>3, <2>2, <2>3, <2>4
<1>9. unread = SubSeq(W, p + 1, Len(W))
  BY DEF Rest, old
<1> HIDE DEF W, p
<1>10. PICK e \in p + 1 .. Len(W) : ReadsTo(W, p, unread, SUBSTR_LINE_LEN, e)
  <2>1. p \in 0 .. Len(W) /\ SUBSTR_LINE_LEN \in Nat \ {0, 1}
    BY <1>4 DEF SUBSTR_LINE_LEN
  <2> QED
    BY <1>4, <1>9, <2>1, ReadNext
<1>11. /\ fgets(unread, SUBSTR_LINE_LEN) = SubSeq(W, p + 1, e)
       /\ After(unread, SUBSTR_LINE_LEN) = SubSeq(W, e + 1, Len(W))
       /\ e <= p + 4
       /\ \A i \in p + 1 .. e - 1 : W[i] # NL
       /\ e = Len(W) \/ e = p + 4 \/ W[e] = NL
  <2>1. SUBSTR_LINE_LEN = 5 /\ p + 5 - 1 = p + 4
    BY <1>4 DEF SUBSTR_LINE_LEN
  <2> QED
    BY <1>10, <2>1 DEF ReadsTo
<1>12. e = end
  <2>1. ~(end < e)
    <3>1. end < e => end \in p + 1 .. e - 1
      BY <1>3, <1>4
    <3> QED
      BY <1>8, <1>11, <3>1
  <2>2. ~(e < end)
    <3>1. SUFFICES ASSUME e < end PROVE FALSE
      OBVIOUS
    <3>2. e - p \in 1 .. Len(c) /\ p + (e - p) = e
      BY <1>3, <1>4, <3>1
    <3>3. W[e] # NL
      BY <1>3, <1>8, <3>2
    <3>4. e # Len(W) /\ e # p + 4
      BY <1>3, <1>4, <1>7, <3>1, SMTT(30)
    <3> QED
      BY <1>11, <3>3, <3>4
  <2> QED
    BY <1>3, <1>4, <2>1, <2>2
<1> DEFINE got == SubSeq(W, p + 1, end)
<1>13. /\ got \in Str /\ Len(got) = Len(c) + 1
       /\ \A i \in 1 .. Len(c) : got[i] = c[i]
       /\ got[Len(c) + 1] = NL
  <2>1. p \in 0 .. Len(W) /\ end \in p .. Len(W) /\ end - p = Len(c) + 1
    BY <1>3, <1>4, <1>7
  <2> HIDE DEF end
  <2>2. /\ SubSeq(W, p + 1, end) \in Str
        /\ Len(SubSeq(W, p + 1, end)) = end - p
        /\ \A i \in 1 .. end - p : SubSeq(W, p + 1, end)[i] = W[p + i]
    BY <1>4, <2>1, Slice
  <2>3. p + (Len(c) + 1) = end /\ Len(c) + 1 \in 1 .. end - p
    BY <1>3, <1>4, <2>1 DEF end
  <2>4. \A i \in 1 .. Len(c) : i \in 1 .. end - p
    BY <1>3, <2>1
  <2> QED
    BY <1>8, <2>1, <2>2, <2>3, <2>4
<1> HIDE DEF got
<1>14. Last(got) = NL
  BY <1>13 DEF Last
<1>15. Front(got) = c
  <2>1. Len(got) - 1 = Len(c)
    BY <1>3, <1>13
  <2>2. Front(got) = SubSeq(got, 1, Len(c))
    BY <2>1 DEF Front
  <2>3. /\ SubSeq(got, 1, Len(c)) \in Str
        /\ Len(SubSeq(got, 1, Len(c))) = Len(c)
        /\ \A i \in 1 .. Len(c) : SubSeq(got, 1, Len(c))[i] = got[i]
    <3> DEFINE a == 0
               b == Len(c)
    <3>1. /\ a \in 0 .. Len(got) /\ b \in a .. Len(got) /\ a + 1 = 1 /\ b - a = b
          /\ \A i \in 1 .. b : a + i = i
      BY <1>3, <1>13
    <3> HIDE DEF a, b
    <3>2. /\ SubSeq(got, a + 1, b) \in Str
          /\ Len(SubSeq(got, a + 1, b)) = b - a
          /\ \A i \in 1 .. b - a : SubSeq(got, a + 1, b)[i] = got[a + i]
      BY <1>13, <3>1, Slice
    <3> QED
      BY <3>1, <3>2 DEF b
  <2>4. SubSeq(got, 1, Len(c)) = c
    <3> HIDE DEF Char
    <3> QED
      BY <1>3, <1>13, <2>3, SeqEqual DEF Str
  <2> QED
    BY <2>2, <2>4
<1>16. fgets(unread, SUBSTR_LINE_LEN) = got
  BY <1>11, <1>12 DEF got
<1>17. After(unread, SUBSTR_LINE_LEN) = Rest(m)
  <2>1. After(unread, SUBSTR_LINE_LEN) = SubSeq(W, Len(Written[m]) + 1, Len(W))
    BY <1>7, <1>11, <1>12
  <2> QED
    BY <2>1 DEF Rest, W
<1>18. Picked[m] = Append(Picked[n], c)
  BY <1>2, PickedIs DEF c
<1> QED
  BY <1>2, <1>14, <1>15, <1>16, <1>17, <1>18 DEF c
----------------------------------------------------------------------------
(* The initial states *)

LEMMA FileIsText == wordlist \in File => wordlist \in Str
BY WordListAssumption DEF Str, Char

(* A new table counts nothing. *)
LEMMA NothingCounted ==
  ASSUME HashIsANumber, NEW n \in Nat \ {0}, NEW str \in Str
  PROVE  c_set_get_count(set_create(n), str) = 0
<1> DEFINE s == set_create(n)
<1>1. Table(s) /\ s.bucket_num = n /\ Contents(s) = {}
  BY NewTable
<1> HIDE DEF s
<1>2. ~set_contains(s, str)
  BY <1>1, ContainedIsInContents
<1> QED
  BY <1>2 DEF c_set_get_count, s

LEMMA InitIInv ==
  ASSUME HashIsANumber, Init
  PROVE  IInv
<1>1. /\ wordlist \in File /\ wordlist \in Str /\ stage = "count" /\ unread = wordlist
      /\ substr_set = set_create(COUNT_BUCKETS) /\ substrs = <<>>
      /\ word_set = set_create(0) /\ required_substr = NoSubstr /\ fault = "none"
  BY FileIsText DEF Init
<1>2. Len(wordlist) \in Nat /\ Position = 0
  <2>1. Len(wordlist) \in Nat
    BY <1>1 DEF Str
  <2> QED
    BY <1>1, <2>1 DEF Position
<1>3. COUNT_BUCKETS \in Nat \ {0}
  BY WordListAssumption
<1>4. /\ Table(substr_set) /\ substr_set.bucket_num > 0
      /\ Table(word_set)
  <2>1. Table(set_create(COUNT_BUCKETS)) /\ set_create(COUNT_BUCKETS).bucket_num = COUNT_BUCKETS
    BY <1>3, NewTable
  <2>2. Table(set_create(0))
    BY NewTable
  <2> QED
    BY <1>1, <1>3, <2>1, <2>2
<1>5. Reading
  <2>1. SubSeq(wordlist, 1, Len(wordlist)) = wordlist
    <3> HIDE DEF Char
    <3> QED
      BY <1>1, SubSeqFull DEF Str
  <2>2. unread # <<>> => 1 \in LineStarts
    <3>1. unread # <<>> => 1 \in 1 .. Len(wordlist)
      BY <1>1, <1>2 DEF Str
    <3> QED
      BY <3>1 DEF LineStarts
  <2>3. 0 + 1 = 1
    OBVIOUS
  <2> QED
    BY <1>1, <1>2, <2>1, <2>2, <2>3 DEF Reading
<1>6. Counted
  <2>1. ASSUME NEW str \in Range(Candidates)
        PROVE  c_set_get_count(substr_set, str) = Cardinality(OccurrencesTo(str, Position))
    <3>1. str \in Str
      <4>1. PICK n \in 1 .. Len(Candidates) : str = Candidates[n]
        BY CandidatesAreShort
      <4> QED
        BY <4>1, LineOfCandidate
    <3>2. c_set_get_count(substr_set, str) = 0
      BY <1>1, <1>3, <3>1, NothingCounted
    <3>3. OccurrencesTo(str, 0) = {}
      <4>1. SUFFICES ASSUME NEW place \in OccurrencesTo(str, 0) PROVE FALSE
        OBVIOUS
      <4>2. place[1] \in LineStarts /\ place[1] <= 0
        BY DEF OccurrencesTo, Occurrences
      <4>3. place[1] \in 1 .. Len(wordlist)
        BY <4>2 DEF LineStarts
      <4> QED
        BY <4>2, <4>3
    <3>4. Cardinality({}) = 0
      BY FS_EmptySet
    <3> QED
      BY <1>2, <3>2, <3>3, <3>4
  <2> QED
    BY <1>1, <2>1 DEF Counted
<1>7. ListIsRead /\ WordsSoFar
  BY <1>1 DEF ListIsRead, WordsSoFar
<1>8. SubstrsAreListed
  <2>1. <<>> \in Seq(Range(Candidates))
    OBVIOUS
  <2> QED
    BY <1>1, <2>1 DEF SubstrsAreListed
<1> QED
  BY <1>1, <1>4, <1>5, <1>6, <1>7, <1>8 DEF IInv

----------------------------------------------------------------------------
(* The steps *)

(* What the file says does not change, nor what is listed once it is.      *)
LEMMA FileStays ==
  ASSUME wordlist' = wordlist
  PROVE  /\ LineStarts' = LineStarts /\ LinesFit' = LinesFit
         /\ \A p : Started(p)' = Started(p)
         /\ \A p : LineAt(p)' = LineAt(p)
         /\ \A str : Occurrences(str)' = Occurrences(str)
<1>1. LineStarts' = LineStarts
  BY DEF LineStarts
<1>2. \A p : LineAt(p)' = LineAt(p)
  BY DEF LineAt, LineEnd
<1>3. LinesFit' = LinesFit
  BY <1>1, <1>2 DEF LinesFit
<1>4. \A p : Started(p)' = Started(p)
  BY <1>1 DEF Started
<1>5. \A str : Occurrences(str)' = Occurrences(str)
  BY <1>1, <1>2 DEF Occurrences
<1> QED
  BY <1>1, <1>2, <1>3, <1>4, <1>5

LEMMA ListStays ==
  ASSUME substr_set' = substr_set
  PROVE  /\ Written' = Written /\ Picked' = Picked
         /\ \A n : Rest(n)' = Rest(n)
         /\ \A str : Listed(str)' = Listed(str)
<1>1. \A str : Listed(str)' = Listed(str)
  BY DEF Listed
<1>2. \A f : Writes(f)' = Writes(f)
  BY <1>1 DEF Writes
<1>3. \A f : Picks(f)' = Picks(f)
  BY <1>1 DEF Picks
<1>4. Written' = Written
  BY <1>2 DEF Written
<1>5. Picked' = Picked
  BY <1>3 DEF Picked
<1>6. \A n : Rest(n)' = Rest(n)
  BY <1>4 DEF Rest
<1> QED
  BY <1>1, <1>4, <1>5, <1>6
(* One call of fgets() on the word list, by either program. *)
LEMMA WordIsRead ==
  ASSUME IInv, stage # "load_substrs", unread # <<>>,
         NEW size \in {COUNT_LINE_LEN, MAX_WORD_LEN},
         wordlist' = wordlist, unread' = After(unread, size)
  PROVE  LET word == Trim(fgets(unread, size))
         IN  /\ Position \in 0 .. Len(wordlist) /\ Position' \in Position + 1 .. Len(wordlist)
             /\ word \in Str /\ unread' \in Str /\ Reading'
             /\ LinesFit => /\ word = LineAt(Position + 1) /\ Position + 1 \in LineStarts
                            /\ Started(Position') = Started(Position) \cup {Position + 1}
<1> DEFINE p == Position
           word == Trim(fgets(unread, size))
<1>1. /\ wordlist \in Str /\ unread \in Str
      /\ Len(unread) <= Len(wordlist)
      /\ unread = SubSeq(wordlist, p + 1, Len(wordlist))
      /\ LinesFit => p + 1 \in LineStarts
  BY FileIsText DEF IInv, Reading
<1>2. Len(wordlist) \in Nat /\ Len(unread) \in Nat /\ p = Len(wordlist) - Len(unread)
  BY <1>1 DEF Str, Position
<1>3. p \in 0 .. Len(wordlist) /\ p \in Nat
  BY <1>1, <1>2
<1>4. size \in Nat \ {0, 1}
  BY WordListAssumption
<1>5. LinesFit => \A start \in LineStarts : Len(LineAt(start)) + 2 < size
  BY DEF LinesFit
<1> HIDE DEF p
<1>5a. PICK e \in p + 1 .. Len(wordlist) : LineRead(p, unread, size, e)
  BY <1>1, <1>3, <1>4, ReadLine
<1>6. /\ After(unread, size) = SubSeq(wordlist, e + 1, Len(wordlist))
      /\ word \in Str
      /\ /\ p + 1 \in LineStarts
         /\ Len(LineAt(p + 1)) + 2 < size
         => /\ word = LineAt(p + 1)
            /\ e < Len(wordlist) => e + 1 \in LineStarts
            /\ Started(e) = Started(p) \cup {p + 1}
  BY <1>5a DEF LineRead
<1>7. /\ LinesFit => /\ word = LineAt(p + 1) /\ p + 1 \in LineStarts
                     /\ e < Len(wordlist) => e + 1 \in LineStarts
                     /\ Started(e) = Started(p) \cup {p + 1}
  <2> HIDE DEF word
  <2> QED
    BY <1>1, <1>5, <1>6
<1> HIDE DEF word
<1>8. e \in 0 .. Len(wordlist) /\ Len(wordlist) \in e .. Len(wordlist)
  BY <1>2, <1>3
<1>9. unread' \in Str /\ Len(unread') = Len(wordlist) - e
  <2>1. unread' = SubSeq(wordlist, e + 1, Len(wordlist))
    BY <1>6
  <2>2. /\ SubSeq(wordlist, e + 1, Len(wordlist)) \in Str
        /\ Len(SubSeq(wordlist, e + 1, Len(wordlist))) = Len(wordlist) - e
    BY ONLY <1>1, <1>8, Slice, SMTT(30)
  <2> QED
    BY ONLY <2>1, <2>2
<1>10. Position' = e
  BY <1>2, <1>8, <1>9 DEF Position
<1>11. Reading'
  <2>1. Len(unread') <= Len(wordlist')
    BY <1>2, <1>8, <1>9
  <2>2. unread' = SubSeq(wordlist', Position' + 1, Len(wordlist'))
    BY <1>6, <1>10
  <2>3. LinesFit' /\ unread' # <<>> => Position' + 1 \in LineStarts'
    <3>1. SUFFICES ASSUME LinesFit, unread' # <<>> PROVE e + 1 \in LineStarts
      BY <1>10, FileStays
    <3>2. Len(unread') # 0
      BY <1>9, <3>1 DEF Str
    <3>3. e < Len(wordlist)
      BY <1>2, <1>8, <1>9, <3>2
    <3> QED
      BY <1>7, <3>1, <3>3
  <2> QED
    BY <2>1, <2>2, <2>3 DEF Reading
<1>12. /\ Position = p /\ Position' \in p + 1 .. Len(wordlist)
       /\ LinesFit => Started(Position') = Started(p) \cup {p + 1}
  BY <1>7, <1>10 DEF p
<1> QED
  BY <1>3, <1>6, <1>7, <1>9, <1>11, <1>12 DEF word

LEMMA CountWordStep ==
  ASSUME HashIsANumber, IInv, CountWord
  PROVE  IInv'
<1> DEFINE word == Trim(fgets(unread, COUNT_LINE_LEN))
           p == Position
<1>1. /\ stage = "count" /\ unread # <<>>
      /\ substr_set' = get_substrs_from_word(get_substrs_from_word(substr_set, word, 2), word, 3)
      /\ unread' = After(unread, COUNT_LINE_LEN)
      /\ wordlist' = wordlist /\ stage' = stage /\ substrs' = substrs /\ word_set' = word_set
      /\ required_substr' = required_substr /\ fault' = fault
  BY DEF CountWord
<1>2. /\ p \in 0 .. Len(wordlist) /\ Position' \in p + 1 .. Len(wordlist)
      /\ word \in Str /\ unread' \in Str /\ Reading'
      /\ LinesFit => /\ word = LineAt(p + 1) /\ p + 1 \in LineStarts
                     /\ Started(Position') = Started(p) \cup {p + 1}
  BY <1>1, WordIsRead
<1>3. wordlist \in Str /\ Table(substr_set) /\ substr_set.bucket_num > 0
  BY FileIsText DEF IInv
<1> HIDE DEF word, p
<1>4. /\ Table(substr_set') /\ substr_set'.bucket_num = substr_set.bucket_num
      /\ \A t \in Str : Len(t) \in {2, 3} =>
           c_set_get_count(substr_set', t)
             = c_set_get_count(substr_set, t) + Cardinality(InWord(word, t))
  BY <1>1, <1>2, <1>3, CountingBothLengths
<1>5. Counted'
  <2>0. PICK e \in p + 1 .. Len(wordlist) : e = Position'
    BY <1>2
  <2>1. SUFFICES ASSUME LinesFit, NEW str \in Range(Candidates)
                 PROVE  c_set_get_count(substr_set', str) = Cardinality(OccurrencesTo(str, e))
    BY <1>1, <2>0, FileStays DEF Counted, OccurrencesTo
  <2>2. str \in Str /\ Len(str) \in {2, 3}
    <3>1. PICK n \in 1 .. Len(Candidates) : str = Candidates[n]
      BY CandidatesAreShort
    <3> QED
      BY <3>1, LineOfCandidate
  <2>3. c_set_get_count(substr_set, str) = Cardinality(OccurrencesTo(str, p))
    BY <1>1, <2>1 DEF IInv, Counted, p
  <2>5. Cardinality(OccurrencesTo(str, e))
          = Cardinality(OccurrencesTo(str, p)) + Cardinality(InWord(LineAt(p + 1), str))
    <3>1. p + 1 \in LineStarts /\ Started(e) = Started(p) \cup {p + 1}
      BY <1>2, <2>0, <2>1
    <3> QED
      BY <1>2, <1>3, <2>2, <3>1, OccurrencesInLine
  <2> QED
    BY <1>2, <1>4, <2>1, <2>2, <2>3, <2>5
<1>6. ListIsRead' /\ WordsSoFar'
  BY <1>1 DEF ListIsRead, WordsSoFar
<1>7. SubstrsAreListed'
  BY <1>1 DEF IInv, SubstrsAreListed
<1> QED
  BY <1>1, <1>2, <1>4, <1>5, <1>6, <1>7 DEF IInv
(* The generator has read all. *)
LEMMA AllIsRead ==
  ASSUME IInv, stage # "load_substrs", unread = <<>>
  PROVE  wordlist \in Str /\ Len(wordlist) \in Nat /\ Position = Len(wordlist)
<1>1. wordlist \in Str /\ Len(wordlist) \in Nat
  BY FileIsText DEF IInv, Str
<1>2. Len(unread) = 0
  OBVIOUS
<1> QED
  BY <1>1, <1>2 DEF Position

LEMMA WriteListStep ==
  ASSUME IInv, WriteList
  PROVE  IInv'
<1>1. /\ stage = "count" /\ unread = <<>> /\ stage' = "load_substrs"
      /\ wordlist' = wordlist /\ substr_set' = substr_set /\ substrs' = substrs
      /\ word_set' = word_set /\ required_substr' = required_substr /\ fault' = fault
  BY DEF WriteList
<1>2. unread' = Written[Len(Candidates)]
  BY DEF WriteList, Written, Writes
<1>3. unread' \in Str
  <2>1. Len(Candidates) \in 0 .. Len(Candidates)
    BY CandidatesAreShort
  <2> QED
    BY <1>2, <2>1, WrittenIs
<1>4. ListIsRead'
  <2> DEFINE W == Written[Len(Candidates)]
  <2>1. 0 \in 0 .. Len(Candidates)
    BY CandidatesAreShort
  <2>2. Rest(0) = W
    <3>1. Written[0] = <<>>
      BY WrittenIs
    <3>2. Rest(0) = SubSeq(W, Len(Written[0]) + 1, Len(W))
      BY DEF Rest
    <3>3. Len(<<>>) + 1 = 1
      OBVIOUS
    <3>4. Rest(0) = SubSeq(W, 1, Len(W))
      BY <3>1, <3>2, <3>3
    <3>5. W \in Str
      BY <1>2, <1>3
    <3> HIDE DEF W, Char
    <3> QED
      BY <3>4, <3>5, SubSeqFull DEF Str
  <2>3. substrs = Picked[0]
    BY <1>1, PickedIs DEF IInv, SubstrsAreListed
  <2>4. unread' = Rest(0)' /\ substrs' = Picked'[0]
    BY <1>1, <1>2, <2>2, <2>3, ListStays
  <2> QED
    BY <2>1, <2>4 DEF ListIsRead
<1>5. Counted'
  <2>1. Position = Len(wordlist)
    BY <1>1, AllIsRead
  <2>2. Counted
    BY DEF IInv
  <2> QED
    BY <1>1, <2>1, <2>2, FileStays DEF Counted, OccurrencesTo
<1>6. SubstrsAreListed'
  <2>1. substrs = <<>> /\ Len(<<>>) = 0 /\ required_substr = NoSubstr /\ NoSubstr' = NoSubstr
    BY <1>1 DEF IInv, SubstrsAreListed, NoSubstr
  <2>2. substrs' \in Seq(Range(Candidates))
    BY <1>1 DEF IInv, SubstrsAreListed
  <2> QED
    BY <1>1, <2>1, <2>2 DEF SubstrsAreListed
<1>7. Reading' /\ WordsSoFar'
  BY <1>1 DEF Reading, WordsSoFar
<1> QED
  BY <1>1, <1>3, <1>4, <1>5, <1>6, <1>7 DEF IInv

LEMMA LoadSubstrStep ==
  ASSUME IInv, LoadSubstr
  PROVE  IInv'
<1>1. /\ stage = "load_substrs" /\ unread # <<>> /\ stage' = stage
      /\ wordlist' = wordlist /\ substr_set' = substr_set
      /\ word_set' = word_set /\ required_substr' = required_substr
  BY DEF LoadSubstr
<1>2. PICK n \in 0 .. Len(Candidates) : unread = Rest(n) /\ substrs = Picked[n]
  BY <1>1 DEF IInv, ListIsRead
<1>3. PICK m \in 1 .. Len(Candidates) :
        /\ Listed(Candidates[m])
        /\ Last(fgets(unread, SUBSTR_LINE_LEN)) = NL
        /\ Front(fgets(unread, SUBSTR_LINE_LEN)) = Candidates[m]
        /\ Picked[m] = Append(Picked[n], Candidates[m])
        /\ After(unread, SUBSTR_LINE_LEN) = Rest(m)
  BY <1>1, <1>2, SubstrIsRead
<1>4. substrs' = Picked[m] /\ unread' = Rest(m) /\ fault' = fault
  BY <1>2, <1>3 DEF LoadSubstr
<1>5. m \in 0 .. Len(Candidates)
  BY CandidatesAreShort
<1>6. unread' \in Str
  <2> DEFINE W == Written[Len(Candidates)]
             p == Len(Written[m])
  <2>1. Len(Candidates) \in 0 .. Len(Candidates)
    BY CandidatesAreShort
  <2>2. W \in Str /\ p \in 0 .. Len(W)
    BY <1>5, <2>1, WrittenIs, WrittenGrows
  <2>3. Len(W) \in p .. Len(W)
    BY <2>2 DEF Str
  <2>4. unread' = SubSeq(W, p + 1, Len(W))
    BY <1>4 DEF Rest
  <2> HIDE DEF W, p
  <2> QED
    BY <2>2, <2>3, <2>4, Slice
<1>7. ListIsRead'
  <2>1. unread' = Rest(m)' /\ substrs' = Picked'[m]
    BY <1>1, <1>4, ListStays
  <2> QED
    BY <1>5, <2>1 DEF ListIsRead
<1>8. SubstrsAreListed'
  <2>1. /\ substrs \in Seq(Range(Candidates))
        /\ \A i \in 1 .. Len(substrs) : Listed(substrs[i])
        /\ ~(required_substr # NoSubstr)
    BY <1>1 DEF IInv, SubstrsAreListed
  <2>2. substrs' \in Seq(Range(Candidates))
    BY <1>4, <1>5, PickedIs
  <2>3. substrs' = Append(substrs, Candidates[m])
    BY <1>2, <1>3, <1>4
  <2>4. \A i \in 1 .. Len(substrs') : Listed(substrs'[i])
    <3> DEFINE C == Range(Candidates)
               c == Candidates[m]
    <3>1. substrs \in Seq(C) /\ c \in C
      BY <2>1, CandidatesAreShort
    <3> HIDE DEF C, c
    <3>2. /\ Len(Append(substrs, c)) = Len(substrs) + 1 /\ Len(substrs) \in Nat
          /\ \A i \in 1 .. Len(substrs) : Append(substrs, c)[i] = substrs[i]
          /\ Append(substrs, c)[Len(substrs) + 1] = c
      BY <3>1, AppendProperties
    <3>3. substrs' = Append(substrs, c)
      BY <2>3 DEF c
    <3>4. \A i \in 1 .. Len(substrs) + 1 : i \in 1 .. Len(substrs) \/ i = Len(substrs) + 1
      BY <3>2
    <3>5. Listed(c)
      BY <1>3 DEF c
    <3> QED
      BY <2>1, <3>2, <3>3, <3>4, <3>5
  <2>5. \A i \in 1 .. Len(substrs') :
          c_set_get_count(substr_set', substrs'[i]) >= OCCURENCES_THRESHOLD
    BY <1>1, <2>4 DEF Listed
  <2> QED
    BY <1>1, <2>1, <2>2, <2>5 DEF SubstrsAreListed, Listed, NoSubstr
<1>9. Reading' /\ WordsSoFar'
  BY <1>1 DEF Reading, WordsSoFar
<1>10. Counted'
  BY <1>1, FileStays DEF IInv, Counted, OccurrencesTo
<1> QED
  BY <1>1, <1>4, <1>6, <1>7, <1>8, <1>9, <1>10 DEF IInv

LEMMA OpenWordlistStep ==
  ASSUME IInv, OpenWordlist
  PROVE  IInv'
<1>1. /\ stage = "load_substrs" /\ unread = <<>> /\ stage' = "load_words" /\ unread' = wordlist
      /\ word_set' = set_create((lines(wordlist) * 13) \div 10)
      /\ wordlist' = wordlist /\ substr_set' = substr_set /\ substrs' = substrs
      /\ required_substr' = required_substr /\ fault' = fault
  BY DEF OpenWordlist
<1>2. wordlist \in Str /\ Len(wordlist) \in Nat
  BY FileIsText DEF IInv, Str
<1>3. (lines(wordlist) * 13) \div 10 \in Nat
  <2>1. Places(wordlist, NL) \in SUBSET (1 .. Len(wordlist))
    BY DEF Places
  <2>2. lines(wordlist) \in Nat
    BY <1>2, <2>1, BelowFinite DEF lines
  <2> QED
    BY <2>2
<1>4. Table(word_set') /\ Contents(word_set') = {}
  <2> DEFINE n == (lines(wordlist) * 13) \div 10
  <2>1. n \in Nat /\ word_set' = set_create(n)
    BY <1>1, <1>3
  <2> HIDE DEF n
  <2> QED
    BY <2>1, NewTable
<1>5. Position' = 0
  BY <1>1, <1>2 DEF Position
<1>6. Reading'
  <2>1. SubSeq(wordlist, 1, Len(wordlist)) = wordlist
    <3> HIDE DEF Char
    <3> QED
      BY <1>2, SubSeqFull DEF Str
  <2>2. wordlist # <<>> => 1 \in LineStarts
    <3>1. wordlist # <<>> => 1 \in 1 .. Len(wordlist)
      BY <1>2 DEF Str
    <3> QED
      BY <3>1 DEF LineStarts
  <2>3. 0 + 1 = 1
    OBVIOUS
  <2> QED
    BY <1>1, <1>2, <1>5, <2>1, <2>2, <2>3, FileStays DEF Reading
<1>7. WordsSoFar'
  <2>1. Started(0) = {}
    <3>1. \A start \in LineStarts : ~(start <= 0)
      <4>1. \A start \in 1 .. Len(wordlist) : ~(start <= 0)
        OBVIOUS
      <4> QED
        BY <4>1 DEF LineStarts
    <3> QED
      BY <3>1 DEF Started
  <2>2. Started(Position)' = {}
    <3>1. Started(0)' = {}
      BY <1>1, <2>1, FileStays
    <3> QED
      BY <1>5, <3>1 DEF Started
  <2>3. {LineAt(start) : start \in Started(Position)}' = {}
    BY <2>2
  <2> QED
    BY <1>1, <1>4, <1>5, <2>3 DEF WordsSoFar
<1>8. SubstrsAreListed'
  <2>1. PICK n \in 0 .. Len(Candidates) : Rest(n) = <<>> /\ substrs = Picked[n]
    BY <1>1 DEF IInv, ListIsRead
  <2>2. substrs = Picked[Len(Candidates)]
    BY <2>1, NextListed
  <2>3. substrs' = Picked'[Len(Candidates)]
    BY <1>1, <2>2, ListStays
  <2>4. /\ substrs' \in Seq(Range(Candidates))
        /\ \A i \in 1 .. Len(substrs') :
             c_set_get_count(substr_set', substrs'[i]) >= OCCURENCES_THRESHOLD
        /\ ~(required_substr' # NoSubstr)
    BY <1>1 DEF IInv, SubstrsAreListed, Listed
  <2> QED
    BY <1>1, <2>3, <2>4 DEF SubstrsAreListed, Listed, NoSubstr
<1>9. Counted' /\ ListIsRead'
  BY <1>1, FileStays DEF IInv, Counted, OccurrencesTo, ListIsRead
<1> QED
  BY <1>1, <1>2, <1>4, <1>6, <1>7, <1>8, <1>9 DEF IInv
LEMMA LoadWordStep ==
  ASSUME HashIsANumber, IInv, LoadWord
  PROVE  IInv'
<1>1. /\ stage = "load_words" /\ unread # <<>> /\ stage' = stage
      /\ wordlist' = wordlist /\ substr_set' = substr_set /\ substrs' = substrs
      /\ required_substr' = required_substr
  BY DEF LoadWord
<1>2. Counted' /\ ListIsRead'
  BY <1>1, FileStays DEF IInv, Counted, OccurrencesTo, ListIsRead
<1>3. SubstrsAreListed'
  BY <1>1, ListStays DEF IInv, SubstrsAreListed, Listed, NoSubstr
<1>4. CASE word_set.bucket_num = 0
  <2>1. fault' = "division" /\ word_set' = word_set /\ unread' = unread
    BY <1>4 DEF LoadWord
  <2>2. Position' = Position
    BY <1>1, <2>1 DEF Position
  <2>3. Reading'
    BY <1>1, <2>1, <2>2, FileStays DEF IInv, Reading
  <2>4. WordsSoFar'
    BY <1>1, <2>1, <2>2, FileStays DEF IInv, WordsSoFar, Started
  <2> QED
    BY <1>1, <1>2, <1>3, <2>1, <2>3, <2>4 DEF IInv
<1>5. CASE word_set.bucket_num # 0
  <2> DEFINE word == Trim(fgets(unread, MAX_WORD_LEN))
             p == Position
  <2>1. /\ word_set' = set_insert(word_set, word) /\ unread' = After(unread, MAX_WORD_LEN)
        /\ fault' = fault
    BY <1>5 DEF LoadWord
  <2>2. /\ p \in 0 .. Len(wordlist) /\ Position' \in p + 1 .. Len(wordlist)
        /\ word \in Str /\ unread' \in Str /\ Reading'
        /\ LinesFit => /\ word = LineAt(p + 1)
                       /\ Started(Position') = Started(p) \cup {p + 1}
    BY <1>1, <2>1, WordIsRead
  <2>3. Table(word_set) /\ word_set.bucket_num > 0
    BY <1>5 DEF IInv, Table
  <2> HIDE DEF word, p
  <2>4. /\ Table(word_set') /\ word_set'.bucket_num = word_set.bucket_num
        /\ Contents(word_set') = Contents(word_set) \cup {word}
    BY <2>1, <2>2, <2>3, PlainInsert
  <2>5. ASSUME LinesFit
        PROVE  Contents(word_set') = {LineAt(start) : start \in Started(Position)}'
    <3>1. PICK e \in p + 1 .. Len(wordlist) : e = Position'
      BY <2>2
    <3>2. Contents(word_set) = {LineAt(start) : start \in Started(p)}
      BY <1>1, <2>5 DEF IInv, WordsSoFar, p
    <3>3. Contents(word_set') = {LineAt(start) : start \in Started(e)}
      BY <2>2, <2>4, <2>5, <3>1, <3>2
    <3>4. {LineAt(start) : start \in Started(Position)}' = {LineAt(start) : start \in Started(e)}
      <4>1. Started(Position)' = Started(e)
        BY <1>1, <3>1, FileStays DEF Started
      <4>2. \A start : LineAt(start)' = LineAt(start)
        BY <1>1, FileStays
      <4> QED
        BY <4>1, <4>2
    <3> QED
      BY <3>3, <3>4
  <2>6. WordsSoFar'
    BY <1>1, <2>3, <2>4, <2>5, FileStays DEF WordsSoFar
  <2> QED
    BY <1>1, <1>2, <1>3, <2>1, <2>2, <2>4, <2>6 DEF IInv
<1> QED
  BY <1>4, <1>5

LEMMA WordsLoadedStep ==
  ASSUME IInv, WordsLoaded
  PROVE  IInv'
<1>1. /\ stage = "load_words" /\ unread = <<>> /\ stage' = "game"
      /\ wordlist' = wordlist /\ unread' = unread /\ substr_set' = substr_set
      /\ substrs' = substrs /\ word_set' = word_set
      /\ required_substr' = required_substr /\ fault' = fault
  BY DEF WordsLoaded
<1>2. Counted' /\ ListIsRead'
  BY <1>1, FileStays DEF IInv, Counted, OccurrencesTo, ListIsRead
<1>3. SubstrsAreListed'
  BY <1>1, ListStays DEF IInv, SubstrsAreListed, Listed, NoSubstr
<1>4. Position' = Position
  BY <1>1 DEF Position
<1>5. Reading'
  BY <1>1, <1>4, FileStays DEF IInv, Reading
<1>6. WordsSoFar'
  BY <1>1, <1>4, FileStays DEF IInv, WordsSoFar, Started
<1> QED
  BY <1>1, <1>2, <1>3, <1>5, <1>6 DEF IInv

LEMMA RequireStep ==
  ASSUME IInv, get_random_required_substr
  PROVE  IInv'
<1>1. /\ stage = "game" /\ stage' = stage
      /\ wordlist' = wordlist /\ unread' = unread /\ substr_set' = substr_set
      /\ substrs' = substrs /\ word_set' = word_set
      /\ fault' \in {fault, "division"}
      /\ required_substr' # required_substr =>
           \E index \in 1 .. Len(substrs) : required_substr' = substrs[index]
  BY DEF get_random_required_substr
<1>2. Counted' /\ ListIsRead'
  BY <1>1, FileStays DEF IInv, Counted, OccurrencesTo, ListIsRead
<1>3. required_substr' # NoSubstr => required_substr' \in Range(substrs)
  <2>1. substrs \in Seq(Range(Candidates))
    BY DEF IInv, SubstrsAreListed
  <2>2. CASE required_substr' = required_substr
    BY <2>2 DEF IInv, SubstrsAreListed
  <2>3. CASE required_substr' # required_substr
    <3>1. PICK index \in 1 .. Len(substrs) : required_substr' = substrs[index]
      BY <1>1, <2>3
    <3>2. index \in DOMAIN substrs
      BY <2>1
    <3> QED
      BY <3>1, <3>2 DEF Range
  <2> QED
    BY <2>2, <2>3
<1>4. SubstrsAreListed'
  <2>1. /\ substrs' \in Seq(Range(Candidates))
        /\ \A i \in 1 .. Len(substrs') :
             c_set_get_count(substr_set', substrs'[i]) >= OCCURENCES_THRESHOLD
        /\ substrs' = Picked'[Len(Candidates)]
    BY <1>1, ListStays DEF IInv, SubstrsAreListed, Listed
  <2> QED
    BY <1>1, <1>3, <2>1 DEF SubstrsAreListed, Listed, NoSubstr
<1>5. Position' = Position
  BY <1>1 DEF Position
<1>6. Reading'
  BY <1>1, <1>5, FileStays DEF IInv, Reading
<1>7. WordsSoFar'
  BY <1>1, <1>5, FileStays DEF IInv, WordsSoFar, Started
<1> QED
  BY <1>1, <1>2, <1>4, <1>6, <1>7 DEF IInv

LEMMA NothingChanges ==
  ASSUME IInv, UNCHANGED vars
  PROVE  IInv'
<1>1. /\ stage' = stage /\ wordlist' = wordlist /\ unread' = unread /\ substr_set' = substr_set
      /\ substrs' = substrs /\ word_set' = word_set
      /\ required_substr' = required_substr /\ fault' = fault
  BY DEF vars
<1>2. Counted'
  BY <1>1, FileStays DEF IInv, Counted, OccurrencesTo, Position
<1>3. ListIsRead'
  BY <1>1, ListStays DEF IInv, ListIsRead
<1>4. SubstrsAreListed'
  BY <1>1, ListStays DEF IInv, SubstrsAreListed, Listed, NoSubstr
<1>5. Position' = Position
  BY <1>1 DEF Position
<1>6. Reading'
  BY <1>1, <1>5, FileStays DEF IInv, Reading
<1>7. WordsSoFar'
  BY <1>1, <1>5, FileStays DEF IInv, WordsSoFar, Started
<1> QED
  BY <1>1, <1>2, <1>3, <1>4, <1>6, <1>7 DEF IInv

LEMMA Inductive == HashIsANumber /\ Spec => []IInv
<1> SUFFICES ASSUME HashIsANumber PROVE Spec => []IInv
  OBVIOUS
<1>1. Init => IInv
  BY InitIInv
<1>2. IInv /\ [Next]_vars => IInv'
  <2>1. SUFFICES ASSUME IInv, Next \/ UNCHANGED vars PROVE IInv'
    OBVIOUS
  <2>2. CASE CountWord
    BY <2>1, <2>2, CountWordStep
  <2>3. CASE WriteList
    BY <2>1, <2>3, WriteListStep
  <2>4. CASE LoadSubstr
    BY <2>1, <2>4, LoadSubstrStep
  <2>5. CASE OpenWordlist
    BY <2>1, <2>5, OpenWordlistStep
  <2>6. CASE LoadWord
    BY <2>1, <2>6, LoadWordStep
  <2>7. CASE WordsLoaded
    BY <2>1, <2>7, WordsLoadedStep
  <2>8. CASE get_random_required_substr
    BY <2>1, <2>8, RequireStep
  <2>9. CASE Dead \/ UNCHANGED vars
    BY <2>1, <2>9, NothingChanges DEF Dead
  <2> QED
    BY <2>1, <2>2, <2>3, <2>4, <2>5, <2>6, <2>7, <2>8, <2>9 DEF Next
<1> QED
  BY <1>1, <1>2, PTL DEF Spec
----------------------------------------------------------------------------
(* What the invariant says when all is read *)

LEMMA AllOccurrences ==
  ASSUME IInv, NEW str
  PROVE  OccurrencesTo(str, Len(wordlist)) = Occurrences(str)
<1>1. \A place \in Occurrences(str) : place[1] <= Len(wordlist)
  <2>1. TAKE place \in Occurrences(str)
  <2>2. place[1] \in LineStarts
    BY DEF Occurrences
  <2>3. place[1] \in 1 .. Len(wordlist)
    BY <2>2 DEF LineStarts
  <2> QED
    BY <2>3
<1> QED
  BY <1>1 DEF OccurrencesTo

LEMMA WordsKnown ==
  ASSUME IInv, stage = "game", LinesFit
  PROVE  /\ Table(word_set) /\ Contents(word_set) = WordsOfFile
         /\ WordsOfFile # {} => word_set.bucket_num > 0
<1>1. unread = <<>> /\ Table(word_set)
  BY DEF IInv, WordsSoFar
<1>2. Len(wordlist) \in Nat /\ Position = Len(wordlist)
  BY <1>1, AllIsRead
<1>3. \A start \in LineStarts : start \in 1 .. Len(wordlist) /\ start <= Len(wordlist)
  BY <1>2 DEF LineStarts
<1>4. Started(Position) = LineStarts
  BY <1>2, <1>3 DEF Started
<1>5. Contents(word_set) = WordsOfFile
  BY <1>4 DEF IInv, WordsSoFar, WordsOfFile
<1>6. ASSUME WordsOfFile # {} PROVE word_set.bucket_num > 0
  <2>1. PICK start \in LineStarts : TRUE
    BY <1>6 DEF WordsOfFile
  <2>2. Position > 0
    BY <1>2, <1>3, <2>1
  <2> QED
    BY <2>2 DEF IInv, WordsSoFar
<1> QED
  BY <1>1, <1>5, <1>6

----------------------------------------------------------------------------
(* The theorems *)

(* Both tables keep each string once, in the bucket of its hash, and count *)
(* their strings; a substring has two or three letters, so it fits the     *)
(* array it is read into.                                                  *)
THEOREM TypeCorrect == HashIsANumber /\ Spec => []TypeOK
<1>1. IInv => TypeOK
  <2>1. SUFFICES ASSUME IInv PROVE TypeOK
    OBVIOUS
  <2>2. TableOK(substr_set) /\ TableOK(word_set)
    BY <2>1, TableIsOK DEF IInv
  <2>3. \A i \in 1 .. Len(substrs) : Len(substrs[i]) \in {2, 3}
    <3>1. TAKE i \in 1 .. Len(substrs)
    <3>2. substrs \in Seq(Range(Candidates))
      BY <2>1 DEF IInv, SubstrsAreListed
    <3>3. substrs[i] \in Range(Candidates)
      BY <3>1, <3>2
    <3>4. PICK n \in 1 .. Len(Candidates) : substrs[i] = Candidates[n]
      BY <3>3, CandidatesAreShort
    <3> QED
      BY <3>4, LineOfCandidate
  <2> QED
    BY <2>1, <2>2, <2>3 DEF IInv, TypeOK
<1> QED
  BY <1>1, Inductive, PTL

(* When the game starts, word_validator.c knows each line of the file and  *)
(* nothing else, whichever collide in its table, are repeated, are empty   *)
(* or end in a carriage return.                                            *)
THEOREM ValidatorKnowsTheFile == HashIsANumber /\ Spec => []WordsAreTheLines
<1> SUFFICES ASSUME HashIsANumber PROVE Spec => []WordsAreTheLines
  OBVIOUS
<1>1. IInv => WordsAreTheLines
  <2>1. SUFFICES ASSUME IInv, stage = "game", LinesFit
                 PROVE  /\ \A word \in WordsOfFile : set_contains(word_set, word)
                        /\ word_set.size = Cardinality(WordsOfFile)
    BY DEF WordsAreTheLines
  <2>2. Contents(word_set) = WordsOfFile /\ Table(word_set)
    BY <2>1, WordsKnown
  <2>3. ASSUME NEW word \in WordsOfFile PROVE set_contains(word_set, word)
    <3>1. word_set.bucket_num > 0
      BY <2>1, <2>3, WordsKnown
    <3>2. word \in Str
      BY <2>2, <2>3, ContentsAreStrings
    <3> QED
      BY <2>2, <2>3, <3>1, <3>2, ContainedIsInContents
  <2> QED
    BY <2>2, <2>3 DEF Table
<1> QED
  BY <1>1, Inductive, PTL

(* What the generator's counting_set.c counted for a string of two or      *)
(* three letters is the number of its places in the words of the file,     *)
(* other than at the end of one.                                           *)
THEOREM CountsAreRight == HashIsANumber /\ Spec => []CountsAreOccurrences
<1>1. IInv => CountsAreOccurrences
  <2>1. SUFFICES ASSUME IInv, stage # "count", LinesFit, NEW str \in Range(Candidates)
                 PROVE  c_set_get_count(substr_set, str) = Cardinality(Occurrences(str))
    BY DEF CountsAreOccurrences
  <2> QED
    BY <2>1, AllOccurrences DEF IInv, Counted
<1> QED
  BY <1>1, Inductive, PTL

(* The server reads every substring that the generator found frequent, in  *)
(* order and once, and its fgets() always finds the newline.               *)
THEOREM ListIsReadAsWritten == HashIsANumber /\ Spec => []SubstrsAreTheFrequent
<1>1. IInv => SubstrsAreTheFrequent
  <2>1. SUFFICES ASSUME IInv PROVE SubstrsAreTheFrequent
    OBVIOUS
  <2>2. Frequent = Picked[Len(Candidates)]
    BY DEF Frequent, Picked, Picks
  <2> QED
    BY <2>1, <2>2 DEF IInv, SubstrsAreListed, SubstrsAreTheFrequent
<1> QED
  BY <1>1, Inductive, PTL

(* Whatever get_random_required_substr() returns, word_is_valid() accepts  *)
(* some line of the file for it.                                           *)
THEOREM SomeWordAnswers == HashIsANumber /\ Spec => []EverySubstrHasAnAnswer
<1> SUFFICES ASSUME HashIsANumber PROVE Spec => []EverySubstrHasAnAnswer
  OBVIOUS
<1>1. IInv => EverySubstrHasAnAnswer
  <2> DEFINE str == required_substr
  <2>1. SUFFICES ASSUME IInv, str # NoSubstr, LinesFit
                 PROVE  \E word \in WordsOfFile : word_is_valid(word, str)
    BY DEF EverySubstrHasAnAnswer
  <2>2. /\ stage = "game" /\ str \in Range(substrs) /\ substrs \in Seq(Range(Candidates))
        /\ \A i \in 1 .. Len(substrs) : Listed(substrs[i])
    BY <2>1 DEF IInv, SubstrsAreListed
  <2>3. PICK i \in 1 .. Len(substrs) : str = substrs[i]
    BY <2>2 DEF Range
  <2>4. str \in Range(Candidates) /\ Listed(str)
    BY <2>2, <2>3
  <2>5. Cardinality(Occurrences(str)) >= OCCURENCES_THRESHOLD
    BY <2>1, <2>2, <2>4, AllOccurrences DEF IInv, Counted, Listed
  <2>6. Occurrences(str) # {}
    <3>1. Cardinality({}) = 0
      BY FS_EmptySet
    <3> QED
      <4>1. OCCURENCES_THRESHOLD \in Nat /\ OCCURENCES_THRESHOLD > 0
        BY WordListAssumption
      <4>2. ASSUME Occurrences(str) = {} PROVE FALSE
        <5>1. Cardinality(Occurrences(str)) = 0
          BY ONLY <3>1, <4>2
        <5> HIDE DEF Occurrences
        <5> QED
          BY ONLY <2>5, <4>1, <5>1
      <4> QED
        BY ONLY <4>2
  <2>7. PICK place \in Occurrences(str) : TRUE
    BY <2>6
  <2> DEFINE word == LineAt(place[1])
  <2>8. /\ place[1] \in LineStarts /\ place[2] \in 1 .. Len(wordlist)
        /\ place[2] + Len(str) <= Len(word)
        /\ SubSeq(word, place[2], place[2] + Len(str) - 1) = str
    BY <2>7 DEF Occurrences
  <2>9. word \in WordsOfFile
    BY <2>8 DEF WordsOfFile
  <2>10. Contents(word_set) = WordsOfFile /\ Table(word_set) /\ word_set.bucket_num > 0
    BY <2>1, <2>2, <2>9, WordsKnown
  <2>11. word \in Str
    BY <2>9, <2>10, ContentsAreStrings
  <2>12. set_contains(word_set, word)
    BY <2>9, <2>10, <2>11, ContainedIsInContents
  <2>13. strstr(word, str)
    <3>1. Len(str) \in Nat /\ Len(word) \in Nat
      <4>1. PICK n \in 1 .. Len(Candidates) : str = Candidates[n]
        BY <2>4, CandidatesAreShort
      <4>2. str \in Str
        BY <4>1, LineOfCandidate
      <4> HIDE DEF str, word
      <4> QED
        BY <2>11, <4>2 DEF Str
    <3> HIDE DEF str, word
    <3>2. place[2] \in 1 .. Len(word) - Len(str) + 1
      BY <2>8, <3>1
    <3> QED
      BY <2>8, <3>2 DEF strstr
  <2> QED
    BY <2>9, <2>12, <2>13 DEF word_is_valid
<1> QED
  BY <1>1, Inductive, PTL
=============================================================================
