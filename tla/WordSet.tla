------------------------------- MODULE WordSet -------------------------------
(***************************************************************************)
(* server/set.c: a set of strings in a table of chained buckets, which     *)
(* never grows; and counting_set.c, which also counts how often a string   *)
(* was inserted.  A bucket is the sequence of its nodes.  Pure operators:  *)
(* an operation takes a table to another.                                  *)
(***************************************************************************)
EXTENDS Integers, Sequences

CONSTANT djb2_hash(_)   \* any function of the string will do

set_create(n) ==
  [size |-> 0, bucket_num |-> n, buckets |-> [b \in 0 .. n - 1 |-> <<>>]]

Bucket(s, str) == djb2_hash(str) % s.bucket_num

Chain(s, str) == s.buckets[Bucket(s, str)]

NodesOf(s, str) == {i \in 1 .. Len(Chain(s, str)) : Chain(s, str)[i].val = str}

set_contains(s, str) == NodesOf(s, str) # {}

\* MUTANT: a string whose bucket is taken replaces what is there.
CollisionReplaces(s, str) ==
  [s EXCEPT !.size = @ + 1,
            !.buckets[Bucket(s, str)] = <<[val |-> str, count |-> 1]>>]

(* A new string becomes the first node of its bucket. *)
AddNode(s, str) ==
  [s EXCEPT !.size = @ + 1,
            !.buckets[Bucket(s, str)] = <<[val |-> str, count |-> 1]>> \o @]

\* MUTANT: a string is inserted again each time.
InsertAlways(s, str) == AddNode(s, str)

set_insert(s, str) == IF set_contains(s, str) THEN s ELSE AddNode(s, str)

----------------------------------------------------------------------------
(* counting_set.c *)

CountUp(chain, str) ==
  [i \in 1 .. Len(chain) |->
     IF chain[i].val = str THEN [chain[i] EXCEPT !.count = @ + 1] ELSE chain[i]]

c_set_insert(s, str) ==
  IF set_contains(s, str)
    THEN [s EXCEPT !.buckets[Bucket(s, str)] = CountUp(@, str)]
    ELSE AddNode(s, str)

c_set_get_count(s, str) ==
  IF set_contains(s, str)
    THEN Chain(s, str)[CHOOSE i \in NodesOf(s, str) : \A j \in NodesOf(s, str) : i <= j].count
    ELSE 0
=============================================================================
