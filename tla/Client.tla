-------------------------------- MODULE Client --------------------------------
(***************************************************************************)
(* The main loop of client/client.c, for a client that has been let in:    *)
(* a frame handles the messages of the server, at most one key, draws the  *)
(* screen, and lets the alerts grow older.  The line that is typed is a    *)
(* buffer with an index; the alerts are a list on glibc's heap, which      *)
(* matters because the program reads them after free() and before they are *)
(* written.                                                                *)
(***************************************************************************)
EXTENDS ClientState, CustomProtocol

CONSTANTS
  Letter,          \* what is typed other than ENTER and BACKSPACE
  INPUT_SIZE,      \* the size of the line's buffer, 128
  ServerMessage,   \* messages the server may send
  Other,           \* another player's id; one's own is 1
  default_alert_ttl,
  winner_ttl,
  DeltaTime,       \* how long a frame may last
  TCACHE_COUNT,    \* freed chunks glibc keeps to hand out last in, first out: 7
  MaxAlerts,       \* bound: alerts at one time
  MaxKeys          \* bound: keys for one line

ENTER == "enter"
BACKSPACE == "backspace"

ASSUME ClientAssumption ==
  /\ {ENTER, BACKSPACE} \cap Letter = {}
  /\ INPUT_SIZE \in Nat \ {0, 1}
  /\ ARG_LEN \in Nat \ {0, 1}
  /\ {default_alert_ttl, winner_ttl} \subseteq Nat \ {0}
  /\ DeltaTime \subseteq Nat
  /\ TCACHE_COUNT \in Nat /\ MaxAlerts \in Nat /\ MaxKeys \in Nat
  /\ Other \in Nat \ {0, 1}

VARIABLES
  client,       \* see ClientState
  step,         \* where the frame stands
  input,        \* the line, as far as it is displayed
  input_len,
  msg,          \* what the last action gave to send_to_sock()
  deltatime,    \* of the frame before
  skewed,       \* prev_time was overwritten in this frame
  alerts,       \* the first alert
  chunk,        \* external: the memory of alerts
  tcache,       \* external: freed chunks, the last freed first
  binned,       \* external: freed chunks beyond those
  fault,
  typed,        \* history: the keys since the last ENTER
  crowded       \* history: more alerts were alive than tcache holds

line == <<input, input_len, typed>>
heap == <<alerts, chunk, tcache, binned, crowded>>
vars == <<client, step, line, msg, deltatime, skewed, heap, fault>>

NULL == 0
Chunk == 1 .. MaxAlerts
Never == [text |-> "none", left |-> 0, next |-> NULL]   \* memory never used

Init ==
  /\ client = [NewClient EXCEPT !.phase = "main",
                                !.my_id = 1,
                                !.players = [i \in 1 .. 2 |->
                                   [id |-> <<1, Other>>[i], name |-> "ann", hp |-> MAX_HP]]]
  /\ step = "read"
  /\ input = <<>>
  /\ input_len = 0
  /\ msg = <<>>
  /\ deltatime = 0
  /\ skewed = FALSE
  /\ alerts = NULL
  /\ chunk = [c \in Chunk |-> Never]
  /\ tcache = <<>>
  /\ binned = {}
  /\ fault = "none"
  /\ typed = <<>>
  /\ crowded = FALSE

Running == fault = "none" /\ client.phase = "main"

----------------------------------------------------------------------------
(* The list of alerts *)

Freed == Range(tcache) \cup binned

(* The chunks one comes to from the first alert: up to the null pointer or *)
(* to the first one that was freed.  There are no more than MaxAlerts, and *)
(* a walk that goes on after as many goes round in a circle.               *)
WalkFrom(first, memory, freed) ==
  LET path[k \in 0 .. MaxAlerts] ==
        [c \in Chunk \cup {NULL} |->
           IF k = 0 \/ c \in freed \cup {NULL} THEN <<c>>
           ELSE <<c>> \o path[k - 1][memory[c].next]]
  IN  path[MaxAlerts][first]

Walk == WalkFrom(alerts, chunk, Freed)

(* The chunks update_alerts() comes to; what is wrong with the last one, if *)
(* it is not the null pointer, is met there.                               *)
Follow == IF Last(Walk) = NULL THEN Front(Walk) ELSE Walk

Shown ==
  LET list == Follow
  IN  [i \in 1 .. Len(list) |-> [text |-> chunk[list[i]].text, left |-> chunk[list[i]].left]]

(* malloc(): the chunk freed last, or when tcache has none, one of the     *)
(* others, or memory never used, which is zero.                            *)
Unused == {c \in Chunk : chunk[c] = Never}

Malloc ==
  IF tcache # <<>> THEN {Head(tcache)}
  ELSE binned \cup {c \in Unused : \A d \in Unused : c <= d}

LastFreedFirst(freed, c) == <<c>> \o freed

\* MUTANT: the alerts there were are not hung on to the new one.
NextUnset(before) == before

(* The first alert of a list keeps the next that was in its memory. *)
NextOfNew(before) == IF alerts = NULL THEN before ELSE alerts

create_alert(text, ttl) ==
  \E c \in Malloc :
    /\ chunk' = [chunk EXCEPT ![c] = [text |-> text, left |-> ttl,
                                      next |-> NextOfNew(@.next)]]
    /\ alerts' = c
    /\ tcache' = IF tcache = <<>> THEN <<>> ELSE Tail(tcache)
    /\ binned' = binned \ {c}
    /\ crowded' = (crowded \/ Len(Follow) >= TCACHE_COUNT)

(* Beyond counting: what an alert gets when a frame lasts minus so long.   *)
Ages == 1000
Skewed == -Ages

Older(left, time) == IF left = Ages \/ time = Skewed THEN Ages ELSE left - time

(* One round of update_alerts(), at an alert whose predecessor is prev.    *)
(* destroy_alert() leaves next where it was, for the walk to go on from.   *)
Visit(list, c) ==
  LET left == Older(list.chunk[c].left, deltatime)
      aged == [list.chunk EXCEPT ![c].left = left]
  IN  IF left > 0 THEN [list EXCEPT !.chunk = aged, !.prev = c]
      ELSE [list EXCEPT
              !.first = IF list.prev = NULL THEN aged[c].next ELSE @,
              !.chunk = IF list.prev = NULL THEN aged
                        ELSE [aged EXCEPT ![list.prev].next = aged[c].next],
              !.tcache = IF Len(@) < TCACHE_COUNT THEN LastFreedFirst(@, c) ELSE @,
              !.binned = IF Len(list.tcache) < TCACHE_COUNT THEN @ ELSE @ \cup {c}]

Visited ==
  LET list == Front(Walk)
      after[n \in 0 .. Len(list)] ==
        IF n = 0 THEN [first |-> alerts, prev |-> NULL, chunk |-> chunk, tcache |-> tcache,
                       binned |-> binned]
        ELSE Visit(after[n - 1], list[n])
  IN  after[Len(list)]

----------------------------------------------------------------------------
(* Messages of the server *)

(* The alert a message raises, if it raises one. *)
AlertOf(message) ==
  CASE message[1] \in {"N_CORRECT_WORD", "N_LOSE_HP"} -> {<<message[1], default_alert_ttl>>}
    [] message[1] = "N_INCORRECT_WORD" /\ message[2] = client.my_id ->
         {<<message[1], default_alert_ttl>>}
    [] message[1] = "N_PLAYER_WON" -> {<<message[1], winner_ttl>>}
    [] OTHER -> {}

(* The server announces whose turn it is before it starts a game. *)
Expected(message) == message[1] = "N_GAME_START" => client.player_turn # NoTurn

ServerCommand(message) ==
  /\ Running /\ step = "read"
  /\ Expected(message)
  /\ client' = process_server_command(client, message)
  /\ IF AlertOf(message) = {} THEN UNCHANGED heap
     ELSE \E alert \in AlertOf(message) : create_alert(alert[1], alert[2])
  /\ msg' = <<>>
  /\ UNCHANGED <<step, line, deltatime, skewed, fault>>

(* R_DISCONNECTED *)
ServerGone ==
  /\ Running /\ step = "read"
  /\ client' = [client EXCEPT !.phase = "exited"]
  /\ msg' = <<>>
  /\ UNCHANGED <<step, line, deltatime, skewed, heap, fault>>

----------------------------------------------------------------------------
(* The terminal: at most one key a frame *)

Key ==
  /\ Running /\ step = "read"
  /\ step' = "draw"
  /\ UNCHANGED <<client, deltatime, heap, fault>>

NoKey ==
  /\ Key
  /\ msg' = <<>>
  /\ UNCHANGED <<line, skewed>>

(* Between games keys are read and dropped; what was typed of a line       *)
(* stays.                                                                  *)
KeyDropped ==
  /\ Key
  /\ ~client.game_started
  /\ msg' = <<>>
  /\ UNCHANGED <<line, skewed>>

(* process_terminal_input() *)
Enter ==
  /\ Key
  /\ client.game_started
  /\ msg' = create_msg("N_SEND_WORD", <<input>>)
  /\ input' = <<>>
  /\ input_len' = 0
  /\ typed' = <<>>
  /\ UNCHANGED skewed

MoreKeys(key) ==
  /\ Key
  /\ client.game_started
  /\ Len(typed) < MaxKeys
  /\ typed' = Append(typed, key)
  /\ msg' = <<>>

\* MUTANT: the backspace itself is taken away, and no letter.
OneLess(len) == len + 1 - 1

(* The backspace was counted too, and is taken away with the letter.       *)
AfterBackspace(len) == len + 1 - 2

(* Before an empty line lies, in the build of the Makefile, prev_time: a   *)
(* character put there makes the frame last hours or centuries less than   *)
(* nothing, a zero leaves it as it is.                                     *)
Backspace ==
  /\ MoreKeys(BACKSPACE)
  /\ input_len' = AfterBackspace(input_len)
  /\ input' = SubSeq(input, 1, input_len')
  /\ skewed' = (skewed \/ input_len < 0)

\* MUTANT: one more letter is let in than there is room for.
OneTooMany(len) == len < 0 \/ len > INPUT_SIZE - 1

\* MUTANT: the length is compared as a signed number.
SignedOverflow(len) == len >= INPUT_SIZE - 1

(* input_len >= sizeof(input) - 1: a length below zero is a large one.     *)
Overflows(len) == len < 0 \/ len >= INPUT_SIZE - 1

TypeLetter(letter) ==
  /\ MoreKeys(letter)
  /\ IF Overflows(input_len + 1)
       THEN /\ input' = <<>>
            /\ input_len' = 0
       ELSE /\ input' = IF input_len < 0 THEN <<>> ELSE Append(input, letter)
            /\ input_len' = input_len + 1
  /\ skewed' = (skewed \/ input_len < 0)

----------------------------------------------------------------------------
(* The screen, the alerts, and the length of the frame. *)
Draw ==
  /\ Running /\ step = "draw"
  /\ client' = display_ui(client)
  /\ IF client'.phase = "crashed" THEN UNCHANGED <<heap, fault>>
     ELSE LET list == Visited
          IN  /\ alerts' = list.first
              /\ chunk' = list.chunk
              /\ tcache' = list.tcache
              /\ binned' = list.binned
              /\ fault' = IF Last(Walk) = NULL THEN "none" ELSE "bad_alert"
              /\ UNCHANGED crowded
  /\ deltatime' \in IF skewed THEN {Skewed} ELSE DeltaTime
  /\ skewed' = FALSE
  /\ step' = "read"
  /\ msg' = <<>>
  /\ UNCHANGED line

Over == ~Running /\ UNCHANGED vars

Next ==
  \/ \E message \in ServerMessage : ServerCommand(message)
  \/ ServerGone
  \/ NoKey
  \/ KeyDropped
  \/ Enter
  \/ Backspace
  \/ \E letter \in Letter : TypeLetter(letter)
  \/ Draw
  \/ Over

Spec == Init /\ [][Next]_vars

----------------------------------------------------------------------------
(* Every variable has its type. *)
TypeOK ==
  /\ client.phase \in Phase
  /\ step \in {"read", "draw"}
  /\ Len(input) = (IF input_len < 0 THEN 0 ELSE input_len)
  /\ input_len < INPUT_SIZE - 1
  /\ deltatime \in DeltaTime \cup {0, Skewed}
  /\ alerts \in Chunk \cup {NULL}
  /\ Len(tcache) <= TCACHE_COUNT
  /\ fault \in {"none", "bad_alert"}

(* The list shows each alert for its time, the newest first: although the  *)
(* walk goes on from freed alerts, and the first alert's next is whatever  *)
(* its memory held.  It holds as long as no more alerts were alive at once *)
(* than malloc() hands out again in reverse order, and no frame was        *)
(* skewed.                                                                 *)
Board ==
  INSTANCE AlertBoard
    WITH board <- Shown,
         Alert <- [text : {"N_CORRECT_WORD", "N_LOSE_HP", "N_INCORRECT_WORD"},
                   left : {default_alert_ttl}]
                    \cup [text : {"N_PLAYER_WON"}, left : {winner_ttl}],
         Frame <- DeltaTime \cup {0}

LastingAlerts == deltatime = Skewed \/ \E c \in Chunk : chunk[c].left = Ages

ShowsTheBoard ==
  /\ Board!BoardInit
  /\ [][crowded' \/ LastingAlerts \/ Board!BoardNext]_Shown

(* The line as one means to type it. *)
Corrected(text, key) ==
  IF key # BACKSPACE THEN Append(text, key)
  ELSE IF text = <<>> THEN <<>> ELSE Front(text)

Meant(keys) ==
  LET text[n \in 0 .. Len(keys)] ==
        IF n = 0 THEN <<>> ELSE Corrected(text[n - 1], keys[n])
  IN  text[Len(keys)]

(* Nowhere a backspace too many, and nowhere too much for the buffer. *)
Regular(keys) ==
  \A k \in 1 .. Len(keys) :
    LET before == Meant(SubSeq(keys, 1, k - 1))
    IN  /\ keys[k] = BACKSPACE => before # <<>>
        /\ keys[k] # BACKSPACE => Len(before) + 1 < INPUT_SIZE - 1

(* The server reads the line that was meant, whatever was corrected on the *)
(* way, and even if the game it was begun in is over: if it has no         *)
(* character that ends a value, and fits the server's buffer.              *)
EnteredIsMeant ==
  [][msg' # <<>> /\ Regular(typed) /\ Plain(Meant(typed)) =>
       /\ Framed(msg') = <<msg'>>
       /\ parse_msg_body(msg', << <<"before">> >>) = <<Meant(typed)>>]_vars

(* However many backspaces an empty line was given, one letter is lost and *)
(* the next is the first of the line.                                      *)
StrayBackspacesCostOneLetter ==
  [][input_len < 0 /\ typed' # typed /\ typed' # <<>> /\ Last(typed') # BACKSPACE
       => input_len' = 0]_vars
=============================================================================
