---------------------------- MODULE OrderNumbers ----------------------------
(***************************************************************************)
(* The numbers of purchase and sales orders: a prefix, the date and a      *)
(* daily sequence in Redis, drawn inside the transaction that inserts the  *)
(* order under a unique constraint.  The two kinds of order run the same   *)
(* code, each on keys and a table of its own.                              *)
(***************************************************************************)
EXTENDS RedisCounter

CONSTANTS
  Creator,      \* threads that create orders
  Kind,         \* kinds of order
  MaxDate,      \* bound of the model: the last day
  MaxSequence   \* bound of the model: numbers drawn for a day

ASSUME OrderNumbersAssumption ==
  /\ Kind \subseteq {"PO", "SO"}
  /\ MaxDate \in Nat
  /\ MaxSequence \in Nat

VARIABLES
  today,     \* the date of timezone.now()
  sequence,  \* the counters, by kind and date
  draw,      \* per creator: the number of the order it creates
  numbers,   \* the numbers of the orders in the database
  lost       \* history: the keys that Redis has removed

numberVars == <<today, sequence, draw, numbers, lost>>

SequenceKey == Kind \X (0..MaxDate)
Draw == [key : SequenceKey, seq : Nat, step : {"add", "exists", "incr", "insert"}]

ONInit ==
  /\ today = 0
  /\ sequence = [key \in SequenceKey |-> None]
  /\ draw = [c \in Creator |-> None]
  /\ numbers = {}
  /\ lost = {}

-----------------------------------------------------------------------------
\* Slips of the two operators below, for the mutants of the checks.
StartsAgain(key) == 0
CountsFromZero(key) == sequence[key]

\* cache.add(key, 0, timeout=86400)
Started(key) == Tally(sequence[key])

\* The INCR of cache.incr(key), which the code calls whatever add has returned.
Incremented(key) == Tally(sequence[key]) + 1

At(c, step) == draw[c] # None /\ draw[c].step = step

Number(c) == <<draw[c].key, draw[c].seq>>

\* create_*_order: the date is read once, at the start.
TakeDate(c, kind) ==
  /\ draw[c] = None
  /\ draw' = [draw EXCEPT ![c] =
                [key |-> <<kind, today>>, seq |-> 0, step |-> "add"]]
  /\ UNCHANGED <<today, sequence, numbers, lost>>

AddSequence(c) ==
  /\ At(c, "add")
  /\ sequence' = [sequence EXCEPT ![draw[c].key] = Started(draw[c].key)]
  /\ draw' = [draw EXCEPT ![c].step = "exists"]
  /\ UNCHANGED <<today, numbers, lost>>

FindSequence(c) ==
  /\ At(c, "exists")
  /\ ~Absent(sequence[draw[c].key])
  /\ draw' = [draw EXCEPT ![c].step = "incr"]
  /\ UNCHANGED <<today, sequence, numbers, lost>>

IncrSequence(c) ==
  LET key == draw[c].key IN
  /\ At(c, "incr")
  /\ Tally(sequence[key]) < MaxSequence
  /\ sequence' = [sequence EXCEPT ![key] = Incremented(key)]
  /\ draw' = [draw EXCEPT ![c] =
                [key |-> key, seq |-> Incremented(key), step |-> "insert"]]
  /\ UNCHANGED <<today, numbers, lost>>

\* The order is committed; the unique constraint admits a number once.
InsertOrder(c) ==
  /\ At(c, "insert")
  /\ Number(c) \notin numbers
  /\ numbers' = numbers \cup {Number(c)}
  /\ draw' = [draw EXCEPT ![c] = None]
  /\ UNCHANGED <<today, sequence, lost>>

\* The creation fails: a ValueError of incr, an IntegrityError, any other
\* refusal after the draw.  The sequence is not rolled back.
AbandonDraw(c) ==
  /\ draw[c] # None
  /\ draw' = [draw EXCEPT ![c] = None]
  /\ UNCHANGED <<today, sequence, numbers, lost>>

-----------------------------------------------------------------------------
Midnight ==
  /\ today < MaxDate
  /\ today' = today + 1
  /\ UNCHANGED <<sequence, draw, numbers, lost>>

\* The timeout of a day has passed, so the day of the key is over.  A key that
\* INCR has created has no timeout; it is of the lost ones already, and that
\* it may expire as well only adds behaviours.
ExpireSequence(key) ==
  /\ key[2] < today
  /\ ~Absent(sequence[key])
  /\ sequence' = [sequence EXCEPT ![key] = None]
  /\ lost' = lost \cup {key}
  /\ UNCHANGED <<today, draw, numbers>>

\* Redis keeps nothing on disk: a new container begins without keys.
LoseSequences ==
  /\ sequence' = [key \in SequenceKey |-> None]
  /\ lost' = lost \cup {key \in SequenceKey : ~Absent(sequence[key])}
  /\ UNCHANGED <<today, draw, numbers>>

CreateOrders ==
  \/ \E c \in Creator : \/ \E kind \in Kind : TakeDate(c, kind)
                        \/ AddSequence(c) \/ FindSequence(c) \/ IncrSequence(c)
                        \/ InsertOrder(c) \/ AbandonDraw(c)
  \/ Midnight
  \/ \E key \in SequenceKey : ExpireSequence(key)

ONNext == CreateOrders \/ LoseSequences

ONSpec == ONInit /\ [][ONNext]_numberVars

-----------------------------------------------------------------------------
(***************************************************************************)
(* Every variable has its type; drawn numbers start at 1, as in            *)
(* PO-20240101-0001, and no counter or order is of a day to come.          *)
(***************************************************************************)
ONTypeOK ==
  /\ today \in 0..MaxDate
  /\ sequence \in [SequenceKey -> Counter]
  /\ draw \in [Creator -> Draw \cup {None}]
  /\ numbers \subseteq SequenceKey \X (Nat \ {0})
  /\ lost \subseteq SequenceKey
  /\ \A c \in Creator : At(c, "insert") => draw[c].seq > 0
  /\ \A c \in Creator : draw[c] # None => draw[c].key[2] <= today
  /\ \A key \in SequenceKey : ~Absent(sequence[key]) => key[2] <= today

(***************************************************************************)
(* As long as Redis has kept the key of a day, a number drawn for that day *)
(* is not the number of an order and nobody else is about to use it: the   *)
(* unique constraint never refuses it, however many creators draw between  *)
(* the commands of one of them.                                            *)
(***************************************************************************)
NumbersDistinct ==
  \A c \in Creator :
    At(c, "insert") /\ draw[c].key \notin lost
      => /\ Number(c) \notin numbers
         /\ \A d \in Creator \ {c} : At(d, "insert") => Number(d) # Number(c)

=============================================================================
