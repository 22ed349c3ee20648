----------------------------- MODULE PartsProofs -----------------------------
(***************************************************************************)
(* The parts beside the stock services, each on its own and then together  *)
(* as MCParts runs them, for any number of workers, kinds of order, days,  *)
(* addresses and rows.  The users of Redis: order numbers are distinct     *)
(* until Redis loses their key, the limit on failed logins is exceeded by  *)
(* at most the workers that were already under way, no row left low is     *)
(* forgotten without a failure, and a cache entry that a call should have  *)
(* removed was stored by a reader that the commit overtook.  Accounts and  *)
(* the catalogue: requests that read a row and write it later.  Reports    *)
(* and the tree of categories: what several statements of one request show *)
(* of rows that others write in between.                                   *)
(***************************************************************************)
EXTENDS MCParts, StockViews, Catalogue, TotalsProofs, TLAPS

-----------------------------------------------------------------------------
(***************************************************************************)
(* Of a key that Redis has kept, the counter has reached every number that *)
(* was drawn from it, and numbers are only drawn from a counter.           *)
(***************************************************************************)
SequenceAhead ==
  \A key \in SequenceKey \ lost :
    /\ \A n \in Nat : <<key, n>> \in numbers
                        => ~Absent(sequence[key]) /\ n <= sequence[key]
    /\ \A c \in Creator : At(c, "insert") /\ draw[c].key = key
                            => /\ ~Absent(sequence[key])
                               /\ draw[c].seq <= sequence[key]

ONInv == ONTypeOK /\ SequenceAhead /\ NumbersDistinct

LEMMA ONTypeStep ==
  ASSUME ONTypeOK, ONNext
  PROVE  ONTypeOK'
<1> USE RedisCounterAssumption, OrderNumbersAssumption
        DEF ONTypeOK, At, Absent, Counter, Optional, Draw
<1>1. ASSUME NEW c \in Creator, NEW kind \in Kind, TakeDate(c, kind)
      PROVE  ONTypeOK'
  BY <1>1 DEF TakeDate, SequenceKey
<1>2. ASSUME NEW c \in Creator, AddSequence(c)
      PROVE  ONTypeOK'
  BY <1>2 DEF AddSequence, Started, Tally
<1>f. ASSUME NEW c \in Creator, FindSequence(c)
      PROVE  ONTypeOK'
  BY <1>f DEF FindSequence
<1>3. ASSUME NEW c \in Creator, IncrSequence(c)
      PROVE  ONTypeOK'
  BY <1>3 DEF IncrSequence, Incremented, Tally
<1>4. ASSUME NEW c \in Creator, InsertOrder(c)
      PROVE  ONTypeOK'
  BY <1>4 DEF InsertOrder, Number
<1>5. ASSUME NEW c \in Creator, AbandonDraw(c)
      PROVE  ONTypeOK'
  BY <1>5 DEF AbandonDraw
<1>6. CASE Midnight
  BY <1>6 DEF Midnight, SequenceKey
<1>7. ASSUME NEW key \in SequenceKey, ExpireSequence(key)
      PROVE  ONTypeOK'
  BY <1>7 DEF ExpireSequence
<1>8. CASE LoseSequences
  BY <1>8 DEF LoseSequences
<1> QED
  BY <1>1, <1>2, <1>f, <1>3, <1>4, <1>5, <1>6, <1>7, <1>8
  DEF ONNext, CreateOrders

LEMMA ONInvStep ==
  ASSUME ONInv, ONNext
  PROVE  ONInv'
<1>t. ONTypeOK /\ ONTypeOK' /\ SequenceAhead /\ NumbersDistinct
  BY ONTypeStep DEF ONInv
<1>6. ASSUME Midnight
      PROVE  SequenceAhead' /\ NumbersDistinct'
  <2>1. UNCHANGED <<sequence, draw, numbers, lost>>
    BY <1>6 DEF Midnight
  <2> QED
    BY <1>t, <2>1 DEF SequenceAhead, NumbersDistinct, At, Absent, Number
<1> USE RedisCounterAssumption
        DEF SequenceAhead, NumbersDistinct, ONTypeOK, At, Absent, Counter, Optional,
            Draw, Number
<1>1. ASSUME NEW c \in Creator, NEW kind \in Kind, TakeDate(c, kind)
      PROVE  SequenceAhead' /\ NumbersDistinct'
  BY <1>t, <1>1 DEF TakeDate
<1>2. ASSUME NEW c \in Creator, AddSequence(c)
      PROVE  SequenceAhead' /\ NumbersDistinct'
  BY <1>t, <1>2 DEF AddSequence, Started, Tally
<1>f. ASSUME NEW c \in Creator, FindSequence(c)
      PROVE  SequenceAhead' /\ NumbersDistinct'
  BY <1>t, <1>f DEF FindSequence
<1>3. ASSUME NEW c \in Creator, IncrSequence(c)
      PROVE  SequenceAhead' /\ NumbersDistinct'
  <2> DEFINE key == draw[c].key
             tally == Tally(sequence[key])
  <2>1. /\ key \in SequenceKey /\ tally \in Nat
        /\ ~Absent(sequence[key]) => tally = sequence[key]
        /\ sequence' = [sequence EXCEPT ![key] = tally + 1]
        /\ draw' = [draw EXCEPT ![c] =
                      [key |-> key, seq |-> tally + 1, step |-> "insert"]]
        /\ UNCHANGED <<today, numbers, lost>>
    BY <1>t, <1>3 DEF IncrSequence, Incremented, Tally
  <2> HIDE DEF key, tally
  <2>2. SequenceAhead'
    BY <1>t, <2>1
  <2>3. NumbersDistinct'
    BY <1>t, <2>1
  <2> QED
    BY <2>2, <2>3
<1>4. ASSUME NEW c \in Creator, InsertOrder(c)
      PROVE  SequenceAhead' /\ NumbersDistinct'
  BY <1>t, <1>4 DEF InsertOrder
<1>5. ASSUME NEW c \in Creator, AbandonDraw(c)
      PROVE  SequenceAhead' /\ NumbersDistinct'
  BY <1>t, <1>5 DEF AbandonDraw
<1>7. ASSUME NEW key \in SequenceKey, ExpireSequence(key)
      PROVE  SequenceAhead' /\ NumbersDistinct'
  BY <1>t, <1>7 DEF ExpireSequence
<1>8. ASSUME LoseSequences
      PROVE  SequenceAhead' /\ NumbersDistinct'
  BY <1>t, <1>8 DEF LoseSequences
<1> QED
  BY <1>t, <1>1, <1>2, <1>f, <1>3, <1>4, <1>5, <1>6, <1>7, <1>8
  DEF ONNext, CreateOrders, ONInv

(***************************************************************************)
(* create_purchase_order and create_sales_order: no unique constraint      *)
(* refuses a number of a day whose key Redis has kept.                     *)
(***************************************************************************)
THEOREM OrderNumbersDistinct == ONSpec => [](ONTypeOK /\ NumbersDistinct)
<1>1. ONInit => ONInv
  BY RedisCounterAssumption, OrderNumbersAssumption
  DEF ONInit, ONInv, ONTypeOK, SequenceAhead, NumbersDistinct, At,
      Absent, Counter, Optional, SequenceKey
<1>2. ONInv /\ [ONNext]_numberVars => ONInv'
  <2>1. CASE ONInv /\ ONNext
    BY <2>1, ONInvStep
  <2>2. CASE ONInv /\ UNCHANGED numberVars
    BY <2>2 DEF numberVars, ONInv, ONTypeOK, SequenceAhead, NumbersDistinct,
                At, Number
  <2> QED
    BY <2>1, <2>2
<1>3. ONInv => ONTypeOK /\ NumbersDistinct
  BY DEF ONInv
<1> QED
  BY <1>1, <1>2, <1>3, PTL DEF ONSpec

-----------------------------------------------------------------------------
(***************************************************************************)
(* The room that f counted failures and the requests in S leave.           *)
(***************************************************************************)
Room(f, S) == f + Cardinality(S) <= Limit - 1 + Cardinality(LoginWorker)

LEMMA RoomShrinks ==
  ASSUME NEW S \in SUBSET LoginWorker, NEW T \in SUBSET S,
         NEW f \in Nat, NEW g \in 0..f, Room(f, S)
  PROVE  Room(g, T)
<1>1. IsFiniteSet(S) /\ IsFiniteSet(LoginWorker)
  BY LoginThrottleAssumption, FS_Subset
<1>2. Cardinality(T) <= Cardinality(S) /\ Cardinality(T) \in Nat
      /\ Cardinality(S) \in Nat /\ Cardinality(LoginWorker) \in Nat
  BY <1>1, FS_Subset, FS_CardinalityType
<1> QED
  BY <1>2 DEF Room, Limit

LEMMA RoomMoves ==
  ASSUME NEW S \in SUBSET LoginWorker, NEW w \in S, NEW f \in Nat, Room(f, S)
  PROVE  Room(f + 1, S \ {w})
<1>1. IsFiniteSet(S) /\ IsFiniteSet(LoginWorker)
  BY LoginThrottleAssumption, FS_Subset
<1>2. Cardinality(S \ {w}) = Cardinality(S) - 1 /\ Cardinality(S) \in Nat
      /\ Cardinality(LoginWorker) \in Nat
  BY <1>1, FS_RemoveElement, FS_CardinalityType
<1> QED
  BY <1>2 DEF Room, Limit

LEMMA RoomOfAllowed ==
  ASSUME NEW S \in SUBSET LoginWorker, NEW f \in 0..(Limit - 1)
  PROVE  Room(f, S)
<1>1. IsFiniteSet(LoginWorker)
  BY LoginThrottleAssumption
<1>2. Cardinality(S) <= Cardinality(LoginWorker) /\ Cardinality(S) \in Nat
      /\ Cardinality(LoginWorker) \in Nat
  BY <1>1, FS_Subset, FS_CardinalityType
<1> QED
  BY <1>2 DEF Room, Limit

LTInv ==
  /\ LTTypeOK
  /\ FailuresCounted
  /\ \A i \in Ident : Room(Failures(i), LetThrough(i))

LEMMA LTTypeStep ==
  ASSUME LTTypeOK, FailuresCounted, LTNext
  PROVE  LTTypeOK' /\ FailuresCounted'
<1> USE RedisCounterAssumption
        DEF LTTypeOK, FailuresCounted, Failures, Tally, Absent, Counter, Optional,
            Login, LoginStep, Serving, Goto, Finish, Forget, counterVars
<1>1. ASSUME NEW w \in LoginWorker, NEW i \in Ident, CheckThrottles(w, i)
      PROVE  LTTypeOK' /\ FailuresCounted'
  BY <1>1 DEF CheckThrottles
<1>2. ASSUME NEW w \in LoginWorker,
             \/ AllowRequest(w) \/ CheckPassword(w)
             \/ FindCounter(w) \/ EndRequest(w)
      PROVE  LTTypeOK' /\ FailuresCounted'
  BY <1>2 DEF AllowRequest, CheckPassword, FindCounter, EndRequest
<1>3. ASSUME NEW w \in LoginWorker, AddFailure(w)
      PROVE  LTTypeOK' /\ FailuresCounted'
  BY <1>3 DEF AddFailure, Adds, FirstCount
<1>4. ASSUME NEW w \in LoginWorker, IncrFailures(w)
      PROVE  LTTypeOK' /\ FailuresCounted'
  BY <1>4 DEF IncrFailures
<1>5. ASSUME NEW w \in LoginWorker, ResetFailures(w)
      PROVE  LTTypeOK' /\ FailuresCounted'
  BY <1>5 DEF ResetFailures
<1>6. ASSUME NEW i \in Ident, ExpireFailures(i)
      PROVE  LTTypeOK' /\ FailuresCounted'
  BY <1>6 DEF ExpireFailures
<1>7. CASE LoseFailures
  BY <1>7 DEF LoseFailures
<1> QED
  BY <1>1, <1>2, <1>3, <1>4, <1>5, <1>6, <1>7 DEF LTNext, ServeLogins

LEMMA LTInvStep ==
  ASSUME LTInv, LTNext
  PROVE  LTInv'
<1>t. /\ LTTypeOK /\ LTTypeOK' /\ FailuresCounted'
      /\ \A i \in Ident : Room(Failures(i), LetThrough(i))
  BY LTTypeStep DEF LTInv
<1> SUFFICES ASSUME NEW i \in Ident
             PROVE  Room(Failures(i)', LetThrough(i)')
  BY <1>t DEF LTInv
<1>s. /\ LetThrough(i) \in SUBSET LoginWorker
      /\ LetThrough(i)' \in SUBSET LoginWorker
      /\ Failures(i) \in Nat /\ Failures(i)' \in Nat
      /\ Room(Failures(i), LetThrough(i))
  BY <1>t, RedisCounterAssumption
  DEF LetThrough, Failures, Tally, LTTypeOK, Counter, Optional, Absent
<1>r. ASSUME LetThrough(i)' \subseteq LetThrough(i), Failures(i)' <= Failures(i)
      PROVE  Room(Failures(i)', LetThrough(i)')
  BY <1>s, <1>r, RoomShrinks
<1>m. ASSUME NEW w \in LetThrough(i), LetThrough(i)' = LetThrough(i) \ {w},
             Failures(i)' = Failures(i) + 1
      PROVE  Room(Failures(i)', LetThrough(i)')
  BY <1>s, <1>m, RoomMoves
<1>1. ASSUME NEW w \in LoginWorker, NEW j \in Ident, CheckThrottles(w, j)
      PROVE  Room(Failures(i)', LetThrough(i)')
  BY <1>1, <1>r, <1>s, <1>t
  DEF CheckThrottles, LetThrough, LTTypeOK, Failures, counterVars
<1>2. ASSUME NEW w \in LoginWorker, AllowRequest(w)
      PROVE  Room(Failures(i)', LetThrough(i)')
  <2>1. Failures(i)' = Failures(i)
    BY <1>2 DEF AllowRequest, Failures, counterVars
  <2>2. CASE login[w].ident = i
    <3>1. Failures(i)' \in 0..(Limit - 1)
      BY <1>2, <1>s, <2>1, <2>2 DEF AllowRequest, Allowed, Limit
    <3> QED
      BY <3>1, <1>s, RoomOfAllowed
  <2>3. CASE login[w].ident # i
    <3>1. LetThrough(i)' \subseteq LetThrough(i)
      BY <1>2, <1>t, <2>3 DEF AllowRequest, Goto, Serving, LetThrough,
         LTTypeOK, Login
    <3> QED
      BY <3>1, <2>1, <1>s, <1>r
  <2> QED
    BY <2>2, <2>3
<1>3. ASSUME NEW w \in LoginWorker,
             CheckPassword(w) \/ FindCounter(w) \/ EndRequest(w)
      PROVE  Room(Failures(i)', LetThrough(i)')
  <2>1. Failures(i)' = Failures(i)
    BY <1>3 DEF CheckPassword, FindCounter, EndRequest, Failures, counterVars
  <2>2. LetThrough(i)' \subseteq LetThrough(i)
    BY <1>3, <1>t DEF CheckPassword, FindCounter, EndRequest, Serving, Goto,
                      Finish, LetThrough, LTTypeOK, Login
  <2> QED
    BY <2>1, <2>2, <1>s, <1>r
<1>4. ASSUME NEW w \in LoginWorker, AddFailure(w) \/ IncrFailures(w)
      PROVE  Room(Failures(i)', LetThrough(i)')
  <2>1. CASE Adds(login[w].ident) \/ IncrFailures(w)
    <3>1. LetThrough(i)' = LetThrough(i) \ {w}
      BY <1>4, <1>t, <2>1, RedisCounterAssumption
      DEF AddFailure, IncrFailures, Serving, Goto, Finish, LetThrough, LTTypeOK
    <3>2. CASE login[w].ident = i
      <4>1. w \in LetThrough(i)
        BY <1>4, <3>2 DEF AddFailure, IncrFailures, Serving, LetThrough
      <4>2. Failures(i)' = Failures(i) + 1
        <5>1. i \in Ident /\ attempts \in [Ident -> Counter]
          BY <1>t DEF LTTypeOK
        <5>2. CASE IncrFailures(w)
          <6>1. attempts'[i] = Tally(attempts[i]) + 1
            BY <3>2, <5>1, <5>2 DEF IncrFailures
          <6>2. Tally(attempts[i]) \in Nat
            BY <5>1 DEF Tally, Absent, Counter, Optional
          <6> QED
            BY <6>1, <6>2, RedisCounterAssumption DEF Failures, Tally, Absent
        <5>3. CASE AddFailure(w) /\ Adds(login[w].ident)
          BY <3>2, <5>1, <5>3, RedisCounterAssumption
          DEF AddFailure, Adds, FirstCount, Failures, Tally, Absent
        <5> QED
          BY <1>4, <2>1, <5>2, <5>3
      <4> QED
        BY <3>1, <4>1, <4>2, <1>m
    <3>3. CASE login[w].ident # i
      <4>1. Failures(i)' = Failures(i)
        BY <1>4, <1>t, <3>3
        DEF AddFailure, IncrFailures, Failures, LTTypeOK, counterVars
      <4> QED
        BY <3>1, <4>1, <1>s, <1>r
    <3> QED
      BY <3>2, <3>3
  <2>2. CASE AddFailure(w) /\ ~Adds(login[w].ident)
    <3>1. Failures(i)' = Failures(i)
      BY <2>2 DEF AddFailure, Failures, counterVars
    <3>2. LetThrough(i)' \subseteq LetThrough(i)
      BY <1>t, <2>2 DEF AddFailure, Serving, Goto, LetThrough, LTTypeOK, Login
    <3> QED
      BY <3>1, <3>2, <1>s, <1>r
  <2> QED
    BY <1>4, <2>1, <2>2
<1>5. ASSUME NEW w \in LoginWorker, ResetFailures(w)
      PROVE  Room(Failures(i)', LetThrough(i)')
  <2>1. Failures(i)' <= Failures(i)
    BY <1>5, <1>t, <1>s DEF ResetFailures, Forget, Failures, Tally, Absent, LTTypeOK
  <2>2. LetThrough(i)' \subseteq LetThrough(i)
    BY <1>5, <1>t DEF ResetFailures, Finish, LetThrough, LTTypeOK
  <2> QED
    BY <2>1, <2>2, <1>r
<1>6. ASSUME LoseFailures \/ \E j \in Ident : ExpireFailures(j)
      PROVE  Room(Failures(i)', LetThrough(i)')
  <2>1. Failures(i)' <= Failures(i)
    BY <1>6, <1>t, <1>s
    DEF LoseFailures, ExpireFailures, Forget, Failures, Tally, Absent, LTTypeOK
  <2>2. LetThrough(i)' \subseteq LetThrough(i)
    BY <1>6 DEF LoseFailures, ExpireFailures, LetThrough
  <2> QED
    BY <2>1, <2>2, <1>r
<1> QED
  BY <1>1, <1>2, <1>3, <1>4, <1>5, <1>6 DEF LTNext, ServeLogins

(***************************************************************************)
(* LoginRateLimitThrottle: an address never has more than four failures    *)
(* and one for each worker on its counter, and the counter is exact.       *)
(***************************************************************************)
THEOREM LoginAttemptsBounded ==
  LTSpec => [](LTTypeOK /\ FailuresCounted /\ AttemptsBounded)
<1>1. LTInit => LTInv
  <2> SUFFICES ASSUME LTInit
               PROVE  LTInv
    OBVIOUS
  <2>1. LTTypeOK /\ FailuresCounted /\ \A i \in Ident : Failures(i) = 0
    BY RedisCounterAssumption
    DEF LTInit, LTTypeOK, FailuresCounted, Failures, Tally, Absent, Counter,
        Optional
  <2>2. \A i \in Ident : LetThrough(i) \in SUBSET LoginWorker
    BY DEF LetThrough
  <2>3. 0 \in 0..(Limit - 1)
    BY DEF Limit
  <2> QED
    BY <2>1, <2>2, <2>3, RoomOfAllowed DEF LTInv
<1>2. LTInv /\ [LTNext]_throttleVars => LTInv'
  <2>1. CASE LTInv /\ LTNext
    BY <2>1, LTInvStep
  <2>2. CASE LTInv /\ UNCHANGED throttleVars
    BY <2>2 DEF throttleVars, LTInv, LTTypeOK, FailuresCounted, Failures, Tally,
                LetThrough, Room
  <2> QED
    BY <2>1, <2>2
<1>3. LTInv => LTTypeOK /\ FailuresCounted /\ AttemptsBounded
  <2> SUFFICES ASSUME LTInv, NEW i \in Ident
               PROVE  Failures(i) <= Limit - 1 + Cardinality(LoginWorker)
    BY DEF LTInv, AttemptsBounded
  <2>1. Failures(i) \in Nat
    BY RedisCounterAssumption
    DEF LTInv, LTTypeOK, Failures, Tally, Absent, Counter, Optional
  <2>2. IsFiniteSet(LetThrough(i)) /\ IsFiniteSet(LoginWorker)
    BY LoginThrottleAssumption, FS_Subset DEF LetThrough
  <2>3. Cardinality(LetThrough(i)) \in Nat /\ Cardinality(LoginWorker) \in Nat
    BY <2>2, FS_CardinalityType
  <2> QED
    BY <2>1, <2>3 DEF LTInv, Room, Limit
<1> QED
  BY <1>1, <1>2, <1>3, PTL DEF LTSpec

(***************************************************************************)
(* The counter of an address counts exactly the failures since its key     *)
(* appeared.                                                               *)
(***************************************************************************)
THEOREM LoginFailuresCounted == LTSpec => []FailuresCounted
BY LoginAttemptsBounded, PTL

-----------------------------------------------------------------------------
\* Events.  A row is told of when its event is under way or came to nothing;
\* unlike an adjustment, a receipt that has still to publish promises nothing.

AdjustPublishes(c, s) ==
  Reached(c, "publish") /\ asked[c].kind = "adjust" /\ asked[c].row = s

Queued(s) == \E e \in Event : e[1] = s /\ queue[e] > 0

InHand(s) == \E h \in Handler : taken[h] # None /\ taken[h][1] = s

Told(s) ==
  s \in missed \/ (\E c \in Client : AdjustPublishes(c, s)) \/ Queued(s) \/ InHand(s)

ReceiptCreates(c) ==
  Reached(c, "commit") /\ asked[c].kind = "receive" /\ stock[asked[c].row] = None

\* A request applies its change once, or there was a fault.
AppliedWell(c) ==
  asked[c] # None =>
    /\ asked[c].fault \/ redis_up
    /\ \/ asked[c].applied = 0
       \/ asked[c].applied = 1 /\ asked[c].step = "publish"
       \/ asked[c].fault
    /\ asked[c].kind = "receive" => asked[c].applied = 0

SEInv ==
  /\ SETypeOK
  /\ \A c \in Client : AppliedWell(c)
  /\ \A s \in unseen : Told(s)
  /\ \A c \in Client : ReceiptCreates(c) => Told(asked[c].row)

LEMMA AskedRequest ==
  ASSUME SETypeOK, NEW c \in Client, asked[c] # None
  PROVE  /\ asked[c] \in Request /\ asked[c].row \in Shelf
         /\ asked[c].kind \in {"adjust", "receive"} /\ asked[c].applied \in Nat
         /\ asked[c].change \in Int /\ asked[c].fault \in BOOLEAN
BY DEF SETypeOK, Optional, Request, FirstStep, Change

LEMMA TakenEvent ==
  ASSUME SETypeOK, NEW h \in Handler, taken[h] # None
  PROVE  taken[h] \in Event /\ taken[h][1] \in Shelf /\ taken[h][2] \in 0..MaxRetries
BY DEF SETypeOK, Optional, Event

LEMMA PublishedEvents ==
  ASSUME SETypeOK, NEW sent \in SUBSET Event, queue' = Published(sent)
  PROVE  /\ queue' \in [Event -> Nat]
         /\ \A e \in Event : queue'[e] >= queue[e]
         /\ \A e \in sent : queue'[e] > 0
BY DEF SETypeOK, Published

LEMMA RetriedEvents ==
  ASSUME NEW e \in Event
  PROVE  Retried(e) \subseteq Event /\ \A x \in Retried(e) : x[1] = e[1]
BY DEF Retried, Event, MaxRetries

-----------------------------------------------------------------------------
\* Types: first the steps of the clients.
LEMMA ClientTypes ==
  ASSUME SETypeOK, NEW c \in Client,
         \/ \E kind \in DOMAIN FirstStep, s \in Shelf, n \in Change : Ask(c, kind, s, n)
         \/ ServeClient(c) \/ LoseCommit(c) \/ LoseClient(c) \/ AskAgain(c)
  PROVE  SETypeOK'
<1>1. ASSUME NEW kind \in DOMAIN FirstStep, NEW s \in Shelf, NEW n \in Change,
             Ask(c, kind, s, n)
      PROVE  SETypeOK'
  <2> DEFINE r == [kind |-> kind, row |-> s, change |-> n,
                   step |-> FirstStep[kind], applied |-> 0, fault |-> ~redis_up]
  <2>1. r \in Request
    BY DEF Request, FirstStep
  <2>2. asked' = [asked EXCEPT ![c] = r]
        /\ UNCHANGED <<stock, redis_up, queue, taken, unseen, missed>>
    BY <1>1 DEF Ask
  <2> QED
    BY <2>1, <2>2 DEF SETypeOK, Optional
<1>2. CASE CommitStock(c) \/ LoseCommit(c)
  <2> DEFINE s == asked[c].row
             n == Held(s) + asked[c].change
  <2>1. /\ asked[c] # None /\ asked[c] \in Request /\ s \in Shelf
        /\ n \in 0..MaxStock /\ n \in Int
    BY <1>2, AskedRequest, StockEventsAssumption
    DEF CommitStock, LoseCommit, Applies, Reached, Storable
  <2>2. asked' \in [Client -> Optional(Request)]
    BY <1>2, <2>1
    DEF CommitStock, LoseCommit, Applies, Answered, SETypeOK, Optional, Request
  <2>3. stock' = [stock EXCEPT ![s] = n] /\ UNCHANGED <<redis_up, queue, taken>>
    BY <1>2 DEF CommitStock, LoseCommit, Applies
  <2>4. unseen' \subseteq Shelf /\ missed' \subseteq Shelf
    BY <1>2, <2>1 DEF CommitStock, LoseCommit, Applies, SETypeOK
  <2>5. s \in unseen' => n <= ReorderLevel
    BY <1>2, <2>1, StockEventsAssumption DEF CommitStock, LoseCommit, Applies
  <2>6. unseen' \subseteq unseen \cup {s}
    BY <1>2 DEF CommitStock, LoseCommit, Applies
  <2>7. n # None
    BY <2>1, StockEventsAssumption
  <2>8. \A x \in unseen' : stock'[x] # None /\ stock'[x] <= ReorderLevel
    BY <2>1, <2>3, <2>4, <2>5, <2>6, <2>7 DEF SETypeOK
  <2> QED
    BY <2>1, <2>2, <2>3, <2>4, <2>8 DEF SETypeOK, Optional
<1>3. CASE FailCommit(c) \/ AskAgain(c)
  <2>1. asked[c] \in Request
    BY <1>3, AskedRequest DEF FailCommit, AskAgain, Reached
  <2>2. asked' \in [Client -> Optional(Request)]
    BY <1>3, <2>1
    DEF FailCommit, AskAgain, Answered, RolledBack, SETypeOK, Optional, Request
  <2> QED
    BY <1>3, <2>2 DEF FailCommit, AskAgain, SETypeOK
<1>4. CASE PublishEvent(c)
  <2>1. asked[c] \in Request /\ asked[c].row \in Shelf
    BY <1>4, AskedRequest DEF PublishEvent, Reached
  <2>2. asked' \in [Client -> Optional(Request)]
    BY <1>4, <2>1 DEF PublishEvent, Answered, SETypeOK, Optional, Request
  <2>3. {<<asked[c].row, 0>>} \in SUBSET Event
    BY <2>1 DEF Event, MaxRetries
  <2>4. queue' \in [Event -> Nat]
    BY <1>4, <2>3, PublishedEvents DEF PublishEvent
  <2> QED
    BY <1>4, <2>2, <2>4 DEF PublishEvent, SETypeOK
<1>5. CASE FailPublish(c) \/ LoseClient(c)
  <2>1. asked[c] \in Request /\ asked[c].row \in Shelf
    BY <1>5, AskedRequest DEF FailPublish, LoseClient, Reached
  <2>2. asked' \in [Client -> Optional(Request)]
    BY <1>5, <2>1 DEF FailPublish, LoseClient, Fails, SETypeOK, Optional, Request
  <2> QED
    BY <1>5, <2>1, <2>2 DEF FailPublish, LoseClient, SETypeOK
<1> QED
  BY <1>1, <1>2, <1>3, <1>4, <1>5 DEF ServeClient

LEMMA HandlerTypes ==
  ASSUME SETypeOK, NEW h \in Handler,
         (\E e \in Event : TakeEvent(h, e)) \/ WorkOn(h) \/ LoseHandler(h)
  PROVE  SETypeOK'
<1>1. ASSUME NEW e \in Event, TakeEvent(h, e)
      PROVE  SETypeOK'
  BY <1>1 DEF TakeEvent, SETypeOK, Optional
<1>2. CASE HandleEvent(h)
  BY <1>2, TakenEvent DEF HandleEvent, SETypeOK, Optional
<1>3. CASE FailEvent(h)
  <2> DEFINE again == IF redis_up THEN Retried(taken[h]) ELSE {}
  <2>1. again \in SUBSET Event /\ queue' = Published(again) /\ taken[h][1] \in Shelf
    BY <1>3, TakenEvent, RetriedEvents DEF FailEvent
  <2>2. queue' \in [Event -> Nat]
    BY <2>1, PublishedEvents
  <2> QED
    BY <1>3, <2>1, <2>2 DEF FailEvent, SETypeOK, Optional
<1>4. CASE LoseHandler(h)
  BY <1>4, TakenEvent DEF LoseHandler, SETypeOK, Optional
<1> QED
  BY <1>1, <1>2, <1>3, <1>4 DEF WorkOn

LEMMA WorldTypes ==
  ASSUME SETypeOK,
         \/ \E s \in Shelf, n \in 0..MaxStock : ChangeStock(s, n)
         \/ LoseRedis \/ RestartRedis
  PROVE  SETypeOK'
<1>1. ASSUME NEW s \in Shelf, NEW n \in 0..MaxStock, ChangeStock(s, n)
      PROVE  SETypeOK'
  <2>1. n # None /\ n \in Int
    BY StockEventsAssumption
  <2> QED
    BY <1>1, <2>1, StockEventsAssumption DEF ChangeStock, SETypeOK, Optional
<1>2. CASE LoseRedis
  <2>1. asked' \in [Client -> Optional(Request)]
    <3>1. ASSUME NEW c \in Client, asked[c] # None
          PROVE  [asked[c] EXCEPT !.fault = TRUE] \in Request
      BY <1>2, <3>1, AskedRequest DEF Request
    <3> QED
      BY <1>2, <3>1 DEF LoseRedis, Optional
  <2>2. {e[1] : e \in {x \in Event : queue[x] > 0}} \subseteq Shelf
    BY DEF Event
  <2>3. missed' \subseteq Shelf
    BY <1>2, <2>2 DEF LoseRedis, SETypeOK
  <2>4. queue' \in [Event -> Nat]
    BY <1>2 DEF LoseRedis, SETypeOK
  <2>5. redis_up' \in BOOLEAN /\ UNCHANGED <<stock, taken, unseen>>
    BY <1>2 DEF LoseRedis
  <2> QED
    BY <2>1, <2>3, <2>4, <2>5 DEF SETypeOK
<1>3. CASE RestartRedis
  BY <1>3 DEF RestartRedis, SETypeOK
<1> QED
  BY <1>1, <1>2, <1>3

-----------------------------------------------------------------------------
\* What has been applied.
LEMMA AppliedKept ==
  ASSUME SETypeOK, \A d \in Client : AppliedWell(d), [SENext]_eventVars
  PROVE  \A d \in Client : AppliedWell(d)'
<1>1. ASSUME NEW c \in Client,
             \/ ServeClient(c) \/ LoseCommit(c)
             \/ LoseClient(c) \/ AskAgain(c)
      PROVE  \A d \in Client : AppliedWell(d)'
  <2>1. asked[c] # None /\ AppliedWell(c)
    BY <1>1 DEF ServeClient, CommitStock, Applies, LoseCommit, FailCommit,
       PublishEvent, FailPublish,
                LoseClient, AskAgain, Reached
  <2>2. asked \in [Client -> Optional(Request)] /\ asked[c] \in Request
        /\ asked[c].applied \in Nat /\ asked[c].kind \in {"adjust", "receive"}
    BY <2>1, AskedRequest DEF SETypeOK
  <2>3. redis_up' = redis_up /\ \A d \in Client \ {c} : asked'[d] = asked[d]
    BY <1>1, <2>2 DEF ServeClient, CommitStock, Applies, LoseCommit,
       FailCommit, PublishEvent, FailPublish,
                LoseClient, AskAgain, Answered, Fails, Optional
  <2>4. CASE CommitStock(c)
    BY <2>1, <2>2, <2>4 DEF CommitStock, Applies, Reached, Answered,
       AppliedWell, Request
  <2>8. CASE LoseCommit(c)
    BY <2>1, <2>2, <2>8 DEF LoseCommit, Applies, Reached, AppliedWell, Request
  <2>5. CASE FailCommit(c) \/ PublishEvent(c)
    BY <2>1, <2>2, <2>5
    DEF FailCommit, PublishEvent, Reached, Answered, RolledBack, AppliedWell,
        Request
  <2>6. CASE FailPublish(c) \/ LoseClient(c) \/ AskAgain(c)
    BY <2>1, <2>2, <2>6
    DEF FailPublish, LoseClient, AskAgain, Reached, Answered, Fails,
        AppliedWell, Request
  <2>7. AppliedWell(c)'
    BY <1>1, <2>4, <2>5, <2>6, <2>8 DEF ServeClient
  <2> QED
    BY <2>3, <2>7 DEF AppliedWell
<1>2. ASSUME NEW c \in Client, NEW kind \in DOMAIN FirstStep, NEW s \in Shelf,
             NEW n \in Change, Ask(c, kind, s, n)
      PROVE  \A d \in Client : AppliedWell(d)'
  BY <1>2 DEF Ask, AppliedWell, SETypeOK
<1>3. CASE LoseRedis
  <2> SUFFICES ASSUME NEW d \in Client, asked'[d] # None
               PROVE  AppliedWell(d)'
    BY DEF AppliedWell
  <2>1. asked[d] # None /\ asked'[d] = [asked[d] EXCEPT !.fault = TRUE]
    BY <1>3 DEF LoseRedis
  <2>2. asked[d] \in Request /\ AppliedWell(d)
    BY <2>1, AskedRequest
  <2> QED
    BY <2>1, <2>2 DEF AppliedWell, Request
<1>4. CASE UNCHANGED asked /\ (redis_up => redis_up')
  BY <1>4 DEF AppliedWell
<1>5. CASE UNCHANGED eventVars
  BY <1>4, <1>5 DEF eventVars
<1>6. ASSUME NEW h \in Handler,
             (\E e \in Event : TakeEvent(h, e)) \/ WorkOn(h) \/ LoseHandler(h)
      PROVE  UNCHANGED <<asked, redis_up>>
  BY <1>6 DEF TakeEvent, WorkOn, HandleEvent, FailEvent, LoseHandler
<1>7. CASE RestartRedis \/ \E s \in Shelf, n \in 0..MaxStock : ChangeStock(s, n)
  BY <1>4, <1>7 DEF RestartRedis, ChangeStock
<1> QED
  BY <1>1, <1>2, <1>3, <1>4, <1>5, <1>6, <1>7 DEF SENext

-----------------------------------------------------------------------------
\* An event that is gone leaves its row missed, or is handled, which reports
\* the row if it is low.
LEMMA ToldStays ==
  ASSUME SETypeOK, [SENext]_eventVars, NEW s \in Shelf, Told(s)
  PROVE  Told(s)' \/ (stock[s] # None /\ UNCHANGED stock /\ s \notin unseen')
<1>1. ASSUME NEW c \in Client,
             \/ ServeClient(c) \/ LoseCommit(c)
             \/ LoseClient(c) \/ AskAgain(c)
      PROVE  Told(s)'
  <2>1. asked[c] # None /\ asked[c] \in Request /\ asked[c].row \in Shelf
        /\ asked \in [Client -> Optional(Request)]
    BY <1>1, AskedRequest DEF ServeClient, CommitStock, Applies, LoseCommit,
       FailCommit, PublishEvent,
       FailPublish, LoseClient, AskAgain, Reached, SETypeOK
  <2>2. /\ UNCHANGED taken
        /\ \A d \in Client \ {c} : asked'[d] = asked[d]
    BY <1>1, <2>1 DEF ServeClient, CommitStock, Applies, LoseCommit,
       FailCommit, PublishEvent, FailPublish,
                LoseClient, AskAgain, Answered, Fails, Optional
  <2>3. \A d \in Client \ {c} : AdjustPublishes(d, s) => AdjustPublishes(d, s)'
    BY <2>2 DEF AdjustPublishes, Reached
  <2>4. InHand(s) => InHand(s)'
    BY <2>2 DEF InHand
  <2>5. CASE CommitStock(c)
    <3>1. ~AdjustPublishes(c, s) /\ UNCHANGED queue
      BY <2>5 DEF CommitStock, Applies, AdjustPublishes, Reached
    <3>2. CASE s \in missed /\ s \notin missed'
      <4>1. asked[c].row = s /\ asked[c].kind = "adjust"
        BY <2>5, <3>2 DEF CommitStock, Applies
      <4>2. AdjustPublishes(c, s)'
        BY <2>1, <2>5, <4>1, StockEventsAssumption
        DEF CommitStock, Applies, AdjustPublishes, Reached, Request, Optional
      <4> QED
        BY <4>2 DEF Told
    <3> QED
      BY <2>3, <2>4, <3>1, <3>2 DEF Told, Queued
  <2>6. CASE PublishEvent(c)
    <3>1. {<<asked[c].row, 0>>} \in SUBSET Event
      BY <2>1 DEF Event, MaxRetries
    <3>2. (\A e \in Event : queue'[e] >= queue[e]) /\ queue'[<<asked[c].row, 0>>] > 0
          /\ queue' \in [Event -> Nat]
      BY <2>6, <3>1, PublishedEvents DEF PublishEvent
    <3>3. Queued(s) => Queued(s)'
      BY <3>2 DEF Queued, SETypeOK
    <3>4. asked[c].row = s => Queued(s)'
      BY <3>1, <3>2 DEF Queued
    <3>5. asked[c].row # s => ~AdjustPublishes(c, s) /\ (s \in missed => s \in missed')
      BY <2>6 DEF PublishEvent, AdjustPublishes
    <3> QED
      BY <2>3, <2>4, <3>3, <3>4, <3>5 DEF Told
  <2>7. CASE \/ LoseCommit(c) \/ FailCommit(c) \/ FailPublish(c)
             \/ LoseClient(c) \/ AskAgain(c)
    <3>1. UNCHANGED queue /\ (s \in missed => s \in missed')
      BY <2>7 DEF LoseCommit, Applies, FailCommit, FailPublish, LoseClient, AskAgain
    <3>2. AdjustPublishes(c, s) => s \in missed'
      BY <2>7 DEF LoseCommit, Applies, FailCommit, FailPublish, LoseClient,
         AskAgain,
                  AdjustPublishes, Reached
    <3> QED
      BY <2>3, <2>4, <3>1, <3>2 DEF Told, Queued
  <2> QED
    BY <1>1, <2>5, <2>6, <2>7 DEF ServeClient
<1>2. ASSUME NEW c \in Client, NEW kind \in DOMAIN FirstStep, NEW x \in Shelf,
             NEW n \in Change, Ask(c, kind, x, n)
      PROVE  Told(s)'
  <2>1. \A d \in Client : asked[d] # None => asked'[d] = asked[d]
    BY <1>2 DEF Ask, SETypeOK
  <2> QED
    BY <1>2, <2>1 DEF Ask, Told, AdjustPublishes, Reached, Queued, InHand
<1>3. CASE LoseRedis
  <2>1. \A d \in Client : AdjustPublishes(d, s) => AdjustPublishes(d, s)'
    <3> SUFFICES ASSUME NEW d \in Client, AdjustPublishes(d, s)
                 PROVE  AdjustPublishes(d, s)'
      OBVIOUS
    <3>1. asked[d] \in Request /\ asked'[d] = [asked[d] EXCEPT !.fault = TRUE]
      BY <1>3, AskedRequest DEF LoseRedis, AdjustPublishes, Reached
    <3>2. asked'[d] \in Request
      BY <3>1 DEF Request
    <3>3. asked'[d] # None
      BY <3>2, StockEventsAssumption DEF Request
    <3> QED
      BY <3>1, <3>3 DEF AdjustPublishes, Reached, Request
  <2>2. s \in missed => s \in missed'
    BY <1>3 DEF LoseRedis
  <2>3. Queued(s) => Queued(s)' \/ s \in missed'
    BY <1>3 DEF LoseRedis, Queued
  <2> QED
    BY <1>3, <2>1, <2>2, <2>3 DEF LoseRedis, Told, InHand
<1>4. ASSUME NEW h \in Handler, NEW e \in Event, TakeEvent(h, e)
      PROVE  Told(s)'
  <2>1. /\ \A x \in Event \ {e} : queue'[x] = queue[x]
        /\ \A k \in Handler : taken[k] # None => taken'[k] = taken[k]
        /\ UNCHANGED <<asked, missed>>
    BY <1>4 DEF TakeEvent, SETypeOK
  <2>2. e[1] = s => InHand(s)'
    BY <1>4, StockEventsAssumption DEF TakeEvent, InHand, SETypeOK
  <2> QED
    BY <2>1, <2>2 DEF Told, AdjustPublishes, Reached, Queued, InHand
<1>5. ASSUME NEW h \in Handler, WorkOn(h) \/ LoseHandler(h)
      PROVE  Told(s)' \/ (stock[s] # None /\ UNCHANGED stock /\ s \notin unseen')
  <2>1. taken[h] \in Event /\ taken[h][1] \in Shelf
    BY <1>5, TakenEvent DEF WorkOn, HandleEvent, FailEvent, LoseHandler
  <2>2. /\ \A k \in Handler \ {h} : taken'[k] = taken[k]
        /\ UNCHANGED <<asked, stock>>
    BY <1>5 DEF WorkOn, HandleEvent, FailEvent, LoseHandler, SETypeOK
  <2>3. CASE taken[h][1] # s
    <3>1. InHand(s) => InHand(s)'
      BY <2>2, <2>3 DEF InHand
    <3>2. s \in missed => s \in missed'
      BY <1>5, <2>3 DEF WorkOn, HandleEvent, FailEvent, LoseHandler
    <3>3. Queued(s) => Queued(s)'
      <4>1. CASE FailEvent(h)
        <5>1. \A e \in Event : queue'[e] >= queue[e]
          BY <4>1, <2>1, RetriedEvents, PublishedEvents DEF FailEvent
        <5>2. queue' \in [Event -> Nat]
          BY <4>1, <2>1, RetriedEvents, PublishedEvents DEF FailEvent
        <5> QED
          BY <5>1, <5>2 DEF Queued, SETypeOK
      <4> QED
        BY <1>5, <4>1 DEF WorkOn, HandleEvent, LoseHandler, Queued
    <3> QED
      BY <2>2, <3>1, <3>2, <3>3 DEF Told, AdjustPublishes, Reached
  <2>4. CASE taken[h][1] = s /\ HandleEvent(h)
    BY <2>4 DEF HandleEvent, IsLow, Held, Told, SETypeOK
  <2>5. CASE taken[h][1] = s /\ FailEvent(h)
    <3> DEFINE again == IF redis_up THEN Retried(taken[h]) ELSE {}
    <3>1. again \in SUBSET Event /\ (\A e \in again : e[1] = s)
      BY <2>1, <2>5, RetriedEvents
    <3>2. \A e \in again : queue'[e] > 0
      BY <2>5, <3>1, PublishedEvents DEF FailEvent
    <3>3. again = {} => s \in missed'
      BY <2>5 DEF FailEvent
    <3> QED
      BY <3>1, <3>2, <3>3 DEF Told, Queued
  <2>6. CASE taken[h][1] = s /\ LoseHandler(h)
    BY <2>6 DEF LoseHandler, Told
  <2> QED
    BY <1>5, <2>3, <2>4, <2>5, <2>6 DEF WorkOn
<1>6. CASE RestartRedis \/ (\E x \in Shelf, n \in 0..MaxStock : ChangeStock(x, n))
           \/ UNCHANGED eventVars
  BY <1>6 DEF RestartRedis, ChangeStock, eventVars, Told, AdjustPublishes, Reached,
              Queued, InHand
<1> QED
  BY <1>1, <1>2, <1>3, <1>4, <1>5, <1>6 DEF SENext

\* A row that is left low only now has its event still to come, or is created
\* by a receipt.
LEMMA NewlyUnseen ==
  ASSUME SETypeOK, [SENext]_eventVars, NEW s \in unseen', s \notin unseen
  PROVE  \/ Told(s)'
         \/ \E c \in Client : ReceiptCreates(c) /\ asked[c].row = s
<1>1. PICK c \in Client : CommitStock(c) \/ LoseCommit(c)
  BY DEF SENext, ServeClient, LoseClient, AskAgain, Ask, FailCommit, PublishEvent,
         FailPublish, ChangeStock, TakeEvent, WorkOn, HandleEvent, FailEvent,
         LoseHandler, LoseRedis, RestartRedis, eventVars
<1>2. /\ asked[c] \in Request /\ asked[c].row = s /\ asked[c] # None
      /\ asked \in [Client -> Optional(Request)]
  BY <1>1, AskedRequest DEF CommitStock, LoseCommit, Applies, Reached, SETypeOK
<1>3. CASE asked[c].kind = "adjust"
  <2>1. CASE CommitStock(c)
    <3>1. AdjustPublishes(c, s)'
      BY <1>2, <1>3, <2>1, StockEventsAssumption
      DEF CommitStock, Applies, AdjustPublishes, Reached, Request, Optional
    <3> QED
      BY <3>1 DEF Told
  <2>2. CASE LoseCommit(c)
    BY <1>2, <1>3, <2>2 DEF LoseCommit, Told
  <2> QED
    BY <1>1, <2>1, <2>2
<1>4. CASE asked[c].kind # "adjust"
  <2>1. ReceiptCreates(c)
    BY <1>1, <1>2, <1>4, AskedRequest DEF CommitStock, LoseCommit, Applies,
       ReceiptCreates
  <2> QED
    BY <1>2, <2>1
<1> QED
  BY <1>3, <1>4

LEMMA RowsStay ==
  ASSUME SETypeOK, [SENext]_eventVars, NEW s \in Shelf, stock'[s] = None
  PROVE  stock[s] = None
<1>1. ASSUME NEW c \in Client, Applies(c)
      PROVE  stock[s] = None
  <2>1. asked[c].row \in Shelf /\ Held(asked[c].row) + asked[c].change # None
    BY <1>1, AskedRequest, StockEventsAssumption DEF Applies, Reached, Storable
  <2> QED
    BY <1>1, <2>1 DEF Applies, SETypeOK
<1>2. ASSUME NEW x \in Shelf, NEW n \in 0..MaxStock, ChangeStock(x, n)
      PROVE  stock[s] = None
  <2>1. n # None
    BY StockEventsAssumption
  <2> QED
    BY <1>2, <2>1 DEF ChangeStock, SETypeOK
<1>3. CASE UNCHANGED stock
  BY <1>3
<1> QED
  BY <1>1, <1>2, <1>3
  DEF SENext, ServeClient, CommitStock, LoseCommit, FailCommit, PublishEvent,
      FailPublish, LoseClient, AskAgain,
      Ask, TakeEvent, WorkOn, HandleEvent, FailEvent, LoseHandler, LoseRedis,
      RestartRedis, eventVars

\* A receipt that is about to create its row has published its event.
LEMMA CreatesTold ==
  ASSUME SETypeOK, [SENext]_eventVars, NEW c \in Client, ReceiptCreates(c)',
         ReceiptCreates(c) => Told(asked[c].row)
  PROVE  Told(asked[c].row)'
<1>1. asked' \in [Client -> Optional(Request)] /\ stock' \in [Shelf -> Optional(0..MaxStock)]
  <2>1. SETypeOK'
    BY ClientTypes, HandlerTypes, WorldTypes
    DEF SENext, SETypeOK, eventVars
  <2> QED
    BY <2>1 DEF SETypeOK
<1>2. asked'[c] \in Request /\ asked'[c].row \in Shelf
  BY <1>1 DEF ReceiptCreates, Reached, Optional, Request
<1>3. CASE PublishEvent(c)
  <2>1. asked[c] \in Request /\ asked \in [Client -> Optional(Request)]
    BY <1>3, AskedRequest DEF PublishEvent, Reached, SETypeOK
  <2>2. asked'[c] = None \/ asked'[c] = [asked[c] EXCEPT !.step = "commit"]
    BY <1>3, <2>1 DEF PublishEvent, Answered
  <2>3. asked'[c].row = asked[c].row
    BY <2>1, <2>2 DEF ReceiptCreates, Reached, Request
  <2>4. {<<asked[c].row, 0>>} \in SUBSET Event
    BY <1>2, <2>3 DEF Event, MaxRetries
  <2>5. queue'[<<asked[c].row, 0>>] > 0
    BY <1>3, <2>4, PublishedEvents DEF PublishEvent
  <2> QED
    BY <2>3, <2>4, <2>5 DEF Told, Queued
<1>4. CASE ~PublishEvent(c)
  <2>1. asked[c] # None /\ asked[c].step = "commit" /\ asked[c].kind = "receive"
        /\ asked'[c].row = asked[c].row
    <3>1. ASSUME NEW d \in Client,
                 \/ ServeClient(d) \/ LoseCommit(d)
                 \/ LoseClient(d) \/ AskAgain(d)
          PROVE  asked'[c] = asked[c]
      <4>1. asked[d] # None /\ asked \in [Client -> Optional(Request)]
        BY <3>1 DEF ServeClient, CommitStock, Applies, LoseCommit, FailCommit,
           PublishEvent, FailPublish,
                    LoseClient, AskAgain, Reached, SETypeOK
      <4>2. CASE d # c
        BY <3>1, <4>1, <4>2
        DEF ServeClient, CommitStock, Applies, LoseCommit, FailCommit,
            PublishEvent, FailPublish, LoseClient,
            AskAgain, Answered, Fails
      <4>3. CASE d = c
        <5>1. asked[c] \in Request
          BY <4>1, <4>3, AskedRequest
        <5>2. asked'[c] # None /\ asked'[c].step = "commit" /\ asked'[c].kind = "receive"
          BY DEF ReceiptCreates, Reached
        <5>3. /\ ~CommitStock(c) /\ ~LoseCommit(c) /\ ~FailCommit(c)
              /\ ~FailPublish(c) /\ ~LoseClient(c)
          BY <4>1, <5>1, <5>2
          DEF CommitStock, Applies, LoseCommit, FailCommit, FailPublish,
              LoseClient, Answered, Fails, Request
        <5>4. ~AskAgain(c)
          BY <4>1, <5>1, <5>2 DEF AskAgain, Answered, Request
        <5> QED
          BY <1>4, <3>1, <4>3, <5>3, <5>4 DEF ServeClient
      <4> QED
        BY <4>2, <4>3
    <3>4. CASE LoseRedis
      <4>1. asked[c] # None /\ asked'[c] = [asked[c] EXCEPT !.fault = TRUE]
        BY <3>4 DEF LoseRedis, ReceiptCreates, Reached
      <4>2. asked[c] \in Request
        BY <4>1, AskedRequest
      <4> QED
        BY <4>1, <4>2 DEF ReceiptCreates, Reached, Request
    <3>2. CASE \E d \in Client : \E kind \in DOMAIN FirstStep, s \in Shelf, n \in Change :
                 Ask(d, kind, s, n)
      BY <3>2 DEF Ask, FirstStep, ReceiptCreates, Reached, SETypeOK
    <3>3. CASE asked'[c] = asked[c]
      BY <3>3 DEF ReceiptCreates, Reached
    <3> QED
      BY <3>1, <3>2, <3>3, <3>4
      DEF SENext, ChangeStock, TakeEvent, WorkOn, HandleEvent, FailEvent,
          LoseHandler,
          RestartRedis, eventVars
  <2>2. stock[asked[c].row] = None
    <3>1. stock'[asked[c].row] = None
      BY <2>1 DEF ReceiptCreates
    <3> QED
      BY <1>2, <2>1, <3>1, RowsStay
  <2>3. Told(asked[c].row)
    BY <2>1, <2>2 DEF ReceiptCreates, Reached
  <2> QED
    BY <1>2, <2>1, <2>2, <2>3, ToldStays
<1> QED
  BY <1>3, <1>4

LEMMA EventsInvariant == SESpec => []SEInv
<1>1. SEInit => SEInv
  BY StockEventsAssumption
  DEF SEInit, SEInv, SETypeOK, AppliedWell, ReceiptCreates, Reached, Optional
<1>2. ASSUME SEInv, [SENext]_eventVars
      PROVE  SEInv'
  <2>1. SETypeOK'
    BY <1>2, ClientTypes, HandlerTypes, WorldTypes DEF SEInv, SENext, SETypeOK,
       eventVars
  <2>2. \A c \in Client : AppliedWell(c)'
    BY <1>2, AppliedKept DEF SEInv
  <2>3. ASSUME NEW s \in unseen'
        PROVE  Told(s)'
    <3>1. s \in Shelf
      BY <2>1 DEF SETypeOK
    <3>2. CASE s \in unseen
      BY <1>2, <3>1, <3>2, ToldStays DEF SEInv
    <3>3. CASE s \notin unseen
      <4>1. CASE \E c \in Client : ReceiptCreates(c) /\ asked[c].row = s
        BY <1>2, <3>1, <4>1, ToldStays DEF SEInv
      <4> QED
        BY <1>2, <3>3, <4>1, NewlyUnseen DEF SEInv
    <3> QED
      BY <3>2, <3>3
  <2>4. ASSUME NEW c \in Client, ReceiptCreates(c)'
        PROVE  Told(asked[c].row)'
    BY <1>2, <2>4, CreatesTold DEF SEInv
  <2> QED
    BY <2>1, <2>2, <2>3, <2>4 DEF SEInv
<1> QED
  BY <1>1, <1>2, PTL DEF SESpec

(***************************************************************************)
(* For any number of clients, handlers and rows: a row that is left low is *)
(* reported, or its event is under way, or it was lost.                    *)
(***************************************************************************)
THEOREM LowStockTold == SESpec => [](SETypeOK /\ LowStockNotForgotten)
<1>1. SEInv => SETypeOK /\ LowStockNotForgotten
  BY DEF SEInv, LowStockNotForgotten, Told, EventUnderWay, AdjustPublishes,
     Queued, InHand
<1> QED
  BY <1>1, EventsInvariant, PTL

(***************************************************************************)
(* An adjustment that its client repeats until it is answered is applied   *)
(* twice only if Redis, the web process or the connection at COMMIT failed *)
(* meanwhile.                                                              *)
(***************************************************************************)
THEOREM AdjustmentsAppliedOnce == SESpec => []AppliedOnceWithoutFault
<1>1. SEInv => AppliedOnceWithoutFault
  BY AskedRequest DEF SEInv, AppliedWell, AppliedOnceWithoutFault
<1> QED
  BY <1>1, EventsInvariant, PTL

-----------------------------------------------------------------------------
\* The cached views.
(***************************************************************************)
(* A script ends.                                                          *)
(***************************************************************************)
LEMMA ScriptLength ==
  ASSUME NEW c \in Call
  PROVE  Len(Script(c)) \in Nat
<1>1. c \in AllCalls
  BY StockViewsAssumption
<1>2. /\ Len(<<"commit", "detail", "low_stock", "publish">>) = 4
      /\ Len(<<"commit", "detail", "low_stock">>) = 3
      /\ Len(<<"detail", "low_stock", "publish", "commit">>) = 4
      /\ Len(<<"detail", "commit", "low_stock">>) = 3
  OBVIOUS
<1>3. /\ Len(<<"commit">>) = 1
      /\ Len(<<"commit", "warehouse">>) = 2
      /\ Len(<<"commit", "supplier">>) = 2
      /\ Len(<<"commit", "tree">>) = 2
  OBVIOUS
<1> QED
  BY <1>1, <1>2, <1>3 DEF Script, AllCalls

(***************************************************************************)
(* Whatever a call answers for is deleted after its commit.                *)
(***************************************************************************)
LEMMA RefreshesFollow ==
  ASSUME NEW c \in Call, NEW v \in Refreshes(c),
         NEW n \in 1..Len(Script(c)), Script(c)[n] = "commit"
  PROVE  \E k \in (n + 1)..Len(Script(c)) : Script(c)[k] = v
<1>1. c \in AllCalls
  BY StockViewsAssumption
<1>2. CASE c = "adjust"
  BY <1>2 DEF Script, Refreshes
<1>3. CASE c = "transfer"
  BY <1>3 DEF Script, Refreshes
<1>4. CASE c \in {"create_order", "cancel_order"}
  BY <1>4 DEF Script, Refreshes
<1>5. CASE c \in {"update_warehouse", "delete_warehouse"}
  BY <1>5 DEF Script, Refreshes
<1>6. CASE c \in {"update_supplier", "delete_supplier"}
  BY <1>6 DEF Script, Refreshes
<1>7. CASE c = "create_category"
  BY <1>7 DEF Script, Refreshes
<1>8. CASE c \in {"receive", "dispatch", "order_purchase", "register"}
  BY <1>8 DEF Refreshes
<1> QED
  BY <1>1, <1>2, <1>3, <1>4, <1>5, <1>6, <1>7, <1>8 DEF AllCalls

(***************************************************************************)
(* A committed call that answers for a view has the deletion of its key    *)
(* still ahead, or no entry there is from before the commit; an entry that *)
(* is there was stored since the last commit that was answered.            *)
(***************************************************************************)
Ahead(w, v) ==
  \E k \in (w.at)..Len(Script(w.call)) : Script(w.call)[k] = v

StoredSince(v, n) == cache[v] # None => n <= cache[v].stored

Refreshed ==
  \A t \in Writer, v \in View :
    writing[t] # None /\ writing[t].made # None
    /\ v \in Refreshes(writing[t].call)
      => Ahead(writing[t], v) \/ StoredSince(v, writing[t].made[v])

AnsweredGone == \A v \in View : StoredSince(v, answered[v])

ViewInv == ViewTypeOK /\ Refreshed /\ AnsweredGone

LEMMA ReaderKeeps ==
  ASSUME ViewInv, NEW r \in Reader,
         \/ \E v \in View : Miss(r, v)
         \/ ReadTables(r)
         \/ Store(r)
         \/ GiveUpRead(r)
  PROVE  ViewInv'
<1> USE DEF ViewInv, ViewTypeOK
<1>1. UNCHANGED <<version, writing, events, answered>>
  BY DEF Miss, ReadTables, Store, GiveUpRead
<1>2. CASE UNCHANGED cache
  <2>1. ViewTypeOK'
    <3>1. ASSUME NEW v \in View, Miss(r, v)
          PROVE  ViewTypeOK'
      BY <3>1 DEF Miss
    <3>2. CASE ReadTables(r)
      BY <3>2 DEF ReadTables
    <3>3. CASE Store(r)
      BY <1>1, <1>2, <3>3 DEF Store
    <3>4. CASE GiveUpRead(r)
      BY <3>4 DEF GiveUpRead
    <3> QED
      BY <3>1, <3>2, <3>3, <3>4
  <2>2. Refreshed' /\ AnsweredGone'
    BY <1>1, <1>2 DEF Refreshed, AnsweredGone, Ahead, StoredSince
  <2> QED
    BY <2>1, <2>2
<1>3. CASE Store(r)
  <2> DEFINE v == reading[r].view
             entry == [read |-> reading[r].read, stored |-> version[v]]
  <2>1. v \in View /\ reading[r].read \in Nat /\ reading[r].read <= version[v]
    BY <1>3 DEF Store
  <2>2. entry \in Entry /\ entry.read = reading[r].read
        /\ entry.stored = version[v]
    BY <2>1 DEF Entry
  <2>3. cache' = [cache EXCEPT ![v] = entry]
    BY <1>3 DEF Store
  <2>4. UNCHANGED <<version, writing, events, answered>>
        /\ reading' = [reading EXCEPT ![r] = None]
    BY <1>3 DEF Store
  <2> HIDE DEF entry, v
  <2>5. ViewTypeOK'
    BY <2>1, <2>2, <2>3, <2>4
  <2>6. \A x \in View, n \in Nat :
          n <= version[x] /\ StoredSince(x, n) => StoredSince(x, n)'
    BY <2>2, <2>3 DEF StoredSince
  <2>7. AnsweredGone'
    BY <2>4, <2>6 DEF AnsweredGone, StoredSince
  <2>8. Refreshed'
    <3> SUFFICES ASSUME NEW t \in Writer, NEW x \in View, writing[t] # None,
                        writing[t].made # None,
                        x \in Refreshes(writing[t].call),
                        ~Ahead(writing[t], x)
                 PROVE  StoredSince(x, writing[t].made[x])'
      BY <2>4 DEF Refreshed, Ahead
    <3>1. /\ writing[t].made[x] \in Nat
          /\ writing[t].made[x] <= version[x]
          /\ StoredSince(x, writing[t].made[x])
      BY DEF Refreshed
    <3> QED
      BY <2>4, <2>6, <3>1 DEF StoredSince
  <2> QED
    BY <2>5, <2>7, <2>8
<1> QED
  BY <1>2, <1>3 DEF Miss, ReadTables, GiveUpRead

LEMMA CacheLosesEntry ==
  ASSUME ViewInv, NEW v \in View, cache' = [cache EXCEPT ![v] = None],
         UNCHANGED <<version, reading, writing, answered>>, events' \in Nat
  PROVE  ViewInv'
<1>1. ViewTypeOK'
  BY DEF ViewInv, ViewTypeOK
<1>2. \A x \in View : \A n : StoredSince(x, n) => StoredSince(x, n)'
  BY DEF ViewInv, ViewTypeOK, StoredSince
<1>3. Refreshed' /\ AnsweredGone'
  BY <1>2 DEF ViewInv, Refreshed, AnsweredGone, Ahead, StoredSince
<1> QED
  BY <1>1, <1>3 DEF ViewInv

(***************************************************************************)
(* A step that only moves a writer on, with the changes it had made.       *)
(***************************************************************************)
LEMMA WriterMovesOn ==
  ASSUME ViewInv, NEW t \in Writer, NEW s, Takes(t, s), MovesOn(t),
         UNCHANGED <<version, reading, answered>>, events' \in Nat,
         \/ s \notin View /\ UNCHANGED cache
         \/ s \in View /\ cache' = [cache EXCEPT ![s] = None]
  PROVE  ViewInv'
<1>1. /\ writing[t] \in [call : Call, at : Nat \ {0},
                         made : [View -> Nat] \cup {None}]
      /\ Script(writing[t].call)[writing[t].at] = s
  BY DEF Takes, ViewInv, ViewTypeOK
<1>2. /\ writing' \in [Writer -> [call : Call, at : Nat \ {0},
                                  made : [View -> Nat] \cup {None}] \cup {None}]
      /\ writing'[t].made = writing[t].made
      /\ writing'[t].call = writing[t].call
      /\ writing'[t].at = writing[t].at + 1
      /\ \A u \in Writer : u # t => writing'[u] = writing[u]
  BY <1>1 DEF MovesOn, ViewInv, ViewTypeOK
<1>3. \A u \in Writer, v \in View :
        writing'[u] # None /\ writing'[u].made # None
          => writing'[u].made[v] <= version[v]
  BY <1>2 DEF Takes, ViewInv, ViewTypeOK
<1>4. /\ cache' \in [View -> Entry \cup {None}]
      /\ \A v \in View : \/ cache'[v] = None
                         \/ cache'[v] = cache[v] /\ v # s
  BY DEF ViewInv, ViewTypeOK
<1>5. ViewTypeOK'
  BY <1>2, <1>3, <1>4 DEF ViewInv, ViewTypeOK
<1>6. \A v \in View : \A n : StoredSince(v, n) => StoredSince(v, n)'
  BY <1>4 DEF StoredSince
<1>7. AnsweredGone'
  BY <1>6 DEF ViewInv, AnsweredGone, StoredSince
<1>8. ASSUME NEW u \in Writer, NEW v \in View, writing'[u] # None,
             writing'[u].made # None, v \in Refreshes(writing'[u].call)
      PROVE  (Ahead(writing[u], v) \/ StoredSince(v, writing[u].made[v]))'
  <2>1. CASE u # t
    <3>1. Ahead(writing[u], v) \/ StoredSince(v, writing[u].made[v])
      BY <1>2, <1>8, <2>1 DEF ViewInv, Refreshed
    <3> QED
      BY <1>2, <1>6, <2>1, <3>1 DEF StoredSince
  <2>2. CASE u = t
    <3>1. \/ Ahead(writing[t], v)
          \/ StoredSince(v, writing[t].made[v])
      BY <1>2, <1>8, <2>2 DEF ViewInv, Refreshed, Takes
    <3>2. CASE StoredSince(v, writing[t].made[v])
      BY <1>2, <1>6, <2>2, <3>2 DEF StoredSince
    <3>3. CASE v = s
      BY <1>4, <3>3 DEF StoredSince
    <3>4. CASE Ahead(writing[t], v) /\ v # s
      <4>1. PICK k \in (writing[t].at)..Len(Script(writing[t].call)) :
                   Script(writing[t].call)[k] = v
        BY <3>4 DEF Ahead
      <4>2. k # writing[t].at
        BY <1>1, <3>4, <4>1
      <4>3. k \in (writing[t].at + 1)..Len(Script(writing[t].call))
        BY <1>1, <4>1, <4>2
      <4> QED
        BY <1>2, <2>2, <4>1, <4>3 DEF Ahead
    <3> QED
      BY <3>1, <3>2, <3>3, <3>4
  <2> QED
    BY <2>1, <2>2
<1> QED
  BY <1>5, <1>7, <1>8 DEF ViewInv, Refreshed

LEMMA CommitKeeps ==
  ASSUME ViewInv, NEW t \in Writer, CommitCall(t)
  PROVE  ViewInv'
<1> DEFINE next == [v \in View |-> IF v \in View \cap Changes(writing[t].call)
                                   THEN version[v] + 1 ELSE version[v]]
           w == [call |-> writing[t].call, at |-> writing[t].at + 1,
                 made |-> next]
<1>1. /\ version' = next
      /\ writing' = [writing EXCEPT ![t] = w]
      /\ UNCHANGED <<cache, reading, events, answered>>
  BY DEF CommitCall
<1>2. next \in [View -> Nat] /\ \A v \in View : version[v] <= next[v]
  BY DEF ViewInv, ViewTypeOK
<1>3. /\ writing[t] # None
      /\ writing[t] \in [call : Call, at : Nat \ {0},
                         made : [View -> Nat] \cup {None}]
      /\ writing[t].at <= Len(Script(writing[t].call))
      /\ Script(writing[t].call)[writing[t].at] = "commit"
  BY DEF CommitCall, Takes, ViewInv, ViewTypeOK
<1>4. /\ w \in [call : Call, at : Nat \ {0},
                made : [View -> Nat] \cup {None}]
      /\ w.made = next /\ w.call = writing[t].call
      /\ w.at = writing[t].at + 1
  BY <1>2, <1>3
<1> HIDE DEF next, w
<1>5. /\ version' \in [View -> Nat]
      /\ cache' \in [View -> Entry \cup {None}]
      /\ reading' \in [Reader -> [view : View, read : Nat \cup {None}]
                                 \cup {None}]
      /\ events' \in Nat
      /\ answered' \in [View -> Nat]
  BY <1>1, <1>2 DEF ViewInv, ViewTypeOK
<1>6. /\ writing' \in
           [Writer -> [call : Call, at : Nat \ {0},
                       made : [View -> Nat] \cup {None}] \cup {None}]
      /\ \A v \in View, u \in Writer :
           writing'[u] # None /\ writing'[u].made # None
             => writing'[u].made[v] <= version'[v]
  BY <1>1, <1>2, <1>4 DEF ViewInv, ViewTypeOK
<1>7. \A r \in Reader :
        reading'[r] # None /\ reading'[r].read # None
          => reading'[r].read <= version'[reading'[r].view]
  BY <1>1, <1>2 DEF ViewInv, ViewTypeOK
<1>8. \A v \in View :
        /\ answered'[v] <= version'[v]
        /\ cache'[v] # None => /\ cache'[v].read <= cache'[v].stored
                               /\ cache'[v].stored <= version'[v]
  BY <1>1, <1>2 DEF ViewInv, ViewTypeOK, Entry
<1>9. AnsweredGone'
  BY <1>1 DEF ViewInv, AnsweredGone, StoredSince
<1>10. ASSUME NEW v \in Refreshes(writing[t].call)
       PROVE  Ahead(w, v)
  <2>1. \E k \in (writing[t].at + 1)..Len(Script(writing[t].call)) :
          Script(writing[t].call)[k] = v
    BY <1>3, <1>10, RefreshesFollow
  <2> QED
    BY <1>4, <2>1 DEF Ahead
<1>11. Refreshed'
  <2> SUFFICES ASSUME NEW u \in Writer, NEW v \in View, writing'[u] # None,
                      writing'[u].made # None,
                      v \in Refreshes(writing'[u].call)
               PROVE  (Ahead(writing[u], v)
                       \/ StoredSince(v, writing[u].made[v]))'
    BY DEF Refreshed
  <2>1. CASE u = t
    <3>1. writing'[t] = w
      BY <1>1 DEF ViewInv, ViewTypeOK
    <3> QED
      BY <1>4, <1>10, <2>1, <3>1
  <2>2. CASE u # t
    <3>1. writing'[u] = writing[u]
      BY <1>1, <2>2 DEF ViewInv, ViewTypeOK
    <3> QED
      BY <1>1, <3>1 DEF ViewInv, Refreshed, StoredSince
  <2> QED
    BY <2>1, <2>2
<1> QED
  BY <1>5, <1>6, <1>7, <1>8, <1>9, <1>11 DEF ViewInv, ViewTypeOK

LEMMA AnswerKeeps ==
  ASSUME ViewInv, NEW t \in Writer, Answer(t)
  PROVE  ViewInv'
<1>1. /\ writing[t] # None
      /\ writing[t].at > Len(Script(writing[t].call))
      /\ writing' = [writing EXCEPT ![t] = None]
      /\ UNCHANGED <<version, cache, reading, events>>
  BY DEF Answer
<1>2. writing[t] \in [call : Call, at : Nat \ {0},
                      made : [View -> Nat] \cup {None}]
  BY <1>1 DEF ViewInv, ViewTypeOK
<1>3. ASSUME NEW v \in View, answered'[v] # answered[v]
      PROVE  /\ writing[t].made # None /\ v \in Refreshes(writing[t].call)
             /\ answered'[v] = writing[t].made[v]
  BY <1>3 DEF Answer, ViewInv, ViewTypeOK
<1>4. answered' \in [View -> Nat] /\ \A v \in View : answered'[v] <= version[v]
  BY <1>1, <1>2 DEF Answer, ViewInv, ViewTypeOK
<1>5. ViewTypeOK'
  BY <1>1, <1>4 DEF ViewInv, ViewTypeOK
<1>6. \A v : ~Ahead(writing[t], v)
  <2>1. Len(Script(writing[t].call)) \in Nat
    BY <1>2, ScriptLength
  <2> QED
    BY <1>1, <1>2, <2>1 DEF Ahead
<1>7. ASSUME NEW v \in View
      PROVE  StoredSince(v, answered[v])'
  <2>1. CASE answered'[v] = answered[v]
    BY <1>1, <2>1 DEF ViewInv, AnsweredGone, StoredSince
  <2>2. CASE answered'[v] # answered[v]
    BY <1>1, <1>3, <1>6, <2>2 DEF ViewInv, Refreshed, StoredSince
  <2> QED
    BY <2>1, <2>2
<1>8. Refreshed'
  BY <1>1, <1>2 DEF ViewInv, ViewTypeOK, Refreshed, Ahead, StoredSince
<1> QED
  BY <1>5, <1>7, <1>8 DEF ViewInv, AnsweredGone

LEMMA WriterKeeps ==
  ASSUME ViewInv, NEW t \in Writer,
         \/ \E c \in Call : StartCall(t, c)
         \/ CommitCall(t)
         \/ \E v \in View : Invalidate(t, v)
         \/ \E v \in AllViews \ View : InvalidateOther(t, v)
         \/ Publish(t)
         \/ Answer(t)
         \/ BreakOff(t)
  PROVE  ViewInv'
<1>1. ASSUME NEW c \in Call, StartCall(t, c)
      PROVE  ViewInv'
  <2> DEFINE w == [call |-> c, at |-> 1, made |-> None]
  <2>1. w \in [call : Call, at : Nat \ {0}, made : [View -> Nat] \cup {None}]
        /\ w.made = None
    OBVIOUS
  <2>2. /\ writing' = [writing EXCEPT ![t] = w]
        /\ UNCHANGED <<version, cache, reading, events, answered>>
    BY <1>1 DEF StartCall
  <2> HIDE DEF w
  <2>3. ViewTypeOK'
    BY <2>1, <2>2 DEF ViewInv, ViewTypeOK
  <2>4. Refreshed' /\ AnsweredGone'
    BY <2>1, <2>2 DEF ViewInv, ViewTypeOK, Refreshed, AnsweredGone, Ahead,
                      StoredSince
  <2> QED
    BY <2>3, <2>4 DEF ViewInv
<1>2. CASE CommitCall(t)
  BY <1>2, CommitKeeps
<1>3. ASSUME NEW v \in View, Invalidate(t, v)
      PROVE  ViewInv'
  <2>1. events' \in Nat
    BY <1>3 DEF Invalidate, ViewInv, ViewTypeOK
  <2> QED
    BY <1>3, <2>1, WriterMovesOn DEF Invalidate, Without
<1>4. ASSUME NEW v \in AllViews \ View, InvalidateOther(t, v)
      PROVE  ViewInv'
  <2>1. events' \in Nat
    BY <1>4 DEF InvalidateOther, ViewInv, ViewTypeOK
  <2> QED
    BY <1>4, <2>1, WriterMovesOn DEF InvalidateOther
<1>5. CASE Publish(t)
  <2>1. events' \in Nat
    BY <1>5 DEF Publish, ViewInv, ViewTypeOK
  <2>2. /\ Takes(t, "publish")
        /\ MovesOn(t)
        /\ UNCHANGED <<version, cache, reading, answered>>
        /\ "publish" \notin View
    BY <1>5, StockViewsAssumption DEF Publish, AllViews
  <2> QED
    BY <2>1, <2>2, WriterMovesOn
<1>6. CASE Answer(t)
  BY <1>6, AnswerKeeps
<1>7. CASE BreakOff(t)
  <2>1. /\ writing' = [writing EXCEPT ![t] = None]
        /\ UNCHANGED <<version, cache, reading, events, answered>>
    BY <1>7 DEF BreakOff
  <2>2. ViewTypeOK'
    BY <2>1 DEF ViewInv, ViewTypeOK
  <2>3. Refreshed' /\ AnsweredGone'
    BY <2>1 DEF ViewInv, ViewTypeOK, Refreshed, AnsweredGone, Ahead, StoredSince
  <2> QED
    BY <2>2, <2>3 DEF ViewInv
<1> QED
  BY <1>1, <1>2, <1>3, <1>4, <1>5, <1>6, <1>7

LEMMA ViewsInvariant == ViewSpec => []ViewInv
<1>1. ViewInit => ViewInv
  BY DEF ViewInit, ViewInv, ViewTypeOK, Refreshed, AnsweredGone, StoredSince
<1>2. ViewInv /\ [ViewNext]_viewVars => ViewInv'
  <2> SUFFICES ASSUME ViewInv, [ViewNext]_viewVars
               PROVE  ViewInv'
    OBVIOUS
  <2>1. ASSUME NEW r \in Reader,
               \/ \E v \in View : Miss(r, v)
               \/ ReadTables(r) \/ Store(r) \/ GiveUpRead(r)
        PROVE  ViewInv'
    BY <2>1, ReaderKeeps
  <2>2. ASSUME NEW t \in Writer,
               \/ \E c \in Call : StartCall(t, c)
               \/ CommitCall(t)
               \/ \E v \in View : Invalidate(t, v)
               \/ \E v \in AllViews \ View : InvalidateOther(t, v)
               \/ Publish(t) \/ Answer(t) \/ BreakOff(t)
        PROVE  ViewInv'
    BY <2>2, WriterKeeps
  <2>3. ASSUME NEW v \in View, Expire(v)
        PROVE  ViewInv'
    BY <2>3, CacheLosesEntry DEF Expire, ViewInv, ViewTypeOK
  <2>4. CASE AutoInvalidateLowStock
    BY <2>4, CacheLosesEntry DEF AutoInvalidateLowStock, Without, ViewInv,
                                 ViewTypeOK
  <2>5. CASE HandleUpdated
    <3>1. events' \in Nat
      BY <2>5 DEF HandleUpdated, ViewInv, ViewTypeOK
    <3>2. CASE "low_stock" \in View /\ cache' = Without("low_stock")
      BY <2>5, <3>1, <3>2, CacheLosesEntry DEF HandleUpdated, Without
    <3>3. CASE UNCHANGED cache
      BY <2>5, <3>1, <3>3 DEF HandleUpdated, ViewInv, ViewTypeOK, Refreshed,
                              AnsweredGone, Ahead, StoredSince
    <3> QED
      BY <2>5, <3>2, <3>3 DEF HandleUpdated
  <2>6. CASE UNCHANGED viewVars
    BY <2>6 DEF viewVars, ViewInv, ViewTypeOK, Refreshed, AnsweredGone, Ahead,
                StoredSince
  <2> QED
    BY <2>1, <2>2, <2>3, <2>4, <2>5, <2>6 DEF ViewNext
<1> QED
  BY <1>1, <1>2, PTL DEF ViewSpec

(***************************************************************************)
(* Readers and writers hold what they may hold, for every set of views and *)
(* of calls; no reader, entry or call is ahead of the tables.              *)
(***************************************************************************)
THEOREM ViewsTypeCorrect == ViewSpec => []ViewTypeOK
<1>1. ViewInv => ViewTypeOK
  BY DEF ViewInv
<1> QED
  BY <1>1, ViewsInvariant, PTL

(***************************************************************************)
(* StaleOnlyIfOvertaken, for every set of views and of calls: every script *)
(* deletes what the call answers for between its commit and its answer, so *)
(* an entry older than an answered change was stored after the commit.     *)
(***************************************************************************)
THEOREM StaleEntriesOvertaken == ViewSpec => []StaleOnlyIfOvertaken
<1>1. ViewInv => StaleOnlyIfOvertaken
  BY DEF ViewInv, AnsweredGone, StoredSince, StaleOnlyIfOvertaken
<1> QED
  BY <1>1, ViewsInvariant, PTL

-----------------------------------------------------------------------------
\* Passwords.  Where the two variables agree, a login that writes the row of
\* its user changes neither.

LEMMA AccInitType == AccInit => AccTypeOK /\ PasswordIsTheLastSet
BY DEF AccInit, AccTypeOK, PasswordIsTheLastSet, Optional, InStep

AccInv == AccTypeOK /\ PasswordIsTheLastSet

\* What a request puts into its slot, keeps the types.
LEMMA AsksType ==
  ASSUME AccInv, NEW v \in Visitor, NEW visited \in Visit,
         Asks(v, visited), UNCHANGED <<user, token, chosen>>,
         visited.step \in {"save_login", "issue"} => Registered(visited.email),
         visited.step = "blacklist" => token[visited.token] # None
  PROVE  AccInv'
BY DEF AccInv, AccTypeOK, PasswordIsTheLastSet, Asks, InStep, Registered,
       Optional, Visit

LEMMA LeavesType ==
  ASSUME AccInv, NEW v \in Visitor, Leaves(v), UNCHANGED <<user, chosen>>,
         token' \in [Token -> Optional([email : Email, blacklisted : BOOLEAN])],
         \A k \in Token : token'[k] # None => Registered(token'[k].email),
         \A k \in Token : token[k] # None => token'[k] # None
  PROVE  AccInv'
<1>1. visit' = [visit EXCEPT ![v] = None]
  BY DEF Leaves
<1>2. ASSUME NEW w \in Visitor, InStep(w, "blacklist")
      PROVE  visit[w].token \in Token /\ token[visit[w].token] # None
  BY <1>2 DEF AccInv, AccTypeOK, InStep, Optional, Visit
<1>3. ASSUME NEW w \in Visitor, InStep(w, "blacklist")'
      PROVE  (token[visit[w].token] # None)'
  <2>1. visit'[w] = visit[w] /\ InStep(w, "blacklist")
    BY <1>1, <1>3 DEF InStep, AccInv, AccTypeOK
  <2> QED
    BY <1>2, <2>1
<1> QED
  BY <1>1, <1>3
  DEF AccInv, AccTypeOK, PasswordIsTheLastSet, InStep, Registered, Optional

LEMMA InsertUserKeeps ==
  ASSUME AccInv, NEW v \in Visitor, InsertUser(v)
  PROVE  AccInv'
<1> DEFINE e == visit[v].email
<1>1. visit[v] \in Visit /\ e \in Email /\ visit[v].given \in Password
  BY DEF AccInv, AccTypeOK, InsertUser, InStep, Visit, Optional
<1>2. visit[v].given # None
  BY <1>1, AccountsAssumption
<1>3. /\ user' = [user EXCEPT ![e] = visit[v].given]
      /\ chosen' = [chosen EXCEPT ![e] = visit[v].given]
      /\ visit' = [visit EXCEPT ![v] = [step |-> "issue", email |-> e]]
      /\ token' = token
  BY DEF InsertUser
<1>4. PasswordIsTheLastSet'
  BY <1>3 DEF AccInv, PasswordIsTheLastSet
<1>5. [step |-> "issue", email |-> e] \in Visit
  BY <1>1 DEF Visit
<1>6. \A d \in Email : Registered(d) => Registered(d)'
  BY <1>1, <1>2, <1>3 DEF AccInv, AccTypeOK, Registered
<1>7. Registered(e)'
  BY <1>1, <1>2, <1>3 DEF AccInv, AccTypeOK, Registered
<1>8. AccTypeOK'
  BY <1>1, <1>3, <1>5, <1>6, <1>7 DEF AccInv, AccTypeOK, InStep, Optional, Visit
<1> QED
  BY <1>4, <1>8 DEF AccInv

\* The row is written back as it is.
LEMMA SaveLoginKeeps ==
  ASSUME AccInv, NEW v \in Visitor, SaveLogin(v)
  PROVE  AccInv'
<1> DEFINE e == visit[v].email
<1>1. visit[v] \in Visit /\ e \in Email /\ Registered(e)
  BY DEF AccInv, AccTypeOK, SaveLogin, InStep, Visit, Optional
<1>2. user' = user
  BY <1>1 DEF AccInv, AccTypeOK, SaveLogin, AfterLogin
<1>3. /\ visit' = [visit EXCEPT ![v] = [step |-> "issue", email |-> e]]
      /\ UNCHANGED <<token, chosen>>
  BY DEF SaveLogin
<1>4. [step |-> "issue", email |-> e] \in Visit
  BY <1>1 DEF Visit
<1>5. AccTypeOK'
  BY <1>1, <1>2, <1>3, <1>4
  DEF AccInv, AccTypeOK, InStep, Optional, Visit, Registered
<1> QED
  BY <1>2, <1>3, <1>5 DEF AccInv, PasswordIsTheLastSet

LEMMA SavePasswordKeeps ==
  ASSUME AccInv, NEW v \in Visitor, SavePassword(v)
  PROVE  AccInv'
<1> DEFINE e == visit[v].email
<1>1. visit[v] \in Visit /\ e \in Email /\ visit[v].given \in Password
  BY DEF AccInv, AccTypeOK, SavePassword, InStep, Visit, Optional
<1>2. visit[v].given # None
  BY <1>1, AccountsAssumption
<1>3. /\ user' = [user EXCEPT ![e] = visit[v].given]
      /\ chosen' = [chosen EXCEPT ![e] = visit[v].given]
      /\ visit' = [visit EXCEPT ![v] = None]
      /\ token' = token
  BY DEF SavePassword, Leaves
<1>4. PasswordIsTheLastSet'
  BY <1>3 DEF AccInv, PasswordIsTheLastSet
<1>5. \A d \in Email : Registered(d) => Registered(d)'
  BY <1>1, <1>2, <1>3 DEF AccInv, AccTypeOK, Registered
<1>6. AccTypeOK'
  BY <1>1, <1>3, <1>5 DEF AccInv, AccTypeOK, InStep, Optional, Visit, Registered
<1> QED
  BY <1>4, <1>6 DEF AccInv

LEMMA TokenStepsKeep ==
  ASSUME AccInv, NEW v \in Visitor, NEW k \in Token,
         IssueToken(v, k) \/ StartLogout(v, k)
  PROVE  AccInv'
<1>1. CASE IssueToken(v, k)
  <2>1. visit[v].email \in Email /\ Registered(visit[v].email)
    BY <1>1 DEF AccInv, AccTypeOK, IssueToken, InStep, Visit, Optional
  <2> QED
    BY <1>1, <2>1, LeavesType
    DEF IssueToken, AccInv, AccTypeOK, Optional, Registered
<1>2. CASE StartLogout(v, k)
  <2>1. [step |-> "blacklist", token |-> k] \in Visit
    BY DEF Visit
  <2> QED
    BY <1>2, <2>1, AsksType DEF StartLogout, Usable
<1> QED
  BY <1>1, <1>2

LEMMA BlacklistKeeps ==
  ASSUME AccInv, NEW v \in Visitor, Blacklist(v)
  PROVE  AccInv'
<1> DEFINE k == visit[v].token
           Issued == [email : Email, blacklisted : BOOLEAN]
<1>1. k \in Token /\ token[k] \in Issued
  BY DEF AccInv, AccTypeOK, Blacklist, InStep, Visit, Optional
<1>2. token' = [token EXCEPT ![k] = [token[k] EXCEPT !.blacklisted = TRUE]]
  BY DEF Blacklist
<1>3. /\ [token[k] EXCEPT !.blacklisted = TRUE] \in Issued
      /\ [token[k] EXCEPT !.blacklisted = TRUE].email = token[k].email
  BY <1>1
<1>4. token' \in [Token -> Optional(Issued)]
  BY <1>1, <1>2, <1>3 DEF AccInv, AccTypeOK, Optional
<1>5. ASSUME NEW j \in Token
      PROVE  /\ token'[j] # None => token[j] # None
             /\ token'[j].email = token[j].email
             /\ token[j] # None => token'[j] # None
  BY <1>1, <1>2, <1>3, AccountsAssumption DEF AccInv, AccTypeOK
<1> QED
  BY <1>4, <1>5, LeavesType DEF Blacklist, AccInv, AccTypeOK, Registered

LEMMA StartsKeep ==
  ASSUME AccInv, NEW v \in Visitor, NEW e \in Email, NEW old \in Password,
         \/ StartRegister(v, e, old) \/ StartLogin(v, e, old)
         \/ \E new \in Password : StartChange(v, e, old, new)
  PROVE  AccInv'
<1>1. CASE StartRegister(v, e, old)
  <2> DEFINE r == [step |-> "insert", email |-> e, copy |-> old, given |-> old]
  <2>1. r \in Visit
    BY DEF Visit
  <2> QED
    BY <1>1, <2>1, AsksType DEF StartRegister
<1>2. CASE StartLogin(v, e, old)
  <2> DEFINE r == [step |-> "save_login", email |-> e, copy |-> old,
                   given |-> old]
  <2>1. r \in Visit
    BY DEF Visit
  <2> QED
    BY <1>2, <2>1, AsksType DEF StartLogin
<1>3. ASSUME NEW new \in Password, StartChange(v, e, old, new)
      PROVE  AccInv'
  <2> DEFINE r == [step |-> "save_password", email |-> e, copy |-> old,
                   given |-> new]
  <2>1. r \in Visit
    BY DEF Visit
  <2> QED
    BY <1>3, <2>1, AsksType DEF StartChange
<1> QED
  BY <1>1, <1>2, <1>3

(***************************************************************************)
(* accounts/services.py: whatever logins, registrations and changes of the *)
(* password run side by side, a login brings no older password back.       *)
(***************************************************************************)
THEOREM PasswordsKept == AccSpec => [](AccTypeOK /\ PasswordIsTheLastSet)
<1>1. AccInit => AccInv
  BY AccInitType DEF AccInv
<1>2. AccInv /\ UNCHANGED accountVars => AccInv'
  BY DEF AccInv, AccTypeOK, PasswordIsTheLastSet, accountVars, InStep, Registered
<1>3. ASSUME AccInv, NEW v \in Visitor, QuitVisit(v)
      PROVE  AccInv'
  BY <1>3, LeavesType DEF QuitVisit, AccInv, AccTypeOK, Registered
<1>4. AccInv /\ AccNext => AccInv'
  BY <1>3, StartsKeep, TokenStepsKeep, InsertUserKeeps, SaveLoginKeeps,
     SavePasswordKeeps, BlacklistKeeps
  DEF AccNext
<1>5. AccInv => AccTypeOK /\ PasswordIsTheLastSet
  BY DEF AccInv
<1> QED
  BY <1>1, <1>2, <1>4, <1>5, PTL DEF AccSpec

-----------------------------------------------------------------------------
\* The catalogue.  What a request holds agrees with the row it is about.

WithdrawnInactive(row) ==
  row.table = "warehouse" /\ row.is_deleted => ~row.is_active

SaveAgrees(t) ==
  LET row == request[t].row
      now == record[request[t].id]
  IN /\ RowExists(request[t].id)
     /\ row.table = now.table
     /\ row.table = "warehouse" => row.code = now.code
     /\ WithdrawnInactive(row)

ReadAgrees(t) == request[t].data \in DataOf(request[t].table)

RequestAgrees(t) ==
  /\ Doing(t, "insert") => WithdrawnInactive(request[t].row)
  /\ Doing(t, "read") => ReadAgrees(t)
  /\ Doing(t, "save") => SaveAgrees(t)

CatInv ==
  /\ CatTypeOK
  /\ \A id \in Id : RowExists(id) => WithdrawnInactive(record[id])
  /\ \A t \in Clerk : RequestAgrees(t)
  /\ RevivedOnlyIfOvertaken

LEMMA RequestTypes ==
  ASSUME CatTypeOK, NEW t \in Clerk
  PROVE  /\ Doing(t, "insert") => request[t].row \in Row
         /\ Doing(t, "read") => /\ request[t].id \in Id
                                /\ request[t].table \in Updated
                                /\ request[t].data \in Data
         /\ Doing(t, "save") => request[t].id \in Id /\ request[t].row \in Row
<1> DEFINE Inserts == [step : {"insert"}, row : Row]
           Reads == [step : {"read"}, table : Updated, id : Id, data : Data]
           Saves == [step : {"save"}, id : Id, row : Row]
<1>1. request[t] # None => request[t] \in Inserts \cup Reads \cup Saves
  BY DEF CatTypeOK, Optional
<1>2. request[t] \in Inserts => request[t].step = "insert" /\ request[t].row \in Row
  OBVIOUS
<1>3. request[t] \in Reads => /\ request[t].step = "read"
                              /\ request[t].table \in Updated
                              /\ request[t].id \in Id /\ request[t].data \in Data
  OBVIOUS
<1>4. request[t] \in Saves => /\ request[t].step = "save"
                              /\ request[t].id \in Id /\ request[t].row \in Row
  OBVIOUS
<1> QED
  BY <1>1, <1>2, <1>3, <1>4 DEF Doing

LEMMA UpdatedRowType ==
  ASSUME NEW copy \in Row, NEW table \in Tables, NEW data \in DataOf(table)
  PROVE  /\ data \in Data
         /\ UpdatedRow(copy, data) \in Row
         /\ UpdatedRow(copy, data).table = copy.table
         /\ UpdatedRow(copy, data).code = Given(data.code, copy.code)
         /\ UpdatedRow(copy, data).is_deleted = Given(data.is_deleted, copy.is_deleted)
<1>1. data \in Data
  BY DEF Data, DataOf, Optional
<1>2. /\ Given(data.code, copy.code) \in Code
      /\ Given(data.is_deleted, copy.is_deleted) \in BOOLEAN
      /\ Given(data.is_active, copy.is_active) \in BOOLEAN
  BY <1>1 DEF Data, DataOf, Optional, Given, Row
<1> QED
  BY <1>1, <1>2 DEF UpdatedRow, Row

\* A warehouse that is not deleted is not deleted by an update.
LEMMA UpdateLeavesWarehouse ==
  ASSUME NEW copy \in Row, ~copy.is_deleted, NEW data \in DataOf(copy.table)
  PROVE  WithdrawnInactive(UpdatedRow(copy, data))
<1>1. copy.table \in Tables
  BY DEF Row
<1>2. copy.table = "warehouse" => data.is_deleted = None
  BY DEF DataOf
<1> QED
  BY <1>1, <1>2, UpdatedRowType DEF WithdrawnInactive, Given

Requests == [step : {"insert"}, row : Row]
            \cup [step : {"read"}, table : Updated, id : Id, data : Data]
            \cup [step : {"save"}, id : Id, row : Row]

\* A request that writes no row.
LEMMA RequestKeeps ==
  ASSUME CatInv, NEW t \in Clerk, NEW r \in Optional(Requests),
         request' = [request EXCEPT ![t] = r], UNCHANGED record,
         overtaken' \subseteq overtaken, overtaken \subseteq overtaken' \cup {t},
         RequestAgrees(t)',
         r # None /\ r.step = "save" => ~record[r.id].is_deleted
  PROVE  CatInv'
<1>1. CatTypeOK'
  BY DEF CatInv, CatTypeOK, Optional, Requests, RowExists, CodeFree
<1>2. request'[t] = r /\ \A u \in Clerk \ {t} : request'[u] = request[u]
  BY DEF CatInv, CatTypeOK
<1>3. ASSUME NEW u \in Clerk
      PROVE  RequestAgrees(u)'
  <2>1. CASE u = t
    BY <2>1
  <2>2. CASE u # t
    BY <1>2, <2>2
    DEF CatInv, RequestAgrees, ReadAgrees, SaveAgrees, Doing, RowExists
  <2> QED
    BY <2>1, <2>2
<1>4. ASSUME NEW u \in Clerk, Doing(u, "save")',
             record'[request'[u].id].is_deleted
      PROVE  u \in overtaken'
  <2>1. u # t
    BY <1>2, <1>4 DEF Doing
  <2>2. Doing(u, "save") /\ record[request[u].id].is_deleted
    BY <1>2, <1>4, <2>1 DEF Doing
  <2> QED
    BY <2>1, <2>2 DEF CatInv, RevivedOnlyIfOvertaken
<1>5. \A id \in Id : RowExists(id)' => WithdrawnInactive(record'[id])
  BY DEF CatInv, RowExists
<1> QED
  BY <1>1, <1>3, <1>4, <1>5 DEF CatInv, RevivedOnlyIfOvertaken

LEMMA StartCreateKeeps ==
  ASSUME CatInv, NEW t \in Clerk, NEW table \in Tables,
         NEW data \in DataOf(table), StartCreate(t, table, data)
  PROVE  CatInv'
<1> DEFINE new == [table |-> table, code |-> data.code, is_deleted |-> FALSE,
                   is_active |-> TRUE]
           r == [step |-> "insert", row |-> UpdatedRow(new, data)]
<1>1. data.code \in Code
  BY DEF StartCreate, DataOf, Optional
<1>2. new \in Row /\ new.table = table /\ ~new.is_deleted
  BY <1>1 DEF Row
<1>3. UpdatedRow(new, data) \in Row /\ WithdrawnInactive(UpdatedRow(new, data))
  BY <1>2, UpdatedRowType, UpdateLeavesWarehouse
<1>4. r \in Optional(Requests) /\ r.step = "insert"
  BY <1>3 DEF Optional, Requests
<1>5. /\ request' = [request EXCEPT ![t] = r]
      /\ UNCHANGED <<record, overtaken>>
  BY DEF StartCreate
<1>6. request'[t] = r
  BY <1>5 DEF CatInv, CatTypeOK
<1>7. RequestAgrees(t)'
  BY <1>3, <1>6 DEF RequestAgrees, Doing
<1> QED
  BY <1>4, <1>5, <1>7, RequestKeeps

LEMMA StartUpdateKeeps ==
  ASSUME CatInv, NEW t \in Clerk, NEW id \in Id, NEW table \in Updated,
         NEW data \in DataOf(table), StartUpdate(t, table, id, data)
  PROVE  CatInv'
<1> DEFINE r == [step |-> "read", table |-> table, id |-> id, data |-> data]
<1>0. data \in Data
  BY DEF Data, DataOf, Optional
<1>1. r \in Optional(Requests) /\ r.step = "read"
  BY <1>0 DEF Optional, Requests
<1>2. /\ request' = [request EXCEPT ![t] = r]
      /\ UNCHANGED <<record, overtaken>>
  BY DEF StartUpdate
<1>3. request'[t] = r
  BY <1>2 DEF CatInv, CatTypeOK
<1>4. RequestAgrees(t)'
  BY <1>3 DEF RequestAgrees, ReadAgrees, Doing
<1> QED
  BY <1>1, <1>2, <1>4, RequestKeeps

LEMMA ReadForUpdateKeeps ==
  ASSUME CatInv, NEW t \in Clerk, ReadForUpdate(t)
  PROVE  CatInv'
<1> DEFINE id == request[t].id
           data == request[t].data
           row == UpdatedRow(record[id], data)
           r == [step |-> "save", id |-> id, row |-> row]
<1>1. id \in Id /\ data \in Data /\ data \in DataOf(record[id].table)
  BY RequestTypes
  DEF ReadForUpdate, CatInv, RequestAgrees, ReadAgrees
<1>2. record[id] \in Row /\ ~record[id].is_deleted
  BY <1>1 DEF ReadForUpdate, Live, RowExists, CatInv, CatTypeOK, Optional
<1>3. record[id].table \in Tables
  BY <1>2 DEF Row
<1>4. /\ row \in Row /\ row.table = record[id].table
      /\ row.code = Given(data.code, record[id].code)
      /\ WithdrawnInactive(row)
  BY <1>1, <1>2, <1>3, UpdatedRowType, UpdateLeavesWarehouse
<1>5. r \in Optional(Requests) /\ r.step = "save" /\ r.id = id
  BY <1>1, <1>4 DEF Optional, Requests
<1>6. /\ request' = [request EXCEPT ![t] = r]
      /\ UNCHANGED <<record, overtaken>>
  BY DEF ReadForUpdate
<1>7. request'[t] = r
  BY <1>6 DEF CatInv, CatTypeOK
<1>8. RequestAgrees(t)'
  BY <1>4, <1>6, <1>7
  DEF ReadForUpdate, Live, RowExists, CodeAllowed, RequestAgrees, SaveAgrees, Doing
<1> QED
  BY <1>2, <1>5, <1>6, <1>8, RequestKeeps

LEMMA ReadForDeleteKeeps ==
  ASSUME CatInv, NEW t \in Clerk, NEW id \in Id, ReadForDelete(t, id)
  PROVE  CatInv'
<1> DEFINE row == DeletedRow(record[id])
           r == [step |-> "save", id |-> id, row |-> row]
<1>1. record[id] \in Row /\ ~record[id].is_deleted
  BY DEF ReadForDelete, Live, RowExists, CatInv, CatTypeOK, Optional
<1>2. /\ row \in Row /\ row.table = record[id].table
      /\ row.code = record[id].code /\ ~row.is_active
  BY <1>1 DEF DeletedRow, Row
<1>3. r \in Optional(Requests) /\ r.step = "save" /\ r.id = id
  BY <1>2 DEF Optional, Requests
<1>4. /\ request' = [request EXCEPT ![t] = r]
      /\ UNCHANGED <<record, overtaken>>
  BY DEF ReadForDelete
<1>5. request'[t] = r
  BY <1>4 DEF CatInv, CatTypeOK
<1>6. RequestAgrees(t)'
  BY <1>2, <1>4, <1>5
  DEF ReadForDelete, Live, RowExists, RequestAgrees, SaveAgrees, Doing,
      WithdrawnInactive
<1> QED
  BY <1>1, <1>3, <1>4, <1>6, RequestKeeps

LEMMA DropRequestKeeps ==
  ASSUME CatInv, NEW t \in Clerk, DropRequest(t)
  PROVE  CatInv'
<1>1. /\ request' = [request EXCEPT ![t] = None]
      /\ overtaken' = overtaken \ {t} /\ UNCHANGED record
  BY DEF DropRequest, Done
<1>2. request'[t] = None
  BY <1>1 DEF CatInv, CatTypeOK
<1>3. RequestAgrees(t)'
  BY <1>2 DEF RequestAgrees, Doing
<1> QED
  BY <1>1, <1>3, RequestKeeps DEF Optional

\* A row is written; what else is held, is about other rows or the same
\* warehouse with its code.
LEMMA WriteKeepsRows ==
  ASSUME CatInv, NEW id \in Id, NEW row \in Row, CodeFree(row, id),
         WithdrawnInactive(row), record' = [record EXCEPT ![id] = row],
         NEW t \in Clerk, request' = [request EXCEPT ![t] = None],
         overtaken' \subseteq Clerk
  PROVE  /\ CatTypeOK'
         /\ \A other \in Id : RowExists(other)' => WithdrawnInactive(record'[other])
<1>1. record'[id] = row /\ \A other \in Id \ {id} : record'[other] = record[other]
  BY DEF CatInv, CatTypeOK
<1>2. ASSUME NEW other \in Id, RowExists(other)'
      PROVE  WithdrawnInactive(record'[other]) /\ CodeFree(record[other], other)'
  <2>1. CASE other = id
    BY <1>1, <2>1 DEF CodeFree, RowExists
  <2>2. CASE other # id
    BY <1>1, <1>2, <2>2 DEF CatInv, CatTypeOK, CodeFree, RowExists
  <2> QED
    BY <2>1, <2>2
<1>3. /\ record' \in [Id -> Optional(Row)]
      /\ request' \in [Clerk -> Optional(Requests)]
  BY DEF CatInv, CatTypeOK, Optional, Requests
<1> QED
  BY <1>2, <1>3 DEF CatTypeOK, Requests

LEMMA InsertRowKeeps ==
  ASSUME CatInv, NEW t \in Clerk, NEW id \in Id, InsertRow(t, id)
  PROVE  CatInv'
<1> DEFINE row == request[t].row
<1>1. row \in Row /\ WithdrawnInactive(row) /\ CodeFree(row, id)
  BY RequestTypes DEF InsertRow, CatInv, RequestAgrees
<1>2. /\ record' = [record EXCEPT ![id] = row]
      /\ request' = [request EXCEPT ![t] = None]
      /\ overtaken' = overtaken \ {t} /\ overtaken' \subseteq Clerk
      /\ record[id] = None
  BY DEF InsertRow, Done, RowExists, CatInv, CatTypeOK
<1>3. /\ CatTypeOK'
      /\ \A other \in Id : RowExists(other)' => WithdrawnInactive(record'[other])
  BY <1>1, <1>2, WriteKeepsRows
<1>4. /\ request'[t] = None
      /\ \A u \in Clerk \ {t} : request'[u] = request[u]
      /\ \A other \in Id \ {id} : record'[other] = record[other]
  BY <1>2 DEF CatInv, CatTypeOK
<1>5. ASSUME NEW u \in Clerk, u # t, Doing(u, "save")
      PROVE  request[u].id \in Id \ {id}
  BY <1>2, <1>5, RequestTypes
  DEF CatInv, RequestAgrees, SaveAgrees, RowExists
<1>6. ASSUME NEW u \in Clerk
      PROVE  /\ RequestAgrees(u)'
             /\ Doing(u, "save")' /\ record'[request'[u].id].is_deleted
                  => u \in overtaken'
  <2>1. CASE u = t
    BY <1>4, <2>1 DEF RequestAgrees, Doing
  <2>2. CASE u # t
    BY <1>2, <1>4, <1>5, <2>2
    DEF CatInv, RequestAgrees, ReadAgrees, SaveAgrees, Doing, RowExists,
        RevivedOnlyIfOvertaken
  <2> QED
    BY <2>1, <2>2
<1> QED
  BY <1>3, <1>6 DEF CatInv, RevivedOnlyIfOvertaken

LEMMA SaveRowKeeps ==
  ASSUME CatInv, NEW t \in Clerk, SaveRow(t)
  PROVE  CatInv'
<1> DEFINE id == request[t].id
           row == request[t].row
           readers == {u \in Clerk \ {t} : Doing(u, "save") /\ request[u].id = id}
<1>1. /\ id \in Id /\ row \in Row /\ WithdrawnInactive(row) /\ CodeFree(row, id)
      /\ RowExists(id) /\ row.table = record[id].table
      /\ row.table = "warehouse" => row.code = record[id].code
  BY RequestTypes DEF SaveRow, CatInv, RequestAgrees, SaveAgrees
<1>2. /\ record' = [record EXCEPT ![id] = row]
      /\ request' = [request EXCEPT ![t] = None]
      /\ overtaken' = (IF row.is_deleted THEN overtaken \cup readers
                       ELSE overtaken) \ {t}
      /\ overtaken' \subseteq Clerk
  BY DEF SaveRow, CatInv, CatTypeOK
<1>3. /\ CatTypeOK'
      /\ \A other \in Id : RowExists(other)' => WithdrawnInactive(record'[other])
  BY <1>1, <1>2, WriteKeepsRows
<1>4. /\ request'[t] = None
      /\ \A u \in Clerk \ {t} : request'[u] = request[u]
      /\ record'[id] = row
      /\ \A other \in Id \ {id} : record'[other] = record[other]
  BY <1>1, <1>2 DEF CatInv, CatTypeOK
<1>5. \A other \in Id : /\ RowExists(other) => RowExists(other)'
                        /\ record'[other] = record[other] \/ other = id
  BY <1>1, <1>4, CatalogueAssumption DEF RowExists
<1>6. ASSUME NEW u \in Clerk, u # t
      PROVE  RequestAgrees(u)'
  <2>1. Doing(u, "insert") => WithdrawnInactive(request[u].row)
    BY DEF CatInv, RequestAgrees
  <2>2. Doing(u, "read") => ReadAgrees(u)'
    BY <1>1, <1>4, <1>5, <1>6, RequestTypes DEF CatInv, RequestAgrees, ReadAgrees
  <2>3. Doing(u, "save") => SaveAgrees(u)'
    <3> SUFFICES ASSUME Doing(u, "save") PROVE SaveAgrees(u)'
      OBVIOUS
    <3>1. SaveAgrees(u) /\ request[u].id \in Id /\ request'[u] = request[u]
      BY <1>4, <1>6, RequestTypes DEF CatInv, RequestAgrees
    <3>2. RowExists(request[u].id)'
      BY <1>5, <3>1 DEF SaveAgrees
    <3>3. CASE request[u].id = id
      BY <1>1, <1>4, <3>1, <3>2, <3>3 DEF SaveAgrees, WithdrawnInactive
    <3>4. CASE request[u].id # id
      BY <1>4, <3>1, <3>2, <3>4 DEF SaveAgrees, WithdrawnInactive
    <3> QED
      BY <3>3, <3>4
  <2> QED
    BY <1>4, <1>6, <2>1, <2>2, <2>3 DEF RequestAgrees, Doing
<1>7. ASSUME NEW u \in Clerk, u # t, Doing(u, "save")',
             record'[request'[u].id].is_deleted
      PROVE  u \in overtaken'
  <2>1. Doing(u, "save") /\ request[u].id \in Id
    BY <1>4, <1>7, RequestTypes DEF Doing, CatInv
  <2>2. CASE request[u].id = id
    BY <1>2, <1>4, <1>7, <2>1, <2>2
  <2>3. CASE request[u].id # id
    <3>1. record[request[u].id].is_deleted
      BY <1>4, <1>7, <2>1, <2>3
    <3> QED
      BY <1>2, <1>7, <2>1, <3>1 DEF CatInv, RevivedOnlyIfOvertaken
  <2> QED
    BY <2>2, <2>3
<1>8. RequestAgrees(t)' /\ ~Doing(t, "save")'
  BY <1>4 DEF RequestAgrees, Doing
<1>9. RevivedOnlyIfOvertaken'
  BY <1>7, <1>8 DEF RevivedOnlyIfOvertaken
<1> QED
  BY <1>3, <1>6, <1>8, <1>9 DEF CatInv

LEMMA CatInitInv == CatInit => CatInv
BY DEF CatInit, CatInv, CatTypeOK, RowExists, RequestAgrees, Doing, Optional,
       RevivedOnlyIfOvertaken

LEMMA CatStepInv == CatInv /\ [CatNext]_catVars => CatInv'
<1>1. CatInv /\ UNCHANGED catVars => CatInv'
  <2> SUFFICES ASSUME CatInv, UNCHANGED catVars PROVE CatInv'
    OBVIOUS
  <2>1. UNCHANGED <<record, request, overtaken>>
    BY DEF catVars
  <2>2. CatTypeOK' /\ RevivedOnlyIfOvertaken'
    BY <2>1 DEF CatInv, CatTypeOK, RowExists, CodeFree, Doing,
       RevivedOnlyIfOvertaken
  <2>3. \A id \in Id : RowExists(id)' => WithdrawnInactive(record'[id])
    BY <2>1 DEF CatInv, RowExists
  <2>4. \A t \in Clerk : RequestAgrees(t)'
    BY <2>1 DEF CatInv, RequestAgrees, ReadAgrees, SaveAgrees, RowExists, Doing
  <2> QED
    BY <2>2, <2>3, <2>4 DEF CatInv
<1>2. CatInv /\ CatNext => CatInv'
  BY StartCreateKeeps, StartUpdateKeeps, ReadForUpdateKeeps, ReadForDeleteKeeps,
     InsertRowKeeps, SaveRowKeeps, DropRequestKeeps
  DEF CatNext
<1> QED
  BY <1>1, <1>2

(***************************************************************************)
(* A deletion is undone only by a request that was under way across it:    *)
(* the services of warehouses and suppliers read rows that are not deleted.*)
(***************************************************************************)
THEOREM DeletionsOvertaken == CatSpec => [](CatTypeOK /\ RevivedOnlyIfOvertaken)
<1>1. CatInv => CatTypeOK /\ RevivedOnlyIfOvertaken
  BY DEF CatInv
<1> QED
  BY <1>1, CatInitInv, CatStepInv, PTL DEF CatSpec

(***************************************************************************)
(* Type correctness of the catalogue.  The codes of a table stay unique,   *)
(* whatever saves of older copies run across each other.                   *)
(***************************************************************************)
THEOREM CatalogueTypeCorrect == CatSpec => []CatTypeOK
BY DeletionsOvertaken, PTL

(***************************************************************************)
(* warehouses/services.py: no warehouse is both deleted and active.        *)
(***************************************************************************)
THEOREM DeletedWarehousesInactive == CatSpec => []DeletedInactive
<1>1. CatInv => DeletedInactive
  BY DEF CatInv, DeletedInactive, WithdrawnInactive
<1> QED
  BY <1>1, CatInitInv, CatStepInv, PTL DEF CatSpec

(***************************************************************************)
(* warehouses/services.py: no request changes the code of a warehouse, not *)
(* even one that saves a copy older than the row.                          *)
(***************************************************************************)
THEOREM WarehouseCodesFixed == CatSpec => WarehouseCodeFixed
<1> DEFINE Fixed == \A id \in Id :
                      RowExists(id) /\ record[id].table = "warehouse"
                        => record'[id].code = record[id].code
<1>1. ASSUME CatInv, NEW t \in Clerk, SaveRow(t)
      PROVE  Fixed
  <2>1. /\ request[t].id \in Id
        /\ record' = [record EXCEPT ![request[t].id] = request[t].row]
        /\ SaveAgrees(t)
    BY <1>1, RequestTypes DEF SaveRow, CatInv, RequestAgrees
  <2> QED
    BY <2>1 DEF SaveAgrees, CatInv, CatTypeOK
<1>2. ASSUME CatInv, NEW t \in Clerk, NEW id \in Id, InsertRow(t, id)
      PROVE  Fixed
  BY <1>2 DEF InsertRow, RowExists, CatInv, CatTypeOK
<1>3. CatInv /\ [CatNext]_catVars => [Fixed]_catVars
  BY <1>1, <1>2
  DEF CatNext, StartCreate, StartUpdate, ReadForUpdate, ReadForDelete,
      DropRequest, catVars
<1> QED
  BY <1>3, CatInitInv, CatStepInv, PTL DEF CatSpec, WarehouseCodeFixed

-----------------------------------------------------------------------------
\* The valuation.  What the report has summed and what is still to be read are
\* together off the opening value by no more than what has moved.

Worth(values, listed) ==
  Total([w \in Depot |-> IF w \in listed THEN values[w] ELSE 0])

LEMMA WorthNat ==
  ASSUME NEW values \in [Depot -> Nat], NEW listed
  PROVE  Worth(values, listed) \in Nat
<1>1. [w \in Depot |-> IF w \in listed THEN values[w] ELSE 0] \in [Depot -> Nat]
  OBVIOUS
<1> QED
  BY <1>1, ValuationAssumption, TotalNat DEF Worth

\* A change in one warehouse.
LEMMA WorthUpdate ==
  ASSUME NEW values \in [Depot -> Nat], NEW later \in [Depot -> Nat],
         NEW w \in Depot, \A d \in Depot \ {w} : later[d] = values[d],
         NEW listed
  PROVE  Worth(later, listed) =
           IF w \in listed THEN Worth(values, listed) - values[w] + later[w]
           ELSE Worth(values, listed)
<1> DEFINE f == [d \in Depot |-> IF d \in listed THEN values[d] ELSE 0]
           g == [d \in Depot |-> IF d \in listed THEN later[d] ELSE 0]
<1>1. f \in [Depot -> Nat] /\ g \in [Depot -> Nat]
  OBVIOUS
<1>2. \A d \in Depot \ {w} : g[d] = f[d]
  OBVIOUS
<1>3. /\ f[w] = IF w \in listed THEN values[w] ELSE 0
      /\ g[w] = IF w \in listed THEN later[w] ELSE 0
  OBVIOUS
<1>4. Total(f) \in Nat
  BY <1>1, ValuationAssumption, TotalNat
<1> HIDE DEF f, g
<1>5. Total(g) = Total(f) - f[w] + g[w]
  BY <1>1, <1>2, ValuationAssumption, TotalUpdate
<1>6. Total(g) = IF w \in listed THEN Total(f) - values[w] + later[w] ELSE Total(f)
  BY <1>3, <1>4, <1>5
<1> QED
  BY <1>6 DEF Worth, f, g

\* Reading one warehouse takes its value out of what is still to be read.
LEMMA WorthRead ==
  ASSUME NEW values \in [Depot -> Nat], NEW listed, NEW w \in Depot, w \in listed
  PROVE  Worth(values, listed) =
           Worth(values, {w}) + Worth(values, listed \ {w})
<1> DEFINE f == [d \in Depot |-> IF d \in {w} THEN values[d] ELSE 0]
           g == [d \in Depot |-> IF d \in listed \ {w} THEN values[d] ELSE 0]
           h == [d \in Depot |-> IF d \in listed THEN values[d] ELSE 0]
<1>1. f \in [Depot -> Nat] /\ g \in [Depot -> Nat] /\ h \in [Depot -> Nat]
  OBVIOUS
<1>2. \A d \in Depot : h[d] = f[d] + g[d]
  OBVIOUS
<1> HIDE DEF f, g, h
<1>3. Total(h) = Total(f) + Total(g)
  BY <1>1, <1>2, ValuationAssumption, TotalSum
<1> QED
  BY <1>3 DEF Worth, f, g, h

OffByMoves ==
  LET now == report.total + Worth(value, report.left) IN
  /\ now <= report.opening + moved
  /\ report.opening <= now + moved

ValInv == ValTypeOK /\ (report # None => OffByMoves)

\* Stock moves: the two values of what is left differ by at most n.
LEMMA MovesKeep ==
  ASSUME ValInv, value' \in [Depot -> 0..MaxValue], NEW n \in Nat, Moves(n),
         report # None =>
           /\ Worth(value', report.left) <= Worth(value, report.left) + n
           /\ Worth(value, report.left) <= Worth(value', report.left) + n
  PROVE  ValInv'
<1>1. value \in [Depot -> Nat] /\ value' \in [Depot -> Nat]
  BY ValuationAssumption DEF ValInv, ValTypeOK
<1>2. CASE report = None
  BY <1>2 DEF ValInv, ValTypeOK, Moves
<1>3. CASE report # None
  <2>1. /\ moved \in Nat /\ moved' = moved + n /\ moved' <= MaxMoved
        /\ report' = report
        /\ report.total \in Nat /\ report.opening \in Nat
    BY <1>3, ValuationAssumption DEF ValInv, ValTypeOK, Moves, Optional
  <2>2. Worth(value, report.left) \in Nat /\ Worth(value', report.left) \in Nat
    BY <1>1, WorthNat
  <2>3. OffByMoves'
    BY <1>3, <2>1, <2>2 DEF OffByMoves, ValInv
  <2>4. ValTypeOK'
    BY <2>1, ValuationAssumption DEF ValInv, ValTypeOK
  <2> QED
    BY <2>3, <2>4 DEF ValInv
<1> QED
  BY <1>2, <1>3

LEMMA ChangeValueKeeps ==
  ASSUME ValInv, NEW w \in Depot, NEW n \in 0..MaxValue, ChangeValue(w, n)
  PROVE  ValInv'
<1> DEFINE by == IF n > value[w] THEN n - value[w] ELSE value[w] - n
<1>1. value \in [Depot -> Nat] /\ value[w] \in Nat /\ n \in Nat
  BY ValuationAssumption DEF ValInv, ValTypeOK
<1>2. by \in Nat /\ n <= value[w] + by /\ value[w] <= n + by
  BY <1>1
<1>3. /\ value' = [value EXCEPT ![w] = n] /\ Moves(by)
      /\ value' \in [Depot -> 0..MaxValue]
  BY DEF ChangeValue, ValInv, ValTypeOK
<1>4. /\ value' \in [Depot -> Nat] /\ value'[w] = n
      /\ \A d \in Depot \ {w} : value'[d] = value[d]
  BY <1>1, <1>3
<1> HIDE DEF by
<1>5. /\ Worth(value', report.left) <= Worth(value, report.left) + by
      /\ Worth(value, report.left) <= Worth(value', report.left) + by
  <2>1. Worth(value, report.left) \in Nat
    BY <1>1, WorthNat
  <2>2. Worth(value', report.left) =
          IF w \in report.left THEN Worth(value, report.left) - value[w] + n
          ELSE Worth(value, report.left)
    BY <1>1, <1>4, WorthUpdate
  <2> QED
    BY <1>1, <1>2, <2>1, <2>2
<1> QED
  BY <1>2, <1>3, <1>5, MovesKeep

LEMMA TransferValueKeeps ==
  ASSUME ValInv, NEW s \in Depot, NEW d \in Depot, NEW n \in 1..MaxValue,
         TransferValue(s, d, n)
  PROVE  ValInv'
<1> DEFINE middle == [value EXCEPT ![s] = @ - n]
<1>1. /\ value \in [Depot -> Nat] /\ value[s] \in Nat /\ value[d] \in Nat
      /\ n \in Nat /\ s # d /\ value[s] - n \in Nat
  BY ValuationAssumption DEF ValInv, ValTypeOK, TransferValue
<1>2. /\ middle \in [Depot -> Nat] /\ middle[d] = value[d]
      /\ middle[s] = value[s] - n
      /\ \A w \in Depot \ {s} : middle[w] = value[w]
  BY <1>1
<1>3. /\ value' = [middle EXCEPT ![d] = value[d] + n] /\ Moves(n)
      /\ value' \in [Depot -> 0..MaxValue]
  <2>1. value' = [value EXCEPT ![s] = @ - n, ![d] = @ + n] /\ Moves(n)
    BY DEF TransferValue
  <2>2. value' = [middle EXCEPT ![d] = value[d] + n]
    BY <1>1, <2>1
  <2>3. value[s] - n \in 0..MaxValue /\ value[d] + n \in 0..MaxValue
    BY <1>1, ValuationAssumption DEF TransferValue, ValInv, ValTypeOK
  <2> QED
    BY <2>1, <2>2, <2>3 DEF ValInv, ValTypeOK
<1>4. /\ value' \in [Depot -> Nat] /\ value'[d] = value[d] + n
      /\ \A w \in Depot \ {d} : value'[w] = middle[w]
  BY <1>1, <1>2, <1>3
<1> HIDE DEF middle
<1>5. ASSUME NEW L
      PROVE  /\ Worth(value', L) <= Worth(value, L) + n
             /\ Worth(value, L) <= Worth(value', L) + n
  <2>1. Worth(value, L) \in Nat /\ Worth(middle, L) \in Nat
    BY <1>1, <1>2, WorthNat
  <2>2. Worth(middle, L) = IF s \in L THEN Worth(value, L) - value[s] + (value[s] - n)
                           ELSE Worth(value, L)
    BY <1>1, <1>2, WorthUpdate
  <2>3. Worth(value', L) =
          IF d \in L THEN Worth(middle, L) - value[d] + (value[d] + n)
          ELSE Worth(middle, L)
    BY <1>1, <1>2, <1>4, WorthUpdate
  <2> QED
    BY <1>1, <2>1, <2>2, <2>3
<1> QED
  BY <1>1, <1>3, <1>5, MovesKeep

LEMMA ReadItemsKeeps ==
  ASSUME ValInv, NEW w \in Depot, ReadItems(w)
  PROVE  ValInv'
<1>1. /\ report \in [left : SUBSET Depot, total : Nat, opening : Nat]
      /\ w \in report.left
      /\ report' = [report EXCEPT !.left = @ \ {w},
                                  !.total = @ + Worth(value, {w})]
      /\ UNCHANGED <<value, moved>>
  BY DEF ReadItems, ValInv, ValTypeOK, Optional, ValueOf, RowsOf, Worth
<1>2. value \in [Depot -> Nat]
  BY ValuationAssumption DEF ValInv, ValTypeOK
<1>3. /\ Worth(value, {w}) \in Nat
      /\ Worth(value, report.left \ {w}) \in Nat
      /\ Worth(value, report.left) =
           Worth(value, {w}) + Worth(value, report.left \ {w})
  <2>1. \A L : Worth(value, L) \in Nat
    BY <1>2, WorthNat
  <2>2. Worth(value, report.left) =
          Worth(value, {w}) + Worth(value, report.left \ {w})
    BY <1>1, <1>2, WorthRead
  <2> QED
    BY <2>1, <2>2
<1>4. report' \in [left : SUBSET Depot, total : Nat, opening : Nat]
  <2>1. /\ report.left \ {w} \in SUBSET Depot
        /\ report.total + Worth(value, {w}) \in Nat
    BY <1>1, <1>3
  <2> HIDE <1>3
  <2> QED
    BY <1>1, <2>1
<1>5. OffByMoves'
  <2>1. report # None /\ moved \in Nat
    BY ValuationAssumption DEF ReadItems, ValInv, ValTypeOK
  <2>2. /\ report'.left = report.left \ {w}
        /\ report'.total = report.total + Worth(value, {w})
        /\ report'.opening = report.opening
    BY <1>1
  <2>3. report'.total + Worth(value', report'.left) =
          report.total + Worth(value, report.left)
    BY <1>1, <1>3, <2>2
  <2> QED
    BY <1>1, <2>1, <2>2, <2>3 DEF OffByMoves, ValInv
<1> QED
  BY <1>1, <1>4, <1>5 DEF ValInv, ValTypeOK, Optional

LEMMA StartValuationKeeps ==
  ASSUME ValInv, NEW listed \in SUBSET Depot, StartValuation(listed)
  PROVE  ValInv'
<1>1. /\ report' = [left |-> listed, total |-> 0, opening |-> Worth(value, listed)]
      /\ moved' = 0 /\ UNCHANGED value
  BY DEF StartValuation, ValueOf, Worth
<1>2. Worth(value, listed) \in Nat
  BY ValuationAssumption, WorthNat DEF ValInv, ValTypeOK
<1> QED
  BY <1>1, <1>2, ValuationAssumption DEF ValInv, ValTypeOK, Optional, OffByMoves

(***************************************************************************)
(* get_inventory_valuation: whatever moves while the report runs its       *)
(* queries, for any set of warehouses, the grand total is off the opening  *)
(* value by no more than that.                                             *)
(***************************************************************************)
THEOREM ValuationOff == ValSpec => [](ValTypeOK /\ ValuationOffByMoves)
<1>1. ValInit => ValInv
  BY ValuationAssumption DEF ValInit, ValInv, ValTypeOK, Optional
<1>2. ValInv /\ UNCHANGED valuationVars => ValInv'
  BY DEF ValInv, ValTypeOK, OffByMoves, valuationVars
<1>3. ASSUME ValInv, SendValuation
      PROVE  ValInv'
  BY <1>3 DEF SendValuation, ValInv, ValTypeOK, Optional
<1>4. ValInv /\ ValNext => ValInv'
  BY <1>3, StartValuationKeeps, ReadItemsKeeps, ChangeValueKeeps,
     TransferValueKeeps
  DEF ValNext
<1>5. ValInv => ValTypeOK /\ ValuationOffByMoves
  <2> SUFFICES ASSUME ValInv, Valued
               PROVE  ValuationOffByMoves
    BY DEF ValInv, ValuationOffByMoves
  <2>1. Worth(value, report.left) = 0
    <3>1. [w \in Depot |-> IF w \in {} THEN value[w] ELSE 0] \in [Depot -> Nat]
      OBVIOUS
    <3> QED
      BY <3>1, TotalZero DEF Worth, Valued
  <2>2. report \in [left : SUBSET Depot, total : Nat, opening : Nat]
    BY DEF Valued, ValInv, ValTypeOK, Optional
  <2> QED
    BY <2>1, <2>2 DEF ValInv, OffByMoves, Valued, ValuationOffByMoves
<1> QED
  BY <1>1, <1>2, <1>4, <1>5, PTL DEF ValSpec

-----------------------------------------------------------------------------
\* The summaries.  What a query has counted is still there when the next one
\* runs: orders are never removed, and those of a last status stay in it.

Orders == Sale \cup Purchase

Pending == {SalesQueries, PurchaseQueries, <<"breakdown">>, <<>>}

Summary == [orders : {Sale, Purchase}, wanted : Optional(Status), left : Pending,
            delivered : Nat, total : Nat, breakdown : [Status -> Nat]]

Steady(r) == r.wanted = None \/ Follows[r.wanted] = {}

Promised(r) ==
  IF r.left = <<>>
  THEN /\ r.total <= Total(r.breakdown)
       /\ r.delivered <= r.breakdown["DELIVERED"]
  ELSE /\ r.total <= Cardinality(Shown(r))
       /\ r.delivered <= Counted(r, "DELIVERED")

SumInv ==
  /\ status \in [Orders -> Optional(Status)]
  /\ summary \in Optional(Summary)
  /\ SumTypeOK
  /\ summary # None /\ Steady(summary) => Promised(summary)

LEMMA StatusIs ==
  /\ Status = {"CONFIRMED", "DISPATCHED", "DRAFT", "PENDING_APPROVAL", "APPROVED",
               "PARTIALLY_RECEIVED", "DELIVERED", "RECEIVED", "CANCELLED"}
  /\ Follows["DELIVERED"] = {}
  /\ IsFiniteSet(Status)
<1>1. /\ Status = {"CONFIRMED", "DISPATCHED", "DRAFT", "PENDING_APPROVAL",
                   "APPROVED", "PARTIALLY_RECEIVED", "DELIVERED", "RECEIVED",
                   "CANCELLED"}
      /\ Follows["DELIVERED"] = {}
  BY DEF Status, Follows
<1>2. \A T, x : IsFiniteSet(T) => IsFiniteSet(T \cup {x})
  BY FS_AddElement
<1>3. IsFiniteSet({"CONFIRMED"})
  BY FS_Singleton
<1>4. IsFiniteSet({"CONFIRMED"} \cup {"DISPATCHED"} \cup {"DRAFT"})
  BY <1>2, <1>3, Zenon
<1>5. IsFiniteSet({"CONFIRMED"} \cup {"DISPATCHED"} \cup {"DRAFT"}
                  \cup {"PENDING_APPROVAL"} \cup {"APPROVED"}
                  \cup {"PARTIALLY_RECEIVED"})
  BY <1>2, <1>4, Zenon
<1>6. IsFiniteSet({"CONFIRMED"} \cup {"DISPATCHED"} \cup {"DRAFT"}
                  \cup {"PENDING_APPROVAL"} \cup {"APPROVED"}
                  \cup {"PARTIALLY_RECEIVED"} \cup {"DELIVERED"}
                  \cup {"RECEIVED"} \cup {"CANCELLED"})
  BY <1>2, <1>5, Zenon
<1>7. Status = {"CONFIRMED"} \cup {"DISPATCHED"} \cup {"DRAFT"}
               \cup {"PENDING_APPROVAL"} \cup {"APPROVED"}
               \cup {"PARTIALLY_RECEIVED"} \cup {"DELIVERED"}
               \cup {"RECEIVED"} \cup {"CANCELLED"}
  BY <1>1
<1> QED
  BY <1>1, <1>6, <1>7

LEMMA OrdersFinite ==
  /\ IsFiniteSet(Orders)
  /\ \A S \in SUBSET Orders : /\ IsFiniteSet(S) /\ Cardinality(S) \in Nat
                             /\ \A T \in SUBSET S : Cardinality(T) <= Cardinality(S)
<1>1. IsFiniteSet(Orders)
  BY OrderSummariesAssumption, FS_Union DEF Orders
<1> QED
  BY <1>1, FS_Subset, FS_CardinalityType

\* The rows of a query are orders of the report; their status is not None.
LEMMA ShownRows ==
  ASSUME SumInv, summary # None
  PROVE  /\ summary.orders \subseteq Orders
         /\ Shown(summary) \subseteq summary.orders
         /\ \A o \in Shown(summary) : status[o] \in Status
         /\ \A s : {o \in Shown(summary) : status[o] = s} \subseteq summary.orders
BY DEF SumInv, Summary, Optional, Orders, Shown

\* What the breakdown adds up to is what count() returns at that moment.
LEMMA BreakdownAddsUp ==
  ASSUME SumInv, summary # None
  PROVE  Total([s \in Status |-> Counted(summary, s)]) = Cardinality(Shown(summary))
<1> DEFINE A == Shown(summary)
           label == [o \in A |-> status[o]]
<1>1. IsFiniteSet(A) /\ label \in [A -> Status]
  BY ShownRows, OrdersFinite
<1>2. \A s : {o \in A : label[o] = s} = {o \in A : status[o] = s}
  OBVIOUS
<1>3. [s \in Status |-> Counted(summary, s)] =
        [s \in Status |-> Cardinality({o \in A : label[o] = s})]
  BY <1>2 DEF Counted
<1> HIDE DEF A, label
<1>4. IsFiniteSet(Status)
  BY StatusIs
<1>5. Total([s \in Status |-> Cardinality({o \in A : label[o] = s})]) = Cardinality(A)
  BY <1>1, <1>4, LabelTotal
<1> QED
  BY <1>3, <1>5 DEF A

\* Rows that stay shown, keep what the queries have counted.
LEMMA ShownStays ==
  ASSUME SumInv, summary # None, UNCHANGED summary,
         status' \in [Orders -> Optional(Status)],
         Steady(summary) =>
           \A o \in Shown(summary) :
             o \in Shown(summary)' /\ (status[o] = "DELIVERED" => status'[o] = status[o])
  PROVE  SumInv'
<1>1. /\ Shown(summary)' \subseteq summary.orders
      /\ summary.orders \subseteq Orders
  BY ShownRows DEF Shown
<1>2. ASSUME Steady(summary), summary.left # <<>>
      PROVE  /\ Cardinality(Shown(summary)) <= Cardinality(Shown(summary)')
             /\ Counted(summary, "DELIVERED") <= Counted(summary, "DELIVERED")'
             /\ Cardinality(Shown(summary)) \in Nat
             /\ Cardinality(Shown(summary)') \in Nat
             /\ Counted(summary, "DELIVERED") \in Nat
             /\ Counted(summary, "DELIVERED")' \in Nat
  <2> DEFINE D == {o \in Shown(summary) : status[o] = "DELIVERED"}
             E == {o \in Shown(summary)' : status'[o] = "DELIVERED"}
  <2>1. Shown(summary) \subseteq Shown(summary)' /\ D \subseteq E
        /\ E \subseteq Shown(summary)' /\ Shown(summary)' \subseteq Orders
    BY <1>1, <1>2
  <2>2. Counted(summary, "DELIVERED") = Cardinality(D)
        /\ Counted(summary, "DELIVERED")' = Cardinality(E)
    BY DEF Counted
  <2> HIDE DEF D, E
  <2> QED
    BY <2>1, <2>2, OrdersFinite
<1>3. ASSUME Steady(summary)
      PROVE  Promised(summary)'
  <2>1. Promised(summary) /\ summary.total \in Nat /\ summary.delivered \in Nat
    BY <1>3 DEF SumInv, Summary, Optional
  <2>2. CASE summary.left = <<>>
    BY <2>1, <2>2 DEF Promised
  <2>3. CASE summary.left # <<>>
    BY <1>2, <1>3, <2>1, <2>3 DEF Promised
  <2> QED
    BY <2>2, <2>3
<1> QED
  BY <1>3 DEF SumInv, SumTypeOK, Steady, Orders

LEMMA OrdersMoveKeeps ==
  ASSUME SumInv, NEW o \in Orders,
         CreateOrder(o) \/ \E s \in Status : AdvanceOrder(o, s)
  PROVE  SumInv'
<1>1. PICK s \in Status : /\ status' = [status EXCEPT ![o] = s]
                          /\ status[o] = None \/ s \in Follows[status[o]]
                          /\ UNCHANGED summary
  BY StatusIs DEF CreateOrder, AdvanceOrder
<1>2. /\ status' \in [Orders -> Optional(Status)]
      /\ status'[o] = s
      /\ \A other \in Orders \ {o} : status'[other] = status[other]
  BY <1>1 DEF SumInv, Optional
<1>3. CASE summary = None
  BY <1>1, <1>2, <1>3 DEF SumInv, SumTypeOK, Orders, Optional
<1>4. CASE summary # None
  <2>1. ASSUME Steady(summary), NEW p \in Shown(summary)
        PROVE  /\ p \in Shown(summary)'
               /\ status[p] = "DELIVERED" => status'[p] = status[p]
    <3>1. p \in Orders /\ p \in summary.orders /\ status[p] # None
          /\ summary.wanted \in {None, status[p]}
      BY <1>4, ShownRows DEF Shown
    <3>2. CASE p # o
      BY <1>1, <1>2, <3>1, <3>2 DEF Shown
    <3>3. CASE p = o
      <4>1. s \in Follows[status[o]] /\ s # None
        BY <1>1, <3>1, <3>3, OrderSummariesAssumption
      <4>2. status[o] # "DELIVERED" /\ summary.wanted = None
        BY <2>1, <3>1, <3>3, <4>1, StatusIs DEF Steady
      <4> QED
        BY <1>1, <1>2, <3>1, <3>3, <4>1, <4>2 DEF Shown
    <3> QED
      BY <3>2, <3>3
  <2> QED
    BY <1>1, <1>2, <1>4, <2>1, ShownStays
<1> QED
  BY <1>3, <1>4

LEMMA RunQueryKeeps ==
  ASSUME SumInv, NEW q \in {"delivered", "total", "breakdown"}, RunQuery(q)
  PROVE  SumInv'
<1> DEFINE delivered == IF q = "delivered" THEN Counted(summary, "DELIVERED")
                        ELSE summary.delivered
           total == IF q = "total" THEN Cardinality(Shown(summary))
                    ELSE summary.total
           counts == [s \in Status |-> Counted(summary, s)]
           breakdown == IF q = "breakdown" THEN counts ELSE summary.breakdown
<1>1. /\ summary \in Summary /\ summary.left \in Pending /\ summary.left # <<>>
      /\ summary # None
      /\ q = Head(summary.left)
      /\ summary' = [summary EXCEPT !.left = Tail(@), !.delivered = delivered,
                                    !.total = total, !.breakdown = breakdown]
      /\ UNCHANGED status
  BY DEF RunQuery, SumInv, Optional, Summary
<1>2. /\ Tail(summary.left) \in Pending
      /\ Tail(summary.left) = <<>> <=> q = "breakdown"
  <2>1. CASE summary.left = <<"delivered", "total", "breakdown">>
    <3>1. /\ Head(summary.left) = "delivered"
          /\ Tail(summary.left) = <<"total", "breakdown">>
      BY <2>1
    <3> QED
      BY <1>1, <3>1 DEF Pending, PurchaseQueries
  <2>2. CASE summary.left = <<"total", "breakdown">>
    <3>1. /\ Head(summary.left) = "total" /\ Tail(summary.left) = <<"breakdown">>
          /\ <<"breakdown">> # <<>>
      BY <2>2
    <3> QED
      BY <1>1, <3>1 DEF Pending
  <2>3. CASE summary.left = <<"breakdown">>
    <3>1. Head(summary.left) = "breakdown" /\ Tail(summary.left) = <<>>
      BY <2>3
    <3> QED
      BY <1>1, <3>1 DEF Pending
  <2> QED
    BY <1>1, <2>1, <2>2, <2>3 DEF Pending, SalesQueries, PurchaseQueries
<1>3. \A s : Counted(summary, s) \in Nat
             /\ Counted(summary, s) <= Cardinality(summary.orders)
  BY <1>1, ShownRows, OrdersFinite DEF Counted
<1>4. /\ Cardinality(Shown(summary)) \in Nat
      /\ Cardinality(Shown(summary)) <= Cardinality(summary.orders)
      /\ Cardinality(summary.orders) \in Nat
  BY <1>1, ShownRows, OrdersFinite
<1>5. /\ delivered \in Nat /\ total \in 0..Cardinality(summary.orders)
      /\ breakdown \in [Status -> 0..Cardinality(summary.orders)]
  BY <1>1, <1>3, <1>4 DEF SumInv, SumTypeOK, Summary
<1>6. /\ summary'.orders = summary.orders /\ summary'.wanted = summary.wanted
      /\ summary'.left = Tail(summary.left) /\ summary'.delivered = delivered
      /\ summary'.total = total /\ summary'.breakdown = breakdown
  <2> HIDE DEF delivered, total, breakdown
  <2> QED
    BY <1>1 DEF Summary
<1>7. summary' \in Summary
  <2>1. total \in Nat /\ breakdown \in [Status -> Nat]
    BY <1>4, <1>5
  <2> HIDE DEF delivered, total, breakdown
  <2> QED
    BY <1>1, <1>2, <1>5, <2>1 DEF Summary
<1>8. Shown(summary)' = Shown(summary)
      /\ Counted(summary, "DELIVERED")' = Counted(summary, "DELIVERED")
  BY <1>1, <1>6 DEF Shown, Counted
<1>9. ASSUME Steady(summary)'
      PROVE  Promised(summary)'
  <2>1. /\ summary.total <= Cardinality(Shown(summary))
        /\ summary.delivered <= Counted(summary, "DELIVERED")
    BY <1>1, <1>6, <1>9 DEF SumInv, Steady, Promised
  <2>2. CASE q = "breakdown"
    <3>1. /\ total = summary.total /\ delivered = summary.delivered
          /\ breakdown = counts
          /\ counts["DELIVERED"] = Counted(summary, "DELIVERED")
      BY <2>2, StatusIs
    <3>2. Total(counts) = Cardinality(Shown(summary))
      BY <1>1, BreakdownAddsUp
    <3> HIDE DEF total, delivered, breakdown, counts
    <3> QED
      BY <1>2, <1>6, <2>1, <2>2, <3>1, <3>2 DEF Promised
  <2>3. CASE q # "breakdown"
    <3>1. total <= Cardinality(Shown(summary))
          /\ delivered <= Counted(summary, "DELIVERED")
      BY <1>3, <1>4, <2>1
    <3> HIDE DEF total, delivered, breakdown, counts
    <3> QED
      BY <1>2, <1>6, <1>8, <2>3, <3>1 DEF Promised
  <2> QED
    BY <2>2, <2>3
<1>10. SumTypeOK'
  BY <1>1, <1>5, <1>6 DEF SumInv, SumTypeOK
<1> QED
  BY <1>1, <1>7, <1>9, <1>10 DEF SumInv, Optional

LEMMA StartSummaryKeeps ==
  ASSUME SumInv, NEW wanted \in Optional(Status),
         NEW orders \in {Sale, Purchase},
         NEW queries \in {SalesQueries, PurchaseQueries},
         StartSummary(orders, queries, wanted)
  PROVE  SumInv'
<1>1. /\ summary' = [orders |-> orders, wanted |-> wanted, left |-> queries,
                     delivered |-> 0, total |-> 0,
                     breakdown |-> [s \in Status |-> 0]]
      /\ UNCHANGED status
  BY DEF StartSummary
<1>2. orders \subseteq Orders /\ Cardinality(orders) \in Nat
  BY OrdersFinite DEF Orders
<1>3. summary' \in Summary /\ summary'.left # <<>>
  BY <1>1 DEF Summary, Pending, SalesQueries, PurchaseQueries
<1>4. SumTypeOK'
  BY <1>1, <1>2 DEF SumInv, SumTypeOK
<1>5. Promised(summary)'
  <2>1. Shown(summary)' \subseteq Orders
    BY <1>1, <1>2 DEF Shown
  <2>2. Cardinality(Shown(summary)') \in Nat /\ Counted(summary, "DELIVERED")' \in Nat
    BY <2>1, OrdersFinite DEF Counted
  <2> QED
    BY <1>1, <1>3, <2>2 DEF Promised
<1> QED
  BY <1>1, <1>3, <1>4, <1>5 DEF SumInv, Optional

(***************************************************************************)
(* get_sales_order_summary and get_purchase_order_summary: for any set of  *)
(* orders, the breakdown has every order of the total and every delivered  *)
(* one, although orders go on between the queries.                         *)
(***************************************************************************)
THEOREM SummaryCovers == SumSpec => [](SumTypeOK /\ SummaryNeverAhead)
<1>1. SumInit => SumInv
  BY DEF SumInit, SumInv, SumTypeOK, Orders, Optional
<1>2. SumInv /\ UNCHANGED summaryVars => SumInv'
  BY DEF SumInv, SumTypeOK, Promised, Steady, Shown, Counted, summaryVars
<1>3. ASSUME SumInv, SendSummary
      PROVE  SumInv'
  BY <1>3 DEF SendSummary, SumInv, SumTypeOK, Optional
<1>4. SumInv /\ SumNext => SumInv'
  BY <1>3, StartSummaryKeeps, RunQueryKeeps, OrdersMoveKeeps DEF SumNext, Orders
<1>5. SumInv => SumTypeOK /\ SummaryNeverAhead
  BY DEF SumInv, Promised, Steady, Summarised, SummaryNeverAhead
<1> QED
  BY <1>1, <1>2, <1>4, <1>5, PTL DEF SumSpec

-----------------------------------------------------------------------------
\* The tree.  A category is inserted after its parent, so its id is larger.

ParentBefore(c) ==
  parent[c] = None \/ (parent[c] \in Categories /\ parent[c] < c)

TreeInv ==
  /\ Cardinality(Categories) \in Nat
  /\ Categories = 1..Cardinality(Categories)
  /\ \A c \in Categories : ParentBefore(c)
  /\ creating \in [Editor -> Optional([parent : Optional(Categories)])]

LEMMA InsertCategoryKeeps ==
  ASSUME TreeInv, NEW t \in Editor, InsertCategory(t)
  PROVE  TreeInv'
<1> DEFINE n == Cardinality(Categories)
<1>1. /\ creating[t].parent \in Optional(Categories)
      /\ n \in Nat /\ Categories = 1..n
      /\ \A c \in Categories : ParentBefore(c)
      /\ creating \in [Editor -> Optional([parent : Optional(Categories)])]
  BY DEF TreeInv, InsertCategory, Optional
<1> HIDE DEF n
<1>2. /\ parent' = [c \in Categories \cup {n + 1} |->
                      IF c = n + 1 THEN creating[t].parent ELSE parent[c]]
      /\ creating' = [creating EXCEPT ![t] = None]
  BY DEF InsertCategory, n
<1>3. /\ Categories' = Categories \cup {n + 1}
      /\ Categories' = 1..(n + 1)
      /\ parent'[n + 1] = creating[t].parent
      /\ \A c \in Categories : parent'[c] = parent[c]
  <2>1. Categories' = Categories \cup {n + 1}
    BY <1>2 DEF Categories
  <2>2. Categories' = 1..(n + 1) /\ n + 1 \notin Categories
    BY <1>1, <2>1
  <2> QED
    BY <1>2, <2>1, <2>2
<1>4. /\ Cardinality(Categories') = n + 1
      /\ Cardinality(Categories') \in Nat
      /\ Categories' = 1..Cardinality(Categories')
  <2>1. ASSUME NEW m \in Nat PROVE Cardinality(1..m) = m
    BY FS_Interval
  <2>2. n + 1 \in Nat
    BY <1>1
  <2>3. Cardinality(1..(n + 1)) = n + 1
    BY <2>1, <2>2
  <2>4. Cardinality(Categories') = n + 1
    BY <1>3, <2>3
  <2> QED
    BY <1>3, <2>2, <2>4
<1>5. \A c \in Categories' : ParentBefore(c)'
  BY <1>1, <1>3 DEF ParentBefore, Optional
<1>6. creating' \in [Editor -> Optional([parent : Optional(Categories')])]
  BY <1>1, <1>2, <1>3 DEF Optional
<1> QED
  BY <1>4, <1>5, <1>6 DEF TreeInv

LEMMA TreeStepInv == TreeInv /\ [TreeNext]_treeVars => TreeInv'
<1>1. TreeInv /\ UNCHANGED treeVars => TreeInv'
  BY DEF TreeInv, ParentBefore, Categories, treeVars
<1>2. ASSUME TreeInv, NEW t \in Editor, NEW p, FindParent(t, p)
      PROVE  TreeInv'
  <2>1. [parent |-> p] \in Optional([parent : Optional(Categories)])
    BY <1>2 DEF FindParent, Optional
  <2> QED
    BY <1>2, <2>1 DEF FindParent, TreeInv, ParentBefore, Categories
<1>3. ASSUME TreeInv, NEW t \in Editor, GiveUpCategory(t)
      PROVE  TreeInv'
  BY <1>3 DEF GiveUpCategory, TreeInv, ParentBefore, Categories, Optional
<1> QED
  BY <1>1, <1>2, <1>3, InsertCategoryKeeps DEF TreeNext

ClosedDown(shown) == \A d \in shown : Children(d) \subseteq shown

Tops(c) == {d \in Categories : TopLevel(d) /\ c \in Below(d)}

\* A category at the top is below itself only: no node has it as a child.
LEMMA TopBelow ==
  ASSUME TreeInv, NEW c \in Categories, TopLevel(c)
  PROVE  Tops(c) = {c}
<1>1. c \in Below(c)
  BY DEF Below
<1>2. ASSUME NEW d \in Categories, d # c
      PROVE  c \notin Below(d)
  <2>1. ClosedDown(Categories \ {c})
    BY CategoryTreeAssumption DEF TreeInv, TopLevel, Children, ClosedDown
  <2>2. Categories \ {c} \in SUBSET Categories /\ d \in Categories \ {c}
    BY <1>2
  <2> QED
    BY <2>1, <2>2 DEF Below, ClosedDown
<1> QED
  BY <1>1, <1>2 DEF Tops

\* Any other one is below what its parent is below.
LEMMA ChildBelow ==
  ASSUME TreeInv, NEW c \in Categories, ~TopLevel(c)
  PROVE  parent[c] \in Categories /\ parent[c] < c /\ Tops(c) = Tops(parent[c])
<1> DEFINE p == parent[c]
<1>1. p \in Categories /\ p < c /\ c \in Children(p)
  BY DEF TreeInv, ParentBefore, TopLevel, Children
<1>2. ASSUME NEW d \in Categories, p \in Below(d)
      PROVE  c \in Below(d)
  BY <1>1, <1>2 DEF Below
<1>3. ASSUME NEW d \in Categories, d # c, c \in Below(d)
      PROVE  p \in Below(d)
  <2> SUFFICES ASSUME NEW shown \in SUBSET Categories,
                      d \in shown, ClosedDown(shown), p \notin shown
               PROVE  FALSE
    BY <1>1 DEF Below, ClosedDown
  <2>1. ClosedDown(shown \ {c})
    BY DEF ClosedDown, Children
  <2>2. shown \ {c} \in SUBSET Categories /\ d \in shown \ {c}
    BY <1>3
  <2> QED
    BY <1>3, <2>1, <2>2 DEF Below, ClosedDown
<1>4. \A d \in Categories : TopLevel(d) => (c \in Below(d) <=> p \in Below(d))
  BY <1>2, <1>3
<1> QED
  BY <1>1, <1>4 DEF Tops

LEMMA OneTop ==
  ASSUME TreeInv, NEW c \in Categories
  PROVE  \E d : Tops(c) = {d}
<1> DEFINE Astray == {e \in Categories : \A d : Tops(e) # {d}}
<1> SUFFICES ASSUME Astray # {} PROVE FALSE
  OBVIOUS
<1>1. Astray \subseteq Nat
  BY DEF TreeInv
<1>2. PICK first \in Astray : \A e \in Astray : ~(e < first)
  <2> DEFINE R == {ss \in Nat \X Nat : ss[1] < ss[2]}
  <2>1. IsWellFoundedOn(R, Nat)
    BY NatLessThanWellFounded DEF OpToRel
  <2>2. \E first \in Astray : \A e \in Astray : <<e, first>> \notin R
    <3> HIDE DEF Astray, R
    <3> QED
      BY <1>1, <2>1, WFMin
  <2> QED
    BY <1>1, <2>2
<1>3. first \in Categories /\ \A d : Tops(first) # {d}
  OBVIOUS
<1>4. ~TopLevel(first)
  BY <1>3, TopBelow
<1>5. /\ parent[first] \in Categories /\ parent[first] < first
      /\ Tops(first) = Tops(parent[first])
  BY <1>3, <1>4, ChildBelow
<1>6. parent[first] \in Astray
  BY <1>3, <1>5
<1> QED
  BY <1>2, <1>5, <1>6

(***************************************************************************)
(* get_category_tree: for any number of categories and of requests that    *)
(* create them side by side, each is shown exactly once.                   *)
(***************************************************************************)
THEOREM TreeShowsEach == TreeSpec => []TreeShowsEachOnce
<1>1. TreeInit => TreeInv
  <2> SUFFICES ASSUME TreeInit PROVE TreeInv
    OBVIOUS
  <2>1. Categories = {}
    BY DEF TreeInit, Categories
  <2>2. Cardinality(Categories) = 0
    BY <2>1, FS_EmptySet
  <2> QED
    BY <2>1, <2>2 DEF TreeInit, TreeInv, Optional
<1>2. TreeInv => TreeShowsEachOnce
  <2> SUFFICES ASSUME TreeInv, NEW c \in Categories
               PROVE  Cardinality(Tops(c)) = 1
    BY DEF TreeShowsEachOnce, Tops
  <2> QED
    BY OneTop, FS_Singleton
<1> QED
  BY <1>1, <1>2, TreeStepInv, PTL DEF TreeSpec

-----------------------------------------------------------------------------
\* What MCParts puts side by side.

LEMMA PartsInit ==
  MCInit => /\ ONInit /\ LTInit /\ TreeInit /\ AccInit
            /\ ValInit /\ SumInit /\ SEInit
BY DEF MCInit

LEMMA PartsStep ==
  ASSUME [MCNext]_<<numberVars, throttleVars, eventVars, tableVars, part>>
  PROVE  /\ [ONNext]_numberVars /\ [LTNext]_throttleVars /\ [SENext]_eventVars
         /\ [TreeNext]_treeVars /\ [AccNext]_accountVars
         /\ [ValNext]_valuationVars /\ [SumNext]_summaryVars
<1>1. CASE UNCHANGED <<numberVars, throttleVars, eventVars, tableVars, part>>
  BY <1>1 DEF tableVars
<1>2. CASE RedisStep /\ UNCHANGED tableVars
  BY <1>2 DEF RedisStep, tableVars
<1>3. CASE TableStep /\ UNCHANGED <<numberVars, throttleVars, eventVars>>
  BY <1>3 DEF TableStep
<1>4. QED
  BY <1>1, <1>2, <1>3 DEF MCNext

(***************************************************************************)
(* Each behaviour of MCParts is one of every part: what the run checks of  *)
(* a part is checked of its own specification, with its own fairness.      *)
(***************************************************************************)
LEMMA PartsApart ==
  MCSpec => /\ ONSpec /\ LTSpec /\ TreeSpec /\ AccSpec
            /\ ValSpec /\ SumSpec /\ SESpec
BY PartsInit, PartsStep, PTL
   DEF MCSpec, ONSpec, LTSpec, TreeSpec, AccSpec, ValSpec, SumSpec, SESpec

(***************************************************************************)
(* Type correctness of the parts, and with it what their type invariants   *)
(* say of the tables: no number is of a day to come, and every token is of *)
(* a registered user.                                                      *)
(***************************************************************************)
THEOREM PartsTypeCorrect == MCSpec => []MCTypeOK
<1>1. /\ ONTypeOK /\ LTTypeOK /\ SETypeOK
      /\ AccTypeOK /\ ValTypeOK /\ SumTypeOK
      => MCTypeOK
  BY DEF MCTypeOK
<1>2. QED
  BY <1>1, PartsApart, OrderNumbersDistinct, LoginAttemptsBounded, LowStockTold,
     PasswordsKept, ValuationOff, SummaryCovers, PTL

(***************************************************************************)
(* The safety invariants of the parts, side by side as the run checks them.*)
(***************************************************************************)
THEOREM PartsSafe ==
  MCSpec => [](/\ NumbersDistinct /\ FailuresCounted /\ AttemptsBounded
               /\ TreeShowsEachOnce /\ PasswordIsTheLastSet
               /\ ValuationOffByMoves /\ SummaryNeverAhead
               /\ LowStockNotForgotten /\ AppliedOnceWithoutFault)
BY PartsApart, OrderNumbersDistinct, LoginAttemptsBounded, TreeShowsEach,
   PasswordsKept, ValuationOff, SummaryCovers, LowStockTold,
   AdjustmentsAppliedOnce, PTL

=============================================================================
