------------------------ MODULE UsageLifecycleProofs ------------------------
(***************************************************************************)
(* Theorems about UsageLifecycle, for any number of calls, any limits,     *)
(* prices and usages, any number of days and any number of faults.         *)
(***************************************************************************)
EXTENDS UsageLifecycle, TotalsProofs

-----------------------------------------------------------------------------
(* Amounts. *)

\* Tokens and cost of natural token counts are natural numbers.
LEMMA AmountType ==
  ASSUME NEW i \in Nat, NEW o \in Nat
  PROVE  Amount(i, o) \in Amounts
<1>1. i * InputCost \in Nat /\ o * OutputCost \in Nat
  BY NumbersAssumption
<1>2. (i * InputCost + o * OutputCost) \div 1000 \in Nat
  BY <1>1
<1> QED BY <1>2 DEF Amount, Amounts

\* The scripts' arithmetic stays within the amounts.
LEMMA ArithmeticType ==
  ASSUME NEW a \in Amounts, NEW b \in Amounts
  PROVE  Plus(a, b) \in Amounts /\ Minus(a, b) \in Amounts
BY DEF Plus, Minus, Amounts

\* Zero is one of the amounts.
LEMMA ZeroType == Zero \in Amounts
BY DEF Zero, Amounts

\* What a call reserves is an amount.
LEMMA ReservationType ==
  ASSUME TypeOK, NEW c \in Calls
  PROVE  Reservation(c) \in Amounts
<1>1. input[c] \in Nat
  BY NumbersAssumption DEF TypeOK
<1> QED BY <1>1, AmountType, NumbersAssumption DEF Reservation

\* What a call reports is an amount.
LEMMA ReportType ==
  ASSUME TypeOK, NEW c \in Calls
  PROVE  ReportedUsage(c) \subseteq Amounts
<1>1. input[c] \in Nat
  BY NumbersAssumption DEF TypeOK
<1>2. \A u \in Usages : Amount(u.input, u.output) \in Amounts
  BY AmountType, NumbersAssumption
<1>3. \A o \in FallbackOutputs : Amount(input[c], o) \in Amounts
  BY <1>1, AmountType, NumbersAssumption
<1> QED BY <1>2, <1>3 DEF ReportedUsage

\* Books stay books when a call's entry becomes another amount.
LEMMA BookType ==
  ASSUME NEW b \in Books, NEW c \in Calls, NEW v \in Amounts
  PROVE  /\ Of(b, c) \in Amounts
         /\ Book(b, c, v) \in Books
BY DEF Of, Book, Books, Amounts
-----------------------------------------------------------------------------
(* Type correctness. *)

\* A sleeping call has an attempt left.
BackoffInv == \A c \in Calls : pc[c] = "backoff" => attempt[c] < MaxProviderRetries

\* A call has read its window from the clock.
WindowInv == \A c \in Calls : window[c] <= day

TypeInv == TypeOK /\ BackoffInv /\ WindowInv

\* A script that runs keeps the types of the store.
LEMMA RunScriptType ==
  ASSUME TypeInv, NEW c \in Calls, RunScript(c)
  PROVE  /\ used' \in [Days -> Amounts]
         /\ reserved' \in [Days -> Amounts]
         /\ held' \in [Days -> Books]
         /\ charged' \in [Days -> Books]
         /\ foreign' \subseteq Days
<1> DEFINE w == window[c]
           R == Reservation(c)
<1>1. R \in Amounts /\ w \in Days /\ actual[c] \in Amounts
  BY ReservationType DEF TypeInv, TypeOK, Days
<1>2. /\ used[w] \in Amounts /\ reserved[w] \in Amounts
      /\ held[w] \in Books
      /\ charged[w] \in Books
  BY <1>1 DEF TypeInv, TypeOK
<1>3. /\ Of(held[w], c) \in Amounts
      /\ Of(charged[w], c) \in Amounts
  BY <1>2, BookType, ZeroType
<1>4. CASE RunReserve(c)
  <2>1. Plus(reserved[w], R) \in Amounts /\ Plus(Of(held[w], c), R) \in Amounts
    BY <1>1, <1>2, <1>3, ArithmeticType
  <2>2. Book(held[w], c, Plus(Of(held[w], c), R)) \in Books
    BY <1>2, <2>1, BookType
  <2> QED BY <1>4, <2>1, <2>2 DEF RunReserve, ReservedAfterReserve, TypeInv, TypeOK
<1>5. ASSUME CloseReservation(c)
      PROVE  /\ reserved' \in [Days -> Amounts]
             /\ held' \in [Days -> Books]
             /\ foreign' \subseteq Days
  <2>1. Minus(reserved[w], R) \in Amounts /\ Minus(Of(held[w], c), R) \in Amounts
    BY <1>1, <1>2, <1>3, ArithmeticType
  <2>2. Book(held[w], c, Minus(Of(held[w], c), R)) \in Books
    BY <1>2, <2>1, BookType
  <2> QED BY <1>1, <1>5, <2>1, <2>2 DEF CloseReservation, ReservedAfterClose, TypeInv, TypeOK
<1>6. CASE RunSettle(c)
  <2>1. Plus(used[w], actual[c]) \in Amounts /\ Plus(Of(charged[w], c), actual[c]) \in Amounts
    BY <1>1, <1>2, <1>3, ArithmeticType
  <2>2. Book(charged[w], c, Plus(Of(charged[w], c), actual[c])) \in Books
    BY <1>2, <2>1, BookType
  <2> QED BY <1>5, <1>6, <2>1, <2>2 DEF RunSettle, UsedAfterSettle, TypeInv, TypeOK
<1>7. CASE RunRelease(c)
  BY <1>5, <1>7 DEF RunRelease, TypeInv, TypeOK
<1> QED BY <1>4, <1>6, <1>7 DEF RunScript

\* A call that goes to the store keeps the types of what it changes.
LEMMA AskStoreType ==
  ASSUME TypeInv, NEW c \in Calls, NEW l \in AtStore, AskStore(c, l), day' = day
  PROVE  /\ pc' \in [Calls -> PCs]
         /\ window' \in [Calls -> Days]
         /\ WindowInv'
         /\ \A x \in Calls : pc'[x] = "backoff" => pc[x] = "backoff"
<1>1. day \in Nat /\ day \in Days
  BY DEF TypeInv, TypeOK, Days
<1>2. window' \in [Calls -> Days] /\ \A x \in Calls : window'[x] <= day
  BY <1>1 DEF AskStore, TypeInv, TypeOK, WindowInv
<1>3. pc' \in [Calls -> PCs]
  BY DEF AskStore, GoTo, TypeInv, TypeOK, PCs
<1>4. \A x \in Calls : pc'[x] = "backoff" => pc[x] = "backoff"
  BY DEF AskStore, GoTo, TypeInv, TypeOK, AtStore
<1> QED BY <1>2, <1>3, <1>4 DEF WindowInv

\* The initial state has the types.
LEMMA InitTypeInv == Init => TypeInv
<1> SUFFICES ASSUME Init PROVE TypeInv
  OBVIOUS
<1>1. day \in Days
  BY BoundsAssumption DEF Init, Days
<1> QED BY <1>1, ZeroType, NumbersAssumption, BoundsAssumption
        DEF Init, TypeInv, TypeOK, BackoffInv, WindowInv, PCs, Days, Books

\* Every step keeps the types.
LEMMA StepTypeInv == TypeInv /\ [Next]_vars => TypeInv'
<1> SUFFICES ASSUME TypeInv, [Next]_vars PROVE TypeInv'
  OBVIOUS
<1> USE DEF TypeInv, TypeOK, BackoffInv, WindowInv, PCs, AtStore, Ended, storeVars, callVars
<1>1. CASE UNCHANGED vars
  BY <1>1 DEF vars
<1>2. ASSUME NEW c \in Calls, Work(c) PROVE TypeInv'
  <2>1. CASE Begin(c)
          <3>1. CASE UNCHANGED window /\ GoTo(c, "refused")
      BY <2>1, <3>1, NumbersAssumption DEF Begin, GoTo
    <3>2. CASE AskStore(c, "reserving")
      BY <2>1, <3>2, AskStoreType, NumbersAssumption DEF Begin
    <3> QED BY <2>1, <3>1, <3>2 DEF Begin
  <2>2. CASE Answer(c)
    <3>1. ReportedUsage(c) \subseteq Amounts
      BY ReportType
    <3>2. CASE StartSettling(c)
      BY <2>2, <3>1, <3>2, AskStoreType DEF Answer, StartSettling
    <3>3. CASE GoTo(c, "empty") /\ UNCHANGED <<window, actual>>
      BY <2>2, <3>3 DEF Answer, GoTo
    <3> QED BY <2>2, <3>2, <3>3 DEF Answer
  <2>3. CASE TransientError(c)
    <3>1. CASE MayRetry(c) /\ GoTo(c, "backoff") /\ UNCHANGED window
      BY <2>3, <3>1 DEF TransientError, MayRetry, GoTo
    <3>2. CASE AskStore(c, "releasing")
      BY <2>3, <3>2, AskStoreType DEF TransientError
    <3> QED BY <2>3, <3>1, <3>2 DEF TransientError
  <2>4. CASE Retry(c)
    BY <2>4, NumbersAssumption DEF Retry, GoTo
  <2>5. CASE ProviderError(c)
    BY <2>5, AskStoreType DEF ProviderError
  <2>6. CASE Chunk(c)
    BY <2>6 DEF Chunk, GoTo
  <2>7. CASE Resume(c)
    BY <2>7 DEF Resume, GoTo
  <2>8. CASE EndOfStream(c)
    <3>1. ReportedUsage(c) \subseteq Amounts
      BY ReportType
    <3>2. CASE StartSettling(c)
      BY <2>8, <3>1, <3>2, AskStoreType DEF EndOfStream, StartSettling
    <3>3. CASE AskStore(c, "releasing") /\ UNCHANGED actual
      BY <2>8, <3>3, AskStoreType DEF EndOfStream
    <3> QED BY <2>8, <3>2, <3>3 DEF EndOfStream
  <2>9. CASE Reply(c)
    BY <2>9, RunScriptType DEF Reply, GoTo, AfterReply, RunScript, RunReserve, RunSettle, RunRelease
  <2> QED BY <1>2, <2>1, <2>2, <2>3, <2>4, <2>5, <2>6, <2>7, <2>8, <2>9 DEF Work
<1>3. ASSUME NEW c \in Calls, Fault(c) PROVE TypeInv'
  <2>1. ASSUME NEW s \in FaultSorts, Suffer(s) PROVE faults' \in [FaultSorts -> Nat]
    BY <2>1 DEF Suffer
  <2>2. ASSUME RunsOrNot(c)
        PROVE  /\ used' \in [Days -> Amounts]
               /\ reserved' \in [Days -> Amounts]
               /\ held' \in [Days -> Books]
               /\ charged' \in [Days -> Books]
               /\ foreign' \subseteq Days
    BY <2>2, RunScriptType DEF RunsOrNot
  <2>3. CASE StoreError(c)
    BY <2>1, <2>2, <2>3 DEF StoreError, GoTo, FaultSorts
  <2>4. CASE Resend(c)
    BY <2>1, <2>4, RunScriptType DEF Resend, FaultSorts
  <2>5. CASE Disconnect(c)
    <3>1. faults' \in [FaultSorts -> Nat]
      BY <2>1, <2>5 DEF Disconnect, FaultSorts
    <3>2. CASE AskStore(c, "releasing") /\ UNCHANGED storeVars
      BY <2>5, <3>1, <3>2, AskStoreType DEF Disconnect
    <3>3. CASE RunsOrNot(c) /\ GoTo(c, "gone") /\ UNCHANGED window
      BY <2>2, <2>5, <3>1, <3>3 DEF Disconnect, GoTo
    <3> QED BY <2>5, <3>2, <3>3 DEF Disconnect
  <2>6. CASE Crash(c)
    BY <2>1, <2>2, <2>6 DEF Crash, GoTo, FaultSorts
  <2> QED BY <1>3, <2>3, <2>4, <2>5, <2>6 DEF Fault
<1>4. CASE Midnight
  BY <1>4, BoundsAssumption DEF Midnight, Days
<1>5. ASSUME NEW w \in Days, Expire(w) PROVE TypeInv'
  <2>1. ASSUME NEW f \in [Days -> Amounts], NEW d \in Dims
        PROVE  [f EXCEPT ![w][d] = 0] \in [Days -> Amounts]
    BY DEF Amounts
  <2>2. PICK d \in Dims :
          \/ used' = [used EXCEPT ![w][d] = 0] /\ UNCHANGED reserved
          \/ reserved' = [reserved EXCEPT ![w][d] = 0] /\ UNCHANGED used
    BY <1>5 DEF Expire
  <2>3. /\ used \in [Days -> Amounts] /\ [used EXCEPT ![w][d] = 0] \in [Days -> Amounts]
        /\ reserved \in [Days -> Amounts] /\ [reserved EXCEPT ![w][d] = 0] \in [Days -> Amounts]
    BY <2>1
  <2> QED BY <1>5, <2>2, <2>3 DEF Expire
<1>6. CASE AllEnded
  BY <1>6 DEF AllEnded, vars
<1> QED BY <1>1, <1>2, <1>3, <1>4, <1>5, <1>6 DEF Next

\* Every variable keeps its type, whatever is interleaved and whatever fails.
THEOREM TypeCorrect == Spec => []TypeOK
<1>1. Spec => []TypeInv
  BY InitTypeInv, StepTypeInv, PTL DEF Spec
<1>2. TypeInv => TypeOK
  BY DEF TypeInv
<1> QED BY <1>1, <1>2, PTL
-----------------------------------------------------------------------------
(* What a step does to the store, one window and one amount at a time. *)

\* Subtraction stopped at 0.
Less(a, b) == IF a > b THEN a - b ELSE 0

\* The values the lemmas below are about are natural numbers.
LEMMA EntryType ==
  ASSUME TypeOK, NEW w \in Days, NEW d \in Dims
  PROVE  /\ used[w][d] \in Nat /\ reserved[w][d] \in Nat
         /\ held[w][d] \in [Calls -> Nat] /\ charged[w][d] \in [Calls -> Nat]
         /\ Total(held[w][d]) \in Nat /\ Total(charged[w][d]) \in Nat
         /\ \A c \in Calls : Reservation(c)[d] \in Nat /\ actual[c][d] \in Nat
<1>1. used[w][d] \in Nat /\ reserved[w][d] \in Nat
  BY DEF TypeOK, Amounts
<1>2. held[w][d] \in [Calls -> Nat] /\ charged[w][d] \in [Calls -> Nat]
  BY DEF TypeOK, Books
<1>3. Total(held[w][d]) \in Nat /\ Total(charged[w][d]) \in Nat
  BY <1>2, TotalIsNat, CallsAssumption
<1>4. \A c \in Calls : Reservation(c)[d] \in Nat /\ actual[c][d] \in Nat
  BY ReservationType DEF TypeOK, Amounts
<1> QED BY <1>1, <1>2, <1>3, <1>4

\* A granted reservation is counted and held.
LEMMA ReserveEffect ==
  ASSUME TypeInv, NEW c \in Calls, RunReserve(c), Granted(c), NEW d \in Dims
  PROVE  LET w == window[c] IN
         /\ w \in Days
         /\ reserved'[w][d] = reserved[w][d] + Reservation(c)[d]
         /\ Total(held'[w][d]) = Total(held[w][d]) + Reservation(c)[d]
         /\ \A v \in Days \ {w} : reserved'[v] = reserved[v] /\ held'[v] = held[v]
         /\ \A v \in Days, x \in Calls \ {c} : held'[v][d][x] = held[v][d][x]
<1> DEFINE w == window[c]
           h == held[w][d]
           n == h[c] + Reservation(c)[d]
<1>1. w \in Days
  BY DEF TypeInv, TypeOK
<1>2. /\ reserved' = [reserved EXCEPT ![w] = Plus(reserved[w], Reservation(c))]
      /\ held' = [held EXCEPT ![w] = Book(held[w], c, Plus(Of(held[w], c), Reservation(c)))]
  BY DEF RunReserve, ReservedAfterReserve
<1>3. /\ reserved'[w] = Plus(reserved[w], Reservation(c))
      /\ held'[w] = Book(held[w], c, Plus(Of(held[w], c), Reservation(c)))
      /\ \A v \in Days \ {w} : reserved'[v] = reserved[v] /\ held'[v] = held[v]
  BY <1>1, <1>2 DEF TypeInv, TypeOK
<1>4. /\ reserved'[w][d] = reserved[w][d] + Reservation(c)[d]
      /\ held'[w][d] = [h EXCEPT ![c] = n]
  BY <1>3 DEF Plus, Book, Of
<1>5. h \in [Calls -> Nat] /\ Reservation(c)[d] \in Nat /\ Total(h) \in Nat
  BY <1>1, EntryType DEF TypeInv
<1>6. h[c] \in Nat /\ n \in Nat
  BY <1>5
<1>7. Total([h EXCEPT ![c] = n]) = Total(h) - h[c] + n
  BY <1>5, <1>6, TotalExcept, CallsAssumption
<1>8. Total(h) - h[c] + n = Total(h) + Reservation(c)[d]
  BY <1>5, <1>6
<1>9. \A v \in Days, x \in Calls \ {c} : held'[v][d][x] = held[v][d][x]
  BY <1>3, <1>4, <1>5
<1> QED BY <1>1, <1>3, <1>4, <1>7, <1>8, <1>9

\* A closed reservation leaves the reserved keys and what the call holds.
LEMMA CloseEffect ==
  ASSUME TypeInv, NEW c \in Calls, CloseReservation(c), NEW d \in Dims
  PROVE  LET w == window[c]
             h == held[w][d][c]
         IN
         /\ w \in Days
         /\ reserved'[w][d] = Less(reserved[w][d], Reservation(c)[d])
         /\ h \in Nat /\ h <= Total(held[w][d])
         /\ Total(held'[w][d]) = Total(held[w][d]) - h + Less(h, Reservation(c)[d])
         /\ \A v \in Days \ {w} : reserved'[v] = reserved[v] /\ held'[v] = held[v]
         /\ \A v \in Days, x \in Calls \ {c} : held'[v][d][x] = held[v][d][x]
<1> DEFINE w == window[c]
           h == held[w][d]
           n == Less(h[c], Reservation(c)[d])
<1>1. w \in Days
  BY DEF TypeInv, TypeOK
<1>2. /\ reserved' = [reserved EXCEPT ![w] = Minus(reserved[w], Reservation(c))]
      /\ held' = [held EXCEPT ![w] = Book(held[w], c, Minus(Of(held[w], c), Reservation(c)))]
  BY DEF CloseReservation, ReservedAfterClose
<1>3. /\ reserved'[w] = Minus(reserved[w], Reservation(c))
      /\ held'[w] = Book(held[w], c, Minus(Of(held[w], c), Reservation(c)))
      /\ \A v \in Days \ {w} : reserved'[v] = reserved[v] /\ held'[v] = held[v]
  BY <1>1, <1>2 DEF TypeInv, TypeOK
<1>4. /\ reserved'[w][d] = Less(reserved[w][d], Reservation(c)[d])
      /\ held'[w][d] = [h EXCEPT ![c] = n]
  BY <1>3 DEF Minus, Book, Of, Less
<1>5. h \in [Calls -> Nat] /\ Reservation(c)[d] \in Nat
  BY <1>1, EntryType DEF TypeInv
<1>6. h[c] \in Nat /\ n \in Nat
  BY <1>5 DEF Less
<1>7. Total([h EXCEPT ![c] = n]) = Total(h) - h[c] + n /\ h[c] <= Total(h)
  BY <1>5, <1>6, TotalExcept, CallsAssumption
<1>8. \A v \in Days, x \in Calls \ {c} : held'[v][d][x] = held[v][d][x]
  BY <1>3, <1>4, <1>5
<1> QED BY <1>1, <1>3, <1>4, <1>6, <1>7, <1>8

\* A settlement is counted and charged to its call.
LEMMA SettleEffect ==
  ASSUME TypeInv, NEW c \in Calls, RunSettle(c), NEW d \in Dims
  PROVE  LET w == window[c] IN
         /\ w \in Days
         /\ used'[w][d] = used[w][d] + actual[c][d]
         /\ charged'[w][d] = [charged[w][d] EXCEPT ![c] = @ + actual[c][d]]
         /\ Total(charged'[w][d]) = Total(charged[w][d]) + actual[c][d]
         /\ \A v \in Days \ {w} : used'[v] = used[v] /\ charged'[v] = charged[v]
<1> DEFINE w == window[c]
           h == charged[w][d]
           n == h[c] + actual[c][d]
<1>1. w \in Days
  BY DEF TypeInv, TypeOK
<1>2. /\ used' = [used EXCEPT ![w] = Plus(used[w], actual[c])]
      /\ charged' = [charged EXCEPT ![w] = Book(charged[w], c, Plus(Of(charged[w], c), actual[c]))]
  BY DEF RunSettle, UsedAfterSettle
<1>3. /\ used'[w] = Plus(used[w], actual[c])
      /\ charged'[w] = Book(charged[w], c, Plus(Of(charged[w], c), actual[c]))
      /\ \A v \in Days \ {w} : used'[v] = used[v] /\ charged'[v] = charged[v]
  BY <1>1, <1>2 DEF TypeInv, TypeOK
<1>4. /\ used'[w][d] = used[w][d] + actual[c][d]
      /\ charged'[w][d] = [h EXCEPT ![c] = n]
  BY <1>3 DEF Plus, Book, Of
<1>5. h \in [Calls -> Nat] /\ actual[c][d] \in Nat /\ Total(h) \in Nat
  BY <1>1, EntryType DEF TypeInv
<1>6. h[c] \in Nat /\ n \in Nat
  BY <1>5
<1>7. Total([h EXCEPT ![c] = n]) = Total(h) - h[c] + n
  BY <1>5, <1>6, TotalExcept, CallsAssumption
<1>8. Total(h) - h[c] + n = Total(h) + actual[c][d]
  BY <1>5, <1>6
<1> QED BY <1>1, <1>3, <1>4, <1>7, <1>8

\* Every step runs a script, drops a key, or leaves the store alone; the
\* estimate of a call changes only when the call begins.
LEMMA StepShape ==
  ASSUME TypeInv, [Next]_vars
  PROVE  \/ \E c \in Calls : RunScript(c) /\ UNCHANGED <<day, input>>
         \/ \E w \in Days : Expire(w) /\ UNCHANGED <<day, input>>
         \/ /\ UNCHANGED storeVars
            /\ day' \in {day, day + 1}
            /\ \A c \in Calls : input'[c] = input[c] \/ pc[c] = "idle"
<1> USE DEF storeVars, callVars
<1>1. CASE UNCHANGED vars
  BY <1>1 DEF vars
<1>2. ASSUME NEW c \in Calls, Begin(c)
      PROVE  \A x \in Calls : input'[x] = input[x] \/ pc[x] = "idle"
  BY <1>2 DEF Begin, TypeInv, TypeOK
<1>3. CASE \E c \in Calls : Work(c)
  BY <1>2, <1>3 DEF Work, Begin, Answer, TransientError, Retry, ProviderError,
       Chunk, Resume, EndOfStream, Reply
<1>4. CASE \E c \in Calls : Fault(c)
  BY <1>4 DEF Fault, StoreError, Resend, Disconnect, Crash, RunsOrNot
<1>5. CASE Midnight
  BY <1>5 DEF Midnight
<1>6. CASE \E w \in Days : Expire(w)
  BY <1>6 DEF Expire
<1>7. CASE AllEnded
  BY <1>1, <1>7 DEF AllEnded
<1> QED BY <1>1, <1>3, <1>4, <1>5, <1>6, <1>7 DEF Next
-----------------------------------------------------------------------------
(* The counters against what calls hold and were charged. *)

\* A call that has not begun holds nothing and was charged nothing.
IdleInv ==
    \A c \in Calls, w \in Days, d \in Dims :
        pc[c] = "idle" => held[w][d][c] = 0 /\ charged[w][d][c] = 0

\* A used key never counts more than was charged in its window.
UsedBound == \A w \in Days, d \in Dims : used[w][d] <= Total(charged[w][d])

\* CountersExact in the current window and in those to come.
ExactInv ==
    \A w \in Days, d \in Dims :
        w >= day =>
            /\ used[w][d] = Total(charged[w][d])
            /\ w \notin foreign => reserved[w][d] = Total(held[w][d])

BookInv == TypeInv /\ IdleInv /\ NoPhantomReservation /\ UsedBound /\ ExactInv

\* The books are right at the start.
LEMMA InitBookInv == Init => BookInv
<1> SUFFICES ASSUME Init PROVE BookInv
  OBVIOUS
<1>1. TypeInv
  BY InitTypeInv
<1>2. \A w \in Days, d \in Dims :
        /\ used[w][d] = 0 /\ reserved[w][d] = 0
        /\ held[w][d] = [c \in Calls |-> 0] /\ charged[w][d] = [c \in Calls |-> 0]
  BY DEF Init, Zero
<1>3. \A w \in Days, d \in Dims : Total(held[w][d]) = 0 /\ Total(charged[w][d]) = 0
  BY <1>2, TotalZero
<1> QED BY <1>1, <1>2, <1>3 DEF BookInv, IdleInv, NoPhantomReservation, UsedBound, ExactInv

\* No step takes a call back to the state before it began.
LEMMA IdleStays ==
  ASSUME TypeInv, [Next]_vars, NEW c \in Calls, pc'[c] = "idle"
  PROVE  pc[c] = "idle"
<1> USE DEF TypeInv, TypeOK, callVars, AskStore, GoTo
<1>1. CASE UNCHANGED vars
  BY <1>1 DEF vars
<1>2. CASE \E x \in Calls : Work(x)
  BY <1>2 DEF Work, Begin, Answer, StartSettling, TransientError, Retry, ProviderError,
       Chunk, Resume, EndOfStream, Reply, AfterReply, RunScript, RunReserve, RunSettle, RunRelease
<1>3. CASE \E x \in Calls : Fault(x)
  BY <1>3 DEF Fault, StoreError, Resend, Disconnect, Crash
<1>4. CASE Midnight
  BY <1>4 DEF Midnight
<1>5. CASE \E w \in Days : Expire(w)
  BY <1>5 DEF Expire
<1>6. CASE AllEnded
  BY <1>1, <1>6 DEF AllEnded
<1> QED BY <1>1, <1>2, <1>3, <1>4, <1>5, <1>6 DEF Next

\* A key that is dropped was of a window that is over, and nothing else changes.
LEMMA ExpireEffect ==
  ASSUME TypeInv, NEW v \in Days, Expire(v)
  PROVE  /\ v < day /\ UNCHANGED <<held, charged, foreign>>
         /\ \A w \in Days, d \in Dims :
               /\ used'[w][d] <= used[w][d] /\ reserved'[w][d] <= reserved[w][d]
               /\ w >= day => used'[w][d] = used[w][d] /\ reserved'[w][d] = reserved[w][d]
<1>1. PICK e \in Dims :
        \/ used' = [used EXCEPT ![v][e] = 0] /\ UNCHANGED reserved
        \/ reserved' = [reserved EXCEPT ![v][e] = 0] /\ UNCHANGED used
  BY DEF Expire
<1>2. /\ used \in [Days -> Amounts] /\ reserved \in [Days -> Amounts]
      /\ \A w \in Days : day \in Nat /\ w \in Nat
  BY DEF TypeInv, TypeOK, Days
<1>3. \A w \in Days, d \in Dims : used[w][d] \in Nat /\ reserved[w][d] \in Nat
  BY EntryType DEF TypeInv
<1>4. v < day /\ UNCHANGED <<held, charged, foreign>>
  BY DEF Expire
<1>5. ASSUME NEW f, f \in [Days -> Amounts], NEW w \in Days, NEW d \in Dims, f[w][d] \in Nat
      PROVE  /\ [f EXCEPT ![v][e] = 0][w][d] <= f[w][d]
             /\ w >= day => [f EXCEPT ![v][e] = 0][w][d] = f[w][d]
  <2>1. CASE w = v /\ d = e
    <3>1. [f EXCEPT ![v][e] = 0][w][d] = 0
      BY <1>5, <2>1 DEF Amounts
    <3>2. ~(w >= day)
      BY <1>2, <1>4, <2>1
    <3> QED BY <1>5, <3>1, <3>2
  <2>2. CASE ~(w = v /\ d = e)
    <3>1. [f EXCEPT ![v][e] = 0][w][d] = f[w][d]
      BY <1>5, <2>2 DEF Amounts
    <3> QED BY <1>5, <3>1
  <2> QED BY <2>1, <2>2
<1>6. CASE used' = [used EXCEPT ![v][e] = 0] /\ UNCHANGED reserved
  BY <1>2, <1>3, <1>4, <1>5, <1>6
<1>7. CASE reserved' = [reserved EXCEPT ![v][e] = 0] /\ UNCHANGED used
  BY <1>2, <1>3, <1>4, <1>5, <1>7
<1> QED BY <1>1, <1>6, <1>7

\* The counters stay right when a reservation is granted.
LEMMA ReserveBookInv ==
  ASSUME BookInv, TypeInv', NEW c \in Calls, RunReserve(c), UNCHANGED <<day, input>>
  PROVE  NoPhantomReservation' /\ UsedBound' /\ ExactInv'
<1> DEFINE u == window[c]
<1>1. UNCHANGED <<used, charged, foreign>>
  BY DEF RunReserve
<1>2. CASE ~Granted(c)
  <2>1. UNCHANGED <<reserved, held>>
    BY <1>2 DEF RunReserve
  <2> QED BY <1>1, <2>1 DEF BookInv, NoPhantomReservation, UsedBound, ExactInv
<1>3. CASE Granted(c)
  <2> SUFFICES ASSUME NEW w \in Days, NEW d \in Dims
               PROVE  /\ reserved'[w][d] <= Total(held'[w][d])
                      /\ used'[w][d] <= Total(charged'[w][d])
                      /\ w >= day' => /\ used'[w][d] = Total(charged'[w][d])
                                      /\ w \notin foreign' => reserved'[w][d] = Total(held'[w][d])
    BY DEF NoPhantomReservation, UsedBound, ExactInv
  <2>1. /\ reserved[w][d] <= Total(held[w][d]) /\ used[w][d] <= Total(charged[w][d])
        /\ w >= day => /\ used[w][d] = Total(charged[w][d])
                       /\ w \notin foreign => reserved[w][d] = Total(held[w][d])
    BY DEF BookInv, NoPhantomReservation, UsedBound, ExactInv
  <2>2. /\ reserved[w][d] \in Nat /\ Total(held[w][d]) \in Nat /\ Reservation(c)[d] \in Nat
    BY EntryType DEF BookInv, TypeInv
  <2>3. CASE w = u
    <3>1. /\ reserved'[w][d] = reserved[w][d] + Reservation(c)[d]
          /\ Total(held'[w][d]) = Total(held[w][d]) + Reservation(c)[d]
      BY <1>3, <2>3, ReserveEffect DEF BookInv
    <3> QED BY <1>1, <2>1, <2>2, <3>1
  <2>4. CASE w # u
    <3>1. reserved'[w] = reserved[w] /\ held'[w] = held[w]
      BY <1>3, <2>4, ReserveEffect DEF BookInv
    <3> QED BY <1>1, <2>1, <3>1
  <2> QED BY <2>3, <2>4
<1> QED BY <1>2, <1>3

\* The reserved keys stay right when a reservation is closed: the window of
\* the close is marked if the call did not hold its reservation there.
LEMMA CloseReserved ==
  ASSUME BookInv, TypeInv', NEW c \in Calls, CloseReservation(c), UNCHANGED day,
         NEW w \in Days, NEW d \in Dims
  PROVE  /\ reserved'[w][d] <= Total(held'[w][d])
         /\ w >= day' /\ w \notin foreign' => reserved'[w][d] = Total(held'[w][d])
<1> DEFINE u == window[c]
           h == held[w][d][c]
           R == Reservation(c)[d]
<1>1. /\ reserved[w][d] <= Total(held[w][d])
      /\ w >= day /\ w \notin foreign => reserved[w][d] = Total(held[w][d])
  BY DEF BookInv, NoPhantomReservation, ExactInv
<1>2. reserved[w][d] \in Nat /\ Total(held[w][d]) \in Nat /\ R \in Nat
  BY EntryType DEF BookInv, TypeInv
<1>3. foreign' = (IF Holds(c, u) THEN foreign ELSE foreign \cup {u})
  BY DEF CloseReservation
<1>4. CASE w = u
  <2>1. /\ reserved'[w][d] = Less(reserved[w][d], R)
        /\ h \in Nat /\ h <= Total(held[w][d])
        /\ Total(held'[w][d]) = Total(held[w][d]) - h + Less(h, R)
    BY <1>4, CloseEffect DEF BookInv
  <2>2. w \notin foreign' => w \notin foreign /\ h >= R
    BY <1>3, <1>4 DEF Holds
  <2> QED BY <1>1, <1>2, <2>1, <2>2 DEF Less
<1>5. CASE w # u
  <2>1. reserved'[w] = reserved[w] /\ held'[w] = held[w]
    BY <1>5, CloseEffect DEF BookInv
  <2>2. w \in foreign' <=> w \in foreign
    BY <1>3, <1>5
  <2> QED BY <1>1, <2>1, <2>2
<1> QED BY <1>4, <1>5

\* The counters stay right when a reservation is settled or released.
LEMMA CloseBookInv ==
  ASSUME BookInv, TypeInv', NEW c \in Calls, RunSettle(c) \/ RunRelease(c),
         UNCHANGED <<day, input>>
  PROVE  NoPhantomReservation' /\ UsedBound' /\ ExactInv'
<1>1. CloseReservation(c)
  BY DEF RunSettle, RunRelease
<1> SUFFICES ASSUME NEW w \in Days, NEW d \in Dims
             PROVE  /\ used'[w][d] <= Total(charged'[w][d])
                    /\ w >= day' => used'[w][d] = Total(charged'[w][d])
  BY <1>1, CloseReserved DEF NoPhantomReservation, UsedBound, ExactInv
<1>2. /\ used[w][d] <= Total(charged[w][d])
      /\ w >= day => used[w][d] = Total(charged[w][d])
  BY DEF BookInv, UsedBound, ExactInv
<1>3. CASE RunRelease(c)
  BY <1>2, <1>3 DEF RunRelease
<1>4. CASE RunSettle(c) /\ w = window[c]
  <2>1. /\ used'[w][d] = used[w][d] + actual[c][d]
        /\ Total(charged'[w][d]) = Total(charged[w][d]) + actual[c][d]
    BY <1>4, SettleEffect DEF BookInv
  <2>2. used[w][d] \in Nat /\ Total(charged[w][d]) \in Nat /\ actual[c][d] \in Nat
    BY EntryType DEF BookInv, TypeInv
  <2> QED BY <1>2, <2>1, <2>2
<1>5. CASE RunSettle(c) /\ w # window[c]
  <2>1. used'[w] = used[w] /\ charged'[w] = charged[w]
    BY <1>5, SettleEffect DEF BookInv
  <2> QED BY <1>2, <2>1
<1> QED BY <1>3, <1>4, <1>5

\* A call that has not begun stays without books.
LEMMA StepIdleInv ==
  ASSUME BookInv, TypeInv', [Next]_vars
  PROVE  IdleInv'
<1> SUFFICES ASSUME NEW c \in Calls, NEW w \in Days, NEW d \in Dims, pc'[c] = "idle"
             PROVE  held'[w][d][c] = 0 /\ charged'[w][d][c] = 0
  BY DEF IdleInv
<1>1. pc[c] = "idle"
  BY IdleStays DEF BookInv
<1>2. held[w][d][c] = 0 /\ charged[w][d][c] = 0
  BY <1>1 DEF BookInv, IdleInv
<1>3. ASSUME NEW x \in Calls, RunScript(x)
      PROVE  held'[w][d][c] = held[w][d][c] /\ charged'[w][d][c] = charged[w][d][c]
  <2>1. x # c
    BY <1>1, <1>3 DEF RunScript, RunReserve, RunSettle, RunRelease
  <2>2. CASE RunReserve(x)
    BY <2>1, <2>2, ReserveEffect DEF BookInv, RunReserve
  <2>3. CASE RunSettle(x)
    <3>1. held'[w][d][c] = held[w][d][c]
      BY <2>1, <2>3, CloseEffect DEF BookInv, RunSettle
    <3>2. CASE w = window[x]
      <4>1. charged[w][d] \in [Calls -> Nat]
        BY EntryType DEF BookInv, TypeInv
      <4>2. charged'[w][d] = [charged[w][d] EXCEPT ![x] = @ + actual[x][d]]
        BY <2>3, <3>2, SettleEffect DEF BookInv
      <4> QED BY <2>1, <3>1, <4>1, <4>2
    <3>3. CASE w # window[x]
      BY <2>3, <3>1, <3>3, SettleEffect DEF BookInv
    <3> QED BY <3>2, <3>3
  <2>4. CASE RunRelease(x)
    BY <2>1, <2>4, CloseEffect DEF BookInv, RunRelease
  <2> QED BY <1>3, <2>2, <2>3, <2>4 DEF RunScript
<1>4. CASE \E x \in Calls : RunScript(x)
  BY <1>2, <1>3, <1>4
<1>5. CASE \E v \in Days : Expire(v)
  BY <1>2, <1>5 DEF Expire
<1>6. CASE UNCHANGED storeVars
  BY <1>2, <1>6 DEF storeVars
<1> QED BY <1>4, <1>5, <1>6, StepShape DEF BookInv

\* The books stay right at every step.
LEMMA StepBookInv == BookInv /\ [Next]_vars => BookInv'
<1> SUFFICES ASSUME BookInv, [Next]_vars PROVE BookInv'
  OBVIOUS
<1>1. TypeInv'
  BY StepTypeInv DEF BookInv
<1>2. IdleInv'
  BY <1>1, StepIdleInv
<1>3. ASSUME NEW c \in Calls, RunScript(c), UNCHANGED <<day, input>>
      PROVE  NoPhantomReservation' /\ UsedBound' /\ ExactInv'
  BY <1>1, <1>3, ReserveBookInv, CloseBookInv DEF RunScript
<1>4. ASSUME NEW v \in Days, Expire(v), UNCHANGED day
      PROVE  NoPhantomReservation' /\ UsedBound' /\ ExactInv'
  <2>1. /\ UNCHANGED <<held, charged, foreign>>
        /\ \A w \in Days, d \in Dims :
               /\ used'[w][d] <= used[w][d] /\ reserved'[w][d] <= reserved[w][d]
               /\ w >= day => used'[w][d] = used[w][d] /\ reserved'[w][d] = reserved[w][d]
    BY <1>4, ExpireEffect DEF BookInv
  <2>2. \A w \in Days, d \in Dims :
            /\ used[w][d] \in Nat /\ reserved[w][d] \in Nat
            /\ used'[w][d] \in Nat /\ reserved'[w][d] \in Nat
            /\ Total(held[w][d]) \in Nat /\ Total(charged[w][d]) \in Nat
    BY <1>1, EntryType DEF BookInv, TypeInv, TypeOK, Amounts
  <2> QED BY <1>4, <2>1, <2>2 DEF BookInv, NoPhantomReservation, UsedBound, ExactInv
<1>5. CASE UNCHANGED storeVars /\ day' \in {day, day + 1}
  <2>1. \A w \in Days : w >= day' => w >= day
    BY <1>5 DEF BookInv, TypeInv, TypeOK, Days
  <2> QED BY <1>1, <1>2, <1>5, <2>1
          DEF BookInv, NoPhantomReservation, UsedBound, ExactInv, storeVars
<1> QED BY <1>1, <1>2, <1>3, <1>4, <1>5, StepShape DEF BookInv

\* The store never counts a reservation that no call holds: whatever is lost,
\* sent twice, late or closed in another window, no user loses quota to it.
THEOREM NoPhantoms == Spec => []NoPhantomReservation
<1>1. Spec => []BookInv
  BY InitBookInv, StepBookInv, PTL DEF Spec
<1>2. BookInv => NoPhantomReservation
  BY DEF BookInv
<1> QED BY <1>1, <1>2, PTL

\* The counters of the current window are the sums of what the calls were
\* charged and hold, until a call closes there what it did not hold there.
THEOREM CountersAreExact == Spec => []CountersExact
<1>1. Spec => []BookInv
  BY InitBookInv, StepBookInv, PTL DEF Spec
<1>2. BookInv => CountersExact
  BY DEF BookInv, TypeInv, TypeOK, ExactInv, CountersExact, Days
<1> QED BY <1>1, <1>2, PTL
-----------------------------------------------------------------------------
(* Refusals and the daily quota. *)

\* A waiting call is refused only by its own script, run without a grant.
LEMMA RefusalStep ==
  ASSUME TypeInv, [Next]_vars, NEW c \in Calls, pc[c] = "reserving", pc'[c] = "refused"
  PROVE  ~Granted(c)
<1> USE DEF TypeInv, TypeOK, callVars, AskStore, GoTo
<1>1. CASE UNCHANGED vars
  BY <1>1 DEF vars
<1>2. ASSUME NEW x \in Calls, Work(x) PROVE ~Granted(c)
  <2>1. CASE Reply(x)
    <3>1. CASE x = c
      BY <2>1, <3>1 DEF Reply, AfterReply
    <3>2. CASE x # c
      BY <2>1, <3>2 DEF Reply
    <3> QED BY <3>1, <3>2
  <2>2. CASE ~Reply(x)
    BY <1>2, <2>2 DEF Work, Begin, Answer, StartSettling, TransientError, Retry,
         ProviderError, Chunk, Resume, EndOfStream
  <2> QED BY <2>1, <2>2
<1>3. ASSUME NEW x \in Calls, Fault(x) PROVE FALSE
  BY <1>3 DEF Fault, StoreError, Resend, Disconnect, Crash
<1>4. CASE Midnight
  BY <1>4 DEF Midnight
<1>5. CASE \E w \in Days : Expire(w)
  BY <1>5 DEF Expire
<1>6. CASE AllEnded
  BY <1>1, <1>6 DEF AllEnded
<1> QED BY <1>1, <1>2, <1>3, <1>4, <1>5, <1>6 DEF Next

\* No user is refused while the limit has room beside what was charged and
\* what calls still hold, on any day and with any faults.
THEOREM RefusalsAreDue == Spec => RefusedOnlyWhenFull
<1> DEFINE Due(c) ==
      \E d \in Dims :
          /\ Enforced(Limit, d)
          /\ Total(charged[window[c]][d]) + Total(held[window[c]][d])
                 + Reservation(c)[d] > Limit[d]
<1>1. ASSUME BookInv, [Next]_vars, NEW c \in Calls, pc[c] = "reserving", pc'[c] = "refused"
      PROVE  Due(c)
  <2> DEFINE w == window[c]
  <2>1. ~Granted(c)
    BY <1>1, RefusalStep DEF BookInv
  <2>2. PICK d \in Dims : /\ Enforced(Limit, d)
                          /\ ~(used[w][d] + reserved[w][d] + Reservation(c)[d] <= Limit[d])
    BY <2>1 DEF Granted, Fits
  <2>3. w \in Days
    BY <1>1 DEF BookInv, TypeInv, TypeOK
  <2>4. used[w][d] <= Total(charged[w][d]) /\ reserved[w][d] <= Total(held[w][d])
    BY <1>1, <2>3 DEF BookInv, UsedBound, NoPhantomReservation
  <2>5. /\ used[w][d] \in Nat /\ reserved[w][d] \in Nat /\ Reservation(c)[d] \in Nat
        /\ Total(charged[w][d]) \in Nat /\ Total(held[w][d]) \in Nat
    BY <1>1, <2>3, EntryType DEF BookInv, TypeInv
  <2>6. Limit[d] \in Nat
    BY NumbersAssumption DEF Limit
  <2> QED BY <2>2, <2>4, <2>5, <2>6
<1>2. BookInv /\ [Next]_vars
        => [\A c \in Calls : pc[c] = "reserving" /\ pc'[c] = "refused" => Due(c)]_vars
  BY <1>1
<1>3. Spec => []BookInv
  BY InitBookInv, StepBookInv, PTL DEF Spec
<1> QED BY <1>2, <1>3, PTL DEF Spec, RefusedOnlyWhenFull

\* By how much a call's charge of a window exceeds its reservation.
Excess(w, d, c) == Less(charged[w][d][c], Reservation(c)[d])

\* DailyQuota in the current window and in those to come.
QuotaInv ==
    \A w \in Days, d \in Dims :
        w >= day /\ Enforced(Limit, d) /\ w \notin foreign
            => used[w][d] + reserved[w][d] <= Limit[d] + Overrun(w, d)

\* An overrun is the sum of the excesses of the calls.
LEMMA OverrunSum ==
  ASSUME TypeOK, NEW w \in Days, NEW d \in Dims
  PROVE  /\ Overrun(w, d) = Total([c \in Calls |-> Excess(w, d, c)])
         /\ [c \in Calls |-> Excess(w, d, c)] \in [Calls -> Nat]
         /\ Overrun(w, d) \in Nat
<1>1. \A c \in Calls : Minus(Of(charged[w], c), Reservation(c))[d] = Excess(w, d, c)
  BY DEF Minus, Of, Excess, Less
<1>2. [c \in Calls |-> Minus(Of(charged[w], c), Reservation(c))[d]]
        = [c \in Calls |-> Excess(w, d, c)]
  BY <1>1
<1>3. \A c \in Calls : charged[w][d][c] \in Nat /\ Reservation(c)[d] \in Nat
  BY EntryType
<1>4. [c \in Calls |-> Excess(w, d, c)] \in [Calls -> Nat]
  BY <1>3 DEF Excess, Less
<1> QED BY <1>2, <1>4, TotalIsNat, CallsAssumption DEF Overrun

OverrunFacts ==
    \A w \in Days, d \in Dims :
        /\ Overrun(w, d) = Total([c \in Calls |-> Excess(w, d, c)])
        /\ Overrun(w, d) \in Nat
        /\ \A c \in Calls : Reservation(c) \in Amounts

\* The facts about overruns and reservations hold after a step as before it.
LEMMA NextOverrunFacts == TypeOK /\ TypeOK' => OverrunFacts /\ OverrunFacts'
<1>1. TypeOK => OverrunFacts
  BY OverrunSum, ReservationType DEF OverrunFacts
<1> QED BY <1>1, PTL

\* The quota is kept at the start.
LEMMA InitQuotaInv == Init => QuotaInv
<1> SUFFICES ASSUME Init, NEW w \in Days, NEW d \in Dims
             PROVE  used[w][d] + reserved[w][d] <= Limit[d] + Overrun(w, d)
  BY DEF QuotaInv
<1>1. used[w][d] = 0 /\ reserved[w][d] = 0
  BY DEF Init, Zero
<1>2. Limit[d] \in Nat
  BY NumbersAssumption DEF Limit
<1>3. Overrun(w, d) \in Nat
  BY InitTypeInv, OverrunSum DEF TypeInv
<1> QED BY <1>1, <1>2, <1>3

\* Every step keeps the quota.
LEMMA StepQuotaInv ==
  ASSUME BookInv, BookInv', QuotaInv, [Next]_vars
  PROVE  QuotaInv'
<1> SUFFICES ASSUME NEW w \in Days, NEW d \in Dims,
                    w >= day', Enforced(Limit, d), w \notin foreign'
             PROVE  used'[w][d] + reserved'[w][d] <= Limit[d] + Overrun(w, d)'
  BY DEF QuotaInv
<1>1. TypeOK /\ TypeOK' /\ TypeInv
  BY DEF BookInv, TypeInv
<1>2. /\ used[w][d] \in Nat /\ reserved[w][d] \in Nat
      /\ used'[w][d] \in Nat /\ reserved'[w][d] \in Nat
      /\ Overrun(w, d) \in Nat /\ Overrun(w, d)' \in Nat
  <2>1. used[w][d] \in Nat /\ reserved[w][d] \in Nat
    BY <1>1, EntryType
  <2>2. used'[w][d] \in Nat /\ reserved'[w][d] \in Nat
    BY <1>1 DEF TypeOK, Amounts
  <2>3. Overrun(w, d) \in Nat /\ Overrun(w, d)' \in Nat
    BY <1>1, NextOverrunFacts DEF OverrunFacts
  <2> QED BY <2>1, <2>2, <2>3
<1>3. Limit[d] \in Nat
  BY NumbersAssumption DEF Limit
<1>4. w >= day /\ w \notin foreign
        => used[w][d] + reserved[w][d] <= Limit[d] + Overrun(w, d)
  BY DEF QuotaInv
<1>5. ASSUME UNCHANGED charged,
             \A c \in Calls : input'[c] = input[c] \/ pc[c] = "idle"
      PROVE  Overrun(w, d)' = Overrun(w, d)
  <2>1. ASSUME NEW c \in Calls PROVE Excess(w, d, c)' = Excess(w, d, c)
    <3>1. CASE input'[c] = input[c]
      BY <1>5, <3>1 DEF Excess, Reservation
    <3>2. CASE pc[c] = "idle"
      <4>1. charged[w][d][c] = 0 /\ charged'[w][d][c] = 0
        BY <1>5, <3>2 DEF BookInv, IdleInv
      <4>2. Reservation(c)[d] \in Nat /\ Reservation(c)'[d] \in Nat
        BY <1>1, NextOverrunFacts DEF OverrunFacts, Amounts
      <4> QED BY <4>1, <4>2 DEF Excess, Less
    <3> QED BY <1>5, <3>1, <3>2
  <2>2. [c \in Calls |-> Excess(w, d, c)]' = [c \in Calls |-> Excess(w, d, c)]
    BY <2>1
  <2> QED BY <1>1, <2>2, NextOverrunFacts DEF OverrunFacts
<1>6. ASSUME NEW c \in Calls, RunReserve(c), UNCHANGED <<day, input>>
      PROVE  used'[w][d] + reserved'[w][d] <= Limit[d] + Overrun(w, d)'
  <2>1. /\ UNCHANGED <<used, charged, foreign>>
        /\ Overrun(w, d)' = Overrun(w, d)
    BY <1>5, <1>6 DEF RunReserve
  <2>2. CASE Granted(c) /\ w = window[c]
    <3>1. reserved'[w][d] = reserved[w][d] + Reservation(c)[d]
      BY <1>1, <1>6, <2>2, ReserveEffect
    <3>2. used[w][d] + reserved[w][d] + Reservation(c)[d] <= Limit[d]
      BY <2>2 DEF Granted, Fits
    <3>3. Reservation(c)[d] \in Nat
      BY <1>1, EntryType
    <3> QED BY <1>2, <1>3, <2>1, <3>1, <3>2, <3>3
  <2>3. CASE ~Granted(c) \/ w # window[c]
    <3>1. reserved'[w] = reserved[w]
      BY <1>1, <1>6, <2>3, ReserveEffect DEF RunReserve
    <3> QED BY <1>4, <1>6, <2>1, <3>1
  <2> QED BY <2>2, <2>3
<1>7. ASSUME NEW c \in Calls, CloseReservation(c), UNCHANGED <<day, input>>, w = window[c]
      PROVE  /\ w \notin foreign
             /\ Reservation(c)[d] \in Nat
             /\ reserved'[w][d] = reserved[w][d] - Reservation(c)[d]
  <2>1. w \notin foreign /\ held[w][d][c] >= Reservation(c)[d]
    BY <1>7 DEF CloseReservation, Holds
  <2>2. reserved[w][d] = Total(held[w][d])
    BY <1>7, <2>1 DEF BookInv, ExactInv
  <2>3. /\ held[w][d][c] \in Nat /\ held[w][d][c] <= Total(held[w][d])
        /\ reserved'[w][d] = Less(reserved[w][d], Reservation(c)[d])
    BY <1>1, <1>7, CloseEffect
  <2>4. Reservation(c)[d] \in Nat /\ Total(held[w][d]) \in Nat
    BY <1>1, EntryType
  <2> QED BY <2>1, <2>2, <2>3, <2>4 DEF Less
<1>8. ASSUME NEW c \in Calls, RunRelease(c), UNCHANGED <<day, input>>
      PROVE  used'[w][d] + reserved'[w][d] <= Limit[d] + Overrun(w, d)'
  <2>1. /\ UNCHANGED <<used, charged>> /\ CloseReservation(c)
        /\ Overrun(w, d)' = Overrun(w, d)
    BY <1>5, <1>8 DEF RunRelease
  <2>2. CASE w = window[c]
    BY <1>2, <1>3, <1>4, <1>7, <1>8, <2>1, <2>2
  <2>3. CASE w # window[c]
    <3>1. reserved'[w] = reserved[w] /\ w \notin foreign
      BY <1>1, <2>1, <2>3, CloseEffect DEF CloseReservation
    <3> QED BY <1>4, <1>8, <2>1, <3>1
  <2> QED BY <2>2, <2>3
<1>9. ASSUME NEW c \in Calls, RunSettle(c), UNCHANGED <<day, input>>
      PROVE  used'[w][d] + reserved'[w][d] <= Limit[d] + Overrun(w, d)'
  <2>1. CloseReservation(c)
    BY <1>9 DEF RunSettle
  <2>2. CASE w = window[c]
    <3> DEFINE f == [x \in Calls |-> Excess(w, d, x)]
               h == charged[w][d][c]
               a == actual[c][d]
               R == Reservation(c)[d]
    <3>1. /\ used'[w][d] = used[w][d] + a
          /\ charged'[w][d] = [charged[w][d] EXCEPT ![c] = h + a]
      BY <1>1, <1>9, <2>2, SettleEffect
    <3>2. charged[w][d] \in [Calls -> Nat] /\ a \in Nat /\ h \in Nat
      BY <1>1, EntryType
    <3>3. \A x \in Calls : Reservation(x)' = Reservation(x)
      BY <1>9 DEF Reservation
    <3>4. \A x \in Calls : Excess(w, d, x)' = IF x = c THEN Less(h + a, R) ELSE Excess(w, d, x)
      BY <3>1, <3>2, <3>3 DEF Excess
    <3>5. [x \in Calls |-> Excess(w, d, x)]' = [f EXCEPT ![c] = Less(h + a, R)]
      BY <3>4
    <3>6. f \in [Calls -> Nat] /\ Overrun(w, d) = Total(f)
      BY <1>1, OverrunSum
    <3>7. /\ w \notin foreign /\ R \in Nat
          /\ reserved'[w][d] = reserved[w][d] - R
      BY <1>7, <1>9, <2>1, <2>2
    <3>8. Less(h + a, R) \in Nat /\ f[c] = Less(h, R)
      BY <3>2, <3>7 DEF Less, Excess
    <3>9. Total([f EXCEPT ![c] = Less(h + a, R)]) = Total(f) - f[c] + Less(h + a, R)
      BY <3>6, <3>8, TotalExcept, CallsAssumption
    <3>10. Overrun(w, d)' = Overrun(w, d) - Less(h, R) + Less(h + a, R)
      BY <1>1, <3>5, <3>6, <3>8, <3>9, NextOverrunFacts DEF OverrunFacts
    <3>11. Less(h + a, R) - Less(h, R) >= a - R
      BY <3>2, <3>7 DEF Less
    <3>12. Less(h, R) \in Nat /\ used[w][d] + reserved[w][d] <= Limit[d] + Overrun(w, d)
      BY <1>4, <1>9, <3>2, <3>7 DEF Less
    <3> QED BY <1>2, <1>3, <3>1, <3>2, <3>7, <3>8, <3>10, <3>11, <3>12
  <2>3. CASE w # window[c]
    <3>1. reserved'[w] = reserved[w] /\ w \notin foreign
      BY <1>1, <2>1, <2>3, CloseEffect DEF CloseReservation
    <3>2. used'[w] = used[w] /\ charged'[w] = charged[w]
      BY <1>1, <1>9, <2>3, SettleEffect
    <3>3. Overrun(w, d)' = Overrun(w, d)
      BY <1>9, <3>2 DEF Overrun, Reservation
    <3> QED BY <1>4, <1>9, <3>1, <3>2, <3>3
  <2> QED BY <2>2, <2>3
<1>10. CASE \E c \in Calls : RunScript(c) /\ UNCHANGED <<day, input>>
  BY <1>6, <1>8, <1>9, <1>10 DEF RunScript
<1>11. CASE \E v \in Days : Expire(v) /\ UNCHANGED <<day, input>>
  <2>1. PICK v \in Days : Expire(v) /\ UNCHANGED <<day, input>>
    BY <1>11
  <2>2. /\ UNCHANGED <<charged, foreign>>
        /\ used'[w][d] = used[w][d] /\ reserved'[w][d] = reserved[w][d]
    BY <1>1, <2>1, ExpireEffect
  <2>3. Overrun(w, d)' = Overrun(w, d)
    BY <1>5, <2>1, <2>2
  <2> QED BY <1>4, <2>1, <2>2, <2>3
<1>12. CASE /\ UNCHANGED storeVars
            /\ day' \in {day, day + 1}
            /\ \A c \in Calls : input'[c] = input[c] \/ pc[c] = "idle"
  <2>1. w >= day
    BY <1>1, <1>12 DEF TypeOK, Days
  <2>2. Overrun(w, d)' = Overrun(w, d)
    BY <1>5, <1>12 DEF storeVars
  <2> QED BY <1>4, <1>12, <2>1, <2>2 DEF storeVars
<1> QED BY <1>1, <1>10, <1>11, <1>12, StepShape

\* The daily limits of tokens and of cost hold, up to what providers used
\* beyond their reservations, for any calls, prices and faults.
THEOREM QuotaIsKept == Spec => []DailyQuota
<1>1. Init => BookInv /\ QuotaInv
  BY InitBookInv, InitQuotaInv
<1>2. BookInv /\ QuotaInv /\ [Next]_vars => BookInv' /\ QuotaInv'
  BY StepBookInv, StepQuotaInv
<1>3. BookInv /\ QuotaInv => DailyQuota
  BY DEF BookInv, TypeInv, TypeOK, QuotaInv, DailyQuota, Days
<1> QED BY <1>1, <1>2, <1>3, PTL DEF Spec
-----------------------------------------------------------------------------
(* Every call of provider.generate comes to an end. *)

\* The steps a call of provider.generate has before it at most: two for each
\* attempt that may still fail, and those around the attempts.
CallsLeft(c) ==
    CASE pc[c] = "idle"      -> 2 * MaxProviderRetries + 4
      [] pc[c] = "reserving" -> 2 * MaxProviderRetries + 3
      [] pc[c] = "calling"   -> 2 * (MaxProviderRetries - attempt[c]) + 2
      [] pc[c] = "backoff"   -> 2 * (MaxProviderRetries - attempt[c]) + 1
      [] pc[c] \in {"settling", "releasing"} -> 1
      [] OTHER -> 0

\* No attempt has failed before there is a reservation, and only a stream is
\* ever suspended at a yield.
AttemptInv(c) ==
    Kind[c] # "stream" => /\ pc[c] \in {"idle", "reserving"} => attempt[c] = 0
                          /\ pc[c] # "yielding"

\* A step of a call of provider.generate brings it nearer to its end.
LEMMA CallForward ==
  ASSUME TypeInv, NEW c \in Calls, Kind[c] # "stream", AttemptInv(c), Work(c) \/ Fault(c)
  PROVE  /\ AttemptInv(c)'
         /\ pc'[c] # pc[c] => CallsLeft(c)' < CallsLeft(c)
<1>1. /\ pc \in [Calls -> PCs] /\ pc[c] # "yielding"
      /\ MaxProviderRetries \in Nat /\ attempt \in [Calls -> 0 .. MaxProviderRetries]
      /\ pc[c] = "backoff" => attempt[c] < MaxProviderRetries
      /\ pc[c] \in {"idle", "reserving"} => attempt[c] = 0
  BY NumbersAssumption DEF TypeInv, TypeOK, BackoffInv, AttemptInv
<1>2. attempt[c] \in Nat /\ attempt[c] <= MaxProviderRetries
  BY <1>1
<1> USE DEF AttemptInv, CallsLeft, GoTo, PCs, AtStore, Ended
<1>3. CASE Begin(c)
  BY <1>1, <1>3 DEF Begin, AskStore
<1>4. CASE Answer(c)
  BY <1>1, <1>2, <1>4 DEF Answer, AskStore, StartSettling
<1>5. CASE TransientError(c)
  BY <1>1, <1>2, <1>5 DEF TransientError, MayRetry, AskStore
<1>6. CASE Retry(c)
  BY <1>1, <1>2, <1>6 DEF Retry
<1>7. CASE ProviderError(c)
  BY <1>1, <1>2, <1>7 DEF ProviderError, AskStore
<1>8. CASE Chunk(c) \/ Resume(c) \/ EndOfStream(c)
  BY <1>1, <1>8 DEF Chunk, Resume, EndOfStream
<1>9. CASE Reply(c)
  <2>1. pc[c] \in {"reserving", "settling", "releasing"}
    BY <1>9 DEF Reply, RunScript, RunReserve, RunSettle, RunRelease
  <2>2. pc' = [pc EXCEPT ![c] = AfterReply(c)] /\ attempt' = attempt
    BY <1>9 DEF Reply
  <2>3. \/ pc[c] = "reserving" /\ AfterReply(c) \in {"calling", "refused"}
        \/ pc[c] = "settling" /\ AfterReply(c) = "settled"
        \/ pc[c] = "releasing" /\ AfterReply(c) = "released"
    BY <2>1 DEF AfterReply
  <2> QED BY <1>1, <2>2, <2>3
<1>10. CASE StoreError(c)
  BY <1>1, <1>2, <1>10 DEF StoreError
<1>11. CASE Resend(c)
  BY <1>1, <1>11 DEF Resend, callVars
<1>12. CASE Disconnect(c) \/ Crash(c)
  BY <1>1, <1>2, <1>12 DEF Disconnect, Crash
<1> QED BY <1>3, <1>4, <1>5, <1>6, <1>7, <1>8, <1>9, <1>10, <1>11, <1>12 DEF Work, Fault

\* Nothing moves a call but its own steps.
LEMMA CallsApart ==
  ASSUME TypeInv, [Next]_vars, NEW c \in Calls, ~ (Work(c) \/ Fault(c))
  PROVE  pc'[c] = pc[c] /\ attempt'[c] = attempt[c]
<1>1. ASSUME NEW q \in Calls, q # c, Work(q)
      PROVE  pc'[c] = pc[c] /\ attempt'[c] = attempt[c]
  BY <1>1 DEF TypeInv, TypeOK, Work, Begin, Answer, StartSettling, TransientError, Retry,
     ProviderError, Chunk, Resume, EndOfStream, Reply, AskStore, GoTo
<1>2. ASSUME NEW q \in Calls, q # c, Fault(q)
      PROVE  pc'[c] = pc[c] /\ attempt'[c] = attempt[c]
  BY <1>2 DEF TypeInv, TypeOK, Fault, StoreError, Resend, Disconnect, Crash, AskStore, GoTo,
     callVars
<1>3. CASE Midnight \/ (\E w \in Days : Expire(w)) \/ UNCHANGED vars
  BY <1>3 DEF Midnight, Expire, vars, callVars
<1> QED BY <1>1, <1>2, <1>3 DEF Next, AllEnded

\* A call of provider.generate that moves comes nearer to its end, whatever fails
\* and however calls interleave: it has at most four moves and two for each retry
\* (ConversationOrchestrator.MAX_PROVIDER_RETRIES bounds them).
THEOREM CallsGoForward ==
  Spec => [][\A c \in Calls : Kind[c] # "stream" /\ pc'[c] # pc[c]
                                => CallsLeft(c)' < CallsLeft(c)]_vars
<1> DEFINE Counted == TypeInv /\ \A c \in Calls : AttemptInv(c)
           Forward == \A c \in Calls : Kind[c] # "stream" /\ pc'[c] # pc[c]
                                         => CallsLeft(c)' < CallsLeft(c)
<1>1. Init => Counted
  BY InitTypeInv DEF Init, AttemptInv
<1>2. Counted /\ [Next]_vars => Counted'
  <2>1. ASSUME Counted, [Next]_vars, NEW c \in Calls
        PROVE  AttemptInv(c)'
    <3>1. CASE Kind[c] = "stream"
      BY <3>1 DEF AttemptInv
    <3>2. CASE Kind[c] # "stream" /\ (Work(c) \/ Fault(c))
      BY <2>1, <3>2, CallForward
    <3>3. CASE ~ (Work(c) \/ Fault(c))
      BY <2>1, <3>3, CallsApart DEF AttemptInv
    <3> QED BY <3>1, <3>2, <3>3
  <2> QED BY <2>1, StepTypeInv
<1>3. Counted /\ [Next]_vars => [Forward]_vars
  BY CallForward, CallsApart
<1> QED BY <1>1, <1>2, <1>3, PTL DEF Spec
=============================================================================
