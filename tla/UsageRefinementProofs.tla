----------------------- MODULE UsageRefinementProofs ------------------------
(***************************************************************************)
(* Theorems about the account of each call: what it was charged, what it   *)
(* holds and in which window; that in a window that no call has crossed    *)
(* into the lifecycle implements UsageLedger; and what an EVAL that is     *)
(* sent twice costs, the case the others leave out.  For any number of     *)
(* calls and days, any limits, prices and usages, and any number of store  *)
(* errors, crashes and disconnects.                                        *)
(***************************************************************************)
EXTENDS UsageRefinement, UsageLifecycleProofs

-----------------------------------------------------------------------------
(* What a step does to a call. *)

\* A call that was granted its reservation and has not asked to close it, or
\* waits for that.
Holding == {"calling", "backoff", "yielding", "settling", "releasing"}

Cut == {"unavailable", "gone"}

\* The clock is read by a call that asks the store, and by no other.
ReadsClock(c) ==
    \/ window'[c] = window[c]
    \/ pc[c] \notin AtStore /\ pc'[c] \in AtStore /\ window'[c] = day

\* A call goes on without a script.
Goes(c) ==
    \/ /\ pc'[c] = pc[c]
       /\ input'[c] = input[c]
       /\ actual'[c] = actual[c]
    \/ /\ pc[c] = "idle"
       /\ pc'[c] \in {"reserving", "refused"}
       /\ input'[c] \in Inputs
    \/ /\ pc[c] \in Holding \ AtStore
       /\ pc'[c] \in Holding \cup {"empty"}
       /\ input'[c] = input[c]
       /\ pc'[c] = "settling" => actual'[c] \in ReportedUsage(c)
    \/ /\ pc[c] \notin Ended \cup {"idle"}
       /\ pc'[c] \in Cut
       /\ input'[c] = input[c]
       /\ actual'[c] = actual[c]

Quiet(c) == ReadsClock(c) /\ Goes(c)

\* The script of a call runs, once, and the call goes on or is cut off.
RunsOnce(c) ==
    /\ RunScript(c)
    /\ pc' = [pc EXCEPT ![c] = AfterReply(c)] \/ \E l \in Cut : pc' = [pc EXCEPT ![c] = l]
    /\ UNCHANGED <<day, input, actual, window>>

\* No more EVALs are sent twice than there are faults of that sort.
ResendInv == faults["resend"] \in Nat /\ faults["resend"] <= Faults["resend"]

\* A step of the application is quiet, or the reply to a script.
LEMMA WorkShape ==
  ASSUME TypeInv, NEW c \in Calls, Work(c)
  PROVE  /\ faults' = faults
         /\ \/ RunsOnce(c)
            \/ UNCHANGED storeVars /\ day' = day /\ \A x \in Calls : Quiet(x)
<1> USE DEF TypeInv, TypeOK
<1>1. CASE Begin(c)
  BY <1>1 DEF Begin, AskStore, GoTo, Quiet, ReadsClock, Goes, AtStore
<1>2. CASE Answer(c)
  BY <1>2 DEF Answer, StartSettling, AskStore, GoTo, Quiet, ReadsClock, Goes, Holding, AtStore
<1>3. CASE TransientError(c)
  BY <1>3 DEF TransientError, AskStore, GoTo, Quiet, ReadsClock, Goes, Holding, AtStore
<1>4. CASE Retry(c)
  BY <1>4 DEF Retry, GoTo, Quiet, ReadsClock, Goes, Holding, AtStore
<1>5. CASE ProviderError(c)
  BY <1>5 DEF ProviderError, AskStore, GoTo, Quiet, ReadsClock, Goes, Holding, AtStore
<1>6. CASE Chunk(c)
  BY <1>6 DEF Chunk, GoTo, Quiet, ReadsClock, Goes, Holding, AtStore
<1>7. CASE Resume(c)
  BY <1>7 DEF Resume, GoTo, Quiet, ReadsClock, Goes, Holding, AtStore
<1>8. CASE EndOfStream(c)
  BY <1>8 DEF EndOfStream, StartSettling, AskStore, GoTo, Quiet, ReadsClock, Goes, Holding, AtStore
<1>9. CASE Reply(c)
  BY <1>9 DEF Reply, GoTo, RunsOnce
<1> QED BY <1>1, <1>2, <1>3, <1>4, <1>5, <1>6, <1>7, <1>8, <1>9 DEF Work

\* So is a fault, unless an EVAL is sent twice.
LEMMA FaultShape ==
  ASSUME TypeInv, NEW c \in Calls, Fault(c)
  PROVE  \/ /\ Resend(c)
            /\ faults'["resend"] = faults["resend"] - 1 /\ faults["resend"] > 0
         \/ /\ faults'["resend"] = faults["resend"]
            /\ \/ RunsOnce(c)
               \/ UNCHANGED storeVars /\ day' = day /\ \A x \in Calls : Quiet(x)
<1> USE DEF TypeInv, TypeOK, FaultSorts
<1>1. CASE StoreError(c)
  <2>1. faults'["resend"] = faults["resend"]
    BY <1>1 DEF StoreError, Suffer
  <2>2. CASE RunScript(c)
    BY <1>1, <2>1, <2>2 DEF StoreError, GoTo, RunsOnce, Cut
  <2>3. CASE UNCHANGED storeVars
    BY <1>1, <2>1, <2>3 DEF StoreError, GoTo, Quiet, ReadsClock, Goes, Cut, AtStore, Ended
  <2> QED BY <1>1, <2>2, <2>3 DEF StoreError, RunsOrNot
<1>2. CASE Resend(c)
  BY <1>2 DEF Resend, Suffer
<1>3. CASE Disconnect(c)
  <2>1. faults'["resend"] = faults["resend"]
    BY <1>3 DEF Disconnect, Suffer
  <2>2. CASE /\ pc[c] \in {"calling", "backoff"}
             /\ AskStore(c, "releasing")
             /\ UNCHANGED storeVars
    BY <1>3, <2>1, <2>2 DEF Disconnect, AskStore, GoTo, Quiet, ReadsClock, Goes, Holding, AtStore
  <2>3. CASE RunScript(c) /\ GoTo(c, "gone") /\ UNCHANGED window
    BY <1>3, <2>1, <2>3 DEF Disconnect, GoTo, RunsOnce, Cut
  <2>4. CASE UNCHANGED <<storeVars, window>> /\ GoTo(c, "gone")
    BY <1>3, <2>1, <2>4 DEF Disconnect, GoTo, Quiet, ReadsClock, Goes, Cut, Ended
  <2> QED BY <1>3, <2>2, <2>3, <2>4 DEF Disconnect, RunsOrNot
<1>4. CASE Crash(c)
  <2>1. faults'["resend"] = faults["resend"]
    BY <1>4 DEF Crash, Suffer
  <2>2. CASE RunScript(c)
    BY <1>4, <2>1, <2>2 DEF Crash, GoTo, RunsOnce, Cut
  <2>3. CASE UNCHANGED storeVars
    BY <1>4, <2>1, <2>3 DEF Crash, GoTo, Quiet, ReadsClock, Goes, Cut
  <2> QED BY <1>4, <2>2, <2>3 DEF Crash, RunsOrNot
<1> QED BY <1>1, <1>2, <1>3, <1>4 DEF Fault

\* Every step, of an EVAL sent once: a script of one call, or a quiet step.
LEMMA CallShape ==
  ASSUME TypeInv, ResendInv, [Next]_vars
  PROVE  /\ ResendInv'
         /\ Resent => Resent'
         /\ \/ Resent'
            \/ \E c \in Calls : RunsOnce(c)
            \/ /\ UNCHANGED <<held, charged, foreign>>
               /\ day' \in {day, day + 1}
               /\ \A c \in Calls : Quiet(c)
<1> USE DEF ResendInv, Resent, storeVars
<1>0. Faults["resend"] \in Nat
  BY BoundsAssumption DEF FaultSorts
<1>1. CASE UNCHANGED vars
  BY <1>1 DEF vars, callVars, Quiet, ReadsClock, Goes
<1>2. CASE \E c \in Calls : Work(c)
  BY <1>2, WorkShape
<1>3. CASE \E c \in Calls : Fault(c)
  BY <1>0, <1>3, FaultShape
<1>4. CASE Midnight
  BY <1>4 DEF Midnight, callVars, Quiet, ReadsClock, Goes
<1>5. CASE \E w \in Days : Expire(w)
  BY <1>5 DEF Expire, callVars, Quiet, ReadsClock, Goes
<1>6. CASE AllEnded
  BY <1>1, <1>6 DEF AllEnded
<1> QED BY <1>1, <1>2, <1>3, <1>4, <1>5, <1>6 DEF Next
-----------------------------------------------------------------------------
(* What a call is charged. *)

\* ChargedOnce, an amount at a time.
ChargeInv ==
    ~ Resent =>
        \A c \in Calls :
            /\ pc[c] \notin {"settled"} \cup Cut =>
                 \A w \in Days, d \in Dims : charged[w][d][c] = 0
            /\ pc[c] = "settled" =>
                 \E w \in Days : \A d \in Dims :
                     /\ charged[w][d][c] = actual[c][d]
                     /\ \A v \in Days \ {w} : charged[v][d][c] = 0

ChargingInv == BookInv /\ ResendInv /\ ChargeInv

\* Nobody is charged at the start.
LEMMA InitChargingInv == Init => ChargingInv
<1> SUFFICES ASSUME Init PROVE ChargingInv
  OBVIOUS
<1>1. BookInv
  BY InitBookInv
<1>2. ResendInv
  BY BoundsAssumption DEF Init, ResendInv, FaultSorts
<1>3. ChargeInv
  BY DEF Init, ChargeInv
<1> QED BY <1>1, <1>2, <1>3 DEF ChargingInv

\* A script charges its own call only, what that call settles, in its window.
LEMMA ScriptCharges ==
  ASSUME TypeInv, NEW c \in Calls, RunScript(c), NEW x \in Calls,
         NEW w \in Days, NEW d \in Dims
  PROVE  /\ x # c \/ pc[c] # "settling" => charged'[w][d][x] = charged[w][d][x]
         /\ pc[c] = "settling" =>
               /\ charged'[window[c]][d][c] = charged[window[c]][d][c] + actual[c][d]
               /\ w # window[c] => charged'[w][d][c] = charged[w][d][c]
<1>1. CASE RunReserve(c)
  BY <1>1 DEF RunReserve
<1>2. CASE RunRelease(c)
  BY <1>2 DEF RunRelease
<1>3. CASE RunSettle(c)
  <2> DEFINE u == window[c]
  <2>1. u \in Days /\ \A v \in Days : charged[v][d] \in [Calls -> Nat]
    BY EntryType DEF TypeInv, TypeOK
  <2>2. /\ charged'[u][d] = [charged[u][d] EXCEPT ![c] = @ + actual[c][d]]
        /\ \A v \in Days \ {u} : charged'[v] = charged[v]
    BY <1>3, SettleEffect
  <2>3. pc[c] = "settling"
    BY <1>3 DEF RunSettle
  <2>4. charged'[u][d][c] = charged[u][d][c] + actual[c][d]
    BY <2>1, <2>2
  <2>5. w # u => charged'[w][d][x] = charged[w][d][x] /\ charged'[w][d][c] = charged[w][d][c]
    BY <2>2
  <2>6. w = u /\ x # c => charged'[w][d][x] = charged[w][d][x]
    BY <2>1, <2>2
  <2> QED BY <2>3, <2>4, <2>5, <2>6
<1> QED BY <1>1, <1>2, <1>3 DEF RunScript

\* Where a call is after its script.
LEMMA AfterScript ==
  ASSUME TypeInv, NEW c \in Calls, RunsOnce(c)
  PROVE  /\ pc[c] \in AtStore
         /\ pc'[c] \in Cut \cup {AfterReply(c)}
         /\ AfterReply(c) = "settled" <=> pc[c] = "settling"
         /\ \A x \in Calls \ {c} : pc'[x] = pc[x]
<1>1. pc[c] \in AtStore
  BY DEF RunsOnce, RunScript, RunReserve, RunSettle, RunRelease, AtStore
<1>2. AfterReply(c) = "settled" <=> pc[c] = "settling"
  BY <1>1 DEF AtStore, AfterReply
<1> QED BY <1>1, <1>2 DEF RunsOnce, TypeInv, TypeOK

\* Every step keeps the charges right.
LEMMA StepChargingInv == ChargingInv /\ [Next]_vars => ChargingInv'
<1> SUFFICES ASSUME ChargingInv, [Next]_vars PROVE ChargingInv'
  OBVIOUS
<1>1. BookInv' /\ ResendInv' /\ TypeInv
  BY StepBookInv, CallShape DEF ChargingInv, BookInv
<1> SUFFICES ASSUME ~ Resent' PROVE ChargeInv'
  BY <1>1 DEF ChargingInv, ChargeInv
<1>2. ~ Resent
  BY <1>1, CallShape DEF ChargingInv
<1> SUFFICES ASSUME NEW x \in Calls
             PROVE  /\ pc'[x] \notin {"settled"} \cup Cut =>
                         \A w \in Days, d \in Dims : charged'[w][d][x] = 0
                    /\ pc'[x] = "settled" =>
                         \E w \in Days : \A d \in Dims :
                             /\ charged'[w][d][x] = actual'[x][d]
                             /\ \A v \in Days \ {w} : charged'[v][d][x] = 0
  BY DEF ChargeInv
<1>3. /\ pc[x] \notin {"settled"} \cup Cut =>
           \A w \in Days, d \in Dims : charged[w][d][x] = 0
      /\ pc[x] = "settled" =>
           \E w \in Days : \A d \in Dims :
               /\ charged[w][d][x] = actual[x][d]
               /\ \A v \in Days \ {w} : charged[v][d][x] = 0
  BY <1>2 DEF ChargingInv, ChargeInv
<1>4. CASE UNCHANGED charged /\ Quiet(x)
  <2>1. pc'[x] = "settled" => pc[x] = "settled" /\ actual'[x] = actual[x]
    BY <1>4 DEF Quiet, Goes, Holding, AtStore, Cut
  <2>2. pc'[x] \notin {"settled"} \cup Cut => pc[x] \notin {"settled"} \cup Cut
    BY <1>4 DEF Quiet, Goes, Holding, AtStore, Cut, Ended
  <2> QED BY <1>3, <1>4, <2>1, <2>2
<1>5. ASSUME NEW c \in Calls, RunsOnce(c), x # c \/ pc[c] # "settling"
      PROVE  /\ pc'[x] \notin {"settled"} \cup Cut =>
                   \A w \in Days, d \in Dims : charged'[w][d][x] = 0
             /\ pc'[x] = "settled" =>
                   \E w \in Days : \A d \in Dims :
                       /\ charged'[w][d][x] = actual'[x][d]
                       /\ \A v \in Days \ {w} : charged'[v][d][x] = 0
  <2>1. \A w \in Days, d \in Dims : charged'[w][d][x] = charged[w][d][x]
    BY <1>1, <1>5, ScriptCharges DEF RunsOnce
  <2>2. actual' = actual
    BY <1>5 DEF RunsOnce
  <2>3. CASE x # c
    BY <1>1, <1>3, <1>5, <2>1, <2>2, <2>3, AfterScript
  <2>4. CASE x = c
    <3>1. pc[x] \notin {"settled"} \cup Cut /\ pc'[x] # "settled"
      BY <1>1, <1>5, <2>4, AfterScript DEF AtStore, Cut
    <3> QED BY <1>3, <2>1, <3>1
  <2> QED BY <2>3, <2>4
<1>6. ASSUME RunsOnce(x), pc[x] = "settling"
      PROVE  /\ pc'[x] \in {"settled"} \cup Cut
             /\ \E w \in Days : \A d \in Dims :
                    /\ charged'[w][d][x] = actual'[x][d]
                    /\ \A v \in Days \ {w} : charged'[v][d][x] = 0
  <2>1. window[x] \in Days /\ \A d \in Dims : actual[x][d] \in Nat
    BY <1>1, EntryType DEF TypeInv, TypeOK
  <2>2. \A w \in Days, d \in Dims : charged[w][d][x] = 0
    BY <1>3, <1>6 DEF Cut
  <2>3. \A d \in Dims : /\ charged'[window[x]][d][x] = actual[x][d]
                        /\ \A v \in Days \ {window[x]} : charged'[v][d][x] = 0
    BY <1>1, <1>6, <2>1, <2>2, ScriptCharges DEF RunsOnce
  <2>4. actual' = actual /\ pc'[x] \in {"settled"} \cup Cut
    BY <1>1, <1>6, AfterScript DEF RunsOnce
  <2> QED BY <2>1, <2>3, <2>4
<1> QED BY <1>1, <1>4, <1>5, <1>6, CallShape DEF ChargingInv

\* Unless an EVAL is sent twice, a call is charged once, in one window: what
\* it settled, whatever is retried, lost or cut off.
THEOREM EveryCallChargedOnce == Spec => []ChargedOnce
<1>1. Spec => []ChargingInv
  BY InitChargingInv, StepChargingInv, PTL DEF Spec
<1>2. ChargingInv => ChargedOnce
  <2> SUFFICES ASSUME ChargingInv, ~ Resent, NEW c \in Calls
               PROVE  /\ pc[c] = "settled" =>
                           \E w \in Days : /\ Of(charged[w], c) = actual[c]
                                           /\ \A v \in Days \ {w} : Of(charged[v], c) = Zero
                      /\ pc[c] \notin {"settled", "unavailable", "gone"} =>
                           \A w \in Days : Of(charged[w], c) = Zero
    BY DEF ChargedOnce
  <2>1. actual[c] = [d \in Dims |-> actual[c][d]]
    BY DEF ChargingInv, BookInv, TypeInv, TypeOK, Amounts
  <2> QED BY <2>1 DEF ChargingInv, ChargeInv, Of, Zero, Cut
<1> QED BY <1>1, <1>2, PTL
-----------------------------------------------------------------------------
(* What a call holds, and in which window, with no EVAL sent twice. *)

\* A call holds nothing, or its reservation in one window.
HoldsNothing(c) == \A w \in Days, d \in Dims : held[w][d][c] = 0

HoldsIn(c, v) ==
    \A w \in Days, d \in Dims : held[w][d][c] = IF w = v THEN Reservation(c)[d] ELSE 0

\* A call that was granted its reservation has it in the window of its clock
\* until it asks to close it, with a clock that may have gone on.  It leaves it
\* behind in an earlier window when the close came after midnight, and anywhere
\* when it was cut off.
PlaceInv(c) ==
    /\ pc[c] # "idle" => input[c] \in Inputs
    /\ pc[c] = "settling" => actual[c] \in ReportedUsage(c)
    /\ pc[c] \in {"idle", "reserving", "refused"} => HoldsNothing(c)
    /\ pc[c] \in (Holding \ AtStore) \cup {"empty"} => HoldsIn(c, window[c])
    /\ pc[c] \in Holding => \E v \in Days : v <= window[c] /\ HoldsIn(c, v)
    /\ pc[c] \in {"settled", "released"} =>
         HoldsNothing(c) \/ \E v \in Days : v < window[c] /\ HoldsIn(c, v)
    /\ pc[c] \in Cut =>
         HoldsNothing(c) \/ \E v \in Days : v <= window[c] /\ HoldsIn(c, v)

\* A call with a reservation in an earlier window has closed it in window w.
CrossedInto(w) ==
    \E c \in Calls, v \in Days :
        /\ pc[c] \in {"settled", "released"} \cup Cut
        /\ window[c] = w /\ v < w
        /\ HoldsIn(c, v)

HeldInv ==
    ~ Resent => /\ \A c \in Calls : PlaceInv(c)
                /\ \A w \in foreign : CrossedInto(w)

AccountInv == ChargingInv /\ HeldInv

\* Nobody holds anything at the start.
LEMMA InitAccountInv == Init => AccountInv
<1> SUFFICES ASSUME Init PROVE AccountInv
  OBVIOUS
<1>1. ChargingInv
  BY InitChargingInv
<1>2. \A c \in Calls : PlaceInv(c)
  BY DEF Init, PlaceInv, HoldsNothing, Holding, AtStore, Cut
<1> QED BY <1>1, <1>2 DEF Init, AccountInv, HeldInv

\* A script changes what its own call holds in the window of its clock, and
\* notes a close of what the call does not hold there.
LEMMA ScriptHolds ==
  ASSUME TypeInv, NEW c \in Calls, RunScript(c)
  PROVE  /\ \A w \in Days, d \in Dims, x \in Calls :
              x # c \/ w # window[c] => held'[w][d][x] = held[w][d][x]
         /\ \A d \in Dims :
              held'[window[c]][d][c] =
                IF pc[c] # "reserving" THEN Less(held[window[c]][d][c], Reservation(c)[d])
                ELSE IF Granted(c) THEN held[window[c]][d][c] + Reservation(c)[d]
                ELSE held[window[c]][d][c]
         /\ foreign' = IF pc[c] # "reserving" /\ ~ Holds(c, window[c])
                       THEN foreign \cup {window[c]} ELSE foreign
<1>1. window[c] \in Days /\ \A d \in Dims : held[window[c]][d] \in [Calls -> Nat]
  BY EntryType DEF TypeInv, TypeOK
<1>2. ASSUME NEW v \in Amounts, held' = [held EXCEPT ![window[c]] = Book(@, c, v)]
      PROVE  /\ \A w \in Days, d \in Dims, x \in Calls :
                  x # c \/ w # window[c] => held'[w][d][x] = held[w][d][x]
             /\ \A d \in Dims : held'[window[c]][d][c] = v[d]
  <2>1. held'[window[c]] = Book(held[window[c]], c, v)
    BY <1>1, <1>2 DEF TypeInv, TypeOK
  <2>2. \A d \in Dims : held'[window[c]][d] = [held[window[c]][d] EXCEPT ![c] = v[d]]
    BY <2>1 DEF Book
  <2>3. \A w \in Days \ {window[c]} : held'[w] = held[w]
    BY <1>2 DEF TypeInv, TypeOK
  <2>4. \A d \in Dims, x \in Calls : x # c => held'[window[c]][d][x] = held[window[c]][d][x]
    BY <1>1, <2>2
  <2>5. \A d \in Dims : held'[window[c]][d][c] = v[d]
    BY <1>1, <2>2
  <2> QED BY <2>3, <2>4, <2>5
<1>3. /\ Plus(Of(held[window[c]], c), Reservation(c)) \in Amounts
      /\ Minus(Of(held[window[c]], c), Reservation(c)) \in Amounts
  <2>1. Of(held[window[c]], c) \in Amounts /\ Reservation(c) \in Amounts
    BY <1>1, BookType, ZeroType, ReservationType DEF TypeInv, TypeOK
  <2> QED BY <2>1, ArithmeticType
<1>4. CASE RunReserve(c) /\ Granted(c)
  <2>1. pc[c] = "reserving" /\ foreign' = foreign
    BY <1>4 DEF RunReserve
  <2>2. held' = [held EXCEPT ![window[c]] = Book(@, c, Plus(Of(@, c), Reservation(c)))]
    BY <1>4 DEF RunReserve
  <2>3. \A d \in Dims : Plus(Of(held[window[c]], c), Reservation(c))[d]
                          = held[window[c]][d][c] + Reservation(c)[d]
    BY DEF Plus, Of
  <2> QED BY <1>2, <1>3, <1>4, <2>1, <2>2, <2>3
<1>5. CASE RunReserve(c) /\ ~ Granted(c)
  BY <1>5 DEF RunReserve
<1>6. CASE RunSettle(c) \/ RunRelease(c)
  <2>1. CloseReservation(c) /\ pc[c] # "reserving"
    BY <1>6 DEF RunSettle, RunRelease
  <2>2. held' = [held EXCEPT ![window[c]] = Book(@, c, Minus(Of(@, c), Reservation(c)))]
    BY <2>1 DEF CloseReservation
  <2>3. \A d \in Dims : Minus(Of(held[window[c]], c), Reservation(c))[d]
                          = Less(held[window[c]][d][c], Reservation(c)[d])
    BY DEF Minus, Of, Less
  <2>4. foreign' = IF ~ Holds(c, window[c]) THEN foreign \cup {window[c]} ELSE foreign
    BY <2>1 DEF CloseReservation
  <2> QED BY <1>2, <1>3, <2>1, <2>2, <2>3, <2>4
<1> QED BY <1>4, <1>5, <1>6 DEF RunScript

\* A call whose share of the books and whose input stay holds what it held.
LEMMA HoldsSame ==
  ASSUME NEW c \in Calls, input'[c] = input[c],
         \A w \in Days, d \in Dims : held'[w][d][c] = held[w][d][c]
  PROVE  /\ Reservation(c)' = Reservation(c)
         /\ ReportedUsage(c)' = ReportedUsage(c)
         /\ HoldsNothing(c)' <=> HoldsNothing(c)
         /\ \A v \in Days : HoldsIn(c, v)' <=> HoldsIn(c, v)
BY DEF Reservation, ReportedUsage, HoldsNothing, HoldsIn

\* A quiet step leaves a call where it may be.
LEMMA QuietKeepsPlace ==
  ASSUME TypeInv, UNCHANGED held, NEW c \in Calls, Quiet(c), PlaceInv(c)
  PROVE  PlaceInv(c)'
<1>1. window[c] \in Days /\ window[c] <= day /\ day \in Days
  BY DEF TypeInv, TypeOK, WindowInv
<1>2. window[c] \in Nat /\ day \in Nat /\ Days \subseteq Nat
  BY <1>1 DEF Days
<1>3. pc[c] \in {"idle", "refused"} => HoldsNothing(c)
  BY DEF PlaceInv
<1>4. CASE pc'[c] = pc[c] /\ input'[c] = input[c] /\ actual'[c] = actual[c]
  <2>1. window'[c] = window[c]
    BY <1>4 DEF Quiet, ReadsClock
  <2> QED BY <1>4, <2>1, HoldsSame DEF PlaceInv, HoldsNothing, HoldsIn
<1>5. CASE pc[c] = "idle" /\ pc'[c] \in {"reserving", "refused"} /\ input'[c] \in Inputs
  <2>1. HoldsNothing(c)'
    BY <1>3, <1>5 DEF HoldsNothing
  <2> QED BY <1>5, <2>1 DEF PlaceInv, Holding, AtStore, Cut
<1>6. CASE /\ pc[c] \in Holding \ AtStore
           /\ pc'[c] \in Holding \cup {"empty"}
           /\ input'[c] = input[c]
           /\ pc'[c] = "settling" => actual'[c] \in ReportedUsage(c)
  <2>1. /\ input'[c] \in Inputs
        /\ pc'[c] = "settling" => actual'[c] \in ReportedUsage(c)'
    BY <1>6, HoldsSame DEF PlaceInv, Holding
  <2>2. \A w \in Days, d \in Dims :
           held'[w][d][c] = IF w = window[c] THEN Reservation(c)'[d] ELSE 0
    BY <1>6, HoldsSame DEF PlaceInv, HoldsIn
  <2>3. pc'[c] \notin AtStore => window'[c] = window[c]
    BY DEF Quiet, ReadsClock
  <2>4. window[c] <= window'[c]
    BY <1>1, <1>2 DEF Quiet, ReadsClock
  <2> QED BY <1>1, <1>6, <2>1, <2>2, <2>3, <2>4 DEF PlaceInv, HoldsIn, Holding, AtStore, Cut
<1>7. CASE pc[c] \notin Ended \cup {"idle"} /\ pc'[c] \in Cut /\ input'[c] = input[c]
  <2>1. window'[c] = window[c]
    BY <1>7 DEF Quiet, ReadsClock, Cut, AtStore
  <2>2. pc[c] \in Holding \cup {"reserving"} /\ input[c] \in Inputs
    BY <1>7 DEF TypeInv, TypeOK, PCs, AtStore, Holding, PlaceInv
  <2>3. HoldsNothing(c) \/ \E v \in Days : v <= window[c] /\ HoldsIn(c, v)
    BY <2>2 DEF PlaceInv
  <2> QED BY <1>7, <2>1, <2>2, <2>3, HoldsSame DEF PlaceInv, Holding, AtStore, Cut
<1> QED BY <1>4, <1>5, <1>6, <1>7 DEF Quiet, Goes

\* A script leaves its call where it may be, and leaves what it does not close
\* in an earlier window.
LEMMA ScriptKeepsPlace ==
  ASSUME TypeInv, NEW c \in Calls, RunsOnce(c), PlaceInv(c)
  PROVE  /\ PlaceInv(c)'
         /\ pc[c] # "reserving" /\ ~ Holds(c, window[c]) => CrossedInto(window[c])'
<1>1. /\ pc[c] \in AtStore
      /\ pc'[c] \in Cut \cup {AfterReply(c)}
      /\ UNCHANGED <<input, actual, window>> /\ RunScript(c)
  BY AfterScript DEF RunsOnce
<1>2. AfterReply(c) = CASE pc[c] = "reserving" -> IF Granted(c) THEN "calling" ELSE "refused"
                        [] pc[c] = "settling"  -> "settled"
                        [] pc[c] = "releasing" -> "released"
  BY DEF AfterReply
<1>3. /\ \A w \in Days \ {window[c]}, d \in Dims : held'[w][d][c] = held[w][d][c]
      /\ \A d \in Dims :
           held'[window[c]][d][c] =
             IF pc[c] # "reserving" THEN Less(held[window[c]][d][c], Reservation(c)[d])
             ELSE IF Granted(c) THEN held[window[c]][d][c] + Reservation(c)[d]
             ELSE held[window[c]][d][c]
  BY <1>1, ScriptHolds
<1>4. /\ Reservation(c)' = Reservation(c) /\ ReportedUsage(c)' = ReportedUsage(c)
      /\ \A d \in Dims : Reservation(c)[d] \in Nat
      /\ window[c] \in Days /\ Days \subseteq Nat
  BY <1>1, ReservationType DEF Reservation, ReportedUsage, Amounts, TypeInv, TypeOK, Days
<1>5. input'[c] \in Inputs /\ pc'[c] # "settling" /\ pc'[c] # "idle"
  BY <1>1, <1>2 DEF PlaceInv, AtStore, Cut
<1>6. CASE pc[c] = "reserving"
  <2>1. \A w \in Days, d \in Dims : held[w][d][c] = 0
    BY <1>6 DEF PlaceInv, HoldsNothing
  <2>2. CASE Granted(c)
    <3>1. \A w \in Days, d \in Dims :
            held'[w][d][c] = IF w = window'[c] THEN Reservation(c)'[d] ELSE 0
      BY <1>1, <1>3, <1>4, <1>6, <2>1, <2>2
    <3>2. pc'[c] \in Cut \cup {"calling"} /\ window'[c] <= window'[c] /\ window'[c] \in Days
      BY <1>1, <1>2, <1>4, <1>6, <2>2
    <3> QED BY <1>5, <1>6, <3>1, <3>2 DEF PlaceInv, HoldsIn, Holding, AtStore, Cut
  <2>3. CASE ~ Granted(c)
    <3>1. \A w \in Days, d \in Dims : held'[w][d][c] = 0
      BY <1>3, <1>6, <2>1, <2>3
    <3>2. pc'[c] \in Cut \cup {"refused"}
      BY <1>1, <1>2, <1>6, <2>3
    <3> QED BY <1>5, <1>6, <3>1, <3>2 DEF PlaceInv, HoldsNothing, Holding, AtStore, Cut
  <2> QED BY <2>2, <2>3
<1>7. CASE pc[c] # "reserving"
  <2>1. PICK v \in Days : v <= window[c] /\ HoldsIn(c, v)
    BY <1>1, <1>7 DEF PlaceInv, Holding, AtStore
  <2>2. pc'[c] \in Cut \cup {"settled", "released"}
    BY <1>1, <1>2, <1>7 DEF AtStore
  <2>3. CASE v = window[c]
    <3>1. \A w \in Days, d \in Dims : held'[w][d][c] = 0
      BY <1>3, <1>4, <1>7, <2>1, <2>3 DEF HoldsIn, Less
    <3>2. Holds(c, window[c])
      BY <1>4, <2>1, <2>3 DEF HoldsIn, Holds
    <3> QED BY <1>5, <2>2, <3>1, <3>2 DEF PlaceInv, HoldsNothing, Holding, AtStore, Cut
  <2>4. CASE v # window[c]
    <3>1. \A w \in Days, d \in Dims :
            held'[w][d][c] = IF w = v THEN Reservation(c)'[d] ELSE 0
      BY <1>3, <1>4, <1>7, <2>1, <2>4 DEF HoldsIn, Less
    <3>2. v < window'[c] /\ v <= window'[c]
      BY <1>1, <1>4, <2>1, <2>4
    <3>3. PlaceInv(c)'
      BY <1>5, <2>2, <3>1, <3>2 DEF PlaceInv, HoldsIn, Holding, AtStore, Cut
    <3>4. CrossedInto(window[c])'
      BY <1>1, <2>2, <3>1, <3>2 DEF CrossedInto, HoldsIn
    <3> QED BY <3>3, <3>4
  <2> QED BY <2>3, <2>4
<1> QED BY <1>6, <1>7

\* A call that has closed in another window stays as it is: it has ended.
LEMMA CrossedStays ==
  ASSUME NEW w, CrossedInto(w),
         \A c \in Calls : pc[c] \in {"settled", "released"} \cup Cut =>
            /\ pc'[c] = pc[c] /\ window'[c] = window[c] /\ input'[c] = input[c]
            /\ \A v \in Days, d \in Dims : held'[v][d][c] = held[v][d][c]
  PROVE  CrossedInto(w)'
<1>1. PICK c \in Calls, v \in Days :
        /\ pc[c] \in {"settled", "released"} \cup Cut
        /\ window[c] = w /\ v < w
        /\ HoldsIn(c, v)
  BY DEF CrossedInto
<1>2. HoldsIn(c, v)'
  BY <1>1, HoldsSame
<1> QED BY <1>1, <1>2 DEF CrossedInto

\* Every step keeps what the calls hold in its place.
LEMMA StepAccountInv == AccountInv /\ [Next]_vars => AccountInv'
<1> SUFFICES ASSUME AccountInv, [Next]_vars, ~ Resent'
             PROVE  (\A c \in Calls : PlaceInv(c)') /\ \A w \in foreign' : CrossedInto(w)'
  BY StepChargingInv DEF AccountInv, HeldInv
<1>1. TypeInv /\ ResendInv
  BY DEF AccountInv, ChargingInv, BookInv
<1>2. ~ Resent /\ (\A c \in Calls : PlaceInv(c)) /\ \A w \in foreign : CrossedInto(w)
  BY <1>1, CallShape DEF AccountInv, HeldInv
<1>3. CASE UNCHANGED <<held, foreign>> /\ \A c \in Calls : Quiet(c)
  <2>1. \A c \in Calls : PlaceInv(c)'
    BY <1>1, <1>2, <1>3, QuietKeepsPlace
  <2>2. ASSUME NEW c \in Calls, pc[c] \in {"settled", "released"} \cup Cut
        PROVE  pc'[c] = pc[c] /\ window'[c] = window[c] /\ input'[c] = input[c]
    BY <1>3, <2>2 DEF Quiet, ReadsClock, Goes, Cut, Holding, Ended
  <2>3. \A w \in foreign' : CrossedInto(w)'
    BY <1>2, <1>3, <2>2, CrossedStays
  <2> QED BY <2>1, <2>3
<1>4. ASSUME NEW c \in Calls, RunsOnce(c)
      PROVE  (\A x \in Calls : PlaceInv(x)') /\ \A w \in foreign' : CrossedInto(w)'
  <2>1. /\ PlaceInv(c)'
        /\ pc[c] # "reserving" /\ ~ Holds(c, window[c]) => CrossedInto(window[c])'
    BY <1>1, <1>2, <1>4, ScriptKeepsPlace
  <2>2. /\ \A w \in Days, d \in Dims, x \in Calls \ {c} : held'[w][d][x] = held[w][d][x]
        /\ foreign' = IF pc[c] # "reserving" /\ ~ Holds(c, window[c])
                      THEN foreign \cup {window[c]} ELSE foreign
    BY <1>1, <1>4, ScriptHolds DEF RunsOnce
  <2>3. /\ pc[c] \in AtStore /\ UNCHANGED <<input, actual, window>>
        /\ \A x \in Calls \ {c} : pc'[x] = pc[x]
    BY <1>1, <1>4, AfterScript DEF RunsOnce
  <2>4. ASSUME NEW x \in Calls \ {c} PROVE PlaceInv(x)'
    BY <1>2, <2>2, <2>3, HoldsSame DEF PlaceInv, HoldsNothing, HoldsIn
  <2>5. \A w \in foreign : CrossedInto(w)'
    BY <1>2, <2>2, <2>3, CrossedStays DEF Cut, AtStore
  <2>6. \A w \in foreign' : CrossedInto(w)'
    <3>1. CASE pc[c] # "reserving" /\ ~ Holds(c, window[c])
      <4>1. CrossedInto(window[c])' /\ foreign' = foreign \cup {window[c]}
        BY <2>1, <2>2, <3>1
      <4>2. ASSUME NEW w, w = window[c] PROVE CrossedInto(w)'
        BY <2>3, <4>1, <4>2 DEF CrossedInto
      <4> QED BY <2>5, <4>1, <4>2
    <3>2. CASE ~ (pc[c] # "reserving" /\ ~ Holds(c, window[c]))
      BY <2>2, <2>5, <3>2
    <3> QED BY <3>1, <3>2
  <2> QED BY <2>1, <2>4, <2>6
<1> QED BY <1>1, <1>3, <1>4, CallShape

\* What the calls hold is in its place in every reachable state.
LEMMA SpecAccountInv == Spec => []AccountInv
BY InitAccountInv, StepAccountInv, PTL DEF Spec

\* What is left behind by calls that have settled or released was left in an
\* earlier window than the one they closed in: a call that has closed in the
\* window of its reservation holds nothing, in any window and of any amount.
\* The exception is midnight, as the run midnight_flaw shows.
THEOREM StrandedOnlyByMidnight ==
  Spec => [](~ Resent => \A c \in Calls, w \in Days :
                /\ pc[c] = "refused" => Of(held[w], c) = Zero
                /\ pc[c] \in {"settled", "released"} /\ Of(held[w], c) # Zero =>
                     w < window[c] /\ Of(held[w], c) = Reservation(c))
<1>1. ASSUME AccountInv, ~ Resent, NEW c \in Calls, NEW w \in Days
      PROVE  /\ pc[c] = "refused" => Of(held[w], c) = Zero
             /\ pc[c] \in {"settled", "released"} /\ Of(held[w], c) # Zero =>
                  w < window[c] /\ Of(held[w], c) = Reservation(c)
  <2>1. PlaceInv(c)
    BY <1>1 DEF AccountInv, HeldInv
  <2>2. HoldsNothing(c) => Of(held[w], c) = Zero
    BY DEF HoldsNothing, Of, Zero
  <2>3. ASSUME NEW v \in Days, HoldsIn(c, v)
        PROVE  Of(held[w], c) = IF w = v THEN Reservation(c) ELSE Zero
    <3>1. Reservation(c) = [d \in Dims |-> Reservation(c)[d]]
      BY <1>1, ReservationType DEF Amounts, AccountInv, ChargingInv, BookInv, TypeInv
    <3> QED BY <2>3, <3>1 DEF HoldsIn, Of, Zero
  <2> QED BY <2>1, <2>2, <2>3 DEF PlaceInv
<1>2. AccountInv => (~ Resent => \A c \in Calls, w \in Days :
                /\ pc[c] = "refused" => Of(held[w], c) = Zero
                /\ pc[c] \in {"settled", "released"} /\ Of(held[w], c) # Zero =>
                     w < window[c] /\ Of(held[w], c) = Reservation(c))
  BY <1>1
<1> QED BY <1>2, SpecAccountInv, PTL

\* A window is disturbed, so that its reserved keys count less than its calls
\* hold, only by a call that has a reservation in an earlier window and has
\* closed it here; it is still held there.
THEOREM DisturbedOnlyByMidnight ==
  Spec => [](~ Resent => \A w \in foreign : CrossedInto(w))
<1>1. AccountInv => (~ Resent => \A w \in foreign : CrossedInto(w))
  BY DEF AccountInv, HeldInv
<1> QED BY <1>1, SpecAccountInv, PTL

\* On a day into which no call has crossed the four counters are exact and the
\* daily quota is kept: these two need nothing else than that.
THEOREM ExactUnlessCrossed ==
  Spec => [](~ Resent /\ ~ CrossedInto(day) =>
               \A d \in Dims :
                 /\ used[day][d] = Total(charged[day][d])
                 /\ reserved[day][d] = Total(held[day][d])
                 /\ Enforced(Limit, d) =>
                      used[day][d] + reserved[day][d] <= Limit[d] + Overrun(day, d))
<1>1. AccountInv /\ CountersExact /\ DailyQuota =>
        (~ Resent /\ ~ CrossedInto(day) =>
               \A d \in Dims :
                 /\ used[day][d] = Total(charged[day][d])
                 /\ reserved[day][d] = Total(held[day][d])
                 /\ Enforced(Limit, d) =>
                      used[day][d] + reserved[day][d] <= Limit[d] + Overrun(day, d))
  BY DEF AccountInv, HeldInv, CountersExact, DailyQuota
<1> QED BY <1>1, SpecAccountInv, CountersAreExact, QuotaIsKept, PTL
-----------------------------------------------------------------------------
(* The refinement: what a window's books show of a step. *)

\* The account of each call in window w.
HeldIn(w) == [c \in Calls |-> Of(held[w], c)]
ChargedIn(w) == [c \in Calls |-> Of(charged[w], c)]

\* Every reservation is of something: Charge and Drop of the ledger close a
\* hold that is not nothing.
SomethingReserved == \A i \in Inputs : i + MaxOutputTokens > 0

\* A call gets its reservation, for which the window has room.
Admits(w, c) ==
    /\ HeldIn(w)[c] = Zero /\ ChargedIn(w)[c] = Zero
    /\ input[c] \in Inputs
    /\ \A d \in Dims : Enforced(Limit, d) =>
         Total(charged[w][d]) + Total(held[w][d]) + Reservation(c)[d] <= Limit[d]
    /\ HeldIn(w)' = [HeldIn(w) EXCEPT ![c] = Reservation(c)]
    /\ ChargedIn(w)' = ChargedIn(w)

\* A call gives up its reservation, charged or not.
Closes(w, c) ==
    /\ HeldIn(w)[c] # Zero
    /\ HeldIn(w)' = [HeldIn(w) EXCEPT ![c] = Zero]
    /\ \/ ChargedIn(w)' = ChargedIn(w)
       \/ \E a \in AllReports : ChargedIn(w)' = [ChargedIn(w) EXCEPT ![c] = a]

\* Until a window is over or disturbed, its books show nothing else.
LEMMA WindowStep ==
  ASSUME SomethingReserved, AccountInv, [Next]_vars, ~ Resent',
         NEW w \in Days, day <= w, w \notin foreign'
  PROVE  \/ HeldIn(w)' = HeldIn(w) /\ ChargedIn(w)' = ChargedIn(w)
         \/ \E c \in Calls : Admits(w, c) \/ Closes(w, c)
<1>1. TypeInv /\ ResendInv /\ ExactInv /\ ChargeInv
  BY DEF AccountInv, ChargingInv, BookInv
<1>2. ~ Resent /\ \A c \in Calls : PlaceInv(c)
  BY <1>1, CallShape DEF AccountInv, HeldInv
<1>3. CASE UNCHANGED <<held, charged>>
  BY <1>3 DEF HeldIn, ChargedIn
<1>4. ASSUME NEW c \in Calls, RunsOnce(c)
      PROVE  \/ HeldIn(w)' = HeldIn(w) /\ ChargedIn(w)' = ChargedIn(w)
             \/ Admits(w, c) \/ Closes(w, c)
  <2>1. /\ pc[c] \in AtStore /\ RunScript(c) /\ input[c] \in Inputs
        /\ UNCHANGED <<input, window>>
    BY <1>1, <1>2, <1>4, AfterScript DEF RunsOnce, PlaceInv, AtStore
  <2>2. /\ \A v \in Days, d \in Dims, x \in Calls :
             x # c \/ v # window[c] => held'[v][d][x] = held[v][d][x]
        /\ \A d \in Dims :
             held'[window[c]][d][c] =
               IF pc[c] # "reserving" THEN Less(held[window[c]][d][c], Reservation(c)[d])
               ELSE IF Granted(c) THEN held[window[c]][d][c] + Reservation(c)[d]
               ELSE held[window[c]][d][c]
        /\ foreign' = IF pc[c] # "reserving" /\ ~ Holds(c, window[c])
                      THEN foreign \cup {window[c]} ELSE foreign
    BY <1>1, <2>1, ScriptHolds
  <2>3. /\ \A v \in Days, d \in Dims, x \in Calls :
             x # c \/ pc[c] # "settling" \/ v # window[c] =>
               charged'[v][d][x] = charged[v][d][x]
        /\ pc[c] = "settling" => \A d \in Dims :
             charged'[window[c]][d][c] = charged[window[c]][d][c] + actual[c][d]
    BY <1>1, <2>1, ScriptCharges DEF TypeInv, TypeOK
  <2>4. \A d \in Dims : charged[w][d][c] = 0
    BY <1>1, <1>2, <2>1 DEF ChargeInv, AtStore, Cut
  <2>5. Reservation(c) \in Amounts /\ Reservation(c) # Zero
    <3>1. Reservation(c)["tokens"] = input[c] + MaxOutputTokens /\ Zero["tokens"] = 0
      BY DEF Reservation, Amount, Dims, Zero
    <3>2. Reservation(c)["tokens"] > 0
      BY <2>1, <3>1 DEF SomethingReserved
    <3> QED BY <1>1, <3>1, <3>2, ReservationType DEF TypeInv
  <2>6. /\ Reservation(c) = [d \in Dims |-> Reservation(c)[d]]
        /\ \A d \in Dims : Reservation(c)[d] \in Nat
    BY <2>5 DEF Amounts
  <2>7. CASE w # window[c]
    <3>1. \A x \in Calls : Of(held[w], x)' = Of(held[w], x) /\ Of(charged[w], x)' = Of(charged[w], x)
      BY <2>2, <2>3, <2>7 DEF Of
    <3> QED BY <3>1 DEF HeldIn, ChargedIn
  <2>8. \A x \in Calls \ {c} : HeldIn(w)'[x] = HeldIn(w)[x] /\ ChargedIn(w)'[x] = ChargedIn(w)[x]
    BY <2>2, <2>3 DEF HeldIn, ChargedIn, Of
  <2>9. CASE w = window[c] /\ pc[c] = "reserving"
    <3>1. \A d \in Dims : held[w][d][c] = 0
      BY <1>2, <2>9 DEF PlaceInv, HoldsNothing
    <3>2. ChargedIn(w)' = ChargedIn(w)
      BY <2>3, <2>9 DEF ChargedIn, Of
    <3>3. HeldIn(w)[c] = Zero /\ ChargedIn(w)[c] = Zero
      BY <2>4, <3>1 DEF HeldIn, ChargedIn, Of, Zero
    <3>4. CASE Granted(c)
      <4>1. \A d \in Dims : held'[w][d][c] = Reservation(c)[d]
        BY <2>2, <2>6, <2>9, <3>1, <3>4
      <4>2. HeldIn(w)'[c] = Reservation(c)
        BY <2>6, <4>1 DEF HeldIn, Of
      <4>3. HeldIn(w)' = [HeldIn(w) EXCEPT ![c] = Reservation(c)]
        BY <2>8, <4>2 DEF HeldIn
      <4>4. \A d \in Dims : /\ used[w][d] = Total(charged[w][d])
                            /\ reserved[w][d] = Total(held[w][d])
        <5>1. w >= day /\ w \notin foreign
          BY <1>1, <2>2 DEF TypeInv, TypeOK, Days
        <5> QED BY <1>1, <5>1 DEF ExactInv
      <4>5. \A d \in Dims : Enforced(Limit, d) =>
              Total(charged[w][d]) + Total(held[w][d]) + Reservation(c)[d] <= Limit[d]
        BY <2>9, <3>4, <4>4 DEF Granted, Fits
      <4> QED BY <2>1, <3>2, <3>3, <4>3, <4>5 DEF Admits
    <3>5. CASE ~ Granted(c)
      <4>1. \A x \in Calls : Of(held[w], x)' = Of(held[w], x)
        BY <2>2, <2>9, <3>5 DEF Of
      <4> QED BY <3>2, <4>1 DEF HeldIn
    <3> QED BY <3>4, <3>5
  <2>10. CASE w = window[c] /\ pc[c] # "reserving"
    <3>1. Holds(c, w)
      BY <2>2, <2>10
    <3>2. PICK v \in Days : HoldsIn(c, v)
      BY <1>2, <2>1, <2>10 DEF PlaceInv, AtStore, Holding
    <3>3. v = w
      <4> SUFFICES ASSUME v # w PROVE FALSE
        OBVIOUS
      <4>1. \A d \in Dims : 0 >= Reservation(c)[d]
        BY <3>1, <3>2 DEF HoldsIn, Holds
      <4>2. \A d \in Dims : Reservation(c)[d] = 0
        BY <2>6, <4>1
      <4> QED BY <2>5, <2>6, <4>2 DEF Zero
    <3>4. \A d \in Dims : held[w][d][c] = Reservation(c)[d] /\ held'[w][d][c] = 0
      BY <2>2, <2>6, <2>10, <3>2, <3>3 DEF HoldsIn, Less
    <3>5. HeldIn(w)[c] # Zero /\ HeldIn(w)'[c] = Zero
      BY <2>5, <2>6, <3>4 DEF HeldIn, Of, Zero
    <3>6. HeldIn(w)' = [HeldIn(w) EXCEPT ![c] = Zero]
      BY <2>8, <3>5 DEF HeldIn
    <3>7. CASE pc[c] # "settling"
      <4>1. ChargedIn(w)' = ChargedIn(w)
        BY <2>3, <3>7 DEF ChargedIn, Of
      <4> QED BY <3>5, <3>6, <4>1 DEF Closes
    <3>8. CASE pc[c] = "settling"
      <4>1. actual[c] \in Amounts /\ actual[c] \in AllReports
        BY <1>1, <1>2, <2>1, <3>8 DEF TypeInv, TypeOK, PlaceInv, ReportedUsage, AllReports
      <4>2. \A d \in Dims : charged'[w][d][c] = actual[c][d]
        BY <2>3, <2>4, <2>10, <3>8, <4>1 DEF Amounts
      <4>3. ChargedIn(w)'[c] = actual[c]
        BY <4>1, <4>2 DEF ChargedIn, Of, Amounts
      <4>4. ChargedIn(w)' = [ChargedIn(w) EXCEPT ![c] = actual[c]]
        BY <2>8, <4>3 DEF ChargedIn
      <4> QED BY <3>5, <3>6, <4>1, <4>4 DEF Closes
    <3> QED BY <3>7, <3>8
  <2> QED BY <2>7, <2>9, <2>10
<1> QED BY <1>1, <1>3, <1>4, CallShape
-----------------------------------------------------------------------------
(* The refinement: the ledger of a day. *)

\* A day, and its ledger.
CONSTANT Today

TodaysLedger == INSTANCE UsageLedger WITH
    DayLimit <- Limit,
    Requests <- { Amount(i, MaxOutputTokens) : i \in Inputs },
    Bills <- AllReports,
    holds <- HeldIn(Today),
    bill <- ChargedIn(Today)

\* The cost limit is off only when it is 0.
LEMMA LimitsEnforced == \A d \in Dims : d = "tokens" \/ Limit[d] # 0 => Enforced(Limit, d)
<1>1. Limit["cost"] \in Nat
  BY NumbersAssumption DEF Limit, Dims
<1> QED BY <1>1 DEF Enforced, Dims

\* The sums of the books, from the accounts of the calls.
LEMMA BookSums ==
  ASSUME TypeInv, NEW w \in Days, NEW d \in Dims
  PROVE  /\ [c \in Calls |-> HeldIn(w)[c][d]] = held[w][d]
         /\ [c \in Calls |-> ChargedIn(w)[c][d]] = charged[w][d]
<1>1. held[w][d] \in [Calls -> Nat] /\ charged[w][d] \in [Calls -> Nat]
  BY EntryType DEF TypeInv, TypeOK
<1> QED BY <1>1 DEF HeldIn, ChargedIn, Of

\* What is in the books is, for the ledger, the sum of its accounts.
LEMMA TodaysSums ==
  ASSUME TypeInv, Today \in Days, NEW d \in Dims
  PROVE  /\ TodaysLedger!SumOf(HeldIn(Today))[d] = Total(held[Today][d])
         /\ TodaysLedger!SumOf(ChargedIn(Today))[d] = Total(charged[Today][d])
<1>1. \A f : TodaysLedger!Total(f) = Total(f)
  <2>1. \A S : TodaysLedger!Cardinality(S) = Cardinality(S)
    BY DEF TodaysLedger!Cardinality, Cardinality
  <2>2. \A f : TodaysLedger!Units(f) = Units(f)
    BY DEF TodaysLedger!Units, Units
  <2> QED BY <2>1, <2>2 DEF TodaysLedger!Total, Total
<1>2. /\ [c \in Calls |-> HeldIn(Today)[c][d]] = held[Today][d]
      /\ [c \in Calls |-> ChargedIn(Today)[c][d]] = charged[Today][d]
  BY BookSums
<1> QED BY <1>1, <1>2 DEF TodaysLedger!SumOf, TodaysLedger!Dims, Dims

\* A step whose books admit or close is a step of the ledger.
LEMMA TodaysStep ==
  ASSUME TypeInv, Today \in Days, NEW c \in Calls, Admits(Today, c) \/ Closes(Today, c)
  PROVE  TodaysLedger!LedgerNext
<1>1. TodaysLedger!Zero = Zero
  BY DEF TodaysLedger!Zero, Zero, TodaysLedger!Dims, Dims
<1>2. CASE Admits(Today, c)
  <2>1. Reservation(c) \in { Amount(i, MaxOutputTokens) : i \in Inputs }
    BY <1>2 DEF Admits, Reservation
  <2>2. TodaysLedger!HasRoom(Reservation(c))
    BY <1>2, LimitsEnforced, TodaysSums
       DEF Admits, TodaysLedger!HasRoom, TodaysLedger!Dims, Dims
  <2>3. TodaysLedger!Admit(c)
    BY <1>1, <1>2, <2>1, <2>2 DEF Admits, TodaysLedger!Admit
  <2> QED BY <2>3 DEF TodaysLedger!LedgerNext
<1>3. CASE Closes(Today, c)
  <2>1. TodaysLedger!Charge(c) \/ TodaysLedger!Drop(c)
    BY <1>1, <1>3 DEF Closes, TodaysLedger!Charge, TodaysLedger!Drop
  <2> QED BY <2>1 DEF TodaysLedger!LedgerNext
<1> QED BY <1>2, <1>3

\* Every day keeps a ledger until it is over or a call has crossed into it: its
\* four counters admit what the whole account would, and every admitted call is
\* charged at most once, whatever happens in the windows beside it.
THEOREM EveryDayRefinesLedger ==
  ASSUME Today \in Days, SomethingReserved
  PROVE  Spec => /\ TodaysLedger!LedgerInit
                 /\ [][day <= Today /\ Today \notin foreign' /\ ~ Resent' =>
                        [TodaysLedger!LedgerNext]_<<HeldIn(Today), ChargedIn(Today)>>]_vars
<1>1. Init => TodaysLedger!LedgerInit
  <2>1. TodaysLedger!Zero = Zero
    BY DEF TodaysLedger!Zero, Zero, TodaysLedger!Dims, Dims
  <2>2. Init => \A c \in Calls : Of(held[Today], c) = Zero /\ Of(charged[Today], c) = Zero
    BY DEF Init, Of, Zero
  <2> QED BY <2>1, <2>2 DEF TodaysLedger!LedgerInit, HeldIn, ChargedIn
<1>2. AccountInv /\ [Next]_vars =>
        [day <= Today /\ Today \notin foreign' /\ ~ Resent' =>
           [TodaysLedger!LedgerNext]_<<HeldIn(Today), ChargedIn(Today)>>]_vars
  <2> SUFFICES ASSUME AccountInv, [Next]_vars, day <= Today, Today \notin foreign', ~ Resent'
               PROVE  \/ TodaysLedger!LedgerNext
                      \/ HeldIn(Today)' = HeldIn(Today) /\ ChargedIn(Today)' = ChargedIn(Today)
    OBVIOUS
  <2>1. TypeInv
    BY DEF AccountInv, ChargingInv, BookInv
  <2> QED BY <2>1, WindowStep, TodaysStep
<1> QED BY <1>1, <1>2, SpecAccountInv, PTL DEF Spec
-----------------------------------------------------------------------------
(* The refinement: a single day, as the run one_day has it. *)

OneDay == LastDay = 1 /\ Faults["resend"] = 0

\* The only window is not disturbed, and nothing is sent twice.
LEMMA TheDay ==
  ASSUME OneDay, AccountInv
  PROVE  Days = {1} /\ day = 1 /\ ~ Resent /\ foreign = {}
<1>1. Days = {1}
  BY DEF OneDay, Days
<1>2. TypeInv /\ ResendInv
  BY DEF AccountInv, ChargingInv, BookInv
<1>3. ~ Resent
  BY <1>2 DEF OneDay, ResendInv, Resent
<1>4. \A w : ~ CrossedInto(w)
  BY <1>1, <1>2 DEF CrossedInto, TypeInv, TypeOK
<1> QED BY <1>1, <1>2, <1>3, <1>4 DEF AccountInv, HeldInv, TypeInv, TypeOK

\* On one day, with nothing sent twice, a call that settled, released or was
\* refused holds nothing, whatever the calls beside it do.
THEOREM NothingStaysHeld ==
  ASSUME OneDay PROVE Spec => []NothingHeldAfterClosing
<1>1. AccountInv => NothingHeldAfterClosing
  <2> SUFFICES ASSUME AccountInv, NEW c \in Calls, pc[c] \in {"settled", "released", "refused"}
               PROVE  HoldsNothing(c)
    BY DEF NothingHeldAfterClosing, HoldsNothing, Of, Zero
  <2>1. window[c] = 1 /\ Days = {1} /\ PlaceInv(c)
    BY TheDay DEF AccountInv, HeldInv, ChargingInv, BookInv, TypeInv, TypeOK
  <2> QED BY <2>1 DEF PlaceInv
<1> QED BY <1>1, SpecAccountInv, PTL

\* The lifecycle begins as the ledger does.
LEMMA InitRefines == OneDay /\ Init => Ledger!LedgerInit
<1> SUFFICES ASSUME OneDay, Init PROVE Ledger!LedgerInit
  OBVIOUS
<1>1. 1 \in Days /\ day = 1
  BY DEF OneDay, Days, Init
<1>2. \A c \in Calls : Of(held[1], c) = Zero /\ Of(charged[1], c) = Zero
  BY <1>1 DEF Init, Of, Zero
<1>3. Ledger!Zero = Zero
  BY DEF Ledger!Zero, Zero, Ledger!Dims, Dims
<1> QED BY <1>1, <1>2, <1>3 DEF Ledger!LedgerInit

\* A step whose books admit or close is a step of the ledger.
LEMMA DaysStep ==
  ASSUME TypeInv, day \in Days, day' = day, NEW c \in Calls, Admits(day, c) \/ Closes(day, c)
  PROVE  Ledger!LedgerNext
<1>1. Ledger!Zero = Zero
  BY DEF Ledger!Zero, Zero, Ledger!Dims, Dims
<1>2. \A d \in Dims :
        /\ Ledger!SumOf(HeldIn(day))[d] = Total(held[day][d])
        /\ Ledger!SumOf(ChargedIn(day))[d] = Total(charged[day][d])
  <2>1. \A f : Ledger!Total(f) = Total(f)
    <3>1. \A S : Ledger!Cardinality(S) = Cardinality(S)
      BY DEF Ledger!Cardinality, Cardinality
    <3>2. \A f : Ledger!Units(f) = Units(f)
      BY DEF Ledger!Units, Units
    <3> QED BY <3>1, <3>2 DEF Ledger!Total, Total
  <2> QED BY <2>1, BookSums DEF Ledger!SumOf, Ledger!Dims, Dims
<1>3. CASE Admits(day, c)
  <2>1. Reservation(c) \in { Amount(i, MaxOutputTokens) : i \in Inputs }
    BY <1>3 DEF Admits, Reservation
  <2>2. Ledger!HasRoom(Reservation(c))
    BY <1>2, <1>3, LimitsEnforced DEF Admits, Ledger!HasRoom, Ledger!Dims, Dims, HeldIn, ChargedIn
  <2>3. Ledger!Admit(c)
    BY <1>1, <1>3, <2>1, <2>2 DEF Admits, Ledger!Admit, HeldIn, ChargedIn
  <2> QED BY <2>3 DEF Ledger!LedgerNext
<1>4. CASE Closes(day, c)
  <2>1. Ledger!Charge(c) \/ Ledger!Drop(c)
    BY <1>1, <1>4 DEF Closes, Ledger!Charge, Ledger!Drop, HeldIn, ChargedIn
  <2> QED BY <2>1 DEF Ledger!LedgerNext
<1> QED BY <1>3, <1>4

\* On one day, with nothing sent twice, the lifecycle implements the ledger.
THEOREM LifecycleRefinesLedger ==
  ASSUME OneDay, SomethingReserved PROVE Spec => ImplementsLedger
<1>1. Init => Ledger!LedgerInit
  BY InitRefines
<1>2. AccountInv /\ AccountInv' /\ [Next]_vars =>
        [Ledger!LedgerNext]_<<[c \in Calls |-> Of(held[day], c)],
                              [c \in Calls |-> Of(charged[day], c)]>>
  <2> SUFFICES ASSUME AccountInv, AccountInv', [Next]_vars
               PROVE  [Ledger!LedgerNext]_<<[c \in Calls |-> Of(held[day], c)],
                                            [c \in Calls |-> Of(charged[day], c)]>>
    OBVIOUS
  <2>1. TypeInv /\ Days = {1} /\ day = 1 /\ day' = 1 /\ ~ Resent' /\ foreign' = {}
    BY TheDay DEF AccountInv, ChargingInv, BookInv, OneDay, TypeInv, TypeOK, Days, HeldInv,
                  ResendInv, Resent, CrossedInto
  <2>2. \/ HeldIn(1)' = HeldIn(1) /\ ChargedIn(1)' = ChargedIn(1)
        \/ \E c \in Calls : Admits(1, c) \/ Closes(1, c)
    BY <2>1, WindowStep
  <2>3. ASSUME NEW c \in Calls, Admits(1, c) \/ Closes(1, c) PROVE Ledger!LedgerNext
    BY <2>1, <2>3, DaysStep DEF Admits, Closes, HeldIn, ChargedIn
  <2> QED BY <2>1, <2>2, <2>3 DEF HeldIn, ChargedIn
<1> QED BY <1>1, <1>2, SpecAccountInv, PTL DEF Spec, ImplementsLedger, Ledger!LedgerSpec, Ledger!ledgerVars
-----------------------------------------------------------------------------
(* What EVALs that are sent twice cost. *)

\* How many were.
Sent == Faults["resend"] - faults["resend"]

\* A call holds k reservations in one window, and was charged k times in the
\* window of its clock.
HoldsTimes(c, v, k) ==
    \A w \in Days, d \in Dims : held[w][d][c] = IF w = v THEN k * Reservation(c)[d] ELSE 0

ChargedTimes(c, k) ==
    \A w \in Days, d \in Dims : charged[w][d][c] = IF w = window[c] THEN k * actual[c][d] ELSE 0

\* Until a call has its reply, what was sent once more is all that has run.
HoldsInv(c) ==
    \E v \in Days, k \in 0 .. (Sent + 1) :
        /\ v <= window[c] /\ HoldsTimes(c, v, k)
        /\ pc[c] = "idle" => k = 0
        /\ pc[c] = "reserving" => v = window[c]
        /\ pc[c] \in {"reserving", "refused"} => k <= Sent

ChargesInv(c) ==
    \E k \in 0 .. (Sent + 1) :
        /\ ChargedTimes(c, k)
        /\ pc[c] \notin {"settling", "settled"} \cup Cut => k = 0
        /\ pc[c] = "settling" => k <= Sent

SentInv == TypeInv /\ ResendInv /\ \A c \in Calls : HoldsInv(c) /\ ChargesInv(c)

\* No fewer than none were.
LEMMA SentType == ResendInv => Sent \in Nat
<1>1. Faults["resend"] \in Nat
  BY BoundsAssumption DEF FaultSorts
<1> QED BY <1>1 DEF ResendInv, Sent

\* One more, and one less, of the same amount.
LEMMA Multiples ==
  ASSUME NEW k \in Nat, NEW a \in Nat
  PROVE  /\ k * a \in Nat
         /\ k * a + a = (k + 1) * a
         /\ Less(k * a, a) = (IF k = 0 THEN 0 ELSE k - 1) * a
         /\ Less(0, a) = 0
<1>1. k * a \in Nat /\ k * a + a = (k + 1) * a
  OBVIOUS
<1>2. CASE k = 0
  BY <1>2 DEF Less
<1>3. CASE k # 0
  <2>1. PICK j \in Nat : k = j + 1
    <3>1. k - 1 \in Nat /\ k = (k - 1) + 1
      BY <1>3
    <3> QED BY <3>1
  <2>2. j * a \in Nat /\ k * a = j * a + a
    BY <2>1
  <2>3. Less(k * a, a) = j * a
    BY <2>2 DEF Less
  <2>4. Less(0, a) = 0
    BY DEF Less
  <2> QED BY <1>1, <1>3, <2>1, <2>3, <2>4
<1> QED BY <1>1, <1>2, <1>3

\* Every step: a script of one call whose reply comes, the same with its reply
\* lost, or a quiet step.
LEMMA SendShape ==
  ASSUME TypeInv, ResendInv, [Next]_vars
  PROVE  \/ Sent' = Sent /\ \E c \in Calls : RunsOnce(c)
         \/ /\ Sent' = Sent + 1
            /\ \E c \in Calls : RunScript(c) /\ UNCHANGED <<day, callVars>>
         \/ /\ Sent' = Sent
            /\ UNCHANGED <<held, charged>>
            /\ \A c \in Calls : Quiet(c)
<1> USE DEF ResendInv, Sent, storeVars
<1>0. Faults["resend"] \in Nat
  BY BoundsAssumption DEF FaultSorts
<1>1. CASE UNCHANGED vars
  BY <1>1 DEF vars, callVars, Quiet, ReadsClock, Goes
<1>2. CASE \E c \in Calls : Work(c)
  BY <1>2, WorkShape
<1>3. ASSUME NEW c \in Calls, Fault(c)
      PROVE  \/ Sent' = Sent /\ RunsOnce(c)
             \/ Sent' = Sent + 1 /\ RunScript(c) /\ UNCHANGED <<day, callVars>>
             \/ /\ Sent' = Sent
                /\ UNCHANGED <<held, charged>>
                /\ \A x \in Calls : Quiet(x)
  <2>1. CASE Resend(c) /\ faults'["resend"] = faults["resend"] - 1
    BY <1>0, <2>1 DEF Resend
  <2>2. CASE faults'["resend"] = faults["resend"]
    BY <1>3, <2>2, FaultShape
  <2> QED BY <1>3, <2>1, <2>2, FaultShape
<1>4. CASE Midnight
  BY <1>4 DEF Midnight, callVars, Quiet, ReadsClock, Goes
<1>5. CASE \E w \in Days : Expire(w)
  BY <1>5 DEF Expire, callVars, Quiet, ReadsClock, Goes
<1>6. CASE AllEnded
  BY <1>1, <1>6 DEF AllEnded
<1> QED BY <1>1, <1>2, <1>3, <1>4, <1>5, <1>6 DEF Next

\* What a call holds, in numbers of its reservation, stays with it.
LEMMA TimesStay ==
  ASSUME NEW c \in Calls, input'[c] = input[c],
         \A w \in Days, d \in Dims : held'[w][d][c] = held[w][d][c]
  PROVE  \A v \in Days, k \in Nat : HoldsTimes(c, v, k)' <=> HoldsTimes(c, v, k)
BY DEF Reservation, HoldsTimes

\* Numbers of nothing are nothing, whatever the amount is.
LEMMA NothingTimes ==
  ASSUME TypeInv, NEW c \in Calls
  PROVE  /\ \A v \in Days : HoldsTimes(c, v, 0) <=> HoldsNothing(c)
         /\ ChargedTimes(c, 0) <=> \A w \in Days, d \in Dims : charged[w][d][c] = 0
<1>1. \A d \in Dims : Reservation(c)[d] \in Nat /\ actual[c][d] \in Nat
  BY ReservationType DEF TypeInv, TypeOK, Amounts
<1>2. \A d \in Dims : 0 * Reservation(c)[d] = 0 /\ 0 * actual[c][d] = 0
  <2>1. \A a \in Nat : 0 * a = 0
    OBVIOUS
  <2> QED BY <1>1, <2>1
<1> QED BY <1>2 DEF HoldsTimes, ChargedTimes, HoldsNothing

LEMMA NothingTimesNext ==
  ASSUME TypeInv', NEW c \in Calls
  PROVE  /\ \A v \in Days : HoldsTimes(c, v, 0)' <=> HoldsNothing(c)'
         /\ ChargedTimes(c, 0)' <=> \A w \in Days, d \in Dims : charged'[w][d][c] = 0
<1>1. \A d \in Dims : Reservation(c)'[d] \in Nat /\ actual'[c][d] \in Nat
  <2>1. input'[c] \in Nat
    BY NumbersAssumption DEF TypeInv, TypeOK
  <2>2. Reservation(c)' \in Amounts
    BY <2>1, AmountType, NumbersAssumption DEF Reservation
  <2> QED BY <2>2 DEF TypeInv, TypeOK, Amounts
<1>2. \A d \in Dims : 0 * Reservation(c)'[d] = 0 /\ 0 * actual'[c][d] = 0
  <2>1. \A a \in Nat : 0 * a = 0
    OBVIOUS
  <2> QED BY <1>1, <2>1
<1> QED BY <1>2 DEF HoldsTimes, ChargedTimes, HoldsNothing

\* A quiet step leaves a call with what it holds and was charged.
LEMMA QuietKeepsTimes ==
  ASSUME SentInv, TypeInv', Sent' = Sent, UNCHANGED <<held, charged>>,
         NEW c \in Calls, Quiet(c)
  PROVE  HoldsInv(c)' /\ ChargesInv(c)'
<1>0. /\ TypeInv /\ HoldsInv(c) /\ ChargesInv(c)
      /\ Sent \in Nat
      /\ window[c] \in Days /\ window[c] <= day /\ day \in Days /\ Days \subseteq Nat
  <2>1. TypeInv /\ HoldsInv(c) /\ ChargesInv(c) /\ Sent \in Nat
    BY SentType DEF SentInv
  <2>2. window[c] \in Days /\ window[c] <= day /\ day \in Days
    BY <2>1 DEF TypeInv, TypeOK, WindowInv
  <2>3. Days \subseteq Nat
    BY DEF Days
  <2> QED BY <2>1, <2>2, <2>3
<1>1. /\ window'[c] \in Days /\ window[c] <= window'[c]
      /\ pc'[c] = pc[c] => window'[c] = window[c]
      /\ pc'[c] \notin AtStore => window'[c] = window[c]
  BY <1>0 DEF Quiet, ReadsClock
<1>2. HoldsInv(c)'
  <2>1. PICK v \in Days, k \in 0 .. (Sent + 1) :
          /\ v <= window[c] /\ HoldsTimes(c, v, k)
          /\ pc[c] = "idle" => k = 0
          /\ pc[c] = "reserving" => v = window[c]
          /\ pc[c] \in {"reserving", "refused"} => k <= Sent
    BY <1>0 DEF HoldsInv
  <2>2. k \in Nat /\ v \in Nat /\ v <= window'[c]
    BY <1>0, <1>1, <2>1
  <2>3. CASE /\ input'[c] = input[c]
             /\ pc'[c] = pc[c] \/ pc'[c] \notin {"idle", "reserving", "refused"}
    <3>1. HoldsTimes(c, v, k)'
      BY <2>1, <2>2, <2>3, TimesStay
    <3> QED BY <1>0, <1>1, <2>1, <2>2, <2>3, <3>1 DEF HoldsInv
  <2>4. CASE pc[c] = "idle" /\ pc'[c] \in {"reserving", "refused"}
    <3>1. HoldsNothing(c)'
      BY <1>0, <2>1, <2>4, NothingTimes DEF HoldsNothing
    <3>2. PICK u \in Days : u = window'[c] /\ u <= window'[c]
      <4>1. PICK u \in Days : u = window'[c]
        BY <1>1
      <4>2. u <= u
        BY <1>0
      <4> QED BY <4>1, <4>2
    <3>3. HoldsTimes(c, u, 0)'
      BY <3>1, NothingTimesNext
    <3>4. 0 \in 0 .. (Sent' + 1) /\ 0 <= Sent'
      BY <1>0
    <3> QED BY <2>4, <3>2, <3>3, <3>4 DEF HoldsInv
  <2> QED BY <2>3, <2>4 DEF Quiet, Goes, Holding, Cut, AtStore
<1>3. ChargesInv(c)'
  <2>1. PICK k \in 0 .. (Sent + 1) :
          /\ ChargedTimes(c, k)
          /\ pc[c] \notin {"settling", "settled"} \cup Cut => k = 0
          /\ pc[c] = "settling" => k <= Sent
    BY <1>0 DEF ChargesInv
  <2>2. CASE pc'[c] = pc[c] /\ actual'[c] = actual[c]
    <3>1. ChargedTimes(c, k)'
      BY <1>1, <2>1, <2>2 DEF ChargedTimes
    <3> QED BY <2>1, <2>2, <3>1 DEF ChargesInv
  <2>3. CASE pc[c] \notin {"settling", "settled"} \cup Cut
    <3>1. \A w \in Days, d \in Dims : charged'[w][d][c] = 0
      BY <1>0, <2>1, <2>3, NothingTimes
    <3>2. ChargedTimes(c, 0)'
      BY <3>1, NothingTimesNext
    <3>3. 0 \in 0 .. (Sent' + 1) /\ 0 <= Sent'
      BY <1>0
    <3> QED BY <3>2, <3>3 DEF ChargesInv
  <2>4. CASE pc[c] = "settling" /\ pc'[c] \in Cut /\ actual'[c] = actual[c]
    <3>1. ChargedTimes(c, k)'
      BY <1>1, <2>1, <2>4 DEF ChargedTimes, Cut, AtStore
    <3> QED BY <2>1, <2>4, <3>1 DEF ChargesInv, Cut
  <2> QED BY <2>2, <2>3, <2>4 DEF Quiet, Goes, Holding, Cut, AtStore, Ended
<1> QED BY <1>2, <1>3

\* A script adds one reservation, takes one or leaves them, and adds one charge
\* or none, to its own call in the window of its clock.
LEMMA ScriptTimes ==
  ASSUME TypeInv, NEW c \in Calls, RunScript(c), UNCHANGED <<input, actual, window>>,
         NEW v \in Days, NEW k \in Nat, HoldsTimes(c, v, k), pc[c] = "reserving" => v = window[c],
         NEW j \in Nat, ChargedTimes(c, j)
  PROVE  /\ \E i \in Nat :
              /\ \A w \in Days, d \in Dims :
                   held'[w][d][c] = IF w = v THEN i * Reservation(c)[d] ELSE 0
              /\ i <= IF pc[c] = "reserving" /\ Granted(c) THEN k + 1 ELSE k
         /\ \A w \in Days, d \in Dims :
              charged'[w][d][c] =
                IF w = window[c]
                THEN (IF pc[c] = "settling" THEN j + 1 ELSE j) * actual[c][d]
                ELSE 0
<1>0. /\ window[c] \in Days
      /\ \A d \in Dims : Reservation(c)[d] \in Nat /\ actual[c][d] \in Nat
  BY ReservationType DEF TypeInv, TypeOK, Amounts
<1> DEFINE u == window[c]
<1>1. /\ \A w \in Days, d \in Dims : w # u => held'[w][d][c] = held[w][d][c]
      /\ \A d \in Dims :
           held'[u][d][c] = IF pc[c] # "reserving" THEN Less(held[u][d][c], Reservation(c)[d])
                            ELSE IF Granted(c) THEN held[u][d][c] + Reservation(c)[d]
                            ELSE held[u][d][c]
  BY ScriptHolds
<1>2. \A d \in Dims : /\ k * Reservation(c)[d] + Reservation(c)[d] = (k + 1) * Reservation(c)[d]
                      /\ Less(k * Reservation(c)[d], Reservation(c)[d])
                           = (IF k = 0 THEN 0 ELSE k - 1) * Reservation(c)[d]
                      /\ Less(0, Reservation(c)[d]) = 0
                      /\ j * actual[c][d] + actual[c][d] = (j + 1) * actual[c][d]
  BY <1>0, Multiples
<1> HIDE DEF u
<1>3. PICK n \in Nat :
        n = IF pc[c] = "reserving" THEN IF Granted(c) THEN k + 1 ELSE k
            ELSE IF v # u \/ k = 0 THEN k ELSE k - 1
  OBVIOUS
<1>4. ASSUME pc[c] = "reserving" /\ Granted(c)
      PROVE  \A w \in Days, d \in Dims :
               held'[w][d][c] = IF w = v THEN n * Reservation(c)[d] ELSE 0
  <2>1. v = u /\ \A d \in Dims : held'[v][d][c] = n * Reservation(c)[d]
    BY <1>0, <1>1, <1>2, <1>3, <1>4 DEF HoldsTimes, u
  <2>2. \A w \in Days, d \in Dims : w # v => held'[w][d][c] = 0
    BY <1>1, <2>1 DEF HoldsTimes
  <2> QED BY <2>1, <2>2
<1>5. ASSUME pc[c] = "reserving" /\ ~ Granted(c)
      PROVE  \A w \in Days, d \in Dims :
               held'[w][d][c] = IF w = v THEN n * Reservation(c)[d] ELSE 0
  <2>1. \A w \in Days, d \in Dims : held'[w][d][c] = held[w][d][c]
    BY <1>1, <1>5
  <2>2. \A d \in Dims : held'[v][d][c] = n * Reservation(c)[d]
    BY <1>3, <1>5, <2>1 DEF HoldsTimes
  <2>3. \A w \in Days, d \in Dims : w # v => held'[w][d][c] = 0
    BY <2>1 DEF HoldsTimes
  <2> QED BY <2>2, <2>3
<1>6. ASSUME pc[c] # "reserving" /\ v = u
      PROVE  \A w \in Days, d \in Dims :
               held'[w][d][c] = IF w = v THEN n * Reservation(c)[d] ELSE 0
  <2>1. n = IF k = 0 THEN 0 ELSE k - 1
    BY <1>3, <1>6
  <2>2. \A d \in Dims : held'[v][d][c] = n * Reservation(c)[d]
    BY <1>0, <1>1, <1>2, <1>6, <2>1 DEF HoldsTimes
  <2>3. \A w \in Days, d \in Dims : w # v => held'[w][d][c] = 0
    BY <1>1, <1>6 DEF HoldsTimes
  <2> QED BY <2>2, <2>3
<1>7. ASSUME pc[c] # "reserving" /\ v # u
      PROVE  \A w \in Days, d \in Dims :
               held'[w][d][c] = IF w = v THEN n * Reservation(c)[d] ELSE 0
  <2>1. \A d \in Dims : held[u][d][c] = 0
    BY <1>0, <1>7 DEF HoldsTimes, u
  <2>2. \A d \in Dims : held'[u][d][c] = 0
    BY <1>1, <1>2, <1>7, <2>1
  <2>3. \A w \in Days, d \in Dims : held'[w][d][c] = held[w][d][c]
    BY <1>1, <2>1, <2>2
  <2>4. \A d \in Dims : held'[v][d][c] = n * Reservation(c)[d]
    BY <1>3, <1>7, <2>3 DEF HoldsTimes
  <2>5. \A w \in Days, d \in Dims : w # v => held'[w][d][c] = 0
    BY <2>3 DEF HoldsTimes
  <2> QED BY <2>4, <2>5
<1>8. ASSUME NEW w \in Days, NEW d \in Dims
      PROVE  charged'[w][d][c] =
               IF w = window[c]
               THEN (IF pc[c] = "settling" THEN j + 1 ELSE j) * actual[c][d]
               ELSE 0
  <2>1. CASE pc[c] = "settling"
    <3>1. charged'[window[c]][d][c] = charged[window[c]][d][c] + actual[c][d]
      BY <1>0, <2>1, ScriptCharges
    <3>2. w # window[c] => charged'[w][d][c] = charged[w][d][c]
      BY <2>1, ScriptCharges
    <3>3. charged[window[c]][d][c] = j * actual[c][d]
      BY <1>0 DEF ChargedTimes
    <3>4. charged'[window[c]][d][c] = (j + 1) * actual[c][d]
      BY <1>2, <3>1, <3>3
    <3>5. w # window[c] => charged'[w][d][c] = 0
      BY <3>2 DEF ChargedTimes
    <3> QED BY <2>1, <3>4, <3>5
  <2>2. CASE pc[c] # "settling"
    <3>1. charged'[w][d][c] = charged[w][d][c]
      BY <2>2, ScriptCharges
    <3> QED BY <2>2, <3>1 DEF ChargedTimes
  <2> QED BY <2>1, <2>2
<1>9. n <= IF pc[c] = "reserving" /\ Granted(c) THEN k + 1 ELSE k
  BY <1>3
<1> QED BY <1>4, <1>5, <1>6, <1>7, <1>8, <1>9

\* A script of another call does nothing to this one.
LEMMA OthersKeepTimes ==
  ASSUME SentInv, NEW c \in Calls, RunScript(c), UNCHANGED <<input, actual, window>>,
         NEW x \in Calls \ {c}, pc'[x] = pc[x], Sent' \in {Sent, Sent + 1}
  PROVE  HoldsInv(x)' /\ ChargesInv(x)'
<1>0. TypeInv /\ HoldsInv(x) /\ ChargesInv(x) /\ Sent \in Nat
  BY SentType DEF SentInv
<1>1. \A w \in Days, d \in Dims : /\ held'[w][d][x] = held[w][d][x]
                                  /\ charged'[w][d][x] = charged[w][d][x]
  BY <1>0, ScriptHolds, ScriptCharges
<1>2. HoldsInv(x)'
  <2>1. PICK v \in Days, k \in 0 .. (Sent + 1) :
          /\ v <= window[x] /\ HoldsTimes(x, v, k)
          /\ pc[x] = "idle" => k = 0
          /\ pc[x] = "reserving" => v = window[x]
          /\ pc[x] \in {"reserving", "refused"} => k <= Sent
    BY <1>0 DEF HoldsInv
  <2>2. HoldsTimes(x, v, k)'
    BY <1>0, <1>1, <2>1, TimesStay
  <2>3. k \in 0 .. (Sent' + 1) /\ (k <= Sent => k <= Sent')
    BY <1>0, <2>1
  <2> QED BY <2>1, <2>2, <2>3 DEF HoldsInv
<1>3. ChargesInv(x)'
  <2>1. PICK k \in 0 .. (Sent + 1) :
          /\ ChargedTimes(x, k)
          /\ pc[x] \notin {"settling", "settled"} \cup Cut => k = 0
          /\ pc[x] = "settling" => k <= Sent
    BY <1>0 DEF ChargesInv
  <2>2. ChargedTimes(x, k)'
    BY <1>1, <2>1 DEF ChargedTimes
  <2>3. k \in 0 .. (Sent' + 1) /\ (k <= Sent => k <= Sent')
    BY <1>0, <2>1
  <2> QED BY <2>1, <2>2, <2>3 DEF ChargesInv
<1> QED BY <1>2, <1>3

\* The call of a script has as many reservations and charges as the script ran
\* for it, its reply lost or not.
LEMMA OwnKeepsTimes ==
  ASSUME SentInv, NEW c \in Calls, RunScript(c), UNCHANGED <<input, actual, window>>,
         \/ Sent' = Sent /\ pc'[c] \in Cut \cup {AfterReply(c)}
         \/ Sent' = Sent + 1 /\ pc'[c] = pc[c]
  PROVE  HoldsInv(c)' /\ ChargesInv(c)'
<1>0. TypeInv /\ HoldsInv(c) /\ ChargesInv(c) /\ Sent \in Nat /\ pc[c] \in AtStore
  <2>1. pc[c] \in AtStore
    BY DEF RunScript, RunReserve, RunSettle, RunRelease, AtStore
  <2> QED BY <2>1, SentType DEF SentInv
<1>1. PICK v \in Days, k \in 0 .. (Sent + 1) :
        /\ v <= window[c] /\ HoldsTimes(c, v, k)
        /\ pc[c] = "reserving" => v = window[c]
        /\ pc[c] \in {"reserving", "refused"} => k <= Sent
  BY <1>0 DEF HoldsInv
<1>2. PICK j \in 0 .. (Sent + 1) :
        /\ ChargedTimes(c, j)
        /\ pc[c] \notin {"settling", "settled"} \cup Cut => j = 0
        /\ pc[c] = "settling" => j <= Sent
  BY <1>0 DEF ChargesInv
<1>3. k \in Nat /\ j \in Nat
  BY <1>0
<1>4. PICK i \in Nat :
        /\ \A w \in Days, d \in Dims :
             held'[w][d][c] = IF w = v THEN i * Reservation(c)[d] ELSE 0
        /\ i <= IF pc[c] = "reserving" /\ Granted(c) THEN k + 1 ELSE k
  BY <1>0, <1>1, <1>2, <1>3, ScriptTimes
<1>5. /\ HoldsTimes(c, v, i)'
      /\ i <= IF pc[c] = "reserving" /\ Granted(c) THEN k + 1 ELSE k
  BY <1>4 DEF HoldsTimes, Reservation
<1>6. /\ AfterReply(c) = "refused" => pc[c] = "reserving" /\ ~ Granted(c)
      /\ AfterReply(c) \in {"calling", "refused", "settled", "released"}
      /\ AfterReply(c) = "settled" <=> pc[c] = "settling"
  BY <1>0 DEF AtStore, AfterReply
<1>7. HoldsInv(c)'
  <2>1. i \in 0 .. (Sent' + 1)
    BY <1>0, <1>1, <1>5
  <2>2. pc'[c] # "idle" /\ (pc'[c] = "reserving" => pc[c] = "reserving")
    BY <1>0, <1>6 DEF Cut, AtStore
  <2>3. pc'[c] \in {"reserving", "refused"} => i <= Sent'
    BY <1>0, <1>1, <1>5, <1>6 DEF Cut, AtStore
  <2> QED BY <1>1, <1>5, <2>1, <2>2, <2>3 DEF HoldsInv
<1>8. ChargesInv(c)'
  <2>0. PICK n \in Nat : n = IF pc[c] = "settling" THEN j + 1 ELSE j
    BY <1>3
  <2>1. \A w \in Days, d \in Dims :
          charged'[w][d][c] = IF w = window[c] THEN n * actual[c][d] ELSE 0
    BY <1>0, <1>1, <1>2, <1>3, <2>0, ScriptTimes
  <2>2. ChargedTimes(c, n)'
    BY <2>1 DEF ChargedTimes
  <2>3. n \in 0 .. (Sent' + 1)
    BY <1>0, <1>2, <2>0
  <2>4. pc'[c] \notin {"settling", "settled"} \cup Cut => n = 0
    BY <1>0, <1>2, <1>6, <2>0 DEF AtStore, Cut
  <2>5. pc'[c] = "settling" => n <= Sent'
    BY <1>0, <1>2, <1>6, <2>0 DEF Cut
  <2> QED BY <2>2, <2>3, <2>4, <2>5 DEF ChargesInv
<1> QED BY <1>7, <1>8

\* Every step keeps the numbers.
LEMMA StepSentInv == SentInv /\ [Next]_vars /\ TypeInv' => SentInv'
<1> SUFFICES ASSUME SentInv, [Next]_vars, TypeInv'
             PROVE  SentInv'
  OBVIOUS
<1>1. TypeInv /\ ResendInv /\ ResendInv'
  BY CallShape DEF SentInv
<1> SUFFICES ASSUME NEW x \in Calls
             PROVE  HoldsInv(x)' /\ ChargesInv(x)'
  BY <1>1 DEF SentInv
<1>2. ASSUME NEW c \in Calls, Sent' = Sent, RunsOnce(c)
      PROVE  HoldsInv(x)' /\ ChargesInv(x)'
  BY <1>1, <1>2, AfterScript, OthersKeepTimes, OwnKeepsTimes DEF RunsOnce
<1>3. ASSUME NEW c \in Calls, Sent' = Sent + 1, RunScript(c), UNCHANGED callVars
      PROVE  HoldsInv(x)' /\ ChargesInv(x)'
  BY <1>3, OthersKeepTimes, OwnKeepsTimes DEF callVars
<1>4. CASE Sent' = Sent /\ UNCHANGED <<held, charged>> /\ Quiet(x)
  BY <1>4, QuietKeepsTimes
<1> QED BY <1>1, <1>2, <1>3, <1>4, SendShape

\* An EVAL that is sent again, because its reply was lost, costs a call one more
\* reservation or one more charge at most, in one window, and nothing to other
\* calls: what a call holds or was charged is its reservation or its usage as
\* many times, and once more than EVALs were sent again at the very most.
THEOREM ResendsCostOneEach ==
  Spec => []\A c \in Calls :
              /\ \E v \in Days, k \in 0 .. (Sent + 1) : v <= window[c] /\ HoldsTimes(c, v, k)
              /\ \E k \in 0 .. (Sent + 1) : ChargedTimes(c, k)
<1>1. Init => SentInv
  <2> SUFFICES ASSUME Init
               PROVE  SentInv
    OBVIOUS
  <2>1. TypeInv /\ ResendInv
    BY InitChargingInv DEF ChargingInv, BookInv
  <2>2. Sent = 0 /\ 1 \in Days
    BY BoundsAssumption DEF Init, Sent, FaultSorts, Days
  <2>3. ASSUME NEW c \in Calls
        PROVE  HoldsInv(c) /\ ChargesInv(c)
    <3>1. /\ window[c] = 1 /\ pc[c] = "idle" /\ HoldsNothing(c)
          /\ \A w \in Days, d \in Dims : charged[w][d][c] = 0
      BY DEF Init, HoldsNothing
    <3>2. HoldsTimes(c, 1, 0) /\ ChargedTimes(c, 0)
      BY <2>1, <2>2, <3>1, NothingTimes
    <3>3. 0 \in 0 .. (Sent + 1)
      BY <2>2
    <3> QED BY <2>2, <3>1, <3>2, <3>3 DEF HoldsInv, ChargesInv, Cut
  <2> QED BY <2>1, <2>3 DEF SentInv
<1>2. Spec => []TypeInv
  <2>1. ChargingInv => TypeInv
    BY DEF ChargingInv, BookInv
  <2> QED BY <2>1, InitChargingInv, StepChargingInv, PTL DEF Spec
<1>3. SentInv => \A c \in Calls :
        /\ \E v \in Days, k \in 0 .. (Sent + 1) : v <= window[c] /\ HoldsTimes(c, v, k)
        /\ \E k \in 0 .. (Sent + 1) : ChargedTimes(c, k)
  BY DEF SentInv, HoldsInv, ChargesInv
<1> QED BY <1>1, <1>2, <1>3, StepSentInv, PTL DEF Spec
=============================================================================
