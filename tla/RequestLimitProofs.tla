------------------------- MODULE RequestLimitProofs -------------------------
(***************************************************************************)
(* Theorems about RequestLimit, for any number of requests, any window     *)
(* lengths and limits, any number of store errors and resent EVALs.        *)
(***************************************************************************)
EXTENDS RequestLimit, TotalsProofs, SequenceTheorems

-----------------------------------------------------------------------------
(* Windows. *)

\* The windows have a length.
LEMMA LengthType == ASSUME NEW s \in Spans PROVE Length(s) \in Nat \ {0}
BY ClockAssumption DEF Spans, Length

\* A TTL computed at t reaches exactly to the end of the window of t.
LEMMA TTLReachesEnd ==
  ASSUME NEW s \in Spans, NEW t \in Nat
  PROVE  /\ Window(s, t) \in Nat /\ Window(s, t) <= t
         /\ TTL(s, t) \in Nat
         /\ t + TTL(s, t) = WindowEnd(s, Window(s, t))
<1> DEFINE L == Length(s)
<1>1. L \in Nat \ {0}
  BY LengthType
<1> HIDE DEF L
<1>2. /\ t \div L \in Nat /\ t \div L <= t /\ t % L \in 0 .. (L - 1)
      /\ t + (L - (t % L)) = ((t \div L) + 1) * L
  BY <1>1
<1>3. L - (t % L) \in Nat
  BY <1>1, <1>2
<1> QED BY <1>2, <1>3 DEF Window, TTL, WindowEnd, L

\* The end of a window is a time.
LEMMA WindowEndType ==
  ASSUME NEW s \in Spans, NEW w \in Windows
  PROVE  WindowEnd(s, w) \in Nat
<1> DEFINE L == Length(s)
<1>1. L \in Nat /\ w \in Nat
  BY LengthType DEF Windows
<1> HIDE DEF L
<1>2. (w + 1) * L \in Nat
  BY <1>1
<1> QED BY <1>2 DEF WindowEnd, L
-----------------------------------------------------------------------------
(* Type correctness. *)

\* Every deployment has limits, and there is a first one.
LEMMA LimitsType ==
  /\ 1 \in DOMAIN Limits
  /\ \A d \in DOMAIN Limits : Limits[d] \in [minute : Nat, day : Nat]
<1> DEFINE S == [minute : Nat, day : Nat]
<1>1. Limits \in Seq(S) /\ Limits # << >>
  BY LimitsAssumption
<1> HIDE DEF S
<1>2. Len(Limits) \in Nat /\ DOMAIN Limits = 1 .. Len(Limits)
  BY <1>1, LenProperties
<1>3. Len(Limits) # 0
  BY <1>1, EmptySeq
<1>4. \A d \in DOMAIN Limits : Limits[d] \in S
  BY <1>1, <1>2, ElementOfSeq
<1> QED BY <1>2, <1>3, <1>4 DEF S

\* Spending a fault keeps their counts.
LEMMA FaultsType ==
  ASSUME faults \in [store : Nat, resend : Nat]
  PROVE  /\ faults.store > 0 =>
              [faults EXCEPT !.store = @ - 1] \in [store : Nat, resend : Nat]
         /\ faults.resend > 0 =>
              [faults EXCEPT !.resend = @ - 1] \in [store : Nat, resend : Nat]
<1>1. faults.store \in Nat /\ faults.resend \in Nat
  OBVIOUS
<1>2. /\ faults.store > 0 => faults.store - 1 \in Nat
      /\ faults.resend > 0 => faults.resend - 1 \in Nat
  BY <1>1
<1> QED BY <1>2

\* A request has read the clock.
AskedInv == \A r \in Requests : asked[r] <= now

\* A request that has not begun has not been counted.
IdleInv == \A r \in Requests : pc[r] = "idle" => ran[r] = 0

TypeInv == TypeOK /\ AskedInv /\ IdleInv

\* The clock, and a clock that moves on.
LEMMA ClockTypes ==
  ASSUME TypeInv
  PROVE  /\ Horizon \in Nat /\ now \in Nat /\ now <= Horizon /\ now \in Times /\ now <= now
         /\ \A r \in Requests : asked[r] \in Nat /\ asked[r] <= now /\ asked[r] <= now + 1
         /\ now < Horizon => now + 1 \in Times
<1>1. Horizon \in Nat
  BY ClockAssumption
<1>2. now \in 0 .. Horizon /\ asked \in [Requests -> 0 .. Horizon]
  BY DEF TypeInv, TypeOK, Times
<1>3. now \in Nat /\ now <= Horizon /\ (now < Horizon => now + 1 \in 0 .. Horizon)
  BY <1>1, <1>2
<1>4. \A r \in Requests : asked[r] \in Nat /\ asked[r] <= now /\ asked[r] <= now + 1
  BY <1>1, <1>2, <1>3 DEF TypeInv, AskedInv
<1> QED BY <1>1, <1>2, <1>3, <1>4 DEF Times

\* The windows of a request and what its script reads.
LEMMA RequestTypes ==
  ASSUME TypeInv, NEW r \in Requests, NEW s \in Spans
  PROVE  /\ asked[r] \in Nat /\ now \in Nat /\ asked[r] <= now
         /\ WindowOf(s, r) \in Windows
         /\ CurrentOf(s, r) \in Nat
         /\ CountedValue(s, r) \in Nat
         /\ ExpiryAfter(s, r) \in Nat
<1>1. asked[r] \in Nat /\ now \in Nat /\ asked[r] <= now /\ asked[r] <= Horizon /\ Horizon \in Nat
  BY ClockAssumption DEF TypeInv, TypeOK, AskedInv, Times
<1>2. WindowOf(s, r) \in Windows
  BY <1>1, TTLReachesEnd DEF WindowOf, Windows
<1>3. CurrentOf(s, r) \in Nat
  BY <1>2 DEF TypeInv, TypeOK, CurrentOf, Current
<1>4. TTL(s, asked[r]) \in Nat
  BY <1>1, TTLReachesEnd
<1>5. expiry[s][WindowOf(s, r)] \in Nat
  BY <1>2 DEF TypeInv, TypeOK
<1> QED BY <1>1, <1>2, <1>3, <1>4, <1>5 DEF CountedValue, ExpiryAfter

\* A script that runs keeps the types of the store.
LEMMA RunScriptType ==
  ASSUME TypeInv, NEW r \in Requests, RunScript(r)
  PROVE  /\ count' \in [Spans -> [Windows -> Nat]]
         /\ expiry' \in [Spans -> [Windows -> Nat]]
         /\ ran' \in [Requests -> Nat]
         /\ ranLate' \in [Spans -> SUBSET Requests]
         /\ \A q \in Requests : pc[q] = "idle" => ran'[q] = 0
<1>1. CASE ~Allowed(r)
  BY <1>1 DEF RunScript, storeVars, TypeInv, TypeOK, IdleInv
<1>2. CASE Allowed(r)
  <2>1. CountRequest(r)
    BY <1>2 DEF RunScript
  <2>2. \A s \in Spans : /\ CountedValue(s, r) \in Nat /\ ExpiryAfter(s, r) \in Nat
                         /\ count[s] \in [Windows -> Nat] /\ expiry[s] \in [Windows -> Nat]
    BY RequestTypes DEF TypeInv, TypeOK
  <2>3. \A s \in Spans :
          /\ [count[s] EXCEPT ![WindowOf(s, r)] = CountedValue(s, r)] \in [Windows -> Nat]
          /\ [expiry[s] EXCEPT ![WindowOf(s, r)] = ExpiryAfter(s, r)] \in [Windows -> Nat]
    BY <2>2
  <2>4. count' \in [Spans -> [Windows -> Nat]] /\ expiry' \in [Spans -> [Windows -> Nat]]
    BY <2>1, <2>3 DEF CountRequest
  <2>5. ran' \in [Requests -> Nat] /\ ranLate' \in [Spans -> SUBSET Requests]
    BY <2>1 DEF CountRequest, TypeInv, TypeOK
  <2>6. \A q \in Requests : pc[q] = "idle" => ran'[q] = 0
    BY <2>1 DEF CountRequest, RunScript, TypeInv, TypeOK, IdleInv
  <2> QED BY <2>4, <2>5, <2>6
<1> QED BY <1>1, <1>2

\* The initial state has the types.
LEMMA InitTypeInv == Init => TypeInv
<1> SUFFICES ASSUME Init PROVE TypeInv
  OBVIOUS
<1>1. 1 \in DOMAIN Limits /\ Limits[1] \in [minute : Nat, day : Nat]
  BY LimitsType
<1>2. faults \in [store : Nat, resend : Nat]
  BY FaultsAssumption DEF Init
<1> QED BY <1>1, <1>2, ClockAssumption
        DEF Init, TypeInv, TypeOK, AskedInv, IdleInv, Times, Spans, Answered

\* Every step keeps the types.
LEMMA StepTypeInv == TypeInv /\ [Next]_vars => TypeInv'
<1> SUFFICES ASSUME TypeInv, [Next]_vars PROVE TypeInv'
  OBVIOUS
<1> USE DEF TypeInv, TypeOK, AskedInv, IdleInv, storeVars, Answered
<1>1. CASE UNCHANGED vars
  BY <1>1 DEF vars
<1>2. ASSUME NEW r \in Requests, Ask(r) PROVE TypeInv'
  <2>1. Limits[deployment] \in [minute : Nat, day : Nat]
    BY LimitsType
  <2>2. now \in Nat
    BY ClockTypes
  <2>3. /\ limit' \in [Requests -> [minute : Nat, day : Nat]]
        /\ asked' \in [Requests -> Times]
        /\ pc' \in [Requests -> {"idle", "counting"} \cup Answered]
    BY <1>2, <2>1 DEF Ask
  <2>4. /\ UNCHANGED <<now, deployment, count, expiry, ran, ranLate, refused, faults>>
        /\ \A q \in Requests : pc'[q] = "idle" => pc[q] = "idle"
        /\ \A q \in Requests : asked'[q] = now \/ asked'[q] = asked[q]
    BY <1>2 DEF Ask
  <2>5. AskedInv'
    <3>1. now <= now
      BY ClockTypes
    <3>2. \A q \in Requests : asked'[q] <= now
      BY <2>4, <3>1
    <3> QED BY <2>4, <3>2
  <2> QED BY <2>3, <2>4, <2>5
<1>3. ASSUME NEW r \in Requests, Reply(r) PROVE TypeInv'
  <2>1. /\ RunScript(r) /\ pc' = [pc EXCEPT ![r] = Verdict(r)]
        /\ UNCHANGED <<now, deployment, asked, limit, faults>>
        /\ refused' \subseteq Requests
    BY <1>3 DEF Reply
  <2>2. Verdict(r) \in Answered
    BY DEF Verdict
  <2>3. /\ pc' \in [Requests -> {"idle", "counting"} \cup Answered]
        /\ \A q \in Requests : pc'[q] = "idle" => pc[q] = "idle"
    BY <2>1, <2>2
  <2> QED BY <2>1, <2>3, RunScriptType
<1>4. ASSUME NEW r \in Requests, StoreError(r) PROVE TypeInv'
  <2>1. /\ faults' \in [store : Nat, resend : Nat]
        /\ UNCHANGED <<now, deployment, asked, limit, refused>>
    BY <1>4, FaultsType DEF StoreError
  <2>2. /\ pc' \in [Requests -> {"idle", "counting"} \cup Answered]
        /\ \A q \in Requests : pc'[q] = "idle" => pc[q] = "idle"
    BY <1>4 DEF StoreError
  <2>3. CASE RunScript(r)
    BY <2>1, <2>2, <2>3, RunScriptType
  <2>4. CASE UNCHANGED storeVars
    BY <2>1, <2>2, <2>4
  <2> QED BY <1>4, <2>3, <2>4 DEF StoreError
<1>5. ASSUME NEW r \in Requests, Resend(r) PROVE TypeInv'
  <2>1. /\ faults' \in [store : Nat, resend : Nat]
        /\ UNCHANGED <<now, deployment, pc, asked, limit, refused>>
        /\ RunScript(r)
    BY <1>5, FaultsType DEF Resend
  <2> QED BY <2>1, RunScriptType
<1>6. CASE Tick
  <2>1. /\ now < Horizon /\ now' = now + 1
        /\ UNCHANGED <<deployment, count, expiry, pc, asked, limit, ran, ranLate, refused, faults>>
    BY <1>6 DEF Tick
  <2>2. now' \in Times
    BY <2>1, ClockTypes
  <2>3. AskedInv'
    BY <2>1, ClockTypes
  <2> QED BY <2>1, <2>2, <2>3
<1>7. CASE Deploy
  BY <1>7 DEF Deploy
<1>8. CASE Done
  BY <1>8 DEF Done, vars
<1> QED BY <1>1, <1>2, <1>3, <1>4, <1>5, <1>6, <1>7, <1>8 DEF Next

\* Every variable keeps its type.
THEOREM TypeCorrect == Spec => []TypeOK
<1>1. Spec => []TypeInv
  BY InitTypeInv, StepTypeInv, PTL DEF Spec
<1>2. TypeInv => TypeOK
  BY DEF TypeInv
<1> QED BY <1>1, <1>2, PTL
-----------------------------------------------------------------------------
(* The counters. *)

\* A step runs a script, reads the clock for a request that had not begun, or
\* leaves the store and the requests' clocks alone.
LEMMA StepShape ==
  ASSUME TypeInv, [Next]_vars
  PROVE  \/ \E r \in Requests : RunScript(r) /\ UNCHANGED <<now, asked, limit>>
         \/ UNCHANGED storeVars /\ UNCHANGED now
            /\ \E r \in Requests : /\ pc[r] = "idle"
                                   /\ asked' = [asked EXCEPT ![r] = now]
         \/ UNCHANGED storeVars /\ UNCHANGED asked /\ now' \in {now, now + 1}
<1>1. CASE UNCHANGED vars
  BY <1>1 DEF vars
<1>2. CASE \E r \in Requests : Ask(r) \/ Reply(r) \/ StoreError(r) \/ Resend(r)
  BY <1>2 DEF Ask, Reply, StoreError, Resend
<1>3. CASE Tick \/ Deploy
  BY <1>3 DEF Tick, Deploy
<1>4. CASE Done
  BY <1>1, <1>4 DEF Done
<1> QED BY <1>1, <1>2, <1>3, <1>4 DEF Next

\* The effect of a script that counts its request, on one counter.
LEMMA CountEffect ==
  ASSUME TypeInv, NEW r \in Requests, CountRequest(r), NEW s \in Spans, NEW w \in Windows
  PROVE  /\ w = WindowOf(s, r) => /\ count'[s][w] = CurrentOf(s, r) + 1
                                  /\ expiry'[s][w] = ExpiryAfter(s, r)
         /\ w # WindowOf(s, r) => count'[s][w] = count[s][w] /\ expiry'[s][w] = expiry[s][w]
<1>1. /\ count'[s] = [count[s] EXCEPT ![WindowOf(s, r)] = CountedValue(s, r)]
      /\ expiry'[s] = [expiry[s] EXCEPT ![WindowOf(s, r)] = ExpiryAfter(s, r)]
  BY DEF CountRequest
<1>2. count[s] \in [Windows -> Nat] /\ expiry[s] \in [Windows -> Nat]
  BY DEF TypeInv, TypeOK
<1> QED BY <1>1, <1>2 DEF CountedValue

\* A script that runs keeps the keys alive to the end of their windows.
LEMMA RunScriptKeys ==
  ASSUME TypeInv, KeysOutliveWindows, NEW r \in Requests, RunScript(r), UNCHANGED asked
  PROVE  KeysOutliveWindows'
<1>1. CASE ~Allowed(r)
  BY <1>1 DEF RunScript, storeVars, KeysOutliveWindows
<1>2. CASE Allowed(r)
  <2> SUFFICES ASSUME NEW s \in Spans, NEW w \in Windows, count'[s][w] > 0
               PROVE  expiry'[s][w] >= WindowEnd(s, w)
    BY DEF KeysOutliveWindows
  <2>1. CountRequest(r)
    BY <1>2 DEF RunScript
  <2>2. CASE w # WindowOf(s, r)
    BY <2>1, <2>2, CountEffect DEF KeysOutliveWindows
  <2>3. CASE w = WindowOf(s, r)
    <3>1. expiry'[s][w] = ExpiryAfter(s, r)
      BY <2>1, <2>3, CountEffect
    <3>2. CASE CurrentOf(s, r) = 0
      <4>1. asked[r] + TTL(s, asked[r]) = WindowEnd(s, w) /\ TTL(s, asked[r]) \in Nat
        BY <2>3, RequestTypes, TTLReachesEnd DEF WindowOf
      <4>2. expiry'[s][w] = now + TTL(s, asked[r])
        BY <3>1, <3>2 DEF ExpiryAfter
      <4>3. now \in Nat /\ asked[r] \in Nat /\ asked[r] <= now
        BY RequestTypes
      <4> QED BY <4>1, <4>2, <4>3
    <3>3. CASE CurrentOf(s, r) # 0
      <4>1. count[s][w] > 0
        BY <2>3, <3>3 DEF CurrentOf, Current, TypeInv, TypeOK
      <4>2. expiry'[s][w] = expiry[s][w]
        BY <2>3, <3>1, <3>3 DEF ExpiryAfter
      <4> QED BY <4>1, <4>2 DEF KeysOutliveWindows
    <3> QED BY <3>2, <3>3
  <2> QED BY <2>2, <2>3
<1> QED BY <1>1, <1>2

\* Every step keeps the keys alive to the end of their windows.
LEMMA StepKeys == TypeInv /\ KeysOutliveWindows /\ [Next]_vars => KeysOutliveWindows'
<1> SUFFICES ASSUME TypeInv, KeysOutliveWindows, [Next]_vars PROVE KeysOutliveWindows'
  OBVIOUS
<1>1. CASE \E r \in Requests : RunScript(r) /\ UNCHANGED <<now, asked, limit>>
  BY <1>1, RunScriptKeys
<1>2. CASE UNCHANGED storeVars
  BY <1>2 DEF storeVars, KeysOutliveWindows
<1> QED BY <1>1, <1>2, StepShape

\* No counter is dropped before its window is over.
THEOREM KeysLive == Spec => []KeysOutliveWindows
<1>1. Init => TypeInv /\ KeysOutliveWindows
  BY InitTypeInv DEF Init, KeysOutliveWindows
<1>2. TypeInv /\ KeysOutliveWindows /\ [Next]_vars => TypeInv' /\ KeysOutliveWindows'
  BY StepTypeInv, StepKeys
<1> QED BY <1>1, <1>2, PTL DEF Spec
-----------------------------------------------------------------------------
(* What the counters count. *)

\* What each request adds to the counter of window w.
Contribution(s, w) == [r \in Requests |-> IF WindowOf(s, r) = w THEN ran[r] ELSE 0]

\* A counter never runs ahead of the requests counted in it, and while its
\* window lasts it is their number.
CountInv ==
    \A s \in Spans, w \in Windows :
        /\ count[s][w] <= Counted(s, w)
        /\ now < WindowEnd(s, w) => count[s][w] = Counted(s, w)

CounterInv == TypeInv /\ KeysOutliveWindows /\ CountInv

\* The number of requests counted in a window is a number.
LEMMA CountedType ==
  ASSUME TypeInv, NEW s \in Spans, NEW w \in Windows
  PROVE  /\ Contribution(s, w) \in [Requests -> Nat]
         /\ Counted(s, w) = Total(Contribution(s, w))
         /\ Counted(s, w) \in Nat
<1>1. Contribution(s, w) \in [Requests -> Nat]
  BY DEF Contribution, TypeInv, TypeOK
<1>2. Counted(s, w) = Total(Contribution(s, w))
  BY DEF Counted, Contribution
<1> QED BY <1>1, <1>2, TotalIsNat, RequestsAssumption

\* Reading the clock for a request that has not begun adds nothing to a window.
LEMMA AskKeepsCounted ==
  ASSUME TypeInv, NEW r \in Requests, pc[r] = "idle", ran' = ran,
         asked' = [asked EXCEPT ![r] = now], NEW s \in Spans, NEW w \in Windows
  PROVE  Counted(s, w)' = Counted(s, w)
<1>1. ran[r] = 0
  BY DEF TypeInv, IdleInv
<1>2. \A q \in Requests : (IF WindowOf(s, q) = w THEN ran[q] ELSE 0)'
                            = IF WindowOf(s, q) = w THEN ran[q] ELSE 0
  <2> SUFFICES ASSUME NEW q \in Requests
               PROVE  (IF WindowOf(s, q) = w THEN ran[q] ELSE 0)'
                        = IF WindowOf(s, q) = w THEN ran[q] ELSE 0
    OBVIOUS
  <2>1. CASE q = r
    BY <1>1, <2>1
  <2>2. CASE q # r
    BY <2>2 DEF WindowOf, TypeInv, TypeOK
  <2> QED BY <2>1, <2>2
<1>3. Contribution(s, w)' = Contribution(s, w)
  BY <1>2 DEF Contribution
<1> QED BY <1>3 DEF Counted, Contribution

\* A script that counts its request adds one to the windows of the request.
LEMMA CountAddsOne ==
  ASSUME TypeInv, NEW r \in Requests, CountRequest(r), UNCHANGED asked,
         NEW s \in Spans, NEW w \in Windows
  PROVE  /\ w = WindowOf(s, r) => Counted(s, w)' = Counted(s, w) + 1
         /\ w # WindowOf(s, r) => Counted(s, w)' = Counted(s, w)
<1> DEFINE f == Contribution(s, w)
<1>1. f \in [Requests -> Nat] /\ Counted(s, w) = Total(f) /\ Total(f) \in Nat
  BY CountedType
<1>2. Counted(s, w)' = Total(f')
  BY DEF Counted, Contribution
<1>3. \A q \in Requests : WindowOf(s, q)' = WindowOf(s, q)
  BY DEF WindowOf
<1>4. ran' = [ran EXCEPT ![r] = @ + 1] /\ ran \in [Requests -> Nat]
  BY DEF CountRequest, TypeInv, TypeOK
<1>5. CASE w = WindowOf(s, r)
  <2>1. f' = [f EXCEPT ![r] = ran[r] + 1]
    BY <1>3, <1>4, <1>5 DEF Contribution
  <2>2. f[r] = ran[r] /\ ran[r] + 1 \in Nat /\ ran[r] \in Nat
    BY <1>4, <1>5 DEF Contribution
  <2>3. Total(f') = Total(f) - f[r] + (ran[r] + 1)
    <3> HIDE DEF f
    <3> DEFINE n == ran[r] + 1
    <3>0. f \in [Requests -> Nat] /\ n \in Nat
      BY <1>1, <2>2
    <3> HIDE DEF n
    <3>1. Total([f EXCEPT ![r] = n]) = Total(f) - f[r] + n
      BY <3>0, TotalExcept, RequestsAssumption
    <3> QED BY <2>1, <3>1 DEF n
  <2> QED BY <1>1, <1>2, <1>5, <2>2, <2>3
<1>6. CASE w # WindowOf(s, r)
  <2>1. f' = f
    BY <1>3, <1>4, <1>6 DEF Contribution
  <2> QED BY <1>1, <1>2, <1>6, <2>1
<1> QED BY <1>5, <1>6

\* While a window lasts a script reads the number of requests counted in it,
\* and it never reads more than that.
LEMMA CurrentIsCounted ==
  ASSUME CounterInv, NEW s \in Spans, NEW w \in Windows
  PROVE  /\ Current(s, w) \in Nat /\ Current(s, w) <= Counted(s, w)
         /\ Current(s, w) <= count[s][w]
         /\ now < WindowEnd(s, w) => Current(s, w) = Counted(s, w)
<1>1. count[s][w] \in Nat /\ expiry[s][w] \in Nat
  BY DEF CounterInv, TypeInv, TypeOK
<1>2. now \in Nat /\ WindowEnd(s, w) \in Nat /\ Counted(s, w) \in Nat
  BY ClockTypes, WindowEndType, CountedType DEF CounterInv
<1>3. /\ count[s][w] > 0 => expiry[s][w] >= WindowEnd(s, w)
      /\ count[s][w] <= Counted(s, w)
      /\ now < WindowEnd(s, w) => count[s][w] = Counted(s, w)
  BY DEF CounterInv, KeysOutliveWindows, CountInv
<1> QED BY <1>1, <1>2, <1>3 DEF Current

\* A script that runs keeps the counters exact.
LEMMA RunScriptCounts ==
  ASSUME CounterInv, NEW r \in Requests, RunScript(r), UNCHANGED <<now, asked>>
  PROVE  CountInv'
<1>1. CASE ~Allowed(r)
  BY <1>1 DEF RunScript, storeVars, CounterInv, CountInv, Counted, WindowOf
<1>2. CASE Allowed(r)
  <2> SUFFICES ASSUME NEW s \in Spans, NEW w \in Windows
               PROVE  /\ count'[s][w] <= Counted(s, w)'
                      /\ now' < WindowEnd(s, w) => count'[s][w] = Counted(s, w)'
    BY DEF CountInv
  <2>1. CountRequest(r)
    BY <1>2 DEF RunScript
  <2>2. /\ count[s][w] <= Counted(s, w)
        /\ now < WindowEnd(s, w) => count[s][w] = Counted(s, w)
    BY DEF CounterInv, CountInv
  <2>3. CASE w # WindowOf(s, r)
    BY <2>1, <2>2, <2>3, CountEffect, CountAddsOne DEF CounterInv
  <2>4. CASE w = WindowOf(s, r)
    <3>1. /\ count'[s][w] = Current(s, w) + 1
          /\ Counted(s, w)' = Counted(s, w) + 1
      BY <2>1, <2>4, CountEffect, CountAddsOne DEF CounterInv, CurrentOf
    <3>2. Counted(s, w) \in Nat
      BY CountedType DEF CounterInv
    <3> QED BY <3>1, <3>2, CurrentIsCounted
  <2> QED BY <2>3, <2>4
<1> QED BY <1>1, <1>2

\* Every step keeps the counters exact.
LEMMA StepCounts == CounterInv /\ [Next]_vars => CounterInv'
<1> SUFFICES ASSUME CounterInv, [Next]_vars PROVE CounterInv'
  OBVIOUS
<1>1. TypeInv' /\ KeysOutliveWindows'
  BY StepTypeInv, StepKeys DEF CounterInv
<1>2. CASE \E r \in Requests : RunScript(r) /\ UNCHANGED <<now, asked, limit>>
  BY <1>1, <1>2, RunScriptCounts DEF CounterInv
<1>3. CASE UNCHANGED storeVars /\ UNCHANGED now
             /\ \E r \in Requests : /\ pc[r] = "idle"
                                    /\ asked' = [asked EXCEPT ![r] = now]
  <2>1. count' = count /\ ran' = ran /\ now' = now
    BY <1>3 DEF storeVars
  <2>2. \A s \in Spans, w \in Windows : Counted(s, w)' = Counted(s, w)
    BY <1>3, <2>1, AskKeepsCounted DEF CounterInv
  <2>3. CountInv'
    BY <2>1, <2>2 DEF CounterInv, CountInv
  <2> QED BY <1>1, <2>3 DEF CounterInv
<1>4. CASE UNCHANGED storeVars /\ UNCHANGED asked /\ now' \in {now, now + 1}
  <2>1. count' = count /\ \A s \in Spans, w \in Windows : Counted(s, w)' = Counted(s, w)
    BY <1>4 DEF storeVars, Counted, WindowOf
  <2>2. \A s \in Spans, w \in Windows : now' < WindowEnd(s, w) => now < WindowEnd(s, w)
    BY <1>4, ClockTypes, WindowEndType DEF CounterInv
  <2>3. CountInv'
    BY <2>1, <2>2 DEF CounterInv, CountInv
  <2> QED BY <1>1, <2>3 DEF CounterInv
<1> QED BY <1>2, <1>3, <1>4, StepShape DEF CounterInv

\* Nothing is counted at first.
LEMMA InitCounts == Init => CounterInv
<1> SUFFICES ASSUME Init PROVE CounterInv
  OBVIOUS
<1>1. TypeInv /\ KeysOutliveWindows
  BY InitTypeInv DEF Init, KeysOutliveWindows
<1>2. \A s \in Spans, w \in Windows : Contribution(s, w) = [r \in Requests |-> 0]
  BY DEF Init, Contribution
<1>3. \A s \in Spans, w \in Windows : Counted(s, w) = 0
  BY <1>1, <1>2, CountedType, TotalZero, RequestsAssumption
<1>4. CountInv
  BY <1>3 DEF Init, CountInv
<1> QED BY <1>1, <1>4 DEF CounterInv

\* The counters stay exact.
LEMMA CountersInvariant == Spec => []CounterInv
BY InitCounts, StepCounts, PTL DEF Spec

\* While a minute or a day lasts its counter is the number of times its
\* requests were counted, whatever was lost, delayed or sent twice.
THEOREM CountersAreExact == Spec => []CountersExact
<1>1. CounterInv => CountersExact
  BY CurrentIsCounted DEF CountersExact
<1> QED BY <1>1, CountersInvariant, PTL

\* A request is turned away only when its own window has used up the limit.
THEOREM RefusalsAreDue == Spec => RefusalIsDue
<1> DEFINE Due(r) ==
      /\ pc'[r] = "minute limit" /\ pc[r] # pc'[r]
           => Counted("minute", WindowOf("minute", r)) >= limit[r].minute
      /\ pc'[r] = "daily quota" /\ pc[r] # pc'[r]
           => Counted("day", WindowOf("day", r)) >= limit[r].day
<1>1. ASSUME CounterInv, [Next]_vars, NEW r \in Requests, pc[r] # pc'[r],
             pc'[r] \in {"minute limit", "daily quota"}
      PROVE  Due(r)
  <2>1. Reply(r)
    BY <1>1 DEF Next, vars, Ask, Reply, StoreError, Resend, Tick, Deploy, Done,
               CounterInv, TypeInv, TypeOK
  <2>2. pc'[r] = Verdict(r)
    <3>1. pc' = [pc EXCEPT ![r] = Verdict(r)]
      BY <2>1 DEF Reply
    <3>2. DOMAIN pc = Requests
      BY <1>1 DEF CounterInv, TypeInv, TypeOK
    <3> QED BY <3>1, <3>2
  <2>3. \A s \in Spans : /\ WindowOf(s, r) \in Windows
                         /\ CurrentOf(s, r) \in Nat
                         /\ CurrentOf(s, r) <= Counted(s, WindowOf(s, r))
                         /\ Counted(s, WindowOf(s, r)) \in Nat
    BY RequestTypes, CurrentIsCounted, CountedType, <1>1 DEF CurrentOf, CounterInv
  <2>4. /\ pc'[r] = "minute limit" => CurrentOf("minute", r) = limit[r].minute
        /\ pc'[r] = "daily quota" => CurrentOf("day", r) = limit[r].day
    BY <2>2 DEF Verdict
  <2> QED BY <2>3, <2>4 DEF Spans
<1>2. ASSUME CounterInv, [Next]_vars PROVE [\A r \in Requests : Due(r)]_vars
  BY <1>1, <1>2
<1>3. CounterInv /\ [Next]_vars => [\A r \in Requests : Due(r)]_vars
  BY <1>2
<1> QED BY <1>3, CountersInvariant, PTL DEF Spec, RefusalIsDue
-----------------------------------------------------------------------------
(* The limits, while the settings the service began with are in force. *)

Cap(s) == Limits[1][s]

\* Everybody is served with the same limits.
SameLimits == \A r \in Requests : limit[r] = Limits[1]

\* No counter passes its limit.
CountersCapped == \A s \in Spans, w \in Windows : count[s][w] <= Cap(s)

\* A refused request has been told so.
RefusedAnswered == \A r \in refused : pc[r] \in {"minute limit", "daily quota"}

\* A request that goes on was counted, in its minute and in its day.
AdmittedAreCounted == \A r \in Requests : pc[r] = "admitted" => ran[r] > 0

\* No more requests of a window go on than its limit.
InTimeCapped == \A s \in Spans, w \in Windows : Cardinality(InTime(s, w)) <= Cap(s)

LimitInv == /\ CounterInv /\ SameLimits /\ CountersCapped /\ RefusedAnswered
            /\ AdmittedAreCounted /\ InTimeCapped

\* The first limits are numbers.
LEMMA CapType == \A s \in Spans : Cap(s) \in Nat
BY LimitsType DEF Cap, Spans

\* Requests that were counted at least once are no more than the count.
LEMMA CountedBound ==
  ASSUME NEW S, IsFiniteSet(S), NEW f \in [S -> Nat], NEW T \in SUBSET S,
         \A x \in T : f[x] > 0
  PROVE  /\ IsFiniteSet(T) /\ Cardinality(T) \in Nat
         /\ Cardinality(T) <= Total(f)
<1>1. IsFiniteSet(T)
  BY FS_Subset
<1>2. IsFiniteSet({1}) /\ Cardinality({1}) = 1
  BY FS_Singleton
<1>3. Cardinality(T \X {1}) = Cardinality(T) * 1 /\ Cardinality(T) \in Nat
  BY <1>1, <1>2, FS_Product, FS_CardinalityType
<1>4. T \X {1} \subseteq Units(f)
  BY DEF Units
<1>5. IsFiniteSet(Units(f))
  BY TotalIsNat
<1>6. Cardinality(T \X {1}) <= Cardinality(Units(f))
  BY <1>4, <1>5, FS_Subset
<1> QED BY <1>1, <1>3, <1>6 DEF Total

\* While every admitted request is counted, the requests of a window that go on
\* are no more than the requests counted in it.
LEMMA InTimeCounted ==
  ASSUME CounterInv, AdmittedAreCounted, NEW s \in Spans, NEW w \in Windows
  PROVE  /\ IsFiniteSet(InTime(s, w)) /\ Cardinality(InTime(s, w)) \in Nat
         /\ Cardinality(InTime(s, w)) <= Counted(s, w)
<1> DEFINE f == Contribution(s, w)
           T == InTime(s, w)
<1>1. f \in [Requests -> Nat] /\ Counted(s, w) = Total(f)
  BY CountedType DEF CounterInv
<1>2. T \in SUBSET Requests
  BY DEF InTime
<1>3. \A r \in T : f[r] > 0
  BY DEF InTime, Contribution, AdmittedAreCounted
<1> HIDE DEF f, T
<1>4. IsFiniteSet(T) /\ Cardinality(T) \in Nat /\ Cardinality(T) <= Total(f)
  BY <1>1, <1>2, <1>3, CountedBound, RequestsAssumption
<1> QED BY <1>1, <1>4 DEF T

\* A script that runs leaves the counters within the limits.
LEMMA RunScriptCapped ==
  ASSUME LimitInv, NEW r \in Requests, RunScript(r)
  PROVE  CountersCapped'
<1>1. CASE ~Allowed(r)
  BY <1>1 DEF RunScript, storeVars, LimitInv, CountersCapped
<1>2. CASE Allowed(r)
  <2> SUFFICES ASSUME NEW s \in Spans, NEW w \in Windows PROVE count'[s][w] <= Cap(s)
    BY DEF CountersCapped
  <2>1. CountRequest(r)
    BY <1>2 DEF RunScript
  <2>2. CASE w # WindowOf(s, r)
    BY <2>1, <2>2, CountEffect DEF LimitInv, CounterInv, CountersCapped
  <2>3. CASE w = WindowOf(s, r)
    <3>1. count'[s][w] = CurrentOf(s, r) + 1
      BY <2>1, <2>3, CountEffect DEF LimitInv, CounterInv
    <3>2. CurrentOf(s, r) < Cap(s)
      BY <1>2 DEF Allowed, Cap, Spans, LimitInv, SameLimits
    <3>3. CurrentOf(s, r) \in Nat /\ Cap(s) \in Nat
      BY RequestTypes, CapType DEF LimitInv, CounterInv
    <3> QED BY <3>1, <3>2, <3>3
  <2> QED BY <2>2, <2>3
<1> QED BY <1>1, <1>2

\* A refusal is passed on as one: the counter that refused equals its limit.
LEMMA RefusalIsRaised ==
  ASSUME LimitInv, NEW r \in Requests, ~Allowed(r)
  PROVE  Verdict(r) \in {"minute limit", "daily quota"}
<1>1. PICK s \in Spans : ~(CurrentOf(s, r) < Cap(s))
  BY DEF Allowed, Cap, Spans, LimitInv, SameLimits
<1>2. \A t \in Spans : /\ CurrentOf(t, r) \in Nat /\ Cap(t) \in Nat
                       /\ WindowOf(t, r) \in Windows
  BY RequestTypes, CapType DEF LimitInv, CounterInv
<1>3. /\ CurrentOf(s, r) <= count[s][WindowOf(s, r)]
      /\ count[s][WindowOf(s, r)] <= Cap(s)
      /\ count[s][WindowOf(s, r)] \in Nat
  BY <1>2, CurrentIsCounted
     DEF CurrentOf, LimitInv, CountersCapped, CounterInv, TypeInv, TypeOK
<1>4. CurrentOf(s, r) = Cap(s)
  BY <1>1, <1>2, <1>3
<1> QED BY <1>4 DEF Verdict, Cap, Spans, LimitInv, SameLimits

\* What a script does to the history: counts grow, for its request only.
LEMMA RunScriptHistory ==
  ASSUME TypeInv, NEW r \in Requests, RunScript(r)
  PROVE  /\ pc[r] = "counting"
         /\ \A q \in Requests : ran[q] > 0 => ran'[q] > 0
         /\ Allowed(r) => ran'[r] > 0
         /\ \A s \in Spans : ranLate[s] \subseteq ranLate'[s]
         /\ \A s \in Spans : Allowed(r) /\ r \notin ranLate'[s]
                                => now < WindowEnd(s, WindowOf(s, r))
<1>1. CASE ~Allowed(r)
  BY <1>1 DEF RunScript, storeVars
<1>2. CASE Allowed(r)
  <2>1. CountRequest(r) /\ pc[r] = "counting"
    BY <1>2 DEF RunScript
  <2>2. ran' = [ran EXCEPT ![r] = @ + 1] /\ ran \in [Requests -> Nat]
    BY <2>1 DEF CountRequest, TypeInv, TypeOK
  <2>3. (\A q \in Requests : ran[q] > 0 => ran'[q] > 0) /\ ran'[r] > 0
    BY <2>2
  <2>4. \A s \in Spans : ranLate'[s] = IF now < WindowEnd(s, WindowOf(s, r))
                                       THEN ranLate[s] ELSE ranLate[s] \cup {r}
    BY <2>1 DEF CountRequest
  <2> QED BY <2>1, <2>3, <2>4
<1> QED BY <1>1, <1>2

\* A set of requests that only shrinks stays within the limit.
LEMMA FewerStayCapped ==
  ASSUME LimitInv, \A s \in Spans, w \in Windows : InTime(s, w)' \subseteq InTime(s, w)
  PROVE  InTimeCapped'
<1> SUFFICES ASSUME NEW s \in Spans, NEW w \in Windows
             PROVE  Cardinality(InTime(s, w)') <= Cap(s)
  BY DEF InTimeCapped
<1>1. /\ IsFiniteSet(InTime(s, w)) /\ Cardinality(InTime(s, w)) \in Nat
      /\ Cardinality(InTime(s, w)) <= Cap(s)
  BY InTimeCounted DEF LimitInv, InTimeCapped
<1>2. InTime(s, w)' \subseteq InTime(s, w)
  OBVIOUS
<1>3. /\ Cardinality(InTime(s, w)') <= Cardinality(InTime(s, w))
      /\ Cardinality(InTime(s, w)') \in Nat
  BY <1>1, <1>2, FS_Subset, FS_CardinalityType
<1> QED BY <1>1, <1>3, CapType

\* A request let on by the store still fits in its window.
LEMMA OneMoreFits ==
  ASSUME LimitInv, NEW r \in Requests, Reply(r), Allowed(r)
  PROVE  InTimeCapped'
<1> SUFFICES ASSUME NEW s \in Spans, NEW w \in Windows
             PROVE  Cardinality(InTime(s, w)') <= Cap(s)
  BY DEF InTimeCapped
<1> DEFINE T == InTime(s, w)
           U == InTime(s, w)'
<1>1. /\ RunScript(r) /\ pc' = [pc EXCEPT ![r] = Verdict(r)]
      /\ UNCHANGED <<now, asked>> /\ TypeInv
  BY DEF Reply, LimitInv, CounterInv
<1>2. \A q \in Requests : q # r => pc'[q] = pc[q]
  BY <1>1
<1>3. U \subseteq T \cup {r}
  BY <1>1, <1>2, RunScriptHistory DEF InTime, WindowOf
<1>4. /\ IsFiniteSet(T) /\ Cardinality(T) \in Nat
      /\ Cardinality(T) <= Counted(s, w) /\ Cardinality(T) <= Cap(s)
  BY InTimeCounted DEF LimitInv, InTimeCapped
<1>5. Cap(s) \in Nat /\ Counted(s, w) \in Nat
  BY CapType, CountedType DEF LimitInv, CounterInv
<1>6. CASE r \notin U
  <2>1. U \subseteq T
    BY <1>3, <1>6
  <2> HIDE DEF T, U
  <2>2. Cardinality(U) <= Cardinality(T) /\ Cardinality(U) \in Nat
    BY <1>4, <2>1, FS_Subset, FS_CardinalityType
  <2> QED BY <1>4, <1>5, <2>2 DEF U
<1>7. CASE r \in U
  <2>1. w = WindowOf(s, r) /\ r \notin ranLate'[s]
    BY <1>1, <1>7 DEF InTime, WindowOf
  <2>2. now < WindowEnd(s, w)
    BY <1>1, <2>1, RunScriptHistory
  <2>3. CurrentOf(s, r) = Counted(s, w)
    BY <2>1, <2>2, CurrentIsCounted DEF CurrentOf, LimitInv
  <2>4. CurrentOf(s, r) < Cap(s)
    BY DEF Allowed, Cap, Spans, LimitInv, SameLimits
  <2> HIDE DEF T, U
  <2>5. IsFiniteSet(T \cup {r}) /\ Cardinality(T \cup {r}) <= Cardinality(T) + 1
    <3>1. IsFiniteSet(T)
      BY <1>4
    <3>2. /\ IsFiniteSet(T \cup {r})
          /\ \/ Cardinality(T \cup {r}) = Cardinality(T)
             \/ Cardinality(T \cup {r}) = Cardinality(T) + 1
      BY <3>1, FS_AddElement, Zenon
    <3> QED BY <1>4, <3>2
  <2>6. /\ Cardinality(U) <= Cardinality(T \cup {r}) /\ Cardinality(U) \in Nat
        /\ Cardinality(T \cup {r}) \in Nat
    BY <1>3, <2>5, FS_Subset, FS_CardinalityType
  <2>7. Cardinality(U) <= Cap(s)
    BY <1>4, <1>5, <2>3, <2>4, <2>5, <2>6
  <2> QED BY <2>7 DEF U
<1> QED BY <1>6, <1>7

\* A reply keeps the limits.
LEMMA ReplyKeepsLimits ==
  ASSUME LimitInv, NEW r \in Requests, Reply(r)
  PROVE  RefusedAnswered' /\ AdmittedAreCounted' /\ InTimeCapped'
<1>1. /\ RunScript(r) /\ pc' = [pc EXCEPT ![r] = Verdict(r)]
      /\ UNCHANGED <<now, asked>> /\ TypeInv
      /\ refused' = IF Allowed(r) THEN refused ELSE refused \cup {r}
  BY DEF Reply, LimitInv, CounterInv
<1>2. /\ \A q \in Requests : q # r => pc'[q] = pc[q]
      /\ pc'[r] = Verdict(r) /\ pc[r] = "counting"
  BY <1>1, RunScriptHistory DEF TypeInv, TypeOK
<1>3. refused \subseteq Requests /\ r \notin refused
  BY <1>2 DEF TypeInv, TypeOK, LimitInv, RefusedAnswered, CounterInv
<1>4. CASE Allowed(r)
  <2>1. RefusedAnswered'
    BY <1>1, <1>2, <1>3, <1>4 DEF LimitInv, RefusedAnswered
  <2>2. AdmittedAreCounted'
    BY <1>1, <1>2, <1>4, RunScriptHistory DEF LimitInv, AdmittedAreCounted
  <2> QED BY <1>4, <2>1, <2>2, OneMoreFits
<1>5. CASE ~Allowed(r)
  <2>1. Verdict(r) \in {"minute limit", "daily quota"}
    BY <1>5, RefusalIsRaised
  <2>2. RefusedAnswered'
    BY <1>1, <1>2, <1>3, <1>5, <2>1 DEF LimitInv, RefusedAnswered
  <2>3. AdmittedAreCounted'
    BY <1>1, <1>2, <2>1, RunScriptHistory DEF LimitInv, AdmittedAreCounted
  <2>4. \A s \in Spans, w \in Windows : InTime(s, w)' \subseteq InTime(s, w)
    BY <1>1, <1>2, <2>1, RunScriptHistory DEF InTime, WindowOf
  <2> QED BY <2>2, <2>3, <2>4, FewerStayCapped
<1> QED BY <1>4, <1>5

\* A step that is not a reply lets no request on and answers no refusal.
LEMMA OthersKeepLimits ==
  ASSUME LimitInv, [Next]_vars, \A r \in Requests : ~Reply(r)
  PROVE  RefusedAnswered' /\ AdmittedAreCounted' /\ InTimeCapped'
<1>1. TypeInv
  BY DEF LimitInv, CounterInv
<1>2. /\ refused' = refused
      /\ \A r \in Requests : /\ pc'[r] \in {"admitted", "minute limit", "daily quota"}
                                  => pc'[r] = pc[r] /\ asked'[r] = asked[r]
                             /\ pc[r] \in {"admitted", "minute limit", "daily quota"}
                                  => pc'[r] = pc[r]
      /\ \/ UNCHANGED storeVars
         \/ \E r \in Requests : RunScript(r)
  <2>1. CASE UNCHANGED vars
    BY <2>1 DEF vars
  <2>2. ASSUME NEW q \in Requests, Ask(q) PROVE <1>2!:
    BY <1>1, <2>2 DEF Ask, TypeInv, TypeOK
  <2>3. ASSUME NEW q \in Requests, StoreError(q) PROVE <1>2!:
    <3>1. RunScript(q) \/ UNCHANGED storeVars
      BY <2>3 DEF StoreError
    <3> QED BY <1>1, <2>3, <3>1 DEF StoreError, TypeInv, TypeOK
  <2>4. ASSUME NEW q \in Requests, Resend(q) PROVE <1>2!:
    BY <1>1, <2>4 DEF Resend, TypeInv, TypeOK
  <2>5. CASE Tick \/ Deploy
    BY <2>5 DEF Tick, Deploy
  <2>6. CASE Done
    BY <2>1, <2>6 DEF Done
  <2> QED BY <2>1, <2>2, <2>3, <2>4, <2>5, <2>6 DEF Next
<1>3. /\ \A r \in Requests : ran[r] > 0 => ran'[r] > 0
      /\ \A s \in Spans : ranLate[s] \subseteq ranLate'[s]
  BY <1>1, <1>2, RunScriptHistory DEF storeVars
<1>4. RefusedAnswered'
  BY <1>1, <1>2 DEF LimitInv, RefusedAnswered, TypeInv, TypeOK
<1>5. AdmittedAreCounted'
  BY <1>2, <1>3 DEF LimitInv, AdmittedAreCounted
<1>6. \A s \in Spans, w \in Windows : InTime(s, w)' \subseteq InTime(s, w)
  BY <1>2, <1>3 DEF InTime, WindowOf
<1> QED BY <1>4, <1>5, <1>6, FewerStayCapped

\* Settings that are the first after a step were the first before it.
LEMMA StillSteady ==
  ASSUME TypeInv, [Next]_vars, Steady'
  PROVE  Steady
<1>1. deployment' = deployment \/ Deploy
  BY DEF Next, vars, Ask, Reply, StoreError, Resend, Tick, Deploy, Done
<1>2. CASE Deploy
  <2> DEFINE S == [minute : Nat, day : Nat]
  <2>1. Limits \in Seq(S)
    BY LimitsAssumption
  <2> HIDE DEF S
  <2>2. DOMAIN Limits = 1 .. Len(Limits) /\ Len(Limits) \in Nat
    BY <2>1, LenProperties
  <2>3. deployment \in 1 .. Len(Limits)
    BY <2>2 DEF TypeInv, TypeOK
  <2>4. deployment' = deployment + 1
    BY <1>2 DEF Deploy
  <2> QED BY <2>2, <2>3, <2>4 DEF Steady
<1> QED BY <1>1, <1>2 DEF Steady

\* Every step under the first settings keeps the limits.
LEMMA StepLimits ==
  ASSUME LimitInv, Steady, [Next]_vars
  PROVE  LimitInv'
<1>1. CounterInv'
  BY StepCounts DEF LimitInv
<1>2. SameLimits'
  <2>1. \/ limit' = limit
        \/ \E r \in Requests : limit' = [limit EXCEPT ![r] = Limits[deployment]]
    BY DEF Next, vars, Ask, Reply, StoreError, Resend, Tick, Deploy, Done
  <2>2. Limits[deployment] = Limits[1] /\ limit \in [Requests -> [minute : Nat, day : Nat]]
    BY DEF Steady, LimitInv, CounterInv, TypeInv, TypeOK
  <2> QED BY <2>1, <2>2 DEF LimitInv, SameLimits
<1>3. CountersCapped'
  <2>1. CASE \E r \in Requests : RunScript(r)
    BY <2>1, RunScriptCapped
  <2>2. CASE UNCHANGED storeVars
    BY <2>2 DEF storeVars, LimitInv, CountersCapped
  <2> QED BY <2>1, <2>2, StepShape DEF LimitInv, CounterInv
<1>4. RefusedAnswered' /\ AdmittedAreCounted' /\ InTimeCapped'
  BY ReplyKeepsLimits, OthersKeepLimits
<1> QED BY <1>1, <1>2, <1>3, <1>4 DEF LimitInv

\* Nobody has been admitted or refused at first.
LEMMA InitLimits == Init => LimitInv
<1> SUFFICES ASSUME Init PROVE LimitInv
  OBVIOUS
<1>1. CounterInv /\ SameLimits /\ RefusedAnswered /\ AdmittedAreCounted
  BY InitCounts DEF Init, SameLimits, RefusedAnswered, AdmittedAreCounted
<1>2. \A s \in Spans : Cap(s) \in Nat
  BY CapType
<1>3. CountersCapped
  BY <1>2 DEF Init, CountersCapped
<1>4. \A s \in Spans, w \in Windows : InTime(s, w) = {}
  BY DEF Init, InTime
<1>5. InTimeCapped
  BY <1>2, <1>4, FS_EmptySet DEF InTimeCapped
<1> QED BY <1>1, <1>3, <1>5 DEF LimitInv

\* The invariant of the limits: the counters are exact always, and the limits
\* hold until a deployment changes the settings.
SteadyInv == CounterInv /\ (Steady => LimitInv)

LEMMA SteadyInvariant == Spec => []SteadyInv
<1>1. Init => SteadyInv
  BY InitLimits, InitCounts DEF SteadyInv
<1>2. SteadyInv /\ [Next]_vars => SteadyInv'
  BY StepCounts, StepLimits, StillSteady DEF SteadyInv, CounterInv
<1> QED BY <1>1, <1>2, PTL DEF Spec

\* Under settings that stay, what the store refuses does not go on.
THEOREM RefusalsHold == Spec => []RefusedStop
<1>1. SteadyInv => RefusedStop
  BY DEF SteadyInv, LimitInv, RefusedAnswered, RefusedDoNotGoOn, RefusedStop
<1> QED BY <1>1, SteadyInvariant, PTL

\* Under settings that stay, no more requests of a minute or a day that are
\* counted before it is over go on than the limit allows.
THEOREM LimitsAreKept == Spec => []LimitsKept
<1>1. SteadyInv => LimitsKept
  <2> SUFFICES ASSUME SteadyInv, Steady,
                      NEW s \in Spans, NEW w \in Windows, InTime(s, w) # {}
               PROVE  \E r \in InTime(s, w) : Cardinality(InTime(s, w)) <= limit[r][s]
    BY DEF LimitsKept
  <2>1. PICK r \in InTime(s, w) : TRUE
    OBVIOUS
  <2>2. r \in Requests /\ limit[r][s] = Cap(s)
    BY DEF InTime, SteadyInv, LimitInv, SameLimits, Cap
  <2>3. Cardinality(InTime(s, w)) <= Cap(s)
    BY DEF SteadyInv, LimitInv, InTimeCapped
  <2> QED BY <2>2, <2>3
<1> QED BY <1>1, SteadyInvariant, PTL
=============================================================================
