-------------------------- MODULE AnsweringProofs --------------------------
(***************************************************************************)
(* Theorems about Answering, for every context, set of arguments and bound:*)
(* what a provider gets is whole and has the verdicts of Luhn, what is     *)
(* retried is not mixed, what is stored is what the client saw, and the    *)
(* whole implements AnswerTurns.  First about the card validator, for      *)
(* numbers of every length.                                                *)
(***************************************************************************)
EXTENDS Answering, TotalsProofs, SequenceTheorems

-----------------------------------------------------------------------------
(* The card validator: the addends. *)

\* The places of a number.
LEMMA Places ==
  ASSUME NEW card \in Seq(Digits)
  PROVE  /\ Len(card) \in Nat
         /\ IsFiniteSet(1 .. Len(card))
         /\ card \in [1 .. Len(card) -> Digits]
<1>1. Len(card) \in Nat /\ card \in [1 .. Len(card) -> Digits]
  BY LenProperties
<1> QED BY <1>1, FS_Interval

\* A doubled digit adds the sum of the digits of the product.
LEMMA DoubledDigit ==
  ASSUME NEW d \in Digits
  PROVE  /\ DigitSum(2 * d) = IF 2 * d > 9 THEN 2 * d - 9 ELSE 2 * d
         /\ DigitSum(2 * d) \in Digits
BY DEF Digits, DigitSum

\* Every digit adds a number.
LEMMA AddendsType ==
  ASSUME NEW card \in Seq(Digits)
  PROVE  Addends(card) \in [1 .. Len(card) -> Nat]
<1> SUFFICES ASSUME NEW i \in 1 .. Len(card) PROVE Addend(card, i) \in Nat
  BY DEF Addends
<1>1. card[i] \in Digits
  BY Places
<1>2. 2 * card[i] \in Nat /\ card[i] \in Nat /\ (2 * card[i] > 9 => 2 * card[i] - 9 \in Nat)
  BY <1>1 DEF Digits
<1> QED BY <1>2 DEF Addend

\* A digit and a digit in its place add different numbers, at most 9.
LEMMA AddendInjective ==
  ASSUME NEW a \in Seq(Digits), NEW b \in Seq(Digits), Len(a) = Len(b),
         NEW i \in 1 .. Len(a), a[i] # b[i]
  PROVE  Addend(a, i) \in Digits /\ Addend(b, i) \in Digits /\ Addend(a, i) # Addend(b, i)
<1>1. a[i] \in Digits /\ b[i] \in Digits
  BY Places
<1>2. Index(a, i) = Index(b, i)
  BY DEF Index
<1>3. CASE Index(a, i) % 2 = 1
  BY <1>1, <1>2, <1>3 DEF Addend, Digits
<1>4. CASE Index(a, i) % 2 # 1
  BY <1>1, <1>2, <1>4 DEF Addend, Digits
<1> QED BY <1>3, <1>4
-----------------------------------------------------------------------------
(* The verdict is that of the algorithm of Luhn. *)

\* The sum of a function on 1 .. n is its last value and the sum before it.
LEMMA TotalLast ==
  ASSUME NEW n \in Nat \ {0}, NEW f \in [1 .. n -> Nat]
  PROVE  Total(f) = Total([i \in 1 .. (n - 1) |-> f[i]]) + f[n]
<1> DEFINE g == [i \in 1 .. (n - 1) |-> f[i]]
           h == [f EXCEPT ![n] = 0]
<1>1. IsFiniteSet(1 .. n) /\ n \in 1 .. n
  BY FS_Interval
<1>2. Total(f) = Total(h) + f[n]
  BY <1>1, TotalSplit
<1>3. Units(h) = Units(g)
  <2>1. /\ DOMAIN h = 1 .. n /\ DOMAIN g = 1 .. (n - 1)
        /\ h[n] = 0 /\ \A i \in 1 .. (n - 1) : h[i] = g[i]
    OBVIOUS
  <2>2. \A i : i \in 1 .. n <=> i \in 1 .. (n - 1) \/ i = n
    OBVIOUS
  <2>3. {n} \X (1 .. h[n]) = {}
    BY <2>1
  <2> HIDE DEF g, h
  <2>4. Units(h) \subseteq Units(g)
    <3> SUFFICES ASSUME NEW i \in DOMAIN h, NEW u \in {i} \X (1 .. h[i]) PROVE u \in Units(g)
      BY DEF Units
    <3>1. i # n
      BY <2>3
    <3>2. i \in DOMAIN g /\ g[i] = h[i]
      BY <2>1, <2>2, <3>1
    <3> QED BY <3>2 DEF Units
  <2>5. Units(g) \subseteq Units(h)
    <3> SUFFICES ASSUME NEW i \in DOMAIN g, NEW u \in {i} \X (1 .. g[i]) PROVE u \in Units(h)
      BY DEF Units
    <3>1. i \in DOMAIN h /\ g[i] = h[i]
      BY <2>1, <2>2
    <3> QED BY <3>1 DEF Units
  <2> QED BY <2>4, <2>5
<1> QED BY <1>2, <1>3 DEF Total

\* A number that completes another to a multiple of ten.
LEMMA CompletesToTen ==
  ASSUME NEW s \in Nat, NEW d \in Digits
  PROVE  (s + d) % 10 = 0 <=> d = (10 - (s % 10)) % 10
<1> DEFINE q == s \div 10
           r == s % 10
<1>1. q \in Nat /\ r \in 0 .. 9 /\ s = 10 * q + r
  OBVIOUS
<1> HIDE DEF q, r
<1>2. (s + d) % 10 = (r + d) % 10
  BY <1>1 DEF Digits
<1>3. (r + d) % 10 = 0 <=> d = (10 - r) % 10
  BY <1>1 DEF Digits
<1> QED BY <1>2, <1>3 DEF r

\* The validator accepts the numbers whose last digit is the check digit of the
\* rest, and no other.
THEOREM VerdictOfLuhn ==
  ASSUME NEW card \in Seq(Digits), card # << >>
  PROVE  IsValid(card) <=> IsLuhn(card)
<1> DEFINE n == Len(card)
           f == Addends(card)
           g == [i \in 1 .. (n - 1) |-> f[i]]
           p == [i \in 1 .. (n - 1) |->
                    IF (n - 1 - i) % 2 = 0 THEN DigitSum(2 * card[i]) ELSE card[i]]
<1>1. /\ n \in Nat \ {0} /\ card \in [1 .. n -> Digits]
      /\ f \in [1 .. n -> Nat] /\ n \in 1 .. n
  BY Places, AddendsType, EmptySeq
<1>2. f[n] = card[n] /\ card[n] \in Digits
  <2>1. Index(card, n) = 0
    BY <1>1 DEF Index
  <2> QED BY <1>1, <2>1 DEF Addends, Addend
<1>3. g = p
  <2> SUFFICES ASSUME NEW i \in 1 .. (n - 1) PROVE g[i] = p[i]
    OBVIOUS
  <2>1. i \in 1 .. n /\ card[i] \in Digits
    BY <1>1
  <2>2. f[i] = Addend(card, i)
    BY <2>1 DEF Addends
  <2>3. Index(card, i) % 2 = 1 <=> (n - 1 - i) % 2 = 0
    <3>1. n - 1 - i \in Nat /\ Index(card, i) = (n - 1 - i) + 1
      BY <1>1 DEF Index
    <3>2. \A k \in Nat : (k + 1) % 2 = 1 <=> k % 2 = 0
      OBVIOUS
    <3> QED BY <3>1, <3>2
  <2>4. DigitSum(2 * card[i]) = IF 2 * card[i] > 9 THEN 2 * card[i] - 9 ELSE 2 * card[i]
    BY <2>1, DoubledDigit
  <2> QED BY <2>2, <2>3, <2>4 DEF Addend
<1>4. Total(p) = PayloadSum(card)
  BY DEF PayloadSum
<1>5. Total(g) \in Nat
  <2>1. g \in [1 .. (n - 1) -> Nat] /\ IsFiniteSet(1 .. (n - 1))
    BY <1>1, FS_Interval
  <2> QED BY <2>1, TotalIsNat
<1>6. Total(f) = Total(g) + f[n]
  BY <1>1, TotalLast
<1> HIDE DEF f, g, p
<1>7. (PayloadSum(card) + card[n]) % 10 = 0 <=> IsLuhn(card)
  BY <1>2, <1>3, <1>4, <1>5, CompletesToTen DEF IsLuhn, CheckDigit
<1> QED BY <1>2, <1>3, <1>4, <1>6, <1>7 DEF IsValid, f
-----------------------------------------------------------------------------
(* What the check is good for. *)

\* Two totals that differ by less than ten are not both multiples of ten.
LEMMA NotBothTens ==
  ASSUME NEW s \in Nat, NEW a \in Digits, NEW b \in Digits, a # b,
         a <= s, s % 10 = 0
  PROVE  (s - a + b) % 10 # 0
<1>1. s = 10 * (s \div 10) /\ s \div 10 \in Nat
  OBVIOUS
<1>2. \E k \in Int : s = 10 * k
  BY <1>1
<1>3. PICK k \in Int : s = 10 * k
  BY <1>2
<1>4. b - a \in (-9) .. 9 /\ b - a # 0
  BY DEF Digits
<1>5. \A j \in Int : 10 * j # 10 * k + (b - a)
  BY <1>4
<1>6. s - a + b = 10 * k + (b - a) /\ s - a + b \in Int
  BY <1>3 DEF Digits
<1>7. \A m \in Int : m % 10 = 0 => \E j \in Int : m = 10 * j
  OBVIOUS
<1> QED BY <1>5, <1>6, <1>7

\* One wrong digit is always found: a number that differs from a valid one in
\* one place is not valid.
THEOREM SingleErrorsDetected ==
  ASSUME NEW a \in Seq(Digits), NEW b \in Seq(Digits), Len(a) = Len(b),
         NEW i \in 1 .. Len(a), a[i] # b[i],
         \A j \in 1 .. Len(a) : j # i => a[j] = b[j],
         IsValid(a)
  PROVE  ~IsValid(b)
<1> DEFINE f == Addends(a)
           g == Addends(b)
           S == 1 .. Len(a)
<1>1. f \in [S -> Nat] /\ g \in [S -> Nat] /\ IsFiniteSet(S)
  BY AddendsType, Places
<1>2. f[i] = Addend(a, i) /\ g[i] = Addend(b, i)
  BY DEF Addends
<1>3. \A j \in S : j # i => f[j] = g[j]
  BY DEF Addends, Addend, Index
<1>4. g = [f EXCEPT ![i] = g[i]]
  <2> HIDE DEF f, g
  <2> QED BY <1>1, <1>3
<1>5. f[i] \in Digits /\ g[i] \in Digits /\ f[i] # g[i]
  BY <1>2, AddendInjective
<1> HIDE DEF f, g
<1>6. Total(g) = Total(f) - f[i] + g[i] /\ f[i] <= Total(f) /\ Total(f) \in Nat
  <2>1. g[i] \in Nat
    BY <1>1
  <2>2. /\ Total([f EXCEPT ![i] = g[i]]) = Total(f) - f[i] + g[i]
        /\ f[i] <= Total(f)
    BY <1>1, <2>1, TotalExcept
  <2> QED BY <1>1, <1>4, <2>2, TotalIsNat
<1>7. Total(f) % 10 = 0
  BY DEF IsValid, f
<1>8. Total(g) % 10 # 0
  BY <1>5, <1>6, <1>7, NotBothTens
<1> QED BY <1>8 DEF IsValid, g

\* What a digit adds in the two parities.
Doubled(d) == IF 2 * d > 9 THEN 2 * d - 9 ELSE 2 * d

\* Two neighbours that change places change the total by less than ten, and by
\* nothing only if they are 0 and 9 or equal.
LEMMA SwapDifference ==
  ASSUME NEW x \in Digits, NEW y \in Digits, x # y, {x, y} # {0, 9}
  PROVE  /\ Doubled(y) + x \in Nat /\ Doubled(x) + y \in Nat
         /\ (Doubled(y) + x) - (Doubled(x) + y) \in (-9) .. 9
         /\ (Doubled(y) + x) - (Doubled(x) + y) # 0
<1>1. /\ x = 0 => y # 9
      /\ x = 9 => y # 0
  OBVIOUS
<1> QED BY <1>1 DEF Doubled, Digits

\* A multiple of ten and a number less than ten away from it.
LEMMA NearTens ==
  ASSUME NEW s \in Nat, NEW e \in (-9) .. 9, e # 0, s + e \in Nat, s % 10 = 0
  PROVE  (s + e) % 10 # 0
<1>1. s = 10 * (s \div 10) /\ s \div 10 \in Nat
  OBVIOUS
<1>2. PICK k \in Nat : s = 10 * k
  BY <1>1
<1>3. \A j \in Int : 10 * j # 10 * k + e
  OBVIOUS
<1>4. \A m \in Nat : m % 10 = 0 => \E j \in Int : m = 10 * j
  OBVIOUS
<1> QED BY <1>2, <1>3, <1>4

\* Two neighbouring digits that changed places are always found, unless they
\* are 0 and 9.
THEOREM SwapsDetected ==
  ASSUME NEW a \in Seq(Digits), NEW b \in Seq(Digits), Len(a) = Len(b),
         NEW i \in 1 .. Len(a), NEW k \in 1 .. Len(a), k = i + 1,
         b[i] = a[k], b[k] = a[i], a[i] # a[k], {a[i], a[k]} # {0, 9},
         \A j \in 1 .. Len(a) : j # i /\ j # k => a[j] = b[j],
         IsValid(a)
  PROVE  ~IsValid(b)
<1> DEFINE f == Addends(a)
           g == Addends(b)
           S == 1 .. Len(a)
           x == a[i]
           y == a[k]
<1>1. /\ f \in [S -> Nat] /\ g \in [S -> Nat] /\ IsFiniteSet(S)
      /\ Len(a) \in Nat /\ i \in S /\ k \in S /\ k # i
      /\ a \in [S -> Digits] /\ b \in [S -> Digits]
  BY AddendsType, Places
<1>2. x \in Digits /\ y \in Digits
  BY <1>1
<1>3. /\ f[i] = Addend(a, i) /\ g[i] = Addend(b, i)
      /\ f[k] = Addend(a, k) /\ g[k] = Addend(b, k)
  BY <1>1 DEF Addends
<1>4. \A j \in S : j # i /\ j # k => f[j] = g[j]
  BY DEF Addends, Addend, Index
<1>5. \/ /\ f[i] = Doubled(x) /\ f[k] = y /\ g[i] = Doubled(y) /\ g[k] = x
      \/ /\ f[i] = x /\ f[k] = Doubled(y) /\ g[i] = y /\ g[k] = Doubled(x)
  <2>1. /\ Index(a, i) = Index(b, i) /\ Index(a, k) = Index(b, k)
        /\ Index(a, i) = Index(a, k) + 1 /\ Index(a, k) \in Nat
    BY <1>1 DEF Index
  <2>2. \A n \in Nat : (n + 1) % 2 = 1 <=> ~(n % 2 = 1)
    OBVIOUS
  <2>3. Index(a, i) % 2 = 1 <=> ~(Index(a, k) % 2 = 1)
    BY <2>1, <2>2
  <2> QED BY <1>3, <2>1, <2>3 DEF Addend, Doubled
<1> HIDE DEF f, g
<1> DEFINE e == (g[i] + g[k]) - (f[i] + f[k])
<1>6. e \in (-9) .. 9 /\ e # 0
  <2>1. x # y /\ {x, y} # {0, 9}
    OBVIOUS
  <2> HIDE DEF x, y
  <2>2. /\ Doubled(y) + x \in Nat /\ Doubled(x) + y \in Nat
        /\ (Doubled(y) + x) - (Doubled(x) + y) \in (-9) .. 9
        /\ (Doubled(y) + x) - (Doubled(x) + y) # 0
    BY <1>2, <2>1, SwapDifference
  <2>3. CASE e = (Doubled(y) + x) - (Doubled(x) + y)
    BY <2>2, <2>3
  <2>4. CASE e = (y + Doubled(x)) - (x + Doubled(y))
    <3>1. Doubled(x) \in Nat /\ Doubled(y) \in Nat /\ x \in Nat /\ y \in Nat
      BY <1>2 DEF Doubled, Digits
    <3>2. e = 0 - ((Doubled(y) + x) - (Doubled(x) + y))
      BY <2>4, <3>1
    <3> HIDE DEF e
    <3>3. \A z \in (-9) .. 9 : z # 0 => 0 - z \in (-9) .. 9 /\ 0 - z # 0
      OBVIOUS
    <3> QED BY <2>2, <3>2, <3>3
  <2> QED BY <1>5, <2>3, <2>4
<1>7. Total(f) \in Nat /\ Total(g) \in Nat /\ Total(g) = Total(f) + e
  <2> DEFINE h == [f EXCEPT ![i] = g[i]]
  <2>1. h \in [S -> Nat] /\ h[k] = f[k] /\ h[i] = g[i]
    BY <1>1
  <2>2. g = [h EXCEPT ![k] = g[k]]
    BY <1>1, <1>4
  <2>3. f[i] \in Nat /\ g[i] \in Nat /\ f[k] \in Nat /\ g[k] \in Nat
    BY <1>1
  <2>4. Total([f EXCEPT ![i] = g[i]]) = Total(f) - f[i] + g[i]
    <3>1. /\ f \in [S -> Nat] /\ IsFiniteSet(S) /\ i \in S /\ g[i] \in Nat
      BY <1>1, <2>3
    <3> QED BY <3>1, TotalExcept
  <2> HIDE DEF h
  <2>5. Total([h EXCEPT ![k] = g[k]]) = Total(h) - h[k] + g[k]
    <3>1. /\ h \in [S -> Nat] /\ IsFiniteSet(S) /\ k \in S /\ g[k] \in Nat
      BY <1>1, <2>1, <2>3
    <3> QED BY <3>1, TotalExcept
  <2>6. Total(f) \in Nat /\ Total(g) \in Nat
    BY <1>1, TotalIsNat
  <2>7. Total(h) = Total(f) - f[i] + g[i]
    BY <2>4 DEF h
  <2>8. Total(g) = Total(h) - f[k] + g[k]
    BY <2>1, <2>2, <2>5
  <2> QED BY <2>3, <2>6, <2>7, <2>8 DEF e
<1>8. Total(f) % 10 = 0
  BY DEF IsValid, f
<1> HIDE DEF e
<1>9. Total(g) % 10 # 0
  BY <1>6, <1>7, <1>8, NearTens
<1> QED BY <1>9 DEF IsValid, g
-----------------------------------------------------------------------------
(* The lists the providers make. *)

\* What the loop has kept is what its steps make.
LEMMA KeptSteps ==
  ASSUME NEW E, NEW s \in Seq(E), NEW places
  PROVE  /\ Kept(s, places) \in [0 .. Len(s) -> Seq(E)]
         /\ Kept(s, places)[0] = << >>
         /\ \A n \in 1 .. Len(s) :
                Kept(s, places)[n] =
                    IF n \in places THEN Append(Kept(s, places)[n - 1], s[n])
                                    ELSE Kept(s, places)[n - 1]
<1> DEFINE l == Len(s)
           S == Seq(E)
           Kind(k, n) == IF n \in places THEN Append(k, s[n]) ELSE k
           step == [x \in (1 .. l) \X S |-> Kind(x[2], x[1])]
           Is(f) == f = [n \in 0 .. l |->
                           IF n = 0 THEN << >>
                           ELSE IF n \in places THEN Append(f[n - 1], s[n]) ELSE f[n - 1]]
<1>1. l \in Nat /\ << >> \in S /\ s \in [1 .. l -> E]
  BY LenProperties, EmptySeq
<1>2. step \in [(1 .. l) \X S -> S]
  <2>1. ASSUME NEW k \in S, NEW n \in 1 .. l PROVE Kind(k, n) \in S
    <3>1. s[n] \in E
      BY <1>1
    <3> QED BY <3>1, AppendProperties
  <2> HIDE DEF Kind
  <2> QED BY <2>1
<1>3. PICK g : Runs(g, S, << >>, l, step)
  <2> HIDE DEF step, l, S
  <2> QED BY <1>1, <1>2, Recursion
<1>4. ASSUME NEW n \in 1 .. l
      PROVE  g[n] = Kind(g[n - 1], n)
  <2>1. g[n - 1] \in S
    BY <1>1, <1>3 DEF Runs
  <2>2. <<n, g[n - 1]>> \in (1 .. l) \X S
    BY <2>1
  <2> HIDE DEF Kind, S, l
  <2>3. step[<<n, g[n - 1]>>] = Kind(g[n - 1], n)
    BY <2>2
  <2> QED BY <1>3, <2>3 DEF Runs
<1>5. Is(g)
  <2>1. g = [n \in 0 .. l |-> g[n]] /\ g[0] = << >>
    BY <1>3 DEF Runs
  <2>2. \A n \in 0 .. l : n = 0 \/ n \in 1 .. l
    BY <1>1
  <2> QED BY <1>4, <2>1, <2>2
<1>6. Is(CHOOSE f : Is(f))
  <2> HIDE DEF Is
  <2> QED BY <1>5
<1>7. Is(Kept(s, places))
  BY <1>6 DEF Kept
<1> HIDE DEF l
<1>8. \A n \in 1 .. l : n \in 0 .. l /\ n # 0
  BY <1>1
<1>9. 0 \in 0 .. l /\ \A n \in 0 .. l : n = 0 \/ n \in 1 .. l
  BY <1>1
<1> DEFINE kept == Kept(s, places)
<1> HIDE DEF kept
<1>10. kept[0] = << >> /\ kept = [n \in 0 .. l |-> kept[n]]
  BY <1>7, <1>9 DEF kept
<1>11. ASSUME NEW n \in 1 .. l
       PROVE  kept[n] = Kind(kept[n - 1], n)
  BY <1>7, <1>8 DEF kept
<1>12. 0 .. l \subseteq { n \in 0 .. l : kept[n] \in S }
  <2> DEFINE T == { n \in 0 .. l : kept[n] \in S }
  <2>1. 0 \in T
    BY <1>1, <1>9, <1>10
  <2>2. ASSUME NEW n \in 1 .. l, n - 1 \in T PROVE n \in T
    <3>1. s[n] \in E /\ kept[n - 1] \in S
      BY <1>1, <2>2
    <3>2. Append(kept[n - 1], s[n]) \in S
      BY <3>1, AppendProperties
    <3> QED BY <1>8, <1>11, <3>1, <3>2
  <2>3. 0 .. l \subseteq T
    <3> HIDE DEF T
    <3> QED BY <1>1, <2>1, <2>2, BoundedInduction
  <2> QED BY <2>3
<1>13. kept \in [0 .. l -> S]
  BY <1>10, <1>12
<1> QED BY <1>10, <1>11, <1>13 DEF kept, l

\* A list has as many elements as there are places.
LEMMA KeptLength ==
  ASSUME NEW E, NEW s \in Seq(E), NEW places \in SUBSET (1 .. Len(s))
  PROVE  /\ AtPlaces(s, places) \in Seq(E)
         /\ IsFiniteSet(places)
         /\ Len(AtPlaces(s, places)) = Cardinality(places)
<1> DEFINE kept == Kept(s, places)
           upTo(n) == { p \in places : p <= n }
           T == { n \in 0 .. Len(s) : /\ IsFiniteSet(upTo(n))
                                      /\ Len(kept[n]) = Cardinality(upTo(n)) }
<1>1. /\ Len(s) \in Nat
      /\ kept \in [0 .. Len(s) -> Seq(E)]
      /\ kept[0] = << >>
      /\ \A n \in 1 .. Len(s) :
            kept[n] = IF n \in places THEN Append(kept[n - 1], s[n]) ELSE kept[n - 1]
      /\ s \in [1 .. Len(s) -> E]
  BY LenProperties, KeptSteps
<1>0. \A p \in places : p \in 1 .. Len(s) /\ p >= 1 /\ p <= Len(s) /\ p \in Int
  BY <1>1
<1> HIDE DEF kept
<1>2. 0 \in T
  <2>1. upTo(0) = {}
    <3>1. \A p \in places : ~ (p <= 0)
      BY <1>0
    <3> QED BY <3>1, Zenon
  <2>2. Len(kept[0]) = 0 /\ 0 \in 0 .. Len(s)
    BY <1>1
  <2> QED BY <2>1, <2>2, FS_EmptySet
<1>3. ASSUME NEW n \in 1 .. Len(s), n - 1 \in T
      PROVE  n \in T
  <2>1. /\ n \in 0 .. Len(s) /\ n - 1 \in 0 .. Len(s)
        /\ kept[n - 1] \in Seq(E)
        /\ IsFiniteSet(upTo(n - 1))
        /\ Len(kept[n - 1]) = Cardinality(upTo(n - 1))
        /\ s[n] \in E
    BY <1>1, <1>3
  <2>2. CASE n \in places
    <3>1. upTo(n) = upTo(n - 1) \cup {n} /\ n \notin upTo(n - 1)
      <4>1. \A p \in places : p <= n <=> p <= n - 1 \/ p = n
        BY <1>0
      <4>2. ~ (n <= n - 1)
        BY <1>1
      <4> QED BY <2>2, <4>1, <4>2
    <3>2. Len(kept[n]) = Len(kept[n - 1]) + 1
      <4>1. kept[n] = Append(kept[n - 1], s[n])
        BY <1>1, <2>2
      <4> QED BY <2>1, <4>1, AppendProperties
    <3> HIDE DEF upTo
    <3>3. IsFiniteSet(upTo(n)) /\ Cardinality(upTo(n)) = Cardinality(upTo(n - 1)) + 1
      <4>1. /\ IsFiniteSet(upTo(n - 1) \cup {n})
            /\ Cardinality(upTo(n - 1) \cup {n}) = Cardinality(upTo(n - 1)) + 1
        BY <2>1, <3>1, FS_AddElement
      <4> QED BY <3>1, <4>1
    <3> QED BY <2>1, <3>2, <3>3
  <2>3. CASE n \notin places
    <3>1. upTo(n) = upTo(n - 1)
      <4>1. \A p \in places : p <= n <=> p <= n - 1
        BY <1>0, <2>3
      <4> QED BY <4>1
    <3>2. kept[n] = kept[n - 1]
      BY <1>1, <2>3
    <3> HIDE DEF upTo
    <3> QED BY <2>1, <3>1, <3>2
  <2> QED BY <2>2, <2>3
<1>4. 0 .. Len(s) \subseteq T
  <2> HIDE DEF T
  <2> QED BY <1>1, <1>2, <1>3, BoundedInduction
<1>5. upTo(Len(s)) = places /\ Len(s) \in 0 .. Len(s)
  <2>1. \A p \in places : p <= Len(s)
    BY <1>0
  <2>2. upTo(Len(s)) = places
    BY <2>1, Zenon
  <2> QED BY <1>1, <2>2
<1> HIDE DEF upTo
<1>6. IsFiniteSet(upTo(Len(s))) /\ Len(kept[Len(s)]) = Cardinality(upTo(Len(s)))
  BY <1>4, <1>5
<1> QED BY <1>1, <1>5, <1>6 DEF AtPlaces, kept

\* Every element is one of the list it is from, at one of the places.
LEMMA KeptElements ==
  ASSUME NEW E, NEW s \in Seq(E), NEW places, NEW n \in 0 .. Len(s),
         NEW i \in 1 .. Len(Kept(s, places)[n])
  PROVE  \E p \in places \cap (1 .. n) : Kept(s, places)[n][i] = s[p]
<1> DEFINE kept == Kept(s, places)
           T == { k \in 0 .. Len(s) :
                    \A j \in 1 .. Len(kept[k]) :
                        \E p \in places \cap (1 .. k) : kept[k][j] = s[p] }
<1>1. /\ Len(s) \in Nat
      /\ kept \in [0 .. Len(s) -> Seq(E)]
      /\ kept[0] = << >>
      /\ \A k \in 1 .. Len(s) :
            kept[k] = IF k \in places THEN Append(kept[k - 1], s[k]) ELSE kept[k - 1]
      /\ s \in [1 .. Len(s) -> E]
  BY LenProperties, KeptSteps
<1> HIDE DEF kept
<1>2. 0 \in T
  <2>1. Len(kept[0]) = 0 /\ 0 \in 0 .. Len(s)
    BY <1>1
  <2> QED BY <2>1
<1>3. ASSUME NEW k \in 1 .. Len(s), k - 1 \in T
      PROVE  k \in T
  <2>1. /\ k \in 0 .. Len(s) /\ k - 1 \in 0 .. Len(s)
        /\ kept[k - 1] \in Seq(E)
        /\ \A j \in 1 .. Len(kept[k - 1]) :
              \E p \in places \cap (1 .. k - 1) : kept[k - 1][j] = s[p]
        /\ s[k] \in E
    BY <1>1, <1>3
  <2>2. places \cap (1 .. k - 1) \subseteq places \cap (1 .. k)
    BY <1>1
  <2>3. CASE k \in places
    <3>1. kept[k] = Append(kept[k - 1], s[k])
      BY <1>1, <2>3
    <3>2. /\ Len(kept[k - 1]) \in Nat
          /\ Len(kept[k]) = Len(kept[k - 1]) + 1
          /\ \A j \in 1 .. Len(kept[k - 1]) : kept[k][j] = kept[k - 1][j]
          /\ kept[k][Len(kept[k - 1]) + 1] = s[k]
      BY <2>1, <3>1, AppendProperties, LenProperties
    <3>3. ASSUME NEW j \in 1 .. Len(kept[k])
          PROVE  \E p \in places \cap (1 .. k) : kept[k][j] = s[p]
      <4>1. CASE j = Len(kept[k - 1]) + 1
        BY <1>1, <2>3, <3>2, <4>1
      <4>2. CASE j # Len(kept[k - 1]) + 1
        <5>1. j \in 1 .. Len(kept[k - 1])
          BY <3>2, <4>2
        <5> QED BY <2>1, <2>2, <3>2, <5>1
      <4> QED BY <4>1, <4>2
    <3> QED BY <2>1, <3>3
  <2>4. CASE k \notin places
    <3>1. kept[k] = kept[k - 1]
      BY <1>1, <2>4
    <3> QED BY <2>1, <2>2, <3>1
  <2> QED BY <2>3, <2>4
<1>4. 0 .. Len(s) \subseteq T
  <2> HIDE DEF T
  <2> QED BY <1>1, <1>2, <1>3, BoundedInduction
<1> QED BY <1>4 DEF kept

\* Behind place m the elements that are kept follow each other as they did.
TailKept(E, s, places, m) ==
  LET head == Kept(s, places)[m]
      all == AtPlaces(s, places)
  IN  /\ head \in Seq(E)
      /\ all \in Seq(E)
      /\ Len(all) = Len(head) + Len(s) - m
      /\ \A i \in 1 .. Len(head) : all[i] = head[i]
      /\ \A i \in 1 .. Len(s) - m : all[Len(head) + i] = s[m + i]

\* They do if every place behind m is kept.
LEMMA KeptTail ==
  ASSUME NEW E, NEW s \in Seq(E), NEW places, NEW m \in 0 .. Len(s),
         \A p \in 1 .. Len(s) : m < p => p \in places
  PROVE  TailKept(E, s, places, m)
<1> DEFINE kept == Kept(s, places)
           head == kept[m]
           T == { n \in 0 .. Len(s) : m <= n =>
                    /\ Len(kept[n]) = Len(head) + n - m
                    /\ \A i \in 1 .. Len(head) : kept[n][i] = head[i]
                    /\ \A i \in 1 .. n - m : kept[n][Len(head) + i] = s[m + i] }
<1>1. /\ Len(s) \in Nat
      /\ kept \in [0 .. Len(s) -> Seq(E)]
      /\ \A n \in 1 .. Len(s) :
            kept[n] = IF n \in places THEN Append(kept[n - 1], s[n]) ELSE kept[n - 1]
      /\ s \in [1 .. Len(s) -> E]
  BY LenProperties, KeptSteps
<1>2. head \in Seq(E) /\ Len(head) \in Nat
  BY <1>1, LenProperties
<1> HIDE DEF kept
<1>3. ASSUME NEW n \in 0 .. Len(s), n = m
      PROVE  n \in T
  <2>1. Len(kept[n]) = Len(head) + n - m /\ n - m = 0
    BY <1>2, <1>3
  <2> QED BY <1>3, <2>1
<1>4. 0 \in T
  <2>1. 0 \in 0 .. Len(s) /\ (m <= 0 => m = 0)
    BY <1>1
  <2> QED BY <1>3, <2>1
<1>5. ASSUME NEW n \in 1 .. Len(s), n - 1 \in T
      PROVE  n \in T
  <2>1. n \in 0 .. Len(s) /\ n - 1 \in 0 .. Len(s) /\ kept[n - 1] \in Seq(E) /\ s[n] \in E
    BY <1>1
  <2>2. CASE n < m
    BY <2>1, <2>2
  <2>3. CASE n = m
    BY <1>3, <2>1, <2>3
  <2>4. CASE m < n
    <3>0. m <= n - 1 /\ n \in places
      BY <2>1, <2>4
    <3>1. /\ m <= n - 1 /\ n \in places
          /\ Len(kept[n - 1]) = Len(head) + (n - 1) - m
          /\ \A i \in 1 .. Len(head) : kept[n - 1][i] = head[i]
          /\ \A i \in 1 .. (n - 1) - m : kept[n - 1][Len(head) + i] = s[m + i]
      BY <1>5, <3>0
    <3> HIDE DEF head
    <3>2. kept[n] = Append(kept[n - 1], s[n])
      BY <1>1, <3>1
    <3>3. /\ Len(kept[n]) = Len(kept[n - 1]) + 1
          /\ \A i \in 1 .. Len(kept[n - 1]) : kept[n][i] = kept[n - 1][i]
          /\ kept[n][Len(kept[n - 1]) + 1] = s[n]
      BY <2>1, <3>2, AppendProperties
    <3>4. Len(kept[n]) = Len(head) + n - m
      BY <1>2, <3>1, <3>3
    <3>5. \A i \in 1 .. Len(head) : kept[n][i] = head[i]
      <4>1. \A i \in 1 .. Len(head) : i \in 1 .. Len(kept[n - 1])
        BY <1>2, <3>1
      <4> QED BY <3>1, <3>3, <4>1
    <3>6. ASSUME NEW i \in 1 .. n - m
          PROVE  kept[n][Len(head) + i] = s[m + i]
      <4>1. CASE i = n - m
        <5>1. Len(head) + i = Len(kept[n - 1]) + 1 /\ m + i = n
          BY <1>2, <3>1, <4>1
        <5> QED BY <3>3, <5>1
      <4>2. CASE i # n - m
        <5>1. i \in 1 .. (n - 1) - m /\ Len(head) + i \in 1 .. Len(kept[n - 1])
          BY <1>2, <3>1, <4>2
        <5> QED BY <3>1, <3>3, <5>1
      <4> QED BY <4>1, <4>2
    <3> QED BY <2>1, <3>4, <3>5, <3>6 DEF head
  <2> QED BY <2>1, <2>2, <2>3, <2>4
<1>6. 0 .. Len(s) \subseteq T
  <2> HIDE DEF T
  <2> QED BY <1>1, <1>4, <1>5, BoundedInduction
<1>7. Len(s) \in T /\ m <= Len(s)
  <2>1. Len(s) \in 0 .. Len(s) /\ m <= Len(s)
    BY <1>1
  <2> HIDE DEF T
  <2> QED BY <1>6, <2>1
<1> QED BY <1>1, <1>2, <1>7 DEF AtPlaces, TailKept, kept
-----------------------------------------------------------------------------
(* The inductive invariant. *)

\* The context is at the head of the conversation, and no system message is
\* behind it.
ContextFirst ==
    /\ Len(Context) <= Len(conversation)
    /\ \A i \in 1 .. Len(conversation) :
        IF i <= Len(Context) THEN conversation[i] = Context[i]
                             ELSE conversation[i].role # "system"

\* The calls of the message at place i can be executed, and are followed by
\* their results and no other result.
Answered(conv, i) ==
    LET calls == conv[i].calls
        n == Len(calls)
    IN  calls # << >> =>
            /\ conv[i].role = "assistant"
            /\ i + n <= Len(conv)
            /\ \A k \in 1 .. n : Executable(calls[k]) /\ conv[i + k] = Result(calls[k])
            /\ i + n < Len(conv) => conv[i + n + 1].text \notin Results

CallsAnswered == \A i \in 1 .. Len(conversation) : Answered(conversation, i)

\* Where a turn can begin, there is one left; tools belong to send_message.
TurnInHand ==
    /\ pc \in {"reserving", "calling", "sleeping"} => turn < MaxToolIterations
    /\ pc = "sleeping" => attempt < MaxProviderRetries
    /\ pc = "tooling" => mode = "send"
    /\ mode = "send" => buffer = << >> /\ ~ started

\* Nothing of an attempt is kept where another can follow.
Fresh ==
    /\ pc = "reserving" => buffer = << >>
    /\ pc = "sleeping" => ~ started
    /\ pc \in {"calling", "sleeping"} /\ ~ started => buffer = << >> /\ usage = {}

\* What is shown is what is kept, and what is kept is what is stored.
Shown == events = [i \in DOMAIN buffer |-> Frame(buffer[i].text)]

StoredInFull ==
    /\ pc \notin Ended => outcome = "open"
    /\ pc \notin {"refreshing"} \cup Ended => stored = << >>
    /\ pc \in {"refreshing", "done"} => stored # << >>
    /\ outcome = "complete" => pc = "done"
    /\ mode = "stream" /\ pc \in {"recording", "storing"} => buffer # << >>
    /\ mode = "stream" /\ stored # << >> =>
        /\ outcome # "error"
        /\ stored = [i \in DOMAIN buffer |-> buffer[i].text]

IInv == /\ TypeOK /\ ContextFirst /\ CallsAnswered
        /\ TurnInHand /\ Fresh /\ AnswerOfOneAttempt /\ Shown /\ StoredInFull

LEMMA InitInv == Init => IInv
<1> SUFFICES ASSUME Init PROVE IInv
  OBVIOUS
<1>1. TypeOK
  <2>1. 0 \in 0 .. MaxToolIterations /\ 0 < MaxToolIterations
    BY BoundsAssumption
  <2>2. << >> \in Seq([text : Texts, attempt : Attempts])
    OBVIOUS
  <2>3. /\ conversation \in Seq(Messages)
        /\ response \in [text : Texts, calls : Seq(Calls)]
    <3>1. << >> \in Seq(Calls)
      OBVIOUS
    <3> QED BY <3>1, ContextAssumption DEF Init, NoResponse, Texts
  <2>4. << >> \in Seq(Texts)
    OBVIOUS
  <2>5. attempt \in Attempts
    BY BoundsAssumption DEF Init, Attempts
  <2> QED BY <2>1, <2>2, <2>3, <2>4, <2>5 DEF Init, TypeOK, PCs
<1>3. TurnInHand
  BY BoundsAssumption DEF Init, TurnInHand
<1>2. Fresh /\ AnswerOfOneAttempt /\ Shown /\ StoredInFull
  BY DEF Init, Fresh, AnswerOfOneAttempt, Shown, StoredInFull, Ended
<1>4. ContextFirst /\ CallsAnswered
  <2>1. Len(Context) \in Nat /\ DOMAIN Context = 1 .. Len(Context) /\ conversation = Context
    BY ContextAssumption, LenProperties DEF Init
  <2>2. ContextFirst
    BY <2>1 DEF ContextFirst
  <2>3. \A i \in 1 .. Len(Context) : conversation[i].calls = << >>
    BY <2>1, ContextAssumption
  <2> QED BY <2>1, <2>2, <2>3 DEF CallsAnswered, Answered
<1> QED BY <1>1, <1>2, <1>3, <1>4 DEF IInv

\* What a provider makes of a reply is a response.
LEMMA ResponseType ==
  ASSUME NEW text \in Texts, NEW n \in Nat, NEW calls \in [1 .. n -> Calls]
  PROVE  ResponseTo(text, calls) \in [text : Texts, calls : Seq(Calls)]
<1>1. calls \in Seq(Calls) /\ DOMAIN calls = 1 .. n /\ Len(calls) = n
  OBVIOUS
<1>2. AtPlaces(calls, { i \in DOMAIN calls : calls[i].name # "" }) \in Seq(Calls)
  <2> DEFINE places == { i \in DOMAIN calls : calls[i].name # "" }
  <2>1. places \in SUBSET (1 .. Len(calls))
    BY <1>1
  <2> HIDE DEF places
  <2>2. AtPlaces(calls, places) \in Seq(Calls)
    BY <1>1, <2>1, KeptLength
  <2> QED BY <2>2 DEF places
<1>3. Stripped(text) \in Texts /\ "none" \in Texts
  BY DEF Stripped, Texts
<1> QED BY <1>1, <1>2, <1>3 DEF ResponseTo, GeminiResponse, OllamaResponse

\* The frame that a chunk adds keeps the events in step with the buffer.
LEMMA ShownAppend ==
  ASSUME TypeOK, Shown, NEW text \in Texts
  PROVE  Append(events, Frame(text)) =
            [i \in DOMAIN Append(buffer, [text |-> text, attempt |-> attempt]) |->
                Frame(Append(buffer, [text |-> text, attempt |-> attempt])[i].text)]
<1> DEFINE b == Append(buffer, [text |-> text, attempt |-> attempt])
           n == Len(buffer)
<1>1. /\ n \in Nat /\ Len(b) = n + 1 /\ DOMAIN b = 1 .. (n + 1)
      /\ b[n + 1].text = text /\ \A i \in 1 .. n : b[i] = buffer[i]
  BY DEF TypeOK
<1>2. events = [i \in 1 .. n |-> Frame(buffer[i].text)] /\ Len(events) = n
  BY <1>1 DEF Shown, TypeOK
<1>3. Append(events, Frame(text)) =
        [i \in 1 .. (n + 1) |-> IF i = n + 1 THEN Frame(text) ELSE events[i]]
  BY <1>1, <1>2
<1> HIDE DEF b, n
<1> QED BY <1>1, <1>2, <1>3 DEF b

\* A conversation that stays as it is keeps its shape.
LEMMA SameConversation ==
  ContextFirst /\ CallsAnswered /\ conversation' = conversation
    => ContextFirst' /\ CallsAnswered'
BY DEF ContextFirst, CallsAnswered

\* A result is a message of a tool, and calls none.
LEMMA ResultIs ==
  ASSUME NEW call
  PROVE  /\ Result(call).role = "tool"
         /\ Result(call).calls = << >>
         /\ Result(call).name = call.name
         /\ Result(call).text = IF IsValid(call.argument) THEN "valid" ELSE "invalid"
BY DEF Result, Message

\* What RunTools appends to a conversation, place by place.
LEMMA AppendedTurn ==
  ASSUME NEW conv \in Seq(Messages), NEW a \in Messages
  PROVE  LET n == Len(a.calls)
             longer == conv \o << a >> \o ResultsOf(a.calls)
         IN  /\ n \in Nat /\ Len(conv) \in Nat
             /\ a.calls \in [1 .. n -> Calls]
             /\ longer \in Seq(Messages)
             /\ Len(longer) = Len(conv) + 1 + n
             /\ \A i \in 1 .. Len(conv) : longer[i] = conv[i]
             /\ longer[Len(conv) + 1] = a
             /\ \A k \in 1 .. n : longer[Len(conv) + 1 + k] = Result(a.calls[k])
<1> DEFINE n == Len(a.calls)
           front == conv \o << a >>
           results == ResultsOf(a.calls)
<1>1. n \in Nat /\ Len(conv) \in Nat /\ a.calls \in [1 .. n -> Calls] /\ DOMAIN a.calls = 1 .. n
  BY LenProperties DEF Messages
<1>2. ASSUME NEW k \in 1 .. n
      PROVE  Result(a.calls[k]) \in Messages
  <2>1. a.calls[k] \in Calls
    BY <1>1
  <2>2. << >> \in Seq(Calls) /\ {"valid", "invalid"} \subseteq Texts \cup Results
    BY EmptySeq DEF Results
  <2> QED BY <2>1, <2>2 DEF Result, Message, Messages, Calls
<1>3. results \in Seq(Messages) /\ Len(results) = n
      /\ \A k \in 1 .. n : results[k] = Result(a.calls[k])
  <2> HIDE DEF n
  <2>1. results = [k \in 1 .. n |-> Result(a.calls[k])]
    BY <1>1 DEF ResultsOf
  <2>2. results \in [1 .. n -> Messages]
    BY <1>2, <2>1
  <2>3. results \in Seq(Messages)
    BY <1>1, <2>2
  <2>4. Len(results) = n
    BY <1>1, <2>1
  <2> QED BY <2>1, <2>3, <2>4
<1>4. /\ << a >> \in Seq(Messages) /\ Len(<< a >>) = 1 /\ << a >>[1] = a
  OBVIOUS
<1> HIDE DEF n, results
<1>5. /\ front \in Seq(Messages)
      /\ Len(front) = Len(conv) + 1
      /\ \A i \in 1 .. Len(conv) : front[i] = conv[i]
      /\ front[Len(conv) + 1] = a
  BY <1>1, <1>4, ConcatProperties
<1> HIDE DEF front
<1>6. /\ front \o results \in Seq(Messages)
      /\ Len(front \o results) = Len(front) + Len(results)
      /\ \A i \in 1 .. Len(front) + Len(results) :
            (front \o results)[i] = IF i <= Len(front) THEN front[i]
                                    ELSE results[i - Len(front)]
  BY <1>3, <1>5, ConcatProperties
<1> DEFINE longer == front \o results
<1> HIDE DEF longer
<1>7. /\ longer \in Seq(Messages)
      /\ Len(longer) = Len(conv) + 1 + n
      /\ \A i \in 1 .. Len(conv) + 1 + n :
            longer[i] = IF i <= Len(conv) + 1 THEN front[i]
                        ELSE results[i - (Len(conv) + 1)]
  BY <1>3, <1>5, <1>6 DEF longer
<1>8. \A i \in 1 .. Len(conv) : longer[i] = conv[i]
  BY <1>1, <1>5, <1>7
<1>9. longer[Len(conv) + 1] = a
  BY <1>1, <1>5, <1>7
<1>10. ASSUME NEW k \in 1 .. n
       PROVE  longer[Len(conv) + 1 + k] = Result(a.calls[k])
  <2>1. /\ Len(conv) + 1 + k \in 1 .. Len(conv) + 1 + n
        /\ ~ (Len(conv) + 1 + k <= Len(conv) + 1)
        /\ (Len(conv) + 1 + k) - (Len(conv) + 1) = k
    BY <1>1
  <2> QED BY <1>3, <1>7, <2>1
<1> QED BY <1>1, <1>7, <1>8, <1>9, <1>10 DEF longer, front, results, n

\* A turn that is appended keeps the shape of the conversation.
LEMMA TurnKeepsShape ==
  ASSUME conversation \in Seq(Messages), ContextFirst, CallsAnswered,
         NEW a \in Messages, a.role = "assistant", a.text \in Texts,
         \A k \in 1 .. Len(a.calls) : Executable(a.calls[k]),
         conversation' = conversation \o << a >> \o ResultsOf(a.calls)
  PROVE  /\ conversation' \in Seq(Messages)
         /\ conversation' # conversation
         /\ ContextFirst' /\ CallsAnswered'
<1> DEFINE n == Len(a.calls)
           l == Len(conversation)
<1>1. /\ n \in Nat /\ l \in Nat
      /\ a.calls \in [1 .. n -> Calls]
      /\ conversation' \in Seq(Messages)
      /\ Len(conversation') = l + 1 + n
      /\ \A i \in 1 .. l : conversation'[i] = conversation[i]
      /\ conversation'[l + 1] = a
      /\ \A k \in 1 .. n : conversation'[l + 1 + k] = Result(a.calls[k])
  BY AppendedTurn
<1>2. Len(Context) \in Nat
  BY ContextAssumption, LenProperties
<1> HIDE DEF n, l
<1>3. \A i \in 1 .. l + 1 + n : i \in 1 .. l \/ i = l + 1 \/ \E k \in 1 .. n : i = l + 1 + k
  <2>0. n \in Nat /\ l \in Nat
    BY <1>1
  <2>1. \A i \in 1 .. l + 1 + n :
            i > l + 1 => i - (l + 1) \in 1 .. n /\ i = l + 1 + (i - (l + 1))
    BY <2>0
  <2>2. \A i \in 1 .. l + 1 + n : i \in 1 .. l \/ i = l + 1 \/ i > l + 1
    BY <2>0
  <2> QED BY <2>1, <2>2
<1>4. ContextFirst'
  <2>1. Len(Context) <= l
    BY DEF ContextFirst, l
  <2>2. ASSUME NEW i \in 1 .. l + 1 + n
        PROVE  IF i <= Len(Context) THEN conversation'[i] = Context[i]
                                    ELSE conversation'[i].role # "system"
    <3>1. CASE i \in 1 .. l
      BY <1>1, <3>1 DEF ContextFirst, l
    <3>2. CASE i = l + 1
      <4>1. ~ (i <= Len(Context))
        BY <1>1, <1>2, <2>1, <3>2
      <4> QED BY <1>1, <3>2, <4>1
    <3>3. ASSUME NEW k \in 1 .. n, i = l + 1 + k
          PROVE  ~ (i <= Len(Context)) /\ conversation'[i].role = "tool"
      <4>1. ~ (i <= Len(Context))
        BY <1>1, <1>2, <2>1, <3>3
      <4>2. conversation'[i] = Result(a.calls[k])
        BY <1>1, <3>3
      <4> QED BY <4>1, <4>2, ResultIs
    <3> QED BY <1>3, <3>1, <3>2, <3>3
  <2>3. Len(Context) <= l + 1 + n
    BY <1>1, <1>2, <2>1
  <2> QED BY <1>1, <2>2, <2>3 DEF ContextFirst
<1>5. a.text \notin Results
  BY DEF Texts, Results
<1>6. CallsAnswered'
  <2>1. ASSUME NEW i \in 1 .. l
        PROVE  Answered(conversation', i)
    <3> DEFINE calls == conversation[i].calls
               m == Len(calls)
    <3>1. /\ conversation'[i] = conversation[i]
          /\ m \in Nat
      <4>1. conversation[i] \in Messages
        BY LenProperties DEF l
      <4>2. calls \in Seq(Calls)
        BY <4>1 DEF Messages
      <4> QED BY <1>1, <4>2, LenProperties
    <3>2. Answered(conversation, i)
      BY DEF CallsAnswered, l
    <3> SUFFICES ASSUME calls # << >>
                 PROVE  /\ conversation[i].role = "assistant"
                        /\ i + m <= l + 1 + n
                        /\ \A k \in 1 .. m : /\ Executable(calls[k])
                                             /\ conversation'[i + k] = Result(calls[k])
                        /\ i + m < l + 1 + n => conversation'[i + m + 1].text \notin Results
      BY <1>1, <3>1 DEF Answered
    <3>3. /\ conversation[i].role = "assistant"
          /\ i + m <= l
          /\ \A k \in 1 .. m : Executable(calls[k]) /\ conversation[i + k] = Result(calls[k])
          /\ i + m < l => conversation[i + m + 1].text \notin Results
      BY <3>2 DEF Answered, l
    <3> HIDE DEF calls, m
    <3>4. \A k \in 1 .. m : i + k \in 1 .. l
      BY <1>1, <3>1, <3>3
    <3>7. /\ conversation[i].role = "assistant"
          /\ i + m <= l + 1 + n
          /\ \A k \in 1 .. m : Executable(calls[k]) /\ conversation'[i + k] = Result(calls[k])
      <4>1. i + m <= l + 1 + n
        BY <1>1, <3>1, <3>3
      <4>2. \A k \in 1 .. m : conversation'[i + k] = conversation[i + k]
        BY <1>1, <3>4
      <4> QED BY <3>3, <4>1, <4>2
    <3>5. CASE i + m < l
      <4>1. i + m + 1 \in 1 .. l
        BY <1>1, <3>1, <3>5
      <4>2. conversation'[i + m + 1].text \notin Results
        BY <1>1, <3>3, <3>5, <4>1
      <4> QED BY <3>7, <4>2
    <3>6. CASE i + m = l
      <4>1. conversation'[i + m + 1] = a
        BY <1>1, <3>6
      <4> QED BY <1>5, <3>7, <4>1
    <3>8. i + m < l \/ i + m = l
      BY <1>1, <3>1, <3>3
    <3> QED BY <3>5, <3>6, <3>8
  <2>2. Answered(conversation', l + 1)
    <3>1. Len(a.calls) = n /\ conversation'[l + 1] = a
      BY <1>1 DEF n
    <3>2. l + 1 + n <= Len(conversation') /\ ~ (l + 1 + n < Len(conversation'))
      BY <1>1
    <3>3. \A k \in 1 .. n : Executable(a.calls[k]) /\ conversation'[l + 1 + k] = Result(a.calls[k])
      BY <1>1 DEF n
    <3> QED BY <3>1, <3>2, <3>3 DEF Answered
  <2>3. ASSUME NEW k \in 1 .. n
        PROVE  Answered(conversation', l + 1 + k)
    <3>1. conversation'[l + 1 + k].calls = << >>
      BY <1>1, ResultIs
    <3> QED BY <3>1 DEF Answered
  <2> QED BY <1>1, <1>3, <2>1, <2>2, <2>3 DEF CallsAnswered
<1>7. conversation' # conversation
  BY <1>1 DEF l
<1> QED BY <1>1, <1>4, <1>6, <1>7

LEMMA StepInv == IInv /\ [Next]_vars => IInv'
<1> SUFFICES ASSUME IInv, [Next]_vars PROVE IInv'
  OBVIOUS
<1> USE DEF IInv
<1>1. CASE Reserve
  <2>1. TypeOK'
    <3>1. attempt' \in Attempts
      BY <1>1, BoundsAssumption DEF Attempts, Reserve
    <3> QED BY <1>1, <3>1 DEF TypeOK, PCs, Reserve, GoTo, Fixed, Written
  <2>2. TurnInHand'
    BY <1>1 DEF TurnInHand, TypeOK, Reserve, GoTo, Fixed, Written
  <2>3. Fresh' /\ AnswerOfOneAttempt'
    BY <1>1 DEF Fresh, AnswerOfOneAttempt, TurnInHand, Reserve, GoTo, Fixed, Written
  <2>4. Shown' /\ StoredInFull'
    BY <1>1 DEF Shown, StoredInFull, Fresh, TypeOK, Ended, Reserve, GoTo, Fixed, Written
  <2>5. ContextFirst' /\ CallsAnswered'
    BY <1>1, SameConversation DEF Reserve
  <2> QED BY <2>1, <2>2, <2>3, <2>4, <2>5
<1>2. CASE Reply
  <2>1. TypeOK'
    <3>1. UNCHANGED <<mode, provider, conversation, attempt, started, buffer, events,
                      stored, outcome>>
      BY <1>2 DEF Reply, Fixed, Streamed, Written
    <3>2. pc' \in PCs
      BY <1>2 DEF Reply, GoTo, PCs
    <3>3. turn' \in 0 .. MaxToolIterations
      BY <1>2, BoundsAssumption DEF Reply, TurnInHand, TypeOK
    <3>4. response' \in [text : Texts, calls : Seq(Calls)]
      BY <1>2, ResponseType DEF Reply, TypeOK
    <3>5. usage' \subseteq Attempts
      BY <1>2 DEF Reply, Reports, TypeOK
    <3> QED BY <3>1, <3>2, <3>3, <3>4, <3>5 DEF TypeOK
  <2>2. TurnInHand'
    BY <1>2 DEF TurnInHand, TypeOK, Reply, Reports, GoTo, Fixed, Streamed, Written
  <2>3. Fresh' /\ AnswerOfOneAttempt'
    BY <1>2 DEF Fresh, AnswerOfOneAttempt, TurnInHand, Reply, Reports, GoTo, Fixed, Streamed, Written
  <2>4. Shown' /\ StoredInFull'
    BY <1>2 DEF Shown, StoredInFull, Fresh, TypeOK, Ended, Reply, Reports, GoTo, Fixed, Streamed, Written
  <2>5. ContextFirst' /\ CallsAnswered'
    BY <1>2, SameConversation DEF Reply
  <2> QED BY <2>1, <2>2, <2>3, <2>4, <2>5
<1>3. CASE Chunk
  <2>1. PICK text \in Texts, reported \in {{}, {attempt}} :
          /\ Yielded(text, reported)
          /\ started' = StartedBy(text)
          /\ usage' = IF reported = {} THEN usage ELSE reported
          /\ IF Truthy(text)
             THEN /\ Len(buffer) < MaxChunks
                  /\ buffer' = Append(buffer, [text |-> text, attempt |-> attempt])
                  /\ events' = Append(events, Frame(text))
             ELSE UNCHANGED <<buffer, events>>
    BY <1>3 DEF Chunk
  <2>2. /\ pc = "calling" /\ mode = "stream"
        /\ UNCHANGED <<mode, provider, pc, conversation, turn, attempt, response,
                       stored, outcome>>
    BY <1>3 DEF Chunk, Fixed, Written
  <2>3. buffer' \in Seq([text : Texts, attempt : Attempts])
    <3> DEFINE R == [text : Texts, attempt : Attempts]
               c == [text |-> text, attempt |-> attempt]
    <3>1. c \in R /\ buffer \in Seq(R)
      BY DEF TypeOK
    <3>2. buffer' = Append(buffer, c) \/ buffer' = buffer
      BY <2>1
    <3> HIDE DEF R, c
    <3>3. Append(buffer, c) \in Seq(R)
      BY <3>1, AppendProperties
    <3>4. buffer' \in Seq(R)
      BY <3>1, <3>2, <3>3
    <3> QED BY <3>4 DEF R
  <2>4. TypeOK' /\ TurnInHand'
    <3>1. events' \in Seq(Texts)
      <4>1. Frame(text) \in Texts /\ events \in Seq(Texts)
        BY DEF Frame, Texts, TypeOK
      <4>2. Append(events, Frame(text)) \in Seq(Texts)
        BY <4>1, AppendProperties
      <4> QED BY <2>1, <4>1, <4>2
    <3>2. usage' \subseteq Attempts /\ started' \in BOOLEAN
      BY <2>1 DEF TypeOK, StartedBy
    <3>3. TypeOK'
      BY <2>2, <2>3, <3>1, <3>2 DEF TypeOK
    <3> QED BY <2>2, <3>3 DEF TurnInHand
  <2>5. \A i \in DOMAIN buffer' : buffer'[i].attempt = attempt
    <3>1. CASE Truthy(text)
      <4> DEFINE c == [text |-> text, attempt |-> attempt]
      <4>1. /\ Len(buffer) \in Nat /\ buffer' = Append(buffer, c)
            /\ DOMAIN buffer = 1 .. Len(buffer)
            /\ c.attempt = attempt
        BY <2>1, <3>1 DEF TypeOK
      <4> HIDE DEF c
      <4>2. /\ DOMAIN buffer' = 1 .. (Len(buffer) + 1)
            /\ buffer'[Len(buffer) + 1] = c
            /\ \A i \in 1 .. Len(buffer) : buffer'[i] = buffer[i]
        BY <4>1 DEF TypeOK
      <4> QED BY <4>1, <4>2 DEF AnswerOfOneAttempt
    <3>2. CASE ~ Truthy(text)
      BY <2>1, <3>2 DEF AnswerOfOneAttempt
    <3> QED BY <3>1, <3>2
  <2>6. Fresh' /\ AnswerOfOneAttempt'
    BY <2>1, <2>2, <2>5 DEF Fresh, AnswerOfOneAttempt, StartedBy
  <2>7. Shown'
    BY <2>1, ShownAppend DEF Shown
  <2>8. StoredInFull'
    BY <2>2 DEF StoredInFull, Ended
  <2>9. ContextFirst' /\ CallsAnswered'
    BY <2>2, SameConversation
  <2> QED BY <2>4, <2>6, <2>7, <2>8, <2>9
<1>4. CASE EndStream
  <2>1. TypeOK'
    BY <1>4, BoundsAssumption DEF TypeOK, TurnInHand, PCs, Ended, EndStream, GoTo, Fixed, Streamed, Written
  <2>2. TurnInHand'
    BY <1>4 DEF TurnInHand, TypeOK, EndStream, GoTo, Fixed, Streamed, Written
  <2>3. Fresh' /\ AnswerOfOneAttempt'
    BY <1>4 DEF Fresh, AnswerOfOneAttempt, TurnInHand, EndStream, GoTo, Fixed, Streamed, Written
  <2>4. Shown' /\ StoredInFull'
    BY <1>4 DEF Shown, StoredInFull, Fresh, TypeOK, Ended, EndStream, GoTo, Fixed, Streamed, Written
  <2>5. ContextFirst' /\ CallsAnswered'
    BY <1>4, SameConversation DEF EndStream
  <2> QED BY <2>1, <2>2, <2>3, <2>4, <2>5
<1>5. CASE Timeout
  <2>1. TypeOK'
    BY <1>5 DEF TypeOK, TurnInHand, PCs, Ended, Timeout, Retried, GoTo, Fixed, Streamed, Written
  <2>2. TurnInHand'
    BY <1>5 DEF TurnInHand, TypeOK, Timeout, Retried, GoTo, Fixed, Streamed, Written
  <2>3. Fresh' /\ AnswerOfOneAttempt'
    BY <1>5 DEF Fresh, AnswerOfOneAttempt, TurnInHand, Timeout, Retried, GoTo, Fixed, Streamed, Written
  <2>4. Shown' /\ StoredInFull'
    BY <1>5 DEF Shown, StoredInFull, Fresh, TypeOK, Ended, Timeout, Retried, GoTo, Fixed, Streamed, Written
  <2>5. ContextFirst' /\ CallsAnswered'
    BY <1>5, SameConversation DEF Timeout
  <2> QED BY <2>1, <2>2, <2>3, <2>4, <2>5
<1>6. CASE Retry
  <2>1. TypeOK'
    <3>1. attempt + 1 \in Attempts /\ "calling" \in PCs
      BY <1>6, BoundsAssumption DEF TypeOK, PCs, Attempts, TurnInHand, Retry
    <3> QED BY <1>6, <3>1 DEF TypeOK, Retry, GoTo, Fixed, Written
  <2>2. TurnInHand'
    BY <1>6 DEF TurnInHand, TypeOK, Retry, GoTo, Fixed, Written
  <2>3. Fresh' /\ AnswerOfOneAttempt'
    BY <1>6 DEF Fresh, AnswerOfOneAttempt, TurnInHand, Retry, GoTo, Fixed, Written
  <2>4. Shown' /\ StoredInFull'
    BY <1>6 DEF Shown, StoredInFull, Fresh, TypeOK, Ended, Retry, GoTo, Fixed, Written
  <2>5. ContextFirst' /\ CallsAnswered'
    BY <1>6, SameConversation DEF Retry
  <2> QED BY <2>1, <2>2, <2>3, <2>4, <2>5
<1>7. CASE ProviderError
  <2>1. TypeOK'
    BY <1>7 DEF TypeOK, TurnInHand, PCs, Ended, ProviderError, GoTo, Fixed, Streamed, Written
  <2>2. TurnInHand'
    BY <1>7 DEF TurnInHand, TypeOK, ProviderError, GoTo, Fixed, Streamed, Written
  <2>3. Fresh' /\ AnswerOfOneAttempt'
    BY <1>7 DEF Fresh, AnswerOfOneAttempt, TurnInHand, ProviderError, GoTo, Fixed, Streamed, Written
  <2>4. Shown' /\ StoredInFull'
    BY <1>7 DEF Shown, StoredInFull, Fresh, TypeOK, Ended, ProviderError, GoTo, Fixed, Streamed, Written
  <2>5. ContextFirst' /\ CallsAnswered'
    BY <1>7, SameConversation DEF ProviderError
  <2> QED BY <2>1, <2>2, <2>3, <2>4, <2>5
<1>8. CASE Release
  <2>1. TypeOK'
    BY <1>8 DEF TypeOK, TurnInHand, PCs, Ended, Release, GoTo, Fixed, Streamed
  <2>2. TurnInHand'
    BY <1>8 DEF TurnInHand, TypeOK, Release, GoTo, Fixed, Streamed
  <2>3. Fresh' /\ AnswerOfOneAttempt'
    BY <1>8 DEF Fresh, AnswerOfOneAttempt, TurnInHand, Release, GoTo, Fixed, Streamed
  <2>4. Shown' /\ StoredInFull'
    BY <1>8 DEF Shown, StoredInFull, Fresh, TypeOK, Ended, Release, GoTo, Fixed, Streamed
  <2>5. ContextFirst' /\ CallsAnswered'
    BY <1>8, SameConversation DEF Release
  <2> QED BY <2>1, <2>2, <2>3, <2>4, <2>5
<1>9. CASE Record
  <2>1. TypeOK'
    BY <1>9 DEF TypeOK, TurnInHand, PCs, Ended, Record, GoTo, Fixed, Streamed
  <2>2. TurnInHand'
    BY <1>9 DEF TurnInHand, TypeOK, Record, GoTo, Fixed, Streamed
  <2>3. Fresh' /\ AnswerOfOneAttempt'
    BY <1>9 DEF Fresh, AnswerOfOneAttempt, TurnInHand, Record, GoTo, Fixed, Streamed
  <2>4. Shown' /\ StoredInFull'
    BY <1>9 DEF Shown, StoredInFull, Fresh, TypeOK, Ended, Record, GoTo, Fixed, Streamed
  <2>5. ContextFirst' /\ CallsAnswered'
    BY <1>9, SameConversation DEF Record
  <2> QED BY <2>1, <2>2, <2>3, <2>4, <2>5
<1>10. CASE RunTools
  <2>1. /\ UNCHANGED <<mode, provider, turn, attempt, response, usage, started, buffer,
                       events, stored>>
        /\ pc = "tooling"
        /\ \/ pc' = "reserving" /\ TurnsLeft /\ outcome' = outcome
           \/ pc' = "failed" /\ outcome' = "error"
    BY <1>10 DEF RunTools, GoTo, Fixed, Streamed
  <2>2. conversation' \in Seq(Messages) /\ ContextFirst' /\ CallsAnswered'
    <3>1. CASE \A i \in DOMAIN response.calls : Executable(response.calls[i])
      <4> DEFINE a == Message("assistant",
                              IF response.text = "none" THEN "empty" ELSE response.text,
                              response.calls, "")
      <4>1. /\ a \in Messages
            /\ a.role = "assistant" /\ a.text \in Texts /\ a.calls = response.calls
        BY DEF Message, Messages, Names, Texts, TypeOK
      <4>2. conversation' = conversation \o << a >> \o ResultsOf(a.calls)
        BY <1>10, <3>1 DEF RunTools, Message
      <4>3. \A k \in 1 .. Len(a.calls) : Executable(a.calls[k])
        BY <3>1, <4>1, LenProperties DEF TypeOK
      <4> HIDE DEF a
      <4> QED BY <4>1, <4>2, <4>3, TurnKeepsShape DEF TypeOK
    <3>2. CASE ~ \A i \in DOMAIN response.calls : Executable(response.calls[i])
      <4>1. conversation' = conversation
        BY <1>10, <3>2 DEF RunTools
      <4> QED BY <4>1, SameConversation DEF TypeOK
    <3> QED BY <3>1, <3>2
  <2>3. TypeOK'
    BY <2>1, <2>2 DEF TypeOK, PCs, Ended
  <2>4. TurnInHand'
    BY <2>1 DEF TurnInHand, TypeOK, TurnsLeft
  <2>5. Fresh' /\ AnswerOfOneAttempt'
    BY <2>1 DEF Fresh, AnswerOfOneAttempt, TurnInHand
  <2>6. Shown' /\ StoredInFull'
    BY <2>1 DEF Shown, StoredInFull, Fresh, TypeOK, Ended
  <2> QED BY <2>2, <2>3, <2>4, <2>5, <2>6
<1>11. CASE Store
  <2>1. TypeOK'
    <3>1. << response.text >> \in Seq(Texts)
      BY DEF TypeOK
    <3>2. [i \in DOMAIN buffer |-> buffer[i].text] \in Seq(Texts)
      <4>1. /\ Len(buffer) \in Nat /\ DOMAIN buffer = 1 .. Len(buffer)
            /\ \A i \in 1 .. Len(buffer) : buffer[i] \in [text : Texts, attempt : Attempts]
        BY LenProperties DEF TypeOK
      <4>2. [i \in 1 .. Len(buffer) |-> buffer[i].text] \in [1 .. Len(buffer) -> Texts]
        BY <4>1
      <4> QED BY <4>1, <4>2
    <3>3. stored' \in Seq(Texts)
      BY <1>11, <3>1, <3>2 DEF Store
    <3> QED BY <1>11, <3>3 DEF TypeOK, PCs, Store, GoTo, Fixed, Streamed
  <2>2. TurnInHand'
    BY <1>11 DEF TurnInHand, TypeOK, Store, GoTo, Fixed, Streamed
  <2>3. Fresh' /\ AnswerOfOneAttempt'
    BY <1>11 DEF Fresh, AnswerOfOneAttempt, TurnInHand, Store, GoTo, Fixed, Streamed
  <2>4. Shown' /\ StoredInFull'
    BY <1>11 DEF Shown, StoredInFull, Fresh, TypeOK, Modes, Ended, Store, GoTo, Fixed, Streamed
  <2>5. ContextFirst' /\ CallsAnswered'
    BY <1>11, SameConversation DEF Store
  <2> QED BY <2>1, <2>2, <2>3, <2>4, <2>5
<1>12. CASE Refresh
  <2>1. TypeOK'
    BY <1>12 DEF TypeOK, TurnInHand, PCs, Ended, Refresh, GoTo, Fixed, Streamed
  <2>2. TurnInHand'
    BY <1>12 DEF TurnInHand, TypeOK, Refresh, GoTo, Fixed, Streamed
  <2>3. Fresh' /\ AnswerOfOneAttempt'
    BY <1>12 DEF Fresh, AnswerOfOneAttempt, TurnInHand, Refresh, GoTo, Fixed, Streamed
  <2>4. Shown' /\ StoredInFull'
    BY <1>12 DEF Shown, StoredInFull, Fresh, TypeOK, Ended, Refresh, GoTo, Fixed, Streamed
  <2>5. ContextFirst' /\ CallsAnswered'
    BY <1>12, SameConversation DEF Refresh
  <2> QED BY <2>1, <2>2, <2>3, <2>4, <2>5
<1>13. CASE Break
  <2>1. TypeOK'
    BY <1>13 DEF TypeOK, TurnInHand, PCs, Ended, Break, GoTo, Fixed, Streamed
  <2>2. TurnInHand'
    BY <1>13 DEF TurnInHand, TypeOK, Break, GoTo, Fixed, Streamed
  <2>3. Fresh' /\ AnswerOfOneAttempt'
    BY <1>13 DEF Fresh, AnswerOfOneAttempt, TurnInHand, Break, GoTo, Fixed, Streamed
  <2>4. Shown' /\ StoredInFull'
    BY <1>13 DEF Shown, StoredInFull, Fresh, TypeOK, Ended, Break, GoTo, Fixed, Streamed
  <2>5. ContextFirst' /\ CallsAnswered'
    BY <1>13, SameConversation DEF Break
  <2> QED BY <2>1, <2>2, <2>3, <2>4, <2>5
<1>14. CASE UNCHANGED vars
  <2>1. ContextFirst' /\ CallsAnswered'
    BY <1>14, SameConversation DEF vars
  <2>2. TypeOK' /\ TurnInHand' /\ Fresh' /\ AnswerOfOneAttempt'
    BY <1>14 DEF vars, TypeOK, TurnInHand, Fresh, AnswerOfOneAttempt
  <2>3. Shown' /\ StoredInFull'
    BY <1>14 DEF vars, Shown, StoredInFull
  <2> QED BY <2>1, <2>2, <2>3
<1> QED BY <1>1, <1>2, <1>3, <1>4, <1>5, <1>6, <1>7, <1>8, <1>9, <1>10, <1>11,
           <1>12, <1>13, <1>14 DEF Next, Over

\* IInv is an invariant of the specification.
LEMMA InvInvariant == Spec => []IInv
BY InitInv, StepInv, PTL DEF Spec

\* Every variable has its type; no message takes more turns than range gives,
\* for any bound (MAX_TOOL_ITERATIONS).
THEOREM AnsweringTypeCorrect == Spec => []TypeOK
<1>1. IInv => TypeOK
  BY DEF IInv
<1> QED BY <1>1, InvInvariant, PTL

\* The verdict a call is answered with is that of the algorithm of Luhn, in
\* every turn, whatever the model calls the tool with and how often (execute).
THEOREM VerdictsAreLuhn == Spec => []VerdictIsLuhn
<1>1. IInv => VerdictIsLuhn
  <2> SUFFICES ASSUME IInv, NEW i \in DOMAIN conversation,
                      NEW k \in DOMAIN conversation[i].calls
               PROVE  conversation[i + k].text =
                        IF IsLuhn(conversation[i].calls[k].argument) THEN "valid"
                                                                     ELSE "invalid"
    BY DEF VerdictIsLuhn
  <2> DEFINE call == conversation[i].calls[k]
  <2>1. i \in 1 .. Len(conversation) /\ conversation[i] \in Messages
    BY LenProperties DEF IInv, TypeOK
  <2>2. conversation[i].calls \in Seq(Calls)
    BY <2>1 DEF Messages
  <2>3. k \in 1 .. Len(conversation[i].calls) /\ conversation[i].calls # << >>
    BY <2>2, LenProperties, EmptySeq
  <2>4. Executable(call) /\ conversation[i + k] = Result(call)
    BY <2>1, <2>3 DEF IInv, CallsAnswered, Answered
  <2>5. call.argument \in Seq(Digits) /\ call.argument # << >>
    BY <2>4, CardLengthAssumption, EmptySeq DEF Executable, WellFormed
  <2>6. IsValid(call.argument) <=> IsLuhn(call.argument)
    BY <2>5, VerdictOfLuhn
  <2> QED BY <2>4, <2>6, ResultIs
<1> QED BY <1>1, InvInvariant, PTL

\* The places of the messages that Gemini is not given as contents, and of
\* those it is.
Told == { i \in DOMAIN conversation :
            conversation[i].role = "system" /\ Truthy(conversation[i].text) }
Spoken == { i \in DOMAIN conversation : conversation[i].role # "system" }

\* What a provider takes of a message.
LEMMA TakenIs ==
  ASSUME NEW m, NEW role
  PROVE  /\ Taken(m, role).role = role
         /\ Taken(m, role).text = m.text
         /\ Taken(m, role).calls = IF m.role = "assistant" THEN m.calls ELSE << >>
         /\ Taken(m, role).name = IF m.role = "tool" THEN m.name ELSE ""
BY DEF Taken

\* Every message is in the contents or the instruction.
LEMMA NothingLost ==
  ASSUME IInv
  PROVE  Len(Contents) + Len(Instruction) = Len(conversation)
<1>1. /\ conversation \in Seq(Messages) /\ Len(conversation) \in Nat
      /\ DOMAIN conversation = 1 .. Len(conversation)
  BY LenProperties DEF IInv, TypeOK
<1>2. CASE provider = "gemini"
  <2>1. Told \in SUBSET (1 .. Len(conversation)) /\ Spoken \in SUBSET (1 .. Len(conversation))
    BY <1>1 DEF Told, Spoken
  <2>2. Told \cap Spoken = {}
    BY DEF Told, Spoken
  <2>3. Told \cup Spoken = 1 .. Len(conversation)
    <3>1. ASSUME NEW i \in 1 .. Len(conversation), conversation[i].role = "system"
          PROVE  Truthy(conversation[i].text)
      <4>1. Len(Context) \in Nat /\ DOMAIN Context = 1 .. Len(Context)
        BY ContextAssumption, LenProperties
      <4>2. i <= Len(Context) /\ conversation[i] = Context[i]
        BY <3>1 DEF IInv, ContextFirst
      <4>3. i \in DOMAIN Context
        BY <4>1, <4>2
      <4>4. Context[i].role = "system" => Truthy(Context[i].text)
        BY <4>3, ContextAssumption
      <4> QED BY <3>1, <4>2, <4>4
    <3> QED BY <1>1, <3>1 DEF Told, Spoken
  <2>4. /\ IsFiniteSet(Told) /\ IsFiniteSet(Spoken)
        /\ Len(AtPlaces(conversation, Told)) = Cardinality(Told)
        /\ Len(AtPlaces(conversation, Spoken)) = Cardinality(Spoken)
        /\ AtPlaces(conversation, Spoken) \in Seq(Messages)
    BY <1>1, <2>1, KeptLength
  <2>5. Cardinality(Told \cup Spoken) = Cardinality(Told) + Cardinality(Spoken)
    <3>1. Cardinality(Told \cup Spoken) =
            Cardinality(Told) + Cardinality(Spoken) - Cardinality(Told \cap Spoken)
      BY <2>4, FS_Union
    <3>2. Cardinality(Told) \in Nat /\ Cardinality(Spoken) \in Nat
      BY <2>4, FS_CardinalityType
    <3>3. Cardinality(Told \cap Spoken) = 0
      BY <2>2, FS_EmptySet
    <3> QED BY <3>1, <3>2, <3>3
  <2>6. Cardinality(1 .. Len(conversation)) = Len(conversation)
    BY <1>1, FS_Interval
  <2>7. Len(Contents) = Len(AtPlaces(conversation, Spoken))
    <3> DEFINE rest == AtPlaces(conversation, Spoken)
    <3>1. rest \in Seq(Messages)
      BY <2>4
    <3>2. Contents = [i \in DOMAIN rest |-> Taken(rest[i], GeminiRole(rest[i].role))]
      BY <1>2 DEF Contents, GeminiContents, Spoken
    <3> HIDE DEF rest
    <3>3. DOMAIN rest = 1 .. Len(rest) /\ Len(rest) \in Nat
      BY <3>1, LenProperties
    <3> QED BY <3>2, <3>3 DEF rest
  <2>8. Instruction = AtPlaces(conversation, Told)
    BY <1>2 DEF Instruction, GeminiConfig, Told
  <2>9. Cardinality(Told) \in Nat /\ Cardinality(Spoken) \in Nat
    BY <2>4, FS_CardinalityType
  <2>10. Len(conversation) = Cardinality(Told) + Cardinality(Spoken)
    BY <2>3, <2>5, <2>6
  <2>11. Len(Contents) = Cardinality(Spoken) /\ Len(Instruction) = Cardinality(Told)
    BY <2>4, <2>7, <2>8
  <2> QED BY <2>9, <2>10, <2>11
<1>3. CASE provider # "gemini"
  <2>1. /\ Contents = [i \in 1 .. Len(conversation) |->
                            Taken(conversation[i], conversation[i].role)]
        /\ Instruction = << >>
    BY <1>1, <1>3 DEF Contents, OllamaMessages, Instruction
  <2>2. Len(Contents) = Len(conversation) /\ Len(Instruction) = 0
    BY <1>1, <2>1
  <2> QED BY <1>1, <2>2
<1> QED BY <1>2, <1>3

\* The role a provider is given for a message.
RoleSent(m) == IF provider = "gemini" THEN GeminiRole(m.role) ELSE m.role

\* From a message with calls on, the contents are the conversation from some
\* place on.
LEMMA SentInOrder ==
  ASSUME IInv, NEW i \in DOMAIN Contents, Contents[i].calls # << >>
  PROVE  \E q \in 1 .. Len(conversation) :
            /\ i \in Nat /\ Len(Contents) \in Nat
            /\ Len(Contents) - i = Len(conversation) - q
            /\ \A k \in 0 .. Len(conversation) - q :
                  Contents[i + k] = Taken(conversation[q + k], RoleSent(conversation[q + k]))
<1>1. /\ conversation \in Seq(Messages) /\ Len(conversation) \in Nat
      /\ DOMAIN conversation = 1 .. Len(conversation)
      /\ Len(Context) \in Nat /\ Len(Context) <= Len(conversation)
      /\ DOMAIN Context = 1 .. Len(Context)
  BY ContextAssumption, LenProperties DEF IInv, TypeOK, ContextFirst
<1>2. CASE provider = "gemini"
  <2> DEFINE m == Len(Context)
             rest == AtPlaces(conversation, Spoken)
             head == Kept(conversation, Spoken)[m]
  <2>1. \A p \in 1 .. Len(conversation) : m < p => p \in Spoken
    BY <1>1 DEF Spoken, IInv, ContextFirst
  <2>2. /\ head \in Seq(Messages) /\ rest \in Seq(Messages)
        /\ Len(rest) = Len(head) + Len(conversation) - m
        /\ \A j \in 1 .. Len(head) : rest[j] = head[j]
        /\ \A j \in 1 .. Len(conversation) - m : rest[Len(head) + j] = conversation[m + j]
    <3>1. m \in 0 .. Len(conversation)
      BY <1>1
    <3>2. TailKept(Messages, conversation, Spoken, m)
      <4> HIDE DEF m
      <4> QED BY <1>1, <2>1, <3>1, KeptTail
    <3> QED BY <3>2 DEF TailKept
  <2>3. Contents = [j \in DOMAIN rest |-> Taken(rest[j], GeminiRole(rest[j].role))]
    BY <1>2 DEF Contents, GeminiContents, Spoken
  <2>4. ASSUME NEW j \in 1 .. Len(head)
        PROVE  rest[j].calls = << >>
    <3>1. PICK p \in Spoken \cap (1 .. m) : head[j] = conversation[p]
      BY <1>1, KeptElements
    <3>2. p \in 1 .. Len(conversation) /\ p \in DOMAIN Context /\ p <= Len(Context)
      BY <1>1
    <3>3. conversation[p] = Context[p]
      BY <3>2 DEF IInv, ContextFirst
    <3>4. Context[p].calls = << >>
      BY <3>2, ContextAssumption
    <3> QED BY <2>2, <3>1, <3>3, <3>4
  <2> HIDE DEF m, rest, head
  <2>5. /\ Len(head) \in Nat /\ Len(rest) \in Nat
        /\ DOMAIN rest = 1 .. Len(rest)
        /\ Len(Contents) = Len(rest) /\ DOMAIN Contents = 1 .. Len(rest)
    BY <2>2, <2>3, LenProperties
  <2>6. Len(head) < i
    <3>1. rest[i].calls # << >>
      BY <2>3, <2>5 DEF Taken
    <3> QED BY <2>4, <2>5, <3>1
  <2> DEFINE q == m + (i - Len(head))
  <2>7. q \in 1 .. Len(conversation) /\ Len(Contents) - i = Len(conversation) - q
    BY <1>1, <2>2, <2>5, <2>6 DEF m
  <2>8. ASSUME NEW k \in 0 .. Len(conversation) - q
        PROVE  Contents[i + k] = Taken(conversation[q + k], RoleSent(conversation[q + k]))
    <3>1. /\ i - Len(head) + k \in 1 .. Len(conversation) - m
          /\ Len(head) + (i - Len(head) + k) = i + k
          /\ m + (i - Len(head) + k) = q + k
          /\ i + k \in 1 .. Len(rest)
      BY <1>1, <2>2, <2>5, <2>6 DEF m
    <3>2. rest[i + k] = conversation[q + k]
      BY <2>2, <3>1
    <3> HIDE DEF q
    <3> QED BY <1>2, <2>3, <2>5, <3>1, <3>2 DEF RoleSent
  <2> HIDE DEF q
  <2>9. i \in Nat /\ Len(Contents) \in Nat
    BY <2>5
  <2> QED BY <2>7, <2>8, <2>9, Zenon
<1>3. CASE provider # "gemini"
  <2>1. Contents = [j \in 1 .. Len(conversation) |->
                        Taken(conversation[j], conversation[j].role)]
    BY <1>1, <1>3 DEF Contents, OllamaMessages
  <2>2. i \in 1 .. Len(conversation) /\ Len(Contents) = Len(conversation)
    BY <1>1, <2>1
  <2>3. \A k \in 0 .. Len(conversation) - i :
            Contents[i + k] = Taken(conversation[i + k], RoleSent(conversation[i + k]))
    BY <1>1, <1>3, <2>1, <2>2 DEF RoleSent
  <2>4. i \in Nat /\ Len(Contents) \in Nat /\ Len(Contents) - i = Len(conversation) - i
    BY <1>1, <2>2
  <2> QED BY <2>2, <2>3, <2>4, Zenon
<1> QED BY <1>2, <1>3

\* Whatever the model calls and however often, a provider gets every message,
\* and behind the calls of a turn as many results, each in the place of its
\* call and with its name, and no other (_contents, _messages).
THEOREM RequestsAreWhole == Spec => []RequestIsWhole
<1>1. IInv => RequestIsWhole
  <2> SUFFICES ASSUME IInv, NEW i \in DOMAIN Contents, Contents[i].calls # << >>
               PROVE  LET calls == Contents[i].calls
                          IsResult(k) == Contents[k].text \in Results
                      IN  /\ Contents[i].role \in {"model", "assistant"}
                          /\ i + Len(calls) <= Len(Contents)
                          /\ \A k \in 1 .. Len(calls) :
                              /\ IsResult(i + k)
                              /\ Contents[i + k].role \in {"user", "tool"}
                              /\ Contents[i + k].name = calls[k].name
                          /\ i + Len(calls) < Len(Contents)
                              => ~ IsResult(i + Len(calls) + 1)
    BY NothingLost DEF RequestIsWhole
  <2>1. PICK q \in 1 .. Len(conversation) :
            /\ i \in Nat /\ Len(Contents) \in Nat
            /\ Len(Contents) - i = Len(conversation) - q
            /\ \A k \in 0 .. Len(conversation) - q :
                  Contents[i + k] = Taken(conversation[q + k], RoleSent(conversation[q + k]))
    BY SentInOrder
  <2>2. conversation \in Seq(Messages) /\ Len(conversation) \in Nat
    BY LenProperties DEF IInv, TypeOK
  <2>3. Contents[i] = Taken(conversation[q], RoleSent(conversation[q]))
    <3>1. 0 \in 0 .. Len(conversation) - q /\ i + 0 = i /\ q + 0 = q
      BY <2>1, <2>2
    <3> QED BY <2>1, <3>1
  <2> DEFINE calls == conversation[q].calls
             n == Len(calls)
  <2>4. /\ conversation[q].role = "assistant"
        /\ Contents[i].calls = calls
        /\ calls # << >>
        /\ Contents[i].role = RoleSent(conversation[q])
    <3> DEFINE m == conversation[q]
               role == RoleSent(m)
               sent == Contents[i]
    <3>1. sent = Taken(m, role)
      BY <2>3
    <3> HIDE DEF m, role, sent
    <3>2. /\ sent.role = role
          /\ sent.calls = IF m.role = "assistant" THEN m.calls ELSE << >>
      BY <3>1, TakenIs
    <3>3. sent.calls # << >>
      BY DEF sent
    <3> QED BY <3>2, <3>3 DEF m, role, sent
  <2>5. n \in Nat /\ calls \in Seq(Calls)
    <3>1. conversation[q] \in Messages
      BY <2>2, LenProperties
    <3>2. calls \in Seq(Calls)
      BY <3>1 DEF Messages
    <3> QED BY <3>2, LenProperties
  <2>6. /\ q + n <= Len(conversation)
        /\ \A k \in 1 .. n : conversation[q + k] = Result(calls[k])
        /\ q + n < Len(conversation) => conversation[q + n + 1].text \notin Results
    BY <2>4 DEF IInv, CallsAnswered, Answered
  <2>7. Contents[i].role \in {"model", "assistant"}
    BY <2>4 DEF RoleSent, GeminiRole
  <2> HIDE DEF calls, n
  <2>8. i + n <= Len(Contents)
    BY <2>1, <2>2, <2>5, <2>6
  <2>9. ASSUME NEW k \in 1 .. n
        PROVE  /\ Contents[i + k].text \in Results
               /\ Contents[i + k].role \in {"user", "tool"}
               /\ Contents[i + k].name = calls[k].name
    <3>1. k \in 0 .. Len(conversation) - q
      BY <2>2, <2>5, <2>6
    <3>2. Contents[i + k] = Taken(Result(calls[k]), RoleSent(Result(calls[k])))
      BY <2>1, <2>6, <3>1
    <3> DEFINE result == Result(calls[k])
    <3>3. /\ result.role = "tool"
          /\ result.name = calls[k].name
          /\ result.text \in Results
      BY ResultIs DEF Results
    <3> HIDE DEF result
    <3>4. /\ Contents[i + k].text = result.text
          /\ Contents[i + k].role = RoleSent(result)
          /\ Contents[i + k].name = result.name
      BY <3>2, <3>3 DEF Taken, result
    <3>5. RoleSent(result) \in {"user", "tool"}
      BY <3>3 DEF RoleSent, GeminiRole
    <3> QED BY <3>3, <3>4, <3>5
  <2>10. ASSUME i + n < Len(Contents)
         PROVE  Contents[i + n + 1].text \notin Results
    <3>1. /\ n + 1 \in 0 .. Len(conversation) - q
          /\ i + (n + 1) = i + n + 1 /\ q + (n + 1) = q + n + 1
          /\ q + n < Len(conversation)
      BY <2>1, <2>2, <2>5, <2>10
    <3>2. Contents[i + n + 1] =
            Taken(conversation[q + n + 1], RoleSent(conversation[q + n + 1]))
      BY <2>1, <3>1
    <3> DEFINE m == conversation[q + n + 1]
               role == RoleSent(m)
               sent == Contents[i + n + 1]
    <3>3. sent = Taken(m, role)
      BY <3>2
    <3> HIDE DEF m, role, sent
    <3>4. sent.text = m.text
      BY <3>3, TakenIs
    <3> QED BY <2>6, <3>1, <3>4 DEF m, sent
  <2> QED BY <2>4, <2>7, <2>8, <2>9, <2>10 DEF n
<1> QED BY <1>1, InvInvariant, PTL

\* What an answer is made of, and the usage it is charged with, are of one
\* attempt, however often the provider is asked again.
THEOREM AttemptsAreNotMixed == Spec => []AnswerOfOneAttempt
<1>1. IInv => AnswerOfOneAttempt
  BY DEF IInv
<1> QED BY <1>1, InvInvariant, PTL

\* A closed stream is stored, one with an error event is not, and a stored one
\* was given to the client chunk by chunk.
THEOREM ClientSawWhatIsStored == Spec => []StoredIsWhatClientSaw
<1>1. IInv => StoredIsWhatClientSaw
  <2> SUFFICES ASSUME IInv PROVE StoredIsWhatClientSaw
    OBVIOUS
  <2>1. outcome = "complete" => stored # << >>
    BY DEF IInv, StoredInFull
  <2>2. ASSUME mode = "stream", stored # << >>
        PROVE  outcome # "error" /\ events = [i \in DOMAIN stored |-> Frame(stored[i])]
    BY <2>2 DEF IInv, StoredInFull, Shown
  <2> QED BY <2>1, <2>2 DEF StoredIsWhatClientSaw
<1> QED BY <1>1, InvInvariant, PTL
-----------------------------------------------------------------------------
(* The refinement. *)

LEMMA InitRefines == Init => Turns!TurnsInit
BY DEF Init, Turns!TurnsInit, Phase

LEMMA StepRefines == IInv /\ [Next]_vars => [Turns!TurnsNext]_<<Phase, turn>>
<1> SUFFICES ASSUME IInv, [Next]_vars PROVE [Turns!TurnsNext]_<<Phase, turn>>
  OBVIOUS
<1> USE DEF IInv
<1>1. Reserve => UNCHANGED <<Phase, turn>>
  BY DEF Reserve, GoTo, Written, Phase, TypeOK, TurnInHand, StoredInFull, Ended
<1>2. Reply => Turns!TakeTurn \/ UNCHANGED <<Phase, turn>>
  BY DEF Reply, GoTo, Written, Turns!TakeTurn, Phase, TypeOK, TurnInHand, StoredInFull, Ended
<1>3. Chunk => UNCHANGED <<Phase, turn>>
  BY DEF Chunk, Written, Phase, TypeOK, TurnInHand, StoredInFull, Ended
<1>4. EndStream => Turns!TakeTurn \/ UNCHANGED <<Phase, turn>>
  BY DEF EndStream, GoTo, Written, Turns!TakeTurn, Phase, TypeOK, TurnInHand, StoredInFull, Ended
<1>5. Timeout => UNCHANGED <<Phase, turn>>
  BY DEF Timeout, GoTo, Written, Phase, TypeOK, TurnInHand, StoredInFull, Ended
<1>6. Retry => UNCHANGED <<Phase, turn>>
  BY DEF Retry, GoTo, Written, Phase, TypeOK, TurnInHand, StoredInFull, Ended
<1>7. ProviderError => UNCHANGED <<Phase, turn>>
  BY DEF ProviderError, GoTo, Written, Phase, TypeOK, TurnInHand, StoredInFull, Ended
<1>8. Release => Turns!GiveUp
  BY DEF Release, GoTo, Turns!GiveUp, Phase, TypeOK, TurnInHand, StoredInFull, Ended
<1>9. Record => Turns!PayTurn \/ Turns!GiveUp
  BY DEF Record, GoTo, Turns!PayTurn, Turns!GiveUp, Phase, TypeOK, TurnInHand, StoredInFull, Ended
<1>10. RunTools => Turns!GiveUp \/ UNCHANGED <<Phase, turn>>
  BY DEF RunTools, GoTo, Turns!GiveUp, Phase, TypeOK, TurnInHand, StoredInFull, Ended
<1>11. Store => Turns!StoreAnswer
  BY DEF Store, GoTo, Turns!StoreAnswer, Phase, TypeOK, Modes, TurnInHand, StoredInFull, Ended
<1>12. Refresh => UNCHANGED <<Phase, turn>>
  BY DEF Refresh, GoTo, Phase, TypeOK, TurnInHand, StoredInFull, Ended
<1>13. Break => Turns!GiveUp \/ UNCHANGED <<Phase, turn>>
  BY DEF Break, GoTo, Turns!GiveUp, Phase, TypeOK, TurnInHand, StoredInFull, Ended
<1>14. UNCHANGED vars => UNCHANGED <<Phase, turn>>
  BY DEF vars, Phase
<1> QED BY <1>1, <1>2, <1>3, <1>4, <1>5, <1>6, <1>7, <1>8, <1>9, <1>10, <1>11,
           <1>12, <1>13, <1>14 DEF Next, Over, Turns!TurnsNext

\* The tool loop, the retries and the stream implement AnswerTurns.
THEOREM AnsweringRefines == Spec => ImplementsTurns
<1>1. Init => Turns!TurnsInit
  BY InitRefines
<1>2. IInv /\ [Next]_vars => [Turns!TurnsNext]_<<Phase, turn>>
  BY StepRefines
<1> QED BY <1>1, <1>2, InvInvariant, PTL DEF Spec, ImplementsTurns, Turns!TurnsSpec, Turns!turnVars
=============================================================================
