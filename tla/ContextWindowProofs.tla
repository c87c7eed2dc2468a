------------------------ MODULE ContextWindowProofs ------------------------
(***************************************************************************)
(* Theorems about ContextWindow, for histories of every length and every   *)
(* size of window, prompt, summary and message.                            *)
(*                                                                         *)
(* The loops of the builder are recursive functions over the positions of  *)
(* a history.  That they compute what they say, and what that is, is shown *)
(* by induction on the positions (Recursion and BoundedInduction of        *)
(* TotalsProofs).                                                          *)
(***************************************************************************)
EXTENDS ContextWindow, TotalsProofs, SequenceTheorems

-----------------------------------------------------------------------------
(* Units. *)

\* The positions of a history.
LEMMA Positions ==
  ASSUME NEW msgs \in Seq(Messages)
  PROVE  /\ Len(msgs) \in Nat
         /\ DOMAIN msgs = 1 .. Len(msgs)
         /\ Conversation(msgs) \subseteq 1 .. Len(msgs)
         /\ SystemMessages(msgs) \subseteq 1 .. Len(msgs)
         /\ \A p \in 1 .. Len(msgs) : msgs[p] \in Messages /\ msgs[p].tokens \in Nat \ {0}
<1>1. Len(msgs) \in Nat /\ msgs \in [1 .. Len(msgs) -> Messages]
  BY LenProperties
<1> QED BY <1>1, MessagesAssumption DEF Conversation, SystemMessages

\* Where units begin is what the loop computes.
LEMMA BeganSteps ==
  ASSUME NEW msgs \in Seq(Messages)
  PROVE  /\ Began(msgs) \in [0 .. Len(msgs) -> 0 .. Len(msgs)]
         /\ Began(msgs)[0] = 0
         /\ \A p \in 1 .. Len(msgs) :
                Began(msgs)[p] = LastUnit(msgs, p, Began(msgs)[p - 1])
<1> DEFINE n == Len(msgs)
           step == [x \in (1 .. n) \X (0 .. n) |-> LastUnit(msgs, x[1], x[2])]
           Is(f) == f = [p \in 0 .. n |-> IF p = 0 THEN 0 ELSE LastUnit(msgs, p, f[p - 1])]
<1>1. n \in Nat
  BY Positions
<1>2. step \in [(1 .. n) \X (0 .. n) -> 0 .. n]
  BY <1>1 DEF LastUnit
<1>3. PICK g : Runs(g, 0 .. n, 0, n, step)
  <2>1. 0 \in 0 .. n
    BY <1>1
  <2> HIDE DEF step, n
  <2> QED BY <1>1, <1>2, <2>1, Recursion
<1>4. ASSUME NEW p \in 1 .. n
      PROVE  g[p] = LastUnit(msgs, p, g[p - 1])
  <2>1. g[p - 1] \in 0 .. n
    BY <1>1, <1>3 DEF Runs
  <2>2. <<p, g[p - 1]>> \in (1 .. n) \X (0 .. n)
    BY <2>1
  <2>3. step[<<p, g[p - 1]>>] = LastUnit(msgs, p, g[p - 1])
    BY <2>2
  <2> QED BY <1>3, <2>3 DEF Runs
<1>5. Is(g)
  BY <1>1, <1>3, <1>4 DEF Runs
<1>6. Is(CHOOSE f : Is(f))
  <2> HIDE DEF Is
  <2> QED BY <1>5
<1>7. Is(Began(msgs))
  BY <1>6 DEF Began
<1> HIDE DEF n
<1>8. \A p \in 0 .. n : p = 0 \/ p \in 1 .. n
  BY <1>1
<1>9. \A p \in 1 .. n : p \in 0 .. n /\ p # 0 /\ p - 1 \in 0 .. n
  BY <1>1
<1>10. 0 \in 0 .. n
  BY <1>1
<1>11. /\ Began(msgs)[0] = 0
       /\ \A p \in 1 .. n : Began(msgs)[p] = LastUnit(msgs, p, Began(msgs)[p - 1])
  <2> DEFINE began == Began(msgs)
  <2> HIDE DEF began
  <2>1. began[0] = 0
    BY <1>7, <1>10 DEF began
  <2>2. ASSUME NEW p \in 1 .. n
        PROVE  began[p] = LastUnit(msgs, p, began[p - 1])
    BY <1>7, <1>9 DEF began
  <2> QED BY <2>1, <2>2 DEF began
<1>12. 0 .. n \subseteq { p \in 0 .. n : Began(msgs)[p] \in 0 .. n }
  <2> DEFINE T == { p \in 0 .. n : Began(msgs)[p] \in 0 .. n }
  <2>1. 0 \in T
    BY <1>10, <1>11
  <2>2. \A p \in 1 .. n : p - 1 \in T => p \in T
    BY <1>9, <1>11 DEF LastUnit
  <2>3. 0 .. n \subseteq T
    <3> HIDE DEF T
    <3> QED BY <1>1, <2>1, <2>2, BoundedInduction
  <2> QED BY <2>3
<1>13. Began(msgs) \in [0 .. n -> 0 .. n]
  <2>1. \A p \in 0 .. n : Began(msgs)[p] \in 0 .. n
    BY <1>12
  <2>2. Began(msgs) = [p \in 0 .. n |-> Began(msgs)[p]]
    BY <1>7
  <2> QED BY <2>1, <2>2
<1> QED BY <1>11, <1>13 DEF n

\* The last unit up to p begins at its own beginning, with a message of the
\* conversation, and what follows it up to p are its tool results.
Heads(msgs, p) ==
  LET b == Began(msgs)[p]
  IN  /\ b \in 0 .. p
      /\ \A q \in 1 .. p : b < q /\ Role(msgs, q) # "system" =>
            Role(msgs, q) = "tool" /\ b # 0 /\ msgs[b].calls
      /\ b # 0 => b \in Conversation(msgs) /\ Began(msgs)[b] = b

LEMMA BeganHeads ==
  ASSUME NEW msgs \in Seq(Messages), NEW p \in 0 .. Len(msgs)
  PROVE  Heads(msgs, p)
<1> DEFINE T == { q \in 0 .. Len(msgs) : Heads(msgs, q) }
<1>1. 0 \in T
  <2>1. Len(msgs) \in Nat /\ Began(msgs)[0] = 0
    BY Positions, BeganSteps
  <2> QED BY <2>1 DEF Heads
<1>2. ASSUME NEW q \in 1 .. Len(msgs), q - 1 \in T
      PROVE  q \in T
  <2> DEFINE a == Began(msgs)[q - 1]
             b == Began(msgs)[q]
  <2>1. /\ Len(msgs) \in Nat
        /\ q \in 0 .. Len(msgs)
        /\ b = LastUnit(msgs, q, a)
        /\ Heads(msgs, q - 1)
    BY <1>2, Positions, BeganSteps
  <2>2. /\ a \in 0 .. q - 1
        /\ \A r \in 1 .. q - 1 : a < r /\ Role(msgs, r) # "system" =>
              Role(msgs, r) = "tool" /\ a # 0 /\ msgs[a].calls
        /\ a # 0 => a \in Conversation(msgs) /\ Began(msgs)[a] = a
    BY <2>1 DEF Heads
  <2>3. CASE b = q
    <3>1. \A r \in 1 .. q : ~ (q < r)
      BY <2>1
    <3>2. CASE Role(msgs, q) # "system"
      <4>1. q \in Conversation(msgs)
        BY <3>2, Positions DEF Conversation
      <4> QED BY <2>1, <2>3, <3>1, <4>1 DEF Heads
    <3>3. CASE Role(msgs, q) = "system"
      BY <2>1, <2>2, <2>3, <3>3 DEF LastUnit
    <3> QED BY <3>2, <3>3
  <2>4. CASE b # q
    <3>1. /\ b = a
          /\ \/ Role(msgs, q) = "system"
             \/ Role(msgs, q) = "tool" /\ a # 0 /\ msgs[a].calls
      BY <2>1, <2>4 DEF LastUnit
    <3>2. \A r \in 1 .. q : r = q \/ r \in 1 .. q - 1
      BY <2>1
    <3> HIDE DEF a, b
    <3>3. /\ b \in 0 .. q
          /\ b # 0 => b \in Conversation(msgs) /\ Began(msgs)[b] = b
      BY <2>1, <2>2, <3>1
    <3>4. \A r \in 1 .. q : b < r /\ Role(msgs, r) # "system" =>
            Role(msgs, r) = "tool" /\ b # 0 /\ msgs[b].calls
      BY <2>2, <3>1, <3>2
    <3>5. Heads(msgs, q)
      BY <3>3, <3>4 DEF Heads, b
    <3> QED BY <2>1, <3>5
  <2> QED BY <2>3, <2>4
<1>3. 0 .. Len(msgs) \subseteq T
  <2> HIDE DEF T
  <2> QED BY <1>1, <1>2, Positions, BoundedInduction
<1> QED BY <1>3

\* Later positions are in later units.
LEMMA BeganMonotone ==
  ASSUME NEW msgs \in Seq(Messages), NEW p \in 0 .. Len(msgs), NEW q \in 0 .. Len(msgs),
         p <= q
  PROVE  Began(msgs)[p] <= Began(msgs)[q]
<1> DEFINE T == { r \in 0 .. Len(msgs) : p <= r => Began(msgs)[p] <= Began(msgs)[r] }
<1>1. Len(msgs) \in Nat /\ Began(msgs) \in [0 .. Len(msgs) -> 0 .. Len(msgs)]
  BY Positions, BeganSteps
<1>2. 0 \in T
  BY <1>1
<1>3. ASSUME NEW r \in 1 .. Len(msgs), r - 1 \in T
      PROVE  r \in T
  <2>1. /\ Began(msgs)[r - 1] \in 0 .. r - 1
        /\ Began(msgs)[r] = r \/ Began(msgs)[r] = Began(msgs)[r - 1]
    <3>1. r - 1 \in 0 .. Len(msgs)
      BY <1>1
    <3>2. Heads(msgs, r - 1)
      BY <3>1, BeganHeads
    <3> QED BY <3>2, BeganSteps DEF Heads, LastUnit
  <2>2. r \in 0 .. Len(msgs)
    BY <1>1
  <2>3. CASE p = r
    BY <1>1, <2>2, <2>3
  <2>4. CASE p # r
    BY <1>1, <1>3, <2>1, <2>2, <2>4
  <2> QED BY <2>3, <2>4
<1>4. 0 .. Len(msgs) \subseteq T
  <2> HIDE DEF T
  <2> QED BY <1>1, <1>2, <1>3, BoundedInduction
<1> QED BY <1>4

\* A unit that has begun with a call goes on through the tool results.
LEMMA CallsHoldResults ==
  ASSUME NEW msgs \in Seq(Messages), NEW c \in Conversation(msgs), msgs[c].calls,
         NEW p \in 1 .. Len(msgs), c <= p,
         \A q \in Conversation(msgs) : c < q /\ q <= p => Role(msgs, q) = "tool"
  PROVE  Began(msgs)[p] = c
<1> DEFINE T == { r \in 0 .. Len(msgs) : c <= r /\ r <= p => Began(msgs)[r] = c }
<1>1. Len(msgs) \in Nat /\ c \in 1 .. Len(msgs)
  BY Positions
<1>2. 0 \in T
  BY <1>1
<1>3. ASSUME NEW r \in 1 .. Len(msgs), r - 1 \in T
      PROVE  r \in T
  <2>1. r \in 0 .. Len(msgs) /\ Began(msgs)[r] = LastUnit(msgs, r, Began(msgs)[r - 1])
    BY <1>1, BeganSteps
  <2>2. CASE r = c
    <3>1. Role(msgs, c) # "system" /\ Role(msgs, c) # "tool"
      BY <1>1, Positions, MessagesAssumption DEF Role
    <3> QED BY <2>1, <2>2, <3>1 DEF LastUnit
  <2>3. CASE c < r /\ r <= p
    <3>1. Began(msgs)[r - 1] = c
      BY <1>1, <1>3, <2>3
    <3>2. Role(msgs, r) = "system" \/ Role(msgs, r) = "tool"
      BY <2>3, Positions DEF Conversation
    <3>3. Began(msgs)[r] = c
      BY <1>1, <2>1, <3>1, <3>2 DEF LastUnit
    <3> QED BY <2>1, <3>3
  <2>4. CASE r < c \/ p < r
    BY <1>1, <2>1, <2>4
  <2> QED BY <1>1, <2>2, <2>3, <2>4
<1>4. 0 .. Len(msgs) \subseteq T
  <2> HIDE DEF T
  <2> QED BY <1>1, <1>2, <1>3, BoundedInduction
<1>5. p \in 0 .. Len(msgs)
  BY <1>1
<1> QED BY <1>4, <1>5

\* Units begin where no call before is answered: where a context may begin.
LEMMA UnitsBeginAtStarts ==
  ASSUME NEW msgs \in Seq(Messages), NEW p \in Conversation(msgs)
  PROVE  /\ Began(msgs)[p] \in Starts(msgs)
         /\ Began(msgs)[p] <= p
         /\ p \in Starts(msgs) <=> Began(msgs)[p] = p
<1>1. ASSUME NEW q \in Conversation(msgs)
      PROVE  q \in Starts(msgs) <=> Began(msgs)[q] = q
  <2> DEFINE b == Began(msgs)[q - 1]
  <2>1. /\ Len(msgs) \in Nat
        /\ q \in 1 .. Len(msgs)
        /\ q - 1 \in 0 .. Len(msgs)
        /\ Role(msgs, q) # "system"
        /\ Began(msgs)[q] = LastUnit(msgs, q, b)
    BY Positions, BeganSteps DEF Conversation
  <2>2. ASSUME Began(msgs)[q] # q PROVE Attached(msgs, q)
    <3>1. Role(msgs, q) = "tool" /\ b # 0 /\ msgs[b].calls
      BY <2>1, <2>2 DEF LastUnit
    <3>2. Heads(msgs, q - 1)
      BY <2>1, BeganHeads
    <3>3. b \in Conversation(msgs) /\ b < q
      BY <2>1, <3>1, <3>2 DEF Heads
    <3>4. ASSUME NEW r \in Conversation(msgs), b < r, r < q
          PROVE  Role(msgs, r) = "tool"
      <4>1. r \in 1 .. q - 1 /\ Role(msgs, r) # "system"
        BY <2>1, <3>4, Positions DEF Conversation
      <4> QED BY <3>2, <3>4, <4>1 DEF Heads
    <3> HIDE DEF b
    <3> QED BY <3>1, <3>3, <3>4 DEF Attached
  <2>3. ASSUME Attached(msgs, q) PROVE Began(msgs)[q] # q
    <3>1. PICK c \in Conversation(msgs) :
            /\ c < q
            /\ msgs[c].calls
            /\ \A r \in Conversation(msgs) : c < r /\ r < q => Role(msgs, r) = "tool"
      BY <2>3 DEF Attached
    <3>2. \A r \in Conversation(msgs) : c < r /\ r <= q => Role(msgs, r) = "tool"
      BY <2>1, <2>3, <3>1, Positions DEF Attached
    <3>3. Began(msgs)[q] = c
      BY <2>1, <3>1, <3>2, Positions, CallsHoldResults
    <3> QED BY <2>1, <3>1, <3>3, Positions
  <2> QED BY <2>2, <2>3 DEF Starts
<1>2. /\ Began(msgs)[p] \in Conversation(msgs)
      /\ Began(msgs)[p] <= p
      /\ Began(msgs)[Began(msgs)[p]] = Began(msgs)[p]
  <2>1. p \in 1 .. Len(msgs) /\ p \in 0 .. Len(msgs) /\ Role(msgs, p) # "system"
    BY Positions DEF Conversation
  <2>2. Heads(msgs, p)
    BY <2>1, BeganHeads
  <2>3. Began(msgs)[p] # 0
    BY <2>1, <2>2 DEF Heads
  <2> QED BY <2>1, <2>2, <2>3 DEF Heads
<1> QED BY <1>1, <1>2
-----------------------------------------------------------------------------
(* Tokens. *)

\* The tokens of some messages are a natural number.
LEMMA TokensNat ==
  ASSUME NEW msgs \in Seq(Messages), NEW ps \in SUBSET (1 .. Len(msgs))
  PROVE  /\ IsFiniteSet(Units([p \in ps |-> msgs[p].tokens]))
         /\ Tokens(msgs, ps) \in Nat
<1>1. IsFiniteSet(ps)
  <2>1. IsFiniteSet(1 .. Len(msgs))
    BY Positions, FS_Interval
  <2> QED BY <2>1, FS_Subset
<1>2. [p \in ps |-> msgs[p].tokens] \in [ps -> Nat]
  BY Positions
<1> QED BY <1>1, <1>2, TotalIsNat DEF Tokens

\* More messages have more tokens.
LEMMA TokensSubset ==
  ASSUME NEW msgs \in Seq(Messages), NEW qs \in SUBSET (1 .. Len(msgs)), NEW ps \in SUBSET qs
  PROVE  Tokens(msgs, ps) <= Tokens(msgs, qs)
<1>1. Units([p \in ps |-> msgs[p].tokens]) \subseteq Units([p \in qs |-> msgs[p].tokens])
  BY DEF Units
<1> QED BY <1>1, TokensNat, FS_Subset DEF Tokens, Total

\* Two messages have at least two tokens.
LEMMA TwoTokens ==
  ASSUME NEW msgs \in Seq(Messages), NEW ps \in SUBSET (1 .. Len(msgs)),
         NEW p \in ps, NEW q \in ps, p # q
  PROVE  Tokens(msgs, ps) >= 2
<1> DEFINE units == Units([r \in ps |-> msgs[r].tokens])
           two == {<<p, 1>>} \cup {<<q, 1>>}
<1>1. 1 \in 1 .. msgs[p].tokens /\ 1 \in 1 .. msgs[q].tokens
  BY Positions
<1>2. two \subseteq units
  BY <1>1 DEF Units
<1>3. <<q, 1>> \notin {<<p, 1>>}
  OBVIOUS
<1>4. IsFiniteSet({<<p, 1>>}) /\ Cardinality({<<p, 1>>}) = 1
  BY FS_Singleton
<1>5. Cardinality(two) = 2
  <2>1. Cardinality(two) = Cardinality({<<p, 1>>}) + 1
    BY <1>3, <1>4, FS_AddElement
  <2> QED BY <1>4, <2>1
<1>6. IsFiniteSet(units) /\ Cardinality(units) = Tokens(msgs, ps)
  BY TokensNat DEF Tokens, Total
<1>7. Cardinality(two) <= Cardinality(units)
  <2> HIDE DEF two, units
  <2> QED BY <1>2, <1>6, FS_Subset
<1> QED BY <1>5, <1>6, <1>7, TokensNat

\* What the budget is.
LEMMA BudgetIs ==
  ASSUME NEW msgs \in Seq(Messages), NEW sum \in Nat
  PROVE  /\ SystemTokens(msgs, sum) \in Nat
         /\ Budget(msgs, sum) \in Nat
         /\ \/ Budget(msgs, sum) = 1
            \/ Budget(msgs, sum) = MaxTokens - ReserveTokens - SystemTokens(msgs, sum)
<1>1. Tokens(msgs, SystemMessages(msgs)) \in Nat
  BY Positions, TokensNat
<1>2. SystemTokens(msgs, sum) \in Nat
  BY <1>1, MessagesAssumption DEF SystemTokens
<1> QED BY <1>2, SettingsAssumption DEF Budget, AtLeastOne

\* A smaller summary leaves a larger budget.
LEMMA BudgetMonotone ==
  ASSUME NEW msgs \in Seq(Messages), NEW sum \in Nat, NEW less \in Nat, less <= sum
  PROVE  Budget(msgs, sum) <= Budget(msgs, less)
<1>1. Tokens(msgs, SystemMessages(msgs)) \in Nat
  BY Positions, TokensNat
<1>2. SystemTokens(msgs, less) <= SystemTokens(msgs, sum)
  BY <1>1, MessagesAssumption DEF SystemTokens
<1>3. SystemTokens(msgs, less) \in Nat /\ SystemTokens(msgs, sum) \in Nat
  BY BudgetIs
<1> QED BY <1>2, <1>3, SettingsAssumption DEF Budget, AtLeastOne
-----------------------------------------------------------------------------
(* The selection. *)

\* What is taken is what the loop computes.
LEMMA TakenSteps ==
  ASSUME NEW msgs \in Seq(Messages), NEW budget
  PROVE  /\ Taken(msgs, budget)[0] = {}
         /\ \A n \in 1 .. Len(msgs) :
                Taken(msgs, budget)[n] =
                    Take(msgs, Taken(msgs, budget)[n - 1], Len(msgs) + 1 - n, budget)
<1> DEFINE l == Len(msgs)
           S == SUBSET Conversation(msgs)
           step == [x \in (1 .. l) \X S |-> Take(msgs, x[2], l + 1 - x[1], budget)]
           Is(f) == f = [n \in 0 .. l |->
                           IF n = 0 THEN {} ELSE Take(msgs, f[n - 1], l + 1 - n, budget)]
<1>1. l \in Nat /\ {} \in S
  BY Positions
<1>2. step \in [(1 .. l) \X S -> S]
  <2>1. ASSUME NEW taken \in S, NEW p PROVE Take(msgs, taken, p, budget) \in S
    BY DEF Take, Unit
  <2> QED BY <2>1
<1>3. PICK g : Runs(g, S, {}, l, step)
  <2> HIDE DEF step, l, S
  <2> QED BY <1>1, <1>2, Recursion
<1>4. ASSUME NEW n \in 1 .. l
      PROVE  g[n] = Take(msgs, g[n - 1], l + 1 - n, budget)
  <2>1. g[n - 1] \in S
    BY <1>1, <1>3 DEF Runs
  <2>2. <<n, g[n - 1]>> \in (1 .. l) \X S
    BY <2>1
  <2>3. step[<<n, g[n - 1]>>] = Take(msgs, g[n - 1], l + 1 - n, budget)
    BY <2>2
  <2> QED BY <1>3, <2>3 DEF Runs
<1>5. Is(g)
  BY <1>1, <1>3, <1>4 DEF Runs
<1>6. Is(CHOOSE f : Is(f))
  <2> HIDE DEF Is
  <2> QED BY <1>5
<1>7. Is(Taken(msgs, budget))
  BY <1>6 DEF Taken
<1> HIDE DEF l
<1>8. \A n \in 1 .. l : n \in 0 .. l /\ n # 0
  BY <1>1
<1>9. 0 \in 0 .. l
  BY <1>1
<1> DEFINE taken == Taken(msgs, budget)
<1> HIDE DEF taken
<1>10. taken[0] = {}
  BY <1>7, <1>9 DEF taken
<1>11. ASSUME NEW n \in 1 .. l
       PROVE  taken[n] = Take(msgs, taken[n - 1], l + 1 - n, budget)
  BY <1>7, <1>8 DEF taken
<1> QED BY <1>10, <1>11 DEF taken, l

\* The units that begin at p or later are everything from p on, if one begins
\* at p.
LEMMA NewerIsFrom ==
  ASSUME NEW msgs \in Seq(Messages), NEW p \in Starts(msgs)
  PROVE  Newer(msgs, p) \cup Unit(msgs, p) = From(msgs, p)
<1> SUFFICES ASSUME NEW q \in Conversation(msgs)
             PROVE  Began(msgs)[q] >= p <=> q >= p
  <2>1. \A q \in Conversation(msgs) : Began(msgs)[q] \in Nat /\ p \in Nat
    BY Positions, UnitsBeginAtStarts, BeganSteps DEF Starts
  <2> QED BY <2>1 DEF Newer, Unit, From
<1>1. /\ p \in Conversation(msgs)
      /\ p \in 1 .. Len(msgs) /\ q \in 1 .. Len(msgs)
      /\ Len(msgs) \in Nat
      /\ Began(msgs)[p] = p
      /\ Began(msgs)[q] <= q /\ Began(msgs)[q] \in 0 .. Len(msgs)
  BY Positions, UnitsBeginAtStarts, BeganSteps DEF Starts
<1>2. p <= q => p <= Began(msgs)[q]
  BY <1>1, BeganMonotone
<1> QED BY <1>1, <1>2

\* No unit begins where a context may not.
LEMMA UnitOfStart ==
  ASSUME NEW msgs \in Seq(Messages), NEW p \in 1 .. Len(msgs), p \notin Starts(msgs)
  PROVE  Unit(msgs, p) = {}
BY UnitsBeginAtStarts DEF Unit

\* The loop's invariant, when the units that begin at p or later are seen: what
\* is taken is everything from a start s on; the budget holds it, or it is the
\* newest unit; the budget holds no more.
TakenFrom(msgs, taken, p, budget, s) ==
  /\ p <= s
  /\ taken = From(msgs, s)
  /\ Fits(msgs, s, budget) \/ \A r \in Starts(msgs) : r <= s
  /\ \A r \in Starts(msgs) : p <= r /\ r < s => ~ Fits(msgs, r, budget)

TakenSoFar(msgs, taken, p, budget) ==
  /\ taken \subseteq Newer(msgs, p - 1)
  /\ \/ Newer(msgs, p - 1) = {}
     \/ \E s \in Starts(msgs) : TakenFrom(msgs, taken, p, budget, s)

\* The loop's body keeps it.
LEMMA TakeStep ==
  ASSUME NEW msgs \in Seq(Messages), NEW budget \in Nat, NEW p \in 1 .. Len(msgs),
         NEW taken, TakenSoFar(msgs, taken, p + 1, budget)
  PROVE  TakenSoFar(msgs, Take(msgs, taken, p, budget), p, budget)
<1>1. /\ Len(msgs) \in Nat
      /\ p + 1 - 1 = p
      /\ \A q \in Conversation(msgs) : Began(msgs)[q] \in Nat /\ q \in Nat
      /\ Starts(msgs) \subseteq Conversation(msgs)
  BY Positions, BeganSteps DEF Starts
<1>2. Newer(msgs, p - 1) = Newer(msgs, p) \cup Unit(msgs, p)
  BY <1>1 DEF Newer, Unit
<1>3. taken \subseteq Newer(msgs, p)
  BY <1>1 DEF TakenSoFar
<1>4. \A s \in Starts(msgs) : s > p => s \in Newer(msgs, p)
  BY <1>1, UnitsBeginAtStarts DEF Newer
<1>5. CASE p \notin Starts(msgs)
  <2>1. Unit(msgs, p) = {}
    BY <1>5, UnitOfStart
  <2>2. Take(msgs, taken, p, budget) = taken /\ Newer(msgs, p - 1) = Newer(msgs, p)
    BY <1>2, <2>1 DEF Take
  <2>3. ASSUME NEW s \in Starts(msgs), TakenFrom(msgs, taken, p + 1, budget, s)
        PROVE  TakenFrom(msgs, taken, p, budget, s)
    BY <1>1, <1>5, <2>3 DEF TakenFrom
  <2> QED BY <1>1, <2>2, <2>3 DEF TakenSoFar
<1>6. CASE p \in Starts(msgs) /\ ~ Breaks(msgs, taken, p, budget)
  <2>1. /\ taken = Newer(msgs, p)
        /\ taken # {} => Tokens(msgs, taken \cup Unit(msgs, p)) <= budget
    <3>1. taken \cup Unit(msgs, p) \subseteq 1 .. Len(msgs)
      BY <1>3, Positions DEF Newer, Unit
    <3>2. Tokens(msgs, taken \cup Unit(msgs, p)) \in Nat
      BY <3>1, TokensNat
    <3> QED BY <1>6, <3>2 DEF Breaks, Full
  <2>2. Take(msgs, taken, p, budget) = Newer(msgs, p - 1)
    BY <1>2, <1>6, <2>1 DEF Take
  <2>3. Newer(msgs, p) \cup Unit(msgs, p) = From(msgs, p)
    BY <1>6, NewerIsFrom
  <2>4. Fits(msgs, p, budget) \/ \A r \in Starts(msgs) : r <= p
    <3>1. CASE taken = {}
      <4>1. \A r \in Starts(msgs) : ~ (r > p)
        BY <1>4, <2>1, <3>1
      <4> QED BY <1>1, <4>1
    <3>2. CASE taken # {}
      BY <2>1, <2>3, <3>2 DEF Fits
    <3> QED BY <3>1, <3>2
  <2>5. TakenFrom(msgs, From(msgs, p), p, budget, p)
    BY <1>1, <1>6, <2>4 DEF TakenFrom
  <2> QED BY <1>2, <1>6, <2>2, <2>3, <2>5 DEF TakenSoFar
<1>7. CASE p \in Starts(msgs) /\ Breaks(msgs, taken, p, budget)
  <2>1. Take(msgs, taken, p, budget) = taken
    BY <1>7 DEF Take
  <2>2. Newer(msgs, p) # {}
    BY <1>3, <1>7 DEF Breaks, Full
  <2>3. PICK s \in Starts(msgs) : TakenFrom(msgs, taken, p + 1, budget, s)
    BY <1>1, <2>2 DEF TakenSoFar
  <2>4. /\ p < s
        /\ taken = From(msgs, s)
        /\ From(msgs, p) \subseteq 1 .. Len(msgs)
        /\ Newer(msgs, p) \cup Unit(msgs, p) = From(msgs, p)
    BY <1>1, <1>7, <2>3, Positions, NewerIsFrom DEF TakenFrom, From
  <2>5. ~ Fits(msgs, p, budget)
    <3>1. CASE Full(msgs, taken, Unit(msgs, p), budget)
      <4>1. taken \cup Unit(msgs, p) \subseteq From(msgs, p)
        BY <1>3, <2>4
      <4>2. Tokens(msgs, taken \cup Unit(msgs, p)) <= Tokens(msgs, From(msgs, p))
        BY <2>4, <4>1, TokensSubset
      <4>3. taken \cup Unit(msgs, p) \in SUBSET (1 .. Len(msgs))
        BY <2>4, <4>1
      <4>4. Tokens(msgs, taken \cup Unit(msgs, p)) \in Nat /\ Tokens(msgs, From(msgs, p)) \in Nat
        BY <2>4, <4>3, TokensNat
      <4> QED BY <3>1, <4>2, <4>4 DEF Full, Fits
    <3>2. CASE taken # Newer(msgs, p)
      <4>1. PICK q \in Newer(msgs, p) : q < s
        BY <1>1, <1>3, <2>4, <3>2 DEF From, Newer
      <4> DEFINE r == Began(msgs)[q]
      <4>2. r \in Starts(msgs) /\ r <= q /\ r > p
        BY <4>1, UnitsBeginAtStarts DEF Newer
      <4> HIDE DEF r
      <4>3. ~ Fits(msgs, r, budget)
        BY <1>1, <2>3, <4>1, <4>2 DEF TakenFrom, Newer
      <4>4. From(msgs, r) \subseteq From(msgs, p)
        BY <1>1, <4>2 DEF From
      <4>5. Tokens(msgs, From(msgs, r)) <= Tokens(msgs, From(msgs, p))
        BY <2>4, <4>4, TokensSubset
      <4>6. Tokens(msgs, From(msgs, r)) \in Nat /\ Tokens(msgs, From(msgs, p)) \in Nat
        BY <2>4, <4>4, TokensNat
      <4> QED BY <4>3, <4>5, <4>6 DEF Fits
    <3> QED BY <1>7, <3>1, <3>2 DEF Breaks
  <2>6. TakenFrom(msgs, taken, p, budget, s)
    <3>1. \A r \in Starts(msgs) : p <= r => r = p \/ p + 1 <= r
      BY <1>1
    <3> QED BY <1>1, <2>3, <2>4, <2>5, <3>1 DEF TakenFrom
  <2> QED BY <1>2, <1>3, <2>1, <2>6 DEF TakenSoFar
<1> QED BY <1>5, <1>6, <1>7

\* What the loop leaves, for any history and budget.
LEMMA Selection ==
  ASSUME NEW msgs \in Seq(Messages), NEW budget \in Nat
  PROVE  IF Conversation(msgs) = {}
         THEN SelectRecentUnits(msgs, budget) = {}
         ELSE \E s \in Starts(msgs) :
                TakenFrom(msgs, SelectRecentUnits(msgs, budget), 1, budget, s)
<1> DEFINE l == Len(msgs)
           T == { n \in 0 .. l : TakenSoFar(msgs, Taken(msgs, budget)[n], l + 1 - n, budget) }
<1>1. l \in Nat
  BY Positions
<1>2. 0 \in T
  <2>1. Newer(msgs, l) = {}
    BY <1>1, Positions, UnitsBeginAtStarts DEF Newer, Starts
  <2>2. (l + 1 - 0) - 1 = l
    BY <1>1
  <2> QED BY <1>1, <2>1, <2>2, TakenSteps DEF TakenSoFar
<1>3. ASSUME NEW n \in 1 .. l, n - 1 \in T
      PROVE  n \in T
  <2>1. /\ l + 1 - n \in 1 .. Len(msgs)
        /\ l + 1 - (n - 1) = (l + 1 - n) + 1
        /\ n \in 0 .. l
    BY <1>1
  <2>2. TakenSoFar(msgs, Taken(msgs, budget)[n - 1], (l + 1 - n) + 1, budget)
    BY <1>3, <2>1
  <2>3. Taken(msgs, budget)[n] = Take(msgs, Taken(msgs, budget)[n - 1], l + 1 - n, budget)
    BY TakenSteps
  <2>4. TakenSoFar(msgs, Taken(msgs, budget)[n], l + 1 - n, budget)
    BY <2>1, <2>2, <2>3, TakeStep
  <2> QED BY <2>1, <2>4
<1>4. 0 .. l \subseteq T
  <2> HIDE DEF T, l
  <2> QED BY <1>1, <1>2, <1>3, BoundedInduction
<1>5. TakenSoFar(msgs, SelectRecentUnits(msgs, budget), 1, budget)
  BY <1>1, <1>4 DEF SelectRecentUnits
<1>6. Newer(msgs, 1 - 1) = Conversation(msgs)
  <2>1. \A q \in Conversation(msgs) : Began(msgs)[q] > 0
    BY Positions, UnitsBeginAtStarts, BeganSteps DEF Starts
  <2> QED BY <2>1 DEF Newer
<1> QED BY <1>5, <1>6 DEF TakenSoFar
-----------------------------------------------------------------------------
(* The theorems. *)

\* The context is always built from the history and the summary at hand
\* (_update_summary_if_needed builds it again when it has a new summary).
THEOREM TypeCorrect == Spec => []TypeOK
<1>1. Init => TypeOK
  <2>1. <<>> \in Seq(Messages)
    BY EmptySeq
  <2> QED BY <2>1 DEF Init, TypeOK
<1>2. TypeOK /\ [Next]_vars => TypeOK'
  <2> SUFFICES ASSUME TypeOK, [Next]_vars
               PROVE  TypeOK'
    OBVIOUS
  <2>1. CASE Extend
    <3>1. PICK m \in Messages : /\ history' = Append(history, m)
                                /\ context' = Build(Append(history, m), summary)
      BY <2>1 DEF Extend
    <3>2. Append(history, m) \in Seq(Messages)
      BY AppendProperties DEF TypeOK
    <3> QED BY <2>1, <3>1, <3>2 DEF Extend, TypeOK
  <2>2. CASE Summarize
    BY <2>2 DEF Summarize, TypeOK
  <2>3. CASE UNCHANGED vars
    BY <2>3 DEF vars, TypeOK
  <2> QED BY <2>1, <2>2, <2>3 DEF Next
<1> QED BY <1>1, <1>2, PTL DEF Spec

\* The context in terms of the selection.
LEMMA ContextIs ==
  ASSUME TypeOK
  PROVE  /\ history \in Seq(Messages)
         /\ summary \in Nat
         /\ Budget(history, summary) \in Nat
         /\ context.omitted = Conversation(history) \ context.selected
         /\ IF Conversation(history) = {}
            THEN context.selected = {}
            ELSE \E s \in Starts(history) :
                   TakenFrom(history, context.selected, 1, Budget(history, summary), s)
<1>1. history \in Seq(Messages) /\ summary \in Nat
  BY MessagesAssumption DEF TypeOK
<1>2. Budget(history, summary) \in Nat
  BY <1>1, BudgetIs
<1>3. /\ context.selected = SelectRecentUnits(history, Budget(history, summary))
      /\ context.omitted = Conversation(history) \ context.selected
  BY DEF TypeOK, Build
<1> QED BY <1>1, <1>2, <1>3, Selection

\* The start the loop stops at begins the longest tail.
LEMMA LongestTail ==
  ASSUME NEW msgs \in Seq(Messages), NEW budget \in Nat, NEW s \in Starts(msgs), NEW taken,
         TakenFrom(msgs, taken, 1, budget, s)
  PROVE  BeginsLongestTail(msgs, s, budget)
<1>1. \A r \in Starts(msgs) : r \in 1 .. Len(msgs) /\ Len(msgs) \in Nat
  BY Positions DEF Starts
<1>2. \A r \in Starts(msgs) : r < s => ~ Fits(msgs, r, budget)
  BY <1>1 DEF TakenFrom
<1>3. ASSUME NEW q \in Starts(msgs), Fits(msgs, q, budget)
      PROVE  Fits(msgs, s, budget)
  <2>1. CASE \A r \in Starts(msgs) : r <= s
    <3>1. From(msgs, s) \subseteq From(msgs, q) /\ From(msgs, q) \subseteq 1 .. Len(msgs)
      BY <1>1, <2>1, Positions DEF From
    <3>2. Tokens(msgs, From(msgs, s)) <= Tokens(msgs, From(msgs, q))
      BY <3>1, TokensSubset
    <3>3. Tokens(msgs, From(msgs, s)) \in Nat /\ Tokens(msgs, From(msgs, q)) \in Nat
      BY <3>1, TokensNat
    <3> QED BY <1>3, <3>2, <3>3 DEF Fits
  <2> QED BY <2>1 DEF TakenFrom
<1>4. \A q \in Starts(msgs) : Fits(msgs, q, budget) => s <= q
  BY <1>1, <1>2
<1> QED BY <1>3, <1>4 DEF BeginsLongestTail, TakenFrom

\* What is sent is always the longest tail of the conversation in whole units
\* that the budget holds (_select_recent_units), for every history.
THEOREM LongestTailSelected == Spec => []SelectsLongestTail
<1>1. TypeOK => SelectsLongestTail
  <2> SUFFICES ASSUME TypeOK
               PROVE  SelectsLongestTail
    OBVIOUS
  <2>1. CASE Conversation(history) = {}
    BY <2>1, ContextIs DEF SelectsLongestTail
  <2>2. CASE Conversation(history) # {}
    <3>1. PICK s \in Starts(history) :
            TakenFrom(history, context.selected, 1, Budget(history, summary), s)
      BY <2>2, ContextIs
    <3>2. BeginsLongestTail(history, s, Budget(history, summary))
      BY <3>1, ContextIs, LongestTail
    <3>3. context.selected = From(history, s)
      BY <3>1 DEF TakenFrom
    <3> QED BY <2>2, <3>2, <3>3, ContextIs DEF SelectsLongestTail
  <2> QED BY <2>1, <2>2
<1> QED BY <1>1, TypeCorrect, PTL

\* A request of more than one unit never touches the reserved part of the
\* window, for every size of window, prompt, summary and message (build).
THEOREM WindowKept == Spec => []WithinWindow
<1>1. TypeOK => WithinWindow
  <2> SUFFICES ASSUME TypeOK
               PROVE  WithinWindow
    OBVIOUS
  <2>0. \A r \in context.selected : Began(history)[r] \in Nat
    <3>1. context.selected \subseteq Conversation(history)
      BY ContextIs DEF TakenFrom, From
    <3>2. \A r \in Conversation(history) : r \in 0 .. Len(history)
      BY ContextIs, Positions
    <3> QED BY <3>1, <3>2, ContextIs, BeganSteps
  <2> SUFFICES ASSUME NEW p \in context.selected, NEW q \in context.selected,
                      Began(history)[p] < Began(history)[q]
               PROVE  context.estimated <= MaxTokens - ReserveTokens
    <3>1. \A r, t \in context.selected :
            Began(history)[r] # Began(history)[t] =>
                Began(history)[r] < Began(history)[t] \/ Began(history)[t] < Began(history)[r]
      BY <2>0
    <3> QED BY <3>1 DEF WithinWindow
  <2> DEFINE budget == Budget(history, summary)
  <2>1. PICK s \in Starts(history) : TakenFrom(history, context.selected, 1, budget, s)
    BY ContextIs
  <2>2. /\ history \in Seq(Messages)
        /\ context.selected = From(history, s)
        /\ context.selected \subseteq 1 .. Len(history)
        /\ p \in Conversation(history) /\ q \in Conversation(history)
        /\ s \in Conversation(history) /\ s <= p
        /\ s \in 1 .. Len(history) /\ p \in 1 .. Len(history) /\ Len(history) \in Nat
    BY <2>1, ContextIs, Positions DEF TakenFrom, From, Starts
  <2>3. s <= Began(history)[p]
    <3>1. Began(history)[s] = s
      BY <2>2, UnitsBeginAtStarts
    <3>2. s \in 0 .. Len(history) /\ p \in 0 .. Len(history)
      BY <2>2
    <3> QED BY <2>2, <3>1, <3>2, BeganMonotone
  <2>4. Began(history)[q] \in Starts(history) /\ ~ (Began(history)[q] <= s)
    <3>1. Began(history)[q] \in Starts(history)
      BY <2>2, UnitsBeginAtStarts
    <3>2. \A r \in Starts(history) : r \in Nat
      BY <2>2, Positions DEF Starts
    <3> QED BY <2>0, <2>2, <2>3, <3>1, <3>2
  <2>5. Fits(history, s, budget)
    BY <2>1, <2>4 DEF TakenFrom
  <2>6. Tokens(history, context.selected) <= budget
    BY <2>2, <2>5 DEF Fits
  <2>7. Tokens(history, context.selected) >= 2
    <3>1. p # q
      BY <2>0
    <3> QED BY <2>2, <3>1, TwoTokens
  <2>8. /\ SystemTokens(history, summary) \in Nat
        /\ Tokens(history, context.selected) \in Nat
        /\ \/ budget = 1
           \/ budget = MaxTokens - ReserveTokens - SystemTokens(history, summary)
    BY <2>2, ContextIs, BudgetIs, TokensNat
  <2>9. context.estimated =
            SystemTokens(history, summary) + Tokens(history, context.selected)
    BY DEF TypeOK, Build
  <2> HIDE DEF budget
  <2> QED BY <2>6, <2>7, <2>8, <2>9, SettingsAssumption
<1> QED BY <1>1, TypeCorrect, PTL

\* Appending a message changes nothing about the older ones, and leaves no
\* more room for them.
LEMMA Appended ==
  ASSUME NEW msgs \in Seq(Messages), NEW m \in Messages, NEW sum \in Nat
  PROVE  LET longer == Append(msgs, m)
         IN  /\ longer \in Seq(Messages)
             /\ Conversation(msgs) = { p \in Conversation(longer) : p <= Len(msgs) }
             /\ Starts(msgs) = { p \in Starts(longer) : p <= Len(msgs) }
             /\ \A ps \in SUBSET (1 .. Len(msgs)) : Tokens(longer, ps) = Tokens(msgs, ps)
             /\ Budget(longer, sum) <= Budget(msgs, sum)
<1> DEFINE longer == Append(msgs, m)
<1>1. /\ longer \in Seq(Messages)
      /\ Len(longer) = Len(msgs) + 1
      /\ Len(msgs) \in Nat
      /\ \A p \in 1 .. Len(msgs) : longer[p] = msgs[p]
  BY AppendProperties, Positions
<1> HIDE DEF longer
<1>2. DOMAIN msgs = 1 .. Len(msgs) /\ DOMAIN longer = 1 .. Len(msgs) + 1
  BY <1>1, Positions
<1>3. \A p \in 1 .. Len(msgs) : Role(longer, p) = Role(msgs, p)
  BY <1>1 DEF Role
<1>4. Conversation(msgs) = { p \in Conversation(longer) : p <= Len(msgs) }
  BY <1>1, <1>2, <1>3 DEF Conversation
<1>5. ASSUME NEW p \in 1 .. Len(msgs)
      PROVE  Attached(longer, p) <=> Attached(msgs, p)
  <2>1. \A c : c \in Conversation(msgs) /\ c < p <=> c \in Conversation(longer) /\ c < p
    <3>1. \A c \in Conversation(longer) : c \in Int
      BY <1>1, Positions
    <3> QED BY <1>1, <1>4, <3>1
  <2>2. \A c \in Conversation(msgs) : longer[c] = msgs[c] /\ Role(longer, c) = Role(msgs, c)
    BY <1>1, <1>3, Positions
  <2> QED BY <1>3, <2>1, <2>2 DEF Attached
<1>6. Starts(msgs) = { p \in Starts(longer) : p <= Len(msgs) }
  <2>1. Conversation(msgs) \subseteq 1 .. Len(msgs)
    BY Positions
  <2> QED BY <1>4, <1>5, <2>1 DEF Starts
<1>7. ASSUME NEW ps \in SUBSET (1 .. Len(msgs))
      PROVE  Tokens(longer, ps) = Tokens(msgs, ps)
  <2>1. [p \in ps |-> longer[p].tokens] = [p \in ps |-> msgs[p].tokens]
    BY <1>1
  <2> QED BY <2>1 DEF Tokens
<1>8. Budget(longer, sum) <= Budget(msgs, sum)
  <2>1. /\ SystemMessages(msgs) \subseteq SystemMessages(longer)
        /\ SystemMessages(longer) \subseteq 1 .. Len(longer)
        /\ SystemMessages(msgs) \subseteq 1 .. Len(msgs)
    <3>1. \A p \in 1 .. Len(msgs) : p \in 1 .. Len(msgs) + 1 /\ p <= Len(msgs)
      BY <1>1
    <3> QED BY <1>1, <1>2, <1>4, <3>1, Positions DEF SystemMessages
  <2>2. Tokens(longer, SystemMessages(msgs)) <= Tokens(longer, SystemMessages(longer))
    BY <1>1, <2>1, TokensSubset
  <2>3. /\ Tokens(msgs, SystemMessages(msgs)) = Tokens(longer, SystemMessages(msgs))
        /\ Tokens(msgs, SystemMessages(msgs)) \in Nat
        /\ Tokens(longer, SystemMessages(longer)) \in Nat
    BY <1>1, <1>7, <2>1, TokensNat
  <2>4. SystemTokens(msgs, sum) <= SystemTokens(longer, sum)
    BY <2>2, <2>3, MessagesAssumption DEF SystemTokens
  <2>5. SystemTokens(msgs, sum) \in Nat /\ SystemTokens(longer, sum) \in Nat
    BY <1>1, BudgetIs
  <2> QED BY <2>4, <2>5, SettingsAssumption DEF Budget, AtLeastOne
<1> QED BY <1>1, <1>4, <1>6, <1>7, <1>8 DEF longer

\* While the summary is the same, what a longer history leaves out is what was
\* left out before, and more (build, called again for every question).
LEMMA ExtendOmits ==
  ASSUME TypeOK, TypeOK', NEW m \in Messages,
         history' = Append(history, m), summary' = summary
  PROVE  context.omitted \subseteq context'.omitted
<1> DEFINE b == Budget(history, summary)
           c == Budget(history', summary)
<1>1. /\ history \in Seq(Messages) /\ history' \in Seq(Messages)
      /\ summary \in Nat
      /\ b \in Nat /\ c \in Nat /\ c <= b
  BY ContextIs, Appended, BudgetIs
<1>2. /\ context.omitted = Conversation(history) \ context.selected
      /\ IF Conversation(history) = {}
         THEN context.selected = {}
         ELSE \E s \in Starts(history) :
                TakenFrom(history, context.selected, 1, b, s)
  BY ContextIs
<1>3. /\ context'.omitted = Conversation(history') \ context'.selected
      /\ IF Conversation(history') = {}
         THEN context'.selected = {}
         ELSE \E s \in Starts(history') :
                TakenFrom(history', context'.selected, 1, c, s)
  <2>1. summary' \in Nat /\ Budget(history', summary') \in Nat
    BY <1>1
  <2>2. /\ context'.selected = SelectRecentUnits(history', c)
        /\ context'.omitted = Conversation(history') \ context'.selected
    BY DEF TypeOK, Build
  <2> QED BY <1>1, <2>2, Selection
<1>4. /\ Conversation(history) = { p \in Conversation(history') : p <= Len(history) }
      /\ Starts(history) = { p \in Starts(history') : p <= Len(history) }
      /\ \A ps \in SUBSET (1 .. Len(history)) : Tokens(history', ps) = Tokens(history, ps)
  BY <1>1, Appended
<1> HIDE DEF b, c
<1> SUFFICES ASSUME NEW q \in Conversation(history), q \notin context.selected,
                    q \in context'.selected
             PROVE  FALSE
  BY <1>2, <1>3, <1>4
<1>5. PICK s \in Starts(history) : TakenFrom(history, context.selected, 1, b, s)
  BY <1>2
<1>6. PICK t \in Starts(history') : TakenFrom(history', context'.selected, 1, c, t)
  BY <1>3
<1>7. /\ \A r \in Conversation(history) : r \in 1 .. Len(history)
      /\ \A r \in Conversation(history') : r \in 1 .. Len(history')
      /\ Len(history) \in Nat /\ Len(history') \in Nat
      /\ Starts(history) \subseteq Conversation(history)
      /\ Starts(history') \subseteq Conversation(history')
  BY <1>1, Positions DEF Starts
<1>8. t <= q /\ q < s /\ t \in Starts(history) /\ s \in Starts(history')
  BY <1>4, <1>5, <1>6, <1>7 DEF TakenFrom, From
<1>9. ~ Fits(history, t, b)
  BY <1>5, <1>7, <1>8 DEF TakenFrom
<1>10. Fits(history', t, c)
  BY <1>6, <1>7, <1>8 DEF TakenFrom
<1>11. From(history, t) \subseteq From(history', t) /\ From(history, t) \subseteq 1 .. Len(history)
  BY <1>4, <1>7 DEF From
<1>12. From(history', t) \subseteq 1 .. Len(history')
  BY <1>7 DEF From
<1>13. Tokens(history, From(history, t)) <= Tokens(history', From(history', t))
  BY <1>1, <1>4, <1>11, <1>12, TokensSubset
<1>14. Tokens(history, From(history, t)) \in Nat /\ Tokens(history', From(history', t)) \in Nat
  BY <1>1, <1>11, <1>12, TokensNat
<1> QED BY <1>1, <1>9, <1>10, <1>13, <1>14 DEF Fits

\* What was once omitted, and so given to the summary, stays omitted until the
\* summary changes (_prepare_conversation).
THEOREM NothingComesBack == Spec => OmittedStayOmitted
<1>1. TypeOK /\ TypeOK' /\ [Next]_vars =>
        [summary' = summary => context.omitted \subseteq context'.omitted]_vars
  <2> SUFFICES ASSUME TypeOK, TypeOK', Next, summary' = summary
               PROVE  context.omitted \subseteq context'.omitted
    BY DEF vars
  <2>1. CASE Extend
    BY <2>1, ExtendOmits DEF Extend
  <2>2. CASE Summarize
    BY <2>2 DEF Summarize, TypeOK
  <2> QED BY <2>1, <2>2 DEF Next
<1> QED BY <1>1, TypeCorrect, PTL DEF Spec, OmittedStayOmitted

\* Built again with a summary that has not grown, a context omits no more than
\* before (_update_summary_if_needed).
THEOREM OnlyGrowthOmits == Spec => OnlyGrowthSqueezes
<1>1. TypeOK /\ TypeOK' =>
        [history' = history /\ summary' <= summary =>
            context'.omitted \subseteq context.omitted]_vars
  <2> SUFFICES ASSUME TypeOK, TypeOK', history' = history, summary' <= summary
               PROVE  context'.omitted \subseteq context.omitted
    BY DEF vars
  <2> DEFINE b == Budget(history, summary)
             c == Budget(history, summary')
  <2>1. history \in Seq(Messages) /\ summary \in Nat /\ summary' \in Nat
    BY MessagesAssumption DEF TypeOK
  <2>2. b \in Nat /\ c \in Nat /\ b <= c
    BY <2>1, BudgetIs, BudgetMonotone
  <2>3. /\ context.selected = SelectRecentUnits(history, b)
        /\ context.omitted = Conversation(history) \ context.selected
        /\ context'.selected = SelectRecentUnits(history, c)
        /\ context'.omitted = Conversation(history) \ context'.selected
    BY DEF TypeOK, Build
  <2> HIDE DEF b, c
  <2> SUFFICES ASSUME NEW q \in Conversation(history), q \in context.selected
               PROVE  q \in context'.selected
    BY <2>3
  <2>4. PICK s \in Starts(history) : TakenFrom(history, context.selected, 1, b, s)
    BY <2>1, <2>2, <2>3, Selection
  <2>5. PICK t \in Starts(history) : TakenFrom(history, context'.selected, 1, c, t)
    BY <2>1, <2>2, <2>3, Selection
  <2>6. /\ \A r \in Conversation(history) : r \in 1 .. Len(history)
        /\ Starts(history) \subseteq Conversation(history)
        /\ Len(history) \in Nat
    BY <2>1, Positions DEF Starts
  <2>7. s <= q
    BY <2>4, <2>6 DEF TakenFrom, From
  <2>8. ASSUME s < t PROVE FALSE
    <3>1. ~ Fits(history, s, c)
      BY <2>5, <2>6, <2>8 DEF TakenFrom
    <3>2. Fits(history, s, b)
      BY <2>4, <2>6, <2>8 DEF TakenFrom
    <3>3. Tokens(history, From(history, s)) \in Nat
      BY <2>1, <2>6, TokensNat DEF From
    <3> QED BY <2>2, <3>1, <3>2, <3>3 DEF Fits
  <2>9. t <= q
    BY <2>6, <2>7, <2>8
  <2> QED BY <2>5, <2>6, <2>9 DEF TakenFrom, From
<1> QED BY <1>1, TypeCorrect, PTL DEF Spec, OnlyGrowthSqueezes
-----------------------------------------------------------------------------
(* The chats of Conversation, which have no messages of tools. *)

\* Without tools and system messages every message is a unit, and what is
\* selected are the newest message and every other one from which on all fit.
LEMMA SelectionWithoutTools ==
  ASSUME NEW msgs \in Seq(Messages), NEW budget \in Nat,
         \A p \in DOMAIN msgs : Role(msgs, p) \in {"user", "assistant"}
  PROVE  SelectRecentUnits(msgs, budget) =
           { p \in DOMAIN msgs : p = Len(msgs) \/ Fits(msgs, p, budget) }
<1>1. /\ Len(msgs) \in Nat
      /\ DOMAIN msgs = 1 .. Len(msgs)
      /\ Conversation(msgs) = DOMAIN msgs
      /\ Starts(msgs) = DOMAIN msgs
  BY Positions DEF Conversation, Starts, Attached
<1>2. CASE Conversation(msgs) = {}
  BY <1>1, <1>2, Selection
<1>3. CASE Conversation(msgs) # {}
  <2>1. PICK s \in Starts(msgs) :
          TakenFrom(msgs, SelectRecentUnits(msgs, budget), 1, budget, s)
    BY <1>3, Selection
  <2>2. SelectRecentUnits(msgs, budget) = { p \in DOMAIN msgs : p >= s }
    BY <1>1, <2>1 DEF TakenFrom, From
  <2>3. BeginsLongestTail(msgs, s, budget)
    BY <2>1, LongestTail
  <2>4. ASSUME NEW p \in DOMAIN msgs, p >= s, p # Len(msgs)
        PROVE  Fits(msgs, p, budget)
    <3>1. Fits(msgs, s, budget)
      <4>1. Len(msgs) \in Starts(msgs) /\ ~ (Len(msgs) <= s)
        BY <1>1, <2>4
      <4> QED BY <2>1, <4>1 DEF TakenFrom
    <3>2. From(msgs, p) \subseteq From(msgs, s) /\ From(msgs, s) \subseteq 1 .. Len(msgs)
      BY <1>1, <2>4 DEF From
    <3>3. Tokens(msgs, From(msgs, p)) <= Tokens(msgs, From(msgs, s))
      BY <3>2, TokensSubset
    <3>4. Tokens(msgs, From(msgs, p)) \in Nat /\ Tokens(msgs, From(msgs, s)) \in Nat
      BY <3>2, TokensNat
    <3> QED BY <3>1, <3>3, <3>4 DEF Fits
  <2>5. ASSUME NEW p \in DOMAIN msgs, p = Len(msgs) \/ Fits(msgs, p, budget)
        PROVE  p >= s
    <3>1. CASE p = Len(msgs)
      BY <1>1, <3>1
    <3>2. CASE Fits(msgs, p, budget)
      BY <1>1, <2>3, <3>2 DEF BeginsLongestTail
    <3> QED BY <2>5, <3>1, <3>2
  <2>6. \A p \in DOMAIN msgs : p >= s <=> p = Len(msgs) \/ Fits(msgs, p, budget)
    <3>1. s \in DOMAIN msgs
      BY <1>1
    <3> QED BY <1>1, <2>4, <2>5, <3>1
  <2> QED BY <2>2, <2>6
<1> QED BY <1>2, <1>3

CONSTANTS
    MessageTokens, \* role -> tokens of a message
    SummarySize    \* tokens of a summary

\* Conversation, with the window that the settings and the prompt leave to it.
Chat == INSTANCE Conversation WITH
    Requests <- {}, Kind <- << >>, Concurrency <- 1, PoolSize <- 1,
    MaxToolIterations <- 1,
    Window <- AtLeastOne(MaxTokens - ReserveTokens - PromptTokens),
    SummaryTokens <- SummarySize,
    chat <- "live", messages <- {}, summary <- {}, clock <- 0, pc <- << >>,
    begin <- << >>, seen <- << >>, context <- << >>, text <- << >>,
    turns <- << >>, owed <- << >>, known <- << >>, removed <- {}

\* The history msgs has the rows of a chat in the order of created_at.
Lists(msgs, rows, row) ==
  /\ row \in Bijection(DOMAIN msgs, rows)
  /\ \A p, q \in DOMAIN msgs : p < q => row[p].created < row[q].created
  /\ \A p \in DOMAIN msgs :
       /\ row[p].created \in Nat
       /\ msgs[p].role = row[p].role
       /\ msgs[p].role \in {"user", "assistant"}
       /\ msgs[p].tokens = MessageTokens[row[p].role]

\* The messages from a row on weigh what the builder counts for them.
LEMMA WeightIsTokens ==
  ASSUME NEW msgs \in Seq(Messages), NEW rows, NEW row, Lists(msgs, rows, row),
         NEW p \in DOMAIN msgs
  PROVE  /\ Chat!Weight(Chat!Since(rows, row[p])) = Tokens(msgs, From(msgs, p))
         /\ Chat!Since(rows, row[p]) = {row[p]} <=> p = Len(msgs)
<1> DEFINE ps == From(msgs, p)
           ms == Chat!Since(rows, row[p])
           named == [q \in ps |-> row[q]]
           tokens == [q \in ps |-> msgs[q].tokens]
           weights == [m \in ms |-> MessageTokens[m.role]]
<1>1. /\ Len(msgs) \in Nat
      /\ DOMAIN msgs = 1 .. Len(msgs)
      /\ Conversation(msgs) = DOMAIN msgs
      /\ \A q \in DOMAIN msgs : msgs[q].tokens \in Nat
  BY Positions DEF Lists, Conversation, Role
<1>2. /\ row \in [DOMAIN msgs -> rows]
      /\ \A q, r \in DOMAIN msgs : row[q] = row[r] => q = r
      /\ \A m \in rows : \E q \in DOMAIN msgs : row[q] = m
  BY Fun_BijectionProperties DEF Lists
<1>3. \A q \in DOMAIN msgs : row[q].created >= row[p].created <=> q >= p
  BY <1>1 DEF Lists
<1>4. ps = { q \in DOMAIN msgs : q >= p }
  BY <1>1 DEF From
<1>5. ms = { m \in rows : m.created >= row[p].created }
  BY DEF Chat!Since
<1>6. /\ \A q \in ps : q \in DOMAIN msgs /\ row[q] \in ms
      /\ \A m \in ms : \E q \in ps : row[q] = m
  <2> HIDE DEF ps, ms
  <2> QED BY <1>2, <1>3, <1>4, <1>5
<1>7. named \in Bijection(ps, ms)
  <2>1. /\ named \in [ps -> ms]
        /\ \A q, r \in ps : named[q] = named[r] => q = r
        /\ \A m \in ms : \E q \in ps : named[q] = m
    <3> HIDE DEF ps, ms
    <3> QED BY <1>2, <1>6
  <2> HIDE DEF named, ps, ms
  <2> QED BY <2>1, Fun_IsBij
<1>8. tokens \in [ps -> Nat] /\ \A q \in ps : tokens[q] = weights[named[q]]
  <2> HIDE DEF ps, ms
  <2> QED BY <1>1, <1>6 DEF Lists
<1>9. weights \in [ms -> Nat]
  <2> HIDE DEF ps, ms
  <2> QED BY <1>1, <1>6 DEF Lists
<1>10. IsFiniteSet(ps)
  <2>1. IsFiniteSet(1 .. Len(msgs)) /\ ps \subseteq 1 .. Len(msgs)
    BY <1>1, <1>4, FS_Interval
  <2> QED BY <2>1, FS_Subset
<1>11. Total(tokens) = Total(weights)
  <2> HIDE DEF tokens, weights, named, ps, ms
  <2> QED BY <1>7, <1>8, <1>9, <1>10, TotalRenamed
<1>12. ms = {row[p]} <=> p = Len(msgs)
  <2>1. p = Len(msgs) => ps = {p}
    BY <1>1, <1>4
  <2>2. p # Len(msgs) => p + 1 \in ps /\ p + 1 # p
    BY <1>1, <1>4
  <2>3. p \in ps /\ p \in DOMAIN msgs
    BY <1>1, <1>4
  <2> HIDE DEF ps, ms
  <2> QED BY <1>2, <1>6, <2>1, <2>2, <2>3
<1>13. ASSUME NEW f PROVE Chat!Total(f) = Total(f)
  <2>1. ASSUME NEW S PROVE Chat!Cardinality(S) = Cardinality(S)
    BY Zenon DEF Chat!Cardinality, Cardinality
  <2>2. Chat!Units(f) = Units(f)
    BY DEF Chat!Units, Units
  <2> QED BY <2>1, <2>2 DEF Chat!Total, Total
<1>14. Chat!Weight(ms) = Total(weights) /\ Tokens(msgs, ps) = Total(tokens)
  BY <1>13 DEF Chat!Weight, Tokens
<1> HIDE DEF tokens, weights
<1> QED BY <1>11, <1>12, <1>14

\* The budget of the builder is the room of the chat.
LEMMA BudgetIsRoom ==
  ASSUME NEW msgs \in Seq(Messages), SystemMessages(msgs) = {}, NEW sum,
         SummarySize \in Nat
  PROVE  Budget(msgs, IF sum = {} THEN 0 ELSE SummarySize) = Chat!Room(sum)
<1>1. Tokens(msgs, SystemMessages(msgs)) = 0
  <2>1. [p \in SystemMessages(msgs) |-> msgs[p].tokens] = [p \in {} |-> 0]
    OBVIOUS
  <2> QED BY <2>1, TotalZero DEF Tokens
<1> QED BY <1>1, SettingsAssumption, MessagesAssumption
        DEF Budget, SystemTokens, AtLeastOne, Chat!Room

\* What Conversation takes for the context of a request is what the builder
\* selects of the chat's history beside a summary, for any history and sizes.
THEOREM ChatSelectsTheSame ==
  ASSUME NEW msgs \in Seq(Messages), NEW rows, NEW row, Lists(msgs, rows, row),
         NEW sum, SummarySize \in Nat
  PROVE  Chat!Recent(rows, Chat!Room(sum)) =
           { row[p] : p \in Build(msgs, IF sum = {} THEN 0 ELSE SummarySize).selected }
<1> DEFINE tokens == IF sum = {} THEN 0 ELSE SummarySize
           budget == Budget(msgs, tokens)
           selected == SelectRecentUnits(msgs, budget)
<1>1. tokens \in Nat /\ budget \in Nat
  BY BudgetIs
<1>2. \A p \in DOMAIN msgs : Role(msgs, p) \in {"user", "assistant"}
  BY DEF Lists, Role
<1>3. budget = Chat!Room(sum)
  <2>1. SystemMessages(msgs) = {}
    BY <1>2 DEF SystemMessages, Conversation
  <2> QED BY <2>1, BudgetIsRoom
<1>4. selected = { p \in DOMAIN msgs : p = Len(msgs) \/ Fits(msgs, p, budget) }
  <2> HIDE DEF budget
  <2> QED BY <1>1, <1>2, SelectionWithoutTools
<1>5. \A p \in DOMAIN msgs : row[p] \in Chat!Recent(rows, budget) <=> p \in selected
  <2> SUFFICES ASSUME NEW p \in DOMAIN msgs
               PROVE  row[p] \in Chat!Recent(rows, budget) <=> p \in selected
    OBVIOUS
  <2>1. row[p] \in rows
    BY Fun_BijectionProperties DEF Lists
  <2>2. /\ Chat!Weight(Chat!Since(rows, row[p])) = Tokens(msgs, From(msgs, p))
        /\ Chat!Since(rows, row[p]) = {row[p]} <=> p = Len(msgs)
    BY WeightIsTokens
  <2> HIDE DEF selected, budget
  <2> QED BY <1>4, <2>1, <2>2 DEF Chat!Recent, Fits
<1>6. \A m \in rows : \E p \in DOMAIN msgs : row[p] = m
  BY Fun_BijectionProperties DEF Lists
<1>7. Chat!Recent(rows, budget) \subseteq rows /\ selected \subseteq DOMAIN msgs
  <2> HIDE DEF selected
  <2> QED BY <1>4 DEF Chat!Recent
<1>8. Chat!Recent(rows, budget) = { row[p] : p \in selected }
  <2> HIDE DEF selected, budget
  <2> QED BY <1>5, <1>6, <1>7
<1> QED BY <1>3, <1>8 DEF Build
=============================================================================
