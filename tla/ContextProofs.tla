----------------------------- MODULE ContextProofs -----------------------------
(***************************************************************************)
(* The prompt a node is given, for any context window, transcript,         *)
(* retrieval and tool history.                                             *)
(***************************************************************************)
EXTENDS ContextEngine, FiniteSetTheorems, SequenceTheorems, WellFoundedInduction, TLAPS

-----------------------------------------------------------------------------
(* What the model's recursion computes *)

\* Induction over the numbers of a set: every nonempty rest of it has a least.
LEMMA FromZero ==
  ASSUME NEW good, good \subseteq Nat, 0 \in good,
         \A n \in Nat : n \in good => n + 1 \in good
  PROVE  good = Nat
<1>1. \A x, y \in Nat : x < y => <<x, y>> \in OpToRel(<, Nat)
  BY DEF OpToRel
<1>2. SUFFICES ASSUME Nat \ good # {} PROVE FALSE
  OBVIOUS
<1>3. PICK x \in Nat \ good : \A y \in Nat \ good : ~(<<y, x>> \in OpToRel(<, Nat))
  BY <1>2, NatLessThanWellFounded, WFMin
<1>4. /\ x - 1 \in Nat /\ x - 1 < x /\ (x - 1) + 1 = x
  <2>1. x \in Nat /\ x # 0
    OBVIOUS
  <2>2. QED
    BY <2>1
<1>5. x - 1 \notin good
  BY <1>3, <1>4
<1>6. QED
  BY <1>1, <1>3, <1>4, <1>5

\* A value that is folded over the numbers up to n exists, for any step.
LEMMA Folding ==
  ASSUME NEW A, NEW base \in A, NEW len \in Nat, NEW step \in [1 .. len -> [A -> A]]
  PROVE  \E f \in [0 .. len -> A] :
            f[0] = base /\ \A n \in 1 .. len : f[n] = step[n][f[n - 1]]
<1> DEFINE Partial(n, f) == f[0] = base /\ \A i \in 1 .. n : f[i] = step[i][f[i - 1]]
           good == {n \in Nat : n <= len => \E f \in [0 .. n -> A] : Partial(n, f)}
<1>1. 0 \in good
  <2>1. [i \in 0 .. 0 |-> base] \in [0 .. 0 -> A]
    OBVIOUS
  <2>2. Partial(0, [i \in 0 .. 0 |-> base])
    OBVIOUS
  <2>3. QED
    BY <2>1, <2>2
<1>2. ASSUME NEW n \in Nat, n \in good
      PROVE  n + 1 \in good
  <2> SUFFICES ASSUME n + 1 <= len
               PROVE  \E g \in [0 .. n + 1 -> A] : Partial(n + 1, g)
    <3> HIDE DEF Partial
    <3> QED
      OBVIOUS
  <2>1. n <= len /\ n + 1 \in 1 .. len
    OBVIOUS
  <2>2. PICK f \in [0 .. n -> A] : Partial(n, f)
    BY <1>2, <2>1
  <2>3. step[n + 1][f[n]] \in A
    BY <2>1
  <2> DEFINE g == [i \in 0 .. n + 1 |-> IF i <= n THEN f[i] ELSE step[n + 1][f[n]]]
  <2>4. g \in [0 .. n + 1 -> A]
    BY <2>3
  <2>5. g[0] = base /\ g[n + 1] = step[n + 1][g[n]]
    <3>1. g[0] = f[0] /\ g[n] = f[n] /\ g[n + 1] = step[n + 1][f[n]]
      OBVIOUS
    <3>2. QED
      BY <2>2, <3>1
  <2>6. ASSUME NEW i \in 1 .. n + 1
        PROVE  g[i] = step[i][g[i - 1]]
    <3>1. CASE i = n + 1
      BY <3>1, <2>5
    <3>2. CASE i # n + 1
      <4>1. i \in 1 .. n /\ i - 1 \in 0 .. n
        BY <3>2
      <4>2. g[i] = f[i] /\ g[i - 1] = f[i - 1]
        BY <4>1
      <4>3. QED
        BY <2>2, <4>1, <4>2
    <3>3. QED
      BY <3>1, <3>2
  <2>7. QED
    BY <2>4, <2>5, <2>6
<1>3. len \in good
  <2> HIDE DEF good
  <2>1. good \subseteq Nat
    BY DEF good
  <2>2. good = Nat
    BY <1>1, <1>2, <2>1, FromZero
  <2>3. QED
    BY <2>2
<1>4. QED
  BY <1>3

\* What stands at some places of a sequence is picked one after the other.
Gathering(f, s, places) ==
    /\ Picked(s, places) = f[Len(s)]
    /\ f[0] = <<>>
    /\ \A n \in 1 .. Len(s) :
          f[n] = IF n \in places THEN Append(f[n - 1], s[n]) ELSE f[n - 1]

LEMMA PickedGrows ==
  ASSUME NEW S, NEW s \in Seq(S), NEW places
  PROVE  \E f \in [0 .. Len(s) -> Seq(S)] : Gathering(f, s, places)
<1> DEFINE len == Len(s)
           Picking(t, n) == IF n \in places THEN Append(t, s[n]) ELSE t
           step == [n \in 1 .. len |-> [t \in Seq(S) |-> Picking(t, n)]]
           Rule(f) == [n \in 0 .. len |->
                        IF n = 0 THEN <<>>
                        ELSE IF n \in places THEN Append(f[n - 1], s[n])
                        ELSE f[n - 1]]
           picked == CHOOSE f : f = Rule(f)
<1>1. len \in Nat /\ \A n \in 1 .. len : s[n] \in S
  OBVIOUS
<1>2. step \in [1 .. len -> [Seq(S) -> Seq(S)]]
  BY <1>1
<1>3. PICK f \in [0 .. len -> Seq(S)] :
        f[0] = <<>> /\ \A n \in 1 .. len : f[n] = step[n][f[n - 1]]
  <2> DEFINE A == Seq(S)
             base == <<>>
  <2>1. base \in A /\ step \in [1 .. len -> [A -> A]]
    BY <1>2
  <2>2. len \in Nat
    BY <1>1
  <2> HIDE DEF step, len, A, base
  <2>3. \E f \in [0 .. len -> A] :
            f[0] = base /\ \A n \in 1 .. len : f[n] = step[n][f[n - 1]]
    BY <2>1, <2>2, Folding
  <2>4. QED
    BY <2>3 DEF A, base
<1>4. \A n \in 1 .. len : f[n] = Picking(f[n - 1], n)
  <2> SUFFICES ASSUME NEW n \in 1 .. len PROVE f[n] = Picking(f[n - 1], n)
    OBVIOUS
  <2>1. f[n - 1] \in Seq(S)
    <3>1. n - 1 \in 0 .. len
      BY <1>1
    <3>2. QED
      BY <1>3, <3>1
  <2>2. QED
    BY <1>3, <2>1
<1>5. f = Rule(f)
  <2>1. DOMAIN f = DOMAIN Rule(f)
    OBVIOUS
  <2>2. ASSUME NEW n \in 0 .. len
        PROVE  f[n] = Rule(f)[n]
    <3>1. CASE n = 0
      BY <3>1, <1>3
    <3>2. CASE n # 0
      <4>1. n \in 1 .. len
        BY <3>2, <1>1
      <4>2. f[n] = Picking(f[n - 1], n)
        BY <1>4, <4>1
      <4>3. QED
        BY <3>2, <4>2
    <3>3. QED
      BY <3>1, <3>2
  <2>3. QED
    BY <2>1, <2>2
<1>6. picked = Rule(picked)
  <2> HIDE DEF Rule
  <2>1. QED
    BY <1>5
<1>7. Picked(s, places) = picked[len]
  BY DEF Picked
<1> HIDE DEF picked
<1>8. picked[0] = <<>>
  BY <1>1, <1>6
<1>9. ASSUME NEW n \in 1 .. len
      PROVE  picked[n] = Picking(picked[n - 1], n)
  <2>1. n \in 0 .. len /\ n # 0
    BY <1>1
  <2>2. picked[n] = Rule(picked)[n]
    BY <1>6
  <2>3. QED
    BY <2>1, <2>2
<1> DEFINE good == {n \in Nat : n <= len => picked[n] \in Seq(S)}
<1>10. 0 \in good
  <2>1. picked[0] \in Seq(S)
    BY <1>8
  <2>2. QED
    BY <2>1
<1>11. ASSUME NEW n \in Nat, n \in good
       PROVE  n + 1 \in good
  <2> SUFFICES ASSUME n + 1 <= len
               PROVE  picked[n + 1] \in Seq(S)
    OBVIOUS
  <2>1. picked[n] \in Seq(S) /\ n + 1 \in 1 .. len /\ (n + 1) - 1 = n
    BY <1>1, <1>11
  <2>2. picked[n + 1] = Picking(picked[n], n + 1)
    BY <1>9, <2>1
  <2>3. QED
    BY <1>1, <2>1, <2>2
<1>12. \A n \in 0 .. len : picked[n] \in Seq(S)
  <2> HIDE DEF good
  <2>1. good \subseteq Nat
    BY DEF good
  <2>2. good = Nat
    BY <1>10, <1>11, <2>1, FromZero
  <2>3. QED
    BY <1>1, <2>2 DEF good
<1>13. picked \in [0 .. len -> Seq(S)]
  <2>1. picked = [n \in 0 .. len |-> picked[n]]
    BY <1>6
  <2>2. QED
    BY <1>12, <2>1
<1>14. Gathering(picked, s, places)
  BY <1>7, <1>8, <1>9 DEF Gathering
<1>15. QED
  BY <1>13, <1>14

\* The sums of the first tokens.
Priced(S) == \A x \in S : x.tokens \in Nat

LEMMA TokensGrow ==
  ASSUME NEW S, Priced(S), NEW s \in Seq(S)
  PROVE  \E f \in [0 .. Len(s) -> Nat] :
            /\ Tokens(s) = f[Len(s)]
            /\ f[0] = 0
            /\ \A n \in 1 .. Len(s) : f[n] = f[n - 1] + s[n].tokens
<1> DEFINE len == Len(s)
           step == [n \in 1 .. len |-> [t \in Nat |-> t + s[n].tokens]]
           Rule(f) == [n \in 0 .. len |-> IF n = 0 THEN 0 ELSE f[n - 1] + s[n].tokens]
           sum == CHOOSE f : f = Rule(f)
<1>1. len \in Nat /\ \A n \in 1 .. len : s[n].tokens \in Nat
  BY DEF Priced
<1>2. step \in [1 .. len -> [Nat -> Nat]]
  BY <1>1
<1>3. PICK f \in [0 .. len -> Nat] :
        f[0] = 0 /\ \A n \in 1 .. len : f[n] = step[n][f[n - 1]]
  <2> DEFINE A == Nat
             base == 0
  <2>1. base \in A /\ step \in [1 .. len -> [A -> A]]
    BY <1>2
  <2>2. len \in Nat
    BY <1>1
  <2> HIDE DEF step, len, A, base
  <2>3. \E f \in [0 .. len -> A] :
            f[0] = base /\ \A n \in 1 .. len : f[n] = step[n][f[n - 1]]
    BY <2>1, <2>2, Folding
  <2>4. QED
    BY <2>3 DEF A, base
<1>4. \A n \in 1 .. len : f[n] = f[n - 1] + s[n].tokens
  <2> SUFFICES ASSUME NEW n \in 1 .. len PROVE f[n] = f[n - 1] + s[n].tokens
    OBVIOUS
  <2>1. f[n - 1] \in Nat
    BY <1>1, <1>3
  <2>2. QED
    BY <1>3, <2>1
<1>5. f = Rule(f)
  <2>1. DOMAIN f = DOMAIN Rule(f)
    OBVIOUS
  <2>2. ASSUME NEW n \in 0 .. len
        PROVE  f[n] = Rule(f)[n]
    BY <1>1, <1>3, <1>4
  <2>3. QED
    BY <2>1, <2>2
<1>6. sum = Rule(sum)
  <2> HIDE DEF Rule
  <2>1. QED
    BY <1>5
<1>7. Tokens(s) = sum[len]
  BY DEF Tokens
<1> HIDE DEF sum
<1>8. sum[0] = 0
  BY <1>1, <1>6
<1>9. ASSUME NEW n \in 1 .. len
      PROVE  sum[n] = sum[n - 1] + s[n].tokens
  <2>1. n \in 0 .. len /\ n # 0
    BY <1>1
  <2>2. sum[n] = Rule(sum)[n]
    BY <1>6
  <2>3. QED
    BY <2>1, <2>2
<1> DEFINE good == {n \in Nat : n <= len => sum[n] \in Nat}
<1>10. 0 \in good
  BY <1>8
<1>11. ASSUME NEW n \in Nat, n \in good
       PROVE  n + 1 \in good
  <2> SUFFICES ASSUME n + 1 <= len
               PROVE  sum[n + 1] \in Nat
    OBVIOUS
  <2>1. sum[n] \in Nat /\ n + 1 \in 1 .. len /\ (n + 1) - 1 = n
    BY <1>1, <1>11
  <2>2. sum[n + 1] = sum[n] + s[n + 1].tokens
    BY <1>9, <2>1
  <2>3. QED
    BY <1>1, <2>1, <2>2
<1>12. \A n \in 0 .. len : sum[n] \in Nat
  <2> HIDE DEF good
  <2>1. good \subseteq Nat
    BY DEF good
  <2>2. good = Nat
    BY <1>10, <1>11, <2>1, FromZero
  <2>3. QED
    BY <1>1, <2>2 DEF good
<1>13. sum \in [0 .. len -> Nat]
  <2>1. sum = [n \in 0 .. len |-> sum[n]]
    BY <1>6
  <2>2. QED
    BY <1>12, <2>1
<1>14. QED
  BY <1>7, <1>8, <1>9, <1>13

\* The tokens of s are among the sums f that lead to the tokens of t.
Summing(f, s, t) ==
    /\ Tokens(t) = f[Len(t)]
    /\ Tokens(s) = f[Len(s)]
    /\ f[0] = 0
    /\ \A n \in 1 .. Len(t) : f[n] = f[n - 1] + t[n].tokens

\* What a sequence begins with is a sum on the way to its own.
LEMMA TokensOnTheWay ==
  ASSUME NEW S, Priced(S), NEW s \in Seq(S), NEW T, Priced(T), NEW t \in Seq(T),
         Len(s) <= Len(t), \A i \in 1 .. Len(s) : s[i].tokens = t[i].tokens
  PROVE  \E f \in [0 .. Len(t) -> Nat] : Summing(f, s, t)
<1>1. PICK f \in [0 .. Len(t) -> Nat] :
        /\ Tokens(t) = f[Len(t)]
        /\ f[0] = 0
        /\ \A n \in 1 .. Len(t) : f[n] = f[n - 1] + t[n].tokens
  BY TokensGrow
<1>2. PICK g \in [0 .. Len(s) -> Nat] :
        /\ Tokens(s) = g[Len(s)]
        /\ g[0] = 0
        /\ \A n \in 1 .. Len(s) : g[n] = g[n - 1] + s[n].tokens
  BY TokensGrow
<1> DEFINE good == {n \in Nat : n <= Len(s) => f[n] = g[n]}
<1>3. 0 \in good
  BY <1>1, <1>2
<1>4. ASSUME NEW n \in Nat, n \in good
      PROVE  n + 1 \in good
  <2> SUFFICES ASSUME n + 1 <= Len(s) PROVE f[n + 1] = g[n + 1]
    OBVIOUS
  <2>1. f[n] = g[n] /\ n + 1 \in 1 .. Len(s) /\ n + 1 \in 1 .. Len(t) /\ (n + 1) - 1 = n
    BY <1>4
  <2>2. QED
    BY <1>1, <1>2, <2>1
<1>5. f[Len(s)] = g[Len(s)]
  <2> HIDE DEF good
  <2>1. good \subseteq Nat
    BY DEF good
  <2>2. good = Nat
    BY <1>3, <1>4, <2>1, FromZero
  <2>3. QED
    BY <2>2 DEF good
<1>6. QED
  BY <1>1, <1>2, <1>5 DEF Summing

LEMMA TokensType ==
  ASSUME NEW S, Priced(S), NEW s \in Seq(S)
  PROVE  Tokens(s) \in Nat
<1>1. PICK f \in [0 .. Len(s) -> Nat] : Tokens(s) = f[Len(s)]
  BY TokensGrow
<1>2. QED
  BY <1>1

LEMMA TokensAgree ==
  ASSUME NEW S, Priced(S), NEW s \in Seq(S), NEW T, Priced(T), NEW t \in Seq(T),
         Len(s) = Len(t), \A i \in 1 .. Len(s) : s[i].tokens = t[i].tokens
  PROVE  Tokens(s) = Tokens(t)
<1>1. PICK f \in [0 .. Len(t) -> Nat] : Summing(f, s, t)
  BY TokensOnTheWay
<1>2. QED
  BY <1>1 DEF Summing

LEMMA TokensOfNone == Tokens(<<>>) = 0
<1> DEFINE S == [tokens : Nat]
<1>1. Priced(S) /\ <<>> \in Seq(S)
  BY DEF Priced
<1> HIDE DEF S
<1>2. PICK f \in [0 .. Len(<<>>) -> Nat] : Tokens(<<>>) = f[Len(<<>>)] /\ f[0] = 0
  BY <1>1, TokensGrow
<1>3. QED
  BY <1>2

LEMMA TokensOfMore ==
  ASSUME NEW S, Priced(S), NEW s \in Seq(S), NEW x \in S
  PROVE  Tokens(Append(s, x)) = Tokens(s) + x.tokens
<1> DEFINE t == Append(s, x)
<1>1. /\ t \in Seq(S) /\ Len(s) \in Nat /\ Len(t) = Len(s) + 1 /\ t[Len(s) + 1] = x
      /\ \A i \in 1 .. Len(s) : t[i] = s[i]
  OBVIOUS
<1> HIDE DEF t
<1>2. Len(s) <= Len(t) /\ \A i \in 1 .. Len(s) : s[i].tokens = t[i].tokens
  BY <1>1
<1>3. PICK f \in [0 .. Len(t) -> Nat] : Summing(f, s, t)
  <2>1. t \in Seq(S) /\ s \in Seq(S) /\ Priced(S)
    BY <1>1
  <2>2. QED
    BY <1>2, <2>1, TokensOnTheWay
<1>4. Len(s) + 1 \in 1 .. Len(t) /\ (Len(s) + 1) - 1 = Len(s)
  BY <1>1
<1>5. QED
  BY <1>1, <1>3, <1>4 DEF t, Summing

LEMMA Joined ==
  ASSUME NEW S, NEW s \in Seq(S), NEW t \in Seq(S)
  PROVE  /\ s \o t \in Seq(S)
         /\ Len(s \o t) = Len(s) + Len(t)
         /\ DOMAIN (s \o t) = 1 .. Len(s) + Len(t)
         /\ \A i \in 1 .. Len(s) : (s \o t)[i] = s[i]
         /\ \A i \in 1 .. Len(t) : (s \o t)[Len(s) + i] = t[i]
  OBVIOUS

LEMMA TokensOfBoth ==
  ASSUME NEW S, Priced(S), NEW s \in Seq(S), NEW t \in Seq(S)
  PROVE  Tokens(s \o t) = Tokens(s) + Tokens(t)
<1> DEFINE whole == s \o t
<1>1. /\ whole \in Seq(S) /\ Len(whole) = Len(s) + Len(t) /\ Len(s) \in Nat /\ Len(t) \in Nat
      /\ \A i \in 1 .. Len(s) : whole[i] = s[i]
      /\ \A i \in 1 .. Len(t) : whole[Len(s) + i] = t[i]
  BY Joined
<1> HIDE DEF whole
<1>2. Len(s) <= Len(whole) /\ \A i \in 1 .. Len(s) : s[i].tokens = whole[i].tokens
  BY <1>1
<1>3. PICK f \in [0 .. Len(whole) -> Nat] : Summing(f, s, whole)
  <2>1. whole \in Seq(S) /\ s \in Seq(S) /\ Priced(S)
    BY <1>1
  <2>2. QED
    BY <1>2, <2>1, TokensOnTheWay
<1>4. PICK g \in [0 .. Len(t) -> Nat] :
        /\ Tokens(t) = g[Len(t)]
        /\ g[0] = 0
        /\ \A n \in 1 .. Len(t) : g[n] = g[n - 1] + t[n].tokens
  BY TokensGrow
<1> DEFINE good == {n \in Nat : n <= Len(t) => f[Len(s) + n] = f[Len(s)] + g[n]}
<1>5. 0 \in good
  <2>1. Len(s) + 0 = Len(s) /\ Len(s) \in 0 .. Len(whole)
    BY <1>1
  <2>2. f[Len(s)] \in Nat
    BY <1>3, <2>1
  <2>3. QED
    BY <1>4, <2>1, <2>2
<1>6. ASSUME NEW n \in Nat, n \in good
      PROVE  n + 1 \in good
  <2> SUFFICES ASSUME n + 1 <= Len(t) PROVE f[Len(s) + (n + 1)] = f[Len(s)] + g[n + 1]
    OBVIOUS
  <2> DEFINE k == Len(s) + (n + 1)
  <2>1. /\ n + 1 \in 1 .. Len(t) /\ (n + 1) - 1 = n /\ k - 1 = Len(s) + n
        /\ k \in 1 .. Len(whole) /\ n \in 0 .. Len(t) /\ Len(s) \in 0 .. Len(whole)
    BY <1>1
  <2>2. f[Len(s) + n] = f[Len(s)] + g[n]
    BY <1>6
  <2>3. f[k] = f[k - 1] + t[n + 1].tokens /\ g[n + 1] = g[n] + t[n + 1].tokens
    <3>1. f[k] = f[k - 1] + whole[k].tokens
      BY <1>3, <2>1 DEF Summing
    <3>2. g[n + 1] = g[(n + 1) - 1] + t[n + 1].tokens
      BY <1>4, <2>1 DEF Summing
    <3>3. whole[k] = t[n + 1]
      BY <1>1, <2>1
    <3>4. QED
      BY <2>1, <3>1, <3>2, <3>3
  <2>4. t[n + 1].tokens \in Nat /\ f[Len(s)] \in Nat /\ g[n] \in Nat
    <3>1. t[n + 1] \in S
      BY <2>1
    <3>2. f[Len(s)] \in Nat /\ g[n] \in Nat
      BY <1>3, <1>4, <2>1
    <3>3. QED
      BY <3>1, <3>2 DEF Priced
  <2> HIDE DEF k
  <2>5. f[k] = f[Len(s)] + g[n + 1]
    BY <2>1, <2>2, <2>3, <2>4
  <2>6. QED
    BY <2>5 DEF k
<1>7. f[Len(s) + Len(t)] = f[Len(s)] + g[Len(t)]
  <2> HIDE DEF good
  <2>1. good \subseteq Nat
    BY DEF good
  <2>2. good = Nat
    BY <1>5, <1>6, <2>1, FromZero
  <2>3. Len(t) \in good /\ Len(t) <= Len(t)
    BY <1>1, <2>2
  <2>4. QED
    BY <2>3 DEF good
<1>8. QED
  BY <1>1, <1>3, <1>4, <1>7 DEF whole, Summing

\* Where the elements of p come from: at[i] is the place of p[i] in s, and the
\* places are in order.
Places(at, p, s) ==
    /\ at \in [1 .. Len(p) -> DOMAIN s]
    /\ \A i \in 1 .. Len(p) : p[i] = s[at[i]]
    /\ \A i, j \in 1 .. Len(p) : i < j => at[i] < at[j]

\* What is picked is of the sequence, in order; all of it is the sequence itself.
LEMMA PickedIsPart ==
  ASSUME NEW S, NEW s \in Seq(S), NEW places
  PROVE  /\ Picked(s, places) \in Seq(S)
         /\ Len(Picked(s, places)) <= Len(s)
         /\ Len(Picked(s, places)) = Len(s) => Picked(s, places) = s
         /\ \E at : Places(at, Picked(s, places), s) /\ \A i \in DOMAIN Picked(s, places) : at[i] \in places
<1> DEFINE len == Len(s)
           Part(c, n) ==
             /\ Len(c) <= n
             /\ Len(c) = n => \A i \in 1 .. n : c[i] = s[i]
             /\ \E at \in [1 .. Len(c) -> 1 .. n] :
                    /\ \A i \in 1 .. Len(c) : c[i] = s[at[i]] /\ at[i] \in places
                    /\ \A i, j \in 1 .. Len(c) : i < j => at[i] < at[j]
<1>1. PICK f \in [0 .. Len(s) -> Seq(S)] : Gathering(f, s, places)
  BY PickedGrows
<1>2. len \in Nat /\ DOMAIN s = 1 .. len /\ \A n \in 1 .. len : s[n] \in S
  OBVIOUS
<1> DEFINE good == {n \in Nat : n <= len => Part(f[n], n)}
<1>3. 0 \in good
  <2>1. f[0] = <<>>
    BY <1>1 DEF Gathering
  <2>2. Part(<<>>, 0)
    <3>1. [i \in 1 .. 0 |-> i] \in [1 .. Len(<<>>) -> 1 .. 0] /\ Len(<<>>) = 0
      OBVIOUS
    <3>2. QED
      BY <3>1
  <2> HIDE DEF Part
  <2>3. QED
    BY <2>1, <2>2
<1>4. ASSUME NEW n \in Nat, n \in good
      PROVE  n + 1 \in good
  <2> SUFFICES ASSUME n + 1 <= len
               PROVE  Part(f[n + 1], n + 1)
    <3> HIDE DEF Part
    <3> QED
      OBVIOUS
  <2> DEFINE c == f[n]
             d == f[n + 1]
  <2>1. Part(c, n) /\ n + 1 \in 1 .. len
    <3> HIDE DEF Part
    <3> QED
      BY <1>2, <1>4
  <2>2. c \in Seq(S) /\ (n + 1) - 1 = n
    <3>1. n \in 0 .. Len(s)
      BY <1>2, <2>1
    <3>2. QED
      BY <1>1, <3>1
  <2>3. d = IF n + 1 \in places THEN Append(c, s[n + 1]) ELSE c
    <3> HIDE DEF Part
    <3>1. f[n + 1] = IF n + 1 \in places THEN Append(f[(n + 1) - 1], s[n + 1])
                     ELSE f[(n + 1) - 1]
      BY <1>1, <2>1 DEF Gathering
    <3>2. QED
      BY <2>2, <3>1
  <2>4. PICK at \in [1 .. Len(c) -> 1 .. n] :
            /\ \A i \in 1 .. Len(c) : c[i] = s[at[i]] /\ at[i] \in places
            /\ \A i, j \in 1 .. Len(c) : i < j => at[i] < at[j]
    BY <2>1
  <2>5. Len(c) <= n /\ (Len(c) = n => \A i \in 1 .. n : c[i] = s[i]) /\ Len(c) \in Nat
    BY <2>1, <2>2
  <2> HIDE DEF c, d
  <2>6. CASE n + 1 \in places
    <3>1. /\ d \in Seq(S) /\ Len(d) = Len(c) + 1 /\ d[Len(c) + 1] = s[n + 1]
          /\ \A i \in 1 .. Len(c) : d[i] = c[i]
      <4>1. d = Append(c, s[n + 1]) /\ s[n + 1] \in S
        BY <1>2, <2>1, <2>3, <2>6
      <4>2. QED
        BY <2>2, <4>1
    <3> DEFINE to == [i \in 1 .. Len(d) |-> IF i <= Len(c) THEN at[i] ELSE n + 1]
    <3>2. to \in [1 .. Len(d) -> 1 .. n + 1]
      BY <2>4, <2>5, <3>1
    <3>3. \A i \in 1 .. Len(d) : d[i] = s[to[i]] /\ to[i] \in places
      BY <2>4, <2>5, <2>6, <3>1
    <3>4. ASSUME NEW i \in 1 .. Len(d), NEW j \in 1 .. Len(d), i < j
          PROVE  to[i] < to[j]
      <4>1. i \in 1 .. Len(c) /\ to[i] = at[i] /\ at[i] \in 1 .. n
        <5>1. i \in 1 .. Len(c)
          BY <2>5, <3>1, <3>4
        <5>2. at[i] \in 1 .. n
          BY <2>4, <5>1
        <5>3. QED
          BY <5>1, <5>2
      <4>2. CASE j \in 1 .. Len(c)
        BY <2>4, <2>5, <3>1, <3>4, <4>1, <4>2
      <4>3. CASE j \notin 1 .. Len(c)
        <5>1. to[j] = n + 1
          BY <2>5, <3>1, <4>3
        <5>2. QED
          BY <4>1, <5>1
      <4>4. QED
        BY <4>2, <4>3
    <3>5. ASSUME Len(d) = n + 1, NEW i \in 1 .. n + 1
          PROVE  d[i] = s[i]
      BY <2>5, <3>1, <3>5
    <3>6. Len(d) <= n + 1
      BY <2>5, <3>1
    <3> HIDE DEF to
    <3>7. Part(d, n + 1)
      BY <3>2, <3>3, <3>4, <3>5, <3>6
    <3>8. QED
      BY <3>7 DEF d
  <2>7. CASE n + 1 \notin places
    <3>1. d = c /\ Len(c) # n + 1 /\ Len(c) <= n + 1
      BY <2>3, <2>5, <2>7
    <3>2. at \in [1 .. Len(c) -> 1 .. n + 1]
      BY <2>4
    <3>3. Part(c, n + 1)
      BY <2>4, <3>1, <3>2
    <3>4. QED
      BY <3>1, <3>3 DEF d
  <2>8. QED
    BY <2>6, <2>7
<1>5. Part(f[len], len)
  <2> HIDE DEF good
  <2>1. good \subseteq Nat
    BY DEF good
  <2>2. len \in good
    BY <1>2, <1>3, <1>4, <2>1, FromZero
  <2> HIDE DEF Part
  <2>3. QED
    BY <1>2, <2>2 DEF good
<1> DEFINE c == Picked(s, places)
<1>6. c = f[len] /\ c \in Seq(S)
  BY <1>1, <1>2 DEF Gathering
<1>7. Part(c, len)
  BY <1>5, <1>6, ZenonT(40)
<1> HIDE DEF c
<1>8. ASSUME Len(c) = len PROVE c = s
  BY <1>6, <1>7, <1>8
<1>9. PICK at \in [1 .. Len(c) -> 1 .. len] :
            /\ \A i \in 1 .. Len(c) : c[i] = s[at[i]] /\ at[i] \in places
            /\ \A i, j \in 1 .. Len(c) : i < j => at[i] < at[j]
  BY <1>7
<1>10. Places(at, c, s) /\ \A i \in DOMAIN c : at[i] \in places
  BY <1>2, <1>6, <1>9 DEF Places
<1>11. QED
  BY <1>6, <1>7, <1>8, <1>10 DEF c

\* One element more is picked or is not.
LEMMA PickedFromMore ==
  ASSUME NEW S, NEW s \in Seq(S), NEW x \in S, NEW p, NEW q,
         \A i \in 1 .. Len(s) : i \in p <=> i \in q
  PROVE  Picked(Append(s, x), q) =
            IF Len(s) + 1 \in q THEN Append(Picked(s, p), x) ELSE Picked(s, p)
<1> DEFINE t == Append(s, x)
<1>1. /\ t \in Seq(S) /\ Len(s) \in Nat /\ Len(t) = Len(s) + 1 /\ t[Len(s) + 1] = x
      /\ \A i \in 1 .. Len(s) : t[i] = s[i]
  OBVIOUS
<1> HIDE DEF t
<1>2. PICK f \in [0 .. Len(s) -> Seq(S)] : Gathering(f, s, p)
  BY PickedGrows
<1>3. PICK g \in [0 .. Len(t) -> Seq(S)] : Gathering(g, t, q)
  BY <1>1, PickedGrows
<1> DEFINE good == {n \in Nat : n <= Len(s) => f[n] = g[n]}
<1>4. 0 \in good
  BY <1>2, <1>3 DEF Gathering
<1>5. ASSUME NEW n \in Nat, n \in good
      PROVE  n + 1 \in good
  <2> SUFFICES ASSUME n + 1 <= Len(s) PROVE f[n + 1] = g[n + 1]
    OBVIOUS
  <2>1. f[n] = g[n] /\ n + 1 \in 1 .. Len(s) /\ n + 1 \in 1 .. Len(t) /\ (n + 1) - 1 = n
    BY <1>1, <1>5
  <2>2. QED
    BY <1>1, <1>2, <1>3, <2>1 DEF Gathering
<1>6. f[Len(s)] = g[Len(s)]
  <2> HIDE DEF good
  <2>1. good \subseteq Nat
    BY DEF good
  <2>2. good = Nat
    BY <1>4, <1>5, <2>1, FromZero
  <2>3. Len(s) \in good /\ Len(s) <= Len(s)
    BY <1>1, <2>2
  <2>4. QED
    BY <2>3 DEF good
<1>7. Len(s) + 1 \in 1 .. Len(t) /\ (Len(s) + 1) - 1 = Len(s)
  BY <1>1
<1>8. QED
  BY <1>1, <1>2, <1>3, <1>6, <1>7 DEF t, Gathering

\* Of what a sequence holds, nothing else is picked.
LEMMA PickedIsOf ==
  ASSUME NEW S, NEW s \in Seq(S), NEW places, NEW i \in DOMAIN Picked(s, places)
  PROVE  \E j \in DOMAIN s : j \in places /\ Picked(s, places)[i] = s[j]
<1>1. Picked(s, places) \in Seq(S)
  BY PickedIsPart
<1>2. PICK at : Places(at, Picked(s, places), s) /\ \A k \in DOMAIN Picked(s, places) : at[k] \in places
  BY PickedIsPart
<1>3. QED
  BY <1>1, <1>2 DEF Places

\* The ids of what is picked are as different as those of the sequence are.
LEMMA PickedOwnIds ==
  ASSUME NEW S, NEW s \in Seq(S), NEW places,
         \A i, j \in DOMAIN s : i \in places /\ j \in places /\ i < j => s[i].id # s[j].id
  PROVE  OwnIds(Picked(s, places))
<1> DEFINE c == Picked(s, places)
<1>1. c \in Seq(S)
  BY PickedIsPart
<1>2. PICK at : Places(at, c, s) /\ \A k \in DOMAIN c : at[k] \in places
  BY PickedIsPart
<1> HIDE DEF c
<1>3. ASSUME NEW i \in DOMAIN c, NEW j \in DOMAIN c, i < j
      PROVE  c[i].id # c[j].id
  <2>1. i \in 1 .. Len(c) /\ j \in 1 .. Len(c)
    BY <1>1
  <2>2. /\ at[i] \in DOMAIN s /\ at[j] \in DOMAIN s /\ at[i] < at[j]
        /\ c[i] = s[at[i]] /\ c[j] = s[at[j]]
    BY <1>2, <1>3, <2>1 DEF Places
  <2>3. QED
    BY <1>2, <2>2
<1>4. SUFFICES ASSUME NEW i \in DOMAIN c, NEW j \in DOMAIN c, i # j
               PROVE  c[i].id # c[j].id
  BY DEF OwnIds, c
<1>5. i < j \/ j < i
  BY <1>1, <1>4
<1>6. QED
  BY <1>3, <1>5

-----------------------------------------------------------------------------
(* The history of a turn *)

CallIds == (Nat \X Nat)
AnswerEntries == [role : {"assistant"}, id : Nat, step : Nat, calls : Seq(CallIds), tokens : Nat]
ResultEntries == [role : {"tool"}, id : Nat, step : Nat, call : CallIds, tokens : Nat]
Entries == AnswerEntries \union ResultEntries

\* Every result is behind an answer that called for it.
Backed(entries) ==
    \A j \in DOMAIN entries : entries[j].role = "tool" =>
        \E i \in 1 .. j - 1 :
            entries[i].role = "assistant" /\ entries[j].call \in ToSet(entries[i].calls)

LEMMA EntriesPriced == Priced(Entries)
  BY DEF Priced, Entries, AnswerEntries, ResultEntries

\* What is pruned is of the history and costs no more, and every result of it
\* is answered.
LEMMA PrunedAreAnswered ==
  ASSUME NEW entries \in Seq(Entries)
  PROVE  /\ PruneOrphans(entries) \in Seq(Entries)
         /\ \A e \in ToSet(PruneOrphans(entries)) : e \in ToSet(entries)
         /\ Backed(PruneOrphans(entries))
         /\ Tokens(PruneOrphans(entries)) <= Tokens(entries)
<1> DEFINE len == Len(entries)
           Pruning(acc, n) == Pruned(acc, entries[n])
           A == [calls : SUBSET CallIds, kept : Seq(Entries)]
           step == [n \in 1 .. len |-> [acc \in A |-> Pruning(acc, n)]]
           base == [calls |-> {}, kept |-> <<>>]
           Rule(f) == [n \in 0 .. len |->
                IF n = 0 THEN [calls |-> {}, kept |-> <<>>]
                ELSE Pruned(f[n - 1], entries[n])]
           pruned == CHOOSE f : f = Rule(f)
<1>1. len \in Nat /\ \A n \in 1 .. len : entries[n] \in Entries /\ n \in DOMAIN entries
  OBVIOUS
<1>2. ASSUME NEW acc \in A, NEW n \in 1 .. len
      PROVE  Pruning(acc, n) \in A
  <2>1. CASE entries[n].role = "assistant"
    <3>1. entries[n].calls \in Seq(CallIds)
      BY <1>1, <2>1 DEF Entries, AnswerEntries, ResultEntries
    <3>2. ToSet(entries[n].calls) \subseteq CallIds
      BY <3>1 DEF ToSet
    <3>3. QED
      BY <1>1, <2>1, <3>2 DEF Pruned
  <2>2. CASE entries[n].role # "assistant"
    <3>1. [acc EXCEPT !.kept = Append(@, entries[n])] \in A
      <4>1. Append(acc.kept, entries[n]) \in Seq(Entries)
        BY <1>1
      <4> DEFINE kept == Append(acc.kept, entries[n])
      <4> HIDE DEF kept
      <4>2. [acc EXCEPT !.kept = kept] \in A
        BY <4>1 DEF kept
      <4>3. QED
        BY <4>2 DEF kept
    <3> HIDE DEF A
    <3>2. QED
      BY <2>2, <3>1 DEF Pruned
  <2>3. QED
    BY <2>1, <2>2
<1>3. PICK f \in [0 .. len -> A] : f[0] = base /\ \A n \in 1 .. len : f[n] = step[n][f[n - 1]]
  <2>1. base \in A /\ step \in [1 .. len -> [A -> A]]
    <3> HIDE DEF Pruning
    <3>1. base \in A
      OBVIOUS
    <3> HIDE DEF A
    <3>2. QED
      BY <1>2, <3>1
  <2>2. len \in Nat
    BY <1>1
  <2> HIDE DEF step, len, A, base
  <2>3. QED
    BY <2>1, <2>2, Folding
<1>4. \A n \in 1 .. len : f[n] = Pruning(f[n - 1], n)
  <2> SUFFICES ASSUME NEW n \in 1 .. len PROVE f[n] = Pruning(f[n - 1], n)
    OBVIOUS
  <2> HIDE DEF A, Pruning
  <2>1. f[n - 1] \in A
    BY <1>1, <1>3
  <2>2. QED
    BY <1>3, <2>1
<1>5. f = Rule(f)
  <2>1. DOMAIN f = DOMAIN Rule(f)
    OBVIOUS
  <2>2. ASSUME NEW n \in 0 .. len
        PROVE  f[n] = Rule(f)[n]
    <3>1. CASE n = 0
      BY <3>1, <1>3
    <3>2. CASE n # 0
      <4>1. n \in 1 .. len
        BY <3>2, <1>1
      <4>2. f[n] = Pruning(f[n - 1], n)
        BY <1>4, <4>1
      <4>3. QED
        BY <3>2, <4>2
    <3>3. QED
      BY <3>1, <3>2
  <2>3. QED
    BY <2>1, <2>2
<1>6. pruned = Rule(pruned)
  <2> HIDE DEF Rule
  <2>1. QED
    BY <1>5
<1>7. PruneOrphans(entries) = pruned[len].kept
  BY DEF PruneOrphans
<1> HIDE DEF pruned
<1>8. pruned[0] = base
  BY <1>1, <1>6
<1>9. ASSUME NEW n \in 1 .. len
      PROVE  pruned[n] = Pruning(pruned[n - 1], n)
  <2>1. n \in 0 .. len /\ n # 0
    BY <1>1
  <2>2. pruned[n] = Rule(pruned)[n]
    BY <1>6
  <2>3. QED
    BY <2>1, <2>2
<1> HIDE DEF Rule
<1>14. PICK sum \in [0 .. Len(entries) -> Nat] :
            /\ Tokens(entries) = sum[Len(entries)]
            /\ sum[0] = 0
            /\ \A n \in 1 .. Len(entries) : sum[n] = sum[n - 1] + entries[n].tokens
  BY EntriesPriced, TokensGrow
<1> DEFINE Calling(acc) ==
             \A x \in acc.calls : \E i \in DOMAIN acc.kept :
                acc.kept[i].role = "assistant" /\ x \in ToSet(acc.kept[i].calls)
           Held(acc) ==
             /\ acc \in A
             /\ \A i \in DOMAIN acc.kept : \E j \in DOMAIN entries : acc.kept[i] = entries[j]
             /\ Calling(acc)
             /\ Backed(acc.kept)
           good == {n \in Nat : n <= len => /\ Held(pruned[n])
                                            /\ Tokens(pruned[n].kept) <= sum[n]}
<1>10. 0 \in good
  <2>1. base.calls = {} /\ base.kept = <<>> /\ base \in A
    OBVIOUS
  <2> HIDE DEF base
  <2>2. Held(base)
    BY <2>1 DEF Backed
  <2>3. Tokens(base.kept) <= sum[0]
    BY <1>14, <2>1, TokensOfNone
  <2> HIDE DEF Held
  <2>4. QED
    BY <1>8, <2>2, <2>3
<1>11. ASSUME NEW n \in Nat, n \in good
       PROVE  n + 1 \in good
  <2> SUFFICES ASSUME n + 1 <= len
               PROVE  Held(pruned[n + 1]) /\ Tokens(pruned[n + 1].kept) <= sum[n + 1]
    <3> HIDE DEF Held
    <3> QED
      OBVIOUS
  <2> DEFINE acc == pruned[n]
             e == entries[n + 1]
             next == pruned[n + 1]
  <2>1. Held(acc) /\ n + 1 \in 1 .. len /\ Tokens(acc.kept) <= sum[n]
    <3> HIDE DEF Held
    <3> QED
      BY <1>1, <1>11
  <2>2. next = Pruning(acc, n + 1)
    <3> HIDE DEF Pruning
    <3>1. (n + 1) - 1 = n
      OBVIOUS
    <3>2. QED
      BY <1>9, <2>1, <3>1
  <2>3. next \in A
    <3>1. acc \in A
      BY <2>1
    <3> HIDE DEF Pruning, A, acc, next, len
    <3>2. QED
      BY <1>2, <2>1, <2>2, <3>1
  <2>4. e \in Entries /\ n + 1 \in DOMAIN entries /\ acc.kept \in Seq(Entries)
    <3>1. n + 1 \in 1 .. len /\ acc \in A
      BY <2>1
    <3>2. e \in Entries /\ n + 1 \in DOMAIN entries
      <4> HIDE DEF acc, next, len
      <4>1. QED
        BY <1>1, <3>1
    <3>3. acc.kept \in Seq(Entries)
      <4> HIDE DEF acc
      <4>1. QED
        BY <3>1
    <3>4. QED
      BY <3>2, <3>3
  <2> HIDE DEF acc, next
  <2>5. ASSUME next.kept = Append(acc.kept, e)
        PROVE  /\ Len(acc.kept) \in Nat /\ DOMAIN acc.kept = 1 .. Len(acc.kept)
               /\ DOMAIN next.kept = 1 .. Len(acc.kept) + 1
               /\ next.kept[Len(acc.kept) + 1] = e
               /\ \A i \in DOMAIN acc.kept : next.kept[i] = acc.kept[i]
               /\ \A i \in DOMAIN next.kept : i # Len(acc.kept) + 1 => i \in DOMAIN acc.kept
    <3> HIDE DEF e
    <3>1. QED
      BY <2>4, <2>5
  <2>6. ASSUME entries[n + 1].role = "assistant"
        PROVE  Held(next)
    <3>1. next.kept = Append(acc.kept, e) /\ next.calls = acc.calls \union ToSet(e.calls)
      BY <2>2, <2>6 DEF Pruned
    <3>2. \A i \in DOMAIN next.kept : \E j \in DOMAIN entries : next.kept[i] = entries[j]
      BY <2>1, <2>4, <2>5, <3>1
    <3>3. Calling(next)
      <4> SUFFICES ASSUME NEW x \in next.calls
                   PROVE  \E i \in DOMAIN next.kept :
                            next.kept[i].role = "assistant" /\ x \in ToSet(next.kept[i].calls)
        OBVIOUS
      <4>1. CASE x \in acc.calls
        <5>1. PICK i \in DOMAIN acc.kept :
                acc.kept[i].role = "assistant" /\ x \in ToSet(acc.kept[i].calls)
          BY <2>1, <4>1
        <5>2. i \in DOMAIN next.kept /\ next.kept[i] = acc.kept[i]
          BY <2>5, <3>1
        <5>3. QED
          BY <5>1, <5>2
      <4>2. CASE x \in ToSet(e.calls)
        <5>1. Len(acc.kept) + 1 \in DOMAIN next.kept /\ next.kept[Len(acc.kept) + 1] = e
          BY <2>5, <3>1
        <5>2. QED
          BY <2>6, <4>2, <5>1
      <4>3. QED
        BY <3>1, <4>1, <4>2
    <3>4. Backed(next.kept)
      <4> SUFFICES ASSUME NEW j \in DOMAIN next.kept, next.kept[j].role = "tool"
                   PROVE  \E i \in 1 .. j - 1 :
                            /\ next.kept[i].role = "assistant"
                            /\ next.kept[j].call \in ToSet(next.kept[i].calls)
        BY DEF Backed
      <4>1. j # Len(acc.kept) + 1
        BY <2>5, <2>6, <3>1
      <4>2. j \in DOMAIN acc.kept /\ next.kept[j] = acc.kept[j]
        BY <2>5, <3>1, <4>1
      <4>3. PICK i \in 1 .. j - 1 :
              acc.kept[i].role = "assistant" /\ acc.kept[j].call \in ToSet(acc.kept[i].calls)
        BY <2>1, <4>2 DEF Backed
      <4>4. i \in DOMAIN acc.kept
        BY <2>5, <3>1, <4>2
      <4>5. QED
        BY <2>5, <3>1, <4>2, <4>3, <4>4
    <3>5. QED
      BY <2>3, <3>2, <3>3, <3>4
  <2>7. ASSUME entries[n + 1].role # "assistant" /\ e.call \in acc.calls
        PROVE  Held(next)
    <3>1. next.kept = Append(acc.kept, e) /\ next.calls = acc.calls
      BY <2>1, <2>2, <2>7 DEF Pruned
    <3>2. \A i \in DOMAIN next.kept : \E j \in DOMAIN entries : next.kept[i] = entries[j]
      BY <2>1, <2>4, <2>5, <3>1
    <3>3. Calling(next)
      <4> SUFFICES ASSUME NEW x \in next.calls
                   PROVE  \E i \in DOMAIN next.kept :
                            next.kept[i].role = "assistant" /\ x \in ToSet(next.kept[i].calls)
        OBVIOUS
      <4>1. PICK i \in DOMAIN acc.kept :
              acc.kept[i].role = "assistant" /\ x \in ToSet(acc.kept[i].calls)
        BY <2>1, <3>1
      <4>2. i \in DOMAIN next.kept /\ next.kept[i] = acc.kept[i]
        BY <2>5, <3>1
      <4>3. QED
        BY <4>1, <4>2
    <3>4. Backed(next.kept)
      <4> SUFFICES ASSUME NEW j \in DOMAIN next.kept, next.kept[j].role = "tool"
                   PROVE  \E i \in 1 .. j - 1 :
                            /\ next.kept[i].role = "assistant"
                            /\ next.kept[j].call \in ToSet(next.kept[i].calls)
        BY DEF Backed
      <4>1. CASE j = Len(acc.kept) + 1
        <5>1. PICK i \in DOMAIN acc.kept :
                acc.kept[i].role = "assistant" /\ e.call \in ToSet(acc.kept[i].calls)
          BY <2>1, <2>7
        <5>2. i \in 1 .. j - 1 /\ next.kept[i] = acc.kept[i] /\ next.kept[j] = e
          BY <2>5, <3>1, <4>1
        <5>3. QED
          BY <5>1, <5>2
      <4>2. CASE j # Len(acc.kept) + 1
        <5>1. j \in DOMAIN acc.kept /\ next.kept[j] = acc.kept[j]
          BY <2>5, <3>1, <4>2
        <5>2. PICK i \in 1 .. j - 1 :
                acc.kept[i].role = "assistant" /\ acc.kept[j].call \in ToSet(acc.kept[i].calls)
          BY <2>1, <5>1 DEF Backed
        <5>3. i \in DOMAIN acc.kept
          BY <2>5, <3>1, <5>1
        <5>4. QED
          BY <2>5, <3>1, <5>1, <5>2, <5>3
      <4>3. QED
        BY <4>1, <4>2
    <3>5. QED
      BY <2>3, <3>2, <3>3, <3>4
  <2>8. ASSUME entries[n + 1].role # "assistant" /\ ~(e.call \in acc.calls)
        PROVE  Held(next)
    <3>1. next = acc
      BY <2>2, <2>8 DEF Pruned
    <3>2. QED
      BY <2>1, <3>1
  <2>9. Tokens(next.kept) <= sum[n + 1]
    <3>1. /\ sum[n] \in Nat /\ sum[n + 1] = sum[n] + e.tokens /\ e.tokens \in Nat
      <4>1. n \in 0 .. len /\ (n + 1) - 1 = n
        BY <1>1, <2>1
      <4>2. e.tokens \in Nat
        BY <2>4, EntriesPriced DEF Priced
      <4>3. QED
        BY <1>14, <2>1, <4>1, <4>2
    <3>2. Tokens(acc.kept) \in Nat
      BY <2>4, EntriesPriced, TokensType
    <3>3. CASE next.kept = Append(acc.kept, e)
      <4>1. Tokens(next.kept) = Tokens(acc.kept) + e.tokens
        BY <2>4, <3>3, EntriesPriced, TokensOfMore
      <4>2. QED
        BY <2>1, <3>1, <3>2, <4>1
    <3>4. CASE next.kept = acc.kept
      BY <2>1, <3>1, <3>2, <3>4
    <3>5. next.kept = Append(acc.kept, e) \/ next.kept = acc.kept
      BY <2>1, <2>2 DEF Pruned
    <3>6. QED
      BY <3>3, <3>4, <3>5
  <2> HIDE DEF Held, Pruning
  <2>10. QED
    BY <2>6, <2>7, <2>8, <2>9 DEF next
<1>12. Held(pruned[len]) /\ Tokens(pruned[len].kept) <= sum[len]
  <2> HIDE DEF good
  <2>1. good \subseteq Nat
    BY DEF good
  <2>2. len \in good
    BY <1>1, <1>10, <1>11, <2>1, FromZero
  <2> HIDE DEF Held
  <2>3. QED
    BY <1>1, <2>2 DEF good
<1>13. QED
  BY <1>7, <1>12, <1>14 DEF ToSet

-----------------------------------------------------------------------------
(* What a selection is made of *)

Sections == {"required", "fact", "verification", "failure", "memory", "relevant-file",
             "tree", "tool", "message", "scratchpad"}
SourceItems == [section : Sections, id : Nat, tokens : Nat, required : BOOLEAN]
MessageItems == [id : Nat, user : BOOLEAN, asks : BOOLEAN, approves : BOOLEAN, tokens : Nat]
ScratchItems == [id : Nat, tokens : Nat]

\* What may become a source.
Listed(S) == \A x \in S : x.id \in Nat /\ x.tokens \in Nat

LEMMA ListedItems ==
  /\ Listed(FoundItems) /\ Listed(MessageItems) /\ Listed(ScratchItems) /\ Listed(Entries)
  /\ Priced(FoundItems) /\ Priced(MessageItems) /\ Priced(ScratchItems) /\ Priced(SourceItems)
  BY DEF Listed, Priced, FoundItems, MessageItems, ScratchItems, SourceItems, Entries,
         AnswerEntries, ResultEntries

\* The elements of p are elements of s, each from a place of its own.
IsPart(p, s) ==
    \E at \in [1 .. Len(p) -> DOMAIN s] :
        /\ \A i \in 1 .. Len(p) : p[i] = s[at[i]]
        /\ \A i, j \in 1 .. Len(p) : at[i] = at[j] => i = j

LEMMA WholePart ==
  ASSUME NEW S, NEW s \in Seq(S)
  PROVE  IsPart(s, s)
<1> DEFINE at == [i \in 1 .. Len(s) |-> i]
<1>1. /\ at \in [1 .. Len(s) -> DOMAIN s]
      /\ \A i \in 1 .. Len(s) : s[i] = s[at[i]]
      /\ \A i, j \in 1 .. Len(s) : at[i] = at[j] => i = j
  OBVIOUS
<1> HIDE DEF at
<1>2. QED
  BY <1>1 DEF IsPart

LEMMA PickedPart ==
  ASSUME NEW S, NEW s \in Seq(S), NEW places
  PROVE  IsPart(Picked(s, places), s)
<1> DEFINE p == Picked(s, places)
<1>1. PICK at : Places(at, p, s)
  BY PickedIsPart
<1>2. p \in Seq(S)
  BY PickedIsPart
<1> HIDE DEF p
<1>3. /\ at \in [1 .. Len(p) -> DOMAIN s] /\ \A i \in 1 .. Len(p) : p[i] = s[at[i]]
      /\ \A i, j \in 1 .. Len(p) : i < j => at[i] < at[j]
  BY <1>1 DEF Places
<1>4. ASSUME NEW i \in 1 .. Len(p), NEW j \in 1 .. Len(p), at[i] = at[j]
      PROVE  i = j
  <2>1. at[i] \in DOMAIN s /\ DOMAIN s \subseteq Nat /\ ~(at[i] < at[i])
    BY <1>3
  <2>2. ~(i < j) /\ ~(j < i)
    BY <1>3, <1>4, <2>1
  <2>3. QED
    BY <1>2, <2>2
<1>5. QED
  BY <1>3, <1>4 DEF IsPart, p

LEMMA LastsPart ==
  ASSUME NEW S, NEW s \in Seq(S), NEW n \in Nat
  PROVE  LastOf(s, n) \in Seq(S) /\ IsPart(LastOf(s, n), s)
<1>1. CASE Len(s) <= n
  <2>1. LastOf(s, n) = s
    BY <1>1 DEF LastOf
  <2>2. QED
    BY <2>1, WholePart
<1>2. CASE ~(Len(s) <= n)
  <2> DEFINE p == LastOf(s, n)
             k == Len(s) - n
  <2>1. /\ p = SubSeq(s, k + 1, Len(s)) /\ k \in Nat /\ k + n = Len(s) /\ Len(s) \in Nat
        /\ DOMAIN s = 1 .. Len(s)
    BY <1>2 DEF LastOf
  <2> HIDE DEF p, k
  <2>2. \A i \in 1 .. n : k + i \in 1 .. Len(s) /\ (k + 1) + i - 1 = k + i
    BY <2>1
  <2>3. p \in Seq(S) /\ Len(p) = n /\ \A i \in 1 .. n : p[i] = s[k + i]
    BY <2>1, <2>2
  <2> DEFINE at == [i \in 1 .. n |-> k + i]
  <2>4. at \in [1 .. Len(p) -> DOMAIN s]
    BY <2>1, <2>2, <2>3
  <2>5. \A i, j \in 1 .. n : at[i] = at[j] => i = j
    BY <2>1
  <2>6. QED
    BY <2>3, <2>4, <2>5 DEF IsPart, p
<1>3. QED
  BY <1>1, <1>2

LEMMA FirstsPart ==
  ASSUME NEW S, NEW s \in Seq(S), NEW n \in Nat
  PROVE  FirstOf(s, n) \in Seq(S) /\ IsPart(FirstOf(s, n), s)
<1>1. CASE Len(s) <= n
  <2>1. FirstOf(s, n) = s
    BY <1>1 DEF FirstOf
  <2>2. QED
    BY <2>1, WholePart
<1>2. CASE ~(Len(s) <= n)
  <2> DEFINE p == FirstOf(s, n)
  <2>1. p = SubSeq(s, 1, n) /\ n < Len(s) /\ Len(s) \in Nat /\ DOMAIN s = 1 .. Len(s)
    BY <1>2 DEF FirstOf
  <2> HIDE DEF p
  <2>2. p \in Seq(S) /\ Len(p) = n /\ \A i \in 1 .. n : p[i] = s[i]
    BY <2>1
  <2>3. [i \in 1 .. n |-> i] \in [1 .. Len(p) -> DOMAIN s]
    BY <2>1, <2>2
  <2>4. QED
    BY <2>2, <2>3 DEF IsPart, p
<1>3. QED
  BY <1>1, <1>2

LEMMA ReversedPart ==
  ASSUME NEW S, NEW s \in Seq(S)
  PROVE  Reverse(s) \in Seq(S) /\ IsPart(Reverse(s), s)
<1> DEFINE p == Reverse(s)
           n == Len(s)
<1>1. n \in Nat /\ DOMAIN s = 1 .. n /\ p = [i \in 1 .. n |-> s[(n - i) + 1]]
  BY DEF Reverse
<1> HIDE DEF p, n
<1>2. \A i \in 1 .. n : (n - i) + 1 \in 1 .. n
  BY <1>1
<1>3. p \in Seq(S) /\ Len(p) = n
  <2>1. \A i \in 1 .. n : s[(n - i) + 1] \in S
    BY <1>1, <1>2
  <2>2. QED
    BY <1>1, <2>1
<1> DEFINE at == [i \in 1 .. n |-> (n - i) + 1]
<1>4. at \in [1 .. Len(p) -> DOMAIN s]
  BY <1>1, <1>2, <1>3
<1>5. \A i, j \in 1 .. n : at[i] = at[j] => i = j
  BY <1>1
<1>6. QED
  BY <1>1, <1>3, <1>4, <1>5 DEF IsPart, p

\* A part of what has its own ids has its own ids, and holds nothing else.
LEMMA PartOwnIds ==
  ASSUME NEW S, NEW p \in Seq(S), NEW s \in Seq(S), IsPart(p, s)
  PROVE  /\ OwnIds(s) => OwnIds(p)
         /\ \A i \in DOMAIN p : \E j \in DOMAIN s : p[i] = s[j]
<1>1. PICK at \in [1 .. Len(p) -> DOMAIN s] :
        /\ \A i \in 1 .. Len(p) : p[i] = s[at[i]]
        /\ \A i, j \in 1 .. Len(p) : at[i] = at[j] => i = j
  BY DEF IsPart
<1>2. DOMAIN p = 1 .. Len(p)
  OBVIOUS
<1>3. QED
  BY <1>1, <1>2 DEF OwnIds

\* A source is required as its section is, is of the facts if it is one and is
\* not if it is a message of the history, and one of the tool history costs what
\* its entry does.
Rightly(x, facts) ==
    /\ x.required <=> x.section \in {"required", "fact"}
    /\ x.section = "fact" => x.id \in Ids(facts)
    /\ x.section = "message" => x.id \notin Ids(facts)
    /\ x.section = "tool" =>
           x.id \in DOMAIN toolHistory /\ x.tokens = toolHistory[x.id].tokens

\* Only a fact is twice among sources of these sections.
Ranking(s, sections, facts) ==
    /\ s \in Seq(SourceItems)
    /\ \A i \in DOMAIN s : s[i].section \in sections /\ Rightly(s[i], facts)
    /\ \A i, j \in DOMAIN s :
           i # j /\ s[i].section = s[j].section /\ s[i].id = s[j].id => s[i].section = "fact"

LEMMA SourcesOf ==
  ASSUME NEW S, Listed(S), NEW s \in Seq(S), NEW section \in Sections, NEW required \in BOOLEAN
  PROVE  /\ Sources(section, s, required) \in Seq(SourceItems)
         /\ Len(Sources(section, s, required)) = Len(s)
         /\ DOMAIN Sources(section, s, required) = DOMAIN s
         /\ \A i \in DOMAIN s : Sources(section, s, required)[i] =
                [section |-> section, id |-> s[i].id, tokens |-> s[i].tokens, required |-> required]
         /\ Tokens(Sources(section, s, required)) = Tokens(s)
<1> DEFINE t == Sources(section, s, required)
           item(i) == [section |-> section, id |-> s[i].id, tokens |-> s[i].tokens, required |-> required]
<1>1. \A i \in DOMAIN s : item(i) \in SourceItems
  BY DEF Listed, SourceItems
<1>2. t = [i \in 1 .. Len(s) |-> item(i)] /\ Len(s) \in Nat /\ DOMAIN s = 1 .. Len(s)
  BY DEF Sources
<1>3. \A i \in DOMAIN s : item(i).tokens = s[i].tokens
  OBVIOUS
<1> HIDE DEF t, item
<1>4. /\ t \in Seq(SourceItems) /\ Len(t) = Len(s) /\ DOMAIN t = DOMAIN s
      /\ \A i \in DOMAIN s : t[i] = item(i)
  BY <1>1, <1>2
<1>5. Tokens(t) = Tokens(s)
  <2>1. Priced(S) /\ Priced(SourceItems)
    BY ListedItems DEF Listed, Priced
  <2>2. \A i \in 1 .. Len(t) : t[i].tokens = s[i].tokens
    BY <1>2, <1>3, <1>4
  <2>3. QED
    BY <1>4, <2>1, <2>2, TokensAgree
<1>6. QED
  BY <1>4, <1>5 DEF t, item

LEMMA RankingOfOne ==
  ASSUME NEW S, Listed(S), NEW s \in Seq(S), NEW section \in Sections, NEW required \in BOOLEAN,
         NEW facts,
         required <=> section \in {"required", "fact"},
         section = "fact" \/ OwnIds(s),
         section = "fact" => \A i \in DOMAIN s : s[i].id \in Ids(facts),
         section = "message" => \A i \in DOMAIN s : s[i].id \notin Ids(facts),
         section = "tool" => s = toolHistory /\ \A i \in DOMAIN s : s[i].id = i
  PROVE  Ranking(Sources(section, s, required), {section}, facts)
<1> DEFINE t == Sources(section, s, required)
<1>1. /\ t \in Seq(SourceItems) /\ DOMAIN t = DOMAIN s
      /\ \A i \in DOMAIN s : t[i] =
                [section |-> section, id |-> s[i].id, tokens |-> s[i].tokens, required |-> required]
  BY SourcesOf
<1> HIDE DEF t
<1>2. \A i \in DOMAIN s : /\ t[i].section = section /\ t[i].id = s[i].id
                          /\ t[i].tokens = s[i].tokens /\ t[i].required = required
  BY <1>1
<1>3. ASSUME NEW i \in DOMAIN t
      PROVE  Rightly(t[i], facts)
  BY <1>1, <1>2 DEF Rightly
<1>4. ASSUME NEW i \in DOMAIN t, NEW j \in DOMAIN t, i # j, t[i].id = t[j].id
      PROVE  t[i].section = "fact"
  BY <1>1, <1>2, <1>4 DEF OwnIds
<1>5. QED
  BY <1>1, <1>2, <1>3, <1>4 DEF Ranking, t

LEMMA RankingOfPart ==
  ASSUME NEW s, NEW sections, NEW facts, Ranking(s, sections, facts),
         NEW p \in Seq(SourceItems), IsPart(p, s)
  PROVE  Ranking(p, sections, facts)
<1>1. PICK at \in [1 .. Len(p) -> DOMAIN s] :
        /\ \A i \in 1 .. Len(p) : p[i] = s[at[i]]
        /\ \A i, j \in 1 .. Len(p) : at[i] = at[j] => i = j
  BY DEF IsPart
<1>2. DOMAIN p = 1 .. Len(p)
  OBVIOUS
<1>3. \A i \in DOMAIN p : p[i].section \in sections /\ Rightly(p[i], facts)
  BY <1>1, <1>2 DEF Ranking
<1>4. ASSUME NEW i \in DOMAIN p, NEW j \in DOMAIN p, i # j, p[i].section = p[j].section, p[i].id = p[j].id
      PROVE  p[i].section = "fact"
  <2>1. at[i] # at[j] /\ at[i] \in DOMAIN s /\ at[j] \in DOMAIN s /\ p[i] = s[at[i]] /\ p[j] = s[at[j]]
    BY <1>1, <1>2, <1>4
  <2>2. QED
    BY <1>4, <2>1 DEF Ranking
<1>5. QED
  BY <1>3, <1>4 DEF Ranking

LEMMA RankingOfBoth ==
  ASSUME NEW s, NEW a, NEW t, NEW b, NEW facts,
         Ranking(s, a, facts), Ranking(t, b, facts), a \cap b = {}
  PROVE  Ranking(s \o t, a \union b, facts)
<1> DEFINE u == s \o t
           n == Len(s)
           m == Len(t)
<1>1. /\ s \in Seq(SourceItems) /\ t \in Seq(SourceItems) /\ n \in Nat /\ m \in Nat
      /\ DOMAIN s = 1 .. n /\ DOMAIN t = 1 .. m
  BY DEF Ranking
<1>2. /\ u \in Seq(SourceItems) /\ DOMAIN u = 1 .. n + m
      /\ \A i \in 1 .. n : u[i] = s[i]
      /\ \A i \in 1 .. m : u[n + i] = t[i]
  BY <1>1, Joined
<1> HIDE DEF u, n, m
<1>3. ASSUME NEW i \in DOMAIN u
      PROVE  (i \in DOMAIN s /\ u[i] = s[i]) \/ (i - n \in DOMAIN t /\ u[i] = t[i - n])
  <2>1. CASE i <= n
    BY <1>1, <1>2, <2>1
  <2>2. CASE ~(i <= n)
    <3>1. i - n \in 1 .. m /\ n + (i - n) = i
      BY <1>1, <1>2, <2>2
    <3>2. QED
      BY <1>1, <1>2, <3>1
  <2>3. QED
    BY <2>1, <2>2
<1>4. \A i \in DOMAIN u : u[i].section \in a \union b /\ Rightly(u[i], facts)
  BY <1>3 DEF Ranking
<1>5. ASSUME NEW i \in DOMAIN u, NEW j \in DOMAIN u, i # j, u[i].section = u[j].section, u[i].id = u[j].id
      PROVE  u[i].section = "fact"
  <2>1. CASE i \in DOMAIN s /\ u[i] = s[i] /\ j \in DOMAIN s /\ u[j] = s[j]
    BY <1>5, <2>1 DEF Ranking
  <2>2. CASE i - n \in DOMAIN t /\ u[i] = t[i - n] /\ j - n \in DOMAIN t /\ u[j] = t[j - n]
    <3>1. i - n # j - n
      BY <1>1, <1>2, <1>5
    <3>2. QED
      BY <1>5, <2>2, <3>1 DEF Ranking
  <2>3. CASE i \in DOMAIN s /\ u[i] = s[i] /\ j - n \in DOMAIN t /\ u[j] = t[j - n]
    BY <1>5, <2>3 DEF Ranking
  <2>4. CASE i - n \in DOMAIN t /\ u[i] = t[i - n] /\ j \in DOMAIN s /\ u[j] = s[j]
    BY <1>5, <2>4 DEF Ranking
  <2>5. QED
    BY <1>3, <2>1, <2>2, <2>3, <2>4
<1>6. QED
  BY <1>2, <1>4, <1>5 DEF Ranking, u

\* What is required comes first: the list begins with it, and nothing else of
\* it is required.
Leads(a, s) ==
    /\ s \in Seq(SourceItems) /\ a \in Seq(SourceItems) /\ Len(a) <= Len(s)
    /\ \A i \in 1 .. Len(a) : s[i] = a[i] /\ a[i].required
    /\ \A i \in DOMAIN s : i > Len(a) => ~s[i].required

LEMMA LeadsOn ==
  ASSUME NEW a, NEW s, Leads(a, s), NEW t, NEW b, NEW facts, Ranking(t, b, facts),
         b \cap {"required", "fact"} = {}
  PROVE  Leads(a, s \o t)
<1> DEFINE u == s \o t
           n == Len(s)
           m == Len(t)
<1>1. /\ s \in Seq(SourceItems) /\ t \in Seq(SourceItems) /\ n \in Nat /\ m \in Nat
      /\ DOMAIN s = 1 .. n /\ DOMAIN t = 1 .. m /\ a \in Seq(SourceItems) /\ Len(a) \in Nat
  BY DEF Leads, Ranking
<1>2. /\ u \in Seq(SourceItems) /\ DOMAIN u = 1 .. n + m /\ Len(u) = n + m
      /\ \A i \in 1 .. n : u[i] = s[i]
      /\ \A i \in 1 .. m : u[n + i] = t[i]
  BY <1>1, Joined
<1> HIDE DEF u, n, m
<1>3. \A i \in 1 .. m : ~t[i].required
  BY <1>1 DEF Ranking, Rightly
<1>4. Len(a) <= n /\ Len(a) <= n + m
  BY <1>1 DEF Leads, n
<1>5. \A i \in 1 .. Len(a) : u[i] = a[i] /\ a[i].required
  BY <1>1, <1>2, <1>4 DEF Leads
<1>6. ASSUME NEW i \in DOMAIN u, i > Len(a)
      PROVE  ~u[i].required
  <2>1. CASE i <= n
    BY <1>1, <1>2, <1>6, <2>1 DEF Leads
  <2>2. CASE ~(i <= n)
    <3>1. i - n \in 1 .. m /\ n + (i - n) = i
      BY <1>1, <1>2, <2>2
    <3>2. QED
      BY <1>2, <1>3, <3>1
  <2>3. QED
    BY <2>1, <2>2
<1>7. QED
  BY <1>1, <1>2, <1>4, <1>5, <1>6 DEF Leads, u

-----------------------------------------------------------------------------
(* What is retrieved *)

\* A fact is a message.
LEMMA FactsAreMessages ==
  ASSUME NEW S, NEW ms \in Seq(S)
  PROVE  Facts(ms) \in Seq(S)
<1> DEFINE users == Picked(ms, {i \in DOMAIN ms : ms[i].user})
           others == IF users = <<>> THEN <<>> ELSE Tail(users)
           asks == Picked(others, {i \in DOMAIN others : others[i].asks})
           approves == Picked(others, {i \in DOMAIN others : others[i].approves})
           first == IF users = <<>> THEN <<>> ELSE <<Head(users)>>
<1>1. users \in Seq(S)
  BY PickedIsPart
<1> HIDE DEF users
<1>2. others \in Seq(S) /\ first \in Seq(S)
  BY <1>1
<1> HIDE DEF others, first
<1>3. asks \in Seq(S) /\ approves \in Seq(S)
  BY <1>2, PickedIsPart
<1>4. MaxFacts \in Nat
  BY ContextAssumption
<1> HIDE DEF asks, approves
<1>5. LastOf(asks, MaxFacts) \in Seq(S) /\ LastOf(approves, MaxFacts) \in Seq(S)
  BY <1>3, <1>4, LastsPart
<1>6. Facts(ms) = (first \o LastOf(asks, MaxFacts)) \o LastOf(approves, MaxFacts)
  BY DEF Facts, users, others, asks, approves, first
<1>7. first \o LastOf(asks, MaxFacts) \in Seq(S)
  BY <1>2, <1>5, Joined
<1>8. QED
  BY <1>5, <1>6, <1>7, Joined

LEMMA DistinctOwnIds ==
  ASSUME NEW S, Listed(S), NEW s \in Seq(S)
  PROVE  Distinct(s) \in Seq(S) /\ OwnIds(Distinct(s))
<1> DEFINE places == {i \in DOMAIN s : \A j \in 1 .. i - 1 : s[j].id # s[i].id}
<1>1. \A i, j \in DOMAIN s : i \in places /\ j \in places /\ i < j => s[i].id # s[j].id
  <2>1. \A i, j \in DOMAIN s : i < j => i \in 1 .. j - 1
    OBVIOUS
  <2>2. QED
    BY <2>1
<1> HIDE DEF places
<1>2. QED
  BY <1>1, PickedIsPart, PickedOwnIds DEF Distinct, places

\* What is relevant is of its kind, and nothing is retrieved twice.
LEMMA RetrievedOnce ==
  ASSUME NEW found \in Retrievals, embedded \in BOOLEAN
  PROVE  /\ LatestReports(found) \in Seq(FoundItems) /\ OwnIds(LatestReports(found))
         /\ PriorFailures(found) \in Seq(FoundItems) /\ OwnIds(PriorFailures(found))
         /\ MemoryEntries(found) \in Seq(FoundItems) /\ OwnIds(MemoryEntries(found))
         /\ /\ Distinct(RelevantFiles(found)) \in Seq(FoundItems)
            /\ OwnIds(Distinct(RelevantFiles(found)))
         /\ found.tree \in Seq(FoundItems) /\ OwnIds(found.tree)
<1>1. /\ found.reports \in Seq(FoundItems) /\ found.failures \in Seq(FoundItems)
      /\ found.matches \in Seq(FoundItems) /\ found.entries \in Seq(FoundItems)
      /\ found.summary \in Seq(FoundItems) /\ found.files \in Seq(FoundItems)
      /\ found.tree \in Seq(FoundItems)
  <2> DEFINE S == Seq(FoundItems)
  <2> HIDE DEF S
  <2>1. found \in [FoundKinds -> S]
    BY ContextAssumption DEF S
  <2>2. QED
    BY <2>1 DEF FoundKinds, S
<1>2. OwnIds(found.reports) /\ OwnIds(found.failures) /\ OwnIds(found.summary) /\ OwnIds(found.tree)
  BY ContextAssumption
<1>3. /\ SourceLimits.reports \in Nat /\ SourceLimits.failures \in Nat
      /\ SourceLimits.memories \in Nat /\ SourceLimits.files \in Nat
  BY ContextAssumption
<1>4. LatestReports(found) \in Seq(FoundItems) /\ OwnIds(LatestReports(found))
  BY <1>1, <1>2, <1>3, FirstsPart, PartOwnIds DEF LatestReports
<1>5. PriorFailures(found) \in Seq(FoundItems) /\ OwnIds(PriorFailures(found))
  BY <1>1, <1>2, <1>3, FirstsPart, PartOwnIds DEF PriorFailures
<1>6. Nearest(found.matches) \in Seq(FoundItems) /\ Nearest(found.files) \in Seq(FoundItems)
  BY <1>1 DEF Nearest
<1>7. MemoryEntries(found) \in Seq(FoundItems) /\ OwnIds(MemoryEntries(found))
  <2> DEFINE both == Nearest(found.matches) \o found.entries
             merged == FirstOf(Distinct(both), SourceLimits.memories)
  <2>1. both \in Seq(FoundItems)
    BY <1>1, <1>6, Joined
  <2> HIDE DEF both
  <2>2. Distinct(both) \in Seq(FoundItems) /\ OwnIds(Distinct(both))
    BY <2>1, ListedItems, DistinctOwnIds
  <2>3. merged \in Seq(FoundItems) /\ OwnIds(merged)
    BY <1>3, <2>2, FirstsPart, PartOwnIds
  <2>4. MemoryEntries(found) = IF merged = <<>> THEN found.summary ELSE merged
    BY DEF MemoryEntries, both
  <2> HIDE DEF merged
  <2>5. QED
    BY <1>1, <1>2, <2>3, <2>4
<1>8. RelevantFiles(found) \in Seq(FoundItems)
  BY <1>3, <1>6, FirstsPart DEF RelevantFiles
<1>9. Distinct(RelevantFiles(found)) \in Seq(FoundItems) /\ OwnIds(Distinct(RelevantFiles(found)))
  BY <1>8, ListedItems, DistinctOwnIds
<1>10. QED
  BY <1>1, <1>2, <1>4, <1>5, <1>7, <1>9

\* The conversation and the turn are counted from 1, and hold what they may.
Counted(s) == \A i \in DOMAIN s : s[i].id = i

Recorded ==
    /\ conversation \in Seq(MessageItems) /\ Counted(conversation)
    /\ toolHistory \in Seq(Entries) /\ Counted(toolHistory)
    /\ scratchpad \in Seq(ScratchItems) /\ Counted(scratchpad)

LEMMA CountedOwnIds == \A s : Counted(s) => OwnIds(s)
  BY DEF Counted, OwnIds

\* The order of a selection: what is required first, then each section, with
\* nothing in it twice.
LEMMA RankedIsRanking ==
  ASSUME Recorded, embedded \in BOOLEAN, NEW found \in Retrievals
  PROVE  LET facts == Facts(Window)
             ranked == Ranked(facts, found)
         IN  /\ Ranking(ranked, Sections, facts)
             /\ \E a : /\ Leads(a, ranked)
                       /\ Len(a) = Len(Required) + Len(facts)
                       /\ Tokens(a) = Tokens(Required) + Tokens(facts)
<1> DEFINE facts == Facts(Window)
           r1 == Sources("required", Required, TRUE)
           r2 == Sources("fact", facts, TRUE)
           v1 == Sources("verification", LatestReports(found), FALSE)
           v2 == Sources("failure", PriorFailures(found), FALSE)
           v3 == Sources("memory", MemoryEntries(found), FALSE)
           v4 == Sources("relevant-file", Distinct(RelevantFiles(found)), FALSE)
           v5 == Sources("tree", found.tree, FALSE)
           older == HistoryCandidates(Window, facts)
           h1 == Reverse(Sources("tool", toolHistory, FALSE))
           h2 == Reverse(Sources("message", older, FALSE))
           h3 == Reverse(LastOf(Sources("scratchpad", scratchpad, FALSE), ScratchWindow))
<1>1. Window \in Seq(MessageItems) /\ OwnIds(Window) /\ facts \in Seq(MessageItems)
  <2>1. HistoryLimit \in Nat /\ conversation \in Seq(MessageItems) /\ OwnIds(conversation)
    BY ContextAssumption, CountedOwnIds DEF Recorded
  <2>2. Window \in Seq(MessageItems) /\ IsPart(Window, conversation)
    BY <2>1, LastsPart DEF Window
  <2>3. QED
    BY <2>1, <2>2, PartOwnIds, FactsAreMessages
<1>2. older \in Seq(MessageItems) /\ OwnIds(older) /\ \A i \in DOMAIN older : older[i].id \notin Ids(facts)
  <2> DEFINE places == {i \in DOMAIN Window : Window[i].id \notin Ids(facts)}
  <2>1. older = Picked(Window, places)
    BY DEF HistoryCandidates
  <2>2. older \in Seq(MessageItems) /\ IsPart(older, Window)
    BY <1>1, <2>1, PickedIsPart, PickedPart
  <2>3. OwnIds(older)
    BY <1>1, <2>2, PartOwnIds
  <2> HIDE DEF older, places
  <2>4. \A i \in DOMAIN older : \E j \in DOMAIN Window : j \in places /\ older[i] = Window[j]
    BY <1>1, <2>1, PickedIsOf
  <2>5. QED
    BY <2>2, <2>3, <2>4 DEF places
<1>3. Required \in Seq(FoundItems) /\ OwnIds(Required)
  BY ContextAssumption
<1> HIDE DEF facts, older
<1>4. Ranking(r1, {"required"}, facts)
  BY <1>3, ListedItems, RankingOfOne DEF Sections
<1>5. Ranking(r2, {"fact"}, facts)
  BY <1>1, ListedItems, RankingOfOne DEF Sections, Ids
<1>6. /\ Ranking(v1, {"verification"}, facts) /\ Ranking(v2, {"failure"}, facts)
      /\ Ranking(v3, {"memory"}, facts) /\ Ranking(v4, {"relevant-file"}, facts)
      /\ Ranking(v5, {"tree"}, facts)
  <2>1. Ranking(v1, {"verification"}, facts)
    BY RetrievedOnce, ListedItems, RankingOfOne DEF Sections
  <2>2. Ranking(v2, {"failure"}, facts)
    BY RetrievedOnce, ListedItems, RankingOfOne DEF Sections
  <2>3. Ranking(v3, {"memory"}, facts)
    BY RetrievedOnce, ListedItems, RankingOfOne DEF Sections
  <2>4. Ranking(v4, {"relevant-file"}, facts)
    BY RetrievedOnce, ListedItems, RankingOfOne DEF Sections
  <2>5. Ranking(v5, {"tree"}, facts)
    BY RetrievedOnce, ListedItems, RankingOfOne DEF Sections
  <2>6. QED
    BY <2>1, <2>2, <2>3, <2>4, <2>5
<1>7. Ranking(h1, {"tool"}, facts)
  <2> DEFINE t == Sources("tool", toolHistory, FALSE)
  <2>1. /\ toolHistory \in Seq(Entries) /\ \A i \in DOMAIN toolHistory : toolHistory[i].id = i
        /\ OwnIds(toolHistory)
    BY CountedOwnIds DEF Recorded, Counted
  <2>2. Ranking(t, {"tool"}, facts)
    BY <2>1, ListedItems, RankingOfOne DEF Sections
  <2> HIDE DEF t
  <2>3. h1 \in Seq(SourceItems) /\ IsPart(h1, t)
    BY <2>2, ReversedPart DEF Ranking, t
  <2>4. QED
    BY <2>2, <2>3, RankingOfPart
<1>8. Ranking(h2, {"message"}, facts)
  <2> DEFINE t == Sources("message", older, FALSE)
  <2>1. Ranking(t, {"message"}, facts)
    BY <1>2, ListedItems, RankingOfOne DEF Sections
  <2> HIDE DEF t
  <2>2. h2 \in Seq(SourceItems) /\ IsPart(h2, t)
    BY <2>1, ReversedPart DEF Ranking, t
  <2>3. QED
    BY <2>1, <2>2, RankingOfPart
<1>9. Ranking(h3, {"scratchpad"}, facts)
  <2> DEFINE t == Sources("scratchpad", scratchpad, FALSE)
             u == LastOf(t, ScratchWindow)
  <2>1. scratchpad \in Seq(ScratchItems) /\ OwnIds(scratchpad) /\ ScratchWindow \in Nat
    BY ContextAssumption, CountedOwnIds DEF Recorded
  <2>2. Ranking(t, {"scratchpad"}, facts)
    BY <2>1, ListedItems, RankingOfOne DEF Sections
  <2> HIDE DEF t
  <2>3. u \in Seq(SourceItems) /\ IsPart(u, t)
    BY <2>1, <2>2, LastsPart DEF Ranking
  <2>4. Ranking(u, {"scratchpad"}, facts)
    BY <2>2, <2>3, RankingOfPart
  <2> HIDE DEF u
  <2>5. h3 \in Seq(SourceItems) /\ IsPart(h3, u)
    BY <2>3, ReversedPart DEF u, t
  <2>6. QED
    BY <2>4, <2>5, RankingOfPart
<1> DEFINE a == r1 \o r2
           v == (((v1 \o v2) \o v3) \o v4) \o v5
<1>10. a \in Seq(SourceItems) /\ Len(a) = Len(Required) + Len(facts) /\ Tokens(a) = Tokens(Required) + Tokens(facts)
  <2>1. r1 \in Seq(SourceItems) /\ Len(r1) = Len(Required) /\ Tokens(r1) = Tokens(Required)
    BY <1>3, ListedItems, SourcesOf DEF Sections
  <2>2. r2 \in Seq(SourceItems) /\ Len(r2) = Len(facts) /\ Tokens(r2) = Tokens(facts)
    BY <1>1, ListedItems, SourcesOf DEF Sections
  <2> HIDE DEF r1, r2
  <2>3. a \in Seq(SourceItems) /\ Len(a) = Len(r1) + Len(r2)
    BY <2>1, <2>2, Joined
  <2>4. Tokens(a) = Tokens(r1) + Tokens(r2)
    BY <2>1, <2>2, TokensOfBoth, ListedItems
  <2>5. QED
    BY <2>1, <2>2, <2>3, <2>4
<1>11. Ranking(v, {"verification", "failure", "memory", "relevant-file", "tree"}, facts)
  <2> HIDE DEF v1, v2, v3, v4, v5
  <2>1. Ranking(v1 \o v2, {"verification"} \union {"failure"}, facts)
    BY <1>6, RankingOfBoth
  <2>2. Ranking((v1 \o v2) \o v3, {"verification", "failure"} \union {"memory"}, facts)
    <3>1. Ranking(v1 \o v2, {"verification", "failure"}, facts)
      BY <2>1
    <3>2. QED
      BY <1>6, <3>1, RankingOfBoth
  <2>3. Ranking(((v1 \o v2) \o v3) \o v4, {"verification", "failure", "memory"} \union {"relevant-file"}, facts)
    <3>1. Ranking((v1 \o v2) \o v3, {"verification", "failure", "memory"}, facts)
      BY <2>2
    <3>2. QED
      BY <1>6, <3>1, RankingOfBoth
  <2>4. Ranking(v, {"verification", "failure", "memory", "relevant-file"} \union {"tree"}, facts)
    <3>1. Ranking(((v1 \o v2) \o v3) \o v4, {"verification", "failure", "memory", "relevant-file"}, facts)
      BY <2>3
    <3>2. QED
      BY <1>6, <3>1, RankingOfBoth
  <2>5. QED
    BY <2>4
<1>12. Ranking(a, {"required", "fact"}, facts)
  <2>1. Ranking(a, {"required"} \union {"fact"}, facts)
    BY <1>4, <1>5, RankingOfBoth
  <2>2. QED
    BY <2>1
<1>13. Leads(a, a)
  <2> HIDE DEF a
  <2>1. \A i \in DOMAIN a : a[i].required
    BY <1>12 DEF Ranking, Rightly
  <2>2. QED
    BY <1>10, <2>1 DEF Leads
<1>14. Ranked(facts, found) = (((a \o v) \o h1) \o h2) \o h3
  BY DEF Ranked, Relevant, older
<1> HIDE DEF a, v, h1, h2, h3
<1> DEFINE s1 == {"required", "fact", "verification", "failure", "memory", "relevant-file", "tree"}
           s2 == s1 \union {"tool"}
           s3 == s2 \union {"message"}
<1>15. Ranking(a \o v, s1, facts) /\ Leads(a, a \o v)
  <2> DEFINE relevant == {"verification", "failure", "memory", "relevant-file", "tree"}
  <2>1. {"required", "fact"} \cap relevant = {} /\ {"required", "fact"} \union relevant = s1
    OBVIOUS
  <2> HIDE DEF relevant, s1
  <2>2. Ranking(v, relevant, facts)
    BY <1>11 DEF relevant
  <2>3. Ranking(a \o v, {"required", "fact"} \union relevant, facts)
    BY <1>12, <2>1, <2>2, RankingOfBoth
  <2>4. Leads(a, a \o v)
    BY <1>13, <2>1, <2>2, LeadsOn
  <2>5. QED
    BY <2>1, <2>3, <2>4
<1>16. Ranking((a \o v) \o h1, s2, facts) /\ Leads(a, (a \o v) \o h1)
  <2>1. s1 \cap {"tool"} = {} /\ {"tool"} \cap {"required", "fact"} = {}
    OBVIOUS
  <2> HIDE DEF s1
  <2>2. QED
    BY <1>7, <1>15, <2>1, RankingOfBoth, LeadsOn
<1>17. Ranking(((a \o v) \o h1) \o h2, s3, facts) /\ Leads(a, ((a \o v) \o h1) \o h2)
  <2>1. s2 \cap {"message"} = {} /\ {"message"} \cap {"required", "fact"} = {}
    OBVIOUS
  <2> HIDE DEF s2
  <2>2. QED
    BY <1>8, <1>16, <2>1, RankingOfBoth, LeadsOn
<1>18. Ranking((((a \o v) \o h1) \o h2) \o h3, Sections, facts) /\ Leads(a, (((a \o v) \o h1) \o h2) \o h3)
  <2>1. /\ s3 \cap {"scratchpad"} = {} /\ {"scratchpad"} \cap {"required", "fact"} = {}
        /\ s3 \union {"scratchpad"} = Sections
    BY DEF Sections
  <2> HIDE DEF s3
  <2>2. Ranking((((a \o v) \o h1) \o h2) \o h3, s3 \union {"scratchpad"}, facts)
    BY <1>9, <1>17, <2>1, RankingOfBoth
  <2>3. Leads(a, (((a \o v) \o h1) \o h2) \o h3)
    BY <1>9, <1>17, <2>1, LeadsOn
  <2>4. QED
    BY <2>1, <2>2, <2>3
<1>19. QED
  BY <1>10, <1>14, <1>18 DEF facts

-----------------------------------------------------------------------------
(* The meter *)

Meters == [used : Nat, overflow : BOOLEAN, kept : Seq(SourceItems), dropped : Seq(SourceItems)]

\* What offering a source to the meter does.
Takes(m, x, d) ==
    /\ m.used + x.tokens <= limit \/ x.required
    /\ d.kept = Append(m.kept, x) /\ d.used = m.used + x.tokens
    /\ d.overflow <=> m.overflow \/ d.used > limit

Passes(m, x, d) ==
    /\ ~x.required /\ m.used + x.tokens > limit
    /\ d.kept = m.kept /\ d.used = m.used /\ d.overflow = m.overflow

LEMMA ChargeKinds ==
  ASSUME limit \in Nat, NEW m \in Meters, NEW x \in SourceItems
  PROVE  /\ Charge(m, x) \in Meters
         /\ Takes(m, x, Charge(m, x)) \/ Passes(m, x, Charge(m, x))
<1>1. /\ x.tokens \in Nat /\ x.required \in BOOLEAN /\ m.used \in Nat /\ m.overflow \in BOOLEAN
      /\ m.kept \in Seq(SourceItems) /\ m.dropped \in Seq(SourceItems)
  BY DEF SourceItems, Meters
<1>2. Append(m.kept, x) \in Seq(SourceItems) /\ Append(m.dropped, x) \in Seq(SourceItems)
  BY <1>1
<1>3. m = [used |-> m.used, overflow |-> m.overflow, kept |-> m.kept, dropped |-> m.dropped]
  BY DEF Meters
<1> DEFINE used == m.used + x.tokens
           kept == Append(m.kept, x)
           dropped == Append(m.dropped, x)
           over == m.overflow \/ used > limit
<1>4. used \in Nat /\ over \in BOOLEAN
  BY <1>1
<1>5. CASE used <= limit \/ x.required
  <2>1. Charge(m, x) = [used |-> used, overflow |-> over, kept |-> kept, dropped |-> m.dropped]
    BY <1>3, <1>5 DEF Charge
  <2> DEFINE d == [used |-> used, overflow |-> over, kept |-> kept, dropped |-> m.dropped]
  <2>2. d.used = used /\ d.overflow = over /\ d.kept = kept
    OBVIOUS
  <2> HIDE DEF kept, used, over
  <2>3. d \in Meters
    BY <1>1, <1>2, <1>4 DEF Meters, kept
  <2> HIDE DEF d
  <2>4. QED
    BY <1>5, <2>1, <2>2, <2>3 DEF Takes, kept, used, over, d
<1>6. CASE ~(used <= limit \/ x.required)
  <2>1. Charge(m, x) = [used |-> m.used, overflow |-> m.overflow, kept |-> m.kept, dropped |-> dropped]
    BY <1>3, <1>6 DEF Charge
  <2> DEFINE d == [used |-> m.used, overflow |-> m.overflow, kept |-> m.kept, dropped |-> dropped]
  <2>2. d.used = m.used /\ d.overflow = m.overflow /\ d.kept = m.kept
    OBVIOUS
  <2> HIDE DEF dropped
  <2>3. d \in Meters
    BY <1>1, <1>2 DEF Meters, dropped
  <2> HIDE DEF d
  <2>4. used > limit
    BY <1>4, <1>6
  <2>5. QED
    BY <1>1, <1>6, <2>1, <2>2, <2>3, <2>4 DEF Passes, d
<1>7. QED
  BY <1>5, <1>6

\* The meter is what offering the sources to it, one after the other, leaves.
Charging(f, ranked) ==
    /\ Charged(ranked) = f[Len(ranked)]
    /\ f[0] = EmptyMeter
    /\ \A n \in 1 .. Len(ranked) : f[n] = Charge(f[n - 1], ranked[n])

LEMMA ChargedGrows ==
  ASSUME limit \in Nat, NEW ranked \in Seq(SourceItems)
  PROVE  \E f \in [0 .. Len(ranked) -> Meters] : Charging(f, ranked)
<1> DEFINE len == Len(ranked)
           step == [n \in 1 .. len |-> [m \in Meters |-> Charge(m, ranked[n])]]
           Rule(f) == [n \in 0 .. len |-> IF n = 0 THEN EmptyMeter ELSE Charge(f[n - 1], ranked[n])]
           charged == CHOOSE f : f = Rule(f)
<1>1. len \in Nat /\ \A n \in 1 .. len : ranked[n] \in SourceItems
  OBVIOUS
<1>2. step \in [1 .. len -> [Meters -> Meters]]
  BY <1>1, ChargeKinds
<1>3. PICK f \in [0 .. len -> Meters] :
        f[0] = EmptyMeter /\ \A n \in 1 .. len : f[n] = step[n][f[n - 1]]
  <2> DEFINE A == Meters
             base == EmptyMeter
  <2>1. base \in A /\ step \in [1 .. len -> [A -> A]]
    BY <1>2 DEF EmptyMeter, Meters
  <2>2. len \in Nat
    BY <1>1
  <2> HIDE DEF step, len, A, base
  <2>3. \E f \in [0 .. len -> A] :
            f[0] = base /\ \A n \in 1 .. len : f[n] = step[n][f[n - 1]]
    BY <2>1, <2>2, Folding
  <2>4. QED
    BY <2>3 DEF A, base
<1>4. \A n \in 1 .. len : f[n] = Charge(f[n - 1], ranked[n])
  <2> SUFFICES ASSUME NEW n \in 1 .. len PROVE f[n] = Charge(f[n - 1], ranked[n])
    OBVIOUS
  <2>1. f[n - 1] \in Meters
    <3>1. n - 1 \in 0 .. len
      BY <1>1
    <3>2. QED
      BY <1>3, <3>1
  <2>2. QED
    BY <1>3, <2>1
<1>5. f = Rule(f)
  <2>1. DOMAIN f = DOMAIN Rule(f)
    OBVIOUS
  <2>2. ASSUME NEW n \in 0 .. len
        PROVE  f[n] = Rule(f)[n]
    <3>1. CASE n = 0
      BY <3>1, <1>3
    <3>2. CASE n # 0
      <4>1. n \in 1 .. len
        BY <3>2, <1>1
      <4>2. f[n] = Charge(f[n - 1], ranked[n])
        BY <1>4, <4>1
      <4>3. QED
        BY <3>2, <4>2
    <3>3. QED
      BY <3>1, <3>2
  <2>3. QED
    BY <2>1, <2>2
<1>6. charged = Rule(charged)
  <2> HIDE DEF Rule
  <2>1. QED
    BY <1>5
<1>7. Charged(ranked) = charged[len]
  BY DEF Charged
<1> HIDE DEF charged
<1>8. charged[0] = EmptyMeter
  BY <1>1, <1>6
<1>9. ASSUME NEW n \in 1 .. len
      PROVE  charged[n] = Charge(charged[n - 1], ranked[n])
  <2>1. n \in 0 .. len /\ n # 0
    BY <1>1
  <2>2. charged[n] = Rule(charged)[n]
    BY <1>6
  <2>3. QED
    BY <2>1, <2>2
<1> DEFINE good == {n \in Nat : n <= len => charged[n] \in Meters}
<1>10. 0 \in good
  <2>1. charged[0] \in Meters
    BY <1>8 DEF EmptyMeter, Meters
  <2>2. QED
    BY <2>1
<1>11. ASSUME NEW n \in Nat, n \in good
       PROVE  n + 1 \in good
  <2> SUFFICES ASSUME n + 1 <= len
               PROVE  charged[n + 1] \in Meters
    OBVIOUS
  <2>1. charged[n] \in Meters /\ n + 1 \in 1 .. len /\ (n + 1) - 1 = n
    BY <1>1, <1>11
  <2>2. charged[n + 1] = Charge(charged[n], ranked[n + 1])
    BY <1>9, <2>1
  <2>3. QED
    BY <1>1, <2>1, <2>2, ChargeKinds
<1>12. \A n \in 0 .. len : charged[n] \in Meters
  <2> HIDE DEF good
  <2>1. good \subseteq Nat
    BY DEF good
  <2>2. good = Nat
    BY <1>10, <1>11, <2>1, FromZero
  <2>3. QED
    BY <1>1, <2>2 DEF good
<1>13. charged \in [0 .. len -> Meters]
  <2>1. charged = [n \in 0 .. len |-> charged[n]]
    BY <1>6
  <2>2. QED
    BY <1>12, <2>1
<1>14. Charging(charged, ranked)
  BY <1>7, <1>8, <1>9 DEF Charging
<1>15. QED
  BY <1>13, <1>14

\* After the first n of the list: what was taken are parts of it, its tokens are
\* what is used, and what is required of the n was taken first.
Metered(m, ranked, n) ==
    /\ Tokens(m.kept) = m.used
    /\ \E at \in [1 .. Len(m.kept) -> 1 .. n] :
           /\ \A i \in 1 .. Len(m.kept) : m.kept[i] = ranked[at[i]]
           /\ \A i, j \in 1 .. Len(m.kept) : at[i] = at[j] => i = j

LEMMA MeteredGrows ==
  ASSUME NEW ranked \in Seq(SourceItems), NEW n \in Nat, n + 1 <= Len(ranked),
         NEW m \in Meters, NEW d \in Meters, Metered(m, ranked, n),
         Takes(m, ranked[n + 1], d) \/ Passes(m, ranked[n + 1], d)
  PROVE  Metered(d, ranked, n + 1)
<1> DEFINE x == ranked[n + 1]
           k == Len(m.kept)
<1>1. m.kept \in Seq(SourceItems) /\ k \in Nat /\ x \in SourceItems /\ m.used \in Nat
  BY DEF Meters
<1>2. PICK at \in [1 .. k -> 1 .. n] :
           /\ \A i \in 1 .. k : m.kept[i] = ranked[at[i]]
           /\ \A i, j \in 1 .. k : at[i] = at[j] => i = j
  BY DEF Metered
<1>3. CASE Takes(m, x, d)
  <2>1. Tokens(d.kept) = d.used
    BY <1>1, <1>3, TokensOfMore, ListedItems DEF Takes, Metered
  <2>2. /\ Len(d.kept) = k + 1 /\ d.kept[k + 1] = x
        /\ \A i \in 1 .. k : d.kept[i] = m.kept[i]
    <3>1. d.kept = Append(m.kept, x)
      BY <1>3 DEF Takes
    <3> HIDE DEF x
    <3>2. QED
      BY <1>1, <3>1
  <2> DEFINE to == [i \in 1 .. k + 1 |-> IF i <= k THEN at[i] ELSE n + 1]
  <2>3. to \in [1 .. k + 1 -> 1 .. n + 1]
    BY <1>1, <1>2
  <2>4. ASSUME NEW i \in 1 .. k + 1
        PROVE  d.kept[i] = ranked[to[i]]
    BY <1>1, <1>2, <2>2
  <2>5. ASSUME NEW i \in 1 .. k + 1, NEW j \in 1 .. k + 1, to[i] = to[j]
        PROVE  i = j
    <3>1. ASSUME NEW p \in 1 .. k
          PROVE  to[p] = at[p] /\ to[p] \in 1 .. n /\ to[p] # n + 1
      <4>1. to[p] = at[p]
        BY <1>1
      <4>2. at[p] \in 1 .. n
        BY <1>2
      <4>3. QED
        BY <4>1, <4>2
    <3>2. to[k + 1] = n + 1
      BY <1>1
    <3>3. (i \in 1 .. k \/ i = k + 1) /\ (j \in 1 .. k \/ j = k + 1)
      BY <1>1, SMTT(30)
    <3> HIDE DEF to
    <3>4. QED
      BY <1>2, <2>5, <3>1, <3>2, <3>3
  <2> HIDE DEF to, x, k
  <2>6. to \in [1 .. Len(d.kept) -> 1 .. n + 1]
    BY <2>2, <2>3
  <2>7. \A i \in 1 .. Len(d.kept) : d.kept[i] = ranked[to[i]]
    BY <2>2, <2>4
  <2>8. \A i, j \in 1 .. Len(d.kept) : to[i] = to[j] => i = j
    BY <2>2, <2>5
  <2>9. QED
    BY <2>1, <2>6, <2>7, <2>8 DEF Metered
<1>4. CASE Passes(m, x, d)
  <2>1. d.kept = m.kept /\ d.used = m.used
    BY <1>4 DEF Passes
  <2>2. at \in [1 .. k -> 1 .. n + 1]
    BY <1>2
  <2>3. QED
    BY <1>2, <2>1, <2>2 DEF Metered
<1>5. QED
  BY <1>3, <1>4

\* Where a is what is required: what of it came among the first n was taken
\* first, and the limit is overrun by it or kept.
Paid(m, f, a, n) ==
    LET c == IF n <= Len(a) THEN n ELSE Len(a)
    IN  /\ Len(m.kept) >= c
        /\ \A i \in 1 .. Len(m.kept) : m.kept[i].required <=> i <= c
        /\ m.overflow <=> f[c] > limit
        /\ n <= Len(a) => Len(m.kept) = n /\ m.used = f[n]
        /\ m.overflow => m.used = f[c]
        /\ ~m.overflow => m.used <= limit

LEMMA PaidGrows ==
  ASSUME limit \in Nat, NEW a, NEW ranked, Leads(a, ranked),
         NEW f \in [0 .. Len(ranked) -> Nat],
         \A i \in 1 .. Len(ranked) : f[i] = f[i - 1] + ranked[i].tokens,
         NEW n \in Nat, n + 1 <= Len(ranked),
         NEW m \in Meters, NEW d \in Meters, Paid(m, f, a, n),
         Takes(m, ranked[n + 1], d) \/ Passes(m, ranked[n + 1], d)
  PROVE  Paid(d, f, a, n + 1)
<1> DEFINE x == ranked[n + 1]
           k == Len(m.kept)
<1>1. /\ ranked \in Seq(SourceItems) /\ a \in Seq(SourceItems) /\ Len(a) \in Nat
      /\ Len(ranked) \in Nat /\ Len(a) <= Len(ranked)
  BY DEF Leads
<1>2. n + 1 \in DOMAIN ranked /\ n + 1 \in 1 .. Len(ranked) /\ (n + 1) - 1 = n
  BY <1>1
<1>3. /\ m.kept \in Seq(SourceItems) /\ k \in Nat /\ x \in SourceItems /\ m.used \in Nat
      /\ x.tokens \in Nat /\ m.overflow \in BOOLEAN /\ d.overflow \in BOOLEAN /\ d.used \in Nat
  <2>1. x \in SourceItems
    BY <1>1, <1>2
  <2>2. x.tokens \in Nat
    BY <2>1 DEF SourceItems
  <2>3. /\ m.kept \in Seq(SourceItems) /\ m.used \in Nat /\ m.overflow \in BOOLEAN
        /\ d.overflow \in BOOLEAN /\ d.used \in Nat
    BY DEF Meters
  <2>4. k \in Nat
    BY <2>3
  <2>5. QED
    BY <2>1, <2>2, <2>3, <2>4
<1>4. f[n + 1] = f[n] + x.tokens /\ f[n] \in Nat /\ f[Len(a)] \in Nat /\ f[n + 1] \in Nat
  BY <1>1, <1>2
<1>5. x.required <=> n + 1 <= Len(a)
  BY <1>1, <1>2 DEF Leads
<1>6. ASSUME d.kept = Append(m.kept, x)
      PROVE  /\ Len(d.kept) = k + 1 /\ d.kept[k + 1] = x
             /\ \A i \in 1 .. k : d.kept[i] = m.kept[i]
  <2> HIDE DEF x
  <2>1. QED
    BY <1>3, <1>6
<1>7. CASE n + 1 <= Len(a)
  <2>1. d.kept = Append(m.kept, x) /\ d.used = m.used + x.tokens /\ (d.overflow <=> m.overflow \/ d.used > limit)
    BY <1>5, <1>7 DEF Takes, Passes
  <2>2. n <= Len(a) /\ k = n /\ m.used = f[n] /\ (m.overflow <=> f[n] > limit)
        /\ \A i \in 1 .. k : m.kept[i].required
    BY <1>1, <1>3, <1>7 DEF Paid
  <2>3. \A i \in 1 .. k + 1 : d.kept[i].required
    <3>1. \A i \in 1 .. k + 1 : i \in 1 .. k \/ i = k + 1
      BY <1>3
    <3>2. QED
      BY <1>5, <1>6, <1>7, <2>1, <2>2, <3>1
  <2>4. d.used = f[n + 1] /\ (d.overflow <=> f[n + 1] > limit) /\ Len(d.kept) = n + 1
    BY <1>3, <1>4, <1>6, <2>1, <2>2
  <2>5. /\ Len(d.kept) >= n + 1
        /\ \A i \in 1 .. Len(d.kept) : d.kept[i].required <=> i <= n + 1
        /\ d.overflow => d.used = f[n + 1]
        /\ ~d.overflow => d.used <= limit
    <3>1. Len(d.kept) >= n + 1
      BY <2>4
    <3>2. \A i \in 1 .. Len(d.kept) : d.kept[i].required <=> i <= n + 1
      BY <2>2, <2>3, <2>4
    <3>3. ~d.overflow => d.used <= limit
      BY <1>3, <1>4, <2>4
    <3>4. QED
      BY <2>4, <3>1, <3>2, <3>3
  <2>6. QED
    BY <1>7, <2>4, <2>5 DEF Paid
<1>8. CASE ~(n + 1 <= Len(a))
  <2>1. /\ k >= Len(a) /\ \A i \in 1 .. k : m.kept[i].required <=> i <= Len(a)
        /\ m.overflow <=> f[Len(a)] > limit
        /\ m.overflow => m.used = f[Len(a)]
        /\ ~m.overflow => m.used <= limit
    <3>1. n <= Len(a) => n = Len(a)
      BY <1>1, <1>8
    <3>2. (IF n <= Len(a) THEN n ELSE Len(a)) = Len(a)
      BY <3>1
    <3>3. QED
      BY <3>2 DEF Paid
  <2>2. SUFFICES /\ Len(d.kept) >= Len(a)
                 /\ \A i \in 1 .. Len(d.kept) : d.kept[i].required <=> i <= Len(a)
                 /\ d.overflow <=> f[Len(a)] > limit
                 /\ d.overflow => d.used = f[Len(a)]
                 /\ ~d.overflow => d.used <= limit
    BY <1>8 DEF Paid
  <2>3. CASE Takes(m, x, d)
    <3>1. d.kept = Append(m.kept, x) /\ d.used = m.used + x.tokens /\ d.used <= limit
          /\ (d.overflow <=> m.overflow \/ d.used > limit)
      BY <1>5, <1>8, <2>3 DEF Takes
    <3>2. ~m.overflow
      <4>1. SUFFICES ASSUME m.overflow PROVE FALSE
        OBVIOUS
      <4>2. m.used = f[Len(a)] /\ f[Len(a)] > limit
        BY <2>1, <4>1
      <4> DEFINE p == f[Len(a)]
      <4>3. p \in Nat /\ p + x.tokens <= limit /\ p > limit
        BY <1>4, <3>1, <4>2
      <4> HIDE DEF p, x
      <4>4. QED
        BY <1>3, <4>3
    <3>3. \A i \in 1 .. k + 1 : d.kept[i].required <=> i <= Len(a)
      <4>1. \A i \in 1 .. k + 1 : i \in 1 .. k \/ i = k + 1
        BY <1>3
      <4>2. ~(k + 1 <= Len(a)) /\ ~x.required
        BY <1>1, <1>3, <1>5, <1>8, <2>1
      <4>3. QED
        BY <1>6, <2>1, <3>1, <4>1, <4>2
    <3>4. ~d.overflow
      <4>1. ~(d.used > limit)
        BY <1>3, <3>1
      <4>2. QED
        BY <3>1, <3>2, <4>1
    <3>5. Len(d.kept) = k + 1 /\ k + 1 >= Len(a)
      BY <1>1, <1>3, <1>6, <2>1, <3>1
    <3>6. QED
      BY <2>1, <3>1, <3>2, <3>3, <3>4, <3>5
  <2>4. CASE Passes(m, x, d)
    BY <2>1, <2>4 DEF Passes
  <2>5. QED
    BY <2>3, <2>4
<1>9. QED
  BY <1>7, <1>8

\* One entry more of a history is chosen, at its cost.
LEMMA ChosenCosts ==
  ASSUME NEW h \in Seq(Entries), Counted(h), NEW ids, NEW k \in DOMAIN h, k \notin ids
  PROVE  Tokens(Chosen(h, ids \union {k})) = Tokens(Chosen(h, ids)) + h[k].tokens
<1> DEFINE p == {i \in DOMAIN h : h[i].id \in ids}
           q == {i \in DOMAIN h : h[i].id \in ids \union {k}}
           len == Len(h)
<1>1. PICK f \in [0 .. len -> Seq(Entries)] : Gathering(f, h, p)
  BY PickedGrows
<1>2. PICK g \in [0 .. len -> Seq(Entries)] : Gathering(g, h, q)
  BY PickedGrows
<1>3. \A i \in 1 .. len : /\ i \in p <=> i \in ids
                          /\ i \in q <=> i \in ids \/ i = k
  BY DEF Counted
<1>4. len \in Nat /\ k \in 1 .. len /\ h[k].tokens \in Nat /\ \A n \in 1 .. len : h[n] \in Entries /\ h[n].tokens \in Nat
  BY EntriesPriced DEF Priced
<1> HIDE DEF p, q
<1> DEFINE extra(n) == IF k <= n THEN h[k].tokens ELSE 0
           good == {n \in Nat : n <= len => Tokens(g[n]) = Tokens(f[n]) + extra(n)}
<1>5. 0 \in good
  <2>1. f[0] = <<>> /\ g[0] = <<>> /\ extra(0) = 0
    BY <1>1, <1>2, <1>4 DEF Gathering
  <2> HIDE DEF extra
  <2>2. QED
    BY <2>1, TokensOfNone
<1>6. ASSUME NEW n \in Nat, n \in good
      PROVE  n + 1 \in good
  <2> SUFFICES ASSUME n + 1 <= len
               PROVE  Tokens(g[n + 1]) = Tokens(f[n + 1]) + extra(n + 1)
    <3> HIDE DEF extra
    <3> QED
      OBVIOUS
  <2> DEFINE x == h[n + 1]
  <2>1. Tokens(g[n]) = Tokens(f[n]) + extra(n) /\ n + 1 \in 1 .. len /\ (n + 1) - 1 = n /\ n \in 0 .. len
    BY <1>4, <1>6
  <2>2. f[n] \in Seq(Entries) /\ g[n] \in Seq(Entries) /\ x \in Entries /\ x.tokens \in Nat
    BY <1>1, <1>2, <1>4, <2>1
  <2>3. Tokens(f[n]) \in Nat /\ Tokens(g[n]) \in Nat
    BY <2>2, EntriesPriced, TokensType
  <2>4. /\ Tokens(Append(f[n], x)) = Tokens(f[n]) + x.tokens
        /\ Tokens(Append(g[n], x)) = Tokens(g[n]) + x.tokens
    BY <2>2, EntriesPriced, TokensOfMore
  <2>5. /\ f[n + 1] = IF n + 1 \in p THEN Append(f[n], x) ELSE f[n]
        /\ g[n + 1] = IF n + 1 \in q THEN Append(g[n], x) ELSE g[n]
    BY <1>1, <1>2, <2>1 DEF Gathering
  <2>6. CASE n + 1 = k
    <3>1. extra(n) = 0 /\ extra(n + 1) = x.tokens /\ n + 1 \notin p /\ n + 1 \in q
      BY <1>3, <1>4, <2>1, <2>6
    <3> HIDE DEF extra, x
    <3>2. QED
      BY <2>1, <2>2, <2>3, <2>4, <2>5, <3>1
  <2>7. CASE n + 1 # k
    <3>1. extra(n) = extra(n + 1) /\ extra(n) \in Nat /\ (n + 1 \in p <=> n + 1 \in q)
      <4>1. n + 1 \in p <=> n + 1 \in q
        BY <1>3, <2>1, <2>7
      <4>2. k <= n <=> k <= n + 1
        BY <1>4, <2>7
      <4>3. extra(n) = extra(n + 1)
        BY <4>2
      <4>4. extra(n) \in Nat
        BY <1>4
      <4>5. QED
        BY <4>1, <4>3, <4>4
    <3> HIDE DEF extra, x
    <3>2. QED
      BY <2>1, <2>2, <2>3, <2>4, <2>5, <3>1
  <2>8. QED
    BY <2>6, <2>7
<1>7. Tokens(g[len]) = Tokens(f[len]) + extra(len)
  <2> HIDE DEF good
  <2>1. good \subseteq Nat
    BY DEF good
  <2>2. len \in good
    BY <1>4, <1>5, <1>6, <2>1, FromZero
  <2> HIDE DEF extra
  <2>3. QED
    BY <1>4, <2>2 DEF good
<1>8. extra(len) = h[k].tokens
  BY <1>4
<1> HIDE DEF extra
<1>9. Chosen(h, ids) = f[len] /\ Chosen(h, ids \union {k}) = g[len]
  BY <1>1, <1>2 DEF Chosen, Gathering, p, q
<1>10. QED
  BY <1>7, <1>8, <1>9

\* What is rendered of the kept sources, and of the tool history for them.
ShownPlaces(s) ==
    {i \in DOMAIN s : s[i].section \notin {"verification", "failure", "tool", "scratchpad"}}
ToolIds(s) == Ids(OfSection(s, "tool"))
Costs(s) == Tokens(Picked(s, ShownPlaces(s))) + Tokens(Chosen(toolHistory, ToolIds(s)))

LEMMA OneMoreShown ==
  ASSUME NEW s \in Seq(SourceItems), NEW x \in SourceItems
  PROVE  /\ x.section \in {"verification", "failure", "tool", "scratchpad"} =>
                Picked(Append(s, x), ShownPlaces(Append(s, x))) = Picked(s, ShownPlaces(s))
         /\ x.section \notin {"verification", "failure", "tool", "scratchpad"} =>
                Picked(Append(s, x), ShownPlaces(Append(s, x))) = Append(Picked(s, ShownPlaces(s)), x)
         /\ x.section # "tool" => ToolIds(Append(s, x)) = ToolIds(s)
         /\ x.section = "tool" => ToolIds(Append(s, x)) = ToolIds(s) \union {x.id}
<1> DEFINE t == Append(s, x)
           p == {i \in DOMAIN s : s[i].section = "tool"}
           q == {i \in DOMAIN t : t[i].section = "tool"}
<1>1. /\ t \in Seq(SourceItems) /\ Len(s) \in Nat /\ Len(t) = Len(s) + 1 /\ t[Len(s) + 1] = x
      /\ \A i \in 1 .. Len(s) : t[i] = s[i]
      /\ DOMAIN s = 1 .. Len(s) /\ DOMAIN t = 1 .. Len(s) + 1
      /\ Len(s) + 1 \in DOMAIN t /\ \A i \in 1 .. Len(s) : i \in DOMAIN s /\ i \in DOMAIN t
  OBVIOUS
<1> HIDE DEF t
<1>2. \A i \in 1 .. Len(s) : i \in ShownPlaces(s) <=> i \in ShownPlaces(t)
  BY <1>1 DEF ShownPlaces
<1>3. \A i \in 1 .. Len(s) : i \in p <=> i \in q
  BY <1>1
<1>4. Len(s) + 1 \in ShownPlaces(t) <=> x.section \notin {"verification", "failure", "tool", "scratchpad"}
  BY <1>1 DEF ShownPlaces
<1>5. Len(s) + 1 \in q <=> x.section = "tool"
  BY <1>1
<1> HIDE DEF p, q
<1>6. Picked(t, ShownPlaces(t)) =
        IF Len(s) + 1 \in ShownPlaces(t) THEN Append(Picked(s, ShownPlaces(s)), x) ELSE Picked(s, ShownPlaces(s))
  BY <1>2, PickedFromMore DEF t
<1>7. Picked(t, q) = IF Len(s) + 1 \in q THEN Append(Picked(s, p), x) ELSE Picked(s, p)
  BY <1>3, PickedFromMore DEF t
<1>8. ToolIds(t) = Ids(Picked(t, q)) /\ ToolIds(s) = Ids(Picked(s, p))
  BY DEF ToolIds, OfSection, p, q
<1>9. Ids(Append(Picked(s, p), x)) = Ids(Picked(s, p)) \union {x.id}
  <2> DEFINE c == Picked(s, p)
             d == Append(c, x)
  <2>1. c \in Seq(SourceItems)
    BY PickedIsPart
  <2> HIDE DEF c
  <2>2. /\ DOMAIN d = DOMAIN c \union {Len(c) + 1} /\ d[Len(c) + 1] = x
        /\ \A i \in DOMAIN c : d[i] = c[i]
    BY <2>1
  <2> HIDE DEF d
  <2>3. QED
    BY <2>2 DEF Ids, c, d
<1>10. QED
  BY <1>4, <1>5, <1>6, <1>7, <1>8, <1>9 DEF t

\* The kept sources of one list cost what is used, or more is used than they cost.
LEMMA CostsGrow ==
  ASSUME Recorded, NEW ranked, NEW facts, Ranking(ranked, Sections, facts), NEW n \in Nat, n + 1 <= Len(ranked),
         NEW m \in Meters, NEW d \in Meters, Metered(m, ranked, n), Costs(m.kept) <= m.used,
         Takes(m, ranked[n + 1], d) \/ Passes(m, ranked[n + 1], d)
  PROVE  Costs(d.kept) <= d.used
<1> DEFINE x == ranked[n + 1]
           s == m.kept
           shown == Picked(s, ShownPlaces(s))
           tools == Chosen(toolHistory, ToolIds(s))
<1>1. /\ ranked \in Seq(SourceItems) /\ n + 1 \in DOMAIN ranked /\ x \in SourceItems
      /\ s \in Seq(SourceItems) /\ m.used \in Nat /\ Rightly(x, facts)
  <2>1. ranked \in Seq(SourceItems)
    BY DEF Ranking
  <2>2. n + 1 \in DOMAIN ranked /\ x \in SourceItems
    BY <2>1
  <2>3. s \in Seq(SourceItems) /\ m.used \in Nat
    BY DEF Meters
  <2>4. QED
    BY <2>1, <2>2, <2>3 DEF Ranking
<1>2. x.tokens \in Nat
  BY <1>1, ListedItems DEF Priced
<1>3. shown \in Seq(SourceItems) /\ tools \in Seq(Entries)
  BY <1>1, PickedIsPart DEF Chosen, Recorded
<1>4. Tokens(shown) \in Nat /\ Tokens(tools) \in Nat
  BY <1>3, EntriesPriced, ListedItems, TokensType
<1>5. Tokens(shown) + Tokens(tools) <= m.used
  BY DEF Costs
<1>6. CASE Passes(m, x, d)
  BY <1>6 DEF Passes
<1>7. CASE Takes(m, x, d)
  <2>1. d.kept = Append(s, x) /\ d.used = m.used + x.tokens
    BY <1>7 DEF Takes
  <2> DEFINE t == Append(s, x)
  <2>2. CASE x.section = "tool"
    <3>1. x.id \in DOMAIN toolHistory /\ x.tokens = toolHistory[x.id].tokens
      BY <1>1, <2>2 DEF Rightly
    <3>2. x.id \notin ToolIds(s)
      <4>1. SUFFICES ASSUME x.id \in ToolIds(s) PROVE FALSE
        OBVIOUS
      <4> DEFINE places == {i \in DOMAIN s : s[i].section = "tool"}
                 c == Picked(s, places)
      <4>2. PICK j \in DOMAIN c : c[j].id = x.id
        BY <4>1 DEF ToolIds, OfSection, Ids
      <4>3. PICK i \in DOMAIN s : i \in places /\ c[j] = s[i]
        <5> HIDE DEF places
        <5>1. QED
          BY <1>1, PickedIsOf
      <4> HIDE DEF c
      <4>4. PICK at \in [1 .. Len(s) -> 1 .. n] : \A p \in 1 .. Len(s) : s[p] = ranked[at[p]]
        BY DEF Metered
      <4>5. i \in 1 .. Len(s) /\ s[i].section = "tool" /\ s[i].id = x.id
        BY <1>1, <4>2, <4>3
      <4> HIDE DEF s, x, places
      <4>6. at[i] \in 1 .. n /\ s[i] = ranked[at[i]]
        BY <4>4, <4>5
      <4>7. at[i] \in DOMAIN ranked /\ at[i] # n + 1
        BY <1>1, <4>6
      <4>8. ranked[at[i]].section = "fact"
        BY <1>1, <2>2, <4>5, <4>6, <4>7 DEF Ranking, x
      <4>9. QED
        BY <4>5, <4>6, <4>8
    <3>3. Picked(t, ShownPlaces(t)) = shown /\ ToolIds(t) = ToolIds(s) \union {x.id}
      BY <1>1, <2>2, OneMoreShown
    <3>4. Tokens(Chosen(toolHistory, ToolIds(t))) = Tokens(tools) + x.tokens
      BY <3>1, <3>2, <3>3, ChosenCosts DEF Recorded
    <3> HIDE DEF x, s, tools, shown
    <3>5. Costs(t) = Tokens(shown) + (Tokens(tools) + x.tokens)
      BY <3>3, <3>4 DEF Costs
    <3>6. QED
      BY <1>1, <1>2, <1>4, <1>5, <2>1, <3>5
  <2>3. CASE x.section \in {"verification", "failure", "scratchpad"}
    <3>1. Picked(t, ShownPlaces(t)) = shown /\ ToolIds(t) = ToolIds(s)
      BY <1>1, <2>3, OneMoreShown
    <3> HIDE DEF x, s, shown
    <3>2. Costs(t) = Tokens(shown) + Tokens(tools)
      BY <3>1 DEF Costs
    <3> HIDE DEF tools
    <3>3. QED
      BY <1>1, <1>2, <1>4, <1>5, <2>1, <3>2
  <2>4. CASE x.section \notin {"verification", "failure", "tool", "scratchpad"}
    <3>1. Picked(t, ShownPlaces(t)) = Append(shown, x) /\ ToolIds(t) = ToolIds(s)
      BY <1>1, <2>4, OneMoreShown
    <3>2. Tokens(Append(shown, x)) = Tokens(shown) + x.tokens
      BY <1>1, <1>3, ListedItems, TokensOfMore
    <3> HIDE DEF x, s, shown
    <3>3. Costs(t) = (Tokens(shown) + x.tokens) + Tokens(tools)
      BY <3>1, <3>2 DEF Costs
    <3> HIDE DEF tools
    <3>4. QED
      BY <1>1, <1>2, <1>4, <1>5, <2>1, <3>3
  <2>5. QED
    BY <2>2, <2>3, <2>4
<1>8. QED
  BY <1>6, <1>7

\* The whole list: what was taken is a part of it, all that is required is taken,
\* and what is rendered of it costs no more than was used.
LEMMA ListIsMetered ==
  ASSUME Recorded, limit \in Nat, NEW ranked, NEW facts, Ranking(ranked, Sections, facts),
         NEW a, Leads(a, ranked)
  PROVE  LET m == Charged(ranked)
         IN  /\ m \in Meters
             /\ Tokens(m.kept) = m.used
             /\ IsPart(m.kept, ranked)
             /\ Cardinality({i \in DOMAIN m.kept : m.kept[i].required}) = Len(a)
             /\ m.overflow <=> Tokens(a) > limit
             /\ m.overflow => m.used = Tokens(a)
             /\ ~m.overflow => m.used <= limit
             /\ Costs(m.kept) <= m.used
<1> DEFINE len == Len(ranked)
<1>1. /\ ranked \in Seq(SourceItems) /\ a \in Seq(SourceItems) /\ Len(a) \in Nat
      /\ len \in Nat /\ Len(a) <= len /\ DOMAIN ranked = 1 .. len
      /\ \A i \in 1 .. Len(a) : a[i].tokens = ranked[i].tokens
      /\ \A i \in 1 .. len : ranked[i] \in SourceItems
  BY DEF Leads
<1>2. PICK f \in [0 .. len -> Nat] : Summing(f, a, ranked)
  BY <1>1, ListedItems, TokensOnTheWay
<1>3. PICK meter \in [0 .. len -> Meters] : Charging(meter, ranked)
  BY <1>1, ChargedGrows
<1> DEFINE Good(m, n) == Metered(m, ranked, n) /\ Paid(m, f, a, n) /\ Costs(m.kept) <= m.used
           good == {n \in Nat : n <= len => Good(meter[n], n)}
<1>4. 0 \in good
  <2> DEFINE m == meter[0]
  <2>1. m.kept = <<>> /\ m.used = 0 /\ m.overflow = FALSE /\ f[0] = 0
    BY <1>2, <1>3 DEF Charging, EmptyMeter, Summing
  <2> HIDE DEF m
  <2>2. Metered(m, ranked, 0)
    <3>1. [i \in 1 .. 0 |-> i] \in [1 .. Len(<<>>) -> 1 .. 0] /\ Len(<<>>) = 0
      OBVIOUS
    <3>2. QED
      BY <2>1, <3>1, TokensOfNone DEF Metered
  <2>3. Paid(m, f, a, 0)
    BY <1>1, <2>1 DEF Paid
  <2>4. Costs(m.kept) <= m.used
    <3>1. Len(<<>>) = 0 /\ DOMAIN <<>> = {} /\ <<>> \in Seq(SourceItems)
      OBVIOUS
    <3>2. \A p : Picked(<<>>, p) = <<>>
      <4> SUFFICES ASSUME NEW p PROVE Picked(<<>>, p) = <<>>
        OBVIOUS
      <4>1. Picked(<<>>, p) \in Seq(SourceItems) /\ Len(Picked(<<>>, p)) <= 0
        BY <3>1, PickedIsPart
      <4>2. QED
        BY <4>1
    <3>3. ToolIds(<<>>) = {}
      BY <3>1, <3>2 DEF ToolIds, OfSection, Ids
    <3>4. Chosen(toolHistory, {}) = <<>>
      <4>1. /\ Chosen(toolHistory, {}) \in Seq(Entries)
            /\ \A i \in DOMAIN Chosen(toolHistory, {}) :
                 \E j \in DOMAIN toolHistory : j \in {l \in DOMAIN toolHistory : toolHistory[l].id \in {}}
        BY PickedIsPart, PickedIsOf DEF Chosen, Recorded
      <4>2. DOMAIN Chosen(toolHistory, {}) = {}
        BY <4>1
      <4>3. QED
        BY <4>1, <4>2
    <3>5. QED
      BY <2>1, <3>2, <3>3, <3>4, TokensOfNone DEF Costs
  <2>5. QED
    BY <2>2, <2>3, <2>4 DEF m
<1>5. ASSUME NEW n \in Nat, n \in good
      PROVE  n + 1 \in good
  <2> SUFFICES ASSUME n + 1 <= len PROVE Good(meter[n + 1], n + 1)
    <3> HIDE DEF Good
    <3> QED
      OBVIOUS
  <2> DEFINE m == meter[n]
             d == meter[n + 1]
  <2>1. /\ n + 1 \in 1 .. len /\ (n + 1) - 1 = n /\ n \in 0 .. len /\ n + 1 \in 0 .. len
    BY <1>1
  <2>2. m \in Meters /\ d \in Meters /\ ranked[n + 1] \in SourceItems
    BY <1>1, <1>3, <2>1
  <2>3. d = Charge(m, ranked[n + 1])
    BY <1>3, <2>1 DEF Charging
  <2>4. Takes(m, ranked[n + 1], d) \/ Passes(m, ranked[n + 1], d)
    BY <2>2, <2>3, ChargeKinds
  <2>5. Good(m, n)
    <3> HIDE DEF Good
    <3> QED
      BY <1>5, <2>1
  <2>6. \A i \in 1 .. len : f[i] = f[i - 1] + ranked[i].tokens
    BY <1>2 DEF Summing
  <2> HIDE DEF m, d
  <2>7. Metered(d, ranked, n + 1)
    BY <1>1, <2>2, <2>4, <2>5, MeteredGrows
  <2>8. Paid(d, f, a, n + 1)
    BY <1>2, <2>2, <2>4, <2>5, <2>6, PaidGrows
  <2>9. Costs(d.kept) <= d.used
    BY <2>2, <2>4, <2>5, CostsGrow
  <2>10. QED
    BY <2>7, <2>8, <2>9 DEF d
<1> DEFINE m == Charged(ranked)
<1>6. Good(m, len) /\ m \in Meters
  <2>1. m = meter[len]
    BY <1>3 DEF Charging
  <2> HIDE DEF good
  <2>2. good \subseteq Nat
    BY DEF good
  <2>3. len \in good
    BY <1>1, <1>4, <1>5, <2>2, FromZero
  <2> HIDE DEF Good
  <2>4. QED
    BY <1>1, <1>3, <2>1, <2>3 DEF good
<1> HIDE DEF m
<1>7. /\ Len(m.kept) \in Nat /\ DOMAIN m.kept = 1 .. Len(m.kept)
  BY <1>6 DEF Meters
<1>8. IsPart(m.kept, ranked)
  BY <1>1, <1>6 DEF Metered, IsPart
<1>9. /\ Len(m.kept) >= Len(a)
      /\ \A i \in 1 .. Len(m.kept) : m.kept[i].required <=> i <= Len(a)
      /\ m.overflow <=> Tokens(a) > limit
      /\ m.overflow => m.used = Tokens(a)
      /\ ~m.overflow => m.used <= limit
  <2>1. (IF len <= Len(a) THEN len ELSE Len(a)) = Len(a)
    BY <1>1
  <2>2. Tokens(a) = f[Len(a)]
    BY <1>2 DEF Summing
  <2>3. QED
    BY <1>6, <2>1, <2>2 DEF Paid
<1>10. Cardinality({i \in DOMAIN m.kept : m.kept[i].required}) = Len(a)
  <2>1. {i \in DOMAIN m.kept : m.kept[i].required} = 1 .. Len(a)
    BY <1>1, <1>7, <1>9
  <2> DEFINE k == Len(a)
  <2>2. k \in Nat
    BY <1>1
  <2> HIDE DEF k
  <2>3. 1 \in Int /\ k \in Int
    BY <2>2
  <2>4. Cardinality(1 .. k) = IF 1 > k THEN 0 ELSE k - 1 + 1
    BY <2>3, FS_Interval
  <2>5. Cardinality(1 .. k) = k
    BY <2>2, <2>4
  <2>6. QED
    BY <2>1, <2>5 DEF k
<1>11. QED
  BY <1>6, <1>8, <1>9, <1>10 DEF Metered, m

-----------------------------------------------------------------------------
(* The turn *)

\* The entry has the identities the adapter gives.
Named(e) ==
    /\ e.role = "assistant" => \A i \in DOMAIN e.calls : e.calls[i] = CallId(e.step, i)
    /\ e.role = "tool" => \E place \in Nat : e.call = CallId(e.step, place)

Orderly(entries) ==
    /\ entries \in Seq(Entries)
    /\ \A i \in DOMAIN entries : Named(entries[i])
    /\ Backed(entries)

\* What is kept of an orderly history is orderly, of the history, and costs no
\* more than what was selected of it.
LEMMA KeptIsOrderly ==
  ASSUME NEW meter, Orderly(toolHistory)
  PROVE  /\ Orderly(KeptTools(meter))
         /\ ToSet(KeptTools(meter)) \subseteq ToSet(toolHistory)
         /\ Tokens(KeptTools(meter)) <= Tokens(Chosen(toolHistory, ToolIds(meter.kept)))
<1> DEFINE ids == ToolIds(meter.kept)
           kept == Chosen(toolHistory, ids)
<1>1. /\ kept \in Seq(Entries)
      /\ \A c \in ToSet(kept) : c \in ToSet(toolHistory)
      /\ Len(kept) <= Len(toolHistory)
      /\ Len(kept) = Len(toolHistory) => kept = toolHistory
  <2> DEFINE places == {i \in DOMAIN toolHistory : toolHistory[i].id \in ids}
  <2>1. toolHistory \in Seq(Entries) /\ kept = Picked(toolHistory, places)
    BY DEF Orderly, Chosen
  <2> HIDE DEF kept, places
  <2>2. /\ kept \in Seq(Entries)
        /\ Len(kept) <= Len(toolHistory)
        /\ Len(kept) = Len(toolHistory) => kept = toolHistory
    BY <2>1, PickedIsPart
  <2>3. \A i \in DOMAIN kept : \E j \in DOMAIN toolHistory : kept[i] = toolHistory[j]
    BY <2>1, PickedIsOf
  <2>4. QED
    BY <2>2, <2>3 DEF ToSet
<1> HIDE DEF ids
<1>2. KeptTools(meter) = IF Len(kept) < Len(toolHistory) THEN PruneOrphans(kept) ELSE kept
  BY DEF KeptTools, ids, ToolIds
<1>6. Tokens(kept) \in Nat
  BY <1>1, EntriesPriced, TokensType
<1> HIDE DEF kept
<1>3. CASE Len(kept) < Len(toolHistory)
  <2>1. /\ PruneOrphans(kept) \in Seq(Entries) /\ Backed(PruneOrphans(kept))
        /\ Tokens(PruneOrphans(kept)) <= Tokens(kept)
        /\ \A e \in ToSet(PruneOrphans(kept)) : e \in ToSet(kept)
    BY <1>1, PrunedAreAnswered
  <2> DEFINE pruned == PruneOrphans(kept)
  <2> HIDE DEF pruned
  <2>2. ASSUME NEW i \in DOMAIN pruned
        PROVE  Named(pruned[i])
    <3>1. pruned[i] \in ToSet(toolHistory)
      BY <1>1, <2>1 DEF ToSet, pruned
    <3>2. QED
      BY <3>1 DEF ToSet, Orderly
  <2>3. KeptTools(meter) = pruned
    BY <1>2, <1>3 DEF pruned
  <2>4. \A e \in ToSet(pruned) : e \in ToSet(toolHistory)
    BY <1>1, <2>1 DEF pruned
  <2>5. QED
    BY <2>1, <2>2, <2>3, <2>4 DEF Orderly, pruned, kept, ids
<1>4. CASE ~(Len(kept) < Len(toolHistory))
  <2>1. kept = toolHistory
    <3>1. Len(kept) \in Nat /\ Len(toolHistory) \in Nat
      BY <1>1 DEF Orderly
    <3>2. QED
      BY <1>1, <1>4, <3>1
  <2>2. KeptTools(meter) = kept
    BY <1>2, <1>4
  <2>3. Tokens(kept) <= Tokens(kept)
    BY <1>6
  <2>4. QED
    BY <2>1, <2>2, <2>3 DEF kept, ids
<1>5. QED
  BY <1>3, <1>4

\* A step adds an answer and the results of its calls.
LEMMA StepIsOrderly ==
  ASSUME Orderly(toolHistory), Counted(toolHistory), adapter \in {"openrouter", "ollama"},
         NEW made \in StepKinds
  PROVE  Orderly(toolHistory \o Step(made).history) /\ Counted(toolHistory \o Step(made).history)
<1> DEFINE step == StepsTaken + 1
           n == Len(toolHistory)
           calls == [i \in DOMAIN made.results |-> CallId(step, i)]
           answer == [role |-> "assistant", id |-> n + 1, step |-> step, calls |-> calls,
                      tokens |-> made.tokens]
           result(i) == [role |-> "tool", id |-> n + 1 + i, step |-> step, call |-> calls[i],
                         tokens |-> made.results[i].tokens]
           results == [i \in DOMAIN made.results |-> result(i)]
           whole == toolHistory \o (<<answer>> \o results)
<1>1. Step(made).history = <<answer>> \o results
  BY DEF Step
<1>2. /\ n \in Nat /\ DOMAIN toolHistory = 1 .. n
      /\ \A i \in 1 .. n : toolHistory[i] \in Entries
  BY DEF Orderly
<1>3. step \in Nat
  <2>1. IsFiniteSet({i \in DOMAIN toolHistory : toolHistory[i].role = "assistant"})
    <3>1. IsFiniteSet(1 .. n)
      BY <1>2, FS_Interval
    <3>2. {i \in DOMAIN toolHistory : toolHistory[i].role = "assistant"} \subseteq 1 .. n
      BY <1>2
    <3>3. QED
      BY <3>1, <3>2, FS_Subset
  <2>2. QED
    BY <2>1, FS_CardinalityType DEF StepsTaken
<1>4. /\ made.tokens \in Nat /\ Len(made.results) \in Nat
      /\ DOMAIN made.results = 1 .. Len(made.results)
      /\ \A i \in DOMAIN made.results : made.results[i].tokens \in Nat
  <2> DEFINE Kind == [tokens : Nat, ran : BOOLEAN]
  <2>1. made \in [tokens : Nat, results : Seq(Kind)]
    BY ContextAssumption
  <2>2. \A k \in Kind : k.tokens \in Nat
    OBVIOUS
  <2> HIDE DEF Kind
  <2>3. made.tokens \in Nat /\ made.results \in Seq(Kind)
    BY <2>1
  <2>4. QED
    BY <2>2, <2>3
<1> DEFINE m == Len(made.results)
<1>5. \A i \in Nat : CallId(step, i) \in CallIds
  BY <1>3 DEF CallId, CallIds
<1> HIDE DEF step, m
<1>6. calls \in Seq(CallIds) /\ DOMAIN calls = 1 .. m /\ \A i \in 1 .. m : calls[i] = CallId(step, i)
  BY <1>4, <1>5 DEF m
<1> HIDE DEF calls, n
<1>7. answer \in Entries
  BY <1>2, <1>3, <1>4, <1>6 DEF Entries, AnswerEntries
<1>8. \A i \in 1 .. m : result(i) \in Entries
  <2> SUFFICES ASSUME NEW i \in 1 .. m PROVE result(i) \in ResultEntries
    BY DEF Entries
  <2>1. calls[i] \in CallIds /\ made.results[i].tokens \in Nat /\ n + 1 + i \in Nat
    BY <1>2, <1>4, <1>5, <1>6 DEF m
  <2>2. QED
    BY <1>3, <2>1 DEF ResultEntries
<1>9. results \in Seq(Entries) /\ Len(results) = m /\ m \in Nat
  <2> HIDE DEF result
  <2>1. QED
    BY <1>4, <1>8 DEF m
<1>10. /\ whole \in Seq(Entries) /\ DOMAIN whole = 1 .. n + 1 + m
       /\ \A i \in 1 .. n : whole[i] = toolHistory[i]
       /\ whole[n + 1] = answer
       /\ \A i \in 1 .. m : whole[n + 1 + i] = result(i)
  <2>1. \A i \in 1 .. m : results[i] = result(i)
    BY <1>4 DEF m
  <2>2. toolHistory \in Seq(Entries) /\ Len(toolHistory) = n
    BY DEF Orderly, n
  <2> DEFINE tail == <<answer>> \o results
  <2> HIDE DEF answer, results, result
  <2>3. /\ tail \in Seq(Entries) /\ Len(tail) = m + 1 /\ tail[1] = answer
        /\ \A i \in 1 .. m : tail[i + 1] = results[i]
    BY <1>7, <1>9
  <2> HIDE DEF tail
  <2>4. /\ toolHistory \o tail \in Seq(Entries)
        /\ DOMAIN (toolHistory \o tail) = 1 .. n + (m + 1)
        /\ \A i \in 1 .. n : (toolHistory \o tail)[i] = toolHistory[i]
        /\ \A i \in 1 .. m + 1 : (toolHistory \o tail)[n + i] = tail[i]
    <3>1. toolHistory \in Seq(Entries) /\ tail \in Seq(Entries)
      BY <2>2, <2>3
    <3>2. /\ toolHistory \o tail \in Seq(Entries)
          /\ DOMAIN (toolHistory \o tail) = 1 .. Len(toolHistory) + Len(tail)
          /\ \A i \in 1 .. Len(toolHistory) : (toolHistory \o tail)[i] = toolHistory[i]
          /\ \A i \in 1 .. Len(tail) :
                (toolHistory \o tail)[Len(toolHistory) + i] = tail[i]
      BY <3>1, Joined
    <3>3. Len(toolHistory) = n /\ Len(tail) = m + 1
      BY <2>2, <2>3
    <3>4. QED
      BY <3>2, <3>3
  <2>5. whole = toolHistory \o tail
    BY DEF tail
  <2> HIDE DEF whole
  <2>6. n + (m + 1) = n + 1 + m /\ 1 \in 1 .. m + 1
    BY <1>2, <1>9
  <2>7. ASSUME NEW i \in 1 .. m
        PROVE  whole[n + 1 + i] = result(i)
    <3>1. i + 1 \in 1 .. m + 1 /\ n + (i + 1) = n + 1 + i
      BY <1>2, <1>9
    <3>2. QED
      BY <2>1, <2>3, <2>4, <2>5, <3>1
  <2>8. QED
    BY <2>3, <2>4, <2>5, <2>6, <2>7
<1>11. /\ answer.role = "assistant" /\ answer.calls = calls /\ Named(answer)
        /\ \A i \in 1 .. m : result(i).role = "tool" /\ result(i).call = calls[i] /\ Named(result(i))
  <2>1. Named(answer)
    BY <1>6 DEF Named
  <2>2. ASSUME NEW i \in 1 .. m
        PROVE  Named(result(i))
    <3>1. i \in Nat /\ calls[i] = CallId(step, i)
      BY <1>6, <1>9
    <3>2. result(i).role = "tool" /\ result(i).call = calls[i] /\ result(i).step = step
      OBVIOUS
    <3> HIDE DEF result
    <3>3. QED
      BY <3>1, <3>2 DEF Named
  <2>3. QED
    BY <2>1, <2>2
<1> HIDE DEF whole, results, answer, result
<1>12. \A i \in 1 .. n + 1 + m : i \in 1 .. n \/ i = n + 1 \/ \E p \in 1 .. m : i = n + 1 + p
  <2> SUFFICES ASSUME NEW i \in 1 .. n + 1 + m, i \notin 1 .. n, i # n + 1
               PROVE  \E p \in 1 .. m : i = n + 1 + p
    OBVIOUS
  <2>1. i - (n + 1) \in 1 .. m /\ i = n + 1 + (i - (n + 1))
    BY <1>2, <1>9
  <2>2. QED
    BY <2>1
<1>13. ASSUME NEW i \in DOMAIN whole
       PROVE  Named(whole[i])
  <2>1. CASE i \in 1 .. n
    BY <1>2, <1>10, <2>1 DEF Orderly
  <2>2. CASE i = n + 1
    BY <1>10, <1>11, <2>2
  <2>3. ASSUME NEW p \in 1 .. m, i = n + 1 + p
        PROVE  Named(whole[i])
    BY <1>10, <1>11, <2>3
  <2>4. QED
    BY <1>10, <1>12, <2>1, <2>2, <2>3
<1>14. Backed(whole)
  <2> SUFFICES ASSUME NEW j \in DOMAIN whole, whole[j].role = "tool"
               PROVE  \E i \in 1 .. j - 1 :
                        whole[i].role = "assistant" /\ whole[j].call \in ToSet(whole[i].calls)
    BY DEF Backed
  <2>1. CASE j \in 1 .. n
    <3>1. PICK i \in 1 .. j - 1 : /\ toolHistory[i].role = "assistant"
                                  /\ toolHistory[j].call \in ToSet(toolHistory[i].calls)
      BY <1>2, <1>10, <2>1 DEF Orderly, Backed
    <3>2. i \in 1 .. n
      BY <1>2, <2>1
    <3>3. QED
      BY <1>10, <2>1, <3>1, <3>2
  <2>2. j # n + 1
    BY <1>10, <1>11
  <2>3. ASSUME NEW p \in 1 .. m, j = n + 1 + p
        PROVE  \E i \in 1 .. j - 1 :
                 whole[i].role = "assistant" /\ whole[j].call \in ToSet(whole[i].calls)
    <3>1. n + 1 \in 1 .. j - 1
      BY <1>2, <1>9, <2>3
    <3>2. whole[j].call = calls[p] /\ whole[n + 1].calls = calls
      BY <1>10, <1>11, <2>3
    <3>3. calls[p] \in ToSet(calls)
      BY <1>6 DEF ToSet
    <3>4. whole[n + 1].role = "assistant"
      BY <1>10, <1>11
    <3>5. QED
      BY <3>1, <3>2, <3>3, <3>4
  <2>4. QED
    BY <1>10, <1>12, <2>1, <2>2, <2>3
<1>15. Counted(whole)
  <2> SUFFICES ASSUME NEW i \in DOMAIN whole PROVE whole[i].id = i
    BY DEF Counted
  <2>1. CASE i \in 1 .. n
    BY <1>2, <1>10, <2>1 DEF Counted
  <2>2. answer.id = n + 1 /\ \A p \in 1 .. m : result(p).id = n + 1 + p
    BY DEF answer, result
  <2>3. QED
    BY <1>10, <1>12, <2>1, <2>2
<1>16. QED
  BY <1>1, <1>10, <1>13, <1>14, <1>15 DEF Orderly, whole

-----------------------------------------------------------------------------
(* The turn and its contexts *)

ContextInv ==
    /\ ContextTypeOK
    /\ Recorded
    /\ Orderly(toolHistory)
    /\ context.built => Orderly(context.tools)
    /\ SelectionKept

LEMMA CountedIds ==
  ASSUME NEW S, NEW s \in Seq(S), Counted(s)
  PROVE  Ids(s) = 1 .. Len(s)
  BY DEF Counted, Ids

\* What is built stays what it was as long as nothing it is of changes.
LEMMA SelectionStays ==
  ASSUME limit' = limit, scratchpad' = scratchpad, context' = context, SelectionKept
  PROVE  SelectionKept' /\ (Tokens(context.meter.kept))' = Tokens(context.meter.kept)
<1>1. /\ (Tokens(LastOf(scratchpad, ScratchWindow)))' = Tokens(LastOf(scratchpad, ScratchWindow))
      /\ (Tokens(context.facts))' = Tokens(context.facts)
      /\ (Tokens(context.meter.kept))' = Tokens(context.meter.kept)
  BY DEF LastOf, Tokens
<1>2. (Tokens(Required))' = Tokens(Required)
  BY DEF Tokens
<1> DEFINE last == Tokens(LastOf(scratchpad, ScratchWindow))
           required == Tokens(Required) + Tokens(context.facts)
           Selected(c, need, room, rest) ==
             c.built =>
               /\ Cardinality({i \in DOMAIN c.meter.kept : c.meter.kept[i].required})
                       = Len(Required) + Len(c.facts)
               /\ c.meter.overflow <=> need > room
               /\ c.meter.used <= IF c.meter.overflow THEN need ELSE room
               /\ \A i, j \in DOMAIN c.meter.kept :
                      i # j /\ c.meter.kept[i].id = c.meter.kept[j].id =>
                          /\ {c.meter.kept[i].section, c.meter.kept[j].section} # {"message", "fact"}
                          /\ c.meter.kept[i].section = c.meter.kept[j].section
                               => c.meter.kept[i].section = "fact"
               /\ c.sent <= c.meter.used + rest
<1>3. last' = last /\ required' = required
  BY <1>1, <1>2
<1>4. Selected(context, required, limit, last)
  BY DEF SelectionKept
<1>5. Selected(context', required', limit', last') => SelectionKept'
  BY DEF SelectionKept
<1> HIDE DEF last, required, Selected
<1>6. SelectionKept'
  BY <1>3, <1>4, <1>5
<1>7. QED
  BY <1>1, <1>6

LEMMA ContextBegins == ContextInit => ContextInv
<1> SUFFICES ASSUME ContextInit PROVE ContextInv
  OBVIOUS
<1>1. /\ limit \in Limits /\ adapter \in {"openrouter", "ollama"} /\ embedded \in BOOLEAN
      /\ conversation = <<>> /\ toolHistory = <<>> /\ scratchpad = <<>> /\ ~context.built
  BY DEF ContextInit, NoContext
<1>2. Recorded /\ Orderly(toolHistory)
  BY <1>1 DEF Recorded, Counted, Orderly, Backed
<1>3. Len(<<>>) = 0 /\ Ids(<<>>) = 1 .. 0 /\ 0 <= MaxMessages
  BY ContextAssumption DEF Ids
<1>4. ContextTypeOK /\ SelectionKept
  BY <1>1, <1>3 DEF ContextTypeOK, SelectionKept
<1>5. QED
  BY <1>1, <1>2, <1>4 DEF ContextInv

\* What is selected of a ranking holds nothing twice but a fact.
LEMMA SelectedOnce ==
  ASSUME NEW s, NEW facts, Ranking(s, Sections, facts), NEW i \in DOMAIN s, NEW j \in DOMAIN s,
         i # j, s[i].id = s[j].id
  PROVE  /\ {s[i].section, s[j].section} # {"message", "fact"}
         /\ s[i].section = s[j].section => s[i].section = "fact"
<1>1. Rightly(s[i], facts) /\ Rightly(s[j], facts)
  BY DEF Ranking
<1>2. ASSUME {s[i].section, s[j].section} = {"message", "fact"}
      PROVE  FALSE
  <2>1. (s[i].section = "message" /\ s[j].section = "fact") \/ (s[i].section = "fact" /\ s[j].section = "message")
    BY <1>2
  <2>2. QED
    BY <1>1, <2>1 DEF Rightly
<1>3. QED
  BY <1>2 DEF Ranking

\* What is rendered is what is shown of the selection, the tools and the last
\* steps of the scratchpad, and costs what they do.
LEMMA RenderedCosts ==
  ASSUME Recorded, NEW meter \in Meters, NEW tools \in Seq(Entries),
         Costs(meter.kept) <= meter.used,
         Tokens(tools) <= Tokens(Chosen(toolHistory, ToolIds(meter.kept)))
  PROVE  Tokens(Rendered(meter, tools)) <= meter.used + Tokens(LastOf(scratchpad, ScratchWindow))
<1> DEFINE All == SourceItems \union Entries \union ScratchItems
           shown == Picked(meter.kept, ShownPlaces(meter.kept))
           last == LastOf(scratchpad, ScratchWindow)
           chosen == Chosen(toolHistory, ToolIds(meter.kept))
<1>1. meter.kept \in Seq(SourceItems) /\ meter.used \in Nat
  BY DEF Meters
<1>2. shown \in Seq(SourceItems)
  BY <1>1, PickedIsPart
<1>3. last \in Seq(ScratchItems)
  BY ContextAssumption, LastsPart DEF Recorded
<1>4. chosen \in Seq(Entries)
  BY PickedIsPart DEF Chosen, Recorded
<1>5. Tokens(shown) \in Nat /\ Tokens(last) \in Nat /\ Tokens(chosen) \in Nat /\ Tokens(tools) \in Nat
  BY <1>2, <1>3, <1>4, ListedItems, EntriesPriced, TokensType
<1>6. Priced(All)
  BY ListedItems, EntriesPriced DEF Priced
<1>7. Rendered(meter, tools) = (shown \o tools) \o last
  BY DEF Rendered, ShownPlaces
<1>8. Costs(meter.kept) = Tokens(shown) + Tokens(chosen)
  BY DEF Costs
<1> HIDE DEF shown, last, chosen
<1>9. shown \in Seq(All) /\ last \in Seq(All) /\ tools \in Seq(All)
  BY <1>2, <1>3
<1> HIDE DEF All
<1>10. shown \o tools \in Seq(All) /\ Tokens(shown \o tools) = Tokens(shown) + Tokens(tools)
  BY <1>6, <1>9, Joined, TokensOfBoth
<1>11. Tokens((shown \o tools) \o last) = Tokens(shown \o tools) + Tokens(last)
  BY <1>6, <1>9, <1>10, TokensOfBoth
<1>12. QED
  BY <1>1, <1>5, <1>7, <1>8, <1>10, <1>11 DEF last, chosen

\* A context that is built keeps to its budget.
LEMMA BuildKeeps == ContextInv /\ BuildContext => ContextInv'
<1> SUFFICES ASSUME ContextInv, BuildContext
             PROVE  ContextInv'
  OBVIOUS
<1> DEFINE facts == Facts(Window)
<1>1. UNCHANGED <<limit, adapter, conversation, toolHistory, scratchpad, embedded>>
  BY DEF BuildContext
<1>2. /\ limit \in Nat /\ embedded \in BOOLEAN /\ Recorded /\ Orderly(toolHistory)
      /\ conversation \in Seq(MessageItems) /\ HistoryLimit \in Nat
  BY ContextAssumption DEF ContextInv, ContextTypeOK, Recorded
<1>3. PICK found \in Retrievals :
        LET meter == Charged(Ranked(facts, found))
            tools == KeptTools(meter)
        IN  context' = [built |-> TRUE, facts |-> facts, meter |-> meter, tools |-> tools,
                        sent |-> Tokens(Rendered(meter, tools))]
  BY DEF BuildContext
<1> DEFINE ranked == Ranked(facts, found)
           meter == Charged(ranked)
           tools == KeptTools(meter)
<1>4. /\ context'.built /\ context'.facts = facts /\ context'.meter = meter
      /\ context'.tools = tools /\ context'.sent = Tokens(Rendered(meter, tools))
  BY <1>3
<1>5. /\ Ranking(ranked, Sections, facts)
      /\ \E a : /\ Leads(a, ranked)
                /\ Len(a) = Len(Required) + Len(facts)
                /\ Tokens(a) = Tokens(Required) + Tokens(facts)
  BY <1>2, RankedIsRanking
<1>6. facts \in Seq(MessageItems) /\ ToSet(facts) \subseteq ToSet(conversation)
  <2> DEFINE S == ToSet(conversation)
  <2>1. conversation \in Seq(S)
    BY <1>2 DEF ToSet
  <2> HIDE DEF S
  <2>2. Window \in Seq(MessageItems) /\ Window \in Seq(S)
    BY <1>2, <2>1, LastsPart DEF Window
  <2>3. facts \in Seq(MessageItems) /\ facts \in Seq(S)
    BY <2>2, FactsAreMessages
  <2> HIDE DEF facts
  <2>4. QED
    BY <2>3 DEF ToSet, S
<1> HIDE DEF ranked
<1>7. PICK a : /\ Leads(a, ranked)
               /\ Len(a) = Len(Required) + Len(facts)
               /\ Tokens(a) = Tokens(Required) + Tokens(facts)
  BY <1>5
<1> HIDE DEF facts
<1>8. /\ meter \in Meters
      /\ Tokens(meter.kept) = meter.used
      /\ IsPart(meter.kept, ranked)
      /\ Cardinality({i \in DOMAIN meter.kept : meter.kept[i].required}) = Len(a)
      /\ meter.overflow <=> Tokens(a) > limit
      /\ meter.overflow => meter.used = Tokens(a)
      /\ ~meter.overflow => meter.used <= limit
      /\ Costs(meter.kept) <= meter.used
  BY <1>2, <1>5, <1>7, ListIsMetered
<1> HIDE DEF meter
<1>9. /\ Orderly(tools) /\ ToSet(tools) \subseteq ToSet(toolHistory)
      /\ Tokens(tools) <= Tokens(Chosen(toolHistory, ToolIds(meter.kept)))
  BY <1>2, KeptIsOrderly
<1> HIDE DEF tools
<1>10. meter.used \in Nat /\ meter.kept \in Seq(SourceItems) /\ Ranking(meter.kept, Sections, facts)
  <2>1. meter.used \in Nat /\ meter.kept \in Seq(SourceItems)
    BY <1>8 DEF Meters
  <2>2. QED
    BY <1>5, <1>8, <2>1, RankingOfPart
<1>11. Tokens(Rendered(meter, tools)) <= meter.used + Tokens(LastOf(scratchpad, ScratchWindow))
  BY <1>2, <1>8, <1>9, RenderedCosts DEF Orderly
<1>12. SelectionKept'
  <2> DEFINE required == Tokens(Required) + Tokens(facts)
             last == Tokens(LastOf(scratchpad, ScratchWindow))
             once == \A i, j \in DOMAIN meter.kept :
                       i # j /\ meter.kept[i].id = meter.kept[j].id =>
                           /\ {meter.kept[i].section, meter.kept[j].section} # {"message", "fact"}
                           /\ meter.kept[i].section = meter.kept[j].section
                                => meter.kept[i].section = "fact"
  <2>1. Cardinality({i \in DOMAIN meter.kept : meter.kept[i].required}) = Len(Required) + Len(facts)
    BY <1>7, <1>8
  <2>2. (meter.overflow <=> required > limit) /\ meter.used <= IF meter.overflow THEN required ELSE limit
    <3>1. Tokens(a) = required /\ meter.used <= meter.used
      BY <1>7, <1>10
    <3> HIDE DEF required
    <3>2. QED
      BY <1>8, <3>1
  <2>3. once
    <3> HIDE DEF required, last
    <3>1. SUFFICES ASSUME NEW i \in DOMAIN meter.kept, NEW j \in DOMAIN meter.kept,
                          i # j, meter.kept[i].id = meter.kept[j].id
                   PROVE  /\ {meter.kept[i].section, meter.kept[j].section} # {"message", "fact"}
                          /\ meter.kept[i].section = meter.kept[j].section
                               => meter.kept[i].section = "fact"
      OBVIOUS
    <3>2. Ranking(meter.kept, Sections, facts)
      BY <1>10
    <3>3. QED
      BY <3>1, <3>2, SelectedOnce
  <2>4. LastOf(scratchpad, ScratchWindow)' = LastOf(scratchpad, ScratchWindow) /\ limit' = limit
    BY <1>1 DEF LastOf
  <2>5. Tokens(LastOf(scratchpad, ScratchWindow))' = last
    BY <1>1 DEF LastOf, Tokens
  <2> HIDE DEF required, last, once
  <2>6. QED
    BY <1>4, <1>11, <2>1, <2>2, <2>3, <2>4, <2>5, ZenonT(40) DEF SelectionKept, required, last, once
<1>13. ContextTypeOK'
  BY <1>1, <1>4, <1>6, <1>8, <1>9 DEF ContextInv, ContextTypeOK, Ids
<1>14. Orderly(context.tools)' /\ Orderly(toolHistory)' /\ Recorded'
  <2>1. Recorded'
    BY <1>1, <1>2 DEF Recorded, Counted
  <2>2. Orderly(toolHistory)'
    BY <1>1, <1>2 DEF Orderly, Named, CallId
  <2>3. Orderly(context.tools)'
    BY <1>1, <1>4, <1>9 DEF Orderly, Named, CallId
  <2>4. QED
    BY <2>1, <2>2, <2>3
<1>15. QED
  BY <1>12, <1>13, <1>14 DEF ContextInv

\* A step of the turn lengthens the history and the scratchpad.
LEMMA IteratesKeeps == ContextInv /\ Iterates => ContextInv'
<1> SUFFICES ASSUME ContextInv, Iterates
             PROVE  ContextInv'
  OBVIOUS
<1>1. PICK made \in StepKinds :
        /\ toolHistory' = toolHistory \o Step(made).history
        /\ scratchpad' = scratchpad \o
             [i \in DOMAIN Step(made).ran |-> [id |-> Len(scratchpad) + i, tokens |-> 1]]
  BY DEF Iterates
<1>2. UNCHANGED <<limit, adapter, conversation, embedded>> /\ ~context'.built
  BY DEF Iterates, NoContext
<1>3. Orderly(toolHistory \o Step(made).history) /\ Counted(toolHistory \o Step(made).history)
  BY StepIsOrderly DEF ContextInv, ContextTypeOK, Recorded
<1> DEFINE n == Len(scratchpad)
           more == [i \in DOMAIN Step(made).ran |-> [id |-> n + i, tokens |-> 1]]
<1>4. scratchpad \in Seq(ScratchItems) /\ Counted(scratchpad) /\ n \in Nat /\ DOMAIN scratchpad = 1 .. n
  BY DEF ContextInv, Recorded
<1>5. more \in Seq(ScratchItems) /\ \A i \in 1 .. Len(more) : more[i].id = n + i
  <2> DEFINE Kind == [tokens : Nat, ran : BOOLEAN]
             k == Len(Step(made).ran)
  <2>1. made \in [tokens : Nat, results : Seq(Kind)]
    BY ContextAssumption
  <2> HIDE DEF Kind
  <2>2. made.results \in Seq(Kind)
    BY <2>1
  <2>3. Step(made).ran \in Seq(Kind)
    BY <2>2, PickedIsPart DEF Step
  <2>4. k \in Nat /\ DOMAIN Step(made).ran = 1 .. k
    BY <2>3
  <2> HIDE DEF k, n
  <2>5. more = [i \in 1 .. k |-> [id |-> n + i, tokens |-> 1]]
    BY <2>4
  <2>6. \A i \in 1 .. k : [id |-> n + i, tokens |-> 1] \in ScratchItems
    BY <1>4, <2>4 DEF ScratchItems
  <2> HIDE DEF more
  <2>7. QED
    BY <2>4, <2>5, <2>6
<1> HIDE DEF more
<1>6. scratchpad \o more \in Seq(ScratchItems) /\ Counted(scratchpad \o more)
  <2> DEFINE u == scratchpad \o more
             m == Len(more)
  <2>1. /\ u \in Seq(ScratchItems) /\ DOMAIN u = 1 .. n + m
        /\ \A i \in 1 .. n : u[i] = scratchpad[i]
        /\ \A i \in 1 .. m : u[n + i] = more[i]
    BY <1>4, <1>5, Joined
  <2>2. m \in Nat
    BY <1>5
  <2> HIDE DEF u, m, n
  <2>3. ASSUME NEW i \in DOMAIN u
        PROVE  u[i].id = i
    <3>1. CASE i <= n
      BY <1>4, <2>1, <2>2, <3>1 DEF Counted
    <3>2. CASE ~(i <= n)
      <4>1. i - n \in 1 .. m /\ n + (i - n) = i
        BY <1>4, <2>1, <2>2, <3>2
      <4>2. u[n + (i - n)].id = n + (i - n)
        BY <1>5, <2>1, <4>1 DEF m
      <4>3. QED
        BY <4>1, <4>2
    <3>3. QED
      BY <3>1, <3>2
  <2>4. QED
    BY <2>1, <2>3 DEF Counted, u
<1>7. Recorded' /\ Orderly(toolHistory)'
  <2>1. scratchpad' = scratchpad \o more
    BY <1>1 DEF more, n
  <2>2. QED
    BY <1>1, <1>2, <1>3, <1>6, <2>1 DEF ContextInv, Recorded, Orderly, Counted, Named, CallId
<1>8. ContextTypeOK'
  <2>1. (Ids(toolHistory) = 1 .. Len(toolHistory))' /\ (Ids(scratchpad) = 1 .. Len(scratchpad))'
    BY <1>7, CountedIds DEF Recorded
  <2>2. QED
    BY <1>2, <2>1 DEF ContextInv, ContextTypeOK, Ids
<1>9. QED
  BY <1>2, <1>7, <1>8 DEF ContextInv, SelectionKept

LEMMA TurnEndsKeeps == ContextInv /\ TurnEnds => ContextInv'
<1> SUFFICES ASSUME ContextInv, TurnEnds
             PROVE  ContextInv'
  OBVIOUS
<1>1. /\ toolHistory' = <<>> /\ scratchpad' = <<>> /\ embedded' \in BOOLEAN /\ ~context'.built
      /\ UNCHANGED <<limit, adapter, conversation>>
  BY DEF TurnEnds, NoContext
<1>2. Recorded' /\ Orderly(toolHistory)'
  BY <1>1 DEF ContextInv, Recorded, Counted, Orderly, Backed
<1>3. Len(<<>>) = 0 /\ Ids(<<>>) = 1 .. 0
  BY DEF Ids
<1>4. ContextTypeOK'
  BY <1>1, <1>3 DEF ContextInv, ContextTypeOK, Ids
<1>5. QED
  BY <1>1, <1>2, <1>4 DEF ContextInv, SelectionKept

\* A message arrives behind the others; what was selected before it stays.
LEMMA ArrivalKeeps == ContextInv /\ MessageArrives => ContextInv'
<1> SUFFICES ASSUME ContextInv, MessageArrives
             PROVE  ContextInv'
  OBVIOUS
<1> DEFINE n == Len(conversation)
<1>1. PICK made \in MessageKinds :
        conversation' = Append(conversation,
            [id |-> Len(conversation) + 1, user |-> made.user, asks |-> made.asks,
             approves |-> made.approves, tokens |-> made.tokens])
  BY DEF MessageArrives
<1>2. UNCHANGED <<limit, adapter, toolHistory, scratchpad, embedded, context>> /\ n < MaxMessages
  BY DEF MessageArrives
<1>3. conversation \in Seq(MessageItems) /\ Counted(conversation) /\ n \in Nat /\ DOMAIN conversation = 1 .. n
  BY DEF ContextInv, Recorded
<1> DEFINE message == [id |-> n + 1, user |-> made.user, asks |-> made.asks,
                       approves |-> made.approves, tokens |-> made.tokens]
<1>4. message \in MessageItems
  <2>1. made \in [user : BOOLEAN, asks : BOOLEAN, approves : BOOLEAN, tokens : Nat]
    BY ContextAssumption
  <2>2. QED
    BY <1>3, <2>1 DEF MessageItems
<1>5. message.id = n + 1
  OBVIOUS
<1> HIDE DEF message
<1>6. /\ conversation' \in Seq(MessageItems) /\ Len(conversation') = n + 1
      /\ conversation'[n + 1] = message /\ \A i \in 1 .. n : conversation'[i] = conversation[i]
      /\ DOMAIN conversation' = 1 .. n + 1
  <2>1. conversation' = Append(conversation, message)
    BY <1>1 DEF message
  <2>2. QED
    BY <1>3, <1>4, <2>1
<1> HIDE DEF n
<1>7. Counted(conversation)'
  <2>1. \A i \in 1 .. n + 1 : i \in 1 .. n \/ i = n + 1
    BY <1>3
  <2>2. QED
    BY <1>3, <1>5, <1>6, <2>1 DEF Counted
<1>8. Recorded' /\ Orderly(toolHistory)' /\ (context.built => Orderly(context.tools))'
  BY <1>2, <1>6, <1>7, ZenonT(40) DEF ContextInv, Recorded, Counted, Orderly, Named, CallId
<1>9. ContextTypeOK'
  <2>1. (Ids(conversation) = 1 .. Len(conversation))'
    BY <1>8, CountedIds DEF Recorded
  <2>2. Len(conversation') <= MaxMessages
    BY <1>2, <1>3, <1>6, ContextAssumption
  <2>3. ToSet(conversation) \subseteq ToSet(conversation')
    BY <1>3, <1>6 DEF ToSet
  <2>4. context.built => ToSet(context.facts)' \subseteq ToSet(conversation)'
    BY <1>2, <2>3 DEF ContextInv, ContextTypeOK, ToSet
  <2>5. context.built => ToSet(context.tools)' \subseteq ToSet(toolHistory)'
    BY <1>2 DEF ContextInv, ContextTypeOK, ToSet
  <2>6. (Tokens(context.meter.kept))' = Tokens(context.meter.kept)
    BY <1>2, SelectionStays DEF ContextInv
  <2>7. QED
    BY <1>2, <2>1, <2>2, <2>4, <2>5, <2>6 DEF ContextInv, ContextTypeOK, Ids
<1>10. SelectionKept'
  BY <1>2, SelectionStays DEF ContextInv
<1>11. QED
  BY <1>8, <1>9, <1>10 DEF ContextInv

LEMMA ContextSteps == ContextInv /\ [ContextNext]_contextVars => ContextInv'
<1> SUFFICES ASSUME ContextInv, [ContextNext]_contextVars
             PROVE  ContextInv'
  OBVIOUS
<1>1. CASE UNCHANGED contextVars
  <2>1. UNCHANGED <<limit, adapter, conversation, toolHistory, scratchpad, embedded, context>>
    BY <1>1 DEF contextVars
  <2>2. SelectionKept' /\ (Tokens(context.meter.kept))' = Tokens(context.meter.kept)
    BY <2>1, SelectionStays DEF ContextInv
  <2>3. ContextTypeOK'
    BY <2>1, <2>2 DEF ContextInv, ContextTypeOK, Ids
  <2>4. (Recorded /\ Orderly(toolHistory) /\ (context.built => Orderly(context.tools)))'
    BY <2>1 DEF ContextInv, Recorded, Counted, Orderly, Named, CallId
  <2>5. QED
    BY <2>2, <2>3, <2>4 DEF ContextInv
<1>2. QED
  BY <1>1, BuildKeeps, IteratesKeeps, TurnEndsKeeps, ArrivalKeeps DEF ContextNext

\* With ids that are of one step, a result is of the step of its answer.
LEMMA OrderlyIsAnswered == ContextInv => ToolResultsAnswered
<1> SUFFICES ASSUME ContextInv, context.built,
                    NEW j \in DOMAIN context.tools, context.tools[j].role = "tool"
             PROVE  \E i \in 1 .. j - 1 :
                      /\ context.tools[i].role = "assistant"
                      /\ context.tools[j].call \in ToSet(context.tools[i].calls)
                      /\ adapter = "openrouter" => context.tools[i].step = context.tools[j].step
  BY DEF ToolResultsAnswered
<1>1. Orderly(context.tools)
  BY DEF ContextInv
<1>2. PICK i \in 1 .. j - 1 : /\ context.tools[i].role = "assistant"
                              /\ context.tools[j].call \in ToSet(context.tools[i].calls)
  BY <1>1 DEF Orderly, Backed
<1>3. i \in DOMAIN context.tools
  BY <1>1 DEF Orderly
<1>4. PICK place \in Nat : context.tools[j].call = CallId(context.tools[j].step, place)
  BY <1>1 DEF Orderly, Named
<1>5. PICK p \in DOMAIN context.tools[i].calls :
        context.tools[j].call = context.tools[i].calls[p]
  BY <1>2 DEF ToSet
<1>6. context.tools[i].calls[p] = CallId(context.tools[i].step, p)
  BY <1>1, <1>2, <1>3, <1>5 DEF Orderly, Named
<1>7. adapter = "openrouter" => context.tools[i].step = context.tools[j].step
  BY <1>4, <1>5, <1>6 DEF CallId
<1>8. QED
  BY <1>2, <1>7

\* Every step of a turn, an iteration and a selection keeps what the next one
\* relies on: ids counted, results behind their answers, the budget kept.
THEOREM ContextInvariant == ContextSpec => []ContextInv
  BY ContextBegins, ContextSteps, PTL DEF ContextSpec

\* Whatever selectContext drops of the history of a turn, every tool result that
\* is sent follows the answer that called for it.
THEOREM ResultsAreAnswered == ContextSpec => []ToolResultsAnswered
  BY ContextInvariant, OrderlyIsAnswered, PTL

\* The history, the scratchpad and every selection are what the code can make of
\* the conversation, and a selection's tokens are those of its sources.
THEOREM ContextTypeCorrect == ContextSpec => []ContextTypeOK
<1>1. ContextInv => ContextTypeOK
  BY DEF ContextInv
<1>2. QED
  BY <1>1, ContextInvariant, PTL

\* Whatever is retrieved and whatever it costs: all that is required is selected,
\* the rest only within the budget, nothing twice, and what is sent exceeds the
\* budget by no more than what is required and the last steps of the scratchpad.
THEOREM SelectionsAreKept == ContextSpec => []SelectionKept
<1>1. ContextInv => SelectionKept
  BY DEF ContextInv
<1>2. QED
  BY <1>1, ContextInvariant, PTL
=============================================================================
