---------------------- MODULE CheckoutObservationProofs ----------------------
(* What repo_identity of emit-local-manifest.py says of a checkout, for any *)
(* paths, bitmaps, words, numbers of entries, configuration and attributes: *)
(* the index that it merges is the one that Git means, and as long as nobody*)
(* edits, its verdict is that of git status, but for what the project means *)
(* to tell otherwise.                                                       *)
EXTENDS CheckoutObservation, FiniteSetTheorems, NaturalsInduction, WellFoundedInduction, TLAPS

-----------------------------------------------------------------------------
(* Induction, recursion and rank.                                           *)

\* Induction over a set of numbers, from the well-foundedness of <.
LEMMA SetInduction ==
    ASSUME NEW S, 0 \in S, \A n \in Nat : n \in S => n + 1 \in S
    PROVE  Nat \subseteq S
<1> DEFINE R == {ss \in Nat \X Nat : ss[1] < ss[2]}
<1>1. IsWellFoundedOn(R, Nat)
  <2>1. R = OpToRel(<, Nat)
    BY DEF OpToRel
  <2>2. QED
    BY <2>1, NatLessThanWellFounded
<1>2. SUFFICES ASSUME Nat \ S # {} PROVE FALSE
  OBVIOUS
<1>3. PICK x \in Nat \ S : \A y \in Nat \ S : ~ (<<y, x>> \in R)
  <2> HIDE DEF R
  <2>1. QED
    BY <1>1, <1>2, WFMin
<1>4. x # 0 /\ x - 1 \in Nat \ S
  <2>1. x # 0
    OBVIOUS
  <2>2. x - 1 \in Nat
    BY <2>1
  <2>3. x - 1 \in S => (x - 1) + 1 \in S
    BY <2>2
  <2>4. QED
    BY <2>1, <2>2, <2>3
<1>5. <<x - 1, x>> \in R
  BY <1>4
<1>6. QED
  BY <1>3, <1>4, <1>5

\* A set that holds lo, and with k also k + 1, holds lo..hi.
LEMMA IntervalInduction ==
    ASSUME NEW lo \in Int, NEW hi \in Int, NEW S, lo \in S,
           \A k \in lo..(hi - 1) : k \in S => k + 1 \in S
    PROVE  lo..hi \subseteq S
<1> DEFINE N == {n \in Nat : lo + n \in S \/ lo + n > hi}
<1>1. 0 \in N
  OBVIOUS
<1>2. ASSUME NEW n \in Nat, n \in N PROVE n + 1 \in N
  <2>1. CASE lo + n < hi
    <3>1. lo + n \in lo..(hi - 1) /\ lo + n \in S
      BY <1>2, <2>1
    <3>2. lo + n + 1 \in S
      BY <3>1
    <3>3. QED
      BY <3>2
  <2>2. CASE lo + n >= hi
    BY <2>2
  <2>3. QED
    BY <2>1, <2>2
<1>3. Nat \subseteq N
  <2> HIDE DEF N
  <2>1. QED
    BY <1>1, <1>2, SetInduction
<1>4. ASSUME NEW k \in lo..hi PROVE k \in S
  <2>1. k - lo \in Nat
    OBVIOUS
  <2>2. k - lo \in N
    BY <1>3, <2>1
  <2>3. lo + (k - lo) = k
    OBVIOUS
  <2>4. QED
    BY <2>2, <2>3
<1>5. QED
  BY <1>4

\* f is b at 0 and takes a step at every number up to n.
Iterates(f, n, b, step) == f[0] = b /\ \A k \in 1..n : f[k] = step[k][f[k - 1]]

\* The values that a recursive definition over 0..n gives exist.
LEMMA Recursion ==
    ASSUME NEW n \in Nat, NEW T, NEW b \in T, NEW step \in [1..n -> [T -> T]]
    PROVE  \E f \in [0..n -> T] : Iterates(f, n, b, step)
<1> DEFINE Is(g, m) == g[0] = b /\ \A k \in 1..m : g[k] = step[k][g[k - 1]]
           S == {m \in Nat : m <= n => \E g \in [0..m -> T] : Is(g, m)}
<1>1. 0 \in S
  <2> DEFINE g == [i \in 0..0 |-> b]
  <2>1. g \in [0..0 -> T] /\ Is(g, 0)
    OBVIOUS
  <2>2. QED
    <3> HIDE DEF g, Is
    <3>1. QED
      BY <2>1
<1>2. ASSUME NEW m \in Nat, m \in S PROVE m + 1 \in S
  <2> SUFFICES ASSUME m + 1 <= n PROVE \E h \in [0..(m + 1) -> T] : Is(h, m + 1)
    OBVIOUS
  <2>1. PICK g \in [0..m -> T] : Is(g, m)
    BY <1>2
  <2> DEFINE h == [i \in 0..(m + 1) |-> IF i = m + 1 THEN step[m + 1][g[m]] ELSE g[i]]
  <2>2. g[m] \in T /\ m + 1 \in 1..n
    OBVIOUS
  <2>3. step[m + 1][g[m]] \in T
    BY <2>2
  <2>4. \A i \in 0..(m + 1) : i # m + 1 => i \in 0..m
    OBVIOUS
  <2>5. h \in [0..(m + 1) -> T]
    BY <2>3, <2>4
  <2>6. h[0] = b
    BY <2>1
  <2>7. ASSUME NEW k \in 1..(m + 1) PROVE h[k] = step[k][h[k - 1]]
    <3>1. k - 1 \in 0..m /\ h[k - 1] = g[k - 1]
      OBVIOUS
    <3>2. CASE k = m + 1
      <4>1. h[k] = step[m + 1][g[m]] /\ h[k - 1] = g[m]
        BY <3>1, <3>2
      <4>2. QED
        BY <4>1, <3>2
    <3>3. CASE k # m + 1
      <4>1. k \in 1..m /\ h[k] = g[k]
        BY <3>3
      <4>2. QED
        BY <4>1, <3>1, <2>1
    <3>4. QED
      BY <3>2, <3>3
  <2>8. QED
    <3> HIDE DEF h
    <3>1. Is(h, m + 1)
      BY <2>6, <2>7
    <3>2. QED
      BY <3>1, <2>5
<1>3. Nat \subseteq S
  <2> HIDE DEF S
  <2>1. QED
    BY <1>1, <1>2, SetInduction
<1>4. n \in S
  <2> HIDE DEF S
  <2>1. QED
    BY <1>3
<1>5. QED
  BY <1>4 DEF Iterates

\* R is a strict total order on S.
IsStrictTotal(S, R) ==
    /\ R \in SUBSET (S \X S) /\ \A e \in S : <<e, e>> \notin R
    /\ \A e, f, g \in S : <<e, f>> \in R /\ <<f, g>> \in R => <<e, g>> \in R
    /\ \A e, f \in S : e # f => <<e, f>> \in R \/ <<f, e>> \in R

RankIn(S, R) == [e \in S |-> Cardinality({f \in S : <<f, e>> \in R})]

\* The ranks of n elements, one each.
AreRanks(S, R, rank, n) ==
    /\ n \in Nat /\ rank \in [S -> 0..(n - 1)]
    /\ \A e, f \in S : <<e, f>> \in R => rank[e] < rank[f]
    /\ \A e, f \in S : rank[e] = rank[f] => e = f
    /\ \A k \in 0..(n - 1) : \E e \in S : rank[e] = k

\* The elements of a finite set, ranked by a strict total order on it.
LEMMA Ranking ==
    ASSUME NEW S, IsFiniteSet(S), NEW R, IsStrictTotal(S, R)
    PROVE  AreRanks(S, R, RankIn(S, R), Cardinality(S))
<1> DEFINE rank == RankIn(S, R)
<1>a. /\ R \in SUBSET (S \X S) /\ \A e \in S : <<e, e>> \notin R
      /\ \A e, f, g \in S : <<e, f>> \in R /\ <<f, g>> \in R => <<e, g>> \in R
      /\ \A e, f \in S : e # f => <<e, f>> \in R \/ <<f, e>> \in R
  BY DEF IsStrictTotal
<1>b. rank = [e \in S |-> Cardinality({f \in S : <<f, e>> \in R})]
  BY DEF RankIn
<1> HIDE DEF rank
<1> DEFINE n == Cardinality(S)
           Below(e) == {f \in S : <<f, e>> \in R}
<1>1. n \in Nat
  BY FS_CardinalityType
<1>2. ASSUME NEW e \in S
      PROVE  IsFiniteSet(Below(e)) /\ rank[e] = Cardinality(Below(e)) /\ rank[e] \in 0..(n - 1)
  <2>1. Below(e) \in SUBSET (S \ {e})
    BY <1>a
  <2>2. IsFiniteSet(S \ {e}) /\ Cardinality(S \ {e}) = n - 1
    BY FS_RemoveElement
  <2>3. IsFiniteSet(Below(e)) /\ Cardinality(Below(e)) <= n - 1
    <3> HIDE DEF Below
    <3>1. QED
      BY <2>1, <2>2, FS_Subset
  <2>4. Cardinality(Below(e)) \in Nat
    <3> HIDE DEF Below
    <3>1. QED
      BY <2>3, FS_CardinalityType
  <2>5. rank[e] = Cardinality(Below(e))
    BY <1>b
  <2>6. QED
    <3> HIDE DEF Below, n
    <3>1. QED
      BY <1>1, <2>3, <2>4, <2>5
<1>3. ASSUME NEW e \in S, NEW f \in S, <<e, f>> \in R PROVE rank[e] < rank[f]
  <2>1. Below(e) \cup {e} \in SUBSET Below(f) /\ e \notin Below(e)
    BY <1>a, <1>3
  <2>2. Cardinality(Below(e) \cup {e}) = Cardinality(Below(e)) + 1
    <3> HIDE DEF Below
    <3>1. QED
      BY <1>2, <2>1, FS_AddElement
  <2>3. Cardinality(Below(e) \cup {e}) <= Cardinality(Below(f))
    <3> HIDE DEF Below
    <3>1. QED
      BY <1>2, <2>1, FS_Subset
  <2>4. QED
    <3> HIDE DEF Below, n
    <3>1. QED
      BY <1>2, <2>2, <2>3, <1>1
<1>4. ASSUME NEW e \in S, NEW f \in S, rank[e] = rank[f] PROVE e = f
  <2> SUFFICES ASSUME e # f PROVE FALSE
    OBVIOUS
  <2>1. rank[e] < rank[f] \/ rank[f] < rank[e]
    BY <1>a, <1>3
  <2>2. rank[e] \in Int /\ rank[f] \in Int
    <3> HIDE DEF Below
    <3>1. QED
      BY <1>2, <1>1
  <2>3. QED
    BY <2>1, <2>2, <1>4
<1>5. rank \in [S -> 0..(n - 1)]
  <2> HIDE DEF n, Below
  <2>1. QED
    BY <1>b, <1>2
<1>6. IsFiniteSet(0..(n - 1)) /\ Cardinality(0..(n - 1)) = n
  <2> HIDE DEF n
  <2>1. QED
    BY <1>1, FS_Interval
<1>7. rank \in Injection(S, 0..(n - 1))
  <2> HIDE DEF n
  <2>1. QED
    BY <1>4, <1>5 DEF Injection, IsInjective
<1>8. rank \in Surjection(S, 0..(n - 1))
  <2>1. Cardinality(S) = Cardinality(0..(n - 1))
    BY <1>6
  <2> HIDE DEF n
  <2>2. QED
    BY <1>6, <1>7, <2>1, FS_Injection
<1>9. \A k \in 0..(n - 1) : \E e \in S : rank[e] = k
  <2> HIDE DEF n
  <2>1. QED
    BY <1>8 DEF Surjection
<1>10. QED
  BY <1>1, <1>3, <1>4, <1>5, <1>9 DEF AreRanks, rank

-----------------------------------------------------------------------------
(* Bitmaps.                                                                 *)

\* What a word of a bitmap says of runs and literals are numbers.
LEMMA WordParts ==
    ASSUME NEW w \in Nat
    PROVE  Literals(w) \in Nat /\ Repeat(w) \in Nat
<1>1. 2 * Runs \in Nat \ {0} /\ Runs \in Nat \ {0}
  BY WordAssumption
<1>2. w \div (2 * Runs) \in Nat
  <2> DEFINE d == 2 * Runs
  <2> HIDE DEF d
  <2>1. d \in Nat \ {0}
    BY <1>1 DEF d
  <2>2. w \div d \in Nat
    BY <2>1
  <2>3. QED
    BY <2>2 DEF d
<1>3. (w \div 2) % Runs \in Nat
  <2>1. w \div 2 \in Nat
    OBVIOUS
  <2>2. QED
    BY <2>1, <1>1
<1>4. QED
  BY <1>2, <1>3 DEF Literals, Repeat

\* The bits of one more word.
LEMMA Bits ==
    ASSUME NEW n \in Nat
    PROVE  n * WordBits \in Nat /\ (n + 1) * WordBits = n * WordBits + WordBits
BY WordAssumption

Turn == [cursor : Nat \ {0}, pos : Nat]

\* What the loop makes of the marker m.
TurnAfter(map, m) ==
    LET word == map.words[m.cursor] IN
    IF m.cursor > Len(map.words) THEN m
    ELSE [cursor |-> m.cursor + 1 + Literals(word),
          pos    |-> m.pos + (Repeat(word) + Literals(word)) * WordBits]

\* The markers that the loop of _ewah_bits comes to, as a recursion over 0..L.
LEMMA TurnsOf ==
    ASSUME NEW map, map.words \in Seq(Nat), NEW L, L = Len(map.words), NEW t, t = Turns(map)
    PROVE  /\ t \in [0..L -> Turn] /\ t[0] = [cursor |-> 1, pos |-> 0]
           /\ \A k \in 0..(L - 1) : t[k + 1] = TurnAfter(map, t[k])
<1> DEFINE After == [m \in Turn |->
             LET word == map.words[m.cursor] IN
             IF m.cursor > L THEN m
             ELSE [cursor |-> m.cursor + 1 + Literals(word),
                   pos    |-> m.pos + (Repeat(word) + Literals(word)) * WordBits]]
           step == [k \in 1..L |-> After]
           b == [cursor |-> 1, pos |-> 0]
<1>1. L \in Nat
  OBVIOUS
<1>2. ASSUME NEW m \in Turn PROVE After[m] \in Turn
  <2>1. CASE m.cursor > L
    BY <2>1
  <2>2. CASE ~(m.cursor > L)
    <3>1. map.words[m.cursor] \in Nat
      BY <2>2 DEF Turn
    <3> DEFINE word == map.words[m.cursor]
    <3>2. Literals(word) \in Nat /\ Repeat(word) \in Nat
      BY <3>1, WordParts
    <3> HIDE DEF word
    <3>3. Repeat(word) + Literals(word) \in Nat
      BY <3>2
    <3>4. (Repeat(word) + Literals(word)) * WordBits \in Nat
      BY <3>3, Bits
    <3>5. After[m] = [cursor |-> m.cursor + 1 + Literals(word),
                      pos |-> m.pos + (Repeat(word) + Literals(word)) * WordBits]
      BY <2>2 DEF word
    <3> HIDE DEF After
    <3>6. m.cursor + 1 + Literals(word) \in Nat \ {0}
      BY <3>2 DEF Turn
    <3>7. m.pos + (Repeat(word) + Literals(word)) * WordBits \in Nat
      <4> DEFINE x == (Repeat(word) + Literals(word)) * WordBits
      <4>1. x \in Nat
        BY <3>4
      <4> HIDE DEF x
      <4>2. m.pos + x \in Nat
        BY <4>1 DEF Turn
      <4>3. QED
        BY <4>2 DEF x
    <3>8. QED
      BY <3>5, <3>6, <3>7 DEF Turn
  <2>3. QED
    BY <2>1, <2>2
<1>3. b \in Turn
  BY DEF Turn
<1>4. step \in [1..L -> [Turn -> Turn]]
  <2>1. After = [m \in Turn |-> After[m]]
    OBVIOUS
  <2> HIDE DEF After
  <2>2. After \in [Turn -> Turn]
    BY <1>2, <2>1
  <2>3. QED
    BY <2>2
<1>5. PICK f \in [0..L -> Turn] : Iterates(f, L, b, step)
  <2> HIDE DEF step, b, After
  <2>1. QED
    BY <1>1, <1>3, <1>4, Recursion
<1>6. \A k \in 1..L : f[k] = After[f[k - 1]]
  <2> HIDE DEF After
  <2>1. QED
    BY <1>5 DEF Iterates
<1> DEFINE Body(g, k) ==
             IF k = 0 THEN [cursor |-> 1, pos |-> 0]
             ELSE LET m == g[k - 1]  word == map.words[m.cursor] IN
                  IF m.cursor > L THEN m
                  ELSE [cursor |-> m.cursor + 1 + Literals(word),
                        pos    |-> m.pos + (Repeat(word) + Literals(word)) * WordBits]
           Fix(g) == g = [k \in 0..L |-> Body(g, k)]
<1>7. Fix(f)
  <2>1. ASSUME NEW k \in 0..L PROVE f[k] = Body(f, k)
    <3>1. CASE k = 0
      BY <1>5, <3>1 DEF Iterates
    <3>2. CASE k # 0
      <4>1. k \in 1..L
        BY <3>2
      <4>2. f[k] = After[f[k - 1]]
        BY <1>6, <4>1
      <4>3. f[k - 1] \in Turn
        <5>1. k - 1 \in 0..L
          BY <4>1
        <5>2. QED
          BY <5>1
      <4>4. QED
        BY <3>2, <4>2, <4>3
    <3>3. QED
      BY <3>1, <3>2
  <2> HIDE DEF Body
  <2>2. QED
    BY <2>1
<1>8. t = CHOOSE g : Fix(g)
  BY DEF Turns
<1>9. Fix(t)
  <2> HIDE DEF Fix
  <2>1. QED
    BY <1>7, <1>8, Zenon
<1>10. t = [k \in 0..L |-> Body(t, k)]
  BY <1>9
<1>11. t[0] = b
  <2> HIDE DEF Body
  <2>0. 0 \in 0..L
    BY <1>1
  <2>1. t[0] = Body(t, 0)
    BY <1>10, <2>0
  <2>2. QED
    BY <2>1 DEF Body
<1>12. ASSUME NEW k \in 1..L, t[k - 1] \in Turn PROVE t[k] = After[t[k - 1]]
  <2>1. t[k] = Body(t, k)
    <3>1. k \in 0..L
      OBVIOUS
    <3> HIDE DEF Body
    <3>2. \A i \in 0..L : t[i] = Body(t, i)
      BY <1>10, Zenon
    <3>3. QED
      BY <3>1, <3>2, Zenon
  <2>2. k # 0
    OBVIOUS
  <2>3. Body(t, k) = After[t[k - 1]]
    <3> DEFINE m == t[k - 1]
    <3>1. m \in Turn
      BY <1>12
    <3>2. Body(t, k) = LET word == map.words[m.cursor] IN
                       IF m.cursor > L THEN m
                       ELSE [cursor |-> m.cursor + 1 + Literals(word),
                             pos    |-> m.pos + (Repeat(word) + Literals(word)) * WordBits]
      BY <2>2
    <3> HIDE DEF m, Body
    <3>3. QED
      BY <3>1, <3>2 DEF m
  <2>4. QED
    BY <2>1, <2>3, Zenon
<1>13. t \in [0..L -> Turn]
  <2> DEFINE S == {k \in 0..L : t[k] \in Turn}
  <2>1. 0 \in S
    BY <1>11, <1>3, <1>1
  <2>2. ASSUME NEW k \in 0..(L - 1), k \in S PROVE k + 1 \in S
    <3> HIDE DEF After
    <3>1. k + 1 \in 1..L /\ (k + 1) - 1 = k
      OBVIOUS
    <3>2. t[k + 1] = After[t[k]]
      BY <1>12, <3>1, <2>2
    <3>3. QED
      BY <3>1, <3>2, <2>2, <1>2
  <2>3. 0..L \subseteq S
    <3>1. 0 \in Int /\ L \in Int /\ \A k \in 0..(L - 1) : k \in S => k + 1 \in S
      <4> HIDE DEF S
      <4>1. QED
        BY <1>1, <2>2
    <3> HIDE DEF S
    <3>2. QED
      BY <3>1, <2>1, IntervalInduction
  <2>4. \A k \in 0..L : t[k] \in Turn
    BY <2>3
  <2> HIDE DEF Body
  <2>5. QED
    BY <1>10, <2>4
<1>14. ASSUME NEW k \in 0..(L - 1) PROVE t[k + 1] = TurnAfter(map, t[k])
  <2>1. k \in 0..L /\ k + 1 \in 1..L /\ (k + 1) - 1 = k
    BY <1>1
  <2>2. t[k] \in Turn
    BY <2>1, <1>13
  <2>3. t[k + 1] = After[t[k]]
    <3> HIDE DEF After
    <3>1. QED
      BY <1>12, <2>1, <2>2
  <2>4. After[t[k]] = TurnAfter(map, t[k])
    BY <2>2 DEF TurnAfter
  <2>5. QED
    BY <2>3, <2>4
<1>15. QED
  BY <1>11, <1>13, <1>14

Saying == [left : Nat, end : Nat, set : SUBSET Nat]

\* What a word adds to what was said before it.
SayAfter(word, s) ==
    LET run == Repeat(word) * WordBits IN
    IF s.left > 0
    THEN [left |-> s.left - 1, end |-> s.end + WordBits,
          set |-> s.set \cup {s.end + b : b \in BitsOf(word)}]
    ELSE [left |-> Literals(word), end |-> s.end + run,
          set |-> s.set \cup (IF Ones(word) THEN s.end..(s.end + run - 1) ELSE {})]

\* What the first words of a bitmap say, one more word at each step.
SaysBy(map, a, n) ==
    /\ a[0] = [left |-> 0, end |-> 0, set |-> {}]
    /\ \A k \in 1..n : a[k] = SayAfter(map.words[k], a[k - 1])

\* What Git's reading of a bitmap has after each word, as a recursion over 0..L.
LEMMA SaidIs ==
    ASSUME NEW map, map.words \in Seq(Nat), NEW L, L = Len(map.words)
    PROVE  \E a \in [0..L -> Saying] : Said(map) = a[L] /\ SaysBy(map, a, L)
<1> DEFINE Then(k, s) == SayAfter(map.words[k], s)
           step == [k \in 1..L |-> [s \in Saying |-> Then(k, s)]]
           start == [left |-> 0, end |-> 0, set |-> {}]
<1>1. L \in Nat
  OBVIOUS
<1>2. ASSUME NEW k \in 1..L, NEW s \in Saying PROVE Then(k, s) \in Saying
  <2> DEFINE word == map.words[k]
             run == Repeat(word) * WordBits
  <2>1. word \in Nat
    OBVIOUS
  <2>2. Literals(word) \in Nat /\ run \in Nat
    <3> HIDE DEF word
    <3>1. QED
      BY <2>1, WordParts, Bits
  <2>3. BitsOf(word) \subseteq Nat
    BY WordAssumption DEF BitsOf
  <2>4. s.left \in Nat /\ s.end \in Nat /\ s.set \in SUBSET Nat
    BY DEF Saying
  <2>5. CASE s.left > 0
    <3>1. s.left - 1 \in Nat /\ s.end + WordBits \in Nat
      BY <2>4, <2>5, WordAssumption
    <3>2. s.set \cup {s.end + b : b \in BitsOf(word)} \in SUBSET Nat
      <4> HIDE DEF word
      <4>1. QED
        BY <2>4, <2>3
    <3> HIDE DEF word
    <3>3. Then(k, s) = [left |-> s.left - 1, end |-> s.end + WordBits,
                         set |-> s.set \cup {s.end + b : b \in BitsOf(word)}]
      BY <2>5 DEF word, SayAfter
    <3> HIDE DEF Then
    <3>4. QED
      BY <3>1, <3>2, <3>3 DEF Saying
  <2>6. CASE ~(s.left > 0)
    <3> DEFINE new == IF Ones(word) THEN s.end..(s.end + run - 1) ELSE {}
    <3>1. new \in SUBSET Nat
      <4> HIDE DEF run, word
      <4>1. QED
        BY <2>2, <2>4
    <3>2. s.end + run \in Nat
      <4> HIDE DEF run, word
      <4>1. QED
        BY <2>2, <2>4
    <3>3. Then(k, s) = [left |-> Literals(word), end |-> s.end + run, set |-> s.set \cup new]
      BY <2>6 DEF SayAfter
    <3>4. QED
      <4> DEFINE said == s.set \cup new
      <4>1. said \in SUBSET Nat
        <5> HIDE DEF new
        <5>1. QED
          BY <3>1, <2>4
      <4>2. Then(k, s) = [left |-> Literals(word), end |-> s.end + run, set |-> said]
        BY <3>3
      <4> HIDE DEF Then, run, word, new, said
      <4>3. QED
        BY <4>1, <4>2, <3>2, <2>2 DEF Saying
  <2>7. QED
    BY <2>5, <2>6
<1>3. start \in Saying
  BY DEF Saying
<1>4. step \in [1..L -> [Saying -> Saying]]
  <2> HIDE DEF Then
  <2>1. QED
    BY <1>2
<1>5. PICK f \in [0..L -> Saying] : Iterates(f, L, start, step)
  <2> HIDE DEF step, start
  <2>1. QED
    BY <1>1, <1>3, <1>4, Recursion
<1>6. ASSUME NEW k \in 1..L PROVE f[k] = Then(k, f[k - 1])
  <2>1. k - 1 \in 0..L
    BY <1>1
  <2>2. f[k - 1] \in Saying
    BY <2>1
  <2> HIDE DEF Then
  <2>3. f[k] = step[k][f[k - 1]]
    BY <1>5 DEF Iterates
  <2>4. QED
    BY <2>2, <2>3
<1> DEFINE Body(g, k) ==
             IF k = 0 THEN [left |-> 0, end |-> 0, set |-> {}]
             ELSE LET before == g[k - 1]  word == map.words[k]
                      run == ((word \div 2) % Runs) * WordBits IN
                  IF before.left > 0
                  THEN [left |-> before.left - 1, end |-> before.end + WordBits,
                        set  |-> before.set \cup {before.end + b : b \in BitsOf(word)}]
                  ELSE [left |-> word \div (2 * Runs), end |-> before.end + run,
                        set  |-> before.set \cup
                                 (IF word % 2 = 1 THEN before.end..(before.end + run - 1) ELSE {})]
           Fix(g) == g = [k \in 0..Len(map.words) |-> Body(g, k)]
<1>7. \A g : \A k : k # 0 => Body(g, k) = Then(k, g[k - 1])
  BY Zenon DEF Repeat, Literals, Ones, SayAfter
<1>8. f[0] = start
  BY <1>5 DEF Iterates
<1>9. Fix(f)
  <2>1. ASSUME NEW k \in 0..L PROVE f[k] = Body(f, k)
    <3>1. CASE k = 0
      BY <1>8, <3>1
    <3>2. CASE k # 0
      <4>1. k \in 1..L
        BY <3>2
      <4> HIDE DEF Body, Then
      <4>2. QED
        BY <1>6, <1>7, <4>1, <3>2
    <3>3. QED
      BY <3>1, <3>2
  <2> HIDE DEF Body
  <2>2. QED
    BY <2>1
<1>10. PICK a : Fix(a) /\ Said(map) = a[L]
  <2> DEFINE t == CHOOSE g : Fix(g)
  <2>1. Said(map) = t[L]
    BY DEF Said
  <2>2. Fix(t)
    <3> HIDE DEF Fix
    <3>1. QED
      BY <1>9, Zenon
  <2> HIDE DEF t
  <2>3. QED
    BY <2>1, <2>2
<1>11. ASSUME NEW k \in 0..L PROVE a[k] = Body(a, k)
  <2>1. a = [i \in 0..L |-> Body(a, i)]
    BY <1>10
  <2> HIDE DEF Body
  <2>2. QED
    BY <2>1
<1>12. a[0] = start
  <2>1. 0 \in 0..L
    BY <1>1
  <2>2. a[0] = Body(a, 0)
    <3> HIDE DEF Body
    <3>1. QED
      BY <1>11, <2>1
  <2>3. QED
    BY <2>2
<1>13. ASSUME NEW k \in 1..L PROVE a[k] = Then(k, a[k - 1])
  <2>1. k \in 0..L /\ k # 0
    OBVIOUS
  <2> HIDE DEF Body, Then
  <2>2. QED
    BY <1>11, <1>7, <2>1
<1>14. \A k \in 0..L : a[k] \in Saying
  <2> DEFINE S == {k \in Nat : k <= L => a[k] \in Saying}
  <2>1. 0 \in S
    BY <1>12, <1>3
  <2>2. ASSUME NEW k \in Nat, k \in S PROVE k + 1 \in S
    <3> SUFFICES ASSUME k + 1 <= L PROVE a[k + 1] \in Saying
      OBVIOUS
    <3>1. k + 1 \in 1..L /\ (k + 1) - 1 = k /\ a[k] \in Saying
      BY <2>2
    <3> HIDE DEF Then
    <3>2. a[k + 1] = Then(k + 1, a[k])
      BY <1>13, <3>1
    <3>3. QED
      BY <1>2, <3>1, <3>2
  <2>3. Nat \subseteq S
    <3> HIDE DEF S
    <3>1. QED
      BY <2>1, <2>2, SetInduction
  <2>4. QED
    BY <2>3
<1>15. a = [k \in 0..L |-> a[k]]
  <2> HIDE DEF Body
  <2>1. QED
    BY <1>10
<1>16. a \in [0..L -> Saying]
  BY <1>14, <1>15
<1>17. QED
  <2>1. \A k \in 1..L : a[k] = Then(k, a[k - 1])
    BY <1>13
  <2> HIDE DEF Fix, Body
  <2>2. SaysBy(map, a, L)
    BY <1>12, <2>1 DEF SaysBy
  <2>3. QED
    BY <1>10, <1>16, <2>2

Count(map, m) == Literals(map.words[m.cursor])

\* The word at p is the marker m or one of its literals.
Covers(map, m, p) == m.cursor <= p /\ p <= m.cursor + Count(map, m)

\* A marker is a word of the bitmap, at a position before the end of its run.
LEMMA MarkersAre ==
    ASSUME NEW map, map.words \in Seq(Nat), NEW m \in Markers(map)
    PROVE  /\ m \in Turn /\ m.cursor \in Nat \ {0} /\ m.pos \in Nat /\ m.cursor <= Len(map.words)
           /\ map.words[m.cursor] \in Nat /\ Count(map, m) \in Nat
           /\ Repeat(map.words[m.cursor]) \in Nat /\ RunEnd(map, m) \in Nat
           /\ RunEnd(map, m) = m.pos + Repeat(map.words[m.cursor]) * WordBits
           /\ m.pos <= RunEnd(map, m)
<1>1. Turns(map) \in [0..Len(map.words) -> Turn]
  BY TurnsOf
<1>2. m \in Turn /\ m.cursor <= Len(map.words)
  BY <1>1 DEF Markers
<1>3. m.cursor \in Nat \ {0} /\ m.pos \in Nat
  BY <1>2 DEF Turn
<1>4. map.words[m.cursor] \in Nat
  BY <1>2, <1>3
<1> DEFINE w == map.words[m.cursor]
<1>5. Literals(w) \in Nat /\ Repeat(w) \in Nat
  BY <1>4, WordParts
<1>6. Repeat(w) * WordBits \in Nat
  <2> HIDE DEF w
  <2>1. QED
    BY <1>5, Bits
<1> DEFINE r == Repeat(w) * WordBits
<1>7. m.pos + r \in Nat /\ m.pos <= m.pos + r
  <2> HIDE DEF r
  <2>1. r \in Nat
    BY <1>6 DEF r
  <2>2. QED
    BY <1>3, <2>1
<1>8. QED
  BY <1>2, <1>3, <1>4, <1>5, <1>7 DEF Count, RunEnd

\* Every marker is behind the literals of the ones before it, and the loop ends.
LEMMA CursorsAscend ==
    ASSUME NEW map, map.words \in Seq(Nat), NEW L, L = Len(map.words), NEW t, t = Turns(map)
    PROVE  /\ \A k \in 0..L : t[k].cursor \in Nat
           /\ \A i, k \in 0..L : i < k /\ t[i].cursor <= L =>
                 t[i].cursor + Count(map, t[i]) < t[k].cursor
           /\ t[L].cursor > L
<1>1. L \in Nat
  OBVIOUS
<1>2. \A k \in 0..L : t[k] \in Turn /\ t[k].cursor \in Nat /\ t[k].cursor > 0
  <2>1. t \in [0..L -> Turn]
    BY TurnsOf
  <2>2. \A k \in 0..L : t[k] \in Turn
    BY <2>1
  <2>3. \A m \in Turn : m.cursor \in Nat /\ m.cursor > 0
    BY DEF Turn
  <2>4. QED
    BY <2>2, <2>3
<1>3. ASSUME NEW k \in 0..(L - 1)
      PROVE  /\ t[k].cursor <= t[k + 1].cursor
             /\ t[k].cursor <= L => /\ Count(map, t[k]) \in Nat
                                    /\ t[k + 1].cursor = t[k].cursor + 1 + Count(map, t[k])
  <2>1. k \in 0..L /\ k + 1 \in 1..L /\ (k + 1) - 1 = k
    OBVIOUS
  <2>2. t[k + 1] = TurnAfter(map, t[k])
    BY TurnsOf
  <2>3. t[k].cursor \in Nat
    BY <1>2, <2>1
  <2>4. CASE t[k].cursor > L
    BY <2>2, <2>3, <2>4, <1>1 DEF TurnAfter
  <2>5. CASE ~(t[k].cursor > L)
    <3>1. t[k + 1].cursor = t[k].cursor + 1 + Count(map, t[k])
      BY <2>2, <2>5 DEF Count, TurnAfter
    <3>2. t[k].cursor \in 1..L
      BY <1>1, <1>2, <2>1, <2>3, <2>5
    <3>3. map.words[t[k].cursor] \in Nat
      BY <3>2
    <3>4. Count(map, t[k]) \in Nat
      BY <3>3, WordParts DEF Count
    <3>5. QED
      BY <3>1, <3>4, <2>3
  <2>6. QED
    BY <2>4, <2>5
<1>4. ASSUME NEW i \in 0..L PROVE \A k \in 0..L : i <= k => t[i].cursor <= t[k].cursor
  <2> DEFINE S == {d \in Nat : i + d <= L => t[i].cursor <= t[i + d].cursor}
  <2>1. 0 \in S
    BY <1>2
  <2>2. ASSUME NEW d \in Nat, d \in S PROVE d + 1 \in S
    <3> SUFFICES ASSUME i + (d + 1) <= L PROVE t[i].cursor <= t[i + (d + 1)].cursor
      OBVIOUS
    <3>1. i + d \in 0..(L - 1) /\ (i + d) + 1 = i + (d + 1) /\ i + d \in 0..L /\ i + (d + 1) \in 0..L
      BY <1>1
    <3>2. t[i].cursor <= t[i + d].cursor
      BY <2>2, <3>1
    <3>3. t[i + d].cursor <= t[i + (d + 1)].cursor
      BY <1>3, <3>1
    <3>4. t[i].cursor \in Nat /\ t[i + d].cursor \in Nat /\ t[i + (d + 1)].cursor \in Nat
      BY <1>2, <3>1
    <3> DEFINE a == t[i].cursor  b == t[i + d].cursor  c == t[i + (d + 1)].cursor
    <3> HIDE DEF S, a, b, c
    <3>5. a <= b /\ b <= c /\ a \in Nat /\ b \in Nat /\ c \in Nat
      BY <3>2, <3>3, <3>4 DEF a, b, c
    <3>6. a <= c
      BY <3>5
    <3>7. QED
      BY <3>6 DEF a, c
  <2>3. Nat \subseteq S
    <3> HIDE DEF S
    <3>1. QED
      BY <2>1, <2>2, SetInduction
  <2>4. ASSUME NEW k \in 0..L, i <= k PROVE t[i].cursor <= t[k].cursor
    <3>1. k - i \in Nat /\ i + (k - i) = k
      BY <2>4
    <3>2. k - i \in S
      BY <2>3, <3>1
    <3>3. QED
      BY <3>1, <3>2
  <2>5. QED
    BY <2>4
<1>5. ASSUME NEW i \in 0..L, NEW k \in 0..L, i < k, t[i].cursor <= L
      PROVE  t[i].cursor + Count(map, t[i]) < t[k].cursor
  <2>1. i \in 0..(L - 1) /\ i + 1 \in 0..L /\ i + 1 <= k
    BY <1>5
  <2>2. t[i + 1].cursor <= t[k].cursor
    BY <1>4, <2>1
  <2>3. t[i + 1].cursor = t[i].cursor + 1 + Count(map, t[i]) /\ Count(map, t[i]) \in Nat
    BY <1>3, <1>5, <2>1
  <2>4. t[i].cursor \in Nat /\ t[k].cursor \in Nat
    BY <1>2
  <2>5. QED
    BY <2>2, <2>3, <2>4
<1>6. t[L].cursor > L
  <2> DEFINE S == {k \in Nat : k <= L => t[k].cursor >= k + 1}
  <2>1. 0 \in S
    <3>1. t[0].cursor > 0 /\ t[0].cursor \in Nat
      BY <1>1, <1>2
    <3>2. QED
      BY <3>1
  <2>2. ASSUME NEW k \in Nat, k \in S PROVE k + 1 \in S
    <3> SUFFICES ASSUME k + 1 <= L PROVE t[k + 1].cursor >= (k + 1) + 1
      OBVIOUS
    <3>1. k \in 0..(L - 1) /\ k \in 0..L /\ k + 1 \in 0..L
      BY <1>1
    <3>2. t[k].cursor \in Nat /\ t[k + 1].cursor \in Nat /\ t[k].cursor >= k + 1
      BY <1>2, <2>2, <3>1
    <3>3. t[k].cursor <= L => t[k + 1].cursor >= t[k].cursor + 1
      BY <1>3, <3>1, <3>2
    <3>4. t[k].cursor <= t[k + 1].cursor
      BY <1>3, <3>1
    <3>5. QED
      BY <3>2, <3>3, <3>4, <1>1
  <2>3. Nat \subseteq S
    <3> HIDE DEF S
    <3>1. QED
      BY <2>1, <2>2, SetInduction
  <2>4. L \in S
    BY <2>3, <1>1
  <2>5. QED
    <3>1. L \in 0..L
      BY <1>1
    <3>2. QED
      BY <2>4, <1>1, <1>2, <3>1
<1>7. QED
  BY <1>2, <1>5, <1>6

\* Every word is a marker or a literal of one, and of one only.
LEMMA CoversOnce ==
    ASSUME NEW map, map.words \in Seq(Nat), NEW p \in Nat,
           NEW m \in Markers(map), NEW n \in Markers(map), Covers(map, m, p), Covers(map, n, p)
    PROVE  m = n
<1> DEFINE L == Len(map.words)
           t == Turns(map)
<1>1. PICK i \in 0..L : m = t[i]
  BY DEF Markers
<1>2. PICK k \in 0..L : n = t[k]
  BY DEF Markers
<1>3. m.cursor <= L /\ n.cursor <= L /\ m.cursor \in Nat /\ n.cursor \in Nat
      /\ Count(map, m) \in Nat /\ Count(map, n) \in Nat
  BY MarkersAre
<1> HIDE DEF L, t
<1>4. \A a, b \in 0..L : a < b /\ t[a].cursor <= L => t[a].cursor + Count(map, t[a]) < t[b].cursor
  BY CursorsAscend DEF L, t
<1>5. ~(i < k)
  BY <1>1, <1>2, <1>3, <1>4 DEF Covers
<1>6. ~(k < i)
  BY <1>1, <1>2, <1>3, <1>4 DEF Covers
<1>7. i = k
  BY <1>5, <1>6, <1>1, <1>2 DEF L
<1>8. QED
  BY <1>1, <1>2, <1>7

\* The next turn after a marker whose literals end before the words do.
LEMMA NextMarker ==
    ASSUME NEW map, map.words \in Seq(Nat), NEW m \in Markers(map),
           m.cursor + Count(map, m) < Len(map.words)
    PROVE  \E n \in Markers(map) :
              /\ n.cursor = m.cursor + Count(map, m) + 1
              /\ n.pos = m.pos + (Repeat(map.words[m.cursor]) + Count(map, m)) * WordBits
<1> DEFINE L == Len(map.words)
           t == Turns(map)
<1>1. PICK i \in 0..L : m = t[i]
  BY DEF Markers
<1>2. m.cursor <= L /\ m.cursor \in Nat /\ Count(map, m) \in Nat /\ L \in Nat
  BY MarkersAre
<1>3. i # L
  <2>1. t[L].cursor > L
    BY CursorsAscend
  <2>2. QED
    BY <1>1, <1>2, <2>1
<1>4. i + 1 \in 1..L /\ (i + 1) - 1 = i /\ i + 1 \in 0..L
  BY <1>3, <1>2
<1>5. t[i + 1] = [cursor |-> m.cursor + 1 + Literals(map.words[m.cursor]),
                  pos |-> m.pos + (Repeat(map.words[m.cursor]) + Literals(map.words[m.cursor])) * WordBits]
  <2>1. i \in 0..(L - 1)
    BY <1>3, <1>2
  <2>2. t[i + 1] = TurnAfter(map, m)
    BY <1>1, <2>1, TurnsOf
  <2> HIDE DEF t
  <2>3. QED
    BY <2>2, <1>2 DEF TurnAfter
<1>6. t[i + 1].cursor = m.cursor + Count(map, m) + 1
  BY <1>5, <1>2 DEF Count
<1>7. t[i + 1] \in Markers(map)
  BY <1>4, <1>6, <1>2 DEF Markers
<1>8. t[i + 1].pos = m.pos + (Repeat(map.words[m.cursor]) + Count(map, m)) * WordBits
  BY <1>5 DEF Count
<1>9. QED
  BY <1>6, <1>7, <1>8

\* A bitmap of any words begins with a marker.
LEMMA FirstMarker ==
    ASSUME NEW map, map.words \in Seq(Nat), Len(map.words) > 0
    PROVE  \E m \in Markers(map) : m.cursor = 1 /\ m.pos = 0
<1>1. Turns(map)[0] = [cursor |-> 1, pos |-> 0]
  BY TurnsOf
<1>2. 0 \in 0..Len(map.words) /\ 1 <= Len(map.words)
  OBVIOUS
<1>3. Turns(map)[0] \in Markers(map)
  BY <1>1, <1>2 DEF Markers
<1>4. QED
  BY <1>1, <1>3

\* Every word is a marker or a literal of one.
LEMMA EveryWordIsCovered ==
    ASSUME NEW map, map.words \in Seq(Nat), NEW p \in 1..Len(map.words)
    PROVE  \E m \in Markers(map) : Covers(map, m, p)
<1> DEFINE L == Len(map.words)
           S == {q \in Nat : q + 1 <= L => \E m \in Markers(map) : Covers(map, m, q + 1)}
<1>1. 0 \in S
  <2> SUFFICES ASSUME 1 <= L PROVE \E m \in Markers(map) : Covers(map, m, 1)
    OBVIOUS
  <2>1. PICK m \in Markers(map) : m.cursor = 1
    BY FirstMarker
  <2>2. Count(map, m) \in Nat
    BY MarkersAre
  <2>3. QED
    BY <2>1, <2>2 DEF Covers
<1>2. ASSUME NEW q \in Nat, q \in S PROVE q + 1 \in S
  <2> SUFFICES ASSUME q + 1 + 1 <= L PROVE \E m \in Markers(map) : Covers(map, m, q + 1 + 1)
    OBVIOUS
  <2>0. L \in Nat
    OBVIOUS
  <2>1. PICK m \in Markers(map) : Covers(map, m, q + 1)
    BY <1>2, <2>0
  <2>2. Count(map, m) \in Nat /\ m.cursor \in Nat
    BY MarkersAre
  <2>3. CASE q + 1 + 1 <= m.cursor + Count(map, m)
    BY <2>1, <2>2, <2>3 DEF Covers
  <2>4. CASE ~(q + 1 + 1 <= m.cursor + Count(map, m))
    <3>1. m.cursor + Count(map, m) = q + 1
      BY <2>1, <2>2, <2>4 DEF Covers
    <3>2. PICK n \in Markers(map) : n.cursor = m.cursor + Count(map, m) + 1
      BY <3>1, NextMarker
    <3>3. Count(map, n) \in Nat /\ n.cursor = q + 1 + 1
      BY <3>1, <3>2, MarkersAre
    <3>4. QED
      BY <3>3 DEF Covers
  <2>5. QED
    BY <2>3, <2>4
<1>3. Nat \subseteq S
  <2> HIDE DEF S
  <2>1. QED
    BY <1>1, <1>2, SetInduction
<1>4. p - 1 \in Nat /\ (p - 1) + 1 = p /\ p <= L
  OBVIOUS
<1>5. p - 1 \in S
  BY <1>3, <1>4
<1>6. QED
  BY <1>4, <1>5

\* A marker is the first word, or comes after the literals of another.
LEMMA MarkerBefore ==
    ASSUME NEW map, map.words \in Seq(Nat), NEW m \in Markers(map)
    PROVE  \/ m.cursor = 1 /\ m.pos = 0
           \/ \E n \in Markers(map) :
                 /\ m.cursor = n.cursor + Count(map, n) + 1
                 /\ m.pos = n.pos + (Repeat(map.words[n.cursor]) + Count(map, n)) * WordBits
<1>1. m.cursor \in Nat \ {0} /\ m.cursor <= Len(map.words) /\ Count(map, m) \in Nat
      /\ Len(map.words) \in Nat
  BY MarkersAre
<1>2. CASE m.cursor = 1
  <2>1. PICK n \in Markers(map) : n.cursor = 1 /\ n.pos = 0
    BY <1>1, <1>2, FirstMarker
  <2>2. Count(map, n) \in Nat
    BY MarkersAre
  <2>3. Covers(map, m, 1) /\ Covers(map, n, 1)
    BY <1>1, <1>2, <2>1, <2>2 DEF Covers
  <2>4. m = n
    BY <2>3, CoversOnce
  <2>5. QED
    BY <2>1, <2>4
<1>3. CASE m.cursor # 1
  <2> DEFINE p == m.cursor - 1
  <2>1. p \in 1..Len(map.words) /\ p \in Nat /\ p + 1 \in Nat /\ p + 1 = m.cursor
    BY <1>1, <1>3
  <2> HIDE DEF p
  <2>2. PICK n \in Markers(map) : Covers(map, n, p)
    BY <2>1, EveryWordIsCovered
  <2>3. Count(map, n) \in Nat /\ n.cursor \in Nat
    BY MarkersAre
  <2>4. ~Covers(map, n, p + 1)
    <3> SUFFICES ASSUME Covers(map, n, p + 1) PROVE FALSE
      OBVIOUS
    <3>1. Covers(map, m, p + 1)
      BY <1>1, <2>1 DEF Covers
    <3>2. m = n
      BY <2>1, <3>1, CoversOnce
    <3>3. QED
      BY <3>2, <2>1, <2>2, <2>3 DEF Covers
  <2>5. p = n.cursor + Count(map, n)
    <3>1. p <= n.cursor + Count(map, n) /\ n.cursor <= p
      BY <2>2 DEF Covers
    <3>2. ~(n.cursor <= p + 1 /\ p + 1 <= n.cursor + Count(map, n))
      BY <2>4 DEF Covers
    <3>3. p \in Nat
      BY <2>1
    <3>4. QED
      BY <3>1, <3>2, <3>3, <2>3
  <2>55. n.cursor + Count(map, n) < Len(map.words)
    BY <1>1, <2>1, <2>5
  <2>6. PICK k \in Markers(map) :
          /\ k.cursor = n.cursor + Count(map, n) + 1
          /\ k.pos = n.pos + (Repeat(map.words[n.cursor]) + Count(map, n)) * WordBits
    BY <2>55, NextMarker
  <2>7. Covers(map, k, p + 1) /\ Covers(map, m, p + 1)
    <3>1. Count(map, k) \in Nat
      BY MarkersAre
    <3>2. QED
      BY <1>1, <2>1, <2>5, <2>6, <3>1 DEF Covers
  <2>8. m = k
    BY <2>1, <2>7, CoversOnce
  <2>9. QED
    BY <2>6, <2>8
<1>4. QED
  BY <1>2, <1>3

FullRun(map, m) ==
    IF Ones(map.words[m.cursor]) THEN m.pos..(RunEnd(map, m) - 1) ELSE {}

LiteralBits(map, m, j) ==
    {RunEnd(map, m) + (j - 1) * WordBits + b : b \in BitsOf(map.words[m.cursor + j])}

\* The bits that the first p words say are 1.
Told(map, p) ==
    {x \in Nat : \E m \in Markers(map) :
        /\ m.cursor <= p
        /\ x \in FullRun(map, m)
           \/ \E j \in 1..Count(map, m) : m.cursor + j <= p /\ x \in LiteralBits(map, m, j)}

\* The positions of a run and of a literal are numbers.
LEMMA BitsAreNumbers ==
    ASSUME NEW map, map.words \in Seq(Nat), NEW m \in Markers(map)
    PROVE  /\ FullRun(map, m) \subseteq Nat
           /\ \A j \in Nat \ {0} : LiteralBits(map, m, j) \subseteq Nat
<1>1. m.pos \in Nat /\ RunEnd(map, m) \in Nat
  BY MarkersAre
<1>2. FullRun(map, m) \subseteq Nat
  BY <1>1 DEF FullRun
<1>3. ASSUME NEW j \in Nat \ {0} PROVE LiteralBits(map, m, j) \subseteq Nat
  <2>1. (j - 1) * WordBits \in Nat
    <3>1. j - 1 \in Nat
      OBVIOUS
    <3>2. QED
      BY <3>1, Bits
  <2>2. BitsOf(map.words[m.cursor + j]) \subseteq Nat
    BY WordAssumption DEF BitsOf
  <2> DEFINE x == (j - 1) * WordBits
  <2>3. x \in Nat
    BY <2>1
  <2> HIDE DEF x
  <2>4. {RunEnd(map, m) + x + b : b \in BitsOf(map.words[m.cursor + j])} \subseteq Nat
    BY <2>2, <2>3, <1>1
  <2>5. QED
    BY <2>4 DEF LiteralBits, x
<1>4. QED
  BY <1>2, <1>3

\* What one more word tells.
LEMMA ToldStep ==
    ASSUME NEW map, map.words \in Seq(Nat), NEW p \in 1..Len(map.words),
           NEW m \in Markers(map), Covers(map, m, p)
    PROVE  Told(map, p) = Told(map, p - 1) \cup
              (IF m.cursor = p THEN FullRun(map, m) ELSE LiteralBits(map, m, p - m.cursor))
<1> DEFINE New == IF m.cursor = p THEN FullRun(map, m) ELSE LiteralBits(map, m, p - m.cursor)
<1>1. p \in Nat \ {0} /\ p - 1 \in Nat /\ Len(map.words) \in Nat
  OBVIOUS
<1>2. \A n \in Markers(map) : n.cursor \in Nat \ {0} /\ Count(map, n) \in Nat
  BY MarkersAre
<1>3. m.cursor <= p /\ p <= m.cursor + Count(map, m)
  BY DEF Covers
<1>4. ASSUME NEW x \in Told(map, p), x \notin Told(map, p - 1) PROVE x \in New
  <2>1. x \in Nat
    BY DEF Told
  <2>2. PICK n \in Markers(map) :
          /\ n.cursor <= p
          /\ x \in FullRun(map, n)
             \/ \E j \in 1..Count(map, n) : n.cursor + j <= p /\ x \in LiteralBits(map, n, j)
    BY DEF Told
  <2>3. n.cursor \in Nat \ {0} /\ Count(map, n) \in Nat
    BY <1>2
  <2>4. CASE x \in FullRun(map, n)
    <3>1. ~(n.cursor <= p - 1)
      BY <2>1, <2>4, <1>4 DEF Told
    <3>2. n.cursor = p
      BY <3>1, <2>2, <2>3, <1>1
    <3>3. Covers(map, n, p)
      BY <3>2, <2>3, <1>1 DEF Covers
    <3>4. n = m
      BY <3>3, <1>1, CoversOnce
    <3>5. QED
      BY <3>2, <3>4, <2>4
  <2>5. CASE \E j \in 1..Count(map, n) : n.cursor + j <= p /\ x \in LiteralBits(map, n, j)
    <3>1. PICK j \in 1..Count(map, n) : n.cursor + j <= p /\ x \in LiteralBits(map, n, j)
      BY <2>5
    <3>2. j \in Nat \ {0} /\ j <= Count(map, n)
      OBVIOUS
    <3>3. ~(n.cursor + j <= p - 1)
      <4> SUFFICES ASSUME n.cursor + j <= p - 1 PROVE FALSE
        OBVIOUS
      <4>1. n.cursor <= p - 1
        BY <3>2, <2>3, <1>1
      <4>2. \E i \in 1..Count(map, n) : n.cursor + i <= p - 1 /\ x \in LiteralBits(map, n, i)
        BY <3>1
      <4>3. x \in Told(map, p - 1)
        BY <4>1, <4>2, <2>1 DEF Told
      <4>4. QED
        BY <4>3, <1>4
    <3>4. n.cursor + j = p
      <4>1. n.cursor + j <= p /\ ~(n.cursor + j <= p - 1) /\ n.cursor + j \in Nat
        BY <3>1, <3>2, <3>3, <2>3
      <4>2. QED
        BY <4>1, <1>1
    <3>5. Covers(map, n, p)
      BY <3>2, <3>4, <2>3, <1>1 DEF Covers
    <3>6. n = m
      BY <3>5, <1>1, CoversOnce
    <3>7. m.cursor # p /\ p - m.cursor = j
      BY <3>4, <3>6, <3>2, <2>3
    <3>8. QED
      BY <3>1, <3>6, <3>7
  <2>6. QED
    BY <2>2, <2>4, <2>5
<1>5. ASSUME NEW x \in Told(map, p - 1) PROVE x \in Told(map, p)
  <2>1. x \in Nat
    BY DEF Told
  <2>2. PICK n \in Markers(map) :
          /\ n.cursor <= p - 1
          /\ x \in FullRun(map, n)
             \/ \E j \in 1..Count(map, n) : n.cursor + j <= p - 1 /\ x \in LiteralBits(map, n, j)
    BY DEF Told
  <2>3. /\ n.cursor \in Nat /\ n.cursor <= p
        /\ \A j \in 1..Count(map, n) : n.cursor + j <= p - 1 => n.cursor + j <= p
    BY <1>1, <1>2, <2>2
  <2>4. QED
    BY <2>1, <2>2, <2>3 DEF Told
<1>6. ASSUME NEW x \in New PROVE x \in Told(map, p)
  <2>1. CASE m.cursor = p
    <3>1. x \in FullRun(map, m) /\ x \in Nat
      BY <1>6, <2>1, BitsAreNumbers
    <3>2. QED
      BY <3>1, <1>3 DEF Told
  <2>2. CASE m.cursor # p
    <3> DEFINE j == p - m.cursor
    <3>1. j \in 1..Count(map, m) /\ m.cursor + j <= p /\ j \in Nat \ {0}
      BY <1>1, <1>2, <1>3, <2>2
    <3>2. x \in LiteralBits(map, m, j)
      BY <1>6, <2>2
    <3> HIDE DEF j
    <3>3. x \in Nat
      BY <3>1, <3>2, BitsAreNumbers
    <3>4. QED
      BY <3>1, <3>2, <3>3, <1>3 DEF Told
  <2>3. QED
    BY <2>1, <2>2
<1>7. QED
  <2> HIDE DEF New
  <2>1. Told(map, p) = Told(map, p - 1) \cup New
    BY <1>4, <1>5, <1>6
  <2>2. QED
    BY <2>1 DEF New

\* Multiplication by the bits of a word distributes: the prover needs an induction.
LEMMA Distributes ==
    ASSUME NEW i \in Nat, NEW j \in Nat
    PROVE  (i + j) * WordBits = i * WordBits + j * WordBits
BY WordAssumption, Z3

\* Where the reference decoder is at a word that m covers.
LEMMA SaidAtWord ==
    ASSUME NEW map, map.words \in Seq(Nat), NEW L, L = Len(map.words),
           NEW a \in [0..L -> Saying],
           SaysBy(map, a, L)
    PROVE  \A p \in 0..L :
              /\ \A m \in Markers(map) : Covers(map, m, p) =>
                    /\ a[p].left = m.cursor + Count(map, m) - p
                    /\ a[p].end = RunEnd(map, m) + (p - m.cursor) * WordBits
              /\ a[p].set = Told(map, p)
<1> DEFINE At(p) == \A m \in Markers(map) : Covers(map, m, p) =>
                       /\ a[p].left = m.cursor + Count(map, m) - p
                       /\ a[p].end = RunEnd(map, m) + (p - m.cursor) * WordBits
           S == {p \in Nat : p <= L => At(p) /\ a[p].set = Told(map, p)}
<1>0. L \in Nat
  OBVIOUS
<1>a. a[0] = [left |-> 0, end |-> 0, set |-> {}] /\ \A k \in 1..L : a[k] = SayAfter(map.words[k], a[k - 1])
  BY DEF SaysBy
<1>1. \A m \in Markers(map) :
         /\ m.cursor \in Nat \ {0} /\ Count(map, m) \in Nat /\ m.pos \in Nat
         /\ Repeat(map.words[m.cursor]) \in Nat
         /\ RunEnd(map, m) \in Nat
         /\ RunEnd(map, m) = m.pos + Repeat(map.words[m.cursor]) * WordBits
  BY MarkersAre
<1>2. 0 \in S
  <2>1. At(0)
    BY <1>1 DEF Covers
  <2>2. Told(map, 0) = {}
    BY <1>1 DEF Told
  <2>3. a[0].set = {}
    BY <1>a
  <2> HIDE DEF At
  <2>4. QED
    BY <2>1, <2>2, <2>3
<1>3. ASSUME NEW q \in Nat, q \in S, q + 1 <= L,
             NEW m \in Markers(map), Covers(map, m, q + 1)
      PROVE  /\ a[q + 1].left = m.cursor + Count(map, m) - (q + 1)
             /\ a[q + 1].end = RunEnd(map, m) + ((q + 1) - m.cursor) * WordBits
             /\ a[q + 1].set = Told(map, q + 1)
  <2> DEFINE p == q + 1
             word == map.words[p]
             run == Repeat(word) * WordBits
  <2>1. p \in 1..L /\ p - 1 = q /\ q \in 0..L /\ p \in Nat /\ p \in 1..Len(map.words)
    BY <1>0, <1>3
  <2>2. a[p] = SayAfter(word, a[q])
    <3> HIDE DEF p
    <3>1. QED
      BY <1>a, <2>1
  <2>3. At(q) /\ a[q].set = Told(map, q)
    BY <2>1, <1>3
  <2>4. m.cursor \in Nat \ {0} /\ Count(map, m) \in Nat /\ m.cursor <= p /\ p <= m.cursor + Count(map, m)
        /\ RunEnd(map, m) \in Nat
    BY <1>1, <1>3 DEF Covers
  <2>5. Told(map, p) = Told(map, q) \cup
              (IF m.cursor = p THEN FullRun(map, m) ELSE LiteralBits(map, m, p - m.cursor))
    BY <2>1, <1>3, ToldStep
  <2>6. CASE m.cursor = p
    <3>1. a[q].left = 0 /\ a[q].end = m.pos
      <4>1. CASE m.cursor = 1 /\ m.pos = 0
        <5>1. q = 0
          BY <2>6, <4>1, <2>1
        <5>2. QED
          BY <1>a, <5>1, <4>1
      <4>2. CASE \E n \in Markers(map) :
                 /\ m.cursor = n.cursor + Count(map, n) + 1
                 /\ m.pos = n.pos + (Repeat(map.words[n.cursor]) + Count(map, n)) * WordBits
        <5>1. PICK n \in Markers(map) :
                 /\ m.cursor = n.cursor + Count(map, n) + 1
                 /\ m.pos = n.pos + (Repeat(map.words[n.cursor]) + Count(map, n)) * WordBits
          BY <4>2
        <5>2. n.cursor \in Nat \ {0} /\ Count(map, n) \in Nat /\ n.pos \in Nat
              /\ Repeat(map.words[n.cursor]) \in Nat
              /\ RunEnd(map, n) = n.pos + Repeat(map.words[n.cursor]) * WordBits
          BY <1>1
        <5>3. q = n.cursor + Count(map, n) /\ q - n.cursor = Count(map, n)
          <6>1. n.cursor + Count(map, n) + 1 = q + 1
            BY <5>1, <2>6
          <6>2. n.cursor \in Nat /\ Count(map, n) \in Nat
            BY <5>2
          <6>3. QED
            BY <6>1, <6>2
        <5>4. Covers(map, n, q)
          BY <5>2, <5>3 DEF Covers
        <5>5. a[q].left = n.cursor + Count(map, n) - q
              /\ a[q].end = RunEnd(map, n) + Count(map, n) * WordBits
          BY <5>3, <5>4, <2>3
        <5>6. (Repeat(map.words[n.cursor]) + Count(map, n)) * WordBits
                = Repeat(map.words[n.cursor]) * WordBits + Count(map, n) * WordBits
          BY <5>2, Distributes
        <5>7. Repeat(map.words[n.cursor]) * WordBits \in Nat /\ Count(map, n) * WordBits \in Nat
          BY <5>2, Bits
        <5>8. QED
          <6> DEFINE x == Repeat(map.words[n.cursor]) * WordBits
                     y == Count(map, n) * WordBits
          <6>1. x \in Nat /\ y \in Nat /\ m.pos = n.pos + (x + y) /\ a[q].end = (n.pos + x) + y
            BY <5>1, <5>2, <5>5, <5>6, <5>7
          <6> HIDE DEF x, y
          <6>2. a[q].end = m.pos
            BY <6>1, <5>2
          <6>3. a[q].left = 0
            BY <5>2, <5>3, <5>5
          <6>4. QED
            BY <6>2, <6>3
      <4>3. QED
        BY <4>1, <4>2, MarkerBefore
    <3>2. a[p] = [left |-> Literals(word), end |-> m.pos + run,
                  set |-> a[q].set \cup (IF Ones(word) THEN m.pos..(m.pos + run - 1) ELSE {})]
      <4> HIDE DEF p, word
      <4>1. QED
        BY <2>2, <3>1 DEF SayAfter
    <3>3. RunEnd(map, m) = m.pos + run /\ Count(map, m) = Literals(word)
      BY <2>6, <1>1 DEF Count
    <3>4. (p - m.cursor) * WordBits = 0 /\ m.cursor + Count(map, m) - p = Count(map, m)
      <4>1. p - m.cursor = 0 /\ m.cursor + Count(map, m) - p = Count(map, m)
        BY <2>4, <2>6
      <4>2. 0 * WordBits = 0
        BY WordAssumption
      <4>3. QED
        BY <4>1, <4>2
    <3>5. FullRun(map, m) = IF Ones(word) THEN m.pos..(m.pos + run - 1) ELSE {}
      <4>1. map.words[m.cursor] = word
        BY <2>6
      <4> HIDE DEF run, word, p
      <4>2. QED
        BY <3>3, <4>1 DEF FullRun
    <3>6. a[p].set = Told(map, p)
      <4> HIDE DEF run, word, p
      <4>1. QED
        BY <3>2, <3>5, <2>3, <2>5, <2>6
    <3>7. a[p].left = m.cursor + Count(map, m) - p
      <4> HIDE DEF run, word, p
      <4>1. QED
        BY <3>2, <3>3, <3>4
    <3>8. a[p].end = RunEnd(map, m) + (p - m.cursor) * WordBits
      <4>1. a[p].end = RunEnd(map, m)
        <5> HIDE DEF run, word, p
        <5>1. QED
          BY <3>2, <3>3
      <4>2. QED
        BY <4>1, <3>4, <2>4
    <3>9. QED
      BY <3>6, <3>7, <3>8
  <2>7. CASE m.cursor # p
    <3> DEFINE d == q - m.cursor
    <3>1. Covers(map, m, q) /\ d \in Nat /\ p - m.cursor = d + 1 /\ (p - m.cursor) - 1 = d
      <4>1. m.cursor \in Nat /\ Count(map, m) \in Nat /\ m.cursor <= q + 1 /\ m.cursor # q + 1
            /\ q + 1 <= m.cursor + Count(map, m)
        BY <2>4, <2>7
      <4>2. m.cursor <= q /\ q <= m.cursor + Count(map, m) /\ d \in Nat
        BY <4>1
      <4>3. p - m.cursor = d + 1 /\ (p - m.cursor) - 1 = d
        BY <4>1
      <4>4. QED
        BY <4>2, <4>3 DEF Covers
    <3>2. a[q].left = m.cursor + Count(map, m) - q /\ a[q].end = RunEnd(map, m) + d * WordBits
      BY <3>1, <2>3
    <3>3. a[q].left > 0 /\ a[q].left - 1 = m.cursor + Count(map, m) - p
      BY <3>2, <2>1, <2>4
    <3>4. a[p] = [left |-> a[q].left - 1, end |-> a[q].end + WordBits,
                  set |-> a[q].set \cup {a[q].end + b : b \in BitsOf(word)}]
      <4> HIDE DEF p, word
      <4>1. QED
        BY <2>2, <3>3 DEF SayAfter
    <3>5. d * WordBits \in Nat /\ (d + 1) * WordBits = d * WordBits + WordBits
      <4> HIDE DEF d
      <4>1. QED
        BY <3>1, Bits
    <3>6. a[p].end = RunEnd(map, m) + (p - m.cursor) * WordBits
      <4>1. a[p].end = (RunEnd(map, m) + d * WordBits) + WordBits
        <5> HIDE DEF p, word, run, d
        <5>1. QED
          BY <3>4, <3>2
      <4>2. (p - m.cursor) * WordBits = d * WordBits + WordBits
        <5> HIDE DEF d, p
        <5>1. QED
          BY <3>1, <3>5
      <4> DEFINE x == d * WordBits
      <4>3. x \in Nat /\ a[p].end = (RunEnd(map, m) + x) + WordBits /\ (p - m.cursor) * WordBits = x + WordBits
        BY <4>1, <4>2, <3>5
      <4>4. QED
        <5> HIDE DEF x, p, d
        <5>1. QED
          BY <4>3, <2>4, WordAssumption
    <3>7. LiteralBits(map, m, p - m.cursor) = {a[q].end + b : b \in BitsOf(word)}
      <4>1. m.cursor + (p - m.cursor) = p
        BY <2>1, <2>4
      <4> HIDE DEF d, p
      <4>2. QED
        BY <3>1, <3>2, <4>1 DEF LiteralBits
    <3>8. a[p].set = Told(map, p)
      <4> HIDE DEF run, word, p
      <4>1. QED
        BY <3>4, <3>7, <2>3, <2>5, <2>7
    <3>9. a[p].left = m.cursor + Count(map, m) - p
      <4> HIDE DEF run, word, p
      <4>1. QED
        BY <3>3, <3>4
    <3>10. QED
      BY <3>6, <3>8, <3>9
  <2>8. QED
    BY <2>6, <2>7
<1>4. ASSUME NEW q \in Nat, q \in S PROVE q + 1 \in S
  <2> SUFFICES ASSUME q + 1 <= L PROVE At(q + 1) /\ a[q + 1].set = Told(map, q + 1)
    OBVIOUS
  <2>1. At(q + 1)
    <3> HIDE DEF S
    <3>1. QED
      BY <1>3, <1>4
  <2>2. q + 1 \in 1..Len(map.words)
    BY <1>0
  <2>3. PICK m \in Markers(map) : Covers(map, m, q + 1)
    BY <2>2, EveryWordIsCovered
  <2>4. a[q + 1].set = Told(map, q + 1)
    <3> HIDE DEF S
    <3>1. QED
      BY <1>3, <1>4, <2>3
  <2>5. QED
    BY <2>1, <2>4
<1>5. Nat \subseteq S
  <2> HIDE DEF S
  <2>1. QED
    BY <1>2, <1>4, SetInduction
<1>6. ASSUME NEW p \in 0..L PROVE At(p) /\ a[p].set = Told(map, p)
  <2>1. p \in Nat /\ p <= L
    BY <1>0
  <2>2. p \in S
    BY <1>5, <2>1
  <2>3. QED
    BY <2>1, <2>2
<1>7. QED
  BY <1>6

IsBitmap(map) == map.size \in Nat /\ map.words \in Seq(Nat)

\* What a bitmap denotes is what its markers and their literals say.
LEMMA DenotedIsTold ==
    ASSUME NEW map, IsBitmap(map)
    PROVE  Denoted(map) = Told(map, Len(map.words)) /\ Denoted(map) \subseteq Nat
<1> DEFINE L == Len(map.words)
<1>1. map.words \in Seq(Nat) /\ L \in Nat /\ L \in 0..L
  BY DEF IsBitmap
<1>2. PICK a \in [0..L -> Saying] : Said(map) = a[L] /\ SaysBy(map, a, L)
  BY <1>1, SaidIs
<1>3. a[L].set = Told(map, L)
  <2> HIDE DEF L
  <2>1. L = Len(map.words)
    BY DEF L
  <2>2. QED
    BY <1>1, <1>2, <2>1, SaidAtWord
<1>4. Told(map, L) \subseteq Nat
  BY DEF Told
<1>5. QED
  BY <1>2, <1>3, <1>4 DEF Denoted

\* A marker that counts more literals than there are leaves some to come.
LEMMA CountsTooMany ==
    ASSUME NEW map, IsBitmap(map), NEW m \in Markers(map),
           Literals(map.words[m.cursor]) > Len(map.words) - m.cursor
    PROVE  Said(map).left > 0
<1> DEFINE L == Len(map.words)
<1>1. map.words \in Seq(Nat) /\ L \in Nat /\ L \in 0..L
  BY DEF IsBitmap
<1>2. PICK a \in [0..L -> Saying] : Said(map) = a[L] /\ SaysBy(map, a, L)
  BY <1>1, SaidIs
<1>3. m.cursor \in Nat /\ Count(map, m) \in Nat /\ m.cursor <= L /\ Count(map, m) > L - m.cursor
  BY <1>1, MarkersAre DEF Count
<1>4. Covers(map, m, L)
  BY <1>1, <1>3 DEF Covers
<1>5. a[L].left = m.cursor + Count(map, m) - L
  <2> HIDE DEF L
  <2>1. L = Len(map.words)
    BY DEF L
  <2>2. a \in [0..L -> Saying] /\ SaysBy(map, a, L)
    BY <1>2
  <2>3. QED
    BY <1>1, <1>4, <2>1, <2>2, SaidAtWord
<1>6. QED
  BY <1>1, <1>2, <1>3, <1>5

\* No position is taken from a bitmap that it does not denote, and none left out
\* but those beyond its size.
LEMMA PositionsAreDenoted ==
    ASSUME NEW map, IsBitmap(map)
    PROVE  /\ Meant(map) \subseteq Positions(map) /\ Positions(map) \subseteq Denoted(map)
           /\ \A m \in Markers(map) : LiteralsOf(map, m) \subseteq Denoted(map)
<1> DEFINE L == Len(map.words)
<1>1. map.words \in Seq(Nat) /\ L \in Nat /\ map.size \in Nat
  BY DEF IsBitmap
<1>2. Denoted(map) = Told(map, L)
  BY DenotedIsTold
<1>3. \A m \in Markers(map) :
         /\ m.cursor \in Nat \ {0} /\ m.cursor <= L /\ Count(map, m) \in Nat
         /\ m.pos \in Nat /\ RunEnd(map, m) \in Nat
  BY <1>1, MarkersAre
<1>4. \A m \in Markers(map) :
         LiteralWords(map, m) = {j \in 1..Count(map, m) : m.cursor + j <= L}
  BY DEF LiteralWords, Count
<1>5. \A m \in Markers(map) :
         LiteralsOf(map, m) = UNION {LiteralBits(map, m, j) : j \in LiteralWords(map, m)}
  BY DEF LiteralsOf, LiteralBits
<1>6. ASSUME NEW m \in Markers(map), NEW x \in LiteralsOf(map, m) PROVE x \in Denoted(map)
  <2>1. PICK j \in 1..Count(map, m) : m.cursor + j <= L /\ x \in LiteralBits(map, m, j)
    BY <1>4, <1>5, <1>6
  <2>2. j \in Nat \ {0}
    OBVIOUS
  <2>3. x \in Nat
    BY <1>1, <2>1, <2>2, BitsAreNumbers
  <2> HIDE DEF L
  <2>4. x \in Told(map, L)
    BY <1>3, <2>1, <2>3 DEF Told
  <2>5. QED
    BY <1>2, <2>4
<1>7. ASSUME NEW m \in Markers(map), NEW x \in RunOf(map, m) PROVE x \in Denoted(map)
  <2>1. x \in FullRun(map, m) /\ x \in Nat
    BY <1>1, <1>3, <1>7 DEF RunOf, FullRun, Clipped
  <2> HIDE DEF L
  <2>2. x \in Told(map, L)
    BY <1>3, <2>1 DEF Told
  <2>3. QED
    BY <1>2, <2>2
<1>8. Positions(map) \subseteq Denoted(map)
  BY <1>6, <1>7 DEF Positions
<1>9. ASSUME NEW x \in Meant(map) PROVE x \in Positions(map)
  <2>1. x \in Told(map, L) /\ x \in Nat /\ x < map.size
    BY <1>1, <1>2 DEF Meant
  <2>2. PICK m \in Markers(map) :
           /\ m.cursor <= L
           /\ x \in FullRun(map, m)
              \/ \E j \in 1..Count(map, m) : m.cursor + j <= L /\ x \in LiteralBits(map, m, j)
    <3> HIDE DEF L
    <3>1. QED
      BY <2>1 DEF Told
  <2>3. CASE x \in FullRun(map, m)
    <3>1. x \in RunOf(map, m)
      BY <1>1, <1>3, <2>1, <2>3 DEF RunOf, FullRun, Clipped
    <3>2. QED
      BY <3>1 DEF Positions
  <2>4. CASE \E j \in 1..Count(map, m) : m.cursor + j <= L /\ x \in LiteralBits(map, m, j)
    <3>1. \E j \in LiteralWords(map, m) : x \in LiteralBits(map, m, j)
      BY <1>4, <2>4
    <3>2. x \in LiteralsOf(map, m)
      BY <1>5, <3>1
    <3>3. QED
      BY <3>2 DEF Positions
  <2>5. QED
    BY <2>2, <2>3, <2>4
<1>10. QED
  BY <1>6, <1>8, <1>9

\* A bitmap that is not refused is read as what it means, within its limit.
LEMMA PositionsAreMeant ==
    ASSUME NEW map, IsBitmap(map), NEW limit \in Nat, ~Malformed(map, limit)
    PROVE  Positions(map) = Meant(map) /\ Positions(map) \subseteq 0..(limit - 1)
<1>1. map.words \in Seq(Nat) /\ map.size \in Nat
  BY DEF IsBitmap
<1>2. Meant(map) \subseteq Positions(map) /\ Positions(map) \subseteq Denoted(map)
      /\ Denoted(map) \subseteq Nat
      /\ \A m \in Markers(map) : LiteralsOf(map, m) \subseteq Denoted(map)
  BY PositionsAreDenoted, DenotedIsTold
<1>3. ASSUME NEW m \in Markers(map), NEW x \in RunOf(map, m)
      PROVE  x \in 0..(limit - 1) /\ x \in 0..(map.size - 1)
  <2>1. m.pos \in Nat /\ RunEnd(map, m) \in Nat
    BY <1>1, MarkersAre
  <2>2. Ones(map.words[m.cursor]) /\ x \in m.pos..(Clipped(map, RunEnd(map, m)) - 1)
    BY <1>3 DEF RunOf
  <2>3. ~(Clipped(map, RunEnd(map, m)) > limit)
    BY <2>2 DEF Malformed
  <2>4. Clipped(map, RunEnd(map, m)) \in Nat /\ Clipped(map, RunEnd(map, m)) <= map.size
    BY <2>1, <1>1 DEF Clipped
  <2>5. QED
    BY <2>1, <2>2, <2>3, <2>4, <1>1
<1>4. ASSUME NEW m \in Markers(map), NEW x \in LiteralsOf(map, m)
      PROVE  x \in 0..(limit - 1) /\ x \in 0..(map.size - 1)
  <2>1. ~(x >= map.size) /\ ~(x >= limit)
    BY DEF Malformed
  <2>2. x \in Nat
    BY <1>2, <1>4
  <2>3. QED
    BY <2>1, <2>2, <1>1
<1>5. \A x \in Positions(map) : x \in 0..(limit - 1) /\ x \in 0..(map.size - 1)
  BY <1>3, <1>4 DEF Positions
<1>6. QED
  BY <1>2, <1>5 DEF Meant

\* What _bitmap refuses is damaged.
LEMMA MalformedIsDamaged ==
    ASSUME NEW map, IsBitmap(map), NEW limit \in Nat, Malformed(map, limit)
    PROVE  Damaged(map, limit)
<1>1. map.words \in Seq(Nat) /\ map.size \in Nat
  BY DEF IsBitmap
<1>2. CASE map.cut \/ (map.words # <<>> /\ map.rlw >= Len(map.words))
  BY <1>2 DEF Damaged
<1>3. ASSUME NEW m \in Markers(map), Literals(map.words[m.cursor]) > Len(map.words) - m.cursor
      PROVE  Damaged(map, limit)
  BY <1>3, CountsTooMany DEF Damaged
<1>4. ASSUME NEW m \in Markers(map), Clipped(map, RunEnd(map, m)) > limit
      PROVE  Damaged(map, limit)
  <2>1. RunEnd(map, m) \in Nat
    BY <1>1, MarkersAre
  <2>2. map.size > limit
    BY <1>1, <1>4, <2>1 DEF Clipped
  <2>3. QED
    BY <2>2 DEF Damaged
<1>5. ASSUME NEW m \in Markers(map), NEW p \in LiteralsOf(map, m), p >= map.size \/ p >= limit
      PROVE  Damaged(map, limit)
  <2>1. p \in Denoted(map) /\ p \in Nat
    BY <1>5, PositionsAreDenoted, DenotedIsTold
  <2>2. CASE p >= map.size
    <3>1. p \notin Meant(map)
      BY <2>1, <2>2, <1>1 DEF Meant
    <3>2. QED
      BY <2>1, <3>1 DEF Damaged
  <2>3. CASE p < map.size
    <3>1. map.size > limit
      BY <1>1, <1>5, <2>1, <2>3
    <3>2. QED
      BY <3>1 DEF Damaged
  <2>4. QED
    BY <2>1, <2>2, <2>3, <1>1
<1>6. QED
  BY <1>2, <1>3, <1>4, <1>5 DEF Malformed

\* A split index that cannot be merged is damaged, as RefusesOnlyDamaged says.
LEMMA UnmergeableIsDamaged ==
    ASSUME NEW f, IsBitmap(f.link.deleted), IsBitmap(f.link.replaced),
           NEW S, f.records \in Seq(S), NEW B, f.link.base \in Seq(B), Unmergeable(f)
    PROVE  LET link == f.link  n == Len(link.base)  new == Meant(link.replaced) IN
           \/ Damaged(link.deleted, n) \/ Damaged(link.replaced, n) \/ ~link.whole
           \/ Meant(link.deleted) \cap new # {} \/ Cardinality(new) > Len(f.records)
           \/ \E k \in DOMAIN f.records : (f.records[k].name = 0) # (k <= Cardinality(new))
           \/ \E i \in new : link.base[i + 1].name = 0
<1> DEFINE n == Len(f.link.base)
           new == Meant(f.link.replaced)
           gone == Meant(f.link.deleted)
<1>1. n \in Nat /\ Len(f.records) \in Nat
  OBVIOUS
<1>2. SUFFICES ASSUME ~Damaged(f.link.deleted, n), ~Damaged(f.link.replaced, n), f.link.whole,
                      gone \cap new = {}, ~(Cardinality(new) > Len(f.records))
               PROVE  \/ \E k \in DOMAIN f.records :
                            (f.records[k].name = 0) # (k <= Cardinality(new))
                      \/ \E i \in new : f.link.base[i + 1].name = 0
  BY Zenon
<1>3. ~Malformed(f.link.deleted, n) /\ ~Malformed(f.link.replaced, n)
  <2> HIDE DEF n
  <2>1. QED
    BY <1>1, <1>2, MalformedIsDamaged
<1>4. Positions(f.link.deleted) = gone /\ Positions(f.link.replaced) = new
  <2> HIDE DEF n
  <2>1. QED
    BY <1>1, <1>3, PositionsAreMeant
<1>5. \/ \E k \in 1..Cardinality(new) : f.records[k].name # 0
      \/ \E i \in new : f.link.base[i + 1].name = 0
  <2> HIDE DEF gone, new
  <2>1. QED
    BY <1>2, <1>3, <1>4 DEF Unmergeable, n
<1>6. ASSUME NEW k \in 1..Cardinality(new), f.records[k].name # 0
      PROVE  \E i \in DOMAIN f.records : (f.records[i].name = 0) # (i <= Cardinality(new))
  <2>1. Cardinality(new) \in Nat
    <3>0. f.link.replaced.size - 1 \in Int /\ 0 \in Int
      BY DEF IsBitmap
    <3>1. IsFiniteSet(0..(f.link.replaced.size - 1))
      BY <3>0, FS_Interval
    <3>2. IsFiniteSet(new)
      BY <3>1, FS_Subset DEF Meant
    <3>3. QED
      BY <3>2, FS_CardinalityType
  <2> HIDE DEF new
  <2>2. k \in DOMAIN f.records /\ k <= Cardinality(new)
    BY <1>1, <1>2, <2>1
  <2>3. QED
    BY <2>2, <1>6
<1>7. QED
  <2> HIDE DEF new
  <2>1. QED
    BY <1>5, <1>6

-----------------------------------------------------------------------------
(* The entries of an index in their order.                                  *)

\* The values of a function with a finite domain are finitely many.
LEMMA ImageIsFinite ==
    ASSUME NEW f, IsFiniteSet(DOMAIN f)
    PROVE  IsFiniteSet({f[x] : x \in DOMAIN f})
<1> DEFINE T == {f[x] : x \in DOMAIN f}
           g == [x \in DOMAIN f |-> f[x]]
<1>1. g \in Surjection(DOMAIN f, T)
  BY DEF Surjection
<1>2. QED
  <2> HIDE DEF g, T
  <2>1. IsFiniteSet(T)
    BY <1>1, FS_Surjection
  <2>2. QED
    BY <2>1 DEF T

\* The elements of a sequence are finitely many.
LEMMA ToSetIsFinite ==
    ASSUME NEW S, NEW s \in Seq(S)
    PROVE  IsFiniteSet(ToSet(s)) /\ ToSet(s) \subseteq S
<1>1. DOMAIN s = 1..Len(s) /\ Len(s) \in Int /\ 1 \in Int
  OBVIOUS
<1>2. IsFiniteSet(DOMAIN s)
  BY <1>1, FS_Interval
<1>3. QED
  BY <1>2, ImageIsFinite DEF ToSet

\* Entries of which no two have both the same name and the same stage.
AreDistinct(S) ==
    /\ IsFiniteSet(S) /\ \A e \in S : e.name \in Int /\ e.stage \in Int
    /\ \A e, f \in S : e.name = f.name /\ e.stage = f.stage => e = f

\* The sequence of a set of entries holds all of them, each once, in order.
LEMMA InOrderIs ==
    ASSUME NEW S, AreDistinct(S)
    PROVE  /\ InOrder(S) \in Seq(S) /\ Len(InOrder(S)) = Cardinality(S) /\ Cardinality(S) \in Nat
           /\ DOMAIN InOrder(S) = 1..Cardinality(S)
           /\ ToSet(InOrder(S)) = S /\ IsOrdered(InOrder(S))
           /\ \A i, j \in DOMAIN InOrder(S) : InOrder(S)[i] = InOrder(S)[j] => i = j
<1> DEFINE R == {r \in S \X S : Precedes(r[1], r[2])}
           n == Cardinality(S)
           rank == RankIn(S, R)
           s == InOrder(S)
<1>1. IsFiniteSet(S) /\ \A e \in S : e.name \in Int /\ e.stage \in Int
  BY DEF AreDistinct
<1>2. \A e, f \in S : <<e, f>> \in R <=> Precedes(e, f)
  OBVIOUS
<1>3. R \in SUBSET (S \X S)
  OBVIOUS
<1> HIDE DEF R
<1>4. \A e \in S : <<e, e>> \notin R
  BY <1>1, <1>2 DEF Precedes
<1>5. \A e, f, g \in S : <<e, f>> \in R /\ <<f, g>> \in R => <<e, g>> \in R
  BY <1>1, <1>2 DEF Precedes
<1>6. \A e, f \in S : e # f => <<e, f>> \in R \/ <<f, e>> \in R
  BY <1>1, <1>2 DEF Precedes, AreDistinct
<1>7. rank = [e \in S |-> Cardinality({f \in S : <<f, e>> \in R})]
  BY DEF RankIn
<1> HIDE DEF rank
<1>8. /\ n \in Nat
      /\ rank \in [S -> 0..(n - 1)]
      /\ \A e, f \in S : <<e, f>> \in R => rank[e] < rank[f]
      /\ \A e, f \in S : rank[e] = rank[f] => e = f
      /\ \A k \in 0..(n - 1) : \E e \in S : rank[e] = k
  <2>1. IsStrictTotal(S, R)
    BY <1>3, <1>4, <1>5, <1>6 DEF IsStrictTotal
  <2>2. AreRanks(S, R, rank, n)
    BY <1>1, <2>1, Ranking DEF rank
  <2>3. QED
    BY <2>2 DEF AreRanks
<1>9. s = [k \in 1..n |-> CHOOSE e \in S : Cardinality({f \in S : Precedes(f, e)}) = k - 1]
  BY DEF InOrder
<1>10. \A e \in S : rank[e] = Cardinality({f \in S : Precedes(f, e)})
  <2>1. \A e \in S : {f \in S : <<f, e>> \in R} = {f \in S : Precedes(f, e)}
    BY <1>2
  <2>2. QED
    BY <1>7, <2>1
<1> HIDE DEF n, s
<1>11. \A k \in 1..n : s[k] \in S /\ rank[s[k]] = k - 1
  <2> TAKE k \in 1..n
  <2>1. k - 1 \in 0..(n - 1)
    BY <1>8
  <2>2. PICK e \in S : rank[e] = k - 1
    BY <1>8, <2>1
  <2>3. \E d \in S : Cardinality({f \in S : Precedes(f, d)}) = k - 1
    BY <1>10, <2>2
  <2>4. s[k] = CHOOSE d \in S : Cardinality({f \in S : Precedes(f, d)}) = k - 1
    BY <1>9
  <2>5. s[k] \in S /\ Cardinality({f \in S : Precedes(f, s[k])}) = k - 1
    BY <2>3, <2>4
  <2>6. QED
    BY <1>10, <2>5
<1>12. s \in Seq(S) /\ Len(s) = n /\ DOMAIN s = 1..n
  <2>1. DOMAIN s = 1..n /\ s = [k \in 1..n |-> s[k]]
    <3> DEFINE F(k) == CHOOSE e \in S : Cardinality({f \in S : Precedes(f, e)}) = k - 1
    <3>1. s = [k \in 1..n |-> F(k)]
      BY <1>9
    <3> HIDE DEF F
    <3>2. QED
      BY <3>1
  <2>2. QED
    BY <2>1, <1>8, <1>11
<1>13. ToSet(s) = S
  <2>1. ASSUME NEW e \in S PROVE \E k \in 1..n : s[k] = e
    <3> DEFINE k == rank[e] + 1
    <3>1. k \in 1..n /\ k - 1 = rank[e]
      BY <1>8
    <3>2. rank[s[k]] = rank[e] /\ s[k] \in S
      BY <1>11, <3>1
    <3>3. s[k] = e
      BY <1>8, <3>2
    <3>4. QED
      BY <3>1, <3>3
  <2>2. QED
    BY <2>1, <1>11, <1>12 DEF ToSet
<1>14. ASSUME NEW i \in 1..n, NEW j \in 1..n, i < j PROVE Precedes(s[i], s[j])
  <2>1. s[i] \in S /\ s[j] \in S /\ rank[s[i]] = i - 1 /\ rank[s[j]] = j - 1
    BY <1>11
  <2>2. s[i] # s[j] /\ ~(rank[s[j]] < rank[s[i]])
    BY <2>1, <1>14
  <2>3. <<s[i], s[j]>> \in R
    BY <1>6, <1>8, <2>1, <2>2
  <2>4. QED
    BY <1>2, <2>1, <2>3
<1>15. IsOrdered(s)
  BY <1>12, <1>14 DEF IsOrdered
<1>16. \A i, j \in 1..n : s[i] = s[j] => i = j
  <2> TAKE i, j \in 1..n
  <2>1. rank[s[i]] = i - 1 /\ rank[s[j]] = j - 1
    BY <1>11
  <2>2. QED
    BY <2>1
<1>17. QED
  BY <1>8, <1>12, <1>13, <1>15, <1>16 DEF s, n

\* The k-th of a set of numbers is the one that Pairing pairs with k.
LEMMA KthIsPaired ==
    ASSUME NEW new \in SUBSET Nat, IsFiniteSet(new)
    PROVE  /\ Cardinality(new) \in Nat
           /\ \A i \in new : Pairing(new, i) \in 1..Cardinality(new) /\ Kth(new, Pairing(new, i)) = i
           /\ \A k \in 1..Cardinality(new) : Kth(new, k) \in new /\ Pairing(new, Kth(new, k)) = k
<1> DEFINE R == {r \in new \X new : r[1] < r[2]}
           n == Cardinality(new)
           rank == RankIn(new, R)
<1>2. \A e, f \in new : <<e, f>> \in R <=> e < f
  OBVIOUS
<1>3. R \in SUBSET (new \X new)
  OBVIOUS
<1> HIDE DEF R
<1>4. \A e \in new : <<e, e>> \notin R
  BY <1>2
<1>5. \A e, f, g \in new : <<e, f>> \in R /\ <<f, g>> \in R => <<e, g>> \in R
  BY <1>2
<1>6. \A e, f \in new : e # f => <<e, f>> \in R \/ <<f, e>> \in R
  BY <1>2
<1>7. rank = [e \in new |-> Cardinality({f \in new : <<f, e>> \in R})]
  BY DEF RankIn
<1> HIDE DEF rank
<1>8. /\ n \in Nat
      /\ rank \in [new -> 0..(n - 1)]
      /\ \A e, f \in new : rank[e] = rank[f] => e = f
      /\ \A k \in 0..(n - 1) : \E e \in new : rank[e] = k
  <2>1. IsStrictTotal(new, R)
    BY <1>3, <1>4, <1>5, <1>6 DEF IsStrictTotal
  <2>2. AreRanks(new, R, rank, n)
    BY <2>1, Ranking DEF rank
  <2>3. QED
    BY <2>2 DEF AreRanks
<1>9. \A e \in new : rank[e] = Cardinality({j \in new : j < e})
  <2>1. \A e \in new : {f \in new : <<f, e>> \in R} = {j \in new : j < e}
    BY <1>2
  <2>2. QED
    BY <1>7, <2>1
<1>10. \A i \in new : Pairing(new, i) = rank[i] + 1
  <2> TAKE i \in new
  <2> DEFINE Below == {j \in new : j < i}
  <2>1. {j \in new : j <= i} = Below \cup {i} /\ i \notin Below /\ Below \in SUBSET new
    <3>1. \A j \in new : j <= i <=> (j < i \/ j = i)
      OBVIOUS
    <3>2. ~(i < i)
      OBVIOUS
    <3>3. QED
      BY <3>1, <3>2
  <2> HIDE DEF Below
  <2>2. IsFiniteSet(Below)
    BY <2>1, FS_Subset
  <2>3. Cardinality(Below \cup {i}) = Cardinality(Below) + 1
    BY <2>1, <2>2, FS_AddElement
  <2>4. rank[i] = Cardinality(Below)
    BY <1>9 DEF Below
  <2>5. QED
    BY <2>1, <2>3, <2>4 DEF Pairing
<1> HIDE DEF n
<1>11. \A k \in 1..n : Kth(new, k) \in new /\ rank[Kth(new, k)] = k - 1
  <2> TAKE k \in 1..n
  <2>1. k - 1 \in 0..(n - 1)
    BY <1>8
  <2>2. \E i \in new : rank[i] = k - 1
    BY <1>8, <2>1
  <2>3. \E i \in new : Cardinality({j \in new : j < i}) = k - 1
    BY <2>2, <1>9
  <2>4. Kth(new, k) \in new /\ Cardinality({j \in new : j < Kth(new, k)}) = k - 1
    BY <2>3 DEF Kth
  <2>5. QED
    BY <2>4, <1>9
<1>12. \A i \in new : Pairing(new, i) \in 1..n /\ Kth(new, Pairing(new, i)) = i
  <2> TAKE i \in new
  <2>1. Pairing(new, i) \in 1..n /\ Pairing(new, i) - 1 = rank[i]
    BY <1>8, <1>10
  <2>2. Kth(new, Pairing(new, i)) \in new /\ rank[Kth(new, Pairing(new, i))] = rank[i]
    BY <2>1, <1>11
  <2>3. QED
    BY <1>8, <2>1, <2>2
<1>13. \A k \in 1..n : Kth(new, k) \in new /\ Pairing(new, Kth(new, k)) = k
  <2> TAKE k \in 1..n
  <2>1. Kth(new, k) \in new /\ rank[Kth(new, k)] = k - 1 /\ k \in Int
    BY <1>11, <1>8
  <2>2. Pairing(new, Kth(new, k)) = rank[Kth(new, k)] + 1
    BY <1>10, <2>1
  <2>3. QED
    BY <2>1, <2>2
<1>14. QED
  BY <1>8, <1>12, <1>13 DEF n

-----------------------------------------------------------------------------
(* The merge of a split index.                                              *)

\* A replacement takes the name of the record that it replaces.
LEMMA RenamedIsEntry ==
    ASSUME NEW e, IsEntry(e), NEW n \in Paths \cup {0}
    PROVE  IsEntry([e EXCEPT !.name = n])
<1> DEFINE r == [e EXCEPT !.name = n]
<1>1. ASSUME NEW modes, IsRecord(e, modes)
      PROVE  IsRecord(r, modes) /\ r.mode = e.mode /\ r.oid = e.oid
  BY <1>1 DEF IsRecord
<1> HIDE DEF r
<1>2. IsEntry(r)
  BY <1>1 DEF IsEntry, IsLeaf
<1>3. QED
  BY <1>2 DEF r

\* What is merged is what is meant, and made of entries.
LEMMA MergedIsMeant ==
    ASSUME NEW f, IsBitmap(f.link.deleted), IsBitmap(f.link.replaced),
           AreRecords(f.records), AreRecords(f.link.base), ~Unmergeable(f)
    PROVE  /\ Merged(f) = MeantEntries(f)
           /\ IsFiniteSet(Merged(f)) /\ \A e \in Merged(f) : IsEntry(e)
<1> DEFINE base == f.link.base
           n == Len(base)
           gone == Meant(f.link.deleted)
           new == Meant(f.link.replaced)
           c == Cardinality(new)
           Renamed(k, i) == [f.records[k] EXCEPT !.name = base[i + 1].name]
           Entry(i) == IF i \in new THEN Renamed(Pairing(new, i), i) ELSE base[i + 1]
<1>1. f.records \in Seq(ToSet(f.records)) /\ base \in Seq(ToSet(base))
      /\ \A e \in ToSet(f.records) : IsEntry(e) /\ \A d \in ToSet(base) : IsEntry(d)
  BY DEF AreRecords
<1>2. n \in Nat /\ Len(f.records) \in Nat /\ DOMAIN base = 1..n
      /\ DOMAIN f.records = 1..Len(f.records)
  BY <1>1
<1>3. Positions(f.link.deleted) = gone /\ Positions(f.link.replaced) = new
      /\ gone \subseteq 0..(n - 1) /\ new \subseteq 0..(n - 1)
  <2>1. ~Malformed(f.link.deleted, n) /\ ~Malformed(f.link.replaced, n)
    BY DEF Unmergeable
  <2> HIDE DEF n
  <2>2. QED
    BY <1>2, <2>1, PositionsAreMeant
<1>4. gone \cap new = {} /\ ~(c > Len(f.records))
  <2> HIDE DEF gone, new
  <2>1. QED
    BY <1>3 DEF Unmergeable
<1>5. IsFiniteSet(0..(n - 1))
  <2>1. n - 1 \in Int /\ 0 \in Int
    BY <1>2
  <2>2. QED
    BY <2>1, FS_Interval
<1> HIDE DEF gone, new
<1>6. IsFiniteSet(new) /\ new \in SUBSET Nat
  <2>1. IsFiniteSet(new)
    BY <1>3, <1>5, FS_Subset
  <2>2. new \subseteq Nat
    BY <1>3
  <2>3. QED
    BY <2>1, <2>2
<1>7. /\ c \in Nat
      /\ \A i \in new : Pairing(new, i) \in 1..c /\ Kth(new, Pairing(new, i)) = i
      /\ \A k \in 1..c : Kth(new, k) \in new /\ Pairing(new, Kth(new, k)) = k
  BY <1>6, KthIsPaired
<1> DEFINE kept == {base[i] : i \in {j \in DOMAIN base : j - 1 \notin gone \cup new}}
           renamed == {Renamed(k, Kth(new, k)) : k \in 1..c}
           added == {f.records[k] : k \in (c + 1)..Len(f.records)}
<1>8. Merged(f) = {Entry(i) : i \in (0..(n - 1)) \ gone} \cup added
  BY <1>3 DEF Merged
<1>9. MeantEntries(f) = kept \cup renamed \cup added
  BY DEF MeantEntries, gone, new
<1> HIDE DEF c, Renamed
<1>10. ASSUME NEW i \in (0..(n - 1)) \ gone PROVE Entry(i) \in kept \cup renamed
  <2>1. CASE i \in new
    <3>1. Entry(i) = Renamed(Pairing(new, i), i)
      BY <2>1
    <3>2. Pairing(new, i) \in 1..c /\ Kth(new, Pairing(new, i)) = i
      BY <1>7, <2>1
    <3>3. QED
      BY <3>1, <3>2
  <2>2. CASE i \notin new
    <3>1. i + 1 \in DOMAIN base /\ (i + 1) - 1 = i
      <4> HIDE DEF base, n
      <4>1. QED
        BY <1>2
    <3>2. QED
      BY <2>2, <3>1
  <2>3. QED
    BY <2>1, <2>2
<1>11. ASSUME NEW e \in kept PROVE \E i \in (0..(n - 1)) \ gone : e = Entry(i)
  <2>1. PICK j \in DOMAIN base : j - 1 \notin gone \cup new /\ e = base[j]
    BY <1>11
  <2>2. j - 1 \in 0..(n - 1) /\ (j - 1) + 1 = j
    <3> HIDE DEF base, n
    <3>1. QED
      BY <1>2
  <2>3. Entry(j - 1) = base[j]
    BY <2>1, <2>2
  <2>4. QED
    BY <2>1, <2>2, <2>3
<1>12. ASSUME NEW e \in renamed PROVE \E i \in (0..(n - 1)) \ gone : e = Entry(i)
  <2>1. PICK k \in 1..c : e = Renamed(k, Kth(new, k))
    BY <1>12
  <2>2. Kth(new, k) \in new /\ Pairing(new, Kth(new, k)) = k
    BY <1>7
  <2>3. Entry(Kth(new, k)) = e
    BY <2>1, <2>2
  <2>4. Kth(new, k) \in (0..(n - 1)) \ gone
    <3> HIDE DEF n
    <3>1. QED
      BY <1>3, <1>4, <2>2
  <2>5. QED
    BY <2>3, <2>4
<1>13. Merged(f) = MeantEntries(f)
  <2> HIDE DEF Entry, kept, renamed, added, n
  <2>1. {Entry(i) : i \in (0..(n - 1)) \ gone} = kept \cup renamed
    BY <1>10, <1>11, <1>12
  <2>2. QED
    BY <1>8, <1>9, <2>1
<1>14. \A k \in DOMAIN f.records : IsEntry(f.records[k])
  BY <1>1 DEF ToSet
<1>15. \A i \in DOMAIN base : IsEntry(base[i])
  <2>1. \A i \in DOMAIN base : base[i] \in ToSet(base)
    BY DEF ToSet
  <2>2. \A e \in ToSet(base) : IsEntry(e)
    BY DEF AreRecords
  <2>3. QED
    BY <2>1, <2>2
<1>16. \A i \in DOMAIN base : base[i].name \in Paths \cup {0}
  <2> HIDE DEF base
  <2>1. QED
    BY <1>15 DEF IsEntry, IsLeaf, IsRecord
<1>17. ASSUME NEW k \in 1..c, NEW i \in 0..(n - 1) PROVE IsEntry(Renamed(k, i))
  <2>1. i + 1 \in DOMAIN base /\ k \in DOMAIN f.records
    <3> HIDE DEF n, base
    <3>1. QED
      BY <1>2, <1>4, <1>7
  <2>2. IsEntry(f.records[k]) /\ base[i + 1].name \in Paths \cup {0}
    BY <2>1, <1>14, <1>16
  <2> HIDE DEF base
  <2>3. QED
    BY <2>2, RenamedIsEntry DEF Renamed
<1>18. \A e \in kept \cup renamed \cup added : IsEntry(e)
  <2>1. \A e \in kept : IsEntry(e)
    <3> HIDE DEF base
    <3>1. QED
      BY <1>15
  <2>2. \A e \in renamed : IsEntry(e)
    <3> HIDE DEF n, base
    <3>1. QED
      BY <1>3, <1>7, <1>17
  <2>3. \A e \in added : IsEntry(e)
    BY <1>2, <1>7, <1>14
  <2> HIDE DEF kept, renamed, added
  <2>4. QED
    BY <2>1, <2>2, <2>3
<1>19. IsFiniteSet(kept) /\ IsFiniteSet(added) /\ IsFiniteSet(renamed)
  <2>1. IsFiniteSet(ToSet(base)) /\ IsFiniteSet(ToSet(f.records))
    <3> HIDE DEF base
    <3>1. QED
      BY <1>1, ToSetIsFinite
  <2>2. kept \subseteq ToSet(base) /\ added \subseteq ToSet(f.records)
    BY <1>2, <1>7 DEF ToSet
  <2>3. IsFiniteSet(renamed)
    <3> DEFINE g == [k \in 1..c |-> Renamed(k, Kth(new, k))]
    <3>1. IsFiniteSet(1..c)
      BY <1>7, FS_Interval
    <3>2. DOMAIN g = 1..c /\ renamed = {g[k] : k \in DOMAIN g}
      OBVIOUS
    <3> HIDE DEF g, renamed
    <3>3. QED
      BY <3>1, <3>2, ImageIsFinite
  <2> HIDE DEF kept, added, renamed
  <2>4. QED
    BY <2>1, <2>2, <2>3, FS_Subset
<1>20. IsFiniteSet(kept \cup renamed \cup added)
  <2> HIDE DEF kept, added, renamed
  <2>1. QED
    BY <1>19, FS_Union
<1>21. QED
  <2> HIDE DEF kept, added, renamed
  <2>1. QED
    BY <1>9, <1>13, <1>18, <1>20

IsMerged(f) == f.split /\ ~f.link.bare => ~Unmergeable(f)

\* The leaves of an index that is not refused: tracked files, symbolic links
\* and gitlinks, at paths, one of a path in a stage.
LEMMA LeavesAre ==
    ASSUME NEW f, IsIndex(f), IsMerged(f), ~Unsafe(f)
    PROVE  /\ AreDistinct(AllLeaves(f))
           /\ \A e \in AllLeaves(f) :
                 IsLeaf(e) /\ e.name \in Paths /\ (e.name = AttrPath => e.mode # "sub")
<1>1. AreRecords(f.records) /\ AreRecords(f.link.base)
      /\ IsBitmap(f.link.deleted) /\ IsBitmap(f.link.replaced)
  BY DEF IsIndex, IsBitmap
<1>2. IsFiniteSet(Entries(f)) /\ \A e \in Entries(f) : IsEntry(e)
  <2>1. CASE ~f.split \/ f.link.bare
    <3>1. Entries(f) = ToSet(f.records)
      BY <2>1 DEF Entries
    <3>2. QED
      BY <1>1, <3>1, ToSetIsFinite DEF AreRecords
  <2>2. CASE ~(~f.split \/ f.link.bare)
    <3>1. Entries(f) = Merged(f) /\ ~Unmergeable(f)
      BY <2>2 DEF Entries, IsMerged
    <3>2. QED
      BY <1>1, <3>1, MergedIsMeant
  <2>3. QED
    BY <2>1, <2>2
<1>3. \A e \in Entries(f) : e.name # 0
  BY DEF Unsafe
<1>4. ASSUME NEW e \in Entries(f)
      PROVE  /\ IsFiniteSet(Leaves(e))
             /\ \A leaf \in Leaves(e) : IsLeaf(leaf) /\ leaf.name # 0
  <2>1. CASE IsLeaf(e)
    <3>1. e.mode # "tree"
      BY <2>1 DEF IsLeaf, IsRecord, Regular
    <3>2. Leaves(e) = {e}
      BY <3>1 DEF Leaves
    <3>3. QED
      BY <3>2, <2>1, <1>3, FS_Singleton
  <2>2. CASE IsRecord(e, {"tree"}) /\ IsTree(e.oid.tree)
    <3> DEFINE tree == e.oid.tree
               LeafOf(leaf) == [leaf EXCEPT !.stage = e.stage, !.flags = e.flags \cup {"skip"}]
               skipped == [leaf \in ToSet(tree) |-> LeafOf(leaf)]
    <3>1. Leaves(e) = {skipped[leaf] : leaf \in DOMAIN skipped}
      BY <2>2 DEF Leaves, IsRecord
    <3>2. tree \in Seq(ToSet(tree)) /\ \A leaf \in ToSet(tree) : IsLeaf(leaf) /\ leaf.name # 0
      BY <2>2 DEF IsTree
    <3>3. IsFiniteSet(ToSet(tree))
      BY <3>2, ToSetIsFinite
    <3>4. IsFiniteSet(Leaves(e))
      <4>1. DOMAIN skipped = ToSet(tree)
        OBVIOUS
      <4> HIDE DEF skipped, tree
      <4>2. QED
        BY <3>1, <3>3, <4>1, ImageIsFinite
    <3>5. ASSUME NEW leaf, IsLeaf(leaf)
          PROVE  IsLeaf(LeafOf(leaf)) /\ LeafOf(leaf).name = leaf.name
      <4>1. e.stage \in 0..3 /\ e.flags \cup {"skip"} \in SUBSET {"skip", "valid", "add"}
        BY <2>2 DEF IsRecord
      <4>2. QED
        BY <3>5, <4>1 DEF IsLeaf, IsRecord
    <3>6. \A leaf \in ToSet(tree) : IsLeaf(skipped[leaf]) /\ skipped[leaf].name # 0
      <4> HIDE DEF tree, LeafOf
      <4>1. QED
        BY <3>2, <3>5
    <3> HIDE DEF tree, skipped, LeafOf
    <3>7. DOMAIN skipped = ToSet(tree)
      BY DEF skipped
    <3>8. QED
      BY <3>1, <3>4, <3>6, <3>7
  <2>3. QED
    BY <1>2, <2>1, <2>2 DEF IsEntry
<1>5. IsFiniteSet(AllLeaves(f))
  <2> DEFINE g == [e \in Entries(f) |-> Leaves(e)]
  <2>1. IsFiniteSet({g[e] : e \in DOMAIN g})
    <3>1. IsFiniteSet(DOMAIN g)
      BY <1>2
    <3> HIDE DEF g
    <3>2. QED
      BY <3>1, ImageIsFinite
  <2>2. {g[e] : e \in DOMAIN g} = {Leaves(e) : e \in Entries(f)}
    OBVIOUS
  <2> HIDE DEF g
  <2>3. IsFiniteSet(UNION {Leaves(e) : e \in Entries(f)})
    BY <1>4, <2>1, <2>2, FS_UNION
  <2>4. QED
    BY <2>3 DEF AllLeaves
<1>6. \A e \in AllLeaves(f) : IsLeaf(e) /\ e.name # 0
  BY <1>4 DEF AllLeaves
<1>7. \A e \in AllLeaves(f) : e.name \in Paths /\ e.name \in Int /\ e.stage \in Int
  BY <1>6, ObservationAssumption DEF IsLeaf, IsRecord
<1>8. \A e, g \in AllLeaves(f) :
         /\ e.name = g.name /\ e.stage = g.stage => e = g
         /\ e.name = AttrPath => e.mode # "sub"
  BY DEF IsIndex, IsMerged
<1>9. QED
  BY <1>5, <1>6, <1>7, <1>8 DEF AreDistinct

-----------------------------------------------------------------------------
(* The lists that the observation goes through.                             *)

\* Of no entries there is nothing to compare.
LEMMA NoEntries ==
    /\ InOrder({}) = <<>> /\ Distinct(<<>>) = <<>> /\ Names(<<>>) = {}
<1>1. InOrder({}) = <<>>
  <2>1. Cardinality({}) = 0
    BY FS_EmptySet
  <2> DEFINE F(k) == CHOOSE e \in {} : Cardinality({f \in {} : Precedes(f, e)}) = k - 1
  <2>2. InOrder({}) = [k \in 1..0 |-> F(k)]
    BY <2>1 DEF InOrder
  <2> HIDE DEF F
  <2>3. QED
    BY <2>2
<1>2. ToSet(<<>>) = {}
  BY DEF ToSet
<1>3. QED
  BY <1>1, <1>2 DEF Distinct, Names

\* The index as it is recorded.
LEMMA IndexedIs ==
    ASSUME NEW f, IsIndex(f), IsMerged(f), ~Unsafe(f), NEW es, es = Indexed(f)
    PROVE  /\ es \in Seq(AllLeaves(f)) /\ ToSet(es) = AllLeaves(f) /\ IsOrdered(es)
           /\ AreDistinct(ToSet(es)) /\ Names(es) \subseteq Paths
           /\ \A e \in ToSet(es) :
                 IsLeaf(e) /\ e.name \in Paths /\ (e.name = AttrPath => e.mode # "sub")
<1> DEFINE S == AllLeaves(f)
<1>1. AreDistinct(S) /\ \A e \in S :
         IsLeaf(e) /\ e.name \in Paths /\ (e.name = AttrPath => e.mode # "sub")
  BY LeavesAre
<1>2. es = InOrder(S)
  BY DEF Indexed
<1> HIDE DEF S
<1>3. es \in Seq(S) /\ ToSet(es) = S /\ IsOrdered(es)
  BY <1>1, <1>2, InOrderIs
<1>4. Names(es) \subseteq Paths
  BY <1>1, <1>3 DEF Names
<1>5. QED
  BY <1>1, <1>3, <1>4 DEF S

ChosenOf(es) == {e \in ToSet(es) : Chosen(es, e)}

\* One entry of each path is compared with what is there.
LEMMA DistinctIs ==
    ASSUME NEW es, AreDistinct(ToSet(es)), \A e \in ToSet(es) : IsLeaf(e),
           NEW d, d = Distinct(es)
    PROVE  /\ d \in Seq(ToSet(es)) /\ ToSet(d) = ChosenOf(es)
           /\ \A i, j \in DOMAIN d : d[i] = d[j] => i = j
           /\ \A e, g \in ToSet(d) : e.name = g.name => e = g
           /\ \A p \in Names(es) : \E e \in ToSet(d) : e.name = p
           /\ \A e \in ToSet(es) : e.stage = 0 /\ (\A g \in ToSet(es) : g.stage = 0) => e \in ToSet(d)
<1> DEFINE S == ChosenOf(es)
<1>1. \A e \in ToSet(es) : e.name \in Int /\ e.stage \in 0..3
  BY DEF AreDistinct, IsLeaf, IsRecord
<1>2. S \subseteq ToSet(es)
  BY DEF ChosenOf
<1>3. AreDistinct(S)
  BY <1>2, FS_Subset DEF AreDistinct
<1>4. d = InOrder(S)
  BY DEF Distinct, ChosenOf
<1>5. \A e, g \in S : e.name = g.name => e = g
  <2> TAKE e, g \in S
  <2> SUFFICES ASSUME e.name = g.name, e # g PROVE FALSE
    OBVIOUS
  <2>1. g.stage # 2 /\ (e.stage = 2 \/ g.stage < e.stage)
    BY DEF ChosenOf, Chosen
  <2>2. e.stage # 2 /\ (g.stage = 2 \/ e.stage < g.stage)
    BY DEF ChosenOf, Chosen
  <2>3. e.stage \in Int /\ g.stage \in Int
    BY <1>1, <1>2
  <2>4. QED
    BY <2>1, <2>2, <2>3
<1>6. \A p \in Names(es) : \E e \in S : e.name = p
  <2> TAKE p \in Names(es)
  <2> DEFINE At(k) == \E e \in ToSet(es) : e.name = p /\ e.stage = k
  <2>1. ASSUME NEW k \in 0..3, At(k), k # 2 => ~At(2) /\ \A j \in 0..3 : j > k => ~At(j)
        PROVE  \E e \in S : e.name = p
    <3>1. PICK e \in ToSet(es) : e.name = p /\ e.stage = k
      BY <2>1
    <3>2. ASSUME NEW g \in ToSet(es), g.name = p, g # e
          PROVE  g.stage # 2 /\ (e.stage = 2 \/ g.stage < e.stage)
      <4>1. g.stage # e.stage
        BY <3>1, <3>2 DEF AreDistinct
      <4>2. At(g.stage) /\ g.stage \in 0..3
        BY <3>2, <1>1
      <4>3. QED
        BY <2>1, <3>1, <4>1, <4>2
    <3>3. Chosen(es, e)
      BY <3>1, <3>2 DEF Chosen
    <3>4. QED
      BY <3>1, <3>3 DEF ChosenOf
  <2>2. At(0) \/ At(1) \/ At(2) \/ At(3)
    <3>1. PICK e \in ToSet(es) : e.name = p
      BY DEF Names
    <3>2. At(e.stage) /\ e.stage \in 0..3
      BY <3>1, <1>1
    <3>3. QED
      BY <3>2
  <2>3. \E k \in 0..3 : At(k) /\ (k # 2 => ~At(2) /\ \A j \in 0..3 : j > k => ~At(j))
    <3> HIDE DEF At
    <3>1. CASE At(2)
      BY <3>1
    <3>2. CASE ~At(2) /\ At(3)
      BY <3>2
    <3>3. CASE ~At(2) /\ ~At(3) /\ At(1)
      BY <3>3
    <3>4. CASE ~At(2) /\ ~At(3) /\ ~At(1)
      BY <3>4, <2>2
    <3>5. QED
      BY <3>1, <3>2, <3>3, <3>4
  <2>4. QED
    <3> HIDE DEF At
    <3>1. QED
      BY <2>1, <2>3
<1>7. \A e \in ToSet(es) : e.stage = 0 /\ (\A g \in ToSet(es) : g.stage = 0) => e \in S
  BY DEF ChosenOf, Chosen, AreDistinct
<1> HIDE DEF S
<1>8. d \in Seq(S) /\ ToSet(d) = S /\ \A i, j \in DOMAIN d : d[i] = d[j] => i = j
  BY <1>3, <1>4, InOrderIs
<1>9. d \in Seq(ToSet(es))
  BY <1>2, <1>8
<1>10. QED
  BY <1>5, <1>6, <1>7, <1>8, <1>9 DEF S

\* A set of numbers that is not empty has a least one.
LEMMA LeastIs ==
    ASSUME NEW S \in SUBSET Nat, S # {}
    PROVE  Least(S) \in S /\ \A q \in S : Least(S) <= q
<1> DEFINE A == {n \in Nat : \A k \in 0..n : k \notin S}
<1>1. \E p \in S : \A q \in S : p <= q
  <2> SUFFICES ASSUME \A p \in S : \E q \in S : q < p PROVE FALSE
    OBVIOUS
  <2>1. 0 \in A
    BY DEF A
  <2>2. ASSUME NEW n \in Nat, n \in A PROVE n + 1 \in A
    <3>1. \A k \in 0..n : k \notin S
      BY <2>2
    <3>2. n + 1 \notin S
      <4> SUFFICES ASSUME n + 1 \in S PROVE FALSE
        OBVIOUS
      <4>1. PICK q \in S : q < n + 1
        OBVIOUS
      <4>2. q \in 0..n
        BY <4>1
      <4>3. QED
        BY <3>1, <4>2
    <3>3. \A k \in 0..(n + 1) : k \in 0..n \/ k = n + 1
      OBVIOUS
    <3>4. QED
      BY <3>1, <3>2, <3>3
  <2>3. Nat \subseteq A
    <3> HIDE DEF A
    <3>1. QED
      BY <2>1, <2>2, SetInduction
  <2>4. PICK s \in S : s \in Nat
    OBVIOUS
  <2>5. s \in A /\ s \in 0..s
    BY <2>3, <2>4
  <2>6. QED
    BY <2>4, <2>5
<1>2. QED
  BY <1>1 DEF Least

\* The entries still to compare after the first k.
After(es, k) == SubSeq(Distinct(es), k + 1, Len(Distinct(es)))

\* The rest of a list is its next element and the rest behind it.
LEMMA TailOfRest ==
    ASSUME NEW T, NEW s \in Seq(T), NEW k \in 0..Len(s), NEW r, r = SubSeq(s, k + 1, Len(s))
    PROVE  /\ Len(r) = Len(s) - k /\ (r = <<>> <=> k = Len(s))
           /\ r # <<>> => /\ k + 1 \in 0..Len(s) /\ k + 1 \in DOMAIN s
                          /\ Head(r) = s[k + 1] /\ Tail(r) = SubSeq(s, k + 2, Len(s))
<1>1. Len(s) \in Nat /\ k \in Nat /\ k <= Len(s)
  OBVIOUS
<1>2. Len(r) = Len(s) - k /\ r \in Seq(T)
  BY <1>1
<1>3. r = <<>> <=> k = Len(s)
  <2>1. r = <<>> <=> Len(r) = 0
    <3>1. ASSUME NEW q \in Seq(T) PROVE q = <<>> <=> Len(q) = 0
      OBVIOUS
    <3>2. QED
      BY <1>2, <3>1
  <2>2. QED
    BY <1>1, <1>2, <2>1
<1>4. ASSUME r # <<>>
      PROVE  /\ k + 1 \in 0..Len(s) /\ k + 1 \in DOMAIN s
             /\ Head(r) = s[k + 1] /\ Tail(r) = SubSeq(s, k + 2, Len(s))
  <2>1. k < Len(s)
    BY <1>1, <1>3, <1>4
  <2>2. Head(r) = s[k + 1]
    BY <1>1, <2>1
  <2>3. Tail(r) = SubSeq(s, k + 2, Len(s))
    BY <1>1, <2>1
  <2>4. QED
    BY <1>1, <2>1, <2>2, <2>3
<1>5. QED
  BY <1>2, <1>3, <1>4

-----------------------------------------------------------------------------
(* The observation goes on whole, whatever others do.                       *)

Before    == {"context", "config", "head", "index"}
Observing == {"files", "judge", "walk", "take", "done"}

\* Where an observation is, what it has read and what it has still to compare.
Progress ==
    /\ pc \in Running \cup {"refused", "done"} /\ dirty \in BOOLEAN /\ still \in BOOLEAN
    /\ pc \in Before => idx = NotRead
    /\ pc \in Before \cup {"shared"} =>
          entries = <<>> /\ todo = <<>> /\ listing = {} /\ untracked = {}
    /\ pc = "shared" => IsIndex(idx)
    /\ pc \in Observing =>
          /\ IsIndex(idx) /\ IsMerged(idx) /\ ~Unsafe(idx) /\ entries = Indexed(idx)
    /\ Names(entries) \subseteq Paths /\ listing \subseteq Unlisted
    /\ {u[1] : u \in untracked} \subseteq Unlisted
    /\ \E k \in 0..Len(Distinct(entries)) : todo = After(entries, k)
    /\ pc \in {"files", "judge"} => listing = {} /\ untracked = {}
    /\ pc = "judge" => todo # <<>>
    /\ pc \in {"walk", "take", "done"} => todo = <<>>
    /\ pc = "take" => listing # {}

Whole == IsCheckout(checkout) /\ Progress

\* The entries as they are read from an index that is not refused.
LEMMA Reading ==
    ASSUME NEW f, IsIndex(f), IsMerged(f), ~Unsafe(f), NEW es, es = Indexed(f)
    PROVE  /\ Names(es) \subseteq Paths
           /\ Distinct(es) \in Seq(ToSet(es)) /\ Distinct(es) = After(es, 0)
           /\ 0 \in 0..Len(Distinct(es))
<1>1. AreDistinct(ToSet(es)) /\ Names(es) \subseteq Paths /\ \A e \in ToSet(es) : IsLeaf(e)
  BY IndexedIs
<1>2. Distinct(es) \in Seq(ToSet(es))
  BY <1>1, DistinctIs
<1>3. Len(Distinct(es)) \in Nat /\ SubSeq(Distinct(es), 0 + 1, Len(Distinct(es))) = Distinct(es)
  BY <1>2
<1>4. QED
  BY <1>1, <1>2, <1>3 DEF After

\* Edits leave a checkout a checkout.
LEMMA CheckoutStays == IsCheckout(checkout) /\ [Next]_vars => IsCheckout(checkout)'
<1> SUFFICES ASSUME IsCheckout(checkout), [Next]_vars PROVE IsCheckout(checkout')
  BY DEF IsCheckout
<1>1. CASE checkout' = checkout
  BY <1>1
<1>2. ASSUME NEW e \in Edits, EditFile(e[1], e[2], e[3]) PROVE IsCheckout(checkout')
  <2>1. e[1] \in Paths /\ IsFile(e[3])
    BY ObservationAssumption
  <2> DEFINE w == [checkout.work EXCEPT ![e[1]] = e[3]]
  <2>2. checkout' = [checkout EXCEPT !.work = w]
    BY <1>2 DEF EditFile
  <2>3. DOMAIN w = Paths /\ \A p \in Paths : IsFile(w[p])
    BY <2>1 DEF IsCheckout
  <2> HIDE DEF w
  <2>4. QED
    BY <2>2, <2>3 DEF IsCheckout
<1>3. ASSUME NEW s \in Settles, Settle(s[1], s[2], s[3]) PROVE IsCheckout(checkout')
  <2>1. s[1] \in ConfigFiles /\ IsConfigFile(s[3])
    BY ObservationAssumption
  <2> DEFINE w == [checkout.conf EXCEPT ![s[1]] = s[3]]
  <2>2. checkout' = [checkout EXCEPT !.conf = w]
    BY <1>3 DEF Settle
  <2>3. DOMAIN w = ConfigFiles /\ \A f \in ConfigFiles : IsConfigFile(w[f])
    BY <2>1 DEF IsCheckout
  <2> HIDE DEF w
  <2>4. QED
    BY <2>2, <2>3 DEF IsCheckout
<1>4. ASSUME NEW m \in Moves, MoveHead(m[1], m[2]) PROVE IsCheckout(checkout')
  <2>1. IsTree(m[2].tree) /\ checkout' = [checkout EXCEPT !.head = m[2]]
    BY <1>4, ObservationAssumption DEF MoveHead
  <2>2. QED
    BY <2>1 DEF IsCheckout
<1>5. ASSUME NEW s \in Stagings, Stage(s[1], s[2]) PROVE IsCheckout(checkout')
  <2>1. IsIndex(s[2]) /\ checkout' = [checkout EXCEPT !.index = s[2]]
    BY <1>5, ObservationAssumption DEF Stage
  <2>2. QED
    BY <2>1 DEF IsCheckout
<1>6. CASE ExpireShared
  <2>1. checkout' = [checkout EXCEPT !.shared = "missing"]
    BY <1>6 DEF ExpireShared
  <2>2. QED
    BY <2>1 DEF IsCheckout
<1>7. CASE Users
  BY <1>2, <1>3, <1>4, <1>5, <1>6, <1>7 DEF Users
<1>8. CASE Next /\ ~Users
  <2>1. checkout' = checkout
    BY <1>8 DEF Next, Fail, Refuse, ResolveContext, ReadConfig, RefuseConfig, ReadHead, ReadIndex,
       ReadShared, RefuseIndex, Indexes, ReadFile, ObserveGitlink, Judge, Judged, ListFiles, Visit,
       Take, Finish, FinishAgain, Restarts, Forgets
  <2>2. QED
    BY <1>1, <2>1
<1>9. CASE UNCHANGED vars
  BY <1>1, <1>9 DEF vars
<1>10. QED
  BY <1>7, <1>8, <1>9

\* Nothing was read yet.
LEMMA ProgressBegins == Init => Progress
<1> SUFFICES ASSUME Init PROVE Progress
  OBVIOUS
<1>1. pc = "context" /\ idx = NotRead /\ entries = <<>> /\ todo = <<>> /\ listing = {}
      /\ untracked = {} /\ dirty = FALSE /\ still = TRUE
  BY DEF Init
<1>2. Distinct(entries) = <<>> /\ Names(entries) = {}
  BY <1>1, NoEntries
<1>3. todo = After(entries, 0) /\ 0 \in 0..Len(Distinct(entries))
  BY <1>1, <1>2 DEF After
<1>4. QED
  BY <1>1, <1>2, <1>3 DEF Progress, Before, Observing, Running

\* A step that leaves all but pc, and what Progress says nothing of, as it is.
ProgressKeeps == UNCHANGED <<idx, entries, todo, listing, untracked, dirty>>

\* Each step of the observation leaves its lists as the next one needs them.
LEMMA ProgressStays == Whole /\ [Next]_vars => Progress'
<1> SUFFICES ASSUME Whole, [Next]_vars PROVE Progress'
  OBVIOUS
<1> USE DEF Running, Before, Observing
<1>a. Progress /\ IsCheckout(checkout)
  BY DEF Whole
<1>b. Unlisted' = Paths \ Names(entries)'
  BY DEF Unlisted
<1>1. CASE Users
  <2>1. UNCHANGED <<pc, idx, entries, todo, listing, untracked, dirty>> /\ still' = FALSE
    BY <1>1 DEF Users, EditFile, Settle, MoveHead, Stage, ExpireShared, Edited, indexVars, fileVars, walkVars
  <2>2. QED
    BY <1>a, <2>1 DEF Progress, Unlisted, After
<1>2. CASE Refuse
  <2>1. ProgressKeeps /\ pc' = "refused" /\ still' = still
    BY <1>2 DEF Refuse, ProgressKeeps, indexVars, fileVars, walkVars
  <2>2. QED
    BY <1>a, <2>1 DEF Progress, ProgressKeeps, Unlisted, After
<1>3. CASE ResolveContext \/ ReadConfig \/ ReadHead
  <2>1. ProgressKeeps /\ pc \in Before /\ pc' \in Before /\ still' = still
    BY <1>3 DEF ResolveContext, ReadConfig, ReadHead, ProgressKeeps, indexVars, fileVars, walkVars
  <2>2. QED
    BY <1>a, <2>1 DEF Progress, ProgressKeeps, Unlisted, After
<1>4. ASSUME NEW f, IsIndex(f), IsMerged(f), ~Unsafe(f), pc \in {"index", "shared"}, Indexes(f)
      PROVE  Progress'
  <2>1. /\ pc' = "files" /\ idx' = f /\ entries' = Indexed(f) /\ todo' = Distinct(entries')
        /\ dirty' = IndexDiffers(entries', head) /\ still' = still
        /\ listing' = listing /\ untracked' = untracked
    BY <1>4 DEF Indexes, walkVars
  <2>2. listing = {} /\ untracked = {} /\ still \in BOOLEAN
    BY <1>4, <1>a DEF Progress
  <2>3. Names(entries') \subseteq Paths /\ todo' = After(entries', 0)
        /\ 0 \in 0..Len(Distinct(entries'))
    BY <1>4, <2>1, Reading
  <2>4. dirty' \in BOOLEAN
    BY <2>1 DEF IndexDiffers
  <2>5. \E k \in 0..Len(Distinct(entries')) : todo' = After(entries', k)
    BY <2>3
  <2>6. Names(entries)' = Names(entries') /\ Distinct(entries)' = Distinct(entries')
        /\ \A k : After(entries, k)' = After(entries', k)
    BY DEF Names, Distinct, After
  <2>7. QED
    BY <1>4, <2>1, <2>2, <2>3, <2>4, <2>5, <2>6 DEF Progress, Unlisted, After
<1>5. CASE ReadIndex
  <2>1. IsIndex(checkout.index) /\ pc = "index"
    BY <1>5, <1>a DEF IsCheckout, ReadIndex
  <2>2. CASE checkout.index.split
    <3>1. /\ pc' = "shared" /\ idx' = checkout.index /\ still' = still
          /\ UNCHANGED <<entries, todo, dirty, listing, untracked>>
      BY <1>5, <2>2 DEF ReadIndex, fileVars, walkVars
    <3>2. QED
      BY <1>a, <2>1, <3>1 DEF Progress, Unlisted, After
  <2>3. CASE ~checkout.index.split
    <3>1. ~Unsafe(checkout.index) /\ Indexes(checkout.index) /\ IsMerged(checkout.index)
      BY <1>5, <2>3 DEF ReadIndex, IsMerged
    <3>2. QED
      BY <1>4, <2>1, <3>1
  <2>4. QED
    BY <2>2, <2>3
<1>6. CASE ReadShared
  <2>1. pc = "shared" /\ IsIndex(idx) /\ ~Unsafe(idx) /\ Indexes(idx) /\ IsMerged(idx)
    BY <1>6, <1>a DEF ReadShared, SharedReads, IsMerged, Progress
  <2>2. QED
    BY <1>4, <2>1
<1>7. CASE ReadFile
  <2>1. /\ pc = "files" /\ pc' = "judge" /\ todo # <<>> /\ still' = still /\ ProgressKeeps
    BY <1>7 DEF ReadFile, ProgressKeeps, indexVars, walkVars
  <2>2. QED
    BY <1>a, <2>1 DEF Progress, ProgressKeeps, Unlisted, After
<1>8. ASSUME NEW r, NEW b \in BOOLEAN, pc \in {"files", "judge"}, todo # <<>>, Judged(r, b)
      PROVE  Progress'
  <2>1. /\ pc' = "files" /\ todo' = Tail(todo) /\ dirty' = (dirty \/ b) /\ still' = still
        /\ UNCHANGED <<idx, entries, listing, untracked>>
    BY <1>8 DEF Judged, indexVars, walkVars
  <2>2. Distinct(entries) \in Seq(ToSet(entries))
    BY <1>8, <1>a, Reading DEF Progress
  <2>3. PICK k \in 0..Len(Distinct(entries)) : todo = After(entries, k)
    BY <1>a DEF Progress
  <2>4. k + 1 \in 0..Len(Distinct(entries)) /\ Tail(todo) = After(entries, k + 1)
    <3>1. (k + 1) + 1 = k + 2
      OBVIOUS
    <3>2. QED
      BY <1>8, <2>2, <2>3, <3>1, TailOfRest DEF After
  <2>5. \E i \in 0..Len(Distinct(entries)) : Tail(todo) = After(entries, i)
    BY <2>4
  <2>6. dirty' \in BOOLEAN
    BY <1>a, <2>1 DEF Progress
  <2>7. QED
    BY <1>8, <1>a, <2>1, <2>5, <2>6 DEF Progress, Unlisted, After
<1>9. CASE ObserveGitlink
  <2>1. pc = "files" /\ todo # <<>>
    BY <1>9 DEF ObserveGitlink
  <2>2. Refuse \/ \E r : \E b \in BOOLEAN : Judged(r, b)
    BY <1>9 DEF ObserveGitlink
  <2>3. QED
    BY <1>2, <1>8, <2>1, <2>2
<1>10. CASE Judge
  <2>1. pc = "judge" /\ todo # <<>>
    BY <1>10, <1>a DEF Judge, Progress
  <2>2. Refuse \/ \E r : \E b \in BOOLEAN : Judged(r, b)
    BY <1>10 DEF Judge
  <2>3. QED
    BY <1>2, <1>8, <2>1, <2>2
<1>11. CASE ListFiles
  <2>1. /\ pc = "files" /\ todo = <<>> /\ pc' = "walk" /\ listing' \subseteq Unlisted
        /\ still' = still /\ UNCHANGED <<idx, entries, todo, dirty, untracked>>
    BY <1>11 DEF ListFiles, indexVars, fileVars
  <2>2. QED
    BY <1>a, <2>1 DEF Progress, Unlisted, After
<1>12. CASE Visit
  <2>1. CASE Refuse
    BY <1>2, <2>1
  <2>2. CASE ~Refuse
    <3>1. /\ pc = "walk" /\ listing # {} /\ still' = still
          /\ UNCHANGED <<idx, entries, todo, dirty, untracked>>
          /\ listing' \subseteq listing /\ (pc' = "walk" \/ (pc' = "take" /\ listing' = listing))
      BY <1>12, <2>2 DEF Visit, indexVars, fileVars
    <3>2. QED
      BY <1>a, <3>1 DEF Progress, Unlisted, After
  <2>3. QED
    BY <2>1, <2>2
<1>13. CASE Take
  <2> DEFINE p == Least(listing)
  <2>1. /\ pc = "take" /\ pc' = "walk" /\ listing' \subseteq listing /\ still' = still
        /\ untracked' = untracked \cup {<<p, FileAt(p)>>}
        /\ UNCHANGED <<idx, entries, todo, dirty>>
    BY <1>13 DEF Take, indexVars, fileVars
  <2>2. listing \subseteq Unlisted /\ Unlisted \subseteq Nat /\ listing # {}
    BY <1>a, <2>1, ObservationAssumption DEF Progress, Unlisted
  <2>3. p \in listing
    BY <2>2, LeastIs
  <2>4. {u[1] : u \in untracked'} \subseteq Unlisted
    <3> HIDE DEF p
    <3>1. <<p, FileAt(p)>>[1] = p
      OBVIOUS
    <3>2. \A u \in untracked : u[1] \in Unlisted
      BY <1>a DEF Progress
    <3>3. QED
      BY <2>1, <2>2, <2>3, <3>1, <3>2
  <2> HIDE DEF p
  <2>5. QED
    BY <1>a, <2>1, <2>2, <2>4 DEF Progress, Unlisted, After
<1>14. CASE Finish
  <2>1. /\ pc = "walk" /\ listing = {} /\ pc' = "context" /\ untracked' = {} /\ dirty' = FALSE
        /\ idx' = NotRead /\ entries' = <<>> /\ still' = TRUE /\ UNCHANGED <<todo, listing>>
    BY <1>14 DEF Finish, Restarts, Forgets
  <2>2. todo' = <<>> /\ still' \in BOOLEAN
    BY <1>a, <2>1 DEF Progress
  <2>3. Distinct(<<>>) = <<>> /\ Names(<<>>) = {}
    BY NoEntries
  <2>4. Distinct(entries)' = <<>> /\ Names(entries)' = {} /\ After(entries, 0)' = <<>>
    BY <2>1, <2>3 DEF Distinct, Names, After
  <2>5. \E k \in 0..Len(Distinct(entries)') : todo' = After(entries, k)'
    BY <2>2, <2>4
  <2>6. QED
    BY <2>1, <2>2, <2>4, <2>5 DEF Progress
<1>15. CASE FinishAgain
  <2>1. /\ pc = "walk" /\ pc' = "done" /\ still' = still /\ ProgressKeeps
    BY <1>15 DEF FinishAgain, ProgressKeeps, indexVars, fileVars, walkVars
  <2>2. QED
    BY <1>a, <2>1 DEF Progress, ProgressKeeps, Unlisted, After
<1>16. CASE UNCHANGED vars
  <2>1. ProgressKeeps /\ pc' = pc /\ still' = still
    BY <1>16 DEF vars, ProgressKeeps
  <2>2. QED
    BY <1>a, <2>1 DEF Progress, ProgressKeeps, Unlisted, After
<1>17. QED
  BY <1>1, <1>2, <1>3, <1>5, <1>6, <1>7, <1>9, <1>10, <1>11, <1>12, <1>13, <1>14, <1>15, <1>16
     DEF Next, Fail, RefuseConfig, RefuseIndex

\* Whatever others edit while it runs, an observation goes on with entries of the
\* index that it read, in their order, and each of them once.
THEOREM ObservationIsWhole == Spec => []Whole
<1>1. Init => Whole
  <2>1. Init => IsCheckout(checkout)
    BY ObservationAssumption DEF Init
  <2>2. QED
    BY <2>1, ProgressBegins DEF Whole
<1>2. Whole /\ [Next]_vars => Whole'
  BY CheckoutStays, ProgressStays DEF Whole
<1>3. QED
  BY <1>1, <1>2, PTL DEF Spec

\* Types: what is read, collected and returned is of the kind its readers expect.
THEOREM TypeCorrect == Spec => []TypeOK
<1>1. Whole => TypeOK
  BY DEF Whole, Progress, TypeOK, Unlisted, After
<1>2. QED
  BY <1>1, ObservationIsWhole, PTL

\* The entries that emit-local-manifest.py takes from a split index are those
\* that Git's format means: every bitmap and every number of words and of records.
THEOREM SplitIndexIsMeant == Spec => []SplitIsMeant
<1>1. ASSUME Whole, idx # NotRead, idx.split, ~idx.link.bare, pc \notin {"index", "shared", "refused"}
      PROVE  /\ ToSet(entries) = UNION {Leaves(e) : e \in MeantEntries(idx)} /\ IsOrdered(entries)
             /\ Meant(idx.link.deleted) \cup Meant(idx.link.replaced)
                   \subseteq 0..(Len(idx.link.base) - 1)
  <2>1. IsIndex(idx) /\ IsMerged(idx) /\ ~Unsafe(idx) /\ entries = Indexed(idx)
    BY <1>1 DEF Whole, Progress, Before, Observing, Running
  <2>2. ToSet(entries) = AllLeaves(idx) /\ IsOrdered(entries)
    BY <2>1, IndexedIs
  <2>3. IsBitmap(idx.link.deleted) /\ IsBitmap(idx.link.replaced)
        /\ AreRecords(idx.records) /\ AreRecords(idx.link.base)
    BY <2>1 DEF IsIndex, IsBitmap
  <2>4. Entries(idx) = MeantEntries(idx)
    BY <1>1, <2>1, <2>3, MergedIsMeant DEF Entries, IsMerged
  <2>5. /\ Len(idx.link.base) \in Nat
        /\ ~Malformed(idx.link.deleted, Len(idx.link.base))
        /\ ~Malformed(idx.link.replaced, Len(idx.link.base))
    BY <1>1, <2>1, <2>3 DEF IsMerged, Unmergeable, AreRecords
  <2>6. Meant(idx.link.deleted) \cup Meant(idx.link.replaced) \subseteq 0..(Len(idx.link.base) - 1)
    BY <2>3, <2>5, PositionsAreMeant
  <2>7. QED
    BY <2>2, <2>4, <2>6 DEF AllLeaves
<1>2. Whole => SplitIsMeant
  BY <1>1 DEF SplitIsMeant
<1>3. QED
  BY <1>2, ObservationIsWhole, PTL

\* A split index that it refuses to merge is one that Git calls damaged.
THEOREM OnlyDamagedIsRefused == Spec => []RefusesOnlyDamaged
<1>1. ASSUME Whole, pc = "shared", Unmergeable(idx) PROVE RefusesOnlyDamaged
  <2>1. IsIndex(idx)
    BY <1>1 DEF Whole, Progress
  <2>2. IsBitmap(idx.link.deleted) /\ IsBitmap(idx.link.replaced)
        /\ idx.records \in Seq(ToSet(idx.records)) /\ idx.link.base \in Seq(ToSet(idx.link.base))
    BY <2>1 DEF IsIndex, IsBitmap, AreRecords
  <2>3. QED
    BY <1>1, <2>2, UnmergeableIsDamaged DEF RefusesOnlyDamaged
<1>2. Whole => RefusesOnlyDamaged
  BY <1>1 DEF RefusesOnlyDamaged
<1>3. QED
  BY <1>2, ObservationIsWhole, PTL

-----------------------------------------------------------------------------
(* Git's configuration.                                                     *)

\* The elements of two sequences, one after the other.
LEMMA ToSetOfBoth ==
    ASSUME NEW X, NEW s \in Seq(X), NEW t \in Seq(X)
    PROVE  s \o t \in Seq(X) /\ ToSet(s) \subseteq ToSet(s \o t) /\ ToSet(t) \subseteq ToSet(s \o t)
<1>1. Len(s) \in Nat /\ Len(t) \in Nat /\ Len(s \o t) = Len(s) + Len(t) /\ s \o t \in Seq(X)
  OBVIOUS
<1>2. ASSUME NEW i \in DOMAIN s PROVE i \in DOMAIN (s \o t) /\ (s \o t)[i] = s[i]
  BY <1>1
<1>3. ASSUME NEW i \in DOMAIN t
      PROVE  Len(s) + i \in DOMAIN (s \o t) /\ (s \o t)[Len(s) + i] = t[i]
  BY <1>1
<1>4. QED
  BY <1>1, <1>2, <1>3 DEF ToSet

\* Sequences one after the other: one is appended at a time.
LEMMA FlattenSteps ==
    ASSUME NEW X, NEW s \in Seq(Seq(X)), Len(s) # 0
    PROVE  \E t : /\ FlattenSeq(s) = t[Len(s)]
                  /\ \A i \in 1..Len(s) : t[i] = IF i = 1 THEN s[i] ELSE t[i - 1] \o s[i]
<1> DEFINE L == Len(s)
<1>a. L \in Nat /\ DOMAIN s = 1..L /\ \A k \in 1..L : s[k] \in Seq(X)
  OBVIOUS
<1>b. L # 0
  OBVIOUS
<1> DEFINE Body(g, i) == IF i = 1 THEN s[i] ELSE g[i - 1] \o s[i]
           Fix(g) == g = [i \in 1..L |-> Body(g, i)]
           step == [k \in 1..(L - 1) |-> [q \in Seq(X) |-> q \o s[k + 1]]]
<1>1. L - 1 \in Nat /\ s[1] \in Seq(X) /\ 1 \in 1..L
  BY <1>a, <1>b
<1>2. step \in [1..(L - 1) -> [Seq(X) -> Seq(X)]]
  <2>1. \A k \in 1..(L - 1) : k + 1 \in 1..L
    BY <1>a
  <2>2. \A k \in 1..(L - 1) : \A q \in Seq(X) : q \o s[k + 1] \in Seq(X)
    BY <1>a, <2>1
  <2> HIDE DEF L
  <2>3. QED
    BY <2>2
<1>3. PICK f \in [0..(L - 1) -> Seq(X)] : Iterates(f, L - 1, s[1], step)
  <2> HIDE DEF step, L
  <2>1. QED
    BY <1>1, <1>2, Recursion
<1> DEFINE h == [i \in 1..L |-> f[i - 1]]
<1>4. ASSUME NEW i \in 1..L PROVE h[i] = Body(h, i)
  <2>1. CASE i = 1
    BY <1>3, <2>1 DEF Iterates
  <2>2. CASE i # 1
    <3>1. i - 1 \in 1..(L - 1) /\ (i - 1) + 1 = i /\ i - 1 \in 1..L /\ (i - 1) - 1 \in 0..(L - 1)
      BY <1>a, <2>2
    <3>2. f[i - 1] = step[i - 1][f[(i - 1) - 1]]
      <4> HIDE DEF step, L
      <4>1. QED
        BY <1>3, <3>1 DEF Iterates
    <3>3. step[i - 1] = [q \in Seq(X) |-> q \o s[i]]
      <4> HIDE DEF L
      <4>1. QED
        BY <3>1
    <3>4. f[(i - 1) - 1] \in Seq(X)
      BY <3>1
    <3>5. f[i - 1] = f[(i - 1) - 1] \o s[i]
      BY <3>2, <3>3, <3>4
    <3> HIDE DEF L
    <3>6. h[i] = f[i - 1] /\ h[i - 1] = f[(i - 1) - 1]
      BY <3>1
    <3>7. QED
      BY <2>2, <3>5, <3>6
  <2>3. QED
    BY <2>1, <2>2
<1>5. Fix(h)
  <2> HIDE DEF Body, L
  <2>1. QED
    BY <1>4
<1> DEFINE t == CHOOSE g : Fix(g)
<1>6. FlattenSeq(s) = t[L]
  BY <1>b DEF FlattenSeq
<1>7. Fix(t)
  <2> HIDE DEF Fix
  <2>1. QED
    BY <1>5, Zenon
<1> HIDE DEF t
<1>8. \A i \in 1..L : t[i] = Body(t, i)
  <2>1. t = [i \in 1..L |-> Body(t, i)]
    BY <1>7
  <2> HIDE DEF Body, L
  <2>2. QED
    BY <2>1
<1>9. QED
  BY <1>6, <1>8

\* Sequences one after the other hold what each of them holds.
LEMMA FlattenIs ==
    ASSUME NEW X, NEW s \in Seq(Seq(X))
    PROVE  FlattenSeq(s) \in Seq(X) /\ \A k \in DOMAIN s : ToSet(s[k]) \subseteq ToSet(FlattenSeq(s))
<1> DEFINE L == Len(s)
<1>1. L \in Nat /\ DOMAIN s = 1..L /\ \A k \in 1..L : s[k] \in Seq(X)
  OBVIOUS
<1>2. CASE L = 0
  <2>1. s = <<>> /\ FlattenSeq(s) = s
    BY <1>2 DEF FlattenSeq
  <2>2. FlattenSeq(s) \in Seq(X) /\ DOMAIN s = {}
    <3>1. FlattenSeq(s) = <<>> /\ <<>> \in Seq(X)
      BY <2>1
    <3>2. DOMAIN s = 1..0
      BY <1>1, <1>2
    <3>3. QED
      BY <3>1, <3>2
  <2>3. QED
    BY <2>2
<1>3. CASE L # 0
  <2> DEFINE Body(g, i) == IF i = 1 THEN s[i] ELSE g[i - 1] \o s[i]
  <2>1. 1 \in 1..L /\ s[1] \in Seq(X)
    BY <1>1, <1>3
  <2>5. PICK t : FlattenSeq(s) = t[L] /\ \A i \in 1..L : t[i] = Body(t, i)
    BY <1>3, FlattenSteps
  <2>6. FlattenSeq(s) = t[L]
    BY <2>5
  <2>8. \A i \in 1..L : t[i] = Body(t, i)
    BY <2>5
  <2> DEFINE S == {i \in 1..L : t[i] \in Seq(X) /\ \A k \in 1..i : ToSet(s[k]) \subseteq ToSet(t[i])}
  <2>9. 1 \in S
    <3>1. t[1] = s[1]
      BY <2>1, <2>8
    <3>2. \A k \in 1..1 : k = 1
      OBVIOUS
    <3>3. QED
      BY <2>1, <3>1, <3>2
  <2>10. ASSUME NEW i \in 1..(L - 1), i \in S PROVE i + 1 \in S
    <3>1. i + 1 \in 1..L /\ i + 1 # 1 /\ (i + 1) - 1 = i
      BY <1>1
    <3>2. t[i + 1] = t[i] \o s[i + 1]
      BY <2>8, <3>1
    <3>3. t[i] \in Seq(X) /\ s[i + 1] \in Seq(X)
      BY <2>10, <3>1
    <3>4. /\ t[i + 1] \in Seq(X)
          /\ ToSet(t[i]) \subseteq ToSet(t[i + 1]) /\ ToSet(s[i + 1]) \subseteq ToSet(t[i + 1])
      <4> HIDE DEF L, S, Body
      <4>1. QED
        BY <3>2, <3>3, ToSetOfBoth
    <3>5. ASSUME NEW k \in 1..(i + 1) PROVE ToSet(s[k]) \subseteq ToSet(t[i + 1])
      <4>1. k \in 1..i \/ k = i + 1
        OBVIOUS
      <4>2. \A j \in 1..i : ToSet(s[j]) \subseteq ToSet(t[i])
        BY <2>10
      <4> HIDE DEF L, S, Body
      <4>3. QED
        BY <3>4, <4>1, <4>2
    <3> HIDE DEF L, Body
    <3>6. QED
      BY <3>1, <3>4, <3>5
  <2>11. 1..L \subseteq S
    <3>1. \A i \in 1..(L - 1) : i \in S => i + 1 \in S
      <4> HIDE DEF S
      <4>1. QED
        BY <2>10
    <3>2. 1 \in Int /\ L \in Int
      BY <1>1
    <3> HIDE DEF S
    <3>3. QED
      BY <2>9, <3>1, <3>2, IntervalInduction
  <2>12. L \in S
    <3>1. L \in 1..L
      BY <1>1, <1>3
    <3> HIDE DEF S, L
    <3>2. QED
      BY <2>11, <3>1
  <2>13. QED
    BY <2>6, <2>12, <1>1
<1>4. QED
  BY <1>2, <1>3

IsConf(conf) == DOMAIN conf = ConfigFiles /\ \A f \in ConfigFiles : IsConfigFile(conf[f])

\* What the files say, and the refusals.
Sayings(conf) ==
    {Refused} \cup {i \in UNION {ToSet(conf[f]) : f \in {g \in ConfigFiles : conf[g] # Unset}} :
                       i.key # "include"}

\* What is said in a file, and in those that may be included while some are
\* active, which are refused.
SayingsOf(conf, f, active) ==
    {Refused} \cup
    {i \in UNION {ToSet(conf[g]) : g \in {h \in ConfigFiles : conf[h] # Unset /\ (h = f \/ h \notin active)}} :
        i.key # "include"}

Readings(conf) ==
    {r \in [ConfigFiles -> [SUBSET ConfigFiles -> Seq(Sayings(conf))]] :
        \A f \in ConfigFiles : \A active \in SUBSET ConfigFiles :
            r[f][active] \in Seq(SayingsOf(conf, f, active))}

\* A sequence over a set is one over a larger set.
LEMMA SeqGrows ==
    ASSUME NEW S, NEW T, S \subseteq T, NEW s \in Seq(S)
    PROVE  s \in Seq(T)
OBVIOUS

\* What is said in one file, some being active, is said in the files.
LEMMA SayingsGrow ==
    ASSUME NEW conf, NEW f, NEW active
    PROVE  SayingsOf(conf, f, active) \subseteq Sayings(conf)
BY DEF SayingsOf, Sayings

\* What an item of a file stands for; prior is read with one include less.
Piece(n, prior, item, active) ==
    IF item.key # "include" THEN <<item>>
    ELSE IF item.cond = "unsupported" THEN <<Refused>>
    ELSE IF item.cond = "fails" THEN <<>>
    ELSE IF item.file \in active \/ n = 0 THEN <<Refused>>
    ELSE prior[item.file][active \cup {item.file}]

Pieces(conf, n, prior, f, active) == [k \in DOMAIN conf[f] |-> Piece(n, prior, conf[f][k], active)]

Level(conf, n, prior) ==
    [f \in ConfigFiles |-> [active \in SUBSET ConfigFiles |->
        IF conf[f] = Unset THEN <<>> ELSE FlattenSeq(Pieces(conf, n, prior, f, active))]]

\* A file gives sayings for each of its items.
LEMMA PiecesAre ==
    ASSUME NEW conf, IsConf(conf), NEW n, NEW prior, n = 0 \/ prior \in Readings(conf),
           NEW f \in ConfigFiles, conf[f] # Unset, NEW active \in SUBSET ConfigFiles
    PROVE  Pieces(conf, n, prior, f, active) \in Seq(Seq(SayingsOf(conf, f, active)))
<1> DEFINE X == SayingsOf(conf, f, active)
           p == Pieces(conf, n, prior, f, active)
<1>1. conf[f] \in Seq(ToSet(conf[f])) /\ \A i \in ToSet(conf[f]) : IsItem(i)
  BY DEF IsConf, IsConfigFile
<1>2. Refused \in X
  BY DEF SayingsOf
<1>3. ASSUME NEW k \in DOMAIN conf[f] PROVE Piece(n, prior, conf[f][k], active) \in Seq(X)
  <2> DEFINE item == conf[f][k]
  <2>1. item \in ToSet(conf[f]) /\ IsItem(item)
    BY <1>1 DEF ToSet
  <2>2. CASE item.key # "include"
    <3>1. item \in X
      BY <2>1, <2>2 DEF SayingsOf
    <3>2. QED
      BY <2>2, <3>1 DEF Piece
  <2>3. CASE item.key = "include"
    <3>1. item.file \in ConfigFiles /\ active \cup {item.file} \in SUBSET ConfigFiles
      BY <2>1, <2>3 DEF IsItem
    <3>2. n # 0 /\ item.file \notin active => prior[item.file][active \cup {item.file}] \in Seq(X)
      <4> SUFFICES ASSUME n # 0, item.file \notin active
                   PROVE  prior[item.file][active \cup {item.file}] \in Seq(X)
        OBVIOUS
      <4> DEFINE g == item.file
                 Y == SayingsOf(conf, g, active \cup {g})
      <4>1. prior[g][active \cup {g}] \in Seq(Y)
        <5> HIDE DEF item
        <5>1. QED
          BY <3>1 DEF Readings
      <4>2. Y \subseteq X
        <5> HIDE DEF item
        <5>1. QED
          BY DEF SayingsOf
      <4> HIDE DEF g, X, Y, item
      <4>3. QED
        BY <4>1, <4>2, SeqGrows DEF g
    <3>3. <<>> \in Seq(X) /\ <<Refused>> \in Seq(X)
      BY <1>2
    <3> HIDE DEF item, X
    <3>4. QED
      BY <2>3, <3>2, <3>3 DEF Piece, item
  <2>4. QED
    BY <2>2, <2>3
<1>4. Len(conf[f]) \in Nat /\ DOMAIN conf[f] = 1..Len(conf[f])
  BY <1>1
<1>5. p = [k \in 1..Len(conf[f]) |-> Piece(n, prior, conf[f][k], active)]
  BY <1>4 DEF Pieces
<1> HIDE DEF p, X
<1>6. p \in Seq(Seq(X))
  BY <1>3, <1>4, <1>5
<1>7. QED
  BY <1>6 DEF p, X

\* One level of includes gives sayings of the files.
LEMMA LevelIs ==
    ASSUME NEW conf, IsConf(conf), NEW n, NEW prior, n = 0 \/ prior \in Readings(conf)
    PROVE  Level(conf, n, prior) \in Readings(conf)
<1>1. ASSUME NEW f \in ConfigFiles, NEW active \in SUBSET ConfigFiles
      PROVE  (IF conf[f] = Unset THEN <<>> ELSE FlattenSeq(Pieces(conf, n, prior, f, active)))
                \in Seq(SayingsOf(conf, f, active))
  <2> DEFINE X == SayingsOf(conf, f, active)
  <2>1. CASE conf[f] = Unset
    BY <2>1
  <2>2. CASE conf[f] # Unset
    <3> DEFINE p == Pieces(conf, n, prior, f, active)
    <3>1. p \in Seq(Seq(X))
      BY <2>2, PiecesAre
    <3> HIDE DEF X, p
    <3>2. FlattenSeq(p) \in Seq(X)
      BY <3>1, FlattenIs
    <3>3. QED
      BY <2>2, <3>2 DEF X, p
  <2>3. QED
    BY <2>1, <2>2
<1> DEFINE V(f, active) ==
             IF conf[f] = Unset THEN <<>> ELSE FlattenSeq(Pieces(conf, n, prior, f, active))
           r == [f \in ConfigFiles |-> [active \in SUBSET ConfigFiles |-> V(f, active)]]
<1>2. \A f \in ConfigFiles : \A active \in SUBSET ConfigFiles :
         V(f, active) \in Seq(SayingsOf(conf, f, active)) /\ V(f, active) \in Seq(Sayings(conf))
  <2> TAKE f \in ConfigFiles
  <2> TAKE active \in SUBSET ConfigFiles
  <2>1. V(f, active) \in Seq(SayingsOf(conf, f, active))
    BY <1>1
  <2> HIDE DEF V
  <2>2. QED
    BY <2>1, SayingsGrow, SeqGrows
<1>3. Level(conf, n, prior) = r
  BY DEF Level
<1> HIDE DEF V
<1>4. QED
  BY <1>2, <1>3 DEF Readings

\* A file is read as its items and what its includes are read as.
LEMMA StrictIs ==
    ASSUME NEW conf, IsConf(conf)
    PROVE  \E prior : /\ MaxIncludes = 0 \/ prior \in Readings(conf)
                      /\ strict_config(conf) = Level(conf, MaxIncludes, prior)
<1> DEFINE M == MaxIncludes
           R == Readings(conf)
           Body(g, n) ==
             [f \in ConfigFiles |-> [active \in SUBSET ConfigFiles |->
              IF conf[f] = Unset THEN <<>> ELSE
              FlattenSeq([k \in DOMAIN conf[f] |->
                  LET item == conf[f][k] IN
                  IF item.key # "include" THEN <<item>>
                  ELSE IF item.cond = "unsupported" THEN <<Refused>>
                  ELSE IF item.cond = "fails" THEN <<>>
                  ELSE IF item.file \in active \/ n = 0 THEN <<Refused>>
                  ELSE g[n - 1][item.file][active \cup {item.file}]])]]
           Fix(g) == g = [n \in 0..M |-> Body(g, n)]
           start == Level(conf, 0, <<>>)
           step == [n \in 1..M |-> [prior \in R |-> Level(conf, n, prior)]]
<1>1. M \in Nat
  BY ConfigAssumption
<1>2. \A g : \A n : Body(g, n) = Level(conf, n, g[n - 1])
  BY Zenon DEF Level, Pieces, Piece
<1>3. start \in R
  BY LevelIs
<1>4. step \in [1..M -> [R -> R]]
  <2>1. \A n : \A prior \in R : Level(conf, n, prior) \in R
    BY LevelIs
  <2> HIDE DEF R, M
  <2>2. QED
    BY <2>1
<1>5. PICK h \in [0..M -> R] : Iterates(h, M, start, step)
  <2> HIDE DEF step, start, R, M
  <2>1. QED
    BY <1>1, <1>3, <1>4, Recursion
<1>6. ASSUME NEW n \in 0..M PROVE h[n] = Level(conf, n, h[n - 1])
  <2>1. CASE n = 0
    <3>1. \A prior : Level(conf, 0, prior) = Level(conf, 0, <<>>)
      <4>1. \A prior, item, active : Piece(0, prior, item, active) = Piece(0, <<>>, item, active)
        BY DEF Piece
      <4>2. \A prior, f, active : Pieces(conf, 0, prior, f, active) = Pieces(conf, 0, <<>>, f, active)
        BY <4>1 DEF Pieces
      <4>3. QED
        BY <4>2 DEF Level
    <3>2. h[0] = start
      BY <1>5 DEF Iterates
    <3>3. QED
      BY <2>1, <3>1, <3>2
  <2>2. CASE n # 0
    <3>1. n \in 1..M /\ n - 1 \in 0..M
      BY <2>2, <1>1
    <3>2. h[n] = step[n][h[n - 1]] /\ h[n - 1] \in R
      <4> HIDE DEF step, start, R, M
      <4>1. QED
        BY <3>1, <1>5 DEF Iterates
    <3> HIDE DEF R, M
    <3>3. QED
      BY <3>1, <3>2
  <2>3. QED
    BY <2>1, <2>2
<1>7. Fix(h)
  <2>1. \A n \in 0..M : h[n] = Body(h, n)
    <3> HIDE DEF Body
    <3>1. QED
      BY <1>2, <1>6
  <2> HIDE DEF Body, M, R
  <2>2. QED
    BY <2>1
<1> DEFINE t == CHOOSE g : Fix(g)
<1>8. strict_config(conf) = t[M]
  BY DEF strict_config
<1>9. Fix(t)
  <2> HIDE DEF Fix
  <2>1. QED
    BY <1>7, Zenon
<1> HIDE DEF t
<1>10. \A n \in 0..M : t[n] = Level(conf, n, t[n - 1])
  <2>1. t = [n \in 0..M |-> Body(t, n)]
    BY <1>9
  <2> HIDE DEF Body, M
  <2>2. QED
    BY <1>2, <2>1
<1> DEFINE S == {n \in Nat : n <= M => t[n] \in R}
<1>11. 0 \in S
  <2>1. 0 \in 0..M
    BY <1>1
  <2>2. t[0] = Level(conf, 0, t[0 - 1])
    BY <1>10, <2>1
  <2>3. t[0] \in R
    BY <2>2, LevelIs
  <2> HIDE DEF R
  <2>4. QED
    BY <2>3
<1>12. ASSUME NEW n \in Nat, n \in S PROVE n + 1 \in S
  <2> SUFFICES ASSUME n + 1 <= M PROVE t[n + 1] \in R
    OBVIOUS
  <2>1. n + 1 \in 0..M /\ (n + 1) - 1 = n /\ t[n] \in R
    <3> HIDE DEF R
    <3>1. QED
      BY <1>1, <1>12
  <2>2. t[n + 1] = Level(conf, n + 1, t[n])
    <3> HIDE DEF S, R, M
    <3>1. QED
      BY <1>10, <2>1
  <2>3. QED
    BY <2>1, <2>2, LevelIs
<1>13. Nat \subseteq S
  <2> HIDE DEF S
  <2>1. QED
    BY <1>11, <1>12, SetInduction
<1>14. t[M] = Level(conf, M, t[M - 1]) /\ (M = 0 \/ t[M - 1] \in R)
  <2>1. M \in 0..M
    BY <1>1
  <2>2. M # 0 => M - 1 \in S /\ M - 1 <= M
    <3> HIDE DEF S, R, M
    <3>1. QED
      BY <1>1, <1>13
  <2>3. M # 0 => t[M - 1] \in R
    <3> HIDE DEF R, M
    <3>1. QED
      BY <2>2
  <2> HIDE DEF R, M, S
  <2>4. QED
    BY <1>10, <2>1, <2>3
<1>15. QED
  BY <1>8, <1>14

\* What is read of a file is what files say; an include of it under a condition
\* that is not supported refuses it.
LEMMA ItemsAre ==
    ASSUME NEW conf, IsConf(conf), NEW f \in ConfigFiles
    PROVE  /\ Items(conf, f) \in Seq(Sayings(conf))
           /\ conf[f] # Unset /\ ~Contains(Items(conf, f), Refused) =>
                 \A k \in DOMAIN conf[f] : conf[f][k].cond # "unsupported"
<1>1. PICK prior : /\ MaxIncludes = 0 \/ prior \in Readings(conf)
                   /\ strict_config(conf) = Level(conf, MaxIncludes, prior)
  BY StrictIs
<1> DEFINE pieces == Pieces(conf, MaxIncludes, prior, f, {f})
           X == SayingsOf(conf, f, {f})
<1>2. Items(conf, f) = IF conf[f] = Unset THEN <<>> ELSE FlattenSeq(pieces)
  <2>1. {f} \in SUBSET ConfigFiles
    OBVIOUS
  <2> HIDE DEF pieces
  <2>2. Level(conf, MaxIncludes, prior)[f][{f}] = IF conf[f] = Unset THEN <<>> ELSE FlattenSeq(pieces)
    BY <2>1 DEF Level, pieces
  <2>3. QED
    BY <1>1, <2>2 DEF Items
<1>3. CASE conf[f] = Unset
  BY <1>2, <1>3
<1>4. CASE conf[f] # Unset
  <2>1. pieces \in Seq(Seq(X))
    BY <1>1, <1>4, PiecesAre
  <2> HIDE DEF X, pieces
  <2>2. FlattenSeq(pieces) \in Seq(X)
        /\ \A k \in DOMAIN pieces : ToSet(pieces[k]) \subseteq ToSet(FlattenSeq(pieces))
    BY <2>1, FlattenIs
  <2>3. ASSUME NEW k \in DOMAIN conf[f], conf[f][k].cond = "unsupported"
        PROVE  Contains(Items(conf, f), Refused)
    <3>1. conf[f][k] \in ToSet(conf[f]) /\ IsItem(conf[f][k])
      BY <1>4 DEF ToSet, IsConf, IsConfigFile
    <3>2. conf[f][k].key = "include"
      BY <2>3, <3>1 DEF IsItem
    <3>3. k \in DOMAIN pieces /\ pieces[k] = <<Refused>>
      BY <2>3, <3>2 DEF pieces, Pieces, Piece
    <3>4. Refused \in ToSet(pieces[k])
      BY <3>3 DEF ToSet
    <3>5. Refused \in ToSet(Items(conf, f))
      BY <1>2, <1>4, <2>2, <3>3, <3>4
    <3>6. Items(conf, f) \in Seq(X)
      BY <1>2, <1>4, <2>2
    <3>7. QED
      BY <3>5, <3>6 DEF ToSet, Contains
  <2>4. Items(conf, f) \in Seq(Sayings(conf))
    BY <1>2, <1>4, <2>2, SayingsGrow, SeqGrows DEF X
  <2>5. QED
    BY <2>3, <2>4
<1>5. QED
  BY <1>3, <1>4

-----------------------------------------------------------------------------
(* Numbers of the configuration.                                            *)

\* Products of positive numbers are positive: the prover needs an induction.
LEMMA Products ==
    ASSUME NEW m \in Nat \ {0}, NEW n \in Nat \ {0}
    PROVE  m * n \in Nat \ {0}
OBVIOUS

\* A unit suffix multiplies by a positive number.
LEMMA UnitIs == ASSUME NEW u PROVE Unit(u) \in Nat \ {0}
<1>1. Kilo \in Nat \ {0}
  BY ConfigAssumption
<1> DEFINE square == Kilo * Kilo
<1>2. square \in Nat \ {0}
  BY <1>1, Products
<1> HIDE DEF square
<1>3. square * Kilo \in Nat \ {0}
  BY <1>1, <1>2, Products
<1>4. QED
  BY <1>1, <1>2, <1>3 DEF Unit, square

\* A number with a unit is zero only if the number is.
LEMMA ProductIsZero ==
    ASSUME NEW n \in Int, NEW u \in Nat \ {0}
    PROVE  n * u = 0 <=> n = 0
OBVIOUS

\* Within m with its unit, a number is within m divided by the unit.
LEMMA WithinQuotient ==
    ASSUME NEW n \in Int, NEW u \in Nat \ {0}, NEW m \in Nat, -m <= n * u, n * u <= m
    PROVE  -(m \div u) <= n /\ n <= m \div u
<1> DEFINE q == m \div u
           r == m % u
<1>1. q \in Nat /\ r \in 0..(u - 1) /\ m = u * q + r
  OBVIOUS
<1> HIDE DEF q, r
<1>2. ASSUME n > q PROVE FALSE
  <2>1. n * u >= (q + 1) * u
    BY <1>1, <1>2
  <2>2. (q + 1) * u = u * q + u
    BY <1>1
  <2>3. n * u \in Int /\ u * q \in Int
    BY <1>1
  <2> DEFINE x == n * u
             y == u * q
             z == (q + 1) * u
  <2>4. x >= z /\ z = y + u /\ x <= m /\ m = y + r /\ x \in Int /\ y \in Int
    BY <1>1, <2>1, <2>2, <2>3
  <2> HIDE DEF x, y, z
  <2>5. QED
    BY <2>4, <1>1
<1>3. ASSUME n < -q PROVE FALSE
  <2>1. (-n) * u >= (q + 1) * u /\ (-n) * u = -(n * u)
    BY <1>1, <1>3
  <2>2. (q + 1) * u = u * q + u
    BY <1>1
  <2>3. n * u \in Int /\ u * q \in Int
    BY <1>1
  <2> DEFINE x == n * u
             y == u * q
             z == (q + 1) * u
  <2>4. -x >= z /\ z = y + u /\ -m <= x /\ m = y + r /\ x \in Int /\ y \in Int
    BY <1>1, <2>1, <2>2, <2>3
  <2> HIDE DEF x, y, z
  <2>5. QED
    BY <2>4, <1>1
<1>4. QED
  BY <1>1, <1>2, <1>3 DEF q

\* The values that both readers take for booleans, and what they make of them.
LEMMA ValuesAgree ==
    ASSUME NEW v, IsValue(v)
    PROVE  /\ git_boolean(v) <=> GitTrue(v)
           /\ git_boolean(v) \in BOOLEAN /\ GitTrue(v) \in BOOLEAN
           /\ IsBoolean(v) => GitAccepts(v) /\ v.word \notin {"bad", "input"}
           /\ v.word = "input" => GitAccepts(v)
           /\ autocrlf(v) <=> GitTrue(v) \/ v.word = "input"
<1>1. v.n \in Int /\ Unit(v.unit) \in Nat \ {0}
  BY UnitIs DEF IsValue
<1> DEFINE u == Unit(v.unit)
<1> HIDE DEF u
<1>2. v.n * u = 0 <=> v.n = 0
  BY <1>1, ProductIsZero DEF u
<1>3. git_boolean(v) <=> GitTrue(v)
  BY <1>2 DEF git_boolean, GitTrue, Number, u
<1>4. git_boolean(v) \in BOOLEAN /\ GitTrue(v) \in BOOLEAN
  BY DEF git_boolean, GitTrue
<1>5. ASSUME v.word = "number", Number(v) \in -MaxInteger..MaxInteger
      PROVE  GitAccepts(v)
  <2>1. -MaxInteger <= v.n * u /\ v.n * u <= MaxInteger
    BY <1>5 DEF Number, u
  <2>2. -(MaxInteger \div u) <= v.n /\ v.n <= MaxInteger \div u
    BY <1>1, <2>1, ConfigAssumption, WithinQuotient DEF u
  <2>3. QED
    BY <2>2 DEF GitAccepts, u
<1>6. IsBoolean(v) => GitAccepts(v) /\ v.word \notin {"bad", "input"}
  BY <1>5 DEF IsBoolean, GitAccepts
<1>7. v.word = "input" => GitAccepts(v)
  BY DEF GitAccepts
<1>8. QED
  BY <1>3, <1>4, <1>6, <1>7 DEF autocrlf

-----------------------------------------------------------------------------
(* What the files of the configuration say last.                            *)

\* The greatest of some of the first n numbers is one of them.
LEMMA MaxIs ==
    ASSUME NEW n \in Nat, NEW S \in SUBSET (1..n), S # {}
    PROVE  Max(S) \in S /\ \A y \in S : y <= Max(S)
<1> DEFINE T == {n - x : x \in S}
<1>1. T \in SUBSET Nat /\ T # {}
  <2>1. \A x \in S : n - x \in Nat
    OBVIOUS
  <2>2. QED
    BY <2>1
<1>2. PICK m \in T : \A t \in T : m <= t
  <2> HIDE DEF T
  <2>1. QED
    BY <1>1, LeastIs
<1>3. PICK x \in S : m = n - x
  BY <1>2
<1>4. \A y \in S : x >= y
  <2> TAKE y \in S
  <2>1. n - x <= n - y
    BY <1>2, <1>3
  <2>2. x \in Int /\ y \in Int
    OBVIOUS
  <2>3. QED
    BY <2>1, <2>2
<1>5. \A y \in S : y \in Int
  OBVIOUS
<1>6. \E z \in S : \A y \in S : z >= y
  BY <1>4
<1>7. Max(S) \in S /\ \A y \in S : Max(S) >= y
  BY <1>6, Zenon DEF Max
<1>8. QED
  BY <1>5, <1>7

\* The last that a file says of a key.
LastSaid(conf, f, key) == Items(conf, f)[Max(Setting(Items(conf, f), key))].value

\* What a file says last of a key is a value.
LEMMA LastIs ==
    ASSUME NEW conf, IsConf(conf), NEW f \in ConfigFiles, NEW key, key \notin {"refused", "include"},
           Setting(Items(conf, f), key) # {}
    PROVE  IsValue(LastSaid(conf, f, key))
<1> DEFINE items == Items(conf, f)
           k == Max(Setting(items, key))
<1>1. items \in Seq(Sayings(conf))
  BY ItemsAre
<1>2. k \in Setting(items, key)
  <2>1. Len(items) \in Nat /\ Setting(items, key) \in SUBSET (1..Len(items))
    <3> HIDE DEF items
    <3>1. QED
      BY <1>1 DEF Setting
  <2> HIDE DEF items
  <2>2. QED
    BY <2>1, MaxIs DEF items
<1> HIDE DEF k
<1>3. items[k] \in Sayings(conf) /\ items[k].key = key
  BY <1>1, <1>2 DEF Setting
<1>4. items[k] # Refused
  BY <1>3 DEF Refused
<1>5. PICK g \in ConfigFiles : conf[g] # Unset /\ items[k] \in ToSet(conf[g])
  BY <1>3, <1>4 DEF Sayings
<1>6. IsItem(items[k])
  BY <1>5 DEF IsConf, IsConfigFile
<1>7. IsValue(items[k].value)
  BY <1>3, <1>6 DEF IsItem
<1>8. QED
  BY <1>7 DEF LastSaid, k

\* Of two sequences of items, what the second says counts, else the first.
LEMMA LatestOfBoth ==
    ASSUME NEW X, NEW s \in Seq(X), NEW t \in Seq(X), NEW key, NEW d
    PROVE  Latest(s \o t, key, d) = Latest(t, key, Latest(s, key, d))
<1> DEFINE both == s \o t
           S == Setting(s, key)
           T == Setting(t, key)
           B == Setting(both, key)
<1>1. /\ Len(s) \in Nat /\ Len(t) \in Nat /\ DOMAIN s = 1..Len(s) /\ DOMAIN t = 1..Len(t)
      /\ DOMAIN both = 1..(Len(s) + Len(t))
      /\ \A i \in 1..Len(s) : both[i] = s[i]
      /\ \A i \in 1..Len(t) : both[Len(s) + i] = t[i]
  OBVIOUS
<1>2. S \subseteq 1..Len(s) /\ T \subseteq 1..Len(t) /\ B \subseteq 1..(Len(s) + Len(t))
  BY <1>1 DEF Setting
<1>3. /\ \A i \in 1..Len(s) : i \in S <=> i \in B
      /\ \A i \in 1..Len(t) : i \in T <=> Len(s) + i \in B
  <2> HIDE DEF both
  <2>1. QED
    BY <1>1 DEF Setting
<1>4. \A i \in B : i \in 1..Len(s) \/ i - Len(s) \in 1..Len(t)
  <2> HIDE DEF B, both
  <2>1. QED
    BY <1>1, <1>2
<1> HIDE DEF both, S, T, B
<1>5. CASE T # {}
  <2> DEFINE m == Max(T)
  <2>1. m \in T /\ \A y \in T : y <= m
    BY <1>1, <1>2, <1>5, MaxIs
  <2> HIDE DEF m
  <2>2. Len(s) + m \in B /\ \A y \in B : y <= Len(s) + m
    <3>1. m \in 1..Len(t) /\ Len(s) + m \in B
      BY <1>2, <1>3, <2>1
    <3>2. ASSUME NEW y \in B PROVE y <= Len(s) + m
      <4>1. CASE y \in 1..Len(s)
        BY <1>1, <3>1, <4>1
      <4>2. CASE y - Len(s) \in 1..Len(t)
        <5>1. y \in Int /\ Len(s) + (y - Len(s)) = y
          BY <1>1, <1>2
        <5>2. y - Len(s) \in T
          BY <1>3, <4>2, <5>1
        <5>3. y - Len(s) <= m
          BY <2>1, <5>2
        <5>4. QED
          BY <1>1, <3>1, <5>1, <5>3
      <4>3. QED
        BY <1>4, <4>1, <4>2
    <3>3. QED
      BY <3>1, <3>2
  <2>3. Max(B) = Len(s) + m
    <3>1. Max(B) \in B /\ \A y \in B : y <= Max(B)
      <4>1. Len(s) + Len(t) \in Nat /\ B # {}
        BY <1>1, <2>2
      <4>2. QED
        BY <1>2, <4>1, MaxIs
    <3>2. m \in Int /\ \A y \in B : y \in Int
      BY <1>1, <1>2, <2>1
    <3> DEFINE b == Max(B)
    <3> HIDE DEF b
    <3>4. b \in B /\ Len(s) + m <= b
      BY <2>2, <3>1 DEF b
    <3>5. b \in Int /\ b <= Len(s) + m
      BY <2>2, <3>2, <3>4
    <3>6. QED
      BY <1>1, <3>2, <3>4, <3>5 DEF b
  <2>4. Latest(both, key, d) = both[Len(s) + m].value
    BY <2>2, <2>3 DEF Latest, B
  <2>5. Latest(t, key, Latest(s, key, d)) = t[m].value
    BY <1>5 DEF Latest, T, m
  <2>6. QED
    BY <1>1, <1>2, <2>1, <2>4, <2>5 DEF both
<1>6. CASE T = {}
  <2>1. B = S
    <3>1. ASSUME NEW i \in B PROVE i \in S
      <4>1. i \in Int /\ i = Len(s) + (i - Len(s))
        BY <1>1, <1>2
      <4>2. CASE i \in 1..Len(s)
        BY <1>3, <3>1, <4>2
      <4>3. CASE i - Len(s) \in 1..Len(t)
        BY <1>3, <1>6, <3>1, <4>1, <4>3
      <4>4. QED
        BY <1>4, <4>2, <4>3
    <3>2. S \subseteq B
      BY <1>2, <1>3
    <3>3. QED
      BY <3>1, <3>2
  <2>2. Latest(t, key, Latest(s, key, d)) = Latest(s, key, d)
    BY <1>6 DEF Latest, T
  <2>3. CASE S = {}
    BY <2>1, <2>2, <2>3 DEF Latest, S, B, both
  <2>4. CASE S # {}
    <3>1. Max(S) \in 1..Len(s)
      BY <1>1, <1>2, <2>4, MaxIs
    <3>2. Latest(both, key, d) = both[Max(S)].value /\ Latest(s, key, d) = s[Max(S)].value
      BY <2>1, <2>4 DEF Latest, S, B
    <3>3. QED
      BY <1>1, <2>2, <3>1, <3>2 DEF both
  <2>5. QED
    BY <2>3, <2>4
<1>7. QED
  BY <1>5, <1>6

\* What one item says.
LEMMA LatestOfOne ==
    ASSUME NEW item, NEW key, NEW d
    PROVE  Latest(<<item>>, key, d) = IF item.key = key THEN item.value ELSE d
<1> DEFINE S == Setting(<<item>>, key)
<1>1. S = IF item.key = key THEN {1} ELSE {}
  BY DEF Setting
<1>2. item.key = key => Max(S) = 1
  <2>1. 1 \in Nat /\ {1} \in SUBSET (1..1)
    OBVIOUS
  <2>2. item.key = key => Max({1}) \in {1}
    BY <2>1, MaxIs
  <2>3. QED
    BY <1>1, <2>2
<1> HIDE DEF S
<1>3. QED
  BY <1>1, <1>2 DEF Latest, S

\* Each sequence is the own item that speaks of the key, or does not speak of it.
SaidBy(s, own, key) ==
    /\ Len(own) = Len(s)
    /\ \A k \in 1..Len(s) : IF own[k].key = key THEN s[k] = <<own[k]>> ELSE Setting(s[k], key) = {}

\* Such sequences, one after the other, say of the key what the own items do.
LEMMA LatestOfFlat ==
    ASSUME NEW X, NEW s \in Seq(Seq(X)), NEW Y, NEW own \in Seq(Y), NEW key, NEW d,
           SaidBy(s, own, key)
    PROVE  Latest(FlattenSeq(s), key, d) = Latest(own, key, d)
<1> DEFINE L == Len(s)
<1>0. /\ Len(own) = L
      /\ \A k \in 1..L : IF own[k].key = key THEN s[k] = <<own[k]>> ELSE Setting(s[k], key) = {}
  BY DEF SaidBy
<1>1. L \in Nat /\ DOMAIN s = 1..L /\ \A k \in 1..L : s[k] \in Seq(X)
  OBVIOUS
<1>2. CASE L = 0
  <2>1. s = <<>> /\ own = <<>> /\ FlattenSeq(s) = s
    BY <1>0, <1>2 DEF FlattenSeq
  <2>2. QED
    BY <2>1
<1>3. CASE L # 0
  <2>1. PICK t : /\ FlattenSeq(s) = t[L]
                 /\ \A i \in 1..L : t[i] = IF i = 1 THEN s[i] ELSE t[i - 1] \o s[i]
    BY <1>3, FlattenSteps
  <2> DEFINE P(i) == SubSeq(own, 1, i)
             S == {i \in 1..L : t[i] \in Seq(X) /\ Latest(t[i], key, d) = Latest(P(i), key, d)}
  <2>2. ASSUME NEW k \in 1..L, NEW v
        PROVE  Latest(s[k], key, v) = Latest(<<own[k]>>, key, v)
    <3>1. CASE own[k].key = key
      BY <1>0, <3>1
    <3>2. CASE own[k].key # key
      <4>1. Setting(s[k], key) = {}
        BY <1>0, <3>2
      <4>2. Latest(s[k], key, v) = v
        BY <4>1 DEF Latest
      <4>3. QED
        BY <3>2, <4>2, LatestOfOne
    <3>3. QED
      BY <3>1, <3>2
  <2>3. 1 \in 1..L /\ t[1] = s[1] /\ P(1) = <<own[1]>>
    <3>1. 1 \in 1..L
      BY <1>1, <1>3
    <3>2. P(1) = <<own[1]>>
      <4>1. Len(own) >= 1
        BY <1>0, <1>1, <1>3
      <4>2. Len(P(1)) = 1 /\ P(1)[1] = own[1] /\ P(1) \in Seq(Y)
        BY <4>1
      <4> HIDE DEF P
      <4>3. QED
        BY <4>2
    <3>3. QED
      BY <2>1, <3>1, <3>2
  <2>4. 1 \in S
    <3> HIDE DEF P, L
    <3>1. QED
      BY <1>1, <2>2, <2>3
  <2>5. ASSUME NEW i \in 1..(L - 1), i \in S PROVE i + 1 \in S
    <3>1. i + 1 \in 1..L /\ i + 1 # 1 /\ (i + 1) - 1 = i
      BY <1>1
    <3>2. t[i + 1] = t[i] \o s[i + 1]
      <4> HIDE DEF L
      <4>1. QED
        BY <2>1, <3>1
    <3>3. /\ t[i] \in Seq(X) /\ s[i + 1] \in Seq(X)
          /\ Latest(t[i], key, d) = Latest(P(i), key, d)
      <4> HIDE DEF L, P
      <4>1. QED
        BY <1>1, <2>5, <3>1
    <3>4. P(i + 1) = P(i) \o <<own[i + 1]>> /\ P(i) \in Seq(Y) /\ <<own[i + 1]>> \in Seq(Y)
      BY <1>0, <1>1
    <3>5. Latest(t[i + 1], key, d) = Latest(s[i + 1], key, Latest(t[i], key, d))
      <4> HIDE DEF L, P, S
      <4>1. QED
        BY <3>2, <3>3, LatestOfBoth
    <3>6. Latest(P(i + 1), key, d) = Latest(<<own[i + 1]>>, key, Latest(P(i), key, d))
      <4> DEFINE a == P(i)
                 b == <<own[i + 1]>>
      <4> HIDE DEF L, P, S, a, b
      <4>1. a \in Seq(Y) /\ b \in Seq(Y) /\ P(i + 1) = a \o b
        BY <3>4 DEF a, b
      <4>2. Latest(a \o b, key, d) = Latest(b, key, Latest(a, key, d))
        BY <4>1, LatestOfBoth
      <4>3. QED
        BY <4>1, <4>2 DEF a, b
    <3>7. t[i + 1] \in Seq(X)
      BY <3>2, <3>3
    <3> HIDE DEF P, L
    <3>8. QED
      BY <2>2, <3>1, <3>3, <3>5, <3>6, <3>7
  <2>6. L \in S
    <3>1. \A i \in 1..(L - 1) : i \in S => i + 1 \in S
      <4> HIDE DEF S
      <4>1. QED
        BY <2>5
    <3>2. 1 \in Int /\ L \in Int /\ L \in 1..L
      BY <1>1, <1>3
    <3> HIDE DEF S, L
    <3>3. QED
      BY <2>4, <3>1, <3>2, IntervalInduction
  <2>7. P(L) = own
    BY <1>0, <1>1
  <2> HIDE DEF P, L
  <2>8. QED
    BY <2>1, <2>6, <2>7 DEF L
<1>4. QED
  BY <1>2, <1>3

\* Of the worktree extension the local file says itself what is read of it, if
\* no other file does.
LEMMA OwnIsSaid ==
    ASSUME NEW conf, IsConf(conf), OwnExtension(conf), "local" \in ConfigFiles
    PROVE  Latest(Items(conf, "local"), "worktreeconfig", Word("no"))
              = Latest(Own(conf), "worktreeconfig", Word("no"))
<1> DEFINE key == "worktreeconfig"
           f == "local"
<1>1. PICK prior : /\ MaxIncludes = 0 \/ prior \in Readings(conf)
                   /\ strict_config(conf) = Level(conf, MaxIncludes, prior)
  BY StrictIs
<1> DEFINE pieces == Pieces(conf, MaxIncludes, prior, f, {f})
           X == SayingsOf(conf, f, {f})
<1>2. Items(conf, f) = IF conf[f] = Unset THEN <<>> ELSE FlattenSeq(pieces)
  <2>1. {f} \in SUBSET ConfigFiles
    OBVIOUS
  <2> HIDE DEF pieces
  <2>2. Level(conf, MaxIncludes, prior)[f][{f}] = IF conf[f] = Unset THEN <<>> ELSE FlattenSeq(pieces)
    BY <2>1 DEF Level, pieces
  <2>3. QED
    BY <1>1, <2>2 DEF Items
<1>3. CASE conf[f] = Unset
  BY <1>2, <1>3 DEF Own
<1>4. CASE conf[f] # Unset
  <2>1. pieces \in Seq(Seq(X))
    BY <1>1, <1>4, PiecesAre
  <2>2. conf[f] \in Seq(ToSet(conf[f])) /\ \A i \in ToSet(conf[f]) : IsItem(i)
    BY <1>4 DEF IsConf, IsConfigFile
  <2>3. Len(conf[f]) \in Nat /\ DOMAIN conf[f] = 1..Len(conf[f])
        /\ Len(pieces) = Len(conf[f])
        /\ \A k \in 1..Len(conf[f]) : pieces[k] = Piece(MaxIncludes, prior, conf[f][k], {f})
    <3>1. Len(conf[f]) \in Nat /\ DOMAIN conf[f] = 1..Len(conf[f])
      BY <2>2
    <3>2. pieces = [k \in 1..Len(conf[f]) |-> Piece(MaxIncludes, prior, conf[f][k], {f})]
      BY <3>1 DEF Pieces
    <3> HIDE DEF pieces
    <3>3. QED
      BY <3>1, <3>2
  <2>4. ASSUME NEW k \in 1..Len(conf[f])
        PROVE  IF conf[f][k].key = key THEN pieces[k] = <<conf[f][k]>> ELSE Setting(pieces[k], key) = {}
    <3> DEFINE item == conf[f][k]
    <3>1. item \in ToSet(conf[f]) /\ IsItem(item)
      BY <2>2, <2>3 DEF ToSet
    <3>2. pieces[k] = Piece(MaxIncludes, prior, item, {f})
      BY <2>3
    <3>3. Setting(<<>>, key) = {} /\ Setting(<<Refused>>, key) = {}
      BY DEF Setting, Refused
    <3> HIDE DEF pieces, item
    <3>4. CASE item.key # "include"
      <4>1. pieces[k] = <<item>>
        BY <3>2, <3>4 DEF Piece
      <4>2. item.key # key => Setting(<<item>>, key) = {}
        BY DEF Setting
      <4>3. QED
        BY <4>1, <4>2 DEF item
    <3>5. CASE item.key = "include" /\ (pieces[k] = <<>> \/ pieces[k] = <<Refused>>)
      BY <3>3, <3>5 DEF item
    <3>6. CASE item.key = "include" /\ ~(pieces[k] = <<>> \/ pieces[k] = <<Refused>>)
      <4> DEFINE g == item.file
                 Z == SayingsOf(conf, g, {f} \cup {g})
      <4>1. g \notin {f} /\ MaxIncludes # 0 /\ pieces[k] = prior[g][{f} \cup {g}]
        BY <3>2, <3>6 DEF Piece
      <4>2. g \in ConfigFiles /\ {f} \cup {g} \in SUBSET ConfigFiles
        BY <3>1, <3>6 DEF IsItem
      <4>3. prior[g][{f} \cup {g}] \in Seq(Z)
        <5> HIDE DEF g
        <5>1. QED
          BY <1>1, <4>1, <4>2 DEF Readings
      <4>4. ASSUME NEW i \in Z PROVE i.key # key
        <5>1. CASE i = Refused
          BY <5>1 DEF Refused
        <5>2. CASE i # Refused
          <6> HIDE DEF g
          <6>1. PICK h \in ConfigFiles : /\ conf[h] # Unset /\ h # f /\ i \in ToSet(conf[h])
            BY <4>1, <4>4, <5>2 DEF SayingsOf
          <6>2. Setting(conf[h], key) = {}
            BY <6>1 DEF OwnExtension
          <6>3. QED
            BY <6>1, <6>2 DEF Setting, ToSet
        <5>3. QED
          BY <5>1, <5>2
      <4> HIDE DEF g, Z
      <4>5. pieces[k] \in Seq(Z)
        BY <4>1, <4>3
      <4>6. Setting(pieces[k], key) = {}
        BY <4>4, <4>5 DEF Setting
      <4>7. QED
        BY <3>6, <4>6 DEF item
    <3>7. QED
      BY <3>4, <3>5, <3>6
  <2> DEFINE own == conf[f]
             d == Word("no")
             Y == ToSet(own)
  <2>5. own \in Seq(Y) /\ SaidBy(pieces, own, key)
    <3> HIDE DEF pieces
    <3>1. QED
      BY <2>2, <2>3, <2>4 DEF SaidBy
  <2> HIDE DEF X, pieces, own, d, Y, key
  <2>6. Latest(FlattenSeq(pieces), key, d) = Latest(own, key, d)
    BY <2>1, <2>5, LatestOfFlat
  <2>7. QED
    BY <1>2, <1>4, <2>6 DEF Own, own, d, key
<1>5. QED
  BY <1>3, <1>4

\* A file overrides what wider ones say by its last saying, if it says anything.
LEMMA OverridesIs ==
    ASSUME NEW conf, NEW f, NEW key, NEW wider
    PROVE  /\ Overrides(conf, f, key, wider) =
                 IF Says(conf, f, key) THEN LastSaid(conf, f, key) ELSE wider
           /\ Says(conf, f, key) => Latest(Items(conf, f), key, wider) = LastSaid(conf, f, key)
BY DEF Overrides, Says, Latest, LastSaid

\* What counts of a stack is what the first file says that says anything.
LEMMA GetIs ==
    ASSUME NEW env, NEW system, NEW conf, NEW key, NEW default,
           NEW s, s = Stack(env, system, conf)
    PROVE  Get(env, system, conf, key, default) =
              IF Says(conf, s[1], key) THEN LastSaid(conf, s[1], key)
              ELSE IF Says(conf, s[2], key) THEN LastSaid(conf, s[2], key)
              ELSE IF Says(conf, s[3], key) THEN LastSaid(conf, s[3], key)
              ELSE IF Says(conf, s[4], key) THEN LastSaid(conf, s[4], key)
              ELSE IF Says(conf, s[5], key) THEN LastSaid(conf, s[5], key)
              ELSE default
<1> DEFINE saying == {k \in 1..5 : Says(conf, s[k], key)}
<1>1. Get(env, system, conf, key, default) =
         IF saying = {} THEN default ELSE Latest(Items(conf, s[Min(saying)]), key, default)
  BY DEF Get
<1>2. ASSUME NEW k \in 1..5, Says(conf, s[k], key), \A j \in 1..5 : j < k => ~Says(conf, s[j], key)
      PROVE  Get(env, system, conf, key, default) = LastSaid(conf, s[k], key)
  <2>1. k \in saying /\ \A j \in saying : k <= j
    BY <1>2
  <2>2. Min(saying) = k
    <3>1. saying \subseteq Int
      OBVIOUS
    <3> HIDE DEF saying
    <3>2. \A x \in saying : (\A j \in saying : x <= j) => x = k
      BY <2>1, <3>1
    <3>3. QED
      BY <2>1, <3>2 DEF Min
  <2>3. Get(env, system, conf, key, default) = Latest(Items(conf, s[k]), key, default)
    <3>1. saying # {}
      BY <2>1
    <3> HIDE DEF saying
    <3>2. QED
      BY <1>1, <2>2, <3>1
  <2>4. QED
    BY <1>2, <2>3, OverridesIs
<1>3. CASE saying = {}
  <2>1. \A k \in 1..5 : ~Says(conf, s[k], key)
    BY <1>3
  <2>2. QED
    BY <1>1, <1>3, <2>1
<1>4. CASE saying # {}
  <2>1. Says(conf, s[1], key) \/ Says(conf, s[2], key) \/ Says(conf, s[3], key)
        \/ Says(conf, s[4], key) \/ Says(conf, s[5], key)
    BY <1>4
  <2>2. \A j \in 1..5 : j = 1 \/ j = 2 \/ j = 3 \/ j = 4 \/ j = 5
    OBVIOUS
  <2>3. CASE Says(conf, s[1], key)
    BY <1>2, <2>3
  <2>4. CASE ~Says(conf, s[1], key) /\ Says(conf, s[2], key)
    BY <1>2, <2>2, <2>4
  <2>5. CASE ~Says(conf, s[1], key) /\ ~Says(conf, s[2], key) /\ Says(conf, s[3], key)
    BY <1>2, <2>2, <2>5
  <2>6. CASE ~Says(conf, s[1], key) /\ ~Says(conf, s[2], key) /\ ~Says(conf, s[3], key)
             /\ Says(conf, s[4], key)
    BY <1>2, <2>2, <2>6
  <2>7. CASE ~Says(conf, s[1], key) /\ ~Says(conf, s[2], key) /\ ~Says(conf, s[3], key)
             /\ ~Says(conf, s[4], key) /\ Says(conf, s[5], key)
    BY <1>2, <2>2, <2>7
  <2>8. QED
    BY <2>1, <2>3, <2>4, <2>5, <2>6, <2>7
<1>5. QED
  BY <1>3, <1>4

\* The defaults are of keys with values.
LEMMA DefaultsAre ==
    /\ DOMAIN Defaults = {"bare", "ignorecase", "filemode", "symlinks", "autocrlf"}
    /\ \A key \in DOMAIN Defaults :
          key \notin {"refused", "include"} /\ IsValue(Defaults[key])
<1>1. DOMAIN Defaults = {"bare", "ignorecase", "filemode", "symlinks", "autocrlf"}
  BY DEF Defaults
<1>2. IsValue(Word("no")) /\ IsValue(Word("yes"))
  BY DEF IsValue, Word
<1>3. \A key \in DOMAIN Defaults : Defaults[key] \in {Word("no"), Word("yes")}
  BY DEF Defaults
<1>4. QED
  BY <1>1, <1>2, <1>3

\* An environment and configuration that the observation accepts, in which no
\* included file says anything of the worktree extension.
Accepted(env, conf) ==
    /\ IsConf(conf) /\ OwnExtension(conf) /\ IsEnvironment(env) /\ SystemIsResolved(env, conf)
    /\ StackIsRead(env, system_context(env), conf)
    /\ AreValid(Settings(env, system_context(env), conf))

\* The files of the two readers.
LEMMA FilesAgree ==
    ASSUME NEW env, NEW conf, Accepted(env, conf),
           NEW s, s = Stack(env, system_context(env), conf)
    PROVE  /\ s[1] = IF GitExtends(conf) THEN "worktree" ELSE Unset
           /\ s[2] = "local" /\ s[5] = GitSystem(env)
           /\ env.global # Unset => s[3] = GitWide(env) /\ s[4] = Unset /\ GitUser(env) = Unset
           /\ env.global = Unset => s[3] = GitUser(env) /\ s[4] = GitWide(env)
           /\ \A k \in 1..5 : s[k] # Unset => s[k] \in ConfigFiles
           /\ GitSystem(env) # Unset => conf[GitSystem(env)] # Unset
           /\ GitSystem(env) = Unset /\ env.nosystem # Unset => GitTrue(env.nosystem)
           /\ env.attr_nosystem # Unset => GitTrue(env.attr_nosystem)
<1>1. /\ IsConf(conf) /\ IsEnvironment(env) /\ SystemIsResolved(env, conf)
      /\ {"worktree", "local", "gitconfig", "dotconfig", "xdg"} \subseteq ConfigFiles \ {Unset}
  BY ConfigAssumption DEF Accepted
<1> DEFINE w == WorktreeConfig(conf)
<1>2. IsValue(w)
  <2>1. "local" \in ConfigFiles
    BY <1>1
  <2>2. CASE Setting(Items(conf, "local"), "worktreeconfig") = {}
    <3>1. w = Word("no")
      BY <2>2 DEF WorktreeConfig, Latest
    <3>2. QED
      BY <3>1 DEF IsValue, Word
  <2>3. CASE Setting(Items(conf, "local"), "worktreeconfig") # {}
    <3>1. w = LastSaid(conf, "local", "worktreeconfig")
      BY <2>3 DEF WorktreeConfig, Latest, LastSaid
    <3>2. IsValue(LastSaid(conf, "local", "worktreeconfig"))
      BY <1>1, <2>1, <2>3, LastIs
    <3>3. QED
      BY <3>1, <3>2
  <2>4. QED
    BY <2>2, <2>3
<1>3. git_boolean(w) <=> GitExtends(conf)
  <2>1. git_boolean(w) <=> GitTrue(w)
    <3> HIDE DEF w
    <3>1. QED
      BY <1>2, ValuesAgree
  <2>2. w = Latest(Own(conf), "worktreeconfig", Word("no"))
    BY <1>1, OwnIsSaid DEF Accepted, WorktreeConfig
  <2>3. QED
    BY <2>1, <2>2 DEF GitExtends
<1>4. s[1] = (IF GitExtends(conf) THEN "worktree" ELSE Unset) /\ s[2] = "local"
  BY <1>3 DEF Stack
<1>5. env.nosystem # Unset => (git_boolean(env.nosystem) <=> GitTrue(env.nosystem))
  BY <1>1, ValuesAgree DEF IsEnvironment
<1>6. env.attr_nosystem # Unset => (git_boolean(env.attr_nosystem) <=> GitTrue(env.attr_nosystem))
  BY <1>1, ValuesAgree DEF IsEnvironment
<1>7. s[5] = system_context(env)
  BY DEF Stack
<1>8. system_context(env) = GitSystem(env)
  BY <1>5 DEF system_context, ConfigDisabled, Explicitly, GitSystem
<1>9. /\ env.global # Unset => s[3] = GitWide(env) /\ s[4] = Unset /\ GitUser(env) = Unset
      /\ env.global = Unset => s[3] = GitUser(env) /\ s[4] = GitWide(env)
  BY DEF Stack, GitWide, GitUser
<1>10. ASSUME NEW k \in 1..5, s[k] # Unset PROVE s[k] \in ConfigFiles
  <2>1. env.global \in ConfigFiles \cup {Unset} /\ env.system \in ConfigFiles \cup {Unset}
    BY <1>1 DEF IsEnvironment
  <2>2. s[1] \in ConfigFiles \cup {Unset} /\ s[2] \in ConfigFiles \cup {Unset}
    BY <1>1, <1>4
  <2>3. s[3] \in ConfigFiles \cup {Unset} /\ s[4] \in ConfigFiles \cup {Unset}
    BY <1>1, <1>9, <2>1 DEF GitWide, GitUser
  <2>4. s[5] \in ConfigFiles \cup {Unset}
    BY <1>7, <1>8, <2>1 DEF GitSystem
  <2>5. k = 1 \/ k = 2 \/ k = 3 \/ k = 4 \/ k = 5
    OBVIOUS
  <2>6. QED
    BY <1>10, <2>2, <2>3, <2>4, <2>5
<1>11. GitSystem(env) # Unset => conf[GitSystem(env)] # Unset
  BY <1>1, <1>5 DEF SystemIsResolved, ConfigDisabled, Explicitly, GitSystem
<1>12. GitSystem(env) = Unset /\ env.nosystem # Unset => GitTrue(env.nosystem)
  BY <1>1, <1>5 DEF SystemIsResolved, ConfigDisabled, Explicitly, GitSystem
<1>13. env.attr_nosystem # Unset => GitTrue(env.attr_nosystem)
  BY <1>1, <1>6 DEF SystemIsResolved, Explicitly
<1>14. QED
  BY <1>4, <1>7, <1>8, <1>9, <1>10, <1>11, <1>12, <1>13

\* The setting that counts is the one that counts for Git.
LEMMA GetIsGitValue ==
    ASSUME NEW env, NEW conf, Accepted(env, conf), NEW key \in DOMAIN Defaults
    PROVE  /\ Get(env, system_context(env), conf, key, Defaults[key]) = GitValue(env, conf, key)
           /\ IsValue(GitValue(env, conf, key))
<1> DEFINE s == Stack(env, system_context(env), conf)
           d == Defaults[key]
           SaidIn(f) == Says(conf, f, key)
           L(f) == LastSaid(conf, f, key)
           g == Get(env, system_context(env), conf, key, Defaults[key])
<1>1. g = IF SaidIn(s[1]) THEN L(s[1]) ELSE IF SaidIn(s[2]) THEN L(s[2])
          ELSE IF SaidIn(s[3]) THEN L(s[3]) ELSE IF SaidIn(s[4]) THEN L(s[4])
          ELSE IF SaidIn(s[5]) THEN L(s[5]) ELSE d
  BY GetIs
<1>2. \A f, wider : Overrides(conf, f, key, wider) = IF SaidIn(f) THEN L(f) ELSE wider
  BY OverridesIs
<1>3. ~SaidIn(Unset)
  BY DEF Says
<1>4. /\ s[1] = IF GitExtends(conf) THEN "worktree" ELSE Unset
      /\ s[2] = "local" /\ s[5] = GitSystem(env)
      /\ env.global # Unset => s[3] = GitWide(env) /\ s[4] = Unset /\ GitUser(env) = Unset
      /\ env.global = Unset => s[3] = GitUser(env) /\ s[4] = GitWide(env)
      /\ \A k \in 1..5 : s[k] # Unset => s[k] \in ConfigFiles
  BY FilesAgree
<1> HIDE DEF g, s, d
<1>5. GitValue(env, conf, key) =
         LET local == IF SaidIn("local") THEN L("local")
                      ELSE IF SaidIn(GitUser(env)) THEN L(GitUser(env))
                      ELSE IF SaidIn(GitWide(env)) THEN L(GitWide(env))
                      ELSE IF SaidIn(GitSystem(env)) THEN L(GitSystem(env)) ELSE d
         IN  IF GitExtends(conf) /\ SaidIn("worktree") THEN L("worktree") ELSE local
  <2> HIDE DEF SaidIn, L
  <2>1. QED
    BY <1>2 DEF GitValue, d
<1>6. g = GitValue(env, conf, key)
  <2> HIDE DEF SaidIn, L
  <2>1. CASE env.global # Unset
    BY <1>1, <1>3, <1>4, <1>5, <2>1
  <2>2. CASE env.global = Unset
    BY <1>1, <1>3, <1>4, <1>5, <2>2
  <2>3. QED
    BY <2>1, <2>2
<1>7. \A k \in 1..5 : SaidIn(s[k]) => IsValue(L(s[k]))
  <2> TAKE k \in 1..5
  <2> SUFFICES ASSUME SaidIn(s[k]) PROVE IsValue(L(s[k]))
    OBVIOUS
  <2>1. s[k] # Unset /\ Setting(Items(conf, s[k]), key) # {}
    BY DEF Says
  <2>2. s[k] \in ConfigFiles /\ IsConf(conf) /\ key \notin {"refused", "include"}
    BY <1>4, <2>1, DefaultsAre DEF Accepted
  <2>3. QED
    BY <2>1, <2>2, LastIs
<1>8. IsValue(d)
  BY DefaultsAre DEF d
<1>9. IsValue(g)
  <2> HIDE DEF SaidIn, L
  <2>1. QED
    BY <1>1, <1>7, <1>8
<1>10. QED
  BY <1>6, <1>9 DEF g

\* What is accepted, Git understands, and makes the same settings of.
LEMMA AcceptedIsUnderstood ==
    ASSUME NEW env, NEW conf, Accepted(env, conf),
           NEW s, s = Settings(env, system_context(env), conf)
    PROVE  /\ GitUnderstands(env, conf)
           /\ git_boolean(s.filemode) <=> GitTrue(GitValue(env, conf, "filemode"))
           /\ git_boolean(s.symlinks) <=> GitTrue(GitValue(env, conf, "symlinks"))
           /\ autocrlf(s.autocrlf) <=> GitTrue(GitValue(env, conf, "autocrlf"))
                                       \/ GitValue(env, conf, "autocrlf").word = "input"
<1>1. DOMAIN s = DOMAIN Defaults
      /\ \A key \in DOMAIN Defaults : s[key] = GitValue(env, conf, key) /\ IsValue(s[key])
  BY GetIsGitValue DEF Settings
<1>2. /\ git_boolean(s.filemode) <=> GitTrue(GitValue(env, conf, "filemode"))
      /\ git_boolean(s.symlinks) <=> GitTrue(GitValue(env, conf, "symlinks"))
      /\ autocrlf(s.autocrlf) <=> GitTrue(GitValue(env, conf, "autocrlf"))
                                  \/ GitValue(env, conf, "autocrlf").word = "input"
  BY <1>1, ValuesAgree, DefaultsAre
<1>3. ASSUME NEW key \in DOMAIN Defaults
      PROVE  LET v == GitValue(env, conf, key) IN
             v.word \notin (IF key = "autocrlf" THEN {"bad"} ELSE {"bad", "input"}) /\ GitAccepts(v)
  <2>1. IsValue(s[key]) /\ s[key] = GitValue(env, conf, key)
    BY <1>1
  <2>2. IF key = "autocrlf" THEN IsBoolean(s[key]) \/ s[key].word = "input" ELSE IsBoolean(s[key])
    BY <1>1 DEF Accepted, AreValid, IsAutocrlf
  <2>3. QED
    BY <2>1, <2>2, ValuesAgree
<1>4. ASSUME NEW v \in {env.nosystem, env.attr_nosystem}, v # Unset
      PROVE  v.word # "bad" /\ GitAccepts(v)
  <2>1. IsValue(v) /\ IsBoolean(v)
    BY <1>4 DEF Accepted, SystemIsResolved, IsEnvironment
  <2>2. QED
    BY <2>1, ValuesAgree
<1> DEFINE stack == Stack(env, system_context(env), conf)
<1>5. /\ stack[2] = "local" /\ stack[5] = GitSystem(env)
      /\ env.global # Unset => stack[3] = GitWide(env) /\ stack[4] = Unset /\ GitUser(env) = Unset
      /\ env.global = Unset => stack[3] = GitUser(env) /\ stack[4] = GitWide(env)
      /\ \A k \in 1..5 : stack[k] # Unset => stack[k] \in ConfigFiles
      /\ GitSystem(env) # Unset => conf[GitSystem(env)] # Unset
      /\ GitSystem(env) = Unset /\ env.nosystem # Unset => GitTrue(env.nosystem)
      /\ env.attr_nosystem # Unset => GitTrue(env.attr_nosystem)
  BY FilesAgree
<1>6. ~env.command /\ \A k \in 1..5 : stack[k] # Unset => ~Contains(Items(conf, stack[k]), Refused)
  BY DEF Accepted, StackIsRead
<1> HIDE DEF stack
<1>7. ASSUME NEW f \in {GitSystem(env), GitWide(env), GitUser(env), "local"} \ {Unset},
             conf[f] # Unset
      PROVE  \A k \in DOMAIN conf[f] : conf[f][k].cond # "unsupported"
  <2>1. \E k \in 1..5 : f = stack[k]
    <3>1. 2 \in 1..5 /\ 3 \in 1..5 /\ 4 \in 1..5 /\ 5 \in 1..5
      OBVIOUS
    <3>2. CASE env.global # Unset
      BY <1>5, <3>1, <3>2
    <3>3. CASE env.global = Unset
      BY <1>5, <3>1, <3>3
    <3>4. QED
      BY <3>2, <3>3
  <2>2. f \in ConfigFiles /\ ~Contains(Items(conf, f), Refused)
    BY <1>5, <1>6, <2>1
  <2>3. QED
    BY <1>7, <2>2, ItemsAre DEF Accepted
<1>8. GitUnderstands(env, conf)
  BY <1>3, <1>4, <1>5, <1>6, <1>7 DEF GitUnderstands
<1>9. QED
  BY <1>2, <1>8

-----------------------------------------------------------------------------
(* What is compared.                                                        *)

\* A path has attributes, whatever body of .gitattributes was read.
LEMMA AttributesAre ==
    ASSUME IsCheckout(checkout), NEW body \in Blobs \cup {NoBody}
    PROVE  Attributes(body) \in Attributed
<1> DEFINE tree == IF body = NoBody THEN Rules["none"] ELSE Rules[body.text]
           fields == {"text", "crlf", "eol", "ident", "filter"}
           r == [a \in DOMAIN tree |-> IF checkout.info[a] = "unset" THEN tree[a] ELSE checkout.info[a]]
<1>1. tree \in Attributed
  <2>1. body # NoBody => body.text \in DOMAIN Rules
    BY DEF Blobs
  <2>2. QED
    BY <2>1, ObservationAssumption
<1>2. checkout.info \in Attributed
  BY DEF IsCheckout
<1> HIDE DEF tree
<1>3. DOMAIN tree = fields
  BY <1>1 DEF Attributed
<1>4. r = [text |-> r.text, crlf |-> r.crlf, eol |-> r.eol, ident |-> r.ident, filter |-> r.filter]
  BY <1>3
<1>5. /\ r.text \in {"unset", "yes", "no", "auto", "input"} /\ r.crlf \in {"unset", "yes", "no", "input"}
      /\ r.eol \in {"unset", "set"} /\ r.ident \in {"unset", "yes"} /\ r.filter \in {"unset", "set"}
  BY <1>1, <1>2, <1>3 DEF Attributed
<1> HIDE DEF r
<1>6. r \in Attributed
  BY <1>4, <1>5 DEF Attributed
<1>7. QED
  BY <1>6 DEF Attributes, r, tree

\* The settings of RepositoryRules are those of Git.
SettingsAgree ==
    /\ settings.autocrlf <=> GitSays("autocrlf")
                             \/ GitValue(checkout.env, checkout.conf, "autocrlf").word = "input"
    /\ settings.filemode <=> GitSays("filemode")
    /\ settings.symlinks <=> GitSays("symlinks")

\* What emit-local-manifest.py makes of a file is what Git would store of it.
LEMMA ConversionAgrees ==
    ASSUME SettingsAgree, NEW attrs \in Attributed, NEW f, f.mode \in Regular, f.body \in Blobs,
           NEW blob \in Blobs
    PROVE  Normalized(attrs, f, blob) = Stores(attrs, f.body, blob)
<1> DEFINE body == f.body
           auto == settings.autocrlf
           keep == \/ Conversion(attrs) = "binary"
                   \/ Conversion(attrs) = "auto" /\ (body.bin \/ (HasCrlf(blob) /\ ~blob.bin))
<1>1. /\ attrs.text \in {"unset", "yes", "no", "auto", "input"}
      /\ attrs.crlf \in {"unset", "yes", "no", "input"} /\ attrs.eol \in {"unset", "set"}
  BY DEF Attributed
<1>2. body.bin \in BOOLEAN /\ blob.bin \in BOOLEAN /\ body.eol \in {"none", "lf", "crlf", "mixed"}
      /\ body.ident \in {"none", "bare", "filled"}
      /\ body = [text |-> body.text, eol |-> body.eol, bin |-> body.bin, ident |-> body.ident]
  BY DEF Blobs
<1>3. auto <=> GitSays("autocrlf") \/ GitValue(checkout.env, checkout.conf, "autocrlf").word = "input"
  BY DEF SettingsAgree
<1>4. Conversion(attrs) =
        IF attrs.text \in {"yes", "input"} THEN "text"
        ELSE IF attrs.text = "no" THEN "binary"
        ELSE IF attrs.text = "auto" THEN "auto"
        ELSE IF attrs.crlf \in {"yes", "input"} THEN "text"
        ELSE IF attrs.crlf = "no" THEN "binary"
        ELSE IF attrs.eol # "unset" THEN "text"
        ELSE IF auto THEN "auto" ELSE "binary"
  <2> HIDE DEF auto
  <2>1. CASE attrs.text \in {"yes", "input"}
    BY <2>1 DEF Conversion
  <2>2. CASE attrs.text = "no"
    BY <2>2 DEF Conversion
  <2>3. CASE attrs.text = "auto"
    BY <2>3 DEF Conversion
  <2>4. CASE attrs.text = "unset"
    BY <1>1, <1>3, <2>4 DEF Conversion
  <2>5. QED
    BY <1>1, <2>1, <2>2, <2>3, <2>4
<1>5. Text(attrs) =
        IF attrs.text = "input" THEN "yes"
        ELSE IF attrs.text = "unset" /\ attrs.crlf \in {"yes", "no"} THEN attrs.crlf
        ELSE IF attrs.text = "unset" /\ attrs.crlf = "input" THEN "yes" ELSE attrs.text
  BY <1>1 DEF Text
<1>6. Converts(attrs, body, blob) <=> ~keep
  <2> HIDE DEF auto, body
  <2>1. CASE attrs.text # "unset"
    BY <1>1, <1>4, <1>5, <2>1 DEF Converts, auto
  <2>2. CASE attrs.text = "unset"
    BY <1>1, <1>4, <1>5, <2>2 DEF Converts, auto
  <2>3. QED
    BY <2>1, <2>2
<1> DEFINE eol == IF Converts(attrs, body, blob) /\ HasCrlf(body) THEN "lf" ELSE body.eol
           ident == IF attrs.ident = "yes" /\ body.ident = "filled" THEN "bare" ELSE body.ident
<1>7. Normalized(attrs, f, blob) = [text |-> body.text, eol |-> eol, bin |-> body.bin, ident |-> ident]
  BY <1>2 DEF Normalized
<1>8. Stores(attrs, body, blob) =
        [text |-> body.text, eol |-> IF keep \/ body.eol = "none" THEN body.eol ELSE "lf",
         bin |-> body.bin,
         ident |-> IF attrs.ident = "yes" /\ body.ident # "none" THEN "bare" ELSE body.ident]
  <2>1. Stores(attrs, body, blob) =
          [body EXCEPT !.eol = IF keep \/ @ = "none" THEN @ ELSE "lf",
                           !.ident = IF attrs.ident = "yes" /\ @ # "none" THEN "bare" ELSE @]
    BY DEF Stores
  <2> HIDE DEF keep, body
  <2>2. QED
    BY <1>2, <2>1
<1>9. eol = (IF keep \/ body.eol = "none" THEN body.eol ELSE "lf")
  <2> HIDE DEF keep, body
  <2>1. QED
    BY <1>2, <1>6 DEF HasCrlf
<1>10. ident = (IF attrs.ident = "yes" /\ body.ident # "none" THEN "bare" ELSE body.ident)
  BY <1>2
<1> HIDE DEF eol, ident, keep
<1>11. QED
  BY <1>7, <1>8, <1>9, <1>10

\* A file or a symbolic link is found to differ when it is modified.
LEMMA JudgedRight ==
    ASSUME IsCheckout(checkout), SettingsAgree, NEW e, IsLeaf(e), e.mode # "sub", e.name \in Paths,
           NEW f, f = FileAt(e.name),
           NEW attrs, attrs = Attributes(Resource(AttrPath, NotRead, entries))
    PROVE  /\ e.mode = "link" =>
                 (~Forgiven(e, f) /\ ~(ActualMode(e, f) = e.mode /\ f.body = e.oid)
                    <=> ~Unmodified(entries, e))
           /\ e.mode # "link" /\ attrs \in Attributed =>
                 (~Forgiven(e, f) /\ ~(ActualMode(e, f) = e.mode /\ Normalized(attrs, f, e.oid) = e.oid)
                    <=> ~Unmodified(entries, e))
<1> DEFINE g == checkout.work[e.name]
<1>1. IsFile(g)
  BY DEF IsCheckout
<1>2. /\ g.mode \in Regular \cup {"link", "dir", "absent"} /\ f.mode = g.mode
      /\ g.mode \in Regular \cup {"link"} => f = g /\ g.body \in Blobs
  BY <1>1 DEF IsFile, FileAt, Regular
<1>3. e.mode \in Regular \cup {"link"} /\ e.oid \in Blobs
  BY DEF IsLeaf, IsRecord
<1>4. Forgiven(e, f) <=> g.mode = "absent" /\ "skip" \in e.flags
  BY <1>2 DEF Forgiven
<1>5. CASE e.mode = "link"
  <2>1. ActualMode(e, f) = e.mode <=> (g.mode \in Regular /\ ~settings.symlinks) \/ g.mode = "link"
    <3> HIDE DEF g
    <3>1. QED
      BY <1>2, <1>5 DEF ActualMode, Regular
  <2>2. Unmodified(entries, e) <=>
           \/ g.mode = "absent" /\ "skip" \in e.flags
           \/ /\ g.mode = "link" \/ (g.mode \in Regular /\ ~GitSays("symlinks"))
              /\ g.body = e.oid
    BY <1>5 DEF Unmodified, Matches, Regular
  <2>3. settings.symlinks <=> GitSays("symlinks")
    BY DEF SettingsAgree
  <2> HIDE DEF g
  <2>4. QED
    BY <1>2, <1>4, <1>5, <2>1, <2>2, <2>3
<1>6. CASE e.mode # "link" /\ attrs \in Attributed
  <2>1. e.mode \in Regular
    BY <1>3, <1>6
  <2>2. ActualMode(e, f) = e.mode <=> g.mode \in Regular /\ (settings.filemode => g.mode = e.mode)
    <3> HIDE DEF g
    <3>1. QED
      BY <1>2, <2>1 DEF ActualMode, Regular
  <2>3. Unmodified(entries, e) <=>
           \/ g.mode = "absent" /\ "skip" \in e.flags
           \/ /\ g.mode \in Regular /\ (GitSays("filemode") => g.mode = e.mode)
              /\ Stores(attrs, g.body, e.oid) = e.oid
    BY <1>6, <2>1 DEF Unmodified, Matches, Regular
  <2>4. settings.filemode <=> GitSays("filemode")
    BY DEF SettingsAgree
  <2>5. g.mode \in Regular => Normalized(attrs, f, e.oid) = Stores(attrs, g.body, e.oid)
    <3> HIDE DEF g
    <3>1. QED
      BY <1>2, <1>3, <1>6, ConversionAgrees
  <2> HIDE DEF g
  <2>6. QED
    BY <1>4, <1>6, <2>2, <2>3, <2>4, <2>5
<1>7. QED
  BY <1>5, <1>6

\* So is a gitlink.
LEMMA GitlinkRight ==
    ASSUME IsCheckout(checkout), NEW e, e.mode = "sub", e.name \in Paths,
           NEW f, f = checkout.work[e.name]
    PROVE  /\ f.mode \in Regular \cup {"link"} => ~Unmodified(entries, e)
           /\ f.mode \notin Regular \cup {"link"} =>
                 LET body == IF f.body \in {NoBody, Empty} THEN Nested(e.oid, "clean") ELSE f.body IN
                 (body # Nested(e.oid, "clean")) <=> ~Unmodified(entries, e)
<1>1. IsFile(f)
  BY DEF IsCheckout
<1>2. /\ f.mode \in Regular \cup {"link", "dir", "absent"}
      /\ f.mode = "absent" <=> f.body = NoBody
  BY <1>1 DEF IsFile
<1>3. Unmodified(entries, e) <=>
         f.mode = "absent" \/ (f.mode = "dir" /\ f.body \in {Empty, Nested(e.oid, "clean")})
  BY <1>2 DEF Unmodified, Matches, Regular
<1>4. QED
  BY <1>2, <1>3 DEF Regular

-----------------------------------------------------------------------------
(* The index and the tree of the commit.                                    *)

\* As far as s goes up to the k-th, t has the same contents.
Aligned(s, t, k) ==
    \A i \in 1..k : i \in DOMAIN s => i \in DOMAIN t /\ Content(s[i]) = Content(t[i])

Ascends(s) ==
    s \in Seq(ToSet(s)) /\ IsOrdered(s) /\ \A e \in ToSet(s) : e.name \in Int /\ e.stage \in Int

Contents(s) == {Content(e) : e \in ToSet(s)}

\* The order of entries is of their names and stages.
LEMMA ContentOrders ==
    ASSUME NEW e, NEW f, NEW g, NEW h, Content(e) = Content(f), Content(g) = Content(h)
    PROVE  e.name = f.name /\ e.stage = f.stage /\ (Precedes(e, g) <=> Precedes(f, h))
BY DEF Content, Precedes

\* Whatever precedes comes first.
LEMMA OrderIsStrict ==
    ASSUME NEW s, Ascends(s), NEW i \in DOMAIN s, NEW j \in DOMAIN s, Precedes(s[i], s[j])
    PROVE  i < j
<1>1. DOMAIN s = 1..Len(s) /\ Len(s) \in Nat
  BY DEF Ascends
<1>2. /\ s[i].name \in Int /\ s[i].stage \in Int
      /\ s[j].name \in Int /\ s[j].stage \in Int
  BY DEF Ascends, ToSet
<1>3. ~Precedes(s[j], s[i]) /\ s[i] # s[j]
  BY <1>2 DEF Precedes
<1>4. j < i => Precedes(s[j], s[i])
  BY DEF Ascends, IsOrdered
<1>5. i \in Int /\ j \in Int
  BY <1>1
<1>6. QED
  BY <1>3, <1>4, <1>5

\* Two lists of the same contents that agree on their first k agree on the next.
LEMMA AlignedStep ==
    ASSUME NEW s, NEW t, Ascends(s), Ascends(t), Contents(s) = Contents(t),
           NEW k \in Nat, Aligned(s, t, k)
    PROVE  Aligned(s, t, k + 1)
<1> SUFFICES ASSUME k + 1 \in DOMAIN s
             PROVE  k + 1 \in DOMAIN t /\ Content(s[k + 1]) = Content(t[k + 1])
  <2>1. \A i \in 1..(k + 1) : i \in 1..k \/ i = k + 1
    OBVIOUS
  <2>2. QED
    BY <2>1 DEF Aligned
<1> DEFINE n == k + 1
<1>1. DOMAIN s = 1..Len(s) /\ Len(s) \in Nat /\ DOMAIN t = 1..Len(t) /\ Len(t) \in Nat
  BY DEF Ascends
<1>2. \A i \in DOMAIN s : \E j \in DOMAIN t : Content(s[i]) = Content(t[j])
  <2> TAKE i \in DOMAIN s
  <2>1. Content(s[i]) \in Contents(t)
    BY DEF Contents, ToSet
  <2>2. QED
    BY <2>1 DEF Contents, ToSet
<1>3. \A j \in DOMAIN t : \E i \in DOMAIN s : Content(t[j]) = Content(s[i])
  <2> TAKE j \in DOMAIN t
  <2>1. Content(t[j]) \in Contents(s)
    BY DEF Contents, ToSet
  <2>2. QED
    BY <2>1 DEF Contents, ToSet
<1>4. \A i \in DOMAIN s : i < n => i \in DOMAIN t /\ Content(s[i]) = Content(t[i])
  <2>1. \A i \in DOMAIN s : i < n => i \in 1..k
    BY <1>1
  <2>2. QED
    BY <2>1 DEF Aligned
<1>5. n \in DOMAIN s /\ n \in Nat
  OBVIOUS
<1> HIDE DEF n
<1>6. PICK j \in DOMAIN t : Content(s[n]) = Content(t[j])
  BY <1>2, <1>5
<1>7. \A i \in DOMAIN s : i < n => Precedes(s[i], s[n])
  BY <1>5 DEF Ascends, IsOrdered
<1>8. \A i \in DOMAIN s : ~Precedes(s[i], s[i])
  BY <1>1, OrderIsStrict
<1>9. ~(j < n)
  <2> SUFFICES ASSUME j < n PROVE FALSE
    OBVIOUS
  <2>1. j \in DOMAIN s
    BY <1>1, <1>5, <1>6
  <2>2. Content(s[j]) = Content(s[n])
    BY <1>4, <1>6, <2>1
  <2>3. Precedes(s[n], s[n])
    BY <1>7, <2>1, <2>2, ContentOrders
  <2>4. QED
    BY <1>5, <1>8, <2>3
<1>10. n \in DOMAIN t /\ n <= j
  BY <1>1, <1>5, <1>6, <1>9
<1>11. j = n
  <2> SUFFICES ASSUME n < j PROVE FALSE
    BY <1>1, <1>5, <1>6, <1>10
  <2>1. Precedes(t[n], t[j])
    BY <1>6, <1>10 DEF Ascends, IsOrdered
  <2>2. PICK i \in DOMAIN s : Content(t[n]) = Content(s[i])
    BY <1>3, <1>10
  <2>3. Precedes(s[i], s[n])
    BY <1>6, <2>1, <2>2, ContentOrders
  <2>4. i < n
    BY <1>5, <2>2, <2>3, OrderIsStrict
  <2>5. i \in DOMAIN t /\ Content(t[i]) = Content(t[n])
    BY <1>4, <2>2, <2>4
  <2>6. Precedes(t[i], t[n])
    BY <1>10, <2>4, <2>5 DEF Ascends, IsOrdered
  <2>7. Precedes(t[n], t[n])
    BY <2>5, <2>6, ContentOrders
  <2>8. n < n
    BY <1>10, <2>7, OrderIsStrict
  <2>9. QED
    BY <1>5, <2>8
<1>12. QED
  BY <1>6, <1>10, <1>11 DEF n

\* There is one way to order a set of contents.
LEMMA OneOrder ==
    ASSUME NEW s, NEW t, Ascends(s), Ascends(t), Contents(s) = Contents(t)
    PROVE  \A i \in DOMAIN s : i \in DOMAIN t /\ Content(s[i]) = Content(t[i])
<1> DEFINE A == {k \in Nat : Aligned(s, t, k)}
<1>1. 0 \in A
  BY DEF Aligned
<1>2. ASSUME NEW k \in Nat, k \in A PROVE k + 1 \in A
  BY <1>2, AlignedStep
<1>3. Nat \subseteq A
  <2> HIDE DEF A
  <2>1. QED
    BY <1>1, <1>2, SetInduction
<1>4. Len(s) \in Nat /\ DOMAIN s = 1..Len(s)
  BY DEF Ascends
<1>5. Aligned(s, t, Len(s))
  BY <1>3, <1>4
<1>6. QED
  BY <1>4, <1>5 DEF Aligned

\* The index differs from a tree exactly when it has other entries, or such as
\* are only meant to be added.
LEMMA DiffersIs ==
    ASSUME NEW es, Ascends(es), NEW c, IsTree(c.tree)
    PROVE  ~IndexDiffers(es, c) <=>
              /\ {Content(e) : e \in ToSet(es)} = {Content(e) : e \in ToSet(c.tree)}
              /\ \A e \in ToSet(es) : e.stage = 0 /\ "add" \notin e.flags
<1> DEFINE t == c.tree
           a == [k \in DOMAIN es |-> Content(es[k])]
           b == [k \in DOMAIN t |-> Content(t[k])]
<1>1. Ascends(t)
  BY ObservationAssumption DEF IsTree, Ascends, IsLeaf, IsRecord
<1>2. a = b => Contents(es) = Contents(t)
  <2> SUFFICES ASSUME a = b PROVE Contents(es) = Contents(t)
    OBVIOUS
  <2>1. DOMAIN es = DOMAIN t
    OBVIOUS
  <2>2. \A k \in DOMAIN es : Content(es[k]) = Content(t[k])
    <3> TAKE k \in DOMAIN es
    <3>1. a[k] = b[k]
      OBVIOUS
    <3>2. QED
      BY <2>1, <3>1
  <2>3. QED
    BY <2>1, <2>2 DEF Contents, ToSet
<1>3. Contents(es) = Contents(t) => a = b
  <2> SUFFICES ASSUME Contents(es) = Contents(t) PROVE a = b
    OBVIOUS
  <2>1. \A i \in DOMAIN es : i \in DOMAIN t /\ Content(es[i]) = Content(t[i])
    BY <1>1, OneOrder
  <2>2. \A i \in DOMAIN t : i \in DOMAIN es
    BY <1>1, OneOrder
  <2>3. DOMAIN es = DOMAIN t
    BY <2>1, <2>2
  <2>4. QED
    BY <2>1, <2>3
<1>4. Contents(es) = Contents(t) => \A e \in ToSet(es) : e.stage = 0
  <2> SUFFICES ASSUME Contents(es) = Contents(t), NEW e \in ToSet(es) PROVE e.stage = 0
    OBVIOUS
  <2>1. Content(e) \in Contents(t)
    BY DEF Contents
  <2>2. PICK g \in ToSet(t) : Content(e) = Content(g)
    BY <2>1 DEF Contents
  <2>3. g.stage = 0
    BY DEF IsTree
  <2>4. QED
    BY <2>2, <2>3, ContentOrders
<1> HIDE DEF t
<1>5. ~IndexDiffers(es, c) <=> a = b /\ \A e \in ToSet(es) : e.stage = 0 /\ "add" \notin e.flags
  BY DEF IndexDiffers, t
<1> HIDE DEF a, b
<1>6. QED
  BY <1>2, <1>3, <1>4, <1>5 DEF Contents, t

-----------------------------------------------------------------------------
(* What an undisturbed observation has found.                               *)

\* What is said of the checkout says the same of it while nobody edits it.
LEMMA JudgementStays ==
    ASSUME UNCHANGED checkout, NEW es, NEW e
    PROVE  /\ (Unmodified(es, e) <=> Unmodified(es, e)') /\ Others(es)' = Others(es)
           /\ Read(e)' = Read(e)
<1>1. \A key : GitSays(key)' <=> GitSays(key)
  BY DEF GitSays
<1>2. \A a : Conversion(a)' = Conversion(a)
  BY <1>1 DEF Conversion
<1>3. \A a, x, b : Stores(a, x, b)' = Stores(a, x, b)
  <2> TAKE a, x, b
  <2>1. Conversion(a)' = Conversion(a)
    BY <1>2
  <2>2. QED
    BY <2>1 DEF Stores
<1>4. \A p, c : Resource(p, c, es)' = Resource(p, c, es)
  BY DEF Resource
<1>5. \A x : Attributes(x)' = Attributes(x)
  BY DEF Attributes
<1>6. \A p : FileAt(p)' = FileAt(p)
  BY DEF FileAt
<1>7. \A p, x : IsIgnored(p, x)' <=> IsIgnored(p, x)
  BY DEF IsIgnored
<1>8. Unmodified(es, e) <=> Unmodified(es, e)'
  BY <1>1, <1>3, <1>4, <1>5 DEF Unmodified, Matches
<1>9. Others(es)' = Others(es)
  BY <1>4, <1>6, <1>7 DEF Others
<1>10. Read(e)' = Read(e)
  BY <1>6 DEF Read
<1>11. QED
  BY <1>8, <1>9, <1>10

\* What an undisturbed observation has read is what is there.
Configured ==
    /\ pc \notin {"context", "refused"} => SystemIsResolved(checkout.env, checkout.conf)
    /\ pc \notin {"context", "config", "refused"} =>
          Accepted(checkout.env, checkout.conf) /\ SettingsAgree
    /\ pc \notin {"context", "config", "head", "refused"} => head = checkout.head
    /\ pc \in Before \cup {"shared"} => attrBody = NotRead /\ ignoreBody = NotRead /\ working = <<>>
    /\ pc \in Observing \cup {"shared"} => idx = checkout.index
    /\ pc \in Observing /\ idx.split => SharedReads

Cached ==
    /\ attrBody # NotRead => /\ attrBody = Resource(AttrPath, NotRead, entries)
                             /\ attrBody \in Blobs \cup {NoBody}
    /\ ignoreBody # NotRead => ignoreBody = Resource(IgnorePath, NotRead, entries)

FileIsThere == pc = "judge" => file = FileAt(Head(todo).name) /\ Head(todo).mode # "sub"

\* The index or one of the first k entries differs.
Differs(k) ==
    \/ IndexDiffers(entries, head)
    \/ \E i \in 1..k : ~Unmodified(entries, Distinct(entries)[i])

Recorded(k) == [i \in 1..k |-> Read(Distinct(entries)[i])]

Compared ==
    \E k \in 0..Len(Distinct(entries)) :
        todo = After(entries, k) /\ (dirty <=> Differs(k)) /\ working = Recorded(k)

Walked ==
    /\ pc \in {"walk", "take", "done"} => untracked = {u \in Others(entries) : u[1] \notin listing}
    /\ pc = "take" => <<Least(listing), FileAt(Least(listing))>> \in Others(entries)

\* Nobody has edited since the observation began, and files that are included
\* say nothing of the worktree extension.
Stands == still /\ OwnExtension(checkout.conf)

Undisturbed ==
    Stands => Configured /\ (pc \in Observing => Cached /\ FileIsThere /\ Compared /\ Walked)

\* The entry that is compared next.
LEMMA NextIs ==
    ASSUME Whole, pc \in {"files", "judge"}, todo # <<>>
    PROVE  /\ IsLeaf(Head(todo)) /\ Head(todo).name \in Paths
           /\ \A k \in 0..Len(Distinct(entries)) : todo = After(entries, k) =>
                 /\ k + 1 \in 0..Len(Distinct(entries)) /\ Tail(todo) = After(entries, k + 1)
                 /\ Head(todo) = Distinct(entries)[k + 1]
<1>1. /\ IsIndex(idx) /\ IsMerged(idx) /\ ~Unsafe(idx) /\ entries = Indexed(idx)
      /\ \E k \in 0..Len(Distinct(entries)) : todo = After(entries, k)
  BY DEF Whole, Progress, Observing
<1>2. /\ Distinct(entries) \in Seq(ToSet(entries))
      /\ \A e \in ToSet(entries) : IsLeaf(e) /\ e.name \in Paths
  BY <1>1, Reading, IndexedIs
<1>3. ASSUME NEW k \in 0..Len(Distinct(entries)), todo = After(entries, k)
      PROVE  /\ k + 1 \in 0..Len(Distinct(entries)) /\ k + 1 \in DOMAIN Distinct(entries)
             /\ Tail(todo) = After(entries, k + 1) /\ Head(todo) = Distinct(entries)[k + 1]
  <2>1. (k + 1) + 1 = k + 2
    OBVIOUS
  <2>2. QED
    BY <1>2, <1>3, <2>1, TailOfRest DEF After
<1>4. IsLeaf(Head(todo)) /\ Head(todo).name \in Paths
  <2>1. PICK k \in DOMAIN Distinct(entries) : Head(todo) = Distinct(entries)[k]
    BY <1>1, <1>3
  <2>2. Distinct(entries)[k] \in ToSet(entries)
    BY <1>2
  <2>3. QED
    BY <1>2, <2>1, <2>2
<1>5. QED
  BY <1>3, <1>4

\* The rules that apply are a blob, where they can be read.
LEMMA RulesAre ==
    ASSUME Whole, pc \in Observing, Readable(AttrPath, NotRead)
    PROVE  Resource(AttrPath, NotRead, entries) \in Blobs \cup {NoBody}
<1> DEFINE f == checkout.work[AttrPath]
           e == CHOOSE x \in ToSet(Distinct(entries)) : x.name = AttrPath
<1>1. IsFile(f) /\ f.mode \in Regular \cup {"absent"}
  BY ObservationAssumption DEF Whole, IsCheckout, Readable
<1>2. IsIndex(idx) /\ IsMerged(idx) /\ ~Unsafe(idx) /\ entries = Indexed(idx)
  BY DEF Whole, Progress
<1>3. /\ AreDistinct(ToSet(entries))
      /\ \A x \in ToSet(entries) : IsLeaf(x) /\ (x.name = AttrPath => x.mode # "sub")
  BY <1>2, IndexedIs
<1>4. ASSUME AttrPath \in Names(entries) PROVE e.oid \in Blobs
  <2>1. /\ Distinct(entries) \in Seq(ToSet(entries))
        /\ \E x \in ToSet(Distinct(entries)) : x.name = AttrPath
    BY <1>3, <1>4, DistinctIs
  <2>2. e \in ToSet(Distinct(entries)) /\ e.name = AttrPath
    BY <2>1
  <2>3. ToSet(Distinct(entries)) \subseteq ToSet(entries)
    BY <2>1 DEF ToSet
  <2> HIDE DEF e
  <2>4. QED
    BY <1>3, <2>2, <2>3 DEF IsLeaf
<1>5. f.mode # "absent" => f.body \in Blobs
  BY <1>1 DEF IsFile, Regular
<1>6. QED
  BY <1>4, <1>5 DEF Resource

\* What a cache returns is what is there.
LEMMA CacheReturns ==
    ASSUME Cached
    PROVE  /\ Resource(AttrPath, attrBody, entries) = Resource(AttrPath, NotRead, entries)
           /\ Resource(IgnorePath, ignoreBody, entries) = Resource(IgnorePath, NotRead, entries)
BY DEF Cached, Resource

\* The rules that were cached stay those of the checkout.
LEMMA CacheStays ==
    ASSUME UNCHANGED <<checkout, entries, attrBody, ignoreBody>>, Cached
    PROVE  Cached'
<1>1. \A p, c, es : Resource(p, c, es)' = Resource(p, c, es)
  BY DEF Resource
<1>2. QED
  BY <1>1 DEF Cached

\* What was compared stays what is there.
LEMMA ComparedStays ==
    ASSUME UNCHANGED <<checkout, head, entries, todo, dirty, working>>, Compared
    PROVE  Compared'
<1>1. \A es, e : (Unmodified(es, e)' <=> Unmodified(es, e)) /\ Read(e)' = Read(e)
  BY JudgementStays
<1>2. \A k : Differs(k)' <=> Differs(k)
  BY <1>1 DEF Differs, Distinct, IndexDiffers
<1>3. \A k : After(entries, k)' = After(entries, k)
  BY DEF After, Distinct
<1>4. \A k : Recorded(k)' = Recorded(k)
  BY <1>1 DEF Recorded, Distinct
<1>5. QED
  BY <1>2, <1>3, <1>4 DEF Compared, Distinct

\* What was read of the configuration, HEAD and the index stays what is there.
LEMMA ConfiguredStays ==
    ASSUME UNCHANGED <<checkout, settings, head, idx>>, Configured, pc \in Observing, pc' \in Observing
    PROVE  Configured'
<1>1. SettingsAgree' <=> SettingsAgree
  BY DEF SettingsAgree, GitSays
<1>2. SharedReads' <=> SharedReads
  BY DEF SharedReads
<1>3. QED
  BY <1>1, <1>2 DEF Configured, Observing, Before, Accepted

-----------------------------------------------------------------------------
(* Its steps.                                                               *)

\* An entry is found to differ when it is modified.
LEMMA EntryIsCompared ==
    ASSUME Whole, pc \in {"files", "judge"}, todo # <<>>, Compared, UNCHANGED checkout,
           NEW r, r = Read(Head(todo)),
           NEW b \in BOOLEAN, b <=> ~Unmodified(entries, Head(todo)), Judged(r, b)
    PROVE  Compared'
<1>1. PICK k \in 0..Len(Distinct(entries)) :
         todo = After(entries, k) /\ (dirty <=> Differs(k)) /\ working = Recorded(k)
  BY DEF Compared
<1>2. /\ k + 1 \in 0..Len(Distinct(entries)) /\ Tail(todo) = After(entries, k + 1)
      /\ Head(todo) = Distinct(entries)[k + 1]
  BY <1>1, NextIs
<1>3. /\ todo' = Tail(todo) /\ (dirty' <=> dirty \/ b) /\ working' = Append(working, r)
      /\ UNCHANGED <<head, entries>>
  BY DEF Judged, indexVars
<1>4. Differs(k + 1) <=> Differs(k) \/ ~Unmodified(entries, Distinct(entries)[k + 1])
  <2>1. \A i : i \in 1..(k + 1) <=> i \in 1..k \/ i = k + 1
    BY <1>1
  <2>2. QED
    BY <2>1 DEF Differs
<1>5. dirty' <=> Differs(k + 1)
  BY <1>1, <1>2, <1>3, <1>4
<1>6. Differs(k + 1)' <=> Differs(k + 1)
  <2>1. \A es, e : Unmodified(es, e)' <=> Unmodified(es, e)
    BY JudgementStays
  <2>2. QED
    BY <1>3, <2>1 DEF Differs, Distinct, IndexDiffers
<1>7. After(entries, k + 1)' = After(entries, k + 1) /\ Distinct(entries)' = Distinct(entries)
  BY <1>3 DEF After, Distinct
<1>8. Append(Recorded(k), Read(Distinct(entries)[k + 1])) = Recorded(k + 1)
  <2>1. k \in Nat
    BY <1>1
  <2> DEFINE R(i) == Read(Distinct(entries)[i])
             before == [i \in 1..k |-> R(i)]
             after == Append(before, R(k + 1))
  <2>2. after = [i \in 1..(k + 1) |-> R(i)]
    <3> HIDE DEF R
    <3>1. Len(before) = k /\ before \in Seq({R(i) : i \in 1..k})
      BY <2>1
    <3>2. DOMAIN after = 1..(k + 1) /\ after = [i \in 1..(k + 1) |-> after[i]]
      BY <2>1, <3>1
    <3>3. \A i \in 1..(k + 1) : after[i] = R(i)
      BY <2>1, <3>1
    <3> HIDE DEF after
    <3>4. QED
      BY <3>2, <3>3
  <2>3. QED
    BY <2>2 DEF Recorded
<1>9. Recorded(k + 1)' = Recorded(k + 1)
  <2>1. \A e : Read(e)' = Read(e)
    BY JudgementStays
  <2>2. QED
    BY <1>3, <2>1 DEF Recorded, Distinct
<1>10. working' = Recorded(k + 1)
  BY <1>1, <1>2, <1>3, <1>8
<1>11. QED
  BY <1>2, <1>3, <1>5, <1>6, <1>7, <1>9, <1>10 DEF Compared

\* A gitlink is found to differ when it is modified.
LEMMA GitlinkIsCompared ==
    ASSUME Whole, Stands, Undisturbed, ObserveGitlink, ~Refuse
    PROVE  Undisturbed'
<1> DEFINE e == Head(todo)
           f == checkout.work[e.name]
           body == IF f.body \in {NoBody, Empty} THEN Nested(e.oid, "clean") ELSE f.body
<1>1. pc = "files" /\ todo # <<>> /\ e.mode = "sub"
  BY DEF ObserveGitlink
<1>2. Configured /\ Cached /\ Compared
  BY <1>1 DEF Undisturbed, Observing
<1>3. e.name \in Paths
  BY <1>1, NextIs
<1>4. /\ f.mode \in Regular \cup {"link"} => ~Unmodified(entries, e)
      /\ f.mode \notin Regular \cup {"link"} =>
            ((body # Nested(e.oid, "clean")) <=> ~Unmodified(entries, e))
  <2> HIDE DEF e
  <2>1. QED
    BY <1>1, <1>3, GitlinkRight DEF Whole
<1>5. \/ f.mode \in Regular \cup {"link"} /\ Judged(<<e.name, f.mode, f.body>>, TRUE) /\ UNCHANGED cacheVars
      \/ /\ f.mode \notin Regular \cup {"link"} /\ UNCHANGED cacheVars
         /\ Judged(<<e.name, "sub", body>>, body # Nested(e.oid, "clean"))
  BY DEF ObserveGitlink
<1>a. /\ f.mode \in Regular \cup {"link"} => Read(e) = <<e.name, f.mode, f.body>>
      /\ f.mode \notin Regular \cup {"link"} => Read(e) = <<e.name, "sub", body>>
  <2>1. IsFile(f)
    BY <1>3 DEF Whole, IsCheckout
  <2>2. f.mode \in Regular \cup {"link", "dir", "absent"}
    BY <2>1 DEF IsFile
  <2> HIDE DEF e
  <2>3. QED
    BY <1>1, <2>2 DEF Read, FileAt, Regular
<1>6. \E b \in BOOLEAN : (b <=> ~Unmodified(entries, e)) /\ Judged(Read(e), b) /\ UNCHANGED cacheVars
  <2> HIDE DEF e, f, body
  <2>1. CASE f.mode \in Regular \cup {"link"}
    BY <1>4, <1>5, <1>a, <2>1
  <2>2. CASE f.mode \notin Regular \cup {"link"}
    <3> DEFINE b == body # Nested(e.oid, "clean")
    <3>1. b \in BOOLEAN /\ (b <=> ~Unmodified(entries, e))
          /\ Judged(Read(e), b) /\ UNCHANGED cacheVars
      BY <1>4, <1>5, <1>a, <2>2
    <3> HIDE DEF b
    <3>2. QED
      BY <3>1
  <2>3. QED
    BY <2>1, <2>2
<1>7. PICK b \in BOOLEAN : (b <=> ~Unmodified(entries, e)) /\ Judged(Read(e), b) /\ UNCHANGED cacheVars
  BY <1>6
<1>8. pc' = "files" /\ UNCHANGED <<checkout, head, idx, entries, settings, attrBody, ignoreBody>>
  BY <1>7 DEF Judged, indexVars, cacheVars
<1>9. Configured' /\ Cached'
  BY <1>1, <1>2, <1>8, ConfiguredStays, CacheStays DEF Observing
<1>10. Compared'
  BY <1>1, <1>2, <1>7, <1>8, EntryIsCompared
<1>11. QED
  BY <1>8, <1>9, <1>10 DEF Undisturbed, FileIsThere, Walked

\* A file is found to differ when it is modified.
LEMMA FileIsCompared ==
    ASSUME Whole, Stands, Undisturbed, Judge, ~Refuse
    PROVE  Undisturbed'
<1> DEFINE e == Head(todo)
           body == Resource(AttrPath, attrBody, entries)
           attrs == Attributes(body)
           same(seen) == ActualMode(e, file) = e.mode /\ seen = e.oid
           record == <<e.name, file.mode, file.body>>
           differs == ~Forgiven(e, file) /\ ~same(IF e.mode = "link" THEN file.body
                                                  ELSE Normalized(attrs, file, e.oid))
<1>1. pc = "judge" /\ todo # <<>>
  BY DEF Judge, Whole, Progress
<1>2. Configured /\ Cached /\ Compared /\ file = FileAt(e.name) /\ e.mode # "sub"
  BY <1>1 DEF Undisturbed, Observing, FileIsThere
<1>3. IsLeaf(e) /\ e.name \in Paths
  BY <1>1, NextIs
<1>4. body = Resource(AttrPath, NotRead, entries)
  BY <1>2, CacheReturns
<1>5. /\ Judged(record, differs) /\ settings' = settings /\ ignoreBody' = ignoreBody
      /\ \/ e.mode = "link" /\ attrBody' = attrBody
         \/ e.mode # "link" /\ Readable(AttrPath, attrBody) /\ attrBody' = body
  BY DEF Judge, cacheVars
<1>6. Readable(AttrPath, attrBody) => body \in Blobs \cup {NoBody}
  <2>1. CASE attrBody = NotRead
    BY <1>1, <2>1, RulesAre DEF Observing
  <2>2. CASE attrBody # NotRead
    BY <1>2, <2>2 DEF Cached, Resource
  <2>3. QED
    BY <2>1, <2>2
<1>7. differs <=> ~Unmodified(entries, e)
  <2>1. IsCheckout(checkout) /\ SettingsAgree
    BY <1>1, <1>2 DEF Whole, Configured
  <2>2. /\ e.mode = "link" =>
              (~Forgiven(e, file) /\ ~(ActualMode(e, file) = e.mode /\ file.body = e.oid)
                 <=> ~Unmodified(entries, e))
        /\ e.mode # "link" /\ attrs \in Attributed =>
              (~Forgiven(e, file)
                 /\ ~(ActualMode(e, file) = e.mode /\ Normalized(attrs, file, e.oid) = e.oid)
                 <=> ~Unmodified(entries, e))
    <3> HIDE DEF e
    <3>1. QED
      BY <1>2, <1>3, <1>4, <2>1, JudgedRight
  <2>3. e.mode # "link" => attrs \in Attributed
    <3>1. e.mode # "link" => body \in Blobs \cup {NoBody}
      BY <1>5, <1>6
    <3> HIDE DEF body, e
    <3>2. QED
      BY <2>1, <3>1, AttributesAre
  <2> HIDE DEF e, attrs
  <2>4. QED
    BY <2>2, <2>3
<1>8. pc' = "files" /\ UNCHANGED <<checkout, head, idx, entries, settings>>
  BY <1>5 DEF Judged, indexVars
<1>9. Configured'
  BY <1>1, <1>2, <1>8, ConfiguredStays DEF Observing
<1>10. Cached'
  <2>1. \A p, c, es : Resource(p, c, es)' = Resource(p, c, es)
    BY <1>8 DEF Resource
  <2>2. /\ attrBody' # NotRead => /\ attrBody' = Resource(AttrPath, NotRead, entries)
                                  /\ attrBody' \in Blobs \cup {NoBody}
        /\ ignoreBody' # NotRead => ignoreBody' = Resource(IgnorePath, NotRead, entries)
    <3> HIDE DEF body, e
    <3>1. QED
      BY <1>2, <1>4, <1>5, <1>6 DEF Cached
  <2>3. QED
    BY <1>8, <2>1, <2>2 DEF Cached
<1>11. Compared'
  <2>1. differs \in BOOLEAN
    OBVIOUS
  <2>2. record = Read(e)
    <3> HIDE DEF e
    <3>1. QED
      BY <1>2 DEF Read
  <2> HIDE DEF differs, record
  <2>3. QED
    BY <1>1, <1>2, <1>5, <1>7, <1>8, <2>1, <2>2, EntryIsCompared
<1>12. QED
  BY <1>8, <1>9, <1>10, <1>11 DEF Undisturbed, FileIsThere, Walked

\* Each file that is listed, that the rules do not ignore, is among the others.
LEMMA OthersAre ==
    ASSUME NEW u
    PROVE  u \in Others(entries) <=>
              \E p \in Unlisted : /\ u = <<p, FileAt(p)>>
                                  /\ checkout.work[p].mode \notin {"absent", "dir"}
                                  /\ ~IsIgnored(p, Resource(IgnorePath, NotRead, entries))
BY DEF Others, Unlisted

\* The names that were listed are those that Git does not track.
LEMMA ListIsWalked ==
    ASSUME Whole, Stands, Undisturbed, ListFiles
    PROVE  Undisturbed'
<1>1. /\ pc = "files" /\ pc' = "walk" /\ listing' = {p \in Unlisted : checkout.work[p].mode # "absent"}
      /\ UNCHANGED <<checkout, head, idx, entries, todo, dirty, working, settings, attrBody, ignoreBody, untracked>>
  BY DEF ListFiles, indexVars, fileVars, cacheVars
<1>2. Configured /\ Cached /\ Compared /\ untracked = {}
  BY <1>1 DEF Undisturbed, Observing, Whole, Progress
<1>3. Configured' /\ Cached' /\ Compared'
  BY <1>1, <1>2, ConfiguredStays, CacheStays, ComparedStays DEF Observing
<1>4. Others(entries)' = Others(entries)
  BY <1>1, JudgementStays
<1>5. \A u \in Others(entries) : u[1] \in listing'
  BY <1>1, OthersAre
<1>6. untracked' = {u \in Others(entries)' : u[1] \notin listing'}
  BY <1>1, <1>2, <1>4, <1>5
<1>7. QED
  BY <1>1, <1>3, <1>6 DEF Undisturbed, FileIsThere, Walked

\* A name is passed over if Git ignores it.
LEMMA VisitIsRight ==
    ASSUME Whole, Stands, Undisturbed, Visit, ~Refuse
    PROVE  Undisturbed'
<1> DEFINE p == Least(listing)
           body == Resource(IgnorePath, ignoreBody, entries)
           passed == IsIgnored(p, body) \/ checkout.work[p].mode = "dir"
<1>1. /\ pc = "walk" /\ listing # {} /\ checkout.work[p].mode # "absent" /\ ignoreBody' = body
      /\ \/ passed /\ listing' = listing \ {p} /\ pc' = "walk"
         \/ ~passed /\ listing' = listing /\ pc' = "take"
      /\ UNCHANGED <<checkout, head, idx, entries, todo, dirty, working, settings, attrBody, untracked>>
  BY DEF Visit, indexVars, fileVars
<1>2. /\ Configured /\ Cached /\ Compared /\ Walked
      /\ listing \subseteq Unlisted /\ Unlisted \subseteq Nat
  BY <1>1, ObservationAssumption DEF Undisturbed, Observing, Whole, Progress, Unlisted
<1>3. p \in Unlisted
  BY <1>1, <1>2, LeastIs
<1>4. body = Resource(IgnorePath, NotRead, entries)
  BY <1>2, CacheReturns
<1>5. Configured' /\ Compared'
  BY <1>1, <1>2, ConfiguredStays, ComparedStays DEF Observing
<1>6. Cached'
  <2>1. \A q, c, es : Resource(q, c, es)' = Resource(q, c, es)
    BY <1>1 DEF Resource
  <2>2. ignoreBody' = Resource(IgnorePath, NotRead, entries)
    BY <1>1, <1>4
  <2>3. QED
    BY <1>1, <1>2, <2>1, <2>2 DEF Cached
<1>7. Others(entries)' = Others(entries) /\ \A q : FileAt(q)' = FileAt(q)
  BY <1>1, JudgementStays DEF FileAt
<1>8. untracked = {u \in Others(entries) : u[1] \notin listing}
  BY <1>1, <1>2 DEF Walked
<1> HIDE DEF p, body
<1>9. CASE passed
  <2>1. \A u \in Others(entries) : u[1] # p
    <3> SUFFICES ASSUME NEW u \in Others(entries), u[1] = p PROVE FALSE
      OBVIOUS
    <3>1. PICK q \in Unlisted : /\ u = <<q, FileAt(q)>>
                                /\ checkout.work[q].mode \notin {"absent", "dir"}
                                /\ ~IsIgnored(q, Resource(IgnorePath, NotRead, entries))
      BY OthersAre
    <3>2. q = p
      BY <3>1
    <3>3. QED
      BY <1>4, <1>9, <3>1, <3>2
  <2>2. listing' = listing \ {p} /\ pc' = "walk"
    BY <1>1, <1>9
  <2>3. untracked' = {u \in Others(entries)' : u[1] \notin listing'}
    BY <1>1, <1>7, <1>8, <2>1, <2>2
  <2>4. QED
    BY <1>1, <1>5, <1>6, <2>2, <2>3 DEF Undisturbed, FileIsThere, Walked
<1>10. CASE ~passed
  <2>1. listing' = listing /\ pc' = "take"
    BY <1>1, <1>10
  <2>2. <<p, FileAt(p)>> \in Others(entries)
    BY <1>1, <1>3, <1>4, <1>10, OthersAre
  <2>3. Least(listing)' = p /\ FileAt(Least(listing))' = FileAt(p)
    BY <1>1, <2>1 DEF FileAt, p
  <2>4. untracked' = {u \in Others(entries)' : u[1] \notin listing'}
    BY <1>1, <1>7, <1>8, <2>1
  <2>5. <<Least(listing), FileAt(Least(listing))>>' \in Others(entries)'
    BY <1>7, <2>2, <2>3
  <2>6. Walked'
    BY <2>1, <2>4, <2>5 DEF Walked
  <2>7. QED
    BY <1>1, <1>5, <1>6, <2>1, <2>6 DEF Undisturbed, FileIsThere
<1>11. QED
  BY <1>9, <1>10

\* A name that Git does not ignore is taken with its body.
LEMMA TakeIsRight ==
    ASSUME Whole, Stands, Undisturbed, Take
    PROVE  Undisturbed'
<1> DEFINE p == Least(listing)
           u == <<p, FileAt(p)>>
<1>1. /\ pc = "take" /\ pc' = "walk" /\ listing' = listing \ {p} /\ untracked' = untracked \cup {u}
      /\ UNCHANGED <<checkout, head, idx, entries, todo, dirty, working, settings, attrBody, ignoreBody>>
  BY DEF Take, indexVars, fileVars, cacheVars
<1>2. Configured /\ Cached /\ Compared /\ Walked
  BY <1>1 DEF Undisturbed, Observing
<1>3. Configured' /\ Cached' /\ Compared'
  BY <1>1, <1>2, ConfiguredStays, CacheStays, ComparedStays DEF Observing
<1>4. Others(entries)' = Others(entries)
  BY <1>1, JudgementStays
<1>5. untracked = {v \in Others(entries) : v[1] \notin listing} /\ u \in Others(entries)
  BY <1>1, <1>2 DEF Walked
<1>6. \A v \in Others(entries) : v[1] = p => v = u
  BY OthersAre
<1>7. u[1] = p
  OBVIOUS
<1> HIDE DEF u, p
<1>8. untracked' = {v \in Others(entries)' : v[1] \notin listing'}
  BY <1>1, <1>4, <1>5, <1>6, <1>7
<1>9. QED
  BY <1>1, <1>3, <1>8 DEF Undisturbed, FileIsThere, Walked

-----------------------------------------------------------------------------
(* The undisturbed observation and its verdict.                             *)

\* Nothing was read yet.
LEMMA UndisturbedBegins == Init => Undisturbed
BY DEF Init, Undisturbed, Configured, Observing

\* What has been read when the index has been.
LEMMA IndexIsRead ==
    ASSUME Whole, Stands, Undisturbed, NEW f, f = checkout.index,
           IsIndex(f), IsMerged(f), ~Unsafe(f), f.split => checkout.shared = "right",
           pc \in {"index", "shared"}, Indexes(f)
    PROVE  Undisturbed'
<1>1. /\ pc' = "files" /\ entries' = Indexed(f) /\ todo' = Distinct(entries')
      /\ dirty' = IndexDiffers(entries', head) /\ idx' = f
      /\ UNCHANGED <<checkout, head, settings, attrBody, ignoreBody, working>>
  BY DEF Indexes, cacheVars
<1>2. Configured /\ attrBody = NotRead /\ ignoreBody = NotRead /\ working = <<>>
  BY DEF Undisturbed, Configured, Before
<1>3. Configured'
  <2>1. SettingsAgree' <=> SettingsAgree
    BY <1>1 DEF SettingsAgree, GitSays
  <2>2. f.split => SharedReads'
    BY <1>1 DEF SharedReads, IsMerged
  <2>3. QED
    BY <1>1, <1>2, <2>1, <2>2 DEF Configured, Observing, Before, Accepted
<1>4. Cached'
  BY <1>1, <1>2 DEF Cached
<1>5. Compared'
  <2>1. todo' = After(entries', 0) /\ 0 \in 0..Len(Distinct(entries'))
    BY <1>1, Reading
  <2>2. dirty' <=> Differs(0)'
    <3>1. 1..0 = {}
      OBVIOUS
    <3>2. QED
      BY <1>1, <3>1 DEF Differs, IndexDiffers
  <2>3. After(entries, 0)' = After(entries', 0) /\ Distinct(entries)' = Distinct(entries')
    BY DEF After, Distinct
  <2>4. working' = Recorded(0)'
    <3>1. Recorded(0)' = <<>>
      <4> DEFINE R(i) == Read(Distinct(entries)[i])'
      <4>1. Recorded(0)' = [i \in 1..0 |-> R(i)]
        BY DEF Recorded
      <4> HIDE DEF R
      <4>2. QED
        BY <4>1
    <3>2. QED
      BY <1>1, <1>2, <3>1
  <2>5. QED
    BY <2>1, <2>2, <2>3, <2>4 DEF Compared
<1>6. QED
  BY <1>1, <1>3, <1>4, <1>5 DEF Undisturbed, FileIsThere, Walked

\* The settings are those of Git.
LEMMA ConfigIsRead ==
    ASSUME Whole, Stands, Undisturbed, ReadConfig
    PROVE  Undisturbed'
<1> DEFINE env == checkout.env
           conf == checkout.conf
           s == Settings(env, Contributing, conf)
<1>1. /\ pc = "config" /\ ConfigReads /\ pc' = "head"
      /\ settings' = [autocrlf |-> autocrlf(s.autocrlf), filemode |-> git_boolean(s.filemode),
                      symlinks |-> git_boolean(s.symlinks)]
      /\ UNCHANGED <<checkout, attrBody, ignoreBody, working>>
  BY DEF ReadConfig, fileVars
<1>2. SystemIsResolved(env, conf) /\ attrBody = NotRead /\ ignoreBody = NotRead /\ working = <<>>
  BY <1>1 DEF Undisturbed, Configured, Before
<1>3. Accepted(env, conf)
  BY <1>1, <1>2 DEF ConfigReads, Contributing, Accepted, IsConf, Whole, IsCheckout, Stands
<1>4. /\ git_boolean(s.filemode) <=> GitTrue(GitValue(env, conf, "filemode"))
      /\ git_boolean(s.symlinks) <=> GitTrue(GitValue(env, conf, "symlinks"))
      /\ autocrlf(s.autocrlf) <=> GitTrue(GitValue(env, conf, "autocrlf"))
                                  \/ GitValue(env, conf, "autocrlf").word = "input"
  BY <1>3, AcceptedIsUnderstood DEF Contributing
<1>5. SettingsAgree'
  <2>1. /\ settings'.autocrlf = autocrlf(s.autocrlf)
        /\ settings'.filemode = git_boolean(s.filemode)
        /\ settings'.symlinks = git_boolean(s.symlinks)
    BY <1>1
  <2> HIDE DEF s
  <2>2. QED
    BY <1>1, <1>4, <2>1 DEF SettingsAgree, GitSays
<1>6. Configured'
  BY <1>1, <1>2, <1>3, <1>5 DEF Configured, Observing
<1>7. QED
  BY <1>1, <1>6 DEF Undisturbed, Observing

\* HEAD is as it is read.
LEMMA HeadIsRead ==
    ASSUME Stands, Undisturbed, ReadHead
    PROVE  Undisturbed'
<1>1. /\ pc = "head" /\ pc' = "index" /\ head' = checkout.head
      /\ UNCHANGED <<checkout, settings, attrBody, ignoreBody, working>>
  BY DEF ReadHead, cacheVars, fileVars
<1>2. SettingsAgree' <=> SettingsAgree
  BY <1>1 DEF SettingsAgree, GitSays
<1>3. QED
  BY <1>1, <1>2 DEF Undisturbed, Configured, Observing, Before

\* Each step of an observation that nobody disturbs reads what is there.
LEMMA UndisturbedStays == Whole /\ Undisturbed /\ [Next]_vars => Undisturbed'
<1> SUFFICES ASSUME Whole, Undisturbed, [Next]_vars PROVE Undisturbed'
  OBVIOUS
<1>1. CASE Users
  BY <1>1 DEF Users, EditFile, Settle, MoveHead, Stage, ExpireShared, Edited, Undisturbed, Stands
<1>2. CASE UNCHANGED vars
  <2>1. UNCHANGED <<checkout, pc, head, idx, entries, todo, file, settings, attrBody, ignoreBody,
                    dirty, working, listing, untracked, still>>
    BY <1>2 DEF vars
  <2>2. (SettingsAgree' <=> SettingsAgree) /\ (SharedReads' <=> SharedReads)
    BY <2>1 DEF SettingsAgree, GitSays, SharedReads
  <2>3. Configured => Configured'
    BY <2>1, <2>2 DEF Configured
  <2>4. (Cached => Cached') /\ (Compared => Compared')
    BY <2>1, CacheStays, ComparedStays
  <2>5. Others(entries)' = Others(entries)
    BY <2>1, JudgementStays
  <2>6. (FileIsThere => FileIsThere') /\ (Walked => Walked')
    BY <2>1, <2>5 DEF FileIsThere, Walked, FileAt
  <2>7. Stands' <=> Stands
    BY <2>1 DEF Stands
  <2>8. QED
    BY <2>1, <2>3, <2>4, <2>6, <2>7 DEF Undisturbed
<1>3. CASE Refuse
  BY <1>3 DEF Refuse, Undisturbed, Configured, Observing, Before
<1>4. CASE Finish
  BY <1>4 DEF Finish, Restarts, Forgets, Undisturbed, Configured, Observing, Before
<1> SUFFICES ASSUME Stands, Next, ~Users, ~Refuse, ~Finish PROVE Undisturbed'
  <2>1. ASSUME Next, ~Users, ~Finish PROVE UNCHANGED <<checkout, still>>
    BY <2>1 DEF Next, Fail, Refuse, ResolveContext, ReadConfig, RefuseConfig, ReadHead, ReadIndex,
       ReadShared, RefuseIndex, Indexes, ReadFile, ObserveGitlink, Judge, Judged, ListFiles, Visit,
       Take, FinishAgain
  <2>2. Next /\ ~Users /\ ~Finish => (Stands' <=> Stands)
    BY <2>1 DEF Stands
  <2>3. QED
    BY <1>1, <1>2, <1>3, <1>4, <2>2 DEF Undisturbed
<1>15. CASE ResolveContext
  <2>1. /\ pc = "context" /\ SystemIsResolved(checkout.env, checkout.conf) /\ pc' = "config"
        /\ UNCHANGED <<checkout, attrBody, ignoreBody, working>>
    BY <1>15 DEF ResolveContext, cacheVars, fileVars
  <2>2. QED
    BY <2>1 DEF Undisturbed, Configured, Observing, Before
<1>5. CASE ReadConfig
  BY <1>5, ConfigIsRead
<1>6. CASE ReadHead
  BY <1>6, HeadIsRead
<1>7. CASE ReadIndex
  <2>1. IsIndex(checkout.index) /\ pc = "index"
    BY <1>7 DEF Whole, IsCheckout, ReadIndex
  <2>2. CASE checkout.index.split
    <3>1. pc' = "shared" /\ UNCHANGED <<checkout, head, settings, attrBody, ignoreBody, working>>
          /\ idx' = checkout.index
      BY <1>7, <2>2 DEF ReadIndex, cacheVars, fileVars
    <3>2. SettingsAgree' <=> SettingsAgree
      BY <3>1 DEF SettingsAgree, GitSays
    <3>3. QED
      BY <2>1, <3>1, <3>2 DEF Undisturbed, Configured, Observing, Before
  <2>3. CASE ~checkout.index.split
    <3>1. ~Unsafe(checkout.index) /\ Indexes(checkout.index) /\ IsMerged(checkout.index)
      BY <1>7, <2>3 DEF ReadIndex, IsMerged
    <3>2. QED
      BY <2>1, <2>3, <3>1, IndexIsRead
  <2>4. QED
    BY <2>2, <2>3
<1>8. CASE ReadShared
  <2>1. pc = "shared" /\ IsIndex(idx) /\ ~Unsafe(idx) /\ Indexes(idx) /\ IsMerged(idx)
    BY <1>8 DEF ReadShared, SharedReads, IsMerged, Whole, Progress
  <2>2. idx = checkout.index /\ checkout.shared = "right"
    BY <1>8, <2>1 DEF ReadShared, SharedReads, Undisturbed, Configured
  <2>3. QED
    BY <2>1, <2>2, IndexIsRead
<1>9. CASE ReadFile
  <2>1. /\ pc = "files" /\ pc' = "judge" /\ file' = FileAt(Head(todo).name) /\ Head(todo).mode # "sub"
        /\ UNCHANGED <<checkout, head, idx, entries, todo, dirty, working, settings, attrBody, ignoreBody>>
    BY <1>9 DEF ReadFile, indexVars, cacheVars
  <2>2. Configured /\ Cached /\ Compared
    BY <2>1 DEF Undisturbed, Observing
  <2>3. Configured' /\ Cached' /\ Compared'
    BY <2>1, <2>2, ConfiguredStays, CacheStays, ComparedStays DEF Observing
  <2>4. FileAt(Head(todo).name)' = FileAt(Head(todo).name)
    BY <2>1 DEF FileAt
  <2>5. QED
    BY <2>1, <2>3, <2>4 DEF Undisturbed, FileIsThere, Walked
<1>10. CASE ObserveGitlink
  BY <1>10, GitlinkIsCompared
<1>11. CASE Judge
  BY <1>11, FileIsCompared
<1>12. CASE ListFiles
  BY <1>12, ListIsWalked
<1>13. CASE Visit
  BY <1>13, VisitIsRight
<1>14. CASE Take
  BY <1>14, TakeIsRight
<1>16. CASE FinishAgain
  <2>1. /\ pc = "walk" /\ pc' = "done"
        /\ UNCHANGED <<checkout, head, idx, entries, todo, dirty, working, settings, attrBody, ignoreBody, listing,
                       untracked>>
    BY <1>16 DEF FinishAgain, indexVars, fileVars, cacheVars, walkVars
  <2>2. Configured /\ Cached /\ Compared /\ Walked
    BY <2>1 DEF Undisturbed, Observing
  <2>3. Configured' /\ Cached' /\ Compared'
    BY <2>1, <2>2, ConfiguredStays, CacheStays, ComparedStays DEF Observing
  <2>4. Others(entries)' = Others(entries)
    BY <2>1, JudgementStays
  <2>5. QED
    BY <2>1, <2>2, <2>3, <2>4 DEF Undisturbed, FileIsThere, Walked
<1>17. QED
  BY <1>5, <1>6, <1>7, <1>8, <1>9, <1>10, <1>11, <1>12, <1>13, <1>14, <1>15, <1>16
     DEF Next, Fail, RefuseConfig, RefuseIndex

\* As long as nobody has edited since an observation began, all that it has read
\* is what is there, the settings are those that count for Git, and each entry
\* that it has compared is found to differ if and only if it is not what Git
\* would store of what is there, or, if it was left out, is not missing.
THEOREM UndisturbedIsObserved == Spec => []Undisturbed
<1>1. Init => Undisturbed
  BY UndisturbedBegins
<1>2. Whole /\ Undisturbed /\ [Next]_vars => Undisturbed'
  BY UndisturbedStays
<1>3. QED
  BY <1>1, <1>2, ObservationIsWhole, PTL DEF Spec

\* What nobody has disturbed is told apart as it is.
LEMMA VerdictIsRight ==
    ASSUME Whole, Undisturbed, Stands, pc = "walk", listing = {}
    PROVE  /\ ~dirty /\ untracked = {} <=> Clean(entries)
           /\ untracked = Others(entries) /\ working = Recorded(Len(Distinct(entries)))
<1>1. /\ Configured /\ Compared /\ untracked = {u \in Others(entries) : u[1] \notin listing}
      /\ todo = <<>> /\ IsCheckout(checkout)
      /\ IsIndex(idx) /\ IsMerged(idx) /\ ~Unsafe(idx) /\ entries = Indexed(idx)
  BY DEF Undisturbed, Observing, Walked, Whole, Progress
<1>2. untracked = Others(entries) /\ head = checkout.head
  BY <1>1 DEF Configured
<1>3. GitUnderstands(checkout.env, checkout.conf)
  BY <1>1, AcceptedIsUnderstood DEF Configured
<1>4. /\ Ascends(entries) /\ IsTree(checkout.head.tree)
      /\ AreDistinct(ToSet(entries)) /\ \A e \in ToSet(entries) : IsLeaf(e)
      /\ Distinct(entries) \in Seq(ToSet(entries))
  <2>1. /\ entries \in Seq(AllLeaves(idx)) /\ ToSet(entries) = AllLeaves(idx) /\ IsOrdered(entries)
        /\ AreDistinct(ToSet(entries)) /\ \A e \in ToSet(entries) : IsLeaf(e)
    BY <1>1, IndexedIs
  <2>2. \A e \in ToSet(entries) : e.name \in Int /\ e.stage \in Int
    BY <2>1, ObservationAssumption DEF IsLeaf, IsRecord
  <2>3. Distinct(entries) \in Seq(ToSet(entries))
    BY <2>1, DistinctIs
  <2>4. QED
    BY <1>1, <2>1, <2>2, <2>3 DEF Ascends, IsCheckout
<1> DEFINE d == Distinct(entries)
           differs == IndexDiffers(entries, head)
<1>5. /\ dirty <=> differs \/ \E e \in ToSet(d) : ~Unmodified(entries, e)
      /\ working = Recorded(Len(d))
  <2>1. PICK k \in 0..Len(d) :
           todo = After(entries, k) /\ (dirty <=> Differs(k)) /\ working = Recorded(k)
    BY <1>1 DEF Compared
  <2>2. k = Len(d)
    BY <1>1, <1>4, <2>1, TailOfRest DEF After
  <2>3. DOMAIN d = 1..Len(d)
    BY <1>4
  <2>4. (\E i \in 1..Len(d) : ~Unmodified(entries, d[i])) <=> \E e \in ToSet(d) : ~Unmodified(entries, e)
    BY <2>3 DEF ToSet
  <2>5. QED
    BY <2>1, <2>2, <2>4 DEF Differs
<1>6. ~differs <=> /\ {Content(e) : e \in ToSet(entries)} = {Content(e) : e \in ToSet(head.tree)}
                   /\ \A e \in ToSet(entries) : e.stage = 0 /\ "add" \notin e.flags
  BY <1>2, <1>4, DiffersIs
<1>7. {Content(e) : e \in ToSet(entries)} = {Content(e) : e \in ToSet(head.tree)}
         => \A e \in ToSet(entries) : e.stage = 0
  <2> SUFFICES ASSUME {Content(e) : e \in ToSet(entries)} = {Content(e) : e \in ToSet(head.tree)},
                      NEW e \in ToSet(entries)
               PROVE  e.stage = 0
    OBVIOUS
  <2>1. PICK g \in ToSet(head.tree) : Content(e) = Content(g)
    <3>1. Content(e) \in {Content(x) : x \in ToSet(head.tree)}
      OBVIOUS
    <3>2. QED
      BY <3>1
  <2>2. g.stage = 0
    BY <1>2, <1>4 DEF IsTree
  <2>3. QED
    BY <2>1, <2>2, ContentOrders
<1>8. ToSet(d) \subseteq ToSet(entries)
  BY <1>4 DEF ToSet
<1>9. (\A e \in ToSet(entries) : e.stage = 0) => ToSet(d) = ToSet(entries)
  <2>1. \A e \in ToSet(entries) :
           e.stage = 0 /\ (\A g \in ToSet(entries) : g.stage = 0) => e \in ToSet(d)
    BY <1>4, DistinctIs
  <2>2. QED
    BY <1>8, <2>1
<1> HIDE DEF d, differs
<1>11. Clean(entries) <=>
          /\ {Content(e) : e \in ToSet(entries)} = {Content(e) : e \in ToSet(head.tree)}
          /\ \A e \in ToSet(entries) : "add" \notin e.flags /\ Unmodified(entries, e)
          /\ Others(entries) = {}
  BY <1>2, <1>3 DEF Clean
<1>12. ~dirty <=>
          /\ {Content(e) : e \in ToSet(entries)} = {Content(e) : e \in ToSet(head.tree)}
          /\ \A e \in ToSet(entries) : "add" \notin e.flags /\ Unmodified(entries, e)
  <2> DEFINE same == {Content(e) : e \in ToSet(entries)} = {Content(e) : e \in ToSet(head.tree)}
  <2>1. CASE same
    BY <1>5, <1>6, <1>7, <1>9, <2>1
  <2>2. CASE ~same
    BY <1>5, <1>6, <2>2
  <2>3. QED
    BY <2>1, <2>2
<1>13. QED
  BY <1>2, <1>5, <1>11, <1>12 DEF d

\* Nothing is modified where Git has nothing to say and no mark hides an edit.
LEMMA SilenceIs ==
    ASSUME Whole, Undisturbed, Stands, pc = "walk", ~LeftOut(entries)
    PROVE  Clean(entries) <=> GitSilent(entries) /\ ~Hides(entries)
<1>1. /\ IsCheckout(checkout) /\ IsIndex(idx) /\ IsMerged(idx) /\ ~Unsafe(idx) /\ entries = Indexed(idx)
  BY DEF Undisturbed, Observing, Whole, Progress
<1>2. ASSUME NEW e \in ToSet(entries), GitLooksAt(e)
      PROVE  Unmodified(entries, e) <=> Matches(entries, e)
  <2> SUFFICES ASSUME Unmodified(entries, e), ~Matches(entries, e) PROVE FALSE
    BY DEF Unmodified
  <2>1. checkout.work[e.name].mode = "absent" /\ e.mode = "sub"
    BY <1>2 DEF Unmodified, GitLooksAt
  <2>2. QED
    BY <1>2, <2>1 DEF LeftOut
<1>3. (\A e \in ToSet(entries) : Unmodified(entries, e))
         <=> (\A e \in ToSet(entries) : GitLooksAt(e) => Matches(entries, e)) /\ ~Hides(entries)
  BY <1>2 DEF Hides
<1>4. GitIgnores(entries) = Resource(IgnorePath, NotRead, entries)
  <2> DEFINE f == checkout.work[IgnorePath]
             left == {e \in ToSet(entries) : e.name = IgnorePath /\ "skip" \in e.flags}
  <2>1. IsFile(f) /\ IgnorePath # AttrPath
    BY <1>1, ObservationAssumption DEF IsCheckout
  <2>2. f.mode = "absent" <=> f.body = NoBody
    BY <2>1 DEF IsFile
  <2>3. f.mode = "absent" => left = {}
    BY DEF LeftOut
  <2>4. Resource(IgnorePath, NotRead, entries) = f.body
    <3> HIDE DEF f
    <3>1. QED
      BY <2>1, <2>2 DEF Resource, f
  <2>5. GitIgnores(entries) = f.body
    <3>1. GitIgnores(entries) = IF f.mode = "absent" /\ left # {} THEN (CHOOSE e \in left : TRUE).oid ELSE f.body
      BY DEF GitIgnores
    <3> HIDE DEF f, left
    <3>2. QED
      BY <2>3, <3>1
  <2>6. QED
    BY <2>4, <2>5
<1>5. Others(entries) = {} <=>
         \A q \in Paths \ Names(entries) :
            checkout.work[q].mode \in {"absent", "dir"} \/ IsIgnored(q, GitIgnores(entries))
  BY <1>4 DEF Others
<1>6. QED
  BY <1>3, <1>5 DEF Clean, GitSilent

\* At the end, that is the identity of the checkout.
LEMMA UndisturbedIsIdentified == Whole /\ Undisturbed => UndisturbedIdentity
<1>1. ASSUME Whole, Undisturbed, Stands, pc = "walk", listing = {}
      PROVE  Result = IdentityNow
  <2> DEFINE d == Distinct(entries)
             now == [k \in DOMAIN d |-> Read(d[k])]
  <2>1. /\ head = checkout.head /\ idx = checkout.index /\ (idx.split => SharedReads)
        /\ IsIndex(idx) /\ IsMerged(idx) /\ ~Unsafe(idx) /\ entries = Indexed(idx)
    BY <1>1 DEF Undisturbed, Configured, Observing, Whole, Progress
  <2>2. /\ ~dirty /\ untracked = {} <=> Clean(entries)
        /\ untracked = Others(entries) /\ working = Recorded(Len(d))
    BY <1>1, VerdictIsRight
  <2>3. working = now
    <3>1. d \in Seq(ToSet(entries))
      BY <2>1, Reading
    <3>2. DOMAIN d = 1..Len(d)
      BY <3>1
    <3>3. QED
      BY <2>2, <3>2 DEF Recorded
  <2>4. IdentityNow = Identity(head, ~Clean(entries), entries, now, Others(entries))
    BY <2>1 DEF IdentityNow, SharedReads
  <2>5. Clean(entries) => Others(entries) = {}
    BY DEF Clean
  <2> HIDE DEF now
  <2>6. QED
    BY <2>2, <2>3, <2>4, <2>5 DEF Result, Identity
<1>2. ASSUME Whole, Undisturbed, Stands, pc = "walk", listing = {}, ~LeftOut(entries)
      PROVE  Result = <<head, "clean">> <=> GitSilent(entries) /\ ~Hides(entries)
  <2>1. (~dirty /\ untracked = {}) <=> (GitSilent(entries) /\ ~Hides(entries))
    BY <1>2, VerdictIsRight, SilenceIs
  <2>2. <<head, "dirty", entries, working, untracked>> # <<head, "clean">>
    OBVIOUS
  <2>3. QED
    BY <2>1, <2>2 DEF Result, Identity
<1>3. QED
  BY <1>1, <1>2 DEF UndisturbedIdentity, Stands

\* An observation that nobody disturbs returns the identity of the checkout as it
\* is. Where no gitlink's directory is missing and no .gitignore is left out of a
\* sparse checkout, it says clean if and only if git status has nothing to say
\* and no entry that is marked, and hidden from Git by that, is modified. Files
\* that are included say nothing of the worktree extension.
THEOREM WhatIsThereIsObserved == Spec => []UndisturbedIdentity
BY UndisturbedIsIdentified, ObservationIsWhole, UndisturbedIsObserved, PTL

-----------------------------------------------------------------------------
(* The second observation.                                                  *)

\* What was of the checkout between the observations is so while nobody edits it.
Remembered ==
    /\ still /\ first # NotRead => instant = IdentityNow
    /\ Stands /\ pc = "done" => second = instant

\* The identity is one of the checkout alone.
LEMMA IdentityStays ==
    ASSUME UNCHANGED checkout
    PROVE  IdentityNow' = IdentityNow
<1>1. \A es, e : /\ (Unmodified(es, e)' <=> Unmodified(es, e)) /\ Others(es)' = Others(es)
                 /\ Read(e)' = Read(e)
  BY JudgementStays
<1>2. \A es : Clean(es)' <=> Clean(es)
  BY <1>1 DEF Clean
<1>3. QED
  BY <1>1, <1>2 DEF IdentityNow

\* The second observation leaves the first identity and its instant alone.
LEMMA RememberedStays == Whole /\ Undisturbed /\ Remembered /\ [Next]_vars => Remembered'
<1> SUFFICES ASSUME Whole, Undisturbed, Remembered, [Next]_vars PROVE Remembered'
  OBVIOUS
<1>1. CASE Users
  BY <1>1 DEF Users, EditFile, Settle, MoveHead, Stage, ExpireShared, Edited, Remembered, Stands
<1>2. CASE UNCHANGED vars
  <2>1. UNCHANGED <<checkout, pc, first, second, still, instant>>
    BY <1>2 DEF vars
  <2>2. QED
    BY <2>1, IdentityStays DEF Remembered, Stands
<1>3. CASE Finish
  <2>1. instant' = IdentityNow /\ UNCHANGED checkout /\ pc' = "context"
    BY <1>3 DEF Finish, Restarts
  <2>2. QED
    BY <2>1, IdentityStays DEF Remembered, Stands
<1>4. CASE FinishAgain
  <2>1. /\ pc = "walk" /\ listing = {} /\ first # NotRead /\ second' = Result
        /\ UNCHANGED <<checkout, first, instant, still>>
    BY <1>4 DEF FinishAgain
  <2>2. Stands => Result = IdentityNow
    BY <2>1, UndisturbedIsIdentified DEF UndisturbedIdentity, Stands
  <2>3. QED
    BY <2>1, <2>2, IdentityStays DEF Remembered, Stands
<1>5. CASE Next /\ ~Users /\ ~Finish /\ ~FinishAgain
  <2>1. /\ UNCHANGED <<checkout, first, second, instant, still>> /\ pc' # "done"
    BY <1>5 DEF Next, Fail, Refuse, ResolveContext, ReadConfig, RefuseConfig, ReadHead, ReadIndex,
       ReadShared, RefuseIndex, Indexes, ReadFile, ObserveGitlink, Judge, Judged, ListFiles, Visit,
       Take, idVars, Running
  <2>2. QED
    BY <2>1, IdentityStays DEF Remembered, Stands
<1>6. QED
  BY <1>1, <1>2, <1>3, <1>4, <1>5

\* A second observation that nobody disturbs tells: it returns the first identity
\* if and only if that was the identity of the checkout when it was made. Files
\* that are included say nothing of the worktree extension.
THEOREM SecondLookIsTelling == Spec => []SecondLookTells
<1>1. Init => Remembered
  BY DEF Init, Remembered
<1>2. Whole /\ Undisturbed /\ Remembered /\ [Next]_vars => Remembered'
  BY RememberedStays
<1>3. Remembered => SecondLookTells
  BY DEF Remembered, SecondLookTells, Stands
<1>4. QED
  BY <1>1, <1>2, <1>3, ObservationIsWhole, UndisturbedIsObserved, PTL DEF Spec
==============================================================================
