--------------------------- MODULE CmdArgs_proofs ---------------------------
(***************************************************************************)
(* What split(), build_argv(), fix_cmd_arg() and trim() find in a line, of *)
(* any characters and of any length.                                       *)
(*                                                                         *)
(* The loops are recursive functions, so this is induction over the turns  *)
(* of a loop: each proof by induction looks at the least number for which  *)
(* the statement fails.                                                    *)
(***************************************************************************)
EXTENDS CmdArgs, SequenceTheorems, FiniteSetTheorems, WellFoundedInduction, TLAPS

-----------------------------------------------------------------------------
(* Induction.                                                              *)

\* A set of numbers that is not empty has a least element.
LEMMA Least ==
    ASSUME NEW T, T \subseteq Nat, T # {}
    PROVE  \E x \in T : \A y \in T : x <= y
<1>1. PICK x \in T : \A y \in T : ~(<<y, x>> \in OpToRel(<, Nat))
  BY WFMin, NatLessThanWellFounded, Zenon
<1>2. \A y \in T : ~(y < x)
  BY <1>1 DEF OpToRel
<1> QED BY <1>2

\* A set of numbers that has 0 and with every number its successor is Nat.
LEMMA AllNumbers ==
    ASSUME NEW T, T \subseteq Nat, 0 \in T, \A n \in T : n + 1 \in T
    PROVE  T = Nat
<1> SUFFICES ASSUME Nat \ T # {} PROVE FALSE
  OBVIOUS
<1>1. PICK x \in Nat \ T : \A y \in Nat \ T : x <= y
  BY Least
<1>2. x # 0 /\ x - 1 \in Nat /\ x - 1 \in T
  BY <1>1
<1>3. (x - 1) + 1 \in T
  BY <1>2
<1> QED BY <1>1, <1>3

\* The first k + 1 values of the iteration of g.
Upto(g, a, k) ==
    {h \in [0..k -> DOMAIN g] :
        \A n \in 0..k : h[n] = IF n <= 1 THEN a ELSE g[h[n - 1]]}

LEMMA UptoExists ==
    ASSUME NEW S, NEW a \in S, NEW g \in [S -> S]
    PROVE  \A k \in Nat : Upto(g, a, k) # {}
<1> DEFINE T == {k \in Nat : Upto(g, a, k) # {}}
<1>1. 0 \in T
  <2> DEFINE h == [n \in 0..0 |-> a]
  <2>1. h \in Upto(g, a, 0)
    BY DEF Upto
  <2> QED BY <2>1
<1>2. ASSUME NEW k \in T PROVE k + 1 \in T
  <2>1. PICK h \in Upto(g, a, k) : TRUE
    OBVIOUS
  <2>2. /\ h \in [0..k -> S] /\ k \in Nat
        /\ \A n \in 0..k : h[n] = IF n <= 1 THEN a ELSE g[h[n - 1]]
    BY <2>1 DEF Upto
  <2> DEFINE x == IF k + 1 <= 1 THEN a ELSE g[h[k]]
             e == [n \in 0..k + 1 |-> IF n <= k THEN h[n] ELSE x]
  <2>3. x \in S
    BY <2>2
  <2>4. e \in [0..k + 1 -> S]
    BY <2>2, <2>3
  <2>5. ASSUME NEW n \in 0..k + 1
        PROVE  e[n] = IF n <= 1 THEN a ELSE g[e[n - 1]]
    <3>1. CASE n <= k
      <4>1. e[n] = h[n] /\ n \in 0..k
        BY <2>2, <3>1
      <4>2. CASE n <= 1
        BY <2>2, <4>1, <4>2
      <4>3. CASE ~(n <= 1)
        <5>1. n - 1 \in 0..k + 1 /\ n - 1 <= k
          BY <2>2, <3>1, <4>3
        <5>2. e[n - 1] = h[n - 1]
          BY <5>1
        <5> QED BY <2>2, <4>1, <4>3, <5>2
      <4> QED BY <4>2, <4>3
    <3>2. CASE ~(n <= k)
      <4>1. n = k + 1 /\ n - 1 = k /\ e[n] = x /\ e[k] = h[k]
        BY <2>2, <3>2
      <4> QED BY <4>1
    <3> QED BY <3>1, <3>2
  <2>6. e \in Upto(g, a, k + 1)
    <3> HIDE DEF e
    <3> QED BY <2>4, <2>5 DEF Upto
  <2> QED BY <2>2, <2>6
<1>3. T = Nat
  <2> HIDE DEF T
  <2>1. T \subseteq Nat
    BY DEF T
  <2> QED BY <1>1, <1>2, <2>1, AllNumbers
<1> QED BY <1>3

LEMMA UptoAgree ==
    ASSUME NEW S, NEW a \in S, NEW g \in [S -> S], NEW k \in Nat, NEW m \in Nat,
           NEW h \in Upto(g, a, k), NEW e \in Upto(g, a, m)
    PROVE  \A n \in Nat : n <= k /\ n <= m => h[n] = e[n]
<1> DEFINE T == {n \in Nat : n <= k /\ n <= m => h[n] = e[n]}
<1>1. /\ \A n \in 0..k : h[n] = IF n <= 1 THEN a ELSE g[h[n - 1]]
      /\ \A n \in 0..m : e[n] = IF n <= 1 THEN a ELSE g[e[n - 1]]
  BY DEF Upto
<1>2. 0 \in T
  BY <1>1
<1>3. ASSUME NEW n \in T PROVE n + 1 \in T
  <2> SUFFICES ASSUME n + 1 <= k, n + 1 <= m PROVE h[n + 1] = e[n + 1]
    OBVIOUS
  <2>1. n \in Nat /\ n + 1 \in 0..k /\ n + 1 \in 0..m /\ (n + 1) - 1 = n /\ h[n] = e[n]
    OBVIOUS
  <2>2. /\ h[n + 1] = IF n + 1 <= 1 THEN a ELSE g[h[n]]
        /\ e[n + 1] = IF n + 1 <= 1 THEN a ELSE g[e[n]]
    BY <1>1, <2>1
  <2> QED BY <2>1, <2>2
<1>4. T = Nat
  <2> HIDE DEF T
  <2>1. T \subseteq Nat
    BY DEF T
  <2> QED BY <1>2, <1>3, <2>1, AllNumbers
<1> QED BY <1>4

Iterates(f, g, a) == f = [n \in Nat |-> IF n <= 1 THEN a ELSE g[f[n - 1]]]

\* The iteration of a function exists.
LEMMA Iteration ==
    ASSUME NEW S, NEW a \in S, NEW g \in [S -> S]
    PROVE  \E f \in [Nat -> S] : Iterates(f, g, a)
<1> DEFINE H(k) == CHOOSE h : h \in Upto(g, a, k)
           f == [n \in Nat |-> H(n)[n]]
<1>1. \A k \in Nat : H(k) \in Upto(g, a, k)
  BY UptoExists, Zenon
<1> HIDE DEF H
<1>2. ASSUME NEW n \in Nat
      PROVE  f[n] \in S /\ f[n] = IF n <= 1 THEN a ELSE g[f[n - 1]]
  <2>1. H(n) \in [0..n -> S] /\ H(n)[n] = IF n <= 1 THEN a ELSE g[H(n)[n - 1]]
    BY <1>1 DEF Upto
  <2>2. CASE n <= 1
    BY <2>1, <2>2
  <2>3. CASE ~(n <= 1)
    <3>1. n - 1 \in Nat /\ n - 1 <= n
      BY <2>3
    <3>2. H(n)[n - 1] = H(n - 1)[n - 1]
      BY <1>1, <3>1, UptoAgree
    <3> QED BY <2>1, <2>3, <3>1, <3>2
  <2> QED BY <2>2, <2>3
<1>3. f \in [Nat -> S]
  BY <1>2
<1>4. f = [n \in Nat |-> IF n <= 1 THEN a ELSE g[f[n - 1]]]
  <2>1. f = [n \in Nat |-> f[n]]
    OBVIOUS
  <2> HIDE DEF f
  <2> QED BY <1>2, <2>1
<1> QED BY <1>3, <1>4 DEF Iterates

-----------------------------------------------------------------------------
(* The loops.                                                              *)

\* The end of a word, for every string and every place in it.
LEMMA EndFacts ==
    ASSUME NEW S, NEW s \in Seq(S), NEW p \in 1..Len(s) + 1
    PROVE  /\ EndOfWord(s, p) \in p..Len(s) + 1
           /\ \A k \in p..EndOfWord(s, p) - 1 : s[k] # Blank
           /\ EndOfWord(s, p) <= Len(s) => s[EndOfWord(s, p)] = Blank
<1> DEFINE Q(q) == (\A k \in p..q - 1 : ~(s[k] = Blank)) /\ (q <= Len(s) => s[q] = Blank)
           T == {q \in p..Len(s) + 1 : q <= Len(s) => s[q] = Blank}
<1>1. Len(s) \in Nat
  BY LenProperties
<1>2. T \subseteq Nat /\ Len(s) + 1 \in T
  BY <1>1
<1>3. PICK q \in T : \A r \in T : q <= r
  <2>1. T # {}
    BY <1>2
  <2> HIDE DEF T
  <2> QED BY <1>2, <2>1, Least
<1>4. q \in p..Len(s) + 1 /\ Q(q)
  <2>1. q \in p..Len(s) + 1 /\ (q <= Len(s) => s[q] = Blank)
    OBVIOUS
  <2>2. ASSUME NEW k \in p..q - 1, s[k] = Blank PROVE FALSE
    <3>1. k \in T
      BY <1>1, <2>1, <2>2
    <3> QED BY <1>3, <3>1, <2>1, <1>1
  <2> QED BY <2>1, <2>2
<1>5. EndOfWord(s, p) = CHOOSE r \in p..Len(s) + 1 : Q(r)
  BY DEF EndOfWord, Stop
<1> HIDE DEF Q
<1>6. EndOfWord(s, p) \in p..Len(s) + 1 /\ Q(EndOfWord(s, p))
  BY <1>4, <1>5
<1> QED BY <1>6 DEF Q

\* The end of a run of blanks.
LEMMA NextFacts ==
    ASSUME NEW S, NEW s \in Seq(S), NEW p \in 1..Len(s) + 1
    PROVE  /\ NextWord(s, p) \in p..Len(s) + 1
           /\ \A k \in p..NextWord(s, p) - 1 : s[k] = Blank
           /\ NextWord(s, p) <= Len(s) => s[NextWord(s, p)] # Blank
<1> DEFINE Q(q) == (\A k \in p..q - 1 : ~(s[k] # Blank)) /\ (q <= Len(s) => s[q] # Blank)
           T == {q \in p..Len(s) + 1 : q <= Len(s) => s[q] # Blank}
<1>1. Len(s) \in Nat
  BY LenProperties
<1>2. T \subseteq Nat /\ Len(s) + 1 \in T
  BY <1>1
<1>3. PICK q \in T : \A r \in T : q <= r
  <2>1. T # {}
    BY <1>2
  <2> HIDE DEF T
  <2> QED BY <1>2, <2>1, Least
<1>4. q \in p..Len(s) + 1 /\ Q(q)
  <2>1. q \in p..Len(s) + 1 /\ (q <= Len(s) => s[q] # Blank)
    OBVIOUS
  <2>2. ASSUME NEW k \in p..q - 1, s[k] # Blank PROVE FALSE
    <3>1. k \in T
      BY <1>1, <2>1, <2>2
    <3> QED BY <1>3, <3>1, <2>1, <1>1
  <2> QED BY <2>1, <2>2
<1>5. NextWord(s, p) = CHOOSE r \in p..Len(s) + 1 : Q(r)
  BY DEF NextWord, Stop
<1> HIDE DEF Q
<1>6. NextWord(s, p) \in p..Len(s) + 1 /\ Q(NextWord(s, p))
  BY <1>4, <1>5
<1> QED BY <1>6 DEF Q

\* The turns are what their definition says, and stay in the string.
LEMMA TurnFacts ==
    ASSUME NEW S, NEW s \in Seq(S)
    PROVE  /\ Turn(s) \in [Nat -> 1..Len(s) + 1]
           /\ Turn(s)[1] = 1
           /\ \A n \in Nat : n >= 1 => Turn(s)[n + 1] = NextWord(s, EndOfWord(s, Turn(s)[n]))
<1> DEFINE P == 1..Len(s) + 1
           g == [p \in P |-> NextWord(s, EndOfWord(s, p))]
<1>1. Len(s) \in Nat /\ 1 \in P
  BY LenProperties
<1>2. \A p \in P : EndOfWord(s, p) \in P
  BY <1>1, EndFacts
<1>3. \A p \in P : NextWord(s, EndOfWord(s, p)) \in P
  <2> TAKE p \in P
  <2>1. EndOfWord(s, p) \in 1..Len(s) + 1
    BY <1>2
  <2>2. NextWord(s, EndOfWord(s, p)) \in EndOfWord(s, p)..Len(s) + 1
    BY <2>1, NextFacts
  <2> QED BY <1>1, <2>1, <2>2
<1> HIDE DEF P
<1>4. g \in [P -> P]
  BY <1>3
<1>5. \E f \in [Nat -> P] : Iterates(f, g, 1)
  <2> HIDE DEF g
  <2> QED BY <1>1, <1>4, Iteration
<1>6. PICK f : f \in [Nat -> P] /\ Iterates(f, g, 1)
  BY <1>5
<1>7. \A n \in Nat : ~(n <= 1) => g[f[n - 1]] = NextWord(s, EndOfWord(s, f[n - 1]))
  <2>1. f \in [Nat -> P]
    BY <1>6
  <2> QED BY <2>1
<1> DEFINE R(at) == at = [n \in Nat |-> IF n <= 1 THEN 1 ELSE NextWord(s, EndOfWord(s, at[n - 1]))]
<1>8. R(f)
  <2> HIDE DEF g
  <2> QED BY <1>6, <1>7 DEF Iterates
<1>9. Turn(s) = CHOOSE at : R(at)
  BY DEF Turn
<1> HIDE DEF R
<1>10. R(Turn(s))
  BY <1>8, <1>9
<1> DEFINE t == Turn(s)
<1>11. /\ t = [n \in Nat |-> t[n]] /\ t[0] = 1 /\ t[1] = 1
       /\ \A n \in Nat : n >= 1 => t[n + 1] = NextWord(s, EndOfWord(s, t[n]))
  <2>1. t = [n \in Nat |-> IF n <= 1 THEN 1 ELSE NextWord(s, EndOfWord(s, t[n - 1]))]
    BY <1>10 DEF R
  <2> HIDE DEF t
  <2>2. \A n \in Nat : t[n] = IF n <= 1 THEN 1 ELSE NextWord(s, EndOfWord(s, t[n - 1]))
    BY <2>1
  <2>3. t = [n \in Nat |-> t[n]]
    BY <2>1
  <2>4. ASSUME NEW n \in Nat, n >= 1 PROVE t[n + 1] = NextWord(s, EndOfWord(s, t[n]))
    <3>1. n + 1 \in Nat /\ ~(n + 1 <= 1) /\ (n + 1) - 1 = n
      BY <2>4
    <3> QED BY <2>2, <3>1
  <2>5. t[0] = 1 /\ t[1] = 1
    BY <2>2
  <2> QED BY <2>3, <2>4, <2>5
<1> HIDE DEF t
<1> DEFINE T == {n \in Nat : t[n] \in P}
<1>12. 0 \in T /\ \A n \in T : n + 1 \in T
  <2>1. 0 \in T
    BY <1>1, <1>11
  <2>2. ASSUME NEW n \in T PROVE n + 1 \in T
    <3>1. CASE n = 0
      BY <1>1, <1>11, <3>1
    <3>2. CASE n # 0
      <4>1. n \in Nat /\ n >= 1 /\ t[n] \in P
        BY <3>2
      <4>2. t[n + 1] \in P
        BY <1>3, <1>11, <4>1
      <4> QED BY <4>1, <4>2
    <3> QED BY <3>1, <3>2
  <2> QED BY <2>1, <2>2
<1>13. T = Nat
  <2> HIDE DEF T
  <2>1. T \subseteq Nat
    BY DEF T
  <2> QED BY <1>12, <2>1, AllNumbers
<1>14. \A n \in Nat : t[n] \in P
  BY <1>13
<1>15. t \in [Nat -> P]
  BY <1>11, <1>14
<1> QED BY <1>11, <1>15 DEF t, P

LEMMA TurnPlaces ==
    ASSUME NEW S, NEW s \in Seq(S)
    PROVE  \A n \in Nat : Turn(s)[n] \in Nat /\ Turn(s)[n] \in 1..Len(s) + 1
<1> DEFINE t == Turn(s)
           L == Len(s)
<1>1. t \in [Nat -> 1..L + 1] /\ L \in Nat
  BY TurnFacts, LenProperties
<1> HIDE DEF t, L
<1>2. \A n \in Nat : t[n] \in 1..L + 1
  BY <1>1
<1>3. \A n \in Nat : t[n] \in Nat
  BY <1>1, <1>2
<1> QED BY <1>2, <1>3 DEF t, L

-----------------------------------------------------------------------------
(* Words.                                                                  *)

\* Where a word begins, and that it goes on to where EndOfWord finds its end.
LEMMA BeginFacts ==
    ASSUME NEW S, NEW s \in Seq(S)
    PROVE  /\ Begins(s) =
                {i \in 1..Len(s) : s[i] # Blank /\ (i > 1 => s[i - 1] = Blank)}
           /\ \A i \in Begins(s) : WordFrom(s, i) = SubSeq(s, i, EndOfWord(s, i) - 1)
<1>1. Len(s) \in Nat
  BY LenProperties
<1>2. ASSUME NEW i \in 1..Len(s), s[i] # Blank, i > 1 => s[i - 1] = Blank
      PROVE  EndOfWord(s, i) - 1 \in i..Len(s) /\ IsWord(s, i, EndOfWord(s, i) - 1)
  <2> DEFINE e == EndOfWord(s, i)
  <2>1. e \in i..Len(s) + 1 /\ (\A k \in i..e - 1 : s[k] # Blank) /\ (e <= Len(s) => s[e] = Blank)
    BY <1>1, EndFacts
  <2> HIDE DEF e
  <2>2. e # i
    BY <1>2, <2>1
  <2>3. e - 1 \in i..Len(s) /\ (e - 1) + 1 = e
    BY <1>1, <2>1, <2>2
  <2>4. IsWord(s, i, e - 1)
    BY <1>1, <1>2, <2>1, <2>3 DEF IsWord
  <2> QED BY <2>3, <2>4 DEF e
<1>3. ASSUME NEW i \in 1..Len(s), NEW j \in i..Len(s), IsWord(s, i, j)
      PROVE  s[i] # Blank /\ (i > 1 => s[i - 1] = Blank) /\ j = EndOfWord(s, i) - 1
  <2> DEFINE e == EndOfWord(s, i)
  <2>1. e \in i..Len(s) + 1 /\ (\A k \in i..e - 1 : s[k] # Blank) /\ (e <= Len(s) => s[e] = Blank)
    BY <1>1, EndFacts
  <2> HIDE DEF e
  <2>2. /\ \A k \in i..j : s[k] # Blank
        /\ (i > 1 => s[i - 1] = Blank) /\ (j < Len(s) => s[j + 1] = Blank)
    BY <1>3 DEF IsWord
  <2>3. s[i] # Blank
    BY <1>1, <2>2
  <2>4. ~(e <= j)
    <3> SUFFICES ASSUME e <= j PROVE FALSE
      OBVIOUS
    <3>1. e \in i..j /\ e <= Len(s)
      BY <1>1, <2>1
    <3> QED BY <2>1, <2>2, <3>1
  <2>5. ~(j + 1 < e)
    <3> SUFFICES ASSUME j + 1 < e PROVE FALSE
      OBVIOUS
    <3>1. j + 1 \in i..e - 1 /\ j < Len(s)
      BY <1>1, <2>1
    <3> QED BY <2>1, <2>2, <3>1
  <2>6. j = e - 1
    BY <1>1, <2>1, <2>4, <2>5
  <2> QED BY <2>2, <2>3, <2>6 DEF e
<1>4. Begins(s) = {i \in 1..Len(s) : s[i] # Blank /\ (i > 1 => s[i - 1] = Blank)}
  <2>1. ASSUME NEW i \in Begins(s)
        PROVE  i \in 1..Len(s) /\ s[i] # Blank /\ (i > 1 => s[i - 1] = Blank)
    <3>1. i \in 1..Len(s) /\ \E j \in i..Len(s) : IsWord(s, i, j)
      BY DEF Begins
    <3> QED BY <1>3, <3>1
  <2>2. ASSUME NEW i \in 1..Len(s), s[i] # Blank, i > 1 => s[i - 1] = Blank
        PROVE  i \in Begins(s)
    BY <1>2, <2>2 DEF Begins
  <2> QED BY <2>1, <2>2
<1>5. ASSUME NEW i \in Begins(s)
      PROVE  WordFrom(s, i) = SubSeq(s, i, EndOfWord(s, i) - 1)
  <2>1. i \in 1..Len(s) /\ \E j \in i..Len(s) : IsWord(s, i, j)
    BY DEF Begins
  <2>2. (CHOOSE j \in i..Len(s) : IsWord(s, i, j)) = EndOfWord(s, i) - 1
    BY <1>3, <2>1
  <2> QED BY <2>2 DEF WordFrom
<1> QED BY <1>4, <1>5

First(a, n) == {a[j] : j \in 1..n}

\* A list without repetitions has as many values as places.
LEMMA CountFirst ==
    ASSUME NEW m \in Nat, NEW a \in [1..m -> Nat],
           \A i, j \in 1..m : i < j => a[i] < a[j],
           NEW n \in 0..m
    PROVE  Cardinality(First(a, n)) = n
<1> DEFINE Q(k) == k <= m => IsFiniteSet(First(a, k)) /\ Cardinality(First(a, k)) = k
           T == {k \in Nat : Q(k)}
<1>1. Q(0)
  <2>1. First(a, 0) = {}
    BY DEF First
  <2> QED BY <2>1, FS_EmptySet
<1>2. ASSUME NEW k \in Nat, Q(k) PROVE Q(k + 1)
  <2> SUFFICES ASSUME k + 1 <= m
               PROVE  IsFiniteSet(First(a, k + 1)) /\ Cardinality(First(a, k + 1)) = k + 1
    OBVIOUS
  <2>1. IsFiniteSet(First(a, k)) /\ Cardinality(First(a, k)) = k
    BY <1>2
  <2>2. First(a, k + 1) = First(a, k) \cup {a[k + 1]}
    <3>1. /\ \A j \in 1..k + 1 : j \in 1..k \/ j = k + 1
          /\ \A j \in 1..k : j \in 1..k + 1
          /\ k + 1 \in 1..k + 1
      OBVIOUS
    <3> QED BY <3>1 DEF First
  <2>3. a[k + 1] \notin First(a, k)
    <3> SUFFICES ASSUME NEW j \in 1..k, a[k + 1] = a[j] PROVE FALSE
      BY DEF First
    <3>1. j \in 1..m /\ k + 1 \in 1..m /\ j < k + 1
      OBVIOUS
    <3>2. a[j] < a[k + 1] /\ a[j] \in Nat /\ a[k + 1] \in Nat
      BY <3>1
    <3> QED BY <3>2
  <2>4. /\ IsFiniteSet(First(a, k) \cup {a[k + 1]})
        /\ Cardinality(First(a, k) \cup {a[k + 1]}) = Cardinality(First(a, k)) + 1
    BY <2>1, <2>3, FS_AddElement
  <2> QED BY <2>1, <2>2, <2>4
<1> HIDE DEF Q
<1>3. T = Nat
  <2>1. T \subseteq Nat /\ 0 \in T /\ \A k \in T : k + 1 \in T
    BY <1>1, <1>2
  <2> HIDE DEF T
  <2> QED BY <2>1, AllNumbers
<1>4. n \in Nat /\ n <= m /\ Q(n)
  BY <1>3
<1> QED BY <1>4 DEF Q

\* If a lists the places where words begin, then Words lists the words there.
LEMMA Enumerated ==
    ASSUME NEW s, NEW m \in Nat, NEW a \in [1..m -> Nat],
           \A i, j \in 1..m : i < j => a[i] < a[j],
           Begins(s) = {a[n] : n \in 1..m}
    PROVE  Words(s) = [n \in 1..m |-> WordFrom(s, a[n])]
<1> DEFINE B == Begins(s)
           Rank(i) == Cardinality({k \in B : k <= i})
<1>1. Cardinality(B) = m
  <2>1. B = First(a, m) /\ m \in 0..m
    BY DEF First
  <2> QED BY <2>1, CountFirst
<1>2. ASSUME NEW n \in 1..m PROVE Rank(a[n]) = n
  <2>1. {k \in B : k <= a[n]} = First(a, n)
    <3>1. ASSUME NEW j \in 1..m PROVE a[j] <= a[n] <=> j <= n
      <4>1. a[j] \in Nat /\ a[n] \in Nat /\ j \in Nat /\ n \in Nat
        OBVIOUS
      <4>2. CASE j < n
        BY <4>1, <4>2
      <4>3. CASE j = n
        BY <4>1, <4>3
      <4>4. CASE n < j
        BY <4>1, <4>4
      <4> QED BY <4>1, <4>2, <4>3, <4>4
    <3>2. \A j \in 1..n : j \in 1..m
      OBVIOUS
    <3> QED BY <3>1, <3>2 DEF First
  <2>2. n \in 0..m
    OBVIOUS
  <2>3. Cardinality(First(a, n)) = n
    BY <2>2, CountFirst
  <2> QED BY <2>1, <2>3
<1>3. ASSUME NEW n \in 1..m PROVE (CHOOSE i \in B : Rank(i) = n) = a[n]
  <2>1. a[n] \in B /\ Rank(a[n]) = n
    BY <1>2
  <2>2. \A i \in B : Rank(i) = n => i = a[n]
    BY <1>2
  <2> HIDE DEF Rank, B
  <2> QED BY <2>1, <2>2
<1> HIDE DEF Rank
<1>4. Words(s) = [n \in 1..Cardinality(B) |-> WordFrom(s, CHOOSE i \in B : Rank(i) = n)]
  BY DEF Words, Rank
<1> HIDE DEF B
<1> QED BY <1>1, <1>3, <1>4

-----------------------------------------------------------------------------
(* The turns of a loop are the words.                                      *)

Solid(s) == s # <<>> => s[1] # Blank

\* m is the number of turns that find a word.
Covers(s, m) ==
    /\ \A n \in Nat : n >= 1 => (Turn(s)[n] <= Len(s) <=> n <= m)
    /\ \A i, j \in 1..m : i < j => Turn(s)[i] < Turn(s)[j]
    /\ Begins(s) = {Turn(s)[n] : n \in 1..m}

\* One turn, from a word to the next.
LEMMA OneTurn ==
    ASSUME NEW S, NEW s \in Seq(S), Solid(s), NEW n \in Nat, n >= 1
    PROVE  LET p == Turn(s)[n]
               e == EndOfWord(s, p)
               q == Turn(s)[n + 1]
           IN /\ p \in 1..Len(s) + 1 /\ q \in p..Len(s) + 1 /\ e \in p..q
              /\ \A k \in p..e - 1 : s[k] # Blank
              /\ \A k \in e..q - 1 : s[k] = Blank
              /\ p <= Len(s) => s[p] # Blank /\ p < q /\ p < e
              /\ q <= Len(s) => s[q] # Blank /\ s[q - 1] = Blank /\ q > 1
<1> DEFINE t == Turn(s)
           p == t[n]
           e == EndOfWord(s, p)
           q == t[n + 1]
<1>1. /\ t \in [Nat -> 1..Len(s) + 1] /\ t[1] = 1 /\ Len(s) \in Nat
      /\ \A k \in Nat : k >= 1 => t[k + 1] = NextWord(s, EndOfWord(s, t[k]))
  BY TurnFacts, LenProperties
<1> HIDE DEF t
<1>2. p \in 1..Len(s) + 1
  BY <1>1
<1>3. q = NextWord(s, e)
  BY <1>1
<1> HIDE DEF p
<1>4. /\ e \in p..Len(s) + 1 /\ \A k \in p..e - 1 : s[k] # Blank
      /\ e <= Len(s) => s[e] = Blank
  BY <1>2, EndFacts
<1> HIDE DEF e, q
<1>5. /\ q \in e..Len(s) + 1 /\ \A k \in e..q - 1 : s[k] = Blank
      /\ q <= Len(s) => s[q] # Blank
  <2>1. e \in 1..Len(s) + 1
    BY <1>1, <1>2, <1>4
  <2> QED BY <1>3, <2>1, NextFacts
<1>6. p <= Len(s) => s[p] # Blank
  <2> SUFFICES ASSUME p <= Len(s) PROVE s[p] # Blank
    OBVIOUS
  <2>1. CASE n = 1
    <3>1. p = 1 /\ s # <<>>
      BY <1>1, <1>2, <2>1, EmptySeq DEF p
    <3> QED BY <3>1 DEF Solid
  <2>2. CASE n # 1
    <3> DEFINE d == EndOfWord(s, t[n - 1])
    <3>1. n - 1 \in Nat /\ n - 1 >= 1 /\ (n - 1) + 1 = n
      BY <2>2
    <3>2. p = NextWord(s, d) /\ t[n - 1] \in 1..Len(s) + 1
      BY <1>1, <3>1 DEF p
    <3>3. d \in t[n - 1]..Len(s) + 1
      BY <3>2, EndFacts
    <3>4. d \in 1..Len(s) + 1
      BY <1>1, <3>2, <3>3
    <3> HIDE DEF d
    <3> QED BY <3>2, <3>4, NextFacts
  <2> QED BY <2>1, <2>2
<1>7. p <= Len(s) => p < e
  <2>1. p <= Len(s) => p # e
    BY <1>4, <1>6
  <2> QED BY <1>1, <1>2, <1>4, <2>1
<1>8. q <= Len(s) => s[q - 1] = Blank /\ q > 1
  <2> SUFFICES ASSUME q <= Len(s) PROVE s[q - 1] = Blank /\ q > 1
    OBVIOUS
  <2>1. e # q
    BY <1>4, <1>5
  <2>2. q - 1 \in e..q - 1 /\ q > 1
    BY <1>1, <1>2, <1>4, <1>5, <2>1
  <2> QED BY <1>5, <2>2
<1>9. q \in p..Len(s) + 1 /\ e \in p..q /\ (p <= Len(s) => p < q)
  BY <1>1, <1>2, <1>4, <1>5, <1>7
<1> QED BY <1>2, <1>4, <1>5, <1>6, <1>7, <1>8, <1>9 DEF p, e, q, t

\* The loop comes to the end of the string, by a word in each turn.
LEMMA Covered ==
    ASSUME NEW S, NEW s \in Seq(S), Solid(s)
    PROVE  \E m \in 0..Len(s) : Covers(s, m)
<1> DEFINE t == Turn(s)
           L == Len(s)
<1>1. L \in Nat /\ t \in [Nat -> 1..L + 1] /\ t[1] = 1
  BY TurnFacts, LenProperties
<1>2. ASSUME NEW n \in Nat, n >= 1
      PROVE  /\ t[n] \in 1..L + 1 /\ t[n + 1] \in t[n]..L + 1
             /\ t[n] <= L => t[n] < t[n + 1]
  BY <1>2, OneTurn
<1> HIDE DEF t, L
<1>3. \A n \in Nat : n >= 1 => t[n] >= n \/ t[n] = L + 1
  <2> DEFINE Q(n) == n >= 1 => t[n] >= n \/ t[n] = L + 1
             T == {n \in Nat : Q(n)}
  <2>1. Q(0)
    OBVIOUS
  <2>2. ASSUME NEW n \in Nat, Q(n) PROVE Q(n + 1)
    <3>1. CASE n = 0
      BY <1>1, <3>1
    <3>2. CASE n # 0
      <4>1. /\ t[n] \in 1..L + 1 /\ t[n + 1] \in t[n]..L + 1
            /\ t[n] <= L => t[n] < t[n + 1]
            /\ t[n] >= n \/ t[n] = L + 1
        BY <1>2, <2>2, <3>2
      <4> DEFINE x == t[n]
                 y == t[n + 1]
      <4>0. /\ x \in 1..L + 1 /\ y \in x..L + 1 /\ (x <= L => x < y)
            /\ (x >= n \/ x = L + 1) /\ L \in Nat
        BY <1>1, <4>1, Zenon
      <4> HIDE DEF x, y, L, t
      <4>2. x \in Nat /\ y \in Nat /\ x <= y /\ y <= L + 1
        BY <4>0
      <4>3. (x <= L => x < y) /\ (x >= n \/ x = L + 1)
        BY <4>0
      <4>4. y >= n + 1 \/ y = L + 1
        BY <1>1, <4>2, <4>3
      <4> QED BY <4>4 DEF y
    <3> QED BY <3>1, <3>2
  <2> HIDE DEF Q
  <2>3. T \subseteq Nat /\ 0 \in T /\ \A n \in T : n + 1 \in T
    BY <2>1, <2>2
  <2>4. T = Nat
    <3> HIDE DEF T
    <3> QED BY <2>3, AllNumbers
  <2> QED BY <2>4 DEF Q
<1>4. PICK m \in Nat : /\ m <= L /\ t[m + 1] = L + 1
                       /\ \A n \in Nat : n >= 1 /\ n <= m => t[n] <= L
  <2> DEFINE T == {n \in Nat : n >= 1 /\ t[n] = L + 1}
  <2>1. L + 1 \in T
    <3>1. L + 1 \in Nat /\ L + 1 >= 1
      BY <1>1
    <3>2. t[L + 1] \in 1..L + 1 /\ (t[L + 1] >= L + 1 \/ t[L + 1] = L + 1)
      BY <1>2, <1>3, <3>1
    <3> QED BY <1>1, <3>1, <3>2
  <2>2. PICK k \in T : \A y \in T : k <= y
    <3>1. T \subseteq Nat /\ T # {}
      BY <2>1
    <3> HIDE DEF T
    <3> QED BY <3>1, Least
  <2>3. k \in Nat /\ k >= 1 /\ t[k] = L + 1 /\ k <= L + 1
    BY <2>1, <2>2
  <2>4. k - 1 \in Nat /\ k - 1 <= L /\ (k - 1) + 1 = k
    BY <1>1, <2>3
  <2>5. ASSUME NEW n \in Nat, n >= 1, n <= k - 1 PROVE t[n] <= L
    <3>1. n \notin T
      BY <2>2, <2>3, <2>5
    <3>2. t[n] # L + 1 /\ t[n] \in 1..L + 1
      BY <1>2, <2>5, <3>1
    <3> QED BY <1>1, <3>2
  <2> QED BY <2>3, <2>4, <2>5
<1>5. \A n \in Nat : n > m => t[n] = L + 1
  <2> DEFINE Q(n) == n > m => t[n] = L + 1
             T == {n \in Nat : Q(n)}
  <2>1. Q(0)
    BY <1>4
  <2>2. ASSUME NEW n \in Nat, Q(n) PROVE Q(n + 1)
    <3> SUFFICES ASSUME n + 1 > m PROVE t[n + 1] = L + 1
      OBVIOUS
    <3>1. CASE n = m
      BY <1>4, <3>1
    <3>2. CASE n # m
      <4>1. n > m /\ n >= 1 /\ t[n] = L + 1
        BY <1>4, <2>2, <3>2
      <4>2. t[n + 1] \in t[n]..L + 1
        BY <1>2, <4>1
      <4> QED BY <1>1, <4>1, <4>2
    <3> QED BY <3>1, <3>2
  <2> HIDE DEF Q
  <2>3. T \subseteq Nat /\ 0 \in T /\ \A n \in T : n + 1 \in T
    BY <2>1, <2>2
  <2>4. T = Nat
    <3> HIDE DEF T
    <3> QED BY <2>3, AllNumbers
  <2> QED BY <2>4 DEF Q
<1>6. ASSUME NEW n \in Nat, n >= 1 PROVE t[n] <= L <=> n <= m
  <2>1. CASE n <= m
    BY <1>4, <1>6, <2>1
  <2>2. CASE ~(n <= m)
    BY <1>1, <1>4, <1>5, <2>2
  <2> QED BY <2>1, <2>2
<1>7. \A i, j \in 1..m : i < j => t[i] < t[j]
  <2> SUFFICES ASSUME NEW i \in 1..m
               PROVE  \A j \in Nat : i < j /\ j <= m => t[i] < t[j]
    BY <1>4
  <2> DEFINE Q(j) == i < j /\ j <= m => t[i] < t[j]
             T == {j \in Nat : Q(j)}
  <2>1. Q(0)
    BY <1>4
  <2>2. ASSUME NEW j \in Nat, Q(j) PROVE Q(j + 1)
    <3> SUFFICES ASSUME i < j + 1, j + 1 <= m PROVE t[i] < t[j + 1]
      OBVIOUS
    <3>1. j >= 1 /\ j <= m /\ i \in Nat /\ i <= j
      BY <1>4
    <3>2. t[j] \in 1..L + 1 /\ t[j] < t[j + 1] /\ t[j + 1] \in t[j]..L + 1 /\ t[i] \in 1..L + 1
      BY <1>1, <1>2, <1>4, <3>1
    <3>3. CASE i = j
      BY <3>2, <3>3
    <3>4. CASE i # j
      <4>1. t[i] < t[j]
        BY <2>2, <3>1, <3>4
      <4> QED BY <1>1, <3>2, <4>1
    <3> QED BY <3>3, <3>4
  <2> HIDE DEF Q
  <2>3. T \subseteq Nat /\ 0 \in T /\ \A n \in T : n + 1 \in T
    BY <2>1, <2>2
  <2>4. T = Nat
    <3> HIDE DEF T
    <3> QED BY <2>3, AllNumbers
  <2> QED BY <2>4 DEF Q
<1>8. ASSUME NEW n \in 1..m PROVE t[n] \in Begins(s)
  <2>1. n \in Nat /\ n >= 1 /\ t[n] <= L /\ t[n] \in 1..L
    <3>1. n \in Nat /\ n >= 1 /\ n <= m
      BY <1>4
    <3>2. t[n] <= L /\ t[n] \in 1..L + 1
      BY <1>2, <1>4, <3>1
    <3> QED BY <1>1, <3>1, <3>2
  <2>2. s[t[n]] # Blank
    BY <2>1, OneTurn DEF t, L
  <2>3. t[n] > 1 => s[t[n] - 1] = Blank
    <3>1. CASE n = 1
      BY <1>1, <3>1
    <3>2. CASE n # 1
      <4>1. n - 1 \in Nat /\ n - 1 >= 1 /\ (n - 1) + 1 = n
        BY <2>1, <3>2
      <4>2. t[(n - 1) + 1] <= L => s[t[(n - 1) + 1] - 1] = Blank
        BY <4>1, OneTurn DEF t, L
      <4> QED BY <2>1, <4>1, <4>2
    <3> QED BY <3>1, <3>2
  <2> QED BY <2>1, <2>2, <2>3, BeginFacts DEF L
<1>9. ASSUME NEW i \in Begins(s) PROVE \E n \in 1..m : i = t[n]
  <2>1. i \in 1..L /\ s[i] # Blank /\ (i > 1 => s[i - 1] = Blank)
    BY BeginFacts DEF L
  <2> DEFINE T == {k \in Nat : k >= 1 /\ t[k] > i}
  <2>2. m + 1 \in T
    BY <1>1, <1>4, <2>1
  <2>3. PICK k \in T : \A y \in T : k <= y
    <3>1. T \subseteq Nat /\ T # {}
      BY <2>2
    <3> HIDE DEF T
    <3> QED BY <3>1, Least
  <2>4. k \in Nat /\ k >= 1 /\ t[k] > i /\ k # 1 /\ k <= m + 1
    BY <1>1, <2>1, <2>2, <2>3
  <2> DEFINE n == k - 1
             e == EndOfWord(s, t[n])
  <2>5. n \in Nat /\ n >= 1 /\ n + 1 = k /\ n \in 1..m
    BY <1>4, <2>4
  <2>6. n \notin T
    BY <2>3, <2>5
  <2>7. t[n] <= i /\ i < t[n + 1] /\ t[n] \in 1..L + 1
    BY <1>1, <2>1, <2>4, <2>5, <2>6
  <2>8. /\ e \in t[n]..t[n + 1] /\ t[n + 1] \in 1..L + 1
        /\ \A j \in t[n]..e - 1 : s[j] # Blank
        /\ \A j \in e..t[n + 1] - 1 : s[j] = Blank
    BY <1>1, <2>5, OneTurn DEF t, L
  <2> HIDE DEF n, e, T, L, t
  <2>9a. t[n] \in Nat /\ t[n] >= 1
    BY <1>1, <2>7
  <2>9b. t[n + 1] \in Nat
    BY <1>1, <2>8
  <2>9c. e \in Nat /\ i \in Nat
    <3>1. e \in t[n]..t[n + 1] /\ i \in 1..L /\ L \in Nat
      BY <1>1, <2>1, <2>8
    <3> DEFINE x == t[n]
               y == t[n + 1]
    <3>2. x \in Nat /\ y \in Nat /\ e \in x..y
      BY <2>9a, <2>9b, <3>1
    <3> HIDE DEF x, y
    <3> QED BY <3>1, <3>2
  <2>9. i < e
    <3> SUFFICES ASSUME e <= i PROVE FALSE
      BY <2>9c
    <3>1. i \in e..t[n + 1] - 1
      <4> DEFINE y == t[n + 1]
      <4>1. y \in Nat /\ i < y
        BY <2>7, <2>9b
      <4> HIDE DEF y
      <4>2. i \in e..y - 1
        BY <2>9c, <4>1
      <4> QED BY <4>2 DEF y
    <3> QED BY <2>1, <2>8, <3>1
  <2>10. i = t[n]
    <3> SUFFICES ASSUME i # t[n] PROVE FALSE
      OBVIOUS
    <3> DEFINE x == t[n]
    <3>1. x \in Nat /\ x >= 1 /\ e \in Nat /\ i \in Nat
      BY <2>9a, <2>9c
    <3>2. x <= i /\ x # i /\ i < e
      BY <2>7, <2>9
    <3> HIDE DEF x
    <3>3. i - 1 \in x..e - 1 /\ i > 1
      BY <3>1, <3>2
    <3>4. i - 1 \in t[n]..e - 1 /\ i > 1
      BY <3>3 DEF x
    <3> QED BY <2>1, <2>8, <3>4
  <2> QED BY <2>5, <2>10
<1>10. Begins(s) = {t[n] : n \in 1..m}
  BY <1>8, <1>9
<1>11. Covers(s, m)
  BY <1>6, <1>7, <1>10 DEF Covers, t, L
<1> QED BY <1>1, <1>4, <1>11 DEF L

\* What the loops over a string without leading blanks find.
LEMMA WordsAre ==
    ASSUME NEW S, NEW s \in Seq(S), NEW m \in 0..Len(s), Covers(s, m)
    PROVE  /\ Words(s) = [n \in 1..m |-> SubSeq(s, Turn(s)[n], EndOfWord(s, Turn(s)[n]) - 1)]
           /\ Len(Words(s)) = m
<1> DEFINE a == [n \in 1..m |-> Turn(s)[n]]
<1>1. m \in Nat
  <2>1. Len(s) \in Nat
    BY LenProperties
  <2> QED BY <2>1
<1>2. a \in [1..m -> Nat]
  <2>1. \A n \in 1..m : n \in Nat
    BY <1>1
  <2>2. \A n \in 1..m : Turn(s)[n] \in Nat
    BY <2>1, TurnPlaces, Zenon
  <2> QED BY <2>2
<1>3. \A i, j \in 1..m : i < j => a[i] < a[j]
  BY DEF Covers
<1>4. Begins(s) = {a[n] : n \in 1..m}
  BY DEF Covers
<1>5. \A n \in 1..m : a[n] = Turn(s)[n]
  OBVIOUS
<1> HIDE DEF a
<1>6. Words(s) = [n \in 1..m |-> WordFrom(s, a[n])]
  BY <1>1, <1>2, <1>3, <1>4, Enumerated
<1>7. \A n \in 1..m : WordFrom(s, a[n]) = SubSeq(s, Turn(s)[n], EndOfWord(s, Turn(s)[n]) - 1)
  BY <1>4, <1>5, BeginFacts
<1>8. Len(Words(s)) = m
  BY <1>1, <1>6
<1> QED BY <1>6, <1>7, <1>8

\* How many of them, when the loop has room for max.
LEMMA TurnsAre ==
    ASSUME NEW s, NEW m \in Nat, Covers(s, m), NEW max \in Nat
    PROVE  Turns(s, max) = IF m <= max THEN m ELSE max
<1> DEFINE b == IF m <= max THEN m ELSE max
<1>1. b \in Nat
  OBVIOUS
<1>2. {n \in 1..max : Turn(s)[n] <= Len(s)} = 1..b
  <2>1. \A n \in 1..max : Turn(s)[n] <= Len(s) <=> n <= m
    BY DEF Covers
  <2>2. \A n \in 1..max : n <= m <=> n \in 1..b
    OBVIOUS
  <2>3. \A n \in 1..b : n \in 1..max
    OBVIOUS
  <2> HIDE DEF b
  <2> QED BY <2>1, <2>2, <2>3
<1> HIDE DEF b
<1>3. Cardinality(1..b) = b
  BY <1>1, FS_Interval
<1> QED BY <1>2, <1>3 DEF Turns, b

\* build_argv() finds the words of its argument, in order, and counts them, as
\* long as there are no more than it has room for.
THEOREM BuildArgvFindsWords ==
    ASSUME NEW S, NEW s \in Seq(S), Solid(s), NEW max \in Nat, Len(Words(s)) <= max
    PROVE  /\ build_argv(s, max).argv = Words(s)
           /\ build_argv(s, max).argc = Len(Words(s))
<1>1. PICK m \in 0..Len(s) : Covers(s, m)
  BY Covered
<1>2. /\ Words(s) = [n \in 1..m |-> SubSeq(s, Turn(s)[n], EndOfWord(s, Turn(s)[n]) - 1)]
      /\ Len(Words(s)) = m
  BY <1>1, WordsAre
<1>3. m \in Nat /\ Len(s) \in Nat
  BY LenProperties
<1>4. Turns(s, max) = m
  BY <1>1, <1>2, <1>3, TurnsAre
<1>5. ~(Turn(s)[m + 1] <= Len(s))
  BY <1>1, <1>3 DEF Covers
<1> QED BY <1>2, <1>4, <1>5 DEF build_argv

\* With more words than it has room for, build_argv() keeps the first of them and
\* returns one more than it has stored (MAX_ARGV): free_argv() is told of an
\* entry behind the last.
THEOREM BuildArgvRunsOut ==
    ASSUME NEW S, NEW s \in Seq(S), Solid(s), NEW max \in Nat, Len(Words(s)) > max
    PROVE  /\ build_argv(s, max).argv = [n \in 1..max |-> Words(s)[n]]
           /\ build_argv(s, max).argc = max + 1
<1>1. PICK m \in 0..Len(s) : Covers(s, m)
  BY Covered
<1>2. /\ Words(s) = [n \in 1..m |-> SubSeq(s, Turn(s)[n], EndOfWord(s, Turn(s)[n]) - 1)]
      /\ Len(Words(s)) = m
  BY <1>1, WordsAre
<1>3. m \in Nat /\ Len(s) \in Nat
  BY LenProperties
<1>4. Turns(s, max) = max
  <2>1. ~(m <= max)
    BY <1>2, <1>3
  <2> QED BY <1>1, <1>3, <2>1, TurnsAre
<1>5. Turn(s)[max + 1] <= Len(s)
  BY <1>1, <1>2, <1>3 DEF Covers
<1>6. \A n \in 1..max : n \in 1..m
  BY <1>2, <1>3
<1>7. \A n \in 1..max :
          Words(s)[n] = SubSeq(s, Turn(s)[n], EndOfWord(s, Turn(s)[n]) - 1)
  BY <1>2, <1>6
<1> QED BY <1>4, <1>5, <1>7 DEF build_argv

\* A part of a string that begins with blanks is what follows them, behind them.
LEMMA BehindPart ==
    ASSUME NEW S, NEW s \in Seq(S), NEW a \in Nat, NEW p \in Nat, NEW f \in Nat,
           1 <= a, a <= p, p <= f, f <= Len(s),
           \A k \in a..p - 1 : s[k] = Blank
    PROVE  SubSeq(s, a, f) = Behind(p - a, SubSeq(s, p, f))
<1> DEFINE e == SubSeq(s, a, f)
           w == SubSeq(s, p, f)
           d == p - a
<1>1. Len(s) \in Nat
  BY LenProperties
<1>2. /\ Len(e) = f - a + 1 /\ \A k \in 1..f - a + 1 : e[k] = s[a + k - 1]
      /\ e = [k \in 1..Len(e) |-> e[k]]
  <2>1. \A k \in a..f : s[k] \in S
    BY <1>1, ElementOfSeq
  <2> QED BY <2>1, SubSeqProperties
<1>3. Len(w) = f - p + 1 /\ \A k \in 1..f - p + 1 : w[k] = s[p + k - 1]
  <2>1. \A k \in p..f : s[k] \in S
    BY <1>1, ElementOfSeq
  <2> QED BY <2>1, SubSeqProperties
<1> HIDE DEF e, w
<1>4. d \in Nat /\ d + Len(w) = Len(e)
  BY <1>2, <1>3
<1>5. ASSUME NEW k \in 1..Len(e) PROVE e[k] = IF k <= d THEN Blank ELSE w[k - d]
  <2>1. k \in Nat /\ k >= 1 /\ k <= f - a + 1 /\ e[k] = s[a + k - 1]
    BY <1>2
  <2>2. CASE k <= d
    <3>1. a + k - 1 \in a..p - 1
      BY <2>1, <2>2
    <3> QED BY <2>1, <2>2, <3>1
  <2>3. CASE ~(k <= d)
    <3>1. k - d \in 1..f - p + 1 /\ p + (k - d) - 1 = a + k - 1
      BY <2>1, <2>3
    <3> HIDE DEF d
    <3> QED BY <1>3, <2>1, <2>3, <3>1
  <2> QED BY <2>2, <2>3
<1> HIDE DEF d
<1>6. e = Behind(d, w)
  BY <1>2, <1>4, <1>5 DEF Behind
<1> QED BY <1>6 DEF d, e, w

\* fix_cmd_arg() finds the words of its argument, in order: each behind nothing
\* but blanks, and behind none where no two blanks follow each other.  It puts
\* "host:" before what, with these blanks, is the name of a regular file.
THEOREM FixCmdArgFindsWords ==
    ASSUME NEW S, NEW s \in Seq(S), Solid(s)
    PROVE  /\ Len(fix_cmd_arg(s)) = Len(Words(s))
           /\ \A k \in 1..Len(Words(s)) :
                \E n \in 0..Len(s) :
                   /\ fix_cmd_arg(s)[k] = Hosted(Behind(n, Words(s)[k]))
                   /\ n > 0 => DoubleBlank(s)
<1> DEFINE t == Turn(s)
           L == Len(s)
           End(n) == EndOfWord(s, t[n])
           ai(n) == IF n = 1 THEN 1 ELSE NextStart(End(n - 1))
<1>1. PICK m \in 0..Len(s) : Covers(s, m)
  BY Covered
<1>2. L \in Nat /\ m \in Nat /\ m <= L
  BY LenProperties
<1>3. Words(s) = [n \in 1..m |-> SubSeq(s, t[n], End(n) - 1)] /\ Len(Words(s)) = m
  BY <1>1, WordsAre
<1>4. Turns(s, L) = m
  BY <1>1, <1>2, TurnsAre
<1>5. fix_cmd_arg(s) = [n \in 1..m |-> Hosted(SubSeq(s, ai(n), End(n) - 1))]
  BY <1>4 DEF fix_cmd_arg
<1>6. ASSUME NEW n \in Nat, n >= 1, n <= m
      PROVE  /\ t[n] \in Nat /\ t[n] >= 1 /\ t[n] <= L
             /\ End(n) \in Nat /\ t[n] < End(n) /\ End(n) <= L + 1
  <2>1. t[n] \in Nat /\ t[n] \in 1..L + 1
    BY TurnPlaces
  <2>2. t[n] <= L
    BY <1>1, <1>6 DEF Covers
  <2>3. t[n] < End(n) /\ t[n + 1] \in t[n]..L + 1 /\ End(n) \in t[n]..t[n + 1]
    BY <1>6, <2>2, OneTurn
  <2>4. t[n + 1] \in Nat /\ t[n + 1] <= L + 1
    BY <1>2, <2>1, <2>3
  <2> HIDE DEF End
  <2> QED BY <1>2, <2>1, <2>2, <2>3, <2>4
<1>7. ASSUME NEW n \in Nat, n >= 1, n <= m
      PROVE  /\ ai(n) \in Nat /\ 1 <= ai(n) /\ ai(n) <= t[n]
             /\ \A k \in ai(n)..t[n] - 1 : s[k] = Blank
             /\ ai(n) # t[n] => DoubleBlank(s)
  <2>1. CASE n = 1
    <3>1. ai(n) = 1 /\ t[n] = 1
      BY <2>1, TurnFacts
    <3> QED BY <3>1
  <2>2. CASE n # 1
    <3>1. n - 1 \in Nat /\ n - 1 >= 1 /\ n - 1 <= m /\ (n - 1) + 1 = n
      BY <1>2, <1>7, <2>2
    <3> DEFINE e == End(n - 1)
               q == t[n]
    <3>2. t[n - 1] \in Nat /\ e \in Nat /\ t[n - 1] < e /\ q \in Nat /\ q >= 1 /\ q <= L
      BY <1>6, <1>7, <3>1
    <3>3. /\ e \in t[n - 1]..q /\ s[q - 1] = Blank
          /\ \A k \in t[n - 1]..e - 1 : s[k] # Blank
          /\ \A k \in e..q - 1 : s[k] = Blank
      <4> DEFINE d == n - 1
      <4>1. d \in Nat /\ d >= 1 /\ d + 1 = n
        BY <3>1
      <4> HIDE DEF d
      <4>2. /\ EndOfWord(s, Turn(s)[d]) \in Turn(s)[d]..Turn(s)[d + 1]
            /\ \A k \in Turn(s)[d]..EndOfWord(s, Turn(s)[d]) - 1 : s[k] # Blank
            /\ \A k \in EndOfWord(s, Turn(s)[d])..Turn(s)[d + 1] - 1 : s[k] = Blank
            /\ Turn(s)[d + 1] <= Len(s) => s[Turn(s)[d + 1] - 1] = Blank
        BY <4>1, OneTurn
      <4> QED BY <3>2, <4>1, <4>2 DEF d
    <3>4. ai(n) = e + 1
      BY <2>2 DEF NextStart
    <3> HIDE DEF e, q
    <3>5. e # q
      <4> SUFFICES ASSUME e = q PROVE FALSE
        OBVIOUS
      <4>1. q - 1 \in t[n - 1]..e - 1
        BY <3>2
      <4> QED BY <3>3, <4>1
    <3>6. e + 1 <= q
      BY <3>2, <3>3, <3>5
    <3>7. \A k \in e + 1..q - 1 : s[k] = Blank
      BY <3>2, <3>3
    <3>8. e + 1 # q => DoubleBlank(s)
      <4> SUFFICES ASSUME e + 1 # q PROVE DoubleBlank(s)
        OBVIOUS
      <4>1. e \in e..q - 1 /\ e + 1 \in e..q - 1 /\ e \in 1..L - 1
        BY <1>2, <3>2, <3>6
      <4> QED BY <3>3, <4>1 DEF DoubleBlank
    <3>9. /\ e + 1 \in Nat /\ 1 <= e + 1
      BY <3>2
    <3> QED BY <3>4, <3>6, <3>7, <3>8, <3>9 DEF q
  <2> QED BY <2>1, <2>2
<1> HIDE DEF End, ai, t
<1>8. ASSUME NEW n \in 1..m
      PROVE  \E d \in 0..L : /\ fix_cmd_arg(s)[n] = Hosted(Behind(d, Words(s)[n]))
                             /\ d > 0 => DoubleBlank(s)
  <2>1. n \in Nat /\ n >= 1 /\ n <= m
    BY <1>2
  <2> DEFINE p == t[n]
             a == ai(n)
             f == End(n) - 1
  <2>2. /\ p \in Nat /\ p <= f /\ f \in Nat /\ f <= L
    BY <1>2, <1>6, <2>1
  <2>3. /\ a \in Nat /\ 1 <= a /\ a <= p /\ \A k \in a..p - 1 : s[k] = Blank
        /\ a # p => DoubleBlank(s)
    BY <1>7, <2>1
  <2>4. fix_cmd_arg(s)[n] = Hosted(SubSeq(s, a, f)) /\ Words(s)[n] = SubSeq(s, p, f)
    BY <1>3, <1>5
  <2> HIDE DEF a, p, f
  <2>5. SubSeq(s, a, f) = Behind(p - a, SubSeq(s, p, f))
    BY <2>2, <2>3, BehindPart
  <2>6. p - a \in 0..L /\ (p - a > 0 => DoubleBlank(s))
    BY <1>2, <2>2, <2>3
  <2> QED BY <2>4, <2>5, <2>6
<1>9. Len(fix_cmd_arg(s)) = m
  <2> HIDE DEF L
  <2> QED BY <1>2, <1>5
<1> QED BY <1>3, <1>8, <1>9

-----------------------------------------------------------------------------
(* Parts of a string.                                                      *)

\* There is one end of a word.
LEMMA EndUnique ==
    ASSUME NEW S, NEW s \in Seq(S), NEW p \in 1..Len(s) + 1, NEW q \in p..Len(s) + 1,
           \A k \in p..q - 1 : s[k] # Blank, q <= Len(s) => s[q] = Blank
    PROVE  EndOfWord(s, p) = q
<1> DEFINE e == EndOfWord(s, p)
<1>1. Len(s) \in Nat
  BY LenProperties
<1>2. /\ e \in p..Len(s) + 1 /\ \A k \in p..e - 1 : s[k] # Blank
      /\ e <= Len(s) => s[e] = Blank
  BY EndFacts
<1> HIDE DEF e
<1>3. ~(e < q)
  <2> SUFFICES ASSUME e < q PROVE FALSE
    OBVIOUS
  <2>1. e \in p..q - 1 /\ e <= Len(s)
    BY <1>1, <1>2
  <2> QED BY <1>2, <2>1
<1>4. ~(q < e)
  <2> SUFFICES ASSUME q < e PROVE FALSE
    OBVIOUS
  <2>1. q \in p..e - 1 /\ q <= Len(s)
    BY <1>1, <1>2
  <2> QED BY <1>2, <2>1
<1>5. e = q
  BY <1>1, <1>2, <1>3, <1>4
<1> QED BY <1>5 DEF e

\* r is the part of s from c + 1 on, up to a blank or the end.
PartOf(r, s, c) ==
    /\ c + Len(r) <= Len(s)
    /\ \A k \in 1..Len(r) : r[k] = s[c + k]
    /\ c + Len(r) < Len(s) => s[c + Len(r) + 1] = Blank

\* Its words are words of s.
LEMMA WordOfPart ==
    ASSUME NEW S, NEW s \in Seq(S), NEW r \in Seq(S), NEW c \in Nat, PartOf(r, s, c),
           NEW i \in Begins(r), c + i \in Begins(s)
    PROVE  WordFrom(s, c + i) = WordFrom(r, i)
<1> DEFINE e == EndOfWord(r, i)
<1>1. /\ Len(s) \in Nat /\ Len(r) \in Nat /\ c + Len(r) <= Len(s)
      /\ \A k \in 1..Len(r) : r[k] = s[c + k]
      /\ c + Len(r) < Len(s) => s[c + Len(r) + 1] = Blank
  BY LenProperties DEF PartOf
<1>2. i \in 1..Len(r) /\ r[i] # Blank
  BY BeginFacts
<1>3. i \in Nat /\ i >= 1 /\ i <= Len(r)
  BY <1>1, <1>2
<1>4. /\ e \in i..Len(r) + 1 /\ \A k \in i..e - 1 : r[k] # Blank
      /\ e <= Len(r) => r[e] = Blank
  BY <1>1, <1>3, EndFacts
<1>5. WordFrom(r, i) = SubSeq(r, i, e - 1)
  BY BeginFacts
<1> HIDE DEF e
<1>6. e \in Nat /\ e >= i /\ e <= Len(r) + 1
  BY <1>1, <1>3, <1>4
<1>7. EndOfWord(s, c + i) = c + e
  <2>1. c + i \in 1..Len(s) + 1 /\ c + e \in c + i..Len(s) + 1
    BY <1>1, <1>3, <1>6
  <2>2. ASSUME NEW k \in c + i..(c + e) - 1 PROVE s[k] # Blank
    <3>1. k - c \in i..e - 1 /\ k - c \in 1..Len(r) /\ c + (k - c) = k
      BY <1>1, <1>3, <1>6
    <3> QED BY <1>1, <1>4, <3>1
  <2>3. ASSUME c + e <= Len(s) PROVE s[c + e] = Blank
    <3>1. CASE e <= Len(r)
      <4>1. e \in 1..Len(r)
        BY <1>1, <1>3, <1>6, <3>1
      <4> QED BY <1>1, <1>4, <3>1, <4>1
    <3>2. CASE ~(e <= Len(r))
      <4>1. e = Len(r) + 1 /\ c + Len(r) < Len(s) /\ c + e = c + Len(r) + 1
        BY <1>1, <1>6, <2>3, <3>2
      <4> QED BY <1>1, <4>1
    <3> QED BY <3>1, <3>2
  <2> QED BY <2>1, <2>2, <2>3, EndUnique
<1>8. WordFrom(s, c + i) = SubSeq(s, c + i, (c + e) - 1)
  BY <1>7, BeginFacts
<1> DEFINE v == SubSeq(s, c + i, (c + e) - 1)
           w == SubSeq(r, i, e - 1)
<1>9. /\ v \in Seq(S) /\ Len(v) = e - i
      /\ \A k \in 1..e - i : v[k] = s[(c + i) + k - 1]
  <2>1. c + i \in Int /\ (c + e) - 1 \in Int /\ ((c + e) - 1) - (c + i) + 1 = e - i
    BY <1>3, <1>6
  <2>2. \A k \in c + i..(c + e) - 1 : s[k] \in S
    BY <1>1, <1>3, <1>6, ElementOfSeq
  <2>3. /\ v \in Seq(S)
        /\ Len(v) = IF c + i <= (c + e) - 1 THEN ((c + e) - 1) - (c + i) + 1 ELSE 0
        /\ \A k \in 1..((c + e) - 1) - (c + i) + 1 : v[k] = s[(c + i) + k - 1]
    BY <2>1, <2>2, SubSeqProperties
  <2> HIDE DEF v
  <2> QED BY <1>3, <1>6, <2>1, <2>3
<1>10. w \in Seq(S) /\ Len(w) = e - i /\ \A k \in 1..e - i : w[k] = r[i + k - 1]
  <2>1. i \in Int /\ e - 1 \in Int /\ (e - 1) - i + 1 = e - i
    BY <1>3, <1>6
  <2>2. \A k \in i..e - 1 : r[k] \in S
    BY <1>1, <1>3, <1>6, ElementOfSeq
  <2>3. /\ w \in Seq(S)
        /\ Len(w) = IF i <= e - 1 THEN (e - 1) - i + 1 ELSE 0
        /\ \A k \in 1..(e - 1) - i + 1 : w[k] = r[i + k - 1]
    BY <2>1, <2>2, SubSeqProperties
  <2> HIDE DEF w
  <2> QED BY <1>3, <1>6, <2>1, <2>3
<1> HIDE DEF v, w
<1>11. ASSUME NEW k \in 1..e - i PROVE v[k] = w[k]
  <2>1. i + k - 1 \in 1..Len(r) /\ c + (i + k - 1) = (c + i) + k - 1
    BY <1>1, <1>3, <1>6
  <2> QED BY <1>1, <1>9, <1>10, <2>1
<1>12. v = w
  BY <1>9, <1>10, <1>11, SeqEqual
<1> QED BY <1>5, <1>8, <1>12 DEF v, w

\* Two strings with words at the same places have the same list of words, as
\* soon as one of them is a part of the other.
LEMMA SameWords ==
    ASSUME NEW S, NEW s \in Seq(S), NEW r \in Seq(S), Solid(s), PartOf(r, s, 0),
           Begins(r) = Begins(s)
    PROVE  Words(r) = Words(s)
<1>1. PICK m \in 0..Len(s) : Covers(s, m)
  BY Covered
<1>2. m \in Nat
  BY LenProperties
<1> DEFINE a == [n \in 1..m |-> Turn(s)[n]]
<1>3. a \in [1..m -> Nat]
  <2>1. \A n \in 1..m : n \in Nat
    BY <1>2
  <2>2. \A n \in 1..m : Turn(s)[n] \in Nat
    BY <2>1, TurnPlaces, Zenon
  <2> QED BY <2>2
<1>4. (\A i, j \in 1..m : i < j => a[i] < a[j]) /\ Begins(s) = {a[n] : n \in 1..m}
  BY <1>1 DEF Covers
<1> HIDE DEF a
<1>5. Words(s) = [n \in 1..m |-> WordFrom(s, a[n])]
  BY <1>2, <1>3, <1>4, Enumerated
<1>6. Begins(r) = {a[n] : n \in 1..m}
  BY <1>4
<1>7. Words(r) = [n \in 1..m |-> WordFrom(r, a[n])]
  BY <1>2, <1>3, <1>4, <1>6, Enumerated
<1>8. ASSUME NEW n \in 1..m PROVE WordFrom(s, a[n]) = WordFrom(r, a[n])
  <2>1. a[n] \in Begins(r) /\ a[n] \in Nat
    BY <1>3, <1>6
  <2>2. 0 + a[n] \in Begins(s) /\ 0 + a[n] = a[n]
    BY <1>4, <2>1
  <2>3. WordFrom(s, 0 + a[n]) = WordFrom(r, a[n])
    BY <2>1, <2>2, WordOfPart
  <2> QED BY <2>2, <2>3
<1> QED BY <1>5, <1>7, <1>8

\* Where trim() ends a string without leading blanks: behind its last word.
LEMMA TrimEnds ==
    ASSUME NEW S, NEW s \in Seq(S), Solid(s)
    PROVE  \E z \in 0..Len(s) : /\ trim(s) = SubSeq(s, 1, z)
                                /\ \A k \in z + 1..Len(s) : s[k] = Blank
                                /\ z >= 1 => s[z] # Blank
<1> DEFINE L == Len(s)
           r == Reverse(s)
           x == NextWord(r, 1)
           z == L - (x - 1)
<1>1. L \in Nat
  BY LenProperties
<1>2. r \in Seq(S) /\ Len(r) = L /\ \A k \in 1..L : r[k] = s[(L - k) + 1]
  <2>1. r = [k \in 1..L |-> s[(L - k) + 1]]
    BY DEF Reverse
  <2>2. \A k \in 1..L : s[(L - k) + 1] \in S
    <3>1. \A k \in 1..L : (L - k) + 1 \in 1..L
      BY <1>1
    <3> QED BY <3>1, ElementOfSeq
  <2> HIDE DEF L, r
  <2> QED BY <1>1, <2>1, <2>2, IsASeq
<1> HIDE DEF L, r
<1>3. /\ x \in 1..L + 1 /\ \A k \in 1..x - 1 : r[k] = Blank
      /\ x <= L => r[x] # Blank
  <2>1. 1 \in 1..Len(r) + 1
    BY <1>1, <1>2
  <2> QED BY <1>2, <2>1, NextFacts
<1> HIDE DEF x
<1>4. z \in 0..L /\ x \in Nat /\ x >= 1
  BY <1>1, <1>3
<1>5. ASSUME NEW k \in z + 1..L PROVE s[k] = Blank
  <2>1. (L - k) + 1 \in 1..x - 1 /\ (L - k) + 1 \in 1..L /\ (L - ((L - k) + 1)) + 1 = k
    BY <1>1, <1>4
  <2> QED BY <1>2, <1>3, <2>1
<1>6. ASSUME z >= 1 PROVE s[z] # Blank
  <2>1. x \in 1..L /\ (L - x) + 1 = z
    BY <1>1, <1>3, <1>4, <1>6
  <2> QED BY <1>2, <1>3, <2>1
<1>7. NextWord(s, 1) = 1
  <2> DEFINE y == NextWord(s, 1)
  <2>1. y \in 1..L + 1 /\ \A k \in 1..y - 1 : s[k] = Blank
    <3>1. 1 \in 1..L + 1
      BY <1>1
    <3> QED BY <3>1, NextFacts DEF L
  <2> HIDE DEF y
  <2>2. y = 1
    <3> SUFFICES ASSUME y # 1 PROVE FALSE
      OBVIOUS
    <3>1. 1 \in 1..y - 1 /\ L # 0
      BY <1>1, <2>1
    <3>2. s # <<>>
      BY <3>1, EmptySeq DEF L
    <3> QED BY <2>1, <3>1, <3>2 DEF Solid
  <2> QED BY <2>2 DEF y
<1>8. Min({(1 - 1) + z, L}) = z
  <2>1. (1 - 1) + z = z /\ z <= L /\ z <= z /\ z \in Nat
    BY <1>1, <1>4
  <2> HIDE DEF z
  <2>2. z \in {z, L} /\ \A y \in {z, L} : z <= y
    BY <2>1
  <2>3. \A v \in {z, L} : (\A y \in {z, L} : v <= y) => v = z
    BY <1>1, <2>1
  <2> QED BY <2>1, <2>2, <2>3 DEF Min
<1>9. trim(s) = SubSeq(s, 1, z)
  <2>1. trim(s) = SubSeq(s, 1, Min({(NextWord(s, 1) - 1) + z, L}))
    BY DEF trim, L, r, x
  <2> HIDE DEF z
  <2> QED BY <1>7, <1>8, <2>1
<1> HIDE DEF z
<1> QED BY <1>4, <1>5, <1>6, <1>9 DEF L

\* trim() takes the trailing blanks of an argument, and no word of it.
THEOREM TrimKeepsWords ==
    ASSUME NEW S, NEW s \in Seq(S), Solid(s)
    PROVE  ~EndsInBlank(trim(s)) /\ Words(trim(s)) = Words(s)
<1> DEFINE L == Len(s)
           r == trim(s)
<1>1. L \in Nat
  BY LenProperties
<1>2. PICK z \in 0..L : /\ r = SubSeq(s, 1, z)
                        /\ \A k \in z + 1..L : s[k] = Blank
                        /\ z >= 1 => s[z] # Blank
  BY TrimEnds
<1>3. z \in Nat /\ z <= L
  BY <1>1
<1>4. r \in Seq(S) /\ Len(r) = z /\ \A k \in 1..z : r[k] = s[k]
  <2>1. \A k \in 1..z : s[k] \in S
    BY <1>1, <1>3, ElementOfSeq
  <2>2. /\ SubSeq(s, 1, z) \in Seq(S)
        /\ Len(SubSeq(s, 1, z)) = IF 1 <= z THEN z - 1 + 1 ELSE 0
        /\ \A k \in 1..z - 1 + 1 : SubSeq(s, 1, z)[k] = s[1 + k - 1]
    BY <1>3, <2>1, SubSeqProperties
  <2> QED BY <1>2, <1>3, <2>2
<1> HIDE DEF r, L
<1>5. ~EndsInBlank(r)
  <2> SUFFICES ASSUME r # <<>> PROVE r[Len(r)] # Blank
    BY DEF EndsInBlank
  <2>1. z >= 1
    BY <1>3, <1>4, EmptySeq
  <2>2. z \in 1..z
    BY <1>3, <2>1
  <2> QED BY <1>2, <1>4, <2>1, <2>2
<1>6. PartOf(r, s, 0)
  <2>1. 0 + z <= L /\ \A k \in 1..z : 0 + k = k
    BY <1>3
  <2>2. 0 + z < L => z + 1 \in z + 1..L /\ 0 + z + 1 = z + 1
    BY <1>1, <1>3
  <2> QED BY <1>2, <1>4, <2>1, <2>2 DEF PartOf, L
<1>7. Begins(r) = Begins(s)
  <2>1. /\ Begins(s) = {i \in 1..L : s[i] # Blank /\ (i > 1 => s[i - 1] = Blank)}
        /\ Begins(r) = {i \in 1..z : r[i] # Blank /\ (i > 1 => r[i - 1] = Blank)}
    BY <1>4, BeginFacts DEF L
  <2>2. ASSUME NEW i \in 1..L, s[i] # Blank PROVE i \in 1..z
    <3>1. i \notin z + 1..L
      BY <1>2, <2>2
    <3> QED BY <1>1, <1>3, <3>1
  <2>3. ASSUME NEW i \in 1..z
        PROVE  i \in 1..L /\ s[i] = r[i] /\ (i > 1 => r[i - 1] = s[i - 1])
    <3>1. i > 1 => i - 1 \in 1..z
      BY <1>3
    <3> QED BY <1>1, <1>3, <1>4, <3>1
  <2> QED BY <2>1, <2>2, <2>3
<1>8. Words(r) = Words(s)
  BY <1>4, <1>6, <1>7, SameWords
<1> QED BY <1>5, <1>8 DEF r

-----------------------------------------------------------------------------
(* A line.                                                                 *)

\* Where execute_line() cuts a line: the first word is b..e-1, its arguments
\* begin at q.
Cut(s, b, e, q) ==
    /\ b \in Nat /\ e \in Nat /\ q \in Nat
    /\ 1 <= b /\ b <= e /\ e <= q /\ q <= Len(s) + 1
    /\ \A k \in 1..b - 1 : s[k] = Blank
    /\ \A k \in b..e - 1 : s[k] # Blank
    /\ \A k \in e..q - 1 : s[k] = Blank
    /\ b <= Len(s) => s[b] # Blank /\ b < e
    /\ q <= Len(s) => s[q] # Blank /\ e < q

LEMMA CutFacts ==
    ASSUME NEW S, NEW s \in Seq(S),
           NEW b, b = NextWord(s, 1), NEW e, e = EndOfWord(s, b), NEW q, q = NextWord(s, e)
    PROVE  Cut(s, b, e, q)
<1> DEFINE L == Len(s)
<1>1. L \in Nat /\ 1 \in 1..L + 1
  BY LenProperties
<1>3. /\ b \in 1..L + 1 /\ \A k \in 1..b - 1 : s[k] = Blank
      /\ b <= L => s[b] # Blank
  BY <1>1, NextFacts
<1>4. /\ e \in b..L + 1 /\ \A k \in b..e - 1 : s[k] # Blank
      /\ e <= L => s[e] = Blank
  BY <1>3, EndFacts
<1>6. e \in 1..L + 1
  BY <1>1, <1>3, <1>4
<1>7. /\ q \in e..L + 1 /\ \A k \in e..q - 1 : s[k] = Blank
      /\ q <= L => s[q] # Blank
  BY <1>6, NextFacts
<1>8. b <= L => b # e
  BY <1>3, <1>4
<1>9. q <= L => e # q
  BY <1>4, <1>7
<1> HIDE DEF L
<1>10. /\ b \in Nat /\ e \in Nat /\ q \in Nat
       /\ 1 <= b /\ b <= e /\ e <= q /\ q <= L + 1
       /\ (b <= L => b < e) /\ (q <= L => e < q)
  BY <1>1, <1>3, <1>4, <1>6, <1>7, <1>8, <1>9
<1>11. Cut(s, b, e, q)
  BY <1>3, <1>4, <1>7, <1>10 DEF Cut, L
<1> QED BY <1>11

\* The arguments of a command, as a part of its line.
LEMMA ArgFacts ==
    ASSUME NEW S, NEW s \in Seq(S), NEW b, NEW e, NEW q, Cut(s, b, e, q)
    PROVE  /\ From(s, q) \in Seq(S) /\ Len(From(s, q)) = Len(s) - (q - 1)
           /\ \A k \in 1..Len(From(s, q)) : From(s, q)[k] = s[(q - 1) + k]
           /\ Solid(From(s, q)) /\ PartOf(From(s, q), s, q - 1)
<1> DEFINE L == Len(s)
           r == SubSeq(s, q, L)
<1>1. L \in Nat /\ q \in Nat /\ 1 <= q /\ q <= L + 1 /\ (q <= L => s[q] # Blank)
  BY LenProperties DEF Cut
<1>2. \A k \in q..L : s[k] \in S
  BY <1>1, ElementOfSeq
<1>3. /\ r \in Seq(S) /\ Len(r) = IF q <= L THEN L - q + 1 ELSE 0
      /\ \A k \in 1..L - q + 1 : r[k] = s[q + k - 1]
  BY <1>1, <1>2, SubSeqProperties
<1> HIDE DEF r, L
<1>4. Len(r) = L - (q - 1)
  BY <1>1, <1>3
<1>5. \A k \in 1..Len(r) : r[k] = s[(q - 1) + k]
  <2>1. \A k \in 1..Len(r) : k \in 1..L - q + 1 /\ q + k - 1 = (q - 1) + k
    BY <1>1, <1>4
  <2> QED BY <1>3, <2>1
<1>6. Solid(r)
  <2> SUFFICES ASSUME r # <<>> PROVE r[1] # Blank
    BY DEF Solid
  <2>1. Len(r) \in Nat /\ Len(r) # 0
    BY <1>3, EmptySeq
  <2>2. q <= L /\ 1 \in 1..Len(r) /\ (q - 1) + 1 = q
    BY <1>1, <1>4, <2>1
  <2> QED BY <1>1, <1>5, <2>2
<1>7. PartOf(r, s, q - 1)
  <2>1. (q - 1) + Len(r) = L
    BY <1>1, <1>4
  <2> QED BY <1>1, <1>5, <2>1 DEF PartOf, L
<1> QED BY <1>3, <1>4, <1>5, <1>6, <1>7 DEF r, L, From

\* A word of a line is the first, or a word of the arguments.
LEMMA BeginsOfLine ==
    ASSUME NEW S, NEW s \in Seq(S), NEW b, NEW e, NEW q, Cut(s, b, e, q), b <= Len(s)
    PROVE  Begins(s) = {b} \cup {(q - 1) + i : i \in Begins(From(s, q))}
<1> DEFINE L == Len(s)
           r == From(s, q)
           M == Len(r)
           c == q - 1
<1>1. /\ b \in Nat /\ e \in Nat /\ q \in Nat /\ L \in Nat
      /\ 1 <= b /\ b < e /\ e <= q /\ q <= L + 1 /\ b <= L /\ s[b] # Blank
      /\ (q <= L => e < q)
  BY LenProperties DEF Cut
<1>2. /\ \A k \in 1..b - 1 : s[k] = Blank
      /\ \A k \in b..e - 1 : s[k] # Blank
      /\ \A k \in e..q - 1 : s[k] = Blank
  BY DEF Cut
<1>3. r \in Seq(S) /\ M = L - c /\ \A k \in 1..M : r[k] = s[c + k]
  BY ArgFacts
<1>4. /\ Begins(s) = {i \in 1..L : s[i] # Blank /\ (i > 1 => s[i - 1] = Blank)}
      /\ Begins(r) = {i \in 1..M : r[i] # Blank /\ (i > 1 => r[i - 1] = Blank)}
  BY <1>3, BeginFacts
<1> HIDE DEF L, r, M
<1>5. c \in Nat /\ M \in Nat /\ c + M = L
  BY <1>1, <1>3
<1>6. b \in Begins(s)
  <2>1. b \in 1..L /\ (b > 1 => b - 1 \in 1..b - 1)
    BY <1>1
  <2> QED BY <1>1, <1>2, <1>4, <2>1
<1>7. ASSUME NEW i \in Begins(r) PROVE c + i \in Begins(s)
  <2>1. i \in 1..M /\ r[i] # Blank /\ (i > 1 => r[i - 1] = Blank)
    BY <1>4
  <2>2. i \in Nat /\ c + i \in 1..L /\ s[c + i] # Blank
    BY <1>3, <1>5, <2>1
  <2>3. s[(c + i) - 1] = Blank
    <3>1. CASE i = 1
      <4>1. (c + i) - 1 \in e..q - 1
        BY <1>1, <1>5, <2>1, <3>1
      <4> QED BY <1>2, <4>1
    <3>2. CASE i # 1
      <4>1. i - 1 \in 1..M /\ i > 1 /\ c + (i - 1) = (c + i) - 1
        BY <1>5, <2>1, <3>2
      <4> QED BY <1>3, <2>1, <4>1
    <3> QED BY <3>1, <3>2
  <2> HIDE DEF c
  <2> QED BY <1>4, <2>2, <2>3
<1>8. ASSUME NEW i \in Begins(s), i # b PROVE i - c \in Begins(r) /\ c + (i - c) = i
  <2>1. i \in 1..L /\ s[i] # Blank /\ (i > 1 => s[i - 1] = Blank)
    BY <1>4
  <2>2. i \in Nat /\ i >= 1 /\ i <= L
    BY <1>1, <2>1
  <2>3. ~(i < b)
    <3>1. i < b => i \in 1..b - 1
      BY <1>1, <2>2
    <3> QED BY <1>2, <2>1, <3>1
  <2>4. ~(i < e)
    <3>1. i < e => i - 1 \in b..e - 1 /\ i > 1
      BY <1>1, <1>8, <2>2, <2>3
    <3> QED BY <1>2, <2>1, <3>1
  <2>5. ~(i < q)
    <3>1. i < q => i \in e..q - 1
      BY <1>1, <2>2, <2>4
    <3> QED BY <1>2, <2>1, <3>1
  <2> DEFINE j == i - c
  <2>6. j \in 1..M /\ c + j = i /\ (j > 1 => j - 1 \in 1..M /\ c + (j - 1) = i - 1 /\ i > 1)
    BY <1>1, <1>5, <2>2, <2>5
  <2> HIDE DEF j, c
  <2>7. r[j] # Blank /\ (j > 1 => r[j - 1] = Blank)
    BY <1>3, <2>1, <2>6
  <2>8. j \in Begins(r)
    BY <1>4, <2>6, <2>7
  <2> QED BY <2>6, <2>8 DEF j
<1> HIDE DEF c
<1>9. Begins(s) = {b} \cup {c + i : i \in Begins(r)}
  BY <1>6, <1>7, <1>8
<1> QED BY <1>9 DEF c, r

\* A line of blanks has no words.
LEMMA NoWords ==
    ASSUME NEW S, NEW s \in Seq(S), \A k \in 1..Len(s) : s[k] = Blank
    PROVE  Words(s) = <<>>
<1>1. Begins(s) = {}
  BY BeginFacts
<1>2. Cardinality(Begins(s)) = 0
  BY <1>1, FS_EmptySet
<1> DEFINE W(n) == WordFrom(s, CHOOSE i \in Begins(s) : Cardinality({k \in Begins(s) : k <= i}) = n)
<1>3. Words(s) = [n \in 1..0 |-> W(n)]
  BY <1>2 DEF Words
<1> HIDE DEF W
<1>4. 1..0 = {}
  OBVIOUS
<1> QED BY <1>3, <1>4

\* The words of a line are the first and those behind it.
LEMMA CutFindsWords ==
    ASSUME NEW S, NEW s \in Seq(S), NEW b \in Nat, NEW e \in Nat, NEW q \in Nat
    PROVE  Cut(s, b, e, q) /\ e = EndOfWord(s, b) /\ Words(s) # <<>> =>
               Words(s) = <<SubSeq(s, b, e - 1)>> \o Words(From(s, q))
<1> DEFINE r == From(s, q)
           w == SubSeq(s, b, e - 1)
<1>0. SUFFICES ASSUME Cut(s, b, e, q), e = EndOfWord(s, b), Words(s) # <<>>
               PROVE  Words(s) = <<w>> \o Words(r)
  OBVIOUS
<1>1. Cut(s, b, e, q) /\ e = EndOfWord(s, b) /\ w = SubSeq(s, b, e - 1) /\ r = From(s, q)
  BY <1>0
<1> DEFINE c == q - 1
<1>2. r \in Seq(S) /\ Solid(r) /\ PartOf(r, s, c)
  BY <1>1, ArgFacts
<1> HIDE DEF r, w
<1>3. Words(s) = <<w>> \o Words(r)
  <2>1. Len(s) \in Nat /\ Len(r) \in Nat
    BY <1>2, LenProperties
  <2>2. /\ 1 <= b /\ b < e /\ e <= q /\ q <= Len(s) + 1 /\ b <= Len(s) /\ c \in Nat
        /\ b <= c
    <3>1. /\ 1 <= b /\ b <= e /\ e <= q /\ q <= Len(s) + 1
          /\ (b <= Len(s) => b < e) /\ \A k \in 1..b - 1 : s[k] = Blank
      BY <1>1 DEF Cut
    <3>2. ~(b > Len(s))
      <4> SUFFICES ASSUME b > Len(s) PROVE FALSE
        OBVIOUS
      <4>1. \A k \in 1..Len(s) : k \in 1..b - 1
        BY <2>1
      <4> QED BY <1>0, <3>1, <4>1, NoWords
    <3> QED BY <2>1, <3>1, <3>2
  <2>3. Begins(s) = {b} \cup {c + i : i \in Begins(r)}
    BY <1>1, <2>2, BeginsOfLine
  <2>4. PICK m \in 0..Len(r) : Covers(r, m)
    BY <1>2, Covered
  <2>5. m \in Nat
    BY <2>1
  <2> DEFINE t == [n \in 1..m |-> Turn(r)[n]]
             a == [n \in 1..m + 1 |-> IF n = 1 THEN b ELSE c + t[n - 1]]
  <2>6. t \in [1..m -> Nat] /\ \A n \in 1..m : t[n] >= 1
    <3>1. \A n \in 1..m : n \in Nat
      BY <2>5
    <3>2. \A n \in 1..m : Turn(r)[n] \in Nat /\ Turn(r)[n] \in 1..Len(r) + 1
      BY <1>2, <3>1, TurnPlaces, Zenon
    <3>3. \A n \in 1..m : Turn(r)[n] \in Nat /\ Turn(r)[n] >= 1
      BY <2>1, <3>2
    <3> QED BY <3>3
  <2>7. (\A i, j \in 1..m : i < j => t[i] < t[j]) /\ Begins(r) = {t[n] : n \in 1..m}
    BY <2>4 DEF Covers
  <2> HIDE DEF t, c
  <2>8. Words(r) = [n \in 1..m |-> WordFrom(r, t[n])]
    BY <2>5, <2>6, <2>7, Enumerated
  <2>9. /\ a[1] = b /\ 1 \in 1..m + 1
        /\ \A n \in 1..m : n + 1 \in 1..m + 1 /\ a[n + 1] = c + t[n]
    <3>1. 1 \in 1..m + 1
      BY <2>5
    <3>2. ASSUME NEW n \in 1..m PROVE n + 1 \in 1..m + 1 /\ n + 1 # 1 /\ (n + 1) - 1 = n
      BY <2>5
    <3> QED BY <3>1, <3>2
  <2>10. \A n \in 1..m + 1 : n = 1 \/ (n # 1 /\ n - 1 \in 1..m /\ (n - 1) + 1 = n)
    BY <2>5
  <2>11. a = [n \in 1..m + 1 |-> a[n]]
    OBVIOUS
  <2> HIDE DEF a
  <2>11a. ASSUME NEW n \in 1..m + 1
          PROVE  a[n] = b \/ \E k \in 1..m : a[n] = c + t[k]
    <3>1. CASE n = 1
      BY <2>9, <3>1
    <3>2. CASE n # 1
      <4> DEFINE k == n - 1
      <4>1. k \in 1..m /\ k + 1 = n
        BY <2>10, <3>2
      <4> HIDE DEF k
      <4>2. a[k + 1] = c + t[k]
        BY <2>9, <4>1
      <4> QED BY <4>1, <4>2
    <3> QED BY <3>1, <3>2
  <2>12. \A n \in 1..m + 1 : a[n] \in Nat
    <3>1. \A n \in 1..m : c + t[n] \in Nat
      BY <2>2, <2>6
    <3> QED BY <2>11a, <3>1, Zenon
  <2>13. a \in [1..m + 1 -> Nat]
    BY <2>11, <2>12
  <2>14. ASSUME NEW i \in 1..m + 1, NEW j \in 1..m + 1, i < j PROVE a[i] < a[j]
    <3> DEFINE k == j - 1
    <3>1. j # 1 /\ k \in 1..m /\ k + 1 = j
      BY <2>5, <2>14
    <3>2. a[j] = c + t[k] /\ t[k] \in Nat /\ t[k] >= 1
      BY <2>6, <2>9, <3>1
    <3>3. CASE i = 1
      <4>1. a[i] = b
        BY <2>9, <3>3
      <4> HIDE DEF k
      <4> QED BY <2>2, <3>2, <4>1
    <3>4. CASE i # 1
      <4> DEFINE h == i - 1
      <4>1. h \in 1..m /\ h + 1 = i /\ h < k
        BY <2>5, <2>14, <3>4
      <4> HIDE DEF h, k
      <4>2. a[i] = c + t[h] /\ t[h] \in Nat /\ t[h] < t[k]
        BY <2>6, <2>7, <2>9, <3>1, <4>1
      <4> QED BY <2>2, <3>2, <4>2
    <3> QED BY <3>3, <3>4
  <2>15. Begins(s) = {a[n] : n \in 1..m + 1}
    <3>1. Begins(s) = {b} \cup {c + t[n] : n \in 1..m}
      BY <2>3, <2>7
    <3> QED BY <2>9, <2>11a, <3>1
  <2>16. m + 1 \in Nat
    BY <2>5
  <2>17. Words(s) = [n \in 1..m + 1 |-> WordFrom(s, a[n])]
    BY <2>13, <2>14, <2>15, <2>16, Enumerated
  <2>18. WordFrom(s, b) = w
    BY <1>1, <2>3, BeginFacts
  <2>19. ASSUME NEW n \in 1..m PROVE WordFrom(s, c + t[n]) = WordFrom(r, t[n])
    <3>1. t[n] \in Begins(r) /\ c + t[n] \in Begins(s)
      BY <2>3, <2>7
    <3> QED BY <1>2, <2>2, <3>1, WordOfPart
  <2> DEFINE v == Words(r)
             V == {WordFrom(r, t[n]) : n \in 1..m} \cup {w}
  <2>20. v \in Seq(V) /\ Len(v) = m /\ \A n \in 1..m : v[n] = WordFrom(r, t[n])
    <3>1. v = [n \in 1..m |-> WordFrom(r, t[n])] /\ \A n \in 1..m : WordFrom(r, t[n]) \in V
      BY <2>8
    <3> HIDE DEF v, V
    <3> QED BY <2>5, <3>1, IsASeq
  <2>21. <<w>> \in Seq(V) /\ Len(<<w>>) = 1 /\ <<w>>[1] = w
    OBVIOUS
  <2> HIDE DEF v, V
  <2> DEFINE u == <<w>> \o v
  <2>22. /\ u \in Seq(V) /\ Len(u) = 1 + m
         /\ \A i \in 1..1 + m : u[i] = IF i <= 1 THEN <<w>>[i] ELSE v[i - 1]
    BY <2>20, <2>21, ConcatProperties
  <2> HIDE DEF u
  <2>23. \A n \in 1..m + 1 : u[n] = WordFrom(s, a[n])
    <3>1. u[1] = w
      BY <2>5, <2>21, <2>22
    <3>2. ASSUME NEW n \in 1..m PROVE u[n + 1] = WordFrom(s, c + t[n])
      <4>1. n + 1 \in 1..1 + m /\ ~(n + 1 <= 1) /\ (n + 1) - 1 = n
        BY <2>5
      <4>2. u[n + 1] = v[n]
        BY <2>22, <4>1
      <4> QED BY <2>19, <2>20, <4>2
    <3>3. \A n \in 1..m : u[n + 1] = WordFrom(s, a[n + 1])
      BY <2>9, <3>2
    <3> QED BY <2>9, <2>10, <2>18, <3>1, <3>3
  <2>24. u = [n \in 1..m + 1 |-> u[n]]
    <3>1. DOMAIN u = 1..Len(u) /\ u \in [1..Len(u) -> V]
      BY <2>22, LenProperties
    <3>2. 1 + m = m + 1
      BY <2>5
    <3> QED BY <2>22, <3>1, <3>2
  <2>25. Words(s) = u
    BY <2>17, <2>23, <2>24
  <2> QED BY <2>25 DEF u, v
<1> QED BY <1>3 DEF r, w

\* A line with its tabs made blanks, and a part of it.
LEMMA BlankedFacts ==
    ASSUME NEW S, NEW s \in Seq(S)
    PROVE  /\ Blanked(s) \in Seq(S \cup {Blank}) /\ Len(Blanked(s)) = Len(s)
           /\ \A k \in 1..Len(s) : /\ Blanked(s)[k] = IF s[k] = Tab THEN Blank ELSE s[k]
                                   /\ Blanked(s)[k] # Blank => Blanked(s)[k] = s[k]
                                   /\ s[k] = Blank => Blanked(s)[k] = Blank
<1> DEFINE u == Blanked(s)
           F(k) == IF s[k] = Tab THEN Blank ELSE s[k]
<1>1. Len(s) \in Nat
  BY LenProperties
<1>2. u = [k \in 1..Len(s) |-> F(k)]
  BY DEF Blanked
<1>3. \A k \in 1..Len(s) : F(k) \in S \cup {Blank}
  BY ElementOfSeq
<1>4. \A k \in 1..Len(s) : (F(k) # Blank => F(k) = s[k]) /\ (s[k] = Blank => F(k) = Blank)
  OBVIOUS
<1> HIDE DEF u, F
<1>5. u \in Seq(S \cup {Blank}) /\ Len(u) = Len(s) /\ \A k \in 1..Len(s) : u[k] = F(k)
  BY <1>1, <1>2, <1>3, IsASeq
<1> QED BY <1>4, <1>5 DEF u, F

LEMMA BlankedPart ==
    ASSUME NEW S, NEW s \in Seq(S), NEW q \in Nat, 1 <= q, q <= Len(s) + 1
    PROVE  Blanked(From(s, q)) = From(Blanked(s), q)
<1> DEFINE L == Len(s)
           u == Blanked(s)
           r == From(s, q)
           v == From(u, q)
<1>1. L \in Nat
  BY LenProperties
<1>2. /\ u \in Seq(S \cup {Blank}) /\ Len(u) = L
      /\ \A k \in 1..L : u[k] = IF s[k] = Tab THEN Blank ELSE s[k]
  BY BlankedFacts
<1> HIDE DEF u
<1>3. /\ r \in Seq(S) /\ Len(r) = L - q + 1
      /\ \A k \in 1..L - q + 1 : r[k] = s[q + k - 1]
  <2>1. \A k \in q..L : s[k] \in S
    BY <1>1, ElementOfSeq
  <2>2. /\ r \in Seq(S) /\ Len(r) = IF q <= L THEN L - q + 1 ELSE 0
        /\ \A k \in 1..L - q + 1 : r[k] = s[q + k - 1]
    BY <1>1, <2>1, SubSeqProperties DEF From
  <2> HIDE DEF r, L
  <2> QED BY <1>1, <2>2 DEF L
<1>4. /\ v \in Seq(S \cup {Blank}) /\ Len(v) = L - q + 1
      /\ \A k \in 1..L - q + 1 : v[k] = u[q + k - 1]
  <2>1. \A k \in q..L : u[k] \in S \cup {Blank}
    BY <1>1, <1>2, ElementOfSeq
  <2>2. /\ v \in Seq(S \cup {Blank}) /\ Len(v) = IF q <= L THEN L - q + 1 ELSE 0
        /\ \A k \in 1..L - q + 1 : v[k] = u[q + k - 1]
    BY <1>1, <1>2, <2>1, SubSeqProperties DEF From
  <2> HIDE DEF v, L
  <2> QED BY <1>1, <2>2 DEF L
<1> HIDE DEF r, v
<1>5. /\ Blanked(r) \in Seq(S \cup {Blank}) /\ Len(Blanked(r)) = L - q + 1
      /\ \A k \in 1..L - q + 1 : Blanked(r)[k] = IF r[k] = Tab THEN Blank ELSE r[k]
  BY <1>3, BlankedFacts
<1>6. ASSUME NEW k \in 1..L - q + 1 PROVE Blanked(r)[k] = v[k]
  <2>1. q + k - 1 \in 1..L
    BY <1>1
  <2> QED BY <1>2, <1>3, <1>4, <1>5, <2>1
<1>7. Blanked(r) = v
  <2> DEFINE w == Blanked(r)
  <2>1. /\ w \in Seq(S \cup {Blank}) /\ v \in Seq(S \cup {Blank})
        /\ Len(w) = Len(v) /\ \A k \in 1..Len(v) : w[k] = v[k]
    BY <1>4, <1>5, <1>6
  <2> HIDE DEF w
  <2>2. w = v
    BY <2>1, SeqEqual
  <2> QED BY <2>2 DEF w
<1> QED BY <1>7 DEF r, v, u

\* execute_line() gives a command its arguments without leading blanks or tabs;
\* its name and the words in them are the words of the line, where a tab is as
\* good as a blank.
THEOREM SplitFindsWords ==
    ASSUME NEW S, NEW line \in Seq(S)
    PROVE  /\ split(line).arg \in Seq(S)
           /\ Solid(split(line).arg) /\ Solid(Blanked(split(line).arg))
           /\ Words(Blanked(line)) # <<>> =>
                Words(Blanked(line)) = <<split(line).word>> \o Words(Blanked(split(line).arg))
<1> DEFINE L == Len(line)
           s == Blanked(line)
           B == S \cup {Blank}
           b == NextWord(s, 1)
           e == EndOfWord(s, b)
           q == NextWord(s, e)
           w == SubSeq(line, b, e - 1)
           r == From(line, q)
<1>1. split(line).word = w /\ split(line).arg = r
  BY DEF split
<1>2. /\ s \in Seq(B) /\ Len(s) = L /\ L \in Nat
      /\ \A k \in 1..L : /\ s[k] # Blank => s[k] = line[k]
                         /\ line[k] = Blank => s[k] = Blank
  BY BlankedFacts, LenProperties
<1> HIDE DEF s
<1>3. Cut(s, b, e, q) /\ e = EndOfWord(s, b)
  <2>1. b = NextWord(s, 1) /\ e = EndOfWord(s, b) /\ q = NextWord(s, e)
    OBVIOUS
  <2> HIDE DEF b, e, q, B
  <2> QED BY <1>2, <2>1, CutFacts
<1> HIDE DEF b, e, q, B, L
<1>4. /\ b \in Nat /\ e \in Nat /\ q \in Nat
      /\ 1 <= b /\ b <= e /\ e <= q /\ q <= L + 1
      /\ \A k \in b..e - 1 : s[k] # Blank
      /\ q <= L => s[q] # Blank
  BY <1>2, <1>3 DEF Cut
<1>5. r \in Seq(S) /\ Solid(r) /\ Solid(Blanked(r))
  <2>1. Blanked(r) = From(s, q)
    BY <1>4, BlankedPart DEF s, L
  <2>2. Solid(Blanked(r))
    BY <1>2, <1>3, <2>1, ArgFacts
  <2>3. \A k \in q..L : line[k] \in S
    BY <1>2, <1>4, ElementOfSeq DEF L
  <2>4. r \in Seq(S)
    BY <1>2, <1>4, <2>3, SubSeqProperties DEF From, L
  <2>5. Solid(r)
    <3> SUFFICES ASSUME r # <<>> PROVE r[1] # Blank
      BY DEF Solid
    <3> HIDE DEF r
    <3>1. Len(r) \in Nat /\ 1 \in 1..Len(r)
      BY <2>4, EmptySeq, LenProperties
    <3>2. Len(Blanked(r)) = Len(r) /\ (r[1] = Blank => Blanked(r)[1] = Blank)
      BY <2>4, <3>1, BlankedFacts
    <3>3. Blanked(r) # <<>>
      BY <3>1, <3>2
    <3> QED BY <2>2, <3>2, <3>3 DEF Solid
  <2> QED BY <2>2, <2>4, <2>5
<1>6. w = SubSeq(s, b, e - 1)
  <2>1. \A k \in b..e - 1 : k \in 1..L
    BY <1>2, <1>4
  <2>2. \A k \in b..e - 1 : line[k] = s[k]
    BY <1>2, <1>4, <2>1
  <2>3. \A k \in 1..(e - 1) - b + 1 : line[b + k - 1] = s[b + k - 1]
    <3>1. \A k \in 1..(e - 1) - b + 1 : b + k - 1 \in b..e - 1
      BY <1>4
    <3> QED BY <2>2, <3>1
  <2> DEFINE n == IF b <= e - 1 THEN (e - 1) - b + 1 ELSE 0
             v == SubSeq(s, b, e - 1)
  <2>4. w \in Seq(B) /\ Len(w) = n /\ \A k \in 1..(e - 1) - b + 1 : w[k] = line[b + k - 1]
    <3>1. \A k \in b..e - 1 : line[k] \in B
      BY <1>2, <2>1, ElementOfSeq DEF B, L
    <3> QED BY <1>4, <3>1, SubSeqProperties
  <2>5. v \in Seq(B) /\ Len(v) = n /\ \A k \in 1..(e - 1) - b + 1 : v[k] = s[b + k - 1]
    <3>1. \A k \in b..e - 1 : s[k] \in B
      BY <1>2, <2>1, ElementOfSeq
    <3> QED BY <1>4, <3>1, SubSeqProperties
  <2> HIDE DEF v, w
  <2>6. \A k \in 1..n : k \in 1..(e - 1) - b + 1
    BY <1>4
  <2> HIDE DEF n
  <2>7. \A k \in 1..Len(w) : w[k] = v[k]
    BY <2>3, <2>4, <2>5, <2>6
  <2>8. w = v
    BY <2>4, <2>5, <2>7, SeqEqual
  <2> QED BY <2>8 DEF v
<1>7. ASSUME Words(s) # <<>> PROVE Words(s) = <<w>> \o Words(Blanked(r))
  <2>1. Blanked(r) = From(s, q)
    BY <1>4, BlankedPart DEF s, L
  <2>2. Words(s) = <<SubSeq(s, b, e - 1)>> \o Words(From(s, q))
    <3>1. s \in Seq(B) /\ b \in Nat /\ e \in Nat /\ q \in Nat
      BY <1>2, <1>4
    <3>2. Cut(s, b, e, q) /\ e = EndOfWord(s, b) /\ Words(s) # <<>>
      BY <1>3, <1>7
    <3> QED BY <3>1, <3>2, CutFindsWords, Zenon
  <2> QED BY <1>6, <2>1, <2>2
<1> HIDE DEF r, w
<1> QED BY <1>1, <1>5, <1>7 DEF s
=============================================================================
