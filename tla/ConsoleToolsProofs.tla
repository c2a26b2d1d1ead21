------------------------- MODULE ConsoleToolsProofs -------------------------
(***************************************************************************)
(* What the exit code of a console tool says of its files, for every        *)
(* command line of every length, every content of the files and every       *)
(* duration of a capture.                                                    *)
(*                                                                          *)
(* A parser is a fold over its arguments; ParserTrace unfolds it into the    *)
(* states that it goes through, and what holds at each of them follows by    *)
(* induction on their number.  The runs of the tools keep ToolsInv.          *)
(*                                                                          *)
(* The lemmas about totals serve the other sum over frames as well, that of *)
(* FrameStats: its ring is the window that FrameWindow promises.            *)
(***************************************************************************)
EXTENDS ConsoleTools, FrameStats, FiniteSetTheorems, SequenceTheorems, TLAPS

(***************************************************************************)
(* Numbers, and subsets of an interval                                      *)
(***************************************************************************)
\* Induction over the natural numbers, of a set instead of a predicate.
LEMMA Induction ==
  ASSUME NEW S, 0 \in S, \A n \in Nat : n \in S => n + 1 \in S
  PROVE  \A n \in Nat : n \in S
<1> SUFFICES ASSUME Nat \ S # {} PROVE FALSE
  OBVIOUS
<1>1. PICK x \in Nat \ S : \A y \in Nat \ S : ~ (<<y, x>> \in OpToRel(<, Nat))
  BY NatLessThanWellFounded, WFMin
<1>2. x - 1 \in Nat /\ x = (x - 1) + 1
  OBVIOUS
<1>3. <<x - 1, x>> \in OpToRel(<, Nat)
  BY <1>2 DEF OpToRel
<1> QED BY <1>1, <1>2, <1>3

\* With a number below n, the set has the next one.
Ascends(S, n) == \A i \in 0 .. n - 1 : i \in S => i + 1 \in S

\* Up to a number, a set that holds zero and the next of what it holds holds all.
LEMMA InductionUpTo ==
  ASSUME NEW n \in Nat, NEW S, 0 \in S, Ascends(S, n)
  PROVE  \A k \in 0 .. n : k \in S
<1> DEFINE T == {k \in Nat : k <= n => k \in S}
<1>1. 0 \in T
  OBVIOUS
<1>2. ASSUME NEW k \in Nat, k \in T PROVE k + 1 \in T
  BY <1>2 DEF Ascends
<1>3. \A k \in Nat : k \in T
  <2> HIDE DEF T
  <2> QED BY <1>1, <1>2, Induction
<1> QED BY <1>3

\* The largest element of a subset of an interval.
LEMMA MaxOfSubset ==
  ASSUME NEW n \in Nat, NEW s \in SUBSET (1 .. n), s # {}
  PROVE  Max(s) \in s /\ \A y \in s : Max(s) >= y
<1> DEFINE T == {d \in Nat : n - d \in s}
<1>1. PICK y \in s : TRUE
  OBVIOUS
<1>2. n - y \in T
  OBVIOUS
<1>3. PICK d \in T : \A e \in T : ~ (<<e, d>> \in OpToRel(<, Nat))
  BY <1>2, NatLessThanWellFounded, WFMin
<1>4. ASSUME NEW z \in s PROVE n - d >= z
  <2>1. n - z \in T
    OBVIOUS
  <2>2. ~ (n - z < d)
    BY <1>3, <2>1 DEF OpToRel
  <2> QED BY <2>2
<1>5. \E x \in s : \A z \in s : x >= z
  BY <1>4
<1> QED BY <1>5 DEF Max

\* A subset of an interval without its largest element is a smaller one.
LEMMA SmallerSubset ==
  ASSUME NEW n \in Nat, NEW s \in SUBSET (1 .. n)
  PROVE  /\ Cardinality(s) \in 0 .. n
         /\ Cardinality(s) = 0 <=> s = {}
         /\ s # {} => /\ s \ {Max(s)} \in SUBSET (1 .. n)
                      /\ Cardinality(s \ {Max(s)}) = Cardinality(s) - 1
<1>1. IsFiniteSet(1 .. n) /\ Cardinality(1 .. n) = n
  BY FS_Interval
<1>2. IsFiniteSet(s) /\ Cardinality(s) <= n
  BY ONLY <1>1, FS_Subset, s \in SUBSET (1 .. n)
<1>3. Cardinality(s) \in Nat
  BY <1>2, FS_CardinalityType
<1>4. Cardinality(s) = 0 <=> s = {}
  BY <1>2, FS_EmptySet
<1>5. ASSUME s # {}
      PROVE  /\ s \ {Max(s)} \in SUBSET (1 .. n)
             /\ Cardinality(s \ {Max(s)}) = Cardinality(s) - 1
  <2>1. Max(s) \in s
    BY <1>5, MaxOfSubset
  <2>2. Cardinality(s \ {Max(s)}) = Cardinality(s) - 1
    BY <1>2, <2>1, FS_RemoveElement
  <2> QED BY <2>1, <2>2
<1> QED BY <1>2, <1>3, <1>4, <1>5

\* What a parser makes of a line is the last of the states it goes through, one for
\* each argument.
LEMMA ParserTrace ==
  ASSUME NEW grammar, NEW n \in Nat, NEW line_, DOMAIN line_ = 1 .. n
  PROVE  \E t : /\ t[0] = Nothing
                /\ \A k \in 1 .. n : t[k] = Take(grammar, t[k - 1], line_[k])
                /\ Parse(grammar, line_) = Finish(grammar, t[n])
<1> DEFINE S == SUBSET (1 .. n)
           Follows(f, s) == IF s = {} THEN Nothing
                            ELSE Take(grammar, f[s \ {Max(s)}], line_[Max(s)])
           Defined(f, m) == \A s \in S : Cardinality(s) <= m => f[s] = Follows(f, s)
           P == {m \in Nat : \E f : Defined(f, m)}
<1>1. \A s \in S : /\ Cardinality(s) \in 0 .. n
                   /\ Cardinality(s) = 0 <=> s = {}
  BY SmallerSubset
<1>2. ASSUME NEW s \in S, s # {}
      PROVE  /\ s \ {Max(s)} \in S
             /\ Cardinality(s \ {Max(s)}) = Cardinality(s) - 1
  BY <1>2, SmallerSubset
<1>3. \A k \in 0 .. n : 1 .. k \in S
  OBVIOUS
<1>4. ASSUME NEW k \in 1 .. n
      PROVE  1 .. k # {} /\ Max(1 .. k) = k /\ (1 .. k) \ {k} = 1 .. k - 1
  <2>1. 1 .. k \in SUBSET (1 .. n) /\ 1 .. k # {} /\ k \in 1 .. k /\ (1 .. k) \ {k} = 1 .. k - 1
    OBVIOUS
  <2>2. Max(1 .. k) \in 1 .. k /\ \A y \in 1 .. k : Max(1 .. k) >= y
    BY <2>1, MaxOfSubset
  <2>3. Max(1 .. k) >= k
    BY <2>1, <2>2
  <2> QED BY <2>1, <2>2, <2>3
<1> HIDE DEF S
<1>5. Defined([s \in S |-> Nothing], 0)
  <2> DEFINE f == [s \in S |-> Nothing]
  <2>1. ASSUME NEW s \in S, Cardinality(s) <= 0 PROVE f[s] = Follows(f, s)
    <3>1. s = {}
      BY <1>1, <2>1
    <3> QED BY <3>1
  <2> QED BY <2>1
<1>6. ASSUME NEW m \in Nat, NEW f, Defined(f, m)
      PROVE  Defined([s \in S |-> Follows(f, s)], m + 1)
  <2> DEFINE g == [s \in S |-> Follows(f, s)]
  <2>1. ASSUME NEW s \in S, Cardinality(s) <= m + 1 PROVE g[s] = Follows(g, s)
    <3>1. CASE s = {}
      BY <3>1
    <3>2. CASE s # {}
      <4> DEFINE u == s \ {Max(s)}
      <4>1. u \in S /\ Cardinality(u) = Cardinality(s) - 1
        BY <1>2, <3>2
      <4>2. Cardinality(s) \in Nat /\ Cardinality(u) <= m
        BY <1>1, <2>1, <4>1
      <4>3. g[u] = f[u]
        BY <1>6, <4>1, <4>2
      <4> QED BY <3>2, <4>3
    <3> QED BY <3>1, <3>2
  <2> QED BY <2>1
<1>7. \A m \in Nat : m \in P
  <2> HIDE DEF Defined
  <2>1. 0 \in P
    BY <1>5
  <2>2. ASSUME NEW m \in Nat, m \in P PROVE m + 1 \in P
    <3>1. PICK f : Defined(f, m)
      BY <2>2
    <3>2. Defined([s \in S |-> Follows(f, s)], m + 1)
      BY <1>6, <3>1
    <3> QED BY <3>2
  <2> HIDE DEF P
  <2> QED BY <2>1, <2>2, Induction
<1>8. PICK f : Defined(f, n)
  <2> HIDE DEF Defined
  <2> QED BY <1>7
<1> DEFINE iter == CHOOSE h : h = [s \in S |-> Follows(h, s)]
<1>9. iter = [s \in S |-> Follows(iter, s)]
  <2> DEFINE h == [s \in S |-> f[s]]
  <2>1. ASSUME NEW s \in S PROVE h[s] = Follows(h, s)
    <3>1. Cardinality(s) <= n
      BY <1>1
    <3>2. f[s] = Follows(f, s)
      BY <1>8, <3>1
    <3>3. s # {} => h[s \ {Max(s)}] = f[s \ {Max(s)}]
      BY <1>2
    <3> QED BY <3>2, <3>3
  <2>2. h = [s \in S |-> Follows(h, s)]
    BY <2>1
  <2> HIDE DEF h
  <2> QED BY <2>2
<1>10. Parse(grammar, line_) = Finish(grammar, iter[1 .. n])
  BY DEF Parse, FoldLeft, MapThenFoldSet, S
<1> DEFINE t == [k \in 0 .. n |-> iter[1 .. k]]
<1> HIDE DEF iter
<1>11. t[0] = Nothing
  <2>1. 1 .. 0 = {} /\ 1 .. 0 \in S
    BY <1>3
  <2>2. iter[{}] = Nothing
    BY <1>9, <2>1
  <2> QED BY <2>1, <2>2
<1>12. ASSUME NEW k \in 1 .. n PROVE t[k] = Take(grammar, t[k - 1], line_[k])
  <2> DEFINE s == 1 .. k
  <2>1. s \in S /\ s # {} /\ Max(s) = k /\ s \ {k} = 1 .. k - 1
    BY <1>3, <1>4
  <2>2. t[k] = iter[s] /\ t[k - 1] = iter[1 .. k - 1]
    OBVIOUS
  <2> HIDE DEF s
  <2>3. iter[s] = Take(grammar, iter[s \ {Max(s)}], line_[Max(s)])
    BY <1>9, <2>1
  <2> QED BY <2>1, <2>2, <2>3
<1>13. Parse(grammar, line_) = Finish(grammar, t[n])
  BY <1>10
<1> HIDE DEF t
<1> QED BY <1>11, <1>12, <1>13

(***************************************************************************)
(* Totals                                                                   *)
(***************************************************************************)
\* The states of the loop that adds up the numbers of a sequence.
LEMMA SumTrace ==
  ASSUME NEW n \in Nat, NEW s_, DOMAIN s_ = 1 .. n
  PROVE  \E t : /\ t[0] = 0
                /\ \A k \in 1 .. n : t[k] = t[k - 1] + s_[k]
                /\ Total(s_) = t[n]
<1> DEFINE S == SUBSET (1 .. n)
           Follows(f, s) == IF s = {} THEN 0
                            ELSE f[s \ {Max(s)}] + s_[Max(s)]
           Defined(f, m) == \A s \in S : Cardinality(s) <= m => f[s] = Follows(f, s)
           P == {m \in Nat : \E f : Defined(f, m)}
<1>1. \A s \in S : /\ Cardinality(s) \in 0 .. n
                   /\ Cardinality(s) = 0 <=> s = {}
  BY SmallerSubset
<1>2. ASSUME NEW s \in S, s # {}
      PROVE  /\ s \ {Max(s)} \in S
             /\ Cardinality(s \ {Max(s)}) = Cardinality(s) - 1
  BY <1>2, SmallerSubset
<1>3. \A k \in 0 .. n : 1 .. k \in S
  OBVIOUS
<1>4. ASSUME NEW k \in 1 .. n
      PROVE  1 .. k # {} /\ Max(1 .. k) = k /\ (1 .. k) \ {k} = 1 .. k - 1
  <2>1. 1 .. k \in SUBSET (1 .. n) /\ 1 .. k # {} /\ k \in 1 .. k /\ (1 .. k) \ {k} = 1 .. k - 1
    OBVIOUS
  <2>2. Max(1 .. k) \in 1 .. k /\ \A y \in 1 .. k : Max(1 .. k) >= y
    BY <2>1, MaxOfSubset
  <2>3. Max(1 .. k) >= k
    BY <2>1, <2>2
  <2> QED BY <2>1, <2>2, <2>3
<1> HIDE DEF S
<1>5. Defined([s \in S |-> 0], 0)
  <2> DEFINE f == [s \in S |-> 0]
  <2>1. ASSUME NEW s \in S, Cardinality(s) <= 0 PROVE f[s] = Follows(f, s)
    <3>1. s = {}
      BY <1>1, <2>1
    <3> QED BY <3>1
  <2> QED BY <2>1
<1>6. ASSUME NEW m \in Nat, NEW f, Defined(f, m)
      PROVE  Defined([s \in S |-> Follows(f, s)], m + 1)
  <2> DEFINE g == [s \in S |-> Follows(f, s)]
  <2>1. ASSUME NEW s \in S, Cardinality(s) <= m + 1 PROVE g[s] = Follows(g, s)
    <3>1. CASE s = {}
      BY <3>1
    <3>2. CASE s # {}
      <4> DEFINE u == s \ {Max(s)}
      <4>1. u \in S /\ Cardinality(u) = Cardinality(s) - 1
        BY <1>2, <3>2
      <4>2. Cardinality(s) \in Nat /\ Cardinality(u) <= m
        BY <1>1, <2>1, <4>1
      <4>3. g[u] = f[u]
        BY <1>6, <4>1, <4>2
      <4> QED BY <3>2, <4>3
    <3> QED BY <3>1, <3>2
  <2> QED BY <2>1
<1>7. \A m \in Nat : m \in P
  <2> HIDE DEF Defined
  <2>1. 0 \in P
    BY <1>5
  <2>2. ASSUME NEW m \in Nat, m \in P PROVE m + 1 \in P
    <3>1. PICK f : Defined(f, m)
      BY <2>2
    <3>2. Defined([s \in S |-> Follows(f, s)], m + 1)
      BY <1>6, <3>1
    <3> QED BY <3>2
  <2> HIDE DEF P
  <2> QED BY <2>1, <2>2, Induction
<1>8. PICK f : Defined(f, n)
  <2> HIDE DEF Defined
  <2> QED BY <1>7
<1> DEFINE iter == CHOOSE h : h = [s \in S |-> Follows(h, s)]
<1>9. iter = [s \in S |-> Follows(iter, s)]
  <2> DEFINE h == [s \in S |-> f[s]]
  <2>1. ASSUME NEW s \in S PROVE h[s] = Follows(h, s)
    <3>1. Cardinality(s) <= n
      BY <1>1
    <3>2. f[s] = Follows(f, s)
      BY <1>8, <3>1
    <3>3. s # {} => h[s \ {Max(s)}] = f[s \ {Max(s)}]
      BY <1>2
    <3> QED BY <3>2, <3>3
  <2>2. h = [s \in S |-> Follows(h, s)]
    BY <2>1
  <2> HIDE DEF h
  <2> QED BY <2>2
<1>10. Total(s_) = iter[1 .. n]
  BY DEF Total, FoldLeft, MapThenFoldSet, S
<1> DEFINE t == [k \in 0 .. n |-> iter[1 .. k]]
<1> HIDE DEF iter
<1>11. t[0] = 0
  <2>1. 1 .. 0 = {} /\ 1 .. 0 \in S
    BY <1>3
  <2>2. iter[{}] = 0
    BY <1>9, <2>1
  <2> QED BY <2>1, <2>2
<1>12. ASSUME NEW k \in 1 .. n PROVE t[k] = t[k - 1] + s_[k]
  <2> DEFINE s == 1 .. k
  <2>1. s \in S /\ s # {} /\ Max(s) = k /\ s \ {k} = 1 .. k - 1
    BY <1>3, <1>4
  <2>2. t[k] = iter[s] /\ t[k - 1] = iter[1 .. k - 1]
    OBVIOUS
  <2> HIDE DEF s
  <2>3. iter[s] = iter[s \ {Max(s)}] + s_[Max(s)]
    BY <1>9, <2>1
  <2> QED BY <2>1, <2>2, <2>3
<1>13. Total(s_) = t[n]
  BY <1>10
<1> HIDE DEF t
<1> QED BY <1>11, <1>12, <1>13

\* The sums of the first numbers of a sequence.
Sums(p, s, n) == p[0] = 0 /\ \A i \in 1 .. n : p[i] = p[i - 1] + s[i]

\* There is only one way to add up, and its result is the total.
LEMMA TotalIs ==
  ASSUME NEW n \in Nat, NEW s, DOMAIN s = 1 .. n, \A i \in 1 .. n : s[i] \in Int,
         NEW p, Sums(p, s, n)
  PROVE  Total(s) = p[n] /\ \A k \in 0 .. n : p[k] \in Int
<1>1. PICK t : t[0] = 0 /\ (\A k \in 1 .. n : t[k] = t[k - 1] + s[k]) /\ Total(s) = t[n]
  BY SumTrace
<1> DEFINE S == {k \in 0 .. n : t[k] = p[k] /\ p[k] \in Int}
<1>2. 0 \in S
  BY <1>1 DEF Sums
<1>3. ASSUME NEW i \in 0 .. n - 1, i \in S PROVE i + 1 \in S
  <2> DEFINE j == i + 1
  <2>1. j \in 1 .. n /\ j - 1 = i /\ j \in 0 .. n
    OBVIOUS
  <2> HIDE DEF j
  <2>2. t[j] = t[i] + s[j] /\ p[j] = p[i] + s[j] /\ s[j] \in Int
    BY <1>1, <2>1 DEF Sums
  <2> QED BY <1>3, <2>1, <2>2 DEF j
<1>4. \A k \in 0 .. n : k \in S
  <2> HIDE DEF S
  <2> QED BY <1>2, <1>3, InductionUpTo DEF Ascends
<1>5. n \in 0 .. n
  OBVIOUS
<1> QED BY <1>1, <1>4, <1>5

LEMMA SumsExist ==
  ASSUME NEW n \in Nat, NEW s, DOMAIN s = 1 .. n, \A i \in 1 .. n : s[i] \in Int
  PROVE  \E p : Sums(p, s, n) /\ Total(s) = p[n] /\ \A k \in 0 .. n : p[k] \in Int
<1>1. PICK t : t[0] = 0 /\ \A k \in 1 .. n : t[k] = t[k - 1] + s[k]
  BY SumTrace
<1>2. Sums(t, s, n)
  BY <1>1 DEF Sums
<1> QED BY <1>2, TotalIs

\* A number more.
LEMMA TotalOfAppend ==
  ASSUME NEW s \in Seq(Int), NEW x \in Int
  PROVE  Total(Append(s, x)) = Total(s) + x /\ Total(s) \in Int
<1> DEFINE n == Len(s)
           t == Append(s, x)
           m == n + 1
<1>1. /\ n \in Nat /\ DOMAIN s = 1 .. n /\ DOMAIN t = 1 .. m /\ t[m] = x
      /\ \A i \in 1 .. n : t[i] = s[i] /\ s[i] \in Int
  OBVIOUS
<1>2. m \in 1 .. m /\ m - 1 = n /\ m \in Nat /\ 1 .. n \subseteq 1 .. m /\ n \in 0 .. n
      /\ \A i \in 1 .. m : i = m \/ i \in 1 .. n
  BY <1>1
<1> HIDE DEF n, t, m
<1>3. \A i \in 1 .. m : t[i] \in Int
  BY <1>1, <1>2
<1>4. PICK p : Sums(p, t, m) /\ Total(t) = p[m]
  BY <1>1, <1>2, <1>3, SumsExist
<1>5. p[0] = 0 /\ \A i \in 1 .. m : p[i] = p[i - 1] + t[i]
  BY <1>4 DEF Sums
<1>6. Sums(p, s, n)
  BY <1>1, <1>2, <1>5 DEF Sums
<1>7. Total(s) = p[n] /\ p[n] \in Int
  BY <1>1, <1>2, <1>6, TotalIs
<1>8. p[m] = p[n] + x
  BY <1>1, <1>2, <1>5
<1> QED BY <1>4, <1>7, <1>8 DEF t

\* The first m places of a sequence of length n are moved to its end.
IsRotation(r, s, n, m) ==
  \A i \in 1 .. n : r[i] = IF i + m <= n THEN s[i + m] ELSE s[i + m - n]

\* Where a sequence is cut and put together the other way round makes no difference.
LEMMA TotalOfRotation ==
  ASSUME NEW n \in Nat, NEW s, DOMAIN s = 1 .. n, \A i \in 1 .. n : s[i] \in Int,
         NEW m \in 0 .. n, NEW r, DOMAIN r = 1 .. n, IsRotation(r, s, n, m)
  PROVE  Total(r) = Total(s)
<1> USE DEF IsRotation
<1>1. PICK p : Sums(p, s, n) /\ Total(s) = p[n] /\ \A k \in 0 .. n : p[k] \in Int
  BY SumsExist
<1>2. p[0] = 0 /\ \A i \in 1 .. n : p[i] = p[i - 1] + s[i]
  BY <1>1 DEF Sums
<1> DEFINE q == [i \in 0 .. n |-> IF i + m <= n THEN p[i + m] - p[m]
                                  ELSE (p[n] - p[m]) + p[i + m - n]]
<1>3. q[0] = 0
  <2>1. 0 \in 0 .. n /\ 0 + m = m
    OBVIOUS
  <2> QED BY <1>1, <2>1
<1>4. ASSUME NEW i \in 1 .. n PROVE q[i] = q[i - 1] + r[i] /\ r[i] \in Int
  <2> DEFINE h == i - 1
             k == i + m
  <2>1. h \in 0 .. n /\ h + m = k - 1 /\ k \in Nat /\ i \in 0 .. n
    OBVIOUS
  <2>2. /\ r[i] = IF k <= n THEN s[k] ELSE s[k - n]
        /\ q[i] = IF k <= n THEN p[k] - p[m] ELSE (p[n] - p[m]) + p[k - n]
        /\ q[h] = IF k - 1 <= n THEN p[k - 1] - p[m] ELSE (p[n] - p[m]) + p[(k - 1) - n]
    <3>1. q[h] = IF h + m <= n THEN p[h + m] - p[m] ELSE (p[n] - p[m]) + p[h + m - n]
      BY <2>1
    <3>2. h + m - n = (k - 1) - n
      BY <2>1
    <3> HIDE DEF h
    <3> QED BY <2>1, <3>1, <3>2
  <2>3. p[m] \in Int /\ p[n] \in Int
    BY <1>1
  <2>4. CASE k <= n
    <3>1. k \in 1 .. n /\ k - 1 <= n /\ k - 1 \in 0 .. n
      BY <2>4
    <3> HIDE DEF h, k, q
    <3>2. p[k] = p[k - 1] + s[k] /\ s[k] \in Int /\ p[k - 1] \in Int
      BY <1>1, <1>2, <3>1
    <3>3. q[h] = p[k - 1] - p[m] /\ q[i] = p[k] - p[m] /\ r[i] = s[k]
      BY <2>2, <2>4, <3>1
    <3> QED BY <2>3, <3>2, <3>3 DEF h
  <2>5. CASE k = n + 1
    <3>1. k - n = 1 /\ k - 1 = n /\ ~ (k <= n) /\ n >= 1 /\ 1 \in 1 .. n /\ 1 - 1 = 0
      BY <2>5
    <3> HIDE DEF h, k, q
    <3>2. p[1] = p[0] + s[1] /\ s[1] \in Int
      BY <1>2, <3>1
    <3>3. q[h] = p[n] - p[m] /\ q[i] = (p[n] - p[m]) + p[1] /\ r[i] = s[1]
      BY <2>2, <3>1
    <3> QED BY <1>2, <2>3, <3>2, <3>3 DEF h
  <2>6. CASE k > n + 1
    <3> DEFINE l == k - n
    <3>1. l \in 1 .. n /\ (k - 1) - n = l - 1 /\ ~ (k <= n) /\ ~ (k - 1 <= n) /\ l - 1 \in 0 .. n
      BY <2>6
    <3> HIDE DEF h, q
    <3>3. q[h] = (p[n] - p[m]) + p[l - 1] /\ q[i] = (p[n] - p[m]) + p[l] /\ r[i] = s[l]
      BY <2>2, <3>1
    <3> HIDE DEF k, l
    <3>2. p[l] = p[l - 1] + s[l] /\ s[l] \in Int /\ p[l - 1] \in Int
      BY <1>1, <1>2, <3>1
    <3> QED BY <2>3, <3>2, <3>3 DEF h
  <2> QED BY <2>1, <2>4, <2>5, <2>6
<1>5. Sums(q, r, n)
  <2> HIDE DEF q
  <2> QED BY <1>3, <1>4 DEF Sums
<1>6. Total(r) = q[n]
  <2> HIDE DEF q
  <2> QED BY <1>4, <1>5, TotalIs
<1>7. q[n] = p[n]
  <2>1. CASE m = 0
    BY <1>1, <1>2, <2>1
  <2>2. CASE m # 0
    <3>1. n \in 0 .. n /\ ~ (n + m <= n) /\ n + m - n = m
      BY <2>2
    <3>2. q[n] = (p[n] - p[m]) + p[m]
      BY <3>1
    <3> QED BY <1>1, <3>2
  <2> QED BY <2>1, <2>2
<1> QED BY <1>1, <1>6, <1>7

(***************************************************************************)
(* Samples in order                                                         *)
(***************************************************************************)
Below(s, v) == Cardinality({i \in DOMAIN s : s[i] < v})
UpTo(s, v) == Cardinality({i \in DOMAIN s : s[i] <= v})

\* How many samples there are on a side of a value.
LEMMA SampleCounts ==
  ASSUME NEW n \in Nat, NEW s, DOMAIN s = 1 .. n, NEW A \in SUBSET (1 .. n)
  PROVE  /\ IsFiniteSet(A) /\ Cardinality(A) \in 0 .. n
         /\ \A B \in SUBSET A : Cardinality(B) <= Cardinality(A)
         /\ Cardinality(A) = n => A = 1 .. n
         /\ Cardinality(A) = 0 <=> A = {}
<1>1. IsFiniteSet(1 .. n) /\ Cardinality(1 .. n) = n
  BY FS_Interval
<1>2. IsFiniteSet(A) /\ Cardinality(A) <= n
  BY ONLY <1>1, FS_Subset, A \in SUBSET (1 .. n)
<1>3. Cardinality(A) \in Nat
  BY <1>2, FS_CardinalityType
<1>4. Cardinality(A) = 0 <=> A = {}
  BY <1>2, FS_EmptySet
<1>5. \A B \in SUBSET A : Cardinality(B) <= Cardinality(A)
  BY <1>2, FS_Subset
<1>6. Cardinality(A) = n => A = 1 .. n
  BY <1>1, FS_Subset
<1> QED BY <1>2, <1>3, <1>4, <1>5, <1>6

\* No sample is above all bounds.
LEMMA SamplesAreBounded ==
  ASSUME NEW n \in Nat, NEW s, \A i \in 1 .. n : s[i] \in Nat
  PROVE  \E b \in Nat : \A i \in 1 .. n : s[i] <= b
<1> DEFINE S == {k \in 0 .. n : \E b \in Nat : \A i \in 1 .. k : s[i] <= b}
<1>1. 0 \in S
  OBVIOUS
<1>2. ASSUME NEW k \in 0 .. n - 1, k \in S PROVE k + 1 \in S
  <2>1. PICK b \in Nat : \A i \in 1 .. k : s[i] <= b
    BY <1>2
  <2> DEFINE l == k + 1
             c == b + s[l]
  <2>2. l \in 0 .. n /\ l \in 1 .. n /\ \A i \in 1 .. l : i \in 1 .. n /\ (i = l \/ i \in 1 .. k)
    OBVIOUS
  <2> HIDE DEF l
  <2>3. s[l] \in Nat
    BY <2>2
  <2>4. c \in Nat /\ \A i \in 1 .. l : s[i] <= c
    BY <2>1, <2>2, <2>3
  <2> HIDE DEF c
  <2>5. l \in S
    BY <2>2, <2>4
  <2> QED BY <2>5 DEF l
<1>3. \A k \in 0 .. n : k \in S
  <2> HIDE DEF S
  <2> QED BY <1>1, <1>2, InductionUpTo DEF Ascends
<1>4. n \in 0 .. n
  OBVIOUS
<1> QED BY <1>3, <1>4

\* The largest of some of the samples.
LEMMA LargestOfSamples ==
  ASSUME NEW n \in Nat, NEW s, \A i \in 1 .. n : s[i] \in Nat,
         NEW A \in SUBSET (1 .. n), A # {}
  PROVE  \E m \in A : \A i \in A : s[i] <= s[m]
<1> DEFINE Bounds == {b \in Nat : \A i \in A : s[i] <= b}
<1>1. Bounds # {}
  BY SamplesAreBounded
<1>2. PICK b \in Bounds : \A c \in Bounds : ~ (<<c, b>> \in OpToRel(<, Nat))
  <2>1. Bounds \in SUBSET Nat
    OBVIOUS
  <2> HIDE DEF Bounds
  <2> QED BY <1>1, <2>1, NatLessThanWellFounded, WFMin
<1>3. b \in Nat /\ \A i \in A : s[i] <= b
  BY <1>2
<1>4. ASSUME \A i \in A : s[i] # b PROVE FALSE
  <2>1. PICK j \in A : TRUE
    OBVIOUS
  <2> DEFINE c == b - 1
  <2>2. \A i \in A : s[i] \in Nat /\ s[i] < b
    BY <1>3, <1>4
  <2>3. c \in Nat /\ c < b
    BY <1>3, <2>1, <2>2
  <2>4. \A i \in A : s[i] <= c
    BY <1>3, <2>2
  <2> HIDE DEF c
  <2>5. c \in Bounds
    BY <2>3, <2>4
  <2> QED BY <1>2, <1>3, <2>3, <2>5 DEF OpToRel
<1>5. PICK m \in A : s[m] = b
  BY <1>4
<1> QED BY <1>3, <1>5

\* There is a sample for every place of the order.
LEMMA SortedIs ==
  ASSUME NEW n \in Nat, NEW s, DOMAIN s = 1 .. n, \A i \in 1 .. n : s[i] \in Nat,
         NEW place \in 1 .. n
  PROVE  /\ Sorted(s)[place] \in {s[i] : i \in 1 .. n}
         /\ Below(s, Sorted(s)[place]) < place
         /\ UpTo(s, Sorted(s)[place]) >= place
<1> DEFINE T == {v \in Nat : v \in {s[i] : i \in 1 .. n} /\ UpTo(s, v) >= place}
<1>1. T # {}
  <2>1. PICK m \in 1 .. n : \A i \in 1 .. n : s[i] <= s[m]
    BY LargestOfSamples
  <2>2. {i \in 1 .. n : s[i] <= s[m]} = 1 .. n
    BY <2>1
  <2>3. Cardinality(1 .. n) = n
    BY FS_Interval
  <2>4. UpTo(s, s[m]) = n
    BY <2>2, <2>3 DEF UpTo
  <2> QED BY <2>4
<1>2. PICK v \in T : \A u \in T : ~ (<<u, v>> \in OpToRel(<, Nat))
  <2>1. T \in SUBSET Nat
    OBVIOUS
  <2> HIDE DEF T
  <2> QED BY <1>1, <2>1, NatLessThanWellFounded, WFMin
<1>3. v \in Nat /\ v \in {s[i] : i \in 1 .. n} /\ UpTo(s, v) >= place
  BY <1>2
<1>4. Below(s, v) < place
  <2> DEFINE A == {i \in 1 .. n : s[i] < v}
  <2>1. Below(s, v) = Cardinality(A)
    BY DEF Below
  <2>2. Cardinality(A) \in Nat /\ (Cardinality(A) = 0 <=> A = {})
    <3>1. A \in SUBSET (1 .. n)
      OBVIOUS
    <3> HIDE DEF A
    <3> QED BY <3>1, SampleCounts
  <2>3. CASE A = {}
    BY <2>1, <2>2, <2>3
  <2>4. CASE A # {}
    <3>1. PICK m \in A : \A i \in A : s[i] <= s[m]
      BY <2>4, LargestOfSamples
    <3>2. A = {i \in 1 .. n : s[i] <= s[m]}
      BY <1>3, <3>1
    <3>3. UpTo(s, s[m]) = Cardinality(A)
      BY <3>2 DEF UpTo
    <3>4. s[m] \in Nat /\ s[m] < v /\ s[m] \in {s[i] : i \in 1 .. n}
      BY <3>1
    <3>5. s[m] \notin T
      BY <1>2, <1>3, <3>4 DEF OpToRel
    <3>6. ~ (UpTo(s, s[m]) >= place)
      BY <3>4, <3>5
    <3> HIDE DEF A
    <3> QED BY <2>1, <2>2, <3>3, <3>6
  <2> QED BY <2>3, <2>4
<1> DEFINE P(w) == Below(s, w) < place /\ UpTo(s, w) >= place
<1>5. Sorted(s)[place] = CHOOSE w \in {s[i] : i \in 1 .. n} : P(w)
  BY DEF Sorted, Range, Below, UpTo
<1>6. P(v)
  BY <1>3, <1>4
<1> HIDE DEF P
<1>7. P(Sorted(s)[place]) /\ Sorted(s)[place] \in {s[i] : i \in 1 .. n}
  BY <1>3, <1>5, <1>6
<1> QED BY <1>7 DEF P

\* The rank is the percentage of the count, rounded up, and one of its numbers.
LEMMA RankIs ==
  ASSUME NEW n \in Nat \ {0}, NEW percent \in 1 .. 100
  PROVE  /\ Rank(percent, n) \in 1 .. n
         /\ \A c \in Nat : 100 * c >= percent * n <=> c >= Rank(percent, n)
<1> DEFINE x == percent * n
           r == (x + 99) \div 100
<1>1. x \in Nat /\ x >= 1 /\ x <= 100 * n
  <2>1. x \in Nat
    OBVIOUS
  <2>2. percent * n >= 1 * n /\ percent * n <= 100 * n
    OBVIOUS
  <2> QED BY <2>1, <2>2
<1> HIDE DEF x
<1>2. r \in Int /\ 100 * r >= x /\ 100 * r < x + 100
  BY <1>1
<1>3. Rank(percent, n) = r
  BY DEF Rank, x
<1> HIDE DEF r
<1>4. r \in 1 .. n
  BY <1>1, <1>2
<1>5. \A c \in Nat : 100 * c >= x <=> c >= r
  BY <1>1, <1>2
<1> QED BY <1>3, <1>4, <1>5 DEF x

\* What is read at the rank of a percentage is the percentile.
LEMMA RankIsPercentile ==
  ASSUME NEW n \in Nat \ {0}, NEW s \in Seq(Nat), Len(s) = n, NEW percent \in 1 .. 100
  PROVE  IsPercentile(s, percent, nearest_rank_percentile(Sorted(s), percent))
<1> DEFINE r == Rank(percent, n)
           v == Sorted(s)[r]
<1>1. DOMAIN s = 1 .. n /\ \A i \in 1 .. n : s[i] \in Nat
  OBVIOUS
<1>2. r \in 1 .. n /\ \A c \in Nat : 100 * c >= percent * n <=> c >= r
  BY RankIs
<1>3. Len(Sorted(s)) = n
  BY <1>1 DEF Sorted
<1>4. nearest_rank_percentile(Sorted(s), percent) = v
  <2> HIDE DEF r
  <2>1. Rank(percent, Len(Sorted(s))) = r
    BY <1>3 DEF r
  <2> QED BY <1>2, <1>3, <2>1 DEF nearest_rank_percentile
<1> HIDE DEF r
<1>5. v \in {s[i] : i \in 1 .. n} /\ Below(s, v) < r /\ UpTo(s, v) >= r
  BY <1>1, <1>2, SortedIs
<1> HIDE DEF v
<1>6. \A w : UpTo(s, w) \in Nat
  <2> TAKE w
  <2>1. {i \in DOMAIN s : s[i] <= w} \in SUBSET (1 .. n)
    BY <1>1
  <2> QED BY <1>1, <2>1, SampleCounts DEF UpTo
<1>7. \A w : 100 * UpTo(s, w) >= percent * n <=> UpTo(s, w) >= r
  BY <1>2, <1>6
<1>8. ASSUME NEW i \in 1 .. n, UpTo(s, s[i]) >= r PROVE v <= s[i]
  <2> SUFFICES ASSUME s[i] < v PROVE FALSE
    BY <1>1, <1>5
  <2> DEFINE A == {j \in DOMAIN s : s[j] < v}
             B == {j \in DOMAIN s : s[j] <= s[i]}
  <2>1. A \in SUBSET (1 .. n) /\ B \in SUBSET A
    BY <1>1, <1>5
  <2>2. Cardinality(A) = Below(s, v) /\ Cardinality(B) = UpTo(s, s[i])
    BY DEF Below, UpTo
  <2> HIDE DEF A, B
  <2>3. Cardinality(B) <= Cardinality(A) /\ Cardinality(A) \in Nat
    BY <1>1, <2>1, SampleCounts
  <2>4. Cardinality(B) \in Nat /\ r \in Nat
    BY <1>2, <1>6, <2>2
  <2> QED BY <1>5, <1>8, <2>2, <2>3, <2>4
<1>9. \A w : 100 * Cardinality({i \in DOMAIN s : s[i] <= w}) >= percent * Len(s)
              <=> UpTo(s, w) >= r
  BY <1>7 DEF UpTo
<1>10. IsPercentile(s, percent, v)
  BY ONLY <1>1, <1>5, <1>8, <1>9 DEF IsPercentile
<1> QED BY <1>4, <1>10

\* What the summary of a capture says of its longest frame and of those above a limit.
LEMMA LargestIsLast ==
  ASSUME NEW n \in Nat \ {0}, NEW s \in Seq(Nat), Len(s) = n
  PROVE  /\ Sorted(s)[n] \in Nat
         /\ \A limit \in Nat :
              (Cardinality({i \in DOMAIN s : s[i] > limit}) = 0) = (Sorted(s)[n] <= limit)
<1> DEFINE v == Sorted(s)[n]
<1>1. DOMAIN s = 1 .. n /\ n \in 1 .. n /\ \A i \in 1 .. n : s[i] \in Nat
  OBVIOUS
<1>2. v \in {s[i] : i \in 1 .. n} /\ UpTo(s, v) >= n
  BY <1>1, SortedIs
<1> HIDE DEF v
<1>3. \A i \in 1 .. n : s[i] <= v
  <2> DEFINE A == {i \in DOMAIN s : s[i] <= v}
  <2>1. A \in SUBSET (1 .. n) /\ Cardinality(A) = UpTo(s, v)
    BY <1>1 DEF UpTo
  <2>2. A = 1 .. n
    <3> HIDE DEF A
    <3>1. Cardinality(A) \in 0 .. n /\ (Cardinality(A) = n => A = 1 .. n)
      BY <1>1, <2>1, SampleCounts
    <3> QED BY <1>2, <2>1, <3>1
  <2> QED BY <2>2
<1>4. ASSUME NEW limit \in Nat
      PROVE  (Cardinality({i \in DOMAIN s : s[i] > limit}) = 0) = (v <= limit)
  <2> DEFINE A == {i \in DOMAIN s : s[i] > limit}
  <2>1. A \in SUBSET (1 .. n)
    BY <1>1
  <2>2. A = {} <=> v <= limit
    BY <1>1, <1>2, <1>3
  <2> HIDE DEF A
  <2>3. Cardinality(A) = 0 <=> A = {}
    BY <1>1, <2>1, SampleCounts
  <2> QED BY <2>2, <2>3 DEF A
<1> QED BY <1>1, <1>2, <1>4 DEF v

(***************************************************************************)
(* What a parser has accepted                                               *)
(***************************************************************************)
\* A value that an option with a value accepts.
ServesAs(grammar, option, value) ==
  /\ value \in DOMAIN Numeral
  /\ option \in grammar.counts => Numeral[value] \in Nat \ {0}

IsParserState(s) == s \in [given : {s.given}, waiting : {s.waiting}, error : {s.error}]

\* The values a parser has taken so far are arguments that may be values, and its
\* counts are not zero.
TakesValues(grammar, s) ==
  /\ IsParserState(s)
  /\ s.error = "None" =>
       /\ s.waiting \in grammar.valued \cup {"none"}
       /\ \A option \in DOMAIN s.given : option \in grammar.valued =>
            ServesAs(grammar, option, s.given[option])

\* One more argument does not change that.
LEMMA TakeTakesValues ==
  ASSUME NEW grammar, ~ grammar.greedy, grammar.valued \cap grammar.flags = {},
         grammar.valued \cap DisplayModes = {}, "display" \notin grammar.valued,
         NEW s, NEW argument, TakesValues(grammar, s)
  PROVE  TakesValues(grammar, Take(grammar, s, argument))
<1> USE DEF TakesValues
<1>1. \A e : e # "None" => TakesValues(grammar, Fails(s, e))
  BY DEF Fails, IsParserState
<1>2. ASSUME NEW option, NEW value, s.error = "None",
             option \in grammar.valued => ServesAs(grammar, option, value)
      PROVE  TakesValues(grammar, Gives(s, option, value))
  <2> DEFINE given == WithSetting(s.given, Setting(option), value)
  <2>1. Gives(s, option, value) \in [given : {given}, waiting : {"none"}, error : {s.error}]
    <3> HIDE DEF given
    <3>1. s \in [given : {s.given}, waiting : {s.waiting}, error : {s.error}]
      BY DEF IsParserState
    <3> HIDE DEF TakesValues
    <3>2. \A g : [s EXCEPT !.given = g, !.waiting = "none"]
                   \in [given : {g}, waiting : {"none"}, error : {s.error}]
      BY <3>1
    <3> QED BY <3>2 DEF Gives, given
  <2>2. Setting(option) \in grammar.valued => Setting(option) = option
    BY DEF Setting
  <2>3. \A x \in DOMAIN given : x \in grammar.valued => ServesAs(grammar, x, given[x])
    BY <1>2, <2>2 DEF WithSetting
  <2> HIDE DEF given
  <2>4. /\ Gives(s, option, value).given = given
        /\ Gives(s, option, value).waiting = "none"
        /\ Gives(s, option, value).error = s.error
    BY <2>1
  <2>5. IsParserState(Gives(s, option, value))
    BY <2>1, <2>4 DEF IsParserState
  <2> QED BY <2>3, <2>4, <2>5
<1>3. CASE s.error # "None"
  BY <1>3 DEF Take
<1>4. CASE s.error = "None" /\ s.waiting # "none"
  <2>1. Take(grammar, s, argument) = TakeValue(grammar, s, argument)
    BY <1>4 DEF Take
  <2>2. s.waiting \in grammar.valued
    BY <1>4
  <2>3. \A value \in DOMAIN Numeral : Numeral[value] \in Nat
    BY NumeralAssumption
  <2> QED BY <1>1, <1>2, <1>4, <2>1, <2>2, <2>3 DEF TakeValue, ServesAs
<1>5. CASE s.error = "None" /\ s.waiting = "none"
  <2>1. Take(grammar, s, argument) = TakeOption(grammar, s, argument)
    BY <1>5 DEF Take
  <2>2. argument \in grammar.valued =>
          TakesValues(grammar, [s EXCEPT !.waiting = argument])
    BY <1>5 DEF IsParserState
  <2> QED BY <1>1, <1>2, <1>5, <2>1, <2>2 DEF TakeOption
<1> QED BY <1>3, <1>4, <1>5

\* Where the probe takes a value, it has an argument that may be one.
LEMMA ProbeValuesServe ==
  ASSUME NEW n \in Nat, NEW line_, DOMAIN line_ = 1 .. n,
         Parse(ProbeGrammar, line_).error = "None"
  PROVE  \A option \in DOMAIN Parse(ProbeGrammar, line_).given :
           option \in ProbeGrammar.valued =>
             ServesAs(ProbeGrammar, option, Parse(ProbeGrammar, line_).given[option])
<1> DEFINE grammar == ProbeGrammar
<1>1. PICK t : /\ t[0] = Nothing
               /\ \A k \in 1 .. n : t[k] = Take(grammar, t[k - 1], line_[k])
               /\ Parse(grammar, line_) = Finish(grammar, t[n])
  BY ParserTrace
<1>2. /\ ~ grammar.greedy /\ grammar.valued \cap grammar.flags = {}
      /\ grammar.valued \cap DisplayModes = {} /\ "display" \notin grammar.valued
  BY DEF ProbeGrammar, DisplayModes
<1> HIDE DEF grammar
<1> DEFINE S == {k \in Nat : k <= n => TakesValues(grammar, t[k])}
<1>3. 0 \in S
  BY <1>1 DEF TakesValues, Nothing, IsParserState
<1>4. ASSUME NEW k \in Nat, k \in S PROVE k + 1 \in S
  <2>1. SUFFICES ASSUME k + 1 <= n PROVE TakesValues(grammar, t[k + 1])
    OBVIOUS
  <2>2. TakesValues(grammar, t[k])
    BY <1>4, <2>1
  <2>3. t[k + 1] = Take(grammar, t[k], line_[k + 1])
    BY <1>1, <2>1
  <2> QED BY <1>2, <2>2, <2>3, TakeTakesValues
<1>5. TakesValues(grammar, t[n])
  <2>1. n \in S
    <3> HIDE DEF S
    <3> QED BY <1>3, <1>4, Induction
  <2> QED BY <2>1
<1>6. \A e : e # "None" => Fails(t[n], e).error = e
  BY <1>5 DEF TakesValues, IsParserState, Fails
<1>7. Finish(grammar, t[n]).error = "None" =>
        Finish(grammar, t[n]) = t[n] /\ t[n].error = "None"
  BY <1>6 DEF Finish
<1> QED BY <1>1, <1>5, <1>7 DEF TakesValues, grammar

(***************************************************************************)
(* What a parser reads is what the line means                               *)
(***************************************************************************)
\* What tells the options of a grammar apart.
IsGrammar(g) ==
  /\ g.valued \cap g.flags = {} /\ "none" \notin Options(g) /\ "display" \notin Options(g)
  /\ DisplayModes \cap g.valued = {} /\ DisplayModes \cap Options(g) \subseteq g.repeatable
  /\ g.greedy \in BOOLEAN /\ (g.greedy => g.counts = {})
  /\ g.required \subseteq Options(g) /\ g.required \cap DisplayModes = {}

LEMMA TheirGrammars ==
  ASSUME NEW p \in DOMAIN GrammarOf
  PROVE  IsGrammar(GrammarOf[p])
<1>1. IsGrammar(AnalyzeGrammar)
  BY DEF IsGrammar, AnalyzeGrammar, Options, DisplayModes
<1>2. IsGrammar(ProbeGrammar)
  BY DEF IsGrammar, ProbeGrammar, Options, DisplayModes
<1>3. IsGrammar(GameGrammar)
  BY DEF IsGrammar, GameGrammar, GameOptions, Options, DisplayModes
<1> QED BY <1>1, <1>2, <1>3 DEF GrammarOf

\* Which arguments are values is well defined.
LEMMA ValuesAreDefined ==
  ASSUME NEW g, NEW n \in Nat, NEW a, DOMAIN a = 1 .. n
  PROVE  \A i \in 1 .. n :
           IsValue(g, a)[i] = (i > 1 /\ a[i - 1] \in g.valued /\ ~ IsValue(g, a)[i - 1])
<1> DEFINE Body(f, i) == i > 1 /\ a[i - 1] \in g.valued /\ ~ f[i - 1]
           Upto(f, k) == \A i \in 1 .. k : f[i] = Body(f, i)
           S == {k \in 0 .. n : \E f : Upto(f, k)}
<1>1. 0 \in S
  OBVIOUS
<1>2. ASSUME NEW k \in 0 .. n - 1, k \in S PROVE k + 1 \in S
  <2>1. PICK f : Upto(f, k)
    BY <1>2
  <2> DEFINE m == k + 1
             h == [i \in 1 .. m |-> IF i = m THEN Body(f, m) ELSE f[i]]
  <2>2. m \in 0 .. n
    OBVIOUS
  <2>3. ASSUME NEW i \in 1 .. m PROVE h[i] = Body(h, i)
    <3> DEFINE j == i - 1
    <3>1. i > 1 => j \in 1 .. m /\ j # m
      OBVIOUS
    <3> HIDE DEF m
    <3>2. i > 1 => h[j] = f[j]
      BY <3>1
    <3>3. Body(h, i) = Body(f, i)
      BY <3>2
    <3> HIDE DEF Body
    <3>4. CASE i = m
      BY <3>3, <3>4
    <3>5. CASE i # m
      <4>1. i \in 1 .. k
        BY <3>5 DEF m
      <4>2. f[i] = Body(f, i)
        BY <2>1, <4>1
      <4> QED BY <3>3, <3>5, <4>2
    <3> QED BY <3>4, <3>5
  <2>4. Upto(h, m)
    <3> HIDE DEF h, m, Body
    <3> QED BY <2>3
  <2> HIDE DEF Upto, h
  <2> QED BY <2>2, <2>4
<1>3. PICK f : Upto(f, n)
  <2>1. \A k \in 0 .. n : k \in S
    <3> HIDE DEF S
    <3> QED BY <1>1, <1>2, InductionUpTo DEF Ascends
  <2>2. n \in 0 .. n
    OBVIOUS
  <2> HIDE DEF Upto
  <2> QED BY <2>1, <2>2
<1> DEFINE u == CHOOSE f_ : f_ = [i \in 1 .. n |-> Body(f_, i)]
           e == [i \in 1 .. n |-> f[i]]
<1>4. e = [i \in 1 .. n |-> Body(e, i)]
  <2>1. ASSUME NEW i \in 1 .. n PROVE e[i] = Body(e, i)
    <3> DEFINE j == i - 1
    <3>1. i > 1 => e[j] = f[j]
      OBVIOUS
    <3>2. f[i] = Body(f, i)
      BY <1>3
    <3>3. Body(e, i) = Body(f, i)
      BY <3>1
    <3> HIDE DEF Body
    <3> QED BY <3>2, <3>3
  <2> HIDE DEF Body
  <2> QED BY <2>1
<1>5. u = [i \in 1 .. n |-> Body(u, i)]
  <2> HIDE DEF Body, e
  <2> QED BY <1>4
<1>6. \A i \in 1 .. n : u[i] = Body(u, i)
  <2> HIDE DEF u, Body
  <2> DEFINE w == [i \in 1 .. n |-> Body(u, i)]
  <2>1. \A i \in 1 .. n : w[i] = Body(u, i)
    OBVIOUS
  <2> HIDE DEF w
  <2> QED BY <1>5, <2>1 DEF w
<1>7. IsValue(g, a) = u
  BY DEF IsValue
<1> HIDE DEF u
<1> QED BY <1>6, <1>7

\* The arguments of a line, up to the k-th: v tells the values from the options.
OkAt(g, a, v, i) ==
  IF v[i]
    THEN /\ a[i] \in DOMAIN Numeral \/ g.greedy
         /\ a[i - 1] \in g.counts => Numeral[a[i]] > 0
    ELSE /\ a[i] \in Options(g)
         /\ \A j \in 1 .. i - 1 : ~ v[j] /\ a[j] = a[i] => a[i] \in g.repeatable

Done(g, a, v, k) == {i \in 1 .. k : ~ v[i] /\ (a[i] \in g.valued => i < k)}

ValueOf(g, a, i) == IF a[i] \in g.valued THEN a[i + 1] ELSE a[i]

IsLatest(a, D, i) == \A j \in D : Setting(a[j]) = Setting(a[i]) => j <= i

\* The settings f are those of the options D, the later ones before the earlier ones.
Means(g, a, D, f) ==
  /\ f = [s \in DOMAIN f |-> f[s]]
  /\ DOMAIN f = {Setting(a[i]) : i \in D}
  /\ \A i \in D : IsLatest(a, D, i) => f[Setting(a[i])] = ValueOf(g, a, i)

\* A parser that has read k arguments.
Reads(g, a, v, k, s) ==
  /\ IsParserState(s)
  /\ s.error = "None" <=> \A i \in 1 .. k : OkAt(g, a, v, i)
  /\ s.error = "None" =>
       /\ s.waiting = IF k >= 1 /\ ~ v[k] /\ a[k] \in g.valued THEN a[k] ELSE "none"
       /\ Means(g, a, Done(g, a, v, k), s.given)

\* How a state of a parser changes.
LEMMA StateChanges ==
  ASSUME NEW s, IsParserState(s)
  PROVE  /\ \A e : LET r == Fails(s, e) IN IsParserState(r) /\ r.error = e
         /\ \A option, value : LET r == Gives(s, option, value)
              IN  /\ IsParserState(r) /\ r.error = s.error /\ r.waiting = "none"
                  /\ r.given = WithSetting(s.given, Setting(option), value)
         /\ \A option : LET r == [s EXCEPT !.waiting = option]
              IN  /\ IsParserState(r) /\ r.error = s.error /\ r.waiting = option
                  /\ r.given = s.given
<1>1. s \in [given : {s.given}, waiting : {s.waiting}, error : {s.error}]
  BY DEF IsParserState
<1>2. \A e : LET r == Fails(s, e) IN IsParserState(r) /\ r.error = e
  BY <1>1 DEF Fails, IsParserState
<1>3. \A option : LET r == [s EXCEPT !.waiting = option]
         IN  /\ IsParserState(r) /\ r.error = s.error /\ r.waiting = option
             /\ r.given = s.given
  BY <1>1 DEF IsParserState
<1>4. ASSUME NEW option, NEW value
      PROVE  LET r == Gives(s, option, value)
             IN  /\ IsParserState(r) /\ r.error = s.error /\ r.waiting = "none"
                 /\ r.given = WithSetting(s.given, Setting(option), value)
  <2> DEFINE given == WithSetting(s.given, Setting(option), value)
             r == Gives(s, option, value)
  <2>1. r \in [given : {given}, waiting : {"none"}, error : {s.error}]
    <3> HIDE DEF given
    <3>1. \A f : [s EXCEPT !.given = f, !.waiting = "none"]
                   \in [given : {f}, waiting : {"none"}, error : {s.error}]
      BY <1>1
    <3> QED BY <3>1 DEF Gives, given
  <2> HIDE DEF r, given
  <2>2. r.given = given /\ r.waiting = "none" /\ r.error = s.error
    BY <2>1
  <2>3. IsParserState(r)
    BY <2>1, <2>2 DEF IsParserState
  <2> QED BY <2>2, <2>3 DEF r, given
<1> QED BY <1>2, <1>3, <1>4

\* One more setting, by an option that is later than all others.
LEMMA MeansMore ==
  ASSUME NEW g, NEW a, NEW D \in SUBSET Nat, NEW f, Means(g, a, D, f),
         NEW l \in Nat, \A i \in D : i < l
  PROVE  Means(g, a, D \cup {l}, WithSetting(f, Setting(a[l]), ValueOf(g, a, l)))
<1> DEFINE s == Setting(a[l])
           h == WithSetting(f, s, ValueOf(g, a, l))
           E == D \cup {l}
<1> HIDE DEF s
<1>1. DOMAIN h = DOMAIN f \cup {s} /\ h = [x \in DOMAIN h |-> h[x]]
  BY DEF WithSetting
<1>2. h[s] = ValueOf(g, a, l) /\ \A x \in DOMAIN f : x # s => h[x] = f[x]
  BY DEF WithSetting
<1> HIDE DEF h
<1>3. DOMAIN h = {Setting(a[i]) : i \in E}
  BY <1>1 DEF Means, s
<1>4. ASSUME NEW i \in E, IsLatest(a, E, i)
      PROVE  h[Setting(a[i])] = ValueOf(g, a, i)
  <2>1. CASE i = l
    BY <1>2, <2>1 DEF s
  <2>2. CASE i # l
    <3>1. i \in D /\ i < l
      BY <2>2
    <3>2. Setting(a[i]) # s
      BY <1>4, <3>1 DEF s, IsLatest
    <3>3. f[Setting(a[i])] = ValueOf(g, a, i) /\ Setting(a[i]) \in DOMAIN f
      BY <1>4, <3>1 DEF Means, IsLatest
    <3> QED BY <1>2, <3>2, <3>3
  <2> QED BY <2>1, <2>2
<1> QED BY <1>1, <1>3, <1>4 DEF Means, h, s

\* One argument more.
LEMMA TakeReads ==
  ASSUME NEW g, IsGrammar(g), NEW n \in Nat, NEW a, DOMAIN a = 1 .. n, NEW v,
         \A i \in 1 .. n : v[i] = (i > 1 /\ a[i - 1] \in g.valued /\ ~ v[i - 1]),
         NEW k \in 0 .. n - 1, NEW s, Reads(g, a, v, k, s)
  PROVE  Reads(g, a, v, k + 1, Take(g, s, a[k + 1]))
<1> DEFINE l == k + 1
           x == a[l]
           r == Take(g, s, x)
<1>1. /\ l \in 1 .. n /\ l - 1 = k /\ l >= 1 /\ l \in Nat /\ k \in Nat
      /\ \A i \in 1 .. l : i = l \/ i \in 1 .. k
      /\ 1 .. k \subseteq 1 .. l /\ l \in 1 .. l /\ 1 .. k \subseteq 1 .. n
      /\ k >= 1 => k \in 1 .. k
  OBVIOUS
<1>2. IsParserState(s)
  BY DEF Reads
<1>3. v[l] = (k >= 1 /\ a[k] \in g.valued /\ ~ v[k])
  BY <1>1
<1> HIDE DEF l
<1>4. (\A i \in 1 .. l : OkAt(g, a, v, i)) <=> (\A i \in 1 .. k : OkAt(g, a, v, i)) /\ OkAt(g, a, v, l)
  BY <1>1
<1>5. CASE s.error # "None"
  <2>1. r = s
    BY <1>5 DEF Take
  <2> QED BY <1>1, <1>2, <1>4, <1>5, <2>1 DEF Reads, l
<1>6. CASE s.error = "None"
  <2> DEFINE D == Done(g, a, v, k)
             E == Done(g, a, v, l)
  <2>1. /\ \A i \in 1 .. k : OkAt(g, a, v, i)
        /\ s.waiting = IF k >= 1 /\ ~ v[k] /\ a[k] \in g.valued THEN a[k] ELSE "none"
        /\ Means(g, a, D, s.given)
    BY <1>6 DEF Reads
  <2>2. D \in SUBSET Nat /\ \A i \in D : i \in 1 .. k
    BY DEF Done
  <2>3. \A i \in 1 .. k : ~ v[i] => a[i] \in Options(g)
    BY <2>1 DEF OkAt
  <2>4. CASE v[l]
    <3>1. k >= 1 /\ a[k] \in g.valued /\ ~ v[k] /\ k \in 1 .. k
      BY <1>1, <1>3, <2>4
    <3>2. s.waiting = a[k] /\ a[k] # "none" /\ Setting(a[k]) = a[k]
      BY <2>1, <3>1 DEF IsGrammar, Options, Setting
    <3>3. r = TakeValue(g, s, x)
      BY <1>6, <3>2 DEF Take
    <3>4. OkAt(g, a, v, l) <=> /\ x \in DOMAIN Numeral \/ g.greedy
                               /\ a[k] \in g.counts => Numeral[x] > 0
      BY <1>1, <2>4 DEF OkAt
    <3>5. x \in DOMAIN Numeral => Numeral[x] \in Nat
      BY NumeralAssumption
    <3>6. g.greedy \in BOOLEAN /\ (g.greedy => g.counts = {})
      BY DEF IsGrammar
    <3>7. CASE OkAt(g, a, v, l)
      <4>1. r = Gives(s, a[k], x)
        BY <3>2, <3>3, <3>4, <3>5, <3>6, <3>7 DEF TakeValue
      <4>2. /\ IsParserState(r) /\ r.error = "None" /\ r.waiting = "none"
            /\ r.given = WithSetting(s.given, Setting(a[k]), x)
        BY <1>2, <1>6, <4>1, StateChanges
      <4>3. E = D \cup {k}
        <5>1. \A i \in 1 .. k : i < l
          BY <1>1
        <5>2. \A i \in 1 .. k : i # k => i < k
          BY <1>1
        <5> QED BY <1>1, <2>4, <3>1, <5>1, <5>2 DEF Done
      <4>4. ValueOf(g, a, k) = x
        BY <1>1, <3>1 DEF ValueOf, l
      <4>5. \A i \in D : i < k
        BY <1>1, <3>1 DEF Done
      <4> HIDE DEF D, E
      <4>6. Means(g, a, D \cup {k}, WithSetting(s.given, Setting(a[k]), ValueOf(g, a, k)))
        BY <1>1, <2>1, <2>2, <4>5, MeansMore
      <4>7. Means(g, a, E, r.given)
        BY <4>2, <4>3, <4>4, <4>6
      <4> QED BY <1>1, <1>4, <2>1, <2>4, <3>7, <4>2, <4>7 DEF Reads, E, l
    <3>8. CASE ~ OkAt(g, a, v, l)
      <4>1. r = Fails(s, "MissingValue") \/ r = Fails(s, "InvalidCount")
        BY <3>2, <3>3, <3>4, <3>5, <3>6, <3>8 DEF TakeValue
      <4>2. IsParserState(r) /\ r.error # "None"
        BY <1>2, <4>1, StateChanges
      <4> QED BY <1>4, <3>8, <4>2 DEF Reads, l
    <3> QED BY <3>7, <3>8
  <2>5. CASE ~ v[l]
    <3>1. s.waiting = "none"
      BY <1>1, <1>3, <2>1, <2>5
    <3>2. r = TakeOption(g, s, x)
      BY <1>6, <3>1 DEF Take
    <3>3. D = {i \in 1 .. k : ~ v[i]}
      <4>1. \A i \in 1 .. k : i # k => i < k
        BY <1>1
      <4>2. k >= 1 /\ ~ v[k] => a[k] \notin g.valued
        BY <1>3, <2>5
      <4>3. \A i \in 1 .. k : ~ v[i] => (a[i] \in g.valued => i < k)
        BY <1>1, <4>1, <4>2
      <4> QED BY <4>3 DEF Done
    <3>4. DOMAIN s.given = {Setting(a[i]) : i \in D}
      BY <2>1 DEF Means
    <3>5. x \in Options(g) =>
            (x \in DOMAIN s.given \ g.repeatable <=>
               \E i \in 1 .. k : ~ v[i] /\ a[i] = x /\ x \notin g.repeatable)
      BY <3>3, <3>4 DEF IsGrammar, Setting
    <3>6. OkAt(g, a, v, l) <=> /\ x \in Options(g)
                               /\ ~ \E i \in 1 .. k : ~ v[i] /\ a[i] = x /\ x \notin g.repeatable
      BY <1>1, <2>5 DEF OkAt
    <3>7. CASE OkAt(g, a, v, l) /\ x \in g.flags
      <4>1. r = Gives(s, x, x) /\ x \notin g.valued
        BY <3>2, <3>5, <3>6, <3>7 DEF TakeOption, IsGrammar
      <4>2. /\ IsParserState(r) /\ r.error = "None" /\ r.waiting = "none"
            /\ r.given = WithSetting(s.given, Setting(x), x)
        BY <1>2, <1>6, <4>1, StateChanges
      <4>3. E = D \cup {l}
        <5>1. \A i \in 1 .. k : i < l
          BY <1>1
        <5> QED BY <1>1, <2>5, <3>3, <4>1, <5>1 DEF Done
      <4>4. ValueOf(g, a, l) = x
        BY <4>1 DEF ValueOf
      <4>5. \A i \in D : i < l
        BY <1>1, <2>2
      <4> HIDE DEF D, E
      <4>6. Means(g, a, D \cup {l}, WithSetting(s.given, Setting(a[l]), ValueOf(g, a, l)))
        BY <1>1, <2>1, <2>2, <4>5, MeansMore
      <4>7. Means(g, a, E, r.given)
        BY <4>2, <4>3, <4>4, <4>6
      <4> QED BY <1>1, <1>4, <2>1, <3>7, <4>1, <4>2, <4>7 DEF Reads, E, l
    <3>8. CASE OkAt(g, a, v, l) /\ x \notin g.flags
      <4>1. r = [s EXCEPT !.waiting = x] /\ x \in g.valued
        BY <3>2, <3>5, <3>6, <3>8 DEF TakeOption, IsGrammar, Options
      <4>2. IsParserState(r) /\ r.error = "None" /\ r.waiting = x /\ r.given = s.given
        BY <1>2, <1>6, <4>1, StateChanges
      <4>3. E = D
        <5>1. (\A i \in 1 .. k : i < l) /\ ~ (l < l)
          BY <1>1
        <5> QED BY <1>1, <3>3, <4>1, <5>1 DEF Done
      <4> QED BY <1>1, <1>4, <2>1, <2>5, <3>8, <4>1, <4>2, <4>3 DEF Reads, l
    <3>9. CASE ~ OkAt(g, a, v, l)
      <4>1. r = Fails(s, "DuplicateOption") \/ r = Fails(s, "UnknownOption")
        BY <3>2, <3>5, <3>6, <3>9 DEF TakeOption, Options
      <4>2. IsParserState(r) /\ r.error # "None"
        BY <1>2, <4>1, StateChanges
      <4> QED BY <1>4, <3>9, <4>2 DEF Reads, l
    <3> QED BY <3>7, <3>8, <3>9
  <2> QED BY <2>4, <2>5
<1> QED BY <1>5, <1>6

\* There is a latest option for a setting.
LEMMA LatestOption ==
  ASSUME NEW n \in Nat, NEW a, NEW D \in SUBSET (1 .. n), NEW i \in D
  PROVE  \E l \in D : IsLatest(a, D, l) /\ Setting(a[l]) = Setting(a[i])
<1> DEFINE A == {j \in D : Setting(a[j]) = Setting(a[i])}
<1>1. A \in SUBSET (1 .. n) /\ A # {}
  OBVIOUS
<1>2. Max(A) \in A /\ \A j \in A : Max(A) >= j
  <2> HIDE DEF A
  <2> QED BY <1>1, MaxOfSubset
<1>3. \A j \in D : j \in Nat
  OBVIOUS
<1> QED BY <1>2, <1>3 DEF IsLatest

\* The settings of a line that has been read are its meaning.
LEMMA MeansIsMeaning ==
  ASSUME NEW g, NEW n \in Nat, NEW a, DOMAIN a = 1 .. n, NEW f,
         Means(g, a, {i \in 1 .. n : ~ IsValue(g, a)[i]}, f)
  PROVE  f = Meaning(g, a)
<1> DEFINE D == {i \in 1 .. n : ~ IsValue(g, a)[i]}
           Of(s) == {i \in D : Setting(a[i]) = s}
           Latest(s) == CHOOSE i \in Of(s) : \A j \in Of(s) : j <= i
           M == [s \in {Setting(a[i]) : i \in D} |-> ValueOf(g, a, Latest(s))]
<1>1. Meaning(g, a) = M
  BY DEF Meaning, ValueOf
<1>2. ASSUME NEW s \in {Setting(a[i]) : i \in D}
      PROVE  f[s] = M[s]
  <2>2. D \in SUBSET (1 .. n)
    OBVIOUS
  <2> HIDE DEF D
  <2>1. PICK i \in D : s = Setting(a[i])
    OBVIOUS
  <2>3. \E l \in D : IsLatest(a, D, l) /\ Setting(a[l]) = s
    <3>1. \E l \in D : IsLatest(a, D, l) /\ Setting(a[l]) = Setting(a[i])
      BY ONLY n \in Nat, <2>1, <2>2, LatestOption
    <3> QED BY <2>1, <3>1
  <2>4. \E l \in Of(s) : \A j \in Of(s) : j <= l
    BY <2>3 DEF IsLatest
  <2> DEFINE l == Latest(s)
  <2>5. l \in Of(s) /\ \A j \in Of(s) : j <= l
    BY <2>4
  <2>6. M[s] = ValueOf(g, a, l)
    BY DEF D
  <2> HIDE DEF l
  <2>7. l \in D /\ Setting(a[l]) = s /\ IsLatest(a, D, l)
    BY <2>5 DEF IsLatest
  <2>8. f[Setting(a[l])] = ValueOf(g, a, l)
    BY <2>7 DEF Means, D
  <2> QED BY <2>6, <2>7, <2>8
<1>3. f = [s \in DOMAIN f |-> f[s]] /\ DOMAIN f = {Setting(a[i]) : i \in D}
  BY DEF Means
<1>4. DOMAIN M = {Setting(a[i]) : i \in D} /\ M = [s \in DOMAIN M |-> M[s]]
  OBVIOUS
<1> HIDE DEF M, D
<1> QED BY <1>1, <1>2, <1>3, <1>4

\* Each parser accepts the lines that are acceptable and makes of them what they mean.
LEMMA ParseMeans ==
  ASSUME NEW g, IsGrammar(g), NEW n \in Nat, NEW a, DOMAIN a = 1 .. n, Len(a) = n
  PROVE  /\ Parse(g, a).error = "None" <=> Acceptable(g, a)
         /\ Parse(g, a).error = "None" => Parse(g, a).given = Meaning(g, a)
<1> DEFINE v == IsValue(g, a)
<1>1. \A i \in 1 .. n : v[i] = (i > 1 /\ a[i - 1] \in g.valued /\ ~ v[i - 1])
  BY ValuesAreDefined
<1> HIDE DEF v
<1>2. PICK t : /\ t[0] = Nothing
               /\ \A k \in 1 .. n : t[k] = Take(g, t[k - 1], a[k])
               /\ Parse(g, a) = Finish(g, t[n])
  BY ParserTrace
<1> DEFINE S == {k \in 0 .. n : Reads(g, a, v, k, t[k])}
<1>3. 0 \in S
  <2>1. /\ IsParserState(Nothing) /\ Nothing.error = "None" /\ Nothing.waiting = "none"
        /\ Nothing.given = <<>> /\ DOMAIN <<>> = {} /\ <<>> = [s \in {} |-> <<>>[s]]
    BY DEF Nothing, IsParserState
  <2>2. Done(g, a, v, 0) = {}
    BY DEF Done
  <2>3. Means(g, a, {}, <<>>)
    BY <2>1 DEF Means
  <2> QED BY <1>2, <2>1, <2>2, <2>3 DEF Reads
<1>4. ASSUME NEW k \in 0 .. n - 1, k \in S PROVE k + 1 \in S
  <2> DEFINE l == k + 1
  <2>1. l \in 1 .. n /\ l \in 0 .. n /\ l - 1 = k
    OBVIOUS
  <2>2. t[l] = Take(g, t[k], a[l])
    BY <1>2, <2>1
  <2>3. Reads(g, a, v, k + 1, Take(g, t[k], a[k + 1]))
    BY <1>1, <1>4, TakeReads
  <2> QED BY <2>1, <2>2, <2>3
<1>5. Reads(g, a, v, n, t[n])
  <2>1. \A k \in 0 .. n : k \in S
    <3> HIDE DEF S
    <3> QED BY <1>3, <1>4, InductionUpTo DEF Ascends
  <2>2. n \in 0 .. n
    OBVIOUS
  <2> QED BY <2>1, <2>2
<1> DEFINE s == t[n]
           D == {i \in 1 .. n : ~ v[i]}
<1> HIDE DEF s
<1>6. /\ IsParserState(s) /\ (s.error = "None" <=> \A i \in 1 .. n : OkAt(g, a, v, i))
      /\ s.error = "None" =>
           /\ s.waiting = IF n >= 1 /\ ~ v[n] /\ a[n] \in g.valued THEN a[n] ELSE "none"
           /\ Means(g, a, Done(g, a, v, n), s.given)
  BY <1>5 DEF Reads, s
<1>7. Acceptable(g, a) <=>
        /\ \A i \in 1 .. n : OkAt(g, a, v, i)
        /\ \A i \in D : a[i] \in g.valued => i < n
        /\ \/ \E i \in D : a[i] = "--help"
           \/ \A required \in g.required : \E i \in D : a[i] = required
  <2>1. /\ \A i \in D : a[i] \in Options(g)
        /\ \A i, j \in D : i # j /\ a[i] = a[j] => a[i] \in g.repeatable
        /\ \A i \in (1 .. n) \ D : /\ a[i] \in DOMAIN Numeral \/ g.greedy
                                   /\ a[i - 1] \in g.counts => Numeral[a[i]] > 0
        <=> \A i \in 1 .. n : OkAt(g, a, v, i)
    <3>1. ASSUME \A i \in D : a[i] \in Options(g),
                 \A i, j \in D : i # j /\ a[i] = a[j] => a[i] \in g.repeatable,
                 \A i \in (1 .. n) \ D : /\ a[i] \in DOMAIN Numeral \/ g.greedy
                                         /\ a[i - 1] \in g.counts => Numeral[a[i]] > 0,
                 NEW i \in 1 .. n
          PROVE  OkAt(g, a, v, i)
      <4>1. \A j \in 1 .. i - 1 : j \in 1 .. n /\ j # i
        OBVIOUS
      <4> QED BY <3>1, <4>1 DEF OkAt
    <3>2. ASSUME \A i \in 1 .. n : OkAt(g, a, v, i)
          PROVE  /\ \A i \in D : a[i] \in Options(g)
                 /\ \A i, j \in D : i # j /\ a[i] = a[j] => a[i] \in g.repeatable
                 /\ \A i \in (1 .. n) \ D : /\ a[i] \in DOMAIN Numeral \/ g.greedy
                                            /\ a[i - 1] \in g.counts => Numeral[a[i]] > 0
      <4>1. ASSUME NEW i \in D, NEW j \in D, i # j, a[i] = a[j] PROVE a[i] \in g.repeatable
        <5>1. i \in 1 .. j - 1 \/ j \in 1 .. i - 1
          BY <4>1
        <5> QED BY <3>2, <4>1, <5>1 DEF OkAt
      <4>2. \A i \in D : a[i] \in Options(g)
        BY <3>2 DEF OkAt
      <4>3. \A i \in (1 .. n) \ D : /\ a[i] \in DOMAIN Numeral \/ g.greedy
                                    /\ a[i - 1] \in g.counts => Numeral[a[i]] > 0
        BY <3>2 DEF OkAt
      <4> QED BY <4>1, <4>2, <4>3
    <3> QED BY <3>1, <3>2
  <2> QED BY <2>1 DEF Acceptable, v
<1>8. Parse(g, a) = Finish(g, s) /\ \A e : Fails(s, e).error = e
  BY <1>2, <1>6, StateChanges DEF s
<1>9. CASE s.error # "None"
  <2>1. Parse(g, a) = s
    BY <1>8, <1>9 DEF Finish
  <2> QED BY <1>6, <1>7, <1>9, <2>1
<1>10. CASE s.error = "None" /\ s.waiting # "none"
  <2>1. n \in D /\ a[n] \in g.valued /\ ~ (n < n)
    BY <1>6, <1>10
  <2>2. Parse(g, a).error = "MissingValue"
    BY <1>8, <1>10 DEF Finish
  <2> QED BY <1>7, <2>1, <2>2
<1>11. CASE s.error = "None" /\ s.waiting = "none"
  <2>1. ~ (n >= 1 /\ ~ v[n] /\ a[n] \in g.valued)
    <3>1. "none" \notin g.valued
      BY DEF IsGrammar, Options
    <3> QED BY <1>6, <1>11, <3>1
  <2>2. \A i \in D : a[i] \in g.valued => i < n
    BY <2>1
  <2>3. Done(g, a, v, n) = D
    BY <2>2 DEF Done
  <2>4. Means(g, a, D, s.given)
    BY <1>6, <1>11, <2>3
  <2>5. s.given = Meaning(g, a)
    BY <2>4, MeansIsMeaning DEF v
  <2>6. DOMAIN s.given = {Setting(a[i]) : i \in D}
    BY <2>4 DEF Means
  <2>7. "--help" \in DOMAIN s.given <=> \E i \in D : a[i] = "--help"
    BY <2>6 DEF Setting, DisplayModes
  <2>8. ASSUME NEW required \in g.required
        PROVE  required \in DOMAIN s.given <=> \E i \in D : a[i] = required
    <3>1. required # "display" /\ required \notin DisplayModes
      BY DEF IsGrammar
    <3> QED BY <2>6, <3>1 DEF Setting
  <2>9. "--help" \in DOMAIN s.given \/ g.required \subseteq DOMAIN s.given
          <=> \/ \E i \in D : a[i] = "--help"
              \/ \A required \in g.required : \E i \in D : a[i] = required
    BY <2>7, <2>8
  <2>10. CASE "--help" \in DOMAIN s.given \/ g.required \subseteq DOMAIN s.given
    <3>1. Parse(g, a) = s
      BY <1>8, <1>11, <2>10 DEF Finish
    <3> QED BY <1>6, <1>7, <1>11, <2>2, <2>5, <2>9, <2>10, <3>1
  <2>11. CASE ~ ("--help" \in DOMAIN s.given \/ g.required \subseteq DOMAIN s.given)
    <3>1. Parse(g, a).error = "MissingRequired"
      BY <1>8, <1>11, <2>11 DEF Finish
    <3> QED BY <1>7, <2>9, <2>11, <3>1
  <2> QED BY <2>10, <2>11
<1> QED BY <1>9, <1>10, <1>11

(***************************************************************************)
(* The runs                                                                 *)
(***************************************************************************)
StepsOf ==
  [analyze |-> {"parse", "input", "read", "analysis", "open", "write", "flush", "exited"},
   probe   |-> {"parse", "open", "construct", "frames", "flush", "exited"},
   game    |-> {"parse", "exited"}]

\* A run is at a step of its program, and it has an exit code when it is over.
ProgressInv ==
  /\ program \in DOMAIN GrammarOf /\ step \in StepsOf[program]
  /\ \E n \in Nat : DOMAIN args = 1 .. n
  /\ step = "exited" <=> exit_code # Running

\* No file is touched before the output is opened and none but the output after
\* that, and the output of a probe is a file there is.
FilesInv ==
  /\ DOMAIN files = DOMAIN before /\ DOMAIN Numeral \subseteq DOMAIN files
  /\ step \in {"parse", "input", "read", "analysis", "open"} => files = before
  /\ step \in {"write", "construct", "frames", "flush"} =>
       \A path \in DOMAIN files \ {Out} : files[path] = before[path]
  /\ program = "probe" /\ Given("--output") => options["--output"] \in DOMAIN Numeral

\* A capture lasts for a while, its durations are what has passed since its start, and
\* it is complete when it is reported.
CaptureInv ==
  /\ program = "probe" /\ Given("--seconds") => Numeral[options["--seconds"]] \in Nat \ {0}
  /\ frame_durations \in Seq(Nat) /\ previous \in Nat
  /\ Total(frame_durations) = previous
  /\ program = "probe" /\ step = "flush" => Len(frame_durations) = frame_count

ToolsInv ==
  /\ ProgressInv /\ FilesInv /\ CaptureInv
  /\ FailedAnalysisKeepsFiles /\ ProbeSuccessMeansReport

LEMMA ToolsInvInit == Init => ToolsInv
<1> SUFFICES ASSUME Init PROVE ToolsInv
  OBVIOUS
<1>1. ProgressInv
  <2>1. \E n \in Nat : DOMAIN args = 1 .. n
    BY DEF Init
  <2>2. step \in StepsOf[program]
    BY DEF Init, GrammarOf, StepsOf
  <2> QED BY <2>1, <2>2 DEF Init, ProgressInv
<1>2. FilesInv
  <2>1. PICK initial \in InitialFiles :
          files = [path \in DOMAIN initial \cup {"stdout"} |->
                     IF path \in DOMAIN initial THEN initial[path] ELSE "empty"]
    BY DEF Init
  <2>2. DOMAIN initial = DOMAIN Numeral
    BY ToolsAssumption
  <2>3. DOMAIN files = DOMAIN before /\ DOMAIN Numeral \subseteq DOMAIN files
    BY <2>1, <2>2 DEF Init
  <2>4. ~ Given("--output")
    BY DEF Init, Given
  <2> QED BY <2>3, <2>4 DEF Init, FilesInv
<1>3. CaptureInv
  <2>1. frame_durations = <<>> /\ previous = 0 /\ step # "flush" /\ ~ Given("--seconds")
    BY DEF Init, Given
  <2> DEFINE p == [i \in 0 .. 0 |-> 0]
  <2>2. DOMAIN <<>> = 1 .. 0 /\ (\A i \in 1 .. 0 : <<>>[i] \in Int) /\ Sums(p, <<>>, 0) /\ p[0] = 0
    BY DEF Sums
  <2> HIDE DEF p
  <2>3. Total(<<>>) = 0
    BY <2>2, TotalIs
  <2> QED BY <2>1, <2>3 DEF CaptureInv
<1>4. FailedAnalysisKeepsFiles /\ ProbeSuccessMeansReport
  BY DEF Init, FailedAnalysisKeepsFiles, ProbeSuccessMeansReport, Running
<1> QED BY <1>1, <1>2, <1>3, <1>4 DEF ToolsInv

LEMMA ParsePreserves == ToolsInv /\ ParseArguments => ToolsInv'
<1> SUFFICES ASSUME ToolsInv, ParseArguments PROVE ToolsInv'
  OBVIOUS
<1> DEFINE result == Parse(GrammarOf[program], args)
<1>1. /\ step = "parse" /\ exit_code = Running /\ files = before
      /\ UNCHANGED <<line, files>>
  <2>1. step = "parse" /\ UNCHANGED <<line, files>>
    BY DEF ParseArguments, Fail, Exit, Go
  <2> QED BY <2>1 DEF ToolsInv, ProgressInv, FilesInv
<1>2. \/ step' = "exited" /\ exit_code' = 2 /\ options' = options
      \/ /\ step' = "exited" /\ exit_code' = 0
         /\ options' = result.given /\ result.error = "None"
         /\ "--help" \in DOMAIN result.given \/ program = "game"
      \/ /\ step' = IF program = "analyze" THEN "input" ELSE "open"
         /\ exit_code' = exit_code /\ program # "game"
         /\ options' = result.given /\ result.error = "None"
  <2> HIDE DEF result
  <2> QED BY DEF ParseArguments, Fail, Exit, Go, result
<1>3. program' = program /\ args' = args /\ before' = before /\ files' = files
  BY <1>1 DEF line
<1>4. ProgressInv'
  <2>1. program \in {"analyze", "probe", "game"} /\ \E n \in Nat : DOMAIN args = 1 .. n
    BY DEF ToolsInv, ProgressInv, GrammarOf
  <2>2. step' \in StepsOf[program]
    BY <1>2, <2>1 DEF StepsOf
  <2>3. step' = "exited" <=> exit_code' # Running
    BY <1>1, <1>2 DEF Running
  <2> QED BY <1>3, <2>1, <2>2, <2>3 DEF ProgressInv, GrammarOf
<1>5. FilesInv'
  <2>1. program = "probe" /\ Given("--output")' => options'["--output"] \in DOMAIN Numeral
    <3>1. CASE options' = options
      BY <3>1 DEF Given, ToolsInv, FilesInv
    <3>2. CASE program = "probe" /\ options' = result.given /\ result.error = "None"
      <4>1. result = Parse(ProbeGrammar, args)
        BY <3>2 DEF GrammarOf
      <4>2. "--output" \in ProbeGrammar.valued
        BY DEF ProbeGrammar
      <4> HIDE DEF result
      <4> QED BY <3>2, <4>1, <4>2, ProbeValuesServe DEF ToolsInv, ProgressInv, Given, ServesAs
    <3> QED BY <1>2, <3>1, <3>2
  <2>2. step' \notin {"write", "construct", "frames", "flush"}
    BY <1>2
  <2> QED BY <1>1, <1>3, <2>1, <2>2 DEF ToolsInv, FilesInv
<1>6. CaptureInv'
  <2>1. program = "probe" /\ Given("--seconds")' =>
          Numeral[options'["--seconds"]] \in Nat \ {0}
    <3>1. CASE options' = options
      BY <3>1 DEF Given, ToolsInv, CaptureInv
    <3>2. CASE program = "probe" /\ options' = result.given /\ result.error = "None"
      <4>1. result = Parse(ProbeGrammar, args)
        BY <3>2 DEF GrammarOf
      <4>2. "--seconds" \in ProbeGrammar.valued /\ "--seconds" \in ProbeGrammar.counts
        BY DEF ProbeGrammar
      <4> HIDE DEF result
      <4> QED BY <3>2, <4>1, <4>2, ProbeValuesServe DEF ToolsInv, ProgressInv, Given, ServesAs
    <3> QED BY <1>2, <3>1, <3>2
  <2>2. frame_durations' = frame_durations /\ previous' = previous
    BY DEF ParseArguments, capture
  <2>3. step' # "flush"
    BY <1>2
  <2> QED BY <1>3, <2>1, <2>2, <2>3 DEF ToolsInv, CaptureInv
<1>7. FailedAnalysisKeepsFiles' /\ ProbeSuccessMeansReport'
  BY <1>1, <1>2, <1>3 DEF FailedAnalysisKeepsFiles, ProbeSuccessMeansReport, Given, Running
<1> QED BY <1>4, <1>5, <1>6, <1>7 DEF ToolsInv

\* A step that leaves options and captures alone and ends or goes on.
LEMMA AnalyzeStepsPreserve ==
  ToolsInv /\ (OpenInput \/ ReadInput \/ Analyze) => ToolsInv'
<1> SUFFICES ASSUME ToolsInv, OpenInput \/ ReadInput \/ Analyze PROVE ToolsInv'
  OBVIOUS
<1>1. /\ step \in {"input", "read", "analysis"} /\ UNCHANGED <<line, files, options, capture>>
      /\ \/ /\ step' \in {"read", "analysis", "open"} /\ exit_code' = exit_code
         \/ step' = "exited" /\ exit_code' = 3
  BY DEF OpenInput, ReadInput, Analyze, Fail, Exit, Go
<1>2. /\ program' = program /\ args' = args /\ before' = before /\ files' = files
      /\ options' = options /\ program = "analyze" /\ files = before /\ exit_code = Running
      /\ frame_durations' = frame_durations /\ previous' = previous
  BY <1>1 DEF line, capture, ToolsInv, ProgressInv, FilesInv, StepsOf, GrammarOf
<1>3. ProgressInv'
  <2>1. step' \in StepsOf[program]
    BY <1>1, <1>2 DEF StepsOf
  <2> QED BY <1>1, <1>2, <2>1 DEF ToolsInv, ProgressInv, Running
<1>4. FilesInv'
  BY <1>1, <1>2 DEF ToolsInv, FilesInv
<1>5. FailedAnalysisKeepsFiles' /\ CaptureInv' /\ ProbeSuccessMeansReport'
  BY <1>1, <1>2 DEF ToolsInv, FailedAnalysisKeepsFiles, CaptureInv, Given,
     ProbeSuccessMeansReport
<1> QED BY <1>3, <1>4, <1>5 DEF ToolsInv

LEMMA OpenOutputPreserves == ToolsInv /\ OpenOutput => ToolsInv'
<1> SUFFICES ASSUME ToolsInv, OpenOutput PROVE ToolsInv'
  OBVIOUS
<1>1. /\ step = "open" /\ UNCHANGED <<line, options, capture>>
      /\ \/ /\ step' = IF program = "analyze" THEN "write" ELSE "construct"
            /\ exit_code' = exit_code /\ files' = [files EXCEPT ![Out] = "empty"]
         \/ step' = "exited" /\ exit_code' = 3 /\ files' = files
  BY DEF OpenOutput, Fail, Exit, Go
<1>2. /\ program' = program /\ args' = args /\ before' = before /\ options' = options
      /\ program \in {"analyze", "probe"} /\ files = before /\ exit_code = Running
      /\ frame_durations' = frame_durations /\ previous' = previous
  BY <1>1 DEF line, capture, ToolsInv, ProgressInv, FilesInv, StepsOf, GrammarOf
<1>3. Out' = Out
  BY <1>2 DEF Out, Given
<1>4. ProgressInv'
  <2>1. step' \in StepsOf[program]
    BY <1>1, <1>2 DEF StepsOf
  <2> QED BY <1>1, <1>2, <2>1 DEF ToolsInv, ProgressInv, Running
<1>5. FilesInv'
  BY <1>1, <1>2, <1>3 DEF ToolsInv, FilesInv, Given
<1>6. FailedAnalysisKeepsFiles' /\ CaptureInv' /\ ProbeSuccessMeansReport'
  BY <1>1, <1>2 DEF ToolsInv, FailedAnalysisKeepsFiles, CaptureInv, Given,
     ProbeSuccessMeansReport, Running
<1> QED BY <1>4, <1>5, <1>6 DEF ToolsInv

LEMMA WriteReportPreserves == ToolsInv /\ (WriteReport \/ FlushUnchecked) => ToolsInv'
<1> SUFFICES ASSUME ToolsInv, WriteReport \/ FlushUnchecked PROVE ToolsInv'
  OBVIOUS
<1>1. /\ step \in {"write", "flush"} /\ UNCHANGED <<line, options, capture>>
      /\ \/ step = "write" /\ step' = "flush" /\ exit_code' = exit_code /\ files' = files
         \/ /\ step = "write" /\ step' = "exited" /\ exit_code' = 3
            /\ error' = "OutputWriteFailed" /\ files' = [files EXCEPT ![Out] = "partial"]
         \/ /\ step' = "exited" /\ exit_code' = 0
            /\ program = "analyze" \/ ~ Given("--output")
            /\ \E written : files' = [files EXCEPT ![Out] = written]
  BY DEF WriteReport, FlushUnchecked, Fail, Exit, Go
<1>2. /\ program' = program /\ args' = args /\ before' = before /\ options' = options
      /\ program \in {"analyze", "probe"} /\ exit_code = Running
      /\ step = "write" => program = "analyze"
      /\ frame_durations' = frame_durations /\ previous' = previous
  BY <1>1 DEF line, capture, ToolsInv, ProgressInv, StepsOf, GrammarOf
<1>3. Out' = Out /\ (Given("--output") <=> Given("--output")')
  BY <1>2 DEF Out, Given
<1>4. ProgressInv'
  <2>1. step' \in StepsOf[program]
    BY <1>1, <1>2 DEF StepsOf
  <2> QED BY <1>1, <1>2, <2>1 DEF ToolsInv, ProgressInv, Running
<1>5. FilesInv'
  BY <1>1, <1>2, <1>3 DEF ToolsInv, FilesInv, Given
<1>6. FailedAnalysisKeepsFiles'
  BY <1>1, <1>2, <1>3 DEF ToolsInv, FilesInv, FailedAnalysisKeepsFiles, Running
<1>7. CaptureInv' /\ ProbeSuccessMeansReport'
  BY <1>1, <1>2, <1>3 DEF ToolsInv, CaptureInv, Given, ProbeSuccessMeansReport, Running
<1> QED BY <1>4, <1>5, <1>6, <1>7 DEF ToolsInv

LEMMA CapturePreserves ==
  ToolsInv /\ (StartCapture \/ CaptureFrame \/ RenderReport) => ToolsInv'
<1> SUFFICES ASSUME ToolsInv, StartCapture \/ CaptureFrame \/ RenderReport PROVE ToolsInv'
  OBVIOUS
<1>1. /\ step \in {"construct", "frames"} /\ UNCHANGED <<line, options, files>>
      /\ \/ step' = "frames" /\ exit_code' = exit_code
         \/ step' = "exited" /\ exit_code' \in {4, Aborted}
         \/ /\ step' = "flush" /\ exit_code' = exit_code
            /\ frame_durations' = frame_durations /\ Len(frame_durations) = frame_count
  BY DEF StartCapture, CaptureFrame, RenderReport, Fail, Exit, Go, capture
<1>2. /\ program' = program /\ args' = args /\ before' = before /\ options' = options
      /\ files' = files /\ program = "probe" /\ exit_code = Running
  BY <1>1 DEF line, ToolsInv, ProgressInv, StepsOf, GrammarOf
<1>3. /\ Out' = Out /\ (Given("--output") <=> Given("--output")')
      /\ frame_count' = frame_count
  BY <1>2 DEF Out, Given, frame_count, Seconds
<1>4. ProgressInv'
  <2>1. step' \in StepsOf[program]
    BY <1>1, <1>2 DEF StepsOf
  <2> QED BY <1>1, <1>2, <2>1 DEF ToolsInv, ProgressInv, Running, Aborted
<1>5. FilesInv'
  BY <1>1, <1>2, <1>3 DEF ToolsInv, FilesInv
<1>6. FailedAnalysisKeepsFiles' /\ CaptureInv'
  <2>1. /\ frame_durations \in Seq(Nat) /\ previous \in Nat
        /\ Total(frame_durations) = previous
    BY DEF ToolsInv, CaptureInv
  <2>2. /\ frame_durations' \in Seq(Nat) /\ previous' \in Nat
        /\ Total(frame_durations') = previous'
    <3>1. CASE StartCapture \/ RenderReport
      BY <2>1, <3>1 DEF StartCapture, RenderReport, capture
    <3>2. CASE CaptureFrame
      <4>1. PICK d \in Interval : /\ frame_durations' = Append(frame_durations, (previous + d) - previous)
                                  /\ previous' = previous + d
        BY <3>2 DEF CaptureFrame
      <4>2. d \in Nat
        BY ToolsAssumption
      <4>3. frame_durations' = Append(frame_durations, d)
        BY <2>1, <4>1, <4>2
      <4>4. frame_durations \in Seq(Int) /\ d \in Int
        BY <2>1, <4>2
      <4>5. Total(frame_durations') = previous + d
        BY <2>1, <4>3, <4>4, TotalOfAppend
      <4> QED BY <2>1, <4>1, <4>2, <4>3, <4>5
    <3> QED BY <3>1, <3>2
  <2>3. step' = "flush" => Len(frame_durations') = frame_count'
    BY <1>1, <1>3
  <2>4. CaptureInv'
    <3>1. Given("--seconds")' => Numeral[options'["--seconds"]] \in Nat \ {0}
      BY <1>2 DEF ToolsInv, CaptureInv, Given
    <3> QED BY <2>2, <2>3, <3>1 DEF CaptureInv
  <2> QED BY <1>1, <1>2, <1>3, <2>4 DEF FailedAnalysisKeepsFiles
<1>7. exit_code' # 0
  BY <1>1, <1>2 DEF Aborted, Running
<1>8. ProbeSuccessMeansReport'
  BY <1>7 DEF ProbeSuccessMeansReport
<1> QED BY <1>4, <1>5, <1>6, <1>8 DEF ToolsInv

LEMMA FlushOutputPreserves == ToolsInv /\ FlushOutput => ToolsInv'
<1> SUFFICES ASSUME ToolsInv, FlushOutput PROVE ToolsInv'
  OBVIOUS
<1>1. /\ step = "flush" /\ UNCHANGED <<line, options, capture>>
      /\ program = "probe" /\ Given("--output") /\ step' = "exited"
      /\ \/ exit_code' = 0 /\ files' = [files EXCEPT ![Out] = "report"]
         \/ exit_code' = 3 /\ files' = [files EXCEPT ![Out] = "partial"]
  BY DEF FlushOutput, Fail, Exit
<1>2. /\ program' = program /\ args' = args /\ before' = before /\ options' = options
      /\ frame_durations' = frame_durations /\ previous' = previous /\ exit_code = Running
  BY <1>1 DEF line, capture, ToolsInv, ProgressInv
<1>3. /\ Out' = Out /\ (Given("--output") <=> Given("--output")')
      /\ frame_count' = frame_count
  BY <1>2 DEF Out, Given, frame_count, Seconds
<1>4. ProgressInv'
  <2>1. step' \in StepsOf[program]
    BY <1>1, <1>2 DEF StepsOf
  <2> QED BY <1>1, <1>2, <2>1 DEF ToolsInv, ProgressInv, Running
<1>5. FilesInv'
  BY <1>1, <1>2, <1>3 DEF ToolsInv, FilesInv
<1>6. ProbeSuccessMeansReport'
  <2>1. Out \in DOMAIN files
    BY <1>1 DEF ToolsInv, FilesInv, Out
  <2>2. Len(frame_durations) = frame_count
    BY <1>1 DEF ToolsInv, CaptureInv
  <2> QED BY <1>1, <1>2, <1>3, <2>1, <2>2 DEF ProbeSuccessMeansReport
<1>7. FailedAnalysisKeepsFiles' /\ CaptureInv'
  BY <1>1, <1>2 DEF ToolsInv, FailedAnalysisKeepsFiles, CaptureInv, Given
<1> QED BY <1>4, <1>5, <1>6, <1>7 DEF ToolsInv

LEMMA ToolsInvNext == ToolsInv /\ [Next]_vars => ToolsInv'
<1>1. ToolsInv /\ UNCHANGED vars => ToolsInv'
  BY DEF vars, line, capture, ToolsInv, ProgressInv, FilesInv, CaptureInv,
     FailedAnalysisKeepsFiles, ProbeSuccessMeansReport, Out, Given, frame_count, Seconds
<1> QED
  BY <1>1, ParsePreserves, AnalyzeStepsPreserve, OpenOutputPreserves, WriteReportPreserves,
     CapturePreserves, FlushOutputPreserves DEF Next

\* In every run of a tool its files, its report and its capture are what the steps it
\* has taken make of them.
THEOREM ToolsInvariance == Spec => []ToolsInv
BY ToolsInvInit, ToolsInvNext, PTL DEF Spec

\* Whatever the command line and whichever step fails, an analyzer that fails leaves
\* the files as they were, but for a report that the device has not taken in full.
THEOREM FailuresKeepFiles == Spec => []FailedAnalysisKeepsFiles
<1>1. ToolsInv => FailedAnalysisKeepsFiles
  BY DEF ToolsInv
<1> QED BY ToolsInvariance, <1>1, PTL

\* A probe that says it has succeeded has written the report of a whole capture.
THEOREM SuccessMeansReport == Spec => []ProbeSuccessMeansReport
<1>1. ToolsInv => ProbeSuccessMeansReport
  BY DEF ToolsInv
<1> QED BY ToolsInvariance, <1>1, PTL

\* What a run that has read its line has made of it.
LineInv ==
  /\ \E n \in Nat : DOMAIN args = 1 .. n /\ Len(args) = n
  /\ step # "parse" =>
       LET result == Parse(GrammarOf[program], args)
       IN  /\ exit_code = 2 <=> result.error # "None"
           /\ result.error = "None" => options = result.given

LEMMA LineInvInit == Init => LineInv
<1> SUFFICES ASSUME Init PROVE LineInv
  OBVIOUS
<1> DEFINE X == Options(GrammarOf[program]) \cup {Bogus} \cup DOMAIN Numeral
<1>1. PICK n \in 0 .. MaxArgs : args \in [1 .. n -> X]
  BY DEF Init
<1>2. n \in Nat
  BY ToolsAssumption
<1> HIDE DEF X
<1>3. DOMAIN args = 1 .. n /\ Len(args) = n
  BY <1>1, <1>2
<1> QED BY <1>2, <1>3 DEF Init, LineInv

LEMMA LineInvNext == ToolsInv /\ LineInv /\ [Next]_vars => LineInv'
<1> SUFFICES ASSUME ToolsInv, LineInv, [Next]_vars PROVE LineInv'
  OBVIOUS
<1> DEFINE result == Parse(GrammarOf[program], args)
<1>1. CASE ParseArguments
  <2>1. /\ step = "parse" /\ exit_code = Running /\ program' = program /\ args' = args
    BY <1>1 DEF ParseArguments, Fail, Exit, Go, line, ToolsInv, ProgressInv
  <2>2. \/ exit_code' = 2 /\ result.error # "None"
        \/ exit_code' = 0 /\ options' = result.given /\ result.error = "None"
        \/ exit_code' = exit_code /\ options' = result.given /\ result.error = "None"
    <3> HIDE DEF result
    <3> QED BY <1>1 DEF ParseArguments, Fail, Exit, Go, result
  <2> HIDE DEF result
  <2>3. /\ exit_code' = 2 <=> result.error # "None"
        /\ result.error = "None" => options' = result.given
    BY <2>1, <2>2 DEF Running
  <2> QED BY <2>1, <2>3 DEF LineInv, result
<1>2. CASE \/ OpenInput \/ ReadInput \/ Analyze \/ WriteReport \/ OpenOutput \/ FlushUnchecked
           \/ StartCapture \/ CaptureFrame \/ RenderReport \/ FlushOutput \/ UNCHANGED vars
  <2>1. /\ program' = program /\ args' = args /\ options' = options
        /\ step = "parse" => step' = "parse"
        /\ exit_code' = exit_code \/ (step # "exited" /\ exit_code' \in {0, 3, 4, Aborted})
    <3>1. CASE OpenInput
      BY <3>1 DEF OpenInput, Fail, Exit, Go, line
    <3>2. CASE ReadInput
      BY <3>2 DEF ReadInput, Fail, Exit, Go, line
    <3>3. CASE Analyze
      BY <3>3 DEF Analyze, Fail, Exit, Go, line
    <3>4. CASE WriteReport
      BY <3>4 DEF WriteReport, Fail, Exit, Go, line
    <3>5. CASE OpenOutput
      BY <3>5 DEF OpenOutput, Fail, Exit, Go, line
    <3>6. CASE FlushUnchecked
      BY <3>6 DEF FlushUnchecked, Fail, Exit, Go, line
    <3>7. CASE StartCapture
      BY <3>7 DEF StartCapture, Fail, Exit, Go, line
    <3>8. CASE CaptureFrame
      BY <3>8 DEF CaptureFrame, Fail, Exit, Go, line
    <3>9. CASE RenderReport
      BY <3>9 DEF RenderReport, Fail, Exit, Go, line
    <3>10. CASE FlushOutput
      BY <3>10 DEF FlushOutput, Fail, Exit, Go, line
    <3>11. CASE UNCHANGED vars
      BY <3>11 DEF vars
    <3> QED BY <1>2, <3>1, <3>2, <3>3, <3>4, <3>5, <3>6, <3>7,
       <3>8, <3>9, <3>10, <3>11
  <2>2. exit_code' = 2 <=> exit_code = 2
    <3>1. step # "exited" => exit_code = -1
      BY DEF ToolsInv, ProgressInv, Running
    <3> QED BY <2>1, <3>1 DEF Aborted
  <2> HIDE DEF result
  <2> QED BY <2>1, <2>2 DEF LineInv
<1> QED BY <1>1, <1>2 DEF Next

\* A command line is accepted if and only if it is acceptable as a whole, and the
\* settings that a program goes by are what the line means: for every line, of every
\* length, of each of the three programs.
THEOREM LinesMeanWhatTheySay == Spec => []CommandLineMeansWhatItSays
<1>1. ToolsInv /\ LineInv => CommandLineMeansWhatItSays
  <2> SUFFICES ASSUME ToolsInv, LineInv, step # "parse" PROVE CommandLineMeansWhatItSays
    BY DEF CommandLineMeansWhatItSays
  <2> DEFINE g == GrammarOf[program]
  <2>1. PICK n \in Nat : DOMAIN args = 1 .. n /\ Len(args) = n
    BY DEF LineInv
  <2>2. IsGrammar(g)
    BY TheirGrammars DEF ToolsInv, ProgressInv
  <2>3. /\ exit_code = 2 <=> Parse(g, args).error # "None"
        /\ Parse(g, args).error = "None" => options = Parse(g, args).given
    BY DEF LineInv
  <2> HIDE DEF g
  <2>4. /\ Parse(g, args).error = "None" <=> Acceptable(g, args)
        /\ Parse(g, args).error = "None" => Parse(g, args).given = Meaning(g, args)
    BY <2>1, <2>2, ParseMeans
  <2> QED BY <2>3, <2>4 DEF CommandLineMeansWhatItSays, g
<1> QED BY <1>1, LineInvInit, LineInvNext, ToolsInvariance, PTL DEF Spec

\* The summary of a capture, of any length, describes it: its total is the time that
\* has passed, and each of its percentiles is the one that nearest rank defines.
THEOREM SummaryIsExact == Spec => []SummaryDescribesCapture
<1>1. ToolsInv => SummaryDescribesCapture
  <2> SUFFICES ASSUME ToolsInv, step = "flush", program = "probe"
               PROVE  SummaryDescribesCapture
    BY DEF SummaryDescribesCapture
  <2> DEFINE s == frame_durations
             n == frame_count
             summary == summarize_frame_pacing(s)
  <2>1. s \in Seq(Nat) /\ Len(s) = n /\ Total(s) = previous
    BY DEF ToolsInv, CaptureInv
  <2>2. n \in Nat \ {0}
    <3>1. Seconds \in Nat \ {0} /\ kTargetHz \in Nat \ {0}
      BY ToolsAssumption DEF ToolsInv, CaptureInv, Seconds
    <3> QED BY <2>1, <3>1 DEF frame_count
  <2> HIDE DEF s, n
  <2>3. s # <<>> /\ DOMAIN s = 1 .. n
    BY <2>1, <2>2
  <2>4. /\ summary.sample_count = n /\ summary.total = previous
        /\ summary.max = Sorted(s)[n]
        /\ summary.percentile = [percent \in {50, 95, 99} |->
                                   nearest_rank_percentile(Sorted(s), percent)]
        /\ summary.over = [limit \in Limits |-> Cardinality({i \in DOMAIN s : s[i] > limit})]
    <3>1. Len(Sorted(s)) = n
      BY <2>2, <2>3 DEF Sorted
    <3> QED BY <2>1, <2>3, <3>1 DEF summarize_frame_pacing
  <2> HIDE DEF summary
  <2>5. \A percent \in 1 .. 100 :
          IsPercentile(s, percent, nearest_rank_percentile(Sorted(s), percent))
    BY <2>1, <2>2, RankIsPercentile
  <2>6. \A percent \in DOMAIN summary.percentile :
          IsPercentile(s, percent, summary.percentile[percent])
    BY <2>4, <2>5
  <2>7. \A limit \in Limits : (summary.over[limit] = 0) = (summary.max <= limit)
    <3>1. \A limit \in Limits : limit \in Nat
      BY DEF Limits
    <3>2. \A limit \in Limits :
            (Cardinality({i \in DOMAIN s : s[i] > limit}) = 0) = (Sorted(s)[n] <= limit)
      BY <2>1, <2>2, <3>1, LargestIsLast
    <3>3. ASSUME NEW limit \in Limits
          PROVE  summary.over[limit] = Cardinality({i \in DOMAIN s : s[i] > limit})
      BY <2>4
    <3> QED BY <2>4, <3>2, <3>3
  <2> QED BY <2>4, <2>5, <2>6, <2>7 DEF SummaryDescribesCapture, s, n, summary
<1> QED BY ToolsInvariance, <1>1, PTL

(***************************************************************************)
(* The ring of the frame statistics                                         *)
(***************************************************************************)
K == kWindowSize

\* What FrameStats assumes, and what its type invariant says of the ring.
LEMMA RingFacts ==
  ASSUME TypeOK
  PROVE  /\ K \in Nat \ {0} /\ next_index_ \in 0 .. K - 1 /\ count_ \in 0 .. K
         /\ count_ < K => next_index_ = count_
         /\ samples_ \in [0 .. K - 1 -> Sample \cup {Zero}]
         /\ \A s \in Sample \cup {Zero} : s.seconds \in Nat
BY WindowAssumption DEF K, TypeOK, Index, Zero

LEMMA Wraps ==
  ASSUME NEW k \in Nat \ {0}, NEW x \in 0 .. 2 * k - 1
  PROVE  x % k = IF x < k THEN x ELSE x - k
<1> DEFINE q == x \div k
           r == x % k
<1>1. x = k * q + r /\ q \in Int /\ r \in 0 .. k - 1
  OBVIOUS
<1> HIDE DEF q, r
<1>2. q >= 0
  <2>1. q <= -1 => k * q <= -k
    BY <1>1
  <2> QED BY <1>1, <2>1
<1>3. q <= 1
  <2>1. q >= 2 => k * q >= 2 * k
    BY <1>1
  <2> QED BY <1>1, <2>1
<1>4. q = 0 \/ q = 1
  BY <1>1, <1>2, <1>3
<1>5. CASE q = 0
  BY <1>1, <1>5 DEF r
<1>6. CASE q = 1
  BY <1>1, <1>6 DEF r
<1> QED BY <1>4, <1>5, <1>6

\* Where the i-th of the recent samples is in the ring.
Place(i) == IF count_ < K \/ next_index_ + i - 1 < K
              THEN (IF count_ < K THEN i - 1 ELSE next_index_ + i - 1)
              ELSE (next_index_ + i - 1) - K

RecentPlaces ==
  /\ DOMAIN Recent = 1 .. count_
  /\ Recent \in Seq(Sample \cup {Zero}) /\ Len(Recent) = count_
  /\ \A i \in 1 .. count_ : Place(i) \in 0 .. K - 1 /\ Recent[i] = samples_[Place(i)]

LEMMA RecentIs ==
  ASSUME TypeOK
  PROVE  RecentPlaces
<1> DEFINE At(i) == next_index_ + K - count_ + i - 1
           R == [i \in 1 .. count_ |-> samples_[At(i) % K]]
<1>1. Recent = R
  BY DEF Recent, K
<1>2. ASSUME NEW i \in 1 .. count_
      PROVE  At(i) % K = Place(i) /\ Place(i) \in 0 .. K - 1
  <2> DEFINE a == At(i)
  <2>1. CASE count_ < K
    <3>1. a = K + (i - 1) /\ i - 1 \in 0 .. K - 1 /\ a \in 0 .. 2 * K - 1 /\ ~ (a < K)
      BY <2>1, RingFacts
    <3>2. K \in Nat \ {0}
      BY RingFacts
    <3> HIDE DEF a
    <3>3. a % K = a - K
      BY <3>1, <3>2, Wraps
    <3>4. Place(i) = i - 1
      BY <2>1 DEF Place
    <3> QED BY <3>1, <3>2, <3>3, <3>4 DEF a
  <2>2. CASE ~ (count_ < K)
    <3>1. count_ = K /\ K \in Nat \ {0} /\ next_index_ \in 0 .. K - 1
      BY <2>2, RingFacts
    <3>2. a = next_index_ + i - 1 /\ a \in 0 .. 2 * K - 1
      BY <3>1
    <3>3. Place(i) = IF a < K THEN a ELSE a - K
      BY <2>2, <3>2 DEF Place
    <3> HIDE DEF a
    <3>4. a % K = IF a < K THEN a ELSE a - K
      BY <3>1, <3>2, Wraps
    <3> QED BY <3>1, <3>2, <3>3, <3>4 DEF a
  <2> QED BY <2>1, <2>2
<1>3. \A i \in 1 .. count_ : R[i] = samples_[Place(i)] /\ Place(i) \in 0 .. K - 1
  <2> HIDE DEF At
  <2> QED BY <1>2
<1> HIDE DEF R
<1>4. DOMAIN R = 1 .. count_ /\ R = [i \in 1 .. count_ |-> R[i]]
  BY DEF R
<1>5. R \in Seq(Sample \cup {Zero}) /\ Len(R) = count_
  <2>1. \A i \in 1 .. count_ : R[i] \in Sample \cup {Zero}
    BY <1>3, RingFacts
  <2>2. count_ \in Nat
    BY RingFacts
  <2> HIDE DEF R
  <2> QED BY <1>4, <2>1, <2>2
<1> QED BY <1>1, <1>3, <1>4, <1>5 DEF RecentPlaces

\* The total of a snapshot is the one of the window.
LEMMA RingTotal ==
  ASSUME TypeOK
  PROVE  Window!Total(Recent)
           = Total([i \in 1 .. count_ |-> samples_[i - 1].seconds])
<1> DEFINE s == [i \in 1 .. count_ |-> samples_[i - 1].seconds]
           r == [i \in DOMAIN Recent |-> Recent[i].seconds]
           m == IF count_ < K THEN 0 ELSE next_index_
<1>1. Window!Total(Recent) = Total(r)
  BY DEF Window!Total, Total, Window!FoldLeft, FoldLeft,
     Window!MapThenFoldSet, MapThenFoldSet, Window!Max, Max
<1>2. count_ \in Nat /\ DOMAIN s = 1 .. count_ /\ DOMAIN r = 1 .. count_
  BY RingFacts, RecentIs DEF RecentPlaces
<1>3. \A i \in 1 .. count_ : s[i] \in Int
  <2>1. \A i \in 1 .. count_ : i - 1 \in 0 .. K - 1
    BY RingFacts
  <2>2. \A x \in 0 .. K - 1 : samples_[x].seconds \in Nat
    BY RingFacts
  <2> QED BY <2>1, <2>2
<1>4. m \in 0 .. count_
  BY RingFacts
<1>5. ASSUME NEW i \in 1 .. count_
      PROVE  r[i] = IF i + m <= count_ THEN s[i + m] ELSE s[i + m - count_]
  <2> DEFINE j == IF i + m <= count_ THEN i + m ELSE i + m - count_
  <2>1. j \in 1 .. count_ /\ j - 1 = Place(i)
    BY RingFacts DEF Place
  <2>2. r[i] = samples_[Place(i)].seconds
    BY RecentIs DEF RecentPlaces
  <2>3. s[j] = samples_[j - 1].seconds
    BY <2>1
  <2>4. r[i] = s[j]
    BY <2>1, <2>2, <2>3
  <2> HIDE DEF r, s
  <2> QED BY <2>4
<1> HIDE DEF s, r, m
<1>6. Total(r) = Total(s)
  <2>1. IsRotation(r, s, count_, m)
    BY <1>5 DEF IsRotation
  <2> QED BY ONLY <1>2, <1>3, <1>4, <2>1, TotalOfRotation
<1> QED BY <1>1, <1>6 DEF s

LEMMA EmptyWindow == Window!Report(<<>>) = EmptyReport
<1> DEFINE e == [i \in DOMAIN <<>> |-> <<>>[i].seconds]
           p == [i \in 0 .. 0 |-> 0]
<1>1. DOMAIN e = 1 .. 0 /\ (\A i \in 1 .. 0 : e[i] \in Int) /\ Sums(p, e, 0) /\ p[0] = 0
  BY DEF Sums
<1>2. Window!Total(<<>>) = Total(e)
  BY DEF Window!Total, Total, Window!FoldLeft, FoldLeft,
     Window!MapThenFoldSet, MapThenFoldSet, Window!Max, Max
<1> HIDE DEF e, p
<1>3. Total(e) = 0
  BY <1>1, TotalIs
<1> QED BY <1>2, <1>3 DEF Window!Report, EmptyReport

\* The same after a step.
LEMMA RecentIsNext ==
  TypeOK' => RecentPlaces'
<1>1. TypeOK => RecentPlaces
  BY RecentIs
<1> QED BY <1>1, PTL

LEMMA RingTypeInit ==
  StatsInit => TypeOK
BY WindowAssumption DEF StatsInit, TypeOK, Index, Zero

LEMMA RingTypeNext ==
  ASSUME TypeOK, [StatsNext]_stats
  PROVE  TypeOK'
<1> USE DEF TypeOK, Index
<1>1. K \in Nat \ {0}
  BY RingFacts
<1>2. CASE UNCHANGED stats
  BY <1>2 DEF stats
<1>3. ASSUME NEW sample \in Sample, add_frame(sample) PROVE TypeOK'
  <2>1. samples_' \in [Index -> Sample \cup {Zero}]
    BY <1>3 DEF add_frame
  <2>2. count_' = IF count_ < K THEN count_ + 1 ELSE count_
    BY <1>3 DEF add_frame, K
  <2>3. next_index_' = IF next_index_ + 1 < K THEN next_index_ + 1 ELSE (next_index_ + 1) - K
    <3> DEFINE x == next_index_ + 1
    <3>1. x \in 0 .. 2 * K - 1
      BY RingFacts
    <3>2. next_index_' = x % K
      BY <1>3 DEF add_frame, K
    <3> HIDE DEF x
    <3>3. next_index_' = IF x < K THEN x ELSE x - K
      BY <1>1, <3>1, <3>2, Wraps
    <3> QED BY <3>3 DEF x
  <2>4. /\ next_index_' \in 0 .. K - 1 /\ count_' \in 0 .. K
        /\ count_' < K => next_index_' = count_'
    BY <2>2, <2>3, RingFacts
  <2> QED BY <2>1, <2>4 DEF K
<1>4. CASE snapshot
  BY <1>4 DEF snapshot
<1>5. CASE reset
  BY <1>1, <1>5 DEF reset, K
<1> QED BY <1>2, <1>3, <1>4, <1>5 DEF StatsNext

\* A frame that is added takes the place of the oldest one of a full window.
LEMMA AddFrameRefines ==
  ASSUME TypeOK, TypeOK', NEW sample \in Sample, add_frame(sample)
  PROVE  Window!Add(sample)
<1> DEFINE R == Recent
           c == count_
           D == IF c < K THEN R ELSE Tail(R)
           new == Append(D, sample)
<1>1. /\ K \in Nat \ {0} /\ next_index_ \in 0 .. K - 1 /\ c \in 0 .. K
      /\ c < K => next_index_ = c
      /\ samples_ \in [0 .. K - 1 -> Sample \cup {Zero}]
  BY RingFacts
<1>2. /\ R \in Seq(Sample \cup {Zero}) /\ Len(R) = c
      /\ \A i \in 1 .. c : Place(i) \in 0 .. K - 1 /\ R[i] = samples_[Place(i)]
  BY RecentIs DEF RecentPlaces
<1>3. /\ samples_' = [samples_ EXCEPT ![next_index_] = sample]
      /\ count_' = IF c < K THEN c + 1 ELSE c
      /\ report' = report
  BY DEF add_frame, K
<1>4. next_index_' = IF next_index_ + 1 < K THEN next_index_ + 1 ELSE (next_index_ + 1) - K
  <2> DEFINE x == next_index_ + 1
  <2>1. x \in 0 .. 2 * K - 1
    BY <1>1
  <2>2. next_index_' = x % K
    BY DEF add_frame, K
  <2> HIDE DEF x
  <2>3. next_index_' = IF x < K THEN x ELSE x - K
    BY <1>1, <2>1, <2>2, Wraps
  <2> QED BY <2>3 DEF x
<1>5. K' = K
  BY DEF K
<1>6. /\ DOMAIN R' = 1 .. count_' /\ R' \in Seq(Sample \cup {Zero}) /\ Len(R') = count_'
      /\ \A i \in 1 .. count_' : Place(i)' \in 0 .. K - 1 /\ R'[i] = samples_'[Place(i)']
  BY RecentIsNext, <1>5 DEF RecentPlaces
<1>7. /\ D \in Seq(Sample \cup {Zero}) /\ Len(D) = count_' - 1
      /\ \A i \in 1 .. Len(D) : D[i] = R[IF c < K THEN i ELSE i + 1]
  <2> HIDE DEF R
  <2>1. CASE c < K
    <3>1. D = R
      BY <2>1
    <3>2. Len(D) = c /\ D \in Seq(Sample \cup {Zero})
      BY <1>2, <3>1
    <3>3. c = count_' - 1
      BY <1>1, <1>3, <2>1
    <3> HIDE DEF D, c
    <3>4. \A i \in 1 .. Len(D) : D[i] = R[IF c < K THEN i ELSE i + 1]
      BY <2>1, <3>1
    <3> QED BY <3>2, <3>3, <3>4
  <2>2. CASE ~ (c < K)
    <3>1. c = K /\ R # <<>> /\ Len(Tail(R)) = c - 1 /\ Tail(R) \in Seq(Sample \cup {Zero})
      BY <1>1, <1>2, <2>2
    <3>2. \A i \in 1 .. Len(Tail(R)) : Tail(R)[i] = R[i + 1]
      BY <1>2, <3>1
    <3> QED BY <1>3, <2>2, <3>1, <3>2
  <2> QED BY <2>1, <2>2
<1>8. /\ new \in Seq(Sample \cup {Zero}) /\ Len(new) = count_'
      /\ \A i \in 1 .. count_' : new[i] = IF i = count_' THEN sample ELSE D[i]
  <2> DEFINE m == Len(D)
  <2>1. m \in Nat /\ m + 1 = count_'
    BY <1>1, <1>3, <1>7
  <2> HIDE DEF D
  <2>2. /\ new \in Seq(Sample \cup {Zero}) /\ Len(new) = m + 1 /\ new[m + 1] = sample
        /\ \A i \in 1 .. m : new[i] = D[i]
    BY <1>7
  <2> HIDE DEF m, new
  <2> QED BY <2>1, <2>2
<1>9. ASSUME NEW i \in 1 .. count_' PROVE R'[i] = new[i]
  <2>1. CASE i = count_'
    <3>1. Place(i)' = next_index_
      BY <1>1, <1>3, <1>4, <2>1 DEF Place, K
    <3>2. samples_'[next_index_] = sample
      BY <1>1, <1>3
    <3> QED BY <1>6, <1>8, <2>1, <3>1, <3>2
  <2>2. CASE i # count_'
    <3> DEFINE j == IF c < K THEN i ELSE i + 1
    <3>1. j \in 1 .. c /\ i \in 1 .. Len(D)
      BY <1>1, <1>3, <1>7, <2>2
    <3>2. Place(i)' = Place(j) /\ Place(i)' # next_index_
      BY <1>1, <1>3, <1>4, <2>2 DEF Place, K
    <3>3. samples_'[Place(i)'] = samples_[Place(j)]
      BY <1>1, <1>3, <1>6, <3>2
    <3> HIDE DEF D, R, new
    <3>4. new[i] = R[j]
      BY <1>7, <1>8, <2>2, <3>1
    <3> HIDE DEF j
    <3>5. R[j] = samples_[Place(j)]
      BY <1>2, <3>1
    <3> QED BY <1>6, <3>3, <3>4, <3>5
  <2> QED BY <2>1, <2>2
<1>10. R' = new
  <2> DEFINE T == R'
  <2>1. T \in Seq(Sample \cup {Zero}) /\ Len(T) = count_' /\ \A i \in 1 .. count_' : T[i] = new[i]
    BY <1>6, <1>9
  <2> HIDE DEF T, new
  <2>2. T = new
    BY <1>8, <2>1, SeqEqual
  <2> QED BY <2>2 DEF T
<1>11. /\ R' = IF Len(R) < K THEN Append(R, sample) ELSE Append(Tail(R), sample)
       /\ report' = report
  <2>1. new = IF Len(R) < K THEN Append(R, sample) ELSE Append(Tail(R), sample)
    <3> HIDE DEF R
    <3> QED BY <1>2
  <2> QED BY <1>3, <1>10, <2>1
<1> QED BY <1>11 DEF Window!Add, K

LEMMA SnapshotRefines ==
  ASSUME TypeOK, snapshot
  PROVE  Window!Snapshot
<1> DEFINE R == Recent
<1>1. R' = R
  BY DEF snapshot, Recent
<1>2. /\ R \in Seq(Sample \cup {Zero}) /\ Len(R) = count_
      /\ \A i \in 1 .. count_ : Place(i) \in 0 .. K - 1 /\ R[i] = samples_[Place(i)]
  BY RecentIs DEF RecentPlaces
<1>3. Window!Total(R) = Total([i \in 1 .. count_ |-> samples_[i - 1].seconds])
  BY RingTotal
<1>4. CASE count_ = 0
  <2>1. R = <<>> /\ Len(R) = 0
    <3> HIDE DEF R
    <3> QED BY <1>2, <1>4
  <2>2. report' = EmptyReport
    BY <1>4 DEF snapshot
  <2>3. Window!Report(R) = EmptyReport
    <3>1. Window!Total(R) = 0
      <4> DEFINE e == [i \in 1 .. count_ |-> samples_[i - 1].seconds]
                 p == [i \in 0 .. 0 |-> 0]
      <4>1. DOMAIN e = 1 .. 0 /\ (\A i \in 1 .. 0 : e[i] \in Int) /\ Sums(p, e, 0) /\ p[0] = 0
        BY <1>4 DEF Sums
      <4> HIDE DEF e, p
      <4>2. Total(e) = 0
        BY <4>1, TotalIs
      <4> QED BY <1>3, <4>2 DEF e
    <3> QED BY <2>1, <3>1 DEF Window!Report, EmptyReport
  <2> QED BY <1>1, <2>2, <2>3 DEF Window!Snapshot
<1>5. CASE count_ # 0
  <2> DEFINE l == (next_index_ + K - 1) % K
  <2>1. /\ count_ \in 1 .. K /\ K \in Nat \ {0} /\ next_index_ \in 0 .. K - 1
        /\ count_ < K => next_index_ = count_
    BY <1>5, RingFacts
  <2>2. l = Place(count_)
    <3> DEFINE x == next_index_ + K - 1
    <3>1. x \in 0 .. 2 * K - 1
      BY <2>1
    <3> HIDE DEF x
    <3>2. x % K = IF x < K THEN x ELSE x - K
      BY <2>1, <3>1, Wraps
    <3> QED BY <2>1, <3>2 DEF x, Place
  <2>3. LatestIndex = l
    BY DEF LatestIndex, K
  <2>4. R # <<>> /\ Window!Last(R) = samples_[l]
    <3> HIDE DEF R, l
    <3>1. Window!Last(R) = R[Len(R)]
      BY DEF Window!Last
    <3> QED BY <1>2, <2>1, <2>2, <3>1
  <2> HIDE DEF R, l
  <2>5. report' = [total_seconds |-> Total([i \in 1 .. count_ |-> samples_[i - 1].seconds]),
                   simulation_steps |-> samples_[l].simulation_steps,
                   sample_count |-> count_]
    BY <1>5, <2>3 DEF snapshot, Total
  <2>6. report' = Window!Report(R)
    BY <1>2, <1>3, <2>4, <2>5 DEF Window!Report
  <2> QED BY <1>1, <2>6 DEF Window!Snapshot, R
<1> QED BY <1>4, <1>5

\* The ring is a window of the latest frames: for every size of the ring, however
\* often it has been filled and emptied, what a snapshot says is what the last frames
\* since the last reset say, as many of them as the ring holds.
THEOREM RingIsWindow == StatsSpec => ImplementsFrameWindow
<1>1. StatsInit => TypeOK
  BY RingTypeInit
<1>2. TypeOK /\ [StatsNext]_stats => TypeOK'
  BY RingTypeNext
<1>3. StatsInit => Window!Init
  <2> SUFFICES ASSUME StatsInit PROVE Window!Init
    OBVIOUS
  <2>1. TypeOK /\ count_ = 0
    BY <1>1 DEF StatsInit
  <2>2. Recent = <<>>
    BY <2>1, RecentIs DEF RecentPlaces
  <2>3. Window!Report(<<>>) = EmptyReport
    BY EmptyWindow
  <2> QED BY <2>2, <2>3 DEF StatsInit, Window!Init
<1>4. TypeOK /\ TypeOK' /\ [StatsNext]_stats => [Window!Next]_(Window!vars)
  <2> SUFFICES ASSUME TypeOK, TypeOK', [StatsNext]_stats
               PROVE  [Window!Next]_(Window!vars)
    OBVIOUS
  <2>1. CASE UNCHANGED stats
    BY <2>1 DEF stats, Window!vars, Recent
  <2>2. ASSUME NEW sample \in Sample, add_frame(sample) PROVE Window!Next
    BY <2>2, AddFrameRefines DEF Window!Next
  <2>3. CASE snapshot
    BY <2>3, SnapshotRefines DEF Window!Next
  <2>4. CASE reset
    <3>1. count_' = 0 /\ report' = report
      BY <2>4 DEF reset
    <3>2. Recent' = <<>>
      BY <3>1, RecentIsNext DEF RecentPlaces
    <3> QED BY <3>1, <3>2 DEF Window!Next, Window!Reset
  <2> QED BY <2>1, <2>2, <2>3, <2>4 DEF StatsNext
<1> QED BY <1>1, <1>2, <1>3, <1>4, PTL DEF StatsSpec, ImplementsFrameWindow, Window!Spec
=============================================================================
