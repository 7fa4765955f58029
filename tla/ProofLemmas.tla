---------------------------- MODULE ProofLemmas ----------------------------
(***************************************************************************)
(* Facts about naturals, sequences, loops and the replay of event logs that *)
(* the proofs of this project use.                                          *)
(***************************************************************************)
EXTENDS Integers, Sequences, SequencesExt, EventReplay, FiniteSetTheorems, SequenceTheorems, TLAPS

\* A nonempty set of naturals has a least element: among the intervals 0 .. i
\* of its elements one has no other inside it.
LEMMA LeastNatural ==
  ASSUME NEW S \in SUBSET Nat, S # {}
  PROVE  \E i \in S : \A j \in S : i <= j
<1> DEFINE R == StrictSubsetOrdering(Nat)
           T == {0 .. i : i \in S}
<1>1. IsWellFoundedOn(R, FiniteSubsetsOf(Nat))
  BY FS_StrictSubsetOrderingWellFounded
<1>2. \A i \in Nat : 0 .. i \in FiniteSubsetsOf(Nat)
  BY FS_Interval DEF FiniteSubsetsOf
<1>3. T \subseteq FiniteSubsetsOf(Nat) /\ T # {}
  BY <1>2
<1>4. \A i, j \in Nat : j < i => <<0 .. j, 0 .. i>> \in R
  <2>1. ASSUME NEW i \in Nat, NEW j \in Nat, j < i
        PROVE  0 .. j \subseteq 0 .. i /\ i \in 0 .. i /\ i \notin 0 .. j
    BY <2>1
  <2>2. \A i \in Nat : 0 .. i \in SUBSET Nat
    OBVIOUS
  <2>3. QED
    BY <2>1, <2>2 DEF StrictSubsetOrdering
<1> HIDE DEF R
<1>5. \E X \in T : \A Y \in T : <<Y, X>> \notin R
  <2> HIDE DEF T
  <2>1. QED
    BY <1>1, <1>3, WFMin
<1>6. PICK i \in S : \A j \in S : <<0 .. j, 0 .. i>> \notin R
  BY <1>5
<1>7. ASSUME NEW j \in S PROVE i <= j
  <2>1. i \in Nat /\ j \in Nat /\ <<0 .. j, 0 .. i>> \notin R
    BY <1>6
  <2>2. ~(j < i)
    BY <1>4, <2>1
  <2>3. QED
    BY <2>1, <2>2
<1>8. QED
  BY <1>7

\* A nonempty set of naturals up to n has a greatest element.
LEMMA GreatestNatural ==
  ASSUME NEW n \in Nat, NEW S \in SUBSET (0 .. n), S # {}
  PROVE  \E i \in S : \A j \in S : j <= i
<1> DEFINE T == {n - i : i \in S}
<1>1. T \in SUBSET Nat /\ T # {}
  <2>1. \A i \in 0 .. n : n - i \in Nat
    OBVIOUS
  <2>2. QED
    BY <2>1
<1>2. PICK k \in T : \A m \in T : k <= m
  BY <1>1, LeastNatural
<1>3. PICK i \in S : k = n - i
  BY <1>2
<1>4. \A j \in S : n - i <= n - j
  BY <1>2, <1>3
<1>5. QED
  BY <1>4

LEMMA UpToCardinality ==
  ASSUME NEW n \in Nat
  PROVE  IsFiniteSet(1 .. n) /\ Cardinality(1 .. n) = n
<1>1. 1 \in Int /\ n \in Int
  OBVIOUS
<1>2. IsFiniteSet(1 .. n) /\ Cardinality(1 .. n) = IF 1 > n THEN 0 ELSE n - 1 + 1
  BY <1>1, FS_Interval
<1>3. QED
  BY <1>2

\* A function on 1 .. n is a sequence of length n.
LEMMA SeqOfFunction ==
  ASSUME NEW S, NEW n \in Nat, NEW f \in [1 .. n -> S]
  PROVE  f \in Seq(S) /\ Len(f) = n
<1>1. f \in Seq(S)
  BY SeqDef
<1>2. Len(f) \in Nat /\ 1 .. Len(f) = 1 .. n
  BY <1>1, LenProperties
<1>3. \A k \in Nat : k \in 1 .. Len(f) <=> k \in 1 .. n
  BY <1>2
<1>4. ~(Len(f) < n) /\ ~(n < Len(f))
  BY <1>2, <1>3
<1>5. QED
  BY <1>1, <1>2, <1>4

\* A set of naturals that holds 0 and the successor of each of its elements
\* holds them all: the least natural outside it would follow one inside it.
LEMMA NaturalsClosed ==
  ASSUME NEW S, 0 \in S, \A n \in Nat : n \in S => n + 1 \in S
  PROVE  \A n \in Nat : n \in S
<1> SUFFICES ASSUME Nat \ S # {} PROVE FALSE
  OBVIOUS
<1>1. PICK n \in Nat \ S : \A m \in Nat \ S : n <= m
  BY LeastNatural
<1>2. n # 0 /\ n \in Nat
  BY <1>1
<1>3. n - 1 \in Nat /\ ~(n <= n - 1)
  BY <1>2
<1>4. n - 1 \in S
  BY <1>1, <1>3
<1>5. (n - 1) + 1 \in S
  BY <1>3, <1>4
<1>6. QED
  BY <1>1, <1>2, <1>5

\* A loop of N steps from x0, step n taking x to g[n][x], has a run.
LEMMA IterationExists ==
  ASSUME NEW X, NEW x0 \in X, NEW N \in Nat, NEW g \in [1 .. N -> [X -> X]]
  PROVE  \E f \in [0 .. N -> X] :
           f[0] = x0 /\ \A n \in 1 .. N : f[n] = g[n][f[n - 1]]
<1> DEFINE Runs(m) == {f \in [0 .. m -> X] :
                        f[0] = x0 /\ \A n \in 1 .. m : f[n] = g[n][f[n - 1]]}
           S == {m \in Nat : m <= N => Runs(m) # {}}
<1>1. 0 \in S
  <2>1. [n \in 0 .. 0 |-> x0] \in Runs(0)
    OBVIOUS
  <2>2. QED
    BY <2>1
<1>2. ASSUME NEW m \in Nat, m \in S PROVE m + 1 \in S
  <2> SUFFICES ASSUME m + 1 <= N PROVE Runs(m + 1) # {}
    OBVIOUS
  <2>1. m <= N
    OBVIOUS
  <2>2. PICK f \in Runs(m) : TRUE
    BY <1>2, <2>1
  <2>3. f \in [0 .. m -> X] /\ f[0] = x0 /\ \A n \in 1 .. m : f[n] = g[n][f[n - 1]]
    BY <2>2
  <2> DEFINE h == [n \in 0 .. m + 1 |-> IF n <= m THEN f[n] ELSE g[m + 1][f[m]]]
  <2>4. m + 1 \in 1 .. N /\ m \in 0 .. m
    OBVIOUS
  <2>5. g[m + 1][f[m]] \in X
    BY <2>3, <2>4
  <2>6. h \in [0 .. m + 1 -> X]
    BY <2>3, <2>5
  <2>7. \A n \in 0 .. m : h[n] = f[n]
    OBVIOUS
  <2>8. h[m + 1] = g[m + 1][h[m]]
    BY <2>7
  <2>9. ASSUME NEW n \in 1 .. m + 1 PROVE h[n] = g[n][h[n - 1]]
    <3>1. CASE n = m + 1
      BY <2>8, <3>1
    <3>2. CASE n # m + 1
      <4>1. n \in 1 .. m /\ n \in 0 .. m /\ n - 1 \in 0 .. m
        BY <3>2
      <4>2. QED
        BY <2>3, <2>7, <4>1
    <3>3. QED
      BY <3>1, <3>2
  <2>10. h[0] = x0
    BY <2>3, <2>7
  <2>11. h \in Runs(m + 1)
    <3> HIDE DEF h
    <3>1. QED
      BY <2>6, <2>9, <2>10
  <2>12. QED
    BY <2>11
<1>3. N \in S
  <2> HIDE DEF S
  <2>1. QED
    BY <1>1, <1>2, NaturalsClosed
<1>4. PICK f \in Runs(N) : TRUE
  BY <1>3
<1>5. QED
  BY <1>4

\* The values of that run.
Iterates(f, X, x0, N, g) ==
  /\ f \in [0 .. N -> X] /\ f[0] = x0
  /\ \A n \in 1 .. N : f[n] = g[n][f[n - 1]]

LEMMA IteratesExists ==
  ASSUME NEW X, NEW x0 \in X, NEW N \in Nat, NEW g \in [1 .. N -> [X -> X]]
  PROVE  \E f : Iterates(f, X, x0, N, g)
BY IterationExists DEF Iterates

LEMMA AppendTwice ==
  ASSUME NEW D, NEW a \in D, NEW b \in D
  PROVE  Append(Append(<< >>, a), b) = <<a, b>>
<1>1. Append(<< >>, a) = <<a>> /\ <<a>> \in Seq(D)
  OBVIOUS
<1> DEFINE s == Append(<<a>>, b)
           t == <<a, b>>
<1>2. s \in Seq(D) /\ Len(s) = 2 /\ s[1] = a /\ s[2] = b
  BY <1>1
<1>3. t \in Seq(D) /\ Len(t) = 2 /\ t[1] = a /\ t[2] = b
  OBVIOUS
<1> HIDE DEF s, t
<1>4. \A i \in 1 .. Len(s) : s[i] = t[i]
  BY <1>2, <1>3
<1>5. s = t
  BY <1>2, <1>3, <1>4, SeqEqual
<1>6. QED
  BY <1>1, <1>5 DEF s, t

\* The sequence that closes up after its i-th element goes.
LEMMA SeqWithout ==
  ASSUME NEW S, NEW s \in Seq(S), NEW i \in 1 .. Len(s), NEW t,
         t = [j \in 1 .. Len(s) - 1 |-> IF j < i THEN s[j] ELSE s[j + 1]]
  PROVE  /\ t \in Seq(S) /\ Len(t) = Len(s) - 1
         /\ \A j \in 1 .. Len(t) : j < i => t[j] = s[j]
         /\ \A j \in 1 .. Len(t) : ~(j < i) => t[j] = s[j + 1]
<1>1. Len(s) \in Nat /\ Len(s) - 1 \in Nat
  OBVIOUS
<1>2. \A j \in 1 .. Len(s) - 1 : s[j] \in S /\ s[j + 1] \in S
  BY <1>1
<1>3. t \in [1 .. Len(s) - 1 -> S]
  BY <1>2
<1>4. t \in Seq(S) /\ Len(t) = Len(s) - 1
  BY <1>1, <1>3, SeqOfFunction
<1>5. QED
  BY <1>1, <1>4

\* What a search through an array finds: the first of some positions, or 0.
FirstIn(S) == IF S = {} THEN 0 ELSE CHOOSE i \in S : \A j \in S : i <= j

LEMMA FirstInPositions ==
  ASSUME NEW S \in SUBSET (Nat \ {0})
  PROVE  /\ S = {} => FirstIn(S) = 0
         /\ S # {} => FirstIn(S) \in S /\ \A j \in S : FirstIn(S) <= j
<1>1. ASSUME S # {} PROVE \E i \in S : \A j \in S : i <= j
  <2>1. S \in SUBSET Nat
    OBVIOUS
  <2>2. QED
    BY <1>1, <2>1, LeastNatural
<1>2. QED
  BY <1>1 DEF FirstIn

-----------------------------------------------------------------------------
(* Tables searched by key.                                                 *)

\* What a table of keys k and values v, searched from its start, says of the
\* keys it holds.
Dictionary(k, v) ==
  [h \in {k[i] : i \in DOMAIN k} |-> v[FirstIn({i \in DOMAIN k : k[i] = h})]]

NoKeyTwice(k) == \A i, j \in DOMAIN k : k[i] = k[j] => i = j

\* When no key occurs twice a search finds the one place of each key.
LEMMA DictionaryEntry ==
  ASSUME NEW n \in Nat, NEW k, DOMAIN k = 1 .. n, NoKeyTwice(k), NEW v,
         NEW i \in 1 .. n
  PROVE  k[i] \in DOMAIN Dictionary(k, v) /\ Dictionary(k, v)[k[i]] = v[i]
<1> DEFINE at == {j \in DOMAIN k : k[j] = k[i]}
<1>1. at \in SUBSET (Nat \ {0}) /\ at # {}
  OBVIOUS
<1>2. \A j \in at : j = i
  BY DEF NoKeyTwice
<1>3. FirstIn(at) \in at
  <2> HIDE DEF at
  <2>1. QED
    BY <1>1, FirstInPositions
<1>4. FirstIn(at) = i
  BY <1>2, <1>3
<1>5. k[i] \in {k[j] : j \in DOMAIN k}
  OBVIOUS
<1>6. Dictionary(k, v)[k[i]] = v[FirstIn(at)]
  BY <1>5 DEF Dictionary
<1>7. QED
  BY <1>4, <1>5, <1>6 DEF Dictionary

\* So does a search that finds its place among a set of them.
LEMMA FirstOfOne ==
  ASSUME NEW i \in Nat \ {0} PROVE FirstIn({i}) = i
<1>1. {i} \in SUBSET (Nat \ {0}) /\ {i} # {}
  OBVIOUS
<1>2. FirstIn({i}) \in {i}
  BY <1>1, FirstInPositions
<1>3. QED
  BY <1>2

\* One value changes.
LEMMA DictionaryChange ==
  ASSUME NEW n \in Nat, NEW k, DOMAIN k = 1 .. n, NEW v, NEW w, NoKeyTwice(k),
         NEW i \in 1 .. n, \A j \in 1 .. n \ {i} : w[j] = v[j]
  PROVE  /\ DOMAIN Dictionary(k, w) = DOMAIN Dictionary(k, v)
         /\ \A h \in DOMAIN Dictionary(k, v) \ {k[i]} :
              Dictionary(k, w)[h] = Dictionary(k, v)[h]
         /\ Dictionary(k, v)[k[i]] = v[i] /\ Dictionary(k, w)[k[i]] = w[i]
         /\ k[i] \in DOMAIN Dictionary(k, v)
<1>1. \A h \in DOMAIN Dictionary(k, v) : \E j \in 1 .. n : h = k[j]
  BY DEF Dictionary
<1>2. DOMAIN Dictionary(k, w) = DOMAIN Dictionary(k, v)
  BY DEF Dictionary
<1>3. QED
  BY <1>1, <1>2, DictionaryEntry

\* The table l, w has one more entry than k, v, under a key of its own.
OneMore(k, v, l, w, n, m) ==
  /\ n \in Nat /\ m \in Nat /\ m = n + 1
  /\ DOMAIN k = 1 .. n /\ DOMAIN l = 1 .. m /\ NoKeyTwice(k)
  /\ \A j \in 1 .. n : l[j] = k[j] /\ w[j] = v[j]
  /\ \A j \in 1 .. n : k[j] # l[m]

LEMMA DictionaryAdd ==
  ASSUME NEW n, NEW m, NEW k, NEW v, NEW l, NEW w, OneMore(k, v, l, w, n, m)
  PROVE  /\ NoKeyTwice(l)
         /\ l[m] \notin DOMAIN Dictionary(k, v)
         /\ \A h : h \in DOMAIN Dictionary(l, w)
                    <=> h \in DOMAIN Dictionary(k, v) \/ h = l[m]
         /\ \A h \in DOMAIN Dictionary(k, v) :
              Dictionary(l, w)[h] = Dictionary(k, v)[h]
<1> USE DEF OneMore
<1>1. \A j \in 1 .. m : j \in 1 .. n \/ j = m
  OBVIOUS
<1>2. m \in 1 .. m /\ \A j \in 1 .. n : j \in 1 .. m
  OBVIOUS
<1>3. NoKeyTwice(l)
  BY <1>1 DEF NoKeyTwice
<1>4. DOMAIN Dictionary(k, v) = {k[j] : j \in 1 .. n}
  BY DEF Dictionary
<1>5. DOMAIN Dictionary(l, w) = {l[j] : j \in 1 .. m}
  BY DEF Dictionary
<1>6. DOMAIN Dictionary(l, w) = DOMAIN Dictionary(k, v) \cup {l[m]}
  BY <1>1, <1>2, <1>4, <1>5
<1>7. ASSUME NEW h \in DOMAIN Dictionary(k, v)
      PROVE  Dictionary(l, w)[h] = Dictionary(k, v)[h]
  <2>1. PICK j \in 1 .. n : h = k[j]
    BY <1>4
  <2>2. Dictionary(k, v)[k[j]] = v[j]
    BY DictionaryEntry
  <2>3. Dictionary(l, w)[l[j]] = w[j]
    BY <1>2, <1>3, DictionaryEntry
  <2>4. QED
    BY <2>1, <2>2, <2>3
<1>8. QED
  BY <1>3, <1>4, <1>6, <1>7

\* The table l, w is k, v without its entry i, closed up.
OneLess(k, v, l, w, n, i) ==
  /\ n \in Nat /\ i \in 1 .. n
  /\ DOMAIN k = 1 .. n /\ DOMAIN l = 1 .. n - 1 /\ NoKeyTwice(k)
  /\ \A j \in 1 .. n - 1 : /\ l[j] = IF j < i THEN k[j] ELSE k[j + 1]
                           /\ w[j] = IF j < i THEN v[j] ELSE v[j + 1]

LEMMA DictionaryRemove ==
  ASSUME NEW n, NEW i, NEW k, NEW v, NEW l, NEW w, OneLess(k, v, l, w, n, i)
  PROVE  /\ NoKeyTwice(l)
         /\ \A h : h \in DOMAIN Dictionary(l, w)
                    <=> h \in DOMAIN Dictionary(k, v) /\ h # k[i]
         /\ \A h \in DOMAIN Dictionary(l, w) :
              Dictionary(l, w)[h] = Dictionary(k, v)[h]
<1> USE DEF OneLess
<1> DEFINE Was(j) == IF j < i THEN j ELSE j + 1
<1>1. n - 1 \in Nat
  OBVIOUS
<1>2. /\ \A j \in 1 .. n - 1 : Was(j) \in 1 .. n \ {i}
      /\ \A j, g \in 1 .. n - 1 : Was(j) = Was(g) => j = g
      /\ \A g \in 1 .. n \ {i} : \E j \in 1 .. n - 1 : Was(j) = g
  <2>1. ASSUME NEW g \in 1 .. n \ {i} PROVE \E j \in 1 .. n - 1 : Was(j) = g
    <3>1. CASE g < i
      <4>1. g \in 1 .. n - 1 /\ Was(g) = g
        BY <3>1
      <4>2. QED
        BY <4>1
    <3>2. CASE ~(g < i)
      <4>1. g - 1 \in 1 .. n - 1 /\ Was(g - 1) = g
        BY <3>2
      <4>2. QED
        BY <4>1
    <3>3. QED
      BY <3>1, <3>2
  <2>2. QED
    BY <2>1
<1>3. \A j \in 1 .. n - 1 : l[j] = k[Was(j)] /\ w[j] = v[Was(j)]
  OBVIOUS
<1> HIDE DEF Was
<1>4. NoKeyTwice(l)
  BY <1>2, <1>3 DEF NoKeyTwice
<1>5. DOMAIN Dictionary(k, v) = {k[j] : j \in 1 .. n}
  BY DEF Dictionary
<1>6. DOMAIN Dictionary(k, v) \ {k[i]} = {l[j] : j \in 1 .. n - 1}
  <2>1. \A j \in 1 .. n : k[j] = k[i] => j = i
    BY DEF NoKeyTwice
  <2>2. QED
    BY <1>2, <1>3, <1>5, <2>1
<1>7. DOMAIN Dictionary(l, w) = {l[j] : j \in 1 .. n - 1}
  BY DEF Dictionary
<1>8. ASSUME NEW h \in DOMAIN Dictionary(l, w)
      PROVE  Dictionary(l, w)[h] = Dictionary(k, v)[h]
  <2>1. PICK j \in 1 .. n - 1 : h = l[j]
    BY <1>7
  <2>2. Dictionary(k, v)[k[Was(j)]] = v[Was(j)]
    BY <1>2, DictionaryEntry
  <2>3. ASSUME NEW m \in Nat, m = n - 1 PROVE Dictionary(l, w)[l[j]] = w[j]
    <3>1. DOMAIN l = 1 .. m /\ j \in 1 .. m
      BY <2>3
    <3>2. QED
      BY <1>4, <3>1, DictionaryEntry
  <2>4. QED
    BY <1>1, <1>3, <2>1, <2>2, <2>3
<1>9. QED
  BY <1>4, <1>6, <1>7, <1>8

-----------------------------------------------------------------------------
(* The replay of an event log.                                             *)

\* f is a run of the loop over a log, for one PCR: f[n] is its value after n
\* events.
IsReplayRun(f, log, p) ==
  f = [n \in 0 .. Len(log) |->
         IF n = 0 THEN << >>
         ELSE IF log[n].pcr = p THEN Append(f[n - 1], log[n].digest)
         ELSE f[n - 1]]

LEMMA ReplayRunExists ==
  ASSUME NEW E, NEW D, \A e \in E : e.digest \in D, NEW log \in Seq(E), NEW p
  PROVE  \E f \in [0 .. Len(log) -> Seq(D)] : IsReplayRun(f, log, p)
<1> DEFINE X == Seq(D)
           zero == << >>
           g == [n \in 1 .. Len(log) |-> [value \in X |->
                   IF log[n].pcr = p THEN Append(value, log[n].digest) ELSE value]]
<1>1. zero \in X
  OBVIOUS
<1>2. \A n \in 1 .. Len(log) : log[n] \in E
  OBVIOUS
<1>3. \A n \in 1 .. Len(log) : log[n].digest \in D
  BY <1>2
<1>4. g \in [1 .. Len(log) -> [X -> X]]
  BY <1>3
<1>5. \E f \in [0 .. Len(log) -> X] :
        f[0] = zero /\ \A n \in 1 .. Len(log) : f[n] = g[n][f[n - 1]]
  <2> HIDE DEF g, X, zero
  <2>1. ASSUME NEW N \in Nat, N = Len(log)
        PROVE  \E f \in [0 .. N -> X] :
                 f[0] = zero /\ \A n \in 1 .. N : f[n] = g[n][f[n - 1]]
    <3>1. g \in [1 .. N -> [X -> X]]
      BY <1>4, <2>1
    <3>2. QED
      BY ONLY <1>1, <3>1, IterationExists
  <2>2. Len(log) \in Nat
    OBVIOUS
  <2>3. QED
    BY <2>1, <2>2
<1>6. PICK f \in [0 .. Len(log) -> X] :
        f[0] = zero /\ \A n \in 1 .. Len(log) : f[n] = g[n][f[n - 1]]
  BY <1>5
<1>7. ASSUME NEW n \in 1 .. Len(log)
      PROVE  f[n] = IF log[n].pcr = p THEN Append(f[n - 1], log[n].digest) ELSE f[n - 1]
  <2>1. f[n - 1] \in X
    BY <1>6
  <2>2. QED
    BY <1>6, <2>1
<1>8. IsReplayRun(f, log, p)
  <2>1. \A n \in 0 .. Len(log) : n # 0 => n \in 1 .. Len(log)
    OBVIOUS
  <2>2. QED
    BY <1>6, <1>7, <2>1 DEF IsReplayRun
<1>9. QED
  BY <1>6, <1>8

\* Logs that agree on their first events are replayed alike up to there.
LEMMA ReplayRunsAgree ==
  ASSUME NEW s, NEW t, Len(s) \in Nat, Len(t) \in Nat, NEW p,
         Len(s) <= Len(t), \A i \in 1 .. Len(s) : s[i] = t[i],
         NEW f, IsReplayRun(f, s, p), NEW h, IsReplayRun(h, t, p)
  PROVE  \A n \in 0 .. Len(s) : f[n] = h[n]
<1> DEFINE S == {n \in Nat : n <= Len(s) => f[n] = h[n]}
<1>1. 0 \in S
  BY DEF IsReplayRun
<1>2. ASSUME NEW n \in Nat, n \in S PROVE n + 1 \in S
  <2> SUFFICES ASSUME n + 1 <= Len(s) PROVE f[n + 1] = h[n + 1]
    OBVIOUS
  <2>1. /\ n + 1 \in 0 .. Len(s) /\ n + 1 \in 0 .. Len(t) /\ n + 1 # 0
        /\ n + 1 \in 1 .. Len(s) /\ (n + 1) - 1 = n /\ n <= Len(s)
    OBVIOUS
  <2>2. s[n + 1] = t[n + 1] /\ f[n] = h[n]
    BY <1>2, <2>1
  <2>3. f[n + 1] = IF s[n + 1].pcr = p THEN Append(f[n], s[n + 1].digest) ELSE f[n]
    BY <2>1 DEF IsReplayRun
  <2>4. h[n + 1] = IF t[n + 1].pcr = p THEN Append(h[n], t[n + 1].digest) ELSE h[n]
    BY <2>1 DEF IsReplayRun
  <2>5. QED
    BY <2>2, <2>3, <2>4
<1>3. \A n \in Nat : n \in S
  <2> HIDE DEF S
  <2>1. QED
    BY <1>1, <1>2, NaturalsClosed
<1>4. QED
  BY <1>3

LEMMA ReplayByRun ==
  ASSUME NEW log, Len(log) \in Nat, NEW p, NEW f, IsReplayRun(f, log, p)
  PROVE  Replay(log, p) = f[Len(log)]
<1> DEFINE value == CHOOSE h : IsReplayRun(h, log, p)
<1>1. IsReplayRun(value, log, p)
  OBVIOUS
<1>2. Replay(log, p) = value[Len(log)]
  BY DEF Replay, IsReplayRun
<1> HIDE DEF value
<1>3. Len(log) \in 0 .. Len(log)
  OBVIOUS
<1>4. value[Len(log)] = f[Len(log)]
  BY <1>1, <1>3, ReplayRunsAgree
<1>5. QED
  BY <1>2, <1>4

LEMMA ReplayEmpty ==
  ASSUME NEW p PROVE Replay(<< >>, p) = << >>
<1>1. << >> \in Seq({}) /\ Len(<< >>) = 0
  OBVIOUS
<1>2. \E f \in [0 .. Len(<< >>) -> Seq({})] : IsReplayRun(f, << >>, p)
  BY <1>1, ReplayRunExists
<1>3. PICK f : IsReplayRun(f, << >>, p)
  BY <1>2
<1>4. Replay(<< >>, p) = f[0]
  BY <1>1, <1>3, ReplayByRun
<1>5. f[0] = << >>
  BY <1>1, <1>3 DEF IsReplayRun
<1>6. QED
  BY <1>4, <1>5

LEMMA ReplayType ==
  ASSUME NEW E, NEW D, \A e \in E : e.digest \in D, NEW log \in Seq(E), NEW p
  PROVE  Replay(log, p) \in Seq(D)
<1>1. PICK f \in [0 .. Len(log) -> Seq(D)] : IsReplayRun(f, log, p)
  BY ReplayRunExists
<1>2. Len(log) \in Nat /\ Len(log) \in 0 .. Len(log)
  OBVIOUS
<1>3. QED
  BY <1>1, <1>2, ReplayByRun

\* One more event extends the PCR it names.
LEMMA ReplayAppend ==
  ASSUME NEW E, NEW D, \A e \in E : e.digest \in D, NEW log \in Seq(E), NEW e \in E, NEW p
  PROVE  Replay(Append(log, e), p) =
           IF e.pcr = p THEN Append(Replay(log, p), e.digest) ELSE Replay(log, p)
<1> DEFINE longer == Append(log, e)
<1>1. /\ longer \in Seq(E) /\ Len(longer) = Len(log) + 1
      /\ longer[Len(longer)] = e /\ Len(log) \in Nat
      /\ \A i \in 1 .. Len(log) : log[i] = longer[i]
  OBVIOUS
<1> HIDE DEF longer
<1>2. PICK f \in [0 .. Len(log) -> Seq(D)] : IsReplayRun(f, log, p)
  BY ReplayRunExists
<1>3. PICK h \in [0 .. Len(longer) -> Seq(D)] : IsReplayRun(h, longer, p)
  BY <1>1, ReplayRunExists
<1>4. f[Len(log)] = h[Len(log)]
  <2>1. Len(log) \in 0 .. Len(log) /\ Len(longer) \in Nat /\ Len(log) <= Len(longer)
    BY <1>1
  <2>2. QED
    BY <1>1, <1>2, <1>3, <2>1, ReplayRunsAgree
<1>5. h[Len(longer)] = IF e.pcr = p THEN Append(h[Len(log)], e.digest) ELSE h[Len(log)]
  <2>1. Len(longer) \in 0 .. Len(longer) /\ Len(longer) # 0 /\ Len(longer) - 1 = Len(log)
    BY <1>1
  <2>2. QED
    BY <1>1, <1>3, <2>1 DEF IsReplayRun
<1>6. Replay(longer, p) = h[Len(longer)] /\ Replay(log, p) = f[Len(log)]
  BY <1>1, <1>2, <1>3, ReplayByRun
<1>7. Replay(longer, p) = IF e.pcr = p THEN Append(Replay(log, p), e.digest) ELSE Replay(log, p)
  BY <1>4, <1>5, <1>6
<1>8. QED
  BY <1>7 DEF longer

-----------------------------------------------------------------------------
(* Prefixes of sequences.                                                  *)

\* One sequence begins another if they agree on its positions.
LEMMA PrefixByIndex ==
  ASSUME NEW D, NEW s \in Seq(D), NEW t \in Seq(D)
  PROVE  IsPrefix(s, t) <=> Len(s) <= Len(t) /\ \A i \in 1 .. Len(s) : s[i] = t[i]
<1> SUFFICES ASSUME Len(s) <= Len(t)
             PROVE  SubSeq(s, 1, Len(s)) = SubSeq(t, 1, Len(s))
                      <=> \A i \in 1 .. Len(s) : s[i] = t[i]
  BY DEF IsPrefix
<1>1. SubSeq(s, 1, Len(s)) = [i \in 1 .. Len(s) |-> s[i]]
  OBVIOUS
<1>2. SubSeq(t, 1, Len(s)) = [i \in 1 .. Len(s) |-> t[i]]
  OBVIOUS
<1>3. QED
  BY <1>1, <1>2

\* A beginning stays one when the sequence grows.
LEMMA PrefixAppend ==
  ASSUME NEW D, NEW s \in Seq(D), NEW t \in Seq(D), NEW d \in D
  PROVE  IsPrefix(s, s) /\ (IsPrefix(s, t) => IsPrefix(s, Append(t, d)))
<1>1. /\ Append(t, d) \in Seq(D) /\ Len(Append(t, d)) = Len(t) + 1
      /\ \A i \in 1 .. Len(t) : Append(t, d)[i] = t[i]
  OBVIOUS
<1>2. IsPrefix(s, s)
  BY PrefixByIndex
<1>3. ASSUME IsPrefix(s, t) PROVE IsPrefix(s, Append(t, d))
  <2>1. Len(s) <= Len(t) /\ \A i \in 1 .. Len(s) : s[i] = t[i]
    BY <1>3, PrefixByIndex
  <2>2. \A i \in 1 .. Len(s) : i \in 1 .. Len(t)
    BY <2>1
  <2>3. Len(s) <= Len(Append(t, d)) /\ \A i \in 1 .. Len(s) : s[i] = Append(t, d)[i]
    BY <1>1, <2>1, <2>2
  <2>4. QED
    BY <1>1, <2>3, PrefixByIndex
<1>4. QED
  BY <1>2, <1>3
=============================================================================
