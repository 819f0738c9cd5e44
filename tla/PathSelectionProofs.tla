------------------------ MODULE PathSelectionProofs ------------------------
(***************************************************************************)
(* The policies that learn, used without a lock by any number of           *)
(* goroutines, for every set of paths and every history of probes.         *)
(*                                                                         *)
(* CallOK says what a call of BestPath knows, at each of its steps, of the *)
(* maps and counters it shares with the others; that it stays true when    *)
(* others write to them is the lemma CallOKStays.  That a crash needs two  *)
(* calls that overlap rests on PriorsComplete: as long as no two did, only *)
(* a call between its two writes leaves a path in the first map and not in *)
(* the second.  The maps have the IDs of paths as keys, which paths to     *)
(* different targets may share: CountsOK says what a count of UCB1 tells.  *)
(*                                                                         *)
(* The rankings are loops over sequences, which the model writes with the  *)
(* library's folds.  PositionsFold shows that the recursion of such a fold *)
(* has a solution; SortRanks, OnlyFilters and TakeSelects say what the     *)
(* sort, the filter and the selection have computed after k rounds.        *)
(* Scores are fractions (ScoresType), which rests on the sums of the       *)
(* samples being numbers.  That a path which never answered loses rests on *)
(* SilentInv: the rate of a path is not 0 if and only if it answered,      *)
(* except between the two writes of RecordProbe, and the scan of a call    *)
(* has a best path that answered once it has passed one that had.          *)
(***************************************************************************)
EXTENDS PathSelection, FiniteSetTheorems, WellFoundedInduction, TLAPS

Fields == {"pc", "paths", "k", "best", "bestScore", "tmp", "answering"}

PCs == {"idle", "done", "scan", "choose", "count", "counted", "untried", "claim", "bump",
        "bumped", "prior", "prior2", "pick", "update"}

\* A call c of BestPath, given the path sets, the selections of UCB1 and the
\* keys of the first map: the IDs of paths.
CallOK(c, kn, sel, fst) ==
    /\ c = [f \in Fields |-> c[f]]
    /\ c.pc \in PCs /\ c.paths \in Seq(Paths) /\ c.k \in Nat /\ c.tmp \in Nat
    /\ c.best \in Paths \cup {Nil}
    /\ c.pc \notin {"idle", "done"} =>
           c.k \in 1 .. Len(c.paths) /\ \A i \in 1 .. Len(c.paths) : c.paths[i] \in kn
    /\ c.pc \in {"claim", "bump", "bumped", "update"} => c.best \in Paths /\ c.best \in kn
    /\ c.pc \in {"bump", "bumped"} => \A i \in 1 .. Len(c.paths) : sel[ID(c.paths[i])] > 0
    /\ c.pc \in {"prior", "prior2"} => \A i \in 1 .. c.k - 1 : ID(c.paths[i]) \in fst
    /\ c.pc = "prior2" => ID(c.paths[c.k]) \in fst
    /\ c.pc = "pick" => \A i \in 1 .. Len(c.paths) : ID(c.paths[i]) \in fst

CallsOK ==
    /\ call = [g \in Callers |-> call[g]]
    /\ \A g \in Callers : CallOK(call[g], known, pathSelections, first)

\* The record of a path.
Measured ==
    [rttSamples : Seq(Nat), HopCount : Nat, SuccessRate : 0 .. RateUnit, LastProbed : Nat,
     SampleCount : Nat]

\* The path set: every path in it has a sample.
PathsOK ==
    /\ known \subseteq Paths /\ metrics \in [Paths -> Measured]
    /\ \A p \in known : metrics[p].SampleCount >= 1
    /\ recording = NotRecording \/ recording \in known \X (0 .. RateUnit)

LearningOK ==
    /\ policy \in Policies /\ selections \in Nat /\ pathSelections \in [IDs -> Nat]
    /\ first \subseteq {ID(p) : p \in known} /\ second \subseteq first
    /\ calls \in [Callers -> 0 .. MaxCalls] /\ crashed \in BOOLEAN /\ overlapped \in BOOLEAN

\* Under an ID with a count some path was selected.
CountsOK ==
    /\ tried \subseteq known
    /\ \A i \in IDs : pathSelections[i] > 0 => \E q \in tried : ID(q) = i

\* As long as no calls overlapped, there is one at a time.
Alone == ~overlapped => \A g, h \in Callers : Active(g) /\ Active(h) => g = h

\* Then the two maps have the same keys, except between the two writes of a call.
PriorsComplete ==
    ~overlapped =>
        \A i \in first \ second :
            \E g \in Callers : call[g].pc = "prior2" /\ i = ID(call[g].paths[call[g].k])

\* The inductive invariant.
Inv ==
    /\ PathsOK /\ LearningOK /\ CountsOK /\ CallsOK /\ Alone /\ PriorsComplete
    /\ CrashNeedsOverlap

-----------------------------------------------------------------------------
(* The least and the greatest number of a set. *)

\* A set of numbers that is not empty has a least element.
LEMMA MinIsMember ==
    ASSUME NEW S \in SUBSET Nat, S # {}
    PROVE  Min(S) \in S /\ \A n \in S : Min(S) <= n
<1> DEFINE R == OpToRel(<, Nat)
<1>1. IsWellFoundedOn(R, Nat)
  BY NatLessThanWellFounded
<1>2. \A m, n \in Nat : <<m, n>> \in R <=> m < n
  BY DEF OpToRel
<1> HIDE DEF R
<1>3. PICK n \in S : \A m \in S : ~(<<m, n>> \in R)
  BY <1>1, WFMin
<1>4. \A m, k \in Nat : ~(m < k) => k <= m
  OBVIOUS
<1>5. \A m \in S : n <= m
  BY <1>2, <1>3, <1>4
<1> QED BY <1>5 DEF Min

\* A set of positions has a last one.
LEMMA MaxIsMember ==
    ASSUME NEW n \in Nat, NEW s \in SUBSET (1 .. n), s # {}
    PROVE  Max(s) \in s /\ \A x \in s : Max(s) >= x
<1> DEFINE D == {n - x : x \in s}
<1>1. D \in SUBSET Nat /\ D # {}
  <2>1. \A x \in s : n - x \in Nat
    OBVIOUS
  <2>2. PICK x : x \in s
    OBVIOUS
  <2>3. n - x \in D
    BY <2>2
  <2> QED BY <2>1, <2>3
<1>2. Min(D) \in D /\ \A d \in D : Min(D) <= d
  <2> HIDE DEF D
  <2> QED BY <1>1, MinIsMember
<1>3. PICK x \in s : Min(D) = n - x
  BY <1>2
<1>4. ASSUME NEW y \in s PROVE x >= y
  <2>1. n - x <= n - y
    BY <1>2, <1>3
  <2> QED BY <2>1
<1> QED BY <1>4 DEF Max

-----------------------------------------------------------------------------
(* Folds.  The fold of the library is a recursive function on the subsets of *)
(* a finite set.  Its recursion has a solution if each round keeps to some   *)
(* set of values; the lemma takes the round as a function.                   *)

\* The subsets with at most n elements.
Upto(T, n) == {s \in SUBSET T : Cardinality(s) <= n}

\* g is the recursion on the sets in D.
Recurs(g, D, base, round, pick) ==
    \A s \in D : g[s] = IF s = {} THEN base ELSE round[<<g[s \ {pick[s]}], pick[s]>>]

\* The recursion has a solution, by induction over the size of the subsets.
LEMMA FoldExists ==
    ASSUME NEW T, IsFiniteSet(T), NEW V, NEW base \in V, NEW round \in [V \X T -> V],
           NEW pick, \A s \in SUBSET T : s # {} => pick[s] \in s
    PROVE  \E g \in [SUBSET T -> V] : Recurs(g, SUBSET T, base, round, pick)
<1> DEFINE Good(n) == \E g \in [Upto(T, n) -> V] : Recurs(g, Upto(T, n), base, round, pick)
           Bad == {n \in Nat : ~Good(n)}
<1>0. ASSUME NEW s \in SUBSET T
      PROVE  /\ IsFiniteSet(s) /\ Cardinality(s) \in Nat /\ (Cardinality(s) = 0 <=> s = {})
             /\ \A x \in s : Cardinality(s \ {x}) = Cardinality(s) - 1 /\ s \ {x} \in SUBSET T
  BY FS_Subset, FS_CardinalityType, FS_EmptySet, FS_RemoveElement
<1>1. CASE Bad = {}
  <2>1. Cardinality(T) \in Nat
    BY FS_CardinalityType
  <2>2. Good(Cardinality(T))
    <3> HIDE DEF Good
    <3> QED BY <1>1, <2>1
  <2>3. Upto(T, Cardinality(T)) = SUBSET T
    BY FS_Subset DEF Upto
  <2> QED BY <2>2, <2>3
<1>2. CASE Bad # {}
  <2> DEFINE n == Min(Bad)
  <2>1. n \in Bad /\ \A m \in Bad : n <= m
    <3>1. Bad \in SUBSET Nat
      OBVIOUS
    <3> HIDE DEF Bad
    <3> QED BY <1>2, <3>1, MinIsMember
  <2> HIDE DEF n
  <2>2. CASE n = 0
    <3> DEFINE g == [s \in Upto(T, 0) |-> base]
    <3>1. \A s \in Upto(T, 0) : s = {}
      BY <1>0 DEF Upto
    <3>2. g \in [Upto(T, 0) -> V] /\ Recurs(g, Upto(T, 0), base, round, pick)
      BY <3>1 DEF Recurs
    <3>3. Good(0)
      <4> HIDE DEF g
      <4> QED BY <3>2
    <3> QED BY <2>1, <2>2, <3>3
  <2>3. CASE n # 0
    <3>1. n \in Nat /\ n - 1 \in Nat /\ ~(n <= n - 1)
      BY <2>1, <2>3
    <3>2. Good(n - 1)
      <4> HIDE DEF Good
      <4> QED BY <2>1, <3>1
    <3>3. PICK h \in [Upto(T, n - 1) -> V] : Recurs(h, Upto(T, n - 1), base, round, pick)
      BY <3>2
    <3>4. ASSUME NEW s \in Upto(T, n), s # {}
          PROVE  s \ {pick[s]} \in Upto(T, n - 1) /\ pick[s] \in T
      BY <1>0, <3>1, <3>4 DEF Upto
    <3> DEFINE g == [s \in Upto(T, n) |->
                        IF s = {} THEN base ELSE round[<<h[s \ {pick[s]}], pick[s]>>]]
    <3>5. g \in [Upto(T, n) -> V]
      <4> SUFFICES ASSUME NEW s \in Upto(T, n), s # {}
                   PROVE  round[<<h[s \ {pick[s]}], pick[s]>>] \in V
        OBVIOUS
      <4>1. h[s \ {pick[s]}] \in V /\ pick[s] \in T
        BY <3>4
      <4> QED BY <4>1
    <3>6. ASSUME NEW s \in Upto(T, n - 1) PROVE s \in Upto(T, n) /\ g[s] = h[s]
      <4>1. s \in Upto(T, n)
        BY <1>0, <3>1 DEF Upto
      <4> QED BY <3>3, <4>1 DEF Recurs
    <3>7. Recurs(g, Upto(T, n), base, round, pick)
      <4> SUFFICES ASSUME NEW s \in Upto(T, n), s # {}
                   PROVE  h[s \ {pick[s]}] = g[s \ {pick[s]}]
        BY DEF Recurs
      <4>1. s \ {pick[s]} \in Upto(T, n - 1)
        BY <3>4
      <4> HIDE DEF g
      <4> QED BY <4>1, <3>6
    <3>8. Good(n)
      <4> HIDE DEF g
      <4> QED BY <3>5, <3>7
    <3> QED BY <2>1, <3>8
  <2> QED BY <2>2, <2>3
<1> QED BY <1>1, <1>2

\* What a loop over a sequence takes next: the last of the positions 1 .. k.
LEMMA LastPosition ==
    ASSUME NEW len \in Nat, NEW k \in 1 .. len
    PROVE  /\ 1 .. k \in SUBSET (1 .. len) /\ 1 .. k # {}
           /\ Max(1 .. k) = k /\ (1 .. k) \ {k} = 1 .. k - 1
<1>1. 1 .. k \in SUBSET (1 .. len) /\ 1 .. k # {} /\ k \in 1 .. k /\ (1 .. k) \ {k} = 1 .. k - 1
  OBVIOUS
<1>2. Max(1 .. k) \in 1 .. k /\ \A x \in 1 .. k : Max(1 .. k) >= x
  BY <1>1, MaxIsMember
<1>3. Max(1 .. k) >= k
  BY <1>1, <1>2
<1> QED BY <1>1, <1>2, <1>3

\* There is a fold over the positions 1 .. len, the last first.
HasFold(len, V, base, round) ==
    \E g \in [SUBSET (1 .. len) -> V] : \A s \in SUBSET (1 .. len) :
        g[s] = IF s = {} THEN base ELSE round[<<g[s \ {Max(s)}], Max(s)>>]

\* The recursion of a fold over a sequence has a solution.
LEMMA PositionsFold ==
    ASSUME NEW len \in Nat, NEW V, NEW base \in V, NEW round \in [V \X (1 .. len) -> V]
    PROVE  HasFold(len, V, base, round)
<1> DEFINE T == 1 .. len
           pick == [s \in SUBSET T |-> Max(s)]
<1>1. IsFiniteSet(T)
  BY FS_Interval
<1>2. \A s \in SUBSET T : s # {} => pick[s] \in s
  BY MaxIsMember
<1>3. \A s \in SUBSET T : pick[s] = Max(s)
  OBVIOUS
<1> HIDE DEF T, pick
<1>4. PICK g \in [SUBSET T -> V] : Recurs(g, SUBSET T, base, round, pick)
  BY <1>1, <1>2, FoldExists DEF T
<1>5. \A s \in SUBSET T : g[s] = IF s = {} THEN base ELSE round[<<g[s \ {Max(s)}], Max(s)>>]
  BY <1>3, <1>4 DEF Recurs
<1> QED BY <1>5 DEF T, HasFold

-----------------------------------------------------------------------------
(* The insertion sort. *)

\* The scores.
Fractions == Int \X (Nat \ {0})

\* No element twice.
Distinct(seq) == \A i, j \in 1 .. Len(seq) : seq[i] = seq[j] => i = j

\* p occurs before q.
Earlier(p, q, seq) == \E i, j \in 1 .. Len(seq) : i < j /\ seq[i] = p /\ seq[j] = q

\* Products of inequalities.
LEMMA Monotone ==
    ASSUME NEW a \in Int, NEW b \in Int, NEW c \in Nat
    PROVE  a <= b => a * c <= b * c
OBVIOUS

\* Scores are weakly ordered.
LEMMA GreaterOrders ==
    ASSUME NEW s \in Fractions, NEW t \in Fractions, NEW u \in Fractions
    PROVE  /\ Greater(s, t) => ~Greater(t, s)
           /\ ~Greater(s, t) /\ ~Greater(t, u) => ~Greater(s, u)
<1>1. /\ s[1] \in Int /\ t[1] \in Int /\ u[1] \in Int
      /\ s[2] \in Nat \ {0} /\ t[2] \in Nat \ {0} /\ u[2] \in Nat \ {0}
  BY DEF Fractions
<1> DEFINE a == s[1]
           b == t[1]
           c == u[1]
           x == s[2]
           y == t[2]
           z == u[2]
<1>2. /\ a \in Int /\ b \in Int /\ c \in Int
      /\ x \in Nat \ {0} /\ y \in Nat \ {0} /\ z \in Nat \ {0}
  BY <1>1
<1>3. /\ Greater(s, t) <=> a * y > b * x
      /\ Greater(t, s) <=> b * x > a * y
      /\ Greater(t, u) <=> b * z > c * y
      /\ Greater(s, u) <=> a * z > c * x
  BY DEF Greater
<1> HIDE DEF a, b, c, x, y, z
<1>4. Greater(s, t) => ~Greater(t, s)
  <2>1. a * y \in Int /\ b * x \in Int
    BY <1>2
  <2> QED BY <1>3, <2>1
<1>5. ASSUME a * y <= b * x, b * z <= c * y
      PROVE  a * z <= c * x
  <2>1. (a * y) * z <= (b * x) * z
    BY <1>2, <1>5, Monotone
  <2>2. (b * z) * x <= (c * y) * x
    BY <1>2, <1>5, Monotone
  <2>3. (a * z) * y <= (c * x) * y
    BY <1>2, <2>1, <2>2
  <2>4. a * z \in Int /\ c * x \in Int
    BY <1>2
  <2> DEFINE l == a * z
             r == c * x
  <2> HIDE DEF l, r
  <2>5. l * y <= r * y /\ l \in Int /\ r \in Int
    BY <2>3, <2>4 DEF l, r
  <2>6. ~(r + 1 <= l)
    <3> SUFFICES ASSUME r + 1 <= l PROVE FALSE
      OBVIOUS
    <3>1. (r + 1) * y <= l * y
      BY <1>2, <2>5, Monotone
    <3>2. (r + 1) * y = r * y + y /\ r * y \in Int /\ l * y \in Int
      BY <1>2, <2>5
    <3> QED BY <1>2, <2>5, <3>1, <3>2
  <2>7. l <= r
    BY <2>5, <2>6
  <2> QED BY <2>7 DEF l, r
<1>6. /\ a * y \in Int /\ b * x \in Int /\ b * z \in Int /\ c * y \in Int
      /\ a * z \in Int /\ c * x \in Int
  BY <1>2
<1> QED BY <1>3, <1>4, <1>5, <1>6

\* new is done with x behind position c.
Inserted(new, done, c, x, X) ==
    /\ new \in Seq(X) /\ Len(new) = Len(done) + 1
    /\ \A i \in 1 .. Len(done) + 1 :
           new[i] = IF i <= c THEN done[i] ELSE IF i = c + 1 THEN x ELSE done[i - 1]

\* What the insertion of the library does.
LEMMA InsertAtIs ==
    ASSUME NEW X, NEW done \in Seq(X), NEW c \in 0 .. Len(done), NEW x \in X
    PROVE  Inserted(InsertAt(done, c + 1, x), done, c, x, X)
<1> DEFINE n == Len(done)
           l == SubSeq(done, 1, c)
           r == SubSeq(done, c + 1, n)
           lx == l \o <<x>>
           new == lx \o r
<1>1. n \in Nat /\ c \in Nat /\ c <= n
  OBVIOUS
<1>2. l \in Seq(X) /\ Len(l) = c /\ \A i \in 1 .. c : l[i] = done[i]
  BY <1>1
<1>3. r \in Seq(X) /\ Len(r) = n - c /\ \A i \in 1 .. n - c : r[i] = done[c + i]
  BY <1>1
<1> HIDE DEF l, r
<1>4. /\ lx \in Seq(X) /\ Len(lx) = c + 1
      /\ \A i \in 1 .. c + 1 : lx[i] = IF i <= c THEN done[i] ELSE x
  BY <1>1, <1>2
<1> HIDE DEF lx
<1>5. /\ new \in Seq(X) /\ Len(new) = n + 1
      /\ \A i \in 1 .. c + 1 : new[i] = lx[i]
      /\ \A i \in 1 .. n - c : new[c + 1 + i] = r[i]
  <2>1. (c + 1) + (n - c) = n + 1
    BY <1>1
  <2>2. lx \in Seq(X) /\ r \in Seq(X)
    BY <1>3, <1>4
  <2>3. Len(lx) = c + 1 /\ Len(r) = n - c
    BY <1>3, <1>4
  <2>4. new \in Seq(X) /\ Len(new) = n + 1
    BY SMTT(20), <2>1, <2>2, <2>3
  <2>5. ASSUME NEW i \in 1 .. c + 1 PROVE new[i] = lx[i]
    BY <1>1, <2>2, <2>3
  <2>6. ASSUME NEW i \in 1 .. n - c PROVE new[c + 1 + i] = r[i]
    <3> DEFINE j == c + 1 + i
    <3>1. j \in 1 .. n + 1 /\ j > c + 1 /\ j - (c + 1) = i
      BY <1>1
    <3> HIDE DEF j
    <3>2. new[j] = r[j - (c + 1)]
      BY <1>1, <2>2, <2>3, <3>1
    <3> QED BY <3>1, <3>2 DEF j
  <2> QED BY <2>4, <2>5, <2>6
<1>6. ASSUME NEW i \in 1 .. n + 1
      PROVE  new[i] = IF i <= c THEN done[i] ELSE IF i = c + 1 THEN x ELSE done[i - 1]
  <2>1. CASE i <= c + 1
    <3>1. i \in 1 .. c + 1
      BY <1>1, <2>1
    <3> QED BY <1>1, <1>4, <1>5, <2>1, <3>1
  <2>2. CASE ~(i <= c + 1)
    <3> DEFINE j == i - (c + 1)
    <3>1. j \in 1 .. n - c /\ c + j = i - 1 /\ c + 1 + j = i /\ ~(i <= c) /\ i # c + 1
      BY <1>1, <2>2
    <3> HIDE DEF j
    <3>2. new[c + 1 + j] = done[c + j]
      BY <1>3, <1>5, <3>1
    <3> QED BY <3>1, <3>2
  <2> QED BY <2>1, <2>2
<1>7. InsertAt(done, c + 1, x) = new
  <2>1. (c + 1) - 1 = c
    BY <1>1
  <2> QED BY <2>1 DEF InsertAt, new, lx, l, r
<1> HIDE DEF new
<1> QED BY <1>5, <1>6, <1>7 DEF Inserted

\* p comes before q in a stable sort of seq by score.
Precedes(p, q, score, seq) ==
    Greater(score[p], score[q]) \/ (~Greater(score[q], score[p]) /\ Earlier(p, q, seq))

\* Where the round of the sort inserts.
LEMMA StopBound ==
    ASSUME NEW X, NEW done \in Seq(X), NEW x \in X, NEW score
    PROVE  LET stop == {i \in DOMAIN done : ~Greater(score[x], score[done[i]])}
           IN  Cardinality(stop) \in 0 .. Len(done)
<1> DEFINE n == Len(done)
           stop == {i \in DOMAIN done : ~Greater(score[x], score[done[i]])}
<1>1. n \in Nat /\ DOMAIN done = 1 .. n
  OBVIOUS
<1>2. stop \subseteq 1 .. n
  BY <1>1
<1>3. IsFiniteSet(1 .. n) /\ Cardinality(1 .. n) = n
  BY SMTT(20), <1>1, FS_Interval
<1> HIDE DEF n, stop
<1>4. IsFiniteSet(stop) /\ Cardinality(stop) <= Cardinality(1 .. n)
  BY <1>2, <1>3, FS_Subset
<1>5. Cardinality(stop) \in Nat
  BY <1>4, FS_CardinalityType
<1>6. Cardinality(stop) \in 0 .. n
  BY <1>1, <1>3, <1>4, <1>5
<1> QED BY <1>6 DEF stop, n

\* A round of the sort over a sorted sequence: it splits at c.
LEMMA InsertedByScore ==
    ASSUME NEW X, NEW done \in Seq(X), NEW x \in X, NEW score \in [X -> Fractions],
           \A i, j \in 1 .. Len(done) : i < j => ~Greater(score[done[j]], score[done[i]])
    PROVE  \E c \in 0 .. Len(done) :
               /\ InsertByScore(done, x, score) = InsertAt(done, c + 1, x)
               /\ \A i \in 1 .. c : ~Greater(score[x], score[done[i]])
               /\ \A i \in c + 1 .. Len(done) : Greater(score[x], score[done[i]])
<1> DEFINE n == Len(done)
           stop == {i \in DOMAIN done : ~Greater(score[x], score[done[i]])}
           out == (1 .. n + 1) \ stop
           c == Min(out) - 1
<1>1. n \in Nat /\ DOMAIN done = 1 .. n /\ stop \subseteq 1 .. n
  OBVIOUS
<1>2. \A i \in 1 .. n : i \in stop <=> ~Greater(score[x], score[done[i]])
  BY <1>1
<1>3. ASSUME NEW i \in stop, NEW j \in 1 .. n, j < i PROVE j \in stop
  <2>1. i \in 1 .. n /\ ~Greater(score[x], score[done[i]])
    BY <1>1, <1>2
  <2>2. ~Greater(score[done[i]], score[done[j]])
    BY <1>3, <2>1
  <2>3. score[x] \in Fractions /\ score[done[i]] \in Fractions /\ score[done[j]] \in Fractions
    BY <2>1
  <2>4. ~Greater(score[x], score[done[j]])
    BY <2>1, <2>2, <2>3, GreaterOrders
  <2> QED BY <1>2, <2>4
<1>d. InsertByScore(done, x, score) = InsertAt(done, Cardinality(stop) + 1, x)
  BY DEF InsertByScore
<1> HIDE DEF stop, n
<1>4. out \in SUBSET Nat /\ out # {} /\ n + 1 \in out
  BY <1>1
<1>5. Min(out) \in out /\ \A m \in out : Min(out) <= m
  <2> HIDE DEF out
  <2> QED BY <1>4, MinIsMember
<1>6. Min(out) \in 1 .. n + 1 /\ Min(out) \notin stop
  BY <1>5
<1>7. c \in 0 .. n /\ c + 1 = Min(out) /\ c \in Nat
  BY <1>1, <1>6
<1>8. stop = 1 .. c
  <2>1. ASSUME NEW i \in 1 .. c PROVE i \in stop
    <3>1. i \in 1 .. n + 1 /\ ~(c + 1 <= i)
      BY <1>1, <1>7
    <3> QED BY <3>1, <1>5, <1>7
  <2>2. ASSUME NEW i \in stop PROVE i \in 1 .. c
    <3> SUFFICES ASSUME ~(i <= c) PROVE FALSE
      BY <1>1, <1>7
    <3>1. i \in 1 .. n /\ i # c + 1
      BY <1>1, <1>6, <1>7
    <3>2. c + 1 \in 1 .. n /\ c + 1 < i
      BY <1>1, <1>7, <3>1
    <3>3. c + 1 \in stop
      BY <1>3, <3>2
    <3> QED BY <1>6, <1>7, <3>3
  <2> QED BY <2>1, <2>2
<1> HIDE DEF c
<1>9. Cardinality(stop) = c
  BY <1>7, <1>8, FS_Interval
<1>10. \A i \in 1 .. c : ~Greater(score[x], score[done[i]])
  BY <1>1, <1>2, <1>8
<1>11. \A i \in c + 1 .. n : Greater(score[x], score[done[i]])
  <2>1. \A i \in c + 1 .. n : i \in 1 .. n /\ i \notin 1 .. c
    BY <1>1, <1>7
  <2> QED BY <1>2, <1>8, <2>1
<1>12. InsertByScore(done, x, score) = InsertAt(done, c + 1, x)
  BY <1>9, <1>d
<1> QED BY <1>7, <1>10, <1>11, <1>12 DEF n

\* The recursion of the sort.
SortLoop(g, seq, score, D) ==
    g = [s \in D |-> IF s = {} THEN << >> ELSE InsertByScore(g[s \ {Max(s)}], seq[Max(s)], score)]

\* SortByScore by that recursion.
LEMMA SortUnfolded ==
    ASSUME NEW seq, NEW score
    PROVE  SortByScore(seq, score)
             = (CHOOSE g : SortLoop(g, seq, score, SUBSET DOMAIN seq))[DOMAIN seq]
BY DEF SortByScore, FoldLeft, MapThenFoldSet, SortLoop

\* The rounds of the sort, one after the other.
LEMMA SortRounds ==
    ASSUME NEW X, NEW seq \in Seq(X), NEW score
    PROVE  \E g : /\ g[{}] = << >> /\ SortByScore(seq, score) = g[1 .. Len(seq)]
                  /\ \A k \in 1 .. Len(seq) :
                         g[1 .. k] = InsertByScore(g[1 .. k - 1], seq[k], score)
<1> DEFINE n == Len(seq)
           V == Seq(X)
           round == [vt \in V \X (1 .. n) |-> InsertByScore(vt[1], seq[vt[2]], score)]
           g == CHOOSE g : SortLoop(g, seq, score, SUBSET (1 .. n))
<1>1. n \in Nat /\ DOMAIN seq = 1 .. n /\ \A k \in 1 .. n : seq[k] \in X
  OBVIOUS
<1>2. ASSUME NEW done \in V, NEW x \in X PROVE InsertByScore(done, x, score) \in V
  <2> DEFINE stop == {i \in DOMAIN done : ~Greater(score[x], score[done[i]])}
             c == Cardinality(stop)
  <2>1. c \in 0 .. Len(done)
    BY StopBound
  <2>2. InsertByScore(done, x, score) = InsertAt(done, c + 1, x)
    BY DEF InsertByScore
  <2> HIDE DEF c
  <2>3. InsertAt(done, c + 1, x) \in Seq(X)
    BY <2>1, InsertAtIs DEF Inserted
  <2> QED BY <2>2, <2>3
<1>3. round \in [V \X (1 .. n) -> V] /\ << >> \in V
  <2>1. \A vt \in V \X (1 .. n) : InsertByScore(vt[1], seq[vt[2]], score) \in V
    <3> HIDE DEF V, n
    <3> QED BY <1>1, <1>2
  <2>2. << >> \in V
    OBVIOUS
  <2> HIDE DEF V, n
  <2> QED BY <2>1, <2>2
<1>4. \A v \in V, t \in 1 .. n : round[<<v, t>>] = InsertByScore(v, seq[t], score)
  <2> HIDE DEF V, n
  <2> QED OBVIOUS
<1>5. SortByScore(seq, score) = g[1 .. n]
  BY <1>1, SortUnfolded
<1> HIDE DEF round, n, V
<1>6. PICK h \in [SUBSET (1 .. n) -> V] : \A s \in SUBSET (1 .. n) :
          h[s] = IF s = {} THEN << >> ELSE round[<<h[s \ {Max(s)}], Max(s)>>]
  <2>1. HasFold(n, V, << >>, round)
    BY <1>1, <1>3, PositionsFold
  <2> QED BY <2>1 DEF HasFold
<1>7. SortLoop(h, seq, score, SUBSET (1 .. n))
  <2>1. ASSUME NEW s \in SUBSET (1 .. n)
        PROVE  h[s] = IF s = {} THEN << >> ELSE InsertByScore(h[s \ {Max(s)}], seq[Max(s)], score)
    <3>1. CASE s = {}
      BY <1>6, <3>1
    <3>2. CASE s # {}
      <4>1. Max(s) \in 1 .. n /\ s \ {Max(s)} \in SUBSET (1 .. n)
        BY <1>1, <3>2, MaxIsMember
      <4>2. h[s \ {Max(s)}] \in V
        BY <4>1
      <4> QED BY <1>4, <1>6, <3>2, <4>1, <4>2
    <3> QED BY <3>1, <3>2
  <2>2. h = [s \in SUBSET (1 .. n) |-> h[s]]
    OBVIOUS
  <2> QED BY <2>1, <2>2 DEF SortLoop
<1>8. SortLoop(g, seq, score, SUBSET (1 .. n))
  BY <1>7
<1> HIDE DEF g
<1>9. g[{}] = << >>
  BY <1>8 DEF SortLoop
<1>10. ASSUME NEW k \in 1 .. n
       PROVE  g[1 .. k] = InsertByScore(g[1 .. k - 1], seq[k], score)
  <2>1. /\ 1 .. k \in SUBSET (1 .. n) /\ 1 .. k # {}
        /\ Max(1 .. k) = k /\ (1 .. k) \ {k} = 1 .. k - 1
    BY <1>1, LastPosition
  <2>2. g[1 .. k] = InsertByScore(g[(1 .. k) \ {Max(1 .. k)}], seq[Max(1 .. k)], score)
    BY <1>8, <2>1 DEF SortLoop
  <2> QED BY <2>1, <2>2
<1> QED BY <1>5, <1>9, <1>10 DEF n

\* done is the stable sort of the first k elements of seq.
Ranked(done, k, seq, score, X) ==
    /\ done \in Seq(X) /\ Len(done) = k
    /\ \A i \in 1 .. k : \E m \in 1 .. k : done[i] = seq[m]
    /\ \A m \in 1 .. k : \E i \in 1 .. k : done[i] = seq[m]
    /\ \A i, j \in 1 .. k : i < j => Precedes(done[i], done[j], score, seq)

\* A round of the sort keeps it stable.
LEMMA RoundRanks ==
    ASSUME NEW X, NEW seq \in Seq(X), NEW score \in [X -> Fractions], NEW k \in 1 .. Len(seq),
           NEW done, Ranked(done, k - 1, seq, score, X)
    PROVE  Ranked(InsertByScore(done, seq[k], score), k, seq, score, X)
<1> DEFINE x == seq[k]
           new == InsertByScore(done, x, score)
<1>1. /\ k \in Nat /\ k >= 1 /\ x \in X /\ done \in Seq(X) /\ Len(done) = k - 1
      /\ Len(seq) \in Nat /\ k <= Len(seq)
  BY DEF Ranked
<1>2. \A i \in 1 .. k - 1 : done[i] \in X /\ score[done[i]] \in Fractions
  BY <1>1
<1>3. ASSUME NEW i \in 1 .. Len(done), NEW j \in 1 .. Len(done), i < j
      PROVE  ~Greater(score[done[j]], score[done[i]])
  <2>1. Precedes(done[i], done[j], score, seq)
    BY <1>1, <1>3 DEF Ranked
  <2>2. score[done[i]] \in Fractions /\ score[done[j]] \in Fractions
    BY <1>1, <1>2
  <2> QED BY <2>1, <2>2, GreaterOrders DEF Precedes
<1> HIDE DEF x
<1>4. PICK c \in 0 .. Len(done) :
          /\ new = InsertAt(done, c + 1, x)
          /\ \A i \in 1 .. c : ~Greater(score[x], score[done[i]])
          /\ \A i \in c + 1 .. Len(done) : Greater(score[x], score[done[i]])
  BY <1>1, <1>3, InsertedByScore
<1>5. /\ new \in Seq(X) /\ Len(new) = Len(done) + 1
      /\ \A i \in 1 .. Len(done) + 1 :
             new[i] = IF i <= c THEN done[i] ELSE IF i = c + 1 THEN x ELSE done[i - 1]
  <2>1. Inserted(new, done, c, x, X)
    BY <1>1, <1>4, InsertAtIs
  <2> QED BY <2>1 DEF Inserted
<1> HIDE DEF new
<1>6. /\ Len(new) = k /\ c \in Nat /\ c + 1 <= k /\ c + 1 \in 1 .. k
      /\ \A i \in 1 .. c : i \in 1 .. k - 1 /\ i \in 1 .. k /\ new[i] = done[i]
      /\ new[c + 1] = x
      /\ \A i \in c + 2 .. k : i - 1 \in c + 1 .. k - 1 /\ i - 1 \in 1 .. k - 1 /\ i \in 1 .. k
                               /\ new[i] = done[i - 1]
      /\ \A i \in 1 .. k : i \in 1 .. c \/ i = c + 1 \/ i \in c + 2 .. k
  BY <1>1, <1>4, <1>5
<1>7. ASSUME NEW i \in 1 .. k PROVE \E m \in 1 .. k : new[i] = seq[m]
  <2>1. CASE i = c + 1
    <3>1. k \in 1 .. k
      BY <1>1
    <3> QED BY <1>6, <2>1, <3>1 DEF x
  <2>2. CASE i # c + 1
    <3>1. PICK l \in 1 .. k - 1 : new[i] = done[l]
      BY <1>6, <2>2
    <3>2. PICK m \in 1 .. k - 1 : done[l] = seq[m]
      BY <3>1 DEF Ranked
    <3>3. m \in 1 .. k
      BY <1>1
    <3> QED BY <3>1, <3>2, <3>3
  <2> QED BY <2>1, <2>2
<1>8. ASSUME NEW m \in 1 .. k PROVE \E i \in 1 .. k : new[i] = seq[m]
  <2>1. CASE m = k
    BY <1>6, <2>1 DEF x
  <2>2. CASE m # k
    <3>1. m \in 1 .. k - 1
      BY <1>1, <2>2
    <3>2. PICK l \in 1 .. k - 1 : done[l] = seq[m]
      BY <3>1 DEF Ranked
    <3>3. CASE l <= c
      <4>1. l \in 1 .. c
        BY <1>6, <3>3
      <4> QED BY <1>6, <3>2, <4>1
    <3>4. CASE ~(l <= c)
      <4>1. l + 1 \in c + 2 .. k /\ (l + 1) - 1 = l
        BY <1>1, <1>6, <3>4
      <4> QED BY <1>6, <3>2, <4>1
    <3> QED BY <3>3, <3>4
  <2> QED BY <2>1, <2>2
<1>9. ASSUME NEW i \in 1 .. k, NEW j \in 1 .. k, i < j
      PROVE  Precedes(new[i], new[j], score, seq)
  <2>1. CASE j = c + 1
    <3>1. i \in 1 .. c
      BY <1>6, <1>9, <2>1
    <3>2. new[i] = done[i] /\ i \in 1 .. k - 1
      BY <1>6, <3>1
    <3>3. PICK m \in 1 .. k - 1 : done[i] = seq[m]
      BY <3>2 DEF Ranked
    <3>4. m \in 1 .. Len(seq) /\ k \in 1 .. Len(seq) /\ m < k
      BY <1>1
    <3>5. Earlier(done[i], x, seq)
      BY <3>3, <3>4 DEF Earlier, x
    <3>6. ~Greater(score[x], score[done[i]])
      BY <1>4, <3>1
    <3> QED BY <1>6, <2>1, <3>2, <3>5, <3>6 DEF Precedes
  <2>2. CASE i = c + 1
    <3>1. j \in c + 2 .. k
      BY <1>6, <1>9, <2>2
    <3>2. new[j] = done[j - 1] /\ j - 1 \in c + 1 .. Len(done)
      BY <1>1, <1>6, <3>1
    <3>3. Greater(score[x], score[done[j - 1]])
      BY <1>4, <3>2
    <3> QED BY <1>6, <2>2, <3>2, <3>3 DEF Precedes
  <2>3. CASE i # c + 1 /\ j # c + 1
    <3>1. PICK l \in 1 .. k - 1 : new[i] = done[l] /\ (i = l \/ (i = l + 1 /\ l >= c + 1))
                                  /\ (i = l => i <= c)
      <4>1. CASE i \in 1 .. c
        BY <1>6, <4>1
      <4>2. CASE i \in c + 2 .. k
        <5>1. i - 1 \in 1 .. k - 1 /\ new[i] = done[i - 1] /\ i = (i - 1) + 1 /\ i - 1 >= c + 1
              /\ i # i - 1
          BY <1>6, <4>2
        <5> QED BY <5>1
      <4> QED BY <1>6, <2>3, <4>1, <4>2
    <3>2. PICK h \in 1 .. k - 1 : new[j] = done[h] /\ (j = h \/ (j = h + 1 /\ h >= c + 1))
                                  /\ (j = h => j <= c)
      <4>1. CASE j \in 1 .. c
        BY <1>6, <4>1
      <4>2. CASE j \in c + 2 .. k
        <5>1. j - 1 \in 1 .. k - 1 /\ new[j] = done[j - 1] /\ j = (j - 1) + 1 /\ j - 1 >= c + 1
              /\ j # j - 1
          BY <1>6, <4>2
        <5> QED BY <5>1
      <4> QED BY <1>6, <2>3, <4>1, <4>2
    <3>3. l < h
      BY <1>1, <1>6, <1>9, <3>1, <3>2
    <3>4. Precedes(done[l], done[h], score, seq)
      BY <3>3 DEF Ranked
    <3> QED BY <3>1, <3>2, <3>4
  <2> QED BY <2>1, <2>2, <2>3
<1> QED BY <1>5, <1>6, <1>7, <1>8, <1>9 DEF Ranked, new, x

\* The sort is stable.
LEMMA SortRanks ==
    ASSUME NEW X, NEW seq \in Seq(X), NEW score \in [X -> Fractions]
    PROVE  Ranked(SortByScore(seq, score), Len(seq), seq, score, X)
<1> DEFINE n == Len(seq)
<1>1. n \in Nat
  OBVIOUS
<1>2. PICK g : /\ g[{}] = << >> /\ SortByScore(seq, score) = g[1 .. n]
               /\ \A k \in 1 .. n : g[1 .. k] = InsertByScore(g[1 .. k - 1], seq[k], score)
  BY SortRounds
<1> DEFINE Bad == {k \in 0 .. n : ~Ranked(g[1 .. k], k, seq, score, X)}
<1>3. Ranked(<< >>, 0, seq, score, X)
  BY DEF Ranked
<1> HIDE DEF n
<1>4. Bad = {}
  <2> SUFFICES ASSUME Bad # {} PROVE FALSE
    OBVIOUS
  <2>1. Bad \in SUBSET Nat
    BY <1>1
  <2>2. PICK k \in Bad : \A m \in Bad : k <= m
    <3> HIDE DEF Bad
    <3> QED BY <2>1, MinIsMember
  <2>3. k \in 0 .. n /\ ~Ranked(g[1 .. k], k, seq, score, X)
    OBVIOUS
  <2>4. CASE k = 0
    <3>1. 1 .. k = {}
      BY <2>4
    <3> QED BY <1>2, <1>3, <2>3, <2>4, <3>1
  <2>5. CASE k # 0
    <3>1. k \in 1 .. n /\ k - 1 \in 0 .. n /\ ~(k <= k - 1)
      BY <1>1, <2>3, <2>5
    <3>2. Ranked(g[1 .. k - 1], k - 1, seq, score, X)
      <4>1. k - 1 \notin Bad
        BY <2>2, <3>1
      <4> QED BY <3>1, <4>1
    <3>3. Ranked(InsertByScore(g[1 .. k - 1], seq[k], score), k, seq, score, X)
      BY <3>1, <3>2, RoundRanks DEF n
    <3> QED BY <1>2, <2>3, <3>1, <3>3
  <2> QED BY <2>4, <2>5
<1>5. n \in 0 .. n
  BY <1>1
<1> QED BY <1>2, <1>4, <1>5 DEF n

-----------------------------------------------------------------------------
(* The filter of boostCachedProviders. *)

\* One round of it, and its recursion.
OnlyRound(done, p, S) == IF p \in S THEN Append(done, p) ELSE done

OnlyLoop(g, seq, S, D) ==
    g = [s \in D |-> IF s = {} THEN << >> ELSE OnlyRound(g[s \ {Max(s)}], seq[Max(s)], S)]

\* Only by that recursion.
LEMMA OnlyUnfolded ==
    ASSUME NEW seq, NEW S
    PROVE  Only(seq, S) = (CHOOSE g : OnlyLoop(g, seq, S, SUBSET DOMAIN seq))[DOMAIN seq]
BY DEF Only, FoldLeft, MapThenFoldSet, OnlyLoop, OnlyRound

\* The rounds of the filter.
LEMMA OnlyRounds ==
    ASSUME NEW X, NEW seq \in Seq(X), NEW S
    PROVE  \E g : /\ g[{}] = << >> /\ Only(seq, S) = g[1 .. Len(seq)]
                  /\ \A k \in 1 .. Len(seq) : g[1 .. k] = OnlyRound(g[1 .. k - 1], seq[k], S)
<1> DEFINE n == Len(seq)
           V == Seq(X)
           round == [vt \in V \X (1 .. n) |-> OnlyRound(vt[1], seq[vt[2]], S)]
           g == CHOOSE g : OnlyLoop(g, seq, S, SUBSET (1 .. n))
<1>1. n \in Nat /\ DOMAIN seq = 1 .. n /\ \A k \in 1 .. n : seq[k] \in X
  OBVIOUS
<1>2. ASSUME NEW done \in V, NEW x \in X PROVE OnlyRound(done, x, S) \in V
  BY DEF OnlyRound
<1>3. round \in [V \X (1 .. n) -> V] /\ << >> \in V
  <2>1. \A vt \in V \X (1 .. n) : OnlyRound(vt[1], seq[vt[2]], S) \in V
    <3> HIDE DEF V, n
    <3> QED BY <1>1, <1>2
  <2>2. << >> \in V
    OBVIOUS
  <2> HIDE DEF V, n
  <2> QED BY <2>1, <2>2
<1>4. \A v \in V, t \in 1 .. n : round[<<v, t>>] = OnlyRound(v, seq[t], S)
  <2> HIDE DEF V, n
  <2> QED OBVIOUS
<1>5. Only(seq, S) = g[1 .. n]
  BY <1>1, OnlyUnfolded
<1> HIDE DEF round, n, V
<1>6. PICK h \in [SUBSET (1 .. n) -> V] : \A s \in SUBSET (1 .. n) :
          h[s] = IF s = {} THEN << >> ELSE round[<<h[s \ {Max(s)}], Max(s)>>]
  <2>1. HasFold(n, V, << >>, round)
    BY <1>1, <1>3, PositionsFold
  <2> QED BY <2>1 DEF HasFold
<1>7. OnlyLoop(h, seq, S, SUBSET (1 .. n))
  <2>1. ASSUME NEW s \in SUBSET (1 .. n)
        PROVE  h[s] = IF s = {} THEN << >> ELSE OnlyRound(h[s \ {Max(s)}], seq[Max(s)], S)
    <3>1. CASE s = {}
      BY <1>6, <3>1
    <3>2. CASE s # {}
      <4>1. Max(s) \in 1 .. n /\ s \ {Max(s)} \in SUBSET (1 .. n)
        BY <1>1, <3>2, MaxIsMember
      <4>2. h[s \ {Max(s)}] \in V
        BY <4>1
      <4> QED BY <1>4, <1>6, <3>2, <4>1, <4>2
    <3> QED BY <3>1, <3>2
  <2>2. h = [s \in SUBSET (1 .. n) |-> h[s]]
    OBVIOUS
  <2> QED BY <2>1, <2>2 DEF OnlyLoop
<1>8. OnlyLoop(g, seq, S, SUBSET (1 .. n))
  BY <1>7
<1> HIDE DEF g
<1>9. g[{}] = << >>
  BY <1>8 DEF OnlyLoop
<1>10. ASSUME NEW k \in 1 .. n PROVE g[1 .. k] = OnlyRound(g[1 .. k - 1], seq[k], S)
  <2>1. /\ 1 .. k \in SUBSET (1 .. n) /\ 1 .. k # {}
        /\ Max(1 .. k) = k /\ (1 .. k) \ {k} = 1 .. k - 1
    BY <1>1, LastPosition
  <2>2. g[1 .. k] = OnlyRound(g[(1 .. k) \ {Max(1 .. k)}], seq[Max(1 .. k)], S)
    BY <1>8, <2>1 DEF OnlyLoop
  <2> QED BY <2>1, <2>2
<1> QED BY <1>5, <1>9, <1>10 DEF n

\* done has, of the first k elements of seq, those in S, in their order.
Filtered(done, k, seq, S, X) ==
    /\ done \in Seq(X)
    /\ \A i \in 1 .. Len(done) : done[i] \in S /\ \E m \in 1 .. k : done[i] = seq[m]
    /\ \A m \in 1 .. k : seq[m] \in S => \E i \in 1 .. Len(done) : done[i] = seq[m]
    /\ \A i, j \in 1 .. Len(done) : i < j => Earlier(done[i], done[j], seq)

\* An element at the end.
LEMMA Appended ==
    ASSUME NEW X, NEW done \in Seq(X), NEW x \in X, NEW new, new = Append(done, x)
    PROVE  /\ new \in Seq(X) /\ Len(new) = Len(done) + 1 /\ Len(done) \in Nat
           /\ \A i \in 1 .. Len(done) : new[i] = done[i] /\ i \in 1 .. Len(new)
           /\ new[Len(new)] = x /\ Len(new) \in 1 .. Len(new)
           /\ \A i \in 1 .. Len(new) : i \in 1 .. Len(done) \/ i = Len(new)
OBVIOUS

\* What holds of the first k - 1 elements holds of the first k.
LEMMA RoundFilters ==
    ASSUME NEW X, NEW seq \in Seq(X), NEW S, NEW k \in 1 .. Len(seq), NEW done,
           Filtered(done, k - 1, seq, S, X)
    PROVE  Filtered(OnlyRound(done, seq[k], S), k, seq, S, X)
<1> DEFINE x == seq[k]
<1>1. /\ k \in Nat /\ k \in 1 .. k /\ x \in X /\ done \in Seq(X)
      /\ \A m \in 1 .. k - 1 : m \in 1 .. k /\ m \in 1 .. Len(seq) /\ m < k
      /\ \A m \in 1 .. k : m \in 1 .. k - 1 \/ m = k
  BY DEF Filtered
<1> HIDE DEF x
<1>2. CASE x \notin S
  <2>1. OnlyRound(done, x, S) = done
    BY <1>2 DEF OnlyRound
  <2> QED BY <1>1, <1>2, <2>1 DEF Filtered, x
<1>3. CASE x \in S
  <2> DEFINE new == OnlyRound(done, x, S)
  <2>1. new = Append(done, x)
    BY <1>3 DEF OnlyRound
  <2> HIDE DEF new
  <2>2. /\ new \in Seq(X) /\ Len(new) = Len(done) + 1 /\ Len(done) \in Nat
        /\ \A i \in 1 .. Len(done) : new[i] = done[i] /\ i \in 1 .. Len(new)
        /\ new[Len(new)] = x /\ Len(new) \in 1 .. Len(new)
        /\ \A i \in 1 .. Len(new) : i \in 1 .. Len(done) \/ i = Len(new)
    BY <1>1, <2>1, Appended
  <2>3. ASSUME NEW i \in 1 .. Len(new)
        PROVE  new[i] \in S /\ \E m \in 1 .. k : new[i] = seq[m]
    <3>1. CASE i = Len(new)
      BY <1>1, <1>3, <2>2, <3>1 DEF x
    <3>2. CASE i \in 1 .. Len(done)
      BY <1>1, <2>2, <3>2 DEF Filtered
    <3> QED BY <2>2, <3>1, <3>2
  <2>4. ASSUME NEW m \in 1 .. k, seq[m] \in S PROVE \E i \in 1 .. Len(new) : new[i] = seq[m]
    <3>1. CASE m = k
      BY <2>2, <3>1 DEF x
    <3>2. CASE m \in 1 .. k - 1
      <4>1. PICK i \in 1 .. Len(done) : done[i] = seq[m]
        BY <2>4, <3>2 DEF Filtered
      <4> QED BY <2>2, <4>1
    <3> QED BY <1>1, <3>1, <3>2
  <2>5. ASSUME NEW i \in 1 .. Len(new), NEW j \in 1 .. Len(new), i < j
        PROVE  Earlier(new[i], new[j], seq)
    <3>1. i \in 1 .. Len(done)
      BY <2>2, <2>5
    <3>2. CASE j = Len(new)
      <4>1. PICK m \in 1 .. k - 1 : done[i] = seq[m]
        BY <3>1 DEF Filtered
      <4>2. m \in 1 .. Len(seq) /\ m < k /\ seq[k] = x
        BY <1>1 DEF x
      <4> QED BY <2>2, <3>1, <3>2, <4>1, <4>2 DEF Earlier
    <3>3. CASE j \in 1 .. Len(done)
      BY <2>2, <2>5, <3>1, <3>3 DEF Filtered
    <3> QED BY <2>2, <3>2, <3>3
  <2>6. Filtered(new, k, seq, S, X)
    BY <2>2, <2>3, <2>4, <2>5 DEF Filtered
  <2> QED BY <2>6 DEF new, x
<1> QED BY <1>2, <1>3

\* The filter keeps the members of S, in their order.
LEMMA OnlyFilters ==
    ASSUME NEW X, NEW seq \in Seq(X), NEW S
    PROVE  Filtered(Only(seq, S), Len(seq), seq, S, X)
<1> DEFINE n == Len(seq)
<1>1. n \in Nat
  OBVIOUS
<1>2. PICK g : /\ g[{}] = << >> /\ Only(seq, S) = g[1 .. n]
               /\ \A k \in 1 .. n : g[1 .. k] = OnlyRound(g[1 .. k - 1], seq[k], S)
  BY OnlyRounds
<1> DEFINE Bad == {k \in 0 .. n : ~Filtered(g[1 .. k], k, seq, S, X)}
<1>3. Filtered(<< >>, 0, seq, S, X)
  BY DEF Filtered
<1> HIDE DEF n
<1>4. Bad = {}
  <2> SUFFICES ASSUME Bad # {} PROVE FALSE
    OBVIOUS
  <2>1. Bad \in SUBSET Nat
    BY <1>1
  <2>2. PICK k \in Bad : \A m \in Bad : k <= m
    <3> HIDE DEF Bad
    <3> QED BY <2>1, MinIsMember
  <2>3. k \in 0 .. n /\ ~Filtered(g[1 .. k], k, seq, S, X)
    OBVIOUS
  <2>4. CASE k = 0
    <3>1. 1 .. k = {}
      BY <2>4
    <3> QED BY <1>2, <1>3, <2>3, <2>4, <3>1
  <2>5. CASE k # 0
    <3>1. k \in 1 .. n /\ k - 1 \in 0 .. n /\ ~(k <= k - 1)
      BY <1>1, <2>3, <2>5
    <3>2. Filtered(g[1 .. k - 1], k - 1, seq, S, X)
      <4>1. k - 1 \notin Bad
        BY <2>2, <3>1
      <4> QED BY <3>1, <4>1
    <3>3. Filtered(OnlyRound(g[1 .. k - 1], seq[k], S), k, seq, S, X)
      BY <3>1, <3>2, RoundFilters DEF n
    <3> QED BY <1>2, <2>3, <3>1, <3>3
  <2> QED BY <2>4, <2>5
<1>5. n \in 0 .. n
  BY <1>1
<1> QED BY <1>2, <1>4, <1>5 DEF n

-----------------------------------------------------------------------------
(* The selection of DisjointPaths. *)

\* Two paths over one relay.
Shares(p, q) == Relay(p) # Nil /\ Relay(p) = Relay(q)

\* One round of the loop, and its recursion.
TakeRound(taken, p, n) ==
    IF Len(taken) >= n \/ \E q \in ToSet(taken) : Shares(p, q) THEN taken ELSE Append(taken, p)

TakeLoop(g, seq, n, D) ==
    g = [s \in D |-> IF s = {} THEN << >> ELSE TakeRound(g[s \ {Max(s)}], seq[Max(s)], n)]

\* TakeDisjoint by that recursion.
LEMMA TakeUnfolded ==
    ASSUME NEW seq, NEW n
    PROVE  TakeDisjoint(seq, n) = (CHOOSE g : TakeLoop(g, seq, n, SUBSET DOMAIN seq))[DOMAIN seq]
BY DEF TakeDisjoint, FoldLeft, MapThenFoldSet, TakeLoop, TakeRound, Shares

\* The rounds of the selection.
LEMMA TakeRounds ==
    ASSUME NEW X, NEW seq \in Seq(X), NEW n
    PROVE  \E g : /\ g[{}] = << >> /\ TakeDisjoint(seq, n) = g[1 .. Len(seq)]
                  /\ \A k \in 1 .. Len(seq) : g[1 .. k] = TakeRound(g[1 .. k - 1], seq[k], n)
<1> DEFINE len == Len(seq)
           V == Seq(X)
           round == [vt \in V \X (1 .. len) |-> TakeRound(vt[1], seq[vt[2]], n)]
           g == CHOOSE g : TakeLoop(g, seq, n, SUBSET (1 .. len))
<1>1. len \in Nat /\ DOMAIN seq = 1 .. len /\ \A k \in 1 .. len : seq[k] \in X
  OBVIOUS
<1>2. ASSUME NEW done \in V, NEW x \in X PROVE TakeRound(done, x, n) \in V
  BY DEF TakeRound
<1>3. round \in [V \X (1 .. len) -> V] /\ << >> \in V
  <2>1. \A vt \in V \X (1 .. len) : TakeRound(vt[1], seq[vt[2]], n) \in V
    <3> HIDE DEF V, len
    <3> QED BY <1>1, <1>2
  <2>2. << >> \in V
    OBVIOUS
  <2> HIDE DEF V, len
  <2> QED BY <2>1, <2>2
<1>4. \A v \in V, t \in 1 .. len : round[<<v, t>>] = TakeRound(v, seq[t], n)
  <2> HIDE DEF V, len
  <2> QED OBVIOUS
<1>5. TakeDisjoint(seq, n) = g[1 .. len]
  BY <1>1, TakeUnfolded
<1> HIDE DEF round, len, V
<1>6. PICK h \in [SUBSET (1 .. len) -> V] : \A s \in SUBSET (1 .. len) :
          h[s] = IF s = {} THEN << >> ELSE round[<<h[s \ {Max(s)}], Max(s)>>]
  <2>1. HasFold(len, V, << >>, round)
    BY <1>1, <1>3, PositionsFold
  <2> QED BY <2>1 DEF HasFold
<1>7. TakeLoop(h, seq, n, SUBSET (1 .. len))
  <2>1. ASSUME NEW s \in SUBSET (1 .. len)
        PROVE  h[s] = IF s = {} THEN << >> ELSE TakeRound(h[s \ {Max(s)}], seq[Max(s)], n)
    <3>1. CASE s = {}
      BY <1>6, <3>1
    <3>2. CASE s # {}
      <4>1. Max(s) \in 1 .. len /\ s \ {Max(s)} \in SUBSET (1 .. len)
        BY <1>1, <3>2, MaxIsMember
      <4>2. h[s \ {Max(s)}] \in V
        BY <4>1
      <4> QED BY <1>4, <1>6, <3>2, <4>1, <4>2
    <3> QED BY <3>1, <3>2
  <2>2. h = [s \in SUBSET (1 .. len) |-> h[s]]
    OBVIOUS
  <2> QED BY <2>1, <2>2 DEF TakeLoop
<1>8. TakeLoop(g, seq, n, SUBSET (1 .. len))
  BY <1>7
<1> HIDE DEF g
<1>9. g[{}] = << >>
  BY <1>8 DEF TakeLoop
<1>10. ASSUME NEW k \in 1 .. len PROVE g[1 .. k] = TakeRound(g[1 .. k - 1], seq[k], n)
  <2>1. /\ 1 .. k \in SUBSET (1 .. len) /\ 1 .. k # {}
        /\ Max(1 .. k) = k /\ (1 .. k) \ {k} = 1 .. k - 1
    BY <1>1, LastPosition
  <2>2. g[1 .. k] = TakeRound(g[(1 .. k) \ {Max(1 .. k)}], seq[Max(1 .. k)], n)
    BY <1>8, <2>1 DEF TakeLoop
  <2> QED BY <2>1, <2>2
<1> QED BY <1>5, <1>9, <1>10 DEF len

\* taken is selected from the first k elements of seq: one is left out for an
\* earlier one that uses its relay, or when there are n earlier ones.
Selected(taken, k, seq, n, X) ==
    /\ taken \in Seq(X) /\ Len(taken) <= n
    /\ \A i \in 1 .. Len(taken) : \E m \in 1 .. k : taken[i] = seq[m]
    /\ \A i, j \in 1 .. Len(taken) : i < j =>
           Earlier(taken[i], taken[j], seq) /\ ~Shares(taken[i], taken[j])
    /\ \A m \in 1 .. k :
           \/ \E i \in 1 .. Len(taken) : taken[i] = seq[m]
           \/ \E i \in 1 .. Len(taken) : Earlier(taken[i], seq[m], seq) /\ Shares(seq[m], taken[i])
           \/ Len(taken) = n /\ \A i \in 1 .. Len(taken) : Earlier(taken[i], seq[m], seq)

\* A round of the selection.
LEMMA RoundSelects ==
    ASSUME NEW X, NEW seq \in Seq(X), NEW n \in Nat, NEW k \in 1 .. Len(seq), NEW taken,
           Selected(taken, k - 1, seq, n, X)
    PROVE  Selected(TakeRound(taken, seq[k], n), k, seq, n, X)
<1> DEFINE x == seq[k]
<1>1. /\ k \in Nat /\ k \in 1 .. k /\ x \in X /\ taken \in Seq(X) /\ Len(taken) \in Nat
      /\ \A m \in 1 .. k - 1 : m \in 1 .. k /\ m \in 1 .. Len(seq) /\ m < k
      /\ \A m \in 1 .. k : m \in 1 .. k - 1 \/ m = k
  BY DEF Selected
<1>e. ASSUME NEW i \in 1 .. Len(taken) PROVE Earlier(taken[i], x, seq)
  <2>1. PICK m \in 1 .. k - 1 : taken[i] = seq[m]
    BY DEF Selected
  <2>2. m \in 1 .. Len(seq) /\ m < k /\ k \in 1 .. Len(seq)
    BY <1>1
  <2> QED BY <2>1, <2>2 DEF Earlier
<1>x. x = seq[k]
  OBVIOUS
<1> HIDE DEF x
<1>2. CASE Len(taken) >= n \/ \E q \in ToSet(taken) : Shares(x, q)
  <2>1. TakeRound(taken, x, n) = taken
    BY <1>2 DEF TakeRound
  <2>2. \/ \E i \in 1 .. Len(taken) : Earlier(taken[i], x, seq) /\ Shares(x, taken[i])
        \/ Len(taken) = n /\ \A i \in 1 .. Len(taken) : Earlier(taken[i], x, seq)
    <3>1. CASE Len(taken) >= n
      <4>1. Len(taken) = n
        BY <1>1, <3>1 DEF Selected
      <4> QED BY <1>e, <4>1
    <3>2. CASE \E q \in ToSet(taken) : Shares(x, q)
      <4>1. PICK i \in 1 .. Len(taken) : Shares(x, taken[i])
        BY <1>1, <3>2 DEF ToSet
      <4> QED BY <1>e, <4>1
    <3> QED BY <1>2, <3>1, <3>2
  <2>3. Selected(taken, k, seq, n, X)
    <3>1. \A i \in 1 .. Len(taken) : \E m \in 1 .. k : taken[i] = seq[m]
      BY <1>1 DEF Selected
    <3>2. ASSUME NEW m \in 1 .. k
          PROVE  \/ \E i \in 1 .. Len(taken) : taken[i] = seq[m]
                 \/ \E i \in 1 .. Len(taken) :
                        Earlier(taken[i], seq[m], seq) /\ Shares(seq[m], taken[i])
                 \/ Len(taken) = n /\ \A i \in 1 .. Len(taken) : Earlier(taken[i], seq[m], seq)
      <4>1. CASE m = k
        BY <1>x, <2>2, <4>1
      <4>2. CASE m \in 1 .. k - 1
        BY <4>2 DEF Selected
      <4> QED BY <1>1, <4>1, <4>2
    <3> QED BY <3>1, <3>2 DEF Selected
  <2> QED BY <1>x, <2>1, <2>3
<1>3. CASE ~(Len(taken) >= n) /\ ~ \E q \in ToSet(taken) : Shares(x, q)
  <2> DEFINE new == TakeRound(taken, x, n)
  <2>1. new = Append(taken, x)
    BY <1>3 DEF TakeRound
  <2> HIDE DEF new
  <2>2. /\ new \in Seq(X) /\ Len(new) = Len(taken) + 1 /\ Len(taken) \in Nat
        /\ \A i \in 1 .. Len(taken) : new[i] = taken[i] /\ i \in 1 .. Len(new)
        /\ new[Len(new)] = x /\ Len(new) \in 1 .. Len(new)
        /\ \A i \in 1 .. Len(new) : i \in 1 .. Len(taken) \/ i = Len(new)
    BY <1>1, <2>1, Appended
  <2>3. Len(new) <= n
    BY <1>1, <1>3, <2>2
  <2>4. ASSUME NEW i \in 1 .. Len(new) PROVE \E m \in 1 .. k : new[i] = seq[m]
    <3>1. CASE i = Len(new)
      BY <1>1, <1>x, <2>2, <3>1
    <3>2. CASE i \in 1 .. Len(taken)
      BY <1>1, <2>2, <3>2 DEF Selected
    <3> QED BY <2>2, <3>1, <3>2
  <2>5. ASSUME NEW i \in 1 .. Len(new), NEW j \in 1 .. Len(new), i < j
        PROVE  Earlier(new[i], new[j], seq) /\ ~Shares(new[i], new[j])
    <3>1. i \in 1 .. Len(taken)
      BY <2>2, <2>5
    <3>2. CASE j = Len(new)
      <4>1. taken[i] \in ToSet(taken)
        BY <1>1, <3>1 DEF ToSet
      <4>2. ~Shares(x, taken[i])
        BY <1>3, <4>1
      <4>3. ~Shares(taken[i], x)
        BY <4>2 DEF Shares
      <4> QED BY <1>e, <2>2, <3>1, <3>2, <4>3
    <3>3. CASE j \in 1 .. Len(taken)
      BY <2>2, <2>5, <3>1, <3>3 DEF Selected
    <3> QED BY <2>2, <3>2, <3>3
  <2>6. ASSUME NEW m \in 1 .. k
        PROVE  \/ \E i \in 1 .. Len(new) : new[i] = seq[m]
               \/ \E i \in 1 .. Len(new) : Earlier(new[i], seq[m], seq) /\ Shares(seq[m], new[i])
    <3>1. CASE m = k
      BY <1>x, <2>2, <3>1
    <3>2. CASE m \in 1 .. k - 1
      <4>1. Len(taken) # n
        BY <1>1, <1>3
      <4>2. \/ \E i \in 1 .. Len(taken) : taken[i] = seq[m]
            \/ \E i \in 1 .. Len(taken) :
                   Earlier(taken[i], seq[m], seq) /\ Shares(seq[m], taken[i])
        BY <3>2, <4>1 DEF Selected
      <4> QED BY <2>2, <4>2
    <3> QED BY <1>1, <3>1, <3>2
  <2>7. Selected(new, k, seq, n, X)
    BY <2>2, <2>3, <2>4, <2>5, <2>6 DEF Selected
  <2> QED BY <1>x, <2>7 DEF new
<1> QED BY <1>2, <1>3

\* What the loop has selected at its end.
LEMMA TakeSelects ==
    ASSUME NEW X, NEW seq \in Seq(X), NEW n \in Nat
    PROVE  Selected(TakeDisjoint(seq, n), Len(seq), seq, n, X)
<1> DEFINE len == Len(seq)
<1>1. len \in Nat
  OBVIOUS
<1>2. PICK g : /\ g[{}] = << >> /\ TakeDisjoint(seq, n) = g[1 .. len]
               /\ \A k \in 1 .. len : g[1 .. k] = TakeRound(g[1 .. k - 1], seq[k], n)
  BY TakeRounds
<1> DEFINE Bad == {k \in 0 .. len : ~Selected(g[1 .. k], k, seq, n, X)}
<1>3. Selected(<< >>, 0, seq, n, X)
  BY DEF Selected
<1> HIDE DEF len
<1>4. Bad = {}
  <2> SUFFICES ASSUME Bad # {} PROVE FALSE
    OBVIOUS
  <2>1. Bad \in SUBSET Nat
    BY <1>1
  <2>2. PICK k \in Bad : \A m \in Bad : k <= m
    <3> HIDE DEF Bad
    <3> QED BY <2>1, MinIsMember
  <2>3. k \in 0 .. len /\ ~Selected(g[1 .. k], k, seq, n, X)
    OBVIOUS
  <2>4. CASE k = 0
    <3>1. 1 .. k = {}
      BY <2>4
    <3> QED BY <1>2, <1>3, <2>3, <2>4, <3>1
  <2>5. CASE k # 0
    <3>1. k \in 1 .. len /\ k - 1 \in 0 .. len /\ ~(k <= k - 1)
      BY <1>1, <2>3, <2>5
    <3>2. Selected(g[1 .. k - 1], k - 1, seq, n, X)
      <4>1. k - 1 \notin Bad
        BY <2>2, <3>1
      <4> QED BY <3>1, <4>1
    <3>3. Selected(TakeRound(g[1 .. k - 1], seq[k], n), k, seq, n, X)
      BY <3>1, <3>2, RoundSelects DEF len
    <3> QED BY <1>2, <2>3, <3>1, <3>3
  <2> QED BY <2>4, <2>5
<1>5. len \in 0 .. len
  BY <1>1
<1> QED BY <1>2, <1>4, <1>5 DEF len

-----------------------------------------------------------------------------
(* The average and the deviation of the samples. *)

\* g is the recursion, as far as its values are in V.
Solves(g, T, V, base, round, pick) ==
    /\ round \in [V \X T -> V] /\ base \in V /\ \A s \in SUBSET T : s # {} => pick[s] \in s
    /\ g[{}] = base
    /\ \A s \in SUBSET T : s # {} /\ g[s \ {pick[s]}] \in V =>
           g[s] = round[<<g[s \ {pick[s]}], pick[s]>>]

\* Then all of them are.
LEMMA FoldTyped ==
    ASSUME NEW T, IsFiniteSet(T), NEW V, NEW base, NEW round, NEW pick, NEW g,
           Solves(g, T, V, base, round, pick)
    PROVE  \A s \in SUBSET T : g[s] \in V
<1> DEFINE Bad == {n \in Nat : \E s \in SUBSET T : Cardinality(s) = n /\ g[s] \notin V}
<1>0. ASSUME NEW s \in SUBSET T
      PROVE  /\ Cardinality(s) \in Nat
             /\ \A x \in s : Cardinality(s \ {x}) = Cardinality(s) - 1 /\ s \ {x} \in SUBSET T
  BY FS_Subset, FS_CardinalityType, FS_RemoveElement
<1> SUFFICES ASSUME NEW s0 \in SUBSET T, g[s0] \notin V PROVE FALSE
  OBVIOUS
<1>1. Bad \in SUBSET Nat /\ Bad # {}
  BY <1>0
<1>2. PICK n \in Bad : \A m \in Bad : n <= m
  <2> HIDE DEF Bad
  <2> QED BY <1>1, MinIsMember
<1>3. PICK s \in SUBSET T : Cardinality(s) = n /\ g[s] \notin V
  OBVIOUS
<1>4. s # {}
  BY <1>3 DEF Solves
<1> DEFINE r == s \ {pick[s]}
<1>5. pick[s] \in s /\ pick[s] \in T
  BY <1>4 DEF Solves
<1>6. r \in SUBSET T /\ Cardinality(r) = n - 1 /\ n \in Nat /\ n - 1 \in Nat /\ ~(n <= n - 1)
  <2>1. r \in SUBSET T /\ Cardinality(r) = Cardinality(s) - 1
    BY <1>0, <1>5
  <2>2. Cardinality(r) \in Nat /\ Cardinality(s) \in Nat
    BY <1>0, <2>1
  <2> HIDE DEF r
  <2> QED BY <1>3, <2>1, <2>2
<1>7. n - 1 \notin Bad
  BY <1>2, <1>6
<1>8. g[r] \in V
  BY <1>6, <1>7
<1>9. g[s] = round[<<g[r], pick[s]>>]
  BY <1>4, <1>8 DEF Solves
<1>10. <<g[r], pick[s]>> \in V \X T
  BY <1>5, <1>8
<1> HIDE DEF r
<1> QED BY <1>3, <1>9, <1>10 DEF Solves

\* The element that the library's folds take out of a set first.
Chosen(s) == CHOOSE x \in s : TRUE

\* The sum of the samples, and that of the squares of their distances from avg.
SumLoop(g, rtts, D) ==
    g = [s \in D |-> IF s = {} THEN 0 ELSE rtts[Chosen(s)] + g[s \ {Chosen(s)}]]
Square(x, avg) == (x - avg) * (x - avg)
SquareLoop(g, rtts, avg, D) ==
    g = [s \in D |-> IF s = {} THEN 0 ELSE g[s \ {Chosen(s)}] + Square(rtts[Chosen(s)], avg)]

SumOf(rtts) == (CHOOSE g : SumLoop(g, rtts, SUBSET DOMAIN rtts))[DOMAIN rtts]
SquaresOf(rtts, avg) == (CHOOSE g : SquareLoop(g, rtts, avg, SUBSET DOMAIN rtts))[DOMAIN rtts]

\* The two statistics by these sums.
LEMMA StatisticsUnfolded ==
    ASSUME NEW m
    PROVE  /\ AvgRTT(m) = IF m.rttSamples = << >> THEN 0
                          ELSE SumOf(m.rttSamples) \div Len(m.rttSamples)
           /\ Jitter(m) = LET n == Len(m.rttSamples)
                              v == SquaresOf(m.rttSamples, AvgRTT(m)) \div n
                          IN  IF n < 2 THEN 0
                              ELSE CHOOSE j \in 0 .. v : j * j <= v /\ v < (j + 1) * (j + 1)
<1>1. FoldFunction(+, 0, m.rttSamples) = SumOf(m.rttSamples)
  BY DEF FoldFunction, FoldFunctionOnSet, MapThenFoldSet, SumOf, SumLoop, Chosen
<1>3. AvgRTT(m) = IF m.rttSamples = << >> THEN 0 ELSE SumOf(m.rttSamples) \div Len(m.rttSamples)
  BY <1>1 DEF AvgRTT
<1>4. Jitter(m) = LET n == Len(m.rttSamples)
                      v == SquaresOf(m.rttSamples, AvgRTT(m)) \div n
                  IN  IF n < 2 THEN 0
                      ELSE CHOOSE j \in 0 .. v : j * j <= v /\ v < (j + 1) * (j + 1)
  BY DEF Jitter, FoldFunction, FoldFunctionOnSet, MapThenFoldSet, SquaresOf, SquareLoop, Square,
         Chosen
<1> QED BY <1>3, <1>4

\* There is a fold over the elements of T, in any order.
HasAnyFold(T, V, base, round) ==
    \E g \in [SUBSET T -> V] : \A s \in SUBSET T :
        g[s] = IF s = {} THEN base ELSE round[<<g[s \ {Chosen(s)}], Chosen(s)>>]

\* The recursion of a fold over a function has a solution.
LEMMA AnyFold ==
    ASSUME NEW T, IsFiniteSet(T), NEW V, NEW base \in V, NEW round \in [V \X T -> V]
    PROVE  HasAnyFold(T, V, base, round)
<1> DEFINE pick == [s \in SUBSET T |-> Chosen(s)]
<1>1. \A s \in SUBSET T : s # {} => pick[s] \in s
  BY DEF Chosen
<1>2. \A s \in SUBSET T : pick[s] = Chosen(s)
  OBVIOUS
<1> HIDE DEF pick
<1>3. PICK g \in [SUBSET T -> V] : Recurs(g, SUBSET T, base, round, pick)
  BY <1>1, FoldExists
<1>4. \A s \in SUBSET T : g[s] = IF s = {} THEN base ELSE round[<<g[s \ {Chosen(s)}], Chosen(s)>>]
  BY <1>2, <1>3 DEF Recurs
<1> QED BY <1>4 DEF HasAnyFold

\* A sum of positive numbers is at least their number.
LEMMA SumIsNumber ==
    ASSUME NEW rtts \in Seq(Nat)
    PROVE  /\ SumOf(rtts) \in Nat
           /\ (\A i \in 1 .. Len(rtts) : rtts[i] >= 1) => SumOf(rtts) >= Len(rtts)
<1> DEFINE n == Len(rtts)
           T == 1 .. n
           round == [vt \in Nat \X T |-> rtts[vt[2]] + vt[1]]
           pick == [s \in SUBSET T |-> Chosen(s)]
           g == CHOOSE g : SumLoop(g, rtts, SUBSET T)
<1>1. n \in Nat /\ DOMAIN rtts = T /\ \A i \in T : rtts[i] \in Nat
  OBVIOUS
<1>2. SumOf(rtts) = g[T]
  BY <1>1 DEF SumOf
<1>3. IsFiniteSet(T) /\ Cardinality(T) = n
  BY SMTT(20), <1>1, FS_Interval
<1> HIDE DEF n, T
<1>4. round \in [Nat \X T -> Nat] /\ \A v \in Nat, t \in T : round[<<v, t>>] = rtts[t] + v
  BY SMTT(20), <1>1
<1>5. \A s \in SUBSET T :
        s # {} => Chosen(s) \in s /\ Chosen(s) \in T /\ s \ {Chosen(s)} \in SUBSET T
  BY DEF Chosen
<1>6. \A s \in SUBSET T : pick[s] = Chosen(s)
  OBVIOUS
<1> HIDE DEF round, pick
<1>7. PICK h \in [SUBSET T -> Nat] : \A s \in SUBSET T :
          h[s] = IF s = {} THEN 0 ELSE round[<<h[s \ {Chosen(s)}], Chosen(s)>>]
  <2>1. HasAnyFold(T, Nat, 0, round)
    BY <1>3, <1>4, AnyFold
  <2> QED BY <2>1 DEF HasAnyFold
<1>8. SumLoop(h, rtts, SUBSET T)
  <2>1. ASSUME NEW s \in SUBSET T
        PROVE  h[s] = IF s = {} THEN 0 ELSE rtts[Chosen(s)] + h[s \ {Chosen(s)}]
    <3>1. CASE s = {}
      BY <1>7, <3>1
    <3>2. CASE s # {}
      <4>1. h[s \ {Chosen(s)}] \in Nat /\ Chosen(s) \in T
        BY <1>5, <3>2
      <4> QED BY <1>4, <1>7, <3>2, <4>1
    <3> QED BY <3>1, <3>2
  <2>2. h = [s \in SUBSET T |-> h[s]]
    OBVIOUS
  <2> QED BY <2>1, <2>2 DEF SumLoop
<1>9. SumLoop(g, rtts, SUBSET T)
  BY <1>8
<1> HIDE DEF g
<1>10. \A s \in SUBSET T : g[s] = IF s = {} THEN 0 ELSE rtts[Chosen(s)] + g[s \ {Chosen(s)}]
  BY <1>9 DEF SumLoop
<1>11. \A s \in SUBSET T : g[s] \in Nat
  <2>1. g[{}] = 0
    BY <1>10
  <2>2. ASSUME NEW s \in SUBSET T, s # {}, g[s \ {pick[s]}] \in Nat
        PROVE  g[s] = round[<<g[s \ {pick[s]}], pick[s]>>]
    BY SMTT(20), <1>4, <1>5, <1>6, <1>10, <2>2
  <2>3. \A s \in SUBSET T : s # {} => pick[s] \in s
    BY <1>5, <1>6
  <2>4. Solves(g, T, Nat, 0, round, pick)
    BY <1>4, <2>1, <2>2, <2>3 DEF Solves
  <2> QED BY <1>3, <2>4, FoldTyped
<1>12. T \in SUBSET T
  OBVIOUS
<1>13. ASSUME \A i \in T : rtts[i] >= 1 PROVE g[T] >= n
  <2> DEFINE Bad == {k \in Nat : \E s \in SUBSET T : Cardinality(s) = k /\ ~(g[s] >= k)}
  <2>0. ASSUME NEW s \in SUBSET T
        PROVE  /\ Cardinality(s) \in Nat /\ (s = {} => Cardinality(s) = 0)
               /\ \A x \in s : Cardinality(s \ {x}) = Cardinality(s) - 1 /\ s \ {x} \in SUBSET T
    BY <1>3, FS_Subset, FS_CardinalityType, FS_RemoveElement, FS_EmptySet
  <2> SUFFICES ASSUME ~(g[T] >= n) PROVE FALSE
    OBVIOUS
  <2>1. Bad \in SUBSET Nat /\ Bad # {}
    BY <1>1, <1>3, <1>12
  <2>2. PICK k \in Bad : \A m \in Bad : k <= m
    <3> HIDE DEF Bad
    <3> QED BY <2>1, MinIsMember
  <2>3. PICK s \in SUBSET T : Cardinality(s) = k /\ ~(g[s] >= k)
    OBVIOUS
  <2>4. s # {}
    <3> SUFFICES ASSUME s = {} PROVE FALSE
      OBVIOUS
    <3>1. g[s] = 0 /\ k = 0
      BY <1>10, <2>0, <2>3
    <3> QED BY <2>3, <3>1
  <2> DEFINE r == s \ {Chosen(s)}
  <2>5. Chosen(s) \in T /\ Chosen(s) \in s /\ r \in SUBSET T
    BY <1>5, <2>4
  <2>6. Cardinality(r) = k - 1 /\ Cardinality(r) \in Nat /\ k \in Nat
    <3>1. Cardinality(r) = Cardinality(s) - 1
      BY <2>0, <2>5
    <3>2. Cardinality(r) \in Nat
      BY <2>0, <2>5
    <3> QED BY <2>3, <3>1, <3>2
  <2>7. g[s] = rtts[Chosen(s)] + g[r]
    BY <1>10, <2>4
  <2> HIDE DEF r
  <2>8. k - 1 \notin Bad
    BY <2>2, <2>6
  <2>9. g[r] >= k - 1
    BY <2>5, <2>6, <2>8
  <2>10. g[r] \in Nat /\ rtts[Chosen(s)] \in Nat /\ rtts[Chosen(s)] >= 1
    BY <1>1, <1>11, <1>13, <2>5
  <2> QED BY <2>3, <2>6, <2>7, <2>9, <2>10
<1> QED BY <1>2, <1>11, <1>12, <1>13 DEF n, T

\* A sum of squares is a number.
LEMMA SquaresAreNumber ==
    ASSUME NEW rtts \in Seq(Nat), NEW avg \in Nat
    PROVE  SquaresOf(rtts, avg) \in Nat
<1> DEFINE n == Len(rtts)
           T == 1 .. n
           round == [vt \in Nat \X T |-> vt[1] + Square(rtts[vt[2]], avg)]
           pick == [s \in SUBSET T |-> Chosen(s)]
           g == CHOOSE g : SquareLoop(g, rtts, avg, SUBSET T)
<1>1. n \in Nat /\ DOMAIN rtts = T /\ \A i \in T : rtts[i] \in Nat
  OBVIOUS
<1>2. SquaresOf(rtts, avg) = g[T]
  BY <1>1 DEF SquaresOf
<1>3. IsFiniteSet(T)
  BY <1>1, FS_Interval
<1> HIDE DEF n, T
<1>s. ASSUME NEW i \in T PROVE Square(rtts[i], avg) \in Nat
  <2> DEFINE d == rtts[i] - avg
  <2>1. d \in Int
    BY <1>1
  <2> HIDE DEF d
  <2>2. d * d \in Nat
    BY <2>1
  <2> QED BY <2>2 DEF Square, d
<1>4. round \in [Nat \X T -> Nat]
      /\ \A v \in Nat, t \in T : round[<<v, t>>] = v + Square(rtts[t], avg)
  BY <1>s
<1>5. \A s \in SUBSET T :
        s # {} => Chosen(s) \in s /\ Chosen(s) \in T /\ s \ {Chosen(s)} \in SUBSET T
  BY DEF Chosen
<1>6. \A s \in SUBSET T : pick[s] = Chosen(s)
  OBVIOUS
<1> HIDE DEF round, pick
<1>7. PICK h \in [SUBSET T -> Nat] : \A s \in SUBSET T :
          h[s] = IF s = {} THEN 0 ELSE round[<<h[s \ {Chosen(s)}], Chosen(s)>>]
  <2>1. HasAnyFold(T, Nat, 0, round)
    BY <1>3, <1>4, AnyFold
  <2> QED BY <2>1 DEF HasAnyFold
<1>8. SquareLoop(h, rtts, avg, SUBSET T)
  <2>1. ASSUME NEW s \in SUBSET T
        PROVE  h[s] = IF s = {} THEN 0 ELSE h[s \ {Chosen(s)}] + Square(rtts[Chosen(s)], avg)
    <3>1. CASE s = {}
      BY <1>7, <3>1
    <3>2. CASE s # {}
      <4>1. h[s \ {Chosen(s)}] \in Nat /\ Chosen(s) \in T
        BY <1>5, <3>2
      <4> QED BY <1>4, <1>7, <3>2, <4>1
    <3> QED BY <3>1, <3>2
  <2>2. h = [s \in SUBSET T |-> h[s]]
    OBVIOUS
  <2> QED BY <2>1, <2>2 DEF SquareLoop
<1>9. SquareLoop(g, rtts, avg, SUBSET T)
  BY <1>8
<1> HIDE DEF g
<1>10. \A s \in SUBSET T :
           g[s] = IF s = {} THEN 0 ELSE g[s \ {Chosen(s)}] + Square(rtts[Chosen(s)], avg)
  BY <1>9 DEF SquareLoop
<1>11. \A s \in SUBSET T : g[s] \in Nat
  <2>1. g[{}] = 0
    BY <1>10
  <2>2. ASSUME NEW s \in SUBSET T, s # {}, g[s \ {pick[s]}] \in Nat
        PROVE  g[s] = round[<<g[s \ {pick[s]}], pick[s]>>]
    BY <1>4, <1>5, <1>6, <1>10, <2>2
  <2>3. \A s \in SUBSET T : s # {} => pick[s] \in s
    BY <1>5, <1>6
  <2>4. Solves(g, T, Nat, 0, round, pick)
    BY <1>4, <2>1, <2>2, <2>3 DEF Solves
  <2> QED BY <1>3, <2>4, FoldTyped
<1> QED BY <1>2, <1>11

\* The integer square root that Jitter looks for is there.
LEMMA RootExists ==
    ASSUME NEW v \in Nat
    PROVE  \E j \in 0 .. v : j * j <= v /\ v < (j + 1) * (j + 1)
<1> DEFINE Over == {j \in Nat : v < (j + 1) * (j + 1)}
<1>1. (v + 1) * (v + 1) = v * v + 2 * v + 1 /\ v * v \in Nat
  OBVIOUS
<1>2. v \in Over
  BY <1>1
<1>3. PICK j \in Over : \A i \in Over : j <= i
  <2>1. Over \in SUBSET Nat /\ Over # {}
    BY <1>2
  <2> HIDE DEF Over
  <2> QED BY <2>1, MinIsMember
<1>4. j \in Nat /\ j <= v /\ v < (j + 1) * (j + 1)
  BY <1>2, <1>3
<1>5. j * j <= v
  <2>1. CASE j = 0
    BY <2>1
  <2>2. CASE j # 0
    <3>1. j - 1 \in Nat /\ ~(j <= j - 1) /\ (j - 1) + 1 = j
      BY <1>4, <2>2
    <3>2. j - 1 \notin Over
      BY <1>3, <3>1
    <3>3. ~(v < j * j)
      BY <3>1, <3>2
    <3>4. j * j \in Nat
      BY <1>4
    <3> QED BY <3>3, <3>4
  <2> QED BY <2>1, <2>2
<1> QED BY <1>4, <1>5

\* A number divided by a positive one.
LEMMA QuotientType ==
    ASSUME NEW a \in Nat, NEW b \in Nat, b >= 1
    PROVE  a \div b \in Nat /\ (a >= b => a \div b >= 1)
OBVIOUS

\* The average is a number, and not 0 if there are samples; the deviation too
\* is a number.
LEMMA StatisticsType ==
    ASSUME NEW m, m.rttSamples \in Seq(Nat)
    PROVE  /\ AvgRTT(m) \in Nat /\ Jitter(m) \in Nat
           /\ (\A i \in 1 .. Len(m.rttSamples) : m.rttSamples[i] >= 1) =>
                  (AvgRTT(m) = 0 <=> m.rttSamples = << >>)
<1> DEFINE s == m.rttSamples
           n == Len(s)
           sum == SumOf(s)
           sq == SquaresOf(s, AvgRTT(m))
           v == sq \div n
<1>1. n \in Nat /\ (s # << >> => n >= 1)
  OBVIOUS
<1>2. sum \in Nat /\ ((\A i \in 1 .. n : s[i] >= 1) => sum >= n)
  BY SumIsNumber
<1>3. AvgRTT(m) = IF s = << >> THEN 0 ELSE sum \div n
  BY StatisticsUnfolded
<1>4. Jitter(m) = IF n < 2 THEN 0 ELSE CHOOSE j \in 0 .. v : j * j <= v /\ v < (j + 1) * (j + 1)
  BY StatisticsUnfolded
<1> HIDE DEF n, sum
<1>5. s # << >> => sum \div n \in Nat /\ (sum >= n => sum \div n >= 1)
  BY <1>1, <1>2, QuotientType
<1>6. AvgRTT(m) \in Nat
  BY <1>3, <1>5
<1>7. sq \in Nat
  BY <1>6, SquaresAreNumber
<1> HIDE DEF sq
<1>8. ~(n < 2) => v \in Nat
  BY <1>1, <1>7, QuotientType
<1> HIDE DEF v
<1>9. Jitter(m) \in Nat
  <2>1. CASE n < 2
    BY <1>4, <2>1
  <2>2. CASE ~(n < 2)
    <3>1. \E j \in 0 .. v : j * j <= v /\ v < (j + 1) * (j + 1)
      BY <1>8, <2>2, RootExists
    <3> DEFINE root == CHOOSE j \in 0 .. v : j * j <= v /\ v < (j + 1) * (j + 1)
    <3>2. root \in 0 .. v
      BY <3>1
    <3>3. Jitter(m) = root
      BY <1>4, <2>2
    <3> HIDE DEF root
    <3> QED BY <1>8, <2>2, <3>2, <3>3
  <2> QED BY <2>1, <2>2
<1>10. (\A i \in 1 .. n : s[i] >= 1) => (AvgRTT(m) = 0 <=> s = << >>)
  BY <1>2, <1>3, <1>5
<1> QED BY <1>6, <1>9, <1>10 DEF n

-----------------------------------------------------------------------------
(* Metrics. *)

\* What RecordProbe writes.
LEMMA ResultType ==
    ASSUME PathsOK, NEW p \in Paths, NEW rtt \in Nat
    PROVE  /\ Result(p, rtt) \in Measured
           /\ Result(p, rtt).SampleCount >= 1
<1> DEFINE success == rtt > 0
           m == IF rtt > 0 THEN [metrics[p] EXCEPT !.HopCount = 1] ELSE metrics[p]
           rtts == IF success THEN KeepRecent(Append(m.rttSamples, rtt)) ELSE m.rttSamples
           count == m.SampleCount + 1
           rate == NewRate(m, success)
           n == Result(p, rtt)
<1>1. metrics[p] \in Measured
  BY DEF PathsOK
<1>2. m \in Measured
  BY <1>1 DEF Measured
<1>3. n = [m EXCEPT !.LastProbed = 0, !.SampleCount = count, !.rttSamples = rtts,
                    !.SuccessRate = rate]
  BY DEF Result, RecordProbe
<1> HIDE DEF m, n
<1>4. /\ m.rttSamples \in Seq(Nat) /\ m.SampleCount \in Nat /\ m.HopCount \in Nat
      /\ m.SuccessRate \in 0 .. RateUnit /\ RateUnit \in Nat
  BY <1>2, MetricsAssumption DEF Measured
<1>5. rtts \in Seq(Nat)
  <2>1. Append(m.rttSamples, rtt) \in Seq(Nat) /\ Append(m.rttSamples, rtt) # << >>
    BY <1>4
  <2>2. Tail(Append(m.rttSamples, rtt)) \in Seq(Nat)
    BY <2>1
  <2> QED BY <1>4, <2>1, <2>2 DEF KeepRecent
<1>6. rate \in 0 .. RateUnit
  <2>1. (3 * RateUnit + 7 * m.SuccessRate + 5) \div 10 \in 0 .. RateUnit
    BY SMTT(20), <1>4
  <2>2. (3 * 0 + 7 * m.SuccessRate + 5) \div 10 \in 0 .. RateUnit
    BY <1>4, MetricsAssumption
  <2> QED BY <1>4, <2>1, <2>2 DEF NewRate
<1>7. count \in Nat /\ count >= 1
  BY <1>4
<1> HIDE DEF rtts, count, rate
<1>8. /\ DOMAIN m = {"rttSamples", "HopCount", "SuccessRate", "LastProbed", "SampleCount"}
      /\ m = [x \in DOMAIN m |-> m[x]]
  BY <1>2 DEF Measured
<1>9. n = [x \in DOMAIN m |-> CASE x = "LastProbed" -> 0 [] x = "SampleCount" -> count
                               [] x = "rttSamples" -> rtts [] x = "SuccessRate" -> rate
                               [] OTHER -> m[x]]
  BY <1>3, <1>8
<1>10. n \in Measured /\ n.SampleCount = count
  BY <1>4, <1>5, <1>6, <1>7, <1>8, <1>9 DEF Measured
<1> QED BY <1>7, <1>10 DEF n

-----------------------------------------------------------------------------
(* Calls and what they share. *)

\* The elements of a sequence.
LEMMA ElementAt ==
    ASSUME NEW S, NEW seq \in Seq(S), NEW x \in ToSet(seq)
    PROVE  \E i \in 1 .. Len(seq) : x = seq[i] /\ seq[i] \in S
<1>1. DOMAIN seq = 1 .. Len(seq) /\ \A i \in 1 .. Len(seq) : seq[i] \in S
  OBVIOUS
<1>2. \E i \in DOMAIN seq : x = seq[i]
  BY Zenon DEF ToSet
<1> QED BY <1>1, <1>2, Zenon

\* What a call relies on stays true: paths are added, a path that was selected
\* stays so, although increments are lost, and the first map only grows.
LEMMA CallOKStays ==
    ASSUME NEW c, NEW kn, NEW kn2, NEW sel \in [IDs -> Nat], NEW sel2 \in [IDs -> Nat],
           NEW fst, NEW fst2,
           CallOK(c, kn, sel, fst), kn \subseteq kn2, fst \subseteq fst2,
           \A j \in IDs : sel[j] > 0 => sel2[j] > 0
    PROVE  CallOK(c, kn2, sel2, fst2)
<1>1. \A i \in 1 .. Len(c.paths) : c.paths[i] \in Paths
  BY DEF CallOK
<1>2. \A i \in 1 .. Len(c.paths) : ID(c.paths[i]) \in IDs
  BY <1>1 DEF IDs
<1> QED BY <1>2 DEF CallOK

\* One call moves on, and may change what all share.
LEMMA BecomeOK ==
    ASSUME CallsOK, NEW g \in Callers, NEW c, Become(g, c),
           pathSelections \in [IDs -> Nat], pathSelections' \in [IDs -> Nat],
           known \subseteq known', first \subseteq first',
           \A i \in IDs : pathSelections[i] > 0 => pathSelections'[i] > 0,
           CallOK(c, known', pathSelections', first')
    PROVE  CallsOK' /\ call'[g] = c /\ \A h \in Callers \ {g} : call'[h] = call[h]
<1>1. call' = [call EXCEPT ![g] = c] /\ call = [h \in Callers |-> call[h]]
  BY DEF Become, CallsOK
<1>2. /\ call' = [h \in Callers |-> call'[h]] /\ call'[g] = c
      /\ \A h \in Callers \ {g} : call'[h] = call[h]
  BY <1>1
<1>3. ASSUME NEW h \in Callers PROVE CallOK(call'[h], known', pathSelections', first')
  <2>1. CASE h = g
    BY <1>2, <2>1
  <2>2. CASE h # g
    <3>1. call'[h] = call[h] /\ CallOK(call[h], known, pathSelections, first)
      BY <1>2, <2>2 DEF CallsOK
    <3> QED BY <3>1, CallOKStays
  <2> QED BY <2>1, <2>2
<1> QED BY <1>2, <1>3 DEF CallsOK

\* A call that moves on and shares nothing new: enough for most of them.
LEMMA MoveInv ==
    ASSUME Inv, ~crashed, NEW g \in Callers, NEW c, Become(g, c), Active(g), call[g].pc # "prior2",
           CallOK(c, known, pathSelections, first),
           selections' \in Nat,
           UNCHANGED <<policy, known, metrics, recording, pathSelections, tried, first, second,
                       calls, crashed, overlapped>>
    PROVE  Inv'
<1>1. CallsOK' /\ call'[g] = c /\ \A h \in Callers \ {g} : call'[h] = call[h]
  BY BecomeOK DEF Inv, LearningOK
<1>2. PathsOK'
  BY DEF Inv, PathsOK
<1>3. LearningOK' /\ CountsOK'
  BY DEF Inv, LearningOK, CountsOK
<1>4. Alone'
  BY <1>1 DEF Inv, Alone, Active
<1>5. PriorsComplete'
  BY <1>1 DEF Inv, PriorsComplete
<1>6. CrashNeedsOverlap'
  BY DEF Inv, CrashNeedsOverlap
<1> QED BY <1>1, <1>2, <1>3, <1>4, <1>5, <1>6 DEF Inv

\* A goroutine that does not call BestPath.
LEMMA NoCallOK ==
    ASSUME NEW c, NEW kn, NEW sel, NEW fst,
           c = [f \in Fields |-> c[f]], c.pc \in {"idle", "done"}, c.paths = << >>, c.k = 1,
           c.tmp = 0, c.best \in Paths \cup {Nil}
    PROVE  CallOK(c, kn, sel, fst)
<1>1. << >> \in Seq(Paths)
  OBVIOUS
<1>2. c.paths \in Seq(Paths)
  BY <1>1, Zenon
<1>3. c.pc \in PCs /\ c.k \in Nat /\ c.tmp \in Nat
  BY DEF PCs
<1> QED BY <1>2, <1>3, Zenon DEF CallOK

\* A call that returns.
LEMMA ReturnOK ==
    ASSUME NEW p \in Paths \cup {Nil}, NEW kn, NEW sel, NEW fst
    PROVE  CallOK([NoCall EXCEPT !.pc = "done", !.best = p], kn, sel, fst)
<1> DEFINE c == [NoCall EXCEPT !.pc = "done", !.best = p]
<1>1. /\ c = [f \in Fields |-> c[f]] /\ c.pc = "done" /\ c.paths = << >> /\ c.k = 1 /\ c.tmp = 0
      /\ c.best = p
  BY DEF NoCall, Fields
<1> HIDE DEF c
<1>2. CallOK(c, kn, sel, fst)
  BY <1>1, NoCallOK, Zenon
<1> QED BY <1>2 DEF c

\* A call that goes to a step at which it relies on nothing that is shared.
LEMMA PlainCallOK ==
    ASSUME NEW c, NEW d, NEW kn, NEW sel, NEW fst,
           CallOK(c, kn, sel, fst), c.pc \notin {"idle", "done"},
           d = [f \in Fields |-> d[f]], d.pc \in {"scan", "choose", "count", "counted", "untried"},
           d.paths = c.paths, d.k \in 1 .. Len(c.paths), d.tmp \in Nat, d.best \in Paths \cup {Nil}
    PROVE  CallOK(d, kn, sel, fst)
<1>1. d.pc \in PCs /\ d.k \in Nat
  BY DEF PCs, CallOK
<1> QED BY <1>1 DEF CallOK

\* The entries of a path are made: the call goes on to the next path.
LEMMA NextPriorOK ==
    ASSUME NEW c, NEW kn, NEW sel, NEW fst,
           CallOK(c, kn, sel, fst), c.pc \in {"prior", "prior2"}, ID(c.paths[c.k]) \in fst
    PROVE  CallOK(IF c.k < Len(c.paths) THEN [c EXCEPT !.pc = "prior", !.k = c.k + 1]
                                        ELSE [c EXCEPT !.pc = "pick"], kn, sel, fst)
<1>1. /\ c = [f \in Fields |-> c[f]] /\ c.paths \in Seq(Paths) /\ c.tmp \in Nat
      /\ c.best \in Paths \cup {Nil} /\ c.k \in 1 .. Len(c.paths)
      /\ \A i \in 1 .. Len(c.paths) : c.paths[i] \in kn
      /\ \A i \in 1 .. c.k - 1 : ID(c.paths[i]) \in fst
  BY DEF CallOK
<1>2. Len(c.paths) \in Nat /\ \A i \in 1 .. c.k : ID(c.paths[i]) \in fst
  <2>1. Len(c.paths) \in Nat /\ c.k \in Nat
    BY <1>1
  <2>2. \A i \in 1 .. c.k : i = c.k \/ i \in 1 .. c.k - 1
    BY <2>1
  <2> QED BY <1>1, <2>1, <2>2, Zenon
<1>3. CASE c.k < Len(c.paths)
  <2> DEFINE d == [c EXCEPT !.pc = "prior", !.k = c.k + 1]
  <2>1. /\ d = [f \in Fields |-> d[f]] /\ d.pc = "prior" /\ d.paths = c.paths /\ d.k = c.k + 1
        /\ d.tmp = c.tmp /\ d.best = c.best
    BY <1>1 DEF Fields
  <2> HIDE DEF d
  <2>2. d.pc \in PCs /\ d.k \in 1 .. Len(c.paths) /\ d.k - 1 = c.k /\ d.k \in Nat
    BY <1>1, <1>2, <1>3, <2>1 DEF PCs
  <2>3. CallOK(d, kn, sel, fst)
    BY <1>1, <1>2, <2>1, <2>2 DEF CallOK
  <2> QED BY <1>3, <2>3 DEF d
<1>4. CASE ~(c.k < Len(c.paths))
  <2> DEFINE d == [c EXCEPT !.pc = "pick"]
  <2>1. /\ d = [f \in Fields |-> d[f]] /\ d.pc = "pick" /\ d.paths = c.paths /\ d.k = c.k
        /\ d.tmp = c.tmp /\ d.best = c.best
    BY <1>1 DEF Fields
  <2> HIDE DEF d
  <2>2. d.pc \in PCs /\ Len(c.paths) = c.k /\ d.k \in Nat
    BY <1>1, <1>2, <1>4, <2>1 DEF PCs
  <2>3. CallOK(d, kn, sel, fst)
    BY <1>1, <1>2, <2>1, <2>2 DEF CallOK
  <2> QED BY <1>4, <2>3 DEF d
<1> QED BY <1>3, <1>4

-----------------------------------------------------------------------------
(* The probe loop. *)

\* A path is added, or a probe of it recorded, while calls go on.
LEMMA ProbeInv ==
    ASSUME Inv, ProbeStep
    PROVE  Inv'
<1>1. /\ known \subseteq known'
      /\ UNCHANGED <<policy, selections, pathSelections, tried, first, second, call, calls,
                     crashed, overlapped>>
  BY DEF ProbeStep, AddPath, RecordSample, RecordRate, learning
<1>2. ASSUME NEW p \in Paths, NEW rtt \in RTTs \cup {0}, AddPath(p, rtt)
      PROVE  PathsOK'
  <2>1. /\ Result(p, rtt) \in Measured /\ Result(p, rtt).SampleCount >= 1
    BY ResultType, SelectionAssumption DEF Inv
  <2>2. /\ known' = known \cup {p} /\ recording' = recording
        /\ metrics' = [metrics EXCEPT ![p] = Result(p, rtt)]
    BY <1>2 DEF AddPath
  <2> QED BY <2>1, <2>2 DEF Inv, PathsOK, NotRecording
<1>3. ASSUME NEW p \in Paths, NEW rtt \in RTTs \cup {0}, RecordSample(p, rtt)
      PROVE  PathsOK'
  <2> DEFINE n == Result(p, rtt)
             rate == metrics[p].SuccessRate
             m == [n EXCEPT !.SuccessRate = rate]
  <2>1. n \in Measured /\ n.SampleCount >= 1
    BY ResultType, SelectionAssumption DEF Inv
  <2>2. /\ p \in known /\ known' = known /\ recording' = <<p, n.SuccessRate>>
        /\ metrics' = [metrics EXCEPT ![p] = m]
    BY <1>3 DEF RecordSample
  <2>3. rate \in 0 .. RateUnit
    BY DEF Inv, PathsOK, Measured
  <2> HIDE DEF n, rate
  <2>4. m \in Measured /\ m.SampleCount >= 1 /\ n.SuccessRate \in 0 .. RateUnit
    BY <2>1, <2>3 DEF Measured
  <2> HIDE DEF m
  <2> QED BY <2>2, <2>4 DEF Inv, PathsOK
<1>4. ASSUME RecordRate PROVE PathsOK'
  <2> DEFINE p == recording[1]
             m == [metrics[p] EXCEPT !.SuccessRate = recording[2]]
  <2>1. recording \in known \X (0 .. RateUnit) /\ recording' = NotRecording /\ known' = known
    BY <1>4 DEF RecordRate, Inv, PathsOK
  <2>2. p \in known /\ p \in Paths /\ recording[2] \in 0 .. RateUnit
    BY <2>1 DEF Inv, PathsOK
  <2>3. metrics' = [metrics EXCEPT ![p] = m]
    BY <1>4 DEF RecordRate
  <2>4. metrics[p] \in Measured /\ metrics[p].SampleCount >= 1
    BY <2>2 DEF Inv, PathsOK
  <2>5. m \in Measured /\ m.SampleCount >= 1
    BY <2>2, <2>4 DEF Measured
  <2> HIDE DEF m, p
  <2> QED BY <2>1, <2>2, <2>3, <2>5 DEF Inv, PathsOK
<1>5. PathsOK'
  BY <1>2, <1>3, <1>4 DEF ProbeStep
<1>6. LearningOK' /\ CountsOK' /\ CrashNeedsOverlap'
  BY <1>1 DEF Inv, LearningOK, CountsOK, CrashNeedsOverlap
<1>7. CallsOK'
  <2>1. \A g \in Callers : CallOK(call[g], known', pathSelections, first)
    BY <1>1, CallOKStays DEF Inv, CallsOK, LearningOK
  <2> QED BY <1>1, <2>1 DEF Inv, CallsOK
<1>8. Alone' /\ PriorsComplete'
  BY <1>1 DEF Inv, Alone, Active, PriorsComplete
<1> QED BY <1>5, <1>6, <1>7, <1>8 DEF Inv

-----------------------------------------------------------------------------
(* The steps of a call. *)

\* A call begins.  It overlaps with those that have begun and not returned.
LEMMA BeginInv ==
    ASSUME Inv, ~crashed, NEW g \in Callers, NEW t \in Targets, Begin(g, t)
    PROVE  Inv'
<1>1. /\ ~Active(g) /\ calls[g] < MaxCalls /\ calls' = [calls EXCEPT ![g] = @ + 1]
      /\ overlapped' = (overlapped \/ \E h \in Callers : Active(h))
      /\ UNCHANGED <<policy, known, metrics, recording, selections, pathSelections, tried, first,
                     second, crashed>>
  BY DEF Begin, pathset, learning
<1>2. PICK c : Become(g, c) /\ CallOK(c, known, pathSelections, first)
  <2>1. CASE PathSet(t) = {} /\ Become(g, [NoCall EXCEPT !.pc = "done"])
    <3> DEFINE c == [NoCall EXCEPT !.pc = "done"]
    <3>1. /\ c = [f \in Fields |-> c[f]] /\ c.pc = "done" /\ c.paths = << >> /\ c.k = 1
          /\ c.tmp = 0 /\ c.best = Nil
      BY DEF NoCall, Fields
    <3> HIDE DEF c
    <3>2. CallOK(c, known, pathSelections, first)
      BY <3>1, NoCallOK, Zenon
    <3> QED BY <2>1, <3>2 DEF c
  <2>2. CASE PathSet(t) # {} /\ \E order \in SetToSeqs(Viable(t)) :
              Become(g, [NoCall EXCEPT
                  !.pc = Start, !.paths = order,
                  !.answering = {p \in PathSet(t) : metrics[p].rttSamples # << >>} \ {recording[1]}])
    <3> DEFINE ans == {p \in PathSet(t) : metrics[p].rttSamples # << >>} \ {recording[1]}
               n == Cardinality(PathSet(t))
    <3>1. PICK order \in SetToSeqs(Viable(t)) :
                Become(g, [NoCall EXCEPT !.pc = Start, !.paths = order, !.answering = ans])
      BY <2>2
    <3>2. Viable(t) = PathSet(t) /\ PathSet(t) \subseteq known
      BY DEF Viable, PathSet, Inv, PathsOK, Measured
    <3>3. IsFiniteSet(PathSet(t)) /\ n \in Nat /\ n # 0
      <4>1. PathSet(t) \in SUBSET Paths
        BY <3>2 DEF Inv, PathsOK
      <4> QED BY <2>2, <4>1, SelectionAssumption, FS_Subset, FS_CardinalityType, FS_EmptySet
    <3>4. order \in [1 .. n -> PathSet(t)]
      BY <3>1, <3>2 DEF SetToSeqs
    <3>5. order \in Seq(Paths) /\ Len(order) = n /\ \A i \in 1 .. n : order[i] \in known
      BY <3>2, <3>3, <3>4 DEF Inv, PathsOK
    <3>6. Start \in {"scan", "choose", "count", "prior"}
      BY SelectionAssumption DEF Start, Plain, Inv, LearningOK
    <3> DEFINE start == Start
               c == [NoCall EXCEPT !.pc = start, !.paths = order, !.answering = ans]
    <3> HIDE DEF start, n, ans
    <3>7. /\ c = [f \in Fields |-> c[f]] /\ c.pc = start /\ c.paths = order /\ c.k = 1
          /\ c.tmp = 0 /\ c.best = Nil
      BY DEF NoCall, Fields
    <3> HIDE DEF c
    <3>8. c.pc \in PCs /\ c.k \in 1 .. Len(order) /\ c.pc \in {"scan", "choose", "count", "prior"}
      BY <3>3, <3>5, <3>6, <3>7 DEF PCs, start
    <3>9. CallOK(c, known, pathSelections, first)
      BY <3>5, <3>7, <3>8 DEF CallOK
    <3> QED BY <3>1, <3>9 DEF c, start
  <2> QED BY <2>1, <2>2 DEF Begin
<1>3. CallsOK' /\ call'[g] = c /\ \A h \in Callers \ {g} : call'[h] = call[h]
  BY <1>1, <1>2, BecomeOK DEF Inv, LearningOK
<1>4. PathsOK'
  BY <1>1 DEF Inv, PathsOK
<1>5. calls' \in [Callers -> 0 .. MaxCalls]
  BY <1>1, SelectionAssumption DEF Inv, LearningOK
<1>6. overlapped' \in BOOLEAN /\ (overlapped' <=> overlapped \/ \E h \in Callers : Active(h))
  BY <1>1
<1>7. LearningOK' /\ CountsOK'
  BY <1>1, <1>5, <1>6 DEF Inv, LearningOK, CountsOK
<1>8. Alone'
  BY <1>3, <1>6 DEF Alone, Active
<1>9. PriorsComplete'
  BY <1>1, <1>6 DEF Inv, PriorsComplete, Active
<1>10. CrashNeedsOverlap'
  BY <1>1 DEF CrashNeedsOverlap
<1> QED BY <1>3, <1>4, <1>7, <1>8, <1>9, <1>10 DEF Inv

\* The steps of a call that write to nothing but the counter of selections.
LEMMA ScanInv ==
    ASSUME Inv, ~crashed, NEW g \in Callers, Scan(g)
    PROVE  Inv'
<1> DEFINE c == call[g]
           p == c.paths[c.k]
<1>1. /\ c.pc = "scan"
      /\ UNCHANGED <<policy, known, metrics, recording, selections, pathSelections, tried, first,
                     second, calls, crashed, overlapped>>
  BY DEF Scan, At, pathset, learning
<1>2. CallOK(c, known, pathSelections, first)
  BY DEF Inv, CallsOK
<1>3. /\ c = [f \in Fields |-> c[f]] /\ c.paths \in Seq(Paths) /\ c.best \in Paths \cup {Nil}
      /\ c.k \in 1 .. Len(c.paths) /\ c.tmp \in Nat
  BY <1>1, <1>2 DEF CallOK
<1>4. p \in Paths
  BY SMTT(20), <1>3
<1>5. PICK s : LET best == IF Better(s, c) THEN p ELSE c.best
                   top  == IF Better(s, c) THEN s ELSE c.bestScore
               IN  IF c.k = Len(c.paths)
                   THEN Return(g, best)
                   ELSE Become(g, [c EXCEPT !.k = c.k + 1, !.best = best, !.bestScore = top])
  BY DEF Scan
<1> DEFINE best == IF Better(s, c) THEN p ELSE c.best
           top == IF Better(s, c) THEN s ELSE c.bestScore
<1>6. best \in Paths \cup {Nil}
  BY <1>3, <1>4
<1>7. CASE c.k = Len(c.paths)
  <2>1. Become(g, [NoCall EXCEPT !.pc = "done", !.best = best])
    BY <1>5, <1>7 DEF Return
  <2>2. CallOK([NoCall EXCEPT !.pc = "done", !.best = best], known, pathSelections, first)
    BY <1>6, ReturnOK
  <2>3. Active(g) /\ call[g].pc # "prior2" /\ selections' \in Nat
    BY <1>1 DEF Active, Inv, LearningOK
  <2> HIDE DEF best
  <2> QED BY <1>1, <2>1, <2>2, <2>3, MoveInv
<1>8. CASE c.k # Len(c.paths)
  <2> DEFINE d == [c EXCEPT !.k = c.k + 1, !.best = best, !.bestScore = top]
  <2>1. Become(g, d)
    BY <1>5, <1>8
  <2>2. Active(g) /\ call[g].pc # "prior2" /\ selections' \in Nat
    BY <1>1 DEF Active, Inv, LearningOK
  <2>3. c.k + 1 \in 1 .. Len(c.paths)
    BY <1>3, <1>8
  <2> HIDE DEF best, top, c
  <2>4. /\ d = [f \in Fields |-> d[f]] /\ d.pc = "scan" /\ d.paths = c.paths /\ d.k = c.k + 1
        /\ d.tmp = c.tmp /\ d.best = best
    BY <1>1, <1>3 DEF Fields
  <2> HIDE DEF d
  <2>5. CallOK(d, known, pathSelections, first)
    BY <1>1, <1>2, <1>3, <1>6, <2>3, <2>4, PlainCallOK
  <2> QED BY <1>1, <2>1, <2>2, <2>5, MoveInv
<1> QED BY <1>7, <1>8

\* ReadSelections, WriteSelections, Choose: what a call does before it scans or
\* looks for untried paths.
LEMMA CountInv ==
    ASSUME Inv, ~crashed, NEW g \in Callers, ReadSelections(g) \/ WriteSelections(g) \/ Choose(g)
    PROVE  Inv'
<1> DEFINE c == call[g]
<1>1. /\ c.pc \in {"count", "counted", "choose"}
      /\ UNCHANGED <<policy, known, metrics, recording, pathSelections, tried, first, second,
                     calls, crashed, overlapped>>
  BY DEF ReadSelections, WriteSelections, Choose, At, pathset, learning
<1>2. CallOK(c, known, pathSelections, first)
  BY DEF Inv, CallsOK
<1>3. /\ c = [f \in Fields |-> c[f]] /\ c.paths \in Seq(Paths) /\ c.best \in Paths \cup {Nil}
      /\ c.k \in 1 .. Len(c.paths) /\ c.tmp \in Nat
  BY <1>1, <1>2 DEF CallOK
<1>4. Active(g) /\ call[g].pc # "prior2"
  BY <1>1 DEF Active
<1>5. selections \in Nat /\ selections' \in Nat
  BY <1>3 DEF ReadSelections, WriteSelections, Choose, learning, Inv, LearningOK
<1>6. \/ \E p \in ToSet(c.paths) : Return(g, p)
      \/ Become(g, [c EXCEPT !.pc = "counted", !.tmp = selections])
      \/ \E pc \in {"untried", "choose", "scan"} : Become(g, [c EXCEPT !.pc = pc])
  BY DEF ReadSelections, WriteSelections, Choose, Goto
<1>7. CASE \E p \in ToSet(c.paths) : Return(g, p)
  <2>1. PICK p \in ToSet(c.paths) : Return(g, p)
    BY <1>7
  <2>2. p \in Paths \cup {Nil}
    BY <1>3, <2>1, ElementAt
  <2>3. CallOK([NoCall EXCEPT !.pc = "done", !.best = p], known, pathSelections, first)
    BY <2>2, ReturnOK
  <2> QED BY <1>1, <1>4, <1>5, <2>1, <2>3, MoveInv DEF Return
<1>8. CASE Become(g, [c EXCEPT !.pc = "counted", !.tmp = selections])
  <2> DEFINE d == [c EXCEPT !.pc = "counted", !.tmp = selections]
  <2> HIDE DEF c
  <2>1. /\ d = [f \in Fields |-> d[f]] /\ d.pc = "counted" /\ d.paths = c.paths /\ d.k = c.k
        /\ d.tmp = selections /\ d.best = c.best
    BY <1>3 DEF Fields
  <2>2. Become(g, d)
    BY <1>8
  <2> HIDE DEF d
  <2>3. CallOK(d, known, pathSelections, first)
    BY <1>1, <1>2, <1>3, <1>5, <2>1, PlainCallOK
  <2> QED BY <1>1, <1>4, <1>5, <2>2, <2>3, MoveInv
<1>9. CASE \E pc \in {"untried", "choose", "scan"} : Become(g, [c EXCEPT !.pc = pc])
  <2>1. PICK pc \in {"untried", "choose", "scan"} : Become(g, [c EXCEPT !.pc = pc])
    BY <1>9
  <2> DEFINE d == [c EXCEPT !.pc = pc]
  <2> HIDE DEF c
  <2>2. /\ d = [f \in Fields |-> d[f]] /\ d.pc = pc /\ d.paths = c.paths /\ d.k = c.k
        /\ d.tmp = c.tmp /\ d.best = c.best
    BY <1>3 DEF Fields
  <2>3. Become(g, d)
    BY <2>1
  <2> HIDE DEF d
  <2>4. CallOK(d, known, pathSelections, first)
    BY <1>1, <1>2, <1>3, <2>2, PlainCallOK
  <2> QED BY <1>1, <1>4, <1>5, <2>3, <2>4, MoveInv
<1> QED BY <1>6, <1>7, <1>8, <1>9

-----------------------------------------------------------------------------
(* UCB1. *)

\* A path was picked: the first untried one, or, if there is none, any.
LEMMA PickedOK ==
    ASSUME NEW c, NEW kn, NEW sel, NEW fst, CallOK(c, kn, sel, fst), c.pc \notin {"idle", "done"},
           NEW d, d = [f \in Fields |-> d[f]], d.pc \in {"claim", "bump", "bumped", "update"},
           d.pc \in {"bump", "bumped"} => \A i \in 1 .. Len(c.paths) : sel[ID(c.paths[i])] > 0,
           d.paths = c.paths, d.k = c.k, d.tmp \in Nat, d.best \in Paths, d.best \in kn
    PROVE  CallOK(d, kn, sel, fst)
<1>1. d.pc \in PCs
  BY DEF PCs
<1> QED BY <1>1 DEF CallOK

\* The loop over the paths, and the choice of the highest bound.
LEMMA LookForUntriedInv ==
    ASSUME Inv, ~crashed, NEW g \in Callers, LookForUntried(g)
    PROVE  Inv'
<1> DEFINE c == call[g]
           untried == {i \in DOMAIN c.paths : pathSelections[ID(c.paths[i])] = 0}
<1>1. /\ c.pc = "untried"
      /\ UNCHANGED <<policy, known, metrics, recording, selections, pathSelections, tried, first,
                     second, calls, crashed, overlapped>>
  BY DEF LookForUntried, At, pathset, learning
<1>2. CallOK(c, known, pathSelections, first)
  BY DEF Inv, CallsOK
<1>3. /\ c = [f \in Fields |-> c[f]] /\ c.paths \in Seq(Paths) /\ c.tmp \in Nat
      /\ \A i \in 1 .. Len(c.paths) : c.paths[i] \in known
  BY <1>1, <1>2 DEF CallOK
<1>4. Active(g) /\ call[g].pc # "prior2" /\ selections' \in Nat
  BY <1>1 DEF Active, Inv, LearningOK
<1>5. PICK pc, p : /\ Become(g, [c EXCEPT !.pc = pc, !.best = p])
                   /\ p \in Paths /\ p \in known /\ pc \in {"claim", "bump"}
                   /\ pc = "bump" =>
                          \A i \in 1 .. Len(c.paths) : pathSelections[ID(c.paths[i])] > 0
  <2>1. CASE untried # {} /\ Become(g, [c EXCEPT !.pc = "claim", !.best = c.paths[Min(untried)]])
    <3>1. untried \in SUBSET Nat
      BY <1>3
    <3>2. Min(untried) \in untried
      BY <2>1, <3>1, MinIsMember
    <3>3. \A i \in DOMAIN c.paths : c.paths[i] \in Paths /\ c.paths[i] \in known
      BY <1>3
    <3>4. c.paths[Min(untried)] \in Paths /\ c.paths[Min(untried)] \in known
      BY <3>2, <3>3, Zenon
    <3>5. "claim" # "bump"
      OBVIOUS
    <3> WITNESS "claim", c.paths[Min(untried)]
    <3> QED BY <2>1, <3>4, <3>5, Zenon
  <2>2. CASE /\ untried = {}
             /\ \E p \in ToSet(c.paths) : Become(g, [c EXCEPT !.pc = "bump", !.best = p])
    <3>1. PICK p \in ToSet(c.paths) : Become(g, [c EXCEPT !.pc = "bump", !.best = p])
      BY <2>2
    <3>2. p \in Paths /\ p \in known
      <4>1. PICK i \in 1 .. Len(c.paths) : p = c.paths[i] /\ c.paths[i] \in Paths
        BY <1>3, <3>1, ElementAt
      <4> QED BY <1>3, <4>1, Zenon
    <3>3. ASSUME NEW i \in 1 .. Len(c.paths) PROVE pathSelections[ID(c.paths[i])] > 0
      <4>1. i \in DOMAIN c.paths /\ ID(c.paths[i]) \in IDs
        BY <1>3 DEF IDs
      <4>2. pathSelections[ID(c.paths[i])] # 0 /\ pathSelections[ID(c.paths[i])] \in Nat
        BY <2>2, <4>1 DEF Inv, LearningOK
      <4> QED BY <4>2
    <3> QED BY <3>1, <3>2, <3>3
  <2> QED BY <2>1, <2>2 DEF LookForUntried
<1> DEFINE d == [c EXCEPT !.pc = pc, !.best = p]
<1> HIDE DEF c
<1>6. /\ d = [f \in Fields |-> d[f]] /\ d.pc = pc /\ d.paths = c.paths /\ d.k = c.k
      /\ d.tmp = c.tmp /\ d.best = p
  BY <1>3 DEF Fields
<1>7. Become(g, d)
  BY <1>5
<1> HIDE DEF d
<1>8. CallOK(d, known, pathSelections, first)
  BY <1>1, <1>2, <1>3, <1>5, <1>6, PickedOK
<1> QED BY <1>1, <1>4, <1>7, <1>8, MoveInv

\* The counter of the path is read.
LEMMA ReadCountInv ==
    ASSUME Inv, ~crashed, NEW g \in Callers, ReadCount(g)
    PROVE  Inv'
<1> DEFINE c == call[g]
           count == pathSelections[ID(c.best)]
           d == [c EXCEPT !.pc = "bumped", !.tmp = count]
<1>1. /\ c.pc = "bump" /\ Become(g, d)
      /\ UNCHANGED <<policy, known, metrics, recording, selections, pathSelections, tried, first,
                     second, calls, crashed, overlapped>>
  BY DEF ReadCount, At, pathset, learning
<1>2. CallOK(c, known, pathSelections, first)
  BY DEF Inv, CallsOK
<1>3. /\ c = [f \in Fields |-> c[f]] /\ c.best \in Paths /\ c.best \in known
      /\ \A i \in 1 .. Len(c.paths) : pathSelections[ID(c.paths[i])] > 0
  BY <1>1, <1>2 DEF CallOK
<1>4. Active(g) /\ call[g].pc # "prior2" /\ selections' \in Nat
  BY <1>1 DEF Active, Inv, LearningOK
<1>5. count \in Nat
  BY <1>3 DEF Inv, LearningOK, IDs
<1> HIDE DEF c, count
<1>6. /\ d = [f \in Fields |-> d[f]] /\ d.pc = "bumped" /\ d.paths = c.paths /\ d.k = c.k
      /\ d.tmp = count /\ d.best = c.best
  BY <1>3 DEF Fields
<1> HIDE DEF d
<1>7. CallOK(d, known, pathSelections, first)
  BY <1>1, <1>2, <1>3, <1>5, <1>6, PickedOK
<1> QED BY <1>1, <1>4, <1>7, MoveInv

\* A counter is written, from a value that others may have overtaken: the path
\* stays one that was selected.
LEMMA WriteCountInv ==
    ASSUME Inv, ~crashed, NEW g \in Callers, Claim(g) \/ WriteCount(g)
    PROVE  Inv'
<1> DEFINE b == call[g].best
           d == [NoCall EXCEPT !.pc = "done", !.best = b]
<1>1. /\ call[g].pc \in {"claim", "bumped"} /\ Become(g, d)
      /\ \E n : /\ n = 1 \/ n = call[g].tmp + 1
                /\ pathSelections' = [pathSelections EXCEPT ![ID(b)] = n]
      /\ tried' = tried \cup {b}
      /\ UNCHANGED <<policy, known, metrics, recording, selections, first, second, calls, crashed,
                     overlapped>>
  BY DEF Claim, WriteCount, Return, At, pathset
<1>2. b \in Paths /\ b \in known /\ ID(b) \in IDs /\ call[g].tmp \in Nat
  BY <1>1 DEF Inv, CallsOK, CallOK, IDs
<1>3. PICK n \in Nat : n > 0 /\ pathSelections' = [pathSelections EXCEPT ![ID(b)] = n]
  <2>1. PICK n : /\ n = 1 \/ n = call[g].tmp + 1
                 /\ pathSelections' = [pathSelections EXCEPT ![ID(b)] = n]
    BY <1>1, Zenon
  <2>2. n \in Nat /\ n > 0
    BY <1>2, <2>1
  <2> QED BY <2>1, <2>2, Zenon
<1>4. pathSelections \in [IDs -> Nat]
  BY DEF Inv, LearningOK
<1> HIDE DEF b
<1>5. /\ pathSelections' \in [IDs -> Nat]
      /\ \A i \in IDs : pathSelections[i] > 0 => pathSelections'[i] > 0
  BY <1>2, <1>3, <1>4
<1>6. CallOK(d, known', pathSelections', first')
  BY <1>2, ReturnOK
<1> HIDE DEF d
<1>7. CallsOK' /\ call'[g] = d /\ \A h \in Callers \ {g} : call'[h] = call[h]
  BY <1>1, <1>4, <1>5, <1>6, BecomeOK DEF Inv
<1>8. PathsOK' /\ LearningOK' /\ CrashNeedsOverlap'
  BY <1>1, <1>5 DEF Inv, PathsOK, LearningOK, CrashNeedsOverlap
<1>c. CountsOK'
  <2>1. tried' \subseteq known' /\ b \in tried' /\ tried \subseteq tried'
    BY <1>1, <1>2 DEF Inv, CountsOK
  <2>2. \A i \in IDs : i # ID(b) => pathSelections'[i] = pathSelections[i]
    BY <1>2, <1>3, <1>4
  <2> QED BY <2>1, <2>2 DEF Inv, CountsOK
<1>9. Alone'
  BY <1>1, <1>7 DEF Inv, Alone, Active
<1>10. PriorsComplete'
  BY <1>1, <1>7 DEF Inv, PriorsComplete
<1> QED BY <1>7, <1>8, <1>c, <1>9, <1>10 DEF Inv

-----------------------------------------------------------------------------
(* Thompson sampling and LinUCB. *)

\* A call that is alone and not between its two writes finds two equal maps.
LEMMA MapsAgree ==
    ASSUME Inv, ~overlapped, NEW g \in Callers, Active(g), call[g].pc # "prior2"
    PROVE  first \subseteq second
<1> SUFFICES ASSUME NEW p \in first \ second PROVE FALSE
  OBVIOUS
<1>1. PICK h \in Callers : call[h].pc = "prior2"
  BY DEF Inv, PriorsComplete
<1>2. Active(h)
  BY <1>1 DEF Active
<1> QED BY <1>1, <1>2 DEF Inv, Alone

\* The process ends: nothing but crashed changes.
LEMMA CrashInv ==
    ASSUME Inv, crashed' = TRUE, overlapped,
           UNCHANGED <<policy, pathset, learning, call, calls, overlapped>>
    PROVE  Inv'
<1>1. UNCHANGED <<policy, known, metrics, recording, selections, pathSelections, tried, first,
                  second, call, calls, overlapped>>
  BY DEF pathset, learning
<1> QED
  BY <1>1 DEF Inv, PathsOK, LearningOK, CountsOK, CallsOK, Alone, Active, PriorsComplete,
              CrashNeedsOverlap

\* The entry of a path in the first map is looked for, and made.
LEMMA FirstPriorInv ==
    ASSUME Inv, ~crashed, NEW g \in Callers, FirstPrior(g)
    PROVE  Inv'
<1> DEFINE c == call[g]
           p == c.paths[c.k]
           id == ID(p)
<1>1. /\ c.pc = "prior"
      /\ UNCHANGED <<policy, known, metrics, recording, selections, pathSelections, tried, second,
                     calls, overlapped>>
  BY DEF FirstPrior, At, pathset
<1>2. CallOK(c, known, pathSelections, first)
  BY DEF Inv, CallsOK
<1>3. /\ c = [f \in Fields |-> c[f]] /\ c.paths \in Seq(Paths) /\ c.k \in 1 .. Len(c.paths)
      /\ c.tmp \in Nat /\ c.best \in Paths \cup {Nil}
      /\ \A i \in 1 .. Len(c.paths) : c.paths[i] \in known
      /\ \A i \in 1 .. c.k - 1 : ID(c.paths[i]) \in first
  BY <1>1, <1>2 DEF CallOK
<1>4. Active(g) /\ call[g].pc # "prior2" /\ selections' \in Nat
  BY <1>1 DEF Active, Inv, LearningOK
<1>5. pathSelections \in [IDs -> Nat] /\ pathSelections' \in [IDs -> Nat]
  BY <1>1 DEF Inv, LearningOK
<1>6. CASE id \notin first /\ first' = first \cup {id} /\ Goto(g, "prior2") /\ UNCHANGED crashed
  <2> DEFINE d == [c EXCEPT !.pc = "prior2"]
  <2>1. Become(g, d) /\ p \in known
    BY <1>3, <1>6 DEF Goto
  <2>k. id \in {ID(q) : q \in known}
    BY <2>1
  <2> HIDE DEF c
  <2>2. /\ d = [f \in Fields |-> d[f]] /\ d.pc = "prior2" /\ d.paths = c.paths /\ d.k = c.k
        /\ d.tmp = c.tmp /\ d.best = c.best
    BY <1>3 DEF Fields
  <2> HIDE DEF d
  <2>3. d.pc \in PCs /\ c.k \in Nat
    BY <1>3, <2>2 DEF PCs
  <2>4. CallOK(d, known', pathSelections', first')
    BY <1>1, <1>3, <1>6, <2>2, <2>3 DEF CallOK
  <2>5. CallsOK' /\ call'[g] = d /\ \A h \in Callers \ {g} : call'[h] = call[h]
    BY <1>1, <1>5, <1>6, <2>1, <2>4, BecomeOK DEF Inv
  <2>6. PathsOK' /\ LearningOK' /\ CountsOK' /\ CrashNeedsOverlap'
    BY <1>1, <1>6, <2>k DEF Inv, PathsOK, LearningOK, CountsOK, CrashNeedsOverlap
  <2>7. Alone'
    BY <1>1, <1>4, <2>5 DEF Inv, Alone, Active
  <2>8. PriorsComplete'
    <3> SUFFICES ASSUME ~overlapped', NEW q \in first' \ second'
                 PROVE  \E h \in Callers :
                            call'[h].pc = "prior2" /\ q = ID(call'[h].paths[call'[h].k])
      BY DEF PriorsComplete
    <3>1. first \subseteq second
      BY <1>1, <1>4, MapsAgree
    <3>2. q = id
      BY <1>1, <1>6, <3>1
    <3> QED BY <2>2, <2>5, <3>2
  <2> QED BY <2>5, <2>6, <2>7, <2>8 DEF Inv
<1>7. CASE id \in first /\ NextPrior(g) /\ UNCHANGED <<first, crashed>>
  <2> DEFINE d == IF c.k < Len(c.paths) THEN [c EXCEPT !.pc = "prior", !.k = c.k + 1]
                                        ELSE [c EXCEPT !.pc = "pick"]
  <2>1. Become(g, d)
    BY <1>7 DEF NextPrior
  <2>2. CallOK(d, known, pathSelections, first)
    BY <1>1, <1>2, <1>7, NextPriorOK
  <2> HIDE DEF d
  <2> QED BY <1>1, <1>4, <1>7, <2>1, <2>2, MoveInv
<1>8. CASE id \in first /\ id \notin second /\ crashed' = TRUE /\ UNCHANGED <<call, first>>
  <2>1. overlapped
    BY <1>4, <1>8, MapsAgree
  <2> QED BY <1>1, <1>8, <2>1, CrashInv DEF pathset, learning
<1> QED BY <1>6, <1>7, <1>8 DEF FirstPrior

\* Its entry in the second map is made.
LEMMA SecondPriorInv ==
    ASSUME Inv, ~crashed, NEW g \in Callers, SecondPrior(g)
    PROVE  Inv'
<1> DEFINE c == call[g]
           id == ID(c.paths[c.k])
           d == IF c.k < Len(c.paths) THEN [c EXCEPT !.pc = "prior", !.k = c.k + 1]
                                      ELSE [c EXCEPT !.pc = "pick"]
<1>1. /\ c.pc = "prior2" /\ second' = second \cup {id} /\ Become(g, d)
      /\ UNCHANGED <<policy, known, metrics, recording, selections, pathSelections, tried, first,
                     calls, crashed, overlapped>>
  BY DEF SecondPrior, NextPrior, At, pathset
<1>2. CallOK(c, known, pathSelections, first)
  BY DEF Inv, CallsOK
<1>3. id \in first
  BY <1>1, <1>2 DEF CallOK
<1>4. CallOK(d, known, pathSelections, first)
  BY <1>1, <1>2, <1>3, NextPriorOK
<1>5. pathSelections \in [IDs -> Nat]
  BY DEF Inv, LearningOK
<1> HIDE DEF d
<1>6. CallsOK' /\ call'[g] = d /\ \A h \in Callers \ {g} : call'[h] = call[h]
  BY <1>1, <1>4, <1>5, BecomeOK DEF Inv
<1>7. PathsOK' /\ LearningOK' /\ CountsOK' /\ CrashNeedsOverlap'
  BY <1>1, <1>3 DEF Inv, PathsOK, LearningOK, CountsOK, CrashNeedsOverlap
<1>8. Alone'
  BY <1>1, <1>6 DEF Inv, Alone, Active
<1>9. PriorsComplete'
  <2> SUFFICES ASSUME ~overlapped, NEW q \in first \ second, q # id PROVE FALSE
    BY <1>1 DEF PriorsComplete
  <2>1. PICK h \in Callers : call[h].pc = "prior2" /\ q = ID(call[h].paths[call[h].k])
    BY DEF Inv, PriorsComplete
  <2>2. Active(g) /\ Active(h)
    BY <1>1, <2>1 DEF Active
  <2>3. h = g
    BY <2>2 DEF Inv, Alone
  <2> QED BY <2>1, <2>3
<1> QED BY <1>6, <1>7, <1>8, <1>9 DEF Inv

\* With all entries there, one of the paths is picked.
LEMMA PickInv ==
    ASSUME Inv, ~crashed, NEW g \in Callers, Pick(g)
    PROVE  Inv'
<1> DEFINE c == call[g]
<1>1. /\ c.pc = "pick"
      /\ UNCHANGED <<policy, known, metrics, recording, selections, pathSelections, tried, first,
                     second, calls, overlapped>>
  BY DEF Pick, At, pathset, learning
<1>2. CallOK(c, known, pathSelections, first)
  BY DEF Inv, CallsOK
<1>3. /\ c = [f \in Fields |-> c[f]] /\ c.paths \in Seq(Paths) /\ c.tmp \in Nat
      /\ \A i \in 1 .. Len(c.paths) : c.paths[i] \in known /\ ID(c.paths[i]) \in first
  BY <1>1, <1>2 DEF CallOK
<1>4. Active(g) /\ call[g].pc # "prior2" /\ selections' \in Nat
  BY <1>1 DEF Active, Inv, LearningOK
<1>5. CASE \A p \in ToSet(c.paths) : ID(p) \in second
  <2>1. PICK p \in ToSet(c.paths) : Become(g, [c EXCEPT !.pc = "update", !.best = p])
    BY <1>5 DEF Pick
  <2>2. crashed' = crashed
    BY <1>5 DEF Pick
  <2>3. p \in Paths /\ p \in known
    <3>1. PICK i \in 1 .. Len(c.paths) : p = c.paths[i] /\ c.paths[i] \in Paths
      BY <1>3, <2>1, ElementAt
    <3> QED BY <1>3, <3>1, Zenon
  <2> DEFINE d == [c EXCEPT !.pc = "update", !.best = p]
  <2> HIDE DEF c
  <2>4. /\ d = [f \in Fields |-> d[f]] /\ d.pc = "update" /\ d.paths = c.paths /\ d.k = c.k
        /\ d.tmp = c.tmp /\ d.best = p
    BY <1>3 DEF Fields
  <2>5. Become(g, d)
    BY <2>1
  <2> HIDE DEF d
  <2>6. CallOK(d, known, pathSelections, first)
    BY <1>1, <1>2, <1>3, <2>3, <2>4, PickedOK
  <2> QED BY <1>1, <1>4, <2>2, <2>5, <2>6, MoveInv
<1>6. CASE ~\A p \in ToSet(c.paths) : ID(p) \in second
  <2>1. crashed' = TRUE /\ UNCHANGED call
    BY <1>6 DEF Pick
  <2> HIDE DEF c
  <2>2. \A p \in ToSet(c.paths) : ID(p) \in first
    <3>1. DOMAIN c.paths = 1 .. Len(c.paths)
      BY <1>3
    <3>2. \A i \in DOMAIN c.paths : ID(c.paths[i]) \in first
      BY <1>3, <3>1
    <3> QED BY <3>2, Zenon DEF ToSet
  <2>3. overlapped
    BY <1>4, <1>6, <2>2, MapsAgree
  <2> QED BY <1>1, <2>1, <2>3, CrashInv DEF pathset, learning
<1> QED BY <1>5, <1>6

\* The call returns the path it picked.
LEMMA UpdateInv ==
    ASSUME Inv, ~crashed, NEW g \in Callers, Update(g)
    PROVE  Inv'
<1> DEFINE b == call[g].best
<1>1. /\ call[g].pc = "update" /\ Become(g, [NoCall EXCEPT !.pc = "done", !.best = b])
      /\ UNCHANGED <<policy, known, metrics, recording, selections, pathSelections, tried, first,
                     second, calls, crashed, overlapped>>
  BY DEF Update, Return, At, pathset, learning
<1>2. b \in Paths \cup {Nil}
  BY DEF Inv, CallsOK, CallOK
<1>3. Active(g) /\ call[g].pc # "prior2" /\ selections' \in Nat
  BY <1>1 DEF Active, Inv, LearningOK
<1>4. CallOK([NoCall EXCEPT !.pc = "done", !.best = b], known, pathSelections, first)
  BY <1>2, ReturnOK
<1> HIDE DEF b
<1> QED BY <1>1, <1>3, <1>4, MoveInv

\* The runtime ends the process on an access to a map during a write.
LEMMA MapFaultInv ==
    ASSUME Inv, ~crashed, NEW g \in Callers, MapFault(g)
    PROVE  Inv'
<1>1. PICK h \in Callers \ {g} : AccessesMap(h) /\ WritesMap(g)
  BY DEF MapFault
<1>2. Active(g) /\ Active(h)
  BY <1>1 DEF Active, AccessesMap, WritesMap, At
<1>3. overlapped
  BY <1>1, <1>2 DEF Inv, Alone
<1> QED BY <1>3, CrashInv DEF MapFault

-----------------------------------------------------------------------------
\* The invariant holds of every interleaving of calls and probes.
THEOREM Invariance == Spec => []Inv
<1>1. Init => Inv
  <2> SUFFICES ASSUME Init PROVE Inv
    OBVIOUS
  <2>1. NewMetrics \in Measured
    BY MetricsAssumption DEF NewMetrics, Measured
  <2>2. PathsOK
    BY <2>1 DEF Init, PathsOK
  <2>3. LearningOK
    <3>1. 0 \in 0 .. MaxCalls
      BY SelectionAssumption
    <3>2. /\ policy \in Policies /\ selections = 0 /\ pathSelections = [i \in IDs |-> 0]
          /\ tried = {} /\ first = {} /\ second = {} /\ calls = [g \in Callers |-> 0]
          /\ crashed = FALSE /\ overlapped = FALSE
      BY DEF Init
    <3>3. crashed \in BOOLEAN /\ overlapped \in BOOLEAN
      BY <3>2, Zenon
    <3> QED BY <3>1, <3>2, <3>3 DEF LearningOK
  <2>c. CountsOK
    BY DEF Init, CountsOK
  <2>4. /\ NoCall = [f \in Fields |-> NoCall[f]] /\ NoCall.pc = "idle" /\ NoCall.paths = << >>
        /\ NoCall.k = 1 /\ NoCall.tmp = 0 /\ NoCall.best = Nil
    BY DEF NoCall, Fields
  <2>5. CallOK(NoCall, known, pathSelections, first)
    BY <2>4, NoCallOK, Zenon
  <2>6. call = [g \in Callers |-> NoCall]
    BY DEF Init
  <2>7. CallsOK
    BY <2>5, <2>6 DEF CallsOK
  <2>8. Alone
    BY <2>4, <2>6 DEF Alone, Active
  <2>9. PriorsComplete /\ CrashNeedsOverlap
    BY DEF Init, PriorsComplete, CrashNeedsOverlap
  <2> QED BY <2>2, <2>3, <2>c, <2>7, <2>8, <2>9 DEF Inv
<1>2. Inv /\ [Next]_vars => Inv'
  <2> SUFFICES ASSUME Inv, [Next]_vars PROVE Inv'
    OBVIOUS
  <2>1. CASE UNCHANGED vars
    <3>1. UNCHANGED <<policy, known, metrics, recording, selections, pathSelections, tried, first,
                      second, call, calls, crashed, overlapped>>
      BY <2>1 DEF vars, pathset, learning
    <3> QED BY <3>1 DEF Inv, PathsOK, LearningOK, CountsOK, CallsOK, Alone, Active, PriorsComplete,
                        CrashNeedsOverlap
  <2>2. CASE Next
    <3>1. CASE ProbeStep
      BY <3>1, ProbeInv
    <3>2. CASE \E g \in Callers : CallStep(g)
      <4>1. PICK g \in Callers : CallStep(g)
        BY <3>2
      <4>2. ~crashed
        BY <2>2 DEF Next
      <4> QED
        BY <4>1, <4>2, BeginInv, ScanInv, CountInv, LookForUntriedInv, ReadCountInv,
           WriteCountInv, FirstPriorInv, SecondPriorInv, PickInv, UpdateInv, MapFaultInv
        DEF CallStep
    <3> QED BY <2>2, <3>1, <3>2 DEF Next
  <2> QED BY <2>1, <2>2
<1> QED BY <1>1, <1>2, PTL DEF Spec

\* The variables keep their types.
THEOREM TypeCorrect == Spec => []TypeOK
<1>1. Inv => TypeOK
  <2> SUFFICES ASSUME Inv PROVE TypeOK
    OBVIOUS
  <2>1. RateUnit \in Nat
    BY MetricsAssumption
  <2>2. recording[1] \in known \cup {Nil} /\ recording[2] \in 0 .. RateUnit
    BY <2>1 DEF Inv, PathsOK, NotRecording
  <2>3. \A p \in Paths : metrics[p].SuccessRate \in 0 .. RateUnit
    BY DEF Inv, PathsOK, Measured
  <2>4. \A g \in Callers : call[g].best \in Paths \cup {Nil} /\ calls[g] \in 0 .. MaxCalls
    BY DEF Inv, CallsOK, CallOK, LearningOK
  <2> QED BY <2>2, <2>3, <2>4 DEF Inv, PathsOK, LearningOK, CountsOK, TypeOK
<1> QED BY <1>1, Invariance, PTL

\* UCB1 has selected, under the ID of every path that a call looks at, some path
\* with that ID, to this target or to another one.
EveryIDTried ==
    \A g \in Callers :
        call[g].pc \in {"bump", "bumped"} =>
            \A p \in ToSet(call[g].paths) : \E q \in tried : ID(q) = ID(p)

\* UCB1 goes on to exploit only when something was selected under the ID of every
\* path it looks at, although counters are read and written by goroutines
\* without a lock.  The paths themselves it need not have tried: the run
\* path_ucb1 shows that.
THEOREM EveryIDIsTriedFirst == Spec => []EveryIDTried
<1>1. Inv => EveryIDTried
  <2> SUFFICES ASSUME Inv, NEW g \in Callers, call[g].pc \in {"bump", "bumped"},
                      NEW p \in ToSet(call[g].paths)
               PROVE  \E q \in tried : ID(q) = ID(p)
    BY DEF EveryIDTried
  <2>1. CallOK(call[g], known, pathSelections, first)
    BY DEF Inv, CallsOK
  <2>2. call[g].paths \in Seq(Paths)
    BY <2>1 DEF CallOK
  <2>3. PICK i \in 1 .. Len(call[g].paths) : p = call[g].paths[i] /\ call[g].paths[i] \in Paths
    BY <2>2, ElementAt
  <2>4. pathSelections[ID(p)] > 0
    BY <2>1, <2>3 DEF CallOK
  <2>5. ID(p) \in IDs
    BY <2>3 DEF IDs
  <2> QED BY <2>4, <2>5 DEF Inv, CountsOK
<1> QED BY <1>1, Invariance, PTL

\* Callers that take turns never bring the process down, with any policy: the
\* maps that Thompson sampling and LinUCB look a path up in without a check
\* have it, and no map is accessed during a write.
THEOREM CrashTakesOverlap == Spec => []CrashNeedsOverlap
  BY Invariance, PTL DEF Inv

-----------------------------------------------------------------------------
(* The scores. *)

\* The table has a value for every time.
LEMMA LogarithmicType ==
    ASSUME NEW ms \in Nat, ms # 0
    PROVE  Logarithmic(ms) \in Nat
<1> DEFINE n == Len(InvLog)
           S == {ms, n}
<1>1. InvLog \in Seq(Nat) /\ InvLog # << >>
  BY SelectionAssumption
<1>2. n \in Nat /\ n >= 1 /\ \A i \in 1 .. n : InvLog[i] \in Nat
  BY <1>1
<1> HIDE DEF n
<1>3. Min(S) \in S /\ \A x \in S : Min(S) <= x
  <2>1. S \in SUBSET Nat /\ S # {}
    BY <1>2
  <2> HIDE DEF S
  <2> QED BY <2>1, MinIsMember
<1>4. Min(S) \in 1 .. n
  BY <1>2, <1>3
<1> QED BY <1>2, <1>4 DEF Logarithmic, n

\* A policy has a score for every record, and scores are fractions.
LEMMA ScoresType ==
    ASSUME NEW m \in Measured
    PROVE  Scores(m) # {} /\ Scores(m) \subseteq Fractions
<1>1. /\ m.rttSamples \in Seq(Nat) /\ m.HopCount \in Nat /\ m.SuccessRate \in Nat
      /\ RateUnit \in Nat /\ RateUnit >= 100
  BY MetricsAssumption DEF Measured
<1>2. AvgRTT(m) \in Nat /\ Jitter(m) \in Nat
  BY <1>1, StatisticsType
<1>3. LatencyScore(m) \in Fractions
  BY <1>2 DEF LatencyScore, Fractions
<1>4. HopCountScore(m) \in Fractions
  BY <1>1 DEF HopCountScore, Fractions
<1>5. ReliabilityScore(m) \in Fractions
  BY <1>1 DEF ReliabilityScore, Fractions
<1>6. BalancedScore(m) \in Fractions
  <2> DEFINE latency == IF AvgRTT(m) = 0 THEN 0 ELSE Logarithmic(AvgRTT(m))
             jitter == IF Jitter(m) = 0 THEN 1000 ELSE Logarithmic(Jitter(m))
             rate == (1000 * m.SuccessRate) \div RateUnit
             hops == 1000 \div (m.HopCount + 1)
  <2>1. latency \in Nat /\ jitter \in Nat
    BY <1>2, LogarithmicType
  <2>2. rate \in Nat
    <3>1. 1000 * m.SuccessRate \in Nat
      BY <1>1
    <3> QED BY <1>1, <3>1, QuotientType
  <2>3. hops \in Nat
    <3>1. m.HopCount + 1 \in Nat /\ m.HopCount + 1 >= 1
      BY <1>1
    <3> QED BY <3>1, QuotientType
  <2>4. BalancedScore(m) = << 35 * latency + 25 * rate + 25 * hops + 15 * jitter, 1 >>
    BY DEF BalancedScore
  <2> HIDE DEF latency, jitter, rate, hops
  <2> QED BY <2>1, <2>2, <2>3, <2>4 DEF Fractions
<1>7. <<0, 1>> \in Fractions /\ <<1, 2>> \in Fractions
  BY DEF Fractions
<1>8. \/ Scores(m) = {<<0, 1>>} \/ Scores(m) = {LatencyScore(m)} \/ Scores(m) = {HopCountScore(m)}
      \/ Scores(m) = {ReliabilityScore(m)} \/ Scores(m) = {<<0, 1>>, <<1, 2>>}
      \/ Scores(m) = {BalancedScore(m)}
  BY DEF Scores
<1> QED BY <1>3, <1>4, <1>5, <1>6, <1>7, <1>8

\* The scores of DisjointPaths and of sortProvidersByPathQuality.
LEMMA ScoreTypes ==
    ASSUME PathsOK, NEW p \in Paths
    PROVE  PolicyScore(p) \in Fractions /\ ProviderScore(p) \in Fractions
<1>1. metrics[p] \in Measured
  BY DEF PathsOK
<1>2. PolicyScore(p) \in Fractions
  <2>1. Scores(metrics[p]) # {} /\ Scores(metrics[p]) \subseteq Fractions
    BY <1>1, ScoresType
  <2>2. PolicyScore(p) \in Scores(metrics[p])
    BY <2>1 DEF PolicyScore
  <2> QED BY <2>1, <2>2
<1>3. ProviderScore(p) \in Fractions
  <2> DEFINE m == metrics[p]
             avg == AvgRTT(m)
             rate == m.SuccessRate
  <2>1. rate \in Nat /\ RateUnit \in Nat \ {0} /\ m.rttSamples \in Seq(Nat)
    BY <1>1, MetricsAssumption DEF Measured
  <2>2. avg \in Nat
    BY <2>1, StatisticsType
  <2>3. \/ ProviderScore(p) = NoScore \/ ProviderScore(p) = <<rate, RateUnit>>
        \/ avg # 0 /\ ProviderScore(p) = <<1000 * rate, RateUnit * avg>>
    BY DEF ProviderScore
  <2> HIDE DEF avg, rate
  <2>4. avg # 0 => RateUnit * avg \in Nat \ {0}
    BY <2>1, <2>2
  <2>5. 1000 * rate \in Int /\ rate \in Int /\ NoScore \in Fractions
    BY <2>1 DEF NoScore, Fractions
  <2> QED BY <2>1, <2>3, <2>4, <2>5 DEF Fractions
<1> QED BY <1>2, <1>3

-----------------------------------------------------------------------------
(* Listings of a set. *)

\* The elements of a finite set, listed in any order.
LEMMA ListingOf ==
    ASSUME NEW S, IsFiniteSet(S), NEW seq \in SetToSeqs(S)
    PROVE  /\ seq \in Seq(S) /\ Len(seq) = Cardinality(S) /\ Distinct(seq) /\ ToSet(seq) = S
           /\ \A x \in S : \E i \in 1 .. Len(seq) : seq[i] = x
<1> DEFINE n == Cardinality(S)
<1>1. n \in Nat
  BY FS_CardinalityType
<1>2. seq \in [1 .. n -> S] /\ \A i, j \in 1 .. n : i # j => seq[i] # seq[j]
  BY DEF SetToSeqs
<1>3. IsFiniteSet(1 .. n) /\ Cardinality(1 .. n) = n
  BY <1>1, FS_Interval
<1>4. seq \in Injection(1 .. n, S)
  BY <1>2 DEF Injection, IsInjective
<1>5. seq \in Surjection(1 .. n, S)
  BY <1>3, <1>4, FS_Injection
<1>6. \A x \in S : \E i \in 1 .. n : seq[i] = x
  BY <1>5 DEF Surjection
<1> HIDE DEF n
<1>7. seq \in Seq(S) /\ Len(seq) = n /\ DOMAIN seq = 1 .. n
  BY <1>1, <1>2
<1>8. Distinct(seq)
  BY <1>2, <1>7 DEF Distinct
<1>9. ToSet(seq) = S
  BY <1>2, <1>6, <1>7 DEF ToSet
<1> QED BY <1>6, <1>7, <1>8, <1>9 DEF n

\* The length of a sequence without repetitions.
LEMMA DistinctLength ==
    ASSUME NEW X, NEW seq \in Seq(X), Distinct(seq)
    PROVE  Cardinality(ToSet(seq)) = Len(seq)
<1> DEFINE n == Len(seq)
<1>1. n \in Nat /\ DOMAIN seq = 1 .. n /\ seq \in [1 .. n -> X]
  OBVIOUS
<1>2. \A i, j \in 1 .. n : seq[i] = seq[j] => i = j
  BY DEF Distinct
<1> HIDE DEF n
<1>3. seq \in [1 .. n -> ToSet(seq)] /\ \A x \in ToSet(seq) : \E i \in 1 .. n : seq[i] = x
  BY <1>1 DEF ToSet
<1>4. seq \in Bijection(1 .. n, ToSet(seq))
  BY <1>2, <1>3 DEF Bijection, Injection, IsInjective, Surjection
<1>5. ExistsBijection(1 .. n, ToSet(seq))
  BY <1>4 DEF ExistsBijection
<1>6. Cardinality(ToSet(seq)) = n
  BY <1>1, <1>5, FS_CountingElements
<1> QED BY <1>6 DEF n

\* In a sequence without repetitions, no two elements precede each other.
LEMMA OrderIsStrict ==
    ASSUME NEW X, NEW seq \in Seq(X), Distinct(seq), NEW score \in [X -> Fractions],
           NEW p \in X, NEW q \in X, Precedes(p, q, score, seq)
    PROVE  p # q /\ ~Precedes(q, p, score, seq)
<1>1. Len(seq) \in Nat /\ \A i, j \in 1 .. Len(seq) : i < j => ~(j < i) /\ i # j
  OBVIOUS
<1>2. Earlier(p, q, seq) => ~Earlier(q, p, seq) /\ p # q
  <2> SUFFICES ASSUME Earlier(p, q, seq) PROVE ~Earlier(q, p, seq) /\ p # q
    OBVIOUS
  <2>1. PICK i, j \in 1 .. Len(seq) : i < j /\ seq[i] = p /\ seq[j] = q
    BY DEF Earlier
  <2>2. p # q
    BY <1>1, <2>1 DEF Distinct
  <2>3. ASSUME NEW k \in 1 .. Len(seq), NEW l \in 1 .. Len(seq), k < l, seq[k] = q, seq[l] = p
        PROVE  FALSE
    <3>1. k = j /\ l = i
      BY <2>1, <2>3 DEF Distinct
    <3> QED BY <1>1, <2>1, <2>3, <3>1
  <2> QED BY <2>2, <2>3 DEF Earlier
<1>3. score[p] \in Fractions /\ score[q] \in Fractions
  OBVIOUS
<1>4. Greater(score[p], score[q]) => ~Greater(score[q], score[p])
  BY <1>3, GreaterOrders
<1> QED BY <1>2, <1>4 DEF Precedes

\* The result of the sort: no element lost, none twice, and in a strict order.
LEMMA SortResult ==
    ASSUME NEW X, NEW seq \in Seq(X), Distinct(seq), ToSet(seq) = X, NEW score \in [X -> Fractions],
           NEW sorted, sorted = SortByScore(seq, score)
    PROVE  /\ sorted \in Seq(X) /\ Distinct(sorted)
           /\ \A x \in X : \E i \in 1 .. Len(sorted) : sorted[i] = x
           /\ \A i, j \in 1 .. Len(sorted) : i < j => Precedes(sorted[i], sorted[j], score, seq)
<1> DEFINE n == Len(seq)
<1>1. Ranked(sorted, n, seq, score, X)
  BY SortRanks
<1>2. n \in Nat /\ DOMAIN seq = 1 .. n
  OBVIOUS
<1> HIDE DEF n
<1>3. /\ sorted \in Seq(X) /\ Len(sorted) = n
      /\ \A m \in 1 .. n : \E i \in 1 .. n : sorted[i] = seq[m]
      /\ \A i, j \in 1 .. n : i < j => Precedes(sorted[i], sorted[j], score, seq)
  BY <1>1 DEF Ranked
<1>4. ASSUME NEW x \in X PROVE \E i \in 1 .. n : sorted[i] = x
  <2>1. PICK m \in 1 .. n : x = seq[m]
    BY <1>2 DEF ToSet
  <2> QED BY <1>3, <2>1
<1>5. Distinct(sorted)
  <2> SUFFICES ASSUME NEW i \in 1 .. n, NEW j \in 1 .. n, sorted[i] = sorted[j], i # j PROVE FALSE
    BY <1>3 DEF Distinct
  <2>1. sorted[i] \in X /\ sorted[j] \in X
    BY <1>3
  <2>2. i < j \/ j < i
    BY <1>2
  <2>3. Precedes(sorted[i], sorted[j], score, seq)
    BY <1>3, <2>2
  <2> QED BY <2>1, <2>3, OrderIsStrict
<1> QED BY <1>3, <1>4, <1>5

-----------------------------------------------------------------------------
(* Rankings. *)

\* The order of the providers: those that may have the block first, and within
\* a group the order of the sort.
Ahead(p, q, mayHave, score, found) ==
    \/ p \in mayHave /\ q \notin mayHave
    \/ (p \in mayHave) = (q \in mayHave) /\ Precedes(p, q, score, found)

\* The ranking lists the providers in that order.
LEMMA RankedAhead ==
    ASSUME NEW X, NEW found \in Seq(X), Distinct(found), ToSet(found) = X,
           NEW score \in [X -> Fractions], NEW mayHave,
           NEW ranked, ranked = BoostCached(SortByScore(found, score), mayHave)
    PROVE  /\ ranked \in Seq(X) /\ \A x \in X : \E i \in 1 .. Len(ranked) : ranked[i] = x
           /\ \A i, j \in 1 .. Len(ranked) : i < j =>
                  Ahead(ranked[i], ranked[j], mayHave, score, found)
<1> DEFINE sorted == SortByScore(found, score)
           rest == ToSet(sorted) \ mayHave
           A == Only(sorted, mayHave)
           B == Only(sorted, rest)
           n == Len(sorted)
           a == Len(A)
           b == Len(B)
<1>1. /\ sorted \in Seq(X) /\ Distinct(sorted)
      /\ \A x \in X : \E i \in 1 .. n : sorted[i] = x
      /\ \A i, j \in 1 .. n : i < j => Precedes(sorted[i], sorted[j], score, found)
  BY SortResult
<1>2. ranked = A \o B
  BY DEF BoostCached
<1>3. Filtered(A, n, sorted, mayHave, X) /\ Filtered(B, n, sorted, rest, X)
  BY <1>1, OnlyFilters
<1>4. ASSUME NEW x \in X PROVE x \in ToSet(sorted)
  <2> HIDE DEF sorted
  <2>1. DOMAIN sorted = 1 .. n
    BY <1>1
  <2> QED BY <1>1, <2>1 DEF ToSet
<1>5. \A x \in X : x \in rest <=> x \notin mayHave
  BY <1>4
<1> HIDE DEF A, B, sorted, rest
<1>6. A \in Seq(X) /\ B \in Seq(X) /\ a \in Nat /\ b \in Nat
  BY <1>3 DEF Filtered
<1>7. /\ \A i \in 1 .. a : A[i] \in mayHave
      /\ \A i \in 1 .. b : B[i] \notin mayHave
  BY <1>3, <1>5, <1>6 DEF Filtered
<1>8. /\ ranked \in Seq(X) /\ Len(ranked) = a + b
      /\ \A i \in 1 .. a : ranked[i] = A[i] /\ i \in 1 .. a + b
      /\ \A i \in 1 .. b : ranked[a + i] = B[i] /\ a + i \in 1 .. a + b
  BY <1>2, <1>6
<1> HIDE DEF a, b, n
<1>9. ASSUME NEW x \in X PROVE \E i \in 1 .. a + b : ranked[i] = x
  <2>1. PICK m \in 1 .. n : sorted[m] = x
    BY <1>1
  <2>2. CASE x \in mayHave
    <3>1. PICK i \in 1 .. a : A[i] = x
      BY <1>3, <2>1, <2>2 DEF Filtered, a
    <3> QED BY <1>8, <3>1
  <2>3. CASE x \notin mayHave
    <3>1. PICK i \in 1 .. b : B[i] = x
      BY <1>3, <1>5, <2>1, <2>3 DEF Filtered, b
    <3> QED BY <1>8, <3>1
  <2> QED BY <2>2, <2>3
<1>10. ASSUME NEW p, NEW q, Earlier(p, q, sorted) PROVE Precedes(p, q, score, found)
  BY <1>1, <1>10 DEF Earlier, n
<1>11. ASSUME NEW i \in 1 .. a + b, NEW j \in 1 .. a + b, i < j
       PROVE  Ahead(ranked[i], ranked[j], mayHave, score, found)
  <2>1. CASE j <= a
    <3>1. i \in 1 .. a /\ j \in 1 .. a
      BY <1>6, <1>11, <2>1
    <3>2. Earlier(A[i], A[j], sorted)
      BY <1>3, <1>11, <3>1 DEF Filtered, a
    <3> QED BY <1>7, <1>8, <1>10, <3>1, <3>2 DEF Ahead
  <2>2. CASE i <= a /\ ~(j <= a)
    <3> DEFINE l == j - a
    <3>1. i \in 1 .. a /\ l \in 1 .. b /\ a + l = j
      BY <1>6, <2>2
    <3> HIDE DEF l
    <3>2. ranked[i] = A[i] /\ ranked[j] = B[l]
      BY <1>8, <3>1
    <3> QED BY <1>7, <3>1, <3>2 DEF Ahead
  <2>3. CASE ~(i <= a)
    <3> DEFINE k == i - a
               l == j - a
    <3>1. k \in 1 .. b /\ l \in 1 .. b /\ a + k = i /\ a + l = j /\ k < l
      BY <1>6, <1>11, <2>3
    <3> HIDE DEF k, l
    <3>2. ranked[i] = B[k] /\ ranked[j] = B[l]
      BY <1>8, <3>1
    <3>3. Earlier(B[k], B[l], sorted)
      BY <1>3, <3>1 DEF Filtered, b
    <3> QED BY <1>7, <1>10, <3>1, <3>2, <3>3 DEF Ahead
  <2> QED BY <2>1, <2>2, <2>3
<1> QED BY <1>8, <1>9, <1>11

\* The ranking of the providers is stable in every state, whatever the scores.
THEOREM RankingStays == Spec => []RankingIsStable
<1>1. Inv => RankingIsStable
  <2> SUFFICES ASSUME Inv, NEW found \in SetToSeqs(Paths), NEW mayHave \in SUBSET Paths
               PROVE  LET ranked == BoostCached(SortProviders(found), mayHave)
                          Before(p, q, seq) == \E i, j \in DOMAIN seq :
                                                   i < j /\ seq[i] = p /\ seq[j] = q
                      IN  /\ Len(ranked) = Len(found) /\ ToSet(ranked) = Paths
                          /\ \A p, q \in Paths : p # q =>
                                 (Before(p, q, ranked) <=>
                                     \/ p \in mayHave /\ q \notin mayHave
                                     \/ /\ (p \in mayHave) = (q \in mayHave)
                                        /\ \/ Greater(ProviderScore(p), ProviderScore(q))
                                           \/ /\ ~Greater(ProviderScore(q), ProviderScore(p))
                                              /\ Before(p, q, found))
    BY DEF RankingIsStable
  <2> DEFINE ranked == BoostCached(SortProviders(found), mayHave)
             score == [p \in ToSet(found) |-> ProviderScore(p)]
             Before(p, q, seq) == \E i, j \in DOMAIN seq : i < j /\ seq[i] = p /\ seq[j] = q
  <2>1. /\ found \in Seq(Paths) /\ Len(found) = Cardinality(Paths) /\ Distinct(found)
        /\ ToSet(found) = Paths
    BY SelectionAssumption, ListingOf
  <2>2. score \in [Paths -> Fractions] /\ \A p \in Paths : score[p] = ProviderScore(p)
    <3>1. \A p \in Paths : ProviderScore(p) \in Fractions
      BY ScoreTypes DEF Inv
    <3> QED BY <2>1, <3>1
  <2>3. ranked = BoostCached(SortByScore(found, score), mayHave)
    BY DEF SortProviders
  <2> HIDE DEF score, ranked
  <2>4. /\ ranked \in Seq(Paths) /\ \A x \in Paths : \E i \in 1 .. Len(ranked) : ranked[i] = x
        /\ \A i, j \in 1 .. Len(ranked) : i < j =>
               Ahead(ranked[i], ranked[j], mayHave, score, found)
    BY <2>1, <2>2, <2>3, RankedAhead
  <2>5. ASSUME NEW p \in Paths, NEW q \in Paths, Ahead(p, q, mayHave, score, found)
        PROVE  p # q /\ ~Ahead(q, p, mayHave, score, found)
    <3>1. Precedes(p, q, score, found) => p # q /\ ~Precedes(q, p, score, found)
      BY <2>1, <2>2, OrderIsStrict
    <3> QED BY <2>5, <3>1 DEF Ahead
  <2>6. /\ DOMAIN ranked = 1 .. Len(ranked) /\ Len(ranked) \in Nat
        /\ DOMAIN found = 1 .. Len(found)
        /\ \A i \in 1 .. Len(ranked) : ranked[i] \in Paths
    BY <2>1, <2>4
  <2>7. Distinct(ranked)
    <3> SUFFICES ASSUME NEW i \in 1 .. Len(ranked), NEW j \in 1 .. Len(ranked),
                        ranked[i] = ranked[j], i # j
                 PROVE  FALSE
      BY DEF Distinct
    <3>1. i < j \/ j < i
      BY <2>6
    <3>2. Ahead(ranked[i], ranked[j], mayHave, score, found)
      BY <2>4, <3>1
    <3> QED BY <2>5, <2>6, <3>2
  <2>8. ToSet(ranked) = Paths
    BY <2>4, <2>6 DEF ToSet
  <2>9. Len(ranked) = Len(found)
    BY <2>1, <2>4, <2>7, <2>8, DistinctLength
  <2>10. ASSUME NEW p \in Paths, NEW q \in Paths, p # q
         PROVE  Before(p, q, ranked) <=> Ahead(p, q, mayHave, score, found)
    <3>1. ASSUME Before(p, q, ranked) PROVE Ahead(p, q, mayHave, score, found)
      BY <2>4, <2>6, <3>1
    <3>2. ASSUME Ahead(p, q, mayHave, score, found) PROVE Before(p, q, ranked)
      <4>1. PICK i \in 1 .. Len(ranked) : ranked[i] = p
        BY <2>4
      <4>2. PICK j \in 1 .. Len(ranked) : ranked[j] = q
        BY <2>4
      <4>3. i < j
        <5> SUFFICES ASSUME ~(i < j) PROVE FALSE
          OBVIOUS
        <5>1. j < i
          BY <2>6, <2>10, <4>1, <4>2
        <5>2. Ahead(q, p, mayHave, score, found)
          BY <2>4, <4>1, <4>2, <5>1
        <5> QED BY <2>5, <3>2, <5>2
      <4> QED BY <2>6, <4>1, <4>2, <4>3
    <3> QED BY <3>1, <3>2
  <2>11. \A p, q \in Paths : Precedes(p, q, score, found) <=>
             \/ Greater(ProviderScore(p), ProviderScore(q))
             \/ ~Greater(ProviderScore(q), ProviderScore(p)) /\ Before(p, q, found)
    BY <2>2, <2>6 DEF Precedes, Earlier
  <2>12. \A p, q \in Paths : p # q =>
             (Before(p, q, ranked) <=>
                 \/ p \in mayHave /\ q \notin mayHave
                 \/ /\ (p \in mayHave) = (q \in mayHave)
                    /\ \/ Greater(ProviderScore(p), ProviderScore(q))
                       \/ /\ ~Greater(ProviderScore(q), ProviderScore(p))
                          /\ Before(p, q, found))
    <3> HIDE DEF Before
    <3> QED BY <2>10, <2>11 DEF Ahead
  <2> QED BY <2>8, <2>9, <2>12 DEF ranked
<1> QED BY <1>1, Invariance, PTL

\* DisjointPaths leaves out a path only for better ones, in every state and for
\* every policy.
THEOREM DisjointPathsStayBest == Spec => []DisjointPathsAreBest
<1>1. Inv => DisjointPathsAreBest
  <2> SUFFICES ASSUME Inv, NEW t \in Targets, NEW order \in SetToSeqs(Viable(t)),
                      NEW n \in 0 .. Cardinality(Paths)
               PROVE  LET selected == DisjointPaths(order, n)
                          Free(p, q) == Relay(p) = Nil \/ Relay(p) # Relay(q)
                      IN  /\ Len(selected) <= n
                          /\ \A i, j \in DOMAIN selected : i < j =>
                                 /\ Free(selected[i], selected[j])
                                 /\ ~Greater(PolicyScore(selected[j]), PolicyScore(selected[i]))
                          /\ \A p \in Viable(t) \ ToSet(selected) :
                                 LET better == {q \in ToSet(selected) :
                                                    ~Greater(PolicyScore(p), PolicyScore(q))}
                                 IN  Cardinality(better) = n \/ \E q \in better : ~Free(p, q)
    BY DEF DisjointPathsAreBest
  <2> DEFINE selected == DisjointPaths(order, n)
             score == [p \in ToSet(order) |-> PolicyScore(p)]
             sorted == SortByScore(order, score)
             len == Len(selected)
  <2>1. Viable(t) \subseteq Paths /\ IsFiniteSet(Viable(t))
    <3>1. Viable(t) \subseteq Paths
      BY DEF Viable, PathSet, Inv, PathsOK
    <3> QED BY <3>1, SelectionAssumption, FS_Subset
  <2>2. order \in Seq(Viable(t)) /\ Distinct(order) /\ ToSet(order) = Viable(t)
    BY <2>1, ListingOf
  <2>3. score \in [Viable(t) -> Fractions] /\ \A p \in Viable(t) : score[p] = PolicyScore(p)
    <3>1. \A p \in Viable(t) : PolicyScore(p) \in Fractions
      BY <2>1, ScoreTypes DEF Inv
    <3> QED BY <2>2, <3>1
  <2>4. selected = TakeDisjoint(sorted, n) /\ n \in Nat
    BY SelectionAssumption, FS_CardinalityType DEF DisjointPaths
  <2>s. sorted = SortByScore(order, score)
    OBVIOUS
  <2> HIDE DEF score, selected, sorted
  <2>5. /\ sorted \in Seq(Viable(t)) /\ Distinct(sorted)
        /\ \A x \in Viable(t) : \E i \in 1 .. Len(sorted) : sorted[i] = x
        /\ \A i, j \in 1 .. Len(sorted) : i < j => Precedes(sorted[i], sorted[j], score, order)
    BY <2>2, <2>3, <2>s, SortResult
  <2>6. Selected(selected, Len(sorted), sorted, n, Viable(t))
    BY <2>4, <2>5, TakeSelects
  <2>7. /\ selected \in Seq(Viable(t)) /\ len <= n /\ len \in Nat /\ DOMAIN selected = 1 .. len
        /\ \A i \in 1 .. len : selected[i] \in Viable(t)
    BY <2>6 DEF Selected
  <2>8. ASSUME NEW p \in Viable(t), NEW q \in Viable(t), Earlier(p, q, sorted)
        PROVE  p # q /\ ~Greater(PolicyScore(q), PolicyScore(p))
    <3>1. Precedes(p, q, score, order)
      BY <2>5, <2>8 DEF Earlier
    <3>2. p # q /\ ~Precedes(q, p, score, order)
      BY <2>2, <2>3, <3>1, OrderIsStrict
    <3> QED BY <2>3, <3>2 DEF Precedes
  <2> HIDE DEF len
  <2>9. ASSUME NEW i \in 1 .. len, NEW j \in 1 .. len, i < j
        PROVE  /\ selected[i] # selected[j] /\ ~Shares(selected[i], selected[j])
               /\ ~Greater(PolicyScore(selected[j]), PolicyScore(selected[i]))
    <3>1. Earlier(selected[i], selected[j], sorted) /\ ~Shares(selected[i], selected[j])
      BY <2>6, <2>9 DEF Selected, len
    <3> QED BY <2>7, <2>8, <3>1
  <2>10. Distinct(selected)
    <3> SUFFICES ASSUME NEW i \in 1 .. len, NEW j \in 1 .. len, selected[i] = selected[j], i # j
                 PROVE  FALSE
      BY DEF Distinct, len
    <3>1. i < j \/ j < i
      BY <2>7
    <3> QED BY <2>9, <3>1
  <2>11. ASSUME NEW p \in Viable(t) \ ToSet(selected)
         PROVE  LET better == {q \in ToSet(selected) : ~Greater(PolicyScore(p), PolicyScore(q))}
                IN  Cardinality(better) = n \/ \E q \in better : Shares(p, q)
    <3> DEFINE better == {q \in ToSet(selected) : ~Greater(PolicyScore(p), PolicyScore(q))}
    <3>1. PICK m \in 1 .. Len(sorted) : sorted[m] = p
      BY <2>5
    <3>2. \A i \in 1 .. len : selected[i] \in ToSet(selected)
      BY <2>7 DEF ToSet
    <3>3. \/ \E i \in 1 .. len : Earlier(selected[i], p, sorted) /\ Shares(p, selected[i])
          \/ len = n /\ \A i \in 1 .. len : Earlier(selected[i], p, sorted)
      BY <2>6, <3>1, <3>2 DEF Selected, len
    <3>4. \A i \in 1 .. len : Earlier(selected[i], p, sorted) => selected[i] \in better
      BY <2>7, <2>8, <3>2
    <3>5. CASE \E i \in 1 .. len : Earlier(selected[i], p, sorted) /\ Shares(p, selected[i])
      BY <3>4, <3>5
    <3>6. CASE len = n /\ \A i \in 1 .. len : Earlier(selected[i], p, sorted)
      <4>1. better = ToSet(selected)
        BY <2>7, <3>4, <3>6 DEF ToSet
      <4>2. Cardinality(ToSet(selected)) = Len(selected)
        BY <2>7, <2>10, DistinctLength
      <4> QED BY <3>6, <4>1, <4>2 DEF len
    <3> QED BY <3>3, <3>5, <3>6
  <2> QED BY <2>7, <2>9, <2>11 DEF Shares, selected, len
<1> QED BY <1>1, Invariance, PTL

-----------------------------------------------------------------------------
(* Paths that answered. *)

Answered(p) == metrics[p].rttSamples # << >>

\* The success rate of a path is not 0 if and only if it answered, except while
\* the rate of its first answer has yet to be written.
RatesOK ==
    /\ \A p \in Paths :
           /\ \A i \in 1 .. Len(metrics[p].rttSamples) : metrics[p].rttSamples[i] >= 1
           /\ metrics[p].SampleCount = 0 => ~Answered(p)
           /\ metrics[p].SuccessRate > 0 => Answered(p)
           /\ Answered(p) => metrics[p].SuccessRate > 0 \/ p = recording[1]
    /\ recording # NotRecording => (recording[2] > 0 <=> Answered(recording[1]))

\* What RecordProbe writes, given a record in which rate and samples agree.
LEMMA ResultAnswers ==
    ASSUME PathsOK, RatesOK, NEW p \in Paths, NEW rtt \in Nat, recording[1] # p
    PROVE  LET n == Result(p, rtt)
           IN  /\ \A i \in 1 .. Len(n.rttSamples) : n.rttSamples[i] >= 1
               /\ n.SuccessRate > 0 <=> n.rttSamples # << >>
               /\ Answered(p) => n.rttSamples # << >>
<1> DEFINE old == metrics[p]
           m == IF rtt > 0 THEN [old EXCEPT !.HopCount = 1] ELSE old
           s == old.rttSamples
           new == IF rtt > 0 THEN KeepRecent(Append(s, rtt)) ELSE s
           rate == old.SuccessRate
           n == Result(p, rtt)
<1>1. old \in Measured
  BY DEF PathsOK
<1>2. /\ m \in Measured /\ m.rttSamples = s /\ m.SuccessRate = rate
      /\ m.SampleCount = old.SampleCount
  BY <1>1 DEF Measured
<1>3. /\ s \in Seq(Nat) /\ rate \in Nat /\ RateUnit \in Nat /\ RateUnit >= 100
      /\ MaxRTTSamples \in Nat /\ MaxRTTSamples >= 1
  BY <1>1, MetricsAssumption DEF Measured
<1>4. /\ \A i \in 1 .. Len(s) : s[i] >= 1 /\ (old.SampleCount = 0 => s = << >>)
      /\ rate > 0 <=> s # << >>
  BY DEF RatesOK, Answered
<1>5. n = RecordProbe(m, rtt, rtt > 0, 0)
  BY DEF Result
<1> HIDE DEF m, old
<1>6. n.rttSamples = new /\ n.SuccessRate = NewRate(m, rtt > 0)
  <2>1. /\ DOMAIN m = {"rttSamples", "HopCount", "SuccessRate", "LastProbed", "SampleCount"}
        /\ m = [x \in DOMAIN m |-> m[x]]
    BY <1>2 DEF Measured
  <2> DEFINE now == 0
             count == m.SampleCount + 1
             nr == NewRate(m, rtt > 0)
             ns == IF rtt > 0 THEN KeepRecent(Append(m.rttSamples, rtt)) ELSE m.rttSamples
  <2>2. n = [m EXCEPT !.LastProbed = now, !.SampleCount = count, !.rttSamples = ns,
                      !.SuccessRate = nr]
    BY <1>5 DEF RecordProbe
  <2>3. ns = new
    BY <1>2
  <2> HIDE DEF n, nr, ns, count, now
  <2>4. n.rttSamples = ns /\ n.SuccessRate = nr
    BY <2>1, <2>2
  <2> QED BY <2>3, <2>4 DEF nr
<1> HIDE DEF n, s, rate
<1>7. CASE rtt > 0
  <2> DEFINE a == Append(s, rtt)
  <2>1. /\ a \in Seq(Nat) /\ Len(a) = Len(s) + 1 /\ Len(s) \in Nat
        /\ \A i \in 1 .. Len(a) : a[i] >= 1
    <3>1. a \in Seq(Nat) /\ Len(a) = Len(s) + 1 /\ Len(s) \in Nat
      BY <1>3
    <3>2. ASSUME NEW i \in 1 .. Len(a) PROVE a[i] >= 1
      <4>1. a[i] = IF i <= Len(s) THEN s[i] ELSE rtt
        BY <1>3, <3>1
      <4>2. i <= Len(s) => i \in 1 .. Len(s)
        BY <3>1
      <4> HIDE DEF a
      <4> QED BY <1>4, <1>7, <4>1, <4>2
    <3> QED BY <3>1, <3>2
  <2>2. new = KeepRecent(a)
    BY <1>7
  <2> HIDE DEF a, new
  <2>3. new # << >> /\ \A i \in 1 .. Len(new) : new[i] >= 1
    <3>1. CASE Len(a) > MaxRTTSamples
      <4>1. new = Tail(a) /\ a # << >>
        BY <2>1, <2>2, <3>1 DEF KeepRecent
      <4>2. Len(Tail(a)) = Len(a) - 1 /\ \A i \in 1 .. Len(a) - 1 : Tail(a)[i] = a[i + 1]
        BY <2>1, <4>1
      <4>3. Len(a) \in Nat /\ Len(new) = Len(a) - 1
        BY <2>1, <4>1, <4>2
      <4>4. Len(new) >= 1
        BY <1>3, <2>1, <3>1, <4>3
      <4>5. ASSUME NEW i \in 1 .. Len(new) PROVE new[i] >= 1
        <5>1. i \in 1 .. Len(a) - 1 /\ i + 1 \in 1 .. Len(a)
          BY <4>3
        <5>2. new[i] = a[i + 1]
          BY <4>1, <4>2, <5>1
        <5> QED BY <2>1, <5>1, <5>2
      <4> QED BY <4>4, <4>5
    <3>2. CASE ~(Len(a) > MaxRTTSamples)
      <4>1. new = a
        BY <2>2, <3>2 DEF KeepRecent
      <4> QED BY <2>1, <4>1
    <3> QED BY <3>1, <3>2
  <2>4. NewRate(m, rtt > 0) > 0
    <3>1. (3 * RateUnit + 7 * rate + 5) \div 10 > 0
      BY <1>3
    <3> QED BY <1>2, <1>3, <1>7, <3>1 DEF NewRate
  <2> QED BY <1>6, <2>3, <2>4 DEF n
<1>8. CASE ~(rtt > 0)
  <2>1. new = s
    BY <1>8
  <2>2. NewRate(m, rtt > 0) > 0 <=> rate > 0
    <3>1. CASE m.SampleCount = 0
      <4>1. rate = 0 \/ ~(rate > 0)
        BY <1>2, <1>4, <3>1
      <4> QED BY <1>8, <3>1, <4>1 DEF NewRate
    <3>2. CASE m.SampleCount # 0
      <4>1. (3 * 0 + 7 * rate + 5) \div 10 > 0 <=> rate > 0
        BY <1>3
      <4> QED BY <1>2, <1>8, <3>2, <4>1 DEF NewRate
    <3> QED BY <3>1, <3>2
  <2> QED BY <1>4, <1>6, <2>1, <2>2 DEF Answered, n, s, old
<1> QED BY <1>7, <1>8

\* While measurements decide, calls only scan.
Measuring == policy \in {"latency", "reliability"}

\* The paths that had answered are still so when the scan comes to them, and
\* then the best so far is one that answered.
AnsweringOK(c) ==
    /\ c.pc \in {"idle", "done", "scan"}
    /\ \A p \in c.answering : p \in known /\ Answered(p) /\ metrics[p].SuccessRate > 0
    /\ c.pc \in {"idle", "done"} => c.answering = {}
    /\ c.pc = "scan" =>
           /\ c.bestScore \in Fractions
           /\ c.bestScore[1] > 0 => c.best \in Paths /\ Answered(c.best)
           /\ \A p \in c.answering : \E i \in 1 .. Len(c.paths) : c.paths[i] = p
           /\ (\E i \in 1 .. c.k - 1 : c.paths[i] \in c.answering) => c.bestScore[1] > 0

SilentInv == RatesOK /\ (Measuring => \A g \in Callers : AnsweringOK(call[g]))

\* A probe is recorded: rates follow the samples, and no answer is forgotten.
LEMMA ProbeRates ==
    ASSUME Inv, RatesOK, ProbeStep
    PROVE  /\ RatesOK'
           /\ \A p \in Paths : /\ Answered(p) => Answered(p)'
                               /\ Answered(p) /\ metrics[p].SuccessRate > 0 =>
                                      metrics'[p].SuccessRate > 0
<1>0. /\ known \subseteq Paths /\ metrics \in [Paths -> Measured] /\ Nil \notin Paths
      /\ recording = NotRecording \/ recording \in known \X (0 .. RateUnit)
      /\ \A q \in Paths : metrics[q].SuccessRate \in Nat
  BY SelectionAssumption, MetricsAssumption DEF Inv, PathsOK, Measured
<1>1. ASSUME NEW p \in Paths, NEW rtt \in RTTs \cup {0}, AddPath(p, rtt)
      PROVE  /\ RatesOK'
             /\ \A q \in Paths : /\ Answered(q) => Answered(q)'
                                 /\ Answered(q) /\ metrics[q].SuccessRate > 0 =>
                                        metrics'[q].SuccessRate > 0
  <2> DEFINE n == Result(p, rtt)
  <2>1. rtt \in Nat /\ recording[1] # p /\ recording' = recording
        /\ metrics' = [metrics EXCEPT ![p] = n]
    BY <1>0, <1>1, SelectionAssumption DEF AddPath, NotRecording
  <2>2. /\ n \in Measured /\ n.SampleCount >= 1
        /\ \A i \in 1 .. Len(n.rttSamples) : n.rttSamples[i] >= 1
        /\ n.SuccessRate > 0 <=> n.rttSamples # << >>
        /\ Answered(p) => n.rttSamples # << >>
    BY <2>1, ResultType, ResultAnswers DEF Inv
  <2> HIDE DEF n
  <2>3. metrics'[p] = n /\ \A q \in Paths \ {p} : metrics'[q] = metrics[q]
    BY <1>0, <2>1
  <2>4. n.SampleCount # 0
    BY <2>2
  <2>5. ASSUME NEW q \in Paths
        PROVE  /\ \A i \in 1 .. Len(metrics'[q].rttSamples) : metrics'[q].rttSamples[i] >= 1
               /\ metrics'[q].SampleCount = 0 => ~Answered(q)'
               /\ metrics'[q].SuccessRate > 0 => Answered(q)'
               /\ Answered(q)' => metrics'[q].SuccessRate > 0 \/ q = recording'[1]
    BY <2>1, <2>2, <2>3, <2>4 DEF RatesOK, Answered
  <2>6. recording' # NotRecording => (recording'[2] > 0 <=> Answered(recording[1])')
    <3>1. recording # NotRecording => recording[1] \in Paths \ {p}
      BY <1>0, <2>1
    <3> QED BY <2>1, <2>3, <3>1 DEF RatesOK, Answered
  <2>7. RatesOK'
    BY <2>5, <2>6 DEF RatesOK, NotRecording
  <2>8. \A q \in Paths : /\ Answered(q) => Answered(q)'
                         /\ Answered(q) /\ metrics[q].SuccessRate > 0 => metrics'[q].SuccessRate > 0
    BY <2>2, <2>3 DEF Answered
  <2> QED BY <2>7, <2>8
<1>2. ASSUME NEW p \in Paths, NEW rtt \in RTTs \cup {0}, RecordSample(p, rtt)
      PROVE  /\ RatesOK'
             /\ \A q \in Paths : /\ Answered(q) => Answered(q)'
                                 /\ Answered(q) /\ metrics[q].SuccessRate > 0 =>
                                        metrics'[q].SuccessRate > 0
  <2> DEFINE n == Result(p, rtt)
             rate == metrics[p].SuccessRate
             m == [n EXCEPT !.SuccessRate = rate]
  <2>1. rtt \in Nat /\ recording[1] # p /\ recording' = <<p, n.SuccessRate>>
        /\ metrics' = [metrics EXCEPT ![p] = m]
    BY <1>0, <1>2, SelectionAssumption DEF RecordSample, NotRecording
  <2>2. /\ n \in Measured /\ n.SampleCount >= 1
        /\ \A i \in 1 .. Len(n.rttSamples) : n.rttSamples[i] >= 1
        /\ n.SuccessRate > 0 <=> n.rttSamples # << >>
        /\ Answered(p) => n.rttSamples # << >>
    BY <2>1, ResultType, ResultAnswers DEF Inv
  <2> HIDE DEF n, rate
  <2>3. m.SuccessRate = rate /\ m.rttSamples = n.rttSamples /\ m.SampleCount = n.SampleCount
    BY <2>2 DEF Measured
  <2> HIDE DEF m
  <2>4. metrics'[p] = m /\ \A q \in Paths \ {p} : metrics'[q] = metrics[q]
    BY <1>0, <2>1
  <2>5. m.SampleCount # 0 /\ recording'[1] = p /\ recording'[2] = n.SuccessRate
    BY <2>1, <2>2, <2>3
  <2>6. recording = NotRecording
    BY <1>2 DEF RecordSample
  <2>7. ASSUME NEW q \in Paths
        PROVE  /\ \A i \in 1 .. Len(metrics'[q].rttSamples) : metrics'[q].rttSamples[i] >= 1
               /\ metrics'[q].SampleCount = 0 => ~Answered(q)'
               /\ metrics'[q].SuccessRate > 0 => Answered(q)'
               /\ Answered(q)' => metrics'[q].SuccessRate > 0 \/ q = recording'[1]
    <3>1. CASE q = p
      BY <2>2, <2>3, <2>4, <2>5, <3>1 DEF RatesOK, Answered, rate
    <3>2. CASE q # p
      <4>1. q # recording[1]
        BY <1>0, <2>6 DEF NotRecording
      <4> QED BY <2>4, <3>2, <4>1 DEF RatesOK, Answered
    <3> QED BY <3>1, <3>2
  <2>8. recording' # NotRecording => (recording'[2] > 0 <=> Answered(recording[1])')
    BY <2>2, <2>3, <2>4, <2>5 DEF Answered
  <2>9. RatesOK'
    BY <2>7, <2>8 DEF RatesOK, NotRecording
  <2>10. \A q \in Paths : /\ Answered(q) => Answered(q)'
                          /\ Answered(q) /\ metrics[q].SuccessRate > 0 =>
                                 metrics'[q].SuccessRate > 0
    BY <2>2, <2>3, <2>4 DEF Answered, rate
  <2> QED BY <2>9, <2>10
<1>3. ASSUME RecordRate
      PROVE  /\ RatesOK'
             /\ \A q \in Paths : /\ Answered(q) => Answered(q)'
                                 /\ Answered(q) /\ metrics[q].SuccessRate > 0 =>
                                        metrics'[q].SuccessRate > 0
  <2> DEFINE p == recording[1]
             rate == recording[2]
             m == [metrics[p] EXCEPT !.SuccessRate = rate]
  <2>1. p \in Paths /\ rate \in Nat /\ recording # NotRecording
    BY <1>0, <1>3, MetricsAssumption DEF RecordRate
  <2>2. recording' = NotRecording /\ metrics' = [metrics EXCEPT ![p] = m]
    BY <1>3 DEF RecordRate
  <2>3. rate > 0 <=> Answered(p)
    BY <2>1 DEF RatesOK
  <2> HIDE DEF p, rate
  <2>4. /\ m.SuccessRate = rate /\ m.rttSamples = metrics[p].rttSamples
        /\ m.SampleCount = metrics[p].SampleCount
    <3>1. metrics[p] \in Measured
      BY <1>0, <2>1
    <3> QED BY <3>1 DEF Measured
  <2> HIDE DEF m
  <2>5. metrics'[p] = m /\ \A q \in Paths \ {p} : metrics'[q] = metrics[q]
    BY <1>0, <2>1, <2>2
  <2>6. ASSUME NEW q \in Paths
        PROVE  /\ \A i \in 1 .. Len(metrics'[q].rttSamples) : metrics'[q].rttSamples[i] >= 1
               /\ metrics'[q].SampleCount = 0 => ~Answered(q)'
               /\ metrics'[q].SuccessRate > 0 => Answered(q)'
               /\ Answered(q)' => metrics'[q].SuccessRate > 0 \/ q = recording'[1]
    <3>1. CASE q = p
      BY <2>3, <2>4, <2>5, <3>1 DEF RatesOK, Answered
    <3>2. CASE q # p
      BY <2>5, <3>2 DEF RatesOK, Answered, p
    <3> QED BY <3>1, <3>2
  <2>7. RatesOK'
    BY <2>2, <2>6 DEF RatesOK, NotRecording
  <2>8. \A q \in Paths : /\ Answered(q) => Answered(q)'
                         /\ Answered(q) /\ metrics[q].SuccessRate > 0 => metrics'[q].SuccessRate > 0
    BY <2>3, <2>4, <2>5 DEF Answered
  <2> QED BY <2>7, <2>8
<1> QED BY <1>1, <1>2, <1>3 DEF ProbeStep

\* By latency and by reliability, only a path that answered has a score above
\* 0, and one with a success rate above 0 has.
LEMMA ScoreTells ==
    ASSUME PathsOK, RatesOK, Measuring, NEW p \in known, NEW s \in Scores(metrics[p])
    PROVE  /\ s \in Fractions /\ (s[1] > 0 => Answered(p))
           /\ metrics[p].SuccessRate > 0 => s[1] > 0
<1> DEFINE m == metrics[p]
<1>1. p \in Paths /\ m \in Measured /\ m.SampleCount >= 1
  BY DEF PathsOK
<1>2. s \in Fractions
  BY <1>1, ScoresType
<1>3. m.SampleCount # 0 /\ m.rttSamples \in Seq(Nat) /\ m.SuccessRate \in Nat
  BY <1>1 DEF Measured
<1>4. /\ \A i \in 1 .. Len(m.rttSamples) : m.rttSamples[i] >= 1
      /\ m.SuccessRate > 0 => m.rttSamples # << >>
  BY <1>1 DEF RatesOK, Answered
<1> HIDE DEF m
<1>5. AvgRTT(m) = 0 <=> m.rttSamples = << >>
  BY <1>3, <1>4, StatisticsType
<1>6. CASE policy = "latency"
  <2>1. s = LatencyScore(m)
    BY <1>3, <1>6 DEF Scores, m
  <2>2. s = IF AvgRTT(m) = 0 THEN <<0, 1>> ELSE <<1, AvgRTT(m)>>
    BY <2>1 DEF LatencyScore
  <2>3. s[1] = IF AvgRTT(m) = 0 THEN 0 ELSE 1
    BY <2>2
  <2> QED BY <1>2, <1>4, <1>5, <2>3 DEF Answered, m
<1>7. CASE policy = "reliability"
  <2>1. s = ReliabilityScore(m)
    BY <1>3, <1>7 DEF Scores, m
  <2>2. s[1] = m.SuccessRate
    BY <2>1 DEF ReliabilityScore
  <2> QED BY <1>2, <1>4, <2>2 DEF Answered, m
<1> QED BY <1>6, <1>7 DEF Measuring

\* Products with a positive number.
LEMMA SignOfProduct ==
    ASSUME NEW a \in Int, NEW y \in Nat \ {0}
    PROVE  a * y > 0 <=> a > 0
<1>1. CASE a > 0
  <2>1. a \in Nat \ {0} /\ a * y \in Nat \ {0}
    BY <1>1
  <2> QED BY <1>1, <2>1
<1>2. CASE ~(a > 0)
  <2>1. a <= 0
    BY <1>2
  <2>2. a * y <= 0 * y /\ 0 * y = 0 /\ a * y \in Int
    BY <2>1, Monotone
  <2> QED BY <1>2, <2>2
<1> QED BY <1>1, <1>2

\* Of two scores the one that is kept is above 0 if one of them is.
LEMMA KeptScore ==
    ASSUME NEW s \in Fractions, NEW t \in Fractions
    PROVE  /\ Greater(s, t) /\ t[1] > 0 => s[1] > 0
           /\ ~Greater(s, t) /\ s[1] > 0 => t[1] > 0
<1> DEFINE a == s[1]
           b == t[1]
           x == s[2]
           y == t[2]
<1>1. a \in Int /\ b \in Int /\ x \in Nat \ {0} /\ y \in Nat \ {0}
  BY DEF Fractions
<1>2. Greater(s, t) <=> a * y > b * x
  BY DEF Greater
<1> HIDE DEF a, b, x, y
<1>3. (a * y > 0 <=> a > 0) /\ (b * x > 0 <=> b > 0) /\ a * y \in Int /\ b * x \in Int
  BY <1>1, SignOfProduct
<1>4. /\ Greater(s, t) /\ b > 0 => a > 0
      /\ ~Greater(s, t) /\ a > 0 => b > 0
  BY <1>2, <1>3
<1> QED BY <1>4 DEF a, b

\* One path of the scan.
LEMMA ScanTells ==
    ASSUME Inv, RatesOK, Measuring, NEW g \in Callers, call[g].pc = "scan", AnsweringOK(call[g]),
           NEW s \in Scores(metrics[call[g].paths[call[g].k]])
    PROVE  LET c    == call[g]
               p    == c.paths[c.k]
               best == IF Better(s, c) THEN p ELSE c.best
               top  == IF Better(s, c) THEN s ELSE c.bestScore
           IN  /\ c.k \in 1 .. Len(c.paths) /\ Len(c.paths) \in Nat
               /\ top \in Fractions /\ (top[1] > 0 => best \in Paths /\ Answered(best))
               /\ (\E i \in 1 .. c.k : c.paths[i] \in c.answering) => top[1] > 0
<1> DEFINE c == call[g]
           p == c.paths[c.k]
<1>1. /\ c.k \in 1 .. Len(c.paths) /\ Len(c.paths) \in Nat /\ p \in known
      /\ \A i \in 1 .. c.k : i \in 1 .. c.k - 1 \/ i = c.k
  <2>1. CallOK(c, known, pathSelections, first)
    BY DEF Inv, CallsOK
  <2>2. c.paths \in Seq(Paths) /\ c.k \in 1 .. Len(c.paths) /\ p \in known
    BY <2>1 DEF CallOK
  <2> QED BY <2>2
<1>2. p \in Paths
  BY <1>1 DEF Inv, PathsOK
<1>3. s \in Fractions /\ (s[1] > 0 => Answered(p)) /\ (metrics[p].SuccessRate > 0 => s[1] > 0)
  BY <1>1, ScoreTells DEF Inv
<1>4. /\ c.bestScore \in Fractions
      /\ c.bestScore[1] > 0 => c.best \in Paths /\ Answered(c.best)
      /\ (\E i \in 1 .. c.k - 1 : c.paths[i] \in c.answering) => c.bestScore[1] > 0
      /\ p \in c.answering => metrics[p].SuccessRate > 0
  BY DEF AnsweringOK
<1>5. /\ Better(s, c) /\ c.bestScore[1] > 0 => s[1] > 0
      /\ ~Better(s, c) /\ s[1] > 0 => c.bestScore[1] > 0
  BY <1>3, <1>4, KeptScore DEF Better
<1>6. (\E i \in 1 .. c.k : c.paths[i] \in c.answering) => c.bestScore[1] > 0 \/ s[1] > 0
  BY <1>1, <1>3, <1>4
<1> HIDE DEF p, c
<1>7. /\ (IF Better(s, c) THEN s ELSE c.bestScore) \in Fractions
      /\ (IF Better(s, c) THEN s ELSE c.bestScore)[1] > 0 =>
             /\ (IF Better(s, c) THEN p ELSE c.best) \in Paths
             /\ Answered(IF Better(s, c) THEN p ELSE c.best)
      /\ (\E i \in 1 .. c.k : c.paths[i] \in c.answering) =>
             (IF Better(s, c) THEN s ELSE c.bestScore)[1] > 0
  <2>1. CASE Better(s, c)
    BY <1>2, <1>3, <1>5, <1>6, <2>1
  <2>2. CASE ~Better(s, c)
    BY <1>4, <1>5, <1>6, <2>2
  <2> QED BY <2>1, <2>2
<1> QED BY <1>1, <1>7 DEF p, c

\* The call that returns.
LEMMA ScanReturns ==
    ASSUME Inv, SilentInv, Measuring, NEW g \in Callers, Scan(g), call[g].answering # {},
           call'[g].pc = "done"
    PROVE  Answered(call'[g].best)
<1> DEFINE c == call[g]
           p == c.paths[c.k]
<1>1. c.pc = "scan" /\ AnsweringOK(c) /\ RatesOK
  BY DEF Scan, At, SilentInv
<1>2. PICK s \in Scores(metrics[p]) :
          LET best == IF Better(s, c) THEN p ELSE c.best
              top  == IF Better(s, c) THEN s ELSE c.bestScore
          IN  IF c.k = Len(c.paths)
              THEN Return(g, best)
              ELSE Become(g, [c EXCEPT !.k = c.k + 1, !.best = best, !.bestScore = top])
  BY DEF Scan
<1> DEFINE best == IF Better(s, c) THEN p ELSE c.best
           top == IF Better(s, c) THEN s ELSE c.bestScore
           d == [c EXCEPT !.k = c.k + 1, !.best = best, !.bestScore = top]
<1>3. /\ c.k \in 1 .. Len(c.paths) /\ Len(c.paths) \in Nat
      /\ top \in Fractions /\ (top[1] > 0 => best \in Paths /\ Answered(best))
      /\ (\E i \in 1 .. c.k : c.paths[i] \in c.answering) => top[1] > 0
  BY <1>1, ScanTells
<1>4. call = [h \in Callers |-> call[h]] /\ c = [f \in Fields |-> c[f]]
  BY DEF Inv, CallsOK, CallOK
<1>5. c.k = Len(c.paths) /\ Return(g, best)
  <2> SUFFICES ASSUME c.k # Len(c.paths) PROVE FALSE
    BY <1>2
  <2>1. call' = [call EXCEPT ![g] = d]
    BY <1>2 DEF Become
  <2> HIDE DEF c, d
  <2>2. call'[g] = d
    BY <1>4, <2>1
  <2>3. d.pc = c.pc
    BY <1>4 DEF d, Fields
  <2> QED BY <1>1, <2>2, <2>3
<1>6. call'[g].best = best
  <2> DEFINE e == [NoCall EXCEPT !.pc = "done", !.best = best]
  <2>1. call' = [call EXCEPT ![g] = e]
    BY <1>5 DEF Return, Become
  <2> HIDE DEF c, p, best
  <2>2. e.best = best
    BY DEF NoCall
  <2> HIDE DEF e
  <2> QED BY <1>4, <2>1, <2>2
<1>7. \E i \in 1 .. c.k : c.paths[i] \in c.answering
  BY <1>1, <1>5 DEF AnsweringOK
<1> HIDE DEF best, top
<1> QED BY <1>3, <1>6, <1>7

\* The scan goes on.
LEMMA ScanAnswers ==
    ASSUME Inv, SilentInv, Measuring, NEW g \in Callers, Scan(g)
    PROVE  \A h \in Callers : AnsweringOK(call'[h])
<1> DEFINE c == call[g]
           p == c.paths[c.k]
<1>1. c.pc = "scan" /\ AnsweringOK(c) /\ RatesOK
  BY DEF Scan, At, SilentInv
<1>2. PICK s \in Scores(metrics[p]) :
          LET best == IF Better(s, c) THEN p ELSE c.best
              top  == IF Better(s, c) THEN s ELSE c.bestScore
          IN  IF c.k = Len(c.paths)
              THEN Return(g, best)
              ELSE Become(g, [c EXCEPT !.k = c.k + 1, !.best = best, !.bestScore = top])
  BY DEF Scan
<1> DEFINE best == IF Better(s, c) THEN p ELSE c.best
           top == IF Better(s, c) THEN s ELSE c.bestScore
           next == c.k + 1
           d == [c EXCEPT !.k = next, !.best = best, !.bestScore = top]
           e == [NoCall EXCEPT !.pc = "done", !.best = best]
<1>3. /\ c.k \in 1 .. Len(c.paths) /\ Len(c.paths) \in Nat
      /\ top \in Fractions /\ (top[1] > 0 => best \in Paths /\ Answered(best))
      /\ (\E i \in 1 .. c.k : c.paths[i] \in c.answering) => top[1] > 0
  BY <1>1, ScanTells
<1>4. call = [h \in Callers |-> call[h]] /\ c = [f \in Fields |-> c[f]]
  BY DEF Inv, CallsOK, CallOK
<1>5. call' = [call EXCEPT ![g] = d] \/ call' = [call EXCEPT ![g] = e]
  BY <1>2 DEF Return, Become
<1> HIDE DEF c, p, best, top, next
<1>6. /\ d.pc = c.pc /\ d.answering = c.answering /\ d.paths = c.paths /\ d.k = next
      /\ d.best = best /\ d.bestScore = top
  BY <1>4 DEF Fields
<1>7. e.pc = "done" /\ e.answering = {}
  BY DEF NoCall
<1> HIDE DEF d, e
<1>8. AnsweringOK(d)
  <2>1. next - 1 = c.k
    BY <1>3 DEF next
  <2> QED BY <1>1, <1>3, <1>6, <2>1 DEF AnsweringOK
<1>9. AnsweringOK(e)
  BY <1>7 DEF AnsweringOK
<1>10. ASSUME NEW h \in Callers PROVE call'[h] = call[h] \/ call'[h] = d \/ call'[h] = e
  BY <1>4, <1>5
<1> QED BY <1>8, <1>9, <1>10 DEF SilentInv

\* A call begins: the paths that answered are among those it lists.
LEMMA BeginAnswers ==
    ASSUME Inv, SilentInv, Measuring, NEW g \in Callers, NEW t \in Targets, Begin(g, t)
    PROVE  \A h \in Callers : AnsweringOK(call'[h])
<1> DEFINE answering == {p \in PathSet(t) : metrics[p].rttSamples # << >>} \ {recording[1]}
<1>1. RatesOK /\ PathsOK
  BY DEF Inv, SilentInv
<1>2. Start = "scan"
  BY DEF Start, Measuring, Plain
<1>3. call = [h \in Callers |-> call[h]]
  BY DEF Inv, CallsOK
<1>4. CASE Become(g, [NoCall EXCEPT !.pc = "done"])
  <2> DEFINE e == [NoCall EXCEPT !.pc = "done"]
  <2>1. e.pc = "done" /\ e.answering = {}
    BY DEF NoCall
  <2>2. call' = [call EXCEPT ![g] = e]
    BY <1>4 DEF Become
  <2> HIDE DEF e
  <2>3. AnsweringOK(e)
    BY <2>1 DEF AnsweringOK
  <2>4. \A h \in Callers : call'[h] = call[h] \/ call'[h] = e
    BY <1>3, <2>2
  <2> QED BY <2>3, <2>4 DEF SilentInv
<1>5. ASSUME NEW order \in SetToSeqs(Viable(t)),
             Become(g, [NoCall EXCEPT !.pc = Start, !.paths = order, !.answering = answering])
      PROVE  \A h \in Callers : AnsweringOK(call'[h])
  <2> DEFINE d == [NoCall EXCEPT !.pc = Start, !.paths = order, !.answering = answering]
  <2>1. call' = [call EXCEPT ![g] = d]
    BY <1>5 DEF Become
  <2>2. Viable(t) = PathSet(t) /\ PathSet(t) \subseteq known
    <3>1. \A p \in known : metrics[p].SampleCount >= 1 /\ metrics[p].SampleCount \in Nat
      BY <1>1 DEF PathsOK, Measured
    <3>2. \A p \in known : metrics[p].SampleCount > 0
      BY <3>1
    <3> QED BY <3>2 DEF Viable, PathSet
  <2>3. PathSet(t) \subseteq Paths /\ known \subseteq Paths /\ IsFiniteSet(PathSet(t))
    BY <1>1, <2>2, SelectionAssumption, FS_Subset DEF PathsOK
  <2>4. \A x \in PathSet(t) : \E i \in 1 .. Len(order) : order[i] = x
    BY <1>5, <2>2, <2>3, ListingOf
  <2>5. \A p \in answering : /\ p \in PathSet(t) /\ p \in known
                            /\ Answered(p) /\ metrics[p].SuccessRate > 0
    BY <1>1, <2>2, <2>3 DEF RatesOK, Answered
  <2> HIDE DEF answering
  <2>6. /\ d.pc = "scan" /\ d.paths = order /\ d.answering = answering /\ d.k = 1
        /\ d.bestScore = NoScore
    BY <1>2 DEF NoCall
  <2>7. NoScore \in Fractions /\ ~(NoScore[1] > 0)
    BY DEF NoScore, Fractions
  <2> HIDE DEF d
  <2>8. AnsweringOK(d)
    <3>1. 1 .. d.k - 1 = {}
      BY <2>6
    <3> QED BY <2>4, <2>5, <2>6, <2>7, <3>1 DEF AnsweringOK
  <2>9. \A h \in Callers : call'[h] = call[h] \/ call'[h] = d
    BY <1>3, <2>1
  <2> QED BY <2>8, <2>9 DEF SilentInv
<1> HIDE DEF answering
<1>6. \/ Become(g, [NoCall EXCEPT !.pc = "done"])
      \/ \E order \in SetToSeqs(Viable(t)) :
             Become(g, [NoCall EXCEPT !.pc = Start, !.paths = order, !.answering = answering])
  BY DEF Begin, answering
<1> QED BY <1>4, <1>5, <1>6

\* Every step keeps it.
LEMMA SilentStep ==
    ASSUME Inv, SilentInv, [Next]_vars
    PROVE  SilentInv'
<1>1. ASSUME call' = call, metrics' = metrics, recording' = recording, known' = known,
             policy' = policy
      PROVE  SilentInv'
  BY <1>1 DEF SilentInv, RatesOK, Answered, Measuring, AnsweringOK, NotRecording
<1>2. CASE UNCHANGED vars
  BY <1>1, <1>2 DEF vars, pathset
<1>3. CASE ProbeStep
  <2>1. RatesOK /\ RatesOK'
        /\ \A p \in Paths : /\ Answered(p) => Answered(p)'
                            /\ Answered(p) /\ metrics[p].SuccessRate > 0 =>
                                   metrics'[p].SuccessRate > 0
    BY <1>3, ProbeRates DEF SilentInv
  <2>2. call' = call /\ policy' = policy /\ known \subseteq known' /\ known \subseteq Paths
    BY <1>3 DEF ProbeStep, AddPath, RecordSample, RecordRate, Inv, PathsOK
  <2>3. ASSUME Measuring, NEW g \in Callers PROVE AnsweringOK(call[g])'
    <3> DEFINE c == call[g]
    <3>1. AnsweringOK(c)
      BY <2>3 DEF SilentInv
    <3>2. c' = c
      BY <2>2
    <3>3. \A p \in c.answering : p \in known' /\ Answered(p)' /\ metrics'[p].SuccessRate > 0
      BY <2>1, <2>2, <3>1 DEF AnsweringOK
    <3>4. c.best \in Paths /\ Answered(c.best) => Answered(c.best)'
      <4>1. \A p \in Paths : Answered(p) => Answered(p)'
        BY <2>1
      <4> QED BY <2>2, <4>1 DEF Answered
    <3> QED BY <2>2, <3>1, <3>3, <3>4 DEF AnsweringOK, Answered
  <2> QED BY <2>1, <2>2, <2>3 DEF SilentInv, Measuring
<1>4. ASSUME NEW g \in Callers, CallStep(g) PROVE SilentInv'
  <2>1. metrics' = metrics /\ recording' = recording /\ known' = known /\ policy' = policy
    BY <1>4 DEF CallStep, Begin, Scan, ReadSelections, WriteSelections, Choose, LookForUntried,
                Claim, ReadCount, WriteCount, FirstPrior, SecondPrior, Pick, Update, MapFault,
                pathset
  <2>2. RatesOK'
    BY <2>1 DEF SilentInv, RatesOK, Answered, NotRecording
  <2>3. ASSUME Measuring PROVE \A h \in Callers : AnsweringOK(call[h])'
    <3>1. call[g].pc \in {"idle", "done", "scan"}
      BY <2>3 DEF SilentInv, AnsweringOK
    <3>2. (\E t \in Targets : Begin(g, t)) \/ Scan(g) \/ MapFault(g)
      BY <1>4, <3>1 DEF CallStep, ReadSelections, WriteSelections, Choose, LookForUntried,
                        Claim, ReadCount, WriteCount, FirstPrior, SecondPrior, Pick, Update, At
    <3>3. \A h \in Callers : AnsweringOK(call'[h])
      <4>1. CASE \E t \in Targets : Begin(g, t)
        BY <2>3, <4>1, BeginAnswers
      <4>2. CASE Scan(g)
        BY <2>3, <4>2, ScanAnswers
      <4>3. CASE MapFault(g)
        BY <2>3, <4>3 DEF MapFault, SilentInv
      <4> QED BY <3>2, <4>1, <4>2, <4>3
    <3> QED BY <2>1, <3>3 DEF AnsweringOK, Answered
  <2> QED BY <2>1, <2>2, <2>3 DEF SilentInv, Measuring
<1> QED BY <1>2, <1>3, <1>4 DEF Next

\* The property, of one step.
LEMMA SilentReturn ==
    ASSUME Inv, SilentInv, Next, NEW g \in Callers, Returns(g), Measuring, call[g].answering # {}
    PROVE  metrics[call'[g].best].rttSamples # << >>
<1>1. AnsweringOK(call[g])
  BY DEF SilentInv
<1>2. call[g].pc = "scan"
  BY <1>1 DEF AnsweringOK
<1>3. call'[g].pc = "done"
  BY DEF Returns
<1>4. ASSUME ProbeStep PROVE FALSE
  BY <1>2, <1>3, <1>4 DEF ProbeStep, AddPath, RecordSample, RecordRate
<1>5. PICK h \in Callers : CallStep(h)
  BY <1>4 DEF Next
<1>6. call[h].pc \in {"idle", "done", "scan"}
  BY DEF SilentInv, AnsweringOK
<1>7. (\E t \in Targets : Begin(h, t)) \/ Scan(h) \/ MapFault(h)
  BY <1>5, <1>6 DEF CallStep, ReadSelections, WriteSelections, Choose, LookForUntried,
                    Claim, ReadCount, WriteCount, FirstPrior, SecondPrior, Pick, Update, At
<1>8. h = g
  <2> SUFFICES ASSUME h # g PROVE FALSE
    OBVIOUS
  <2>1. call = [i \in Callers |-> call[i]]
    BY DEF Inv, CallsOK
  <2>2. call' = call \/ \E d : call' = [call EXCEPT ![h] = d]
    BY <1>7 DEF Begin, Scan, MapFault, Return, Become
  <2>3. call'[g] = call[g]
    BY <2>1, <2>2
  <2> QED BY <1>2, <1>3, <2>3
<1>9. Scan(g)
  <2>1. ~\E t \in Targets : Begin(g, t)
    BY <1>2 DEF Begin, Active
  <2>2. ~MapFault(g)
    BY <1>2, <1>3 DEF MapFault
  <2> QED BY <1>7, <1>8, <2>1, <2>2
<1> QED BY <1>3, <1>9, ScanReturns DEF Answered

\* A path that never answered is not returned as long as one that answered is
\* there, however probes and calls interleave.
THEOREM SilentPathsLose == Spec => SilentPathLoses
<1>1. Init => SilentInv
  <2> SUFFICES ASSUME Init PROVE SilentInv
    OBVIOUS
  <2>1. metrics = [p \in Paths |-> NewMetrics] /\ recording = NotRecording
    BY DEF Init
  <2>2. NewMetrics.rttSamples = << >> /\ NewMetrics.SuccessRate = 0
    BY DEF NewMetrics
  <2>3. RatesOK
    BY <2>1, <2>2 DEF RatesOK, Answered
  <2>4. NoCall.pc = "idle" /\ NoCall.answering = {}
    BY DEF NoCall
  <2>5. call = [g \in Callers |-> NoCall]
    BY DEF Init
  <2>6. \A g \in Callers : AnsweringOK(call[g])
    BY <2>4, <2>5 DEF AnsweringOK
  <2> QED BY <2>3, <2>6 DEF SilentInv
<1>2. Inv /\ SilentInv /\ [Next]_vars => SilentInv'
  BY SilentStep
<1>3. Inv /\ SilentInv /\ [Next]_vars =>
          [\A g \in Callers :
               Returns(g) /\ policy \in {"latency", "reliability"} /\ call[g].answering # {} =>
                   metrics[call'[g].best].rttSamples # << >>]_vars
  BY SilentReturn DEF Measuring
<1> QED BY <1>1, <1>2, <1>3, Invariance, PTL DEF Spec, SilentPathLoses

=============================================================================
