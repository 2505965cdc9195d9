--------------------------- MODULE PlatformProofs ---------------------------
(***************************************************************************)
(* Proofs about what the equations stand on: the marks of TimeMarks        *)
(* (TimeMarks), fields of input data (FieldHistory), the regions of the    *)
(* mesh (RegionDB), the profiler (Profiler) and the balance (Balance).     *)
(* Each part gives the hypotheses on its constants, the inductive          *)
(* invariant, one lemma per operation and the theorems.                    *)
(***************************************************************************)
EXTENDS TimeMarks, FieldHistory, RegionDB, Profiler, Balance, TLAPS, SequenceTheorems,
        FiniteSetTheorems, WellFoundedInduction

---------------------------------------------------------------------------
(* Least numbers and iteration. *)

\* Every nonempty set of natural numbers has a least one.
LEMMA LeastNumber ==
  ASSUME NEW S, S \subseteq Nat, S # {}
  PROVE  \E x \in S : \A y \in S : x <= y
<1>1. \E x \in S : \A y \in S : ~ (<<y, x>> \in OpToRel(<, Nat))
  BY NatLessThanWellFounded, WFMin
<1>2. PICK x \in S : \A y \in S : ~ (<<y, x>> \in OpToRel(<, Nat))
  BY <1>1
<1>3. \A y \in S : ~ (y < x)
  BY <1>2 DEF OpToRel
<1> QED BY <1>3

\* The values of a loop that starts with base and makes next[i][x] of x in iteration i
Iterates(f, H, a, b, base, take) ==
  f \in [a .. b -> H] /\ f[a] = base /\ \A i \in (a + 1) .. b : f[i] = take[i][f[i - 1]]

\* A loop over an interval has a value after each of its iterations.
LEMMA LoopHasValues ==
  ASSUME NEW H, NEW a \in Int, NEW b \in Int, a <= b, NEW base \in H,
         NEW take \in [(a + 1) .. b -> [H -> H]]
  PROVE  \E f : Iterates(f, H, a, b, base, take)
<1> DEFINE Bad == {n \in Nat : n <= b - a /\ ~ \E f : Iterates(f, H, a, a + n, base, take)}
<1>1. ASSUME Bad # {} PROVE FALSE
  <2>1. PICK n \in Bad : \A m \in Bad : n <= m
    <3> HIDE DEF Bad
    <3>1. Bad \subseteq Nat
      BY DEF Bad
    <3> QED BY <1>1, <3>1, LeastNumber
  <2>2. CASE n = 0
    <3> DEFINE f == [i \in a .. a |-> base]
    <3>1. Iterates(f, H, a, a + 0, base, take)
      BY DEF Iterates
    <3> QED BY <2>1, <2>2, <3>1
  <2>3. CASE n # 0
    <3>1. n - 1 \in Nat /\ n - 1 <= b - a /\ n - 1 \notin Bad
      BY <2>1, <2>3
    <3>2. PICK f : Iterates(f, H, a, a + (n - 1), base, take)
      BY <3>1
    <3> DEFINE c == a + n
               before == f[c - 1]
               g == [i \in a .. c |-> IF i = c THEN take[c][before] ELSE f[i]]
    <3>3. n \in Nat /\ n >= 1 /\ c \in (a + 1) .. b /\ a + (n - 1) = c - 1 /\ c \in Int
      BY <2>1, <2>3
    <3> HIDE DEF c
    <3>4. Iterates(f, H, a, c - 1, base, take)
      BY <3>2, <3>3
    <3>5. before \in H
      BY <3>3, <3>4 DEF Iterates
    <3>6. take[c][before] \in H
      BY <3>3, <3>5
    <3>7. g \in [a .. c -> H]
      BY <3>3, <3>4, <3>6 DEF Iterates
    <3>8. g[a] = base
      BY <3>3, <3>4 DEF Iterates
    <3>9. ASSUME NEW i \in (a + 1) .. c PROVE g[i] = take[i][g[i - 1]]
      <4>1. CASE i = c
        BY <3>3, <4>1
      <4>2. CASE i # c
        <5>1. i \in (a + 1) .. (c - 1) /\ i - 1 \in a .. (c - 1) /\ i \in a .. (c - 1)
          BY <3>3, <4>2
        <5>2. g[i] = f[i] /\ g[i - 1] = f[i - 1]
          BY <3>3, <5>1
        <5> QED BY <3>4, <5>1, <5>2 DEF Iterates
      <4> QED BY <4>1, <4>2
    <3>10. Iterates(g, H, a, c, base, take)
      <4> HIDE DEF g
      <4> QED BY <3>7, <3>8, <3>9 DEF Iterates
    <3> QED BY <2>1, <3>10 DEF c
  <2> QED BY <2>2, <2>3
<1>2. b - a \in Nat /\ b - a <= b - a /\ a + (b - a) = b
  OBVIOUS
<1>3. b - a \notin Bad
  <2> HIDE DEF Bad
  <2> QED BY <1>1
<1> HIDE DEF Iterates
<1> QED BY <1>2, <1>3

---------------------------------------------------------------------------
(* TimeMarks *)

Mark == [time : Int, types : SUBSET BaseTypes]

\* The times of marks lie between the stoppers, as all numbers lie between the infinities.
Finite(time) == time \in Int /\ Prec - Inf <= time /\ time <= Inf - Prec

\* One list of marks: sorted and separated, between the two stoppers
MarkList(ms) ==
  /\ ms \in Seq(Mark) /\ Len(ms) >= 2
  /\ ms[1] = [time |-> -Inf, types |-> BaseTypes]
  /\ ms[Len(ms)] = [time |-> Inf, types |-> BaseTypes]
  /\ \A i, j \in 1 .. Len(ms) : i < j => ms[i].time + Prec <= ms[j].time

\* A list that has all that another one had
Extends(ms, new) ==
  \A i \in 1 .. Len(ms) : \E j \in 1 .. Len(new) :
    new[j].time = ms[i].time /\ ms[i].types \subseteq new[j].types

\* The mark of a request
Kept(ms, time, types) ==
  \E j \in 1 .. Len(ms) : same_time(ms[j].time, time) /\ types \subseteq ms[j].types

\* What is in a list
LEMMA MarkListType ==
  ASSUME NEW ms, MarkList(ms)
  PROVE  /\ Len(ms) \in Nat /\ Len(ms) >= 2 /\ DOMAIN ms = 1 .. Len(ms) /\ ms \in Seq(Mark)
         /\ 1 \in 1 .. Len(ms) /\ Len(ms) \in 1 .. Len(ms)
         /\ ms[1].time = -Inf /\ ms[1].types = BaseTypes
         /\ ms[Len(ms)].time = Inf /\ ms[Len(ms)].types = BaseTypes
         /\ \A i \in 1 .. Len(ms) : /\ ms[i] \in Mark /\ ms[i].time \in Int
                                    /\ ms[i].types \subseteq BaseTypes
         /\ \A i, j \in 1 .. Len(ms) : i < j => ms[i].time + Prec <= ms[j].time
         /\ \A i, j \in 1 .. Len(ms) : i <= j => ms[i].time <= ms[j].time
<1>1. ms \in Seq(Mark) /\ Len(ms) >= 2
  BY DEF MarkList
<1>2. Len(ms) \in Nat /\ DOMAIN ms = 1 .. Len(ms) /\ \A i \in 1 .. Len(ms) : ms[i] \in Mark
  BY <1>1
<1>3. \A i \in 1 .. Len(ms) : ms[i].time \in Int /\ ms[i].types \subseteq BaseTypes
  BY <1>2 DEF Mark
<1>4. 1 \in 1 .. Len(ms) /\ Len(ms) \in 1 .. Len(ms)
  <2> DEFINE n == Len(ms)
  <2>1. n \in Nat /\ n >= 2
    BY <1>1, <1>2
  <2> HIDE DEF n
  <2>2. 1 \in 1 .. n /\ n \in 1 .. n
    BY <2>1
  <2> QED BY <2>2 DEF n
<1>5. \A i, j \in 1 .. Len(ms) : i < j => ms[i].time + Prec <= ms[j].time
  BY DEF MarkList
<1>6. \A i, j \in 1 .. Len(ms) : i <= j => ms[i].time <= ms[j].time
  <2> SUFFICES ASSUME NEW i \in 1 .. Len(ms), NEW j \in 1 .. Len(ms), i <= j
               PROVE  ms[i].time <= ms[j].time
    OBVIOUS
  <2>1. CASE i = j
    BY <1>3, <2>1
  <2>2. CASE i < j
    <3>1. ms[i].time + Prec <= ms[j].time
      BY <1>5, <2>2
    <3> QED BY <1>3, <3>1, ToleranceAssumption
  <2> QED BY <1>2, <2>1, <2>2
<1>7. ms[1].time = -Inf /\ ms[1].types = BaseTypes /\ ms[Len(ms)].time = Inf /\ ms[Len(ms)].types = BaseTypes
  BY DEF MarkList
<1> QED BY <1>1, <1>2, <1>3, <1>4, <1>5, <1>6, <1>7

\* lower_bound() finds the first mark at or after a time between the stoppers.
LEMMA LowerBound ==
  ASSUME NEW ms, MarkList(ms), NEW time \in Int, -Inf < time, time <= Inf
  PROVE  LET k == lower_bound(ms, time)
         IN  /\ k \in 2 .. Len(ms) /\ ms[k].time >= time
             /\ \A i \in 1 .. Len(ms) : i < k <=> ms[i].time < time
<1> DEFINE I == {i \in 1 .. Len(ms) : ms[i].time >= time}
           k == lower_bound(ms, time)
<1>1. /\ Len(ms) \in Nat /\ Len(ms) \in 1 .. Len(ms) /\ ms[Len(ms)].time = Inf /\ ms[1].time = -Inf
      /\ \A i \in 1 .. Len(ms) : ms[i].time \in Int
      /\ \A i, j \in 1 .. Len(ms) : i <= j => ms[i].time <= ms[j].time
  BY MarkListType
<1>2. Len(ms) \in I /\ I \subseteq Nat
  BY <1>1
<1>3. k = IF I # {} THEN Min(I) ELSE 0
  BY DEF lower_bound, SelectInSeq
<1>4. PICK x \in I : \A y \in I : x <= y
  <2> HIDE DEF I
  <2> QED BY <1>2, LeastNumber
<1>5. k \in I /\ \A y \in I : k <= y
  <2>1. k = CHOOSE z \in I : \A y \in I : z <= y
    BY <1>2, <1>3 DEF Min
  <2> HIDE DEF I, k
  <2> QED BY <1>4, <2>1
<1> HIDE DEF k
<1>6. k \in 1 .. Len(ms) /\ ms[k].time >= time /\ k \in Nat /\ ms[k].time \in Int
  BY <1>1, <1>5
<1>7. k # 1
  BY <1>1, <1>6, ToleranceAssumption
<1>8. ASSUME NEW i \in 1 .. Len(ms) PROVE i < k <=> ms[i].time < time
  <2>1. ms[i].time < time => i < k
    <3> SUFFICES ASSUME ms[i].time < time, k <= i PROVE FALSE
      BY <1>6
    <3>1. ms[k].time <= ms[i].time
      BY <1>1, <1>6
    <3> QED BY <1>1, <1>6, <3>1
  <2>2. i < k => ms[i].time < time
    <3> SUFFICES ASSUME i < k, ms[i].time >= time PROVE FALSE
      BY <1>1
    <3>1. i \in I
      OBVIOUS
    <3>2. k <= i
      <4> HIDE DEF I
      <4> QED BY <1>5, <3>1
    <3> QED BY <1>6, <3>2
  <2> QED BY <2>1, <2>2
<1> QED BY <1>6, <1>7, <1>8 DEF k

\* The elements of a list with one more
LEMMA Inserted ==
  ASSUME NEW S, NEW ms \in Seq(S), NEW k \in 1 .. Len(ms), NEW x \in S
  PROVE  /\ InsertAt(ms, k, x) \in Seq(S) /\ Len(InsertAt(ms, k, x)) = Len(ms) + 1
         /\ InsertAt(ms, k, x)[k] = x
         /\ \A i \in 1 .. Len(ms) : i < k => InsertAt(ms, k, x)[i] = ms[i]
         /\ \A i \in 1 .. Len(ms) : i >= k => InsertAt(ms, k, x)[i + 1] = ms[i]
<1> DEFINE n == Len(ms)
           a == SubSeq(ms, 1, k - 1)
           b == SubSeq(ms, k, n)
           ax == a \o <<x>>
           p == ax \o b
<1>1. n \in Nat /\ k \in Int /\ 1 <= k /\ k <= n /\ \A i \in 1 .. n : ms[i] \in S
  OBVIOUS
<1>2. a \in Seq(S) /\ Len(a) = k - 1 /\ \A i \in 1 .. (k - 1) : a[i] = ms[i]
  <2>1. k - 1 \in Int /\ \A i \in 1 .. (k - 1) : ms[i] \in S
    BY <1>1
  <2>2. /\ a \in Seq(S)
        /\ Len(a) = IF 1 <= k - 1 THEN k - 1 - 1 + 1 ELSE 0
        /\ \A i \in 1 .. k - 1 - 1 + 1 : a[i] = ms[1 + i - 1]
    BY <2>1, SubSeqProperties
  <2> HIDE DEF a
  <2>3. Len(a) = k - 1
    BY <1>1, <2>2
  <2>4. \A i \in 1 .. (k - 1) : i \in 1 .. k - 1 - 1 + 1 /\ 1 + i - 1 = i
    BY <1>1
  <2> QED BY <2>2, <2>3, <2>4
<1>3. b \in Seq(S) /\ Len(b) = n - k + 1 /\ \A i \in 1 .. (n - k + 1) : b[i] = ms[k + i - 1]
  <2>1. \A i \in k .. n : ms[i] \in S
    BY <1>1
  <2> HIDE DEF n
  <2>2. /\ b \in Seq(S) /\ Len(b) = IF k <= n THEN n - k + 1 ELSE 0
        /\ \A i \in 1 .. n - k + 1 : b[i] = ms[k + i - 1]
    BY <1>1, <2>1, SubSeqProperties
  <2> HIDE DEF b
  <2> QED BY <1>1, <2>2
<1> HIDE DEF a, b, n
<1>4. <<x>> \in Seq(S) /\ Len(<<x>>) = 1 /\ <<x>>[1] = x
  OBVIOUS
<1>5. /\ ax \in Seq(S) /\ Len(ax) = k
      /\ \A i \in 1 .. (k - 1) + 1 : ax[i] = IF i <= k - 1 THEN a[i] ELSE <<x>>[i - (k - 1)]
  <2>1. /\ ax \in Seq(S) /\ Len(ax) = Len(a) + Len(<<x>>)
        /\ \A i \in 1 .. Len(a) + Len(<<x>>) : ax[i] = IF i <= Len(a) THEN a[i] ELSE <<x>>[i - Len(a)]
    BY <1>2, <1>4, ConcatProperties
  <2> QED BY <1>1, <1>2, <1>4, <2>1
<1>6. ax[k] = x /\ \A i \in 1 .. (k - 1) : ax[i] = ms[i]
  <2>1. k \in 1 .. (k - 1) + 1 /\ ~ (k <= k - 1) /\ k - (k - 1) = 1
    BY <1>1
  <2>2. \A i \in 1 .. (k - 1) : i \in 1 .. (k - 1) + 1 /\ i <= k - 1
    BY <1>1
  <2>3. ax[k] = <<x>>[k - (k - 1)]
    BY <1>5, <2>1
  <2> QED BY <1>2, <1>4, <1>5, <2>1, <2>2, <2>3
<1> HIDE DEF ax
<1>7. /\ p \in Seq(S) /\ Len(p) = k + (n - k + 1)
      /\ \A i \in 1 .. k + (n - k + 1) : p[i] = IF i <= k THEN ax[i] ELSE b[i - k]
  <2>1. /\ p \in Seq(S) /\ Len(p) = Len(ax) + Len(b)
        /\ \A i \in 1 .. Len(ax) + Len(b) : p[i] = IF i <= Len(ax) THEN ax[i] ELSE b[i - Len(ax)]
    BY <1>3, <1>5, ConcatProperties
  <2> QED BY <1>3, <1>5, <2>1
<1> HIDE DEF p
<1>8. k + (n - k + 1) = n + 1
  BY <1>1
<1>9. p[k] = x
  BY <1>1, <1>6, <1>7, <1>8
<1>10. ASSUME NEW i \in 1 .. n, i < k PROVE p[i] = ms[i]
  <2>1. i \in 1 .. k + (n - k + 1) /\ i <= k /\ i \in 1 .. (k - 1)
    BY <1>1, <1>10
  <2> QED BY <1>6, <1>7, <2>1
<1>11. ASSUME NEW i \in 1 .. n, i >= k PROVE p[i + 1] = ms[i]
  <2>1. i + 1 \in 1 .. k + (n - k + 1) /\ ~ (i + 1 <= k) /\ (i + 1) - k \in 1 .. (n - k + 1)
        /\ k + ((i + 1) - k) - 1 = i
    BY <1>1, <1>11
  <2>2. p[i + 1] = b[(i + 1) - k]
    BY <1>7, <2>1
  <2>3. b[(i + 1) - k] = ms[k + ((i + 1) - k) - 1]
    BY <1>3, <2>1
  <2> QED BY <2>1, <2>2, <2>3
<1>12. InsertAt(ms, k, x) = p
  BY DEF InsertAt, p, ax, a, b, n
<1> QED BY <1>7, <1>8, <1>9, <1>10, <1>11, <1>12 DEF n

\* More bits of one mark between the stoppers
LEMMA TypesAdded ==
  ASSUME NEW ms, MarkList(ms), NEW i \in 1 .. Len(ms), NEW types, types \subseteq BaseTypes
  PROVE  LET new == add_to_type(ms, i, types)
         IN  /\ MarkList(new) /\ Len(new) = Len(ms)
             /\ \A j \in 1 .. Len(ms) : new[j].time = ms[j].time /\ ms[j].types \subseteq new[j].types
             /\ types \subseteq new[i].types
<1> DEFINE new == add_to_type(ms, i, types)
           x == [ms[i] EXCEPT !.types = @ \cup types]
<1>1. /\ Len(ms) \in Nat /\ Len(ms) >= 2 /\ ms \in Seq(Mark)
      /\ 1 \in 1 .. Len(ms) /\ Len(ms) \in 1 .. Len(ms)
      /\ ms[1].time = -Inf /\ ms[1].types = BaseTypes
      /\ ms[Len(ms)].time = Inf /\ ms[Len(ms)].types = BaseTypes
      /\ \A j \in 1 .. Len(ms) : ms[j] \in Mark /\ ms[j].time \in Int /\ ms[j].types \subseteq BaseTypes
  BY MarkListType
<1>2. x \in Mark /\ x.time = ms[i].time /\ x.types = ms[i].types \cup types
  BY <1>1 DEF Mark
<1>3. new = [ms EXCEPT ![i] = x]
  BY DEF add_to_type
<1> HIDE DEF x, new
<1>4. new \in Seq(Mark) /\ Len(new) = Len(ms)
      /\ \A j \in 1 .. Len(ms) : new[j] = IF j = i THEN x ELSE ms[j]
  BY <1>1, <1>2, <1>3, ExceptSeq
<1>5. \A j \in 1 .. Len(ms) : new[j].time = ms[j].time /\ ms[j].types \subseteq new[j].types
                             /\ new[j] \in Mark
  BY <1>1, <1>2, <1>4
<1>6. types \subseteq new[i].types
  BY <1>2, <1>4
<1>7. \A j \in 1 .. Len(ms) : ms[j].types = BaseTypes =>
        new[j] = [time |-> ms[j].time, types |-> BaseTypes]
  BY <1>5 DEF Mark
<1>8. /\ new[1] = [time |-> -Inf, types |-> BaseTypes]
      /\ new[Len(ms)] = [time |-> Inf, types |-> BaseTypes]
  BY <1>1, <1>7
<1>9. \A j, k \in 1 .. Len(ms) : j < k => new[j].time + Prec <= new[k].time
  BY <1>5 DEF MarkList
<1>10. MarkList(new)
  BY <1>1, <1>4, <1>8, <1>9 DEF MarkList
<1> QED BY <1>4, <1>5, <1>6, <1>10 DEF new

\* add() keeps the list sorted and separated, loses no mark and has the mark asked for.
LEMMA AddKeeps ==
  ASSUME NEW ms, MarkList(ms), NEW time, Finite(time), NEW types, types \subseteq BaseTypes
  PROVE  /\ MarkList(add(ms, time, types)) /\ Extends(ms, add(ms, time, types))
         /\ Kept(add(ms, time, types), time, types)
<1> DEFINE k == lower_bound(ms, time)
           i == merged_with(ms, time)
           new == add(ms, time, types)
<1>0. /\ Inf \in Nat /\ Prec \in Nat /\ Prec > 0 /\ time \in Int /\ Prec - Inf <= time
      /\ time <= Inf - Prec /\ -Inf < time /\ time < Inf
  BY ToleranceAssumption DEF Finite
<1>1. /\ Len(ms) \in Nat /\ Len(ms) >= 2 /\ ms \in Seq(Mark)
      /\ 1 \in 1 .. Len(ms) /\ Len(ms) \in 1 .. Len(ms)
      /\ ms[1].time = -Inf /\ ms[1].types = BaseTypes
      /\ ms[Len(ms)].time = Inf /\ ms[Len(ms)].types = BaseTypes
      /\ \A j \in 1 .. Len(ms) : ms[j] \in Mark /\ ms[j].time \in Int /\ ms[j].types \subseteq BaseTypes
      /\ \A j, l \in 1 .. Len(ms) : j < l => ms[j].time + Prec <= ms[l].time
  BY MarkListType
<1>2. /\ k \in 2 .. Len(ms) /\ ms[k].time >= time
      /\ \A j \in 1 .. Len(ms) : j < k <=> ms[j].time < time
  BY <1>0, LowerBound
<1> HIDE DEF k
<1>3. i = IF same_time(ms[k].time, time) THEN k
          ELSE IF k > 1 /\ same_time(ms[k - 1].time, time) THEN k - 1 ELSE 0
  BY DEF merged_with, k
<1>4. k \in Nat /\ k - 1 \in 1 .. Len(ms) /\ k \in 1 .. Len(ms) /\ k > 1
  BY <1>1, <1>2
<1>5. i = 0 \/ (i \in 1 .. Len(ms) /\ same_time(ms[i].time, time))
  BY <1>3, <1>4
<1>6. ASSUME i # 0
      PROVE  MarkList(new) /\ Extends(ms, new) /\ Kept(new, time, types)
  <2>1. i \in 1 .. Len(ms) /\ same_time(ms[i].time, time) /\ i > 0
    BY <1>5, <1>6
  <2>2. new = add_to_type(ms, i, types)
    BY <2>1 DEF add
  <2> HIDE DEF i, new
  <2>3. /\ MarkList(new) /\ Len(new) = Len(ms)
        /\ \A j \in 1 .. Len(ms) : new[j].time = ms[j].time /\ ms[j].types \subseteq new[j].types
        /\ types \subseteq new[i].types
    BY <2>1, <2>2, TypesAdded
  <2>4. Extends(ms, new)
    BY <2>3 DEF Extends
  <2>5. Kept(new, time, types)
    BY <2>1, <2>3 DEF Kept
  <2> QED BY <2>3, <2>4, <2>5
<1>7. ASSUME i = 0
      PROVE  MarkList(new) /\ Extends(ms, new) /\ Kept(new, time, types)
  <2> DEFINE x == [time |-> time, types |-> types]
             n == Len(ms)
  <2>1. ~ same_time(ms[k].time, time) /\ ~ same_time(ms[k - 1].time, time)
    BY <1>3, <1>4, <1>7
  <2>2. new = InsertAt(ms, k, x)
    BY <1>7 DEF add, k
  <2>3. x \in Mark /\ x.time = time /\ x.types = types
    BY <1>0 DEF Mark
  <2> HIDE DEF x, new, i, n
  <2>4. /\ new \in Seq(Mark) /\ Len(new) = n + 1 /\ new[k] = x
        /\ \A j \in 1 .. n : j < k => new[j] = ms[j]
        /\ \A j \in 1 .. n : j >= k => new[j + 1] = ms[j]
    <3> DEFINE p == InsertAt(ms, k, x)
    <3>1. /\ p \in Seq(Mark) /\ Len(p) = Len(ms) + 1 /\ p[k] = x
          /\ \A j \in 1 .. Len(ms) : j < k => p[j] = ms[j]
          /\ \A j \in 1 .. Len(ms) : j >= k => p[j + 1] = ms[j]
      <4>1. ms \in Seq(Mark) /\ k \in 1 .. Len(ms) /\ x \in Mark
        BY <1>1, <1>4, <2>3
      <4> QED BY <4>1, Inserted
    <3> HIDE DEF p
    <3>2. new = p
      BY <2>2 DEF p
    <3> QED BY <3>1, <3>2 DEF n
  <2>5. n \in Nat /\ n >= 2 /\ k \in Nat /\ k >= 2 /\ k <= n
    BY <1>1, <1>2 DEF n
  <2>6. time + Prec <= ms[k].time
    <3>1. ms[k].time \in Int /\ time <= ms[k].time
      BY <1>1, <1>2, <1>4
    <3>2. CASE ms[k].time < Inf
      BY <1>0, <2>1, <3>1, <3>2 DEF same_time
    <3>3. CASE ~ (ms[k].time < Inf)
      BY <1>0, <3>1, <3>3
    <3> QED BY <3>2, <3>3
  <2>7. ms[k - 1].time + Prec <= time
    <3>1. ms[k - 1].time \in Int /\ ms[k - 1].time < time
      BY <1>1, <1>2, <1>4, <2>5
    <3>2. CASE -Inf < ms[k - 1].time
      BY <1>0, <2>1, <3>1, <3>2 DEF same_time
    <3>3. CASE ~ (-Inf < ms[k - 1].time)
      BY <1>0, <3>1, <3>3
    <3> QED BY <3>2, <3>3
  <2>8. \A j \in 1 .. n : j < k => ms[j].time + Prec <= time
    <3> SUFFICES ASSUME NEW j \in 1 .. n, j < k PROVE ms[j].time + Prec <= time
      OBVIOUS
    <3>1. CASE j = k - 1
      BY <2>7, <3>1
    <3>2. CASE j # k - 1
      <4>1. j < k - 1 /\ j \in 1 .. Len(ms)
        BY <2>5, <3>2 DEF n
      <4>2. ms[j].time + Prec <= ms[k - 1].time /\ ms[j].time \in Int /\ ms[k - 1].time \in Int
        BY <1>1, <1>4, <4>1
      <4> QED BY <1>0, <2>7, <4>2
    <3> QED BY <3>1, <3>2
  <2>9. \A j \in 1 .. n : j >= k => time + Prec <= ms[j].time
    <3> SUFFICES ASSUME NEW j \in 1 .. n, j >= k PROVE time + Prec <= ms[j].time
      OBVIOUS
    <3>1. CASE j = k
      BY <2>6, <3>1
    <3>2. CASE j # k
      <4>1. k < j /\ j \in 1 .. Len(ms)
        BY <2>5, <3>2 DEF n
      <4>2. ms[k].time + Prec <= ms[j].time /\ ms[j].time \in Int /\ ms[k].time \in Int
        BY <1>1, <1>4, <4>1
      <4> QED BY <1>0, <2>6, <4>2
    <3> QED BY <3>1, <3>2
  <2>10. ASSUME NEW j \in 1 .. (n + 1)
         PROVE  \/ j < k /\ j \in 1 .. n /\ new[j] = ms[j]
                \/ j = k /\ new[j] = x
                \/ j > k /\ j - 1 \in 1 .. n /\ j - 1 >= k /\ new[j] = ms[j - 1]
    <3>1. CASE j < k
      <4>1. j \in 1 .. n
        BY <2>5, <3>1
      <4>2. new[j] = ms[j]
        BY <2>4, <3>1, <4>1
      <4> QED BY <3>1, <4>1, <4>2
    <3>2. CASE j = k
      BY <2>4, <3>2
    <3>3. CASE j > k
      <4>1. j - 1 \in 1 .. n /\ j - 1 >= k /\ (j - 1) + 1 = j
        BY <2>5, <3>3
      <4>2. new[(j - 1) + 1] = ms[j - 1]
        BY <2>4, <4>1
      <4> QED BY <3>3, <4>1, <4>2
    <3> QED BY <2>5, <3>1, <3>2, <3>3
  <2>11. ASSUME NEW j \in 1 .. (n + 1), NEW l \in 1 .. (n + 1), j < l
         PROVE  new[j].time + Prec <= new[l].time
    <3>1. CASE l < k
      <4>1. j < k /\ j \in 1 .. Len(ms) /\ l \in 1 .. Len(ms) /\ ~ (j > k) /\ j # k
            /\ ~ (l > k) /\ l # k
        BY <2>5, <2>11, <3>1 DEF n
      <4>2. new[j] = ms[j] /\ new[l] = ms[l]
        BY <2>10, <4>1
      <4> QED BY <1>1, <2>11, <4>1, <4>2
    <3>2. CASE l = k
      <4>1. j < k /\ ~ (j > k) /\ j # k
        BY <2>5, <2>11, <3>2
      <4>2. j \in 1 .. n /\ new[j] = ms[j] /\ new[l] = x
        BY <2>4, <2>10, <3>2, <4>1
      <4> QED BY <2>3, <2>8, <4>1, <4>2
    <3>3. CASE l > k /\ j <= k
      <4>1. l - 1 \in 1 .. n /\ l - 1 >= k /\ new[l] = ms[l - 1]
        <5>1. ~ (l < k) /\ l # k
          BY <2>5, <3>3
        <5> QED BY <2>10, <5>1
      <4>2. time + Prec <= ms[l - 1].time /\ ms[l - 1].time \in Int
        BY <1>1, <2>9, <4>1 DEF n
      <4>3. CASE j = k
        BY <2>3, <2>4, <4>1, <4>2, <4>3
      <4>4. CASE j < k
        <5>1. ~ (j > k) /\ j # k
          BY <2>5, <4>4
        <5>2. j \in 1 .. n /\ new[j] = ms[j]
          BY <2>10, <5>1
        <5>3. ms[j].time + Prec <= time /\ ms[j].time \in Int
          BY <1>1, <2>8, <4>4, <5>2 DEF n
        <5> QED BY <1>0, <4>1, <4>2, <5>2, <5>3
      <4> QED BY <2>5, <3>3, <4>3, <4>4
    <3>4. CASE l > k /\ j > k
      <4>1. ~ (j < k) /\ j # k /\ ~ (l < k) /\ l # k
        BY <2>5, <3>4
      <4>2. /\ j - 1 \in 1 .. n /\ new[j] = ms[j - 1]
            /\ l - 1 \in 1 .. n /\ new[l] = ms[l - 1] /\ j - 1 < l - 1
        BY <2>10, <2>11, <4>1
      <4> QED BY <1>1, <4>2 DEF n
    <3> QED BY <2>5, <3>1, <3>2, <3>3, <3>4
  <2>12. new[1] = [time |-> -Inf, types |-> BaseTypes]
    <3>1. 1 \in 1 .. n /\ 1 < k
      BY <2>5
    <3> QED BY <2>4, <3>1 DEF MarkList
  <2>13. new[n + 1] = [time |-> Inf, types |-> BaseTypes]
    <3>1. n \in 1 .. n /\ n >= k
      BY <2>5
    <3> QED BY <2>4, <3>1 DEF MarkList, n
  <2>14. MarkList(new)
    <3>1. \A j, l \in 1 .. Len(new) : j < l => new[j].time + Prec <= new[l].time
      BY <2>4, <2>11
    <3>2. Len(new) >= 2
      BY <2>4, <2>5
    <3> QED BY <2>4, <2>12, <2>13, <3>1, <3>2 DEF MarkList
  <2>15. Extends(ms, new)
    <3> SUFFICES ASSUME NEW j \in 1 .. Len(ms)
                 PROVE  \E l \in 1 .. Len(new) : new[l] = ms[j]
      BY DEF Extends
    <3>1. CASE j < k
      <4>1. j \in 1 .. (n + 1) /\ new[j] = ms[j]
        BY <2>4, <2>5, <3>1 DEF n
      <4> QED BY <2>4, <4>1
    <3>2. CASE j >= k
      <4>1. j + 1 \in 1 .. (n + 1) /\ new[j + 1] = ms[j]
        BY <2>4, <2>5, <3>2 DEF n
      <4> QED BY <2>4, <4>1
    <3> QED BY <2>5, <3>1, <3>2 DEF n
  <2>16. Kept(new, time, types)
    <3>1. same_time(time, time)
      BY <1>0 DEF same_time
    <3>2. k \in 1 .. Len(new)
      BY <2>4, <2>5
    <3> QED BY <2>3, <2>4, <3>1, <3>2 DEF Kept
  <2> QED BY <2>14, <2>15, <2>16
<1> QED BY <1>6, <1>7

\* The two relations of lists compose.
LEMMA ExtendsTrans ==
  ASSUME NEW a, NEW b, NEW c, Extends(a, b), Extends(b, c)
  PROVE  Extends(a, c)
<1> SUFFICES ASSUME NEW i \in 1 .. Len(a)
             PROVE  \E j \in 1 .. Len(c) : c[j].time = a[i].time /\ a[i].types \subseteq c[j].types
  BY DEF Extends
<1>1. PICK k \in 1 .. Len(b) : b[k].time = a[i].time /\ a[i].types \subseteq b[k].types
  BY DEF Extends
<1>2. PICK j \in 1 .. Len(c) : c[j].time = b[k].time /\ b[k].types \subseteq c[j].types
  BY DEF Extends
<1>3. c[j].time = a[i].time /\ a[i].types \subseteq c[j].types
  BY <1>1, <1>2
<1> QED BY <1>3

\* A request stays served by a list that has more.
LEMMA KeptByMore ==
  ASSUME NEW a, NEW b, Extends(a, b), NEW time, NEW types, Kept(a, time, types)
  PROVE  Kept(b, time, types)
<1>1. PICK j \in 1 .. Len(a) : same_time(a[j].time, time) /\ types \subseteq a[j].types
  BY DEF Kept
<1>2. PICK k \in 1 .. Len(b) : b[k].time = a[j].time /\ a[j].types \subseteq b[k].types
  BY DEF Extends
<1>3. same_time(b[k].time, time) /\ types \subseteq b[k].types
  BY <1>1, <1>2
<1> QED BY <1>3 DEF Kept

\* A grid lies between its bounds.
LEMMA GridTimes ==
  ASSUME NEW from \in Int, NEW to \in Int, NEW dt \in Nat, dt > 0, from <= to
  PROVE  /\ Len(grid(from, dt, to)) \in Nat
         /\ DOMAIN grid(from, dt, to) = 1 .. Len(grid(from, dt, to))
         /\ \A i \in 1 .. Len(grid(from, dt, to)) :
              grid(from, dt, to)[i] \in Int /\ from <= grid(from, dt, to)[i] /\ grid(from, dt, to)[i] <= to
<1> DEFINE q == (to - from) \div dt
           g == grid(from, dt, to)
           G == [i \in 1 .. (q + 1) |-> from + (i - 1) * dt]
<1>1. q \in Nat /\ q * dt <= to - from
  OBVIOUS
<1>2. g = G
  BY DEF grid
<1> HIDE DEF q, g
<1>3. ASSUME NEW i \in 1 .. (q + 1)
      PROVE  from + (i - 1) * dt \in Int /\ from <= from + (i - 1) * dt /\ from + (i - 1) * dt <= to
  <2> DEFINE p == (i - 1) * dt
  <2>1. i - 1 \in Nat /\ i - 1 <= q
    BY <1>1
  <2>2. p \in Nat /\ p <= q * dt
    BY <1>1, <2>1
  <2> HIDE DEF p
  <2>3. q * dt \in Nat
    BY <1>1
  <2>4. from + p \in Int /\ from <= from + p /\ from + p <= to
    BY <1>1, <2>2, <2>3
  <2> QED BY <2>4 DEF p
<1>4. G \in Seq(Int) /\ Len(G) = q + 1
  <2>1. \A i \in 1 .. (q + 1) : from + (i - 1) * dt \in Int
    BY <1>3
  <2>2. q + 1 \in Nat
    BY <1>1
  <2>3. G \in [1 .. (q + 1) -> Int]
    BY <2>1
  <2> HIDE DEF G
  <2> QED BY <2>2, <2>3, LenProperties
<1> QED BY <1>1, <1>2, <1>3, <1>4 DEF g

\* add_time_marks() keeps the list and has a mark for every time of the grid.
LEMMA AddGridKeeps ==
  ASSUME NEW ms, MarkList(ms), NEW from, Finite(from), NEW to, Finite(to), NEW dt \in Nat, dt > 0,
         from <= to, NEW types, types \subseteq BaseTypes
  PROVE  LET new == add_time_marks(ms, from, dt, to, types)
         IN  /\ MarkList(new) /\ Extends(ms, new)
             /\ \A i \in DOMAIN grid(from, dt, to) : Kept(new, grid(from, dt, to)[i], types)
<1> DEFINE times == grid(from, dt, to)
           n == Len(times)
           H == {x \in Seq(Mark) : MarkList(x)}
           step == [i \in 1 .. n |-> [x \in H |-> add(x, times[i], types)]]
           Loop(f) == f = [i \in 0 .. n |-> IF i = 0 THEN ms ELSE add(f[i - 1], times[i], types)]
           g == CHOOSE f : Loop(f)
<1>1. n \in Nat /\ DOMAIN times = 1 .. n /\ \A i \in 1 .. n : Finite(times[i])
  <2>1. from \in Int /\ to \in Int
    BY DEF Finite
  <2>2. n \in Nat /\ DOMAIN times = 1 .. n
        /\ \A i \in 1 .. n : times[i] \in Int /\ from <= times[i] /\ times[i] <= to
    BY <2>1, GridTimes
  <2> HIDE DEF times
  <2>3. \A i \in 1 .. n : Finite(times[i])
    BY <2>1, <2>2, ToleranceAssumption DEF Finite
  <2> QED BY <2>2, <2>3
<1> HIDE DEF n, times
<1>2. \A x \in H : MarkList(x)
  OBVIOUS
<1>3. \A x : MarkList(x) => x \in H
  BY DEF MarkList
<1> HIDE DEF H
<1>4. ASSUME NEW i \in 1 .. n, NEW x \in H
      PROVE  /\ add(x, times[i], types) \in H
             /\ Extends(x, add(x, times[i], types)) /\ Kept(add(x, times[i], types), times[i], types)
  <2>1. MarkList(x) /\ Finite(times[i])
    BY <1>1, <1>2
  <2>2. /\ MarkList(add(x, times[i], types)) /\ Extends(x, add(x, times[i], types))
        /\ Kept(add(x, times[i], types), times[i], types)
    BY <2>1, AddKeeps
  <2> QED BY <1>3, <2>2
<1>5. step \in [(0 + 1) .. n -> [H -> H]]
  BY <1>4
<1>6. ms \in H
  BY <1>3
<1>7. PICK f : Iterates(f, H, 0, n, ms, step)
  <2> HIDE DEF step
  <2>1. 0 \in Int /\ n \in Int /\ 0 <= n
    BY <1>1
  <2> QED BY <1>5, <1>6, <2>1, LoopHasValues, Zenon
<1>8. f \in [0 .. n -> H] /\ f[0] = ms
  BY <1>7 DEF Iterates
<1>9. ASSUME NEW i \in 1 .. n PROVE f[i] = add(f[i - 1], times[i], types)
  <2>1. i \in (0 + 1) .. n /\ i - 1 \in 0 .. n
    BY <1>1
  <2>2. f[i] = step[i][f[i - 1]] /\ f[i - 1] \in H
    BY <1>7, <1>8, <2>1 DEF Iterates
  <2> QED BY <2>2
<1>10. \A i \in 0 .. n : i = 0 \/ i \in 1 .. n
  BY <1>1
<1>11. Loop(f)
  BY <1>8, <1>9, <1>10
<1>12. Loop(g)
  <2> HIDE DEF Loop
  <2> QED BY <1>11, Zenon
<1>13. add_time_marks(ms, from, dt, to, types) = g[n]
  BY DEF add_time_marks, times, n
<1> HIDE DEF g
<1>14. g[0] = ms /\ \A i \in 1 .. n : g[i] = add(g[i - 1], times[i], types) /\ i - 1 \in 0 .. n
  <2>1. 0 \in 0 .. n /\ \A i \in 1 .. n : i \in 0 .. n /\ i # 0 /\ i - 1 \in 0 .. n
    BY <1>1
  <2> QED BY <1>12, <2>1
<1> DEFINE Good(i) == g[i] \in H /\ Extends(ms, g[i]) /\ \A j \in 1 .. i : Kept(g[i], times[j], types)
<1>15. Good(0)
  <2>1. Extends(ms, ms)
    BY DEF Extends
  <2> QED BY <1>6, <1>14, <2>1
<1>16. ASSUME NEW i \in 1 .. n, Good(i - 1) PROVE Good(i)
  <2>1. g[i] = add(g[i - 1], times[i], types) /\ g[i - 1] \in H
    BY <1>14, <1>16
  <2>2. g[i] \in H /\ Extends(g[i - 1], g[i]) /\ Kept(g[i], times[i], types)
    BY <1>4, <2>1
  <2>3. Extends(ms, g[i])
    BY <1>16, <2>2, ExtendsTrans
  <2>4. ASSUME NEW j \in 1 .. i PROVE Kept(g[i], times[j], types)
    <3>1. CASE j = i
      BY <2>2, <3>1
    <3>2. CASE j # i
      <4>1. j \in 1 .. (i - 1)
        BY <1>1, <3>2
      <4>2. Kept(g[i - 1], times[j], types)
        BY <1>16, <4>1
      <4> QED BY <2>2, <4>2, KeptByMore
    <3> QED BY <3>1, <3>2
  <2> QED BY <2>2, <2>3, <2>4
<1>17. \A i \in 0 .. n : Good(i)
  <2> DEFINE Bad == {i \in 0 .. n : ~ Good(i)}
  <2> SUFFICES ASSUME Bad # {} PROVE FALSE
    OBVIOUS
  <2>1. PICK i \in Bad : \A j \in Bad : i <= j
    <3>1. Bad \subseteq Nat
      BY <1>1
    <3> HIDE DEF Bad
    <3> QED BY <3>1, LeastNumber
  <2> HIDE DEF Good
  <2>2. i \in 1 .. n /\ ~ Good(i)
    BY <1>10, <1>15, <2>1
  <2>3. i - 1 \in 0 .. n /\ ~ (i <= i - 1)
    BY <1>1, <2>2
  <2>4. i - 1 \notin Bad
    <3> HIDE DEF Bad
    <3> QED BY <2>1, <2>3
  <2>5. Good(i - 1)
    BY <2>3, <2>4
  <2> QED BY <1>16, <2>2, <2>5
<1>18. n \in 0 .. n
  BY <1>1
<1>19. Good(n)
  BY <1>17, <1>18
<1> QED BY <1>1, <1>2, <1>13, <1>19 DEF times

\* add_to_type_all() adds bits only.
LEMMA AddToAllKeeps ==
  ASSUME NEW ms, MarkList(ms), NEW filter, NEW types, types \subseteq BaseTypes
  PROVE  /\ MarkList(add_to_type_all(ms, filter, types))
         /\ Extends(ms, add_to_type_all(ms, filter, types))
<1> DEFINE more(i) == IF match_mask(ms[i], filter) THEN [ms[i] EXCEPT !.types = @ \cup types] ELSE ms[i]
           n == Len(ms)
           G == [i \in 1 .. n |-> more(i)]
           new == add_to_type_all(ms, filter, types)
<1>1. /\ Len(ms) \in Nat /\ Len(ms) >= 2 /\ ms \in Seq(Mark) /\ DOMAIN ms = 1 .. Len(ms)
      /\ 1 \in 1 .. Len(ms) /\ Len(ms) \in 1 .. Len(ms)
      /\ ms[1].time = -Inf /\ ms[1].types = BaseTypes
      /\ ms[Len(ms)].time = Inf /\ ms[Len(ms)].types = BaseTypes
      /\ \A j \in 1 .. Len(ms) : ms[j] \in Mark /\ ms[j].time \in Int /\ ms[j].types \subseteq BaseTypes
  BY MarkListType
<1>2. new = G
  BY <1>1 DEF add_to_type_all
<1>3. ASSUME NEW i \in 1 .. n
      PROVE  more(i) \in Mark /\ more(i).time = ms[i].time /\ ms[i].types \subseteq more(i).types
  <2>1. CASE match_mask(ms[i], filter)
    <3>1. more(i) = [ms[i] EXCEPT !.types = @ \cup types]
      BY <2>1
    <3> HIDE DEF more
    <3> QED BY <1>1, <3>1 DEF Mark
  <2>2. CASE ~ match_mask(ms[i], filter)
    BY <1>1, <2>2
  <2> QED BY <2>1, <2>2
<1> HIDE DEF more, new
<1>4. G \in Seq(Mark) /\ Len(G) = n /\ \A i \in 1 .. n : G[i] = more(i)
  <2>1. G \in [1 .. n -> Mark]
    BY <1>3
  <2>2. \A i \in 1 .. n : G[i] = more(i)
    OBVIOUS
  <2> HIDE DEF G, n
  <2>3. n \in Nat
    BY <1>1 DEF n
  <2>4. G \in Seq(Mark)
    BY <2>1, <2>3, IsASeq
  <2>5. DOMAIN G = 1 .. n
    BY <2>1
  <2>6. Len(G) \in Nat /\ DOMAIN G = 1 .. Len(G)
    BY <2>4, LenProperties
  <2>7. Len(G) = n
    BY <2>3, <2>4, <2>5, LenProperties
  <2> QED BY <2>2, <2>4, <2>7
<1> HIDE DEF G
<1>5. /\ new \in Seq(Mark) /\ Len(new) = n
      /\ \A i \in 1 .. n : new[i] \in Mark /\ new[i].time = ms[i].time /\ ms[i].types \subseteq new[i].types
  BY <1>2, <1>3, <1>4
<1>6. \A j \in 1 .. n : ms[j].types = BaseTypes =>
        new[j] = [time |-> ms[j].time, types |-> BaseTypes]
  BY <1>5 DEF Mark
<1>7. /\ new[1] = [time |-> -Inf, types |-> BaseTypes]
      /\ new[n] = [time |-> Inf, types |-> BaseTypes]
  BY <1>1, <1>6
<1>8. \A j, k \in 1 .. n : j < k => new[j].time + Prec <= new[k].time
  BY <1>5 DEF MarkList
<1>9. MarkList(new)
  BY <1>1, <1>5, <1>7, <1>8 DEF MarkList
<1>10. Extends(ms, new)
  BY <1>5 DEF Extends
<1> QED BY <1>9, <1>10 DEF new

\* The times of callers lie between the stoppers, and they use the bits there are.
MarksFinite ==
  /\ \A time \in TmTimes : Finite(time)
  /\ \A g \in TmGrids : /\ Finite(g.begin) /\ Finite(g.end) /\ g.begin <= g.end
                        /\ g.dt \in Nat /\ g.dt > 0
  /\ TmMasks \subseteq SUBSET BaseTypes

\* A hundredth of the step of a governor is longer than the tolerance of its end, but for marks
\* that add() would have merged, and the step is far from the infinities.
StepsLong ==
  \A p \in TmProbes : /\ p.end \in Int /\ p.length \in Nat
                      /\ -Inf < p.end /\ p.end + p.length + Tol < Inf
                      /\ Tol < p.length \div 100 + Prec

\* next() is the first matching mark behind the time.
LEMMA NextIs ==
  ASSUME NEW ms, MarkList(ms), NEW mask, mask \subseteq BaseTypes,
         NEW time \in Int, -Inf < time, time + Tol < Inf
  PROVE  /\ next(ms, time, mask) \in 1 .. Len(ms)
         /\ lt(time, ms[next(ms, time, mask)].time)
         /\ \A i \in 1 .. Len(ms) : match_mask(ms[i], mask) =>
              (i >= next(ms, time, mask) <=> lt(time, ms[i].time))
<1> DEFINE from == lower_bound(ms, time)
           found == {i \in from .. Len(ms) : lt(time, ms[i].time) /\ match_mask(ms[i], mask)}
           n == next(ms, time, mask)
<1>1. /\ Len(ms) \in Nat /\ Len(ms) \in 1 .. Len(ms)
      /\ ms[Len(ms)].time = Inf /\ ms[Len(ms)].types = BaseTypes
      /\ \A i \in 1 .. Len(ms) : ms[i].time \in Int
      /\ \A i, j \in 1 .. Len(ms) : i <= j => ms[i].time <= ms[j].time
  BY MarkListType
<1>2. Inf \in Nat /\ Tol \in Nat /\ time <= Inf
  BY ToleranceAssumption
<1>3. from \in 2 .. Len(ms) /\ \A i \in 1 .. Len(ms) : i < from <=> ms[i].time < time
  BY <1>2, LowerBound
<1> HIDE DEF from
<1>4. \A i \in 1 .. Len(ms) : lt(time, ms[i].time) <=> time + Tol < ms[i].time
  BY <1>1, <1>2 DEF lt, ge
<1>5. Len(ms) \in found
  <2>1. lt(time, ms[Len(ms)].time) /\ match_mask(ms[Len(ms)], mask)
    BY <1>1, <1>4 DEF match_mask
  <2>2. Len(ms) \in from .. Len(ms)
    BY <1>1, <1>3
  <2> QED BY <2>1, <2>2
<1>6. found \subseteq Nat /\ \A i \in found : i \in 1 .. Len(ms)
  BY <1>1, <1>3
<1>7. n = CHOOSE i \in found : \A j \in found : i <= j
  BY <1>5 DEF next, from
<1>8. n \in found /\ \A j \in found : n <= j
  <2> HIDE DEF found, n
  <2>1. \E x \in found : \A y \in found : x <= y
    BY <1>5, <1>6, LeastNumber
  <2> QED BY <1>7, <2>1
<1> HIDE DEF n
<1>9. n \in 1 .. Len(ms) /\ lt(time, ms[n].time)
  BY <1>6, <1>8
<1>10. ASSUME NEW i \in 1 .. Len(ms), match_mask(ms[i], mask)
       PROVE  i >= n <=> lt(time, ms[i].time)
  <2>1. ASSUME lt(time, ms[i].time) PROVE i >= n
    <3>1. time + Tol < ms[i].time /\ ms[i].time \in Int
      BY <1>1, <1>4, <2>1
    <3>2. ~ (ms[i].time < time)
      BY <1>2, <3>1
    <3>3. i \in from .. Len(ms)
      BY <1>1, <1>3, <3>2
    <3>4. i \in found
      BY <1>10, <2>1, <3>3
    <3>5. n <= i
      <4> HIDE DEF found
      <4> QED BY <1>8, <3>4
    <3> QED BY <1>9, <3>5
  <2>2. ASSUME i >= n PROVE lt(time, ms[i].time)
    <3>1. ms[n].time <= ms[i].time /\ ms[n].time \in Int /\ ms[i].time \in Int
      BY <1>1, <1>9, <2>2
    <3>2. time + Tol < ms[n].time
      BY <1>4, <1>9
    <3>3. time + Tol < ms[i].time
      BY <1>2, <3>1, <3>2
    <3> QED BY <1>4, <3>3
  <2> QED BY <2>1, <2>2
<1> QED BY <1>9, <1>10 DEF n

\* The matching marks among the first ones that the time has reached, and the greatest of some
reached(ms, mask, t, from) == {i \in 1 .. from : ge(t, ms[i].time) /\ match_mask(ms[i], mask)}
greatest(S) == CHOOSE i \in S : \A j \in S : i >= j

\* The search back from a mark that is behind the time by more than its tolerance
LEMMA LastAmong ==
  ASSUME NEW ms, MarkList(ms), NEW mask, mask \subseteq BaseTypes, NEW t \in Int, -Inf < t,
         NEW from \in 1 .. Len(ms), t + Tol < ms[from].time + Prec, NEW l,
         l = greatest(reached(ms, mask, t, from))
  PROVE  /\ l \in 1 .. Len(ms) /\ ge(t, ms[l].time)
         /\ \A i \in 1 .. Len(ms) : match_mask(ms[i], mask) => (i <= l <=> ge(t, ms[i].time))
<1> DEFINE found == {i \in 1 .. from : ge(t, ms[i].time) /\ match_mask(ms[i], mask)}
<1>1. /\ Len(ms) \in Nat /\ Len(ms) \in 1 .. Len(ms) /\ 1 \in 1 .. Len(ms)
      /\ ms[1].time = -Inf /\ ms[1].types = BaseTypes
      /\ \A i \in 1 .. Len(ms) : ms[i].time \in Int
      /\ \A i, j \in 1 .. Len(ms) : i < j => ms[i].time + Prec <= ms[j].time
      /\ \A i, j \in 1 .. Len(ms) : i <= j => ms[i].time <= ms[j].time
  BY MarkListType
<1>2. Inf \in Nat /\ Tol \in Nat /\ Prec \in Nat
  BY ToleranceAssumption
<1>4. \A i \in 1 .. Len(ms) : ge(t, ms[i].time) <=> ms[i].time <= t + Tol
  BY <1>1, <1>2 DEF ge
<1>5. 1 \in found
  <2>1. ge(t, ms[1].time) /\ match_mask(ms[1], mask)
    BY <1>1, <1>2, <1>4 DEF match_mask
  <2>2. 1 \in 1 .. from
    BY <1>1
  <2> QED BY <2>1, <2>2
<1>6. found \subseteq Nat /\ \A i \in found : i \in 1 .. Len(ms) /\ i <= from
  BY <1>1
<1>7. from \in Nat
  BY <1>1
<1>8. l = CHOOSE i \in found : \A j \in found : i >= j
  BY DEF greatest, reached
<1>9. l \in found /\ \A j \in found : l >= j
  <2> DEFINE D == {from - i : i \in found}
  <2>1. D \subseteq Nat /\ D # {}
    BY <1>5, <1>6, <1>7
  <2>2. PICK d \in D : \A e \in D : d <= e
    <3> HIDE DEF D
    <3> QED BY <2>1, LeastNumber
  <2>3. PICK x \in found : d = from - x
    BY <2>2
  <2>4. \A j \in found : x >= j
    <3> SUFFICES ASSUME NEW j \in found PROVE x >= j
      OBVIOUS
    <3>1. from - j \in D
      OBVIOUS
    <3>2. from - x <= from - j
      <4> HIDE DEF D
      <4> QED BY <2>2, <2>3, <3>1
    <3> QED BY <1>6, <1>7, <3>2
  <2> HIDE DEF found
  <2> QED BY <1>8, <2>4
<1>10. l \in 1 .. Len(ms) /\ ge(t, ms[l].time)
  BY <1>6, <1>9
<1>11. ASSUME NEW i \in 1 .. Len(ms), match_mask(ms[i], mask)
       PROVE  i <= l <=> ge(t, ms[i].time)
  <2>1. ASSUME ge(t, ms[i].time) PROVE i <= l
    <3>1. ms[i].time <= t + Tol /\ ms[i].time \in Int
      BY <1>1, <1>4, <2>1
    <3>2. i <= from
      <4> SUFFICES ASSUME from < i PROVE FALSE
        BY <1>7
      <4>1. ms[from].time + Prec <= ms[i].time /\ ms[from].time \in Int
        BY <1>1
      <4> QED BY <1>2, <3>1, <4>1
    <3>3. i \in found
      BY <1>7, <1>11, <2>1, <3>2
    <3>4. l >= i
      <4> HIDE DEF found
      <4> QED BY <1>9, <3>3
    <3> QED BY <1>10, <3>4
  <2>2. ASSUME i <= l PROVE ge(t, ms[i].time)
    <3>1. ms[i].time <= ms[l].time /\ ms[i].time \in Int /\ ms[l].time \in Int
      BY <1>1, <1>10, <2>2
    <3>2. ms[l].time <= t + Tol
      BY <1>4, <1>10
    <3>3. ms[i].time <= t + Tol
      BY <1>2, <3>1, <3>2
    <3> QED BY <1>4, <3>3
  <2> QED BY <2>1, <2>2
<1> QED BY <1>10, <1>11

\* last() is the last matching mark at or before the end of the step.
LEMMA LastIs ==
  ASSUME NEW ms, MarkList(ms), NEW mask, mask \subseteq BaseTypes, NEW p,
         p.end \in Int, p.length \in Nat, -Inf < p.end, p.end + p.length + Tol < Inf,
         Tol < p.length \div 100 + Prec
  PROVE  /\ last(ms, p, mask) \in 1 .. Len(ms)
         /\ ge(p.end, ms[last(ms, p, mask)].time)
         /\ \A i \in 1 .. Len(ms) : match_mask(ms[i], mask) =>
              (i <= last(ms, p, mask) <=> ge(p.end, ms[i].time))
<1> DEFINE q == p.length \div 100
           behind == p.end + q
           from == lower_bound(ms, behind)
<1>1. q \in Nat /\ q <= p.length
  OBVIOUS
<1>2. Inf \in Nat /\ Tol \in Nat /\ Prec \in Nat /\ Tol < q + Prec
  BY ToleranceAssumption
<1> HIDE DEF q
<1>3. behind \in Int /\ -Inf < behind /\ behind <= Inf /\ p.end + Tol < behind + Prec
  BY <1>1, <1>2
<1> HIDE DEF behind
<1>4. from \in 2 .. Len(ms) /\ ms[from].time >= behind
  BY <1>3, LowerBound
<1> HIDE DEF from
<1>5. from \in 1 .. Len(ms) /\ ms[from].time \in Int
  BY <1>4, MarkListType
<1>6. p.end + Tol < ms[from].time + Prec
  <2> DEFINE x == ms[from].time
             a == p.end + Tol
  <2>1. x \in Int /\ x >= behind /\ a \in Int /\ a < behind + Prec
    BY <1>2, <1>3, <1>4, <1>5
  <2> HIDE DEF x, a
  <2>2. a < x + Prec
    BY <1>2, <1>3, <2>1
  <2> QED BY <2>2 DEF x, a
<1>7. last(ms, p, mask) = greatest(reached(ms, mask, p.end, from))
  BY DEF last, from, behind, q, greatest, reached
<1> DEFINE t == p.end
           l == last(ms, p, mask)
<1>8. t \in Int /\ -Inf < t /\ t + Tol < ms[from].time + Prec
  BY <1>6
<1>9. l = greatest(reached(ms, mask, t, from))
  BY <1>7
<1> HIDE DEF t, l
<1>10. /\ l \in 1 .. Len(ms) /\ ge(t, ms[l].time)
       /\ \A i \in 1 .. Len(ms) : match_mask(ms[i], mask) => (i <= l <=> ge(t, ms[i].time))
  BY <1>5, <1>8, <1>9, LastAmong
<1> QED BY <1>10 DEF t, l

\* last() is before next().
LEMMA LastBeforeNext ==
  ASSUME NEW ms, MarkList(ms), NEW te \in Int, NEW l \in 1 .. Len(ms), NEW n \in 1 .. Len(ms),
         ge(te, ms[l].time), lt(te, ms[n].time)
  PROVE  l < n
<1> SUFFICES ASSUME n <= l PROVE FALSE
  BY MarkListType
<1>1. ms[n].time <= ms[l].time /\ ms[n].time \in Int /\ ms[l].time \in Int
  BY MarkListType
<1> QED BY <1>1, ToleranceAssumption DEF ge, lt

\* All lists in use, and the requests of their equations
TmInv ==
  /\ tm_marks \in Seq(Seq(Mark))
  /\ \A e \in DOMAIN tm_marks : MarkList(tm_marks[e])
  /\ \A r \in tm_requested : r.eq \in DOMAIN tm_marks /\ Kept(tm_marks[r.eq], r.time, r.types)

\* The two stoppers are a list.
LEMMA StoppersList == MarkList(stoppers) /\ stoppers \in Seq(Mark)
<1>1. stoppers \in Seq(Mark) /\ Len(stoppers) = 2
  BY ToleranceAssumption DEF stoppers, Mark
<1>2. /\ stoppers[1] = [time |-> -Inf, types |-> BaseTypes]
      /\ stoppers[2] = [time |-> Inf, types |-> BaseTypes]
  BY DEF stoppers
<1>3. \A i, j \in 1 .. 2 : i < j => i = 1 /\ j = 2
  OBVIOUS
<1>4. stoppers[1].time + Prec <= stoppers[2].time
  BY <1>2, ToleranceAssumption
<1> QED BY <1>1, <1>2, <1>3, <1>4 DEF MarkList

\* A list that is replaced by one that has more keeps all requests.
LEMMA ListReplaced ==
  ASSUME TmInv, NEW e \in DOMAIN tm_marks, NEW new, MarkList(new), Extends(tm_marks[e], new),
         tm_marks' = [tm_marks EXCEPT ![e] = new],
         \A r \in tm_requested' :
           r \in tm_requested \/ (r.eq = e /\ Kept(new, r.time, r.types))
  PROVE  TmInv'
<1>1. new \in Seq(Mark)
  BY DEF MarkList
<1>2. /\ tm_marks' \in Seq(Seq(Mark)) /\ DOMAIN tm_marks' = DOMAIN tm_marks
      /\ tm_marks'[e] = new
      /\ \A f \in DOMAIN tm_marks : f # e => tm_marks'[f] = tm_marks[f]
  BY <1>1 DEF TmInv
<1>3. \A f \in DOMAIN tm_marks' : MarkList(tm_marks'[f])
  BY <1>2 DEF TmInv
<1>4. ASSUME NEW r \in tm_requested'
      PROVE  r.eq \in DOMAIN tm_marks' /\ Kept(tm_marks'[r.eq], r.time, r.types)
  <2>1. CASE r \in tm_requested
    <3>1. r.eq \in DOMAIN tm_marks /\ Kept(tm_marks[r.eq], r.time, r.types)
      BY <2>1 DEF TmInv
    <3>2. CASE r.eq = e
      <4>1. Kept(new, r.time, r.types)
        BY <3>1, <3>2, KeptByMore
      <4> QED BY <1>2, <3>2, <4>1
    <3>3. CASE r.eq # e
      BY <1>2, <3>1, <3>3
    <3> QED BY <3>2, <3>3
  <2>2. CASE r.eq = e /\ Kept(new, r.time, r.types)
    BY <1>2, <2>2
  <2> QED BY <2>1, <2>2
<1> QED BY <1>2, <1>3, <1>4 DEF TmInv

\* Every operation keeps the lists and the requests.
LEMMA MarksStepKeeps ==
  ASSUME MarksFinite, TmInv, [TmNext]_tm_vars
  PROVE  TmInv'
<1>1. CASE new_mark_type
  <2>1. /\ tm_marks' = Append(tm_marks, stoppers) /\ tm_requested' = tm_requested
        /\ tm_marks \in Seq(Seq(Mark)) /\ stoppers \in Seq(Mark)
    BY <1>1, StoppersList DEF new_mark_type, TmInv
  <2>2. /\ tm_marks' \in Seq(Seq(Mark)) /\ DOMAIN tm_marks' = 1 .. (Len(tm_marks) + 1)
        /\ DOMAIN tm_marks = 1 .. Len(tm_marks) /\ Len(tm_marks) \in Nat
        /\ tm_marks'[Len(tm_marks) + 1] = stoppers
        /\ \A e \in 1 .. Len(tm_marks) : tm_marks'[e] = tm_marks[e]
    BY <2>1
  <2>3. \A e \in DOMAIN tm_marks' : e \in DOMAIN tm_marks \/ e = Len(tm_marks) + 1
    BY <2>2
  <2>4. \A e \in DOMAIN tm_marks' : MarkList(tm_marks'[e])
    BY <2>2, <2>3, StoppersList DEF TmInv
  <2>5. \A e \in DOMAIN tm_marks : e \in DOMAIN tm_marks'
    BY <2>2
  <2> QED BY <2>1, <2>2, <2>4, <2>5 DEF TmInv
<1>2. ASSUME NEW e \in DOMAIN tm_marks, NEW m \in TmMasks, NEW time \in TmTimes, Add(e, time, m)
      PROVE  TmInv'
  <2> DEFINE new == add(tm_marks[e], time, m)
  <2>1. MarkList(tm_marks[e]) /\ Finite(time) /\ m \subseteq BaseTypes
    BY DEF TmInv, MarksFinite
  <2>2. MarkList(new) /\ Extends(tm_marks[e], new) /\ Kept(new, time, m)
    BY <2>1, AddKeeps
  <2>3. tm_marks' = [tm_marks EXCEPT ![e] = new]
        /\ tm_requested' = tm_requested \cup {[eq |-> e, time |-> time, types |-> m]}
    BY <1>2 DEF Add
  <2> HIDE DEF new
  <2>4. \A r \in tm_requested' : r \in tm_requested \/ (r.eq = e /\ Kept(new, r.time, r.types))
    BY <2>2, <2>3
  <2> QED BY <2>2, <2>3, <2>4, ListReplaced
<1>3. ASSUME NEW e \in DOMAIN tm_marks, NEW m \in TmMasks, NEW g \in TmGrids, AddTimeMarks(e, g, m)
      PROVE  TmInv'
  <2> DEFINE new == add_time_marks(tm_marks[e], g.begin, g.dt, g.end, m)
             times == grid(g.begin, g.dt, g.end)
  <2>1. MarkList(tm_marks[e]) /\ m \subseteq BaseTypes /\ Finite(g.begin) /\ Finite(g.end)
        /\ g.begin <= g.end /\ g.dt \in Nat /\ g.dt > 0
    BY DEF TmInv, MarksFinite
  <2>2. /\ MarkList(new) /\ Extends(tm_marks[e], new)
        /\ \A i \in DOMAIN times : Kept(new, times[i], m)
    BY <2>1, AddGridKeeps
  <2>3. /\ tm_marks' = [tm_marks EXCEPT ![e] = new]
        /\ tm_requested' = tm_requested \cup
             {[eq |-> e, time |-> times[i], types |-> m] : i \in DOMAIN times}
    BY <1>3 DEF AddTimeMarks
  <2> HIDE DEF new, times
  <2>4. \A r \in tm_requested' : r \in tm_requested \/ (r.eq = e /\ Kept(new, r.time, r.types))
    BY <2>2, <2>3
  <2> QED BY <2>2, <2>3, <2>4, ListReplaced
<1>4. ASSUME NEW e \in DOMAIN tm_marks, NEW m \in TmMasks, NEW filter \in TmMasks,
             AddToTypeAll(e, filter, m)
      PROVE  TmInv'
  <2> DEFINE new == add_to_type_all(tm_marks[e], filter, m)
  <2>1. MarkList(tm_marks[e]) /\ m \subseteq BaseTypes
    BY DEF TmInv, MarksFinite
  <2>2. MarkList(new) /\ Extends(tm_marks[e], new)
    BY <2>1, AddToAllKeeps
  <2>3. tm_marks' = [tm_marks EXCEPT ![e] = new] /\ tm_requested' = tm_requested
    BY <1>4 DEF AddToTypeAll
  <2> HIDE DEF new
  <2> QED BY <2>2, <2>3, ListReplaced
<1>5. CASE UNCHANGED tm_vars
  BY <1>5 DEF tm_vars, TmInv
<1> QED BY <1>1, <1>2, <1>3, <1>4, <1>5 DEF TmNext

\* The lists of marks are sorted and separated, and have the marks of all requests.
THEOREM MarksInvariant == MarksFinite /\ TmSpec => []TmInv
<1>1. TmInit => TmInv
  BY DEF TmInit, TmInv
<1>2. MarksFinite /\ TmInv /\ [TmNext]_tm_vars => TmInv'
  BY MarksStepKeeps
<1>3. MarksFinite => []MarksFinite
  <2>1. MarksFinite => MarksFinite'
    BY DEF MarksFinite
  <2> QED BY <2>1, PTL
<1> QED BY <1>1, <1>2, <1>3, PTL DEF TmSpec

\* TimeMarks::add merges times closer than the precision and loses no request.
THEOREM MarksMergedWithoutLoss == MarksFinite /\ TmSpec => []MergedWithoutLoss
<1>1. TmInv => MergedWithoutLoss
  <2> SUFFICES ASSUME TmInv PROVE MergedWithoutLoss
    OBVIOUS
  <2>1. ASSUME NEW e \in DOMAIN tm_marks, NEW i \in 1 .. (Len(tm_marks[e]) - 1)
        PROVE  tm_marks[e][i + 1].time - tm_marks[e][i].time >= Prec
    <3> DEFINE ms == tm_marks[e]
    <3>1. MarkList(ms)
      BY DEF TmInv
    <3> HIDE DEF ms
    <3>2. /\ Len(ms) \in Nat /\ \A j \in 1 .. Len(ms) : ms[j].time \in Int
          /\ \A j, k \in 1 .. Len(ms) : j < k => ms[j].time + Prec <= ms[k].time
      BY <3>1, MarkListType
    <3>3. i \in 1 .. Len(ms) /\ i + 1 \in 1 .. Len(ms) /\ i < i + 1
      BY <3>2 DEF ms
    <3>4. ms[i].time + Prec <= ms[i + 1].time /\ ms[i].time \in Int /\ ms[i + 1].time \in Int
      BY <3>2, <3>3
    <3>5. ms[i + 1].time - ms[i].time >= Prec
      BY <3>4, ToleranceAssumption
    <3> QED BY <3>5 DEF ms
  <2>2. MarksSeparated
    BY <2>1 DEF MarksSeparated
  <2>3. ASSUME NEW r \in tm_requested
        PROVE  \E i \in DOMAIN tm_marks[r.eq] :
                 /\ same_time(tm_marks[r.eq][i].time, r.time)
                 /\ r.types \subseteq tm_marks[r.eq][i].types
    <3> DEFINE ms == tm_marks[r.eq]
    <3>1. MarkList(ms) /\ Kept(ms, r.time, r.types)
      BY DEF TmInv
    <3> HIDE DEF ms
    <3>2. DOMAIN ms = 1 .. Len(ms)
      BY <3>1, MarkListType
    <3>3. \E i \in DOMAIN ms : same_time(ms[i].time, r.time) /\ r.types \subseteq ms[i].types
      BY <3>1, <3>2 DEF Kept
    <3> QED BY <3>3 DEF ms
  <2>4. RequestsKept
    BY <2>3 DEF RequestsKept
  <2> QED BY <2>2, <2>4 DEF MergedWithoutLoss
<1> QED BY <1>1, MarksInvariant, PTL

\* TimeMarks::last and next split the marks at the time of a governor.
THEOREM MarksSplit == MarksFinite /\ StepsLong /\ TmSpec => []NextAndLastSplitMarks
<1>1. MarksFinite /\ StepsLong /\ TmInv => NextAndLastSplitMarks
  <2> SUFFICES ASSUME MarksFinite, StepsLong, TmInv, NEW e \in DOMAIN tm_marks,
                      NEW mask \in TmMasks, NEW p \in TmProbes
               PROVE  LET ms == tm_marks[e]
                          l == last(ms, p, mask)
                          n == next(ms, p.end, mask)
                      IN  /\ l < n
                          /\ \A i \in DOMAIN ms : match_mask(ms[i], mask) =>
                               /\ i <= l <=> ge(p.end, ms[i].time)
                               /\ i >= n <=> lt(p.end, ms[i].time)
    BY DEF NextAndLastSplitMarks
  <2> DEFINE ms == tm_marks[e]
             l == last(ms, p, mask)
             n == next(ms, p.end, mask)
  <2>1. MarkList(ms) /\ mask \subseteq BaseTypes
    BY DEF TmInv, MarksFinite
  <2>2. /\ p.end \in Int /\ p.length \in Nat /\ -Inf < p.end /\ p.end + p.length + Tol < Inf
        /\ Tol < p.length \div 100 + Prec
    BY DEF StepsLong
  <2>3. p.end + Tol < Inf
    BY <2>2, ToleranceAssumption
  <2> HIDE DEF ms
  <2>4. /\ l \in 1 .. Len(ms) /\ ge(p.end, ms[l].time)
        /\ \A i \in 1 .. Len(ms) : match_mask(ms[i], mask) => (i <= l <=> ge(p.end, ms[i].time))
    BY <2>1, <2>2, LastIs
  <2>5. /\ n \in 1 .. Len(ms) /\ lt(p.end, ms[n].time)
        /\ \A i \in 1 .. Len(ms) : match_mask(ms[i], mask) => (i >= n <=> lt(p.end, ms[i].time))
    BY <2>1, <2>2, <2>3, NextIs
  <2> HIDE DEF l, n
  <2>6. l < n
    BY <2>1, <2>2, <2>4, <2>5, LastBeforeNext
  <2>7. DOMAIN ms = 1 .. Len(ms)
    BY <2>1, MarkListType
  <2> QED BY <2>4, <2>5, <2>6, <2>7 DEF ms, l, n
<1>2. MarksFinite /\ StepsLong => [](MarksFinite /\ StepsLong)
  <2>1. MarksFinite /\ StepsLong => (MarksFinite /\ StepsLong)'
    BY DEF MarksFinite, StepsLong
  <2> QED BY <2>1, PTL
<1> QED BY <1>1, <1>2, MarksInvariant, PTL

---------------------------------------------------------------------------
(* FieldHistory *)

\* No two records of a list give a field on one region from one time on; of two such records
\* the code may take the first one.
OneRecordPerTime ==
  \A list \in FdInputLists : \A i, j \in DOMAIN list :
    i # j /\ list[i].time = list[j].time => list[i].regions \cap list[j].regions = {}

FdPoint == [time : Nat, field : Nat]

Point(list, i) == [time |-> list[i].time, field |-> i]
DefaultPoint == [time |-> 0, field |-> 0]
DefaultGiven(r) == FdHasDefault /\ r \notin FdNotNeeded

\* The records of region r among the first k
of_region(list, r, k) == {i \in 1 .. k : r \in list[i].regions}

\* The instance that is in force after k records
InForce(list, x, r, k) ==
  \/ x = DefaultPoint /\ of_region(list, r, k) = {} /\ DefaultGiven(r)
  \/ \E i \in of_region(list, r, k) : x = Point(list, i) /\ \A j \in of_region(list, r, k) : j <= i

\* The history of region r after k records: the newest two instances are the last two in force,
\* and all others are of records that were read, or the default.
HistoryOK(list, h, r, k) ==
  /\ h \in Seq(FdPoint) /\ Len(h) <= history_length_limit
  /\ Len(h) = 0 => of_region(list, r, k) = {}
  /\ Len(h) > 0 => InForce(list, h[1], r, k)
  /\ Len(h) = 1 => \A i, j \in of_region(list, r, k) : i = j
  /\ Len(h) >= 2 => h[1].field > 0 /\ InForce(list, h[2], r, h[1].field - 1)
  /\ \A n \in 1 .. Len(h) :
       \/ \E i \in of_region(list, r, k) : h[n] = Point(list, i)
       \/ h[n] = DefaultPoint /\ \A i \in (k + 1) .. Len(list) : list[i].time > 0

FdTypeOK ==
  /\ fd_input \in FdInputLists
  /\ fd_list_idx \in 0 .. Len(fd_input)
  /\ region_history = [r \in FdRegions |-> region_history[r]]
  /\ fd_copy \in [FdCopies -> [last_time : Int, side : {"left", "right"}, jump : BOOLEAN,
                               changed : BOOLEAN, fields : [FdRegions -> Int]]]
  /\ \A c \in FdCopies : fd_copy[c].last_time = fd_past \/ fd_copy[c].last_time \in FdStepEnds
  /\ fd_failed \in {"no", "missing value", "back in history"}

HistoriesOK == \A r \in FdRegions : HistoryOK(fd_input, region_history[r], r, fd_list_idx)

\* Some copy has reached the time of every record that was read.
ReadBySomeone ==
  \A i \in 1 .. fd_list_idx : \E d \in FdCopies : fd_copy[d].last_time >= fd_input[i].time

\* A region without any instance has none in any copy.
EmptyUnset ==
  \A r \in FdRegions : Len(region_history[r]) = 0 => \A c \in FdCopies : fd_copy[c].fields[r] = fd_none

\* A copy knows that a record starts at its time.
JumpNoticed ==
  fd_failed = "no" => \A c \in FdCopies : fd_copy[c].last_time # fd_past /\ ~ fd_copy[c].jump =>
    \A i \in DOMAIN fd_input, r \in FdRegions :
      r \in fd_input[i].regions => fd_input[i].time # fd_copy[c].last_time

FdInv == /\ FdTypeOK /\ HistoriesOK /\ ReadBySomeone /\ EmptyUnset /\ JumpNoticed
         /\ CopySeesRecordInForce /\ FailsOnlyBehindRecord

\* What a list of records is
LEMMA FdList ==
  ASSUME fd_input \in FdInputLists
  PROVE  /\ Len(fd_input) \in Nat /\ DOMAIN fd_input = 1 .. Len(fd_input)
         /\ \A i \in 1 .. Len(fd_input) : fd_input[i].time \in Nat /\ fd_input[i].regions \subseteq FdRegions
         /\ \A i, j \in 1 .. Len(fd_input) : i <= j => fd_input[i].time <= fd_input[j].time
<1> DEFINE R == [time : Nat, regions : SUBSET FdRegions, varies : BOOLEAN]
<1>1. fd_input \in Seq(R)
  BY ListsAssumption
<1>2. Len(fd_input) \in Nat /\ DOMAIN fd_input = 1 .. Len(fd_input)
      /\ \A i \in 1 .. Len(fd_input) : fd_input[i] \in R
  <2> HIDE DEF R
  <2> QED BY <1>1
<1>3. \A i, j \in DOMAIN fd_input : i < j => fd_input[i].time <= fd_input[j].time
  BY ListsAssumption
<1>4. \A i \in 1 .. Len(fd_input) : fd_input[i].time \in Nat /\ fd_input[i].regions \subseteq FdRegions
  BY <1>2
<1> QED BY <1>2, <1>3, <1>4, SMTT(30)

\* Of two records of a region the later one in the list starts later.
LEMMA LaterRecord ==
  ASSUME fd_input \in FdInputLists, OneRecordPerTime, NEW r, NEW i \in 1 .. Len(fd_input),
         NEW j \in 1 .. Len(fd_input), i < j, r \in fd_input[i].regions, r \in fd_input[j].regions
  PROVE  fd_input[i].time < fd_input[j].time
<1>1. fd_input[i].time <= fd_input[j].time /\ fd_input[i].time \in Nat /\ fd_input[j].time \in Nat
      /\ i \in DOMAIN fd_input /\ j \in DOMAIN fd_input
  BY FdList
<1>2. fd_input[i].time # fd_input[j].time
  BY <1>1 DEF OneRecordPerTime
<1> QED BY <1>1, <1>2

\* The buffer after a new instance
LEMMA PushedHistory ==
  ASSUME NEW h \in Seq(FdPoint), Len(h) <= history_length_limit, NEW x \in FdPoint
  PROVE  LET p == push_front(h, x)
         IN  /\ p \in Seq(FdPoint) /\ Len(p) <= history_length_limit
             /\ Len(p) = IF Len(h) < history_length_limit THEN Len(h) + 1 ELSE Len(h)
             /\ p[1] = x
             /\ \A n \in 2 .. Len(p) : p[n] = h[n - 1] /\ n - 1 \in 1 .. Len(h)
<1> DEFINE c == <<x>> \o h
           k == IF Len(h) < history_length_limit THEN Len(h) + 1 ELSE Len(h)
           p == push_front(h, x)
<1>1. <<x>> \in Seq(FdPoint) /\ Len(<<x>>) = 1 /\ <<x>>[1] = x /\ Len(h) \in Nat
  OBVIOUS
<1>2. /\ c \in Seq(FdPoint) /\ Len(c) = 1 + Len(h)
      /\ \A i \in 1 .. 1 + Len(h) : c[i] = IF i <= 1 THEN <<x>>[i] ELSE h[i - 1]
  BY <1>1, ConcatProperties
<1>3. k \in Nat /\ k >= 1 /\ k <= Len(h) + 1 /\ k <= history_length_limit
  BY <1>1 DEF history_length_limit
<1>4. \A i \in 1 .. k : c[i] \in FdPoint
  BY <1>1, <1>2, <1>3
<1> HIDE DEF c, k
<1>5. /\ SubSeq(c, 1, k) \in Seq(FdPoint) /\ Len(SubSeq(c, 1, k)) = k
      /\ \A i \in 1 .. k - 1 + 1 : SubSeq(c, 1, k)[i] = c[1 + i - 1]
  BY <1>3, <1>4, SubSeqProperties
<1>6. p = SubSeq(c, 1, k)
  BY DEF push_front, c, k
<1>7. \A i \in 1 .. k : p[i] = c[i]
  BY <1>3, <1>5, <1>6
<1>8. p[1] = x
  BY <1>1, <1>2, <1>3, <1>7
<1>9. \A n \in 2 .. k : p[n] = h[n - 1] /\ n - 1 \in 1 .. Len(h)
  BY <1>1, <1>2, <1>3, <1>7
<1> HIDE DEF p
<1>10. p \in Seq(FdPoint) /\ Len(p) = k
  BY <1>5, <1>6
<1> QED BY <1>3, <1>8, <1>9, <1>10 DEF k, p

\* A point of a record
LEMMA PointOfRecord ==
  ASSUME fd_input \in FdInputLists, NEW i \in 1 .. Len(fd_input)
  PROVE  Point(fd_input, i) \in FdPoint /\ Point(fd_input, i).time = fd_input[i].time /\ Point(fd_input, i).field = i
BY FdList DEF Point, FdPoint

\* A record of another region changes nothing.
LEMMA OtherRecordKeeps ==
  ASSUME fd_input \in FdInputLists, NEW r, NEW k \in Nat, k + 1 <= Len(fd_input), NEW h,
         HistoryOK(fd_input, h, r, k), r \notin fd_input[k + 1].regions
  PROVE  HistoryOK(fd_input, h, r, k + 1)
<1>1. of_region(fd_input, r, k + 1) = of_region(fd_input, r, k)
  BY DEF of_region
<1>2. \A i \in ((k + 1) + 1) .. Len(fd_input) : i \in (k + 1) .. Len(fd_input)
  BY FdList
<1>3. \A x : InForce(fd_input, x, r, k) => InForce(fd_input, x, r, k + 1)
  BY <1>1 DEF InForce
<1> QED BY <1>1, <1>2, <1>3 DEF HistoryOK

\* A record of the region is put in front, as no instance of the history is newer.
LEMMA OwnRecordKeeps ==
  ASSUME fd_input \in FdInputLists, OneRecordPerTime, NEW r, NEW k \in Nat,
         k + 1 <= Len(fd_input), NEW h, HistoryOK(fd_input, h, r, k), r \in fd_input[k + 1].regions
  PROVE  HistoryOK(fd_input, add_to_history(h, Point(fd_input, k + 1)), r, k + 1)
<1> DEFINE x == Point(fd_input, k + 1)
           p == push_front(h, x)
<1>0. k + 1 \in 1 .. Len(fd_input) /\ Len(fd_input) \in Nat
  BY FdList
<1>1. x \in FdPoint /\ x.time = fd_input[k + 1].time /\ x.field = k + 1 /\ x.time \in Nat
  BY <1>0, PointOfRecord, FdList
<1>2. h \in Seq(FdPoint) /\ Len(h) <= history_length_limit /\ Len(h) \in Nat
  BY DEF HistoryOK
<1>3. of_region(fd_input, r, k + 1) = of_region(fd_input, r, k) \cup {k + 1}
  BY DEF of_region
<1>4. \A i \in of_region(fd_input, r, k) : /\ i \in 1 .. k /\ i \in 1 .. Len(fd_input) /\ i < k + 1
                                 /\ r \in fd_input[i].regions
  BY <1>0 DEF of_region
<1>5. \A i \in of_region(fd_input, r, k) : fd_input[i].time < x.time
  BY <1>0, <1>1, <1>4, LaterRecord
<1>6. Len(h) > 0 => h[Len(h)].time < x.time
  <2> SUFFICES ASSUME Len(h) > 0 PROVE h[Len(h)].time < x.time
    OBVIOUS
  <2>1. Len(h) \in 1 .. Len(h)
    BY <1>2
  <2>2. \/ \E i \in of_region(fd_input, r, k) : h[Len(h)] = Point(fd_input, i)
        \/ h[Len(h)] = DefaultPoint /\ \A i \in (k + 1) .. Len(fd_input) : fd_input[i].time > 0
    BY <2>1 DEF HistoryOK
  <2>3. CASE \E i \in of_region(fd_input, r, k) : h[Len(h)] = Point(fd_input, i)
    BY <1>4, <1>5, <2>3, PointOfRecord
  <2>4. CASE h[Len(h)] = DefaultPoint /\ \A i \in (k + 1) .. Len(fd_input) : fd_input[i].time > 0
    <3>1. k + 1 \in (k + 1) .. Len(fd_input)
      BY <1>0
    <3> QED BY <1>1, <2>4, <3>1 DEF DefaultPoint
  <2> QED BY <2>2, <2>3, <2>4
<1>7. add_to_history(h, x) = p
  BY <1>6 DEF add_to_history, Last
<1>8. /\ p \in Seq(FdPoint) /\ Len(p) <= history_length_limit /\ Len(p) \in Nat
      /\ Len(p) = IF Len(h) < history_length_limit THEN Len(h) + 1 ELSE Len(h)
      /\ p[1] = x
      /\ \A n \in 2 .. Len(p) : p[n] = h[n - 1] /\ n - 1 \in 1 .. Len(h)
  <2> HIDE DEF x
  <2>1. p \in Seq(FdPoint)
    BY <1>1, <1>2, PushedHistory
  <2> QED BY <1>1, <1>2, <2>1, PushedHistory
<1> HIDE DEF x, p
<1>9. InForce(fd_input, x, r, k + 1)
  <2>1. k + 1 \in of_region(fd_input, r, k + 1) /\ \A j \in of_region(fd_input, r, k + 1) : j <= k + 1
    BY <1>3, <1>4
  <2> QED BY <2>1 DEF InForce, x
<1>10. Len(p) >= 1 /\ (Len(p) = 1 => Len(h) = 0)
  BY <1>2, <1>8 DEF history_length_limit
<1>11. Len(p) = 1 => \A i, j \in of_region(fd_input, r, k + 1) : i = j
  <2> SUFFICES ASSUME Len(p) = 1 PROVE \A i, j \in of_region(fd_input, r, k + 1) : i = j
    OBVIOUS
  <2>1. of_region(fd_input, r, k) = {}
    BY <1>10 DEF HistoryOK
  <2> QED BY <1>3, <2>1
<1>12. Len(p) >= 2 => p[1].field > 0 /\ InForce(fd_input, p[2], r, p[1].field - 1)
  <2> SUFFICES ASSUME Len(p) >= 2 PROVE p[1].field > 0 /\ InForce(fd_input, p[2], r, p[1].field - 1)
    OBVIOUS
  <2>1. p[2] = h[1] /\ Len(h) > 0
    <3>1. 2 \in 2 .. Len(p)
      BY <1>8
    <3>2. p[2] = h[2 - 1] /\ 2 - 1 \in 1 .. Len(h)
      BY <1>8, <3>1
    <3> QED BY <1>2, <3>2
  <2>2. InForce(fd_input, h[1], r, k)
    BY <2>1 DEF HistoryOK
  <2>3. p[1].field = k + 1 /\ (k + 1) - 1 = k
    BY <1>1, <1>8
  <2> QED BY <2>1, <2>2, <2>3
<1>13. ASSUME NEW n \in 1 .. Len(p)
       PROVE  \/ \E i \in of_region(fd_input, r, k + 1) : p[n] = Point(fd_input, i)
              \/ p[n] = DefaultPoint
                 /\ \A i \in ((k + 1) + 1) .. Len(fd_input) : fd_input[i].time > 0
  <2>1. CASE n = 1
    BY <1>3, <1>8, <2>1 DEF x
  <2>2. CASE n # 1
    <3>1. p[n] = h[n - 1] /\ n - 1 \in 1 .. Len(h)
      BY <1>8, <1>13, <2>2
    <3>2. \/ \E i \in of_region(fd_input, r, k) : h[n - 1] = Point(fd_input, i)
          \/ h[n - 1] = DefaultPoint /\ \A i \in (k + 1) .. Len(fd_input) : fd_input[i].time > 0
      BY <3>1 DEF HistoryOK
    <3>3. \A i \in ((k + 1) + 1) .. Len(fd_input) : i \in (k + 1) .. Len(fd_input)
      BY <1>0
    <3> QED BY <1>3, <3>1, <3>2, <3>3
  <2> QED BY <2>1, <2>2
<1>14. HistoryOK(fd_input, p, r, k + 1)
  BY <1>8, <1>9, <1>10, <1>11, <1>12, <1>13 DEF HistoryOK
<1> QED BY <1>7, <1>14 DEF x

\* The records that are read at a time are those up to a position m of the list.
LEMMA ReadUpTo ==
  ASSUME fd_input \in FdInputLists, fd_list_idx \in 0 .. Len(fd_input), NEW t \in Int
  PROVE  \E m \in fd_list_idx .. Len(fd_input) :
           /\ to_read(fd_list_idx, t) = (fd_list_idx + 1) .. m
           /\ fd_list_idx + Cardinality(to_read(fd_list_idx, t)) = m
           /\ \A i \in (fd_list_idx + 1) .. m : fd_input[i].time <= t
           /\ \A i \in (m + 1) .. Len(fd_input) : fd_input[i].time > t
<1> DEFINE L == Len(fd_input)
           S == {k \in fd_list_idx .. L : \A i \in (k + 1) .. L : fd_input[i].time > t}
<1>1. L \in Nat /\ fd_list_idx \in Nat /\ fd_list_idx <= L
  BY FdList
<1>2. L \in S /\ S \subseteq Nat
  BY <1>1
<1>3. PICK m \in S : \A k \in S : m <= k
  <2> HIDE DEF S
  <2> QED BY <1>2, LeastNumber
<1>4. m \in fd_list_idx .. L /\ \A i \in (m + 1) .. L : fd_input[i].time > t
  BY <1>3
<1>5. \A i \in 1 .. L : fd_input[i].time \in Nat
  BY FdList
<1>6. m > fd_list_idx => fd_input[m].time <= t
  <2> SUFFICES ASSUME m > fd_list_idx, fd_input[m].time > t PROVE FALSE
    BY <1>1, <1>4, <1>5
  <2>1. m - 1 \in fd_list_idx .. L /\ \A i \in ((m - 1) + 1) .. L : i = m \/ i \in (m + 1) .. L
    BY <1>1, <1>4
  <2>2. m - 1 \in S
    BY <1>4, <2>1
  <2>3. m <= m - 1
    <3> HIDE DEF S
    <3> QED BY <1>3, <2>2
  <2> QED BY <1>1, <1>4, <2>3
<1>7. \A i \in (fd_list_idx + 1) .. m : fd_input[i].time <= t
  <2> SUFFICES ASSUME NEW i \in (fd_list_idx + 1) .. m PROVE fd_input[i].time <= t
    OBVIOUS
  <2>1. i \in 1 .. L /\ m \in 1 .. L /\ i <= m /\ m > fd_list_idx
    BY <1>1, <1>4
  <2>2. fd_input[i].time <= fd_input[m].time
    BY <2>1, FdList
  <2> QED BY <1>5, <1>6, <2>1, <2>2
<1>8. to_read(fd_list_idx, t) = (fd_list_idx + 1) .. m
  <2>1. \A i \in (fd_list_idx + 1) .. L : fd_input[i].time <= t <=> i \in (fd_list_idx + 1) .. m
    <3> SUFFICES ASSUME NEW i \in (fd_list_idx + 1) .. L
                 PROVE  fd_input[i].time <= t <=> i \in (fd_list_idx + 1) .. m
      OBVIOUS
    <3>1. i \in (fd_list_idx + 1) .. m \/ i \in (m + 1) .. L
      BY <1>1, <1>4
    <3>2. i \in 1 .. L /\ fd_input[i].time \in Nat
      BY <1>1, <1>5
    <3>3. CASE i \in (fd_list_idx + 1) .. m
      BY <1>7, <3>3
    <3>4. CASE i \in (m + 1) .. L
      BY <1>4, <3>2, <3>4
    <3> QED BY <3>1, <3>3, <3>4
  <2>2. \A i \in (fd_list_idx + 1) .. m : i \in (fd_list_idx + 1) .. L
    BY <1>1, <1>4
  <2> QED BY <2>1, <2>2 DEF to_read
<1>9. Cardinality((fd_list_idx + 1) .. m) = m - fd_list_idx
  <2> DEFINE a == fd_list_idx + 1
  <2>1. a \in Int /\ m \in Int
    BY <1>1, <1>4
  <2>2. Cardinality(a .. m) = IF a > m THEN 0 ELSE m - a + 1
    <3> HIDE DEF a
    <3> QED BY <2>1, FS_Interval
  <2> QED BY <1>1, <1>4, <2>2
<1> QED BY <1>1, <1>4, <1>7, <1>8, <1>9

\* add_to_history() makes a history of a history.
LEMMA HistoryAdded ==
  ASSUME NEW h \in Seq(FdPoint), Len(h) <= history_length_limit, NEW x \in FdPoint
  PROVE  add_to_history(h, x) \in Seq(FdPoint) /\ Len(add_to_history(h, x)) <= history_length_limit
<1>1. push_front(h, x) \in Seq(FdPoint) /\ Len(push_front(h, x)) <= history_length_limit
  BY PushedHistory
<1>2. CASE Len(h) = 0 \/ Last(h).time < x.time
  BY <1>1, <1>2 DEF add_to_history
<1>3. CASE ~ (Len(h) = 0 \/ Last(h).time < x.time)
  <2>1. Len(h) \in 1 .. Len(h)
    BY <1>3
  <2>2. [h EXCEPT ![Len(h)] = x] \in Seq(FdPoint) /\ Len([h EXCEPT ![Len(h)] = x]) = Len(h)
    BY <2>1, ExceptSeq
  <2> QED BY <1>3, <2>2 DEF add_to_history
<1> QED BY <1>2, <1>3

\* g[i] is the history of region r after record i.
UpdatesBy(g, h, r, t) ==
  /\ g[fd_list_idx] = h
  /\ \A i \in (fd_list_idx + 1) .. Len(fd_input) :
       g[i] = IF i \in to_read(fd_list_idx, t) /\ r \in fd_input[i].regions
              THEN add_to_history(g[i - 1], Point(fd_input, i)) ELSE g[i - 1]

\* What the loop over the list makes of the history of a region
LEMMA UpdateLoop ==
  ASSUME fd_input \in FdInputLists, fd_list_idx \in 0 .. Len(fd_input), NEW t, NEW r,
         NEW h \in Seq(FdPoint), Len(h) <= history_length_limit
  PROVE  \E g : update_history(h, r, t) = g[Len(fd_input)] /\ UpdatesBy(g, h, r, t)
<1> DEFINE H == {x \in Seq(FdPoint) : Len(x) <= history_length_limit}
           a == fd_list_idx
           b == Len(fd_input)
           reads(i) == i \in to_read(fd_list_idx, t) /\ r \in fd_input[i].regions
           take == [i \in (a + 1) .. b |->
                      [x \in H |-> IF reads(i) THEN add_to_history(x, Point(fd_input, i)) ELSE x]]
           Loop(f) == f = [i \in a .. b |-> IF i = a THEN h
                                          ELSE IF reads(i) THEN add_to_history(f[i - 1], Point(fd_input, i))
                                          ELSE f[i - 1]]
           g == CHOOSE f : Loop(f)
<1>1. a \in Int /\ b \in Int /\ a <= b /\ a >= 0
  BY FdList
<1>2. h \in H
  OBVIOUS
<1>3. take \in [(a + 1) .. b -> [H -> H]]
  <2>1. ASSUME NEW i \in (a + 1) .. b, NEW x \in H
        PROVE  (IF reads(i) THEN add_to_history(x, Point(fd_input, i)) ELSE x) \in H
    <3>1. Point(fd_input, i) \in FdPoint
      BY <1>1, PointOfRecord
    <3> QED BY <3>1, HistoryAdded
  <2> HIDE DEF H, reads
  <2> QED BY <2>1
<1>4. PICK f : Iterates(f, H, a, b, h, take)
  <2> HIDE DEF H, take, a, b
  <2> QED BY <1>1, <1>2, <1>3, LoopHasValues
<1> HIDE DEF H, a, b, reads
<1>5. f \in [a .. b -> H] /\ f[a] = h
  BY <1>4 DEF Iterates
<1>6. ASSUME NEW i \in (a + 1) .. b
      PROVE  f[i] = IF reads(i) THEN add_to_history(f[i - 1], Point(fd_input, i)) ELSE f[i - 1]
  <2>1. f[i] = take[i][f[i - 1]]
    BY <1>4 DEF Iterates
  <2>2. i - 1 \in a .. b
    BY <1>1
  <2>3. f[i - 1] \in H
    BY <1>5, <2>2
  <2> QED BY <2>1, <2>3
<1>7. \A i \in a .. b : i = a \/ i \in (a + 1) .. b
  BY <1>1
<1>8. Loop(f)
  BY <1>5, <1>6, <1>7
<1>9. Loop(g)
  <2> HIDE DEF Loop
  <2> QED BY <1>8, Zenon
<1>10. update_history(h, r, t) = g[Len(fd_input)]
  BY DEF update_history, a, b, reads, Point
<1> HIDE DEF g
<1>11. a \in a .. b /\ \A i \in (a + 1) .. b : i \in a .. b /\ i # a
  BY <1>1
<1>12. g[a] = h /\ \A i \in (a + 1) .. b :
         g[i] = IF reads(i) THEN add_to_history(g[i - 1], Point(fd_input, i)) ELSE g[i - 1]
  BY <1>9, <1>11
<1>13. UpdatesBy(g, h, r, t)
  BY <1>12 DEF UpdatesBy, a, b, reads
<1> QED BY <1>10, <1>13

\* update_history() brings the history of a region to position m of the list.
LEMMA UpdatedHistory ==
  ASSUME fd_input \in FdInputLists, OneRecordPerTime, fd_list_idx \in 0 .. Len(fd_input),
         NEW t, NEW r, NEW h, HistoryOK(fd_input, h, r, fd_list_idx),
         NEW m \in fd_list_idx .. Len(fd_input), to_read(fd_list_idx, t) = (fd_list_idx + 1) .. m
  PROVE  HistoryOK(fd_input, update_history(h, r, t), r, m)
<1>1. h \in Seq(FdPoint) /\ Len(h) <= history_length_limit
  BY DEF HistoryOK
<1>2. PICK g : update_history(h, r, t) = g[Len(fd_input)] /\ UpdatesBy(g, h, r, t)
  BY <1>1, UpdateLoop
<1> DEFINE a == fd_list_idx
           b == Len(fd_input)
<1>3. a \in Nat /\ b \in Nat /\ a <= m /\ m <= b /\ m \in Nat
  BY FdList
<1>4. \A i \in a .. m : HistoryOK(fd_input, g[i], r, i)
  <2> DEFINE Bad == {i \in a .. m : ~ HistoryOK(fd_input, g[i], r, i)}
  <2> SUFFICES ASSUME Bad # {} PROVE FALSE
    OBVIOUS
  <2>1. PICK i \in Bad : \A j \in Bad : i <= j
    <3>1. Bad \subseteq Nat
      BY <1>3
    <3> HIDE DEF Bad
    <3> QED BY <3>1, LeastNumber
  <2>2. i \in a .. m /\ ~ HistoryOK(fd_input, g[i], r, i) /\ i # a
    BY <1>2, <2>1 DEF UpdatesBy
  <2> DEFINE k == i - 1
  <2>3. k \in Nat /\ i = k + 1 /\ k \in a .. m /\ k + 1 <= b /\ i \in (a + 1) .. m
        /\ i \in (a + 1) .. b
    BY <1>3, <2>2
  <2>4. k \notin Bad
    <3>1. ~ (i <= k)
      BY <2>3
    <3> HIDE DEF Bad
    <3> QED BY <2>1, <3>1
  <2>5. HistoryOK(fd_input, g[k], r, k)
    BY <2>3, <2>4
  <2>6. g[i] = IF r \in fd_input[i].regions THEN add_to_history(g[k], Point(fd_input, i)) ELSE g[k]
    BY <1>2, <2>3 DEF UpdatesBy
  <2> HIDE DEF k
  <2>7. CASE r \in fd_input[i].regions
    <3>1. HistoryOK(fd_input, add_to_history(g[k], Point(fd_input, k + 1)), r, k + 1)
      BY <2>3, <2>5, <2>7, OwnRecordKeeps
    <3> QED BY <2>2, <2>3, <2>6, <2>7, <3>1
  <2>8. CASE r \notin fd_input[i].regions
    <3>1. HistoryOK(fd_input, g[k], r, k + 1)
      BY <2>3, <2>5, <2>8, OtherRecordKeeps
    <3> QED BY <2>2, <2>3, <2>6, <2>8, <3>1
  <2> QED BY <2>7, <2>8
<1>5. \A i \in m .. b : g[i] = g[m]
  <2> DEFINE Bad == {i \in m .. b : g[i] # g[m]}
  <2> SUFFICES ASSUME Bad # {} PROVE FALSE
    OBVIOUS
  <2>1. PICK i \in Bad : \A j \in Bad : i <= j
    <3>1. Bad \subseteq Nat
      BY <1>3
    <3> HIDE DEF Bad
    <3> QED BY <3>1, LeastNumber
  <2>2. i \in m .. b /\ g[i] # g[m] /\ i # m
    BY <2>1
  <2>3. i - 1 \in m .. b /\ i \in (a + 1) .. b /\ i \notin (a + 1) .. m /\ ~ (i <= i - 1)
    BY <1>3, <2>2
  <2>4. i - 1 \notin Bad
    <3> HIDE DEF Bad
    <3> QED BY <2>1, <2>3
  <2>5. g[i - 1] = g[m]
    BY <2>3, <2>4
  <2>6. g[i] = g[i - 1]
    BY <1>2, <2>3 DEF UpdatesBy
  <2> QED BY <2>2, <2>5, <2>6
<1>6. m \in a .. m /\ b \in m .. b
  BY <1>3
<1> QED BY <1>2, <1>4, <1>5, <1>6

\* The last record of a set
LEMMA NewestIs ==
  ASSUME NEW S, S \subseteq Nat, NEW i \in S, \A j \in S : j <= i
  PROVE  newest(S) = i
<1>1. \E k \in S : \A j \in S : j <= k
  OBVIOUS
<1>2. newest(S) \in S /\ \A j \in S : j <= newest(S)
  BY <1>1 DEF newest
<1>3. newest(S) \in Nat /\ i \in Nat /\ newest(S) <= i /\ i <= newest(S)
  BY <1>2
<1> QED
  <2> DEFINE n == newest(S)
  <2>1. n \in Nat /\ i \in Nat /\ n <= i /\ i <= n
    BY <1>3
  <2> HIDE DEF n
  <2>2. n = i
    BY <2>1
  <2> QED BY <2>2 DEF n

\* The default value is given to a region that has no record yet.
LEMMA DefaultKeeps ==
  ASSUME fd_input \in FdInputLists, NEW r, NEW h, NEW m \in 0 .. Len(fd_input), HistoryOK(fd_input, h, r, m),
         \A i \in (m + 1) .. Len(fd_input) : fd_input[i].time > 0
  PROVE  /\ HistoryOK(fd_input, with_default(h, r), r, m)
         /\ Len(with_default(h, r)) = 0 => Len(h) = 0 /\ ~ DefaultGiven(r)
<1> DEFINE d == <<DefaultPoint>>
<1>0. h \in Seq(FdPoint) /\ (h = <<>> <=> Len(h) = 0)
  BY DEF HistoryOK
<1>1. CASE h = <<>> /\ DefaultGiven(r)
  <2>1. with_default(h, r) = d
    BY <1>1 DEF with_default, DefaultGiven, DefaultPoint
  <2>2. of_region(fd_input, r, m) = {}
    BY <1>0, <1>1 DEF HistoryOK
  <2>3. d \in Seq(FdPoint) /\ Len(d) = 1 /\ d[1] = DefaultPoint
    BY DEF DefaultPoint, FdPoint
  <2> HIDE DEF d
  <2>4. InForce(fd_input, d[1], r, m)
    BY <1>1, <2>2, <2>3 DEF InForce
  <2>5. \A n \in 1 .. Len(d) : d[n] = DefaultPoint
    BY <2>3
  <2>6. HistoryOK(fd_input, d, r, m)
    BY <2>2, <2>3, <2>4, <2>5 DEF HistoryOK, history_length_limit
  <2> QED BY <2>1, <2>3, <2>6
<1>2. CASE ~ (h = <<>> /\ DefaultGiven(r))
  <2>1. with_default(h, r) = h
    BY <1>2 DEF with_default, DefaultGiven
  <2> QED BY <1>0, <1>2, <2>1
<1> QED BY <1>1, <1>2

\* The records of a region up to a time, when all of them are read
LEMMA UntilTime ==
  ASSUME fd_input \in FdInputLists, NEW r, NEW t \in Nat, NEW m \in 0 .. Len(fd_input),
         \A i \in (m + 1) .. Len(fd_input) : fd_input[i].time > t
  PROVE  /\ fd_until(r, t) = {i \in of_region(fd_input, r, m) : fd_input[i].time <= t}
         /\ fd_before(r, t) = {i \in of_region(fd_input, r, m) : fd_input[i].time < t}
         /\ of_region(fd_input, r, m) \subseteq 1 .. Len(fd_input)
         /\ \A i \in of_region(fd_input, r, m) : i \in Nat /\ fd_input[i].time \in Nat
<1>1. /\ Len(fd_input) \in Nat /\ DOMAIN fd_input = 1 .. Len(fd_input)
      /\ \A i \in 1 .. Len(fd_input) : fd_input[i].time \in Nat
  BY FdList
<1>2. \A i \in 1 .. Len(fd_input) : i \in 1 .. m \/ fd_input[i].time > t
  BY <1>1
<1>3. \A i \in 1 .. m : i \in 1 .. Len(fd_input)
  BY <1>1
<1>4. \A i \in 1 .. Len(fd_input) : fd_input[i].time <= t => i \in 1 .. m
  BY <1>1, <1>2
<1>5. \A i \in 1 .. Len(fd_input) : fd_input[i].time < t => fd_input[i].time <= t
  BY <1>1
<1> QED BY <1>1, <1>3, <1>4, <1>5 DEF fd_until, fd_before, of_region

\* The instance that is picked from a history is the one expected at the time and side.
LEMMA PickedInForce ==
  ASSUME fd_input \in FdInputLists, OneRecordPerTime, NEW r, NEW h, NEW m \in 0 .. Len(fd_input),
         HistoryOK(fd_input, h, r, m), NEW t \in Nat, NEW side \in {"left", "right"},
         \A i \in (m + 1) .. Len(fd_input) : fd_input[i].time > t,
         Len(h) > 0, ~ (t < h[1].time)
  PROVE  h[i_history(h, t, side)].field \in expected(r, t, side)
<1> DEFINE R == of_region(fd_input, r, m)
           upto == fd_until(r, t)
           strict == fd_before(r, t)
<1>1. /\ upto = {i \in R : fd_input[i].time <= t} /\ strict = {i \in R : fd_input[i].time < t}
      /\ R \subseteq 1 .. Len(fd_input) /\ \A i \in R : i \in Nat /\ fd_input[i].time \in Nat
  BY UntilTime, ZenonT(60)
<1>2. InForce(fd_input, h[1], r, m) /\ h \in Seq(FdPoint) /\ Len(h) \in Nat
  BY DEF HistoryOK
<1>5. (Len(h) = 1 \/ Len(h) >= 2) /\ (Len(h) >= 2 => Len(h) # 1)
  <2> DEFINE n == Len(h)
  <2>1. n \in Nat /\ n > 0
    BY <1>2
  <2> HIDE DEF n
  <2>2. (n = 1 \/ n >= 2) /\ (n >= 2 => n # 1)
    BY <2>1
  <2> QED BY <2>2 DEF n
<1> HIDE DEF upto, strict
<1>3. CASE h[1] = DefaultPoint /\ R = {} /\ DefaultGiven(r)
  <2>1. upto = {} /\ strict = {}
    BY <1>1, <1>3
  <2>2. expected(r, t, side) = {0}
    BY <1>3, <2>1 DEF expected, DefaultGiven, upto, strict
  <2>3. Len(h) = 1
    <3> SUFFICES ASSUME Len(h) >= 2 PROVE FALSE
      BY <1>5
    <3>1. h[1].field > 0
      BY DEF HistoryOK
    <3> QED BY <1>3, <3>1 DEF DefaultPoint
  <2>4. i_history(h, t, side) = 1
    BY <2>3 DEF i_history
  <2> QED BY <1>3, <2>2, <2>4 DEF DefaultPoint
<1>4. CASE \E i \in R : h[1] = Point(fd_input, i) /\ \A j \in R : j <= i
  <2>1. PICK i \in R : h[1] = Point(fd_input, i) /\ \A j \in R : j <= i
    BY <1>4
  <2>2. i \in 1 .. Len(fd_input) /\ i \in Nat /\ fd_input[i].time \in Nat
    BY <1>1
  <2>3. h[1].time = fd_input[i].time /\ h[1].field = i /\ fd_input[i].time <= t
    BY <2>1, <2>2, PointOfRecord
  <2>4. i \in upto /\ upto \subseteq Nat /\ \A j \in upto : j <= i
    BY <1>1, <2>1, <2>3
  <2>5. newest(upto) = i
    BY <2>4, NewestIs
  <2>6. CASE side = "right"
    <3>1. expected(r, t, side) = {i}
      BY <2>4, <2>5, <2>6 DEF expected, upto
    <3>2. i_history(h, t, side) = 1
      BY <2>6 DEF i_history
    <3> QED BY <2>3, <3>1, <3>2
  <2>7. CASE side = "left" /\ t > h[1].time
    <3>1. i \in strict /\ strict \subseteq Nat /\ \A j \in strict : j <= i
      BY <1>1, <2>1, <2>3, <2>7
    <3>2. newest(strict) = i
      BY <3>1, NewestIs
    <3>3. expected(r, t, side) = {i}
      BY <2>7, <3>1, <3>2 DEF expected, strict
    <3>4. i_history(h, t, side) = 1
      BY <2>7 DEF i_history
    <3> QED BY <2>3, <3>3, <3>4
  <2>8. CASE side = "left" /\ t = h[1].time /\ Len(h) = 1
    <3>1. \A j \in R : j = i
      BY <2>8 DEF HistoryOK
    <3>2. strict = {}
      BY <1>1, <2>3, <2>8, <3>1
    <3>3. i \in expected(r, t, side)
      BY <2>4, <2>5, <2>8, <3>2 DEF expected, strict, upto
    <3>4. i_history(h, t, side) = 1
      BY <2>8 DEF i_history
    <3> QED BY <2>3, <3>3, <3>4
  <2>9. CASE side = "left" /\ t = h[1].time /\ Len(h) >= 2
    <3>1. InForce(fd_input, h[2], r, i - 1)
      BY <2>3, <2>9 DEF HistoryOK
    <3>2. i_history(h, t, side) = 2
      <4>3. Len(h) # 1
        BY <1>5, <2>9, Zenon
      <4>4. side # "right"
        BY <2>9
      <4>1. Len(h) # 1 /\ side # "right"
        BY <4>3, <4>4
      <4>2. ~ (t > h[1].time)
        BY <2>2, <2>3, <2>9
      <4> QED BY <4>1, <4>2, Zenon DEF i_history
    <3>3. \A j \in strict : j \in R /\ j # i /\ j <= i
      BY <1>1, <2>1, <2>3, <2>9
    <3>4. \A j \in strict : j \in of_region(fd_input, r, i - 1)
      BY <2>2, <3>3 DEF of_region
    <3>5. \A j \in of_region(fd_input, r, i - 1) : j \in R /\ j < i /\ j \in 1 .. Len(fd_input)
                                          /\ r \in fd_input[j].regions
      BY <2>2, FdList DEF of_region
    <3>6. r \in fd_input[i].regions
      BY DEF of_region
    <3>7. \A j \in of_region(fd_input, r, i - 1) : fd_input[j].time < fd_input[i].time
      BY <2>2, <3>5, <3>6, LaterRecord
    <3>8. strict = of_region(fd_input, r, i - 1)
      BY <1>1, <2>3, <2>9, <3>4, <3>5, <3>7
    <3>9. CASE h[2] = DefaultPoint /\ strict = {} /\ DefaultGiven(r)
      <4>1. expected(r, t, side) = {i, 0}
        BY <2>4, <2>5, <2>9, <3>9 DEF expected, DefaultGiven, upto, strict
      <4> QED BY <3>2, <3>9, <4>1 DEF DefaultPoint
    <3>10. CASE \E j \in strict : h[2] = Point(fd_input, j) /\ \A k \in strict : k <= j
      <4>1. PICK j \in strict : h[2] = Point(fd_input, j) /\ \A k \in strict : k <= j
        BY <3>10
      <4>2. strict \subseteq Nat
        BY <1>1
      <4>3. newest(strict) = j
        BY <4>1, <4>2, NewestIs
      <4>4. expected(r, t, side) = {j}
        BY <2>9, <4>1, <4>3 DEF expected, strict
      <4>5. j \in 1 .. Len(fd_input)
        BY <3>5, <3>8
      <4>6. h[2].field = j
        BY <4>1, <4>5, PointOfRecord
      <4> QED BY <3>2, <4>4, <4>6
    <3> QED BY <3>1, <3>8, <3>9, <3>10 DEF InForce
  <2>10. t > h[1].time \/ t = h[1].time
    BY <2>2, <2>3
  <2> QED BY <1>5, <2>6, <2>7, <2>8, <2>9, <2>10
<1> QED BY <1>2, <1>3, <1>4 DEF InForce

\* The history a region has after set_time(): at position m of the list, and empty only for a
\* region that has had no record and has no default value.
LEMMA HistoryAtTime ==
  ASSUME fd_input \in FdInputLists, OneRecordPerTime, fd_list_idx \in 0 .. Len(fd_input),
         NEW t \in Nat, NEW r, HistoryOK(fd_input, region_history[r], r, fd_list_idx),
         NEW m \in fd_list_idx .. Len(fd_input), to_read(fd_list_idx, t) = (fd_list_idx + 1) .. m,
         \A i \in (m + 1) .. Len(fd_input) : fd_input[i].time > t
  PROVE  LET h == with_default(update_history(region_history[r], r, t), r)
         IN  /\ HistoryOK(fd_input, h, r, m)
             /\ h # <<>> <=> Len(h) > 0
             /\ Len(h) = 0 => /\ ~ DefaultGiven(r) /\ of_region(fd_input, r, m) = {}
                              /\ Len(region_history[r]) = 0
<1> DEFINE u == update_history(region_history[r], r, t)
           h == with_default(u, r)
<1>1. Len(fd_input) \in Nat /\ m \in 0 .. Len(fd_input) /\ m >= fd_list_idx
      /\ \A i \in 1 .. Len(fd_input) : fd_input[i].time \in Nat
  BY FdList
<1>2. HistoryOK(fd_input, u, r, m)
  BY UpdatedHistory
<1>3. \A i \in (m + 1) .. Len(fd_input) : fd_input[i].time > 0
  BY <1>1
<1> HIDE DEF u
<1>4. HistoryOK(fd_input, h, r, m) /\ (Len(h) = 0 => Len(u) = 0 /\ ~ DefaultGiven(r))
  BY <1>1, <1>2, <1>3, DefaultKeeps
<1> HIDE DEF h
<1>5. h \in Seq(FdPoint) /\ (Len(h) = 0 => of_region(fd_input, r, m) = {})
  BY <1>4 DEF HistoryOK
<1>6. (h # <<>> <=> Len(h) > 0) /\ (h = <<>> <=> Len(h) = 0)
  BY <1>5
<1>7. ASSUME Len(h) = 0 PROVE Len(region_history[r]) = 0
  <2> DEFINE g == region_history[r]
  <2>1. of_region(fd_input, r, m) = {} /\ ~ DefaultGiven(r)
    BY <1>4, <1>5, <1>7
  <2>2. of_region(fd_input, r, fd_list_idx) = {}
    BY <1>1, <2>1 DEF of_region
  <2>3. ~ InForce(fd_input, g[1], r, fd_list_idx)
    BY <2>1, <2>2 DEF InForce
  <2>4. g \in Seq(FdPoint) /\ (Len(g) > 0 => InForce(fd_input, g[1], r, fd_list_idx))
    BY DEF HistoryOK
  <2>5. ~ (Len(g) > 0)
    BY <2>3, <2>4
  <2> HIDE DEF g
  <2>6. Len(g) \in Nat
    BY <2>4
  <2>7. Len(g) = 0
    BY <2>5, <2>6
  <2> QED BY <2>7 DEF g
<1> QED BY <1>4, <1>5, <1>6, <1>7 DEF h, u

\* The position taken in a history that is not empty
LEMMA PositionInHistory ==
  ASSUME NEW h \in Seq(FdPoint), Len(h) > 0, NEW t, NEW side
  PROVE  i_history(h, t, side) \in 1 .. Len(h) /\ h[i_history(h, t, side)].field \in Nat
         /\ h[1].time \in Nat
<1> DEFINE n == Len(h)
<1>1. n \in Nat /\ n > 0
  OBVIOUS
<1>2. 1 \in 1 .. n /\ (n # 1 => 2 \in 1 .. n)
  <2> HIDE DEF n
  <2> QED BY <1>1
<1>3. i_history(h, t, side) \in 1 .. n
  <2>1. CASE t > h[1].time \/ side = "right" \/ Len(h) = 1
    <3>1. i_history(h, t, side) = 1
      BY <2>1 DEF i_history
    <3> QED BY <1>2, <3>1
  <2>2. CASE ~ (t > h[1].time \/ side = "right" \/ Len(h) = 1)
    <3>1. i_history(h, t, side) = 2 /\ n # 1
      BY <2>2 DEF i_history
    <3> QED BY <1>2, <3>1
  <2> QED BY <2>1, <2>2
<1>4. \A k \in 1 .. Len(h) : h[k] \in FdPoint
  OBVIOUS
<1>5. \A k \in 1 .. Len(h) : h[k].field \in Nat /\ h[k].time \in Nat
  BY <1>4 DEF FdPoint
<1> QED BY <1>2, <1>3, <1>5

\* set_time() of one copy keeps all parts of the invariant.
LEMMA SetTimeKeeps ==
  ASSUME OneRecordPerTime, FdInv, NEW c \in FdCopies, NEW t \in FdStepEnds,
         NEW side \in {"left", "right"}, FdSetTime(c, t, side)
  PROVE  FdInv'
<1> DEFINE hist == [r \in FdRegions |-> with_default(update_history(region_history[r], r, t), r)]
           set == {r \in FdRegions : hist[r] # <<>>}
           chosen == [r \in FdRegions |-> IF r \in set THEN hist[r][i_history(hist[r], t, side)].field
                                          ELSE fd_copy[c].fields[r]]
           jumps == \E r \in set : hist[r][1].time = t
           changes == \E r \in set : \/ chosen[r] # fd_copy[c].fields[r]
                                     \/ chosen[r] > 0 /\ fd_input[chosen[r]].varies
           missing == \E r \in FdRegions \ (set \cup FdNotNeeded) : TRUE
           back == \E r \in set : t < hist[r][1].time
           fields == IF fd_failed' = "no" THEN chosen ELSE fd_copy[c].fields
<1>1. /\ fd_input \in FdInputLists /\ fd_list_idx \in 0 .. Len(fd_input) /\ t \in Nat
      /\ fd_failed = "no" /\ fd_input' = fd_input /\ t >= fd_copy[c].last_time
  BY CopiesAssumption DEF FdInv, FdTypeOK, FdSetTime, may_be_set
<1>2. /\ fd_list_idx' = fd_list_idx + Cardinality(to_read(fd_list_idx, t))
      /\ region_history' = hist
      /\ fd_failed' = IF missing THEN "missing value" ELSE IF back THEN "back in history" ELSE "no"
  BY DEF FdSetTime
<1>3. fd_copy' = [fd_copy EXCEPT ![c] = [last_time |-> t, side |-> side, jump |-> jumps,
                                         changed |-> changes, fields |-> fields]]
  BY DEF FdSetTime
<1>4. PICK m \in fd_list_idx .. Len(fd_input) :
           /\ to_read(fd_list_idx, t) = (fd_list_idx + 1) .. m
           /\ fd_list_idx + Cardinality(to_read(fd_list_idx, t)) = m
           /\ \A i \in (fd_list_idx + 1) .. m : fd_input[i].time <= t
           /\ \A i \in (m + 1) .. Len(fd_input) : fd_input[i].time > t
  BY <1>1, ReadUpTo
<1>5. fd_list_idx' = m
  BY <1>2, <1>4
<1>6. /\ Len(fd_input) \in Nat /\ m \in 0 .. Len(fd_input) /\ m \in Nat /\ fd_list_idx \in Nat
      /\ DOMAIN fd_input = 1 .. Len(fd_input)
      /\ \A i \in 1 .. Len(fd_input) : fd_input[i].time \in Nat
      /\ \A i, j \in 1 .. Len(fd_input) : i <= j => fd_input[i].time <= fd_input[j].time
  BY <1>1, FdList
<1>7. ASSUME NEW r \in FdRegions
      PROVE  /\ HistoryOK(fd_input, hist[r], r, m)
             /\ r \in set <=> Len(hist[r]) > 0
             /\ r \notin set <=> Len(hist[r]) = 0
             /\ r \notin set => /\ ~ DefaultGiven(r) /\ of_region(fd_input, r, m) = {}
                                /\ Len(region_history[r]) = 0
  <2> DEFINE h == with_default(update_history(region_history[r], r, t), r)
  <2>1. HistoryOK(fd_input, region_history[r], r, fd_list_idx)
    BY DEF FdInv, HistoriesOK
  <2>2. /\ HistoryOK(fd_input, h, r, m)
        /\ h # <<>> <=> Len(h) > 0
        /\ Len(h) = 0 => /\ ~ DefaultGiven(r) /\ of_region(fd_input, r, m) = {}
                         /\ Len(region_history[r]) = 0
    BY <1>1, <1>4, <2>1, HistoryAtTime
  <2>3. Len(h) \in Nat
    BY <2>2 DEF HistoryOK
  <2>4. hist[r] = h
    OBVIOUS
  <2> HIDE DEF h, hist
  <2>5. h = <<>> <=> ~ (Len(h) > 0)
    BY <2>2
  <2>6. Len(h) = 0 <=> ~ (Len(h) > 0)
    <3> DEFINE n == Len(h)
    <3>1. n \in Nat
      BY <2>3
    <3> HIDE DEF n
    <3>2. n = 0 <=> ~ (n > 0)
      BY <3>1
    <3> QED BY <3>2 DEF n
  <2> QED BY <2>2, <2>4, <2>5, <2>6
<1> HIDE DEF hist
<1>8. ASSUME NEW r \in set
      PROVE  /\ r \in FdRegions /\ hist[r] \in Seq(FdPoint) /\ Len(hist[r]) > 0
             /\ InForce(fd_input, hist[r][1], r, m) /\ hist[r][1].time \in Nat /\ chosen[r] \in Nat
  <2>1. r \in FdRegions /\ HistoryOK(fd_input, hist[r], r, m) /\ Len(hist[r]) > 0
    BY <1>7
  <2>2. hist[r] \in Seq(FdPoint) /\ InForce(fd_input, hist[r][1], r, m)
    BY <2>1 DEF HistoryOK
  <2>3. hist[r][1].time \in Nat /\ hist[r][i_history(hist[r], t, side)].field \in Nat
    BY <2>1, <2>2, PositionInHistory
  <2>4. chosen[r] = hist[r][i_history(hist[r], t, side)].field
    BY <2>1
  <2> QED BY <2>1, <2>2, <2>3, <2>4
<1> HIDE DEF set
<1>9. set \subseteq FdRegions
  BY DEF set
<1>10. fd_copy[c].fields \in [FdRegions -> Int] /\ fd_copy[c].last_time \in Int
  BY DEF FdInv, FdTypeOK
<1>11. fields \in [FdRegions -> Int]
  <2>1. \A r \in FdRegions : chosen[r] \in Int
    <3> SUFFICES ASSUME NEW r \in FdRegions PROVE chosen[r] \in Int
      OBVIOUS
    <3>1. CASE r \in set
      <4>1. chosen[r] \in Nat
        BY <1>8, <3>1
      <4> HIDE DEF chosen
      <4> QED BY <4>1
    <3>2. CASE r \notin set
      BY <1>10, <3>2
    <3> QED BY <3>1, <3>2
  <2>2. chosen = [r \in FdRegions |-> chosen[r]]
    OBVIOUS
  <2> HIDE DEF chosen
  <2>3. chosen \in [FdRegions -> Int]
    BY <2>1, <2>2
  <2> QED BY <1>10, <2>3
<1>12. \A r \in FdRegions : r \notin set => chosen[r] = fd_copy[c].fields[r]
  OBVIOUS
<1>13. \A r \in set : chosen[r] = hist[r][i_history(hist[r], t, side)].field
  BY <1>9
<1> HIDE DEF chosen
<1>14. /\ fd_copy'[c].last_time = t /\ fd_copy'[c].side = side /\ fd_copy'[c].jump = jumps
       /\ fd_copy'[c].fields = fields
       /\ \A d \in FdCopies : d # c => fd_copy'[d] = fd_copy[d]
  BY <1>3 DEF FdInv, FdTypeOK
<1>15. FdTypeOK'
  <2>1. jumps \in BOOLEAN /\ changes \in BOOLEAN
    OBVIOUS
  <2> HIDE DEF jumps, changes, fields, missing, back
  <2>2. fd_copy' \in [FdCopies -> [last_time : Int, side : {"left", "right"}, jump : BOOLEAN,
                                   changed : BOOLEAN, fields : [FdRegions -> Int]]]
    BY <1>1, <1>3, <1>11, <2>1 DEF FdInv, FdTypeOK
  <2>3. \A d \in FdCopies : fd_copy'[d].last_time = fd_past \/ fd_copy'[d].last_time \in FdStepEnds
    BY <1>14 DEF FdInv, FdTypeOK
  <2>4. fd_failed' \in {"no", "missing value", "back in history"}
    BY <1>2
  <2>5. region_history' = [r \in FdRegions |-> region_history'[r]]
    BY <1>2 DEF hist
  <2> QED BY <1>1, <1>5, <1>6, <2>2, <2>3, <2>4, <2>5 DEF FdTypeOK
<1>16. HistoriesOK'
  <2>1. \A r \in FdRegions : HistoryOK(fd_input, hist[r], r, m)
    BY <1>7
  <2>2. ASSUME NEW r \in FdRegions PROVE HistoryOK(fd_input, region_history[r], r, fd_list_idx)'
    BY <1>1, <1>2, <1>5, <2>1
  <2> QED BY <2>2 DEF HistoriesOK
<1>17. ReadBySomeone'
  <2> SUFFICES ASSUME NEW i \in 1 .. m
               PROVE  \E d \in FdCopies : fd_copy'[d].last_time >= fd_input[i].time
    BY <1>1, <1>5 DEF ReadBySomeone
  <2>1. CASE i \in (fd_list_idx + 1) .. m
    <3>1. fd_input[i].time <= t /\ i \in 1 .. Len(fd_input)
      BY <1>4, <1>6, <2>1
    <3>2. fd_copy'[c].last_time >= fd_input[i].time
      BY <1>1, <1>6, <1>14, <3>1
    <3> QED BY <3>2
  <2>2. CASE i \in 1 .. fd_list_idx
    <3>1. PICK d \in FdCopies : fd_copy[d].last_time >= fd_input[i].time
      BY <2>2 DEF FdInv, ReadBySomeone
    <3>2. fd_input[i].time \in Nat
      BY <1>6
    <3>3. CASE d = c
      BY <1>1, <1>10, <1>14, <3>1, <3>2, <3>3
    <3>4. CASE d # c
      BY <1>14, <3>1, <3>4
    <3> QED BY <3>3, <3>4
  <2> QED BY <1>6, <2>1, <2>2
<1>18. EmptyUnset'
  <2> SUFFICES ASSUME NEW r \in FdRegions, Len(hist[r]) = 0, NEW d \in FdCopies
               PROVE  fd_copy'[d].fields[r] = fd_none
    BY <1>2 DEF EmptyUnset
  <2>1. r \notin set /\ Len(region_history[r]) = 0
    BY <1>7
  <2>2. fd_copy[d].fields[r] = fd_none /\ fd_copy[c].fields[r] = fd_none
    BY <2>1 DEF FdInv, EmptyUnset
  <2>3. CASE d = c
    BY <1>12, <1>14, <2>1, <2>2, <2>3
  <2>4. CASE d # c
    BY <1>14, <2>2, <2>4
  <2> QED BY <2>3, <2>4
<1>19. JumpNoticed'
  <2> SUFFICES ASSUME fd_failed' = "no", NEW d \in FdCopies, fd_copy'[d].last_time # fd_past,
                      ~ fd_copy'[d].jump, NEW i \in DOMAIN fd_input, NEW r \in FdRegions,
                      r \in fd_input[i].regions, fd_input[i].time = fd_copy'[d].last_time
               PROVE  FALSE
    BY <1>1 DEF JumpNoticed, fd_past
  <2>1. d = c
    BY <1>1, <1>14 DEF FdInv, JumpNoticed, fd_past
  <2>2. ~ jumps /\ fd_input[i].time = t /\ i \in 1 .. Len(fd_input)
    BY <1>6, <1>14, <2>1
  <2>3. i \in 1 .. m
    BY <1>1, <1>4, <1>6, <2>2
  <2>4. i \in of_region(fd_input, r, m)
    BY <2>3 DEF of_region
  <2>5. r \in set
    BY <1>7, <2>4
  <2>6. PICK k \in of_region(fd_input, r, m) : hist[r][1] = Point(fd_input, k) /\ \A j \in of_region(fd_input, r, m) : j <= k
    BY <1>8, <2>4, <2>5 DEF InForce
  <2>7. k \in 1 .. Len(fd_input) /\ i <= k
    BY <1>6, <2>4, <2>6 DEF of_region
  <2>8. hist[r][1].time = fd_input[k].time /\ fd_input[k].time >= t /\ fd_input[k].time \in Nat
    BY <1>1, <1>6, <2>2, <2>6, <2>7, PointOfRecord
  <2>9. ~ back
    <3> HIDE DEF missing, back
    <3> QED BY <1>2
  <2>10. ~ (t < hist[r][1].time)
    BY <2>5, <2>9
  <2>11. hist[r][1].time = t
    BY <1>1, <2>8, <2>10
  <2> QED BY <2>2, <2>5, <2>11
<1>20. CopySeesRecordInForce'
  <2> SUFFICES ASSUME fd_failed' = "no", NEW d \in FdCopies, fd_copy'[d].last_time # fd_past,
                      NEW r \in FdRegions
               PROVE  fd_copy'[d].fields[r]
                        \in expected(r, fd_copy[d].last_time, fd_copy[d].side)'
    BY DEF CopySeesRecordInForce, fd_past
  <2> DEFINE x == fd_copy'[d].last_time
             s == fd_copy'[d].side
  <2>1. expected(r, fd_copy[d].last_time, fd_copy[d].side)' = expected(r, x, s)
    BY <1>1 DEF expected, fd_until, fd_before, newest
  <2>2. CASE d # c
    BY <1>1, <1>14, <2>1, <2>2 DEF FdInv, CopySeesRecordInForce, fd_past
  <2>3. CASE d = c
    <3>1. x = t /\ s = side /\ fd_copy'[d].fields[r] = chosen[r]
      BY <1>14, <2>3
    <3>2. ~ back /\ ~ missing
      <4> HIDE DEF missing, back
      <4> QED BY <1>2
    <3>3. CASE r \in set
      <4>1. HistoryOK(fd_input, hist[r], r, m) /\ Len(hist[r]) > 0
        BY <1>7, <3>3
      <4>2. ~ (t < hist[r][1].time)
        BY <3>2, <3>3
      <4>3. hist[r][i_history(hist[r], t, side)].field \in expected(r, t, side)
        BY <1>1, <1>4, <1>6, <4>1, <4>2, PickedInForce
      <4> QED BY <1>13, <2>1, <3>1, <3>3, <4>3
    <3>4. CASE r \notin set
      <4>1. ~ DefaultGiven(r) /\ of_region(fd_input, r, m) = {} /\ Len(region_history[r]) = 0
        BY <1>7, <3>4
      <4>2. chosen[r] = fd_none
        BY <1>12, <3>4, <4>1 DEF FdInv, EmptyUnset
      <4>3. fd_until(r, t) = {} /\ fd_before(r, t) = {}
        <5>1. /\ fd_until(r, t) = {i \in of_region(fd_input, r, m) : fd_input[i].time <= t}
              /\ fd_before(r, t) = {i \in of_region(fd_input, r, m) : fd_input[i].time < t}
          BY <1>1, <1>4, <1>6, UntilTime, SMTT(30)
        <5> QED BY <4>1, <5>1
      <4>4. expected(r, t, side) = {fd_none}
        BY <4>1, <4>3 DEF expected, DefaultGiven
      <4> QED BY <2>1, <3>1, <4>2, <4>4
    <3> QED BY <3>3, <3>4
  <2> QED BY <2>2, <2>3
<1>21. FailsOnlyBehindRecord'
  <2>0. fd_failed' = "back in history" => back
    <3> HIDE DEF missing, back
    <3> QED BY <1>2
  <2> SUFFICES ASSUME back
               PROVE  \E b, d \in FdCopies, i \in DOMAIN fd_input :
                        /\ fd_copy'[b].last_time < fd_input[i].time
                        /\ fd_input[i].time <= fd_copy'[d].last_time
    BY <1>1, <2>0, Zenon DEF FailsOnlyBehindRecord
  <2>1. back
    OBVIOUS
  <2>2. PICK r \in set : t < hist[r][1].time
    BY <2>1
  <2>3. hist[r][1] # DefaultPoint
    BY <1>1, <2>2 DEF DefaultPoint
  <2>4. PICK i \in of_region(fd_input, r, m) : hist[r][1] = Point(fd_input, i)
    BY <1>8, <2>3 DEF InForce
  <2>5. i \in 1 .. m /\ i \in 1 .. Len(fd_input)
    BY <1>6 DEF of_region
  <2>6. t < fd_input[i].time /\ fd_input[i].time \in Nat
    BY <1>1, <1>6, <2>2, <2>4, <2>5, PointOfRecord
  <2>7. i \in 1 .. fd_list_idx
    <3>1. ~ (fd_input[i].time <= t)
      BY <1>1, <2>6
    <3>2. i \notin (fd_list_idx + 1) .. m
      BY <1>4, <3>1
    <3> QED BY <1>6, <2>5, <3>2
  <2>8. PICK d \in FdCopies : fd_copy[d].last_time >= fd_input[i].time
    BY <2>7 DEF FdInv, ReadBySomeone
  <2>9. fd_copy[d].last_time \in Int
    BY DEF FdInv, FdTypeOK
  <2>10. d # c
    BY <1>1, <1>10, <2>6, <2>8
  <2>11. fd_copy'[c].last_time < fd_input[i].time /\ fd_input[i].time <= fd_copy'[d].last_time
    BY <1>14, <2>6, <2>8, <2>9, <2>10
  <2> QED BY <1>6, <2>5, <2>11
<1> QED BY <1>15, <1>16, <1>17, <1>18, <1>19, <1>20, <1>21 DEF FdInv

\* So does a call that finds the copy up to date: without a jump at the time both sides see
\* one record.
LEMMA SkipSetTimeKeeps ==
  ASSUME FdInv, NEW c \in FdCopies, NEW t \in FdStepEnds, NEW side \in {"left", "right"},
         FdSkipSetTime(c, t, side)
  PROVE  FdInv'
<1>1. /\ fd_failed = "no" /\ t = fd_copy[c].last_time /\ (~ fd_copy[c].jump \/ side = fd_copy[c].side)
      /\ fd_input \in FdInputLists /\ t \in Nat /\ t # fd_past
      /\ fd_input' = fd_input /\ fd_list_idx' = fd_list_idx /\ region_history' = region_history
      /\ fd_failed' = fd_failed /\ fd_copy' = [fd_copy EXCEPT ![c].side = side]
  BY CopiesAssumption DEF FdInv, FdTypeOK, FdSkipSetTime, up_to_date, fd_past
<1>2. \A d \in FdCopies : /\ fd_copy'[d].last_time = fd_copy[d].last_time
                          /\ fd_copy'[d].fields = fd_copy[d].fields
                          /\ fd_copy'[d].jump = fd_copy[d].jump
                          /\ d # c => fd_copy'[d] = fd_copy[d]
  BY <1>1 DEF FdInv, FdTypeOK
<1>3. FdTypeOK'
  <2>1. fd_copy' \in [FdCopies -> [last_time : Int, side : {"left", "right"}, jump : BOOLEAN,
                                   changed : BOOLEAN, fields : [FdRegions -> Int]]]
    BY <1>1 DEF FdInv, FdTypeOK
  <2>2. \A d \in FdCopies : fd_copy'[d].last_time = fd_past \/ fd_copy'[d].last_time \in FdStepEnds
    BY <1>2 DEF FdInv, FdTypeOK
  <2> QED BY <1>1, <2>1, <2>2 DEF FdInv, FdTypeOK
<1>4. HistoriesOK'
  BY <1>1 DEF FdInv, HistoriesOK
<1>5. ReadBySomeone' /\ EmptyUnset'
  BY <1>1, <1>2 DEF FdInv, ReadBySomeone, EmptyUnset
<1>6. JumpNoticed'
  BY <1>1, <1>2 DEF FdInv, JumpNoticed, fd_past
<1>7. FailsOnlyBehindRecord'
  BY <1>1 DEF FailsOnlyBehindRecord
<1>8. CopySeesRecordInForce'
  <2> SUFFICES ASSUME NEW d \in FdCopies, fd_copy'[d].last_time # fd_past, NEW r \in FdRegions
               PROVE  fd_copy'[d].fields[r]
                        \in expected(r, fd_copy[d].last_time, fd_copy[d].side)'
    BY DEF CopySeesRecordInForce, fd_past
  <2> DEFINE x == fd_copy'[d].last_time
             s == fd_copy'[d].side
  <2>1. expected(r, fd_copy[d].last_time, fd_copy[d].side)' = expected(r, x, s)
    BY <1>1 DEF expected, fd_until, fd_before, newest
  <2>2. fd_copy[d].fields[r] \in expected(r, fd_copy[d].last_time, fd_copy[d].side)
    BY <1>1, <1>2 DEF FdInv, CopySeesRecordInForce
  <2>3. CASE d # c
    BY <1>2, <2>1, <2>2, <2>3
  <2>4. CASE d = c /\ side = fd_copy[c].side
    <3>1. s = fd_copy[d].side
      BY <1>1, <2>4 DEF FdInv, FdTypeOK
    <3> QED BY <1>2, <2>1, <2>2, <3>1
  <2>5. CASE d = c /\ ~ fd_copy[c].jump
    <3>1. \A i \in DOMAIN fd_input : r \in fd_input[i].regions => fd_input[i].time # t
      BY <1>1, <2>5 DEF FdInv, JumpNoticed
    <3>2. \A i \in DOMAIN fd_input : fd_input[i].time \in Nat
      BY <1>1, FdList
    <3>3. fd_until(r, t) = fd_before(r, t)
      BY <1>1, <3>1, <3>2 DEF fd_until, fd_before
    <3>4. expected(r, t, s) = expected(r, t, fd_copy[d].side)
      BY <3>3 DEF expected
    <3> QED BY <1>1, <1>2, <2>1, <2>2, <2>5, <3>4
  <2> QED BY <1>1, <2>3, <2>4, <2>5
<1> QED BY <1>3, <1>4, <1>5, <1>6, <1>7, <1>8 DEF FdInv

\* Every step keeps them, the program's end included.
LEMMA FieldStepKeeps ==
  ASSUME OneRecordPerTime, FdInv, [FdNext]_fd_vars
  PROVE  FdInv'
<1>1. ASSUME NEW c \in FdCopies, NEW t \in FdStepEnds, NEW side \in {"left", "right"},
             FdSetTime(c, t, side) \/ FdSkipSetTime(c, t, side)
      PROVE  FdInv'
  BY <1>1, SetTimeKeeps, SkipSetTimeKeeps
<1>2. CASE UNCHANGED fd_vars
  <2>1. /\ fd_input' = fd_input /\ fd_list_idx' = fd_list_idx /\ region_history' = region_history
        /\ fd_copy' = fd_copy /\ fd_failed' = fd_failed
    BY <1>2 DEF fd_vars
  <2>2. FdTypeOK' /\ HistoriesOK' /\ ReadBySomeone'
    BY <2>1 DEF FdInv, FdTypeOK, HistoriesOK, ReadBySomeone
  <2>3. EmptyUnset' /\ JumpNoticed'
    BY <2>1 DEF FdInv, EmptyUnset, JumpNoticed, fd_past
  <2>4. FailsOnlyBehindRecord'
    BY <2>1 DEF FdInv, FailsOnlyBehindRecord
  <2>5. CopySeesRecordInForce'
    <3> SUFFICES ASSUME fd_failed' = "no", NEW d \in FdCopies, fd_copy'[d].last_time # fd_past,
                        NEW r \in FdRegions
                 PROVE  fd_copy'[d].fields[r]
                          \in expected(r, fd_copy[d].last_time, fd_copy[d].side)'
      BY DEF CopySeesRecordInForce, fd_past
    <3>1. expected(r, fd_copy[d].last_time, fd_copy[d].side)'
            = expected(r, fd_copy[d].last_time, fd_copy[d].side)
      BY <2>1 DEF expected, fd_until, fd_before, newest
    <3>2. fd_copy[d].fields[r] \in expected(r, fd_copy[d].last_time, fd_copy[d].side)
      BY <2>1 DEF FdInv, CopySeesRecordInForce
    <3> QED BY <2>1, <3>1, <3>2
  <2> QED BY <2>2, <2>3, <2>4, <2>5 DEF FdInv
<1> QED BY <1>1, <1>2 DEF FdNext, FdAborted

\* Nothing is read and set at the start.
LEMMA FieldStarts ==
  ASSUME FdInit PROVE FdInv
<1>1. fd_input \in FdInputLists /\ Len(fd_input) \in Nat /\ fd_list_idx = 0
  BY FdList DEF FdInit
<1>2. FdTypeOK
  <2>1. 0 \in 0 .. Len(fd_input)
    BY <1>1
  <2> QED BY <1>1, <2>1 DEF FdInit, FdTypeOK, fd_past, fd_none
<1>3. \A r : of_region(fd_input, r, 0) = {}
  BY DEF of_region
<1>4. <<>> \in Seq(FdPoint) /\ Len(<<>>) = 0
  OBVIOUS
<1>5. \A r : HistoryOK(fd_input, <<>>, r, 0)
  BY <1>3, <1>4 DEF HistoryOK, history_length_limit
<1>6. HistoriesOK
  BY <1>1, <1>5 DEF HistoriesOK, FdInit
<1>7. ReadBySomeone
  BY <1>1 DEF ReadBySomeone
<1>8. EmptyUnset
  BY DEF EmptyUnset, FdInit
<1>9. JumpNoticed /\ CopySeesRecordInForce /\ FailsOnlyBehindRecord
  BY DEF JumpNoticed, CopySeesRecordInForce, FailsOnlyBehindRecord, FdInit
<1> QED BY <1>2, <1>6, <1>7, <1>8, <1>9 DEF FdInv

\* The inductive invariant of a field and its copies
THEOREM FieldInvariant == OneRecordPerTime /\ FdSpec => []FdInv
<1>1. OneRecordPerTime /\ FdInit => FdInv
  BY FieldStarts
<1>2. OneRecordPerTime /\ FdInv /\ [FdNext]_fd_vars => FdInv'
  BY FieldStepKeeps
<1>3. OneRecordPerTime => []OneRecordPerTime
  <2>1. OneRecordPerTime => OneRecordPerTime'
    BY DEF OneRecordPerTime
  <2> QED BY <2>1, PTL
<1> QED BY <1>1, <1>2, <1>3, PTL DEF FdSpec

\* Every copy of a field sees on every region the last record in force at its time and side
\* (Field::set_time), whatever the order in which the copies are set.
THEOREM CopiesSeeRecordInForce == OneRecordPerTime /\ FdSpec => []CopySeesRecordInForce
<1>1. FdInv => CopySeesRecordInForce
  BY DEF FdInv
<1> QED BY <1>1, FieldInvariant, PTL

\* set_time() fails with "back in history" only behind a record another copy has read.
THEOREM FieldFailsOnlyBehind == OneRecordPerTime /\ FdSpec => []FailsOnlyBehindRecord
<1>1. FdInv => FailsOnlyBehindRecord
  BY DEF FdInv
<1> QED BY <1>1, FieldInvariant, PTL

---------------------------------------------------------------------------
(* RegionDB *)

\* Names that the database itself uses.  One of them given to a region is taken for the set.
StandardSets == {"ALL", kind_set(TRUE), kind_set(FALSE)}
Reserved == StandardSets \cup {ImplicitLabel}

\* Names of the mesh and of the input are not those the database uses, and the input gives no
\* name that the database makes from an id.
NamesApart ==
  /\ RgNames \cap Reserved = {}
  /\ \A m \in RgMeshes : \A n \in DOMAIN m.names : m.names[n].label \notin Reserved
  /\ \A id \in RgIds : create_label_from_id(id) \notin RgNames \cup Reserved
  /\ \A m \in RgMeshes : \A n \in DOMAIN m.elements :
       create_label_from_id(m.elements[n].id) \notin RgNames \cup Reserved

IsRegion(r) == r = [id |-> r.id, dim |-> r.dim, label |-> r.label, used |-> r.used]
IsFunction(f) == f = [x \in DOMAIN f |-> f[x]]
IsDb(d) == d = [table |-> d.table, max_id |-> d.max_id, sets |-> d.sets, ok |-> d.ok, region |-> d.region]

same_kind(T, boundary) == {i \in DOMAIN T : is_boundary_index(i) = boundary}
Labels(T) == {T[i].label : i \in DOMAIN T}

\* Indices of each kind are given one after the other.
TableOK(T) ==
  /\ IsFunction(T) /\ IsFiniteSet(DOMAIN T) /\ DOMAIN T \subseteq Nat
  /\ \A i \in DOMAIN T : IsRegion(T[i])
  /\ \A b \in BOOLEAN : \A i \in same_kind(T, b) : i < 2 * Cardinality(same_kind(T, b))

\* The name of a region is that of a set of this region alone.
NamesOK(T, s) ==
  /\ IsFunction(s)
  /\ \A i \in DOMAIN T : /\ T[i].label \in DOMAIN s \ StandardSets /\ s[T[i].label] = {i}
                         /\ "ALL" \in DOMAIN s /\ i \in s["ALL"]

\* All other sets have names of the input.
SetsOK(T, s, N) == DOMAIN s \subseteq StandardSets \cup N \cup Labels(T)

DatabaseOK(T, s, N) == TableOK(T) /\ NamesOK(T, s) /\ SetsOK(T, s, N)

\* Regions keep their ids; those that have a dimension also keep it and the mark of their use.
KeepsRegions(T, U) ==
  \A i \in DOMAIN T :
    /\ i \in DOMAIN U /\ U[i].id = T[i].id
    /\ T[i].dim # undefined_dim => U[i].dim = T[i].dim /\ (T[i].used => U[i].used)

\* Sets with names of the input are made by its records only.
NamesOfSets == IF rg_phase = "names" THEN {} ELSE RgNames

Counts(n, phase, items) == rg_phase = phase => n \in Nat /\ n < Len(items)

\* Where the reading of the mesh is
ReadingOK ==
  /\ rg_mesh \in RgMeshes
  /\ Counts(rg_read, "names", rg_mesh.names) /\ Counts(rg_read, "elements", rg_mesh.elements)
  /\ rg_phase = "regions" => rg_read \in Nat
  /\ rg_phase = "topology" => rg_read = 0
  /\ rg_phase = "finish" => rg_read \in Nat
  /\ rg_phase = "done" => \A x \in DOMAIN el_to_reg_map : x <= rg_read
  /\ rg_phase \in {"names", "regions", "elements", "topology", "finish", "done", "error"}
  /\ DOMAIN el_to_reg_map \subseteq DOMAIN rg_mesh.elements
  /\ rg_phase \in {"names", "regions"} => DOMAIN rg_element = {}
  /\ rg_phase \in {"names", "regions", "elements", "topology"} => ImplicitLabel \notin DOMAIN sets

\* The id that element e has so far
id_so_far(e) ==
  IF rg_phase \in {"finish", "done"} /\ e \in DOMAIN el_to_reg_map /\ e <= rg_read
  THEN el_to_reg_map[e] ELSE rg_mesh.elements[e].id

\* Region i of the table T is a used one of the dimension of element e and of that id.
Placed(e, i, T, id) == i \in DOMAIN T /\ T[i].dim = rg_mesh.elements[e].dim /\ T[i].id = id /\ T[i].used

\* Elements are in used regions of their dimension and id.
PlacesOK ==
  /\ DOMAIN rg_element \subseteq DOMAIN rg_mesh.elements
  /\ rg_phase # "error" =>
       \A e \in DOMAIN rg_element : Placed(e, rg_element[e], region_table, id_so_far(e))

RgInv == DatabaseOK(region_table, sets, NamesOfSets) /\ ReadingOK /\ PlacesOK

\* u is f but for the value v of x.
Assigned(u, f, x, v) ==
  /\ IsFunction(u) /\ DOMAIN u = DOMAIN f \cup {x} /\ u[x] = v
  /\ \A y \in DOMAIN f : y # x => u[y] = f[y]

\* u is the function s of sets with i in the set name as well.
AddedToSet(u, s, name, i) ==
  /\ IsFunction(u) /\ DOMAIN u = DOMAIN s \cup {name} /\ i \in u[name]
  /\ \A x \in DOMAIN s : s[x] \subseteq u[x] /\ (x # name => u[x] = s[x])

\* u is s with a set of a new name.
AddedSet(u, s, name, regions) ==
  /\ IsFunction(u) /\ DOMAIN u = DOMAIN s \cup {name}
  /\ \A x \in DOMAIN s : u[x] = s[x]
  /\ name \notin DOMAIN s => u[name] = regions

\* put() changes one place of a function.
LEMMA PutIs ==
  ASSUME NEW f, NEW x, NEW v PROVE Assigned(put(f, x, v), f, x, v)
BY DEF put, IsFunction, Assigned

\* add_to_set() makes a set larger and leaves the others alone.
LEMMA AddToSetIs ==
  ASSUME NEW s, NEW name, NEW i PROVE AddedToSet(add_to_set(s, name, i), s, name, i)
<1> DEFINE v == IF name \in DOMAIN s THEN s[name] \cup {i} ELSE {i}
<1>1. i \in v /\ (name \in DOMAIN s => s[name] \subseteq v)
  OBVIOUS
<1> DEFINE u == add_to_set(s, name, i)
<1>2. u = put(s, name, v)
  BY DEF add_to_set
<1> HIDE DEF v, u
<1>3. Assigned(u, s, name, v)
  BY <1>2, PutIs
<1>4. ASSUME NEW x \in DOMAIN s PROVE s[x] \subseteq u[x]
  <2>1. CASE x = name
    BY <1>1, <1>3, <2>1 DEF Assigned
  <2>2. CASE x # name
    BY <1>3, <2>2 DEF Assigned
  <2> QED BY <2>1, <2>2
<1>5. i \in u[name]
  BY <1>1, <1>3 DEF Assigned
<1>6. AddedToSet(u, s, name, i)
  BY <1>3, <1>4, <1>5 DEF Assigned, AddedToSet
<1> QED BY <1>6 DEF u

\* add_set() adds a set of a new name.
LEMMA AddSetIs ==
  ASSUME NEW s, IsFunction(s), NEW name, NEW regions
  PROVE  AddedSet(add_set(s, name, regions), s, name, regions)
<1> DEFINE u == add_set(s, name, regions)
<1>1. CASE name \in DOMAIN s
  <2>1. u = s
    BY <1>1 DEF add_set
  <2> QED BY <1>1, <2>1 DEF AddedSet
<1>2. CASE name \notin DOMAIN s
  <2>1. u = put(s, name, regions)
    BY <1>2 DEF add_set
  <2>2. \A x \in DOMAIN s : x # name
    BY <1>2
  <2> HIDE DEF u
  <2>3. Assigned(u, s, name, regions)
    BY <2>1, PutIs
  <2>4. AddedSet(u, s, name, regions)
    BY <1>2, <2>2, <2>3 DEF Assigned, AddedSet
  <2> QED BY <2>4 DEF u
<1> QED BY <1>1, <1>2

\* The two kinds of sets are standard ones.
LEMMA KindIsStandard ==
  ASSUME NEW b \in BOOLEAN PROVE kind_set(b) \in StandardSets
BY DEF StandardSets

\* A region whose record changes in place, under the same name or another one
LEMMA ChangedTable ==
  ASSUME NEW T, TableOK(T), NEW i \in DOMAIN T, NEW r, IsRegion(r),
         NEW U, IsFunction(U), DOMAIN U = DOMAIN T,
         U[i] = r, \A j \in DOMAIN T : j # i => U[j] = T[j]
  PROVE  TableOK(U)
<1>1. \A j \in DOMAIN U : IsRegion(U[j])
  BY DEF TableOK
<1>2. \A b : same_kind(U, b) = same_kind(T, b)
  BY DEF same_kind
<1> QED BY <1>1, <1>2 DEF TableOK

\* The next index of a kind
next_index(T, b) == 2 * Cardinality(same_kind(T, b)) + (IF b THEN 0 ELSE 1)

\* It is not in use, and is of its kind.
LEMMA NextIndexIsNew ==
  ASSUME NEW T, TableOK(T), NEW b \in BOOLEAN
  PROVE  /\ next_index(T, b) \in Nat /\ next_index(T, b) \notin DOMAIN T
         /\ is_boundary_index(next_index(T, b)) = b
<1> DEFINE S == same_kind(T, b)
           c == Cardinality(S)
           i == next_index(T, b)
<1>1. IsFiniteSet(S) /\ S \subseteq DOMAIN T /\ DOMAIN T \subseteq Nat /\ \A j \in S : j < 2 * c
  <2>1. IsFiniteSet(DOMAIN T) /\ S \subseteq DOMAIN T
    BY DEF TableOK, same_kind
  <2> QED BY <2>1, FS_Subset DEF TableOK
<1>2. c \in Nat
  BY <1>1, FS_CardinalityType
<1>3. i = 2 * c + (IF b THEN 0 ELSE 1)
  BY DEF next_index
<1>4. \A j \in DOMAIN T : j \in S <=> is_boundary_index(j) = b
  BY DEF same_kind
<1> HIDE DEF S, c, i
<1>5. i \in Nat /\ is_boundary_index(i) = b
  <2>1. CASE b = TRUE
    <3>1. i = 2 * c
      BY <1>2, <1>3, <2>1
    <3>2. i % 2 = 0
      BY <1>2, <3>1
    <3>3. i \in Nat
      BY <1>2, <3>1
    <3>4. is_boundary_index(i) <=> b
      BY <3>2, <2>1 DEF is_boundary_index
    <3> QED BY <3>3, <3>4 DEF is_boundary_index
  <2>2. CASE b = FALSE
    <3>1. i = 2 * c + 1
      BY <1>2, <1>3, <2>2
    <3>2. i % 2 = 1
      BY <1>2, <3>1
    <3>3. i \in Nat
      BY <1>2, <3>1
    <3>4. is_boundary_index(i) <=> b
      BY <3>2, <2>2 DEF is_boundary_index
    <3> QED BY <3>3, <3>4 DEF is_boundary_index
  <2> QED BY <2>1, <2>2
<1>6. i \notin DOMAIN T
  <2> SUFFICES ASSUME i \in DOMAIN T PROVE FALSE
    OBVIOUS
  <2>1. i < 2 * c
    BY <1>1, <1>4, <1>5
  <2> QED BY <1>2, <1>3, <2>1
<1> QED BY <1>5, <1>6 DEF i

\* A new region at the next index
LEMMA InsertedTable ==
  ASSUME NEW T, TableOK(T), NEW b \in BOOLEAN, NEW r, IsRegion(r),
         NEW U, U = put(T, next_index(T, b), r)
  PROVE  TableOK(U)
<1> DEFINE i == next_index(T, b)
           S(a) == same_kind(T, a)
<1>1. i \in Nat /\ i \notin DOMAIN T /\ is_boundary_index(i) = b
  BY NextIndexIsNew
<1>2. i = 2 * Cardinality(S(b)) + (IF b THEN 0 ELSE 1) /\ U = put(T, i, r)
  BY DEF next_index
<1> HIDE DEF i
<1>3. /\ IsFunction(U) /\ DOMAIN U = DOMAIN T \cup {i} /\ U[i] = r
      /\ \A j \in DOMAIN T : U[j] = T[j]
  <2>1. \A j \in DOMAIN T : j # i
    BY <1>1
  <2>2. Assigned(U, T, i, r)
    BY <1>2, PutIs
  <2> QED BY <2>1, <2>2 DEF Assigned
<1>4. IsFiniteSet(DOMAIN U) /\ DOMAIN U \subseteq Nat
  BY <1>1, <1>3, FS_AddElement DEF TableOK
<1>5. \A j \in DOMAIN U : IsRegion(U[j])
  BY <1>3 DEF TableOK
<1>6. ASSUME NEW a \in BOOLEAN, NEW j \in same_kind(U, a)
      PROVE  j < 2 * Cardinality(same_kind(U, a))
  <2>1. IsFiniteSet(S(a)) /\ i \notin S(a)
    BY <1>1, FS_Subset DEF TableOK, same_kind
  <2>2. CASE a = b
    <3>1. same_kind(U, a) = S(a) \cup {i}
      BY <1>1, <1>3, <2>2 DEF same_kind
    <3>2. Cardinality(same_kind(U, a)) = Cardinality(S(a)) + 1 /\ Cardinality(S(a)) \in Nat
      BY <2>1, <3>1, FS_AddElement, FS_CardinalityType
    <3>3. j = i \/ (j \in S(a) /\ j \in Nat /\ j < 2 * Cardinality(S(a)))
      BY <3>1 DEF TableOK, same_kind
    <3> QED BY <1>1, <1>2, <2>2, <3>2, <3>3
  <2>3. CASE a # b
    <3>1. same_kind(U, a) = S(a)
      BY <1>1, <1>3, <2>3 DEF same_kind
    <3> QED BY <3>1 DEF TableOK
  <2> QED BY <2>2, <2>3
<1> QED BY <1>3, <1>4, <1>5, <1>6 DEF TableOK

\* A value at a place of its own leaves the domain.
LEMMA ExceptIs ==
  ASSUME NEW f, IsFunction(f), NEW x \in DOMAIN f, NEW v
  PROVE  Assigned([f EXCEPT ![x] = v], f, x, v)
BY DEF IsFunction, Assigned

LEMMA ImplicitNotStandard == ImplicitLabel \notin StandardSets
BY DEF ImplicitLabel, StandardSets, kind_set

---------------------------------------------------------------------------
(* RegionDB: the table and the sets *)

\* A region that keeps its id and its name
LEMMA ChangedRegion ==
  ASSUME NEW T, NEW s, NEW N, DatabaseOK(T, s, N), NEW i \in DOMAIN T, NEW r, IsRegion(r),
         r.id = T[i].id, r.label = T[i].label,
         T[i].dim # undefined_dim => r.dim = T[i].dim /\ (T[i].used => r.used),
         NEW U, Assigned(U, T, i, r)
  PROVE  DatabaseOK(U, s, N) /\ KeepsRegions(T, U)
<1>1. /\ IsFunction(U) /\ DOMAIN U = DOMAIN T /\ U[i] = r
      /\ \A j \in DOMAIN T : j # i => U[j] = T[j]
  BY DEF Assigned
<1>2. TableOK(U)
  BY <1>1, ChangedTable DEF DatabaseOK
<1>3. \A j \in DOMAIN T : U[j].label = T[j].label
  BY <1>1
<1>4. NamesOK(U, s)
  BY <1>1, <1>3 DEF DatabaseOK, NamesOK
<1>5. Labels(U) = Labels(T)
  BY <1>1, <1>3 DEF Labels
<1>6. KeepsRegions(T, U)
  BY <1>1 DEF KeepsRegions
<1> QED BY <1>2, <1>4, <1>5, <1>6 DEF DatabaseOK, SetsOK

\* Keeping regions goes from step to step.
LEMMA KeepsTrans ==
  ASSUME NEW T, NEW U, NEW V, KeepsRegions(T, U), KeepsRegions(U, V)
  PROVE  KeepsRegions(T, V)
BY DEF KeepsRegions

LEMMA KeepsSame == ASSUME NEW T PROVE KeepsRegions(T, T)
BY DEF KeepsRegions

\* Sets of more names are allowed.
LEMMA MoreNames ==
  ASSUME NEW T, NEW s, NEW N, NEW M, N \subseteq M, DatabaseOK(T, s, N)
  PROVE  DatabaseOK(T, s, M)
BY DEF DatabaseOK, SetsOK

\* A name that is no label and none of the input is free for a set.
LEMMA FreeName ==
  ASSUME NEW d, NEW N, DatabaseOK(d.table, d.sets, N), NEW label, label \notin N \cup StandardSets,
         with_label(d, label) = {}
  PROVE  label \notin DOMAIN d.sets
<1>1. label \notin Labels(d.table)
  BY DEF with_label, Labels
<1> QED BY <1>1 DEF DatabaseOK, SetsOK

\* insert_region() puts the region r into the table T at i, which becomes U, and i into the sets
\* s, which become s1, s2 and at last s3.
Inserts(T, U, i, r, b, s, s1, s2, s3) ==
  /\ IsRegion(r) /\ i = next_index(T, b) /\ U = put(T, i, r)
  /\ AddedSet(s1, s, r.label, {i}) /\ AddedToSet(s2, s1, "ALL", i)
  /\ AddedToSet(s3, s2, kind_set(b), i)

LEMMA InsertedNames ==
  ASSUME NEW T, NEW s, NEW N, DatabaseOK(T, s, N), NEW b \in BOOLEAN,
         NEW r, r.label \notin DOMAIN s, r.label \notin StandardSets,
         NEW i, NEW U, NEW s1, NEW s2, NEW s3, Inserts(T, U, i, r, b, s, s1, s2, s3)
  PROVE  /\ DatabaseOK(U, s3, N) /\ KeepsRegions(T, U) /\ i \in DOMAIN U /\ U[i] = r
         /\ DOMAIN s3 \subseteq DOMAIN s \cup StandardSets \cup {r.label}
<1> DEFINE k == kind_set(b)
           label == r.label
<1>0. /\ IsRegion(r) /\ i = next_index(T, b) /\ U = put(T, i, r)
      /\ AddedSet(s1, s, label, {i}) /\ AddedToSet(s2, s1, "ALL", i) /\ AddedToSet(s3, s2, k, i)
  BY DEF Inserts
<1>1. k \in StandardSets /\ "ALL" \in StandardSets
  BY KindIsStandard DEF StandardSets
<1> HIDE DEF k
<1>2. i \notin DOMAIN T /\ Assigned(U, T, i, r)
  BY <1>0, NextIndexIsNew, PutIs DEF DatabaseOK
<1>3. /\ IsFunction(U) /\ DOMAIN U = DOMAIN T \cup {i} /\ U[i] = r
      /\ \A j \in DOMAIN T : U[j] = T[j]
  BY <1>2 DEF Assigned
<1>4. TableOK(U)
  BY <1>0, InsertedTable DEF DatabaseOK
<1>5. /\ IsFunction(s3) /\ DOMAIN s3 = DOMAIN s \cup {label} \cup {"ALL"} \cup {k}
  BY <1>0 DEF AddedSet, AddedToSet
<1>6. ASSUME NEW x \in (DOMAIN s \cup {label}) \ StandardSets
      PROVE  s3[x] = IF x = label THEN {i} ELSE s[x]
  <2>1. x # "ALL" /\ x # k /\ x \in DOMAIN s1 /\ x \in DOMAIN s2
    BY <1>0, <1>1 DEF AddedSet, AddedToSet
  <2>2. s3[x] = s2[x] /\ s2[x] = s1[x]
    BY <1>0, <2>1 DEF AddedToSet
  <2>3. s1[x] = IF x = label THEN {i} ELSE s[x]
    BY <1>0 DEF AddedSet
  <2> QED BY <2>2, <2>3
<1>7. i \in s3["ALL"] /\ ("ALL" \in DOMAIN s => s["ALL"] \subseteq s3["ALL"])
  <2>1. "ALL" \in DOMAIN s2 /\ i \in s2["ALL"] /\ s2["ALL"] \subseteq s3["ALL"]
    BY <1>0 DEF AddedToSet
  <2>2. "ALL" \in DOMAIN s => s1["ALL"] = s["ALL"] /\ s1["ALL"] \subseteq s2["ALL"]
    BY <1>0 DEF AddedToSet, AddedSet
  <2> QED BY <2>1, <2>2
<1>8. NamesOK(U, s3)
  <2>1. ASSUME NEW j \in DOMAIN U
        PROVE  /\ U[j].label \in DOMAIN s3 \ StandardSets /\ s3[U[j].label] = {j}
               /\ "ALL" \in DOMAIN s3 /\ j \in s3["ALL"]
    <3>1. CASE j = i
      BY <1>3, <1>5, <1>6, <1>7, <3>1
    <3>2. CASE j \in DOMAIN T
      <4>1. /\ T[j].label \in DOMAIN s \ StandardSets /\ s[T[j].label] = {j}
            /\ "ALL" \in DOMAIN s /\ j \in s["ALL"]
        BY <3>2 DEF DatabaseOK, NamesOK
      <4> QED BY <1>3, <1>5, <1>6, <1>7, <3>2, <4>1
    <3> QED BY <1>3, <3>1, <3>2
  <2> QED BY <1>5, <2>1 DEF NamesOK
<1>9. Labels(T) \subseteq Labels(U) /\ label \in Labels(U)
  BY <1>3 DEF Labels
<1>10. SetsOK(U, s3, N)
  BY <1>1, <1>5, <1>9 DEF SetsOK, DatabaseOK
<1>11. KeepsRegions(T, U)
  BY <1>3 DEF KeepsRegions
<1> QED BY <1>1, <1>3, <1>4, <1>5, <1>8, <1>10, <1>11 DEF DatabaseOK

\* u is s with the set old under the name new.
MovedSet(u, s, old, new) ==
  /\ IsFunction(u) /\ DOMAIN u = (DOMAIN s \cup {new}) \ {old} /\ u[new] = s[old]
  /\ \A x \in DOMAIN s : x # old /\ x # new => u[x] = s[x]

\* What rename_region() does with them
LEMMA RenamedNames ==
  ASSUME NEW T, NEW s, NEW N, DatabaseOK(T, s, N), NEW i \in DOMAIN T,
         NEW label, label \notin DOMAIN s, label \notin StandardSets,
         NEW r, IsRegion(r), r.label = label, NEW U, Assigned(U, T, i, r),
         NEW u, MovedSet(u, s, T[i].label, label)
  PROVE  DatabaseOK(U, u, N) /\ DOMAIN u \subseteq DOMAIN s \cup {label}
<1> DEFINE old == T[i].label
<1>1. /\ IsFunction(U) /\ DOMAIN U = DOMAIN T /\ U[i] = r
      /\ \A j \in DOMAIN T : j # i => U[j] = T[j]
  BY DEF Assigned
<1>2. TableOK(U)
  BY <1>1, ChangedTable DEF DatabaseOK
<1>3. \A j \in DOMAIN T : /\ T[j].label \in DOMAIN s \ StandardSets /\ s[T[j].label] = {j}
                          /\ "ALL" \in DOMAIN s /\ j \in s["ALL"]
  BY DEF DatabaseOK, NamesOK
<1>4. old \in DOMAIN s \ StandardSets /\ s[old] = {i} /\ label # old
  BY <1>3
<1> HIDE DEF old
<1>5. /\ IsFunction(u) /\ DOMAIN u = (DOMAIN s \cup {label}) \ {old} /\ u[label] = {i}
      /\ \A x \in DOMAIN s : x # old /\ x # label => u[x] = s[x]
  BY <1>4 DEF MovedSet, old
<1>6. NamesOK(U, u)
  <2>1. ASSUME NEW j \in DOMAIN U
        PROVE  /\ U[j].label \in DOMAIN u \ StandardSets /\ u[U[j].label] = {j}
               /\ "ALL" \in DOMAIN u /\ j \in u["ALL"]
    <3>1. "ALL" \in StandardSets
      BY DEF StandardSets
    <3>2. "ALL" \in DOMAIN u /\ u["ALL"] = s["ALL"] /\ j \in u["ALL"]
      BY <1>1, <1>3, <1>4, <1>5, <3>1
    <3>3. CASE j = i
      BY <1>1, <1>4, <1>5, <3>2, <3>3
    <3>4. CASE j # i
      <4>1. T[j].label # old /\ T[j].label \in DOMAIN s \ StandardSets /\ s[T[j].label] = {j}
        BY <1>1, <1>3, <1>4, <3>4
      <4> QED BY <1>1, <1>5, <3>2, <3>4, <4>1
    <3> QED BY <3>3, <3>4
  <2> QED BY <1>5, <2>1 DEF NamesOK
<1>7. \A x \in Labels(T) : x = old \/ x \in Labels(U)
  <2>1. ASSUME NEW j \in DOMAIN T PROVE T[j].label = old \/ T[j].label \in Labels(U)
    <3>1. CASE j = i
      BY <3>1 DEF old
    <3>2. CASE j # i
      BY <1>1, <3>2 DEF Labels
    <3> QED BY <3>1, <3>2
  <2> QED BY <2>1 DEF Labels
<1>8. label \in Labels(U)
  BY <1>1 DEF Labels
<1>9. SetsOK(U, u, N)
  BY <1>4, <1>5, <1>7, <1>8 DEF SetsOK, DatabaseOK
<1> QED BY <1>2, <1>5, <1>6, <1>9 DEF DatabaseOK

---------------------------------------------------------------------------
(* RegionDB: its operations *)

DbOK(d, N) == IsDb(d) /\ DatabaseOK(d.table, d.sets, N)

\* e is d after an operation that may give the name label to a region.
DbStep(d, e, N, label) ==
  /\ DbOK(e, N) /\ KeepsRegions(d.table, e.table)
  /\ DOMAIN e.sets \subseteq DOMAIN d.sets \cup StandardSets \cup {label}

\* e returned the region of that id and dimension.
Found(e, id, dim) ==
  e.region \in DOMAIN e.table /\ e.table[e.region].id = id /\ e.table[e.region].dim = dim

\* Nothing but ok and region differ.
SameData(d, e) == IsDb(e) /\ e.table = d.table /\ e.sets = d.sets

\* The database with another value of ok
LEMMA OkSet ==
  ASSUME NEW d, IsDb(d), NEW v, NEW e, e = [d EXCEPT !.ok = v]
  PROVE  SameData(d, e) /\ e.ok = v /\ e.region = d.region
<1>1. e = [table |-> d.table, max_id |-> d.max_id, sets |-> d.sets, ok |-> v, region |-> d.region]
  BY DEF IsDb
<1> QED BY <1>1 DEF SameData, IsDb

LEMMA Throws ==
  ASSUME NEW d, IsDb(d)
  PROVE  SameData(d, throws(d)) /\ throws(d).ok = FALSE /\ throws(d).region = d.region
BY OkSet DEF throws

\* A region with another mark
LEMMA UsedSet ==
  ASSUME NEW y, NEW v, IsRegion(y)
  PROVE  [y EXCEPT !.used = v] = [id |-> y.id, dim |-> y.dim, label |-> y.label, used |-> v]
BY DEF IsRegion

LEMMA Returns ==
  ASSUME NEW d, IsDb(d), NEW i
  PROVE  SameData(d, returns(d, i)) /\ returns(d, i).ok = d.ok /\ returns(d, i).region = i
BY DEF IsDb, SameData, returns

LEMMA SameStep ==
  ASSUME NEW d, NEW N, DbOK(d, N), NEW e, SameData(d, e), NEW label
  PROVE  DbStep(d, e, N, label)
BY KeepsSame DEF DbStep, DbOK, SameData

LEMMA TheIs == ASSUME NEW S, S # {} PROVE the(S) \in S
BY DEF the

\* Replaces: the record of region i of d becomes r, and i is returned.
RegionSet(d, e, i, r) ==
  IsDb(e) /\ Assigned(e.table, d.table, i, r) /\ e.sets = d.sets /\ e.ok = d.ok

LEMMA RegionSetKeeps ==
  ASSUME NEW d, NEW N, DbOK(d, N), NEW i \in DOMAIN d.table, NEW r, IsRegion(r),
         r.id = d.table[i].id, r.label = d.table[i].label,
         d.table[i].dim # undefined_dim => r.dim = d.table[i].dim /\ (d.table[i].used => r.used),
         NEW e, RegionSet(d, e, i, r), NEW label
  PROVE  DbStep(d, e, N, label)
<1> DEFINE T == d.table
           U == e.table
           s == d.sets
<1>1. DatabaseOK(T, s, N) /\ i \in DOMAIN T /\ Assigned(U, T, i, r)
  BY DEF DbOK, RegionSet
<1>2. r.id = T[i].id /\ r.label = T[i].label
      /\ (T[i].dim # undefined_dim => r.dim = T[i].dim /\ (T[i].used => r.used))
  OBVIOUS
<1> HIDE DEF T, U, s
<1>3. DatabaseOK(U, s, N) /\ KeepsRegions(T, U)
  BY <1>1, <1>2, ChangedRegion
<1> QED BY <1>3 DEF DbStep, DbOK, RegionSet, T, U, s

\* The region r with another dimension, mark or name
with_dim(r, dim) == [id |-> r.id, dim |-> dim, label |-> r.label, used |-> FALSE]
with_mark(r) == [id |-> r.id, dim |-> r.dim, label |-> r.label, used |-> TRUE]
with_name(r, label) == [id |-> r.id, dim |-> r.dim, label |-> label, used |-> FALSE]

LEMMA DimReplaced ==
  ASSUME NEW d, NEW N, DbOK(d, N), NEW i \in DOMAIN d.table, d.table[i].dim = undefined_dim,
         NEW dim, NEW boundary, NEW label, NEW e, e = replace_region_dim(d, i, dim, boundary)
  PROVE  DbStep(d, e, N, label) /\ Found(e, d.table[i].id, dim) /\ (e.ok => d.ok)
         /\ DOMAIN e.sets = DOMAIN d.sets
<1> DEFINE T == d.table
           r == with_dim(T[i], dim)
           d1 == [d EXCEPT !.table[i].dim = dim]
           d2 == [d1 EXCEPT !.table[i].used = FALSE]
           d3 == [d2 EXCEPT !.region = i]
<1>0. IsFunction(T) /\ IsRegion(T[i]) /\ IsDb(d) /\ i \in DOMAIN T
  BY DEF DbOK, DatabaseOK, TableOK
<1>1. IsDb(d1) /\ d1.table = [T EXCEPT ![i] = [T[i] EXCEPT !.dim = dim]] /\ d1.sets = d.sets /\ d1.ok = d.ok
  BY <1>0 DEF IsDb
<1>2. Assigned(d1.table, T, i, [T[i] EXCEPT !.dim = dim])
  BY <1>0, <1>1, ExceptIs
<1> HIDE DEF d1
<1> DEFINE T1 == d1.table
<1>3. DOMAIN T1 = DOMAIN T /\ IsFunction(T1) /\ T1[i] = [T[i] EXCEPT !.dim = dim]
      /\ \A j \in DOMAIN T : j # i => T1[j] = T[j]
  BY <1>0, <1>2 DEF Assigned
<1>4. IsDb(d2) /\ d2.table = [T1 EXCEPT ![i] = [T1[i] EXCEPT !.used = FALSE]] /\ d2.sets = d.sets /\ d2.ok = d.ok
  BY <1>0, <1>1, <1>3 DEF IsDb
<1> HIDE DEF T1, d2
<1> DEFINE q == [T1[i] EXCEPT !.used = FALSE]
<1>6. q = r
  <2> DEFINE x == T[i]
             y == T1[i]
  <2>1. x = [id |-> x.id, dim |-> x.dim, label |-> x.label, used |-> x.used]
    BY <1>0 DEF IsRegion
  <2>2. y = [x EXCEPT !.dim = dim]
    BY <1>3
  <2> HIDE DEF x, y
  <2>3. y = [id |-> x.id, dim |-> dim, label |-> x.label, used |-> x.used]
    BY <2>1, <2>2
  <2>4. IsRegion(y) /\ y.id = x.id /\ y.dim = dim /\ y.label = x.label
    BY <2>3 DEF IsRegion
  <2> DEFINE v == FALSE
  <2> HIDE DEF v
  <2>5. [y EXCEPT !.used = v] = [id |-> x.id, dim |-> dim, label |-> x.label, used |-> v]
    BY <2>4, UsedSet
  <2> QED BY <2>5 DEF with_dim, v, x, y
<1>5. Assigned(d2.table, T1, i, q)
  <2>1. d2.table = [T1 EXCEPT ![i] = q] /\ i \in DOMAIN T1 /\ IsFunction(T1)
    BY <1>0, <1>3, <1>4
  <2> HIDE DEF q
  <2> QED BY <2>1, ExceptIs
<1> HIDE DEF q, r
<1>7. Assigned(d2.table, T, i, r)
  BY <1>0, <1>3, <1>5, <1>6 DEF Assigned
<1>8. IsDb(d3) /\ d3.table = d2.table /\ d3.sets = d.sets /\ d3.ok = d.ok /\ d3.region = i
  BY <1>4 DEF IsDb
<1> HIDE DEF d3
<1>9. RegionSet(d, d3, i, r)
  BY <1>7, <1>8 DEF RegionSet
<1>10. IsRegion(r) /\ r.id = T[i].id /\ r.label = T[i].label /\ r.dim = dim
  BY DEF IsRegion, with_dim, r
<1>11. DbStep(d, d3, N, label)
  BY <1>9, <1>10, RegionSetKeeps
<1>12. Found(d3, T[i].id, dim)
  BY <1>0, <1>7, <1>8, <1>10 DEF Found, Assigned
<1>13. e = IF is_boundary_index(i) = boundary THEN d3 ELSE throws(d3)
  BY DEF replace_region_dim, d3, d2, d1
<1>14. CASE e = d3
  BY <1>8, <1>11, <1>12, <1>14
<1>15. CASE e = throws(d3)
  <2>1. SameData(d3, e) /\ e.ok = FALSE /\ e.region = d3.region
    BY <1>8, <1>15, Throws DEF throws, IsDb
  <2> QED BY <1>8, <1>11, <1>12, <2>1 DEF SameData, DbStep, DbOK, Found
<1> QED BY <1>13, <1>14, <1>15

\* mark_used_region()
LEMMA MarkUsed ==
  ASSUME NEW d, NEW N, DbOK(d, N), NEW i \in DOMAIN d.table, NEW label,
         NEW e, e = mark_used_region(d, i)
  PROVE  /\ DbStep(d, e, N, label) /\ Assigned(e.table, d.table, i, with_mark(d.table[i]))
         /\ e.ok = d.ok /\ e.region = d.region /\ e.sets = d.sets
<1> DEFINE T == d.table
           v == TRUE
           q == [T[i] EXCEPT !.used = v]
           r == with_mark(T[i])
<1>1. IsFunction(T) /\ IsRegion(T[i]) /\ IsDb(d) /\ i \in DOMAIN T
  BY DEF DbOK, DatabaseOK, TableOK
<1>2. e = [d EXCEPT !.table[i].used = v]
  BY DEF mark_used_region
<1> HIDE DEF v
<1>3. q = [id |-> T[i].id, dim |-> T[i].dim, label |-> T[i].label, used |-> v]
  BY <1>1, UsedSet
<1>4. q = r
  BY <1>3 DEF with_mark, v
<1>5. IsDb(e) /\ e.table = [T EXCEPT ![i] = q] /\ e.sets = d.sets /\ e.ok = d.ok /\ e.region = d.region
  BY <1>1, <1>2 DEF IsDb
<1> HIDE DEF q, r
<1>6. Assigned(e.table, T, i, q)
  BY <1>1, <1>5, ExceptIs
<1>7. RegionSet(d, e, i, r)
  BY <1>4, <1>5, <1>6 DEF RegionSet
<1>8. IsRegion(r) /\ r.id = T[i].id /\ r.label = T[i].label /\ r.dim = T[i].dim /\ r.used
  BY DEF IsRegion, with_mark, r
<1>9. DbStep(d, e, N, label)
  BY <1>7, <1>8, RegionSetKeeps
<1> QED BY <1>4, <1>5, <1>6, <1>9 DEF r

\* get_region() of a dimension that an element has
LEMMA GetRegion ==
  ASSUME NEW d, NEW N, DbOK(d, N), NEW id, NEW dim, NEW label, NEW e, e = get_region(d, id, dim)
  PROVE  /\ DbStep(d, e, N, label) /\ DOMAIN e.sets = DOMAIN d.sets /\ (e.ok => d.ok)
         /\ e = d \/ Found(e, id, dim)
<1> DEFINE exact == with_dim_id(d, dim, id)
           undef == with_dim_id(d, undefined_dim, id)
           x == the(exact)
           u == the(undef)
<1>1. CASE exact # {}
  <2>1. x \in DOMAIN d.table /\ d.table[x].dim = dim /\ d.table[x].id = id
    BY <1>1, TheIs DEF with_dim_id
  <2>2. e = returns(d, x)
    BY <1>1 DEF get_region
  <2> HIDE DEF x
  <2>3. SameData(d, e) /\ e.ok = d.ok /\ e.region = x
    BY <2>2, Returns DEF DbOK
  <2>4. DbStep(d, e, N, label)
    BY <2>3, SameStep
  <2> QED BY <2>1, <2>3, <2>4 DEF SameData, Found
<1>2. CASE exact = {} /\ undef # {}
  <2>1. u \in DOMAIN d.table /\ d.table[u].dim = undefined_dim /\ d.table[u].id = id
    BY <1>2, TheIs DEF with_dim_id
  <2>2. e = replace_region_dim(d, u, dim, is_boundary(d.table[u].label))
    BY <1>2 DEF get_region
  <2> HIDE DEF u
  <2> QED BY <2>1, <2>2, DimReplaced
<1>3. CASE exact = {} /\ undef = {}
  <2>1. e = d
    BY <1>3 DEF get_region
  <2> QED BY <2>1, KeepsSame DEF DbStep
<1> QED BY <1>1, <1>2, <1>3

\* insert_region() under a free name
LEMMA InsertRegion ==
  ASSUME NEW d, NEW N, DbOK(d, N), NEW id, NEW dim, NEW b \in BOOLEAN,
         NEW label, label \notin StandardSets, label \notin DOMAIN d.sets,
         NEW e, e = insert_region(d, id, label, dim, b)
  PROVE  DbStep(d, e, N, label) /\ Found(e, id, dim)
<1> DEFINE T == d.table
           s == d.sets
           i == next_index(T, b)
           r == [id |-> id, dim |-> dim, label |-> label, used |-> FALSE]
           U == put(T, i, r)
           s1 == add_set(s, label, {i})
           s2 == add_to_set(s1, "ALL", i)
           s3 == add_to_set(s2, kind_set(b), i)
<1>1. e.table = U /\ e.sets = s3 /\ e.region = i /\ IsDb(e)
  BY DEF insert_region, next_index, same_kind, IsDb
<1>2. IsRegion(r) /\ r.label = label /\ r.id = id /\ r.dim = dim
  BY DEF IsRegion
<1>3. DatabaseOK(T, s, N)
  BY DEF DbOK
<1>4. AddedSet(s1, s, label, {i})
  BY <1>3, AddSetIs DEF DatabaseOK, NamesOK
<1>5. AddedToSet(s2, s1, "ALL", i) /\ AddedToSet(s3, s2, kind_set(b), i)
  BY AddToSetIs
<1>7. Inserts(T, U, i, r, b, s, s1, s2, s3)
  BY <1>2, <1>4, <1>5 DEF Inserts
<1> HIDE DEF s1, s2, s3, r, U, i
<1>6. /\ DatabaseOK(U, s3, N) /\ KeepsRegions(T, U) /\ i \in DOMAIN U /\ U[i] = r
      /\ DOMAIN s3 \subseteq DOMAIN s \cup StandardSets \cup {label}
  BY <1>2, <1>3, <1>7, InsertedNames
<1> QED BY <1>1, <1>2, <1>6 DEF DbStep, DbOK, Found

\* The name may be given to a region: no set has it but that of a region.
Available(d, label) ==
  label \notin StandardSets /\ (with_label(d, label) = {} => label \notin DOMAIN d.sets)

\* add_region()
LEMMA AddRegion ==
  ASSUME NEW d, NEW N, DbOK(d, N), NEW id, NEW dim, NEW label, Available(d, label),
         NEW e, e = add_region(d, id, label, dim)
  PROVE  DbStep(d, e, N, label) /\ (e.ok => Found(e, id, dim))
<1> DEFINE exact == with_dim_id(d, dim, id)
           undef == with_dim_id(d, undefined_dim, id)
           b == is_boundary(label)
           x == the(exact)
           u == the(undef)
<1>1. CASE e = throws(d)
  BY <1>1, Throws, SameStep DEF DbOK
<1>2. CASE exact # {} /\ e # throws(d)
  <2>1. x \in DOMAIN d.table /\ d.table[x].dim = dim /\ d.table[x].id = id
    BY <1>2, TheIs DEF with_dim_id
  <2>2. e = returns(d, x)
    BY <1>2 DEF add_region, find_by_dimid
  <2> HIDE DEF x
  <2>3. SameData(d, e) /\ e.region = x
    BY <2>2, Returns DEF DbOK
  <2>4. DbStep(d, e, N, label)
    BY <2>3, SameStep
  <2> QED BY <2>1, <2>3, <2>4 DEF SameData, Found
<1>3. CASE exact = {} /\ undef # {}
  <2>1. u \in DOMAIN d.table /\ d.table[u].dim = undefined_dim /\ d.table[u].id = id
    BY <1>3, TheIs DEF with_dim_id
  <2>2. e = replace_region_dim(d, u, dim, b)
    BY <1>3 DEF add_region
  <2> HIDE DEF u, b
  <2> QED BY <2>1, <2>2, DimReplaced
<1>4. CASE exact = {} /\ undef = {} /\ e # throws(d)
  <2>1. with_label(d, label) = {} /\ e = insert_region(d, id, label, dim, b)
    BY <1>4 DEF add_region
  <2>2. b \in BOOLEAN /\ label \notin StandardSets /\ label \notin DOMAIN d.sets
    BY <2>1 DEF is_boundary, Available
  <2> HIDE DEF b
  <2> QED BY <2>1, <2>2, InsertRegion
<1> QED BY <1>1, <1>2, <1>3, <1>4

\* e is d after a record of the input, which may give the name label to a region or set.
DbMade(d, e, N, label) ==
  DbOK(e, N) /\ DOMAIN e.sets \subseteq DOMAIN d.sets \cup StandardSets \cup {label}

\* renamed_sets() moves the set.
LEMMA RenamedSets ==
  ASSUME NEW s, NEW old \in DOMAIN s, NEW new, new # old
  PROVE  MovedSet(renamed_sets(s, old, new), s, old, new)
<1> DEFINE v == s[old]
           p == put(s, new, v)
           u == without(p, old)
<1>1. Assigned(p, s, new, v)
  BY PutIs
<1> HIDE DEF p
<1>2. IsFunction(u) /\ DOMAIN u = DOMAIN p \ {old} /\ \A y \in DOMAIN u : u[y] = p[y]
  BY DEF without, IsFunction
<1> HIDE DEF u
<1>3. MovedSet(u, s, old, new)
  BY <1>1, <1>2 DEF Assigned, MovedSet
<1> QED BY <1>3 DEF renamed_sets, u, p

\* rename_region()
LEMMA RenameRegion ==
  ASSUME NEW d, NEW N, DbOK(d, N), NEW i \in DOMAIN d.table, NEW label, Available(d, label),
         NEW e, e = rename_region(d, i, label)
  PROVE  DbMade(d, e, N, label)
<1> DEFINE T == d.table
           s == d.sets
           old == T[i].label
           v == FALSE
           d1 == [d EXCEPT !.table[i].label = label]
           d2 == [d1 EXCEPT !.table[i].used = v]
           d3 == [d2 EXCEPT !.sets = renamed_sets(s, old, label)]
           d4 == [d3 EXCEPT !.region = i]
           r == with_name(T[i], label)
<1>1. CASE with_label(d, label) # {}
  <2>1. e = returns(d, i) \/ e = throws(d)
    BY <1>1 DEF rename_region
  <2>2. IsDb(d)
    BY DEF DbOK
  <2>3. CASE e = returns(d, i)
    <3>1. SameData(d, e)
      BY <2>2, <2>3, Returns
    <3> QED BY <3>1, SameStep DEF DbStep, DbMade
  <2>4. CASE e = throws(d)
    <3>1. SameData(d, e)
      BY <2>2, <2>4, Throws
    <3> QED BY <3>1, SameStep DEF DbStep, DbMade
  <2> QED BY <2>1, <2>3, <2>4
<1>2. CASE with_label(d, label) = {}
  <2>1. IsDb(d) /\ DatabaseOK(T, s, N) /\ IsFunction(T) /\ IsRegion(T[i]) /\ i \in DOMAIN T
    BY DEF DbOK, DatabaseOK, TableOK
  <2>2. old \in DOMAIN s /\ label \notin DOMAIN s /\ label # old /\ label \notin StandardSets
    BY <1>2, <2>1 DEF DatabaseOK, NamesOK, Available
  <2>3. e = d4
    <3>1. e = [d EXCEPT !.table[i].label = label, !.table[i].used = FALSE,
                        !.sets = renamed_sets(@, d.table[i].label, label), !.region = i]
      BY <1>2 DEF rename_region
    <3>2. d1.sets = d.sets /\ d2.sets = d.sets
      BY <2>1 DEF IsDb
    <3> QED BY <3>1, <3>2 DEF d4, d3, d2, d1, v
  <2> DEFINE q1 == [T[i] EXCEPT !.label = label]
  <2>4. IsDb(d1) /\ d1.table = [T EXCEPT ![i] = q1] /\ d1.sets = s
    BY <2>1 DEF IsDb
  <2>5. q1 = [id |-> T[i].id, dim |-> T[i].dim, label |-> label, used |-> T[i].used]
    BY <2>1 DEF IsRegion
  <2>6. IsRegion(q1) /\ q1.id = T[i].id /\ q1.dim = T[i].dim /\ q1.label = label
    BY <2>5 DEF IsRegion
  <2> HIDE DEF q1, d1, v
  <2> DEFINE T1 == d1.table
  <2>7. Assigned(T1, T, i, q1)
    BY <2>1, <2>4, ExceptIs
  <2> DEFINE q2 == [T1[i] EXCEPT !.used = v]
  <2>8. IsDb(d2) /\ d2.table = [T1 EXCEPT ![i] = q2] /\ d2.sets = s
    BY <2>4, <2>7 DEF IsDb
  <2>9. T1[i] = q1 /\ i \in DOMAIN T1 /\ IsFunction(T1)
    BY <2>7 DEF Assigned
  <2>10. q2 = [id |-> q1.id, dim |-> q1.dim, label |-> q1.label, used |-> v]
    BY <2>6, <2>9, UsedSet
  <2>11. q2 = r
    BY <2>6, <2>10 DEF with_name, v
  <2> HIDE DEF q2, d2, T1
  <2>12. Assigned(d2.table, T1, i, q2)
    BY <2>8, <2>9, ExceptIs
  <2> HIDE DEF r
  <2>13. Assigned(d2.table, T, i, r)
    BY <2>7, <2>11, <2>12 DEF Assigned
  <2> DEFINE u == renamed_sets(s, old, label)
  <2> HIDE DEF u
  <2>18. IsDb(d3) /\ d3.table = d2.table /\ d3.sets = u
    BY <2>8 DEF IsDb, u
  <2> HIDE DEF d3
  <2>14. IsDb(d4) /\ d4.table = d2.table /\ d4.sets = u
    BY <2>18 DEF IsDb
  <2>15. MovedSet(u, s, old, label)
    BY <2>2, RenamedSets DEF u
  <2>16. IsRegion(r) /\ r.label = label
    BY DEF IsRegion, with_name, r
  <2> HIDE DEF d4
  <2>17. DatabaseOK(d4.table, u, N) /\ DOMAIN u \subseteq DOMAIN s \cup {label}
    BY <2>1, <2>2, <2>13, <2>14, <2>15, <2>16, RenamedNames
  <2> QED BY <2>3, <2>14, <2>17 DEF DbMade, DbOK
<1> QED BY <1>1, <1>2

\* add_set() of a name of the input
LEMMA SetAdded ==
  ASSUME NEW d, NEW N, DbOK(d, N), NEW name \in N, name \notin StandardSets, NEW regions,
         NEW e, e = [d EXCEPT !.sets = add_set(@, name, regions)]
  PROVE  DbMade(d, e, N, name)
<1> DEFINE T == d.table
           s == d.sets
           u == add_set(s, name, regions)
<1>1. IsDb(d) /\ DatabaseOK(T, s, N) /\ IsFunction(s)
  BY DEF DbOK, DatabaseOK, NamesOK
<1>2. IsDb(e) /\ e.table = T /\ e.sets = u
  BY <1>1 DEF IsDb
<1>3. AddedSet(u, s, name, regions)
  BY <1>1, AddSetIs
<1> HIDE DEF u
<1>4. IsFunction(u) /\ DOMAIN u = DOMAIN s \cup {name} /\ \A x \in DOMAIN s : u[x] = s[x]
  BY <1>3 DEF AddedSet
<1>5. NamesOK(T, u)
  BY <1>1, <1>4 DEF DatabaseOK, NamesOK
<1>6. SetsOK(T, u, N)
  BY <1>1, <1>4 DEF DatabaseOK, SetsOK
<1> QED BY <1>1, <1>2, <1>4, <1>5, <1>6 DEF DbMade, DbOK, DatabaseOK

---------------------------------------------------------------------------
(* RegionDB: the reading *)

\* The database that has no implicit boundary yet
DbClean(d, N) == DbOK(d, N) /\ ImplicitLabel \notin DOMAIN d.sets

\* What the actions say of db
LEMMA DbIs ==
  ASSUME NEW N, DatabaseOK(region_table, sets, N)
  PROVE  /\ DbOK(db, N) /\ db.table = region_table /\ db.sets = sets
         /\ db.ok = TRUE /\ db.region = NoRegion
<1>1. db = [table |-> region_table, max_id |-> max_id, sets |-> sets, ok |-> TRUE, region |-> NoRegion]
  BY DEF db
<1> HIDE DEF db
<1>2. /\ IsDb(db) /\ db.table = region_table /\ db.sets = sets
      /\ db.ok = TRUE /\ db.region = NoRegion
  BY <1>1 DEF IsDb
<1> QED BY <1>2 DEF DbOK

\* Steps under other names leave it so.
LEMMA StaysClean ==
  ASSUME NEW d, NEW N, DbClean(d, N), NEW label, label # ImplicitLabel, NEW e, DbMade(d, e, N, label)
  PROVE  DbClean(e, N)
BY ImplicitNotStandard DEF DbClean, DbMade

\* A record of the input changes the database only.
LEMMA RecordRead ==
  ASSUME RgInv, NEW d, DbClean(d, RgNames), record_read(d),
         DOMAIN el_to_reg_map' \subseteq DOMAIN rg_mesh.elements
  PROVE  RgInv'
<1> DEFINE n == rg_read + 1
<1>1. /\ rg_phase = "regions" /\ region_table' = d.table /\ sets' = d.sets
      /\ rg_mesh' = rg_mesh /\ rg_element' = rg_element
      /\ \/ rg_phase' = "error"
         \/ rg_phase' = "elements" /\ rg_read' = 0
         \/ rg_phase' = "regions" /\ rg_read' = n
  BY DEF record_read, becomes_db, moves_on
<1>2. NamesOfSets' = RgNames
  BY <1>1 DEF NamesOfSets
<1>3. DatabaseOK(region_table, sets, NamesOfSets)'
  BY <1>1, <1>2 DEF DbClean, DbOK
<1>4. ReadingOK /\ rg_read \in Nat /\ DOMAIN rg_element = {} /\ rg_mesh \in RgMeshes
  BY <1>1 DEF RgInv, ReadingOK
<1>5. 0 < Len(rg_mesh.elements)
  BY <1>4, RegionInputsAssumption
<1>6. ImplicitLabel \notin DOMAIN sets'
  BY <1>1 DEF DbClean
<1>7. ReadingOK'
  BY <1>1, <1>4, <1>5, <1>6 DEF ReadingOK, Counts
<1>8. PlacesOK'
  BY <1>1, <1>4 DEF PlacesOK
<1> QED BY <1>3, <1>7, <1>8 DEF RgInv

\* A name of the input, where the code allows it
LEMMA InputName ==
  ASSUME NamesApart, NEW name \in RgNames
  PROVE  name \notin StandardSets /\ name # ImplicitLabel
BY DEF NamesApart, Reserved

\* It can be given to a region.
LEMMA AllowedName ==
  ASSUME NamesApart, NEW name \in RgNames, allowed_name(name), db.sets = sets
  PROVE  Available(db, name)
BY InputName DEF allowed_name, Available

\* So can a name made from an id.
LEMMA NameOfId ==
  ASSUME NEW d, DbOK(d, RgNames), NEW label, label \notin RgNames \cup Reserved
  PROVE  Available(d, label) /\ label # ImplicitLabel
<1>1. label \notin RgNames \cup StandardSets /\ label # ImplicitLabel
  BY DEF Reserved
<1>2. with_label(d, label) = {} => label \notin DOMAIN d.sets
  BY <1>1, FreeName DEF DbOK
<1> QED BY <1>1, <1>2 DEF Available

\* While records are read
LEMMA AtRecords ==
  ASSUME RgInv, rg_phase = "regions"
  PROVE  DbClean(db, RgNames) /\ DbOK(db, RgNames) /\ db.table = region_table /\ db.sets = sets
<1>1. DatabaseOK(region_table, sets, RgNames) /\ ImplicitLabel \notin DOMAIN sets
  BY DEF RgInv, ReadingOK, NamesOfSets
<1> HIDE DEF db
<1> QED BY <1>1, DbIs DEF DbClean

\* A step of the database keeps the names of the sets apart.
LEMMA StepIsMade ==
  ASSUME NEW d, NEW e, NEW N, NEW label, DbStep(d, e, N, label) PROVE DbMade(d, e, N, label)
BY DEF DbStep, DbMade

LEMMA FromIdStep ==
  ASSUME NamesApart, RgInv, NEW name \in RgNames, NEW id, NEW dim, RgFromId(name, id, dim)
  PROVE  RgInv'
<1> DEFINE found == with_id(db, id)
           d == IF Cardinality(found) = 1 THEN rename_region(db, the(found), name)
                ELSE add_region(db, id, name, dim)
<1>1. rg_phase = "regions" /\ allowed_name(name) /\ record_read(d) /\ el_to_reg_map' = el_to_reg_map
  BY DEF RgFromId, record_read
<1>2. DbClean(db, RgNames) /\ DbOK(db, RgNames) /\ db.sets = sets
  BY <1>1, AtRecords
<1>3. Available(db, name) /\ name # ImplicitLabel
  BY <1>1, <1>2, AllowedName, InputName
<1>4. DbMade(db, d, RgNames, name)
  <2>1. CASE Cardinality(found) = 1
    <3>1. the(found) \in DOMAIN db.table
      <4>1. found # {}
        BY <2>1, FS_EmptySet
      <4> QED BY <4>1, TheIs DEF with_id
    <3>2. d = rename_region(db, the(found), name)
      BY <2>1
    <3> HIDE DEF found, d
    <3> QED BY <1>2, <1>3, <3>1, <3>2, RenameRegion
  <2>2. CASE Cardinality(found) # 1
    <3>1. d = add_region(db, id, name, dim)
      BY <2>2
    <3> HIDE DEF d
    <3> QED BY <1>2, <1>3, <3>1, AddRegion, StepIsMade
  <2> QED BY <2>1, <2>2
<1>5. DOMAIN el_to_reg_map' \subseteq DOMAIN rg_mesh.elements
  BY <1>1 DEF RgInv, ReadingOK
<1> HIDE DEF d
<1> QED BY <1>1, <1>2, <1>3, <1>4, <1>5, StaysClean, RecordRead

LEMMA FromLabelStep ==
  ASSUME NamesApart, RgInv, NEW name \in RgNames, NEW label, NEW allow_empty,
         RgFromLabel(name, label, allow_empty)
  PROVE  RgInv'
<1> DEFINE found == with_label(db, label)
           d == IF found # {} THEN rename_region(db, the(found), name)
                ELSE IF allow_empty THEN add_region(db, get_max_region_id, name, 0)
                ELSE db
<1>1. rg_phase = "regions" /\ allowed_name(name) /\ record_read(d) /\ el_to_reg_map' = el_to_reg_map
  BY DEF RgFromLabel, record_read
<1>2. DbClean(db, RgNames) /\ DbOK(db, RgNames) /\ db.sets = sets
  BY <1>1, AtRecords
<1>3. Available(db, name) /\ name # ImplicitLabel
  BY <1>1, <1>2, AllowedName, InputName
<1>4. DbMade(db, d, RgNames, name)
  <2>1. CASE found # {}
    <3>1. the(found) \in DOMAIN db.table
      BY <2>1, TheIs DEF with_label
    <3>2. d = rename_region(db, the(found), name)
      BY <2>1
    <3> HIDE DEF found, d
    <3> QED BY <1>2, <1>3, <3>1, <3>2, RenameRegion
  <2>2. CASE found = {} /\ allow_empty
    <3>1. d = add_region(db, get_max_region_id, name, 0)
      BY <2>2
    <3> HIDE DEF d
    <3> QED BY <1>2, <1>3, <3>1, AddRegion, StepIsMade
  <2>3. CASE d = db
    <3> HIDE DEF d
    <3> QED BY <1>2, <2>3 DEF DbMade
  <2> QED BY <2>1, <2>2, <2>3
<1>5. DOMAIN el_to_reg_map' \subseteq DOMAIN rg_mesh.elements
  BY <1>1 DEF RgInv, ReadingOK
<1> HIDE DEF d
<1> QED BY <1>1, <1>2, <1>3, <1>4, <1>5, StaysClean, RecordRead

LEMMA FromElementsStep ==
  ASSUME NamesApart, RgInv, NEW name \in RgNames, NEW id,
         NEW list \in SUBSET (1 .. Len(rg_mesh.elements)), RgFromElements(name, id, list)
  PROVE  RgInv'
<1> DEFINE region_id == IF id = 0 THEN get_max_region_id ELSE id
           d == add_region(db, region_id, name, undefined_dim)
<1>1. /\ rg_phase = "regions" /\ allowed_name(name) /\ record_read(d)
      /\ DOMAIN el_to_reg_map' \subseteq DOMAIN el_to_reg_map \cup list
  BY DEF RgFromElements, record_read
<1>2. DbClean(db, RgNames) /\ DbOK(db, RgNames) /\ db.sets = sets
  BY <1>1, AtRecords
<1>3. Available(db, name) /\ name # ImplicitLabel
  BY <1>1, <1>2, AllowedName, InputName
<1> HIDE DEF region_id
<1>4. DbMade(db, d, RgNames, name)
  BY <1>2, <1>3, AddRegion, StepIsMade
<1>5. DOMAIN el_to_reg_map' \subseteq DOMAIN rg_mesh.elements
  <2>1. DOMAIN el_to_reg_map \subseteq DOMAIN rg_mesh.elements /\ rg_mesh \in RgMeshes
    BY DEF RgInv, ReadingOK
  <2>2. DOMAIN rg_mesh.elements = 1 .. Len(rg_mesh.elements)
    BY <2>1, RegionInputsAssumption
  <2> QED BY <1>1, <2>1, <2>2
<1> HIDE DEF d
<1> QED BY <1>1, <1>2, <1>3, <1>4, <1>5, StaysClean, RecordRead

LEMMA UnionStep ==
  ASSUME NamesApart, RgInv, NEW name \in RgNames, NEW set_name, NEW id \in RgIds,
         RgUnion(name, set_name, id)
  PROVE  RgInv'
<1> DEFINE found == with_id(db, id)
           d == IF found # {} THEN returns(db, the(found))
                ELSE add_region(db, id, create_label_from_id(id), undefined_dim)
           both == d.sets[set_name] \cup d.sets[d.table[d.region].label]
           e == [d EXCEPT !.sets = add_set(@, name, both)]
           r == IF set_name \notin DOMAIN sets \/ Cardinality(found) > 1 THEN throws(db)
                ELSE IF ~ d.ok THEN d ELSE e
<1>1. rg_phase = "regions" /\ record_read(r) /\ el_to_reg_map' = el_to_reg_map
  BY DEF RgUnion, record_read
<1>2. DbClean(db, RgNames) /\ DbOK(db, RgNames) /\ IsDb(db)
  BY <1>1, AtRecords DEF DbOK
<1>3. name \notin StandardSets /\ name # ImplicitLabel
  BY InputName
<1>4. DbClean(d, RgNames)
  <2>1. CASE found # {}
    <3>1. d = returns(db, the(found))
      BY <2>1
    <3> HIDE DEF d
    <3>2. SameData(db, d)
      BY <1>2, <3>1, Returns
    <3>3. DbMade(db, d, RgNames, name)
      BY <1>2, <3>2, SameStep, StepIsMade
    <3> QED BY <1>2, <1>3, <3>3, StaysClean
  <2>2. CASE found = {}
    <3> DEFINE label == create_label_from_id(id)
    <3>1. d = add_region(db, id, label, undefined_dim)
      BY <2>2
    <3>2. label \notin RgNames \cup Reserved
      BY DEF NamesApart
    <3> HIDE DEF d, label
    <3>3. Available(db, label) /\ label # ImplicitLabel
      BY <1>2, <3>2, NameOfId
    <3>4. DbMade(db, d, RgNames, label)
      BY <1>2, <3>1, <3>3, AddRegion, StepIsMade
    <3> QED BY <1>2, <3>3, <3>4, StaysClean
  <2> QED BY <2>1, <2>2
<1>5. DbClean(throws(db), RgNames)
  <2>1. SameData(db, throws(db))
    BY <1>2, Throws
  <2>2. DbMade(db, throws(db), RgNames, name)
    BY <1>2, <2>1, SameStep, StepIsMade
  <2> QED BY <1>2, <1>3, <2>2, StaysClean
<1> HIDE DEF d, both
<1>6. DbClean(e, RgNames)
  <2>1. DbMade(d, e, RgNames, name)
    BY <1>3, <1>4, SetAdded DEF DbClean
  <2> QED BY <1>3, <1>4, <2>1, StaysClean
<1> HIDE DEF e
<1>7. DbClean(r, RgNames)
  BY <1>4, <1>5, <1>6
<1>8. DOMAIN el_to_reg_map' \subseteq DOMAIN rg_mesh.elements
  BY <1>1 DEF RgInv, ReadingOK
<1> HIDE DEF r
<1> QED BY <1>1, <1>7, <1>8, RecordRead

LEMMA CombineStep ==
  ASSUME NamesApart, RgInv, NEW name \in RgNames, NEW first, NEW second, NEW difference,
         RgCombine(name, first, second, difference)
  PROVE  RgInv'
<1> DEFINE result == IF difference THEN sets[first] \ sets[second] ELSE sets[first] \cap sets[second]
           e == [db EXCEPT !.sets = add_set(@, name, result)]
           r == IF ~ {first, second} \subseteq DOMAIN sets THEN throws(db)
                ELSE IF result = {} THEN throws(db) ELSE e
<1>1. rg_phase = "regions" /\ record_read(r) /\ el_to_reg_map' = el_to_reg_map
  BY DEF RgCombine, record_read
<1>2. DbClean(db, RgNames) /\ DbOK(db, RgNames) /\ IsDb(db)
  BY <1>1, AtRecords DEF DbOK
<1>3. name \notin StandardSets /\ name # ImplicitLabel
  BY InputName
<1>5. DbClean(throws(db), RgNames)
  <2>1. SameData(db, throws(db))
    BY <1>2, Throws
  <2>2. DbMade(db, throws(db), RgNames, name)
    BY <1>2, <2>1, SameStep, StepIsMade
  <2> QED BY <1>2, <1>3, <2>2, StaysClean
<1> HIDE DEF result
<1>6. DbClean(e, RgNames)
  <2>1. DbMade(db, e, RgNames, name)
    BY <1>2, <1>3, SetAdded
  <2> QED BY <1>2, <1>3, <2>1, StaysClean
<1> HIDE DEF e
<1>7. DbClean(r, RgNames)
  BY <1>5, <1>6
<1>8. DOMAIN el_to_reg_map' \subseteq DOMAIN rg_mesh.elements
  BY <1>1 DEF RgInv, ReadingOK
<1> HIDE DEF r
<1> QED BY <1>1, <1>7, <1>8, RecordRead

\* read_physical_names: only the database changes.
LEMMA PhysicalNameStep ==
  ASSUME NamesApart, RgInv, RgPhysicalName
  PROVE  RgInv'
<1> DEFINE n == rg_read + 1
           p == rg_mesh.names[n]
           d == add_region(db, p.id, p.label, p.dim)
<1>1. /\ rg_phase = "names" /\ region_table' = d.table /\ sets' = d.sets
      /\ rg_mesh' = rg_mesh /\ rg_element' = rg_element /\ el_to_reg_map' = el_to_reg_map
      /\ \/ rg_phase' = "error"
         \/ rg_phase' \in {"regions", "elements"} /\ rg_read' = 0
         \/ rg_phase' = "names" /\ rg_read' = n /\ n # Len(rg_mesh.names)
  <2> HIDE DEF d
  <2> QED BY DEF RgPhysicalName, becomes_db, moves_on, d
<1>2. /\ ReadingOK /\ rg_read \in Nat /\ rg_read < Len(rg_mesh.names) /\ DOMAIN rg_element = {}
      /\ rg_mesh \in RgMeshes
      /\ DatabaseOK(region_table, sets, {}) /\ ImplicitLabel \notin DOMAIN sets
  BY <1>1 DEF RgInv, ReadingOK, Counts, NamesOfSets
<1>3. Len(rg_mesh.names) \in Nat /\ DOMAIN rg_mesh.names = 1 .. Len(rg_mesh.names)
      /\ 0 < Len(rg_mesh.elements)
  BY <1>2, RegionInputsAssumption
<1>4. n \in DOMAIN rg_mesh.names
  BY <1>2, <1>3
<1>5. p.label \notin StandardSets /\ p.label # ImplicitLabel
  BY <1>2, <1>4 DEF NamesApart, Reserved
<1>6. DbOK(db, {}) /\ db.sets = sets
  BY <1>2, DbIs
<1> HIDE DEF p
<1>7. Available(db, p.label)
  <2>1. with_label(db, p.label) = {} => p.label \notin DOMAIN db.sets
    BY <1>5, <1>6, FreeName DEF DbOK
  <2> QED BY <1>5, <2>1 DEF Available
<1>8. DbMade(db, d, {}, p.label)
  BY <1>6, <1>7, AddRegion, StepIsMade
<1>9. DbClean(d, {})
  BY <1>2, <1>5, <1>6, <1>8, StaysClean DEF DbClean
<1> HIDE DEF d
<1>10. DatabaseOK(region_table', sets', {}) /\ ImplicitLabel \notin DOMAIN sets'
  BY <1>1, <1>9 DEF DbClean, DbOK
<1>11. DatabaseOK(region_table, sets, NamesOfSets)'
  <2>1. DatabaseOK(region_table', sets', RgNames)
    BY <1>10, MoreNames
  <2> QED BY <1>10, <2>1 DEF NamesOfSets
<1>12. ReadingOK'
  <2>1. rg_phase' = "names" => rg_read' \in Nat /\ rg_read' < Len(rg_mesh.names)
    BY <1>1, <1>2, <1>3
  <2>2. rg_phase' \in {"regions", "elements"} => rg_read' = 0
    BY <1>1
  <2>3. rg_phase' \in {"names", "regions", "elements", "error"}
    BY <1>1
  <2> QED BY <1>1, <1>2, <1>3, <1>10, <2>1, <2>2, <2>3 DEF ReadingOK, Counts
<1>13. PlacesOK'
  BY <1>1, <1>2 DEF PlacesOK
<1> QED BY <1>11, <1>12, <1>13 DEF RgInv

\* Elements stay placed when the regions that have a dimension are kept.
LEMMA PlacesKept ==
  ASSUME RgInv, rg_phase # "error", NEW U, KeepsRegions(region_table, U), NEW e \in DOMAIN rg_element
  PROVE  Placed(e, rg_element[e], U, id_so_far(e))
<1>1. /\ e \in DOMAIN rg_mesh.elements /\ rg_mesh \in RgMeshes
      /\ Placed(e, rg_element[e], region_table, id_so_far(e))
  BY DEF RgInv, ReadingOK, PlacesOK
<1>2. rg_mesh.elements[e].dim \in 0 .. 3
  <2> DEFINE s == rg_mesh.elements
             R == [id : Nat, dim : 0 .. 3]
  <2>1. s \in Seq(R)
    BY <1>1, RegionInputsAssumption
  <2>2. e \in DOMAIN s
    BY <1>1
  <2> HIDE DEF s, R
  <2>3. s[e] \in R
    BY <2>1, <2>2
  <2> QED BY <2>3 DEF s, R
<1>3. region_table[rg_element[e]].dim # undefined_dim
  BY <1>1, <1>2 DEF Placed, undefined_dim
<1> QED BY <1>1, <1>3 DEF Placed, KeepsRegions

\* A used region of the id and dimension of an element
LEMMA UsedAndFound ==
  ASSUME NEW a, NEW N, DbOK(a, N), NEW id, NEW dim, Found(a, id, dim), NEW label,
         NEW d, d = mark_used_region(a, a.region)
  PROVE  /\ DbStep(a, d, N, label) /\ d.ok = a.ok /\ Found(d, id, dim) /\ d.table[d.region].used
         /\ d.sets = a.sets
<1>1. a.region \in DOMAIN a.table /\ a.table[a.region].id = id /\ a.table[a.region].dim = dim
  BY DEF Found
<1>2. /\ DbStep(a, d, N, label) /\ Assigned(d.table, a.table, a.region, with_mark(a.table[a.region]))
      /\ d.ok = a.ok /\ d.region = a.region /\ d.sets = a.sets
  BY <1>1, MarkUsed
<1>3. d.table[d.region] = with_mark(a.table[a.region]) /\ d.region \in DOMAIN d.table
  BY <1>1, <1>2 DEF Assigned
<1> QED BY <1>1, <1>2, <1>3 DEF Found, with_mark

\* Steps of the database follow each other.
LEMMA StepsFollow ==
  ASSUME NEW a, NEW b, NEW c, NEW N, NEW label, DbStep(a, b, N, label), DbStep(b, c, N, label)
  PROVE  DbStep(a, c, N, label)
<1>1. KeepsRegions(a.table, c.table)
  <2> DEFINE T == a.table
             U == b.table
             V == c.table
  <2>1. KeepsRegions(T, U) /\ KeepsRegions(U, V)
    BY DEF DbStep
  <2> HIDE DEF T, U, V
  <2>2. KeepsRegions(T, V)
    BY <2>1, KeepsTrans
  <2> QED BY <2>2 DEF T, V
<1> QED BY <1>1 DEF DbStep

LEMMA NoRegionIsNone ==
  ASSUME NEW d, NEW N, DbOK(d, N) PROVE NoRegion \notin DOMAIN d.table
<1>1. DOMAIN d.table \subseteq Nat
  BY DEF DbOK, DatabaseOK, TableOK
<1> QED BY <1>1 DEF NoRegion

\* add_element
LEMMA ElementStep ==
  ASSUME NamesApart, RgInv, RgElement
  PROVE  RgInv'
<1> DEFINE n == rg_read + 1
           m == rg_mesh.elements[n]
           label == create_label_from_id(m.id)
           g == get_region(db, m.id, m.dim)
           new == g.ok /\ g.region = NoRegion
           a == IF new THEN add_region(g, m.id, label, m.dim) ELSE g
           d == IF a.ok THEN mark_used_region(a, a.region) ELSE a
<1>1. /\ rg_phase = "elements" /\ region_table' = d.table /\ sets' = d.sets
      /\ rg_element' = (IF d.ok THEN put(rg_element, n, d.region) ELSE rg_element)
      /\ rg_mesh' = rg_mesh /\ el_to_reg_map' = el_to_reg_map
      /\ rg_phase' = (IF ~ d.ok THEN "error" ELSE IF n = Len(rg_mesh.elements) THEN "topology" ELSE "elements")
      /\ rg_read' = IF n = Len(rg_mesh.elements) THEN 0 ELSE n
  <2>1. a = IF g.ok /\ g.region = NoRegion THEN add_region(g, m.id, label, m.dim) ELSE g
    OBVIOUS
  <2> HIDE DEF a, g
  <2>2. d = IF a.ok THEN mark_used_region(a, a.region) ELSE a
    OBVIOUS
  <2> HIDE DEF d
  <2> QED BY <2>1, <2>2 DEF RgElement, becomes_db, moves_on, a, d, g
<1>2. /\ ReadingOK /\ rg_read \in Nat /\ rg_read < Len(rg_mesh.elements) /\ rg_mesh \in RgMeshes
      /\ DatabaseOK(region_table, sets, RgNames) /\ ImplicitLabel \notin DOMAIN sets
  BY <1>1 DEF RgInv, ReadingOK, Counts, NamesOfSets
<1>3. /\ Len(rg_mesh.elements) \in Nat /\ DOMAIN rg_mesh.elements = 1 .. Len(rg_mesh.elements)
  BY <1>2, RegionInputsAssumption
<1>4. n \in DOMAIN rg_mesh.elements /\ n \in Nat
  BY <1>2, <1>3
<1>5. label \notin RgNames \cup Reserved
  BY <1>2, <1>4 DEF NamesApart
<1>6. DbOK(db, RgNames) /\ db.table = region_table /\ db.sets = sets /\ db.ok = TRUE /\ db.region = NoRegion
  BY <1>2, DbIs
<1>7. label # ImplicitLabel
  BY <1>5 DEF Reserved
<1> HIDE DEF n, m, label
<1>8. DbStep(db, g, RgNames, label) /\ (g = db \/ Found(g, m.id, m.dim))
  BY <1>6, GetRegion
<1> HIDE DEF g
<1>9. DbStep(db, a, RgNames, label) /\ (a.ok => Found(a, m.id, m.dim))
  <2>1. CASE g.ok /\ g.region = NoRegion
    <3>1. g = db
      BY <1>8, <2>1, NoRegionIsNone DEF Found, DbStep
    <3>2. a = add_region(db, m.id, label, m.dim)
      BY <2>1, <3>1
    <3> HIDE DEF a
    <3>3. Available(db, label)
      BY <1>5, <1>6, NameOfId
    <3> QED BY <1>6, <3>2, <3>3, AddRegion
  <2>2. CASE ~ (g.ok /\ g.region = NoRegion)
    <3>1. a = g /\ (a.ok => g # db)
      BY <1>6, <2>2
    <3> HIDE DEF a
    <3> QED BY <1>8, <3>1
  <2> QED BY <2>1, <2>2
<1> HIDE DEF a
<1>10. /\ DbStep(db, d, RgNames, label)
       /\ d.ok => Found(d, m.id, m.dim) /\ d.table[d.region].used
  <2>1. CASE a.ok
    <3>1. d = mark_used_region(a, a.region) /\ Found(a, m.id, m.dim) /\ DbOK(a, RgNames)
      BY <1>9, <2>1 DEF DbStep
    <3> HIDE DEF d
    <3>2. DbStep(a, d, RgNames, label) /\ Found(d, m.id, m.dim) /\ d.table[d.region].used
      BY <3>1, UsedAndFound
    <3> QED BY <1>9, <3>2, StepsFollow
  <2>2. CASE ~ a.ok
    <3>1. d = a
      BY <2>2
    <3> HIDE DEF d
    <3> QED BY <1>9, <2>2, <3>1
  <2> QED BY <2>1, <2>2
<1> HIDE DEF d
<1>11. DatabaseOK(region_table', sets', RgNames) /\ ImplicitLabel \notin DOMAIN sets'
       /\ KeepsRegions(region_table, region_table')
  BY <1>1, <1>2, <1>6, <1>7, <1>10, ImplicitNotStandard DEF DbStep, DbOK
<1>12. NamesOfSets' = RgNames
  BY <1>1 DEF NamesOfSets
<1>13. ReadingOK'
  <2>1. rg_phase' = "elements" => rg_read' \in Nat /\ rg_read' < Len(rg_mesh.elements)
    BY <1>1, <1>2, <1>3 DEF n
  <2>2. rg_phase' = "topology" => rg_read' = 0
    BY <1>1
  <2>3. rg_phase' \in {"elements", "topology", "error"}
    BY <1>1
  <2> QED BY <1>1, <1>2, <1>11, <2>1, <2>2, <2>3 DEF ReadingOK, Counts
<1>14. PlacesOK'
  <2>1. CASE d.ok
    <3>1. Assigned(rg_element', rg_element, n, d.region)
      BY <1>1, <2>1, PutIs
    <3>2. DOMAIN rg_element \subseteq DOMAIN rg_mesh.elements
      BY DEF RgInv, PlacesOK
    <3>3. ASSUME NEW e \in DOMAIN rg_mesh.elements PROVE id_so_far(e)' = rg_mesh.elements[e].id
      BY <1>1, <2>1 DEF id_so_far
    <3>4. ASSUME NEW e \in DOMAIN rg_element'
          PROVE  Placed(e, rg_element[e], region_table, id_so_far(e))'
      <4>1. CASE e = n
        <5>1. id_so_far(e)' = m.id /\ rg_element'[e] = d.region
          BY <1>4, <3>1, <3>3, <4>1 DEF Assigned, m
        <5> QED BY <1>1, <1>10, <2>1, <4>1, <5>1 DEF Placed, Found, m
      <4>2. CASE e # n
        <5>1. e \in DOMAIN rg_element /\ rg_element'[e] = rg_element[e]
          BY <3>1, <4>2 DEF Assigned
        <5>2. Placed(e, rg_element[e], region_table', id_so_far(e))
          BY <1>1, <1>11, <5>1, PlacesKept
        <5>3. id_so_far(e)' = id_so_far(e)
          BY <1>1, <3>2, <3>3, <5>1 DEF id_so_far
        <5> QED BY <1>1, <5>1, <5>2, <5>3 DEF Placed
      <4> QED BY <4>1, <4>2
    <3>5. DOMAIN rg_element' \subseteq DOMAIN rg_mesh'.elements
      BY <1>1, <1>4, <3>1, <3>2 DEF Assigned
    <3> QED BY <3>4, <3>5 DEF PlacesOK
  <2>2. CASE ~ d.ok
    BY <1>1, <2>2 DEF RgInv, PlacesOK
  <2> QED BY <2>1, <2>2
<1> QED BY <1>11, <1>12, <1>13, <1>14 DEF RgInv

\* Where elements are after a step that only keeps regions
LEMMA PlacesStay ==
  ASSUME RgInv, rg_phase # "error", KeepsRegions(region_table, region_table'),
         rg_mesh' = rg_mesh, rg_element' = rg_element,
         \A e \in DOMAIN rg_element : id_so_far(e)' = id_so_far(e)
  PROVE  PlacesOK'
<1>1. \A e \in DOMAIN rg_element : Placed(e, rg_element[e], region_table', id_so_far(e))
  BY PlacesKept
<1>2. DOMAIN rg_element \subseteq DOMAIN rg_mesh.elements
  BY DEF RgInv, PlacesOK
<1>3. \A e \in DOMAIN rg_element : Placed(e, rg_element[e], region_table, id_so_far(e))'
  BY <1>1 DEF Placed
<1> QED BY <1>2, <1>3 DEF PlacesOK

\* Numbers of elements are positive.
LEMMA ElementNumbers ==
  ASSUME RgInv PROVE DOMAIN rg_mesh.elements \subseteq Nat \ {0}
<1>1. rg_mesh \in RgMeshes
  BY DEF RgInv, ReadingOK
<1>2. DOMAIN rg_mesh.elements = 1 .. Len(rg_mesh.elements)
  BY <1>1, RegionInputsAssumption
<1> QED BY <1>2

\* setup_topology
LEMMA TopologyStep ==
  ASSUME RgInv, NEW outer, RgTopology(outer)
  PROVE  RgInv'
<1> DEFINE found == with_dim_id(db, undefined_dim, ImplicitId)
           d == IF found # {} THEN returns(db, the(found))
                ELSE insert_region(db, ImplicitId, ImplicitLabel, undefined_dim, TRUE)
           e == IF outer THEN mark_used_region(d, d.region) ELSE db
<1>1. /\ rg_phase = "topology" /\ region_table' = e.table /\ sets' = e.sets
      /\ rg_phase' = "finish" /\ rg_read' = rg_read
      /\ rg_mesh' = rg_mesh /\ el_to_reg_map' = el_to_reg_map /\ rg_element' = rg_element
  <2> HIDE DEF d
  <2>1. e = IF outer THEN mark_used_region(d, d.region) ELSE db
    OBVIOUS
  <2> HIDE DEF e
  <2> QED BY <2>1 DEF RgTopology, becomes_db, d, e
<1>2. /\ ReadingOK /\ rg_read = 0 /\ rg_mesh \in RgMeshes
      /\ DatabaseOK(region_table, sets, RgNames) /\ ImplicitLabel \notin DOMAIN sets
  BY <1>1 DEF RgInv, ReadingOK, NamesOfSets
<1>3. DbOK(db, RgNames) /\ db.table = region_table /\ db.sets = sets
  BY <1>2, DbIs
<1>4. DbStep(db, d, RgNames, ImplicitLabel) /\ Found(d, ImplicitId, undefined_dim)
  <2>1. CASE found # {}
    <3>1. /\ the(found) \in DOMAIN db.table /\ db.table[the(found)].dim = undefined_dim
          /\ db.table[the(found)].id = ImplicitId
      BY <2>1, TheIs DEF with_dim_id
    <3>2. d = returns(db, the(found))
      BY <2>1
    <3> HIDE DEF found, d
    <3>3. SameData(db, d) /\ d.region = the(found)
      BY <1>3, <3>2, Returns DEF DbOK
    <3>4. DbStep(db, d, RgNames, ImplicitLabel)
      BY <1>3, <3>3, SameStep
    <3> QED BY <3>1, <3>3, <3>4 DEF SameData, Found
  <2>2. CASE found = {}
    <3>1. d = insert_region(db, ImplicitId, ImplicitLabel, undefined_dim, TRUE)
      BY <2>2
    <3>2. ImplicitLabel \notin DOMAIN db.sets
      BY <1>2, <1>3
    <3> HIDE DEF found, d
    <3> QED BY <1>3, <3>1, <3>2, ImplicitNotStandard, InsertRegion
  <2> QED BY <2>1, <2>2
<1> HIDE DEF d
<1>5. DbStep(db, e, RgNames, ImplicitLabel)
  <2>1. CASE outer
    <3>1. e = mark_used_region(d, d.region) /\ DbOK(d, RgNames)
      BY <1>4, <2>1 DEF DbStep
    <3> HIDE DEF e
    <3>2. DbStep(d, e, RgNames, ImplicitLabel)
      BY <1>4, <3>1, UsedAndFound
    <3> QED BY <1>4, <3>2, StepsFollow
  <2>2. CASE e = db
    <3> HIDE DEF e
    <3> QED BY <1>3, <2>2, KeepsSame DEF DbStep
  <2> QED BY <2>1, <2>2
<1> HIDE DEF e
<1>6. DatabaseOK(region_table', sets', RgNames) /\ KeepsRegions(region_table, region_table')
  BY <1>1, <1>3, <1>5 DEF DbStep, DbOK
<1>7. NamesOfSets' = RgNames
  BY <1>1 DEF NamesOfSets
<1>8. ReadingOK'
  BY <1>1, <1>2 DEF ReadingOK, Counts
<1>9. \A x \in DOMAIN rg_element : id_so_far(x)' = id_so_far(x)
  <2>1. DOMAIN rg_element \subseteq Nat \ {0}
    BY ElementNumbers DEF RgInv, PlacesOK
  <2> QED BY <1>1, <1>2, <2>1 DEF id_so_far
<1>10. PlacesOK'
  BY <1>1, <1>6, <1>9, PlacesStay
<1> QED BY <1>6, <1>7, <1>8, <1>10 DEF RgInv

\* The next element of the map
LEMMA NextOfMap ==
  ASSUME RgInv, rg_phase = "finish", NEW S, S = {x \in DOMAIN el_to_reg_map : x > rg_read}, S # {}
  PROVE  Min(S) \in S /\ \A x \in S : Min(S) <= x
<1>1. S \subseteq Nat
  <2>1. DOMAIN el_to_reg_map \subseteq DOMAIN rg_mesh.elements
    BY DEF RgInv, ReadingOK
  <2> QED BY <2>1, ElementNumbers
<1>2. PICK x \in S : \A y \in S : x <= y
  BY <1>1, LeastNumber
<1> QED BY <1>2 DEF Min

\* modify_element_ids for the next element of the map
LEMMA ModifyStep ==
  ASSUME RgInv, RgModify
  PROVE  RgInv'
<1> DEFINE S == {x \in DOMAIN el_to_reg_map : x > rg_read}
           e == Min(S)
           id == el_to_reg_map[e]
           dim == rg_mesh.elements[e].dim
           g == get_region(db, id, dim)
           d == IF g.ok /\ g.region # NoRegion THEN modified(g, g.region) ELSE throws(g)
           r == IF dim = rg_mesh.elements[Min(DOMAIN el_to_reg_map)].dim THEN d ELSE throws(db)
<1>1. /\ rg_phase = "finish" /\ S # {} /\ region_table' = r.table /\ sets' = r.sets
      /\ rg_element' = (IF r.ok THEN put(rg_element, e, r.region) ELSE rg_element)
      /\ rg_phase' = (IF r.ok THEN "finish" ELSE "error") /\ rg_read' = e
      /\ rg_mesh' = rg_mesh /\ el_to_reg_map' = el_to_reg_map
  <2>1. d = IF g.ok /\ g.region # NoRegion THEN modified(g, g.region) ELSE throws(g)
    OBVIOUS
  <2> HIDE DEF d, g
  <2>2. r = IF dim = rg_mesh.elements[Min(DOMAIN el_to_reg_map)].dim THEN d ELSE throws(db)
    OBVIOUS
  <2> HIDE DEF r
  <2> QED BY <2>1, <2>2 DEF RgModify, becomes_db, d, g, r
<1>2. /\ ReadingOK /\ rg_read \in Nat /\ rg_mesh \in RgMeshes
      /\ DatabaseOK(region_table, sets, RgNames)
      /\ DOMAIN el_to_reg_map \subseteq DOMAIN rg_mesh.elements
      /\ DOMAIN rg_element \subseteq DOMAIN rg_mesh.elements
  BY <1>1 DEF RgInv, ReadingOK, NamesOfSets, PlacesOK
<1>3. e \in S /\ \A x \in S : e <= x
  BY <1>1, NextOfMap
<1>4. e \in DOMAIN el_to_reg_map /\ e > rg_read /\ e \in Nat
      /\ \A x \in DOMAIN el_to_reg_map : x > rg_read => e <= x
  BY <1>2, <1>3, ElementNumbers
<1>5. DbOK(db, RgNames) /\ db.table = region_table /\ db.sets = sets /\ db.region = NoRegion
  BY <1>2, DbIs
<1> HIDE DEF S, e, id, dim
<1>6. DbStep(db, g, RgNames, ImplicitLabel) /\ (g = db \/ Found(g, id, dim))
  BY <1>5, GetRegion
<1> HIDE DEF g
<1>7. /\ DbStep(db, d, RgNames, ImplicitLabel)
      /\ d.ok => Found(d, id, dim) /\ d.table[d.region].used
  <2>1. CASE g.ok /\ g.region # NoRegion
    <3>1. d = mark_used_region(g, g.region) /\ Found(g, id, dim) /\ DbOK(g, RgNames)
      BY <1>5, <1>6, <2>1 DEF DbStep, modified
    <3> HIDE DEF d
    <3>2. DbStep(g, d, RgNames, ImplicitLabel) /\ Found(d, id, dim) /\ d.table[d.region].used
      BY <3>1, UsedAndFound
    <3> QED BY <1>6, <3>2, StepsFollow
  <2>2. CASE ~ (g.ok /\ g.region # NoRegion)
    <3>1. d = throws(g) /\ DbOK(g, RgNames)
      BY <1>6, <2>2 DEF DbStep
    <3> HIDE DEF d
    <3>2. SameData(g, d) /\ d.ok = FALSE
      BY <3>1, Throws DEF DbOK
    <3>3. DbStep(g, d, RgNames, ImplicitLabel)
      BY <3>1, <3>2, SameStep
    <3> QED BY <1>6, <3>2, <3>3, StepsFollow
  <2> QED BY <2>1, <2>2
<1> HIDE DEF d
<1>8. /\ DbStep(db, r, RgNames, ImplicitLabel)
      /\ r.ok => Found(r, id, dim) /\ r.table[r.region].used
  <2>1. CASE r = d
    <3> HIDE DEF r
    <3> QED BY <1>7, <2>1
  <2>2. CASE r = throws(db)
    <3> HIDE DEF r
    <3>1. SameData(db, r) /\ r.ok = FALSE
      BY <1>5, <2>2, Throws DEF DbOK
    <3>2. DbStep(db, r, RgNames, ImplicitLabel)
      BY <1>5, <3>1, SameStep
    <3> QED BY <3>1, <3>2
  <2> QED BY <2>1, <2>2
<1> HIDE DEF r
<1>9. DatabaseOK(region_table', sets', RgNames) /\ KeepsRegions(region_table, region_table')
  BY <1>1, <1>5, <1>8 DEF DbStep, DbOK
<1>10. NamesOfSets' = RgNames
  BY <1>1 DEF NamesOfSets
<1>11. ReadingOK'
  BY <1>1, <1>2, <1>4 DEF ReadingOK, Counts
<1>12. PlacesOK'
  <2>1. CASE r.ok
    <3>1. Assigned(rg_element', rg_element, e, r.region)
      BY <1>1, <2>1, PutIs
    <3>2. rg_phase' = "finish"
      BY <1>1, <2>1
    <3>3. ASSUME NEW x, x = e PROVE id_so_far(x)' = id
      BY <1>1, <1>4, <3>2, <3>3 DEF id_so_far, id
    <3>4. ASSUME NEW x \in DOMAIN rg_element, x # e PROVE id_so_far(x)' = id_so_far(x)
      <4>1. x \in Nat
        BY <1>2, ElementNumbers
      <4>2. x \in DOMAIN el_to_reg_map => (x <= e <=> x <= rg_read)
        BY <1>2, <1>4, <3>4, <4>1
      <4> QED BY <1>1, <3>2, <4>2 DEF id_so_far
    <3>5. ASSUME NEW x \in DOMAIN rg_element'
          PROVE  Placed(x, rg_element[x], region_table, id_so_far(x))'
      <4>1. CASE x = e
        <5>1. rg_element'[e] = r.region
          BY <3>1 DEF Assigned
        <5>2. id_so_far(x)' = id
          BY <3>3, <4>1
        <5> QED BY <1>1, <1>8, <2>1, <4>1, <5>1, <5>2 DEF Placed, Found, dim
      <4>2. CASE x # e
        <5>1. x \in DOMAIN rg_element /\ rg_element'[x] = rg_element[x]
          BY <3>1, <4>2 DEF Assigned
        <5>2. Placed(x, rg_element[x], region_table', id_so_far(x))
          BY <1>1, <1>9, <5>1, PlacesKept
        <5> QED BY <1>1, <3>4, <4>2, <5>1, <5>2 DEF Placed
      <4> QED BY <4>1, <4>2
    <3>6. DOMAIN rg_element' \subseteq DOMAIN rg_mesh'.elements
      BY <1>1, <1>2, <1>4, <3>1 DEF Assigned
    <3> QED BY <3>5, <3>6 DEF PlacesOK
  <2>2. CASE ~ r.ok
    BY <1>1, <1>2, <2>2 DEF PlacesOK
  <2> QED BY <2>1, <2>2
<1> QED BY <1>9, <1>10, <1>11, <1>12 DEF RgInv

\* check_and_finish and steps that change nothing
LEMMA FinishStep ==
  ASSUME RgInv, RgFinish
  PROVE  RgInv'
<1>1. /\ rg_phase = "finish" /\ rg_phase' = "done" /\ \A x \in DOMAIN el_to_reg_map : x <= rg_read
      /\ rg_mesh' = rg_mesh /\ rg_read' = rg_read /\ region_table' = region_table /\ sets' = sets
      /\ el_to_reg_map' = el_to_reg_map /\ rg_element' = rg_element
  BY DEF RgFinish
<1>2. DatabaseOK(region_table, sets, NamesOfSets)'
  BY <1>1 DEF RgInv, NamesOfSets
<1>3. ReadingOK'
  BY <1>1 DEF RgInv, ReadingOK, Counts
<1>4. \A x \in DOMAIN rg_element : id_so_far(x)' = id_so_far(x)
  BY <1>1 DEF id_so_far
<1>5. PlacesOK'
  BY <1>1, <1>4, KeepsSame, PlacesStay
<1> QED BY <1>2, <1>3, <1>5 DEF RgInv

LEMMA RegionStutters ==
  ASSUME RgInv, UNCHANGED rg_vars
  PROVE  RgInv'
<1>1. /\ rg_phase' = rg_phase /\ rg_mesh' = rg_mesh /\ rg_read' = rg_read
      /\ region_table' = region_table /\ sets' = sets
      /\ el_to_reg_map' = el_to_reg_map /\ rg_element' = rg_element
  BY DEF rg_vars
<1>2. DatabaseOK(region_table, sets, NamesOfSets)'
  BY <1>1 DEF RgInv, NamesOfSets
<1>3. ReadingOK'
  BY <1>1 DEF RgInv, ReadingOK, Counts
<1>4. PlacesOK'
  BY <1>1 DEF RgInv, PlacesOK, Placed, id_so_far
<1> QED BY <1>2, <1>3, <1>4 DEF RgInv

\* The invariant holds at first.
LEMMA RegionInit ==
  ASSUME RgInit PROVE RgInv
<1>1. /\ rg_mesh \in RgMeshes /\ rg_read = 0 /\ region_table = <<>> /\ sets = <<>>
      /\ el_to_reg_map = <<>> /\ rg_element = <<>> /\ rg_phase \in {"names", "regions", "elements"}
      /\ rg_phase = "names" => rg_mesh.names # <<>>
  BY DEF RgInit
<1>2. \A f : f = <<>> => IsFunction(f) /\ DOMAIN f = {}
  BY DEF IsFunction
<1>3. DatabaseOK(region_table, sets, NamesOfSets)
  <2>1. IsFunction(region_table) /\ IsFunction(sets) /\ DOMAIN region_table = {} /\ DOMAIN sets = {}
    BY <1>1, <1>2
  <2>2. TableOK(region_table)
    BY <2>1, FS_EmptySet DEF TableOK, same_kind
  <2>3. NamesOK(region_table, sets)
    BY <2>1 DEF NamesOK
  <2>4. SetsOK(region_table, sets, NamesOfSets)
    BY <2>1 DEF SetsOK
  <2> QED BY <2>2, <2>3, <2>4 DEF DatabaseOK
<1>4. ReadingOK
  <2>1. rg_mesh.names # <<>> => 0 < Len(rg_mesh.names)
    BY <1>1, RegionInputsAssumption
  <2>2. 0 < Len(rg_mesh.elements)
    BY <1>1, RegionInputsAssumption
  <2>3. DOMAIN el_to_reg_map = {} /\ DOMAIN rg_element = {} /\ DOMAIN sets = {}
    BY <1>1, <1>2
  <2> QED BY <1>1, <2>1, <2>2, <2>3 DEF ReadingOK, Counts
<1>5. PlacesOK
  BY <1>1, <1>2 DEF PlacesOK
<1> QED BY <1>3, <1>4, <1>5 DEF RgInv

\* Every step keeps the invariant.
LEMMA RegionStep ==
  ASSUME NamesApart, RgInv, [RgNext]_rg_vars PROVE RgInv'
<1>1. CASE RgPhysicalName
  BY <1>1, PhysicalNameStep
<1>2. CASE \E name \in RgNames, id \in RgIds, dim \in RgDims \cup {undefined_dim} : RgFromId(name, id, dim)
  BY <1>2, FromIdStep
<1>3. CASE \E name \in RgNames, label \in RgNames \cup {p.label : p \in Range(rg_mesh.names)},
             allow_empty \in BOOLEAN : RgFromLabel(name, label, allow_empty)
  BY <1>3, FromLabelStep
<1>4. CASE \E name \in RgNames, id \in RgIds \cup {0},
             list \in SUBSET (1..Len(rg_mesh.elements)) \ {{}} : RgFromElements(name, id, list)
  BY <1>4, FromElementsStep
<1>5. CASE \E name \in RgNames, set_name \in RgNames \cup {"BULK"}, id \in RgIds : RgUnion(name, set_name, id)
  BY <1>5, UnionStep
<1>6. CASE \E name \in RgNames, first \in {"ALL", "BULK"}, second \in RgNames \cup {".BOUNDARY"},
             difference \in BOOLEAN : RgCombine(name, first, second, difference)
  BY <1>6, CombineStep
<1>7. CASE \E outer \in BOOLEAN : RgTopology(outer)
  BY <1>7, TopologyStep
<1>8. CASE RgElement
  BY <1>8, ElementStep
<1>9. CASE RgModify
  BY <1>9, ModifyStep
<1>10. CASE RgFinish
  BY <1>10, FinishStep
<1>11. CASE RgAtEnd \/ UNCHANGED rg_vars
  BY <1>11, RegionStutters DEF RgAtEnd
<1> QED BY <1>1, <1>2, <1>3, <1>4, <1>5, <1>6, <1>7, <1>8, <1>9, <1>10, <1>11 DEF RgNext

\* Where the names of the database are kept apart from those of the input, its indices, names and
\* sets fit together and elements are in used regions, whatever records the input has
\* (RegionDB::insert_region, rename_region, get_region, mark_used_region; Mesh::setup_topology,
\* check_and_finish).
THEOREM RegionInvariant == NamesApart /\ RgSpec => []RgInv
<1>1. RgInit => RgInv
  BY RegionInit
<1>2. NamesApart /\ RgInv /\ [RgNext]_rg_vars => RgInv'
  BY RegionStep
<1>3. NamesApart => NamesApart'
  BY DEF NamesApart
<1> QED BY <1>1, <1>2, <1>3, PTL DEF RgSpec

\* Then a label names one region and its set, elements are in regions of their dimension and of
\* the id they were given, and these regions are marked as used (the checks of
\* RegionDB::check_regions and Mesh::check_and_finish).
THEOREM RegionsDeclared == NamesApart /\ RgSpec => []RegionsAsDeclared
<1>1. RgInv => RegionsAsDeclared
  <2> SUFFICES ASSUME RgInv PROVE RegionsAsDeclared
    OBVIOUS
  <2>1. LabelNamesItsRegion
    BY DEF RgInv, DatabaseOK, NamesOK, LabelNamesItsRegion
  <2>2. ASSUME rg_phase = "done", NEW e \in DOMAIN rg_element
        PROVE  /\ region_table[rg_element[e]].dim = rg_mesh.elements[e].dim
               /\ region_table[rg_element[e]].id = declared_id(e)
               /\ region_table[rg_element[e]].used
    <3>1. Placed(e, rg_element[e], region_table, id_so_far(e))
      BY <2>2 DEF RgInv, PlacesOK
    <3>2. id_so_far(e) = declared_id(e)
      BY <2>2 DEF RgInv, ReadingOK, id_so_far, declared_id
    <3> QED BY <3>1, <3>2 DEF Placed
  <2>3. ElementsAsDeclared /\ RegionsOfElementsUsed
    BY <2>2 DEF ElementsAsDeclared, RegionsOfElementsUsed, elements_read
  <2> QED BY <2>1, <2>3 DEF RegionsAsDeclared
<1> QED BY <1>1, RegionInvariant, PTL

---------------------------------------------------------------------------
(* Folds over finite sets. *)

pick(s) == CHOOSE x \in s : TRUE

\* f[s] is the fold over the set s.
FoldsOver(f, S, H, base, take) ==
  /\ f \in [SUBSET S -> H]
  /\ \A s \in SUBSET S : f[s] = IF s = {} THEN base ELSE take[pick(s)][f[s \ {pick(s)}]]

\* A subset without the element that is picked
LEMMA WithoutPicked ==
  ASSUME NEW S, IsFiniteSet(S), NEW s \in SUBSET S, s # {}
  PROVE  /\ pick(s) \in s /\ pick(s) \in S /\ s \ {pick(s)} \in SUBSET S
         /\ Cardinality(s) \in Nat /\ Cardinality(s) > 0 /\ Cardinality(s) <= Cardinality(S)
         /\ Cardinality(s \ {pick(s)}) = Cardinality(s) - 1
<1>1. pick(s) \in s
  BY DEF pick
<1>2. IsFiniteSet(s) /\ Cardinality(s) <= Cardinality(S)
  BY FS_Subset
<1>3. Cardinality(s) \in Nat /\ Cardinality(s) # 0
  BY <1>2, FS_CardinalityType, FS_EmptySet
<1>4. Cardinality(s \ {pick(s)}) = Cardinality(s) - 1
  BY <1>1, <1>2, FS_RemoveElement
<1> QED BY <1>1, <1>2, <1>3, <1>4

\* A set of subsets that has the empty one, and every one that has an element more than one of
\* its own, has them all.
LEMMA PickInduction ==
  ASSUME NEW S, IsFiniteSet(S), NEW P, {} \in P,
         \A s \in SUBSET S : s # {} /\ s \ {pick(s)} \in P => s \in P
  PROVE  \A s \in SUBSET S : s \in P
<1> DEFINE Bad == {Cardinality(s) : s \in {s \in SUBSET S : s \notin P}}
<1> SUFFICES ASSUME Bad # {} PROVE FALSE
  OBVIOUS
<1>1. Bad \subseteq Nat
  BY FS_Subset, FS_CardinalityType
<1>2. PICK k \in Bad : \A j \in Bad : k <= j
  <2> HIDE DEF Bad
  <2> QED BY <1>1, LeastNumber
<1>3. PICK s \in SUBSET S : s \notin P /\ k = Cardinality(s)
  BY <1>2
<1>4. s # {}
  BY <1>3
<1>5. /\ s \ {pick(s)} \in SUBSET S /\ Cardinality(s) \in Nat
      /\ Cardinality(s \ {pick(s)}) = Cardinality(s) - 1
  BY <1>4, WithoutPicked
<1>6. s \ {pick(s)} \notin P
  BY <1>3, <1>4
<1>7. Cardinality(s) - 1 \in Bad
  BY <1>5, <1>6
<1>8. Cardinality(s) <= Cardinality(s) - 1
  <2> HIDE DEF Bad
  <2> QED BY <1>2, <1>3, <1>7
<1> QED BY <1>5, <1>8

\* A fold over a finite set has a value for each of its subsets.
LEMMA FoldHasValues ==
  ASSUME NEW S, IsFiniteSet(S), NEW H, NEW base \in H, NEW take \in [S -> [H -> H]]
  PROVE  \E f : FoldsOver(f, S, H, base, take)
<1> DEFINE n == Cardinality(S)
           G == [SUBSET S -> H]
           once(F) == [s \in SUBSET S |-> IF s = {} THEN base ELSE take[pick(s)][F[s \ {pick(s)}]]]
           nxt == [i \in (0 + 1) .. (n + 1) |-> [F \in G |-> once(F)]]
           F0 == [s \in SUBSET S |-> base]
<1>1. n \in Nat
  BY FS_CardinalityType
<1>2. ASSUME NEW F \in G PROVE once(F) \in G
  <2>1. ASSUME NEW s \in SUBSET S
        PROVE  (IF s = {} THEN base ELSE take[pick(s)][F[s \ {pick(s)}]]) \in H
    <3>1. CASE s = {}
      BY <3>1
    <3>2. CASE s # {}
      <4>1. pick(s) \in S /\ s \ {pick(s)} \in SUBSET S
        BY <3>2, WithoutPicked
      <4> QED BY <3>2, <4>1
    <3> QED BY <3>1, <3>2
  <2> QED BY <2>1
<1>3. F0 \in G
  OBVIOUS
<1> HIDE DEF n
<1>4. nxt \in [(0 + 1) .. (n + 1) -> [G -> G]]
  <2> HIDE DEF G, once
  <2> QED BY <1>2
<1>5. PICK f : Iterates(f, G, 0, n + 1, F0, nxt)
  <2> HIDE DEF G, nxt, F0
  <2>1. 0 \in Int /\ n + 1 \in Int /\ 0 <= n + 1
    BY <1>1
  <2> QED BY <1>3, <1>4, <2>1, LoopHasValues, Zenon
<1> HIDE DEF G, once, F0
<1>6. f \in [0 .. (n + 1) -> G] /\ f[0] = F0
  BY <1>5 DEF Iterates
<1>7. ASSUME NEW i \in 1 .. (n + 1)
      PROVE  f[i] = once(f[i - 1]) /\ f[i - 1] \in G /\ f[i] \in G
  <2>1. i \in (0 + 1) .. (n + 1) /\ i - 1 \in 0 .. (n + 1) /\ i \in 0 .. (n + 1)
    BY <1>1
  <2>2. f[i] = nxt[i][f[i - 1]] /\ f[i - 1] \in G
    BY <1>5, <1>6, <2>1 DEF Iterates
  <2> QED BY <1>6, <2>1, <2>2
<1>8. \A F, s : s \in SUBSET S =>
        once(F)[s] = IF s = {} THEN base ELSE take[pick(s)][F[s \ {pick(s)}]]
  BY DEF once
<1> DEFINE Fixed(i) == \A s \in SUBSET S : Cardinality(s) < i => f[i][s] = f[i - 1][s]
<1>9. \A i \in 1 .. (n + 1) : Fixed(i)
  <2> DEFINE Bad == {i \in 1 .. (n + 1) : ~ Fixed(i)}
  <2> SUFFICES ASSUME Bad # {} PROVE FALSE
    OBVIOUS
  <2>1. PICK i \in Bad : \A j \in Bad : i <= j
    <3>1. Bad \subseteq Nat
      BY <1>1
    <3> HIDE DEF Bad
    <3> QED BY <3>1, LeastNumber
  <2>2. i \in 1 .. (n + 1)
    BY <2>1
  <2>3. PICK s \in SUBSET S : Cardinality(s) < i /\ f[i][s] # f[i - 1][s]
    BY <2>1
  <2>4. f[i] = once(f[i - 1])
    BY <1>7, <2>2
  <2>5. CASE s = {}
    <3>1. f[i][s] = base
      BY <1>8, <2>4, <2>5
    <3>2. f[i - 1][s] = base
      <4>1. CASE i = 1
        BY <1>6, <2>5, <4>1 DEF F0
      <4>2. CASE i # 1
        <5>1. i - 1 \in 1 .. (n + 1)
          BY <1>1, <2>2, <4>2
        <5>2. f[i - 1] = once(f[(i - 1) - 1])
          BY <1>7, <5>1
        <5> QED BY <1>8, <2>5, <5>2
      <4> QED BY <4>1, <4>2
    <3> QED BY <2>3, <3>1, <3>2
  <2>6. CASE s # {}
    <3> DEFINE r == s \ {pick(s)}
    <3>1. /\ pick(s) \in S /\ r \in SUBSET S /\ Cardinality(s) \in Nat /\ Cardinality(s) > 0
          /\ Cardinality(r) = Cardinality(s) - 1
      BY <2>6, WithoutPicked
    <3> HIDE DEF r
    <3>2. i - 1 \in 1 .. (n + 1) /\ Cardinality(r) < i - 1 /\ ~ (i <= i - 1)
      BY <1>1, <2>2, <2>3, <3>1
    <3>3. i - 1 \notin Bad
      <4> HIDE DEF Bad
      <4> QED BY <2>1, <3>2
    <3>4. Fixed(i - 1)
      BY <3>2, <3>3
    <3>5. f[i - 1][r] = f[(i - 1) - 1][r]
      BY <3>1, <3>2, <3>4
    <3>6. f[i - 1] = once(f[(i - 1) - 1])
      BY <1>7, <3>2
    <3>7. f[i][s] = take[pick(s)][f[i - 1][r]]
      <4> DEFINE F == f[i]
                 E == f[i - 1]
      <4>1. F = once(E)
        BY <2>4
      <4> HIDE DEF F, E
      <4>2. F[s] = take[pick(s)][E[r]]
        BY <1>8, <2>6, <4>1 DEF r
      <4> QED BY <4>2 DEF F, E
    <3>8. f[i - 1][s] = take[pick(s)][f[(i - 1) - 1][r]]
      <4> DEFINE F == f[i - 1]
                 E == f[(i - 1) - 1]
      <4>1. F = once(E)
        BY <3>6
      <4> HIDE DEF F, E
      <4>2. F[s] = take[pick(s)][E[r]]
        BY <1>8, <2>6, <4>1 DEF r
      <4> QED BY <4>2 DEF F, E
    <3> QED BY <2>3, <3>5, <3>7, <3>8
  <2> QED BY <2>5, <2>6
<1>10. n + 1 \in 1 .. (n + 1) /\ (n + 1) - 1 = n
  BY <1>1
<1>11. f[n + 1] = once(f[n]) /\ f[n] \in G
  BY <1>7, <1>10
<1>12. ASSUME NEW s \in SUBSET S PROVE f[n + 1][s] = f[n][s]
  <2>1. Cardinality(s) <= n /\ Cardinality(s) \in Nat
    BY FS_Subset, FS_CardinalityType DEF n
  <2>2. Cardinality(s) < n + 1
    BY <1>1, <2>1
  <2>3. Fixed(n + 1)
    BY <1>9, <1>10
  <2> QED BY <1>10, <2>2, <2>3
<1>13. \A s \in SUBSET S : f[n][s] = IF s = {} THEN base ELSE take[pick(s)][f[n][s \ {pick(s)}]]
  <2> SUFFICES ASSUME NEW s \in SUBSET S
               PROVE  f[n][s] = IF s = {} THEN base ELSE take[pick(s)][f[n][s \ {pick(s)}]]
    OBVIOUS
  <2>1. f[n][s] = once(f[n])[s]
    BY <1>11, <1>12
  <2> QED BY <1>8, <2>1
<1> QED BY <1>11, <1>13 DEF FoldsOver, G

\* The sums over the subsets of the domain of v
SumsOver(f, v) ==
  /\ f \in [SUBSET DOMAIN v -> Int]
  /\ \A s \in SUBSET DOMAIN v : f[s] = IF s = {} THEN 0 ELSE v[pick(s)] + f[s \ {pick(s)}]

\* sum_over() is a sum.
LEMMA SumIs ==
  ASSUME NEW S, IsFiniteSet(S), NEW v \in [S -> Int]
  PROVE  \E f : SumsOver(f, v) /\ sum_over(v) = f[S]
<1> DEFINE take == [x \in S |-> [y \in Int |-> v[x] + y]]
           Loop(f) == f = [s \in SUBSET S |-> IF s = {} THEN 0 ELSE v[pick(s)] + f[s \ {pick(s)}]]
           g == CHOOSE f : Loop(f)
<1>1. take \in [S -> [Int -> Int]]
  OBVIOUS
<1>2. PICK f : FoldsOver(f, S, Int, 0, take)
  <2> HIDE DEF take
  <2>1. 0 \in Int
    OBVIOUS
  <2> QED BY <1>1, <2>1, FoldHasValues, Zenon
<1>3. f \in [SUBSET S -> Int]
  BY <1>2 DEF FoldsOver
<1>4. ASSUME NEW s \in SUBSET S
      PROVE  f[s] = IF s = {} THEN 0 ELSE v[pick(s)] + f[s \ {pick(s)}]
  <2>1. f[s] = IF s = {} THEN 0 ELSE take[pick(s)][f[s \ {pick(s)}]]
    BY <1>2 DEF FoldsOver
  <2>2. s # {} => pick(s) \in S /\ f[s \ {pick(s)}] \in Int
    BY <1>3, WithoutPicked
  <2> QED BY <2>1, <2>2
<1>5. Loop(f)
  BY <1>3, <1>4
<1>6. Loop(g)
  <2> HIDE DEF Loop
  <2> QED BY <1>5, Zenon
<1>7. sum_over(v) = g[S]
  BY DEF sum_over, MapThenSumSet, MapThenFoldSet, pick
<1> HIDE DEF g
<1>8. DOMAIN g = SUBSET S
      /\ \A s \in SUBSET S : g[s] = IF s = {} THEN 0 ELSE v[pick(s)] + g[s \ {pick(s)}]
  BY <1>6
<1> DEFINE P == {s \in SUBSET S : g[s] \in Int}
<1>9. \A s \in SUBSET S : s \in P
  <2>1. {} \in P
    <3>1. {} \in SUBSET S
      OBVIOUS
    <3>2. g[{}] = 0
      BY <1>8, <3>1, Zenon
    <3> QED BY <3>1, <3>2
  <2>2. ASSUME NEW s \in SUBSET S, s # {}, s \ {pick(s)} \in P PROVE s \in P
    <3>1. v[pick(s)] \in Int /\ g[s \ {pick(s)}] \in Int
      BY <2>2, WithoutPicked
    <3>2. g[s] = v[pick(s)] + g[s \ {pick(s)}]
      BY <1>8, <2>2
    <3>3. g[s] \in Int
      BY <3>1, <3>2
    <3> QED BY <3>3
  <2> HIDE DEF P
  <2> QED BY <2>1, <2>2, PickInduction
<1>10. g \in [SUBSET S -> Int]
  <2>1. g = [s \in SUBSET S |-> g[s]]
    BY <1>6
  <2>2. \A s \in SUBSET S : g[s] \in Int
    BY <1>9
  <2> QED BY <2>1, <2>2
<1>11. DOMAIN v = S
  OBVIOUS
<1> QED BY <1>7, <1>8, <1>10, <1>11 DEF SumsOver

\* The sum of a combination of two families
LEMMA SumOfCombination ==
  ASSUME NEW S, IsFiniteSet(S), NEW u \in [S -> Int], NEW v \in [S -> Int], NEW k \in Int
  PROVE  /\ sum_over(u) \in Int /\ sum_over(v) \in Int
         /\ sum_over([r \in S |-> u[r] + v[r] * k]) = sum_over(u) + sum_over(v) * k
<1> DEFINE w == [r \in S |-> u[r] + v[r] * k]
<1>1. w \in [S -> Int]
  OBVIOUS
<1>2. \A r \in S : w[r] = u[r] + v[r] * k /\ u[r] \in Int /\ v[r] \in Int
  OBVIOUS
<1> HIDE DEF w
<1>3. PICK f : SumsOver(f, u) /\ sum_over(u) = f[S]
  BY SumIs
<1>4. PICK g : SumsOver(g, v) /\ sum_over(v) = g[S]
  BY SumIs
<1>5. PICK h : SumsOver(h, w) /\ sum_over(w) = h[S]
  BY <1>1, SumIs
<1>6. DOMAIN u = S /\ DOMAIN v = S /\ DOMAIN w = S
  BY <1>1
<1>7. f \in [SUBSET S -> Int] /\ g \in [SUBSET S -> Int] /\ h \in [SUBSET S -> Int]
  BY <1>3, <1>4, <1>5, <1>6 DEF SumsOver
<1>8. \A s \in SUBSET S :
        /\ f[s] = IF s = {} THEN 0 ELSE u[pick(s)] + f[s \ {pick(s)}]
        /\ g[s] = IF s = {} THEN 0 ELSE v[pick(s)] + g[s \ {pick(s)}]
        /\ h[s] = IF s = {} THEN 0 ELSE w[pick(s)] + h[s \ {pick(s)}]
  BY <1>3, <1>4, <1>5, <1>6 DEF SumsOver
<1> DEFINE P == {s \in SUBSET S : h[s] = f[s] + g[s] * k}
<1>9. {} \in P
  <2>1. f[{}] = 0 /\ g[{}] = 0 /\ h[{}] = 0
    BY <1>8
  <2> QED BY <2>1
<1>10. ASSUME NEW s \in SUBSET S, s # {}, s \ {pick(s)} \in P PROVE s \in P
  <2> DEFINE x == pick(s)
             t == s \ {x}
  <2>1. x \in S /\ t \in SUBSET S
    BY <1>10, WithoutPicked
  <2>2. h[t] = f[t] + g[t] * k
    BY <1>10
  <2>3. f[s] = u[x] + f[t] /\ g[s] = v[x] + g[t] /\ h[s] = w[x] + h[t]
    BY <1>8, <1>10
  <2> HIDE DEF x, t
  <2>4. u[x] \in Int /\ v[x] \in Int /\ f[t] \in Int /\ g[t] \in Int /\ w[x] = u[x] + v[x] * k
    BY <1>2, <1>7, <2>1
  <2>5. h[s] = f[s] + g[s] * k
    BY <2>2, <2>3, <2>4
  <2> QED BY <2>5
<1>11. S \in P
  <2> HIDE DEF P
  <2> QED BY <1>9, <1>10, PickInduction
<1>12. h[S] = f[S] + g[S] * k /\ f[S] \in Int /\ g[S] \in Int
  BY <1>7, <1>11
<1> QED BY <1>3, <1>4, <1>5, <1>12 DEF w

\* The sum of a family that is zero but at one place
LEMMA SumAtOnePlace ==
  ASSUME NEW S, IsFiniteSet(S), NEW z \in S, NEW x \in Int
  PROVE  sum_over([r \in S |-> IF r = z THEN x ELSE 0]) = x
<1> DEFINE v == [r \in S |-> IF r = z THEN x ELSE 0]
<1>1. v \in [S -> Int] /\ \A r \in S : v[r] = IF r = z THEN x ELSE 0
  OBVIOUS
<1> HIDE DEF v
<1>2. PICK f : SumsOver(f, v) /\ sum_over(v) = f[S]
  BY <1>1, SumIs
<1>3. f \in [SUBSET S -> Int]
      /\ \A s \in SUBSET S : f[s] = IF s = {} THEN 0 ELSE v[pick(s)] + f[s \ {pick(s)}]
  BY <1>1, <1>2 DEF SumsOver
<1> DEFINE P == {s \in SUBSET S : f[s] = IF z \in s THEN x ELSE 0}
<1>4. {} \in P
  BY <1>3
<1>5. ASSUME NEW s \in SUBSET S, s # {}, s \ {pick(s)} \in P PROVE s \in P
  <2> DEFINE y == pick(s)
             t == s \ {y}
  <2>1. y \in S /\ y \in s /\ f[t] = IF z \in t THEN x ELSE 0
    BY <1>5, WithoutPicked
  <2>2. f[s] = v[y] + f[t] /\ v[y] = IF y = z THEN x ELSE 0
    BY <1>1, <1>3, <1>5, <2>1
  <2>3. z \in t <=> z \in s /\ y # z
    OBVIOUS
  <2> HIDE DEF y, t
  <2>4. f[s] = IF z \in s THEN x ELSE 0
    <3>1. CASE y = z
      BY <2>1, <2>2, <2>3, <3>1
    <3>2. CASE y # z
      BY <2>1, <2>2, <2>3, <3>2
    <3> QED BY <3>1, <3>2
  <2> QED BY <2>4
<1>6. S \in P
  <2> HIDE DEF P
  <2> QED BY <1>4, <1>5, PickInduction
<1>7. f[S] = x
  BY <1>6
<1> QED BY <1>2, <1>7 DEF v

---------------------------------------------------------------------------
(* Profiler: its invariant *)

Slots == 0 .. max_n_childs - 1

IsTimer(t) ==
  t = [tag |-> t.tag, parent_timer |-> t.parent_timer, start_count |-> t.start_count,
       start_time |-> t.start_time, cumul_time |-> t.cumul_time, child_timers |-> t.child_timers,
       total_allocated |-> t.total_allocated, current_allocated |-> t.current_allocated,
       max_allocated |-> t.max_allocated]

\* A timer runs once or not at all.
TimerOK(t) ==
  /\ IsTimer(t) /\ t.start_count \in {0, 1} /\ t.start_time \in Int /\ t.cumul_time \in Int
  /\ t.child_timers \in [Slots -> Nat] /\ t.current_allocated \in Int

\* Parents come before their children.
TreeOK(T) ==
  /\ \E n \in Nat : DOMAIN T = 1 .. n /\ T = [i \in 1 .. n |-> T[i]]
  /\ 1 \in DOMAIN T /\ T[1].parent_timer = 1 /\ T[1].tag = RootTag
  /\ \A n \in DOMAIN T : TimerOK(T[n])
  /\ \A n \in DOMAIN T \ {1} : T[n].parent_timer \in DOMAIN T /\ T[n].parent_timer < n
                               /\ T[n].tag \in PrTags

\* The places of the table of timer n that are looked at for a tag
at_distance(T, n, tag, k) == T[n].child_timers[probed(tag, k)]

\* m is found in the table of n after k other tags.
FoundAt(T, n, m, k) ==
  /\ at_distance(T, n, T[m].tag, k) = m
  /\ \A j \in 0 .. k - 1 : /\ at_distance(T, n, T[m].tag, j) # timer_no_child
                           /\ T[at_distance(T, n, T[m].tag, j)].tag # T[m].tag

\* A table holds children of its timer, each in one place, and each is found.
TablesOK(T) ==
  \A n \in DOMAIN T :
    /\ \A i \in Slots : T[n].child_timers[i] # timer_no_child =>
         /\ T[n].child_timers[i] \in DOMAIN T \ {1} /\ T[T[n].child_timers[i]].parent_timer = n
         /\ \A j \in Slots : T[n].child_timers[j] = T[n].child_timers[i] => j = i
    /\ \A m \in DOMAIN T \ {1} : T[m].parent_timer = n => \E k \in Slots : FoundAt(T, n, m, k)

\* The timers above a, with a itself
ClosedUp(T, S) == \A m \in S : T[m].parent_timer \in S
PathIn(T, a) == {n \in DOMAIN T : \A S \in SUBSET DOMAIN T : a \in S /\ ClosedUp(T, S) => n \in S}

RunningIn(T) == {n \in DOMAIN T : T[n].start_count > 0}

\* A running timer was started by a frame above all frames of its parent.
FramesOK(T, frames) ==
  /\ frames \in Seq(Nat) /\ \A j \in DOMAIN frames : frames[j] \in DOMAIN T \ {1}
  /\ \A m \in RunningIn(T) \ {1} :
       \E j \in DOMAIN frames : /\ frames[j] = m
                                /\ \A i \in DOMAIN frames : frames[i] = T[m].parent_timer => i < j

\* While the profiler runs
RunsOK ==
  pr_state = "runs" => RunningIn(timers) = PathIn(timers, actual_node) /\ FramesOK(timers, pr_frames)

\* A timer takes a start.
StartsOK ==
  /\ pr_started \in Nat /\ Len(timers) <= pr_started + 1
  /\ pr_state \in {"runs", "output", "failed"}
  /\ pr_state = "failed" => pr_started > max_n_childs

\* Times of children are within those of their parents.
ChildrenIn(T, n) == {m \in DOMAIN T : m > n /\ T[m].parent_timer = n}
TimeIn(t, clock) == t.cumul_time + (IF t.start_count > 0 THEN clock - t.start_time ELSE 0)
TimesOK(T, clock) ==
  \A n \in DOMAIN T : sum_of([c \in ChildrenIn(T, n) |-> TimeIn(T[c], clock)]) <= TimeIn(T[n], clock)

\* Blocks are numbered.
BlocksOK ==
  /\ pr_malloced \in Nat /\ pr_clock \in Int
  /\ DOMAIN malloc_map \subseteq 1 .. pr_malloced /\ malloc_map \in [DOMAIN malloc_map -> Int]

\* All counters together are what is allocated, but for a multiple of the word.
allocated_in(T) == sum_of([n \in DOMAIN T |-> T[n].current_allocated])
Multiple(x) == \E k \in Int : x = PrWord * k

PrInv ==
  /\ TreeOK(timers) /\ TablesOK(timers) /\ TimesOK(timers, pr_clock)
  /\ actual_node \in DOMAIN timers
  /\ RunsOK /\ StartsOK /\ BlocksOK
  /\ pr_state # "output" => Multiple(allocated_in(timers) - sum_of(malloc_map))
  /\ pr_state = "output" => Multiple(timers[1].current_allocated - sum_of(malloc_map))

---------------------------------------------------------------------------
(* Profiler: paths *)

\* What a path is: it has its end, parents, and nothing that a set with both lacks.
LEMMA PathIs ==
  ASSUME NEW T, TreeOK(T), NEW a \in DOMAIN T
  PROVE  /\ a \in PathIn(T, a) /\ PathIn(T, a) \subseteq DOMAIN T /\ ClosedUp(T, PathIn(T, a))
         /\ \A S \in SUBSET DOMAIN T : a \in S /\ ClosedUp(T, S) => PathIn(T, a) \subseteq S
<1>1. \A n \in DOMAIN T : T[n].parent_timer \in DOMAIN T
  BY DEF TreeOK
<1>2. ClosedUp(T, PathIn(T, a))
  BY <1>1 DEF ClosedUp, PathIn
<1> QED BY <1>2 DEF PathIn

\* Numbers of timers
LEMMA TreeNumbers ==
  ASSUME NEW T, TreeOK(T)
  PROVE  /\ Len(T) \in Nat \ {0} /\ DOMAIN T = 1 .. Len(T) /\ T \in Seq({T[i] : i \in DOMAIN T})
         /\ \A n \in DOMAIN T : T[n].parent_timer \in DOMAIN T /\ T[n].parent_timer <= n
         /\ \A n \in DOMAIN T : T[n].parent_timer = n => n = 1
<1>1. PICK n \in Nat : DOMAIN T = 1 .. n /\ T = [i \in 1 .. n |-> T[i]]
  BY DEF TreeOK
<1>2. T \in [1 .. n -> {T[i] : i \in DOMAIN T}]
  BY <1>1
<1>3. T \in Seq({T[i] : i \in DOMAIN T})
  BY <1>2, SeqDef
<1>4. Len(T) \in Nat /\ DOMAIN T = 1 .. Len(T)
  BY <1>3, LenProperties
<1>5. 1 \in DOMAIN T /\ T[1].parent_timer = 1
      /\ \A m \in DOMAIN T \ {1} : T[m].parent_timer \in DOMAIN T /\ T[m].parent_timer < m
  BY DEF TreeOK
<1>6. ASSUME NEW m \in DOMAIN T
      PROVE  /\ T[m].parent_timer \in DOMAIN T /\ T[m].parent_timer <= m
             /\ T[m].parent_timer = m => m = 1
  BY <1>4, <1>5
<1> QED BY <1>3, <1>4, <1>5, <1>6

\* No timer of a path comes after its end, and the root is on it.
LEMMA PathBounds ==
  ASSUME NEW T, TreeOK(T), NEW a \in DOMAIN T
  PROVE  1 \in PathIn(T, a) /\ \A n \in PathIn(T, a) : n \in Nat /\ n <= a
<1> DEFINE P == PathIn(T, a)
<1>1. /\ a \in P /\ P \subseteq DOMAIN T /\ ClosedUp(T, P)
      /\ \A S \in SUBSET DOMAIN T : a \in S /\ ClosedUp(T, S) => P \subseteq S
  BY PathIs
<1>5. DOMAIN T \subseteq Nat
  BY TreeNumbers
<1>6. /\ \A n \in DOMAIN T : T[n].parent_timer \in DOMAIN T /\ T[n].parent_timer <= n
      /\ \A n \in DOMAIN T : T[n].parent_timer = n => n = 1
  BY TreeNumbers
<1>2. /\ DOMAIN T \subseteq Nat
      /\ \A n \in DOMAIN T : T[n].parent_timer \in DOMAIN T /\ T[n].parent_timer <= n
      /\ \A n \in DOMAIN T : T[n].parent_timer = n => n = 1
  BY <1>5, <1>6
<1> HIDE DEF P
<1>3. \A n \in P : n <= a
  <2> DEFINE S == {n \in DOMAIN T : n <= a}
  <2>1. S \in SUBSET DOMAIN T /\ a \in S
    BY <1>2
  <2>2. ClosedUp(T, S)
    BY <1>2 DEF ClosedUp
  <2> HIDE DEF S
  <2>3. P \subseteq S
    BY <1>1, <2>1, <2>2
  <2> QED BY <2>3 DEF S
<1>4. 1 \in P
  <2>1. PICK n \in P : \A m \in P : n <= m
    BY <1>1, <1>2, LeastNumber
  <2>2. T[n].parent_timer \in P
    BY <1>1 DEF ClosedUp
  <2>3. T[n].parent_timer = n
    BY <1>1, <1>2, <2>1, <2>2
  <2> QED BY <1>1, <1>2, <2>1, <2>3
<1> QED BY <1>1, <1>2, <1>3, <1>4 DEF P

\* The path of a timer is that of its parent, and the timer.
LEMMA PathStep ==
  ASSUME NEW T, TreeOK(T), NEW a \in DOMAIN T, a # 1
  PROVE  PathIn(T, a) = PathIn(T, T[a].parent_timer) \cup {a}
<1> DEFINE b == T[a].parent_timer
           P == PathIn(T, a)
           Q == PathIn(T, b)
<1>1. b \in DOMAIN T
  BY TreeNumbers
<1>2. /\ a \in P /\ P \subseteq DOMAIN T /\ ClosedUp(T, P)
      /\ \A S \in SUBSET DOMAIN T : a \in S /\ ClosedUp(T, S) => P \subseteq S
  BY PathIs
<1>3. /\ b \in Q /\ Q \subseteq DOMAIN T /\ ClosedUp(T, Q)
      /\ \A S \in SUBSET DOMAIN T : b \in S /\ ClosedUp(T, S) => Q \subseteq S
  BY <1>1, PathIs
<1> HIDE DEF P, Q
<1>4. Q \subseteq P
  BY <1>2, <1>3 DEF ClosedUp
<1>5. ClosedUp(T, Q \cup {a})
  BY <1>3 DEF ClosedUp
<1>6. P \subseteq Q \cup {a}
  BY <1>2, <1>3, <1>5
<1> QED BY <1>2, <1>4, <1>6 DEF P, Q

\* The path of the root
LEMMA PathOfRoot ==
  ASSUME NEW T, TreeOK(T) PROVE PathIn(T, 1) = {1}
<1>1. 1 \in DOMAIN T
  BY DEF TreeOK
<1>2. \A n \in PathIn(T, 1) : n \in Nat /\ n <= 1
  BY <1>1, PathBounds
<1>3. PathIn(T, 1) \subseteq DOMAIN T /\ 1 \in PathIn(T, 1) /\ DOMAIN T = 1 .. Len(T)
  BY <1>1, PathIs, TreeNumbers
<1> QED BY <1>2, <1>3

\* Above a timer of a path is its own path.
LEMMA PathAbove ==
  ASSUME NEW T, TreeOK(T), NEW a \in DOMAIN T, NEW n \in PathIn(T, a)
  PROVE  PathIn(T, n) = {x \in PathIn(T, a) : x <= n}
<1> DEFINE Above(c) == \A m \in PathIn(T, c) : PathIn(T, m) = {x \in PathIn(T, c) : x <= m}
           Bad == {c \in DOMAIN T : ~ Above(c)}
<1>1. ASSUME Bad # {} PROVE FALSE
  <2>1. DOMAIN T \subseteq Nat
    BY TreeNumbers
  <2>2. Bad \subseteq Nat
    BY <2>1
  <2> HIDE DEF Bad
  <2>3. PICK c \in Bad : \A d \in Bad : c <= d
    BY <1>1, <2>2, LeastNumber
  <2>4. c \in DOMAIN T /\ ~ Above(c)
    BY <2>3 DEF Bad
  <2>5. PICK m \in PathIn(T, c) : PathIn(T, m) # {x \in PathIn(T, c) : x <= m}
    BY <2>4
  <2>6. \A x \in PathIn(T, c) : x \in Nat /\ x <= c
    BY <2>4, PathBounds
  <2>7. m # c
    <3>1. PathIn(T, c) = {x \in PathIn(T, c) : x <= c}
      BY <2>6
    <3> QED BY <2>5, <3>1
  <2>8. c # 1
    BY <2>5, <2>7, PathOfRoot
  <2> DEFINE b == T[c].parent_timer
  <2>9. b \in DOMAIN T /\ b < c /\ PathIn(T, c) = PathIn(T, b) \cup {c}
    BY <2>4, <2>8, PathStep DEF TreeOK
  <2> HIDE DEF b
  <2>10. Above(b)
    BY <2>1, <2>3, <2>4, <2>9 DEF Bad
  <2>11. m \in PathIn(T, b) /\ \A x \in PathIn(T, b) : x \in Nat /\ x <= b
    BY <2>5, <2>7, <2>9, PathBounds
  <2>12. PathIn(T, m) = {x \in PathIn(T, b) : x <= m}
    BY <2>10, <2>11
  <2>13. ~ c <= m
    BY <2>1, <2>4, <2>9, <2>11
  <2>14. PathIn(T, m) = {x \in PathIn(T, c) : x <= m}
    BY <2>9, <2>12, <2>13
  <2> QED BY <2>5, <2>14
<1>2. Above(a)
  BY <1>1
<1> QED BY <1>2

\* A timer of a path that is not its end has one child on it.
LEMMA ChildOnPath ==
  ASSUME NEW T, TreeOK(T), NEW a \in DOMAIN T, NEW n \in PathIn(T, a), n # a
  PROVE  \E m \in PathIn(T, a) \ {1} : T[m].parent_timer = n
<1> DEFINE P == PathIn(T, a)
<1>1. /\ a \in P /\ P \subseteq DOMAIN T /\ ClosedUp(T, P)
      /\ \A S \in SUBSET DOMAIN T : a \in S /\ ClosedUp(T, S) => P \subseteq S
  BY PathIs
<1> HIDE DEF P
<1>2. n \in P
  BY DEF P
<1> SUFFICES ASSUME \A m \in P \ {1} : T[m].parent_timer # n PROVE FALSE
  BY DEF P
<1>3. CASE n = 1
  <2>1. a # 1
    BY <1>3
  <2> DEFINE S == P \ {1}
  <2>2. ClosedUp(T, S)
    BY <1>1, <1>3 DEF ClosedUp
  <2> QED BY <1>1, <1>2, <1>3, <2>1, <2>2
<1>4. CASE n # 1
  <2> DEFINE S == P \ {n}
  <2>1. T[1].parent_timer = 1
    BY DEF TreeOK
  <2>2. ClosedUp(T, S)
    BY <1>1, <1>4, <2>1 DEF ClosedUp
  <2> QED BY <1>1, <1>2, <2>2
<1> QED BY <1>3, <1>4

LEMMA OneChildOnPath ==
  ASSUME NEW T, TreeOK(T), NEW a \in DOMAIN T,
         NEW m \in PathIn(T, a) \ {1}, NEW k \in PathIn(T, a) \ {1},
         T[m].parent_timer = T[k].parent_timer
  PROVE  m = k
<1>1. ASSUME NEW x \in PathIn(T, a) \ {1}, NEW y \in PathIn(T, a) \ {1},
             T[x].parent_timer = T[y].parent_timer, x < y
      PROVE  FALSE
  <2>1. x \in DOMAIN T /\ y \in DOMAIN T /\ DOMAIN T \subseteq Nat
    BY PathIs, TreeNumbers
  <2> DEFINE b == T[y].parent_timer
  <2>2. b \in DOMAIN T /\ b < y /\ b < x
    BY <1>1, <2>1 DEF TreeOK
  <2>3. PathIn(T, y) = PathIn(T, b) \cup {y}
    BY <2>1, PathStep
  <2>4. x \in PathIn(T, y)
    <3>1. PathIn(T, y) = {z \in PathIn(T, a) : z <= y}
      BY PathAbove
    <3> QED BY <1>1, <2>1, <3>1
  <2> HIDE DEF b
  <2>5. x \in PathIn(T, b)
    BY <1>1, <2>1, <2>3, <2>4
  <2>6. x <= b
    BY <2>2, <2>5, PathBounds
  <2> QED BY <2>1, <2>2, <2>6
<1>2. PathIn(T, a) \subseteq DOMAIN T
  BY PathIs
<1>3. DOMAIN T \subseteq Nat
  BY TreeNumbers
<1>4. m \in Nat /\ k \in Nat
  BY <1>2, <1>3
<1> QED BY <1>1, <1>4

---------------------------------------------------------------------------
(* Profiler: sums *)

\* A sum does not depend on the element that is taken first.
LEMMA SumAnyOrder ==
  ASSUME NEW S, IsFiniteSet(S), NEW v \in [S -> Int], NEW f, SumsOver(f, v),
         NEW t \in SUBSET S, NEW y \in t
  PROVE  f[t] = v[y] + f[t \ {y}]
<1> DEFINE Free(s) == \A x \in s : f[s] = v[x] + f[s \ {x}]
           Bad == {n \in Nat : \E s \in SUBSET S : Cardinality(s) = n /\ ~ Free(s)}
<1>1. /\ f \in [SUBSET S -> Int]
      /\ \A s \in SUBSET S : f[s] = IF s = {} THEN 0 ELSE v[pick(s)] + f[s \ {pick(s)}]
  BY DEF SumsOver
<1>2. ASSUME Bad # {} PROVE FALSE
  <2>1. Bad \subseteq Nat
    OBVIOUS
  <2> HIDE DEF Bad
  <2>2. PICK n \in Bad : \A m \in Bad : n <= m
    BY <1>2, <2>1, LeastNumber
  <2>3. PICK s \in SUBSET S : Cardinality(s) = n /\ ~ Free(s)
    BY <2>2 DEF Bad
  <2>4. PICK x \in s : f[s] # v[x] + f[s \ {x}]
    BY <2>3
  <2> DEFINE p == pick(s)
             r == s \ {p}
             q == s \ {x}
  <2>5. f[s] = v[p] + f[r] /\ x # p
    BY <1>1, <2>4
  <2>6. /\ p \in s /\ r \in SUBSET S /\ Cardinality(s) \in Nat /\ Cardinality(r) = Cardinality(s) - 1
    BY <2>4, WithoutPicked
  <2>7. IsFiniteSet(s)
    BY FS_Subset
  <2>8. q \in SUBSET S /\ Cardinality(q) = Cardinality(s) - 1
    BY <2>7, FS_RemoveElement
  <2>12. q \ {p} = r \ {x} /\ x \in r /\ p \in q
    BY <2>4, <2>5, <2>6
  <2> HIDE DEF p, r, q
  <2>9. Free(r) /\ Free(q)
    <3>1. ASSUME NEW u \in SUBSET S, Cardinality(u) = Cardinality(s) - 1 PROVE Free(u)
      <4>1. n \in Nat /\ Cardinality(u) = n - 1
        BY <2>1, <2>2, <2>3, <3>1
      <4> SUFFICES ASSUME ~ Free(u) PROVE FALSE
        OBVIOUS
      <4>2. Cardinality(u) \in Nat
        BY FS_Subset, FS_CardinalityType
      <4> HIDE DEF Free
      <4>3. Cardinality(u) \in Bad
        BY <4>2 DEF Bad
      <4> QED BY <2>2, <4>1, <4>3
    <3> HIDE DEF Free
    <3> QED BY <2>6, <2>8, <3>1
  <2>10. f[r] = v[x] + f[r \ {x}] /\ f[q] = v[p] + f[r \ {x}]
    BY <2>9, <2>12
  <2>11. v[x] \in Int /\ v[p] \in Int /\ f[r \ {x}] \in Int
    BY <1>1, <2>4, <2>6
  <2>13. f[s] = v[x] + f[q]
    BY <2>5, <2>10, <2>11
  <2> QED BY <2>4, <2>13 DEF q
<1>3. Free(t)
  <2>1. Cardinality(t) \in Nat
    BY FS_Subset, FS_CardinalityType
  <2> HIDE DEF Free
  <2> QED BY <1>2, <2>1
<1> QED BY <1>3

LEMMA SumIsOver == ASSUME NEW v PROVE sum_of(v) = sum_over(v)
BY DEF sum_of, sum_over

\* A sum over a set of numbers is a number.
LEMMA SumIsNumber ==
  ASSUME NEW S, IsFiniteSet(S), NEW v \in [S -> Int] PROVE sum_of(v) \in Int
<1>1. PICK f : SumsOver(f, v) /\ sum_over(v) = f[S]
  BY SumIs
<1>2. f \in [SUBSET S -> Int]
  BY <1>1 DEF SumsOver
<1> QED BY <1>1, <1>2, SumIsOver

\* v is w, and one more.
Extends1(v, w, S, z) == z \in S /\ v \in [S -> Int] /\ w \in [S \ {z} -> Int] /\ \A r \in S \ {z} : w[r] = v[r]

LEMMA SumWithOneMore ==
  ASSUME NEW S, IsFiniteSet(S), NEW z, NEW v, NEW w, Extends1(v, w, S, z)
  PROVE  sum_of(v) = v[z] + sum_of(w)
<1> DEFINE R == S \ {z}
<1>1. /\ z \in S /\ v \in [S -> Int] /\ w \in [R -> Int] /\ IsFiniteSet(R) /\ R \subseteq S
      /\ \A r \in R : w[r] = v[r]
  BY FS_Subset DEF Extends1
<1> HIDE DEF R
<1>2. PICK f : SumsOver(f, v) /\ sum_over(v) = f[S]
  BY <1>1, SumIs
<1>3. PICK g : SumsOver(g, w) /\ sum_over(w) = g[R]
  BY <1>1, SumIs
<1>4. /\ f \in [SUBSET S -> Int] /\ g \in [SUBSET R -> Int]
      /\ \A s \in SUBSET S : f[s] = IF s = {} THEN 0 ELSE v[pick(s)] + f[s \ {pick(s)}]
      /\ \A s \in SUBSET R : g[s] = IF s = {} THEN 0 ELSE w[pick(s)] + g[s \ {pick(s)}]
  BY <1>1, <1>2, <1>3 DEF SumsOver
<1> DEFINE P == {s \in SUBSET R : f[s] = g[s]}
<1>5. {} \in P
  <2>1. f[{}] = 0 /\ g[{}] = 0
    BY <1>4
  <2> QED BY <2>1
<1>6. ASSUME NEW s \in SUBSET R, s # {}, s \ {pick(s)} \in P PROVE s \in P
  <2>1. pick(s) \in R
    BY <1>1, <1>6, WithoutPicked
  <2>2. f[s] = v[pick(s)] + f[s \ {pick(s)}] /\ g[s] = w[pick(s)] + g[s \ {pick(s)}]
    BY <1>1, <1>4, <1>6
  <2> QED BY <1>1, <1>6, <2>1, <2>2
<1>7. R \in P
  <2> HIDE DEF P
  <2> QED BY <1>1, <1>5, <1>6, PickInduction
<1>8. f[R] = g[R]
  BY <1>7
<1>9. f[S] = v[z] + f[S \ {z}]
  BY <1>1, <1>2, SumAnyOrder
<1> QED BY <1>2, <1>3, <1>8, <1>9, SumIsOver DEF R

\* A sum of which one part changes
LEMMA SumOfChanged ==
  ASSUME NEW S, IsFiniteSet(S), NEW z \in S, NEW u \in [S -> Int], NEW v \in [S -> Int],
         \A r \in S \ {z} : u[r] = v[r]
  PROVE  sum_of(u) - u[z] = sum_of(v) - v[z] /\ sum_of(u) \in Int /\ sum_of(v) \in Int
<1> DEFINE w == [r \in S \ {z} |-> u[r]]
<1>1. Extends1(u, w, S, z) /\ Extends1(v, w, S, z)
  BY DEF Extends1
<1>2. w \in [S \ {z} -> Int] /\ IsFiniteSet(S \ {z})
  BY FS_Subset
<1> HIDE DEF w
<1>3. sum_of(u) = u[z] + sum_of(w) /\ sum_of(v) = v[z] + sum_of(w)
  BY <1>1, SumWithOneMore
<1>4. sum_of(u) \in Int /\ sum_of(v) \in Int /\ sum_of(w) \in Int /\ u[z] \in Int /\ v[z] \in Int
  BY <1>2, SumIsNumber
<1> QED BY <1>3, <1>4

\* The sum of nothing
LEMMA SumOfNone ==
  ASSUME NEW v, DOMAIN v = {}, v = [r \in {} |-> v[r]] PROVE sum_of(v) = 0
<1>1. IsFiniteSet({}) /\ v \in [{} -> Int]
  BY FS_EmptySet
<1>2. PICK f : SumsOver(f, v) /\ sum_over(v) = f[{}]
  BY <1>1, SumIs
<1>3. f[{}] = 0
  <2>1. \A s \in SUBSET {} : f[s] = IF s = {} THEN 0 ELSE v[pick(s)] + f[s \ {pick(s)}]
    BY <1>1, <1>2 DEF SumsOver
  <2> QED BY <2>1
<1> QED BY <1>2, <1>3, SumIsOver

---------------------------------------------------------------------------
(* Profiler: words and places *)

\* Division with a remainder
LEMMA QuotientIs ==
  ASSUME NEW x \in Int, NEW w \in Nat \ {0}
  PROVE  x \div w \in Int /\ x = w * (x \div w) + (x % w) /\ x % w \in 0 .. w - 1
<1>1. x \div w \in Int
  OBVIOUS
<1>2. x % w \in Int /\ 0 <= x % w /\ x % w < w
  OBVIOUS
<1>3. x = w * (x \div w) + (x % w)
  OBVIOUS
<1> QED BY <1>1, <1>2, <1>3

LEMMA MultipleIs ==
  ASSUME NEW x \in Int PROVE x % PrWord = 0 <=> Multiple(x)
<1> DEFINE w == PrWord
           r == x % w
           q == x \div w
<1>1. w \in Nat \ {0}
  BY ProfilerInputsAssumption
<1>2. q \in Int /\ x = w * q + r /\ r \in 0 .. w - 1
  BY <1>1, QuotientIs
<1>3. r = 0 => Multiple(x)
  <2> HIDE DEF q, r, w
  <2>1. r = 0 => x = w * q
    BY <1>1, <1>2
  <2> QED BY <1>2, <2>1 DEF Multiple, w
<1>4. ASSUME Multiple(x) PROVE r = 0
  <2>1. PICK k \in Int : x = w * k
    BY <1>4 DEF Multiple
  <2> HIDE DEF q, r, w
  <2> DEFINE d == k - q
  <2>2. d \in Int /\ r = w * d
    BY <1>1, <1>2, <2>1
  <2> HIDE DEF d
  <2>3. d >= 1 => w * d >= w
    BY <1>1, <2>2
  <2>4. d <= -1 => w * d <= -w
    BY <1>1, <2>2
  <2>5. d = 0
    BY <1>1, <1>2, <2>2, <2>3, <2>4
  <2> QED BY <1>1, <2>2, <2>5
<1> QED BY <1>3, <1>4

\* What is lost in a word
LEMMA WordIs ==
  ASSUME NEW x \in Int PROVE x % PrWord \in Int /\ Multiple((x % PrWord) - x)
<1> DEFINE w == PrWord
           r == x % w
           q == x \div w
<1>1. w \in Nat \ {0}
  BY ProfilerInputsAssumption
<1>2. q \in Int /\ x = w * q + r /\ r \in 0 .. w - 1
  BY <1>1, QuotientIs
<1> HIDE DEF q, r, w
<1>3. r - x = w * (- q) /\ - q \in Int
  BY <1>1, <1>2
<1>4. Multiple(r - x)
  BY <1>3 DEF Multiple, w
<1> QED BY <1>2, <1>4 DEF r, w

LEMMA MultiplesAdd ==
  ASSUME NEW x \in Int, NEW y \in Int, Multiple(x), Multiple(y) PROVE Multiple(x + y)
<1>1. PICK j \in Int : x = PrWord * j
  BY DEF Multiple
<1>2. PICK k \in Int : y = PrWord * k
  BY DEF Multiple
<1>3. PrWord \in Int
  BY ProfilerInputsAssumption
<1>4. x + y = PrWord * (j + k) /\ j + k \in Int
  BY <1>1, <1>2, <1>3
<1> QED BY <1>4 DEF Multiple

\* A number modulo w that is below 2 w
LEMMA RemainderIs ==
  ASSUME NEW w \in Nat \ {0}, NEW x \in 0 .. 2 * w - 2
  PROVE  x % w \in 0 .. w - 1 /\ (x % w = x \/ x % w = x - w)
<1> DEFINE r == x % w
           q == x \div w
<1>1. q \in Int /\ x = w * q + r /\ r \in 0 .. w - 1
  BY QuotientIs
<1> HIDE DEF r, q
<1>2. q >= 2 => w * q >= 2 * w
  BY <1>1
<1>3. q <= -1 => w * q <= -w
  BY <1>1
<1>4. q = 0 \/ q = 1
  BY <1>1, <1>2, <1>3
<1>5. r = x \/ r = x - w
  BY <1>1, <1>4
<1> QED BY <1>1, <1>5 DEF r

\* The places that are looked at are all different.
LEMMA ProbedIs ==
  ASSUME NEW tag \in PrTags
  PROVE  /\ \A k \in Slots : probed(tag, k) \in Slots
         /\ \A j, k \in Slots : probed(tag, j) = probed(tag, k) => j = k
<1> DEFINE w == max_n_childs
           h == hash_idx(tag)
           p(k) == probed(tag, k)
<1>1. w \in Nat \ {0} /\ h \in 0 .. w - 1
  BY ProfilerInputsAssumption
<1>2. Slots = 0 .. w - 1
  BY DEF Slots
<1>3. \A k : p(k) = (h + k) % w
  BY DEF probed
<1> HIDE DEF h, w, p
<1>4. ASSUME NEW k \in Slots PROVE p(k) \in Slots /\ (p(k) = h + k \/ p(k) = h + k - w)
  <2>1. h + k \in 0 .. 2 * w - 2
    BY <1>1, <1>2
  <2>2. (h + k) % w \in 0 .. w - 1 /\ ((h + k) % w = h + k \/ (h + k) % w = (h + k) - w)
    BY <1>1, <2>1, RemainderIs
  <2>3. p(k) = (h + k) % w
    BY <1>3
  <2> QED BY <1>1, <1>2, <2>2, <2>3
<1>5. ASSUME NEW j \in Slots, NEW k \in Slots, p(j) = p(k) PROVE j = k
  <2>1. p(j) = h + j \/ p(j) = h + j - w
    BY <1>4
  <2>2. p(k) = h + k \/ p(k) = h + k - w
    BY <1>4
  <2> QED BY <1>1, <1>2, <1>5, <2>1, <2>2
<1> QED BY <1>4, <1>5 DEF p

---------------------------------------------------------------------------
(* Profiler: timers *)

\* Timer::start of a timer that does not run
LEMMA Started ==
  ASSUME NEW t, TimerOK(t), t.start_count = 0, pr_clock \in Int, NEW u, u = start(t)
  PROVE  /\ TimerOK(u) /\ u.tag = t.tag /\ u.parent_timer = t.parent_timer
         /\ u.child_timers = t.child_timers /\ u.start_count = 1
         /\ u.current_allocated = t.current_allocated
         /\ TimeIn(u, pr_clock) = TimeIn(t, pr_clock)
<1> DEFINE v == [t EXCEPT !.start_time = pr_clock]
<1>1. u = [t EXCEPT !.start_time = pr_clock, !.start_count = 1]
  BY DEF start, TimerOK, IsTimer
<1>2. u = [tag |-> t.tag, parent_timer |-> t.parent_timer, start_count |-> 1,
           start_time |-> pr_clock, cumul_time |-> t.cumul_time, child_timers |-> t.child_timers,
           total_allocated |-> t.total_allocated, current_allocated |-> t.current_allocated,
           max_allocated |-> t.max_allocated]
  BY <1>1 DEF TimerOK, IsTimer
<1>3. TimerOK(u)
  BY <1>2 DEF TimerOK, IsTimer
<1> QED BY <1>2, <1>3 DEF TimeIn, TimerOK

\* Timer::stop of one that runs
LEMMA Stopped ==
  ASSUME NEW t, TimerOK(t), t.start_count = 1, pr_clock \in Int,
         NEW u, u = stop(t, TRUE) \/ u = stop(t, FALSE)
  PROVE  /\ TimerOK(u) /\ u.tag = t.tag /\ u.parent_timer = t.parent_timer
         /\ u.child_timers = t.child_timers /\ u.start_count = 0
         /\ u.current_allocated = t.current_allocated
         /\ TimeIn(u, pr_clock) = TimeIn(t, pr_clock)
<1> DEFINE time == t.cumul_time + pr_clock - t.start_time
<1>1. u = [t EXCEPT !.cumul_time = time, !.start_count = 0]
  BY DEF stop, TimerOK, IsTimer
<1> HIDE DEF time
<1>2. u = [tag |-> t.tag, parent_timer |-> t.parent_timer, start_count |-> 0,
           start_time |-> t.start_time, cumul_time |-> time, child_timers |-> t.child_timers,
           total_allocated |-> t.total_allocated, current_allocated |-> t.current_allocated,
           max_allocated |-> t.max_allocated]
  BY <1>1 DEF TimerOK, IsTimer
<1>3. TimerOK(u)
  BY <1>2 DEF TimerOK, IsTimer, time
<1> QED BY <1>2, <1>3 DEF TimeIn, TimerOK, time

---------------------------------------------------------------------------
(* Profiler: timers that keep their places *)

\* The timers of U are those of T at their places in the tree.
Revised(T, U) ==
  /\ DOMAIN U = DOMAIN T /\ U = [n \in DOMAIN T |-> U[n]]
  /\ \A n \in DOMAIN T :
       /\ TimerOK(U[n]) /\ U[n].tag = T[n].tag /\ U[n].parent_timer = T[n].parent_timer
       /\ U[n].child_timers = T[n].child_timers

\* A tree in which those of T have their parents
LEMMA PathKept ==
  ASSUME NEW T, TreeOK(T), NEW U, TreeOK(U), DOMAIN T \subseteq DOMAIN U,
         \A n \in DOMAIN T : U[n].parent_timer = T[n].parent_timer,
         NEW a \in DOMAIN T
  PROVE  PathIn(U, a) = PathIn(T, a)
<1> DEFINE P == PathIn(T, a)
           Q == PathIn(U, a)
<1>1. /\ a \in P /\ P \subseteq DOMAIN T /\ ClosedUp(T, P)
      /\ \A S \in SUBSET DOMAIN T : a \in S /\ ClosedUp(T, S) => P \subseteq S
  BY PathIs
<1>2. /\ a \in Q /\ Q \subseteq DOMAIN U /\ ClosedUp(U, Q)
      /\ \A S \in SUBSET DOMAIN U : a \in S /\ ClosedUp(U, S) => Q \subseteq S
  BY PathIs
<1> HIDE DEF P, Q
<1>3. P \in SUBSET DOMAIN U /\ ClosedUp(U, P)
  BY <1>1 DEF ClosedUp
<1>4. Q \subseteq P
  BY <1>1, <1>2, <1>3
<1>5. Q \in SUBSET DOMAIN T /\ ClosedUp(T, Q)
  BY <1>1, <1>2, <1>4 DEF ClosedUp
<1>6. P \subseteq Q
  BY <1>1, <1>2, <1>5
<1> QED BY <1>4, <1>6 DEF P, Q

LEMMA RevisedTree ==
  ASSUME NEW T, TreeOK(T), NEW U, Revised(T, U)
  PROVE  TreeOK(U) /\ \A a \in DOMAIN T : PathIn(U, a) = PathIn(T, a)
<1>1. PICK n \in Nat : DOMAIN T = 1 .. n
  BY DEF TreeOK
<1>2. DOMAIN U = 1 .. n /\ U = [i \in 1 .. n |-> U[i]]
  BY <1>1 DEF Revised
<1>3. \A i \in DOMAIN T : TimerOK(U[i]) /\ U[i].tag = T[i].tag /\ U[i].parent_timer = T[i].parent_timer
  BY DEF Revised
<1>4. DOMAIN U = DOMAIN T
  BY DEF Revised
<1>5. TreeOK(U)
  BY <1>1, <1>2, <1>3, <1>4 DEF TreeOK
<1>6. ASSUME NEW a \in DOMAIN T PROVE PathIn(U, a) = PathIn(T, a)
  BY <1>3, <1>4, <1>5, PathKept
<1> QED BY <1>5, <1>6

LEMMA RevisedTables ==
  ASSUME NEW T, TreeOK(T), TablesOK(T), NEW U, Revised(T, U) PROVE TablesOK(U)
<1>1. /\ DOMAIN U = DOMAIN T
      /\ \A n \in DOMAIN T : U[n].tag = T[n].tag /\ U[n].parent_timer = T[n].parent_timer
                             /\ U[n].child_timers = T[n].child_timers
  BY DEF Revised
<1> SUFFICES ASSUME NEW n \in DOMAIN T
             PROVE  /\ \A i \in Slots : U[n].child_timers[i] # timer_no_child =>
                         /\ U[n].child_timers[i] \in DOMAIN T \ {1}
                         /\ U[U[n].child_timers[i]].parent_timer = n
                         /\ \A j \in Slots : U[n].child_timers[j] = U[n].child_timers[i] => j = i
                    /\ \A m \in DOMAIN T \ {1} :
                         U[m].parent_timer = n => \E k \in Slots : FoundAt(U, n, m, k)
  BY <1>1 DEF TablesOK
<1>2. /\ \A i \in Slots : T[n].child_timers[i] # timer_no_child =>
           /\ T[n].child_timers[i] \in DOMAIN T \ {1} /\ T[T[n].child_timers[i]].parent_timer = n
           /\ \A j \in Slots : T[n].child_timers[j] = T[n].child_timers[i] => j = i
      /\ \A m \in DOMAIN T \ {1} : T[m].parent_timer = n => \E k \in Slots : FoundAt(T, n, m, k)
  BY DEF TablesOK
<1>3. ASSUME NEW m \in DOMAIN T \ {1}, U[m].parent_timer = n
      PROVE  \E k \in Slots : FoundAt(U, n, m, k)
  <2>1. T[m].parent_timer = n
    BY <1>1, <1>3
  <2>2. PICK k \in Slots : FoundAt(T, n, m, k)
    BY <1>2, <2>1
  <2>3. U[m].tag = T[m].tag /\ T[m].tag \in PrTags
    BY <1>1 DEF TreeOK
  <2>4. \A j : at_distance(U, n, U[m].tag, j) = at_distance(T, n, T[m].tag, j)
    BY <1>1, <2>3 DEF at_distance
  <2>5. ASSUME NEW j \in 0 .. k - 1
        PROVE  /\ at_distance(T, n, T[m].tag, j) # timer_no_child
               /\ T[at_distance(T, n, T[m].tag, j)].tag # T[m].tag
               /\ at_distance(T, n, T[m].tag, j) \in DOMAIN T
    <3>1. /\ at_distance(T, n, T[m].tag, j) # timer_no_child
          /\ T[at_distance(T, n, T[m].tag, j)].tag # T[m].tag
      BY <2>2 DEF FoundAt
    <3>2. j \in Slots
      BY ProfilerInputsAssumption DEF Slots
    <3>3. probed(T[m].tag, j) \in Slots
      BY <2>3, <3>2, ProbedIs
    <3> QED BY <1>2, <3>1, <3>3 DEF at_distance
  <2>6. at_distance(T, n, T[m].tag, k) = m
    BY <2>2 DEF FoundAt
  <2> QED BY <1>1, <2>3, <2>4, <2>5, <2>6 DEF FoundAt
<1> QED BY <1>1, <1>2, <1>3

\* No sum changes with the times and the memory of timers unchanged.
KeepsTimes(T, U, clock) == \A n \in DOMAIN T : TimeIn(U[n], clock) = TimeIn(T[n], clock)
KeepsMemory(T, U) == \A n \in DOMAIN T : U[n].current_allocated = T[n].current_allocated

LEMMA RevisedTimes ==
  ASSUME NEW T, NEW U, Revised(T, U), NEW clock, KeepsTimes(T, U, clock), TimesOK(T, clock)
  PROVE  TimesOK(U, clock)
<1>1. DOMAIN U = DOMAIN T /\ \A n \in DOMAIN T : U[n].parent_timer = T[n].parent_timer
  BY DEF Revised
<1> SUFFICES ASSUME NEW n \in DOMAIN T
             PROVE  sum_of([c \in ChildrenIn(U, n) |-> TimeIn(U[c], clock)]) <= TimeIn(U[n], clock)
  BY <1>1 DEF TimesOK
<1>2. ChildrenIn(U, n) = ChildrenIn(T, n)
  BY <1>1 DEF ChildrenIn
<1>3. ChildrenIn(T, n) \subseteq DOMAIN T
  BY DEF ChildrenIn
<1>4. \A c \in DOMAIN T : TimeIn(U[c], clock) = TimeIn(T[c], clock)
  BY DEF KeepsTimes
<1>5. [c \in ChildrenIn(U, n) |-> TimeIn(U[c], clock)] = [c \in ChildrenIn(T, n) |-> TimeIn(T[c], clock)]
  BY <1>2, <1>3, <1>4
<1>6. sum_of([c \in ChildrenIn(T, n) |-> TimeIn(T[c], clock)]) <= TimeIn(T[n], clock)
  BY DEF TimesOK
<1> QED BY <1>4, <1>5, <1>6

LEMMA RevisedMemory ==
  ASSUME NEW T, NEW U, Revised(T, U), KeepsMemory(T, U) PROVE allocated_in(U) = allocated_in(T)
<1>1. [n \in DOMAIN U |-> U[n].current_allocated] = [n \in DOMAIN T |-> T[n].current_allocated]
  BY DEF Revised, KeepsMemory
<1> QED BY <1>1 DEF allocated_in

---------------------------------------------------------------------------
(* Profiler: starts and stops *)

LEMMA PathNow == path = PathIn(timers, actual_node)
BY DEF path, path_of, PathIn, ClosedUp

\* Frames stay as long as no more timers run.
LEMMA FramesKept ==
  ASSUME NEW T, NEW U, Revised(T, U), RunningIn(U) \subseteq RunningIn(T), NEW F, FramesOK(T, F)
  PROVE  FramesOK(U, F)
<1>1. /\ F \in Seq(Nat) /\ \A j \in DOMAIN F : F[j] \in DOMAIN T \ {1}
      /\ \A m \in RunningIn(T) \ {1} :
           \E j \in DOMAIN F : F[j] = m /\ \A i \in DOMAIN F : F[i] = T[m].parent_timer => i < j
  BY DEF FramesOK
<1>2. DOMAIN U = DOMAIN T /\ \A m \in DOMAIN T : U[m].parent_timer = T[m].parent_timer
  BY DEF Revised
<1>3. RunningIn(T) \subseteq DOMAIN T
  BY DEF RunningIn
<1>4. ASSUME NEW m \in RunningIn(U) \ {1}
      PROVE  \E j \in DOMAIN F : F[j] = m /\ \A i \in DOMAIN F : F[i] = U[m].parent_timer => i < j
  <2>1. m \in RunningIn(T) \ {1} /\ U[m].parent_timer = T[m].parent_timer
    BY <1>2, <1>3
  <2>2. PICK j \in DOMAIN F : F[j] = m /\ \A i \in DOMAIN F : F[i] = T[m].parent_timer => i < j
    BY <1>1, <2>1
  <2> QED BY <2>1, <2>2
<1> QED BY <1>1, <1>2, <1>4 DEF FramesOK

\* A frame that ends, of a timer that does not run
LEMMA FramePopped ==
  ASSUME NEW T, NEW F, FramesOK(T, F), F # <<>>, F[Len(F)] \notin RunningIn(T)
  PROVE  FramesOK(T, SubSeq(F, 1, Len(F) - 1))
<1> DEFINE G == SubSeq(F, 1, Len(F) - 1)
<1>1. /\ F \in Seq(Nat) /\ \A j \in DOMAIN F : F[j] \in DOMAIN T \ {1}
      /\ \A m \in RunningIn(T) \ {1} :
           \E j \in DOMAIN F : F[j] = m /\ \A i \in DOMAIN F : F[i] = T[m].parent_timer => i < j
  BY DEF FramesOK
<1>2. Len(F) \in Nat \ {0} /\ DOMAIN F = 1 .. Len(F)
  BY <1>1
<1>3. G \in Seq(Nat) /\ DOMAIN G = 1 .. Len(F) - 1 /\ \A j \in 1 .. Len(F) - 1 : G[j] = F[j]
  BY <1>1, <1>2
<1> HIDE DEF G
<1>4. ASSUME NEW m \in RunningIn(T) \ {1}
      PROVE  \E j \in DOMAIN G : G[j] = m /\ \A i \in DOMAIN G : G[i] = T[m].parent_timer => i < j
  <2>1. PICK j \in DOMAIN F : F[j] = m /\ \A i \in DOMAIN F : F[i] = T[m].parent_timer => i < j
    BY <1>1
  <2>2. j \in DOMAIN G
    BY <1>2, <1>3, <2>1
  <2>3. \A i \in DOMAIN G : i \in DOMAIN F /\ G[i] = F[i]
    BY <1>2, <1>3
  <2> QED BY <2>1, <2>2, <2>3
<1>5. ASSUME NEW j \in DOMAIN G PROVE G[j] \in DOMAIN T \ {1}
  <2>1. j \in DOMAIN F /\ G[j] = F[j]
    BY <1>2, <1>3
  <2> QED BY <1>1, <2>1
<1> QED BY <1>3, <1>4, <1>5 DEF FramesOK, G

\* A frame that starts a timer whose parent is the last one that runs
LEMMA FramePushed ==
  ASSUME NEW T, NEW F, FramesOK(T, F), TreeOK(T), NEW U, TreeOK(U), DOMAIN T \subseteq DOMAIN U,
         \A n \in DOMAIN T : U[n].parent_timer = T[n].parent_timer,
         NEW a \in DOMAIN T, RunningIn(T) = PathIn(T, a),
         NEW n \in DOMAIN U \ {1}, U[n].parent_timer = a,
         RunningIn(U) = RunningIn(T) \cup {n}, n \notin RunningIn(T)
  PROVE  FramesOK(U, Append(F, n))
<1> DEFINE G == Append(F, n)
<1>1. /\ F \in Seq(Nat) /\ \A j \in DOMAIN F : F[j] \in DOMAIN T \ {1}
      /\ \A m \in RunningIn(T) \ {1} :
           \E j \in DOMAIN F : F[j] = m /\ \A i \in DOMAIN F : F[i] = T[m].parent_timer => i < j
  BY DEF FramesOK
<1>2. Len(F) \in Nat /\ DOMAIN F = 1 .. Len(F)
  BY <1>1
<1>3. n \in Nat /\ DOMAIN T \subseteq Nat
  BY TreeNumbers
<1>4. G \in Seq(Nat) /\ DOMAIN G = 1 .. Len(F) + 1 /\ G[Len(F) + 1] = n /\ \A j \in 1 .. Len(F) : G[j] = F[j]
  BY <1>1, <1>2, <1>3
<1>5. a \in RunningIn(T) /\ ClosedUp(T, RunningIn(T)) /\ RunningIn(T) \subseteq DOMAIN T
  BY PathIs
<1>6. n # a
  BY <1>5
<1> HIDE DEF G
<1>7. ASSUME NEW m \in RunningIn(U) \ {1}
      PROVE  \E j \in DOMAIN G : G[j] = m /\ \A i \in DOMAIN G : G[i] = U[m].parent_timer => i < j
  <2>1. CASE m = n
    <3> DEFINE j == Len(F) + 1
    <3>1. j \in DOMAIN G /\ G[j] = m
      BY <1>2, <1>4, <2>1
    <3>2. \A i \in DOMAIN G : G[i] = U[m].parent_timer => i < j
      BY <1>2, <1>4, <1>6, <2>1
    <3> QED BY <3>1, <3>2
  <2>2. CASE m # n
    <3>1. m \in RunningIn(T) \ {1} /\ U[m].parent_timer = T[m].parent_timer
      BY <1>5, <2>2
    <3>2. PICK j \in DOMAIN F : F[j] = m /\ \A i \in DOMAIN F : F[i] = T[m].parent_timer => i < j
      BY <1>1, <3>1
    <3>3. T[m].parent_timer # n
      BY <1>5, <3>1 DEF ClosedUp
    <3>4. j \in DOMAIN G /\ G[j] = m
      BY <1>2, <1>4, <3>2
    <3>5. \A i \in DOMAIN G : G[i] = U[m].parent_timer => i \in DOMAIN F /\ G[i] = F[i]
      BY <1>2, <1>4, <3>1, <3>3
    <3> QED BY <3>1, <3>2, <3>4, <3>5
  <2> QED BY <2>1, <2>2
<1>8. \A j \in DOMAIN G : G[j] \in DOMAIN U \ {1}
  BY <1>1, <1>2, <1>4
<1> QED BY <1>4, <1>7, <1>8 DEF FramesOK, G

\* The frame that ends while its timer runs has started the last timer of the path.
LEMMA TopIsLast ==
  ASSUME NEW T, TreeOK(T), NEW a \in DOMAIN T, RunningIn(T) = PathIn(T, a),
         NEW F, FramesOK(T, F), F # <<>>, F[Len(F)] \in RunningIn(T)
  PROVE  F[Len(F)] = a
<1> DEFINE n == F[Len(F)]
<1>1. /\ F \in Seq(Nat)
      /\ \A m \in RunningIn(T) \ {1} :
           \E j \in DOMAIN F : F[j] = m /\ \A i \in DOMAIN F : F[i] = T[m].parent_timer => i < j
  BY DEF FramesOK
<1>2. Len(F) \in Nat \ {0} /\ DOMAIN F = 1 .. Len(F)
  BY <1>1
<1> HIDE DEF n
<1> SUFFICES ASSUME n # a PROVE FALSE
  BY DEF n
<1>3. n \in PathIn(T, a)
  BY DEF n
<1>4. PICK m \in PathIn(T, a) \ {1} : T[m].parent_timer = n
  BY <1>3, ChildOnPath
<1>5. PICK j \in DOMAIN F : \A i \in DOMAIN F : F[i] = T[m].parent_timer => i < j
  BY <1>1, <1>4
<1> QED BY <1>2, <1>4, <1>5 DEF n

\* A timer below which all are stopped
LEMMA PathStopped ==
  ASSUME NEW T, TreeOK(T), NEW a \in DOMAIN T, RunningIn(T) = PathIn(T, a),
         NEW n \in PathIn(T, a) \ {1}, NEW U, Revised(T, U),
         \A m \in DOMAIN T : U[m].start_count = IF m \in PathIn(T, a) /\ m >= n THEN 0
                                                ELSE T[m].start_count
  PROVE  /\ T[n].parent_timer \in DOMAIN T /\ RunningIn(U) = PathIn(U, T[n].parent_timer)
         /\ RunningIn(U) \subseteq RunningIn(T)
<1> DEFINE P == PathIn(T, a)
           b == T[n].parent_timer
<1>1. P \subseteq DOMAIN T /\ DOMAIN T \subseteq Nat /\ n \in P
  <2>1. P \subseteq DOMAIN T
    BY PathIs
  <2>2. DOMAIN T \subseteq Nat
    BY TreeNumbers
  <2> QED BY <2>1, <2>2
<1>2. b \in DOMAIN T /\ b < n
  BY <1>1 DEF TreeOK
<1>3. PathIn(T, n) = {x \in P : x <= n}
  BY PathAbove
<1>4. PathIn(T, n) = PathIn(T, b) \cup {n}
  BY <1>1, PathStep
<1>5. \A x \in PathIn(T, b) : x \in Nat /\ x <= b
  BY <1>2, PathBounds
<1>6. PathIn(U, b) = PathIn(T, b)
  BY <1>2, RevisedTree
<1>7. RunningIn(U) = {m \in P : ~ m >= n}
  <2>1. DOMAIN U = DOMAIN T
    BY DEF Revised
  <2> QED BY <1>1, <2>1 DEF RunningIn
<1> HIDE DEF P, b
<1>8. n \in Nat /\ b \in Nat
  BY <1>1, <1>2
<1>9. {m \in P : ~ m >= n} = PathIn(T, b)
  <2>1. ASSUME NEW m \in P, ~ m >= n PROVE m \in PathIn(T, b)
    <3>1. m \in Nat /\ m <= n /\ m # n
      BY <1>1, <1>8, <2>1
    <3> QED BY <1>3, <1>4, <3>1
  <2>2. ASSUME NEW m \in PathIn(T, b) PROVE m \in P /\ ~ m >= n
    <3>1. m \in Nat /\ m <= b
      BY <1>5
    <3> QED BY <1>2, <1>3, <1>4, <1>8, <3>1
  <2> QED BY <2>1, <2>2
<1>10. RunningIn(U) \subseteq P
  BY <1>7
<1> QED BY <1>2, <1>6, <1>7, <1>9, <1>10 DEF P, b

---------------------------------------------------------------------------
(* Profiler: steps that keep the tree *)

LEMMA TreeKept ==
  ASSUME PrInv, Revised(timers, timers')
  PROVE  /\ TreeOK(timers') /\ TablesOK(timers') /\ DOMAIN timers' = DOMAIN timers
         /\ \A a \in DOMAIN timers : PathIn(timers', a) = PathIn(timers, a)
<1>1. TreeOK(timers) /\ TablesOK(timers)
  BY DEF PrInv
<1>2. TreeOK(timers') /\ \A a \in DOMAIN timers : PathIn(timers', a) = PathIn(timers, a)
  BY <1>1, RevisedTree
<1>3. TablesOK(timers')
  BY <1>1, RevisedTables
<1> QED BY <1>2, <1>3 DEF Revised

\* Timers that keep their times, and the number of starts
LEMMA StartsKept ==
  ASSUME PrInv, Revised(timers, timers'), pr_started' \in Nat, pr_started' >= pr_started,
         pr_state' = "runs" \/ pr_state' = "output"
  PROVE  StartsOK'
<1>1. TreeOK(timers) /\ TreeOK(timers') /\ DOMAIN timers' = DOMAIN timers
  BY TreeKept DEF PrInv
<1>2. Len(timers) \in Nat /\ DOMAIN timers = 1 .. Len(timers)
  BY <1>1, TreeNumbers
<1>3. Len(timers') \in Nat /\ DOMAIN timers' = 1 .. Len(timers')
  BY <1>1, TreeNumbers
<1>4. Len(timers') = Len(timers)
  <2> DEFINE j == Len(timers)
             k == Len(timers')
  <2>1. j \in Nat /\ k \in Nat /\ 1 .. j = 1 .. k
    BY <1>1, <1>2, <1>3
  <2> HIDE DEF j, k
  <2>2. j = k
    BY <2>1
  <2> QED BY <2>2 DEF j, k
<1>5. Len(timers) <= pr_started + 1 /\ pr_started \in Nat
  BY DEF PrInv, StartsOK
<1> QED BY <1>2, <1>4, <1>5 DEF StartsOK

\* stop_timer of a timer on the path
LEMMA StopOnPath ==
  ASSUME PrInv, pr_state = "runs", NEW n \in path \ {1}, stop_on_path(n)
  PROVE  /\ Revised(timers, timers') /\ KeepsTimes(timers, timers', pr_clock)
         /\ KeepsMemory(timers, timers') /\ actual_node' \in DOMAIN timers
         /\ RunningIn(timers') = PathIn(timers', actual_node')
         /\ RunningIn(timers') \subseteq RunningIn(timers)
<1> DEFINE T == timers
           U == timers'
           a == actual_node
           P == PathIn(T, a)
<1>1. TreeOK(T) /\ a \in DOMAIN T /\ RunningIn(T) = P /\ pr_clock \in Int
  BY DEF PrInv, RunsOK, BlocksOK
<1>2. /\ U = [m \in DOMAIN T |-> IF m \in P /\ m > n THEN stop(T[m], TRUE)
                                 ELSE IF m = n THEN stop(T[m], FALSE) ELSE T[m]]
      /\ actual_node' = T[n].parent_timer /\ n \in P \ {1}
  BY PathNow DEF stop_on_path
<1>3. P \subseteq DOMAIN T /\ DOMAIN T \subseteq Nat
  <2>1. P \subseteq DOMAIN T
    BY <1>1, PathIs
  <2>2. DOMAIN T \subseteq Nat
    BY <1>1, TreeNumbers
  <2> QED BY <2>1, <2>2
<1>4. \A m \in DOMAIN T : TimerOK(T[m])
  BY <1>1 DEF TreeOK
<1>5. \A m \in P : T[m].start_count = 1
  BY <1>1, <1>3, <1>4 DEF RunningIn, TimerOK
<1> HIDE DEF P
<1>6. DOMAIN U = DOMAIN T /\ U = [m \in DOMAIN T |-> U[m]]
  BY <1>2
<1>7. ASSUME NEW m \in DOMAIN T
      PROVE  /\ TimerOK(U[m]) /\ U[m].tag = T[m].tag /\ U[m].parent_timer = T[m].parent_timer
             /\ U[m].child_timers = T[m].child_timers
             /\ U[m].current_allocated = T[m].current_allocated
             /\ TimeIn(U[m], pr_clock) = TimeIn(T[m], pr_clock)
             /\ U[m].start_count = IF m \in P /\ m >= n THEN 0 ELSE T[m].start_count
  <2>1. n \in Nat /\ m \in Nat
    BY <1>2, <1>3
  <2>2. CASE m \in P /\ m > n
    <3>1. U[m] = stop(T[m], TRUE) /\ TimerOK(T[m]) /\ T[m].start_count = 1
      BY <1>2, <1>4, <1>5, <2>2
    <3>2. /\ TimerOK(U[m]) /\ U[m].tag = T[m].tag /\ U[m].parent_timer = T[m].parent_timer
          /\ U[m].child_timers = T[m].child_timers /\ U[m].start_count = 0
          /\ U[m].current_allocated = T[m].current_allocated
          /\ TimeIn(U[m], pr_clock) = TimeIn(T[m], pr_clock)
      BY <1>1, <3>1, Stopped
    <3> QED BY <2>1, <2>2, <3>2
  <2>3. CASE m = n
    <3>1. ~ (m > n)
      BY <2>1, <2>3
    <3>2. U[m] = stop(T[m], FALSE)
      BY <1>2, <2>3, <3>1
    <3>3. TimerOK(T[m]) /\ T[m].start_count = 1
      BY <1>2, <1>4, <1>5, <2>3
    <3>4. /\ TimerOK(U[m]) /\ U[m].tag = T[m].tag /\ U[m].parent_timer = T[m].parent_timer
          /\ U[m].child_timers = T[m].child_timers /\ U[m].start_count = 0
          /\ U[m].current_allocated = T[m].current_allocated
          /\ TimeIn(U[m], pr_clock) = TimeIn(T[m], pr_clock)
      BY <1>1, <3>2, <3>3, Stopped
    <3>5. m \in P /\ m >= n
      BY <1>2, <2>1, <2>3
    <3> HIDE DEF T, U
    <3> QED BY <3>4, <3>5
  <2>4. CASE ~ (m \in P /\ m > n) /\ m # n
    <3>1. U[m] = T[m]
      BY <1>2, <2>4
    <3> QED BY <1>4, <2>1, <2>4, <3>1
  <2> QED BY <2>2, <2>3, <2>4
<1>8. Revised(T, U) /\ KeepsTimes(T, U, pr_clock) /\ KeepsMemory(T, U)
  BY <1>6, <1>7 DEF Revised, KeepsTimes, KeepsMemory
<1>9. /\ T[n].parent_timer \in DOMAIN T /\ RunningIn(U) = PathIn(U, T[n].parent_timer)
      /\ RunningIn(U) \subseteq RunningIn(T)
  <2>1. n \in PathIn(T, a) \ {1} /\ RunningIn(T) = PathIn(T, a)
    BY <1>1, <1>2 DEF P
  <2>2. \A m \in DOMAIN T : U[m].start_count = IF m \in PathIn(T, a) /\ m >= n THEN 0
                                                ELSE T[m].start_count
    BY <1>7 DEF P
  <2> HIDE DEF T, U, a
  <2> QED BY <1>1, <1>8, <2>1, <2>2, PathStopped
<1> QED BY <1>2, <1>8, <1>9

\* All that a stop leaves as it is
LEMMA StopKeeps ==
  ASSUME PrInv, pr_state = "runs", pr_state' = "runs", NEW n \in path \ {1}, stop_on_path(n),
         UNCHANGED <<pr_clock, pr_started, pr_malloced, malloc_map>>,
         FramesOK(timers', pr_frames')
  PROVE  PrInv'
<1>1. /\ Revised(timers, timers') /\ KeepsTimes(timers, timers', pr_clock)
      /\ KeepsMemory(timers, timers') /\ actual_node' \in DOMAIN timers
      /\ RunningIn(timers') = PathIn(timers', actual_node')
  BY StopOnPath
<1>2. TreeOK(timers') /\ TablesOK(timers') /\ DOMAIN timers' = DOMAIN timers
  BY <1>1, TreeKept
<1>3. TimesOK(timers', pr_clock)
  BY <1>1, RevisedTimes DEF PrInv
<1>4. allocated_in(timers') = allocated_in(timers)
  BY <1>1, RevisedMemory
<1>5. StartsOK'
  BY <1>1, StartsKept DEF PrInv, StartsOK
<1>6. RunsOK' /\ BlocksOK'
  BY <1>1 DEF PrInv, RunsOK, BlocksOK
<1> QED BY <1>1, <1>2, <1>3, <1>4, <1>5, <1>6 DEF PrInv

---------------------------------------------------------------------------
(* Profiler: its steps *)

\* The least and the greatest number of a set
LEMMA MinIs ==
  ASSUME NEW S, S \subseteq Nat, S # {} PROVE Min(S) \in S /\ \A x \in S : Min(S) <= x
<1>1. \E x \in S : \A y \in S : x <= y
  BY LeastNumber
<1> QED BY <1>1 DEF Min

LEMMA MaxIs ==
  ASSUME NEW S, S \subseteq Nat, S # {}, NEW b \in Nat, \A x \in S : x <= b PROVE Max(S) \in S
<1> DEFINE D == {k \in Nat : \E x \in S : k = b - x}
<1>1. D \subseteq Nat /\ D # {}
  <2>1. PICK x \in S : TRUE
    OBVIOUS
  <2>2. b - x \in D
    BY <2>1
  <2> QED BY <2>2
<1> HIDE DEF D
<1>2. PICK k \in D : \A j \in D : k <= j
  BY <1>1, LeastNumber
<1>3. PICK x \in S : k = b - x
  BY <1>2 DEF D
<1>4. ASSUME NEW y \in S PROVE x >= y
  <2>1. b - y \in D
    BY DEF D
  <2> QED BY <1>2, <1>3, <2>1
<1> QED BY <1>4 DEF Max

\* A step that changes neither timers nor frames nor what is counted
LEMMA NothingChanged ==
  ASSUME PrInv, UNCHANGED <<timers, actual_node, pr_clock, pr_started, pr_malloced, malloc_map, pr_state>>,
         pr_state = "runs" => FramesOK(timers, pr_frames')
  PROVE  PrInv'
BY DEF PrInv, RunsOK, StartsOK, BlocksOK

\* END_TIMER
LEMMA EndKeeps ==
  ASSUME PrInv, NEW tag \in PrTags, PrEnd(tag) PROVE PrInv'
<1> DEFINE S == {n \in path : timers[n].tag = tag}
<1>1. /\ pr_state = "runs" /\ pr_state' = "runs"
      /\ IF S # {} THEN stop_on_path(Max(S)) ELSE UNCHANGED <<timers, actual_node>>
      /\ UNCHANGED <<pr_frames, pr_clock, pr_started, pr_malloced, malloc_map, pr_state>>
  BY DEF PrEnd
<1>2. TreeOK(timers) /\ actual_node \in DOMAIN timers /\ FramesOK(timers, pr_frames)
  BY <1>1 DEF PrInv, RunsOK
<1>3. CASE S # {}
  <2>1. \A n \in path : n \in Nat /\ n <= actual_node
    BY <1>2, PathNow, PathBounds
  <2>2. actual_node \in Nat
    BY <1>2, TreeNumbers
  <2>3. Max(S) \in S
    <3>1. S \subseteq Nat /\ \A n \in S : n <= actual_node
      BY <2>1
    <3> HIDE DEF S
    <3> QED BY <1>3, <2>2, <3>1, MaxIs
  <2>4. 1 \notin S
    BY <1>2, ProfilerInputsAssumption DEF TreeOK
  <2>5. PICK n \in path \ {1} : n = Max(S)
    BY <2>3, <2>4
  <2>6. stop_on_path(n)
    <3> HIDE DEF S
    <3> QED BY <1>1, <1>3, <2>5
  <2>7. Revised(timers, timers') /\ RunningIn(timers') \subseteq RunningIn(timers)
    BY <1>1, <2>6, StopOnPath
  <2>8. FramesOK(timers', pr_frames')
    BY <1>1, <1>2, <2>7, FramesKept
  <2> QED BY <1>1, <2>6, <2>8, StopKeeps
<1>4. CASE S = {}
  BY <1>1, <1>2, <1>4, NothingChanged
<1> QED BY <1>3, <1>4

\* The end of a block
LEMMA BlockEndKeeps ==
  ASSUME PrInv, PrBlockEnd PROVE PrInv'
<1> DEFINE F == pr_frames
           n == F[Len(F)]
<1>1. /\ pr_state = "runs" /\ F # <<>> /\ pr_frames' = SubSeq(F, 1, Len(F) - 1)
      /\ IF ~ frame_stops(n) THEN UNCHANGED <<timers, actual_node, pr_state>>
         ELSE IF n = actual_node THEN stop_on_path(n) /\ UNCHANGED pr_state
         ELSE pr_state' = "failed" /\ UNCHANGED <<timers, actual_node>>
      /\ UNCHANGED <<pr_clock, pr_started, pr_malloced, malloc_map>>
  BY DEF PrBlockEnd
<1>2. /\ TreeOK(timers) /\ actual_node \in DOMAIN timers /\ FramesOK(timers, F)
      /\ RunningIn(timers) = PathIn(timers, actual_node)
  BY <1>1 DEF PrInv, RunsOK
<1>3. n \in DOMAIN timers \ {1}
  <2>1. F \in Seq(Nat) /\ \A j \in DOMAIN F : F[j] \in DOMAIN timers \ {1}
    BY <1>2 DEF FramesOK
  <2>2. Len(F) \in DOMAIN F
    BY <1>1, <2>1
  <2> QED BY <2>1, <2>2
<1>4. frame_stops(n) <=> n \in RunningIn(timers)
  BY <1>3 DEF frame_stops, running, RunningIn
<1> HIDE DEF F
<1>5. CASE n \notin RunningIn(timers)
  <2>1. FramesOK(timers, pr_frames')
    BY <1>1, <1>2, <1>5, FramePopped
  <2> QED BY <1>1, <1>4, <1>5, <2>1, NothingChanged
<1>6. CASE n \in RunningIn(timers)
  <2>1. n = actual_node
    BY <1>1, <1>2, <1>6, TopIsLast
  <2>2. stop_on_path(n) /\ pr_state' = "runs"
    BY <1>1, <1>4, <1>6, <2>1
  <2>3. n \in path \ {1}
    BY <1>2, <1>3, <1>6, PathNow
  <2>4. /\ Revised(timers, timers') /\ RunningIn(timers') \subseteq RunningIn(timers)
        /\ RunningIn(timers') = PathIn(timers', actual_node')
    BY <1>1, <2>2, <2>3, StopOnPath
  <2>5. FramesOK(timers', F)
    BY <1>2, <2>4, FramesKept
  <2>6. n \notin RunningIn(timers')
    <3>1. actual_node' = timers[n].parent_timer
      BY <2>2 DEF stop_on_path
    <3>2. actual_node' \in DOMAIN timers /\ actual_node' < n
      BY <1>2, <1>3, <3>1 DEF TreeOK
    <3>3. n \in Nat
      BY <1>2, <1>3, TreeNumbers
    <3>4. TreeOK(timers') /\ DOMAIN timers' = DOMAIN timers
      BY <2>4, TreeKept
    <3>5. \A x \in PathIn(timers', actual_node') : x \in Nat /\ x <= actual_node'
      BY <3>2, <3>4, PathBounds
    <3>6. actual_node' \in Nat
      BY <1>2, <3>2, TreeNumbers
    <3> QED BY <2>4, <3>2, <3>3, <3>5, <3>6
  <2>7. FramesOK(timers', pr_frames')
    BY <1>1, <2>5, <2>6, FramePopped
  <2> QED BY <1>1, <2>2, <2>3, <2>7, StopKeeps
<1> QED BY <1>5, <1>6

\* START_TIMER of a timer that was started before
LEMMA FoundIs ==
  ASSUME PrInv, pr_state = "runs", NEW tag \in PrTags, NEW k \in find_child(tag)
  PROVE  LET old == timers[actual_node].child_timers[probed(tag, k)]
         IN  /\ old \in DOMAIN timers \ {1} /\ timers[old].parent_timer = actual_node
             /\ old \notin RunningIn(timers) /\ timers[old].start_count = 0
<1> DEFINE T == timers
           a == actual_node
           i == probed(tag, k)
           old == T[a].child_timers[i]
<1>1. TreeOK(T) /\ TablesOK(T) /\ a \in DOMAIN T /\ RunningIn(T) = PathIn(T, a)
  BY DEF PrInv, RunsOK
<1>2. k \in Slots /\ old # timer_no_child
  BY DEF find_child, Slots
<1>3. i \in Slots
  BY <1>2, ProbedIs
<1> HIDE DEF i
<1>4. old \in DOMAIN T \ {1} /\ T[old].parent_timer = a
  BY <1>1, <1>2, <1>3 DEF TablesOK
<1>5. a < old /\ TimerOK(T[old])
  BY <1>1, <1>4 DEF TreeOK
<1>6. \A n \in PathIn(T, a) : n \in Nat /\ n <= a
  BY <1>1, PathBounds
<1>7. a \in Nat
  BY <1>1, TreeNumbers
<1>8. old \notin RunningIn(T)
  BY <1>1, <1>5, <1>6, <1>7
<1>9. T[old].start_count = 0
  BY <1>4, <1>5, <1>8 DEF RunningIn, TimerOK
<1> QED BY <1>4, <1>8, <1>9 DEF i

LEMMA StartFoundKeeps ==
  ASSUME PrInv, NEW tag \in PrTags, PrStart(tag), find_child(tag) # {} PROVE PrInv'
<1> DEFINE T == timers
           U == timers'
           a == actual_node
           k == Min(find_child(tag))
           old == T[a].child_timers[probed(tag, k)]
<1>1. /\ pr_state = "runs" /\ pr_started' = pr_started + 1
      /\ U = [T EXCEPT ![old] = start(@)] /\ actual_node' = old
      /\ pr_frames' = Append(pr_frames, old) /\ pr_state' = pr_state
      /\ UNCHANGED <<pr_clock, pr_malloced, malloc_map>>
  BY DEF PrStart
<1>2. k \in find_child(tag)
  <2>1. find_child(tag) \subseteq Nat
    BY DEF find_child
  <2> QED BY <2>1, MinIs
<1> HIDE DEF k
<1>3. /\ old \in DOMAIN T \ {1} /\ T[old].parent_timer = a
      /\ old \notin RunningIn(T) /\ T[old].start_count = 0
  BY <1>1, <1>2, FoundIs
<1> HIDE DEF old
<1>4. TreeOK(T) /\ a \in DOMAIN T /\ RunningIn(T) = PathIn(T, a) /\ FramesOK(T, pr_frames)
      /\ pr_clock \in Int /\ TimesOK(T, pr_clock) /\ pr_started \in Nat
  BY <1>1 DEF PrInv, RunsOK, BlocksOK, StartsOK
<1>5. DOMAIN U = DOMAIN T /\ U = [m \in DOMAIN T |-> U[m]] /\ U[old] = start(T[old])
      /\ \A m \in DOMAIN T : m # old => U[m] = T[m]
  BY <1>1, <1>3
<1>6. \A m \in DOMAIN T : TimerOK(T[m])
  BY <1>4 DEF TreeOK
<1>7. /\ TimerOK(U[old]) /\ U[old].tag = T[old].tag /\ U[old].parent_timer = T[old].parent_timer
      /\ U[old].child_timers = T[old].child_timers /\ U[old].start_count = 1
      /\ U[old].current_allocated = T[old].current_allocated
      /\ TimeIn(U[old], pr_clock) = TimeIn(T[old], pr_clock)
  BY <1>3, <1>4, <1>5, <1>6, Started
<1> HIDE DEF T, U
<1>8. Revised(T, U) /\ KeepsTimes(T, U, pr_clock) /\ KeepsMemory(T, U)
  <2>1. Revised(T, U)
    BY <1>5, <1>6, <1>7 DEF Revised
  <2>2. KeepsTimes(T, U, pr_clock) /\ KeepsMemory(T, U)
    BY <1>5, <1>7 DEF KeepsTimes, KeepsMemory
  <2> QED BY <2>1, <2>2
<1>9. RunningIn(U) = RunningIn(T) \cup {old}
  BY <1>3, <1>5, <1>7 DEF RunningIn
<1>10. TreeOK(U) /\ TablesOK(U) /\ \A n \in DOMAIN T : PathIn(U, n) = PathIn(T, n)
  BY <1>8, TreeKept DEF T, U
<1>11. PathIn(T, old) = PathIn(T, a) \cup {old}
  BY <1>3, <1>4, PathStep
<1>12. FramesOK(U, Append(pr_frames, old))
  <2>1. \A n \in DOMAIN T : U[n].parent_timer = T[n].parent_timer
    BY <1>5, <1>7
  <2>2. old \in DOMAIN U \ {1} /\ U[old].parent_timer = a /\ DOMAIN T \subseteq DOMAIN U
    BY <1>3, <1>5, <1>7
  <2> QED BY <1>3, <1>4, <1>9, <1>10, <2>1, <2>2, FramePushed
<1>13. RunsOK'
  BY <1>1, <1>3, <1>4, <1>9, <1>10, <1>11, <1>12 DEF RunsOK, T, U
<1>14. StartsOK'
  <2>1. pr_started' \in Nat /\ pr_started' >= pr_started /\ pr_state' = "runs"
    BY <1>1, <1>4
  <2> QED BY <1>8, <2>1, StartsKept DEF T, U
<1>15. TimesOK(U, pr_clock) /\ allocated_in(U) = allocated_in(T)
  <2>1. TimesOK(U, pr_clock)
    BY <1>4, <1>8, RevisedTimes
  <2>2. allocated_in(U) = allocated_in(T)
    BY <1>8, RevisedMemory
  <2> QED BY <2>1, <2>2
<1>16. BlocksOK' /\ actual_node' \in DOMAIN U
  BY <1>1, <1>3, <1>5 DEF PrInv, BlocksOK
<1> QED BY <1>1, <1>10, <1>13, <1>14, <1>15, <1>16 DEF PrInv, T, U

---------------------------------------------------------------------------
(* Profiler: a new timer *)

\* The place of the table of timer a at which a child with the tag is added
FreeAt(T, a, tag, k) ==
  /\ k \in Slots /\ at_distance(T, a, tag, k) = timer_no_child
  /\ \A j \in 0 .. k - 1 : /\ at_distance(T, a, tag, j) # timer_no_child
                           /\ T[at_distance(T, a, tag, j)].tag # tag

\* U is T with a started child of timer a.
Grown(T, U, a, tag, k, n, clock) ==
  /\ TreeOK(T) /\ a \in DOMAIN T /\ tag \in PrTags /\ n = Len(T) + 1
  /\ DOMAIN U = 1 .. n /\ U = [m \in 1 .. n |-> U[m]]
  /\ \A m \in DOMAIN T \ {a} : U[m] = T[m]
  /\ TimerOK(U[a]) /\ U[a].tag = T[a].tag /\ U[a].parent_timer = T[a].parent_timer
  /\ U[a].start_count = T[a].start_count /\ U[a].current_allocated = T[a].current_allocated
  /\ TimeIn(U[a], clock) = TimeIn(T[a], clock)
  /\ U[a].child_timers = [T[a].child_timers EXCEPT ![probed(tag, k)] = n]
  /\ TimerOK(U[n]) /\ U[n].tag = tag /\ U[n].parent_timer = a /\ U[n].start_count = 1
  /\ U[n].current_allocated = 0 /\ TimeIn(U[n], clock) = 0
  /\ \A i \in Slots : U[n].child_timers[i] = timer_no_child

\* What both trees have in common
LEMMA GrownIs ==
  ASSUME NEW T, NEW a, NEW tag, NEW k, NEW clock, NEW U, NEW n, Grown(T, U, a, tag, k, n, clock)
  PROVE  /\ n \in Nat \ {0, 1} /\ n \notin DOMAIN T /\ DOMAIN U = DOMAIN T \cup {n} /\ DOMAIN U = 1 .. n
         /\ DOMAIN T = 1 .. Len(T) /\ a # n
<1>1. TreeOK(T) /\ a \in DOMAIN T /\ DOMAIN U = 1 .. n /\ n = Len(T) + 1
  BY DEF Grown
<1>2. Len(T) \in Nat \ {0} /\ DOMAIN T = 1 .. Len(T)
  BY <1>1, TreeNumbers
<1>3. n \in Nat \ {0, 1} /\ n \notin DOMAIN T /\ DOMAIN U = DOMAIN T \cup {n}
  BY <1>1, <1>2
<1> QED BY <1>1, <1>2, <1>3

LEMMA GrownTimers ==
  ASSUME NEW T, NEW a, NEW tag, NEW k, NEW clock, NEW U, NEW n, Grown(T, U, a, tag, k, n, clock),
         NEW m \in DOMAIN T
  PROVE  /\ TimerOK(U[m]) /\ U[m].tag = T[m].tag /\ U[m].parent_timer = T[m].parent_timer
         /\ U[m].start_count = T[m].start_count /\ U[m].current_allocated = T[m].current_allocated
         /\ TimeIn(U[m], clock) = TimeIn(T[m], clock)
BY DEF Grown, TreeOK

LEMMA GrownTree ==
  ASSUME NEW T, NEW a, NEW tag, NEW k, NEW clock, NEW U, NEW n, Grown(T, U, a, tag, k, n, clock)
  PROVE  /\ TreeOK(U) /\ PathIn(U, n) = PathIn(T, a) \cup {n}
         /\ RunningIn(U) = RunningIn(T) \cup {n} /\ n \notin RunningIn(T)
<1>0. TreeOK(T) /\ a \in DOMAIN T /\ tag \in PrTags
  BY DEF Grown
<1>1. /\ n \in Nat \ {0, 1} /\ n \notin DOMAIN T /\ DOMAIN U = DOMAIN T \cup {n} /\ DOMAIN U = 1 .. n
      /\ \A m \in DOMAIN T : /\ TimerOK(U[m]) /\ U[m].tag = T[m].tag
                             /\ U[m].parent_timer = T[m].parent_timer
                             /\ U[m].start_count = T[m].start_count
  <2>1. /\ n \in Nat \ {0, 1} /\ n \notin DOMAIN T /\ DOMAIN U = DOMAIN T \cup {n} /\ DOMAIN U = 1 .. n
        /\ DOMAIN T = 1 .. Len(T) /\ a # n
    BY GrownIs
  <2>2. ASSUME NEW m \in DOMAIN T
        PROVE  /\ TimerOK(U[m]) /\ U[m].tag = T[m].tag
               /\ U[m].parent_timer = T[m].parent_timer
               /\ U[m].start_count = T[m].start_count
               /\ U[m].current_allocated = T[m].current_allocated
               /\ TimeIn(U[m], clock) = TimeIn(T[m], clock)
    BY GrownTimers
  <2> QED BY <2>1, <2>2
<1>2. /\ TimerOK(U[n]) /\ U[n].tag = tag /\ U[n].parent_timer = a /\ U[n].start_count = 1
      /\ U = [m \in 1 .. n |-> U[m]]
  BY DEF Grown
<1>3. /\ 1 \in DOMAIN T /\ T[1].parent_timer = 1 /\ T[1].tag = RootTag
      /\ \A m \in DOMAIN T \ {1} : T[m].parent_timer \in DOMAIN T /\ T[m].parent_timer < m
                                   /\ T[m].tag \in PrTags
  BY <1>0 DEF TreeOK
<1>4. a < n /\ a \in DOMAIN U
  BY <1>0, <1>1
<1>5. TreeOK(U)
  <2>1. /\ \E i \in Nat : DOMAIN U = 1 .. i /\ U = [m \in 1 .. i |-> U[m]]
    BY <1>1, <1>2
  <2>2. 1 \in DOMAIN U /\ U[1].parent_timer = 1 /\ U[1].tag = RootTag
    BY <1>1, <1>3
  <2>3. \A m \in DOMAIN U : TimerOK(U[m])
    BY <1>1, <1>2
  <2>4. \A m \in DOMAIN U \ {1} : U[m].parent_timer \in DOMAIN U /\ U[m].parent_timer < m
                                  /\ U[m].tag \in PrTags
    BY <1>0, <1>1, <1>2, <1>3, <1>4
  <2> QED BY <2>1, <2>2, <2>3, <2>4 DEF TreeOK
<1>6. PathIn(U, a) = PathIn(T, a)
  BY <1>0, <1>1, <1>5, PathKept
<1>7. PathIn(U, n) = PathIn(U, a) \cup {n}
  BY <1>1, <1>2, <1>5, PathStep
<1>8. RunningIn(U) = RunningIn(T) \cup {n} /\ n \notin RunningIn(T)
  <2>1. RunningIn(T) \subseteq DOMAIN T /\ RunningIn(U) \subseteq DOMAIN U /\ n \in RunningIn(U)
    BY <1>1, <1>2 DEF RunningIn
  <2>2. \A m \in DOMAIN T : m \in RunningIn(U) <=> m \in RunningIn(T)
    BY <1>1 DEF RunningIn
  <2> QED BY <1>1, <2>1, <2>2
<1> QED BY <1>5, <1>6, <1>7, <1>8

LEMMA TimeIsNumber ==
  ASSUME NEW t, TimerOK(t), NEW clock \in Int PROVE TimeIn(t, clock) \in Int
BY DEF TimerOK, TimeIn

\* Timers of a tree are finitely many.
LEMMA ChildrenFinite ==
  ASSUME NEW T, TreeOK(T), NEW n
  PROVE  IsFiniteSet(DOMAIN T) /\ IsFiniteSet(ChildrenIn(T, n)) /\ ChildrenIn(T, n) \subseteq DOMAIN T
<1>1. Len(T) \in Nat /\ DOMAIN T = 1 .. Len(T)
  BY TreeNumbers
<1>2. IsFiniteSet(1 .. Len(T))
  BY <1>1, FS_Interval
<1>3. ChildrenIn(T, n) \subseteq DOMAIN T
  BY DEF ChildrenIn
<1> QED BY <1>1, <1>2, <1>3, FS_Subset

LEMMA GrownTimes ==
  ASSUME NEW T, NEW a, NEW tag, NEW k, NEW clock \in Int, NEW U, NEW n, TimesOK(T, clock),
         Grown(T, U, a, tag, k, n, clock)
  PROVE  TimesOK(U, clock)
<1>0. TreeOK(T) /\ a \in DOMAIN T /\ tag \in PrTags
  BY DEF Grown
<1> DEFINE v(x) == [c \in ChildrenIn(U, x) |-> TimeIn(U[c], clock)]
           w(x) == [c \in ChildrenIn(T, x) |-> TimeIn(T[c], clock)]
<1>1. /\ n \in Nat \ {0, 1} /\ n \notin DOMAIN T /\ DOMAIN U = DOMAIN T \cup {n} /\ DOMAIN U = 1 .. n
      /\ \A m \in DOMAIN T : /\ TimerOK(U[m]) /\ U[m].parent_timer = T[m].parent_timer
                             /\ TimeIn(U[m], clock) = TimeIn(T[m], clock)
  <2>1. /\ n \in Nat \ {0, 1} /\ n \notin DOMAIN T /\ DOMAIN U = DOMAIN T \cup {n} /\ DOMAIN U = 1 .. n
        /\ DOMAIN T = 1 .. Len(T) /\ a # n
    BY GrownIs
  <2>2. ASSUME NEW m \in DOMAIN T
        PROVE  /\ TimerOK(U[m]) /\ U[m].tag = T[m].tag
               /\ U[m].parent_timer = T[m].parent_timer
               /\ U[m].start_count = T[m].start_count
               /\ U[m].current_allocated = T[m].current_allocated
               /\ TimeIn(U[m], clock) = TimeIn(T[m], clock)
    BY GrownTimers
  <2> QED BY <2>1, <2>2
<1>2. U[n].parent_timer = a /\ TimeIn(U[n], clock) = 0 /\ TimerOK(U[n])
  BY DEF Grown
<1>3. TreeOK(U)
  BY GrownTree
<1>4. \A m \in DOMAIN T : T[m].parent_timer \in DOMAIN T
  BY <1>0, TreeNumbers
<1>5. ASSUME NEW x \in DOMAIN T PROVE sum_of(w(x)) <= TimeIn(T[x], clock)
  BY DEF TimesOK
<1>6. ASSUME NEW x \in DOMAIN T, x # a PROVE sum_of(v(x)) <= TimeIn(U[x], clock)
  <2>1. ChildrenIn(U, x) = ChildrenIn(T, x)
    BY <1>1, <1>2, <1>6 DEF ChildrenIn
  <2>2. ChildrenIn(T, x) \subseteq DOMAIN T
    BY DEF ChildrenIn
  <2>3. v(x) = w(x)
    BY <1>1, <2>1, <2>2
  <2> QED BY <1>1, <1>5, <2>3
<1>7. sum_of(v(a)) <= TimeIn(U[a], clock)
  <2> DEFINE S == ChildrenIn(U, a)
  <2>1. a < n
    BY <1>0, <1>1
  <2>2. S = ChildrenIn(T, a) \cup {n} /\ n \notin ChildrenIn(T, a)
    BY <1>1, <1>2, <2>1 DEF ChildrenIn
  <2>3. ChildrenIn(T, a) \subseteq DOMAIN T /\ IsFiniteSet(S)
    <3>1. ChildrenIn(T, a) \subseteq DOMAIN T
      BY <1>0, ChildrenFinite
    <3>2. IsFiniteSet(ChildrenIn(U, a))
      BY <1>3, ChildrenFinite
    <3> QED BY <3>1, <3>2
  <2>4. \A c \in S : TimeIn(U[c], clock) \in Int
    <3>1. \A c \in S : TimerOK(U[c])
      BY <1>1, <1>2, <2>2, <2>3
    <3> QED BY <3>1, TimeIsNumber
  <2>5. \A c \in S \ {n} : TimeIn(U[c], clock) = TimeIn(T[c], clock)
    BY <1>1, <2>2, <2>3
  <2>6. S \ {n} = ChildrenIn(T, a)
    BY <2>2
  <2> DEFINE va == v(a)
             wa == w(a)
  <2>7. va \in [S -> Int] /\ va[n] = 0
    BY <1>2, <2>2, <2>4
  <2>8. wa \in [S \ {n} -> Int] /\ \A r \in S \ {n} : wa[r] = va[r]
    BY <2>4, <2>5, <2>6
  <2> HIDE DEF va, wa
  <2>9. n \in S
    BY <2>2
  <2> HIDE DEF S
  <2>10. Extends1(va, wa, S, n)
    BY <2>7, <2>8, <2>9 DEF Extends1
  <2>11. sum_of(va) = va[n] + sum_of(wa)
    BY <2>3, <2>10, SumWithOneMore
  <2>12. sum_of(wa) \in Int
    <3>1. IsFiniteSet(S \ {n})
      BY <2>3, FS_Subset
    <3> QED BY <2>8, <3>1, SumIsNumber
  <2>13. sum_of(va) = sum_of(wa)
    BY <2>7, <2>11, <2>12
  <2> QED BY <1>0, <1>1, <1>5, <2>13 DEF va, wa
<1>8. sum_of(v(n)) <= TimeIn(U[n], clock)
  <2>1. ChildrenIn(U, n) = {}
    BY <1>1 DEF ChildrenIn
  <2> DEFINE vn == v(n)
  <2>2. DOMAIN vn = {} /\ vn = [r \in {} |-> vn[r]]
    BY <2>1
  <2> HIDE DEF vn
  <2>3. sum_of(vn) = 0
    BY <2>2, SumOfNone
  <2> QED BY <1>2, <2>3 DEF vn
<1>9. ASSUME NEW x \in DOMAIN U PROVE sum_of(v(x)) <= TimeIn(U[x], clock)
  <2> HIDE DEF v
  <2> QED BY <1>1, <1>6, <1>7, <1>8
<1> QED BY <1>9 DEF TimesOK

\* The children that a table holds
LEMMA TableHolds ==
  ASSUME NEW T, TreeOK(T), TablesOK(T), NEW x \in DOMAIN T, NEW tag \in PrTags, NEW k \in Slots,
         at_distance(T, x, tag, k) # timer_no_child
  PROVE  at_distance(T, x, tag, k) \in DOMAIN T \ {1} /\ T[at_distance(T, x, tag, k)].parent_timer = x
<1>1. probed(tag, k) \in Slots
  BY ProbedIs
<1> QED BY <1>1 DEF TablesOK, at_distance

\* Distances below one in the table
LEMMA SlotsBelow ==
  ASSUME NEW k \in Slots, NEW j \in 0 .. k - 1 PROVE j \in Slots /\ j # k
BY ProfilerInputsAssumption DEF Slots

\* A child stays where it is found.
LEMMA FoundInGrown ==
  ASSUME NEW T, NEW a, NEW tag, NEW k, NEW clock, NEW U, NEW n, Grown(T, U, a, tag, k, n, clock),
         FreeAt(T, a, tag, k), TablesOK(T),
         NEW x \in DOMAIN T, NEW m \in DOMAIN T \ {1}, NEW d \in Slots, FoundAt(T, x, m, d)
  PROVE  FoundAt(U, x, m, d)
<1> DEFINE g == T[m].tag
<1>0. TreeOK(T) /\ a \in DOMAIN T /\ tag \in PrTags
  BY DEF Grown
<1>1. g \in PrTags /\ U[m].tag = g
  BY <1>0, GrownTimers DEF TreeOK
<1>2. at_distance(T, x, g, d) = m /\ m # timer_no_child
  <2>1. m \in 1 .. Len(T) /\ Len(T) \in Nat
    BY <1>0, TreeNumbers
  <2> QED BY <2>1 DEF FoundAt, timer_no_child
<1>3. ASSUME NEW j \in 0 .. d - 1
      PROVE  j \in Slots /\ at_distance(T, x, g, j) # timer_no_child /\ T[at_distance(T, x, g, j)].tag # g
  BY <1>3, SlotsBelow DEF FoundAt
<1> HIDE DEF g
<1>4. ASSUME NEW j \in Slots, at_distance(T, x, g, j) # timer_no_child
      PROVE  at_distance(U, x, g, j) = at_distance(T, x, g, j)
  <2>1. probed(g, j) \in Slots
    BY <1>1, ProbedIs
  <2>2. CASE x # a
    BY <2>2 DEF Grown, at_distance
  <2>3. CASE x = a
    <3>1. probed(g, j) # probed(tag, k)
      BY <1>4, <2>3 DEF FreeAt, at_distance
    <3>2. U[a].child_timers = [T[a].child_timers EXCEPT ![probed(tag, k)] = n]
      BY DEF Grown
    <3>3. T[a].child_timers \in [Slots -> Nat]
      BY <1>0 DEF TreeOK, TimerOK
    <3> QED BY <2>1, <2>3, <3>1, <3>2, <3>3 DEF at_distance
  <2> QED BY <2>2, <2>3
<1>5. at_distance(U, x, g, d) = m
  BY <1>2, <1>4
<1>6. ASSUME NEW j \in 0 .. d - 1
      PROVE  at_distance(U, x, g, j) # timer_no_child /\ U[at_distance(U, x, g, j)].tag # g
  <2> DEFINE c == at_distance(T, x, g, j)
  <2>1. j \in Slots /\ c # timer_no_child /\ T[c].tag # g
    BY <1>3
  <2>2. at_distance(U, x, g, j) = c
    BY <1>4, <2>1
  <2>3. c \in DOMAIN T
    BY <1>0, <1>1, <2>1, TableHolds
  <2> HIDE DEF c
  <2>4. U[c].tag = T[c].tag
    BY <2>3, GrownTimers
  <2> QED BY <2>1, <2>2, <2>4
<1> QED BY <1>1, <1>5, <1>6 DEF FoundAt

LEMMA GrownTables ==
  ASSUME NEW T, NEW a, NEW tag, NEW k, NEW clock, NEW U, NEW n, Grown(T, U, a, tag, k, n, clock),
         FreeAt(T, a, tag, k), TablesOK(T)
  PROVE  TablesOK(U)
<1> DEFINE p == probed(tag, k)
<1>0. TreeOK(T) /\ a \in DOMAIN T /\ tag \in PrTags
  BY DEF Grown
<1>1. /\ n \in Nat \ {0, 1} /\ n \notin DOMAIN T /\ DOMAIN U = DOMAIN T \cup {n} /\ a # n
  BY GrownIs
<1>2. \A m \in DOMAIN T : U[m].tag = T[m].tag /\ U[m].parent_timer = T[m].parent_timer
  BY GrownTimers
<1>3. /\ U[n].parent_timer = a /\ U[n].tag = tag /\ \A i \in Slots : U[n].child_timers[i] = timer_no_child
      /\ U[a].child_timers = [T[a].child_timers EXCEPT ![p] = n]
      /\ \A m \in DOMAIN T \ {a} : U[m] = T[m]
  BY DEF Grown
<1>4. p \in Slots /\ T[a].child_timers[p] = timer_no_child /\ k \in Slots
  <2>1. k \in Slots /\ T[a].child_timers[p] = timer_no_child
    BY DEF FreeAt, at_distance
  <2> QED BY <1>0, <2>1, ProbedIs
<1>5. T[a].child_timers \in [Slots -> Nat]
  BY <1>0 DEF TreeOK, TimerOK
<1>6. U[a].child_timers[p] = n /\ \A i \in Slots \ {p} : U[a].child_timers[i] = T[a].child_timers[i]
  BY <1>3, <1>4, <1>5
<1>7. \A m \in DOMAIN T : T[m].parent_timer \in DOMAIN T
  BY <1>0, TreeNumbers
<1> HIDE DEF p
\* What the tables of T hold
<1>8. ASSUME NEW x \in DOMAIN T, NEW i \in Slots, T[x].child_timers[i] # timer_no_child
      PROVE  /\ T[x].child_timers[i] \in DOMAIN T \ {1} /\ T[T[x].child_timers[i]].parent_timer = x
             /\ \A j \in Slots : T[x].child_timers[j] = T[x].child_timers[i] => j = i
  BY <1>8 DEF TablesOK
\* What the tables of U hold
<1>9. ASSUME NEW x \in DOMAIN U, NEW i \in Slots, U[x].child_timers[i] # timer_no_child
      PROVE  /\ U[x].child_timers[i] \in DOMAIN U \ {1} /\ U[U[x].child_timers[i]].parent_timer = x
             /\ \A j \in Slots : U[x].child_timers[j] = U[x].child_timers[i] => j = i
  <2>1. CASE x = n
    BY <1>3, <1>9, <2>1
  <2>2. CASE x \in DOMAIN T \ {a}
    <3>1. U[x] = T[x] /\ T[x].child_timers[i] # timer_no_child
      BY <1>3, <1>9, <2>2
    <3>2. /\ T[x].child_timers[i] \in DOMAIN T \ {1} /\ T[T[x].child_timers[i]].parent_timer = x
          /\ \A j \in Slots : T[x].child_timers[j] = T[x].child_timers[i] => j = i
      BY <1>8, <2>2, <3>1
    <3> QED BY <1>1, <1>2, <3>1, <3>2
  <2>3. CASE x = a /\ i = p
    <3>1. U[x].child_timers[i] = n
      BY <1>6, <2>3
    <3>2. ASSUME NEW j \in Slots, U[a].child_timers[j] = n PROVE j = p
      <4> SUFFICES ASSUME j # p PROVE FALSE
        OBVIOUS
      <4>1. T[a].child_timers[j] = n
        BY <1>6, <3>2
      <4>2. n # timer_no_child
        BY <1>1 DEF timer_no_child
      <4>3. n \in DOMAIN T
        BY <1>0, <1>8, <4>1, <4>2
      <4> QED BY <1>1, <4>3
    <3> QED BY <1>1, <1>3, <2>3, <3>1, <3>2
  <2>4. CASE x = a /\ i # p
    <3> DEFINE c == T[a].child_timers[i]
    <3>1. U[a].child_timers[i] = c /\ c # timer_no_child
      BY <1>6, <1>9, <2>4
    <3>2. /\ c \in DOMAIN T \ {1} /\ T[c].parent_timer = a
          /\ \A j \in Slots : T[a].child_timers[j] = c => j = i
      BY <1>0, <1>8, <3>1
    <3> HIDE DEF c
    <3>3. c # n /\ U[c].parent_timer = a /\ c \in DOMAIN U \ {1}
      BY <1>1, <1>2, <3>2
    <3>4. \A j \in Slots : U[a].child_timers[j] = c => j = i
      BY <1>6, <3>2, <3>3
    <3> QED BY <2>4, <3>1, <3>3, <3>4
  <2> QED BY <1>1, <2>1, <2>2, <2>3, <2>4
\* Where the children are found
<1>10. ASSUME NEW x \in DOMAIN U, NEW m \in DOMAIN U \ {1}, U[m].parent_timer = x
       PROVE  \E d \in Slots : FoundAt(U, x, m, d)
  <2>1. CASE m \in DOMAIN T
    <3>1. x \in DOMAIN T /\ T[m].parent_timer = x
      BY <1>2, <1>7, <1>10, <2>1
    <3>2. PICK d \in Slots : FoundAt(T, x, m, d)
      BY <1>10, <2>1, <3>1 DEF TablesOK
    <3>3. m \in DOMAIN T \ {1}
      BY <2>1
    <3>4. FoundAt(U, x, m, d)
      BY <3>1, <3>2, <3>3, FoundInGrown
    <3> QED BY <3>4
  <2>2. CASE m = n
    <3>1. x = a /\ U[m].tag = tag
      BY <1>3, <1>10, <2>2
    <3>2. at_distance(U, a, tag, k) = n
      BY <1>6 DEF at_distance, p
    <3>3. ASSUME NEW j \in 0 .. k - 1
          PROVE  at_distance(U, a, tag, j) # timer_no_child /\ U[at_distance(U, a, tag, j)].tag # tag
      <4> DEFINE c == at_distance(T, a, tag, j)
      <4>1. j \in Slots /\ j # k
        BY <1>4, SlotsBelow
      <4>2. probed(tag, j) \in Slots /\ probed(tag, j) # p
        <5>1. probed(tag, j) \in Slots
          BY <1>0, <4>1, ProbedIs
        <5>2. probed(tag, j) # probed(tag, k)
          BY <1>0, <1>4, <4>1, ProbedIs
        <5> QED BY <5>1, <5>2 DEF p
      <4>3. at_distance(U, a, tag, j) = c
        BY <1>6, <4>2 DEF at_distance
      <4>4. c # timer_no_child /\ T[c].tag # tag
        BY DEF FreeAt
      <4>5. c \in DOMAIN T
        BY <1>0, <4>1, <4>4, TableHolds
      <4> HIDE DEF c
      <4> QED BY <1>2, <4>3, <4>4, <4>5
    <3>4. FoundAt(U, x, m, k)
      BY <2>2, <3>1, <3>2, <3>3 DEF FoundAt
    <3> QED BY <1>4, <3>4
  <2> QED BY <1>1, <2>1, <2>2
<1> QED BY <1>9, <1>10 DEF TablesOK

LEMMA GrownMemory ==
  ASSUME NEW T, NEW a, NEW tag, NEW k, NEW clock, NEW U, NEW n, Grown(T, U, a, tag, k, n, clock)
  PROVE  allocated_in(U) = allocated_in(T)
<1> DEFINE v == [m \in DOMAIN U |-> U[m].current_allocated]
           w == [m \in DOMAIN T |-> T[m].current_allocated]
           S == DOMAIN U
<1>1. n \notin DOMAIN T /\ S = DOMAIN T \cup {n}
  BY GrownIs
<1>2. \A m \in DOMAIN T : TimerOK(U[m]) /\ U[m].current_allocated = T[m].current_allocated
  BY GrownTimers
<1>3. U[n].current_allocated = 0 /\ TimerOK(U[n]) /\ TreeOK(T)
  BY DEF Grown
<1>4. TreeOK(U)
  BY GrownTree
<1>5. IsFiniteSet(DOMAIN U) /\ IsFiniteSet(DOMAIN T)
  BY <1>3, <1>4, ChildrenFinite
<1>6. \A m \in DOMAIN U : U[m].current_allocated \in Int
  BY <1>1, <1>2, <1>3 DEF TimerOK
<1>7. S \ {n} = DOMAIN T /\ n \in S
  BY <1>1
<1>8. v \in [S -> Int] /\ v[n] = 0
  BY <1>3, <1>6, <1>7
<1>9. w \in [S \ {n} -> Int] /\ \A r \in S \ {n} : w[r] = v[r]
  BY <1>2, <1>6, <1>7
<1> HIDE DEF v, w, S
<1>10. Extends1(v, w, S, n)
  BY <1>7, <1>8, <1>9 DEF Extends1
<1>11. IsFiniteSet(S) /\ IsFiniteSet(S \ {n})
  BY <1>5, <1>7 DEF S
<1>12. sum_of(v) = v[n] + sum_of(w)
  BY <1>10, <1>11, SumWithOneMore
<1>13. sum_of(w) \in Int
  BY <1>9, <1>11, SumIsNumber
<1>14. sum_of(v) = sum_of(w)
  BY <1>8, <1>12, <1>13
<1> QED BY <1>14 DEF allocated_in, v, w

\* Append to a sequence that is given as a function
LEMMA AppendIs ==
  ASSUME NEW V, NEW m \in Nat, DOMAIN V = 1 .. m, V = [i \in 1 .. m |-> V[i]], NEW e
  PROVE  Append(V, e) = [i \in 1 .. m + 1 |-> IF i = m + 1 THEN e ELSE V[i]]
<1> DEFINE R == {V[i] : i \in 1 .. m} \cup {e}
<1>1. V \in [1 .. m -> R]
  OBVIOUS
<1>2. V \in Seq(R) /\ e \in R
  BY <1>1, SeqDef
<1>3. Len(V) = m
  BY <1>1, <1>2, LenProperties
<1> HIDE DEF R
<1> QED BY <1>2, <1>3

\* A timer that was just created
LEMMA NewTimer ==
  ASSUME NEW tag, NEW a, NEW t, t = new_timer(tag, a)
  PROVE  /\ TimerOK(t) /\ t.tag = tag /\ t.parent_timer = a /\ t.start_count = 0
         /\ t.current_allocated = 0 /\ TimeIn(t, pr_clock) = 0
         /\ \A i \in Slots : t.child_timers[i] = timer_no_child
<1>1. t = [tag |-> tag, parent_timer |-> a, start_count |-> 0, start_time |-> 0, cumul_time |-> 0,
           child_timers |-> [i \in Slots |-> 0],
           total_allocated |-> 0, current_allocated |-> 0, max_allocated |-> 0]
  BY DEF new_timer, Slots, timer_no_child
<1>2. t.child_timers = [i \in Slots |-> 0]
  BY <1>1
<1>3. t.child_timers \in [Slots -> Nat] /\ \A i \in Slots : t.child_timers[i] = timer_no_child
  BY <1>2 DEF timer_no_child
<1>4. IsTimer(t)
  BY <1>1 DEF IsTimer
<1> QED BY <1>1, <1>3, <1>4 DEF TimerOK, TimeIn

\* The first free place, behind other tags
LEMMA FreePlace ==
  ASSUME PrInv, NEW tag \in PrTags, find_child(tag) = {}, free_places(tag) # {},
         NEW k, k = Min(free_places(tag))
  PROVE  FreeAt(timers, actual_node, tag, k)
<1> DEFINE c(j) == at_distance(timers, actual_node, tag, j)
<1>1. free_places(tag) = {j \in Slots : c(j) = timer_no_child}
  BY DEF free_places, Slots, at_distance
<1>2. find_child(tag) = {j \in Slots : /\ \A i \in 0 .. j : c(i) # timer_no_child
                                       /\ timers[c(j)].tag = tag
                                       /\ \A i \in 0 .. j - 1 : timers[c(i)].tag # tag}
  BY DEF find_child, Slots, at_distance
<1>3. Slots \subseteq Nat
  BY DEF Slots
<1> HIDE DEF c
<1>4. k \in Slots /\ c(k) = timer_no_child /\ \A j \in Slots : c(j) = timer_no_child => k <= j
  <2>1. free_places(tag) \subseteq Nat
    BY <1>1, <1>3
  <2>2. k \in free_places(tag) /\ \A j \in free_places(tag) : k <= j
    BY <2>1, MinIs
  <2> QED BY <1>1, <2>2
<1>5. ASSUME NEW j \in 0 .. k - 1 PROVE j \in Slots /\ c(j) # timer_no_child
  <2>1. j \in Slots
    BY <1>4, SlotsBelow
  <2> QED BY <1>3, <1>4, <2>1
<1> DEFINE J == {j \in 0 .. k - 1 : timers[c(j)].tag = tag}
<1>6. ASSUME J # {} PROVE FALSE
  <2>1. J \subseteq Nat
    BY <1>3, <1>4
  <2> HIDE DEF J
  <2>2. PICK j \in J : \A i \in J : j <= i
    BY <1>6, <2>1, LeastNumber
  <2>3. j \in 0 .. k - 1 /\ timers[c(j)].tag = tag
    BY <2>2 DEF J
  <2>4. ASSUME NEW i \in 0 .. j PROVE c(i) # timer_no_child
    <3>1. i \in 0 .. k - 1
      BY <1>3, <1>4, <2>3
    <3> QED BY <1>5, <3>1
  <2>5. ASSUME NEW i \in 0 .. j - 1 PROVE timers[c(i)].tag # tag
    <3>1. i \in 0 .. k - 1 /\ ~ j <= i
      BY <1>3, <1>4, <2>3
    <3> QED BY <2>2, <3>1 DEF J
  <2>6. j \in find_child(tag)
    BY <1>2, <1>5, <2>3, <2>4, <2>5
  <2> QED BY <2>6
<1>7. \A j \in 0 .. k - 1 : timers[c(j)].tag # tag
  BY <1>6
<1> QED BY <1>4, <1>5, <1>7 DEF FreeAt, c

\* The tree with a new timer
LEMMA TreeGrows ==
  ASSUME PrInv, NEW tag \in PrTags, NEW k \in Slots, NEW n, n = Len(timers) + 1,
         timers' = Append([timers EXCEPT ![actual_node].child_timers[probed(tag, k)] = n],
                          start(new_timer(tag, actual_node)))
  PROVE  Grown(timers, timers', actual_node, tag, k, n, pr_clock)
<1> DEFINE T == timers
           U == timers'
           a == actual_node
           p == probed(tag, k)
           V == [T EXCEPT ![a].child_timers[p] = n]
           e == start(new_timer(tag, a))
           m == Len(T)
<1>1. TreeOK(T) /\ a \in DOMAIN T /\ pr_clock \in Int
  BY DEF PrInv, BlocksOK
<1>2. m \in Nat \ {0} /\ DOMAIN T = 1 .. m /\ n = m + 1 /\ T = [i \in 1 .. m |-> T[i]]
  <2>1. m \in Nat \ {0} /\ DOMAIN T = 1 .. m
    BY <1>1, TreeNumbers
  <2> HIDE DEF m
  <2>2. T = [i \in 1 .. m |-> T[i]]
    BY <1>1, <2>1 DEF TreeOK
  <2> QED BY <2>1, <2>2 DEF m
<1>3. TimerOK(T[a])
  BY <1>1 DEF TreeOK
<1>4. p \in Slots
  BY ProbedIs
<1>5. /\ TimerOK(e) /\ e.tag = tag /\ e.parent_timer = a /\ e.start_count = 1
      /\ e.current_allocated = 0 /\ TimeIn(e, pr_clock) = 0
      /\ \A i \in Slots : e.child_timers[i] = timer_no_child
  <2> DEFINE t == new_timer(tag, a)
  <2>1. /\ TimerOK(t) /\ t.tag = tag /\ t.parent_timer = a /\ t.start_count = 0
        /\ t.current_allocated = 0 /\ TimeIn(t, pr_clock) = 0
        /\ \A i \in Slots : t.child_timers[i] = timer_no_child
    BY NewTimer
  <2>2. e = start(t)
    OBVIOUS
  <2> HIDE DEF t, e
  <2>3. /\ TimerOK(e) /\ e.tag = t.tag /\ e.parent_timer = t.parent_timer
        /\ e.child_timers = t.child_timers /\ e.start_count = 1
        /\ e.current_allocated = t.current_allocated
        /\ TimeIn(e, pr_clock) = TimeIn(t, pr_clock)
    BY <1>1, <2>1, <2>2, Started
  <2> QED BY <2>1, <2>3
<1> DEFINE table == [T[a].child_timers EXCEPT ![p] = n]
           b == [T[a] EXCEPT !.child_timers = table]
<1>6. V = [T EXCEPT ![a] = b]
  OBVIOUS
<1>7. U = Append(V, e)
  OBVIOUS
<1> HIDE DEF p, e, V
<1>8. table \in [Slots -> Nat]
  BY <1>2, <1>3, <1>4 DEF TimerOK
<1> HIDE DEF table, T, U
<1>9. /\ TimerOK(b) /\ b.tag = T[a].tag /\ b.parent_timer = T[a].parent_timer
      /\ b.start_count = T[a].start_count /\ b.current_allocated = T[a].current_allocated
      /\ TimeIn(b, pr_clock) = TimeIn(T[a], pr_clock) /\ b.child_timers = table
  <2>1. b = [tag |-> T[a].tag, parent_timer |-> T[a].parent_timer, start_count |-> T[a].start_count,
             start_time |-> T[a].start_time, cumul_time |-> T[a].cumul_time, child_timers |-> table,
             total_allocated |-> T[a].total_allocated, current_allocated |-> T[a].current_allocated,
             max_allocated |-> T[a].max_allocated]
    BY <1>3 DEF TimerOK, IsTimer
  <2>2. TimerOK(b)
    BY <1>3, <1>8, <2>1 DEF TimerOK, IsTimer
  <2> QED BY <2>1, <2>2 DEF TimeIn
<1> HIDE DEF b
<1>10. DOMAIN V = 1 .. m /\ V = [i \in 1 .. m |-> V[i]] /\ V[a] = b /\ \A i \in DOMAIN T : i # a => V[i] = T[i]
  BY <1>1, <1>2, <1>6
<1> HIDE DEF m
<1>11. U = [i \in 1 .. n |-> IF i = n THEN e ELSE V[i]]
  BY <1>2, <1>7, <1>10, AppendIs
<1>12. /\ DOMAIN U = 1 .. n /\ U = [i \in 1 .. n |-> U[i]] /\ U[n] = e /\ U[a] = b
       /\ \A i \in DOMAIN T \ {a} : U[i] = T[i]
  BY <1>1, <1>2, <1>10, <1>11
<1>13. U[a].child_timers = [T[a].child_timers EXCEPT ![probed(tag, k)] = n]
  BY <1>9, <1>12 DEF p, table
<1>14. n = Len(T) + 1
  BY <1>2 DEF m
<1>15. Grown(T, U, a, tag, k, n, pr_clock)
  BY <1>1, <1>5, <1>9, <1>12, <1>13, <1>14 DEF Grown
<1> QED BY <1>15 DEF T, U

LEMMA StartNewKeeps ==
  ASSUME PrInv, NEW tag \in PrTags, PrStart(tag), find_child(tag) = {}, free_places(tag) # {}
  PROVE  PrInv'
<1> DEFINE T == timers
           U == timers'
           a == actual_node
           k == Min(free_places(tag))
           n == Len(timers) + 1
<1>1. /\ pr_state = "runs" /\ pr_started' = pr_started + 1
      /\ U = Append([T EXCEPT ![a].child_timers[probed(tag, k)] = n], start(new_timer(tag, a)))
      /\ actual_node' = n /\ pr_frames' = Append(pr_frames, n) /\ pr_state' = pr_state
      /\ UNCHANGED <<pr_clock, pr_malloced, malloc_map>>
  BY DEF PrStart
<1>2. FreeAt(T, a, tag, k)
  BY FreePlace
<1>3. k \in Slots
  BY <1>2 DEF FreeAt
<1> HIDE DEF k
<1>4. Grown(T, U, a, tag, k, n, pr_clock)
  <2> HIDE DEF n
  <2>1. n = Len(timers) + 1
    BY DEF n
  <2> QED BY <1>1, <1>3, <2>1, TreeGrows
<1>5. /\ TreeOK(T) /\ TablesOK(T) /\ TimesOK(T, pr_clock) /\ a \in DOMAIN T
      /\ RunningIn(T) = PathIn(T, a) /\ FramesOK(T, pr_frames) /\ pr_clock \in Int
      /\ pr_started \in Nat /\ Len(T) <= pr_started + 1
  BY <1>1 DEF PrInv, RunsOK, BlocksOK, StartsOK
<1>6. Len(T) \in Nat /\ n = Len(T) + 1
  BY <1>5, TreeNumbers
<1> HIDE DEF n, T, U, a
<1>7. n \in Nat \ {0, 1} /\ n \notin DOMAIN T /\ DOMAIN U = DOMAIN T \cup {n} /\ DOMAIN U = 1 .. n
  <2>1. n \in Nat \ {0, 1} /\ n \notin DOMAIN T
    BY <1>4, GrownIs
  <2>2. DOMAIN U = 1 .. n
    BY <1>4 DEF Grown
  <2>3. DOMAIN T = 1 .. Len(T)
    BY <1>5, TreeNumbers
  <2> QED BY <1>6, <2>1, <2>2, <2>3
<1>8. /\ TreeOK(U) /\ PathIn(U, n) = PathIn(T, a) \cup {n}
      /\ RunningIn(U) = RunningIn(T) \cup {n} /\ n \notin RunningIn(T)
  BY <1>4, GrownTree
<1>9. TablesOK(U)
  BY <1>2, <1>4, <1>5, GrownTables
<1>10. TimesOK(U, pr_clock)
  BY <1>4, <1>5, GrownTimes
<1>11. allocated_in(U) = allocated_in(T)
  BY <1>4, GrownMemory
<1>12. FramesOK(U, Append(pr_frames, n))
  <2>1. \A m \in DOMAIN T : U[m].parent_timer = T[m].parent_timer
    BY <1>4, GrownTimers
  <2>2. U[n].parent_timer = a /\ n \in DOMAIN U \ {1} /\ DOMAIN T \subseteq DOMAIN U
    BY <1>4, <1>7 DEF Grown
  <2> QED BY <1>5, <1>8, <2>1, <2>2, FramePushed
<1>13. RunsOK'
  BY <1>1, <1>5, <1>8, <1>12 DEF RunsOK, U
<1>14. StartsOK'
  <2>1. Len(U) \in Nat /\ DOMAIN U = 1 .. Len(U)
    BY <1>8, TreeNumbers
  <2> DEFINE j == Len(U)
  <2> HIDE DEF j
  <2>2. j \in Nat /\ 1 .. j = 1 .. n
    BY <1>7, <2>1 DEF j
  <2>3. j = n
    BY <1>7, <2>2
  <2>4. Len(timers') <= pr_started' + 1 /\ pr_started' \in Nat
    BY <1>1, <1>5, <1>6, <2>3 DEF j, U
  <2> QED BY <1>1, <2>4 DEF StartsOK
<1>15. BlocksOK' /\ actual_node' \in DOMAIN U
  BY <1>1, <1>7 DEF PrInv, BlocksOK
<1> QED BY <1>1, <1>8, <1>9, <1>10, <1>11, <1>13, <1>14, <1>15 DEF PrInv, T, U

\* A full table has a child for each place: as many timers were started.
LEMMA TableFull ==
  ASSUME PrInv, NEW tag \in PrTags, free_places(tag) = {} PROVE pr_started >= max_n_childs
<1> DEFINE T == timers
           a == actual_node
           f == [k \in Slots |-> at_distance(T, a, tag, k)]
           R == 2 .. Len(T)
<1>1. /\ TreeOK(T) /\ TablesOK(T) /\ a \in DOMAIN T
      /\ pr_started \in Nat /\ Len(T) <= pr_started + 1
  BY DEF PrInv, StartsOK
<1>2. Len(T) \in Nat \ {0} /\ DOMAIN T = 1 .. Len(T)
  BY <1>1, TreeNumbers
<1>3. max_n_childs \in Nat \ {0}
  BY ProfilerInputsAssumption
<1>4. \A k \in Slots : at_distance(T, a, tag, k) # timer_no_child
  BY DEF free_places, Slots, at_distance
<1>5. f \in [Slots -> R]
  <2>1. \A k \in Slots : at_distance(T, a, tag, k) \in DOMAIN T \ {1}
    BY <1>1, <1>4, TableHolds
  <2>2. \A k \in Slots : at_distance(T, a, tag, k) \in R
    BY <1>2, <2>1
  <2> QED BY <2>2
<1>6. ASSUME NEW j \in Slots, NEW k \in Slots, f[j] = f[k] PROVE j = k
  <2> DEFINE p == probed(tag, j)
             q == probed(tag, k)
  <2>1. p \in Slots /\ q \in Slots
    BY ProbedIs
  <2>2. T[a].child_timers[p] = T[a].child_timers[q] /\ T[a].child_timers[q] # timer_no_child
    BY <1>4, <1>6 DEF at_distance
  <2> HIDE DEF p, q
  <2>3. p = q
    BY <1>1, <2>1, <2>2 DEF TablesOK
  <2> QED BY <2>3, ProbedIs DEF p, q
<1>7. /\ IsFiniteSet(Slots) /\ Cardinality(Slots) = max_n_childs
  <2> DEFINE w == max_n_childs - 1
  <2>1. w \in Int /\ ~ 0 > w /\ w - 0 + 1 = max_n_childs
    BY <1>3
  <2> HIDE DEF w
  <2>2. IsFiniteSet(0 .. w) /\ Cardinality(0 .. w) = w - 0 + 1
    BY <2>1, FS_Interval
  <2>3. Slots = 0 .. w
    BY DEF Slots, w
  <2> QED BY <2>1, <2>2, <2>3
<1>8. IsFiniteSet(R) /\ Cardinality(R) = Len(T) - 1
  <2> DEFINE w == Len(T)
  <2>1. w \in Int /\ (2 > w => w = 1)
    BY <1>2
  <2> HIDE DEF w
  <2>2. IsFiniteSet(2 .. w) /\ Cardinality(2 .. w) = IF 2 > w THEN 0 ELSE w - 2 + 1
    BY <2>1, FS_Interval
  <2>3. Cardinality(2 .. w) = w - 1
    BY <2>1, <2>2
  <2> QED BY <2>2, <2>3 DEF w
<1> HIDE DEF f, R
<1>9. ~ Cardinality(R) < Cardinality(Slots)
  BY <1>5, <1>6, <1>7, <1>8, FS_PigeonHole
<1> QED BY <1>1, <1>2, <1>3, <1>7, <1>8, <1>9

LEMMA StartFails ==
  ASSUME PrInv, NEW tag \in PrTags, PrStart(tag), find_child(tag) = {}, free_places(tag) = {}
  PROVE  PrInv'
<1>1. /\ pr_started' = pr_started + 1 /\ pr_state = "runs" /\ pr_state' = "failed"
      /\ UNCHANGED <<timers, actual_node, pr_clock, pr_malloced, malloc_map>>
  BY DEF PrStart
<1>2. pr_started >= max_n_childs /\ pr_started \in Nat /\ Len(timers) <= pr_started + 1
  BY TableFull DEF PrInv, StartsOK
<1>3. Len(timers) \in Nat /\ max_n_childs \in Nat
  BY ProfilerInputsAssumption, TreeNumbers DEF PrInv
<1>4. StartsOK'
  BY <1>1, <1>2, <1>3 DEF StartsOK
<1>5. RunsOK' /\ BlocksOK'
  BY <1>1 DEF PrInv, RunsOK, BlocksOK
<1> QED BY <1>1, <1>4, <1>5 DEF PrInv

---------------------------------------------------------------------------
(* Profiler: time, memory and output *)

\* Time passes for the timers that run: at most one child of each, and then the timer itself.
LEMMA TimePasses ==
  ASSUME NEW T, TreeOK(T), NEW a \in DOMAIN T, RunningIn(T) = PathIn(T, a),
         NEW now \in Int, NEW later, later = now + 1, TimesOK(T, now)
  PROVE  TimesOK(T, later)
<1>1. \A n \in DOMAIN T : TimerOK(T[n])
  BY DEF TreeOK
<1>2. ASSUME NEW n \in DOMAIN T
      PROVE  /\ TimeIn(T[n], now) \in Int /\ TimeIn(T[n], later) \in Int
             /\ TimeIn(T[n], later) = TimeIn(T[n], now) + (IF n \in PathIn(T, a) THEN 1 ELSE 0)
  <2>1. TimerOK(T[n]) /\ later \in Int
    BY <1>1
  <2>2. TimeIn(T[n], now) \in Int /\ TimeIn(T[n], later) \in Int
    BY <2>1, TimeIsNumber
  <2>3. n \in PathIn(T, a) <=> T[n].start_count > 0
    BY DEF RunningIn
  <2>4. TimeIn(T[n], later) = TimeIn(T[n], now) + (IF T[n].start_count > 0 THEN 1 ELSE 0)
    BY <2>1 DEF TimeIn, TimerOK
  <2> QED BY <2>2, <2>3, <2>4
<1> SUFFICES ASSUME NEW n \in DOMAIN T
             PROVE  sum_of([c \in ChildrenIn(T, n) |-> TimeIn(T[c], later)]) <= TimeIn(T[n], later)
  BY DEF TimesOK
<1> DEFINE S == ChildrenIn(T, n)
           v == [c \in S |-> TimeIn(T[c], now)]
           u == [c \in S |-> TimeIn(T[c], later)]
           P == PathIn(T, a)
<1>3. sum_of(v) <= TimeIn(T[n], now)
  BY DEF TimesOK
<1>4. IsFiniteSet(S) /\ S \subseteq DOMAIN T
  BY ChildrenFinite
<1>5. v \in [S -> Int] /\ u \in [S -> Int]
  BY <1>2, <1>4
<1>6. \A c \in S : u[c] = v[c] + (IF c \in P THEN 1 ELSE 0)
  BY <1>2, <1>4
<1>7. P \subseteq DOMAIN T /\ ClosedUp(T, P)
  BY PathIs
<1>8. \A c \in S : T[c].parent_timer = n /\ c # 1
  <2>1. \A c \in S : T[c].parent_timer = n /\ c > n
    BY DEF ChildrenIn
  <2>2. n \in 1 .. Len(T) /\ Len(T) \in Nat
    BY TreeNumbers
  <2> QED BY <2>1, <2>2
<1> HIDE DEF u, v, S
<1>9. sum_of(v) \in Int
  BY <1>4, <1>5, SumIsNumber
<1>10. CASE S \cap P = {}
  <2>1. \A c \in S : u[c] = v[c]
    BY <1>5, <1>6, <1>10
  <2>2. u = v
    BY <1>5, <2>1
  <2> QED BY <1>2, <1>3, <1>9, <2>2 DEF u, S
<1>11. CASE S \cap P # {}
  <2>1. PICK z \in S \cap P : TRUE
    BY <1>11
  <2>2. n \in P
    BY <1>7, <1>8, <2>1 DEF ClosedUp
  <2>3. \A c \in S \ {z} : c \notin P
    <3>1. \A c \in S \cap P : c \in PathIn(T, a) \ {1} /\ T[c].parent_timer = n
      BY <1>8
    <3> HIDE DEF P
    <3>2. \A c \in S \cap P : c = z
      BY <2>1, <3>1, OneChildOnPath
    <3> QED BY <3>2
  <2> HIDE DEF P
  <2>4. u[z] = v[z] + 1 /\ v[z] \in Int /\ u[z] \in Int /\ z \in S
    BY <1>5, <1>6, <2>1
  <2>5. \A c \in S \ {z} : u[c] = v[c]
    BY <1>5, <1>6, <2>3
  <2>6. sum_of(u) - u[z] = sum_of(v) - v[z] /\ sum_of(u) \in Int
    BY <1>4, <1>5, <2>4, <2>5, SumOfChanged
  <2>7. sum_of(u) = sum_of(v) + 1
    BY <1>9, <2>4, <2>6
  <2>8. TimeIn(T[n], later) = TimeIn(T[n], now) + 1 /\ TimeIn(T[n], now) \in Int
    BY <1>2, <2>2 DEF P
  <2> QED BY <1>3, <1>9, <2>7, <2>8 DEF u, S
<1> QED BY <1>10, <1>11

LEMMA TickKeeps ==
  ASSUME PrInv, PrTick PROVE PrInv'
<1>1. /\ pr_state = "runs" /\ pr_clock' = pr_clock + 1
      /\ UNCHANGED <<timers, actual_node, pr_frames, pr_started, pr_malloced, malloc_map, pr_state>>
  BY DEF PrTick
<1>2. /\ TreeOK(timers) /\ actual_node \in DOMAIN timers /\ pr_clock \in Int
      /\ RunningIn(timers) = PathIn(timers, actual_node) /\ TimesOK(timers, pr_clock)
  BY <1>1 DEF PrInv, RunsOK, BlocksOK
<1>3. TimesOK(timers, pr_clock')
  BY <1>1, <1>2, TimePasses
<1>4. pr_clock' \in Int
  BY <1>1, <1>2
<1>5. RunsOK' /\ StartsOK' /\ BlocksOK'
  BY <1>1, <1>4 DEF PrInv, RunsOK, StartsOK, BlocksOK
<1> QED BY <1>1, <1>3, <1>5 DEF PrInv

\* A step that changes the memory of the actual timer, but for the blocks
LEMMA MemoryStep ==
  ASSUME PrInv, pr_state = "runs", NEW b, timers' = [timers EXCEPT ![actual_node] = b],
         TimerOK(b), b.tag = timers[actual_node].tag, b.parent_timer = timers[actual_node].parent_timer,
         b.child_timers = timers[actual_node].child_timers,
         b.start_count = timers[actual_node].start_count,
         b.start_time = timers[actual_node].start_time,
         b.cumul_time = timers[actual_node].cumul_time,
         UNCHANGED <<actual_node, pr_frames, pr_clock, pr_started, pr_state>>
  PROVE  /\ TreeOK(timers') /\ TablesOK(timers') /\ TimesOK(timers', pr_clock')
         /\ actual_node' \in DOMAIN timers' /\ RunsOK' /\ StartsOK'
         /\ allocated_in(timers) \in Int
         /\ allocated_in(timers') = allocated_in(timers) + b.current_allocated
                                    - timers[actual_node].current_allocated
<1> DEFINE T == timers
           U == timers'
           a == actual_node
<1>1. /\ TreeOK(T) /\ a \in DOMAIN T /\ RunningIn(T) = PathIn(T, a) /\ FramesOK(T, pr_frames)
      /\ TimesOK(T, pr_clock) /\ pr_started \in Nat
  BY DEF PrInv, RunsOK, StartsOK
<1>2. /\ DOMAIN U = DOMAIN T /\ U = [n \in DOMAIN T |-> U[n]] /\ U[a] = b
      /\ \A n \in DOMAIN T : n # a => U[n] = T[n]
  BY <1>1
<1>3. \A n \in DOMAIN T : TimerOK(T[n])
  BY <1>1 DEF TreeOK
<1>4. ASSUME NEW n \in DOMAIN T
      PROVE  /\ TimerOK(U[n]) /\ U[n].tag = T[n].tag /\ U[n].parent_timer = T[n].parent_timer
             /\ U[n].child_timers = T[n].child_timers /\ U[n].start_count = T[n].start_count
             /\ TimeIn(U[n], pr_clock) = TimeIn(T[n], pr_clock)
  <2>1. CASE n = a
    BY <1>2, <2>1 DEF TimeIn
  <2>2. CASE n # a
    BY <1>2, <1>3, <2>2
  <2> QED BY <2>1, <2>2
<1>5. Revised(T, U) /\ KeepsTimes(T, U, pr_clock)
  BY <1>2, <1>4 DEF Revised, KeepsTimes
<1>6. TreeOK(U) /\ TablesOK(U) /\ \A n \in DOMAIN T : PathIn(U, n) = PathIn(T, n)
  BY <1>5, TreeKept
<1>7. TimesOK(U, pr_clock)
  BY <1>1, <1>5, RevisedTimes
<1>8. RunningIn(U) = RunningIn(T)
  BY <1>2, <1>4 DEF RunningIn
<1>9. FramesOK(U, pr_frames)
  BY <1>1, <1>5, <1>8, FramesKept
<1>10. RunsOK'
  BY <1>1, <1>6, <1>8, <1>9 DEF RunsOK
<1>11. StartsOK'
  <2>1. pr_started' \in Nat /\ pr_started' >= pr_started /\ pr_state' = "runs"
    BY <1>1
  <2> QED BY <1>5, <2>1, StartsKept
<1> DEFINE u == [n \in DOMAIN T |-> U[n].current_allocated]
           v == [n \in DOMAIN T |-> T[n].current_allocated]
           S == DOMAIN T
<1>12. IsFiniteSet(S) /\ a \in S
  BY <1>1, ChildrenFinite
<1>13. u \in [S -> Int] /\ v \in [S -> Int]
  <2>1. \A n \in S : U[n].current_allocated \in Int
    BY <1>4 DEF TimerOK
  <2>2. \A n \in S : T[n].current_allocated \in Int
    BY <1>3 DEF TimerOK
  <2> QED BY <2>1, <2>2
<1>14. \A n \in S \ {a} : u[n] = v[n]
  BY <1>2
<1>15. u[a] = b.current_allocated /\ v[a] = T[a].current_allocated
  BY <1>1, <1>2
<1>16. allocated_in(U) = sum_of(u) /\ allocated_in(T) = sum_of(v)
  BY <1>2 DEF allocated_in
<1> HIDE DEF u, v, S, T, U, a
<1>17. sum_of(u) - u[a] = sum_of(v) - v[a] /\ sum_of(u) \in Int /\ sum_of(v) \in Int
  BY <1>12, <1>13, <1>14, SumOfChanged
<1>18. u[a] \in Int /\ v[a] \in Int
  BY <1>12, <1>13
<1>19. sum_of(u) = sum_of(v) + u[a] - v[a]
  BY <1>17, <1>18
<1>20. /\ allocated_in(T) \in Int
       /\ allocated_in(U) = allocated_in(T) + b.current_allocated - T[a].current_allocated
  BY <1>15, <1>16, <1>17, <1>19
<1>21. TimesOK(timers', pr_clock') /\ actual_node' \in DOMAIN timers'
  BY <1>1, <1>2, <1>7 DEF T, U, a
<1> QED BY <1>6, <1>10, <1>11, <1>20, <1>21 DEF T, U, a

\* Both are a multiple of the word, or neither.
LEMMA CountedAfter ==
  ASSUME NEW s \in Int, NEW m \in Int, Multiple(s - m), NEW c \in Int, NEW d \in Int,
         NEW r, r = (c + d) % PrWord
  PROVE  Multiple((s + r - c) - (m + d))
<1> DEFINE x == c + d
<1>1. x \in Int /\ r = x % PrWord
  OBVIOUS
<1> HIDE DEF x
<1>2. r \in Int /\ Multiple(r - x)
  BY <1>1, WordIs
<1> DEFINE e == s - m
           f == r - x
<1>3. e \in Int /\ f \in Int /\ Multiple(e) /\ Multiple(f)
  BY <1>1, <1>2
<1>4. (s + r - c) - (m + d) = e + f
  BY <1>2 DEF x
<1> HIDE DEF e, f
<1>5. Multiple(e + f)
  BY <1>3, MultiplesAdd
<1> QED BY <1>4, <1>5

\* Blocks are finitely many.
LEMMA BlocksFinite ==
  ASSUME BlocksOK PROVE IsFiniteSet(DOMAIN malloc_map) /\ sum_of(malloc_map) \in Int
<1>1. pr_malloced \in Nat /\ DOMAIN malloc_map \subseteq 1 .. pr_malloced
      /\ malloc_map \in [DOMAIN malloc_map -> Int]
  BY DEF BlocksOK
<1>2. IsFiniteSet(1 .. pr_malloced)
  BY <1>1, FS_Interval
<1>3. IsFiniteSet(DOMAIN malloc_map)
  BY <1>1, <1>2, FS_Subset
<1> QED BY <1>1, <1>3, SumIsNumber

LEMMA MallocKeeps ==
  ASSUME PrInv, NEW size \in PrSizes, PrMalloc(size) PROVE PrInv'
<1> DEFINE t == timers[actual_node]
           r == (t.current_allocated + size) % PrWord
           b == [t EXCEPT !.total_allocated = @ + size, !.current_allocated = r,
                          !.max_allocated = IF r > @ THEN r ELSE @]
           k == pr_malloced + 1
           M == malloc_map
           N == malloc_map'
<1>1. /\ pr_state = "runs" /\ pr_malloced' = k
      /\ N = [x \in DOMAIN M \cup {k} |-> IF x = k THEN size ELSE M[x]]
      /\ timers' = [timers EXCEPT ![actual_node] = b]
      /\ UNCHANGED <<actual_node, pr_frames, pr_clock, pr_started, pr_state>>
  BY DEF PrMalloc
<1>2. /\ TreeOK(timers) /\ actual_node \in DOMAIN timers /\ BlocksOK /\ pr_malloced \in Nat
      /\ DOMAIN M \subseteq 1 .. pr_malloced /\ M \in [DOMAIN M -> Int] /\ pr_clock \in Int
      /\ Multiple(allocated_in(timers) - sum_of(M))
  BY <1>1 DEF PrInv, BlocksOK
<1>3. TimerOK(t) /\ t.current_allocated \in Int
  BY <1>2 DEF TreeOK, TimerOK
<1>4. size \in Int
  BY ProfilerInputsAssumption
<1>5. r \in Int
  <2> DEFINE x == t.current_allocated + size
  <2>1. x \in Int
    BY <1>3, <1>4
  <2> HIDE DEF x
  <2>2. x % PrWord \in Int
    BY <2>1, WordIs
  <2> QED BY <2>2 DEF x
<1>6. r = (t.current_allocated + size) % PrWord
  OBVIOUS
<1> HIDE DEF r, t
<1>7. /\ TimerOK(b) /\ b.tag = t.tag /\ b.parent_timer = t.parent_timer
      /\ b.child_timers = t.child_timers /\ b.start_count = t.start_count
      /\ b.start_time = t.start_time /\ b.cumul_time = t.cumul_time /\ b.current_allocated = r
  <2> DEFINE total == t.total_allocated + size
             most == IF r > t.max_allocated THEN r ELSE t.max_allocated
  <2>1. b = [t EXCEPT !.total_allocated = total, !.current_allocated = r, !.max_allocated = most]
    BY <1>3 DEF TimerOK, IsTimer
  <2> HIDE DEF total, most, b
  <2>2. b = [tag |-> t.tag, parent_timer |-> t.parent_timer, start_count |-> t.start_count,
             start_time |-> t.start_time, cumul_time |-> t.cumul_time,
             child_timers |-> t.child_timers, total_allocated |-> total,
             current_allocated |-> r, max_allocated |-> most]
    BY <1>3, <2>1 DEF TimerOK, IsTimer
  <2> QED BY <1>3, <1>5, <2>2 DEF TimerOK, IsTimer
<1> HIDE DEF b
<1>8. /\ TreeOK(timers') /\ TablesOK(timers') /\ TimesOK(timers', pr_clock')
      /\ actual_node' \in DOMAIN timers' /\ RunsOK' /\ StartsOK'
      /\ allocated_in(timers) \in Int
      /\ allocated_in(timers') = allocated_in(timers) + b.current_allocated - t.current_allocated
  BY <1>1, <1>7, MemoryStep DEF t
<1>9. k \in Nat /\ k \notin DOMAIN M /\ DOMAIN N = DOMAIN M \cup {k}
  BY <1>1, <1>2
<1>10. BlocksOK'
  <2>1. N \in [DOMAIN N -> Int]
    BY <1>1, <1>2, <1>4
  <2>2. DOMAIN N \subseteq 1 .. k
    BY <1>2, <1>9
  <2> QED BY <1>1, <1>2, <1>9, <2>1, <2>2 DEF BlocksOK
<1>11. sum_of(N) = sum_of(M) + size /\ sum_of(M) \in Int
  <2> DEFINE S == DOMAIN M \cup {k}
  <2>1. IsFiniteSet(DOMAIN M) /\ sum_of(M) \in Int
    BY <1>2, BlocksFinite
  <2>2. IsFiniteSet(S)
    BY <2>1, FS_AddElement
  <2>3. S \ {k} = DOMAIN M /\ k \in S
    BY <1>9
  <2>4. N \in [S -> Int] /\ N[k] = size
    BY <1>1, <1>2, <1>4
  <2>5. M \in [S \ {k} -> Int] /\ \A x \in S \ {k} : M[x] = N[x]
    BY <1>1, <1>2, <1>9, <2>3
  <2> HIDE DEF S, k, M, N
  <2>6. Extends1(N, M, S, k)
    BY <2>3, <2>4, <2>5 DEF Extends1
  <2>7. sum_of(N) = N[k] + sum_of(M)
    BY <2>2, <2>6, SumWithOneMore
  <2> QED BY <1>4, <2>1, <2>4, <2>7
<1>12. Multiple(allocated_in(timers') - sum_of(N))
  <2> DEFINE s == allocated_in(timers)
             m == sum_of(M)
             c == t.current_allocated
             s1 == allocated_in(timers')
  <2>1. /\ s \in Int /\ m \in Int /\ Multiple(s - m) /\ c \in Int /\ r = (c + size) % PrWord
        /\ s1 = s + r - c /\ sum_of(N) = m + size
    BY <1>2, <1>3, <1>6, <1>7, <1>8, <1>11
  <2> HIDE DEF s, m, c, s1, N
  <2>2. Multiple((s + r - c) - (m + size))
    BY <1>4, <2>1, CountedAfter
  <2>3. Multiple(s1 - sum_of(N))
    BY <2>1, <2>2
  <2> QED BY <2>3 DEF s1
<1> QED BY <1>1, <1>8, <1>10, <1>12 DEF PrInv

LEMMA FreeKeeps ==
  ASSUME PrInv, NEW block \in DOMAIN malloc_map, PrFree(block) PROVE PrInv'
<1> DEFINE t == timers[actual_node]
           M == malloc_map
           N == malloc_map'
           size == M[block]
           r == (t.current_allocated - size) % PrWord
           b == [t EXCEPT !.current_allocated = r]
<1>1. /\ pr_state = "runs" /\ N = [x \in DOMAIN M \ {block} |-> M[x]]
      /\ timers' = [timers EXCEPT ![actual_node].current_allocated = freed(@, size)]
      /\ UNCHANGED <<actual_node, pr_frames, pr_clock, pr_started, pr_malloced, pr_state>>
  BY DEF PrFree
<1>2. /\ TreeOK(timers) /\ actual_node \in DOMAIN timers /\ BlocksOK /\ pr_malloced \in Nat
      /\ DOMAIN M \subseteq 1 .. pr_malloced /\ M \in [DOMAIN M -> Int] /\ pr_clock \in Int
      /\ Multiple(allocated_in(timers) - sum_of(M))
  BY <1>1 DEF PrInv, BlocksOK
<1>3. TimerOK(t) /\ t.current_allocated \in Int
  BY <1>2 DEF TreeOK, TimerOK
<1>4. size \in Int
  BY <1>2
<1>5. timers' = [timers EXCEPT ![actual_node] = b]
  BY <1>1 DEF freed
<1>6. r = (t.current_allocated + (- size)) % PrWord /\ r \in Int
  <2> DEFINE x == t.current_allocated - size
  <2>1. x \in Int /\ x = t.current_allocated + (- size)
    BY <1>3, <1>4
  <2>2. r = x % PrWord
    OBVIOUS
  <2> HIDE DEF x, r
  <2>3. x % PrWord \in Int
    BY <2>1, WordIs
  <2> QED BY <2>1, <2>2, <2>3
<1> HIDE DEF r, t
<1>7. /\ TimerOK(b) /\ b.tag = t.tag /\ b.parent_timer = t.parent_timer
      /\ b.child_timers = t.child_timers /\ b.start_count = t.start_count
      /\ b.start_time = t.start_time /\ b.cumul_time = t.cumul_time /\ b.current_allocated = r
  <2>1. b = [tag |-> t.tag, parent_timer |-> t.parent_timer, start_count |-> t.start_count,
             start_time |-> t.start_time, cumul_time |-> t.cumul_time,
             child_timers |-> t.child_timers, total_allocated |-> t.total_allocated,
             current_allocated |-> r, max_allocated |-> t.max_allocated]
    BY <1>3 DEF TimerOK, IsTimer
  <2> HIDE DEF b
  <2> QED BY <1>3, <1>6, <2>1 DEF TimerOK, IsTimer
<1> HIDE DEF b
<1>8. /\ TreeOK(timers') /\ TablesOK(timers') /\ TimesOK(timers', pr_clock')
      /\ actual_node' \in DOMAIN timers' /\ RunsOK' /\ StartsOK'
      /\ allocated_in(timers) \in Int
      /\ allocated_in(timers') = allocated_in(timers) + b.current_allocated - t.current_allocated
  BY <1>1, <1>5, <1>7, MemoryStep DEF t
<1>9. BlocksOK'
  <2>1. N \in [DOMAIN N -> Int] /\ DOMAIN N \subseteq DOMAIN M
    BY <1>1, <1>2
  <2> QED BY <1>1, <1>2, <2>1 DEF BlocksOK
<1>10. sum_of(M) = size + sum_of(N) /\ sum_of(M) \in Int /\ sum_of(N) \in Int
  <2> DEFINE S == DOMAIN M
  <2>1. IsFiniteSet(S) /\ sum_of(M) \in Int /\ IsFiniteSet(S \ {block}) /\ block \in S
    BY <1>2, BlocksFinite, FS_Subset
  <2>2. M \in [S -> Int] /\ N \in [S \ {block} -> Int] /\ \A x \in S \ {block} : N[x] = M[x]
    BY <1>1, <1>2
  <2> HIDE DEF S, M, N
  <2>3. Extends1(M, N, S, block)
    BY <2>1, <2>2 DEF Extends1
  <2>4. sum_of(M) = M[block] + sum_of(N)
    BY <2>1, <2>3, SumWithOneMore
  <2>5. sum_of(N) \in Int
    BY <2>1, <2>2, SumIsNumber
  <2> QED BY <2>1, <2>4, <2>5
<1>11. Multiple(allocated_in(timers') - sum_of(N))
  <2> DEFINE s == allocated_in(timers)
             m == sum_of(M)
             c == t.current_allocated
             d == - size
             s1 == allocated_in(timers')
             m1 == sum_of(N)
  <2>1. /\ s \in Int /\ m \in Int /\ Multiple(s - m) /\ c \in Int /\ r = (c + d) % PrWord
        /\ s1 = s + r - c /\ m1 = m + d /\ d \in Int
    BY <1>2, <1>3, <1>4, <1>6, <1>7, <1>8, <1>10
  <2> HIDE DEF s, m, c, d, s1, m1
  <2>2. Multiple((s + r - c) - (m + d))
    BY <2>1, CountedAfter
  <2>3. Multiple(s1 - m1)
    BY <2>1, <2>2
  <2> QED BY <2>3 DEF s1, m1
<1> QED BY <1>1, <1>8, <1>9, <1>11 DEF PrInv

\* accept_from_child changes only what is reported.
LEMMA Propagated ==
  ASSUME TreeOK(timers), NEW m \in DOMAIN timers, NEW u, u = propagated[m]
  PROVE  /\ TimerOK(u) /\ u.tag = timers[m].tag /\ u.parent_timer = timers[m].parent_timer
         /\ u.child_timers = timers[m].child_timers /\ u.start_count = timers[m].start_count
         /\ m = 1 => u.current_allocated = allocated_in(timers) % PrWord
         /\ TimeIn(u, pr_clock) = TimeIn(timers[m], pr_clock)
         /\ allocated_in(timers) \in Int
<1> DEFINE t == timers[m]
           total == sum_of([n \in subtree(m) |-> timers[n].total_allocated])
           v == [n \in subtree(m) |-> timers[n].current_allocated]
           w == [n \in DOMAIN timers |-> timers[n].current_allocated]
           counted_now == sum_of(v) % PrWord
           peak == Max({timers[n].max_allocated : n \in subtree(m)})
<1>1. u = [t EXCEPT !.total_allocated = total, !.current_allocated = counted_now,
                    !.max_allocated = peak]
  BY DEF propagated
<1>2. TimerOK(t)
  BY DEF TreeOK
<1>3. /\ IsFiniteSet(DOMAIN timers) /\ subtree(m) \subseteq DOMAIN timers
      /\ v \in [subtree(m) -> Int] /\ w \in [DOMAIN timers -> Int]
  <2>1. \A n \in DOMAIN timers : timers[n].current_allocated \in Int
    BY DEF TreeOK, TimerOK
  <2>2. subtree(m) \subseteq DOMAIN timers
    BY DEF subtree
  <2>3. v \in [subtree(m) -> Int] /\ w \in [DOMAIN timers -> Int]
    BY <2>1, <2>2
  <2>4. IsFiniteSet(DOMAIN timers)
    BY ChildrenFinite
  <2> QED BY <2>2, <2>3, <2>4
<1>4. m = 1 => v = w
  <2> SUFFICES ASSUME m = 1 PROVE subtree(1) = DOMAIN timers
    OBVIOUS
  <2>1. \A a \in DOMAIN timers : path_of(a) = PathIn(timers, a)
    BY DEF path_of, PathIn, ClosedUp
  <2>2. \A a \in DOMAIN timers : 1 \in path_of(a)
    BY <2>1, PathBounds
  <2> QED BY <2>2 DEF subtree
<1>5. allocated_in(timers) = sum_of(w)
  BY DEF allocated_in
<1> HIDE DEF v, w
<1>6. sum_of(v) \in Int /\ sum_of(w) \in Int
  <2>1. IsFiniteSet(subtree(m))
    BY <1>3, FS_Subset
  <2> QED BY <1>3, <2>1, SumIsNumber
<1>7. counted_now \in Int
  <2> DEFINE x == sum_of(v)
  <2>1. x \in Int
    BY <1>6
  <2> HIDE DEF x
  <2>2. x % PrWord \in Int
    BY <2>1, WordIs
  <2> QED BY <2>2 DEF x
<1>8. m = 1 => counted_now = allocated_in(timers) % PrWord
  BY <1>4, <1>5
<1> HIDE DEF t, total, peak, counted_now
<1>9. u = [tag |-> t.tag, parent_timer |-> t.parent_timer, start_count |-> t.start_count,
           start_time |-> t.start_time, cumul_time |-> t.cumul_time, child_timers |-> t.child_timers,
           total_allocated |-> total, current_allocated |-> counted_now, max_allocated |-> peak]
  BY <1>1, <1>2 DEF TimerOK, IsTimer
<1>10. /\ TimerOK(u) /\ u.tag = t.tag /\ u.parent_timer = t.parent_timer
       /\ u.child_timers = t.child_timers /\ u.start_count = t.start_count
       /\ u.current_allocated = counted_now /\ TimeIn(u, pr_clock) = TimeIn(t, pr_clock)
  BY <1>2, <1>7, <1>9 DEF TimerOK, IsTimer, TimeIn
<1> QED BY <1>5, <1>6, <1>8, <1>10 DEF t

LEMMA ReportKeeps ==
  ASSUME PrInv, PrOutput PROVE PrInv'
<1> DEFINE T == timers
           U == timers'
           a == actual_node
           W == propagated
<1>1. /\ pr_state = "runs" /\ pr_frames = <<>>
      /\ pr_state' = IF running(T[1]) /\ a # 1 THEN "failed" ELSE "output"
      /\ U = IF pr_state' = "failed" THEN T
             ELSE [W EXCEPT ![1] = IF running(@) THEN stop(@, FALSE) ELSE @]
      /\ UNCHANGED <<actual_node, pr_frames, pr_clock, pr_started, pr_malloced, malloc_map>>
  BY DEF PrOutput
<1>2. /\ TreeOK(T) /\ a \in DOMAIN T /\ RunningIn(T) = PathIn(T, a) /\ FramesOK(T, pr_frames)
      /\ pr_clock \in Int /\ pr_started \in Nat /\ TimesOK(T, pr_clock)
  BY <1>1 DEF PrInv, RunsOK, BlocksOK, StartsOK
<1>3. a = 1
  <2>1. a \in RunningIn(T)
    BY <1>2, PathIs
  <2>2. DOMAIN pr_frames = {}
    BY <1>1
  <2> QED BY <1>2, <2>1, <2>2 DEF FramesOK
<1>4. pr_state' = "output" /\ U = [W EXCEPT ![1] = IF running(@) THEN stop(@, FALSE) ELSE @]
  BY <1>1, <1>3
<1>5. DOMAIN W = DOMAIN T /\ W = [n \in DOMAIN T |-> W[n]] /\ 1 \in DOMAIN T
  BY <1>2 DEF propagated, TreeOK
<1>6. ASSUME NEW n \in DOMAIN T
      PROVE  /\ TimerOK(W[n]) /\ W[n].tag = T[n].tag /\ W[n].parent_timer = T[n].parent_timer
             /\ W[n].child_timers = T[n].child_timers
             /\ n = 1 => W[n].current_allocated = allocated_in(T) % PrWord
             /\ TimeIn(W[n], pr_clock) = TimeIn(T[n], pr_clock)
  BY <1>2, Propagated
<1> HIDE DEF W
<1>7. DOMAIN U = DOMAIN T /\ U = [n \in DOMAIN T |-> U[n]]
      /\ U[1] = (IF running(W[1]) THEN stop(W[1], FALSE) ELSE W[1])
      /\ \A n \in DOMAIN T : n # 1 => U[n] = W[n]
  BY <1>4, <1>5
<1>8. ASSUME NEW n \in DOMAIN T
      PROVE  /\ TimerOK(U[n]) /\ U[n].tag = T[n].tag /\ U[n].parent_timer = T[n].parent_timer
             /\ U[n].child_timers = T[n].child_timers
             /\ n = 1 => U[n].current_allocated = allocated_in(T) % PrWord
             /\ TimeIn(U[n], pr_clock) = TimeIn(T[n], pr_clock)
  <2>1. CASE n = 1 /\ running(W[1])
    <3>1. TimerOK(W[n]) /\ W[n].start_count = 1
      BY <1>6, <2>1 DEF running, TimerOK
    <3>2. U[n] = stop(W[n], FALSE)
      BY <1>7, <2>1
    <3>3. /\ TimerOK(U[n]) /\ U[n].tag = W[n].tag /\ U[n].parent_timer = W[n].parent_timer
          /\ U[n].child_timers = W[n].child_timers
          /\ U[n].current_allocated = W[n].current_allocated
          /\ TimeIn(U[n], pr_clock) = TimeIn(W[n], pr_clock)
      BY <1>2, <3>1, <3>2, Stopped
    <3> QED BY <1>6, <3>3
  <2>2. CASE ~ (n = 1 /\ running(W[1]))
    <3>1. U[n] = W[n]
      BY <1>7, <2>2
    <3> QED BY <1>6, <3>1
  <2> QED BY <2>1, <2>2
<1>9. Revised(T, U) /\ KeepsTimes(T, U, pr_clock)
  BY <1>7, <1>8 DEF Revised, KeepsTimes
<1>10. TreeOK(U) /\ TablesOK(U)
  BY <1>9, TreeKept
<1>11. TimesOK(U, pr_clock)
  BY <1>2, <1>9, RevisedTimes
<1>12. StartsOK'
  <2>1. pr_started' \in Nat /\ pr_started' >= pr_started
    BY <1>1, <1>2
  <2> QED BY <1>4, <1>9, <2>1, StartsKept
<1>13. RunsOK' /\ BlocksOK' /\ actual_node' \in DOMAIN U
  BY <1>1, <1>2, <1>4, <1>7 DEF PrInv, RunsOK, BlocksOK
<1>14. Multiple(U[1].current_allocated - sum_of(malloc_map))
  <2> DEFINE x == allocated_in(T)
             m == sum_of(malloc_map)
             y == x % PrWord
  <2>1. x \in Int
    BY <1>2, <1>5, Propagated
  <2>2. m \in Int /\ Multiple(x - m)
    BY <1>1, BlocksFinite DEF PrInv
  <2>3. U[1].current_allocated = y
    BY <1>5, <1>8
  <2>4. y \in Int /\ Multiple(y - x)
    <3> HIDE DEF x
    <3> QED BY <2>1, WordIs
  <2> HIDE DEF x, m, y
  <2>5. y - x \in Int /\ x - m \in Int /\ (y - x) + (x - m) = y - m
    BY <2>1, <2>2, <2>4
  <2>6. Multiple((y - x) + (x - m))
    BY <2>2, <2>4, <2>5, MultiplesAdd
  <2> QED BY <2>3, <2>5, <2>6 DEF m
<1> QED BY <1>1, <1>4, <1>10, <1>11, <1>12, <1>13, <1>14 DEF PrInv

LEMMA ProfilerStarts == PrInit => PrInv
<1> SUFFICES ASSUME PrInit PROVE PrInv
  OBVIOUS
<1> DEFINE t == [new_timer(RootTag, 1) EXCEPT !.start_count = 1]
<1>1. /\ timers = <<t>> /\ actual_node = 1 /\ pr_frames = <<>> /\ pr_clock = 0 /\ pr_started = 0
      /\ pr_malloced = 0 /\ malloc_map = <<>> /\ pr_state = "runs"
  BY DEF PrInit
<1>2. /\ TimerOK(t) /\ t.tag = RootTag /\ t.parent_timer = 1 /\ t.start_count = 1
      /\ t.current_allocated = 0 /\ TimeIn(t, pr_clock) = 0
      /\ \A i \in Slots : t.child_timers[i] = timer_no_child
  <2> DEFINE s == new_timer(RootTag, 1)
  <2>1. /\ TimerOK(s) /\ s.tag = RootTag /\ s.parent_timer = 1 /\ s.start_count = 0
        /\ s.current_allocated = 0 /\ \A i \in Slots : s.child_timers[i] = timer_no_child
    BY NewTimer
  <2>2. s.start_time = 0 /\ s.cumul_time = 0
    BY DEF new_timer
  <2>3. t = [s EXCEPT !.start_count = 1]
    OBVIOUS
  <2> HIDE DEF s, t
  <2>4. t = [tag |-> s.tag, parent_timer |-> s.parent_timer, start_count |-> 1,
             start_time |-> s.start_time, cumul_time |-> s.cumul_time,
             child_timers |-> s.child_timers, total_allocated |-> s.total_allocated,
             current_allocated |-> s.current_allocated, max_allocated |-> s.max_allocated]
    BY <2>1, <2>3 DEF TimerOK, IsTimer
  <2>5. TimerOK(t)
    BY <2>1, <2>4 DEF TimerOK, IsTimer
  <2> QED BY <1>1, <2>1, <2>2, <2>4, <2>5 DEF TimeIn
<1> HIDE DEF t
<1>3. DOMAIN timers = 1 .. 1 /\ timers = [i \in 1 .. 1 |-> timers[i]] /\ timers[1] = t
  BY <1>1
<1>4. DOMAIN timers = {1} /\ Len(timers) = 1
  BY <1>1, <1>3
<1>5. TreeOK(timers)
  BY <1>2, <1>3, <1>4 DEF TreeOK
<1>6. TablesOK(timers)
  BY <1>2, <1>3, <1>4 DEF TablesOK
<1>7. TimesOK(timers, pr_clock)
  <2> DEFINE v == [c \in ChildrenIn(timers, 1) |-> TimeIn(timers[c], pr_clock)]
  <2>1. ChildrenIn(timers, 1) = {}
    BY <1>4 DEF ChildrenIn
  <2>2. DOMAIN v = {} /\ v = [r \in {} |-> v[r]]
    BY <2>1
  <2> HIDE DEF v
  <2>3. sum_of(v) = 0
    BY <2>2, SumOfNone
  <2>4. sum_of(v) <= TimeIn(timers[1], pr_clock)
    BY <1>2, <1>3, <2>3
  <2> QED BY <1>4, <2>4 DEF TimesOK, v
<1>8. RunsOK
  <2>1. RunningIn(timers) = {1}
    BY <1>2, <1>3, <1>4 DEF RunningIn
  <2>2. PathIn(timers, actual_node) = {1}
    BY <1>1, <1>5, PathOfRoot
  <2>3. pr_frames \in Seq(Nat) /\ DOMAIN pr_frames = {}
    BY <1>1
  <2>4. FramesOK(timers, pr_frames)
    BY <2>1, <2>3 DEF FramesOK
  <2> QED BY <2>1, <2>2, <2>4 DEF RunsOK
<1>9. StartsOK
  BY <1>1, <1>4 DEF StartsOK
<1>10. DOMAIN malloc_map = {} /\ malloc_map = [r \in {} |-> malloc_map[r]]
  BY <1>1
<1>11. BlocksOK
  <2>1. malloc_map \in [DOMAIN malloc_map -> Int]
    BY <1>10
  <2> QED BY <1>1, <1>10, <2>1 DEF BlocksOK
<1>12. Multiple(allocated_in(timers) - sum_of(malloc_map))
  <2>1. sum_of(malloc_map) = 0
    BY <1>10, SumOfNone
  <2> DEFINE v == [n \in DOMAIN timers |-> timers[n].current_allocated]
             w == [n \in {} |-> 0]
             S == {1}
  <2>2. v \in [S -> Int] /\ v[1] = 0 /\ w \in [S \ {1} -> Int] /\ IsFiniteSet(S)
    <3>1. v \in [S -> Int] /\ v[1] = 0
      BY <1>2, <1>3, <1>4
    <3>2. S \ {1} = {}
      OBVIOUS
    <3>3. IsFiniteSet(S)
      BY FS_Singleton
    <3> QED BY <3>1, <3>2, <3>3
  <2>3. sum_of(w) = 0
    <3>1. DOMAIN w = {} /\ w = [r \in {} |-> w[r]]
      OBVIOUS
    <3> HIDE DEF w
    <3> QED BY <3>1, SumOfNone
  <2>4. Extends1(v, w, S, 1)
    BY <2>2 DEF Extends1
  <2>5. allocated_in(timers) = sum_of(v)
    BY DEF allocated_in
  <2> HIDE DEF v, w, S
  <2>6. sum_of(v) = v[1] + sum_of(w)
    BY <2>2, <2>4, SumWithOneMore
  <2>7. allocated_in(timers) - sum_of(malloc_map) = 0
    BY <2>1, <2>2, <2>3, <2>5, <2>6
  <2>8. PrWord * 0 = 0
    BY ProfilerInputsAssumption
  <2> QED BY <2>7, <2>8 DEF Multiple
<1>13. actual_node \in DOMAIN timers
  BY <1>1, <1>4
<1> QED BY <1>1, <1>5, <1>6, <1>7, <1>8, <1>9, <1>11, <1>12, <1>13 DEF PrInv

LEMMA ProfilerSteps == PrInv /\ [PrNext]_pr_vars => PrInv'
<1> SUFFICES ASSUME PrInv, [PrNext]_pr_vars PROVE PrInv'
  OBVIOUS
<1>1. ASSUME NEW tag \in PrTags, PrStart(tag) PROVE PrInv'
  BY <1>1, StartFoundKeeps, StartNewKeeps, StartFails
<1>2. ASSUME NEW tag \in PrTags, PrEnd(tag) PROVE PrInv'
  BY <1>2, EndKeeps
<1>3. CASE PrBlockEnd
  BY <1>3, BlockEndKeeps
<1>4. CASE PrTick
  BY <1>4, TickKeeps
<1>5. CASE PrOutput
  BY <1>5, ReportKeeps
<1>6. ASSUME NEW size \in PrSizes, PrMalloc(size) PROVE PrInv'
  BY <1>6, MallocKeeps
<1>7. ASSUME NEW block \in DOMAIN malloc_map, PrFree(block) PROVE PrInv'
  BY <1>7, FreeKeeps
<1>8. CASE UNCHANGED pr_vars
  BY <1>8, NothingChanged DEF pr_vars, PrInv, RunsOK
<1> QED BY <1>1, <1>2, <1>3, <1>4, <1>5, <1>6, <1>7, <1>8 DEF PrNext, PrAtEnd

LEMMA InvTimersExact == PrInv => TimersExact
<1> SUFFICES ASSUME PrInv PROVE TimersExact
  OBVIOUS
<1>1. TreeOK(timers) /\ TablesOK(timers) /\ TimesOK(timers, pr_clock) /\ actual_node \in DOMAIN timers
  BY DEF PrInv
<1>2. RunningOnPath
  <2>1. {n \in DOMAIN timers : running(timers[n])} = RunningIn(timers)
    BY DEF running, RunningIn
  <2>2. pr_state = "runs" => RunningIn(timers) = PathIn(timers, actual_node)
    BY DEF PrInv, RunsOK
  <2>3. pr_state = "failed" => pr_started > max_n_childs
    BY DEF PrInv, StartsOK
  <2> QED BY <2>1, <2>2, <2>3, PathNow DEF RunningOnPath
<1>3. OneTimerPerTag
  <2> SUFFICES ASSUME NEW n \in DOMAIN timers, NEW x \in children(n), NEW y \in children(n),
                      timers[x].tag = timers[y].tag
               PROVE  x = y
    BY DEF OneTimerPerTag
  <2>1. \A m \in children(n) : m \in DOMAIN timers \ {1} /\ timers[m].parent_timer = n
    <3>1. n \in 1 .. Len(timers) /\ Len(timers) \in Nat
      BY <1>1, TreeNumbers
    <3>2. \A m \in children(n) : m \in DOMAIN timers /\ m > n /\ timers[m].parent_timer = n
      BY DEF children
    <3>3. \A m \in DOMAIN timers : m > n => m # 1
      BY <3>1
    <3> QED BY <3>2, <3>3
  <2>2. PICK j \in Slots : FoundAt(timers, n, x, j)
    BY <1>1, <2>1 DEF TablesOK
  <2>3. PICK k \in Slots : FoundAt(timers, n, y, k)
    BY <1>1, <2>1 DEF TablesOK
  <2> DEFINE tag == timers[x].tag
             c(i) == at_distance(timers, n, tag, i)
  <2>4. c(j) = x /\ \A i \in 0 .. j - 1 : timers[c(i)].tag # tag
    BY <2>2 DEF FoundAt
  <2>5. c(k) = y /\ \A i \in 0 .. k - 1 : timers[c(i)].tag # tag
    BY <2>3 DEF FoundAt
  <2>6. timers[x].tag = tag /\ timers[y].tag = tag
    OBVIOUS
  <2>7. j \in Nat /\ k \in Nat
    BY DEF Slots
  <2> HIDE DEF c, tag
  <2>8. ~ j < k
    <3> SUFFICES ASSUME j < k PROVE FALSE
      OBVIOUS
    <3>1. j \in 0 .. k - 1
      BY <2>7
    <3> QED BY <2>4, <2>5, <2>6, <3>1
  <2>9. ~ k < j
    <3> SUFFICES ASSUME k < j PROVE FALSE
      OBVIOUS
    <3>1. k \in 0 .. j - 1
      BY <2>7
    <3> QED BY <2>4, <2>5, <2>6, <3>1
  <2>10. j = k
    BY <2>7, <2>8, <2>9
  <2> QED BY <2>4, <2>5, <2>10
<1>4. ChildrenWithinParent
  <2>1. \A n : children(n) = ChildrenIn(timers, n)
    BY DEF children, ChildrenIn
  <2>2. \A t : time_of(t) = TimeIn(t, pr_clock)
    BY DEF time_of, TimeIn, running
  <2> SUFFICES ASSUME NEW n \in DOMAIN timers
               PROVE  sum_of([c \in children(n) |-> time_of(timers[c])]) <= time_of(timers[n])
    BY DEF ChildrenWithinParent
  <2>3. [c \in children(n) |-> time_of(timers[c])]
          = [c \in ChildrenIn(timers, n) |-> TimeIn(timers[c], pr_clock)]
    BY <2>1, <2>2
  <2>4. sum_of([c \in ChildrenIn(timers, n) |-> TimeIn(timers[c], pr_clock)])
          <= TimeIn(timers[n], pr_clock)
    BY <1>1 DEF TimesOK
  <2> QED BY <2>2, <2>3, <2>4
<1>5. MemoryCounted
  <2> DEFINE s == IF pr_state = "output" THEN timers[1].current_allocated ELSE allocated_in(timers)
             m == sum_of(malloc_map)
  <2>1. m \in Int
    BY BlocksFinite DEF PrInv
  <2>2. s \in Int
    <3>1. timers[1].current_allocated \in Int /\ 1 \in DOMAIN timers
      BY <1>1 DEF TreeOK, TimerOK
    <3>2. allocated_in(timers) \in Int
      BY <1>1, <3>1, Propagated
    <3> QED BY <3>1, <3>2
  <2>3. Multiple(s - m)
    BY DEF PrInv
  <2>4. MemoryCounted <=> (s - m) % PrWord = 0
    BY DEF MemoryCounted, allocated_in
  <2> HIDE DEF s, m
  <2>5. (s - m) % PrWord = 0
    BY <2>1, <2>2, <2>3, MultipleIs
  <2> QED BY <2>4, <2>5
<1> QED BY <1>2, <1>3, <1>4, <1>5 DEF TimersExact

\* Profiler: timers, tables, times and blocks agree with each other and with the frames.
THEOREM ProfilerInvariant == PrSpec => []PrInv
<1> QED BY ProfilerStarts, ProfilerSteps, PTL DEF PrSpec

\* Timers run along one path, a tag has one timer under each parent, children are within their
\* parents, and what is allocated is what all counters of memory are together, and after the
\* output what that of the root is.
THEOREM TimersAreExact == PrSpec => []TimersExact
<1> QED BY ProfilerInvariant, InvTimersExact, PTL

---------------------------------------------------------------------------
(* Balance *)

BalRecord ==
  [on : BOOLEAN, cumulative : BOOLEAN, initial : BOOLEAN, initial_mass : Int,
   increment_sources : [Ranks -> Int], increment_fluxes : Int,
   integrated_sources : Int, integrated_fluxes : Int, sum_masses : Int]

\* What the steps between two outputs leave alone
SameIntegrals(b, c) ==
  /\ c.on = b.on /\ c.cumulative = b.cumulative /\ c.initial = b.initial
  /\ c.initial_mass = b.initial_mass
  /\ c.integrated_sources = b.integrated_sources /\ c.integrated_fluxes = b.integrated_fluxes

with_increments(b, s, f) == [b EXCEPT !.increment_sources = s, !.increment_fluxes = f]

\* Increments that are set
LEMMA IncrementsSet ==
  ASSUME NEW b \in BalRecord, NEW s \in [Ranks -> Int], NEW f \in Int, NEW c,
         c = with_increments(b, s, f)
  PROVE  /\ c \in BalRecord /\ SameIntegrals(b, c)
         /\ c.increment_sources = s /\ c.increment_fluxes = f
<1>1. c \in BalRecord
  BY DEF BalRecord, with_increments
<1>2. SameIntegrals(b, c)
  BY DEF BalRecord, SameIntegrals, with_increments
<1>3. c.increment_sources = s /\ c.increment_fluxes = f
  BY DEF BalRecord, with_increments
<1> QED BY <1>1, <1>2, <1>3

\* A step adds to the increments what flowed in it, on whichever process.
LEMMA StepRecord ==
  ASSUME NEW b \in BalRecord, NEW tlevel \in Nat, tlevel > 0, NEW dt \in Nat,
         NEW src \in [Ranks -> Int], NEW out \in Int, NEW x \in Int, NEW c,
         c = add_cumulative_source(calculate_cumulative(b, tlevel, dt, src, out), x)
  PROVE  /\ c \in BalRecord /\ SameIntegrals(b, c) /\ sum_over(src) \in Int
         /\ b.cumulative =>
              /\ sum_over(c.increment_sources) =
                   sum_over(b.increment_sources) + (sum_over(src) * dt + x)
              /\ c.increment_fluxes = b.increment_fluxes - out * dt
<1>0. b.increment_sources \in [Ranks -> Int] /\ b.increment_fluxes \in Int /\ 0 \in Ranks
      /\ IsFiniteSet(Ranks)
  BY RanksAssumption DEF BalRecord
<1> DEFINE u == [r \in Ranks |-> b.increment_sources[r] + src[r] * dt]
           z == [r \in Ranks |-> IF r = 0 THEN x ELSE 0]
           w == [r \in Ranks |-> u[r] + z[r] * 1]
           d == calculate_cumulative(b, tlevel, dt, src, out)
<1>1. u \in [Ranks -> Int] /\ z \in [Ranks -> Int]
  BY <1>0
<1>2. /\ sum_over(src) \in Int /\ sum_over(b.increment_sources) \in Int
      /\ sum_over(u) = sum_over(b.increment_sources) + sum_over(src) * dt
  <2> DEFINE v == b.increment_sources
  <2>1. v \in [Ranks -> Int] /\ IsFiniteSet(Ranks) /\ dt \in Int
    BY <1>0
  <2> HIDE DEF v
  <2>2. /\ sum_over(src) \in Int /\ sum_over(v) \in Int
        /\ sum_over([r \in Ranks |-> v[r] + src[r] * dt]) = sum_over(v) + sum_over(src) * dt
    BY <2>1, SumOfCombination
  <2> QED BY <2>2 DEF v
<1>3. sum_over(z) = x
  BY <1>0, SumAtOnePlace
<1>4. sum_over(w) = sum_over(u) + sum_over(z) * 1 /\ sum_over(u) \in Int
  <2> HIDE DEF u, z
  <2> QED BY <1>0, <1>1, SumOfCombination
<1>5. CASE ~ b.cumulative
  <2>1. d = b
    BY <1>5 DEF calculate_cumulative
  <2>2. c = b
    BY <1>5, <2>1 DEF add_cumulative_source
  <2> QED BY <1>2, <1>5, <2>2 DEF SameIntegrals
<1>6. CASE b.cumulative
  <2>1. d = [b EXCEPT !.increment_sources = u, !.increment_fluxes = b.increment_fluxes - out * dt]
    BY <1>0, <1>6 DEF calculate_cumulative, BalRecord
  <2>2. b.increment_fluxes - out * dt \in Int
    BY <1>0
  <2> HIDE DEF u, d
  <2>3. d \in BalRecord /\ SameIntegrals(b, d) /\ d.increment_sources = u /\ d.cumulative
        /\ d.increment_fluxes = b.increment_fluxes - out * dt
    BY <1>1, <1>6, <2>1, <2>2 DEF BalRecord, SameIntegrals
  <2>4. c = [d EXCEPT !.increment_sources = [u EXCEPT ![0] = @ + x]]
    BY <2>3 DEF add_cumulative_source, d, BalRecord
  <2>5. [u EXCEPT ![0] = @ + x] = w
    <3>1. \A r \in Ranks : u[r] + z[r] * 1 = IF r = 0 THEN u[0] + x ELSE u[r]
      BY <1>0, <1>1
    <3>2. [u EXCEPT ![0] = @ + x] = [r \in Ranks |-> IF r = 0 THEN u[0] + x ELSE u[r]]
      BY <1>0, <1>1
    <3> QED BY <3>1, <3>2
  <2>6. w \in [Ranks -> Int]
    BY <1>1
  <2> HIDE DEF w
  <2>7. c \in BalRecord /\ SameIntegrals(d, c) /\ c.increment_sources = w
        /\ c.increment_fluxes = d.increment_fluxes
    BY <2>3, <2>4, <2>5, <2>6 DEF BalRecord, SameIntegrals
  <2>8. SameIntegrals(b, c)
    BY <2>3, <2>7 DEF SameIntegrals
  <2>9. sum_over(w) = sum_over(b.increment_sources) + (sum_over(src) * dt + x)
    <3> DEFINE p == sum_over(src) * dt
    <3>1. p \in Int
      BY <1>2
    <3> HIDE DEF p
    <3>2. sum_over(u) = sum_over(b.increment_sources) + p
      BY <1>2 DEF p
    <3>3. sum_over(w) = sum_over(b.increment_sources) + (p + x)
      BY <1>2, <1>3, <1>4, <3>1, <3>2
    <3> QED BY <3>3 DEF p
  <2> QED BY <1>2, <2>3, <2>7, <2>8, <2>9
<1> QED BY <1>5, <1>6 DEF BalRecord

\* An output moves all increments to the integrals, and the first one saves the mass.
LEMMA OutputRecord ==
  ASSUME NEW b \in BalRecord, NEW c, c = output(b)
  PROVE  /\ c \in BalRecord /\ c.on = b.on /\ c.cumulative = b.cumulative
         /\ b.cumulative =>
              /\ ~ c.initial
              /\ c.initial_mass = IF b.initial THEN b.sum_masses ELSE b.initial_mass
              /\ sum_over(c.increment_sources) = 0 /\ c.increment_fluxes = 0
              /\ c.integrated_sources = b.integrated_sources + sum_over(b.increment_sources)
              /\ c.integrated_fluxes = b.integrated_fluxes + b.increment_fluxes
              /\ report(b) = [sources |-> c.integrated_sources, fluxes |-> c.integrated_fluxes,
                              error |-> b.sum_masses
                                        - (c.initial_mass + c.integrated_sources + c.integrated_fluxes),
                              legacy_error |-> c.initial_mass + c.integrated_sources
                                               - c.integrated_fluxes - b.sum_masses]
<1> DEFINE S == sum_over(b.increment_sources)
           none == [r \in Ranks |-> 0]
           g == gathered(b)
           i == integrate(g)
<1>0. b.increment_sources \in [Ranks -> Int] /\ 0 \in Ranks /\ IsFiniteSet(Ranks)
  BY RanksAssumption DEF BalRecord
<1>1. S \in Int
  BY <1>0, SumOfCombination
<1>2. sum_over(none) = 0 /\ none \in [Ranks -> Int]
  <2>1. sum_over([r \in Ranks |-> IF r = 0 THEN 0 ELSE 0]) = 0
    <3>1. ASSUME NEW z \in Ranks, NEW x \in Int
          PROVE  sum_over([r \in Ranks |-> IF r = z THEN x ELSE 0]) = x
      <4>1. IsFiniteSet(Ranks)
        BY <1>0
      <4> QED BY <4>1, SumAtOnePlace
    <3> HIDE DEF none
    <3> QED BY <1>0, <3>1
  <2>2. none = [r \in Ranks |-> IF r = 0 THEN 0 ELSE 0]
    OBVIOUS
  <2> HIDE DEF none
  <2>3. sum_over(none) = 0
    BY <2>1, <2>2
  <2> QED BY <2>3 DEF none
<1>3. /\ g \in BalRecord /\ g.increment_sources[0] = S /\ SameIntegrals(b, g)
      /\ g.increment_fluxes = b.increment_fluxes /\ g.sum_masses = b.sum_masses
  <2> DEFINE v == [b.increment_sources EXCEPT ![0] = S]
  <2>1. g = [b EXCEPT !.increment_sources = v]
    BY DEF gathered, BalRecord
  <2> HIDE DEF S
  <2>2. v \in [Ranks -> Int] /\ v[0] = S
    BY <1>0, <1>1
  <2> HIDE DEF v, g
  <2> QED BY <2>1, <2>2 DEF BalRecord, SameIntegrals
<1> HIDE DEF g, none, S
<1>4. c = with_increments(i, none, 0)
  BY DEF output, cleared, none, g, with_increments
<1>5. CASE ~ b.cumulative
  <2>1. i = g
    BY <1>3, <1>5 DEF integrate, SameIntegrals
  <2>2. c = with_increments(g, none, 0)
    BY <1>4, <2>1
  <2>3. c \in BalRecord /\ c.on = g.on /\ c.cumulative = g.cumulative
    <3>1. g \in BalRecord /\ none \in [Ranks -> Int] /\ 0 \in Int
      BY <1>2, <1>3
    <3>2. c \in BalRecord /\ SameIntegrals(g, c)
      BY <2>2, <3>1, IncrementsSet
    <3> QED BY <3>2 DEF SameIntegrals
  <2>4. g.on = b.on /\ g.cumulative = b.cumulative
    BY <1>3 DEF SameIntegrals
  <2> QED BY <1>5, <2>3, <2>4
<1>6. CASE b.cumulative
  <2> DEFINE m == IF b.initial THEN b.sum_masses ELSE b.initial_mass
             s == b.integrated_sources + S
             f == b.integrated_fluxes + b.increment_fluxes
  <2>1. m \in Int /\ s \in Int /\ f \in Int
    BY <1>1 DEF BalRecord
  <2>2. i = [g EXCEPT !.initial_mass = m, !.initial = FALSE,
                      !.integrated_fluxes = f, !.integrated_sources = s]
    BY <1>3, <1>6 DEF integrate, SameIntegrals, BalRecord
  <2> HIDE DEF m, s, f, i
  <2>3. i \in BalRecord /\ ~ i.initial /\ i.initial_mass = m /\ i.integrated_fluxes = f
        /\ i.integrated_sources = s /\ i.on = b.on /\ i.cumulative = b.cumulative
        /\ i.sum_masses = b.sum_masses
    BY <1>3, <2>1, <2>2 DEF BalRecord, SameIntegrals
  <2>4. /\ c \in BalRecord /\ ~ c.initial /\ c.initial_mass = m /\ c.integrated_fluxes = f
        /\ c.integrated_sources = s /\ c.on = b.on /\ c.cumulative = b.cumulative
        /\ c.increment_sources = none /\ c.increment_fluxes = 0
    <3>1. i \in BalRecord /\ none \in [Ranks -> Int] /\ 0 \in Int
      BY <1>2, <2>3
    <3>2. /\ c \in BalRecord /\ SameIntegrals(i, c)
          /\ c.increment_sources = none /\ c.increment_fluxes = 0
      BY <1>4, <3>1, IncrementsSet
    <3> QED BY <2>3, <3>2 DEF SameIntegrals
  <2>5. report(b) = [sources |-> i.integrated_sources, fluxes |-> i.integrated_fluxes,
                     error |-> i.sum_masses
                               - (i.initial_mass + i.integrated_sources + i.integrated_fluxes),
                     legacy_error |-> i.initial_mass + i.integrated_sources
                                      - i.integrated_fluxes - i.sum_masses]
    BY DEF report, i, g
  <2> QED BY <1>2, <2>3, <2>4, <2>5 DEF m, s, f, S
<1> QED BY <1>5, <1>6 DEF BalRecord

\* add_all() adds a mark for each of its times.
LEMMA AddAllKeeps ==
  ASSUME NEW ms, MarkList(ms), NEW T, IsFiniteSet(T), \A t \in T : Finite(t),
         NEW types, types \subseteq BaseTypes
  PROVE  /\ MarkList(add_all(ms, T, types)) /\ Extends(ms, add_all(ms, T, types))
         /\ \A t \in T : Kept(add_all(ms, T, types), t, types)
<1> DEFINE H == {x \in Seq(Mark) : MarkList(x)}
           take == [t \in T |-> [x \in H |-> add(x, t, types)]]
           Loop(f) == f = [s \in SUBSET T |-> IF s = {} THEN ms ELSE add(f[s \ {pick(s)}], pick(s), types)]
           g == CHOOSE f : Loop(f)
<1>1. \A x : MarkList(x) <=> x \in H
  BY DEF MarkList
<1>2. ASSUME NEW x, MarkList(x), NEW t \in T
      PROVE  /\ MarkList(add(x, t, types)) /\ Extends(x, add(x, t, types))
             /\ Kept(add(x, t, types), t, types)
  BY <1>2, AddKeeps
<1> HIDE DEF H
<1>3. take \in [T -> [H -> H]] /\ ms \in H
  BY <1>1, <1>2
<1>4. PICK f : FoldsOver(f, T, H, ms, take)
  <2> HIDE DEF take
  <2> QED BY <1>3, FoldHasValues
<1>5. f \in [SUBSET T -> H]
  BY <1>4 DEF FoldsOver
<1>6. ASSUME NEW s \in SUBSET T
      PROVE  f[s] = IF s = {} THEN ms ELSE add(f[s \ {pick(s)}], pick(s), types)
  <2>1. f[s] = IF s = {} THEN ms ELSE take[pick(s)][f[s \ {pick(s)}]]
    BY <1>4 DEF FoldsOver
  <2>2. s # {} => pick(s) \in T /\ f[s \ {pick(s)}] \in H
    BY <1>5, WithoutPicked
  <2> QED BY <2>1, <2>2
<1>7. Loop(f)
  BY <1>5, <1>6
<1>8. Loop(g)
  <2> HIDE DEF Loop
  <2> QED BY <1>7, Zenon
<1>9. add_all(ms, T, types) = g[T]
  BY DEF add_all, FoldSet, MapThenFoldSet, pick
<1> HIDE DEF g
<1>10. \A s \in SUBSET T : g[s] = IF s = {} THEN ms ELSE add(g[s \ {pick(s)}], pick(s), types)
  BY <1>8
<1> DEFINE Good(s) == /\ MarkList(g[s]) /\ Extends(ms, g[s])
                      /\ \A t \in s : Kept(g[s], t, types)
           P == {s \in SUBSET T : Good(s)}
<1>11. {} \in P
  <2>1. g[{}] = ms
    BY <1>10
  <2>2. Extends(ms, ms)
    BY DEF Extends
  <2> QED BY <2>1, <2>2
<1>12. ASSUME NEW s \in SUBSET T, s # {}, s \ {pick(s)} \in P PROVE s \in P
  <2> DEFINE x == pick(s)
             r == s \ {x}
  <2>1. x \in T /\ x \in s /\ Good(r)
    BY <1>12, WithoutPicked
  <2>2. g[s] = add(g[r], x, types)
    BY <1>10, <1>12
  <2>3. \A t \in s : t = x \/ t \in r
    OBVIOUS
  <2> HIDE DEF x, r
  <2>4. MarkList(g[s]) /\ Extends(g[r], g[s]) /\ Kept(g[s], x, types)
    BY <1>2, <2>1, <2>2
  <2>5. Extends(ms, g[s])
    BY <2>1, <2>4, ExtendsTrans
  <2>6. \A t \in s : Kept(g[s], t, types)
    BY <2>1, <2>3, <2>4, KeptByMore
  <2> QED BY <2>4, <2>5, <2>6
<1>13. T \in P
  <2> HIDE DEF P
  <2> QED BY <1>11, <1>12, PickInduction
<1>14. Good(T)
  BY <1>13
<1> QED BY <1>9, <1>14

\* A mark at the end of the step is current.
LEMMA MarkIsCurrent ==
  ASSUME Tol = 0, NEW ms, MarkList(ms), NEW mask, mask \subseteq BaseTypes,
         NEW p \in [end : Nat, length : Nat], p.length > 0, p.end + p.length < Inf,
         NEW k \in 1 .. Len(ms), ms[k].time = p.end, match_mask(ms[k], mask)
  PROVE  current(ms, p, mask) # end(ms)
<1> DEFINE t == p.end
           d == p.length
           l == last(ms, p, mask)
<1>1. t \in Nat /\ d \in Nat /\ d > 0 /\ t + d < Inf /\ Inf \in Nat /\ Prec \in Nat /\ Prec > 0
  BY ToleranceAssumption
<1>2. /\ l \in 1 .. Len(ms) /\ ge(t, ms[l].time)
      /\ \A i \in 1 .. Len(ms) : match_mask(ms[i], mask) => (i <= l <=> ge(t, ms[i].time))
  <2>1. p.end \in Int /\ p.length \in Nat /\ -Inf < p.end /\ p.end + p.length + Tol < Inf
        /\ Tol < p.length \div 100 + Prec
    <3>1. d \div 100 \in Nat
      BY <1>1
    <3>2. 0 < d \div 100 + Prec
      BY <1>1, <3>1
    <3>3. t \in Int /\ -Inf < t /\ t + d + 0 < Inf
      BY <1>1
    <3> QED BY <1>1, <3>2, <3>3
  <2> QED BY <2>1, LastIs
<1> HIDE DEF l
<1>3. /\ Len(ms) \in Nat /\ ms[Len(ms)].time = Inf
      /\ \A i \in 1 .. Len(ms) : ms[i].time \in Int
      /\ \A i, j \in 1 .. Len(ms) : i <= j => ms[i].time <= ms[j].time
  BY MarkListType
<1>4. ms[k].time = t
  OBVIOUS
<1> HIDE DEF t, d
<1>5. \A x \in Int : ge(t, x) <=> x <= t
  BY <1>1 DEF ge
<1>6. k <= l
  BY <1>1, <1>2, <1>3, <1>4, <1>5
<1>7. ms[l].time = t
  <2>1. ms[k].time <= ms[l].time /\ ms[l].time <= t
    BY <1>2, <1>3, <1>5, <1>6
  <2> QED BY <1>1, <1>2, <1>3, <1>4, <2>1
<1>8. l # Len(ms)
  BY <1>1, <1>3, <1>7
<1>9. contains(p, t)
  <2>1. ge(t, t) /\ lt(t, t + d)
    BY <1>1 DEF ge, lt
  <2> QED BY <2>1 DEF contains, t, d
<1>10. current(ms, p, mask) = l
  BY <1>7, <1>9 DEF current, l
<1> QED BY <1>8, <1>10 DEF end

\* The input of a balance has finite times, and they are compared exactly.
BalanceTimesExact ==
  /\ Tol = 0 /\ {"fixed", "balance", "output"} \subseteq BaseTypes
  /\ Finite(0) /\ Finite(BalEndTime) /\ 1 < Inf
  /\ \A dt \in BalDts["splitting"] \cup BalDts["dg"] : BalEndTime + (dt + dt) < Inf
  /\ \A in \in BalInputs : \A t \in in.times \cup in.output_times : Finite(t)

Report == [sources : Int, fluxes : Int, error : Int, legacy_error : Int]

BalTypeOK ==
  /\ balance \in BalRecord /\ MarkList(bal_marks)
  /\ bal_step \in [end : Nat, length : Nat] /\ bal_step.length > 0
  /\ bal_step.end + bal_step.length < Inf
  /\ bal_tlevel \in Nat /\ bal_mass \in Int /\ bal_ret_prev \in Int
  /\ bal_pc \in {"read", "output", "step"} /\ bal_model \in {"splitting", "dg"}
  /\ bal_total \in [sources : Int, fluxes : Int]
  /\ bal_began \in Int /\ bal_excess \in Int /\ bal_unit \in BOOLEAN
  /\ bal_last_report \in Report

\* Nothing has flowed before the first step.
AtStart ==
  /\ bal_pc = "read" => bal_tlevel = 0 /\ ~ balance.cumulative
  /\ bal_tlevel = 0 => /\ bal_step = [end |-> 0, length |-> 1]
                       /\ bal_total = [sources |-> 0, fluxes |-> 0]
                       /\ bal_mass = bal_began /\ bal_ret_prev = 0
                       /\ bal_excess = 0 /\ bal_unit

\* A balance that cumulates is on.
CumulativeOn == balance.cumulative => balance.on

\* What the equation conserves: the mass changed by what flowed.
MassConserved == bal_mass = bal_began + (bal_total.sources + bal_total.fluxes)

\* ret_sources_prev is minus what is sorbed, once the implicit transport has made a step.
SorbedBooked ==
  bal_model = "dg" /\ balance.cumulative /\ bal_tlevel > 0 =>
    bal_ret_prev = -BalRetardation * bal_mass

BalInv == BalTypeOK /\ AtStart /\ CumulativeOn /\ MassConserved /\ SorbedBooked /\ FlowsAccounted

\* The record of a new balance
LEMMA NewBalance ==
  ASSUME NEW c \in BOOLEAN, NEW b, b = new_balance(c)
  PROVE  /\ b \in BalRecord /\ b.on /\ b.cumulative = c /\ b.initial
         /\ sum_over(b.increment_sources) = 0 /\ b.increment_fluxes = 0
         /\ b.integrated_sources = 0 /\ b.integrated_fluxes = 0
<1> DEFINE none == [r \in Ranks |-> 0]
<1>0. 0 \in Ranks /\ IsFiniteSet(Ranks)
  BY RanksAssumption
<1>1. sum_over(none) = 0
  <2>1. sum_over([r \in Ranks |-> IF r = 0 THEN 0 ELSE 0]) = 0
    <3>1. ASSUME NEW z \in Ranks, NEW x \in Int
          PROVE  sum_over([r \in Ranks |-> IF r = z THEN x ELSE 0]) = x
      <4>1. IsFiniteSet(Ranks)
        BY <1>0
      <4> QED BY <4>1, SumAtOnePlace
    <3> HIDE DEF none
    <3> QED BY <1>0, <3>1
  <2>2. none = [r \in Ranks |-> IF r = 0 THEN 0 ELSE 0]
    OBVIOUS
  <2> HIDE DEF none
  <2>3. sum_over(none) = 0
    BY <2>1, <2>2
  <2> QED BY <2>3 DEF none
<1>2. none \in [Ranks -> Int]
  OBVIOUS
<1>3. b.increment_sources = none
  BY DEF new_balance
<1> HIDE DEF none
<1>4. b = [on |-> TRUE, cumulative |-> c, initial |-> TRUE, initial_mass |-> 0,
           increment_sources |-> none, increment_fluxes |-> 0,
           integrated_sources |-> 0, integrated_fluxes |-> 0, sum_masses |-> 0]
  BY DEF new_balance, none
<1>5. b \in BalRecord
  BY <1>2, <1>4 DEF BalRecord
<1> QED BY <1>1, <1>3, <1>4, <1>5

LEMMA BalanceStarts ==
  ASSUME BalanceTimesExact, BalInit PROVE BalInv
<1>1. /\ balance \in BalRecord /\ ~ balance.cumulative
  BY NewBalance DEF BalInit
<1>2. MarkList(bal_marks)
  BY StoppersList DEF BalInit
<1>3. BalTypeOK
  <2>1. bal_step = [end |-> 0, length |-> 1] /\ 1 < Inf
    BY DEF BalInit, BalanceTimesExact
  <2>2. bal_step \in [end : Nat, length : Nat] /\ bal_step.length > 0
        /\ bal_step.end + bal_step.length < Inf
    BY <2>1
  <2>3. bal_tlevel \in Nat /\ bal_mass \in Int /\ bal_ret_prev \in Int
    BY DEF BalInit
  <2>4. bal_pc \in {"read", "output", "step"} /\ bal_model \in {"splitting", "dg"}
    BY DEF BalInit
  <2>5. bal_total \in [sources : Int, fluxes : Int]
        /\ bal_began \in Int /\ bal_excess \in Int /\ bal_unit \in BOOLEAN
    BY DEF BalInit
  <2>6. bal_last_report \in Report
    BY DEF BalInit, Report
  <2> QED BY <1>1, <1>2, <2>2, <2>3, <2>4, <2>5, <2>6 DEF BalTypeOK
<1>4. AtStart
  BY <1>1 DEF BalInit, AtStart
<1>5. CumulativeOn /\ IncrementsConserved /\ ReportsAtMarks /\ SorbedBooked
  BY <1>1 DEF CumulativeOn, IncrementsConserved, ReportsAtMarks, SorbedBooked
<1>6. MassConserved /\ SorptionBooked
  BY DEF BalInit, MassConserved, SorptionBooked
<1> QED BY <1>3, <1>4, <1>5, <1>6 DEF BalInv, FlowsAccounted

\* The marks of an input
LEMMA InputMarks ==
  ASSUME BalanceTimesExact, NEW in \in BalInputs
  PROVE  MarkList(balance_marks(input_marks(in), in))
<1> DEFINE m1 == add_all(stoppers, {0, BalEndTime}, {"fixed"})
           m2 == input_marks(in)
           m3 == add_all(m2, in.times, balance_type \cup {"output"})
<1>1. /\ {"fixed", "balance", "output"} \subseteq BaseTypes /\ Finite(0) /\ Finite(BalEndTime)
      /\ \A t \in in.times \cup in.output_times : Finite(t)
      /\ IsFiniteSet(in.times) /\ IsFiniteSet(in.output_times)
  BY BalanceInputsAssumption DEF BalanceTimesExact
<1>2. MarkList(m1)
  <2> DEFINE T == {0, BalEndTime}
  <2>1. IsFiniteSet(T) /\ \A t \in T : Finite(t)
    <3>1. IsFiniteSet({0})
      BY FS_Singleton
    <3>2. IsFiniteSet({0} \cup {BalEndTime})
      BY <3>1, FS_AddElement
    <3>3. T = {0} \cup {BalEndTime}
      OBVIOUS
    <3> HIDE DEF T
    <3>4. IsFiniteSet(T)
      BY <3>2, <3>3
    <3>5. \A t \in T : t = 0 \/ t = BalEndTime
      BY <3>3
    <3> QED BY <1>1, <3>4, <3>5
  <2> HIDE DEF T
  <2>2. MarkList(stoppers) /\ {"fixed"} \subseteq BaseTypes
    BY <1>1, StoppersList
  <2>3. MarkList(add_all(stoppers, T, {"fixed"}))
    BY <2>1, <2>2, AddAllKeeps
  <2> QED BY <2>3 DEF T
<1> HIDE DEF m1
<1>3. MarkList(m2)
  <2>1. m2 = add_all(m1, in.output_times, {"fixed", "output"})
    BY DEF input_marks, m1
  <2>2. {"fixed", "output"} \subseteq BaseTypes
    BY <1>1
  <2> QED BY <1>1, <1>2, <2>1, <2>2, AddAllKeeps
<1> HIDE DEF m2
<1>4. MarkList(m3)
  <2>1. balance_type \cup {"output"} \subseteq BaseTypes
    BY <1>1 DEF balance_type
  <2> QED BY <1>1, <1>3, <2>1, AddAllKeeps
<1>5. balance_marks(m2, in) =
        IF in.add_output_times THEN add_to_type_all(m3, {"output"}, balance_type) ELSE m3
  BY DEF balance_marks
<1> HIDE DEF m3
<1>6. balance_type \subseteq BaseTypes
  BY <1>1 DEF balance_type
<1>7. MarkList(add_to_type_all(m3, {"output"}, balance_type))
  BY <1>4, <1>6, AddToAllKeeps
<1> QED BY <1>4, <1>5, <1>7 DEF m2

\* The construction of an equation: nothing has flowed, and nothing is booked.
LEMMA BalReadKeeps ==
  ASSUME BalanceTimesExact, BalInv, NEW in \in BalInputs, BalRead(in) PROVE BalInv'
<1> DEFINE ms == balance_marks(input_marks(in), in)
<1>1. /\ bal_pc = "read" /\ bal_marks' = ms /\ bal_model' = in.model
      /\ bal_mass' = in.initial_mass /\ bal_began' = in.initial_mass /\ bal_pc' = "output"
      /\ balance' = IF no_marks(ms) THEN [new_balance(FALSE) EXCEPT !.on = FALSE]
                    ELSE new_balance(in.cumulative)
      /\ UNCHANGED <<bal_step, bal_tlevel, bal_ret_prev, bal_total, bal_excess, bal_unit,
                     bal_last_report>>
  BY DEF BalRead
<1>2. MarkList(ms)
  BY InputMarks
<1> HIDE DEF ms
<1>3. ~ no_marks(ms)
  <2> DEFINE n == Len(ms)
  <2>1. n >= 2 /\ n \in Nat
    BY <1>2, MarkListType
  <2>2. no_marks(ms) <=> 1 = n
    BY DEF no_marks, begin, end
  <2> HIDE DEF n
  <2>3. 1 # n
    BY <2>1
  <2> QED BY <2>2, <2>3
<1>4. in.cumulative \in BOOLEAN /\ in.model \in {"splitting", "dg"} /\ in.initial_mass \in Int
  BY BalanceInputsAssumption
<1>5. balance' = new_balance(in.cumulative)
  BY <1>1, <1>3
<1>6. /\ balance' \in BalRecord /\ balance'.on /\ balance'.cumulative = in.cumulative
      /\ balance'.initial /\ sum_over(balance'.increment_sources) = 0
      /\ balance'.increment_fluxes = 0
      /\ balance'.integrated_sources = 0 /\ balance'.integrated_fluxes = 0
  BY <1>4, <1>5, NewBalance
<1>7. /\ bal_tlevel = 0 /\ bal_ret_prev = 0 /\ bal_step = [end |-> 0, length |-> 1]
      /\ bal_total = [sources |-> 0, fluxes |-> 0] /\ bal_excess = 0 /\ bal_unit
  BY <1>1 DEF BalInv, AtStart
<1>8. BalTypeOK'
  <2>1. BalTypeOK
    BY DEF BalInv
  <2>2. bal_step' \in [end : Nat, length : Nat] /\ bal_step'.length > 0
        /\ bal_step'.end + bal_step'.length < Inf
    BY <1>1, <2>1 DEF BalTypeOK
  <2>3. bal_tlevel' \in Nat /\ bal_mass' \in Int /\ bal_ret_prev' \in Int
    BY <1>1, <1>4, <2>1 DEF BalTypeOK
  <2>4. bal_pc' \in {"read", "output", "step"} /\ bal_model' \in {"splitting", "dg"}
    BY <1>1, <1>4
  <2>5. bal_total' \in [sources : Int, fluxes : Int] /\ bal_last_report' \in Report
        /\ bal_began' \in Int /\ bal_excess' \in Int /\ bal_unit' \in BOOLEAN
    BY <1>1, <1>4, <2>1 DEF BalTypeOK
  <2> QED BY <1>1, <1>2, <1>6, <2>2, <2>3, <2>4, <2>5 DEF BalTypeOK
<1>9. AtStart' /\ CumulativeOn'
  BY <1>1, <1>6, <1>7 DEF AtStart, CumulativeOn
<1>10. MassConserved'
  <2>1. bal_total'.sources = 0 /\ bal_total'.fluxes = 0
    BY <1>1, <1>7
  <2> QED BY <1>1, <1>4, <2>1 DEF MassConserved
<1>11. SorbedBooked' /\ ReportsAtMarks'
  BY <1>1, <1>7 DEF SorbedBooked, ReportsAtMarks
<1>12. IncrementsConserved'
  <2>1. bal_total'.sources = 0 /\ bal_total'.fluxes = 0 /\ bal_excess' = 0
    BY <1>1, <1>7
  <2> QED BY <1>6, <2>1 DEF IncrementsConserved
<1>13. SorptionBooked'
  BY <1>1, <1>7 DEF SorptionBooked
<1> QED BY <1>8, <1>9, <1>10, <1>11, <1>12, <1>13 DEF BalInv, FlowsAccounted

\* A step of either model: what flows in it and what is booked by another way than the sources
\* of the processes, x, goes to the increments, and the mass changes by what flows and by y.
LEMMA StepAccounts ==
  ASSUME BalanceTimesExact, BalInv,
         NEW dt \in BalDts["splitting"] \cup BalDts["dg"], NEW src \in [Ranks -> Int],
         NEW out \in Int, NEW x \in Int, NEW y \in Int,
         NEW flown \in Int, flown = sum_over(src) * dt,
         bal_may_step, bal_next_step(dt),
         balance' = add_cumulative_source(calculate_cumulative(balance, bal_tlevel', dt, src, out), x),
         bal_total'.sources = bal_total.sources + (flown + y),
         bal_total'.fluxes = bal_total.fluxes - out * dt,
         bal_total' \in [sources : Int, fluxes : Int], bal_excess' = bal_excess + (x - y),
         bal_mass' = bal_mass + (flown + y - out * dt), bal_ret_prev' \in Int,
         bal_pc' \in {"output", "step"}, bal_pc' = "step" => ~ at_fixed_mark(bal_step'.end),
         UNCHANGED <<bal_marks, bal_model, bal_began, bal_last_report>>
  PROVE  /\ BalTypeOK' /\ AtStart' /\ CumulativeOn' /\ MassConserved'
         /\ IncrementsConserved' /\ ReportsAtMarks' /\ bal_tlevel' > 0
         /\ balance'.cumulative = balance.cumulative
<1> DEFINE t == bal_step.end
           gone == out * dt
<1>1. dt \in Nat /\ dt > 0 /\ t \in Nat /\ t < BalEndTime /\ BalEndTime \in Nat
      /\ BalEndTime + (dt + dt) < Inf /\ Inf \in Nat
  BY BalanceInputsAssumption, ToleranceAssumption
     DEF BalanceTimesExact, BalInv, BalTypeOK, bal_may_step
<1>2. BalTypeOK /\ bal_pc = "step"
  BY DEF BalInv, bal_may_step
<1>3. bal_step' = [end |-> t + dt, length |-> dt] /\ bal_tlevel' = bal_tlevel + 1
      /\ bal_unit' \in BOOLEAN
  BY <1>2 DEF bal_next_step, BalTypeOK
<1>4. gone \in Int
  BY <1>1
<1>5. bal_tlevel' \in Nat /\ bal_tlevel' > 0 /\ balance \in BalRecord
  BY <1>2, <1>3 DEF BalTypeOK
<1>6. /\ balance' \in BalRecord /\ SameIntegrals(balance, balance')
      /\ balance.cumulative =>
           /\ sum_over(balance'.increment_sources) =
                sum_over(balance.increment_sources) + (flown + x)
           /\ balance'.increment_fluxes = balance.increment_fluxes - gone
  <2> DEFINE k == bal_tlevel'
             b == balance
             c == balance'
  <2>1. k \in Nat /\ k > 0 /\ b \in BalRecord
        /\ c = add_cumulative_source(calculate_cumulative(b, k, dt, src, out), x)
    BY <1>5
  <2> HIDE DEF k, b, c
  <2>2. /\ c \in BalRecord /\ SameIntegrals(b, c)
        /\ b.cumulative =>
             /\ sum_over(c.increment_sources) =
                  sum_over(b.increment_sources) + (sum_over(src) * dt + x)
             /\ c.increment_fluxes = b.increment_fluxes - out * dt
    BY <1>1, <2>1, StepRecord, SMTT(30)
  <2> QED BY <2>2 DEF b, c
<1>7. sum_over(balance.increment_sources) \in Int /\ balance.increment_fluxes \in Int
      /\ balance.integrated_sources \in Int /\ balance.integrated_fluxes \in Int
      /\ bal_total.sources \in Int /\ bal_total.fluxes \in Int /\ bal_mass \in Int
      /\ bal_began \in Int /\ bal_excess \in Int
  <2>1. balance.increment_sources \in [Ranks -> Int] /\ IsFiniteSet(Ranks) /\ 0 \in Int
    BY <1>5, RanksAssumption DEF BalRecord
  <2>2. sum_over(balance.increment_sources) \in Int
    <3> DEFINE v == balance.increment_sources
    <3> HIDE DEF v
    <3>1. v \in [Ranks -> Int] /\ IsFiniteSet(Ranks)
      BY <2>1 DEF v
    <3>2. sum_over(v) \in Int
      BY <3>1, SumOfCombination
    <3> QED BY <3>2 DEF v
  <2> QED BY <1>2, <2>2 DEF BalTypeOK, BalRecord
<1> HIDE DEF gone
<1>8. BalTypeOK'
  <2>1. t + dt \in Nat /\ dt \in Nat /\ (t + dt) + dt < Inf
    <3> HIDE DEF t
    <3> QED BY <1>1
  <2>2. bal_step' \in [end : Nat, length : Nat] /\ bal_step'.length > 0
        /\ bal_step'.end + bal_step'.length < Inf
    <3> HIDE DEF t
    <3> QED BY <1>1, <1>3, <2>1
  <2>3. bal_mass' \in Int /\ bal_excess' \in Int
    BY <1>4, <1>7 DEF gone
  <2>4. bal_last_report' \in Report /\ MarkList(bal_marks')
        /\ bal_model' \in {"splitting", "dg"} /\ bal_began' \in Int /\ bal_unit' \in BOOLEAN
    BY <1>2, <1>3 DEF BalTypeOK
  <2>5. bal_pc' \in {"read", "output", "step"}
    OBVIOUS
  <2> QED BY <1>5, <1>6, <2>2, <2>3, <2>4, <2>5 DEF BalTypeOK
<1>9. AtStart'
  <2>1. bal_pc' # "read"
    OBVIOUS
  <2>2. bal_tlevel' # 0
    BY <1>5
  <2> QED BY <2>1, <2>2 DEF AtStart
<1>10. CumulativeOn'
  BY <1>6 DEF BalInv, CumulativeOn, SameIntegrals
<1>11. MassConserved'
  <2>1. bal_mass = bal_began + (bal_total.sources + bal_total.fluxes)
    BY DEF BalInv, MassConserved
  <2>2. bal_mass' = bal_mass + (flown + y - gone) /\ bal_total'.fluxes = bal_total.fluxes - gone
        /\ bal_total'.sources = bal_total.sources + (flown + y) /\ bal_began' = bal_began
    BY DEF gone
  <2> QED BY <1>4, <1>7, <2>1, <2>2 DEF MassConserved
<1>12. IncrementsConserved'
  <2> SUFFICES ASSUME balance'.cumulative
               PROVE  /\ balance'.integrated_sources + sum_over(balance'.increment_sources)
                           = bal_total'.sources + bal_excess'
                      /\ balance'.integrated_fluxes + balance'.increment_fluxes = bal_total'.fluxes
    BY DEF IncrementsConserved
  <2>1. /\ balance.integrated_sources + sum_over(balance.increment_sources)
             = bal_total.sources + bal_excess
        /\ balance.integrated_fluxes + balance.increment_fluxes = bal_total.fluxes
    BY <1>6 DEF BalInv, FlowsAccounted, IncrementsConserved, SameIntegrals
  <2>2. balance'.integrated_sources = balance.integrated_sources
        /\ balance'.integrated_fluxes = balance.integrated_fluxes
    BY <1>6 DEF SameIntegrals
  <2>3. bal_total'.fluxes = bal_total.fluxes - gone
        /\ bal_total'.sources = bal_total.sources + (flown + y)
        /\ bal_excess' = bal_excess + (x - y)
    BY DEF gone
  <2>4. /\ sum_over(balance'.increment_sources) =
             sum_over(balance.increment_sources) + (flown + x)
        /\ balance'.increment_fluxes = balance.increment_fluxes - gone
    BY <1>6 DEF SameIntegrals
  <2> QED BY <1>4, <1>7, <2>1, <2>2, <2>3, <2>4
<1>13. ReportsAtMarks'
  <2> SUFFICES ASSUME bal_pc' = "step", NEW i \in DOMAIN bal_marks,
                      bal_marks[i].time = bal_step'.end, match_mask(bal_marks[i], balance_type)
               PROVE  FALSE
    BY DEF ReportsAtMarks
  <2>1. "fixed" \in bal_marks[i].types
    BY DEF match_mask, balance_type
  <2> QED BY <2>1 DEF at_fixed_mark
<1> QED BY <1>5, <1>6, <1>8, <1>9, <1>10, <1>11, <1>12, <1>13 DEF SameIntegrals

\* One step of the convection and the reactions
LEMMA SplittingKeeps ==
  ASSUME BalanceTimesExact, BalInv, NEW dt \in BalDts["splitting"], NEW src \in [Ranks -> BalSources],
         NEW out \in BalFluxes, NEW react \in BalReactions, SplittingStep(dt, src, out, react)
  PROVE  BalInv'
<1> DEFINE flown == sum_over(src) * dt
<1>1. src \in [Ranks -> Int] /\ out \in Int /\ react \in Int /\ dt \in Nat
  BY BalanceInputsAssumption
<1>2. /\ bal_may_step /\ bal_model = "splitting" /\ bal_next_step(dt)
      /\ balance' = add_cumulative_source(calculate_cumulative(balance, bal_tlevel', dt, src, out), react)
      /\ bal_mass' = bal_mass + flown - out * dt + react
      /\ bal_total' = [sources |-> bal_total.sources + flown + react,
                       fluxes |-> bal_total.fluxes - out * dt]
      /\ UNCHANGED <<bal_marks, bal_model, bal_ret_prev, bal_began, bal_excess, bal_last_report>>
  BY DEF SplittingStep
<1>3. bal_pc' \in {"output", "step"} /\ (bal_pc' = "step" => ~ at_fixed_mark(bal_step'.end))
  BY DEF SplittingStep
<1>4. flown \in Int
  <2>1. sum_over(src) \in Int
    BY <1>1, RanksAssumption, SumOfCombination
  <2> QED BY <1>1, <2>1
<1>5. bal_total \in [sources : Int, fluxes : Int] /\ bal_mass \in Int /\ bal_ret_prev \in Int
  BY DEF BalInv, BalTypeOK
<1>6. out * dt \in Int
  BY <1>1
<1>7. /\ bal_total'.sources = bal_total.sources + (flown + react)
      /\ bal_total'.fluxes = bal_total.fluxes - out * dt
      /\ bal_total' \in [sources : Int, fluxes : Int]
      /\ bal_mass' = bal_mass + (flown + react - out * dt)
  <2> DEFINE gone == out * dt
  <2> HIDE DEF flown, gone
  <2>1. bal_total' = [sources |-> bal_total.sources + flown + react,
                      fluxes |-> bal_total.fluxes - gone]
        /\ bal_mass' = bal_mass + flown - gone + react
    BY <1>2 DEF gone
  <2>2. gone \in Int
    BY <1>6 DEF gone
  <2>3. /\ bal_total'.sources = bal_total.sources + (flown + react)
        /\ bal_total'.fluxes = bal_total.fluxes - gone
        /\ bal_total' \in [sources : Int, fluxes : Int]
        /\ bal_mass' = bal_mass + (flown + react - gone)
    BY <1>1, <1>4, <1>5, <2>1, <2>2
  <2> QED BY <2>3 DEF gone
<1>8. /\ BalTypeOK' /\ AtStart' /\ CumulativeOn' /\ MassConserved'
      /\ IncrementsConserved' /\ ReportsAtMarks'
  <2>1. dt \in BalDts["splitting"] \cup BalDts["dg"] /\ flown = sum_over(src) * dt
        /\ bal_ret_prev' \in Int
    BY <1>2, <1>5
  <2>2. bal_excess' = bal_excess + (react - react)
    BY <1>1, <1>2 DEF BalInv, BalTypeOK
  <2> HIDE DEF flown
  <2> QED BY <1>1, <1>2, <1>3, <1>4, <1>7, <2>1, <2>2, StepAccounts
<1>9. SorbedBooked'
  BY <1>2 DEF SorbedBooked
<1>10. SorptionBooked'
  BY <1>2 DEF BalInv, FlowsAccounted, SorptionBooked
<1> QED BY <1>8, <1>9, <1>10 DEF BalInv, FlowsAccounted

\* One step of the implicit transport: what is sorbed in it is a negative source.
LEMMA DGKeeps ==
  ASSUME BalanceTimesExact, BalInv, NEW dt \in BalDts["dg"], NEW src \in [Ranks -> BalSources],
         NEW out \in BalFluxes, DGStep(dt, src, out)
  PROVE  BalInv'
<1> DEFINE flown == sum_over(src) * dt
           gone == out * dt
           gained == (sum_over(src) - out) * dt
           d == gained \div (1 + BalRetardation)
           sorbed == BalRetardation * d
           ret == -BalRetardation * (bal_mass + d)
           x == IF balance.cumulative THEN (ret - bal_ret_prev) \div dt ELSE 0
<1>1. src \in [Ranks -> Int] /\ out \in Int /\ BalRetardation \in Nat /\ dt \in Nat /\ dt > 0
  <2>1. dt \in Nat \ {0} /\ BalRetardation \in Nat /\ out \in Int
    BY BalanceInputsAssumption
  <2>2. src \in [Ranks -> Int]
    BY BalanceInputsAssumption
  <2> QED BY <2>1, <2>2
<1>2. /\ bal_may_step /\ bal_model = "dg" /\ bal_next_step(dt)
      /\ gained % (1 + BalRetardation) = 0
      /\ bal_mass' = bal_mass + d
      /\ balance' = add_cumulative_source(calculate_cumulative(balance, bal_tlevel', dt, src, out), x)
      /\ bal_ret_prev' = IF balance.cumulative THEN ret ELSE bal_ret_prev
      /\ bal_total' = [sources |-> bal_total.sources + flown - sorbed,
                       fluxes |-> bal_total.fluxes - gone]
      /\ bal_excess' = bal_excess + (x + sorbed)
      /\ bal_pc' = "output"
      /\ UNCHANGED <<bal_marks, bal_model, bal_began, bal_last_report>>
  BY DEF DGStep
<1>3. sum_over(src) \in Int
  BY <1>1, RanksAssumption, SumOfCombination
<1>4. flown \in Int /\ gone \in Int /\ gained = flown - gone
  <2> DEFINE n == sum_over(src)
  <2>1. n \in Int
    BY <1>3
  <2> HIDE DEF n
  <2>2. n * dt \in Int /\ out * dt \in Int /\ (n - out) * dt = n * dt - out * dt
    BY <1>1, <2>1
  <2> QED BY <2>2 DEF n
<1>5. bal_total \in [sources : Int, fluxes : Int] /\ bal_mass \in Int /\ bal_ret_prev \in Int
      /\ bal_excess \in Int /\ balance.cumulative \in BOOLEAN
  BY DEF BalInv, BalTypeOK, BalRecord
<1>6. d \in Int /\ gained = d + sorbed /\ sorbed \in Int
  <2> DEFINE R == BalRetardation
             g == gained
  <2>1. R \in Nat /\ g \in Int /\ g % (1 + R) = 0
    BY <1>1, <1>2, <1>4
  <2> HIDE DEF R, g
  <2>2. g \div (1 + R) \in Int /\ g = (1 + R) * (g \div (1 + R))
    BY <2>1
  <2>3. (1 + R) * (g \div (1 + R)) = (g \div (1 + R)) + R * (g \div (1 + R))
        /\ R * (g \div (1 + R)) \in Int
    <3> DEFINE q == g \div (1 + R)
    <3>1. q \in Int
      BY <2>2
    <3> HIDE DEF q
    <3>2. (1 + R) * q = q + R * q /\ R * q \in Int
      BY <2>1, <3>1
    <3> QED BY <3>2 DEF q
  <2> QED BY <2>2, <2>3 DEF R, g
<1>7. ret \in Int /\ ret = -BalRetardation * bal_mass - sorbed
      /\ -BalRetardation * bal_mass \in Int
  <2> HIDE DEF d
  <2> DEFINE R == BalRetardation
             m == bal_mass
  <2>1. R \in Nat /\ m \in Int /\ d \in Int
    BY <1>1, <1>5, <1>6
  <2> HIDE DEF R, m
  <2>2. -R * (m + d) \in Int /\ -R * m \in Int /\ -R * (m + d) = -R * m - R * d
    BY <2>1
  <2> QED BY <2>2 DEF R, m
<1>8. x \in Int
  <2> HIDE DEF ret
  <2>1. (ret - bal_ret_prev) \div dt \in Int
    BY <1>1, <1>5, <1>7
  <2> QED BY <1>5, <2>1
<1>9. ASSUME balance.cumulative, dt = 1 PROVE x = ret - bal_ret_prev
  <2> HIDE DEF ret
  <2>1. (ret - bal_ret_prev) \div 1 = ret - bal_ret_prev
    BY <1>5, <1>7
  <2> QED BY <1>9, <2>1
<1> HIDE DEF flown, gone, gained, d, sorbed, ret, x
<1>10. /\ bal_total'.sources = bal_total.sources + (flown + (-sorbed))
       /\ bal_total'.fluxes = bal_total.fluxes - gone
       /\ bal_total' \in [sources : Int, fluxes : Int]
       /\ bal_mass' = bal_mass + (flown + (-sorbed) - gone)
       /\ bal_excess' = bal_excess + (x - (-sorbed))
  <2>1. bal_total.sources + flown - sorbed = bal_total.sources + (flown + (-sorbed))
        /\ bal_total.sources + (flown + (-sorbed)) \in Int /\ bal_total.fluxes - gone \in Int
    BY <1>4, <1>5, <1>6
  <2>2. d = flown + (-sorbed) - gone
    BY <1>4, <1>6
  <2> QED BY <1>2, <1>5, <1>6, <1>8, <2>1, <2>2
<1>11. /\ BalTypeOK' /\ AtStart' /\ CumulativeOn' /\ MassConserved'
       /\ IncrementsConserved' /\ ReportsAtMarks' /\ bal_tlevel' > 0
       /\ balance'.cumulative = balance.cumulative
  <2> DEFINE y == -sorbed
  <2>1. dt \in BalDts["splitting"] \cup BalDts["dg"] /\ flown = sum_over(src) * dt
        /\ bal_ret_prev' \in Int /\ y \in Int
    BY <1>2, <1>5, <1>6, <1>7 DEF flown
  <2>2. bal_pc' \in {"output", "step"} /\ (bal_pc' = "step" => ~ at_fixed_mark(bal_step'.end))
    BY <1>2
  <2>3. /\ bal_total'.sources = bal_total.sources + (flown + y)
        /\ bal_total'.fluxes = bal_total.fluxes - out * dt
        /\ bal_mass' = bal_mass + (flown + y - out * dt)
        /\ bal_excess' = bal_excess + (x - y)
    BY <1>10 DEF gone
  <2> HIDE DEF y
  <2> QED BY <1>1, <1>2, <1>4, <1>8, <1>10, <2>1, <2>2, <2>3, StepAccounts
<1>12. SorbedBooked'
  <2>1. balance.cumulative => bal_ret_prev' = -BalRetardation * bal_mass'
    BY <1>2 DEF ret
  <2> QED BY <1>11, <2>1 DEF SorbedBooked
<1>13. SorptionBooked'
  <2> SUFFICES ASSUME balance.cumulative, bal_unit'
               PROVE  bal_excess' = -BalRetardation * bal_began
    BY <1>2, <1>11 DEF SorptionBooked
  <2>1. bal_unit /\ dt = 1
    BY <1>2 DEF bal_next_step
  <2>2. bal_excess' = bal_excess + ((ret - bal_ret_prev) + sorbed)
    BY <1>2, <1>9, <2>1
  <2>3. bal_tlevel \in Nat
    BY DEF BalInv, BalTypeOK
  <2>4. CASE bal_tlevel = 0
    <3>1. bal_excess = 0 /\ bal_ret_prev = 0 /\ bal_mass = bal_began
      BY <2>4 DEF BalInv, AtStart
    <3> QED BY <1>6, <1>7, <2>2, <3>1
  <2>5. CASE bal_tlevel > 0
    <3>1. bal_excess = -BalRetardation * bal_began
      BY <1>2, <2>1, <2>5 DEF BalInv, FlowsAccounted, SorptionBooked
    <3>2. bal_ret_prev = -BalRetardation * bal_mass
      BY <1>2, <2>5 DEF BalInv, SorbedBooked
    <3>3. (ret - bal_ret_prev) + sorbed = 0
      BY <1>6, <1>7, <3>2
    <3> QED BY <1>5, <2>2, <3>1, <3>3
  <2> QED BY <2>3, <2>4, <2>5
<1> QED BY <1>11, <1>12, <1>13 DEF BalInv, FlowsAccounted

\* The output at a balance mark, which is current then, and what it writes
LEMMA OutputKeeps ==
  ASSUME BalanceTimesExact, BalInv, BalOutputData PROVE BalInv'
<1> DEFINE now == [balance EXCEPT !.sum_masses = bal_mass]
           cur == is_current(balance, bal_marks, bal_step)
<1>1. /\ bal_pc = "output" /\ bal_pc' = "step"
      /\ cur => /\ balance' = output(now)
                /\ bal_last_report' = IF balance.cumulative THEN report(now) ELSE bal_last_report
      /\ ~ cur => UNCHANGED <<balance, bal_last_report>>
      /\ UNCHANGED <<bal_marks, bal_model, bal_step, bal_tlevel, bal_mass, bal_ret_prev, bal_total,
                     bal_began, bal_excess, bal_unit>>
  BY DEF BalOutputData
<1>2. BalTypeOK /\ balance \in BalRecord /\ bal_mass \in Int
      /\ bal_total.sources \in Int /\ bal_total.fluxes \in Int
      /\ bal_began \in Int /\ bal_excess \in Int
  BY DEF BalInv, BalTypeOK
<1>3. now \in BalRecord /\ SameIntegrals(balance, now) /\ now.sum_masses = bal_mass
      /\ now.increment_sources = balance.increment_sources
      /\ now.increment_fluxes = balance.increment_fluxes
  BY <1>2 DEF BalRecord, SameIntegrals
<1> HIDE DEF now
<1>4. ASSUME NEW i \in DOMAIN bal_marks, bal_marks[i].time = bal_step.end,
             match_mask(bal_marks[i], balance_type), balance.cumulative
      PROVE  cur
  <2>1. MarkList(bal_marks) /\ i \in 1 .. Len(bal_marks)
    BY <1>2, MarkListType DEF BalTypeOK
  <2>2. balance_type \subseteq BaseTypes /\ Tol = 0
    BY DEF BalanceTimesExact, balance_type
  <2>3. bal_step \in [end : Nat, length : Nat] /\ bal_step.length > 0
        /\ bal_step.end + bal_step.length < Inf
    BY <1>2 DEF BalTypeOK
  <2>4. current(bal_marks, bal_step, balance_type) # end(bal_marks)
    BY <1>4, <2>1, <2>2, <2>3, MarkIsCurrent
  <2>5. balance.on
    BY <1>4 DEF BalInv, CumulativeOn
  <2> QED BY <2>4, <2>5 DEF is_current
<1>5. ASSUME IncrementsConserved', ReportsAtMarks', balance' \in BalRecord,
             balance'.on = balance.on, balance'.cumulative = balance.cumulative,
             bal_last_report' \in Report
      PROVE  BalInv'
  <2>1. BalTypeOK'
    BY <1>1, <1>2, <1>5 DEF BalTypeOK
  <2>2. AtStart' /\ CumulativeOn'
    BY <1>1, <1>5 DEF BalInv, AtStart, CumulativeOn
  <2>3. SorbedBooked' /\ MassConserved'
    BY <1>1, <1>5 DEF BalInv, SorbedBooked, MassConserved
  <2>4. SorptionBooked'
    BY <1>1, <1>5 DEF BalInv, FlowsAccounted, SorptionBooked
  <2> QED BY <1>5, <2>1, <2>2, <2>3, <2>4 DEF BalInv, FlowsAccounted
<1>6. MassConserved /\ IncrementsConserved /\ bal_last_report \in Report
  BY <1>2 DEF BalInv, FlowsAccounted, BalTypeOK
<1>7. CASE ~ cur
  <2>1. balance' = balance /\ bal_last_report' = bal_last_report
    BY <1>1, <1>7
  <2>2. IncrementsConserved'
    BY <1>1, <1>6, <2>1 DEF IncrementsConserved
  <2>3. ReportsAtMarks'
    BY <1>1, <1>4, <1>7, <2>1 DEF ReportsAtMarks
  <2> QED BY <1>2, <1>5, <1>6, <2>1, <2>2, <2>3
<1>8. CASE cur
  <2> DEFINE c == output(now)
  <2>1. balance' = c /\ c \in BalRecord /\ c.on = balance.on /\ c.cumulative = balance.cumulative
    BY <1>1, <1>3, <1>8, OutputRecord DEF SameIntegrals
  <2>2. CASE ~ balance.cumulative
    <3>1. bal_last_report' = bal_last_report /\ ~ balance'.cumulative
      BY <1>1, <1>8, <2>1, <2>2
    <3>2. IncrementsConserved' /\ ReportsAtMarks'
      BY <3>1 DEF IncrementsConserved, ReportsAtMarks
    <3> QED BY <1>5, <1>6, <2>1, <3>1, <3>2
  <2>3. CASE balance.cumulative
    <3> DEFINE S == sum_over(balance.increment_sources)
               F == balance.increment_fluxes
               I == balance.integrated_sources
               J == balance.integrated_fluxes
               M == c.initial_mass
               src == bal_total.sources
               e == bal_excess
               flx == bal_total.fluxes
    <3>1. /\ ~ c.initial /\ M = IF balance.initial THEN bal_mass ELSE balance.initial_mass
          /\ sum_over(c.increment_sources) = 0 /\ c.increment_fluxes = 0
          /\ c.integrated_sources = I + S /\ c.integrated_fluxes = J + F
          /\ report(now) = [sources |-> I + S, fluxes |-> J + F,
                            error |-> bal_mass - (M + (I + S) + (J + F)),
                            legacy_error |-> M + (I + S) - (J + F) - bal_mass]
      <4> HIDE DEF c
      <4>1. now.cumulative /\ now \in BalRecord /\ c = output(now)
        BY <1>3, <2>3 DEF SameIntegrals, c
      <4>2. /\ ~ c.initial
            /\ c.initial_mass = IF now.initial THEN now.sum_masses ELSE now.initial_mass
            /\ sum_over(c.increment_sources) = 0 /\ c.increment_fluxes = 0
            /\ c.integrated_sources = now.integrated_sources + sum_over(now.increment_sources)
            /\ c.integrated_fluxes = now.integrated_fluxes + now.increment_fluxes
            /\ report(now) = [sources |-> c.integrated_sources, fluxes |-> c.integrated_fluxes,
                              error |-> now.sum_masses
                                        - (c.initial_mass + c.integrated_sources + c.integrated_fluxes),
                              legacy_error |-> c.initial_mass + c.integrated_sources
                                               - c.integrated_fluxes - now.sum_masses]
        BY <4>1, OutputRecord
      <4>3. now.initial = balance.initial /\ now.initial_mass = balance.initial_mass
            /\ now.integrated_sources = balance.integrated_sources
            /\ now.integrated_fluxes = balance.integrated_fluxes
        BY <1>3 DEF SameIntegrals
      <4>4. sum_over(now.increment_sources) = S /\ now.increment_fluxes = F
            /\ now.sum_masses = bal_mass
        BY <1>3
      <4> QED BY <4>2, <4>3, <4>4
    <3>2. I + S = src + e /\ J + F = flx
      BY <1>6, <2>3 DEF IncrementsConserved
    <3>3. bal_mass = bal_began + (src + flx) /\ M \in Int
      BY <1>2, <1>6, <3>1 DEF MassConserved, BalRecord
    <3> HIDE DEF c, S, F, I, J, M
    <3>4. bal_last_report' = [sources |-> src + e, fluxes |-> flx,
                              error |-> bal_mass - (M + (src + e) + flx),
                              legacy_error |-> M + (src + e) - flx - bal_mass]
      BY <1>1, <1>8, <2>3, <3>1, <3>2
    <3>5. src \in Int /\ flx \in Int /\ e \in Int
      BY <1>2
    <3>6. /\ bal_mass - (M + (src + e) + flx) = (bal_began - M) - e
          /\ M + (src + e) - flx - bal_mass \in Int
      <4> HIDE DEF src, flx, e
      <4> QED BY <1>2, <3>3, <3>5
    <3>7. bal_last_report' \in Report
      <4> DEFINE l == M + (src + e) - flx - bal_mass
                 err == bal_mass - (M + (src + e) + flx)
      <4>1. l \in Int /\ err \in Int /\ src + e \in Int /\ flx \in Int
        BY <1>2, <3>3, <3>5, <3>6
      <4> HIDE DEF l, err, src, flx, e
      <4> QED BY <3>4, <4>1 DEF Report, l, err
    <3>8. ReportsAtMarks'
      <4>1. /\ bal_last_report'.sources = src + e /\ bal_last_report'.fluxes = flx
            /\ bal_last_report'.error = (bal_began - M) - e
        BY <3>4, <3>6
      <4>2. balance'.initial_mass = M /\ UNCHANGED <<bal_total, bal_excess, bal_began>>
        BY <1>1, <2>1 DEF M
      <4> QED BY <4>1, <4>2 DEF ReportsAtMarks
    <3>9. IncrementsConserved'
      <4>1. c.integrated_sources = src + e /\ c.integrated_fluxes = flx
        BY <3>1, <3>2
      <4>2. /\ c.integrated_sources + sum_over(c.increment_sources) = src + e
            /\ c.integrated_fluxes + c.increment_fluxes = flx
        BY <3>1, <3>5, <4>1
      <4> QED BY <1>1, <2>1, <4>2 DEF IncrementsConserved
    <3> QED BY <1>5, <2>1, <3>7, <3>8, <3>9
  <2> QED BY <2>2, <2>3
<1> QED BY <1>7, <1>8

\* The balance from the construction of the equation to its end
THEOREM BalanceInvariant == BalanceTimesExact /\ BalSpec => []BalInv
<1>1. BalanceTimesExact /\ BalInit => BalInv
  BY BalanceStarts
<1>2. BalanceTimesExact /\ BalInv /\ [BalNext]_bal_vars => BalInv'
  <2> SUFFICES ASSUME BalanceTimesExact, BalInv, [BalNext]_bal_vars PROVE BalInv'
    OBVIOUS
  <2>1. CASE \E in \in BalInputs : BalRead(in)
    BY <2>1, BalReadKeeps
  <2>2. CASE \E dt \in BalDts["splitting"], src \in [Ranks -> BalSources], out \in BalFluxes,
                react \in BalReactions : SplittingStep(dt, src, out, react)
    BY <2>2, SplittingKeeps
  <2>3. CASE \E dt \in BalDts["dg"], src \in [Ranks -> BalSources], out \in BalFluxes :
               DGStep(dt, src, out)
    BY <2>3, DGKeeps
  <2>4. CASE BalOutputData
    BY <2>4, OutputKeeps
  <2>5. CASE UNCHANGED bal_vars
    BY <2>5 DEF bal_vars, BalInv, BalTypeOK, AtStart, CumulativeOn, MassConserved, SorbedBooked,
                FlowsAccounted, IncrementsConserved, ReportsAtMarks, SorptionBooked
  <2>6. BalAtEnd => UNCHANGED bal_vars
    BY DEF BalAtEnd
  <2> QED BY <2>1, <2>2, <2>3, <2>4, <2>5, <2>6 DEF BalNext
<1>3. BalanceTimesExact => BalanceTimesExact'
  BY DEF BalanceTimesExact
<1> QED BY <1>1, <1>2, <1>3, PTL DEF BalSpec

\* Whatever flows reaches the integrals, by any process and through any output, and at a
\* balance mark all of it; the error written there in csv and yaml is what the mass changed
\* before the first report less what was booked too much for sorption, and that is nothing with
\* operator splitting.
THEOREM FlowsAreAccounted == BalanceTimesExact /\ BalSpec => []FlowsAccounted
<1>1. BalInv => FlowsAccounted
  BY DEF BalInv
<1> QED BY <1>1, BalanceInvariant, PTL
=============================================================================
