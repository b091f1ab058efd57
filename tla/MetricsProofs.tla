---------------------------- MODULE MetricsProofs ----------------------------
(***************************************************************************)
(* The properties of the dashboard and of the chart, for every calendar of *)
(* months of 28 to 31 days, any rows and any moments of reading.           *)
(***************************************************************************)
EXTENDS MetricsProperties, WellFoundedInduction, TLAPS

----------------------------------------------------------------------------
(* Recursion on positions                                                  *)

(* What holds of 0 and passes on from each position holds up to N.         *)
LEMMA Upward ==
    ASSUME NEW N \in Nat, NEW T, 0 \in T, \A k \in 1..N : k - 1 \in T => k \in T
    PROVE  0..N \subseteq T
  <1> DEFINE Missing == (0..N) \ T
  <1>1. SUFFICES ASSUME Missing # {} PROVE FALSE
    OBVIOUS
  <1>2. Missing \subseteq Nat
    OBVIOUS
  <1>3. PICK x \in Missing : \A y \in Missing : ~ (<<y, x>> \in OpToRel(<, Nat))
    <2> HIDE DEF Missing
    <2> QED
      BY <1>1, <1>2, NatLessThanWellFounded, WFMin
  <1>4. \A y \in Missing : ~ (y < x)
    BY <1>3, <1>2 DEF OpToRel
  <1>5. x \in 1..N /\ x - 1 \notin Missing
    BY <1>4
  <1> QED
    BY <1>5

(* A function on 0..N can be given by its value at 0 and a step.           *)
Unfolds(h, n, start, step) ==
    h[0] = start /\ \A k \in 1..n : h[k] = step[<<k, h[k - 1]>>]

LEMMA Iterated ==
    ASSUME NEW N \in Nat, NEW S, NEW start \in S, NEW step \in [(1..N) \X S -> S]
    PROVE  \E h \in [0..N -> S] : Unfolds(h, N, start, step)
  <1> DEFINE Upto(n, h) == Unfolds(h, n, start, step)
             T == {n \in 0..N : \E h \in [0..N -> S] : Upto(n, h)}
  <1>1. 0 \in T
    <2>1. [k \in 0..N |-> start] \in [0..N -> S] /\ Upto(0, [k \in 0..N |-> start])
      BY DEF Unfolds
    <2>2. \E h \in [0..N -> S] : Upto(0, h)
      <3> HIDE DEF Upto
      <3> QED
        BY <2>1
    <2> QED
      BY <2>2
  <1>2. ASSUME NEW n \in 1..N, n - 1 \in T PROVE n \in T
    <2>1. PICK h \in [0..N -> S] : Upto(n - 1, h)
      BY <1>2
    <2> DEFINE g == [h EXCEPT ![n] = step[<<n, h[n - 1]>>]]
    <2>2. step[<<n, h[n - 1]>>] \in S
      OBVIOUS
    <2>3. g \in [0..N -> S]
      BY <2>2
    <2>4. g[0] = start
      BY <2>1 DEF Unfolds
    <2>5. ASSUME NEW k \in 1..n PROVE g[k] = step[<<k, g[k - 1]>>]
      <3>1. CASE k = n
        <4>1. g[n] = step[<<n, h[n - 1]>>] /\ g[n - 1] = h[n - 1]
          BY <2>3
        <4> QED
          BY <3>1, <4>1
      <3>2. CASE k # n
        <4>1. k \in 1..(n - 1) /\ g[k] = h[k] /\ g[k - 1] = h[k - 1]
          BY <3>2
        <4> QED
          BY <4>1, <2>1 DEF Unfolds
      <3> QED
        BY <3>1, <3>2
    <2>6. Upto(n, g)
      <3> HIDE DEF g
      <3> QED
        BY <2>4, <2>5 DEF Unfolds
    <2>7. \E f \in [0..N -> S] : Upto(n, f)
      <3> HIDE DEF Upto, g
      <3> QED
        BY <2>3, <2>6
    <2> QED
      BY <2>7
  <1>3. N \in T
    <2> HIDE DEF T
    <2>1. 0..N \subseteq T
      BY <1>1, <1>2, Upward
    <2> QED
      BY <2>1
  <1> QED
    BY <1>3

----------------------------------------------------------------------------
(* Sums                                                                    *)

LEMMA SumsFacts ==
    ASSUME NEW q \in Seq(Nat)
    PROVE  /\ Sums(q) \in [0..Len(q) -> Nat]
           /\ Sums(q)[0] = 0
           /\ \A k \in 1..Len(q) : Sums(q)[k] = Sums(q)[k - 1] + q[k]
           /\ SumOf(q) = Sums(q)[Len(q)] /\ SumOf(q) \in Nat
  <1> DEFINE N == Len(q)
             step == [kx \in (1..N) \X Nat |-> kx[2] + q[kx[1]]]
             Solves(s) == s = [k \in 0..N |-> IF k = 0 THEN 0
                                              ELSE AddAmount(s[k - 1], q[k])]
  <1>1. N \in Nat /\ \A k \in 1..N : q[k] \in Nat
    OBVIOUS
  <1>2. step \in [(1..N) \X Nat -> Nat]
    BY <1>1
  <1>3. \A k \in 1..N, x \in Nat : step[<<k, x>>] = x + q[k]
    OBVIOUS
  <1>4. PICK h \in [0..N -> Nat] :
          Unfolds(h, N, 0, step)
    <2> HIDE DEF step, N
    <2> QED
      BY <1>1, <1>2, Iterated
  <1>5. Solves(h)
    <2>1. ASSUME NEW k \in 1..N PROVE h[k] = AddAmount(h[k - 1], q[k])
      <3>1. h[k - 1] \in Nat
        BY SMTT(60), <1>1
      <3>2. step[<<k, h[k - 1]>>] = h[k - 1] + q[k]
        <4> HIDE DEF step
        <4> QED
          BY <3>1, <1>3
      <3> QED
        BY <1>4, <3>2 DEF AddAmount, Unfolds
    <2> HIDE DEF step
    <2> QED
      BY <1>4, <2>1 DEF Unfolds
  <1>6. Sums(q) = CHOOSE s : Solves(s)
    BY DEF Sums
  <1>7. Solves(Sums(q))
    <2> HIDE DEF Solves
    <2> QED
      BY <1>5, <1>6
  <1>8. /\ Sums(q)[0] = 0
        /\ \A k \in 1..N : Sums(q)[k] = Sums(q)[k - 1] + q[k]
    BY SMTT(60), <1>1, <1>7 DEF AddAmount
  <1>9. \A k \in 0..N : Sums(q)[k] \in Nat
    <2> DEFINE T == {k \in 0..N : Sums(q)[k] \in Nat}
    <2>0. ASSUME NEW k \in 1..N, k - 1 \in T PROVE k \in T
      <3>1. Sums(q)[k - 1] \in Nat /\ q[k] \in Nat
        BY <1>1, <2>0
      <3>2. Sums(q)[k] \in Nat
        BY <1>8, <3>1
      <3> QED
        BY <1>1, <3>2
    <2>1. 0 \in T /\ \A k \in 1..N : k - 1 \in T => k \in T
      <3>1. 0 \in T
        BY <1>1, <1>8
      <3> HIDE DEF T
      <3> QED
        BY <2>0, <3>1
    <2>2. 0..N \subseteq T
      <3> HIDE DEF T
      <3> QED
        BY <1>1, <2>1, Upward
    <2> QED
      BY <2>2
  <1>10. Sums(q) \in [0..N -> Nat]
    BY <1>7, <1>9
  <1> QED
    BY <1>1, <1>8, <1>9, <1>10 DEF SumOf

(* Sums grow with their summands.                                          *)
LEMMA SumsMonotone ==
    ASSUME NEW q \in Seq(Nat), NEW r \in Seq(Nat), NEW n \in Nat,
           n <= Len(q), n <= Len(r), \A k \in 1..n : q[k] <= r[k]
    PROVE  Sums(q)[n] <= Sums(r)[n]
  <1> DEFINE T == {k \in 0..n : Sums(q)[k] <= Sums(r)[k]}
  <1>1. 0 \in T
    BY SumsFacts
  <1>2. ASSUME NEW k \in 1..n, k - 1 \in T PROVE k \in T
    <2>0. /\ k \in 1..Len(q) /\ k - 1 \in 0..Len(q)
          /\ k \in 1..Len(r) /\ k - 1 \in 0..Len(r)
      OBVIOUS
    <2>1. /\ Sums(q)[k] = Sums(q)[k - 1] + q[k] /\ Sums(r)[k] = Sums(r)[k - 1] + r[k]
          /\ Sums(q)[k - 1] \in Nat /\ Sums(r)[k - 1] \in Nat
      <3>1. Sums(q)[k] = Sums(q)[k - 1] + q[k] /\ Sums(q)[k - 1] \in Nat
        BY <2>0, SumsFacts
      <3>2. Sums(r)[k] = Sums(r)[k - 1] + r[k] /\ Sums(r)[k - 1] \in Nat
        BY <2>0, SumsFacts
      <3> QED
        BY <3>1, <3>2
    <2>2. q[k] \in Nat /\ r[k] \in Nat /\ q[k] <= r[k]
      OBVIOUS
    <2>3. Sums(q)[k - 1] <= Sums(r)[k - 1]
      BY <1>2
    <2>4. Sums(q)[k] <= Sums(r)[k]
      BY SMTT(30), <2>1, <2>2, <2>3
    <2> QED
      BY <2>4
  <1>3. 0..n \subseteq T
    <2> HIDE DEF T
    <2> QED
      BY <1>1, <1>2, Upward
  <1> QED
    BY <1>3

----------------------------------------------------------------------------
(* Totals                                                                  *)

Metrics == [inverter : Inverters, created : Clock, measured : Int, amount : Nat]

\* The summands of a total, and the total, of any table.
Summands(table, selected) ==
    [k \in DOMAIN table |-> IF k \in selected THEN table[k].amount ELSE 0]
TotalOf(table, selected) == SumOf(Summands(table, selected))

\* The rows of an inverter in a window of creation times, and their total.
Window(table, i, from, to) ==
    {k \in DOMAIN table : /\ table[k].inverter = i
                          /\ from <= table[k].created /\ table[k].created <= to}
WindowTotal(table, i, from, to) == TotalOf(table, Window(table, i, from, to))

(* As long as an inverter is there, its rows are those ever inserted.      *)
LEMMA BetweenIsWindow ==
    ASSUME NEW i, Present(i), NEW from, NEW to
    PROVE  /\ Between(i, from, to) = Window(rows, i, from, to)
           /\ Total(Between(i, from, to)) = WindowTotal(rows, i, from, to)
  <1>1. Between(i, from, to) = Window(rows, i, from, to)
    BY DEF Between, Own, Window
  <1> QED
    BY <1>1 DEF Total, WindowTotal, TotalOf, Summands

LEMMA SummandsType ==
    ASSUME NEW table \in Seq(Metrics), NEW A
    PROVE  /\ Summands(table, A) \in Seq(Nat)
           /\ Len(Summands(table, A)) = Len(table)
           /\ TotalOf(table, A) \in Nat
  <1>0. \A k \in 1..Len(table) : table[k] \in Metrics
    OBVIOUS
  <1>1. \A k \in 1..Len(table) : table[k].amount \in Nat
    BY <1>0 DEF Metrics
  <1>2. /\ Summands(table, A) \in Seq(Nat)
        /\ Len(Summands(table, A)) = Len(table)
    BY <1>1 DEF Summands
  <1> QED
    BY <1>2, SumsFacts DEF TotalOf

(* More rows, no smaller a total.                                          *)
LEMMA TotalMonotone ==
    ASSUME NEW table \in Seq(Metrics), NEW A, NEW B,
           \A k \in 1..Len(table) : k \in A => k \in B
    PROVE  TotalOf(table, A) <= TotalOf(table, B)
  <1>0. \A k \in 1..Len(table) : table[k] \in Metrics
    OBVIOUS
  <1>1. \A k \in 1..Len(table) : table[k].amount \in Nat
    BY <1>0 DEF Metrics
  <1>2. \A k \in 1..Len(table) : Summands(table, A)[k] <= Summands(table, B)[k]
    BY <1>1 DEF Summands
  <1> QED
    BY SMTT(60), <1>2, SummandsType, SumsMonotone, SumsFacts DEF TotalOf

(* No rows, no total.                                                      *)
LEMMA TotalOfNone ==
    ASSUME NEW table \in Seq(Metrics)
    PROVE  TotalOf(table, {}) = 0
  <1> DEFINE N == Len(table)
             q == Summands(table, {})
             T == {k \in 0..N : Sums(q)[k] = 0}
  <1>1. q \in Seq(Nat) /\ Len(q) = N /\ N \in Nat
    BY SummandsType
  <1>2. \A k \in 1..N : q[k] = 0
    BY DEF Summands
  <1> HIDE DEF q
  <1>3. /\ Sums(q)[0] = 0 /\ SumOf(q) = Sums(q)[N]
        /\ \A k \in 1..N : Sums(q)[k] = Sums(q)[k - 1] + q[k]
    BY <1>1, SumsFacts
  <1>4. 0 \in T
    BY <1>1, <1>3
  <1>5. ASSUME NEW k \in 1..N, k - 1 \in T PROVE k \in T
    BY <1>1, <1>2, <1>3, <1>5
  <1>6. 0..N \subseteq T
    <2> HIDE DEF T, N
    <2> QED
      BY <1>1, <1>4, <1>5, Upward
  <1> QED
    BY <1>1, <1>3, <1>6 DEF TotalOf, q

(* A row that is appended adds to the totals it is selected for and leaves *)
(* the others as they are.                                                 *)
LEMMA TotalAppended ==
    ASSUME NEW table \in Seq(Metrics), NEW row \in Metrics, NEW A
    PROVE  /\ TotalOf(table, A) <= TotalOf(Append(table, row), A)
           /\ Len(table) + 1 \notin A
                => TotalOf(Append(table, row), A) = TotalOf(table, A)
  <1> DEFINE N == Len(table)
             q == Summands(table, A)
             r == Summands(Append(table, row), A)
  <1>1. Append(table, row) \in Seq(Metrics) /\ Len(Append(table, row)) = N + 1
        /\ N \in Nat
    OBVIOUS
  <1>2. q \in Seq(Nat) /\ Len(q) = N /\ r \in Seq(Nat) /\ Len(r) = N + 1
    BY <1>1, SummandsType
  <1>3. \A k \in 1..N : q[k] = r[k] /\ q[k] \in Nat
    BY <1>1, <1>2 DEF Summands
  <1>4. N + 1 \notin A => r[N + 1] = 0
    BY <1>1 DEF Summands
  <1> HIDE DEF q, r, N
  <1>5. Sums(q)[N] = Sums(r)[N]
    <2>0. /\ N <= Len(q) /\ N <= Len(r)
          /\ \A k \in 1..N : q[k] <= r[k] /\ r[k] <= q[k]
      BY <1>1, <1>2, <1>3
    <2>1. Sums(q)[N] <= Sums(r)[N] /\ Sums(r)[N] <= Sums(q)[N]
      BY <1>1, <1>2, <2>0, SumsMonotone
    <2>2. Sums(q)[N] \in Nat
      BY <1>1, <1>2, SumsFacts
    <2>3. Sums(r)[N] \in Nat
      <3>1. N \in 0..Len(r)
        BY <1>1, <1>2 DEF N
      <3> QED
        BY <1>2, <3>1, SumsFacts
    <2> QED
      BY <2>1, <2>2, <2>3
  <1>6. /\ SumOf(q) = Sums(q)[N] /\ SumOf(r) = Sums(r)[N + 1]
        /\ Sums(r)[N + 1] = Sums(r)[N] + r[N + 1] /\ Sums(r)[N] \in Nat
        /\ r[N + 1] \in Nat
    <2>1. SumOf(q) = Sums(q)[N]
      BY <1>2, SumsFacts
    <2>2. SumOf(r) = Sums(r)[N + 1]
      BY <1>2, SumsFacts
    <2>3. N + 1 \in 1..Len(r) /\ N \in 0..Len(r) /\ (N + 1) - 1 = N
      BY <1>1, <1>2 DEF N
    <2>4. Sums(r)[N + 1] = Sums(r)[N] + r[N + 1] /\ Sums(r)[N] \in Nat
      BY <1>2, <2>3, SumsFacts
    <2>5. r[N + 1] \in Nat
      BY <1>2, <2>3
    <2> QED
      BY <2>1, <2>2, <2>4, <2>5
  <1>7. TotalOf(table, A) = SumOf(q) /\ TotalOf(Append(table, row), A) = SumOf(r)
    BY DEF TotalOf, q, r
  <1> QED
    BY <1>4, <1>5, <1>6, <1>7 DEF N

----------------------------------------------------------------------------
(* The calendar                                                            *)

\* The moments of the calendar, those of the first month included.
Moments == 0..(Midnight(SumOf(MonthLengths)) - 1)

LEMMA CalendarFacts ==
    /\ Months = 1..Len(MonthLengths) /\ Len(MonthLengths) \in Nat
    /\ FirstDay(1) = 0
    /\ FirstDay(Len(MonthLengths) + 1) = SumOf(MonthLengths)
    /\ \A m \in 1..(Len(MonthLengths) + 1) : FirstDay(m) \in Nat
    /\ \A m \in Months : /\ MonthLengths[m] \in 28..31
                         /\ FirstDay(m + 1) = FirstDay(m) + MonthLengths[m]
  <1> DEFINE L == Len(MonthLengths)
             F == Sums(MonthLengths)
  <1>1. MonthLengths \in Seq(28..31)
    BY CalendarAssumption
  <1>2. Months = 1..L /\ L \in Nat /\ \A m \in 1..L : MonthLengths[m] \in 28..31
    BY <1>1 DEF Months
  <1>3. MonthLengths \in Seq(Nat)
    BY <1>1, <1>2
  <1>4. /\ F \in [0..L -> Nat] /\ F[0] = 0
        /\ \A k \in 1..L : F[k] = F[k - 1] + MonthLengths[k]
        /\ SumOf(MonthLengths) = F[L]
    BY <1>3, SumsFacts
  <1> HIDE DEF F, L
  <1>5. \A m \in 1..(L + 1) : FirstDay(m) = F[m - 1] /\ F[m - 1] \in Nat
    BY <1>2, <1>4 DEF FirstDay, F
  <1>6. FirstDay(1) = 0 /\ FirstDay(L + 1) = SumOf(MonthLengths)
    BY <1>2, <1>4, <1>5
  <1>7. ASSUME NEW m \in 1..L PROVE FirstDay(m + 1) = FirstDay(m) + MonthLengths[m]
    <2>1. m \in 1..(L + 1) /\ m + 1 \in 1..(L + 1) /\ (m + 1) - 1 = m
      BY <1>2
    <2> QED
      BY <2>1, <1>4, <1>5
  <1> QED
    BY <1>2, <1>5, <1>6, <1>7 DEF L

(* A later month begins at least the length of a month later.              *)
LEMMA FirstDaysGrow ==
    ASSUME NEW m \in 1..(Len(MonthLengths) + 1), NEW n \in 1..(Len(MonthLengths) + 1),
           m < n
    PROVE  FirstDay(m + 1) <= FirstDay(n)
  <1> DEFINE L == Len(MonthLengths)
             T == {k \in 0..(L - m) : FirstDay(m + 1) <= FirstDay(m + 1 + k)}
  <1>1. L \in Nat /\ Months = 1..L
    BY CalendarFacts
  <1>2. \A k \in 1..(L + 1) : FirstDay(k) \in Nat
    BY CalendarFacts
  <1>3. m \in 1..L /\ L - m \in Nat /\ n - (m + 1) \in 0..(L - m)
    BY <1>1
  <1>4. 0 \in T
    <2>1. m + 1 \in 1..(L + 1) /\ m + 1 + 0 = m + 1
      BY <1>1, <1>3
    <2> QED
      BY <2>1, <1>2, <1>3
  <1>5. ASSUME NEW k \in 1..(L - m), k - 1 \in T PROVE k \in T
    <2>1. m + k \in 1..L /\ m + 1 + (k - 1) = m + k /\ m + 1 + k = (m + k) + 1
      BY <1>1, <1>3
    <2>2. FirstDay(m + k + 1) = FirstDay(m + k) + MonthLengths[m + k]
          /\ MonthLengths[m + k] \in 28..31
      BY <1>1, <2>1, CalendarFacts
    <2>3. m + 1 \in 1..(L + 1) /\ m + k \in 1..(L + 1)
      BY <1>1, <1>3, <2>1
    <2>4. FirstDay(m + 1) \in Nat /\ FirstDay(m + k) \in Nat
      BY <1>2, <2>3
    <2>5. FirstDay(m + 1) <= FirstDay(m + k)
      BY <1>5, <2>1
    <2>6. FirstDay(m + 1) <= FirstDay(m + k + 1)
      BY <2>2, <2>4, <2>5
    <2> QED
      BY <2>1, <2>6
  <1>6. 0..(L - m) \subseteq T
    <2> HIDE DEF T, L
    <2> QED
      BY <1>3, <1>4, <1>5, Upward
  <1>7. n = m + 1 + (n - (m + 1))
    BY <1>1
  <1> QED
    BY <1>3, <1>6, <1>7

(* Every moment is in one month.                                           *)
InMonth(t, m) == FirstDay(m) <= DayOf(t) /\ DayOf(t) < FirstDay(m + 1)

LEMMA MonthExists ==
    ASSUME NEW t \in Moments
    PROVE  /\ t \in Nat /\ DayOf(t) \in Nat
           /\ MonthOf(t) \in Months /\ InMonth(t, MonthOf(t))
           /\ \A m \in Months : InMonth(t, m) => m = MonthOf(t)
  <1> DEFINE L == Len(MonthLengths)
  <1>1. L \in Nat /\ Months = 1..L /\ SumOf(MonthLengths) = FirstDay(L + 1)
        /\ FirstDay(1) = 0 /\ \A k \in 1..(L + 1) : FirstDay(k) \in Nat
    BY CalendarFacts
  <1>2. FirstDay(L + 1) \in Nat
    BY <1>1
  <1>3. t \in Nat /\ t < FirstDay(L + 1) * 24
    BY <1>1, <1>2 DEF Moments, Midnight, HoursPerDay
  <1>4. DayOf(t) \in Nat /\ DayOf(t) < FirstDay(L + 1)
    BY <1>2, <1>3 DEF DayOf, HoursPerDay
  <1>5. \E m \in Months : InMonth(t, m)
    <2>1. SUFFICES ASSUME \A m \in Months : ~InMonth(t, m) PROVE FALSE
      OBVIOUS
    <2> DEFINE T == {k \in 0..L : FirstDay(k + 1) <= DayOf(t)}
    <2>2. 0 \in T
      <3>1. FirstDay(0 + 1) = 0
        BY <1>1
      <3> QED
        BY <1>1, <1>4, <3>1
    <2>3. ASSUME NEW k \in 1..L, k - 1 \in T PROVE k \in T
      <3>1. FirstDay(k) <= DayOf(t) /\ k + 1 \in 1..(L + 1) /\ k \in Months
        BY <1>1, <2>3
      <3>2. ~(DayOf(t) < FirstDay(k + 1)) /\ FirstDay(k + 1) \in Nat
        BY <1>1, <2>1, <3>1 DEF InMonth
      <3> QED
        BY <1>1, <1>4, <3>2
    <2>4. 0..L \subseteq T
      <3> HIDE DEF T, L
      <3> QED
        BY <1>1, <2>2, <2>3, Upward
    <2>5. FirstDay(L + 1) <= DayOf(t)
      BY <1>1, <2>4
    <2> QED
      BY <1>2, <1>4, <2>5
  <1>6. MonthOf(t) = CHOOSE m \in Months : InMonth(t, m)
    BY DEF MonthOf, InMonth
  <1>7. MonthOf(t) \in Months /\ InMonth(t, MonthOf(t))
    BY <1>5, <1>6
  <1>8. ASSUME NEW m \in Months, NEW n \in Months, InMonth(t, m), InMonth(t, n), m < n
        PROVE  FALSE
    <2>1. m \in 1..(L + 1) /\ n \in 1..(L + 1) /\ m + 1 \in 1..(L + 1)
      BY <1>1
    <2>2. FirstDay(m + 1) <= FirstDay(n)
      BY <1>8, <2>1, FirstDaysGrow
    <2> QED
      BY <1>1, <1>4, <1>8, <2>1, <2>2 DEF InMonth
  <1>9. ASSUME NEW m \in Months, InMonth(t, m) PROVE m = MonthOf(t)
    <2>1. m \in Int /\ MonthOf(t) \in Int
      BY <1>1, <1>7
    <2> QED
      BY <1>7, <1>8, <1>9, <2>1
  <1> QED
    BY <1>3, <1>4, <1>7, <1>9

\* Where the day and the month of a moment begin.
DayStart(t) == Midnight(DayOf(t))
MonthBegin(t) == Midnight(FirstDay(MonthOf(t)))

LEMMA StartsType ==
    ASSUME NEW t \in Moments
    PROVE  /\ DayStart(t) \in Nat /\ DayStart(t) <= t
           /\ MonthBegin(t) \in Nat /\ MonthBegin(t) <= DayStart(t)
           /\ FirstDay(MonthOf(t)) \in Nat
  <1>1. /\ t \in Nat /\ DayOf(t) \in Nat /\ MonthOf(t) \in Months
        /\ FirstDay(MonthOf(t)) <= DayOf(t)
    BY MonthExists DEF InMonth
  <1>2. FirstDay(MonthOf(t)) \in Nat
    BY <1>1, CalendarFacts
  <1> QED
    BY <1>1, <1>2 DEF DayStart, MonthBegin, Midnight, DayOf, HoursPerDay

(* A moment is of the same day or month as a later one when it does not    *)
(* precede the start of it.                                                *)
LEMMA SameDayStart ==
    ASSUME NEW t \in Moments, NEW u \in Moments, t <= u
    PROVE  SameDay(t, u) <=> DayStart(u) <= t
  <1>1. t \in Nat /\ u \in Nat
    BY MonthExists
  <1> QED
    BY <1>1 DEF SameDay, DayStart, Midnight, DayOf, HoursPerDay

LEMMA SameMonthStart ==
    ASSUME NEW t \in Moments, NEW u \in Moments, t <= u
    PROVE  SameMonth(t, u) <=> MonthBegin(u) <= t
  <1>1. /\ t \in Nat /\ DayOf(t) \in Nat /\ MonthOf(t) \in Months
        /\ InMonth(t, MonthOf(t))
    BY MonthExists
  <1>2. /\ u \in Nat /\ DayOf(u) \in Nat /\ MonthOf(u) \in Months
        /\ InMonth(u, MonthOf(u)) /\ \A m \in Months : InMonth(t, m) => m = MonthOf(t)
    BY MonthExists
  <1>3. FirstDay(MonthOf(u)) \in Nat /\ FirstDay(MonthOf(u) + 1) \in Nat
    BY <1>2, CalendarFacts
  <1>4. DayOf(t) <= DayOf(u)
    BY <1>1, <1>2 DEF DayOf, HoursPerDay
  <1>5. MonthBegin(u) <= t <=> FirstDay(MonthOf(u)) <= DayOf(t)
    BY <1>1, <1>3 DEF MonthBegin, Midnight, DayOf, HoursPerDay
  <1>6. InMonth(t, MonthOf(u)) <=> FirstDay(MonthOf(u)) <= DayOf(t)
    BY <1>1, <1>2, <1>3, <1>4 DEF InMonth
  <1> QED
    BY <1>1, <1>2, <1>5, <1>6 DEF SameMonth

(* The clock runs in the calendar, after its first month.                  *)
LEMMA ClockFacts ==
    ASSUME NEW t \in Clock
    PROVE  /\ t \in Moments /\ t - 1 \in Moments /\ t \in Nat
           /\ MonthOf(t) - 1 \in Months
  <1>1. /\ Months = 1..Len(MonthLengths) /\ Len(MonthLengths) \in Nat
        /\ Len(MonthLengths) >= 2
    BY CalendarFacts, CalendarAssumption
  <1>2. SumOf(MonthLengths) \in Nat /\ FirstDay(2) \in Nat /\ FirstDay(2) >= 28
    <2>1. 1 \in Months /\ Len(MonthLengths) + 1 \in 1..(Len(MonthLengths) + 1)
      BY <1>1
    <2>2. FirstDay(1 + 1) = FirstDay(1) + MonthLengths[1] /\ MonthLengths[1] \in 28..31
      BY <2>1, CalendarFacts
    <2>3. FirstDay(1) = 0 /\ SumOf(MonthLengths) \in Nat
      BY <2>1, CalendarFacts
    <2> QED
      BY <2>2, <2>3
  <1>3. t \in Moments /\ t - 1 \in Moments /\ t \in Nat
    BY <1>2 DEF Clock, Moments, Midnight, HoursPerDay
  <1>4. FirstDay(2) <= DayOf(t)
    BY <1>2, <1>3 DEF Clock, DayOf, Midnight, HoursPerDay
  <1>5. MonthOf(t) \in Months /\ DayOf(t) \in Nat /\ DayOf(t) < FirstDay(MonthOf(t) + 1)
    BY <1>3, MonthExists DEF InMonth
  <1>6. MonthOf(t) # 1
    BY <1>2, <1>4, <1>5
  <1> QED
    BY <1>1, <1>3, <1>5, <1>6

----------------------------------------------------------------------------
(* The periods of the chart                                                *)

LEMMA AlwaysNested ==
    ASSUME NEW t \in Clock
    PROVE  Nested(t)
  <1> DEFINE m == MonthOf(t)
  <1>1. t \in Nat /\ t \in Moments /\ m - 1 \in Months
    BY ClockFacts
  <1>2. m \in Months /\ FirstDay(m) \in Nat
    BY <1>1, MonthExists, CalendarFacts
  <1>3. /\ FirstDay(m - 1) \in Nat /\ MonthLengths[m - 1] \in 28..31
        /\ FirstDay(m) = FirstDay(m - 1) + MonthLengths[m - 1]
    <2>1. m \in Int /\ (m - 1) + 1 = m
      BY <1>2, CalendarFacts
    <2> QED
      BY <1>1, <2>1, CalendarFacts
  <1>4. MonthBack(t) = t - Midnight(MonthLengths[m - 1])
    BY <1>1, <1>2, <1>3 DEF MonthBack, Midnight, DayOf, HourOf, HoursPerDay
  <1>5. /\ GetStartDate("monthly", t) = t - Midnight(MonthLengths[m - 1])
        /\ GetStartDate("weekly", t) = t - 7 * HoursPerDay
        /\ GetStartDate("daily", t) = t - HoursPerDay
        /\ GetStartDate("hourly", t) = t - 1
    BY <1>4 DEF GetStartDate
  <1>6. Midnight(MonthLengths[m - 1]) \in Nat /\ Midnight(MonthLengths[m - 1]) >= 28 * 24
    BY <1>3 DEF Midnight, HoursPerDay
  <1> HIDE DEF m
  <1>7. t - GetStartDate("monthly", t) = Midnight(MonthLengths[m - 1])
    BY <1>1, <1>5, <1>6
  <1>8. /\ GetStartDate("monthly", t) <= GetStartDate("weekly", t)
        /\ GetStartDate("weekly", t) < GetStartDate("daily", t)
        /\ GetStartDate("daily", t) < GetStartDate("hourly", t)
    BY <1>1, <1>5, <1>6 DEF HoursPerDay
  <1> QED
    BY <1>1, <1>7, <1>8 DEF Nested

(* Whatever the lengths of the months, the periods are nested at every     *)
(* moment of the clock, also where setMonth runs on into the next month:   *)
(* the monthly period reaches back by the length of the previous month.    *)
THEOREM PeriodsAreNested == Spec => []PeriodsNested
  <1>1. PeriodsNested
    BY AlwaysNested DEF PeriodsNested, UnnestedMoments
  <1> QED
    BY <1>1, PTL

----------------------------------------------------------------------------
(* The invariant                                                           *)

\* Rows are not from the future, and measured within a lag of Lags.
RowsOK ==
    /\ rows \in Seq(Metrics)
    /\ \A k \in DOMAIN rows : /\ rows[k].created <= now
                              /\ rows[k].created - rows[k].measured \in Lags

RemovalsOK ==
    /\ removedAt \in [Inverters -> Clock \cup {None}]
    /\ \A i \in Inverters : removedAt[i] # None => removedAt[i] <= now

\* What a request or an answer holds.
Times == Int \cup {None}
RequestOK(d) ==
    \/ d = NoRequest
    \/ /\ d.pc \in {"today", "month", "answered"}
       /\ d.inverter \in Inverters /\ d.lastUpdated \in Times
       /\ d.pc # "today" => /\ d.savedToday \in Nat
                            /\ d.todayReadAt \in Clock /\ d.todayReadAt <= now
       /\ d.pc = "answered" => /\ d.savedMonth \in Nat
                               /\ d.monthReadAt \in Clock /\ d.monthReadAt <= now

\* A sum read at the moment at over the rows from the moment from on.  While
\* the inverter is there, the rows created before the hour of the read count,
\* none created after it; once the inverter is gone, it has none.
Bracketed(table, gone, total, i, from, at) ==
    /\ total <= WindowTotal(table, i, from, at)
    /\ gone[i] = None \/ at < gone[i]
         => WindowTotal(table, i, from, at - 1) <= total
    /\ gone[i] # None /\ gone[i] < at => total = 0

SumsOK(d) ==
    /\ d.pc \in {"month", "answered"}
         => Bracketed(rows, removedAt, d.savedToday, d.inverter,
                      DayStart(d.todayReadAt), d.todayReadAt)
    /\ d.pc = "answered"
         => Bracketed(rows, removedAt, d.savedMonth, d.inverter,
                      MonthBegin(d.monthReadAt), d.monthReadAt)

MonthOK(d) ==
    d.pc = "answered" =>
        \/ d.savedToday <= d.savedMonth
        \/ ~SameMonth(d.todayReadAt, d.monthReadAt)
        \/ RemovedWithin(d.inverter, d.todayReadAt, d.monthReadAt)

\* Some row was measured at t or later.
Reached(table, i, t) ==
    \E k \in DOMAIN table : table[k].inverter = i /\ t <= table[k].measured

\* The update a request has read is that of a row.
UpdateOK(d) ==
    d.pc # "idle" /\ d.lastUpdated # None => Reached(rows, d.inverter, d.lastUpdated)

RequestInv(d) == RequestOK(d) /\ SumsOK(d) /\ MonthOK(d) /\ UpdateOK(d)

Typed == now \in Clock /\ RowsOK /\ RemovalsOK /\ DOMAIN dash = Slots
IInv == Typed /\ \A s \in Slots : RequestInv(dash[s])

LEMMA IdleInv ==
    ASSUME NEW d, d = NoRequest
    PROVE  RequestInv(d)
  <1>1. d.pc = "idle"
    BY DEF NoRequest
  <1> QED
    BY <1>1 DEF RequestInv, RequestOK, SumsOK, MonthOK, UpdateOK

LEMMA InitIInv == Init => IInv
  <1> SUFFICES ASSUME Init PROVE IInv
    OBVIOUS
  <1>1. /\ rows = <<>> /\ removedAt = [i \in Inverters |-> None] /\ now \in Clock
        /\ DOMAIN dash = Slots /\ \A s \in Slots : dash[s] = NoRequest
    BY TimeAssumption DEF Init
  <1>2. RowsOK /\ RemovalsOK
    BY <1>1 DEF RowsOK, RemovalsOK
  <1>3. \A s \in Slots : RequestInv(dash[s])
    BY <1>1, IdleInv
  <1> QED
    BY <1>1, <1>2, <1>3 DEF IInv, Typed

(* What the steps leave of a request they do not touch: time does not run  *)
(* back, rows only come in, no inverter comes back, and what has been read *)
(* stays bracketed and reached.                                            *)
Onward ==
    /\ \A t \in Clock : t <= now => t <= now'
    /\ \A j \in Inverters : removedAt[j] # None => removedAt'[j] = removedAt[j]
    /\ \A j \in Inverters, total \in Nat, at \in Clock : \A from :
         at <= now /\ Bracketed(rows, removedAt, total, j, from, at)
           => Bracketed(rows', removedAt', total, j, from, at)
    /\ \A j, t : Reached(rows, j, t) => Reached(rows', j, t)

LEMMA Kept ==
    ASSUME IInv, Onward, NEW s \in Slots, dash'[s] = dash[s]
    PROVE  RequestInv(dash[s])'
  <1> DEFINE d == dash[s]
  <1>1. RequestInv(d)
    BY DEF IInv
  <1>2. CASE d = NoRequest
    <2>1. d.pc = "idle" /\ dash'[s] = NoRequest /\ dash'[s].pc = "idle"
      BY <1>2 DEF NoRequest
    <2> QED
      BY <2>1 DEF RequestInv, RequestOK, SumsOK, MonthOK, UpdateOK
  <1>3. CASE d # NoRequest
    <2>1. /\ d.pc \in {"today", "month", "answered"}
          /\ d.inverter \in Inverters /\ d.lastUpdated \in Times
          /\ d.pc \in {"month", "answered"}
               => /\ d.savedToday \in Nat
                  /\ d.todayReadAt \in Clock /\ d.todayReadAt <= now
          /\ d.pc = "answered" => /\ d.savedMonth \in Nat
                                  /\ d.monthReadAt \in Clock /\ d.monthReadAt <= now
      BY <1>1, <1>3 DEF RequestInv, RequestOK
    <2>2. RequestOK(dash[s])'
      BY <2>1 DEF Onward, RequestOK
    <2>3. SumsOK(dash[s])'
      <3>1. SumsOK(d)
        BY <1>1 DEF RequestInv
      <3> QED
        BY <2>1, <3>1 DEF Onward, SumsOK
    <2>4. MonthOK(dash[s])'
      <3>1. MonthOK(d)
        BY <1>1 DEF RequestInv
      <3>2. d.pc = "answered"
              /\ RemovedWithin(d.inverter, d.todayReadAt, d.monthReadAt)
              => removedAt'[d.inverter] = removedAt[d.inverter]
        BY <2>1 DEF Onward, RemovedWithin, Present
      <3> QED
        BY <3>1, <3>2 DEF MonthOK, RemovedWithin, Present
    <2>5. UpdateOK(dash[s])'
      <3>1. UpdateOK(d)
        BY <1>1 DEF RequestInv
      <3> QED
        BY <3>1 DEF Onward, UpdateOK
    <2> QED
      BY <2>2, <2>3, <2>4, <2>5 DEF RequestInv
  <1> QED
    BY <1>2, <1>3

(* A row that is inserted now is not among the rows up to an earlier       *)
(* moment, and takes none of the others away: what has been read stays     *)
(* bracketed and reached.                                                  *)
LEMMA IngestKeeps ==
    ASSUME RowsOK, now \in Clock, NEW i \in Inverters, NEW amount \in Amounts,
           NEW lag \in Lags, Ingest(i, amount, lag)
    PROVE  RowsOK' /\ Onward
  <1> DEFINE row == Metric(i, now, now - lag, amount)
             N == Len(rows)
  <1>1. rows \in Seq(Metrics) /\ rows' = Append(rows, row) /\ now' = now
        /\ removedAt' = removedAt
    BY DEF Ingest, RowsOK
  <1>2. now \in Nat /\ lag \in Nat /\ amount \in Nat
    BY ClockFacts, RowsAssumption
  <1>3. /\ row \in Metrics /\ row.created = now
        /\ row.created - row.measured = lag /\ row.inverter = i
    BY <1>2 DEF Metrics, Metric
  <1> HIDE DEF row
  <1>4. /\ N \in Nat /\ DOMAIN rows = 1..N /\ rows' \in Seq(Metrics)
        /\ DOMAIN rows' = 1..(N + 1) /\ Len(rows') = N + 1 /\ rows'[N + 1] = row
        /\ \A k \in 1..N : rows'[k] = rows[k]
    BY <1>1, <1>3
  <1>5. RowsOK'
    <2>1. ASSUME NEW k \in 1..(N + 1)
          PROVE  rows'[k].created <= now' /\ rows'[k].created - rows'[k].measured \in Lags
      <3>1. CASE k = N + 1
        BY <1>1, <1>2, <1>3, <1>4, <3>1
      <3>2. CASE k # N + 1
        <4>1. k \in 1..N
          BY <1>4, <3>2
        <4> QED
          BY <4>1, <1>1, <1>4 DEF RowsOK
      <3> QED
        BY <3>1, <3>2
    <2> QED
      BY <1>4, <2>1 DEF RowsOK
  <1>6. ASSUME NEW j, NEW from, NEW at
        PROVE  WindowTotal(rows, j, from, at) <= WindowTotal(rows', j, from, at)
    <2> DEFINE A == Window(rows, j, from, at)
               B == Window(rows', j, from, at)
    <2>1. \A k \in 1..(N + 1) : k \in A => k \in B
      BY <1>4 DEF Window
    <2> HIDE DEF A, B
    <2>2. TotalOf(rows, A) <= TotalOf(rows', A)
      BY <1>1, <1>3, TotalAppended
    <2>3. TotalOf(rows', A) <= TotalOf(rows', B)
      BY <1>4, <2>1, TotalMonotone
    <2>4. /\ TotalOf(rows, A) \in Nat /\ TotalOf(rows', A) \in Nat
          /\ TotalOf(rows', B) \in Nat
      BY <1>1, <1>4, SummandsType
    <2> QED
      BY <2>2, <2>3, <2>4 DEF WindowTotal, A, B
  <1>7. ASSUME NEW j, NEW from, NEW at \in Int, at < now
        PROVE  WindowTotal(rows', j, from, at) = WindowTotal(rows, j, from, at)
    <2> DEFINE A == Window(rows, j, from, at)
               B == Window(rows', j, from, at)
    <2>1. N + 1 \notin A /\ \A k \in A : k \in 1..N
      BY <1>4 DEF Window
    <2>2. \A k \in B : k \in 1..(N + 1)
      BY <1>4 DEF Window
    <2>3. \A k \in 1..N : k \in B <=> k \in A
      BY <1>4 DEF Window
    <2>4. N + 1 \notin B
      <3>1. ~(rows'[N + 1].created <= at)
        BY <1>2, <1>3, <1>4, <1>7
      <3> QED
        BY <3>1 DEF Window
    <2>5. \A k \in 1..(N + 1) : k # N + 1 => k \in 1..N
      BY <1>4
    <2> HIDE DEF A, B
    <2>6. A = B
      BY <2>1, <2>2, <2>3, <2>4, <2>5
    <2>7. TotalOf(rows', A) = TotalOf(rows, A)
      BY <1>1, <1>3, <2>1, TotalAppended
    <2> QED
      BY <2>6, <2>7 DEF WindowTotal, A, B
  <1>8. ASSUME NEW total \in Nat, NEW j, NEW from, NEW at \in Clock, at <= now,
               Bracketed(rows, removedAt, total, j, from, at)
        PROVE  Bracketed(rows', removedAt', total, j, from, at)
    <2>1. at - 1 \in Int /\ at - 1 < now
      BY <1>2, <1>8, ClockFacts
    <2>2. /\ WindowTotal(rows', j, from, at - 1) = WindowTotal(rows, j, from, at - 1)
          /\ WindowTotal(rows, j, from, at) <= WindowTotal(rows', j, from, at)
      BY <1>6, <1>7, <2>1
    <2>3. /\ WindowTotal(rows, j, from, at) \in Nat
          /\ WindowTotal(rows', j, from, at) \in Nat
      BY <1>1, <1>4, SummandsType DEF WindowTotal
    <2>4. total <= WindowTotal(rows', j, from, at)
      BY <1>8, <2>2, <2>3 DEF Bracketed
    <2> QED
      BY <1>1, <1>8, <2>2, <2>4 DEF Bracketed
  <1>9. ASSUME NEW j, NEW t, Reached(rows, j, t) PROVE Reached(rows', j, t)
    <2>1. PICK k \in 1..N : rows[k].inverter = j /\ t <= rows[k].measured
      BY <1>4, <1>9 DEF Reached
    <2>2. k \in 1..(N + 1) /\ rows'[k] = rows[k]
      BY <1>4
    <2> QED
      BY <1>4, <2>1, <2>2 DEF Reached
  <1>10. Onward
    BY <1>1, <1>8, <1>9 DEF Onward
  <1> QED
    BY <1>5, <1>10

(* An inverter is removed after whatever has been read of it.              *)
LEMMA RemoveOwnerKeeps ==
    ASSUME Typed, NEW owned \in SUBSET Inverters, RemoveOwner(owned)
    PROVE  RemovalsOK' /\ Onward
  <1>1. /\ rows' = rows /\ now' = now /\ now \in Clock /\ now \in Nat
        /\ \A j \in owned : removedAt[j] = None
        /\ removedAt' = [j \in Inverters |-> IF j \in owned THEN now ELSE removedAt[j]]
    BY ClockFacts DEF RemoveOwner, Present, Typed
  <1>2. /\ \A j \in Inverters : removedAt[j] \in Clock \cup {None}
        /\ \A j \in Inverters : removedAt[j] # None => removedAt[j] <= now
    BY DEF Typed, RemovalsOK
  <1>3. now # None
    BY <1>1, NoneAssumption
  <1>4. RemovalsOK'
    BY <1>1, <1>2 DEF RemovalsOK
  <1>5. ASSUME NEW j \in Inverters, removedAt[j] # None
        PROVE  removedAt'[j] = removedAt[j]
    BY <1>1, <1>5
  <1>6. ASSUME NEW j \in Inverters, NEW total \in Nat, NEW at \in Clock, NEW from,
               at <= now, Bracketed(rows, removedAt, total, j, from, at)
        PROVE  Bracketed(rows, removedAt', total, j, from, at)
    <2>1. CASE j \in owned
      <3>1. removedAt[j] = None /\ removedAt'[j] = now
        BY <1>1, <2>1
      <3>2. at \in Nat
        BY ClockFacts
      <3>3. ~(now < at)
        BY <1>1, <1>6, <3>2
      <3> QED
        BY <1>6, <3>1, <3>3 DEF Bracketed
    <2>2. CASE j \notin owned
      <3>1. removedAt'[j] = removedAt[j]
        BY <1>1, <2>2
      <3> QED
        BY <1>6, <3>1 DEF Bracketed
    <2> QED
      BY <2>1, <2>2
  <1>7. Onward
    BY <1>1, <1>5, <1>6 DEF Onward
  <1> QED
    BY <1>4, <1>7

LEMMA TickKeeps ==
    ASSUME Typed, NEW hours \in Jumps, Tick(hours)
    PROVE  now' \in Clock /\ RowsOK' /\ RemovalsOK' /\ Onward
  <1>1. /\ now \in Nat /\ hours \in Nat /\ now' = now + hours /\ now' \in Clock
        /\ rows' = rows /\ removedAt' = removedAt
    BY ClockFacts, TimeAssumption DEF Typed, Tick
  <1>2. \A t \in Clock : t <= now => t <= now'
    BY <1>1, ClockFacts
  <1>3. RowsOK'
    <2>1. ASSUME NEW k \in DOMAIN rows
          PROVE  /\ rows[k].created <= now'
                 /\ rows[k].created - rows[k].measured \in Lags
      <3>1. rows[k] \in Metrics /\ rows[k].created <= now
            /\ rows[k].created - rows[k].measured \in Lags
        BY DEF Typed, RowsOK
      <3>2. rows[k].created \in Clock
        BY <3>1 DEF Metrics
      <3> QED
        BY <1>2, <3>1, <3>2
    <2> QED
      BY <1>1, <2>1 DEF Typed, RowsOK
  <1>4. RemovalsOK'
    <2>1. ASSUME NEW i \in Inverters, removedAt[i] # None PROVE removedAt[i] <= now'
      <3>1. removedAt[i] \in Clock /\ removedAt[i] <= now
        BY <2>1 DEF Typed, RemovalsOK
      <3> QED
        BY <1>2, <3>1
    <2> QED
      BY <1>1, <2>1 DEF Typed, RemovalsOK
  <1>5. Onward
    BY <1>1, <1>2 DEF Onward
  <1> QED
    BY <1>1, <1>3, <1>4, <1>5

----------------------------------------------------------------------------
(* The reads                                                               *)

LEMMA TotalFacts ==
    ASSUME RowsOK, NEW A, NEW B
    PROVE  /\ Total(A) \in Nat
           /\ (\A k \in A : k \in B) => Total(A) <= Total(B)
  <1>1. \A C : Total(C) = TotalOf(rows, C)
    BY DEF Total, TotalOf, Summands
  <1>2. rows \in Seq(Metrics)
    BY DEF RowsOK
  <1> QED
    BY <1>1, <1>2, SummandsType, TotalMonotone

LEMMA RowFacts ==
    ASSUME RowsOK, now \in Clock, NEW k \in DOMAIN rows
    PROVE  /\ rows[k].created \in Clock /\ rows[k].created \in Nat
           /\ rows[k].created <= now /\ rows[k].measured \in Int
           /\ rows[k].measured <= rows[k].created
           /\ rows[k].created - rows[k].measured \in Lags
  <1>2. rows[k] \in Metrics
    BY DEF RowsOK
  <1>3. rows[k].created \in Clock /\ rows[k].measured \in Int
    BY <1>2 DEF Metrics
  <1>4. rows[k].created \in Nat
    BY <1>3, ClockFacts
  <1>5. rows[k].created <= now /\ rows[k].created - rows[k].measured \in Lags
    BY DEF RowsOK
  <1>6. rows[k].created - rows[k].measured \in Nat
    BY <1>5, RowsAssumption
  <1> QED
    BY <1>3, <1>4, <1>5, <1>6

(* A sum read now is bracketed.                                            *)
LEMMA ReadNow ==
    ASSUME Typed, NEW i \in Inverters, NEW from
    PROVE  /\ Total(Between(i, from, now)) \in Nat
           /\ Bracketed(rows, removedAt, Total(Between(i, from, now)), i, from, now)
  <1>1. now \in Nat /\ now \in Clock /\ RowsOK /\ rows \in Seq(Metrics)
    BY ClockFacts DEF Typed, RowsOK
  <1>2. ASSUME NEW k \in Between(i, from, now - 1) PROVE k \in Between(i, from, now)
    <2>1. k \in Own(i) /\ from <= rows[k].created
      BY DEF Between
    <2>2. rows[k].created <= now
      BY <1>1, <2>1, RowFacts DEF Own
    <2> QED
      BY <2>1, <2>2 DEF Between
  <1>3. /\ Total(Between(i, from, now)) \in Nat
        /\ Total(Between(i, from, now - 1)) <= Total(Between(i, from, now))
    BY <1>1, <1>2, TotalFacts
  <1>4. WindowTotal(rows, i, from, now) \in Nat
    BY <1>1, SummandsType DEF WindowTotal
  <1>5. CASE Present(i)
    <2>1. /\ Total(Between(i, from, now)) = WindowTotal(rows, i, from, now)
          /\ Total(Between(i, from, now - 1)) = WindowTotal(rows, i, from, now - 1)
      BY <1>5, BetweenIsWindow
    <2> QED
      BY <1>3, <1>4, <1>5, <2>1 DEF Bracketed, Present
  <1>6. CASE ~Present(i)
    <2>1. removedAt[i] # None /\ removedAt[i] \in Clock /\ removedAt[i] <= now
      BY <1>6 DEF Present, Typed, RemovalsOK
    <2>2. ~(now < removedAt[i])
      <3>1. removedAt[i] \in Nat
        BY <2>1, ClockFacts
      <3> QED
        BY <1>1, <2>1, <3>1
    <2>3. Between(i, from, now) = {}
      BY <1>6 DEF Between, Own
    <2>4. Total(Between(i, from, now)) = 0
      BY <1>1, <2>3, TotalOfNone DEF Total, TotalOf, Summands
    <2> QED
      BY <1>4, <2>1, <2>2, <2>4 DEF Bracketed
  <1> QED
    BY <1>3, <1>5, <1>6

(* A set of integers with an upper bound has a largest one.                *)
LEMMA Largest ==
    ASSUME NEW S, S \subseteq Int, S # {}, NEW b \in Int, \A x \in S : x <= b
    PROVE  \E x \in S : \A y \in S : y <= x
  <1> DEFINE Below == {b - x : x \in S}
  <1>1. Below \subseteq Nat /\ Below # {}
    <2>1. ASSUME NEW x \in S PROVE b - x \in Nat
      <3>1. x \in Int /\ x <= b
        OBVIOUS
      <3> QED
        BY <3>1
    <2>2. Below # {}
      OBVIOUS
    <2> QED
      BY <2>1, <2>2
  <1>2. PICK d \in Below : \A e \in Below : ~ (<<e, d>> \in OpToRel(<, Nat))
    <2> HIDE DEF Below
    <2> QED
      BY <1>1, NatLessThanWellFounded, WFMin
  <1>3. \A e \in Below : ~(e < d)
    BY <1>1, <1>2 DEF OpToRel
  <1>4. PICK x \in S : d = b - x
    OBVIOUS
  <1>5. ASSUME NEW y \in S PROVE y <= x
    <2>1. ~(b - y < b - x)
      BY <1>3, <1>4
    <2>2. x \in Int /\ y \in Int
      OBVIOUS
    <2> QED
      BY <2>1, <2>2
  <1> QED
    BY <1>5

LEMMA LatestFacts ==
    ASSUME RowsOK, now \in Clock, NEW i
    PROVE  /\ Latest(i) \in Times
           /\ Latest(i) # None => Reached(rows, i, Latest(i))
           /\ Present(i) =>
                \A t \in Int : Reached(rows, i, t) => Latest(i) # None /\ t <= Latest(i)
  <1> DEFINE measured == {rows[k].measured : k \in Own(i)}
  <1>1. now \in Nat
    BY ClockFacts
  <1>2. ASSUME NEW k \in Own(i) PROVE rows[k].measured \in Int /\ rows[k].measured <= now
    BY <1>1, RowFacts DEF Own
  <1>3. CASE measured = {}
    <2>1. Latest(i) = None /\ Own(i) = {}
      BY <1>3 DEF Latest
    <2> QED
      BY <2>1 DEF Times, Reached, Own
  <1>4. CASE measured # {}
    <2> DEFINE IsLargest(t) == \A u \in measured : u <= t
    <2>1. \E t \in measured : IsLargest(t)
      <3>1. measured \subseteq Int /\ now \in Int /\ \A x \in measured : x <= now
        BY <1>1, <1>2
      <3> HIDE DEF measured
      <3> QED
        BY <1>1, <1>4, <3>1, Largest
    <2>2. Latest(i) = CHOOSE t \in measured : IsLargest(t)
      BY <1>4 DEF Latest
    <2>3. Latest(i) \in measured /\ IsLargest(Latest(i))
      <3> HIDE DEF measured, IsLargest
      <3> QED
        BY <2>1, <2>2
    <2>4. PICK k \in Own(i) : Latest(i) = rows[k].measured
      BY <2>3
    <2>5. Latest(i) \in Int /\ Latest(i) # None
      BY <1>2, <2>4, NoneAssumption
    <2>6. Reached(rows, i, Latest(i))
      BY <2>4, <2>5 DEF Reached, Own
    <2>7. ASSUME Present(i), NEW t \in Int, Reached(rows, i, t) PROVE t <= Latest(i)
      <3>1. PICK l \in Own(i) : t <= rows[l].measured
        BY <2>7 DEF Reached, Own
      <3>2. rows[l].measured \in Int /\ rows[l].measured <= Latest(i)
        BY <1>2, <2>3
      <3> QED
        BY <3>1, <3>2, <2>5
    <2> QED
      BY <2>5, <2>6, <2>7 DEF Times
  <1> QED
    BY <1>3, <1>4

(* The rows of a day are among the rows of its month so far.               *)
LEMMA TodayInMonth ==
    ASSUME RowsOK, now \in Clock, NEW i, NEW at \in Clock, at <= now, SameMonth(at, now)
    PROVE  Total(Between(i, DayStart(at), at)) <= Total(Between(i, MonthBegin(now), now))
  <1>1. /\ now \in Moments /\ at \in Moments /\ now \in Nat /\ at \in Nat
    BY ClockFacts
  <1>2. /\ DayStart(at) \in Nat /\ MonthBegin(now) \in Nat
        /\ MonthBegin(at) <= DayStart(at) /\ MonthBegin(at) \in Nat
    BY <1>1, StartsType
  <1>3. MonthBegin(at) = MonthBegin(now)
    BY DEF SameMonth, MonthBegin
  <1>4. ASSUME NEW k \in Between(i, DayStart(at), at)
        PROVE  k \in Between(i, MonthBegin(now), now)
    <2>1. k \in Own(i) /\ DayStart(at) <= rows[k].created
      BY DEF Between
    <2>2. rows[k].created <= now /\ rows[k].created \in Nat
      BY <2>1, RowFacts DEF Own
    <2>3. MonthBegin(now) <= rows[k].created
      BY <1>2, <1>3, <2>1, <2>2
    <2> QED
      BY <2>1, <2>2, <2>3 DEF Between
  <1> QED
    BY <1>4, TotalFacts

----------------------------------------------------------------------------
(* Every step keeps the invariant                                          *)

(* A request that reads, or ends, keeps what the others hold.              *)
LEMMA RequestStep ==
    ASSUME IInv, NEW s \in Slots, NEW d, Become(s, d),
           UNCHANGED <<now, rows, removedAt>>, RequestInv(d)
    PROVE  IInv'
  <1>1. /\ now' = now /\ rows' = rows /\ removedAt' = removedAt
        /\ dash' = [dash EXCEPT ![s] = d] /\ DOMAIN dash = Slots
    BY DEF IInv, Typed, Become
  <1>2. Typed'
    BY <1>1 DEF IInv, Typed, RowsOK, RemovalsOK
  <1>3. Onward
    BY <1>1 DEF Onward
  <1>4. ASSUME NEW t \in Slots PROVE RequestInv(dash[t])'
    <2>1. CASE t = s
      <3>1. dash'[t] = d
        BY <1>1, <2>1
      <3> QED
        BY <1>1, <3>1 DEF RequestInv, RequestOK, SumsOK, MonthOK, UpdateOK,
                          RemovedWithin, Present
    <2>2. CASE t # s
      <3>1. dash'[t] = dash[t]
        BY <1>1, <2>2
      <3> QED
        BY <1>3, <3>1, Kept
    <2> QED
      BY <2>1, <2>2
  <1> QED
    BY <1>2, <1>4 DEF IInv

LEMMA ReadLatestIInv ==
    ASSUME IInv, NEW s \in Slots, NEW i \in Inverters, ReadLatest(s, i)
    PROVE  IInv'
  <1> DEFINE d == [pc |-> "today", inverter |-> i, lastUpdated |-> Latest(i)]
  <1>1. Become(s, d) /\ UNCHANGED <<now, rows, removedAt>>
    BY DEF ReadLatest
  <1>2. d.pc = "today" /\ d.inverter = i /\ d.lastUpdated = Latest(i)
    OBVIOUS
  <1>3. Latest(i) \in Times /\ (Latest(i) # None => Reached(rows, i, Latest(i)))
    BY LatestFacts DEF IInv, Typed
  <1> HIDE DEF d
  <1>4. RequestInv(d)
    BY <1>2, <1>3 DEF RequestInv, RequestOK, SumsOK, MonthOK, UpdateOK
  <1> QED
    BY <1>1, <1>4, RequestStep

LEMMA ReadTodayIInv ==
    ASSUME IInv, NEW s \in Slots, ReadToday(s)
    PROVE  IInv'
  <1> DEFINE c == dash[s]
             saved == Total(Between(c.inverter, TodayStart, now))
             d == [pc |-> "month", inverter |-> c.inverter,
                   lastUpdated |-> c.lastUpdated,
                   savedToday |-> saved, todayReadAt |-> now]
  <1>1. Become(s, d) /\ UNCHANGED <<now, rows, removedAt>> /\ c.pc = "today"
    BY DEF ReadToday, At
  <1>2. /\ d.pc = "month" /\ d.inverter = c.inverter /\ d.lastUpdated = c.lastUpdated
        /\ d.savedToday = saved /\ d.todayReadAt = now
    OBVIOUS
  <1> HIDE DEF d, c
  <1>3. RequestInv(c)
    BY DEF IInv, c
  <1>4. c.inverter \in Inverters /\ c.lastUpdated \in Times
    BY <1>1, <1>3 DEF RequestInv, RequestOK, NoRequest
  <1>5. /\ saved \in Nat /\ now \in Clock /\ now \in Nat
        /\ Bracketed(rows, removedAt, saved, c.inverter, DayStart(now), now)
    <2>1. TodayStart = DayStart(now)
      BY DEF TodayStart, DayStart
    <2>2. now \in Clock /\ now \in Nat
      BY ClockFacts DEF IInv, Typed
    <2> QED
      BY <1>4, <2>1, <2>2, ReadNow DEF IInv
  <1> HIDE DEF saved
  <1>6. UpdateOK(d)
    BY <1>1, <1>2, <1>3 DEF RequestInv, UpdateOK
  <1>7. RequestInv(d)
    BY <1>2, <1>4, <1>5, <1>6 DEF RequestInv, RequestOK, SumsOK, MonthOK
  <1> QED
    BY <1>1, <1>7, RequestStep

(* What was read today is among what is read of the month: unless the      *)
(* month has turned, or the inverter was removed since.                    *)
LEMMA ReadMonthIInv ==
    ASSUME IInv, NEW s \in Slots, ReadMonth(s)
    PROVE  IInv'
  <1> DEFINE c == dash[s]
             saved == Total(Between(c.inverter, MonthStart, now))
             d == [pc |-> "answered", inverter |-> c.inverter,
                   lastUpdated |-> c.lastUpdated,
                   savedToday |-> c.savedToday, todayReadAt |-> c.todayReadAt,
                   savedMonth |-> saved, monthReadAt |-> now]
  <1>1. Become(s, d) /\ UNCHANGED <<now, rows, removedAt>> /\ c.pc = "month"
    BY DEF ReadMonth, At
  <1>2. /\ d.pc = "answered" /\ d.inverter = c.inverter
        /\ d.lastUpdated = c.lastUpdated
        /\ d.savedToday = c.savedToday /\ d.todayReadAt = c.todayReadAt
        /\ d.savedMonth = saved /\ d.monthReadAt = now
    OBVIOUS
  <1> HIDE DEF d, c
  <1>3. RequestInv(c)
    BY DEF IInv, c
  <1>4. /\ c.inverter \in Inverters /\ c.lastUpdated \in Times
        /\ c.savedToday \in Nat /\ c.todayReadAt \in Clock /\ c.todayReadAt <= now
    BY <1>1, <1>3 DEF RequestInv, RequestOK, NoRequest
  <1>5. /\ saved \in Nat
        /\ saved = Total(Between(c.inverter, MonthBegin(now), now))
        /\ Bracketed(rows, removedAt, saved, c.inverter, MonthBegin(now), now)
    <2>1. MonthStart = MonthBegin(now)
      BY DEF MonthStart, MonthBegin
    <2> QED
      BY <1>4, <2>1, ReadNow DEF IInv
  <1> HIDE DEF saved
  <1>6. now \in Clock /\ now \in Nat /\ RowsOK
    BY ClockFacts DEF IInv, Typed
  <1>7. Bracketed(rows, removedAt, c.savedToday, c.inverter,
                  DayStart(c.todayReadAt), c.todayReadAt)
    BY <1>1, <1>3 DEF RequestInv, SumsOK
  <1>8. SumsOK(d)
    BY <1>2, <1>5, <1>7 DEF SumsOK
  <1>9. MonthOK(d)
    <2>1. SUFFICES ASSUME SameMonth(c.todayReadAt, now),
                          ~RemovedWithin(c.inverter, c.todayReadAt, now)
                   PROVE  c.savedToday <= saved
      BY <1>2 DEF MonthOK
    <2>2. CASE Present(c.inverter)
      <3> DEFINE today == Total(Between(c.inverter, DayStart(c.todayReadAt),
                                        c.todayReadAt))
      <3>1. today <= saved
        BY <1>4, <1>5, <1>6, <2>1, TodayInMonth
      <3>2. c.savedToday <= today
        BY <1>7, <2>2, BetweenIsWindow DEF Bracketed
      <3>3. today \in Nat
        BY <1>6, TotalFacts
      <3> QED
        BY <1>4, <1>5, <3>1, <3>2, <3>3
    <2>3. CASE ~Present(c.inverter)
      <3>1. /\ removedAt[c.inverter] # None /\ removedAt[c.inverter] <= now
            /\ removedAt[c.inverter] \in Clock
        BY <1>4, <2>3 DEF IInv, Typed, RemovalsOK, Present
      <3>2. ~(c.todayReadAt <= removedAt[c.inverter])
        BY <2>1, <2>3, <3>1 DEF RemovedWithin
      <3>3. removedAt[c.inverter] < c.todayReadAt
        BY <1>4, <3>1, <3>2, ClockFacts
      <3>4. c.savedToday = 0
        BY <1>7, <3>1, <3>3 DEF Bracketed
      <3> QED
        BY <1>5, <3>4
    <2> QED
      BY <2>2, <2>3
  <1>10. UpdateOK(d)
    BY <1>1, <1>2, <1>3 DEF RequestInv, UpdateOK
  <1>11. RequestInv(d)
    BY <1>2, <1>4, <1>5, <1>6, <1>8, <1>9, <1>10 DEF RequestInv, RequestOK
  <1> QED
    BY <1>1, <1>11, RequestStep

LEMMA StepIInv ==
    ASSUME IInv, [Next]_vars
    PROVE  IInv'
  <1>0. Typed
    BY DEF IInv
  <1>1. ASSUME Onward, Typed', UNCHANGED dash PROVE IInv'
    <2>1. \A s \in Slots : RequestInv(dash[s])'
      BY <1>1, Kept
    <2> QED
      BY <1>1, <2>1 DEF IInv
  <1>2. ASSUME NEW i \in Inverters, NEW amount \in Amounts, NEW lag \in Lags,
               Ingest(i, amount, lag)
        PROVE  IInv'
    <2>1. RowsOK' /\ Onward
      BY <1>0, <1>2, IngestKeeps DEF Typed
    <2>2. UNCHANGED <<now, removedAt, dash>>
      BY <1>2 DEF Ingest
    <2>3. Typed'
      BY <1>0, <2>1, <2>2 DEF Typed, RemovalsOK
    <2> QED
      BY <1>1, <2>1, <2>2, <2>3
  <1>3. ASSUME NEW owned \in SUBSET Inverters, RemoveOwner(owned) PROVE IInv'
    <2>1. RemovalsOK' /\ Onward
      BY <1>0, <1>3, RemoveOwnerKeeps
    <2>2. UNCHANGED <<now, rows, dash>>
      BY <1>3 DEF RemoveOwner
    <2>3. Typed'
      BY <1>0, <2>1, <2>2 DEF Typed, RowsOK
    <2> QED
      BY <1>1, <2>1, <2>2, <2>3
  <1>4. ASSUME NEW hours \in Jumps, Tick(hours) PROVE IInv'
    <2>1. now' \in Clock /\ RowsOK' /\ RemovalsOK' /\ Onward
      BY <1>0, <1>4, TickKeeps
    <2>2. UNCHANGED dash
      BY <1>4 DEF Tick
    <2>3. Typed'
      BY <1>0, <2>1, <2>2 DEF Typed
    <2> QED
      BY <1>1, <2>1, <2>2, <2>3
  <1>5. ASSUME NEW s \in Slots, DashboardFails(s) PROVE IInv'
    <2>1. Become(s, NoRequest) /\ UNCHANGED <<now, rows, removedAt>>
      BY <1>5 DEF DashboardFails
    <2> QED
      BY <2>1, IdleInv, RequestStep
  <1>6. CASE UNCHANGED vars
    <2>1. UNCHANGED <<now, rows, removedAt, dash>>
      BY <1>6 DEF vars
    <2>2. Onward /\ Typed'
      BY <1>0, <2>1 DEF Onward, Typed, RowsOK, RemovalsOK
    <2> QED
      BY <1>1, <2>1, <2>2
  <1> QED
    BY <1>2, <1>3, <1>4, <1>5, <1>6, ReadLatestIInv, ReadTodayIInv, ReadMonthIInv
       DEF Next

LEMMA AlwaysIInv == Spec => []IInv
  <1>1. IInv /\ [Next]_vars => IInv'
    BY StepIInv
  <1> QED
    BY <1>1, InitIInv, PTL DEF Spec

----------------------------------------------------------------------------
(* The dashboard                                                           *)

\* The rows that the reference sums count, up to the moment v.
Before(i, v) == {k \in DOMAIN rows : rows[k].inverter = i /\ rows[k].created <= v}
DayRows(i, v) == {k \in Before(i, v) : SameDay(rows[k].created, v)}
MonthRows(i, v) == {k \in Before(i, v) : SameMonth(rows[k].created, v)}

(* In the day or the month of u they are the rows created since it began.  *)
LEMMA ReferenceRows ==
    ASSUME RowsOK, now \in Clock, NEW i, NEW u \in Moments, NEW v \in Moments
    PROVE  /\ SameDay(v, u) => DayRows(i, v) = Window(rows, i, DayStart(u), v)
           /\ SameMonth(v, u) => MonthRows(i, v) = Window(rows, i, MonthBegin(u), v)
  <1>1. ASSUME NEW k \in DOMAIN rows, rows[k].created <= v
        PROVE  /\ SameDay(rows[k].created, v) <=> DayStart(v) <= rows[k].created
               /\ SameMonth(rows[k].created, v) <=> MonthBegin(v) <= rows[k].created
    <2>1. rows[k].created \in Moments
      BY RowFacts, ClockFacts
    <2> QED
      BY <1>1, <2>1, SameDayStart, SameMonthStart
  <1>2. /\ SameDay(v, u) => DayStart(v) = DayStart(u)
        /\ SameMonth(v, u) => MonthBegin(v) = MonthBegin(u)
    BY DEF SameDay, SameMonth, DayStart, MonthBegin
  <1>3. SameDay(v, u) => DayRows(i, v) = Window(rows, i, DayStart(u), v)
    BY <1>1, <1>2 DEF DayRows, Before, Window
  <1>4. SameMonth(v, u) => MonthRows(i, v) = Window(rows, i, MonthBegin(u), v)
    BY <1>1, <1>2 DEF MonthRows, Before, Window
  <1> QED
    BY <1>3, <1>4

(* The reference sums are the totals of those rows.                        *)
LEMMA ReferenceTotals ==
    ASSUME Typed, NEW i, NEW u \in Moments, NEW v \in Moments
    PROVE  /\ SameDay(v, u)
                => ReferenceSum(i, v, SameDay) = WindowTotal(rows, i, DayStart(u), v)
           /\ SameMonth(v, u)
                => ReferenceSum(i, v, SameMonth) = WindowTotal(rows, i, MonthBegin(u), v)
           /\ ReferenceSum(i, v, SameDay) \in Nat
           /\ ReferenceSum(i, v, SameMonth) \in Nat
  <1>1. RowsOK /\ now \in Clock
    BY DEF Typed
  <1>2. \A A : Total(A) = TotalOf(rows, A)
    BY DEF Total, TotalOf, Summands
  <1>3. /\ ReferenceSum(i, v, SameDay) = Total(DayRows(i, v))
        /\ ReferenceSum(i, v, SameMonth) = Total(MonthRows(i, v))
    <2>1. /\ DayRows(i, v) = {k \in DOMAIN rows :
                                /\ rows[k].inverter = i /\ rows[k].created <= v
                                /\ SameDay(rows[k].created, v)}
          /\ MonthRows(i, v) = {k \in DOMAIN rows :
                                  /\ rows[k].inverter = i /\ rows[k].created <= v
                                  /\ SameMonth(rows[k].created, v)}
      BY DEF DayRows, MonthRows, Before
    <2> QED
      BY <2>1 DEF ReferenceSum
  <1>4. Total(DayRows(i, v)) \in Nat /\ Total(MonthRows(i, v)) \in Nat
    BY <1>1, TotalFacts
  <1> QED
    BY <1>1, <1>2, <1>3, <1>4, ReferenceRows DEF WindowTotal

LEMMA BracketedFollows ==
    ASSUME Typed, NEW i \in Inverters, NEW at \in Clock, NEW sum \in Nat
    PROVE  /\ Bracketed(rows, removedAt, sum, i, DayStart(at), at)
                => FollowsCalendar(sum, i, at, SameDay)
           /\ Bracketed(rows, removedAt, sum, i, MonthBegin(at), at)
                => FollowsCalendar(sum, i, at, SameMonth)
  <1>1. at \in Moments /\ at - 1 \in Moments
    BY ClockFacts
  <1>2. SameDay(at, at) /\ SameMonth(at, at)
    BY DEF SameDay, SameMonth
  <1>3. /\ ReferenceSum(i, at, SameDay) = WindowTotal(rows, i, DayStart(at), at)
        /\ ReferenceSum(i, at, SameMonth) = WindowTotal(rows, i, MonthBegin(at), at)
    BY <1>1, <1>2, ReferenceTotals
  <1>4. /\ ReferenceSum(i, at - 1, SameDay) \in Nat
        /\ ReferenceSum(i, at - 1, SameMonth) \in Nat
        /\ SameDay(at - 1, at) => ReferenceSum(i, at - 1, SameDay)
                                    = WindowTotal(rows, i, DayStart(at), at - 1)
        /\ SameMonth(at - 1, at) => ReferenceSum(i, at - 1, SameMonth)
                                      = WindowTotal(rows, i, MonthBegin(at), at - 1)
    BY <1>1, ReferenceTotals
  <1>5. ASSUME Bracketed(rows, removedAt, sum, i, DayStart(at), at)
        PROVE  FollowsCalendar(sum, i, at, SameDay)
    BY <1>3, <1>4, <1>5 DEF Bracketed, FollowsCalendar, Present, RemovedBefore
  <1>6. ASSUME Bracketed(rows, removedAt, sum, i, MonthBegin(at), at)
        PROVE  FollowsCalendar(sum, i, at, SameMonth)
    BY <1>3, <1>4, <1>6 DEF Bracketed, FollowsCalendar, Present, RemovedBefore
  <1> QED
    BY <1>5, <1>6

(* Whatever the calendar and the rows, and whenever rows are inserted and  *)
(* inverters removed, "saved today" and "saved this month" are the sums    *)
(* over the day and the month of their reads, up to what happened in the   *)
(* very hour of the read.                                                  *)
THEOREM DashboardFollowsCalendar == Spec => []SumsFollowCalendar
  <1>1. IInv => SumsFollowCalendar
    <2> SUFFICES ASSUME IInv, NEW s \in Slots
                 PROVE  /\ dash[s].pc \in {"month", "answered"}
                             => FollowsCalendar(dash[s].savedToday, dash[s].inverter,
                                                dash[s].todayReadAt, SameDay)
                        /\ dash[s].pc = "answered"
                             => FollowsCalendar(dash[s].savedMonth, dash[s].inverter,
                                                dash[s].monthReadAt, SameMonth)
      BY DEF SumsFollowCalendar
    <2>1. Typed /\ RequestOK(dash[s]) /\ SumsOK(dash[s])
      BY DEF IInv, RequestInv
    <2>2. ASSUME dash[s].pc \in {"month", "answered"}
          PROVE  FollowsCalendar(dash[s].savedToday, dash[s].inverter,
                                 dash[s].todayReadAt, SameDay)
      <3>1. /\ dash[s].inverter \in Inverters /\ dash[s].savedToday \in Nat
            /\ dash[s].todayReadAt \in Clock
        BY <2>1, <2>2 DEF RequestOK, NoRequest
      <3>2. Bracketed(rows, removedAt, dash[s].savedToday, dash[s].inverter,
                      DayStart(dash[s].todayReadAt), dash[s].todayReadAt)
        BY <2>1, <2>2 DEF SumsOK
      <3> QED
        BY <2>1, <3>1, <3>2, BracketedFollows
    <2>3. ASSUME dash[s].pc = "answered"
          PROVE  FollowsCalendar(dash[s].savedMonth, dash[s].inverter,
                                 dash[s].monthReadAt, SameMonth)
      <3>1. /\ dash[s].inverter \in Inverters /\ dash[s].savedMonth \in Nat
            /\ dash[s].monthReadAt \in Clock
        BY <2>1, <2>3 DEF RequestOK, NoRequest
      <3>2. Bracketed(rows, removedAt, dash[s].savedMonth, dash[s].inverter,
                      MonthBegin(dash[s].monthReadAt), dash[s].monthReadAt)
        BY <2>1, <2>3 DEF SumsOK
      <3> QED
        BY <2>1, <3>1, <3>2, BracketedFollows
    <2> QED
      BY <2>2, <2>3
  <1> QED
    BY <1>1, AlwaysIInv, PTL

(* However rows come in, inverters are removed and midnight passes between *)
(* the two reads, in any number of requests at once: the month of an       *)
(* answer is at least the day, unless the month has turned or the inverter *)
(* was removed between the two.                                            *)
THEOREM DashboardMonthIncludesToday == Spec => []MonthIncludesToday
  <1>1. IInv => MonthIncludesToday
    BY DEF IInv, RequestInv, MonthOK, MonthIncludesToday
  <1> QED
    BY <1>1, AlwaysIInv, PTL

(* Although rows are inserted out of the order they were measured in: who  *)
(* asks for the dashboard of an inverter that is there is told of no       *)
(* earlier update than any dashboard asked for before, in whatever order   *)
(* these are answered.                                                     *)
THEOREM LastUpdateNeverGoesBack == Spec => LastUpdatedMonotone
  <1> DEFINE NoEarlier ==
        \A s, t \in Slots :
          LET asked == dash'[s]
              before == dash[t]
          IN /\ asked.pc = "today" /\ ~At(s, "today") /\ Present(asked.inverter)
             /\ before.pc # "idle" /\ before.inverter = asked.inverter
             /\ before.lastUpdated # None
             => asked.lastUpdated # None /\ asked.lastUpdated >= before.lastUpdated
  <1>1. IInv /\ [Next]_vars => [NoEarlier]_vars
    <2> SUFFICES ASSUME IInv, [Next]_vars, NEW s \in Slots, NEW t \in Slots,
                        dash'[s].pc = "today", dash[s].pc # "today",
                        Present(dash'[s].inverter),
                        dash[t].pc # "idle", dash[t].inverter = dash'[s].inverter,
                        dash[t].lastUpdated # None
                 PROVE  /\ dash'[s].lastUpdated # None
                        /\ dash'[s].lastUpdated >= dash[t].lastUpdated
      BY DEF At
    <2>1. DOMAIN dash = Slots /\ RowsOK /\ now \in Clock
      BY DEF IInv, Typed
    <2>2. ~(UNCHANGED dash)
      OBVIOUS
    <2>3. ASSUME NEW u \in Slots, NEW d, Become(u, d)
          PROVE  u = s /\ d = dash'[s]
      <3>1. dash' = [dash EXCEPT ![u] = d]
        BY <2>3 DEF Become
      <3>2. u = s
        BY <2>1, <3>1
      <3> QED
        BY <2>1, <3>1, <3>2
    <2>4. PICK u \in Slots : (\E i \in Inverters : ReadLatest(u, i))
                             \/ ReadToday(u) \/ ReadMonth(u) \/ DashboardFails(u)
      BY <2>2 DEF Next, vars, Tick, Ingest, RemoveOwner
    <2>5. ~ReadToday(u)
      <3>1. SUFFICES ASSUME ReadToday(u) PROVE FALSE
        OBVIOUS
      <3>2. dash'[s].pc = "month"
        BY <2>3, <3>1 DEF ReadToday
      <3> QED
        BY <3>2
    <2>6. ~ReadMonth(u)
      <3>1. SUFFICES ASSUME ReadMonth(u) PROVE FALSE
        OBVIOUS
      <3>2. dash'[s].pc = "answered"
        BY <2>3, <3>1 DEF ReadMonth
      <3> QED
        BY <3>2
    <2>7. ~DashboardFails(u)
      <3>1. SUFFICES ASSUME DashboardFails(u) PROVE FALSE
        OBVIOUS
      <3>2. dash'[s].pc = "idle"
        BY <2>3, <3>1 DEF DashboardFails, NoRequest
      <3> QED
        BY <3>2
    <2>8. PICK i \in Inverters : ReadLatest(u, i)
      BY <2>4, <2>5, <2>6, <2>7
    <2>9. dash'[s].inverter = i /\ dash'[s].lastUpdated = Latest(i)
      BY <2>3, <2>8 DEF ReadLatest
    <2>10. RequestOK(dash[t]) /\ UpdateOK(dash[t])
      BY DEF IInv, RequestInv
    <2>11. dash[t].lastUpdated \in Int /\ Reached(rows, i, dash[t].lastUpdated)
      <3>1. dash[t].lastUpdated \in Times
        BY <2>10 DEF RequestOK, NoRequest
      <3> QED
        BY <2>9, <2>10, <3>1 DEF UpdateOK, Times
    <2>12. Present(i)
      BY <2>9
    <2>13. /\ Latest(i) \in Times /\ Latest(i) # None
           /\ dash[t].lastUpdated <= Latest(i)
      BY <2>1, <2>11, <2>12, LatestFacts
    <2> QED
      BY <2>9, <2>11, <2>13 DEF Times
  <1> QED
    BY <1>1, AlwaysIInv, PTL DEF Spec, LastUpdatedMonotone

----------------------------------------------------------------------------
(* The chart                                                               *)

(* Rows inserted within five days of being measured.                       *)
Prompt == \A lag \in Lags : lag <= 5 * HoursPerDay

LEMMA WeekApart ==
    ASSUME NEW t \in Int, NEW u \in Int, t - u <= 6 * HoursPerDay,
           u - t <= 6 * HoursPerDay, WeekdayOf(t) = WeekdayOf(u)
    PROVE  DayOf(t) = DayOf(u)
  BY DEF WeekdayOf, DayOf, HoursPerDay

(* In the hourly and the daily chart no two days share a group, for any    *)
(* rows that arrive within five days.                                      *)
THEOREM ShortChartsByDay == Prompt => (Spec => []ShortChartsGroupByDay)
  <1> SUFFICES ASSUME Prompt PROVE Spec => []ShortChartsGroupByDay
    OBVIOUS
  <1>1. IInv => ShortChartsGroupByDay
    <2> SUFFICES ASSUME IInv PROVE ShortChartsGroupByDay
      OBVIOUS
    <2>1. RowsOK /\ now \in Clock /\ now \in Nat
      BY ClockFacts DEF IInv, Typed
    <2>2. ASSUME NEW period \in {"hourly", "daily"}, NEW i, NEW k \in Selected(i, period)
          PROVE  /\ rows[k].measured \in Int /\ rows[k].measured <= now
                 /\ now - rows[k].measured <= 6 * HoursPerDay
      <3>1. GetStartDate(period, now) \in Int
            /\ now - GetStartDate(period, now) <= HoursPerDay
        BY <2>1 DEF GetStartDate, HoursPerDay
      <3>2. k \in Own(i) /\ GetStartDate(period, now) <= rows[k].created
        BY DEF Selected, Between
      <3>3. /\ rows[k].created \in Nat /\ rows[k].measured \in Int
            /\ rows[k].created <= now /\ rows[k].measured <= rows[k].created
            /\ rows[k].created - rows[k].measured \in Lags
        BY <2>1, <3>2, RowFacts DEF Own
      <3>4. rows[k].created - rows[k].measured <= 5 * HoursPerDay
        BY <3>3 DEF Prompt
      <3> QED
        BY <2>1, <3>1, <3>2, <3>3, <3>4 DEF HoursPerDay
    <2>3. ASSUME NEW period \in {"hourly", "daily"} PROVE OneDayPerGroup(period)
      <3> SUFFICES ASSUME NEW i \in Inverters, NEW k \in Selected(i, period),
                          NEW l \in Selected(i, period),
                          WeekdayOf(rows[k].measured) = WeekdayOf(rows[l].measured)
                   PROVE  DayOf(rows[k].measured) = DayOf(rows[l].measured)
        BY DEF OneDayPerGroup
      <3>1. /\ rows[k].measured \in Int /\ rows[l].measured \in Int
            /\ rows[k].measured <= now /\ now - rows[k].measured <= 6 * HoursPerDay
            /\ rows[l].measured <= now /\ now - rows[l].measured <= 6 * HoursPerDay
        BY <2>2
      <3>2. /\ rows[k].measured - rows[l].measured <= 6 * HoursPerDay
            /\ rows[l].measured - rows[k].measured <= 6 * HoursPerDay
        BY <2>1, <3>1 DEF HoursPerDay
      <3> QED
        BY <3>1, <3>2, WeekApart
    <2> QED
      BY <2>3 DEF ShortChartsGroupByDay
  <1> QED
    BY <1>1, AlwaysIInv, PTL

(* The groups of a chart: sums by day of the week.                         *)
Weekdays == 0..6
Charts == UNION {[days -> Nat] : days \in SUBSET Weekdays}
Bar(chart, day) == IF day \in DOMAIN chart THEN chart[day] ELSE 0
Height(chart) == Bar(chart, 0) + Bar(chart, 1) + Bar(chart, 2) + Bar(chart, 3)
                 + Bar(chart, 4) + Bar(chart, 5) + Bar(chart, 6)

(* A reading makes the chart as much higher as it is large.                *)
LEMMA ReadingAdds ==
    ASSUME NEW chart \in Charts, NEW row \in Metrics
    PROVE  /\ AddReading(chart, row) \in Charts
           /\ Height(AddReading(chart, row)) = Height(chart) + row.amount
  <1> DEFINE w == WeekdayOf(row.measured)
             added == AddReading(chart, row)
  <1>1. row.amount \in Nat /\ row.measured \in Int
    BY DEF Metrics
  <1>2. w \in Weekdays
    BY <1>1 DEF WeekdayOf, DayOf, HoursPerDay, Weekdays
  <1>3. PICK days \in SUBSET Weekdays : chart \in [days -> Nat]
    BY DEF Charts
  <1>4. \A day \in Weekdays : Bar(chart, day) \in Nat
    BY <1>3 DEF Bar
  <1>5. added = [day \in days \cup {w} |->
                   IF day = w THEN Bar(chart, w) + row.amount ELSE chart[day]]
    BY <1>3 DEF AddReading, Bar
  <1> HIDE DEF w, added
  <1>6. added \in [days \cup {w} -> Nat]
    BY <1>1, <1>2, <1>3, <1>4, <1>5
  <1>7. added \in Charts
    <2>1. days \cup {w} \in SUBSET Weekdays
      BY <1>2
    <2> QED
      BY <1>6, <2>1 DEF Charts
  <1>8. \A day \in Weekdays :
          Bar(added, day) = IF day = w THEN Bar(chart, day) + row.amount
                            ELSE Bar(chart, day)
    BY <1>3, <1>5 DEF Bar
  <1>9. Height(added) = Height(chart) + row.amount
    <2>1. /\ \A day \in {0, 1, 2, 3, 4, 5, 6} :
               /\ Bar(chart, day) \in Nat
               /\ Bar(added, day) = IF day = w THEN Bar(chart, day) + row.amount
                                    ELSE Bar(chart, day)
          /\ w \in {0, 1, 2, 3, 4, 5, 6}
      BY <1>2, <1>4, <1>8 DEF Weekdays
    <2> QED
      BY <1>1, <2>1 DEF Height
  <1> QED
    BY <1>7, <1>9 DEF added

LEMMA GroupingFacts ==
    ASSUME RowsOK, NEW selected
    PROVE  /\ Len(rows) \in Nat
           /\ \A k \in 0..Len(rows) : Grouping(selected)[k] \in Charts
           /\ Grouping(selected)[0] = <<>>
           /\ \A k \in 1..Len(rows) :
                Grouping(selected)[k] =
                  IF k \in selected THEN AddReading(Grouping(selected)[k - 1], rows[k])
                  ELSE Grouping(selected)[k - 1]
  <1> DEFINE N == Len(rows)
             G == Grouping(selected)
             step == [kx \in (1..N) \X Charts |->
                        IF kx[1] \in selected THEN AddReading(kx[2], rows[kx[1]])
                        ELSE kx[2]]
             Solves(g) ==
               g = [k \in 0..N |->
                      IF k = 0 THEN <<>>
                      ELSE IF k \in selected THEN AddReading(g[k - 1], rows[k])
                      ELSE g[k - 1]]
  <1>1. N \in Nat /\ \A k \in 1..N : rows[k] \in Metrics
    BY DEF RowsOK
  <1>2. \A k \in 1..N, chart \in Charts : AddReading(chart, rows[k]) \in Charts
    BY <1>1, ReadingAdds
  <1>3. step \in [(1..N) \X Charts -> Charts]
    <2> HIDE DEF N
    <2> QED
      BY <1>2
  <1>4. \A k \in 1..N, chart \in Charts :
          step[<<k, chart>>] = IF k \in selected THEN AddReading(chart, rows[k])
                               ELSE chart
    OBVIOUS
  <1>5. <<>> \in Charts
    <2>1. <<>> \in [{} -> Nat] /\ {} \in SUBSET Weekdays
      OBVIOUS
    <2> QED
      BY <2>1 DEF Charts
  <1>6. PICK h \in [0..N -> Charts] : Unfolds(h, N, <<>>, step)
    <2> HIDE DEF step, N
    <2> QED
      BY <1>1, <1>3, <1>5, Iterated
  <1> HIDE DEF step
  <1>7. Solves(h)
    <2>1. ASSUME NEW k \in 1..N
          PROVE  h[k] = IF k \in selected THEN AddReading(h[k - 1], rows[k])
                        ELSE h[k - 1]
      <3>1. h[k - 1] \in Charts
        BY <1>1
      <3> QED
        BY <1>4, <1>6, <3>1 DEF Unfolds
    <2> QED
      BY <1>1, <1>6, <2>1 DEF Unfolds
  <1>8. G = CHOOSE g : Solves(g)
    BY DEF Grouping
  <1>9. Solves(G)
    <2> HIDE DEF Solves, G
    <2> QED
      BY <1>7, <1>8
  <1> HIDE DEF G
  <1>10. /\ G[0] = <<>>
         /\ \A k \in 1..N : G[k] = IF k \in selected THEN AddReading(G[k - 1], rows[k])
                                   ELSE G[k - 1]
    <2> HIDE DEF N
    <2>1. 0 \in 0..N /\ \A k \in 1..N : k \in 0..N /\ k # 0
      BY <1>1
    <2>2. G[0] = <<>>
      BY <1>9, <2>1
    <2>3. ASSUME NEW k \in 1..N
          PROVE  G[k] = IF k \in selected THEN AddReading(G[k - 1], rows[k])
                        ELSE G[k - 1]
      BY <1>9, <2>1, Zenon
    <2> QED
      BY <2>2, <2>3
  <1>11. \A k \in 0..N : G[k] \in Charts
    <2> DEFINE T == {k \in 0..N : G[k] \in Charts}
    <2>1. 0 \in T
      BY <1>1, <1>5, <1>10
    <2>2. ASSUME NEW k \in 1..N, k - 1 \in T PROVE k \in T
      BY <1>1, <1>2, <1>10, <2>2
    <2>3. 0..N \subseteq T
      <3> HIDE DEF T, N
      <3> QED
        BY <1>1, <2>1, <2>2, Upward
    <2> QED
      BY <2>3
  <1> QED
    BY <1>1, <1>10, <1>11 DEF G

(* After each row the chart is as high as the sum so far.                  *)
LEMMA ChartGrows ==
    ASSUME RowsOK, NEW selected
    PROVE  Height(Grouping(selected)[Len(rows)]) = Total(selected)
  <1> DEFINE N == Len(rows)
             G == Grouping(selected)
             q == Summands(rows, selected)
             S == Sums(q)
             T == {k \in 0..N : Height(G[k]) = S[k]}
  <1>1. /\ N \in Nat /\ G[0] = <<>> /\ \A k \in 0..N : G[k] \in Charts
        /\ \A k \in 1..N : G[k] = IF k \in selected THEN AddReading(G[k - 1], rows[k])
                                  ELSE G[k - 1]
    BY GroupingFacts
  <1>2. rows \in Seq(Metrics) /\ \A k \in 1..N : rows[k] \in Metrics
    BY DEF RowsOK
  <1>3. q \in Seq(Nat) /\ Len(q) = N
    BY <1>2, SummandsType
  <1>4. \A k \in 1..N : q[k] = IF k \in selected THEN rows[k].amount ELSE 0
    BY <1>2 DEF Summands
  <1> HIDE DEF q
  <1>5. /\ S \in [0..N -> Nat] /\ S[0] = 0 /\ SumOf(q) = S[N]
        /\ \A k \in 1..N : S[k] = S[k - 1] + q[k]
    BY <1>3, SumsFacts
  <1> HIDE DEF S, G, N
  <1>6. 0 \in T
    <2>1. \A day \in Weekdays : Bar(<<>>, day) = 0
      BY DEF Bar
    <2>2. Height(<<>>) = 0
      BY <2>1 DEF Height, Weekdays
    <2> QED
      BY <1>1, <1>5, <2>2
  <1>7. ASSUME NEW k \in 1..N, k - 1 \in T PROVE k \in T
    <2>1. k - 1 \in 0..N /\ k \in 0..N
      BY <1>1
    <2>2. /\ G[k - 1] \in Charts /\ rows[k] \in Metrics
          /\ S[k - 1] \in Nat /\ Height(G[k - 1]) = S[k - 1]
      BY <1>1, <1>2, <1>5, <1>7, <2>1
    <2>3. CASE k \in selected
      <3>1. Height(G[k]) = Height(G[k - 1]) + rows[k].amount
        BY <1>1, <2>2, <2>3, ReadingAdds
      <3> QED
        BY <1>4, <1>5, <2>1, <2>2, <2>3, <3>1
    <2>4. CASE k \notin selected
      BY <1>1, <1>4, <1>5, <2>1, <2>2, <2>4
    <2> QED
      BY <2>3, <2>4
  <1>8. 0..N \subseteq T
    <2> HIDE DEF T
    <2> QED
      BY <1>1, <1>6, <1>7, Upward
  <1>9. Height(G[N]) = SumOf(q)
    BY <1>1, <1>5, <1>8
  <1>10. Total(selected) = SumOf(q)
    BY DEF Total, q, Summands
  <1> QED
    BY <1>9, <1>10 DEF G, N

(* No chart loses a row of its window or counts one twice, however many    *)
(* rows there are and whatever days they were measured on.                 *)
THEOREM ChartsConserve == Spec => []ChartConserves
  <1>1. IInv => ChartConserves
    <2> SUFFICES ASSUME IInv, NEW i \in Inverters, NEW period \in Periods
                 PROVE  Height(EnergyUsage(i, period)) = Total(Selected(i, period))
      BY DEF ChartConserves, Height, Bar
    <2>1. RowsOK
      BY DEF IInv, Typed
    <2> QED
      BY <2>1, ChartGrows DEF EnergyUsage
  <1> QED
    BY <1>1, AlwaysIInv, PTL

=============================================================================
