------------------------- MODULE JourneyMetricsProofs -------------------------
(***************************************************************************)
(* What the volumes per month and their sums come to, for any documents,   *)
(* dates, bounds and calendar.  A sum over months is a recursion over sets *)
(* of months; what it computes is shown by taking a smallest set on which  *)
(* it would be wrong.                                                      *)
(***************************************************************************)
EXTENDS JourneyMetrics, FiniteSetTheorems, WellFoundedInduction, TLAPS

-----------------------------------------------------------------------------
(* Sums                                                                    *)

LEMMA DisjointCount ==
    ASSUME NEW S, NEW T, IsFiniteSet(S), IsFiniteSet(T), S \cap T = {}
    PROVE  /\ Cardinality(S) \in Nat /\ Cardinality(T) \in Nat
           /\ Cardinality(S \cup T) = Cardinality(S) + Cardinality(T)
<1>1. Cardinality(S) \in Nat /\ Cardinality(T) \in Nat
  BY FS_CardinalityType
<1>2. Cardinality(S \cap T) = 0
  BY FS_EmptySet
<1>3. Cardinality(S \cup T) = Cardinality(S) + Cardinality(T) - Cardinality(S \cap T)
  BY FS_Union
<1> QED BY <1>1, <1>2, <1>3

LEMMA SumOverUnfolds ==
    ASSUME NEW counts, NEW M
    PROVE  SumOver(counts, M) =
             (CHOOSE iter : iter = [s \in SUBSET M |->
                IF s = {} THEN 0
                ELSE counts[CHOOSE x \in s : TRUE] + iter[s \ {CHOOSE x \in s : TRUE}]])[M]
BY DEF SumOver, MapThenSumSet, MapThenFoldSet

\* How many of the documents A are of one of the months, h[i] being the month of i.
Within(A, h, months) == Cardinality({i \in A : h[i] \in months})

LEMMA OneMonthMore ==
    ASSUME NEW A, IsFiniteSet(A), NEW h, NEW s, NEW x, x \in s
    PROVE  Within(A, h, s) = Within(A, h, {x}) + Within(A, h, s \ {x})
<1> DEFINE one == {i \in A : h[i] \in {x}}
           rest == {i \in A : h[i] \in s \ {x}}
           both == {i \in A : h[i] \in s}
<1>1. /\ Within(A, h, s) = Cardinality(both) /\ Within(A, h, {x}) = Cardinality(one)
      /\ Within(A, h, s \ {x}) = Cardinality(rest)
  BY DEF Within
<1>2. one \in SUBSET A /\ rest \in SUBSET A /\ one \cap rest = {} /\ both = one \cup rest
  OBVIOUS
<1> HIDE DEF one, rest, both
<1>3. IsFiniteSet(one) /\ IsFiniteSet(rest)
  BY <1>2, FS_Subset
<1> QED BY <1>1, <1>2, <1>3, DisjointCount

\* The sum over months of how many there are in each is how many there are in them.
LEMMA SumOfCounts ==
    ASSUME NEW A, IsFiniteSet(A), NEW h, NEW M, IsFiniteSet(M), NEW counts,
           \A m \in M : counts[m] = Within(A, h, {m})
    PROVE  SumOver(counts, M) = Within(A, h, M)
<1> DEFINE first(s) == CHOOSE x \in s : TRUE
           number(s) == Within(A, h, s)
           Sums(iter) == iter = [s \in SUBSET M |->
              IF s = {} THEN 0
              ELSE counts[CHOOSE x \in s : TRUE] + iter[s \ {CHOOSE x \in s : TRUE}]]
           sums == CHOOSE iter : Sums(iter)
           numbers == [s \in SUBSET M |-> number(s)]
<1>1. SumOver(counts, M) = sums[M]
  BY SumOverUnfolds
<1>2. \A s \in SUBSET M : s # {} =>
        /\ first(s) \in s
        /\ counts[first(s)] = Within(A, h, {first(s)})
  OBVIOUS
<1>3. number({}) = 0
  BY FS_EmptySet DEF Within
<1>4. \A s \in SUBSET M : s # {} => number(s) = counts[first(s)] + number(s \ {first(s)})
  <2> SUFFICES ASSUME NEW s \in SUBSET M, s # {}
               PROVE  number(s) = counts[first(s)] + number(s \ {first(s)})
    OBVIOUS
  <2> DEFINE x == first(s)
  <2>1. x \in s /\ counts[x] = Within(A, h, {x})
    BY <1>2
  <2> HIDE DEF x
  <2>2. Within(A, h, s) = Within(A, h, {x}) + Within(A, h, s \ {x})
    BY <2>1, OneMonthMore
  <2> QED BY <2>1, <2>2 DEF x
<1>5. Sums(numbers)
  <2> HIDE DEF number
  <2>1. \A s \in SUBSET M : s # {} => s \ {first(s)} \in SUBSET M
    OBVIOUS
  <2>2. \A s \in SUBSET M : numbers[s] =
          IF s = {} THEN 0
          ELSE counts[CHOOSE x \in s : TRUE] + numbers[s \ {CHOOSE x \in s : TRUE}]
    BY <1>3, <1>4, <2>1
  <2> QED BY <2>2
<1>6. Sums(sums)
  <2> HIDE DEF Sums, numbers
  <2> QED BY <1>5
<1>7. \A s \in SUBSET M : sums[s] = number(s)
  <2> HIDE DEF sums, number
  <2> DEFINE wrong == {s \in SUBSET M : sums[s] # number(s)}
             smaller == StrictSubsetOrdering(M)
  <2>1. SUFFICES ASSUME wrong # {} PROVE FALSE
    OBVIOUS
  <2>2. IsWellFoundedOn(smaller, FiniteSubsetsOf(M))
    BY FS_StrictSubsetOrderingWellFounded
  <2>3. wrong \subseteq FiniteSubsetsOf(M)
    BY FS_Subset DEF FiniteSubsetsOf
  <2>4. PICK s \in wrong : \A t \in wrong : ~(<<t, s>> \in smaller)
    <3> HIDE DEF wrong, smaller
    <3> QED BY <2>1, <2>2, <2>3, WFMin
  <2>5. CASE s = {}
    BY <1>3, <1>6, <2>4, <2>5
  <2>6. CASE s # {}
    <3> DEFINE t == s \ {first(s)}
    <3>1. t \in SUBSET M /\ t # s /\ t \subseteq s
      BY <1>2, <2>4, <2>6
    <3>2. sums[s] = counts[first(s)] + sums[t]
      BY <1>6, <2>4, <2>6
    <3>3. number(s) = counts[first(s)] + number(t)
      BY <1>4, <2>4, <2>6
    <3>4. <<t, s>> \in smaller
      BY <2>4, <3>1 DEF StrictSubsetOrdering
    <3>5. t \notin wrong
      BY <2>4, <3>4
    <3> HIDE DEF t
    <3>6. sums[t] = number(t)
      BY <3>1, <3>5
    <3> QED BY <2>4, <3>2, <3>3, <3>6
  <2> QED BY <2>5, <2>6
<1> QED BY <1>1, <1>7

-----------------------------------------------------------------------------
(* Counts per month                                                        *)

Matched(ids, day, from, to) == {i \in ids : InRange(day[i], from, to)}

MonthsOf(ids, day) == [i \in ids |-> MonthOf(day[i])]

\* How many of the matched documents are dated in these months.
Dated(ids, day, from, to, months) ==
    Within(Matched(ids, day, from, to), MonthsOf(ids, day), months)

LEMMA MatchedType ==
    ASSUME NEW ids, IsFiniteSet(ids), NEW day, NEW from, NEW to
    PROVE  /\ Matched(ids, day, from, to) \in SUBSET ids
           /\ IsFiniteSet(Matched(ids, day, from, to))
           /\ Cardinality(Matched(ids, day, from, to)) \in Nat
<1>1. Matched(ids, day, from, to) \in SUBSET ids
  BY DEF Matched
<1>2. IsFiniteSet(Matched(ids, day, from, to))
  BY <1>1, FS_Subset
<1> QED BY <1>1, <1>2, FS_CardinalityType

LEMMA CountsAre ==
    ASSUME NEW ids, NEW day, NEW from, NEW to
    PROVE  LET matched == Matched(ids, day, from, to)
               h == MonthsOf(ids, day)
               series == MonthlyCounts(ids, day, from, to)
           IN  /\ series.total = Cardinality(matched)
               /\ \A m : m \in DOMAIN series.byMonth <=> \E i \in matched : h[i] = m
               /\ \A m \in DOMAIN series.byMonth :
                    series.byMonth[m] = Dated(ids, day, from, to, {m})
<1> DEFINE matched == {i \in ids : InRange(day[i], from, to)}
           h == MonthsOf(ids, day)
           series == MonthlyCounts(ids, day, from, to)
<1>1. \A i \in matched : MonthOf(day[i]) = h[i]
  BY DEF MonthsOf
<1>2. matched = Matched(ids, day, from, to)
  BY DEF Matched
<1>3. series.total = Cardinality(matched)
  BY DEF MonthlyCounts
<1>4. series.byMonth = [m \in {MonthOf(day[i]) : i \in matched} |->
                            Cardinality({i \in matched : MonthOf(day[i]) = m})]
  BY DEF MonthlyCounts
<1> HIDE DEF matched, h, series
<1>5. \A m : m \in DOMAIN series.byMonth <=> \E i \in matched : h[i] = m
  BY <1>1, <1>4
<1>6. ASSUME NEW m \in DOMAIN series.byMonth
      PROVE  series.byMonth[m] = Dated(ids, day, from, to, {m})
  <2> DEFINE these == {i \in matched : MonthOf(day[i]) = m}
  <2>1. series.byMonth[m] = Cardinality(these)
    BY <1>4
  <2>2. these = {i \in matched : h[i] \in {m}}
    BY <1>1
  <2> HIDE DEF these
  <2>3. Dated(ids, day, from, to, {m}) = Cardinality(these)
    BY <1>2, <2>2 DEF Dated, Within, h
  <2> QED BY <2>1, <2>3
<1> QED BY <1>2, <1>3, <1>5, <1>6 DEF h, series

LEMMA CountForIs ==
    ASSUME NEW ids, NEW day, NEW from, NEW to, NEW m
    PROVE  CountFor(MonthlyCounts(ids, day, from, to), m) = Dated(ids, day, from, to, {m})
<1> DEFINE matched == Matched(ids, day, from, to)
           h == MonthsOf(ids, day)
           series == MonthlyCounts(ids, day, from, to)
           byMonth == series.byMonth
           these == {i \in matched : h[i] \in {m}}
<1>1. /\ m \in DOMAIN byMonth <=> \E i \in matched : h[i] = m
      /\ m \in DOMAIN byMonth => byMonth[m] = Dated(ids, day, from, to, {m})
  BY CountsAre
<1>2. Dated(ids, day, from, to, {m}) = Cardinality(these)
  BY DEF Dated, Within
<1>3. CountFor(series, m) = IF m \in DOMAIN byMonth THEN byMonth[m] ELSE 0
  BY DEF CountFor
<1>4. CASE m \in DOMAIN byMonth
  BY <1>1, <1>3, <1>4
<1>5. CASE m \notin DOMAIN byMonth
  <2>1. these = {}
    BY <1>1, <1>5
  <2>2. Cardinality(these) = 0
    BY <2>1, FS_EmptySet
  <2> QED BY <1>2, <1>3, <1>5, <2>2
<1> QED BY <1>4, <1>5

LEMMA OverIs ==
    ASSUME NEW ids, IsFiniteSet(ids), NEW day, NEW from, NEW to,
           NEW months, IsFiniteSet(months)
    PROVE  Over(MonthlyCounts(ids, day, from, to), months) = Dated(ids, day, from, to, months)
<1> DEFINE series == MonthlyCounts(ids, day, from, to)
           matched == Matched(ids, day, from, to)
           h == MonthsOf(ids, day)
           counts == [m \in months |-> CountFor(series, m)]
<1>1. IsFiniteSet(matched)
  BY MatchedType
<1>2. \A m \in months : counts[m] = Within(matched, h, {m})
  <2>1. \A m : Dated(ids, day, from, to, {m}) = Within(matched, h, {m})
    BY DEF Dated
  <2>2. \A m : CountFor(series, m) = Dated(ids, day, from, to, {m})
    BY CountForIs
  <2> HIDE DEF matched, h, series
  <2> QED BY <2>1, <2>2
<1>3. Over(series, months) = SumOver(counts, months)
  BY DEF Over
<1> HIDE DEF counts, matched, h
<1>4. SumOver(counts, months) = Within(matched, h, months)
  BY <1>1, <1>2, SumOfCounts
<1> QED BY <1>3, <1>4 DEF Dated, matched, h

CountEach(counts, series, months) == \A m \in months : counts[m] = Over(series, {m})

\* A sum over months of what each has is what they have together.
LEMMA OverAddsUp ==
    ASSUME NEW ids, IsFiniteSet(ids), NEW day, NEW from, NEW to,
           NEW series, series = MonthlyCounts(ids, day, from, to),
           NEW months, IsFiniteSet(months), NEW counts,
           CountEach(counts, series, months)
    PROVE  SumOver(counts, months) = Over(series, months)
<1> DEFINE matched == Matched(ids, day, from, to)
           h == MonthsOf(ids, day)
<1>1. IsFiniteSet(matched)
  BY MatchedType
<1>2. \A ms : Dated(ids, day, from, to, ms) = Within(matched, h, ms)
  BY DEF Dated
<1>3. \A ms : IsFiniteSet(ms) => Over(series, ms) = Dated(ids, day, from, to, ms)
  BY OverIs
<1>4. \A m : IsFiniteSet({m})
  BY FS_Singleton
<1> HIDE DEF matched, h
<1>5. \A m \in months : counts[m] = Within(matched, h, {m})
  BY <1>2, <1>3, <1>4 DEF CountEach
<1>6. SumOver(counts, months) = Within(matched, h, months)
  BY <1>1, <1>5, SumOfCounts
<1> QED BY <1>2, <1>3, <1>6

LEMMA MonthsType ==
    ASSUME NEW ids, IsFiniteSet(ids), NEW day, NEW from, NEW to
    PROVE  IsFiniteSet(DOMAIN MonthlyCounts(ids, day, from, to).byMonth)
<1> DEFINE matched == Matched(ids, day, from, to)
           h == MonthsOf(ids, day)
           byMonth == MonthlyCounts(ids, day, from, to).byMonth
<1>1. DOMAIN byMonth = {h[i] : i \in matched}
  <2>1. \A m : m \in DOMAIN byMonth <=> \E i \in matched : h[i] = m
    BY CountsAre
  <2> HIDE DEF matched, h, byMonth
  <2> QED BY <2>1
<1>2. IsFiniteSet(matched)
  BY MatchedType
<1> HIDE DEF matched, h, byMonth
<1>3. IsFiniteSet({h[i] : i \in matched})
  <2> DEFINE f == [i \in matched |-> h[i]]
             T == {h[i] : i \in matched}
  <2>1. f \in Surjection(matched, T)
    BY DEF Surjection
  <2> HIDE DEF f, T
  <2>2. IsFiniteSet(T)
    BY <1>2, <2>1, FS_Surjection
  <2> QED BY <2>2 DEF T
<1> QED BY <1>1, <1>3 DEF byMonth

LEMMA MonthOfDay ==
    ASSUME NEW day \in Nat \cup {Undated}
    PROVE  MonthOf(day) = NoMonth <=> day = Undated
<1> DEFINE d == DaysPerMonth
<1>1. d \in Nat /\ d > 0
  BY CalendarAssumption
<1> HIDE DEF d
<1>2. \A n \in Nat : n \div d >= 0
  BY <1>1
<1> QED BY <1>2 DEF MonthOf, NoMonth, Undated, d

\* What the months do not have of the whole is what has no date.
UndatedIn(ids, day) == Cardinality({i \in ids : day[i] = Undated})

LEMMA WholeAddsUp ==
    ASSUME NEW ids, IsFiniteSet(ids), NEW day, \A i \in ids : day[i] \in Nat \cup {Undated},
           NEW from, NEW to, NEW series, series = MonthlyCounts(ids, day, from, to),
           NEW months, IsFiniteSet(months), NoMonth \notin months,
           DOMAIN series.byMonth \subseteq months \cup {NoMonth}
    PROVE  series.total - Over(series, months) =
               IF from = NoBound /\ to = NoBound THEN UndatedIn(ids, day) ELSE 0
<1> DEFINE matched == Matched(ids, day, from, to)
           h == MonthsOf(ids, day)
           dated == {i \in matched : h[i] \in months}
           undated == {i \in matched : day[i] = Undated}
<1>1. /\ series.total = Cardinality(matched)
      /\ \A m : m \in DOMAIN series.byMonth <=> \E i \in matched : h[i] = m
  BY CountsAre
<1>2. matched \in SUBSET ids /\ IsFiniteSet(matched)
  BY MatchedType
<1>3. Over(series, months) = Cardinality(dated)
  <2>1. Over(series, months) = Dated(ids, day, from, to, months)
    BY OverIs
  <2> QED BY <2>1 DEF Dated, Within
<1>4. \A i \in matched : h[i] = NoMonth <=> day[i] = Undated
  BY <1>2, MonthOfDay DEF MonthsOf
<1>5. undated = IF from = NoBound /\ to = NoBound THEN {i \in ids : day[i] = Undated} ELSE {}
  <2>1. undated = {i \in ids : InRange(day[i], from, to) /\ day[i] = Undated}
    BY DEF Matched
  <2>2. InRange(Undated, from, to) <=> from = NoBound /\ to = NoBound
    BY DEF InRange
  <2> HIDE DEF undated
  <2>3. CASE from = NoBound /\ to = NoBound
    BY <2>1, <2>2, <2>3
  <2>4. CASE ~(from = NoBound /\ to = NoBound)
    BY <2>1, <2>2, <2>4
  <2> QED BY <2>3, <2>4
<1> HIDE DEF matched, h
<1>6. dated \cap undated = {} /\ dated \cup undated = matched
  BY <1>1, <1>4
<1>7. IsFiniteSet(dated) /\ IsFiniteSet(undated)
  <2>1. dated \in SUBSET matched /\ undated \in SUBSET matched
    OBVIOUS
  <2> QED BY <1>2, <2>1, FS_Subset
<1> HIDE DEF dated, undated
<1>8. /\ Cardinality(dated) \in Nat /\ Cardinality(undated) \in Nat
      /\ Cardinality(matched) = Cardinality(dated) + Cardinality(undated)
  BY <1>6, <1>7, DisjointCount
<1>9. series.total - Over(series, months) = Cardinality(undated)
  BY <1>1, <1>3, <1>8
<1>10. Cardinality(undated) = IF from = NoBound /\ to = NoBound
                              THEN UndatedIn(ids, day) ELSE 0
  BY <1>5, FS_EmptySet DEF UndatedIn
<1> QED BY <1>9, <1>10

-----------------------------------------------------------------------------
(* The summary of three counts                                             *)

Counts == {"starts", "registrations", "notEligible"}

SummaryOf(results) ==
    SummariseJourneys(results["starts"], results["registrations"], results["notEligible"])

MonthsIn(results) ==
    Months(results["starts"], results["registrations"], results["notEligible"])

\* The sum that a summary's months make for one of its counts.
SumIn(body, field, months) == SumOver([m \in months |-> body.byMonth[m][field]], months)

LEMMA SummariseFields ==
    ASSUME NEW s, NEW r, NEW n
    PROVE  /\ Summarise(s, r, n)["starts"] = s /\ Summarise(s, r, n)["registrations"] = r
           /\ Summarise(s, r, n)["notEligible"] = n
BY DEF Summarise

LEMMA SummaryFields ==
    ASSUME NEW results, NEW field \in Counts
    PROVE  LET body == SummaryOf(results)
               months == MonthsIn(results)
           IN  /\ body.all[field] = results[field].total
               /\ DOMAIN body.byMonth = months
               /\ \A m \in months : body.byMonth[m][field] = Over(results[field], {m})
               /\ \A y \in DOMAIN body.byYear :
                    body.byYear[y][field] = Over(results[field], {m \in months : YearOf(m) = y})
<1> DEFINE s == results["starts"]
           r == results["registrations"]
           n == results["notEligible"]
           body == SummaryOf(results)
           months == MonthsIn(results)
           of(ms) == Summarise(Over(s, ms), Over(r, ms), Over(n, ms))
<1>1. body = [all |-> Summarise(s.total, r.total, n.total),
              byYear |-> [y \in {YearOf(m) : m \in months} |-> of({m \in months : YearOf(m) = y})],
              byMonth |-> [m \in months |-> of({m})]]
  BY DEF SummaryOf, MonthsIn, SummariseJourneys
<1> HIDE DEF body, months
<1>2. \A ms : of(ms)[field] = Over(results[field], ms)
  BY SummariseFields DEF Counts
<1>3. Summarise(s.total, r.total, n.total)[field] = results[field].total
  BY SummariseFields DEF Counts
<1> HIDE DEF of
<1>4. body.all[field] = results[field].total
  BY <1>1, <1>3
<1>5. DOMAIN body.byMonth = months /\ \A m \in months : body.byMonth[m] = of({m})
  BY <1>1
<1>6. \A y \in DOMAIN body.byYear : body.byYear[y] = of({m \in months : YearOf(m) = y})
  BY <1>1
<1>7. \A y \in DOMAIN body.byYear :
        body.byYear[y][field] = Over(results[field], {m \in months : YearOf(m) = y})
  BY <1>2, <1>6
<1> QED BY <1>2, <1>4, <1>5, <1>7 DEF body, months

CountsFrom(results, ids, day, from, to) ==
    \A f \in Counts :
        /\ IsFiniteSet(ids[f])
        /\ \A i \in ids[f] : day[f][i] \in Nat \cup {Undated}
        /\ results[f] = MonthlyCounts(ids[f], day[f], from, to)

\* The months make the years, and with so many undated they make the whole.
AddsUp(body, field, undated) ==
    /\ body.all[field] - SumIn(body, field, DOMAIN body.byMonth) = undated
    /\ \A y \in DOMAIN body.byYear :
           body.byYear[y][field] =
               SumIn(body, field, {m \in DOMAIN body.byMonth : YearOf(m) = y})

\* A summary adds up however the three counts differ in their months.
LEMMA SummaryAddsUp ==
    ASSUME NEW results, NEW ids, NEW day, NEW from, NEW to,
           CountsFrom(results, ids, day, from, to), NEW field \in Counts
    PROVE  AddsUp(SummaryOf(results), field,
                  IF from = NoBound /\ to = NoBound
                  THEN UndatedIn(ids[field], day[field]) ELSE 0)
<1> DEFINE body == SummaryOf(results)
           months == MonthsIn(results)
           series == results[field]
<1>1. /\ body.all[field] = series.total
      /\ DOMAIN body.byMonth = months
      /\ \A m \in months : body.byMonth[m][field] = Over(series, {m})
      /\ \A y \in DOMAIN body.byYear :
            body.byYear[y][field] = Over(series, {m \in months : YearOf(m) = y})
  BY SummaryFields
<1>2. /\ months = (DOMAIN results["starts"].byMonth \cup DOMAIN results["registrations"].byMonth
                      \cup DOMAIN results["notEligible"].byMonth) \ {NoMonth}
  BY DEF MonthsIn, Months
<1>3. NoMonth \notin months /\ DOMAIN series.byMonth \subseteq months \cup {NoMonth}
  BY <1>2 DEF Counts
<1>4. IsFiniteSet(months)
  <2>1. \A f \in Counts : IsFiniteSet(DOMAIN results[f].byMonth)
    BY MonthsType DEF CountsFrom
  <2>2. /\ IsFiniteSet(DOMAIN results["starts"].byMonth)
        /\ IsFiniteSet(DOMAIN results["registrations"].byMonth)
        /\ IsFiniteSet(DOMAIN results["notEligible"].byMonth)
    BY <2>1 DEF Counts
  <2> DEFINE a == DOMAIN results["starts"].byMonth
             b == DOMAIN results["registrations"].byMonth
             c == DOMAIN results["notEligible"].byMonth
  <2> HIDE DEF a, b, c, months
  <2>3. months \in SUBSET ((a \cup b) \cup c)
    BY <1>2 DEF a, b, c
  <2>4. IsFiniteSet(a \cup b)
    BY <2>2, FS_Union DEF a, b
  <2>5. IsFiniteSet((a \cup b) \cup c)
    BY <2>2, <2>4, FS_Union DEF c
  <2> QED BY <2>3, <2>5, FS_Subset
<1> DEFINE docs == ids[field]
           dates == day[field]
<1>5. /\ IsFiniteSet(docs) /\ series = MonthlyCounts(docs, dates, from, to)
      /\ \A i \in docs : dates[i] \in Nat \cup {Undated}
  BY DEF CountsFrom
<1> HIDE DEF body, months, series, docs, dates
<1>6. ASSUME NEW ms \in SUBSET months
      PROVE  SumIn(body, field, ms) = Over(series, ms)
  <2> DEFINE counts == [m \in ms |-> body.byMonth[m][field]]
  <2>1. IsFiniteSet(ms)
    BY <1>4, FS_Subset
  <2>2. CountEach(counts, series, ms)
    BY <1>1 DEF CountEach
  <2>3. SumIn(body, field, ms) = SumOver(counts, ms)
    BY DEF SumIn
  <2> HIDE DEF counts
  <2>4. SumOver(counts, ms) = Over(series, ms)
    BY <1>5, <2>1, <2>2, OverAddsUp
  <2> QED BY <2>3, <2>4
<1>7. series.total - Over(series, months) =
        IF from = NoBound /\ to = NoBound
        THEN UndatedIn(docs, dates) ELSE 0
  BY <1>3, <1>4, <1>5, WholeAddsUp
<1>8. body.all[field] - SumIn(body, field, DOMAIN body.byMonth) =
        series.total - Over(series, months)
  BY <1>1, <1>6
<1>9. ASSUME NEW y \in DOMAIN body.byYear
      PROVE  body.byYear[y][field] = SumIn(body, field, {m \in DOMAIN body.byMonth : YearOf(m) = y})
  BY <1>1, <1>6
<1> QED BY <1>7, <1>8, <1>9 DEF AddsUp, body, docs, dates

\* A month that a summary lists has a document of one of the counts.
LEMMA MonthHasSome ==
    ASSUME NEW results, NEW ids, NEW day, NEW from, NEW to,
           CountsFrom(results, ids, day, from, to),
           NEW m \in DOMAIN SummaryOf(results).byMonth
    PROVE  \E f \in Counts : SummaryOf(results).byMonth[m][f] # 0
<1>1. m \in MonthsIn(results)
  BY SummaryFields DEF Counts
<1>2. PICK f \in Counts : m \in DOMAIN results[f].byMonth
  BY <1>1 DEF MonthsIn, Months, Counts
<1>3. SummaryOf(results).byMonth[m][f] = Over(results[f], {m})
  BY <1>1, SummaryFields
<1> DEFINE docs == ids[f]
           dates == day[f]
           matched == Matched(docs, dates, from, to)
           h == MonthsOf(docs, dates)
           these == {i \in matched : h[i] \in {m}}
<1>4. IsFiniteSet(docs) /\ results[f] = MonthlyCounts(docs, dates, from, to)
  BY DEF CountsFrom
<1>5. Over(results[f], {m}) = Cardinality(these)
  <2>1. IsFiniteSet({m})
    BY FS_Singleton
  <2> HIDE DEF docs, dates
  <2>2. Over(results[f], {m}) = Dated(docs, dates, from, to, {m})
    BY <1>4, <2>1, OverIs
  <2> QED BY <2>2 DEF Dated, Within
<1>6. \E i \in matched : h[i] = m
  BY <1>2, <1>4, CountsAre
<1>7. IsFiniteSet(matched)
  BY <1>4, MatchedType
<1> HIDE DEF docs, dates, matched, h
<1>8. these # {} /\ these \in SUBSET matched
  BY <1>6
<1> HIDE DEF these
<1>9. Cardinality(these) # 0
  BY <1>7, <1>8, FS_Subset, FS_EmptySet
<1> QED BY <1>3, <1>5, <1>9
=============================================================================
