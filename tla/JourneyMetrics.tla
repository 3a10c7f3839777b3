---------------------------- MODULE JourneyMetrics ----------------------------
(***************************************************************************)
(* Volumes per month, as the database's aggregation counts them            *)
(* (helpers/monthly-counts.js), and the summary of journeys made of three  *)
(* of them (services/metrics/journeys).  A date is a day; a document       *)
(* without its date is Undated and has no month.                           *)
(***************************************************************************)
EXTENDS Integers, FiniteSets, FiniteSetsExt

CONSTANTS DaysPerMonth, MonthsPerYear

ASSUME CalendarAssumption == DaysPerMonth \in Nat \ {0} /\ MonthsPerYear \in Nat \ {0}

Undated == -1   \* sorts before every date, as null does
NoMonth == -1
NoBound == -1

MonthOf(day) == IF day = Undated THEN NoMonth ELSE day \div DaysPerMonth

YearOf(month) == month \div MonthsPerYear

\* The $match: both days included, and the undated if there are no bounds.
InRange(day, from, to) ==
    \/ from = NoBound /\ to = NoBound
    \/ /\ day # Undated
       /\ from = NoBound \/ from <= day
       /\ to = NoBound \/ day <= to

\* monthlyCountsPipeline and toMonthlyCounts over the documents ids, dated day[i].
MonthlyCounts(ids, day, from, to) ==
    LET matched == {i \in ids : InRange(day[i], from, to)}
    IN  [total |-> Cardinality(matched),
         byMonth |-> [m \in {MonthOf(day[i]) : i \in matched} |->
                        Cardinality({i \in matched : MonthOf(day[i]) = m})]]

CountFor(series, month) ==
    IF month \in DOMAIN series.byMonth THEN series.byMonth[month] ELSE 0

\* A share of the starts, at most all of them; none of no starts.
Rate(count, starts) ==
    IF starts = 0 THEN "null" ELSE <<IF count < starts THEN count ELSE starts, starts>>

Summarise(s, r, n) ==
    [starts |-> s, registrations |-> r, notEligible |-> n, finished |-> r + n,
     dropOuts |-> IF s > r + n THEN s - (r + n) ELSE 0,
     completionRate |-> Rate(r + n, s), registrationRate |-> Rate(r, s)]

\* What goes wrong if only months with a start are listed.
MonthsOfStarts(starts, registrations, notEligible) ==
    DOMAIN starts.byMonth \ {NoMonth}

\* The months with anything in them.
Months(starts, registrations, notEligible) ==
    (DOMAIN starts.byMonth \cup DOMAIN registrations.byMonth \cup DOMAIN notEligible.byMonth)
        \ {NoMonth}

\* The sums of sumByYear: what some of the months have together.
SumOver(counts, months) == MapThenSumSet(LAMBDA m : counts[m], months)

Over(series, months) == SumOver([m \in months |-> CountFor(series, m)], months)

\* summariseJourneys, of three counts that were read separately.
SummariseJourneys(starts, registrations, notEligible) ==
    LET months == Months(starts, registrations, notEligible)
        of(ms) == Summarise(Over(starts, ms), Over(registrations, ms), Over(notEligible, ms))
    IN  [all |-> Summarise(starts.total, registrations.total, notEligible.total),
         byYear |-> [y \in {YearOf(m) : m \in months} |-> of({m \in months : YearOf(m) = y})],
         byMonth |-> [m \in months |-> of({m})]]
=============================================================================
