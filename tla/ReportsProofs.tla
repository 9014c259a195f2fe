---------------------------- MODULE ReportsProofs ----------------------------
(***************************************************************************)
(* The days of BusinessTime, for every zone that changes its clocks at    *)
(* most once and not around midnight, what they mean for decisions that a  *)
(* report of a day or of a range counts, and that the figures of the       *)
(* reports add up: by days and by projects, for every finite set of logs   *)
(* and of projects, every set of instants and dates, and every limit.      *)
(***************************************************************************)
EXTENDS Reports, FiniteSetTheorems, TLAPS

\* The two look-ups of zonedDayStartUtc find the instant at which the clocks show midnight.
THEOREM DayStartIsMidnight ==
  \A z \in Zones, date \in Dates :
    DayStart(z, date) \in Int /\ DayStart(z, date) + Offset(z, DayStart(z, date)) = Hours(date)
<1>1. SUFFICES ASSUME NEW z \in Zones, NEW date \in Dates
               PROVE  /\ DayStart(z, date) \in Int
                      /\ DayStart(z, date) + Offset(z, DayStart(z, date)) = Hours(date)
  OBVIOUS
<1>2. /\ date \in Int
      /\ z.before \in Int /\ z.after \in Int /\ z.switch \in Int
      /\ z.switch <= Hours(date) - Later(z) \/ z.switch > Hours(date) - Earlier(z)
  BY ZonesAssumption
<1>3. CASE z.switch <= Hours(date) - Later(z)
  BY <1>2, <1>3 DEF DayStart, Offset, Hours, Later
<1>4. CASE z.switch > Hours(date) - Earlier(z)
  BY <1>2, <1>4 DEF DayStart, Offset, Hours, Earlier
<1> QED
  BY <1>2, <1>3, <1>4

\* The interval of a range, from the zonedDayStartUtc of its first date to the
\* zonedDayEndExclusiveUtc of its last, holds the instants of its dates.
LEMMA RangeHoldsItsInstants ==
  ASSUME NEW z \in Zones, NEW from \in Dates, NEW to \in Dates, to + 1 \in Dates,
         NEW instant \in Int
  PROVE  /\ Today(z, instant) \in Int
         /\ Today(z, instant) \in from..to
              <=> DayStart(z, from) <= instant /\ instant < DayEnd(z, to)
<1>1. /\ from \in Int /\ to \in Int
      /\ z.before \in Int /\ z.after \in Int /\ z.switch \in Int
      /\ z.switch <= Hours(from) - Later(z) \/ z.switch > Hours(from) - Earlier(z)
      /\ z.switch <= Hours(to + 1) - Later(z) \/ z.switch > Hours(to + 1) - Earlier(z)
  BY ZonesAssumption
<1>2. Offset(z, instant) \in Int
  BY <1>1 DEF Offset
<1>3. /\ Today(z, instant) \in Int
      /\ Today(z, instant) \in from..to
           <=> Hours(from) <= instant + Offset(z, instant)
               /\ instant + Offset(z, instant) < Hours(to + 1)
  <2> DEFINE shown == instant + Offset(z, instant)
  <2>1. shown \in Int
    BY <1>2
  <2> HIDE DEF shown
  <2>2. /\ shown \div 24 \in Int
        /\ shown \div 24 \in from..to <=> 24 * from <= shown /\ shown < 24 * (to + 1)
    BY <1>1, <2>1
  <2> QED
    BY <2>2 DEF Today, Hours, shown
<1>4. Hours(from) <= instant + Offset(z, instant) <=> DayStart(z, from) <= instant
  BY <1>1 DEF DayStart, Offset, Hours, Later, Earlier
<1>5. instant + Offset(z, instant) < Hours(to + 1) <=> instant < DayEnd(z, to)
  BY <1>1 DEF DayEnd, DayStart, Offset, Hours, Later, Earlier
<1> QED
  BY <1>3, <1>4, <1>5

\* The interval from zonedDayStartUtc to zonedDayEndExclusiveUtc of a date holds exactly
\* the instants that todayInBusinessZone gives that date, on a day of 23 or 25 hours as on
\* any other: the days follow each other without a gap and without an overlap.
THEOREM DayHoldsItsInstants ==
  \A z \in Zones, date \in Dates, instant \in Int :
    date + 1 \in Dates =>
      (Today(z, instant) = date <=> DayStart(z, date) <= instant /\ instant < DayEnd(z, date))
<1>1. SUFFICES ASSUME NEW z \in Zones, NEW date \in Dates, NEW instant \in Int,
                      date + 1 \in Dates
               PROVE  Today(z, instant) = date <=> Today(z, instant) \in date..date
  BY RangeHoldsItsInstants
<1> QED
  BY <1>1, RangeHoldsItsInstants, ZonesAssumption

-----------------------------------------------------------------------------
(***************************************************************************)
(* The tables.  A log exists if and only if it has a version, the last one *)
(* is current, what has been decided was decided at an instant that was    *)
(* reached, and finitely many decisions have been taken.                   *)
(***************************************************************************)
ReportIInv ==
  /\ ReportTypeOK
  /\ versions \in [Logs -> Seq(Versions)]
  /\ \A l \in Logs : status[l] # "ABSENT" <=> Len(versions[l]) # 0
  /\ IsFiniteSet(decisions)
  /\ \A d \in decisions : d.at <= now

\* Appending a version, and nothing else, makes a sequence of versions longer.
LEMMA Appended ==
  ASSUME NEW s \in Seq(Versions), NEW v \in Versions
  PROVE  Append(s, v) \in Seq(Versions) /\ Len(Append(s, v)) = Len(s) + 1 /\ Len(s) \in Nat
OBVIOUS

\* Init, every change of a log, of a project and of the time keep the tables well formed.
LEMMA ReportInvariance == Spec => []ReportIInv
<1>1. Init => ReportIInv
  <2>1. ASSUME Init PROVE now \in Instants /\ ReportIInv
    <3>1. now \in Instants
      BY <2>1, ReportsAssumption DEF Init, Min
    <3> QED
      BY <2>1, <3>1, ReportsAssumption, FS_EmptySet DEF Init, ReportIInv, ReportTypeOK, Statuses
  <2> QED
    BY <2>1
<1>2. ASSUME ReportIInv, [Next]_vars
      PROVE  ReportIInv'
  <2> USE <1>2
  <2>1. ASSUME NEW l \in Logs, Submit(l)
        PROVE  ReportIInv'
    BY <2>1 DEF Submit, ReportIInv, ReportTypeOK, Statuses
  <2>2. ASSUME NEW l \in Logs, NEW v \in Versions, Create(l, v)
        PROVE  ReportIInv'
    <3>1. <<v>> \in Seq(Versions) /\ Len(<<v>>) = 1 /\ 1 <= MaxVersions
      BY ReportsAssumption
    <3> QED
      BY <2>2, <3>1 DEF Create, ReportIInv, ReportTypeOK, Statuses
  <2>3. ASSUME NEW l \in Logs, NEW v \in Versions, Revise(l, v)
        PROVE  ReportIInv'
    <3>1. versions[l] \in Seq(Versions) /\ Len(versions[l]) < MaxVersions
      BY <2>3 DEF Revise, ReportIInv
    <3>2. /\ Append(versions[l], v) \in Seq(Versions)
          /\ Len(Append(versions[l], v)) <= MaxVersions /\ Len(Append(versions[l], v)) # 0
      BY <3>1, Appended, ReportsAssumption
    <3>3. versions' = [versions EXCEPT ![l] = Append(versions[l], v)]
      BY <2>3 DEF Revise, ReportIInv
    <3> QED
      BY <2>3, <3>2, <3>3 DEF Revise, ReportIInv, ReportTypeOK, Statuses
  <2>4. ASSUME NEW l \in Logs, NEW verdict \in Verdicts, Decide(l, verdict)
        PROVE  ReportIInv'
    <3> DEFINE d == [log |-> l, number |-> Len(versions[l]), verdict |-> verdict, at |-> now]
    <3>1. Len(versions[l]) \in 1..MaxVersions
      <4>1. Len(versions[l]) \in Nat /\ Len(versions[l]) # 0 /\ Len(versions[l]) <= MaxVersions
        BY <2>4 DEF Decide, ReportIInv, ReportTypeOK
      <4> QED
        BY <4>1, ReportsAssumption
    <3>2. d \in [log : Logs, number : 1..MaxVersions, verdict : Verdicts, at : Instants]
      BY <3>1 DEF ReportIInv, ReportTypeOK
    <3>3. d.at <= now
      BY ReportsAssumption DEF ReportIInv, ReportTypeOK
    <3>4. decisions' = decisions \cup {d}
      BY <2>4 DEF Decide
    <3>5. IsFiniteSet(decisions')
      <4>1. IsFiniteSet(decisions)
        BY DEF ReportIInv
      <4> QED
        BY <3>4, <4>1, FS_AddElement
    <3> HIDE DEF d
    <3> QED
      BY <2>4, <3>2, <3>3, <3>4, <3>5 DEF Decide, ReportIInv, ReportTypeOK, Statuses, Verdicts
  <2>5. ASSUME NEW p \in Projects, ChangeStatus(p)
        PROVE  ReportIInv'
    BY <2>5 DEF ChangeStatus, ReportIInv, ReportTypeOK
  <2>6. CASE Pass
    <3>1. \A d \in decisions : d.at \in Int
      BY ReportsAssumption DEF ReportIInv, ReportTypeOK
    <3>2. now \in Int /\ now' \in Int /\ now < now'
      BY <2>6, ReportsAssumption DEF Pass, ReportIInv, ReportTypeOK
    <3> QED
      BY <2>6, <3>1, <3>2 DEF Pass, ReportIInv, ReportTypeOK
  <2>7. CASE UNCHANGED vars
    BY <2>7 DEF vars, ReportIInv, ReportTypeOK
  <2> QED
    BY <2>1, <2>2, <2>3, <2>4, <2>5, <2>6, <2>7 DEF Next
<1> QED
  BY <1>1, <1>2, PTL DEF Spec

\* A decision is one of the range exactly when the clocks showed a date of it.
LEMMA CountedByDate ==
  ASSUME ReportIInv, NEW scope \in SUBSET Logs, NEW from \in Dates, NEW to \in Dates, to + 1 \in Dates
  PROVE  CountedDecisions(scope, from, to) =
           {d \in decisions : d.log \in scope /\ Today(zone, d.at) \in from..to}
<1>1. zone \in Zones /\ \A d \in decisions : d.at \in Int
  BY ReportsAssumption DEF ReportIInv, ReportTypeOK
<1> QED
  BY <1>1, RangeHoldsItsInstants DEF CountedDecisions, InRange

\* The tables have their types.
THEOREM ReportTypes == Spec => []ReportTypeOK
<1>1. ReportIInv => ReportTypeOK
  BY DEF ReportIInv
<1> QED
  BY <1>1, ReportInvariance, PTL

\* A decision is in the report of the one day that the clocks showed when it was taken
\* (resolveRange, businessDayBounds).
THEOREM DecisionsFallIntoTheirDays == Spec => []DecisionFallsInItsDay
<1>1. ASSUME ReportIInv PROVE DecisionFallsInItsDay
  <2>1. SUFFICES ASSUME NEW date \in Dates, date + 1 \in Dates
                 PROVE  {d \in decisions : Today(zone, d.at) = date}
                          = CountedDecisions(Logs, date, date)
    <3>1. ASSUME NEW r \in Ranges, r[1] = r[2]
          PROVE  r[1] \in Dates /\ r[1] + 1 \in Dates
      <4>1. r[1] \in Dates /\ r[2] \in Dates /\ \A n \in r[1]..(r[2] + 1) : n \in Dates
        BY DEF Ranges
      <4>2. r[1] \in Int
        BY <4>1, ZonesAssumption
      <4>3. r[1] + 1 \in r[1]..(r[2] + 1)
        BY <3>1, <4>2
      <4> QED
        BY <4>1, <4>3
    <3> QED
      BY <3>1 DEF DecisionFallsInItsDay
  <2>2. \A d \in decisions : d.log \in Logs /\ Today(zone, d.at) \in Int
    BY <1>1, <2>1, RangeHoldsItsInstants, ReportsAssumption DEF ReportIInv, ReportTypeOK
  <2>3. date..date = {date}
    BY <2>1, ZonesAssumption
  <2>4. CountedDecisions(Logs, date, date)
          = {d \in decisions : d.log \in Logs /\ Today(zone, d.at) \in date..date}
    <3>1. Logs \in SUBSET Logs
      OBVIOUS
    <3> QED
      BY <1>1, <2>1, <3>1, CountedByDate
  <2> QED
    BY <2>2, <2>3, <2>4
<1> QED
  BY <1>1, ReportInvariance, PTL

\* The decisions of a range are those of its days, and no decision is one of two days: what
\* the sums of RangeIsItsDays rest on.
DaysPartitionTheirRange ==
  \A scope \in Scopes, r \in Ranges :
    LET day(n) == CountedDecisions(scope, n, n) IN
    /\ CountedDecisions(scope, r[1], r[2]) = UNION {day(n) : n \in r[1]..r[2]}
    /\ \A m, n \in r[1]..r[2] : m # n => day(m) \cap day(n) = {}

\* The days of a range split what it counts.
LEMMA DaysOfARange ==
  ASSUME ReportIInv, NEW scope \in Scopes, NEW r \in Ranges
  PROVE  LET day(n) == CountedDecisions(scope, n, n) IN
         /\ CountedDecisions(scope, r[1], r[2]) = UNION {day(n) : n \in r[1]..r[2]}
         /\ \A m, n \in r[1]..r[2] : m # n => day(m) \cap day(n) = {}
<1> DEFINE shown(d) == Today(zone, d.at)
           day(n) == CountedDecisions(scope, n, n)
<1>1. /\ scope \in SUBSET Logs
      /\ r[1] \in Dates /\ r[2] \in Dates /\ r[1] <= r[2]
      /\ \A n \in r[1]..(r[2] + 1) : n \in Dates
  BY DEF Scopes, Own, AcrossProjects, Ranges
<1>2. r[1] \in Int /\ r[2] \in Int
  BY <1>1, ZonesAssumption
<1>3. /\ r[2] + 1 \in Dates
      /\ \A n \in r[1]..r[2] : n \in Int /\ n \in Dates /\ n + 1 \in Dates
  BY <1>1, <1>2
<1>4. CountedDecisions(scope, r[1], r[2])
        = {d \in decisions : d.log \in scope /\ shown(d) \in r[1]..r[2]}
  BY <1>1, <1>3, CountedByDate
<1>5. \A n \in r[1]..r[2] : day(n) = {d \in decisions : d.log \in scope /\ shown(d) \in n..n}
  BY <1>1, <1>3, CountedByDate
<1>6. \A d \in decisions : shown(d) \in Int
  BY <1>1, <1>3, RangeHoldsItsInstants, ReportsAssumption DEF ReportIInv, ReportTypeOK
<1>7. \A n \in r[1]..r[2] : n..n = {n}
  BY <1>3
<1> HIDE DEF shown, day
<1> QED
  BY <1>4, <1>5, <1>6, <1>7 DEF day

\* Reports of consecutive days neither miss a decision of their range nor count one twice.
THEOREM DaysPartition == Spec => []DaysPartitionTheirRange
<1>1. ReportIInv => DaysPartitionTheirRange
  BY DaysOfARange DEF DaysPartitionTheirRange
<1> QED
  BY <1>1, ReportInvariance, PTL

-----------------------------------------------------------------------------
(***************************************************************************)
(* Sums over finite sets.  SumFunctionOnSet is a recursive function on the *)
(* subsets of its set, so what is known of it comes from an induction on   *)
(* subsets: a property of sets is the set of the subsets that have it.     *)
(***************************************************************************)

\* A set of subsets of a finite set that has every subset whose smaller subsets it has,
\* has them all.
LEMMA SubsetInduction ==
  ASSUME NEW S, IsFiniteSet(S), NEW Good,
         \A T \in SUBSET S : (\A U \in SUBSET T : U # T => U \in Good) => T \in Good
  PROVE  SUBSET S \subseteq Good
<1> DEFINE Bad == {T \in SUBSET S : T \notin Good}
<1>1. SUFFICES ASSUME Bad # {} PROVE FALSE
  OBVIOUS
<1>2. Bad \subseteq FiniteSubsetsOf(S)
  BY FS_FiniteSubsetsOfFinite
<1>3. \E T \in Bad : \A U \in Bad : ~ (<<U, T>> \in StrictSubsetOrdering(S))
  <2> HIDE DEF Bad
  <2>1. IsWellFoundedOn(StrictSubsetOrdering(S), FiniteSubsetsOf(S))
    BY FS_StrictSubsetOrderingWellFounded
  <2> QED
    BY <1>1, <1>2, <2>1, WFMin
<1>4. PICK T \in Bad : \A U \in Bad : ~ (<<U, T>> \in StrictSubsetOrdering(S))
  BY <1>3
<1>5. PICK U \in SUBSET T : U # T /\ U \notin Good
  OBVIOUS
<1> QED
  BY <1>4, <1>5 DEF StrictSubsetOrdering

\* The function that SumFunctionOnSet chooses.
Summed(g, f, S) ==
  g = [s \in SUBSET S |-> IF s = {} THEN 0
                          ELSE LET x == CHOOSE x \in s : TRUE IN f[x] + g[s \ {x}]]

SummedBy(f, S) == CHOOSE g : Summed(g, f, S)

LEMMA SumIsSummed ==
  ASSUME NEW f, NEW S
  PROVE  SumFunctionOnSet(f, S) = SummedBy(f, S)[S]
BY DEF SumFunctionOnSet, FoldFunctionOnSet, MapThenFoldSet, SummedBy, Summed

\* Two such functions agree where both are defined.
LEMMA SummedAgree ==
  ASSUME NEW f, NEW S, NEW T, IsFiniteSet(S), NEW g, Summed(g, f, S), NEW h, Summed(h, f, T),
         S \subseteq T
  PROVE  g[S] = h[S]
<1> DEFINE Good == {U \in SUBSET S : g[U] = h[U]}
<1>1. ASSUME NEW U \in SUBSET S, \A V \in SUBSET U : V # U => V \in Good
      PROVE  U \in Good
  <2>1. CASE U = {}
    BY <2>1 DEF Summed
  <2>2. CASE U # {}
    <3> DEFINE x == CHOOSE x \in U : TRUE
    <3>1. x \in U /\ U \ {x} \in SUBSET U /\ U \ {x} # U
      BY <2>2
    <3>2. g[U \ {x}] = h[U \ {x}]
      BY <1>1, <3>1
    <3>3. g[U] = f[x] + g[U \ {x}] /\ h[U] = f[x] + h[U \ {x}]
      BY <2>2 DEF Summed
    <3> QED
      BY <3>2, <3>3
  <2> QED
    BY <2>1, <2>2
<1>2. SUBSET S \subseteq Good
  <2> HIDE DEF Good
  <2> QED
    BY <1>1, SubsetInduction
<1> QED
  BY <1>2

\* A finite set has one.
LEMMA SummedExists ==
  ASSUME NEW f, NEW S, IsFiniteSet(S)
  PROVE  Summed(SummedBy(f, S), f, S)
<1> DEFINE Good == {T \in SUBSET S : \E g : Summed(g, f, T)}
<1>1. ASSUME NEW T \in SUBSET S, \A U \in SUBSET T : U # T => U \in Good
      PROVE  T \in Good
  <2> DEFINE x(s) == CHOOSE x \in s : TRUE
             less(s) == s \ {x(s)}
             g == [s \in SUBSET T |-> IF s = {} THEN 0
                                      ELSE f[x(s)] + SummedBy(f, less(s))[less(s)]]
  <2>1. ASSUME NEW U \in SUBSET T, U # T
        PROVE  IsFiniteSet(U) /\ Summed(SummedBy(f, U), f, U)
    <3>1. IsFiniteSet(U)
      BY FS_Subset
    <3>2. \E h : Summed(h, f, U)
      BY <1>1, <2>1
    <3> QED
      BY <3>1, <3>2 DEF SummedBy
  <2>2. ASSUME NEW s \in SUBSET T, s # {}
        PROVE  g[less(s)] = SummedBy(f, less(s))[less(s)]
    <3> DEFINE u == less(s)
    <3>1. u \in SUBSET T /\ u # T
      BY <2>2
    <3>2. Summed(SummedBy(f, u), f, u)
      BY <2>1, <3>1
    <3>3. CASE u = {}
      <4>1. SummedBy(f, u)[u] = 0
        <5> HIDE DEF u
        <5> QED
          BY <3>2, <3>3 DEF Summed
      <4>2. g[u] = 0
        <5> HIDE DEF u
        <5> QED
          BY <3>1, <3>3
      <4> QED
        BY <4>1, <4>2
    <3>4. CASE u # {}
      <4>1. less(u) \in SUBSET T /\ less(u) # T /\ less(u) \subseteq u
        BY <3>1
      <4>2. SummedBy(f, less(u))[less(u)] = SummedBy(f, u)[less(u)]
        <5>1. IsFiniteSet(less(u)) /\ Summed(SummedBy(f, less(u)), f, less(u))
          BY <2>1, <4>1
        <5> HIDE DEF u, less
        <5> QED
          BY <3>2, <4>1, <5>1, SummedAgree
      <4>3. SummedBy(f, u)[u] = f[x(u)] + SummedBy(f, u)[less(u)]
        <5> HIDE DEF u
        <5> QED
          BY <3>2, <3>4 DEF Summed
      <4>4. g[u] = f[x(u)] + SummedBy(f, less(u))[less(u)]
        <5> HIDE DEF u
        <5> QED
          BY <3>1, <3>4
      <4> QED
        BY <4>2, <4>3, <4>4
    <3> QED
      BY <3>3, <3>4
  <2>3. g = [s \in SUBSET T |-> IF s = {} THEN 0 ELSE f[x(s)] + g[less(s)]]
    <3>1. \A s \in SUBSET T : s # {} => SummedBy(f, less(s))[less(s)] = g[less(s)]
      BY <2>2
    <3> DEFINE h == g
    <3>2. \A s \in SUBSET T : s # {} => SummedBy(f, less(s))[less(s)] = h[less(s)]
      BY <3>1
    <3> HIDE DEF h
    <3>3. g = [s \in SUBSET T |-> IF s = {} THEN 0 ELSE f[x(s)] + h[less(s)]]
      BY <3>2
    <3> QED
      BY <3>3 DEF h
  <2>4. Summed(g, f, T)
    <3> HIDE DEF g
    <3> QED
      BY <2>3 DEF Summed
  <2> QED
    BY <2>4
<1>2. SUBSET S \subseteq Good
  <2> HIDE DEF Good
  <2> QED
    BY <1>1, SubsetInduction
<1>3. \E g : Summed(g, f, S)
  BY <1>2
<1> QED
  BY <1>3 DEF SummedBy

LEMMA SumOfNothing ==
  ASSUME NEW f
  PROVE  SumFunctionOnSet(f, {}) = 0
<1>1. Summed(SummedBy(f, {}), f, {})
  BY SummedExists, FS_EmptySet
<1> QED
  BY <1>1, SumIsSummed DEF Summed

LEMMA SumOfChosen ==
  ASSUME NEW f, NEW S, IsFiniteSet(S), S # {}
  PROVE  LET x == CHOOSE x \in S : TRUE
         IN  x \in S /\ SumFunctionOnSet(f, S) = f[x] + SumFunctionOnSet(f, S \ {x})
<1> DEFINE x == CHOOSE x \in S : TRUE
           T == S \ {x}
<1>1. x \in S /\ T \subseteq S /\ IsFiniteSet(T)
  BY FS_Subset
<1>2. Summed(SummedBy(f, S), f, S) /\ Summed(SummedBy(f, T), f, T)
  BY <1>1, SummedExists
<1>3. SummedBy(f, S)[S] = f[x] + SummedBy(f, S)[T]
  BY <1>2 DEF Summed
<1>4. SummedBy(f, T)[T] = SummedBy(f, S)[T]
  <2> HIDE DEF T
  <2> QED
    BY <1>1, <1>2, SummedAgree
<1>5. SumFunctionOnSet(f, S) = SummedBy(f, S)[S] /\ SumFunctionOnSet(f, T) = SummedBy(f, T)[T]
  BY SumIsSummed
<1> QED
  BY <1>1, <1>3, <1>4, <1>5

\* What a function is outside the set does not matter.
LEMMA SumIsLocal ==
  ASSUME NEW f, NEW h, NEW S, IsFiniteSet(S), \A x \in S : f[x] = h[x]
  PROVE  SumFunctionOnSet(f, S) = SumFunctionOnSet(h, S)
<1> DEFINE Good == {T \in SUBSET S : SumFunctionOnSet(f, T) = SumFunctionOnSet(h, T)}
<1>1. ASSUME NEW T \in SUBSET S, \A U \in SUBSET T : U # T => U \in Good
      PROVE  T \in Good
  <2>1. CASE T = {}
    BY <2>1, SumOfNothing
  <2>2. CASE T # {}
    <3> DEFINE x == CHOOSE x \in T : TRUE
    <3>1. x \in T /\ T \ {x} \in SUBSET T /\ T \ {x} # T /\ IsFiniteSet(T)
      BY <2>2, FS_Subset
    <3>2. /\ SumFunctionOnSet(f, T) = f[x] + SumFunctionOnSet(f, T \ {x})
          /\ SumFunctionOnSet(h, T) = h[x] + SumFunctionOnSet(h, T \ {x})
      BY <2>2, <3>1, SumOfChosen
    <3>3. T \ {x} \in Good
      BY <1>1, <3>1
    <3> QED
      BY <3>1, <3>2, <3>3
  <2> QED
    BY <2>1, <2>2
<1>2. SUBSET S \subseteq Good
  <2> HIDE DEF Good
  <2> QED
    BY <1>1, SubsetInduction
<1> QED
  BY <1>2

LEMMA SumType ==
  ASSUME NEW f, NEW S, IsFiniteSet(S), \A x \in S : f[x] \in Int
  PROVE  SumFunctionOnSet(f, S) \in Int
<1> DEFINE Good == {T \in SUBSET S : SumFunctionOnSet(f, T) \in Int}
<1>1. ASSUME NEW T \in SUBSET S, \A U \in SUBSET T : U # T => U \in Good
      PROVE  T \in Good
  <2>1. CASE T = {}
    BY <2>1, SumOfNothing
  <2>2. CASE T # {}
    <3> DEFINE x == CHOOSE x \in T : TRUE
    <3>1. x \in T /\ T \ {x} \in SUBSET T /\ T \ {x} # T /\ IsFiniteSet(T)
      BY <2>2, FS_Subset
    <3>2. SumFunctionOnSet(f, T) = f[x] + SumFunctionOnSet(f, T \ {x})
      BY <2>2, <3>1, SumOfChosen
    <3>3. T \ {x} \in Good
      BY <1>1, <3>1
    <3> QED
      BY <3>1, <3>2, <3>3
  <2> QED
    BY <2>1, <2>2
<1>2. SUBSET S \subseteq Good
  <2> HIDE DEF Good
  <2> QED
    BY <1>1, SubsetInduction
<1> QED
  BY <1>2

\* Any element may be taken out first.
LEMMA SumOfAnElement ==
  ASSUME NEW f, NEW S, IsFiniteSet(S), \A x \in S : f[x] \in Int
  PROVE  \A x \in S : SumFunctionOnSet(f, S) = f[x] + SumFunctionOnSet(f, S \ {x})
<1> DEFINE Good == {T \in SUBSET S : \A x \in T :
                      SumFunctionOnSet(f, T) = f[x] + SumFunctionOnSet(f, T \ {x})}
<1>1. ASSUME NEW T \in SUBSET S, \A U \in SUBSET T : U # T => U \in Good
      PROVE  T \in Good
  <2>1. SUFFICES ASSUME NEW x \in T
                 PROVE  SumFunctionOnSet(f, T) = f[x] + SumFunctionOnSet(f, T \ {x})
    OBVIOUS
  <2> DEFINE c == CHOOSE y \in T : TRUE
  <2>2. c \in T /\ SumFunctionOnSet(f, T) = f[c] + SumFunctionOnSet(f, T \ {c})
    <3>1. IsFiniteSet(T) /\ T # {}
      BY FS_Subset
    <3> QED
      BY <3>1, SumOfChosen
  <2> HIDE DEF c
  <2>3. CASE x = c
    BY <2>2, <2>3
  <2>4. CASE x # c
    <3> DEFINE R == (T \ {c}) \ {x}
    <3>1. R = (T \ {x}) \ {c} /\ R \subseteq S
      OBVIOUS
    <3>2. SumFunctionOnSet(f, T \ {c}) = f[x] + SumFunctionOnSet(f, R)
      <4>1. T \ {c} \in SUBSET T /\ T \ {c} # T /\ x \in T \ {c}
        BY <2>2, <2>4
      <4> QED
        BY <1>1, <4>1
    <3>3. SumFunctionOnSet(f, T \ {x}) = f[c] + SumFunctionOnSet(f, R)
      <4>1. T \ {x} \in SUBSET T /\ T \ {x} # T /\ c \in T \ {x}
        BY <2>2, <2>4
      <4> QED
        BY <1>1, <3>1, <4>1
    <3>4. f[x] \in Int /\ f[c] \in Int /\ SumFunctionOnSet(f, R) \in Int
      <4>1. IsFiniteSet(R) /\ \A y \in R : f[y] \in Int
        BY <3>1, FS_Subset
      <4> QED
        BY <2>2, <4>1, SumType
    <3> HIDE DEF R
    <3> QED
      BY <2>2, <3>2, <3>3, <3>4
  <2> QED
    BY <2>3, <2>4
<1>2. SUBSET S \subseteq Good
  <2> HIDE DEF Good
  <2> QED
    BY <1>1, SubsetInduction
<1> QED
  BY <1>2

\* The sum over two disjoint sets.
LEMMA SumOfUnion ==
  ASSUME NEW f, NEW S, NEW T, IsFiniteSet(S), IsFiniteSet(T), S \cap T = {},
         \A x \in S \cup T : f[x] \in Int
  PROVE  SumFunctionOnSet(f, S \cup T) = SumFunctionOnSet(f, S) + SumFunctionOnSet(f, T)
<1> DEFINE Good == {U \in SUBSET S :
             SumFunctionOnSet(f, U \cup T) = SumFunctionOnSet(f, U) + SumFunctionOnSet(f, T)}
<1>0. SumFunctionOnSet(f, T) \in Int
  BY SumType
<1>1. ASSUME NEW U \in SUBSET S, \A V \in SUBSET U : V # U => V \in Good
      PROVE  U \in Good
  <2>1. CASE U = {}
    <3>1. U \cup T = T
      BY <2>1
    <3> QED
      BY <1>0, <2>1, <3>1, SumOfNothing
  <2>2. CASE U # {}
    <3>1. PICK x \in U : TRUE
      BY <2>2
    <3> DEFINE V == U \ {x}
    <3>2. /\ V \in SUBSET U /\ V # U /\ (U \cup T) \ {x} = V \cup T
          /\ IsFiniteSet(U) /\ IsFiniteSet(U \cup T) /\ IsFiniteSet(V)
      BY <3>1, FS_Subset, FS_Union
    <3>3. SumFunctionOnSet(f, V \cup T) = SumFunctionOnSet(f, V) + SumFunctionOnSet(f, T)
      BY <1>1, <3>2
    <3>4. SumFunctionOnSet(f, U) = f[x] + SumFunctionOnSet(f, V)
      BY <3>2, SumOfAnElement
    <3>5. SumFunctionOnSet(f, U \cup T) = f[x] + SumFunctionOnSet(f, V \cup T)
      <4>1. x \in U \cup T /\ \A y \in U \cup T : f[y] \in Int
        OBVIOUS
      <4>2. SumFunctionOnSet(f, U \cup T) = f[x] + SumFunctionOnSet(f, (U \cup T) \ {x})
        BY <3>2, <4>1, SumOfAnElement
      <4> QED
        BY <3>2, <4>2
    <3>6. f[x] \in Int /\ SumFunctionOnSet(f, V) \in Int
      BY <3>2, SumType
    <3> HIDE DEF V
    <3> QED
      BY <1>0, <3>3, <3>4, <3>5, <3>6
  <2> QED
    BY <2>1, <2>2
<1>2. SUBSET S \subseteq Good
  <2> HIDE DEF Good
  <2> QED
    BY <1>1, SubsetInduction
<1> QED
  BY <1>2

\* A set that is split into parts: its sum is the sum of the sums of its parts, and its
\* size the sum of their sizes.
Parts(I, part) == UNION {part[i] : i \in I}

LEMMA PartsAreFinite ==
  ASSUME NEW I, NEW part, IsFiniteSet(I), \A i \in I : IsFiniteSet(part[i])
  PROVE  IsFiniteSet(Parts(I, part))
<1> DEFINE Good == {J \in SUBSET I : IsFiniteSet(Parts(J, part))}
<1>1. ASSUME NEW J \in SUBSET I, \A K \in SUBSET J : K # J => K \in Good
      PROVE  J \in Good
  <2>1. CASE J = {}
    <3>1. Parts(J, part) = {}
      BY <2>1 DEF Parts
    <3> QED
      BY <3>1, FS_EmptySet
  <2>2. CASE J # {}
    <3>1. PICK i \in J : TRUE
      BY <2>2
    <3> DEFINE K == J \ {i}
    <3>2. K \in Good
      <4>1. K \in SUBSET J /\ K # J
        OBVIOUS
      <4> QED
        BY <1>1, <4>1
    <3>3. Parts(J, part) = part[i] \cup Parts(K, part)
      BY DEF Parts
    <3> HIDE DEF K
    <3> QED
      BY <3>2, <3>3, FS_Union
  <2> QED
    BY <2>1, <2>2
<1>2. SUBSET I \subseteq Good
  <2> HIDE DEF Good
  <2> QED
    BY <1>1, SubsetInduction
<1> QED
  BY <1>2

LEMMA SumOfParts ==
  ASSUME NEW f, NEW I, NEW part, IsFiniteSet(I), \A i \in I : IsFiniteSet(part[i]),
         \A i \in I : \A x \in part[i] : f[x] \in Int,
         \A i, j \in I : i # j => part[i] \cap part[j] = {},
         NEW sums, \A i \in I : sums[i] = SumFunctionOnSet(f, part[i])
  PROVE  SumFunctionOnSet(f, Parts(I, part)) = SumFunctionOnSet(sums, I)
<1> DEFINE Good == {J \in SUBSET I :
                      SumFunctionOnSet(f, Parts(J, part)) = SumFunctionOnSet(sums, J)}
<1>1. ASSUME NEW J \in SUBSET I, \A K \in SUBSET J : K # J => K \in Good
      PROVE  J \in Good
  <2>1. CASE J = {}
    <3>1. Parts(J, part) = {}
      BY <2>1 DEF Parts
    <3> QED
      BY <2>1, <3>1, SumOfNothing
  <2>2. CASE J # {}
    <3>1. PICK i \in J : TRUE
      BY <2>2
    <3> DEFINE K == J \ {i}
               rest == Parts(K, part)
    <3>2. SumFunctionOnSet(f, rest) = SumFunctionOnSet(sums, K)
      <4>1. K \in SUBSET J /\ K # J
        OBVIOUS
      <4> QED
        BY <1>1, <4>1
    <3>3. /\ Parts(J, part) = part[i] \cup rest /\ part[i] \cap rest = {}
          /\ \A x \in part[i] \cup rest : f[x] \in Int
      BY DEF Parts
    <3>4. IsFiniteSet(J) /\ \A j \in J : IsFiniteSet(part[j]) /\ sums[j] \in Int
      BY FS_Subset, SumType
    <3>5. SumFunctionOnSet(sums, J) = SumFunctionOnSet(f, part[i]) + SumFunctionOnSet(sums, K)
      BY <3>4, SumOfAnElement
    <3>6. IsFiniteSet(rest)
      <4>1. IsFiniteSet(K) /\ \A j \in K : IsFiniteSet(part[j])
        BY <3>4, FS_Subset
      <4> HIDE DEF K
      <4> QED
        BY <4>1, PartsAreFinite
    <3> HIDE DEF rest, K
    <3>7. SumFunctionOnSet(f, part[i] \cup rest)
            = SumFunctionOnSet(f, part[i]) + SumFunctionOnSet(f, rest)
      BY <3>3, <3>6, SumOfUnion
    <3> QED
      BY <3>2, <3>3, <3>5, <3>7
  <2> QED
    BY <2>1, <2>2
<1>2. SUBSET I \subseteq Good
  <2> HIDE DEF Good
  <2> QED
    BY <1>1, SubsetInduction
<1> QED
  BY <1>2

LEMMA SizeIsSum ==
  ASSUME NEW f, NEW S, IsFiniteSet(S), \A x \in S : f[x] = 1
  PROVE  SumFunctionOnSet(f, S) = Cardinality(S)
<1> DEFINE Good == {T \in SUBSET S : SumFunctionOnSet(f, T) = Cardinality(T)}
<1>1. ASSUME NEW T \in SUBSET S, \A U \in SUBSET T : U # T => U \in Good
      PROVE  T \in Good
  <2>1. CASE T = {}
    BY <2>1, SumOfNothing, FS_EmptySet
  <2>2. CASE T # {}
    <3>1. PICK x \in T : TRUE
      BY <2>2
    <3>2. IsFiniteSet(T) /\ \A y \in T : f[y] \in Int
      BY FS_Subset
    <3>3. SumFunctionOnSet(f, T) = 1 + SumFunctionOnSet(f, T \ {x})
      BY <3>2, SumOfAnElement
    <3>4. T \ {x} \in Good
      <4>1. T \ {x} \in SUBSET T /\ T \ {x} # T
        OBVIOUS
      <4> QED
        BY <1>1, <4>1
    <3>5. Cardinality(T) \in Nat /\ Cardinality(T \ {x}) = Cardinality(T) - 1
      BY <3>2, FS_RemoveElement, FS_CardinalityType
    <3> QED
      BY <3>3, <3>4, <3>5
  <2> QED
    BY <2>1, <2>2
<1>2. SUBSET S \subseteq Good
  <2> HIDE DEF Good
  <2> QED
    BY <1>1, SubsetInduction
<1> QED
  BY <1>2

LEMMA SizeOfParts ==
  ASSUME NEW I, NEW part, IsFiniteSet(I), \A i \in I : IsFiniteSet(part[i]),
         \A i, j \in I : i # j => part[i] \cap part[j] = {},
         NEW sizes, \A i \in I : sizes[i] = Cardinality(part[i])
  PROVE  Cardinality(Parts(I, part)) = SumFunctionOnSet(sizes, I)
<1> DEFINE ones == [x \in Parts(I, part) |-> 1]
<1>1. /\ \A x \in Parts(I, part) : ones[x] = 1
      /\ \A i \in I : \A x \in part[i] : ones[x] = 1
  BY DEF Parts
<1> HIDE DEF ones
<1>2. SumFunctionOnSet(ones, Parts(I, part)) = Cardinality(Parts(I, part))
  BY <1>1, PartsAreFinite, SizeIsSum
<1>3. \A i \in I : sizes[i] = SumFunctionOnSet(ones, part[i])
  BY <1>1, SizeIsSum
<1>4. \A i \in I : \A x \in part[i] : ones[x] \in Int
  BY <1>1
<1>5. SumFunctionOnSet(ones, Parts(I, part)) = SumFunctionOnSet(sizes, I)
  BY <1>3, <1>4, SumOfParts
<1> QED
  BY <1>2, <1>5

-----------------------------------------------------------------------------
(***************************************************************************)
(* The figures of the reports.                                             *)
(***************************************************************************)
HoursTable == [l \in Logs |-> Current(l).hours]

\* The hours of the logs that a report counts are a sum over one table.
LEMMA HoursAreSums ==
  ASSUME ReportIInv, NEW logs \in SUBSET Logs, \A l \in logs : status[l] # "ABSENT"
  PROVE  /\ IsFiniteSet(logs)
         /\ \A l \in logs : HoursTable[l] \in Int
         /\ HoursOf(logs) = SumFunctionOnSet(HoursTable, logs)
<1>1. IsFiniteSet(logs)
  BY FS_Subset, ReportsAssumption
<1>2. ASSUME NEW l \in logs PROVE Current(l) \in Versions
  <2>1. versions[l] \in Seq(Versions) /\ Len(versions[l]) # 0
    BY DEF ReportIInv
  <2> QED
    BY <2>1 DEF Current
<1>3. \A l \in logs : HoursTable[l] \in Int
  BY <1>2, ReportsAssumption DEF HoursTable
<1> DEFINE f == [l \in logs |-> Current(l).hours]
<1>4. HoursOf(logs) = SumFunctionOnSet(f, logs)
  <2>1. DOMAIN f = logs
    OBVIOUS
  <2> QED
    BY <2>1 DEF HoursOf, SumFunction
<1>5. \A l \in logs : f[l] = HoursTable[l]
  BY DEF HoursTable
<1> HIDE DEF f
<1> QED
  BY <1>1, <1>3, <1>4, <1>5, SumIsLocal

\* Hours that are split into parts.
LEMMA HoursOfParts ==
  ASSUME ReportIInv, NEW I, IsFiniteSet(I), NEW part,
         \A i \in I : part[i] \in SUBSET Logs /\ \A l \in part[i] : status[l] # "ABSENT",
         \A i, j \in I : i # j => part[i] \cap part[j] = {}
  PROVE  HoursOf(Parts(I, part)) = SumFunction([i \in I |-> HoursOf(part[i])])
<1> DEFINE sums == [i \in I |-> HoursOf(part[i])]
<1>1. ASSUME NEW i \in I
      PROVE  /\ IsFiniteSet(part[i])
             /\ \A l \in part[i] : HoursTable[l] \in Int
             /\ HoursOf(part[i]) = SumFunctionOnSet(HoursTable, part[i])
  BY HoursAreSums
<1>2. HoursOf(Parts(I, part)) = SumFunctionOnSet(HoursTable, Parts(I, part))
  <2>1. Parts(I, part) \in SUBSET Logs /\ \A l \in Parts(I, part) : status[l] # "ABSENT"
    BY DEF Parts
  <2> QED
    BY <2>1, HoursAreSums
<1>3. SumFunction(sums) = SumFunctionOnSet(sums, I)
  BY DEF SumFunction
<1>4. \A i \in I : sums[i] = SumFunctionOnSet(HoursTable, part[i])
  BY <1>1
<1> HIDE DEF sums
<1>5. SumFunctionOnSet(HoursTable, Parts(I, part)) = SumFunctionOnSet(sums, I)
  BY <1>1, <1>4, SumOfParts
<1> QED
  BY <1>2, <1>3, <1>5 DEF sums

\* Decisions that are split into parts.
LEMMA CountOfParts ==
  ASSUME ReportIInv, NEW I, IsFiniteSet(I), NEW part, NEW v \in Verdicts,
         \A i \in I : part[i] \in SUBSET decisions,
         \A i, j \in I : i # j => part[i] \cap part[j] = {}
  PROVE  Count(Parts(I, part))[v] = SumFunction([i \in I |-> Count(part[i])[v]])
<1> DEFINE ofV == [i \in I |-> {d \in part[i] : d.verdict = v}]
           sizes == [i \in I |-> Count(part[i])[v]]
<1>1. \A i \in I : IsFiniteSet(ofV[i])
  <2>1. IsFiniteSet(decisions) /\ \A i \in I : ofV[i] \subseteq decisions
    BY DEF ReportIInv
  <2> QED
    BY <2>1, FS_Subset
<1>2. {d \in Parts(I, part) : d.verdict = v} = Parts(I, ofV)
  BY DEF Parts
<1>3. \A i, j \in I : i # j => ofV[i] \cap ofV[j] = {}
  OBVIOUS
<1>4. \A i \in I : sizes[i] = Cardinality(ofV[i])
  BY DEF Count
<1>5. Count(Parts(I, part))[v] = Cardinality(Parts(I, ofV))
  BY <1>2 DEF Count
<1>6. SumFunction(sizes) = SumFunctionOnSet(sizes, I)
  BY DEF SumFunction
<1> HIDE DEF ofV, sizes
<1>7. Cardinality(Parts(I, ofV)) = SumFunctionOnSet(sizes, I)
  BY <1>1, <1>3, <1>4, SizeOfParts
<1> QED
  BY <1>5, <1>6, <1>7 DEF sizes

\* What a report of a range counts, decisions by the instant and hours by the date, is the
\* sum of what the reports of its days count (summary with resolveRange).
THEOREM RangesAddUp == Spec => []RangeIsItsDays
<1>1. ASSUME ReportIInv, NEW scope \in Scopes, NEW r \in Ranges, NEW v \in Verdicts
      PROVE  /\ Count(CountedDecisions(scope, r[1], r[2]))[v]
                  = SumFunction([d \in r[1]..r[2] |-> Count(CountedDecisions(scope, d, d))[v]])
             /\ HoursOf(CountedLogs(scope, r[1], r[2]))
                  = SumFunction([d \in r[1]..r[2] |-> HoursOf(CountedLogs(scope, d, d))])
  <2> DEFINE I == r[1]..r[2]
             taken == [n \in I |-> CountedDecisions(scope, n, n)]
             logs == [n \in I |-> CountedLogs(scope, n, n)]
  <2>1. /\ scope \in SUBSET Logs /\ r[1] \in Int /\ r[2] \in Int
        /\ \A n \in I : n \in Int /\ n..n = {n}
    BY <1>1, ZonesAssumption DEF Scopes, Own, AcrossProjects, Ranges
  <2>2. IsFiniteSet(I)
    BY <2>1, FS_Interval
  <2>3. /\ CountedDecisions(scope, r[1], r[2]) = Parts(I, taken)
        /\ \A m, n \in I : m # n => taken[m] \cap taken[n] = {}
        /\ \A n \in I : taken[n] \in SUBSET decisions
    <3>1. /\ CountedDecisions(scope, r[1], r[2]) = UNION {CountedDecisions(scope, n, n) : n \in I}
          /\ \A m, n \in I :
               m # n => CountedDecisions(scope, m, m) \cap CountedDecisions(scope, n, n) = {}
      BY <1>1, DaysOfARange
    <3>2. \A n \in I : CountedDecisions(scope, n, n) \subseteq decisions
      BY DEF CountedDecisions
    <3> QED
      BY <3>1, <3>2 DEF Parts
  <2>4. /\ CountedLogs(scope, r[1], r[2]) = Parts(I, logs)
        /\ \A m, n \in I : m # n => logs[m] \cap logs[n] = {}
        /\ \A n \in I : logs[n] \in SUBSET Logs /\ \A l \in logs[n] : status[l] # "ABSENT"
    <3> DEFINE counted == {l \in scope : status[l] \notin {"ABSENT", "DRAFT"}}
    <3>1. \A n \in I : logs[n] = {l \in counted : Current(l).date = n}
      BY <2>1 DEF CountedLogs
    <3>2. CountedLogs(scope, r[1], r[2]) = {l \in counted : Current(l).date \in I}
      BY DEF CountedLogs
    <3>3. counted \subseteq Logs /\ \A l \in counted : status[l] # "ABSENT"
      BY <2>1
    <3> HIDE DEF counted, logs, I
    <3> QED
      BY <3>1, <3>2, <3>3 DEF Parts
  <2> HIDE DEF I
  <2>5. Count(Parts(I, taken))[v] = SumFunction([n \in I |-> Count(taken[n])[v]])
    <3> HIDE DEF taken
    <3> QED
      BY <1>1, <2>2, <2>3, CountOfParts
  <2>6. HoursOf(Parts(I, logs)) = SumFunction([n \in I |-> HoursOf(logs[n])])
    <3> HIDE DEF logs
    <3> QED
      BY <1>1, <2>2, <2>4, HoursOfParts
  <2>7. /\ [n \in I |-> Count(taken[n])[v]] = [d \in I |-> Count(CountedDecisions(scope, d, d))[v]]
        /\ [n \in I |-> HoursOf(logs[n])] = [d \in I |-> HoursOf(CountedLogs(scope, d, d))]
    OBVIOUS
  <2> QED
    BY <2>3, <2>4, <2>5, <2>6, <2>7 DEF I
<1>2. ReportIInv => RangeIsItsDays
  BY <1>1 DEF RangeIsItsDays
<1> QED
  BY <1>2, ReportInvariance, PTL

\* What is shown of rows that are not truncated is all of them.
LEMMA AllIsShown ==
  ASSUME NEW rows, IsFiniteSet(rows), ~Truncated(rows)
  PROVE  Shown(rows) = {rows}
<1>1. Cardinality(rows) \in Nat
  BY FS_CardinalityType
<1> QED
  BY <1>1, ReportsAssumption DEF Truncated, Shown

\* An untruncated drill-down lists every version of its range.
LEMMA AllIsListed ==
  ASSUME ReportIInv, NEW scope \in SUBSET Logs, NEW p, NEW from, NEW to,
         NEW d \in DrillDowns(scope, p, from, to), ~d.truncated
  PROVE  d.items = Details(scope, p, from, to)
<1> DEFINE rows == Details(scope, p, from, to)
<1>1. IsFiniteSet(rows)
  <2> DEFINE pairs == Logs \X (1..MaxVersions)
             table == [log : Logs, number : 1..MaxVersions]
             f == [x \in pairs |-> [log |-> x[1], number |-> x[2]]]
  <2>1. IsFiniteSet(pairs)
    <3>1. IsFiniteSet(1..MaxVersions)
      BY FS_Interval, ReportsAssumption
    <3> QED
      BY <3>1, FS_Product, ReportsAssumption
  <2>2. f \in Surjection(pairs, table)
    <3>1. f \in [pairs -> table]
      OBVIOUS
    <3>2. \A t \in table : \E x \in pairs : f[x] = t
      <4>1. ASSUME NEW t \in table
            PROVE  <<t.log, t.number>> \in pairs /\ f[<<t.log, t.number>>] = t
        OBVIOUS
      <4> QED
        BY <4>1
    <3> QED
      BY <3>1, <3>2 DEF Surjection
  <2>3. IsFiniteSet(table)
    <3> HIDE DEF pairs, table, f
    <3> QED
      BY <2>1, <2>2, FS_Surjection
  <2>4. rows \subseteq table
    BY DEF Details
  <2> HIDE DEF table, rows
  <2> QED
    BY <2>3, <2>4, FS_Subset
<1>2. Cardinality(rows) \in Nat
  BY <1>1, FS_CardinalityType
<1>3. d.items \in kSubset(Cardinality(rows), rows)
  <2> DEFINE size == IF Cardinality(rows) <= DetailLimit THEN Cardinality(rows) ELSE DetailLimit
  <2>1. PICK page \in kSubset(size, rows) :
          d = [truncated |-> Cardinality(rows) > DetailLimit, items |-> page]
    BY DEF DrillDowns
  <2> HIDE DEF rows
  <2>2. ~ (Cardinality(rows) > DetailLimit) /\ d.items = page
    BY <2>1
  <2>3. size = Cardinality(rows)
    BY <1>2, <2>2, ReportsAssumption
  <2> QED
    BY <2>1, <2>2, <2>3
<1>4. d.items \in SUBSET rows /\ Cardinality(d.items) = Cardinality(rows)
  <2> HIDE DEF rows
  <2> QED
    BY <1>3 DEF kSubset
<1> HIDE DEF rows
<1> QED
  BY <1>1, <1>4, FS_Subset DEF rows

\* The logs whose hours count, as the drill-down into their project shows them.
LEMMA ListedLogsCount ==
  ASSUME ReportIInv, NEW scope \in SUBSET Logs, NEW p, NEW from, NEW to
  PROVE  {e.log : e \in Counting(Details(scope, p, from, to))}
           = {l \in CountedLogs(scope, from, to) : ProjectOf[l] = p}
<1> DEFINE rows == Details(scope, p, from, to)
<1>1. ASSUME NEW e \in Counting(rows)
      PROVE  e.log \in CountedLogs(scope, from, to) /\ ProjectOf[e.log] = p
  <2>1. /\ e.log \in scope /\ ProjectOf[e.log] = p
        /\ e.number \in 1..MaxVersions
        /\ versions[e.log][e.number].date \in from..to
        /\ status[e.log] # "DRAFT" /\ e.number = Len(versions[e.log])
    BY DEF Counting, Details
  <2>2. status[e.log] # "ABSENT"
    BY <2>1, ReportsAssumption DEF ReportIInv
  <2> QED
    BY <2>1, <2>2 DEF CountedLogs, Current
<1>2. ASSUME NEW l \in CountedLogs(scope, from, to), ProjectOf[l] = p
      PROVE  \E e \in Counting(rows) : e.log = l
  <2> DEFINE e == [log |-> l, number |-> Len(versions[l])]
  <2>1. /\ l \in scope /\ status[l] # "ABSENT" /\ status[l] # "DRAFT"
        /\ versions[l][Len(versions[l])].date \in from..to
    BY DEF CountedLogs, Current
  <2>2. Len(versions[l]) \in Nat /\ Len(versions[l]) # 0 /\ Len(versions[l]) <= MaxVersions
    BY <2>1 DEF ReportIInv, ReportTypeOK
  <2>3. Len(versions[l]) \in 1..MaxVersions /\ Len(versions[l]) <= Len(versions[l])
    BY <2>2, ReportsAssumption
  <2>4. e \in rows
    BY <1>2, <2>1, <2>3 DEF Details
  <2>5. e \in Counting(rows)
    BY <2>1, <2>4 DEF Counting
  <2> QED
    BY <2>5
<1> HIDE DEF rows
<1> QED
  BY <1>1, <1>2 DEF rows

\* Unless one of them is truncated, the rows of byProject add up to summary, and the
\* drill-down into a project shows the logs that its hours come from.
THEOREM ReportsAgree == Spec => []ProjectsAddUp
<1>1. ASSUME ReportIInv, NEW scope \in Scopes, NEW r \in Ranges,
             NEW s \in Summaries(scope, r[1], r[2]), NEW b \in ByProjects(scope, r[1], r[2]),
             ~s.truncated, ~b.truncated
      PROVE  /\ s.hours = SumFunction([p \in DOMAIN b.items |-> b.items[p].hours])
             /\ \A v \in Verdicts :
                  s.decided[v] = SumFunction([p \in DOMAIN b.items |-> b.items[p].decided[v]])
             /\ \A p \in DOMAIN b.items : \A d \in DrillDowns(scope, p, r[1], r[2]) :
                  ~d.truncated => b.items[p].hours = HoursOf({e.log : e \in Counting(d.items)})
  <2> DEFINE logs == CountedLogs(scope, r[1], r[2])
             taken == CountedDecisions(scope, r[1], r[2])
             I == Rows(logs, taken)
             logsOf == [p \in I |-> {l \in logs : ProjectOf[l] = p}]
             takenOf == [p \in I |-> {d \in taken : ProjectOf[d.log] = p}]
  <2>1. scope \in SUBSET Logs
    BY DEF Scopes, Own, AcrossProjects
  <2>2. logs \subseteq Logs /\ taken \subseteq decisions /\ \A d \in taken : d.log \in Logs
    BY <2>1 DEF CountedLogs, CountedDecisions
  <2>3. IsFiniteSet(logs) /\ IsFiniteSet(taken)
    <3>1. IsFiniteSet(Logs) /\ IsFiniteSet(decisions)
      BY <1>1, ReportsAssumption DEF ReportIInv
    <3> HIDE DEF logs, taken
    <3> QED
      BY <2>2, <3>1, FS_Subset
  <2>4. IsFiniteSet(I)
    <3>1. I \subseteq Projects
      BY <2>2, ReportsAssumption DEF Rows
    <3> HIDE DEF I
    <3> QED
      BY <3>1, FS_Subset, ReportsAssumption
  <2>5. s.hours = HoursOf(logs) /\ s.decided = Count(taken)
    <3>1. PICK shown \in Shown(logs) :
            s = [hours |-> HoursOf(shown), truncated |-> Truncated(logs), decided |-> Count(taken)]
      BY DEF Summaries
    <3>2. ~Truncated(logs)
      BY <1>1, <3>1
    <3> HIDE DEF logs, taken
    <3>3. shown = logs
      BY <2>3, <3>2, AllIsShown
    <3> QED
      BY <3>1, <3>3
  <2>6. b.items = [p \in I |-> [hours |-> HoursOf(logsOf[p]), decided |-> Count(takenOf[p])]]
    <3> DEFINE answer(shown, some) ==
                 [truncated |-> Truncated(logs) \/ Truncated(taken),
                  items |-> [p \in Rows(shown, some) |->
                    [hours |-> HoursOf({l \in shown : ProjectOf[l] = p}),
                     decided |-> Count({d \in some : ProjectOf[d.log] = p})]]]
    <3>1. b \in {answer(shown, some) : shown \in Shown(logs), some \in Shown(taken)}
      <4>1. b \in ByProjects(scope, r[1], r[2])
        BY <1>1
      <4>2. ByProjects(scope, r[1], r[2])
              = {answer(shown, some) : shown \in Shown(logs), some \in Shown(taken)}
        BY DEF ByProjects
      <4> HIDE DEF answer, logs, taken
      <4> QED
        BY <4>1, <4>2
    <3>2. PICK shown \in Shown(logs), some \in Shown(taken) : b = answer(shown, some)
      <4> HIDE DEF answer, logs, taken
      <4> QED
        BY <3>1
    <3>3. ~Truncated(logs) /\ ~Truncated(taken)
      BY <1>1, <3>2
    <3>4. shown = logs /\ some = taken
      <4> HIDE DEF logs, taken
      <4> QED
        BY <2>3, <3>3, AllIsShown
    <3> HIDE DEF logs, taken
    <3> QED
      BY <3>2, <3>4
  <2>7. /\ Parts(I, logsOf) = logs
        /\ \A p, q \in I : p # q => logsOf[p] \cap logsOf[q] = {}
        /\ \A p \in I : logsOf[p] \in SUBSET Logs /\ \A l \in logsOf[p] : status[l] # "ABSENT"
    <3>1. \A l \in logs : status[l] # "ABSENT"
      BY DEF CountedLogs
    <3> HIDE DEF logs, taken
    <3>2. \A l \in logs : ProjectOf[l] \in I
      BY DEF Rows
    <3> HIDE DEF I
    <3> QED
      BY <2>2, <3>1, <3>2 DEF Parts
  <2>8. /\ Parts(I, takenOf) = taken
        /\ \A p, q \in I : p # q => takenOf[p] \cap takenOf[q] = {}
        /\ \A p \in I : takenOf[p] \in SUBSET decisions
    <3> HIDE DEF logs, taken
    <3>1. \A d \in taken : ProjectOf[d.log] \in I
      BY DEF Rows
    <3> HIDE DEF I
    <3> QED
      BY <2>2, <3>1 DEF Parts
  <2>9. ASSUME NEW p \in I, NEW d \in DrillDowns(scope, p, r[1], r[2]), ~d.truncated
        PROVE  HoursOf(logsOf[p]) = HoursOf({e.log : e \in Counting(d.items)})
    <3>1. d.items = Details(scope, p, r[1], r[2])
      BY <1>1, <2>1, <2>9, AllIsListed
    <3>2. {e.log : e \in Counting(d.items)} = logsOf[p]
      BY <1>1, <2>1, <3>1, ListedLogsCount
    <3> QED
      BY <3>2
  <2> HIDE DEF logs, taken, I, logsOf, takenOf
  <2>10. HoursOf(logs) = SumFunction([p \in I |-> HoursOf(logsOf[p])])
    BY <1>1, <2>4, <2>7, HoursOfParts
  <2>11. ASSUME NEW v \in Verdicts
         PROVE  Count(taken)[v] = SumFunction([p \in I |-> Count(takenOf[p])[v]])
    BY <1>1, <2>4, <2>8, CountOfParts
  <2>12. /\ DOMAIN b.items = I
         /\ \A p \in I : b.items[p].hours = HoursOf(logsOf[p])
         /\ \A p \in I : b.items[p].decided = Count(takenOf[p])
    BY <2>6
  <2>13. [p \in DOMAIN b.items |-> b.items[p].hours] = [p \in I |-> HoursOf(logsOf[p])]
    BY <2>12
  <2>14. ASSUME NEW v \in Verdicts
         PROVE  [p \in DOMAIN b.items |-> b.items[p].decided[v]]
                  = [p \in I |-> Count(takenOf[p])[v]]
    BY <2>12
  <2> QED
    BY <2>5, <2>9, <2>10, <2>11, <2>12, <2>13, <2>14
<1>2. ReportIInv => ProjectsAddUp
  BY <1>1 DEF ProjectsAddUp
<1> QED
  BY <1>2, ReportInvariance, PTL
=============================================================================
