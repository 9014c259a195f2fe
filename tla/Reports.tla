------------------------------ MODULE Reports -------------------------------
(***************************************************************************)
(* ReportsService over the work logs of several projects.  Time passes in  *)
(* steps between chosen instants; work logs are submitted, decided and     *)
(* revised as WorkLogs describes in detail; a report is an operator on the *)
(* tables, as all its statements find them.  A statement that asks for at  *)
(* most RowLimit rows has no order: which rows it leaves out is open.      *)
(***************************************************************************)
EXTENDS BusinessTime, FiniteSets, Sequences, FiniteSetsExt

CONSTANTS
  Logs, Projects, Users,
  ProjectOf, AuthorOf,   \* the project and the author of each log
  Instants,              \* bound: the instants at which something happens
  Versions,              \* the work date and the hours that versions state
  MaxVersions,           \* bound: versions of a log
  RowLimit,              \* REPORT_ROW_LIMIT
  DetailLimit            \* DETAIL_ROW_LIMIT

ASSUME ReportsAssumption ==
  /\ IsFiniteSet(Logs) /\ IsFiniteSet(Projects)
  /\ ProjectOf \in [Logs -> Projects] /\ AuthorOf \in [Logs -> Users]
  /\ Instants \subseteq Int /\ \E first \in Instants : \A i \in Instants : first <= i
  /\ Versions \subseteq [date : Dates, hours : Nat]
  /\ MaxVersions \in Nat \ {0} /\ RowLimit \in Nat \ {0} /\ DetailLimit \in Nat \ {0}

Verdicts == {"APPROVED", "RETURNED", "REJECTED"}

Statuses == {"ABSENT", "DRAFT", "SUBMITTED"} \cup Verdicts

VARIABLES
  zone,        \* the season of the calendar: which change of clocks is ahead
  now,
  open,        \* projects with status ACTIVE
  status,      \* status[l] of the log l
  versions,    \* versions[l]: its versions, the last one is current
  decisions    \* approval_decisions

vars == <<zone, now, open, status, versions, decisions>>

ReportTypeOK ==
  /\ zone \in Zones
  /\ now \in Instants
  /\ open \subseteq Projects
  /\ status \in [Logs -> Statuses]
  /\ \A l \in Logs : versions[l] \in Seq(Versions) /\ Len(versions[l]) <= MaxVersions
  /\ decisions \subseteq [log : Logs, number : 1..MaxVersions, verdict : Verdicts, at : Instants]

Init ==
  /\ zone \in Zones
  /\ now = Min(Instants)
  /\ open = Projects
  /\ status = [l \in Logs |-> "ABSENT"]
  /\ versions = [l \in Logs |-> <<>>]
  /\ decisions = {}

Create(l, v) ==
  /\ status[l] = "ABSENT"
  /\ status' = [status EXCEPT ![l] = "DRAFT"]
  /\ versions' = [versions EXCEPT ![l] = <<v>>]
  /\ UNCHANGED <<zone, now, open, decisions>>

Submit(l) ==
  /\ status[l] = "DRAFT"
  /\ status' = [status EXCEPT ![l] = "SUBMITTED"]
  /\ UNCHANGED <<zone, now, open, versions, decisions>>

Decide(l, verdict) ==
  /\ status[l] = "SUBMITTED"
  /\ status' = [status EXCEPT ![l] = verdict]
  /\ decisions' = decisions \cup
       {[log |-> l, number |-> Len(versions[l]), verdict |-> verdict, at |-> now]}
  /\ UNCHANGED <<zone, now, open, versions>>

Revise(l, v) ==
  /\ status[l] = "RETURNED"
  /\ Len(versions[l]) < MaxVersions
  /\ status' = [status EXCEPT ![l] = "DRAFT"]
  /\ versions' = [versions EXCEPT ![l] = Append(@, v)]
  /\ UNCHANGED <<zone, now, open, decisions>>

\* A project becomes ACTIVE, or DRAFT, ON_HOLD or COMPLETED; its logs go on either way.
ChangeStatus(p) ==
  /\ open' = IF p \in open THEN open \ {p} ELSE open \cup {p}
  /\ UNCHANGED <<zone, now, status, versions, decisions>>

Pass ==
  /\ now' \in Instants /\ now' > now
  /\ UNCHANGED <<zone, open, status, versions, decisions>>

Next ==
  \/ \E l \in Logs : \/ Submit(l)
                     \/ \E v \in Versions : Create(l, v) \/ Revise(l, v)
                     \/ \E verdict \in Verdicts : Decide(l, verdict)
  \/ \E p \in Projects : ChangeStatus(p)
  \/ Pass

Spec == Init /\ [][Next]_vars

(***************************************************************************)
(* The reports.  A scope is the set of the logs it lets a report see.      *)
(***************************************************************************)
Own(u) == {l \in Logs : AuthorOf[l] = u}

AcrossProjects == {l \in Logs : ProjectOf[l] \in open}

Scopes == {Own(u) : u \in Users} \cup {AcrossProjects}

Current(l) == versions[l][Len(versions[l])]

\* Logs whose hours count: work_date is compared as a date.
CountedLogs(scope, from, to) ==
  {l \in scope : status[l] \notin {"ABSENT", "DRAFT"} /\ Current(l).date \in from..to}

\* resolveRange: the days of a range as an interval of instants.
InRange(instant, from, to) == DayStart(zone, from) <= instant /\ instant < DayEnd(zone, to)

\* Decisions taken in the days of the range: decided_at is compared as an instant.
CountedDecisions(scope, from, to) ==
  {d \in decisions : d.log \in scope /\ InRange(d.at, from, to)}

HoursOf(logs) == SumFunction([l \in logs |-> Current(l).hours])

\* What a statement that takes RowLimit + 1 rows leaves of them.
Shown(rows) ==
  IF Cardinality(rows) <= RowLimit THEN {rows} ELSE kSubset(RowLimit, rows)

Truncated(rows) == Cardinality(rows) > RowLimit

Count(rows) == [v \in Verdicts |-> Cardinality({d \in rows : d.verdict = v})]

\* summary: every answer it may give.
Summaries(scope, from, to) ==
  LET logs == CountedLogs(scope, from, to) IN
    {[hours |-> HoursOf(shown), truncated |-> Truncated(logs),
      decided |-> Count(CountedDecisions(scope, from, to))] : shown \in Shown(logs)}

\* Mutant: the project of a decision gets a row only if it has hours already.
RowsWithHours(logs, taken) == {ProjectOf[l] : l \in logs}

\* The projects that byProject has a row for.
Rows(logs, taken) == {ProjectOf[l] : l \in logs} \cup {ProjectOf[d.log] : d \in taken}

ByProjects(scope, from, to) ==
  LET logs == CountedLogs(scope, from, to)
      taken == CountedDecisions(scope, from, to)
  IN  {[truncated |-> Truncated(logs) \/ Truncated(taken),
        items |-> [p \in Rows(shown, some) |->
          [hours |-> HoursOf({l \in shown : ProjectOf[l] = p}),
           decided |-> Count({d \in some : ProjectOf[d.log] = p})]]]
        : shown \in Shown(logs), some \in Shown(taken)}

(***************************************************************************)
(* The drill-down into one project lists versions, those of drafts and     *)
(* superseded ones, too; into a project outside the scope it is refused or *)
(* empty.  It has an order, so what it leaves out are the earliest days.   *)
(***************************************************************************)
Details(scope, p, from, to) ==
  {d \in [log : {l \in scope : ProjectOf[l] = p}, number : 1..MaxVersions] :
     /\ d.number <= Len(versions[d.log])
     /\ versions[d.log][d.number].date \in from..to}

\* orderBy workDate, versionNumber; the order of the identifiers, which decides then, is open.
ListedBefore(d, e) ==
  LET dateOf(v) == versions[v.log][v.number].date IN
  \/ dateOf(d) > dateOf(e)
  \/ dateOf(d) = dateOf(e) /\ d.number > e.number

DrillDowns(scope, p, from, to) ==
  LET rows == Details(scope, p, from, to)
      size == IF Cardinality(rows) <= DetailLimit THEN Cardinality(rows) ELSE DetailLimit
  IN  {[truncated |-> Cardinality(rows) > DetailLimit, items |-> page] :
         page \in {some \in kSubset(size, rows) :
                     \A d \in some, e \in rows \ some : ~ListedBefore(e, d)}}

(***************************************************************************)
(* Properties.                                                             *)
(***************************************************************************)
Ranges == {r \in Dates \X Dates : r[1] <= r[2] /\ \A d \in r[1]..(r[2] + 1) : d \in Dates}

\* A decision is in the report of one day, the one that the clocks showed when it was
\* taken, on days of 23 and of 25 hours, too.
DecisionFallsInItsDay ==
  \A r \in Ranges : r[1] = r[2] =>
    {d \in decisions : Today(zone, d.at) = r[1]} = CountedDecisions(Logs, r[1], r[1])

\* The rows that a report of a range counts are those that the reports of its days count,
\* none twice.  Hours are counted here before the limit on rows: an answer that says it is
\* truncated shows the sum of a part of them.
RangeIsItsDays ==
  \A scope \in Scopes, r \in Ranges, v \in Verdicts :
    /\ Count(CountedDecisions(scope, r[1], r[2]))[v]
         = SumFunction([d \in r[1]..r[2] |-> Count(CountedDecisions(scope, d, d))[v]])
    /\ HoursOf(CountedLogs(scope, r[1], r[2]))
         = SumFunction([d \in r[1]..r[2] |-> HoursOf(CountedLogs(scope, d, d))])

\* The versions of a drill-down whose hours count: current, and no draft any more.
Counting(items) ==
  {d \in items : status[d.log] # "DRAFT" /\ d.number = Len(versions[d.log])}

\* The rows of the project report add up to the summary of the same range, and the
\* drill-down into a project shows the logs that its hours come from, unless one of them
\* says that it is truncated.
ProjectsAddUp ==
  \A scope \in Scopes, r \in Ranges :
    \A s \in Summaries(scope, r[1], r[2]), b \in ByProjects(scope, r[1], r[2]) :
      ~s.truncated /\ ~b.truncated =>
        /\ s.hours = SumFunction([p \in DOMAIN b.items |-> b.items[p].hours])
        /\ \A v \in Verdicts :
             s.decided[v] = SumFunction([p \in DOMAIN b.items |-> b.items[p].decided[v]])
        /\ \A p \in DOMAIN b.items : \A d \in DrillDowns(scope, p, r[1], r[2]) :
             ~d.truncated => b.items[p].hours = HoursOf({e.log : e \in Counting(d.items)})
=============================================================================
