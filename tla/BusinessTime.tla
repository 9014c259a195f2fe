---------------------------- MODULE BusinessTime ----------------------------
(***************************************************************************)
(* business-time.ts: the days of the business time zone as intervals of    *)
(* UTC.  Instants are hours of UTC, a date is the number of a day, and a   *)
(* zone changes its offset from UTC at most once, at the hour z.switch.    *)
(***************************************************************************)
EXTENDS Integers

CONSTANTS
  Zones,  \* zones that occur, each with at most one change of its offset
  Dates   \* the dates that occur

Hours(date) == 24 * date

Earlier(z) == IF z.before < z.after THEN z.before ELSE z.after
Later(z) == IF z.before < z.after THEN z.after ELSE z.before

\* Zones east of UTC that do not change their clocks around midnight.
ASSUME ZonesAssumption ==
  /\ Dates \subseteq Int
  /\ \A z \in Zones :
       /\ z \in [before : Int, after : Int, switch : Int]
       /\ \A date \in Dates : \/ z.switch <= Hours(date) - Later(z)
                              \/ z.switch > Hours(date) - Earlier(z)

\* zoneOffsetMs
Offset(z, instant) == IF instant < z.switch THEN z.before ELSE z.after

\* Mutant: the offset of the first guess is not looked up again.
DayStartOnce(z, date) == Hours(date) - Offset(z, Hours(date))

\* zonedDayStartUtc: the offset at midnight of UTC gives a guess, the offset there the answer.
DayStart(z, date) ==
  LET guess == Hours(date) - Offset(z, Hours(date)) IN Hours(date) - Offset(z, guess)

\* Mutant: a day has 24 hours.
DayEndAfterOneDay(z, date) == DayStart(z, date) + 24

\* zonedDayEndExclusiveUtc
DayEnd(z, date) == DayStart(z, date + 1)

\* todayInBusinessZone
Today(z, instant) == (instant + Offset(z, instant)) \div 24
=============================================================================
