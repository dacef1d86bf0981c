---------------------------- MODULE ClassCalendar ----------------------------
(***************************************************************************)
(* A deck's class calendar (internal/review/calendar.go): which lesson a   *)
(* class has reached on a day, and on which day it reaches a lesson.  Days *)
(* are numbered, and day 0 is a Monday.                                    *)
(***************************************************************************)
EXTENDS Integers, Sequences, FiniteSets

CONSTANTS MaxReleaseDay,        \* the largest lesson number
          MaxCalendarSkipDates  \* the longest skip list accepted

ASSUME CalendarAssumption == /\ MaxReleaseDay \in Nat \ {0}
                             /\ MaxCalendarSkipDates \in Nat

NoDate == -1000
NoCalendar == [start |-> NoDate, weekdays |-> {}, skip |-> {}]

\* A calendar as it is stored: whole dates, and lists that end.
Dated(cal) == cal.start \in Int /\ cal.skip \subseteq Int /\ IsFiniteSet(cal.skip)

Configured(cal) == cal.start # NoDate /\ cal.weekdays # {}

\* A calendar is accepted whole or not at all: a start date, at least one
\* weekday, every weekday in range, not too many skipped dates.
calendarFromWire(wire) ==
    IF /\ wire.start # NoDate
       /\ wire.weekdays # {} /\ wire.weekdays \subseteq 1 .. 7
       /\ Cardinality(wire.skip) <= MaxCalendarSkipDates
    THEN wire ELSE NoCalendar

isoWeekday(day) == (day % 7) + 1

meets(cal, day) == isoWeekday(day) \in cal.weekdays
skipped(cal, day) == day \in cal.skip

\* MUTANT: only one of the two ends is counted.
CurrentClassDayExclusive(cal, day) ==
    IF ~Configured(cal) \/ day < cal.start THEN 0
    ELSE Cardinality({d \in cal.start .. day - 1 : meets(cal, d) /\ ~skipped(cal, d)})

\* One meeting per weekday for each whole week, the ragged tail day by day,
\* minus the skipped dates among those counted.
CurrentClassDay(cal, day) ==
    LET total == day - cal.start + 1
        weeks == total \div 7
        tail == (cal.start + 7 * weeks) .. (cal.start + total - 1)
        lost == {s \in cal.skip : cal.start <= s /\ s <= day /\ meets(cal, s)}
    IN IF ~Configured(cal) \/ day < cal.start THEN 0
       ELSE weeks * Cardinality(cal.weekdays)
            + Cardinality({d \in tail : meets(cal, d)}) - Cardinality(lost)

\* Past every lesson when there is no calendar: the gate admits everything.
ReleaseGateOff == MaxReleaseDay + 1

Gate(cal, classDay) == IF Configured(cal) THEN classDay ELSE ReleaseGateOff
GateDay(cal, day) == Gate(cal, CurrentClassDay(cal, day))

\* The dates of class days 1 .. n, found in a walk of 7 * (n + |skip|) days.
MeetingDates(cal, meeting) ==
    LET n == IF meeting < MaxReleaseDay THEN meeting ELSE MaxReleaseDay
        walk == cal.start .. (cal.start + 7 * (n + Cardinality(cal.skip)) - 1)
        meetings == {d \in walk : meets(cal, d) /\ ~skipped(cal, d)}
        reached == {d \in meetings : Cardinality({e \in meetings : e < d}) < n}
    IN IF ~Configured(cal) \/ n <= 0 THEN <<>>
       ELSE [i \in 1 .. Cardinality(reached) |->
               CHOOSE d \in reached : Cardinality({e \in reached : e < d}) = i - 1]

MeetingDate(cal, n) ==
    IF n \in 1 .. MaxReleaseDay /\ Len(MeetingDates(cal, n)) >= n
    THEN MeetingDates(cal, n)[n] ELSE NoDate
=============================================================================
