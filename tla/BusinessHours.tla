---------------------------- MODULE BusinessHours ----------------------------
(***************************************************************************)
(* addBusinessMinutes and calculateDueDates, on the instants 0, 1, 2, ...  *)
(* of which MinuteLen make a minute and DayLen minutes a day.  A zone is   *)
(* an offset that may change once (daylight saving).                       *)
(*                                                                         *)
(* The result is compared with a count of working instants that knows      *)
(* nothing of days, cursors or conversions.                                *)
(***************************************************************************)
EXTENDS Integers, FiniteSets, FiniteSetsExt

CONSTANTS
  MinuteLen,   \* instants of a minute
  DayLen,      \* minutes of a day
  Anchors,     \* created_at
  TargetMinutes, \* target minutes of the policies
  HourConfigs, \* [start, end, days]: the tenant's business hours
  Zones,       \* [before, after, switch]: offsets in minutes, and the instant
  Unset        \* no due date yet

Positions == [day : Int, minute : Int, remaining : Int]

(* The hours and days are those UpdateBusinessHoursDto lets pass.  Clocks  *)
(* change at a whole minute, by at most a quarter of a day.                *)
ASSUME HoursAssumption ==
  /\ MinuteLen \in Nat \ {0} /\ DayLen \in Nat \ {0}
  /\ Anchors \subseteq Int /\ TargetMinutes \subseteq Int
  /\ HourConfigs \subseteq [start : 0..DayLen, end : 0..DayLen, days : SUBSET (0..6)]
  /\ Zones \subseteq [before : Int, after : Int, switch : Int]
  /\ \A z \in Zones : /\ z.switch % MinuteLen = 0
                      /\ 4 * (z.after - z.before) <= DayLen
                      /\ 4 * (z.before - z.after) <= DayLen
  /\ Unset \notin Int /\ Unset \notin Positions

VARIABLES
  question,  \* the arguments of addBusinessMinutes
  position,  \* cursor, cursorMinuteOfDay and remaining
  due        \* the result

hoursVars == <<question, position, due>>

DayTicks == DayLen * MinuteLen

(* What Intl.DateTimeFormat shows: the instant moved by the zone's offset *)
Local(t, z) == t + MinuteLen * (IF t < z.switch THEN z.before ELSE z.after)

(* zonedParts: day, weekday and minute of the day; seconds are dropped *)
ZonedDay(t, z) == Local(t, z) \div DayTicks
ZonedMinute(t, z) == (Local(t, z) % DayTicks) \div MinuteLen
Weekday(day) == day % 7

(* Mutant of ZonedTimeToUtc: the offset is measured once *)
ZonedTimeToUtcOnce(day, minute, z) ==
  LET naive == day * DayTicks + minute * MinuteLen
  IN  naive - (Local(naive, z) - naive)

(* zonedTimeToUtc: the offset is measured twice.  Local drops nothing      *)
(* here: the guesses are whole minutes.                                    *)
ZonedTimeToUtc(day, minute, z) ==
  LET naive == day * DayTicks + minute * MinuteLen
      first == naive - (Local(naive, z) - naive)
  IN  naive - (Local(first, z) - first)

(* advanceToNextWorkingDayStart: from local noon in steps of a day *)
NextWorkingDay(day, days, z) ==
  LET noon == ZonedTimeToUtc(day, DayLen \div 2, z)
      Probe(k) == ZonedDay(noon + k * DayTicks, z)
      first == Min({k \in 1..7 : Weekday(Probe(k)) \in days})
  IN  Probe(first)

(* The first business minute at or after the anchor *)
FirstDay(anchor, hours, z) ==
  LET day == ZonedDay(anchor, z)
      minute == ZonedMinute(anchor, z)
  IN  IF Weekday(day) \notin hours.days \/ minute >= hours.end
      THEN [day |-> NextWorkingDay(day, hours.days, z), minute |-> hours.start]
      ELSE [day |-> day, minute |-> IF minute < hours.start THEN hours.start ELSE minute]

(* The fallback's condition *)
Misconfigured(minutes, hours) ==
  hours.end - hours.start <= 0 \/ hours.days = {} \/ minutes <= 0

-----------------------------------------------------------------------------
(* calculateDueDates of a business_hours_only policy *)
HoursInit ==
  /\ question \in [anchor : Anchors, target : TargetMinutes, hours : HourConfigs, zone : Zones]
  /\ position = Unset
  /\ due = Unset

Fallback ==
  /\ due = Unset
  /\ Misconfigured(question.target, question.hours)
  /\ due' = question.anchor + (IF question.target > 0 THEN question.target ELSE 0) * MinuteLen
  /\ UNCHANGED <<question, position>>

PositionCursor ==
  /\ position = Unset
  /\ ~Misconfigured(question.target, question.hours)
  /\ LET first == FirstDay(question.anchor, question.hours, question.zone)
     IN  position' = [day |-> first.day, minute |-> first.minute, remaining |-> question.target]
  /\ UNCHANGED <<question, due>>

(* The loop that consumes business minutes day by day *)
AvailableToday == question.hours.end - position.minute

ConsumeDay ==
  /\ position # Unset
  /\ position.remaining > AvailableToday
  /\ position' = [day |-> NextWorkingDay(position.day, question.hours.days, question.zone),
                  minute |-> question.hours.start,
                  remaining |-> position.remaining - AvailableToday]
  /\ UNCHANGED <<question, due>>

ReturnDue ==
  /\ position # Unset /\ due = Unset
  /\ position.remaining <= AvailableToday
  /\ due' = ZonedTimeToUtc(position.day, position.minute + position.remaining, question.zone)
  /\ UNCHANGED <<question, position>>

HoursNext == Fallback \/ PositionCursor \/ ConsumeDay \/ ReturnDue

HoursSpec == HoursInit /\ [][HoursNext]_hoursVars

-----------------------------------------------------------------------------
HoursTypeOK ==
  /\ question \in [anchor : Anchors, target : TargetMinutes, hours : HourConfigs, zone : Zones]
  /\ position \in Positions \cup {Unset}
  /\ due \in Int \cup {Unset}

(* What the clock on the wall shows belongs to a working minute. *)
WorkingAt(x, hours) ==
  /\ Weekday(x \div DayTicks) \in hours.days
  /\ (x % DayTicks) \div MinuteLen \in hours.start..(hours.end - 1)

Working(t, hours, z) == WorkingAt(Local(t, z), hours)

(* The clocks change outside working time: what they skip or show twice is *)
(* not worked, and no window ends just there.                              *)
QuietSwitch(hours, z) ==
  LET old == z.switch + MinuteLen * z.before
      new == z.switch + MinuteLen * z.after
  IN  old # new => \A x \in (old - 1)..(new - 1) \cup (new - 1)..(old - 1) : ~WorkingAt(x, hours)

(* "the clock only advances during the tenant's configured working         *)
(* window": from the anchor's minute to the due date lie exactly the       *)
(* target's working minutes, and the due date is the end of the last one.  *)
CountsWorkingTime ==
  LET q == question
      from == q.anchor - (q.anchor % MinuteLen)
  IN  due # Unset /\ ~Misconfigured(q.target, q.hours) /\ QuietSwitch(q.hours, q.zone) =>
        /\ Working(due - 1, q.hours, q.zone)
        /\ Cardinality({t \in from..(due - 1) : Working(t, q.hours, q.zone)})
             = q.target * MinuteLen

(* "a bad config can never produce a due date before the anchor"; a good   *)
(* one does not either.                                                    *)
NotBeforeAnchor ==
  due # Unset /\ QuietSwitch(question.hours, question.zone) => due >= question.anchor

(* The due date is the one working time calls for, and never before the    *)
(* anchor.  Working time counts from the anchor's minute: zonedParts drops *)
(* its seconds, and inside working hours the due date is earlier than the  *)
(* anchor plus the target by that much, although verify-business-hours.ts  *)
(* asserts that it "is never earlier than the flat-elapsed equivalent".    *)
DueCountsWorkingTime == CountsWorkingTime /\ NotBeforeAnchor

=============================================================================
