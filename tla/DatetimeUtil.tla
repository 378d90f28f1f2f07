---------------------------- MODULE DatetimeUtil ----------------------------
(***************************************************************************)
(* src/src/lib/util/datetime_util.cc: day, week, month and hour indexes of *)
(* calendar dates.  They are compared with a calendar that is walked day by*)
(* day, beginning the day before Thursday, January 1, 1970.                *)
(*                                                                         *)
(* A number of seconds is kept in units of 128 seconds, so that TLC can    *)
(* compute with it: a day has 675 of them and a uint32_t wraps at 2^25.    *)
(***************************************************************************)
EXTENDS Integers

CONSTANTS LastDay,      (* bound on the walk                               *)
          ZoneOffsets   (* offsets of local time from UTC, in hours        *)

VARIABLES
  today,                (* [year, month, day_of_month]                     *)
  dayIndex,             (* days since January 1, 1970                      *)
  firstOfWeek,          (* the date of this week's Sunday                  *)
  weeks, months         (* Sundays and firsts of a month walked over       *)

datetimeVars == <<today, dayIndex, firstOfWeek, weeks, months>>

kNumDaysPerEra == 146097
kEpochOffset == kNumDaysPerEra * 5 - 30 * 365 - 8 - 59
kInvalidIndex == -1     (* UINT32_MAX                                      *)
-----------------------------------------------------------------------------
(* Mutant: every fourth year of an era is a leap year.                     *)
CalendarDateToDayIndexJulian(date) ==
  LET year == date.year - (IF date.month <= 2 THEN 1 ELSE 0)
      yoe == year % 400
      doy == (153 * (date.month + (IF date.month > 2 THEN -3 ELSE 9)) + 2) \div 5 + date.day_of_month - 1
  IN  (year \div 400) * kNumDaysPerEra + yoe * 365 + yoe \div 4 + doy - kEpochOffset

CalendarDateToDayIndex(date) ==
  IF \/ date.year < 1970 \/ date.year >= 10000 \/ date.month \notin 1 .. 12
     \/ date.day_of_month \notin 1 .. 31
  THEN kInvalidIndex
  ELSE LET year == date.year - (IF date.month <= 2 THEN 1 ELSE 0)
           era == year \div 400
           yoe == year - era * 400
           doy == (153 * (date.month + (IF date.month > 2 THEN -3 ELSE 9)) + 2) \div 5 + date.day_of_month - 1
           doe == yoe * 365 + yoe \div 4 - yoe \div 100 + doy
       IN  era * kNumDaysPerEra + doe - kEpochOffset

(* The date gmtime_r gives for midnight of a day.                          *)
Gmtime(day) ==
  LET z == day + kEpochOffset
      doe == z % kNumDaysPerEra
      yoe == (doe - doe \div 1460 + doe \div 36524 - doe \div 146096) \div 365
      doy == doe - (365 * yoe + yoe \div 4 - yoe \div 100)
      mp == (5 * doy + 2) \div 153
      month == IF mp < 10 THEN mp + 3 ELSE mp - 9
  IN  [year |-> yoe + (z \div kNumDaysPerEra) * 400 + (IF month <= 2 THEN 1 ELSE 0),
       month |-> month, day_of_month |-> doy - (153 * mp + 2) \div 5 + 1]

(* The product of two uint32_t wraps.                                      *)
DayIndexToCalendarDate(day) == Gmtime(((day * 675) % 2 ^ 25) \div 675)

DayIndexToWeekIndex(day) == (day + 4) \div 7

WeekIndexToCalendarDate(week) == DayIndexToCalendarDate(week * 7 - (IF week > 0 THEN 4 ELSE 0))

CalendarDateToMonthIndex(date) ==
  IF date.year < 1970 \/ date.month \notin 1 .. 12 THEN kInvalidIndex
  ELSE 12 * (date.year - 1970) + date.month - 1

DayIndexToMonthIndex(day) == CalendarDateToMonthIndex(DayIndexToCalendarDate(day))

MonthIndexToCalendarDate(month) ==
  [year |-> (month \div 12) + 1970, month |-> (month % 12) + 1, day_of_month |-> 1]

HourIndexToDayIndex(hour) == hour \div 24

(* TimeToDayIndex and TimeToHourIndex of an hour since the epoch, in a zone*)
(* that is `offset' hours ahead of UTC (0 for UTC itself).                 *)
TimeToDayIndex(hour, offset) == CalendarDateToDayIndex(Gmtime((hour + offset) \div 24))
TimeToHourIndex(hour, offset) == ((hour + offset) % 24) + 24 * TimeToDayIndex(hour, offset)
-----------------------------------------------------------------------------
(* The calendar.                                                           *)
IsLeap(y) == y % 4 = 0 /\ (y % 100 = 0 => y % 400 = 0)
DaysIn(y, m) == CASE m = 2 -> (IF IsLeap(y) THEN 29 ELSE 28) [] m \in {4, 6, 9, 11} -> 30 [] OTHER -> 31

DatetimeInit ==
  /\ today = [year |-> 1969, month |-> 12, day_of_month |-> 31]
  /\ dayIndex = -1 /\ firstOfWeek = today /\ weeks = 0 /\ months = -1

Tomorrow ==
  IF today.day_of_month < DaysIn(today.year, today.month) THEN [today EXCEPT !.day_of_month = @ + 1]
  ELSE IF today.month < 12 THEN [today EXCEPT !.day_of_month = 1, !.month = @ + 1]
  ELSE [year |-> today.year + 1, month |-> 1, day_of_month |-> 1]

(* Day 3 was a Sunday; week zero begins with day zero.                     *)
DayPasses ==
  /\ dayIndex < LastDay
  /\ today' = Tomorrow /\ dayIndex' = dayIndex + 1
  /\ weeks' = IF dayIndex' % 7 = 3 THEN weeks + 1 ELSE weeks
  /\ firstOfWeek' = IF dayIndex' = 0 \/ weeks' > weeks THEN today' ELSE firstOfWeek
  /\ months' = IF today'.day_of_month = 1 THEN months + 1 ELSE months
-----------------------------------------------------------------------------
(* A day index is the number of days since January 1, 1970, converting it  *)
(* back gives the same date, across leap years and centuries, and the day  *)
(* of an hour index is the day index of the same instant, in every zone.   *)
DayIndexesCountDays == dayIndex >= 0 =>
  /\ CalendarDateToDayIndex(today) = dayIndex
  /\ DayIndexToCalendarDate(dayIndex) = today
  /\ \A hour \in {24 * dayIndex, 24 * dayIndex + 23}, offset \in ZoneOffsets : hour + offset >= 0 =>
       HourIndexToDayIndex(TimeToHourIndex(hour, offset)) = TimeToDayIndex(hour, offset)

(* "A week epoch is a sequence of 7 days from a Sunday to a Saturday"      *)
(* (datetime_util.h:32-33): the index grows with every Sunday, and         *)
(* converting it back gives that Sunday, or January 1, 1970.               *)
WeeksStartOnSunday == dayIndex >= 0 =>
  DayIndexToWeekIndex(dayIndex) = weeks /\ WeekIndexToCalendarDate(weeks) = firstOfWeek

(* "A month epoch is a sequence of days in a calendar month": the index    *)
(* grows with the first of a month, and converting it back gives that day. *)
MonthsAreCalendarMonths == dayIndex >= 0 =>
  /\ DayIndexToMonthIndex(dayIndex) = months
  /\ MonthIndexToCalendarDate(months) = [today EXCEPT !.day_of_month = 1]

(* Every index follows the calendar, day by day, until the 32-bit seconds  *)
(* run out in 2106.                                                        *)
IndexesFollowTheCalendar == DayIndexesCountDays /\ WeeksStartOnSunday /\ MonthsAreCalendarMonths
=============================================================================
