------------------------------- MODULE Schedule -------------------------------
(* The rule calendar: which dates a recurring item falls due on.             *)
(*                                                                           *)
(* core/schedule.py and core/calendar_gr.py over a small calendar: a day is  *)
(* a number, a month is an interval of days, a year some months.  The rule   *)
(* engine is a Python generator; here it is the set of pairs it yields.      *)
EXTENDS Integers, FiniteSets

CONSTANTS
    LastDay,        \* the calendar is 0 .. LastDay
    MonthStart,     \* [0 .. M -> first day of the month], M one past the last
    MonthsPerYear,
    WeekLen,
    Easter,         \* [0 .. years - 1 -> Easter Sunday]
    Offs            \* weekends and public holidays

Day == 0 .. LastDay
Month == {m \in DOMAIN MonthStart : m + 1 \in DOMAIN MonthStart}
Year == DOMAIN Easter

ASSUME CalendarAssumption ==
    /\ LastDay \in Nat /\ MonthsPerYear \in Nat \ {0} /\ WeekLen \in Nat \ {0}
    /\ Offs \subseteq Day
    /\ \A m \in Month : MonthStart[m] < MonthStart[m + 1]

MonthOf(d) == CHOOSE m \in Month : MonthStart[m] <= d /\ d < MonthStart[m + 1]
YearOf(d) == MonthOf(d) \div MonthsPerYear
WeekOf(d) == d \div WeekLen

\* The day of the month, clamped to the month's length.
OnDay(m, day) ==
    IF MonthStart[m] + day - 1 < MonthStart[m + 1] THEN MonthStart[m] + day - 1
    ELSE MonthStart[m + 1] - 1

IsBusinessDay(d) == d \notin Offs

PreviousBusinessDay(d) ==
    CHOOSE b \in Day : /\ b <= d /\ IsBusinessDay(b)
                       /\ \A c \in b + 1 .. d : ~IsBusinessDay(c)

NextBusinessDay(d) ==
    CHOOSE b \in Day : /\ d <= b /\ IsBusinessDay(b)
                       /\ \A c \in d .. b - 1 : ~IsBusinessDay(c)

AdjustDate(d, how) ==
    CASE how = "previous_business_day" -> PreviousBusinessDay(d)
      [] how = "next_business_day" -> NextBusinessDay(d)
      [] OTHER -> d

LastBusinessDay(m) == PreviousBusinessDay(MonthStart[m + 1] - 1)

\* A rule: kind, step (interval_months or interval_weeks), day, month, adjust,
\* days (from Easter), weekday; a field its kind does not read is ignored.
KeyFormat(kind) ==
    CASE kind = "weekly" -> "week"
      [] kind \in {"yearly", "easter_offset"} -> "year"
      [] OTHER -> "month"

\* The period of a date before adjustment, tagged with its key's format.
PeriodKey(kind, nominal) ==
    <<KeyFormat(kind),
      CASE KeyFormat(kind) = "week" -> WeekOf(nominal)
        [] KeyFormat(kind) = "year" -> YearOf(nominal)
        [] OTHER -> MonthOf(nominal)>>

\* monthly_interval: the k-th date, each N months after the one before it and
\* clamped to its month, so a date that was clamped once stays clamped.
Cumulative(start, step) ==
    LET at[k \in Nat] ==
            IF k = 0 THEN start
            ELSE LET was == at[k - 1]
                     m == MonthOf(was)
                 IN  OnDay(m + step, was - MonthStart[m] + 1)
    IN  at

\* The nominal dates of a rule from start's month, year or week on.
Nominals(rule, start) ==
    LET first == MonthOf(start)
        steps == {m \in Month : m >= first /\ (m - first) % rule.step = 0}
    IN  CASE rule.kind = "monthly_interval" ->
                {Cumulative(start, rule.step)[(m - first) \div rule.step] : m \in steps}
          [] rule.kind = "monthly_day" -> {OnDay(m, rule.day) : m \in steps}
          [] rule.kind = "last_business_day" -> {LastBusinessDay(m) : m \in steps}
          [] rule.kind = "yearly" ->
                {OnDay(m, rule.day) : m \in {n \in Month : /\ n % MonthsPerYear = rule.month - 1
                                                        /\ n \div MonthsPerYear >= YearOf(start)}}
          [] rule.kind = "easter_offset" ->
                {Easter[y] + rule.days : y \in {z \in Year : z >= YearOf(start)}}
          [] OTHER ->
                {d \in Day : /\ d >= start /\ d % WeekLen = rule.weekday
                             /\ (WeekOf(d) - WeekOf(start + ((rule.weekday - start) % WeekLen)))
                                    % rule.step = 0}

Due(rule, nominal) ==
    IF rule.kind \in {"monthly_day", "yearly", "easter_offset"}
    THEN AdjustDate(nominal, rule.adjust)
    ELSE nominal

\* A candidate survives when it is not before the start and later than every
\* candidate before it that is not: adjustment can fold two dates together.
Kept(rule, start) ==
    LET all == Nominals(rule, start)
    IN  {n \in all : /\ Due(rule, n) >= start
                     /\ \A b \in all : b < n /\ Due(rule, b) >= start
                                          => Due(rule, b) < Due(rule, n)}

\* What iter_entries yields: the first `total` kept dates (0: no limit), up to
\* the end date and the horizon.
Entries(rule, start, end, total, until) ==
    LET kept == Kept(rule, start)
    IN  {[due |-> Due(rule, n), key |-> PeriodKey(rule.kind, n), nominal |-> n] :
            n \in {k \in kept : /\ total = 0 \/ Cardinality({b \in kept : b < k}) < total
                                /\ Due(rule, k) <= end /\ Due(rule, k) <= until}}
=============================================================================
