-------------------------------- MODULE Cron --------------------------------
(***************************************************************************)
(* Schedules: the cron grammar of the manifest validator                   *)
(* (packages/engine/src/manifest-validator.ts), the parser and the search  *)
(* for the next fire time of the server (apps/server/src/lib/cron.ts), and *)
(* the trigger row that the ticker advances with them.                     *)
(*                                                                         *)
(* The calendar is a small one of the same shape: months of unequal        *)
(* length, a week that does not divide them, and a day of week field that  *)
(* runs one past the last day, as 7 does for Sunday.  A field is its set   *)
(* of comma separated pieces.  Time is counted in half minutes, so that    *)
(* the search also starts between two minutes.                             *)
(***************************************************************************)
EXTENDS Integers, Sequences, FiniteSets, FiniteSetsExt

CONSTANTS
    Schedules,      \* cron expressions: sequences of five fields
    MinutesInHour, HoursInDay, DaysInWeek,
    MonthLengths,   \* days of each month
    SearchDays,     \* 366 * 6 days of search
    LastInstant     \* bound: the clock stops here

VARIABLES
    cron,           \* triggers.config.cron, fixed by a publication
    from,           \* the instant the next fire time was computed at
    next_fire_at    \* triggers.next_fire_at, or NotFound when the search gave up
cronVars == <<cron, from, next_fire_at>>

(* A piece is one of those below: its numbers are whole ones. *)
ASSUME CronAssumption ==
    /\ {MinutesInHour, HoursInDay, DaysInWeek, SearchDays, LastInstant} \subseteq Nat \ {0}
    /\ MonthLengths \in Seq(Nat \ {0}) /\ MonthLengths # <<>>
    /\ \A expr \in Schedules : \A i \in 1..5 : \A p \in expr[i] :
          \/ p = <<"star">> \/ p = <<"junk">>
          \/ p[1] \in {"step", "value"} /\ p[2] \in Int
          \/ p[1] = "range" /\ p[2] \in Int /\ p[3] \in Int

-----------------------------------------------------------------------------
(* The grammar *)

NotFound == 0    \* computeNextFire threw

Star == <<"star">>
EveryNth(n) == <<"step", n>>
FromTo(lo, hi) == <<"range", lo, hi>>
Value(v) == <<"value", v>>
Junk == <<"junk">>                  \* anything else

LongestMonth == Max({MonthLengths[m] : m \in DOMAIN MonthLengths})

FIELD_LIMITS == <<<<0, MinutesInHour - 1>>, <<0, HoursInDay - 1>>, <<1, LongestMonth>>,
                  <<1, Len(MonthLengths)>>, <<0, DaysInWeek>>>>

(* manifest-validator.ts *)
isValidCronField(field, min, max) ==
    \A p \in field :
        \/ p = Star
        \/ p[1] = "step" /\ p[2] \in 1..max
        \/ p[1] = "range" /\ min <= p[2] /\ p[2] <= p[3] /\ p[3] <= max
        \/ p[1] = "value" /\ p[2] \in min..max
isValidCronExpression(expr) ==
    \A i \in 1..5 : isValidCronField(expr[i], FIELD_LIMITS[i][1], FIELD_LIMITS[i][2])

(* lib/cron.ts: a piece is refused, or gives its values. *)
BadPiece(p, min, max) ==
    \/ p = Junk
    \/ p[1] = "step" /\ (p[2] < 1 \/ p[2] > max)
    \/ p[1] = "range" /\ (p[2] < min \/ p[3] > max \/ p[2] > p[3])
    \/ p[1] = "value" /\ p[2] \notin min..max
PieceValues(p, min, max) ==
    CASE p[1] = "star" -> min..max
      [] p[1] = "step" -> {v \in min..max : (v - min) % p[2] = 0}
      [] p[1] = "range" -> p[2]..p[3]
      [] p[1] = "value" -> {p[2]}
isValidCron(expr) ==
    \A i \in 1..5 : \A p \in expr[i] : ~BadPiece(p, FIELD_LIMITS[i][1], FIELD_LIMITS[i][2])
parseCronField(field, min, max) == UNION {PieceValues(p, min, max) : p \in field}
parseCronFieldList(expr) ==
    [i \in 1..5 |-> parseCronField(expr[i], FIELD_LIMITS[i][1], FIELD_LIMITS[i][2])]

-----------------------------------------------------------------------------
(* The calendar *)

DayLength == 2 * MinutesInHour * HoursInDay
DaysBefore(m) == MapThenSumSet(LAMBDA i : MonthLengths[i], 1..(m - 1))
YearDays == DaysBefore(Len(MonthLengths) + 1)
InYear(day) == day % YearDays
MonthOf(day) == CHOOSE m \in DOMAIN MonthLengths :
                    DaysBefore(m) <= InYear(day) /\ InYear(day) < DaysBefore(m) + MonthLengths[m]
DayOfMonth(day) == InYear(day) - DaysBefore(MonthOf(day)) + 1
DayOfWeek(day) == day % DaysInWeek
ClockAt(day, h, m) == day * DayLength + 2 * (h * MinutesInHour + m)

-----------------------------------------------------------------------------
(* The next fire time *)

(* The date is taken by the two day fields as a union once both restrict it;
   a day of week field that holds the alias of Sunday restricts nothing. *)
DayOk(sets, day) ==
    LET domConstrained == Cardinality(sets[3]) # LongestMonth
        dowConstrained == ~(0..(DaysInWeek - 1) \subseteq sets[5]) /\ DaysInWeek \notin sets[5]
    IN  /\ MonthOf(day) \in sets[4]
        /\ \/ ~domConstrained /\ ~dowConstrained
           \/ domConstrained /\ DayOfMonth(day) \in sets[3]
           \/ dowConstrained /\ DayOfWeek(day) \in sets[5]

TimesOf(sets, day) ==
    {ClockAt(day, h, m) : h \in sets[2] \cap 0..(HoursInDay - 1), m \in sets[1] \cap 0..(MinutesInHour - 1)}

(* Mutation: the instant asked from may be the answer. *)
computeNextFireOver(expr, t) ==
    LET sets == parseCronFieldList(expr)
        first == (t + 2) \div DayLength
        days == {d \in first..(first + SearchDays - 1) :
                    DayOk(sets, d) /\ \E at \in TimesOf(sets, d) : at >= t}
    IN  IF days = {} THEN NotFound ELSE Min({at \in TimesOf(sets, Min(days)) : at >= t})

(* Day by day from the day of the next minute, the first time after from. *)
computeNextFire(expr, t) ==
    LET sets == parseCronFieldList(expr)
        first == (t + 2) \div DayLength
        days == {d \in first..(first + SearchDays - 1) :
                    DayOk(sets, d) /\ \E at \in TimesOf(sets, d) : at > t}
    IN  IF days = {} THEN NotFound ELSE Min({at \in TimesOf(sets, Min(days)) : at > t})

-----------------------------------------------------------------------------
(* A trigger: written by a publication when the manifest is valid, advanced *)
(* by the tick that finds it due.                                           *)

CronInit ==
    /\ cron \in {s \in Schedules : isValidCronExpression(s)}
    /\ from = 0
    /\ next_fire_at = IF isValidCron(cron) THEN computeNextFire(cron, 0) ELSE NotFound

(* The tick may be late: what was due meanwhile fires once. *)
Tick == \E now \in (from + 1)..LastInstant :
    /\ next_fire_at # NotFound /\ next_fire_at <= now
    /\ now <= next_fire_at + DayLength
    /\ from' = now
    /\ next_fire_at' = computeNextFire(cron, now)
    /\ UNCHANGED cron

CronNext == Tick
CronSpec == CronInit /\ [][CronNext]_cronVars

-----------------------------------------------------------------------------
(* What an expression says: the instants it matches, read field by field.   *)

Listed(field, i) == parseCronField(field, FIELD_LIMITS[i][1], FIELD_LIMITS[i][2])
Days(field) == {v % DaysInWeek : v \in Listed(field, 5)}
Restricts(set, all) == ~(all \subseteq set)
Matches(expr, t) ==
    LET day == t \div DayLength
        minute == (t % DayLength) \div 2
        byDate == DayOfMonth(day) \in Listed(expr[3], 3)
        byWeek == DayOfWeek(day) \in Days(expr[5])
        free == [date |-> ~Restricts(Listed(expr[3], 3), 1..LongestMonth),
                 week |-> ~Restricts(Days(expr[5]), 0..(DaysInWeek - 1))]
    IN  /\ t % 2 = 0
        /\ minute % MinutesInHour \in Listed(expr[1], 1)
        /\ minute \div MinutesInHour \in Listed(expr[2], 2)
        /\ MonthOf(day) \in Listed(expr[4], 4)
        /\ IF free.date THEN byWeek ELSE IF free.week THEN byDate ELSE byDate \/ byWeek

(* The first instant after t that an expression matches, if any is in reach:   *)
(* SearchDays days, the day of the next minute being the first.                *)
EndOfSearch(t) == ((t + 2) \div DayLength + SearchDays) * DayLength
IsNextMatch(u, expr, t) ==
    IF u = NotFound THEN \A v \in (t + 1)..(EndOfSearch(t) - 1) : ~Matches(expr, v)
    ELSE u > t /\ Matches(expr, u) /\ \A v \in (t + 1)..(u - 1) : ~Matches(expr, v)

(* A schedule that the validator accepts is one the server can parse ("Keep
   the two in sync"), and the trigger's next_fire_at is the first instant
   after the tick that its expression names: none skipped, none repeated,
   over month ends and with both day fields in use (cron.ts:73-124,
   manifest-validator.ts:17-23).  Said of schedules that do not write Sunday
   as 7, which these lines promise and DayOk does not take for a restriction. *)
FiresWhenItSays ==
    /\ isValidCron(cron)
    /\ DaysInWeek \notin Listed(cron[5], 5) \/ Days(cron[5]) = 0..(DaysInWeek - 1) =>
          IsNextMatch(next_fire_at, cron, from)
=============================================================================
