-------------------------------- MODULE Cron --------------------------------
(***************************************************************************)
(* When a schedule fires (cron.rs): parsing the five fields of an          *)
(* expression, matching a minute of the wall clock, and the two scans over *)
(* days that find the occurrence before and after an instant, in a zone    *)
(* whose clock jumps forward and back.                                     *)
(*                                                                         *)
(* The calendar is a parameter, so that all of its corners are a few days  *)
(* apart: minutes of an hour, hours of a day, lengths of the months, days  *)
(* of a week.  A zone is the wall-clock minute of every instant.  Text is  *)
(* left out: a field is the list of its entries.                           *)
(***************************************************************************)
EXTENDS Integers, Sequences, FiniteSets, Functions

CONSTANTS
    Minutes,     \* minutes of an hour
    Hours,       \* hours of a day
    Months,      \* the lengths of the months of a year, a sequence
    Week,        \* days of a week
    Zones,       \* functions from instants to wall-clock minutes
    Expressions, \* the expressions that are tried: records of five fields
    MaxScanDays, \* how far a scan goes
    NoInstant

VARIABLE scan    \* an expression, a question about it and how far its answer is

cVars == <<scan>>

DayLength == Minutes * Hours

ASSUME CronAssumption ==
    /\ Minutes \in Nat \ {0} /\ Hours \in Nat \ {0} /\ Week \in Nat \ {0}
    /\ \A i \in DOMAIN Months : Months[i] \in Nat \ {0}
    /\ MaxScanDays \in Nat

-----------------------------------------------------------------------------
(* The calendar: day 0 is the first day of a year and of a week. *)

RECURSIVE DaysBefore(_)
DaysBefore(m) == IF m = 1 THEN 0 ELSE DaysBefore(m - 1) + Months[m - 1]
Year == DaysBefore(Len(Months)) + Months[Len(Months)]

DayOfYear(d) == d % Year
MonthOf(d) == CHOOSE m \in DOMAIN Months :
                DaysBefore(m) <= DayOfYear(d) /\ DayOfYear(d) < DaysBefore(m) + Months[m]
DomOf(d) == DayOfYear(d) - DaysBefore(MonthOf(d)) + 1
DowOf(d) == d % Week
DateOf(w) == w \div DayLength
HourOf(w) == (w % DayLength) \div Minutes
MinuteOf(w) == w % Minutes
LongestMonth == CHOOSE n \in {Months[i] : i \in DOMAIN Months} : \A i \in DOMAIN Months : Months[i] <= n

-----------------------------------------------------------------------------
(* parse_field: an entry is [kind, lo, hi, step].  A single value with a   *)
(* step runs to the end of the field.                                      *)

Lo(e, min) == IF e.kind = "star" THEN min ELSE e.lo
Hi(e, max) == CASE e.kind = "star" -> max
                [] e.kind = "range" -> e.hi
                [] OTHER -> IF e.step > 1 THEN max ELSE e.lo

EntryOk(e, min, max) ==
    /\ e.step > 0
    /\ e.kind # "star" => min <= e.lo /\ e.lo <= max
    /\ e.kind = "range" => min <= e.hi /\ e.hi <= max /\ e.lo <= e.hi

FieldOk(f, min, max) == f # <<>> /\ \A i \in DOMAIN f : EntryOk(f[i], min, max)

ParseField(f, min, max) ==
    UNION {{v \in Lo(f[i], min)..Hi(f[i], max) : (v - Lo(f[i], min)) % f[i].step = 0} : i \in DOMAIN f}

\* The star is about the first character of the field.
IsStar(f) == f[1].kind = "star"

\* parse_fields; the last day of the week field and 0 are the same day.
ParseOk(x) ==
    /\ FieldOk(x.minute, 0, Minutes - 1) /\ FieldOk(x.hour, 0, Hours - 1)
    /\ FieldOk(x.dom, 1, LongestMonth) /\ FieldOk(x.month, 1, Len(Months))
    /\ FieldOk(x.dow, 0, Week)

Normalised(dow) == IF Week \in dow THEN (dow \ {Week}) \union {0} ELSE dow

ParseFields(x) ==
    [minute |-> ParseField(x.minute, 0, Minutes - 1), hour |-> ParseField(x.hour, 0, Hours - 1),
     dom |-> ParseField(x.dom, 1, LongestMonth), month |-> ParseField(x.month, 1, Len(Months)),
     dow |-> Normalised(ParseField(x.dow, 0, Week)),
     domStar |-> IsStar(x.dom), dowStar |-> IsStar(x.dow)]

\* expand_shorthand; @reboot and unknown ones are refused, as a field of no
\* entries is.
Star == <<[kind |-> "star", lo |-> 0, hi |-> 0, step |-> 1]>>
Only(v) == <<[kind |-> "value", lo |-> v, hi |-> v, step |-> 1]>>

ExpandShorthand ==
    LET At(hour, dom, month, dow) ==
            [minute |-> Only(0), hour |-> hour, dom |-> dom, month |-> month, dow |-> dow]
    IN  [yearly |-> At(Only(0), Only(1), Only(1), Star),
         monthly |-> At(Only(0), Only(1), Star, Star),
         weekly |-> At(Only(0), Star, Star, Only(0)),
         daily |-> At(Only(0), Star, Star, Star),
         hourly |-> At(Star, Star, Star, Star),
         reboot |-> At(<<>>, <<>>, <<>>, <<>>)]

-----------------------------------------------------------------------------
(* Matching and scanning. *)

\* Mutant: both day fields always have to match.
DayMatchesBoth(c, d) ==
    MonthOf(d) \in c.month /\ DomOf(d) \in c.dom /\ DowOf(d) \in c.dow

DayMatches(c, d) ==
    /\ MonthOf(d) \in c.month
    /\ IF c.domStar \/ c.dowStar
       THEN DomOf(d) \in c.dom /\ DowOf(d) \in c.dow
       ELSE DomOf(d) \in c.dom \/ DowOf(d) \in c.dow

\* resolve_in: the earlier of two instants that read the same, and none for a
\* time inside the gap.
Readings(zone, w) == {i \in DOMAIN zone : zone[i] = w}
ResolveIn(zone, w) ==
    IF Readings(zone, w) = {} THEN NoInstant
    ELSE CHOOSE i \in Readings(zone, w) : \A k \in Readings(zone, w) : i <= k

\* scan_within_day: the candidates of the day on the right side of the bound
\* that exist, the first of them in the direction of the scan.
WithinBound(w, bound, forward) ==
    bound = NoInstant \/ (IF forward THEN w >= bound ELSE w <= bound)

Candidates(c, zone, d, bound, forward) ==
    {w \in (d * DayLength)..(d * DayLength + DayLength - 1) :
        /\ HourOf(w) \in c.hour /\ MinuteOf(w) \in c.minute
        /\ WithinBound(w, bound, forward)
        /\ ResolveIn(zone, w) # NoInstant}

ScanWithinDay(c, zone, d, bound, forward) ==
    LET ws == Candidates(c, zone, d, bound, forward)
    IN  IF ws = {} THEN NoInstant
        ELSE ResolveIn(zone, CHOOSE w \in ws : \A v \in ws : IF forward THEN w <= v ELSE v <= w)

\* next_after_in begins a minute later; prev_at_or_before_in does not.
Start(zone, at, forward) == IF forward THEN zone[at] + 1 ELSE zone[at]

CronInit ==
    \E x \in Expressions \union Range(ExpandShorthand), z \in Zones, forward \in BOOLEAN :
      \E at \in DOMAIN z :
        scan = [x |-> x, zone |-> z, at |-> at, forward |-> forward,
                pc |-> "parse", cron |-> NoInstant, day |-> 0, date |-> 0, found |-> NoInstant]

\* FromStr, and next_after_in or prev_at_or_before_in take the wall clock.
Parse ==
    /\ scan.pc = "parse"
    /\ IF ParseOk(scan.x)
       THEN scan' = [scan EXCEPT !.pc = "scan", !.cron = ParseFields(scan.x), !.day = 0,
                        !.date = DateOf(Start(scan.zone, scan.at, scan.forward))]
       ELSE scan' = [scan EXCEPT !.pc = "refused"]

Bound == IF scan.day = 0 THEN Start(scan.zone, scan.at, scan.forward) ELSE NoInstant

\* One round of the loop of scan.
ScanDay ==
    /\ scan.pc = "scan" /\ scan.day < MaxScanDays
    /\ LET hit == IF DayMatches(scan.cron, scan.date)
                  THEN ScanWithinDay(scan.cron, scan.zone, scan.date, Bound, scan.forward)
                  ELSE NoInstant
       IN  scan' = IF hit # NoInstant
                   THEN [scan EXCEPT !.pc = "answered", !.found = hit]
                   ELSE [scan EXCEPT !.day = @ + 1,
                            !.date = IF scan.forward THEN @ + 1 ELSE @ - 1]

GiveUp ==
    /\ scan.pc = "scan" /\ scan.day = MaxScanDays
    /\ scan' = [scan EXCEPT !.pc = "answered"]

CronNext == Parse \/ ScanDay \/ GiveUp

-----------------------------------------------------------------------------
(* Properties.  The reference is what a user reads in the expression,      *)
(* instant by instant.                                                     *)

\* The variable has its type: a parsed expression names only minutes, hours,
\* days and months the calendar has, Sunday under one number (CronExpression).
CronTypeOK ==
    /\ scan.pc \in {"none", "parse", "refused", "scan", "answered"}
    /\ scan.pc \in {"scan", "answered"} =>
        /\ scan.cron.minute \subseteq 0..(Minutes - 1) /\ scan.cron.hour \subseteq 0..(Hours - 1)
        /\ scan.cron.dom \subseteq 1..LongestMonth /\ scan.cron.month \subseteq DOMAIN Months
        /\ scan.cron.dow \subseteq 0..(Week - 1)
        /\ scan.day \in 0..MaxScanDays
        /\ scan.found = NoInstant \/ scan.found \in DOMAIN scan.zone

Covers(f, v, min, max) ==
    \E i \in DOMAIN f :
        CASE f[i].kind = "star" -> (v - min) % f[i].step = 0
          [] f[i].kind = "range" -> f[i].lo <= v /\ v <= f[i].hi /\ (v - f[i].lo) % f[i].step = 0
          [] OTHER -> v = f[i].lo \/ (f[i].step > 1 /\ v > f[i].lo /\ (v - f[i].lo) % f[i].step = 0)

Fires(x, w) ==
    LET d == DateOf(w)
        dom == Covers(x.dom, DomOf(d), 1, LongestMonth)
        dow == Covers(x.dow, DowOf(d), 0, Week) \/ (DowOf(d) = 0 /\ Covers(x.dow, Week, 0, Week))
    IN  /\ Covers(x.minute, MinuteOf(w), 0, Minutes - 1)
        /\ Covers(x.hour, HourOf(w), 0, Hours - 1)
        /\ Covers(x.month, MonthOf(d), 1, Len(Months))
        /\ (dom /\ dow) \/ (x.dom[1].kind # "star" /\ x.dow[1].kind # "star" /\ (dom \/ dow))

\* The clock reads w for the second time.
Repeated(zone, i) == \E k \in DOMAIN zone : k < i /\ zone[k] = zone[i]

Occurrences(x, zone) == {i \in DOMAIN zone : Fires(x, zone[i]) /\ ~Repeated(zone, i)}

\* The clock has been put back and not yet caught up: it reads what it read
\* before, and the scans take the reading for the earlier instant.
InRepeat(zone, i) == \E k \in DOMAIN zone : k <= i /\ zone[k] >= zone[i] /\ Repeated(zone, i)

\* The scans find the occurrence a user would name: next_after the first one
\* strictly later, prev_at_or_before the last one not later; a time inside the
\* gap never fires and a repeated one fires on its first pass.  The exception
\* is a question asked while the clock repeats an hour, where cron.rs:203 and
\* cron.rs:215 promise more than the scan does.
ScansFindTheOccurrence ==
    (scan.pc = "answered" /\ ~InRepeat(scan.zone, scan.at)) =>
        LET os == {i \in Occurrences(scan.x, scan.zone) :
                     IF scan.forward THEN i > scan.at ELSE i <= scan.at}
        IN  IF scan.found = NoInstant THEN os = {}
            ELSE /\ scan.found \in os
                 /\ \A i \in os : IF scan.forward THEN scan.found <= i ELSE i <= scan.found

\* Whatever is asked when, an answer is an occurrence, and looking back never
\* answers with the future: a schedule does not fire early, nor twice in a
\* repeated hour (due_at takes prev_at_or_before).
AnswersAreOccurrences ==
    (scan.pc = "answered" /\ scan.found # NoInstant) =>
        /\ scan.found \in Occurrences(scan.x, scan.zone)
        /\ ~scan.forward => scan.found <= scan.at

\* The scans answer what a user reads in the expression (next_after,
\* prev_at_or_before).
ScansAreRight ==
    /\ CronTypeOK
    /\ ScansFindTheOccurrence
    /\ AnswersAreOccurrences

=============================================================================
