---------------------------- MODULE VisitStatistics ----------------------------
(* internal/api/site_stats.go: what the dashboard computes from the rows of *)
(* site_visits.  Every operator takes the table V it reads, so it can be    *)
(* evaluated on any table a run reaches.                                    *)
(*                                                                          *)
(* A row is [site, path, visitor, bot, at, utm, referrer].  Times are       *)
(* ticks.  Paths, visitors and attribution values are numbers, compared the *)
(* way the code compares the texts they stand for.                          *)
EXTENDS Integers, FiniteSets, FiniteSetsExt

CONSTANTS
    DayLength,        \* ticks of a day
    DayForm,          \* form in which the database driver returns DATE(...)
    Normal,           \* Normal[x]: x trimmed, in lower case and cut; of a host, without www.
    TrendDefault, TrendMax,            \* days of a trend
    EngagementDefault, EngagementMax,  \* days of the engagement metrics
    PagesDefault,                      \* entries of the top pages, unless asked for
    AttributionDefault, AttributionMax, \* entries of each list of the attribution
    DepthBounds,      \* the three bounds of the depth distribution
    ObservedBounds    \* the three bounds of the observed-time distribution

ASSUME StatisticsAssumption ==
    /\ DayLength \in Nat \ {0}
    /\ TrendMax \in Nat /\ TrendDefault \in 1..TrendMax
    /\ EngagementMax \in Nat /\ EngagementDefault \in 1..EngagementMax
    /\ PagesDefault \in Nat \ {0}
    /\ AttributionMax \in Nat /\ AttributionDefault \in 1..AttributionMax
    /\ DepthBounds \in [1..3 -> Nat] /\ ObservedBounds \in [1..3 -> Nat]
    /\ DepthBounds[1] <= DepthBounds[2] /\ DepthBounds[2] <= DepthBounds[3]
    /\ \A x \in DOMAIN Normal : Normal[x] \in Nat

Day(t) == t \div DayLength

(* The values that stand for an absent text and for the texts the code puts *)
(* in its place, and the visitor of a beacon without an identifier.         *)
Blank    == 0
Direct   == 1
Referral == 2
NoCampaign == 3
Anonymous == 0

Human(V, s) == {v \in V : v.site = s /\ ~v.bot}

VisitCount(V, s) == Cardinality(Human(V, s))

UniqueVisitorCount(V, s) == Cardinality({v.visitor : v \in Human(V, s)} \ {Anonymous})

(* How often each value occurs: a GROUP BY, or a map of counters.           *)
CountsOf(value) ==
    [x \in {value[v] : v \in DOMAIN value} |->
        Cardinality({v \in DOMAIN value : value[v] = x})]

(* The largest counts first, then the smaller value; at most `limit`: the   *)
(* entry in place i is the one with i - 1 entries before it.                *)
Before(l, r) == l.count > r.count \/ (l.count = r.count /\ l.value < r.value)
Entries(counts) == {[value |-> x, count |-> counts[x]] : x \in DOMAIN counts}
Rank(entries, e) == Cardinality({d \in entries : Before(d, e)})

Ranked(counts, limit) ==
    LET entries == Entries(counts)
    IN  [i \in 1..Min({limit, Cardinality(entries)}) |->
            CHOOSE e \in entries : Rank(entries, e) = i - 1]

(* A path is [name, slashes]: its text up to the trailing slashes, and how  *)
(* many of those there are.  Only slashes: name 0, which stands for "/".    *)
NoPath == [name |-> 0, slashes |-> 0]
CanonicalPath(p) == p.name

(* The pages have a default, but no largest number of entries.              *)
PagesLimit(n) == IF n <= 0 THEN PagesDefault ELSE n
Paged(V, s) == {v \in Human(V, s) : v.path # NoPath}
TopPages(V, s, n) ==
    Ranked(CountsOf([v \in Paged(V, s) |-> CanonicalPath(v.path)]), PagesLimit(n))

(* normalizeVisitTrendDays, and the same for the engagement days and the    *)
(* entries of the attribution.                                              *)
Within(n, default, max) == IF n <= 0 THEN default ELSE Min({n, max})
TrendDays(n) == Within(n, TrendDefault, TrendMax)
AttributionLimit(n) == Within(n, AttributionDefault, AttributionMax)
EngagementDays(n) == Within(n, EngagementDefault, EngagementMax)

(* Rows from the first day on; the upper end is open.                       *)
StartDay(days, today) == today - (days - 1)
InWindow(V, s, days, today) == {v \in Human(V, s) : Day(v.at) >= StartDay(days, today)}

(* The text of a day: as the driver returns it, as the code formats it, and *)
(* what normalizeVisitTrendMapKey makes of the former.                      *)
DayText(v) == [day |-> Day(v.at), form |-> DayForm]
Formatted(d) == [day |-> d, form |-> "date"]
RawKey(text) == text  \* faulty variant: the text of the driver is the key
DayKey(text) == [text EXCEPT !.form = "date"]

(* One entry for each day of the window, zero where no row was returned.    *)
VisitTrend(V, s, n, today) ==
    LET days == TrendDays(n)
        rows == InWindow(V, s, days, today)
        entriesByDay == [k \in {DayKey(DayText(v)) : v \in rows} |->
            LET of == {v \in rows : DayKey(DayText(v)) = k}
            IN  [views |-> Cardinality(of),
                 uniques |-> Cardinality({v.visitor : v \in of} \ {Anonymous})]]
    IN  [i \in 1..days |->
            LET k == Formatted(StartDay(days, today) + i - 1)
            IN  IF k \in DOMAIN entriesByDay THEN entriesByDay[k]
                ELSE [views |-> 0, uniques |-> 0]]

(* resolveVisitAttribution: UTM parameters before the host of the referrer. *)
ReadUTMValue(x) == Normal[x]
NormalizeReferrerHost(x) == Normal[x]
OrElse(x, default) == IF x = Blank THEN default ELSE x
Source(v) == OrElse(ReadUTMValue(v.utm.source), OrElse(NormalizeReferrerHost(v.referrer), Direct))
Medium(v) == OrElse(ReadUTMValue(v.utm.medium),
                    IF NormalizeReferrerHost(v.referrer) = Blank THEN Direct ELSE Referral)
Campaign(v) == OrElse(ReadUTMValue(v.utm.campaign), NoCampaign)

VisitAttribution(V, s, n) ==
    LET rows == Human(V, s)
        limit == AttributionLimit(n)
    IN  [sources   |-> Ranked(CountsOf([v \in rows |-> Source(v)]), limit),
         mediums   |-> Ranked(CountsOf([v \in rows |-> Medium(v)]), limit),
         campaigns |-> Ranked(CountsOf([v \in rows |-> Campaign(v)]), limit)]

(* Into which of the four classes of a distribution a number falls.         *)
DepthClass(count) == 1 + Cardinality({i \in 1..3 : count > DepthBounds[i]})
ObservedClass(duration) == 1 + Cardinality({i \in 1..3 : duration >= ObservedBounds[i]})

(* 100 * n / d, rounded half up: the two decimals of a metric.              *)
Hundredths(n, d) == (200 * n + d) \div (2 * d)

VisitEngagement(V, s, n, today) ==
    LET rows == {v \in InWindow(V, s, EngagementDays(n), today) : v.visitor # Anonymous}
        visitors == {v.visitor : v \in rows}
        Of(w) == {v \in rows : v.visitor = w}
        count == [w \in visitors |-> Cardinality(Of(w))]
        observed == [w \in visitors |->
            Max({v.at : v \in Of(w)}) - Min({v.at : v \in Of(w)})]
        returning == Cardinality({w \in visitors : count[w] > DepthBounds[1]})
        tracked == Cardinality(visitors)
    IN  [tracked   |-> tracked,
         returning |-> returning,
         rate      |-> IF tracked = 0 THEN 0 ELSE Hundredths(returning, tracked),
         pages     |-> IF tracked = 0 THEN 0 ELSE Hundredths(Cardinality(rows), tracked),
         depth     |-> [k \in 1..4 |-> Cardinality({w \in visitors : DepthClass(count[w]) = k})],
         observed  |-> [k \in 1..4 |-> Cardinality({w \in visitors : ObservedClass(observed[w]) = k})]]

--------------------------------------------------------------------------------
(* A sum of natural numbers: how many there are if list[i] of them are      *)
(* marked with i.                                                           *)
Total(list) == Cardinality(UNION {{i} \X (1..list[i]) : i \in DOMAIN list})
Listed(list) == Total([i \in DOMAIN list |-> list[i].count])

(* The trend and the engagement metrics look at the same days, the trend    *)
(* drops no visit of its window in whatever form the driver returns the     *)
(* day, a visitor is tracked once whatever the number of days, each of the  *)
(* two distributions holds every tracked visitor once, and who is not in    *)
(* the single-page class returned.                                          *)
WindowsAgree(V, s, n, today) ==
    LET trend == VisitTrend(V, s, n, today)
        views == Total([i \in DOMAIN trend |-> trend[i].views])
        uniques == Total([i \in DOMAIN trend |-> trend[i].uniques])
        e == VisitEngagement(V, s, n, today)
    IN  /\ views = Cardinality({v \in Human(V, s) : today - Day(v.at) < n})
        /\ \A i \in DOMAIN trend : trend[i].uniques <= e.tracked
        /\ e.tracked <= uniques
        /\ e.tracked <= UniqueVisitorCount(V, s)
        /\ Total(e.depth) = e.tracked
        /\ Total(e.observed) = e.tracked
        /\ e.returning = e.tracked - e.depth[1]
        /\ e.pages * e.tracked <= 100 * views + e.tracked

(* A list of at most `limit` of the values that rows have: it is empty only *)
(* if there are no rows, names no value twice, is in the order of Before,   *)
(* counts no row twice, and counts every row if there are no more values    *)
(* than the limit.                                                          *)
Accounts(list, value, limit) ==
    LET rows == Cardinality(DOMAIN value)
        listed == Listed(list)
    IN  /\ rows > 0 => 1 \in DOMAIN list
        /\ \A i \in DOMAIN list : i <= limit
        /\ listed <= rows
        /\ Cardinality({value[v] : v \in DOMAIN value}) <= limit => listed = rows
        /\ \A i, k \in DOMAIN list :
              i < k => list[i].value # list[k].value /\ ~Before(list[k], list[i])

(* Whatever number n of entries is asked for, the lists of a site account   *)
(* for its visits as far as their limits go; the attribution shows normal   *)
(* forms only, and never more entries than its maximum or, if some number   *)
(* is asked for, than that; and no page is visited more often than the one  *)
(* that a list cut to one entry shows.                                      *)
NormalForms == {Normal[x] : x \in DOMAIN Normal} \cup {Direct, Referral, NoCampaign}

ListsAgree(V, s, n) ==
    LET rows == Human(V, s)
        a == VisitAttribution(V, s, n)
        pages == TopPages(V, s, n)
        first == TopPages(V, s, 1)
    IN  /\ Accounts(a.sources, [v \in rows |-> Source(v)], AttributionLimit(n))
        /\ Accounts(a.mediums, [v \in rows |-> Medium(v)], AttributionLimit(n))
        /\ Accounts(a.campaigns, [v \in rows |-> Campaign(v)], AttributionLimit(n))
        /\ Accounts(pages, [v \in Paged(V, s) |-> CanonicalPath(v.path)], PagesLimit(n))
        /\ \A list \in {a.sources, a.mediums, a.campaigns} : \A i \in DOMAIN list :
              /\ list[i].value \in NormalForms
              /\ i <= AttributionMax
              /\ n > 0 => i <= n
        /\ \A i \in DOMAIN pages : pages[i].count <= first[1].count

================================================================================
