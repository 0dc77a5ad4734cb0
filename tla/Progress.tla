------------------------------ MODULE Progress ------------------------------
(***************************************************************************)
(* What StudySessionsService.getProgress, the public report and the group  *)
(* leaderboard compute from the sessions and tasks of a user.              *)
(*                                                                         *)
(* Time is in hours. A time zone is the set of the hours at which its days *)
(* begin, so a day of 23 or 25 hours is two members that far apart. A      *)
(* session has start, minutes, subject (NULL: it has no task), finished.   *)
(***************************************************************************)
EXTENDS Integers, FiniteSets, FiniteSetsExt

CONSTANT NULL

Day == 24
Week == 7 * Day
UTC == {Day * d : d \in 0..60}

LocalDate(zone, t) == Cardinality({m \in zone : m <= t})
Dates(zone, ss) == {LocalDate(zone, s.start) : s \in ss}
Minutes(ss) == SumFunction([s \in ss |-> s.minutes])

\* Math.round of done of all in percent, and 0 if there are none.
Rate(done, all) == IF all = 0 THEN 0 ELSE (200 * done + all) \div (2 * all)

-----------------------------------------------------------------------------
(* getProgress                                                              *)

Subject(s) == IF s.subject = NULL THEN "General" ELSE s.subject

BySubject(ss) ==
    [name \in {Subject(s) : s \in ss} |->
        LET of == {s \in ss : Subject(s) = name}
        IN  [minutes |-> Minutes(of), count |-> Cardinality(of)]]

ByDay(zone, ss) ==
    [date \in Dates(zone, ss) |->
        LET of == {s \in ss : LocalDate(zone, s.start) = date}
        IN  [minutes |-> Minutes(of), count |-> Cardinality(of)]]

\* How many of 0, 1, 2, ... are active before the first that is not.
Run(active, bound) == CHOOSE k \in 0..bound : k \notin active /\ 0..(k - 1) \subseteq active

\* The days back from a time, of 24 hours of the server each, that lead to one of the dates.
ActiveBack(zone, dates, from, bound) ==
    {k \in 0..bound : LocalDate(zone, from - Day * k) \in dates}

\* Fault: a streak ends on the first day without a session, even if it is today.
StreakToday(zone, dates, now) ==
    LET bound == 2 * Cardinality(dates) IN Run(ActiveBack(zone, dates, now, bound), bound)

\* checkDate goes back from now, or from a day before.
Streak(zone, dates, now) ==
    LET from == IF LocalDate(zone, now) \in dates THEN now ELSE now - Day
        bound == 2 * Cardinality(dates)
    IN  Run(ActiveBack(zone, dates, from, bound), bound)

-----------------------------------------------------------------------------
(* getGroupLeaderboard                                                      *)

\* Fault: the points of the days have no upper bound.
ScoreUnbounded(done, all, days) ==
    IF all = 0 THEN 10 * days ELSE (100 * done + 20 * days * all + all) \div (2 * all)

\* Math.round(completionRate * 0.5 + Math.min(activeDaysCount * 10, 50))
Score(done, all, days) ==
    LET points == IF 10 * days < 50 THEN 10 * days ELSE 50
    IN  IF all = 0 THEN points ELSE (100 * done + 2 * points * all + all) \div (2 * all)

\* The sort is by the score alone, and stable.
Ahead(entries, i, j) ==
    \/ entries[i].score > entries[j].score
    \/ entries[i].score = entries[j].score /\ i < j

Ranking(entries) ==
    LET Place(i) == Cardinality({j \in DOMAIN entries : Ahead(entries, j, i)}) + 1
    IN  [rank \in 1..Cardinality(DOMAIN entries) |->
            entries[CHOOSE i \in DOMAIN entries : Place(i) = rank]]

-----------------------------------------------------------------------------
(* The reference for the streak: consecutive dates up to today or yesterday.*)

RealStreak(dates, today) ==
    LET last == IF today \in dates THEN today ELSE today - 1
        bound == Cardinality(dates)
    IN  Run({k \in 0..bound : last - k \in dates}, bound)
=============================================================================
