----------------------------- MODULE RoadmapPlan -----------------------------
(***************************************************************************)
(* What the generator plans and the replanner redistributes, on the        *)
(* curricula of ExamPackData: RoadmapGeneratorService and                  *)
(* RoadmapReplannerService, called by one user after the other. The rows   *)
(* and transactions around them are in RoadmapService.                     *)
(*                                                                         *)
(* Days count from the roadmap's start date; the time of a request is in   *)
(* half days, as it may be in the middle of one. The score gap is left     *)
(* out: currentScore is never stored, so it is always 0. In 4..60 weeks    *)
(* 0.7 and 0.18, and 0.6 and 0.4 of an hour, are exact once rounded.       *)
(***************************************************************************)
EXTENDS Integers, Sequences, SequencesExt, FiniteSetsExt, ExamPackData

CONSTANTS
    Goals,      \* the study profiles: [exam, track, examDay, weekly]
    Moves,      \* the half days at which something happens, before the start (< 0) or after
    NewDays,    \* the exam days and
    NewWeekly,  \* the weekly minutes to which a profile may change
    MaxDone,    \* bound: how many items are completed
    MaxReplans  \* bound: how often a roadmap is replanned

Tracks == {"SAYISAL", "ESIT_AGIRLIK", "SOZEL", "DIL", "TYT_ONLY", "GENERAL", "SAT_ALL",
           "SAT_MATH_FOCUS", "SAT_RW_FOCUS"}
Minutes == 60..10080 \* the DTOs' bounds of weeklyAvailabilityMinutes
Exams == {"YKS", "SAT"}
GoalRows == [exam : Exams, track : Tracks, examDay : Int, weekly : Minutes]

ASSUME ConstantsAssumption ==
    /\ Goals \subseteq GoalRows
    /\ Moves \subseteq Int /\ NewDays \subseteq Int /\ NewWeekly \subseteq Minutes
    /\ MaxDone \in Nat /\ MaxReplans \in Nat

ItemTypes == {"LEARN", "PRACTICE", "REVIEW", "SIMULATE"}

VARIABLES
    profile, \* the study profile
    plan,    \* the current version: its number (0 before generation), weeks and items; and
             \* when, and for which exam day and weekly minutes, it was planned
    now,
    replans

vars == <<profile, plan, now, replans>>

NoPlan == [number |-> 0, total |-> 0, items |-> <<>>, from |-> 0, examDay |-> 0,
           weekly |-> 1200]

Init ==
    /\ profile \in Goals
    /\ plan = NoPlan
    /\ now \in Moves
    /\ replans = 0

-----------------------------------------------------------------------------
(* The subjects of a track.                                                 *)

\* Subjects whose code includes MAT or GEO.
WithMat == {"TYT_MATEMATIK", "AYT_MATEMATIK"}
WithGeo == {"TYT_GEOMETRI"}

ChosenYks(track, section, code) ==
    CASE section = "TYT" -> TRUE
      [] track = "SAYISAL" -> section = "AYT_SAYISAL"
      [] track = "ESIT_AGIRLIK" -> \/ section = "AYT_ESIT_AGIRLIK"
                                   \/ section = "AYT_SAYISAL" /\ code \in WithMat \cup WithGeo
      [] track = "SOZEL" -> section = "AYT_ESIT_AGIRLIK" /\ code \notin WithMat
      [] track = "DIL" -> section = "YDT_DIL"
      [] OTHER -> track \in {"GENERAL", "SAT_ALL"}

\* A focus takes the other section's core with it.
ChosenSat(track, section, code) ==
    CASE track = "SAT_MATH_FOCUS" -> section = "SAT_MATH" \/ code = "SAT_RW_CONVENTIONS"
      [] track = "SAT_RW_FOCUS" -> section = "SAT_RW" \/ code = "SAT_MATH_ALGEBRA"
      [] OTHER -> TRUE

Chosen(exam, track, section, code) ==
    IF exam = "SAT" THEN ChosenSat(track, section, code)
    ELSE ChosenYks(track, section, code)

\* filterSubjectsForTrack: in the order of the sections and of their subjects.
SubjectsFor(exam, track) ==
    LET pack == Pack(exam)
        ChosenOf(section) ==
            SelectSeq(section.subjects, LAMBDA s : Chosen(exam, track, section.code, s.code))
    IN  FlattenSeq([i \in DOMAIN pack |-> ChosenOf(pack[i])])

-----------------------------------------------------------------------------
(* The topics, most important first.                                        *)

Focused(track, section) ==
    \/ track = "SAT_MATH_FOCUS" /\ section = "SAT_MATH"
    \/ track = "SAT_RW_FOCUS" /\ section = "SAT_RW"

Priority(track, subject, k) ==
    subject.topics[k][2] * 10 - k + (IF Focused(track, subject.section) THEN 25 ELSE 0)

\* A topic with what decides its place: the order of its subject, and its priority.
TopicsOf(track, subject) ==
    [k \in DOMAIN subject.topics |->
        [topic |-> <<subject.code, k>>, hours |-> subject.topics[k][1],
         order |-> subject.orderIndex, priority |-> Priority(track, subject, k)]]

\* The sort is stable.
Before(topics, i, j) ==
    LET a == topics[i]  b == topics[j] IN
    \/ a.order < b.order
    \/ a.order = b.order /\ a.priority > b.priority
    \/ a.order = b.order /\ a.priority = b.priority /\ i < j

SortedTopics(exam, track) ==
    LET subjects == SubjectsFor(exam, track)
        topics == FlattenSeq([i \in DOMAIN subjects |-> TopicsOf(track, subjects[i])])
        place == SortSeq([i \in DOMAIN topics |-> i], LAMBDA i, j : Before(topics, i, j))
    IN  [i \in DOMAIN topics |-> topics[place[i]]]

TopicsOfSection(section) ==
    UNION {{<<s.code, k>> : k \in DOMAIN s.topics} :
              s \in {section.subjects[i] : i \in DOMAIN section.subjects}}

\* What a student of a track has to know: TYT and the session of the track; a SAT
\* student the section of the focus, or both.
Curriculum(exam, track) ==
    CASE exam = "SAT" /\ track = "SAT_MATH_FOCUS" -> TopicsOfSection(Section_SAT_MATH)
      [] exam = "SAT" /\ track = "SAT_RW_FOCUS" -> TopicsOfSection(Section_SAT_RW)
      [] exam = "SAT" -> UNION {TopicsOfSection(SAT[i]) : i \in DOMAIN SAT}
      [] OTHER -> TopicsOfSection(Section_TYT) \cup
                  (CASE track = "SAYISAL" -> TopicsOfSection(Section_AYT_SAYISAL)
                     [] track \in {"ESIT_AGIRLIK", "SOZEL"} ->
                            TopicsOfSection(Section_AYT_ESIT_AGIRLIK)
                     [] track = "DIL" -> TopicsOfSection(Section_YDT_DIL)
                     [] OTHER -> {})

\* Of the curricula as they are, which are all there are: a track's topics are those it has to
\* know, and perhaps others, each once, and take some time.
ASSUME CurriculaAssumption ==
    \A exam \in Exams, track \in Tracks :
        LET topics == SortedTopics(exam, track)
            Named == {topics[i].topic : i \in DOMAIN topics}
        IN  /\ Len(topics) \in Nat \ {0} /\ DOMAIN topics = 1..Len(topics)
            /\ \A i \in DOMAIN topics : topics[i].hours \in Nat \ {0}
            /\ \A i, j \in DOMAIN topics : topics[i].topic = topics[j].topic => i = j
            /\ Curriculum(exam, track) \subseteq Named

-----------------------------------------------------------------------------
(* The weeks.                                                               *)

Weeks(days) == -((-days) \div 7) \* rounded up
WeeksOfHalves(halves) == -((-halves) \div 14)

TotalWeeks(days) == Max({4, Min({60, Weeks(days)})})

\* Fault: nothing makes room for the simulations.
LearnWeeksAll(total) == Max({2, total - 1})

LearnWeeks(total) == Max({2, (total * 7) \div 10})
ReviewWeeks(total) == Max({1, (total * 18) \div 100})

Item(type, topic, week, day, minutes) ==
    [type |-> type, topic |-> topic, week |-> week, day |-> day, minutes |-> minutes,
     done |-> FALSE]

FirstDay(week) == (week - 1) * 7
None == <<"NONE", 0>>

\* Fault: a topic goes into the week that is full as well.
FullAlways(used, minutes, weekly) == FALSE

\* Nothing more goes into the week: the item would exceed the weekly minutes.
Full(used, minutes, weekly) == used + minutes > weekly

LearnMinutes(t) == t.hours * 36
PracticeMinutes(t) == t.hours * 24

\* Items in their weeks: how full the week is that comes next, and the weeks so far.
Filling == [used : Nat, week : Nat, weeks : Seq(Nat)]

\* One more item: `fits' is what has to fit for it to go into the week, `adds' what it adds.
\* The week moves on when it does not fit, but not beyond the last.
Put(f, fits, adds, weekly, last) ==
    IF Full(f.used, fits, weekly) /\ f.week < last
    THEN [used |-> adds, week |-> f.week + 1, weeks |-> Append(f.weeks, f.week + 1)]
    ELSE [used |-> f.used + adds, week |-> f.week, weeks |-> Append(f.weeks, f.week)]

Skip(f) == [f EXCEPT !.weeks = Append(@, f.week)]

\* The items `which' one after the other, from the first week on: loads[i] is <<fits, adds>> of
\* item i. (The halves only keep the recursion short.)
Placed(which, loads, weekly, first, last) ==
    LET Parts == [from : 1..(Len(loads) + 1), to : 0..Len(loads), on : Filling]
        Part(from, to, on) == [from |-> from, to |-> to, on |-> on]
        run[p \in Parts] ==
            IF p.from > p.to THEN p.on
            ELSE IF p.from = p.to
            THEN IF p.from \in which
                 THEN Put(p.on, loads[p.from][1], loads[p.from][2], weekly, last)
                 ELSE Skip(p.on)
            ELSE LET mid == (p.from + p.to) \div 2 IN
                 run[Part(mid + 1, p.to, run[Part(p.from, mid, p.on)])]
        none == [used |-> 0, week |-> first, weeks |-> <<>>]
    IN  run[Part(1, Len(loads), none)].weeks

\* distributeTopicsAcrossWeeks: each topic's learning and, two days later, practice,
\* if the learning fits; then a review and a simulation per week.
Distributed(goal, total) ==
    LET topics == SortedTopics(goal.exam, goal.track)
        learnt == LearnWeeks(total)
        reviewed == learnt + ReviewWeeks(total)
        weeks == Placed(DOMAIN topics,
                       [i \in DOMAIN topics |->
                            <<LearnMinutes(topics[i]),
                              LearnMinutes(topics[i]) + PracticeMinutes(topics[i])>>],
                        goal.weekly, 1, learnt)
        Learn(t, w) == Item("LEARN", t.topic, w, FirstDay(w), LearnMinutes(t))
        Practice(t, w) == Item("PRACTICE", t.topic, w, FirstDay(w) + 2, PracticeMinutes(t))
        Weekly(type, w, cap) == Item(type, None, w, FirstDay(w), Min({goal.weekly, cap}))
        Of(i) == (i + 1) \div 2
    IN  [i \in 1..(2 * Len(topics)) |-> IF i % 2 = 1 THEN Learn(topics[Of(i)], weeks[Of(i)])
                                       ELSE Practice(topics[Of(i)], weeks[Of(i)])]
        \o [i \in 1..(reviewed - learnt) |-> Weekly("REVIEW", learnt + i, 480)]
        \o [i \in 1..(total - reviewed) |-> Weekly("SIMULATE", reviewed + i, 600)]

-----------------------------------------------------------------------------
(* The replanner.                                                           *)

\* Fault: a roadmap that has not begun is in week 0 or before.
CurrentWeekOfAny(time) == WeeksOfHalves(time)

CurrentWeek(time) == Max({1, WeeksOfHalves(time)})
RemainingWeeks(goal, time) == Max({1, WeeksOfHalves(2 * goal.examDay - time)})

ReplannedTotal(goal, time) == CurrentWeek(time) + RemainingWeeks(goal, time) - 1

\* Fault: the completed items are redistributed as well.
IsOpenAny(item) == TRUE

IsOpen(item) == ~item.done

Open(items) == {i \in DOMAIN items : IsOpen(items[i])}

\* Fault: the new version has only what is left to do.
ReplannedLeft(items, goal, time) ==
    LET left == SelectSeq(items, IsOpen)
        weeks == Placed(DOMAIN left,
                        [i \in DOMAIN left |-> <<left[i].minutes, left[i].minutes>>],
                        goal.weekly, CurrentWeek(time), ReplannedTotal(goal, time))
    IN  [i \in DOMAIN left |-> [left[i] EXCEPT !.week = weeks[i], !.day = FirstDay(weeks[i])]]

\* The completed items stay as they are; the open ones go from the current week on, in the
\* order in which they were read.
Replanned(items, goal, time) ==
    LET weeks == Placed(Open(items),
                        [i \in DOMAIN items |-> <<items[i].minutes, items[i].minutes>>],
                        goal.weekly, CurrentWeek(time), ReplannedTotal(goal, time))
    IN  [i \in DOMAIN items |->
            IF IsOpen(items[i])
            THEN [items[i] EXCEPT !.week = weeks[i], !.day = FirstDay(weeks[i]), !.done = FALSE]
            ELSE items[i]]

-----------------------------------------------------------------------------
(* The steps of a user.                                                     *)

\* The start date may be another than today, and the request may give another amount
\* of time than the profile has.
Generate(weekly) ==
    /\ plan = NoPlan
    /\ SubjectsFor(profile.exam, profile.track) # <<>>
    /\ LET total == TotalWeeks(profile.examDay)
           goal == [profile EXCEPT !.weekly = weekly]
       IN  plan' = [number |-> 1, total |-> total, items |-> Distributed(goal, total),
                    from |-> 0, examDay |-> profile.examDay, weekly |-> weekly]
    /\ UNCHANGED <<profile, now, replans>>

\* An item is done: one of the first, one in the middle, or one of the last.
Picks == {"first", "second", "middle", "last"}
Place(pick) ==
    CASE pick = "first" -> 1
      [] pick = "second" -> 2
      [] pick = "middle" -> (Len(plan.items) + 1) \div 2
      [] pick = "last" -> Len(plan.items)

Complete(pick) ==
    LET i == Place(pick) IN
    /\ plan # NoPlan /\ IsOpen(plan.items[i])
    /\ Cardinality({k \in DOMAIN plan.items : plan.items[k].done}) < MaxDone
    /\ plan' = [plan EXCEPT !.items[i].done = TRUE]
    /\ UNCHANGED <<profile, now, replans>>

TimePasses(time) ==
    /\ time > now
    /\ now' = time
    /\ UNCHANGED <<profile, plan, replans>>

\* The user moves the exam, or has another amount of time.
ChangeGoal(examDay, weekly) ==
    /\ plan # NoPlan /\ replans < MaxReplans
    /\ profile' = [profile EXCEPT !.examDay = examDay, !.weekly = weekly]
    /\ UNCHANGED <<plan, now, replans>>

\* The rows of a version are read in no particular order: as stored, or the other way
\* round, of all the orders there are.
Orders(items) == {items, Reverse(items)}

Replan ==
    /\ plan # NoPlan /\ replans < MaxReplans
    /\ Open(plan.items) # {}
    /\ \E items \in Orders(plan.items) :
         plan' = [number |-> plan.number + 1, total |-> ReplannedTotal(profile, now),
                  items |-> Replanned(items, profile, now),
                  from |-> now, examDay |-> profile.examDay, weekly |-> profile.weekly]
    /\ replans' = replans + 1
    /\ UNCHANGED <<profile, now>>

Next ==
    \/ Generate(profile.weekly)
    \/ \E weekly \in NewWeekly : Generate(weekly)
    \/ \E p \in Picks : Complete(p)
    \/ \E time \in Moves : TimePasses(time)
    \/ \E examDay \in NewDays, weekly \in NewWeekly : ChangeGoal(examDay, weekly)
    \/ Replan

Spec == Init /\ [][Next]_vars

-----------------------------------------------------------------------------
(* Properties.                                                              *)

Generated == plan.number = 1
Planned(types) == {i \in DOMAIN plan.items : plan.items[i].type \in types}
Week(i) == plan.items[i].week
TopicsIn(items) == {plan.items[i].topic : i \in items}
Load(items) == SumFunctionOnSet([i \in DOMAIN plan.items |-> plan.items[i].minutes], items)

TypeOK ==
    /\ profile \in GoalRows
    /\ plan.number \in 0..(MaxReplans + 1)
    /\ \A i \in DOMAIN plan.items : LET item == plan.items[i] IN
         /\ item.type \in ItemTypes /\ item.minutes \in Nat \ {0}
         /\ item.week \in Nat \ {0} /\ item.day \in Nat /\ item.done \in BOOLEAN
    /\ replans \in 0..MaxReplans

\* Through all replanning, a plan has the whole curriculum of its track, each topic
\* learnt and practised once (generator 78-151, 216-271; replanner 46-124).
CoversCurriculum ==
    plan # NoPlan =>
        /\ TopicsIn(Planned({"LEARN"})) = TopicsIn(Planned({"PRACTICE"}))
        /\ \A type \in {"LEARN", "PRACTICE"} :
             /\ Curriculum(profile.exam, profile.track) \subseteq TopicsIn(Planned({type}))
             /\ \A i, j \in Planned({type}) :
                  plan.items[i].topic = plan.items[j].topic => i = j

\* A new plan learns, then reviews, then simulates the exam, up to its last week, however
\* few weeks there are (209-211, 273-308).
PhasesInOrder ==
    Generated =>
        LET learn == Planned({"LEARN", "PRACTICE"})
            review == Planned({"REVIEW"})
            simulate == Planned({"SIMULATE"})
            others == review \cup simulate
        IN  /\ {} \notin {learn, review, simulate}
            /\ \A i \in learn, j \in review, k \in simulate : Week(i) < Week(j) /\ Week(j) < Week(k)
            /\ {Week(i) : i \in others} = (plan.total - Cardinality(others) + 1)..plan.total

\* The items of a week exceed the weekly minutes, for which the plan was made, by no more
\* than the practice of its last topic, unless it has one topic only (222-228, 270);
\* after a replan by nothing, unless it has one item only (replanner 97-103). The last
\* learning week, or the last week of a replan, takes all that is left.
WeekFits(items) ==
    IF Generated
    THEN Load(items) - plan.items[Max(items)].minutes <= plan.weekly \/ Cardinality(items) = 2
    ELSE Load(items) <= plan.weekly \/ Cardinality(items) = 1

WeeksFit ==
    plan # NoPlan =>
        LET items == IF Generated THEN Planned({"LEARN", "PRACTICE"})
                     ELSE Open(plan.items)
            lastWeek == IF Generated
                        THEN plan.total - Cardinality(Planned({"REVIEW", "SIMULATE"}))
                        ELSE plan.total
        IN  \A week \in {Week(i) : i \in items} : week < lastWeek =>
                WeekFits({i \in items : Week(i) = week})

\* Nothing is planned for a day after the exam, if there were at least four weeks for a
\* new plan, or the roadmap had begun and the exam was to come when it was replanned.
BeforeExam ==
    plan # NoPlan /\ (IF Generated THEN Weeks(plan.examDay) >= 4
                      ELSE plan.from \in 0..(2 * plan.examDay)) =>
        \A i \in DOMAIN plan.items :
            Generated \/ IsOpen(plan.items[i]) => plan.items[i].day <= plan.examDay

\* Both: the time before the exam and the minutes of a week are kept to (generator 33-37,
\* 216-271, replanner 29-40, 91-124).
FitsTime == WeeksFit /\ BeforeExam

\* Replanning keeps what is completed as it was, plans everything else, and nothing of it
\* before the current week (replanner 46-89, 91-124).
ReplanStep ==
    plan # NoPlan /\ plan'.number # plan.number =>
        LET old == {plan.items[i] : i \in DOMAIN plan.items}
            new == {plan'.items[i] : i \in DOMAIN plan'.items}
            What(items) == {<<item.type, item.topic, item.minutes>> : item \in items}
        IN  /\ {item \in old : item.done} = {item \in new : item.done}
            /\ What(old) = What(new) /\ Len(plan.items) = Len(plan'.items)
            /\ \A item \in new : ~item.done => item.week \in CurrentWeek(now)..plan'.total

ReplanKeeps == [][ReplanStep]_vars
=============================================================================
