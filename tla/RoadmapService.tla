--------------------------- MODULE RoadmapService ---------------------------
(***************************************************************************)
(* RoadmapService: generateRoadmap, replanRoadmap, updateRoadmapItem and   *)
(* convertItemToTask over roadmap, roadmap_version, roadmap_item,          *)
(* replan_event and task.                                                  *)
(*                                                                         *)
(* generateRoadmap and replanRoadmap write in a transaction at PostgreSQL's*)
(* default level, READ COMMITTED: nobody sees its writes before the commit,*)
(* and it does not see what is committed after its reads. replanRoadmap    *)
(* reads before its transaction begins. The UPDATE that supersedes the     *)
(* active roadmaps of the user finds them in the snapshot the statement    *)
(* starts with, so a transaction is two steps: that snapshot (or read),    *)
(* and the commit. A row lock taken in between makes another transaction   *)
(* wait, and changes no outcome: both write the same value.                *)
(*                                                                         *)
(* updateRoadmapItem and convertItemToTask load an item and call save(),   *)
(* which reads it again and writes the loaded columns that differ.         *)
(*                                                                         *)
(* Abstractions: a version holds one item per lesson (a topic to learn or  *)
(* practise, a review, a simulation), whose dates and minutes are left out;*)
(* the profile and the exam version a plan is made from exist.             *)
(***************************************************************************)
EXTENDS Naturals, FiniteSets

CONSTANTS
    Users,
    Clients,        \* connections: each has at most one request in flight
    UserOf,         \* the account a client is authenticated as
    Roadmaps,       \* bound: ids of roadmap rows
    Versions,       \* bound: ids of roadmap_version rows
    Lessons,        \* what the items of a version are about
    Tasks,          \* bound: ids of task rows
    ClientStatuses, \* the statuses the clients of this instance set
    Ops,            \* per client, the endpoints it calls in this instance
    NULL

AllOps == {"generate", "replan", "update", "convert"}
ItemStatuses == {"PENDING", "IN_PROGRESS", "COMPLETED", "SKIPPED"}

ASSUME ConstantsAssumption ==
    /\ UserOf \in [Clients -> Users]
    /\ Ops \in [Clients -> SUBSET AllOps]
    /\ ClientStatuses \subseteq ItemStatuses
    /\ NULL \notin Users \cup Roadmaps \cup Versions \cup Lessons \cup Tasks
    /\ IsFiniteSet(Clients)

VARIABLES
    roadmap,     \* table roadmap
    version,     \* table roadmap_version
    item,        \* table roadmap_item: version -> lesson -> item
    replanEvent, \* table replan_event: <<fromVersion, toVersion>>
    taskOwner,   \* table task: NULL for an id that is not used
    req,         \* per client, the request in flight
    missed       \* history: per client, the lessons whose items were saved after its
                 \* replanning read them

vars == <<roadmap, version, item, replanEvent, taskOwner, req, missed>>

RoadmapRows == [status : {"NONE", "ACTIVE", "SUPERSEDED"}, user : Users \cup {NULL}]
VersionRows == [roadmap : Roadmaps \cup {NULL}, number : Nat, current : BOOLEAN]
Items == [status : ItemStatuses, task : Tasks \cup {NULL}]

ASSUME NullAssumption == NULL \notin [Lessons -> Items]

NoRoadmap == [status |-> "NONE", user |-> NULL]
NoVersion == [roadmap |-> NULL, number |-> 0, current |-> FALSE]
NewItem == [status |-> "PENDING", task |-> NULL]
NewPlan == [l \in Lessons |-> NewItem]

\* The rows that the two transactions insert, and the one replanning updates.
FirstVersion(m) == [roadmap |-> m, number |-> 1, current |-> TRUE]
NextVersion(row) == [roadmap |-> row.roadmap, number |-> row.number + 1, current |-> TRUE]
PastVersion(row) == [roadmap |-> row.roadmap, number |-> row.number, current |-> FALSE]

(***************************************************************************)
(* A request in flight: a generation that will supersede the roadmaps      *)
(* `old'; a replanning that read version `ver' with the items `plan'; or a *)
(* change of the item of `lesson' in `ver', held as the entity `ent', of   *)
(* which save() will write the columns `cols'.                             *)
(***************************************************************************)
Requests ==
    LET Fields(ats, vers, lessons) ==
            [at : ats, old : SUBSET Roadmaps, ver : vers, plan : [Lessons -> Items],
             lesson : lessons, ent : Items, cols : SUBSET {"status", "task"}]
    IN  Fields({"idle", "generate"}, {NULL}, {NULL})
          \cup Fields({"replan"}, Versions, {NULL})
          \cup Fields({"convert", "loaded", "reread"}, Versions, Lessons)

Idle == [at |-> "idle", old |-> {}, ver |-> NULL, plan |-> NewPlan,
         lesson |-> NULL, ent |-> NewItem, cols |-> {}]

Generating(old) == [Idle EXCEPT !.at = "generate", !.old = old]
Replanning(v, plan) == [Idle EXCEPT !.at = "replan", !.ver = v, !.plan = plan]
Converting(v, l, ent) ==
    [Idle EXCEPT !.at = "convert", !.ver = v, !.lesson = l, !.ent = ent]
Loaded(v, l, ent) ==
    [Idle EXCEPT !.at = "loaded", !.ver = v, !.lesson = l, !.ent = ent]

TypeOK ==
    /\ roadmap \in [Roadmaps -> RoadmapRows]
    /\ version \in [Versions -> VersionRows]
    /\ item \in [Versions -> [Lessons -> Items]]
    /\ replanEvent \subseteq Versions \X Versions
    /\ taskOwner \in [Tasks -> Users \cup {NULL}]
    /\ req \in [Clients -> Requests]
    /\ missed \in [Clients -> SUBSET Lessons]

Init ==
    /\ roadmap = [m \in Roadmaps |-> NoRoadmap]
    /\ version = [v \in Versions |-> NoVersion]
    /\ item = [v \in Versions |-> NewPlan]
    /\ replanEvent = {}
    /\ taskOwner = [t \in Tasks |-> NULL]
    /\ req = [c \in Clients |-> Idle]
    /\ missed = [c \in Clients |-> {}]

-----------------------------------------------------------------------------
(* Reads.                                                                   *)

\* The user's active roadmaps, and the current versions of a roadmap.
ActiveOf(u) == {m \in Roadmaps : roadmap[m].user = u /\ roadmap[m].status = "ACTIVE"}
CurrentOf(m) == {v \in Versions : version[v].roadmap = m /\ version[v].current}

FreeRoadmaps == {m \in Roadmaps : roadmap[m] = NoRoadmap}
FreeVersions == {v \in Versions : version[v] = NoVersion}
FreeTasks == {t \in Tasks : taskOwner[t] = NULL}

\* The items that belong to a user's roadmaps, superseded ones and versions
\* that are no longer current included.
Owns(u, v) == version[v] # NoVersion /\ roadmap[version[v].roadmap].user = u

-----------------------------------------------------------------------------
(* generateRoadmap.                                                         *)

\* Fault: the existing roadmap is not superseded.
GenerateBeginKeepsOld(c) ==
    /\ "generate" \in Ops[c]
    /\ req[c] = Idle
    /\ req' = [req EXCEPT ![c] = Generating({})]
    /\ UNCHANGED <<roadmap, version, item, replanEvent, taskOwner, missed>>

\* The transaction begins and finds the active roadmaps it supersedes.
GenerateBegin(c) ==
    /\ "generate" \in Ops[c]
    /\ req[c] = Idle
    /\ req' = [req EXCEPT ![c] = Generating(ActiveOf(UserOf[c]))]
    /\ UNCHANGED <<roadmap, version, item, replanEvent, taskOwner, missed>>

\* It commits: the old roadmaps, the new one, its first version and its items.
GenerateCommit(c) ==
    /\ req[c].at = "generate"
    /\ \E m \in FreeRoadmaps, v \in FreeVersions :
         /\ roadmap' = [n \in Roadmaps |->
                          IF n = m THEN [status |-> "ACTIVE", user |-> UserOf[c]]
                          ELSE IF n \in req[c].old THEN [roadmap[n] EXCEPT !.status = "SUPERSEDED"]
                          ELSE roadmap[n]]
         /\ version' = [version EXCEPT ![v] = FirstVersion(m)]
         /\ item' = [item EXCEPT ![v] = NewPlan]
    /\ req' = [req EXCEPT ![c] = Idle]
    /\ UNCHANGED <<replanEvent, taskOwner, missed>>

-----------------------------------------------------------------------------
(* replanRoadmap and RoadmapReplannerService.replanCurrentRoadmap.          *)

\* Fault: the old version is closed outside of the transaction.
ReplanReadCloses(c) ==
    /\ "replan" \in Ops[c]
    /\ req[c] = Idle
    /\ \E m \in ActiveOf(UserOf[c]) : \E v \in CurrentOf(m) :
         /\ \E l \in Lessons : item[v][l].status # "COMPLETED"
         /\ req' = [req EXCEPT ![c] = Replanning(v, item[v])]
         /\ version' = [version EXCEPT ![v] = PastVersion(@)]
    /\ UNCHANGED <<roadmap, item, replanEvent, taskOwner, missed>>

\* Reads an active roadmap (the query has no order) and a current version of
\* it; refused when everything is completed.
ReplanRead(c) ==
    /\ "replan" \in Ops[c]
    /\ req[c] = Idle
    /\ \E m \in ActiveOf(UserOf[c]) : \E v \in CurrentOf(m) :
         /\ \E l \in Lessons : item[v][l].status # "COMPLETED"
         /\ req' = [req EXCEPT ![c] = Replanning(v, item[v])]
    /\ UNCHANGED <<roadmap, version, item, replanEvent, taskOwner, missed>>

\* Fault: the task of a completed item is not carried over.
ReplannedDropsTasks(plan) ==
    [l \in Lessons |-> IF plan[l].status = "COMPLETED"
                         THEN [NewItem EXCEPT !.status = "COMPLETED"] ELSE NewItem]

\* Fault: every item is to be done again.
ReplannedAnew(plan) == [l \in Lessons |-> [plan[l] EXCEPT !.status = "PENDING"]]

\* Completed items are kept, with their tasks; all others become PENDING items
\* without a task.
Replanned(plan) ==
    [l \in Lessons |-> IF plan[l].status = "COMPLETED" THEN plan[l] ELSE NewItem]

\* Fault: the number of the new version is not advanced.
ReplanCommitSameNumber(c) ==
    LET v == req[c].ver IN
    /\ req[c].at = "replan"
    /\ \E w \in FreeVersions :
         /\ version' = [version EXCEPT ![v] = PastVersion(@),
                                       ![w] = [version[v] EXCEPT !.current = TRUE]]
         /\ item' = [item EXCEPT ![w] = Replanned(req[c].plan)]
         /\ replanEvent' = replanEvent \cup {<<v, w>>}
    /\ req' = [req EXCEPT ![c] = Idle]
    /\ missed' = [missed EXCEPT ![c] = {}]
    /\ UNCHANGED <<roadmap, taskOwner>>

\* The transaction: the old version stops being current, the new one and the
\* event are inserted. The roadmap itself is not written.
ReplanCommit(c) ==
    LET v == req[c].ver IN
    /\ req[c].at = "replan"
    /\ \E w \in FreeVersions :
         /\ version' = [version EXCEPT ![v] = PastVersion(@), ![w] = NextVersion(version[v])]
         /\ item' = [item EXCEPT ![w] = Replanned(req[c].plan)]
         /\ replanEvent' = replanEvent \cup {<<v, w>>}
    /\ req' = [req EXCEPT ![c] = Idle]
    /\ missed' = [missed EXCEPT ![c] = {}]
    /\ UNCHANGED <<roadmap, taskOwner>>

-----------------------------------------------------------------------------
(* updateRoadmapItem and convertItemToTask.                                 *)

\* The client sets the status, or links a task, or both.
UpdateLoad(c, v, l) ==
    /\ "update" \in Ops[c]
    /\ req[c] = Idle
    /\ Owns(UserOf[c], v)
    /\ \E s \in ClientStatuses \cup {item[v][l].status},
          t \in (Tasks \ FreeTasks) \cup {item[v][l].task} :
         req' = [req EXCEPT ![c] = Loaded(v, l, [status |-> s, task |-> t])]
    /\ UNCHANGED <<roadmap, version, item, replanEvent, taskOwner, missed>>

\* The item is loaded; whatever its status is, and linked or not.
ConvertLoad(c, v, l) ==
    /\ "convert" \in Ops[c]
    /\ req[c] = Idle
    /\ Owns(UserOf[c], v)
    /\ req' = [req EXCEPT ![c] = Converting(v, l, item[v][l])]
    /\ UNCHANGED <<roadmap, version, item, replanEvent, taskOwner, missed>>

\* TasksService.create: the task is stored before the item links it.
ConvertTask(c) ==
    /\ req[c].at = "convert"
    /\ \E t \in FreeTasks :
         /\ taskOwner' = [taskOwner EXCEPT ![t] = UserOf[c]]
         /\ req' = [req EXCEPT ![c] = Loaded(req[c].ver, req[c].lesson,
                                             [status |-> "IN_PROGRESS", task |-> t])]
    /\ UNCHANGED <<roadmap, version, item, replanEvent, missed>>

Diff(ent, row) ==
    {f \in {"status", "task"} : \/ f = "status" /\ ent.status # row.status
                                \/ f = "task" /\ ent.task # row.task}

Written(row, ent, cols) ==
    [status |-> IF "status" \in cols THEN ent.status ELSE row.status,
     task |-> IF "task" \in cols THEN ent.task ELSE row.task]

\* save() reads the item again and computes what differs ...
Reread(c) ==
    LET q == req[c] IN
    /\ q.at = "loaded"
    /\ req' = [req EXCEPT ![c].at = "reread", ![c].cols = Diff(q.ent, item[q.ver][q.lesson])]
    /\ UNCHANGED <<roadmap, version, item, replanEvent, taskOwner, missed>>

\* ... and updates these columns.
SaveWrite(c) ==
    LET q == req[c] IN
    /\ q.at = "reread"
    /\ item' = [item EXCEPT ![q.ver][q.lesson] = Written(@, q.ent, q.cols)]
    /\ req' = [req EXCEPT ![c] = Idle]
    /\ missed' = [d \in Clients |->
                    IF req[d].at = "replan" /\ req[d].ver = q.ver /\ q.cols # {}
                      THEN missed[d] \cup {q.lesson} ELSE missed[d]]
    /\ UNCHANGED <<roadmap, version, replanEvent, taskOwner>>

-----------------------------------------------------------------------------
\* A request ends early: a statement fails, the generator refuses, the process
\* or the connection dies. An open transaction is rolled back; what was saved
\* before (the task of a conversion) stays.
Abort(c) ==
    /\ req[c] # Idle
    /\ req' = [req EXCEPT ![c] = Idle]
    /\ missed' = [missed EXCEPT ![c] = {}]
    /\ UNCHANGED <<roadmap, version, item, replanEvent, taskOwner>>

Next ==
    \E c \in Clients :
        \/ GenerateBegin(c)
        \/ GenerateCommit(c)
        \/ ReplanRead(c)
        \/ ReplanCommit(c)
        \/ \E v \in Versions, l \in Lessons : UpdateLoad(c, v, l) \/ ConvertLoad(c, v, l)
        \/ ConvertTask(c)
        \/ Reread(c)
        \/ SaveWrite(c)
        \/ Abort(c)

Spec == Init /\ [][Next]_vars

-----------------------------------------------------------------------------
(* Properties.                                                              *)

\* The requests on one user's roadmaps never overlap.
OneRequestPerUser == \A c, d \in Clients : UserOf[c] = UserOf[d] => c = d

\* Whatever overlaps, fails or crashes, a stored roadmap has a version to show:
\* "Active roadmap has no current version" (replanRoadmap 183-186) never
\* happens.
HasCurrentVersion ==
    \A m \in Roadmaps : roadmap[m].status # "NONE" => CurrentOf(m) # {}

\* Whatever overlaps, a superseded roadmap never comes back: the writes of a
\* replanning that read it before (203-226) leave its status alone.
SupersededStep ==
    \A m \in Roadmaps : roadmap[m].status = "SUPERSEDED" => roadmap'[m].status = "SUPERSEDED"

SupersededForever == [][SupersededStep]_vars

\* Whatever overlaps, a user never has more active roadmaps than devices: each generation
\* that read the active roadmaps before another one committed adds one, but the next
\* generation supersedes them all (generateRoadmap 73-78).
ActiveBounded ==
    \A u \in Users : Cardinality(ActiveOf(u)) <= Cardinality({c \in Clients : UserOf[c] = u})

\* generateRoadmap marks "any existing active roadmap as SUPERSEDED" (73-78):
\* a user has at most one that is ACTIVE.
OneActiveRoadmap ==
    \A m, n \in Roadmaps :
        /\ roadmap[m].status = "ACTIVE" /\ roadmap[n].status = "ACTIVE"
        /\ roadmap[m].user = roadmap[n].user
        => m = n

\* Whatever overlaps, the versions of a roadmap are a tree: it has one first version; each
\* later one comes by one replan event from a version of the same roadmap whose number is
\* one less; and a version is current exactly while none comes from it. Two replannings
\* that read one version leave two current ones (203-226), and no stray one.
VersionTree ==
    /\ \A m \in Roadmaps : roadmap[m].status # "NONE" =>
          \E r \in Versions : \A v \in Versions :
             version[v].roadmap = m /\ version[v].number = 1 <=> v = r
    /\ \A v, w \in Versions : <<v, w>> \in replanEvent =>
          /\ version[v].roadmap = version[w].roadmap /\ version[v] # NoVersion
          /\ version[w].number = version[v].number + 1
          /\ \A x \in Versions : <<x, w>> \in replanEvent => x = v
    /\ \A v \in Versions :
          /\ version[v].number > 1 => \E x \in Versions : <<x, v>> \in replanEvent
          /\ version[v].current <=>
                version[v] # NoVersion /\ \A x \in Versions : <<v, x>> \notin replanEvent

\* "Keep completed items as history" (replanner 73-89): whatever overlaps, replanning
\* reopens or unlinks a completed item only when that very item was saved after the
\* replanning read the plan (172-226); the new version has it otherwise completed, with
\* the same task.
OnlyMissedReopenStep ==
    \A c \in Clients, v, w \in Versions, l \in Lessons :
        /\ req[c].at = "replan" /\ req'[c] # req[c] /\ l \notin missed[c]
        /\ <<v, w>> \in replanEvent' \ replanEvent
        /\ item[v][l].status = "COMPLETED"
        => item'[w][l] = item[v][l]

OnlyMissedReopen == [][OnlyMissedReopenStep]_vars

\* With one request at a time per user, the plan that getCurrentRoadmap shows
\* behaves as StudyPlan says.
ShownPlan(u) ==
    IF ActiveOf(u) = {} THEN NULL
    ELSE item[CHOOSE v \in CurrentOf(CHOOSE m \in ActiveOf(u) : TRUE) : TRUE]

Plan == INSTANCE StudyPlan WITH plan <- [u \in Users |-> ShownPlan(u)]

ImplementsPlan == Plan!Spec
=============================================================================
