------------------------ MODULE RoadmapServiceProofs ------------------------
(***************************************************************************)
(* Theorems about RoadmapService, for every value of its constants.        *)
(***************************************************************************)
EXTENDS RoadmapService, FiniteSetTheorems, TLAPS

USE ConstantsAssumption

\* The requests the handlers build.
LEMMA RequestTypes ==
    /\ NewItem \in Items /\ NewPlan \in [Lessons -> Items]
    /\ Idle \in Requests
    /\ \A old \in SUBSET Roadmaps : Generating(old) \in Requests
    /\ \A v \in Versions, plan \in [Lessons -> Items] : Replanning(v, plan) \in Requests
    /\ \A v \in Versions, l \in Lessons, ent \in Items :
          Converting(v, l, ent) \in Requests /\ Loaded(v, l, ent) \in Requests
<1>1. NewItem \in Items /\ NewPlan \in [Lessons -> Items]
  BY DEF NewItem, NewPlan, Items, ItemStatuses
<1>2. Idle \in Requests
  BY <1>1 DEF Idle, Requests
<1> QED
  BY <1>1, <1>2 DEF Generating, Replanning, Converting, Loaded, Idle, Requests

LEMMA RequestFields ==
    /\ Idle.at = "idle"
    /\ \A old : Generating(old).at = "generate" /\ Generating(old).old = old
    /\ \A v, plan : /\ Replanning(v, plan).at = "replan" /\ Replanning(v, plan).ver = v
                    /\ Replanning(v, plan).plan = plan
    /\ \A v, l, ent :
          /\ Converting(v, l, ent).at = "convert" /\ Converting(v, l, ent).ver = v
          /\ Loaded(v, l, ent).at = "loaded" /\ Loaded(v, l, ent).ver = v
BY DEF Idle, Generating, Replanning, Converting, Loaded

\* The version rows the transactions write.
LEMMA VersionTypes ==
    /\ \A m \in Roadmaps : FirstVersion(m) \in VersionRows
    /\ \A row \in VersionRows : NextVersion(row) \in VersionRows /\ PastVersion(row) \in VersionRows
BY DEF FirstVersion, NextVersion, PastVersion, VersionRows

LEMMA VersionFields ==
    /\ \A m : LET w == FirstVersion(m) IN w.roadmap = m /\ w.number = 1 /\ w.current
    /\ \A row : LET w == NextVersion(row) IN
          w.roadmap = row.roadmap /\ w.number = row.number + 1 /\ w.current
    /\ \A row : LET w == PastVersion(row) IN
          w.roadmap = row.roadmap /\ w.number = row.number /\ ~w.current
    /\ NoVersion.roadmap = NULL /\ NoVersion.number = 0 /\ ~NoVersion.current
BY DEF FirstVersion, NextVersion, PastVersion, NoVersion

\* What a request in flight is about.
LEMMA RequestIds ==
    ASSUME TypeOK, NEW c \in Clients
    PROVE  /\ req[c] \in Requests
           /\ req[c].at = "replan" => req[c].ver \in Versions /\ req[c].plan \in [Lessons -> Items]
           /\ req[c].at \in {"convert", "loaded", "reread"} =>
                req[c].ver \in Versions /\ req[c].lesson \in Lessons /\ req[c].ent \in Items
BY DEF TypeOK, Requests

\* Every step of every handler keeps the types.
LEMMA TypeStep == TypeOK /\ [Next]_vars => TypeOK'
<1> SUFFICES ASSUME TypeOK, [Next]_vars PROVE TypeOK'
  OBVIOUS
<1> USE DEF TypeOK
<1>1. ASSUME NEW c \in Clients, GenerateBegin(c) PROVE TypeOK'
  <2>1. Generating(ActiveOf(UserOf[c])) \in Requests
    BY RequestTypes DEF ActiveOf
  <2> QED BY <1>1, <2>1 DEF GenerateBegin
<1>2. ASSUME NEW c \in Clients, GenerateCommit(c) PROVE TypeOK'
  <2>1. PICK m \in Roadmaps, v \in Versions :
          /\ roadmap' = [n \in Roadmaps |->
                           IF n = m THEN [status |-> "ACTIVE", user |-> UserOf[c]]
                           ELSE IF n \in req[c].old THEN [roadmap[n] EXCEPT !.status = "SUPERSEDED"]
                           ELSE roadmap[n]]
          /\ version' = [version EXCEPT ![v] = FirstVersion(m)]
          /\ item' = [item EXCEPT ![v] = NewPlan]
    BY <1>2 DEF GenerateCommit, FreeRoadmaps, FreeVersions
  <2>2. roadmap' \in [Roadmaps -> RoadmapRows]
    BY <2>1 DEF RoadmapRows
  <2>3. version' \in [Versions -> VersionRows]
    BY <2>1, VersionTypes
  <2> QED BY <1>2, <2>1, <2>2, <2>3, RequestTypes DEF GenerateCommit
<1>3. ASSUME NEW c \in Clients, ReplanRead(c) PROVE TypeOK'
  <2>1. PICK v \in Versions : req' = [req EXCEPT ![c] = Replanning(v, item[v])]
    BY <1>3 DEF ReplanRead, CurrentOf
  <2>2. Replanning(v, item[v]) \in Requests
    BY RequestTypes
  <2> QED BY <1>3, <2>1, <2>2 DEF ReplanRead
<1>4. ASSUME NEW c \in Clients, ReplanCommit(c) PROVE TypeOK'
  <2> DEFINE v == req[c].ver
  <2>1. v \in Versions /\ req[c].plan \in [Lessons -> Items] /\ version[v] \in VersionRows
    BY <1>4, RequestIds DEF ReplanCommit
  <2>2. Replanned(req[c].plan) \in [Lessons -> Items]
    BY <2>1, RequestTypes DEF Replanned
  <2>3. PICK w \in Versions :
          /\ version' = [version EXCEPT ![v] = PastVersion(@), ![w] = NextVersion(version[v])]
          /\ item' = [item EXCEPT ![w] = Replanned(req[c].plan)]
          /\ replanEvent' = replanEvent \cup {<<v, w>>}
    BY <1>4 DEF ReplanCommit, FreeVersions
  <2>4. version' \in [Versions -> VersionRows]
    BY <2>1, <2>3, VersionTypes
  <2>5. item' \in [Versions -> [Lessons -> Items]] /\ replanEvent' \subseteq Versions \X Versions
    BY <2>1, <2>2, <2>3
  <2> QED BY <1>4, <2>4, <2>5, RequestTypes DEF ReplanCommit
<1>5. ASSUME NEW c \in Clients, NEW v \in Versions, NEW l \in Lessons, UpdateLoad(c, v, l)
      PROVE  TypeOK'
  <2>1. item[v][l] \in Items
    OBVIOUS
  <2>2. PICK s \in ItemStatuses, t \in Tasks \cup {NULL} :
          req' = [req EXCEPT ![c] = Loaded(v, l, [status |-> s, task |-> t])]
    BY <1>5, <2>1 DEF UpdateLoad, Items
  <2>3. Loaded(v, l, [status |-> s, task |-> t]) \in Requests
    BY RequestTypes DEF Items
  <2> QED BY <1>5, <2>2, <2>3 DEF UpdateLoad
<1>6. ASSUME NEW c \in Clients, NEW v \in Versions, NEW l \in Lessons, ConvertLoad(c, v, l)
      PROVE  TypeOK'
  <2>1. Converting(v, l, item[v][l]) \in Requests
    BY RequestTypes
  <2> QED BY <1>6, <2>1 DEF ConvertLoad
<1>7. ASSUME NEW c \in Clients, ConvertTask(c) PROVE TypeOK'
  <2>1. req[c].ver \in Versions /\ req[c].lesson \in Lessons
    BY <1>7, RequestIds DEF ConvertTask
  <2>2. PICK t \in Tasks :
          /\ taskOwner' = [taskOwner EXCEPT ![t] = UserOf[c]]
          /\ req' = [req EXCEPT ![c] = Loaded(req[c].ver, req[c].lesson,
                                              [status |-> "IN_PROGRESS", task |-> t])]
    BY <1>7 DEF ConvertTask, FreeTasks
  <2>3. Loaded(req[c].ver, req[c].lesson, [status |-> "IN_PROGRESS", task |-> t]) \in Requests
    BY <2>1, RequestTypes DEF Items, ItemStatuses
  <2> QED BY <1>7, <2>2, <2>3 DEF ConvertTask
<1>8. ASSUME NEW c \in Clients, Reread(c) PROVE TypeOK'
  <2>1. Diff(req[c].ent, item[req[c].ver][req[c].lesson]) \subseteq {"status", "task"}
    BY DEF Diff
  <2>2. \A cols \in SUBSET {"status", "task"} :
          [req[c] EXCEPT !.at = "reread", !.cols = cols] \in Requests
    <3> TAKE cols \in SUBSET {"status", "task"}
    <3>1. req[c] \in Requests /\ req[c].at = "loaded"
      BY <1>8 DEF Reread
    <3> QED BY <3>1 DEF Requests
  <2>3. [req[c] EXCEPT !.at = "reread",
                       !.cols = Diff(req[c].ent, item[req[c].ver][req[c].lesson])] \in Requests
    BY <2>1, <2>2
  <2> QED BY <1>8, <2>3 DEF Reread
<1>9. ASSUME NEW c \in Clients, SaveWrite(c) PROVE TypeOK'
  <2>1. req[c].ver \in Versions /\ req[c].lesson \in Lessons /\ req[c].ent \in Items
    BY <1>9, RequestIds DEF SaveWrite
  <2>2. Written(item[req[c].ver][req[c].lesson], req[c].ent, req[c].cols) \in Items
    BY <2>1 DEF Written, Items
  <2> QED BY <1>9, <2>1, <2>2, RequestTypes DEF SaveWrite
<1>10. ASSUME NEW c \in Clients, Abort(c) PROVE TypeOK'
  BY <1>10, RequestTypes DEF Abort
<1>11. CASE UNCHANGED vars
  BY <1>11 DEF vars
<1> QED
  BY <1>1, <1>2, <1>3, <1>4, <1>5, <1>6, <1>7, <1>8, <1>9, <1>10, <1>11 DEF Next

LEMMA TypeInit == Init => TypeOK
BY RequestTypes DEF Init, TypeOK, RoadmapRows, VersionRows, NoRoadmap, NoVersion

\* Every variable keeps its type, in every instance.
THEOREM TypeCorrect == Spec => []TypeOK
BY TypeInit, TypeStep, PTL DEF Spec

-----------------------------------------------------------------------------
(* What the transactions guarantee, whatever overlaps, fails or crashes.    *)

\* A generation supersedes roadmaps that exist.
OldExists == \A c \in Clients, m \in Roadmaps :
    req[c].at = "generate" /\ m \in req[c].old => roadmap[m].status # "NONE"

CurrentInv == TypeOK /\ OldExists /\ HasCurrentVersion

\* A step that changes no roadmap and no version.
LEMMA CurrentQuiet ==
    ASSUME CurrentInv, TypeOK', UNCHANGED <<roadmap, version>>, NEW c \in Clients, NEW new,
           req' = [req EXCEPT ![c] = new],
           new.at = "generate" => \A m \in new.old : m \in Roadmaps /\ roadmap[m].status # "NONE"
    PROVE  CurrentInv'
<1>1. HasCurrentVersion'
  BY DEF CurrentInv, HasCurrentVersion, CurrentOf
<1>2. OldExists'
  BY DEF CurrentInv, OldExists, TypeOK
<1> QED BY <1>1, <1>2 DEF CurrentInv

\* What one step does, whatever overlaps: it keeps CurrentInv and leaves the
\* superseded roadmaps alone.
LEMMA CurrentStep == CurrentInv /\ [Next]_vars => CurrentInv' /\ SupersededStep
<1> SUFFICES ASSUME CurrentInv, [Next]_vars PROVE CurrentInv' /\ SupersededStep
  OBVIOUS
<1>t. TypeOK /\ TypeOK'
  BY TypeStep DEF CurrentInv
<1> DEFINE Goal == CurrentInv' /\ SupersededStep
<1>q. ASSUME UNCHANGED roadmap PROVE SupersededStep
  BY <1>q DEF SupersededStep
<1>1. ASSUME NEW c \in Clients, GenerateBegin(c) PROVE Goal
  <2> DEFINE new == Generating(ActiveOf(UserOf[c]))
  <2>1. \A m \in new.old : m \in Roadmaps /\ roadmap[m].status # "NONE"
    BY RequestFields DEF ActiveOf
  <2> QED BY <1>1, <1>t, <1>q, <2>1, CurrentQuiet DEF GenerateBegin
<1>2. ASSUME NEW c \in Clients, GenerateCommit(c) PROVE Goal
  <2>1. PICK m \in Roadmaps, v \in Versions :
          /\ roadmap[m] = NoRoadmap /\ version[v] = NoVersion
          /\ roadmap' = [n \in Roadmaps |->
                           IF n = m THEN [status |-> "ACTIVE", user |-> UserOf[c]]
                           ELSE IF n \in req[c].old THEN [roadmap[n] EXCEPT !.status = "SUPERSEDED"]
                           ELSE roadmap[n]]
          /\ version' = [version EXCEPT ![v] = FirstVersion(m)]
          /\ req' = [req EXCEPT ![c] = Idle]
    BY <1>2 DEF GenerateCommit, FreeRoadmaps, FreeVersions
  <2>2. \A n \in Roadmaps :
          /\ n = m => roadmap'[n].status = "ACTIVE"
          /\ n # m /\ n \in req[c].old => roadmap'[n].status = "SUPERSEDED"
          /\ n # m /\ n \notin req[c].old => roadmap'[n] = roadmap[n]
    BY <1>t, <2>1 DEF TypeOK, RoadmapRows
  <2>3. \A n \in Roadmaps : roadmap'[n].status # "NONE" => n = m \/ roadmap[n].status # "NONE"
    BY <1>2, <2>2 DEF CurrentInv, OldExists, GenerateCommit
  <2>4. HasCurrentVersion'
    <3> SUFFICES ASSUME NEW n \in Roadmaps, roadmap'[n].status # "NONE"
                 PROVE  CurrentOf(n)' # {}
      BY DEF HasCurrentVersion
    <3>1. CASE n = m
      BY <1>t, <2>1, <3>1, VersionFields DEF CurrentOf, TypeOK
    <3>2. CASE roadmap[n].status # "NONE"
      <4>1. PICK w \in CurrentOf(n) : TRUE
        BY <3>2 DEF CurrentInv, HasCurrentVersion
      <4>2. w # v
        BY <2>1, <4>1, VersionFields DEF CurrentOf
      <4> QED BY <1>t, <2>1, <4>1, <4>2 DEF CurrentOf, TypeOK
    <3> QED BY <2>3, <3>1, <3>2
  <2>5. OldExists'
    <3>1. \A n \in Roadmaps : roadmap[n].status # "NONE" => roadmap'[n].status # "NONE"
      BY <2>2
    <3>2. \A d \in Clients : req'[d] = IF d = c THEN Idle ELSE req[d]
      BY <1>t, <2>1 DEF TypeOK
    <3> QED BY <3>1, <3>2, RequestFields DEF CurrentInv, OldExists
  <2>6. SupersededStep
    BY <2>1, <2>2 DEF SupersededStep, NoRoadmap
  <2> QED BY <1>t, <2>4, <2>5, <2>6 DEF CurrentInv
<1>3. ASSUME NEW c \in Clients, ReplanRead(c) PROVE Goal
  <2>1. PICK v \in Versions : req' = [req EXCEPT ![c] = Replanning(v, item[v])]
    BY <1>3 DEF ReplanRead, CurrentOf
  <2>2. Replanning(v, item[v]).at # "generate"
    BY RequestFields
  <2> QED BY <1>3, <1>t, <1>q, <2>1, <2>2, CurrentQuiet DEF ReplanRead
<1>4. ASSUME NEW c \in Clients, ReplanCommit(c) PROVE Goal
  <2> DEFINE v == req[c].ver
  <2>1. PICK w \in Versions :
          /\ version[w] = NoVersion
          /\ version' = [version EXCEPT ![v] = PastVersion(@), ![w] = NextVersion(version[v])]
    BY <1>4 DEF ReplanCommit, FreeVersions
  <2>2. UNCHANGED roadmap /\ req' = [req EXCEPT ![c] = Idle] /\ v \in Versions
    BY <1>4, <1>t, RequestIds DEF ReplanCommit
  <2> HIDE DEF v
  <2>3. /\ version'[w] = NextVersion(version[v])
        /\ \A x \in Versions \ {v, w} : version'[x] = version[x]
    BY <1>t, <2>1, <2>2 DEF TypeOK
  <2>4. HasCurrentVersion'
    <3> SUFFICES ASSUME NEW n \in Roadmaps, roadmap[n].status # "NONE"
                 PROVE  CurrentOf(n)' # {}
      BY <2>2 DEF HasCurrentVersion
    <3>1. PICK x \in CurrentOf(n) : TRUE
      BY DEF CurrentInv, HasCurrentVersion
    <3>2. x # w
      BY <2>1, <3>1, VersionFields DEF CurrentOf
    <3>3. CASE x = v
      BY <2>3, <3>1, <3>3, VersionFields DEF CurrentOf
    <3>4. CASE x # v
      BY <2>3, <3>1, <3>2, <3>4 DEF CurrentOf
    <3> QED BY <3>3, <3>4
  <2>5. OldExists'
    BY <1>t, <2>2, RequestFields DEF CurrentInv, OldExists, TypeOK
  <2> QED BY <1>t, <1>q, <2>2, <2>4, <2>5 DEF CurrentInv
<1>5. ASSUME NEW c \in Clients, NEW v \in Versions, NEW l \in Lessons, UpdateLoad(c, v, l)
      PROVE  Goal
  <2>1. PICK ent : req' = [req EXCEPT ![c] = Loaded(v, l, ent)]
    BY <1>5 DEF UpdateLoad
  <2>2. Loaded(v, l, ent).at # "generate"
    BY RequestFields
  <2> QED BY <1>5, <1>t, <1>q, <2>1, <2>2, CurrentQuiet DEF UpdateLoad
<1>6. ASSUME NEW c \in Clients, NEW v \in Versions, NEW l \in Lessons, ConvertLoad(c, v, l)
      PROVE  Goal
  <2>1. Converting(v, l, item[v][l]).at # "generate"
    BY RequestFields
  <2> QED BY <1>6, <1>t, <1>q, <2>1, CurrentQuiet DEF ConvertLoad
<1>7. ASSUME NEW c \in Clients, ConvertTask(c) PROVE Goal
  <2>1. PICK ent : req' = [req EXCEPT ![c] = Loaded(req[c].ver, req[c].lesson, ent)]
    BY <1>7 DEF ConvertTask
  <2>2. Loaded(req[c].ver, req[c].lesson, ent).at # "generate"
    BY RequestFields
  <2> QED BY <1>7, <1>t, <1>q, <2>1, <2>2, CurrentQuiet DEF ConvertTask
<1>8. ASSUME NEW c \in Clients, Reread(c) PROVE Goal
  <2> DEFINE new == [req[c] EXCEPT !.at = "reread",
                                   !.cols = Diff(req[c].ent, item[req[c].ver][req[c].lesson])]
  <2>1. req' = [req EXCEPT ![c] = new] /\ new.at # "generate"
    BY <1>8, <1>t DEF Reread, TypeOK, Requests
  <2> HIDE DEF new
  <2> QED BY <1>8, <1>t, <1>q, <2>1, CurrentQuiet DEF Reread
<1>9. ASSUME NEW c \in Clients, SaveWrite(c) \/ Abort(c) PROVE Goal
  <2>1. UNCHANGED <<roadmap, version>> /\ req' = [req EXCEPT ![c] = Idle]
    BY <1>9 DEF SaveWrite, Abort
  <2>2. Idle.at # "generate"
    BY RequestFields
  <2> QED BY <1>t, <1>q, <2>1, <2>2, CurrentQuiet
<1>10. ASSUME UNCHANGED vars PROVE Goal
  BY <1>10, <1>t, <1>q DEF vars, CurrentInv, OldExists, HasCurrentVersion, CurrentOf
<1> QED
  BY <1>1, <1>2, <1>3, <1>4, <1>5, <1>6, <1>7, <1>8, <1>9, <1>10 DEF Next

LEMMA CurrentInit == Init => CurrentInv
BY TypeInit, RequestFields DEF Init, CurrentInv, OldExists, HasCurrentVersion, NoRoadmap

\* Every stored roadmap has a current version (replanRoadmap 183-186): the old
\* one is closed by the transaction that inserts the new one.
THEOREM CurrentVersionTheorem == Spec => []HasCurrentVersion
<1>1. CurrentInv /\ [Next]_vars => CurrentInv'
  BY CurrentStep
<1>2. CurrentInv => HasCurrentVersion
  BY DEF CurrentInv
<1> QED BY <1>1, <1>2, CurrentInit, PTL DEF Spec

\* A superseded roadmap stays superseded, whatever was read before it was
\* (replanRoadmap 203-226).
THEOREM SupersededTheorem == Spec => SupersededForever
<1>1. CurrentInv /\ [Next]_vars => CurrentInv' /\ SupersededStep
  BY CurrentStep
<1> QED BY <1>1, CurrentInit, PTL DEF Spec, SupersededForever

-----------------------------------------------------------------------------
(* The versions of a roadmap, whatever overlaps.                            *)

\* What is stored refers to rows that exist.
RowsSound ==
    /\ \A v \in Versions : version[v] # NoVersion =>
          version[v].roadmap \in Roadmaps /\ roadmap[version[v].roadmap].status # "NONE"
    /\ \A v, w \in Versions : <<v, w>> \in replanEvent =>
          version[v] # NoVersion /\ version[w] # NoVersion

\* A replanning in flight holds a version that exists, and of the items that were not saved
\* since it read them, what is stored.
PlanRead(c) ==
    req[c].at = "replan" =>
        /\ version[req[c].ver] # NoVersion
        /\ \A l \in Lessons \ missed[c] : req[c].plan[l] = item[req[c].ver][l]

TreeInv ==
    /\ TypeOK /\ RowsSound /\ VersionTree
    /\ \A v \in Versions : version[v] # NoVersion => version[v].number > 0
    /\ \A c \in Clients : PlanRead(c)

\* A step that changes no roadmap, version or event.
LEMMA TreeQuiet ==
    ASSUME TreeInv, TypeOK', UNCHANGED <<roadmap, version, replanEvent>>,
           \A c \in Clients : PlanRead(c)'
    PROVE  TreeInv'
<1>1. RowsSound' /\ VersionTree'
  BY DEF TreeInv, RowsSound, VersionTree
<1> QED BY <1>1 DEF TreeInv

\* A step that changes one request, which is then none that replans.
LEMMA TreeRequest ==
    ASSUME TreeInv, TypeOK', UNCHANGED <<roadmap, version, item, replanEvent>>,
           NEW c \in Clients, NEW new, req' = [req EXCEPT ![c] = new], new.at # "replan",
           \A d \in Clients \ {c} : missed'[d] = missed[d]
    PROVE  TreeInv'
<1>1. ASSUME NEW d \in Clients PROVE PlanRead(d)'
  <2>1. req'[d] = IF d = c THEN new ELSE req[d]
    BY DEF TreeInv, TypeOK
  <2> QED BY <2>1 DEF TreeInv, PlanRead
<1> QED BY <1>1, TreeQuiet

\* The commit of a generation adds the first version of a new roadmap.
LEMMA TreeGenerate ==
    ASSUME TreeInv, TypeOK', CurrentInv, NEW c \in Clients, GenerateCommit(c)
    PROVE  TreeInv'
<1> USE DEF TreeInv
<1>1. PICK m \in Roadmaps, v \in Versions :
        /\ roadmap[m] = NoRoadmap /\ version[v] = NoVersion
        /\ roadmap' = [n \in Roadmaps |->
                         IF n = m THEN [status |-> "ACTIVE", user |-> UserOf[c]]
                         ELSE IF n \in req[c].old THEN [roadmap[n] EXCEPT !.status = "SUPERSEDED"]
                         ELSE roadmap[n]]
        /\ version' = [version EXCEPT ![v] = FirstVersion(m)]
        /\ item' = [item EXCEPT ![v] = NewPlan]
        /\ req' = [req EXCEPT ![c] = Idle] /\ UNCHANGED <<replanEvent, missed>>
  BY DEF GenerateCommit, FreeRoadmaps, FreeVersions
<1>2. /\ \A n \in Roadmaps : roadmap[n].status # "NONE" => roadmap'[n].status # "NONE"
      /\ \A n \in Roadmaps : roadmap'[n].status # "NONE" => n = m \/ roadmap[n].status # "NONE"
      /\ roadmap[m].status = "NONE" /\ roadmap'[m].status # "NONE"
  <2>1. \A n \in Roadmaps :
          /\ n = m => roadmap'[n].status = "ACTIVE"
          /\ n # m /\ n \in req[c].old => roadmap'[n].status = "SUPERSEDED"
          /\ n # m /\ n \notin req[c].old => roadmap'[n] = roadmap[n]
    BY <1>1 DEF TypeOK, RoadmapRows
  <2> QED BY <1>1, <2>1 DEF NoRoadmap, CurrentInv, OldExists, GenerateCommit
<1>3. /\ version'[v] = FirstVersion(m) /\ item'[v] = NewPlan
      /\ \A w \in Versions \ {v} : version'[w] = version[w] /\ item'[w] = item[w]
      /\ FirstVersion(m) # NoVersion
  BY <1>1, VersionFields DEF TypeOK
<1>4. \A w \in Versions : version[w].roadmap # m
  BY <1>1, <1>2, VersionFields DEF RowsSound
<1>5. \A w \in Versions : <<v, w>> \notin replanEvent /\ <<w, v>> \notin replanEvent
  BY <1>1 DEF RowsSound
<1>6. RowsSound'
  BY <1>1, <1>2, <1>3, VersionFields DEF RowsSound
<1>7. ASSUME NEW n \in Roadmaps, roadmap'[n].status # "NONE"
      PROVE  \E x \in Versions : \A y \in Versions :
               version'[y].roadmap = n /\ version'[y].number = 1 <=> y = x
  <2>1. CASE n = m
    BY <1>3, <1>4, <2>1, VersionFields
  <2>2. CASE n # m
    <3>1. PICK x \in Versions : \A y \in Versions :
            version[y].roadmap = n /\ version[y].number = 1 <=> y = x
      BY <1>2, <1>7, <2>2 DEF VersionTree
    <3>2. x # v
      BY <1>1, <3>1, VersionFields
    <3>3. \A y \in Versions : version'[y].roadmap = n /\ version'[y].number = 1 <=> y = x
      BY <1>1, <1>3, <2>2, <3>1, <3>2, VersionFields
    <3> QED BY <3>3
  <2> QED BY <2>1, <2>2
<1>8. ASSUME NEW x \in Versions, NEW y \in Versions, <<x, y>> \in replanEvent
      PROVE  /\ version'[x].roadmap = version'[y].roadmap /\ version'[x] # NoVersion
             /\ version'[y].number = version'[x].number + 1
             /\ \A z \in Versions : <<z, y>> \in replanEvent => z = x
  <2>1. x # v /\ y # v
    BY <1>5, <1>8
  <2> QED BY <1>3, <1>8, <2>1 DEF VersionTree
<1>9. ASSUME NEW x \in Versions
      PROVE  /\ version'[x].number > 1 => \E z \in Versions : <<z, x>> \in replanEvent
             /\ version'[x].current <=>
                  version'[x] # NoVersion /\ \A z \in Versions : <<x, z>> \notin replanEvent
             /\ version'[x] # NoVersion => version'[x].number > 0
  <2>1. CASE x = v
    <3>1. version'[v].number = 1 /\ version'[v].current /\ version'[v] # NoVersion
      BY <1>3, VersionFields
    <3>2. ~(version'[v].number > 1) /\ version'[v].number > 0
      BY <3>1
    <3> QED BY <1>5, <2>1, <3>1, <3>2, Zenon
  <2>2. CASE x # v
    BY <1>3, <2>2 DEF VersionTree
  <2> QED BY <2>1, <2>2
<1>10. VersionTree'
  BY <1>1, <1>7, <1>8, <1>9 DEF VersionTree
<1>11. ASSUME NEW d \in Clients PROVE PlanRead(d)'
  <2>1. req'[d] = IF d = c THEN Idle ELSE req[d]
    BY <1>1 DEF TypeOK
  <2>2. CASE req'[d].at = "replan"
    <3>1. req'[d] = req[d] /\ req[d].at = "replan" /\ version[req[d].ver] # NoVersion
      BY <2>1, <2>2, RequestFields DEF PlanRead
    <3>2. req[d].ver \in Versions \ {v}
      BY <1>1, <3>1, RequestIds
    <3> QED BY <1>1, <1>3, <3>1, <3>2 DEF PlanRead
  <2>3. CASE req'[d].at # "replan"
    BY <2>3 DEF PlanRead
  <2> QED BY <2>2, <2>3
<1> QED BY <1>6, <1>9, <1>10, <1>11

\* The commit of a replanning adds one version below the one that was read, and keeps the
\* completed items that were not saved in between.
LEMMA TreeReplan ==
    ASSUME TreeInv, TypeOK', NEW c \in Clients, ReplanCommit(c)
    PROVE  TreeInv' /\ OnlyMissedReopenStep
<1> USE DEF TreeInv
<1> DEFINE v == req[c].ver
<1>1. PICK w \in Versions :
        /\ version[w] = NoVersion
        /\ version' = [version EXCEPT ![v] = PastVersion(@), ![w] = NextVersion(version[v])]
        /\ item' = [item EXCEPT ![w] = Replanned(req[c].plan)]
        /\ replanEvent' = replanEvent \cup {<<v, w>>}
        /\ req' = [req EXCEPT ![c] = Idle] /\ UNCHANGED roadmap
        /\ missed' = [missed EXCEPT ![c] = {}]
  BY DEF ReplanCommit, FreeVersions
<1>2. /\ req[c].at = "replan" /\ v \in Versions /\ version[v] # NoVersion
      /\ req[c].plan \in [Lessons -> Items]
      /\ \A l \in Lessons \ missed[c] : req[c].plan[l] = item[v][l]
  BY RequestIds DEF ReplanCommit, PlanRead
<1> HIDE DEF v
<1>3. /\ v # w /\ version'[v] = PastVersion(version[v]) /\ version'[w] = NextVersion(version[v])
      /\ item'[w] = Replanned(req[c].plan)
      /\ \A x \in Versions \ {v, w} : version'[x] = version[x]
      /\ \A x \in Versions \ {w} : item'[x] = item[x]
  BY <1>1, <1>2 DEF TypeOK
<1>4. \A x \in Versions : <<w, x>> \notin replanEvent /\ <<x, w>> \notin replanEvent
  BY <1>1 DEF RowsSound
<1>5. \A x \in Versions : version[x].number \in Nat
  BY DEF TypeOK, VersionRows
<1>6. /\ version[v].roadmap \in Roadmaps /\ roadmap[version[v].roadmap].status # "NONE"
      /\ version[v].number > 0 /\ NULL \notin Roadmaps
  BY <1>2 DEF RowsSound
<1>7. /\ PastVersion(version[v]) # NoVersion /\ NextVersion(version[v]) # NoVersion
  BY <1>6, VersionFields
<1>8. RowsSound'
  <2>1. \A x \in Versions : version'[x] # NoVersion =>
          version'[x].roadmap \in Roadmaps /\ roadmap'[version'[x].roadmap].status # "NONE"
    <3> SUFFICES ASSUME NEW x \in Versions, version'[x] # NoVersion
                 PROVE  version'[x].roadmap \in Roadmaps
                        /\ roadmap[version'[x].roadmap].status # "NONE"
      BY <1>1
    <3>1. CASE x = v
      BY <1>3, <1>6, <3>1, VersionFields
    <3>2. CASE x = w
      BY <1>3, <1>6, <3>2, VersionFields
    <3>3. CASE x # v /\ x # w
      BY <1>3, <3>3 DEF RowsSound
    <3> QED BY <3>1, <3>2, <3>3
  <2>2. \A x \in Versions : version[x] # NoVersion => version'[x] # NoVersion
    BY <1>1, <1>3, <1>7
  <2>3. \A x, y \in Versions : <<x, y>> \in replanEvent' =>
          version'[x] # NoVersion /\ version'[y] # NoVersion
    BY <1>1, <1>2, <1>3, <1>7, <2>2 DEF RowsSound
  <2> QED BY <2>1, <2>3 DEF RowsSound
<1>9. \A x \in Versions \ {w} :
        version'[x].roadmap = version[x].roadmap /\ version'[x].number = version[x].number
  BY <1>3, VersionFields
<1>10. version'[w].roadmap = version[v].roadmap /\ version'[w].number = version[v].number + 1
       /\ version'[w].current /\ ~version'[v].current
  BY <1>3, VersionFields
<1>11. ASSUME NEW n \in Roadmaps, roadmap'[n].status # "NONE"
       PROVE  \E x \in Versions : \A y \in Versions :
                version'[y].roadmap = n /\ version'[y].number = 1 <=> y = x
  <2>1. PICK x \in Versions : \A y \in Versions :
          version[y].roadmap = n /\ version[y].number = 1 <=> y = x
    BY <1>1, <1>11 DEF VersionTree
  <2>2. x # w
    BY <1>1, <2>1, VersionFields
  <2>3. version'[w].number # 1
    BY <1>5, <1>6, <1>10, <1>2
  <2>4. \A y \in Versions : version'[y].roadmap = n /\ version'[y].number = 1 <=> y = x
    BY <1>9, <2>1, <2>2, <2>3
  <2> QED BY <2>4
<1>12. ASSUME NEW x \in Versions, NEW y \in Versions, <<x, y>> \in replanEvent'
       PROVE  /\ version'[x].roadmap = version'[y].roadmap /\ version'[x] # NoVersion
              /\ version'[y].number = version'[x].number + 1
              /\ \A z \in Versions : <<z, y>> \in replanEvent' => z = x
  <2>1. CASE <<x, y>> \in replanEvent
    <3>1. x # w /\ y # w
      BY <1>4, <2>1
    <3>2. /\ version[x].roadmap = version[y].roadmap /\ version[x] # NoVersion
          /\ version[y].number = version[x].number + 1
          /\ \A z \in Versions : <<z, y>> \in replanEvent => z = x
      BY <2>1 DEF VersionTree
    <3>3. version'[x] # NoVersion
      BY <1>3, <1>7, <3>1, <3>2
    <3> QED BY <1>1, <1>9, <3>1, <3>2, <3>3
  <2>2. CASE x = v /\ y = w
    BY <1>1, <1>2, <1>3, <1>4, <1>7, <1>9, <1>10, <2>2
  <2> QED BY <1>1, <1>12, <2>1, <2>2
<1>13. ASSUME NEW x \in Versions
       PROVE  /\ version'[x].number > 1 => \E z \in Versions : <<z, x>> \in replanEvent'
              /\ version'[x].current <=>
                   version'[x] # NoVersion /\ \A z \in Versions : <<x, z>> \notin replanEvent'
              /\ version'[x] # NoVersion => version'[x].number > 0
  <2>1. CASE x = w
    <3>1. <<v, w>> \in replanEvent' /\ \A z \in Versions : <<w, z>> \notin replanEvent'
      BY <1>1, <1>2, <1>3, <1>4
    <3>2. version'[w].current /\ version'[w] # NoVersion
      BY <1>3, <1>7, <1>10
    <3>3. version'[w].number > 0
      BY <1>2, <1>5, <1>6, <1>10
    <3> QED BY <1>2, <2>1, <3>1, <3>2, <3>3
  <2>2. CASE x = v
    <3>1. version[v].number > 1 => \E z \in Versions : <<z, v>> \in replanEvent
      BY <1>2 DEF VersionTree
    <3> QED BY <1>1, <1>2, <1>3, <1>6, <1>9, <1>10, <2>2, <3>1
  <2>3. CASE x # w /\ x # v
    <3>1. /\ version[x].number > 1 => \E z \in Versions : <<z, x>> \in replanEvent
          /\ version[x].current <=>
               version[x] # NoVersion /\ \A z \in Versions : <<x, z>> \notin replanEvent
          /\ version[x] # NoVersion => version[x].number > 0
      BY DEF VersionTree
    <3>2. \A z \in Versions : <<x, z>> \in replanEvent' <=> <<x, z>> \in replanEvent
      BY <1>1, <2>3
    <3>3. \A z \in Versions : <<z, x>> \in replanEvent => <<z, x>> \in replanEvent'
      BY <1>1
    <3>4. version'[x] = version[x]
      BY <1>3, <2>3
    <3> QED BY <3>1, <3>2, <3>3, <3>4
  <2> QED BY <2>1, <2>2, <2>3
<1>14. VersionTree'
  BY <1>11, <1>12, <1>13 DEF VersionTree
<1>15. ASSUME NEW d \in Clients PROVE PlanRead(d)'
  <2>1. req'[d] = IF d = c THEN Idle ELSE req[d]
    BY <1>1 DEF TypeOK
  <2>2. CASE req'[d].at = "replan"
    <3>1. req'[d] = req[d] /\ req[d].at = "replan" /\ version[req[d].ver] # NoVersion /\ d # c
      BY <2>1, <2>2, RequestFields DEF PlanRead
    <3>2. req[d].ver \in Versions \ {w}
      BY <1>1, <3>1, RequestIds
    <3>3. version'[req[d].ver] # NoVersion /\ item'[req[d].ver] = item[req[d].ver]
      BY <1>3, <1>7, <3>1, <3>2
    <3>4. missed'[d] = missed[d]
      BY <1>1, <3>1 DEF TypeOK
    <3> QED BY <3>1, <3>3, <3>4 DEF PlanRead
  <2>3. CASE req'[d].at # "replan"
    BY <2>3 DEF PlanRead
  <2> QED BY <2>2, <2>3
<1>16. OnlyMissedReopenStep
  <2> SUFFICES ASSUME NEW d \in Clients, NEW x \in Versions, NEW y \in Versions, NEW l \in Lessons,
                      req'[d] # req[d], l \notin missed[d],
                      <<x, y>> \in replanEvent' \ replanEvent, item[x][l].status = "COMPLETED"
               PROVE  item'[y][l] = item[x][l]
    BY DEF OnlyMissedReopenStep
  <2>1. x = v /\ y = w /\ d = c
    BY <1>1 DEF TypeOK
  <2>2. req[c].plan[l] = item[v][l]
    BY <1>2, <2>1
  <2> QED BY <1>3, <2>1, <2>2 DEF Replanned
<1> QED BY <1>8, <1>13, <1>14, <1>15, <1>16

\* What one step does to the versions, whatever overlaps, fails or crashes.
LEMMA TreeStep == CurrentInv /\ TreeInv /\ [Next]_vars => TreeInv' /\ OnlyMissedReopenStep
<1> SUFFICES ASSUME CurrentInv, TreeInv, [Next]_vars PROVE TreeInv' /\ OnlyMissedReopenStep
  OBVIOUS
<1> DEFINE Goal == TreeInv' /\ OnlyMissedReopenStep
<1>t. TypeOK /\ TypeOK'
  BY TypeStep DEF CurrentInv
<1>e. ASSUME UNCHANGED replanEvent PROVE OnlyMissedReopenStep
  BY <1>e DEF OnlyMissedReopenStep
<1>q. ASSUME UNCHANGED <<roadmap, version, item, replanEvent>>, NEW c \in Clients, NEW new,
             req' = [req EXCEPT ![c] = new], new.at # "replan",
             \A d \in Clients \ {c} : missed'[d] = missed[d]
      PROVE  Goal
  BY <1>q, <1>t, <1>e, TreeRequest
<1>1. ASSUME NEW c \in Clients, GenerateBegin(c) PROVE Goal
  <2>1. Generating(ActiveOf(UserOf[c])).at # "replan"
    BY RequestFields
  <2> QED BY <1>1, <1>q, <2>1 DEF GenerateBegin
<1>2. ASSUME NEW c \in Clients, GenerateCommit(c) PROVE Goal
  BY <1>2, <1>t, <1>e, TreeGenerate DEF GenerateCommit
<1>3. ASSUME NEW c \in Clients, ReplanRead(c) PROVE Goal
  <2>1. PICK v \in Versions : /\ version[v].current
                              /\ req' = [req EXCEPT ![c] = Replanning(v, item[v])]
    BY <1>3 DEF ReplanRead, CurrentOf
  <2>2. UNCHANGED <<roadmap, version, item, replanEvent, missed>>
    BY <1>3 DEF ReplanRead
  <2>3. ASSUME NEW d \in Clients PROVE PlanRead(d)'
    <3>1. CASE d = c
      <4>1. req'[d] = Replanning(v, item[v])
        BY <1>t, <2>1, <3>1 DEF TypeOK
      <4> QED BY <2>1, <2>2, <4>1, RequestFields, VersionFields DEF PlanRead
    <3>2. CASE d # c
      <4>1. req'[d] = req[d]
        BY <1>t, <2>1, <3>2 DEF TypeOK
      <4> QED BY <2>2, <4>1 DEF TreeInv, PlanRead
    <3> QED BY <3>1, <3>2
  <2> QED BY <1>t, <1>e, <2>2, <2>3, TreeQuiet
<1>4. ASSUME NEW c \in Clients, ReplanCommit(c) PROVE Goal
  BY <1>4, <1>t, TreeReplan
<1>5. ASSUME NEW c \in Clients, NEW v \in Versions, NEW l \in Lessons, UpdateLoad(c, v, l)
      PROVE  Goal
  <2>1. PICK ent : req' = [req EXCEPT ![c] = Loaded(v, l, ent)]
    BY <1>5 DEF UpdateLoad
  <2>2. Loaded(v, l, ent).at # "replan"
    BY RequestFields
  <2> QED BY <1>5, <1>q, <2>1, <2>2 DEF UpdateLoad
<1>6. ASSUME NEW c \in Clients, NEW v \in Versions, NEW l \in Lessons, ConvertLoad(c, v, l)
      PROVE  Goal
  <2>1. Converting(v, l, item[v][l]).at # "replan"
    BY RequestFields
  <2> QED BY <1>6, <1>q, <2>1 DEF ConvertLoad
<1>7. ASSUME NEW c \in Clients, ConvertTask(c) PROVE Goal
  <2>1. PICK ent : req' = [req EXCEPT ![c] = Loaded(req[c].ver, req[c].lesson, ent)]
    BY <1>7 DEF ConvertTask
  <2>2. Loaded(req[c].ver, req[c].lesson, ent).at # "replan"
    BY RequestFields
  <2> QED BY <1>7, <1>q, <2>1, <2>2 DEF ConvertTask
<1>8. ASSUME NEW c \in Clients, Reread(c) PROVE Goal
  <2> DEFINE new == [req[c] EXCEPT !.at = "reread",
                                   !.cols = Diff(req[c].ent, item[req[c].ver][req[c].lesson])]
  <2>1. req' = [req EXCEPT ![c] = new] /\ new.at # "replan"
    BY <1>8, <1>t DEF Reread, TypeOK, Requests
  <2> HIDE DEF new
  <2> QED BY <1>8, <1>q, <2>1 DEF Reread
<1>9. ASSUME NEW c \in Clients, SaveWrite(c) PROVE Goal
  <2>1. PICK x, l, ent, cols :
          /\ x \in Versions /\ l \in Lessons
          /\ x = req[c].ver /\ l = req[c].lesson /\ ent = req[c].ent /\ cols = req[c].cols
          /\ item' = [item EXCEPT ![x][l] = Written(@, ent, cols)]
    BY <1>9, <1>t, RequestIds DEF SaveWrite
  <2>a. x \in Versions /\ l \in Lessons
    BY <2>1
  <2>2. /\ UNCHANGED <<roadmap, version, replanEvent>> /\ req' = [req EXCEPT ![c] = Idle]
        /\ \A d \in Clients :
             missed'[d] = IF req[d].at = "replan" /\ req[d].ver = x /\ cols # {}
                            THEN missed[d] \cup {l} ELSE missed[d]
    BY <1>9, <2>1 DEF SaveWrite
  <2>3. \A y \in Versions, k \in Lessons :
          (y = x => k # l \/ cols = {}) => item'[y][k] = item[y][k]
    <3> SUFFICES ASSUME NEW y \in Versions, NEW k \in Lessons, y = x => k # l \/ cols = {}
                 PROVE  item'[y][k] = item[y][k]
      OBVIOUS
    <3>1. CASE y # x
      BY <1>t, <2>a, <2>1, <3>1 DEF TypeOK
    <3>2. CASE y = x /\ k # l
      BY <1>t, <2>a, <2>1, <3>2 DEF TypeOK
    <3>3. CASE y = x /\ k = l /\ cols = {}
      <4>1. item[x][l] \in Items
        BY <1>t, <2>a DEF TypeOK
      <4>2. Written(item[x][l], ent, {}) = item[x][l]
        BY <4>1 DEF Written, Items
      <4>3. item'[x][l] = Written(item[x][l], ent, cols)
        BY <1>t, <2>a, <2>1 DEF TypeOK
      <4> QED BY <3>3, <4>2, <4>3
    <3> QED BY <3>1, <3>2, <3>3
  <2>4. ASSUME NEW d \in Clients PROVE PlanRead(d)'
    <3>1. req'[d] = IF d = c THEN Idle ELSE req[d]
      BY <1>t, <2>2 DEF TypeOK
    <3>2. CASE req'[d].at = "replan"
      <4>1. req'[d] = req[d] /\ req[d].at = "replan" /\ version[req[d].ver] # NoVersion
            /\ \A k \in Lessons \ missed[d] : req[d].plan[k] = item[req[d].ver][k]
        BY <3>1, <3>2, RequestFields DEF TreeInv, PlanRead
      <4>2. req[d].ver \in Versions
        BY <1>t, <4>1, RequestIds
      <4>3. ASSUME NEW k \in Lessons \ missed'[d]
            PROVE  item'[req[d].ver][k] = item[req[d].ver][k] /\ k \notin missed[d]
        BY <2>2, <2>3, <4>1, <4>2
      <4> QED BY <2>2, <4>1, <4>3 DEF PlanRead
    <3>3. CASE req'[d].at # "replan"
      BY <3>3 DEF PlanRead
    <3> QED BY <3>2, <3>3
  <2> QED BY <1>t, <1>e, <2>2, <2>4, TreeQuiet
<1>10. ASSUME NEW c \in Clients, Abort(c) PROVE Goal
  <2>1. Idle.at # "replan"
    BY RequestFields
  <2>2. \A d \in Clients \ {c} : missed'[d] = missed[d]
    BY <1>10, <1>t DEF Abort, TypeOK
  <2> QED BY <1>10, <1>q, <2>1, <2>2 DEF Abort
<1>11. ASSUME UNCHANGED vars PROVE Goal
  <2>1. \A d \in Clients : PlanRead(d)'
    BY <1>11 DEF vars, TreeInv, PlanRead
  <2> QED BY <1>11, <1>t, <1>e, <2>1, TreeQuiet DEF vars
<1> QED
  BY <1>1, <1>2, <1>3, <1>4, <1>5, <1>6, <1>7, <1>8, <1>9, <1>10, <1>11 DEF Next

LEMMA TreeInit == Init => TreeInv
<1> SUFFICES ASSUME Init PROVE TreeInv
  OBVIOUS
<1>1. RowsSound /\ VersionTree
  BY VersionFields DEF Init, RowsSound, VersionTree, NoRoadmap
<1> QED BY <1>1, TypeInit, RequestFields DEF Init, TreeInv, PlanRead

\* However replannings overlap, fail or crash, the versions of each roadmap form a tree of
\* replan events, whose numbers are the depths and whose leaves are the current versions
\* (replanRoadmap 203-226).
THEOREM TreeTheorem == Spec => []VersionTree
<1>1. CurrentInv /\ TreeInv /\ [Next]_vars => CurrentInv' /\ TreeInv'
  BY CurrentStep, TreeStep
<1>2. TreeInv => VersionTree
  BY DEF TreeInv
<1> QED BY <1>1, <1>2, CurrentInit, TreeInit, PTL DEF Spec

\* However they overlap, a replanning only reopens or unlinks a completed item that was
\* saved after it read the plan (replanRoadmap 172-226, replanner 73-89).
THEOREM ReopenTheorem == Spec => OnlyMissedReopen
<1>1. CurrentInv /\ TreeInv /\ [Next]_vars => CurrentInv' /\ TreeInv' /\ OnlyMissedReopenStep
  BY CurrentStep, TreeStep
<1> QED BY <1>1, CurrentInit, TreeInit, PTL DEF Spec, OnlyMissedReopen

-----------------------------------------------------------------------------
(* How many roadmaps of a user may be active, whatever overlaps.            *)

\* Each active roadmap has a device of its own that will supersede it if it is generating
\* now: it is not the one whose generation has not seen it.
Room(u) ==
    \E f \in [ActiveOf(u) -> {c \in Clients : UserOf[c] = u}] :
        /\ \A m, n \in ActiveOf(u) : f[m] = f[n] => m = n
        /\ \A m \in ActiveOf(u) : req[f[m]].at = "generate" => m \in req[f[m]].old

\* A step that activates no roadmap, and whose generations in flight are known ones or have
\* seen every active roadmap.
LEMMA RoomKept ==
    ASSUME NEW u, Room(u), ActiveOf(u)' \subseteq ActiveOf(u),
           \A c \in Clients : UserOf[c] = u /\ req'[c].at = "generate" =>
               req'[c] = req[c] \/ ActiveOf(u) \subseteq req'[c].old
    PROVE  Room(u)'
<1>1. PICK f \in [ActiveOf(u) -> {c \in Clients : UserOf[c] = u}] :
        /\ \A m, n \in ActiveOf(u) : f[m] = f[n] => m = n
        /\ \A m \in ActiveOf(u) : req[f[m]].at = "generate" => m \in req[f[m]].old
  BY DEF Room
<1> DEFINE g == [m \in ActiveOf(u)' |-> f[m]]
<1>2. g \in [ActiveOf(u)' -> {c \in Clients : UserOf[c] = u}]
  BY <1>1
<1>3. \A m, n \in ActiveOf(u)' : g[m] = g[n] => m = n
  BY <1>1
<1>4. \A m \in ActiveOf(u)' : req'[g[m]].at = "generate" => m \in req'[g[m]].old
  BY <1>1
<1> QED BY <1>2, <1>3, <1>4 DEF Room

RoomInv == TypeOK /\ \A u \in Users : Room(u)

LEMMA RoomStep == RoomInv /\ [Next]_vars => RoomInv'
<1> SUFFICES ASSUME RoomInv, [Next]_vars PROVE RoomInv'
  OBVIOUS
<1>t. TypeOK /\ TypeOK'
  BY TypeStep DEF RoomInv
<1>q. ASSUME UNCHANGED roadmap, NEW c \in Clients, NEW new, req' = [req EXCEPT ![c] = new],
             new.at = "generate" => ActiveOf(UserOf[c]) \subseteq new.old
      PROVE  RoomInv'
  <2>1. ASSUME NEW u \in Users PROVE Room(u)'
    <3>1. ActiveOf(u)' \subseteq ActiveOf(u)
      BY <1>q DEF ActiveOf
    <3>2. \A d \in Clients : req'[d] = IF d = c THEN new ELSE req[d]
      BY <1>q, <1>t DEF TypeOK
    <3> QED BY <1>q, <3>1, <3>2, RoomKept DEF RoomInv
  <2> QED BY <1>t, <2>1 DEF RoomInv
<1>1. ASSUME NEW c \in Clients, GenerateBegin(c) PROVE RoomInv'
  <2>1. ActiveOf(UserOf[c]) \subseteq Generating(ActiveOf(UserOf[c])).old
    BY RequestFields
  <2> QED BY <1>1, <1>q, <2>1 DEF GenerateBegin
<1>2. ASSUME NEW c \in Clients, GenerateCommit(c) PROVE RoomInv'
  <2>1. PICK m \in Roadmaps :
          /\ roadmap[m] = NoRoadmap
          /\ roadmap' = [n \in Roadmaps |->
                           IF n = m THEN [status |-> "ACTIVE", user |-> UserOf[c]]
                           ELSE IF n \in req[c].old THEN [roadmap[n] EXCEPT !.status = "SUPERSEDED"]
                           ELSE roadmap[n]]
          /\ req' = [req EXCEPT ![c] = Idle] /\ req[c].at = "generate"
    BY <1>2 DEF GenerateCommit, FreeRoadmaps
  <2>2. \A n \in Roadmaps :
          /\ n = m => roadmap'[n].status = "ACTIVE" /\ roadmap'[n].user = UserOf[c]
          /\ n # m /\ n \in req[c].old => roadmap'[n].status = "SUPERSEDED"
          /\ n # m /\ n \notin req[c].old => roadmap'[n] = roadmap[n]
    BY <1>t, <2>1 DEF TypeOK, RoadmapRows
  <2>3. \A d \in Clients : req'[d] = IF d = c THEN Idle ELSE req[d]
    BY <1>t, <2>1 DEF TypeOK
  <2>4. ASSUME NEW u \in Users, u # UserOf[c] PROVE Room(u)'
    <3>1. ActiveOf(u)' \subseteq ActiveOf(u)
      BY <2>2, <2>4 DEF ActiveOf
    <3> QED BY <2>3, <2>4, <3>1, RoomKept, RequestFields DEF RoomInv
  <2>5. ASSUME NEW u \in Users, u = UserOf[c] PROVE Room(u)'
    <3>1. PICK f \in [ActiveOf(u) -> {d \in Clients : UserOf[d] = u}] :
            /\ \A x, y \in ActiveOf(u) : f[x] = f[y] => x = y
            /\ \A x \in ActiveOf(u) : req[f[x]].at = "generate" => x \in req[f[x]].old
      BY DEF RoomInv, Room
    <3>2. ASSUME NEW x \in ActiveOf(u)', x # m
          PROVE  x \in ActiveOf(u) /\ f[x] # c /\ f[x] \in {d \in Clients : UserOf[d] = u}
      <4>1. x \in ActiveOf(u) /\ x \notin req[c].old
        BY <2>2, <3>2 DEF ActiveOf
      <4> QED BY <2>1, <3>1, <4>1
    <3> DEFINE g == [x \in ActiveOf(u)' |-> IF x = m THEN c ELSE f[x]]
    <3>3. g \in [ActiveOf(u)' -> {d \in Clients : UserOf[d] = u}]
      BY <2>5, <3>2
    <3>4. ASSUME NEW x \in ActiveOf(u)', NEW y \in ActiveOf(u)', g[x] = g[y] PROVE x = y
      BY <3>1, <3>2, <3>4
    <3>5. ASSUME NEW x \in ActiveOf(u)', req'[g[x]].at = "generate" PROVE x \in req'[g[x]].old
      <4>1. x # m
        BY <2>3, <3>5, RequestFields
      <4>2. x \in ActiveOf(u) /\ g[x] = f[x] /\ req'[f[x]] = req[f[x]]
        BY <2>3, <3>2, <4>1
      <4> QED BY <3>1, <3>5, <4>2
    <3> QED BY <3>3, <3>4, <3>5 DEF Room
  <2> QED BY <1>t, <2>4, <2>5 DEF RoomInv
<1>3. ASSUME NEW c \in Clients, ReplanRead(c) PROVE RoomInv'
  <2>1. PICK v \in Versions : req' = [req EXCEPT ![c] = Replanning(v, item[v])]
    BY <1>3 DEF ReplanRead, CurrentOf
  <2>2. Replanning(v, item[v]).at # "generate"
    BY RequestFields
  <2> QED BY <1>3, <1>q, <2>1, <2>2 DEF ReplanRead
<1>4. ASSUME NEW c \in Clients, ReplanCommit(c) \/ SaveWrite(c) \/ Abort(c) PROVE RoomInv'
  <2>1. UNCHANGED roadmap /\ req' = [req EXCEPT ![c] = Idle]
    BY <1>4 DEF ReplanCommit, SaveWrite, Abort
  <2> QED BY <1>q, <2>1, RequestFields
<1>5. ASSUME NEW c \in Clients, NEW v \in Versions, NEW l \in Lessons, UpdateLoad(c, v, l)
      PROVE  RoomInv'
  <2>1. PICK ent : req' = [req EXCEPT ![c] = Loaded(v, l, ent)]
    BY <1>5 DEF UpdateLoad
  <2>2. Loaded(v, l, ent).at # "generate"
    BY RequestFields
  <2> QED BY <1>5, <1>q, <2>1, <2>2 DEF UpdateLoad
<1>6. ASSUME NEW c \in Clients, NEW v \in Versions, NEW l \in Lessons, ConvertLoad(c, v, l)
      PROVE  RoomInv'
  <2>1. Converting(v, l, item[v][l]).at # "generate"
    BY RequestFields
  <2> QED BY <1>6, <1>q, <2>1 DEF ConvertLoad
<1>7. ASSUME NEW c \in Clients, ConvertTask(c) PROVE RoomInv'
  <2>1. PICK ent : req' = [req EXCEPT ![c] = Loaded(req[c].ver, req[c].lesson, ent)]
    BY <1>7 DEF ConvertTask
  <2>2. Loaded(req[c].ver, req[c].lesson, ent).at # "generate"
    BY RequestFields
  <2> QED BY <1>7, <1>q, <2>1, <2>2 DEF ConvertTask
<1>8. ASSUME NEW c \in Clients, Reread(c) PROVE RoomInv'
  <2> DEFINE new == [req[c] EXCEPT !.at = "reread",
                                   !.cols = Diff(req[c].ent, item[req[c].ver][req[c].lesson])]
  <2>1. req' = [req EXCEPT ![c] = new] /\ new.at # "generate"
    BY <1>8, <1>t DEF Reread, TypeOK, Requests
  <2> HIDE DEF new
  <2> QED BY <1>8, <1>q, <2>1 DEF Reread
<1>9. ASSUME UNCHANGED vars PROVE RoomInv'
  <2>1. ASSUME NEW u \in Users PROVE Room(u)'
    <3>1. ActiveOf(u)' \subseteq ActiveOf(u) /\ UNCHANGED req
      BY <1>9 DEF vars, ActiveOf
    <3> QED BY <3>1, RoomKept DEF RoomInv
  <2> QED BY <1>t, <2>1 DEF RoomInv
<1> QED
  BY <1>1, <1>2, <1>3, <1>4, <1>5, <1>6, <1>7, <1>8, <1>9 DEF Next

\* However generations overlap, a user never has more active roadmaps than devices
\* (generateRoadmap 73-78).
THEOREM ActiveTheorem == Spec => []ActiveBounded
<1>1. Init => RoomInv
  <2> SUFFICES ASSUME Init PROVE RoomInv
    OBVIOUS
  <2>1. ASSUME NEW u \in Users PROVE Room(u)
    <3>1. ActiveOf(u) = {}
      BY DEF Init, ActiveOf, NoRoadmap
    <3>2. [m \in {} |-> m] \in [{} -> {c \in Clients : UserOf[c] = u}]
      OBVIOUS
    <3> QED BY <3>1, <3>2 DEF Room
  <2> QED BY <2>1, TypeInit DEF RoomInv
<1>2. RoomInv => ActiveBounded
  <2> SUFFICES ASSUME RoomInv, NEW u \in Users
               PROVE  Cardinality(ActiveOf(u)) <= Cardinality({c \in Clients : UserOf[c] = u})
    BY DEF ActiveBounded
  <2>1. PICK f \in [ActiveOf(u) -> {c \in Clients : UserOf[c] = u}] :
               \A m, n \in ActiveOf(u) : f[m] = f[n] => m = n
    BY DEF RoomInv, Room
  <2>2. f \in Injection(ActiveOf(u), {c \in Clients : UserOf[c] = u})
    BY <2>1 DEF Injection, IsInjective
  <2>3. IsFiniteSet({c \in Clients : UserOf[c] = u})
    <3>1. {c \in Clients : UserOf[c] = u} \in SUBSET Clients
      OBVIOUS
    <3> QED BY <3>1, FS_Subset
  <2> QED BY <2>2, <2>3, FS_Injection
<1> QED BY <1>1, <1>2, RoomStep, PTL DEF Spec

-----------------------------------------------------------------------------
(* One request at a time per user.                                          *)

\* The versions of a roadmap are a line: their numbers differ, the current one is the last,
\* and each later one comes from its predecessor by one replan event.
LinearHistory ==
    \A v, w \in Versions :
        version[v].roadmap = version[w].roadmap /\ version[v].roadmap # NULL =>
            /\ version[v].number = version[w].number => v = w
            /\ version[v].current => version[w].number <= version[v].number
            /\ version[w].number = version[v].number + 1 <=> <<v, w>> \in replanEvent

\* What a request read is still so when it writes.
RequestSound(c) ==
    LET q == req[c]  u == UserOf[c] IN
    /\ q.at = "generate" => q.old = ActiveOf(u)
    /\ q.at = "replan" =>
         /\ \E m \in ActiveOf(u) : q.ver \in CurrentOf(m)
         /\ q.plan = item[q.ver]
         /\ \E l \in Lessons : q.plan[l].status # "COMPLETED"
    /\ q.at \in {"convert", "loaded", "reread"} => Owns(u, q.ver)

DeviceInv ==
    /\ CurrentInv /\ OneActiveRoadmap /\ LinearHistory /\ RowsSound
    /\ \A c \in Clients : RequestSound(c)

\* The plan that is shown is the one of the only current version of the only
\* active roadmap.
LEMMA Shown ==
    ASSUME TypeOK, OneActiveRoadmap, LinearHistory, NEW u \in Users,
           NEW m \in ActiveOf(u), NEW v \in CurrentOf(m)
    PROVE  ShownPlan(u) = item[v] /\ ActiveOf(u) = {m} /\ CurrentOf(m) = {v}
<1>1. ActiveOf(u) = {m}
  BY DEF ActiveOf, OneActiveRoadmap
<1>2. CurrentOf(m) = {v}
  <2>1. \A w \in CurrentOf(m) : /\ w \in Versions /\ v \in Versions
                                /\ version[w].roadmap = version[v].roadmap
                                /\ version[v].roadmap # NULL
                                /\ version[v].current /\ version[w].current
                                /\ version[v].number \in Nat /\ version[w].number \in Nat
    BY DEF CurrentOf, ActiveOf, TypeOK, VersionRows
  <2>2. ASSUME NEW w \in CurrentOf(m) PROVE w = v
    <3>1. version[w].number <= version[v].number /\ version[v].number <= version[w].number
      BY <2>1 DEF LinearHistory
    <3>2. version[w].number = version[v].number
      BY <2>1, <3>1
    <3> QED BY <2>1, <3>2 DEF LinearHistory
  <2> QED BY <2>2
<1>3. (CHOOSE n \in ActiveOf(u) : TRUE) = m
  BY <1>1
<1>4. (CHOOSE w \in CurrentOf(m) : TRUE) = v
  BY <1>2
<1> QED BY <1>1, <1>2, <1>3, <1>4 DEF ShownPlan

\* A step that changes one request and no row.
LEMMA DeviceQuiet ==
    ASSUME OneRequestPerUser, DeviceInv, CurrentInv',
           UNCHANGED <<roadmap, version, item, replanEvent>>,
           NEW c \in Clients, NEW new, req' = [req EXCEPT ![c] = new], RequestSound(c)'
    PROVE  /\ DeviceInv'
           /\ \A u \in Users : ShownPlan(u)' = ShownPlan(u)
<1> USE DEF DeviceInv
<1>1. \A u, m : ActiveOf(u)' = ActiveOf(u) /\ CurrentOf(m)' = CurrentOf(m)
  BY DEF ActiveOf, CurrentOf
<1>2. OneActiveRoadmap' /\ LinearHistory' /\ RowsSound'
  BY DEF OneActiveRoadmap, LinearHistory, RowsSound
<1>3. ASSUME NEW d \in Clients PROVE RequestSound(d)'
  <2>1. CASE d = c
    BY <2>1
  <2>2. CASE d # c
    <3>1. req'[d] = req[d]
      BY <2>2 DEF CurrentInv, TypeOK
    <3> QED BY <1>1, <3>1 DEF RequestSound, Owns
  <2> QED BY <2>1, <2>2
<1>4. \A u \in Users : ShownPlan(u)' = ShownPlan(u)
  BY DEF ShownPlan, ActiveOf, CurrentOf
<1> QED BY <1>2, <1>3, <1>4

\* The step that commits a generation.
LEMMA GenerateStep ==
    ASSUME OneRequestPerUser, DeviceInv, CurrentInv', NEW c \in Clients, GenerateCommit(c)
    PROVE  /\ DeviceInv'
           /\ ShownPlan(UserOf[c])' = NewPlan
           /\ \A u \in Users \ {UserOf[c]} : ShownPlan(u)' = ShownPlan(u)
<1> USE DEF DeviceInv
<1>1. PICK m \in Roadmaps, v \in Versions :
        /\ roadmap[m] = NoRoadmap /\ version[v] = NoVersion
        /\ roadmap' = [n \in Roadmaps |->
                         IF n = m THEN [status |-> "ACTIVE", user |-> UserOf[c]]
                         ELSE IF n \in req[c].old THEN [roadmap[n] EXCEPT !.status = "SUPERSEDED"]
                         ELSE roadmap[n]]
        /\ version' = [version EXCEPT ![v] = FirstVersion(m)]
        /\ item' = [item EXCEPT ![v] = NewPlan]
        /\ req' = [req EXCEPT ![c] = Idle] /\ UNCHANGED replanEvent
        /\ req[c].old = ActiveOf(UserOf[c])
  BY DEF GenerateCommit, FreeRoadmaps, FreeVersions, RequestSound
<1>t. TypeOK /\ TypeOK' /\ UserOf[c] \in Users
  BY DEF CurrentInv
<1>2. \A n \in Roadmaps :
        /\ n = m => roadmap'[n].status = "ACTIVE" /\ roadmap'[n].user = UserOf[c]
        /\ n # m /\ n \in ActiveOf(UserOf[c]) =>
             roadmap'[n].status = "SUPERSEDED" /\ roadmap'[n].user = roadmap[n].user
        /\ n # m /\ n \notin ActiveOf(UserOf[c]) => roadmap'[n] = roadmap[n]
  BY <1>t, <1>1 DEF TypeOK, RoadmapRows
<1>3. m \notin ActiveOf(UserOf[c]) /\ roadmap[m].status = "NONE"
  BY <1>1 DEF ActiveOf, NoRoadmap
<1>4. /\ version'[v] = FirstVersion(m) /\ item'[v] = NewPlan
      /\ \A w \in Versions \ {v} : version'[w] = version[w] /\ item'[w] = item[w]
  BY <1>t, <1>1 DEF TypeOK
<1>5. \A w \in Versions : version[w].roadmap # m
  BY <1>1, <1>3, VersionFields DEF RowsSound
<1>6. /\ CurrentOf(m)' = {v}
      /\ \A n \in Roadmaps \ {m} : CurrentOf(n)' = CurrentOf(n) /\ v \notin CurrentOf(n)
  BY <1>1, <1>4, <1>5, VersionFields DEF CurrentOf
<1>7. /\ ActiveOf(UserOf[c])' = {m}
      /\ \A u \in Users \ {UserOf[c]} : ActiveOf(u)' = ActiveOf(u) /\ m \notin ActiveOf(u)
  <2>1. ActiveOf(UserOf[c])' = {m}
    BY <1>2 DEF ActiveOf
  <2>2. ASSUME NEW u \in Users \ {UserOf[c]} PROVE ActiveOf(u)' = ActiveOf(u) /\ m \notin ActiveOf(u)
    BY <1>2, <1>3 DEF ActiveOf
  <2> QED BY <2>1, <2>2
<1>8. OneActiveRoadmap'
  BY <1>2, <1>3 DEF OneActiveRoadmap, ActiveOf
<1>9. LinearHistory'
  <2> SUFFICES ASSUME NEW x \in Versions, NEW y \in Versions,
                      version'[x].roadmap = version'[y].roadmap, version'[x].roadmap # NULL
               PROVE  /\ version'[x].number = version'[y].number => x = y
                      /\ version'[x].current => version'[y].number <= version'[x].number
                      /\ version'[y].number = version'[x].number + 1 <=> <<x, y>> \in replanEvent'
    BY DEF LinearHistory
  <2>1. CASE x = v \/ y = v
    <3>1. x = v /\ y = v
      BY <1>4, <1>5, <2>1, VersionFields
    <3>2. <<v, v>> \notin replanEvent
      BY <1>1 DEF RowsSound
    <3> QED BY <1>1, <1>4, <3>1, <3>2, VersionFields
  <2>2. CASE x # v /\ y # v
    BY <1>1, <1>4, <2>2 DEF LinearHistory
  <2> QED BY <2>1, <2>2
<1>10. RowsSound'
  <2>1. \A n \in Roadmaps : roadmap[n].status # "NONE" => roadmap'[n].status # "NONE"
    BY <1>2, <1>3
  <2>2. FirstVersion(m) # NoVersion
    BY VersionFields
  <2> QED BY <1>1, <1>2, <1>4, <2>1, <2>2, VersionFields DEF RowsSound
<1>11. ASSUME NEW d \in Clients PROVE RequestSound(d)'
  <2>1. CASE d = c
    <3>1. req'[d] = Idle
      BY <1>1, <1>t, <2>1 DEF TypeOK
    <3> QED BY <3>1, RequestFields DEF RequestSound
  <2>2. CASE d # c
    <3>1. req'[d] = req[d] /\ UserOf[d] \in Users \ {UserOf[c]}
      BY <1>1, <1>t, <2>2 DEF TypeOK, OneRequestPerUser
    <3>2. ActiveOf(UserOf[d])' = ActiveOf(UserOf[d]) /\ m \notin ActiveOf(UserOf[d])
          /\ ActiveOf(UserOf[d]) \subseteq Roadmaps
      BY <3>1, <1>7 DEF ActiveOf
    <3>3. req[d].at = "replan" => \E n \in ActiveOf(UserOf[d])' : req[d].ver \in CurrentOf(n)'
                                  /\ item'[req[d].ver] = item[req[d].ver]
      <4>1. SUFFICES ASSUME req[d].at = "replan"
                     PROVE  \E n \in ActiveOf(UserOf[d])' : req[d].ver \in CurrentOf(n)'
                              /\ item'[req[d].ver] = item[req[d].ver]
        OBVIOUS
      <4>2. PICK n \in ActiveOf(UserOf[d]) : req[d].ver \in CurrentOf(n)
        BY <4>1 DEF RequestSound
      <4>3. n \in Roadmaps \ {m}
        BY <3>2
      <4>4. req[d].ver \in Versions \ {v}
        BY <4>2, <4>3, <1>6 DEF CurrentOf
      <4> QED BY <3>2, <4>2, <4>3, <4>4, <1>4, <1>6
    <3>4. req[d].at \in {"convert", "loaded", "reread"} => Owns(UserOf[d], req[d].ver)'
      <4>1. SUFFICES ASSUME req[d].at \in {"convert", "loaded", "reread"}
                     PROVE  Owns(UserOf[d], req[d].ver)'
        OBVIOUS
      <4>2. Owns(UserOf[d], req[d].ver) /\ req[d].ver \in Versions
        BY <4>1, <1>t, RequestIds DEF RequestSound
      <4>3. version'[req[d].ver] = version[req[d].ver] /\ version[req[d].ver].roadmap \in Roadmaps \ {m}
        BY <4>2, <1>1, <1>4, <1>5 DEF Owns, RowsSound
      <4>4. roadmap'[version[req[d].ver].roadmap].user = roadmap[version[req[d].ver].roadmap].user
        BY <4>3, <1>2
      <4> QED BY <3>1, <4>2, <4>3, <4>4 DEF Owns
    <3> QED BY <3>1, <3>2, <3>3, <3>4 DEF RequestSound
  <2> QED BY <2>1, <2>2
<1>12. ShownPlan(UserOf[c])' = NewPlan
  <2>1. (CHOOSE n \in {m} : TRUE) = m /\ (CHOOSE w \in {v} : TRUE) = v
    OBVIOUS
  <2> QED BY <2>1, <1>4, <1>6, <1>7 DEF ShownPlan
<1>13. ASSUME NEW u \in Users \ {UserOf[c]} PROVE ShownPlan(u)' = ShownPlan(u)
  <2>1. ActiveOf(u)' = ActiveOf(u)
    BY <1>7
  <2>2. CASE ActiveOf(u) = {}
    BY <2>1, <2>2 DEF ShownPlan
  <2>3. CASE ActiveOf(u) # {}
    <3>1. PICK n : n \in ActiveOf(u)
      BY <2>3
    <3>2. n \in Roadmaps \ {m} /\ roadmap[n].status = "ACTIVE"
      BY <3>1, <1>7 DEF ActiveOf
    <3>3. PICK w : w \in CurrentOf(n)
      BY <3>2 DEF CurrentInv, HasCurrentVersion
    <3>4. w \in CurrentOf(n)' /\ w \in Versions \ {v} /\ n \in ActiveOf(u)'
      BY <2>1, <3>1, <3>2, <3>3, <1>6 DEF CurrentOf
    <3>5. ShownPlan(u) = item[w]
      BY <1>t, <3>1, <3>3, Shown
    <3>6. ShownPlan(u)' = item'[w]
      <4>1. ActiveOf(u)' = {n} /\ CurrentOf(n)' = {w}
        BY <1>t, <2>1, <3>1, <3>2, <3>3, <1>6, Shown
      <4>2. (CHOOSE x \in {n} : TRUE) = n /\ (CHOOSE x \in {w} : TRUE) = w
        OBVIOUS
      <4> QED BY <4>1, <4>2 DEF ShownPlan
    <3> QED BY <3>4, <3>5, <3>6, <1>4
  <2> QED BY <2>2, <2>3
<1> QED BY <1>8, <1>9, <1>10, <1>11, <1>12, <1>13
\* The step that commits a replanning.
LEMMA ReplanStep ==
    ASSUME OneRequestPerUser, DeviceInv, CurrentInv', NEW c \in Clients, ReplanCommit(c)
    PROVE  /\ DeviceInv'
           /\ req[c].plan \in [Lessons -> Items]
           /\ \E l \in Lessons : req[c].plan[l].status # "COMPLETED"
           /\ ShownPlan(UserOf[c]) = req[c].plan
           /\ ShownPlan(UserOf[c])' = Replanned(req[c].plan)
           /\ \A u \in Users \ {UserOf[c]} : ShownPlan(u)' = ShownPlan(u)
<1> USE DEF DeviceInv
<1>t. TypeOK /\ TypeOK' /\ UserOf[c] \in Users
  BY DEF CurrentInv
<1>1. PICK v \in Versions, w \in Versions, m \in ActiveOf(UserOf[c]) :
        /\ v = req[c].ver /\ v \in CurrentOf(m) /\ version[w] = NoVersion
        /\ version' = [version EXCEPT ![v] = PastVersion(@), ![w] = NextVersion(version[v])]
        /\ item' = [item EXCEPT ![w] = Replanned(req[c].plan)]
        /\ replanEvent' = replanEvent \cup {<<v, w>>}
        /\ req' = [req EXCEPT ![c] = Idle] /\ UNCHANGED roadmap
        /\ req[c].plan = item[v]
        /\ \E l \in Lessons : req[c].plan[l].status # "COMPLETED"
  <2>1. req[c].at = "replan" /\ req[c].ver \in Versions
    BY <1>t, RequestIds DEF ReplanCommit
  <2>2. PICK m \in ActiveOf(UserOf[c]) : req[c].ver \in CurrentOf(m)
    BY <2>1 DEF RequestSound
  <2> QED BY <2>1, <2>2 DEF ReplanCommit, FreeVersions, RequestSound
<1>2. /\ m \in Roadmaps /\ version[v].roadmap = m /\ version[v].current
      /\ w # v /\ version[w].roadmap = NULL /\ NULL \notin Roadmaps
  BY <1>1, VersionFields DEF ActiveOf, CurrentOf
<1>3. /\ version'[v] = PastVersion(version[v]) /\ version'[w] = NextVersion(version[v])
      /\ item'[w] = Replanned(item[v])
      /\ \A x \in Versions \ {v, w} : version'[x] = version[x]
      /\ \A x \in Versions \ {w} : item'[x] = item[x]
  BY <1>t, <1>1, <1>2 DEF TypeOK
<1>4. ShownPlan(UserOf[c]) = item[v] /\ ActiveOf(UserOf[c]) = {m} /\ CurrentOf(m) = {v}
  BY <1>t, <1>1, Shown
<1>5. /\ CurrentOf(m)' = {w}
      /\ \A n \in Roadmaps \ {m} : CurrentOf(n)' = CurrentOf(n) /\ w \notin CurrentOf(n)
  <2>1. CurrentOf(m)' = {w}
    BY <1>2, <1>3, <1>4, VersionFields DEF CurrentOf
  <2>2. ASSUME NEW n \in Roadmaps \ {m}
        PROVE  CurrentOf(n)' = CurrentOf(n) /\ w \notin CurrentOf(n)
    BY <1>2, <1>3, VersionFields DEF CurrentOf
  <2> QED BY <2>1, <2>2
<1>6. \A u : ActiveOf(u)' = ActiveOf(u)
  BY <1>1 DEF ActiveOf
<1>7. OneActiveRoadmap'
  BY <1>1 DEF OneActiveRoadmap
<1>8. LinearHistory'
  <2> SUFFICES ASSUME NEW x \in Versions, NEW y \in Versions,
                      version'[x].roadmap = version'[y].roadmap, version'[x].roadmap # NULL
               PROVE  /\ version'[x].number = version'[y].number => x = y
                      /\ version'[x].current => version'[y].number <= version'[x].number
                      /\ version'[y].number = version'[x].number + 1 <=> <<x, y>> \in replanEvent'
    BY DEF LinearHistory
  <2>1. \A z \in Versions : version[z].number \in Nat
    BY <1>t DEF TypeOK, VersionRows
  <2>2. \A z \in Versions \ {w} :
          version'[z].roadmap = version[z].roadmap /\ version'[z].number = version[z].number
    BY <1>3, VersionFields
  <2>3. version'[w].roadmap = m /\ version'[w].number = version[v].number + 1
    BY <1>2, <1>3, VersionFields
  <2>4. \A z \in Versions : <<z, w>> \notin replanEvent /\ <<w, z>> \notin replanEvent
    BY <1>1 DEF RowsSound
  <2>5. \A z \in Versions : version[z].roadmap = m =>
          /\ version[z].number <= version[v].number
          /\ version[z].number = version[v].number => z = v
    <3> SUFFICES ASSUME NEW z \in Versions, version[z].roadmap = m
                 PROVE  /\ version[z].number <= version[v].number
                        /\ version[z].number = version[v].number => z = v
      OBVIOUS
    <3>1. version[v].roadmap = version[z].roadmap /\ version[v].roadmap # NULL
      BY <1>2
    <3> QED BY <1>2, <3>1 DEF LinearHistory
  <2>6. CASE x = w /\ y = w
    BY <1>1, <1>2, <2>1, <2>3, <2>4, <2>6
  <2>7. CASE x = w /\ y # w
    <3>1. version[y].number <= version[v].number
      BY <2>2, <2>3, <2>7, <2>5
    <3>2. <<w, y>> \notin replanEvent'
      BY <1>1, <1>2, <2>4
    <3> QED BY <2>1, <2>2, <2>3, <2>7, <3>1, <3>2
  <2>8. CASE x # w /\ y = w
    <3>1. version[x].number <= version[v].number
          /\ (version[x].number = version[v].number => x = v)
      BY <2>2, <2>3, <2>8, <2>5
    <3>2. ~version'[x].current
      BY <1>2, <1>3, <1>4, <2>2, <2>3, <2>8, VersionFields DEF CurrentOf
    <3>3. <<x, w>> \in replanEvent' <=> x = v
      BY <1>1, <2>4
    <3> QED BY <2>1, <2>2, <2>3, <2>8, <3>1, <3>2, <3>3
  <2>9. CASE x # w /\ y # w
    <3>1. <<x, y>> \in replanEvent' <=> <<x, y>> \in replanEvent
      BY <1>1, <2>9
    <3>2. version'[x].current => version[x].current
      BY <1>2, <1>3, <2>9
    <3>3. version[x].roadmap = version[y].roadmap /\ version[x].roadmap # NULL
      BY <2>2, <2>9
    <3>4. /\ version[x].number = version[y].number => x = y
          /\ version[x].current => version[y].number <= version[x].number
          /\ version[y].number = version[x].number + 1 <=> <<x, y>> \in replanEvent
      BY <3>3 DEF LinearHistory
    <3> QED BY <2>2, <2>9, <3>1, <3>2, <3>4
  <2> QED BY <2>6, <2>7, <2>8, <2>9
<1>9. RowsSound'
  <2>1. version'[v] # NoVersion /\ version'[w] # NoVersion
    BY <1>2, <1>3, VersionFields
  <2>2. \A x \in Versions : version[x] # NoVersion => version'[x] # NoVersion
    BY <1>1, <1>2, <1>3, <2>1
  <2>3. roadmap[m].status # "NONE"
    BY <1>1 DEF ActiveOf
  <2>4. \A x \in Versions : version'[x] # NoVersion =>
          version'[x].roadmap \in Roadmaps /\ roadmap[version'[x].roadmap].status # "NONE"
    BY <1>2, <1>3, <2>3, VersionFields DEF RowsSound
  <2>5. \A x, y \in Versions : <<x, y>> \in replanEvent' =>
          version'[x] # NoVersion /\ version'[y] # NoVersion
    BY <1>1, <2>1, <2>2 DEF RowsSound
  <2> QED BY <1>1, <2>4, <2>5 DEF RowsSound
<1>10. ASSUME NEW d \in Clients PROVE RequestSound(d)'
  <2>1. CASE d = c
    <3>1. req'[d] = Idle
      BY <1>1, <1>t, <2>1 DEF TypeOK
    <3> QED BY <3>1, RequestFields DEF RequestSound
  <2>2. CASE d # c
    <3>1. req'[d] = req[d] /\ UserOf[d] \in Users \ {UserOf[c]}
      BY <1>1, <1>t, <2>2 DEF TypeOK, OneRequestPerUser
    <3>2. req[d].at = "replan" => \E n \in ActiveOf(UserOf[d])' : req[d].ver \in CurrentOf(n)'
                                  /\ item'[req[d].ver] = item[req[d].ver]
      <4>1. SUFFICES ASSUME req[d].at = "replan"
                     PROVE  \E n \in ActiveOf(UserOf[d])' : req[d].ver \in CurrentOf(n)'
                              /\ item'[req[d].ver] = item[req[d].ver]
        OBVIOUS
      <4>2. PICK n \in ActiveOf(UserOf[d]) : req[d].ver \in CurrentOf(n)
        BY <4>1 DEF RequestSound
      <4>3. n \in Roadmaps \ {m}
        BY <3>1, <4>2, <1>1 DEF ActiveOf
      <4>4. req[d].ver \in Versions \ {w}
        BY <4>2, <4>3, <1>5 DEF CurrentOf
      <4> QED BY <1>3, <1>5, <1>6, <4>2, <4>3, <4>4
    <3>3. req[d].at \in {"convert", "loaded", "reread"} => Owns(UserOf[d], req[d].ver)'
      <4>1. SUFFICES ASSUME req[d].at \in {"convert", "loaded", "reread"}
                     PROVE  Owns(UserOf[d], req[d].ver)'
        OBVIOUS
      <4>2. Owns(UserOf[d], req[d].ver) /\ req[d].ver \in Versions
        BY <4>1, <1>t, RequestIds DEF RequestSound
      <4>3. req[d].ver \in Versions \ {v, w}
        BY <3>1, <4>2, <1>1, <1>2 DEF Owns, ActiveOf
      <4> QED BY <1>1, <1>3, <3>1, <4>2, <4>3 DEF Owns
    <3> QED BY <1>6, <3>1, <3>2, <3>3 DEF RequestSound
  <2> QED BY <2>1, <2>2
<1>11. ShownPlan(UserOf[c])' = Replanned(item[v])
  <2>1. (CHOOSE n \in {m} : TRUE) = m /\ (CHOOSE x \in {w} : TRUE) = w
    OBVIOUS
  <2> QED BY <2>1, <1>3, <1>4, <1>5, <1>6 DEF ShownPlan
<1>12. ASSUME NEW u \in Users \ {UserOf[c]} PROVE ShownPlan(u)' = ShownPlan(u)
  <2>1. CASE ActiveOf(u) = {}
    BY <1>6, <2>1 DEF ShownPlan
  <2>2. CASE ActiveOf(u) # {}
    <3>1. PICK n : n \in ActiveOf(u)
      BY <2>2
    <3>2. n \in Roadmaps \ {m} /\ roadmap[n].status = "ACTIVE"
      BY <3>1, <1>1 DEF ActiveOf
    <3>3. PICK x : x \in CurrentOf(n)
      BY <3>2 DEF CurrentInv, HasCurrentVersion
    <3>4. x \in Versions \ {w} /\ CurrentOf(n)' = CurrentOf(n)
      BY <3>2, <3>3, <1>5 DEF CurrentOf
    <3>5. ShownPlan(u) = item[x] /\ ActiveOf(u) = {n} /\ CurrentOf(n) = {x}
      BY <1>t, <3>1, <3>3, Shown
    <3>6. ShownPlan(u)' = item'[x]
      <4>1. (CHOOSE y \in {n} : TRUE) = n /\ (CHOOSE y \in {x} : TRUE) = x
        OBVIOUS
      <4>2. ActiveOf(u)' = {n} /\ CurrentOf(n)' = {x}
        BY <1>6, <3>4, <3>5
      <4> QED BY <4>1, <4>2 DEF ShownPlan
    <3> QED BY <3>4, <3>5, <3>6, <1>3
  <2> QED BY <2>1, <2>2
<1> QED
  BY <1>1, <1>t, <1>4, <1>7, <1>8, <1>9, <1>10, <1>11, <1>12 DEF TypeOK

\* The step that writes an item.
LEMMA ItemStep ==
    ASSUME OneRequestPerUser, DeviceInv, CurrentInv', NEW c \in Clients, SaveWrite(c)
    PROVE  /\ DeviceInv'
           /\ \/ ShownPlan(UserOf[c])' = ShownPlan(UserOf[c])
              \/ /\ \E v \in Versions : ShownPlan(UserOf[c]) = item[v]
                 /\ \E l \in Lessons, ent \in Items :
                      ShownPlan(UserOf[c])' = [ShownPlan(UserOf[c]) EXCEPT ![l] = ent]
           /\ \A u \in Users \ {UserOf[c]} : ShownPlan(u)' = ShownPlan(u)
<1> USE DEF DeviceInv
<1>t. TypeOK /\ TypeOK' /\ UserOf[c] \in Users
  BY DEF CurrentInv
<1>1. PICK v \in Versions, l \in Lessons, ent \in Items :
        /\ item' = [item EXCEPT ![v][l] = ent]
        /\ req' = [req EXCEPT ![c] = Idle] /\ Owns(UserOf[c], v)
  <2>1. /\ req[c].at = "reread" /\ req[c].ver \in Versions /\ req[c].lesson \in Lessons
        /\ req[c].ent \in Items
    BY <1>t, RequestIds DEF SaveWrite
  <2>2. Written(item[req[c].ver][req[c].lesson], req[c].ent, req[c].cols) \in Items
    BY <1>t, <2>1 DEF Written, Items, TypeOK
  <2> QED BY <2>1, <2>2 DEF SaveWrite, RequestSound
<1>u. UNCHANGED <<roadmap, version, replanEvent>>
  BY DEF SaveWrite
<1>2. /\ item'[v] = [item[v] EXCEPT ![l] = ent]
      /\ \A w \in Versions \ {v} : item'[w] = item[w]
  BY <1>t, <1>1 DEF TypeOK
<1>3. \A u : ActiveOf(u)' = ActiveOf(u)
  BY <1>u DEF ActiveOf
<1>4. \A m : CurrentOf(m)' = CurrentOf(m)
  BY <1>u DEF CurrentOf
<1>5. OneActiveRoadmap' /\ LinearHistory' /\ RowsSound'
  BY <1>u DEF OneActiveRoadmap, LinearHistory, RowsSound
<1>6. \A u, m : m \in ActiveOf(u) /\ v \in CurrentOf(m) => u = UserOf[c]
  BY <1>1 DEF ActiveOf, CurrentOf, Owns
<1>7. ASSUME NEW d \in Clients PROVE RequestSound(d)'
  <2>1. CASE d = c
    <3>1. req'[d] = Idle
      BY <1>1, <1>t, <2>1 DEF TypeOK
    <3> QED BY <3>1, RequestFields DEF RequestSound
  <2>2. CASE d # c
    <3>1. req'[d] = req[d] /\ UserOf[d] # UserOf[c]
      BY <1>1, <1>t, <2>2 DEF TypeOK, OneRequestPerUser
    <3>2. req[d].at = "replan" => item'[req[d].ver] = item[req[d].ver]
      BY <1>2, <1>6, <3>1 DEF RequestSound, CurrentOf
    <3>3. \A u, x : Owns(u, x)' <=> Owns(u, x)
      BY <1>u DEF Owns
    <3> QED BY <1>3, <1>4, <3>1, <3>2, <3>3 DEF RequestSound
  <2> QED BY <2>1, <2>2
<1>8. ASSUME NEW u \in Users
      PROVE  \/ ShownPlan(u)' = ShownPlan(u)
             \/ u = UserOf[c] /\ ShownPlan(u) = item[v] /\ ShownPlan(u)' = item'[v]
  <2>1. CASE ActiveOf(u) = {}
    BY <1>3, <2>1 DEF ShownPlan
  <2>2. CASE ActiveOf(u) # {}
    <3>1. PICK n : n \in ActiveOf(u)
      BY <2>2
    <3>2. PICK x : x \in CurrentOf(n)
      BY <3>1 DEF CurrentInv, HasCurrentVersion, ActiveOf
    <3>3. ShownPlan(u) = item[x] /\ ActiveOf(u) = {n} /\ CurrentOf(n) = {x}
      BY <1>t, <3>1, <3>2, Shown
    <3>4. ShownPlan(u)' = item'[x]
      <4>1. (CHOOSE y \in {n} : TRUE) = n /\ (CHOOSE y \in {x} : TRUE) = x
        OBVIOUS
      <4>2. ActiveOf(u)' = {n} /\ CurrentOf(n)' = {x}
        BY <1>3, <1>4, <3>3
      <4> QED BY <4>1, <4>2 DEF ShownPlan
    <3> QED BY <1>2, <1>6, <3>1, <3>2, <3>3, <3>4 DEF CurrentOf
  <2> QED BY <2>1, <2>2
<1> QED
  BY <1>1, <1>2, <1>5, <1>7, <1>8, <1>t

LEMMA DeviceInit == Init => DeviceInv
<1> SUFFICES ASSUME Init PROVE DeviceInv
  OBVIOUS
<1>1. OneActiveRoadmap /\ LinearHistory /\ RowsSound
  BY VersionFields DEF Init, OneActiveRoadmap, LinearHistory, RowsSound, NoRoadmap
<1>2. \A c \in Clients : RequestSound(c)
  BY RequestFields DEF Init, RequestSound
<1> QED BY <1>1, <1>2, CurrentInit DEF DeviceInv

\* What a step does to the plans that are shown.
PlanStep ==
    \/ \A u \in Users : ShownPlan(u)' = ShownPlan(u)
    \/ \E u \in Users :
         /\ \A x \in Users \ {u} : ShownPlan(x)' = ShownPlan(x)
         /\ \/ ShownPlan(u)' = NewPlan
            \/ /\ ShownPlan(u) \in [Lessons -> Items]
               /\ \/ /\ \E l \in Lessons : ShownPlan(u)[l].status # "COMPLETED"
                     /\ ShownPlan(u)' = Replanned(ShownPlan(u))
                  \/ \E l \in Lessons, ent \in Items :
                       ShownPlan(u)' = [ShownPlan(u) EXCEPT ![l] = ent]

\* Every step, when requests of a user do not overlap.
LEMMA DeviceStep ==
    OneRequestPerUser /\ DeviceInv /\ [Next]_vars => DeviceInv' /\ PlanStep
<1> SUFFICES ASSUME OneRequestPerUser, DeviceInv, [Next]_vars
             PROVE  DeviceInv' /\ PlanStep
  OBVIOUS
<1> DEFINE Goal == DeviceInv' /\ PlanStep
<1>t. CurrentInv /\ TypeOK /\ CurrentInv'
  BY CurrentStep DEF DeviceInv, CurrentInv
<1>q. ASSUME UNCHANGED <<roadmap, version, item, replanEvent>>,
             NEW c \in Clients, NEW new, req' = [req EXCEPT ![c] = new], RequestSound(c)'
      PROVE  Goal
  BY <1>q, <1>t, DeviceQuiet DEF PlanStep
<1>w. \A u, v : UNCHANGED <<roadmap, version>> => (Owns(u, v)' <=> Owns(u, v))
  BY DEF Owns
<1>r. \A c \in Clients : RequestSound(c)
  BY DEF DeviceInv
<1>1. ASSUME NEW c \in Clients, GenerateBegin(c) PROVE Goal
  <2>1. req'[c] = Generating(ActiveOf(UserOf[c])) /\ UNCHANGED roadmap
    BY <1>1, <1>t DEF GenerateBegin, TypeOK
  <2>2. RequestSound(c)'
    BY <2>1, RequestFields DEF RequestSound, ActiveOf
  <2> QED BY <1>1, <1>q, <2>2 DEF GenerateBegin
<1>2. ASSUME NEW c \in Clients, GenerateCommit(c) PROVE Goal
  BY <1>2, <1>t, GenerateStep DEF PlanStep
<1>3. ASSUME NEW c \in Clients, ReplanRead(c) PROVE Goal
  <2>1. PICK m \in ActiveOf(UserOf[c]), v \in Versions :
          /\ v \in CurrentOf(m)
          /\ \E l \in Lessons : item[v][l].status # "COMPLETED"
          /\ req' = [req EXCEPT ![c] = Replanning(v, item[v])]
    BY <1>3 DEF ReplanRead, CurrentOf
  <2>2. UNCHANGED <<roadmap, version, item, replanEvent>>
    BY <1>3 DEF ReplanRead
  <2>3. req'[c] = Replanning(v, item[v])
    BY <1>t, <2>1 DEF TypeOK
  <2>4. m \in ActiveOf(UserOf[c])' /\ v \in CurrentOf(m)'
    BY <2>1, <2>2 DEF ActiveOf, CurrentOf
  <2>5. RequestSound(c)'
    BY <2>1, <2>2, <2>3, <2>4, RequestFields DEF RequestSound
  <2> QED BY <1>q, <2>1, <2>2, <2>5
<1>4. ASSUME NEW c \in Clients, ReplanCommit(c) PROVE Goal
  BY <1>4, <1>t, ReplanStep DEF PlanStep
<1>5. ASSUME NEW c \in Clients, NEW v \in Versions, NEW l \in Lessons, UpdateLoad(c, v, l)
      PROVE  Goal
  <2>1. PICK ent : req' = [req EXCEPT ![c] = Loaded(v, l, ent)]
    BY <1>5 DEF UpdateLoad
  <2>2. /\ UNCHANGED <<roadmap, version, item, replanEvent>> /\ Owns(UserOf[c], v)
        /\ req'[c] = Loaded(v, l, ent)
    BY <1>5, <1>t, <2>1 DEF UpdateLoad, TypeOK
  <2>3. RequestSound(c)'
    BY <1>w, <2>2, RequestFields DEF RequestSound
  <2> QED BY <1>q, <2>1, <2>2, <2>3
<1>6. ASSUME NEW c \in Clients, NEW v \in Versions, NEW l \in Lessons, ConvertLoad(c, v, l)
      PROVE  Goal
  <2>1. /\ UNCHANGED <<roadmap, version, item, replanEvent>> /\ Owns(UserOf[c], v)
        /\ req' = [req EXCEPT ![c] = Converting(v, l, item[v][l])]
        /\ req'[c] = Converting(v, l, item[v][l])
    BY <1>6, <1>t DEF ConvertLoad, TypeOK
  <2>2. RequestSound(c)'
    BY <1>w, <2>1, RequestFields DEF RequestSound
  <2> QED BY <1>q, <2>1, <2>2
<1>7. ASSUME NEW c \in Clients, ConvertTask(c) PROVE Goal
  <2>1. PICK ent : req' = [req EXCEPT ![c] = Loaded(req[c].ver, req[c].lesson, ent)]
    BY <1>7 DEF ConvertTask
  <2>2. /\ UNCHANGED <<roadmap, version, item, replanEvent>> /\ Owns(UserOf[c], req[c].ver)
        /\ req'[c] = Loaded(req[c].ver, req[c].lesson, ent)
    BY <1>7, <1>r, <1>t, <2>1 DEF ConvertTask, TypeOK, RequestSound
  <2>3. RequestSound(c)'
    BY <1>w, <2>2, RequestFields DEF RequestSound
  <2> QED BY <1>q, <2>1, <2>2, <2>3
<1>8. ASSUME NEW c \in Clients, Reread(c) PROVE Goal
  <2> DEFINE new == [req[c] EXCEPT !.at = "reread",
                                   !.cols = Diff(req[c].ent, item[req[c].ver][req[c].lesson])]
  <2>1. req' = [req EXCEPT ![c] = new] /\ new.at = "reread" /\ new.ver = req[c].ver
        /\ req[c].at = "loaded"
    BY <1>8, <1>t DEF Reread, TypeOK, Requests
  <2> HIDE DEF new
  <2>2. /\ UNCHANGED <<roadmap, version, item, replanEvent>> /\ Owns(UserOf[c], req[c].ver)
        /\ req'[c] = new
    BY <1>8, <1>r, <1>t, <2>1 DEF Reread, TypeOK, RequestSound
  <2>3. RequestSound(c)'
    BY <1>w, <2>1, <2>2 DEF RequestSound
  <2> QED BY <1>q, <2>1, <2>2, <2>3
<1>9. ASSUME NEW c \in Clients, SaveWrite(c) PROVE Goal
  <2>1. \A v \in Versions : item[v] \in [Lessons -> Items]
    BY <1>t DEF TypeOK
  <2> QED BY <1>9, <1>t, <2>1, ItemStep DEF PlanStep
<1>10. ASSUME NEW c \in Clients, Abort(c) PROVE Goal
  <2>1. /\ UNCHANGED <<roadmap, version, item, replanEvent>> /\ req' = [req EXCEPT ![c] = Idle]
        /\ req'[c] = Idle
    BY <1>10, <1>t DEF Abort, TypeOK
  <2>2. RequestSound(c)'
    BY <2>1, RequestFields DEF RequestSound
  <2> QED BY <1>q, <2>1, <2>2
<1>11. ASSUME UNCHANGED vars PROVE Goal
  <2>1. PlanStep
    BY <1>11 DEF vars, PlanStep, ShownPlan, ActiveOf, CurrentOf
  <2>2. OneActiveRoadmap' /\ LinearHistory' /\ RowsSound'
    BY <1>11 DEF vars, DeviceInv, OneActiveRoadmap, LinearHistory, RowsSound
  <2>3. \A c \in Clients : RequestSound(c)'
    BY <1>11, <1>r DEF vars, RequestSound, ActiveOf, CurrentOf, Owns
  <2> QED BY <1>t, <2>1, <2>2, <2>3 DEF DeviceInv
<1> QED
  BY <1>1, <1>2, <1>3, <1>4, <1>5, <1>6, <1>7, <1>8, <1>9, <1>10, <1>11 DEF Next

\* The plan of a user, as getCurrentRoadmap shows it, is the StudyPlan.
THEOREM PlanTheorem == ASSUME OneRequestPerUser PROVE Spec => ImplementsPlan
<1>1. Init => Plan!Init
  BY DEF Init, Plan!Init, ShownPlan, ActiveOf, NoRoadmap
<1>2. PlanStep => [Plan!Next]_[u \in Users |-> ShownPlan(u)]
  <2> SUFFICES ASSUME PlanStep PROVE [Plan!Next]_[u \in Users |-> ShownPlan(u)]
    OBVIOUS
  <2> DEFINE plan == [u \in Users |-> ShownPlan(u)]
  <2>1. CASE \A u \in Users : ShownPlan(u)' = ShownPlan(u)
    BY <2>1
  <2>2. CASE ~\A u \in Users : ShownPlan(u)' = ShownPlan(u)
    <3>1. PICK u \in Users :
            /\ \A x \in Users \ {u} : ShownPlan(x)' = ShownPlan(x)
            /\ \/ ShownPlan(u)' = NewPlan
               \/ /\ ShownPlan(u) \in [Lessons -> Items]
                  /\ \/ /\ \E l \in Lessons : ShownPlan(u)[l].status # "COMPLETED"
                        /\ ShownPlan(u)' = Replanned(ShownPlan(u))
                     \/ \E l \in Lessons, ent \in Items :
                          ShownPlan(u)' = [ShownPlan(u) EXCEPT ![l] = ent]
      BY <2>2 DEF PlanStep
    <3>2. plan' = [plan EXCEPT ![u] = ShownPlan(u)']
      BY <3>1
    <3>3. CASE ShownPlan(u)' = NewPlan
      <4>1. Plan!Generate(u)
        BY <3>2, <3>3 DEF Plan!Generate, Plan!Fresh, NewPlan, NewItem
      <4> QED BY <4>1 DEF Plan!Next
    <3>4. CASE /\ ShownPlan(u) \in [Lessons -> Items]
               /\ \E l \in Lessons : ShownPlan(u)[l].status # "COMPLETED"
               /\ ShownPlan(u)' = Replanned(ShownPlan(u))
      <4>1. plan[u] # NULL
        BY <3>4, NullAssumption
      <4>2. Plan!Replan(u)
        BY <3>2, <3>4, <4>1 DEF Plan!Replan, Plan!Fresh, Replanned, NewItem
      <4> QED BY <4>2 DEF Plan!Next
    <3>5. CASE /\ ShownPlan(u) \in [Lessons -> Items]
               /\ \E l \in Lessons, ent \in Items :
                    ShownPlan(u)' = [ShownPlan(u) EXCEPT ![l] = ent]
      <4>1. plan[u] # NULL
        BY <3>5, NullAssumption
      <4>2. PICK l \in Lessons, s \in ItemStatuses, t \in Tasks \cup {NULL} :
              ShownPlan(u)' = [ShownPlan(u) EXCEPT ![l] = [status |-> s, task |-> t]]
        <5>1. PICK l \in Lessons, ent \in Items :
                ShownPlan(u)' = [ShownPlan(u) EXCEPT ![l] = ent]
          BY <3>5
        <5>2. PICK s \in ItemStatuses, t \in Tasks \cup {NULL} :
                ent = [status |-> s, task |-> t]
          BY DEF Items
        <5> QED BY <5>1, <5>2
      <4>3. Plan!Mark(u, l, s, t)
        BY <3>2, <4>1, <4>2 DEF Plan!Mark
      <4> QED BY <4>3 DEF Plan!Next
    <3> QED BY <3>1, <3>3, <3>4, <3>5
  <2> QED BY <2>1, <2>2
<1>3. DeviceInv /\ [Next]_vars => DeviceInv' /\ [Plan!Next]_[u \in Users |-> ShownPlan(u)]
  BY <1>2, DeviceStep
<1> QED BY <1>1, <1>3, DeviceInit, PTL DEF Spec, ImplementsPlan, Plan!Spec
=============================================================================
