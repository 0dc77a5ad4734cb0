# TLA+ models of the study-app backend

This directory holds TLA+ specifications of the NestJS/TypeORM backend in `src/`, the TLC
configurations that check them on small instances, and TLAPS proofs of the theorems that
hold for every instance. File references are relative to `src/src/` unless they start with
another directory.

## 1. The system

The backend is a REST API over PostgreSQL. Each HTTP request is served by an asynchronous
handler; `await` is the only place where another handler may run, and almost every handler
awaits the database several times. There is no lock, no optimistic version column and no
`SERIALIZABLE` transaction anywhere; only the roadmap generator and replanner open a
transaction, at the default level (READ COMMITTED). What makes concurrent requests safe, where
anything does, is a UNIQUE constraint or the atomicity of one SQL statement.

`repository.save(entity)` deserves a paragraph of its own, because most hazards come from it.
For an entity that was loaded before, TypeORM reads the row again, compares *all the loaded
columns* with it and updates the ones that differ. A column the handler never touched, but
which somebody else changed in the meantime, is written back to the value the handler loaded.
The same is done to one-to-one and many-to-many relations that were loaded. If the row is gone,
`save` inserts it again. `repository.update(id, columns)`, in contrast, writes the named columns only.

### Inventory

| component | state it keeps | operations that change it | interacts with | hard behaviours | what must be true |
|---|---|---|---|---|---|
| study-sessions | `study_session`, `study_result` | start, finish, cancel, record | tasks (findOne, save), accountability (verifySession writes its rows) | check-then-insert, stale saves, retries with an idempotency key, one-to-one result | one active session; a closed session stays closed; a stored result stays with its session |
| accountability: grants | `access_grant` | createInvite, acceptInvite, getReceivedAccessList (claims), revokeGrant | users, tasks, sessions, evidence, public reports | invite/accept/revoke overlap, expiry, PARTNER reciprocity | a grant goes to whom it was addressed and who agreed; what is revoked stays so; a partnership is mutual |
| accountability: share tokens | `share_token` | createShareToken, revokeShareToken | sessions, tasks (getPublicReport) | a link revoked or expired between the check and the reads of a report | a revoked or expired link answers nobody who asks afterwards |
| accountability: groups | `accountability_group`, `group_member` | createGroup, joinGroup, leaveGroup | sessions, tasks (getGroupLeaderboard) | two joins, a group stored before its first member, members that leave during a leaderboard | membership unique; the creator is the ADMIN; the leaderboard is in a fair order |
| users | `user`, `user_students`, `connection_request` | create, update, switchRole, assignStudent, createRequest, respondToRequest, refreshMentorCode, removeStudent, remove | auth, all | multi-step updates without a transaction, whole-entity saves of a user with its many-to-many set | an accepted request is a connection; a deleted user leaves nothing behind |
| auth | `hashed_refresh_token`, `token_version` (columns of `user`) | login, refreshTokens, logout, register; JWT validation | users | rotation of refresh tokens against stale saves of the user | after a logout no older token is accepted |
| roadmap | `roadmap`, `roadmap_version`, `roadmap_item`, `replan_event`, `task` | generateRoadmap, replanRoadmap, updateRoadmapItem, convertItemToTask | study-profile, exam-packs, tasks | READ COMMITTED transactions that overlap, reads outside the transaction | one active roadmap, one current version; completed work survives a replan |
| roadmap generator, replanner | none (pure) | generateRoadmapPlan, replanCurrentRoadmap | roadmap | rounding, week boundaries, empty inputs | every topic is planned, within the weeks, in order |
| study-profile | `study_profile`, `diagnostic_result` | getProfile (creates), createOrUpdateProfile, updateProfile, addDiagnosticResult | roadmap | create-on-read race, a relation that is loaded with the row | one profile per user, with what was last stored |
| tasks | `task` | create, update, remove | grants and connections (who may read or assign) | permission read before the write | only the owner, or a connected mentor who assigned it, sees a task |
| evidence | `evidence` | create, update, remove | tasks, connections, files | permission read before the write | a mentor sees only evidence of connected students |
| exam-packs | `country` ... `topic` reference tables | seeding at start-up | study-profile, roadmap | crash in the middle of a seed, two instances that start together, requests answered meanwhile | every instance answers in the end; a pack that was not cut off is whole |
| files | upload directory | upload | evidence | none (one request, one file) | contents match the declared type |
| common, main, app.module, db, migrations, scripts | none of their own | set-up | all | none | - |

### Which parts carry the difficulty

Sessions, grants, accounts, permissions, profiles, groups and roadmaps are state machines whose operations
overlap; they are modelled as such. The seeding is a process that may die and is started again. The generator,
the replanner, the progress report and the leaderboard are algorithms: they are operators, checked against a
definition of what their results must be. Upload validation, serialization, filters, DTO validation and
Swagger set-up are I/O and are not modelled.

## 2. Plan

The most important behaviour, rows that overlapping requests write, comes first. Every module
takes its users, clients and ids as CONSTANTS with a named assumption, has one action per step of
a handler, and declares no RECURSIVE operator, so that it can be proved about as it is.

| | modules | abstract specification | theorems | status |
|---|---|---|---|---|
| 1 | `StudySessions` | `SessionLifecycle`: a session is started, then finished or cancelled, once | types; verdicts are authorised, no more active sessions than clients, a closed session is reopened only by what held it before (any overlap); life cycle, rows consistent (until requests about a user overlap); retries keep rows, results and answers | modelled, checked, proved |
| 2 | `RoadmapService` | `StudyPlan`: the plan a user is shown | types; a current version always exists, versions form a tree, a replan loses only what it could not see, no more active roadmaps than devices, superseded for ever (any overlap); plan (one request per user) | modelled, checked, proved |
| 3 | `AccessGrants` | `GrantLifecycle`: invited, accepted once, ended | types; designated grantee, agreed by both sides, revived only by what was loaded before (any overlap); mutual partnership, life cycle (until requests about a grant overlap) | modelled, checked, proved |
| 4 | `Accounts`: sessions of a user, roles, mentor connections, deletion | | types; connections come from approvals (any overlap), and approvals make them; revoked sessions end; accounts go forward (serial) | modelled, checked, proved |
| 5 | `RoadmapPlan` on `ExamPackData`: generator and replanner | what a plan must be, as properties: everything once, in phases, in time | types; whole curriculum, phases, weeks and days kept to, completed items kept | modelled, checked, proved |
| 6 | `Permissions`: tasks, evidence and `assignTaskToStudent`, while connections and grants change | | types; an assigner was allowed, nobody who comes later writes what is deleted (any overlap); verdicts are of mentors, plans of assigners (serial) | modelled, checked, proved |
| 7 | `Onboarding`, composing `ExamSeed` (crash, restart, liveness) and `StudyProfile` | | types; whole packs when served, roadmaps from whole packs; profiles as asked | modelled, checked, proved but for liveness |
| 8 | `Community` on `Progress`: progress, report links, groups, leaderboards | `RealStreak`, the streak that is meant | types; the creator is ADMIN, a report only while the link is valid, progress adds up and its streak is real, leaderboards are fair (any overlap) | modelled, checked, proved |

Each `<module>Proofs` holds the theorems of a module. Every safety property of a passing run is proved; the one liveness
property is left to TLC (section 13).

The runs of `StudySessions` and `AccessGrants` let requests overlap from the start. What the endpoints promise to requests that wait for
each other, and the refinement, is checked and proved up to the first overlap, which a history variable records (`overlapped`, `calm`); the
other properties hold beyond it. `RoadmapService` has a run with one device for the plan that is shown, and one with two. A part of 4 to 8 has one passing run. Where
requests overlap its constant `Mixes` is a set of situations, and each behaviour has one of them, chosen in `Init`. A mix says
which endpoints are called, which client is whose, and whether requests about one row wait for each other. So one
run covers many small instances, each with the cases that matter to it, and every property
that needs a hypothesis about overlap names it (`mix.serial => ...`).

## 3. How the models correspond to the code

**Requests.** A client `c` is a connection authenticated as `UserOf[c]` with at most one request in
flight. Two clients of one user are two devices, or a retry while the first request is still served.
`req[c]` is what the handler holds in memory between two awaits: what it is about to insert, or
the loaded entity. An action is the code from one await to the next. Reads that only decide
whether to go on are in one action with the read they guard when nothing in between can change the first.

**`save()`** is three actions everywhere: *Load* (the handler's own read, its checks and its
assignments to the entity), *Reread* (TypeORM reads the row again and computes the changed columns)
and *SaveWrite* (the UPDATE). It is marked external in the map: it is modelled from how the code uses it.

**Failures.** In all modules with requests but `StudySessions` a request may end at any await (`Abort`): a
statement fails, or the process dies. Where that leaves a state the code never repairs, a history says so: in `AccessGrants` the acceptance of a partnership
that ends between its two saves adds the pair to `torn`. `Accounts` has `mix.tears`, which says whether it may happen. A transaction that has not committed leaves nothing, a
sequence of saves leaves its prefix. Nothing in memory survives a request, so the crash of the process is the end of
all its requests, and a restart is nothing. In `StudySessions` every operation ends with its one save.

**Faults.** An operator whose comment begins with "Fault:" is a plausible mistake in the
code (a check left out, a column forgotten). It is not part of the specification. Each property is
shown to notice one.

**Fairness and liveness.** A step of a request is taken because a client sends it, or because a statement
of the handler returns: nothing is promised to happen eventually, and no fairness is assumed. Seeding at start-up is
the one background activity, and `Onboarding` states fairness for it (section 10).

**Deadlock** is checked in the runs of `StudySessions`, `RoadmapService` and `AccessGrants`. The others say
`CHECK_DEADLOCK FALSE`: their bounds (rows, versions, moments of the clock, replans) make a behaviour end.

**Histories.** A variable marked `history` in its comment records what happened (who approved, who gave a
verdict, whether requests have overlapped). No guard reads it. `missed` occurs in three modules, `late` in `StudySessions`: it holds the requests (or what of a request) that
are under way with a row as it was when somebody else changed it. A property about any overlap says with it how far a stale save can reach.

## 4. StudySessions

`session` is `study_session` joined with `study_result` (column `result`), `resultKey` the
submissions, `taskAccess`/`taskDone` the tasks that `start` and `record` look up.

| action | code |
|---|---|
| `StartCheck`, `Insert` | `start` 47-71: active session? task visible? then the INSERT |
| `FinishLoad` | `finish` 73-109: load, idempotent answer, status check, changed entity |
| `CancelLoad` | `cancel` 169-187 |
| `RecordCheck` | `record` 111-167: one INSERT of a finished session with its result |
| `VerifyLoad` | `AccountabilityService.verifySession` 356-390 |
| `Reread`, `SaveWrite`, `SaveFails` | `save()`, with the UNIQUE constraints on the key and on `session_id` |

| run | instance | shows |
|---|---|---|
| sessions | two devices of a student, one of which finishes and the other one cancels what either starts; a mentor who may verify and one who may not; 4 sessions | whatever the stale saves overwrite: types; `ActiveBounded`; verdicts name somebody who was allowed to give them; `OnlyLateReopen`. Until requests about a user overlap: `SessionLifecycle` is implemented and rows are consistent |
| sessions_retries | three overlapping requests of one student start, finish and record, 2 keys, 3 sessions, 3 results; no cancel, no verify | the UNIQUE constraints make a late finish fail as a whole: results and acknowledged answers stay, and rows stay consistent with their results, for any overlap |

Two histories tell what overlap has done. `overlapped` holds the users about whose sessions two requests have been in flight at once; `late` the
clients whose request holds a session that got another outcome (status, key, result) since it was loaded.

- `ActiveBounded` is what is left of the rule of one active session when requests overlap: a verification that was loaded before a cancel
  reopens a session next to the one that was started since, but no sequence of requests makes more of them than there are clients, since each
  has to hold a stale read of its own for it.
- `OnlyLateReopen` is what is left of "closed is closed": a finished or cancelled session changes its outcome by the save of a `late` request,
  of a cancel or a verification that overlapped, and by nothing else. A request that loads it once it is closed is refused, or writes a verdict only.
- `RowConsistent` says that a row is FINISHED exactly when it has its key and its result. It holds for a user who is not in `overlapped`, and
  for everybody, whatever overlaps, where `OnlyStartsAndFinishes`: an overlapping cancel or verification breaks it.
- `ImplementsLifecycle` maps the sessions of users in `overlapped` to `Lost`, of which `SessionLifecycle` promises nothing. It is the
  overlap that loses them, not the code, so the abstract step `Lose` has no guard.

*Bounds.* Each hazard takes two requests about one row; the clients of the run give every pair of the four handlers that save. Two sessions
are needed for "another session of the same user", a third one for a finished session next to both, and a fourth one to go on after them. Keys and results
matter only by equality: two keys give a replay and a conflict. Session and result ids are symmetric.

*Proofs* (`StudySessionsProofs`). `VerifierInv` adds to the rows that the entity of every
verification in flight names an authorised verifier. It holds for any overlap. So does `ActiveInv`, which counts: it maps the sessions of a
user that are active, or that a request in flight is about to make so (`Open`), injectively to clients that reach them and are not starting
one (`Room`). A start that found none leaves its client free for the new session. `LateInv`, for any overlap too, says that when a request holds
a session and is not `late`, the session is in progress, or the outcome it holds is the stored one and none of its columns is to be written: `OnlyLateReopen` follows.
`DeviceInv(u)` is for one user who is not in `overlapped`: what a request loaded still equals its row, so that save writes what the handler
decided; it gives the refinement, session by session. `RetryInv` (hypothesis `OnlyStartsAndFinishes`) needs no such equality: it
relates every finish in flight to the row's key and to results that no other row or request
holds. `RowConsistent` follows from `RetryInv` where only these handlers overlap, and otherwise from `ConsistentInv(u)`, which adds to `DeviceInv(u)`
that the entity of every request in flight is as consistent as a row, and that once the row was read again
the changed columns are exactly those in which the two differ, so that writing some of them writes all. None of these properties is inductive
by itself, since each says nothing of the entities that are about to be saved.

## 5. RoadmapService

`roadmap`, `version`, `item`, `replanEvent` and `taskOwner` are the five tables. A version holds one item
per lesson; dates and minutes are left out.

| action | code |
|---|---|
| `GenerateBegin`, `GenerateCommit` | `generateRoadmap` 47-123: the snapshot of the superseding UPDATE, and the commit |
| `ReplanRead`, `ReplanCommit` | `replanRoadmap` 165-241: reads outside the transaction, then the transaction |
| `UpdateLoad` | `updateRoadmapItem` 243-275 |
| `ConvertLoad`, `ConvertTask` | `convertItemToTask` 277-317: load the item, insert the task, save the item with it |
| `Reread`, `SaveWrite` | `save(item)` |
| `Abort` | failure at any of these points |

| run | instance | shows |
|---|---|---|
| roadmaps_one_device | one user, one device, every endpoint, 2 roadmaps, 3 versions, 2 lessons | `StudyPlan` is implemented: completed items survive a replan with their tasks |
| roadmaps_overlap | two devices generate and replan, one of them completes items too; 3 roadmaps, 4 versions, 2 lessons | a current version always exists; the versions and events of a roadmap form a tree; no more active roadmaps than devices; `OnlyMissedReopen`: a replan reopens no completed item but one that was saved after its read |

Two replannings that read the same version both commit: then two versions are current, each with one event from the version that was
read. `VersionTree` says that nothing else can go wrong there: one first version, one event into each later one, from a version of the
same roadmap with the number before, and the current versions are the leaves.

*Bounds.* Two roadmaps are needed to supersede, a third to supersede two that are active; three versions to replan twice or to replan both,
four for two replannings of one version and another one of what they leave. Two lessons separate the item a request writes from the others, and leave
something to replan when one is completed. Ids and lessons are symmetric.

*Proofs* (`RoadmapServiceProofs`). `CurrentInv`: every stored roadmap has a version marked current,
and version rows belong to stored roadmaps; it holds for any overlap and any failure, and so does
`SupersededForever`, which no run checks. So do the next two. `TreeInv` adds to `VersionTree` that the plan a replanning holds is that of its version but for
the lessons in `missed`: `VersionTree` and `OnlyMissedReopen` follow. `RoomInv` maps the active roadmaps of a user injectively to devices, none of
which is generating without having seen its roadmap: what a generation adds beyond the roadmaps it supersedes takes the place of its own device, and
`ActiveBounded` follows. `DeviceInv`
(`OneRequestPerUser`) adds that what a device has read (the roadmaps to supersede, the version and
the items to replan, the item to save) is still so when it writes, whatever other users do. From it comes the refinement of `StudyPlan`, with
`LinearHistory` (the tree is a line), which only the proof uses. `NullAssumption` (NULL is not a
plan) is needed because `StudyPlan` uses NULL for "no plan".

## 6. AccessGrants

`grant` is `access_grant`; `past` the grants whose `expires_at` is over; `registered` the users;
`consent`, `torn`, `missed` and `calm` are histories: who accepted a grant before it expired, whose grant back was lost with its
request, whose request loaded a grant before it was revoked, and whether no two requests about one grant have overlapped so far.

| action | code |
|---|---|
| `InviteCheck`, `Insert` | `createInvite` 62-139: look up the address and live grants of the pair, then the INSERT |
| `AcceptLoad` | `acceptInvite` 141-198: load, refuse, or decide EXPIRED or ACTIVE |
| `Reciprocate`, `Insert` | `acceptInvite` 202-227: the grant back of a PARTNER |
| `Claim` | `getReceivedAccessList` 237-250: one UPDATE |
| `RevokeLoad` | `revokeGrant` 274-299 |
| `Reread`, `SaveWrite` | `save(grant)` |
| `Register`, `TimePasses`, `Abort` | a new user, the clock, failure |

| run | instance | shows |
|---|---|---|
| grants | two users, one with two devices and registering late, 2 grants, every endpoint, expiry, failures anywhere, any overlap | the grantee is who was addressed; an active grant was agreed to before it expired; a revoked grant is revived by nothing but a save that was loaded before its revocation. Until requests about one grant overlap: a partnership is mutual once its acceptance has ended, unless that died between its saves; `GrantLifecycle` is implemented |

*Bounds.* Saves collide on one grant; a second one is the grant back. One invitation expires and is for
whoever has the code, one is for an address that registers later.

`createInvite` looks up the address and then the live grants of the pair; the two reads are one action.
Somebody who registers between them has no grant yet as a grantee, so the second read finds what it
would have found before.

*`Calm`* says that no two requests in flight are about the same grant: it is what users who wait for an answer do. The code has nothing that
enforces it, so it is no part of the specification; `calm` only records whether it has held so far, and the refinement maps the grants to `Lost` once it has not.
A claim is one statement and has no request in flight, so it may fall into any other request and leaves the system calm.
`GrantLifecycle!End` has a choice for that: a revocation that loaded an unclaimed invitation writes the empty grantee back.

*Proofs* (`AccessGrantsProofs`). `AddressInv` follows the grantee through the saves in flight: the
grantee of a row, and of every entity about to be written, is somebody the invitation allows. That makes
`Designated` hold for any overlap, since it does not matter which save is last. `AgreedInv` does the same
for consent; an ACTIVE grant with an address carries the consent of that address even while its
grantee is overwritten. `CalmInv`, which holds while `calm` does, says that what a request loaded is still so when it writes, but for a claim in between;
the refinement follows. `PartnersMutual`
is inductive together with `CalmInv`, since an acceptance between its two saves stays there until
its own next step (`AcceptanceGoesOn`), and that step is the grant back, or the death that `torn` records.
`ReviveInv`, for any overlap, says that a request whose entity would undo a revocation (`Outdated`) is one that missed it: `OnlyMissedRevive`.

## 7. Accounts

`user` is `user` (role, whether the one switch is used, whether there is a mentor code, `tokenVersion`, whether a
hash of a refresh token is stored), `students` is `user_students`, `request` is `connection_request`,
`issued` the pairs of tokens that were sent. Histories: `entered` (gave the password since the sessions were
revoked), `approved` (pairs once approved).

| action | code |
|---|---|
| `Register`, `Login`, `Refresh` | `auth.service` 115-123, `validateUser` 17-25, `refreshTokens` 77-108 |
| `Sign`, `StoreHash` | `login` 27-75: the user is read again and the tokens are signed; the hash is stored, the pair sent |
| `Logout`, `ChangePassword`, `Rename`, `RefreshCode`, `SwitchRole` | `users.service` 64-71, 159-202, 297-320, 132-157: load, change the entity |
| `RequestCheck`, `InsertRequest` | `createRequest` 229-253 |
| `Respond`, `StoreAnswer`, `Assign` | `respondToRequest` 262-287, `assignStudent` 109-130 |
| `Unlink`, `FindApproved`, `RejectOne` | `removeStudent` 322-345 |
| `Delete`, `Purge`, `Erase` | `remove` 204-223: a save without connections, two DELETEs, the last one |
| `Reread`, `SaveWrite` | `save(user)`: row and loaded relations |
| `Abort` | failure |

`save(user)` writes the set of connections as well, if the handler loaded it. A request's `about` names the users whose
rows or connections it reads and writes; `mix.serial` says that requests about one user wait for each other.

*Run* `accounts`: a registering mentor or student, two registered users, up to three connections; eleven
mixes: sessions of one user on two devices; role, name and deletion of one user on two devices; a mentor and two
students who ask, are approved and leave; a mentor and a student who switch roles or are deleted.

| property | says |
|---|---|
| `RevokedSessionsEnd` | after a logout or a change of the password no token is accepted until the password is given again, whatever refreshes, renames and switches come before and after (serial) |
| `ConnectedIffApproved` | a connection was approved once, for any overlap; serial: it still is, and every approved one is there unless a request is at it, or one ended between two writes |
| `AccountForward` | the role changes once, the token version never goes back, a deleted user stays deleted (serial) |

*Bounds.* Two token versions above the first let a session be revoked twice. Two connection requests are two students with
one mentor, or one student twice. An address stands for its user; the code of a mentor is there or not; there
are no administrators. bcrypt compares the first 72 bytes, which are the same in all the refresh tokens of a user, so of the
stored hash only its presence counts.

*Proofs* (`AccountsProofs`). `AccountsInv` has five parts. `KnownInv`: the users a request relies on are registered.
`LinkedInv`: whatever a request is about to connect was approved; it needs no hypothesis and gives
the first half of `ConnectedIffApproved`. `Apart`: in a serial mix requests in flight are about different
users. `SerialInv`: in a serial mix what a request loaded differs from the row only by what its endpoint
changes (`Current`, `Wanted`), no token is of a version ahead of its user, connections are backed by approvals, and every
approval is answered by a connection or a request that is about to store it. The properties say nothing of entities that are about to
be saved, and a save writes every column of one, so none of them is inductive without `Current`.

## 8. RoadmapPlan

`profile`, the current version `plan`, the time `now`. The plan is made by operators that are translated one by
one from `RoadmapGeneratorService` and `RoadmapReplannerService`, on the sections, subjects, hours and
weights of `exam-packs/seeds` (`ExamPackData`).

| definition | code |
|---|---|
| `ChosenYks`, `ChosenSat`, `SubjectsFor` | `filterSubjectsForTrack` 78-151 |
| `Priority`, `Before`, `SortedTopics` | `distributeTopicsAcrossWeeks` 164-207: the stable sort |
| `TotalWeeks`, `LearnWeeks`, `ReviewWeeks` | 33-37, 209-211: the rounding and its minimums |
| `Full`, `Put`, `Skip`, `Placed` | 213-228; replanner 49-55, 91-110: an item goes into the week, or the week moves on |
| `Distributed` | 213-308: filling the weeks, reviews and simulations |
| `CurrentWeek`, `RemainingWeeks`, `Replanned` | replanner 29-40, 46-124 |
| `Generate`, `Complete`, `TimePasses`, `ChangeGoal`, `Replan` | what a user does between |

*Run* `plan`: all nine tracks, exams in 196 days, at and around 4 weeks, at and beyond 60, and in the past; 60, 900, 1200 and
10080 minutes per week; replans before the start, in the third week and after the exam, with another goal and with items read in
either order.

| property | says |
|---|---|
| `CoversCurriculum` | every topic of the track's curriculum is learnt once and practised once, after replanning too |
| `PhasesInOrder` | learning, then review, then simulation up to the last week, none of them empty |
| `FitsTime` | no week but the last exceeds the weekly minutes by more than the code's rule; nothing is later than the exam, if there were four weeks |
| `ReplanKeeps` | completed items stay as they are, all others are planned again, not before the current week |

*Bounds.* One completed item, at the beginning, in the middle or at the end, and two replans. The rows of a version
come without an order; of all orders the stored one and its reverse are tried. The score gap of a priority is left out: nothing
stores `currentScore`, so it is 0.

*Proofs* (`RoadmapPlanProofs`). All four properties and the types, for any profiles, moments, exam days, weekly minutes and
numbers of replans. `TypeInv` adds to `TypeOK` that the items are a sequence of well-formed rows and that a version has
number 0 only before generation; with it each of the three invariants is inductive, as each speaks of one version and of the
goal and the moment it was planned for, which the version keeps.

- `Placed` goes through the items by halves, a recursive function of pairs of places. `HalvesDefined` shows that such a function
  exists and `HalvesKeep` that what each single step keeps the whole keeps; both by a least counterexample (`LeastOf`),
  since the library's induction theorems cannot be applied. `PutKeeps` and `SkipKeeps` are the steps: the minutes of the
  present week are the sum of what went into it, and every week before it holds no more than the weekly minutes but for what its last item adds besides. `PlacedWell` is what the rest uses.
- Sums are the community modules' `SumFunctionOnSet`. `SumIsFold` shows that its recursive definition has a value, `SumTakes`
  that it does not depend on the order, both by `SetInduction`; `SumOfTopics` and `SumLess` are the two facts that `FitsTime` needs.
- `Fresh` says item by item what a new plan is, `Redone` and `InWeeks` what a replan makes of it, and `Progressed` what a completion does.
- `TotalWeeksInTime`, `PhasesOfTotal` and `ReplannedInTime` are the rounding: between 4 and 60 weeks always leave a week of review
  and one of simulation, and the last week begins before the exam.

What depends on the curricula is `CurriculaAssumption`: for every exam and track, the sorted topics are each there once, take some
time, and include the curriculum. The curricula are constants of the code, so this is a finite computation, with which TLC
begins every run; tlapm cannot expand `SelectSeq`, `SortSeq` and `FlattenSeq`. The part of `CoversCurriculum` that says a generator
chooses the right subjects is that assumption; that placing, completing and replanning lose and repeat nothing is proved.

## 9. Permissions

`task`, `evidence`, and the relations that decide: `role`, `students`, `grant`. The relations are changed by actions that
stand for `Accounts` and `AccessGrants` (`Connect`, `Disconnect`, `Grant`, `Expire`, `Revoke`, `SwitchRole`), at any
moment, between a check and its write too. `StudySessionsService.record` writes tasks as well: it loads one, completes it, and saves the whole
entity, which is `RecordTask`, `RereadTask`, `WriteTask`. (A recording without a task makes one of its own, as `CreateTask` does for oneself.)

| action | code |
|---|---|
| `CheckConnected`, `CheckGrant` | `isMentorConnectedToStudent` (`tasks.service` 237-259, `evidence.service` 235-257): two reads |
| `CreateTask`, `InsertTask` | `tasks.service` 28-87 |
| `AssignTask` | `accountability.service` 322-354, which goes on to `InsertTask` |
| `UpdateTask`, `StoreTask`; `RemoveTask`, `ArchiveTask` | 177-219; 221-235, with `findOne` (`Accessible`) |
| `RecordTask`; `RereadTask`, `WriteTask` | `study-sessions.service` 118-121; 122, `save()` |
| `Submit`, `InsertEvidence` | `evidence.service` 31-94 |
| `ReplaceImage`, `Judge`, `Withdraw`, `Reread`, `Write` | 148-233, with `findOne` (`Readable`) and `save()` |

*Run* `permissions`: two mentors and a student, one task and one evidence, two connections; nine mixes.

| property | says |
|---|---|
| `AssignerAllowed` | a mentor named as the assigner made the task and was once allowed to assign tasks to its owner, for any overlap |
| `VerdictOfMentor` | the status of evidence is the last verdict of a mentor (serial), or one that was given, or PENDING (any overlap) |
| `PlanByAssigner` | title and dates of an assigned task change by the assigner only (serial) |
| `DeletedUntouched` | a deleted task or evidence is written by nothing but a request that was under way about it when it was deleted, and so brought back by nobody who comes later (any overlap); by nothing at all (serial) |

*Bounds.* Saves and checks collide on one row. The properties say "once allowed" because the check and the write are several
awaits apart: a relation may end between them, and does in the run.

*Proofs* (`PermissionsProofs`). `AllowedInv` says that a request about to insert a task for somebody else has the pair in the history
`assigns`, to which relations only add, so it needs no hypothesis about overlap: a relation may end between the check and the insert. `JudgedInv` says
that whoever is about to write a verdict is a mentor who was once allowed to see the evidence, that any other status about to be
written was one of the row (any overlap), and that what was loaded is still the row (`Fresh`, serial). `KeptInv` does so for tasks: what
a request is about to store, save or archive is there (any overlap), and in a serial mix it is not deleted and still as its check found it.
`BehindInv` says that a request about a row that is deleted meanwhile is one of `missed`, for any overlap.

## 10. Onboarding: ExamSeed and StudyProfile

`ExamSeed` has the rows of each pack and what each instance of the program does; `StudyProfile` the profiles and the
requests about them; `Onboarding` puts them together: requests are answered when some instance serves, and
`generateRoadmap` takes its version from the profile or from YKS.

| action | code |
|---|---|
| `Start`, `CheckExam`, `FindRow`, `InsertRow` | `exam-packs.service` 40-192: look up, insert, one row after the other |
| `Dies` | the process, with the requests it serves; `Start` is its restart |
| `GetProfile`, `SaveProfile`, `UpdateProfile`, `InsertDefault`, `InsertProfile`, `Reread`, `WriteProfile` | `study-profile.service` 21-120 |
| `AskRoadmap`, `MakeRoadmap` | `roadmap.service` 47-96, `roadmap-generator.service` 46-54 |

*Run* `onboarding`: two instances start with an empty database while a student asks for a roadmap, with a death
anywhere; a student and one instance, one request after the other, or from two devices at the same time.

| property | says |
|---|---|
| `WholeWhenServed` | once an instance serves, every exam is there and whole, unless its seeding was cut off or another instance is still at it |
| `ProfileAsAsked` | a profile has the minutes that were last stored (serial), and a version that was stored once (any overlap) |
| `RoadmapFromPack` | a roadmap is made from a whole pack, but for the same two cases, and from the version of the profile, or from YKS if there was none |
| `AllAnswer` | every instance answers requests in the end (liveness) |

*Fairness.* `Fairness` is `WF_vars(Step(i))` for each instance: the event loop of a process goes on when a
statement has returned, and whoever runs the program starts a process that ended. Nothing is assumed of requests
and nothing of deaths, of which there are at most `MaxDeaths`. `AllAnswer` needs the argument that a conflict on
a UNIQUE code, which ends a start-up, cannot happen again at the same row.

*Bounds.* A pack has one row of a kind. A SYSTEM is looked up and stored as a COUNTRY is, and a TOPIC as a SUBJECT, so they are left
out of the instance; the second pack has nothing above its exam. Two instances give every race of two
look-ups and inserts; one death cuts a seeding at any row. Two instances that interleave may store rows twice
below a UNIQUE one, so there may be several versions of an exam: `Versions` has room for all.

*Proofs* (`OnboardingProofs`). `SeedInv` holds for any packs of the shape that `SeedAssumption` states: first the nodes with a UNIQUE
code, up to the one exam, then what is below, with a version right under the exam. The packs in `exam-packs/seeds` have
it. `RowsInv` says that a row is under a row of its parent's node and that a UNIQUE code is there once, `FoundInv` that the rows an
instance holds are those of its nodes, `PassedInv` that the exam of a pack an instance is past is there, and `CompletedInv`, the heart of
it, that what a row of an exam lacks, some instance is about to store, unless a seeding of the exam was cut off. `WholeWhenServed` says
nothing of instances on their way, so it is not inductive. TLC checked `SeedInv` with the constants of the run before it was
proved. `ProfileInv` says that the version of a profile, or of an entity in flight, was asked for, and, in a serial
mix, that the minutes in flight differ from the row only by what was sent. In `Onboarding` the two are composed: a roadmap is
made from rows that `CompletedInv` shows to be all there.

## 11. Community: Progress

`Progress` has what `getProgress` and `getGroupLeaderboard` compute: dates in a time zone (a time zone is the set of hours
at which its days begin, so days of 23 and 25 hours are possible), sums by subject and day, rates, the streak, the score
and the ranking. `Community` has the reads in between, each a statement of its own, and the rows they read.

| action | code |
|---|---|
| `Study`, `FinishStudy`, `Record`, `Plan`, `CompleteTask`, `Tick` | the rows as `StudySessions` and `Permissions` leave them; the clock |
| `AskProgress`, `ProgressTasks`, `ProgressStreak` | `study-sessions.service` 198-407: three reads, two values of now |
| `Share`, `Revoke`, `WriteRevoked` | `accountability.service` 397-428 |
| `AskReport`, `CheckReport`, `ReportSessions`, `ReportTasks` | `getPublicReport` 430-495: the request arrives and the time is read; the link is found or refused; the reads |
| `CreateGroup`, `InsertAdmin`; `Join`, `InsertMember`; `Leave`, `RemoveMember` | 501-528; 530-558; 569-579 |
| `AskBoard`, `ReadMembers`, `ReadTasks`, `ReadSessions`, `Rank` | `getGroupLeaderboard` 581-663; the members are read side by side |
| `Abort` | failure |

*Run* `community`: eight mixes: streaks in zones with and without an offset; progress while sessions and tasks change;
a leaderboard of two at the end of the week that counts, and of one with six active days; two users, or two devices of one,
who create, join and leave; links that are revoked or expire.

| property | says |
|---|---|
| `ProgressIsReal` | the subjects and the days of a progress report add up to its totals; under `EvenDays` its streak is the number of consecutive dates |
| `BoardIsFair` | each member once, in the order of scores between 0 and 100, and nobody who did at least as much of both scored things is below |
| `CreatorIsAdmin` | the creator of an answered group is its ADMIN until he leaves |
| `ReportWhileValid` | a report is answered only to a request that arrived before its link was revoked and before it expired, although the link is looked up in a later statement and may end before and after that |

*Bounds.* Moments of the clock are chosen around midnight, the ends of days in both zones, and the edge of the week
that counts. Six sessions are the first number at which the points of a score reach their limit. The minutes that a client sends
for a session are the time that passed. A zone is a finite set with a day for each moment. `EvenDays` says that its days have 24
hours each and that it reaches past the moments of the mix; it holds in all eight mixes of `community`, so there the streak
is checked without a condition. The mixes of `streak` have zones where the clocks change, and the property of that run, `StreakIsReal`, has no such hypothesis.

*Proofs* (`CommunityProofs`). `CommunityInv` holds for any overlap and any failure. `RequestsInv` says what each request in
flight relies on: the link it revokes, the group it joins and the row it removes exist, the ADMIN it is about to insert is the user who
created the group, and a report that passed its check is not of a link that was over when its request arrived: revocations are for good, and the
check compares with the time that the request read (`OverIsOver`). `CreatorIsAdmin` is inductive
with the first parts, since a group is told of only when its ADMIN is stored, and the row goes only when he
leaves; `AnswersInv` carries the last part to `ReportWhileValid`. The moments at which the clock may stand are any nonempty set of
naturals, which has a least one (`MinIsLeast`, from `WellFoundedInduction`).

`ReadsInv`, inductive together with `CommunityInv`, carries the other two. It has three parts.

- `RowsInv`: nobody is a member of a group twice. The insertion of a MEMBER has the UNIQUE constraint to rely on, and that of the
  ADMIN needs more: the group is untold, so no row can be of it, and one request alone holds it.
- `SeenInv`: what a request has read so far. The sums of a progress report are of one set of sessions, and the rows of a leaderboard are of
  different users, with no more tasks done than there are, although both change while the rest is read.
- `AnswersOk`: what the two properties say, of each answer.

What the answers compute is proved in lemmas about the operators of `Progress`, for every input:

- *Sums.* The parts of a set by a key (subject, date) add up to the whole (`AllPartsAddUp`), by induction over the finite set.
- *Scores.* A rounded quotient grows with its parts (`Quotient`), so a score does (`ScoreGrows`) and is at most 100 (`ScoreBounded`).
- *Rankings.* `Ahead` is a strict linear order, so two rows have different places; an injection of a finite set into as many
  places takes each of them (`PlacesAreTaken`), so the `CHOOSE` of each rank has a row, no row has two, and the order is that of the scores (`RankingSorts`).
- *Streaks.* Under `EvenDays` going back by 24 hours goes back by one date until the dates of the zone begin (`DateBack`), so the walk of
  the code and that of `RealStreak` meet the same active dates. That they end is a pigeonhole argument: `n` dates cannot be active
  `n + 1` times in a row (`DatesEnd`), which is why the bounds of the two searches may differ (`StreakReal`).

## 12. Where the code departs from what it says

Two runs must end with a counterexample.

| run | the code says | what happens |
|---|---|---|
| permissions_assign | "Mentor assigns a task to a student" (`accountability.controller.ts:86`) | `assignTaskToStudent` calls `create` as the student (`accountability.service.ts:344`), for whom `create` drops the assigner (`tasks.service.ts:39-40`): the mentor neither sees nor may change the task |
| streak | "Calculate real consecutive study days streak" (`study-sessions.service.ts:336`) | the loop goes back by 24 hours (`:385`): around a day of 25 hours a date is counted twice, around one of 23 hours it is passed over |

The properties about any overlap mark the other places where the code and what it says part: they say how far a departure goes. Each of these has a
counterexample that TLC finds when the property is stated without its exception (`overlapped`, `late`, `missed`, `calm`, serial requests, no
seeding cut off):

- two starts both pass the check: two active sessions, against "User can only have 1 active session" (`study-sessions.service.ts:48`);
- a verification (`accountability.service.ts:390`) or a cancel that loaded a session before its finish writes the old status back and detaches the result, against "same key + already finished: return existing" (`study-sessions.service.ts:83`);
- two generations leave two active roadmaps, against "Mark any existing active roadmap as SUPERSEDED" (`roadmap.service.ts:73`);
- an item completed while a replanning is between its reads and its commit is open again, against "Keep completed items as history" (`roadmap-replanner.service.ts:73`);
- an acceptance that loaded an invitation before its revocation makes it ACTIVE (`accountability.service.ts:200`);
- a recording that loaded a task before its deletion saves it with no time of deletion (`study-sessions.service.ts:122`): the task is back, against "Task archived" (`tasks.service.ts:234`);
- a verdict, or another image, that was loaded before the deletion of the evidence is saved with `isActive` as it was (`evidence.service.ts:202`, `:184`), against "Soft delete evidence" (`evidence.controller.ts:62`);
- a save of a user that was loaded before a logout restores the old token version (`users.service.ts:156`, `:202`);
- an approval that ends between its two writes leaves an approved request without a connection, and no retry is accepted (`users.service.ts:280`);
- a pack whose seeding was cut off is never completed: the exam is there, so later starts skip it (`exam-packs.service.ts:64`).

Read in the code while modelling, with no property of their own: a profile keeps its exam version once it has
one, since the eager relation is saved over the changed column (`study-profile.service.ts:80`); the default exam date of a profile created
on the 31st of a month is in July (`:34-35`); TODAY begins at the server's
midnight (`study-sessions.service.ts:211`); ALL_TIME of a public report is 365 days (`accountability.service.ts:449`); a recording may start in the future; `completedSessionsCount` of a
public report counts sessions of any status (`accountability.service.ts:490`); a mentor cannot see the task he
makes for himself (`tasks.service.ts:102`); another image for an evidence keeps its verdict (`evidence.service.ts:183`).

## 13. What is proved, what is only checked, what is left out

*Proved.* The theorems are about `StudySessions`, `RoadmapService`, `AccessGrants`, `Accounts`, `RoadmapPlan`, `Permissions`,
`Onboarding` (with `ExamSeed` and `StudyProfile`) and `Community`, and hold for every value of the constants: any
number of users, clients, rows, keys, packs and instances, and any mixes. They rest on the assumption each module states of its constants
(clients have users, NULL is none of the ids, the shape of a pack, the curricula); the sets of clients are finite where they are counted. Two constants
of an instance are hypotheses of theorems: `OnlyStartsAndFinishes` in `FinishedTheorem`, `AckedTheorem` and `ResultsTheorem`, and `OneRequestPerUser`
in `PlanTheorem`. All other hypotheses about overlap are part of the properties, told by histories or by the mix (`mix.serial => ...`). Every safety
property of a passing run is covered by a theorem: the invariants, the action properties and the refinements. `FinishedForever` (while only starts
and finishes overlap), `SupersededForever` and the type invariants of half of the modules have a theorem and no run.

*Model-checked only.* `AllAnswer`, which is liveness under fairness and out of the prover's reach. The two runs that end with a
counterexample are TLC's as well.

*Not modelled.* Within the modelled parts: texts, feedback, names and files; administrators, who may do to others what
they do to themselves; changes of a user's e-mail address; `addDiagnosticResult`, an INSERT that nothing else reads or
changes; the expiry of tokens; in `RoadmapPlan` names and wording of items; the
readers that change nothing, except where their answer is promised. `files` writes one file per request, `common`,
`main` and `app.module` have no state, and migrations and scripts are the schema and data. What only one
statement changes is one action, whatever the statement does inside of the database.

The hazards that no property covers are listed in `PROJECT.json` with the reason. For most of them the repository
says nothing of what should be: the tasks that retries of `record` leave behind, an unlinked task after a failed conversion,
two equal invitations or connection requests, the grant back after a revocation.
