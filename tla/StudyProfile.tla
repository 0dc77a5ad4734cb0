---------------------------- MODULE StudyProfile ----------------------------
(***************************************************************************)
(* StudyProfileService: the one study profile of a user, which reading     *)
(* creates. Every await is a point where other requests interleave.        *)
(* save(profile) reads the row again and writes what differs from the      *)
(* entity.                                                                 *)
(*                                                                         *)
(* Of the columns the exam version and the weekly minutes, which stand for *)
(* all the others, are told apart.                                         *)
(***************************************************************************)
EXTENDS Naturals

CONSTANTS
    Students,
    Clients,  \* connections: each has at most one request in flight
    Minutes,  \* weekly minutes that a request may give
    Versions, \* bound: the exam versions there may be
    Mixes,    \* what the clients of a behaviour do: see `mix'
    NULL,
    KEEP      \* what a request does not give

ProfileOps == {"get", "save", "update", "generate"}

ASSUME ProfileAssumption ==
    /\ Minutes \subseteq 60..10080
    /\ Mixes \subseteq [ops : SUBSET ProfileOps, serial : BOOLEAN,
                        of : UNION {[C -> Students] : C \in SUBSET Clients},
                        instances : Nat]
    /\ {NULL, KEEP} \cap (Students \cup Versions \cup Minutes) = {} /\ NULL # KEEP

VARIABLES
    profile, \* table study_profile
    req,     \* per client, the request in flight
    asked,   \* history: per student, the weekly minutes last stored by a request
    wanted,  \* history: <<student, version>> of the versions ever stored by a request
    mix      \* the endpoints called and by whom, whether requests of one student wait for
             \* each other; how many instances there are

profileVars == <<profile, req, asked, wanted, mix>>

Profiles == [there : BOOLEAN, version : Versions \cup {NULL}, weekly : Minutes \cup {1200}]
NoProfile == [there |-> FALSE, version |-> NULL, weekly |-> 1200]
Default == [NoProfile EXCEPT !.there = TRUE]

(***************************************************************************)
(* A request in flight: it inserts the default profile or the entity, and  *)
(* then applies what was sent; or save() reads the row again, or writes the*)
(* columns that differ; or it makes a roadmap from the profile it loaded.  *)
(***************************************************************************)
Ats == {"idle", "default", "insert", "loaded", "reread", "plan"}
Columns == {"version", "weekly"}
Idle == [at |-> "idle", op |-> "get", student |-> NULL, ent |-> NoProfile, cols |-> {},
         version |-> KEEP, weekly |-> KEEP]

ProfileTypeOK ==
    /\ profile \in [Students -> Profiles]
    /\ \A c \in Clients : \E q \in {req[c]} :
         /\ DOMAIN q = DOMAIN Idle /\ q.at \in Ats /\ q.op \in ProfileOps
         /\ q.student \in Students \cup {NULL} /\ q.ent \in Profiles /\ q.cols \subseteq Columns
         /\ q.version \in Versions \cup {KEEP} /\ q.weekly \in Minutes \cup {KEEP}
    /\ asked \in [Students -> Minutes \cup {1200}]
    /\ wanted \subseteq Students \X Versions
    /\ mix \in Mixes

ProfileInit ==
    /\ profile = [s \in Students |-> NoProfile]
    /\ req = [c \in Clients |-> Idle]
    /\ asked = [s \in Students |-> 1200]
    /\ wanted = {}
    /\ mix \in Mixes

-----------------------------------------------------------------------------

Me(c) == mix.of[c]
Goes(c, q) == req' = [req EXCEPT ![c] = q]

Starts(c, op) ==
    /\ op \in mix.ops /\ c \in DOMAIN mix.of
    /\ req[c] = Idle
    /\ mix.serial => \A d \in Clients : req[d].student # Me(c)

Doing(c, op, at, ent) ==
    [Idle EXCEPT !.op = op, !.at = at, !.student = Me(c), !.ent = ent]

\* The entity with what was sent. save() takes the version from the loaded relation, if
\* there is one, and not from the changed column: it stays.
Patched(ent, version, weekly) ==
    [there |-> TRUE,
     version |-> IF version = KEEP \/ ent.version # NULL THEN ent.version ELSE version,
     weekly |-> IF weekly = KEEP THEN ent.weekly ELSE weekly]

\* getProfile: a missing profile is created with default values.
GetProfile(c) ==
    /\ Starts(c, "get")
    /\ ~profile[Me(c)].there
    /\ Goes(c, Doing(c, "get", "default", Default))
    /\ UNCHANGED <<profile, asked, wanted, mix>>

\* Fault: what is not given gets its default value.
SaveProfileAnew(c, version, weekly) ==
    /\ Starts(c, "save")
    /\ Goes(c, [Doing(c, "save", IF profile[Me(c)].there THEN "loaded" ELSE "insert",
                      Patched(IF profile[Me(c)].there THEN [profile[Me(c)] EXCEPT !.weekly = 1200]
                              ELSE Default, version, weekly))
                  EXCEPT !.version = version, !.weekly = weekly])
    /\ UNCHANGED <<profile, asked, wanted, mix>>

\* createOrUpdateProfile: the version is given.
SaveProfile(c, version, weekly) ==
    /\ Starts(c, "save")
    /\ Goes(c, [Doing(c, "save", IF profile[Me(c)].there THEN "loaded" ELSE "insert",
                      Patched(IF profile[Me(c)].there THEN profile[Me(c)] ELSE Default,
                              version, weekly))
                  EXCEPT !.version = version, !.weekly = weekly])
    /\ UNCHANGED <<profile, asked, wanted, mix>>

\* updateProfile: getProfile first.
UpdateProfile(c, version, weekly) ==
    /\ Starts(c, "update")
    /\ Goes(c, [(IF profile[Me(c)].there
                 THEN Doing(c, "update", "loaded", Patched(profile[Me(c)], version, weekly))
                 ELSE Doing(c, "update", "default", Default))
                  EXCEPT !.version = version, !.weekly = weekly])
    /\ UNCHANGED <<profile, asked, wanted, mix>>

\* What the request has stored, for the history.
Stored(q) ==
    /\ asked' = IF q.weekly = KEEP THEN asked ELSE [asked EXCEPT ![q.student] = q.weekly]
    /\ wanted' = IF q.version = KEEP THEN wanted ELSE wanted \cup {<<q.student, q.version>>}

\* The default profile is inserted, if there is none yet (UNIQUE), or the request fails.
InsertDefault(c) ==
    LET q == req[c] IN
    /\ q.at = "default"
    /\ \/ /\ ~profile[q.student].there
          /\ profile' = [profile EXCEPT ![q.student] = q.ent]
          /\ Goes(c, IF q.op = "get" THEN Idle
                     ELSE [q EXCEPT !.at = "loaded",
                                    !.ent = Patched(q.ent, q.version, q.weekly)])
       \/ /\ profile[q.student].there
          /\ Goes(c, Idle)
          /\ UNCHANGED profile
    /\ UNCHANGED <<asked, wanted, mix>>

\* The profile is inserted, if there is none yet (UNIQUE), or the request fails.
InsertProfile(c) ==
    LET q == req[c] IN
    /\ q.at = "insert"
    /\ \/ /\ ~profile[q.student].there
          /\ profile' = [profile EXCEPT ![q.student] = q.ent]
          /\ Stored(q)
       \/ /\ profile[q.student].there
          /\ UNCHANGED <<profile, asked, wanted>>
    /\ Goes(c, Idle)
    /\ UNCHANGED mix

Reread(c) ==
    LET q == req[c] IN
    /\ q.at = "loaded"
    /\ Goes(c, [q EXCEPT !.at = "reread",
                         !.cols = {f \in Columns : q.ent[f] # profile[q.student][f]}])
    /\ UNCHANGED <<profile, asked, wanted, mix>>

WriteProfile(c) ==
    LET q == req[c] IN
    /\ q.at = "reread"
    /\ profile' = [profile EXCEPT ![q.student] =
                     [f \in DOMAIN NoProfile |-> IF f \in q.cols THEN q.ent[f] ELSE @[f]]]
    /\ Stored(q)
    /\ Goes(c, Idle)
    /\ UNCHANGED mix

\* A statement fails, or the process or the connection dies.
Abort(c) ==
    /\ req[c] # Idle
    /\ Goes(c, Idle)
    /\ UNCHANGED <<profile, asked, wanted, mix>>

-----------------------------------------------------------------------------
(* Properties.                                                              *)

\* However requests follow each other, and fail, while those of one student do not overlap:
\* the profile has the minutes that were last stored, or the default (21-49, 62-120). And
\* if they do overlap: a version that was stored once, and no other.
ProfileAsAsked ==
    \A s \in Students :
        /\ mix.serial => profile[s].weekly = asked[s]
        /\ profile[s].version # NULL => <<s, profile[s].version>> \in wanted
=============================================================================
