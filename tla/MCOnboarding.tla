---------------------------- MODULE MCOnboarding ----------------------------
(* Small instances of Onboarding for TLC.                                   *)
EXTENDS Onboarding, TLC

CONSTANTS pupil, c1, c2

Row(kind, under) == [kind |-> kind, under |-> under]
\* A SYSTEM is looked up and stored as a COUNTRY is, a TOPIC as a SUBJECT; the second pack
\* has nothing above its exam.
TwoPacks ==
    <<[exam |-> "YKS", nodes |-> <<Row("COUNTRY", 0), Row("EXAM", 1), Row("VERSION", 2),
                                   Row("SECTION", 3), Row("SUBJECT", 4)>>],
      [exam |-> "SAT", nodes |-> <<Row("EXAM", 0), Row("VERSION", 1), Row("SECTION", 2),
                                   Row("SUBJECT", 3)>>]>>

SomeVersions == {"YKS", "SAT"} \X (1..16)

Mix(ops, of, serial, instances) ==
    [ops |-> ops, of |-> of, serial |-> serial, instances |-> instances]

One(u) == c1 :> u
Two(u, v) == One(u) @@ (c2 :> v)

\* Two instances start, while a student asks for a roadmap; a student uses one instance,
\* one request after the other; two devices of a student do so at the same time.
AllMixes ==
    {Mix({"get", "generate"}, One(pupil), TRUE, 2), Mix(ProfileOps, One(pupil), TRUE, 1)} \cup
    {Mix(ops, Two(pupil, pupil), FALSE, 1) :
        ops \in {{"get", "update"}, {"get", "save", "generate"}}}
=============================================================================
