---------------------------- MODULE ExamPackData ----------------------------
(***************************************************************************)
(* The curricula that ExamPacksService stores at start-up: the sections of *)
(* the current version of YKS and SAT, their subjects, and per topic, in   *)
(* the order of its orderIndex, <<estimatedHours, importanceWeight>>.      *)
(* Names, colours, categories and difficulties are left out.               *)
(***************************************************************************)
EXTENDS Naturals, Sequences

Subject(code, section, orderIndex, topics) ==
    [code |-> code, section |-> section, orderIndex |-> orderIndex, topics |-> topics]

Section(code, orderIndex, subjects) ==
    [code |-> code, orderIndex |-> orderIndex, subjects |-> subjects]

-----------------------------------------------------------------------------
TYT_TURKCE == Subject("TYT_TURKCE", "TYT", 1, <<
    <<3, 4>>, <<4, 4>>, <<12, 5>>, <<3, 3>>, <<4, 4>>, <<6, 4>>, <<3, 3>>,
    <<2, 2>> >>)
TYT_MATEMATIK == Subject("TYT_MATEMATIK", "TYT", 2, <<
    <<6, 5>>, <<4, 3>>, <<4, 3>>, <<3, 3>>, <<5, 4>>, <<6, 4>>, <<5, 4>>,
    <<3, 3>>, <<16, 5>>, <<4, 3>>, <<6, 4>>, <<6, 4>>, <<3, 2>> >>)
TYT_GEOMETRI == Subject("TYT_GEOMETRI", "TYT", 3, <<
    <<5, 4>>, <<6, 5>>, <<7, 5>>, <<8, 4>>, <<7, 4>>, <<6, 4>>, <<6, 4>> >>)
TYT_FIZIK == Subject("TYT_FIZIK", "TYT", 4, <<
    <<3, 3>>, <<5, 4>>, <<4, 3>>, <<5, 4>>, <<5, 4>>, <<7, 5>>, <<4, 3>> >>)
TYT_KIMYA == Subject("TYT_KIMYA", "TYT", 5, <<
    <<2, 3>>, <<5, 5>>, <<5, 5>>, <<3, 3>>, <<6, 4>>, <<4, 4>>, <<4, 4>>,
    <<2, 2>> >>)
TYT_BIYOLOJI == Subject("TYT_BIYOLOJI", "TYT", 6, <<
    <<5, 4>>, <<5, 4>>, <<4, 4>>, <<4, 4>>, <<6, 5>>, <<4, 4>> >>)
TYT_TARIH == Subject("TYT_TARIH", "TYT", 7, <<
    <<4, 4>>, <<4, 4>>, <<6, 4>>, <<8, 5>> >>)
TYT_COGRAFYA == Subject("TYT_COGRAFYA", "TYT", 8, <<
    <<4, 4>>, <<6, 5>>, <<5, 4>>, <<4, 4>>, <<3, 3>> >>)
TYT_FELSEFE_DIN == Subject("TYT_FELSEFE_DIN", "TYT", 9, <<
    <<5, 4>>, <<3, 3>> >>)

\* Section TYT.
Section_TYT == Section("TYT", 1,
    <<TYT_TURKCE, TYT_MATEMATIK, TYT_GEOMETRI, TYT_FIZIK, TYT_KIMYA,
      TYT_BIYOLOJI, TYT_TARIH, TYT_COGRAFYA, TYT_FELSEFE_DIN>>)

AYT_MATEMATIK == Subject("AYT_MATEMATIK", "AYT_SAYISAL", 1, <<
    <<6, 4>>, <<6, 4>>, <<12, 5>>, <<6, 4>>, <<5, 4>>, <<6, 4>>, <<14, 5>>,
    <<14, 5>> >>)
AYT_FIZIK == Subject("AYT_FIZIK", "AYT_SAYISAL", 2, <<
    <<4, 3>>, <<6, 4>>, <<5, 4>>, <<5, 4>>, <<10, 5>>, <<7, 4>>, <<8, 4>> >>)
AYT_KIMYA == Subject("AYT_KIMYA", "AYT_SAYISAL", 3, <<
    <<6, 4>>, <<5, 4>>, <<5, 4>>, <<8, 5>>, <<7, 5>>, <<12, 5>> >>)
AYT_BIYOLOJI == Subject("AYT_BIYOLOJI", "AYT_SAYISAL", 4, <<
    <<7, 4>>, <<8, 5>>, <<7, 4>>, <<7, 5>>, <<7, 5>>, <<8, 5>> >>)

\* Section AYT_SAYISAL.
Section_AYT_SAYISAL == Section("AYT_SAYISAL", 2,
    <<AYT_MATEMATIK, AYT_FIZIK, AYT_KIMYA, AYT_BIYOLOJI>>)

AYT_EDEBIYAT == Subject("AYT_EDEBIYAT", "AYT_ESIT_AGIRLIK", 1, <<
    <<7, 5>>, <<6, 4>>, <<8, 5>>, <<7, 4>>, <<12, 5>>, <<3, 3>> >>)
AYT_TARIH_1_2 == Subject("AYT_TARIH_1_2", "AYT_ESIT_AGIRLIK", 2, <<
    <<6, 4>>, <<8, 5>>, <<6, 4>> >>)
AYT_COGRAFYA_1_2 == Subject("AYT_COGRAFYA_1_2", "AYT_ESIT_AGIRLIK", 3, <<
    <<4, 4>>, <<6, 5>>, <<5, 4>> >>)

\* Section AYT_ESIT_AGIRLIK.
Section_AYT_ESIT_AGIRLIK == Section("AYT_ESIT_AGIRLIK", 3,
    <<AYT_EDEBIYAT, AYT_TARIH_1_2, AYT_COGRAFYA_1_2>>)

YDT_INGILIZCE == Subject("YDT_INGILIZCE", "YDT_DIL", 1, <<
    <<12, 5>>, <<10, 4>>, <<15, 5>>, <<8, 4>> >>)

\* Section YDT_DIL.
Section_YDT_DIL == Section("YDT_DIL", 4,
    <<YDT_INGILIZCE>>)

SAT_RW_CRAFT_STRUCTURE == Subject("SAT_RW_CRAFT_STRUCTURE", "SAT_RW", 1, <<
    <<6, 5>>, <<6, 4>>, <<5, 4>> >>)
SAT_RW_INFO_IDEAS == Subject("SAT_RW_INFO_IDEAS", "SAT_RW", 2, <<
    <<5, 5>>, <<6, 5>>, <<5, 4>>, <<6, 5>> >>)
SAT_RW_CONVENTIONS == Subject("SAT_RW_CONVENTIONS", "SAT_RW", 3, <<
    <<5, 5>>, <<6, 5>>, <<4, 4>> >>)
SAT_RW_EXPRESSION == Subject("SAT_RW_EXPRESSION", "SAT_RW", 4, <<
    <<5, 4>>, <<5, 5>> >>)

\* Section SAT_RW.
Section_SAT_RW == Section("SAT_RW", 1,
    <<SAT_RW_CRAFT_STRUCTURE, SAT_RW_INFO_IDEAS,
      SAT_RW_CONVENTIONS, SAT_RW_EXPRESSION>>)

SAT_MATH_ALGEBRA == Subject("SAT_MATH_ALGEBRA", "SAT_MATH", 1, <<
    <<5, 5>>, <<6, 5>>, <<5, 4>>, <<6, 5>>, <<4, 4>> >>)
SAT_MATH_ADVANCED == Subject("SAT_MATH_ADVANCED", "SAT_MATH", 2, <<
    <<6, 5>>, <<7, 5>>, <<5, 4>>, <<7, 5>> >>)
SAT_MATH_PROBLEM_SOLVING == Subject("SAT_MATH_PROBLEM_SOLVING", "SAT_MATH", 3, <<
    <<5, 5>>, <<4, 5>>, <<5, 4>>, <<5, 4>>, <<4, 4>>, <<4, 3>>, <<3, 3>> >>)
SAT_MATH_GEOMETRY_TRIG == Subject("SAT_MATH_GEOMETRY_TRIG", "SAT_MATH", 4, <<
    <<4, 4>>, <<5, 4>>, <<6, 5>>, <<5, 4>> >>)

\* Section SAT_MATH.
Section_SAT_MATH == Section("SAT_MATH", 2,
    <<SAT_MATH_ALGEBRA, SAT_MATH_ADVANCED,
      SAT_MATH_PROBLEM_SOLVING, SAT_MATH_GEOMETRY_TRIG>>)
-----------------------------------------------------------------------------
(* The packs.                                                               *)

YKS == <<Section_TYT, Section_AYT_SAYISAL, Section_AYT_ESIT_AGIRLIK, Section_YDT_DIL>>
SAT == <<Section_SAT_RW, Section_SAT_MATH>>

Pack(exam) == IF exam = "SAT" THEN SAT ELSE YKS
=============================================================================
