------------------------------ MODULE MCRunStore ------------------------------
(* Two planned abilities, an extra one that the second query also asks for, and *)
(* verdicts on which the two queries disagree.                                  *)
EXTENDS RunStore

CONSTANTS a1, a2, extra, q1, q2

MCPlanned  == <<a1, a2>>
MCQueries  == {q1, q2}
MCRegistry == {a1, a2, extra}
MCSelected == [q \in MCQueries |-> IF q = q2 THEN {extra} ELSE {}]
MCVerdict  == [q \in MCQueries |->
                [a \in MCRegistry |-> IF q = q1 /\ a = a1 THEN "detected"
                                     ELSE IF q = q1 THEN "missed"
                                     ELSE IF a = a1 THEN "visibility_gap" ELSE "detected"]]
=============================================================================
