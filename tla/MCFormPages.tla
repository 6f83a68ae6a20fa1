---------------------------- MODULE MCFormPages -----------------------------
(* An instance of FormPages for TLC: two interviewers may be named, the    *)
(* clock has two hours of two minutes of two seconds, a user may type      *)
(* hours that belong to the next day, and that day has no first hour.      *)
EXTENDS FormPages

MCWord == [l \in {"interviewers", "tags", "strengths", "weaknesses"} |->
             IF l = "interviewers" THEN {"ann", "bob"}
             ELSE IF l = "strengths" THEN {"algorithms"} ELSE {}]

MCDay == 0 .. 1

=============================================================================
