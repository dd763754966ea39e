---------------------------- MODULE MCAnswerCache ----------------------------
\* AnswerCache for TLC: three questions, where q1 and q2, and q2 and q3, are close.
EXTENDS AnswerCache, TLC
CONSTANTS q1, q2, q3, t1, t2

MCThreads == {t1, t2}
MCQueries == {q1, q2, q3}
MCSim == [x \in MCQueries \X MCQueries |->
            IF x[1] = x[2] THEN 3 ELSE IF {x[1], x[2]} = {q1, q3} THEN 1 ELSE 2]
Both == {"memory", "redis"}

\* The threads are alike, and so are q1 and q3.
Symmetry == {f @@ g : f \in Permutations(MCThreads),
                      g \in {[x \in {q1, q3} |-> x], (q1 :> q3 @@ q3 :> q1)}}
=============================================================================
