------------------------------ MODULE MCCorpus ------------------------------
(* Instances of Corpus for TLC: two documents, under one file name or two. *)
EXTENDS Corpus, TLC

CONSTANTS report, notes, t1, t2, web1, web2

SameName == [d \in Docs |-> "report.pdf"]
OwnName  == [d \in Docs |-> IF d = notes THEN "notes.pdf" ELSE "report.pdf"]
Bytes    == [d \in Docs |-> 1]
Twins    == Permutations(Threads)
Scribe   == {<<t1, web1>>, <<t1, web2>>}
Reader   == {<<t2, web1>>}
One      == {<<t1, web1>>}
Both     == {<<t1, web1>>, <<t2, web1>>}
Plain    == {<<"inline", "local">>}
Either   == {<<"inline", "s3">>, <<"celery", "local">>}
=============================================================================
