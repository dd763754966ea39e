----------------------------- MODULE MCAccounts -----------------------------
(* Two addresses, one of which Google spells with capitals; two threads of  *)
(* one process and one of another.                                          *)
EXTENDS Accounts, TLC

CONSTANTS ann, bea, t1, t2, t3, p1, p2

Homes  == t1 :> p1 @@ t2 :> p1 @@ t3 :> p2
Google == {<<ann, "lower">>, <<bea, "mixed">>}
Same   == Permutations(Passwords)
=============================================================================
