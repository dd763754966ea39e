------------------------------- MODULE Ledger -------------------------------
(***************************************************************************)
(* What a user is promised about credits: a balance starts at the signup   *)
(* allowance, every paid purchase is added to it exactly once, and every   *)
(* answered exchange takes exactly one credit from it.  Module Credits is  *)
(* the program that is supposed to keep this promise.                      *)
(***************************************************************************)
EXTENDS Naturals

CONSTANTS Users,          \* accounts
          Purchases,      \* completed checkout sessions that name a plan
          Buyer,          \* Buyer[p]: who paid for p
          Amount,         \* Amount[p]: the credits p's plan grants
          SignupCredits   \* the balance of a new account

VARIABLES balance,        \* balance[u]
          owed,           \* purchases paid for and not yet credited
          settled         \* purchases credited

vars == <<balance, owed, settled>>

Init == /\ balance = [u \in Users |-> SignupCredits]
        /\ owed = {}
        /\ settled = {}

\* The user pays: the service owes the credits from here on.
Purchase(p) == /\ p \notin owed \cup settled
               /\ owed' = owed \cup {p}
               /\ UNCHANGED <<balance, settled>>

\* The service pays its debt, once.
Credit(p) == /\ p \in owed
             /\ owed' = owed \ {p}
             /\ settled' = settled \cup {p}
             /\ balance' = [balance EXCEPT ![Buyer[p]] = @ + Amount[p]]

\* An answered exchange is charged.
Burn(u) == /\ balance[u] > 0
           /\ balance' = [balance EXCEPT ![u] = @ - 1]
           /\ UNCHANGED <<owed, settled>>

Next == \/ \E p \in Purchases : Purchase(p) \/ Credit(p)
        \/ \E u \in Users : Burn(u)

Spec == Init /\ [][Next]_vars
=============================================================================
