----------------------------- MODULE MCAccounts -----------------------------
(* Accounts for TLC: one parent's e-mail, typed with or without a capital,  *)
(* and the administrator's; two secrets that serve as passwords and as      *)
(* PINs, of which only one is long enough to register with.                 *)
EXTENDS Accounts, TLC

MCEmail == {"a", "A", "s"}
MCSeedEmail == "s"
MCLower == [e \in MCEmail |-> IF e = "A" THEN "a" ELSE e]
MCSecret == {"x", "y"}
MCLong == {"x"}
MCSeedPassword == "y"
MCBlockable == {"a"}

Symmetry == Permutations(Request) \cup Permutations(Token)
=============================================================================
