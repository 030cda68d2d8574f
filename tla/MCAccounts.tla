-------------------------------- MODULE MCAccounts --------------------------------
(* Instances of Accounts, and of Sessions in it, for TLC.                      *)
EXTENDS Accounts, TLC

CONSTANTS w1, w2, w3, t1, t2, t3, t4, u, v

\* Guesses; rotations and logouts; deletions; registrations on one code that fail, and
\* on two that do not.
Mixed ==
  {[jobs |-> {"login", "guess"}, mails |-> 0, faulty |-> TRUE],
   [jobs |-> {"login", "refresh", "logout"}, mails |-> 0, faulty |-> TRUE],
   [jobs |-> {"login", "refresh", "logout", "delete"}, mails |-> 0, faulty |-> FALSE],
   [jobs |-> {"register", "logout"}, mails |-> 1, faulty |-> TRUE],
   [jobs |-> {"register", "logout"}, mails |-> 2, faulty |-> FALSE]}

Symmetry == Permutations({w1, w2, w3}) \cup Permutations({t1, t2, t3, t4})
================================================================================
