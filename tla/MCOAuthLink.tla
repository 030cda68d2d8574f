-------------------------------- MODULE MCOAuthLink --------------------------------
(* Instances of OAuthLink for TLC.                                             *)
EXTENDS OAuthLink, TLC

CONSTANTS a, b, u, v, alexa, google

\* One link with everything failing; rotations, revocations and exchanges of two
\* clients; two users, one of whom is deleted.
Mixed ==
  {[jobs |-> {"rotate"}, links |-> {<<u, google>>},
    codes |-> 2, pairs |-> 3, faulty |-> TRUE],
   [jobs |-> {"rotate", "revoke"}, links |-> {<<u, google>>, <<u, alexa>>},
    codes |-> 2, pairs |-> 3, faulty |-> FALSE],
   [jobs |-> {"disconnect", "delete"}, links |-> {<<u, google>>, <<v, google>>},
    codes |-> 2, pairs |-> 2, faulty |-> FALSE]}

\* A platform that links and disconnects.
Leaving ==
  {[jobs |-> {"disconnect"}, links |-> {<<u, google>>}, codes |-> 2, pairs |-> 2, faulty |-> FALSE]}

Symmetry == Permutations({a, b})
================================================================================
