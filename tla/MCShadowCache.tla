----------------------------- MODULE MCShadowCache -----------------------------
(* Instances of ShadowCache for TLC.                                         *)
EXTENDS ShadowCache

CONSTANTS a, b

\* Concurrent reports while statements fail and the app issues commands; reports
\* one at a time; the tenant API's refreshes, and documents that expire.
Mixed ==
  {[prompt |-> FALSE, path |-> "app", faulty |-> TRUE, expires |-> FALSE,
    changes |-> 2, asks |-> 0],
   [prompt |-> TRUE, path |-> "app", faulty |-> FALSE, expires |-> FALSE,
    changes |-> 2, asks |-> 1],
   [prompt |-> TRUE, path |-> "tenant", faulty |-> TRUE, expires |-> TRUE,
    changes |-> 1, asks |-> 1]}
================================================================================
