------------------------------ MODULE MCLocalKey ------------------------------
(* Instances of LocalKey for TLC: a device provisioned under the consumer    *)
(* tenant, setu.                                                             *)
EXTENDS LocalKey

CONSTANTS a, b, setu, k1, k2

\* Resets, wipes and failing statements; one disconnection and nothing else.
Mixed == {[drops |-> 0, faulty |-> TRUE, resets |-> TRUE],
          [drops |-> 1, faulty |-> FALSE, resets |-> FALSE]}
===============================================================================
