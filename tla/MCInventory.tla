------------------------------ MODULE MCInventory ------------------------------
(* Instances of Inventory for TLC.                                           *)
EXTENDS Inventory

CONSTANTS a, b, u, v, d1, d2

\* The factory against the admin; two users of a device whose reset does not
\* overlap; users against resets, with claims and messages of the device.
Mixed ==
  {[jobs |-> {"factory", "mark", "reset", "delete"}, calls |-> 4, calm |-> FALSE,
    faulty |-> FALSE, pool |-> 3],
   [jobs |-> {"factory", "reset", "adopt", "sign", "remove"}, calls |-> 4, calm |-> TRUE,
    faulty |-> TRUE, pool |-> 3],
   [jobs |-> {"mark", "reset", "adopt", "sign", "claim"}, calls |-> 3, calm |-> FALSE,
    faulty |-> FALSE, pool |-> 3],
   [jobs |-> {"factory", "reset", "delete", "reg"}, calls |-> 3, calm |-> FALSE,
    faulty |-> TRUE, pool |-> 2]}
================================================================================
