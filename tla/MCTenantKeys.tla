------------------------------ MODULE MCTenantKeys ------------------------------
(* Instances of TenantKeys for TLC.                                          *)
EXTENDS TenantKeys

CONSTANTS a, b, s1, s2, k1, k2, k3, legacy

\* Rotations and first uses at once; time passing over caches; failures.
Mixed ==
  {[warm |-> FALSE, jobs |-> Jobs, calls |-> 3, prompt |-> TRUE, faulty |-> TRUE, ticks |-> 0],
   [warm |-> TRUE, jobs |-> {"sign", "rotate"}, calls |-> 4, prompt |-> TRUE, faulty |-> FALSE,
    ticks |-> 3],
   [warm |-> TRUE, jobs |-> {"provision", "sign"}, calls |-> 4, prompt |-> FALSE,
    faulty |-> TRUE, ticks |-> 2]}

\* The first two requests of a tenant, nothing failing.
FirstUse ==
  {[warm |-> FALSE, jobs |-> {"provision", "sign"}, calls |-> 3, prompt |-> TRUE,
    faulty |-> FALSE, ticks |-> 0]}
================================================================================
