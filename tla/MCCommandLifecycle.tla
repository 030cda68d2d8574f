-------------------------- MODULE MCCommandLifecycle --------------------------
(* Instances of CommandLifecycle for TLC: two tenants, the device's own and *)
(* the consumer tenant, and one device the requesting user owns.            *)
EXTENDS CommandLifecycle

CONSTANTS c1, c2, setu, acme, plug

MCHomeTid == [d \in {plug} |-> acme]

\* One command on any path with everything going wrong, two when nothing does.
Mixed ==
  {[cmds |-> {c1}, paths |-> Paths, dups |-> 1, faulty |-> TRUE],
   [cmds |-> {c1, c2}, paths |-> {"app"}, dups |-> 0, faulty |-> FALSE]}
===============================================================================
