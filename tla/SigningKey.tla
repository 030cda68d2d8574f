------------------------------- MODULE SigningKey -------------------------------
(***************************************************************************)
(* What keystore.Service promises of a tenant's key pairs: there is one     *)
(* active key from the first one on, which changes at once and for a new   *)
(* one, and whatever goes out is or has been it.                            *)
(***************************************************************************)
CONSTANT Keys

VARIABLES
  active,  \* the active key, none before the first
  old,     \* the keys that were active before it
  out      \* the keys that devices and signatures have been made with

vars == <<active, old, out>>

Init ==
  /\ active = {} \/ \E k \in Keys : active = {k}
  /\ old = {} /\ out = {}

\* The first key, or the next.
Replace(k) ==
  /\ k \notin active \cup old
  /\ active' = {k}
  /\ old' = old \cup active
  /\ UNCHANGED out

HandOut(k) ==
  /\ k \in active \cup old
  /\ out' = out \cup {k}
  /\ UNCHANGED <<active, old>>

Next == \E k \in Keys : Replace(k) \/ HandOut(k)

Spec == Init /\ [][Next]_vars

================================================================================
