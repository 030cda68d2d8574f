------------------------------- MODULE WriteOnce -------------------------------
(***************************************************************************)
(* What localkey.getOrCreateRaw promises: one register per tenant that is  *)
(* written once, by whichever caller comes first, and read by all.         *)
(***************************************************************************)
CONSTANTS Callers, Tenants, Keys, None

VARIABLES
  stored,   \* the register of each tenant
  answer    \* what a caller holds: the register it asked for and its value

vars == <<stored, answer>>

Init ==
  /\ stored = [t \in Tenants |-> None]
  /\ answer = [c \in Callers |-> None]

Choose(t, k) ==
  /\ stored[t] = None
  /\ stored' = [stored EXCEPT ![t] = k]
  /\ UNCHANGED answer

Learn(c, t) ==
  /\ stored[t] # None
  /\ answer' = [answer EXCEPT ![c] = <<t, stored[t]>>]
  /\ UNCHANGED stored

Forget(c) ==
  /\ answer' = [answer EXCEPT ![c] = None]
  /\ UNCHANGED stored

Next ==
  \/ \E t \in Tenants, k \in Keys : Choose(t, k)
  \/ \E c \in Callers : Forget(c) \/ \E t \in Tenants : Learn(c, t)

Spec == Init /\ [][Next]_vars

================================================================================
