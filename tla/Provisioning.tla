------------------------------ MODULE Provisioning ------------------------------
(***************************************************************************)
(* What the inventory promises of one device: it is handed out once, then  *)
(* not again before it is taken back, and is removed only while nobody has *)
(* got it.  Its devices row is there from the hand-out on.                 *)
(***************************************************************************)
CONSTANTS Dids, None

VARIABLES
  item,         \* the did in the inventory, or None
  provisioned,  \* handed out
  given,        \* times it has been, since it was last taken back
  row           \* the did has a devices row

vars == <<item, provisioned, given, row>>

Init == item \in Dids /\ ~ provisioned /\ given = 0 /\ ~ row

HandOut ==
  /\ item # None /\ ~ provisioned /\ given = 0
  /\ provisioned' /\ given' = 1 /\ row'
  /\ UNCHANGED item

\* The row goes with it, unless the did has changed since it was looked up.
TakeBack ==
  /\ item # None
  /\ ~ provisioned' /\ given' = 0 /\ (row' => row)
  /\ UNCHANGED item

Remove ==
  /\ item # None /\ ~ provisioned
  /\ item' = None /\ ~ row'
  /\ UNCHANGED <<provisioned, given>>

Add ==
  /\ item = None
  /\ item' \in Dids /\ ~ row'
  /\ UNCHANGED <<provisioned, given>>

\* Whoever names the did may make its row.
Name ==
  /\ item # None /\ row'
  /\ UNCHANGED <<item, provisioned, given>>

Next == HandOut \/ TakeBack \/ Remove \/ Add \/ Name

Spec == Init /\ [][Next]_vars

================================================================================
