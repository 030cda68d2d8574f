------------------------------ MODULE MCPresence ------------------------------
(* Instances of Presence for TLC.                                            *)
EXTENDS Presence

CONSTANTS s1, s2

\* Two instances, a session change at a time: a shared group one of whose
\* members crashes, a shared group whose database fails, and no group.
Prompts ==
  [grouped : {TRUE}, kind : {"mock", "firmware"}, prompt : {TRUE},
   faulty : {FALSE}, canCrash : {{s2}}] \cup
  [grouped : {TRUE}, kind : {"mock", "firmware"}, prompt : {TRUE},
   faulty : {TRUE}, canCrash : {{}}] \cup
  [grouped : {FALSE}, kind : {"firmware"}, prompt : {TRUE},
   faulty : {FALSE}, canCrash : {{}}]
===========================================================================
