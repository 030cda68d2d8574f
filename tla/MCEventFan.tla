-------------------------------- MODULE MCEventFan --------------------------------
(* Instances of EventFan for TLC.                                              *)
EXTENDS EventFan, TLC

CONSTANTS c, d, g, h, u, v, alexa, google

\* Two clients, which may read slowly or hang up, and a Redis that loses events; two platforms,
\* the product enabled for one, then a user without a token for one, while statements fail;
\* a device of another tenant; one platform while the device changes hands.
Fan(sockets, events, sales, links, enabled, tokens, consumer, faulty) ==
  [clients |-> sockets, owner |-> u, reports |-> events, moves |-> sales, linked |-> links,
   supported |-> enabled, pushable |-> tokens, consumer |-> consumer, faulty |-> faulty]

Both == {<<u, alexa>>, <<u, google>>}

Mixed ==
  {Fan({c, d}, 3, 0, {}, {}, {}, TRUE, FALSE),
   Fan({c}, 3, 0, {}, {}, {}, TRUE, TRUE),
   Fan({}, 3, 0, Both, {alexa}, Both, TRUE, TRUE),
   Fan({}, 2, 0, Both, {alexa, google}, {<<u, google>>}, TRUE, TRUE),
   Fan({}, 2, 0, Both, {alexa, google}, Both, FALSE, FALSE),
   Fan({}, 2, 3, {<<u, google>>, <<v, google>>}, {google}, {<<u, google>>, <<v, google>>}, TRUE, FALSE)}
================================================================================
