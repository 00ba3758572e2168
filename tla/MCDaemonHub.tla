---------------------------- MODULE MCDaemonHub ----------------------------
(* Small instances of DaemonHub.                                            *)
EXTENDS DaemonHub

CONSTANTS c1, c2, c3, d1, d2, d3, u1, u2, m1, m2, m3, t1, t2

(* One user with two daemons; d1 may reconnect, on c3, before the hub has   *)
(* noticed that c1 is dead.  Every message has the same thread.             *)
ReconnectDaemonOf == [c \in Conns |-> IF c = c2 THEN d2 ELSE d1]
ReconnectUserOf   == [d \in Daemons |-> u1]
ReconnectOwnerOf  == [m \in Messages |-> u1]
ReconnectThreadOf == [m \in Messages |-> t1]

(* One connection per daemon; d3 and the message m3 belong to a second user.*)
SeparateDaemonOf == [c \in Conns |-> CASE c = c1 -> d1 [] c = c2 -> d2 [] c = c3 -> d3]
SeparateUserOf   == [d \in Daemons |-> IF d = d3 THEN u2 ELSE u1]
SeparateOwnerOf  == [m \in Messages |-> IF m = m3 THEN u2 ELSE u1]
SeparateThreadOf == [m \in Messages |-> IF m = m3 THEN t2 ELSE t1]
=============================================================================
