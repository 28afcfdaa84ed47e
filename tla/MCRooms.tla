------------------------------ MODULE MCRooms ------------------------------
(* Two sessions on one topic, with rooms and members to rejoin. *)
EXTENDS Rooms

CONSTANTS t1, s1, s2, r1, r2, m1, m2, m3, w1
=============================================================================
