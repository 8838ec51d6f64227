---------------------------- MODULE MCWorkQueue ----------------------------
(***************************************************************************)
(* Two work items and two clients.                                          *)
(***************************************************************************)
EXTENDS WorkQueue

CONSTANTS w1, w2, c1, c2
====
