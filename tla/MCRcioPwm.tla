------------------------------ MODULE MCRcioPwm ------------------------------
(* A small instance of RcioPwm: two channels in one frequency group, the      *)
(* first of which decides its frequency.                                      *)
EXTENDS RcioPwm

OneGroup == [c \in Channel |-> 0]
=============================================================================
