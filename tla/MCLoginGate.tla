---------------------------- MODULE MCLoginGate ----------------------------
(* A small instance of LoginGate: two clients, the first of which tries     *)
(* again and again, and an administrator who sets a site password.          *)
EXTENDS LoginGate

CONSTANTS x, y, last

FromTwo == [r \in Checks |-> IF r = last THEN y ELSE x]
=============================================================================
