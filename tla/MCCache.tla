------------------------------ MODULE MCCache ------------------------------
(* Sizes for TLC: one that main accepts by mistake, and the smallest.      *)
EXTENDS Cache

MCSizes == {-1, 1, 2, 3, 4}

=============================================================================
