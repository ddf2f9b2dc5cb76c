----------------------------- MODULE MCClintArm -----------------------------
(* ClintArm with halves of three values: all half-writes at boot, every       *)
(* deadline, every carry of the counter and every tick between two stores.    *)
EXTENDS ClintArm
=============================================================================
