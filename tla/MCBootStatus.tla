---------------------------- MODULE MCBootStatus ----------------------------
(* TLC instances of BootStatus: connections are interchangeable as long as *)
(* they are all patient or all impatient.                                  *)
EXTENDS BootStatus, TLC

ConnSymmetry == Permutations(Conn)
=============================================================================
