------------------------------ MODULE MCCiJob ------------------------------
(* CiJob with a handful of processes and gates. *)
EXTENDS CiJob
=============================================================================
