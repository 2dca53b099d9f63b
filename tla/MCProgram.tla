------------------------------ MODULE MCProgram ------------------------------
(* Program with the tasks of MCThreadManager. *)
EXTENDS Program, MCThreadManager
=============================================================================
