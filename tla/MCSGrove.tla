------------------------------ MODULE MCSGrove ------------------------------
(* SGrove on small instances; the .cfg files give the constants.             *)
EXTENDS SGrove, TLC
=============================================================================
