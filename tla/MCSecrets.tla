------------------------------ MODULE MCSecrets ------------------------------
(* A build being submitted and a listing. *)
EXTENDS Secrets

CONSTANTS submit, list

MCCallers == {submit, list}
MCSavers == {submit}
=============================================================================
