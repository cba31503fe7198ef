-------------------------- MODULE MCRegistrySource --------------------------
(* Two validators, the lists of two releases and one that does not parse.   *)
EXTENDS RegistrySource

CONSTANTS v1, v2, old, new, broken

OldInForce == [list |-> old, effective_from |-> 0]
=============================================================================
