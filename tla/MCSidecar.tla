----------------------------- MODULE MCSidecar -----------------------------
(* Two requests, streaming or buffered, over a chain of two models.         *)
EXTENDS Sidecar
=============================================================================
