----------------------------- MODULE MCOnceTake -----------------------------
(* OnceTake with five callers: the worker and four cancellers at once. *)
EXTENDS OnceTake
=============================================================================
