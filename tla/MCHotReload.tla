---------------------------- MODULE MCHotReload ----------------------------
(* HotReload with a handful of edits. *)
EXTENDS HotReload
=============================================================================
