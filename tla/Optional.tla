------------------------------ MODULE Optional ------------------------------
(***************************************************************************)
(* `Option::None`, shared by the modules whose records have optional fields. *)
(***************************************************************************)
CONSTANT None
=============================================================================
