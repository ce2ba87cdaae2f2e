---------------------------- MODULE MCPatchUser ----------------------------
(* Two requests, a user with a row and one without. *)
EXTENDS PatchUser
=============================================================================
