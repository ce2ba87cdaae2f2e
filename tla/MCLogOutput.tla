---------------------------- MODULE MCLogOutput ----------------------------
(* Three handlers, so that one can be derived twice or from a derived one. *)
EXTENDS LogOutput
=============================================================================
