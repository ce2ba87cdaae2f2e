-------------------------- MODULE MCHandlerReplies --------------------------
(* Every document of up to three members. *)
EXTENDS HandlerReplies
=============================================================================
