-------------------------- MODULE MCServerOptions --------------------------
(* Two calls of NewServer, each with up to two options. *)
EXTENDS ServerOptions

MCNumbers == {-1, 0, 7, 9}
=============================================================================
