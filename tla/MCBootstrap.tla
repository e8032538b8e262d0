---------------------------- MODULE MCBootstrap -----------------------------
(* An instance of Bootstrap: as many keys as deaths, and one more. *)
EXTENDS Bootstrap
=============================================================================
