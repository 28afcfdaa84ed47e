----------------------- MODULE MCServerProperties -----------------------
(* Small instances of ServerProperties for TLC. *)
EXTENDS ServerProperties
=============================================================================
