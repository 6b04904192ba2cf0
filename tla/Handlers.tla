------------------------------- MODULE Handlers --------------------------------
(* The threads that serve the connections, one each, and the clock that they read. *)
EXTENDS Naturals

CONSTANTS Handler, None

VARIABLE clock
================================================================================
