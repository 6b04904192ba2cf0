--------------------------- MODULE ReliableChannelMC ---------------------------
(* The module TLC runs; no symmetry, since a liveness property is checked. *)
EXTENDS ReliableChannel
================================================================================
