-------------------------------- MODULE MCFanout -------------------------------
(* A small instance of Fanout.                                              *)
EXTENDS Fanout
================================================================================
