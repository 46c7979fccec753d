------------------------------ MODULE MCNumbering ------------------------------
(* Three sessions that issue into two series, up to three documents each.  *)
EXTENDS Numbering
================================================================================
