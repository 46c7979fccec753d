-------------------------------- MODULE Tenancy ---------------------------------
(* The organizations every row is scoped to.                               *)
EXTENDS Naturals, FiniteSets

CONSTANTS
  Orgs,
  NoOrg

ASSUME TenancyAssumption == NoOrg \notin Orgs
================================================================================
