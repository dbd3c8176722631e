----------------------- MODULE MCOrganizationAccounts -----------------------
(* Instances of OrganizationAccounts for TLC. *)
EXTENDS OrganizationAccounts, TLC

CONSTANTS ann, bea, cid, acme, hall, b1

OneDefault == [c \in Companies |-> hall]
TwoSeats == [c \in Companies |-> 2]
Alike == Permutations(Users)
=============================================================================
