----------------------- MODULE MCOrganizationDomains ------------------------
(* Instances of OrganizationDomains for TLC. *)
EXTENDS OrganizationDomains, TLC

CONSTANTS acme, globex, ann, bea

OneSeat == [o \in Orgs |-> 1]
Rivals == Permutations(Orgs)
=============================================================================
