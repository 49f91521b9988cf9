---------------------------- MODULE MCOrgMembers ----------------------------
(* The user pivotal, one client, the groups clients and admins, one        *)
(* invitation at a time; only admins is ever nested in a group.            *)
EXTENDS OrgMembers
=============================================================================
