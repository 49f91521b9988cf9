------------------------------- MODULE MCKeys -------------------------------
(* The superuser, a user alice with up to two keys, and one client, the    *)
(* validator, on a server that is always started with --org and --tls.     *)
EXTENDS Keys

CONSTANT alice

SidecarOrACL == {Sidecar(alice), ACLPath(alice)}
=============================================================================
