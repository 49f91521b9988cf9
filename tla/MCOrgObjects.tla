---------------------------- MODULE MCOrgObjects ----------------------------
(* One node, a data bag with one item and one built-in container; two      *)
(* bodies and one that is not JSON.                                        *)
EXTENDS OrgObjects, TLC

CONSTANTS bag, item1

MCBagOf == item1 :> bag
=============================================================================
