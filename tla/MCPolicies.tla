----------------------------- MODULE MCPolicies -----------------------------
(* The policy web with the revisions 1, x-1 and one that cannot be a file  *)
(* name, and the policy web-x with the revision 1: web-x-1.json is the     *)
(* file of two of them.                                                    *)
EXTENDS Policies, TLC

CONSTANTS web, webx, web1, webx1, bad, wx1, f1, fx1, fbad

MCPolicyOf == (web1 :> web) @@ (webx1 :> web) @@ (bad :> web) @@ (wx1 :> webx)
MCFileName == (web1 :> f1) @@ (webx1 :> fx1) @@ (bad :> fbad) @@ (wx1 :> fx1)
MCReadAs == (f1 :> web1) @@ (fx1 :> wx1) @@ (fbad :> bad)
=============================================================================
