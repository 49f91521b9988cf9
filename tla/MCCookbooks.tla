---------------------------- MODULE MCCookbooks -----------------------------
(* Two uploaders, a cookbook version and an artifact.  The manifests have  *)
(* no file, a file that a start passes over, one that it takes for the     *)
(* frozen mark with a metadata.json that it refuses, or a path that cannot *)
(* be written.                                                             *)
EXTENDS Cookbooks, TLC

CONSTANTS c1, a1, cookbook, artifact, bad, dotfrozen, gitconfig, metadata, m, r1, u1, u2

MCFiles == <<dotfrozen, gitconfig, bad, metadata>>
MCNameOf == (c1 :> cookbook) @@ (a1 :> artifact)

NoFiles == <<>>
Skipping == (gitconfig :> r1) @@ (metadata :> m)
Misread == (dotfrozen :> m) @@ (metadata :> r1)
Misnamed == bad :> m

Job(v, files, force, freeze) ==
    [id |-> v, files |-> files, force |-> force, freeze |-> freeze]
MCJobs == { Job(c1, Skipping, TRUE, TRUE), Job(c1, Misread, FALSE, FALSE),
            Job(a1, Misnamed, TRUE, FALSE), Job(c1, NoFiles, FALSE, FALSE) }

MCSymmetry == Permutations({u1, u2})
=============================================================================
