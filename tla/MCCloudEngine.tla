--------------------------- MODULE MCCloudEngine ---------------------------
(* Model values for CloudEngine.                                            *)
EXTENDS CloudEngine, TLC

(* One job with a second address; two jobs, the first with one; three jobs. *)
OneJob    == <<2>>
TwoJobs   == <<2, 1>>
ThreeJobs == <<1, 1, 1>>

Symmetry == Permutations(Proc)
=============================================================================
