--------------------------- MODULE MCInstallation ---------------------------
(* Three releases: an update, an update whose binary fails its probe, and  *)
(* a signed rollback to the first version with the highest sequence.       *)
EXTENDS Installation

Release(version, sequence, manifest, binary, rollback) ==
    [version |-> version, sequence |-> sequence, manifest |-> manifest, binary |-> binary, rollback |-> rollback]

MCReleases ==
    {Release(2, 1, "m1", "b2", FALSE), Release(3, 2, "m2", "b3", FALSE), Release(1, 3, "m3", "b1", TRUE)}
=============================================================================
