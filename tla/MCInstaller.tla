----------------------------- MODULE MCInstaller -----------------------------
EXTENDS Installer, TLC

CONSTANTS p1, p2, v1, v2, launcher, dropin, profile, bundle

AllPaths  == <<launcher, dropin, profile, bundle>>
Processes == Permutations(Procs) \cup Permutations(Versions)
===============================================================================
