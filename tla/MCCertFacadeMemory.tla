------------------------- MODULE MCCertFacadeMemory -------------------------
(* CertFacadeMemory for TLC: symmetric managers and ids.                   *)
EXTENDS CertFacadeMemory, TLC

Everywhere == PC \ {"idle"}
Symmetry == Permutations(Managers)
=============================================================================
