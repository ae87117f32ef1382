---------------------------- MODULE MCInvocation ----------------------------
EXTENDS Invocation, TLC

CONSTANTS p, q, top, d

(* The base name of both files is the same: p is its path in the directory *)
(* top and q its path in d, as with /p, /d/p, / and /d.                    *)
MCEntry == [x \in DirPath \X Path |-> IF x[1] = top THEN p ELSE q]

(* Hosts and volume names are only compared with their like. *)
Symmetry == Permutations(Host) \cup Permutations(VolumeName)
=============================================================================
