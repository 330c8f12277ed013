----------------------------- MODULE MCArtifacts -----------------------------
(* The artifacts of one application, for TLC. *)
EXTENDS Artifacts, TLC

\* Versions, file names and contents are only compared.
Symmetric == Permutations(Version) \cup Permutations(File) \cup Permutations(Jar)
=============================================================================
