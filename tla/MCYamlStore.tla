---------------------------- MODULE MCYamlStore ----------------------------
(***************************************************************************)
(* YamlStore for TLC: processes and inodes are interchangeable.            *)
(***************************************************************************)
EXTENDS YamlStore, TLC

Symm == Permutations(Clients) \cup Permutations(Inodes)
=============================================================================
