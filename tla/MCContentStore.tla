----------------------------- MODULE MCContentStore -----------------------------
(* Instances of ContentStore for TLC: model values for processes, digests and
   inodes, which are interchangeable as long as no digest is a sha512 one. *)
EXTENDS ContentStore, TLC

Symmetry == Permutations(Proc) \cup Permutations(Digest) \cup Permutations(Inode)
================================================================================
