---------------------------- MODULE MCFileServer ----------------------------
(* FileServer on small file systems. *)
EXTENDS FileServer, TLC

CONSTANTS u1, u2   (* two of Uris *)

Symmetry == Permutations(Workers) \cup Permutations(Uris)

(* One chain of the hash map for all names. *)
OneBucket == [u \in Uris |-> 7]

Start(a, b, c) ==
  [u \in Uris |-> CASE u = u1 -> a [] u = u2 -> b [] OTHER -> c]

Empty == {Start("absent", "absent", "absent")}

(* A file to be created, a directory and a name in no directory; a denied  *)
(* file is to every action what a directory is.                            *)
Mixed == {Start("absent", "dir", "orphan")}

=============================================================================
