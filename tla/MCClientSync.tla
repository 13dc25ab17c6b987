---------------------------- MODULE MCClientSync ----------------------------
(* Small instances of ClientSync: a directory "a" that may be empty (the      *)
(* marker "a/"), hold the files "a/f" and "a/g" or be a file itself, a file   *)
(* "b" and a pack "n/".                                                       *)
EXTENDS ClientSync

CONSTANTS h1, h2

MCPath == {"a", "a/", "a/f", "a/g", "b", "n/"}
MCDir == {"a/"}
MCInside == [q \in MCPath |-> IF q \in {"a", "a/"} THEN {"a/", "a/f", "a/g"} ELSE {}]
MCNode == {"a", "a/f", "a/g", "b", "n"}
MCUnder == [n \in MCNode |-> IF n = "a" THEN {"a/f", "a/g"} ELSE {}]
MCNodeOf == [q \in MCPath |-> CASE q = "a/" -> "a" [] q = "n/" -> "n" [] OTHER -> q]
MCRank == [q \in MCPath |-> CASE q = "a" -> 1 [] q = "a/" -> 2 [] q = "a/f" -> 3
                               [] q = "a/g" -> 4 [] q = "b" -> 5 [] OTHER -> 6]

At(path, hash) == [path |-> path, hash |-> hash]

(* A file becomes a directory and goes away; packs come, change and go.       *)
FileTrees == { {}, {At("a", h1)}, {At("a/f", h1), At("n/", h1)},
               {At("a/f", h2), At("a/g", h1), At("n/", h2)}, {At("a/", h1), At("n/", h2)} }
(* One directory with files, empty or not, and a file when it has gone.       *)
SmallTrees == { {}, {At("a/f", h1)}, {At("a/f", h2), At("a/g", h1)}, {At("a/", h1)}, {At("a", h1)} }
(* A file becomes a directory with two files in it.                           *)
CrowdTrees == { {At("a", h1)}, {At("a/f", h1), At("a/g", h1)} }
(* A directory with a file in it becomes a file.                              *)
FoldingTrees == { {At("a/f", h1)}, {At("a", h1)} }
(* An empty directory becomes a file.                                         *)
MarkerTrees == { {At("a/", h1)}, {At("a", h1)} }
(* The others write the file that is edited here, together with another one.  *)
SharedTrees == { {At("b", h1), At("a/f", h1)} }

=============================================================================
