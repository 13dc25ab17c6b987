-------------------------- MODULE MCUpdatePipeline --------------------------
(* Small instances of UpdatePipeline: the streams of MCTarPipeline, and diffs *)
(* that add, change and delete entries of the pack beside a plain file (4);   *)
(* one of them is for a file that is gone when it is read.                    *)
EXTENDS UpdatePipeline, MCTarPipeline

CONSTANTS h1, h2

E(path, hash) == [path |-> path, hash |-> hash]

MCDiffs == { <<E(2, h2), E(4, h1)>>,
             <<E(3, h2), E(1, h2), E(2, Deleted)>>,
             <<E(1, Deleted), E(3, Vanished)>>,
             <<E(4, h2)>> }

(* Packs as earlier merges leave them: not always in the order of the paths.  *)
MCPacks == { <<>>, <<E(3, h2), E(1, h1), E(2, h1)>> }

=============================================================================
