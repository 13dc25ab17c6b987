--------------------------- MODULE MCObjectStore ---------------------------
(* Small instances of ObjectStore.  A path is a file "a/f" in a directory     *)
(* that may also be there as the empty directory "a/", or the packed parent   *)
(* "n/".                                                                      *)
EXTENDS ObjectStore, TLC

CONSTANTS h1, h2, none

MCPath == {"a/", "a/f", "n/"}
MCDir == {"a/"}
MCInside == [q \in MCPath |-> IF q = "a/" THEN {"a/", "a/f"} ELSE {}]
(* The sessions are interchangeable.                                         *)
Sessions == Permutations(Session)

MCPatterns == [p \in Project |-> none]

Put(path, hash) == [kind |-> "put", path |-> path, hash |-> hash]
Del(path) == [kind |-> "delete", path |-> path, hash |-> Null]
Pack(path, hash) == [kind |-> "pack", path |-> path, hash |-> hash]

MCSamples == (SUBSET Hash) \ {{}}

(* Streams of the single-project run: files, directories and packs alone and  *)
(* together.                                                                  *)
MixedStreams == { {Put("a/f", h1)}, {Put("a/f", h2)}, {Del("a/f")},
                  {Put("a/", h1), Put("a/f", h1)}, {Del("a/"), Put("a/f", h2)},
                  {Put("a/", h1), Pack("n/", h1)}, {Pack("n/", Null)},
                  {Del("a/f"), Pack("n/", h2)} }
(* Streams of the runs with several projects.                                 *)
PlainStreams == { {Put("a/f", h1)}, {Put("a/f", h2)}, {Del("a/f")} }
(* A stream may name a path twice: nothing in Fs.Update rejects it.           *)
RepeatingStreams == { {Put("a/f", h1), Put("a/f", h2)} }

=============================================================================
