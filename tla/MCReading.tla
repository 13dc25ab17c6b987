----------------------------- MODULE MCReading -----------------------------
(* Small instances of Reading: the paths of MCObjectStore, and calls with one *)
(* query of everything or a query of the directory and one of the pack.       *)
EXTENDS MCObjectStore, Reading

MCQueries == { <<Path>>, <<{"a/", "a/f"}, {"n/"}>> }

(* Files, directories and packs come, change and go.                          *)
ReadStreams == { {Put("a/", h1), Pack("n/", h1)}, {Put("a/f", h2)},
                 {Del("a/f"), Pack("n/", Null)} }

=============================================================================
