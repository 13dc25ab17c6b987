----------------------------- MODULE VersionedFs -----------------------------
(* What the object store promises: every project is a window of versions,     *)
(* each with the file system it had when it was published.  A published       *)
(* version never changes; versions are added at the new end, dropped from it  *)
(* by a rollback, and forgotten at the old end by garbage collection.         *)
EXTENDS Integers

CONSTANTS
  Project,   \* project ids
  FileSet,   \* the possible contents of a file system
  Version    \* version numbers, an initial segment of Nat

VARIABLE hist  \* hist[p][v]: the files of p at v; hist[p] is empty without p

Nothing == [v \in {} |-> {}]

First(h) == CHOOSE v \in DOMAIN h : \A w \in DOMAIN h : v <= w
Last(h)  == CHOOSE v \in DOMAIN h : \A w \in DOMAIN h : w <= v

Init == hist = [p \in Project |-> Nothing]

(* Only project p may change.                                                 *)
Others(p) == hist' = [hist EXCEPT ![p] = hist'[p]]

(* h is a window with the given versions, agreeing with old where both are.   *)
Window(h, versions, old) ==
  /\ DOMAIN h = versions
  /\ \A v \in versions : IF v \in DOMAIN old THEN h[v] = old[v] ELSE h[v] \in FileSet

Create(p) ==
  /\ hist[p] = Nothing
  /\ \E v \in Version : Window(hist'[p], {v}, Nothing)
  /\ Others(p)

Publish(p) ==
  /\ hist[p] # Nothing
  /\ Window(hist'[p], First(hist[p]) .. Last(hist[p]) + 1, hist[p])
  /\ Others(p)

(* A version in the window is restored exactly, one past its end is the last  *)
(* one again, and one that was forgotten comes back as anything.              *)
RolledBack(h, old, v) ==
  IF v < First(old)
  THEN Window(h, {v}, Nothing)
  ELSE h = [w \in First(old) .. v |-> IF w \in DOMAIN old THEN old[w] ELSE old[Last(old)]]

Rollback(p, v) ==
  /\ hist[p] # Nothing
  /\ RolledBack(hist'[p], hist[p], v)
  /\ Others(p)

(* The newest version is never forgotten.                                     *)
Forget(p, v) ==
  /\ hist[p] # Nothing
  /\ v \in First(hist[p]) .. Last(hist[p]) - 1
  /\ hist' = [hist EXCEPT ![p] = [w \in v .. Last(@) |-> @[w]]]

(* The projects in "gone" are deleted and the others stay as they are.        *)
Drop(gone) == hist' = [p \in Project |-> IF p \in gone THEN Nothing ELSE hist[p]]

(* Project p is rolled back to v, if it is there, and all others are deleted. *)
Reset(p, v) ==
  /\ IF hist[p] = Nothing THEN hist'[p] = Nothing ELSE RolledBack(hist'[p], hist[p], v)
  /\ hist' = [q \in Project |-> IF q = p THEN hist'[p] ELSE Nothing]

Next ==
  \/ \E p \in Project : \/ Create(p)
                        \/ Publish(p)
                        \/ Drop({p})
                        \/ \E v \in Version : Rollback(p, v) \/ Forget(p, v) \/ Reset(p, v)
  \/ Drop(Project)

Spec == Init /\ [][Next]_hist

=============================================================================
