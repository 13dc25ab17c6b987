---------------------------- MODULE QueryBuilder ----------------------------
(* The version queries of internal/db/queryBuilder.go, as operators on a set  *)
(* of rows of dl.objects.                                                      *)
(*                                                                             *)
(* A row is [project, start, stop, path, hash]; stop = Null is SQL's NULL, a   *)
(* live object.  "hash" stands for the row's (hash, mode, size, packed): two   *)
(* rows of a path are the same object exactly when all of these agree, which   *)
(* is what identical_objects_idx and the EXCEPT of CloneToProject compare.     *)
EXTENDS Integers

CONSTANTS
  Path,     \* object paths; a path in Dir ends with "/" and is an empty directory
  Dir,      \* the directory markers, a subset of Path
  Inside,   \* Inside[q]: the paths that start with q (q \in Dir) or with q "/"
  Null      \* SQL NULL, in stop_version

ASSUME PathAssumption ==
  /\ Dir \subseteq Path
  /\ Inside \in [Path -> SUBSET Path]
  /\ Null \notin Nat

(* The "dir/" markers above a path: previousPaths of UpdateObject without the  *)
(* path itself.                                                                *)
Parents(path) == {d \in Dir : path \in Inside[d]} \ {path}

Live(r) == r.stop = Null

(* The rows that are live at version "to" and younger than version "from": the *)
(* predicate of updated_objects.                                               *)
UpdatedRows(rows, project, from, to) ==
  {r \in rows : /\ r.project = project
                /\ r.start > from
                /\ r.start <= to
                /\ Live(r) \/ r.stop > to}

Entry(r) == [path |-> r.path, hash |-> r.hash]

updatedObjects(rows, project, from, to) ==
  {Entry(r) : r \in UpdatedRows(rows, project, from, to)}

(* queryWithoutRemovals, From = 0: the whole file system at a version.         *)
View(rows, project, version) == updatedObjects(rows, project, 0, version)

(* Mutant of removedObjects: what the very next version removed is missed.     *)
removedLater(rows, project, from, to) ==
  LET updated == {e.path : e \in updatedObjects(rows, project, from, to)}
      Gone(r) == /\ r.project = project
                 /\ r.start <= from
                 /\ ~Live(r)
                 /\ r.stop > from + 1
                 /\ r.stop <= to
  IN  {r.path : r \in {o \in rows : Gone(o)}} \ updated

(* removed_objects: the paths a client at version "from" has and must delete   *)
(* to be at version "to".                                                      *)
removedObjects(rows, project, from, to) ==
  LET updated == {e.path : e \in updatedObjects(rows, project, from, to)}
      Gone(r) == /\ r.project = project
                 /\ r.start <= from
                 /\ ~Live(r)
                 /\ r.stop > from
                 /\ r.stop <= to
      Skipped(q) == \/ q \notin Dir /\ q \in updated
                    \/ Inside[q] \cap updated # {}
  IN  {q \in {r.path : r \in {o \in rows : Gone(o)}} : ~Skipped(q)}

=============================================================================
