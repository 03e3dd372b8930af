------------------------------ MODULE GitRefs ------------------------------
(***************************************************************************)
(* A bare repository as a backup and a restore see it: files.  A branch    *)
(* has a loose file under refs/, a line of packed-refs, both or neither,   *)
(* and the loose file wins; the object of a commit is a loose file or in a *)
(* pack.  Git itself is not in the repository: these operators state the   *)
(* file layout that internal/core/backup/git.go tars (HEAD, packed-refs,   *)
(* refs/; packed-refs absent until the repository has been packed once)    *)
(* and that internal/core/restore/state.go extracts again.                 *)
(***************************************************************************)
CONSTANTS
  Branches,   \* branch names
  Commits,    \* commits, each standing for its whole object closure
  NoCommit    \* "no such branch", not a commit

ASSUME NoCommitAssumption == NoCommit \notin Commits

Tips == [Branches -> Commits \union {NoCommit}]

NoTips == [b \in Branches |-> NoCommit]

(* hasPacked distinguishes an absent packed-refs from one listing nothing. *)
RefStore == [loose : Tips, packed : Tips, hasPacked : BOOLEAN]

EmptyRefs == [loose |-> NoTips, packed |-> NoTips, hasPacked |-> FALSE]

ObjectStore == [loose : SUBSET Commits, packed : SUBSET Commits]

EmptyObjects == [loose |-> {}, packed |-> {}]

(* What git resolves every branch to. *)
Effective(s) ==
  [b \in Branches |-> IF s.loose[b] # NoCommit THEN s.loose[b] ELSE s.packed[b]]

(* The commits some file of the store names. *)
NamedBy(s) ==
  {c \in Commits : \E b \in Branches : s.loose[b] = c \/ s.packed[b] = c}

Objects(o) == o.loose \union o.packed

(* A ref update writes a loose file and never touches packed-refs. *)
SetRef(s, b, c) == [s EXCEPT !.loose[b] = c]

(* Objects a push brings arrive loose; one already there is not written.   *)
AddObject(o, c) ==
  IF c \in Objects(o) THEN o ELSE [o EXCEPT !.loose = @ \union {c}]

(* git gc: every ref into packed-refs, every object into a pack.           *)
PackRefs(s) == [loose |-> NoTips, packed |-> Effective(s), hasPacked |-> TRUE]

Repack(o) == [loose |-> {}, packed |-> Objects(o)]

(* Files of store t as tar reads them, in the course of a walk that has    *)
(* already left s in the archive.                                          *)
ReadPacked(s, t) == [s EXCEPT !.packed = t.packed, !.hasPacked = t.hasPacked]

ReadLoose(s, t) == [s EXCEPT !.loose = t.loose]

(* Extracting the files of store `over` on top of those of store `under`:  *)
(* a file of `over` replaces, a file only `under` has stays.               *)
OverlayMutant(under, over) ==
  [loose     |-> [b \in Branches |-> IF under.loose[b] # NoCommit
                                     THEN under.loose[b] ELSE over.loose[b]],
   packed    |-> IF under.hasPacked THEN under.packed ELSE over.packed,
   hasPacked |-> over.hasPacked \/ under.hasPacked]

Overlay(under, over) ==
  [loose     |-> [b \in Branches |-> IF over.loose[b] # NoCommit
                                     THEN over.loose[b] ELSE under.loose[b]],
   packed    |-> IF over.hasPacked THEN over.packed ELSE under.packed,
   hasPacked |-> over.hasPacked \/ under.hasPacked]
=============================================================================
