--------------------------- MODULE BackupCapture ---------------------------
(***************************************************************************)
(* internal/core/backup: the capture a `backup` takes of a live forge.     *)
(* Run (backup.go) holds pushes at the Caddy proxy, captures the database, *)
(* records every repository's refs, releases the hold, then tars the       *)
(* repositories, copies the blobs and verifies what it holds.  Meanwhile   *)
(* the forge lives: pushes arrive over HTTP (through Caddy) and over SSH   *)
(* (straight to the forge's published port), repositories and LFS objects  *)
(* come and go, git gc moves files.  Several backups may run at once: the  *)
(* API starts each in its own goroutine and nothing excludes a second CLI. *)
(*                                                                         *)
(* A call to the host can fail having had its effect, not having had it,   *)
(* or with the command still running there: `late` holds the reloads that  *)
(* may yet apply.  The farrier process may die at any step.                *)
(*                                                                         *)
(* Bounds: a repository name is used once (no delete-and-recreate); each   *)
(* job of Jobs is one backup.  captureKeys is only a step that may fail:   *)
(* what it reads of a pair that changes meanwhile is in Certificates.      *)
(***************************************************************************)
EXTENDS GitRefs, FiniteSets

CONSTANTS
  Jobs,         \* backups
  Repos,        \* repository names, "<owner>/<repo>"
  Blobs,        \* LFS objects and attachments
  Events,       \* what befalls the forge: a subset of EventKinds
  NoRepo        \* no repository

EventKinds == {"http", "ssh", "delete", "gc", "restart", "crash"}

ASSUME NoRepoAssumption == NoRepo \notin Repos
ASSUME EventsAssumption == Events \subseteq EventKinds

VARIABLES
  \* the live forge
  rows,         \* the database's repository table
  dirs,         \* repository directories on disk
  used,         \* names ever given to a repository
  refs,         \* the ref files of each repository
  objects,      \* the object files of each repository
  lfsRows,      \* LFS and attachment rows of the database
  stored,       \* objects in blob storage
  \* the proxy
  caddy,        \* the configuration Caddy runs
  late,         \* reloads sent to the host whose caller has given up
  inflight,     \* HTTP pushes Caddy has already passed on
  \* the backups
  pc,           \* where each backup is
  captured,     \* did the capture under the hold succeed?
  todo,         \* repositories, then blobs, still to be captured
  cur,          \* the repository being captured
  pieces,       \* the parts of it tar has yet to read
  \* the snapshots
  dbRows, dbTips, dbLfs,   \* what db.sqlite says
  pinned, pinnedOf,        \* repos/<name>.refs.tar, and which are there
  tarRefs, tarObjects,     \* repos/<name>.tar
  tarred,                  \* which of those are there
  copied,                  \* blobs/
  \* history: what the hold could not keep out of a backup's window, and
  \* what its captured database names and was deleted before it was copied
  exposed, housekept, lost

forgeVars == <<rows, dirs, used, refs, objects, lfsRows, stored>>
proxyVars == <<caddy, late, inflight>>
snapVars  == <<dbRows, dbTips, dbLfs, pinned, pinnedOf, tarRefs, tarObjects,
               tarred, copied>>
workVars  == <<captured, todo, cur, pieces>>
histVars  == <<exposed, housekept, lost>>
vars == <<forgeVars, proxyVars, pc, workVars, snapVars, histVars>>

Configs == {"original", "hold"}

(* The order tar writes in is the host's: the whole directory, any order. *)
PiecesMutant == {"packed-refs", "refs", "objects"}
Pieces == {"packed-refs", "refs", "objects", "pack"}

Holding == {"database", "remotes", "refs", "refs-loose", "release"}

AfterHold == {"objects", "tar", "blobs", "blob", "keys", "verify"}

Ended == {"succeeded", "failed", "engageFailed", "releaseFailed", "crashed"}

Phases == {"idle", "engage"} \union Holding \union AfterHold \union Ended

Active(j) == pc[j] \notin {"idle"} \union Ended

(* j engaged the hold and has not released it. *)
InHold(j) == pc[j] \in Holding

Init ==
  /\ rows = {} /\ dirs = {} /\ used = {} /\ lfsRows = {} /\ stored = {}
  /\ refs = [r \in Repos |-> EmptyRefs]
  /\ objects = [r \in Repos |-> EmptyObjects]
  /\ caddy = "original" /\ late = {} /\ inflight = {}
  /\ pc = [j \in Jobs |-> "idle"]
  /\ captured = [j \in Jobs |-> FALSE]
  /\ todo = [j \in Jobs |-> {}]
  /\ cur = [j \in Jobs |-> NoRepo]
  /\ pieces = [j \in Jobs |-> {}]
  /\ dbRows = [j \in Jobs |-> {}]
  /\ dbTips = [j \in Jobs |-> [r \in Repos |-> NoTips]]
  /\ dbLfs = [j \in Jobs |-> {}]
  /\ pinned = [j \in Jobs |-> [r \in Repos |-> EmptyRefs]]
  /\ pinnedOf = [j \in Jobs |-> {}]
  /\ tarRefs = [j \in Jobs |-> [r \in Repos |-> EmptyRefs]]
  /\ tarObjects = [j \in Jobs |-> [r \in Repos |-> {}]]
  /\ tarred = [j \in Jobs |-> {}]
  /\ copied = [j \in Jobs |-> {}]
  /\ exposed = [j \in Jobs |-> FALSE]
  /\ housekept = [j \in Jobs |-> {}]
  /\ lost = [j \in Jobs |-> {}]

-----------------------------------------------------------------------------
(* The forge's own life.  None of it is farrier's code. *)

(* The database's branch table follows the refs, so a ref update is one    *)
(* step and dbTips below is read off the refs.                             *)
ApplyPush(r, b, c) ==
  /\ refs' = [refs EXCEPT ![r] = SetRef(@, b, c)]
  /\ objects' = [objects EXCEPT ![r] = AddObject(@, c)]

(* A push to the smart-HTTP endpoint: refused by the hold configuration,   *)
(* otherwise handed to the forge, where it lands some time later, whatever *)
(* Caddy is reloaded to in between.                                        *)
AdmitHTTPPush(r, b, c) ==
  /\ "http" \in Events
  /\ caddy = "original"
  /\ r \in dirs
  /\ <<r, b, c>> \notin inflight
  /\ inflight' = inflight \union {<<r, b, c>>}
  /\ UNCHANGED <<forgeVars, caddy, late, pc, workVars, snapVars, histVars>>

LandHTTPPush(r, b, c) ==
  /\ <<r, b, c>> \in inflight
  /\ inflight' = inflight \ {<<r, b, c>>}
  /\ IF r \in dirs THEN ApplyPush(r, b, c) ELSE UNCHANGED <<refs, objects>>
  /\ UNCHANGED <<rows, dirs, used, lfsRows, stored, caddy, late, pc, workVars,
                 snapVars, histVars>>

(* The forge's SSH port is published on the host directly (publishGitSSH); *)
(* Caddy never sees this push.                                             *)
SSHPush(r, b, c) ==
  /\ "ssh" \in Events
  /\ r \in dirs
  /\ ApplyPush(r, b, c)
  /\ exposed' = [j \in Jobs |-> exposed[j] \/ InHold(j)]
  /\ UNCHANGED <<rows, dirs, used, lfsRows, stored, proxyVars, pc, workVars,
                 snapVars, housekept, lost>>

CreateRepo(r) ==
  /\ r \notin used
  /\ used' = used \union {r}
  /\ rows' = rows \union {r}
  /\ dirs' = dirs \union {r}
  /\ UNCHANGED <<refs, objects, lfsRows, stored, proxyVars, pc, workVars,
                 snapVars, histVars>>

(* A backup under way whose database names it, and which has no copy yet.  *)
Loses(x, named, copies) ==
  lost' = [j \in Jobs |-> IF Active(j) /\ x \in named[j] \ copies[j]
                          THEN lost[j] \union {x} ELSE lost[j]]

DeleteRepo(r) ==
  /\ "delete" \in Events
  /\ r \in dirs
  /\ rows' = rows \ {r}
  /\ dirs' = dirs \ {r}
  /\ Loses(r, dbRows, tarred)
  /\ UNCHANGED <<used, refs, objects, lfsRows, stored, proxyVars, pc, workVars,
                 snapVars, exposed, housekept>>

UploadBlob(x) ==
  /\ x \notin stored
  /\ stored' = stored \union {x}
  /\ lfsRows' = lfsRows \union {x}
  /\ UNCHANGED <<rows, dirs, used, refs, objects, proxyVars, pc, workVars,
                 snapVars, histVars>>

DeleteBlob(x) ==
  /\ "delete" \in Events
  /\ x \in stored
  /\ stored' = stored \ {x}
  /\ lfsRows' = lfsRows \ {x}
  /\ Loses(x, dbLfs, copied)
  /\ UNCHANGED <<rows, dirs, used, refs, objects, proxyVars, pc, workVars,
                 snapVars, exposed, housekept>>

(* git gc: packs refs and objects.  It loses nothing, it moves files.      *)
Gc(r) ==
  /\ "gc" \in Events
  /\ r \in dirs
  /\ refs' = [refs EXCEPT ![r] = PackRefs(@)]
  /\ objects' = [objects EXCEPT ![r] = Repack(@)]
  /\ housekept' = [j \in Jobs |-> IF Active(j) THEN housekept[j] \union {r}
                                               ELSE housekept[j]]
  /\ UNCHANGED <<rows, dirs, used, lfsRows, stored, proxyVars, pc, workVars,
                 snapVars, exposed, lost>>

(* Any reload or restart of Caddy that is not j's own leaves j exposed.    *)
LiftsHoldOf(others) ==
  exposed' = [j \in Jobs |-> exposed[j] \/ (j \in others /\ InHold(j))]

(* A restarted container reads the mounted Caddyfile, which no hold edits. *)
CaddyRestart ==
  /\ "restart" \in Events
  /\ caddy' = "original"
  /\ LiftsHoldOf(Jobs)
  /\ UNCHANGED <<forgeVars, late, inflight, pc, workVars, snapVars, housekept, lost>>

LateReload(cfg) ==
  /\ cfg \in late
  /\ late' = late \ {cfg}
  /\ caddy' = cfg
  /\ LiftsHoldOf(IF cfg = "original" THEN Jobs ELSE {})
  /\ UNCHANGED <<forgeVars, inflight, pc, workVars, snapVars, housekept, lost>>

-----------------------------------------------------------------------------
(* The backups. *)

Goto(j, phase) == pc' = [pc EXCEPT ![j] = phase]

At(j, phase) == pc[j] = phase

(* Run's validate step: parameters only. *)
Start(j) ==
  /\ At(j, "idle")
  /\ Goto(j, "engage")
  /\ UNCHANGED <<forgeVars, proxyVars, workVars, snapVars, histVars>>

(* CaddyPushHold.Engage.  A push Caddy passed on before the reload is not  *)
(* called back by it.                                                      *)
EngageMutant(j) ==
  /\ At(j, "engage")
  /\ exposed' = [exposed EXCEPT ![j] = inflight # {}]
  /\ Goto(j, "database")
  /\ UNCHANGED <<forgeVars, caddy, late, inflight, workVars, snapVars, housekept, lost>>

Engage(j) ==
  /\ At(j, "engage")
  /\ caddy' = "hold"
  /\ exposed' = [exposed EXCEPT ![j] = inflight # {}]
  /\ Goto(j, "database")
  /\ UNCHANGED <<forgeVars, late, inflight, workVars, snapVars, housekept, lost>>

(* The reload failed, or its answer never came.  captureUnderHold returns  *)
(* before the deferred Release exists.                                     *)
EngageFails(j) ==
  /\ At(j, "engage")
  /\ late' \in {late, late \union {"hold"}}
  /\ Goto(j, "engageFailed")
  /\ UNCHANGED <<forgeVars, caddy, inflight, workVars, snapVars, histVars>>

CaptureDatabase(j) ==
  /\ At(j, "database")
  /\ dbRows' = [dbRows EXCEPT ![j] = rows]
  /\ dbTips' = [dbTips EXCEPT ![j] = [r \in Repos |-> Effective(refs[r])]]
  /\ dbLfs' = [dbLfs EXCEPT ![j] = lfsRows]
  /\ Goto(j, "remotes")
  /\ UNCHANGED <<forgeVars, proxyVars, workVars, histVars, pinned, pinnedOf,
                 tarRefs, tarObjects, tarred, copied>>

(* Git.Remotes: the directories there are now. *)
ListRemotes(j) ==
  /\ At(j, "remotes")
  /\ todo' = [todo EXCEPT ![j] = dirs]
  /\ Goto(j, "refs")
  /\ UNCHANGED <<forgeVars, proxyVars, captured, cur, pieces, snapVars, histVars>>

(* GitCapturer.Refs tars packed-refs, then refs/: two reads of a directory *)
(* the forge may be writing.                                               *)
RecordPackedRefs(j, r) ==
  /\ At(j, "refs")
  /\ r \in todo[j] \intersect dirs
  /\ todo' = [todo EXCEPT ![j] = @ \ {r}]
  /\ cur' = [cur EXCEPT ![j] = r]
  /\ pinned' = [pinned EXCEPT ![j][r] = ReadPacked(@, refs[r])]
  /\ Goto(j, "refs-loose")
  /\ UNCHANGED <<forgeVars, proxyVars, captured, pieces, histVars, dbRows,
                 dbTips, dbLfs, pinnedOf, tarRefs, tarObjects, tarred, copied>>

RecordLooseRefs(j) ==
  /\ At(j, "refs-loose")
  /\ cur[j] \in dirs
  /\ pinned' = [pinned EXCEPT ![j][cur[j]] = ReadLoose(@, refs[cur[j]])]
  /\ pinnedOf' = [pinnedOf EXCEPT ![j] = @ \union {cur[j]}]
  /\ Goto(j, "refs")
  /\ UNCHANGED <<forgeVars, proxyVars, workVars, histVars, dbRows, dbTips,
                 dbLfs, tarRefs, tarObjects, tarred, copied>>

RefsRecordedMutant(j) ==
  /\ At(j, "refs")
  /\ todo[j] = {}
  /\ dbRows' = [dbRows EXCEPT ![j] = rows]
  /\ captured' = [captured EXCEPT ![j] = TRUE]
  /\ Goto(j, "release")
  /\ UNCHANGED <<forgeVars, proxyVars, todo, cur, pieces, histVars, dbTips, dbLfs,
                 pinned, pinnedOf, tarRefs, tarObjects, tarred, copied>>

RefsRecorded(j) ==
  /\ At(j, "refs")
  /\ todo[j] = {}
  /\ captured' = [captured EXCEPT ![j] = TRUE]
  /\ Goto(j, "release")
  /\ UNCHANGED <<forgeVars, proxyVars, todo, cur, pieces, snapVars, histVars>>

(* Any error under the hold, a repository gone since it was listed, the    *)
(* ceiling or a cancelled context: the deferred Release still runs.        *)
CaptureFailsMutant(j) ==
  /\ pc[j] \in {"database", "remotes", "refs", "refs-loose"}
  /\ Goto(j, "failed")
  /\ UNCHANGED <<forgeVars, proxyVars, workVars, snapVars, histVars>>

CaptureFails(j) ==
  /\ pc[j] \in {"database", "remotes", "refs", "refs-loose"}
  /\ Goto(j, "release")
  /\ UNCHANGED <<forgeVars, proxyVars, workVars, snapVars, histVars>>

Release(j) ==
  /\ At(j, "release")
  /\ caddy' = "original"
  /\ LiftsHoldOf(Jobs \ {j})
  /\ todo' = [todo EXCEPT ![j] = pinnedOf[j]]
  /\ Goto(j, IF captured[j] THEN "objects" ELSE "failed")
  /\ UNCHANGED <<forgeVars, late, inflight, captured, cur, pieces, snapVars,
                 housekept, lost>>

ReleaseFails(j) ==
  /\ At(j, "release")
  /\ late' \in {late, late \union {"original"}}
  /\ Goto(j, "releaseFailed")
  /\ UNCHANGED <<forgeVars, caddy, inflight, workVars, snapVars, histVars>>

(* captureGitObjects: tar of each repository directory, read piecemeal.    *)
OpenRepo(j, r) ==
  /\ At(j, "objects")
  /\ r \in todo[j] \intersect dirs
  /\ todo' = [todo EXCEPT ![j] = @ \ {r}]
  /\ cur' = [cur EXCEPT ![j] = r]
  /\ pieces' = [pieces EXCEPT ![j] = Pieces]
  /\ Goto(j, "tar")
  /\ UNCHANGED <<forgeVars, proxyVars, captured, snapVars, histVars>>

PieceRefs(p, s, t) ==
  CASE p = "packed-refs" -> ReadPacked(s, t)
    [] p = "refs"        -> ReadLoose(s, t)
    [] OTHER             -> s

PieceObjects(p, o) ==
  CASE p = "objects" -> o.loose
    [] p = "pack"    -> o.packed
    [] OTHER         -> {}

TarPiece(j, p) ==
  LET r == cur[j] IN
  /\ At(j, "tar")
  /\ p \in pieces[j]
  /\ r \in dirs
  /\ pieces' = [pieces EXCEPT ![j] = @ \ {p}]
  /\ tarRefs' = [tarRefs EXCEPT ![j][r] = PieceRefs(p, @, refs[r])]
  /\ tarObjects' = [tarObjects EXCEPT ![j][r] = @ \union PieceObjects(p, objects[r])]
  /\ UNCHANGED <<forgeVars, proxyVars, pc, captured, todo, cur, histVars, dbRows,
                 dbTips, dbLfs, pinned, pinnedOf, tarred, copied>>

CloseRepo(j) ==
  /\ At(j, "tar")
  /\ pieces[j] = {}
  /\ tarred' = [tarred EXCEPT ![j] = @ \union {cur[j]}]
  /\ Goto(j, "objects")
  /\ UNCHANGED <<forgeVars, proxyVars, workVars, histVars, dbRows, dbTips, dbLfs,
                 pinned, pinnedOf, tarRefs, tarObjects, copied>>

ObjectsCaptured(j) ==
  /\ At(j, "objects")
  /\ todo[j] = {}
  /\ Goto(j, "blobs")
  /\ UNCHANGED <<forgeVars, proxyVars, workVars, snapVars, histVars>>

(* captureBlobs: one List, then a Get for each name listed. *)
ListBlobs(j) ==
  /\ At(j, "blobs")
  /\ todo' = [todo EXCEPT ![j] = stored]
  /\ Goto(j, "blob")
  /\ UNCHANGED <<forgeVars, proxyVars, captured, cur, pieces, snapVars, histVars>>

CopyBlob(j, x) ==
  /\ At(j, "blob")
  /\ x \in todo[j] \intersect stored
  /\ todo' = [todo EXCEPT ![j] = @ \ {x}]
  /\ copied' = [copied EXCEPT ![j] = @ \union {x}]
  /\ UNCHANGED <<forgeVars, proxyVars, pc, captured, cur, pieces, histVars, dbRows,
                 dbTips, dbLfs, pinned, pinnedOf, tarRefs, tarObjects, tarred>>

BlobsCaptured(j) ==
  /\ At(j, "blob")
  /\ todo[j] = {}
  /\ Goto(j, "keys")
  /\ UNCHANGED <<forgeVars, proxyVars, workVars, snapVars, histVars>>

(* captureKeys and writeManifest. *)
CaptureKeys(j) ==
  /\ At(j, "keys")
  /\ Goto(j, "verify")
  /\ UNCHANGED <<forgeVars, proxyVars, workVars, snapVars, histVars>>

(* verifyCrossConsistency: every repository row has both archives, every   *)
(* LFS and attachment row a blob.  It opens no archive.                    *)
CrossConsistent(j) ==
  /\ dbRows[j] \subseteq tarred[j] \intersect pinnedOf[j]
  /\ dbLfs[j] \subseteq copied[j]

VerifyMutant(j) ==
  /\ At(j, "verify")
  /\ Goto(j, IF CrossConsistent(j) THEN "succeeded" ELSE "unverified")
  /\ UNCHANGED <<forgeVars, proxyVars, workVars, snapVars, histVars>>

Verify(j) ==
  /\ At(j, "verify")
  /\ Goto(j, IF CrossConsistent(j) THEN "succeeded" ELSE "failed")
  /\ UNCHANGED <<forgeVars, proxyVars, workVars, snapVars, histVars>>

(* An error after the release: a repository or blob gone since it was      *)
(* listed, an I/O error, a cancelled context.                              *)
StepFails(j) ==
  /\ pc[j] \in AfterHold
  /\ Goto(j, "failed")
  /\ UNCHANGED <<forgeVars, proxyVars, workVars, snapVars, histVars>>

(* The farrier process dies; a reload it had sent may still apply. *)
Crash(j) ==
  /\ "crash" \in Events
  /\ Active(j)
  /\ late' \in {late, late \union (CASE At(j, "engage")  -> {"hold"}
                                     [] At(j, "release") -> {"original"}
                                     [] OTHER            -> {})}
  /\ Goto(j, "crashed")
  /\ UNCHANGED <<forgeVars, caddy, inflight, workVars, snapVars, histVars>>

-----------------------------------------------------------------------------
Environment ==
  \/ \E r \in Repos, b \in Branches, c \in Commits :
       \/ AdmitHTTPPush(r, b, c)
       \/ LandHTTPPush(r, b, c)
       \/ SSHPush(r, b, c)
  \/ \E r \in Repos : CreateRepo(r) \/ DeleteRepo(r) \/ Gc(r)
  \/ \E x \in Blobs : UploadBlob(x) \/ DeleteBlob(x)
  \/ \E cfg \in Configs : LateReload(cfg)
  \/ CaddyRestart

Step(j) ==
  \/ Engage(j) \/ EngageFails(j)
  \/ CaptureDatabase(j) \/ ListRemotes(j)
  \/ \E r \in Repos : RecordPackedRefs(j, r) \/ OpenRepo(j, r)
  \/ RecordLooseRefs(j) \/ RefsRecorded(j) \/ CaptureFails(j)
  \/ Release(j) \/ ReleaseFails(j)
  \/ \E p \in Pieces : TarPiece(j, p)
  \/ CloseRepo(j) \/ ObjectsCaptured(j)
  \/ ListBlobs(j) \/ \E x \in Blobs : CopyBlob(j, x)
  \/ BlobsCaptured(j) \/ CaptureKeys(j) \/ Verify(j) \/ StepFails(j)

Next ==
  \/ Environment
  \/ \E j \in Jobs : Start(j) \/ Step(j) \/ Crash(j)

Spec == Init /\ [][Next]_vars

(* A running backup keeps stepping: each call it makes returns, with an    *)
(* error at the latest when its context's deadline passes.  Nobody is      *)
(* obliged to start one, and a crash is never obliged either.              *)
FairSpec == Spec /\ \A j \in Jobs : WF_vars(Step(j))

-----------------------------------------------------------------------------
(* Type correctness of every variable. *)
TypeOK ==
  /\ rows \subseteq Repos /\ dirs \subseteq Repos /\ used \subseteq Repos
  /\ refs \in [Repos -> RefStore]
  /\ objects \in [Repos -> ObjectStore]
  /\ lfsRows \subseteq Blobs /\ stored \subseteq Blobs
  /\ caddy \in Configs /\ late \subseteq Configs
  /\ inflight \subseteq Repos \X Branches \X Commits
  /\ pc \in [Jobs -> Phases]
  /\ captured \in [Jobs -> BOOLEAN]
  /\ todo \in [Jobs -> SUBSET (Repos \union Blobs)]
  /\ cur \in [Jobs -> Repos \union {NoRepo}]
  /\ pieces \in [Jobs -> SUBSET Pieces]
  /\ dbRows \in [Jobs -> SUBSET Repos]
  /\ dbTips \in [Jobs -> [Repos -> Tips]]
  /\ dbLfs \in [Jobs -> SUBSET Blobs]
  /\ pinned \in [Jobs -> [Repos -> RefStore]]
  /\ pinnedOf \in [Jobs -> SUBSET Repos]
  /\ tarRefs \in [Jobs -> [Repos -> RefStore]]
  /\ tarObjects \in [Jobs -> [Repos -> SUBSET Commits]]
  /\ tarred \in [Jobs -> SUBSET Repos]
  /\ copied \in [Jobs -> SUBSET Blobs]
  /\ exposed \in [Jobs -> BOOLEAN]
  /\ housekept \in [Jobs -> SUBSET Repos]
  /\ lost \in [Jobs -> SUBSET (Repos \union Blobs)]

Succeeded(j) == pc[j] = "succeeded"

(* What a restore of j's snapshot leaves in a fresh repository directory:  *)
(* placeOneRepo extracts the object archive, then the ref archive on top.  *)
Placed(j, r) == Overlay(tarRefs[j][r], pinned[j][r])

(* The argument for taring after the release: whatever a recorded ref      *)
(* names is in the archive taken later, because pushes only add objects.   *)
(* True of every repository that git gc left alone meanwhile.              *)
PinnedRefsBacked ==
  \A j \in Jobs : Succeeded(j) =>
    \A r \in tarred[j] \ housekept[j] :
      NamedBy(pinned[j][r]) \subseteq tarObjects[j][r]

(* The purpose of the hold: unless something the hold cannot stop reached  *)
(* j's window, the recorded refs are the ones the captured database knows. *)
PinnedRefsMatchDatabase ==
  \A j \in Jobs : Succeeded(j) /\ ~exposed[j] =>
    \A r \in dbRows[j] \ housekept[j] :
      Effective(pinned[j][r]) = dbTips[j][r]

(* Pushes stay refused with no backup in its window only after a backup    *)
(* that failed to engage or to release, or died: never after one that      *)
(* succeeded, and never after one whose capture merely failed.             *)
HoldLeftOnlyByReportedFailure ==
  caddy = "hold" /\ (\A j \in Jobs : ~InHold(j)) =>
    \E j \in Jobs : pc[j] \in {"engageFailed", "releaseFailed", "crashed"}

(* Only a deletion makes a verification fail: what the captured database   *)
(* names is in the snapshot when it comes to be verified, unless the forge *)
(* deleted it before it was copied, though repositories and blobs come and *)
(* go at every step: the database is captured before any of them is listed *)
(* and each list is walked to its end.                                     *)
KeptIsCaptured ==
  \A j \in Jobs : At(j, "verify") =>
    /\ dbRows[j] \ lost[j] \subseteq tarred[j] \intersect pinnedOf[j]
    /\ dbLfs[j] \ lost[j] \subseteq copied[j]

(* What a restore ends up with: unless the hold was breached, each branch  *)
(* that had a loose ref when it was recorded is back at the commit the     *)
(* restored database names, with its objects, though the archive under it  *)
(* was tarred while later pushes moved the same branch.                    *)
RestoredTipsMatchDatabase ==
  \A j \in Jobs : Succeeded(j) /\ ~exposed[j] =>
    \A r \in dbRows[j] \ housekept[j], b \in Branches :
      pinned[j][r].loose[b] # NoCommit =>
        /\ Effective(Placed(j, r))[b] = dbTips[j][r][b]
        /\ dbTips[j][r][b] \in tarObjects[j][r]

(* Every hold a backup engages is lifted, unless its own release fails or  *)
(* it dies: a capture that fails or overruns does not keep pushes refused. *)
HoldEnds ==
  \A j \in Jobs :
    InHold(j) ~> (caddy = "original" \/ pc[j] \in {"releaseFailed", "crashed"})
=============================================================================
