---------------------------- MODULE BackupProofs ----------------------------
(* Proofs about BackupCapture, for any jobs, repositories and commits.     *)
EXTENDS BackupCapture, TLAPS

-----------------------------------------------------------------------------
(* What the operations on ref and object files do to the facts below. *)

(* The operations stay within the types. *)
LEMMA SetRefType ==
  ASSUME NEW s \in RefStore, NEW b \in Branches, NEW c \in Commits
  PROVE  SetRef(s, b, c) \in RefStore
BY DEF RefStore, Tips, SetRef

LEMMA EffectiveType ==
  ASSUME NEW s \in RefStore
  PROVE  Effective(s) \in Tips /\ PackRefs(s) \in RefStore
<1>1. Effective(s) \in Tips
  BY DEF RefStore, Tips, Effective
<1> QED
  BY <1>1 DEF RefStore, Tips, PackRefs, NoTips

LEMMA ReadTypes ==
  ASSUME NEW s \in RefStore, NEW t \in RefStore
  PROVE  /\ ReadPacked(s, t) \in RefStore
         /\ ReadLoose(s, t) \in RefStore
         /\ \A p : PieceRefs(p, s, t) \in RefStore
<1>1. ReadPacked(s, t) \in RefStore /\ ReadLoose(s, t) \in RefStore
  BY DEF RefStore, ReadPacked, ReadLoose
<1> QED
  BY <1>1 DEF PieceRefs

LEMMA ObjectTypes ==
  ASSUME NEW o \in ObjectStore, NEW c \in Commits
  PROVE  /\ AddObject(o, c) \in ObjectStore
         /\ Repack(o) \in ObjectStore
         /\ \A p : PieceObjects(p, o) \subseteq Commits
BY DEF ObjectStore, AddObject, Repack, Objects, PieceObjects

(* No operation makes a ref file name a commit it was not given. *)
LEMMA NamedByBounds ==
  ASSUME NEW s \in RefStore, NEW t \in RefStore
  PROVE  /\ \A b \in Branches, c \in Commits :
              NamedBy(SetRef(s, b, c)) \subseteq NamedBy(s) \union {c}
         /\ NamedBy(PackRefs(s)) \subseteq NamedBy(s)
         /\ NamedBy(ReadPacked(s, t)) \subseteq NamedBy(s) \union NamedBy(t)
         /\ NamedBy(ReadLoose(s, t)) \subseteq NamedBy(s) \union NamedBy(t)
<1>1. \A b \in Branches, c \in Commits :
        NamedBy(SetRef(s, b, c)) \subseteq NamedBy(s) \union {c}
  BY DEF RefStore, Tips, NamedBy, SetRef
<1>2. NamedBy(PackRefs(s)) \subseteq NamedBy(s)
  BY NoCommitAssumption DEF RefStore, Tips, NamedBy, PackRefs, NoTips, Effective
<1>3. /\ NamedBy(ReadPacked(s, t)) \subseteq NamedBy(s) \union NamedBy(t)
      /\ NamedBy(ReadLoose(s, t)) \subseteq NamedBy(s) \union NamedBy(t)
  BY DEF RefStore, Tips, NamedBy, ReadPacked, ReadLoose
<1> QED
  BY <1>1, <1>2, <1>3

(* A push adds at most its own commit, loose; gc keeps every object. *)
LEMMA ObjectBounds ==
  ASSUME NEW o \in ObjectStore, NEW c \in Commits
  PROVE  /\ Objects(AddObject(o, c)) = Objects(o) \union {c}
         /\ AddObject(o, c).packed = o.packed
         /\ AddObject(o, c).loose \subseteq o.loose \union ({c} \ Objects(o))
         /\ o.loose \subseteq AddObject(o, c).loose
         /\ Objects(Repack(o)) = Objects(o)
BY DEF ObjectStore, AddObject, Objects, Repack

(* A ref recorded loose survives whatever archive it is extracted onto. *)
LEMMA OverlayKeepsLoose ==
  ASSUME NEW under, NEW over, NEW b \in Branches, over.loose[b] # NoCommit
  PROVE  Effective(Overlay(under, over))[b] = over.loose[b]
BY DEF Effective, Overlay

-----------------------------------------------------------------------------
(* The case split every step proof below starts from. *)
LEMMA NextCases ==
  ASSUME [Next]_vars
  PROVE  \/ \E r \in Repos, b \in Branches, c \in Commits :
                \/ AdmitHTTPPush(r, b, c)
                \/ LandHTTPPush(r, b, c)
                \/ SSHPush(r, b, c)
         \/ \E r \in Repos : CreateRepo(r) \/ DeleteRepo(r) \/ Gc(r)
         \/ \E x \in Blobs : UploadBlob(x) \/ DeleteBlob(x)
         \/ CaddyRestart
         \/ \E cfg \in Configs : LateReload(cfg)
         \/ \E j \in Jobs :
              \/ Start(j) \/ Engage(j) \/ EngageFails(j) \/ CaptureDatabase(j)
              \/ ListRemotes(j)
              \/ \E r \in Repos : RecordPackedRefs(j, r) \/ OpenRepo(j, r)
              \/ RecordLooseRefs(j) \/ RefsRecorded(j) \/ CaptureFails(j)
              \/ Release(j) \/ ReleaseFails(j)
              \/ \E p \in Pieces : TarPiece(j, p)
              \/ CloseRepo(j) \/ ObjectsCaptured(j) \/ ListBlobs(j)
              \/ \E x \in Blobs : CopyBlob(j, x)
              \/ BlobsCaptured(j) \/ CaptureKeys(j) \/ Verify(j)
              \/ StepFails(j) \/ Crash(j)
         \/ UNCHANGED vars
BY DEF Next, Environment, Step

(* A repository is being read whenever the phase says so. *)
CurIsRepo == \A j \in Jobs : pc[j] \in {"refs-loose", "tar"} => cur[j] \in Repos

TypeInv == TypeOK /\ CurIsRepo

(* What is deleted before it was copied stays noted. *)
LEMMA LosesEffect ==
  ASSUME TypeOK, NEW x \in Repos \union Blobs, NEW named, NEW copies, Loses(x, named, copies)
  PROVE  /\ lost' \in [Jobs -> SUBSET (Repos \union Blobs)]
         /\ \A j \in Jobs : lost[j] \subseteq lost'[j]
         /\ \A j \in Jobs : Active(j) /\ x \in named[j] /\ x \notin copies[j] => x \in lost'[j]
BY DEF Loses, TypeOK

(* Every operation keeps every variable within its type. *)
LEMMA TypeInvCorrect == Spec => []TypeInv
<1>1. Init => TypeInv
  BY DEF Init, TypeInv, CurIsRepo, TypeOK, RefStore, EmptyRefs, Tips, NoTips, ObjectStore,
         EmptyObjects, Configs, Phases
<1>2. TypeInv /\ [Next]_vars => TypeInv'
  <2> SUFFICES ASSUME TypeInv, [Next]_vars PROVE TypeInv'
    OBVIOUS
  <2> USE DEF TypeInv, CurIsRepo, TypeOK, vars, forgeVars, proxyVars, workVars, snapVars, histVars
  <2>1. ASSUME NEW r \in Repos, NEW b \in Branches, NEW c \in Commits,
               AdmitHTTPPush(r, b, c) \/ LandHTTPPush(r, b, c) \/ SSHPush(r, b, c)
        PROVE  TypeInv'
    <3>1. ApplyPush(r, b, c) => /\ refs' \in [Repos -> RefStore]
                                /\ objects' \in [Repos -> ObjectStore]
      <4>1. SetRef(refs[r], b, c) \in RefStore
        BY SetRefType
      <4>2. AddObject(objects[r], c) \in ObjectStore
        BY ObjectTypes
      <4> QED
        BY <4>1, <4>2 DEF ApplyPush
    <3>2. CASE AdmitHTTPPush(r, b, c)
      BY <3>2 DEF AdmitHTTPPush
    <3>3. CASE LandHTTPPush(r, b, c)
      BY <3>1, <3>3 DEF LandHTTPPush
    <3>4. CASE SSHPush(r, b, c)
      BY <3>1, <3>4 DEF SSHPush, InHold
    <3> QED
      BY <2>1, <3>2, <3>3, <3>4
  <2>2. ASSUME NEW r \in Repos, CreateRepo(r) \/ DeleteRepo(r)
        PROVE  TypeInv'
    <3>1. CASE CreateRepo(r)
      BY <3>1 DEF CreateRepo
    <3>2. CASE DeleteRepo(r)
      <4>1. lost' \in [Jobs -> SUBSET (Repos \union Blobs)]
        BY <3>2, LosesEffect DEF DeleteRepo
      <4> QED
        BY <3>2, <4>1 DEF DeleteRepo
    <3> QED
      BY <2>2, <3>1, <3>2
  <2>3. ASSUME NEW r \in Repos, Gc(r)
        PROVE  TypeInv'
    <3>1. PackRefs(refs[r]) \in RefStore /\ Repack(objects[r]) \in ObjectStore
      BY EffectiveType DEF ObjectStore, Repack, Objects
    <3> QED
      BY <2>3, <3>1 DEF Gc
  <2>4. ASSUME NEW x \in Blobs, UploadBlob(x) \/ DeleteBlob(x)
        PROVE  TypeInv'
    <3>1. CASE UploadBlob(x)
      BY <3>1 DEF UploadBlob
    <3>2. CASE DeleteBlob(x)
      <4>1. lost' \in [Jobs -> SUBSET (Repos \union Blobs)]
        BY <3>2, LosesEffect DEF DeleteBlob
      <4> QED
        BY <3>2, <4>1 DEF DeleteBlob
    <3> QED
      BY <2>4, <3>1, <3>2
  <2>5. ASSUME CaddyRestart \/ \E cfg \in Configs : LateReload(cfg)
        PROVE  TypeInv'
    BY ZenonT(30), <2>5 DEF CaddyRestart, LateReload, LiftsHoldOf, InHold, Configs
  <2>6. ASSUME NEW j \in Jobs,
               \/ Start(j) \/ Engage(j) \/ EngageFails(j) \/ ListRemotes(j)
               \/ RefsRecorded(j) \/ CaptureFails(j) \/ ReleaseFails(j)
        PROVE  TypeInv'
    BY <2>6 DEF Start, Engage, EngageFails, ListRemotes, RefsRecorded,
                CaptureFails, ReleaseFails, Goto, Configs, Phases, Holding, Ended
  <2>7. ASSUME NEW j \in Jobs, Release(j)
        PROVE  TypeInv'
    BY <2>7 DEF Release, LiftsHoldOf, InHold, Goto, Configs, Phases, AfterHold,
                Ended
  <2>8. ASSUME NEW j \in Jobs, CaptureDatabase(j)
        PROVE  TypeInv'
    <3>1. \A r \in Repos : Effective(refs[r]) \in Tips
      BY EffectiveType
    <3> QED
      BY <2>8, <3>1 DEF CaptureDatabase, Goto, Phases, Holding
  <2>9. ASSUME NEW j \in Jobs, NEW r \in Repos,
               RecordPackedRefs(j, r) \/ OpenRepo(j, r)
        PROVE  TypeInv'
    <3>1. ReadPacked(pinned[j][r], refs[r]) \in RefStore
      BY ReadTypes
    <3>2. CASE RecordPackedRefs(j, r)
      BY <3>1, <3>2 DEF RecordPackedRefs, Goto, Phases, Holding
    <3>3. CASE OpenRepo(j, r)
      BY <3>3 DEF OpenRepo, Goto, Phases, AfterHold
    <3> QED
      BY <2>9, <3>2, <3>3
  <2>10. ASSUME NEW j \in Jobs, RecordLooseRefs(j)
         PROVE  TypeInv'
    <3>1. cur[j] \in Repos
      BY <2>10 DEF RecordLooseRefs
    <3>2. ReadLoose(pinned[j][cur[j]], refs[cur[j]]) \in RefStore
      BY <3>1, ReadTypes
    <3> QED
      BY <2>10, <3>1, <3>2 DEF RecordLooseRefs, Goto, Phases, Holding
  <2>11. ASSUME NEW j \in Jobs, NEW p \in Pieces, TarPiece(j, p)
         PROVE  TypeInv'
    <3> DEFINE r == cur[j]
    <3>1. r \in Repos
      BY <2>11 DEF TarPiece
    <3>2. PieceRefs(p, tarRefs[j][r], refs[r]) \in RefStore
      BY ZenonT(30), <3>1, ReadTypes
    <3>3. PieceObjects(p, objects[r]) \subseteq Commits
      BY <3>1 DEF ObjectStore, PieceObjects
    <3> HIDE DEF r
    <3> QED
      BY <2>11, <3>1, <3>2, <3>3 DEF TarPiece, r
  <2>12. ASSUME NEW j \in Jobs,
                \/ CloseRepo(j) \/ ObjectsCaptured(j) \/ ListBlobs(j)
                \/ (\E x \in Blobs : CopyBlob(j, x)) \/ BlobsCaptured(j)
                \/ CaptureKeys(j) \/ Verify(j) \/ StepFails(j) \/ Crash(j)
         PROVE  TypeInv'
    <3>1. CASE CloseRepo(j)
      BY <3>1 DEF CloseRepo, At, Goto, Phases, AfterHold
    <3>2. CASE ObjectsCaptured(j) \/ ListBlobs(j) \/ BlobsCaptured(j)
      BY <3>2 DEF ObjectsCaptured, ListBlobs, BlobsCaptured, Goto, Phases, AfterHold
    <3>4. CASE CaptureKeys(j) \/ Verify(j)
      BY <3>4 DEF CaptureKeys, Verify, Goto, Phases, AfterHold, Ended
    <3>5. CASE StepFails(j) \/ Crash(j)
      BY <3>5 DEF StepFails, Crash, Goto, Phases, AfterHold, Ended, Configs
    <3>3. CASE \E x \in Blobs : CopyBlob(j, x)
      BY <3>3 DEF CopyBlob
    <3> QED
      BY <2>12, <3>1, <3>2, <3>3, <3>4, <3>5
  <2>13. CASE UNCHANGED vars
    BY <2>13
  <2> QED
    BY NextCases, <2>1, <2>2, <2>3, <2>4, <2>5, <2>6, <2>7, <2>8, <2>9, <2>10,
       <2>11, <2>12, <2>13
<1> QED
  BY <1>1, <1>2, PTL DEF Spec

THEOREM TypeCorrect == Spec => []TypeOK
<1>1. TypeInv => TypeOK
  BY DEF TypeInv
<1> QED
  BY <1>1, TypeInvCorrect, PTL

-----------------------------------------------------------------------------
(* Who is answerable for a hold in place, or one still to come. *)
HoldInv ==
  /\ caddy = "hold" =>
       \E j \in Jobs : InHold(j) \/ pc[j] \in {"engageFailed", "releaseFailed", "crashed"}
  /\ "hold" \in late =>
       \E j \in Jobs : pc[j] \in {"engageFailed", "crashed"}

(* Pushes stay refused with no backup in its window only after a backup    *)
(* that failed to engage or to release, or died.                           *)
THEOREM HoldAccounted == Spec => []HoldLeftOnlyByReportedFailure
<1>1. Init => HoldInv
  BY DEF Init, HoldInv
<1>2. TypeInv /\ HoldInv /\ [Next]_vars => HoldInv'
  <2> SUFFICES ASSUME TypeInv, HoldInv, [Next]_vars PROVE HoldInv'
    OBVIOUS
  <2> USE DEF TypeInv, TypeOK, HoldInv, InHold, Configs
  <2>1. ASSUME UNCHANGED pc, UNCHANGED late, caddy' \in {caddy, "original"}
        PROVE  HoldInv'
    BY <2>1
  <2>2. ASSUME NEW r \in Repos, NEW b \in Branches, NEW c \in Commits,
               AdmitHTTPPush(r, b, c) \/ LandHTTPPush(r, b, c) \/ SSHPush(r, b, c)
        PROVE  HoldInv'
    BY <2>1, <2>2 DEF AdmitHTTPPush, LandHTTPPush, SSHPush, proxyVars
  <2>3. ASSUME NEW r \in Repos, CreateRepo(r) \/ DeleteRepo(r) \/ Gc(r)
        PROVE  HoldInv'
    BY <2>1, <2>3 DEF CreateRepo, DeleteRepo, Gc, proxyVars
  <2>4. ASSUME NEW x \in Blobs, UploadBlob(x) \/ DeleteBlob(x)
        PROVE  HoldInv'
    BY <2>1, <2>4 DEF UploadBlob, DeleteBlob, proxyVars
  <2>5. CASE CaddyRestart
    BY <2>1, <2>5 DEF CaddyRestart
  <2>6. ASSUME NEW cfg \in Configs, LateReload(cfg)
        PROVE  HoldInv'
    BY <2>6 DEF LateReload
  <2>7. ASSUME NEW j \in Jobs, NEW from, NEW to \in Phases,
               pc[j] = from, pc' = [pc EXCEPT ![j] = to],
               from \notin {"engageFailed", "releaseFailed", "crashed"},
               \/ /\ UNCHANGED <<caddy, late>>
                  /\ from \in Holding => to \in Holding
               \/ /\ UNCHANGED caddy /\ late' \subseteq late \union {"original"}
                  /\ to \in {"releaseFailed", "crashed"}
               \/ /\ UNCHANGED caddy /\ late' \subseteq late \union {"hold"}
                  /\ to \in {"engageFailed", "crashed"}
               \/ /\ UNCHANGED late /\ caddy' = "hold" /\ to \in Holding
               \/ /\ UNCHANGED late /\ caddy' = "original"
        PROVE  HoldInv'
    <3>1. \A k \in Jobs : pc'[k] = IF k = j THEN to ELSE pc[k]
      BY <2>7
    <3>2. \A k \in Jobs : pc[k] \in {"engageFailed", "releaseFailed", "crashed"}
                           => pc'[k] = pc[k]
      BY <2>7, <3>1
    <3> QED
      BY <2>7, <3>1, <3>2
  <2>8. ASSUME NEW j \in Jobs,
               \/ Start(j) \/ CaptureDatabase(j) \/ ListRemotes(j)
               \/ (\E r \in Repos : RecordPackedRefs(j, r)) \/ RecordLooseRefs(j)
               \/ RefsRecorded(j) \/ CaptureFails(j)
        PROVE  HoldInv'
    BY <2>7, <2>8 DEF Start, CaptureDatabase, ListRemotes, RecordPackedRefs,
         RecordLooseRefs, RefsRecorded, CaptureFails, At, Goto, proxyVars,
         Phases, Holding
  <2>9. ASSUME NEW j \in Jobs,
               \/ (\E r \in Repos : OpenRepo(j, r)) \/ CloseRepo(j)
               \/ ObjectsCaptured(j) \/ ListBlobs(j) \/ BlobsCaptured(j)
               \/ CaptureKeys(j) \/ Verify(j) \/ StepFails(j)
        PROVE  HoldInv'
    BY <2>7, <2>9 DEF OpenRepo, CloseRepo, ObjectsCaptured, ListBlobs,
         BlobsCaptured, CaptureKeys, Verify, StepFails, At, Goto, proxyVars,
         Phases, Holding, AfterHold, Ended
  <2>10. ASSUME NEW j \in Jobs,
                \/ \E p \in Pieces : TarPiece(j, p)
                \/ \E x \in Blobs : CopyBlob(j, x)
         PROVE  HoldInv'
    BY <2>1, <2>10 DEF TarPiece, CopyBlob, proxyVars
  <2>11. ASSUME NEW j \in Jobs,
                \/ Engage(j) \/ EngageFails(j) \/ Release(j) \/ ReleaseFails(j)
         PROVE  HoldInv'
    BY <2>7, <2>11 DEF Engage, EngageFails, Release, ReleaseFails, At, Goto,
         Phases, Holding, AfterHold, Ended
  <2>12. ASSUME NEW j \in Jobs, Crash(j)
         PROVE  HoldInv'
    BY <2>7, <2>12 DEF Crash, Active, At, Goto, Phases, Ended
  <2>13. CASE UNCHANGED vars
    BY <2>1, <2>13 DEF vars, proxyVars
  <2> QED
    BY NextCases, <2>2, <2>3, <2>4, <2>5, <2>6, <2>8, <2>9, <2>10, <2>11,
       <2>12, <2>13
<1>3. HoldInv => HoldLeftOnlyByReportedFailure
  BY DEF HoldInv, HoldLeftOnlyByReportedFailure
<1> QED
  BY <1>1, <1>2, <1>3, TypeInvCorrect, PTL DEF Spec

-----------------------------------------------------------------------------
(* Nothing is in an archive before the hold has ended. *)
Early == {"idle", "engage"} \union Holding

(* While r is being tarred with no gc in between, an object of a recorded  *)
(* ref is in the archive as soon as the part that holds it has been read.  *)
TarCovers(j, r) ==
  \A c \in NamedBy(pinned[j][r]) :
    \/ c \in objects[r].loose /\ "objects" \notin pieces[j]
    \/ c \in objects[r].packed /\ "pack" \notin pieces[j]
    => c \in tarObjects[j][r]

BackedInv ==
  /\ \A r \in Repos : NamedBy(refs[r]) \subseteq Objects(objects[r])
  /\ \A j \in Jobs, r \in Repos : NamedBy(pinned[j][r]) \subseteq Objects(objects[r])
  /\ \A j \in Jobs : pc[j] \in Early => tarred[j] = {}
  /\ \A j \in Jobs : pc[j] = "tar" /\ cur[j] \notin housekept[j]
                      => TarCovers(j, cur[j])
  /\ \A j \in Jobs : \A r \in tarred[j] \ housekept[j] :
       NamedBy(pinned[j][r]) \subseteq tarObjects[j][r]

(* What a push leaves of the facts about one repository. *)
LEMMA PushKeepsBacked ==
  ASSUME TypeInv, BackedInv, NEW r \in Repos, NEW b \in Branches,
         NEW c \in Commits, ApplyPush(r, b, c),
         UNCHANGED <<pc, cur, pieces, pinned, tarObjects, tarred, housekept>>
  PROVE  BackedInv'
<1> USE DEF TypeInv, TypeOK
<1> DEFINE o == objects[r]
           n == AddObject(o, c)
<1>1. o \in ObjectStore /\ refs[r] \in RefStore
  OBVIOUS
<1>2. /\ Objects(n) = Objects(o) \union {c}
      /\ n.packed = o.packed
      /\ n.loose \subseteq o.loose \union ({c} \ Objects(o))
  BY <1>1, ObjectBounds
<1>3. NamedBy(SetRef(refs[r], b, c)) \subseteq NamedBy(refs[r]) \union {c}
  BY <1>1, NamedByBounds
<1>4. /\ \A q \in Repos : refs'[q] = IF q = r THEN SetRef(refs[r], b, c) ELSE refs[q]
      /\ \A q \in Repos : objects'[q] = IF q = r THEN n ELSE objects[q]
  BY DEF ApplyPush
<1> HIDE DEF o, n
<1>5. \A q \in Repos : Objects(objects[q]) \subseteq Objects(objects'[q])
  BY <1>2, <1>4 DEF o
<1>6. \A q \in Repos : NamedBy(refs'[q]) \subseteq Objects(objects'[q])
  BY <1>2, <1>3, <1>4 DEF BackedInv, o
<1>7. \A j \in Jobs, q \in Repos :
        NamedBy(pinned'[j][q]) \subseteq Objects(objects'[q])
  BY <1>5 DEF BackedInv
<1>8. ASSUME NEW j \in Jobs, pc'[j] = "tar", cur'[j] \notin housekept'[j]
      PROVE  TarCovers(j, cur[j])'
  <2>1. cur[j] \in Repos /\ TarCovers(j, cur[j])
    BY <1>8 DEF BackedInv, CurIsRepo
  <2>2. CASE cur[j] # r
    BY <1>4, <2>1, <2>2 DEF TarCovers
  <2>3. CASE cur[j] = r
    <3>1. NamedBy(pinned[j][r]) \subseteq Objects(o)
      BY DEF BackedInv, o
    <3>2. \A d \in NamedBy(pinned[j][r]) :
            /\ d \in n.loose => d \in o.loose
            /\ d \in n.packed => d \in o.packed
      BY <1>2, <3>1
    <3> QED
      BY <1>4, <2>1, <2>3, <3>2 DEF TarCovers, o
  <2> QED
    BY <2>2, <2>3
<1> QED
  BY <1>6, <1>7, <1>8 DEF BackedInv

(* A step of a backup that reads nothing into the snapshot. *)
LEMMA QuietStepKeepsBacked ==
  ASSUME BackedInv, NEW j \in Jobs, NEW to,
         UNCHANGED <<refs, objects, pinned, tarObjects, tarred, housekept>>,
         \/ UNCHANGED <<pc, cur, pieces>>
         \/ /\ pc \in [Jobs -> Phases] /\ pc' = [pc EXCEPT ![j] = to]
            /\ to # "tar" /\ (to \in Early => pc[j] \in Early)
            /\ \A k \in Jobs \ {j} : cur'[k] = cur[k] /\ pieces'[k] = pieces[k]
  PROVE  BackedInv'
<1>1. CASE UNCHANGED <<pc, cur, pieces>>
  BY <1>1 DEF BackedInv, TarCovers
<1>2. CASE /\ pc \in [Jobs -> Phases] /\ pc' = [pc EXCEPT ![j] = to]
           /\ to # "tar" /\ (to \in Early => pc[j] \in Early)
           /\ \A k \in Jobs \ {j} : cur'[k] = cur[k] /\ pieces'[k] = pieces[k]
  <2>1. pc'[j] = to /\ \A k \in Jobs \ {j} : pc'[k] = pc[k]
    BY <1>2
  <2>2. \A k \in Jobs : pc'[k] \in Early => tarred'[k] = {}
    BY <1>2, <2>1 DEF BackedInv
  <2>3. \A k \in Jobs : pc'[k] = "tar" /\ cur'[k] \notin housekept'[k]
                        => TarCovers(k, cur[k])'
    BY <1>2, <2>1 DEF BackedInv, TarCovers
  <2>4. \A k \in Jobs : pc'[k] = "tar" => cur'[k] = cur[k]
    BY <1>2, <2>1
  <2> QED
    BY <2>2, <2>3, <2>4 DEF BackedInv, TarCovers
<1> QED
  BY <1>1, <1>2

(* A step of j that reads the ref files of one repository into the record  *)
(* while the hold stands.                                                  *)
LEMMA RecordKeepsBacked ==
  ASSUME TypeInv, BackedInv, NEW j \in Jobs, NEW r \in Repos, NEW to \in Holding,
         NEW s, s \in {ReadPacked(pinned[j][r], refs[r]), ReadLoose(pinned[j][r], refs[r])},
         pc[j] \in Holding, pc' = [pc EXCEPT ![j] = to],
         pinned' = [pinned EXCEPT ![j][r] = s],
         \A k \in Jobs \ {j} : cur'[k] = cur[k],
         UNCHANGED <<refs, objects, pieces, tarObjects, tarred, housekept>>
  PROVE  BackedInv'
<1> USE DEF TypeInv, TypeOK
<1>1. NamedBy(s) \subseteq Objects(objects[r])
  <2>1. NamedBy(s) \subseteq NamedBy(pinned[j][r]) \union NamedBy(refs[r])
    BY NamedByBounds
  <2> QED
    BY <2>1 DEF BackedInv
<1>2. /\ \A k \in Jobs, q \in Repos :
           pinned'[k][q] = IF k = j /\ q = r THEN s ELSE pinned[k][q]
      /\ \A k \in Jobs : pc'[k] = IF k = j THEN to ELSE pc[k]
  OBVIOUS
<1>3. \A k \in Jobs, q \in Repos :
        NamedBy(pinned'[k][q]) \subseteq Objects(objects'[q])
  BY <1>1, <1>2 DEF BackedInv
<1>4. tarred[j] = {} /\ to # "tar"
  BY DEF BackedInv, Early, Holding
<1>5. ASSUME NEW k \in Jobs, pc'[k] = "tar", cur'[k] \notin housekept'[k]
      PROVE  TarCovers(k, cur[k])'
  BY <1>2, <1>4, <1>5 DEF BackedInv, TarCovers, CurIsRepo
<1>6. \A k \in Jobs : pc'[k] \in Early => tarred'[k] = {}
  BY <1>2, <1>4 DEF BackedInv
<1>7. \A k \in Jobs : \A q \in tarred'[k] \ housekept'[k] :
        NamedBy(pinned'[k][q]) \subseteq tarObjects'[k][q]
  BY <1>2, <1>4 DEF BackedInv
<1> QED
  BY <1>3, <1>5, <1>6, <1>7 DEF BackedInv

(* One part of a repository is read into its archive. *)
LEMMA TarPieceKeepsBacked ==
  ASSUME TypeInv, BackedInv, NEW j \in Jobs, NEW p \in Pieces, TarPiece(j, p)
  PROVE  BackedInv'
<1> USE DEF TypeInv, TypeOK
<1> DEFINE r == cur[j]
           read == PieceObjects(p, objects[r])
<1>1. r \in Repos /\ pc[j] = "tar"
  BY DEF TarPiece, At, CurIsRepo
<1>2. \A k \in Jobs, q \in Repos :
        tarObjects'[k][q] = IF k = j /\ q = r THEN tarObjects[k][q] \union read
                                             ELSE tarObjects[k][q]
  BY <1>1 DEF TarPiece
<1>3. \A k \in Jobs : pieces'[k] = IF k = j THEN pieces[j] \ {p} ELSE pieces[k]
  BY DEF TarPiece
<1>4. UNCHANGED <<refs, objects, pc, cur, pinned, tarred, housekept>>
  BY DEF TarPiece, forgeVars, histVars
<1>5. /\ p = "objects" => read = objects[r].loose
      /\ p = "pack" => read = objects[r].packed
  BY DEF PieceObjects
<1> HIDE DEF r, read
<1>6. ASSUME NEW k \in Jobs, pc'[k] = "tar", cur'[k] \notin housekept'[k]
      PROVE  TarCovers(k, cur[k])'
  <2>1. cur[k] \in Repos /\ TarCovers(k, cur[k])
    BY <1>4, <1>6 DEF BackedInv, CurIsRepo
  <2>2. CASE k # j
    BY <1>2, <1>3, <1>4, <2>1, <2>2 DEF TarCovers
  <2>3. CASE k = j
    <3>1. /\ tarObjects'[k][r] = tarObjects[k][r] \union read
          /\ pieces'[k] = pieces[k] \ {p}
          /\ cur'[k] = r /\ cur[k] = r
      BY <1>1, <1>2, <1>3, <1>4, <2>3 DEF r
    <3>2. /\ "objects" \notin pieces'[k] =>
              \/ "objects" \notin pieces[k]
              \/ read = objects[r].loose
          /\ "pack" \notin pieces'[k] =>
              \/ "pack" \notin pieces[k]
              \/ read = objects[r].packed
      BY <1>5, <3>1
    <3> QED
      BY <1>4, <2>1, <3>1, <3>2 DEF TarCovers
  <2> QED
    BY <2>2, <2>3
<1>7. ASSUME NEW k \in Jobs, NEW q \in tarred'[k], q \notin housekept'[k]
      PROVE  NamedBy(pinned'[k][q]) \subseteq tarObjects'[k][q]
  <2>1. q \in Repos /\ NamedBy(pinned[k][q]) \subseteq tarObjects[k][q]
    BY <1>4, <1>7 DEF BackedInv
  <2> QED
    BY <1>2, <1>4, <2>1
<1>8. \A k \in Jobs : pc'[k] \in Early => tarred'[k] = {}
  BY <1>4 DEF BackedInv
<1>9. \A k \in Jobs, q \in Repos :
        NamedBy(pinned'[k][q]) \subseteq Objects(objects'[q])
  BY <1>4 DEF BackedInv
<1>10. \A q \in Repos : NamedBy(refs'[q]) \subseteq Objects(objects'[q])
  BY <1>4 DEF BackedInv
<1> QED
  BY <1>4, <1>6, <1>7, <1>8, <1>9, <1>10 DEF BackedInv

(* A repository whose parts are all read is archived. *)
LEMMA CloseKeepsBacked ==
  ASSUME TypeInv, BackedInv, NEW j \in Jobs, CloseRepo(j)
  PROVE  BackedInv'
<1> USE DEF TypeInv, TypeOK
<1> DEFINE r == cur[j]
<1>1. r \in Repos /\ pc[j] = "tar" /\ pieces[j] = {}
  BY DEF CloseRepo, At, CurIsRepo
<1>2. /\ UNCHANGED <<refs, objects, cur, pieces, pinned, tarObjects, housekept>>
      /\ \A k \in Jobs : tarred'[k] = IF k = j THEN tarred[k] \union {r} ELSE tarred[k]
      /\ \A k \in Jobs : pc'[k] = IF k = j THEN "objects" ELSE pc[k]
  BY DEF CloseRepo, Goto, forgeVars, histVars, workVars
<1> HIDE DEF r
<1>3. r \notin housekept[j] => NamedBy(pinned[j][r]) \subseteq tarObjects[j][r]
  BY <1>1 DEF BackedInv, TarCovers, Objects, r
<1>4. ASSUME NEW k \in Jobs, NEW q \in tarred'[k], q \notin housekept'[k]
      PROVE  NamedBy(pinned'[k][q]) \subseteq tarObjects'[k][q]
  <2>1. q \in tarred[k] \/ (k = j /\ q = r)
    BY <1>2
  <2>2. CASE q \in tarred[k]
    BY <1>2, <1>4, <2>2 DEF BackedInv
  <2>3. CASE k = j /\ q = r
    BY <1>2, <1>3, <1>4, <2>3
  <2> QED
    BY <2>1, <2>2, <2>3
<1>5. ASSUME NEW k \in Jobs, pc'[k] = "tar", cur'[k] \notin housekept'[k]
      PROVE  TarCovers(k, cur[k])'
  BY <1>2, <1>5 DEF BackedInv, TarCovers
<1>6. \A k \in Jobs : pc'[k] \in Early => tarred'[k] = {}
  BY <1>2 DEF BackedInv, Early, Holding
<1> QED
  BY <1>2, <1>4, <1>5, <1>6 DEF BackedInv

(* git gc moves the files of r; every backup under way notes it. *)
LEMMA GcKeepsBacked ==
  ASSUME TypeInv, BackedInv, NEW r \in Repos, Gc(r)
  PROVE  BackedInv'
<1> USE DEF TypeInv, TypeOK
<1>1. /\ NamedBy(PackRefs(refs[r])) \subseteq NamedBy(refs[r])
      /\ Objects(Repack(objects[r])) = Objects(objects[r])
  <2>1. NamedBy(PackRefs(refs[r])) \subseteq NamedBy(refs[r])
    BY NoCommitAssumption DEF RefStore, Tips, NamedBy, PackRefs, NoTips, Effective
  <2> QED
    BY <2>1 DEF Objects, Repack
<1>2. /\ \A q \in Repos : refs'[q] = IF q = r THEN PackRefs(refs[r]) ELSE refs[q]
      /\ \A q \in Repos : objects'[q] = IF q = r THEN Repack(objects[r]) ELSE objects[q]
      /\ \A k \in Jobs : housekept[k] \subseteq housekept'[k]
      /\ \A k \in Jobs : pc[k] = "tar" => r \in housekept'[k]
      /\ UNCHANGED <<pc, cur, pieces, pinned, tarObjects, tarred>>
  BY DEF Gc, Active, Ended, workVars, snapVars
<1>3. \A q \in Repos : Objects(objects'[q]) = Objects(objects[q])
  BY <1>1, <1>2
<1>4. \A q \in Repos : NamedBy(refs'[q]) \subseteq Objects(objects'[q])
  BY <1>1, <1>2, <1>3 DEF BackedInv
<1>5. \A k \in Jobs, q \in Repos :
        NamedBy(pinned'[k][q]) \subseteq Objects(objects'[q])
  BY <1>2, <1>3 DEF BackedInv
<1>6. ASSUME NEW k \in Jobs, pc'[k] = "tar", cur'[k] \notin housekept'[k]
      PROVE  TarCovers(k, cur[k])'
  <2>1. cur[k] \in Repos /\ cur[k] # r /\ TarCovers(k, cur[k])
    BY <1>2, <1>6 DEF BackedInv, CurIsRepo
  <2> QED
    BY <1>2, <2>1 DEF TarCovers
<1>7. \A k \in Jobs : \A q \in tarred'[k] \ housekept'[k] :
        NamedBy(pinned'[k][q]) \subseteq tarObjects'[k][q]
  BY <1>2 DEF BackedInv
<1> QED
  BY <1>2, <1>4, <1>5, <1>6, <1>7 DEF BackedInv

LEMMA BackedInvCorrect == Spec => []BackedInv
<1>1. Init => BackedInv
  BY NoCommitAssumption DEF Init, BackedInv, NamedBy, Objects, EmptyRefs, NoTips, EmptyObjects
<1>2. TypeInv /\ BackedInv /\ [Next]_vars => BackedInv'
  <2> SUFFICES ASSUME TypeInv, BackedInv, [Next]_vars PROVE BackedInv'
    OBVIOUS
  <2> USE DEF forgeVars, proxyVars, workVars, snapVars, histVars
  <2>1. ASSUME UNCHANGED <<refs, objects, pinned, tarObjects, tarred, housekept,
                           pc, cur, pieces>>
        PROVE  BackedInv'
    BY <2>1 DEF BackedInv, TarCovers
  <2>2. ASSUME NEW r \in Repos, NEW b \in Branches, NEW c \in Commits,
               AdmitHTTPPush(r, b, c) \/ LandHTTPPush(r, b, c) \/ SSHPush(r, b, c)
        PROVE  BackedInv'
    BY <2>1, <2>2, PushKeepsBacked DEF AdmitHTTPPush, LandHTTPPush, SSHPush
  <2>3. ASSUME NEW r \in Repos, CreateRepo(r) \/ DeleteRepo(r)
        PROVE  BackedInv'
    BY <2>1, <2>3 DEF CreateRepo, DeleteRepo
  <2>4. ASSUME NEW r \in Repos, Gc(r)
        PROVE  BackedInv'
    BY <2>4, GcKeepsBacked
  <2>5. ASSUME NEW x \in Blobs, UploadBlob(x) \/ DeleteBlob(x)
        PROVE  BackedInv'
    BY <2>1, <2>5 DEF UploadBlob, DeleteBlob
  <2>6. ASSUME CaddyRestart \/ \E cfg \in Configs : LateReload(cfg)
        PROVE  BackedInv'
    BY <2>1, <2>6 DEF CaddyRestart, LateReload
  <2>7. ASSUME NEW j \in Jobs,
               \/ Start(j) \/ Engage(j) \/ EngageFails(j) \/ CaptureDatabase(j)
               \/ ListRemotes(j) \/ RefsRecorded(j) \/ CaptureFails(j)
        PROVE  BackedInv'
    BY <2>7, QuietStepKeepsBacked DEF TypeInv, TypeOK, Start, Engage, EngageFails,
         CaptureDatabase, ListRemotes, RefsRecorded, CaptureFails, At, Goto,
         Early, Holding
  <2>8. ASSUME NEW j \in Jobs,
               \/ Release(j) \/ ReleaseFails(j) \/ ObjectsCaptured(j)
               \/ ListBlobs(j) \/ BlobsCaptured(j) \/ CaptureKeys(j)
               \/ Verify(j) \/ StepFails(j) \/ Crash(j)
        PROVE  BackedInv'
    BY <2>8, QuietStepKeepsBacked DEF TypeInv, TypeOK, Release, ReleaseFails,
         ObjectsCaptured, ListBlobs, BlobsCaptured, CaptureKeys, Verify,
         StepFails, Crash, Goto, Early, Holding
  <2>9. ASSUME NEW j \in Jobs, NEW x \in Blobs, CopyBlob(j, x)
        PROVE  BackedInv'
    BY <2>1, <2>9 DEF CopyBlob
  <2>10. ASSUME NEW j \in Jobs, NEW r \in Repos, RecordPackedRefs(j, r)
         PROVE  BackedInv'
    BY <2>10, RecordKeepsBacked DEF TypeInv, TypeOK, RecordPackedRefs, At, Goto, Holding
  <2>11. ASSUME NEW j \in Jobs, RecordLooseRefs(j)
         PROVE  BackedInv'
    <3>1. cur[j] \in Repos
      BY <2>11 DEF TypeInv, CurIsRepo, RecordLooseRefs, At
    <3> QED
      BY <2>11, <3>1, RecordKeepsBacked DEF TypeInv, TypeOK, RecordLooseRefs, At, Goto, Holding
  <2>12. ASSUME NEW j \in Jobs, NEW r \in Repos, OpenRepo(j, r)
         PROVE  BackedInv'
    <3>1. /\ \A k \in Jobs : pc'[k] = IF k = j THEN "tar" ELSE pc[k]
          /\ \A k \in Jobs : cur'[k] = IF k = j THEN r ELSE cur[k]
          /\ \A k \in Jobs : pieces'[k] = IF k = j THEN Pieces ELSE pieces[k]
          /\ UNCHANGED <<refs, objects, pinned, tarObjects, tarred, housekept>>
      BY <2>12 DEF TypeInv, TypeOK, OpenRepo, Goto
    <3>2. ASSUME NEW k \in Jobs, pc'[k] = "tar", cur'[k] \notin housekept'[k]
          PROVE  TarCovers(k, cur[k])'
      <4>1. CASE k = j
        BY <3>1, <4>1 DEF TarCovers, Pieces
      <4>2. CASE k # j
        BY <3>1, <3>2, <4>2 DEF BackedInv, TarCovers
      <4> QED
        BY <4>1, <4>2
    <3> QED
      BY <3>1, <3>2 DEF BackedInv, Early, Holding
  <2>13. ASSUME NEW j \in Jobs, NEW p \in Pieces, TarPiece(j, p)
         PROVE  BackedInv'
    BY <2>13, TarPieceKeepsBacked
  <2>14. ASSUME NEW j \in Jobs, CloseRepo(j)
         PROVE  BackedInv'
    BY <2>14, CloseKeepsBacked
  <2>15. CASE UNCHANGED vars
    BY <2>1, <2>15 DEF vars
  <2> QED
    BY NextCases, <2>2, <2>3, <2>4, <2>5, <2>6, <2>7, <2>8, <2>9, <2>10, <2>11,
       <2>12, <2>13, <2>14, <2>15
<1> QED
  BY <1>1, <1>2, TypeInvCorrect, PTL DEF Spec

(* Whatever ref a snapshot records, its archive holds the object, although *)
(* the archive was taken after pushes resumed.                             *)
THEOREM RecordedRefsBacked == Spec => []PinnedRefsBacked
<1>1. BackedInv => PinnedRefsBacked
  BY DEF BackedInv, PinnedRefsBacked
<1> QED
  BY <1>1, BackedInvCorrect, PTL

-----------------------------------------------------------------------------
(* verifyCrossConsistency's finding stays true: a snapshot is never        *)
(* written again once it has succeeded.                                    *)
ClosedInv == \A j \in Jobs : Succeeded(j) => CrossConsistent(j)

LEMMA ClosedInvCorrect == Spec => []ClosedInv
<1>1. Init => ClosedInv
  BY DEF Init, Succeeded, ClosedInv
<1>2. TypeInv /\ ClosedInv /\ [Next]_vars => ClosedInv'
  <2> SUFFICES ASSUME TypeInv, ClosedInv, [Next]_vars PROVE ClosedInv'
    OBVIOUS
  <2> USE DEF ClosedInv, Succeeded, CrossConsistent, forgeVars, proxyVars, workVars, snapVars,
              histVars
  <2>1. ASSUME UNCHANGED <<pc, snapVars>>
        PROVE  ClosedInv'
    BY <2>1
  <2>2. ASSUME NEW j \in Jobs, NEW to, pc[j] # "succeeded", pc' = [pc EXCEPT ![j] = to],
               to = "succeeded" => CrossConsistent(j)',
               \A k \in Jobs \ {j} : CrossConsistent(k) => CrossConsistent(k)'
        PROVE  ClosedInv'
    BY <2>2 DEF TypeInv, TypeOK
  <2>3. ASSUME NEW r \in Repos, NEW b \in Branches, NEW c \in Commits,
               AdmitHTTPPush(r, b, c) \/ LandHTTPPush(r, b, c) \/ SSHPush(r, b, c)
        PROVE  ClosedInv'
    BY <2>1, <2>3 DEF AdmitHTTPPush, LandHTTPPush, SSHPush
  <2>4. ASSUME NEW r \in Repos, CreateRepo(r) \/ DeleteRepo(r) \/ Gc(r)
        PROVE  ClosedInv'
    BY <2>1, <2>4 DEF CreateRepo, DeleteRepo, Gc
  <2>5. ASSUME NEW x \in Blobs, UploadBlob(x) \/ DeleteBlob(x)
        PROVE  ClosedInv'
    BY <2>1, <2>5 DEF UploadBlob, DeleteBlob
  <2>6. ASSUME CaddyRestart \/ \E cfg \in Configs : LateReload(cfg)
        PROVE  ClosedInv'
    BY <2>1, <2>6 DEF CaddyRestart, LateReload
  <2>7. ASSUME NEW j \in Jobs,
               \/ Start(j) \/ Engage(j) \/ EngageFails(j) \/ CaptureDatabase(j)
               \/ ListRemotes(j) \/ (\E r \in Repos : RecordPackedRefs(j, r))
               \/ RecordLooseRefs(j) \/ RefsRecorded(j) \/ CaptureFails(j)
        PROVE  ClosedInv'
    BY <2>2, <2>7 DEF TypeInv, TypeOK, Start, Engage, EngageFails, CaptureDatabase,
       ListRemotes, RecordPackedRefs, RecordLooseRefs, RefsRecorded,
       CaptureFails, At, Goto
  <2>8. ASSUME NEW j \in Jobs,
               \/ Release(j) \/ ReleaseFails(j) \/ (\E r \in Repos : OpenRepo(j, r))
               \/ CloseRepo(j) \/ ObjectsCaptured(j) \/ ListBlobs(j)
               \/ BlobsCaptured(j) \/ CaptureKeys(j)
        PROVE  ClosedInv'
    BY <2>2, <2>8 DEF TypeInv, TypeOK, Release, ReleaseFails, OpenRepo, CloseRepo,
       ObjectsCaptured, ListBlobs, BlobsCaptured, CaptureKeys, At, Goto
  <2>9. ASSUME NEW j \in Jobs, Verify(j) \/ StepFails(j) \/ Crash(j)
        PROVE  ClosedInv'
    BY <2>2, <2>9 DEF TypeInv, TypeOK, Verify, StepFails, Crash, Active, At, Goto,
       AfterHold, Ended
  <2>10. ASSUME NEW j \in Jobs,
                \/ \E p \in Pieces : TarPiece(j, p)
                \/ \E x \in Blobs : CopyBlob(j, x)
         PROVE  ClosedInv'
    <3>1. /\ UNCHANGED <<pc, dbRows, dbLfs, pinnedOf, tarred>>
          /\ \A k \in Jobs : copied[k] \subseteq copied'[k]
      <4>1. CASE \E p \in Pieces : TarPiece(j, p)
        BY <4>1 DEF TarPiece
      <4>2. CASE \E x \in Blobs : CopyBlob(j, x)
        BY <4>2 DEF TypeInv, TypeOK, CopyBlob
      <4> QED
        BY <2>10, <4>1, <4>2
    <3> QED
      BY <3>1
  <2>11. CASE UNCHANGED vars
    BY <2>1, <2>11 DEF vars
  <2> QED
    BY NextCases, <2>3, <2>4, <2>5, <2>6, <2>7, <2>8, <2>9, <2>10, <2>11
<1> QED
  BY <1>1, <1>2, TypeInvCorrect, PTL DEF Spec

-----------------------------------------------------------------------------
(* What becomes of the repositories and blobs the captured database of j   *)
(* names, unless they are lost to it: they are on a list, or captured.     *)
DueRepos(j) == dbRows[j] \ lost[j]
DueBlobs(j) == dbLfs[j] \ lost[j]

KeptOf(j) ==
  /\ captured[j] => pc[j] \notin Early \ {"release"}
  /\ pc[j] \in {"remotes", "refs", "refs-loose"} \union AfterHold \/ (pc[j] = "release" /\ captured[j]) =>
       /\ DueRepos(j) \ tarred[j] \subseteq rows
       /\ DueBlobs(j) \ copied[j] \subseteq lfsRows
  /\ pc[j] = "refs" => DueRepos(j) \subseteq todo[j] \union pinnedOf[j]
  /\ pc[j] = "refs-loose" => DueRepos(j) \subseteq todo[j] \union pinnedOf[j] \union {cur[j]}
  /\ (pc[j] = "release" /\ captured[j]) \/ pc[j] \in AfterHold => DueRepos(j) \subseteq pinnedOf[j]
  /\ pc[j] = "objects" => DueRepos(j) \subseteq todo[j] \union tarred[j]
  /\ pc[j] = "tar" => DueRepos(j) \subseteq todo[j] \union tarred[j] \union {cur[j]}
  /\ pc[j] \in {"blobs", "blob", "keys", "verify"} => DueRepos(j) \subseteq tarred[j]
  /\ pc[j] = "blob" => DueBlobs(j) \subseteq todo[j] \union copied[j]
  /\ pc[j] \in {"keys", "verify"} => DueBlobs(j) \subseteq copied[j]

KeptInv ==
  /\ rows \subseteq dirs /\ lfsRows \subseteq stored
  /\ \A j \in Jobs : KeptOf(j)

(* A step of anyone but j: it takes from the database only what is lost.   *)
LEMMA OthersKeepKept ==
  ASSUME NEW j \in Jobs, KeptOf(j),
         pc'[j] = pc[j], todo'[j] = todo[j], cur'[j] = cur[j], captured'[j] = captured[j],
         dbRows'[j] = dbRows[j], dbLfs'[j] = dbLfs[j], pinnedOf'[j] = pinnedOf[j],
         tarred'[j] = tarred[j], copied'[j] = copied[j], lost[j] \subseteq lost'[j],
         Active(j) => /\ \A r \in rows \ rows' : r \in dbRows[j] \ tarred[j] => r \in lost'[j]
                      /\ \A x \in lfsRows \ lfsRows' : x \in dbLfs[j] \ copied[j] => x \in lost'[j]
  PROVE  KeptOf(j)'
<1>1. DueRepos(j)' \subseteq DueRepos(j) /\ DueBlobs(j)' \subseteq DueBlobs(j)
  BY DEF DueRepos, DueBlobs
<1>2. ASSUME pc[j] \in {"remotes", "refs", "refs-loose"} \union AfterHold \/ (pc[j] = "release" /\ captured[j])
      PROVE  /\ DueRepos(j)' \ tarred'[j] \subseteq rows'
             /\ DueBlobs(j)' \ copied'[j] \subseteq lfsRows'
  <2>1. Active(j)
    BY <1>2 DEF Active, Ended, AfterHold
  <2>2. DueRepos(j) \ tarred[j] \subseteq rows /\ DueBlobs(j) \ copied[j] \subseteq lfsRows
    BY <1>2 DEF KeptOf
  <2> QED
    BY <2>1, <2>2 DEF DueRepos, DueBlobs
<1> QED
  BY <1>1, <1>2 DEF KeptOf

LEMMA KeptInvCorrect == Spec => []KeptInv
<1>1. Init => KeptInv
  BY DEF Init, KeptInv, KeptOf, DueRepos, DueBlobs, AfterHold
<1>2. TypeInv /\ BackedInv /\ KeptInv /\ [Next]_vars => KeptInv'
  <2> SUFFICES ASSUME TypeInv, BackedInv, KeptInv, [Next]_vars
               PROVE  KeptInv'
    OBVIOUS
  <2> USE DEF forgeVars, proxyVars, workVars, snapVars, histVars
  <2>1. rows' \subseteq dirs' /\ lfsRows' \subseteq stored'
    <3>1. CASE UNCHANGED <<rows, dirs, lfsRows, stored>>
      BY <3>1 DEF KeptInv
    <3>2. ASSUME NEW r \in Repos, CreateRepo(r) \/ DeleteRepo(r)
          PROVE  rows' \subseteq dirs' /\ lfsRows' \subseteq stored'
      BY <3>2 DEF KeptInv, CreateRepo, DeleteRepo
    <3>3. ASSUME NEW x \in Blobs, UploadBlob(x) \/ DeleteBlob(x)
          PROVE  rows' \subseteq dirs' /\ lfsRows' \subseteq stored'
      BY <3>3 DEF KeptInv, UploadBlob, DeleteBlob
    <3>4. ASSUME NEW r \in Repos, NEW b \in Branches, NEW c \in Commits,
                 AdmitHTTPPush(r, b, c) \/ LandHTTPPush(r, b, c) \/ SSHPush(r, b, c)
          PROVE  UNCHANGED <<rows, dirs, lfsRows, stored>>
      BY <3>4 DEF AdmitHTTPPush, LandHTTPPush, SSHPush
    <3>5. ASSUME \/ CaddyRestart \/ (\E cfg \in Configs : LateReload(cfg))
                 \/ (\E r \in Repos : Gc(r))
          PROVE  UNCHANGED <<rows, dirs, lfsRows, stored>>
      BY <3>5 DEF CaddyRestart, LateReload, Gc
    <3>6. ASSUME NEW k \in Jobs,
                 \/ Start(k) \/ Engage(k) \/ EngageFails(k) \/ CaptureDatabase(k)
                 \/ ListRemotes(k) \/ (\E r \in Repos : RecordPackedRefs(k, r) \/ OpenRepo(k, r))
                 \/ RecordLooseRefs(k) \/ RefsRecorded(k) \/ CaptureFails(k)
                 \/ Release(k) \/ ReleaseFails(k) \/ (\E p \in Pieces : TarPiece(k, p))
                 \/ CloseRepo(k) \/ ObjectsCaptured(k) \/ ListBlobs(k)
                 \/ (\E x \in Blobs : CopyBlob(k, x)) \/ BlobsCaptured(k)
                 \/ CaptureKeys(k) \/ Verify(k) \/ StepFails(k) \/ Crash(k)
          PROVE  UNCHANGED <<rows, dirs, lfsRows, stored>>
      BY <3>6 DEF Start, Engage, EngageFails, CaptureDatabase, ListRemotes, RecordPackedRefs,
         OpenRepo, RecordLooseRefs, RefsRecorded, CaptureFails, Release, ReleaseFails, TarPiece,
         CloseRepo, ObjectsCaptured, ListBlobs, CopyBlob, BlobsCaptured, CaptureKeys, Verify,
         StepFails, Crash
    <3>7. CASE UNCHANGED vars
      BY <3>1, <3>7 DEF vars
    <3> QED
      BY NextCases, <3>1, <3>2, <3>3, <3>4, <3>5, <3>6, <3>7
  <2>2. SUFFICES ASSUME NEW j \in Jobs
                 PROVE  KeptOf(j)'
    BY <2>1 DEF KeptInv
  <2>3. KeptOf(j) /\ rows \subseteq dirs /\ lfsRows \subseteq stored
    BY DEF KeptInv
  <2>4. ASSUME UNCHANGED <<pc, workVars, snapVars, rows, lfsRows, lost>>
        PROVE  KeptOf(j)'
    BY <2>3, <2>4, OthersKeepKept
  <2>5. ASSUME NEW r \in Repos, NEW b \in Branches, NEW c \in Commits,
               AdmitHTTPPush(r, b, c) \/ LandHTTPPush(r, b, c) \/ SSHPush(r, b, c)
        PROVE  KeptOf(j)'
    BY <2>4, <2>5 DEF AdmitHTTPPush, LandHTTPPush, SSHPush
  <2>6. ASSUME NEW r \in Repos, CreateRepo(r) \/ DeleteRepo(r) \/ Gc(r)
        PROVE  KeptOf(j)'
    <3>1. CASE CreateRepo(r) \/ Gc(r)
      BY <2>3, <3>1, OthersKeepKept DEF CreateRepo, Gc
    <3>2. CASE DeleteRepo(r)
      <4>1. /\ lost[j] \subseteq lost'[j]
            /\ Active(j) /\ r \in dbRows[j] /\ r \notin tarred[j] => r \in lost'[j]
        BY <3>2, LosesEffect DEF DeleteRepo, TypeInv
      <4> QED
        BY <2>3, <3>2, <4>1, OthersKeepKept DEF DeleteRepo
    <3> QED
      BY <2>6, <3>1, <3>2
  <2>7. ASSUME NEW x \in Blobs, UploadBlob(x) \/ DeleteBlob(x)
        PROVE  KeptOf(j)'
    <3>1. CASE UploadBlob(x)
      BY <2>3, <3>1, OthersKeepKept DEF UploadBlob
    <3>2. CASE DeleteBlob(x)
      <4>1. /\ lost[j] \subseteq lost'[j]
            /\ Active(j) /\ x \in dbLfs[j] /\ x \notin copied[j] => x \in lost'[j]
        BY <3>2, LosesEffect DEF DeleteBlob, TypeInv
      <4> QED
        BY <2>3, <3>2, <4>1, OthersKeepKept DEF DeleteBlob
    <3> QED
      BY <2>7, <3>1, <3>2
  <2>8. ASSUME CaddyRestart \/ \E cfg \in Configs : LateReload(cfg)
        PROVE  KeptOf(j)'
    BY <2>4, <2>8 DEF CaddyRestart, LateReload
  <2>9. ASSUME NEW k \in Jobs, k # j,
               \/ Start(k) \/ Engage(k) \/ EngageFails(k) \/ CaptureDatabase(k)
               \/ ListRemotes(k) \/ (\E r \in Repos : RecordPackedRefs(k, r) \/ OpenRepo(k, r))
               \/ RecordLooseRefs(k) \/ RefsRecorded(k) \/ CaptureFails(k)
               \/ Release(k) \/ ReleaseFails(k) \/ (\E p \in Pieces : TarPiece(k, p))
               \/ CloseRepo(k) \/ ObjectsCaptured(k) \/ ListBlobs(k)
               \/ (\E x \in Blobs : CopyBlob(k, x)) \/ BlobsCaptured(k)
               \/ CaptureKeys(k) \/ Verify(k) \/ StepFails(k) \/ Crash(k)
        PROVE  KeptOf(j)'
    <3>1. /\ pc'[j] = pc[j] /\ todo'[j] = todo[j] /\ cur'[j] = cur[j] /\ captured'[j] = captured[j]
          /\ UNCHANGED <<rows, lfsRows, lost>>
      BY <2>9 DEF TypeInv, TypeOK, Start, Engage, EngageFails, CaptureDatabase, ListRemotes,
         RecordPackedRefs, OpenRepo, RecordLooseRefs, RefsRecorded, CaptureFails, Release,
         ReleaseFails, TarPiece, CloseRepo, ObjectsCaptured, ListBlobs, CopyBlob, BlobsCaptured,
         CaptureKeys, Verify, StepFails, Crash, Goto
    <3>2. /\ dbRows'[j] = dbRows[j] /\ dbLfs'[j] = dbLfs[j] /\ pinnedOf'[j] = pinnedOf[j]
          /\ tarred'[j] = tarred[j] /\ copied'[j] = copied[j]
      BY <2>9 DEF TypeInv, TypeOK, Start, Engage, EngageFails, CaptureDatabase, ListRemotes,
         RecordPackedRefs, OpenRepo, RecordLooseRefs, RefsRecorded, CaptureFails, Release,
         ReleaseFails, TarPiece, CloseRepo, ObjectsCaptured, ListBlobs, CopyBlob, BlobsCaptured,
         CaptureKeys, Verify, StepFails, Crash
    <3> QED
      BY <2>3, <3>1, <3>2, OthersKeepKept
  <2>10. CASE \/ Start(j) \/ Engage(j) \/ EngageFails(j) \/ ReleaseFails(j) \/ Verify(j)
              \/ StepFails(j) \/ Crash(j) \/ CaptureFails(j)
    <3>1. /\ \/ pc'[j] \in {"engage", "database"} \union Ended /\ (pc'[j] \in Early => pc[j] \in {"idle", "engage"})
             \/ pc[j] \in {"database", "remotes", "refs", "refs-loose"} /\ pc'[j] = "release"
          /\ UNCHANGED <<rows, lfsRows, captured, lost, dbRows, dbLfs, pinnedOf, tarred, copied>>
      BY <2>10 DEF Start, Engage, EngageFails, ReleaseFails, Verify, StepFails, Crash, CaptureFails,
         At, Goto, Early, Holding, Ended, TypeInv, TypeOK
    <3>2. CASE pc'[j] = "release"
      <4>1. ~captured[j]
        BY <2>3, <3>1, <3>2 DEF KeptOf, Early, Holding, Ended
      <4> QED
        BY <3>1, <3>2, <4>1 DEF KeptOf, DueRepos, DueBlobs, Early, Holding, AfterHold
    <3>3. CASE pc'[j] # "release"
      BY <2>3, <3>1, <3>3 DEF KeptOf, Early, Holding, AfterHold, Ended
    <3> QED
      BY <3>2, <3>3
  <2>11. CASE CaptureDatabase(j)
    <3>1. /\ pc[j] = "database" /\ pc'[j] = "remotes" /\ dbRows'[j] = rows /\ dbLfs'[j] = lfsRows
          /\ UNCHANGED <<rows, lfsRows, captured, lost>>
      BY <2>11 DEF CaptureDatabase, At, Goto, TypeInv, TypeOK
    <3> QED
      BY <2>3, <3>1 DEF KeptOf, DueRepos, DueBlobs, Early, Holding, AfterHold
  <2>12. CASE ListRemotes(j)
    <3>1. /\ pc[j] = "remotes" /\ pc'[j] = "refs" /\ todo'[j] = dirs
          /\ UNCHANGED <<rows, lfsRows, captured, lost, dbRows, dbLfs, pinnedOf, tarred, copied>>
      BY <2>12 DEF ListRemotes, At, Goto, TypeInv, TypeOK
    <3>2. tarred[j] = {}
      BY <3>1 DEF BackedInv, Early, Holding
    <3> QED
      BY <2>3, <3>1, <3>2 DEF KeptOf, DueRepos, DueBlobs, Early, Holding, AfterHold
  <2>13. ASSUME NEW r \in Repos, RecordPackedRefs(j, r)
         PROVE  KeptOf(j)'
    <3>1. /\ pc[j] = "refs" /\ pc'[j] = "refs-loose" /\ todo'[j] = todo[j] \ {r} /\ cur'[j] = r
          /\ UNCHANGED <<rows, lfsRows, captured, lost, dbRows, dbLfs, pinnedOf, tarred, copied>>
      BY <2>13 DEF RecordPackedRefs, At, Goto, TypeInv, TypeOK
    <3> QED
      BY <2>3, <3>1 DEF KeptOf, DueRepos, DueBlobs, Early, Holding, AfterHold
  <2>14. CASE RecordLooseRefs(j)
    <3>1. /\ pc[j] = "refs-loose" /\ pc'[j] = "refs" /\ pinnedOf'[j] = pinnedOf[j] \union {cur[j]}
          /\ UNCHANGED <<rows, lfsRows, captured, lost, dbRows, dbLfs, todo, tarred, copied>>
      BY <2>14 DEF RecordLooseRefs, At, Goto, TypeInv, TypeOK
    <3> QED
      BY <2>3, <3>1 DEF KeptOf, DueRepos, DueBlobs, Early, Holding, AfterHold
  <2>15. CASE RefsRecorded(j)
    <3>1. /\ pc[j] = "refs" /\ pc'[j] = "release" /\ todo[j] = {}
          /\ UNCHANGED <<rows, lfsRows, lost, dbRows, dbLfs, pinnedOf, tarred, copied>>
      BY <2>15 DEF RefsRecorded, At, Goto, TypeInv, TypeOK
    <3> QED
      BY <2>3, <3>1 DEF KeptOf, DueRepos, DueBlobs, Early, Holding, AfterHold
  <2>16. CASE Release(j)
    <3>1. /\ pc[j] = "release" /\ pc'[j] = (IF captured[j] THEN "objects" ELSE "failed")
          /\ todo'[j] = pinnedOf[j]
          /\ UNCHANGED <<rows, lfsRows, captured, lost, dbRows, dbLfs, pinnedOf, tarred, copied>>
      BY <2>16 DEF Release, At, Goto, TypeInv, TypeOK
    <3> QED
      BY <2>3, <3>1 DEF KeptOf, DueRepos, DueBlobs, Early, Holding, AfterHold
  <2>17. ASSUME NEW r \in Repos, OpenRepo(j, r)
         PROVE  KeptOf(j)'
    <3>1. /\ pc[j] = "objects" /\ pc'[j] = "tar" /\ todo'[j] = todo[j] \ {r} /\ cur'[j] = r
          /\ UNCHANGED <<rows, lfsRows, captured, lost, dbRows, dbLfs, pinnedOf, tarred, copied>>
      BY <2>17 DEF OpenRepo, At, Goto, TypeInv, TypeOK
    <3> QED
      BY <2>3, <3>1 DEF KeptOf, DueRepos, DueBlobs, Early, Holding, AfterHold
  <2>18. CASE \E p \in Pieces : TarPiece(j, p)
    BY <2>3, <2>18, OthersKeepKept DEF TarPiece
  <2>19. CASE CloseRepo(j)
    <3>1. /\ pc[j] = "tar" /\ pc'[j] = "objects" /\ tarred'[j] = tarred[j] \union {cur[j]}
          /\ UNCHANGED <<rows, lfsRows, captured, lost, dbRows, dbLfs, todo, pinnedOf, copied>>
      BY <2>19 DEF CloseRepo, At, Goto, TypeInv, TypeOK
    <3> QED
      BY <2>3, <3>1 DEF KeptOf, DueRepos, DueBlobs, Early, Holding, AfterHold
  <2>20. CASE ObjectsCaptured(j) \/ BlobsCaptured(j) \/ CaptureKeys(j)
    <3>1. /\ \/ pc[j] = "objects" /\ pc'[j] = "blobs" /\ todo[j] = {}
             \/ pc[j] = "blob" /\ pc'[j] = "keys" /\ todo[j] = {}
             \/ pc[j] = "keys" /\ pc'[j] = "verify"
          /\ UNCHANGED <<rows, lfsRows, captured, lost, dbRows, dbLfs, pinnedOf, tarred, copied>>
      BY <2>20 DEF ObjectsCaptured, BlobsCaptured, CaptureKeys, At, Goto, TypeInv, TypeOK
    <3> QED
      BY <2>3, <3>1 DEF KeptOf, DueRepos, DueBlobs, Early, Holding, AfterHold
  <2>21. CASE ListBlobs(j)
    <3>1. /\ pc[j] = "blobs" /\ pc'[j] = "blob" /\ todo'[j] = stored
          /\ UNCHANGED <<rows, lfsRows, captured, lost, dbRows, dbLfs, pinnedOf, tarred, copied>>
      BY <2>21 DEF ListBlobs, At, Goto, TypeInv, TypeOK
    <3> QED
      BY <2>3, <3>1 DEF KeptOf, DueRepos, DueBlobs, Early, Holding, AfterHold
  <2>22. ASSUME NEW x \in Blobs, CopyBlob(j, x)
         PROVE  KeptOf(j)'
    <3>1. /\ pc[j] = "blob" /\ todo'[j] = todo[j] \ {x} /\ copied'[j] = copied[j] \union {x}
          /\ UNCHANGED <<pc, rows, lfsRows, captured, lost, dbRows, dbLfs, pinnedOf, tarred>>
      BY <2>22 DEF CopyBlob, At, TypeInv, TypeOK
    <3> QED
      BY <2>3, <3>1 DEF KeptOf, DueRepos, DueBlobs, Early, Holding, AfterHold
  <2>23. CASE UNCHANGED vars
    BY <2>4, <2>23 DEF vars
  <2> QED
    BY NextCases, <2>5, <2>6, <2>7, <2>8, <2>9, <2>10, <2>11, <2>12, <2>13, <2>14, <2>15, <2>16,
       <2>17, <2>18, <2>19, <2>20, <2>21, <2>22, <2>23
<1> QED
  BY <1>1, <1>2, TypeInvCorrect, BackedInvCorrect, PTL DEF Spec

(* Capturing the database before anything is listed is what makes only a   *)
(* deletion fail the verification.                                         *)
THEOREM KeptCaptured == Spec => []KeptIsCaptured
<1>1. KeptInv => KeptIsCaptured
  BY DEF KeptInv, KeptOf, KeptIsCaptured, DueRepos, DueBlobs, At, AfterHold
<1> QED
  BY <1>1, KeptInvCorrect, PTL

-----------------------------------------------------------------------------
(* How the hold keeps the record of j equal to its database: while j is    *)
(* not exposed no push can move a ref; each repository's ref files are     *)
(* recorded once, and packed-refs cannot change between the two reads.     *)
Match(j) ==
  /\ InHold(j) /\ ~exposed[j] => caddy = "hold" /\ inflight = {}
  /\ pc[j] \in {"idle", "engage", "database", "remotes"} => pinnedOf[j] = {}
  /\ pc[j] \in {"refs", "refs-loose"} => todo[j] \intersect pinnedOf[j] = {}
  /\ pc[j] = "refs-loose" => cur[j] \notin pinnedOf[j] \union todo[j]
  /\ pc[j] \in {"remotes", "refs", "refs-loose"} /\ ~exposed[j] =>
       \A r \in Repos \ housekept[j] : dbTips[j][r] = Effective(refs[r])
  /\ pc[j] = "refs-loose" /\ ~exposed[j] /\ cur[j] \notin housekept[j] =>
       pinned[j][cur[j]].packed = refs[cur[j]].packed
  /\ ~exposed[j] =>
       \A r \in pinnedOf[j] \ housekept[j] : Effective(pinned[j][r]) = dbTips[j][r]

MatchInv == \A j \in Jobs : Match(j)

(* A step of anyone but j: it may move refs or lift the hold under j only  *)
(* where that leaves j exposed or the repository housekept.                *)
LEMMA OthersKeepMatch ==
  ASSUME NEW j \in Jobs, TypeInv, Match(j),
         pc'[j] = pc[j], todo'[j] = todo[j], cur'[j] = cur[j],
         dbTips'[j] = dbTips[j], pinned'[j] = pinned[j], pinnedOf'[j] = pinnedOf[j],
         ~exposed'[j] => ~exposed[j],
         housekept[j] \subseteq housekept'[j],
         InHold(j) /\ ~exposed'[j] =>
           /\ caddy' = "hold" /\ inflight' = {}
           /\ \A r \in Repos : refs'[r] = refs[r] \/ r \in housekept'[j]
  PROVE  Match(j)'
<1> USE DEF TypeInv, CurIsRepo, InHold, Holding
<1>1. pc[j] \in {"remotes", "refs", "refs-loose"} /\ ~exposed'[j] =>
        \A r \in Repos \ housekept'[j] : dbTips'[j][r] = Effective(refs'[r])
  BY DEF Match, Effective
<1>2. pc[j] = "refs-loose" /\ ~exposed'[j] /\ cur[j] \notin housekept'[j] =>
        pinned'[j][cur[j]].packed = refs'[cur[j]].packed
  BY DEF Match
<1>3. ~exposed'[j] =>
        \A r \in pinnedOf'[j] \ housekept'[j] :
          Effective(pinned'[j][r]) = dbTips'[j][r]
  BY DEF Match, Effective
<1> QED
  BY <1>1, <1>2, <1>3 DEF Match

LEMMA MatchInvCorrect == Spec => []MatchInv
<1>1. Init => MatchInv
  BY DEF Init, MatchInv, Match, InHold, Holding
<1>2. TypeInv /\ MatchInv /\ [Next]_vars => MatchInv'
  <2> SUFFICES ASSUME TypeInv, MatchInv, [Next]_vars, NEW j \in Jobs
               PROVE  Match(j)'
    BY DEF MatchInv
  <2> USE DEF forgeVars, proxyVars, workVars, snapVars, histVars
  <2>0. Match(j)
    BY DEF MatchInv
  <2>1. ASSUME UNCHANGED <<pc, todo, cur, dbTips, pinned, pinnedOf, exposed,
                           housekept, caddy, inflight, refs>>
        PROVE  Match(j)'
    BY <2>0, <2>1, OthersKeepMatch DEF Match
  <2>2. ASSUME NEW r \in Repos, NEW b \in Branches, NEW c \in Commits,
               AdmitHTTPPush(r, b, c) \/ LandHTTPPush(r, b, c) \/ SSHPush(r, b, c)
        PROVE  Match(j)'
    <3>1. CASE AdmitHTTPPush(r, b, c)
      <4>1. ~(InHold(j) /\ ~exposed[j])
        BY <2>0, <3>1 DEF Match, AdmitHTTPPush
      <4> QED
        BY <2>0, <3>1, <4>1, OthersKeepMatch DEF AdmitHTTPPush
    <3>2. CASE LandHTTPPush(r, b, c)
      <4>1. ~(InHold(j) /\ ~exposed[j])
        BY <2>0, <3>2 DEF Match, LandHTTPPush
      <4> QED
        BY <2>0, <3>2, <4>1, OthersKeepMatch DEF LandHTTPPush
    <3>3. CASE SSHPush(r, b, c)
      <4>1. exposed'[j] = (exposed[j] \/ InHold(j))
        BY <3>3 DEF SSHPush
      <4> QED
        BY <2>0, <3>3, <4>1, OthersKeepMatch DEF SSHPush
    <3> QED
      BY <2>2, <3>1, <3>2, <3>3
  <2>3. ASSUME NEW r \in Repos, CreateRepo(r) \/ DeleteRepo(r)
        PROVE  Match(j)'
    BY <2>1, <2>3 DEF CreateRepo, DeleteRepo
  <2>4. ASSUME NEW r \in Repos, Gc(r)
        PROVE  Match(j)'
    <3>1. /\ UNCHANGED <<pc, todo, cur, dbTips, pinned, pinnedOf, exposed, caddy, inflight>>
          /\ housekept[j] \subseteq housekept'[j]
          /\ InHold(j) => r \in housekept'[j]
          /\ \A q \in Repos : q = r \/ refs'[q] = refs[q]
      BY <2>4 DEF Gc, Active, InHold, Holding, Ended, TypeInv, TypeOK
    <3> QED
      BY <2>0, <3>1, OthersKeepMatch DEF Match
  <2>5. ASSUME NEW x \in Blobs, UploadBlob(x) \/ DeleteBlob(x)
        PROVE  Match(j)'
    BY <2>1, <2>5 DEF UploadBlob, DeleteBlob
  <2>6. ASSUME NEW cfg \in Configs, CaddyRestart \/ LateReload(cfg)
        PROVE  Match(j)'
    <3>1. \/ exposed'[j] = (exposed[j] \/ InHold(j))
          \/ exposed'[j] = exposed[j] /\ caddy' = "hold"
      BY <2>6 DEF CaddyRestart, LateReload, LiftsHoldOf, Configs, TypeInv, TypeOK
    <3> QED
      BY <2>0, <2>6, <3>1, OthersKeepMatch DEF Match, CaddyRestart, LateReload
  <2>61. CASE CaddyRestart
    BY <2>6, <2>61 DEF Configs
  <2>7. ASSUME NEW k \in Jobs, k # j,
               \/ Start(k) \/ Engage(k) \/ EngageFails(k) \/ CaptureDatabase(k)
               \/ ListRemotes(k) \/ (\E r \in Repos : RecordPackedRefs(k, r) \/ OpenRepo(k, r))
               \/ RecordLooseRefs(k) \/ RefsRecorded(k) \/ CaptureFails(k)
               \/ ReleaseFails(k) \/ (\E p \in Pieces : TarPiece(k, p))
               \/ CloseRepo(k) \/ ObjectsCaptured(k) \/ ListBlobs(k)
               \/ (\E x \in Blobs : CopyBlob(k, x)) \/ BlobsCaptured(k)
               \/ CaptureKeys(k) \/ Verify(k) \/ StepFails(k) \/ Crash(k)
        PROVE  Match(j)'
    <3>1. /\ pc'[j] = pc[j] /\ todo'[j] = todo[j] /\ cur'[j] = cur[j]
          /\ UNCHANGED <<refs, housekept, inflight>>
      BY <2>7 DEF TypeInv, TypeOK, Start, Engage, EngageFails, CaptureDatabase,
         ListRemotes, RecordPackedRefs, OpenRepo, RecordLooseRefs, RefsRecorded,
         CaptureFails, ReleaseFails, TarPiece, CloseRepo, ObjectsCaptured,
         ListBlobs, CopyBlob, BlobsCaptured, CaptureKeys, Verify, StepFails,
         Crash, Goto
    <3>2. dbTips'[j] = dbTips[j] /\ pinned'[j] = pinned[j] /\ pinnedOf'[j] = pinnedOf[j]
      BY <2>7 DEF TypeInv, TypeOK, Start, Engage, EngageFails, CaptureDatabase,
         ListRemotes, RecordPackedRefs, OpenRepo, RecordLooseRefs, RefsRecorded,
         CaptureFails, ReleaseFails, TarPiece, CloseRepo, ObjectsCaptured,
         ListBlobs, CopyBlob, BlobsCaptured, CaptureKeys, Verify, StepFails,
         Crash
    <3>3. exposed'[j] = exposed[j] /\ caddy' \in {caddy, "hold"}
      BY <2>7 DEF TypeInv, TypeOK, Start, Engage, EngageFails, CaptureDatabase,
         ListRemotes, RecordPackedRefs, OpenRepo, RecordLooseRefs, RefsRecorded,
         CaptureFails, ReleaseFails, TarPiece, CloseRepo, ObjectsCaptured,
         ListBlobs, CopyBlob, BlobsCaptured, CaptureKeys, Verify, StepFails,
         Crash
    <3> QED
      BY <2>0, <3>1, <3>2, <3>3, OthersKeepMatch DEF Match
  <2>8. ASSUME NEW k \in Jobs, k # j, Release(k)
        PROVE  Match(j)'
    <3>1. exposed'[j] = (exposed[j] \/ InHold(j))
      BY <2>8 DEF Release, LiftsHoldOf
    <3>2. /\ pc'[j] = pc[j] /\ todo'[j] = todo[j]
          /\ UNCHANGED <<cur, dbTips, pinned, pinnedOf, refs, housekept, inflight>>
      BY <2>8 DEF Release, Goto, TypeInv, TypeOK
    <3> QED
      BY <2>0, <3>1, <3>2, OthersKeepMatch
  <2>9. CASE Start(j) \/ EngageFails(j) \/ RefsRecorded(j) \/ CaptureFails(j)
             \/ ReleaseFails(j) \/ StepFails(j) \/ Crash(j) \/ Verify(j)
             \/ ObjectsCaptured(j) \/ BlobsCaptured(j) \/ CaptureKeys(j)
             \/ ListBlobs(j)
    BY <2>0, <2>9 DEF Match, Start, EngageFails, RefsRecorded, CaptureFails,
       ReleaseFails, StepFails, Crash, Verify, ObjectsCaptured, BlobsCaptured,
       CaptureKeys, ListBlobs, At, Goto, InHold, Holding, TypeInv, TypeOK
  <2>10. CASE (\E r \in Repos : OpenRepo(j, r)) \/ (\E p \in Pieces : TarPiece(j, p))
              \/ CloseRepo(j) \/ (\E x \in Blobs : CopyBlob(j, x))
    BY <2>0, <2>10 DEF Match, OpenRepo, TarPiece, CloseRepo, CopyBlob, At, Goto,
       InHold, Holding, TypeInv, TypeOK
  <2>11. CASE Release(j)
    <3>1. /\ exposed'[j] = exposed[j] /\ ~InHold(j)'
          /\ pc'[j] \in {"objects", "failed"}
          /\ UNCHANGED <<dbTips, pinned, pinnedOf, housekept>>
      BY <2>11 DEF Release, LiftsHoldOf, InHold, Holding, Goto, TypeInv, TypeOK
    <3> QED
      BY <2>0, <3>1 DEF Match
  <2>12. CASE Engage(j)
    <3>1. /\ pc[j] = "engage" /\ pc'[j] = "database" /\ caddy' = "hold"
          /\ exposed'[j] = (inflight # {})
          /\ UNCHANGED <<pinnedOf, inflight>>
      BY <2>12 DEF Engage, At, Goto, TypeInv, TypeOK
    <3> QED
      BY <2>0, <3>1 DEF Match
  <2>13. CASE CaptureDatabase(j)
    <3>1. /\ pc[j] = "database" /\ pc'[j] = "remotes"
          /\ dbTips'[j] = [r \in Repos |-> Effective(refs[r])]
          /\ UNCHANGED <<pinnedOf, inflight, caddy, refs, exposed>>
      BY <2>13 DEF CaptureDatabase, At, Goto, TypeInv, TypeOK
    <3> QED
      BY <2>0, <3>1 DEF Match, Effective, InHold, Holding
  <2>14. CASE ListRemotes(j)
    <3>1. /\ pc[j] = "remotes" /\ pc'[j] = "refs"
          /\ UNCHANGED <<pinned, pinnedOf, inflight, caddy, refs, exposed, dbTips,
                         housekept>>
      BY <2>14 DEF ListRemotes, At, Goto, TypeInv, TypeOK
    <3> QED
      BY <2>0, <3>1 DEF Match, Effective, InHold, Holding
  <2>15. ASSUME NEW r \in Repos, RecordPackedRefs(j, r)
         PROVE  Match(j)'
    <3>1. /\ pc[j] = "refs" /\ pc'[j] = "refs-loose"
          /\ r \in todo[j] /\ cur'[j] = r /\ todo'[j] = todo[j] \ {r}
          /\ UNCHANGED <<pinnedOf, inflight, caddy, refs, exposed, dbTips,
                         housekept>>
      BY <2>15 DEF RecordPackedRefs, At, Goto, TypeInv, TypeOK
    <3>2. /\ pinned'[j][r].packed = refs[r].packed
          /\ \A q \in Repos : q # r => pinned'[j][q] = pinned[j][q]
      BY <2>15 DEF RecordPackedRefs, ReadPacked, RefStore, TypeInv, TypeOK
    <3>3. r \notin pinnedOf[j] /\ pinnedOf[j] \subseteq Repos
      BY <2>0, <3>1 DEF Match, TypeInv, TypeOK
    <3>4. \A q \in pinnedOf[j] : Effective(pinned'[j][q]) = Effective(pinned[j][q])
      BY <3>2, <3>3 DEF Effective
    <3> QED
      BY <2>0, <3>1, <3>2, <3>3, <3>4 DEF Match, InHold, Holding
  <2>16. CASE RecordLooseRefs(j)
    <3> DEFINE r == cur[j]
    <3>1. /\ pc[j] = "refs-loose" /\ pc'[j] = "refs"
          /\ r \in Repos /\ pinnedOf'[j] = pinnedOf[j] \union {r}
          /\ UNCHANGED <<todo, inflight, caddy, refs, exposed, dbTips, housekept>>
      BY <2>16 DEF RecordLooseRefs, At, Goto, TypeInv, TypeOK, CurIsRepo
    <3>2. /\ pinned'[j][r] = ReadLoose(pinned[j][r], refs[r])
          /\ \A q \in Repos : q # r => pinned'[j][q] = pinned[j][q]
      BY <2>16, <3>1 DEF RecordLooseRefs, TypeInv, TypeOK
    <3>3. /\ pinned'[j][r].loose = refs[r].loose
          /\ pinned'[j][r].packed = pinned[j][r].packed
      BY <3>1, <3>2 DEF ReadLoose, RefStore, TypeInv, TypeOK
    <3> HIDE DEF r
    <3>4. ~exposed[j] /\ r \notin housekept[j] =>
            Effective(pinned'[j][r]) = dbTips[j][r]
      <4>1. ~exposed[j] /\ r \notin housekept[j] =>
              /\ pinned[j][r].packed = refs[r].packed
              /\ dbTips[j][r] = Effective(refs[r])
        BY <2>0, <3>1 DEF Match, r
      <4> QED
        BY <3>3, <4>1 DEF Effective
    <3>5. ~exposed[j] =>
            \A q \in pinnedOf'[j] \ housekept[j] :
               Effective(pinned'[j][q]) = dbTips[j][q]
      <4>1. r \notin pinnedOf[j] /\ pinnedOf[j] \subseteq Repos
        BY <2>0, <3>1 DEF Match, TypeInv, TypeOK, r
      <4>2. \A q \in pinnedOf[j] : Effective(pinned'[j][q]) = Effective(pinned[j][q])
        BY <3>2, <4>1 DEF Effective
      <4> QED
        BY <2>0, <3>1, <3>4, <4>2 DEF Match
    <3>6. todo'[j] \intersect pinnedOf'[j] = {}
      BY <2>0, <3>1 DEF Match, r
    <3> QED
      BY <2>0, <3>1, <3>5, <3>6 DEF Match, InHold, Holding
  <2>17. CASE UNCHANGED vars
    BY <2>1, <2>17 DEF vars
  <2> QED
    BY NextCases, <2>2, <2>3, <2>4, <2>5, <2>6, <2>61, <2>7, <2>8, <2>9, <2>10,
       <2>11, <2>12, <2>13, <2>14, <2>15, <2>16, <2>17
<1> QED
  BY <1>1, <1>2, TypeInvCorrect, PTL DEF Spec

(* The purpose of the hold. *)
THEOREM RecordedRefsMatch == Spec => []PinnedRefsMatchDatabase
<1>1. MatchInv /\ ClosedInv => PinnedRefsMatchDatabase
  BY DEF MatchInv, Match, ClosedInv, CrossConsistent, PinnedRefsMatchDatabase
<1> QED
  BY <1>1, MatchInvCorrect, ClosedInvCorrect, PTL

(* What a restore ends up with. *)
THEOREM RestoredTipsMatch == Spec => []RestoredTipsMatchDatabase
<1>1. TypeInv /\ BackedInv /\ MatchInv /\ ClosedInv => RestoredTipsMatchDatabase
  <2> SUFFICES ASSUME TypeInv, BackedInv, MatchInv, ClosedInv,
                      NEW j \in Jobs, Succeeded(j), ~exposed[j],
                      NEW r \in dbRows[j], r \notin housekept[j],
                      NEW b \in Branches, pinned[j][r].loose[b] # NoCommit
               PROVE  /\ Effective(Placed(j, r))[b] = dbTips[j][r][b]
                      /\ dbTips[j][r][b] \in tarObjects[j][r]
    BY DEF RestoredTipsMatchDatabase
  <2> DEFINE c == pinned[j][r].loose[b]
  <2>1. r \in Repos /\ r \in pinnedOf[j] /\ r \in tarred[j]
    BY DEF ClosedInv, CrossConsistent, TypeInv, TypeOK
  <2>2. dbTips[j][r][b] = c
    <3>1. Effective(pinned[j][r]) = dbTips[j][r]
      BY <2>1 DEF MatchInv, Match
    <3>2. Effective(pinned[j][r])[b] = c
      BY DEF Effective
    <3> QED
      BY <3>1, <3>2
  <2>3. Effective(Placed(j, r))[b] = c
    BY OverlayKeepsLoose DEF Placed
  <2>4. c \in NamedBy(pinned[j][r])
    BY <2>1 DEF NamedBy, RefStore, Tips, TypeInv, TypeOK
  <2>5. c \in tarObjects[j][r]
    BY <2>1, <2>4 DEF BackedInv
  <2> QED
    BY <2>2, <2>3, <2>5
<1> QED
  BY <1>1, TypeInvCorrect, BackedInvCorrect, MatchInvCorrect, ClosedInvCorrect, PTL
=============================================================================
