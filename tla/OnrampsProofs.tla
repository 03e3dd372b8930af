---------------------------- MODULE OnrampsProofs ----------------------------
(* Proofs about Onramps, for any runs, names, batches and bounds.          *)
EXTENDS Onramps, TLAPS

Early == {"idle", "inspect", "authorize", "register", "check", "create"}
Pushing == {"branches", "tags"}

MadeBy(n, maker) == repos[n] # None /\ repos[n].by = maker

(* Only the forge's own migrations are migrating. *)
MigrationsInv ==
  \A n \in Names : repos[n] # None => (repos[n].migrating => repos[n].by \in Entries)

(* What a publish has made and set, by its phase. *)
RemoteInv ==
  \A p \in Publishers :
    /\ pub[p].phase \in Early \union {"remote"} => ~pub[p].added
    /\ pub[p].phase \in Pushing \union {"unset"} => pub[p].added
    /\ pub[p].phase \in Pushing \union {"unset"} => remote # None /\ remote.by = p
    /\ remote # None /\ remote.by = p =>
         /\ remote.name = pub[p].name
         /\ pub[p].phase \notin Early \union {"remote"}
    /\ pub[p].phase \in {"delete", "failed"} /\ p \notin excused =>
         (remote # None => remote.by # p)

RepositoriesOf(p) ==
  /\ \A n \in Names : MadeBy(n, p) =>
       /\ n = pub[p].name
       /\ pub[p].phase \notin Early
       /\ pub[p].phase = "failed" => p \in excused
  /\ pub[p].phase \in Pushing \union {"remote", "unset", "delete"} =>
       MadeBy(pub[p].name, p) \/ pub[p].name \in displaced
  /\ pub[p].phase = "tags" /\ pub[p].name \notin displaced =>
       "branches" \in repos[pub[p].name].has

RepositoryInv == \A p \in Publishers : RepositoriesOf(p)

(* An import's repositories are at the names of its batch; it has none of  *)
(* the entry it is about to ask for, nor of those it has yet to come to.   *)
EntriesOf(i) ==
  \A k \in 1 .. MaxBatch : \A n \in Names : MadeBy(n, <<i, k>>) =>
    /\ imp[i].phase # "idle"
    /\ k <= Len(imp[i].batch) /\ n = imp[i].batch[k]
    /\ k <= Current(i)
    /\ k = Current(i) => imp[i].phase \in {"answer", "cleanup", "dead"}
    /\ k < Current(i) /\ imp[i].results[k] = "failed" => <<i, k>> \in excused

ImportInv == \A i \in Importers : EntriesOf(i)

IInv == TypeOK /\ MigrationsInv /\ RemoteInv /\ RepositoryInv /\ ImportInv

-----------------------------------------------------------------------------
(* The case split every step proof below starts from. *)
LEMMA NextCases ==
  ASSUME [Next]_vars
  PROVE  \/ \E p \in Publishers :
              \/ \E n \in Names : StartPublish(p, n)
              \/ Inspect(p) \/ Authorize(p) \/ Register(p) \/ Check(p) \/ Create(p)
              \/ AddRemote(p) \/ PushBranches(p) \/ PushTags(p) \/ UnsetRemote(p)
              \/ DeleteRepo(p) \/ PubFails(p)
         \/ \E i \in Importers :
              \/ \E batch \in Batches : StartImport(i, batch)
              \/ NotSent(i) \/ Migrate(i) \/ Answered(i) \/ CallFails(i) \/ Cleanup(i)
         \/ \E n \in Names : Cloned(n) \/ CloneFails(n)
         \/ ByHand
         \/ Killed
         \/ UNCHANGED vars
BY DEF Next, PublishStep, ImportStep

PubTypes ==
  [Publishers -> [phase : PublishSteps \union PublishEnds \union {"idle"},
                  name : Names \union {None}, added : BOOLEAN]]

(* A publish moves on by itself alone. *)
LEMMA PubGotoEffect ==
  ASSUME TypeOK, NEW p \in Publishers, NEW ph \in PublishSteps \union PublishEnds,
         pub[p].phase # "idle", PubGoto(p, ph)
  PROVE  /\ pub[p].name \in Names
         /\ pub' \in PubTypes
         /\ \A q \in Publishers : pub'[q].name = None => pub'[q].phase = "idle"
         /\ pub'[p].phase = ph /\ pub'[p].name = pub[p].name
         /\ pub'[p].added = (ph \in PublishSteps /\ pub[p].added)
         /\ \A q \in Publishers \ {p} : pub'[q] = pub[q]
<1> DEFINE new == IF ph \in PublishEnds
                  THEN [NotPublished EXCEPT !.phase = ph, !.name = pub[p].name]
                  ELSE [pub[p] EXCEPT !.phase = ph]
<1>1. pub' = [pub EXCEPT ![p] = new]
  BY DEF PubGoto
<1>2. /\ new \in [phase : PublishSteps \union PublishEnds \union {"idle"},
                  name : Names \union {None}, added : BOOLEAN]
      /\ new.phase = ph /\ new.name = pub[p].name
      /\ new.added = (ph \in PublishSteps /\ pub[p].added)
  BY DEF TypeOK, NotPublished, PublishSteps, PublishEnds
<1> HIDE DEF new
<1> QED
  BY <1>1, <1>2 DEF TypeOK, PubTypes

(* The parts of the type invariant that a publish may change. *)
LEMMA PubTypeOK ==
  ASSUME TypeOK, UNCHANGED <<imp, byHand>>,
         repos' \in [Names -> Repositories \union {None}], keys' \subseteq Keys,
         remote' \in Remotes \union {None}, pub' \in PubTypes,
         \A p \in Publishers : pub'[p].name = None => pub'[p].phase = "idle",
         displaced' \subseteq Names, excused' \subseteq Makers
  PROVE  TypeOK'
BY DEF TypeOK, PubTypes, ActiveImp

(* What a removal by name does, whoever's the repository was.              *)
LEMMA DeleteEffect ==
  ASSUME TypeOK, NEW n \in Names, NEW maker, Delete(n, maker)
  PROVE  /\ repos' \in [Names -> Repositories \union {None}]
         /\ repos'[n] = None
         /\ \A m \in Names \ {n} : repos'[m] = repos[m]
         /\ displaced \subseteq displaced' /\ displaced' \subseteq Names
         /\ \A other : other # maker /\ MadeBy(n, other) /\ Active(other) => n \in displaced'
BY DEF TypeOK, Delete, MadeBy

LEMMA ResultTypes ==
  ASSUME TypeOK, NEW i \in Importers, ActiveImp(i)
  PROVE  /\ Current(i) \in 1 .. Len(imp[i].batch) /\ Current(i) \in 1 .. MaxBatch
         /\ NameOf(i) \in Names /\ ThisEntry(i) \in Entries
         /\ NewRepository(ThisEntry(i)) \in Repositories
<1>1. Current(i) \in 1 .. Len(imp[i].batch) /\ Current(i) \in 1 .. MaxBatch
  BY BoundsAssumption DEF TypeOK, Current
<1>2. NameOf(i) \in Names
  BY <1>1 DEF TypeOK, NameOf
<1> QED
  BY <1>1, <1>2 DEF ThisEntry, Entries, NewRepository, Repositories, Makers, Contents

(* An entry's outcome is appended to those before it.                      *)
LEMMA OutcomeEffect ==
  ASSUME TypeOK, NEW i \in Importers, ActiveImp(i), NEW o \in {"imported", "failed"},
         WithOutcome(i, o)
  PROVE  /\ imp' \in [Importers -> [phase : {"idle", "call", "answer", "cleanup", "ended", "dead"},
                            batch : Seq(Names), results : Seq({"imported", "failed"})]]
         /\ \A j \in Importers \ {i} : imp'[j] = imp[j]
         /\ imp'[i].batch = imp[i].batch
         /\ Len(imp'[i].results) = Len(imp[i].results) + 1
         /\ \A k \in 1 .. Len(imp[i].results) : imp'[i].results[k] = imp[i].results[k]
         /\ imp'[i].results[Current(i)] = o
         /\ imp'[i].phase \in {"ended", "call"}
         /\ imp'[i].phase = "ended" <=> Len(imp'[i].results) = Len(imp[i].batch)
<1> DEFINE results == Append(imp[i].results, o)
<1>1. /\ imp[i].results \in Seq({"imported", "failed"}) /\ imp[i].batch \in Seq(Names)
      /\ results \in Seq({"imported", "failed"})
  BY DEF TypeOK
<1>2. /\ Len(results) = Len(imp[i].results) + 1
      /\ \A k \in 1 .. Len(imp[i].results) : results[k] = imp[i].results[k]
      /\ results[Current(i)] = o
  BY <1>1 DEF Current
<1> DEFINE new == [imp[i] EXCEPT !.results = results,
                                 !.phase = IF Last(i, results) THEN "ended" ELSE "call"]
<1>3. imp' = [imp EXCEPT ![i] = new]
  BY DEF WithOutcome, TypeOK
<1>4. /\ new.results = results /\ new.batch = imp[i].batch
      /\ new.phase = (IF Len(results) = Len(imp[i].batch) THEN "ended" ELSE "call")
      /\ new \in [phase : {"idle", "call", "answer", "cleanup", "ended", "dead"},
                  batch : Seq(Names), results : Seq({"imported", "failed"})]
  BY <1>1 DEF TypeOK, Last
<1> HIDE DEF results, new
<1> QED
  BY <1>1, <1>2, <1>3, <1>4 DEF TypeOK

-----------------------------------------------------------------------------
(* Type correctness. *)
LEMMA PublishTypes ==
  ASSUME TypeOK, NEW p \in Publishers,
         PublishStep(p) \/ \E n \in Names : StartPublish(p, n)
  PROVE  TypeOK'
<1> USE DEF PublishSteps, PublishEnds
<1>1. CASE \E n \in Names : StartPublish(p, n)
  <2>1. PICK n \in Names : StartPublish(p, n)
    BY <1>1
  <2> DEFINE new == [pub[p] EXCEPT !.phase = "inspect", !.name = n]
  <2>2. pub' = [pub EXCEPT ![p] = new]
    BY <2>1 DEF StartPublish, TypeOK
  <2>3. /\ new \in [phase : PublishSteps \union PublishEnds \union {"idle"},
                    name : Names \union {None}, added : BOOLEAN]
        /\ new.name # None
    BY NoneAssumption DEF TypeOK
  <2> HIDE DEF new
  <2>4. pub' \in PubTypes /\ \A q \in Publishers : pub'[q].name = None => pub'[q].phase = "idle"
    BY <2>2, <2>3 DEF TypeOK, PubTypes
  <2> QED
    BY <2>1, <2>4, PubTypeOK DEF StartPublish, TypeOK
<1>2. ASSUME NEW ph \in PublishSteps \union PublishEnds, pub[p].phase # "idle", PubGoto(p, ph)
      PROVE  /\ pub' \in PubTypes
             /\ \A q \in Publishers : pub'[q].name = None => pub'[q].phase = "idle"
  BY <1>2, PubGotoEffect
<1>3. CASE Inspect(p) \/ Authorize(p) \/ Check(p) \/ PubFails(p)
  <2>1. \E ph \in PublishSteps \union PublishEnds : PubGoto(p, ph) /\ pub[p].phase # "idle"
    BY <1>3 DEF Inspect, Authorize, Check, PubFails, AfterPubFailure, AfterRemote, ActivePub
  <2>2. UNCHANGED <<repos, keys, remote, imp, byHand, displaced, excused>>
    BY <1>3 DEF Inspect, Authorize, Check, PubFails
  <2> QED
    BY <1>2, <2>1, <2>2, PubTypeOK DEF TypeOK
<1>4. CASE Register(p)
  <2>1. \E ph \in PublishSteps \union PublishEnds : PubGoto(p, ph) /\ pub[p].phase # "idle"
    BY <1>4 DEF Register
  <2> QED
    BY <1>2, <1>4, <2>1, PubTypeOK DEF Register, Keys, TypeOK
<1>5. CASE Create(p)
  <2>1. \E ph \in PublishSteps \union PublishEnds : PubGoto(p, ph) /\ pub[p].phase # "idle"
    BY <1>5 DEF Create, Refused
  <2>2. NewRepository(p) \in Repositories
    BY DEF NewRepository, Repositories, Makers
  <2>3. repos' \in [Names -> Repositories \union {None}] /\ excused' \subseteq Makers
    BY <1>5, <2>2 DEF Create, TypeOK, Makers
  <2> QED
    BY <1>2, <1>5, <2>1, <2>3, PubTypeOK DEF Create, TypeOK
<1>6. CASE AddRemote(p)
  <2>1. CASE remote = None
    <3>1. PICK host \in Hosts : remote' = [by |-> p, name |-> pub[p].name, host |-> host]
      BY <1>6, <2>1 DEF AddRemote
    <3>2. pub[p].phase = "remote" /\ pub' = [pub EXCEPT ![p].phase = "branches", ![p].added = TRUE]
      BY <1>6, <2>1 DEF AddRemote
    <3>3. pub[p].name \in Names /\ remote' \in Remotes
      BY <3>1, <3>2 DEF TypeOK, Remotes
    <3>4. pub' \in PubTypes /\ \A q \in Publishers : pub'[q].name = None => pub'[q].phase = "idle"
      BY ZenonT(30), <3>2, <3>3, NoneAssumption DEF TypeOK, PubTypes
    <3> QED
      BY <1>6, <3>3, <3>4, PubTypeOK DEF AddRemote, TypeOK
  <2>2. CASE remote # None
    <3>1. PubGoto(p, AfterPubFailure(p)) /\ UNCHANGED remote
      BY <1>6, <2>2 DEF AddRemote
    <3>2. AfterPubFailure(p) \in PublishSteps \union PublishEnds /\ pub[p].phase # "idle"
      BY <1>6 DEF AddRemote, AfterPubFailure, AfterRemote
    <3> QED
      BY <1>2, <1>6, <3>1, <3>2, PubTypeOK DEF AddRemote, TypeOK
  <2> QED
    BY <2>1, <2>2
<1>7. ASSUME NEW refs \in {"branches", "tags"}, NEW next \in PublishSteps \union PublishEnds,
             Push(p, refs, next)
      PROVE  TypeOK'
  <2>1. \E ph \in PublishSteps \union PublishEnds : PubGoto(p, ph) /\ pub[p].phase # "idle"
    BY <1>7 DEF Push, AfterPubFailure, AfterRemote
  <2>2. ASSUME Reaches(remote) PROVE [repos[remote.name] EXCEPT !.has = @ \union {refs}] \in Repositories
    <3>1. remote.name \in Names /\ repos[remote.name] \in Repositories
      BY <2>2 DEF Reaches, TypeOK, Remotes
    <3> DEFINE r == repos[remote.name]
    <3>2. r.by \in Makers /\ r.has \subseteq Contents /\ r.migrating \in BOOLEAN
      BY <3>1 DEF Repositories
    <3>3. [r EXCEPT !.has = @ \union {refs}] \in [by : Makers, has : SUBSET Contents, migrating : BOOLEAN]
      BY <3>1, <3>2 DEF Repositories, Contents
    <3> QED
      BY <3>3 DEF Repositories
  <2>3. repos' \in [Names -> Repositories \union {None}]
    BY <1>7, <2>2 DEF Push, TypeOK
  <2> QED
    BY <1>2, <1>7, <2>1, <2>3, PubTypeOK DEF Push, TypeOK
<1>8. CASE UnsetRemote(p)
  <2>1. \E ph \in PublishSteps \union PublishEnds : PubGoto(p, ph) /\ pub[p].phase # "idle"
    BY <1>8 DEF UnsetRemote
  <2> QED
    BY <1>2, <1>8, <2>1, PubTypeOK DEF UnsetRemote, TypeOK, Makers
<1>9. CASE DeleteRepo(p)
  <2>1. \E ph \in PublishSteps \union PublishEnds : PubGoto(p, ph) /\ pub[p].phase # "idle"
    BY <1>9 DEF DeleteRepo
  <2>2. pub[p].name \in Names
    BY <1>9 DEF DeleteRepo, TypeOK
  <2>3. repos' \in [Names -> Repositories \union {None}] /\ displaced' \subseteq Names
    BY <1>9, <2>2, DeleteEffect DEF DeleteRepo, TypeOK
  <2> QED
    BY <1>2, <1>9, <2>1, <2>3, PubTypeOK DEF DeleteRepo, TypeOK, Makers
<1> QED
  BY <1>1, <1>3, <1>4, <1>5, <1>6, <1>7, <1>8, <1>9
     DEF PublishStep, PushBranches, PushTags, AfterBranches

(* An import that goes on with the same entry. *)
LEMMA ImpGotoTypes ==
  ASSUME TypeOK, NEW i \in Importers, ActiveImp(i),
         NEW phase \in {"answer", "cleanup", "dead"}, ImpGoto(i, phase),
         repos' \in [Names -> Repositories \union {None}],
         UNCHANGED <<keys, remote, pub, byHand, displaced, excused>>
  PROVE  TypeOK'
<1> DEFINE new == [imp[i] EXCEPT !.phase = phase]
<1>1. imp' = [imp EXCEPT ![i] = new]
  BY DEF ImpGoto, TypeOK
<1>2. /\ new \in [phase : {"idle", "call", "answer", "cleanup", "ended", "dead"},
                  batch : Seq(Names), results : Seq({"imported", "failed"})]
      /\ new.batch = imp[i].batch /\ new.results = imp[i].results
  BY DEF TypeOK
<1> HIDE DEF new
<1> QED
  BY <1>1, <1>2 DEF TypeOK, ActiveImp

LEMMA TypeStep ==
  ASSUME TypeOK, [Next]_vars
  PROVE  TypeOK'
<1> USE DEF TypeOK, vars
<1>7. ASSUME NEW i \in Importers, NEW batch \in Batches, StartImport(i, batch)
      PROVE  TypeOK'
  <2>1. batch \in Seq(Names) /\ Len(batch) \in 1 .. MaxBatch
    <3>1. PICK k \in 1 .. MaxBatch : batch \in [1 .. k -> Names]
      BY DEF Batches
    <3> QED
      BY <3>1, BoundsAssumption
  <2> DEFINE new == [phase |-> "call", batch |-> batch, results |-> <<>>]
  <2>2. new \in [phase : {"idle", "call", "answer", "cleanup", "ended", "dead"},
                 batch : Seq(Names), results : Seq({"imported", "failed"})]
    BY <2>1
  <2>3. Len(new.results) = 0 /\ new.batch = batch
    OBVIOUS
  <2>4. imp' = [imp EXCEPT ![i] = new]
    BY <1>7 DEF StartImport
  <2>5. UNCHANGED <<repos, keys, remote, pub, byHand, displaced, excused>>
    BY <1>7 DEF StartImport
  <2> HIDE DEF new
  <2> QED
    BY <2>1, <2>2, <2>3, <2>4, <2>5, BoundsAssumption DEF ActiveImp
<1>8. ASSUME NEW i \in Importers, Migrate(i)
      PROVE  TypeOK'
  <2>1. ActiveImp(i)
    BY <1>8 DEF Migrate, ActiveImp
  <2>2. [NewRepository(ThisEntry(i)) EXCEPT !.migrating = TRUE] \in Repositories
    BY <2>1, ResultTypes DEF Repositories
  <2>3. repos' \in [Names -> Repositories \union {None}]
    BY <1>8, <2>2 DEF Migrate
  <2>4. \E phase \in {"cleanup", "answer"} : ImpGoto(i, phase)
    BY <1>8 DEF Migrate
  <2>5. UNCHANGED <<keys, remote, pub, byHand, displaced, excused>>
    BY <1>8 DEF Migrate
  <2> QED
    BY <2>1, <2>3, <2>4, <2>5, ImpGotoTypes
<1>9. ASSUME NEW i \in Importers, NotSent(i) \/ Answered(i) \/ Cleanup(i)
      PROVE  TypeOK'
  <2>1. ActiveImp(i)
    BY <1>9 DEF NotSent, Answered, Cleanup, ActiveImp
  <2>2. PICK o \in {"imported", "failed"} : WithOutcome(i, o)
    BY <1>9 DEF NotSent, Answered, Cleanup
  <2>3. /\ imp' \in [Importers -> [phase : {"idle", "call", "answer", "cleanup", "ended", "dead"},
                            batch : Seq(Names), results : Seq({"imported", "failed"})]]
        /\ \A j \in Importers :
             /\ Len(imp'[j].results) <= Len(imp'[j].batch) /\ Len(imp'[j].batch) <= MaxBatch
             /\ imp'[j].phase \in {"call", "answer", "cleanup"}
                  => Len(imp'[j].results) < Len(imp'[j].batch)
    <3>1. \A j \in Importers \ {i} : imp'[j] = imp[j]
      BY <2>1, <2>2, OutcomeEffect
    <3>2. /\ Len(imp'[i].results) <= Len(imp'[i].batch) /\ Len(imp'[i].batch) <= MaxBatch
          /\ imp'[i].phase \in {"call", "answer", "cleanup"}
               => Len(imp'[i].results) < Len(imp'[i].batch)
      <4>1. /\ imp'[i].batch = imp[i].batch
            /\ Len(imp'[i].results) = Len(imp[i].results) + 1
            /\ imp'[i].phase = "ended" <=> Len(imp'[i].results) = Len(imp[i].batch)
            /\ imp'[i].phase \in {"ended", "call"}
        BY <2>1, <2>2, OutcomeEffect
      <4>2. /\ Len(imp[i].results) \in Nat /\ Len(imp[i].batch) \in Nat
            /\ Len(imp[i].results) < Len(imp[i].batch)
        BY <2>1 DEF ActiveImp
      <4> QED
        BY <4>1, <4>2
    <3>3. imp' \in [Importers -> [phase : {"idle", "call", "answer", "cleanup", "ended", "dead"},
                            batch : Seq(Names), results : Seq({"imported", "failed"})]]
      BY <2>1, <2>2, OutcomeEffect
    <3> QED
      BY <3>1, <3>2, <3>3 DEF ActiveImp
  <2>4. /\ repos' \in [Names -> Repositories \union {None}]
        /\ displaced' \subseteq Names /\ excused' \subseteq Makers
    <3>1. CASE Answered(i)
      BY <3>1, <2>1, ResultTypes DEF Answered, Makers
    <3>2. CASE Cleanup(i)
      BY <3>2, <2>1, ResultTypes, DeleteEffect DEF Cleanup, Makers
    <3>3. CASE NotSent(i)
      BY <3>3 DEF NotSent
    <3> QED
      BY <1>9, <3>1, <3>2, <3>3
  <2>5. UNCHANGED <<keys, remote, pub, byHand>>
    BY <1>9 DEF NotSent, Answered, Cleanup
  <2> QED
    BY <2>3, <2>4, <2>5 DEF ActiveImp
<1>10. ASSUME NEW i \in Importers, CallFails(i)
       PROVE  TypeOK'
  BY <1>10 DEF CallFails, NotAnswered, ImpGoto, ActiveImp
<1>11. ASSUME NEW n \in Names, Cloned(n) \/ CloneFails(n)
       PROVE  TypeOK'
  <2>1. repos[n] \in Repositories
    BY <1>11 DEF Cloned, CloneFails
  <2>2. /\ [repos[n] EXCEPT !.migrating = FALSE] \in Repositories
        /\ [repos[n] EXCEPT !.migrating = FALSE, !.has = @ \union {"code"}] \in Repositories
    BY <2>1 DEF Repositories, Contents
  <2>3. repos' \in [Names -> Repositories \union {None}]
    BY ZenonT(30), <1>11, <2>2 DEF Cloned, CloneFails
  <2> QED
    BY <1>11, <2>3 DEF Cloned, CloneFails, ActiveImp
<1>12. CASE ByHand
  <2>1. NewRepository(User) \in Repositories
    BY DEF NewRepository, Repositories, Makers
  <2>2. repos' \in [Names -> Repositories \union {None}] /\ displaced' \subseteq Names
    BY <1>12, <2>1, DeleteEffect DEF ByHand
  <2>3. byHand' \in 0 .. MaxUserSteps
    BY <1>12, BoundsAssumption DEF ByHand
  <2> QED
    BY <1>12, <2>2, <2>3 DEF ByHand, ActiveImp
<1>13. CASE Killed
  <2>1. CASE \E p \in Publishers : ActivePub(p) /\ PubGoto(p, "dead") /\ UNCHANGED imp
    <3>1. \E p \in Publishers : pub[p].phase # "idle" /\ PubGoto(p, "dead")
      BY <2>1 DEF ActivePub, PublishSteps
    <3> QED
      BY <1>13, <2>1, <3>1, PubGotoEffect, PubTypeOK DEF Killed, PublishEnds
  <2>2. CASE \E i \in Importers : ActiveImp(i) /\ ImpGoto(i, "dead") /\ UNCHANGED pub
    BY ZenonT(30), <1>13, <2>2 DEF Killed, ImpGoto, ActiveImp
  <2> QED
    BY <1>13, <2>1, <2>2 DEF Killed, Kill
<1>14. CASE UNCHANGED vars
  BY <1>14 DEF ActiveImp
<1> QED
  BY PublishTypes, <1>7, <1>8, <1>9, <1>10, <1>11, <1>12, <1>13, <1>14 DEF Next, ImportStep

-----------------------------------------------------------------------------
(* The folder's remote is that of the publish that is pushing through it.  *)

(* A publish moves on and the remote stays: what its next phase may be.    *)
LEMMA RemoteKept ==
  ASSUME TypeOK, RemoteInv, NEW p \in Publishers, NEW ph \in PublishSteps \union PublishEnds,
         pub[p].phase \in PublishSteps, PubGoto(p, ph),
         remote' = remote, excused \subseteq excused',
         ph \in Early \union {"remote"} => pub[p].phase \in Early,
         ph \in Pushing \union {"unset"} => pub[p].phase \in Pushing,
         ph \in {"delete", "failed"} =>
           pub[p].phase \in Early \union {"remote", "delete"} \/ p \in excused'
  PROVE  RemoteInv'
<1>1. /\ pub'[p].phase = ph /\ pub'[p].name = pub[p].name
      /\ pub'[p].added = (ph \in PublishSteps /\ pub[p].added)
      /\ \A q \in Publishers \ {p} : pub'[q] = pub[q]
  BY PubGotoEffect DEF PublishSteps
<1> USE DEF RemoteInv, Early, Pushing, PublishSteps, PublishEnds
<1>2. ASSUME NEW q \in Publishers, q # p
      PROVE  /\ pub'[q].phase \in Early \union {"remote"} => ~pub'[q].added
             /\ pub'[q].phase \in Pushing \union {"unset"} => pub'[q].added
             /\ pub'[q].phase \in Pushing \union {"unset"} => remote' # None /\ remote'.by = q
             /\ remote' # None /\ remote'.by = q =>
                  /\ remote'.name = pub'[q].name
                  /\ pub'[q].phase \notin Early \union {"remote"}
             /\ pub'[q].phase \in {"delete", "failed"} /\ q \notin excused' =>
                  (remote' # None => remote'.by # q)
  BY <1>1, <1>2
<1>3. /\ ph \in Early \union {"remote"} => ~pub'[p].added
      /\ ph \in Pushing \union {"unset"} => pub'[p].added
      /\ ph \in Pushing \union {"unset"} => remote # None /\ remote.by = p
  BY <1>1
<1>4. remote # None /\ remote.by = p =>
        /\ remote.name = pub'[p].name
        /\ ph \notin Early \union {"remote"}
  BY <1>1
<1>5. ph \in {"delete", "failed"} /\ p \notin excused' => (remote # None => remote.by # p)
  BY <1>1
<1> QED
  BY <1>1, <1>2, <1>3, <1>4, <1>5

LEMMA RemoteStep ==
  ASSUME TypeOK, RemoteInv, [Next]_vars
  PROVE  RemoteInv'
<1> USE DEF PublishSteps, PublishEnds
<1>1. ASSUME NEW p \in Publishers,
             \/ Inspect(p) \/ Authorize(p) \/ Register(p) \/ Check(p) \/ Create(p)
             \/ PubFails(p) \/ DeleteRepo(p)
      PROVE  RemoteInv'
  <2>1. \E ph \in PublishSteps \union PublishEnds :
          /\ PubGoto(p, ph) /\ pub[p].phase \in PublishSteps
          /\ remote' = remote /\ excused \subseteq excused'
          /\ ph \in Early \union {"remote"} => pub[p].phase \in Early
          /\ ph \in Pushing \union {"unset"} => pub[p].phase \in Pushing
          /\ ph \in {"delete", "failed"} => pub[p].phase \in Early \union {"remote", "delete"}
    <3>1. CASE Inspect(p) \/ Authorize(p) \/ Register(p) \/ Check(p)
      BY <3>1 DEF Inspect, Authorize, Register, Check, Early, Pushing
    <3>2. CASE Create(p)
      BY <3>2 DEF Create, Refused, Early, Pushing
    <3>3. CASE PubFails(p)
      BY <3>3 DEF PubFails, ActivePub, AfterPubFailure, AfterRemote, Early, Pushing, RemoteInv
    <3>4. CASE DeleteRepo(p)
      BY <3>4 DEF DeleteRepo, Early, Pushing
    <3> QED
      BY <1>1, <3>1, <3>2, <3>3, <3>4
  <2> QED
    BY <2>1, RemoteKept
<1>2. ASSUME NEW p \in Publishers, PushBranches(p) \/ PushTags(p)
      PROVE  RemoteInv'
  <2>1. \E ph \in {"tags", "published", "unset"} : PubGoto(p, ph)
    BY <1>2 DEF PushBranches, PushTags, Push, AfterBranches, AfterPubFailure, AfterRemote,
                RemoteInv, Pushing
  <2>2. pub[p].phase \in Pushing /\ UNCHANGED <<remote, excused>>
    BY <1>2 DEF PushBranches, PushTags, Push, Pushing
  <2> QED
    BY <2>1, <2>2, RemoteKept DEF Pushing, Early
<1>3. ASSUME NEW p \in Publishers, AddRemote(p)
      PROVE  RemoteInv'
  <2>1. CASE remote = None
    <3>1. PICK host \in Hosts : remote' = [by |-> p, name |-> pub[p].name, host |-> host]
      BY <1>3, <2>1 DEF AddRemote
    <3>2. pub[p].name \in Names
      BY <1>3 DEF AddRemote, TypeOK
    <3>3. remote' # None /\ remote'.by = p /\ remote'.name = pub[p].name
      BY <3>1, <3>2, NoneAssumption DEF Remotes
    <3>4. /\ pub'[p].phase = "branches" /\ pub'[p].name = pub[p].name /\ pub'[p].added = TRUE
          /\ \A q \in Publishers \ {p} : pub'[q] = pub[q] /\ pub[q].phase \notin Pushing \union {"unset"}
      BY <1>3, <2>1 DEF AddRemote, RemoteInv, TypeOK
    <3> QED
      BY <1>3, <3>3, <3>4 DEF RemoteInv, Early, Pushing, AddRemote
  <2>2. CASE remote # None
    <3>1. PubGoto(p, "delete") /\ pub[p].phase = "remote" /\ UNCHANGED <<remote, excused>>
      BY <1>3, <2>2 DEF AddRemote, AfterPubFailure, AfterRemote, RemoteInv
    <3> QED
      BY <3>1, RemoteKept DEF Pushing, Early
  <2> QED
    BY <2>1, <2>2
<1>4. ASSUME NEW p \in Publishers, UnsetRemote(p)
      PROVE  RemoteInv'
  <2>1. PubGoto(p, "delete") /\ pub[p].phase = "unset"
    BY <1>4 DEF UnsetRemote
  <2>2. CASE remote' = remote /\ excused' = excused \union {p}
    BY <2>1, <2>2, RemoteKept DEF Pushing, Early
  <2>3. CASE remote' = None /\ excused' = excused
    <3>1. /\ pub'[p].phase = "delete"
          /\ \A q \in Publishers \ {p} : pub'[q] = pub[q] /\ pub[q].phase \notin Pushing \union {"unset"}
      BY <2>1, PubGotoEffect DEF RemoteInv
    <3> QED
      BY <2>3, <3>1 DEF RemoteInv, Early, Pushing
  <2> QED
    BY <1>4, <2>2, <2>3 DEF UnsetRemote
<1>5. ASSUME NEW p \in Publishers, NEW n \in Names, StartPublish(p, n)
      PROVE  RemoteInv'
  <2>1. /\ pub[p].phase = "idle" /\ pub'[p].phase = "inspect" /\ pub'[p].added = pub[p].added
        /\ \A q \in Publishers \ {p} : pub'[q] = pub[q]
        /\ UNCHANGED <<remote, excused>>
    BY <1>5 DEF StartPublish, TypeOK
  <2> QED
    BY <2>1 DEF RemoteInv, Early, Pushing
<1>6. CASE Killed
  <2>1. CASE \E p \in Publishers : ActivePub(p) /\ PubGoto(p, "dead")
    BY <1>6, <2>1, RemoteKept DEF Killed, ActivePub, Pushing, Early
  <2>2. CASE UNCHANGED pub
    BY <1>6, <2>2 DEF Killed, RemoteInv
  <2> QED
    BY <1>6, <2>1, <2>2 DEF Killed, Kill
<1>7. CASE ByHand
  BY <1>7 DEF ByHand, RemoteInv, ActivePub, Pushing
<1>8. CASE UNCHANGED <<remote, pub, excused>>
  BY <1>8 DEF RemoteInv
<1>9. ASSUME NEW i \in Importers,
             \/ \E batch \in Batches : StartImport(i, batch)
             \/ NotSent(i) \/ Migrate(i) \/ Answered(i) \/ CallFails(i) \/ Cleanup(i)
      PROVE  RemoteInv'
  <2>1. UNCHANGED <<remote, pub>> /\ excused \subseteq excused'
    BY <1>9 DEF StartImport, NotSent, Migrate, Answered, CallFails, Cleanup
  <2> QED
    BY <2>1 DEF RemoteInv
<1>10. ASSUME NEW n \in Names, Cloned(n) \/ CloneFails(n)
       PROVE  RemoteInv'
  BY <1>8, <1>10 DEF Cloned, CloneFails
<1> QED
  BY NextCases, <1>1, <1>2, <1>3, <1>4, <1>5, <1>6, <1>7, <1>8, <1>9, <1>10 DEF vars

-----------------------------------------------------------------------------
(* What is at a name, and who made it.                                     *)

(* A repository is another's only by its maker's own step.                 *)
LEMMA MakersApart ==
  /\ \A p \in Publishers, i \in Importers, k \in 1 .. MaxBatch : p # <<i, k>>
  /\ \A p \in Publishers : p # User
  /\ \A i \in Importers, k \in 1 .. MaxBatch : <<i, k>> # User
  /\ \A i, j \in Importers, k, l \in 1 .. MaxBatch : <<i, k>> = <<j, l>> => i = j /\ k = l
BY RunsAssumption

(* A push adds to the repository at the remote's name, whoever's it is.    *)
LEMMA PushEffect ==
  ASSUME TypeOK, NEW p \in Publishers, NEW refs \in {"branches", "tags"}, NEW next,
         Push(p, refs, next)
  PROVE  /\ \A n \in Names : repos[n] = None <=> repos'[n] = None
         /\ \A n \in Names : repos[n] # None =>
              /\ repos'[n].by = repos[n].by /\ repos'[n].migrating = repos[n].migrating
              /\ repos[n].has \subseteq repos'[n].has
         /\ \/ PubGoto(p, AfterPubFailure(p))
            \/ /\ Reaches(remote) /\ PubGoto(p, next)
               /\ refs \in repos'[remote.name].has
<1>1. CASE Reaches(remote) /\ repos' = [repos EXCEPT ![remote.name].has = @ \union {refs}]
  <2>1. remote.name \in Names /\ repos[remote.name] \in Repositories
    BY <1>1 DEF Reaches, TypeOK, Remotes
  <2> DEFINE r == repos[remote.name]
             new == [r EXCEPT !.has = @ \union {refs}]
  <2>2. repos' = [repos EXCEPT ![remote.name] = new]
    BY <1>1, <2>1 DEF TypeOK
  <2>3. /\ new.by = r.by /\ new.migrating = r.migrating /\ new.has = r.has \union {refs}
        /\ new \in Repositories
    BY <2>1 DEF Repositories, Contents
  <2>4. r # None /\ new # None
    BY <2>1, <2>3, NoneAssumption
  <2>5. PubGoto(p, next) \/ PubGoto(p, AfterPubFailure(p))
    BY DEF Push
  <2> HIDE DEF new
  <2> QED
    BY <1>1, <2>1, <2>2, <2>3, <2>4, <2>5 DEF TypeOK
<1>2. CASE UNCHANGED repos /\ PubGoto(p, AfterPubFailure(p))
  BY <1>2
<1> QED
  BY <1>1, <1>2 DEF Push

LEMMA MigrationsStep ==
  ASSUME TypeOK, MigrationsInv, [Next]_vars
  PROVE  MigrationsInv'
<1> USE DEF MigrationsInv
<1>1. ASSUME NEW p \in Publishers, Create(p)
      PROVE  MigrationsInv'
  <2>1. NewRepository(p).migrating = FALSE
    BY DEF NewRepository
  <2>2. \A m \in Names : repos'[m] \in {repos[m], NewRepository(p)}
    BY <1>1 DEF Create, TypeOK
  <2> QED
    BY <2>1, <2>2
<1>2. ASSUME NEW p \in Publishers, PushBranches(p) \/ PushTags(p)
      PROVE  MigrationsInv'
  BY <1>2, PushEffect DEF PushBranches, PushTags
<1>3. ASSUME NEW p \in Publishers, DeleteRepo(p)
      PROVE  MigrationsInv'
  <2>1. pub[p].name \in Names
    BY <1>3 DEF DeleteRepo, TypeOK
  <2> QED
    BY <1>3, <2>1 DEF DeleteRepo, Delete, TypeOK
<1>4. ASSUME NEW i \in Importers, Migrate(i)
      PROVE  MigrationsInv'
  <2>1. ActiveImp(i)
    BY <1>4 DEF Migrate, ActiveImp
  <2>2. [NewRepository(ThisEntry(i)) EXCEPT !.migrating = TRUE].by \in Entries
    BY <2>1, ResultTypes DEF NewRepository
  <2> QED
    BY <1>4, <2>2 DEF Migrate, TypeOK
<1>5. ASSUME NEW i \in Importers, Cleanup(i)
      PROVE  MigrationsInv'
  <2>1. ActiveImp(i)
    BY <1>5 DEF Cleanup, ActiveImp
  <2> QED
    BY <1>5, <2>1, ResultTypes DEF Cleanup, Delete, TypeOK
<1>6. ASSUME NEW n \in Names, Cloned(n) \/ CloneFails(n)
      PROVE  MigrationsInv'
  <2>1. repos[n] \in Repositories
    BY <1>6 DEF Cloned, CloneFails, TypeOK
  <2>2. /\ [repos[n] EXCEPT !.migrating = FALSE].migrating = FALSE
        /\ [repos[n] EXCEPT !.migrating = FALSE, !.has = @ \union {"code"}].migrating = FALSE
    BY <2>1 DEF Repositories
  <2>3. \A m \in Names \ {n} : repos'[m] = repos[m]
    BY <1>6 DEF Cloned, CloneFails, TypeOK
  <2>4. repos'[n] = None \/ repos'[n].migrating = FALSE
    BY <1>6, <2>2 DEF Cloned, CloneFails, TypeOK
  <2> QED
    BY <2>3, <2>4
<1>7. CASE ByHand
  <2>1. NewRepository(User).migrating = FALSE
    BY DEF NewRepository
  <2>2. \A m \in Names : repos'[m] \in {repos[m], NewRepository(User), None}
    BY <1>7 DEF ByHand, Delete, TypeOK
  <2> QED
    BY <2>1, <2>2
<1>8. CASE UNCHANGED repos
  BY <1>8
<1> QED
  BY NextCases, <1>1, <1>2, <1>3, <1>4, <1>5, <1>6, <1>7, <1>8
     DEF vars, StartPublish, Inspect, Authorize, Register, Check, AddRemote, UnsetRemote,
         PubFails, StartImport, NotSent, Answered, CallFails, Killed

(* What others do leaves a publish its repository, or displaces it while   *)
(* it runs; and nobody makes one in its name.                              *)
LEMMA RepositoriesKept ==
  ASSUME NEW p \in Publishers, RepositoriesOf(p),
         pub'[p] = pub[p], excused \subseteq excused', displaced \subseteq displaced',
         \A n \in Names : MadeBy(n, p)' => MadeBy(n, p),
         ActivePub(p) => pub[p].name \in Names,
         \A n \in Names : MadeBy(n, p) /\ ActivePub(p) =>
           \/ n \in displaced'
           \/ MadeBy(n, p)' /\ repos[n].has \subseteq repos'[n].has
  PROVE  RepositoriesOf(p)'
<1>1. ASSUME pub[p].phase \in Pushing \union {"remote", "unset", "delete"},
             pub[p].name \notin displaced'
      PROVE  /\ MadeBy(pub[p].name, p)'
             /\ repos[pub[p].name].has \subseteq repos'[pub[p].name].has
  <2>1. ActivePub(p) /\ MadeBy(pub[p].name, p)
    BY <1>1 DEF RepositoriesOf, ActivePub, PublishSteps, Pushing
  <2> QED
    BY <1>1, <2>1
<1>2. ASSUME NEW n \in Names, MadeBy(n, p)'
      PROVE  /\ n = pub[p].name
             /\ pub[p].phase \notin Early
             /\ pub[p].phase = "failed" => p \in excused
  BY <1>2 DEF RepositoriesOf
<1>3. ASSUME pub[p].phase = "tags", pub[p].name \notin displaced'
      PROVE  "branches" \in repos'[pub[p].name].has
  BY <1>1, <1>3 DEF RepositoriesOf, Pushing
<1> QED
  BY <1>1, <1>2, <1>3 DEF RepositoriesOf, MadeBy

Spared(p) ==
  /\ excused \subseteq excused' /\ displaced \subseteq displaced'
  /\ \A n \in Names : MadeBy(n, p)' => MadeBy(n, p)
  /\ \A n \in Names : MadeBy(n, p) /\ ActivePub(p) =>
       \/ n \in displaced'
       \/ MadeBy(n, p)' /\ repos[n].has \subseteq repos'[n].has

(* A name that was free is given to one repository; the others stay.       *)
LEMMA Registered ==
  ASSUME TypeOK, NEW n \in Names, NEW r, repos[n] = None, repos' = [repos EXCEPT ![n] = r]
  PROVE  /\ repos'[n] = r
         /\ \A m \in Names \ {n} : repos'[m] = repos[m]
<1>1. repos \in [Names -> Repositories \union {None}]
  BY DEF TypeOK
<1> QED
  BY <1>1

LEMMA OthersRepositories ==
  ASSUME TypeOK, MigrationsInv, RepositoryInv, [Next]_vars, NEW p \in Publishers, pub'[p] = pub[p]
  PROVE  RepositoriesOf(p)'
<1>1. ASSUME NEW q \in Publishers, q # p, Create(q)
      PROVE  Spared(p)
  <2>1. NewRepository(q).by = q
    BY DEF NewRepository
  <2>2. \/ UNCHANGED repos
        \/ /\ repos[pub[q].name] = None
           /\ repos' = [repos EXCEPT ![pub[q].name] = NewRepository(q)]
    BY <1>1 DEF Create
  <2>3. \A n \in Names : repos'[n] = repos[n] \/ (repos[n] = None /\ repos'[n] = NewRepository(q))
    <3>1. pub[q].name \in Names
      BY <1>1 DEF Create, TypeOK
    <3> QED
      BY <2>2, <3>1, Registered
  <2>4. excused \subseteq excused' /\ displaced' = displaced
    BY <1>1 DEF Create
  <2> QED
    BY <1>1, <2>1, <2>3, <2>4 DEF Spared, MadeBy
<1>2. ASSUME NEW q \in Publishers, PushBranches(q) \/ PushTags(q)
      PROVE  Spared(p)
  <2>1. UNCHANGED <<excused, displaced>>
    BY <1>2 DEF PushBranches, PushTags, Push
  <2>2. /\ \A n \in Names : repos[n] = None <=> repos'[n] = None
        /\ \A n \in Names : repos[n] # None =>
             repos'[n].by = repos[n].by /\ repos[n].has \subseteq repos'[n].has
    BY <1>2, PushEffect DEF PushBranches, PushTags
  <2> QED
    BY <2>1, <2>2 DEF Spared, MadeBy
<1>3. ASSUME NEW n \in Names, NEW maker, maker # p, Delete(n, maker), excused \subseteq excused'
      PROVE  Spared(p)
  BY <1>3, DeleteEffect DEF Spared, MadeBy, Active
<1>4. ASSUME NEW q \in Publishers, q # p, DeleteRepo(q)
      PROVE  Spared(p)
  <2>1. pub[q].name \in Names
    BY <1>4 DEF DeleteRepo, TypeOK
  <2> QED
    BY <1>3, <1>4, <2>1 DEF DeleteRepo, Spared, MadeBy
<1>5. ASSUME NEW i \in Importers, Migrate(i)
      PROVE  Spared(p)
  <2>1. ActiveImp(i)
    BY <1>5 DEF Migrate, ActiveImp
  <2> DEFINE new == [NewRepository(ThisEntry(i)) EXCEPT !.migrating = TRUE]
  <2>2. ThisEntry(i) # p
    BY <2>1, ResultTypes, MakersApart DEF Entries
  <2>3. new.by # p
    BY <2>2 DEF NewRepository
  <2>4. \/ UNCHANGED repos
        \/ (repos[NameOf(i)] = None /\ repos' = [repos EXCEPT ![NameOf(i)] = new])
    BY <1>5 DEF Migrate
  <2> HIDE DEF new
  <2>5. \A n \in Names : repos'[n] = repos[n] \/ (repos[n] = None /\ repos'[n].by # p)
    BY <2>1, <2>3, <2>4, ResultTypes, Registered
  <2>6. UNCHANGED <<displaced, excused>>
    BY <1>5 DEF Migrate
  <2> QED
    BY <2>5, <2>6 DEF Spared, MadeBy
<1>6. ASSUME NEW i \in Importers, Cleanup(i)
      PROVE  Spared(p)
  <2>1. ActiveImp(i)
    BY <1>6 DEF Cleanup, ActiveImp
  <2>2. ThisEntry(i) # p /\ NameOf(i) \in Names
    BY <2>1, ResultTypes, MakersApart DEF Entries
  <2> QED
    BY <1>3, <1>6, <2>2 DEF Cleanup, Spared, MadeBy
<1>7. ASSUME NEW n \in Names, Cloned(n) \/ CloneFails(n)
      PROVE  Spared(p)
  <2>1. \A m \in Names \ {n} : repos'[m] = repos[m]
    BY <1>7 DEF Cloned, CloneFails, TypeOK
  <2>2. repos[n] \in Repositories /\ repos[n].by \in Entries /\ repos[n].by # p
    BY <1>7, MakersApart DEF Cloned, CloneFails, MigrationsInv, TypeOK, Entries
  <2>3. /\ [repos[n] EXCEPT !.migrating = FALSE].by = repos[n].by
        /\ [repos[n] EXCEPT !.migrating = FALSE, !.has = @ \union {"code"}].by = repos[n].by
    BY <2>2 DEF Repositories
  <2>4. repos'[n] = None \/ repos'[n].by = repos[n].by
    BY <1>7, <2>3 DEF Cloned, CloneFails, TypeOK
  <2> QED
    BY <1>7, <2>1, <2>2, <2>4 DEF Spared, MadeBy, Cloned, CloneFails
<1>8. ASSUME ByHand
      PROVE  Spared(p)
  <2>1. CASE \E n \in Names : repos[n] # None /\ Delete(n, User)
    BY <1>3, <1>8, <2>1, MakersApart DEF ByHand
  <2>2. CASE /\ UNCHANGED displaced
             /\ \E n \in Names : repos[n] = None /\ repos' = [repos EXCEPT ![n] = NewRepository(User)]
    <3>1. NewRepository(User).by # p
      BY MakersApart DEF NewRepository
    <3>2. \A m \in Names : repos'[m] = repos[m] \/ (repos[m] = None /\ repos'[m] = NewRepository(User))
      BY <2>2, Registered
    <3> QED
      BY <1>8, <2>2, <3>1, <3>2 DEF ByHand, Spared, MadeBy
  <2>3. CASE UNCHANGED <<repos, displaced>>
    BY <1>8, <2>3 DEF ByHand, Spared, MadeBy
  <2> QED
    BY <1>8, <2>1, <2>2, <2>3 DEF ByHand
<1>9. ASSUME UNCHANGED <<repos, displaced>>, excused \subseteq excused'
      PROVE  Spared(p)
  BY <1>9 DEF Spared, MadeBy
<1>10. ASSUME NEW ph \in PublishSteps \union PublishEnds, PubGoto(p, ph), pub[p].phase # "idle"
       PROVE  pub[p].phase = ph
  BY <1>10, PubGotoEffect
<1>11. ASSUME NEW q \in Publishers, Create(q) \/ DeleteRepo(q)
       PROVE  q # p
  BY <1>10, <1>11 DEF Create, Refused, DeleteRepo, PublishSteps, PublishEnds
<1>12. Spared(p)
  <2>1. ASSUME NEW q \in Publishers, PublishStep(q) \/ \E n \in Names : StartPublish(q, n)
        PROVE  Spared(p)
    <3>1. CASE \/ Inspect(q) \/ Authorize(q) \/ Register(q) \/ Check(q) \/ AddRemote(q)
               \/ UnsetRemote(q) \/ PubFails(q) \/ \E n \in Names : StartPublish(q, n)
      BY <1>9, <3>1 DEF Inspect, Authorize, Register, Check, AddRemote, UnsetRemote, PubFails,
                        StartPublish
    <3> QED
      BY <1>1, <1>2, <1>4, <1>11, <2>1, <3>1 DEF PublishStep
  <2>2. ASSUME NEW i \in Importers,
               \/ \E batch \in Batches : StartImport(i, batch)
               \/ NotSent(i) \/ Answered(i) \/ CallFails(i)
        PROVE  Spared(p)
    BY <1>9, <2>2 DEF StartImport, NotSent, Answered, CallFails
  <2>3. ASSUME Killed \/ UNCHANGED vars
        PROVE  Spared(p)
    BY <1>9, <2>3 DEF Killed, vars
  <2> QED
    BY <1>5, <1>6, <1>7, <1>8, <2>1, <2>2, <2>3 DEF Next, ImportStep
<1>13. ActivePub(p) => pub[p].name \in Names
  BY DEF TypeOK, ActivePub, PublishSteps
<1> QED
  BY <1>12, <1>13, RepositoriesKept DEF RepositoryInv, Spared

(* A publish moves on and neither the forge nor the folder changes.        *)
LEMMA OnlyMovesOn ==
  ASSUME TypeOK, NEW p \in Publishers, RepositoriesOf(p),
         NEW ph \in PublishSteps \union PublishEnds, pub[p].phase \in PublishSteps, PubGoto(p, ph),
         UNCHANGED <<repos, displaced>>, excused \subseteq excused',
         ph \in Early => pub[p].phase \in Early,
         ph = "failed" => pub[p].phase \in Early \/ p \in excused',
         ph \in Pushing \union {"remote", "unset", "delete"} =>
           pub[p].phase \in Pushing \union {"remote", "unset", "delete"},
         ph # "tags"
  PROVE  RepositoriesOf(p)'
<1>1. pub'[p].phase = ph /\ pub'[p].name = pub[p].name
  BY PubGotoEffect DEF PublishSteps
<1> QED
  BY <1>1 DEF RepositoriesOf, MadeBy

LEMMA OwnRepositories ==
  ASSUME TypeOK, RemoteInv, RepositoryInv, NEW p \in Publishers,
         PublishStep(p) \/ \E n \in Names : StartPublish(p, n)
  PROVE  RepositoriesOf(p)'
<1> USE DEF PublishSteps, PublishEnds
<1>1. RepositoriesOf(p)
  BY DEF RepositoryInv
<1>2. CASE \/ Inspect(p) \/ Authorize(p) \/ Register(p) \/ Check(p) \/ PubFails(p)
           \/ UnsetRemote(p)
  <2>1. \E ph \in PublishSteps \union PublishEnds :
          /\ PubGoto(p, ph) /\ pub[p].phase \in PublishSteps
          /\ UNCHANGED <<repos, displaced>> /\ excused \subseteq excused'
          /\ ph \in Early => pub[p].phase \in Early
          /\ ph = "failed" => pub[p].phase \in Early
          /\ ph \in Pushing \union {"remote", "unset", "delete"} =>
               pub[p].phase \in Pushing \union {"remote", "unset", "delete"}
          /\ ph # "tags"
    <3>1. CASE Inspect(p) \/ Authorize(p) \/ Register(p) \/ Check(p)
      BY <3>1 DEF Inspect, Authorize, Register, Check, Early, Pushing
    <3>2. CASE PubFails(p)
      BY <3>2 DEF PubFails, ActivePub, AfterPubFailure, AfterRemote, Early, Pushing
    <3>3. CASE UnsetRemote(p)
      BY <3>3 DEF UnsetRemote, Early, Pushing
    <3> QED
      BY <1>2, <3>1, <3>2, <3>3
  <2> QED
    BY <1>1, <2>1, OnlyMovesOn
<1>3. CASE Create(p)
  <2>1. CASE UNCHANGED <<repos, excused>> /\ PubGoto(p, "failed")
    BY <1>1, <1>3, <2>1, OnlyMovesOn DEF Create, Early, Pushing
  <2>2. CASE /\ repos[pub[p].name] = None
             /\ repos' = [repos EXCEPT ![pub[p].name] = NewRepository(p)]
             /\ \/ PubGoto(p, "remote") /\ UNCHANGED excused
                \/ PubGoto(p, "failed") /\ excused' = excused \union {p}
    <3>1. pub[p].name \in Names
      BY <1>3 DEF Create, TypeOK
    <3>2. NewRepository(p) \in Repositories /\ NewRepository(p).by = p
      BY DEF NewRepository, Repositories, Makers
    <3>3. NewRepository(p) # None
      BY <3>2, NoneAssumption
    <3>4. MadeBy(pub[p].name, p)' /\ \A m \in Names \ {pub[p].name} : ~MadeBy(m, p)'
      <4>1. \A m \in Names : ~MadeBy(m, p)
        BY <1>1, <1>3 DEF RepositoriesOf, Create, Early
      <4>2. repos'[pub[p].name] = NewRepository(p)
        BY <2>2, <3>1, Registered
      <4>3. \A m \in Names \ {pub[p].name} : repos'[m] = repos[m]
        BY <2>2, <3>1, Registered
      <4>4. pub'[p].name = pub[p].name
        BY <1>3, <2>2, PubGotoEffect DEF Create
      <4> QED
        BY <3>1, <3>2, <3>3, <4>1, <4>2, <4>3, <4>4 DEF MadeBy
    <3>5. pub'[p].name = pub[p].name /\ pub'[p].phase \in {"remote", "failed"}
      BY <1>3, <2>2, PubGotoEffect DEF Create
    <3>6. pub'[p].phase = "failed" => p \in excused'
      BY <1>3, <2>2, PubGotoEffect DEF Create
    <3> QED
      BY <3>4, <3>5, <3>6 DEF RepositoriesOf, MadeBy, Early, Pushing
  <2> QED
    BY <1>3, <2>1, <2>2 DEF Create, Refused
<1>4. CASE AddRemote(p)
  <2>1. /\ pub[p].phase = "remote" /\ pub'[p].name = pub[p].name
        /\ pub'[p].phase \in {"branches", "unset", "delete"}
    <3>1. CASE remote = None
      BY <1>4, <3>1 DEF AddRemote, TypeOK
    <3>2. CASE remote # None
      <4>1. PubGoto(p, AfterPubFailure(p)) /\ pub[p].phase = "remote"
        BY <1>4, <3>2 DEF AddRemote
      <4>2. AfterPubFailure(p) \in {"unset", "delete"}
        BY <4>1 DEF AfterPubFailure, AfterRemote
      <4> QED
        BY <4>1, <4>2, PubGotoEffect
    <3> QED
      BY <3>1, <3>2
  <2>2. UNCHANGED <<repos, displaced, excused>>
    BY <1>4 DEF AddRemote
  <2> QED
    BY <1>1, <2>1, <2>2 DEF RepositoriesOf, MadeBy, Early, Pushing
<1>5. ASSUME NEW refs \in {"branches", "tags"}, NEW next \in {"tags", "published"},
             Push(p, refs, next), next = "tags" => refs = "branches"
      PROVE  RepositoriesOf(p)'
  <2>1. /\ pub[p].phase = refs /\ pub[p].name \in Names
        /\ UNCHANGED <<displaced, excused>>
    BY <1>5 DEF Push, TypeOK
  <2>2. \A n \in Names : MadeBy(n, p)' <=> MadeBy(n, p)
    BY <1>5, PushEffect DEF MadeBy
  <2>3. MadeBy(pub[p].name, p) \/ pub[p].name \in displaced
    BY <1>1, <2>1 DEF RepositoriesOf, Pushing
  <2>4. CASE PubGoto(p, AfterPubFailure(p))
    <3>1. AfterPubFailure(p) = "unset"
      BY <2>1 DEF AfterPubFailure, AfterRemote, RemoteInv, Pushing
    <3>2. pub'[p].phase = "unset" /\ pub'[p].name = pub[p].name
      BY <2>1, <2>4, <3>1, PubGotoEffect
    <3> QED
      BY <1>1, <2>1, <2>2, <2>3, <3>2 DEF RepositoriesOf, MadeBy, Early, Pushing
  <2>5. CASE PubGoto(p, next) /\ refs \in repos'[remote.name].has
    <3>1. pub'[p].phase = next /\ pub'[p].name = pub[p].name
      BY <2>1, <2>5, PubGotoEffect
    <3>2. remote.name = pub[p].name
      BY <2>1 DEF RemoteInv, Pushing
    <3> QED
      BY <1>1, <1>5, <2>1, <2>2, <2>3, <2>5, <3>1, <3>2
         DEF RepositoriesOf, MadeBy, Early, Pushing
  <2> QED
    BY <1>5, <2>4, <2>5, PushEffect
<1>6. CASE DeleteRepo(p)
  <2>1. pub[p].phase = "delete" /\ pub[p].name \in Names /\ PubGoto(p, "failed")
    BY <1>6 DEF DeleteRepo, TypeOK
  <2>2. pub'[p].phase = "failed" /\ pub'[p].name = pub[p].name
    BY <2>1, PubGotoEffect
  <2>3. CASE Delete(pub[p].name, p)
    <3>1. \A n \in Names : ~MadeBy(n, p)'
      BY <1>1, <2>1, <2>3, DeleteEffect DEF RepositoriesOf, MadeBy
    <3> QED
      BY <2>2, <3>1 DEF RepositoriesOf, MadeBy, Pushing
  <2>4. CASE excused' = excused \union {p} /\ UNCHANGED <<repos, displaced>>
    BY <1>1, <2>1, <2>4, OnlyMovesOn DEF Early, Pushing
  <2> QED
    BY <1>6, <2>3, <2>4 DEF DeleteRepo
<1>7. ASSUME NEW n \in Names, StartPublish(p, n)
      PROVE  RepositoriesOf(p)'
  <2>1. pub' = [pub EXCEPT ![p].phase = "inspect", ![p].name = n] /\ pub[p].phase = "idle"
    BY <1>7 DEF StartPublish
  <2>2. pub'[p].phase = "inspect"
    <3>1. pub \in PubTypes
      BY DEF TypeOK, PubTypes
    <3> QED
      BY <2>1, <3>1 DEF PubTypes
  <2>3. UNCHANGED <<repos, excused, displaced>>
    BY <1>7 DEF StartPublish
  <2> QED
    BY <1>1, <2>1, <2>2, <2>3 DEF RepositoriesOf, MadeBy, Early, Pushing
<1> QED
  BY <1>2, <1>3, <1>4, <1>5, <1>6, <1>7 DEF PublishStep, PushBranches, PushTags, AfterBranches

(* Only its own steps, and its death, move a publish on.                   *)
LEMMA MovesByItself ==
  ASSUME TypeOK, [Next]_vars, NEW p \in Publishers, pub'[p] # pub[p]
  PROVE  \/ PublishStep(p) \/ \E n \in Names : StartPublish(p, n)
         \/ Killed /\ ActivePub(p) /\ PubGoto(p, "dead")
<1>1. ASSUME NEW q \in Publishers, q # p,
             \/ PublishStep(q) \/ \E n \in Names : StartPublish(q, n)
             \/ ActivePub(q) /\ PubGoto(q, "dead")
      PROVE  pub'[p] = pub[p]
  BY <1>1 DEF PublishStep, StartPublish, Inspect, Authorize, Register, Check, Create, AddRemote,
              PushBranches, PushTags, Push, UnsetRemote, DeleteRepo, PubFails, PubGoto, TypeOK
<1>2. ASSUME NEW i \in Importers, ImportStep(i) \/ \E batch \in Batches : StartImport(i, batch)
      PROVE  pub'[p] = pub[p]
  BY <1>2 DEF ImportStep, StartImport, NotSent, Migrate, Answered, CallFails, Cleanup
<1>3. ASSUME (\E n \in Names : Cloned(n) \/ CloneFails(n)) \/ ByHand \/ UNCHANGED vars
      PROVE  pub'[p] = pub[p]
  BY <1>3 DEF Cloned, CloneFails, ByHand, vars
<1>4. CASE Killed
  BY <1>1, <1>4 DEF Killed, Kill
<1> QED
  BY <1>1, <1>2, <1>3, <1>4 DEF Next

LEMMA RepositoryStep ==
  ASSUME TypeOK, RemoteInv, MigrationsInv, RepositoryInv, [Next]_vars
  PROVE  RepositoryInv'
<1> SUFFICES ASSUME NEW p \in Publishers PROVE RepositoriesOf(p)'
  BY DEF RepositoryInv
<1>1. CASE PublishStep(p) \/ \E n \in Names : StartPublish(p, n)
  BY <1>1, OwnRepositories
<1>2. CASE pub'[p] = pub[p]
  BY <1>2, OthersRepositories
<1>3. CASE PubGoto(p, "dead") /\ ActivePub(p) /\ Killed
  BY <1>3, OnlyMovesOn DEF RepositoryInv, ActivePub, Killed, PublishEnds, Early, Pushing
<1> QED
  BY <1>1, <1>2, <1>3, MovesByItself

(* Only an import's own migration makes a repository that is its.          *)
LEMMA OthersMake ==
  ASSUME TypeOK, MigrationsInv, [Next]_vars, NEW i \in Importers, ~Migrate(i),
         NEW k \in 1 .. MaxBatch, NEW n \in Names, MadeBy(n, <<i, k>>)'
  PROVE  MadeBy(n, <<i, k>>)
<1> USE DEF MadeBy
<1>1. ASSUME NEW m \in Names, NEW r, repos[m] = None, repos' = [repos EXCEPT ![m] = r],
             r.by # <<i, k>>
      PROVE  MadeBy(n, <<i, k>>)
  BY <1>1, Registered
<1>2. <<i, k>> \in Entries
  BY DEF Entries
<1>3. ASSUME NEW m \in Names, NEW maker, Delete(m, maker)
      PROVE  MadeBy(n, <<i, k>>)
  BY <1>3, DeleteEffect
<1>4. ASSUME NEW p \in Publishers, PublishStep(p) \/ \E m \in Names : StartPublish(p, m)
      PROVE  MadeBy(n, <<i, k>>)
  <2>1. CASE UNCHANGED repos
    BY <2>1
  <2>2. CASE Create(p) /\ repos' # repos
    <3>1. pub[p].name \in Names
      BY <2>2 DEF Create, TypeOK
    <3>2. NewRepository(p).by # <<i, k>>
      BY <1>2, MakersApart DEF NewRepository
    <3> QED
      BY <1>1, <2>2, <3>1, <3>2 DEF Create
  <2>3. CASE PushBranches(p) \/ PushTags(p)
    BY <2>3, PushEffect DEF PushBranches, PushTags
  <2>4. CASE DeleteRepo(p)
    BY <1>3, <2>4 DEF DeleteRepo, TypeOK
  <2> QED
    BY <1>4, <2>1, <2>2, <2>3, <2>4
       DEF PublishStep, StartPublish, Inspect, Authorize, Register, Check, AddRemote, UnsetRemote,
           PubFails
<1>5. ASSUME NEW j \in Importers, j # i, Migrate(j)
      PROVE  MadeBy(n, <<i, k>>)
  <2>1. ActiveImp(j)
    BY <1>5 DEF Migrate, ActiveImp
  <2> DEFINE new == [NewRepository(ThisEntry(j)) EXCEPT !.migrating = TRUE]
  <2>2. ThisEntry(j) # <<i, k>>
    BY <1>5 DEF ThisEntry
  <2>3. new.by # <<i, k>>
    BY <2>2 DEF NewRepository
  <2>4. UNCHANGED repos \/ (repos[NameOf(j)] = None /\ repos' = [repos EXCEPT ![NameOf(j)] = new])
    BY <1>5 DEF Migrate
  <2> HIDE DEF new
  <2> QED
    BY <1>1, <2>1, <2>3, <2>4, ResultTypes
<1>6. ASSUME NEW j \in Importers, Cleanup(j)
      PROVE  MadeBy(n, <<i, k>>)
  <2>1. NameOf(j) \in Names
    BY <1>6, ResultTypes DEF Cleanup, ActiveImp
  <2> QED
    BY <1>3, <1>6, <2>1 DEF Cleanup
<1>7. ASSUME NEW m \in Names, Cloned(m) \/ CloneFails(m)
      PROVE  MadeBy(n, <<i, k>>)
  <2>1. \A other \in Names \ {m} : repos'[other] = repos[other]
    BY <1>7 DEF Cloned, CloneFails, TypeOK
  <2>2. repos[m] \in Repositories
    BY <1>7 DEF Cloned, CloneFails, TypeOK
  <2>3. /\ [repos[m] EXCEPT !.migrating = FALSE].by = repos[m].by
        /\ [repos[m] EXCEPT !.migrating = FALSE, !.has = @ \union {"code"}].by = repos[m].by
    BY <2>2 DEF Repositories
  <2>4. repos'[m] = None \/ (repos[m] # None /\ repos'[m].by = repos[m].by)
    BY <1>7, <2>3 DEF Cloned, CloneFails, TypeOK
  <2> QED
    BY <2>1, <2>4
<1>8. ASSUME ByHand
      PROVE  MadeBy(n, <<i, k>>)
  <2>1. NewRepository(User).by # <<i, k>>
    BY <1>2, MakersApart DEF NewRepository
  <2> QED
    BY <1>1, <1>3, <1>8, <2>1 DEF ByHand
<1>9. ASSUME NEW j \in Importers,
             \/ \E batch \in Batches : StartImport(j, batch)
             \/ NotSent(j) \/ Answered(j) \/ CallFails(j)
      PROVE  UNCHANGED repos
  BY <1>9 DEF StartImport, NotSent, Answered, CallFails
<1>10. ASSUME Killed \/ UNCHANGED vars
       PROVE  UNCHANGED repos
  BY <1>10 DEF Killed, vars
<1> QED
  BY <1>4, <1>5, <1>6, <1>7, <1>8, <1>9, <1>10 DEF Next, ImportStep

(* The runs tell of more and more. *)
LEMMA ExcusedGrows ==
  ASSUME [Next]_vars
  PROVE  excused \subseteq excused'
BY DEF Next, vars, PublishStep, ImportStep, StartPublish, Inspect, Authorize, Register, Check,
       Create, AddRemote, PushBranches, PushTags, Push, UnsetRemote, DeleteRepo, PubFails,
       StartImport, NotSent, Migrate, Answered, CallFails, Cleanup, Cloned, CloneFails, ByHand,
       Killed

LEMMA OwnEntries ==
  ASSUME TypeOK, MigrationsInv, ImportInv, [Next]_vars, NEW i \in Importers,
         ImportStep(i) \/ \E batch \in Batches : StartImport(i, batch)
  PROVE  EntriesOf(i)'
<1>1. EntriesOf(i) /\ excused \subseteq excused'
  BY ExcusedGrows DEF ImportInv
<1>2. SUFFICES ASSUME NEW k \in 1 .. MaxBatch, NEW n \in Names, MadeBy(n, <<i, k>>)'
               PROVE  /\ imp'[i].phase # "idle"
                      /\ k <= Len(imp'[i].batch) /\ n = imp'[i].batch[k]
                      /\ k <= Len(imp'[i].results) + 1
                      /\ k = Len(imp'[i].results) + 1 => imp'[i].phase \in {"answer", "cleanup", "dead"}
                      /\ k < Len(imp'[i].results) + 1 /\ imp'[i].results[k] = "failed" =>
                           <<i, k>> \in excused'
  BY DEF EntriesOf, MadeBy, Current
<1>3. ASSUME ~Migrate(i) \/ UNCHANGED repos
      PROVE  /\ MadeBy(n, <<i, k>>)
             /\ imp[i].phase # "idle"
             /\ k <= Len(imp[i].batch) /\ n = imp[i].batch[k]
             /\ k <= Current(i)
             /\ k = Current(i) => imp[i].phase \in {"answer", "cleanup", "dead"}
             /\ k < Current(i) /\ imp[i].results[k] = "failed" => <<i, k>> \in excused
  <2>1. MadeBy(n, <<i, k>>)
    BY <1>2, <1>3, OthersMake DEF MadeBy
  <2> QED
    BY <1>1, <2>1 DEF EntriesOf
<1>4. Len(imp[i].results) \in Nat /\ imp[i].batch \in Seq(Names)
  BY DEF TypeOK
<1>5. ASSUME NEW phase \in {"answer", "cleanup", "dead"}, ImpGoto(i, phase)
      PROVE  /\ imp'[i].phase = phase
             /\ imp'[i].batch = imp[i].batch /\ imp'[i].results = imp[i].results
  BY <1>5 DEF ImpGoto, TypeOK
<1>6. CASE Migrate(i)
  <2>1. ActiveImp(i) /\ imp[i].phase = "call"
    BY <1>6 DEF Migrate, ActiveImp
  <2>2. CASE ImpGoto(i, "cleanup") /\ UNCHANGED repos
    <3>1. MadeBy(n, <<i, k>>)
      BY <1>2, <2>2 DEF MadeBy
    <3> QED
      BY <1>1, <1>5, <2>2, <3>1 DEF EntriesOf, Current
  <2>3. CASE /\ repos[NameOf(i)] = None /\ ImpGoto(i, "answer")
             /\ repos' = [repos EXCEPT ![NameOf(i)] = [NewRepository(ThisEntry(i)) EXCEPT !.migrating = TRUE]]
    <3> DEFINE new == [NewRepository(ThisEntry(i)) EXCEPT !.migrating = TRUE]
    <3>1. new.by = <<i, Current(i)>>
      BY DEF NewRepository, ThisEntry
    <3>2. repos' = [repos EXCEPT ![NameOf(i)] = new] /\ NameOf(i) \in Names
      BY <2>1, <2>3, ResultTypes
    <3> HIDE DEF new
    <3>3. \/ n = NameOf(i) /\ k = Current(i)
          \/ MadeBy(n, <<i, k>>)
      <4>1. repos'[NameOf(i)] = new /\ \A m \in Names \ {NameOf(i)} : repos'[m] = repos[m]
        BY <2>3, <3>2, Registered
      <4> QED
        BY <1>2, <3>1, <4>1 DEF MadeBy
    <3>4. ~MadeBy(n, <<i, k>>) => n = NameOf(i) /\ k = Current(i) /\ k \in 1 .. Len(imp[i].batch)
      BY <2>1, <3>3, ResultTypes
    <3> QED
      BY SMTT(30), <1>1, <1>4, <1>5, <2>3, <3>4 DEF EntriesOf, Current, NameOf
  <2> QED
    BY <1>6, <2>2, <2>3 DEF Migrate
<1>7. CASE CallFails(i)
  BY <1>3, <1>5, <1>1, <1>7 DEF CallFails, NotAnswered, Migrate, Current
<1>8. CASE NotSent(i) \/ Answered(i) \/ Cleanup(i)
  <2>1. ActiveImp(i) /\ (~Migrate(i) \/ UNCHANGED repos)
    BY <1>8 DEF NotSent, Answered, Cleanup, ActiveImp, Migrate
  <2>2. PICK o \in {"imported", "failed"} : WithOutcome(i, o)
    BY <1>8 DEF NotSent, Answered, Cleanup
  <2>3. k = Current(i) /\ imp'[i].results[Current(i)] = "failed" => <<i, k>> \in excused'
    <3>1. CASE Answered(i) /\ WithOutcome(i, "imported")
      <4>1. imp'[i].results[Current(i)] = "imported"
        BY <2>1, <3>1, OutcomeEffect
      <4> QED
        BY <4>1
    <3>2. CASE Answered(i) /\ excused' = excused \union {ThisEntry(i)}
      BY <3>2 DEF ThisEntry
    <3>3. CASE Cleanup(i)
      <4>1. CASE Delete(NameOf(i), ThisEntry(i))
        <5>1. NameOf(i) \in Names
          BY <2>1, ResultTypes
        <5>2. repos'[NameOf(i)] = None
          BY <4>1, <5>1, DeleteEffect
        <5>3. n = imp[i].batch[k] /\ repos'[n] # None
          BY <1>2, <1>3, <2>1 DEF MadeBy
        <5> QED
          BY <5>2, <5>3 DEF NameOf
      <4>2. CASE excused' = excused \union {ThisEntry(i)}
        BY <4>2 DEF ThisEntry
      <4> QED
        BY <3>3, <4>1, <4>2 DEF Cleanup
    <3>4. CASE NotSent(i)
      BY <1>3, <2>1, <3>4 DEF NotSent
    <3> QED
      BY <1>8, <3>1, <3>2, <3>3, <3>4 DEF Answered
  <2>4. /\ imp'[i].batch = imp[i].batch
        /\ Len(imp'[i].results) = Current(i)
        /\ \A j \in 1 .. Len(imp[i].results) : imp'[i].results[j] = imp[i].results[j]
        /\ imp'[i].phase # "idle"
    <3>1. /\ imp'[i].batch = imp[i].batch /\ Len(imp'[i].results) = Len(imp[i].results) + 1
          /\ \A j \in 1 .. Len(imp[i].results) : imp'[i].results[j] = imp[i].results[j]
          /\ imp'[i].phase \in {"ended", "call"}
      BY <2>1, <2>2, OutcomeEffect
    <3> QED
      BY <3>1 DEF Current
  <2>5. k < Current(i) => k \in 1 .. Len(imp[i].results)
    BY <1>4 DEF Current
  <2> QED
    BY SMTT(30), <1>1, <1>3, <1>4, <2>1, <2>3, <2>4, <2>5 DEF Current
<1>9. CASE \E batch \in Batches : StartImport(i, batch)
  <2>1. imp[i].phase = "idle" /\ ~Migrate(i)
    BY <1>9 DEF StartImport, Migrate
  <2> QED
    BY <1>3, <2>1
<1> QED
  BY <1>6, <1>7, <1>8, <1>9 DEF ImportStep

LEMMA EntriesStep ==
  ASSUME TypeOK, MigrationsInv, ImportInv, [Next]_vars
  PROVE  ImportInv'
<1> SUFFICES ASSUME NEW i \in Importers PROVE EntriesOf(i)'
  BY DEF ImportInv
<1>1. CASE ImportStep(i) \/ \E batch \in Batches : StartImport(i, batch)
  BY <1>1, OwnEntries
<1>2. ASSUME ~Migrate(i), imp'[i].batch = imp[i].batch, imp'[i].results = imp[i].results,
             imp'[i].phase = imp[i].phase \/ imp'[i].phase = "dead"
      PROVE  EntriesOf(i)'
  <2>1. EntriesOf(i) /\ excused \subseteq excused'
    BY ExcusedGrows DEF ImportInv
  <2>2. \A k \in 1 .. MaxBatch : \A n \in Names : MadeBy(n, <<i, k>>)' => MadeBy(n, <<i, k>>)
    BY <1>2, OthersMake
  <2> QED
    BY <1>2, <2>1, <2>2 DEF EntriesOf, MadeBy, Current
<1>3. ASSUME NEW j \in Importers, j # i,
             ImportStep(j) \/ \E batch \in Batches : StartImport(j, batch)
      PROVE  imp'[i] = imp[i]
  BY <1>3 DEF ImportStep, StartImport, NotSent, Migrate, Answered, CallFails, NotAnswered,
              Cleanup, WithOutcome, ImpGoto, TypeOK
<1>4. ASSUME NEW p \in Publishers, PublishStep(p) \/ \E n \in Names : StartPublish(p, n)
      PROVE  imp' = imp
  BY <1>4 DEF PublishStep, StartPublish, Inspect, Authorize, Register, Check, Create, AddRemote,
              PushBranches, PushTags, Push, UnsetRemote, DeleteRepo, PubFails
<1>5. ASSUME (\E n \in Names : Cloned(n) \/ CloneFails(n)) \/ ByHand \/ UNCHANGED vars
      PROVE  imp' = imp
  BY <1>5 DEF Cloned, CloneFails, ByHand, vars
<1>6. ASSUME Killed
      PROVE  /\ imp'[i].batch = imp[i].batch /\ imp'[i].results = imp[i].results
             /\ imp'[i].phase = imp[i].phase \/ imp'[i].phase = "dead"
  <2>1. imp' = imp \/ \E j \in Importers : imp' = [imp EXCEPT ![j].phase = "dead"]
    BY <1>6 DEF Killed, Kill, ImpGoto
  <2>2. imp[i] \in [phase : {"idle", "call", "answer", "cleanup", "ended", "dead"},
                    batch : Seq(Names), results : Seq({"imported", "failed"})]
    BY DEF TypeOK
  <2>3. imp'[i] = imp[i] \/ imp'[i] = [imp[i] EXCEPT !.phase = "dead"]
    BY <2>1 DEF TypeOK
  <2> QED
    BY <2>2, <2>3
<1> QED
  BY <1>1, <1>2, <1>3, <1>4, <1>5, <1>6 DEF Next, ImportStep

-----------------------------------------------------------------------------
LEMMA InitIInv == Init => IInv
<1> SUFFICES ASSUME Init PROVE IInv
  OBVIOUS
<1> USE DEF Init, MadeBy
<1>1. NewRepository(User) \in Repositories /\ NewRepository(User).by = User
      /\ NewRepository(User).migrating = FALSE
  BY DEF NewRepository, Repositories, Makers
<1>2. \A n \in Names : repos[n] # None => repos[n] = NewRepository(User)
  OBVIOUS
<1>3. TypeOK
  <2>1. \A i \in Importers :
          /\ imp[i].results = <<>> /\ imp[i].batch = <<>> /\ imp[i].phase = "idle"
    BY DEF NotImported
  <2>2. imp \in [Importers -> [phase : {"idle", "call", "answer", "cleanup", "ended", "dead"},
                            batch : Seq(Names), results : Seq({"imported", "failed"})]]
    BY DEF NotImported
  <2> QED
    BY <1>1, <2>1, <2>2, BoundsAssumption DEF TypeOK, NotPublished, Keys, ActiveImp
<1>4. MigrationsInv
  BY <1>1, <1>2 DEF MigrationsInv
<1>5. RemoteInv
  BY DEF RemoteInv, NotPublished, Early, Pushing
<1>6. RepositoryInv
  BY <1>1, <1>2, MakersApart DEF RepositoryInv, RepositoriesOf, NotPublished, Early, Pushing
<1>7. ImportInv
  BY <1>1, <1>2, MakersApart DEF ImportInv, EntriesOf, Entries
<1> QED
  BY <1>3, <1>4, <1>5, <1>6, <1>7 DEF IInv

LEMMA StepIInv == IInv /\ [Next]_vars => IInv'
BY TypeStep, MigrationsStep, RemoteStep, RepositoryStep, EntriesStep DEF IInv

LEMMA IInvCorrect == Spec => []IInv
BY InitIInv, StepIInv, PTL DEF Spec

(* Every variable keeps its type, for any number of runs, names and steps. *)
THEOREM TypeCorrect == Spec => []TypeOK
BY IInvCorrect, PTL DEF IInv

(* publish.go's rollback is complete: a publish that failed, and did not   *)
(* say that it left something, has left neither a repository nor a remote. *)
THEOREM FailedPublishLeavesNothing == Spec => []FailedLeavesNothing
<1>1. IInv => FailedLeavesNothing
  BY DEF IInv, RemoteInv, RepositoryInv, RepositoriesOf, MadeBy, FailedLeavesNothing
<1> QED
  BY <1>1, IInvCorrect, PTL

(* importer.go's cleanup is complete: of an entry reported as failed the   *)
(* forge keeps nothing, unless the import said that it does.               *)
THEOREM FailedEntryLeavesNothing == Spec => []NothingHalfRegistered
<1>1. IInv => NothingHalfRegistered
  <2>1. SUFFICES ASSUME IInv, NEW i \in Importers, NEW k \in DOMAIN imp[i].results,
                        imp[i].results[k] = "failed", <<i, k>> \notin excused,
                        NEW n \in Names, repos[n] # None, repos[n].by = <<i, k>>
                 PROVE  FALSE
    BY DEF NothingHalfRegistered
  <2>2. /\ k \in 1 .. Len(imp[i].results) /\ k < Current(i)
        /\ Len(imp[i].results) <= MaxBatch /\ Len(imp[i].results) \in Nat
    <3>1. /\ imp[i].results \in Seq({"imported", "failed"}) /\ imp[i].batch \in Seq(Names)
          /\ Len(imp[i].results) <= Len(imp[i].batch) /\ Len(imp[i].batch) <= MaxBatch
      BY <2>1 DEF IInv, TypeOK
    <3> QED
      BY <2>1, <3>1, BoundsAssumption DEF Current
  <2>3. k \in 1 .. MaxBatch
    BY <2>2, BoundsAssumption
  <2> QED
    BY <2>1, <2>2, <2>3 DEF IInv, ImportInv, EntriesOf, MadeBy
<1> QED
  BY <1>1, IInvCorrect, PTL

(* publish.go's rollback removes the remote and the repository that this   *)
(* publish made, whoever else works in the folder or on the forge.         *)
THEOREM RollbackIsItsOwn == Spec => RollbackSparesOthers
<1>1. ASSUME IInv, [Next]_vars, NEW p \in Publishers, ActivePub(p), pub'[p] # pub[p]
      PROVE  /\ remote # None /\ remote' = None => remote.by = p
             /\ \A n \in Names : repos[n] # None /\ repos'[n] = None =>
                  repos[n].by = p \/ n \in displaced
  <2> USE DEF PublishSteps
  <2>1. TypeOK /\ pub[p].phase # "idle"
    BY <1>1 DEF IInv, ActivePub
  <2>2. CASE UNCHANGED <<repos, remote>>
    BY <2>2
  <2>3. CASE Create(p)
    <3>1. pub[p].name \in Names /\ remote' = remote
      BY <2>1, <2>3 DEF TypeOK, Create
    <3>2. \A n \in Names : repos[n] # None => repos'[n] = repos[n]
      BY <2>1, <2>3, <3>1, Registered DEF Create
    <3> QED
      BY <3>1, <3>2
  <2>4. CASE AddRemote(p)
    BY <2>4 DEF AddRemote
  <2>5. CASE PushBranches(p) \/ PushTags(p)
    <3>1. remote' = remote
      BY <2>5 DEF PushBranches, PushTags, Push
    <3> QED
      BY <2>1, <2>5, <3>1, PushEffect DEF PushBranches, PushTags
  <2>6. CASE UnsetRemote(p)
    BY <1>1, <2>6 DEF UnsetRemote, IInv, RemoteInv, Pushing
  <2>7. CASE DeleteRepo(p)
    <3>1. pub[p].phase = "delete" /\ pub[p].name \in Names /\ remote' = remote
      BY <2>1, <2>7 DEF DeleteRepo, TypeOK
    <3>2. MadeBy(pub[p].name, p) \/ pub[p].name \in displaced
      BY <1>1, <3>1 DEF IInv, RepositoryInv, RepositoriesOf
    <3>3. \A n \in Names \ {pub[p].name} : repos'[n] = repos[n]
      BY <2>1, <2>7, <3>1, DeleteEffect DEF DeleteRepo
    <3> QED
      BY <3>1, <3>2, <3>3 DEF MadeBy
  <2>8. CASE Inspect(p) \/ Authorize(p) \/ Register(p) \/ Check(p) \/ PubFails(p) \/ Killed
    BY <2>2, <2>8 DEF Inspect, Authorize, Register, Check, PubFails, Killed
  <2>9. ~ \E n \in Names : StartPublish(p, n)
    BY <2>1 DEF StartPublish
  <2> QED
    BY <1>1, <2>1, <2>3, <2>4, <2>5, <2>6, <2>7, <2>8, <2>9, MovesByItself DEF PublishStep
<1>2. IInv /\ [Next]_vars =>
        [\A p \in Publishers : ActivePub(p) /\ pub'[p] # pub[p] =>
           /\ remote # None /\ remote' = None => remote.by = p
           /\ \A n \in Names : repos[n] # None /\ repos'[n] = None =>
                repos[n].by = p \/ n \in displaced]_vars
  BY <1>1
<1> QED
  BY <1>2, IInvCorrect, PTL DEF Spec, RollbackSparesOthers

(* A publish that reports success has its branches and tags in its own     *)
(* repository, at the name the folder's remote has.                        *)
THEOREM PublishedIsComplete == Spec => PublishedIsThere
<1>1. ASSUME IInv, [Next]_vars, NEW p \in Publishers,
             pub'[p].phase = "published", pub[p].phase # "published"
      PROVE  /\ remote' = [by |-> p, name |-> pub[p].name, host |-> "instance"]
             /\ repos'[pub[p].name] # None
             /\ \/ /\ repos'[pub[p].name].by = p
                   /\ {"branches", "tags"} \subseteq repos'[pub[p].name].has
                \/ pub[p].name \in displaced
  <2> USE DEF PublishSteps, PublishEnds
  <2>1. TypeOK
    BY <1>1 DEF IInv
  <2>2. ASSUME NEW ph \in PublishSteps \union PublishEnds, pub[p].phase # "idle", PubGoto(p, ph)
        PROVE  ph = "published"
    BY <1>1, <2>1, <2>2, PubGotoEffect
  <2>3. pub[p].phase = "tags" /\ PubGoto(p, "published") /\ Push(p, "tags", "published")
    <3>1. ASSUME \/ Inspect(p) \/ Authorize(p) \/ Register(p) \/ Check(p) \/ PubFails(p)
                 \/ UnsetRemote(p) \/ DeleteRepo(p) \/ Create(p)
          PROVE  FALSE
      <4>1. \E ph \in PublishSteps \union PublishEnds :
              ph # "published" /\ pub[p].phase # "idle" /\ PubGoto(p, ph)
        BY <3>1 DEF Inspect, Authorize, Register, Check, PubFails, UnsetRemote, DeleteRepo,
                    Create, Refused, AfterPubFailure, AfterRemote, ActivePub
      <4> QED
        BY <2>2, <4>1
    <3>2. ASSUME AddRemote(p)
          PROVE  FALSE
      <4>1. pub[p].phase = "remote" /\ AfterPubFailure(p) \in {"unset", "delete"}
        BY <3>2 DEF AddRemote, AfterPubFailure, AfterRemote
      <4>2. pub' = [pub EXCEPT ![p].phase = "branches", ![p].added = TRUE]
        BY <2>2, <3>2, <4>1 DEF AddRemote
      <4> QED
        BY <1>1, <2>1, <4>2 DEF TypeOK
    <3>3. ASSUME NEW n \in Names, StartPublish(p, n)
          PROVE  FALSE
      BY <1>1, <2>1, <3>3 DEF StartPublish, TypeOK
    <3>4. ASSUME NEW refs \in {"branches", "tags"}, NEW next \in {"tags", "published"},
                 Push(p, refs, next)
          PROVE  PubGoto(p, next) /\ next = "published"
      <4>1. pub[p].phase = refs /\ AfterPubFailure(p) \in {"unset", "delete"}
        BY <3>4 DEF Push, AfterPubFailure, AfterRemote
      <4>2. PubGoto(p, next)
        BY <2>2, <3>4, <4>1 DEF Push
      <4> QED
        BY <2>2, <4>1, <4>2
    <3>5. ~(Killed /\ ActivePub(p) /\ PubGoto(p, "dead"))
      BY <2>2 DEF ActivePub
    <3>6. PushBranches(p) \/ PushTags(p)
      BY <1>1, <2>1, <3>1, <3>2, <3>3, <3>5, MovesByItself DEF PublishStep
    <3> QED
      BY <3>4, <3>6 DEF PushBranches, PushTags, AfterBranches, Push
  <2>4. Reaches(remote) /\ repos' = [repos EXCEPT ![remote.name].has = @ \union {"tags"}]
    <3>1. AfterPubFailure(p) \in {"unset", "delete"}
      BY <2>3 DEF AfterPubFailure, AfterRemote
    <3>2. ~PubGoto(p, AfterPubFailure(p))
      BY <2>2, <2>3, <3>1
    <3> QED
      BY <2>3, <3>2 DEF Push
  <2>5. remote.by = p /\ remote.name = pub[p].name /\ remote \in Remotes /\ remote' = remote
    BY <1>1, <2>1, <2>3 DEF IInv, RemoteInv, Pushing, TypeOK, Push
  <2>6. remote' = [by |-> p, name |-> pub[p].name, host |-> "instance"]
    BY <2>4, <2>5 DEF Reaches, Remotes
  <2>7. pub[p].name \in Names /\ repos[pub[p].name] \in Repositories
    BY <2>1, <2>4, <2>5 DEF Reaches, TypeOK, Remotes
  <2> DEFINE old == repos[pub[p].name]
             new == [old EXCEPT !.has = @ \union {"tags"}]
  <2>8. new.by = old.by /\ new.has = old.has \union {"tags"} /\ new \in Repositories
    BY <2>7 DEF Repositories, Contents
  <2>9. repos'[pub[p].name] = new
    BY <2>1, <2>4, <2>5, <2>7 DEF TypeOK
  <2> HIDE DEF new
  <2>10. \/ old.by = p /\ "branches" \in old.has
         \/ pub[p].name \in displaced
    BY <1>1, <2>3 DEF IInv, RepositoryInv, RepositoriesOf, Pushing, MadeBy
  <2> QED
    BY <2>6, <2>8, <2>9, <2>10, NoneAssumption
<1>2. IInv /\ [Next]_vars =>
        [\A p \in Publishers : pub'[p].phase = "published" /\ pub[p].phase # "published" =>
           LET n == pub[p].name IN
           /\ remote' = [by |-> p, name |-> n, host |-> "instance"]
           /\ repos'[n] # None
           /\ \/ repos'[n].by = p /\ {"branches", "tags"} \subseteq repos'[n].has
              \/ n \in displaced]_vars
  BY <1>1
<1> QED
  BY <1>2, IInvCorrect, PTL DEF Spec, PublishedIsThere
=============================================================================
