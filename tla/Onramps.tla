------------------------------- MODULE Onramps -------------------------------
(***************************************************************************)
(* The two ways a project gets onto its instance: `publish`, which creates *)
(* a repository, sets the folder's remote and pushes to it (publish/), and *)
(* `import`, which has the forge migrate repositories from elsewhere       *)
(* (importer/).  Both undo what they did when a later step fails, by       *)
(* repository name and on a context of their own; both meet each other,    *)
(* other runs of themselves and the forge's users there.                   *)
(*                                                                         *)
(* The forge is external: creating refuses a name that is taken, deleting  *)
(* removes whatever bears it, and a migration goes on when its caller is   *)
(* gone.  A request reaches it before its caller gives up, or never.       *)
(*                                                                         *)
(* One run for each member of Publishers and Importers, from one folder    *)
(* and with one account; MaxBatch repositories to an import; MaxUserSteps  *)
(* things done by hand.                                                    *)
(***************************************************************************)
EXTENDS Integers, Sequences

CONSTANTS
  Names,        \* repositories, with their owner
  Publishers, Importers,
  User,         \* anybody else on the forge
  MaxBatch, MaxUserSteps,
  None

ASSUME RunsAssumption ==
  /\ Publishers \intersect (Importers \X (1 .. MaxBatch)) = {}
  /\ User \notin Publishers \union (Importers \X (1 .. MaxBatch))
ASSUME BoundsAssumption == MaxBatch \in Nat \ {0} /\ MaxUserSteps \in Nat

VARIABLES
  repos,       \* the instance
  keys,        \* public keys on the account
  remote,      \* the folder's remote
  pub, imp,    \* the runs
  byHand,      \* things done by hand so far
  \* history
  displaced,   \* names whose repository went while the run that made it ran
  excused      \* runs that told of, or could not tell, something left behind

vars == <<repos, keys, remote, pub, imp, byHand, displaced, excused>>

Entries == Importers \X (1 .. MaxBatch)
Makers == Publishers \union Entries \union {User}

(* What a repository holds: the folder's branches and tags, or the         *)
(* source's code, which an import's is migrating before it has it.         *)
Contents == {"branches", "tags", "code"}
Repositories == [by : Makers, has : SUBSET Contents, migrating : BOOLEAN]
NewRepository(maker) == [by |-> maker, has |-> {}, migrating |-> FALSE]

(* Where the instance answers, and an address that only its API has.       *)
Hosts == {"instance", "tunnel"}

Remotes == [by : Publishers, name : Names, host : Hosts]

ASSUME NoneAssumption == None \notin Repositories \union Remotes \union Names

(* The operator's own public key, and another. *)
Keys == {"own", "other"}

PublishSteps == {"inspect", "authorize", "register", "check", "create", "remote",
                 "branches", "tags", "unset", "delete"}
PublishEnds == {"published", "failed", "dead"}

NotPublished == [phase |-> "idle", name |-> None, added |-> FALSE]
NotImported == [phase |-> "idle", batch |-> <<>>, results |-> <<>>]

ActivePub(p) == pub[p].phase \in PublishSteps
ActiveImp(i) == imp[i].phase \in {"call", "answer", "cleanup"}

Active(maker) ==
  \/ maker \in Publishers /\ ActivePub(maker)
  \/ maker \in Entries /\ ActiveImp(maker[1])

Init ==
  /\ repos \in [Names -> {None, NewRepository(User)}]
  /\ keys \in SUBSET Keys
  /\ remote = None
  /\ pub = [p \in Publishers |-> NotPublished]
  /\ imp = [i \in Importers |-> NotImported]
  /\ byHand = 0
  /\ displaced = {} /\ excused = {}

(* DELETE of a name: whatever bears it goes; a 404 is no failure.          *)
Delete(n, maker) ==
  /\ repos' = [repos EXCEPT ![n] = None]
  /\ displaced' = IF repos[n] # None /\ repos[n].by # maker /\ Active(repos[n].by)
                    THEN displaced \union {n} ELSE displaced

-----------------------------------------------------------------------------
(* publish.  A run that has ended is forgotten but for its name.           *)
PubGoto(p, phase) ==
  pub' = [pub EXCEPT ![p] =
            IF phase \in PublishEnds THEN [NotPublished EXCEPT !.phase = phase, !.name = pub[p].name]
            ELSE [pub[p] EXCEPT !.phase = phase]]

(* The phase a failure leads to: once the repository is made, rollback,    *)
(* which removes the remote if this run set it.                            *)
AfterRemoteMutant(p) == "unset"
AfterRemoteKeptMutant(p) == IF pub[p].added THEN "unset" ELSE "failed"
AfterRemote(p) == IF pub[p].added THEN "unset" ELSE "delete"

AfterPubFailure(p) ==
  IF pub[p].phase \in {"remote", "branches", "tags"} THEN AfterRemote(p) ELSE "failed"

(* resolve.  An option is chosen at the step that first depends on it: the *)
(* key at Authorize, the host at AddRemote.                                *)
StartPublish(p, n) ==
  /\ pub[p].phase = "idle"
  /\ pub' = [pub EXCEPT ![p].phase = "inspect", ![p].name = n]
  /\ UNCHANGED <<repos, keys, remote, imp, byHand, displaced, excused>>

(* inspectRepo: the folder has a history and has no remote of the name.    *)
Inspect(p) ==
  /\ pub[p].phase = "inspect"
  /\ PubGoto(p, IF remote = None THEN "authorize" ELSE "failed")
  /\ UNCHANGED <<repos, keys, remote, imp, byHand, displaced, excused>>

(* ensurePushKey: the key that was named, or the operator's own on an      *)
(* account that has none.                                                  *)
Authorize(p) ==
  /\ pub[p].phase = "authorize"
  /\ \E keyNamed \in BOOLEAN :
       PubGoto(p, IF "own" \in keys \/ (~keyNamed /\ keys # {}) THEN "check" ELSE "register")
  /\ UNCHANGED <<repos, keys, remote, imp, byHand, displaced, excused>>

(* The forge refuses a key it has. *)
Register(p) ==
  /\ pub[p].phase = "register"
  /\ \/ "own" \in keys /\ PubGoto(p, "failed")
     \/ "own" \notin keys /\ PubGoto(p, "check")
  /\ keys' = keys \union {"own"}
  /\ UNCHANGED <<repos, remote, imp, byHand, displaced, excused>>

(* repoExists. *)
Check(p) ==
  /\ pub[p].phase = "check"
  /\ PubGoto(p, IF repos[pub[p].name] = None THEN "create" ELSE "failed")
  /\ UNCHANGED <<repos, keys, remote, imp, byHand, displaced, excused>>

(* createRepo: a name taken since is refused by the forge, and nothing is  *)
(* undone.  The answer may be lost.                                        *)
RefusedMutant(p) == "delete"
Refused(p) == "failed"

Create(p) ==
  LET n == pub[p].name IN
  /\ pub[p].phase = "create"
  /\ \/ /\ repos[n] # None
        /\ PubGoto(p, Refused(p))
        /\ UNCHANGED <<repos, excused>>
     \/ /\ repos[n] = None
        /\ repos' = [repos EXCEPT ![n] = NewRepository(p)]
        /\ \/ PubGoto(p, "remote") /\ UNCHANGED excused
           \/ PubGoto(p, "failed") /\ excused' = excused \union {p}
  /\ UNCHANGED <<keys, remote, imp, byHand, displaced>>

(* `git remote add` refuses a name that is taken.  resolveHost: a bundle   *)
(* with a domain is reached there, one without at the address given or     *)
(* else at the API's host, which may be a tunnel's.                        *)
AddRemote(p) ==
  /\ pub[p].phase = "remote"
  /\ \/ /\ remote # None
        /\ PubGoto(p, AfterPubFailure(p))
        /\ UNCHANGED remote
     \/ /\ remote = None
        /\ \E host \in Hosts : remote' = [by |-> p, name |-> pub[p].name, host |-> host]
        /\ pub' = [pub EXCEPT ![p].phase = "branches", ![p].added = TRUE]
  /\ UNCHANGED <<repos, keys, imp, byHand, displaced, excused>>

(* pushHistory: `git push` to whatever the remote names, under the pinned  *)
(* host key.  It needs a repository, a key and an instance there.          *)
Reaches(r) ==
  r # None /\ r.host = "instance" /\ repos[r.name] # None /\ "own" \in keys

Push(p, refs, next) ==
  /\ pub[p].phase = refs
  /\ \/ /\ Reaches(remote)
        /\ repos' = [repos EXCEPT ![remote.name].has = @ \union {refs}]
        /\ PubGoto(p, next) \/ PubGoto(p, AfterPubFailure(p))
     \/ /\ ~Reaches(remote)
        /\ PubGoto(p, AfterPubFailure(p))
        /\ UNCHANGED repos
  /\ UNCHANGED <<keys, remote, imp, byHand, displaced, excused>>

AfterBranchesMutant == "published"
AfterBranches == "tags"

PushBranches(p) == Push(p, "branches", AfterBranches)
PushTags(p) == Push(p, "tags", "published")

(* rollback.  A removal that fails is told of, and the rest is tried. *)
UnsetRemote(p) ==
  /\ pub[p].phase = "unset"
  /\ PubGoto(p, "delete")
  /\ \/ remote' = None /\ UNCHANGED excused
     \/ excused' = excused \union {p} /\ UNCHANGED remote
  /\ UNCHANGED <<repos, keys, imp, byHand, displaced>>

DeleteRepo(p) ==
  /\ pub[p].phase = "delete"
  /\ PubGoto(p, "failed")
  /\ \/ Delete(pub[p].name, p) /\ UNCHANGED excused
     \/ excused' = excused \union {p} /\ UNCHANGED <<repos, displaced>>
  /\ UNCHANGED <<keys, remote, imp, byHand>>

(* A call fails and has done nothing. *)
PubFails(p) ==
  /\ ActivePub(p) /\ pub[p].phase \notin {"unset", "delete"}
  /\ PubGoto(p, AfterPubFailure(p))
  /\ UNCHANGED <<repos, keys, remote, imp, byHand, displaced, excused>>

-----------------------------------------------------------------------------
(* import: runOne for one repository after the other.                      *)
Current(i) == Len(imp[i].results) + 1
NameOf(i) == imp[i].batch[Current(i)]
ThisEntry(i) == <<i, Current(i)>>

(* The outcome is kept and the batch goes on, whatever it was.             *)
Last(i, results) == Len(results) = Len(imp[i].batch)

WithOutcome(i, outcome) ==
  LET results == Append(imp[i].results, outcome) IN
  imp' = [imp EXCEPT
    ![i].results = results,
    ![i].phase = IF Last(i, results) THEN "ended" ELSE "call"]

ImpGoto(i, phase) == imp' = [imp EXCEPT ![i].phase = phase]

(* RunBatch, or Run of one repository.  A manifest may name one twice. *)
StartImport(i, batch) ==
  /\ imp[i].phase = "idle"
  /\ imp' = [imp EXCEPT ![i] = [phase |-> "call", batch |-> batch, results |-> <<>>]]
  /\ UNCHANGED <<repos, keys, remote, pub, byHand, displaced, excused>>

(* runOne before the POST: the options do not resolve to a service and a   *)
(* name, or there is no request to be made of them.  Nothing was sent.     *)
NotSent(i) ==
  /\ imp[i].phase = "call"
  /\ WithOutcome(i, "failed")
  /\ UNCHANGED <<repos, keys, remote, pub, byHand, displaced, excused>>

(* migrate: POST.  The forge refuses a name that is taken, as it may any   *)
(* request; or it registers the repository and starts to clone.            *)
Migrate(i) ==
  LET n == NameOf(i) IN
  /\ imp[i].phase = "call"
  /\ \/ /\ ImpGoto(i, "cleanup")
        /\ UNCHANGED repos
     \/ /\ repos[n] = None
        /\ repos' = [repos EXCEPT ![n] = [NewRepository(ThisEntry(i)) EXCEPT !.migrating = TRUE]]
        /\ ImpGoto(i, "answer")
  /\ UNCHANGED <<keys, remote, pub, byHand, displaced, excused>>

Mine(i) == repos[NameOf(i)] # None /\ repos[NameOf(i)].by = ThisEntry(i)

(* Migrating in the forge: it comes to its end, or fails and leaves the    *)
(* repository or removes it.                                               *)
Cloned(n) ==
  /\ repos[n] # None /\ repos[n].migrating
  /\ repos' = [repos EXCEPT ![n].migrating = FALSE, ![n].has = @ \union {"code"}]
  /\ UNCHANGED <<keys, remote, pub, imp, byHand, displaced, excused>>

CloneFails(n) ==
  /\ repos[n] # None /\ repos[n].migrating
  /\ \E left \in {None, [repos[n] EXCEPT !.migrating = FALSE]} :
       repos' = [repos EXCEPT ![n] = left]
  /\ UNCHANGED <<keys, remote, pub, imp, byHand, displaced, excused>>

(* A 2xx; if it cannot be decoded the entry fails and nothing is undone.   *)
Answered(i) ==
  /\ imp[i].phase = "answer"
  /\ Mine(i) /\ "code" \in repos[NameOf(i)].has
  /\ \/ WithOutcome(i, "imported") /\ UNCHANGED excused
     \/ WithOutcome(i, "failed") /\ excused' = excused \union {ThisEntry(i)}
  /\ UNCHANGED <<repos, keys, remote, pub, byHand, displaced>>

(* Another answer, or none: the call was cut off, wherever the forge is.   *)
NotAnsweredMutant(i) == WithOutcome(i, "failed")
NotAnswered(i) == ImpGoto(i, "cleanup")

CallFails(i) ==
  /\ imp[i].phase = "answer"
  /\ NotAnswered(i)
  /\ UNCHANGED <<repos, keys, remote, pub, byHand, displaced, excused>>

(* withCleanup. *)
Cleanup(i) ==
  /\ imp[i].phase = "cleanup"
  /\ WithOutcome(i, "failed")
  /\ \/ Delete(NameOf(i), ThisEntry(i)) /\ UNCHANGED excused
     \/ excused' = excused \union {ThisEntry(i)} /\ UNCHANGED <<repos, displaced>>
  /\ UNCHANGED <<keys, remote, pub, byHand>>

-----------------------------------------------------------------------------
(* What is done by hand on the forge and, with no publish under way, in    *)
(* the folder.                                                             *)
ByHand ==
  /\ byHand < MaxUserSteps
  /\ byHand' = byHand + 1
  /\ \/ \E n \in Names :
          \/ repos[n] = None /\ repos' = [repos EXCEPT ![n] = NewRepository(User)]
               /\ UNCHANGED <<remote, displaced>>
          \/ repos[n] # None /\ Delete(n, User) /\ UNCHANGED remote
     \/ /\ \A p \in Publishers : ~ActivePub(p)
        /\ remote' = None
        /\ UNCHANGED <<repos, displaced>>
  /\ UNCHANGED <<keys, pub, imp, excused>>

Kill ==
  \/ \E p \in Publishers : ActivePub(p) /\ PubGoto(p, "dead") /\ UNCHANGED imp
  \/ \E i \in Importers : ActiveImp(i) /\ ImpGoto(i, "dead") /\ UNCHANGED pub

Killed == Kill /\ UNCHANGED <<repos, keys, remote, byHand, displaced, excused>>

PublishStep(p) ==
  \/ Inspect(p) \/ Authorize(p) \/ Register(p) \/ Check(p) \/ Create(p) \/ AddRemote(p)
  \/ PushBranches(p) \/ PushTags(p) \/ UnsetRemote(p) \/ DeleteRepo(p) \/ PubFails(p)

ImportStep(i) == NotSent(i) \/ Migrate(i) \/ Answered(i) \/ CallFails(i) \/ Cleanup(i)

Batches == UNION {[1 .. k -> Names] : k \in 1 .. MaxBatch}

Next ==
  \/ \E p \in Publishers : (\E n \in Names : StartPublish(p, n)) \/ PublishStep(p)
  \/ \E i \in Importers : (\E batch \in Batches : StartImport(i, batch)) \/ ImportStep(i)
  \/ \E n \in Names : Cloned(n) \/ CloneFails(n)
  \/ ByHand
  \/ Killed

Spec == Init /\ [][Next]_vars

-----------------------------------------------------------------------------
(* Type correctness of every variable. *)
TypeOK ==
  /\ repos \in [Names -> Repositories \union {None}]
  /\ keys \subseteq Keys
  /\ remote \in Remotes \union {None}
  /\ pub \in [Publishers -> [phase : PublishSteps \union PublishEnds \union {"idle"},
                             name : Names \union {None}, added : BOOLEAN]]
  /\ \A p \in Publishers : pub[p].name = None => pub[p].phase = "idle"
  /\ imp \in [Importers -> [phase : {"idle", "call", "answer", "cleanup", "ended", "dead"},
                            batch : Seq(Names), results : Seq({"imported", "failed"})]]
  /\ \A i \in Importers :
       /\ Len(imp[i].results) <= Len(imp[i].batch) /\ Len(imp[i].batch) <= MaxBatch
       /\ ActiveImp(i) => Len(imp[i].results) < Len(imp[i].batch)
  /\ byHand \in 0 .. MaxUserSteps
  /\ displaced \subseteq Names
  /\ excused \subseteq Makers

(* Publish's rollback removes what that publish made and nothing else:     *)
(* neither the repository of somebody who took the name between the check  *)
(* and the creation, nor the remote of another publish from the folder.    *)
(* Exempt is a repository deleted under its run and made again by another. *)
RollbackSparesOthers ==
  [][\A p \in Publishers : ActivePub(p) /\ pub'[p] # pub[p] =>
       /\ remote # None /\ remote' = None => remote.by = p
       /\ \A n \in Names : repos[n] # None /\ repos'[n] = None =>
            repos[n].by = p \/ n \in displaced]_vars

(* A publish that fails leaves neither its repository nor its remote, so   *)
(* that it can be repeated; unless it said that it could not remove them,  *)
(* or never learned that it had made one.                                  *)
FailedLeavesNothing ==
  \A p \in Publishers : pub[p].phase = "failed" /\ p \notin excused =>
    /\ remote # None => remote.by # p
    /\ \A n \in Names : repos[n] # None => repos[n].by # p

(* A publish that succeeds has put every branch and tag into a repository  *)
(* it made, at the name the folder's remote then has, whatever others did  *)
(* on the forge and from the folder in the meantime.                       *)
PublishedIsThere ==
  [][\A p \in Publishers : pub'[p].phase = "published" /\ pub[p].phase # "published" =>
       LET n == pub[p].name IN
       /\ remote' = [by |-> p, name |-> n, host |-> "instance"]
       /\ repos'[n] # None
       /\ \/ repos'[n].by = p /\ {"branches", "tags"} \subseteq repos'[n].has
          \/ n \in displaced]_vars

(* An import that reports a repository as failed leaves none that its call *)
(* registered, in part or whole, and none the forge is still cloning into; *)
(* unless it said that it could not remove it, or could not decode the     *)
(* answer to a migration that succeeded (withCleanup is then not called).  *)
(* A migration that registers only after the cleanup was answered 404 is   *)
(* not modelled.                                                           *)
NothingHalfRegistered ==
  \A i \in Importers : \A k \in DOMAIN imp[i].results :
    imp[i].results[k] = "failed" /\ <<i, k>> \notin excused =>
      \A n \in Names : repos[n] # None => repos[n].by # <<i, k>>

(* importer.go says that the cleanup removes what the failed migration may *)
(* have registered, and that deleting a successfully created repository    *)
(* "would destroy real, complete work": no import deletes a repository     *)
(* another call, or another hand, had made.                                *)
CleanupSparesOthers ==
  [][\A i \in Importers : ActiveImp(i) /\ imp'[i] # imp[i] =>
       \A n \in Names : repos[n] # None /\ repos'[n] = None => repos[n].by = ThisEntry(i)]_vars
=============================================================================
