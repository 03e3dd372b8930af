# Farrier in TLA+

Farrier deploys a Forgejo instance onto a Docker host over SSH, backs it up,
restores it, upgrades it and fails it over.  These modules model the parts of it
where what goes wrong depends on the order of things: a capture of a live forge, a
host directory that several commands write, keys written half by half, a command
that stops anywhere and is run again, the event streams between goroutines.

Every definition is translated from the Go code under `src/`; `PROJECT.json` names
the lines of each (`map`).  Paths below are relative to `src/internal/core/`.

## The system

| component | state it keeps | operations | hard because | modules |
|---|---|---|---|---|
| backup (`backup/backup.go`, `pushhold.go`, `capture.go`, `git.go`, `verify.go`) | the proxy's configuration; a snapshot under construction | `Run`: hold pushes, capture the database, record refs, release, tar repositories, copy blobs and keys, verify | the forge is live: pushes, deletions, `git gc` go on; the hold must end on every path; backups overlap | `GitRefs`, `BackupCapture` |
| snapshot destination (`backup/orchestrate.go`, `destination.go`, `write.go`, `encrypt.go`) | objects in a blob store, named by capture time | `Backup`, `Write`, `LatestSnapshotKey` | names of one second collide; the latest is chosen by the store's clock | `Failover` |
| deploy (`deploy/deploy.go`, `stateversion.go`, `stateowner.go`, `orchestrate/converge.go`) | the deployment directory: app.ini, host key, version and owner records, compose files, containers | `Up` | records are read by one step and written by a later one; two bundles may meet on a host; containers restart by themselves | `HostState` |
| TLS (`deploy/tls.go`, `acme/`) | certificate and key in the keystore, on hosts, in Caddy | issue, renew, persist, ship | two halves, each copied by itself; a container keeps the files it started with | `Certificates` |
| upgrade (`upgrade/upgrade.go`) | the pin in farrier.yaml, the Compose files rendered from it | health, backup, bump, deploy, verify | a failure must leave a path back; nothing else may migrate | `HostState` |
| restore (`restore/`) | none of its own | fetch, verify, install keys, place state, restore blobs, deploy | overlays two archives taken at two moments; stops between a database and its records | `HostState`, `BackupCapture`, `Certificates`, `Failover` |
| events (`events/job.go`, CLI and API frontends) | per job a log, per subscription a queue and a goroutine | `Emit`, `Subscribe`, cancel, relays, `runJobTo` | delivery after the lock is released; a subscriber leaves mid-send; a relay that outlives its job panics | `EventLog`, `EventStream` |
| init (`initialize/`, `keystore/`, `bundle/bundle.go`) | keystore, resume record, bundle folder | `init`, run again after a stop | identity must never change, and a retry must go through | `InitResume` |
| promote and DNS (`promote/`, `dns/`) | DNS records | show the newest snapshot, restore it on a standby, flip the name | the old primary is not fenced; a record set changes call by call; backups end between the question and the restore | `Failover` |
| drill (`drill/drill.go`), `deploy/down.go` | a scratch directory | restore in quarantine, check, tear down | teardown on every exit, of the scratch instance only | `SharedHost` |
| project names (`orchestrate/compose_command.go`, `converge.go`) | a record in each deployment's directory | pin, resolve | Compose finds containers by name alone; bundles are renamed; older hosts have no record | `SharedHost` |
| attach (`attach/attach.go`), addresses and ports (`deploy/address.go`, `plainhttp.go`, `bundle/manifest.go`) | manifest, compose/, certificate; app.ini, Caddyfile, containers | give a nameless instance a domain, step by step | the endpoint is said in seven places; must be repeatable after each step; containers restart by themselves | `Attach` |
| publish, import (`publish/`, `importer/`) | a repository on the forge, remotes of a clone | check, create, push, undo; migrate, clean up, batch | undoing goes by name, and names are shared; answers are lost; the forge goes on when its caller is gone | `Onramps` |
| status (`status/`) | none | report services, certificate, disk, replication lag | what it reads is stale by then | not modelled: it changes nothing |
| forge set-up (`forge/`), SSH client (`orchestrate/`), registry, blob adapters, exec drivers | none | calls of other programs | each is one step that may fail, in the modules above | not modelled |
| API server, CLI, UI, web page, `tools/` | jobs in memory | start operations, stream events | nothing is serialized: two operations may run at once | `EventStream` has the streams, `Failover` the confirmation of a promotion |

How they meet: `upgrade` = health check, then `backup`, then `deploy.Up`;
`restore` = install keys, place state, then `deploy.Up`; `promote` and `drill` =
`restore` and more.  Each runs on a job of its own whose events a relay goroutine
emits again on the caller's.  All of them act on the host through one call at a time
over SSH, which may fail having had its effect.

## The modules

**`GitRefs`.**  A repository as files: loose refs, packed refs, objects; what a read
of some of them sees, and the overlay of one archive on another that
`restore.placeOneRepo` makes (tar removes nothing).

**`BackupCapture`** (state machine).  One action per step of `Run` for each of any
number of overlapping backups, and the forge as their environment.  The push hold is
what Caddy runs: `original` or `hold`.  A reload has three outcomes: it happened, it
did not, or its caller gave up and it will still happen (`late`).  A repository is
read piece by piece, in an order tar chooses.  `exposed` and `housekept` are history:
in which backups' windows a push landed that the hold could not stop, which
repositories `git gc` changed under a capture; `lost` has what was deleted after a
running backup's database named it and before the backup copied it.

**`HostState`** (state machine).  One deployment directory.  `db` is whose database is
there and at which schema; `recVersion`, `recOwner`, `key`, `config` are what the
commands write beside it; `image` and `running` are the container.  The steps of
`up`, `upgrade`, `attach`, `backup` and `restore` are actions in the order of the code,
`Stop` ends a command after any of them, and `Boot` is Forgejo: newer images migrate,
older ones refuse.  A bundle names its image twice.  `pin` is `Manifest.Images`, which
`up` checks and records; `rendered` is the image in `compose/`, which it starts as
`bundle.Load` read it.  `EditPin` changes the first alone; `upgrade` and `attach` write
the second, then the first (`RenderBundle`, `SaveManifest`: the two writes of `Save`);
`restore` renders its own copy.  A command works from the two it loaded (`pinned`,
`composed`).  A `Save` that stops with no `compose/` at all leaves a bundle no command
loads; that window is `InitResume`'s and `Attach`'s.  `gaps` is history: the records may
not describe the database.

**`Certificates`** (state machine).  The two halves of the TLS pair in the keystore, in
snapshots, on hosts and in Caddy's container, copied half by half by deploys,
restores and backups.  Here commands may be run any number of times.

**`EventLog`, `EventStream`**.  `EventLog` is the promise: one log, each frontend
reads a prefix of it from its start.  `EventStream` is the code: jobs, queues,
`forward` goroutines, relays, three operations deep.

**`InitResume`** (state machine).  Runs of `init` over folders and keystore targets:
record, guard, store (a file is created, then filled), compose/, manifest.

**`SharedHost`** (state machine).  Deployments on one Docker host.  `place` is what each
directory holds: the project's record, `compose/`, state.  `containers` maps each
container name, the same in every bundle, to the project and directory it was made
for.  `up`, `restore` and `drill` are sequences of calls, each of which may fail with
its effect or without; a process may die between any two.  `cuts` is history: which
`rm -rf` was cut.

**`Failover`** (state machine).  Backups into one destination (capture, stamp, put
through a temporary file or whole), promotions step by step, the records of one name
under three kinds of driver, clients that store on whatever host they last resolved,
and a primary nobody stops.  A host or snapshot holds the set of client writes in it.
`crowded` and `replaced` are history: two backups overlapped or ended in one second;
which hosts a promotion put back while they ran.

**`Attach`** (state machine).  The endpoint of one instance in each place that says it:
`farrier.yaml`, `compose/`, `app.ini`, the Caddyfile, the definitions Compose compares
and what each container read when it started.  `up` and `attach` are its commands,
stopped anywhere and repeated; `Restart` is a container's own.

**`Onramps`** (state machine).  Runs of `publish` and of `import` on one forge, with its
users and the folder `publish` runs in.  A repository records who made it.
`displaced` and `excused` are history: repositories deleted under the run that made
them, runs that told of something they could not undo or never learned they had done.

**`*Proofs`**: the theorems about the module of the name (`BackupProofs` about
`BackupCapture`).  `ConcurrencyProofs` has those about the two systems of concurrent
actors, `SharedHost` and `EventStream`, one after the other; they share no variable.

`MC*` modules give symmetry sets and, where the runs are large, a view that leaves out what
nothing reads any more; the values are in the `.cfg` files.

## The runs

| run | question | bounds, and why they are enough |
|---|---|---|
| `backup_one` | is what a backup recorded what its database knows, backed by objects, and restored to it; is what the database names, and nobody deleted, in the snapshot? | one backup, one repository and branch, two commits (a branch moves once), one LFS object, pushes both ways, creations and deletions, gc.  The properties are about one repository or object at a time; overlaps are covered by the proofs.  `View` forgets the forge once the backup has ended |
| `backup_live` | does every hold end, and is one left only by a failure that was reported or a crash? | two backups, the least that share a hold; crashes and Caddy restarts; no pushes, which do not touch the hold |
| `host_records` | is a bundle kept on its own database, a restore exact, a migration backed up? | two bundles, two versions, three commands in a row: the longest story known here (deploy, half a command, repair) needs three; each bundle attached at most once; pins edited at any time.  `View` forgets what finished commands had loaded, which nothing reads any more but what an attach named and a refused command was |
| `certificates` | do certificate and key stay together, and is a renewal kept? | three issuances: one stored, one renewed, one renewed in error; two commands at one time; any number in a row; at most two different pairs in snapshots, to restore one over half of the other |
| `events_log` | is what a frontend sees the operation's own log, and does every goroutine end? | depth 3 (upgrade, backup, Run: the deepest in the program), two events, two calls, a CLI and an SSE client |
| `init_retries` | is identity constant and a retry accepted? | three runs (the retry of a retry), two folders, two targets |
| `shared_host` | does a command reach its own deployment's containers, all of them and no others, and does a drill end clean? | two directories, the least that share a host; two commands at one time, any number in a row; two services, one of which a bundle need not have; every fault, and one cut |
| `failover` | where may the name point, at what, and who follows? | two promotions, to repeat one that failed; two backups, which may overlap; two seconds, to collide or not; one write.  The safety of any number is proved, which matters here: what refutes `NewestHoldsAll` without its exemption of `replaced` hosts takes three backups |
| `attach` | does every stop leave a bundle `up` can finish, and is what a deploy ends with what is served? | two addresses, one of them loopback; one port to choose; one edit; two issuances (the second attach's); any number of commands |
| `onramps` | what does a failed run leave, and whose repository does an undoing delete? | two publishes, one import of up to two, three things by hand, one name: the runs meet nowhere but on a name |

The other two each find a place where the program does not do what a document or a comment
in the repository says (`findings` in `PROJECT.json` quotes each):

* `renewed_served`: a renewed certificate is shipped and not served, since the mount
  keeps the replaced file and nothing in the compose definition changed.
* `import_taken`: an import onto a name that is taken is refused by the forge, and its
  cleanup then deletes the repository that was there.

### Seen while modelling

Not kept as runs; each is a behaviour of the models, and exempted in a property by
name where it would break one.

*Against a document.*

* `up` checks and records the pin of the manifest and starts `compose/` as last rendered,
  and the two can part: a pin edited by hand, an `attach` with an edited pin (it saves its
  `compose/`, is refused, and putting the pin back, as the refusal says, leaves it), an
  `upgrade` killed between the two writes of `Save`.  An `up` then migrates at once, or
  records the pin over the older image it starts, so that a later `attach` renders
  `compose/` for the pin, passes the check, and migrates.  No backup is taken
  (docs/tech-spec.md:146; docs/functional-requirements.md:134, UPGR-003).
* A push over the git SSH port never meets the hold (docs/spec.md:210).
* A reload that reports an error after it took effect leaves the hold, because
  `Release` is deferred only after `Engage` succeeded
  (docs/functional-requirements.md:109, BKUP-002).
* A branch made between the release and the tar is in the restored repository:
  overlaying the recorded refs removes none (`restore/state.go:148`).
* An `up` (or upgrade) that stops after recording its version lets the next plain `up`
  migrate (functional-requirements.md:134, UPGR-003).
* A restore that stops between the database and its stamps leaves the previous owner's
  record beside it (functional-requirements.md:97, UP-008).
* An attach that stopped after storing the certificate and before writing the name is
  refused when repeated, by `refuseExistingCertificate` (`attach/attach.go:36` says a
  retry is not blocked).
* `up` of a nameless bundle at a new address recreates Forgejo and not Caddy, whose
  definition has nothing of the Caddyfile; likewise when Caddy restarts between the
  shipping of the named Caddyfile and the converge (functional-requirements.md:91,
  UP-003).
* A promotion the API refused for want of `confirm` resolves the newest snapshot again
  when it is sent with `confirm` and still no key: not the one whose age was shown
  (functional-requirements.md:125, FAIL-002).
* A drill beside a deployment older than the project record, or beside what is left of
  one whose removal was cut, can reach its containers (docs/operating.md:127).

*Backups.*  The release of one of two overlapping backups lifts the other's hold.  A
push during the tar leaves a ref without its object in the archive.  So may gc in a
repository where it runs during the capture, when it moves an object from a piece not
yet read to one that was; gc's pruning is not modelled, it only moves refs and objects
from file to file.  A backup after a failed upgrade carries the new version, and
restoring it migrates; a pre-upgrade backup carries an edited pin.  With three versions
that is enough for a migration of which nothing has a snapshot: an upgrade to what the
pin was already edited to, a restore of its snapshot, which leaves the container that
still runs the newer image alone, and a restart of that container in the middle of a
later upgrade; it is why `MigrationHasPriorSnapshot` asks that snapshots name their own
schema (`Describes`).
Two backups of one second write one object; two that overlap may end in the other
order, and the store's clock breaks no tie.  A temporary file a killed backup left
is listed as the newest snapshot, and refused by whoever reads it until it is deleted.
The age an operator is shown is the object's, not the capture's.

*Promotion.*  Two at once through Cloudflare leave two records.  One that is repeated
because an answer was lost restores over a standby that already took writes, and the
standby's backups from then on hold less than older ones do.  A
primary that still runs goes on making backups, which are then the newest.

*Hosts.*  Two first deploys of two bundles both claim a directory.  An install that is
cut after `rm -rf compose` makes the next `down` skip the containers and report the
target clean.  `restore` places state without asking whose the directory is.  A
`Save` that stops between the removal of `compose/` and its replacement leaves a
bundle every command refuses.  Two attaches at once mix the halves of their
certificates.  `attach` keeps a stated public port when it moves the port to 443.  What an
`attach` renders carries the domain into the services' environment (`FARRIER_DOMAIN`)
before the manifest has it: `BundleNamedFirst` is about the files, and does not look there.

*Keys.*  `init` stopped inside `Save` or inside a key's write must be cleaned up by
hand; a record written before anything is stored adopts keys another folder's init
stores there later; a record that would not delete makes a whole bundle look torn; two
inits against one target both pass the guard.  `restore` refuses a snapshot taken
before the last certificate renewal when the keystore is still there, because
`installKeys` treats the TLS pair like the keys that never change.

*Publish and import.*  A publish that lost the answer to its creation leaves an empty
repository, and one that was killed its remote too; a retry is then refused.  An
import's cleanup may delete a publish's repository, and the publish's rollback then
whoever's has taken the name.  A 2xx that cannot be decoded is reported as a failure;
a retry deletes the repository.  A migration that registers its repository after the
cleanup was answered 404 would leave it behind; the model has the forge register first.

*Events.*  `Emit` pushes after unlocking, so two emitting goroutines (the program has
none) would deliver out of order.

### Properties of the passing runs

* `PinnedRefsMatchDatabase`: unless the hold was breached in its window, the refs a
  backup recorded are those its database knows.  `PinnedRefsBacked`: the archive has
  their objects, in whatever order tar read.  `RestoredTipsMatchDatabase`: restored,
  each recorded branch is where the restored database has it.  `KeptIsCaptured`: whatever
  the database names when it is captured and nobody deletes before it is copied is in a
  backup that succeeds, though repositories and LFS objects are listed later, by other
  calls, from a forge that goes on.
* `HoldLeftOnlyByReportedFailure`, `HoldEnds`: see `backup_live`.
* `DeploysOwnDatabase`, `RestoreReturnsSnapshot`, `RestoreNeverRefused`,
  `MigrationHasPriorSnapshot`: what the two records buy, over edited pins, reboots
  and commands that stop anywhere, hosts older than the records, snapshots of others.
  `MigrationHasPriorSnapshot` exempts hosts whose records do not describe what was
  started: after a torn restore, on one from before the version record, and, from the
  deployment of a bundle whose pin and `compose/` differ to the next of one whose agree,
  what the first entry of *Seen while modelling* tells.
* `PairsKeptTogether`, `ShippedIsKept`, `RenewalsNotRepeated`: see `certificates`.
* `RelayedInOrder`, `NoEmitAfterEnd`, `ImplementsEventLog` (refinement, with
  `Promised` as the mapping), `ForwardersEnd`, `RunJobReturns`.
* `BundleHasIdentity`, `IdentityNeverChanges`, `RetryRefusedOnlyIfTorn`.
* `DeploymentsApart`: a container changes only under a command of its own directory.
  `Addressable`: a directory's commands find every container made for it.
  `CleanMeansGone`, `DrillsTearDown`: what a drill reports, and that it does.
* `NameMovesToServing`: a record points at a host only when that host is up on the whole
  of a snapshot, its keys installed and its CI reconciled, whichever of several attempts
  gets there.  `FlipLeavesOne`, `RestoredAsShown`, `NewestHoldsAll`, `ClientsFollow`:
  one record, the snapshot the operator saw, the newest that there is, and everybody
  on it in the end (not within `BundleTTL`: the primary's first records are the operator's,
  since `up` manages no DNS, though `dns.go:29` says every record of a bundle has it).  `NewestHoldsAll` exempts a host that was put back while it ran: a
  promotion repeated onto a standby that already runs returns it to the snapshot shown,
  and its next backup is the newest and holds less than the one before.
* `NamedBundleHasPair`, `BundleNamedFirst`: the order in which attach may become
  visible.  `DeployedIsServed`: over restarts, what a finished deploy was of is what
  the containers use.  `NameIsReached`: a bundle with a name gets there.
* `FailedLeavesNothing`, `NothingHalfRegistered`, `RollbackSparesOthers`,
  `PublishedIsThere`: what runs leave, undo and achieve.

Each has a mutant, a plausible slip in one definition of the code that the run
catches.  A definition `XMutant` stands before the `X` it mutates.

### Fairness

`BackupCapture!FairSpec`: each backup that runs goes on, since every call to the host
has a deadline and the capture a ceiling (`backup.go`, the hold's context); a crash
stays possible.  `EventStream!StreamFairSpec`: the Go scheduler runs every goroutine that
can run; a client need not leave, an operation need not call another.
`SharedHost!FairSpec`: a command's next call is made and ends, since each has a deadline;
a kill stays possible.  `Failover!FairSpec`: a resolver forgets a record that is gone
when its TTL has passed, be it `BundleTTL` or what the operator chose; no step of a
promotion is assumed to happen.
`Attach!FairSpec`: the steps of a command go on; the operator of a named bundle repeats
`up`, as attach's error message asks; and what makes steps fail is some day put right
(`<>[][~Fails]_vars`), without which nothing could be promised.  The other modules state no
liveness: there a command may stop anywhere, and what matters is what it leaves.

### Assumptions on the operators

`HostState` (`Exclusive = TRUE`) and `InitResume` run one command at a time, and
`Certificates` one deploying command beside backups, `Attach` one command at a time,
`SharedHost` one at a time against a directory and `Failover` one promotion: the code
has no lock, and its own comments assume one control plane per host
(`orchestrate/converge.go:29`).  Where two at once would matter is in the list above.

## What is proved

Each theorem is of the specification of its module, for every value of the constants
that its assumptions allow, and is checked with no step left out.  Those of
`HostProofs` and `InitProofs` read `Exclusive /\ Spec => ...`: one command, or one run of
`init`, at a time.

| module | theorem | property |
|---|---|---|
| `BackupProofs` | `TypeCorrect` | `TypeOK` |
| | `HoldAccounted` | `HoldLeftOnlyByReportedFailure` |
| | `KeptCaptured` | `KeptIsCaptured` |
| | `RecordedRefsBacked` | `PinnedRefsBacked` |
| | `RecordedRefsMatch` | `PinnedRefsMatchDatabase` |
| | `RestoredTipsMatch` | `RestoredTipsMatchDatabase` |
| `HostProofs` | `OwnDatabaseDeployed` | `DeploysOwnDatabase` |
| | `SnapshotBeforeMigration` | `MigrationHasPriorSnapshot` |
| | `RestoreGoesThrough` | `RestoreNeverRefused` |
| | `SnapshotReturned` | `RestoreReturnsSnapshot` |
| `InitProofs` | `IdentityIsThere` | `BundleHasIdentity` |
| | `IdentityStays` | `IdentityNeverChanges` |
| | `RetryGoesThrough` | `RetryRefusedOnlyIfTorn` |
| `CertificateProofs` | `HalvesMatch` | `PairsKeptTogether` |
| | `ShippedIsStored` | `ShippedIsKept` |
| | `IssuedWhenDue` | `RenewalsNotRepeated` |
| `ConcurrencyProofs` | `DeploymentsStayApart` | `DeploymentsApart` |
| | `ContainersAddressable` | `Addressable` |
| | `CleanTargetIsEmpty` | `CleanMeansGone` |
| | `StreamTypeCorrect` | `StreamTypeOK` |
| | `NoEmitAfterEndCorrect` | `NoEmitAfterEnd` |
| | `RelayedInOrderCorrect` | `RelayedInOrder` |
| | `StreamImplementsLog` | `ImplementsEventLog`, without its fairness |
| | `ReturnedPrintedAll` | the state `RunJobReturns` ends in |
| `FailoverProofs` | `NameMovesLast` | `NameMovesToServing` |
| | `FlipReplacesAll` | `FlipLeavesOne` |
| | `ShownIsRestored` | `RestoredAsShown` |
| | `NewestIsWhole` | `NewestHoldsAll` |
| `AttachProofs` | `NameNeedsPair` | `NamedBundleHasPair` |
| | `NameIsWrittenFirst` | `BundleNamedFirst` |
| | `ServesWhatWasDeployed` | `DeployedIsServed` |
| `OnrampsProofs` | `FailedPublishLeavesNothing` | `FailedLeavesNothing` |
| | `FailedEntryLeavesNothing` | `NothingHalfRegistered` |
| | `RollbackIsItsOwn` | `RollbackSparesOthers` |
| | `PublishedIsComplete` | `PublishedIsThere` |

Every proof module also has a `TypeCorrect`.  Where it is proved, the type invariant is
no longer in the run's configuration (but those of `backup_one` and `events_log`, kept
beside their theorems).

All the proofs have one shape.  An invariant `IInv` (in `BackupProofs`, one per theorem)
is shown to hold at first (`InitIInv`, `InitOK`) and to be kept by every step, one lemma
per action or group of actions; the properties follow from it, those of actions by a
case for each action that could break them.  What makes the invariants inductive:

* **Backup.**  `HoldInv` ties the proxy's configuration to a backup in its window or one
  that ended with a failure.  `BackedInv` says of a repository being tarred that what
  tar has read already and what is on disk together cover the recorded refs' objects:
  objects are only added, so one not yet read is still there when its piece is, unless
  gc ran, which is what `housekept` exempts.  `KeptInv` says that what the captured
  database names and nobody deleted is, step by step, still on the forge, then in the
  list made from it, then copied; it needs that the database is captured before either
  list, which is what its mutant swaps.  `MatchInv` says that the refs of a repository
  not yet recorded are still what the captured database has, unless the window was
  exposed, since every way a ref changes under a hold marks the backup.  The last
  theorem combines the two before it with the overlay's lemma.
* **Host.**  `OwnerInv`: the record, or the host key of a deployment older than it, names
  whose database it is, but between the steps of a restore.  `RecordInv`: the version
  record is not above the database, or a snapshot of that schema exists: `record` is
  reached past a check that only an upgrade passes with a higher version, and an upgrade
  has captured first (`VersionOf`).  The check says nothing of the image: a converge whose
  `composed` is not its `pinned` is known in `gaps` since the record was written
  (`ClaimOf`), and stays known until one that agrees.  `ImageInv`: nor is the image above
  the database, so that no restart migrates.  `RestoreOf` follows a restore whose database a restarted container may
  already have migrated.
* **Init.**  `StoredOf`: in `Order`, each key of a run up to the one it is at is stored
  with its value, those it reuses are there, and the others are absent; `RecordOf`: a
  record names all of the identity.  Together they say that what a later run finds is
  what the record says, or what another wrote.  `PairOf`: a public host key is never
  there before its private one.
* **Certificates.**  `DeployOK` gives, for the one deploying command, how its memory, the
  keystore and the host agree at each half.  `BackupOK`: a backup that has read the
  certificate will find its key, or no key, or is known in `cut` to have been overtaken.
  `CopiesOK` is then the property, less the pairs a command is in the middle of.
  `IssuesOK`: each issuance is due, lost, in the keystore, or in the hands of the command
  that asked for it.
* **Shared host.**  `RecordInv`: a directory resolves to a name of its own or to the old
  one, which only the live directory and one whose removal was cut have.
  `ContainerInv`: a container's project is what its directory resolves to.  `PhaseOf`:
  when a drill comes to remove its files, its containers are gone.
* **Event stream.**  `DeliveryOf` follows each subscription: what its reader was shown,
  what `forward` holds, what is queued and what the emitter has still to push make up,
  in this order, the job's log, and its `Close` is due or was made only after the last of
  it; `EmissionInv` says whom an emitter has left to push to.  `NumberInv`: a job shows
  the steps taken since it began one by one, and lags behind the job it called by what
  their relay has still to emit, so that a relay neither swaps, drops nor repeats
  (`RelayedInOrder`).  `RelayInv` and `AudienceInv`: a relay emits nothing once its
  operation has been told of the end, which the caller waits for before it ends its own
  job (`NoEmitAfterEnd`).  The refinement maps each emission on the outermost job to
  `Report`, each delivery to `Show`, a frontend's end of stream to `Tell`, and what
  happens in between to a stutter.
* **Failover.**  `PromotionInv` is the list of what a promotion has done by each of its
  steps, about the target it has now.  `ShownInv`: under the name the operator was shown
  is the object that was shown, unless backups crowd.  `OrderIInv` adds the order of
  snapshots: what was captured of a host is still on it, unless it was put back
  (`HeldBy`), so that a capture takes all that any before it did; and, while backups do not
  crowd, the store's times order the snapshots as they were captured, with the backup
  that runs after them all (`OrderInv`).
* **Attach.**  `PairInv`, `DeployInv`: what is stored and shipped by each step.
  `ContainerInv` is the heart: a container whose definition is that of a URL read that
  URL when it started, or is known (`strayed`) to have restarted on another deploy's
  file; and a Caddy of an https definition is of a file that does not change again.
* **Onramps.**  `RemoteInv` and `RepositoryInv`: what a publish has made, by its phase,
  and that everything of its making is at its name.  `EntriesOf`: of an import's earlier
  entries nothing is left that failed and was not told of; of later ones nothing exists.

Model-checked only: liveness under fairness, which the prover's temporal reasoning does
not reach: `HoldEnds`, `ForwardersEnd`, `RunJobReturns`, `DrillsTearDown`,
`ClientsFollow`, `NameIsReached`, and the fairness in `ImplementsEventLog`.  Every other
property of the runs is a theorem.

## Not modelled, and why

* Parsing and validation of manifests, beyond the names, ports and schemes of `Attach`:
  functions of one document, unit-tested in the repository.
* Formats of archives, SQL, app.ini and Caddyfiles beyond what differs between two
  deployments of one bundle.
* `status`: it reads and reports, and nothing acts on its report.
* The SSH client, image resolution, blob adapters and exec drivers: each call of theirs
  is one step that may fail, with its effect or without, in the modules above.
* The dashboard's access rules, git SSH's port check, the runner's registration: files
  of one host written in sequence, by a command that can be repeated.
* The web page and `tools/`: not part of what runs a forge.
* Forgejo, git, Caddy, Docker, DNS servers, blob stores: external, and modelled from
  what the code expects of them.

## What is left

1. `Deploy`, an abstract `up` (a host is its bundle's, or untouched), with `HostState`,
   `Attach` and `SharedHost` shown to implement it; today each holds the steps of `up`
   that its properties need, and the others do not appear in it.
2. Two commands at once in `HostState` and two inits in `InitResume` (`Exclusive =
   FALSE`): which of the properties survive, and under which lock they all would.
3. The safety that the liveness properties rest on (what is enabled when a hold, a drill
   or a forwarder has not ended), as invariants with proofs.
