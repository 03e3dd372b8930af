----------------------------- MODULE HostState -----------------------------
(***************************************************************************)
(* One deployment directory on a host, and the commands that write it:     *)
(* `up`, `upgrade`, `attach`, `backup`, `restore`.  Beside the forge's     *)
(* database it holds two records that decide what may be started against   *)
(* it: state/forgejo-version (deploy/stateversion.go) and the state owner  *)
(* (deploy/stateowner.go).  Each is read by one step of a command and      *)
(* written by a later one; every step is a call to the host, and a command *)
(* may stop (an error, a cancelled context, a dead process) after any.     *)
(*                                                                         *)
(* A bundle names its forge image twice: the pin in farrier.yaml is what   *)
(* is checked and recorded, the Compose files under compose/ are what is   *)
(* started.  Load reads the two apart, Save writes one after the other,    *)
(* and only `upgrade`, `attach` and `restore` render one from the other.   *)
(*                                                                         *)
(* Forgejo is external: started on an image newer than the database it     *)
(* migrates it, on an older one it refuses to run.                         *)
(*                                                                         *)
(* Nothing in the code keeps two commands from running against a directory *)
(* at once; Exclusive is the operator's own discipline.                    *)
(*                                                                         *)
(* Bounds: each of Commands is run once; a backup or an upgrade is pointed *)
(* at the host its bundle's instance lives on, and a restore at a snapshot *)
(* with its bundle's own keys, the only kind installKeys accepts; at most  *)
(* one snapshot comes from another host; a bundle is attached at most once *)
(* (module Attach has its keystore).  Repositories, blobs: left out.       *)
(***************************************************************************)
EXTENDS Integers

CONSTANTS
  Instances,    \* bundles, each the identity of one instance
  Versions,     \* Forgejo images, ordered by schema
  Commands,     \* command invocations
  Exclusive,    \* does the operator run one command at a time?
  Events,       \* a subset of EventKinds
  Nobody        \* "no record", not an instance

EventKinds == {"edit", "reboot", "legacy", "elsewhere"}

ASSUME EventsAssumption == Events \subseteq EventKinds
ASSUME VersionsAssumption == Versions \subseteq Nat \ {0} /\ Versions # {}
ASSUME NobodyAssumption == Nobody \notin Instances
ASSUME ExclusiveAssumption == Exclusive \in BOOLEAN

VARIABLES
  \* the bundles on the operator's machine
  pin,          \* the forge image each bundle's farrier.yaml pins
  rendered,     \* the forge image of the Compose files under its compose/
  \* the host
  db,           \* whose database is there, and the schema it is at
  recVersion,   \* state/forgejo-version, 0 when absent
  recOwner,     \* the owner record
  key,          \* whose SSH host key is installed under the gitea state
  config,       \* whose app.ini is mounted
  image,        \* the image of the forge container, 0 when there is none
  running,      \* is Forgejo up?
  \* the backup destination
  snapshots,
  \* the commands
  pc, cmd,
  \* history
  gaps          \* in which of Gaps the records may not describe the database

host == <<db, recVersion, recOwner, key, config, image, running>>
bundle == <<pin, rendered>>
vars == <<bundle, host, snapshots, pc, cmd, gaps>>

(* torn: a restore stopped, or its forge restarted, between placing the    *)
(* state and starting it; unversioned: the host was deployed by a binary   *)
(* that kept no version record, and has not been converged since;          *)
(* misrendered: the pin last recorded is not the image of the Compose      *)
(* files it was recorded for.                                              *)
Gaps == {"torn", "unversioned", "misrendered"}

Kinds == {"up", "upgrade", "attach", "backup", "restore"}

Databases == [owner : Instances \union {Nobody}, schema : Versions \union {0}]

NoDatabase == [owner |-> Nobody, schema |-> 0]

(* What a snapshot says it was written by, and what it holds. *)
Snapshots == [version : Versions, owner : Instances, schema : Versions]

NoSnapshot == [version |-> 0, owner |-> Nobody, schema |-> 0]

Ended == {"succeeded", "failed", "refused"}

Placing == {"stamp-version", "stamp-owner"}

Deploying == {"owner", "claim", "config", "key", "check", "record", "converge", "wait"}

Phases == {"idle", "health", "capture", "render", "save", "place", "verify"}
            \union Placing \union Deploying \union Ended

(* A restore has placed its state and not started it.                      *)
Placed(c) == cmd[c].kind = "restore" /\ pc[c] \in Placing \union (Deploying \ {"wait"})

Active(c) == pc[c] \notin {"idle"} \union Ended

NoCommand == [kind |-> "up", inst |-> Nobody, pinned |-> 0, composed |-> 0,
              target |-> 0, snap |-> NoSnapshot]

(* A fresh host, or one deployed by a binary that kept no records; the     *)
(* destination may hold snapshots that instances took on other hosts.      *)
Init ==
  /\ pin \in [Instances -> Versions] /\ rendered = pin
  /\ \/ /\ db = NoDatabase /\ key = Nobody /\ config = Nobody /\ image = 0
        /\ running = FALSE /\ gaps = {}
     \/ /\ "legacy" \in Events
        /\ \E i \in Instances :
             /\ db = [owner |-> i, schema |-> pin[i]]
             /\ key = i /\ config = i /\ image = pin[i] /\ running = TRUE
             /\ gaps = {"unversioned"}
  /\ recVersion = 0 /\ recOwner = Nobody
  /\ IF "elsewhere" \in Events
     THEN snapshots \in {{}} \union {{s} : s \in {t \in Snapshots : t.version = t.schema}}
     ELSE snapshots = {}
  /\ pc = [c \in Commands |-> "idle"]
  /\ cmd = [c \in Commands |-> NoCommand]

-----------------------------------------------------------------------------
(* Forgejo, external: `img` starts on the database in the directory, with  *)
(* the app.ini mounted there.                                              *)
Boot(img) ==
  /\ image' = img
  /\ running' = (img >= db.schema)
  /\ db' = IF db.schema = 0 THEN [owner |-> config, schema |-> img]
           ELSE IF img > db.schema THEN [db EXCEPT !.schema = img] ELSE db

(* The container restarts: `restart: unless-stopped`, or the host did. *)
Reboot ==
  /\ "reboot" \in Events
  /\ image # 0
  /\ Boot(image)
  /\ gaps' = gaps \union (IF \E c \in Commands : Placed(c) THEN {"torn"} ELSE {})
  /\ UNCHANGED <<bundle, recVersion, recOwner, key, config, snapshots, pc, cmd>>

(* The operator edits the pin in farrier.yaml; compose/ stays as it is. *)
EditPin(i, v) ==
  /\ "edit" \in Events
  /\ pin' = [pin EXCEPT ![i] = v]
  /\ UNCHANGED <<rendered, host, snapshots, pc, cmd, gaps>>

-----------------------------------------------------------------------------
(* Starting a command: it loads the bundle once and works from that copy.  *)
Goto(c, phase) == pc' = [pc EXCEPT ![c] = phase]

At(c, phase) == pc[c] = phase

Begin(c, command, first) ==
  /\ At(c, "idle")
  /\ Exclusive => \A q \in Commands : ~Active(q)
  /\ cmd' = [cmd EXCEPT ![c] = command]
  /\ Goto(c, first)
  /\ UNCHANGED <<bundle, host, snapshots, gaps>>

Loaded(kind, i) ==
  [NoCommand EXCEPT !.kind = kind, !.inst = i, !.pinned = pin[i],
                    !.composed = rendered[i]]

BeginUp(c, i) == Begin(c, Loaded("up", i), "owner")

BeginBackup(c, i) ==
  /\ db.owner = i
  /\ Begin(c, Loaded("backup", i), "capture")

BeginUpgrade(c, i, v) ==
  /\ db.owner = i
  /\ Begin(c, [Loaded("upgrade", i) EXCEPT !.target = v], "health")

(* Zone control is proven and the pair kept: what is left is namedBundle,  *)
(* which renders the Compose files from the manifest as it was loaded.     *)
BeginAttach(c, i) ==
  /\ \A q \in Commands : cmd[q].kind = "attach" => cmd[q].inst # i
  /\ Begin(c, [Loaded("attach", i) EXCEPT !.target = pin[i]], "render")

(* installKeys has accepted the snapshot: its keys are i's.  What is       *)
(* deployed is rendered at the snapshot's version, whatever the bundle's.  *)
BeginRestore(c, i, s) ==
  /\ s.owner = i
  /\ Begin(c, [NoCommand EXCEPT !.kind = "restore", !.inst = i, !.pinned = s.version,
                                !.composed = s.version, !.snap = s], "place")

-----------------------------------------------------------------------------
(* checkHealthy, the gate of an upgrade. *)
CheckHealth(c) ==
  /\ At(c, "health")
  /\ Goto(c, IF running THEN "capture" ELSE "refused")
  /\ UNCHANGED <<bundle, host, snapshots, cmd, gaps>>

(* backup.Backup: the database comes out of the running container, the     *)
(* version from the bundle the command loaded (BuildOptions).              *)
Capture(c) ==
  LET s == [version |-> cmd[c].pinned, owner |-> db.owner, schema |-> db.schema] IN
  /\ At(c, "capture")
  /\ running
  /\ snapshots' = snapshots \union {s}
  /\ cmd' = [cmd EXCEPT ![c].snap = s]
  /\ Goto(c, IF cmd[c].kind = "upgrade" THEN "render" ELSE "succeeded")
  /\ UNCHANGED <<bundle, host, gaps>>

(* bumpedBundle, namedBundle: manifest and Compose of the copy to deploy;  *)
(* then its Save, which swaps compose/ in first.                           *)
RenderBundle(c) ==
  /\ At(c, "render")
  /\ rendered' = [rendered EXCEPT ![cmd[c].inst] = cmd[c].target]
  /\ cmd' = [cmd EXCEPT ![c].pinned = cmd[c].target, ![c].composed = cmd[c].target]
  /\ Goto(c, "save")
  /\ UNCHANGED <<pin, host, snapshots, gaps>>

SaveManifest(c) ==
  /\ At(c, "save")
  /\ pin' = [pin EXCEPT ![cmd[c].inst] = cmd[c].target]
  /\ Goto(c, "owner")
  /\ UNCHANGED <<rendered, host, snapshots, cmd, gaps>>

-----------------------------------------------------------------------------
(* restore.placeState: the database first, then what it is, then whose.    *)
PlaceState(c) ==
  /\ At(c, "place")
  /\ db' = [owner |-> cmd[c].snap.owner, schema |-> cmd[c].snap.schema]
  /\ Goto(c, "stamp-version")
  /\ UNCHANGED <<bundle, recVersion, recOwner, key, config, image, running, snapshots,
                 cmd, gaps>>

StampVersionMutant(c) ==
  /\ At(c, "stamp-version")
  /\ Goto(c, "stamp-owner")
  /\ UNCHANGED <<bundle, host, snapshots, cmd, gaps>>

StampVersion(c) ==
  /\ At(c, "stamp-version")
  /\ recVersion' = cmd[c].snap.version
  /\ Goto(c, "stamp-owner")
  /\ UNCHANGED <<bundle, db, recOwner, key, config, image, running, snapshots, cmd, gaps>>

StampOwner(c) ==
  /\ At(c, "stamp-owner")
  /\ recOwner' = cmd[c].inst
  /\ Goto(c, "owner")
  /\ UNCHANGED <<bundle, db, recVersion, key, config, image, running, snapshots, cmd, gaps>>

-----------------------------------------------------------------------------
(* deploy.Up, which every command but backup ends in. *)

(* ReadStateOwner: the record, failing that the installed host key. *)
FoundOwnerMutant == recOwner

FoundOwner == IF recOwner # Nobody THEN recOwner ELSE key

CheckOwner(c) ==
  /\ At(c, "owner")
  /\ Goto(c, IF FoundOwner \in {Nobody, cmd[c].inst} THEN "claim" ELSE "refused")
  /\ UNCHANGED <<bundle, host, snapshots, cmd, gaps>>

ClaimOwner(c) ==
  /\ At(c, "claim")
  /\ recOwner' = cmd[c].inst
  /\ Goto(c, "config")
  /\ UNCHANGED <<bundle, db, recVersion, key, config, image, running, snapshots, cmd, gaps>>

ConfigureForge(c) ==
  /\ At(c, "config")
  /\ config' = cmd[c].inst
  /\ Goto(c, "key")
  /\ UNCHANGED <<bundle, db, recVersion, recOwner, key, image, running, snapshots, cmd, gaps>>

InstallHostKey(c) ==
  /\ At(c, "key")
  /\ key' = cmd[c].inst
  /\ Goto(c, "check")
  /\ UNCHANGED <<bundle, db, recVersion, recOwner, config, image, running, snapshots, cmd,
                 gaps>>

(* checkStateVersion: only an upgrade may change a recorded version; it is *)
(* the manifest's pin that is checked, and then recorded.                  *)
MayStartMutant(c) == TRUE

MayStart(c) ==
  cmd[c].kind = "upgrade" \/ recVersion \in {0, cmd[c].pinned}

CheckVersion(c) ==
  /\ At(c, "check")
  /\ Goto(c, IF MayStart(c) THEN "record" ELSE "refused")
  /\ UNCHANGED <<bundle, host, snapshots, cmd, gaps>>

Misrendered(c) == cmd[c].pinned # cmd[c].composed

RecordVersion(c) ==
  /\ At(c, "record")
  /\ recVersion' = cmd[c].pinned
  /\ gaps' = gaps \union (IF Misrendered(c) THEN {"misrendered"} ELSE {})
  /\ Goto(c, "converge")
  /\ UNCHANGED <<bundle, db, recOwner, key, config, image, running, snapshots, cmd>>

(* `docker compose up -d` recreates a container whose definition changed   *)
(* (its image, or the checksum of its app.ini), starts one that is down    *)
(* and leaves alone one that is up as defined.                             *)
Start(img) ==
  \/ Boot(img)
  \/ image = img /\ running /\ UNCHANGED <<db, image, running>>

(* The gaps a deployment closes: its own record describes what it started. *)
Closed(c) ==
  {g \in Gaps : ~Misrendered(c) /\ (g = "torn" => cmd[c].kind = "restore")}

ConvergeMutant(c) ==
  /\ At(c, "converge")
  /\ Start(rendered[cmd[c].inst])
  /\ gaps' = gaps \ Closed(c)
  /\ Goto(c, "wait")
  /\ UNCHANGED <<bundle, recVersion, recOwner, key, config, snapshots, cmd>>

(* orchestrate.Converge: the Compose files are swapped in and brought up.  *)
Converge(c) ==
  /\ At(c, "converge")
  /\ Start(cmd[c].composed)
  /\ gaps' = gaps \ Closed(c)
  /\ Goto(c, "wait")
  /\ UNCHANGED <<bundle, recVersion, recOwner, key, config, snapshots, cmd>>

(* waitForge and what follows: all of it needs a Forgejo that answers. *)
WaitForge(c) ==
  /\ At(c, "wait")
  /\ running
  /\ Goto(c, IF cmd[c].kind = "upgrade" THEN "verify" ELSE "succeeded")
  /\ UNCHANGED <<bundle, host, snapshots, cmd, gaps>>

Verify(c) ==
  /\ At(c, "verify")
  /\ Goto(c, IF running THEN "succeeded" ELSE "failed")
  /\ UNCHANGED <<bundle, host, snapshots, cmd, gaps>>

(* A call to the host fails, the context is cancelled, the process dies.   *)
Stop(c) ==
  /\ Active(c)
  /\ Goto(c, "failed")
  /\ gaps' = gaps \union (IF Placed(c) THEN {"torn"} ELSE {})
  /\ UNCHANGED <<bundle, host, snapshots, cmd>>

-----------------------------------------------------------------------------
Next ==
  \/ Reboot
  \/ \E i \in Instances, v \in Versions : EditPin(i, v)
  \/ \E c \in Commands :
       \/ \E i \in Instances :
            \/ BeginUp(c, i) \/ BeginBackup(c, i) \/ BeginAttach(c, i)
            \/ \E v \in Versions : BeginUpgrade(c, i, v)
            \/ \E s \in snapshots : BeginRestore(c, i, s)
       \/ CheckHealth(c) \/ Capture(c) \/ RenderBundle(c) \/ SaveManifest(c)
       \/ PlaceState(c) \/ StampVersion(c) \/ StampOwner(c)
       \/ CheckOwner(c) \/ ClaimOwner(c) \/ ConfigureForge(c) \/ InstallHostKey(c)
       \/ CheckVersion(c) \/ RecordVersion(c) \/ Converge(c) \/ WaitForge(c)
       \/ Verify(c) \/ Stop(c)

Spec == Init /\ [][Next]_vars

-----------------------------------------------------------------------------
CommandRecords ==
  [kind : Kinds, inst : Instances \union {Nobody}, pinned : Versions \union {0},
   composed : Versions \union {0}, target : Versions \union {0},
   snap : Snapshots \union {NoSnapshot}]

(* Type correctness of every variable. *)
TypeOK ==
  /\ pin \in [Instances -> Versions] /\ rendered \in [Instances -> Versions]
  /\ db \in Databases
  /\ recVersion \in Versions \union {0}
  /\ recOwner \in Instances \union {Nobody}
  /\ key \in Instances \union {Nobody}
  /\ config \in Instances \union {Nobody}
  /\ image \in Versions \union {0} /\ running \in BOOLEAN
  /\ snapshots \subseteq Snapshots
  /\ pc \in [Commands -> Phases]
  /\ cmd \in [Commands -> CommandRecords]
  /\ gaps \subseteq Gaps

(* UP-008: a command starts the forge only on the database of the instance *)
(* whose app.ini is mounted, on hosts with an owner record and on those    *)
(* deployed before there was one, unless a restore was cut short there.    *)
DeploysOwnDatabase ==
  []["torn" \notin gaps => \A c \in Commands : Converge(c) => db'.owner = config]_vars

Migrates ==
  /\ db.schema \notin {0, db'.schema}
  /\ Reboot \/ \E c \in Commands : Converge(c)

(* A backup names the version its bundle pins (BuildOptions); whoever      *)
(* edits the pin and does not deploy it gets a snapshot that misnames its  *)
(* database.                                                               *)
Describes == \A s \in snapshots : s.version = s.schema

Snapped == \E s \in snapshots : s.owner = db.owner /\ s.schema = db.schema

(* What UPGR-001 buys: no database is migrated, by whatever command or     *)
(* restart gets to it, without a snapshot of it at its old schema; any     *)
(* command may stop anywhere and pins may be edited by hand.  Exempt are   *)
(* the states the two records do not describe: from a restore cut short    *)
(* between the database it places and the start of it (or an old container *)
(* coming back in between) to the restore that repairs it; from the        *)
(* deployment of a bundle whose compose/ was rendered for another pin than *)
(* its manifest's (an edited pin, a Save cut short) to one whose was not,  *)
(* between which any command may migrate with no snapshot; hosts from      *)
(* before the version record until converged (checkStateVersion says so).  *)
(* And no snapshot may misname what it holds, which a restore would leave  *)
(* a newer forge running on.                                               *)
MigrationHasPriorSnapshot ==
  [][gaps = {} /\ Describes /\ Migrates => Snapped]_vars

(* RSTR-002: a restore that succeeds leaves the forge running, as its own  *)
(* instance, on the image and the schema its snapshot recorded, whatever   *)
(* the directory held, the bundle pins by then, or a restart did midway.   *)
RestoreReturnsSnapshot ==
  [][\A c \in Commands :
       LET s == cmd[c].snap IN
       cmd[c].kind = "restore" /\ s.version = s.schema /\ WaitForge(c) =>
         /\ db = [owner |-> s.owner, schema |-> s.schema]
         /\ image = s.version /\ recVersion = s.version
         /\ config = s.owner /\ recOwner = s.owner]_vars

(* Stated by RecordStateVersion and placeState: the checks of the deploy a *)
(* restore ends in pass by construction, whatever the directory held.      *)
RestoreNeverRefused ==
  \A c \in Commands : At(c, "refused") => cmd[c].kind # "restore"
=============================================================================
