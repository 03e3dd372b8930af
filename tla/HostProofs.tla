----------------------------- MODULE HostProofs -----------------------------
(* Proofs about HostState, for any number of bundles, versions and         *)
(* commands and whatever may happen to the host: all of them for an        *)
(* operator who runs one command at a time (Exclusive).                    *)
EXTENDS HostState, TLAPS

Solo == \A c, q \in Commands : Active(c) /\ Active(q) => c = q

Restoring(c) == cmd[c].kind = "restore"

Rendering == {"upgrade", "attach"}

(* What a command has in memory, by its kind and the step it is at.        *)
CommandOf(c) ==
  /\ Active(c) => /\ cmd[c].inst \in Instances
                  /\ cmd[c].pinned \in Versions /\ cmd[c].composed \in Versions
  /\ pc[c] \in {"health", "verify"} => cmd[c].kind = "upgrade"
  /\ pc[c] \in {"render", "save"} => cmd[c].kind \in Rendering
  /\ cmd[c].kind \in Rendering => cmd[c].target \in Versions
  /\ pc[c] \in {"place"} \union Placing => Restoring(c)
  /\ Restoring(c) => /\ cmd[c].snap \in snapshots /\ cmd[c].snap.owner = cmd[c].inst
                     /\ cmd[c].pinned = cmd[c].snap.version
                     /\ cmd[c].composed = cmd[c].snap.version
                     /\ pc[c] \notin {"refused", "capture"}

CommandInv == \A c \in Commands : CommandOf(c)

(* What deploy.Up has established by the step it is at.                    *)
ClaimOf(c) ==
  /\ pc[c] = "claim" => FoundOwner \in {Nobody, cmd[c].inst}
  /\ pc[c] \in Deploying \ {"owner", "claim"} => recOwner = cmd[c].inst
  /\ pc[c] \in Deploying \ {"owner", "claim", "config"} => config = cmd[c].inst
  /\ pc[c] = "record" => MayStart(c)
  /\ pc[c] \in {"converge", "wait"} => recVersion = cmd[c].pinned
  /\ pc[c] = "converge" /\ Misrendered(c) => "misrendered" \in gaps

ClaimInv == \A c \in Commands : ClaimOf(c)

(* What a restore has put in the directory: a container that came back up  *)
(* in between may have migrated it already.                                *)
RestoreOf(c) ==
  Restoring(c) =>
    /\ pc[c] \in Placing \union Deploying =>
         /\ db.owner = cmd[c].inst /\ cmd[c].snap.schema <= db.schema
         /\ running => db.schema <= cmd[c].snap.schema \/ db.schema <= image
    /\ pc[c] \in {"stamp-owner"} \union Deploying => recVersion = cmd[c].pinned
    /\ pc[c] \in Deploying => recOwner = cmd[c].inst
    /\ pc[c] = "wait" => image = cmd[c].pinned

RestoreInv == \A c \in Commands : RestoreOf(c)

DatabaseInv ==
  /\ db.schema = 0 => image = 0
  /\ db.schema # 0 => db.owner \in Instances
  /\ running => image # 0

(* The records name whose database it is. *)
Kept == "torn" \notin gaps /\ \A c \in Commands : pc[c] \notin Placing

OwnerInv == Kept /\ db.schema # 0 => FoundOwner = db.owner

(* The records name, and the container runs, what the database is at.      *)
Unplaced == \A c \in Commands : ~Placed(c)

Upgrading(c) ==
  cmd[c].kind = "upgrade" /\ pc[c] \in {"render", "save"} \union (Deploying \ {"wait"})

VersionOf(c) ==
  /\ Placed(c) => db.schema = cmd[c].snap.schema
  /\ Upgrading(c) => Snapped

ImageInv == "torn" \notin gaps /\ Describes /\ Unplaced => image <= db.schema

RecordInv ==
  gaps = {} /\ Describes /\ Unplaced /\ db.schema # 0 =>
    recVersion # 0 /\ (recVersion <= db.schema \/ Snapped)

VersionInv == gaps = {} /\ Describes => \A c \in Commands : VersionOf(c)

IInv ==
  /\ TypeOK /\ Exclusive /\ Solo /\ CommandInv /\ ClaimInv /\ RestoreInv
  /\ DatabaseInv /\ OwnerInv /\ ImageInv /\ RecordInv /\ VersionInv

-----------------------------------------------------------------------------
Begins(c) ==
  \E i \in Instances :
    \/ BeginUp(c, i) \/ BeginBackup(c, i) \/ BeginAttach(c, i)
    \/ \E v \in Versions : BeginUpgrade(c, i, v)
    \/ \E s \in snapshots : BeginRestore(c, i, s)

Step(c) ==
  \/ Begins(c)
  \/ CheckHealth(c) \/ Capture(c) \/ RenderBundle(c) \/ SaveManifest(c)
  \/ PlaceState(c) \/ StampVersion(c) \/ StampOwner(c)
  \/ CheckOwner(c) \/ ClaimOwner(c) \/ ConfigureForge(c) \/ InstallHostKey(c)
  \/ CheckVersion(c) \/ RecordVersion(c) \/ Converge(c) \/ WaitForge(c)
  \/ Verify(c) \/ Stop(c)

LEMMA NextCases ==
  ASSUME Next
  PROVE  Reboot \/ (\E i \in Instances, v \in Versions : EditPin(i, v)) \/ \E c \in Commands : Step(c)
BY DEF Next, Step, Begins

LEMMA Numbers ==
  ASSUME NEW v \in Versions
  PROVE  v \in Nat /\ v # 0
BY VersionsAssumption

(* What `img` makes of the database. *)
LEMMA BootEffect ==
  ASSUME TypeOK, NEW img \in Versions, Boot(img), config \in Instances \/ db.schema # 0
  PROVE  /\ db' \in Databases /\ image' = img /\ running' \in BOOLEAN
         /\ db.schema <= db'.schema /\ img <= db'.schema /\ db'.schema # 0
         /\ db'.schema \in {db.schema, img}
         /\ running' => db'.schema = img
         /\ db.schema # 0 => db'.owner = db.owner
         /\ db.schema = 0 => db'.owner = config
<1>1. db \in Databases
  BY DEF TypeOK
<1>2. db.schema \in Nat /\ (db.schema = 0 \/ db.schema \in Versions)
  <2>1. db.schema \in Versions \union {0}
    BY <1>1 DEF Databases
  <2> QED
    BY <2>1, Numbers
<1>3. img \in Nat /\ img # 0
  BY Numbers
<1> USE <1>1, <1>2, <1>3
<1>4. CASE db.schema = 0
  <2>1. db' = [owner |-> config, schema |-> img]
    BY <1>4 DEF Boot
  <2> QED
    BY <1>4, <2>1 DEF Boot, TypeOK, Databases
<1>5. CASE db.schema # 0 /\ img > db.schema
  <2>1. db' = [db EXCEPT !.schema = img]
    BY <1>5 DEF Boot
  <2> QED
    BY <1>5, <2>1 DEF Boot, TypeOK, Databases
<1>6. CASE db.schema # 0 /\ ~(img > db.schema)
  <2>1. db' = db
    BY <1>6 DEF Boot
  <2>2. img <= db.schema /\ (img >= db.schema => db.schema = img)
    BY <1>6
  <2>3. running' = (img >= db.schema) /\ image' = img
    BY DEF Boot
  <2>4. running' \in BOOLEAN
    BY <2>3
  <2>5. running' => db.schema = img
    BY <2>2, <2>3
  <2> QED
    BY <1>6, <2>1, <2>2, <2>3, <2>4, <2>5
<1> QED
  BY <1>4, <1>5, <1>6

(* A command moves alone. *)
LEMMA StepOthers ==
  ASSUME TypeOK, Exclusive, Solo, NEW c \in Commands, Step(c), NEW q \in Commands \ {c}
  PROVE  pc'[q] = pc[q] /\ cmd'[q] = cmd[q] /\ ~Active(q)
<1>1. CASE Begins(c)
  BY <1>1 DEF Begins, BeginUp, BeginBackup, BeginAttach, BeginUpgrade, BeginRestore, Begin, Goto, At, TypeOK
<1>2. CASE ~Begins(c)
  <2>1. Active(c)
    BY <1>2 DEF Step, CheckHealth, Capture, RenderBundle, SaveManifest, PlaceState, StampVersion, StampOwner,
       CheckOwner, ClaimOwner, ConfigureForge, InstallHostKey, CheckVersion, RecordVersion,
       Converge, WaitForge, Verify, Stop, At, Active, Ended
  <2>2. pc'[q] = pc[q] /\ cmd'[q] = cmd[q]
    BY <1>2 DEF Step, CheckHealth, Capture, RenderBundle, SaveManifest, PlaceState, StampVersion, StampOwner,
       CheckOwner, ClaimOwner, ConfigureForge, InstallHostKey, CheckVersion, RecordVersion,
       Converge, WaitForge, Verify, Stop, Goto, TypeOK
  <2> QED
    BY <2>1, <2>2 DEF Solo
<1> QED
  BY <1>1, <1>2

LEMMA SoloStep ==
  ASSUME TypeOK, Exclusive, Solo, [Next]_vars
  PROVE  Solo'
<1>1. ASSUME NEW c \in Commands, Step(c)
      PROVE  Solo'
  BY <1>1, StepOthers DEF Solo, Active
<1>2. CASE UNCHANGED pc
  BY <1>2 DEF Solo, Active
<1> QED
  BY <1>1, <1>2, NextCases DEF Reboot, EditPin, vars

LEMMA Records ==
  ASSUME TypeOK, NEW c \in Commands
  PROVE  /\ cmd[c] \in CommandRecords /\ pc[c] \in Phases /\ NoCommand \in CommandRecords
BY DEF TypeOK, CommandRecords, NoCommand, Kinds

LEMMA TypeStep ==
  ASSUME TypeOK, CommandInv, ClaimInv, DatabaseInv, [Next]_vars
  PROVE  TypeOK'
<1>1. CASE Reboot
  <2>1. image \in Versions /\ db.schema # 0
    BY <1>1 DEF Reboot, TypeOK, DatabaseInv
  <2> QED
    BY <1>1, <2>1, BootEffect DEF Reboot, TypeOK, bundle, Gaps
<1>2. ASSUME NEW i \in Instances, NEW v \in Versions, EditPin(i, v)
      PROVE  TypeOK'
  BY <1>2 DEF EditPin, TypeOK, host
<1>3. ASSUME NEW c \in Commands, Step(c)
      PROVE  TypeOK'
  <2> USE Records
  <2>1. CASE Begins(c)
    <3>1. \A s \in snapshots : s \in Snapshots /\ s.version \in Versions
      BY DEF TypeOK, Snapshots
    <3>0. \A kind \in Kinds, i \in Instances : Loaded(kind, i) \in CommandRecords
      BY DEF TypeOK, Loaded, NoCommand, CommandRecords
    <3>2. PICK command \in CommandRecords, first \in Phases : Begin(c, command, first)
      <4>1. CASE \E i \in Instances : BeginUp(c, i) \/ BeginBackup(c, i)
        BY <3>0, <4>1 DEF BeginUp, BeginBackup, Kinds, Phases, Deploying
      <4>2. CASE \E i \in Instances : BeginAttach(c, i)
        <5>1. \A i \in Instances : [Loaded("attach", i) EXCEPT !.target = pin[i]] \in CommandRecords
          BY <3>0 DEF TypeOK, Kinds, CommandRecords
        <5> QED
          BY <4>2, <5>1 DEF BeginAttach, Phases
      <4>3. CASE \E i \in Instances, v \in Versions : BeginUpgrade(c, i, v)
        <5>1. \A i \in Instances, v \in Versions :
                [Loaded("upgrade", i) EXCEPT !.target = v] \in CommandRecords
          BY <3>0 DEF Kinds, CommandRecords
        <5> QED
          BY <4>3, <5>1 DEF BeginUpgrade, Phases
      <4>4. CASE \E i \in Instances, s \in snapshots : BeginRestore(c, i, s)
        BY <3>1, <4>4 DEF BeginRestore, CommandRecords, NoCommand, Kinds, Phases
      <4> QED
        BY <2>1, <4>1, <4>2, <4>3, <4>4 DEF Begins
    <3> QED
      BY <3>2 DEF Begin, Goto, TypeOK, host, bundle
  <2>2. CASE CheckHealth(c) \/ WaitForge(c) \/ Verify(c) \/ CheckOwner(c) \/ CheckVersion(c)
    BY <2>2 DEF CheckHealth, WaitForge, Verify, CheckOwner, CheckVersion, Goto, TypeOK, host, bundle,
       Phases, Deploying, Ended
  <2>3. CASE Capture(c)
    <3> DEFINE s == [version |-> cmd[c].pinned, owner |-> db.owner, schema |-> db.schema]
    <3>1. cmd[c].pinned \in Versions
      BY <2>3 DEF CommandInv, CommandOf, Capture, At, Active, Ended
    <3>2. s \in Snapshots
      BY <2>3, <3>1 DEF Capture, Snapshots, DatabaseInv, TypeOK, Databases
    <3>3. [cmd[c] EXCEPT !.snap = s] \in CommandRecords
      BY <3>2 DEF CommandRecords
    <3> QED
      BY <2>3, <3>2, <3>3 DEF Capture, Goto, TypeOK, host, bundle, Phases, Ended
  <2>4. CASE RenderBundle(c) \/ SaveManifest(c)
    <3>1. cmd[c].inst \in Instances /\ cmd[c].target \in Versions
      BY <2>4 DEF CommandInv, CommandOf, RenderBundle, SaveManifest, At, Active, Ended
    <3>2. [cmd[c] EXCEPT !.pinned = cmd[c].target, !.composed = cmd[c].target] \in CommandRecords
      BY <3>1 DEF CommandRecords
    <3>3. CASE RenderBundle(c)
      BY <3>1, <3>2, <3>3 DEF RenderBundle, Goto, TypeOK, host, Phases
    <3>4. CASE SaveManifest(c)
      BY <3>1, <3>4 DEF SaveManifest, Goto, TypeOK, host, Phases, Deploying
    <3> QED
      BY <2>4, <3>3, <3>4
  <2>5. CASE PlaceState(c)
    <3>1. cmd[c].snap \in Snapshots
      BY <2>5 DEF CommandInv, CommandOf, PlaceState, At, TypeOK
    <3> QED
      BY <2>5, <3>1 DEF PlaceState, Goto, TypeOK, bundle, Databases, Snapshots, Phases, Placing
  <2>6. CASE StampVersion(c) \/ StampOwner(c)
    <3>1. cmd[c].snap \in Snapshots
      BY <2>6 DEF CommandInv, CommandOf, StampVersion, StampOwner, At, TypeOK, Placing
    <3> QED
      BY <2>6, <3>1 DEF StampVersion, StampOwner, Goto, TypeOK, bundle, Snapshots, Phases, Placing,
         Deploying, CommandRecords
  <2>7. CASE ClaimOwner(c) \/ ConfigureForge(c) \/ InstallHostKey(c) \/ RecordVersion(c)
    BY <2>7 DEF ClaimOwner, ConfigureForge, InstallHostKey, RecordVersion, Goto, TypeOK, bundle,
       Phases, Deploying, CommandRecords, Gaps
  <2>8. CASE Converge(c)
    <3>1. cmd[c].composed \in Versions /\ config \in Instances
      BY <2>8 DEF CommandInv, CommandOf, ClaimInv, ClaimOf, Converge, At, Active, Ended, Deploying
    <3>2. db' \in Databases /\ image' \in Versions \union {0} /\ running' \in BOOLEAN
      BY <2>8, <3>1, BootEffect DEF Converge, Start, TypeOK
    <3> QED
      BY <2>8, <3>2 DEF Converge, Goto, TypeOK, bundle, Phases, Deploying
  <2>9. CASE Stop(c)
    BY <2>9 DEF Stop, Goto, TypeOK, host, bundle, Phases, Ended, Gaps
  <2> QED
    BY <1>3, <2>1, <2>2, <2>3, <2>4, <2>5, <2>6, <2>7, <2>8, <2>9 DEF Step
<1>4. CASE UNCHANGED vars
  BY <1>4 DEF vars, host, bundle, TypeOK
<1> QED
  BY <1>1, <1>2, <1>3, <1>4, NextCases

-----------------------------------------------------------------------------
(* A container that restarts changes the schema only. *)
LEMMA RebootEffect ==
  ASSUME TypeOK, DatabaseInv, Reboot
  PROVE  /\ image \in Versions /\ db.schema # 0 /\ db'.schema # 0
         /\ image' = image /\ db'.owner = db.owner
         /\ db.schema <= db'.schema /\ image <= db'.schema
         /\ db'.schema \in {db.schema, image}
         /\ running' => db'.schema = image
<1>1. image \in Versions /\ db.schema # 0 /\ Boot(image)
  BY DEF Reboot, TypeOK, DatabaseInv
<1> QED
  BY <1>1, BootEffect

(* docker compose up: the container is started or left alone. *)
LEMMA ConvergeEffect ==
  ASSUME TypeOK, CommandInv, ClaimInv, DatabaseInv, NEW c \in Commands, Converge(c)
  PROVE  /\ pc[c] = "converge" /\ pc'[c] = "wait" /\ cmd' = cmd
         /\ cmd[c].pinned \in Versions /\ cmd[c].composed \in Versions /\ cmd[c].inst \in Instances
         /\ recVersion = cmd[c].pinned /\ recOwner = cmd[c].inst /\ config = cmd[c].inst
         /\ Restoring(c) => cmd[c].composed = cmd[c].pinned
         /\ Misrendered(c) => "misrendered" \in gaps
         /\ Misrendered(c) => gaps' = gaps
         /\ image' = cmd[c].composed /\ db'.schema # 0
         /\ db.schema <= db'.schema /\ db'.schema \in {db.schema, cmd[c].composed}
         /\ db.schema # 0 => db'.owner = db.owner
         /\ db.schema = 0 => db'.owner = cmd[c].inst
         /\ \/ cmd[c].composed <= db'.schema /\ (running' => db'.schema = cmd[c].composed)
            \/ image = cmd[c].composed /\ running /\ running' = running /\ db' = db
<1>1. /\ pc[c] = "converge" /\ pc'[c] = "wait" /\ cmd' = cmd
      /\ cmd[c].pinned \in Versions /\ cmd[c].composed \in Versions /\ cmd[c].inst \in Instances
      /\ recVersion = cmd[c].pinned /\ recOwner = cmd[c].inst /\ config = cmd[c].inst
      /\ Restoring(c) => cmd[c].composed = cmd[c].pinned
      /\ Misrendered(c) => "misrendered" \in gaps
  BY DEF Converge, At, Goto, CommandInv, CommandOf, ClaimInv, ClaimOf, Active, Ended, Deploying,
     TypeOK
<1>4. Misrendered(c) => gaps' = gaps
  <2>1. Misrendered(c) => Closed(c) = {}
    BY DEF Closed
  <2>2. gaps' = gaps \ Closed(c)
    BY DEF Converge
  <2> QED
    BY <2>1, <2>2
<1> USE <1>4
<1>2. CASE Boot(cmd[c].composed)
  BY <1>1, <1>2, BootEffect
<1>3. CASE image = cmd[c].composed /\ running /\ UNCHANGED <<db, image, running>>
  <2>1. db.schema # 0 /\ db.schema \in Nat
    <3>1. db.schema \in Versions \union {0}
      BY DEF TypeOK, Databases
    <3> QED
      BY <1>1, <1>3, <3>1, Numbers DEF DatabaseInv
  <2> QED
    BY <1>1, <1>3, <2>1
<1> QED
  BY <1>2, <1>3 DEF Converge, Start

LEMMA BeginsEffect ==
  ASSUME TypeOK, NEW c \in Commands, Begins(c)
  PROVE  /\ pc'[c] \in {"owner", "capture", "health", "place", "render"}
         /\ cmd'[c].inst \in Instances
         /\ cmd'[c].pinned \in Versions /\ cmd'[c].composed \in Versions
         /\ pc'[c] = "health" <=> cmd'[c].kind = "upgrade"
         /\ pc'[c] = "render" <=> cmd'[c].kind = "attach"
         /\ pc'[c] = "place" <=> cmd'[c].kind = "restore"
         /\ cmd'[c].kind \in Rendering => cmd'[c].target \in Versions
         /\ cmd'[c].kind = "restore" =>
              /\ cmd'[c].snap \in snapshots /\ cmd'[c].snap.owner = cmd'[c].inst
              /\ cmd'[c].pinned = cmd'[c].snap.version
              /\ cmd'[c].composed = cmd'[c].snap.version
         /\ UNCHANGED <<host, snapshots, gaps>>
<1> USE DEF Begin, Goto
<1>1. \A i \in Instances : pin[i] \in Versions /\ rendered[i] \in Versions
  BY DEF TypeOK
<1>2. \A kind \in Kinds, i \in Instances :
        LET l == Loaded(kind, i) IN
        l.kind = kind /\ l.inst = i /\ l.pinned = pin[i] /\ l.composed = rendered[i]
  BY DEF Loaded, NoCommand
<1>3. CASE \E i \in Instances : BeginUp(c, i)
  <2>1. PICK i \in Instances : BeginUp(c, i)
    BY <1>3
  <2>2. pc'[c] = "owner" /\ cmd'[c] = Loaded("up", i) /\ UNCHANGED <<host, snapshots, gaps>>
    BY <2>1 DEF BeginUp, TypeOK
  <2> QED
    BY <1>1, <1>2, <2>2 DEF Rendering, Kinds
<1>4. CASE \E i \in Instances : BeginBackup(c, i)
  <2>1. PICK i \in Instances : BeginBackup(c, i)
    BY <1>4
  <2>2. pc'[c] = "capture" /\ cmd'[c] = Loaded("backup", i) /\ UNCHANGED <<host, snapshots, gaps>>
    BY <2>1 DEF BeginBackup, TypeOK
  <2> QED
    BY <1>1, <1>2, <2>2 DEF Rendering, Kinds
<1>5. CASE \E i \in Instances : BeginAttach(c, i)
  <2>1. PICK i \in Instances : BeginAttach(c, i)
    BY <1>5
  <2>2. /\ pc'[c] = "render" /\ cmd'[c] = [Loaded("attach", i) EXCEPT !.target = pin[i]]
        /\ UNCHANGED <<host, snapshots, gaps>>
    BY <2>1 DEF BeginAttach, TypeOK
  <2>3. /\ cmd'[c].kind = "attach" /\ cmd'[c].inst = i /\ cmd'[c].pinned = pin[i]
        /\ cmd'[c].composed = rendered[i] /\ cmd'[c].target = pin[i]
    BY <2>2 DEF Loaded, NoCommand
  <2> QED
    BY <1>1, <2>2, <2>3
<1>6. CASE \E i \in Instances, v \in Versions : BeginUpgrade(c, i, v)
  <2>1. PICK i \in Instances, v \in Versions : BeginUpgrade(c, i, v)
    BY <1>6
  <2>2. /\ pc'[c] = "health" /\ cmd'[c] = [Loaded("upgrade", i) EXCEPT !.target = v]
        /\ UNCHANGED <<host, snapshots, gaps>>
    BY <2>1 DEF BeginUpgrade, TypeOK
  <2>3. /\ cmd'[c].kind = "upgrade" /\ cmd'[c].inst = i /\ cmd'[c].pinned = pin[i]
        /\ cmd'[c].composed = rendered[i] /\ cmd'[c].target = v
    BY <2>2 DEF Loaded, NoCommand
  <2> QED
    BY <1>1, <2>2, <2>3
<1>7. CASE \E i \in Instances, s \in snapshots : BeginRestore(c, i, s)
  <2>1. PICK i \in Instances, s \in snapshots : BeginRestore(c, i, s)
    BY <1>7
  <2>2. cmd'[c] = [NoCommand EXCEPT !.kind = "restore", !.inst = i, !.pinned = s.version,
                                    !.composed = s.version, !.snap = s]
    BY <2>1 DEF BeginRestore, TypeOK
  <2>3. cmd'[c] = [kind |-> "restore", inst |-> i, pinned |-> s.version, composed |-> s.version,
                   target |-> 0, snap |-> s]
    BY <2>2 DEF NoCommand
  <2>4. /\ pc'[c] = "place" /\ UNCHANGED <<host, snapshots, gaps>> /\ s.owner = i
        /\ s.version \in Versions
    BY <2>1 DEF BeginRestore, TypeOK, Snapshots
  <2>5. /\ cmd'[c].kind = "restore" /\ cmd'[c].inst = i /\ cmd'[c].pinned = s.version
        /\ cmd'[c].composed = s.version /\ cmd'[c].snap = s
    BY <2>3
  <2> QED
    BY <2>4, <2>5 DEF Rendering
<1> QED
  BY <1>3, <1>4, <1>5, <1>6, <1>7 DEF Begins

LEMMA CommandStep ==
  ASSUME TypeOK, Exclusive, Solo, CommandInv, ClaimInv, RestoreInv, [Next]_vars
  PROVE  CommandInv'
<1>1. ASSUME NEW q \in Commands, pc'[q] = pc[q], cmd'[q] = cmd[q], snapshots \subseteq snapshots'
      PROVE  CommandOf(q)'
  BY <1>1 DEF CommandInv, CommandOf, Restoring, Active
<1>2. ASSUME NEW c \in Commands, Step(c)
      PROVE  CommandInv'
  <2> USE <1>2, Records DEF CommandInv, CommandOf, Restoring, Active, Ended, Placing, Goto, At, host,
                            Rendering
  <2>1. snapshots \subseteq snapshots'
    BY DEF Step, Begins, BeginUp, BeginBackup, BeginAttach, BeginUpgrade, BeginRestore, Begin,
       CheckHealth, Capture, RenderBundle, SaveManifest, PlaceState, StampVersion, StampOwner,
       CheckOwner, ClaimOwner, ConfigureForge, InstallHostKey, CheckVersion, RecordVersion, Converge, WaitForge, Verify, Stop
  <2>2. CommandOf(c)'
    <3>1. CASE Begins(c)
      BY <3>1, BeginsEffect
    <3>4. CASE CheckHealth(c) \/ WaitForge(c) \/ Verify(c) \/ Stop(c)
      BY <3>4 DEF CheckHealth, WaitForge, Verify, Stop, TypeOK
    <3>5. CASE Capture(c)
      BY SMTT(30), <3>5 DEF Capture, TypeOK, CommandRecords
    <3>10. CASE RenderBundle(c)
      BY SMTT(30), <3>10 DEF RenderBundle, TypeOK, CommandRecords
    <3>11. CASE SaveManifest(c)
      BY <3>11 DEF SaveManifest, TypeOK
    <3>6. CASE PlaceState(c) \/ StampVersion(c) \/ StampOwner(c)
      BY <3>6 DEF PlaceState, StampVersion, StampOwner, TypeOK
    <3>7. CASE ClaimOwner(c) \/ ConfigureForge(c) \/ InstallHostKey(c) \/ RecordVersion(c) \/ Converge(c)
      BY <3>7 DEF ClaimOwner, ConfigureForge, InstallHostKey, RecordVersion, Converge, TypeOK
    <3>8. CASE CheckOwner(c)
      <4>1. Restoring(c) => recOwner = cmd[c].inst /\ cmd[c].inst \in Instances
        BY <3>8 DEF CheckOwner, RestoreInv, RestoreOf, Deploying
      <4>2. Restoring(c) => FoundOwner = cmd[c].inst
        BY <4>1, NobodyAssumption DEF FoundOwner
      <4> QED
        BY <3>8, <4>2 DEF CheckOwner, TypeOK
    <3>9. CASE CheckVersion(c)
      <4>1. Restoring(c) => MayStart(c)
        BY <3>9 DEF CheckVersion, RestoreInv, RestoreOf, Deploying, MayStart
      <4> QED
        BY <3>9, <4>1 DEF CheckVersion, TypeOK
    <3> QED
      BY <3>1, <3>4, <3>5, <3>6, <3>7, <3>8, <3>9, <3>10, <3>11 DEF Step
  <2> QED
    BY <1>1, <2>1, <2>2, StepOthers
<1>3. CASE UNCHANGED <<pc, cmd, snapshots>>
  BY <1>1, <1>3 DEF CommandInv
<1> QED
  BY <1>2, <1>3, NextCases DEF Reboot, EditPin, vars

LEMMA ClaimStep ==
  ASSUME TypeOK, Exclusive, Solo, CommandInv, ClaimInv, [Next]_vars
  PROVE  ClaimInv'
<1>1. ASSUME NEW q \in Commands, pc'[q] = pc[q], ~Active(q)
      PROVE  ClaimOf(q)'
  BY <1>1 DEF ClaimOf, Active, Ended, Deploying
<1>2. ASSUME NEW q \in Commands, pc'[q] = pc[q], cmd'[q] = cmd[q],
             gaps \subseteq gaps', UNCHANGED <<recOwner, recVersion, key, config>>
      PROVE  ClaimOf(q)'
  BY <1>2 DEF ClaimInv, ClaimOf, FoundOwner, MayStart, Misrendered
<1>3. ASSUME NEW c \in Commands, Step(c)
      PROVE  ClaimInv'
  <2>1. ClaimOf(c)'
    <3> USE <1>3, Records DEF ClaimInv, ClaimOf, Goto, At, host, Deploying
    <3>1. CASE Begins(c)
      BY <3>1, BeginsEffect
    <3>2. CASE \/ CheckHealth(c) \/ Capture(c) \/ RenderBundle(c) \/ SaveManifest(c)
               \/ WaitForge(c) \/ Verify(c) \/ Stop(c)
      BY <3>2 DEF CheckHealth, Capture, RenderBundle, SaveManifest, WaitForge, Verify, Stop,
         TypeOK, Ended
    <3>3. CASE PlaceState(c) \/ StampVersion(c) \/ StampOwner(c)
      BY <3>3 DEF PlaceState, StampVersion, StampOwner, TypeOK
    <3>4. CASE CheckOwner(c)
      <4>1. pc'[c] \in {"claim", "refused"} /\ cmd' = cmd
        BY <3>4 DEF CheckOwner, TypeOK
      <4>2. pc'[c] = "claim" => FoundOwner' \in {Nobody, cmd[c].inst}
        BY <3>4 DEF CheckOwner, TypeOK, FoundOwner
      <4> QED
        BY <4>1, <4>2
    <3>5. CASE ClaimOwner(c)
      BY <3>5 DEF ClaimOwner, TypeOK
    <3>6. CASE ConfigureForge(c)
      BY <3>6 DEF ConfigureForge, TypeOK
    <3>7. CASE InstallHostKey(c)
      BY <3>7 DEF InstallHostKey, TypeOK
    <3>8. CASE CheckVersion(c)
      <4>1. pc'[c] \in {"record", "refused"} /\ cmd' = cmd /\ pc[c] = "check"
        BY <3>8 DEF CheckVersion, TypeOK
      <4>2. pc'[c] = "record" => MayStart(c)'
        BY <3>8 DEF CheckVersion, TypeOK, MayStart
      <4>3. UNCHANGED <<recOwner, config, cmd>>
        BY <3>8 DEF CheckVersion
      <4> QED
        BY <4>1, <4>2, <4>3
    <3>9. CASE RecordVersion(c)
      <4>1. /\ pc[c] = "record" /\ pc'[c] = "converge" /\ recVersion' = cmd[c].pinned
            /\ UNCHANGED <<recOwner, config, cmd>>
        BY <3>9 DEF RecordVersion, TypeOK
      <4>2. Misrendered(c)' => "misrendered" \in gaps'
        BY <3>9, <4>1 DEF RecordVersion, Misrendered
      <4> QED
        BY <4>1, <4>2
    <3>10. CASE Converge(c)
      BY <3>10 DEF Converge, TypeOK
    <3> QED
      BY <3>1, <3>2, <3>3, <3>4, <3>5, <3>6, <3>7, <3>8, <3>9, <3>10 DEF Step
  <2> QED
    BY <1>1, <1>3, <2>1, StepOthers DEF ClaimInv
<1>4. CASE gaps \subseteq gaps' /\ UNCHANGED <<pc, cmd, recOwner, recVersion, key, config>>
  BY <1>2, <1>4 DEF ClaimInv
<1> QED
  BY <1>3, <1>4, NextCases DEF Reboot, EditPin, vars, host

LEMMA DatabaseStep ==
  ASSUME TypeOK, CommandInv, ClaimInv, DatabaseInv, [Next]_vars
  PROVE  DatabaseInv'
<1>1. CASE Reboot
  BY <1>1, RebootEffect, Numbers DEF DatabaseInv
<1>2. ASSUME NEW c \in Commands, Converge(c)
      PROVE  DatabaseInv'
  BY <1>2, ConvergeEffect, Numbers DEF DatabaseInv
<1>3. ASSUME NEW c \in Commands, PlaceState(c)
      PROVE  DatabaseInv'
  <2>1. cmd[c].snap \in Snapshots
    BY <1>3 DEF CommandInv, CommandOf, PlaceState, At, TypeOK
  <2>2. db'.schema \in Versions /\ db'.owner \in Instances /\ UNCHANGED <<image, running>>
    BY <1>3, <2>1 DEF PlaceState, Snapshots
  <2> QED
    BY <2>2, Numbers DEF DatabaseInv
<1>4. CASE UNCHANGED <<db, image, running>>
  BY <1>4 DEF DatabaseInv
<1>5. ASSUME NEW c \in Commands, Step(c)
      PROVE  Converge(c) \/ PlaceState(c) \/ UNCHANGED <<db, image, running>>
  BY <1>5 DEF Step, Begins, BeginUp, BeginBackup, BeginAttach, BeginUpgrade, BeginRestore, Begin,
     CheckHealth, Capture, RenderBundle, SaveManifest, StampVersion, StampOwner, CheckOwner,
     ClaimOwner, ConfigureForge, InstallHostKey, CheckVersion, RecordVersion, WaitForge, Verify, Stop, host
<1> QED
  BY <1>1, <1>2, <1>3, <1>4, <1>5, NextCases DEF EditPin, vars, host

LEMMA RestoreStep ==
  ASSUME TypeOK, Exclusive, Solo, CommandInv, ClaimInv, RestoreInv, DatabaseInv, [Next]_vars
  PROVE  RestoreInv'
<1>0. \A c \in Commands : Restoring(c) => /\ cmd[c].snap \in Snapshots /\ cmd[c].snap.schema \in Nat
                                          /\ cmd[c].snap.owner = cmd[c].inst
  BY Numbers DEF CommandInv, CommandOf, TypeOK, Snapshots
<1>00. db.schema \in Nat
  BY Numbers DEF TypeOK, Databases
<1>1. ASSUME NEW q \in Commands, pc'[q] = pc[q], cmd'[q] = cmd[q], ~Active(q)
      PROVE  RestoreOf(q)'
  BY <1>1 DEF RestoreOf, Restoring, Active, Ended, Placing, Deploying
<1>2. ASSUME NEW q \in Commands, pc'[q] = pc[q], cmd'[q] = cmd[q],
             UNCHANGED <<db, running, image, recOwner, recVersion>>
      PROVE  RestoreOf(q)'
  BY <1>2 DEF RestoreInv, RestoreOf, Restoring
<1>3. ASSUME NEW c \in Commands, Step(c)
      PROVE  RestoreInv'
  <2>1. RestoreOf(c)'
    <3> USE <1>3, Records DEF RestoreInv, RestoreOf, Restoring, Goto, At, host, Deploying, Placing
    <3>1. CASE Begins(c)
      BY <3>1, BeginsEffect
    <3>2. CASE CheckHealth(c) \/ WaitForge(c) \/ Verify(c) \/ Stop(c)
      BY <3>2 DEF CheckHealth, WaitForge, Verify, Stop, TypeOK, Ended
    <3>8. CASE Capture(c) \/ RenderBundle(c) \/ SaveManifest(c)
      <4>1. ~Restoring(c)
        BY <3>8 DEF Rendering, Capture, RenderBundle, SaveManifest, CommandInv, CommandOf
      <4>2. cmd'[c].kind = cmd[c].kind
        BY <3>8 DEF Capture, RenderBundle, SaveManifest, TypeOK, CommandRecords
      <4> QED
        BY <4>1, <4>2
    <3>3. CASE PlaceState(c)
      <4>1. Restoring(c)
        BY <3>3 DEF PlaceState, CommandInv, CommandOf
      <4>2. db'.owner = cmd[c].inst /\ db'.schema = cmd[c].snap.schema
        BY <3>3, <4>1, <1>0 DEF PlaceState
      <4>3. cmd' = cmd /\ pc'[c] = "stamp-version"
        BY <3>3 DEF PlaceState, TypeOK
      <4> QED
        BY <4>1, <4>2, <4>3, <1>0
    <3>4. CASE StampVersion(c) \/ StampOwner(c)
      BY <3>4 DEF StampVersion, StampOwner, TypeOK, CommandInv, CommandOf
    <3>5. CASE CheckOwner(c) \/ CheckVersion(c)
      BY <3>5 DEF CheckOwner, CheckVersion, TypeOK
    <3>6. CASE ClaimOwner(c) \/ ConfigureForge(c) \/ InstallHostKey(c) \/ RecordVersion(c)
      BY <3>6 DEF ClaimOwner, ConfigureForge, InstallHostKey, RecordVersion, TypeOK
    <3>7. CASE Converge(c)
      <4>1. SUFFICES ASSUME Restoring(c)
                     PROVE  RestoreOf(c)'
        BY <3>7, ConvergeEffect
      <4>2. /\ db.owner = cmd[c].inst /\ cmd[c].snap.schema <= db.schema
            /\ running => db.schema <= cmd[c].snap.schema \/ db.schema <= image
        BY <3>7, <4>1, ConvergeEffect
      <4>3. db.schema # 0 /\ db'.schema \in Nat /\ cmd[c].pinned \in Nat
        <5>1. cmd[c].snap.schema # 0 /\ cmd[c].pinned \in Nat
          BY <4>1, <1>0, <3>7, ConvergeEffect, Numbers DEF Snapshots
        <5> QED
          BY <5>1, <4>1, <4>2, <1>0, <1>00, <3>7, ConvergeEffect
      <4>4. db'.owner = cmd[c].inst /\ cmd[c].snap.schema <= db'.schema
        BY <3>7, <4>2, <4>3, <1>0, <1>00, <4>1, ConvergeEffect
      <4>5. running' => db'.schema <= cmd[c].snap.schema \/ db'.schema <= image'
        <5>1. CASE running' => db'.schema = cmd[c].composed
          <6>1. image' = cmd[c].composed /\ cmd[c].composed \in Nat
            BY <3>7, ConvergeEffect, Numbers
          <6> QED
            BY <4>3, <5>1, <6>1
        <5>2. CASE image = cmd[c].composed /\ running /\ running' = running /\ db' = db
          BY <3>7, <4>2, <5>2, ConvergeEffect
        <5> QED
          BY <3>7, <5>1, <5>2, ConvergeEffect
      <4>6. UNCHANGED <<recOwner, recVersion>>
        BY <3>7 DEF Converge
      <4> QED
        BY <3>7, <4>1, <4>4, <4>5, <4>6, ConvergeEffect
    <3> QED
      BY <3>1, <3>2, <3>3, <3>4, <3>5, <3>6, <3>7, <3>8 DEF Step
  <2> QED
    BY <1>1, <1>3, <2>1, StepOthers DEF RestoreInv
<1>4. CASE Reboot
  <2>1. SUFFICES ASSUME NEW c \in Commands, Restoring(c)
                 PROVE  RestoreOf(c)'
    BY <1>4 DEF RestoreInv, RestoreOf, Restoring, Reboot
  <2>2. image \in Nat /\ db'.schema \in Nat
    BY <1>4, <1>00, RebootEffect, Numbers
  <2>3. cmd[c].snap.schema <= db.schema => cmd[c].snap.schema <= db'.schema
    BY <1>4, <2>1, <1>0, <1>00, <2>2, RebootEffect
  <2>4. running' => db'.schema <= image'
    BY <1>4, <2>2, RebootEffect
  <2>5. UNCHANGED <<pc, cmd, recOwner, recVersion, image>> /\ db'.owner = db.owner
    BY <1>4, RebootEffect DEF Reboot
  <2>6. RestoreOf(c)
    BY DEF RestoreInv
  <2> QED
    BY <2>1, <2>3, <2>4, <2>5, <2>6 DEF RestoreOf, Restoring
<1>5. CASE UNCHANGED <<pc, cmd, db, running, image, recOwner, recVersion>>
  BY <1>2, <1>5 DEF RestoreInv
<1> QED
  BY <1>3, <1>4, <1>5, NextCases DEF EditPin, vars, host

LEMMA OwnerStep ==
  ASSUME TypeOK, Exclusive, Solo, CommandInv, ClaimInv, RestoreInv, DatabaseInv, OwnerInv,
         [Next]_vars
  PROVE  OwnerInv'
<1>1. CASE Reboot
  <2>1. UNCHANGED <<pc, recOwner, key>> /\ gaps \subseteq gaps'
    BY <1>1 DEF Reboot
  <2> QED
    BY <1>1, <2>1, RebootEffect DEF OwnerInv, Kept, FoundOwner
<1>2. ASSUME NEW c \in Commands, Step(c)
      PROVE  OwnerInv'
  <2> USE <1>2, Records DEF OwnerInv, Kept, FoundOwner
  <2>0. ASSUME pc[c] \notin Placing, gaps \subseteq gaps', UNCHANGED <<db, recOwner, key>>
        PROVE  OwnerInv'
    BY <2>0, StepOthers DEF Active
  <2>1. CASE Begins(c)
    <3>1. pc[c] = "idle"
      BY <2>1 DEF Begins, BeginUp, BeginBackup, BeginAttach, BeginUpgrade, BeginRestore, Begin, At
    <3> QED
      BY <2>0, <2>1, <3>1, BeginsEffect DEF host, Placing
  <2>2. CASE \/ CheckHealth(c) \/ Capture(c) \/ RenderBundle(c) \/ SaveManifest(c)
             \/ CheckOwner(c) \/ ConfigureForge(c) \/ CheckVersion(c) \/ RecordVersion(c) \/ WaitForge(c) \/ Verify(c)
    BY <2>0, <2>2 DEF CheckHealth, Capture, RenderBundle, SaveManifest, CheckOwner,
       ConfigureForge, CheckVersion, RecordVersion, WaitForge, Verify, At, Placing, host
  <2>3. CASE PlaceState(c) \/ StampVersion(c)
    <3>1. pc'[c] \in Placing
      BY <2>3 DEF PlaceState, StampVersion, Goto, TypeOK, Placing
    <3> QED
      BY <3>1
  <2>4. CASE StampOwner(c)
    <3>1. recOwner' = cmd[c].inst /\ db' = db /\ cmd[c].inst \in Instances /\ db.owner = cmd[c].inst
      BY <2>4 DEF StampOwner, At, CommandInv, CommandOf, RestoreInv, RestoreOf, Placing, Active, Ended
    <3> QED
      BY <3>1, NobodyAssumption
  <2>5. CASE ClaimOwner(c)
    <3>1. recOwner' = cmd[c].inst /\ db' = db /\ gaps' = gaps /\ cmd[c].inst \in Instances
      BY <2>5 DEF ClaimOwner, At, CommandInv, CommandOf, Active, Ended
    <3>2. FoundOwner \in {Nobody, cmd[c].inst}
      BY <2>5 DEF ClaimOwner, At, ClaimInv, ClaimOf
    <3>3. \A q \in Commands : pc[q] \notin Placing
      BY <2>5, StepOthers DEF ClaimOwner, At, Placing, Active, Ended
    <3> QED
      BY <3>1, <3>2, <3>3, NobodyAssumption DEF DatabaseInv
  <2>6. CASE InstallHostKey(c)
    <3>1. recOwner # Nobody /\ pc[c] \notin Placing /\ UNCHANGED <<db, recOwner, gaps>>
      BY <2>6, NobodyAssumption DEF InstallHostKey, At, ClaimInv, ClaimOf, Deploying, Placing,
         CommandInv, CommandOf, Active, Ended
    <3> QED
      BY <3>1, StepOthers DEF Active
  <2>7. CASE Converge(c)
    <3>1. recOwner' = cmd[c].inst /\ cmd[c].inst \in Instances
      BY <2>7, ConvergeEffect DEF Converge
    <3>2. db'.owner = cmd[c].inst \/ "torn" \in gaps'
      <4>1. CASE Restoring(c)
        BY <2>7, <4>1, ConvergeEffect DEF RestoreInv, RestoreOf, Deploying, DatabaseInv
      <4>2. CASE ~Restoring(c) /\ "torn" \in gaps
        BY <2>7, <4>2 DEF Converge, Closed, Restoring
      <4>3. CASE "torn" \notin gaps
        <5>1. \A q \in Commands : pc[q] \notin Placing
          BY <2>7, StepOthers DEF Converge, At, Placing, Active, Ended
        <5>2. recOwner = cmd[c].inst /\ recOwner # Nobody
          BY <2>7, ConvergeEffect, NobodyAssumption
        <5> QED
          BY <2>7, <4>3, <5>1, <5>2, ConvergeEffect
      <4> QED
        BY <4>1, <4>2, <4>3
    <3> QED
      BY <3>1, <3>2, NobodyAssumption
  <2>8. CASE Stop(c)
    <3>1. pc[c] \in Placing => "torn" \in gaps'
      BY <2>8 DEF Stop, Placed, CommandInv, CommandOf, Restoring
    <3>2. gaps \subseteq gaps' /\ UNCHANGED <<db, recOwner, key>>
      BY <2>8 DEF Stop, host
    <3> QED
      BY <2>0, <3>1, <3>2
  <2> QED
    BY <2>1, <2>2, <2>3, <2>4, <2>5, <2>6, <2>7, <2>8 DEF Step
<1>3. CASE UNCHANGED <<pc, gaps, db, recOwner, key>>
  BY <1>3 DEF OwnerInv, Kept, FoundOwner
<1> QED
  BY <1>1, <1>2, <1>3, NextCases DEF EditPin, vars, host

-----------------------------------------------------------------------------
LEMMA QuietEffect ==
  ASSUME TypeOK, CommandInv, RestoreInv, NEW c \in Commands, Step(c),
         ~Begins(c), ~Capture(c), ~PlaceState(c), ~Converge(c)
  PROVE  /\ UNCHANGED <<db, image, snapshots>> /\ gaps \subseteq gaps'
         /\ cmd'[c].kind = cmd[c].kind /\ cmd'[c].snap = cmd[c].snap
         /\ Placed(c)' => Placed(c)
         /\ Upgrading(c)' => Upgrading(c)
         /\ Placed(c) /\ "torn" \notin gaps' => Placed(c)'
<1> USE Records DEF Goto, At, host, Placed, Upgrading, Placing, Deploying, Ended, Restoring
<1>1. CASE CheckHealth(c) \/ WaitForge(c) \/ Verify(c)
  BY <1>1 DEF CheckHealth, WaitForge, Verify, CommandInv, CommandOf, TypeOK
<1>2. CASE RenderBundle(c) \/ SaveManifest(c)
  <2>1. cmd[c].kind # "restore" /\ pc[c] \in {"render", "save"} /\ pc'[c] \in {"save", "owner"}
    BY <1>2 DEF RenderBundle, SaveManifest, CommandInv, CommandOf, Rendering, TypeOK
  <2>2. cmd'[c].kind = cmd[c].kind /\ cmd'[c].snap = cmd[c].snap
    BY <1>2 DEF RenderBundle, SaveManifest, TypeOK, CommandRecords
  <2>3. UNCHANGED <<db, image, snapshots, gaps>>
    BY <1>2 DEF RenderBundle, SaveManifest
  <2> QED
    BY <2>1, <2>2, <2>3
<1>3. CASE StampVersion(c) \/ StampOwner(c)
  BY <1>3 DEF StampVersion, StampOwner, CommandInv, CommandOf, TypeOK
<1>4. CASE CheckOwner(c)
  <2>1. Restoring(c) => FoundOwner = cmd[c].inst
    BY <1>4, NobodyAssumption DEF CheckOwner, RestoreInv, RestoreOf, FoundOwner, CommandInv, CommandOf, Active
  <2> QED
    BY <1>4, <2>1 DEF CheckOwner, TypeOK
<1>5. CASE ClaimOwner(c) \/ ConfigureForge(c) \/ InstallHostKey(c) \/ RecordVersion(c)
  BY <1>5 DEF ClaimOwner, ConfigureForge, InstallHostKey, RecordVersion, TypeOK
<1>6. CASE CheckVersion(c)
  <2>1. Restoring(c) => MayStart(c)
    BY <1>6 DEF CheckVersion, RestoreInv, RestoreOf, MayStart
  <2> QED
    BY <1>6, <2>1 DEF CheckVersion, TypeOK
<1>7. CASE Stop(c)
  BY <1>7 DEF Stop, TypeOK
<1> QED
  BY <1>1, <1>2, <1>3, <1>4, <1>5, <1>6, <1>7 DEF Step

LEMMA QuietUnplaced ==
  ASSUME TypeOK, Exclusive, Solo, CommandInv, RestoreInv, NEW c \in Commands, Step(c),
         ~PlaceState(c), ~Converge(c), "torn" \notin gaps', Unplaced'
  PROVE  /\ Unplaced /\ gaps \subseteq gaps' /\ UNCHANGED <<db, image>>
         /\ snapshots \subseteq snapshots'
<1>1. \A q \in Commands \ {c} : ~Placed(q)
  BY StepOthers DEF Placed, Active, Ended, Placing, Deploying
<1>2. CASE Begins(c)
  <2>1. ~Placed(c)
    BY <1>2 DEF Begins, BeginUp, BeginBackup, BeginAttach, BeginUpgrade, BeginRestore, Begin, At, Placed,
       Placing, Deploying
  <2> QED
    BY <1>1, <1>2, <2>1, BeginsEffect DEF Unplaced, host
<1>3. CASE Capture(c)
  BY <1>1, <1>3 DEF Capture, At, Unplaced, Placed, Placing, Deploying, host
<1>4. CASE ~Begins(c) /\ ~Capture(c)
  BY <1>1, <1>4, QuietEffect DEF Unplaced
<1> QED
  BY <1>2, <1>3, <1>4

(* What an older snapshot describes stays described. *)
LEMMA SnapshotsKept ==
  ASSUME snapshots \subseteq snapshots'
  PROVE  /\ Describes' => Describes
         /\ Snapped /\ db'.owner = db.owner /\ db'.schema = db.schema => Snapped'
BY DEF Describes, Snapped

LEMMA Schemas ==
  ASSUME TypeOK
  PROVE  db.schema \in Nat /\ image \in Nat /\ recVersion \in Nat /\ db \in Databases
BY Numbers DEF TypeOK, Databases

LEMMA PinnedSchema ==
  ASSUME CommandInv, RestoreInv, Describes, NEW c \in Commands, Converge(c), Restoring(c)
  PROVE  cmd[c].pinned <= db.schema
BY DEF Converge, At, CommandInv, CommandOf, RestoreInv, RestoreOf, Deploying, Describes

LEMMA NotRestoring ==
  ASSUME TypeOK, Exclusive, Solo, NEW c \in Commands, Converge(c), ~Restoring(c)
  PROVE  Unplaced /\ ("torn" \notin gaps' => "torn" \notin gaps)
<1>1. \A q \in Commands \ {c} : ~Placed(q)
  BY StepOthers DEF Step, Placed, Active, Ended, Placing, Deploying
<1> QED
  BY <1>1 DEF Unplaced, Placed, Restoring, Converge, Closed

(* A restart that finds no half-made restore changes nothing. *)
LEMMA RebootKeeps ==
  ASSUME TypeOK, DatabaseInv, ImageInv, Reboot, "torn" \notin gaps', Describes
  PROVE  /\ Unplaced /\ gaps' = gaps /\ db'.schema = db.schema /\ db'.owner = db.owner
         /\ UNCHANGED <<pc, cmd, snapshots, recVersion>>
<1>1. Unplaced /\ gaps' = gaps /\ UNCHANGED <<pc, cmd, snapshots, recVersion>>
  BY DEF Reboot, Unplaced
<1>2. image <= db.schema
  BY <1>1 DEF ImageInv
<1> QED
  BY <1>1, <1>2, RebootEffect, Schemas

LEMMA ImageStep ==
  ASSUME TypeOK, Exclusive, Solo, CommandInv, ClaimInv, RestoreInv, DatabaseInv, ImageInv,
         [Next]_vars
  PROVE  ImageInv'
<1> USE DEF ImageInv
<1>1. CASE Reboot
  BY <1>1, RebootEffect
<1>2. ASSUME NEW c \in Commands, Step(c), "torn" \notin gaps', Describes', Unplaced'
      PROVE  image' <= db'.schema
  <2>1. CASE PlaceState(c)
    <3>1. Placed(c)'
      BY <2>1 DEF PlaceState, At, Goto, CommandInv, CommandOf, Restoring, Placed, Placing, TypeOK
    <3> QED
      BY <1>2, <3>1 DEF Unplaced
  <2>2. CASE Converge(c)
    <3>1. Describes
      BY <1>2, <2>2 DEF Converge, Describes
    <3>2. CASE Restoring(c)
      <4>1. cmd[c].pinned <= db.schema /\ db.schema <= db'.schema /\ image' = cmd[c].pinned
        BY <2>2, <3>1, <3>2, PinnedSchema, ConvergeEffect
      <4>2. cmd[c].pinned \in Nat /\ db.schema \in Nat /\ db'.schema \in Nat
        BY <2>2, ConvergeEffect, Numbers, Schemas
      <4> QED
        BY <4>1, <4>2
    <3>3. CASE ~Restoring(c)
      <4>1. Unplaced /\ "torn" \notin gaps
        BY <1>2, <2>2, <3>3, NotRestoring
      <4> QED
        BY <2>2, <3>1, <4>1, ConvergeEffect
    <3> QED
      BY <3>2, <3>3
  <2>3. CASE ~PlaceState(c) /\ ~Converge(c)
    BY <1>2, <2>3, QuietUnplaced, SnapshotsKept
  <2> QED
    BY <2>1, <2>2, <2>3
<1>3. CASE UNCHANGED <<gaps, snapshots, pc, cmd, image, db>>
  BY <1>3 DEF Describes, Unplaced, Placed
<1> QED
  BY <1>1, <1>2, <1>3, NextCases DEF EditPin, vars, host

LEMMA RecordStep ==
  ASSUME IInv, [Next]_vars
  PROVE  RecordInv'
<1> USE DEF IInv
<1>1. CASE Reboot
  <2>1. SUFFICES ASSUME gaps' = {}, Describes', Unplaced', db'.schema # 0
                 PROVE  recVersion' # 0 /\ (recVersion' <= db'.schema \/ Snapped')
    BY DEF RecordInv
  <2>2. snapshots' = snapshots /\ Describes
    BY <1>1, <2>1 DEF Reboot, Describes
  <2>3. /\ Unplaced /\ gaps = {} /\ db'.schema = db.schema /\ db'.owner = db.owner
        /\ recVersion' = recVersion
    BY <1>1, <2>1, <2>2, RebootKeeps
  <2> QED
    BY <2>1, <2>2, <2>3, SnapshotsKept DEF RecordInv
<1>2. ASSUME NEW c \in Commands, Step(c), gaps' = {}, Describes', Unplaced', db'.schema # 0
      PROVE  recVersion' # 0 /\ (recVersion' <= db'.schema \/ Snapped')
  <2>1. CASE PlaceState(c) \/ StampVersion(c)
    <3>1. Placed(c)'
      BY <2>1 DEF PlaceState, StampVersion, At, Goto, CommandInv, CommandOf, Restoring, Placed,
         Placing, TypeOK
    <3> QED
      BY <1>2, <3>1 DEF Unplaced
  <2>2. CASE Converge(c)
    <3>1. Describes
      BY <1>2, <2>2 DEF Converge, Describes
    <3>2. recVersion' = cmd[c].pinned /\ cmd[c].pinned \in Nat /\ cmd[c].pinned # 0
      BY <2>2, ConvergeEffect, Numbers DEF Converge
    <3>0. cmd[c].composed = cmd[c].pinned
      BY <1>2, <2>2, ConvergeEffect DEF Misrendered
    <3>3. CASE Restoring(c)
      <4>1. cmd[c].pinned <= db.schema /\ db.schema <= db'.schema
        BY <2>2, <3>1, <3>3, PinnedSchema, ConvergeEffect
      <4>2. db.schema \in Nat /\ db'.schema \in Nat
        BY <2>2, <3>0, <3>2, ConvergeEffect, Schemas
      <4> QED
        BY <3>2, <4>1, <4>2
    <3>4. CASE ~Restoring(c)
      <4>1. image <= db.schema
        BY <1>2, <2>2, <3>1, <3>4, NotRestoring DEF ImageInv
      <4> QED
        BY <2>2, <3>0, <3>2, <4>1, ConvergeEffect
    <3> QED
      BY <3>3, <3>4
  <2>3. CASE ~PlaceState(c) /\ ~Converge(c) /\ ~StampVersion(c)
    <3>1. Unplaced /\ gaps = {} /\ UNCHANGED <<db, image>> /\ snapshots \subseteq snapshots' /\ Describes
      BY <1>2, <2>3, QuietUnplaced, SnapshotsKept
    <3>2. recVersion # 0 /\ (recVersion <= db.schema \/ Snapped)
      BY <1>2, <3>1 DEF RecordInv
    <3>3. CASE RecordVersion(c)
      <4>1. /\ recVersion' = cmd[c].pinned /\ cmd[c].pinned # 0
            /\ cmd[c].kind = "upgrade" \/ recVersion \in {0, cmd[c].pinned}
        BY <3>3, Numbers DEF RecordVersion, At, ClaimInv, ClaimOf, MayStart, CommandInv, CommandOf,
           Active, Ended
      <4>2. CASE cmd[c].kind = "upgrade"
        <5>1. Upgrading(c)
          BY <3>3, <4>2 DEF RecordVersion, At, Upgrading, Deploying
        <5> QED
          BY <3>1, <4>1, <5>1, SnapshotsKept DEF VersionInv, VersionOf
      <4>3. CASE recVersion \in {0, cmd[c].pinned}
        BY <3>1, <3>2, <4>1, <4>3, SnapshotsKept
      <4> QED
        BY <4>1, <4>2, <4>3
    <3>4. CASE ~RecordVersion(c)
      <4>1. recVersion' = recVersion
        BY <1>2, <2>3, <3>4, BeginsEffect DEF Step, CheckHealth, Capture, RenderBundle,
           SaveManifest, StampOwner, CheckOwner, ClaimOwner, ConfigureForge, InstallHostKey, CheckVersion, WaitForge, Verify, Stop, host
      <4> QED
        BY <3>1, <3>2, <4>1, SnapshotsKept
    <3> QED
      BY <3>3, <3>4
  <2> QED
    BY <2>1, <2>2, <2>3
<1>3. CASE UNCHANGED <<gaps, snapshots, pc, cmd, recVersion, db>>
  BY <1>3 DEF RecordInv, Describes, Unplaced, Placed, Snapped
<1> QED
  BY <1>1, <1>2, <1>3, NextCases DEF RecordInv, EditPin, vars, host

LEMMA VersionStep ==
  ASSUME IInv, [Next]_vars
  PROVE  VersionInv'
<1> USE DEF IInv
<1>1. CASE Reboot
  <2>1. SUFFICES ASSUME gaps' = {}, Describes', NEW q \in Commands
                 PROVE  VersionOf(q)'
    BY DEF VersionInv
  <2>2. snapshots' = snapshots /\ Describes
    BY <1>1, <2>1 DEF Reboot, Describes
  <2>3. /\ gaps = {} /\ db'.schema = db.schema /\ db'.owner = db.owner /\ UNCHANGED <<pc, cmd>>
    BY <1>1, <2>1, <2>2, RebootKeeps
  <2> QED
    BY <2>2, <2>3, SnapshotsKept DEF VersionInv, VersionOf, Placed, Upgrading
<1>2. ASSUME NEW c \in Commands, Step(c), gaps' = {}, Describes'
      PROVE  \A q \in Commands : VersionOf(q)'
  <2>1. \A q \in Commands \ {c} : VersionOf(q)'
    BY <1>2, StepOthers DEF VersionOf, Placed, Upgrading, Active, Ended, Placing, Deploying
  <2>2. CASE Begins(c)
    <3>1. ~Placed(c)' /\ ~Upgrading(c)'
      BY <2>2, BeginsEffect DEF Placed, Upgrading, Placing, Deploying
    <3> QED
      BY <2>1, <3>1 DEF VersionOf
  <2>3. CASE Capture(c)
    <3>1. cmd'[c].kind = cmd[c].kind /\ pc'[c] \in {"render", "succeeded"} /\ ~Restoring(c) /\ db' = db
      BY <2>3, Records DEF Capture, At, Goto, TypeOK, CommandRecords, CommandInv, CommandOf, host
    <3>2. Snapped'
      <4> DEFINE s == [version |-> cmd[c].pinned, owner |-> db.owner, schema |-> db.schema]
      <4>1. s \in snapshots' /\ s.owner = db'.owner /\ s.schema = db'.schema
        BY <2>3, <3>1 DEF Capture
      <4> QED
        BY <4>1 DEF Snapped
    <3> QED
      BY <2>1, <3>1, <3>2 DEF VersionOf, Placed, Restoring
  <2>4. CASE PlaceState(c)
    <3>1. pc'[c] = "stamp-version" /\ cmd' = cmd /\ db'.schema = cmd[c].snap.schema
      BY <2>4 DEF PlaceState, Goto, TypeOK
    <3> QED
      BY <2>1, <3>1 DEF VersionOf, Upgrading, Deploying
  <2>5. CASE Converge(c)
    BY <2>1, <2>5, ConvergeEffect DEF VersionOf, Placed, Upgrading, Placing, Deploying
  <2>6. CASE ~Begins(c) /\ ~Capture(c) /\ ~PlaceState(c) /\ ~Converge(c)
    <3>1. /\ UNCHANGED <<db, snapshots>> /\ gaps = {} /\ Describes
          /\ cmd'[c].snap = cmd[c].snap
          /\ Placed(c)' => Placed(c)
          /\ Upgrading(c)' => Upgrading(c)
      BY <1>2, <2>6, QuietEffect DEF Describes
    <3>2. VersionOf(c)
      BY <3>1 DEF VersionInv
    <3>3. Snapped => Snapped'
      BY <3>1 DEF Snapped
    <3>4. Placed(c)' => db'.schema = cmd'[c].snap.schema
      BY <3>1, <3>2 DEF VersionOf
    <3>5. Upgrading(c)' => Snapped'
      BY <3>1, <3>2, <3>3 DEF VersionOf
    <3> QED
      BY <2>1, <3>4, <3>5 DEF VersionOf
  <2> QED
    BY <2>2, <2>3, <2>4, <2>5, <2>6
<1>3. CASE UNCHANGED <<gaps, snapshots, pc, cmd, db>>
  BY <1>3 DEF VersionInv, VersionOf, Describes, Placed, Upgrading, Snapped
<1> QED
  BY <1>1, <1>2, <1>3, NextCases DEF VersionInv, EditPin, vars, host

-----------------------------------------------------------------------------
LEMMA InitIInv == Exclusive /\ Init => IInv
<1> SUFFICES ASSUME Exclusive, Init PROVE IInv
  OBVIOUS
<1>1. \A c \in Commands : pc[c] = "idle" /\ cmd[c] = NoCommand
  BY DEF Init
<1>0. \A i \in Instances : pin[i] \in Versions
  BY DEF Init
<1>2. \/ db.schema = 0 /\ db.owner = Nobody /\ image = 0 /\ ~running
      \/ /\ db.schema \in Versions /\ db.owner \in Instances /\ db.schema = image /\ key = db.owner
         /\ gaps = {"unversioned"}
  <2>1. CASE db = NoDatabase /\ image = 0 /\ running = FALSE
    BY <2>1 DEF NoDatabase
  <2>2. CASE \E i \in Instances :
               /\ db = [owner |-> i, schema |-> pin[i]]
               /\ key = i /\ config = i /\ image = pin[i] /\ running = TRUE
               /\ gaps = {"unversioned"}
    BY <2>2, <1>0
  <2> QED
    BY <2>1, <2>2 DEF Init
<1>3. snapshots \subseteq Snapshots /\ recOwner = Nobody /\ recVersion = 0
  BY DEF Init
<1>4. TypeOK
  <2>1. NoCommand \in CommandRecords
    BY DEF NoCommand, CommandRecords, Kinds
  <2>2. db \in Databases /\ image \in Versions \union {0} /\ running \in BOOLEAN /\ gaps \subseteq Gaps
    <3>1. CASE db = NoDatabase /\ image = 0 /\ running = FALSE /\ gaps = {}
      BY <3>1 DEF NoDatabase, Databases, Gaps
    <3>2. CASE \E i \in Instances :
                 /\ db = [owner |-> i, schema |-> pin[i]]
                 /\ key = i /\ config = i /\ image = pin[i] /\ running = TRUE
                 /\ gaps = {"unversioned"}
      BY <3>2, <1>0 DEF Databases, Gaps
    <3> QED
      BY <3>1, <3>2 DEF Init
  <2>3. key \in Instances \union {Nobody} /\ config \in Instances \union {Nobody}
    BY DEF Init
  <2> QED
    BY <1>3, <2>1, <2>2, <2>3 DEF Init, TypeOK, Phases
<1>5. Solo /\ ClaimInv
  BY <1>1 DEF Solo, ClaimInv, ClaimOf, Active, Deploying
<1>6. CommandInv /\ RestoreInv
  BY <1>1 DEF CommandInv, CommandOf, RestoreInv, RestoreOf, Restoring, Rendering, NoCommand, Active,
     Placing
<1>7. DatabaseInv
  BY <1>2, Numbers DEF DatabaseInv
<1>8. OwnerInv
  BY <1>2, <1>3 DEF OwnerInv, FoundOwner
<1>9. ImageInv /\ RecordInv
  BY <1>2, Schemas, <1>4 DEF ImageInv, RecordInv
<1>10. VersionInv
  BY <1>1 DEF VersionInv, VersionOf, Placed, Upgrading, Placing, Deploying
<1> QED
  BY <1>4, <1>5, <1>6, <1>7, <1>8, <1>9, <1>10 DEF IInv

LEMMA StepIInv == IInv /\ [Next]_vars => IInv'
BY SoloStep, TypeStep, CommandStep, ClaimStep, RestoreStep, DatabaseStep, OwnerStep, ImageStep,
   RecordStep, VersionStep DEF IInv

LEMMA IInvCorrect == Exclusive /\ Spec => []IInv
BY InitIInv, StepIInv, PTL DEF Spec

(* Every variable keeps its type. *)
THEOREM TypeCorrect == Exclusive /\ Spec => []TypeOK
BY IInvCorrect, PTL DEF IInv

(* restore.placeState stamps the two records beside the database, so that  *)
(* the checks of the deploy it ends in pass, whatever the directory held.  *)
THEOREM RestoreGoesThrough == Exclusive /\ Spec => []RestoreNeverRefused
<1>1. IInv => RestoreNeverRefused
  BY DEF IInv, CommandInv, CommandOf, Restoring, RestoreNeverRefused, At
<1> QED
  BY <1>1, IInvCorrect, PTL

(* UP-008: the owner record or the installed host key keeps one instance   *)
(* off the database of another.                                            *)
THEOREM OwnDatabaseDeployed == Exclusive /\ Spec => DeploysOwnDatabase
<1>1. ASSUME IInv, "torn" \notin gaps, NEW c \in Commands, Converge(c)
      PROVE  db'.owner = config
  <2> USE DEF IInv
  <2>1. \A q \in Commands \ {c} : pc[q] \notin Placing
    BY <1>1, StepOthers DEF Step, Placing, Active, Ended
  <2>2. pc[c] \notin Placing /\ FoundOwner = cmd[c].inst /\ config = cmd[c].inst
    BY <1>1, ConvergeEffect, NobodyAssumption DEF Placing, FoundOwner
  <2> QED
    BY <1>1, <2>1, <2>2, ConvergeEffect DEF OwnerInv, Kept
<1>2. IInv /\ [Next]_vars => ["torn" \notin gaps => \A c \in Commands : Converge(c) => db'.owner = config]_vars
  BY <1>1
<1> QED
  BY <1>2, IInvCorrect, PTL DEF Spec, DeploysOwnDatabase

(* UPGR-001: the one command that may change a recorded version has taken  *)
(* a snapshot first; an image newer than the database is started by no     *)
(* other command and by no restart.                                        *)
THEOREM SnapshotBeforeMigration == Exclusive /\ Spec => MigrationHasPriorSnapshot
<1>1. ASSUME IInv, gaps = {}, Describes, Reboot, db.schema # db'.schema
      PROVE  Snapped
  <2> USE DEF IInv
  <2>1. CASE Unplaced
    <3>1. image <= db.schema
      BY <1>1, <2>1 DEF ImageInv
    <3> QED
      BY <1>1, <3>1, RebootEffect, Schemas
  <2>2. CASE ~Unplaced
    <3>1. PICK c \in Commands : Placed(c)
      BY <2>2 DEF Unplaced
    <3>2. Restoring(c) /\ pc[c] \in Placing \union Deploying
      BY <3>1 DEF Placed, Restoring
    <3>3. db.schema = cmd[c].snap.schema
      BY <1>1, <3>1 DEF VersionInv, VersionOf
    <3>4. CommandOf(c) /\ RestoreOf(c)
      BY <1>1 DEF CommandInv, RestoreInv
    <3>5. cmd[c].snap \in snapshots /\ cmd[c].snap.owner = db.owner
      BY <3>2, <3>4 DEF CommandOf, RestoreOf
    <3> QED
      BY <3>3, <3>5 DEF Snapped
  <2> QED
    BY <2>1, <2>2
<1>2. ASSUME IInv, gaps = {}, Describes, NEW c \in Commands, Converge(c), db.schema \notin {0, db'.schema}
      PROVE  Snapped
  <2> USE DEF IInv
  <2>1. CASE Restoring(c)
    <3>1. Placed(c)
      BY <1>2, <2>1 DEF Converge, At, Restoring, Placed, Deploying
    <3>2. db.schema = cmd[c].snap.schema
      BY <1>2, <3>1 DEF VersionInv, VersionOf
    <3> QED
      BY <1>2, <2>1, <3>2, ConvergeEffect DEF CommandInv, CommandOf, RestoreInv, RestoreOf, Snapped, Deploying
  <2>2. CASE ~Restoring(c)
    <3>1. recVersion <= db.schema \/ Snapped
      BY <1>2, <2>2, NotRestoring DEF RecordInv
    <3>2. recVersion = cmd[c].pinned /\ db.schema <= db'.schema /\ db'.schema \in {db.schema, cmd[c].pinned}
      BY <1>2, ConvergeEffect DEF Misrendered
    <3> QED
      BY <1>2, <3>1, <3>2, Schemas
  <2> QED
    BY <2>1, <2>2
<1>3. IInv /\ [Next]_vars => [gaps = {} /\ Describes /\ Migrates => Snapped]_vars
  BY <1>1, <1>2 DEF Migrates
<1> QED
  BY <1>3, IInvCorrect, PTL DEF Spec, MigrationHasPriorSnapshot

(* RSTR-002: what a restore that succeeds leaves is what its snapshot      *)
(* recorded.                                                               *)
THEOREM SnapshotReturned == Exclusive /\ Spec => RestoreReturnsSnapshot
<1> DEFINE Returned(c) ==
      LET s == cmd[c].snap IN
      cmd[c].kind = "restore" /\ s.version = s.schema /\ WaitForge(c) =>
        /\ db = [owner |-> s.owner, schema |-> s.schema]
        /\ image = s.version /\ recVersion = s.version
        /\ config = s.owner /\ recOwner = s.owner
<1>1. ASSUME IInv, NEW c \in Commands
      PROVE  Returned(c)
  <2> USE DEF IInv
  <2>1. SUFFICES ASSUME cmd[c].kind = "restore", cmd[c].snap.version = cmd[c].snap.schema,
                        pc[c] = "wait", running
                 PROVE  /\ db = [owner |-> cmd[c].snap.owner, schema |-> cmd[c].snap.schema]
                        /\ image = cmd[c].snap.version /\ recVersion = cmd[c].snap.version
                        /\ config = cmd[c].snap.owner /\ recOwner = cmd[c].snap.owner
    BY DEF WaitForge, At
  <2>2. CommandOf(c) /\ ClaimOf(c) /\ RestoreOf(c)
    BY <1>1 DEF CommandInv, ClaimInv, RestoreInv
  <2>3. /\ db.owner = cmd[c].snap.owner /\ image = cmd[c].snap.version /\ recVersion = cmd[c].snap.version
        /\ config = cmd[c].snap.owner /\ recOwner = cmd[c].snap.owner
        /\ cmd[c].snap.schema <= db.schema
        /\ db.schema <= cmd[c].snap.schema \/ db.schema <= image
    BY <2>1, <2>2 DEF CommandOf, ClaimOf, RestoreOf, Restoring, Deploying
  <2>4. image \in Nat /\ db.schema \in Nat /\ db \in Databases
    BY <1>1, Schemas
  <2>5. db.schema = cmd[c].snap.schema
    BY <2>1, <2>3, <2>4
  <2>6. db = [owner |-> cmd[c].snap.owner, schema |-> cmd[c].snap.schema]
    BY <2>3, <2>4, <2>5 DEF Databases
  <2> QED
    BY <2>3, <2>6
<1>2. IInv /\ [Next]_vars => [\A c \in Commands : Returned(c)]_vars
  BY <1>1
<1> QED
  BY <1>2, IInvCorrect, PTL DEF Spec, RestoreReturnsSnapshot
=============================================================================
