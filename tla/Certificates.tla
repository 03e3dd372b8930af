---------------------------- MODULE Certificates ----------------------------
(***************************************************************************)
(* The TLS certificate of one bundle and its private key, on their way     *)
(* from the ACME server to the Caddy containers that serve them.  The two  *)
(* halves live in the keystore, in snapshots, in files of each host and in *)
(* each Caddy container, and every copy is made one half at a time:        *)
(* configureTLS and persistRenewedCertificate (deploy/tls.go), installKeys *)
(* (restore/keys.go) and captureKeys (backup/capture.go).  A half is known *)
(* by the serial of the issuance it came from; serials fall due in the     *)
(* order they were issued.                                                 *)
(*                                                                         *)
(* Caddy's certificate files are bind mounts of single files, replaced by  *)
(* rename (Client.WriteFile): a container keeps the files it was started   *)
(* with.  docker compose recreates it when its definition changed, and the *)
(* certificate is no part of that.                                         *)
(*                                                                         *)
(* One deploying command at a time, with backups beside it, each any       *)
(* number of times.  Bounds: MaxSerial issuances, MaxPairs pairs.          *)
(***************************************************************************)
EXTENDS Integers, FiniteSets

CONSTANTS
  Hosts,       \* deployment directories of the bundle: production, a standby
  Commands,    \* command invocations at one time
  MaxSerial,   \* bound on issuances
  MaxPairs,    \* bound on the different pairs snapshots hold
  Nowhere      \* no host: where a backup deploys

ASSUME BoundsAssumption == MaxSerial \in Nat \ {0} /\ MaxPairs \in Nat
ASSUME NowhereAssumption == Nowhere \notin Hosts

VARIABLES
  issued,      \* the last serial issued
  aged,        \* serials up to this one are past two thirds of their lifetime
  keystore,    \* the target of the bundle
  snapshots,   \* the pairs held by snapshots
  shipped,     \* per host, the files Caddy's mounts name
  mounted,     \* per host, the files its Caddy container was started with
  pc, cmd,     \* the commands
  \* history
  cut,         \* certificates a stop or a race may have parted from their key
  forgotten    \* serials no keystore was left holding

copies == <<keystore, snapshots, shipped, mounted>>
vars == <<issued, aged, copies, pc, cmd, cut, forgotten>>

Halves == {"cert", "key"}

Absent == 0

(* os.WriteFile truncates before it writes: a key file left empty is       *)
(* neither there nor absent to Resolve.                                    *)
Empty == -1

Serials == 1 .. MaxSerial

Pair(n) == [h \in Halves |-> n]

Whole(pair) == pair["cert"] = pair["key"]

Kinds == {"up", "backup", "restore"}

Phases == {"idle", "capture", "snapshot", "install", "store-install", "resolve",
           "renew", "store", "ship", "converge", "wait"}

Active(c) == pc[c] # "idle"

(* half is the half the command copies next, pair what it holds in memory. *)
NoCommand == [kind |-> "backup", host |-> Nowhere, half |-> "cert",
              pair |-> Pair(Absent), snap |-> Pair(Absent)]

(* init has issued a first pair and stored it; nothing is deployed. *)
Init ==
  /\ issued = 1 /\ aged = 0
  /\ keystore = Pair(1)
  /\ snapshots = {}
  /\ shipped = [h \in Hosts |-> Pair(Absent)]
  /\ mounted = [h \in Hosts |-> Pair(Absent)]
  /\ pc = [c \in Commands |-> "idle"]
  /\ cmd = [c \in Commands |-> NoCommand]
  /\ cut = {} /\ forgotten = {}

-----------------------------------------------------------------------------
Age ==
  /\ aged < issued
  /\ aged' = aged + 1
  /\ UNCHANGED <<issued, copies, pc, cmd, cut, forgotten>>

Deploying == \E c \in Commands : Active(c) /\ cmd[c].kind # "backup"

(* The operator loses the keystore, what a restore installs keys for; not  *)
(* under a command that is using it.                                       *)
LoseKeystore ==
  /\ ~Deploying
  /\ keystore' = Pair(Absent)
  /\ forgotten' = 1 .. issued
  /\ UNCHANGED <<issued, aged, snapshots, shipped, mounted, pc, cmd, cut>>

(* A command is between the two halves of what it copies to h. *)
HalfShipped(h) ==
  \E c \in Commands : pc[c] = "ship" /\ cmd[c].host = h /\ cmd[c].half = "key"

(* A container restart resolves the mounts again. *)
CaddyRestart(h) ==
  /\ mounted[h] # Pair(Absent)
  /\ mounted' = [mounted EXCEPT ![h] = shipped[h]]
  /\ cut' = IF HalfShipped(h) THEN cut \union {shipped[h]["cert"]} ELSE cut
  /\ UNCHANGED <<issued, aged, keystore, snapshots, shipped, pc, cmd, forgotten>>

-----------------------------------------------------------------------------
At(c, phase) == pc[c] = phase

Goto(c, phase) == pc' = [pc EXCEPT ![c] = phase]

(* The command is done with one half: the other half in the same way, or,  *)
(* after the key, on to the next phase.                                    *)
OtherHalf(c, phase, next) ==
  Goto(c, IF cmd[c].half = "cert" THEN phase ELSE next)

(* A command ends, its memory goes with it, and it may be run again. *)
End(c) ==
  /\ Goto(c, "idle")
  /\ cmd' = [cmd EXCEPT ![c] = NoCommand]

Turned(c) == IF cmd[c].half = "cert" THEN "key" ELSE "cert"

Begin(c, command, first) ==
  /\ At(c, "idle")
  /\ cmd' = [cmd EXCEPT ![c] = command]
  /\ Goto(c, first)
  /\ UNCHANGED <<issued, aged, copies, cut, forgotten>>

BeginBackup(c) == Begin(c, NoCommand, "capture")

BeginUp(c, h) ==
  /\ ~Deploying
  /\ Begin(c, [NoCommand EXCEPT !.kind = "up", !.host = h], "resolve")

BeginRestore(c, h, s) ==
  /\ ~Deploying
  /\ Begin(c, [NoCommand EXCEPT !.kind = "restore", !.host = h, !.snap = s], "install")

-----------------------------------------------------------------------------
(* Resolve fails on a key that is absent or empty. *)
Resolved(half) == keystore[half] \in Serials

(* The command takes a half from the keystore into memory. *)
Read(c) ==
  cmd' = [cmd EXCEPT ![c].pair[cmd[c].half] = keystore[cmd[c].half],
                     ![c].half = Turned(c)]

(* Certificates a renewal has stored and not their keys. *)
HalfStored ==
  {cmd[q].pair["cert"] : q \in {q \in Commands : At(q, "store") /\ cmd[q].half = "key"}}

(* backup: captureKeys resolves one name after the other. *)
Capture(c) ==
  /\ At(c, "capture")
  /\ Resolved(cmd[c].half)
  /\ Read(c)
  /\ OtherHalf(c, "capture", "snapshot")
  /\ cut' = cut \union HalfStored
  /\ UNCHANGED <<issued, aged, copies, forgotten>>

TakeSnapshot(c) ==
  /\ At(c, "snapshot")
  /\ snapshots' = snapshots \union {cmd[c].pair}
  /\ Cardinality(snapshots') <= MaxPairs
  /\ End(c)
  /\ UNCHANGED <<issued, aged, keystore, shipped, mounted, cut, forgotten>>

(* Certificates a backup has read, their keys not yet. *)
Straddling ==
  {cmd[b].pair["cert"] : b \in {b \in Commands : At(b, "capture") /\ cmd[b].half = "key"}}

(* A store replaces the half, under the feet of a backup that straddles it. *)
Stored(half, n) ==
  /\ keystore' = [keystore EXCEPT ![half] = n]
  /\ cut' = cut \union Straddling

(* restore: installOneKey leaves a name that holds what the snapshot has,  *)
(* fills one that is absent, and refuses any other.                        *)
InstallMutant(c) ==
  LET half == cmd[c].half IN
  /\ At(c, "install")
  /\ IF keystore[half] # Absent
     THEN /\ cmd' = [cmd EXCEPT ![c].half = Turned(c)]
          /\ OtherHalf(c, "install", "resolve")
     ELSE /\ Goto(c, "store-install")
          /\ UNCHANGED cmd
  /\ UNCHANGED <<issued, aged, copies, cut, forgotten>>

Install(c) ==
  LET half == cmd[c].half IN
  /\ At(c, "install")
  /\ \/ /\ keystore[half] = cmd[c].snap[half]
        /\ cmd' = [cmd EXCEPT ![c].half = Turned(c)]
        /\ OtherHalf(c, "install", "resolve")
     \/ /\ keystore[half] = Absent
        /\ Goto(c, "store-install")
        /\ UNCHANGED cmd
     \/ /\ keystore[half] \notin {cmd[c].snap[half], Absent}
        /\ End(c)
  /\ UNCHANGED <<issued, aged, copies, cut, forgotten>>

StoreInstalled(c) ==
  /\ At(c, "store-install")
  /\ Stored(cmd[c].half, cmd[c].snap[cmd[c].half])
  /\ cmd' = [cmd EXCEPT ![c].half = Turned(c)]
  /\ OtherHalf(c, "install", "resolve")
  /\ UNCHANGED <<issued, aged, snapshots, shipped, mounted, forgotten>>

-----------------------------------------------------------------------------
(* configureTLS, in deploy.Up: resolvePersistedCertificate. *)
ResolvePersisted(c) ==
  /\ At(c, "resolve")
  /\ Resolved(cmd[c].half)
  /\ Read(c)
  /\ OtherHalf(c, "resolve", "renew")
  /\ UNCHANGED <<issued, aged, copies, cut, forgotten>>

(* NeedsRenewal reads the certificate's dates; that the key is the         *)
(* certificate's own is not looked at.                                     *)
NeedsRenewal(pair) == pair["cert"] <= aged

(* EnsureValid. *)
Reuse(c) ==
  /\ At(c, "renew")
  /\ ~NeedsRenewal(cmd[c].pair)
  /\ Goto(c, "ship")
  /\ UNCHANGED <<issued, aged, copies, cmd, cut, forgotten>>

Issue(c) ==
  /\ At(c, "renew")
  /\ NeedsRenewal(cmd[c].pair)
  /\ issued < MaxSerial
  /\ issued' = issued + 1
  /\ cmd' = [cmd EXCEPT ![c].pair = Pair(issued + 1)]
  /\ Goto(c, "store")
  /\ UNCHANGED <<aged, copies, cut, forgotten>>

StoreRenewedMutant(c) ==
  /\ At(c, "store")
  /\ cmd' = [cmd EXCEPT ![c].half = Turned(c)]
  /\ OtherHalf(c, "store", "ship")
  /\ UNCHANGED <<issued, aged, copies, cut, forgotten>>

(* persistRenewedCertificate: the rotation guard lets the two TLS names be *)
(* overwritten.                                                            *)
StoreRenewed(c) ==
  /\ At(c, "store")
  /\ Stored(cmd[c].half, cmd[c].pair[cmd[c].half])
  /\ cmd' = [cmd EXCEPT ![c].half = Turned(c)]
  /\ OtherHalf(c, "store", "ship")
  /\ UNCHANGED <<issued, aged, snapshots, shipped, mounted, forgotten>>

ShipMutant(c) ==
  LET h == cmd[c].host IN
  /\ At(c, "ship")
  /\ shipped' = [shipped EXCEPT ![h][cmd[c].half] = IF @ = Absent THEN cmd[c].pair[cmd[c].half] ELSE @]
  /\ cmd' = [cmd EXCEPT ![c].half = Turned(c)]
  /\ OtherHalf(c, "ship", "converge")
  /\ UNCHANGED <<issued, aged, keystore, snapshots, mounted, cut, forgotten>>

Ship(c) ==
  LET h == cmd[c].host IN
  /\ At(c, "ship")
  /\ shipped' = [shipped EXCEPT ![h][cmd[c].half] = cmd[c].pair[cmd[c].half]]
  /\ cmd' = [cmd EXCEPT ![c].half = Turned(c)]
  /\ OtherHalf(c, "ship", "converge")
  /\ UNCHANGED <<issued, aged, keystore, snapshots, mounted, cut, forgotten>>

(* A container whose definition is unchanged is left as it is; a change of *)
(* its image, ports or network recreates it.                               *)
Converge(c) ==
  LET h == cmd[c].host IN
  /\ At(c, "converge")
  /\ mounted' \in {[mounted EXCEPT ![h] = shipped[h]]}
                    \union (IF mounted[h] = Pair(Absent) THEN {} ELSE {mounted})
  /\ Goto(c, "wait")
  /\ UNCHANGED <<issued, aged, keystore, snapshots, shipped, cmd, cut, forgotten>>

(* waitCaddy needs a Caddy that runs: on halves that do not match it exits. *)
WaitCaddy(c) ==
  /\ At(c, "wait")
  /\ Whole(mounted[cmd[c].host])
  /\ End(c)
  /\ UNCHANGED <<issued, aged, copies, cut, forgotten>>

-----------------------------------------------------------------------------
(* Between the halves of a renewal it stores, or of a pair it ships. *)
Parting(c) == pc[c] \in {"store", "ship"} /\ cmd[c].half = "key"

(* Any step may fail or be the command's last: a store may leave its file  *)
(* empty, an issued certificate or its key may reach no keystore.          *)
Stop(c) ==
  /\ Active(c)
  /\ End(c)
  /\ \/ UNCHANGED keystore
     \/ /\ pc[c] \in {"store", "store-install"}
        /\ keystore' = [keystore EXCEPT ![cmd[c].half] = Empty]
  /\ cut' = cut \union (IF Parting(c) THEN {cmd[c].pair["cert"]} ELSE {})
                \union (IF keystore' # keystore THEN Straddling ELSE {})
  /\ forgotten' = IF At(c, "store") /\ cmd[c].half = "cert" THEN forgotten \union {cmd[c].pair["cert"]} ELSE forgotten
  /\ UNCHANGED <<issued, aged, snapshots, shipped, mounted>>

-----------------------------------------------------------------------------
Next ==
  \/ Age \/ LoseKeystore
  \/ \E h \in Hosts : CaddyRestart(h)
  \/ \E c \in Commands :
       \/ BeginBackup(c) \/ Capture(c) \/ TakeSnapshot(c)
       \/ \E h \in Hosts :
            BeginUp(c, h) \/ \E s \in snapshots : BeginRestore(c, h, s)
       \/ Install(c) \/ StoreInstalled(c)
       \/ ResolvePersisted(c) \/ Reuse(c) \/ Issue(c) \/ StoreRenewed(c)
       \/ Ship(c) \/ Converge(c) \/ WaitCaddy(c) \/ Stop(c)

Spec == Init /\ [][Next]_vars

-----------------------------------------------------------------------------
Held == [Halves -> Serials \union {Absent, Empty}]

CommandRecords ==
  [kind : Kinds, host : Hosts \union {Nowhere}, half : Halves, pair : Held, snap : Held]

(* Type correctness of every variable. *)
TypeOK ==
  /\ issued \in Serials /\ aged \in 0 .. issued
  /\ keystore \in Held
  /\ snapshots \subseteq [Halves -> Serials]
  /\ shipped \in [Hosts -> [Halves -> Serials \union {Absent}]]
  /\ mounted \in [Hosts -> [Halves -> Serials \union {Absent}]]
  /\ pc \in [Commands -> Phases]
  /\ cmd \in [Commands -> CommandRecords]
  /\ cut \subseteq Serials /\ forgotten \subseteq Serials

(* A certificate and the key beside it come from one issuance, in the      *)
(* keystore, in every snapshot, among a host's files and in its Caddy,     *)
(* whatever was stopped, lost, restored or retried: but for a pair that    *)
(* a stop, a restart or a backup caught between its halves.                *)
Matching(pair) ==
  \/ Whole(pair) \/ \E h \in Halves : pair[h] \notin Serials
  \/ pair["cert"] \in cut

PairsKeptTogether ==
  /\ (\A c \in Commands : ~Parting(c)) =>
       Matching(keystore) /\ \A h \in Hosts : Matching(shipped[h])
  /\ \A s \in snapshots : Matching(s)
  /\ \A h \in Hosts : Matching(mounted[h])

(* The certificate a deploy puts on a host is the one the keystore holds   *)
(* (persistRenewedCertificate: it is not to "serve this one deploy and     *)
(* then be forgotten"), whichever step of an earlier command failed.       *)
ShippedIsKept ==
  [][\A c \in Commands : Converge(c) => shipped[cmd[c].host] = keystore]_vars

(* A certificate is asked of the ACME server, which limits their number,   *)
(* only when every one issued before is due, or was lost with a keystore   *)
(* or with the command that could not store it.                            *)
RenewalsNotRepeated ==
  [][\A c \in Commands : Issue(c) => 1 .. issued \subseteq (1 .. aged) \union forgotten]_vars

(* Stated by deploy/tls.go, persistRenewedCertificate: a renewal "actually *)
(* takes effect", the fresh certificate serves the deploy that renewed it. *)
RenewedIsServed ==
  [][\A c \in Commands :
       WaitCaddy(c) /\ cmd[c].kind = "up" =>
         mounted[cmd[c].host] = cmd[c].pair]_vars
=============================================================================
