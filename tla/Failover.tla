------------------------------ MODULE Failover ------------------------------
(***************************************************************************)
(* Backups into one destination, and `promote`: show the newest snapshot,  *)
(* fetch and verify it, install its keys, reconcile its CI, place it on a  *)
(* fresh host, deploy, and flip the bundle's DNS record (promote/          *)
(* promote.go, restore/restore.go, backup/destination.go, dns/).           *)
(*                                                                         *)
(* The parts run apart: backups by cron while a promotion is under way,    *)
(* two of them at once when one is slow; clients that reach whatever host  *)
(* they last resolved; a primary nobody fences.  What a host or a snapshot *)
(* holds is the set of client writes in it.                                *)
(*                                                                         *)
(* The capture is one step here (BackupCapture takes it apart), and so are *)
(* the placing of the state (HostState) and `up` (SharedHost).  A failed   *)
(* and a killed promotion leave the same: its work directory is its own.   *)
(*                                                                         *)
(* The store, the DNS service and the resolvers are external.              *)
(*                                                                         *)
(* Bounds: one run for each of Backups, MaxPromotes promotions one after   *)
(* the other, one write for each of Writes, MaxNow seconds.                *)
(***************************************************************************)
EXTENDS Integers, FiniteSets

CONSTANTS
  Hosts, Primary,
  Writes,         \* what clients may store
  Backups,        \* runs of `backup`
  DNSDrivers,     \* "cloudflare", "rfc2136", "print"
  MaxNow, MaxPromotes,
  None, Torn

ASSUME PrimaryAssumption == Primary \in Hosts
ASSUME BoundsAssumption == MaxNow \in Nat /\ MaxPromotes \in Nat

VARIABLES
  now,            \* seconds
  hosts, cached, records, told,
  store, local, backups,
  keystore, driver, pr, promotes,
  accepted,       \* history: the writes clients were told are stored
  crowded,        \* history: backups overlapped, or ended in one second
  replaced        \* history: hosts promoted once more while they ran

vars == <<now, hosts, cached, records, told, store, local, backups, keystore,
          driver, pr, promotes, accepted, crowded, replaced>>

Seconds == 0..MaxNow
Tables == {"action_run", "action_run_job"}   \* in which a job in flight is `running`

HostStates == [up : BOOLEAN, data : (SUBSET Writes) \union {Torn}, orphans : SUBSET Tables]

(* A whole snapshot says which host it is of; Torn is part of an archive. *)
Bodies == [host : Hosts, data : SUBSET Writes] \union {Torn}

(* SnapshotKey names an object by the second its manifest was written; the *)
(* local adapter's temporary file stands beside the objects (blob.List     *)
(* returns every file), here under the name of its backup.                 *)
Keys == Seconds \union Backups
Objects == [modified : Seconds, body : Bodies]

ASSUME TornAssumption ==
  \A d \in SUBSET Writes : Torn # d /\ \A h \in Hosts : Torn # [host |-> h, data |-> d]
ASSUME KeysAssumption == Seconds \intersect Backups = {}

(* A promotion: key and the snapshot shown for it; whether the request was *)
(* sent twice; the one fetched; the records the driver has still to delete.*)
NoPromotion == [phase |-> "idle", target |-> Primary, key |-> None,
                shown |-> None, again |-> FALSE, got |-> None, orphans |-> {}, left |-> {}]

Steps == {"review", "fetch", "verify", "keys", "reconcile", "place", "deploy",
          "flip", "delete", "create"}

(* recordType: an address and a host name make records of two types; the   *)
(* primary has one for each of its addresses, a standby goes by a name.    *)
RecordTypes == {"A", "AAAA", "CNAME"}
RecordFor(h) == [host |-> h, type |-> IF h = Primary THEN "A" ELSE "CNAME"]

RecordHosts == {r.host : r \in records}

Listed == {k \in Keys : store[k] # None}

(* The set LatestSnapshotKey takes its answer from: an object no other was *)
(* modified after; which of several, the sort leaves open.                 *)
LatestMutant(listed) == {k \in listed : \A j \in listed : store[j].modified >= store[k].modified}
Latest(listed) == {k \in listed : \A j \in listed : store[j].modified <= store[k].modified}

Init ==
  /\ now = 0
  /\ hosts = [h \in Hosts |-> [up |-> h = Primary, data |-> {}, orphans |-> {}]]
  /\ cached = {Primary}
  /\ records = {RecordFor(Primary), [host |-> Primary, type |-> "AAAA"]}
  /\ told = None
  /\ store = [k \in Keys |-> None]
  /\ local \in BOOLEAN
  /\ backups = [b \in Backups |-> [phase |-> "idle", body |-> None, stamp |-> None]]
  /\ keystore \in {"absent", "held", "other"}
  /\ driver \in DNSDrivers
  /\ pr = NoPromotion
  /\ promotes = 0
  /\ accepted = {}
  /\ crowded = FALSE
  /\ replaced = {}

-----------------------------------------------------------------------------
(* The world around.                                                       *)
Tick ==
  /\ now < MaxNow
  /\ now' = now + 1
  /\ UNCHANGED <<hosts, cached, records, told, store, local, backups, keystore,
                 driver, pr, promotes, accepted, crowded, replaced>>

(* A client stores something on a host its resolver still knows. *)
Accept(w, h) ==
  /\ w \notin accepted /\ h \in cached
  /\ hosts[h].up /\ hosts[h].data # Torn
  /\ hosts' = [hosts EXCEPT ![h].data = @ \union {w}]
  /\ accepted' = accepted \union {w}
  /\ UNCHANGED <<now, cached, records, told, store, local, backups, keystore,
                 driver, pr, promotes, crowded, replaced>>

Resolve(h) ==
  /\ h \in RecordHosts \ cached
  /\ cached' = cached \union {h}
  /\ UNCHANGED <<now, hosts, records, told, store, local, backups, keystore,
                 driver, pr, promotes, accepted, crowded, replaced>>

(* A resolver forgets a record that is no more once its TTL is over: it is *)
(* BundleTTL for what flipDNS made, and whatever the operator chose for    *)
(* the primary's first records and those applied by hand, of which `up`    *)
(* makes none.  Only that each has some TTL is used.                       *)
Expire(h) ==
  /\ h \in cached \ RecordHosts
  /\ cached' = cached \ {h}
  /\ UNCHANGED <<now, hosts, records, told, store, local, backups, keystore,
                 driver, pr, promotes, accepted, crowded, replaced>>

LosePrimary ==
  /\ hosts[Primary].up
  /\ hosts' = [hosts EXCEPT ![Primary].up = FALSE]
  /\ UNCHANGED <<now, cached, records, told, store, local, backups, keystore,
                 driver, pr, promotes, accepted, crowded, replaced>>

-----------------------------------------------------------------------------
(* backup.Backup: Run captures and, when all is captured, stamps the       *)
(* manifest with the time; the archive is encrypted and verified, and      *)
(* written under the stamp.                                                *)
Running(b) == backups[b].phase \in {"captured", "stamped", "writing"}

Capture(b, h) ==
  /\ backups[b].phase = "idle"
  /\ hosts[h].up /\ hosts[h].data # Torn
  /\ backups' = [backups EXCEPT ![b] = [phase |-> "captured", stamp |-> None,
                                        body |-> [host |-> h, data |-> hosts[h].data]]]
  /\ crowded' = (crowded \/ \E o \in Backups : Running(o))
  /\ UNCHANGED <<now, hosts, cached, records, told, store, local, keystore,
                 driver, pr, promotes, accepted, replaced>>

Stamp(b) ==
  /\ backups[b].phase = "captured"
  /\ backups' = [backups EXCEPT ![b].phase = "stamped", ![b].stamp = now]
  /\ UNCHANGED <<now, hosts, cached, records, told, store, local, keystore,
                 driver, pr, promotes, accepted, crowded, replaced>>

(* The local adapter copies the archive to a temporary file. *)
BeginPut(b) ==
  /\ local /\ backups[b].phase = "stamped"
  /\ backups' = [backups EXCEPT ![b].phase = "writing"]
  /\ store' = [store EXCEPT ![b] = [modified |-> now, body |-> Torn]]
  /\ UNCHANGED <<now, hosts, cached, records, told, local, keystore,
                 driver, pr, promotes, accepted, crowded, replaced>>

(* The rename; or an S3 put, whole or not at all.  The time is the store's *)
(* for the last byte written; a name that is taken is replaced.            *)
FinishPut(b) ==
  LET k == backups[b].stamp IN
  /\ backups[b].phase = IF local THEN "writing" ELSE "stamped"
  /\ store' = [store EXCEPT ![b] = None,
                            ![k] = [modified |-> now, body |-> backups[b].body]]
  /\ crowded' = (crowded \/ store[k] # None
                   \/ \E j \in Seconds : store[j] # None /\ store[j].modified = now)
  /\ backups' = [backups EXCEPT ![b] = [phase |-> "done", body |-> None, stamp |-> None]]
  /\ UNCHANGED <<now, hosts, cached, records, told, local, keystore,
                 driver, pr, promotes, accepted, replaced>>

(* A backup that fails removes its temporary file, one that is killed      *)
(* leaves it.                                                              *)
EndBackup(b) ==
  /\ Running(b)
  /\ \E file \in {None, store[b]} : store' = [store EXCEPT ![b] = file]
  /\ backups' = [backups EXCEPT ![b] = [phase |-> "done", body |-> None, stamp |-> None]]
  /\ UNCHANGED <<now, hosts, cached, records, told, local, keystore,
                 driver, pr, promotes, accepted, crowded, replaced>>

-----------------------------------------------------------------------------
(* promote.  Only pr, and what the step is about, changes.                 *)
Rest == <<now, cached, local, backups, store, driver, accepted, crowded>>

GivesUp == pr' = NoPromotion

Goto(phase) == pr' = [pr EXCEPT !.phase = phase]

(* A step that took effect is followed by `phase`, unless its answer is    *)
(* lost.                                                                   *)
Done(phase) == Goto(phase) \/ GivesUp

(* confirmPromote, handlePromote without `confirm`: the newest snapshot's  *)
(* key and age.                                                            *)
Review(h) ==
  /\ pr.phase \in {"idle", "done"} /\ promotes < MaxPromotes
  /\ h # Primary
  /\ \E k \in Latest(Listed) :
       pr' = [NoPromotion EXCEPT !.phase = "review", !.target = h, !.key = k,
                                 !.shown = store[k].body]
  /\ promotes' = promotes + 1
  /\ told' = None
  /\ UNCHANGED <<hosts, replaced, records, keystore>> /\ UNCHANGED Rest

(* The operator says yes to the key shown, at a terminal or, the key in    *)
(* the request, in the dashboard.                                          *)
Confirm ==
  /\ pr.phase = "review"
  /\ Goto("fetch")
  /\ UNCHANGED <<hosts, replaced, records, told, keystore, promotes>> /\ UNCHANGED Rest

(* The refused request is sent again with `confirm` and, as before, with   *)
(* no key: handlePromote resolves the newest again.                        *)
Resubmit ==
  /\ pr.phase = "review"
  /\ \E k \in Latest(Listed) : pr' = [pr EXCEPT !.phase = "fetch", !.key = k, !.again = TRUE]
  /\ UNCHANGED <<hosts, replaced, records, told, keystore, promotes>> /\ UNCHANGED Rest

(* Restore fetches the key it was given, and the newest when given none;   *)
(* promote gives it one.                                                   *)
FetchedMutant(key) == Latest(Listed)
Fetched(key) == Listed \intersect {key}

Fetch ==
  /\ pr.phase = "fetch"
  /\ IF Fetched(pr.key) = {} THEN GivesUp
     ELSE \E k \in Fetched(pr.key) :
            pr' = [pr EXCEPT !.phase = "verify", !.got = store[k].body, !.orphans = Tables]
  /\ UNCHANGED <<hosts, replaced, records, told, keystore, promotes>> /\ UNCHANGED Rest

(* decryptAndVerify refuses anything that is not a whole archive. *)
VerifiedMutant(body) == TRUE
Verified(body) == body # Torn

DecryptAndVerify ==
  /\ pr.phase = "verify"
  /\ IF Verified(pr.got) THEN Goto("keys") ELSE GivesUp
  /\ UNCHANGED <<hosts, replaced, records, told, keystore, promotes>> /\ UNCHANGED Rest

(* installKeys, name by name: stored where there is nothing, refused where *)
(* there is something else.                                                *)
InstallKeys ==
  /\ pr.phase = "keys"
  /\ \/ keystore # "other" /\ keystore' = "held" /\ Done("reconcile")
     \/ keystore = "absent" /\ keystore' = "part" /\ GivesUp
     \/ keystore = "other" /\ GivesUp /\ UNCHANGED keystore
  /\ UNCHANGED <<hosts, replaced, records, told, promotes>> /\ UNCHANGED Rest

(* forge.ReconcileCI on the fetched copy, one table after the other; a     *)
(* failure in between ends the promotion and the copy with it.             *)
Reconciled == {}

ReconcileCI ==
  /\ pr.phase = "reconcile"
  /\ pr' = [pr EXCEPT !.phase = "place", !.orphans = Reconciled]
  /\ UNCHANGED <<hosts, replaced, records, told, keystore, promotes>> /\ UNCHANGED Rest

(* placeState: what was there is replaced, or half replaced.  restoreBlobs *)
(* puts the blobs; they are named by their content.  The copy has served.  *)
PlaceState ==
  /\ pr.phase = "place"
  /\ \/ /\ hosts' = [hosts EXCEPT ![pr.target].data = IF pr.got = Torn THEN Torn ELSE pr.got.data,
                                  ![pr.target].orphans = pr.orphans]
        /\ pr' = [NoPromotion EXCEPT !.phase = "deploy", !.target = pr.target] \/ GivesUp
     \/ /\ hosts' = [hosts EXCEPT ![pr.target].data = Torn]
        /\ GivesUp
  /\ replaced' = replaced \union (IF hosts[pr.target].up THEN {pr.target} ELSE {})
  /\ UNCHANGED <<records, told, keystore, promotes>> /\ UNCHANGED Rest

Deploy ==
  /\ pr.phase = "deploy"
  /\ hosts' = [hosts EXCEPT ![pr.target].up = TRUE]
  /\ Done("flip")
  /\ UNCHANGED <<replaced, records, told, keystore, promotes>> /\ UNCHANGED Rest

(* Any step may fail with nothing done, and the process may end. *)
Fail ==
  /\ pr.phase \in Steps
  /\ GivesUp
  /\ UNCHANGED <<hosts, replaced, records, told, keystore, promotes>> /\ UNCHANGED Rest

-----------------------------------------------------------------------------
(* flipDNS: Set of the driver.  Cloudflare: list, delete each, create.     *)
StaleMutant(rs) == {r \in rs : r.type = RecordFor(pr.target).type}
Stale(rs) == rs

List ==
  /\ pr.phase = "flip" /\ driver = "cloudflare"
  /\ pr' = [pr EXCEPT !.phase = "delete", !.left = Stale(records)]
  /\ UNCHANGED <<hosts, replaced, records, told, keystore, promotes>> /\ UNCHANGED Rest

Delete ==
  /\ pr.phase = "delete"
  /\ IF pr.left = {} THEN Goto("create") /\ UNCHANGED records
     ELSE \E r \in pr.left :
            /\ records' = records \ {r}
            /\ pr' = [pr EXCEPT !.left = @ \ {r}] \/ GivesUp
  /\ UNCHANGED <<hosts, replaced, told, keystore, promotes>> /\ UNCHANGED Rest

Create ==
  /\ pr.phase = "create"
  /\ records' = records \union {RecordFor(pr.target)}
  /\ Done("done")
  /\ UNCHANGED <<hosts, replaced, told, keystore, promotes>> /\ UNCHANGED Rest

(* RFC 2136: one transaction, that deletes the name's records of any type  *)
(* and adds the new one.                                                   *)
UpdateMutant ==
  /\ pr.phase = "flip" /\ driver = "rfc2136"
  /\ records' = {r \in records : r.type # RecordFor(pr.target).type} \union {RecordFor(pr.target)}
  /\ Done("done")
  /\ UNCHANGED <<hosts, replaced, told, keystore, promotes>> /\ UNCHANGED Rest

Update ==
  /\ pr.phase = "flip" /\ driver = "rfc2136"
  /\ records' = {RecordFor(pr.target)}
  /\ Done("done")
  /\ UNCHANGED <<hosts, replaced, told, keystore, promotes>> /\ UNCHANGED Rest

(* No driver: the change is printed, and made by hand some time later. *)
PrintChange ==
  /\ pr.phase = "flip" /\ driver = "print"
  /\ told' = pr.target
  /\ Goto("done")
  /\ UNCHANGED <<hosts, replaced, records, keystore, promotes>> /\ UNCHANGED Rest

ApplyByHand ==
  /\ told # None
  /\ records' = {RecordFor(told)}
  /\ told' = None
  /\ UNCHANGED <<hosts, replaced, keystore, pr, promotes>> /\ UNCHANGED Rest

-----------------------------------------------------------------------------
Promote ==
  \/ Confirm \/ Resubmit \/ Fetch \/ DecryptAndVerify \/ InstallKeys \/ ReconcileCI
  \/ PlaceState \/ Deploy \/ List \/ Delete \/ Create \/ Update \/ PrintChange

Next ==
  \/ Tick
  \/ \E w \in Writes, h \in Hosts : Accept(w, h)
  \/ \E h \in Hosts : Resolve(h) \/ Expire(h) \/ Review(h)
  \/ LosePrimary
  \/ \E b \in Backups :
       \/ \E h \in Hosts : Capture(b, h)
       \/ Stamp(b) \/ BeginPut(b) \/ FinishPut(b) \/ EndBackup(b)
  \/ Promote
  \/ Fail
  \/ ApplyByHand

Spec == Init /\ [][Next]_vars

(* Resolvers forget a record when its TTL is over, whoever chose it. *)
FairSpec == Spec /\ \A h \in Hosts : WF_vars(Expire(h))

-----------------------------------------------------------------------------
TypeOK ==
  /\ now \in Seconds
  /\ hosts \in [Hosts -> HostStates]
  /\ cached \subseteq Hosts
  /\ records \subseteq [host : Hosts, type : RecordTypes]
  /\ told \in Hosts \union {None}
  /\ store \in [Keys -> Objects \union {None}]
  /\ local \in BOOLEAN
  /\ backups \in [Backups -> [phase : {"idle", "captured", "stamped", "writing", "done"},
                              body : (Bodies \ {Torn}) \union {None},
                              stamp : Seconds \union {None}]]
  /\ keystore \in {"absent", "part", "held", "other"}
  /\ driver \in DNSDrivers
  /\ pr \in [phase : Steps \union {"idle", "done"}, target : Hosts,
             key : Keys \union {None}, shown : Bodies \union {None}, again : BOOLEAN,
             got : Bodies \union {None}, orphans : SUBSET Tables,
             left : SUBSET [host : Hosts, type : RecordTypes]]
  /\ promotes \in 0..MaxPromotes
  /\ accepted \subseteq Writes
  /\ crowded \in BOOLEAN
  /\ replaced \subseteq Hosts

(* The name is pointed at a host only when that host runs, on the whole of *)
(* a snapshot, with the snapshot's keys and with no CI job left as running *)
(* on a host that is no more: whichever attempt, of several, gets there.   *)
NameMovesToServing ==
  [][\A r \in records' \ records :
       /\ hosts[r.host].up
       /\ hosts[r.host].data # Torn
       /\ hosts[r.host].orphans = {}
       /\ keystore = "held"]_vars

(* A promotion that reports success through a driver leaves one record,    *)
(* its own, over types, over what attempts before it had deleted or made,  *)
(* and over answers that were lost.                                        *)
FlipLeavesOne ==
  [][pr.phase # "done" /\ pr'.phase = "done" /\ driver # "print" =>
       records' = {RecordFor(pr.target)}]_vars

(* What is placed on the standby is the snapshot the operator was shown    *)
(* and said yes to, whatever backups end between the question and the      *)
(* restore.  Exempt are backups that overlapped or ended in one second,    *)
(* which may bear one name, and requests sent twice without the key.       *)
RestoredAsShown ==
  [][pr.phase = "place" /\ pr' # pr /\ hosts' # hosts /\ hosts'[pr.target].data # Torn =>
       \/ pr.shown # Torn /\ hosts'[pr.target].data = pr.shown.data
       \/ crowded \/ pr.again]_vars

(* Nothing that any snapshot of the same host in the destination holds is  *)
(* missing from the one that is shown as the newest, unless backups        *)
(* overlapped or ended in one second, when the order of the store's times  *)
(* is not that of the captures, or the host was itself put back, as it     *)
(* ran, to an older snapshot.                                              *)
NewestHoldsAll ==
  [][pr'.phase = "review" /\ pr.phase # "review" /\ pr'.shown # Torn =>
       \/ crowded \/ pr'.shown.host \in replaced
       \/ \A k \in Listed : store[k].body # Torn /\ store[k].body.host = pr'.shown.host =>
            store[k].body.data \subseteq pr'.shown.data]_vars

(* After a promotion that moved the name through a driver, clients come to *)
(* reach the promoted host and nothing else, until the next promotion,     *)
(* though nobody stopped the old one; how soon is up to the old record's   *)
(* TTL, which for the primary's first records is not BundleTTL.            *)
ClientsFollow ==
  (pr.phase = "done" /\ driver # "print")
    ~> (cached \subseteq {pr.target} \/ pr.phase # "done")
=============================================================================
