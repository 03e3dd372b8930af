----------------------------- MODULE InitResume -----------------------------
(***************************************************************************)
(* `farrier init` (core/initialize): it generates an instance's key        *)
(* material, stores it key by key behind the keystore's rotation guard     *)
(* (core/keystore), and writes the bundle (core/bundle, Save).  A run may  *)
(* stop between any two steps; the resume record it wrote before the first *)
(* store tells the next run which keys in the keystore are this bundle's.  *)
(*                                                                         *)
(* A key's value is the run that generated it; the public half of the host *)
(* key is named by its private half.  The keystore is the file driver,     *)
(* which creates a file and then fills it.                                 *)
(*                                                                         *)
(* Bounds: each of Runs is one invocation; the keys of one kind that are   *)
(* stored side by side and read alike (the Forgejo secrets, the TLS pair)  *)
(* are one key.                                                            *)
(***************************************************************************)
EXTENDS Naturals, Sequences

CONSTANTS
  Runs,         \* invocations of init
  Dirs,         \* bundle directories
  Targets,      \* keystore targets
  NoTarget, Absent, Empty,
  Exclusive,    \* is one init run at a time?
  Events        \* a subset of EventKinds

(* switch: the operator retries with another keystore target; torn-store,  *)
(* torn-save: a run may stop inside a key's write, inside Save; unremoved: *)
(* between Save and the removal of the record, or failing it; obey: the    *)
(* operator does what a refusal tells him to.                              *)
EventKinds == {"switch", "torn-store", "torn-save", "unremoved", "obey"}

ASSUME EventsAssumption == Events \subseteq EventKinds
ASSUME ExclusiveAssumption == Exclusive \in BOOLEAN
ASSUME ValuesAssumption == Absent # Empty /\ {Absent, Empty} \intersect Runs = {}
ASSUME TargetAssumption == NoTarget \notin Targets
ASSUME DirsAssumption == Dirs # {}

VARIABLES
  store,        \* per target and key: its value, Absent or Empty
  record,       \* per directory: the resume record
  compose,      \* per directory: is compose/ there?
  manifest,     \* per directory: the manifest
  pc, run       \* per run

disk == <<record, compose, manifest>>
vars == <<store, disk, pc, run>>

Keys == {"secret", "tls", "host", "hostpub", "age"}

(* keyMaterialOrder *)
Order == <<"secret", "tls", "host", "hostpub", "age">>

RotatingMutant == {"tls", "host", "hostpub"}

Rotating == {"tls"}

Identity == Keys \ Rotating       \* identityKeys

HostKey == {"host", "hostpub"}

NoRecord == [target |-> NoTarget, keys |-> {}]
NoManifest == [target |-> NoTarget, hostpub |-> Absent, named |-> FALSE]

NoRun == [dir |-> CHOOSE d \in Dirs : TRUE, target |-> NoTarget, named |-> FALSE,
          recorded |-> {}, reuse |-> {}, conflicts |-> {}, hostpub |-> Absent,
          retry |-> FALSE, i |-> 1]

Init ==
  /\ store = [t \in Targets |-> [k \in Keys |-> Absent]]
  /\ record = [d \in Dirs |-> NoRecord]
  /\ compose = [d \in Dirs |-> FALSE]
  /\ manifest = [d \in Dirs |-> NoManifest]
  /\ pc = [r \in Runs |-> "idle"]
  /\ run = [r \in Runs |-> NoRun]

-----------------------------------------------------------------------------
At(r, step) == pc[r] = step

Goto(r, step) == pc' = [pc EXCEPT ![r] = step]

Ended == {"idle", "succeeded", "failed", "refused"}

Storing == {"guard", "create", "fill"}
Writing == {"host-public", "compose", "manifest", "unrecord"}
Steps == Ended \union {"exists", "record", "inspect", "repair", "generate", "write-record"}
               \union Storing \union Writing

Here(r) == store[run[r].target]

Held(r, k) == Here(r)[k] \notin {Absent, Empty}

Exists(d) == compose[d] \/ manifest[d] # NoManifest

Complete(d) == compose[d] /\ manifest[d] # NoManifest

Begin(r, d, t, named) ==
  /\ At(r, "idle")
  /\ Exclusive => \A q \in Runs : pc[q] \in Ended
  /\ record[d] # NoRecord /\ "switch" \notin Events => record[d].target = t
  /\ run' = [run EXCEPT ![r] =
       [NoRun EXCEPT !.dir = d, !.target = t, !.named = named,
                     !.retry = (record[d].target = t)]]
  /\ Goto(r, "exists")
  /\ UNCHANGED <<store, disk>>

(* refuseExistingBundle *)
RefuseExisting(r) ==
  /\ At(r, "exists")
  /\ Goto(r, IF Exists(run[r].dir) THEN "refused" ELSE "record")
  /\ UNCHANGED <<store, disk, run>>

(* inspectKeystore: the record counts when it names the same target. *)
ReadRecord(r) ==
  LET rec == record[run[r].dir] IN
  /\ At(r, "record")
  /\ run' = [run EXCEPT ![r].recorded = IF rec.target = run[r].target THEN rec.keys ELSE {}]
  /\ Goto(r, "inspect")
  /\ UNCHANGED <<store, disk>>

(* inspectKeystore: one key after the other, and the verdict at the end.   *)
(* A file that is there and empty is an error, not an absence.             *)
Inspect(r) ==
  LET i == run[r].i  k == Order[i]  found == k \in Identity /\ Held(r, k) IN
  /\ At(r, "inspect")
  /\ \/ /\ i <= Len(Order) /\ ~(k \in Identity /\ Here(r)[k] = Empty)
        /\ run' = [run EXCEPT ![r].i = i + 1,
             ![r].reuse = @ \union (IF found /\ k \in run[r].recorded THEN {k} ELSE {}),
             ![r].conflicts = @ \union (IF found /\ k \notin run[r].recorded THEN {k} ELSE {})]
        /\ UNCHANGED pc
     \/ /\ i <= Len(Order) /\ k \in Identity /\ Here(r)[k] = Empty
        /\ Goto(r, "refused")
        /\ UNCHANGED run
     \/ /\ i > Len(Order)
        /\ Goto(r, IF run[r].conflicts = {} THEN "repair" ELSE "refused")
        /\ run' = [run EXCEPT ![r].i = 1]
  /\ UNCHANGED <<store, disk>>

(* repairSSHPair: a private half stored without its public half has it     *)
(* derived; the reverse is refused.                                        *)
Repair(r) ==
  LET pair == run[r].reuse \intersect HostKey IN
  /\ At(r, "repair")
  /\ Goto(r, IF pair = {"hostpub"} THEN "refused" ELSE "generate")
  /\ run' = [run EXCEPT ![r].hostpub = CASE pair = {}       -> r
                                            [] pair = {"host"} -> Here(r)["host"]
                                            [] OTHER           -> Absent]
  /\ UNCHANGED <<store, disk>>

(* Images, Compose and the zone-control proof change nothing; what is to   *)
(* be stored is what is not reused, and the TLS pair of a named bundle.    *)
Material(r) ==
  {k \in Identity : k \notin run[r].reuse} \union (IF run[r].named THEN Rotating ELSE {})

Value(r, k) == IF k = "hostpub" THEN run[r].hostpub ELSE r

Generate(r) ==
  /\ At(r, "generate")
  /\ Goto(r, "write-record")
  /\ UNCHANGED <<store, disk, run>>

(* writeIncompleteRecord, atomic, over whatever record was there: what is  *)
(* stored and what is kept, the keys that rotate left out.                 *)
RecordedKeysMutant(r) == Material(r) \ Rotating

RecordedKeys(r) == (Material(r) \union run[r].reuse) \ Rotating

WriteRecord(r) ==
  /\ At(r, "write-record")
  /\ record' = [record EXCEPT ![run[r].dir] =
       [target |-> run[r].target, keys |-> RecordedKeys(r)]]
  /\ Goto(r, "guard")
  /\ UNCHANGED <<store, compose, manifest, run>>

-----------------------------------------------------------------------------
(* storeKeyMaterial, through guardedDriver.Store. *)
Advance(r) == run' = [run EXCEPT ![r].i = @ + 1]

(* The guard: a key that does not rotate is stored only where there is a   *)
(* positive "not found".                                                   *)
Guard(r) ==
  LET i == run[r].i  k == Order[i] IN
  /\ At(r, "guard")
  /\ \/ i > Len(Order) /\ Goto(r, "host-public") /\ UNCHANGED run
     \/ i <= Len(Order) /\ k \notin Material(r) /\ Advance(r) /\ UNCHANGED pc
     \/ /\ i <= Len(Order) /\ k \in Material(r)
        /\ Goto(r, IF k \in Rotating \/ Here(r)[k] = Absent THEN "create" ELSE "failed")
        /\ UNCHANGED run
  /\ UNCHANGED <<store, disk>>

(* FileDriver.Store: created or truncated, *)
Create(r) ==
  /\ At(r, "create")
  /\ store' = [store EXCEPT ![run[r].target][Order[run[r].i]] = Empty]
  /\ Goto(r, "fill")
  /\ UNCHANGED <<disk, run>>

(* and filled. *)
Fill(r) ==
  LET k == Order[run[r].i] IN
  /\ At(r, "fill")
  /\ store' = [store EXCEPT ![run[r].target][k] = Value(r, k)]
  /\ Goto(r, "guard")
  /\ Advance(r)
  /\ UNCHANGED disk

-----------------------------------------------------------------------------
(* recordHostPublicKey reads the key back from the keystore. *)
HostPublicMutant(r) ==
  /\ At(r, "host-public")
  /\ Goto(r, "compose")
  /\ run' = [run EXCEPT ![r].hostpub = r]
  /\ UNCHANGED <<store, disk>>

HostPublic(r) ==
  /\ At(r, "host-public")
  /\ Goto(r, IF Held(r, "hostpub") THEN "compose" ELSE "failed")
  /\ run' = [run EXCEPT ![r].hostpub = Here(r)["hostpub"]]
  /\ UNCHANGED <<store, disk>>

(* Save: the staged compose/ is put in place, then the manifest. *)
SaveCompose(r) ==
  /\ At(r, "compose")
  /\ compose' = [compose EXCEPT ![run[r].dir] = TRUE]
  /\ Goto(r, "manifest")
  /\ UNCHANGED <<store, record, manifest, run>>

SaveManifest(r) ==
  /\ At(r, "manifest")
  /\ manifest' = [manifest EXCEPT ![run[r].dir] =
       [target |-> run[r].target, hostpub |-> run[r].hostpub, named |-> run[r].named]]
  /\ Goto(r, "unrecord")
  /\ UNCHANGED <<store, record, compose, run>>

(* removeIncompleteRecord; that it failed is reported and is not fatal.    *)
RemoveRecord(r) ==
  /\ At(r, "unrecord")
  /\ \/ record' = [record EXCEPT ![run[r].dir] = NoRecord]
     \/ "unremoved" \in Events /\ UNCHANGED record
  /\ Goto(r, "succeeded")
  /\ UNCHANGED <<store, compose, manifest, run>>

(* An error, a cancelled context, a dead process. *)
Stop(r) ==
  /\ pc[r] \notin Ended
  /\ At(r, "fill") => "torn-store" \in Events
  /\ At(r, "manifest") => "torn-save" \in Events
  /\ At(r, "unrecord") => "unremoved" \in Events
  /\ Goto(r, "failed")
  /\ UNCHANGED <<store, disk, run>>

(* The operator does as a refusal for a bundle with a record beside it     *)
(* says: removes the manifest and compose/, and keeps the record.          *)
Obey(r) ==
  LET d == run[r].dir IN
  /\ "obey" \in Events
  /\ At(r, "refused")
  /\ Exists(d) /\ record[d] # NoRecord
  /\ \A q \in Runs : pc[q] \in Ended
  /\ compose' = [compose EXCEPT ![d] = FALSE]
  /\ manifest' = [manifest EXCEPT ![d] = NoManifest]
  /\ UNCHANGED <<store, record, pc, run>>

-----------------------------------------------------------------------------
Next ==
  \E r \in Runs :
    \/ \E d \in Dirs, t \in Targets, named \in BOOLEAN : Begin(r, d, t, named)
    \/ RefuseExisting(r) \/ ReadRecord(r) \/ Inspect(r) \/ Repair(r)
    \/ Generate(r) \/ WriteRecord(r) \/ Guard(r) \/ Create(r) \/ Fill(r)
    \/ HostPublic(r) \/ SaveCompose(r) \/ SaveManifest(r) \/ RemoveRecord(r)
    \/ Stop(r) \/ Obey(r)

Spec == Init /\ [][Next]_vars

-----------------------------------------------------------------------------
Values == Runs \union {Absent, Empty}

(* Type correctness of every variable. *)
TypeOK ==
  /\ store \in [Targets -> [Keys -> Values]]
  /\ record \in [Dirs -> [target : Targets \union {NoTarget}, keys : SUBSET Identity]]
  /\ compose \in [Dirs -> BOOLEAN]
  /\ manifest \in [Dirs -> [target : Targets \union {NoTarget}, hostpub : Values,
                            named : BOOLEAN]]
  /\ pc \in [Runs -> Steps]
  /\ run \in [Runs -> [dir : Dirs, target : Targets \union {NoTarget}, named : BOOLEAN,
                       recorded : SUBSET Keys, reuse : SUBSET Identity,
                       conflicts : SUBSET Identity, hostpub : Values,
                       retry : BOOLEAN, i : 1..(Len(Order) + 1)]]

(* INIT-003: a bundle on disk has an identity, all of it: every key in its *)
(* keystore, the public half of the host key that of the private half, and *)
(* the manifest's copy the same, however many attempts it took.            *)
BundleHasIdentity ==
  \A d \in Dirs : Complete(d) =>
    LET keys == store[manifest[d].target] IN
    /\ \A k \in Identity : keys[k] \in Runs
    /\ keys["host"] = keys["hostpub"] /\ keys["hostpub"] = manifest[d].hostpub
    /\ manifest[d].named => keys["tls"] # Absent

(* Key material never silently changes once init has written it. *)
IdentityNeverChanges ==
  [][\A t \in Targets, k \in {"secret", "host", "hostpub", "age"} :
       store[t][k] \in Runs => store'[t][k] = store[t][k]]_vars

(* A retry goes through: an init for a folder with an unfinished init's    *)
(* record for its own target is refused only if that one stopped inside a  *)
(* write, or if somebody else holds keys in the target.                    *)
RetryRefusedOnlyIfTorn ==
  [][\A r \in Runs : run[r].retry /\ pc[r] # "refused" /\ pc'[r] = "refused" =>
       \/ Exists(run[r].dir)
       \/ \E k \in Identity : Here(r)[k] = Empty
       \/ \E d \in Dirs \ {run[r].dir} :
            run[r].target \in {record[d].target, manifest[d].target}]_vars
=============================================================================
