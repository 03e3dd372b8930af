----------------------------- MODULE InitProofs -----------------------------
(* Proofs about InitResume, for any number of runs, directories and        *)
(* keystore targets and whatever a run may be cut off by: all of them for  *)
(* one run at a time (Exclusive).                                          *)
EXTENDS InitResume, TLAPS

(* The place of a key in Order. *)
Position == [secret |-> 1, tls |-> 2, host |-> 3, hostpub |-> 4, age |-> 5]

Busy(r) == pc[r] \notin Ended

Solo == \A r, q \in Runs : Busy(r) /\ Busy(q) => r = q

Checked == {"repair", "generate", "write-record"}

(* The public half of the host key is never there before the private one,  *)
(* and is its own.                                                         *)
PairOf(t) ==
  /\ store[t]["hostpub"] # Absent => store[t]["host"] \in Runs
  /\ store[t]["hostpub"] \in Runs => store[t]["hostpub"] = store[t]["host"]

PairInv == \A t \in Targets : PairOf(t)

(* A record lists every key that identifies an instance. *)
RecordOf(d) ==
  record[d] # NoRecord => record[d].target \in Targets /\ record[d].keys = Identity

RecordInv == \A d \in Dirs : RecordOf(d)

(* A manifest is on disk only with the identity it belongs to. *)
ManifestOf(d) ==
  manifest[d] # NoManifest =>
    LET keys == store[manifest[d].target] IN
    /\ manifest[d].target \in Targets
    /\ \A k \in Identity : keys[k] \in Runs
    /\ keys["hostpub"] = manifest[d].hostpub
    /\ manifest[d].named => keys["tls"] # Absent

ManifestInv == \A d \in Dirs : ManifestOf(d)

(* What a run knows of the record of the folder it tries again for. *)
RetryOf(r) ==
  /\ pc[r] \in {"exists", "record"} =>
       /\ run[r].retry => record[run[r].dir].target = run[r].target
       /\ run[r].i = 1 /\ run[r].reuse = {} /\ run[r].conflicts = {}
  /\ pc[r] = "inspect" /\ run[r].retry => run[r].recorded = Identity /\ run[r].conflicts = {}
  /\ Busy(r) => run[r].target \in Targets

(* What a run has seen of the keystore, and decided of the host key. *)
ReuseOf(r) ==
  /\ Busy(r) => \A k \in run[r].reuse : Here(r)[k] \in Runs
  /\ pc[r] = "inspect" =>
       \A k \in Identity \ (run[r].reuse \union run[r].conflicts) :
         Position[k] < run[r].i => Here(r)[k] = Absent
  /\ pc[r] \in Checked =>
       run[r].i = 1 /\ \A k \in Identity \ run[r].reuse : Here(r)[k] = Absent
  /\ pc[r] \in {"generate", "write-record"} \union Storing /\ "hostpub" \notin run[r].reuse =>
       run[r].hostpub = IF "host" \in run[r].reuse THEN Here(r)["host"] ELSE r
  /\ pc[r] \in Checked \union Storing /\ "hostpub" \in run[r].reuse => "host" \in run[r].reuse

(* What a run has stored. *)
StoredOf(r) ==
  /\ pc[r] \in Storing =>
       /\ \A k \in Material(r) : Position[k] < run[r].i => Here(r)[k] = Value(r, k)
       /\ \A k \in Identity \ run[r].reuse :
            \/ Position[k] < run[r].i \/ Here(r)[k] = Absent
            \/ pc[r] = "fill" /\ Position[k] = run[r].i
  /\ pc[r] \in {"create", "fill"} => run[r].i \in 1..5 /\ Order[run[r].i] \in Material(r)
  /\ pc[r] = "fill" => Here(r)[Order[run[r].i]] = Empty
  /\ pc[r] \in Writing => /\ \A k \in Identity : Here(r)[k] \in Runs
                          /\ run[r].named => Here(r)["tls"] # Absent
  /\ pc[r] \in Writing \ {"host-public"} => run[r].hostpub = Here(r)["hostpub"]

RunInv == \A r \in Runs : RetryOf(r) /\ ReuseOf(r) /\ StoredOf(r)

IInv == TypeOK /\ Exclusive /\ Solo /\ PairInv /\ RecordInv /\ ManifestInv /\ RunInv

-----------------------------------------------------------------------------
LEMMA OrderFacts ==
  /\ Len(Order) = 5
  /\ \A i \in 1..5 : Order[i] \in Keys /\ Position[Order[i]] = i
  /\ \A k \in Keys : Position[k] \in 1..5 /\ Order[Position[k]] = k
BY DEF Order, Position, Keys

LEMMA KeyFacts ==
  /\ Identity = {"secret", "host", "hostpub", "age"} /\ Identity \subseteq Keys
  /\ Rotating = {"tls"} /\ Keys = Identity \union Rotating
BY DEF Identity, Keys, Rotating

LEMMA RunTypes ==
  ASSUME TypeOK, NEW r \in Runs
  PROVE  /\ run[r].dir \in Dirs /\ run[r].target \in Targets \union {NoTarget}
         /\ run[r].named \in BOOLEAN /\ run[r].retry \in BOOLEAN
         /\ run[r].recorded \subseteq Keys /\ run[r].reuse \subseteq Identity
         /\ run[r].conflicts \subseteq Identity /\ run[r].hostpub \in Values
         /\ run[r].i \in 1..6 /\ pc[r] \in Steps
BY OrderFacts DEF TypeOK

LEMMA MaterialKeys ==
  ASSUME TypeOK, NEW r \in Runs
  PROVE  /\ Material(r) \subseteq Keys /\ Identity \ run[r].reuse \subseteq Material(r)
         /\ run[r].named => "tls" \in Material(r)
         /\ \A k \in Material(r) : k \in Identity \/ k \in Rotating
         /\ \A k \in Material(r) \intersect Identity : k \notin run[r].reuse
BY KeyFacts DEF Material

(* The steps of a run. *)
Begins(r) == \E d \in Dirs, t \in Targets, named \in BOOLEAN : Begin(r, d, t, named)

Step(r) ==
  \/ RefuseExisting(r) \/ ReadRecord(r) \/ Inspect(r) \/ Repair(r)
  \/ Generate(r) \/ WriteRecord(r) \/ Guard(r) \/ Create(r) \/ Fill(r)
  \/ HostPublic(r) \/ SaveCompose(r) \/ SaveManifest(r) \/ RemoveRecord(r) \/ Stop(r)

LEMMA NextCases ==
  ASSUME Next
  PROVE  \E r \in Runs : Begins(r) \/ Step(r) \/ Obey(r)
BY DEF Next, Begins, Step

LEMMA StepBusy ==
  ASSUME NEW r \in Runs, Step(r)
  PROVE  Busy(r)
BY DEF Step, RefuseExisting, ReadRecord, Inspect, Repair, Generate, WriteRecord, Guard, Create, Fill,
   HostPublic, SaveCompose, SaveManifest, RemoveRecord, Stop, At, Busy, Ended

(* A run moves alone. *)
LEMMA OthersRest ==
  ASSUME TypeOK, Exclusive, Solo, NEW r \in Runs, Begins(r) \/ Step(r), NEW q \in Runs \ {r}
  PROVE  pc'[q] = pc[q] /\ run'[q] = run[q] /\ ~Busy(q)
<1>1. CASE Begins(r)
  BY <1>1 DEF Begins, Begin, Goto, TypeOK, Busy
<1>2. CASE Step(r)
  <2>1. pc'[q] = pc[q]
    BY <1>2 DEF Step, RefuseExisting, ReadRecord, Inspect, Repair, Generate, WriteRecord, Guard,
       Create, Fill, HostPublic, SaveCompose, SaveManifest, RemoveRecord, Stop, Goto, TypeOK
  <2>2. run'[q] = run[q]
    BY <1>2 DEF Step, RefuseExisting, ReadRecord, Inspect, Repair, Generate, WriteRecord, Guard,
       Create, Fill, HostPublic, SaveCompose, SaveManifest, RemoveRecord, Stop, Advance, TypeOK
  <2> QED
    BY <1>2, <2>1, <2>2, StepBusy DEF Solo
<1> QED
  BY <1>1, <1>2

LEMMA SoloStep ==
  ASSUME TypeOK, Exclusive, Solo, [Next]_vars
  PROVE  Solo'
<1>1. ASSUME NEW r \in Runs, Begins(r) \/ Step(r)
      PROVE  Solo'
  BY <1>1, OthersRest DEF Solo, Busy
<1>2. CASE UNCHANGED pc
  BY <1>2 DEF Solo, Busy
<1> QED
  BY <1>1, <1>2, NextCases DEF Obey, vars

RunRecords ==
  [dir : Dirs, target : Targets \union {NoTarget}, named : BOOLEAN, recorded : SUBSET Keys,
   reuse : SUBSET Identity, conflicts : SUBSET Identity, hostpub : Values, retry : BOOLEAN, i : 1..6]

LEMMA RunRecord ==
  TypeOK => run \in [Runs -> RunRecords]
BY OrderFacts DEF TypeOK, RunRecords

(* What a run begins with. *)
LEMMA BeginEffect ==
  ASSUME TypeOK, NEW r \in Runs, NEW d \in Dirs, NEW t \in Targets, NEW named \in BOOLEAN,
         Begin(r, d, t, named)
  PROVE  /\ pc'[r] = "exists"
         /\ run'[r] \in RunRecords
         /\ run'[r].dir = d /\ run'[r].target = t /\ run'[r].reuse = {} /\ run'[r].conflicts = {}
         /\ run'[r].i = 1 /\ (run'[r].retry => record[d].target = t)
         /\ UNCHANGED <<store, record, compose, manifest>>
<1>1. run' = [run EXCEPT ![r] = [NoRun EXCEPT !.dir = d, !.target = t, !.named = named,
                                              !.retry = (record[d].target = t)]]
  BY DEF Begin
<1>2. run'[r] = [NoRun EXCEPT !.dir = d, !.target = t, !.named = named, !.retry = (record[d].target = t)]
  BY <1>1 DEF TypeOK
<1>3. run'[r] = [dir |-> d, target |-> t, named |-> named, recorded |-> {}, reuse |-> {},
                 conflicts |-> {}, hostpub |-> Absent, retry |-> record[d].target = t, i |-> 1]
  BY <1>2 DEF NoRun
<1>4. /\ run'[r].dir = d /\ run'[r].target = t /\ run'[r].reuse = {} /\ run'[r].conflicts = {}
      /\ run'[r].i = 1 /\ run'[r].retry = (record[d].target = t)
  BY <1>3
<1>5. run'[r].retry => record[d].target = t
  BY <1>4
<1>6. run'[r] \in RunRecords
  <2>1. (record[d].target = t) \in BOOLEAN /\ Absent \in Values
    BY DEF Values
  <2> QED
    BY <1>3, <2>1 DEF RunRecords
<1> QED
  BY <1>4, <1>5, <1>6 DEF Begin, Goto, disk, TypeOK

LEMMA TypeStep ==
  ASSUME IInv, [Next]_vars
  PROVE  TypeOK'
<1> USE DEF IInv
<1>1. ASSUME NEW r \in Runs, Begins(r)
      PROVE  TypeOK'
  <2>1. PICK d \in Dirs, t \in Targets, named \in BOOLEAN : Begin(r, d, t, named)
    BY <1>1 DEF Begins
  <2>2. run'[r] \in RunRecords
    BY <2>1, BeginEffect
  <2>3. run' \in [Runs -> RunRecords]
    <3> DEFINE first == [NoRun EXCEPT !.dir = d, !.target = t, !.named = named,
                                      !.retry = (record[d].target = t)]
    <3>1. run' = [run EXCEPT ![r] = first]
      BY <2>1 DEF Begin
    <3> HIDE DEF first
    <3>2. run'[r] = first
      BY <3>1, RunRecord
    <3> QED
      BY <3>1, <3>2, <2>2, RunRecord
  <2>4. pc' \in [Runs -> Steps]
    <3>1. pc' = [pc EXCEPT ![r] = "exists"]
      BY <2>1 DEF Begin, Goto
    <3> QED
      BY <3>1 DEF TypeOK, Steps
  <2> QED
    BY <2>1, <2>3, <2>4, BeginEffect, OrderFacts DEF TypeOK, RunRecords
<1>2. ASSUME NEW r \in Runs, Step(r)
      PROVE  TypeOK'
  <2> USE RunTypes, RunRecord DEF Goto
  <2>1. pc' \in [Runs -> Steps]
    BY <1>2 DEF Step, RefuseExisting, ReadRecord, Inspect, Repair, Generate, WriteRecord, Guard,
       Create, Fill, HostPublic, SaveCompose, SaveManifest, RemoveRecord, Stop, TypeOK, Steps,
       Ended, Storing, Writing
  <2>2. run' \in [Runs -> RunRecords]
    <3>1. CASE UNCHANGED run
      BY <3>1
    <3>2. CASE ReadRecord(r)
      <4>1. record[run[r].dir].keys \subseteq Identity
        BY DEF TypeOK
      <4> QED
        BY <3>2, <4>1, KeyFacts DEF ReadRecord, RunRecords
    <3>3. CASE Inspect(r)
      <4>1. CASE UNCHANGED run
        BY <4>1
      <4>2. CASE run' = [run EXCEPT ![r].i = 1]
        BY <4>2 DEF RunRecords
      <4>3. CASE ~UNCHANGED run /\ run' # [run EXCEPT ![r].i = 1]
        <5> DEFINE k == Order[run[r].i]
                   found == k \in Identity /\ Held(r, k)
                   new == (IF found /\ k \in run[r].recorded THEN {k} ELSE {})
                   strange == (IF found /\ k \notin run[r].recorded THEN {k} ELSE {})
        <5>1. /\ run' = [run EXCEPT ![r].i = run[r].i + 1, ![r].reuse = @ \union new,
                                    ![r].conflicts = @ \union strange]
              /\ run[r].i <= 5
          BY <3>3, <4>3, OrderFacts DEF Inspect
        <5>2. new \subseteq Identity /\ strange \subseteq Identity
          OBVIOUS
        <5>3. run[r].i + 1 \in 1..6
          BY <5>1
        <5> HIDE DEF new, strange
        <5>4. [run[r] EXCEPT !.i = run[r].i + 1, !.reuse = @ \union new, !.conflicts = @ \union strange]
                \in RunRecords
          BY <5>2, <5>3 DEF RunRecords
        <5>5. run' = [run EXCEPT ![r] = [run[r] EXCEPT !.i = run[r].i + 1, !.reuse = @ \union new,
                                                      !.conflicts = @ \union strange]]
          BY <5>1
        <5> QED
          BY <5>4, <5>5
      <4> QED
        BY <4>1, <4>2, <4>3
    <3>4. CASE Repair(r)
      <4>1. Here(r)["host"] \in Values \/ run[r].target \notin Targets
        BY KeyFacts DEF Here, TypeOK
      <4>2. run[r].target \in Targets
        BY <3>4 DEF Repair, At, RunInv, RetryOf, Busy, Ended
      <4>3. PICK v \in Values : run' = [run EXCEPT ![r].hostpub = v]
        BY <3>4, <4>1, <4>2 DEF Repair, Values
      <4> QED
        BY <4>3 DEF RunRecords
    <3>5. CASE Guard(r) \/ Fill(r)
      <4>1. run' = run \/ (run' = [run EXCEPT ![r].i = @ + 1] /\ run[r].i + 1 \in 1..6)
        BY <3>5, OrderFacts DEF Guard, Fill, Advance, At, RunInv, StoredOf
      <4> QED
        BY <4>1 DEF RunRecords
    <3>6. CASE HostPublic(r)
      <4>1. run[r].target \in Targets
        BY <3>6 DEF HostPublic, At, RunInv, RetryOf, Busy, Ended
      <4>2. Here(r)["hostpub"] \in Values
        BY <4>1, KeyFacts DEF Here, TypeOK
      <4> QED
        BY <3>6, <4>2 DEF HostPublic, RunRecords
    <3> QED
      BY <1>2, <3>1, <3>2, <3>3, <3>4, <3>5, <3>6 DEF Step, RefuseExisting, Generate, WriteRecord,
         Create, SaveCompose, SaveManifest, RemoveRecord, Stop
  <2>3. store' \in [Targets -> [Keys -> Values]]
    <3>1. CASE Create(r) \/ Fill(r)
      <4>1. run[r].target \in Targets /\ Order[run[r].i] \in Keys
        BY <3>1, OrderFacts DEF Create, Fill, At, RunInv, RetryOf, StoredOf, Busy, Ended
      <4>2. Value(r, Order[run[r].i]) \in Values /\ Empty \in Values
        BY DEF Value, Values
      <4>3. store' = [store EXCEPT ![run[r].target][Order[run[r].i]] = Empty]
              \/ store' = [store EXCEPT ![run[r].target][Order[run[r].i]] = Value(r, Order[run[r].i])]
        BY <3>1 DEF Create, Fill
      <4>4. store \in [Targets -> [Keys -> Values]]
        BY DEF TypeOK
      <4>5. ASSUME NEW t \in Targets, NEW k \in Keys, NEW v \in Values
            PROVE  [store EXCEPT ![t][k] = v] \in [Targets -> [Keys -> Values]]
        BY <4>4
      <4>6. [store EXCEPT ![run[r].target][Order[run[r].i]] = Empty] \in [Targets -> [Keys -> Values]]
        BY <4>1, <4>2, <4>5
      <4>7. [store EXCEPT ![run[r].target][Order[run[r].i]] = Value(r, Order[run[r].i])]
              \in [Targets -> [Keys -> Values]]
        BY <4>1, <4>2, <4>5
      <4> QED
        BY <4>3, <4>6, <4>7
    <3>2. CASE UNCHANGED store
      BY <3>2 DEF TypeOK
    <3> QED
      BY <1>2, <3>1, <3>2 DEF Step, RefuseExisting, ReadRecord, Inspect, Repair, Generate, WriteRecord,
         Guard, HostPublic, SaveCompose, SaveManifest, RemoveRecord, Stop
  <2>4. /\ record' \in [Dirs -> [target : Targets \union {NoTarget}, keys : SUBSET Identity]]
        /\ compose' \in [Dirs -> BOOLEAN]
        /\ manifest' \in [Dirs -> [target : Targets \union {NoTarget}, hostpub : Values, named : BOOLEAN]]
    <3>1. CASE WriteRecord(r)
      <4>1. RecordedKeys(r) \subseteq Identity
        BY KeyFacts, MaterialKeys DEF RecordedKeys
      <4> QED
        BY <3>1, <4>1 DEF WriteRecord, TypeOK
    <3>2. CASE SaveCompose(r)
      BY <3>2 DEF SaveCompose, TypeOK
    <3>4. CASE SaveManifest(r)
      BY <3>4 DEF SaveManifest, TypeOK
    <3>5. CASE RemoveRecord(r)
      <4>1. NoRecord \in [target : Targets \union {NoTarget}, keys : SUBSET Identity]
        BY DEF NoRecord
      <4>2. record' = [record EXCEPT ![run[r].dir] = NoRecord] \/ record' = record
        BY <3>5 DEF RemoveRecord
      <4>3. UNCHANGED <<compose, manifest>>
        BY <3>5 DEF RemoveRecord
      <4>4. record' \in [Dirs -> [target : Targets \union {NoTarget}, keys : SUBSET Identity]]
        BY <4>1, <4>2 DEF TypeOK
      <4> QED
        BY <4>3, <4>4 DEF TypeOK
    <3>3. CASE UNCHANGED disk
      BY <3>3 DEF TypeOK, disk
    <3> QED
      BY <1>2, <3>1, <3>2, <3>3, <3>4, <3>5 DEF Step, RefuseExisting, ReadRecord, Inspect, Repair, Generate,
         Guard, Create, Fill, HostPublic, Stop
  <2> QED
    BY <2>1, <2>2, <2>3, <2>4, OrderFacts DEF TypeOK, RunRecords
<1>3. ASSUME NEW r \in Runs, Obey(r)
      PROVE  TypeOK'
  BY <1>3, RunTypes DEF Obey, TypeOK, NoManifest, Values
<1>4. CASE UNCHANGED vars
  BY <1>4 DEF vars, disk, TypeOK
<1> QED
  BY <1>1, <1>2, <1>3, <1>4, NextCases

-----------------------------------------------------------------------------
LEMMA ValueFacts ==
  /\ Absent \notin Runs /\ Empty \notin Runs /\ Absent # Empty
  /\ \A t \in Targets : t # NoTarget
BY ValuesAssumption, TargetAssumption

LEMMA BusyTarget ==
  ASSUME RunInv, NEW r \in Runs, Step(r)
  PROVE  run[r].target \in Targets /\ RetryOf(r) /\ ReuseOf(r) /\ StoredOf(r)
BY StepBusy DEF RunInv, RetryOf

(* A key that identifies an instance is created only where it is absent,   *)
(* and filled with a value.                                                *)
LEMMA StoreEffect ==
  ASSUME IInv, NEW r \in Runs, Create(r) \/ Fill(r)
  PROVE  LET t == run[r].target  k == Order[run[r].i] IN
         /\ t \in Targets /\ k \in Keys /\ k \in Material(r) /\ Position[k] = run[r].i
         /\ run[r].i \in 1..5
         /\ \A u \in Targets, j \in Keys : u # t \/ j # k => store'[u][j] = store[u][j]
         /\ Create(r) => store'[t][k] = Empty /\ (k \in Identity => store[t][k] = Absent)
         /\ Fill(r) => /\ store[t][k] = Empty /\ store'[t][k] = Value(r, k)
                       /\ Value(r, k) \in Runs
<1> USE DEF IInv
<1> DEFINE t == run[r].target
           k == Order[run[r].i]
<1>1. t \in Targets /\ RetryOf(r) /\ ReuseOf(r) /\ StoredOf(r)
  BY BusyTarget DEF Step
<1>2. pc[r] \in {"create", "fill"} /\ (Create(r) => pc[r] = "create") /\ (Fill(r) => pc[r] = "fill")
  BY DEF Create, Fill, At
<1>3. k \in Keys /\ k \in Material(r) /\ Position[k] = run[r].i /\ run[r].i \in 1..5
  BY <1>1, <1>2, OrderFacts DEF StoredOf
<1>4. store \in [Targets -> [Keys -> Values]]
  BY DEF TypeOK
<1>5. Create(r) => store' = [store EXCEPT ![t][k] = Empty]
  BY DEF Create
<1>6. Fill(r) => store' = [store EXCEPT ![t][k] = Value(r, k)]
  BY DEF Fill
<1>7. \A u \in Targets, j \in Keys : u # t \/ j # k => store'[u][j] = store[u][j]
  BY <1>1, <1>3, <1>4, <1>5, <1>6
<1>8. Create(r) => store'[t][k] = Empty /\ (k \in Identity => store[t][k] = Absent)
  <2>1. Create(r) => store'[t][k] = Empty
    BY <1>1, <1>3, <1>4, <1>5
  <2>2. k \in Identity => k \notin run[r].reuse
    BY <1>3, MaterialKeys
  <2>3. Create(r) /\ k \in Identity => Here(r)[k] = Absent
    BY <1>1, <1>2, <1>3, <2>2 DEF StoredOf, Storing
  <2> QED
    BY <2>1, <2>3 DEF Here
<1>9. Fill(r) => store[t][k] = Empty /\ store'[t][k] = Value(r, k) /\ Value(r, k) \in Runs
  <2>1. Fill(r) => store'[t][k] = Value(r, k) /\ store[t][k] = Empty
    BY <1>1, <1>2, <1>3, <1>4, <1>6 DEF StoredOf, Here
  <2>2. CASE k = "hostpub"
    <3>1. "hostpub" \notin run[r].reuse
      BY <1>3, <2>2, MaterialKeys, KeyFacts
    <3>2. run[r].hostpub \in Runs
      BY <1>1, <1>2, <3>1 DEF ReuseOf, Storing, Busy, Ended
    <3> QED
      BY <2>1, <2>2, <3>2 DEF Value
  <2>3. CASE k # "hostpub"
    BY <2>1, <2>3 DEF Value
  <2> QED
    BY <2>2, <2>3
<1> QED
  BY <1>1, <1>3, <1>7, <1>8, <1>9

LEMMA StoreChanges ==
  ASSUME [Next]_vars, ~UNCHANGED store
  PROVE  \E r \in Runs : (Create(r) \/ Fill(r)) /\ Step(r)
<1>1. ASSUME NEW r \in Runs, Begins(r) \/ Step(r) \/ Obey(r)
      PROVE  (Create(r) \/ Fill(r)) /\ Step(r)
  BY <1>1 DEF Begins, Begin, Obey, Step, RefuseExisting, ReadRecord, Inspect, Repair, Generate, WriteRecord,
     Guard, HostPublic, SaveCompose, SaveManifest, RemoveRecord, Stop
<1> QED
  BY <1>1, NextCases DEF vars

(* What is there stays. *)
LEMMA StoreKeeps ==
  ASSUME IInv, [Next]_vars, NEW u \in Targets, NEW j \in Keys
  PROVE  /\ j \in Identity /\ store[u][j] \in Runs => store'[u][j] = store[u][j]
         /\ store[u][j] # Absent => store'[u][j] # Absent
<1>1. CASE UNCHANGED store
  BY <1>1
<1>2. CASE ~UNCHANGED store
  <2>1. PICK r \in Runs : Create(r) \/ Fill(r)
    BY <1>2, StoreChanges
  <2> DEFINE t == run[r].target
             k == Order[run[r].i]
  <2>2. /\ \A v \in Targets, i \in Keys : v # t \/ i # k => store'[v][i] = store[v][i]
        /\ Create(r) => store'[t][k] = Empty /\ (k \in Identity => store[t][k] = Absent)
        /\ Fill(r) => store[t][k] = Empty /\ store'[t][k] \in Runs
    BY <2>1, StoreEffect
  <2>3. CASE u # t \/ j # k
    BY <2>2, <2>3
  <2>4. CASE u = t /\ j = k
    BY <2>1, <2>2, <2>4, ValueFacts
  <2> QED
    BY <2>3, <2>4
<1> QED
  BY <1>1, <1>2

LEMMA PairStep ==
  ASSUME IInv, [Next]_vars
  PROVE  PairInv'
<1> USE DEF IInv
<1>1. CASE UNCHANGED store
  BY <1>1 DEF PairInv, PairOf
<1>2. CASE ~UNCHANGED store
  <2>1. PICK r \in Runs : (Create(r) \/ Fill(r)) /\ Step(r)
    BY <1>2, StoreChanges
  <2> DEFINE t == run[r].target
             k == Order[run[r].i]
  <2>2. /\ t \in Targets /\ k \in Keys /\ k \in Material(r) /\ Position[k] = run[r].i
        /\ run[r].i \in 1..5
        /\ \A u \in Targets, j \in Keys : u # t \/ j # k => store'[u][j] = store[u][j]
        /\ Create(r) => store'[t][k] = Empty
        /\ Fill(r) => store'[t][k] = Value(r, k) /\ Value(r, k) \in Runs
    BY <2>1, StoreEffect
  <2>3. t \in Targets /\ RetryOf(r) /\ ReuseOf(r) /\ StoredOf(r) /\ pc[r] \in {"create", "fill"}
    BY <2>1, BusyTarget DEF Create, Fill, At
  <2>4. {"host", "hostpub"} \subseteq Keys /\ {"host", "hostpub"} \subseteq Identity
    BY KeyFacts
  <2>5. PairOf(t) /\ \A u \in Targets \ {t} : PairOf(u)'
    BY <2>2, <2>4 DEF PairInv, PairOf
  <2>6. CASE k \notin HostKey
    <3>1. store'[t]["host"] = store[t]["host"] /\ store'[t]["hostpub"] = store[t]["hostpub"]
      BY <2>2, <2>4, <2>6 DEF HostKey
    <3> QED
      BY <2>2, <2>5, <3>1 DEF PairInv, PairOf
  <2>7. CASE k = "host"
    <3>1. "host" \notin run[r].reuse /\ "hostpub" \notin run[r].reuse
      BY <2>2, <2>3, <2>4, <2>7, MaterialKeys DEF ReuseOf, Storing
    <3>2. run[r].i = 3 /\ Position["hostpub"] = 4
      BY <2>2, <2>7 DEF Position
    <3>3. store[t]["hostpub"] = Absent
      BY <2>3, <2>4, <3>1, <3>2 DEF StoredOf, Storing, Here
    <3>4. store'[t]["hostpub"] = Absent
      BY <2>2, <2>4, <2>7, <3>3
    <3> QED
      BY <2>2, <2>5, <3>4, ValueFacts DEF PairInv, PairOf
  <2>8. CASE k = "hostpub"
    <3>1. "hostpub" \notin run[r].reuse /\ run[r].i = 4 /\ Position["host"] = 3
      BY <2>2, <2>4, <2>8, MaterialKeys DEF Position
    <3>2. run[r].hostpub = store[t]["host"] /\ store[t]["host"] \in Runs
      <4>1. CASE "host" \in run[r].reuse
        BY <2>3, <3>1, <4>1 DEF ReuseOf, Storing, Busy, Ended, Here
      <4>2. CASE "host" \notin run[r].reuse
        <5>1. "host" \in Material(r)
          BY <2>4, <4>2, MaterialKeys
        <5>2. Here(r)["host"] = Value(r, "host")
          BY <2>3, <3>1, <5>1 DEF StoredOf, Storing
        <5> QED
          BY <2>3, <3>1, <4>2, <5>2 DEF Value, Here, ReuseOf, Storing
      <4> QED
        BY <4>1, <4>2
    <3>3. store'[t]["host"] = store[t]["host"]
      BY <2>2, <2>4, <2>8
    <3>4. store'[t]["hostpub"] \in {Empty, store[t]["host"]}
      BY <2>1, <2>2, <2>8, <3>2 DEF Value
    <3> QED
      BY <2>2, <2>5, <3>2, <3>3, <3>4, ValueFacts DEF PairInv, PairOf
  <2> QED
    BY <2>6, <2>7, <2>8 DEF HostKey
<1> QED
  BY <1>1, <1>2

LEMMA RecordStep ==
  ASSUME IInv, [Next]_vars
  PROVE  RecordInv'
<1> USE DEF IInv
<1>1. CASE UNCHANGED record
  BY <1>1 DEF RecordInv, RecordOf
<1>2. ASSUME NEW r \in Runs, WriteRecord(r)
      PROVE  RecordInv'
  <2>1. RecordedKeys(r) = Identity
    BY RunTypes, KeyFacts DEF RecordedKeys, Material
  <2>2. run[r].target \in Targets /\ run[r].dir \in Dirs
    BY <1>2, RunTypes, BusyTarget DEF Step
  <2>3. \A d \in Dirs : record'[d] = IF d = run[r].dir THEN [target |-> run[r].target, keys |-> Identity]
                                                        ELSE record[d]
    BY <1>2, <2>1 DEF WriteRecord, TypeOK
  <2> QED
    BY <2>2, <2>3 DEF RecordInv, RecordOf
<1>3. ASSUME NEW r \in Runs, RemoveRecord(r)
      PROVE  RecordInv'
  <2>1. \A d \in Dirs : record'[d] = record[d] \/ record'[d] = NoRecord
    BY <1>3 DEF RemoveRecord, TypeOK
  <2> QED
    BY <2>1 DEF RecordInv, RecordOf
<1>4. ASSUME NEW r \in Runs, Begins(r) \/ Step(r) \/ Obey(r)
      PROVE  UNCHANGED record \/ WriteRecord(r) \/ RemoveRecord(r)
  BY <1>4 DEF Begins, Begin, Obey, Step, RefuseExisting, ReadRecord, Inspect, Repair, Generate,
     Guard, Create, Fill, HostPublic, SaveCompose, SaveManifest, Stop, disk
<1> QED
  BY <1>1, <1>2, <1>3, <1>4, NextCases DEF vars, disk

LEMMA ManifestStep ==
  ASSUME IInv, [Next]_vars
  PROVE  ManifestInv'
<1> USE DEF IInv
<1>1. ASSUME NEW d \in Dirs, manifest'[d] = manifest[d]
      PROVE  ManifestOf(d)'
  <2>1. SUFFICES ASSUME manifest[d] # NoManifest
                 PROVE  LET keys == store'[manifest[d].target] IN
                        /\ manifest[d].target \in Targets
                        /\ \A k \in Identity : keys[k] \in Runs
                        /\ keys["hostpub"] = manifest[d].hostpub
                        /\ manifest[d].named => keys["tls"] # Absent
    BY <1>1 DEF ManifestOf
  <2> DEFINE t == manifest[d].target
  <2>2. /\ t \in Targets /\ \A k \in Identity : store[t][k] \in Runs
        /\ store[t]["hostpub"] = manifest[d].hostpub
        /\ manifest[d].named => store[t]["tls"] # Absent
    BY <2>1 DEF ManifestInv, ManifestOf
  <2>3. /\ \A k \in Identity : store'[t][k] = store[t][k]
        /\ store[t]["tls"] # Absent => store'[t]["tls"] # Absent
    BY <2>2, StoreKeeps, KeyFacts
  <2>4. "hostpub" \in Identity
    BY KeyFacts
  <2> QED
    BY <2>2, <2>3, <2>4
<1>2. ASSUME NEW d \in Dirs, manifest'[d] = NoManifest
      PROVE  ManifestOf(d)'
  BY <1>2 DEF ManifestOf, NoManifest
<1>3. ASSUME NEW r \in Runs, SaveManifest(r)
      PROVE  ManifestInv'
  <2>1. run[r].target \in Targets /\ run[r].dir \in Dirs /\ StoredOf(r) /\ pc[r] = "manifest"
    BY <1>3, RunTypes, BusyTarget DEF Step, SaveManifest, At
  <2>2. /\ \A k \in Identity : store'[run[r].target][k] \in Runs
        /\ run[r].named => store'[run[r].target]["tls"] # Absent
        /\ store'[run[r].target]["hostpub"] = run[r].hostpub
    BY <1>3, <2>1 DEF StoredOf, Writing, Here, SaveManifest
  <2>3. \A d \in Dirs : manifest'[d] =
          IF d = run[r].dir
          THEN [target |-> run[r].target, hostpub |-> run[r].hostpub, named |-> run[r].named]
          ELSE manifest[d]
    BY <1>3 DEF SaveManifest, TypeOK
  <2>4. ASSUME NEW d \in Dirs, d = run[r].dir
        PROVE  ManifestOf(d)'
    <3>1. /\ manifest'[d].target = run[r].target /\ manifest'[d].named = run[r].named
          /\ manifest'[d].hostpub = run[r].hostpub
      BY <2>3, <2>4
    <3> QED
      BY <2>1, <2>2, <3>1 DEF ManifestOf
  <2>5. ASSUME NEW d \in Dirs, d # run[r].dir
        PROVE  ManifestOf(d)'
    BY <1>1, <2>3, <2>5
  <2> QED
    BY <2>4, <2>5 DEF ManifestInv
<1>4. ASSUME NEW r \in Runs, Obey(r)
      PROVE  ManifestInv'
  <2>1. \A d \in Dirs : manifest'[d] = manifest[d] \/ manifest'[d] = NoManifest
    BY <1>4, RunTypes DEF Obey, TypeOK
  <2> QED
    BY <1>1, <1>2, <2>1 DEF ManifestInv
<1>5. ASSUME NEW r \in Runs, Begins(r) \/ Step(r)
      PROVE  UNCHANGED manifest \/ SaveManifest(r)
  BY <1>5 DEF Begins, Begin, Step, RefuseExisting, ReadRecord, Inspect, Repair, Generate, WriteRecord,
     RemoveRecord, Guard, Create, Fill, HostPublic, SaveCompose, Stop, disk
<1> QED
  BY <1>1, <1>3, <1>4, <1>5, NextCases DEF ManifestInv, vars, disk

LEMMA RetryStep ==
  ASSUME IInv, NEW r \in Runs, Begins(r) \/ Step(r)
  PROVE  RetryOf(r)'
<1> USE DEF IInv
<1>1. CASE Begins(r)
  <2>1. PICK d \in Dirs, t \in Targets, named \in BOOLEAN : Begin(r, d, t, named)
    BY <1>1 DEF Begins
  <2>2. /\ pc'[r] = "exists" /\ record' = record
        /\ run'[r].dir = d /\ run'[r].target = t /\ run'[r].reuse = {} /\ run'[r].conflicts = {}
        /\ run'[r].i = 1 /\ (run'[r].retry => record[d].target = t)
    BY <2>1, BeginEffect
  <2> QED
    BY <2>2 DEF RetryOf
<1>2. CASE Step(r)
  <2> USE <1>2, RunTypes, RunRecord DEF Goto
  <2>1. run[r].target \in Targets /\ RetryOf(r)
    BY BusyTarget
  <2>2. CASE RefuseExisting(r)
    BY <2>1, <2>2 DEF RefuseExisting, At, RetryOf, TypeOK, disk
  <2>3. CASE ReadRecord(r)
    <3>1. /\ pc'[r] = "inspect" /\ pc[r] = "record"
          /\ run'[r] = [run[r] EXCEPT !.recorded =
               IF record[run[r].dir].target = run[r].target THEN record[run[r].dir].keys ELSE {}]
      BY <2>3 DEF ReadRecord, At, TypeOK
    <3>2. run[r].retry => record[run[r].dir].keys = Identity /\ record[run[r].dir].target = run[r].target
      <4>1. run[r].retry => record[run[r].dir].target = run[r].target
        BY <2>1, <3>1 DEF RetryOf
      <4>2. run[r].retry => record[run[r].dir] # NoRecord
        BY <2>1, <4>1, ValueFacts DEF NoRecord
      <4> QED
        BY <4>1, <4>2 DEF RecordInv, RecordOf
    <3>3. run[r].conflicts = {}
      BY <2>1, <3>1 DEF RetryOf
    <3>4. /\ run'[r].retry = run[r].retry /\ run'[r].conflicts = run[r].conflicts
          /\ run'[r].target = run[r].target
          /\ run[r].retry => run'[r].recorded = Identity
      BY <3>1, <3>2 DEF RunRecords
    <3> QED
      BY <2>1, <3>1, <3>3, <3>4 DEF RetryOf
  <2>4. CASE Inspect(r)
    <3> DEFINE k == Order[run[r].i]
    <3>1. /\ pc'[r] \in {"inspect", "refused", "repair"} /\ pc[r] = "inspect"
          /\ run'[r].target = run[r].target /\ run'[r].retry = run[r].retry
          /\ run'[r].recorded = run[r].recorded
      BY <2>4 DEF Inspect, At, TypeOK, RunRecords
    <3>2. run'[r].conflicts \subseteq run[r].conflicts
            \union (IF k \in Identity /\ k \notin run[r].recorded THEN {k} ELSE {})
      BY <2>4 DEF Inspect, RunRecords
    <3>3. run[r].retry => run[r].recorded = Identity /\ run[r].conflicts = {}
      BY <2>1, <3>1 DEF RetryOf
    <3>4. run[r].retry => run'[r].conflicts = {}
      BY <3>2, <3>3
    <3> QED
      BY <2>1, <3>1, <3>3, <3>4 DEF RetryOf
  <2>5. CASE ~RefuseExisting(r) /\ ~ReadRecord(r) /\ ~Inspect(r)
    <3>1. pc'[r] \notin {"exists", "record", "inspect"}
      BY <2>5 DEF Step, Repair, Generate, WriteRecord, Guard, Create, Fill, HostPublic, SaveCompose,
         SaveManifest, RemoveRecord, Stop, TypeOK, At
    <3>2. run'[r].target = run[r].target
      BY <2>5 DEF Step, Repair, Generate, WriteRecord, Guard, Create, Fill, HostPublic, SaveCompose,
         SaveManifest, RemoveRecord, Stop, Advance, RunRecords
    <3> QED
      BY <2>1, <3>1, <3>2 DEF RetryOf
  <2> QED
    BY <2>2, <2>3, <2>4, <2>5
<1> QED
  BY <1>1, <1>2

LEMMA ReuseStep ==
  ASSUME IInv, NEW r \in Runs, Begins(r) \/ Step(r), [Next]_vars
  PROVE  ReuseOf(r)'
<1> USE DEF IInv
<1>1. CASE Begins(r)
  <2>1. PICK d \in Dirs, t \in Targets, named \in BOOLEAN : Begin(r, d, t, named)
    BY <1>1 DEF Begins
  <2>2. pc'[r] = "exists" /\ run'[r].reuse = {}
    BY <2>1, BeginEffect
  <2> QED
    BY <2>2 DEF ReuseOf, Checked, Storing
<1>2. CASE Step(r)
  <2> USE <1>2, RunTypes, RunRecord DEF Goto
  <2>1. run[r].target \in Targets /\ RetryOf(r) /\ ReuseOf(r) /\ StoredOf(r) /\ Busy(r)
    BY BusyTarget, StepBusy
  <2>2. \A k \in run[r].reuse : Here(r)[k] \in Runs
    BY <2>1 DEF ReuseOf
  <2>3. \A k \in run[r].reuse : store'[run[r].target][k] = Here(r)[k]
    BY <2>1, <2>2, StoreKeeps, KeyFacts DEF Here
  <2>4. CASE Inspect(r)
    <3> DEFINE i == run[r].i
               k == Order[i]
    <3>1. pc[r] = "inspect" /\ UNCHANGED store /\ Here(r) \in [Keys -> Values]
      BY <2>1, <2>4 DEF Inspect, At, Here, TypeOK
    <3>2. \A j \in Identity \ (run[r].reuse \union run[r].conflicts) :
            Position[j] < i => Here(r)[j] = Absent
      BY <2>1, <3>1 DEF ReuseOf
    <3>3. CASE i <= 5 /\ ~(k \in Identity /\ Here(r)[k] = Empty) /\ pc' = pc
      <4>1. /\ run'[r] = [run[r] EXCEPT !.i = i + 1,
                 !.reuse = @ \union (IF (k \in Identity /\ Held(r, k)) /\ k \in run[r].recorded THEN {k} ELSE {}),
                 !.conflicts = @ \union (IF (k \in Identity /\ Held(r, k)) /\ k \notin run[r].recorded THEN {k} ELSE {})]
        <5>1. run' = [run EXCEPT ![r].i = i + 1,
                ![r].reuse = @ \union (IF (k \in Identity /\ Held(r, k)) /\ k \in run[r].recorded THEN {k} ELSE {}),
                ![r].conflicts = @ \union (IF (k \in Identity /\ Held(r, k)) /\ k \notin run[r].recorded THEN {k} ELSE {})]
          BY <2>4, <3>3, <3>1, OrderFacts DEF Inspect, At
        <5> QED
          BY <5>1
      <4>2. /\ run'[r].i = i + 1 /\ run'[r].target = run[r].target
            /\ run'[r].reuse = run[r].reuse \union (IF (k \in Identity /\ Held(r, k)) /\ k \in run[r].recorded THEN {k} ELSE {})
            /\ run'[r].conflicts = run[r].conflicts \union (IF (k \in Identity /\ Held(r, k)) /\ k \notin run[r].recorded THEN {k} ELSE {})
        BY <4>1 DEF RunRecords
      <4>3. Here(r)' = Here(r)
        BY <3>1, <4>2 DEF Here
      <4>4. Held(r, k) /\ k \in Identity => Here(r)[k] \in Runs
        BY <3>1, KeyFacts DEF Held, Values
      <4>5. \A j \in run'[r].reuse : Here(r)[j] \in Runs
        BY <2>2, <4>2, <4>4
      <4>6. \A j \in Identity \ (run'[r].reuse \union run'[r].conflicts) :
              Position[j] < i + 1 => Here(r)[j] = Absent
        <5>1. SUFFICES ASSUME NEW j \in Identity \ (run'[r].reuse \union run'[r].conflicts),
                              Position[j] < i + 1
                       PROVE  Here(r)[j] = Absent
          OBVIOUS
        <5>2. Position[j] \in 1..5 /\ Order[Position[j]] = j
          BY OrderFacts, KeyFacts
        <5>3. j \notin run[r].reuse /\ j \notin run[r].conflicts
          BY <4>2
        <5>4. CASE Position[j] < i
          BY <3>2, <5>3, <5>4
        <5>5. CASE Position[j] = i
          <6>1. j = k
            BY <5>2, <5>5
          <6>2. ~Held(r, k)
            BY <4>2, <6>1
          <6> QED
            BY <3>3, <6>1, <6>2 DEF Held
        <5> QED
          BY <5>1, <5>2, <5>4, <5>5
      <4> QED
        BY <3>1, <3>3, <4>2, <4>3, <4>5, <4>6 DEF ReuseOf, Checked, Storing
    <3>4. CASE i <= 5 /\ k \in Identity /\ Here(r)[k] = Empty /\ pc'[r] = "refused"
      BY <3>4 DEF ReuseOf, Checked, Storing, Busy, Ended
    <3>5. CASE i > 5 /\ run' = [run EXCEPT ![r].i = 1]
      <4>1. /\ run'[r].i = 1 /\ run'[r].target = run[r].target /\ run'[r].reuse = run[r].reuse
            /\ run'[r].conflicts = run[r].conflicts
        BY <3>5 DEF RunRecords
      <4>2. pc'[r] \in {"repair", "refused"} /\ (pc'[r] = "repair" => run[r].conflicts = {})
        BY <2>4, <3>5, OrderFacts DEF Inspect, TypeOK
      <4>3. Here(r)' = Here(r)
        BY <3>1, <4>1 DEF Here
      <4>4. ASSUME run[r].conflicts = {}
            PROVE  \A j \in Identity \ run[r].reuse : Here(r)[j] = Absent
        <5>1. \A j \in Identity : Position[j] < i
          BY <3>5, OrderFacts, KeyFacts
        <5> QED
          BY <3>2, <4>4, <5>1
      <4>5. ASSUME run[r].conflicts = {}, "hostpub" \in run[r].reuse
            PROVE  "host" \in run[r].reuse
        <5>1. Here(r)["host"] \in Runs
          BY <2>1, <2>2, <4>5, ValueFacts DEF PairInv, PairOf, Here
        <5> QED
          BY <4>4, <4>5, <5>1, ValueFacts, KeyFacts
      <4> QED
        BY <2>2, <4>1, <4>2, <4>3, <4>4, <4>5 DEF ReuseOf, Checked, Storing, Busy, Ended
    <3> QED
      BY <2>4, <3>3, <3>4, <3>5, OrderFacts DEF Inspect, TypeOK
  <2>5. CASE Repair(r)
    <3>1. /\ run'[r].reuse = run[r].reuse /\ run'[r].target = run[r].target /\ run'[r].i = run[r].i
          /\ UNCHANGED store /\ pc[r] = "repair" /\ pc'[r] \in {"refused", "generate"}
      BY <2>5 DEF Repair, At, TypeOK, RunRecords
    <3>2. "host" \in run[r].reuse /\ "hostpub" \notin run[r].reuse => run'[r].hostpub = Here(r)["host"]
      <4>1. SUFFICES ASSUME "host" \in run[r].reuse, "hostpub" \notin run[r].reuse
                     PROVE  run'[r].hostpub = Here(r)["host"]
        OBVIOUS
      <4>2. run[r].reuse \intersect HostKey = {"host"}
        BY <4>1 DEF HostKey
      <4>3. run' = [run EXCEPT ![r].hostpub = Here(r)["host"]]
        BY <2>5, <4>2 DEF Repair
      <4> QED
        BY <4>3 DEF RunRecords
    <3>3. "host" \notin run[r].reuse /\ "hostpub" \notin run[r].reuse => run'[r].hostpub = r
      <4>1. SUFFICES ASSUME "host" \notin run[r].reuse, "hostpub" \notin run[r].reuse
                     PROVE  run'[r].hostpub = r
        OBVIOUS
      <4>2. run[r].reuse \intersect HostKey = {}
        BY <4>1 DEF HostKey
      <4>3. run' = [run EXCEPT ![r].hostpub = r]
        BY <2>5, <4>2 DEF Repair
      <4> QED
        BY <4>3 DEF RunRecords
    <3>4. Here(r)' = Here(r)
      BY <3>1 DEF Here
    <3> QED
      BY <2>1, <2>2, <3>1, <3>2, <3>3, <3>4 DEF ReuseOf, Checked, Storing, Busy, Ended
  <2>6. CASE RefuseExisting(r) \/ ReadRecord(r)
    <3>1. pc'[r] \in {"refused", "record", "inspect"} /\ pc[r] \in {"exists", "record"}
      BY <2>6 DEF RefuseExisting, ReadRecord, At, TypeOK
    <3>2. run'[r].i = 1 /\ run'[r].reuse = {}
      BY <2>1, <2>6, <3>1 DEF RetryOf, RefuseExisting, ReadRecord, RunRecords
    <3>3. \A k \in Identity : ~(Position[k] < 1)
      BY OrderFacts, KeyFacts
    <3> QED
      BY <3>1, <3>2, <3>3 DEF ReuseOf, Checked, Storing
  <2>7. CASE ~Inspect(r) /\ ~Repair(r) /\ ~RefuseExisting(r) /\ ~ReadRecord(r)
    <3>1. run'[r].reuse = run[r].reuse /\ run'[r].target = run[r].target
      BY <2>7 DEF Step, Generate, WriteRecord, Guard, Create, Fill, HostPublic, SaveCompose,
         SaveManifest, RemoveRecord, Stop, Advance, RunRecords
    <3>2. \A k \in run'[r].reuse : Here(r)'[k] = Here(r)[k] /\ Here(r)[k] \in Runs
      BY <2>2, <2>3, <3>1 DEF Here
    <3>3. CASE Generate(r) \/ WriteRecord(r)
      <4>1. /\ UNCHANGED <<store, run>> /\ pc[r] \in {"generate", "write-record"}
            /\ pc'[r] \in {"write-record", "guard"}
        BY <3>3 DEF Generate, WriteRecord, At, TypeOK, disk
      <4>2. Here(r)' = Here(r)
        BY <4>1 DEF Here
      <4> QED
        BY <2>1, <3>2, <4>1, <4>2 DEF ReuseOf, Checked, Storing, Busy, Ended
    <3>4. CASE Guard(r) \/ Create(r) \/ Fill(r)
      <4>1. pc[r] \in Storing /\ pc'[r] \in Storing \union {"host-public", "failed"}
        BY <3>4 DEF Guard, Create, Fill, At, TypeOK, Storing
      <4>2. run'[r].hostpub = run[r].hostpub
        BY <3>4 DEF Guard, Create, Fill, Advance, RunRecords
      <4>3. "hostpub" \notin run[r].reuse =>
              run[r].hostpub = IF "host" \in run[r].reuse THEN Here(r)["host"] ELSE r
        BY <2>1, <4>1 DEF ReuseOf
      <4>4. "hostpub" \in run[r].reuse => "host" \in run[r].reuse
        BY <2>1, <4>1 DEF ReuseOf
      <4> QED
        BY <3>1, <3>2, <4>1, <4>2, <4>3, <4>4 DEF ReuseOf, Checked, Storing
    <3>5. CASE HostPublic(r) \/ SaveCompose(r) \/ SaveManifest(r) \/ RemoveRecord(r) \/ Stop(r)
      <4>1. pc'[r] \in Writing \union Ended
        BY <3>5 DEF HostPublic, SaveCompose, SaveManifest, RemoveRecord, Stop, TypeOK, Writing, Ended
      <4> QED
        BY <3>2, <4>1 DEF ReuseOf, Writing, Ended, Checked, Storing
    <3> QED
      BY <2>7, <3>3, <3>4, <3>5 DEF Step
  <2> QED
    BY <2>4, <2>5, <2>6, <2>7
<1> QED
  BY <1>1, <1>2

LEMMA StoredStep ==
  ASSUME IInv, NEW r \in Runs, Begins(r) \/ Step(r), [Next]_vars
  PROVE  StoredOf(r)'
<1> USE DEF IInv
<1>1. CASE Begins(r)
  <2>1. pc'[r] = "exists"
    BY <1>1, BeginEffect DEF Begins
  <2> QED
    BY <2>1 DEF StoredOf, Storing, Writing
<1>2. CASE Step(r)
  <2> USE <1>2, RunTypes, RunRecord DEF Goto
  <2> DEFINE i == run[r].i
             k == Order[i]
  <2>1. run[r].target \in Targets /\ RetryOf(r) /\ ReuseOf(r) /\ StoredOf(r) /\ Busy(r)
    BY BusyTarget, StepBusy
  <2>2. CASE RefuseExisting(r) \/ ReadRecord(r) \/ Inspect(r) \/ Repair(r) \/ Generate(r) \/ Stop(r)
    <3>1. pc'[r] \in Ended \union {"record", "inspect", "repair", "generate", "write-record"}
      BY <2>2 DEF RefuseExisting, ReadRecord, Inspect, Repair, Generate, Stop, At, TypeOK, Ended
    <3> QED
      BY <3>1 DEF StoredOf, Storing, Writing, Ended
  <2>3. CASE WriteRecord(r)
    <3>1. UNCHANGED <<store, run>> /\ pc[r] = "write-record" /\ pc'[r] = "guard"
      BY <2>3 DEF WriteRecord, At, TypeOK
    <3>2. i = 1 /\ \A j \in Identity \ run[r].reuse : Here(r)[j] = Absent
      BY <2>1, <3>1 DEF ReuseOf, Checked
    <3>3. \A j \in Material(r) : ~(Position[j] < i)
      BY <3>2, MaterialKeys, OrderFacts
    <3>4. Here(r)' = Here(r) /\ Material(r)' = Material(r)
      BY <3>1 DEF Here, Material
    <3> QED
      BY <3>1, <3>2, <3>3, <3>4 DEF StoredOf, Storing, Writing
  <2>4. CASE Guard(r)
    <3>1. UNCHANGED store /\ pc[r] = "guard"
      BY <2>4 DEF Guard, At
    <3>2. /\ \A j \in Material(r) : Position[j] < i => Here(r)[j] = Value(r, j)
          /\ \A j \in Identity \ run[r].reuse : Position[j] < i \/ Here(r)[j] = Absent
      BY <2>1, <3>1 DEF StoredOf, Storing
    <3>3. CASE i > 5 /\ pc'[r] = "host-public" /\ run' = run
      <4>1. \A j \in Material(r) : Here(r)[j] = Value(r, j)
        BY <3>2, <3>3, MaterialKeys, OrderFacts
      <4>2. "hostpub" \notin run[r].reuse => run[r].hostpub \in Runs
        BY <2>1, <3>1 DEF ReuseOf, Storing
      <4>3. \A j \in Identity : Here(r)[j] \in Runs
        <5>1. ASSUME NEW j \in Identity, j \in run[r].reuse
              PROVE  Here(r)[j] \in Runs
          BY <2>1, <5>1 DEF ReuseOf
        <5>2. ASSUME NEW j \in Identity, j \notin run[r].reuse
              PROVE  Here(r)[j] \in Runs
          BY <4>1, <4>2, <5>2, MaterialKeys DEF Value
        <5> QED
          BY <5>1, <5>2
      <4>4. run[r].named => Here(r)["tls"] # Absent
        BY <4>1, MaterialKeys, ValueFacts DEF Value
      <4>5. Here(r)' = Here(r)
        BY <3>1, <3>3 DEF Here
      <4> QED
        BY <3>3, <4>3, <4>4, <4>5 DEF StoredOf, Storing, Writing
    <3>4. CASE i <= 5 /\ k \notin Material(r) /\ run' = [run EXCEPT ![r].i = @ + 1] /\ pc' = pc
      <4>1. /\ run'[r].i = i + 1 /\ run'[r].reuse = run[r].reuse /\ run'[r].target = run[r].target
            /\ run'[r].hostpub = run[r].hostpub /\ run'[r].named = run[r].named
        BY <3>4 DEF RunRecords
      <4>2. Here(r)' = Here(r) /\ Material(r)' = Material(r) /\ \A j \in Keys : Value(r, j)' = Value(r, j)
        BY <3>1, <4>1 DEF Here, Material, Value
      <4>3. \A j \in Material(r) : Position[j] < i + 1 => Position[j] < i
        <5>1. SUFFICES ASSUME NEW j \in Material(r), Position[j] = i
                       PROVE  FALSE
          BY MaterialKeys, OrderFacts
        <5> QED
          BY <3>4, <5>1, MaterialKeys, OrderFacts
      <4>4. \A j \in Keys : Position[j] < i => Position[j] < i + 1
        BY OrderFacts
      <4>5. /\ \A j \in Material(r)' : Position[j] < run'[r].i => Here(r)'[j] = Value(r, j)'
            /\ \A j \in Identity \ run'[r].reuse : Position[j] < run'[r].i \/ Here(r)'[j] = Absent
        BY <3>2, <4>1, <4>2, <4>3, <4>4, MaterialKeys, KeyFacts
      <4> QED
        BY <3>1, <3>4, <4>5 DEF StoredOf, Storing, Writing
    <3>5. CASE i <= 5 /\ k \in Material(r) /\ run' = run /\ pc'[r] \in {"create", "failed"}
      <4>1. Here(r)' = Here(r) /\ Material(r)' = Material(r) /\ \A j \in Keys : Value(r, j)' = Value(r, j)
        BY <3>1, <3>5 DEF Here, Material, Value
      <4> QED
        BY <3>2, <3>5, <4>1, MaterialKeys DEF StoredOf, Storing, Writing
    <3> QED
      BY <2>4, <3>3, <3>4, <3>5, OrderFacts DEF Guard, Advance, TypeOK
  <2>5. CASE Create(r) \/ Fill(r)
    <3>1. /\ run[r].target \in Targets /\ k \in Keys /\ k \in Material(r) /\ Position[k] = i /\ i \in 1..5
          /\ \A j \in Keys : j # k => store'[run[r].target][j] = store[run[r].target][j]
          /\ Create(r) => store'[run[r].target][k] = Empty
          /\ Fill(r) => store'[run[r].target][k] = Value(r, k)
      BY <2>5, StoreEffect
    <3>2. pc[r] \in {"create", "fill"}
      BY <2>5 DEF Create, Fill, At
    <3>3. /\ \A j \in Material(r) : Position[j] < i => Here(r)[j] = Value(r, j)
          /\ \A j \in Identity \ run[r].reuse : j # k => Position[j] < i \/ Here(r)[j] = Absent
      <4>1. \A j \in Keys : Position[j] = i => j = k
        BY OrderFacts
      <4> QED
        BY <2>1, <3>2, <4>1, KeyFacts DEF StoredOf, Storing
    <3>4. CASE Create(r)
      <4>1. run' = run /\ pc'[r] = "fill"
        BY <3>4 DEF Create, TypeOK
      <4>2. Material(r)' = Material(r) /\ \A j \in Keys : Value(r, j)' = Value(r, j)
        BY <4>1 DEF Material, Value
      <4>3. \A j \in Material(r) : Position[j] < i => Here(r)'[j] = Value(r, j)
        BY <3>1, <3>3, <4>1, MaterialKeys DEF Here
      <4>4. \A j \in Identity \ run[r].reuse :
              Position[j] < i \/ Here(r)'[j] = Absent \/ Position[j] = i
        BY <3>1, <3>3, <4>1, KeyFacts DEF Here
      <4>5. Here(r)'[k] = Empty
        BY <3>1, <3>4, <4>1 DEF Here
      <4> QED
        BY <3>1, <4>1, <4>2, <4>3, <4>4, <4>5, MaterialKeys DEF StoredOf, Storing, Writing
    <3>5. CASE Fill(r)
      <4>1. run' = [run EXCEPT ![r].i = @ + 1] /\ pc'[r] = "guard"
        BY <3>5 DEF Fill, Advance, TypeOK
      <4>2. /\ run'[r].i = i + 1 /\ run'[r].reuse = run[r].reuse /\ run'[r].target = run[r].target
            /\ run'[r].hostpub = run[r].hostpub /\ run'[r].named = run[r].named
        BY <4>1 DEF RunRecords
      <4>3. Material(r)' = Material(r) /\ \A j \in Keys : Value(r, j)' = Value(r, j)
        BY <4>2 DEF Material, Value
      <4>4. \A j \in Keys : Position[j] < i + 1 <=> Position[j] < i \/ j = k
        BY <3>1, OrderFacts
      <4>5. \A j \in Material(r) : Position[j] < i + 1 => Here(r)'[j] = Value(r, j)
        BY <3>1, <3>3, <3>5, <4>2, <4>4, MaterialKeys DEF Here
      <4>6. \A j \in Identity \ run[r].reuse : Position[j] < i + 1 \/ Here(r)'[j] = Absent
        BY <3>1, <3>3, <4>2, <4>4, KeyFacts DEF Here
      <4>7. /\ \A j \in Material(r)' : Position[j] < run'[r].i => Here(r)'[j] = Value(r, j)'
            /\ \A j \in Identity \ run'[r].reuse : Position[j] < run'[r].i \/ Here(r)'[j] = Absent
        BY <4>2, <4>3, <4>5, <4>6, MaterialKeys
      <4> QED
        BY <4>1, <4>7 DEF StoredOf, Storing, Writing
    <3> QED
      BY <2>5, <3>4, <3>5
  <2>6. CASE HostPublic(r) \/ SaveCompose(r) \/ SaveManifest(r) \/ RemoveRecord(r)
    <3>1. pc[r] \in Writing /\ UNCHANGED store /\ pc'[r] \in (Writing \ {"host-public"}) \union Ended
      BY <2>6 DEF HostPublic, SaveCompose, SaveManifest, RemoveRecord, At, TypeOK, Writing, Ended
    <3>2. run'[r].target = run[r].target /\ run'[r].named = run[r].named
      BY <2>6 DEF HostPublic, SaveCompose, SaveManifest, RemoveRecord, RunRecords
    <3>3. run'[r].hostpub = Here(r)["hostpub"]
      <4>1. CASE HostPublic(r)
        BY <4>1 DEF HostPublic, RunRecords
      <4>2. CASE ~HostPublic(r)
        BY <2>1, <2>6, <4>2 DEF SaveCompose, SaveManifest, RemoveRecord, At, StoredOf, Writing
      <4> QED
        BY <4>1, <4>2
    <3>4. Here(r)' = Here(r)
      BY <3>1, <3>2 DEF Here
    <3>5. /\ \A j \in Identity : Here(r)[j] \in Runs
          /\ run[r].named => Here(r)["tls"] # Absent
      BY <2>1, <3>1 DEF StoredOf
    <3> QED
      BY <3>1, <3>2, <3>3, <3>4, <3>5 DEF StoredOf, Storing, Writing, Ended
  <2> QED
    BY <2>2, <2>3, <2>4, <2>5, <2>6 DEF Step
<1> QED
  BY <1>1, <1>2

LEMMA RunStep ==
  ASSUME IInv, [Next]_vars
  PROVE  RunInv'
<1>1. ASSUME NEW q \in Runs, pc'[q] = pc[q], run'[q] = run[q], ~Busy(q)
      PROVE  RetryOf(q)' /\ ReuseOf(q)' /\ StoredOf(q)'
  BY <1>1 DEF RetryOf, ReuseOf, StoredOf, Busy, Ended, Checked, Storing, Writing
<1>2. ASSUME NEW r \in Runs, Begins(r) \/ Step(r)
      PROVE  RunInv'
  BY <1>1, <1>2, OthersRest, RetryStep, ReuseStep, StoredStep DEF IInv, RunInv
<1>3. ASSUME NEW r \in Runs, Obey(r)
      PROVE  RunInv'
  BY <1>1, <1>3 DEF Obey, RunInv, Busy
<1>4. CASE UNCHANGED vars
  BY <1>4 DEF IInv, RunInv, RetryOf, ReuseOf, StoredOf, Busy, Here, Material, Value, vars, disk
<1> QED
  BY <1>2, <1>3, <1>4, NextCases

-----------------------------------------------------------------------------
LEMMA InitIInv == Exclusive /\ Init => IInv
<1> SUFFICES ASSUME Exclusive, Init PROVE IInv
  OBVIOUS
<1>1. \A r \in Runs : pc[r] = "idle"
  BY DEF Init
<1>2. NoRun \in RunRecords
  <2>1. (CHOOSE d \in Dirs : TRUE) \in Dirs
    BY DirsAssumption
  <2> QED
    BY <2>1 DEF NoRun, RunRecords, Values
<1>3. NoRecord \in [target : Targets \union {NoTarget}, keys : SUBSET Identity]
  BY DEF NoRecord
<1>4. NoManifest \in [target : Targets \union {NoTarget}, hostpub : Values, named : BOOLEAN]
  BY DEF NoManifest, Values
<1>5. TypeOK
  BY <1>2, <1>3, <1>4, OrderFacts DEF Init, TypeOK, RunRecords, Values, Steps, Ended
<1>6. Solo /\ RunInv
  BY <1>1 DEF Solo, RunInv, RetryOf, ReuseOf, StoredOf, Busy, Ended, Checked, Storing, Writing
<1>7. PairInv
  BY KeyFacts, ValueFacts DEF Init, PairInv, PairOf
<1>8. RecordInv /\ ManifestInv
  BY DEF Init, RecordInv, RecordOf, ManifestInv, ManifestOf
<1> QED
  BY <1>5, <1>6, <1>7, <1>8 DEF IInv

LEMMA StepIInv == IInv /\ [Next]_vars => IInv'
<1> SUFFICES ASSUME IInv, [Next]_vars PROVE IInv'
  OBVIOUS
<1>1. Solo' /\ TypeOK' /\ PairInv' /\ RecordInv' /\ ManifestInv' /\ RunInv'
  BY SoloStep, TypeStep, PairStep, RecordStep, ManifestStep, RunStep DEF IInv
<1> QED
  BY <1>1 DEF IInv

LEMMA IInvCorrect == Exclusive /\ Spec => []IInv
BY InitIInv, StepIInv, PTL DEF Spec

(* Every variable keeps its type. *)
THEOREM TypeCorrect == Exclusive /\ Spec => []TypeOK
BY IInvCorrect, PTL DEF IInv

(* INIT-003: the manifest is the last thing init writes, and every key it  *)
(* stands for is in the keystore by then, whatever the earlier attempts    *)
(* left there.                                                             *)
THEOREM IdentityIsThere == Exclusive /\ Spec => []BundleHasIdentity
<1>1. ASSUME IInv
      PROVE  BundleHasIdentity
  <2>1. SUFFICES ASSUME NEW d \in Dirs, manifest[d] # NoManifest
                 PROVE  LET keys == store[manifest[d].target] IN
                        /\ \A k \in Identity : keys[k] \in Runs
                        /\ keys["host"] = keys["hostpub"] /\ keys["hostpub"] = manifest[d].hostpub
                        /\ manifest[d].named => keys["tls"] # Absent
    BY DEF BundleHasIdentity, Complete
  <2>2. ManifestOf(d) /\ manifest[d].target \in Targets
    BY <1>1, <2>1 DEF IInv, ManifestInv, ManifestOf
  <2>3. PairOf(manifest[d].target)
    BY <1>1, <2>2 DEF IInv, PairInv
  <2> QED
    BY <2>1, <2>2, <2>3, KeyFacts DEF ManifestOf, PairOf
<1> QED
  BY <1>1, IInvCorrect, PTL

(* The rotation guard: what identifies an instance is stored once.         *)
THEOREM IdentityStays == Exclusive /\ Spec => IdentityNeverChanges
<1>1. IInv /\ [Next]_vars =>
        [\A t \in Targets, k \in {"secret", "host", "hostpub", "age"} :
           store[t][k] \in Runs => store'[t][k] = store[t][k]]_vars
  BY StoreKeeps, KeyFacts
<1> QED
  BY <1>1, IInvCorrect, PTL DEF Spec, IdentityNeverChanges

(* The resume record names every key of the identity before the first is   *)
(* stored, so that no retry takes its own keys for somebody else's.        *)
THEOREM RetryGoesThrough == Exclusive /\ Spec => RetryRefusedOnlyIfTorn
<1> DEFINE Justified(r) ==
      \/ Exists(run[r].dir)
      \/ \E k \in Identity : Here(r)[k] = Empty
      \/ \E d \in Dirs \ {run[r].dir} :
           run[r].target \in {record[d].target, manifest[d].target}
<1>1. ASSUME IInv, [Next]_vars, NEW r \in Runs, run[r].retry, pc[r] # "refused", pc'[r] = "refused"
      PROVE  Justified(r)
  <2> USE <1>1, RunTypes DEF IInv, Goto
  <2>1. Step(r)
    <3>1. PICK q \in Runs : Begins(q) \/ Step(q) \/ Obey(q)
      BY NextCases DEF vars
    <3>2. CASE Obey(q)
      BY <3>2 DEF Obey
    <3>3. CASE Begins(q)
      BY <3>3 DEF Begins, Begin, TypeOK
    <3>4. CASE Step(q)
      BY <3>4, OthersRest
    <3> QED
      BY <3>1, <3>2, <3>3, <3>4
  <2>2. run[r].target \in Targets /\ RetryOf(r) /\ ReuseOf(r) /\ StoredOf(r)
    BY <2>1, BusyTarget
  <2>3. CASE RefuseExisting(r)
    BY <2>3 DEF RefuseExisting, TypeOK
  <2>4. CASE Inspect(r)
    <3>1. pc[r] = "inspect"
      BY <2>4 DEF Inspect, At
    <3>2. run[r].conflicts = {}
      BY <2>2, <3>1 DEF RetryOf
    <3> QED
      BY <2>4, <3>1, <3>2 DEF Inspect, TypeOK
  <2>5. CASE Repair(r)
    <3>1. "hostpub" \in run[r].reuse => "host" \in run[r].reuse
      BY <2>2, <2>5 DEF Repair, At, ReuseOf, Checked
    <3>2. run[r].reuse \intersect HostKey # {"hostpub"}
      BY <3>1 DEF HostKey
    <3> QED
      BY <2>5, <3>2 DEF Repair, TypeOK
  <2>6. CASE ~RefuseExisting(r) /\ ~Inspect(r) /\ ~Repair(r)
    BY <2>1, <2>6 DEF Step, ReadRecord, Generate, WriteRecord, Guard, Create, Fill, HostPublic,
       SaveCompose, SaveManifest, RemoveRecord, Stop, TypeOK
  <2> QED
    BY <2>3, <2>4, <2>5, <2>6
<1>2. IInv /\ [Next]_vars =>
        [\A r \in Runs : run[r].retry /\ pc[r] # "refused" /\ pc'[r] = "refused" => Justified(r)]_vars
  BY <1>1
<1> QED
  BY <1>2, IInvCorrect, PTL DEF Spec, RetryRefusedOnlyIfTorn
=============================================================================
