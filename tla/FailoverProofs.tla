---------------------------- MODULE FailoverProofs ----------------------------
(* Proofs about Failover, for any hosts, writes, backups and bounds. *)
EXTENDS Failover, TLAPS

Flipping == {"flip", "delete", "create"}

Serving(h) == hosts[h].up /\ hosts[h].data # Torn /\ hosts[h].orphans = {}

(* What a promotion has done when it comes to a step. *)
PromotionInv ==
  /\ pr.phase \in Steps => pr.target # Primary /\ told = None
  /\ pr.phase \in {"verify", "keys", "reconcile", "place"} => pr.got \in Bodies
  /\ pr.phase \in {"keys", "reconcile", "place"} => pr.got # Torn
  /\ pr.phase = "place" => pr.orphans = {}
  /\ pr.phase \in {"reconcile", "place", "deploy"} \union Flipping => keystore = "held"
  /\ pr.phase \in {"deploy"} \union Flipping =>
       hosts[pr.target].data # Torn /\ hosts[pr.target].orphans = {}
  /\ pr.phase \in Flipping => hosts[pr.target].up

(* A change that is to be made by hand stays right to make.                *)
ToldInv ==
  told # None => told # Primary /\ Serving(told) /\ keystore = "held" /\ pr.phase = "done"

(* What is left to delete is all that is there. *)
RecordsInv ==
  /\ pr.phase = "delete" => records \subseteq pr.left
  /\ pr.phase = "create" => records = {}

(* A name in the destination keeps its snapshot, unless backups crowd. *)
ShownInv ==
  /\ \A b \in Backups : store[b] # None => store[b].body = Torn
  /\ ~crowded /\ ~pr.again =>
       /\ pr.phase \in {"review", "fetch"} =>
            /\ pr.key \in Keys
            /\ store[pr.key] # None => store[pr.key].body = pr.shown
            /\ pr.key \in Seconds => store[pr.key] # None
            /\ pr.key \in Backups => pr.shown = Torn
       /\ pr.phase \in {"verify", "keys", "reconcile", "place"} => pr.got = pr.shown

(* A backup that runs has a body that is no torn one and, if it is         *)
(* stamped, a time.                                                        *)
RunningInv ==
  \A b \in Backups : /\ Running(b) => backups[b].body \in Bodies \ {Torn}
                     /\ backups[b].phase \in {"stamped", "writing"} => backups[b].stamp \in Seconds

IInv == TypeOK /\ RunningInv /\ PromotionInv /\ ToldInv /\ RecordsInv /\ ShownInv

-----------------------------------------------------------------------------
Promotions ==
  [phase : Steps \union {"idle", "done"}, target : Hosts,
   key : Keys \union {None}, shown : Bodies \union {None}, again : BOOLEAN,
   got : Bodies \union {None}, orphans : SUBSET Tables,
   left : SUBSET [host : Hosts, type : RecordTypes]]

(* The steps of a promotion that change pr alone, or the records.          *)
LEMMA GotoEffect ==
  ASSUME TypeOK, NEW phase \in Steps \union {"idle", "done"}, Goto(phase)
  PROVE  /\ pr' \in Promotions /\ pr'.phase = phase
         /\ pr'.target = pr.target /\ pr'.key = pr.key /\ pr'.shown = pr.shown
         /\ pr'.again = pr.again /\ pr'.got = pr.got /\ pr'.orphans = pr.orphans
         /\ pr'.left = pr.left
BY DEF TypeOK, Goto, Promotions

LEMMA NoPromotionFacts ==
  NoPromotion \in Promotions /\ NoPromotion.phase = "idle"
BY PrimaryAssumption DEF NoPromotion, Promotions, Tables

LEMMA GivesUpEffect ==
  ASSUME GivesUp
  PROVE  pr' \in Promotions /\ pr'.phase = "idle"
BY NoPromotionFacts DEF GivesUp

LEMMA ListedFacts ==
  ASSUME TypeOK, NEW k \in Listed
  PROVE  k \in Keys /\ store[k] # None /\ store[k].body \in Bodies /\ store[k].modified \in Seconds
BY DEF TypeOK, Listed, Objects

LEMMA LatestFacts ==
  ASSUME TypeOK, NEW k \in Latest(Listed)
  PROVE  k \in Listed
BY DEF Latest

(* A promotion that has fetched a snapshot, or begins again.               *)
LEMMA ReviewEffect ==
  ASSUME TypeOK, NEW h \in Hosts, Review(h)
  PROVE  /\ pr' \in Promotions /\ pr'.phase = "review" /\ pr'.target = h /\ h # Primary
         /\ pr'.again = FALSE /\ pr'.key \in Latest(Listed) /\ pr'.key \in Listed
         /\ pr'.shown = store[pr'.key].body
         /\ told' = None /\ promotes' \in 0 .. MaxPromotes
<1>1. PICK k \in Latest(Listed) :
        pr' = [NoPromotion EXCEPT !.phase = "review", !.target = h, !.key = k,
                                  !.shown = store[k].body]
  BY DEF Review
<1>2. k \in Listed /\ k \in Keys /\ store[k].body \in Bodies
  BY ListedFacts, LatestFacts
<1>3. /\ pr' \in Promotions /\ pr'.phase = "review" /\ pr'.target = h
      /\ pr'.again = FALSE /\ pr'.key = k /\ pr'.shown = store[k].body
  BY <1>1, <1>2 DEF NoPromotion, Promotions, Steps, Tables
<1>4. h # Primary /\ told' = None /\ promotes' \in 0 .. MaxPromotes
  BY BoundsAssumption DEF Review, TypeOK
<1> QED
  BY <1>2, <1>3, <1>4

LEMMA ResubmitEffect ==
  ASSUME TypeOK, Resubmit
  PROVE  /\ pr' \in Promotions /\ pr'.phase = "fetch" /\ pr'.target = pr.target
         /\ pr'.again = TRUE /\ pr.phase = "review"
<1>1. PICK k \in Latest(Listed) : pr' = [pr EXCEPT !.phase = "fetch", !.key = k, !.again = TRUE]
  BY DEF Resubmit
<1>2. k \in Keys
  BY ListedFacts, LatestFacts
<1> QED
  BY <1>1, <1>2 DEF Resubmit, TypeOK, Promotions, Steps

LEMMA FetchEffect ==
  ASSUME TypeOK, Fetch
  PROVE  \/ GivesUp
         \/ /\ pr' \in Promotions /\ pr'.phase = "verify" /\ pr'.target = pr.target
            /\ pr'.again = pr.again /\ pr'.shown = pr.shown
            /\ pr.key \in Listed /\ pr'.got = store[pr.key].body /\ pr'.got \in Bodies
<1>1. ASSUME NEW k \in Fetched(pr.key),
             pr' = [pr EXCEPT !.phase = "verify", !.got = store[k].body, !.orphans = Tables]
      PROVE  /\ pr' \in Promotions /\ pr'.phase = "verify" /\ pr'.target = pr.target
             /\ pr'.again = pr.again /\ pr'.shown = pr.shown
             /\ pr.key \in Listed /\ pr'.got = store[pr.key].body /\ pr'.got \in Bodies
  <2>1. k = pr.key /\ k \in Listed
    BY DEF Fetched
  <2>2. store[k].body \in Bodies
    BY <2>1, ListedFacts
  <2> QED
    BY <1>1, <2>1, <2>2 DEF TypeOK, Promotions, Steps
<1> QED
  BY <1>1 DEF Fetch

(* What placing a snapshot leaves on the standby. *)
LEMMA PlaceEffect ==
  ASSUME TypeOK, PromotionInv, PlaceState
  PROVE  /\ hosts' \in [Hosts -> HostStates]
         /\ \A h \in Hosts \ {pr.target} : hosts'[h] = hosts[h]
         /\ pr.target \in Hosts /\ pr.phase = "place"
         /\ \/ GivesUp
            \/ /\ pr' \in Promotions /\ pr'.phase = "deploy" /\ pr'.target = pr.target
               /\ hosts'[pr.target].data # Torn /\ hosts'[pr.target].orphans = {}
         /\ hosts'[pr.target].data = Torn \/ hosts'[pr.target].data = pr.got.data
<1>1. pr.phase = "place" /\ pr.got \in Bodies \ {Torn} /\ pr.orphans = {} /\ pr.target \in Hosts
  BY DEF PlaceState, PromotionInv, TypeOK
<1>2. pr.got.data \in SUBSET Writes /\ pr.got.data # Torn
  BY <1>1, TornAssumption DEF Bodies
<1>3. hosts[pr.target] \in HostStates
  BY <1>1 DEF TypeOK
<1> DEFINE good == [hosts[pr.target] EXCEPT !.data = pr.got.data, !.orphans = pr.orphans]
           bad == [hosts[pr.target] EXCEPT !.data = Torn]
<1>4. /\ good \in HostStates /\ good.data = pr.got.data /\ good.orphans = {}
      /\ bad \in HostStates /\ bad.data = Torn
  BY <1>1, <1>2, <1>3 DEF HostStates
<1>5. \/ /\ hosts' = [hosts EXCEPT ![pr.target] = good]
         /\ pr' = [NoPromotion EXCEPT !.phase = "deploy", !.target = pr.target] \/ GivesUp
      \/ hosts' = [hosts EXCEPT ![pr.target] = bad] /\ GivesUp
  BY <1>1, <1>3 DEF PlaceState, TypeOK, HostStates
<1> HIDE DEF good, bad
<1>6. ASSUME pr' = [NoPromotion EXCEPT !.phase = "deploy", !.target = pr.target]
      PROVE  pr' \in Promotions /\ pr'.phase = "deploy" /\ pr'.target = pr.target
  BY <1>1, <1>6 DEF NoPromotion, Promotions, Steps, Tables
<1>7. hosts'[pr.target] = good \/ hosts'[pr.target] = bad
  BY <1>1, <1>5 DEF TypeOK
<1> QED
  BY <1>1, <1>2, <1>4, <1>5, <1>6, <1>7 DEF TypeOK

LEMMA DeployEffect ==
  ASSUME TypeOK, Deploy
  PROVE  /\ hosts' \in [Hosts -> HostStates]
         /\ \A h \in Hosts \ {pr.target} : hosts'[h] = hosts[h]
         /\ pr.target \in Hosts /\ pr.phase = "deploy"
         /\ hosts'[pr.target].up /\ hosts'[pr.target].data = hosts[pr.target].data
         /\ hosts'[pr.target].orphans = hosts[pr.target].orphans
         /\ Goto("flip") \/ GivesUp
<1>1. pr.target \in Hosts /\ hosts[pr.target] \in HostStates
  BY DEF TypeOK
<1> DEFINE new == [hosts[pr.target] EXCEPT !.up = TRUE]
<1>2. /\ new \in HostStates /\ new.up /\ new.data = hosts[pr.target].data
      /\ new.orphans = hosts[pr.target].orphans
  BY <1>1 DEF HostStates
<1>3. hosts' = [hosts EXCEPT ![pr.target] = new]
  BY DEF Deploy
<1> HIDE DEF new
<1> QED
  BY ZenonT(30), <1>1, <1>2, <1>3 DEF TypeOK, Deploy, Done

LEMMA AcceptEffect ==
  ASSUME TypeOK, NEW w \in Writes, NEW h \in Hosts, Accept(w, h)
  PROVE  /\ hosts' \in [Hosts -> HostStates]
         /\ \A g \in Hosts : /\ hosts'[g].up = hosts[g].up
                             /\ hosts'[g].orphans = hosts[g].orphans
                             /\ hosts[g].data # Torn => hosts'[g].data # Torn
<1>1. hosts[h] \in HostStates /\ hosts[h].data \in SUBSET Writes
  BY DEF Accept, TypeOK, HostStates
<1> DEFINE new == [hosts[h] EXCEPT !.data = @ \union {w}]
<1>2. /\ new \in HostStates /\ new.up = hosts[h].up /\ new.orphans = hosts[h].orphans
      /\ new.data = hosts[h].data \union {w}
  BY <1>1 DEF HostStates
<1>3. new.data # Torn
  BY <1>1, <1>2, TornAssumption
<1>4. hosts' = [hosts EXCEPT ![h] = new]
  BY DEF Accept
<1> HIDE DEF new
<1> QED
  BY <1>2, <1>3, <1>4 DEF TypeOK

LEMMA LoseEffect ==
  ASSUME TypeOK, LosePrimary
  PROVE  /\ hosts' \in [Hosts -> HostStates]
         /\ \A h \in Hosts \ {Primary} : hosts'[h] = hosts[h]
         /\ hosts'[Primary].data = hosts[Primary].data
<1>1. hosts[Primary] \in HostStates
  BY PrimaryAssumption DEF TypeOK
<1> DEFINE new == [hosts[Primary] EXCEPT !.up = FALSE]
<1>2. new \in HostStates /\ new.data = hosts[Primary].data
  BY <1>1 DEF HostStates
<1>3. hosts' = [hosts EXCEPT ![Primary] = new]
  BY DEF LosePrimary
<1> HIDE DEF new
<1> QED
  BY <1>2, <1>3, PrimaryAssumption DEF TypeOK

(* Steps of the world around and of backups leave the promotion alone.     *)
BackupStep(b) ==
  (\E h \in Hosts : Capture(b, h)) \/ Stamp(b) \/ BeginPut(b) \/ FinishPut(b) \/ EndBackup(b)

BackupRuns ==
  [phase : {"idle", "captured", "stamped", "writing", "done"},
   body : (Bodies \ {Torn}) \union {None}, stamp : Seconds \union {None}]

LEMMA NextCases ==
  ASSUME [Next]_vars
  PROVE  \/ Tick \/ LosePrimary \/ Fail \/ ApplyByHand \/ UNCHANGED vars
         \/ \E w \in Writes, h \in Hosts : Accept(w, h)
         \/ \E h \in Hosts : Resolve(h) \/ Expire(h) \/ Review(h)
         \/ \E b \in Backups : BackupStep(b)
         \/ Confirm \/ Resubmit \/ Fetch \/ DecryptAndVerify \/ InstallKeys \/ ReconcileCI
         \/ PlaceState \/ Deploy \/ List \/ Delete \/ Create \/ Update \/ PrintChange
BY DEF Next, Promote, BackupStep

LEMMA BackupTypes ==
  ASSUME TypeOK, RunningInv, NEW b \in Backups, BackupStep(b)
  PROVE  /\ store' \in [Keys -> Objects \union {None}] /\ backups' \in [Backups -> BackupRuns]
         /\ crowded' \in BOOLEAN /\ RunningInv' /\ (crowded => crowded')
<1> USE DEF TypeOK, RunningInv, Running
<1>0. /\ backups \in [Backups -> BackupRuns] /\ b \in Keys /\ Seconds \subseteq Keys
      /\ \A d \in BackupRuns : [d EXCEPT !.phase = "stamped"] \in BackupRuns
  BY DEF BackupRuns, Keys
<1>1. ASSUME NEW h \in Hosts, Capture(b, h)
      PROVE  /\ store' \in [Keys -> Objects \union {None}] /\ backups' \in [Backups -> BackupRuns]
             /\ crowded' \in BOOLEAN /\ RunningInv' /\ (crowded => crowded')
  <2> DEFINE body == [host |-> h, data |-> hosts[h].data]
             new == [phase |-> "captured", stamp |-> None, body |-> body]
  <2>1. body \in Bodies \ {Torn}
    <3>1. hosts[h].data \in SUBSET Writes
      BY <1>1 DEF Capture, HostStates
    <3> QED
      BY <3>1, TornAssumption DEF Bodies
  <2> HIDE DEF body
  <2>2. new \in BackupRuns /\ new.phase = "captured" /\ new.body = body
    BY <2>1 DEF BackupRuns
  <2>3. backups' = [backups EXCEPT ![b] = new] /\ store' = store
    BY <1>1 DEF Capture, body
  <2>4. crowded' \in BOOLEAN /\ (crowded => crowded')
    BY <1>1 DEF Capture
  <2> HIDE DEF new
  <2> QED
    BY <1>0, <2>1, <2>2, <2>3, <2>4
<1>2. CASE Stamp(b)
  <2> DEFINE new == [backups[b] EXCEPT !.phase = "stamped", !.stamp = now]
  <2>1. /\ new \in BackupRuns /\ new.phase = "stamped" /\ new.stamp = now
        /\ new.body = backups[b].body /\ new.body \in Bodies \ {Torn}
    BY <1>0, <1>2 DEF BackupRuns, Stamp
  <2>2. backups' = [backups EXCEPT ![b] = new] /\ UNCHANGED <<store, crowded>>
    BY <1>2 DEF Stamp
  <2> HIDE DEF new
  <2> QED
    BY <1>0, <2>1, <2>2
<1>3. CASE BeginPut(b)
  <2> DEFINE new == [backups[b] EXCEPT !.phase = "writing"]
  <2>1. /\ new \in BackupRuns /\ new.phase = "writing" /\ new.stamp \in Seconds
        /\ new.body = backups[b].body /\ new.body \in Bodies \ {Torn}
    BY <1>0, <1>3 DEF BackupRuns, BeginPut
  <2>2. backups' = [backups EXCEPT ![b] = new] /\ UNCHANGED crowded
    BY <1>3 DEF BeginPut
  <2>3. store' \in [Keys -> Objects \union {None}]
    BY <1>0, <1>3 DEF BeginPut, Objects, Bodies
  <2> HIDE DEF new
  <2> QED
    BY <1>0, <2>1, <2>2, <2>3
<1>4. CASE FinishPut(b) \/ EndBackup(b)
  <2> DEFINE new == [phase |-> "done", body |-> None, stamp |-> None]
  <2>1. new \in BackupRuns /\ new.phase = "done"
    BY DEF BackupRuns
  <2>2. backups' = [backups EXCEPT ![b] = new] /\ crowded' \in BOOLEAN /\ (crowded => crowded')
    BY <1>4 DEF FinishPut, EndBackup
  <2>3. store' \in [Keys -> Objects \union {None}]
    <3>1. CASE FinishPut(b)
      <4>1. /\ backups[b].stamp \in Seconds
            /\ [modified |-> now, body |-> backups[b].body] \in Objects
        BY <1>0, <3>1 DEF FinishPut, Objects
      <4> QED
        BY <1>0, <3>1, <4>1 DEF FinishPut
    <3>2. CASE EndBackup(b)
      BY <1>0, <3>2 DEF EndBackup
    <3> QED
      BY <1>4, <3>1, <3>2
  <2> HIDE DEF new
  <2> QED
    BY <1>0, <2>1, <2>2, <2>3
<1> QED
  BY <1>1, <1>2, <1>3, <1>4 DEF BackupStep

(* What a backup does to the names in the destination: its own is torn     *)
(* until it is whole, and a second's changes only when backups crowd.      *)
LEMMA BackupKeys ==
  ASSUME TypeOK, RunningInv, ShownInv, NEW b \in Backups, BackupStep(b)
  PROVE  /\ \A o \in Backups : store'[o] # None => store'[o].body = Torn
         /\ \A k \in Seconds : store[k] # None /\ ~crowded' => store'[k] = store[k]
         /\ UNCHANGED <<now, hosts, cached, records, told, local, keystore, driver, pr, promotes,
                        accepted, replaced>>
<1>0. /\ \A o \in Backups : store[o] # None => store[o].body = Torn
      /\ store \in [Keys -> Objects \union {None}]
      /\ b \in Keys /\ Seconds \subseteq Keys /\ Backups \subseteq Keys
      /\ \A k \in Seconds : k \notin Backups
  BY KeysAssumption DEF ShownInv, TypeOK, Keys
<1>1. CASE (\E h \in Hosts : Capture(b, h)) \/ Stamp(b)
  BY <1>0, <1>1 DEF Capture, Stamp
<1>2. CASE BeginPut(b)
  <2>1. store' = [store EXCEPT ![b] = [modified |-> now, body |-> Torn]]
    BY <1>2 DEF BeginPut
  <2> QED
    BY <1>0, <1>2, <2>1 DEF BeginPut
<1>3. CASE EndBackup(b)
  <2>1. \E file \in {None, store[b]} : store' = [store EXCEPT ![b] = file]
    BY <1>3 DEF EndBackup
  <2> QED
    BY <1>0, <1>3, <2>1 DEF EndBackup
<1>4. CASE FinishPut(b)
  <2> DEFINE k == backups[b].stamp
  <2>1. k \in Seconds
    BY <1>4 DEF FinishPut, RunningInv
  <2>2. \A o \in Keys : /\ o # b /\ o # k => store'[o] = store[o]
                        /\ o = b => store'[o] = None
    BY <1>0, <1>4, <2>1 DEF FinishPut
  <2>3. store[k] # None => crowded'
    BY <1>4 DEF FinishPut
  <2> QED
    BY <1>0, <1>4, <2>1, <2>2, <2>3 DEF FinishPut
<1> QED
  BY <1>1, <1>2, <1>3, <1>4 DEF BackupStep

-----------------------------------------------------------------------------
(* The parts of the type invariant a promotion may change. *)
LEMMA PromotionTypes ==
  ASSUME TypeOK, pr' \in Promotions, hosts' \in [Hosts -> HostStates],
         records' \subseteq [host : Hosts, type : RecordTypes], told' \in Hosts \union {None},
         keystore' \in {"absent", "part", "held", "other"}, promotes' \in 0 .. MaxPromotes,
         replaced' \subseteq Hosts,
         UNCHANGED <<now, cached, local, backups, store, driver, accepted, crowded>>
  PROVE  TypeOK'
BY DEF TypeOK, Promotions

LEMMA RecordFacts ==
  ASSUME NEW h \in Hosts
  PROVE  RecordFor(h) \in [host : Hosts, type : RecordTypes] /\ RecordFor(h).host = h
BY DEF RecordFor, RecordTypes

LEMMA PrTypes == TypeOK => pr \in Promotions
BY DEF TypeOK, Promotions

LEMMA DeleteEffect ==
  ASSUME TypeOK, Delete
  PROVE  \/ pr.left = {} /\ Goto("create") /\ UNCHANGED records
         \/ /\ records' \subseteq records /\ GivesUp
         \/ \E r \in pr.left :
              /\ records' = records \ {r}
              /\ pr' \in Promotions /\ pr'.phase = "delete" /\ pr'.target = pr.target
              /\ pr'.left = pr.left \ {r}
BY DEF Delete, TypeOK, Promotions, Steps

LEMMA ListEffect ==
  ASSUME TypeOK, List
  PROVE  /\ pr' \in Promotions /\ pr'.phase = "delete" /\ pr'.target = pr.target
         /\ pr'.left = records /\ pr.phase = "flip"
BY DEF List, Stale, TypeOK, Promotions, Steps

LEMMA ReconcileEffect ==
  ASSUME TypeOK, ReconcileCI
  PROVE  /\ pr' \in Promotions /\ pr'.phase = "place" /\ pr'.target = pr.target
         /\ pr'.orphans = {} /\ pr'.got = pr.got /\ pr'.shown = pr.shown /\ pr'.again = pr.again
         /\ pr.phase = "reconcile"
BY DEF ReconcileCI, Reconciled, TypeOK, Promotions, Steps, Tables

LEMMA TypeStep ==
  ASSUME TypeOK, RunningInv, PromotionInv, [Next]_vars
  PROVE  TypeOK'
<1> USE DEF Rest
<1>0. pr \in Promotions
  BY PrTypes
<1>1. CASE Tick
  BY <1>1, BoundsAssumption DEF Tick, TypeOK, Seconds, Keys, Objects, Bodies
<1>2. CASE LosePrimary
  BY <1>2, LoseEffect DEF LosePrimary, TypeOK
<1>3. CASE Fail
  BY <1>3, GivesUpEffect, PromotionTypes DEF Fail, TypeOK
<1>4. CASE ApplyByHand
  <2>1. records' \subseteq [host : Hosts, type : RecordTypes]
    BY <1>4, RecordFacts DEF ApplyByHand, TypeOK
  <2> QED
    BY <1>0, <1>4, <2>1, PromotionTypes DEF ApplyByHand, TypeOK
<1>5. CASE UNCHANGED vars
  BY <1>5 DEF vars, TypeOK
<1>6. ASSUME NEW w \in Writes, NEW h \in Hosts, Accept(w, h) PROVE TypeOK'
  <2>1. hosts' \in [Hosts -> HostStates]
    BY <1>6, AcceptEffect
  <2>2. /\ accepted' \subseteq Writes
        /\ UNCHANGED <<now, cached, records, told, store, local, backups, keystore,
                       driver, pr, promotes, crowded, replaced>>
    BY <1>6 DEF Accept, TypeOK
  <2> QED
    BY <2>1, <2>2 DEF TypeOK
<1>7. ASSUME NEW h \in Hosts, Resolve(h) \/ Expire(h) PROVE TypeOK'
  BY <1>7 DEF Resolve, Expire, TypeOK
<1>8. ASSUME NEW h \in Hosts, Review(h) PROVE TypeOK'
  BY <1>8, ReviewEffect, PromotionTypes DEF Review, TypeOK
<1>9. ASSUME NEW b \in Backups, BackupStep(b) PROVE TypeOK'
  <2>1. UNCHANGED <<now, hosts, cached, records, told, local, keystore, driver, pr, promotes,
                    accepted, replaced>>
    BY <1>9 DEF BackupStep, Capture, Stamp, BeginPut, FinishPut, EndBackup
  <2> QED
    BY <1>9, <2>1, BackupTypes DEF TypeOK, BackupRuns
<1>10. CASE Confirm \/ DecryptAndVerify
  <2>1. \E phase \in Steps \union {"idle", "done"} : Goto(phase) \/ GivesUp
    BY <1>10 DEF Confirm, DecryptAndVerify, Steps
  <2> QED
    BY <1>10, <2>1, GotoEffect, GivesUpEffect, PromotionTypes DEF Confirm, DecryptAndVerify, TypeOK
<1>11. CASE Resubmit
  BY <1>11, ResubmitEffect, PromotionTypes DEF Resubmit, TypeOK
<1>12. CASE Fetch
  BY <1>12, FetchEffect, GivesUpEffect, PromotionTypes DEF Fetch, TypeOK
<1>13. CASE InstallKeys
  <2>1. Goto("reconcile") \/ GivesUp
    BY <1>13 DEF InstallKeys, Done
  <2>2. keystore' \in {"absent", "part", "held", "other"}
    BY <1>13 DEF InstallKeys, TypeOK
  <2> QED
    BY <1>13, <2>1, <2>2, GotoEffect, GivesUpEffect, PromotionTypes DEF InstallKeys, TypeOK, Steps
<1>14. CASE ReconcileCI
  BY <1>14, ReconcileEffect, PromotionTypes DEF ReconcileCI, TypeOK
<1>15. CASE PlaceState
  BY <1>15, PlaceEffect, GivesUpEffect, PromotionTypes DEF PlaceState, TypeOK
<1>16. CASE Deploy
  BY <1>16, DeployEffect, GotoEffect, GivesUpEffect, PromotionTypes DEF Deploy, TypeOK, Steps
<1>17. CASE List
  BY <1>17, ListEffect, PromotionTypes DEF List, TypeOK
<1>18. CASE Delete
  <2>1. records' \subseteq records /\ pr' \in Promotions
    BY <1>18, DeleteEffect, GotoEffect, GivesUpEffect DEF Steps
  <2> QED
    BY <1>18, <2>1, PromotionTypes DEF Delete, TypeOK
<1>19. CASE Create \/ Update \/ PrintChange
  <2>1. pr.target \in Hosts
    BY <1>0 DEF Promotions
  <2>2. records' \subseteq [host : Hosts, type : RecordTypes] /\ told' \in Hosts \union {None}
    BY <1>19, <2>1, RecordFacts DEF Create, Update, PrintChange, TypeOK
  <2>3. Goto("done") \/ GivesUp
    BY <1>19 DEF Create, Update, PrintChange, Done
  <2>4. pr' \in Promotions
    BY <2>3, GotoEffect, GivesUpEffect
  <2> QED
    BY <1>19, <2>2, <2>4, PromotionTypes DEF Create, Update, PrintChange, TypeOK
<1> QED
  BY NextCases, <1>1, <1>2, <1>3, <1>4, <1>5, <1>6, <1>7, <1>8, <1>9, <1>10, <1>11, <1>12, <1>13,
     <1>14, <1>15, <1>16, <1>17, <1>18, <1>19

(* A promotion that gave up asks for nothing any more. *)
LEMMA IdlePromotion ==
  ASSUME pr'.phase = "idle"
  PROVE  PromotionInv' /\ RecordsInv'
BY DEF PromotionInv, RecordsInv, Steps, Flipping

LEMMA PromotionStep ==
  ASSUME TypeOK, RunningInv, ShownInv, PromotionInv, ToldInv, RecordsInv, [Next]_vars
  PROVE  PromotionInv' /\ RecordsInv' /\ ToldInv'
<1> USE DEF Rest, Steps, Flipping
<1>0. pr \in Promotions /\ pr.target \in Hosts
  BY PrTypes DEF Promotions
<1>1. CASE Tick \/ UNCHANGED vars \/ \E h \in Hosts : Resolve(h) \/ Expire(h)
  BY <1>1 DEF Tick, vars, Resolve, Expire, PromotionInv, RecordsInv, ToldInv, Serving
<1>2. ASSUME NEW b \in Backups, BackupStep(b) PROVE PromotionInv' /\ RecordsInv' /\ ToldInv'
  BY <1>2, BackupKeys DEF PromotionInv, RecordsInv, ToldInv, Serving
<1>3. CASE LosePrimary
  <2>1. told \in Hosts \union {None}
    BY DEF TypeOK
  <2> QED
    BY <1>0, <1>3, <2>1, LoseEffect
       DEF LosePrimary, PromotionInv, RecordsInv, ToldInv, Serving
<1>4. ASSUME NEW w \in Writes, NEW h \in Hosts, Accept(w, h)
      PROVE PromotionInv' /\ RecordsInv' /\ ToldInv'
  <2>1. told \in Hosts \union {None}
    BY DEF TypeOK
  <2> QED
    BY <1>0, <1>4, <2>1, AcceptEffect DEF Accept, PromotionInv, RecordsInv, ToldInv, Serving
<1>5. CASE Fail
  <2>1. told' = None
    BY <1>5 DEF Fail, PromotionInv
  <2> QED
    BY <1>5, <2>1, GivesUpEffect, IdlePromotion DEF Fail, ToldInv
<1>6. CASE ApplyByHand
  <2>1. pr.phase = "done" /\ pr' = pr /\ told' = None
    BY <1>6 DEF ApplyByHand, ToldInv
  <2> QED
    BY <2>1 DEF PromotionInv, RecordsInv, ToldInv
<1>7. ASSUME NEW h \in Hosts, Review(h) PROVE PromotionInv' /\ RecordsInv' /\ ToldInv'
  BY <1>7, ReviewEffect DEF PromotionInv, RecordsInv, ToldInv
<1>8. ASSUME pr.phase \in Steps PROVE told = None /\ pr.target # Primary
  BY <1>8 DEF PromotionInv
<1>9. CASE Confirm
  BY <1>8, <1>9, GotoEffect DEF Confirm, PromotionInv, RecordsInv, ToldInv
<1>10. CASE Resubmit
  BY <1>8, <1>10, ResubmitEffect DEF Resubmit, PromotionInv, RecordsInv, ToldInv
<1>11. CASE Fetch
  <2>1. pr.phase = "fetch" /\ UNCHANGED told
    BY <1>11 DEF Fetch
  <2>2. CASE GivesUp
    BY <1>8, <2>1, <2>2, GivesUpEffect, IdlePromotion DEF ToldInv
  <2>3. CASE pr'.phase = "verify" /\ pr'.target = pr.target /\ pr'.got \in Bodies
    BY <1>8, <2>1, <2>3 DEF PromotionInv, RecordsInv, ToldInv
  <2> QED
    BY <1>11, <2>2, <2>3, FetchEffect
<1>12. CASE DecryptAndVerify
  <2>1. pr.phase = "verify" /\ UNCHANGED told
    BY <1>12 DEF DecryptAndVerify
  <2>2. CASE GivesUp
    BY <1>8, <2>1, <2>2, GivesUpEffect, IdlePromotion DEF ToldInv
  <2>3. CASE Goto("keys") /\ pr.got # Torn
    BY <1>8, <2>1, <2>3, GotoEffect DEF PromotionInv, RecordsInv, ToldInv
  <2> QED
    BY <1>12, <2>2, <2>3 DEF DecryptAndVerify, Verified
<1>13. CASE InstallKeys
  <2>1. pr.phase = "keys" /\ UNCHANGED told
    BY <1>13 DEF InstallKeys
  <2>2. CASE GivesUp
    BY <1>8, <2>1, <2>2, GivesUpEffect, IdlePromotion DEF ToldInv
  <2>3. CASE Goto("reconcile") /\ keystore' = "held"
    BY <1>8, <2>1, <2>3, GotoEffect DEF PromotionInv, RecordsInv, ToldInv
  <2> QED
    BY <1>13, <2>2, <2>3 DEF InstallKeys, Done
<1>14. CASE ReconcileCI
  BY <1>8, <1>14, ReconcileEffect DEF ReconcileCI, PromotionInv, RecordsInv, ToldInv
<1>15. CASE PlaceState
  <2>1. pr.phase = "place" /\ UNCHANGED <<told, keystore, records>> /\ keystore = "held"
    BY <1>15 DEF PlaceState, PromotionInv
  <2>2. CASE GivesUp
    BY <1>8, <2>1, <2>2, GivesUpEffect, IdlePromotion DEF ToldInv
  <2>3. CASE /\ pr'.phase = "deploy" /\ pr'.target = pr.target
             /\ hosts'[pr.target].data # Torn /\ hosts'[pr.target].orphans = {}
    BY <1>8, <2>1, <2>3 DEF PromotionInv, RecordsInv, ToldInv
  <2> QED
    BY <1>15, <2>2, <2>3, PlaceEffect
<1>16. CASE Deploy
  <2>1. pr.phase = "deploy" /\ UNCHANGED <<told, keystore, records>> /\ keystore = "held"
    BY <1>16 DEF Deploy, PromotionInv
  <2>2. CASE GivesUp
    BY <1>8, <2>1, <2>2, GivesUpEffect, IdlePromotion DEF ToldInv
  <2>3. CASE Goto("flip")
    BY <1>8, <1>16, <2>1, <2>3, DeployEffect, GotoEffect DEF PromotionInv, RecordsInv, ToldInv
  <2> QED
    BY <1>16, <2>2, <2>3, DeployEffect
<1>17. CASE List
  BY <1>8, <1>17, ListEffect DEF List, PromotionInv, RecordsInv, ToldInv
<1>18. CASE Delete
  <2>1. pr.phase = "delete" /\ UNCHANGED <<hosts, told, keystore>>
    BY <1>18 DEF Delete
  <2>2. CASE GivesUp
    BY <1>8, <2>1, <2>2, GivesUpEffect, IdlePromotion DEF ToldInv
  <2>3. CASE pr.left = {} /\ Goto("create") /\ UNCHANGED records
    BY <1>8, <2>1, <2>3, GotoEffect DEF PromotionInv, RecordsInv, ToldInv
  <2>4. ASSUME NEW r \in pr.left, records' = records \ {r}, pr'.phase = "delete",
               pr'.target = pr.target, pr'.left = pr.left \ {r}
        PROVE  PromotionInv' /\ RecordsInv' /\ ToldInv'
    BY <1>8, <2>1, <2>4 DEF PromotionInv, RecordsInv, ToldInv
  <2> QED
    BY <1>18, <2>2, <2>3, <2>4, DeleteEffect
<1>19. CASE Create \/ Update
  <2>1. pr.phase \in Steps /\ UNCHANGED told
    BY <1>19 DEF Create, Update
  <2>2. CASE GivesUp
    BY <1>8, <2>1, <2>2, GivesUpEffect, IdlePromotion DEF ToldInv
  <2>3. CASE Goto("done")
    BY <1>8, <2>1, <2>3, GotoEffect DEF PromotionInv, RecordsInv, ToldInv
  <2> QED
    BY <1>19, <2>2, <2>3 DEF Create, Update, Done
<1>20. CASE PrintChange
  <2>1. /\ pr.phase = "flip" /\ UNCHANGED <<hosts, keystore, records>> /\ told' = pr.target
        /\ Goto("done")
    BY <1>20 DEF PrintChange
  <2>2. pr'.phase = "done"
    BY <2>1, GotoEffect
  <2>3. ToldInv'
    BY <1>8, <2>1, <2>2 DEF PromotionInv, ToldInv, Serving
  <2> QED
    BY <2>2, <2>3 DEF PromotionInv, RecordsInv
<1> QED
  BY NextCases, <1>1, <1>2, <1>3, <1>4, <1>5, <1>6, <1>7, <1>9, <1>10, <1>11, <1>12, <1>13,
     <1>14, <1>15, <1>16, <1>17, <1>18, <1>19, <1>20

(* The snapshot that was shown is the one under its name, to the end. *)
LEMMA ShownStep ==
  ASSUME TypeOK, RunningInv, ShownInv, PromotionInv, [Next]_vars
  PROVE  ShownInv'
<1> USE DEF Rest, Steps, Flipping
<1>1. ASSUME NEW b \in Backups, BackupStep(b) PROVE ShownInv'
  <2>1. crowded => crowded'
    BY <1>1, BackupTypes
  <2> QED
    BY <1>1, <2>1, BackupKeys DEF ShownInv, Keys
<1>2. CASE UNCHANGED <<store, crowded>> /\ pr'.phase \notin {"review", "fetch", "verify", "keys", "reconcile", "place"}
  BY <1>2 DEF ShownInv
<1>3. CASE UNCHANGED <<store, crowded, pr>>
  BY <1>3 DEF ShownInv
<1>4. ASSUME NEW h \in Hosts, Review(h) PROVE ShownInv'
  <2>1. pr'.key \in Keys /\ store[pr'.key] # None /\ pr'.shown = store[pr'.key].body /\ pr'.phase = "review"
    BY <1>4, ReviewEffect, ListedFacts
  <2> QED
    BY <1>4, <2>1 DEF Review, ShownInv
<1>5. CASE Confirm
  BY <1>5, GotoEffect DEF Confirm, ShownInv
<1>6. CASE Resubmit
  BY <1>6, ResubmitEffect DEF Resubmit, ShownInv
<1>7. CASE Fetch
  <2>1. CASE GivesUp
    BY <1>2, <1>7, <2>1, GivesUpEffect DEF Fetch
  <2>2. CASE /\ pr'.phase = "verify" /\ pr'.again = pr.again /\ pr'.shown = pr.shown
             /\ pr.key \in Listed /\ pr'.got = store[pr.key].body
    BY <1>7, <2>2, ListedFacts DEF Fetch, ShownInv
  <2> QED
    BY <1>7, <2>1, <2>2, FetchEffect
<1>8. CASE DecryptAndVerify \/ InstallKeys
  <2>1. UNCHANGED <<store, crowded>> /\ pr.phase \in {"verify", "keys"}
    BY <1>8 DEF DecryptAndVerify, InstallKeys
  <2>2. CASE GivesUp
    BY <1>2, <2>1, <2>2, GivesUpEffect
  <2>3. CASE \E phase \in {"keys", "reconcile"} : Goto(phase)
    BY <2>1, <2>3, GotoEffect DEF ShownInv
  <2> QED
    BY <1>8, <2>2, <2>3 DEF DecryptAndVerify, InstallKeys, Done
<1>9. CASE ReconcileCI
  BY <1>9, ReconcileEffect DEF ReconcileCI, ShownInv
<1>10. CASE PlaceState
  BY <1>2, <1>10, PlaceEffect, GivesUpEffect DEF PlaceState
<1>11. CASE Deploy \/ Create \/ Update \/ PrintChange
  <2>1. (\E phase \in {"flip", "done"} : Goto(phase)) \/ GivesUp
    BY <1>11 DEF Deploy, Create, Update, PrintChange, Done
  <2>2. UNCHANGED <<store, crowded>>
    BY <1>11 DEF Deploy, Create, Update, PrintChange
  <2> QED
    BY <1>2, <2>1, <2>2, GotoEffect, GivesUpEffect
<1>12. CASE List
  BY <1>2, <1>12, ListEffect DEF List
<1>13. CASE Delete
  BY <1>2, <1>13, DeleteEffect, GotoEffect, GivesUpEffect DEF Delete
<1>14. CASE Fail
  BY <1>2, <1>14, GivesUpEffect DEF Fail
<1>15. CASE \/ Tick \/ LosePrimary \/ ApplyByHand \/ UNCHANGED vars
            \/ \E w \in Writes, h \in Hosts : Accept(w, h)
            \/ \E h \in Hosts : Resolve(h) \/ Expire(h)
  BY <1>3, <1>15 DEF Tick, LosePrimary, ApplyByHand, Accept, Resolve, Expire, vars
<1> QED
  BY NextCases, <1>1, <1>4, <1>5, <1>6, <1>7, <1>8, <1>9, <1>10, <1>11, <1>12, <1>13, <1>14, <1>15

LEMMA RunningStep ==
  ASSUME TypeOK, RunningInv, [Next]_vars
  PROVE  RunningInv'
<1>1. ASSUME NEW b \in Backups, BackupStep(b) PROVE RunningInv'
  BY <1>1, BackupTypes
<1>2. CASE UNCHANGED backups
  BY <1>2 DEF RunningInv, Running
<1> QED
  BY <1>1, <1>2, NextCases DEF Tick, LosePrimary, ApplyByHand, Accept, Resolve, Expire, vars, Rest,
     Fail, Review, Confirm, Resubmit, Fetch, DecryptAndVerify, InstallKeys, ReconcileCI, PlaceState,
     Deploy, List, Delete, Create, Update, PrintChange

-----------------------------------------------------------------------------
LEMMA InitIInv == Init => IInv
<1> SUFFICES ASSUME Init PROVE IInv
  OBVIOUS
<1> USE DEF Init
<1>1. NoPromotion \in Promotions /\ NoPromotion.phase = "idle"
  BY NoPromotionFacts
<1>2. \A h \in Hosts : [up |-> h = Primary, data |-> {}, orphans |-> {}] \in HostStates
  BY DEF HostStates
<1>3. TypeOK
  <2>1. now \in Seconds /\ promotes \in 0..MaxPromotes
    BY BoundsAssumption DEF Seconds
  <2>2. hosts \in [Hosts -> HostStates]
    BY <1>2
  <2>3. cached \subseteq Hosts /\ told \in Hosts \union {None}
    BY PrimaryAssumption
  <2>4. records \subseteq [host : Hosts, type : RecordTypes]
    <3>1. [host |-> Primary, type |-> "AAAA"] \in [host : Hosts, type : RecordTypes]
      BY PrimaryAssumption DEF RecordTypes
    <3> QED
      BY <3>1, PrimaryAssumption, RecordFacts
  <2>5. store \in [Keys -> Objects \union {None}]
    OBVIOUS
  <2>6. backups \in [Backups -> [phase : {"idle", "captured", "stamped", "writing", "done"},
                                 body : (Bodies \ {Torn}) \union {None},
                                 stamp : Seconds \union {None}]]
    OBVIOUS
  <2>7. pr \in Promotions
    BY <1>1
  <2>8. accepted \subseteq Writes /\ crowded \in BOOLEAN /\ local \in BOOLEAN /\ replaced \subseteq Hosts
    OBVIOUS
  <2>9. keystore \in {"absent", "part", "held", "other"} /\ driver \in DNSDrivers
    OBVIOUS
  <2> QED
    BY <2>1, <2>2, <2>3, <2>4, <2>5, <2>6, <2>7, <2>8, <2>9 DEF TypeOK, Promotions
<1>4. RunningInv
  BY DEF RunningInv, Running
<1>5. PromotionInv /\ RecordsInv /\ ToldInv
  BY <1>1 DEF PromotionInv, RecordsInv, ToldInv, Steps, Flipping
<1>6. ShownInv
  BY <1>1 DEF ShownInv, Keys
<1> QED
  BY <1>3, <1>4, <1>5, <1>6 DEF IInv

LEMMA StepIInv == IInv /\ [Next]_vars => IInv'
BY TypeStep, RunningStep, PromotionStep, ShownStep DEF IInv

LEMMA IInvCorrect == Spec => []IInv
BY InitIInv, StepIInv, PTL DEF Spec

(* Every variable keeps its type. *)
THEOREM TypeCorrect == Spec => []TypeOK
BY IInvCorrect, PTL DEF IInv

(* promote.go flips the name last: whatever failed, was repeated or is     *)
(* done by hand later, it is pointed at a host that serves.                *)
THEOREM NameMovesLast == Spec => NameMovesToServing
<1>1. ASSUME IInv, [Next]_vars, NEW r \in records' \ records
      PROVE  /\ hosts[r.host].up
             /\ hosts[r.host].data # Torn
             /\ hosts[r.host].orphans = {}
             /\ keystore = "held"
  <2> USE DEF IInv, Rest
  <2>1. CASE Create \/ Update
    <3>1. r = RecordFor(pr.target) /\ pr.target \in Hosts /\ pr.phase \in Flipping
      BY <1>1, <2>1, PrTypes DEF Create, Update, Promotions, Flipping
    <3> QED
      BY <1>1, <3>1, RecordFacts DEF PromotionInv
  <2>2. CASE ApplyByHand
    <3>1. r = RecordFor(told) /\ told \in Hosts /\ told # None
      BY <1>1, <2>2 DEF ApplyByHand, TypeOK
    <3> QED
      BY <1>1, <3>1, RecordFacts DEF ToldInv, Serving
  <2>3. CASE Delete
    BY <1>1, <2>3 DEF Delete
  <2>4. UNCHANGED records \/ Create \/ Update \/ ApplyByHand \/ Delete
    BY <1>1, NextCases DEF Tick, LosePrimary, Accept, Resolve, Expire, vars,
     Fail, Review, Confirm, Resubmit, Fetch, DecryptAndVerify, InstallKeys, ReconcileCI, PlaceState,
     Deploy, List, PrintChange, BackupStep, Capture, Stamp, BeginPut, FinishPut, EndBackup
  <2> QED
    BY <2>1, <2>2, <2>3, <2>4
<1>2. IInv /\ [Next]_vars =>
        [\A r \in records' \ records :
           /\ hosts[r.host].up
           /\ hosts[r.host].data # Torn
           /\ hosts[r.host].orphans = {}
           /\ keystore = "held"]_vars
  BY <1>1
<1> QED
  BY <1>2, IInvCorrect, PTL DEF Spec, NameMovesToServing

(* Only these steps end a promotion in success. *)
LEMMA DoneBy ==
  ASSUME TypeOK, [Next]_vars, pr.phase # "done", pr'.phase = "done"
  PROVE  Create \/ Update \/ PrintChange
<1> USE DEF Rest
<1>1. ~GivesUp /\ \A phase \in Steps : ~Goto(phase)
  BY GivesUpEffect, GotoEffect DEF Steps
<1>2. ~ \E h \in Hosts : Review(h)
  BY ReviewEffect
<1>3. ~Fetch /\ ~PlaceState /\ ~Deploy
  <2>1. ~Fetch
    BY <1>1, FetchEffect
  <2>2. ~PlaceState
    BY <1>1 DEF PlaceState, NoPromotion
  <2>3. ~Deploy
    BY <1>1, DeployEffect DEF Steps
  <2> QED
    BY <2>1, <2>2, <2>3
<1>4. ~Delete
  BY <1>1, DeleteEffect DEF Steps
<1>5. ~Resubmit /\ ~ReconcileCI /\ ~List
  BY ResubmitEffect, ReconcileEffect, ListEffect
<1>6. ~Confirm /\ ~DecryptAndVerify /\ ~InstallKeys /\ ~Fail
  BY <1>1 DEF Confirm, DecryptAndVerify, InstallKeys, Fail, Done, Steps
<1>7. pr' # pr
  OBVIOUS
<1> QED
  BY <1>2, <1>3, <1>4, <1>5, <1>6, <1>7, NextCases
     DEF Tick, LosePrimary, ApplyByHand, Accept, Resolve, Expire, vars, BackupStep, Capture, Stamp,
         BeginPut, FinishPut, EndBackup

(* The drivers replace all of the bundle's records by one. *)
THEOREM FlipReplacesAll == Spec => FlipLeavesOne
<1>1. ASSUME IInv, [Next]_vars, pr.phase # "done", pr'.phase = "done", driver # "print"
      PROVE  records' = {RecordFor(pr.target)}
  <2>1. Create \/ Update
    BY <1>1, DoneBy DEF IInv, PrintChange
  <2> QED
    BY <1>1, <2>1 DEF IInv, RecordsInv, Create, Update
<1>2. IInv /\ [Next]_vars =>
        [pr.phase # "done" /\ pr'.phase = "done" /\ driver # "print" =>
           records' = {RecordFor(pr.target)}]_vars
  BY <1>1
<1> QED
  BY <1>2, IInvCorrect, PTL DEF Spec, FlipLeavesOne

(* A promotion places what the operator was shown. *)
THEOREM ShownIsRestored == Spec => RestoredAsShown
<1>1. ASSUME IInv, [Next]_vars, pr.phase = "place", pr' # pr, hosts' # hosts,
             hosts'[pr.target].data # Torn
      PROVE  \/ pr.shown # Torn /\ hosts'[pr.target].data = pr.shown.data
             \/ crowded \/ pr.again
  <2>1. PlaceState
    BY <1>1, NextCases DEF Rest, Tick, LosePrimary, ApplyByHand, Accept, Resolve, Expire, vars,
     Fail, Review, Confirm, Resubmit, Fetch, DecryptAndVerify, InstallKeys, ReconcileCI,
     Deploy, List, Delete, Create, Update, PrintChange,
     BackupStep, Capture, Stamp, BeginPut, FinishPut, EndBackup
  <2>2. hosts'[pr.target].data = pr.got.data /\ pr.got # Torn
    BY <1>1, <2>1, PlaceEffect DEF IInv, PromotionInv
  <2> QED
    BY <1>1, <2>2 DEF IInv, ShownInv
<1>2. IInv /\ [Next]_vars =>
        [pr.phase = "place" /\ pr' # pr /\ hosts' # hosts /\ hosts'[pr.target].data # Torn =>
           \/ pr.shown # Torn /\ hosts'[pr.target].data = pr.shown.data
           \/ crowded \/ pr.again]_vars
  BY <1>1
<1> QED
  BY <1>2, IInvCorrect, PTL DEF Spec, RestoredAsShown
-----------------------------------------------------------------------------
(* What was captured of a host is still there, unless it was put back.     *)
HeldBy(x) ==
  \/ x.host \in replaced
  \/ /\ hosts[x.host].data # Torn /\ x.data \subseteq hosts[x.host].data
     /\ x.host = Primary \/ hosts[x.host].up

(* One snapshot is no older than another of its host. *)
Within(x, y) == x.host = y.host /\ x.host \notin replaced => x.data \subseteq y.data

(* A snapshot holds no more than its host has by now. *)
SnapshotInv ==
  /\ \A k \in Seconds : store[k] # None =>
       store[k].body # Torn /\ store[k].modified <= now /\ HeldBy(store[k].body)
  /\ \A b \in Backups : Running(b) => HeldBy(backups[b].body)

(* While backups do not crowd, the order of the store's times is that of   *)
(* the captures, and the one that runs comes after them all.               *)
OrderInv ==
  /\ \A b, o \in Backups : Running(b) /\ Running(o) => b = o
  /\ \A i, j \in Seconds :
       store[i] # None /\ store[j] # None /\ store[i].modified <= store[j].modified =>
         Within(store[i].body, store[j].body)
  /\ \A b \in Backups, k \in Seconds :
       Running(b) /\ store[k] # None => Within(store[k].body, backups[b].body)

OrderIInv == IInv /\ SnapshotInv /\ (~crowded => OrderInv)

(* What the types say of the objects under a second's name.                *)
LEMMA StoreTypes ==
  ASSUME TypeOK, NEW k \in Seconds, store[k] # None
  PROVE  store[k].body \in Bodies /\ store[k].modified \in Seconds
BY DEF TypeOK, Keys, Objects

LEMMA BodyTypes ==
  ASSUME NEW x \in Bodies \ {Torn}
  PROVE  x.host \in Hosts /\ x.data \in SUBSET Writes
BY DEF Bodies

(* Placing a snapshot on a host that runs counts it among the replaced;    *)
(* nothing was ever captured of one that did not run.                      *)
LEMMA PlaceKeepsHeld ==
  ASSUME TypeOK, PromotionInv, PlaceState, NEW x \in Bodies \ {Torn}, HeldBy(x)
  PROVE  HeldBy(x)'
<1>1. x.host \in Hosts /\ pr.target \in Hosts /\ pr.target # Primary
  BY BodyTypes, PlaceEffect DEF PromotionInv, Steps
<1>2. replaced' = replaced \union (IF hosts[pr.target].up THEN {pr.target} ELSE {})
  BY DEF PlaceState
<1>3. CASE x.host = pr.target
  BY <1>1, <1>2, <1>3 DEF HeldBy
<1>4. CASE x.host # pr.target
  <2>1. hosts'[x.host] = hosts[x.host]
    BY <1>1, <1>4, PlaceEffect
  <2> QED
    BY <1>2, <2>1 DEF HeldBy
<1> QED
  BY <1>3, <1>4

(* No host loses what was captured of it, but by being put back.           *)
LEMMA HeldStays ==
  ASSUME TypeOK, PromotionInv, [Next]_vars
  PROVE  /\ replaced \subseteq replaced'
         /\ \A x \in Bodies \ {Torn} : HeldBy(x) => HeldBy(x)'
<1>1. ASSUME NEW w \in Writes, NEW h \in Hosts, Accept(w, h), NEW x \in Bodies \ {Torn}, HeldBy(x)
      PROVE  HeldBy(x)'
  <2>1. x.host \in Hosts /\ hosts[x.host] \in HostStates
    BY BodyTypes DEF TypeOK
  <2>2. /\ hosts'[x.host].up = hosts[x.host].up
        /\ hosts[x.host].data # Torn => hosts'[x.host].data # Torn
    BY <1>1, <2>1, AcceptEffect
  <2>3. hosts[x.host].data # Torn => hosts[x.host].data \subseteq hosts'[x.host].data
    <3> DEFINE new == [hosts[h] EXCEPT !.data = @ \union {w}]
    <3>1. new.data = hosts[h].data \union {w}
      BY <1>1 DEF TypeOK, HostStates
    <3>2. hosts' = [hosts EXCEPT ![h] = new]
      BY <1>1 DEF Accept
    <3> HIDE DEF new
    <3> QED
      BY <2>1, <3>1, <3>2 DEF TypeOK
  <2> QED
    BY <1>1, <2>2, <2>3 DEF Accept, HeldBy
<1>2. ASSUME LosePrimary, NEW x \in Bodies \ {Torn}, HeldBy(x) PROVE HeldBy(x)'
  <2>1. x.host \in Hosts
    BY BodyTypes
  <2> QED
    BY <1>2, <2>1, LoseEffect DEF LosePrimary, HeldBy
<1>3. ASSUME Deploy, NEW x \in Bodies \ {Torn}, HeldBy(x) PROVE HeldBy(x)'
  <2>1. x.host \in Hosts
    BY BodyTypes
  <2> QED
    BY <1>3, <2>1, DeployEffect DEF Deploy, HeldBy
<1>4. ASSUME PlaceState, NEW x \in Bodies \ {Torn}, HeldBy(x) PROVE HeldBy(x)'
  BY <1>4, PlaceKeepsHeld
<1>5. ASSUME UNCHANGED <<hosts, replaced>>, NEW x \in Bodies \ {Torn}, HeldBy(x) PROVE HeldBy(x)'
  BY <1>5 DEF HeldBy
<1>6. \/ PlaceState
      \/ UNCHANGED replaced /\ ( \/ UNCHANGED hosts \/ LosePrimary \/ Deploy
                                 \/ \E w \in Writes, h \in Hosts : Accept(w, h) )
  BY NextCases DEF Tick, ApplyByHand, Resolve, Expire, vars, Rest, LosePrimary, Accept, Deploy,
     Fail, Review, Confirm, Resubmit, Fetch, DecryptAndVerify, InstallKeys, ReconcileCI,
     List, Delete, Create, Update, PrintChange,
     BackupStep, Capture, Stamp, BeginPut, FinishPut, EndBackup
<1>7. replaced \subseteq replaced'
  BY <1>6 DEF PlaceState
<1> QED
  BY <1>1, <1>2, <1>3, <1>4, <1>5, <1>6, <1>7

(* A step that leaves backups and their destination alone.                 *)
LEMMA OrderKept ==
  ASSUME TypeOK, RunningInv, PromotionInv, SnapshotInv, ~crowded => OrderInv, [Next]_vars,
         UNCHANGED <<store, backups, crowded>>, now <= now', now' \in Int
  PROVE  SnapshotInv' /\ (~crowded => OrderInv)'
<1>1. ASSUME NEW k \in Seconds, store[k] # None
      PROVE  store[k].body # Torn /\ store[k].modified <= now' /\ HeldBy(store[k].body)'
  <2>1. store[k].body \in Bodies /\ store[k].modified \in Seconds /\ now \in Seconds
    BY <1>1, StoreTypes DEF TypeOK
  <2>2. store[k].body # Torn /\ store[k].modified <= now /\ HeldBy(store[k].body)
    BY <1>1 DEF SnapshotInv
  <2>3. store[k].modified <= now'
    BY <2>1, <2>2, BoundsAssumption DEF Seconds
  <2> QED
    BY <2>1, <2>2, <2>3, HeldStays
<1>2. ASSUME NEW b \in Backups, Running(b) PROVE HeldBy(backups[b].body)'
  BY <1>2, HeldStays DEF SnapshotInv, RunningInv
<1>3. SnapshotInv'
  BY <1>1, <1>2 DEF SnapshotInv, Running, HeldBy
<1>4. OrderInv => OrderInv'
  BY HeldStays DEF OrderInv, Within, Running
<1> QED
  BY <1>3, <1>4

(* A capture takes all that was ever captured of its host.                 *)
LEMMA CaptureOrder ==
  ASSUME TypeOK, RunningInv, SnapshotInv, ~crowded => OrderInv,
         NEW b \in Backups, NEW h \in Hosts, Capture(b, h)
  PROVE  SnapshotInv' /\ (~crowded => OrderInv)'
<1> DEFINE body == [host |-> h, data |-> hosts[h].data]
           new == [phase |-> "captured", stamp |-> None, body |-> body]
<1>1. new.phase = "captured" /\ new.body = body /\ body.host = h /\ body.data = hosts[h].data
  OBVIOUS
<1>2. /\ backups' = [backups EXCEPT ![b] = new]
      /\ UNCHANGED <<store, hosts, now, replaced>>
      /\ hosts[h].up /\ hosts[h].data # Torn
      /\ ~crowded' => ~crowded /\ \A o \in Backups : ~Running(o)
  BY DEF Capture
<1> HIDE DEF body, new
<1>3. /\ Running(b)' /\ backups'[b].body = body
      /\ \A o \in Backups \ {b} : backups'[o] = backups[o]
  BY <1>1, <1>2 DEF TypeOK, Running
<1>4. HeldBy(body)
  BY <1>1, <1>2 DEF HeldBy
<1>5. SnapshotInv'
  <2>1. ASSUME NEW o \in Backups, Running(o)' PROVE HeldBy(backups'[o].body)
    BY <1>3, <1>4, <2>1 DEF SnapshotInv, Running
  <2> QED
    BY <1>2, <2>1 DEF SnapshotInv, HeldBy
<1>6. ASSUME ~crowded' PROVE OrderInv'
  <2>1. \A o \in Backups : Running(o)' => o = b
    BY <1>2, <1>3, <1>6 DEF Running
  <2>2. ASSUME NEW k \in Seconds, store[k] # None PROVE Within(store[k].body, body)
    BY <1>1, <2>2 DEF SnapshotInv, HeldBy, Within
  <2>3. OrderInv
    BY <1>2, <1>6
  <2> QED
    BY <1>2, <1>3, <2>1, <2>2, <2>3 DEF OrderInv, Within
<1> QED
  BY <1>5, <1>6

(* A backup that goes on, or ends with nothing under its second's name.    *)
LEMMA GoesOnOrder ==
  ASSUME TypeOK, RunningInv, SnapshotInv, ~crowded => OrderInv,
         NEW b \in Backups, Stamp(b) \/ BeginPut(b) \/ EndBackup(b)
  PROVE  SnapshotInv' /\ (~crowded => OrderInv)'
<1>1. UNCHANGED <<hosts, now, replaced, crowded>>
  BY DEF Stamp, BeginPut, EndBackup
<1>2. \A k \in Seconds : store'[k] = store[k]
  <2>1. \A k \in Seconds : k # b /\ k \in Keys
    BY KeysAssumption DEF Keys
  <2> QED
    BY <2>1 DEF Stamp, BeginPut, EndBackup, TypeOK
<1>3. /\ \A o \in Backups \ {b} : backups'[o] = backups[o]
      /\ Running(b)' => Running(b) /\ backups'[b].body = backups[b].body
  <2>1. CASE Stamp(b)
    <3> DEFINE new == [backups[b] EXCEPT !.phase = "stamped", !.stamp = now]
    <3>1. new.body = backups[b].body /\ Running(b)
      BY <2>1 DEF TypeOK, Stamp, Running
    <3>2. backups' = [backups EXCEPT ![b] = new]
      BY <2>1 DEF Stamp
    <3> HIDE DEF new
    <3> QED
      BY <3>1, <3>2 DEF TypeOK
  <2>2. CASE BeginPut(b)
    <3> DEFINE new == [backups[b] EXCEPT !.phase = "writing"]
    <3>1. new.body = backups[b].body /\ Running(b)
      BY <2>2 DEF TypeOK, BeginPut, Running
    <3>2. backups' = [backups EXCEPT ![b] = new]
      BY <2>2 DEF BeginPut
    <3> HIDE DEF new
    <3> QED
      BY <3>1, <3>2 DEF TypeOK
  <2>3. CASE EndBackup(b)
    BY <2>3 DEF EndBackup, TypeOK, Running
  <2> QED
    BY <2>1, <2>2, <2>3
<1>4. \A o \in Backups : Running(o)' => Running(o) /\ backups'[o].body = backups[o].body
  BY <1>3 DEF Running
<1>5. SnapshotInv'
  BY <1>1, <1>2, <1>4 DEF SnapshotInv, HeldBy
<1>6. OrderInv => OrderInv'
  BY <1>1, <1>2, <1>4 DEF OrderInv, Within
<1> QED
  BY <1>1, <1>5, <1>6

(* A put is the newest of the store, and of what was captured of its host. *)
LEMMA PutOrder ==
  ASSUME TypeOK, RunningInv, SnapshotInv, ~crowded => OrderInv,
         NEW b \in Backups, FinishPut(b)
  PROVE  SnapshotInv' /\ (~crowded => OrderInv)'
<1> DEFINE s == backups[b].stamp
           body == backups[b].body
           new == [modified |-> now, body |-> body]
           over == [phase |-> "done", body |-> None, stamp |-> None]
<1>1. /\ Running(b) /\ s \in Seconds /\ body \in Bodies \ {Torn} /\ HeldBy(body)
      /\ s # b /\ s \in Keys /\ b \in Keys /\ now \in Seconds
  BY KeysAssumption DEF FinishPut, RunningInv, Running, SnapshotInv, TypeOK, Keys
<1>2. /\ UNCHANGED <<hosts, now, replaced>>
      /\ crowded' = (crowded \/ store[s] # None
                       \/ \E j \in Seconds : store[j] # None /\ store[j].modified = now)
      /\ store' = [store EXCEPT ![b] = None, ![s] = new]
      /\ backups' = [backups EXCEPT ![b] = over]
  BY DEF FinishPut
<1>3. over.phase = "done" /\ new.modified = now /\ new.body = body
  OBVIOUS
<1> HIDE DEF over, new
<1>4. \A o \in Backups : Running(o)' => o # b /\ Running(o) /\ backups'[o] = backups[o]
  BY <1>2, <1>3 DEF TypeOK, Running
<1>5. store'[s] = new /\ \A k \in Seconds \ {s} : store'[k] = store[k]
  <2>1. \A k \in Seconds : k # b /\ k \in Keys
    BY KeysAssumption DEF Keys
  <2> QED
    BY <1>1, <1>2, <2>1 DEF TypeOK
<1> HIDE DEF s, body
<1>6. SnapshotInv'
  <2>1. ASSUME NEW k \in Seconds, store'[k] # None
        PROVE  store'[k].body # Torn /\ store'[k].modified <= now /\ HeldBy(store'[k].body)
    <3>1. CASE k = s
      BY <1>1, <1>3, <1>5, <3>1, BoundsAssumption DEF Seconds
    <3>2. CASE k # s
      BY <1>5, <2>1, <3>2 DEF SnapshotInv
    <3> QED
      BY <3>1, <3>2
  <2>2. ASSUME NEW o \in Backups, Running(o)' PROVE HeldBy(backups'[o].body)
    BY <1>4, <2>2 DEF SnapshotInv
  <2>3. \A x : HeldBy(x)' <=> HeldBy(x)
    BY <1>2 DEF HeldBy
  <2> QED
    BY <1>2, <2>1, <2>2, <2>3 DEF SnapshotInv
<1>7. ASSUME ~crowded' PROVE OrderInv'
  <2>1. OrderInv /\ \A j \in Seconds : store[j] # None => store[j].modified # now
    BY <1>2, <1>7
  <2>2. \A o \in Backups : ~Running(o)'
    BY <1>1, <1>4, <2>1 DEF OrderInv
  <2>3. ASSUME NEW i \in Seconds, NEW j \in Seconds, store'[i] # None, store'[j] # None,
               store'[i].modified <= store'[j].modified
        PROVE  Within(store'[i].body, store'[j].body)
    <3>1. CASE i = j
      BY <3>1 DEF Within
    <3>2. CASE i # s /\ j # s
      BY <1>5, <2>1, <2>3, <3>2 DEF OrderInv
    <3>3. CASE i # s /\ j = s
      <4>1. Within(store[i].body, backups[b].body)
        BY <1>1, <1>5, <2>1, <2>3, <3>3 DEF OrderInv
      <4> QED
        BY <1>3, <1>5, <3>3, <4>1 DEF body
    <3>4. ASSUME i = s, j # s PROVE FALSE
      <4>1. store[j] # None /\ store[j].modified # now /\ now <= store[j].modified
        BY <1>3, <1>5, <2>1, <2>3, <3>4
      <4>2. store[j].modified <= now /\ store[j].modified \in Seconds
        BY <4>1, StoreTypes DEF SnapshotInv
      <4> QED
        BY <1>1, <4>1, <4>2, BoundsAssumption DEF Seconds
    <3> QED
      BY <3>1, <3>2, <3>3, <3>4
  <2>4. ASSUME NEW i \in Seconds, NEW j \in Seconds, store'[i] # None, store'[j] # None,
               store'[i].modified <= store'[j].modified
        PROVE  Within(store[i].body, store[j].body)'
    <3>1. Within(store'[i].body, store'[j].body)
      BY <2>3, <2>4
    <3> QED
      BY <1>2, <3>1 DEF Within
  <2> QED
    BY <2>2, <2>4 DEF OrderInv
<1> QED
  BY <1>6, <1>7

(* The inductive invariant of the order of snapshots. *)
LEMMA InitOrderIInv == Init => OrderIInv
<1> SUFFICES ASSUME Init PROVE SnapshotInv /\ OrderInv
  BY InitIInv DEF OrderIInv
<1>1. /\ \A k \in Seconds : store[k] = None
      /\ \A b \in Backups : ~Running(b)
  BY DEF Init, Keys, Running
<1> QED
  BY <1>1 DEF SnapshotInv, OrderInv

LEMMA StepOrderIInv == OrderIInv /\ [Next]_vars => OrderIInv'
<1> SUFFICES ASSUME OrderIInv, [Next]_vars PROVE SnapshotInv' /\ (~crowded => OrderInv)'
  BY StepIInv DEF OrderIInv
<1>0. /\ TypeOK /\ RunningInv /\ PromotionInv /\ ShownInv /\ SnapshotInv
      /\ ~crowded => OrderInv
  BY DEF OrderIInv, IInv
<1>1. ASSUME NEW b \in Backups, BackupStep(b) PROVE SnapshotInv' /\ (~crowded => OrderInv)'
  BY <1>0, <1>1, CaptureOrder, GoesOnOrder, PutOrder DEF BackupStep
<1>2. CASE UNCHANGED <<store, backups, crowded>> /\ now <= now' /\ now' \in Int
  BY <1>0, <1>2, OrderKept
<1>3. now \in Int /\ now <= now
  BY <1>0, BoundsAssumption DEF TypeOK, Seconds
<1>4. ASSUME Tick PROVE UNCHANGED <<store, backups, crowded>> /\ now <= now' /\ now' \in Int
  BY <1>3, <1>4 DEF Tick
<1>5. \/ Tick \/ UNCHANGED <<store, backups, crowded, now>>
      \/ \E b \in Backups : BackupStep(b)
  BY NextCases DEF LosePrimary, ApplyByHand, Accept, Resolve, Expire, vars, Rest,
     Fail, Review, Confirm, Resubmit, Fetch, DecryptAndVerify, InstallKeys, ReconcileCI, PlaceState,
     Deploy, List, Delete, Create, Update, PrintChange
<1> QED
  BY <1>1, <1>2, <1>3, <1>4, <1>5

LEMMA OrderIInvCorrect == Spec => []OrderIInv
BY InitOrderIInv, StepOrderIInv, PTL DEF Spec

(* Only the question shows a snapshot. *)
LEMMA ReviewedBy ==
  ASSUME TypeOK, [Next]_vars, pr.phase # "review", pr'.phase = "review"
  PROVE  \E h \in Hosts : Review(h)
<1> USE DEF Rest
<1>1. ~GivesUp /\ \A phase \in Steps \ {"review"} : ~Goto(phase)
  BY GivesUpEffect, GotoEffect
<1>2. ~Goto("done")
  BY GotoEffect
<1>3. ~Fetch /\ ~PlaceState /\ ~Deploy
  <2>1. ~Fetch
    BY <1>1, FetchEffect
  <2>2. ~PlaceState
    BY <1>1 DEF PlaceState, NoPromotion
  <2>3. ~Deploy
    BY <1>1, DeployEffect DEF Steps
  <2> QED
    BY <2>1, <2>2, <2>3
<1>4. ~Delete
  BY <1>1, DeleteEffect DEF Steps
<1>5. ~Resubmit /\ ~ReconcileCI /\ ~List
  BY ResubmitEffect, ReconcileEffect, ListEffect
<1>6. /\ ~Confirm /\ ~DecryptAndVerify /\ ~InstallKeys /\ ~Fail
      /\ ~Create /\ ~Update /\ ~PrintChange
  BY <1>1, <1>2 DEF Confirm, DecryptAndVerify, InstallKeys, Fail, Done, Create, Update, PrintChange,
     Steps
<1>7. pr' # pr
  OBVIOUS
<1> QED
  BY <1>3, <1>4, <1>5, <1>6, <1>7, NextCases
     DEF Tick, LosePrimary, ApplyByHand, Accept, Resolve, Expire, vars, BackupStep, Capture, Stamp,
         BeginPut, FinishPut, EndBackup

(* LatestSnapshotKey goes by the store's times, and yet no snapshot of the *)
(* host in the destination holds what the one that is shown does not.      *)
THEOREM NewestIsWhole == Spec => NewestHoldsAll
<1>1. ASSUME OrderIInv, [Next]_vars, pr'.phase = "review", pr.phase # "review",
             pr'.shown # Torn, ~crowded, pr'.shown.host \notin replaced,
             NEW k \in Listed, store[k].body # Torn, store[k].body.host = pr'.shown.host
      PROVE  store[k].body.data \subseteq pr'.shown.data
  <2>1. TypeOK /\ ShownInv /\ OrderInv
    BY <1>1 DEF OrderIInv, IInv
  <2>2. PICK h \in Hosts : Review(h)
    BY <1>1, <2>1, ReviewedBy
  <2>3. pr'.key \in Latest(Listed) /\ pr'.shown = store[pr'.key].body
    BY <2>1, <2>2, ReviewEffect
  <2>4. /\ pr'.key \in Listed /\ store[k].modified <= store[pr'.key].modified
    BY <2>3 DEF Latest
  <2>5. ASSUME NEW j \in Listed, store[j].body # Torn
        PROVE  j \in Seconds /\ store[j] # None
    BY <2>1, <2>5, ListedFacts DEF ShownInv, Keys
  <2>6. k \in Seconds /\ store[k] # None /\ pr'.key \in Seconds /\ store[pr'.key] # None
    BY <1>1, <2>3, <2>4, <2>5
  <2>7. Within(store[k].body, store[pr'.key].body)
    BY <2>1, <2>4, <2>6 DEF OrderInv
  <2> QED
    BY <1>1, <2>3, <2>7 DEF Within
<1>2. OrderIInv /\ [Next]_vars =>
        [pr'.phase = "review" /\ pr.phase # "review" /\ pr'.shown # Torn =>
           \/ crowded \/ pr'.shown.host \in replaced
           \/ \A k \in Listed : store[k].body # Torn /\ store[k].body.host = pr'.shown.host =>
                store[k].body.data \subseteq pr'.shown.data]_vars
  BY <1>1
<1> QED
  BY <1>2, OrderIInvCorrect, PTL DEF Spec, NewestHoldsAll
===============================================================================
