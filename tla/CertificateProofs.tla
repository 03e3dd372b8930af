-------------------------- MODULE CertificateProofs --------------------------
(***************************************************************************)
(* What holds of every number of commands, hosts and issuances in          *)
(* Certificates.                                                           *)
(***************************************************************************)
EXTENDS Certificates, TLAPS

-----------------------------------------------------------------------------
(* The inductive invariant.                                                *)

(* A command that deploys: an up or a restore, of which there is one.      *)
Serving(c) == pc[c] \in Phases \ {"idle", "capture", "snapshot"}

(* The command is to copy the key next, the certificate being done.        *)
KeyNext(c, phase) == pc[c] = phase /\ cmd[c].half = "key"

CommandsOK ==
  /\ \A c \in Commands :
       /\ pc[c] \in {"capture", "snapshot"} => cmd[c].kind = "backup"
       /\ Serving(c) => cmd[c].kind # "backup" /\ cmd[c].host \in Hosts
       /\ pc[c] \in {"install", "store-install"} => cmd[c].snap \in snapshots
       /\ pc[c] = "renew" => cmd[c].half = "cert"
  /\ \A c, d \in Commands : Serving(c) /\ Serving(d) => c = d

Agree(pair, other) == \A half \in Halves : pair[half] = other[half]

Filled(pair) == \A half \in Halves : pair[half] \in Serials

(* What the deploying command has copied so far, and what it still holds.  *)
DeployOK ==
  \A c \in Commands :
    /\ KeyNext(c, "install") \/ KeyNext(c, "store-install") =>
         keystore["cert"] = cmd[c].snap["cert"]
    /\ pc[c] = "store-install" => keystore[cmd[c].half] = Absent
    /\ KeyNext(c, "resolve") =>
         cmd[c].pair["cert"] = keystore["cert"] /\ keystore["cert"] \in Serials
    /\ pc[c] \in {"renew", "ship"} => Agree(cmd[c].pair, keystore) /\ Filled(keystore)
    /\ pc[c] = "store" => \A half \in Halves : cmd[c].pair[half] = issued
    /\ pc[c] = "store" /\ cmd[c].half = "cert" =>
         keystore["cert"] \in Serials /\ keystore["cert"] <= aged
    /\ KeyNext(c, "store") => keystore["cert"] = issued
    /\ KeyNext(c, "ship") => shipped[cmd[c].host]["cert"] = cmd[c].pair["cert"]
    /\ pc[c] = "converge" => Agree(shipped[cmd[c].host], keystore)

(* A backup that has read the certificate will find its key, or no key, or *)
(* is known to have been overtaken.                                        *)
BackupOK ==
  \A c \in Commands :
    /\ KeyNext(c, "capture") =>
         /\ cmd[c].pair["cert"] \in Serials
         /\ \/ cmd[c].pair["cert"] \in cut
            \/ keystore["key"] \notin Serials
            \/ keystore["key"] = cmd[c].pair["cert"]
    /\ pc[c] = "snapshot" => Matching(cmd[c].pair) /\ Filled(cmd[c].pair)

CopiesOK ==
  /\ keystore["cert"] = Absent => keystore["key"] = Absent
  /\ (\A c \in Commands : ~KeyNext(c, "store")) => Matching(keystore)
  /\ \A h \in Hosts :
       (\A c \in Commands : ~(KeyNext(c, "ship") /\ cmd[c].host = h)) => Matching(shipped[h])
  /\ \A s \in snapshots : Matching(s)
  /\ \A h \in Hosts : Matching(mounted[h])

(* Every issuance is due, or lost, or about to be stored, or the one the   *)
(* keystore holds; with an unreadable certificate nothing is renewed.      *)
IssuesOK ==
  \A n \in 1 .. issued :
    \/ n <= aged \/ n \in forgotten
    \/ \E c \in Commands : pc[c] = "store" /\ cmd[c].half = "cert" /\ n = issued
    \/ n = keystore["cert"] \/ keystore["cert"] = Empty

IInv == TypeOK /\ CommandsOK /\ DeployOK /\ BackupOK /\ CopiesOK /\ IssuesOK

-----------------------------------------------------------------------------
LEMMA Numbers ==
  /\ MaxSerial \in Nat /\ MaxSerial >= 1
  /\ \A n \in Serials : n \in Int /\ n >= 1 /\ n # Absent /\ n # Empty
  /\ 1 \in Serials
  /\ Halves = {"cert", "key"}
BY BoundsAssumption DEF Serials, Absent, Empty, Halves

LEMMA Blank == NoCommand \in CommandRecords
<1>1. Pair(Absent) \in Held
  BY DEF Pair, Held
<1> QED
  BY <1>1 DEF NoCommand, CommandRecords, Kinds, Halves

LEMMA InitOK == Init => IInv
<1> SUFFICES ASSUME Init PROVE IInv
  OBVIOUS
<1> USE Numbers DEF Init
<1>1. Pair(1) \in Held /\ Pair(Absent) \in [Halves -> Serials \union {Absent}]
  BY DEF Pair, Held
<1>2. TypeOK
  BY <1>1, Blank DEF TypeOK, Phases, Serials
<1>3. Matching(Pair(1)) /\ Matching(Pair(Absent))
  BY DEF Matching, Whole, Pair
<1>4. CommandsOK /\ DeployOK /\ BackupOK /\ CopiesOK
  BY <1>3 DEF CommandsOK, DeployOK, BackupOK, CopiesOK, Serving, KeyNext, Phases, Pair, Absent
<1>5. IssuesOK
  BY DEF IssuesOK, Pair
<1> QED
  BY <1>2, <1>4, <1>5 DEF IInv

-----------------------------------------------------------------------------
(* What the building blocks of the actions do, command by command.         *)

LEMMA Went ==
  ASSUME TypeOK, NEW c \in Commands, NEW phase \in Phases, Goto(c, phase)
  PROVE  /\ pc' \in [Commands -> Phases]
         /\ pc'[c] = phase
         /\ \A d \in Commands : d # c => pc'[d] = pc[d]
BY DEF TypeOK, Goto

LEMMA Ended ==
  ASSUME TypeOK, NEW c \in Commands, End(c)
  PROVE  /\ pc' \in [Commands -> Phases] /\ cmd' \in [Commands -> CommandRecords]
         /\ pc'[c] = "idle" /\ cmd'[c] = NoCommand
         /\ \A d \in Commands : d # c => pc'[d] = pc[d] /\ cmd'[d] = cmd[d]
<1>1. "idle" \in Phases
  BY DEF Phases
<1> QED
  BY <1>1, Blank DEF TypeOK, End, Goto

LEMMA Copied ==
  ASSUME TypeOK, NEW c \in Commands, NEW v \in Serials \union {Absent, Empty},
         cmd' = [cmd EXCEPT ![c].pair[cmd[c].half] = v, ![c].half = Turned(c)]
  PROVE  /\ cmd' \in [Commands -> CommandRecords]
         /\ cmd'[c].half = Turned(c) /\ cmd'[c].half \in Halves
         /\ cmd'[c].pair[cmd[c].half] = v
         /\ \A half \in Halves : half # cmd[c].half => cmd'[c].pair[half] = cmd[c].pair[half]
         /\ cmd'[c].kind = cmd[c].kind /\ cmd'[c].host = cmd[c].host /\ cmd'[c].snap = cmd[c].snap
         /\ \A d \in Commands : d # c => cmd'[d] = cmd[d]
<1>1. cmd[c] \in CommandRecords /\ cmd[c].pair \in Held /\ cmd[c].half \in Halves
  BY DEF TypeOK, CommandRecords
<1>2. Turned(c) \in Halves
  BY DEF Turned, Halves
<1> DEFINE pair == [cmd[c].pair EXCEPT ![cmd[c].half] = v]
           new == [cmd[c] EXCEPT !.pair = pair, !.half = Turned(c)]
<1>3. pair \in Held
  BY <1>1 DEF Held
<1>4. cmd' = [cmd EXCEPT ![c] = new]
  BY DEF TypeOK
<1>5. new \in CommandRecords
  BY <1>1, <1>2, <1>3 DEF CommandRecords
<1>6. cmd'[c] = new /\ cmd' \in [Commands -> CommandRecords]
  BY <1>4, <1>5 DEF TypeOK
<1>7. /\ new.half = Turned(c) /\ new.pair = pair
      /\ new.kind = cmd[c].kind /\ new.host = cmd[c].host /\ new.snap = cmd[c].snap
  BY <1>1 DEF CommandRecords
<1>8. /\ pair[cmd[c].half] = v
      /\ \A half \in Halves : half # cmd[c].half => pair[half] = cmd[c].pair[half]
  BY <1>1 DEF Held
<1> HIDE DEF new, pair
<1> QED
  BY <1>2, <1>4, <1>6, <1>7, <1>8 DEF TypeOK

LEMMA Flipped ==
  ASSUME TypeOK, NEW c \in Commands, cmd' = [cmd EXCEPT ![c].half = Turned(c)]
  PROVE  /\ cmd' \in [Commands -> CommandRecords]
         /\ cmd'[c].half = Turned(c) /\ cmd'[c].half \in Halves
         /\ cmd'[c].pair = cmd[c].pair
         /\ cmd'[c].kind = cmd[c].kind /\ cmd'[c].host = cmd[c].host /\ cmd'[c].snap = cmd[c].snap
         /\ \A d \in Commands : d # c => cmd'[d] = cmd[d]
<1>1. cmd[c] \in CommandRecords /\ Turned(c) \in Halves
  BY DEF TypeOK, Turned, Halves
<1>2. [cmd[c] EXCEPT !.half = Turned(c)] \in CommandRecords
  BY <1>1 DEF CommandRecords
<1>3. cmd'[c] = [cmd[c] EXCEPT !.half = Turned(c)]
  BY DEF TypeOK
<1> QED
  BY <1>1, <1>2, <1>3 DEF TypeOK, CommandRecords

-----------------------------------------------------------------------------
(* Each step keeps the invariant. *)

LEMMA AgeStep == ASSUME IInv, Age PROVE IInv'
<1> USE DEF IInv, Age, copies
<1>1. TypeOK'
  BY Numbers DEF TypeOK, Serials
<1>2. (CommandsOK /\ DeployOK /\ BackupOK /\ CopiesOK)'
  BY Numbers DEF TypeOK, CommandsOK, Serving, DeployOK, KeyNext, BackupOK, CopiesOK, Matching, Whole, Agree, Filled
<1>3. IssuesOK'
  BY Numbers DEF TypeOK, IssuesOK, Serials
<1> QED
  BY <1>1, <1>2, <1>3

LEMMA LoseStep == ASSUME IInv, LoseKeystore PROVE IInv'
<1> USE DEF IInv, LoseKeystore
<1>1. /\ keystore' \in Held /\ \A half \in Halves : keystore'[half] = Absent
      /\ 1 .. issued \subseteq Serials
  BY Numbers DEF TypeOK, Pair, Held, Serials
<1>2. TypeOK'
  BY <1>1 DEF TypeOK
<1>3. \A c \in Commands : ~Serving(c)
  BY DEF Deploying, Active, Serving, CommandsOK
<1>4. (CommandsOK /\ DeployOK)'
  BY <1>3 DEF CommandsOK, DeployOK, Serving, KeyNext, Phases
<1>5. (BackupOK /\ CopiesOK)'
  BY <1>1, Numbers DEF BackupOK, CopiesOK, KeyNext, Matching, Whole, Filled
<1>6. IssuesOK'
  BY DEF IssuesOK
<1> QED
  BY <1>2, <1>4, <1>5, <1>6

LEMMA CaddyStep == ASSUME IInv, NEW h \in Hosts, CaddyRestart(h) PROVE IInv'
<1> USE DEF IInv, CaddyRestart
<1>1. /\ mounted'[h] = shipped[h] /\ \A g \in Hosts : g # h => mounted'[g] = mounted[g]
      /\ mounted' \in [Hosts -> [Halves -> Serials \union {Absent}]]
      /\ cut \subseteq cut'
  BY DEF TypeOK
<1>2. Matching(shipped[h])'
  <2>1. CASE HalfShipped(h)
    BY <2>1 DEF Matching
  <2>2. CASE ~HalfShipped(h)
    BY <1>1, <2>2 DEF HalfShipped, CopiesOK, KeyNext, Matching
  <2> QED
    BY <2>1, <2>2
<1>3. TypeOK'
  <2>1. cut' \subseteq Serials
    <3>1. CASE HalfShipped(h)
      <4>1. PICK c \in Commands : pc[c] = "ship" /\ cmd[c].host = h /\ cmd[c].half = "key"
        BY <3>1 DEF HalfShipped
      <4>2. shipped[h]["cert"] \in Serials
        BY <4>1, Numbers DEF DeployOK, KeyNext, Agree, Filled
      <4> QED
        BY <4>2, <3>1 DEF TypeOK
    <3>2. CASE ~HalfShipped(h)
      BY <3>2 DEF TypeOK
    <3> QED
      BY <3>1, <3>2
  <2> QED
    BY <1>1, <2>1 DEF TypeOK
<1>4. (CommandsOK /\ DeployOK /\ IssuesOK)'
  BY DEF CommandsOK, DeployOK, Serving, KeyNext, Agree, Filled, IssuesOK
<1>5. BackupOK'
  BY <1>1 DEF BackupOK, KeyNext, Matching, Whole, Filled
<1>6. CopiesOK'
  BY <1>1, <1>2 DEF CopiesOK, KeyNext, Matching, Whole
<1> QED
  BY <1>3, <1>4, <1>5, <1>6

LEMMA BeginStep ==
  ASSUME IInv, NEW c \in Commands, NEW command \in CommandRecords,
         NEW first \in {"capture", "install", "resolve"}, Begin(c, command, first),
         command.half = "cert",
         first = "capture" => command.kind = "backup",
         first # "capture" =>
           command.kind # "backup" /\ command.host \in Hosts /\ ~Deploying,
         first = "install" => command.snap \in snapshots
  PROVE  IInv'
<1> USE DEF IInv, Begin, copies
<1>1. /\ pc' \in [Commands -> Phases] /\ pc'[c] = first
      /\ \A d \in Commands : d # c => pc'[d] = pc[d]
  <2>1. first \in Phases
    BY DEF Phases
  <2> QED
    BY <2>1, Went
<1>2. /\ cmd' \in [Commands -> CommandRecords] /\ cmd'[c] = command
      /\ \A d \in Commands : d # c => cmd'[d] = cmd[d]
  BY DEF TypeOK
<1>3. pc[c] = "idle"
  BY DEF At
<1>4. first # "capture" => \A d \in Commands : ~Serving(d)
  BY DEF Deploying, Active, Serving, CommandsOK
<1>5. TypeOK'
  BY <1>1, <1>2 DEF TypeOK
<1>6. CommandsOK'
  BY <1>1, <1>2, <1>3, <1>4 DEF CommandsOK, Serving, Phases
<1>7. DeployOK' /\ BackupOK'
  BY <1>1, <1>2 DEF DeployOK, BackupOK, KeyNext, Agree, Filled, Matching, Whole
<1>8. CopiesOK' /\ IssuesOK'
  BY <1>1, <1>2, <1>3 DEF CopiesOK, IssuesOK, KeyNext, Matching, Whole
<1> QED
  BY <1>5, <1>6, <1>7, <1>8

LEMMA BeginBackupStep == ASSUME IInv, NEW c \in Commands, BeginBackup(c) PROVE IInv'
<1>1. NoCommand.half = "cert" /\ NoCommand.kind = "backup"
  BY DEF NoCommand
<1> QED
  BY <1>1, Blank, BeginStep DEF BeginBackup

LEMMA BeginUpStep ==
  ASSUME IInv, NEW c \in Commands, NEW h \in Hosts, BeginUp(c, h) PROVE IInv'
<1> DEFINE command == [NoCommand EXCEPT !.kind = "up", !.host = h]
<1>1. /\ command \in CommandRecords /\ command.half = "cert"
      /\ command.kind = "up" /\ command.host = h
  BY Blank DEF CommandRecords, Kinds, NoCommand
<1>2. ~Deploying /\ Begin(c, command, "resolve")
  BY DEF BeginUp
<1> HIDE DEF command
<1> QED
  BY <1>1, <1>2, BeginStep

LEMMA BeginRestoreStep ==
  ASSUME IInv, NEW c \in Commands, NEW h \in Hosts, NEW s \in snapshots, BeginRestore(c, h, s)
  PROVE  IInv'
<1> DEFINE command == [NoCommand EXCEPT !.kind = "restore", !.host = h, !.snap = s]
<1>1. s \in Held
  BY DEF IInv, TypeOK, Held
<1>2. /\ command \in CommandRecords /\ command.half = "cert"
      /\ command.kind = "restore" /\ command.host = h /\ command.snap = s
  BY <1>1, Blank DEF CommandRecords, Kinds, NoCommand
<1>3. ~Deploying /\ Begin(c, command, "install")
  BY DEF BeginRestore
<1> HIDE DEF command
<1> QED
  BY <1>2, <1>3, BeginStep

-----------------------------------------------------------------------------
LEMMA ReadTypes ==
  ASSUME TypeOK, NEW c \in Commands
  PROVE  /\ cmd[c] \in CommandRecords /\ cmd[c].half \in Halves
         /\ cmd[c].pair \in Held /\ cmd[c].snap \in Held
         /\ \A half \in Halves : keystore[half] \in Serials \union {Absent, Empty}
         /\ cmd[c].half = "cert" <=> Turned(c) = "key"
         /\ cmd[c].half = "key" <=> Turned(c) = "cert"
BY DEF TypeOK, CommandRecords, Held, Halves, Turned

LEMMA CaptureStep == ASSUME IInv, NEW c \in Commands, Capture(c) PROVE IInv'
<1> USE DEF IInv, Capture, copies
<1> DEFINE next == IF cmd[c].half = "cert" THEN "capture" ELSE "snapshot"
<1>1. /\ pc' \in [Commands -> Phases] /\ pc'[c] = next
      /\ \A d \in Commands : d # c => pc'[d] = pc[d]
  <2>1. next \in Phases /\ Goto(c, next)
    BY DEF OtherHalf, Phases
  <2> QED
    BY <2>1, Went
<1>2. /\ cmd' \in [Commands -> CommandRecords]
      /\ cmd'[c].half = Turned(c)
      /\ cmd'[c].pair[cmd[c].half] = keystore[cmd[c].half]
      /\ \A half \in Halves : half # cmd[c].half => cmd'[c].pair[half] = cmd[c].pair[half]
      /\ cmd'[c].kind = cmd[c].kind
      /\ \A d \in Commands : d # c => cmd'[d] = cmd[d]
  BY ReadTypes, Copied DEF Read
<1>3. pc[c] = "capture" /\ keystore[cmd[c].half] \in Serials
  BY DEF At, Resolved
<1>4. cut \subseteq cut' /\ cut' \subseteq Serials
  <2>1. \A q \in Commands : At(q, "store") => cmd[q].pair["cert"] \in Serials
    BY Numbers DEF At, DeployOK, TypeOK
  <2> QED
    BY <2>1 DEF HalfStored, TypeOK
<1>5. TypeOK'
  BY <1>1, <1>2, <1>4 DEF TypeOK
<1>6. CommandsOK'
  BY <1>1, <1>2, <1>3 DEF CommandsOK, Serving, Phases
<1>7. DeployOK'
  BY <1>1, <1>2, <1>3 DEF DeployOK, KeyNext, Agree, Filled
<1>8. CopiesOK' /\ IssuesOK'
  BY <1>1, <1>2, <1>3, <1>4 DEF CopiesOK, IssuesOK, KeyNext, Matching, Whole
<1>9. BackupOK'
  <2>1. ASSUME NEW d \in Commands, d # c
        PROVE  /\ KeyNext(d, "capture")' =>
                    /\ cmd[d].pair["cert"] \in Serials
                    /\ \/ cmd[d].pair["cert"] \in cut'
                       \/ keystore["key"] \notin Serials
                       \/ keystore["key"] = cmd[d].pair["cert"]
               /\ pc'[d] = "snapshot" => Matching(cmd[d].pair)' /\ Filled(cmd[d].pair)
    BY <2>1, <1>1, <1>2, <1>4 DEF BackupOK, KeyNext, Matching, Whole
  <2>2. CASE cmd[c].half = "cert"
    <3>1. /\ pc'[c] = "capture" /\ cmd'[c].pair["cert"] = keystore["cert"]
          /\ keystore["cert"] \in Serials
      BY <2>2, <1>1, <1>2, <1>3
    <3>2. CASE \A q \in Commands : ~KeyNext(q, "store")
      <4>1. Matching(keystore)
        BY <3>2 DEF CopiesOK
      <4> QED
        BY <4>1, <3>1, <2>1, <1>2, <1>4, Numbers DEF BackupOK, Matching, Whole
    <3>3. CASE \E q \in Commands : KeyNext(q, "store")
      <4>1. PICK q \in Commands : KeyNext(q, "store")
        BY <3>3
      <4>2. cmd[q].pair["cert"] \in HalfStored /\ cmd[q].pair["cert"] = keystore["cert"]
        BY <4>1, Numbers DEF KeyNext, HalfStored, At, DeployOK
      <4> QED
        BY <4>2, <3>1, <2>1, <1>2 DEF BackupOK
    <3> QED
      BY <3>2, <3>3
  <2>3. CASE cmd[c].half = "key"
    <3>1. /\ pc'[c] = "snapshot" /\ cmd'[c].pair["key"] = keystore["key"]
          /\ cmd'[c].pair["cert"] = cmd[c].pair["cert"]
      BY <2>3, <1>1, <1>2, Numbers
    <3>2. (Matching(cmd[c].pair) /\ Filled(cmd[c].pair))'
      BY <3>1, <2>3, <1>3, <1>4, Numbers DEF BackupOK, KeyNext, Matching, Whole, Filled
    <3> QED
      BY <3>1, <3>2, <2>1, <1>2 DEF BackupOK, KeyNext
  <2> QED
    BY <2>2, <2>3, ReadTypes, Numbers
<1> QED
  BY <1>5, <1>6, <1>7, <1>8, <1>9

LEMMA SnapshotStep == ASSUME IInv, NEW c \in Commands, TakeSnapshot(c) PROVE IInv'
<1> USE DEF IInv, TakeSnapshot
<1>1. /\ pc' \in [Commands -> Phases] /\ cmd' \in [Commands -> CommandRecords]
      /\ pc'[c] = "idle"
      /\ \A d \in Commands : d # c => pc'[d] = pc[d] /\ cmd'[d] = cmd[d]
  BY Ended
<1>2. pc[c] = "snapshot"
  BY DEF At
<1>3. /\ cmd[c].pair \in [Halves -> Serials] /\ Matching(cmd[c].pair)
      /\ snapshots \subseteq snapshots' /\ snapshots' \subseteq snapshots \union {cmd[c].pair}
  <2>1. cmd[c].pair \in Held /\ Filled(cmd[c].pair) /\ Matching(cmd[c].pair)
    BY <1>2, ReadTypes DEF BackupOK
  <2> QED
    BY <2>1 DEF Held, Filled
<1>4. TypeOK'
  BY <1>1, <1>3 DEF TypeOK
<1>5. CommandsOK'
  BY <1>1, <1>2, <1>3 DEF CommandsOK, Serving, Phases
<1>6. DeployOK' /\ BackupOK'
  BY <1>1, <1>2 DEF DeployOK, BackupOK, KeyNext, Agree, Filled, Matching, Whole
<1>7. CopiesOK' /\ IssuesOK'
  BY <1>1, <1>2, <1>3 DEF CopiesOK, IssuesOK, KeyNext, Matching, Whole
<1> QED
  BY <1>4, <1>5, <1>6, <1>7

-----------------------------------------------------------------------------
LEMMA InstallStep == ASSUME IInv, NEW c \in Commands, Install(c) PROVE IInv'
<1> USE DEF IInv
<1>1. pc[c] = "install" /\ Serving(c)
  BY DEF Install, At, Serving, Phases
<1>2. UNCHANGED <<issued, aged, keystore, snapshots, shipped, mounted, cut, forgotten>>
  BY DEF Install, copies
<1>3. CASE keystore[cmd[c].half] = cmd[c].snap[cmd[c].half] /\ OtherHalf(c, "install", "resolve")
           /\ cmd' = [cmd EXCEPT ![c].half = Turned(c)]
  <2> DEFINE next == IF cmd[c].half = "cert" THEN "install" ELSE "resolve"
  <2>1. /\ pc' \in [Commands -> Phases] /\ pc'[c] = next
        /\ \A d \in Commands : d # c => pc'[d] = pc[d]
    <3>1. next \in Phases /\ Goto(c, next)
      BY <1>3 DEF OtherHalf, Phases
    <3> QED
      BY <3>1, Went
  <2>2. /\ cmd' \in [Commands -> CommandRecords] /\ cmd'[c].half = Turned(c)
        /\ cmd'[c].kind = cmd[c].kind /\ cmd'[c].host = cmd[c].host /\ cmd'[c].snap = cmd[c].snap
        /\ \A d \in Commands : d # c => cmd'[d] = cmd[d]
    BY <1>3, Flipped
  <2>3. TypeOK'
    BY <1>2, <2>1, <2>2 DEF TypeOK
  <2>4. CommandsOK'
    BY <1>1, <1>2, <2>1, <2>2 DEF CommandsOK, Serving, Phases
  <2>5. DeployOK'
    BY <1>1, <1>2, <1>3, <2>1, <2>2, ReadTypes DEF DeployOK, KeyNext, Agree, Filled
  <2>6. BackupOK' /\ CopiesOK' /\ IssuesOK'
    BY <1>1, <1>2, <2>1, <2>2 DEF BackupOK, CopiesOK, IssuesOK, KeyNext, Matching, Whole, Filled
  <2> QED
    BY <2>3, <2>4, <2>5, <2>6
<1>4. CASE keystore[cmd[c].half] = Absent /\ Goto(c, "store-install") /\ UNCHANGED cmd
  <2>1. /\ pc' \in [Commands -> Phases] /\ pc'[c] = "store-install"
        /\ \A d \in Commands : d # c => pc'[d] = pc[d]
    <3>1. "store-install" \in Phases
      BY DEF Phases
    <3> QED
      BY <3>1, <1>4, Went
  <2>2. TypeOK' /\ CommandsOK'
    BY <1>1, <1>2, <1>4, <2>1 DEF TypeOK, CommandsOK, Serving, Phases
  <2>3. DeployOK'
    BY <1>1, <1>2, <1>4, <2>1 DEF DeployOK, KeyNext, Agree, Filled
  <2>4. BackupOK' /\ CopiesOK' /\ IssuesOK'
    BY <1>1, <1>2, <1>4, <2>1 DEF BackupOK, CopiesOK, IssuesOK, KeyNext, Matching, Whole, Filled
  <2> QED
    BY <2>2, <2>3, <2>4
<1>5. CASE End(c)
  <2>1. /\ pc' \in [Commands -> Phases] /\ cmd' \in [Commands -> CommandRecords]
        /\ pc'[c] = "idle"
        /\ \A d \in Commands : d # c => pc'[d] = pc[d] /\ cmd'[d] = cmd[d]
    BY <1>5, Ended
  <2>2. TypeOK' /\ CommandsOK'
    BY SMTT(30), <1>1, <1>2, <2>1 DEF TypeOK, CommandsOK, Serving, Phases
  <2>3. DeployOK' /\ BackupOK'
    BY <1>1, <1>2, <2>1 DEF DeployOK, BackupOK, KeyNext, Agree, Filled, Matching, Whole
  <2>4. CopiesOK' /\ IssuesOK'
    BY <1>1, <1>2, <2>1 DEF CopiesOK, IssuesOK, KeyNext, Matching, Whole
  <2> QED
    BY <2>2, <2>3, <2>4
<1> QED
  BY <1>3, <1>4, <1>5 DEF Install

(* A store leaves no backup that straddles it unnoticed. *)
LEMMA StoreEffect ==
  ASSUME IInv, NEW half \in Halves, NEW n \in Serials, Stored(half, n)
  PROVE  /\ keystore' \in Held /\ keystore'[half] = n
         /\ \A other \in Halves : other # half => keystore'[other] = keystore[other]
         /\ cut \subseteq cut' /\ cut' \subseteq Serials
         /\ \A b \in Commands : KeyNext(b, "capture") => cmd[b].pair["cert"] \in cut'
<1> USE DEF IInv, Stored
<1>1. /\ keystore' \in Held /\ keystore'[half] = n
      /\ \A other \in Halves : other # half => keystore'[other] = keystore[other]
  BY DEF TypeOK, Held
<1>2. Straddling \subseteq Serials
  BY DEF Straddling, At, BackupOK, KeyNext
<1>3. \A b \in Commands : KeyNext(b, "capture") => cmd[b].pair["cert"] \in Straddling
  BY DEF Straddling, At, KeyNext
<1> QED
  BY <1>1, <1>2, <1>3 DEF TypeOK

(* The backups, under any step of the deploying command that may change    *)
(* the keystore, when those that straddle the change are told of.          *)
LEMMA BackupFrame ==
  ASSUME BackupOK, NEW c \in Commands, cut \subseteq cut',
         \A b \in Commands : KeyNext(b, "capture") => cmd[b].pair["cert"] \in cut',
         pc'[c] \notin {"capture", "snapshot"},
         \A d \in Commands : d # c => pc'[d] = pc[d] /\ cmd'[d] = cmd[d]
  PROVE  BackupOK'
BY DEF BackupOK, KeyNext, Matching, Whole, Filled

LEMMA StoreInstalledStep == ASSUME IInv, NEW c \in Commands, StoreInstalled(c) PROVE IInv'
<1> USE DEF IInv
<1> DEFINE next == IF cmd[c].half = "cert" THEN "install" ELSE "resolve"
           n == cmd[c].snap[cmd[c].half]
<1>1. /\ pc[c] = "store-install" /\ Serving(c)
      /\ \A d \in Commands : Serving(d) => d = c
      /\ keystore[cmd[c].half] = Absent
      /\ cmd[c].half \in Halves /\ cmd[c].snap \in snapshots /\ n \in Serials
  <2>1. pc[c] = "store-install" /\ Serving(c)
    BY DEF StoreInstalled, At, Serving, Phases
  <2> QED
    BY <2>1, ReadTypes DEF DeployOK, CommandsOK, TypeOK
<1>2. UNCHANGED <<issued, aged, snapshots, shipped, mounted, forgotten>>
  BY DEF StoreInstalled
<1>3. /\ pc' \in [Commands -> Phases] /\ pc'[c] = next
      /\ \A d \in Commands : d # c => pc'[d] = pc[d]
  <2>1. next \in Phases /\ Goto(c, next)
    BY DEF StoreInstalled, OtherHalf, Phases
  <2> QED
    BY <2>1, Went
<1>4. /\ cmd' \in [Commands -> CommandRecords] /\ cmd'[c].half = Turned(c)
      /\ cmd'[c].kind = cmd[c].kind /\ cmd'[c].host = cmd[c].host /\ cmd'[c].snap = cmd[c].snap
      /\ \A d \in Commands : d # c => cmd'[d] = cmd[d]
  BY Flipped DEF StoreInstalled
<1>5. /\ keystore' \in Held /\ keystore'[cmd[c].half] = n
      /\ \A other \in Halves : other # cmd[c].half => keystore'[other] = keystore[other]
      /\ cut \subseteq cut' /\ cut' \subseteq Serials
      /\ \A b \in Commands : KeyNext(b, "capture") => cmd[b].pair["cert"] \in cut'
  BY <1>1, StoreEffect DEF StoreInstalled
<1>6. TypeOK'
  BY <1>2, <1>3, <1>4, <1>5 DEF TypeOK
<1>7. CommandsOK'
  BY <1>1, <1>2, <1>3, <1>4 DEF CommandsOK, Serving, Phases
<1>8. \A d \in Commands : d # c => pc[d] \in {"idle", "capture", "snapshot"}
  BY <1>1 DEF Serving, TypeOK
<1> HIDE DEF n
<1>9. DeployOK'
  BY <1>1, <1>3, <1>4, <1>5, <1>8, ReadTypes DEF n, DeployOK, KeyNext
<1>10. BackupOK'
  BY <1>3, <1>4, <1>5, BackupFrame
<1>11. CopiesOK'
  <2>1. /\ keystore'["cert"] \in Serials
        /\ Matching(keystore)'
    <3>1. CASE cmd[c].half = "cert"
      BY <3>1, <1>1, <1>5, Numbers DEF CopiesOK, Matching
    <3>2. CASE cmd[c].half = "key"
      <4>1. keystore'["key"] = cmd[c].snap["key"] /\ keystore'["cert"] = cmd[c].snap["cert"]
        BY <3>2, <1>1, <1>5, Numbers DEF n, DeployOK, KeyNext
      <4>2. Matching(cmd[c].snap) /\ \A half \in Halves : cmd[c].snap[half] \in Serials
        BY <1>1 DEF CopiesOK, TypeOK
      <4> QED
        BY <4>1, <4>2, <1>5, Numbers DEF Matching, Whole
    <3> QED
      BY <3>1, <3>2, <1>1, Numbers
  <2> QED
    BY <2>1, <1>2, <1>5, <1>8, <1>1, <1>3, Numbers DEF CopiesOK, KeyNext, Matching, Whole
<1>12. IssuesOK'
  <2>1. \A m \in 1 .. issued : m <= aged \/ m \in forgotten \/ m = keystore'["cert"]
    <3>1. \A d \in Commands : pc[d] # "store"
      BY <1>1, <1>8
    <3>2. CASE cmd[c].half = "cert"
      BY <3>1, <3>2, <1>1, Numbers DEF IssuesOK, TypeOK, Absent, Empty
    <3>3. CASE cmd[c].half = "key"
      <4>1. keystore'["cert"] = keystore["cert"] /\ keystore["cert"] \in Serials
        BY <3>3, <1>1, <1>5, Numbers DEF DeployOK, KeyNext, TypeOK
      <4> QED
        BY <4>1, <3>1, Numbers DEF IssuesOK
    <3> QED
      BY <3>2, <3>3, <1>1, Numbers
  <2> QED
    BY <2>1, <1>2 DEF IssuesOK
<1> QED
  BY <1>6, <1>7, <1>9, <1>10, <1>11, <1>12

-----------------------------------------------------------------------------
LEMMA ResolveStep == ASSUME IInv, NEW c \in Commands, ResolvePersisted(c) PROVE IInv'
<1> USE DEF IInv
<1> DEFINE next == IF cmd[c].half = "cert" THEN "resolve" ELSE "renew"
<1>1. pc[c] = "resolve" /\ Serving(c) /\ keystore[cmd[c].half] \in Serials
  BY DEF ResolvePersisted, At, Serving, Phases, Resolved
<1>2. UNCHANGED <<issued, aged, keystore, snapshots, shipped, mounted, cut, forgotten>>
  BY DEF ResolvePersisted, copies
<1>3. /\ pc' \in [Commands -> Phases] /\ pc'[c] = next
      /\ \A d \in Commands : d # c => pc'[d] = pc[d]
  <2>1. next \in Phases /\ Goto(c, next)
    BY DEF ResolvePersisted, OtherHalf, Phases
  <2> QED
    BY <2>1, Went
<1>4. /\ cmd' \in [Commands -> CommandRecords] /\ cmd'[c].half = Turned(c)
      /\ cmd'[c].pair[cmd[c].half] = keystore[cmd[c].half]
      /\ \A half \in Halves : half # cmd[c].half => cmd'[c].pair[half] = cmd[c].pair[half]
      /\ cmd'[c].kind = cmd[c].kind /\ cmd'[c].host = cmd[c].host
      /\ \A d \in Commands : d # c => cmd'[d] = cmd[d]
  BY ReadTypes, Copied DEF ResolvePersisted, Read
<1>5. TypeOK'
  BY <1>2, <1>3, <1>4 DEF TypeOK
<1>6. CommandsOK'
  BY <1>1, <1>2, <1>3, <1>4, ReadTypes, Numbers DEF CommandsOK, Serving, Phases
<1>7. DeployOK'
  <2>1. CASE cmd[c].half = "cert"
    BY <2>1, <1>1, <1>2, <1>3, <1>4, Numbers, ReadTypes DEF DeployOK, KeyNext, Agree, Filled
  <2>2. CASE cmd[c].half = "key"
    <3>1. Agree(cmd[c].pair, keystore)' /\ Filled(keystore)'
      BY <2>2, <1>1, <1>2, <1>4, Numbers DEF DeployOK, KeyNext, Agree, Filled
    <3> QED
      BY <3>1, <2>2, <1>1, <1>2, <1>3, <1>4 DEF DeployOK, KeyNext, Agree, Filled
  <2> QED
    BY <2>1, <2>2, ReadTypes, Numbers
<1>8. BackupOK' /\ CopiesOK' /\ IssuesOK'
  BY <1>1, <1>2, <1>3, <1>4 DEF BackupOK, CopiesOK, IssuesOK, KeyNext, Matching, Whole, Filled
<1> QED
  BY <1>5, <1>6, <1>7, <1>8

LEMMA ReuseStep == ASSUME IInv, NEW c \in Commands, Reuse(c) PROVE IInv'
<1> USE DEF IInv
<1>1. pc[c] = "renew" /\ Serving(c)
  BY DEF Reuse, At, Serving, Phases
<1>2. UNCHANGED <<issued, aged, keystore, snapshots, shipped, mounted, cmd, cut, forgotten>>
  BY DEF Reuse, copies
<1>3. /\ pc' \in [Commands -> Phases] /\ pc'[c] = "ship"
      /\ \A d \in Commands : d # c => pc'[d] = pc[d]
  <2>1. "ship" \in Phases
    BY DEF Phases
  <2> QED
    BY <2>1, Went DEF Reuse
<1>4. TypeOK' /\ CommandsOK'
  BY <1>1, <1>2, <1>3 DEF TypeOK, CommandsOK, Serving, Phases
<1>5. DeployOK'
  BY <1>1, <1>2, <1>3 DEF DeployOK, CommandsOK, KeyNext, Agree, Filled
<1>6. BackupOK' /\ CopiesOK' /\ IssuesOK'
  BY <1>1, <1>2, <1>3 DEF BackupOK, CopiesOK, IssuesOK, KeyNext, Matching, Whole, Filled
<1> QED
  BY <1>4, <1>5, <1>6

LEMMA IssueStep == ASSUME IInv, NEW c \in Commands, Issue(c) PROVE IInv'
<1> USE DEF IInv
<1>1. /\ pc[c] = "renew" /\ Serving(c) /\ cmd[c].half = "cert"
      /\ \A d \in Commands : Serving(d) => d = c
      /\ Agree(cmd[c].pair, keystore) /\ Filled(keystore)
      /\ cmd[c].pair["cert"] <= aged
  <2>1. pc[c] = "renew" /\ Serving(c) /\ cmd[c].pair["cert"] <= aged
    BY DEF Issue, At, Serving, Phases, NeedsRenewal
  <2> QED
    BY <2>1 DEF CommandsOK, DeployOK
<1>2. /\ UNCHANGED <<aged, keystore, snapshots, shipped, mounted, cut, forgotten>>
      /\ issued' = issued + 1 /\ issued < MaxSerial
  BY DEF Issue, copies
<1>3. /\ pc' \in [Commands -> Phases] /\ pc'[c] = "store"
      /\ \A d \in Commands : d # c => pc'[d] = pc[d]
  <2>1. "store" \in Phases
    BY DEF Phases
  <2> QED
    BY <2>1, Went DEF Issue
<1>4. issued \in Serials /\ issued' \in Serials /\ aged \in 0 .. issued /\ aged' \in 0 .. issued'
  BY <1>2, Numbers DEF TypeOK, Serials
<1>5. /\ cmd' \in [Commands -> CommandRecords] /\ cmd'[c].half = cmd[c].half
      /\ \A half \in Halves : cmd'[c].pair[half] = issued'
      /\ cmd'[c].kind = cmd[c].kind /\ cmd'[c].host = cmd[c].host
      /\ \A d \in Commands : d # c => cmd'[d] = cmd[d]
  <2> DEFINE pair == Pair(issued + 1)
             new == [cmd[c] EXCEPT !.pair = pair]
  <2>1. pair \in Held /\ \A half \in Halves : pair[half] = issued'
    BY <1>2, <1>4 DEF Pair, Held
  <2>2. cmd[c] \in CommandRecords
    BY DEF TypeOK
  <2> HIDE DEF pair
  <2>3. /\ new \in CommandRecords /\ new.pair = pair
        /\ new.half = cmd[c].half /\ new.kind = cmd[c].kind /\ new.host = cmd[c].host
    BY <2>1, <2>2 DEF CommandRecords
  <2>4. cmd' = [cmd EXCEPT ![c] = new]
    BY DEF Issue, pair, TypeOK
  <2> HIDE DEF new
  <2> QED
    BY <2>1, <2>3, <2>4 DEF TypeOK
<1>6. TypeOK'
  BY <1>2, <1>3, <1>4, <1>5 DEF TypeOK
<1>7. CommandsOK'
  BY <1>1, <1>2, <1>3, <1>5 DEF CommandsOK, Serving, Phases
<1>8. \A d \in Commands : d # c => pc[d] \in {"idle", "capture", "snapshot"}
  BY <1>1 DEF Serving, TypeOK
<1>9. DeployOK'
  BY <1>1, <1>2, <1>3, <1>5, <1>8, Numbers DEF DeployOK, KeyNext, Agree, Filled
<1>10. BackupOK' /\ CopiesOK'
  BY <1>1, <1>2, <1>3, <1>5 DEF BackupOK, CopiesOK, KeyNext, Matching, Whole, Filled
<1>11. IssuesOK'
  <2>1. \A n \in 1 .. issued : n <= aged \/ n \in forgotten
    BY <1>1, <1>8, Numbers DEF IssuesOK, Agree, Filled
  <2>2. pc'[c] = "store" /\ cmd'[c].half = "cert"
    BY <1>1, <1>3, <1>5
  <2>3. \A n \in 1 .. issued' : n \in 1 .. issued \/ n = issued'
    BY <1>2, <1>4, Numbers
  <2> QED
    BY <2>1, <2>2, <2>3, <1>2 DEF IssuesOK
<1> QED
  BY <1>6, <1>7, <1>9, <1>10, <1>11

LEMMA StoreRenewedStep == ASSUME IInv, NEW c \in Commands, StoreRenewed(c) PROVE IInv'
<1> USE DEF IInv
<1> DEFINE next == IF cmd[c].half = "cert" THEN "store" ELSE "ship"
<1>1. /\ pc[c] = "store" /\ Serving(c)
      /\ \A d \in Commands : Serving(d) => d = c
      /\ cmd[c].half \in Halves /\ \A half \in Halves : cmd[c].pair[half] = issued
      /\ issued \in Serials
  <2>1. pc[c] = "store" /\ Serving(c)
    BY DEF StoreRenewed, At, Serving, Phases
  <2> QED
    BY <2>1, ReadTypes DEF DeployOK, CommandsOK, TypeOK
<1>2. UNCHANGED <<issued, aged, snapshots, shipped, mounted, forgotten>>
  BY DEF StoreRenewed
<1>3. /\ pc' \in [Commands -> Phases] /\ pc'[c] = next
      /\ \A d \in Commands : d # c => pc'[d] = pc[d]
  <2>1. next \in Phases /\ Goto(c, next)
    BY DEF StoreRenewed, OtherHalf, Phases
  <2> QED
    BY <2>1, Went
<1>4. /\ cmd' \in [Commands -> CommandRecords] /\ cmd'[c].half = Turned(c)
      /\ cmd'[c].pair = cmd[c].pair
      /\ cmd'[c].kind = cmd[c].kind /\ cmd'[c].host = cmd[c].host
      /\ \A d \in Commands : d # c => cmd'[d] = cmd[d]
  BY Flipped DEF StoreRenewed
<1>5. /\ keystore' \in Held /\ keystore'[cmd[c].half] = issued
      /\ \A other \in Halves : other # cmd[c].half => keystore'[other] = keystore[other]
      /\ cut \subseteq cut' /\ cut' \subseteq Serials
      /\ \A b \in Commands : KeyNext(b, "capture") => cmd[b].pair["cert"] \in cut'
  BY <1>1, StoreEffect DEF StoreRenewed
<1>6. TypeOK'
  BY <1>2, <1>3, <1>4, <1>5 DEF TypeOK
<1>7. CommandsOK'
  BY <1>1, <1>2, <1>3, <1>4 DEF CommandsOK, Serving, Phases
<1>8. \A d \in Commands : d # c => pc[d] \in {"idle", "capture", "snapshot"}
  BY <1>1 DEF Serving, TypeOK
<1>9. keystore'["cert"] = issued /\ (cmd[c].half = "key" => keystore'["key"] = issued)
  BY <1>1, <1>5, Numbers DEF DeployOK, KeyNext
<1>10. DeployOK'
  BY <1>1, <1>2, <1>3, <1>4, <1>8, <1>9, ReadTypes, Numbers DEF DeployOK, KeyNext, Agree, Filled
<1>11. BackupOK'
  BY <1>3, <1>4, <1>5, BackupFrame
<1>12. CopiesOK'
  <2>1. (\A d \in Commands : ~KeyNext(d, "store"))' => Matching(keystore)'
    <3>1. CASE cmd[c].half = "cert"
      BY <3>1, <1>3, <1>4, ReadTypes DEF KeyNext
    <3>2. CASE cmd[c].half = "key"
      BY <3>2, <1>9 DEF Matching, Whole
    <3> QED
      BY <3>1, <3>2, <1>1, Numbers
  <2> QED
    BY <2>1, <1>1, <1>2, <1>3, <1>4, <1>5, <1>9, ReadTypes, Numbers
    DEF CopiesOK, KeyNext, Matching, Whole
<1>13. IssuesOK'
  <2>1. \A n \in 1 .. issued : n <= aged \/ n \in forgotten \/ n = issued
    <3>1. CASE cmd[c].half = "cert"
      <4>1. keystore["cert"] \in Serials /\ keystore["cert"] <= aged
        BY <3>1, <1>1 DEF DeployOK
      <4> QED
        BY <4>1, <3>1, <1>1, <1>8, Numbers DEF IssuesOK
    <3>2. CASE cmd[c].half = "key"
      BY <3>2, <1>1, <1>8, Numbers DEF IssuesOK, DeployOK, KeyNext
    <3> QED
      BY <3>1, <3>2, <1>1, Numbers
  <2> QED
    BY <2>1, <1>2, <1>9 DEF IssuesOK
<1> QED
  BY <1>6, <1>7, <1>10, <1>11, <1>12, <1>13

-----------------------------------------------------------------------------
LEMMA ShipStep == ASSUME IInv, NEW c \in Commands, Ship(c) PROVE IInv'
<1> USE DEF IInv
<1> DEFINE next == IF cmd[c].half = "cert" THEN "ship" ELSE "converge"
<1>1. /\ pc[c] = "ship" /\ Serving(c) /\ cmd[c].host \in Hosts
      /\ \A d \in Commands : Serving(d) => d = c
      /\ cmd[c].half \in Halves
      /\ Agree(cmd[c].pair, keystore) /\ Filled(keystore)
  <2>1. pc[c] = "ship" /\ Serving(c)
    BY DEF Ship, At, Serving, Phases
  <2> QED
    BY <2>1, ReadTypes DEF DeployOK, CommandsOK
<1>a. PICK h \in Hosts : h = cmd[c].host
  BY <1>1
<1>2. UNCHANGED <<issued, aged, keystore, snapshots, mounted, cut, forgotten>>
  BY DEF Ship
<1>3. /\ pc' \in [Commands -> Phases] /\ pc'[c] = next
      /\ \A d \in Commands : d # c => pc'[d] = pc[d]
  <2>1. next \in Phases /\ Goto(c, next)
    BY DEF Ship, OtherHalf, Phases
  <2> QED
    BY <2>1, Went
<1>4. /\ cmd' \in [Commands -> CommandRecords] /\ cmd'[c].half = Turned(c)
      /\ cmd'[c].pair = cmd[c].pair
      /\ cmd'[c].kind = cmd[c].kind /\ cmd'[c].host = h
      /\ \A d \in Commands : d # c => cmd'[d] = cmd[d]
  BY <1>a, Flipped DEF Ship
<1>5. /\ shipped' \in [Hosts -> [Halves -> Serials \union {Absent}]]
      /\ shipped'[h][cmd[c].half] = keystore[cmd[c].half]
      /\ \A half \in Halves : half # cmd[c].half => shipped'[h][half] = shipped[h][half]
      /\ \A g \in Hosts : g # h => shipped'[g] = shipped[g]
  <2> DEFINE new == [shipped[h] EXCEPT ![cmd[c].half] = cmd[c].pair[cmd[c].half]]
  <2>1. /\ new \in [Halves -> Serials \union {Absent}]
        /\ new[cmd[c].half] = keystore[cmd[c].half]
        /\ \A half \in Halves : half # cmd[c].half => new[half] = shipped[h][half]
    BY <1>1 DEF TypeOK, Agree, Filled
  <2>2. shipped' = [shipped EXCEPT ![h] = new]
    BY <1>a DEF Ship, TypeOK
  <2> HIDE DEF new
  <2> QED
    BY <1>1, <2>1, <2>2 DEF TypeOK
<1>6. TypeOK'
  BY <1>2, <1>3, <1>4, <1>5 DEF TypeOK
<1>7. CommandsOK'
  BY <1>a, <1>1, <1>2, <1>3, <1>4 DEF CommandsOK, Serving, Phases
<1>8. \A d \in Commands : d # c => pc[d] \in {"idle", "capture", "snapshot"}
  BY <1>1 DEF Serving, TypeOK
<1>9. cmd[c].half = "key" => Agree(shipped'[h], keystore)
  BY <1>a, <1>1, <1>5, Numbers DEF DeployOK, KeyNext, Agree
<1>10. DeployOK'
  <2>1. CASE cmd[c].half = "cert"
    BY <1>a, <2>1, <1>1, <1>2, <1>3, <1>4, <1>5, <1>8, Numbers DEF DeployOK, KeyNext, Agree, Filled
  <2>2. CASE cmd[c].half = "key"
    BY <2>2, <1>2, <1>3, <1>4, <1>8, <1>9 DEF DeployOK, KeyNext, Agree, Filled
  <2> QED
    BY <2>1, <2>2, <1>1, Numbers
<1>11. BackupOK' /\ IssuesOK'
  BY <1>1, <1>2, <1>3, <1>4 DEF BackupOK, IssuesOK, KeyNext, Matching, Whole, Filled
<1>12. CopiesOK'
  <2>1. Matching(keystore)
    BY <1>1, <1>8 DEF CopiesOK, KeyNext
  <2>2. ~(KeyNext(c, "ship") /\ cmd[c].host = h)' => Matching(shipped[h])'
    <3>1. CASE cmd[c].half = "cert"
      BY <1>a, <3>1, <1>3, <1>4, ReadTypes DEF KeyNext
    <3>2. CASE cmd[c].half = "key"
      BY <3>2, <2>1, <1>1, <1>2, <1>9, Numbers DEF Matching, Whole, Agree
    <3> QED
      BY <3>1, <3>2, <1>1, Numbers
  <2>3. \A g \in Hosts : g # h => Matching(shipped[g])'
    BY <1>a, <1>1, <1>2, <1>5, <1>8 DEF CopiesOK, KeyNext, Matching, Whole
  <2> QED
    BY <1>a, <2>1, <2>2, <2>3, <1>1, <1>2 DEF CopiesOK, Matching, Whole
<1> QED
  BY <1>6, <1>7, <1>10, <1>11, <1>12

LEMMA ConvergeStep == ASSUME IInv, NEW c \in Commands, Converge(c) PROVE IInv'
<1> USE DEF IInv
<1>1. /\ pc[c] = "converge" /\ Serving(c) /\ cmd[c].host \in Hosts
      /\ \A d \in Commands : Serving(d) => d = c
  <2>1. pc[c] = "converge" /\ Serving(c)
    BY DEF Converge, At, Serving, Phases
  <2> QED
    BY <2>1 DEF CommandsOK
<1>2. UNCHANGED <<issued, aged, keystore, snapshots, shipped, cmd, cut, forgotten>>
  BY DEF Converge
<1>3. /\ pc' \in [Commands -> Phases] /\ pc'[c] = "wait"
      /\ \A d \in Commands : d # c => pc'[d] = pc[d]
  <2>1. "wait" \in Phases
    BY DEF Phases
  <2> QED
    BY <2>1, Went DEF Converge
<1>4. /\ mounted' \in [Hosts -> [Halves -> Serials \union {Absent}]]
      /\ \A h \in Hosts : mounted'[h] \in {mounted[h], shipped[cmd[c].host]}
  BY <1>1 DEF Converge, TypeOK
<1>5. TypeOK' /\ CommandsOK'
  BY <1>1, <1>2, <1>3, <1>4 DEF TypeOK, CommandsOK, Serving, Phases
<1>6. DeployOK' /\ BackupOK' /\ IssuesOK'
  BY <1>1, <1>2, <1>3 DEF DeployOK, BackupOK, IssuesOK, KeyNext, Agree, Filled, Matching, Whole
<1>7. CopiesOK'
  <2>1. Matching(shipped[cmd[c].host])
    BY <1>1 DEF CopiesOK, KeyNext, Serving, Phases
  <2> QED
    BY <2>1, <1>1, <1>2, <1>3, <1>4 DEF CopiesOK, KeyNext, Matching, Whole
<1> QED
  BY <1>5, <1>6, <1>7

LEMMA WaitStep == ASSUME IInv, NEW c \in Commands, WaitCaddy(c) PROVE IInv'
<1> USE DEF IInv
<1>1. pc[c] = "wait"
  BY DEF WaitCaddy, At
<1>2. UNCHANGED <<issued, aged, keystore, snapshots, shipped, mounted, cut, forgotten>>
  BY DEF WaitCaddy, copies
<1>3. /\ pc' \in [Commands -> Phases] /\ cmd' \in [Commands -> CommandRecords]
      /\ pc'[c] = "idle"
      /\ \A d \in Commands : d # c => pc'[d] = pc[d] /\ cmd'[d] = cmd[d]
  BY Ended DEF WaitCaddy
<1>4. TypeOK' /\ CommandsOK'
  BY <1>1, <1>2, <1>3 DEF TypeOK, CommandsOK, Serving, Phases
<1>5. DeployOK' /\ BackupOK'
  BY <1>1, <1>2, <1>3 DEF DeployOK, BackupOK, KeyNext, Agree, Filled, Matching, Whole
<1>6. CopiesOK' /\ IssuesOK'
  BY <1>1, <1>2, <1>3 DEF CopiesOK, IssuesOK, KeyNext, Matching, Whole
<1> QED
  BY <1>4, <1>5, <1>6

LEMMA StopStep == ASSUME IInv, NEW c \in Commands, Stop(c) PROVE IInv'
<1> USE DEF IInv
<1>1. UNCHANGED <<issued, aged, snapshots, shipped, mounted>>
  BY DEF Stop
<1>2. /\ pc' \in [Commands -> Phases] /\ cmd' \in [Commands -> CommandRecords]
      /\ pc'[c] = "idle"
      /\ \A d \in Commands : d # c => pc'[d] = pc[d] /\ cmd'[d] = cmd[d]
  BY Ended DEF Stop
<1>3. \/ keystore' = keystore
      \/ /\ pc[c] \in {"store", "store-install"}
         /\ keystore' = [keystore EXCEPT ![cmd[c].half] = Empty]
         /\ keystore' # keystore
  BY DEF Stop
<1>4. /\ cut \subseteq cut' /\ cut' \subseteq Serials
      /\ keystore' # keystore =>
           \A b \in Commands : KeyNext(b, "capture") => cmd[b].pair["cert"] \in cut'
      /\ KeyNext(c, "store") \/ KeyNext(c, "ship") => cmd[c].pair["cert"] \in cut'
  <2>1. Straddling \subseteq Serials
    BY DEF Straddling, At, BackupOK, KeyNext
  <2>2. \A b \in Commands : KeyNext(b, "capture") => cmd[b].pair["cert"] \in Straddling
    BY DEF Straddling, At, KeyNext
  <2>3. Parting(c) => cmd[c].pair["cert"] \in Serials
    BY Numbers DEF Parting, DeployOK, Agree, Filled, TypeOK
  <2>4. KeyNext(c, "store") \/ KeyNext(c, "ship") => Parting(c)
    BY DEF KeyNext, Parting
  <2> QED
    BY <2>1, <2>2, <2>3, <2>4 DEF Stop, TypeOK
<1>5. /\ forgotten \subseteq forgotten' /\ forgotten' \subseteq Serials
      /\ pc[c] = "store" /\ cmd[c].half = "cert" => issued \in forgotten'
  BY Numbers DEF Stop, At, DeployOK, TypeOK
<1>6. keystore' \in Held
  BY <1>3, Numbers DEF TypeOK, Held
<1>7. TypeOK' /\ CommandsOK'
  <2>1. TypeOK'
    BY <1>1, <1>2, <1>4, <1>5, <1>6 DEF TypeOK
  <2>2. CommandsOK'
    BY <1>1, <1>2 DEF CommandsOK, Serving, Phases
  <2> QED
    BY <2>1, <2>2
<1>8. CASE keystore' = keystore
  <2>1. DeployOK' /\ BackupOK'
    BY <1>1, <1>2, <1>4, <1>8 DEF DeployOK, BackupOK, KeyNext, Agree, Filled, Matching, Whole
  <2>2. CopiesOK'
    <3>1. (\A d \in Commands : ~KeyNext(d, "store"))' => Matching(keystore)'
      <4>1. CASE KeyNext(c, "store")
        BY <4>1, <1>4, <1>8, Numbers DEF DeployOK, KeyNext, Matching
      <4>2. CASE ~KeyNext(c, "store")
        BY <4>2, <1>2, <1>4, <1>8 DEF CopiesOK, KeyNext, Matching, Whole
      <4> QED
        BY <4>1, <4>2
    <3>2. ASSUME NEW h \in Hosts,
                 (\A d \in Commands : ~(KeyNext(d, "ship") /\ cmd[d].host = h))'
          PROVE  Matching(shipped[h])'
      <4>1. CASE KeyNext(c, "ship") /\ cmd[c].host = h
        BY <4>1, <1>1, <1>4 DEF DeployOK, Matching
      <4>2. CASE ~(KeyNext(c, "ship") /\ cmd[c].host = h)
        BY <4>2, <3>2, <1>1, <1>2, <1>4 DEF CopiesOK, KeyNext, Matching, Whole
      <4> QED
        BY <4>1, <4>2
    <3> QED
      BY <3>1, <3>2, <1>1, <1>4, <1>8 DEF CopiesOK, Matching, Whole
  <2>3. IssuesOK'
    BY <1>1, <1>2, <1>5, <1>8 DEF IssuesOK
  <2> QED
    BY <1>7, <2>1, <2>2, <2>3
<1>9. CASE /\ pc[c] \in {"store", "store-install"}
           /\ keystore' = [keystore EXCEPT ![cmd[c].half] = Empty]
           /\ keystore' # keystore
  <2>1. /\ cmd[c].half \in Halves /\ keystore'[cmd[c].half] = Empty
        /\ \A half \in Halves : half # cmd[c].half => keystore'[half] = keystore[half]
    BY <1>9, ReadTypes DEF TypeOK, Held
  <2>2. \A d \in Commands : d # c => pc[d] \in {"idle", "capture", "snapshot"}
    BY <1>9 DEF CommandsOK, Serving, TypeOK, Phases
  <2>3. DeployOK'
    BY <1>2, <2>2 DEF DeployOK, KeyNext
  <2>4. BackupOK'
    BY <1>2, <1>4, <1>9, BackupFrame
  <2>5. Matching(keystore)'
    BY <2>1, Numbers DEF Matching
  <2>6. (keystore["cert"] = Absent => keystore["key"] = Absent)'
    <3>1. CASE cmd[c].half = "cert"
      BY <3>1, <2>1 DEF Absent, Empty
    <3>2. CASE cmd[c].half = "key"
      <4>1. keystore["cert"] \in Serials
        <5>1. CASE pc[c] = "store"
          BY <5>1, <3>2 DEF DeployOK, KeyNext, TypeOK
        <5>2. CASE pc[c] = "store-install"
          BY <5>2, <3>2, Numbers DEF DeployOK, KeyNext, CommandsOK, TypeOK
        <5> QED
          BY <5>1, <5>2, <1>9
      <4> QED
        BY <4>1, <3>2, <2>1, Numbers
    <3> QED
      BY <3>1, <3>2, <2>1, Numbers
  <2>7. CopiesOK'
    BY <2>2, <2>5, <2>6, <1>1, <1>2, <1>4, <1>9 DEF CopiesOK, KeyNext, Matching, Whole
  <2>8. IssuesOK'
    <3>1. CASE cmd[c].half = "cert"
      BY <3>1, <2>1 DEF IssuesOK
    <3>2. CASE cmd[c].half = "key"
      BY <3>2, <2>1, <2>2, <1>1, <1>5, Numbers DEF IssuesOK
    <3> QED
      BY <3>1, <3>2, <2>1, Numbers
  <2> QED
    BY <1>7, <2>3, <2>4, <2>7, <2>8
<1> QED
  BY <1>3, <1>8, <1>9

-----------------------------------------------------------------------------
LEMMA StutterStep == ASSUME IInv, UNCHANGED vars PROVE IInv'
BY DEF vars, copies, IInv, TypeOK, CommandsOK, DeployOK, BackupOK, CopiesOK, IssuesOK,
       Serving, KeyNext, Agree, Filled, Matching, Whole

LEMMA NextStep == ASSUME IInv, [Next]_vars PROVE IInv'
<1>1. CASE Next
  <2>1. CASE Age \/ LoseKeystore \/ \E h \in Hosts : CaddyRestart(h)
    BY <2>1, AgeStep, LoseStep, CaddyStep
  <2>2. ASSUME NEW c \in Commands,
               \/ BeginBackup(c) \/ Capture(c) \/ TakeSnapshot(c)
               \/ \E h \in Hosts :
                    \/ BeginUp(c, h)
                    \/ \E s \in snapshots : BeginRestore(c, h, s)
        PROVE  IInv'
    BY <2>2, BeginBackupStep, CaptureStep, SnapshotStep, BeginUpStep, BeginRestoreStep
  <2>3. ASSUME NEW c \in Commands,
               \/ Install(c) \/ StoreInstalled(c) \/ ResolvePersisted(c) \/ Reuse(c)
               \/ Issue(c) \/ StoreRenewed(c) \/ Ship(c) \/ Converge(c)
               \/ WaitCaddy(c) \/ Stop(c)
        PROVE  IInv'
    BY <2>3, InstallStep, StoreInstalledStep, ResolveStep, ReuseStep, IssueStep,
       StoreRenewedStep, ShipStep, ConvergeStep, WaitStep, StopStep
  <2> QED
    BY <1>1, <2>1, <2>2, <2>3 DEF Next
<1> QED
  BY <1>1, StutterStep

LEMMA Invariance == Spec => []IInv
BY InitOK, NextStep, PTL DEF Spec

(* The state of every command, host, snapshot and the keystore is what     *)
(* configureTLS, installKeys and captureKeys can leave.                    *)
THEOREM TypeCorrect == Spec => []TypeOK
<1>1. IInv => TypeOK
  BY DEF IInv
<1> QED
  BY <1>1, Invariance, PTL

(* Over any number of commands, hosts and issuances, a certificate and the *)
(* key beside it come from one issuance, but where a stop, a restart or a  *)
(* backup caught the pair between its halves.                              *)
THEOREM HalvesMatch == Spec => []PairsKeptTogether
<1>1. IInv => PairsKeptTogether
  BY DEF IInv, PairsKeptTogether, CopiesOK, KeyNext, Parting
<1> QED
  BY <1>1, Invariance, PTL

(* What a deploy has shipped when it converges is what the keystore holds. *)
THEOREM ShippedIsStored == Spec => ShippedIsKept
<1>1. ASSUME IInv, NEW c \in Commands, Converge(c)
      PROVE  shipped[cmd[c].host] = keystore
  <2>1. pc[c] = "converge" /\ cmd[c].host \in Hosts
    BY <1>1 DEF IInv, CommandsOK, Serving, Phases, Converge, At
  <2>2. Agree(shipped[cmd[c].host], keystore)
    BY <2>1, <1>1 DEF IInv, DeployOK
  <2>3. /\ keystore = [half \in Halves |-> keystore[half]]
        /\ shipped[cmd[c].host] = [half \in Halves |-> shipped[cmd[c].host][half]]
    BY <2>1, <1>1 DEF IInv, TypeOK, Held
  <2> QED
    BY <2>2, <2>3 DEF Agree
<1>2. IInv => [\A c \in Commands : Converge(c) => shipped[cmd[c].host] = keystore]_vars
  BY <1>1
<1> QED
  BY <1>2, Invariance, PTL DEF ShippedIsKept

(* However often commands are stopped and repeated, nothing is asked of    *)
(* the ACME server while an issuance that is not due can still be used.    *)
THEOREM IssuedWhenDue == Spec => RenewalsNotRepeated
<1>1. ASSUME IInv, NEW c \in Commands, Issue(c)
      PROVE  1 .. issued \subseteq (1 .. aged) \union forgotten
  <2>1. /\ pc[c] = "renew" /\ Serving(c) /\ cmd[c].pair["cert"] <= aged
        /\ \A d \in Commands : Serving(d) => d = c
    BY <1>1 DEF IInv, CommandsOK, Serving, Phases, Issue, At, NeedsRenewal
  <2>2. \A d \in Commands : pc[d] # "store"
    BY <2>1 DEF Serving, Phases
  <2>3. keystore["cert"] \in Serials /\ keystore["cert"] <= aged
    BY <2>1, <1>1, Numbers DEF IInv, DeployOK, Agree, Filled
  <2>4. \A n \in 1 .. issued : n <= aged \/ n \in forgotten
    BY <2>2, <2>3, <1>1, Numbers DEF IInv, IssuesOK
  <2>5. issued \in Int /\ aged \in Int
    BY <1>1, Numbers DEF IInv, TypeOK, Serials
  <2> QED
    BY <2>4, <2>5
<1>2. IInv => [\A c \in Commands : Issue(c) =>
                 1 .. issued \subseteq (1 .. aged) \union forgotten]_vars
  BY <1>1
<1> QED
  BY <1>2, Invariance, PTL DEF RenewalsNotRepeated
=============================================================================
