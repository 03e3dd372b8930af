-------------------------- MODULE ConcurrencyProofs --------------------------
(* Proofs about the two components in which things run at once: the        *)
(* commands of SharedHost, for any number of directories, services and     *)
(* commands, and any faults; the goroutines of EventStream, for any number *)
(* of frontends, any depth of calls and any number of events.  They share  *)
(* no variable, and no theorem is about both.                              *)
EXTENDS SharedHost, EventStream, SequenceTheorems, TLAPS

-----------------------------------------------------------------------------
(* SharedHost *)

NameOf(d) == {d} \X Domains

Exempt(d) == d = Live \/ <<"remove", d>> \in cuts

(* Commands at work are in directories of their own. *)
AloneInv ==
  \A c, o \in Commands : Active(c) /\ Active(o) /\ c # o => cmd[c].dir # cmd[o].dir

(* A directory resolves to a name of its own, or is an older binary's.     *)
RecordOf(d) ==
  /\ place[d].record \in {None, Legacy} \union NameOf(d)
  /\ place[d].record = Legacy => Exempt(d)
  /\ place[d].record = None /\ place[d].shipped => Exempt(d)

RecordInv == \A d \in Dirs : RecordOf(d)

(* A container's project is its directory's, and can be taken down there.  *)
ContainerOf(s) ==
  containers[s] # None =>
    /\ containers[s].project \in {Legacy} \union NameOf(containers[s].dir)
    /\ containers[s].project = Legacy =>
         containers[s].dir = Live \/ \E d \in Dirs : <<"remove", d>> \in cuts
    /\ \/ place[containers[s].dir].shipped /\ containers[s].project = ProjectOf(containers[s].dir)
       \/ <<"install", containers[s].dir>> \in cuts

ContainerInv == \A s \in Services : ContainerOf(s)

(* What a command has done to its directory when it comes to a step. *)
PhaseOf(c) ==
  /\ pc[c] \in {"install", "boot"} => place[cmd[c].dir].record # None
  /\ pc[c] = "boot" => place[cmd[c].dir].shipped
  /\ pc[c] = "remove" =>
       (\A s \in Services : containers[s] # None => containers[s].dir # cmd[c].dir)
         \/ <<"install", cmd[c].dir>> \in cuts

PhaseInv == \A c \in Commands : PhaseOf(c)

IInv == TypeOK /\ AloneInv /\ RecordInv /\ ContainerInv /\ PhaseInv

-----------------------------------------------------------------------------
(* A command that moves on keeps its directory; the others stay.           *)
LEMMA GotoEffect ==
  ASSUME TypeOK, AloneInv, NEW c \in Commands, Active(c), NEW phase \in Phases, Goto(c, phase)
  PROVE  /\ pc' \in [Commands -> Phases] /\ cmd' \in [Commands -> [kind : Kinds, dir : Dirs]]
         /\ pc'[c] = phase /\ (phase \notin Ended => cmd'[c] = cmd[c])
         /\ \A o \in Commands \ {c} : pc'[o] = pc[o] /\ cmd'[o] = cmd[o]
         /\ AloneInv'
<1>1. NoCommand \in [kind : Kinds, dir : Dirs]
  BY LiveAssumption DEF NoCommand, Kinds
<1>2. /\ pc' \in [Commands -> Phases] /\ cmd' \in [Commands -> [kind : Kinds, dir : Dirs]]
      /\ pc'[c] = phase /\ (phase \notin Ended => cmd'[c] = cmd[c])
      /\ \A o \in Commands \ {c} : pc'[o] = pc[o] /\ cmd'[o] = cmd[o]
  BY <1>1 DEF TypeOK, Goto
<1>3. AloneInv'
  BY <1>2 DEF AloneInv, Active
<1> QED
  BY <1>2, <1>3

AfterFailures == {"ended", "dirty", "down"}

LEMMA FailurePhases ==
  ASSUME NEW c \in Commands
  PROVE  AfterFailure(c) \in AfterFailures /\ AfterFailures \subseteq Phases
BY DEF AfterFailure, AfterFailures, Phases, Ended

LEMMA DoneEffect ==
  ASSUME NEW c \in Commands, NEW phase \in Phases, Done(c, phase)
  PROVE  \E next \in AfterFailures \union {phase} : next \in Phases /\ Goto(c, next)
BY FailurePhases DEF Done

(* What a step in one directory cannot do to the commands in the others.   *)
LEMMA OthersPhases ==
  ASSUME TypeOK, AloneInv, PhaseInv, NEW c \in Commands, Active(c),
         NEW o \in Commands, o # c, pc'[o] = pc[o], cmd'[o] = cmd[o],
         \A d \in Dirs \ {cmd[c].dir} : place'[d] = place[d],
         \A s \in Services : \/ containers'[s] = None \/ containers'[s] = containers[s]
                             \/ containers'[s].dir = cmd[c].dir,
         cuts \subseteq cuts'
  PROVE  PhaseOf(o)'
<1>1. PhaseOf(o) /\ cmd[o].dir \in Dirs
  BY DEF PhaseInv, TypeOK
<1>2. CASE Active(o)
  <2>1. cmd[o].dir # cmd[c].dir
    BY <1>2 DEF AloneInv
  <2> QED
    BY <1>1, <2>1 DEF PhaseOf
<1>3. CASE ~Active(o)
  BY <1>3 DEF PhaseOf, Active, Ended
<1> QED
  BY <1>2, <1>3

(* A step that changes neither a record nor what was shipped, nor any      *)
(* container, and does not lead to a step that needs them.                 *)
LEMMA QuietStep ==
  ASSUME IInv, NEW c \in Commands, Active(c),
         NEW phase \in Phases \ {"install", "boot", "remove"}, Goto(c, phase),
         UNCHANGED <<domain, defined, containers, cuts>>, place' \in [Dirs -> Places],
         \A d \in Dirs : place'[d].record = place[d].record /\ place'[d].shipped = place[d].shipped,
         \A d \in Dirs \ {cmd[c].dir} : place'[d] = place[d]
  PROVE  IInv'
<1> USE DEF IInv
<1>1. TypeOK' /\ AloneInv'
  BY GotoEffect DEF TypeOK
<1>2. RecordInv'
  BY DEF RecordInv, RecordOf, Exempt
<1>3. ContainerInv'
  <2>1. \A s \in Services : containers[s] # None => containers[s].dir \in Dirs
    BY DEF TypeOK
  <2> QED
    BY <2>1 DEF ContainerInv, ContainerOf, ProjectOf
<1>4. PhaseInv'
  <2>1. \A o \in Commands \ {c} : PhaseOf(o)'
    BY GotoEffect, OthersPhases
  <2>2. PhaseOf(c)'
    BY GotoEffect DEF PhaseOf
  <2> QED
    BY <2>1, <2>2 DEF PhaseInv
<1> QED
  BY <1>1, <1>2, <1>3, <1>4

LEMMA StateTypes ==
  ASSUME TypeOK, NEW d \in Dirs
  PROVE  /\ [place[d] EXCEPT !.state = TRUE] \in Places
         /\ [place[d] EXCEPT !.state = TRUE].record = place[d].record
         /\ [place[d] EXCEPT !.state = TRUE].shipped = place[d].shipped
BY DEF TypeOK, Places

LEMMA StartStep ==
  ASSUME IInv, NEW c \in Commands, NEW kind \in Kinds, NEW d \in Dirs, Start(c, kind, d)
  PROVE  IInv'
<1> USE DEF IInv
<1>1. pc'[c] \in {"configure", "place", "resolve"} /\ pc' \in [Commands -> Phases]
      /\ \A o \in Commands \ {c} : pc'[o] = pc[o]
  BY DEF Start, TypeOK, Kinds, Phases, Deploying
<1>2. /\ cmd' \in [Commands -> [kind : Kinds, dir : Dirs]] /\ cmd'[c].dir = d
      /\ \A o \in Commands \ {c} : cmd'[o] = cmd[o]
  BY DEF Start, TypeOK
<1>3. UNCHANGED <<domain, defined, place, containers, cuts>>
  BY DEF Start
<1>4. TypeOK'
  BY <1>1, <1>2, <1>3 DEF TypeOK
<1>5. AloneInv'
  BY <1>1, <1>2 DEF AloneInv, Active, Start
<1>6. RecordInv' /\ ContainerInv'
  BY <1>3 DEF RecordInv, RecordOf, Exempt, ContainerInv, ContainerOf, ProjectOf
<1>7. PhaseInv'
  BY <1>1, <1>2, <1>3 DEF PhaseInv, PhaseOf
<1> QED
  BY <1>4, <1>5, <1>6, <1>7

(* Steps that only move on, or place state. *)
LEMMA QuietSteps ==
  ASSUME IInv, NEW c \in Commands,
         \/ Fail(c) \/ Kill(c) \/ ResolveSnapshot(c) \/ PlaceState(c) \/ Configure(c)
         \/ Wait(c) \/ Smoke(c)
  PROVE  IInv'
<1>1. Active(c)
  BY DEF Fail, Kill, ResolveSnapshot, PlaceState, Configure, Wait, Smoke, Active, Ended
<1>2. \E phase \in Phases \ {"install", "boot", "remove"} : Goto(c, phase)
  <2>1. CASE Fail(c)
    BY <2>1, FailurePhases DEF Fail, AfterFailures
  <2>2. CASE PlaceState(c) \/ Configure(c)
    BY <2>2, FailurePhases, DoneEffect DEF PlaceState, Configure, AfterFailures, Phases, Deploying
  <2>3. CASE Kill(c) \/ ResolveSnapshot(c) \/ Wait(c) \/ Smoke(c)
    BY <2>3 DEF Kill, ResolveSnapshot, Wait, Smoke, Phases, Deploying, Ended
  <2> QED
    BY <2>1, <2>2, <2>3
<1>3. UNCHANGED <<domain, defined, containers, cuts>>
  BY DEF Fail, Kill, ResolveSnapshot, PlaceState, Configure, Wait, Smoke
<1>4. cmd[c].dir \in Dirs /\ place \in [Dirs -> Places]
  BY DEF IInv, TypeOK
<1>5. place' = place \/ place' = [place EXCEPT ![cmd[c].dir].state = TRUE]
  BY DEF Fail, Kill, ResolveSnapshot, PlaceState, Configure, Wait, Smoke
<1>6. /\ place' \in [Dirs -> Places]
      /\ \A d \in Dirs : place'[d].record = place[d].record /\ place'[d].shipped = place[d].shipped
      /\ \A d \in Dirs \ {cmd[c].dir} : place'[d] = place[d]
  BY <1>4, <1>5, StateTypes DEF IInv
<1> QED
  BY <1>1, <1>2, <1>3, <1>6, QuietStep

(* PinProjectName names a directory once, and never one that has           *)
(* containers but by the name they have.                                   *)
LEMMA PinStep ==
  ASSUME IInv, NEW c \in Commands, Pin(c)
  PROVE  IInv'
<1> USE DEF IInv
<1> DEFINE d == cmd[c].dir
           new == [place[d] EXCEPT !.record = Pinned(d)]
<1>1. Active(c) /\ d \in Dirs /\ place[d] \in Places /\ domain \in Domains
  BY DEF Pin, Active, Ended, TypeOK
<1>2. PICK phase \in AfterFailures \union {"install"} : phase \in Phases /\ Goto(c, phase)
  BY DoneEffect DEF Pin, Phases, Deploying
<1>3. place' = [place EXCEPT ![d] = new] /\ UNCHANGED <<domain, defined, containers, cuts>>
  BY DEF Pin
<1>4. /\ Pinned(d) \in {Legacy} \union NameOf(d) /\ Pinned(d) # None
      /\ place[d].record # None => Pinned(d) = place[d].record
      /\ place[d].record = None /\ place[d].shipped => Pinned(d) = Legacy
      /\ place[d].record = None /\ ~place[d].shipped => Pinned(d) \in NameOf(d)
  <2>1. /\ place[d].record \in {None, Legacy} \union NameOf(d)
        /\ <<d, domain>> \in NameOf(d) /\ NameOf(d) \subseteq Projects /\ Legacy \in Projects
    BY <1>1 DEF NameOf, RecordInv, RecordOf, Projects
  <2>2. CASE place[d].record # None
    <3>1. Pinned(d) = place[d].record
      BY <2>2 DEF Pinned
    <3> QED
      BY <2>1, <2>2, <3>1
  <2>3. CASE place[d].record = None /\ place[d].shipped
    <3>1. Pinned(d) = Legacy
      BY <2>3 DEF Pinned
    <3> QED
      BY <2>1, <2>3, <3>1, NamesAssumption
  <2>4. CASE place[d].record = None /\ ~place[d].shipped
    <3>1. Pinned(d) = <<d, domain>>
      BY <2>4 DEF Pinned, ProjectNameFor
    <3> QED
      BY <2>1, <2>4, <3>1, NamesAssumption
  <2> QED
    BY <2>2, <2>3, <2>4
<1>5. new \in Places /\ new.record = Pinned(d) /\ new.shipped = place[d].shipped
  BY <1>1, <1>4 DEF Places, Projects, NameOf
<1> HIDE DEF new
<1>6. place' \in [Dirs -> Places] /\ place'[d] = new /\ \A e \in Dirs \ {d} : place'[e] = place[e]
  BY <1>1, <1>3, <1>5 DEF TypeOK
<1>7. TypeOK' /\ AloneInv'
  BY <1>1, <1>2, <1>3, <1>6, GotoEffect DEF TypeOK
<1>8. RecordInv'
  <2>1. /\ new.record \in {Legacy} \union NameOf(d) /\ new.record # None
        /\ new.record = Legacy => Exempt(d)
    BY <1>1, <1>4, <1>5, NamesAssumption DEF RecordInv, RecordOf, NameOf
  <2>2. ASSUME NEW e \in Dirs, e = d PROVE RecordOf(e)'
    BY <1>3, <1>6, <2>1, <2>2 DEF RecordOf, Exempt
  <2>3. ASSUME NEW e \in Dirs, e # d PROVE RecordOf(e)'
    BY <1>3, <1>6, <2>3 DEF RecordInv, RecordOf, Exempt
  <2> QED
    BY <2>2, <2>3 DEF RecordInv
<1>9. ContainerInv'
  <2>1. \A s \in Services : containers[s] # None => containers[s].dir \in Dirs
    BY DEF TypeOK
  <2>2. place[d].record # None \/ place[d].shipped => ProjectOf(d) = new.record
    BY <1>4, <1>5 DEF ProjectOf
  <2>3. \A e \in Dirs : place[e].shipped => place'[e].shipped /\ ProjectOf(e)' = ProjectOf(e)
    BY <1>4, <1>5, <1>6, <2>2 DEF ProjectOf
  <2> QED
    BY <1>3, <2>1, <2>3 DEF ContainerInv, ContainerOf
<1>10. PhaseInv'
  <2>1. \A o \in Commands \ {c} : PhaseOf(o)'
    BY <1>1, <1>2, <1>3, <1>6, GotoEffect, OthersPhases
  <2>2. PhaseOf(c)'
    <3>1. pc'[c] = phase /\ (phase = "install" => cmd'[c] = cmd[c])
      BY <1>1, <1>2, GotoEffect DEF Ended
    <3> QED
      BY <1>4, <1>5, <1>6, <3>1 DEF PhaseOf, AfterFailures
  <2> QED
    BY <2>1, <2>2 DEF PhaseInv
<1> QED
  BY <1>7, <1>8, <1>9, <1>10

LEMMA InstallStep ==
  ASSUME IInv, NEW c \in Commands, Install(c)
  PROVE  IInv'
<1> USE DEF IInv
<1> DEFINE d == cmd[c].dir
<1>1. Active(c) /\ d \in Dirs /\ place[d] \in Places /\ place[d].record # None
  BY DEF Install, Active, Ended, TypeOK, PhaseInv, PhaseOf
<1>2. PICK phase \in AfterFailures \union {"boot"} :
        /\ phase \in Phases /\ Goto(c, phase)
        /\ phase = "boot" => place' = [place EXCEPT ![d].shipped = TRUE]
  <2>1. CASE Goto(c, AfterFailure(c))
    BY <2>1, FailurePhases DEF AfterFailures
  <2>2. CASE Goto(c, "boot") /\ place' = [place EXCEPT ![d].shipped = TRUE]
    BY <2>2 DEF Phases, Deploying
  <2> QED
    BY <2>1, <2>2 DEF Install, Done
<1>3. PICK shipped \in BOOLEAN :
        /\ place' = [place EXCEPT ![d].shipped = shipped]
        /\ ~shipped => <<"install", d>> \in cuts'
        /\ phase = "boot" => shipped
        /\ cuts \subseteq cuts' /\ cuts' \subseteq cuts \union {<<"install", d>>}
  <2>1. CASE place' = [place EXCEPT ![d].shipped = TRUE] /\ UNCHANGED cuts
    BY <2>1
  <2>2. CASE /\ place' = [place EXCEPT ![d].shipped = FALSE]
             /\ cuts' = cuts \union {<<"install", d>>} /\ Goto(c, AfterFailure(c))
    <3>1. phase # "boot"
      BY <1>1, <1>2, <2>2, GotoEffect, FailurePhases DEF AfterFailures
    <3> QED
      BY <2>2, <3>1
  <2> QED
    BY <2>1, <2>2 DEF Install
<1> DEFINE new == [place[d] EXCEPT !.shipped = shipped]
<1>4. new \in Places /\ new.record = place[d].record /\ new.shipped = shipped
  BY <1>1 DEF Places
<1>5. place' = [place EXCEPT ![d] = new] /\ UNCHANGED <<domain, defined, containers>>
  BY <1>3 DEF Install
<1> HIDE DEF new
<1>6. place' \in [Dirs -> Places] /\ place'[d] = new /\ \A e \in Dirs \ {d} : place'[e] = place[e]
  BY <1>1, <1>4, <1>5 DEF TypeOK
<1>7. TypeOK' /\ AloneInv'
  BY <1>1, <1>2, <1>3, <1>5, <1>6, GotoEffect DEF TypeOK
<1>8. RecordInv'
  BY ZenonT(30), <1>1, <1>3, <1>4, <1>6 DEF RecordInv, RecordOf, Exempt
<1>9. ContainerInv'
  <2>1. \A s \in Services : containers[s] # None => containers[s].dir \in Dirs
    BY DEF TypeOK
  <2>2. \A e \in Dirs : /\ ProjectOf(e)' = ProjectOf(e)
                        /\ place[e].shipped => place'[e].shipped \/ <<"install", e>> \in cuts'
    BY <1>3, <1>4, <1>6 DEF ProjectOf
  <2> QED
    BY <1>3, <1>5, <2>1, <2>2 DEF ContainerInv, ContainerOf
<1>10. PhaseInv'
  <2>1. \A o \in Commands \ {c} : PhaseOf(o)'
    BY <1>1, <1>2, <1>3, <1>5, <1>6, GotoEffect, OthersPhases
  <2>2. PhaseOf(c)'
    <3>1. pc'[c] = phase /\ (phase = "boot" => cmd'[c] = cmd[c])
      BY <1>1, <1>2, GotoEffect DEF Ended
    <3> QED
      BY <1>1, <1>3, <1>4, <1>6, <3>1 DEF PhaseOf, AfterFailures
  <2> QED
    BY <2>1, <2>2 DEF PhaseInv
<1> QED
  BY <1>7, <1>8, <1>9, <1>10

(* What `docker compose up` makes is its directory's, in the project that  *)
(* the directory resolves to.                                              *)
LEMMA ComposeUpStep ==
  ASSUME IInv, NEW c \in Commands, ComposeUp(c)
  PROVE  IInv'
<1> USE DEF IInv
<1> DEFINE d == cmd[c].dir
           p == ProjectOf(d)
           new == [project |-> p, dir |-> d]
<1>1. Active(c) /\ d \in Dirs /\ place[d] \in Places /\ place[d].record # None /\ place[d].shipped
  BY DEF ComposeUp, Active, Ended, TypeOK, PhaseInv, PhaseOf
<1>2. /\ p = place[d].record /\ p \in {Legacy} \union NameOf(d) /\ p \in Projects
      /\ p = Legacy => Exempt(d)
  BY <1>1 DEF ProjectOf, RecordInv, RecordOf, Projects, NameOf
<1>3. PICK made \in SUBSET defined :
        /\ containers' = [s \in Services |->
             IF s \in made THEN new
             ELSE IF s \in InProject(p) \ defined THEN None ELSE containers[s]]
        /\ IF made = defined THEN Done(c, "wait") ELSE Goto(c, AfterFailure(c))
  BY DEF ComposeUp
<1>4. UNCHANGED <<domain, defined, place, cuts>>
  BY DEF ComposeUp
<1>5. PICK phase \in AfterFailures \union {"wait"} : phase \in Phases /\ Goto(c, phase)
  BY <1>3, FailurePhases, DoneEffect DEF Phases, Deploying
<1>6. new \in [project : Projects, dir : Dirs] /\ new.project = p /\ new.dir = d
  BY <1>1, <1>2
<1> HIDE DEF p, new
<1>7. \A s \in Services : containers'[s] = new \/ containers'[s] = None \/ containers'[s] = containers[s]
  BY <1>3
<1>8. TypeOK' /\ AloneInv'
  <2>1. containers' \in [Services -> [project : Projects, dir : Dirs] \union {None}]
    BY <1>3, <1>6 DEF TypeOK
  <2> QED
    BY <1>1, <1>4, <1>5, <2>1, GotoEffect DEF TypeOK
<1>9. RecordInv'
  BY <1>4 DEF RecordInv, RecordOf, Exempt
<1>10. ContainerInv'
  <2>1. ProjectOf(d) = p
    BY DEF p
  <2>2. \A e \in Dirs : ProjectOf(e)' = ProjectOf(e)
    BY <1>4 DEF ProjectOf
  <2>3. \A s \in Services : containers[s] # None => containers[s].dir \in Dirs
    BY DEF TypeOK
  <2>4. ASSUME NEW s \in Services PROVE ContainerOf(s)'
    <3>1. CASE containers'[s] = new
      BY <1>1, <1>2, <1>4, <1>6, <2>1, <2>2, <3>1 DEF ContainerOf, Exempt
    <3>2. CASE containers'[s] = None
      BY <3>2 DEF ContainerOf
    <3>3. CASE containers'[s] = containers[s]
      BY <1>4, <2>2, <2>3, <3>3 DEF ContainerInv, ContainerOf
    <3> QED
      BY <1>7, <3>1, <3>2, <3>3
  <2> QED
    BY <2>4 DEF ContainerInv
<1>11. PhaseInv'
  <2>1. \A o \in Commands \ {c} : PhaseOf(o)'
    BY <1>1, <1>4, <1>5, <1>6, <1>7, GotoEffect, OthersPhases
  <2>2. PhaseOf(c)'
    BY <1>1, <1>5, GotoEffect DEF PhaseOf, AfterFailures
  <2> QED
    BY <2>1, <2>2 DEF PhaseInv
<1> QED
  BY <1>8, <1>9, <1>10, <1>11

(* `docker compose down` that succeeds leaves none of its directory's      *)
(* containers.                                                             *)
LEMMA ComposeDownStep ==
  ASSUME IInv, NEW c \in Commands, ComposeDown(c)
  PROVE  IInv'
<1> USE DEF IInv
<1> DEFINE d == cmd[c].dir
           mine == IF place[d].shipped THEN InProject(ProjectOf(d)) ELSE {}
<1>1. Active(c) /\ d \in Dirs /\ place[d] \in Places
  BY DEF ComposeDown, Active, Ended, TypeOK
<1>2. PICK gone \in SUBSET mine :
        /\ containers' = [s \in Services |-> IF s \in gone THEN None ELSE containers[s]]
        /\ IF gone = mine THEN Done(c, "remove") ELSE Goto(c, "dirty")
  BY DEF ComposeDown
<1>3. UNCHANGED <<domain, defined, place, cuts>>
  BY DEF ComposeDown
<1>4. PICK phase \in AfterFailures \union {"remove"} :
        phase \in Phases /\ Goto(c, phase) /\ (phase = "remove" => gone = mine)
  <2>1. CASE gone = mine
    BY <1>2, <2>1, DoneEffect DEF Phases
  <2>2. CASE gone # mine
    BY <1>2, <2>2 DEF Phases, Ended, AfterFailures
  <2> QED
    BY <2>1, <2>2
<1>5. \A s \in Services : containers'[s] = None \/ containers'[s] = containers[s]
  BY <1>2
<1>6. TypeOK' /\ AloneInv'
  <2>1. containers' \in [Services -> [project : Projects, dir : Dirs] \union {None}]
    BY <1>2 DEF TypeOK
  <2> QED
    BY <1>1, <1>3, <1>4, <2>1, GotoEffect DEF TypeOK
<1>7. RecordInv'
  BY <1>3 DEF RecordInv, RecordOf, Exempt
<1>8. ContainerInv'
  BY <1>3, <1>5 DEF ContainerInv, ContainerOf, ProjectOf
<1>9. PhaseInv'
  <2>1. \A o \in Commands \ {c} : PhaseOf(o)'
    BY <1>1, <1>3, <1>4, <1>5, GotoEffect, OthersPhases
  <2>2. PhaseOf(c)'
    <3>1. pc'[c] = phase /\ (phase = "remove" => cmd'[c] = cmd[c])
      BY <1>1, <1>4, GotoEffect DEF Ended
    <3>2. ASSUME gone = mine, <<"install", d>> \notin cuts, NEW s \in Services, containers'[s] # None
          PROVE  containers'[s].dir # d
      <4>1. containers'[s] = containers[s] /\ s \notin mine
        BY <1>2, <3>2
      <4>2. containers[s].dir = d => s \in mine
        BY <3>2, <4>1 DEF ContainerInv, ContainerOf, InProject
      <4> QED
        BY <4>1, <4>2
    <3> QED
      BY <1>3, <1>4, <3>1, <3>2 DEF PhaseOf, AfterFailures
  <2> QED
    BY <2>1, <2>2 DEF PhaseInv
<1> QED
  BY <1>6, <1>7, <1>8, <1>9

(* The directory goes when its containers are gone.                        *)
LEMMA RemoveDirStep ==
  ASSUME IInv, NEW c \in Commands, RemoveDir(c)
  PROVE  IInv'
<1> USE DEF IInv
<1> DEFINE d == cmd[c].dir
<1>1. Active(c) /\ d \in Dirs /\ place[d] \in Places /\ PhaseOf(c) /\ pc[c] = "remove"
  BY DEF RemoveDir, Active, Ended, TypeOK, PhaseInv
<1>2. UNCHANGED <<domain, defined, containers>>
  BY DEF RemoveDir
<1>3. PICK left \in Places :
        /\ place' = [place EXCEPT ![d] = left]
        /\ left.record \in {None, place[d].record}
        /\ left = Nothing \/ <<"remove", d>> \in cuts'
        /\ cuts \subseteq cuts' /\ cuts' \subseteq cuts \union {<<"remove", d>>}
  <2>1. Nothing \in Places /\ Nothing.record = None
    BY DEF Nothing, Places
  <2> QED
    BY <2>1 DEF RemoveDir, Removed
<1>4. PICK phase \in AfterFailures \union {"clean"} : phase \in Phases /\ Goto(c, phase)
  <2>1. "clean" \in Phases /\ "dirty" \in Phases /\ "dirty" \in AfterFailures
    BY DEF Phases, Ended, AfterFailures
  <2> QED
    BY <2>1, DoneEffect DEF RemoveDir
<1>5. place' \in [Dirs -> Places] /\ place'[d] = left /\ \A e \in Dirs \ {d} : place'[e] = place[e]
  BY <1>1, <1>3 DEF TypeOK
<1>6. TypeOK' /\ AloneInv'
  BY <1>1, <1>2, <1>3, <1>4, <1>5, GotoEffect DEF TypeOK
<1>7. RecordInv'
  <2>1. ASSUME NEW e \in Dirs, e # d PROVE RecordOf(e)'
    BY <1>3, <1>5, <2>1 DEF RecordInv, RecordOf, Exempt
  <2>2. RecordOf(d) /\ (left = Nothing => left.record = None /\ ~left.shipped)
    BY <1>1 DEF RecordInv, Nothing
  <2>3. ASSUME NEW e \in Dirs, e = d PROVE RecordOf(e)'
    <3>1. place'[e] = left
      BY <1>5, <2>3
    <3>2. left.record = Legacy => Exempt(d) \/ <<"remove", d>> \in cuts'
      BY <1>3, <2>2, NamesAssumption DEF RecordOf, Projects
    <3> QED
      BY <1>3, <2>2, <2>3, <3>1, <3>2 DEF RecordOf, Exempt
  <2> QED
    BY <2>1, <2>3 DEF RecordInv
<1>8. ContainerInv'
  <2>1. ASSUME NEW s \in Services, containers[s] # None, containers[s].dir # d
        PROVE  ContainerOf(s)'
    <3>1. containers[s].dir \in Dirs
      BY <2>1 DEF TypeOK
    <3> QED
      BY <1>2, <1>3, <1>5, <2>1, <3>1 DEF ContainerInv, ContainerOf, ProjectOf
  <2>2. ASSUME NEW s \in Services, containers[s] # None, containers[s].dir = d
        PROVE  ContainerOf(s)'
    <3>1. <<"install", d>> \in cuts
      BY <1>1, <2>2 DEF PhaseOf
    <3> QED
      BY <1>2, <1>3, <2>2, <3>1 DEF ContainerInv, ContainerOf
  <2> QED
    BY <1>2, <2>1, <2>2 DEF ContainerInv, ContainerOf
<1>9. PhaseInv'
  <2>1. \A o \in Commands \ {c} : PhaseOf(o)'
    BY <1>1, <1>2, <1>3, <1>4, <1>5, GotoEffect, OthersPhases
  <2>2. PhaseOf(c)'
    BY <1>1, <1>4, GotoEffect DEF PhaseOf, AfterFailures
  <2> QED
    BY <2>1, <2>2 DEF PhaseInv
<1> QED
  BY <1>6, <1>7, <1>8, <1>9

-----------------------------------------------------------------------------
LEMMA InitIInv == Init => IInv
<1> SUFFICES ASSUME Init PROVE IInv
  OBVIOUS
<1> USE DEF Init
<1>1. /\ Nothing \in Places /\ Nothing.record = None /\ ~Nothing.shipped
      /\ [Nothing EXCEPT !.shipped = TRUE, !.state = TRUE] \in Places
      /\ [Nothing EXCEPT !.shipped = TRUE, !.state = TRUE].record = None
      /\ [Nothing EXCEPT !.shipped = TRUE, !.state = TRUE].shipped
  BY DEF Nothing, Places
<1>2. /\ \A s \in Services : containers[s] # None =>
           containers[s] = [project |-> Legacy, dir |-> Live] /\ place[Live].shipped
      /\ \A d \in Dirs : place[d].record = None /\ (place[d].shipped => d = Live)
      /\ place \in [Dirs -> Places]
  BY <1>1, LiveAssumption
<1>3. TypeOK
  BY <1>2, LiveAssumption DEF TypeOK, Phases, Ended, NoCommand, Kinds, Projects
<1>4. AloneInv
  BY DEF AloneInv, Active, Ended
<1>5. RecordInv
  BY <1>2, NamesAssumption DEF RecordInv, RecordOf, Exempt, Projects
<1>6. ContainerInv
  BY <1>2, LiveAssumption DEF ContainerInv, ContainerOf, ProjectOf
<1>7. PhaseInv
  BY DEF PhaseInv, PhaseOf
<1> QED
  BY <1>3, <1>4, <1>5, <1>6, <1>7 DEF IInv

LEMMA StepIInv == IInv /\ [Next]_vars => IInv'
<1> SUFFICES ASSUME IInv, [Next]_vars PROVE IInv'
  OBVIOUS
<1>1. ASSUME Attach \/ (\E S \in SUBSET Services : Redefine(S)) \/ UNCHANGED vars
      PROVE  IInv'
  <2>1. UNCHANGED <<place, containers, pc, cmd, cuts>> /\ domain' \in Domains /\ defined' \in SUBSET Services
    BY <1>1 DEF Attach, Redefine, vars, IInv, TypeOK, Domains
  <2> QED
    BY <2>1 DEF IInv, TypeOK, AloneInv, Active, RecordInv, RecordOf, Exempt, ContainerInv,
                ContainerOf, ProjectOf, PhaseInv, PhaseOf
<1> QED
  BY <1>1, StartStep, QuietSteps, PinStep, InstallStep, ComposeUpStep, ComposeDownStep,
     RemoveDirStep DEF Next, Step

LEMMA IInvCorrect == Spec => []IInv
BY InitIInv, StepIInv, PTL DEF Spec

(* Every variable keeps its type, whatever fails, dies or is cut. *)
THEOREM TypeCorrect == Spec => []TypeOK
BY IInvCorrect, PTL DEF IInv

(* PinProjectName and ComposeCommand agree: no container is ever in a      *)
(* project that the commands of its own deployment do not resolve to.      *)
THEOREM ContainersAddressable == Spec => []Addressable
<1>1. IInv => Addressable
  BY DEF IInv, ContainerInv, ContainerOf, Addressable
<1> QED
  BY <1>1, IInvCorrect, PTL

(* No deployment's command touches another deployment's containers, for    *)
(* any number of deployments on the host.                                  *)
THEOREM DeploymentsStayApart == Spec => DeploymentsApart
<1>1. ASSUME IInv, [Next]_vars, NEW s \in Services, containers[s] # None,
             containers'[s] # containers[s]
      PROVE  \/ \E c \in Commands : Active(c) /\ cmd[c].dir = containers[s].dir
             \/ containers[s].project = Legacy /\ \E d \in Dirs : <<"remove", d>> \in cuts
  <2> USE DEF IInv
  <2>1. PICK c \in Commands : ComposeUp(c) \/ ComposeDown(c)
    BY <1>1 DEF Next, Step, Start, Fail, Kill, ResolveSnapshot, PlaceState, Configure, Pin,
                Install, Wait, Smoke, RemoveDir, Attach, Redefine, vars
  <2> DEFINE d == cmd[c].dir
             e == containers[s].dir
  <2>2. Active(c) /\ d \in Dirs /\ e \in Dirs
    BY <1>1, <2>1 DEF ComposeUp, ComposeDown, Active, Ended, TypeOK
  <2>3. /\ containers[s].project = ProjectOf(d)
        /\ place[d].record # None \/ place[d].shipped
    BY <1>1, <2>1 DEF ComposeUp, ComposeDown, InProject, PhaseInv, PhaseOf
  <2>4. CASE d = e
    BY <2>2, <2>4
  <2>5. CASE d # e
    <3>1. ProjectOf(d) \in {Legacy} \union NameOf(d) /\ containers[s].project \in {Legacy} \union NameOf(e)
      BY <1>1, <2>2 DEF ProjectOf, RecordInv, RecordOf, ContainerInv, ContainerOf
    <3>2. ProjectOf(d) = Legacy /\ containers[s].project = Legacy
      BY <2>3, <2>5, <3>1 DEF NameOf
    <3>3. Exempt(d)
      BY <1>1, <2>2, <2>3, <3>2 DEF ProjectOf, RecordInv, RecordOf
    <3>4. e = Live \/ \E r \in Dirs : <<"remove", r>> \in cuts
      BY <1>1, <3>2 DEF ContainerInv, ContainerOf
    <3> QED
      BY <2>2, <2>5, <3>2, <3>3, <3>4 DEF Exempt
  <2> QED
    BY <2>4, <2>5
<1>2. IInv /\ [Next]_vars =>
        [\A s \in Services :
           containers[s] # None /\ containers'[s] # containers[s] =>
             \/ \E c \in Commands : Active(c) /\ cmd[c].dir = containers[s].dir
             \/ containers[s].project = Legacy /\ \E d \in Dirs : <<"remove", d>> \in cuts]_vars
  BY <1>1
<1> QED
  BY <1>2, IInvCorrect, PTL DEF Spec, DeploymentsApart

(* A drill that reports its target clean has left nothing there.           *)
THEOREM CleanTargetIsEmpty == Spec => CleanMeansGone
<1>1. ASSUME IInv, [Next]_vars, NEW c \in Commands, pc'[c] = "clean", pc[c] # "clean"
      PROVE  \/ /\ place'[cmd[c].dir] = Nothing
                /\ \A s \in Services : containers'[s] # None => containers'[s].dir # cmd[c].dir
             \/ <<"install", cmd[c].dir>> \in cuts
  <2> USE DEF IInv
  <2>1. pc \in [Commands -> Phases]
    BY <1>1 DEF TypeOK, IInv
  <2>2. ASSUME NEW o \in Commands, NEW phase, phase # "clean", Goto(o, phase)
        PROVE  FALSE
    BY <1>1, <2>1, <2>2 DEF Goto
  <2>3. ASSUME NEW o \in Commands, NEW phase \in Phases, phase # "clean", Done(o, phase)
        PROVE  FALSE
    BY <2>2, <2>3, DoneEffect DEF AfterFailures
  <2>4. ASSUME NEW o \in Commands
        PROVE  AfterFailure(o) # "clean"
    BY FailurePhases DEF AfterFailures
  <2>5. PICK o \in Commands : RemoveDir(o)
    <3>1. ASSUME NEW o \in Commands, NEW kind \in Kinds, NEW d \in Dirs, Start(o, kind, d)
          PROVE  FALSE
      BY <1>1, <2>1, <3>1 DEF Start, Kinds
    <3>2. ASSUME NEW o \in Commands,
                 \/ Fail(o) \/ Kill(o) \/ ResolveSnapshot(o) \/ PlaceState(o) \/ Configure(o)
                 \/ Pin(o) \/ Install(o) \/ Wait(o) \/ Smoke(o)
          PROVE  FALSE
      BY <2>2, <2>3, <2>4, <3>2 DEF Fail, Kill, ResolveSnapshot, PlaceState, Configure, Pin,
                Install, Wait, Smoke, Phases, Deploying
    <3>3. ASSUME NEW o \in Commands, ComposeUp(o)
          PROVE  FALSE
      BY <2>2, <2>3, <2>4, <3>3 DEF ComposeUp, Phases, Deploying
    <3>4. ASSUME NEW o \in Commands, ComposeDown(o)
          PROVE  FALSE
      BY <2>2, <2>3, <3>4 DEF ComposeDown, Phases
    <3>5. ASSUME Attach \/ (\E S \in SUBSET Services : Redefine(S)) \/ UNCHANGED vars
          PROVE  FALSE
      BY <1>1, <3>5 DEF Attach, Redefine, vars
    <3> QED
      BY <1>1, <3>1, <3>2, <3>3, <3>4, <3>5 DEF Next, Step
  <2>6. o = c /\ Done(o, "clean") /\ place' = [place EXCEPT ![cmd[o].dir] = Nothing]
    <3>1. pc'[c] = "clean" /\ Goto(o, "clean") => o = c
      BY <1>1, <2>1 DEF Goto
    <3>2. ~Goto(o, "dirty") /\ ~Goto(o, AfterFailure(o))
      BY <2>2, <2>4
    <3> QED
      BY <1>1, <2>5, <3>1, <3>2 DEF RemoveDir, Removed, Done
  <2>7. place'[cmd[c].dir] = Nothing /\ UNCHANGED containers /\ pc[c] = "remove"
    BY <1>1, <2>5, <2>6 DEF RemoveDir, TypeOK
  <2> QED
    BY <1>1, <2>7 DEF PhaseInv, PhaseOf
<1>2. IInv /\ [Next]_vars =>
        [\A c \in Commands : pc'[c] = "clean" /\ pc[c] # "clean" =>
           \/ place'[cmd[c].dir] = Nothing
                /\ \A s \in Services : containers'[s] # None => containers'[s].dir # cmd[c].dir
           \/ <<"install", cmd[c].dir>> \in cuts]_vars
  BY <1>1
<1> QED
  BY <1>2, IInvCorrect, PTL DEF Spec, CleanMeansGone

-----------------------------------------------------------------------------
(* EventStream *)

(* The jobs of the operations under way, one per level. *)
Stack == 1..level

JobOf(s) == IF s \in Readers THEN 1 ELSE s

(* Who emits on a job: the operation on its own, a relay on its caller's.  *)
EmitterOf(l) == IF l = level THEN Main ELSE l + 1

(* It subscribed, and has neither left nor been abandoned. *)
Attached(s) == reader[s] \in {"reading", "relaying", "told"} /\ JobOf(s) \in Stack

Audience(l) == {s \in Subs : Attached(s) /\ JobOf(s) = l}

(* Everyone an emission on a job can still be on its way to. *)
Reachable(l) == {s \in Subs : JobOf(s) = l /\ reader[s] # "away"}

PendingFor(s) ==
  LET m == emit[EmitterOf(JobOf(s))] IN IF s \in m.left THEN <<m.ev>> ELSE <<>>

(* The steps a job has shown, and those of them its relay emitted again.   *)
Steps(l) == IF terminal[l] THEN Len(events[l]) - 1 ELSE Len(events[l])

Relayed(s) ==
  IF reader[s] = "relaying" \/ (terminal[s] /\ got[s] = events[s])
  THEN Len(got[s]) - 1 ELSE Len(got[s])

-----------------------------------------------------------------------------
(* Only the innermost job may have ended, and its operation knows.         *)
JobInv ==
  /\ \A l \in Stack : terminal[l] = (l = level /\ at # "running")
  /\ at = "returned" => level = 1
  /\ ~panicked

(* A job that goes on hands its events to everyone who is attached.        *)
AudienceInv ==
  \A l \in Stack : subs[l] = IF terminal[l] THEN {} ELSE Audience(l)

(* One emission at a time on a job, and only to those it was shown to.     *)
EmissionOf(l) ==
  LET m == emit[EmitterOf(l)] IN
  /\ m.left \union m.closing \subseteq Reachable(l)
  /\ m.left \intersect m.closing = {}
  /\ m.left # {} => terminal[l] = (m.ev = End)
  /\ m.closing # {} => terminal[l]

EmissionInv ==
  /\ \A l \in Stack : EmissionOf(l)
  /\ \A e \in Relays \ Stack : Idle(e)

(* A relay lives as long as the operation below it, and has nothing of its *)
(* own on the way while it holds an event or once it is told the end.      *)
RelayOf(s) ==
  /\ s \in Stack => reader[s] \in {"reading", "relaying", "told"}
  /\ s \notin Stack => reader[s] \in {"away", "told"} /\ ~forwarding[s] /\ held[s] = <<>>
  /\ reader[s] \in {"relaying", "told"} => Idle(s)
  /\ reader[s] = "relaying" => got[s] # <<>> /\ ~(terminal[s] /\ got[s] = events[s])

RelayInv == \A s \in Relays : RelayOf(s)

ReaderInv ==
  \A r \in Readers : reader[r] # "relaying" /\ (reader[r] = "away" => got[r] = <<>>)

(* Nothing is lost or repeated: what a subscriber got, what is in flight   *)
(* to it and what is still to be pushed make up the job's log.             *)
DeliveryOf(s) ==
  /\ got[s] \o held[s] \o queue[s] \o PendingFor(s) = events[JobOf(s)]
  /\ closed[s] => terminal[JobOf(s)] /\ PendingFor(s) = <<>>
  /\ ~forwarding[s] => closed[s] /\ held[s] = <<>> /\ queue[s] = <<>>
  /\ reader[s] = "told" => ~forwarding[s]
  /\ held[s] = <<>> \/ (\E ev \in Stamps : held[s] = <<ev>>)
  /\ ~done[s]

DeliveryInv == \A s \in Subs : Attached(s) => DeliveryOf(s)

(* base[l] is the last step taken before job l began.  Job l shows the     *)
(* steps after it, one by one, and the End when it is over; a job lags     *)
(* behind the one it called by what their relay still has to emit.         *)
NumberedAt(base, l) ==
  /\ \A i \in 1..Steps(l) : events[l][i] = base[l] + i
  /\ terminal[l] => events[l] # <<>> /\ events[l][Len(events[l])] = End
  /\ base[l] + Steps(l) = IF l = level THEN stamp ELSE base[l + 1] + Relayed(l + 1)

NumberInv ==
  \E base \in [Levels -> Nat] : base[1] = 0 /\ \A l \in Stack : NumberedAt(base, l)

StreamIInv ==
  /\ StreamTypeOK /\ JobInv /\ AudienceInv /\ EmissionInv
  /\ RelayInv /\ ReaderInv /\ DeliveryInv /\ NumberInv

-----------------------------------------------------------------------------
(* An empty piece may be left out of a log put together from four.          *)
LEMMA EmptyFlight ==
  ASSUME NEW a \in Seq(Stamps), NEW b \in Seq(Stamps), NEW c \in Seq(Stamps)
  PROVE  /\ a \o <<>> \o b \o c = a \o b \o c
         /\ a \o b \o <<>> \o c = a \o b \o c
         /\ a \o b \o c \o <<>> = a \o b \o c
<1>1. a \o b \in Seq(Stamps) /\ a \o b \o c \in Seq(Stamps)
  BY ConcatProperties
<1> QED
  BY <1>1, ConcatEmptySeq

(* Where the brackets are does not matter.                                  *)
LEMMA Regrouped ==
  ASSUME NEW a \in Seq(Stamps), NEW b \in Seq(Stamps), NEW c \in Seq(Stamps)
  PROVE  a \o b \o c = a \o (b \o c)
BY ConcatAssociative

(* An event pushed, or taken, is the last, or the first, of what it joins.  *)
LEMMA PushedOn ==
  ASSUME NEW a \in Seq(Stamps), NEW b \in Seq(Stamps), NEW ev \in Stamps
  PROVE  /\ a \o Append(b, ev) = a \o b \o <<ev>>
         /\ Append(a, ev) = a \o <<ev>>
<1>1. <<ev>> \in Seq(Stamps)
  OBVIOUS
<1> QED
  BY <1>1, AppendIsConcat, ConcatAssociative

(* Taking the head off the queue loses nothing.                             *)
LEMMA TakenOff ==
  ASSUME NEW a \in Seq(Stamps), NEW b \in Seq(Stamps), b # <<>>
  PROVE  a \o <<Head(b)>> \o Tail(b) = a \o b
<1>1. Head(b) \in Stamps /\ Tail(b) \in Seq(Stamps) /\ <<Head(b)>> \in Seq(Stamps)
  BY HeadTailProperties
<1>2. <<Head(b)>> \o Tail(b) = b
  <2>1. <<Head(b)>> \o Tail(b) \in Seq(Stamps) /\ Len(<<Head(b)>> \o Tail(b)) = Len(b)
    BY <1>1, ConcatProperties, HeadTailProperties
  <2>2. Len(<<Head(b)>>) = 1 /\ <<Head(b)>>[1] = b[1] /\ Len(b) \in Nat
    BY HeadTailProperties, LenProperties
  <2>3. \A i \in 1..Len(b) : (<<Head(b)>> \o Tail(b))[i] = b[i]
    <3>1. TAKE i \in 1..Len(b)
    <3>2. CASE i = 1
      BY <3>2, <2>2, <1>1, ConcatProperties, HeadTailProperties
    <3>3. CASE i # 1
      <4>1. i - 1 \in 1..Len(Tail(b)) /\ i <= 1 + Len(Tail(b)) /\ ~(i <= 1)
        BY <3>3, <2>2, HeadTailProperties
      <4>2. (<<Head(b)>> \o Tail(b))[i] = Tail(b)[i - 1]
        BY <4>1, <2>2, <1>1, ConcatProperties
      <4> QED
        BY <4>1, <4>2, HeadTailProperties
    <3> QED
      BY <3>2, <3>3
  <2> QED
    BY <2>1, <2>3, SeqEqual
<1> QED
  BY <1>1, <1>2, ConcatAssociative

(* One event more: lengths as bounds, which suit the provers best.         *)
LEMMA OneMore ==
  ASSUME NEW a \in Seq(Stamps), NEW ev \in Stamps
  PROVE  /\ a \o <<ev>> \in Seq(Stamps) /\ a \o <<ev>> # <<>>
         /\ Len(a \o <<ev>>) - 1 = Len(a) /\ (a \o <<ev>>)[Len(a \o <<ev>>)] = ev
<1>1. /\ <<ev>> \in Seq(Stamps) /\ a \o <<ev>> \in Seq(Stamps) /\ Len(<<ev>>) = 1
      /\ Len(a \o <<ev>>) = Len(a) + 1 /\ (a \o <<ev>>)[Len(a) + 1] = ev /\ Len(a) \in Nat
  BY ConcatProperties, LenProperties
<1>2. Len(a \o <<ev>>) - 1 = Len(a) /\ a \o <<ev>> # <<>>
  BY <1>1
<1> QED
  BY <1>1, <1>2

(* The event after what was got, and whether it is the last one.            *)
LEMMA FirstOfRest ==
  ASSUME NEW a \in Seq(Stamps), NEW ev \in Stamps, NEW b \in Seq(Stamps)
  PROVE  /\ (a \o <<ev>> \o b)[Len(a) + 1] = ev
         /\ Len(a) + 1 <= Len(a \o <<ev>> \o b)
         /\ b # <<>> => Len(a) + 1 <= Len(a \o <<ev>> \o b) - 1
         /\ b = <<>> => a \o <<ev>> \o b = a \o <<ev>>
<1>1. /\ <<ev>> \in Seq(Stamps) /\ a \o <<ev>> \in Seq(Stamps) /\ Len(<<ev>>) = 1
      /\ Len(a \o <<ev>>) = Len(a) + 1 /\ (a \o <<ev>>)[Len(a) + 1] = ev
  BY ConcatProperties
<1>2. /\ Len(a \o <<ev>> \o b) = Len(a) + 1 + Len(b) /\ Len(a) \in Nat /\ Len(b) \in Nat
      /\ (a \o <<ev>> \o b)[Len(a) + 1] = ev
  BY <1>1, ConcatProperties, LenProperties
<1>3. b # <<>> => Len(b) >= 1
  BY <1>2
<1>4. b = <<>> => a \o <<ev>> \o b = a \o <<ev>>
  BY <1>1, ConcatEmptySeq
<1>5. Len(a) + 1 <= Len(a \o <<ev>> \o b) /\ (b # <<>> => Len(a) + 1 <= Len(a \o <<ev>> \o b) - 1)
  BY <1>2, <1>3
<1> QED
  BY <1>2, <1>4, <1>5

-----------------------------------------------------------------------------
(* Where a subscription and an emission belong. *)
LEMMA Whereabouts ==
  ASSUME StreamTypeOK
  PROVE  /\ Stack \subseteq Levels /\ 1 \in Stack /\ level \in Stack
         /\ \A l \in Stack : EmitterOf(l) \in Emitters
         /\ \A l, k \in Stack : EmitterOf(l) = EmitterOf(k) => l = k
         /\ \A l \in Stack \ {level} : l + 1 \in Stack /\ l + 1 \in Relays /\ EmitterOf(l) = l + 1
         /\ \A s \in Relays : JobOf(s) = s /\ s \in Levels /\ s - 1 \in Levels
         /\ \A r \in Readers : JobOf(r) = 1 /\ r \in Subs
         /\ \A s \in Subs : JobOf(s) \in Levels
         /\ \A s \in Subs : JobOf(s) = 1 <=> s \in Readers
         /\ 0 \in Stamps /\ End \in Stamps /\ Relays \subseteq Emitters /\ Main \in Emitters
         /\ Main \notin Relays
<1>1. level \in Nat /\ level >= 1 /\ level <= Depth /\ Depth \in Nat
  BY BoundsAssumption DEF StreamTypeOK, Levels
<1>2. Stack \subseteq Levels /\ 1 \in Stack /\ level \in Stack
  BY <1>1 DEF Stack, Levels
<1>3. /\ \A l \in Stack : EmitterOf(l) \in Emitters
      /\ \A l, k \in Stack : EmitterOf(l) = EmitterOf(k) => l = k
      /\ \A l \in Stack \ {level} : l + 1 \in Stack /\ l + 1 \in Relays /\ EmitterOf(l) = l + 1
  BY <1>1 DEF Stack, EmitterOf, Main, Emitters, Relays
<1>4. /\ \A s \in Relays : JobOf(s) = s /\ s \in Levels /\ s - 1 \in Levels
      /\ \A r \in Readers : JobOf(r) = 1 /\ r \in Subs
      /\ \A s \in Subs : JobOf(s) \in Levels
      /\ \A s \in Subs : JobOf(s) = 1 <=> s \in Readers
  BY <1>1, ReadersAssumption DEF JobOf, Subs, Relays, Levels
<1>5. /\ 0 \in Stamps /\ End \in Stamps /\ Relays \subseteq Emitters /\ Main \in Emitters
      /\ Main \notin Relays
  BY <1>1, BoundsAssumption DEF Stamps, End, Relays, Emitters, Main
<1> QED
  BY <1>2, <1>3, <1>4, <1>5

(* Whoever an event is on the way to subscribed to its emitter's job.       *)
LEMMA WhoEmits ==
  ASSUME StreamTypeOK, EmissionInv, NEW e \in Emitters,
         NEW s \in emit[e].left \union emit[e].closing
  PROVE  s \in Subs /\ JobOf(s) \in Stack /\ e = EmitterOf(JobOf(s)) /\ s \in Reachable(JobOf(s))
<1>1. e = Main \/ (e \in Relays /\ e \in Stack)
  BY DEF EmissionInv, Idle, Emitters
<1>2. PICK l \in Stack : e = EmitterOf(l)
  <2>1. CASE e = Main
    BY <2>1, Whereabouts DEF EmitterOf
  <2>2. CASE e \in Relays /\ e \in Stack
    <3>1. e - 1 \in Stack /\ e - 1 # level /\ e = (e - 1) + 1
      BY <2>2, BoundsAssumption DEF Relays, Stack, StreamTypeOK, Levels
    <3> QED
      BY <3>1 DEF EmitterOf
  <2> QED
    BY <1>1, <2>1, <2>2
<1>3. s \in Reachable(l)
  BY <1>2 DEF EmissionInv, EmissionOf
<1> QED
  BY <1>2, <1>3 DEF Reachable

(* What is on the way to a subscriber is at most one event.                 *)
LEMMA PendingType ==
  ASSUME StreamTypeOK, NEW s \in Subs, JobOf(s) \in Stack
  PROVE  PendingFor(s) \in Seq(Stamps)
<1>1. EmitterOf(JobOf(s)) \in Emitters
  BY Whereabouts
<1>2. emit[EmitterOf(JobOf(s))].ev \in Stamps
  BY <1>1 DEF StreamTypeOK
<1> QED
  BY <1>2 DEF PendingFor

-----------------------------------------------------------------------------
(* What a step of one subscriber leaves as it was for the others.          *)
Untouched(o) ==
  /\ queue'[o] = queue[o] /\ closed'[o] = closed[o] /\ done'[o] = done[o]
  /\ held'[o] = held[o] /\ forwarding'[o] = forwarding[o]
  /\ reader'[o] = reader[o] /\ got'[o] = got[o]

(* A step of one subscriber leaves what the others are due as it was.       *)
LEMMA OthersDelivered ==
  ASSUME StreamTypeOK, DeliveryInv, NEW s \in Subs, UNCHANGED <<events, terminal, level>>,
         \A o \in Subs \ {s} :
           Untouched(o) /\ (JobOf(o) \in Stack => PendingFor(o)' = PendingFor(o)),
         Attached(s)' => DeliveryOf(s)'
  PROVE  DeliveryInv'
<1> SUFFICES ASSUME NEW o \in Subs, o # s, Attached(o)'
             PROVE  DeliveryOf(o)'
  BY DEF DeliveryInv
<1>1. Attached(o) /\ Untouched(o)
  BY DEF Attached, Untouched, Stack, JobOf
<1>2. DeliveryOf(o) /\ PendingFor(o)' = PendingFor(o)
  BY <1>1 DEF DeliveryInv, Attached
<1> QED
  BY <1>1, <1>2 DEF DeliveryOf, Untouched, JobOf

(* The numbering stands as long as neither a job nor a relay moves.         *)
LEMMA NumbersKept ==
  ASSUME StreamTypeOK, NumberInv, UNCHANGED <<events, terminal, level, stamp>>,
         \A s \in Relays : Relayed(s)' = Relayed(s)
  PROVE  NumberInv'
<1>1. PICK base \in [Levels -> Nat] : base[1] = 0 /\ \A l \in Stack : NumberedAt(base, l)
  BY DEF NumberInv
<1>2. ASSUME NEW l \in Stack PROVE NumberedAt(base, l)'
  <2>1. NumberedAt(base, l)
    BY <1>1
  <2>2. l # level => l + 1 \in Relays
    BY Whereabouts
  <2> QED
    BY <2>1, <2>2 DEF NumberedAt, Steps
<1> QED
  BY <1>1, <1>2 DEF NumberInv, Stack

(* A subscriber that stays attached changes nobody's audience.              *)
LEMMA AudienceKept ==
  ASSUME StreamIInv, NEW s \in Subs, UNCHANGED <<jobs, operation>>,
         \A o \in Subs \ {s} : reader'[o] = reader[o], Attached(s)' = Attached(s)
  PROVE  AudienceInv'
<1>1. \A o \in Subs : Attached(o)' = Attached(o)
  BY DEF Attached, JobOf, Stack, operation
<1> QED
  BY <1>1 DEF StreamIInv, AudienceInv, Audience, Stack, JobOf, jobs, operation

(* A step of one subscription keeps the invariant if it keeps its own part. *)
LEMMA SubscriberStep ==
  ASSUME StreamIInv, StreamTypeOK', AudienceInv', NEW s \in Subs,
         UNCHANGED <<events, terminal, emit, operation, panicked>>,
         \A o \in Subs \ {s} : Untouched(o), reader[s] # "away" => reader'[s] # "away",
         s \in Relays => RelayOf(s)' /\ Relayed(s)' = Relayed(s),
         s \in Readers => reader'[s] # "relaying" /\ (reader'[s] = "away" => got'[s] = <<>>),
         Attached(s)' => DeliveryOf(s)'
  PROVE  StreamIInv'
<1> USE DEF StreamIInv
<1>1. JobInv'
  BY DEF JobInv, Stack, operation
<1>2. \A o \in Subs : reader[o] # "away" => reader'[o] # "away"
  BY DEF Untouched
<1>3. EmissionInv'
  <2>1. ASSUME NEW l \in Stack PROVE EmissionOf(l)'
    <3>1. EmissionOf(l) /\ Reachable(l) \subseteq Reachable(l)'
      BY <1>2 DEF EmissionInv, Reachable, JobOf
    <3> QED
      BY <3>1 DEF EmissionOf, EmitterOf, operation
  <2> QED
    BY <2>1 DEF EmissionInv, Stack, Idle, operation
<1>4. RelayInv'
  <2>1. ASSUME NEW o \in Relays, o # s PROVE RelayOf(o)'
    BY <2>1 DEF RelayInv, RelayOf, Untouched, Stack, Idle, Subs, operation
  <2> QED
    BY <2>1 DEF RelayInv
<1>5. ReaderInv'
  BY DEF ReaderInv, Untouched, Subs
<1>6. DeliveryInv'
  BY OthersDelivered DEF PendingFor, EmitterOf, JobOf, operation
<1>7. NumberInv'
  <2>1. \A o \in Relays : Relayed(o)' = Relayed(o)
    BY DEF Relayed, Untouched, Subs
  <2> QED
    BY <2>1, NumbersKept DEF operation
<1> QED
  BY <1>1, <1>3, <1>4, <1>5, <1>6, <1>7

(* forward: the head of the queue is taken to be sent.                      *)
LEMMA TakeStep ==
  ASSUME StreamIInv, NEW s \in Subs, Take(s)
  PROVE  StreamIInv'
<1> USE DEF StreamIInv
<1>1. /\ <<Head(queue[s])>> \in Seq(Stamps) /\ Tail(queue[s]) \in Seq(Stamps)
      /\ queue[s] \in Seq(Stamps) /\ Head(queue[s]) \in Stamps
  BY HeadTailProperties DEF Take, StreamTypeOK
<1>2. StreamTypeOK'
  BY <1>1 DEF StreamTypeOK, Take, jobs, frontends, operation
<1>3. \A o \in Subs \ {s} : Untouched(o)
  BY DEF Take, Untouched, StreamTypeOK, frontends
<1>4. /\ Attached(s)' = Attached(s) /\ reader'[s] = reader[s] /\ got'[s] = got[s]
      /\ held'[s] = <<Head(queue[s])>> /\ queue'[s] = Tail(queue[s])
      /\ closed'[s] = closed[s] /\ forwarding[s] /\ forwarding'[s] = forwarding[s]
      /\ held[s] = <<>> /\ queue[s] # <<>> /\ done'[s] = done[s]
      /\ PendingFor(s)' = PendingFor(s)
  BY DEF Take, StreamTypeOK, frontends, operation, Attached, JobOf, Stack, PendingFor, EmitterOf
<1>5. s \in Relays => RelayOf(s)' /\ Relayed(s)' = Relayed(s)
  BY <1>4 DEF RelayInv, RelayOf, Relayed, Take, Stack, Idle, jobs, operation
<1>6. ASSUME Attached(s) PROVE DeliveryOf(s)'
  <2>1. DeliveryOf(s) /\ JobOf(s) \in Stack
    BY <1>6 DEF DeliveryInv, Attached
  <2>2. got[s] \in Seq(Stamps) /\ PendingFor(s) \in Seq(Stamps)
    BY <2>1, PendingType DEF StreamTypeOK
  <2>3. got[s] \o <<Head(queue[s])>> \o Tail(queue[s]) = got[s] \o queue[s]
    BY <1>1, <1>4, <2>2, TakenOff
  <2>4. got[s] \o <<>> = got[s]
    BY <2>2, ConcatEmptySeq
  <2>5. got'[s] \o held'[s] \o queue'[s] \o PendingFor(s)' = events[JobOf(s)]
    BY <1>4, <2>1, <2>3, <2>4 DEF DeliveryOf
  <2>6. events' = events /\ terminal' = terminal
    BY DEF Take, jobs
  <2> QED
    BY <1>1, <1>4, <2>1, <2>5, <2>6 DEF DeliveryOf, JobOf
<1>7. UNCHANGED <<jobs, emit, operation, panicked>>
  BY DEF Take
<1>8. AudienceInv'
  BY <1>3, <1>4, <1>7, AudienceKept DEF Untouched
<1> QED
  BY <1>2, <1>3, <1>4, <1>5, <1>6, <1>7, <1>8, SubscriberStep DEF ReaderInv, jobs

(* What forward is sending is the first event its subscriber did not get.  *)
LEMMA NextInLine ==
  ASSUME StreamIInv, NEW s \in Subs, Attached(s), held[s] # <<>>
  PROVE  \E ev \in Stamps, rest \in Seq(Stamps) :
           held[s] = <<ev>> /\ events[JobOf(s)] = got[s] \o <<ev>> \o rest
<1>1. DeliveryOf(s) /\ JobOf(s) \in Stack
  BY DEF StreamIInv, DeliveryInv, Attached
<1>2. PICK ev \in Stamps : held[s] = <<ev>>
  BY <1>1 DEF DeliveryOf
<1>3. /\ held[s] \in Seq(Stamps) /\ got[s] \in Seq(Stamps) /\ queue[s] \in Seq(Stamps)
      /\ got[s] \o held[s] \in Seq(Stamps)
  BY ConcatProperties DEF StreamIInv, StreamTypeOK
<1>4. PendingFor(s) \in Seq(Stamps) /\ queue[s] \o PendingFor(s) \in Seq(Stamps)
  BY <1>1, <1>3, PendingType, ConcatProperties DEF StreamIInv
<1>5. events[JobOf(s)] = (got[s] \o held[s]) \o queue[s] \o PendingFor(s)
  BY <1>1 DEF DeliveryOf
<1>6. @ = (got[s] \o held[s]) \o (queue[s] \o PendingFor(s))
  BY <1>3, <1>4, Regrouped
<1> QED
  BY <1>2, <1>4, <1>5, <1>6

(* A subscriber whose channel is closed got the whole log. *)
LEMMA SeenAll ==
  ASSUME StreamIInv, NEW s \in Subs, Attached(s), ~forwarding[s]
  PROVE  held[s] = <<>> /\ terminal[JobOf(s)] /\ got[s] = events[JobOf(s)]
<1>1. DeliveryOf(s)
  BY DEF StreamIInv, DeliveryInv
<1>2. /\ held[s] = <<>> /\ queue[s] = <<>> /\ terminal[JobOf(s)] /\ PendingFor(s) = <<>>
      /\ got[s] \o <<>> \o <<>> \o <<>> = events[JobOf(s)]
  BY <1>1 DEF DeliveryOf
<1>3. got[s] \in Seq(Stamps) /\ got[s] \o <<>> = got[s]
  BY ConcatEmptySeq DEF StreamIInv, StreamTypeOK
<1> QED
  BY <1>2, <1>3

(* forward: the subscriber receives what was held for it.                   *)
LEMMA DeliverStep ==
  ASSUME StreamIInv, NEW s \in Subs, Deliver(s)
  PROVE  StreamIInv'
<1> USE DEF StreamIInv
<1>1. /\ held[s] \in Seq(Stamps) /\ got[s] \in Seq(Stamps) /\ queue[s] \in Seq(Stamps)
      /\ got[s] \o held[s] \in Seq(Stamps)
  BY ConcatProperties DEF StreamTypeOK
<1>2. StreamTypeOK'
  BY <1>1 DEF StreamTypeOK, Deliver, jobs, operation
<1>3. \A o \in Subs \ {s} : Untouched(o)
  BY DEF Deliver, Untouched, StreamTypeOK
<1>4. /\ reader[s] = "reading" /\ got'[s] = got[s] \o held[s]
      /\ reader'[s] = IF s \in Relays /\ held[s] # <<End>> THEN "relaying" ELSE "reading"
      /\ held'[s] = <<>> /\ queue'[s] = queue[s]
      /\ closed'[s] = closed[s] /\ forwarding[s] /\ forwarding'[s] = forwarding[s]
      /\ held[s] # <<>> /\ done'[s] = done[s]
      /\ (s \in Relays => Idle(s)) /\ PendingFor(s)' = PendingFor(s)
  BY DEF Deliver, StreamTypeOK, operation, PendingFor, EmitterOf, JobOf
<1>5. UNCHANGED <<jobs, emit, operation, panicked>>
  BY DEF Deliver
<1>6. Attached(s) /\ Attached(s)'
  <2>1. JobOf(s) \in Stack
    BY <1>4, Whereabouts DEF RelayInv, RelayOf, Subs
  <2> QED
    BY <1>4, <1>5, <2>1 DEF Attached, JobOf, Stack, operation
<1>7. DeliveryOf(s) /\ JobOf(s) \in Stack
  BY <1>6 DEF DeliveryInv, Attached
<1>8. PICK ev \in Stamps, rest \in Seq(Stamps) :
        held[s] = <<ev>> /\ events[JobOf(s)] = got[s] \o <<ev>> \o rest
  BY <1>4, <1>6, NextInLine
<1>9. DeliveryOf(s)'
  <2>1. got'[s] \o held'[s] \o queue'[s] \o PendingFor(s)' = events[JobOf(s)]
    BY <1>1, <1>4, <1>7, ConcatEmptySeq DEF DeliveryOf
  <2>2. events' = events /\ terminal' = terminal
    BY <1>5 DEF jobs
  <2> QED
    BY <1>4, <1>7, <2>1, <2>2 DEF DeliveryOf, JobOf
<1>10. ASSUME s \in Relays PROVE RelayOf(s)' /\ Relayed(s)' = Relayed(s)
  <2>1. JobOf(s) = s /\ s \in Stack
    BY <1>7, <1>10, Whereabouts
  <2>2. PICK base \in [Levels -> Nat] : NumberedAt(base, s)
    BY <2>1 DEF NumberInv
  <2>3. base[s] \in Nat
    BY <1>10, Whereabouts
  <2>4. events[s] = got[s] \o <<ev>> \o rest
    BY <1>8, <2>1
  <2>5. /\ events[s][Len(got[s]) + 1] = ev /\ Len(got[s]) + 1 <= Len(events[s])
        /\ got'[s] # events[s] => Len(got[s]) + 1 <= Len(events[s]) - 1
        /\ got[s] # events[s] /\ got'[s] # <<>> /\ Len(got'[s]) - 1 = Len(got[s])
        /\ got'[s][Len(got'[s])] = ev
    <3>1. got[s] \in Seq(Stamps) /\ got'[s] = got[s] \o <<ev>>
      BY <1>1, <1>4, <1>8
    <3>2. /\ (got[s] \o <<ev>> \o rest)[Len(got[s]) + 1] = ev
          /\ Len(got[s]) + 1 <= Len(got[s] \o <<ev>> \o rest)
          /\ rest # <<>> => Len(got[s]) + 1 <= Len(got[s] \o <<ev>> \o rest) - 1
          /\ rest = <<>> => got[s] \o <<ev>> \o rest = got[s] \o <<ev>>
      BY <3>1, FirstOfRest, Zenon
    <3>3. /\ got[s] \o <<ev>> # <<>> /\ Len(got[s] \o <<ev>>) - 1 = Len(got[s])
          /\ (got[s] \o <<ev>>)[Len(got[s] \o <<ev>>)] = ev
      BY <3>1, OneMore, Zenon
    <3>4. got[s] # events[s]
      <4>1. Len(got[s]) \in Nat /\ Len(got[s]) + 1 <= Len(events[s])
        BY <1>1, <2>4, <3>2, LenProperties
      <4> QED
        BY <4>1
    <3> QED
      BY <2>4, <3>1, <3>2, <3>3, <3>4, Zenon
  <2>6. ev = End <=> (terminal[s] /\ got'[s] = events[s])
    <3>1. CASE ~terminal[s] \/ got'[s] # events[s]
      <4>1. Len(got[s]) + 1 \in 1..Steps(s)
        BY <1>1, <2>5, <3>1, LenProperties DEF Steps
      <4>2. ev = base[s] + (Len(got[s]) + 1)
        BY <2>2, <2>5, <4>1 DEF NumberedAt
      <4>3. ev # End
        BY <1>1, <2>3, <4>2, LenProperties DEF End
      <4> QED
        BY <3>1, <4>3
    <3>2. CASE terminal[s] /\ got'[s] = events[s]
      BY <2>2, <2>5, <3>2, Zenon DEF NumberedAt
    <3> QED
      BY <3>1, <3>2
  <2>7. reader'[s] = "relaying" <=> ev # End
    BY <1>4, <1>8, <1>10
  <2>8. events' = events /\ terminal' = terminal /\ level' = level /\ emit' = emit
    BY <1>5 DEF jobs, operation
  <2>9. Relayed(s) = Len(got[s])
    BY <1>4, <2>5 DEF Relayed
  <2>10. Relayed(s)' = Len(got'[s]) - 1
    BY <2>6, <2>7, <2>8 DEF Relayed
  <2>11. RelayOf(s)'
    BY <1>4, <1>10, <2>1, <2>5, <2>6, <2>7, <2>8 DEF RelayOf, Stack, Idle
  <2> QED
    BY <2>5, <2>9, <2>10, <2>11
<1>11. s \in Readers => reader'[s] = "reading"
  BY <1>4, ReadersAssumption
<1>12. AudienceInv'
  BY <1>3, <1>5, <1>6, AudienceKept DEF Untouched
<1> QED
  BY <1>2, <1>3, <1>4, <1>5, <1>9, <1>10, <1>11, <1>12, SubscriberStep DEF jobs

(* forward: nothing more will come, or nobody wants it.                     *)
LEMMA ExitStep ==
  ASSUME StreamIInv, NEW s \in Subs, Exit(s)
  PROVE  StreamIInv'
<1> USE DEF StreamIInv
<1>1. StreamTypeOK' /\ UNCHANGED <<jobs, emit, operation, panicked>>
  BY DEF StreamTypeOK, Exit, jobs, frontends, operation
<1>2. \A o \in Subs \ {s} : Untouched(o)
  BY DEF Exit, Untouched, StreamTypeOK, frontends
<1>3. /\ reader'[s] = reader[s] /\ got'[s] = got[s] /\ held'[s] = held[s] /\ queue'[s] = queue[s]
      /\ closed'[s] = closed[s] /\ done'[s] = done[s] /\ ~forwarding'[s]
      /\ done[s] \/ (held[s] = <<>> /\ queue[s] = <<>> /\ closed[s])
  BY DEF Exit, StreamTypeOK, frontends
<1>4. /\ Attached(s)' = Attached(s) /\ PendingFor(s)' = PendingFor(s) /\ JobOf(s)' = JobOf(s)
      /\ events' = events /\ terminal' = terminal /\ level' = level /\ emit' = emit
  BY <1>1, <1>3 DEF Attached, PendingFor, EmitterOf, JobOf, Stack, jobs, operation
<1>5. AudienceInv'
  BY <1>1, <1>2, <1>4, AudienceKept DEF Untouched
<1>6. s \in Relays => RelayOf(s)' /\ Relayed(s)' = Relayed(s)
  BY <1>3, <1>4 DEF RelayInv, RelayOf, Relayed, Stack, Idle
<1>7. Attached(s)' => DeliveryOf(s)'
  BY <1>3, <1>4 DEF DeliveryInv, DeliveryOf
<1> QED
  BY <1>1, <1>2, <1>3, <1>5, <1>6, <1>7, SubscriberStep DEF ReaderInv, jobs

(* The subscriber finds its channel closed.                                 *)
LEMMA SeeEndStep ==
  ASSUME StreamIInv, NEW s \in Subs, SeeEnd(s)
  PROVE  StreamIInv'
<1> USE DEF StreamIInv
<1>1. StreamTypeOK' /\ UNCHANGED <<jobs, emit, operation, panicked>>
  BY DEF StreamTypeOK, SeeEnd, jobs, subscriptions, operation
<1>2. \A o \in Subs \ {s} : Untouched(o)
  BY DEF SeeEnd, Untouched, StreamTypeOK, subscriptions
<1>3. /\ reader[s] = "reading" /\ reader'[s] = "told" /\ got'[s] = got[s]
      /\ held'[s] = held[s] /\ queue'[s] = queue[s] /\ closed'[s] = closed[s]
      /\ done'[s] = done[s] /\ ~forwarding[s] /\ ~forwarding'[s]
      /\ s \in Relays => Idle(s)
  BY DEF SeeEnd, StreamTypeOK, subscriptions
<1>4. /\ Attached(s)' = Attached(s) /\ PendingFor(s)' = PendingFor(s) /\ JobOf(s)' = JobOf(s)
      /\ events' = events /\ terminal' = terminal /\ level' = level /\ emit' = emit
  BY <1>1, <1>3 DEF Attached, PendingFor, EmitterOf, JobOf, Stack, jobs, operation
<1>5. AudienceInv'
  BY <1>1, <1>2, <1>4, AudienceKept DEF Untouched
<1>6. s \in Relays => RelayOf(s)' /\ Relayed(s)' = Relayed(s)
  BY <1>3, <1>4 DEF RelayInv, RelayOf, Relayed, Stack, Idle
<1>7. Attached(s)' => DeliveryOf(s)'
  BY <1>3, <1>4 DEF DeliveryInv, DeliveryOf
<1> QED
  BY <1>1, <1>2, <1>3, <1>5, <1>6, <1>7, SubscriberStep DEF jobs

(* cancel: the second half, after a client left the audience.               *)
LEMMA LeaveStep ==
  ASSUME StreamIInv, NEW r \in Readers, Leave(r)
  PROVE  StreamIInv'
<1> USE DEF StreamIInv
<1>1. r \in Subs /\ r \notin Relays
  BY ReadersAssumption DEF Subs
<1>2. StreamTypeOK' /\ UNCHANGED <<jobs, emit, operation, panicked>>
  BY <1>1 DEF StreamTypeOK, Leave, Abandon, jobs, operation
<1>3. \A o \in Subs \ {r} : Untouched(o)
  BY DEF Leave, Abandon, Untouched, StreamTypeOK
<1>4. reader'[r] = "left" /\ ~Attached(r)' /\ Attached(r)' = Attached(r)
  BY <1>1 DEF Leave, StreamTypeOK, Attached
<1>5. AudienceInv'
  BY <1>1, <1>2, <1>3, <1>4, AudienceKept DEF Untouched
<1> QED
  BY <1>1, <1>2, <1>3, <1>4, <1>5, SubscriberStep DEF jobs

(* cancel: a client leaves the audience.                                    *)
LEMMA CancelStep ==
  ASSUME StreamIInv, NEW r \in Readers, Cancel(r)
  PROVE  StreamIInv'
<1> USE DEF StreamIInv
<1>1. r \in Subs /\ r \notin Relays /\ JobOf(r) = 1 /\ 1 \in Levels
  BY ReadersAssumption, Whereabouts DEF Subs
<1>2. StreamTypeOK' /\ UNCHANGED <<events, terminal, emit, operation, panicked>>
  BY <1>1 DEF StreamTypeOK, Cancel, subscriptions, operation
<1>3. \A o \in Subs \ {r} : Untouched(o)
  BY DEF Cancel, Untouched, StreamTypeOK, subscriptions
<1>4. reader[r] = "reading" /\ reader'[r] = "leaving" /\ ~Attached(r)'
  BY <1>1 DEF Cancel, StreamTypeOK, Attached
<1>5. AudienceInv'
  <2>1. \A o \in Subs \ {r} : Attached(o)' = Attached(o)
    BY <1>2, <1>3 DEF Attached, Untouched, JobOf, Stack, operation
  <2>2. ASSUME NEW l \in Stack PROVE Audience(l)' = Audience(l) \ {r}
    BY <1>4, <2>1 DEF Audience, JobOf
  <2>3. ASSUME NEW l \in Stack, l # 1 PROVE subs'[l] = subs[l] /\ r \notin Audience(l)
    BY <1>1, <2>3 DEF Cancel, StreamTypeOK, Audience
  <2>4. subs'[1] = subs[1] \ {r}
    BY <1>1 DEF Cancel, StreamTypeOK
  <2>5. terminal' = terminal /\ Stack' = Stack
    BY <1>2 DEF Stack, operation
  <2>6. ASSUME NEW l \in Stack
        PROVE  subs'[l] = IF terminal[l] THEN {} ELSE Audience(l)'
    <3>1. subs[l] = IF terminal[l] THEN {} ELSE Audience(l)
      BY DEF AudienceInv
    <3>2. subs'[l] = subs[l] \ {r}
      BY <2>3, <2>4, <3>1
    <3> QED
      BY <2>2, <3>1, <3>2
  <2> QED
    BY <2>5, <2>6 DEF AudienceInv
<1> QED
  BY <1>1, <1>2, <1>3, <1>4, <1>5, SubscriberStep

(* Subscribe: a client's backlog is the whole log so far.                   *)
LEMMA AttachClientStep ==
  ASSUME StreamIInv, NEW r \in Readers, AttachClient(r)
  PROVE  StreamIInv'
<1> USE DEF StreamIInv
<1>1. r \in Subs /\ r \notin Relays /\ JobOf(r) = 1 /\ 1 \in Levels /\ 1 \in Stack
  BY ReadersAssumption, Whereabouts DEF Subs
<1>2. UNCHANGED <<events, terminal, emit, operation, panicked>> /\ <<>> \in Seq(Stamps)
      /\ events[1] \in Seq(Stamps) /\ terminal[1] \in BOOLEAN
  BY <1>1 DEF StreamTypeOK, AttachClient
<1>3. StreamTypeOK'
  BY <1>1, <1>2 DEF StreamTypeOK, AttachClient, Subscribe, operation
<1>4. \A o \in Subs \ {r} : Untouched(o)
  BY DEF AttachClient, Subscribe, Untouched, StreamTypeOK
<1>5. /\ reader[r] = "away" /\ reader'[r] = "reading" /\ got'[r] = <<>> /\ held'[r] = <<>>
      /\ queue'[r] = events[1] /\ closed'[r] = terminal[1] /\ ~done'[r] /\ forwarding'[r]
  BY <1>1 DEF AttachClient, Subscribe, StreamTypeOK
<1>6. Attached(r)' /\ ~Attached(r)
  BY <1>1, <1>2, <1>5 DEF Attached, JobOf, Stack, operation
<1>7. PendingFor(r)' = <<>>
  <2>1. EmitterOf(1) \in Emitters
    BY <1>1, Whereabouts
  <2>2. r \notin emit[EmitterOf(1)].left
    BY <1>5, <2>1, WhoEmits DEF Reachable
  <2> QED
    BY <1>1, <1>2, <2>2 DEF PendingFor, EmitterOf, JobOf, operation
<1>8. DeliveryOf(r)'
  <2>1. <<>> \o <<>> \o events[1] \o <<>> = events[1]
    BY <1>2, ConcatEmptySeq
  <2> QED
    BY <1>1, <1>2, <1>5, <1>7, <2>1 DEF DeliveryOf, JobOf
<1>9. AudienceInv'
  <2>1. \A o \in Subs \ {r} : Attached(o)' = Attached(o)
    BY <1>2, <1>4 DEF Attached, Untouched, JobOf, Stack, operation
  <2>2. ASSUME NEW l \in Stack PROVE Audience(l)' = IF l = 1 THEN Audience(l) \union {r} ELSE Audience(l)
    BY <1>1, <1>6, <2>1 DEF Audience, JobOf
  <2>3. /\ subs'[1] = IF terminal[1] THEN subs[1] ELSE subs[1] \union {r}
        /\ \A l \in Levels \ {1} : subs'[l] = subs[l]
    BY <1>1 DEF AttachClient, Subscribe, StreamTypeOK
  <2>4. terminal' = terminal /\ Stack' = Stack /\ Stack \subseteq Levels
    BY <1>2, Whereabouts DEF Stack, operation
  <2>5. ASSUME NEW l \in Stack
        PROVE  subs'[l] = IF terminal[l] THEN {} ELSE Audience(l)'
    <3>1. subs[l] = IF terminal[l] THEN {} ELSE Audience(l)
      BY DEF AudienceInv
    <3> QED
      BY <2>2, <2>3, <2>4, <3>1
  <2> QED
    BY <2>4, <2>5 DEF AudienceInv
<1> QED
  BY <1>1, <1>2, <1>3, <1>4, <1>5, <1>8, <1>9, SubscriberStep

-----------------------------------------------------------------------------
(* Emit: one subscriber is handed the event, outside the lock.              *)
LEMMA PushStep ==
  ASSUME StreamIInv, NEW e \in Emitters, NEW s \in Subs, Push(e, s)
  PROVE  StreamIInv'
<1> USE DEF StreamIInv
<1> DEFINE m == emit[e]
<1>1. /\ m.ev \in Stamps /\ m.left \in SUBSET Subs /\ m.closing = {} /\ s \in m.left
      /\ UNCHANGED <<jobs, closed, done, held, forwarding, frontends, operation, panicked>>
  BY DEF Push, StreamTypeOK
<1>2. /\ emit' \in [Emitters -> [ev : Stamps, left : SUBSET Subs, closing : SUBSET Subs]]
      /\ emit'[e].ev = m.ev /\ emit'[e].left = m.left \ {s}
      /\ emit'[e].closing = IF m.ev = End THEN {s} ELSE {}
      /\ \A o \in Emitters \ {e} : emit'[o] = emit[o]
  <2>1. emit' = [emit EXCEPT ![e].left = @ \ {s},
                             ![e].closing = IF emit[e].ev = End THEN {s} ELSE {}]
    BY DEF Push
  <2>2. emit[e] \in [ev : Stamps, left : SUBSET Subs, closing : SUBSET Subs]
    BY DEF StreamTypeOK
  <2>3. /\ emit'[e] = [m EXCEPT !.left = @ \ {s}, !.closing = IF m.ev = End THEN {s} ELSE {}]
        /\ \A o \in Emitters \ {e} : emit'[o] = emit[o]
    BY <2>1 DEF StreamTypeOK
  <2>4. /\ emit'[e] \in [ev : Stamps, left : SUBSET Subs, closing : SUBSET Subs]
        /\ emit'[e].ev = m.ev /\ emit'[e].left = m.left \ {s}
        /\ emit'[e].closing = IF m.ev = End THEN {s} ELSE {}
    <3>1. PICK closing \in SUBSET Subs : closing = IF m.ev = End THEN {s} ELSE {}
      OBVIOUS
    <3>2. emit'[e] = [m EXCEPT !.left = @ \ {s}, !.closing = closing]
      BY <2>3, <3>1
    <3>3. m.left \ {s} \in SUBSET Subs
      BY <1>1
    <3> QED
      BY <2>2, <3>1, <3>2, <3>3
  <2>5. emit' \in [Emitters -> [ev : Stamps, left : SUBSET Subs, closing : SUBSET Subs]]
    BY <2>1, <2>3, <2>4 DEF StreamTypeOK
  <2> QED
    BY <2>3, <2>4, <2>5
<1>3. /\ queue' \in [Subs -> Seq(Stamps)] /\ queue'[s] = Append(queue[s], m.ev)
      /\ \A o \in Subs \ {s} : queue'[o] = queue[o]
  <2>1. Append(queue[s], m.ev) \in Seq(Stamps)
    BY <1>1, AppendProperties DEF StreamTypeOK
  <2> QED
    BY <2>1 DEF Push, StreamTypeOK
<1>4. /\ events' = events /\ terminal' = terminal /\ subs' = subs /\ closed' = closed
      /\ done' = done /\ held' = held /\ forwarding' = forwarding /\ reader' = reader /\ got' = got
      /\ level' = level /\ at' = at /\ stamp' = stamp /\ calls' = calls /\ panicked' = panicked
  BY <1>1 DEF jobs, frontends, operation
<1>5. StreamTypeOK'
  BY <1>2, <1>3, <1>4 DEF StreamTypeOK
<1>6. JobOf(s) \in Stack /\ e = EmitterOf(JobOf(s)) /\ s \in Reachable(JobOf(s))
  BY <1>1, WhoEmits
<1> HIDE DEF m
<1>7. JobInv' /\ ReaderInv'
  BY <1>4 DEF JobInv, Stack, ReaderInv
<1>8. AudienceInv'
  BY <1>4 DEF AudienceInv, Audience, Attached, Stack, JobOf
<1>9. EmissionInv'
  <2>1. ASSUME NEW l \in Stack PROVE EmissionOf(l)'
    <3>1. EmissionOf(l) /\ EmitterOf(l) \in Emitters /\ EmitterOf(l)' = EmitterOf(l)
          /\ Reachable(l)' = Reachable(l)
      BY <1>4, Whereabouts DEF EmissionInv, EmitterOf, Reachable, JobOf
    <3>2. CASE l # JobOf(s)
      <4>1. emit'[EmitterOf(l)] = emit[EmitterOf(l)]
        BY <1>2, <1>6, <3>1, <3>2, Whereabouts
      <4> QED
        BY <1>4, <3>1, <4>1 DEF EmissionOf
    <3>3. CASE l = JobOf(s)
      <4>1. EmitterOf(l) = e /\ s \in Reachable(l) /\ terminal[l] = (m.ev = End)
            /\ m.left \subseteq Reachable(l)
        BY <1>1, <1>6, <3>1, <3>3 DEF EmissionOf, m
      <4> QED
        BY <1>2, <1>4, <3>1, <4>1 DEF EmissionOf
    <3> QED
      BY <3>2, <3>3
  <2>2. ASSUME NEW o \in Relays \ Stack PROVE Idle(o)'
    <3>1. Idle(o) /\ o \in Emitters
      BY DEF EmissionInv, Emitters
    <3>2. o # e
      BY <1>1, <3>1 DEF Idle, m
    <3> QED
      BY <1>2, <3>1, <3>2 DEF Idle
  <2>3. Stack' = Stack
    BY <1>4 DEF Stack
  <2> QED
    BY <2>1, <2>2, <2>3 DEF EmissionInv
<1>10. RelayInv'
  <2>1. ASSUME NEW o \in Relays PROVE RelayOf(o)'
    <3>1. RelayOf(o) /\ o \in Emitters
      BY DEF RelayInv, Emitters
    <3>2. Idle(o) => Idle(o)'
      BY <1>1, <1>2, <3>1 DEF Idle, m
    <3> QED
      BY <1>4, <3>1, <3>2 DEF RelayOf, Stack
  <2> QED
    BY <2>1 DEF RelayInv
<1>11. DeliveryInv'
  <2>1. \A o \in Subs \ {s} : Untouched(o)
    BY <1>3, <1>4 DEF Untouched
  <2>2. ASSUME NEW o \in Subs, o # s, JobOf(o) \in Stack PROVE PendingFor(o)' = PendingFor(o)
    <3>1. EmitterOf(JobOf(o)) \in Emitters /\ EmitterOf(JobOf(o))' = EmitterOf(JobOf(o))
      BY <1>4, <2>2, Whereabouts DEF EmitterOf, JobOf
    <3>2. /\ emit'[EmitterOf(JobOf(o))].ev = emit[EmitterOf(JobOf(o))].ev
          /\ o \in emit'[EmitterOf(JobOf(o))].left <=> o \in emit[EmitterOf(JobOf(o))].left
      BY <1>2, <2>2, <3>1 DEF m
    <3> QED
      BY <3>1, <3>2 DEF PendingFor
  <2>3. ASSUME Attached(s)' PROVE DeliveryOf(s)'
    <3>1. DeliveryOf(s) /\ PendingFor(s) = <<m.ev>> /\ PendingFor(s)' = <<>>
      <4>1. Attached(s)
        BY <1>4, <2>3 DEF Attached, Stack, JobOf
      <4>2. EmitterOf(JobOf(s))' = e
        BY <1>4, <1>6 DEF EmitterOf, JobOf
      <4> QED
        BY <1>1, <1>2, <1>6, <4>1, <4>2 DEF DeliveryInv, PendingFor, m
    <3>2. got[s] \o held[s] \in Seq(Stamps) /\ queue[s] \in Seq(Stamps)
      BY ConcatProperties DEF StreamTypeOK
    <3>3. got[s] \o held[s] \o Append(queue[s], m.ev) = got[s] \o held[s] \o queue[s] \o <<m.ev>>
      BY <1>1, <3>2, PushedOn DEF m
    <3>4. got[s] \o held[s] \o Append(queue[s], m.ev) \in Seq(Stamps)
      BY <1>3, <3>2, ConcatProperties DEF StreamTypeOK
    <3>5. got'[s] \o held'[s] \o queue'[s] \o PendingFor(s)' = events[JobOf(s)]
      BY <1>3, <1>4, <3>1, <3>3, <3>4, ConcatEmptySeq DEF DeliveryOf
    <3>6. ~closed[s] /\ forwarding[s]
      BY <3>1 DEF DeliveryOf
    <3> QED
      BY <1>4, <3>1, <3>5, <3>6 DEF DeliveryOf, JobOf
  <2> QED
    BY <1>4, <2>1, <2>2, <2>3, OthersDelivered
<1>12. NumberInv'
  BY <1>4, NumbersKept DEF Relayed
<1> QED
  BY <1>5, <1>7, <1>8, <1>9, <1>10, <1>11, <1>12

(* Emit: one subscriber's queue is closed after the terminal event.         *)
LEMMA CloseStep ==
  ASSUME StreamIInv, NEW e \in Emitters, NEW s \in Subs, Close(e, s)
  PROVE  StreamIInv'
<1> USE DEF StreamIInv
<1>1. /\ s \in emit[e].closing
      /\ UNCHANGED <<jobs, queue, done, held, forwarding, frontends, operation, panicked>>
  BY DEF Close
<1>2. /\ emit' \in [Emitters -> [ev : Stamps, left : SUBSET Subs, closing : SUBSET Subs]]
      /\ emit'[e].ev = emit[e].ev /\ emit'[e].left = emit[e].left /\ emit'[e].closing = {}
      /\ \A o \in Emitters \ {e} : emit'[o] = emit[o]
  BY DEF Close, StreamTypeOK
<1>3. /\ closed' \in [Subs -> BOOLEAN] /\ closed'[s] = TRUE
      /\ \A o \in Subs \ {s} : closed'[o] = closed[o]
  BY DEF Close, StreamTypeOK
<1>4. /\ events' = events /\ terminal' = terminal /\ subs' = subs /\ queue' = queue
      /\ done' = done /\ held' = held /\ forwarding' = forwarding /\ reader' = reader /\ got' = got
      /\ level' = level /\ at' = at /\ stamp' = stamp /\ calls' = calls /\ panicked' = panicked
  BY <1>1 DEF jobs, frontends, operation
<1>5. StreamTypeOK'
  BY <1>2, <1>3, <1>4 DEF StreamTypeOK
<1>6. JobOf(s) \in Stack /\ e = EmitterOf(JobOf(s))
  BY <1>1, WhoEmits
<1>7. JobInv' /\ ReaderInv'
  BY <1>4 DEF JobInv, Stack, ReaderInv
<1>8. AudienceInv'
  BY <1>4 DEF AudienceInv, Audience, Attached, Stack, JobOf
<1>9. \A o \in Emitters : emit'[o].ev = emit[o].ev /\ emit'[o].left = emit[o].left
                          /\ emit'[o].closing \subseteq emit[o].closing
  BY <1>2
<1>10. EmissionInv'
  <2>1. ASSUME NEW l \in Stack PROVE EmissionOf(l)'
    <3>1. EmissionOf(l) /\ EmitterOf(l) \in Emitters /\ EmitterOf(l)' = EmitterOf(l)
          /\ Reachable(l)' = Reachable(l)
      BY <1>4, Whereabouts DEF EmissionInv, EmitterOf, Reachable, JobOf
    <3> QED
      BY <1>4, <1>9, <3>1 DEF EmissionOf
  <2> QED
    BY <1>4, <1>9, <2>1 DEF EmissionInv, Stack, Idle, Emitters
<1>11. RelayInv'
  BY <1>4, <1>9 DEF RelayInv, RelayOf, Stack, Idle, Emitters
<1>12. DeliveryInv'
  <2>1. \A o \in Subs \ {s} : Untouched(o)
    BY <1>3, <1>4 DEF Untouched
  <2>2. ASSUME NEW o \in Subs, JobOf(o) \in Stack PROVE PendingFor(o)' = PendingFor(o)
    <3>1. EmitterOf(JobOf(o)) \in Emitters /\ EmitterOf(JobOf(o))' = EmitterOf(JobOf(o))
      BY <1>4, <2>2, Whereabouts DEF EmitterOf, JobOf
    <3> QED
      BY <1>9, <3>1 DEF PendingFor
  <2>3. ASSUME Attached(s)' PROVE DeliveryOf(s)'
    <3>1. DeliveryOf(s)
      BY <1>4, <2>3 DEF DeliveryInv, Attached, Stack, JobOf
    <3>2. terminal[JobOf(s)] /\ PendingFor(s) = <<>>
      BY <1>1, <1>6 DEF EmissionInv, EmissionOf, PendingFor
    <3> QED
      BY <1>3, <1>4, <1>6, <2>2, <3>1, <3>2 DEF DeliveryOf, JobOf
  <2> QED
    BY <1>4, <2>1, <2>2, <2>3, OthersDelivered
<1>13. NumberInv'
  BY <1>4, NumbersKept DEF Relayed
<1> QED
  BY <1>5, <1>7, <1>8, <1>10, <1>11, <1>12, <1>13

-----------------------------------------------------------------------------
(* What an emission makes of a log.                                         *)
LEMMA OneAppended ==
  ASSUME NEW log \in Seq(Stamps), NEW ev \in Stamps
  PROVE  /\ Append(log, ev) \in Seq(Stamps) /\ Append(log, ev) = log \o <<ev>>
         /\ Len(Append(log, ev)) - 1 = Len(log) /\ Len(Append(log, ev)) \in Nat /\ Len(log) \in Nat
         /\ Append(log, ev)[Len(Append(log, ev))] = ev /\ Append(log, ev) # <<>>
         /\ \A i \in 1..Len(log) : Append(log, ev)[i] = log[i]
<1>1. Append(log, ev) \in Seq(Stamps) /\ Append(log, ev) = log \o <<ev>>
  BY AppendProperties, PushedOn
<1>2. Len(Append(log, ev)) - 1 = Len(log) /\ Append(log, ev)[Len(Append(log, ev))] = ev
      /\ Append(log, ev) # <<>>
  BY <1>1, OneMore
<1>3. \A i \in 1..Len(log) : Append(log, ev)[i] = log[i]
  BY AppendProperties
<1> QED
  BY <1>1, <1>2, <1>3, LenProperties

(* A subscriber has not got an event that was only now emitted.             *)
LEMMA NotYetThere ==
  ASSUME NEW a \in Seq(Stamps), NEW b \in Seq(Stamps), NEW c \in Seq(Stamps),
         NEW d \in Seq(Stamps), NEW ev \in Stamps
  PROVE  a # Append(a \o b \o c \o d, ev)
<1>1. a \o b \in Seq(Stamps) /\ Len(a) <= Len(a \o b)
  BY ConcatProperties, LenProperties
<1>2. a \o b \o c \in Seq(Stamps) /\ Len(a) <= Len(a \o b \o c)
  BY <1>1, ConcatProperties, LenProperties
<1>3. a \o b \o c \o d \in Seq(Stamps) /\ Len(a) <= Len(a \o b \o c \o d)
  BY <1>2, ConcatProperties, LenProperties
<1>4. Len(a) # Len(Append(a \o b \o c \o d, ev))
  BY <1>3, AppendProperties, LenProperties
<1> QED
  BY <1>4

(* A step that emits ev on job l; a relay goes back to reading. *)
Emits(e, l, ev) ==
  /\ e = EmitterOf(l) /\ Idle(e) /\ ~terminal[l] /\ ev \in Stamps
  /\ Emit(e, l, ev) /\ UNCHANGED <<subscriptions, got, level, calls>>
  /\ \A s \in Subs : \/ reader'[s] = reader[s] /\ (s = e => s \notin Relays)
                     \/ s = e /\ reader[s] = "relaying" /\ reader'[s] = "reading"

(* All that it changes, variable by variable. *)
Extended(e, l, ev) ==
  /\ e \in Emitters /\ l \in Levels /\ events[l] \in Seq(Stamps)
  /\ events' \in [Levels -> Seq(Stamps)] /\ terminal' \in [Levels -> BOOLEAN]
  /\ subs' \in [Levels -> SUBSET Subs]
  /\ emit' \in [Emitters -> [ev : Stamps, left : SUBSET Subs, closing : SUBSET Subs]]
  /\ events'[l] = Append(events[l], ev) /\ terminal'[l] = (ev = End)
  /\ subs'[l] = IF ev = End THEN {} ELSE Audience(l)
  /\ emit'[e] = [ev |-> ev, left |-> Audience(l), closing |-> {}]
  /\ \A k \in Levels \ {l} : events'[k] = events[k] /\ terminal'[k] = terminal[k] /\ subs'[k] = subs[k]
  /\ \A o \in Emitters \ {e} : emit'[o] = emit[o]
  /\ queue' = queue /\ closed' = closed /\ done' = done /\ held' = held
  /\ forwarding' = forwarding /\ got' = got /\ level' = level /\ calls' = calls
  /\ panicked' = panicked

(* The audience of the job is who the event is still to be pushed to.       *)
LEMMA EmitEffect ==
  ASSUME StreamIInv, NEW e, NEW l \in Stack, NEW ev, Emits(e, l, ev)
  PROVE  Extended(e, l, ev)
<1> USE DEF StreamIInv
<1>1. e \in Emitters /\ l \in Levels /\ ev \in Stamps /\ ~terminal[l]
  BY Whereabouts DEF Emits
<1>2. subs[l] = Audience(l) /\ Audience(l) \subseteq Subs
  BY <1>1 DEF AudienceInv, Audience
<1>3. events[l] \in Seq(Stamps) /\ Append(events[l], ev) \in Seq(Stamps)
  BY <1>1, OneAppended DEF StreamTypeOK
<1>4. /\ events' = [events EXCEPT ![l] = Append(@, ev)]
      /\ terminal' = [terminal EXCEPT ![l] = (ev = End)]
      /\ subs' = [subs EXCEPT ![l] = IF ev = End THEN {} ELSE @]
      /\ emit' = [emit EXCEPT ![e] = [ev |-> ev, left |-> subs[l], closing |-> {}]]
      /\ panicked' = panicked
  BY <1>1 DEF Emits, Emit
<1>5. events' \in [Levels -> Seq(Stamps)] /\ events'[l] = Append(events[l], ev)
      /\ \A k \in Levels \ {l} : events'[k] = events[k]
  BY <1>1, <1>3, <1>4 DEF StreamTypeOK
<1>6. terminal' \in [Levels -> BOOLEAN] /\ terminal'[l] = (ev = End)
      /\ \A k \in Levels \ {l} : terminal'[k] = terminal[k]
  BY <1>1, <1>4 DEF StreamTypeOK
<1>7. subs' \in [Levels -> SUBSET Subs] /\ subs'[l] = (IF ev = End THEN {} ELSE Audience(l))
      /\ \A k \in Levels \ {l} : subs'[k] = subs[k]
  BY <1>1, <1>2, <1>4 DEF StreamTypeOK
<1>8. /\ emit' \in [Emitters -> [ev : Stamps, left : SUBSET Subs, closing : SUBSET Subs]]
      /\ emit'[e] = [ev |-> ev, left |-> Audience(l), closing |-> {}]
      /\ \A o \in Emitters \ {e} : emit'[o] = emit[o]
  BY <1>1, <1>2, <1>4 DEF StreamTypeOK
<1>9. /\ queue' = queue /\ closed' = closed /\ done' = done /\ held' = held
      /\ forwarding' = forwarding /\ got' = got /\ level' = level /\ calls' = calls
  BY DEF Emits, subscriptions
<1> QED
  BY <1>1, <1>3, <1>4, <1>5, <1>6, <1>7, <1>8, <1>9 DEF Extended

(* The types an emission has to keep are few.                               *)
LEMMA EmittedTypes ==
  ASSUME StreamTypeOK, NEW e, NEW l, NEW ev, Extended(e, l, ev),
         reader' \in [Subs -> {"away", "reading", "relaying", "told", "leaving", "left"}],
         at' \in {"running", "awaiting", "returned"}, stamp' \in Nat
  PROVE  StreamTypeOK'
<1>1. /\ events' \in [Levels -> Seq(Stamps)] /\ terminal' \in [Levels -> BOOLEAN]
      /\ subs' \in [Levels -> SUBSET Subs]
      /\ emit' \in [Emitters -> [ev : Stamps, left : SUBSET Subs, closing : SUBSET Subs]]
  BY DEF Extended
<1>2. /\ queue' = queue /\ closed' = closed /\ done' = done /\ held' = held
      /\ forwarding' = forwarding /\ got' = got /\ level' = level /\ calls' = calls
      /\ panicked' = panicked
  BY DEF Extended
<1> QED
  BY <1>1, <1>2 DEF StreamTypeOK

(* An emission keeps every part of the invariant but the numbering.         *)
LEMMA Emitted ==
  ASSUME StreamIInv, NEW e, NEW l \in Stack, NEW ev, Emits(e, l, ev)
  PROVE  AudienceInv' /\ EmissionInv' /\ RelayInv' /\ ReaderInv' /\ DeliveryInv'
<1> USE DEF StreamIInv
<1>0. Extended(e, l, ev)
  BY EmitEffect
<1>1. /\ e = EmitterOf(l) /\ Idle(e) /\ ~terminal[l] /\ ev \in Stamps
      /\ \A s \in Subs : \/ reader'[s] = reader[s] /\ (s = e => s \notin Relays)
                         \/ s = e /\ reader[s] = "relaying" /\ reader'[s] = "reading"
  BY DEF Emits
<1>2. Stack' = Stack /\ Stack \subseteq Levels
  BY <1>0, Whereabouts DEF Stack, Extended
<1>3. \A s \in Subs : Attached(s)' = Attached(s) /\ (reader'[s] = "away") = (reader[s] = "away")
  BY <1>1, <1>2 DEF Attached, JobOf
<1>4. \A k \in Stack : Audience(k)' = Audience(k) /\ Reachable(k)' = Reachable(k)
                       /\ Audience(k) \subseteq Reachable(k)
  BY <1>3 DEF Audience, Reachable, Attached, JobOf
<1>5. AudienceInv'
  <2>1. ASSUME NEW k \in Stack PROVE subs'[k] = IF terminal'[k] THEN {} ELSE Audience(k)'
    <3>1. CASE k = l
      BY <1>0, <1>4, <3>1 DEF Extended
    <3>2. CASE k # l
      BY <1>0, <1>2, <1>4, <3>2 DEF AudienceInv, Extended
    <3> QED
      BY <3>1, <3>2
  <2> QED
    BY <1>2, <2>1 DEF AudienceInv
<1>6. EmissionInv'
  <2>1. ASSUME NEW k \in Stack PROVE EmissionOf(k)'
    <3>1. EmitterOf(k)' = EmitterOf(k) /\ EmitterOf(k) \in Emitters
      BY <1>0, Whereabouts DEF EmitterOf, Extended
    <3>2. CASE k = l
      <4>1. emit'[EmitterOf(k)] = [ev |-> ev, left |-> Audience(l), closing |-> {}]
        BY <1>0, <1>1, <3>2 DEF Extended
      <4>2. terminal'[k] = (ev = End)
        BY <1>0, <3>2 DEF Extended
      <4> QED
        BY <1>4, <3>1, <3>2, <4>1, <4>2 DEF EmissionOf
    <3>3. CASE k # l
      <4>1. EmitterOf(k) # e
        BY <1>1, <3>3, Whereabouts
      <4>2. emit'[EmitterOf(k)] = emit[EmitterOf(k)] /\ terminal'[k] = terminal[k]
        BY <1>0, <1>2, <3>1, <3>3, <4>1 DEF Extended
      <4> QED
        BY <1>4, <3>1, <4>2 DEF EmissionInv, EmissionOf
    <3> QED
      BY <3>2, <3>3
  <2>2. ASSUME NEW o \in Relays \ Stack PROVE Idle(o)'
    <3>1. o # e /\ o \in Emitters
      BY <1>1, Whereabouts DEF EmitterOf, Emitters
    <3> QED
      BY <1>0, <3>1 DEF EmissionInv, Idle, Extended
  <2> QED
    BY <1>2, <2>1, <2>2 DEF EmissionInv
<1>7. RelayInv'
  <2>1. ASSUME NEW s \in Relays PROVE RelayOf(s)'
    <3>1. RelayOf(s) /\ s \in Subs /\ s \in Emitters /\ s \in Levels /\ JobOf(s) = s
      BY Whereabouts DEF RelayInv, Subs, Emitters
    <3>2. s # e => Idle(s)' = Idle(s)
      BY <1>0, <3>1 DEF Idle, Extended
    <3>3. ASSUME reader'[s] = "relaying" PROVE ~(terminal'[s] /\ got'[s] = events'[s])
      <4>1. reader[s] = "relaying" /\ got'[s] = got[s]
        BY <1>0, <1>1, <3>1, <3>3 DEF Extended
      <4>2. CASE s = l
        <5>1. DeliveryOf(s) /\ PendingFor(s) \in Seq(Stamps)
          BY <3>1, <4>1, <4>2, PendingType DEF DeliveryInv, Attached
        <5>2. /\ got[s] \in Seq(Stamps) /\ held[s] \in Seq(Stamps) /\ queue[s] \in Seq(Stamps)
              /\ got[s] \o held[s] \o queue[s] \o PendingFor(s) = events[s]
          BY <3>1, <5>1 DEF StreamTypeOK, DeliveryOf
        <5>3. got[s] # Append(got[s] \o held[s] \o queue[s] \o PendingFor(s), ev)
          BY <1>1, <5>1, <5>2, NotYetThere
        <5>4. got[s] # events'[s]
          BY <1>0, <4>2, <5>2, <5>3 DEF Extended
        <5> QED
          BY <4>1, <5>4
      <4>3. CASE s # l
        BY <1>0, <3>1, <4>1, <4>3 DEF RelayOf, Extended
      <4> QED
        BY <4>2, <4>3
    <3>4. s \notin Stack => s # e
      BY <1>1, Whereabouts DEF EmitterOf
    <3> QED
      BY <1>0, <1>1, <1>2, <3>1, <3>2, <3>3, <3>4 DEF RelayOf, Extended
  <2> QED
    BY <2>1 DEF RelayInv
<1>8. ReaderInv'
  BY <1>0, <1>1 DEF ReaderInv, Subs, Extended
<1>9. DeliveryInv'
  <2>1. ASSUME NEW s \in Subs, Attached(s) PROVE DeliveryOf(s)'
    <3>1. DeliveryOf(s) /\ JobOf(s) \in Stack /\ JobOf(s)' = JobOf(s)
          /\ EmitterOf(JobOf(s))' = EmitterOf(JobOf(s)) /\ EmitterOf(JobOf(s)) \in Emitters
      BY <1>0, <2>1, Whereabouts DEF DeliveryInv, Attached, JobOf, EmitterOf, Extended
    <3>2. /\ got[s] \o held[s] \o queue[s] \in Seq(Stamps) /\ events[l] \in Seq(Stamps)
      BY <1>0, ConcatProperties DEF StreamTypeOK, Extended
    <3>3. CASE JobOf(s) = l
      <4>1. PendingFor(s) = <<>> /\ PendingFor(s)' = <<ev>>
        <5>1. s \in Audience(l)
          BY <2>1, <3>3 DEF Audience
        <5> QED
          BY <1>0, <1>1, <3>1, <3>3, <5>1 DEF PendingFor, Idle, Extended
      <4>2. got[s] \o held[s] \o queue[s] = events[l]
        BY <3>1, <3>2, <3>3, <4>1, ConcatEmptySeq DEF DeliveryOf
      <4>3. got[s] \o held[s] \o queue[s] \o <<ev>> = events'[l]
        BY <1>0, <1>1, <3>2, <4>2, PushedOn DEF Extended
      <4>4. ~closed[s] /\ forwarding[s] /\ reader[s] # "told"
        BY <1>1, <3>1, <3>3 DEF DeliveryOf
      <4>5. reader'[s] # "told"
        BY <1>1, <4>4
      <4> QED
        BY <1>0, <3>1, <3>3, <4>1, <4>3, <4>4, <4>5 DEF DeliveryOf, Extended
    <3>4. CASE JobOf(s) # l
      <4>1. EmitterOf(JobOf(s)) # e /\ JobOf(s) \in Levels
        BY <1>1, <3>1, <3>4, Whereabouts
      <4>2. PendingFor(s)' = PendingFor(s)
        BY <1>0, <3>1, <4>1 DEF PendingFor, Extended
      <4>3. reader'[s] = "told" => reader[s] = "told"
        BY <1>1
      <4> QED
        BY <1>0, <3>1, <3>4, <4>1, <4>2, <4>3 DEF DeliveryOf, Extended
    <3> QED
      BY <3>3, <3>4
  <2> QED
    BY <1>3, <2>1 DEF DeliveryInv
<1> QED
  BY <1>5, <1>6, <1>7, <1>8, <1>9

(* The relays that do not emit have as much left to emit as before.         *)
LEMMA OthersRelayed ==
  ASSUME StreamIInv, NEW e, NEW l \in Stack, NEW ev, Emits(e, l, ev),
         NEW s \in Relays, s \in Stack, s # e
  PROVE  Relayed(s)' = Relayed(s)
<1> USE DEF StreamIInv
<1>0. Extended(e, l, ev)
  BY EmitEffect
<1>1. s \in Subs /\ s \in Levels /\ JobOf(s) = s
  BY Whereabouts DEF Subs
<1>2. reader'[s] = reader[s] /\ got'[s] = got[s]
  BY <1>0, <1>1 DEF Emits, Extended
<1>3. CASE reader[s] = "relaying"
  BY <1>2, <1>3 DEF Relayed
<1>4. CASE reader[s] # "relaying" /\ s # l
  BY <1>0, <1>1, <1>2, <1>4 DEF Relayed, Extended
<1>5. CASE reader[s] # "relaying" /\ s = l
  <2>1. DeliveryOf(s) /\ PendingFor(s) \in Seq(Stamps)
    BY <1>1, PendingType DEF RelayInv, RelayOf, DeliveryInv, Attached
  <2>2. /\ got[s] \in Seq(Stamps) /\ held[s] \in Seq(Stamps) /\ queue[s] \in Seq(Stamps)
        /\ got[s] \o held[s] \o queue[s] \o PendingFor(s) = events[s]
    BY <1>1, <2>1 DEF StreamTypeOK, DeliveryOf
  <2>3. ev \in Stamps /\ ~terminal[s]
    BY <1>5 DEF Emits
  <2>4. got[s] # Append(got[s] \o held[s] \o queue[s] \o PendingFor(s), ev)
    BY <2>1, <2>2, <2>3, NotYetThere
  <2>5. got'[s] # events'[s]
    BY <1>0, <1>2, <1>5, <2>2, <2>4 DEF Extended
  <2> QED
    BY <1>2, <1>5, <2>3, <2>5 DEF Relayed
<1> QED
  BY <1>3, <1>4, <1>5

(* It keeps the numbering if the event is the next one of its job.          *)
LEMMA EmittedNumbers ==
  ASSUME StreamIInv, NEW e, NEW l \in Stack, NEW ev, Emits(e, l, ev),
         NEW base \in [Levels -> Nat], base[1] = 0, \A k \in Stack : NumberedAt(base, k),
         ev = End \/ ev = base[l] + Steps(l) + 1,
         l = level => stamp' = IF ev = End THEN stamp ELSE stamp + 1,
         l # level => stamp' = stamp /\ ev # End /\ Relayed(l + 1)' = Relayed(l + 1) + 1
  PROVE  NumberInv'
<1> USE DEF StreamIInv
<1>0. Extended(e, l, ev)
  BY EmitEffect
<1>1. Stack' = Stack /\ Stack \subseteq Levels /\ level' = level
  BY <1>0, Whereabouts DEF Stack, Extended
<1>2. ASSUME NEW k \in Stack, k # l PROVE NumberedAt(base, k)'
  <2>1. NumberedAt(base, k) /\ events'[k] = events[k] /\ terminal'[k] = terminal[k]
    BY <1>0, <1>1, <1>2 DEF Extended
  <2>2. CASE k = level
    BY <1>1, <1>2, <2>1, <2>2 DEF NumberedAt, Steps
  <2>3. CASE k # level
    <3>1. k + 1 \in Stack /\ k + 1 \in Relays /\ k + 1 # e
      BY <1>2, <2>3, Whereabouts DEF Emits
    <3>2. Relayed(k + 1)' = Relayed(k + 1)
      BY <3>1, OthersRelayed
    <3> QED
      BY <1>1, <2>1, <2>3, <3>2 DEF NumberedAt, Steps
  <2> QED
    BY <2>2, <2>3
<1>3. NumberedAt(base, l)'
  <2>1. NumberedAt(base, l) /\ ~terminal[l] /\ ev \in Stamps /\ events[l] \in Seq(Stamps)
    BY <1>0 DEF Emits, Extended
  <2>2. /\ events'[l] # <<>> /\ Len(events'[l]) - 1 = Len(events[l])
        /\ Len(events'[l]) \in Nat /\ Len(events[l]) \in Nat
        /\ events'[l][Len(events'[l])] = ev
        /\ \A i \in 1..Len(events[l]) : events'[l][i] = events[l][i]
    <3>1. events'[l] = Append(events[l], ev)
      BY <1>0 DEF Extended
    <3>2. /\ Append(events[l], ev) # <<>> /\ Len(Append(events[l], ev)) - 1 = Len(events[l])
          /\ Len(Append(events[l], ev)) \in Nat /\ Len(events[l]) \in Nat
          /\ Append(events[l], ev)[Len(Append(events[l], ev))] = ev
          /\ \A i \in 1..Len(events[l]) : Append(events[l], ev)[i] = events[l][i]
      BY <2>1, OneAppended, Zenon
    <3> QED
      BY <3>1, <3>2, Zenon
  <2>3. Steps(l) = Len(events[l]) /\ terminal'[l] = (ev = End)
        /\ Steps(l)' = IF ev = End THEN Len(events'[l]) - 1 ELSE Len(events'[l])
    BY <1>0, <2>1 DEF Steps, Extended
  <2>4. base[l] \in Nat
    BY <1>1
  <2>5. base[l] + Steps(l)' = IF l = level THEN stamp' ELSE base[l + 1] + Relayed(l + 1)'
    <3>1. Steps(l)' = IF ev = End THEN Steps(l) ELSE Steps(l) + 1
      BY <2>2, <2>3
    <3>2. base[l] + Steps(l)' = IF ev = End THEN base[l] + Steps(l) ELSE (base[l] + Steps(l)) + 1
      BY <3>1, <2>2, <2>3, <2>4
    <3>3. CASE l = level
      BY <2>1, <3>2, <3>3 DEF NumberedAt
    <3>4. CASE l # level
      <4>1. l + 1 \in Levels /\ l + 1 \in Subs
        BY <3>4, Whereabouts DEF Subs
      <4>2. base[l + 1] \in Nat /\ Len(got[l + 1]) \in Nat
        BY <4>1, LenProperties DEF StreamTypeOK
      <4>3. Relayed(l + 1) \in Int
        BY <4>2 DEF Relayed
      <4> QED
        BY <2>1, <3>2, <3>4, <4>2, <4>3 DEF NumberedAt
    <3> QED
      BY <3>3, <3>4
  <2>6. ASSUME NEW i \in 1..Steps(l)' PROVE events'[l][i] = base[l] + i
    <3>1. CASE i \in 1..Len(events[l])
      BY <2>1, <2>2, <2>3, <3>1 DEF NumberedAt
    <3>2. CASE i \notin 1..Len(events[l])
      <4>1. ev # End /\ i = Len(events'[l]) /\ i = Steps(l) + 1
        BY <2>2, <2>3, <2>6, <3>2
      <4>2. ev = base[l] + Steps(l) + 1 /\ Steps(l) \in Nat
        BY <2>2, <2>3, <4>1
      <4>3. base[l] + i = base[l] + Steps(l) + 1
        BY <2>4, <4>1, <4>2
      <4> QED
        BY <2>2, <4>1, <4>2, <4>3
    <3> QED
      BY <3>1, <3>2
  <2> QED
    BY <1>1, <2>2, <2>3, <2>5, <2>6 DEF NumberedAt
<1>4. \A k \in Stack' : NumberedAt(base, k)'
  BY <1>1, <1>2, <1>3
<1> QED
  BY <1>4 DEF NumberInv

(* What a subscriber got is where the log begins.                           *)
LEMMA Beginning ==
  ASSUME NEW a \in Seq(Stamps), NEW b \in Seq(Stamps), a # <<>>
  PROVE  /\ Len(a) \in 1..Len(a \o b) /\ (a \o b)[Len(a)] = a[Len(a)] /\ a[Len(a)] \in Stamps
         /\ a # a \o b => Len(a) \in 1..(Len(a \o b) - 1)
<1>1. Len(a) \in Nat /\ Len(a) >= 1 /\ Len(b) \in Nat /\ a[Len(a)] \in Stamps
  BY EmptySeq, LenProperties
<1>2. Len(a \o b) = Len(a) + Len(b) /\ (a \o b)[Len(a)] = a[Len(a)]
  BY <1>1, ConcatProperties
<1>3. b = <<>> => a \o b = a
  BY ConcatEmptySeq
<1>4. b # <<>> => Len(b) >= 1
  BY <1>1
<1> QED
  BY <1>1, <1>2, <1>3, <1>4

-----------------------------------------------------------------------------
(* The operation emits on its own job, which has not ended.                 *)
LEMMA StepEmits ==
  ASSUME StreamIInv, EmitStep
  PROVE  /\ level \in Stack /\ Emits(Main, level, stamp + 1)
         /\ stamp + 1 \in Stamps /\ stamp \in Nat /\ stamp + 1 # End
<1> USE DEF StreamIInv
<1>1. level \in Stack /\ ~terminal[level] /\ stamp + 1 \in Stamps /\ stamp \in Nat /\ stamp + 1 # End
  BY Whereabouts, BoundsAssumption DEF EmitStep, JobInv, Stamps, StreamTypeOK, End
<1>2. Emits(Main, level, stamp + 1)
  BY <1>1, Whereabouts DEF Emits, EmitStep, EmitterOf, frontends
<1> QED
  BY <1>1, <1>2

(* So does it when it ends it.                                              *)
LEMMA FinishEmits ==
  ASSUME StreamIInv, Finish
  PROVE  level \in Stack /\ Emits(Main, level, End)
<1> USE DEF StreamIInv
<1>1. level \in Stack /\ ~terminal[level] /\ End \in Stamps
  BY Whereabouts DEF Finish, JobInv
<1>2. Emits(Main, level, End)
  BY <1>1, Whereabouts DEF Emits, Finish, EmitterOf, frontends
<1> QED
  BY <1>1, <1>2

(* The operation reports a step.                                            *)
LEMMA EmitStepStep ==
  ASSUME StreamIInv, EmitStep
  PROVE  StreamIInv'
<1> USE DEF StreamIInv
<1>1. level \in Stack /\ stamp + 1 \in Stamps /\ stamp \in Nat /\ stamp + 1 # End
  BY StepEmits
<1>2. Emits(Main, level, stamp + 1)
  BY StepEmits
<1>3. Extended(Main, level, stamp + 1)
  BY <1>1, <1>2, EmitEffect
<1>4. reader' = reader /\ at' = at /\ stamp' = stamp + 1
  BY DEF EmitStep, frontends
<1>5. StreamTypeOK'
  BY <1>1, <1>3, <1>4, EmittedTypes DEF StreamTypeOK
<1>6. JobInv'
  BY <1>1, <1>3, <1>4, Whereabouts DEF JobInv, Extended, Stack, EmitStep
<1>7. PICK base \in [Levels -> Nat] : base[1] = 0 /\ \A l \in Stack : NumberedAt(base, l)
  BY DEF NumberInv
<1>8. stamp + 1 = base[level] + Steps(level) + 1
  BY <1>1, <1>7 DEF NumberedAt
<1>9. NumberInv'
  BY <1>1, <1>2, <1>4, <1>7, <1>8, EmittedNumbers
<1> QED
  BY <1>1, <1>2, <1>5, <1>6, <1>9, Emitted

(* The operation ends its job.                                              *)
LEMMA FinishStep ==
  ASSUME StreamIInv, Finish
  PROVE  StreamIInv'
<1> USE DEF StreamIInv
<1>1. level \in Stack
  BY FinishEmits
<1>2. Emits(Main, level, End)
  BY FinishEmits
<1>3. Extended(Main, level, End)
  BY <1>1, <1>2, EmitEffect
<1>4. reader' = reader /\ at' = "awaiting" /\ stamp' = stamp /\ at = "running"
  BY DEF Finish, frontends
<1>5. StreamTypeOK'
  BY <1>3, <1>4, EmittedTypes DEF StreamTypeOK
<1>6. JobInv'
  BY <1>1, <1>3, <1>4, Whereabouts DEF JobInv, Extended, Stack
<1>7. PICK base \in [Levels -> Nat] : base[1] = 0 /\ \A l \in Stack : NumberedAt(base, l)
  BY DEF NumberInv
<1>8. NumberInv'
  BY <1>1, <1>2, <1>4, <1>7, EmittedNumbers
<1> QED
  BY <1>1, <1>2, <1>5, <1>6, <1>8, Emitted

(* A relay emits the event its caller's job has to show next.               *)
LEMMA RelayEmits ==
  ASSUME StreamIInv, NEW s \in Relays, Relay(s),
         NEW base \in [Levels -> Nat], \A l \in Stack : NumberedAt(base, l),
         NEW ev, ev = got[s][Len(got[s])]
  PROVE  /\ s - 1 \in Stack \ {level} /\ Emits(s, s - 1, ev) /\ ev # End
         /\ ev = base[s - 1] + Steps(s - 1) + 1
         /\ Relayed(s) = Len(got[s]) - 1 /\ Len(got[s]) \in Nat
         /\ ~(terminal[s] /\ got[s] = events[s])
<1> USE DEF StreamIInv
<1>1. /\ s \in Subs /\ s \in Levels /\ JobOf(s) = s /\ s \in Stack /\ Idle(s)
      /\ got[s] # <<>> /\ ~(terminal[s] /\ got[s] = events[s]) /\ got[s] \in Seq(Stamps)
  BY Whereabouts DEF Relay, RelayInv, RelayOf, Subs, StreamTypeOK
<1>2. /\ s - 1 \in Stack /\ s - 1 # level /\ EmitterOf(s - 1) = s /\ (s - 1) + 1 = s
      /\ ~terminal[s - 1] /\ s # s - 1
  <2>1. s - 1 \in Stack /\ s - 1 # level /\ (s - 1) + 1 = s /\ s # s - 1
    BY <1>1, BoundsAssumption DEF Stack, Relays, StreamTypeOK, Levels
  <2> QED
    BY <2>1 DEF EmitterOf, JobInv
<1>3. \A l \in Stack : NumberedAt(base, l)
  OBVIOUS
<1>4. Len(got[s]) \in 1..Steps(s) /\ ev = events[s][Len(got[s])] /\ ev \in Stamps
  <2>1. DeliveryOf(s) /\ PendingFor(s) \in Seq(Stamps)
    BY <1>1, PendingType DEF DeliveryInv, Attached, Relay
  <2>2. held[s] \in Seq(Stamps) /\ queue[s] \in Seq(Stamps)
    BY <1>1 DEF StreamTypeOK
  <2>3. PICK rest \in Seq(Stamps) : got[s] \o rest = events[s]
    <3>1. queue[s] \o PendingFor(s) \in Seq(Stamps)
          /\ held[s] \o (queue[s] \o PendingFor(s)) \in Seq(Stamps)
      BY <2>1, <2>2, ConcatProperties
    <3>2. got[s] \o held[s] \in Seq(Stamps)
      BY <1>1, <2>2, ConcatProperties
    <3>3. (got[s] \o held[s]) \o queue[s] \o PendingFor(s)
            = (got[s] \o held[s]) \o (queue[s] \o PendingFor(s))
      BY <2>1, <2>2, <3>2, Regrouped
    <3>4. @ = got[s] \o (held[s] \o (queue[s] \o PendingFor(s)))
      BY <1>1, <2>2, <3>1, Regrouped
    <3> QED
      BY <1>1, <2>1, <3>1, <3>3, <3>4 DEF DeliveryOf
  <2>4. /\ Len(got[s]) \in 1..Len(got[s] \o rest) /\ (got[s] \o rest)[Len(got[s])] = ev
        /\ ev \in Stamps /\ (got[s] # got[s] \o rest => Len(got[s]) \in 1..(Len(got[s] \o rest) - 1))
    BY <1>1, Beginning, Zenon
  <2> QED
    BY <1>1, <2>3, <2>4 DEF Steps
<1>5. /\ base[s] \in Nat /\ base[s - 1] \in Nat /\ Len(got[s]) \in Nat /\ Len(got[s]) >= 1
      /\ ev = base[s] + Len(got[s]) /\ base[s - 1] + Steps(s - 1) = base[s] + Relayed(s)
  BY <1>1, <1>2, <1>3, <1>4, Whereabouts, LenProperties DEF NumberedAt
<1>6. Relayed(s) = Len(got[s]) - 1
  BY DEF Relay, Relayed
<1>7. ev # End /\ ev = base[s - 1] + Steps(s - 1) + 1
  BY <1>5, <1>6 DEF End
<1>8. Emits(s, s - 1, ev)
  <2>1. Emit(s, s - 1, ev) /\ UNCHANGED <<subscriptions, got, level, calls>>
    BY DEF Relay, operation
  <2>2. \A o \in Subs : \/ reader'[o] = reader[o] /\ (o = s => o \notin Relays)
                        \/ o = s /\ reader[o] = "relaying" /\ reader'[o] = "reading"
    BY <1>1 DEF Relay, StreamTypeOK
  <2> QED
    BY <1>1, <1>2, <1>4, <2>1, <2>2 DEF Emits
<1> QED
  BY <1>1, <1>2, <1>5, <1>6, <1>7, <1>8

(* A relay goes back to its channel once it emitted.                        *)
LEMMA RelayStep ==
  ASSUME StreamIInv, NEW s \in Relays, Relay(s)
  PROVE  StreamIInv'
<1> USE DEF StreamIInv
<1>1. PICK base \in [Levels -> Nat] : base[1] = 0 /\ \A l \in Stack : NumberedAt(base, l)
  BY DEF NumberInv
<1>2. PICK ev : ev = got[s][Len(got[s])]
  OBVIOUS
<1>3. /\ s - 1 \in Stack \ {level} /\ Emits(s, s - 1, ev) /\ ev # End
      /\ ev = base[s - 1] + Steps(s - 1) + 1
      /\ Relayed(s) = Len(got[s]) - 1 /\ Len(got[s]) \in Nat
      /\ ~(terminal[s] /\ got[s] = events[s])
  BY <1>1, <1>2, RelayEmits
<1>4. Extended(s, s - 1, ev)
  BY <1>3, EmitEffect
<1>5. /\ s \in Subs /\ s \in Levels /\ s # s - 1 /\ (s - 1) + 1 = s
      /\ reader' = [reader EXCEPT ![s] = "reading"] /\ reader'[s] = "reading"
      /\ at' = at /\ stamp' = stamp /\ level' = level
  BY Whereabouts, BoundsAssumption DEF Relay, operation, StreamTypeOK, Subs, Relays
<1>6. StreamTypeOK'
  <2>1. reader' \in [Subs -> {"away", "reading", "relaying", "told", "leaving", "left"}]
    BY <1>5 DEF StreamTypeOK
  <2>2. at' \in {"running", "awaiting", "returned"} /\ stamp' \in Nat
    BY <1>5 DEF StreamTypeOK
  <2> QED
    BY <1>4, <2>1, <2>2, EmittedTypes
<1>7. JobInv'
  <2>1. terminal'[s - 1] = FALSE /\ panicked' = panicked
    BY <1>3, <1>4 DEF Extended
  <2>2. \A l \in Stack \ {s - 1} : terminal'[l] = terminal[l]
    BY <1>4, Whereabouts DEF Extended
  <2>3. Stack' = Stack
    BY <1>5 DEF Stack
  <2> QED
    BY <1>3, <1>5, <2>1, <2>2, <2>3 DEF JobInv
<1>8. Relayed(s)' = Relayed(s) + 1
  <2>1. got'[s] = got[s] /\ terminal'[s] = terminal[s] /\ events'[s] = events[s]
    BY <1>4, <1>5 DEF Extended
  <2>2. Relayed(s)' = Len(got[s])
    BY <1>3, <1>5, <2>1 DEF Relayed
  <2> QED
    BY <1>3, <2>2
<1>9. NumberInv'
  BY <1>1, <1>3, <1>5, <1>8, EmittedNumbers
<1> QED
  BY <1>3, <1>6, <1>7, <1>9, Emitted

(* A private job begins where the steps taken so far end.                   *)
LEMMA CallStep ==
  ASSUME StreamIInv, Call
  PROVE  StreamIInv'
<1> USE DEF StreamIInv
<1>0. PICK c \in Nat, n \in Nat : c = level /\ n = level + 1
  BY DEF StreamTypeOK, Levels
<1>1. /\ c = level /\ n = c + 1 /\ c >= 1 /\ n # c /\ n # 1 /\ n \in Levels
      /\ n \in Relays /\ n \in Subs /\ n \notin Stack /\ n \in Emitters /\ JobOf(n) = n
      /\ c \in Stack /\ Stack \subseteq Levels
  <2>1. c >= 1 /\ n = c + 1 /\ n <= Depth /\ Depth \in Nat
    BY <1>0, BoundsAssumption DEF Call, StreamTypeOK, Levels
  <2>2. /\ n # c /\ n # 1 /\ n \in Levels /\ n \in Relays /\ n \notin 1..c
        /\ c \in 1..c /\ 1..c \subseteq Levels
    BY <2>1 DEF Levels, Relays
  <2>3. n \in Subs /\ n \in Emitters /\ JobOf(n) = n
    BY <2>2, Whereabouts DEF Subs, Emitters
  <2> QED
    BY <1>0, <2>1, <2>2, <2>3 DEF Stack
<1>2. /\ at = "running" /\ Idle(Main) /\ level' = n /\ calls' = calls + 1
      /\ at' = at /\ stamp' = stamp /\ panicked' = panicked /\ held' = held /\ emit' = emit
  BY <1>0 DEF Call
<1>3. Stack' = Stack \union {n}
  BY <1>1, <1>2 DEF Stack
<1>4. /\ events'[n] = <<>> /\ terminal'[n] = FALSE /\ subs'[n] = {n}
      /\ queue'[n] = <<>> /\ closed'[n] = FALSE /\ done'[n] = FALSE
      /\ forwarding'[n] = TRUE /\ reader'[n] = "reading" /\ got'[n] = <<>>
  BY <1>1 DEF Call, StreamTypeOK
<1>5. \A l \in Levels \ {n} :
        events'[l] = events[l] /\ terminal'[l] = terminal[l] /\ subs'[l] = subs[l]
  BY <1>0 DEF Call, StreamTypeOK
<1>6. \A o \in Subs \ {n} : Untouched(o)
  BY <1>0 DEF Call, Untouched, StreamTypeOK
<1>7. StreamTypeOK'
  <2>1. /\ events' \in [Levels -> Seq(Stamps)] /\ terminal' \in [Levels -> BOOLEAN]
        /\ subs' \in [Levels -> SUBSET Subs]
    BY <1>1 DEF Call, StreamTypeOK
  <2>2. /\ queue' \in [Subs -> Seq(Stamps)] /\ got' \in [Subs -> Seq(Stamps)]
        /\ held' \in [Subs -> Seq(Stamps)]
    BY <1>1 DEF Call, StreamTypeOK
  <2>3. /\ closed' \in [Subs -> BOOLEAN] /\ done' \in [Subs -> BOOLEAN]
        /\ forwarding' \in [Subs -> BOOLEAN]
    BY <1>1 DEF Call, StreamTypeOK
  <2>4. reader' \in [Subs -> {"away", "reading", "relaying", "told", "leaving", "left"}]
    BY <1>1 DEF Call, StreamTypeOK
  <2>5. level' \in Levels /\ calls' \in Nat
    BY <1>1, <1>2 DEF StreamTypeOK
  <2> QED
    BY <1>2, <2>1, <2>2, <2>3, <2>4, <2>5 DEF StreamTypeOK
<1>8. reader[n] \in {"away", "told"} /\ ~forwarding[n] /\ held[n] = <<>> /\ Idle(n)
  BY <1>1 DEF RelayInv, RelayOf, EmissionInv
<1>9. JobInv'
  <2>1. ASSUME NEW l \in Stack PROVE terminal'[l] = FALSE
    BY <1>1, <1>2, <1>5, <2>1 DEF JobInv
  <2> QED
    BY <1>2, <1>3, <1>4, <2>1 DEF JobInv
<1>10. /\ \A l \in Stack \ {c} : EmitterOf(l)' = EmitterOf(l)
       /\ EmitterOf(c)' = n /\ EmitterOf(n)' = Main /\ EmitterOf(c) = Main
  BY <1>1, <1>2 DEF EmitterOf, Stack
<1>11. \A o \in Subs \ {n} : Attached(o)' = Attached(o) /\ JobOf(o) # n
  <2>1. ASSUME NEW o \in Subs \ {n} PROVE JobOf(o) # n
    BY <1>1, <2>1 DEF JobOf
  <2> QED
    BY <1>3, <1>6, <2>1 DEF Attached, Untouched, JobOf
<1>12. \A l \in Stack : Audience(l)' = Audience(l) /\ Reachable(l)' = Reachable(l)
  BY <1>1, <1>6, <1>11 DEF Audience, Reachable, JobOf, Untouched
<1>13. AudienceInv'
  <2>1. Audience(n)' = {n}
    BY <1>1, <1>3, <1>4, <1>11 DEF Audience, Attached, JobOf
  <2>2. subs'[n] = IF terminal'[n] THEN {} ELSE Audience(n)'
    BY <1>4, <2>1
  <2>3. ASSUME NEW l \in Stack
        PROVE  subs'[l] = IF terminal'[l] THEN {} ELSE Audience(l)'
    BY <1>1, <1>5, <1>12, <2>3 DEF AudienceInv
  <2> QED
    BY <1>3, <2>2, <2>3 DEF AudienceInv
<1>14. EmissionInv'
  <2>1. ASSUME NEW l \in Stack, l # c PROVE EmissionOf(l)'
    BY <1>1, <1>2, <1>5, <1>10, <1>12, <2>1 DEF EmissionInv, EmissionOf
  <2>2. EmissionOf(c)'
    BY <1>2, <1>8, <1>10 DEF EmissionOf, Idle
  <2>3. EmissionOf(n)'
    BY <1>2, <1>10 DEF EmissionOf, Idle
  <2>4. \A o \in Relays \ Stack' : Idle(o)'
    BY <1>2, <1>3 DEF EmissionInv, Idle
  <2> QED
    BY <1>3, <2>1, <2>2, <2>3, <2>4 DEF EmissionInv
<1>15. RelayInv'
  <2>1. RelayOf(n)'
    BY <1>2, <1>3, <1>4 DEF RelayOf
  <2>2. ASSUME NEW s \in Relays, s # n PROVE RelayOf(s)'
    <3>1. RelayOf(s) /\ s \in Levels /\ s \in Subs /\ Untouched(s)
      BY <1>6, <2>2, Whereabouts DEF RelayInv, Subs
    <3>2. events'[s] = events[s] /\ terminal'[s] = terminal[s]
      BY <1>5, <2>2, <3>1
    <3> QED
      BY <1>2, <1>3, <2>2, <3>1, <3>2 DEF RelayOf, Untouched, Idle
  <2> QED
    BY <2>1, <2>2 DEF RelayInv
<1>16. ReaderInv'
  BY <1>1, <1>6, ReadersAssumption DEF ReaderInv, Untouched, Subs
<1>17. DeliveryInv'
  <2>1. DeliveryOf(n)'
    <3>1. PendingFor(n)' = <<>>
      BY <1>1, <1>2, <1>10 DEF PendingFor, Idle, JobOf
    <3>2. held'[n] = <<>>
      BY <1>2, <1>8
    <3>3. <<>> \in Seq(Stamps) /\ <<>> \o <<>> = <<>>
      BY ConcatEmptySeq
    <3> QED
      BY <1>1, <1>4, <3>1, <3>2, <3>3 DEF DeliveryOf, JobOf
  <2>2. ASSUME NEW s \in Subs, s # n, Attached(s)' PROVE DeliveryOf(s)'
    <3>1. Attached(s) /\ DeliveryOf(s) /\ JobOf(s) \in Stack /\ Untouched(s)
      BY <1>6, <1>11, <2>2 DEF DeliveryInv, Attached
    <3>2. PendingFor(s)' = PendingFor(s)
      <4>1. CASE JobOf(s) = c
        BY <1>2, <1>8, <1>10, <4>1 DEF PendingFor, Idle, JobOf
      <4>2. CASE JobOf(s) # c
        BY <1>2, <1>10, <3>1, <4>2 DEF PendingFor, JobOf
      <4> QED
        BY <4>1, <4>2
    <3>3. events'[JobOf(s)] = events[JobOf(s)] /\ terminal'[JobOf(s)] = terminal[JobOf(s)]
      BY <1>1, <1>5, <3>1
    <3> QED
      BY <3>1, <3>2, <3>3 DEF DeliveryOf, Untouched, JobOf
  <2> QED
    BY <2>1, <2>2 DEF DeliveryInv
<1>18. NumberInv'
  <2>1. PICK base \in [Levels -> Nat] : base[1] = 0 /\ \A l \in Stack : NumberedAt(base, l)
    BY DEF NumberInv
  <2>2. PICK next \in [Levels -> Nat] :
          next[1] = 0 /\ next[n] = stamp /\ stamp \in Nat /\ (\A l \in Stack : next[l] = base[l])
    <3>1. [base EXCEPT ![n] = stamp] \in [Levels -> Nat] /\ stamp \in Nat /\ 1 \in Stack
      BY <2>1, Whereabouts DEF StreamTypeOK
    <3>2. /\ [base EXCEPT ![n] = stamp][n] = stamp
          /\ \A l \in Stack : [base EXCEPT ![n] = stamp][l] = base[l]
      BY <1>1, <2>1
    <3> QED
      BY <2>1, <3>1, <3>2
  <2>3. NumberedAt(next, n)'
    <3>1. Steps(n)' = 0
      BY <1>4 DEF Steps
    <3> QED
      BY <1>2, <1>4, <2>2, <3>1 DEF NumberedAt
  <2>4. NumberedAt(next, c)'
    <3>1. Relayed(n)' = 0
      BY <1>4 DEF Relayed
    <3>2. Steps(c)' = Steps(c) /\ events'[c] = events[c] /\ terminal'[c] = terminal[c]
      BY <1>1, <1>5 DEF Steps
    <3>3. next[c] + Steps(c) = stamp /\ NumberedAt(base, c) /\ next[c] = base[c]
      BY <1>1, <2>1, <2>2 DEF NumberedAt
    <3>4. next[c] + Steps(c)' = next[c + 1] + Relayed(c + 1)'
      BY <1>1, <2>2, <3>1, <3>2, <3>3
    <3> QED
      BY <1>1, <1>2, <3>2, <3>3, <3>4 DEF NumberedAt
  <2>5. ASSUME NEW l \in Stack, l # c PROVE NumberedAt(next, l)'
    <3>1. NumberedAt(base, l) /\ events'[l] = events[l] /\ terminal'[l] = terminal[l] /\ l # n
      BY <1>1, <1>5, <2>1, <2>5
    <3>2. l + 1 \in Stack /\ l + 1 \in Relays /\ l + 1 # n
      BY <1>1, <2>5, Whereabouts
    <3>3. Relayed(l + 1)' = Relayed(l + 1)
      BY <1>1, <1>5, <1>6, <3>2 DEF Relayed, Untouched, Subs
    <3> QED
      BY <1>1, <1>2, <2>2, <2>5, <3>1, <3>2, <3>3 DEF NumberedAt, Steps
  <2>6. \A l \in Stack' : NumberedAt(next, l)'
    BY <1>3, <2>3, <2>4, <2>5
  <2> QED
    BY <2>2, <2>6 DEF NumberInv
<1> QED
  BY <1>7, <1>9, <1>13, <1>14, <1>15, <1>16, <1>17, <1>18

(* A relay that was told the end has relayed everything.                    *)
LEMMA RelayedAll ==
  ASSUME StreamIInv, NEW s \in Relays, s \in Stack, reader[s] = "told"
  PROVE  /\ Idle(s) /\ ~forwarding[s] /\ held[s] = <<>>
         /\ terminal[s] /\ got[s] = events[s]
<1>1. JobOf(s) = s /\ s \in Subs /\ Attached(s)
  BY Whereabouts DEF Attached, Subs, StreamIInv
<1>2. Idle(s) /\ ~forwarding[s]
  BY <1>1 DEF StreamIInv, DeliveryInv, DeliveryOf, RelayInv, RelayOf
<1> QED
  BY <1>1, <1>2, SeenAll

(* So the caller goes on with a job that shows every step taken.            *)
LEMMA ReturnStep ==
  ASSUME StreamIInv, Return
  PROVE  StreamIInv'
<1> USE DEF StreamIInv
<1>1. /\ events' = events /\ terminal' = terminal /\ subs' = subs /\ queue' = queue
      /\ held' = held /\ forwarding' = forwarding /\ reader' = reader /\ got' = got
      /\ emit' = emit /\ stamp' = stamp /\ calls' = calls /\ panicked' = panicked
      /\ at = "awaiting" /\ Idle(Main)
  BY DEF Return, jobs, frontends
<1>2. CASE level = 1 /\ at' = "returned" /\ UNCHANGED <<closed, done, level>>
  <2>1. StreamTypeOK'
    BY <1>1, <1>2 DEF StreamTypeOK
  <2>2. JobInv'
    BY <1>1, <1>2 DEF JobInv, Stack
  <2>3. AudienceInv'
    BY <1>1, <1>2 DEF AudienceInv, Audience, Attached, JobOf, Stack
  <2>4. EmissionInv'
    BY <1>1, <1>2 DEF EmissionInv, EmissionOf, EmitterOf, Reachable, JobOf, Stack, Idle
  <2>5. RelayInv'
    BY <1>1, <1>2 DEF RelayInv, RelayOf, Stack, Idle
  <2>6. ReaderInv'
    BY <1>1, <1>2 DEF ReaderInv
  <2>7. DeliveryInv'
    BY <1>1, <1>2 DEF DeliveryInv, DeliveryOf, Attached, PendingFor, EmitterOf, JobOf, Stack
  <2>8. \A s \in Relays : Relayed(s)' = Relayed(s)
    BY <1>1 DEF Relayed
  <2>9. NumberInv'
    BY <1>1, <1>2, <2>8, NumbersKept
  <2> QED
    BY <2>1, <2>2, <2>3, <2>4, <2>5, <2>6, <2>7, <2>9
<1>3. CASE level > 1 /\ at' = "running" /\ level' = level - 1 /\ Abandon(level)
  <2>0. PICK s, l0 : s = level /\ l0 = level - 1
    OBVIOUS
  <2>1. /\ s = level /\ s \in Nat /\ s # 1 /\ s \in Relays /\ s \in Stack /\ s \in Subs /\ s \in Levels
        /\ s \in Emitters /\ JobOf(s) = s /\ reader[s] = "told" /\ l0 \in Stack /\ l0 # s
        /\ l0 + 1 = s /\ level' = l0 /\ l0 \in Levels /\ Stack \subseteq Levels
    <3>1. level \in Nat /\ level > 1 /\ level <= Depth /\ Depth \in Nat
      BY <1>3, BoundsAssumption DEF StreamTypeOK, Levels
    <3>2. /\ s \in Nat /\ s # 1 /\ s \in Relays /\ s \in Stack /\ s \in Levels
          /\ l0 \in Stack /\ l0 # s /\ l0 + 1 = s /\ l0 \in Levels /\ Stack \subseteq Levels
      BY <2>0, <3>1 DEF Levels, Relays, Stack
    <3>3. s \in Subs /\ s \in Emitters /\ JobOf(s) = s
      BY <3>2, Whereabouts DEF Subs, Emitters
    <3>4. reader[s] = "told" /\ level' = l0
      BY <1>3, <2>0, <3>2 DEF Return, Drained
    <3> QED
      BY <2>0, <3>2, <3>3, <3>4
  <2>2. Stack' = Stack \ {s}
    BY <1>3, <2>1 DEF Stack
  <2>3. \A o \in Subs \ {s} : Untouched(o)
    BY <1>1, <1>3, <2>1 DEF Abandon, Untouched, StreamTypeOK
  <2>4. Idle(s) /\ ~forwarding[s] /\ held[s] = <<>> /\ terminal[s] /\ got[s] = events[s]
    BY <2>1, RelayedAll
  <2>5. StreamTypeOK'
    BY <1>1, <1>3, <2>1 DEF StreamTypeOK, Abandon
  <2>6. JobInv'
    BY <1>1, <1>3, <2>1, <2>2 DEF JobInv
  <2>7. /\ \A l \in Stack' \ {l0} : EmitterOf(l)' = EmitterOf(l)
        /\ EmitterOf(l0)' = Main /\ EmitterOf(l0) = s
    BY <1>3, <2>1, <2>2 DEF EmitterOf, Stack
  <2>8. \A o \in Subs : JobOf(o) # s => Attached(o)' = Attached(o)
    BY <1>1, <2>2 DEF Attached, JobOf
  <2>9. \A l \in Stack' : Audience(l)' = Audience(l) /\ Reachable(l)' = Reachable(l)
    BY <1>1, <2>2, <2>8 DEF Audience, Reachable, JobOf
  <2>10. AudienceInv'
    BY <1>1, <2>2, <2>9 DEF AudienceInv
  <2>11. EmissionInv'
    <3>1. ASSUME NEW l \in Stack', l # l0 PROVE EmissionOf(l)'
      BY <1>1, <2>2, <2>7, <2>9, <3>1 DEF EmissionInv, EmissionOf
    <3>2. EmissionOf(l0)'
      BY <1>1, <2>7 DEF EmissionOf, Idle
    <3>3. \A o \in Relays \ Stack' : Idle(o)'
      BY <1>1, <2>2, <2>4 DEF EmissionInv, Idle
    <3> QED
      BY <3>1, <3>2, <3>3 DEF EmissionInv
  <2>12. RelayInv'
    <3>1. RelayOf(s)'
      BY <1>1, <2>1, <2>2, <2>4 DEF RelayOf, Idle
    <3>2. ASSUME NEW o \in Relays, o # s PROVE RelayOf(o)'
      BY <1>1, <2>2, <3>2 DEF RelayInv, RelayOf, Idle
    <3> QED
      BY <3>1, <3>2 DEF RelayInv
  <2>13. ReaderInv'
    BY <1>1 DEF ReaderInv
  <2>14. DeliveryInv'
    <3> SUFFICES ASSUME NEW o \in Subs, Attached(o)'
                 PROVE  DeliveryOf(o)'
      BY DEF DeliveryInv
    <3>1. JobOf(o) \in Stack /\ JobOf(o) # s /\ o # s /\ JobOf(o) \in Stack'
      BY <2>1, <2>2 DEF Attached, JobOf
    <3>2. DeliveryOf(o) /\ Untouched(o)
      BY <2>3, <2>8, <3>1 DEF DeliveryInv
    <3>3. PendingFor(o)' = PendingFor(o)
      <4>1. CASE JobOf(o) = l0
        BY <1>1, <2>4, <2>7, <4>1 DEF PendingFor, Idle, JobOf
      <4>2. CASE JobOf(o) # l0
        BY <1>1, <2>7, <3>1, <4>2 DEF PendingFor, JobOf
      <4> QED
        BY <4>1, <4>2
    <3> QED
      BY <1>1, <3>2, <3>3 DEF DeliveryOf, Untouched, JobOf
  <2>15. NumberInv'
    <3>1. PICK base \in [Levels -> Nat] : base[1] = 0 /\ \A l \in Stack : NumberedAt(base, l)
      BY DEF NumberInv
    <3>2. \A o \in Relays : Relayed(o)' = Relayed(o)
      BY <1>1 DEF Relayed
    <3>3. ASSUME NEW l \in Stack', l # l0 PROVE NumberedAt(base, l)'
      <4>1. NumberedAt(base, l) /\ l # level /\ l + 1 \in Relays
        BY <2>2, <3>1, <2>1, <3>3, Whereabouts
      <4> QED
        BY <1>1, <2>1, <3>2, <3>3, <4>1 DEF NumberedAt, Steps
    <3>4. NumberedAt(base, l0)'
      <4>1. NumberedAt(base, l0) /\ NumberedAt(base, s)
        BY <2>1, <3>1
      <4>2. base[s] + Steps(s) = stamp /\ base[l0] + Steps(l0) = base[s] + Relayed(s)
        <5>1. base[s] + Steps(s) = stamp
          BY <2>1, <4>1 DEF NumberedAt
        <5>2. base[l0] + Steps(l0) = base[l0 + 1] + Relayed(l0 + 1)
          BY <2>1, <4>1 DEF NumberedAt
        <5> QED
          BY <2>1, <5>1, <5>2
      <4>3. Relayed(s) = Steps(s)
        BY <2>1, <2>4 DEF Relayed, Steps
      <4>4. base[l0] + Steps(l0) = stamp
        BY <4>2, <4>3
      <4> QED
        BY <1>1, <2>1, <4>1, <4>4 DEF NumberedAt, Steps
    <3>5. \A l \in Stack' : NumberedAt(base, l)'
      BY <3>3, <3>4
    <3> QED
      BY <3>1, <3>5 DEF NumberInv
  <2> QED
    BY <2>5, <2>6, <2>10, <2>11, <2>12, <2>13, <2>14, <2>15
<1> QED
  BY <1>2, <1>3 DEF Return

-----------------------------------------------------------------------------
(* The invariant holds when only the CLI has subscribed.                    *)
LEMMA StreamInitially ==
  ASSUME StreamInit
  PROVE  StreamIInv
<1>1. /\ level = 1 /\ 1 \in Levels /\ Stack = {1} /\ EmitterOf(1) = Main /\ Cli \in Subs
      /\ at = "running" /\ stamp = 0 /\ ~panicked /\ JobOf(Cli) = 1
  BY BoundsAssumption, CliAssumption
     DEF StreamInit, Levels, Stack, EmitterOf, Subs, JobOf
<1>2. /\ \A l \in Levels : events[l] = <<>> /\ terminal[l] = FALSE
      /\ \A s \in Subs : /\ queue[s] = <<>> /\ held[s] = <<>> /\ got[s] = <<>>
                         /\ closed[s] = FALSE /\ done[s] = FALSE
                         /\ forwarding[s] = (s = Cli)
                         /\ reader[s] = IF s = Cli THEN "reading" ELSE "away"
      /\ \A e \in Emitters : Idle(e)
      /\ subs[1] = {Cli}
  BY <1>1 DEF StreamInit, NoEmission, Idle
<1>3. StreamTypeOK
  <2>1. End \in Stamps /\ <<>> \in Seq(Stamps)
    BY BoundsAssumption DEF End, Stamps
  <2>2. emit \in [Emitters -> [ev : Stamps, left : SUBSET Subs, closing : SUBSET Subs]]
    BY <2>1 DEF StreamInit, NoEmission
  <2>3. subs \in [Levels -> SUBSET Subs]
    BY <1>1 DEF StreamInit
  <2>4. /\ events \in [Levels -> Seq(Stamps)] /\ queue \in [Subs -> Seq(Stamps)]
        /\ held \in [Subs -> Seq(Stamps)] /\ got \in [Subs -> Seq(Stamps)]
    BY <2>1 DEF StreamInit
  <2>5. /\ terminal \in [Levels -> BOOLEAN] /\ closed \in [Subs -> BOOLEAN]
        /\ done \in [Subs -> BOOLEAN] /\ forwarding \in [Subs -> BOOLEAN]
    BY DEF StreamInit
  <2>6. reader \in [Subs -> {"away", "reading", "relaying", "told", "leaving", "left"}]
    BY DEF StreamInit
  <2>7. level \in Levels /\ at = "running" /\ stamp \in Nat /\ calls \in Nat
    BY <1>1 DEF StreamInit
  <2>8. panicked \in BOOLEAN
    BY DEF StreamInit
  <2> QED
    BY <2>2, <2>3, <2>4, <2>5, <2>6, <2>7, <2>8 DEF StreamTypeOK
<1>4. Main \in Emitters /\ Relays \subseteq Subs /\ Relays \subseteq Emitters /\ Cli \notin Relays
  BY CliAssumption, ReadersAssumption DEF Emitters, Subs
<1>5. \A s \in Subs : Attached(s) = (s = Cli)
  BY <1>1, <1>2 DEF Attached
<1>6. JobInv
  BY <1>1, <1>2 DEF JobInv
<1>7. AudienceInv
  BY <1>1, <1>2, <1>5 DEF AudienceInv, Audience
<1>8. EmissionInv
  BY <1>1, <1>2, <1>4 DEF EmissionInv, EmissionOf, Idle
<1>9. RelayInv
  <2>1. \A s \in Relays : s \notin Stack
    BY <1>1, BoundsAssumption DEF Relays
  <2> QED
    BY <1>2, <1>4, <2>1 DEF RelayInv, RelayOf
<1>10. ReaderInv
  BY <1>2 DEF ReaderInv, Subs
<1>11. DeliveryInv
  <2>1. PendingFor(Cli) = <<>>
    BY <1>1, <1>2, <1>4 DEF PendingFor, Idle
  <2>2. <<>> \in Seq(Stamps) /\ <<>> \o <<>> = <<>>
    BY ConcatEmptySeq
  <2>3. DeliveryOf(Cli)
    BY <1>1, <1>2, <2>1, <2>2 DEF DeliveryOf
  <2> QED
    BY <1>5, <2>3 DEF DeliveryInv
<1>12. NumberInv
  <2>1. PICK base \in [Levels -> Nat] : base[1] = 0
    <3>1. [l \in Levels |-> 0] \in [Levels -> Nat] /\ [l \in Levels |-> 0][1] = 0
      BY <1>1
    <3> QED
      BY <3>1
  <2>2. Steps(1) = 0
    BY <1>1, <1>2 DEF Steps
  <2>3. NumberedAt(base, 1)
    BY <1>1, <1>2, <2>1, <2>2 DEF NumberedAt
  <2> QED
    BY <1>1, <2>1, <2>3 DEF NumberInv
<1> QED
  BY <1>3, <1>6, <1>7, <1>8, <1>9, <1>10, <1>11, <1>12 DEF StreamIInv

(* Every step keeps it.                                                     *)
LEMMA StreamStep ==
  ASSUME StreamIInv, [StreamNext]_streamVars
  PROVE  StreamIInv'
<1>1. CASE EmitStep
  BY <1>1, EmitStepStep
<1>2. CASE \E e \in Emitters, s \in Subs : Push(e, s) \/ Close(e, s)
  BY <1>2, PushStep, CloseStep
<1>3. CASE \E s \in Subs : Take(s) \/ Deliver(s) \/ Exit(s) \/ SeeEnd(s)
  BY <1>3, TakeStep, DeliverStep, ExitStep, SeeEndStep
<1>4. CASE \E r \in Readers : AttachClient(r) \/ Cancel(r) \/ Leave(r)
  BY <1>4, AttachClientStep, CancelStep, LeaveStep
<1>5. CASE \E s \in Relays : Relay(s)
  BY <1>5, RelayStep
<1>6. CASE Call \/ Finish \/ Return
  BY <1>6, CallStep, FinishStep, ReturnStep
<1>7. CASE UNCHANGED streamVars
  <2>1. UNCHANGED <<events, terminal, subs, queue, closed, done, held, forwarding,
                    reader, got, emit, level, at, stamp, calls, panicked>>
    BY <1>7 DEF streamVars, jobs, subscriptions, frontends, operation
  <2>2. StreamTypeOK' /\ JobInv' /\ ReaderInv'
    BY <2>1 DEF StreamIInv, StreamTypeOK, JobInv, ReaderInv, Stack
  <2>3. AudienceInv' /\ EmissionInv'
    BY <2>1 DEF StreamIInv, AudienceInv, EmissionInv, EmissionOf, EmitterOf, Reachable, Audience,
                Attached, Stack, Idle, JobOf
  <2>4. RelayInv'
    BY <2>1 DEF StreamIInv, RelayInv, RelayOf, Stack, Idle
  <2>5. DeliveryInv'
    BY <2>1 DEF StreamIInv, DeliveryInv, DeliveryOf, Attached, PendingFor, EmitterOf, JobOf, Stack
  <2>6. NumberInv'
    BY <2>1, NumbersKept DEF StreamIInv, Relayed
  <2> QED
    BY <2>2, <2>3, <2>4, <2>5, <2>6 DEF StreamIInv
<1> QED
  BY <1>1, <1>2, <1>3, <1>4, <1>5, <1>6, <1>7 DEF StreamNext

(* The inductive invariant of the event stream holds throughout.            *)
THEOREM StreamIInvCorrect == StreamSpec => []StreamIInv
<1>1. StreamInit => StreamIInv
  BY StreamInitially
<1>2. StreamIInv /\ [StreamNext]_streamVars => StreamIInv'
  BY StreamStep
<1> QED
  BY <1>1, <1>2, PTL DEF StreamSpec

(* Every variable of the event stream keeps to its type.                    *)
THEOREM StreamTypeCorrect == StreamSpec => []StreamTypeOK
<1>1. StreamIInv => StreamTypeOK
  BY DEF StreamIInv
<1> QED
  BY <1>1, StreamIInvCorrect, PTL

(* Emit never panics: no goroutine emits on a job that has ended, and no    *)
(* relay outlives the operation whose events it relays.                     *)
THEOREM NoEmitAfterEndCorrect == StreamSpec => []NoEmitAfterEnd
<1>1. StreamIInv => NoEmitAfterEnd
  BY DEF StreamIInv, JobInv, NoEmitAfterEnd
<1> QED
  BY <1>1, StreamIInvCorrect, PTL

(* The outermost job shows the steps from the first, and End when it ended. *)
LEMMA OutermostLog ==
  ASSUME StreamIInv
  PROVE  /\ \A i \in 1..Steps(1) : events[1][i] = i
         /\ terminal[1] => events[1] # <<>> /\ events[1][Len(events[1])] = End
         /\ terminal[1] => Steps(1) = stamp
         /\ events[1] \in Seq(Stamps) /\ Len(events[1]) \in Nat
<1>1. PICK base \in [Levels -> Nat] : base[1] = 0 /\ \A l \in Stack : NumberedAt(base, l)
  BY DEF StreamIInv, NumberInv
<1>2. 1 \in Stack /\ 1 \in Levels
  BY Whereabouts DEF StreamIInv
<1>3. NumberedAt(base, 1) /\ (terminal[1] => level = 1)
  BY <1>1, <1>2 DEF StreamIInv, JobInv
<1>4. events[1] \in Seq(Stamps) /\ Len(events[1]) \in Nat
  BY <1>2, LenProperties DEF StreamIInv, StreamTypeOK
<1>5. 0 + Steps(1) = Steps(1)
  BY <1>4 DEF Steps
<1>6. \A i \in 1..Steps(1) : 0 + i = i
  BY <1>4 DEF Steps
<1> QED
  BY <1>1, <1>3, <1>4, <1>5, <1>6 DEF NumberedAt

(* CORE-002: whatever the depth of the calls, the outermost job shows the   *)
(* steps in the order they were taken and, when it has ended, all of them.  *)
THEOREM RelayedInOrderCorrect == StreamSpec => []RelayedInOrder
<1>1. ASSUME StreamIInv PROVE RelayedInOrder
  <2>1. PICK n \in Nat : n = Len(events[1])
    BY <1>1, OutermostLog
  <2>2. Steps(1) = IF terminal[1] THEN n - 1 ELSE n
    BY <2>1 DEF Steps
  <2>3. \A i \in 1..n : events[1][i] = i \/ (i = n /\ events[1][i] = End)
    <3>1. ASSUME NEW i \in 1..n, i \notin 1..Steps(1) PROVE i = n /\ terminal[1]
      BY <2>1, <2>2, <3>1
    <3> QED
      BY <1>1, <2>1, <3>1, OutermostLog
  <2>4. terminal[1] => n = stamp + 1
    BY <1>1, <2>1, <2>2, OutermostLog
  <2> QED
    BY <2>1, <2>3, <2>4 DEF RelayedInOrder
<1> QED
  BY <1>1, StreamIInvCorrect, PTL

-----------------------------------------------------------------------------
(* What a frontend is promised: a step of the stream is one of EventLog's, *)
(* or changes nothing a frontend sees.                                     *)
Shown(r) == IF reader[r] = "leaving" THEN "left" ELSE reader[r]

(* A step that changes nothing a frontend sees is a stutter.                *)
LEMMA Hidden ==
  ASSUME events'[1] = events[1],
         \A r \in Readers : got'[r] = got[r] /\ Shown(r)' = Shown(r)
  PROVE  UNCHANGED Promised!logVars
<1>1. [r \in Readers |-> got[r]]' = [r \in Readers |-> got[r]]
  OBVIOUS
<1>2. [r \in Readers |-> IF reader[r] = "leaving" THEN "left" ELSE reader[r]]'
        = [r \in Readers |-> IF reader[r] = "leaving" THEN "left" ELSE reader[r]]
  BY DEF Shown
<1> QED
  BY <1>1, <1>2 DEF Promised!logVars

(* The promised log is over exactly when the job is terminal.               *)
LEMMA NotOver ==
  ASSUME StreamIInv
  PROVE  Promised!Over <=> terminal[1]
<1>1. CASE terminal[1]
  BY <1>1, OutermostLog DEF Promised!Over
<1>2. CASE ~terminal[1]
  <2>1. PICK n \in Nat : n = Len(events[1])
    BY OutermostLog
  <2>2. \A i \in 1..n : events[1][i] = i
    BY <1>2, <2>1, OutermostLog DEF Steps
  <2>3. events[1] # <<>> => n >= 1
    BY <2>1, OutermostLog
  <2>4. events[1] # <<>> => events[1][n] # End
    BY <2>2, <2>3 DEF End
  <2> QED
    BY <1>2, <2>1, <2>4 DEF Promised!Over
<1> QED
  BY <1>1, <1>2

(* An emission is a Report on the outermost job, hidden on a private one.   *)
LEMMA EmitReports ==
  ASSUME StreamIInv, NEW e, NEW l \in Stack, NEW ev, Emits(e, l, ev)
  PROVE  [Promised!LogNext]_Promised!logVars
<1>1. Extended(e, l, ev)
  BY EmitEffect
<1>2. \A r \in Readers : reader'[r] = reader[r] /\ got'[r] = got[r]
  BY <1>1, Whereabouts DEF Emits, Extended, StreamIInv, ReaderInv
<1>3. CASE l # 1
  <2>1. events'[1] = events[1]
    BY <1>1, <1>3, Whereabouts DEF Extended, StreamIInv
  <2> QED
    BY <1>2, <2>1, Hidden DEF Shown
<1>4. CASE l = 1
  <2>1. ev \in 1..MaxEvents \union {End}
    BY BoundsAssumption DEF Emits, Stamps, End
  <2>2. ~Promised!Over
    BY <1>4, NotOver DEF Emits
  <2>3. events'[1] = Append(events[1], ev)
    BY <1>1, <1>4 DEF Extended
  <2>4. /\ [r \in Readers |-> got[r]]' = [r \in Readers |-> got[r]]
        /\ [r \in Readers |-> IF reader[r] = "leaving" THEN "left" ELSE reader[r]]'
             = [r \in Readers |-> IF reader[r] = "leaving" THEN "left" ELSE reader[r]]
    BY <1>2
  <2>5. Promised!Report(ev)
    BY <2>2, <2>3, <2>4 DEF Promised!Report
  <2> QED
    BY <2>1, <2>5 DEF Promised!LogNext
<1> QED
  BY <1>3, <1>4

(* A frontend that receives an event is shown the next one of the log.      *)
LEMMA DeliverShows ==
  ASSUME StreamIInv, NEW s \in Subs, Deliver(s)
  PROVE  [Promised!LogNext]_Promised!logVars
<1>1. events' = events /\ got' = [got EXCEPT ![s] = @ \o held[s]]
      /\ reader[s] = "reading" /\ held[s] # <<>>
  BY DEF Deliver, jobs
<1>2. \A r \in Readers : Shown(r)' = Shown(r)
  BY ReadersAssumption, Whereabouts DEF Deliver, Shown, StreamIInv, StreamTypeOK
<1>3. CASE s \notin Readers
  <2>1. \A r \in Readers : got'[r] = got[r]
    BY <1>1, <1>3, Whereabouts DEF StreamIInv, StreamTypeOK
  <2> QED
    BY <1>1, <1>2, <2>1, Hidden
<1>4. CASE s \in Readers
  <2>1. JobOf(s) = 1 /\ Attached(s)
    BY <1>1, <1>4, Whereabouts DEF Attached, StreamIInv
  <2>2. PICK ev \in Stamps, rest \in Seq(Stamps) :
          held[s] = <<ev>> /\ events[1] = got[s] \o <<ev>> \o rest
    BY <1>1, <2>1, NextInLine
  <2>3. got[s] \in Seq(Stamps)
    BY DEF StreamIInv, StreamTypeOK
  <2>4. events[1][Len(got[s]) + 1] = ev /\ Len(got[s]) + 1 <= Len(events[1])
    <3>1. /\ (got[s] \o <<ev>> \o rest)[Len(got[s]) + 1] = ev
          /\ Len(got[s]) + 1 <= Len(got[s] \o <<ev>> \o rest)
      BY <2>3, FirstOfRest, Zenon
    <3> QED
      BY <2>2, <3>1, Zenon
  <2>5. got[s] \o held[s] = Append(got[s], events[1][Len(got[s]) + 1])
    BY <2>2, <2>3, <2>4, PushedOn
  <2>6. Len(got[s]) < Len(events[1])
    BY <1>1, <2>3, <2>4, LenProperties, OutermostLog
  <2> DEFINE view == [r \in Readers |-> got[r]]
             shown == [r \in Readers |-> IF reader[r] = "leaving" THEN "left" ELSE reader[r]]
  <2>7. view' = [view EXCEPT ![s] = Append(@, events[1][Len(@) + 1])]
    <3>1. got'[s] = Append(got[s], events[1][Len(got[s]) + 1])
      BY <1>1, <2>5 DEF StreamIInv, StreamTypeOK
    <3>2. \A r \in Readers \ {s} : got'[r] = got[r]
      BY <1>1, Whereabouts DEF StreamIInv, StreamTypeOK
    <3> QED
      BY <1>4, <3>1, <3>2
  <2>8. shown' = shown
    BY <1>2 DEF Shown
  <2>9. shown[s] = "reading" /\ Len(view[s]) < Len(events[1])
    BY <1>1, <1>4, <2>6
  <2>10. Promised!Show(s)
    BY <1>1, <2>7, <2>8, <2>9 DEF Promised!Show
  <2> QED
    BY <1>4, <2>10 DEF Promised!LogNext
<1> QED
  BY <1>3, <1>4

(* It finds its channel closed only when it was shown all of the log.       *)
LEMMA SeeEndTells ==
  ASSUME StreamIInv, NEW s \in Subs, SeeEnd(s)
  PROVE  [Promised!LogNext]_Promised!logVars
<1>1. /\ events' = events /\ got' = got /\ reader' = [reader EXCEPT ![s] = "told"]
      /\ reader[s] = "reading" /\ ~forwarding[s]
  BY DEF SeeEnd, jobs
<1>2. CASE s \notin Readers
  <2>1. \A r \in Readers : reader'[r] = reader[r]
    BY <1>1, <1>2, Whereabouts DEF StreamIInv, StreamTypeOK
  <2> QED
    BY <1>1, <2>1, Hidden DEF Shown
<1>3. CASE s \in Readers
  <2>1. JobOf(s) = 1 /\ Attached(s)
    BY <1>1, <1>3, Whereabouts DEF Attached, StreamIInv
  <2>2. terminal[1] /\ got[s] = events[1]
    BY <1>1, <2>1, SeenAll
  <2> DEFINE view == [r \in Readers |-> got[r]]
             shown == [r \in Readers |-> IF reader[r] = "leaving" THEN "left" ELSE reader[r]]
  <2>3. view' = view /\ view[s] = events[1] /\ shown[s] = "reading"
    BY <1>1, <1>3, <2>2
  <2>4. shown' = [shown EXCEPT ![s] = "told"]
    <3>1. reader'[s] = "told" /\ \A r \in Readers \ {s} : reader'[r] = reader[r]
      BY <1>1, Whereabouts DEF StreamIInv, StreamTypeOK
    <3> QED
      BY <1>3, <3>1
  <2>5. Promised!Tell(s)
    BY <1>1, <2>2, <2>3, <2>4, NotOver DEF Promised!Tell
  <2> QED
    BY <1>3, <2>5 DEF Promised!LogNext
<1> QED
  BY <1>2, <1>3

(* A client that subscribes begins with an empty view.                      *)
LEMMA AttachAttaches ==
  ASSUME StreamIInv, NEW s \in Readers, AttachClient(s)
  PROVE  [Promised!LogNext]_Promised!logVars
<1>1. /\ events' = events /\ got' = [got EXCEPT ![s] = <<>>]
      /\ reader' = [reader EXCEPT ![s] = "reading"] /\ reader[s] = "away" /\ got[s] = <<>>
  BY DEF AttachClient, Subscribe, StreamIInv, ReaderInv
<1> DEFINE view == [r \in Readers |-> got[r]]
           shown == [r \in Readers |-> IF reader[r] = "leaving" THEN "left" ELSE reader[r]]
<1>2. /\ reader'[s] = "reading" /\ got'[s] = got[s]
      /\ \A r \in Readers \ {s} : reader'[r] = reader[r] /\ got'[r] = got[r]
  BY <1>1, Whereabouts DEF StreamIInv, StreamTypeOK
<1>3. view' = view /\ shown' = [shown EXCEPT ![s] = "reading"] /\ shown[s] = "away"
  BY <1>1, <1>2
<1>4. Promised!Attach(s)
  BY <1>1, <1>3 DEF Promised!Attach
<1> QED
  BY <1>4 DEF Promised!LogNext

(* A client that disconnects departs with the first half of cancel.         *)
LEMMA CancelDeparts ==
  ASSUME StreamIInv, NEW s \in Readers, Cancel(s)
  PROVE  [Promised!LogNext]_Promised!logVars
<1>1. /\ events' = events /\ got' = got
      /\ reader' = [reader EXCEPT ![s] = "leaving"] /\ reader[s] = "reading"
  BY DEF Cancel
<1> DEFINE view == [r \in Readers |-> got[r]]
           shown == [r \in Readers |-> IF reader[r] = "leaving" THEN "left" ELSE reader[r]]
<1>2. reader'[s] = "leaving" /\ \A r \in Readers \ {s} : reader'[r] = reader[r]
  BY <1>1, Whereabouts DEF StreamIInv, StreamTypeOK
<1>3. view' = view /\ shown' = [shown EXCEPT ![s] = "left"] /\ shown[s] = "reading"
  BY <1>1, <1>2
<1>4. Promised!Depart(s)
  BY <1>1, <1>3 DEF Promised!Depart
<1> QED
  BY <1>4 DEF Promised!LogNext

(* What happens between Emit and a channel is none of a frontend's business. *)
LEMMA PushHidden ==
  ASSUME StreamIInv, NEW e \in Emitters, NEW s \in Subs,
         Push(e, s) \/ Close(e, s) \/ Take(s) \/ Exit(s)
  PROVE  UNCHANGED Promised!logVars
<1>1. events' = events /\ got' = got /\ reader' = reader
  BY DEF Push, Close, Take, Exit, jobs, frontends
<1> QED
  BY <1>1, Hidden DEF Shown

(* Nor is the second half of cancel.                                        *)
LEMMA LeaveHidden ==
  ASSUME StreamIInv, NEW s \in Readers, Leave(s)
  PROVE  UNCHANGED Promised!logVars
<1>1. events' = events /\ got' = got
      /\ reader' = [reader EXCEPT ![s] = "left"] /\ reader[s] = "leaving"
  BY DEF Leave, jobs
<1>2. \A r \in Readers : Shown(r)' = Shown(r)
  BY <1>1, Whereabouts DEF Shown, StreamIInv, StreamTypeOK
<1> QED
  BY <1>1, <1>2, Hidden

(* Nor is a private job.                                                    *)
LEMMA CallHidden ==
  ASSUME StreamIInv, Call
  PROVE  UNCHANGED Promised!logVars
<1>1. level + 1 \in Relays /\ level + 1 # 1
  BY BoundsAssumption DEF Call, StreamIInv, StreamTypeOK, Levels, Relays
<1>2. level + 1 \notin Readers /\ 1 \in Levels
  BY <1>1, ReadersAssumption, Whereabouts DEF StreamIInv
<1>3. events'[1] = events[1]
  BY <1>1, <1>2 DEF Call, StreamIInv, StreamTypeOK
<1>4. \A r \in Readers : got'[r] = got[r] /\ reader'[r] = reader[r]
  BY <1>2, Whereabouts DEF Call, StreamIInv, StreamTypeOK
<1> QED
  BY <1>3, <1>4, Hidden DEF Shown

(* Nor is its end.                                                          *)
LEMMA ReturnHidden ==
  ASSUME Return
  PROVE  UNCHANGED Promised!logVars
<1>1. events' = events /\ got' = got /\ reader' = reader
  BY DEF Return, jobs, frontends
<1> QED
  BY <1>1, Hidden DEF Shown

(* The operation and its relays only ever report.                           *)
LEMMA OperationReports ==
  ASSUME StreamIInv, (EmitStep \/ Finish) \/ (\E s \in Relays : Relay(s))
  PROVE  [Promised!LogNext]_Promised!logVars
<1>1. CASE EmitStep
  BY <1>1, StepEmits, EmitReports
<1>2. CASE Finish
  BY <1>2, FinishEmits, EmitReports
<1>3. CASE \E s \in Relays : Relay(s)
  <2>1. PICK s \in Relays : Relay(s)
    BY <1>3
  <2>2. PICK base \in [Levels -> Nat] : base[1] = 0 /\ \A l \in Stack : NumberedAt(base, l)
    BY DEF StreamIInv, NumberInv
  <2>3. s - 1 \in Stack /\ Emits(s, s - 1, got[s][Len(got[s])])
    BY <2>1, <2>2, RelayEmits
  <2> QED
    BY <2>3, EmitReports
<1> QED
  BY <1>1, <1>2, <1>3

(* Every step of the stream is a step of EventLog, or a stutter.            *)
LEMMA StreamPromised ==
  ASSUME StreamIInv, [StreamNext]_streamVars
  PROVE  [Promised!LogNext]_Promised!logVars
<1>1. CASE EmitStep \/ Finish \/ \E s \in Relays : Relay(s)
  BY <1>1, OperationReports
<1>2. CASE \E e \in Emitters, s \in Subs : Push(e, s) \/ Close(e, s)
  BY <1>2, PushHidden
<1>3. CASE \E s \in Subs : Take(s) \/ Exit(s)
  BY <1>3, PushHidden, Whereabouts DEF StreamIInv
<1>4. CASE \E s \in Subs : Deliver(s) \/ SeeEnd(s)
  BY <1>4, DeliverShows, SeeEndTells
<1>5. CASE \E r \in Readers : AttachClient(r) \/ Cancel(r) \/ Leave(r)
  BY <1>5, AttachAttaches, CancelDeparts, LeaveHidden
<1>6. CASE Call \/ Return
  BY <1>6, CallHidden, ReturnHidden
<1>7. CASE UNCHANGED streamVars
  <2>1. events' = events /\ got' = got /\ reader' = reader
    BY <1>7 DEF streamVars, jobs, frontends
  <2> QED
    BY <2>1, Hidden DEF Shown
<1> QED
  BY <1>1, <1>2, <1>3, <1>4, <1>5, <1>6, <1>7 DEF StreamNext

(* The event stream implements EventLog: a frontend is shown the log of the *)
(* outermost job from its first event, in order and without a gap, and told *)
(* it is over exactly when it has seen all of it.  (Safety; that it is      *)
(* shown and told in the end is left to the run.)                           *)
THEOREM StreamImplementsLog ==
  StreamSpec => Promised!LogInit /\ [][Promised!LogNext]_Promised!logVars
<1>1. StreamInit => Promised!LogInit
  <2> SUFFICES ASSUME StreamInit PROVE Promised!LogInit
    OBVIOUS
  <2>1. events[1] = <<>>
    BY StreamInitially, Whereabouts, BoundsAssumption DEF StreamInit, Levels
  <2>2. [r \in Readers |-> got[r]] = [r \in Readers |-> <<>>]
    BY DEF StreamInit, Subs
  <2>3. [r \in Readers |-> IF reader[r] = "leaving" THEN "left" ELSE reader[r]]
          \in [Readers -> {"away", "reading"}]
    BY DEF StreamInit, Subs
  <2> QED
    BY <2>1, <2>2, <2>3 DEF Promised!LogInit
<1>2. StreamIInv /\ [StreamNext]_streamVars => [Promised!LogNext]_Promised!logVars
  BY StreamPromised
<1> QED
  BY <1>1, <1>2, StreamIInvCorrect, PTL DEF StreamSpec

(* The CLI that was told the end stays so until the command returns.        *)
LEMMA ToldStays ==
  ASSUME StreamIInv, [StreamNext]_streamVars, reader[Cli] = "told", at' = "returned"
  PROVE  reader'[Cli] = "told"
<1>1. Cli \in Subs /\ Cli \notin Relays /\ reader \in [Subs -> {"away", "reading", "relaying", "told", "leaving", "left"}]
  BY CliAssumption, ReadersAssumption DEF Subs, StreamIInv, StreamTypeOK
<1>2. CASE EmitStep \/ Finish \/ Return \/ UNCHANGED streamVars
  BY <1>2 DEF EmitStep, Finish, Return, streamVars, frontends
<1>3. CASE \E e \in Emitters, s \in Subs : Push(e, s) \/ Close(e, s)
  BY <1>3 DEF Push, Close, frontends
<1>4. CASE \E s \in Subs : Take(s) \/ Exit(s)
  BY <1>4 DEF Take, Exit, frontends
<1>5. CASE \E s \in Subs : Deliver(s) \/ SeeEnd(s)
  BY <1>1, <1>5 DEF Deliver, SeeEnd
<1>6. CASE \E r \in Readers : AttachClient(r) \/ Cancel(r) \/ Leave(r)
  BY <1>1, <1>6 DEF AttachClient, Subscribe, Cancel, Leave
<1>7. CASE \E s \in Relays : Relay(s)
  BY <1>1, <1>7 DEF Relay
<1>8. CASE Call
  BY <1>8 DEF Call
<1> QED
  BY <1>2, <1>3, <1>4, <1>5, <1>6, <1>7, <1>8 DEF StreamNext

(* runJob waits for the CLI's frontend to be done.                          *)
LEMMA ReturnedTold ==
  ASSUME StreamIInv, [StreamNext]_streamVars, at = "returned" => reader[Cli] = "told"
  PROVE  at' = "returned" => reader'[Cli] = "told"
<1> SUFFICES ASSUME at' = "returned", at # "returned"
             PROVE  reader'[Cli] = "told"
  BY ToldStays
<1>1. CASE Return
  BY <1>1 DEF Return, Drained, frontends, StreamIInv
<1>2. CASE EmitStep \/ Finish \/ Call \/ UNCHANGED streamVars
  BY <1>2 DEF EmitStep, Finish, Call, streamVars, operation
<1>3. CASE \E e \in Emitters, s \in Subs : Push(e, s) \/ Close(e, s)
  BY <1>3 DEF Push, Close, operation
<1>4. CASE \E s \in Subs : Take(s) \/ Deliver(s) \/ Exit(s) \/ SeeEnd(s)
  BY <1>4 DEF Take, Exit, Deliver, SeeEnd, operation
<1>5. CASE \E r \in Readers : AttachClient(r) \/ Cancel(r) \/ Leave(r)
  BY <1>5 DEF AttachClient, Subscribe, Cancel, Leave, operation
<1>6. CASE \E s \in Relays : Relay(s)
  BY <1>6 DEF Relay, operation
<1> QED
  BY <1>1, <1>2, <1>3, <1>4, <1>5, <1>6 DEF StreamNext

(* runJobTo returns only when the CLI has printed the whole stream: the      *)
(* part of RunJobReturns that is a state's.                                 *)
THEOREM ReturnedPrintedAll == StreamSpec => [](at = "returned" => got[Cli] = events[1])
<1>1. StreamInit => (at = "returned" => reader[Cli] = "told")
  BY DEF StreamInit
<1>2. StreamIInv /\ [StreamNext]_streamVars /\ (at = "returned" => reader[Cli] = "told")
        => (at = "returned" => reader[Cli] = "told")'
  BY ReturnedTold
<1>3. ASSUME StreamIInv, at = "returned" => reader[Cli] = "told", at = "returned"
      PROVE  got[Cli] = events[1]
  <2>1. Cli \in Subs /\ JobOf(Cli) = 1 /\ Attached(Cli)
    BY <1>3, CliAssumption, Whereabouts DEF StreamIInv, Attached
  <2>2. ~forwarding[Cli]
    BY <1>3, <2>1 DEF StreamIInv, DeliveryInv, DeliveryOf
  <2> QED
    BY <1>3, <2>1, <2>2, SeenAll
<1> QED
  BY <1>1, <1>2, <1>3, StreamIInvCorrect, PTL DEF StreamSpec
=============================================================================
