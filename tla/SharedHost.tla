----------------------------- MODULE SharedHost -----------------------------
(***************************************************************************)
(* Deployments that share a Docker host.  Each has a directory of its own  *)
(* and is one Compose project; Compose finds the containers of a project   *)
(* by its name and by nothing else, so the name a command uses decides     *)
(* whose containers it recreates and removes.  The name is recorded in the *)
(* directory at its first converge (orchestrate/compose_command.go).       *)
(*                                                                         *)
(* Commands: `up` converges a directory, `restore` places a snapshot's     *)
(* state there first, `drill` does that and, on every way out, tears the   *)
(* deployment down (drill/drill.go, deploy/down.go).  Each step is a call  *)
(* to the host that may fail before or after its effect; the process that  *)
(* runs the command may die between any two.                               *)
(*                                                                         *)
(* Docker is external.  Container names are the same in every bundle       *)
(* (render.go), so of two deployments on a host one cannot boot.           *)
(*                                                                         *)
(* The operator gives every deployment a directory of its own, and runs    *)
(* one command at a time against a directory, as docs/operating.md asks;   *)
(* commands in different directories run at once.                          *)
(*                                                                         *)
(* Bounds: as many commands at one time as there are Commands, any number  *)
(* in a row; at most one cut; two domains (before and after `attach`).     *)
(* Networks and volumes go with their project and are left out.            *)
(***************************************************************************)
EXTENDS Integers, FiniteSets

CONSTANTS
  Dirs,         \* remote directories
  Live,         \* the one of the instance in use
  Services,     \* what a bundle may define: forgejo, caddy, runner
  Core,         \* those every bundle defines
  Commands,     \* commands that may run at one time
  Faults,       \* a subset of FaultKinds
  Legacy,       \* the project name every deployment once had
  None          \* no record, no container

(* What the environment may do: kill the farrier process; fail a call;     *)
(* cut a `rm -rf` of the directory, or the two halves of the install step; *)
(* and whether Live may have been deployed by a binary that kept no record.*)
FaultKinds == {"kill", "fail", "cut-remove", "cut-install", "legacy"}

ASSUME FaultsAssumption == Faults \subseteq FaultKinds
ASSUME LiveAssumption == Live \in Dirs
ASSUME CoreAssumption == Core \subseteq Services

Domains == {"nameless", "named"}

(* ProjectNameFor: a digest of the domain and the directory. *)
ProjectNameForMutant(d, domain) == <<Live, domain>>
ProjectNameFor(d, domain) == <<d, domain>>

Projects == {Legacy} \union (Dirs \X Domains)

ASSUME NamesAssumption == Legacy \notin Dirs \X Domains /\ None \notin Projects

VARIABLES
  domain,       \* of the bundle all these are deployments of
  defined,      \* the services it defines
  place,        \* what each directory holds
  containers,   \* by name, one for each service
  pc, cmd,
  cuts          \* history: which cut faults have happened

vars == <<domain, defined, place, containers, pc, cmd, cuts>>

Places == [record : Projects \union {None},   \* compose-project
           shipped : BOOLEAN,                 \* compose/
           state : BOOLEAN]                   \* state/, keys, app.ini

Nothing == [record |-> None, shipped |-> FALSE, state |-> FALSE]

Kinds == {"up", "restore", "drill"}

NoCommand == [kind |-> "up", dir |-> Live]

Deploying == {"configure", "pin", "install", "boot", "wait"}

(* "ended": an answer was given; a drill's says whether it left its target  *)
(* clean.  "dead": the process is gone.                                    *)
Ended == {"ended", "clean", "dirty", "dead"}

Phases == {"resolve", "place", "smoke", "down", "remove"} \union Deploying \union Ended

Active(c) == pc[c] \notin Ended

(* A command that has ended is forgotten. *)
Goto(c, phase) ==
  /\ pc' = [pc EXCEPT ![c] = phase]
  /\ cmd' = IF phase \in Ended THEN [cmd EXCEPT ![c] = NoCommand] ELSE cmd

(* What ComposeCommand resolves the project to, as the host is now. *)
ProjectOf(d) == IF place[d].record # None THEN place[d].record ELSE Legacy

ContainersOf(d) == {s \in Services : containers[s] # None /\ containers[s].dir = d}

InProject(p) == {s \in Services : containers[s] # None /\ containers[s].project = p}

Init ==
  /\ domain \in Domains
  /\ defined \in {S \in SUBSET Services : Core \subseteq S}
  /\ \/ /\ place = [d \in Dirs |-> Nothing]
        /\ containers = [s \in Services |-> None]
     \/ /\ "legacy" \in Faults
        /\ place = [d \in Dirs |-> IF d = Live
                      THEN [Nothing EXCEPT !.shipped = TRUE, !.state = TRUE] ELSE Nothing]
        /\ containers = [s \in Services |->
                           IF s \in defined THEN [project |-> Legacy, dir |-> Live] ELSE None]
  /\ pc = [c \in Commands |-> "ended"]
  /\ cmd = [c \in Commands |-> NoCommand]
  /\ cuts = {}

-----------------------------------------------------------------------------
(* Starting a command.  `up`: no other command runs against the directory. *)
Start(c, kind, d) ==
  /\ ~Active(c)
  /\ \A o \in Commands : Active(o) => cmd[o].dir # d
  /\ kind = "drill" => d # Live
  /\ cmd' = [cmd EXCEPT ![c] = [kind |-> kind, dir |-> d]]
  /\ pc' = [pc EXCEPT ![c] = CASE kind = "up"      -> "configure"
                               [] kind = "restore" -> "place"
                               [] kind = "drill"   -> "resolve"]
  /\ UNCHANGED <<domain, defined, place, containers, cuts>>

(* A step that failed.  drill defers its teardown: every return after the  *)
(* options were validated goes through it.                                 *)
AfterFailureMutant(c) == "ended"
AfterFailure(c) ==
  CASE cmd[c].kind # "drill"           -> "ended"
    [] pc[c] \in {"down", "remove"}    -> "dirty"
    [] OTHER                           -> "down"

(* The call failed with nothing done; or the caller's context is cancelled.*)
Fail(c) ==
  /\ "fail" \in Faults
  /\ Active(c)
  /\ Goto(c, AfterFailure(c))
  /\ UNCHANGED <<domain, defined, place, containers, cuts>>

(* The farrier process dies, and its deferred calls with it. *)
Kill(c) ==
  /\ "kill" \in Faults
  /\ Active(c)
  /\ Goto(c, "dead")
  /\ UNCHANGED <<domain, defined, place, containers, cuts>>

(* A step whose effect took place: it is followed by `phase`, or by the    *)
(* way out when the answer was lost.                                       *)
Done(c, phase) ==
  \/ Goto(c, phase)
  \/ "fail" \in Faults /\ Goto(c, AfterFailure(c))

-----------------------------------------------------------------------------
(* The newest snapshot's name and age. *)
ResolveSnapshot(c) ==
  /\ pc[c] = "resolve"
  /\ Goto(c, "place")
  /\ UNCHANGED <<domain, defined, place, containers, cuts>>

(* restore.placeState: repositories and database, under state/. *)
PlaceState(c) ==
  /\ pc[c] = "place"
  /\ place' = [place EXCEPT ![cmd[c].dir].state = TRUE]
  /\ Done(c, "configure")
  /\ UNCHANGED <<domain, defined, containers, cuts>>

(* The steps of up before the converge: app.ini and keys.  A quarantined   *)
(* deployment of a nameless bundle is refused before any of them.          *)
Configure(c) ==
  /\ pc[c] = "configure"
  /\ IF cmd[c].kind = "drill" /\ domain = "nameless"
     THEN Goto(c, AfterFailure(c)) /\ UNCHANGED place
     ELSE /\ place' = [place EXCEPT ![cmd[c].dir].state = TRUE]
          /\ Done(c, "pin")
  /\ UNCHANGED <<domain, defined, containers, cuts>>

(* PinProjectName: a record that is there stays; a directory with shipped  *)
(* files and no record is an older binary's.                               *)
PinnedMutant(d) == IF place[d].record # None THEN place[d].record ELSE ProjectNameFor(d, domain)
Pinned(d) ==
  CASE place[d].record # None -> place[d].record
    [] place[d].record = None /\ place[d].shipped -> Legacy
    [] OTHER                  -> ProjectNameFor(d, domain)

(* Converge makes its staging directory and pins the name. *)
Pin(c) ==
  /\ pc[c] = "pin"
  /\ place' = [place EXCEPT ![cmd[c].dir].record = Pinned(cmd[c].dir)]
  /\ Done(c, "install")
  /\ UNCHANGED <<domain, defined, containers, cuts>>

(* The files are written to the staging directory, then                    *)
(* `rm -rf compose && mv compose.tmp compose`.                             *)
Install(c) ==
  LET d == cmd[c].dir IN
  /\ pc[c] = "install"
  /\ \/ /\ place' = [place EXCEPT ![d].shipped = TRUE]
        /\ Done(c, "boot")
        /\ UNCHANGED cuts
     \/ /\ "cut-install" \in Faults /\ cuts = {}
        /\ place' = [place EXCEPT ![d].shipped = FALSE]
        /\ cuts' = cuts \union {<<"install", d>>}
        /\ Goto(c, AfterFailure(c))
  /\ UNCHANGED <<domain, defined, containers>>

(* `docker compose up -d --remove-orphans`, external: containers of the    *)
(* project that the files no longer define go; the others are created or   *)
(* recreated, unless the name is taken by another project's.  A failure    *)
(* leaves any part of them.                                                *)
ComposeUp(c) ==
  LET d == cmd[c].dir
      p == ProjectOf(d)
      free == {s \in defined : containers[s] = None \/ containers[s].project = p}
  IN
  /\ pc[c] = "boot"
  /\ \E made \in SUBSET free :
       /\ made # defined => free # defined \/ "fail" \in Faults
       /\ containers' = [s \in Services |->
            IF s \in made THEN [project |-> p, dir |-> d]
            ELSE IF s \in InProject(p) \ defined THEN None
            ELSE containers[s]]
       /\ IF made = defined THEN Done(c, "wait") ELSE Goto(c, AfterFailure(c))
  /\ UNCHANGED <<domain, defined, place, cuts>>

(* The forge answers, and its admin account and runner are there. *)
Wait(c) ==
  /\ pc[c] = "wait"
  /\ Goto(c, IF cmd[c].kind = "drill" THEN "smoke" ELSE "ended")
  /\ UNCHANGED <<domain, defined, place, containers, cuts>>

(* The smoke job runs; the teardown follows whatever its verdict. *)
Smoke(c) ==
  /\ pc[c] = "smoke"
  /\ Goto(c, "down")
  /\ UNCHANGED <<domain, defined, place, containers, cuts>>

-----------------------------------------------------------------------------
(* Down: `docker compose down`, if compose files were ever shipped. *)
ComposeDown(c) ==
  LET d == cmd[c].dir
      mine == IF place[d].shipped THEN InProject(ProjectOf(d)) ELSE {}
  IN
  /\ pc[c] = "down"
  /\ \E gone \in SUBSET mine :
       /\ gone # mine => "fail" \in Faults
       /\ containers' = [s \in Services |-> IF s \in gone THEN None ELSE containers[s]]
       /\ IF gone = mine THEN Done(c, "remove") ELSE Goto(c, "dirty")
  /\ UNCHANGED <<domain, defined, place, cuts>>

(* `rm -rf` of the directory, in whatever order rm walks it. *)
RemovedMutant(d) == [place[d] EXCEPT !.shipped = FALSE, !.record = None]
Removed(d) == Nothing

RemoveDir(c) ==
  LET d == cmd[c].dir IN
  /\ pc[c] = "remove"
  /\ \/ /\ place' = [place EXCEPT ![d] = Removed(d)]
        /\ Done(c, "clean")
        /\ UNCHANGED cuts
     \/ /\ "cut-remove" \in Faults /\ cuts = {}
        /\ \E left \in Places :
             /\ left.record \in {None, place[d].record}
             /\ left.shipped => place[d].shipped
             /\ left.state => place[d].state
             /\ place' = [place EXCEPT ![d] = left]
        /\ cuts' = cuts \union {<<"remove", d>>}
        /\ Goto(c, "dirty")
  /\ UNCHANGED <<domain, defined, containers>>

-----------------------------------------------------------------------------
(* The bundle changes between commands: attach gives it a domain, the      *)
(* operator turns the runner on or off.                                    *)
Attach ==
  /\ domain = "nameless"
  /\ \A c \in Commands : ~Active(c)
  /\ domain' = "named"
  /\ UNCHANGED <<defined, place, containers, pc, cmd, cuts>>

Redefine(S) ==
  /\ Core \subseteq S
  /\ \A c \in Commands : ~Active(c)
  /\ defined' = S
  /\ UNCHANGED <<domain, place, containers, pc, cmd, cuts>>

Step(c) ==
  \/ ResolveSnapshot(c) \/ PlaceState(c) \/ Configure(c)
  \/ Pin(c) \/ Install(c) \/ ComposeUp(c) \/ Wait(c) \/ Smoke(c)
  \/ ComposeDown(c) \/ RemoveDir(c)

Next ==
  \/ \E c \in Commands :
       \/ \E kind \in Kinds, d \in Dirs : Start(c, kind, d)
       \/ Step(c)
       \/ Fail(c)
       \/ Kill(c)
  \/ Attach
  \/ \E S \in SUBSET Services : Redefine(S)

Spec == Init /\ [][Next]_vars

(* A command that runs goes on: every call has a deadline of its own. *)
FairSpec == Spec /\ \A c \in Commands : WF_vars(Step(c))

-----------------------------------------------------------------------------
TypeOK ==
  /\ domain \in Domains
  /\ defined \in SUBSET Services
  /\ place \in [Dirs -> Places]
  /\ containers \in [Services -> [project : Projects, dir : Dirs] \union {None}]
  /\ pc \in [Commands -> Phases]
  /\ cmd \in [Commands -> [kind : Kinds, dir : Dirs]]
  /\ cuts \subseteq {"install", "remove"} \X Dirs

(* A container is created, replaced or removed only by a command run       *)
(* against its own deployment's directory: a rehearsal next to the live    *)
(* instance never touches it, and an `up` there removes nothing of the     *)
(* rehearsal as an orphan.  Exempt are directories whose removal was cut:  *)
(* what is left of one may look like an older binary's.                    *)
DeploymentsApart ==
  [][\A s \in Services :
       containers[s] # None /\ containers'[s] # containers[s] =>
         \/ \E c \in Commands : Active(c) /\ cmd[c].dir = containers[s].dir
         \/ containers[s].project = Legacy /\ \E d \in Dirs : <<"remove", d>> \in cuts]_vars

(* Every container can be reached by the commands of its deployment: the   *)
(* project its directory resolves to is the one it was created in, over    *)
(* renames of the bundle, stops anywhere and hosts older than the record.  *)
Addressable ==
  \A s \in Services : containers[s] # None =>
    \/ containers[s].project = ProjectOf(containers[s].dir)
    \/ <<"install", containers[s].dir>> \in cuts

(* A drill that reports a clean target left none of its containers and     *)
(* none of its files there, those of earlier drills that died or failed    *)
(* included.  Exempt: a converge that lost the shipped files.              *)
CleanMeansGone ==
  [][\A c \in Commands : pc'[c] = "clean" /\ pc[c] # "clean" =>
       \/ place'[cmd[c].dir] = Nothing
            /\ \A s \in Services : containers'[s] # None => containers'[s].dir # cmd[c].dir
       \/ <<"install", cmd[c].dir>> \in cuts]_vars

(* A drill that has begun reaches its teardown and reports its outcome,    *)
(* whichever step failed, unless its process dies.                         *)
DrillsTearDown ==
  \A c \in Commands :
    (pc[c] = "place" /\ cmd[c].kind = "drill") ~> (pc[c] \in {"clean", "dirty", "dead"})
=============================================================================
