------------------------------- MODULE Attach -------------------------------
(***************************************************************************)
(* Giving a running nameless instance a name in place (attach/attach.go),  *)
(* and the endpoint an instance is reached at.  The endpoint is said       *)
(* several times over: in the bundle (farrier.yaml and compose/), in       *)
(* app.ini and the Caddyfile on the host, in the definitions `docker       *)
(* compose` compares, and in the containers, which go on with the files    *)
(* they were started with (each is a bind mount of one file, replaced by   *)
(* rename).  deploy.Up carries it from the first to the last, one place at *)
(* a time; attach writes the bundle and then calls it.                     *)
(*                                                                         *)
(* One command at a time, each any number of times; any step may fail or   *)
(* be a command's last.  Module HostState has the deploy's records beside  *)
(* the state, Certificates the way the certificate takes to the host.      *)
(* Bounds: MaxIssued issuances, MaxEdits edits of the manifest.            *)
(***************************************************************************)
EXTENDS Integers, Sequences

CONSTANTS
  Addresses,   \* addresses an operator gives for a nameless instance
  Loopback,    \* those that name the machine they are evaluated on
  Domain,      \* the name to attach
  None,        \* no address, no file, no deployment
  WebPorts,    \* host ports an operator publishes the web endpoint on
  PublicPorts, \* ports they say clients connect to
  MaxIssued,   \* bound on issuances
  MaxEdits     \* bound on edits of farrier.yaml

ASSUME AddressAssumption ==
  Loopback \subseteq Addresses /\ Domain \notin Addresses /\ None \notin Addresses \union {Domain}
ASSUME PortAssumption ==
  WebPorts \union PublicPorts \subseteq {port \in Nat : 0 < port /\ port < 65536}
ASSUME BoundAssumption == MaxIssued \in Nat \ {0} /\ MaxEdits \in Nat

VARIABLES
  manifest,    \* farrier.yaml
  compose,     \* the rendering in compose/
  keystore,    \* the two halves of the certificate, by issuance
  issued,      \* issuances so far
  files,       \* the host's app.ini and Caddyfile
  running,     \* the containers
  cmd,         \* the command
  edits,       \* edits so far
  \* history
  deployed,    \* what the last deploy was of, unless one was begun since
  strayed      \* containers a restart gave a file they were not created with

bundle == <<manifest, compose, edits>>
history == <<deployed, strayed>>
vars == <<bundle, keystore, issued, files, running, cmd, history>>

-----------------------------------------------------------------------------
(* Ports: 0 is unset. *)
Unset == 0
NamedPort == 443      \* bundle.DefaultNamedWebPort, what https implies
NamelessPort == 8222  \* bundle.DefaultNamelessWebPort

Manifests ==
  [named : BOOLEAN, web : WebPorts \union {Unset, NamedPort},
   public : PublicPorts \union {Unset}, runner : BOOLEAN]

Named(m) == m.named

WebPortOrDefault(m) ==
  IF m.web # Unset THEN m.web ELSE IF Named(m) THEN NamedPort ELSE NamelessPort

PublicWebPortOrDefault(m) ==
  IF m.public # Unset THEN m.public ELSE WebPortOrDefault(m)

WebScheme(m) == IF Named(m) THEN "https" ELSE "http"

(* Of a named bundle on another port the operator says where clients go. *)
ValidateWebPorts(m) ==
  Named(m) /\ m.public = Unset => WebPortOrDefault(m) = NamedPort

(* A port that was only ever the nameless default is no choice to keep. *)
NamedWebPort(m) == IF m.web \in {Unset, NamelessPort} THEN NamedPort ELSE m.web

NamedManifest(m) == [m EXCEPT !.named = TRUE, !.web = NamedWebPort(m)]

HostOf(m, address) == IF Named(m) THEN Domain ELSE address

(* ROOT_URL, and the URL the runner is pointed at. *)
InstanceURL(m, address) ==
  [scheme |-> WebScheme(m), host |-> HostOf(m, address), port |-> PublicWebPortOrDefault(m)]

(* The site block of the Caddyfile. *)
SiteOf(m, address) == [scheme |-> WebScheme(m), host |-> HostOf(m, address)]

-----------------------------------------------------------------------------
Halves == {"cert", "key"}
Absent == 0
Empty == -1           \* left by os.WriteFile, which truncates and then writes
Serials == 1 .. MaxIssued

Renderings == {"nameless", "named", "missing"}

Services == {"forgejo", "caddy", "runner"}

NotStarted == [def |-> <<>>, read |-> None]

(* The definitions deploy.Up converges to.  Forgejo's carries a checksum   *)
(* of app.ini; Caddy's the host port and the container port it is mapped   *)
(* to, but nothing of the Caddyfile; the runner's the URL in its command.  *)
(* FARRIER_DOMAIN is in each, of the rendering.                            *)
DefinitionMutant(s, m, env, address) ==
  CASE s = "forgejo" -> <<env>>
    [] s = "caddy"   -> <<env, WebPortOrDefault(m), WebScheme(m)>>
    [] s = "runner"  -> IF m.runner THEN <<env, InstanceURL(m, address)>> ELSE <<>>

Definition(s, m, env, address) ==
  CASE s = "forgejo" -> <<env, InstanceURL(m, address)>>
    [] s = "caddy"   -> <<env, WebPortOrDefault(m), WebScheme(m)>>
    [] s = "runner"  -> IF m.runner THEN <<env, InstanceURL(m, address)>> ELSE <<>>

(* What a container reads of the host's files as it starts. *)
ReadBy(s) ==
  CASE s = "forgejo" -> files.ini
    [] s = "caddy"   -> files.site
    [] s = "runner"  -> None

-----------------------------------------------------------------------------
Steps == {"idle", "prove", "store-cert", "store-key", "clear-compose", "install-compose",
          "write-manifest", "configure-forge", "configure-web", "converge", "wait"}

Idle == [step |-> "idle", address |-> None, of |-> None, env |-> "missing"]

At(step) == cmd.step = step

Goto(step) == cmd' = [cmd EXCEPT !.step = step]

(* The order of attach: the certificate is kept before the name is         *)
(* written, and the name before the host is touched.                       *)
AfterProofMutant == "clear-compose"
AfterProof == "store-cert"
AfterInstallMutant == "configure-forge"
AfterInstall == "write-manifest"

Init ==
  /\ manifest \in {m \in Manifests : ~Named(m) /\ m.web # NamedPort}
  /\ edits = 0
  /\ compose = "nameless"
  /\ keystore = [h \in Halves |-> Absent]
  /\ issued = 0
  /\ files = [ini |-> None, site |-> None]
  /\ running = [s \in Services |-> NotStarted]
  /\ cmd = Idle
  /\ deployed = None /\ strayed = {}

-----------------------------------------------------------------------------
(* The operator edits the ports or the runner in farrier.yaml; an edit     *)
(* that Validate refuses stops every command until it is undone.           *)
Edit ==
  /\ At("idle")
  /\ edits < MaxEdits
  /\ edits' = edits + 1
  /\ \E m \in Manifests :
       /\ Named(m) = Named(manifest)
       /\ ValidateWebPorts(m)
       /\ manifest' = m
  /\ UNCHANGED <<compose, keystore, issued, files, running, cmd, history>>

(* A container restarts, with its host or by itself (unless-stopped), and  *)
(* reads the files again.                                                  *)
Restart(s) ==
  /\ running[s] # NotStarted
  /\ running' = [running EXCEPT ![s].read = ReadBy(s)]
  /\ strayed' = IF ReadBy(s) = running[s].read THEN strayed ELSE strayed \union {s}
  /\ UNCHANGED <<bundle, keystore, issued, files, cmd, deployed>>

(* bundle.Load. *)
Loads == compose # "missing" /\ ValidateWebPorts(manifest)

-----------------------------------------------------------------------------
(* serveAddress: a named bundle takes no address, a nameless one needs it. *)
ServeAddressMutant(m, address) == address # None

ServeAddress(m, address) == Named(m) <=> address = None

(* checkRunnerReachableAddress: inside a job container a loopback address  *)
(* is the container.                                                       *)
RunnerReaches(m, address) == m.runner => address \notin Loopback

BeginUp(address) ==
  /\ At("idle") /\ Loads
  /\ ServeAddress(manifest, address)
  /\ RunnerReaches(manifest, address)
  /\ cmd' = [step |-> "configure-forge", address |-> address, of |-> manifest, env |-> compose]
  /\ UNCHANGED <<bundle, keystore, issued, files, running, history>>

(* attach's validate.  refuseExistingCertificate takes a certificate it    *)
(* cannot read for one that is there.                                      *)
MayAttach ==
  /\ Loads /\ ~Named(manifest)
  /\ ValidateWebPorts(NamedManifest(manifest))
  /\ keystore["cert"] = Absent

BeginAttach ==
  /\ At("idle") /\ MayAttach
  /\ cmd' = [step |-> "prove", address |-> None, of |-> NamedManifest(manifest), env |-> "named"]
  /\ UNCHANGED <<bundle, keystore, issued, files, running, history>>

(* The exchange with the ACME server: its certificate is in memory only. *)
Prove ==
  /\ At("prove")
  /\ issued < MaxIssued
  /\ issued' = issued + 1
  /\ Goto(AfterProof)
  /\ UNCHANGED <<bundle, keystore, files, running, history>>

(* persistCertificate. *)
Store(half, step, next) ==
  /\ At(step)
  /\ keystore' = [keystore EXCEPT ![half] = issued]
  /\ Goto(next)
  /\ UNCHANGED <<bundle, issued, files, running, history>>

StoreCertificate == Store("cert", "store-cert", "store-key")
StorePrivateKey == Store("key", "store-key", "clear-compose")

(* Bundle.Save: compose/ goes, the staged rendering takes its place, and   *)
(* the manifest is replaced last.                                          *)
ClearCompose ==
  /\ At("clear-compose")
  /\ compose' = "missing"
  /\ Goto("install-compose")
  /\ UNCHANGED <<manifest, edits, keystore, issued, files, running, history>>

InstallCompose ==
  /\ At("install-compose")
  /\ compose' = cmd.env
  /\ Goto(AfterInstall)
  /\ UNCHANGED <<manifest, edits, keystore, issued, files, running, history>>

WriteManifest ==
  /\ At("write-manifest")
  /\ manifest' = cmd.of
  /\ Goto("configure-forge")
  /\ UNCHANGED <<compose, edits, keystore, issued, files, running, history>>

-----------------------------------------------------------------------------
(* deploy.Up from here on, of an up and of an attach. *)
ConfigureForge ==
  /\ At("configure-forge")
  /\ ServeAddress(cmd.of, cmd.address)
  /\ Named(cmd.of) => cmd.address = None   \* RenderAppINI
  /\ files' = [files EXCEPT !.ini = InstanceURL(cmd.of, cmd.address)]
  /\ Goto("configure-web")
  /\ deployed' = None
  /\ UNCHANGED <<bundle, keystore, issued, running, strayed>>

(* configureTLS needs the certificate and its key, configurePlainHTTP does *)
(* not.                                                                    *)
ConfigureWeb ==
  /\ At("configure-web")
  /\ Named(cmd.of) => \A h \in Halves : keystore[h] \in Serials
  /\ files' = [files EXCEPT !.site = SiteOf(cmd.of, cmd.address)]
  /\ Goto("converge")
  /\ UNCHANGED <<bundle, keystore, issued, running, history>>

(* `docker compose up -d --remove-orphans` recreates the services whose    *)
(* definition changed.                                                     *)
Wanted(s) == Definition(s, cmd.of, cmd.env, cmd.address)

Kept(s) == running[s].def = Wanted(s)

Recreated(s) ==
  IF Kept(s) THEN running[s]
  ELSE IF Wanted(s) = <<>> THEN NotStarted
  ELSE [def |-> Wanted(s), read |-> ReadBy(s)]

Converge ==
  /\ At("converge")
  /\ running' = [s \in Services |-> Recreated(s)]
  /\ strayed' = {s \in strayed : Kept(s)}
  /\ Goto("wait")
  /\ UNCHANGED <<bundle, keystore, issued, files, deployed>>

(* It may stop with some of them recreated. *)
ConvergeInPart ==
  /\ At("converge")
  /\ \E done \in SUBSET Services :
       /\ running' = [s \in Services |-> IF s \in done THEN Recreated(s) ELSE running[s]]
       /\ strayed' = {s \in strayed : s \in done => Kept(s)}
  /\ cmd' = Idle
  /\ UNCHANGED <<bundle, keystore, issued, files, deployed>>

(* waitForge, Bootstrap, RegisterRunner and the wait for Caddy. *)
Ready ==
  /\ At("wait")
  /\ deployed' = [of |-> cmd.of, address |-> cmd.address]
  /\ cmd' = Idle
  /\ UNCHANGED <<bundle, keystore, issued, files, running, strayed>>

(* A step fails, or the process ends.  A store may leave its file empty;   *)
(* compose/ may be gone with the step that clears it.                      *)
Stop ==
  /\ ~At("idle")
  /\ cmd' = Idle
  /\ \/ UNCHANGED keystore
     \/ At("store-cert") /\ keystore' = [keystore EXCEPT !["cert"] = Empty]
     \/ At("store-key") /\ keystore' = [keystore EXCEPT !["key"] = Empty]
  /\ UNCHANGED <<bundle, issued, files, running, history>>

-----------------------------------------------------------------------------
Fails == Stop \/ ConvergeInPart

Proceeds ==
  \/ Prove \/ StoreCertificate \/ StorePrivateKey
  \/ ClearCompose \/ InstallCompose \/ WriteManifest
  \/ ConfigureForge \/ ConfigureWeb \/ Converge \/ Ready

Next ==
  \/ Edit \/ \E s \in Services : Restart(s)
  \/ \E address \in Addresses \union {None} : BeginUp(address)
  \/ BeginAttach \/ Proceeds \/ Fails

Spec == Init /\ [][Next]_vars

(* Every step ends, in success or in failure; the operator of a named      *)
(* bundle repeats up, as attach's failure tells them to; and what made     *)
(* commands fail is at some time put right.                                *)
FairSpec ==
  /\ Spec
  /\ WF_vars(Proceeds) /\ WF_vars(BeginUp(None))
  /\ <>[][~Fails]_vars

-----------------------------------------------------------------------------
URLs ==
  [scheme : {"http", "https"}, host : Addresses \union {Domain},
   port : WebPorts \union PublicPorts \union {NamelessPort, NamedPort}]

Sites == [scheme : {"http", "https"}, host : Addresses \union {Domain}]

Definitions ==
  {<<>>} \union (Renderings \X URLs)
    \union (Renderings \X (WebPorts \union {NamelessPort, NamedPort}) \X {"http", "https"})

(* Type correctness of every variable. *)
TypeOK ==
  /\ manifest \in Manifests /\ edits \in 0 .. MaxEdits
  /\ compose \in Renderings
  /\ keystore \in [Halves -> Serials \union {Absent, Empty}]
  /\ issued \in 0 .. MaxIssued
  /\ files \in [ini : URLs \union {None}, site : Sites \union {None}]
  /\ running \in [Services -> [def : Definitions, read : URLs \union Sites \union {None}]]
  /\ cmd \in [step : Steps, address : Addresses \union {None},
              of : Manifests \union {None}, env : Renderings]
  /\ deployed \in [of : Manifests, address : Addresses \union {None}] \union {None}
  /\ strayed \subseteq Services

(* A bundle that has a name has the certificate of that name and its key,  *)
(* of one issuance, whatever was stopped: without them no up could finish  *)
(* what attach began.                                                      *)
NamedBundleHasPair ==
  Named(manifest) => keystore["cert"] = keystore["key"] /\ keystore["cert"] \in Serials

OfName(x) == x # None /\ x.host = Domain

(* The host says the name, in a file or in a container, only once the      *)
(* bundle on disk says it: an attach that stops sooner leaves the instance *)
(* at its address, one that stops later leaves a bundle up can converge.   *)
BundleNamedFirst ==
  OfName(files.ini) \/ OfName(files.site) \/ (\E s \in Services : OfName(running[s].read))
    => Named(manifest)

(* From the end of a deploy until the next begins, over every restart: the *)
(* runner uses the URL of what was deployed and Forgejo advertises it,     *)
(* unless it read another deploy's app.ini in a restart; Caddy's container *)
(* publishes that bundle's port and, if it has a name, answers for it; no  *)
(* runner is sent to a loopback address.                                   *)
DeployedIsServed ==
  deployed # None =>
    LET m == deployed.of
        url == InstanceURL(m, deployed.address) IN
    /\ "forgejo" \notin strayed => running["forgejo"].read = url
    /\ m.runner => running["runner"].def[2] = url /\ url.host \notin Loopback
    /\ ~m.runner => running["runner"] = NotStarted
    /\ running["caddy"].def[2] = WebPortOrDefault(m)
    /\ Named(m) => running["caddy"].read = SiteOf(m, None)

(* Once a bundle has its name, the instance comes to advertise it and to   *)
(* answer for it, whatever stopped (attach's failure: "re-run `up` against *)
(* it to finish converging the host").                                     *)
NameIsReached ==
  Named(manifest) ~> OfName(running["forgejo"].read) /\ OfName(running["caddy"].read)
=============================================================================
