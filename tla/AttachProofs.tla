----------------------------- MODULE AttachProofs -----------------------------
(* Proofs about Attach, for any addresses, ports and bounds. *)
EXTENDS Attach, TLAPS

Storing == {"store-cert", "store-key"}
Saving == {"clear-compose", "install-compose", "write-manifest"}
Deploying == {"configure-forge", "configure-web", "converge", "wait"}

(* What a command is of, against the bundle on disk. *)
CommandInv ==
  /\ cmd.step \in {"prove"} \union Storing \union Saving =>
       ~Named(manifest) /\ Named(cmd.of) /\ cmd.of \in Manifests /\ cmd.address = None
  /\ cmd.step \in Deploying =>
       /\ cmd.of = manifest
       /\ ServeAddress(cmd.of, cmd.address) /\ RunnerReaches(cmd.of, cmd.address)

(* The certificate an attach keeps, and the one a named bundle has.        *)
PairInv ==
  /\ cmd.step \in Storing \union Saving => issued \in Serials
  /\ cmd.step = "store-key" => keystore["cert"] = issued
  /\ cmd.step \in Saving => keystore["cert"] = issued /\ keystore["key"] = issued
  /\ NamedBundleHasPair

(* How far a deploy has come on the host. *)
DeployInv ==
  /\ cmd.step \in {"configure-web", "converge", "wait"} =>
       files.ini = InstanceURL(cmd.of, cmd.address) /\ deployed = None
  /\ cmd.step \in {"converge", "wait"} => files.site = SiteOf(cmd.of, cmd.address)
  /\ cmd.step = "wait" => \A s \in Services : running[s].def = Wanted(s)

Ports == WebPorts \union {NamelessPort, NamedPort}
NamedSite == [scheme |-> "https", host |-> Domain]

(* A container against the files it was started with.                      *)
ContainerInv ==
  /\ \A s \in Services : running[s].def = <<>> => running[s] = NotStarted
  /\ \A env \in Renderings, url \in URLs :
       running["forgejo"].def = <<env, url>> /\ "forgejo" \notin strayed =>
         running["forgejo"].read = url
  /\ \A env \in Renderings, port \in Ports :
       running["caddy"].def = <<env, port, "https">> =>
         running["caddy"].read = NamedSite /\ files.site = NamedSite /\ Named(manifest)

(* What was deployed stays in the definitions until the next deploy. *)
ServedInv ==
  deployed # None =>
    /\ ServeAddress(deployed.of, deployed.address) /\ RunnerReaches(deployed.of, deployed.address)
    /\ \E env \in Renderings : \A s \in Services :
         running[s].def = Definition(s, deployed.of, env, deployed.address)

IInv == TypeOK /\ CommandInv /\ PairInv /\ BundleNamedFirst /\ DeployInv /\ ContainerInv /\ ServedInv

-----------------------------------------------------------------------------
(* The case split every step proof below starts from. *)
LEMMA NextCases ==
  ASSUME [Next]_vars
  PROVE  \/ Edit
         \/ \E s \in Services : Restart(s)
         \/ \E address \in Addresses \union {None} : BeginUp(address)
         \/ BeginAttach \/ Prove \/ StoreCertificate \/ StorePrivateKey
         \/ ClearCompose \/ InstallCompose \/ WriteManifest
         \/ ConfigureForge \/ ConfigureWeb \/ Converge \/ Ready \/ Stop \/ ConvergeInPart
         \/ UNCHANGED vars
BY DEF Next, Proceeds, Fails

LEMMA PortFacts ==
  ASSUME NEW m \in Manifests
  PROVE  /\ WebPortOrDefault(m) \in Ports
         /\ PublicWebPortOrDefault(m) \in WebPorts \union PublicPorts \union {NamelessPort, NamedPort}
         /\ WebScheme(m) \in {"http", "https"}
         /\ (WebScheme(m) = "https" <=> Named(m))
         /\ NamedManifest(m) \in Manifests /\ Named(NamedManifest(m))
<1>1. /\ m.named \in BOOLEAN /\ m.runner \in BOOLEAN
      /\ m.web \in WebPorts \union {Unset, NamedPort}
      /\ m.public \in PublicPorts \union {Unset}
  BY DEF Manifests
<1>4. WebPortOrDefault(m) \in Ports
  BY <1>1 DEF WebPortOrDefault, Ports
<1>5. PublicWebPortOrDefault(m) \in WebPorts \union PublicPorts \union {NamelessPort, NamedPort}
  BY <1>1, <1>4 DEF PublicWebPortOrDefault, Ports
<1>6. WebScheme(m) \in {"http", "https"} /\ (WebScheme(m) = "https" <=> Named(m))
  BY DEF WebScheme
<1>7. NamedManifest(m) \in Manifests /\ Named(NamedManifest(m))
  <2>1. NamedWebPort(m) \in WebPorts \union {Unset, NamedPort}
    BY <1>1 DEF NamedWebPort
  <2> QED
    BY <2>1 DEF NamedManifest, Named, Manifests
<1> QED
  BY <1>4, <1>5, <1>6, <1>7

(* What a deploy renders. *)
LEMMA RenderedTypes ==
  ASSUME NEW m \in Manifests, NEW address \in Addresses \union {None}, ServeAddress(m, address)
  PROVE  /\ InstanceURL(m, address) \in URLs /\ SiteOf(m, address) \in Sites
         /\ OfName(InstanceURL(m, address)) => Named(m)
         /\ OfName(SiteOf(m, address)) => Named(m)
         /\ Named(m) => SiteOf(m, address) = NamedSite /\ address = None
<1>1. HostOf(m, address) \in Addresses \union {Domain} /\ (HostOf(m, address) = Domain => Named(m))
  BY AddressAssumption DEF HostOf, ServeAddress
<1>2. InstanceURL(m, address) \in URLs /\ InstanceURL(m, address).host = HostOf(m, address)
  <2>1. /\ WebScheme(m) \in {"http", "https"}
        /\ PublicWebPortOrDefault(m) \in WebPorts \union PublicPorts \union {NamelessPort, NamedPort}
    BY PortFacts
  <2> QED
    BY <1>1, <2>1 DEF InstanceURL, URLs
<1>3. SiteOf(m, address) \in Sites /\ SiteOf(m, address).host = HostOf(m, address)
  BY <1>1, PortFacts DEF SiteOf, Sites
<1>4. Named(m) => SiteOf(m, address) = NamedSite /\ address = None
  <2>1. Named(m) => WebScheme(m) = "https"
    BY PortFacts
  <2> QED
    BY <2>1 DEF SiteOf, NamedSite, HostOf, ServeAddress
<1> QED
  BY <1>1, <1>2, <1>3, <1>4 DEF OfName

LEMMA DefinitionTypes ==
  ASSUME NEW m \in Manifests, NEW address \in Addresses \union {None}, ServeAddress(m, address),
         NEW env \in Renderings, NEW s \in Services
  PROVE  Definition(s, m, env, address) \in Definitions
<1>1. InstanceURL(m, address) \in URLs /\ WebPortOrDefault(m) \in Ports
      /\ WebScheme(m) \in {"http", "https"}
  BY RenderedTypes, PortFacts
<1>2. s = "forgejo" \/ s = "caddy" \/ s = "runner"
  BY DEF Services
<1>3. CASE s = "forgejo"
  BY <1>1, <1>3 DEF Definition, Definitions
<1>4. CASE s = "caddy"
  BY <1>1, <1>4 DEF Definition, Definitions, Ports
<1>5. CASE s = "runner"
  BY <1>1, <1>5 DEF Definition, Definitions
<1> QED
  BY <1>2, <1>3, <1>4, <1>5

Containers == [def : Definitions, read : URLs \union Sites \union {None}]

LEMMA ReadTypes ==
  ASSUME TypeOK, NEW s \in Services
  PROVE  ReadBy(s) \in URLs \union Sites \union {None}
BY DEF TypeOK, ReadBy, Services

(* A container the converge recreates has the wanted definition and has    *)
(* read the files of the deploy.                                           *)
LEMMA RecreatedEffect ==
  ASSUME TypeOK, CommandInv, DeployInv, ContainerInv, cmd.step = "converge", NEW s \in Services
  PROVE  /\ Recreated(s) \in Containers
         /\ Recreated(s).def = Wanted(s)
         /\ Recreated(s).def = <<>> => Recreated(s) = NotStarted
         /\ ~Kept(s) /\ Wanted(s) # <<>> => Recreated(s).read = ReadBy(s)
         /\ Kept(s) => Recreated(s) = running[s]
         /\ OfName(Recreated(s).read) => OfName(running[s].read) \/ OfName(ReadBy(s))
<1>1. Wanted(s) \in Definitions /\ ReadBy(s) \in URLs \union Sites \union {None}
  <2>1. /\ cmd.of \in Manifests /\ cmd.address \in Addresses \union {None} /\ cmd.env \in Renderings
        /\ ServeAddress(cmd.of, cmd.address)
    BY DEF TypeOK, CommandInv, Deploying
  <2> QED
    BY <2>1, DefinitionTypes, ReadTypes DEF Wanted
<1>2. running[s] \in Containers /\ (running[s].def = <<>> => running[s] = NotStarted)
  BY DEF TypeOK, Containers, ContainerInv
<1>3. NotStarted \in Containers /\ NotStarted.def = <<>> /\ NotStarted.read = None
  BY DEF NotStarted, Containers, Definitions
<1>4. CASE Kept(s)
  BY <1>2, <1>4 DEF Recreated, Kept
<1>5. CASE ~Kept(s) /\ Wanted(s) = <<>>
  BY <1>3, <1>5 DEF Recreated, OfName
<1>6. CASE ~Kept(s) /\ Wanted(s) # <<>>
  BY <1>1, <1>6 DEF Recreated, Containers
<1> QED
  BY <1>4, <1>5, <1>6

-----------------------------------------------------------------------------
LEMMA GotoTypes ==
  ASSUME TypeOK, NEW step \in Steps, Goto(step)
  PROVE  /\ cmd' \in [step : Steps, address : Addresses \union {None},
                      of : Manifests \union {None}, env : Renderings]
         /\ cmd'.step = step /\ cmd'.address = cmd.address /\ cmd'.of = cmd.of /\ cmd'.env = cmd.env
BY DEF TypeOK, Goto

LEMMA IdleTypes ==
  /\ Idle \in [step : Steps, address : Addresses \union {None},
               of : Manifests \union {None}, env : Renderings]
  /\ Idle.step = "idle"
BY DEF Idle, Steps, Renderings

LEMMA TypeStep ==
  ASSUME TypeOK, CommandInv, PairInv, DeployInv, ContainerInv, [Next]_vars
  PROVE  TypeOK'
<1> USE DEF TypeOK, bundle, history, At
<1>1. CASE Edit
  BY <1>1, BoundAssumption DEF Edit
<1>2. ASSUME NEW s \in Services, Restart(s) PROVE TypeOK'
  <2>1. [running[s] EXCEPT !.read = ReadBy(s)] \in [def : Definitions, read : URLs \union Sites \union {None}]
    BY ReadTypes
  <2>2. running' \in [Services -> [def : Definitions, read : URLs \union Sites \union {None}]]
    BY <1>2, <2>1 DEF Restart
  <2> QED
    BY <1>2, <2>2 DEF Restart
<1>3. ASSUME NEW address \in Addresses \union {None}, BeginUp(address) PROVE TypeOK'
  BY <1>3 DEF BeginUp, Steps
<1>4. CASE BeginAttach
  BY <1>4, PortFacts DEF BeginAttach, Steps, Renderings
<1>5. CASE Prove
  BY <1>5, GotoTypes, BoundAssumption DEF Prove, AfterProof, Steps
<1>6. CASE StoreCertificate \/ StorePrivateKey
  BY <1>6, GotoTypes DEF StoreCertificate, StorePrivateKey, Store, Steps, PairInv, Storing, Halves
<1>7. CASE ClearCompose \/ InstallCompose
  BY <1>7, GotoTypes DEF ClearCompose, InstallCompose, AfterInstall, Steps, Renderings
<1>8. CASE WriteManifest
  BY <1>8, GotoTypes DEF WriteManifest, Steps, CommandInv, Saving
<1>9. CASE ConfigureForge
  <2>1. InstanceURL(cmd.of, cmd.address) \in URLs
    BY <1>9, RenderedTypes DEF ConfigureForge, CommandInv, Deploying
  <2> QED
    BY <1>9, <2>1, GotoTypes DEF ConfigureForge, Steps
<1>10. CASE ConfigureWeb
  <2>1. SiteOf(cmd.of, cmd.address) \in Sites
    BY <1>10, RenderedTypes DEF ConfigureWeb, CommandInv, Deploying
  <2> QED
    BY <1>10, <2>1, GotoTypes DEF ConfigureWeb, Steps
<1>11. CASE Converge
  <2>1. running' \in [Services -> [def : Definitions, read : URLs \union Sites \union {None}]]
    BY <1>11, RecreatedEffect DEF Converge, Containers
  <2> QED
    BY <1>11, <2>1, GotoTypes DEF Converge, Steps
<1>12. CASE ConvergeInPart
  <2>1. running' \in [Services -> [def : Definitions, read : URLs \union Sites \union {None}]]
    BY <1>12, RecreatedEffect DEF ConvergeInPart, Containers
  <2> QED
    BY <1>12, <2>1, IdleTypes DEF ConvergeInPart
<1>13. CASE Ready
  BY <1>13, IdleTypes DEF Ready, CommandInv, Deploying
<1>14. CASE Stop
  BY <1>14, IdleTypes DEF Stop, Halves
<1>15. CASE UNCHANGED vars
  BY <1>15 DEF vars
<1> QED
  BY NextCases, <1>1, <1>2, <1>3, <1>4, <1>5, <1>6, <1>7, <1>8, <1>9, <1>10, <1>11, <1>12, <1>13,
     <1>14, <1>15

LEMMA CommandStep ==
  ASSUME TypeOK, CommandInv, [Next]_vars
  PROVE  CommandInv'
<1> USE DEF CommandInv, bundle, At, Storing, Saving, Deploying
<1>1. CASE Edit
  BY <1>1 DEF Edit
<1>2. CASE (\E s \in Services : Restart(s)) \/ UNCHANGED vars
  BY <1>2 DEF Restart, vars
<1>3. CASE \E address \in Addresses \union {None} : BeginUp(address)
  BY <1>3 DEF BeginUp
<1>4. CASE BeginAttach
  BY <1>4, PortFacts DEF BeginAttach, MayAttach, TypeOK
<1>5. CASE Prove \/ StoreCertificate \/ StorePrivateKey \/ ClearCompose \/ InstallCompose
  BY <1>5, GotoTypes
     DEF Prove, AfterProof, StoreCertificate, StorePrivateKey, Store, ClearCompose, InstallCompose,
         AfterInstall, Steps
<1>6. CASE WriteManifest
  <2>1. ServeAddress(cmd.of, None) /\ RunnerReaches(cmd.of, None)
    BY <1>6, AddressAssumption DEF WriteManifest, ServeAddress, RunnerReaches
  <2> QED
    BY <1>6, <2>1, GotoTypes DEF WriteManifest, Steps
<1>7. CASE ConfigureForge \/ ConfigureWeb \/ Converge
  BY <1>7, GotoTypes DEF ConfigureForge, ConfigureWeb, Converge, Steps
<1>8. CASE Ready \/ Stop \/ ConvergeInPart
  BY <1>8, IdleTypes DEF Ready, Stop, ConvergeInPart
<1> QED
  BY NextCases, <1>1, <1>2, <1>3, <1>4, <1>5, <1>6, <1>7, <1>8

(* The pair is whole before the name is written, and stays.                *)
LEMMA PairStep ==
  ASSUME TypeOK, CommandInv, PairInv, [Next]_vars
  PROVE  PairInv'
<1> USE DEF PairInv, NamedBundleHasPair, bundle, At, Storing, Saving
<1>1. CASE Edit
  BY <1>1 DEF Edit
<1>2. CASE (\E s \in Services : Restart(s)) \/ UNCHANGED vars
  BY <1>2 DEF Restart, vars
<1>3. CASE (\E address \in Addresses \union {None} : BeginUp(address)) \/ BeginAttach
  BY <1>3 DEF BeginUp, BeginAttach
<1>4. CASE Prove
  <2>1. issued + 1 \in Serials
    BY <1>4, BoundAssumption DEF Prove, TypeOK, Serials
  <2> QED
    BY <1>4, <2>1, GotoTypes DEF Prove, AfterProof, Steps, CommandInv
<1>5. CASE StoreCertificate
  <2>1. keystore'["cert"] = issued
    BY <1>5 DEF StoreCertificate, Store, TypeOK, Halves
  <2> QED
    BY <1>5, <2>1, GotoTypes DEF StoreCertificate, Store, Steps, CommandInv
<1>6. CASE StorePrivateKey
  <2>1. keystore'["key"] = issued /\ keystore'["cert"] = keystore["cert"]
    BY <1>6 DEF StorePrivateKey, Store, TypeOK, Halves
  <2> QED
    BY <1>6, <2>1, GotoTypes DEF StorePrivateKey, Store, Steps, CommandInv
<1>7. CASE ClearCompose \/ InstallCompose \/ WriteManifest
  BY <1>7, GotoTypes DEF ClearCompose, InstallCompose, WriteManifest, AfterInstall, Steps
<1>8. CASE ConfigureForge \/ ConfigureWeb \/ Converge
  BY <1>8, GotoTypes DEF ConfigureForge, ConfigureWeb, Converge, Steps
<1>9. CASE Ready \/ ConvergeInPart
  BY <1>9, IdleTypes DEF Ready, ConvergeInPart
<1>10. CASE Stop
  BY <1>10, IdleTypes DEF Stop, CommandInv
<1> QED
  BY NextCases, <1>1, <1>2, <1>3, <1>4, <1>5, <1>6, <1>7, <1>8, <1>9, <1>10

(* The bundle on disk says the name before anything on the host does. *)
LEMMA NamedFirstStep ==
  ASSUME TypeOK, CommandInv, DeployInv, ContainerInv, BundleNamedFirst, [Next]_vars
  PROVE  BundleNamedFirst'
<1> USE DEF BundleNamedFirst, OfName, bundle, At
<1>1. CASE Named(manifest)
  <2>1. Named(manifest')
    BY <1>1, NextCases DEF CommandInv, Saving, Edit, Restart, BeginUp, BeginAttach, Prove,
       StoreCertificate, StorePrivateKey, Store, ClearCompose, InstallCompose, WriteManifest,
       ConfigureForge, ConfigureWeb, Converge, Ready, Stop, ConvergeInPart, vars
  <2> QED
    BY <2>1
<1>2. CASE ~Named(manifest)
  <2>1. ASSUME NEW s \in Services
        PROVE  ~OfName(ReadBy(s))
    BY <1>2, <2>1 DEF ReadBy, Services
  <2>2. CASE UNCHANGED <<files, running>>
    <3>1. ~OfName(files.ini) /\ ~OfName(files.site) /\ \A s \in Services : ~OfName(running[s].read)
      BY <1>2
    <3> QED
      BY <2>2, <3>1
  <2>3. ASSUME NEW s \in Services, Restart(s) PROVE BundleNamedFirst'
    <3>1. \A t \in Services : running'[t].read = running[t].read \/ running'[t].read = ReadBy(t)
      BY <2>3 DEF Restart, TypeOK
    <3> QED
      BY <1>2, <2>1, <2>3, <3>1 DEF Restart
  <2>4. CASE ConfigureForge \/ ConfigureWeb
    <3>1. /\ cmd.of \in Manifests /\ ~Named(cmd.of) /\ ServeAddress(cmd.of, cmd.address)
          /\ cmd.address \in Addresses \union {None}
      BY <1>2, <2>4 DEF ConfigureForge, ConfigureWeb, CommandInv, Deploying, TypeOK
    <3>2. ~OfName(InstanceURL(cmd.of, cmd.address)) /\ ~OfName(SiteOf(cmd.of, cmd.address))
      BY <3>1, RenderedTypes
    <3>3. /\ files'.ini = files.ini \/ files'.ini = InstanceURL(cmd.of, cmd.address)
          /\ files'.site = files.site \/ files'.site = SiteOf(cmd.of, cmd.address)
      BY <2>4 DEF ConfigureForge, ConfigureWeb, TypeOK
    <3> QED
      BY <1>2, <2>4, <3>2, <3>3 DEF ConfigureForge, ConfigureWeb
  <2>5. CASE Converge \/ ConvergeInPart
    <3>1. \A s \in Services : running'[s] = running[s] \/ running'[s] = Recreated(s)
      BY <2>5 DEF Converge, ConvergeInPart
    <3>2. \A s \in Services : ~OfName(Recreated(s).read)
      BY <1>2, <2>1, <2>5, RecreatedEffect DEF Converge, ConvergeInPart
    <3> QED
      BY <1>2, <2>5, <3>1, <3>2 DEF Converge, ConvergeInPart
  <2> QED
    BY <2>2, <2>3, <2>4, <2>5, NextCases DEF Edit, BeginUp, BeginAttach, Prove,
       StoreCertificate, StorePrivateKey, Store, ClearCompose, InstallCompose, WriteManifest,
       Ready, Stop, vars
<1> QED
  BY <1>1, <1>2

LEMMA DeployStep ==
  ASSUME TypeOK, CommandInv, DeployInv, ContainerInv, [Next]_vars
  PROVE  DeployInv'
<1> USE DEF DeployInv, bundle, history, At, Wanted
<1>1. CASE Edit \/ (\E address \in Addresses \union {None} : BeginUp(address)) \/ BeginAttach
  BY <1>1 DEF Edit, BeginUp, BeginAttach
<1>2. ASSUME NEW s \in Services, Restart(s) PROVE DeployInv'
  <2>1. \A t \in Services : running'[t].def = running[t].def
    BY <1>2 DEF Restart, TypeOK
  <2> QED
    BY <1>2, <2>1 DEF Restart
<1>3. CASE \/ Prove \/ StoreCertificate \/ StorePrivateKey \/ ClearCompose \/ InstallCompose
           \/ WriteManifest
  BY <1>3, GotoTypes
     DEF Prove, AfterProof, StoreCertificate, StorePrivateKey, Store, ClearCompose, InstallCompose,
         WriteManifest, AfterInstall, Steps
<1>4. CASE ConfigureForge
  <2>1. files'.ini = InstanceURL(cmd.of, cmd.address)
    BY <1>4 DEF ConfigureForge, TypeOK
  <2> QED
    BY <1>4, <2>1, GotoTypes DEF ConfigureForge, Steps
<1>5. CASE ConfigureWeb
  <2>1. files'.site = SiteOf(cmd.of, cmd.address) /\ files'.ini = files.ini
    BY <1>5 DEF ConfigureWeb, TypeOK
  <2> QED
    BY <1>5, <2>1, GotoTypes DEF ConfigureWeb, Steps
<1>6. CASE Converge
  <2>1. \A s \in Services : running'[s].def = Definition(s, cmd.of, cmd.env, cmd.address)
    BY <1>6, RecreatedEffect DEF Converge
  <2> QED
    BY <1>6, <2>1, GotoTypes DEF Converge, Steps
<1>7. CASE Ready \/ Stop \/ ConvergeInPart
  BY <1>7, IdleTypes DEF Ready, Stop, ConvergeInPart
<1>8. CASE UNCHANGED vars
  BY <1>8 DEF vars
<1> QED
  BY NextCases, <1>1, <1>2, <1>3, <1>4, <1>5, <1>6, <1>7, <1>8

-----------------------------------------------------------------------------
LEMMA Tuples ==
  /\ \A a, b : <<a, b>> # <<>>
  /\ \A a, b, c : <<a, b, c>> # <<>>
  /\ \A a, b, c, d : <<a, b>> = <<c, d>> => b = d
OBVIOUS

LEMMA DefinitionsOf ==
  ASSUME NEW m, NEW env, NEW address
  PROVE  /\ Definition("forgejo", m, env, address) = <<env, InstanceURL(m, address)>>
         /\ Definition("caddy", m, env, address) = <<env, WebPortOrDefault(m), WebScheme(m)>>
         /\ m.runner => Definition("runner", m, env, address) = <<env, InstanceURL(m, address)>>
         /\ ~m.runner => Definition("runner", m, env, address) = <<>>
BY DEF Definition

(* Forgejo's container has read the URL in its definition, or has strayed. *)
AdvertisesOwn ==
  \A env \in Renderings, url \in URLs :
    running["forgejo"].def = <<env, url>> /\ "forgejo" \notin strayed =>
      running["forgejo"].read = url

(* Caddy's, once created for the name, answers for the name. *)
AnswersForName ==
  \A env \in Renderings, port \in Ports :
    running["caddy"].def = <<env, port, "https">> =>
      running["caddy"].read = NamedSite /\ files.site = NamedSite /\ Named(manifest)

LEMMA NameKept ==
  ASSUME TypeOK, CommandInv, [Next]_vars, Named(manifest)
  PROVE  Named(manifest')
BY NextCases DEF CommandInv, Saving, Edit, Restart, BeginUp, BeginAttach, Prove,
   StoreCertificate, StorePrivateKey, Store, ClearCompose, InstallCompose, WriteManifest,
   ConfigureForge, ConfigureWeb, Converge, Ready, Stop, ConvergeInPart, vars, bundle, At

(* Steps of the bundle and the certificate store leave the host alone.     *)
LEMMA HostUntouched ==
  ASSUME \/ Edit \/ (\E address \in Addresses \union {None} : BeginUp(address)) \/ BeginAttach
         \/ Prove \/ StoreCertificate \/ StorePrivateKey \/ ClearCompose \/ InstallCompose
         \/ WriteManifest \/ Ready \/ Stop \/ UNCHANGED vars
  PROVE  UNCHANGED <<files, running, strayed>>
BY DEF Edit, BeginUp, BeginAttach, Prove, StoreCertificate, StorePrivateKey, Store, ClearCompose,
   InstallCompose, WriteManifest, Ready, Stop, vars, bundle, history

LEMMA ConvergeEffect ==
  ASSUME Converge \/ ConvergeInPart
  PROVE  /\ cmd.step = "converge" /\ UNCHANGED <<bundle, files, deployed>>
         /\ \A s \in Services :
              \/ running'[s] = running[s] /\ (s \in strayed' <=> s \in strayed)
              \/ running'[s] = Recreated(s) /\ (s \in strayed' <=> s \in strayed /\ Kept(s))
BY DEF Converge, ConvergeInPart, At

LEMMA ContainerStep ==
  ASSUME TypeOK, CommandInv, DeployInv, ContainerInv, [Next]_vars
  PROVE  ContainerInv'
<1>1. \A s \in Services : running'[s].def = <<>> => running'[s] = NotStarted
  <2>1. \A s \in Services : running[s].def = <<>> => running[s] = NotStarted
    BY DEF ContainerInv
  <2>2. CASE UNCHANGED running
    BY <2>1, <2>2
  <2>3. ASSUME NEW t \in Services, Restart(t), NEW s \in Services, running'[s].def = <<>>
        PROVE  running'[s] = NotStarted
    BY <2>1, <2>3 DEF Restart, TypeOK
  <2>4. CASE Converge \/ ConvergeInPart
    BY <2>1, <2>4, ConvergeEffect, RecreatedEffect
  <2> QED
    BY <2>2, <2>3, <2>4, NextCases, HostUntouched DEF ConfigureForge, ConfigureWeb
<1>2. AdvertisesOwn'
  <2> SUFFICES ASSUME NEW env \in Renderings, NEW url \in URLs,
                      running'["forgejo"].def = <<env, url>>, "forgejo" \notin strayed'
               PROVE  running'["forgejo"].read = url
    BY DEF AdvertisesOwn
  <2>1. /\ running["forgejo"].def = <<env, url>> /\ "forgejo" \notin strayed =>
             running["forgejo"].read = url
        /\ "forgejo" \in Services
    BY DEF ContainerInv, Services
  <2>2. CASE UNCHANGED <<running, strayed>>
    BY <2>1, <2>2
  <2>3. ASSUME NEW s \in Services, Restart(s) PROVE running'["forgejo"].read = url
    <3>1. running'["forgejo"].def = running["forgejo"].def
      BY <2>1, <2>3 DEF Restart, TypeOK
    <3>2. CASE s = "forgejo"
      <4>1. running'["forgejo"].read = ReadBy(s)
        BY <2>1, <2>3, <3>2 DEF Restart, TypeOK
      <4>2. ReadBy(s) = running["forgejo"].read /\ "forgejo" \notin strayed
        BY <2>3, <3>2 DEF Restart
      <4> QED
        BY <2>1, <3>1, <4>1, <4>2
    <3>3. CASE s # "forgejo"
      <4>1. running'["forgejo"] = running["forgejo"]
        BY <2>1, <2>3, <3>3 DEF Restart, TypeOK
      <4>2. "forgejo" \notin strayed
        BY <2>3, <3>3 DEF Restart
      <4> QED
        BY <2>1, <3>1, <4>1, <4>2
    <3> QED
      BY <3>2, <3>3
  <2>4. CASE Converge \/ ConvergeInPart
    <3>1. cmd.step = "converge" /\ files.ini = InstanceURL(cmd.of, cmd.address)
      BY <2>4, ConvergeEffect DEF DeployInv
    <3>2. Wanted("forgejo") = <<cmd.env, InstanceURL(cmd.of, cmd.address)>>
      BY DefinitionsOf DEF Wanted
    <3>3. CASE /\ running'["forgejo"] = running["forgejo"]
               /\ "forgejo" \in strayed' <=> "forgejo" \in strayed
      BY <2>1, <3>3
    <3>4. CASE Kept("forgejo") /\ running'["forgejo"] = Recreated("forgejo")
               /\ "forgejo" \notin strayed
      BY <2>1, <3>1, <3>4, RecreatedEffect
    <3>5. CASE ~Kept("forgejo") /\ running'["forgejo"] = Recreated("forgejo")
      <4>1. Recreated("forgejo").def = Wanted("forgejo")
        BY <2>1, <3>1, RecreatedEffect
      <4>2. url = InstanceURL(cmd.of, cmd.address) /\ Wanted("forgejo") # <<>>
        <5>1. <<env, url>> = <<cmd.env, InstanceURL(cmd.of, cmd.address)>>
          BY <3>2, <3>5, <4>1
        <5> QED
          BY <3>2, <5>1, Tuples
      <4>3. Recreated("forgejo").read = ReadBy("forgejo")
        BY <2>1, <3>1, <3>5, <4>2, RecreatedEffect
      <4> QED
        BY <3>1, <3>5, <4>2, <4>3 DEF ReadBy
    <3> QED
      BY <2>1, <2>4, <3>3, <3>4, <3>5, ConvergeEffect
  <2> QED
    BY <2>2, <2>3, <2>4, NextCases, HostUntouched DEF ConfigureForge, ConfigureWeb, history
<1>3. AnswersForName'
  <2> SUFFICES ASSUME NEW env \in Renderings, NEW port \in Ports,
                      running'["caddy"].def = <<env, port, "https">>
               PROVE  running'["caddy"].read = NamedSite /\ files'.site = NamedSite /\ Named(manifest')
    BY DEF AnswersForName
  <2>1. /\ running["caddy"].def = <<env, port, "https">> =>
             running["caddy"].read = NamedSite /\ files.site = NamedSite /\ Named(manifest)
        /\ "caddy" \in Services
    BY DEF ContainerInv, Services
  <2>2. CASE UNCHANGED <<running, files>>
    BY <2>1, <2>2, NameKept
  <2>3. ASSUME NEW s \in Services, Restart(s)
        PROVE  running'["caddy"].read = NamedSite /\ files'.site = NamedSite /\ Named(manifest')
    <3>1. /\ running'["caddy"].def = running["caddy"].def
          /\ running'["caddy"].read = running["caddy"].read \/ running'["caddy"].read = ReadBy("caddy")
      BY <2>1, <2>3 DEF Restart, TypeOK
    <3>2. ReadBy("caddy") = files.site
      BY DEF ReadBy
    <3> QED
      BY <2>1, <2>3, <3>1, <3>2, NameKept DEF Restart
  <2>4. CASE ConfigureForge \/ ConfigureWeb
    <3>1. UNCHANGED running
      BY <2>4 DEF ConfigureForge, ConfigureWeb
    <3>2. Named(cmd.of) => SiteOf(cmd.of, cmd.address) = NamedSite
      BY <2>4, RenderedTypes DEF ConfigureForge, ConfigureWeb, At, CommandInv, Deploying, TypeOK
    <3>3. files'.site = files.site \/ files'.site = SiteOf(cmd.of, cmd.address)
      BY <2>4 DEF ConfigureForge, ConfigureWeb, TypeOK
    <3>4. cmd.of = manifest
      BY <2>4 DEF ConfigureForge, ConfigureWeb, At, CommandInv, Deploying
    <3> QED
      BY <2>1, <3>1, <3>2, <3>3, <3>4, NameKept
  <2>5. CASE Converge \/ ConvergeInPart
    <3>1. /\ cmd.step = "converge" /\ files.site = SiteOf(cmd.of, cmd.address)
          /\ cmd.of = manifest /\ UNCHANGED <<files, manifest>>
      BY <2>5, ConvergeEffect DEF DeployInv, CommandInv, Deploying, bundle
    <3>2. Wanted("caddy") = <<cmd.env, WebPortOrDefault(cmd.of), WebScheme(cmd.of)>>
      BY DefinitionsOf DEF Wanted
    <3>3. CASE running'["caddy"] = running["caddy"]
      BY <2>1, <3>1, <3>3
    <3>4. CASE ~Kept("caddy") /\ running'["caddy"] = Recreated("caddy")
      <4>1. Recreated("caddy").def = Wanted("caddy")
        BY <2>1, <3>1, RecreatedEffect
      <4>2. WebScheme(cmd.of) = "https" /\ Wanted("caddy") # <<>>
        BY <3>2, <3>4, <4>1
      <4>3. Recreated("caddy").read = ReadBy("caddy")
        BY <2>1, <3>1, <3>4, <4>2, RecreatedEffect
      <4>4. Named(cmd.of) /\ SiteOf(cmd.of, cmd.address) = NamedSite
        BY <3>1, <4>2, PortFacts, RenderedTypes DEF CommandInv, Deploying, TypeOK
      <4> QED
        BY <3>1, <3>4, <4>3, <4>4 DEF ReadBy
    <3>5. CASE Kept("caddy") /\ running'["caddy"] = Recreated("caddy")
      BY <2>1, <3>1, <3>3, <3>5, RecreatedEffect
    <3> QED
      BY <2>1, <2>5, <3>3, <3>4, <3>5, ConvergeEffect
  <2> QED
    BY <2>2, <2>3, <2>4, <2>5, NextCases, HostUntouched
<1> QED
  BY <1>1, <1>2, <1>3 DEF ContainerInv, AdvertisesOwn, AnswersForName

LEMMA ServedStep ==
  ASSUME TypeOK, CommandInv, DeployInv, ContainerInv, ServedInv, [Next]_vars
  PROVE  ServedInv'
<1>1. CASE deployed' = deployed /\ \A s \in Services : running'[s].def = running[s].def
  BY <1>1 DEF ServedInv
<1>2. CASE Ready
  <2>1. deployed' = [of |-> cmd.of, address |-> cmd.address] /\ cmd.env \in Renderings
    BY <1>2 DEF Ready, TypeOK
  <2>2. ServeAddress(cmd.of, cmd.address) /\ RunnerReaches(cmd.of, cmd.address)
    BY <1>2 DEF Ready, At, CommandInv, Deploying
  <2>3. \A s \in Services : running'[s].def = Definition(s, cmd.of, cmd.env, cmd.address)
    BY <1>2 DEF Ready, At, DeployInv, Wanted
  <2> QED
    BY <2>1, <2>2, <2>3 DEF ServedInv
<1>3. CASE deployed' = None
  BY <1>3 DEF ServedInv
<1>4. CASE ConfigureForge \/ ConfigureWeb \/ Converge \/ ConvergeInPart
  BY <1>3, <1>4, ConvergeEffect DEF ConfigureForge, ConfigureWeb, At, DeployInv, history
<1>5. ASSUME NEW s \in Services, Restart(s) PROVE ServedInv'
  BY <1>1, <1>5 DEF Restart, TypeOK
<1>6. CASE \/ Edit \/ (\E address \in Addresses \union {None} : BeginUp(address)) \/ BeginAttach
           \/ Prove \/ StoreCertificate \/ StorePrivateKey \/ ClearCompose \/ InstallCompose
           \/ WriteManifest \/ Stop \/ UNCHANGED vars
  BY <1>1, <1>6 DEF Edit, BeginUp, BeginAttach, Prove, StoreCertificate, StorePrivateKey, Store,
     ClearCompose, InstallCompose, WriteManifest, Stop, vars, history
<1> QED
  BY <1>2, <1>4, <1>5, <1>6, NextCases

-----------------------------------------------------------------------------
LEMMA InitIInv == Init => IInv
<1> SUFFICES ASSUME Init PROVE IInv
  OBVIOUS
<1> USE DEF Init
<1>1. Idle.step = "idle"
  BY IdleTypes
<1>2. NotStarted \in Containers /\ NotStarted.def = <<>> /\ NotStarted.read = None
  BY DEF NotStarted, Containers, Definitions
<1>3. TypeOK
  BY <1>2, IdleTypes, BoundAssumption DEF TypeOK, Renderings, Containers, Halves
<1>4. CommandInv /\ PairInv /\ DeployInv
  BY <1>1 DEF CommandInv, PairInv, NamedBundleHasPair, DeployInv, Storing, Saving, Deploying
<1>5. BundleNamedFirst
  BY <1>2 DEF BundleNamedFirst, OfName
<1>6. \A s \in Services : running[s] = NotStarted
  OBVIOUS
<1>7. ContainerInv
  <2>1. running["forgejo"].def = <<>> /\ running["caddy"].def = <<>>
    BY <1>2, <1>6 DEF Services
  <2> QED
    BY <1>6, <2>1, Tuples DEF ContainerInv
<1>8. ServedInv
  BY DEF ServedInv
<1> QED
  BY <1>3, <1>4, <1>5, <1>7, <1>8 DEF IInv

LEMMA StepIInv == IInv /\ [Next]_vars => IInv'
BY TypeStep, CommandStep, PairStep, NamedFirstStep, DeployStep, ContainerStep, ServedStep DEF IInv

LEMMA IInvCorrect == Spec => []IInv
BY InitIInv, StepIInv, PTL DEF Spec

(* Every variable keeps its type. *)
THEOREM TypeCorrect == Spec => []TypeOK
BY IInvCorrect, PTL DEF IInv

(* attach.go keeps the certificate before it writes the name: whatever     *)
(* stops an attach, a bundle with a name has its certificate and its key.  *)
THEOREM NameNeedsPair == Spec => []NamedBundleHasPair
<1>1. IInv => NamedBundleHasPair
  BY DEF IInv, PairInv
<1> QED
  BY <1>1, IInvCorrect, PTL

(* Neither the host's files nor its containers say the name before the     *)
(* bundle on disk does.                                                    *)
THEOREM NameIsWrittenFirst == Spec => []BundleNamedFirst
BY IInvCorrect, PTL DEF IInv

(* What `docker compose` recreates is enough: after a deploy, and until    *)
(* the next begins, the containers serve what was deployed.                *)
THEOREM ServesWhatWasDeployed == Spec => []DeployedIsServed
<1>1. ASSUME IInv, deployed # None
      PROVE  LET m == deployed.of
                 url == InstanceURL(m, deployed.address) IN
             /\ "forgejo" \notin strayed => running["forgejo"].read = url
             /\ m.runner => running["runner"].def[2] = url /\ url.host \notin Loopback
             /\ ~m.runner => running["runner"] = NotStarted
             /\ running["caddy"].def[2] = WebPortOrDefault(m)
             /\ Named(m) => running["caddy"].read = SiteOf(m, None)
  <2> DEFINE m == deployed.of
             address == deployed.address
             url == InstanceURL(m, address)
  <2>1. m \in Manifests /\ address \in Addresses \union {None}
    BY <1>1 DEF IInv, TypeOK
  <2>2. ServeAddress(m, address) /\ RunnerReaches(m, address)
    BY <1>1 DEF IInv, ServedInv
  <2>3. PICK env \in Renderings : \A s \in Services : running[s].def = Definition(s, m, env, address)
    BY <1>1 DEF IInv, ServedInv
  <2>4. /\ running["forgejo"].def = <<env, url>>
        /\ running["caddy"].def = <<env, WebPortOrDefault(m), WebScheme(m)>>
        /\ m.runner => running["runner"].def = <<env, url>>
        /\ ~m.runner => running["runner"].def = <<>>
    BY <2>3, DefinitionsOf DEF Services
  <2>5. url \in URLs /\ url.host = HostOf(m, address)
    BY <2>1, <2>2, RenderedTypes DEF InstanceURL
  <2>6. "forgejo" \notin strayed => running["forgejo"].read = url
    BY <1>1, <2>4, <2>5 DEF IInv, ContainerInv
  <2>7. m.runner => running["runner"].def[2] = url /\ url.host \notin Loopback
    BY <2>1, <2>2, <2>4, <2>5, AddressAssumption DEF HostOf, RunnerReaches
  <2>8. ~m.runner => running["runner"] = NotStarted
    BY <1>1, <2>4 DEF IInv, ContainerInv, Services
  <2>9. Named(m) => running["caddy"].read = SiteOf(m, None)
    <3>1. Named(m) => WebScheme(m) = "https" /\ SiteOf(m, None) = NamedSite
      BY <2>1, <2>2, PortFacts, RenderedTypes
    <3> QED
      BY <1>1, <2>1, <2>4, <3>1, PortFacts DEF IInv, ContainerInv
  <2> QED
    BY <2>4, <2>6, <2>7, <2>8, <2>9
<1>2. IInv => DeployedIsServed
  BY <1>1 DEF DeployedIsServed
<1> QED
  BY <1>2, IInvCorrect, PTL
===============================================================================
