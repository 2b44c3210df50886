---------------------------- MODULE ComposeProofs ---------------------------
(***************************************************************************)
(* The safety of Compose for every set of runs, every Compose file and     *)
(* every kind of fault.  An object is known by the place it takes, so the  *)
(* invariant says of every place whose it can be; the rest of it is about  *)
(* one run: its control, what it has seen of its services, its networks,   *)
(* and what a verification has still to look for.                          *)
(***************************************************************************)
EXTENDS Compose, TLAPS

\* The places at which a file makes one look for an object of a project.
Home(d, p, project) ==
  \/ \E k \in DOMAIN d.resources :
       d.resources[k].kind \in {"network", "volume"} /\ p = Place(project, d, k)
  \/ \E kind \in {"image", "container"}, s \in Names : p = Of(project, kind, s)

\* Every object is where its project has one, and carries the label of its run;
\* what belongs to no project is external, and all that is external is there.
ObjectOK(p) ==
  LET object == objects[p]
  IN  /\ Home(document, p, object.project)
      /\ object.project # "none" => object.label = object.project
      /\ object.project = "none" =>
           object.label = "none" /\ p.name \in DOMAIN document.resources
             /\ p.kind \in {"network", "volume"} /\ document.resources[p.name].external

ExternalThere ==
  \A k \in DOMAIN document.resources :
    document.resources[k].external /\ document.resources[k].kind \in {"network", "volume"} =>
      /\ Exists(Place("none", document, k))
      /\ objects[Place("none", document, k)].project = "none"

ObjectsOK == (\A p \in DOMAIN objects : ObjectOK(p)) /\ ExternalThere

\* What has been made of a run belongs to an accepted file, and is registered
\* once its start has returned.
Stopping == {"failed", "down", "images", "verify", "gone", "left"}

ControlOK(r) ==
  /\ run[r].pc \notin {"validate", "over"} => Accepts(document)
  /\ run[r].killed => run[r].pc \in Stopping /\ run[r].registered
  /\ run[r].pc \in {"down", "images", "verify", "gone", "left"} => run[r].registered
  /\ run[r].pc = "ready" => run[r].registered
  /\ OfRun(r) # {} =>
       \/ Starting(r) /\ run[r].pc # "override"
       \/ run[r].pc \in Stopping \union {"ready"} /\ run[r].registered

\* What a pass over the services has seen.
PassOK(r) ==
  /\ \A s \in Names : health[r][s] = "healthy" => s \in run[r].answered
  /\ run[r].pc \in {"inspect", "list", "ready"} /\ run[r].allHealthy =>
       document.selected \subseteq run[r].answered \union run[r].left
  /\ run[r].pc = "inspect" =>
       run[r].dead \subseteq run[r].left /\ \A s \in run[r].dead : health[r][s] = "exited"
  /\ run[r].pc \in {"list", "ready"} =>
       run[r].allHealthy /\ run[r].left = {} /\ run[r].dead = {}

\* The networks that are there for a run.
Joined(r) ==
  {p \in {Place(r, document, k) :
            k \in UNION {UsedKeys(document, s) : s \in document.selected}} : p.kind = "network"}

NetworksOK(r) ==
  /\ run[r].seenTo \subseteq Needed(r)
  /\ run[r].pc \in {"validate", "override"} => run[r].seenTo = {}
  /\ Unnamed /\ run[r].pc \in {"up", "count", "poll", "inspect", "list", "ready"} =>
       \A p \in run[r].seenTo : p.kind = "network" => Exists(p)
  /\ run[r].pc \in {"count", "poll", "inspect", "list", "ready"} => Joined(r) \subseteq run[r].seenTo
  /\ run[r].pc = "ready" => Joined(r) \subseteq run[r].networks

\* The kinds a verification still has to look for.
Remaining == {Verified, <<"network", "volume", "image">>, <<"volume", "image">>,
              <<"image">>, <<>>}

GoneOK(r) ==
  /\ run[r].pc = "verify" =>
       /\ run[r].kinds \in Remaining
       /\ \A p \in OfRun(r) \ late : \E i \in DOMAIN run[r].kinds : run[r].kinds[i] = p.kind
  /\ run[r].pc = "gone" => OfRun(r) \subseteq late

\* What a step needs a fault for has met one, and while a run comes up it has
\* seen to all that is its own.
CauseOK(r) ==
  /\ run[r].expired => "slow" \in faults \/ ~ Passable
  /\ \A s \in Names : health[r][s] = "exited" => "exit" \in faults
  /\ run[r].pc = "up" => OfRun(r) \subseteq run[r].seenTo

LateOK == late # {} => "late" \in faults

IInv ==
  /\ TypeOK /\ ObjectsOK /\ LateOK
  /\ \A r \in Runs :
       ControlOK(r) /\ PassOK(r) /\ NetworksOK(r) /\ GoneOK(r) /\ CauseOK(r)

-----------------------------------------------------------------------------
\* The document is one of the instances, and does not change.
LEMMA Documented ==
  ASSUME TypeOK
  PROVE  IsDocument(document) /\ faults \subseteq FaultKinds
BY InstancesAssumption DEF TypeOK

\* An accepted file starts the services that were selected and no others.
LEMMA StartedIsSelected ==
  ASSUME TypeOK, Accepts(document)
  PROVE  Started(document) = document.selected
<1>1. document.selected \in SUBSET DOMAIN document.services
  BY DEF Accepts
<1>2. \A s \in document.selected : document.services[s].depends \subseteq document.selected
  BY DEF Accepts, DependsOnListed
<1>3. Started(document) \subseteq document.selected
  BY <1>1, <1>2 DEF Started
<1>4. document.selected \subseteq Started(document)
  BY <1>1 DEF Started
<1> QED BY <1>3, <1>4

\* What a run needs is at home in its project.
LEMMA NeededHome ==
  ASSUME TypeOK, NEW r \in Runs, NEW p \in Needed(r)
  PROVE  /\ Home(document, p, r) /\ p \in Places
         /\ p.kind \in {"image", "container"} =>
              p.name \in Started(document) /\ p = Of(r, p.kind, p.name)
         /\ p.kind \in {"network", "volume"} =>
              /\ p.name \in DOMAIN document.resources /\ p = Place(r, document, p.name)
              /\ document.resources[p.name].kind = p.kind
<1>1. /\ DOMAIN document.services \subseteq Names /\ DOMAIN document.resources \subseteq Keys
      /\ \A s \in DOMAIN document.services :
           document.services[s].uses \subseteq DOMAIN document.resources
  BY Documented DEF IsDocument
<1>2. Started(document) \subseteq DOMAIN document.services
  BY DEF Started
<1>3. CASE p \in {Place(r, document, k) : k \in UNION {UsedKeys(document, s) : s \in Started(document)}}
  <2>0. PICK s \in Started(document) : \E k \in UsedKeys(document, s) : p = Place(r, document, k)
    BY <1>3
  <2>1. PICK k \in UsedKeys(document, s) : p = Place(r, document, k)
    BY <2>0
  <2>2. k \in DOMAIN document.resources /\ document.resources[k].kind \in {"network", "volume"}
    BY <1>1, <1>2 DEF UsedKeys
  <2>3. p.kind = document.resources[k].kind /\ p.name = k
    BY <2>1 DEF Place
  <2> QED BY <1>1, <2>1, <2>2, <2>3 DEF Home, Place, Places, Kinds
<1>4. CASE \E s \in Started(document), kind \in {"image", "container"} : p = Of(r, kind, s)
  BY <1>1, <1>2, <1>4 DEF Home, Of, Places, Kinds
<1> QED BY <1>3, <1>4 DEF Needed

\* A step leaves the document, the faults and what appeared late.
LEMMA Fixed ==
  ASSUME NEW r \in Runs, Program(r) \/ Environment(r)
  PROVE  document' = document /\ faults' = faults /\ late \subseteq late'
BY DEF Program, Environment, Signal, Expire, Declines, Appears, BecomesHealthy

-----------------------------------------------------------------------------
\* What a step of a run does to the objects of Docker.
Added(r, p) ==
  /\ p \in Needed(r) \ DOMAIN objects
  /\ DOMAIN objects' = DOMAIN objects \union {p}
  /\ objects'[p] = [project |-> r, label |-> r]
  /\ \A q \in DOMAIN objects : objects'[q] = objects[q]

Removed(r) ==
  /\ DOMAIN objects' \subseteq DOMAIN objects
  /\ \A q \in DOMAIN objects' : objects'[q] = objects[q]
  /\ \A q \in DOMAIN objects \ DOMAIN objects' :
       q \in Owned(r) \/ (q.kind = "image" /\ objects[q].label = r)

\* What a run makes carries its label.
LEMMA MadeIsAdded ==
  ASSUME TypeOK, ObjectsOK, Accepts(document),
         NEW r \in Runs, NEW p \in Needed(r), ~ Exists(p), Make(r, p)
  PROVE  Added(r, p)
<1>1. CASE p.kind \in {"image", "container"}
  BY <1>1, NeededHome, StartedIsSelected DEF Added, Make, Overridden, Exists
<1>2. CASE p.kind \in {"network", "volume"}
  <2>1. p.name \in DOMAIN document.resources /\ p = Place(r, document, p.name)
    BY <1>2, NeededHome
  <2>2. document.resources[p.name].kind = p.kind
    BY <1>2, NeededHome
  <2>3. document.resources[p.name].external => p = Place("none", document, p.name)
    BY <2>1 DEF Place
  <2>4. ~ document.resources[p.name].external
    BY <1>2, <2>1, <2>2, <2>3 DEF ObjectsOK, ExternalThere
  <2> QED BY <1>2, <2>4 DEF Added, Make, Overridden, Exists
<1> QED BY <1>1, <1>2, NeededHome DEF Places, Kinds

\* It makes the health of one container of the run start anew.
LEMMA MadeHealth ==
  ASSUME TypeOK, NEW r \in Runs, NEW p, Make(r, p)
  PROVE  /\ health' \in [Runs -> [Names -> {"none", "starting", "healthy", "exited"}]]
         /\ \A q \in Runs \ {r} : health'[q] = health[q]
         /\ \A s \in Names : health'[r][s] \in {health[r][s], "starting"}
BY DEF TypeOK, Make

\* A step leaves the objects, makes one for its run, or removes what its cleanup
\* may.
LEMMA ObjectsEffect ==
  ASSUME TypeOK, ObjectsOK, NEW r \in Runs, ControlOK(r), Program(r) \/ Environment(r)
  PROVE  \/ UNCHANGED objects
         \/ \E p \in Pending(r) : Added(r, p) /\ (run[r].pc = "up" \/ (run[r].killed /\ p \in late'))
         \/ run[r].pc \in {"down", "images"} /\ Removed(r)
<1>0. \A p \in Pending(r) : p \in Needed(r)
  BY DEF Pending
<1>1. CASE UpMakes(r)
  <2>1. run[r].pc = "up" /\ Accepts(document)
    BY <1>1 DEF UpMakes, ControlOK
  <2>2. PICK p \in Pending(r) : IF Exists(p) THEN Outside ELSE Make(r, p)
    BY <1>1 DEF UpMakes
  <2>3. CASE Exists(p)
    BY <2>2, <2>3 DEF Outside
  <2>4. CASE ~ Exists(p)
    BY <1>0, <2>1, <2>2, <2>4, MadeIsAdded
  <2> QED BY <2>3, <2>4
<1>2. CASE Appears(r)
  <2>1. run[r].killed /\ Accepts(document)
    BY <1>2 DEF Appears, ControlOK, Stopping
  <2> QED BY <1>0, <1>2, <2>1, MadeIsAdded DEF Appears
<1>3. CASE DownRemoves(r)
  BY <1>3 DEF DownRemoves, Removed
<1>4. CASE RemoveImages(r)
  BY <1>4 DEF RemoveImages, Removed
<1>5. CASE Signal(r) \/ Expire(r) \/ Declines(r) \/ \E s \in Names : BecomesHealthy(r, s)
  BY <1>5 DEF Signal, Expire, Declines, BecomesHealthy, Outside
<1>6. CASE \/ Validate(r) \/ WriteOverride(r) \/ UpEnds(r) \/ CountContainers(r)
           \/ BeginPass(r) \/ InspectService(r) \/ EndPass(r) \/ ListResources(r)
           \/ BeginCleanup(r) \/ DownEnds(r) \/ VerifyGone(r)
  BY <1>6 DEF Validate, WriteOverride, UpEnds, CountContainers, BeginPass, InspectService,
    EndPass, ListResources, BeginCleanup, DownEnds, VerifyGone, Outside
<1> QED BY <1>1, <1>2, <1>3, <1>4, <1>5, <1>6 DEF Program, Environment

\* Objects stay at home.
LEMMA ObjectsStep ==
  ASSUME TypeOK, ObjectsOK, NEW r \in Runs, ControlOK(r), Program(r) \/ Environment(r)
  PROVE  ObjectsOK'
<1>1. document' = document
  BY Fixed
<1>2. CASE UNCHANGED objects
  BY <1>1, <1>2 DEF ObjectsOK, ObjectOK, ExternalThere, Exists
<1>3. ASSUME NEW p, Added(r, p) PROVE ObjectsOK'
  <2>1. Home(document', p, r) /\ r # "none"
    BY <1>1, <1>3, NeededHome, RunsAssumption DEF Added
  <2>2. ObjectOK(p)'
    BY <1>3, <2>1 DEF Added, ObjectOK
  <2>3. \A q \in DOMAIN objects : ObjectOK(q)'
    BY <1>1, <1>3 DEF Added, ObjectsOK, ObjectOK
  <2>4. ExternalThere'
    BY <1>1, <1>3 DEF Added, ObjectsOK, ExternalThere, Place, Exists
  <2> QED BY <1>3, <2>2, <2>3, <2>4 DEF Added, ObjectsOK
<1>4. CASE Removed(r)
  <2>1. \A q \in DOMAIN objects' : ObjectOK(q)'
    BY <1>1, <1>4 DEF Removed, ObjectsOK, ObjectOK
  <2>2. ASSUME NEW k \in DOMAIN document.resources, document.resources[k].external,
               document.resources[k].kind \in {"network", "volume"}
        PROVE  /\ Place("none", document, k) \in DOMAIN objects'
               /\ objects'[Place("none", document, k)].project = "none"
    <3> DEFINE q == Place("none", document, k)
    <3>1. /\ q \in DOMAIN objects /\ objects[q].project = "none"
          /\ q.name = k /\ q.kind \in {"network", "volume"}
      BY <2>2 DEF ObjectsOK, ExternalThere, Exists, Place
    <3>2. objects[q].label = "none"
      BY <3>1 DEF ObjectsOK, ObjectOK
    <3>3. q \notin Owned(r)
      BY <2>2, <3>1, RunsAssumption DEF Owned
    <3> QED BY <1>4, <3>1, <3>3 DEF Removed
  <2>3. ExternalThere'
    BY <1>1, <2>2 DEF ExternalThere, Place, Exists
  <2> QED BY <2>1, <2>3 DEF ObjectsOK
<1> QED BY <1>2, <1>3, <1>4, ObjectsEffect

\* A run leaves alone what is of another: its program, its services and whatever
\* it has not made.
LEMMA OthersKept ==
  ASSUME TypeOK, ObjectsOK, NEW r \in Runs, ControlOK(r), Program(r) \/ Environment(r),
         NEW q \in Runs \ {r}
  PROVE  run'[q] = run[q] /\ health'[q] = health[q] /\ OfRun(q)' \subseteq OfRun(q)
<1>1. run'[q] = run[q]
  BY DEF TypeOK, Program, Environment, Validate, WriteOverride, UpMakes, UpEnds,
    CountContainers, BeginPass, InspectService, EndPass, ListResources, BeginCleanup,
    DownRemoves, DownEnds, RemoveImages, VerifyGone, Signal, Expire, Declines,
    BecomesHealthy, Appears, Goto, Fail, Return
<1>2. health'[q] = health[q]
  <2>1. CASE UpMakes(r) \/ Appears(r)
    BY <2>1, MadeHealth DEF UpMakes, Appears, Outside
  <2>2. CASE DownRemoves(r) \/ Declines(r) \/ \E s \in Names : BecomesHealthy(r, s)
    BY <2>2 DEF TypeOK, DownRemoves, Declines, BecomesHealthy
  <2>3. CASE \/ Validate(r) \/ WriteOverride(r) \/ UpEnds(r) \/ CountContainers(r)
             \/ BeginPass(r) \/ InspectService(r) \/ EndPass(r) \/ ListResources(r)
             \/ BeginCleanup(r) \/ DownEnds(r) \/ RemoveImages(r) \/ VerifyGone(r)
             \/ Signal(r) \/ Expire(r)
    BY <2>3 DEF Validate, WriteOverride, UpEnds, CountContainers, BeginPass, InspectService,
      EndPass, ListResources, BeginCleanup, DownEnds, RemoveImages, VerifyGone, Signal,
      Expire, Outside
  <2> QED BY <2>1, <2>2, <2>3 DEF Program, Environment
<1>3. OfRun(q)' \subseteq OfRun(q)
  <2>1. CASE UNCHANGED objects
    BY <2>1 DEF OfRun
  <2>2. ASSUME NEW p, Added(r, p) PROVE OfRun(q)' \subseteq OfRun(q)
    BY <2>2 DEF OfRun, Added
  <2>3. CASE Removed(r)
    BY <2>3 DEF OfRun, Removed
  <2> QED BY <2>1, <2>2, <2>3, ObjectsEffect
<1> QED BY <1>1, <1>2, <1>3

-----------------------------------------------------------------------------
\* The places of a program.
Points == {"validate", "override", "up", "count", "poll", "inspect", "list",
           "ready", "failed", "down", "images", "verify", "gone", "left", "over"}

LEMMA Stored ==
  ASSUME NEW S, NEW f \in [Runs -> S], NEW r \in Runs, NEW e \in S
  PROVE  [f EXCEPT ![r] = e] \in [Runs -> S]
OBVIOUS

\* A move of the program keeps the type of its run.
LEMMA GotoTyped ==
  ASSUME run \in [Runs -> RunState(document)], NEW r \in Runs, NEW point \in Points,
         Goto(r, point)
  PROVE  run' \in [Runs -> RunState(document)]
<1>1. run[r] \in RunState(document)
  OBVIOUS
<1>2. \A x \in RunState(document) : [x EXCEPT !.pc = point] \in RunState(document)
  BY DEF RunState, Points
<1>3. [run[r] EXCEPT !.pc = point] \in RunState(document)
  BY <1>1, <1>2
<1> QED BY <1>3 DEF Goto

LEMMA ReturnTyped ==
  ASSUME run \in [Runs -> RunState(document)], NEW r \in Runs, NEW outcome \in Points,
         NEW overridden \in BOOLEAN, Return(r, outcome, overridden)
  PROVE  run' \in [Runs -> RunState(document)]
<1> DEFINE killed == run[r].canceled /\ run[r].pc = "up"
           new == [run[r] EXCEPT !.pc = outcome, !.registered = overridden, !.killed = killed]
<1>1. killed \in BOOLEAN /\ run[r] \in RunState(document)
  OBVIOUS
<1>2. run' = [run EXCEPT ![r] = new]
  BY DEF Return
<1> HIDE DEF killed
<1>3. new \in RunState(document)
  BY <1>1 DEF RunState, Points
<1> HIDE DEF new
<1> QED BY <1>2, <1>3, Stored

\* A run updates its own state to a value of its type.
LEMMA RunTyped ==
  ASSUME TypeOK, NEW r \in Runs, ControlOK(r), Program(r) \/ Environment(r)
  PROVE  run' \in [Runs -> RunState(document)]
<1>0. run \in [Runs -> RunState(document)] /\ run[r] \in RunState(document)
  BY DEF TypeOK
<1>1. ASSUME Fail(r) PROVE run' \in [Runs -> RunState(document)]
  BY <1>0, <1>1, ReturnTyped DEF Fail, Points
<1>2. CASE \/ Validate(r) \/ WriteOverride(r) \/ UpEnds(r) \/ CountContainers(r)
           \/ EndPass(r) \/ BeginCleanup(r) \/ DownEnds(r)
  BY <1>0, <1>1, <1>2, GotoTyped, ReturnTyped
    DEF Validate, WriteOverride, UpEnds, CountContainers, EndPass, BeginCleanup, DownEnds,
      Points
<1>3. CASE UpMakes(r)
  <2>1. PICK p \in Pending(r) : run' = [run EXCEPT ![r].seenTo = @ \union {p}]
    BY <1>3 DEF UpMakes
  <2>2. p \in Places
    BY NeededHome DEF Pending
  <2>3. [run[r] EXCEPT !.seenTo = @ \union {p}] \in RunState(document)
    BY <1>0, <2>2 DEF RunState
  <2> QED BY <1>0, <2>1, <2>3
<1>4. CASE BeginPass(r) /\ ~ run[r].expired
  <2> DEFINE new == [run[r] EXCEPT !.pc = "inspect", !.left = document.selected,
                !.allHealthy = TRUE, !.dead = {s \in document.selected : health[r][s] = "exited"}]
  <2>1. new \in RunState(document)
    BY <1>0 DEF RunState
  <2>2. run' = [run EXCEPT ![r] = new]
    BY <1>4 DEF BeginPass
  <2> HIDE DEF new
  <2> QED BY <1>0, <2>1, <2>2, Stored
<1>5. CASE InspectService(r) /\ ~ Fail(r)
  <2> DEFINE new(s, healthy) ==
               [run[r] EXCEPT !.left = run[r].left \ {s}, !.allHealthy = healthy]
  <2>1. PICK s \in run[r].left : run' = [run EXCEPT ![r] = new(s, HealthyWith(r, s))]
    BY <1>5 DEF InspectService
  <2>2. HealthyWith(r, s) \in BOOLEAN
    BY DEF HealthyWith
  <2>3. \A healthy \in BOOLEAN : new(s, healthy) \in RunState(document)
    BY <1>0 DEF RunState
  <2>4. new(s, HealthyWith(r, s)) \in RunState(document)
    BY <2>2, <2>3
  <2> HIDE DEF new
  <2> QED BY <1>0, <2>1, <2>4, Stored
<1>6. CASE ListResources(r) /\ ~ Fail(r)
  <2>1. NetworksOf(r) \subseteq Places
    <3>1. DOMAIN objects \subseteq Places
      BY DEF TypeOK
    <3>2. ASSUME NEW s \in document.selected, NEW k \in UsedKeys(document, s),
                 Place(r, document, k).kind = "network"
          PROVE  Place(r, document, k) \in Places
      <4>1. s \in DOMAIN document.services
        BY <1>6 DEF ListResources, ControlOK, Accepts
      <4>2. k \in Keys
        BY <4>1, Documented DEF IsDocument, UsedKeys
      <4> QED BY <3>2, <4>2 DEF Place, Places, Kinds
    <3> QED BY <3>1, <3>2 DEF NetworksOf
  <2> DEFINE new == [run[r] EXCEPT !.pc = "ready", !.registered = TRUE,
                                   !.networks = NetworksOf(r)]
  <2>2. new \in RunState(document)
    BY <1>0, <2>1 DEF RunState
  <2>3. run' = [run EXCEPT ![r] = new]
    BY <1>6 DEF ListResources
  <2> HIDE DEF new
  <2> QED BY <1>0, <2>2, <2>3, Stored
<1>7. CASE DownRemoves(r) \/ Declines(r)
  BY <1>0, <1>7 DEF DownRemoves, Declines
<1>8. CASE RemoveImages(r)
  <2>1. Verified \in Seq(Kinds)
    BY DEF Verified, Kinds
  <2>2. [run[r] EXCEPT !.pc = "verify", !.kinds = Verified] \in RunState(document)
    BY <1>0, <2>1 DEF RunState
  <2> QED BY <1>0, <1>8, <2>2, Stored DEF RemoveImages
<1>9. CASE VerifyGone(r)
  <2>1. CASE run[r].kinds # <<>> /\ run' = [run EXCEPT ![r].kinds = Tail(@)]
    <3>1. run[r].kinds \in Seq(Kinds)
      BY <1>0 DEF RunState
    <3>2. Tail(run[r].kinds) \in Seq(Kinds)
      BY <2>1, <3>1
    <3>3. [run[r] EXCEPT !.kinds = Tail(@)] \in RunState(document)
      BY <1>0, <3>2 DEF RunState
    <3> QED BY <1>0, <2>1, <3>3
  <2> QED BY <1>0, <1>9, <2>1, GotoTyped DEF VerifyGone, Points
<1>10. CASE Signal(r) \/ Expire(r) \/ Appears(r)
  <2>1. /\ [run[r] EXCEPT !.canceled = TRUE] \in RunState(document)
        /\ [run[r] EXCEPT !.expired = TRUE] \in RunState(document)
        /\ [run[r] EXCEPT !.killed = FALSE] \in RunState(document)
    BY <1>0 DEF RunState
  <2> QED BY <1>0, <1>10, <2>1 DEF Signal, Expire, Appears
<1>11. CASE \E s \in Names : BecomesHealthy(r, s)
  <2>1. PICK s \in Names : run' = [run EXCEPT ![r].answered = @ \union {s}]
    BY <1>11 DEF BecomesHealthy
  <2>2. [run[r] EXCEPT !.answered = @ \union {s}] \in RunState(document)
    BY <1>0 DEF RunState
  <2> QED BY <1>0, <2>1, <2>2
<1>12. CASE (BeginPass(r) /\ run[r].expired) \/ Fail(r)
  BY <1>1, <1>12 DEF BeginPass
<1> QED BY <1>2, <1>3, <1>4, <1>5, <1>6, <1>7, <1>8, <1>9, <1>10, <1>11, <1>12
  DEF Program, Environment

\* One step keeps the types.
LEMMA TypeStep ==
  ASSUME TypeOK, ObjectsOK, NEW r \in Runs, ControlOK(r), Program(r) \/ Environment(r)
  PROVE  TypeOK'
<1>1. document' = document /\ faults' = faults
  BY Fixed
<1>2. health' \in [Runs -> [Names -> {"none", "starting", "healthy", "exited"}]]
  <2>1. CASE UNCHANGED health
    BY <2>1 DEF TypeOK
  <2>2. CASE \E p \in Needed(r) : Make(r, p)
    BY <2>2, MadeHealth
  <2>3. CASE DownRemoves(r)
    BY <2>3 DEF DownRemoves, TypeOK
  <2>4. CASE \E s \in Names, state \in {"starting", "healthy", "exited"} :
               health' = [health EXCEPT ![r][s] = state]
    BY <2>4 DEF TypeOK
  <2>8. CASE Declines(r) \/ \E s \in Names : BecomesHealthy(r, s)
    BY <2>4, <2>8 DEF Declines, BecomesHealthy
  <2>5. \A p \in Pending(r) : p \in Needed(r)
    BY DEF Pending
  <2>6. CASE UpMakes(r) \/ Appears(r)
    BY <2>1, <2>2, <2>5, <2>6 DEF UpMakes, Appears, Outside
  <2>7. CASE \/ Validate(r) \/ WriteOverride(r) \/ UpEnds(r) \/ CountContainers(r)
             \/ BeginPass(r) \/ InspectService(r) \/ EndPass(r) \/ ListResources(r)
             \/ BeginCleanup(r) \/ DownEnds(r) \/ VerifyGone(r) \/ RemoveImages(r)
             \/ Signal(r) \/ Expire(r)
    BY <2>1, <2>7 DEF Validate, WriteOverride, UpEnds, CountContainers, BeginPass,
      InspectService, EndPass, ListResources, BeginCleanup, DownEnds, VerifyGone,
      RemoveImages, Signal, Expire, Outside
  <2> QED BY <2>3, <2>6, <2>7, <2>8 DEF Program, Environment
<1>3. /\ DOMAIN objects' \subseteq Places
      /\ \A p \in DOMAIN objects' :
           objects'[p] \in [project : Runs \union {"none"}, label : Runs \union {"none"}]
  <2>1. CASE UNCHANGED objects
    BY <2>1 DEF TypeOK
  <2>2. ASSUME NEW p \in Needed(r), Added(r, p)
        PROVE  /\ DOMAIN objects' \subseteq Places
               /\ \A q \in DOMAIN objects' :
                    objects'[q] \in [project : Runs \union {"none"}, label : Runs \union {"none"}]
    BY <2>2, NeededHome DEF Added, TypeOK
  <2>3. CASE Removed(r)
    BY <2>3 DEF Removed, TypeOK
  <2> QED BY <2>1, <2>2, <2>3, ObjectsEffect DEF Pending
<1>4. late' \subseteq Places
  <2>1. CASE Appears(r)
    <3>1. \A p \in Pending(r) : p \in Places
      BY NeededHome DEF Pending
    <3> QED BY <2>1, <3>1 DEF Appears, TypeOK
  <2>2. CASE UNCHANGED late
    BY <2>2 DEF TypeOK
  <2> QED BY <2>1, <2>2 DEF Program, Environment, Signal, Expire, Declines, BecomesHealthy
<1>5. run' \in [Runs -> RunState(document)]
  BY RunTyped
<1> QED BY <1>1, <1>2, <1>3, <1>4, <1>5 DEF TypeOK

-----------------------------------------------------------------------------
\* What a step leaves of the state of its run.
SameBut(r, fields) ==
  \A field \in {"pc", "canceled", "registered", "killed", "expired", "seenTo", "left",
                "allHealthy", "networks", "answered", "dead", "kinds"} \ fields :
    run'[r][field] = run[r][field]

LEMMA Moved ==
  ASSUME TypeOK, NEW r \in Runs, NEW point, Goto(r, point)
  PROVE  run'[r].pc = point /\ SameBut(r, {"pc"})
BY DEF TypeOK, Goto, RunState, SameBut

LEMMA Returned ==
  ASSUME TypeOK, NEW r \in Runs, NEW outcome, NEW overridden, Return(r, outcome, overridden)
  PROVE  /\ run'[r].pc = outcome /\ run'[r].registered = overridden
         /\ run'[r].killed => run[r].pc = "up"
         /\ SameBut(r, {"pc", "registered", "killed"})
<1> DEFINE killed == run[r].canceled /\ run[r].pc = "up"
           new == [run[r] EXCEPT !.pc = outcome, !.registered = overridden, !.killed = killed]
<1>1. run' = [run EXCEPT ![r] = new]
  BY DEF Return
<1>2. killed => run[r].pc = "up"
  OBVIOUS
<1> HIDE DEF killed
<1>3. /\ new.pc = outcome /\ new.registered = overridden /\ new.killed = killed
      /\ \A field \in {"canceled", "expired", "seenTo", "left",
                       "allHealthy", "networks", "answered", "dead", "kinds"} :
           new[field] = run[r][field]
  BY DEF TypeOK, RunState
<1> HIDE DEF new
<1>4. run'[r] = new
  BY <1>1 DEF TypeOK
<1> QED BY <1>2, <1>3, <1>4 DEF SameBut

LEMMA Failed ==
  ASSUME TypeOK, NEW r \in Runs, Fail(r)
  PROVE  /\ run'[r].pc = "failed" /\ run'[r].registered
         /\ SameBut(r, {"pc", "registered", "killed"})
BY Returned DEF Fail

LEMMA Passed ==
  ASSUME TypeOK, NEW r \in Runs, BeginPass(r), ~ Fail(r)
  PROVE  /\ run'[r].pc = "inspect" /\ run'[r].left = document.selected /\ run'[r].allHealthy
         /\ run'[r].dead = {s \in document.selected : health[r][s] = "exited"}
         /\ SameBut(r, {"pc", "left", "allHealthy", "dead"})
<1> DEFINE dead == {s \in document.selected : health[r][s] = "exited"}
           new == [run[r] EXCEPT !.pc = "inspect", !.left = document.selected,
                                 !.allHealthy = TRUE, !.dead = dead]
<1>1. run' = [run EXCEPT ![r] = new]
  BY DEF BeginPass
<1> HIDE DEF dead
<1>2. /\ new.pc = "inspect" /\ new.left = document.selected /\ new.allHealthy
      /\ new.dead = dead
      /\ \A field \in {"canceled", "registered", "killed", "expired", "seenTo",
                       "networks", "answered", "kinds"} : new[field] = run[r][field]
  BY DEF TypeOK, RunState
<1> HIDE DEF new
<1>3. run'[r] = new
  BY <1>1 DEF TypeOK
<1>4. run'[r].dead = {s \in document.selected : health[r][s] = "exited"}
  BY <1>2, <1>3 DEF dead
<1> QED BY <1>2, <1>3, <1>4 DEF SameBut

LEMMA Inspected ==
  ASSUME TypeOK, NEW r \in Runs, InspectService(r), ~ Fail(r)
  PROVE  \E s \in run[r].left :
           /\ ~ run[r].canceled /\ health[r][s] # "exited"
           /\ run'[r].left = run[r].left \ {s}
           /\ run'[r].allHealthy => run[r].allHealthy /\ health[r][s] = "healthy"
           /\ SameBut(r, {"left", "allHealthy"})
<1> DEFINE new(s, healthy) ==
             [run[r] EXCEPT !.left = run[r].left \ {s}, !.allHealthy = healthy]
<1>1. PICK s \in run[r].left :
        /\ ~ run[r].canceled /\ health[r][s] # "exited"
        /\ run' = [run EXCEPT ![r] = new(s, HealthyWith(r, s))]
  BY DEF InspectService
<1>2. \A healthy :
        /\ new(s, healthy).left = run[r].left \ {s} /\ new(s, healthy).allHealthy = healthy
        /\ \A field \in {"pc", "canceled", "registered", "killed", "expired", "seenTo",
                         "networks", "answered", "dead", "kinds"} :
             new(s, healthy)[field] = run[r][field]
  BY DEF TypeOK, RunState
<1> HIDE DEF new
<1>3. run'[r] = new(s, HealthyWith(r, s))
  BY <1>1 DEF TypeOK
<1>4. run'[r].left = run[r].left \ {s} /\ run'[r].allHealthy = HealthyWith(r, s)
  BY <1>2, <1>3
<1>5. SameBut(r, {"left", "allHealthy"})
  BY <1>2, <1>3 DEF SameBut
<1> QED BY <1>1, <1>4, <1>5 DEF HealthyWith

LEMMA Listed ==
  ASSUME TypeOK, NEW r \in Runs, ListResources(r), ~ Fail(r)
  PROVE  /\ run'[r].pc = "ready" /\ run'[r].registered /\ run'[r].networks = NetworksOf(r)
         /\ SameBut(r, {"pc", "registered", "networks"})
<1> DEFINE new == [run[r] EXCEPT !.pc = "ready", !.registered = TRUE,
                                 !.networks = NetworksOf(r)]
<1>1. run' = [run EXCEPT ![r] = new]
  BY DEF ListResources
<1>2. /\ new.pc = "ready" /\ new.registered /\ new.networks = NetworksOf(r)
      /\ \A field \in {"canceled", "killed", "expired", "seenTo", "left",
                       "allHealthy", "answered", "dead", "kinds"} : new[field] = run[r][field]
  BY DEF TypeOK, RunState
<1> HIDE DEF new
<1>3. run'[r] = new
  BY <1>1 DEF TypeOK
<1> QED BY <1>2, <1>3 DEF SameBut

-----------------------------------------------------------------------------
\* What has been made of a run stays registered.
LEMMA ControlStep ==
  ASSUME TypeOK, ObjectsOK, NEW r \in Runs, ControlOK(r), Program(r) \/ Environment(r)
  PROVE  ControlOK(r)'
<1>0. document' = document /\ run[r].registered \in BOOLEAN
  BY Fixed DEF TypeOK, RunState
<1>1. Accepts(document)' <=> Accepts(document)
  BY <1>0 DEF Accepts, DependsOnListed, ValidService, ValidResource
<1>2. ASSUME Fail(r), Starting(r), run[r].pc # "override", OfRun(r)' \subseteq OfRun(r)
      PROVE  ControlOK(r)'
  <2>1. run'[r].pc = "failed" /\ run'[r].registered
    BY <1>2, Failed
  <2>2. Accepts(document)
    BY <1>2 DEF Starting, ControlOK
  <2> QED BY <1>1, <2>1, <2>2 DEF ControlOK, Starting, Stopping
<1>3. CASE Validate(r)
  <2>1. OfRun(r)' = {}
    BY <1>3 DEF Validate, ControlOK, OfRun, Outside, Starting, Stopping
  <2>2. /\ (run'[r].pc = "override" /\ Accepts(document)) \/ run'[r].pc = "over"
        /\ SameBut(r, {"pc"})
    BY <1>3, Moved DEF Validate
  <2>3. ~ run'[r].killed
    BY <1>3, <2>2 DEF Validate, ControlOK, Stopping, SameBut
  <2> QED BY <1>1, <2>1, <2>2, <2>3 DEF ControlOK
<1>4. CASE WriteOverride(r)
  <2>1. OfRun(r)' = {}
    BY <1>4 DEF WriteOverride, ControlOK, OfRun, Outside, Starting, Stopping
  <2>2. run[r].pc = "override" /\ Accepts(document) /\ ~ run[r].killed
    BY <1>4 DEF WriteOverride, ControlOK, Stopping
  <2>3. run'[r].pc \in {"up", "failed"} /\ ~ run'[r].killed
    <3>1. CASE Goto(r, "up")
      BY <2>2, <3>1, Moved DEF SameBut
    <3>2. CASE Return(r, "failed", FALSE)
      BY <2>2, <3>2, Returned
    <3> QED BY <1>4, <3>1, <3>2 DEF WriteOverride
  <2> QED BY <1>1, <2>1, <2>2, <2>3 DEF ControlOK
<1>5. CASE UpMakes(r)
  <2>1. run[r].pc = "up" /\ run'[r].pc = "up" /\ run'[r].killed = run[r].killed
    BY <1>5 DEF UpMakes, TypeOK, RunState
  <2> QED BY <1>1, <2>1 DEF ControlOK, Starting, Stopping
<1>6. CASE UpEnds(r) \/ CountContainers(r) \/ EndPass(r)
  <2>1. Starting(r) /\ run[r].pc # "override" /\ OfRun(r)' \subseteq OfRun(r)
    BY <1>6 DEF UpEnds, CountContainers, EndPass, Starting, Outside, OfRun
  <2>2. ASSUME NEW point \in {"count", "poll", "list"}, Goto(r, point) PROVE ControlOK(r)'
    <3>1. run'[r].pc = point /\ SameBut(r, {"pc"})
      BY <2>2, Moved
    <3> QED BY <1>1, <2>1, <3>1 DEF ControlOK, Starting, Stopping, SameBut
  <2> QED BY <1>2, <1>6, <2>1, <2>2 DEF UpEnds, CountContainers, EndPass
<1>7. CASE BeginPass(r) \/ InspectService(r)
  <2>1. Starting(r) /\ run[r].pc # "override" /\ OfRun(r)' \subseteq OfRun(r)
    BY <1>7 DEF BeginPass, InspectService, Starting, Outside, OfRun
  <2>2. CASE ~ Fail(r)
    <3>1. run'[r].pc = "inspect" /\ run'[r].killed = run[r].killed
      <4>1. CASE BeginPass(r)
        BY <2>2, <4>1, Passed DEF SameBut
      <4>2. CASE InspectService(r)
        BY <2>2, <4>2, Inspected DEF InspectService, SameBut
      <4> QED BY <1>7, <4>1, <4>2
    <3> QED BY <1>1, <2>1, <3>1 DEF ControlOK, Starting, Stopping
  <2> QED BY <1>2, <2>1, <2>2
<1>8. CASE ListResources(r)
  <2>1. Starting(r) /\ run[r].pc # "override" /\ OfRun(r)' \subseteq OfRun(r)
    BY <1>8 DEF ListResources, Starting, Outside, OfRun
  <2>2. CASE ~ Fail(r)
    <3>1. run'[r].pc = "ready" /\ run'[r].registered /\ run'[r].killed = run[r].killed
      BY <1>8, <2>2, Listed DEF SameBut
    <3> QED BY <1>1, <2>1, <3>1 DEF ControlOK, Starting, Stopping
  <2> QED BY <1>2, <2>1, <2>2
<1>9. CASE BeginCleanup(r)
  <2>1. OfRun(r)' \subseteq OfRun(r)
    BY <1>9 DEF BeginCleanup, Outside, OfRun
  <2>2. /\ run[r].pc \in {"ready", "failed"} /\ SameBut(r, {"pc"})
        /\ run'[r].pc = IF run[r].registered THEN "down" ELSE "over"
    BY <1>9, Moved DEF BeginCleanup
  <2>3. run'[r].registered = run[r].registered /\ run'[r].killed = run[r].killed
    BY <2>2 DEF SameBut
  <2> QED BY <1>1, <2>1, <2>2, <2>3 DEF ControlOK, Starting, Stopping
<1>10. CASE DownRemoves(r) \/ DownEnds(r) \/ RemoveImages(r) \/ VerifyGone(r)
  <2>1. OfRun(r)' \subseteq OfRun(r)
    BY <1>10 DEF DownRemoves, DownEnds, RemoveImages, VerifyGone, Outside, OfRun
  <2>2. run[r].pc \in {"down", "images", "verify"}
    BY <1>10 DEF DownRemoves, DownEnds, RemoveImages, VerifyGone
  <2>3. /\ run'[r].pc \in {"down", "images", "verify", "gone", "left"}
        /\ run'[r].registered = run[r].registered /\ run'[r].killed = run[r].killed
    <3>1. CASE DownRemoves(r)
      BY <2>2, <3>1 DEF DownRemoves
    <3>2. CASE DownEnds(r)
      BY <3>2, Moved DEF DownEnds, SameBut
    <3>3. CASE RemoveImages(r)
      BY <3>3 DEF RemoveImages, TypeOK, RunState
    <3>4. CASE VerifyGone(r) /\ (Goto(r, "gone") \/ Goto(r, "left"))
      BY <3>4, Moved DEF SameBut
    <3>5. CASE run[r].pc = "verify" /\ run' = [run EXCEPT ![r].kinds = Tail(@)]
      BY <3>5 DEF TypeOK, RunState
    <3> QED BY <1>10, <3>1, <3>2, <3>3, <3>4, <3>5 DEF VerifyGone
  <2> QED BY <1>1, <2>1, <2>2, <2>3 DEF ControlOK, Starting, Stopping
<1>11. CASE Signal(r) \/ Expire(r) \/ Declines(r) \/ \E s \in Names : BecomesHealthy(r, s)
  <2>1. OfRun(r)' \subseteq OfRun(r)
    BY <1>11 DEF Signal, Expire, Declines, BecomesHealthy, Outside, OfRun
  <2>2. /\ run'[r].pc = run[r].pc /\ run'[r].registered = run[r].registered
        /\ run'[r].killed = run[r].killed
    BY <1>11 DEF Signal, Expire, Declines, BecomesHealthy, TypeOK, RunState
  <2> QED BY <1>1, <2>1, <2>2 DEF ControlOK, Starting
<1>12. CASE Appears(r)
  <2>1. run[r].pc \in Stopping /\ run[r].registered
    BY <1>12 DEF Appears, ControlOK
  <2>2. run'[r].pc = run[r].pc /\ run'[r].registered = run[r].registered /\ ~ run'[r].killed
    BY <1>12 DEF Appears, TypeOK, RunState
  <2> QED BY <1>1, <2>1, <2>2 DEF ControlOK, Stopping
<1> QED BY <1>3, <1>4, <1>5, <1>6, <1>7, <1>8, <1>9, <1>10, <1>11, <1>12
  DEF Program, Environment

\* What has been seen of the services stays true.
LEMMA PassStep ==
  ASSUME TypeOK, ObjectsOK, NEW r \in Runs, ControlOK(r), PassOK(r),
         Program(r) \/ Environment(r)
  PROVE  PassOK(r)'
<1>0. document' = document
  BY Fixed
<1>1. ASSUME Fail(r), Outside PROVE PassOK(r)'
  BY <1>0, <1>1, Failed DEF PassOK, SameBut, Outside
<1>2. ASSUME NEW point \in Points \ {"inspect", "list", "ready"}, Goto(r, point), Outside
      PROVE  PassOK(r)'
  BY <1>0, <1>2, Moved DEF PassOK, SameBut, Outside
<1>3. CASE Validate(r) \/ UpEnds(r) \/ CountContainers(r) \/ BeginCleanup(r) \/ DownEnds(r)
  BY <1>1, <1>2, <1>3
    DEF Validate, UpEnds, CountContainers, BeginCleanup, DownEnds, Points
<1>4. CASE WriteOverride(r)
  <2>1. CASE Return(r, "failed", FALSE)
    <3>1. run'[r].pc = "failed" /\ run'[r].answered = run[r].answered
      BY <2>1, Returned DEF SameBut
    <3> QED BY <1>4, <3>1 DEF WriteOverride, PassOK, Outside
  <2> QED BY <1>2, <1>4, <2>1 DEF WriteOverride, Points
<1>5. CASE UpMakes(r) \/ Appears(r)
  <2>1. run[r].pc \notin {"inspect", "list", "ready"}
    BY <1>5 DEF UpMakes, Appears, ControlOK, Stopping
  <2>2. \A s \in Names : health'[r][s] \in {health[r][s], "starting"}
    <3>1. ASSUME NEW p, Make(r, p) PROVE \A s \in Names : health'[r][s] \in {health[r][s], "starting"}
      BY <3>1, MadeHealth
    <3> QED BY <1>5, <3>1 DEF UpMakes, Appears, Outside
  <2>3. run'[r].pc = run[r].pc /\ run'[r].answered = run[r].answered
    BY <1>5 DEF UpMakes, Appears, TypeOK, RunState
  <2> QED BY <2>1, <2>2, <2>3 DEF PassOK
<1>6. CASE BeginPass(r) /\ ~ Fail(r)
  <2>1. /\ run'[r].pc = "inspect" /\ run'[r].left = document.selected
        /\ run'[r].dead = {s \in document.selected : health[r][s] = "exited"}
        /\ run'[r].answered = run[r].answered /\ health' = health
    <3>1. SameBut(r, {"pc", "left", "allHealthy", "dead"})
      BY <1>6, Passed
    <3>2. run'[r].answered = run[r].answered
      BY <3>1 DEF SameBut
    <3> QED BY <1>6, <3>2, Passed DEF BeginPass, Outside
  <2> QED BY <1>0, <2>1 DEF PassOK
<1>7. CASE InspectService(r) /\ ~ Fail(r)
  <2>1. run[r].pc = "inspect" /\ health' = health
    BY <1>7 DEF InspectService, Outside
  <2>2. PICK s \in run[r].left :
          /\ health[r][s] # "exited" /\ run'[r].left = run[r].left \ {s}
          /\ run'[r].allHealthy => run[r].allHealthy /\ health[r][s] = "healthy"
          /\ SameBut(r, {"left", "allHealthy"})
    BY <1>7, Inspected
  <2>3. s \in Names
    BY Documented DEF TypeOK, RunState, IsDocument
  <2>4. run'[r].pc = "inspect" /\ run'[r].answered = run[r].answered /\ run'[r].dead = run[r].dead
    BY <2>1, <2>2 DEF SameBut
  <2> QED BY <1>0, <2>1, <2>2, <2>3, <2>4 DEF PassOK
<1>8. CASE EndPass(r)
  <2>1. CASE run[r].allHealthy /\ Goto(r, "list")
    BY <1>0, <1>8, <2>1, Moved DEF EndPass, PassOK, SameBut, Outside
  <2> QED BY <1>1, <1>2, <1>8, <2>1 DEF EndPass, Points
<1>9. CASE ListResources(r) /\ ~ Fail(r)
  BY <1>0, <1>9, Listed DEF ListResources, PassOK, SameBut, Outside
<1>10. CASE DownRemoves(r)
  <2>1. run'[r] = run[r] /\ run[r].pc = "down"
    BY <1>10 DEF DownRemoves
  <2>2. \A s \in Names : health'[r][s] \in {health[r][s], "none"}
    BY <1>10 DEF DownRemoves, TypeOK
  <2> QED BY <2>1, <2>2 DEF PassOK
<1>11. CASE RemoveImages(r)
  <2>1. run'[r].pc = "verify" /\ run'[r].answered = run[r].answered /\ health' = health
    BY <1>11 DEF RemoveImages, TypeOK, RunState
  <2> QED BY <2>1 DEF PassOK
<1>12. CASE VerifyGone(r)
  <2>1. CASE run[r].pc = "verify" /\ run' = [run EXCEPT ![r].kinds = Tail(@)]
    <3>1. run'[r].pc = "verify" /\ run'[r].answered = run[r].answered
      BY <2>1 DEF TypeOK, RunState
    <3> QED BY <1>12, <3>1 DEF PassOK, VerifyGone, Outside
  <2> QED BY <1>2, <1>12, <2>1 DEF VerifyGone, Points
<1>13. CASE Signal(r) \/ Expire(r)
  <2>1. SameBut(r, {"canceled", "expired"}) /\ health' = health
    BY <1>13 DEF Signal, Expire, Outside, SameBut, TypeOK, RunState
  <2> QED BY <1>0, <2>1 DEF PassOK, SameBut
<1>14. CASE Declines(r)
  <2>1. run'[r] = run[r]
    BY <1>14 DEF Declines
  <2>2. \A s \in Names : \/ health'[r][s] = health[r][s]
                         \/ health'[r][s] \in {"starting", "exited"} /\ health[r][s] # "exited"
    BY <1>14 DEF Declines, TypeOK
  <2>3. run[r].dead \subseteq Names
    BY Documented DEF TypeOK, RunState, IsDocument
  <2> QED BY <1>0, <2>1, <2>2, <2>3 DEF PassOK
<1>15. ASSUME NEW s \in Names, BecomesHealthy(r, s) PROVE PassOK(r)'
  <2>1. run'[r].answered = run[r].answered \union {s} /\ SameBut(r, {"answered"})
    BY <1>15 DEF BecomesHealthy, TypeOK, RunState, SameBut
  <2>2. /\ \A t \in Names \ {s} : health'[r][t] = health[r][t]
        /\ health[r][s] = "starting" /\ health'[r][s] = "healthy"
    BY <1>15 DEF BecomesHealthy, TypeOK
  <2>3. run[r].dead \subseteq Names
    BY Documented DEF TypeOK, RunState, IsDocument
  <2> QED BY <1>0, <2>1, <2>2, <2>3 DEF PassOK, SameBut
<1> QED BY <1>1, <1>3, <1>4, <1>5, <1>6, <1>7, <1>8, <1>9, <1>10, <1>11, <1>12, <1>13, <1>14, <1>15
  DEF Program, Environment, BeginPass, InspectService, ListResources

-----------------------------------------------------------------------------
\* Two projects have no object in common that one of them made, when the file
\* does not write out the names Compose gives.
LEMMA OwnPlace ==
  ASSUME TypeOK, ObjectsOK, Accepts(document), Unnamed,
         NEW r \in Runs, NEW k \in DOMAIN document.resources,
         document.resources[k].kind \in {"network", "volume"},
         Exists(Place(r, document, k)), ~ document.resources[k].external
  PROVE  objects[Place(r, document, k)].project = r
<1> DEFINE p == Place(r, document, k)
           project == objects[p].project
<1>1. document.resources[k].name = ""
  BY Documented DEF IsDocument, Resource, Unnamed, Accepts, ValidResource
<1>2. p.name = k /\ p.kind \in {"network", "volume"} /\ p.scope = r
  BY <1>1 DEF Place
<1>3. Home(document, p, project)
  BY DEF ObjectsOK, ObjectOK, Exists
<1>4. p = Place(project, document, k)
  BY <1>2, <1>3 DEF Home, Place, Of
<1> QED BY <1>1, <1>2, <1>4 DEF Place

\* What cleanup takes away was made by its run.
LEMMA RemovedIsOwn ==
  ASSUME TypeOK, ObjectsOK, Accepts(document), Unnamed, NEW r \in Runs, Removed(r),
         NEW p \in DOMAIN objects \ DOMAIN objects'
  PROVE  objects[p].project = r
<1>1. CASE p.kind = "image" /\ objects[p].label = r
  BY <1>1, RunsAssumption DEF ObjectsOK, ObjectOK
<1>2. CASE p \in Owned(r) /\ p.kind = "volume"
  <2>1. p = Place(r, document, p.name) /\ ~ document.resources[p.name].external
    BY <1>2 DEF Owned
  <2>a. Home(document, p, objects[p].project)
    BY DEF ObjectsOK, ObjectOK
  <2> DEFINE project == objects[p].project
  <2>b. PICK k \in DOMAIN document.resources : p = Place(project, document, k)
    BY <1>2, <2>a DEF Home, Of
  <2> HIDE DEF project
  <2>2. p.name \in DOMAIN document.resources
    BY <2>b DEF Place
  <2>3. document.resources[p.name].kind = "volume"
    BY <1>2, <2>b DEF Place
  <2> QED BY <2>1, <2>2, <2>3, OwnPlace DEF Exists
<1>3. CASE p \in Owned(r) /\ p.kind # "volume"
  BY <1>3 DEF Owned
<1> QED BY <1>1, <1>2, <1>3 DEF Removed

\* The networks of the selected services are among what the run needs.
LEMMA JoinedIsNeeded ==
  ASSUME TypeOK, Accepts(document), NEW r \in Runs
  PROVE  Joined(r) \subseteq Needed(r)
BY StartedIsSelected DEF Joined, Needed

\* While a network is missing there is something that `up' can make.
LEMMA PendingNetwork ==
  ASSUME TypeOK, NEW r \in Runs, NEW p \in Needed(r) \ run[r].seenTo, p.kind = "network"
  PROVE  Pending(r) # {}
<1> DEFINE left == Needed(r) \ run[r].seenTo
<1>1. \A q \in left : q.kind \in {"image", "network", "volume", "container"}
  BY NeededHome DEF Places, Kinds
<1>2. /\ DOMAIN Order = 1..4
      /\ Order[1] = "image" /\ Order[2] = "network"
      /\ Order[3] = "volume" /\ Order[4] = "container"
  BY DEF Order
<1>3. CASE \E q \in left : q.kind = "image"
  <2>1. PICK q \in left : q.kind = "image"
    BY <1>3
  <2>2. \A i, j \in DOMAIN Order : Order[j] = q.kind => j <= i
    BY <1>2, <2>1
  <2>3. q \in Pending(r)
    BY <2>1, <2>2 DEF Pending
  <2> QED BY <2>3
<1>4. CASE \A q \in left : q.kind # "image"
  <2>1. \A q \in left : \A i, j \in DOMAIN Order :
          Order[i] = q.kind /\ Order[j] = p.kind => j <= i
    BY <1>1, <1>2, <1>4
  <2>2. p \in Pending(r)
    BY <2>1 DEF Pending
  <2> QED BY <2>2
<1> QED BY <1>3, <1>4

LEMMA NeededKept ==
  ASSUME document' = document, NEW r \in Runs
  PROVE  Needed(r)' = Needed(r) /\ Joined(r)' = Joined(r)
BY DEF Needed, Joined, Started, UsedKeys, Place, Of

\* The networks that lead to the services of a run are there and known.
LEMMA NetworksStep ==
  ASSUME TypeOK, ObjectsOK, NEW r \in Runs, ControlOK(r), NetworksOK(r),
         Program(r) \/ Environment(r)
  PROVE  NetworksOK(r)'
<1> DEFINE starting == {"up", "count", "poll", "inspect", "list", "ready"}
<1>0. /\ Needed(r)' = Needed(r) /\ Joined(r)' = Joined(r) /\ Unnamed' = Unnamed
  BY Fixed, NeededKept DEF Unnamed
<1>1. ASSUME Fail(r) PROVE NetworksOK(r)'
  BY <1>0, <1>1, Failed DEF NetworksOK, SameBut
<1>2. ASSUME NEW point \in Points \ {"validate", "override", "up", "count", "poll", "inspect", "list", "ready"},
             Goto(r, point)
      PROVE  NetworksOK(r)'
  BY <1>0, <1>2, Moved DEF NetworksOK, SameBut
<1>3. ASSUME NEW point \in {"poll", "inspect", "list"}, Outside, run'[r].pc = point,
             run[r].pc \in {"count", "poll", "inspect"}, run'[r].seenTo = run[r].seenTo
      PROVE  NetworksOK(r)'
  BY <1>0, <1>3 DEF NetworksOK, Outside, Exists
<1>4. CASE Validate(r)
  <2>1. /\ run'[r].pc \in {"override", "over"} /\ run[r].pc = "validate"
        /\ run'[r].seenTo = run[r].seenTo
    BY <1>4, Moved DEF Validate, SameBut
  <2> QED BY <1>0, <2>1 DEF NetworksOK
<1>5. CASE WriteOverride(r)
  <2>1. /\ run'[r].pc \in {"up", "failed"} /\ run[r].pc = "override"
        /\ run'[r].seenTo = run[r].seenTo
    <3>1. CASE Goto(r, "up")
      BY <1>5, <3>1, Moved DEF WriteOverride, SameBut
    <3>2. CASE Return(r, "failed", FALSE)
      BY <1>5, <3>2, Returned DEF WriteOverride, SameBut
    <3> QED BY <1>5, <3>1, <3>2 DEF WriteOverride
  <2> QED BY <1>0, <2>1 DEF NetworksOK
<1>6. CASE UpMakes(r)
  <2>1. PICK p \in Pending(r) : /\ IF Exists(p) THEN Outside ELSE Make(r, p)
                                /\ run' = [run EXCEPT ![r].seenTo = @ \union {p}]
    BY <1>6 DEF UpMakes
  <2>2. /\ run[r].pc = "up" /\ run'[r].pc = "up"
        /\ run'[r].seenTo = run[r].seenTo \union {p}
    BY <1>6, <2>1 DEF UpMakes, TypeOK, RunState
  <2>3. DOMAIN objects' = DOMAIN objects \union {p}
    BY <2>1 DEF Exists, Outside, Make
  <2>4. p \in Needed(r)
    BY DEF Pending
  <2> QED BY <1>0, <2>2, <2>3, <2>4 DEF NetworksOK, Exists
<1>7. CASE UpEnds(r) /\ Pending(r) = {} /\ Goto(r, "count")
  <2>1. run[r].pc = "up" /\ run'[r].pc = "count" /\ run'[r].seenTo = run[r].seenTo
    BY <1>7, Moved DEF UpEnds, SameBut
  <2>2. Joined(r) \subseteq Needed(r)
    BY <2>1, JoinedIsNeeded DEF ControlOK
  <2>3. \A p \in Joined(r) : p.kind = "network"
    BY DEF Joined
  <2>4. Joined(r) \subseteq run[r].seenTo
    BY <1>7, <2>2, <2>3, PendingNetwork
  <2> QED BY <1>0, <1>7, <2>1, <2>4 DEF NetworksOK, UpEnds, Outside, Exists
<1>8. CASE CountContainers(r) \/ EndPass(r)
  <2>1. ASSUME NEW point \in {"poll", "list"}, Goto(r, point), Outside,
               run[r].pc \in {"count", "inspect"}
        PROVE  NetworksOK(r)'
    BY <1>3, <2>1, Moved DEF SameBut
  <2>2. CASE CountContainers(r)
    BY <1>1, <2>1, <2>2 DEF CountContainers
  <2>3. CASE EndPass(r)
    BY <1>1, <2>1, <2>3 DEF EndPass
  <2> QED BY <1>8, <2>2, <2>3
<1>9. CASE BeginPass(r) /\ ~ Fail(r)
  <2>1. run'[r].pc = "inspect" /\ SameBut(r, {"pc", "left", "allHealthy", "dead"})
    BY <1>9, Passed
  <2>2. run'[r].seenTo = run[r].seenTo
    BY <2>1 DEF SameBut
  <2>3. run[r].pc = "poll" /\ Outside
    BY <1>9 DEF BeginPass
  <2> QED BY <1>3, <2>1, <2>2, <2>3
<1>10. CASE InspectService(r) /\ ~ Fail(r)
  <2>1. SameBut(r, {"left", "allHealthy"})
    BY <1>10, Inspected
  <2>2. run'[r].pc = run[r].pc /\ run'[r].seenTo = run[r].seenTo
    BY <2>1 DEF SameBut
  <2>3. run[r].pc = "inspect" /\ Outside
    BY <1>10 DEF InspectService
  <2> QED BY <1>3, <2>2, <2>3
<1>11. CASE ListResources(r) /\ ~ Fail(r)
  <2>1. /\ run[r].pc = "list" /\ run'[r].pc = "ready" /\ Outside
        /\ run'[r].networks = NetworksOf(r) /\ run'[r].seenTo = run[r].seenTo
    BY <1>11, Listed DEF ListResources, SameBut
  <2>2. Joined(r) \subseteq NetworksOf(r)
    BY DEF Joined, NetworksOf
  <2> QED BY <1>0, <2>1, <2>2 DEF NetworksOK, Outside, Exists
<1>12. CASE BeginCleanup(r) \/ DownEnds(r)
  BY <1>2, <1>12 DEF BeginCleanup, DownEnds, Points
<1>13. CASE DownRemoves(r)
  BY <1>0, <1>13 DEF DownRemoves, NetworksOK
<1>14. CASE RemoveImages(r)
  <2>1. run'[r].pc = "verify" /\ run'[r].seenTo = run[r].seenTo
    BY <1>14 DEF RemoveImages, TypeOK, RunState
  <2> QED BY <1>0, <2>1 DEF NetworksOK
<1>15. CASE VerifyGone(r)
  <2>1. CASE run[r].pc = "verify" /\ run' = [run EXCEPT ![r].kinds = Tail(@)]
    <3>1. run'[r].pc = "verify" /\ run'[r].seenTo = run[r].seenTo
      BY <2>1 DEF TypeOK, RunState
    <3> QED BY <1>0, <3>1 DEF NetworksOK
  <2> QED BY <1>2, <1>15, <2>1 DEF VerifyGone, Points
<1>16. CASE Signal(r) \/ Expire(r) \/ Declines(r) \/ \E s \in Names : BecomesHealthy(r, s)
  <2>1. /\ run'[r].pc = run[r].pc /\ run'[r].seenTo = run[r].seenTo
        /\ run'[r].networks = run[r].networks /\ objects' = objects
    BY <1>16 DEF Signal, Expire, Declines, BecomesHealthy, Outside, TypeOK, RunState
  <2> QED BY <1>0, <2>1 DEF NetworksOK, Exists
<1>17. CASE Appears(r)
  <2>1. /\ run'[r].pc = run[r].pc /\ run'[r].seenTo = run[r].seenTo
        /\ run[r].pc \in Stopping
    BY <1>17 DEF Appears, ControlOK, TypeOK, RunState
  <2> QED BY <1>0, <2>1 DEF NetworksOK, Stopping
<1> QED BY <1>1, <1>4, <1>5, <1>6, <1>7, <1>8, <1>9, <1>10, <1>11, <1>12, <1>13, <1>14, <1>15,
  <1>16, <1>17 DEF Program, Environment, UpEnds, BeginPass, InspectService, ListResources

\* Where one looks for a kind one finds all of a run.
LEMMA FoundAll ==
  ASSUME TypeOK, ObjectsOK, NEW r \in Runs, NEW p \in OfRun(r), NEW kind, ~ Found(r, kind)
  PROVE  p.kind # kind
BY RunsAssumption DEF OfRun, Found, ObjectsOK, ObjectOK

\* A verification misses nothing but what came late.
LEMMA GoneStep ==
  ASSUME TypeOK, ObjectsOK, NEW r \in Runs, ControlOK(r), GoneOK(r), Program(r) \/ Environment(r)
  PROVE  GoneOK(r)'
<1>0. late \subseteq late'
  BY Fixed
<1>1. ASSUME run'[r].pc \notin {"verify", "gone"} PROVE GoneOK(r)'
  BY <1>1 DEF GoneOK
<1>2. ASSUME run'[r].pc = run[r].pc, run'[r].kinds = run[r].kinds, OfRun(r)' \subseteq OfRun(r)
      PROVE  GoneOK(r)'
  BY <1>0, <1>2 DEF GoneOK
<1>3. ASSUME Fail(r) PROVE GoneOK(r)'
  BY <1>1, <1>3, Failed
<1>4. ASSUME NEW point \in Points \ {"verify", "gone"}, Goto(r, point) PROVE GoneOK(r)'
  BY <1>1, <1>4, Moved
<1>5. CASE \/ Validate(r) \/ UpEnds(r) \/ CountContainers(r) \/ EndPass(r)
           \/ BeginCleanup(r) \/ DownEnds(r)
  BY <1>3, <1>4, <1>5
    DEF Validate, UpEnds, CountContainers, EndPass, BeginCleanup, DownEnds, Points
<1>6. CASE WriteOverride(r)
  <2>1. run'[r].pc \in {"up", "failed"}
    BY <1>6, Moved, Returned DEF WriteOverride
  <2> QED BY <1>1, <2>1
<1>7. CASE UpMakes(r)
  <2>1. run'[r].pc = "up"
    BY <1>7 DEF UpMakes, TypeOK, RunState
  <2> QED BY <1>1, <2>1
<1>8. CASE (BeginPass(r) \/ InspectService(r) \/ ListResources(r)) /\ ~ Fail(r)
  <2>1. CASE InspectService(r) /\ ~ Fail(r)
    <3>1. run'[r].pc = "inspect"
      BY <2>1, Inspected DEF InspectService, SameBut
    <3> QED BY <1>1, <3>1
  <2>2. CASE (BeginPass(r) \/ ListResources(r)) /\ ~ Fail(r)
    <3>1. run'[r].pc \in {"inspect", "ready"}
      BY <2>2, Passed, Listed
    <3> QED BY <1>1, <3>1
  <2> QED BY <1>8, <2>1, <2>2
<1>9. CASE DownRemoves(r)
  BY <1>1, <1>9 DEF DownRemoves
<1>10. CASE RemoveImages(r)
  <2>1. run'[r].pc = "verify" /\ run'[r].kinds = Verified
    BY <1>10 DEF RemoveImages, TypeOK, RunState
  <2>2. OfRun(r)' \subseteq Places
    BY <1>10 DEF RemoveImages, OfRun, TypeOK
  <2>3. /\ DOMAIN Verified = 1..4
        /\ Verified[1] = "container" /\ Verified[2] = "network"
        /\ Verified[3] = "volume" /\ Verified[4] = "image"
    BY DEF Verified
  <2>4. \A kind \in Kinds : \E i \in DOMAIN Verified : Verified[i] = kind
    BY <2>3 DEF Kinds
  <2>5. \A p \in OfRun(r)' : p.kind \in Kinds
    BY <2>2 DEF Places
  <2> QED BY <2>1, <2>4, <2>5 DEF GoneOK, Remaining
<1>11. CASE VerifyGone(r)
  <2>1. /\ OfRun(r)' = OfRun(r) /\ run[r].pc = "verify" /\ run[r].kinds \in Remaining
        /\ \A p \in OfRun(r) \ late : \E i \in DOMAIN run[r].kinds : run[r].kinds[i] = p.kind
    BY <1>11 DEF VerifyGone, Outside, OfRun, GoneOK
  <2>2. CASE run[r].kinds = <<>> /\ Goto(r, "gone")
    <3>1. run'[r].pc = "gone" /\ OfRun(r) \subseteq late
      BY <2>1, <2>2, Moved
    <3> QED BY <1>0, <2>1, <3>1 DEF GoneOK
  <2>3. CASE /\ run[r].kinds # <<>> /\ ~ Found(r, Head(run[r].kinds))
             /\ run' = [run EXCEPT ![r].kinds = Tail(@)]
    <3>1. run'[r].pc = "verify" /\ run'[r].kinds = Tail(run[r].kinds)
      BY <2>1, <2>3 DEF TypeOK, RunState
    <3>2. Tail(run[r].kinds) \in Remaining
      <4>1. /\ Tail(Verified) = <<"network", "volume", "image">>
            /\ Tail(<<"network", "volume", "image">>) = <<"volume", "image">>
            /\ Tail(<<"volume", "image">>) = <<"image">>
            /\ Tail(<<"image">>) = <<>>
        BY DEF Verified
      <4> QED BY <2>1, <2>3, <4>1 DEF Remaining
    <3>3. ASSUME NEW p \in OfRun(r) \ late
          PROVE  \E i \in DOMAIN Tail(run[r].kinds) : Tail(run[r].kinds)[i] = p.kind
      <4>1. p.kind # Head(run[r].kinds)
        BY <2>3, FoundAll
      <4>2. PICK i \in DOMAIN run[r].kinds : run[r].kinds[i] = p.kind
        BY <2>1
      <4>3. run[r].kinds \in Seq(Kinds)
        BY DEF TypeOK, RunState
      <4>4. i # 1 /\ i \in 1..Len(run[r].kinds)
        BY <4>1, <4>2, <4>3
      <4>5. i - 1 \in DOMAIN Tail(run[r].kinds) /\ Tail(run[r].kinds)[i - 1] = p.kind
        BY <2>3, <4>2, <4>3, <4>4
      <4> QED BY <4>5
    <3> QED BY <1>0, <2>1, <3>1, <3>2, <3>3 DEF GoneOK
  <2> QED BY <1>4, <1>11, <2>2, <2>3 DEF VerifyGone, Points
<1>12. CASE Signal(r) \/ Expire(r) \/ Declines(r) \/ \E s \in Names : BecomesHealthy(r, s)
  <2>1. run'[r].pc = run[r].pc /\ run'[r].kinds = run[r].kinds /\ objects' = objects
    BY <1>12 DEF Signal, Expire, Declines, BecomesHealthy, Outside, TypeOK, RunState
  <2> QED BY <1>2, <2>1 DEF OfRun
<1>13. CASE Appears(r)
  <2>1. run'[r].pc = run[r].pc /\ run'[r].kinds = run[r].kinds
    BY <1>13 DEF Appears, TypeOK, RunState
  <2>2. OfRun(r)' \ late' \subseteq OfRun(r) \ late
    BY <1>13 DEF Appears, Make, OfRun
  <2> QED BY <2>1, <2>2 DEF GoneOK
<1> QED BY <1>3, <1>5, <1>6, <1>7, <1>8, <1>9, <1>10, <1>11, <1>12, <1>13
  DEF Program, Environment

-----------------------------------------------------------------------------
\* Only a signal interrupts a run and only the clock makes it late.
LEMMA ControlKept ==
  ASSUME TypeOK, NEW r \in Runs, Program(r) \/ Environment(r)
  PROVE  /\ Program(r) => run'[r].canceled = run[r].canceled
         /\ run'[r].canceled = run[r].canceled \/ Signal(r)
         /\ run'[r].expired = run[r].expired \/ Expire(r)
<1> DEFINE Same == run'[r].canceled = run[r].canceled /\ run'[r].expired = run[r].expired
<1>1. ASSUME NEW fields, SameBut(r, fields), "canceled" \notin fields, "expired" \notin fields
      PROVE  Same
  BY <1>1 DEF SameBut
<1>2. ASSUME NEW point, Goto(r, point) PROVE Same
  BY <1>1, <1>2, Moved
<1>3. ASSUME NEW outcome, NEW overridden, Return(r, outcome, overridden) PROVE Same
  BY <1>1, <1>3, Returned
<1>4. ASSUME \/ Validate(r) \/ WriteOverride(r) \/ UpEnds(r) \/ CountContainers(r)
             \/ EndPass(r) \/ BeginCleanup(r) \/ DownEnds(r)
      PROVE  Same
  BY <1>2, <1>3, <1>4 DEF Validate, WriteOverride, UpEnds, CountContainers, EndPass,
    BeginCleanup, DownEnds, Fail
<1>5. ASSUME BeginPass(r) \/ InspectService(r) \/ ListResources(r) PROVE Same
  <2>1. CASE Fail(r)
    BY <1>3, <2>1 DEF Fail
  <2>2. CASE ~ Fail(r)
    BY <1>1, <1>5, <2>2, Passed, Inspected, Listed
  <2> QED BY <2>1, <2>2
<1>6. ASSUME VerifyGone(r) PROVE Same
  <2>1. CASE run' = [run EXCEPT ![r].kinds = Tail(@)]
    BY <2>1 DEF TypeOK, RunState
  <2> QED BY <1>2, <1>6, <2>1 DEF VerifyGone
<1>7. ASSUME DownRemoves(r) \/ Declines(r) PROVE Same
  BY <1>7 DEF DownRemoves, Declines
<1>8. ASSUME RemoveImages(r) PROVE Same
  BY <1>8 DEF RemoveImages, TypeOK, RunState
<1>9. ASSUME UpMakes(r) \/ Appears(r) \/ \E s \in Names : BecomesHealthy(r, s) PROVE Same
  BY <1>9 DEF UpMakes, Appears, BecomesHealthy, TypeOK, RunState
<1>10. Signal(r) => run'[r].expired = run[r].expired
  BY DEF Signal, TypeOK, RunState
<1>11. Expire(r) => run'[r].canceled = run[r].canceled
  BY DEF Expire, TypeOK, RunState
<1>12. Program(r) => Same
  BY <1>4, <1>5, <1>6, <1>7, <1>8, <1>9 DEF Program
<1>13. Environment(r) => Same \/ Signal(r) \/ Expire(r)
  BY <1>7, <1>9 DEF Environment
<1> QED BY <1>10, <1>11, <1>12, <1>13

\* A service exits only by a fault.
LEMMA ExitedKept ==
  ASSUME TypeOK, NEW r \in Runs, Program(r) \/ Environment(r), NEW s \in Names,
         health'[r][s] = "exited"
  PROVE  health[r][s] = "exited" \/ "exit" \in faults
<1>1. CASE UpMakes(r) \/ Appears(r)
  BY <1>1, MadeHealth DEF UpMakes, Appears, Outside
<1>2. CASE DownRemoves(r)
  BY <1>2 DEF DownRemoves, TypeOK
<1>3. CASE Declines(r)
  BY <1>3 DEF Declines, TypeOK
<1>4. CASE \E t \in Names : BecomesHealthy(r, t)
  BY <1>4 DEF BecomesHealthy, TypeOK
<1>5. CASE \/ Validate(r) \/ WriteOverride(r) \/ UpEnds(r) \/ CountContainers(r)
           \/ BeginPass(r) \/ InspectService(r) \/ EndPass(r) \/ ListResources(r)
           \/ BeginCleanup(r) \/ DownEnds(r) \/ RemoveImages(r) \/ VerifyGone(r)
           \/ Signal(r) \/ Expire(r)
  BY <1>5 DEF Validate, WriteOverride, UpEnds, CountContainers, BeginPass, InspectService,
    EndPass, ListResources, BeginCleanup, DownEnds, RemoveImages, VerifyGone, Signal,
    Expire, Outside
<1> QED BY <1>1, <1>2, <1>3, <1>4, <1>5 DEF Program, Environment

\* Where a run comes up it has been before, or it has just begun.
LEMMA UpKept ==
  ASSUME TypeOK, NEW r \in Runs, ControlOK(r), Program(r) \/ Environment(r), run'[r].pc = "up"
  PROVE  /\ run[r].pc = "up" \/ (run[r].pc = "override" /\ UNCHANGED objects)
         /\ UpMakes(r) \/ run'[r].seenTo = run[r].seenTo
<1>1. CASE WriteOverride(r)
  <2>1. run[r].pc = "override" /\ UNCHANGED objects
    BY <1>1 DEF WriteOverride, Outside
  <2>2. SameBut(r, {"pc"}) \/ SameBut(r, {"pc", "registered", "killed"})
    BY <1>1, Moved, Returned DEF WriteOverride
  <2>3. run'[r].seenTo = run[r].seenTo
    BY <2>2 DEF SameBut
  <2> QED BY <2>1, <2>3
<1>2. CASE UpMakes(r)
  BY <1>2 DEF UpMakes
<1>3. CASE \/ Validate(r) \/ UpEnds(r) \/ CountContainers(r)
           \/ EndPass(r) \/ BeginCleanup(r) \/ DownEnds(r)
  BY <1>3, Moved, Failed DEF Validate, UpEnds, CountContainers, EndPass, BeginCleanup, DownEnds
<1>4. CASE BeginPass(r) \/ ListResources(r)
  BY <1>4, Passed, Listed, Failed
<1>5. CASE InspectService(r)
  <2>1. CASE ~ Fail(r)
    BY <1>5, <2>1, Inspected DEF InspectService, SameBut
  <2> QED BY <2>1, Failed
<1>6. CASE VerifyGone(r)
  <2>1. CASE run[r].pc = "verify" /\ run' = [run EXCEPT ![r].kinds = Tail(@)]
    BY <2>1 DEF TypeOK, RunState
  <2> QED BY <1>6, <2>1, Moved DEF VerifyGone
<1>7. CASE DownRemoves(r) \/ Declines(r)
  BY <1>7 DEF DownRemoves, Declines
<1>8. CASE RemoveImages(r)
  <2>1. run'[r].pc = "verify"
    BY <1>8 DEF RemoveImages, TypeOK, RunState
  <2> QED BY <2>1
<1>9. CASE Signal(r) \/ Expire(r) \/ Appears(r) \/ \E s \in Names : BecomesHealthy(r, s)
  <2>1. run'[r].pc = run[r].pc /\ run'[r].seenTo = run[r].seenTo
    BY <1>9 DEF Signal, Expire, Appears, BecomesHealthy, TypeOK, RunState
  <2> QED BY <2>1
<1> QED BY <1>1, <1>2, <1>3, <1>4, <1>5, <1>6, <1>7, <1>8, <1>9 DEF Program, Environment

\* What a run makes is its own, and nothing of another.
LEMMA AddedOf ==
  ASSUME NEW r \in Runs, NEW p, Added(r, p)
  PROVE  /\ OfRun(r)' = OfRun(r) \union {p} /\ p \notin OfRun(r)
         /\ \A q \in Runs \ {r} : OfRun(q)' = OfRun(q) /\ p \notin OfRun(q)
BY DEF Added, OfRun

\* Nothing goes wrong without a cause.
LEMMA CauseStep ==
  ASSUME TypeOK, ObjectsOK, NEW r \in Runs, ControlOK(r), CauseOK(r),
         Program(r) \/ Environment(r)
  PROVE  CauseOK(r)'
<1>0. document' = document /\ faults' = faults /\ Passable' = Passable
  BY Fixed DEF Passable
<1>1. run'[r].expired => "slow" \in faults \/ ~ Passable
  <2>1. CASE Expire(r)
    <3>1. document.selected \subseteq DOMAIN document.services
      BY <2>1 DEF Expire, ControlOK, Accepts
    <3> QED BY <2>1, <3>1 DEF Expire, Passable
  <2> QED BY <2>1, ControlKept DEF CauseOK
<1>2. \A s \in Names : health'[r][s] = "exited" => "exit" \in faults
  BY ExitedKept DEF CauseOK
<1>3. run'[r].pc = "up" => OfRun(r)' \subseteq run'[r].seenTo
  <2> SUFFICES ASSUME run'[r].pc = "up" PROVE OfRun(r)' \subseteq run'[r].seenTo
    OBVIOUS
  <2>1. CASE run[r].pc = "override"
    <3>1. OfRun(r) = {} /\ UNCHANGED objects
      BY <2>1, UpKept DEF ControlOK, Starting, Stopping
    <3> QED BY <3>1 DEF OfRun
  <2>2. CASE run[r].pc = "up" /\ ~ UpMakes(r)
    <3>1. ~ run[r].killed
      BY <2>2 DEF ControlOK, Stopping
    <3>2. UNCHANGED objects
      BY <2>2, <3>1 DEF Program, Environment, Validate, WriteOverride, UpEnds,
        CountContainers, BeginPass, InspectService, EndPass, ListResources, BeginCleanup,
        DownRemoves, DownEnds, RemoveImages, VerifyGone, Signal, Expire, Declines,
        BecomesHealthy, Appears, Outside
    <3>3. run'[r].seenTo = run[r].seenTo
      BY <2>2, UpKept
    <3> QED BY <2>2, <3>2, <3>3 DEF CauseOK, OfRun
  <2>3. CASE UpMakes(r)
    <3>1. run[r].pc = "up" /\ Accepts(document)
      BY <2>3 DEF UpMakes, ControlOK
    <3>2. PICK p \in Pending(r) :
            /\ IF Exists(p) THEN Outside ELSE Make(r, p)
            /\ run' = [run EXCEPT ![r].seenTo = @ \union {p}]
      BY <2>3 DEF UpMakes
    <3>3. run'[r].seenTo = run[r].seenTo \union {p}
      BY <3>2 DEF TypeOK, RunState
    <3>4. CASE Exists(p)
      BY <3>1, <3>2, <3>3, <3>4 DEF Outside, OfRun, CauseOK
    <3>5. CASE ~ Exists(p)
      <4>1. Added(r, p)
        BY <3>1, <3>2, <3>5, MadeIsAdded DEF Pending
      <4> QED BY <3>1, <3>3, <4>1, AddedOf DEF CauseOK
    <3> QED BY <3>4, <3>5
  <2> QED BY <2>1, <2>2, <2>3, UpKept
<1> QED BY <1>0, <1>1, <1>2, <1>3 DEF CauseOK

-----------------------------------------------------------------------------
\* The other runs keep their part of the invariant.
LEMMA OthersStep ==
  ASSUME TypeOK, ObjectsOK, NEW r \in Runs, ControlOK(r), Program(r) \/ Environment(r),
         NEW q \in Runs \ {r}, ControlOK(q), PassOK(q), NetworksOK(q), GoneOK(q), CauseOK(q)
  PROVE  ControlOK(q)' /\ PassOK(q)' /\ NetworksOK(q)' /\ GoneOK(q)' /\ CauseOK(q)'
<1>0. /\ document' = document /\ faults' = faults /\ late \subseteq late'
      /\ run'[q] = run[q] /\ health'[q] = health[q] /\ OfRun(q)' \subseteq OfRun(q)
  BY Fixed, OthersKept
<1>1. ControlOK(q)'
  <2>1. Accepts(document)' <=> Accepts(document)
    BY <1>0 DEF Accepts, DependsOnListed, ValidService, ValidResource
  <2> QED BY <1>0, <2>1 DEF ControlOK, Starting
<1>2. PassOK(q)'
  BY <1>0 DEF PassOK
<1>3. ASSUME NEW p \in run[q].seenTo, p.kind = "network", Unnamed, Accepts(document), Exists(p)
      PROVE  Exists(p)'
  <2>1. CASE UNCHANGED objects
    BY <1>3, <2>1 DEF Exists
  <2>2. ASSUME NEW o, Added(r, o) PROVE Exists(p)'
    BY <1>3, <2>2 DEF Added, Exists
  <2>3. CASE Removed(r)
    <3>1. p \in Needed(q)
      BY DEF NetworksOK
    <3>2. /\ p.name \in DOMAIN document.resources /\ p = Place(q, document, p.name)
          /\ document.resources[p.name].kind = "network"
      BY <1>3, <3>1, NeededHome
    <3>3. CASE document.resources[p.name].external
      <4>1. Place("none", document, p.name) = Place(q, document, p.name)
        BY <3>3 DEF Place
      <4>2. objects[p].project = "none"
        BY <3>2, <3>3, <4>1 DEF ObjectsOK, ExternalThere
      <4> QED BY <1>3, <2>3, <4>2, RemovedIsOwn, RunsAssumption DEF Exists
    <3>4. CASE ~ document.resources[p.name].external
      <4>1. objects[p].project = q
        BY <1>3, <3>2, <3>4, OwnPlace
      <4> QED BY <1>3, <2>3, <4>1, RemovedIsOwn DEF Exists
    <3> QED BY <3>3, <3>4
  <2> QED BY <2>1, <2>2, <2>3, ObjectsEffect
<1>4. NetworksOK(q)'
  <2>1. Needed(q)' = Needed(q) /\ Joined(q)' = Joined(q) /\ Unnamed' = Unnamed
    BY <1>0, NeededKept DEF Unnamed
  <2> QED BY <1>0, <1>3, <2>1 DEF NetworksOK, ControlOK
<1>5. GoneOK(q)'
  BY <1>0 DEF GoneOK
<1>6. CauseOK(q)'
  BY <1>0 DEF CauseOK, Passable
<1> QED BY <1>1, <1>2, <1>4, <1>5, <1>6

\* Only a late answer makes something late.
LEMMA LateStep ==
  ASSUME LateOK, NEW r \in Runs, Program(r) \/ Environment(r)
  PROVE  LateOK'
BY DEF LateOK, Program, Environment, Signal, Expire, Declines, BecomesHealthy, Appears

LEMMA InitIInv ==
  ASSUME Init PROVE IInv
<1>1. PICK i \in Instances :
        /\ document = i[1] /\ faults = i[2]
        /\ run = [r \in Runs |-> NewRun(IF r \in i[3] THEN "validate" ELSE "over")]
  BY DEF Init
<1>2. IsDocument(document)
  BY <1>1, InstancesAssumption
<1>3. /\ health = [r \in Runs |-> [s \in Names |-> "none"]] /\ late = {}
      /\ objects = [p \in {Place("none", document, k) :
                             k \in {l \in DOMAIN document.resources :
                                      /\ document.resources[l].external
                                      /\ document.resources[l].kind \in Kinds}} |->
                      [project |-> "none", label |-> "none"]]
  BY DEF Init
<1>4. \A p \in DOMAIN objects :
        /\ objects[p] = [project |-> "none", label |-> "none"]
        /\ \E k \in DOMAIN document.resources :
             /\ document.resources[k].external /\ document.resources[k].kind \in Kinds
             /\ p = Place("none", document, k)
  BY <1>3
<1>5. \A k \in DOMAIN document.resources :
        document.resources[k].kind \in Kinds => document.resources[k].kind \in {"network", "volume"}
  BY <1>2 DEF IsDocument, Resource, Kinds
<1>6. TypeOK
  <2>1. run \in [Runs -> RunState(document)]
    BY <1>1 DEF NewRun, RunState
  <2>2. DOMAIN objects \subseteq Places
    <3>1. ASSUME NEW k \in DOMAIN document.resources, document.resources[k].external,
                 document.resources[k].kind \in Kinds
          PROVE  Place("none", document, k) \in Places
      BY <1>2, <3>1 DEF IsDocument, Place, Places
    <3> QED BY <1>4, <3>1
  <2> QED BY <1>1, <1>3, <1>4, <2>1, <2>2 DEF TypeOK
<1>7. ObjectsOK
  <2>1. ASSUME NEW p \in DOMAIN objects PROVE ObjectOK(p)
    <3>1. PICK k \in DOMAIN document.resources :
            /\ document.resources[k].external /\ document.resources[k].kind \in Kinds
            /\ p = Place("none", document, k)
      BY <1>4
    <3>2. p.name = k /\ p.kind = document.resources[k].kind
      BY <3>1 DEF Place
    <3> QED BY <1>4, <1>5, <3>1, <3>2 DEF ObjectOK, Home
  <2>2. ExternalThere
    BY <1>3 DEF ExternalThere, Exists, Kinds
  <2> QED BY <2>1, <2>2 DEF ObjectsOK
<1>8. ASSUME NEW r \in Runs
      PROVE  ControlOK(r) /\ PassOK(r) /\ NetworksOK(r) /\ GoneOK(r) /\ CauseOK(r)
  <2>1. /\ run[r].pc \in {"validate", "over"} /\ ~ run[r].killed /\ run[r].seenTo = {}
        /\ ~ run[r].expired
        /\ \A s \in Names : health[r][s] = "none"
    BY <1>1, <1>3 DEF NewRun
  <2>2. OfRun(r) = {}
    BY <1>4, RunsAssumption DEF OfRun
  <2> QED BY <2>1, <2>2 DEF ControlOK, PassOK, NetworksOK, GoneOK, CauseOK
<1> QED BY <1>3, <1>6, <1>7, <1>8 DEF IInv, LateOK

LEMMA StepIInv ==
  ASSUME IInv, [Next]_vars PROVE IInv'
<1>1. ASSUME NEW r \in Runs, Program(r) \/ Environment(r) PROVE IInv'
  <2>1. TypeOK' /\ ObjectsOK' /\ LateOK'
    BY <1>1, TypeStep, ObjectsStep, LateStep DEF IInv
  <2>2. ControlOK(r)' /\ PassOK(r)' /\ NetworksOK(r)' /\ GoneOK(r)' /\ CauseOK(r)'
    BY <1>1, ControlStep, PassStep, NetworksStep, GoneStep, CauseStep DEF IInv
  <2>3. ASSUME NEW q \in Runs \ {r}
        PROVE  ControlOK(q)' /\ PassOK(q)' /\ NetworksOK(q)' /\ GoneOK(q)' /\ CauseOK(q)'
    BY <1>1, OthersStep DEF IInv
  <2> QED BY <2>1, <2>2, <2>3 DEF IInv
<1>2. CASE UNCHANGED vars
  <2>1. TypeOK' /\ ObjectsOK' /\ LateOK'
    BY <1>2 DEF vars, IInv, TypeOK, ObjectsOK, ObjectOK, ExternalThere, Exists, LateOK
  <2>2. ASSUME NEW r \in Runs PROVE ControlOK(r)' /\ PassOK(r)' /\ GoneOK(r)'
    BY <1>2 DEF vars, IInv, ControlOK, OfRun, Starting, Accepts, DependsOnListed,
      ValidService, ValidResource, PassOK, GoneOK
  <2>3. ASSUME NEW r \in Runs PROVE NetworksOK(r)'
    BY <1>2, NeededKept DEF vars, IInv, NetworksOK, Unnamed, Exists
  <2>4. ASSUME NEW r \in Runs PROVE CauseOK(r)'
    BY <1>2 DEF vars, IInv, CauseOK, OfRun, Passable
  <2> QED BY <2>1, <2>2, <2>3, <2>4 DEF IInv
<1> QED BY <1>1, <1>2 DEF Next, Terminated

-----------------------------------------------------------------------------
\* The invariant holds of every behaviour.
THEOREM Invariance == Spec => []IInv
<1>1. Init => IInv
  BY InitIInv
<1>2. IInv /\ [Next]_vars => IInv'
  BY StepIInv
<1> QED BY <1>1, <1>2, PTL DEF Spec

\* TypeOK: what the runs and Docker hold has its type, for every file, every
\* set of faults and every number of runs.
THEOREM TypeCorrect == Spec => []TypeOK
<1>1. IInv => TypeOK
  BY DEF IInv
<1> QED BY <1>1, Invariance, PTL

\* MadeIsKnown: whatever Docker made of a run carries its label, and once Start
\* has returned, whatever way it ended, the run is registered for cleanup.
THEOREM MadeIsKnownHolds == Spec => []MadeIsKnown
<1>1. IInv => MadeIsKnown
  <2>1. ASSUME IInv PROVE AllIsLabelled
    BY <2>1 DEF IInv, ObjectsOK, ObjectOK, AllIsLabelled
  <2>2. ASSUME IInv PROVE MadeIsRegistered
    BY <2>2 DEF IInv, ControlOK, MadeIsRegistered
  <2> QED BY <2>1, <2>2 DEF MadeIsKnown
<1> QED BY <1>1, Invariance, PTL

\* ReadyIsUsable: what Start hands to the components has been healthy and is
\* reached by networks that are there.
THEOREM ReadyIsUsableHolds == Spec => []ReadyIsUsable
<1>1. ASSUME IInv PROVE ReadyIsUsable
  <2>1. ReadyIsHealthy
    BY <1>1 DEF IInv, PassOK, ReadyIsHealthy
  <2>2. ASSUME NEW r \in Runs, Unnamed, run[r].pc = "ready",
               NEW s \in document.selected, NEW k \in UsedKeys(document, s),
               document.resources[k].kind = "network"
        PROVE  Exists(Place(r, document, k)) /\ Place(r, document, k) \in run[r].networks
    <3>1. Place(r, document, k) \in Joined(r) /\ Place(r, document, k).kind = "network"
      BY <2>2 DEF Joined, Place
    <3>2. NetworksOK(r)
      BY <1>1 DEF IInv
    <3> QED BY <2>2, <3>1, <3>2 DEF NetworksOK
  <2> QED BY <2>1, <2>2 DEF ReadyIsUsable, NetworksKnown
<1> QED BY <1>1, Invariance, PTL

\* GoneIsGone: a cleanup that found a run gone left nothing of it behind but
\* what Docker made after its client had been killed.
THEOREM GoneIsGoneHolds == Spec => []GoneIsGone
<1>1. IInv => GoneIsGone
  BY DEF IInv, GoneOK, GoneIsGone
<1> QED BY <1>1, Invariance, PTL

\* RunsAreApart: a step takes away only what was made by the run whose cleanup
\* it is, unless the file writes out the names Compose gives.
THEOREM RunsAreApartHolds == Spec => RunsAreApart
<1>1. ASSUME IInv, [Next]_vars, Unnamed, NEW p \in DOMAIN objects \ DOMAIN objects'
      PROVE  \E r \in Runs : objects[p].project = r /\ run[r].pc \in {"down", "images"}
  <2>1. PICK r \in Runs : Program(r) \/ Environment(r)
    BY <1>1 DEF Next, Terminated, vars
  <2>2. run[r].pc \in {"down", "images"} /\ Removed(r)
    BY <1>1, <2>1, ObjectsEffect DEF IInv, Added
  <2>3. Accepts(document)
    BY <1>1, <2>2 DEF IInv, ControlOK
  <2>4. objects[p].project = r
    BY <1>1, <2>2, <2>3, RemovedIsOwn DEF IInv
  <2> QED BY <2>2, <2>4
<1>2. IInv /\ [Next]_vars =>
        [Unnamed => \A p \in DOMAIN objects \ DOMAIN objects' :
           \E r \in Runs : objects[p].project = r /\ run[r].pc \in {"down", "images"}]_vars
  BY <1>1
<1> QED BY <1>2, Invariance, PTL DEF Spec, RunsAreApart

-----------------------------------------------------------------------------
\* Each step is one of the contract, or the contract does not see it.

Alone(r) == \A q \in Runs \ {r} : run'[q] = run[q]

LEMMA PhaseMoves ==
  ASSUME NEW r \in Runs, Alone(r), NEW from, NEW to,
         PhaseAt(run[r].pc) = from, PhaseAt(run'[r].pc) = to
  PROVE  Contract!Move(r, from, to)
BY DEF Alone, Phase, Contract!Move

LEMMA PhaseStays ==
  ASSUME NEW r \in Runs, Alone(r), PhaseAt(run'[r].pc) = PhaseAt(run[r].pc)
  PROVE  Phase' = Phase
BY DEF Alone, Phase

LEMMA PresentStays ==
  ASSUME Outside, UNCHANGED late
  PROVE  Present' = Present
BY DEF Outside, Present, OfRun

\* What a step leaves as it is, of what the contract speaks of.
LEMMA ContractKept ==
  ASSUME IInv, NEW r \in Runs, Program(r) \/ Environment(r)
  PROVE  /\ faults' = faults /\ Passable' = Passable /\ Unnamed' = Unnamed /\ Alone(r)
         /\ \A q \in Runs \ {r} : OfRun(q)' \subseteq OfRun(q)
         /\ Program(r) => Interrupted' = Interrupted
         /\ Interrupted' = Interrupted \/ Signal(r)
<1>1. faults' = faults /\ document' = document
  BY Fixed
<1>2. \A q \in Runs \ {r} : run'[q] = run[q] /\ OfRun(q)' \subseteq OfRun(q)
  BY OthersKept DEF IInv
<1>3. /\ Program(r) => run'[r].canceled = run[r].canceled
      /\ run'[r].canceled = run[r].canceled \/ Signal(r)
  BY ControlKept DEF IInv
<1> QED BY <1>1, <1>2, <1>3 DEF Passable, Unnamed, Alone, Interrupted

\* `up' never meets what another run made, unless its name is written out.
LEMMA NoConflict ==
  ASSUME TypeOK, ObjectsOK, Accepts(document), Unnamed, NEW r \in Runs, CauseOK(r),
         run[r].pc = "up", NEW p \in Pending(r), Exists(p)
  PROVE  objects[p].project = "none"
<1>1. p \in Needed(r) /\ p \notin run[r].seenTo
  BY DEF Pending
<1>2. objects[p].project # r
  BY <1>1 DEF CauseOK, OfRun, Exists
<1>3. CASE p.kind \in {"image", "container"}
  <2>1. p = Of(r, p.kind, p.name) /\ ObjectOK(p)
    BY <1>1, <1>3, NeededHome DEF ObjectsOK, Exists
  <2>2. p.scope = r
    BY <2>1 DEF Of
  <2>3. PICK kind \in {"image", "container"}, s \in Names : p = Of(objects[p].project, kind, s)
    <3>1. \A k : Place(objects[p].project, document, k).kind = document.resources[k].kind
      BY DEF Place
    <3> QED BY <1>3, <2>1, <3>1 DEF ObjectOK, Home
  <2> QED BY <1>2, <2>2, <2>3 DEF Of
<1>4. CASE p.kind \in {"network", "volume"}
  <2>1. /\ p.name \in DOMAIN document.resources /\ p = Place(r, document, p.name)
        /\ document.resources[p.name].kind = p.kind
    BY <1>1, <1>4, NeededHome
  <2>2. document.resources[p.name].external
    BY <1>2, <1>4, <2>1, OwnPlace
  <2>3. p = Place("none", document, p.name)
    BY <2>1, <2>2 DEF Place
  <2> QED BY <1>4, <2>1, <2>2, <2>3 DEF ObjectsOK, ExternalThere
<1> QED BY <1>1, <1>3, <1>4, NeededHome DEF Places, Kinds

\* A start that fails has a cause.
Caused(r) ==
  \/ r \in Interrupted \/ faults \intersect {"docker", "write", "exit", "slow"} # {}
  \/ ~ Passable \/ ~ Unnamed

LEMMA FailureIsCaused ==
  ASSUME IInv, NEW r \in Runs, Program(r), run[r].pc # "failed", run'[r].pc = "failed"
  PROVE  Starting(r) /\ Outside /\ UNCHANGED late /\ Caused(r)
<1>0. /\ TypeOK /\ ObjectsOK /\ ControlOK(r) /\ CauseOK(r) /\ UNCHANGED late
      /\ document.selected \subseteq DOMAIN document.services \/ run[r].pc \in {"validate", "over"}
  BY DEF IInv, Program, ControlOK, Accepts
<1>1. DockerFails(r) => Caused(r)
  BY DEF DockerFails, Caused, Interrupted
<1>2. CASE WriteOverride(r)
  <2>1. "write" \in faults
    <3>1. ~ Goto(r, "up")
      BY <1>0, Moved
    <3> QED BY <1>2, <3>1 DEF WriteOverride
  <2> QED BY <1>0, <1>2, <2>1 DEF WriteOverride, Starting, Caused
<1>3. CASE UpEnds(r)
  <2>1. run[r].pc = "up" /\ Accepts(document) /\ Outside
    BY <1>0, <1>3 DEF UpEnds, ControlOK
  <2>2. \/ DockerFails(r) \/ "slow" \in faults
        \/ \E p \in Pending(r) : Exists(p) /\ objects[p].project # "none"
    BY <1>0, <1>3, Moved DEF UpEnds
  <2>3. Caused(r)
    BY <1>0, <1>1, <2>1, <2>2, NoConflict DEF Caused
  <2> QED BY <1>0, <2>1, <2>3 DEF Starting
<1>4. CASE CountContainers(r)
  <2>1. DockerFails(r) \/ \E s \in document.selected : health[r][s] = "exited"
    BY <1>0, <1>4, Moved DEF CountContainers
  <2>2. document.selected \subseteq Names
    BY <1>0, Documented DEF IsDocument
  <2>3. Caused(r)
    BY <1>0, <1>1, <2>1, <2>2 DEF CauseOK, Caused
  <2> QED BY <1>0, <1>4, <2>3 DEF CountContainers, Starting
<1>5. CASE BeginPass(r)
  <2>1. run[r].expired
    <3> DEFINE new == [run[r] EXCEPT !.pc = "inspect", !.left = document.selected,
                  !.allHealthy = TRUE, !.dead = {s \in document.selected : health[r][s] = "exited"}]
    <3>1. run[r].expired \/ run' = [run EXCEPT ![r] = new]
      BY <1>5 DEF BeginPass
    <3>2. new.pc = "inspect"
      BY <1>0 DEF TypeOK, RunState
    <3> HIDE DEF new
    <3> QED BY <1>0, <3>1, <3>2 DEF TypeOK
  <2> QED BY <1>0, <1>5, <2>1 DEF BeginPass, Starting, CauseOK, Caused
<1>6. CASE InspectService(r)
  <2>1. Fail(r)
    BY <1>0, <1>6, Inspected DEF InspectService, SameBut
  <2>2. run[r].left \subseteq Names
    BY <1>0, Documented DEF TypeOK, RunState, IsDocument
  <2>3. DockerFails(r) \/ \E s \in Names : health[r][s] = "exited"
    <3>1. PICK s \in run[r].left :
            \/ DockerFails(r) \/ health[r][s] = "exited"
            \/ run' = [run EXCEPT ![r] = [@ EXCEPT !.left = run[r].left \ {s},
                                                   !.allHealthy = HealthyWith(r, s)]]
      BY <1>6 DEF InspectService
    <3>2. CASE run' = [run EXCEPT ![r] = [@ EXCEPT !.left = run[r].left \ {s},
                                                   !.allHealthy = HealthyWith(r, s)]]
      <4> DEFINE healthy == HealthyWith(r, s)
      <4> HIDE DEF healthy
      <4>1. run' = [run EXCEPT ![r] = [@ EXCEPT !.left = run[r].left \ {s},
                                                !.allHealthy = healthy]]
        BY <3>2 DEF healthy
      <4>2. run'[r].pc = run[r].pc
        BY <1>0, <4>1 DEF TypeOK, RunState
      <4> QED BY <4>2
    <3> QED BY <2>2, <3>1, <3>2
  <2>4. Caused(r)
    BY <1>0, <1>1, <2>3 DEF CauseOK, Caused
  <2> QED BY <1>0, <1>6, <2>4 DEF InspectService, Starting
<1>7. CASE EndPass(r)
  <2>1. run[r].canceled
    BY <1>0, <1>7, Moved DEF EndPass
  <2> QED BY <1>0, <1>7, <2>1 DEF EndPass, Starting, Caused, Interrupted
<1>8. CASE ListResources(r)
  <2>1. DockerFails(r)
    <3> DEFINE new == [run[r] EXCEPT !.pc = "ready", !.registered = TRUE,
                                     !.networks = NetworksOf(r)]
    <3>1. DockerFails(r) \/ run' = [run EXCEPT ![r] = new]
      BY <1>8 DEF ListResources
    <3>2. new.pc = "ready"
      BY <1>0 DEF TypeOK, RunState
    <3> HIDE DEF new
    <3> QED BY <1>0, <3>1, <3>2 DEF TypeOK
  <2> QED BY <1>0, <1>1, <1>8, <2>1 DEF ListResources, Starting
<1>9. CASE Validate(r) \/ BeginCleanup(r) \/ DownEnds(r)
  BY <1>0, <1>9, Moved DEF Validate, BeginCleanup, DownEnds
<1>10. CASE UpMakes(r) \/ DownRemoves(r) \/ RemoveImages(r)
  <2>1. CASE UpMakes(r)
    BY <1>0, <2>1 DEF UpMakes, TypeOK, RunState
  <2>2. CASE DownRemoves(r)
    BY <2>2 DEF DownRemoves
  <2>3. CASE RemoveImages(r)
    BY <1>0, <2>3 DEF RemoveImages, TypeOK, RunState
  <2> QED BY <1>10, <2>1, <2>2, <2>3
<1>11. CASE VerifyGone(r)
  <2>1. CASE run[r].pc = "verify" /\ run' = [run EXCEPT ![r].kinds = Tail(@)]
    BY <1>0, <2>1 DEF TypeOK, RunState
  <2> QED BY <1>0, <1>11, <2>1, Moved DEF VerifyGone
<1> QED BY <1>2, <1>3, <1>4, <1>5, <1>6, <1>7, <1>8, <1>9, <1>10, <1>11 DEF Program

\* Where a cleanup finds something of a run, there is something of it.
LEMMA FoundIsThere ==
  ASSUME TypeOK, ObjectsOK, NEW r \in Runs, NEW kind, Found(r, kind)
  PROVE  OfRun(r) # {}
BY DEF Found, OfRun

\* A cleanup takes nothing of another run.
LEMMA RemovalIsContract ==
  ASSUME IInv, NEW r \in Runs, Program(r), Removed(r), UNCHANGED late,
         PhaseAt(run[r].pc) = "cleanup", PhaseAt(run'[r].pc) = "cleanup"
  PROVE  Contract!Remove(r) /\ UNCHANGED <<faults, Passable, Unnamed>>
<1>0. /\ TypeOK /\ ObjectsOK /\ Accepts(document)
      /\ faults' = faults /\ Passable' = Passable /\ Unnamed' = Unnamed /\ Alone(r)
      /\ Interrupted' = Interrupted
  <2>1. TypeOK /\ ObjectsOK /\ ControlOK(r)
    BY DEF IInv
  <2>2. run[r].pc \in {"down", "images", "verify"}
    BY <2>1 DEF PhaseAt, TypeOK, RunState
  <2> QED BY <2>1, <2>2, ContractKept DEF ControlOK
<1>1. Phase' = Phase /\ Phase[r] = "cleanup"
  BY <1>0, PhaseStays DEF Phase
<1>2. \A q \in Runs : OfRun(q)' \subseteq OfRun(q)
  BY DEF Removed, OfRun
<1>3. Present' \subseteq Present
  BY <1>2 DEF Present
<1>4. ASSUME Unnamed, NEW q \in Runs \ {r} PROVE OfRun(q) \subseteq OfRun(q)'
  <2>1. ASSUME NEW p \in OfRun(q) PROVE objects[p].project = q /\ p \in DOMAIN objects
    BY <1>0, <2>1, RunsAssumption DEF OfRun, ObjectsOK, ObjectOK
  <2>2. ASSUME NEW p \in OfRun(q) PROVE p \in DOMAIN objects'
    BY <1>0, <1>4, <2>1, <2>2, RemovedIsOwn
  <2> QED BY <2>1, <2>2 DEF OfRun, Removed
<1>5. Unnamed => Present \ Present' \subseteq {r}
  BY <1>4 DEF Present
<1> QED BY <1>0, <1>1, <1>3, <1>5 DEF Contract!Remove

\* A start that makes something is one of the contract, or makes again what had
\* come late.
LEMMA MakingIsContract ==
  ASSUME IInv, NEW r \in Runs, UpMakes(r), Program(r)
  PROVE  [Contract!Next]_(Contract!vars)
<1>0. /\ TypeOK /\ ObjectsOK /\ run[r].pc = "up" /\ Accepts(document) /\ UNCHANGED late
      /\ faults' = faults /\ Passable' = Passable /\ Unnamed' = Unnamed /\ Alone(r)
      /\ Interrupted' = Interrupted /\ r \notin Interrupted
  BY ContractKept DEF IInv, UpMakes, ControlOK, Program, Interrupted
<1>1. run'[r].pc = run[r].pc
  BY <1>0 DEF UpMakes, TypeOK, RunState
<1>2. Phase' = Phase /\ Phase[r] = "starting"
  BY <1>0, <1>1, PhaseStays DEF Phase, PhaseAt
<1>3. Present' = Present \/ Present' = Present \union {r}
  <2>1. PICK p \in Pending(r) : IF Exists(p) THEN Outside ELSE Make(r, p)
    BY DEF UpMakes
  <2>2. CASE Exists(p)
    BY <1>0, <2>1, <2>2, PresentStays
  <2>3. CASE ~ Exists(p)
    <3>1. Added(r, p)
      BY <1>0, <2>1, <2>3, MadeIsAdded DEF Pending
    <3>2. /\ OfRun(r)' = OfRun(r) \union {p}
          /\ \A q \in Runs \ {r} : OfRun(q)' = OfRun(q)
      BY <3>1, AddedOf
    <3> QED BY <1>0, <3>2 DEF Present
  <2> QED BY <2>2, <2>3
<1>4. CASE Present' = Present
  BY <1>0, <1>2, <1>4 DEF Contract!vars
<1>5. CASE Present' = Present \union {r}
  <2>1. Contract!Make(r)
    BY <1>0, <1>2, <1>5 DEF Contract!Make
  <2> QED BY <1>0, <2>1 DEF Contract!Next
<1> QED BY <1>3, <1>4, <1>5

\* So is a step of the program that leaves Docker alone: it begins, returns,
\* begins its cleanup or concludes, or the contract does not see it.
LEMMA QuietIsContract ==
  ASSUME IInv, NEW r \in Runs, Program(r), Outside,
         \/ PhaseAt(run'[r].pc) = PhaseAt(run[r].pc)
         \/ run[r].pc = "validate" /\ run'[r].pc \in {"override", "over"}
         \/ run[r].pc = "list" /\ ~ run[r].canceled /\ run'[r].pc = "ready"
         \/ run[r].pc # "failed" /\ run'[r].pc = "failed"
         \/ run[r].pc \in {"ready", "failed"} /\ run'[r].pc = "down"
         \/ run[r].pc = "failed" /\ run'[r].pc = "over" /\ OfRun(r) = {}
         \/ run[r].pc = "verify" /\ run'[r].pc = "gone" /\ OfRun(r) \subseteq late
         \/ /\ run[r].pc = "verify" /\ run'[r].pc = "left"
            /\ OfRun(r) # {} \/ "docker" \in faults
  PROVE  [Contract!Next]_(Contract!vars)
<1>0. /\ faults' = faults /\ Passable' = Passable /\ Unnamed' = Unnamed /\ Alone(r)
      /\ Interrupted' = Interrupted /\ Present' = Present
  BY ContractKept, PresentStays DEF Program
<1> DEFINE from == PhaseAt(run[r].pc)
           to == PhaseAt(run'[r].pc)
<1>1. Contract!Move(r, from, to)
  BY <1>0, PhaseMoves
<1>2. CASE from = to
  BY <1>0, <1>2, PhaseStays DEF Contract!vars
<1>3. CASE run[r].pc = "validate" /\ run'[r].pc \in {"override", "over"}
  <2>1. from = "idle" /\ to \in {"starting", "over"}
    BY <1>3 DEF PhaseAt
  <2>2. Contract!Begin(r)
    BY <1>0, <1>1, <2>1 DEF Contract!Begin
  <2> QED BY <1>0, <2>2 DEF Contract!Next
<1>4. CASE run[r].pc = "list" /\ ~ run[r].canceled /\ run'[r].pc = "ready"
  <2>1. from = "starting" /\ to = "ready" /\ r \notin Interrupted
    BY <1>4 DEF PhaseAt, Interrupted
  <2>2. Contract!Return(r)
    BY <1>0, <1>1, <2>1 DEF Contract!Return
  <2> QED BY <1>0, <2>2 DEF Contract!Next
<1>5. CASE run[r].pc # "failed" /\ run'[r].pc = "failed"
  <2>1. Starting(r) /\ Caused(r)
    BY <1>5, FailureIsCaused
  <2>2. from = "starting" /\ to = "failed"
    BY <1>5, <2>1 DEF PhaseAt, Starting
  <2>3. Contract!Return(r)
    BY <1>0, <1>1, <2>1, <2>2 DEF Contract!Return, Contract!MayFail, Caused
  <2> QED BY <1>0, <2>3 DEF Contract!Next
<1>6. CASE run[r].pc \in {"ready", "failed"} /\ run'[r].pc = "down"
  <2>1. from \in {"ready", "failed"} /\ to = "cleanup"
    BY <1>6 DEF PhaseAt
  <2>2. Contract!BeginCleanup(r)
    BY <1>0, <1>1, <2>1 DEF Contract!BeginCleanup
  <2> QED BY <1>0, <2>2 DEF Contract!Next
<1>7. CASE run[r].pc = "failed" /\ run'[r].pc = "over" /\ OfRun(r) = {}
  <2>1. from = "failed" /\ to = "over" /\ r \notin Present
    BY <1>7 DEF PhaseAt, Present
  <2>2. Contract!BeginCleanup(r)
    BY <1>0, <1>1, <2>1 DEF Contract!BeginCleanup
  <2> QED BY <1>0, <2>2 DEF Contract!Next
<1>8. CASE run[r].pc = "verify" /\ run'[r].pc = "gone" /\ OfRun(r) \subseteq late
  <2>1. from = "cleanup" /\ to = "gone" /\ r \notin Present
    BY <1>8 DEF PhaseAt, Present
  <2>2. Contract!Conclude(r)
    BY <1>0, <1>1, <2>1 DEF Contract!Conclude
  <2> QED BY <1>0, <2>2 DEF Contract!Next
<1>9. CASE /\ run[r].pc = "verify" /\ run'[r].pc = "left"
           /\ OfRun(r) # {} \/ "docker" \in faults
  <2>1. from = "cleanup" /\ to = "left"
    BY <1>9 DEF PhaseAt
  <2>2. r \in Present \/ "late" \in faults \/ "docker" \in faults
    BY <1>9 DEF Present, IInv, LateOK
  <2>3. Contract!Conclude(r)
    BY <1>0, <1>1, <2>1, <2>2 DEF Contract!Conclude
  <2> QED BY <1>0, <2>3 DEF Contract!Next
<1> QED BY <1>2, <1>3, <1>4, <1>5, <1>6, <1>7, <1>8, <1>9

\* A program's step is one of its contract.
LEMMA ProgramIsContract ==
  ASSUME IInv, NEW r \in Runs, Program(r)
  PROVE  [Contract!Next]_(Contract!vars)
<1>0. TypeOK /\ ObjectsOK /\ ControlOK(r) /\ GoneOK(r) /\ UNCHANGED late
  BY DEF IInv, Program
<1>1. CASE UpMakes(r)
  BY <1>1, MakingIsContract
<1>2. CASE DownRemoves(r) \/ RemoveImages(r)
  <2>1. /\ run[r].pc \in {"down", "images"}
        /\ run'[r].pc = run[r].pc \/ run'[r].pc = "verify"
    <3>1. CASE DownRemoves(r)
      BY <3>1 DEF DownRemoves
    <3>2. CASE RemoveImages(r)
      BY <1>0, <3>2 DEF RemoveImages, TypeOK, RunState
    <3> QED BY <1>2, <3>1, <3>2
  <2>2. PhaseAt(run[r].pc) = "cleanup" /\ PhaseAt(run'[r].pc) = "cleanup"
    BY <2>1 DEF PhaseAt
  <2>3. Removed(r)
    BY <1>2 DEF Removed, DownRemoves, RemoveImages
  <2>4. Contract!Remove(r) /\ UNCHANGED <<faults, Passable, Unnamed>>
    BY <1>0, <2>2, <2>3, RemovalIsContract
  <2> QED BY <2>4 DEF Contract!Next
<1>3. CASE /\ run[r].pc # "failed" /\ run'[r].pc = "failed"
  <2>1. Outside
    BY <1>3, FailureIsCaused
  <2> QED BY <1>3, <2>1, QuietIsContract
<1>4. ASSUME Fail(r), run[r].pc # "failed" PROVE [Contract!Next]_(Contract!vars)
  BY <1>0, <1>3, <1>4, Failed
<1>5. CASE Validate(r)
  <2>1. run[r].pc = "validate" /\ run'[r].pc \in {"override", "over"} /\ Outside
    BY <1>0, <1>5, Moved DEF Validate
  <2> QED BY <2>1, QuietIsContract
<1>6. CASE WriteOverride(r)
  <2>1. /\ run[r].pc = "override" /\ Outside
        /\ run'[r].pc = "up" \/ run'[r].pc = "failed"
    BY <1>0, <1>6, Moved, Returned DEF WriteOverride
  <2>2. PhaseAt("up") = PhaseAt("override")
    BY DEF PhaseAt
  <2> QED BY <1>3, <2>1, <2>2, QuietIsContract
<1>7. CASE UpEnds(r) \/ CountContainers(r) \/ EndPass(r)
  <2>1. /\ run[r].pc \in {"up", "count", "inspect"} /\ Outside
        /\ Fail(r) \/ run'[r].pc \in {"count", "poll", "list"}
    BY <1>0, <1>7, Moved DEF UpEnds, CountContainers, EndPass
  <2>2. run'[r].pc \in {"count", "poll", "list"} => PhaseAt(run'[r].pc) = PhaseAt(run[r].pc)
    BY <2>1 DEF PhaseAt
  <2> QED BY <1>4, <2>1, <2>2, QuietIsContract
<1>8. CASE (BeginPass(r) \/ InspectService(r)) /\ ~ Fail(r)
  <2>1. run[r].pc \in {"poll", "inspect"} /\ Outside /\ run'[r].pc = "inspect"
    <3>1. CASE BeginPass(r)
      BY <1>0, <1>8, <3>1, Passed DEF BeginPass
    <3>2. CASE InspectService(r)
      BY <1>0, <1>8, <3>2, Inspected DEF InspectService, SameBut
    <3> QED BY <1>8, <3>1, <3>2
  <2>2. PhaseAt(run'[r].pc) = PhaseAt(run[r].pc)
    BY <2>1 DEF PhaseAt
  <2> QED BY <2>1, <2>2, QuietIsContract
<1>9. CASE (BeginPass(r) \/ InspectService(r) \/ ListResources(r)) /\ Fail(r)
  BY <1>4, <1>9 DEF BeginPass, InspectService, ListResources
<1>10. CASE ListResources(r) /\ ~ Fail(r)
  <2>1. run[r].pc = "list" /\ ~ run[r].canceled /\ Outside /\ run'[r].pc = "ready"
    BY <1>0, <1>10, Listed DEF ListResources
  <2> QED BY <2>1, QuietIsContract
<1>11. CASE BeginCleanup(r)
  <2>1. /\ run[r].pc \in {"ready", "failed"} /\ Outside
        /\ run'[r].pc = IF run[r].registered THEN "down" ELSE "over"
    BY <1>0, <1>11, Moved DEF BeginCleanup
  <2>2. ~ run[r].registered => run[r].pc = "failed" /\ OfRun(r) = {}
    BY <1>0, <2>1 DEF ControlOK, Starting
  <2> QED BY <2>1, <2>2, QuietIsContract
<1>12. CASE DownEnds(r)
  <2>1. run[r].pc = "down" /\ Outside /\ run'[r].pc = "images"
    BY <1>0, <1>12, Moved DEF DownEnds
  <2>2. PhaseAt("images") = PhaseAt("down")
    BY DEF PhaseAt
  <2> QED BY <2>1, <2>2, QuietIsContract
<1>13. CASE VerifyGone(r)
  <2>0. run[r].pc = "verify" /\ Outside
    BY <1>13 DEF VerifyGone
  <2>1. CASE run[r].kinds = <<>> /\ Goto(r, "gone")
    <3>1. run'[r].pc = "gone" /\ OfRun(r) \subseteq late
      BY <1>0, <2>0, <2>1, Moved DEF GoneOK
    <3> QED BY <2>0, <3>1, QuietIsContract
  <2>2. CASE run' = [run EXCEPT ![r].kinds = Tail(@)]
    <3>1. run'[r].pc = run[r].pc
      BY <1>0, <2>2 DEF TypeOK, RunState
    <3> QED BY <2>0, <3>1, QuietIsContract
  <2>3. CASE Goto(r, "left") /\ (Found(r, Head(run[r].kinds)) \/ "docker" \in faults)
    <3>1. run'[r].pc = "left" /\ (OfRun(r) # {} \/ "docker" \in faults)
      BY <1>0, <2>3, Moved, FoundIsThere
    <3> QED BY <2>0, <3>1, QuietIsContract
  <2> QED BY <1>13, <2>1, <2>2, <2>3 DEF VerifyGone
<1> QED BY <1>1, <1>2, <1>5, <1>6, <1>7, <1>8, <1>9, <1>10, <1>11, <1>12, <1>13 DEF Program

\* Of the environment the contract sees only the signal.
LEMMA EnvironmentIsContract ==
  ASSUME IInv, NEW r \in Runs, Environment(r)
  PROVE  [Contract!Next]_(Contract!vars)
<1>0. /\ TypeOK /\ ObjectsOK /\ ControlOK(r)
      /\ faults' = faults /\ Passable' = Passable /\ Unnamed' = Unnamed /\ Alone(r)
      /\ Interrupted' = Interrupted \/ Signal(r)
  BY ContractKept DEF IInv
<1>1. run'[r].pc = run[r].pc
  BY <1>0 DEF Environment, Signal, Expire, Declines, Appears, BecomesHealthy, TypeOK, RunState
<1>2. Phase' = Phase
  BY <1>0, <1>1, PhaseStays
<1>3. Present' = Present
  <2>1. CASE Appears(r)
    <3>1. PICK p \in Pending(r) : ~ Exists(p) /\ Make(r, p) /\ late' = late \union {p}
      BY <2>1 DEF Appears
    <3>2. Added(r, p)
      BY <1>0, <2>1, <3>1, MadeIsAdded DEF Appears, ControlOK, Stopping, Pending
    <3>3. /\ OfRun(r)' = OfRun(r) \union {p} /\ p \notin OfRun(r)
          /\ \A q \in Runs \ {r} : OfRun(q)' = OfRun(q) /\ p \notin OfRun(q)
      BY <3>2, AddedOf
    <3>4. \A q \in Runs : OfRun(q)' \ late' = OfRun(q) \ late
      BY <3>1, <3>3
    <3> QED BY <3>4 DEF Present
  <2>2. CASE UNCHANGED <<objects, late>>
    BY <2>2 DEF Present, OfRun
  <2> QED BY <2>1, <2>2 DEF Environment, Signal, Expire, Declines, BecomesHealthy, Outside
<1>4. CASE Interrupted' = Interrupted
  BY <1>0, <1>2, <1>3, <1>4 DEF Contract!vars
<1>5. CASE Signal(r)
  <2>1. "signal" \in faults /\ Phase[r] = "starting"
    BY <1>5 DEF Signal, Starting, Phase, PhaseAt
  <2>2. run'[r].canceled
    BY <1>0, <1>5 DEF Signal, TypeOK, RunState
  <2>3. Interrupted' = Interrupted \union {r}
    BY <1>0, <2>2 DEF Alone, Interrupted
  <2>4. Contract!Interrupt(r)
    BY <1>2, <1>3, <2>1, <2>3 DEF Contract!Interrupt
  <2> QED BY <1>0, <2>4 DEF Contract!Next
<1> QED BY <1>0, <1>4, <1>5

\* Promise: the shared environments of any number of runs on one host are what
\* each orchestrator takes its own for, whatever the others do.
THEOREM PromiseKept == Spec => Promise
<1>1. ASSUME Init PROVE Contract!Init
  <2>1. \A r \in Runs : run[r].pc \in {"validate", "over"} /\ ~ run[r].canceled
    <3>1. PICK i \in Instances :
            run = [r \in Runs |-> NewRun(IF r \in i[3] THEN "validate" ELSE "over")]
      BY <1>1 DEF Init
    <3> QED BY <3>1 DEF NewRun
  <2>2. \A r \in Runs : OfRun(r) = {}
    BY <1>1, InitIInv, <2>1 DEF IInv, ControlOK, Starting, Stopping
  <2>3. Phase \in [Runs -> {"idle", "over"}]
    BY <2>1 DEF Phase, PhaseAt
  <2> QED BY <2>1, <2>2, <2>3 DEF Contract!Init, Interrupted, Present
<1>2. IInv /\ [Next]_vars => [Contract!Next]_(Contract!vars)
  <2>1. CASE UNCHANGED vars
    BY <2>1 DEF vars, Contract!vars, Passable, Unnamed, Interrupted, Phase, Present, OfRun
  <2> QED BY <2>1, ProgramIsContract, EnvironmentIsContract DEF Next, Terminated
<1> QED BY <1>1, <1>2, Invariance, PTL DEF Spec, Promise, Contract!Spec

-----------------------------------------------------------------------------
(***************************************************************************)
(* The safety half of StartReturns, for any number of runs.                *)
(***************************************************************************)

\* How far Start is.
Rank(point) ==
  CASE point = "override" -> 1 [] point = "up" -> 2 [] point = "count" -> 3
    [] point = "poll" -> 4 [] point = "inspect" -> 5 [] point = "list" -> 6
    [] point \in {"ready", "failed"} -> 7 [] OTHER -> 0

\* The step comes further in Start, sees to another object of the finitely many
\* that `up' needs, inspects another service of the pass, or begins another poll.
Nearer(r) ==
  \/ Rank(run'[r].pc) > Rank(run[r].pc)
  \/ /\ run[r].pc = "up" /\ run'[r].pc = "up"
     /\ \E p \in Needed(r) \ run[r].seenTo : run'[r].seenTo = run[r].seenTo \union {p}
  \/ /\ run[r].pc = "inspect" /\ run'[r].pc = "inspect"
     /\ \E s \in run[r].left : run'[r].left = run[r].left \ {s}
  \/ run[r].pc = "inspect" /\ run[r].left = {} /\ run'[r].pc = "poll"

Stays(r) == \A field \in {"pc", "seenTo", "left"} : run'[r][field] = run[r][field]

\* No Start goes back, nor does what runs beside it, another run included, send it
\* back; it may only poll its services again, until the deadline: behind it the
\* next poll ends Start (compose.go: Start, waitHealthy).
StartsGoOn ==
  [][\A r \in Runs :
       /\ Starting(r) => Nearer(r) \/ Stays(r)
       /\ Program(r) /\ Starting(r) => Nearer(r)
       /\ run[r].expired => run'[r].expired
       /\ run[r].expired /\ run[r].pc = "poll" => run'[r].pc \in {"poll", "failed"}]_vars

LEMMA StepNearer ==
  ASSUME TypeOK, NEW r \in Runs, Program(r), Starting(r)
  PROVE  /\ Nearer(r) /\ run'[r].expired = run[r].expired
         /\ run[r].expired /\ run[r].pc = "poll" => run'[r].pc = "failed"
<1> USE DEF Starting
<1>1. CASE Fail(r)
  BY <1>1, Failed DEF SameBut, Nearer, Rank
<1>2. CASE WriteOverride(r)
  <2>1. \/ run'[r].pc = "up" /\ run'[r].expired = run[r].expired
        \/ run'[r].pc = "failed" /\ run'[r].expired = run[r].expired
    <3>1. CASE Goto(r, "up")
      BY <3>1, Moved DEF SameBut
    <3>2. CASE Return(r, "failed", FALSE)
      BY <3>2, Returned DEF SameBut
    <3> QED BY <1>2, <3>1, <3>2 DEF WriteOverride
  <2> QED BY <1>2, <2>1 DEF WriteOverride, Nearer, Rank
<1>3. CASE UpMakes(r)
  <2>1. PICK p \in Pending(r) : run' = [run EXCEPT ![r].seenTo = @ \union {p}]
    BY <1>3 DEF UpMakes
  <2>2. p \in Needed(r) \ run[r].seenTo
    BY DEF Pending
  <2>3. /\ run'[r].seenTo = run[r].seenTo \union {p} /\ run'[r].pc = run[r].pc
        /\ run'[r].expired = run[r].expired
    BY <2>1 DEF TypeOK, RunState
  <2> QED BY <1>3, <2>2, <2>3 DEF UpMakes, Nearer
<1>4. CASE (UpEnds(r) \/ CountContainers(r)) /\ ~ Fail(r)
  BY <1>4, Moved DEF UpEnds, CountContainers, SameBut, Nearer, Rank
<1>5. CASE BeginPass(r) /\ ~ Fail(r)
  <2>1. run[r].pc = "poll" /\ ~ run[r].expired
    BY <1>5 DEF BeginPass
  <2> QED BY <1>5, <2>1, Passed DEF SameBut, Nearer, Rank
<1>6. CASE InspectService(r) /\ ~ Fail(r)
  <2>1. run[r].pc = "inspect"
    BY <1>6 DEF InspectService
  <2>2. PICK s \in run[r].left :
          run'[r].left = run[r].left \ {s} /\ SameBut(r, {"left", "allHealthy"})
    BY <1>6, Inspected
  <2>3. run'[r].pc = run[r].pc /\ run'[r].expired = run[r].expired
    BY <2>2 DEF SameBut
  <2> QED BY <2>1, <2>2, <2>3 DEF Nearer
<1>7. CASE EndPass(r) /\ ~ Fail(r)
  BY <1>7, Moved DEF EndPass, SameBut, Nearer, Rank
<1>8. CASE ListResources(r) /\ ~ Fail(r)
  <2>1. run[r].pc = "list"
    BY <1>8 DEF ListResources
  <2> QED BY <1>8, <2>1, Listed DEF SameBut, Nearer, Rank
<1>9. ~ Validate(r) /\ ~ BeginCleanup(r) /\ ~ DownRemoves(r) /\ ~ DownEnds(r)
        /\ ~ RemoveImages(r) /\ ~ VerifyGone(r)
  BY DEF Validate, BeginCleanup, DownRemoves, DownEnds, RemoveImages, VerifyGone
<1> QED BY <1>1, <1>2, <1>3, <1>4, <1>5, <1>6, <1>7, <1>8, <1>9 DEF Program

LEMMA ProgramKeepsExpired ==
  ASSUME TypeOK, NEW r \in Runs, Program(r), ~ Starting(r)
  PROVE  run'[r].expired = run[r].expired
<1>1. ASSUME NEW point, Goto(r, point) PROVE run'[r].expired = run[r].expired
  BY <1>1, Moved DEF SameBut
<1>2. CASE Validate(r) \/ BeginCleanup(r) \/ DownEnds(r)
  BY <1>1, <1>2 DEF Validate, BeginCleanup, DownEnds
<1>3. CASE DownRemoves(r)
  BY <1>3 DEF DownRemoves
<1>4. CASE RemoveImages(r) \/ VerifyGone(r)
  <2>1. ASSUME VerifyGone(r), run' = [run EXCEPT ![r].kinds = Tail(@)]
        PROVE  run'[r].expired = run[r].expired
    BY <2>1 DEF TypeOK, RunState
  <2>2. CASE RemoveImages(r)
    <3>1. run' = [run EXCEPT ![r] = [@ EXCEPT !.pc = "verify", !.kinds = Verified]]
      BY <2>2 DEF RemoveImages
    <3> QED BY <3>1 DEF TypeOK, RunState
  <2> QED BY <1>1, <1>4, <2>1, <2>2 DEF VerifyGone
<1>5. ~ WriteOverride(r) /\ ~ UpMakes(r) /\ ~ UpEnds(r) /\ ~ CountContainers(r)
        /\ ~ BeginPass(r) /\ ~ InspectService(r) /\ ~ EndPass(r) /\ ~ ListResources(r)
  BY DEF Starting, WriteOverride, UpMakes, UpEnds, CountContainers, BeginPass,
     InspectService, EndPass, ListResources
<1> QED BY <1>2, <1>3, <1>4, <1>5 DEF Program

LEMMA BesideStays ==
  ASSUME TypeOK, NEW r \in Runs, Environment(r)
  PROVE  Stays(r) /\ (run[r].expired => run'[r].expired)
<1>1. CASE Signal(r) \/ Expire(r) \/ Appears(r)
  BY <1>1 DEF Signal, Expire, Appears, Stays, TypeOK, RunState
<1>2. CASE Declines(r)
  BY <1>2 DEF Declines, Stays
<1>3. ASSUME NEW s \in Names, BecomesHealthy(r, s)
      PROVE  Stays(r) /\ (run[r].expired => run'[r].expired)
  BY <1>3 DEF BecomesHealthy, Stays, TypeOK, RunState
<1> QED BY <1>1, <1>2, <1>3 DEF Environment

\* Every Start comes nearer to its end with each of its steps, but for the polls
\* before the deadline.
THEOREM StartsGoOnHolds == Spec => StartsGoOn
<1> DEFINE GoesOn(r) ==
             /\ Starting(r) => Nearer(r) \/ Stays(r)
             /\ Program(r) /\ Starting(r) => Nearer(r)
             /\ run[r].expired => run'[r].expired
             /\ run[r].expired /\ run[r].pc = "poll" => run'[r].pc \in {"poll", "failed"}
<1>1. ASSUME IInv, [Next]_vars, NEW r \in Runs PROVE GoesOn(r)
  <2>0. TypeOK /\ ObjectsOK
    BY <1>1 DEF IInv
  <2>1. CASE Program(r)
    <3>1. CASE Starting(r)
      BY <2>0, <2>1, <3>1, StepNearer
    <3>2. CASE ~ Starting(r)
      <4>1. run[r].pc # "poll"
        BY <3>2 DEF Starting
      <4> QED BY <2>0, <2>1, <3>2, <4>1, ProgramKeepsExpired
    <3> QED BY <3>1, <3>2
  <2>2. CASE ~ Program(r) /\ Environment(r)
    BY <2>0, <2>2, BesideStays DEF Stays
  <2>3. CASE ~ Program(r) /\ ~ Environment(r)
    <3>1. CASE UNCHANGED vars
      BY <2>3, <3>1 DEF Stays, vars
    <3>2. CASE \E q \in Runs : Program(q) \/ Environment(q)
      <4>1. PICK q \in Runs : Program(q) \/ Environment(q)
        BY <3>2
      <4>2. q # r /\ ControlOK(q)
        BY <1>1, <2>3, <4>1 DEF IInv
      <4>3. run'[r] = run[r]
        BY <2>0, <4>1, <4>2, OthersKept
      <4> QED BY <2>3, <4>3 DEF Stays
    <3> QED BY <1>1, <3>1, <3>2 DEF Next, Terminated
  <2> QED BY <2>1, <2>2, <2>3
<1>2. IInv /\ [Next]_vars => [\A r \in Runs : GoesOn(r)]_vars
  BY <1>1
<1> QED BY <1>2, Invariance, PTL DEF Spec, StartsGoOn
=============================================================================
