------------------------------- MODULE Compose ------------------------------
(***************************************************************************)
(* internal/compose with what internal/config makes sure of a Compose file *)
(* and what internal/orchestrator registers for cleanup: the shared        *)
(* environments of runs that go on at the same time, of the same Compose   *)
(* file, on one Docker host.                                               *)
(*                                                                         *)
(* Docker and docker compose are external.  `docker compose up' and `down' *)
(* make and remove one object after the other and may end in between; an   *)
(* `up' that is killed may leave a request Docker answers later.           *)
(*                                                                         *)
(* A Compose file is a record.  The name of a volume or network is "" when *)
(* the file has none, "generated" when it has the very name Compose would  *)
(* give it at preflight, and "other".                                      *)
(***************************************************************************)
EXTENDS Naturals, Sequences

CONSTANTS
  Runs,        \* the run IDs, which are also the Compose projects
  Names,       \* of services
  Keys,        \* of volumes, networks, configs and secrets
  Instances    \* a document, the kinds of faults that are met, and the runs
               \* that take place

\* "docker" is a docker command that fails, "write" a file that cannot be
\* written, "exit" a service that exits, "slow" one that is not healthy in time
\* or stops to be, "busy" an object that is still in use when it is removed,
\* "late" a request that Docker answers after its client was killed.
FaultKinds == {"docker", "write", "exit", "slow", "signal", "busy", "late"}

Kinds == {"container", "network", "volume", "image"}

\* Health "inert" is a check that is defined and never runs (test: NONE).
Service == [health : {"none", "disabled", "inert", "enabled"},
            depends : SUBSET Names, uses : SUBSET Keys, build : BOOLEAN,
            pinned : SUBSET {"container_name", "restart", "replicas"},
            unsafe : SUBSET {"privileged", "namespace", "device", "bind", "socket",
                             "port", "path"}]

Resource == [kind : {"network", "volume", "config", "secret"},
             name : {"", "generated", "other"}, external : BOOLEAN, escapes : BOOLEAN]

\* A document is the normalized Compose file, which uses only resources it
\* defines, the services the configuration selects and the flag
\* --allow-unsafe-compose.
IsDocument(d) ==
  /\ DOMAIN d = {"services", "resources", "selected", "allowUnsafe"}
  /\ DOMAIN d.services \subseteq Names /\ DOMAIN d.resources \subseteq Keys
  /\ \A s \in DOMAIN d.services :
       d.services[s] \in Service /\ d.services[s].uses \subseteq DOMAIN d.resources
  /\ \A k \in DOMAIN d.resources : d.resources[k] \in Resource
  /\ d.selected \subseteq Names /\ d.allowUnsafe \in BOOLEAN

\* The words for no project, and for a name all projects share, are no run IDs.
ASSUME RunsAssumption == "none" \notin Runs /\ "global" \notin Runs

ASSUME InstancesAssumption ==
  \A i \in Instances : IsDocument(i[1]) /\ i[2] \subseteq FaultKinds /\ i[3] \subseteq Runs

-----------------------------------------------------------------------------
\* ValidateComposeJSON.

\* Mutant of DependsOnListed: a dependency may be any service.
DependsOnAny(d, s) == d.services[s].depends \subseteq DOMAIN d.services

DependsOnListed(d, s) == d.services[s].depends \subseteq d.selected

\* validateComposeService and validateComposeServicePaths.
ValidService(d, s) ==
  /\ d.services[s].pinned = {}
  /\ d.services[s].unsafe # {} => d.allowUnsafe

\* Mutant of ValidResource: only external resources are refused.
ValidIfProjects(d, k) == d.resources[k].external => d.allowUnsafe

\* validateComposeResources.
ValidResource(d, k) ==
  LET resource == d.resources[k]
  IN  /\ resource.name = "other" => resource.external /\ d.allowUnsafe
      /\ resource.external \/ resource.escapes => d.allowUnsafe

Accepts(d) ==
  /\ d.selected \subseteq DOMAIN d.services
  /\ \A s \in d.selected :
       /\ d.services[s].health \in {"inert", "enabled"}
       /\ DependsOnListed(d, s) /\ ValidService(d, s)
  /\ \A k \in DOMAIN d.resources : ValidResource(d, k)

-----------------------------------------------------------------------------
\* What docker compose makes of a file.

\* The services `up' starts: those selected and what they depend on.
Started(d) ==
  {s \in DOMAIN d.services :
     \A T \in SUBSET DOMAIN d.services :
       (d.selected \subseteq T /\ \A t \in T : d.services[t].depends \subseteq T) => s \in T}

UsedKeys(d, s) ==
  {k \in d.services[s].uses : d.resources[k].kind \in {"network", "volume"}}

\* An object is known by its kind and its name: that of the project or one that
\* is the same for every project.
Places == [kind : Kinds, name : Names \union Keys, scope : Runs \union {"global"}]

Place(r, d, k) ==
  [kind |-> d.resources[k].kind, name |-> k,
   scope |-> IF d.resources[k].external \/ d.resources[k].name # "" THEN "global" ELSE r]

Of(r, kind, s) == [kind |-> kind, name |-> s, scope |-> r]

\* BuildOverride: what of a project gets the label of the run.
Overridden(d, place) ==
  IF place.kind \in {"container", "image"} THEN place.name \in d.selected
  ELSE ~ d.resources[place.name].external

VARIABLES
  document,  \* the file and settings of all runs
  faults,    \* the kinds of faults they meet
  run,       \* run |-> the state of its program
  health,    \* run |-> service |-> the health of its container
  objects,   \* place |-> the project and the run ID label of the object there
  late       \* what Docker made after the client was killed

vars == <<document, faults, run, health, objects, late>>

Exists(place) == place \in DOMAIN objects

\* What `up' of a run sees to, kind after kind, the containers last and each
\* after those it depends on.
Order == <<"image", "network", "volume", "container">>

Needed(r) ==
  {Place(r, document, k) : k \in UNION {UsedKeys(document, s) : s \in Started(document)}}
    \union {Of(r, "image", s) : s \in {t \in Started(document) : document.services[t].build}}
    \union {Of(r, "container", s) : s \in Started(document)}

Pending(r) ==
  LET left == Needed(r) \ run[r].seenTo
      free(p) == \A q \in left :
        /\ \A i, j \in DOMAIN Order : Order[i] = q.kind /\ Order[j] = p.kind => j <= i
        /\ p.kind = "container" => q.name \notin document.services[p.name].depends
  IN  {p \in left : free(p)}

Make(r, place) ==
  /\ objects' = [p \in DOMAIN objects \union {place} |->
                   IF p = place
                   THEN [project |-> r,
                         label |-> IF Overridden(document, place) THEN r ELSE "none"]
                   ELSE objects[p]]
  /\ health' = [health EXCEPT ![r] =
                  [s \in Names |-> IF place = Of(r, "container", s) THEN "starting" ELSE @[s]]]

\* What `down' removes: by project, but volumes by their name in the file.
Owned(r) ==
  {p \in DOMAIN objects : p.kind \in {"container", "network"} /\ objects[p].project = r}
    \union {p \in DOMAIN objects :
              /\ p.kind = "volume" /\ ~ document.resources[p.name].external
              /\ p = Place(r, document, p.name)}

\* What is labelled with a run is of that run alone, so is what its project made.
OfRun(r) == {p \in DOMAIN objects : objects[p].project = r \/ objects[p].label = r}

RunState(d) ==
  [pc : {"validate", "override", "up", "count", "poll", "inspect", "list",
         "ready", "failed", "down", "images", "verify", "gone", "left", "over"},
   canceled : BOOLEAN, registered : BOOLEAN, killed : BOOLEAN, expired : BOOLEAN,
   seenTo : SUBSET Places, left : SUBSET d.selected, allHealthy : BOOLEAN,
   networks : SUBSET Places, answered : SUBSET Names, dead : SUBSET d.selected,
   kinds : Seq(Kinds)]

NewRun(point) ==
  [pc |-> point, canceled |-> FALSE, registered |-> FALSE, killed |-> FALSE,
   expired |-> FALSE, seenTo |-> {}, left |-> {}, allHealthy |-> FALSE,
   networks |-> {}, answered |-> {}, dead |-> {}, kinds |-> <<>>]

Init ==
  /\ \E i \in Instances :
       /\ document = i[1] /\ faults = i[2]
       /\ run = [r \in Runs |-> NewRun(IF r \in i[3] THEN "validate" ELSE "over")]
  /\ health = [r \in Runs |-> [s \in Names |-> "none"]]
  /\ objects = [p \in {Place("none", document, k) :
                         k \in {l \in DOMAIN document.resources :
                                  /\ document.resources[l].external
                                  /\ document.resources[l].kind \in Kinds}} |->
                  [project |-> "none", label |-> "none"]]
  /\ late = {}

-----------------------------------------------------------------------------
\* Start.

DockerFails(r) == run[r].canceled \/ "docker" \in faults

\* Mutant of Return: what did not start is not registered for cleanup.
ReturnReady(r, outcome, overridden) ==
  run' = [run EXCEPT ![r] = [@ EXCEPT !.pc = outcome,
                                      !.registered = overridden /\ outcome = "ready",
                                      !.killed = run[r].canceled /\ run[r].pc = "up"]]

\* Start returns to startSharedEnvironment, which registers the project for
\* cleanup when the override was written, whatever came after.
Return(r, outcome, overridden) ==
  run' = [run EXCEPT ![r] = [@ EXCEPT !.pc = outcome, !.registered = overridden,
                                      !.killed = run[r].canceled /\ run[r].pc = "up"]]

Goto(r, point) == run' = [run EXCEPT ![r].pc = point]

Fail(r) == Return(r, "failed", TRUE)

Outside == UNCHANGED <<health, objects>>

\* The isolation policy at preflight, and the override.
Validate(r) ==
  /\ run[r].pc = "validate"
  /\ Goto(r, IF Accepts(document) THEN "override" ELSE "over")
  /\ Outside

WriteOverride(r) ==
  /\ run[r].pc = "override"
  /\ \/ Goto(r, "up")
     \/ "write" \in faults /\ Return(r, "failed", FALSE)
  /\ Outside

\* docker compose up --detach makes an object or takes the one that is there.
UpMakes(r) ==
  /\ run[r].pc = "up" /\ ~ run[r].canceled
  /\ \E p \in Pending(r) :
       /\ IF Exists(p) THEN Outside ELSE Make(r, p)
       /\ run' = [run EXCEPT ![r].seenTo = @ \union {p}]

\* It fails with Docker, at an object of another project, by its timeout or
\* when it is killed.
UpEnds(r) ==
  /\ run[r].pc = "up"
  /\ \/ Pending(r) = {} /\ Goto(r, "count")
     \/ /\ \/ DockerFails(r) \/ "slow" \in faults
           \/ \E p \in Pending(r) : Exists(p) /\ objects[p].project # "none"
        /\ Fail(r)
  /\ Outside

\* Mutant of CountContainers: one container of every service of the file.
CountAll(r) ==
  /\ run[r].pc = "count"
  /\ \/ /\ ~ run[r].canceled
        /\ \A s \in DOMAIN document.services : health[r][s] \notin {"none", "exited"}
        /\ Goto(r, "poll")
     \/ DockerFails(r) /\ Fail(r)
     \/ /\ \E s \in DOMAIN document.services : health[r][s] \in {"none", "exited"}
        /\ Fail(r)
  /\ Outside

\* docker compose ps: one running container of every service.
CountContainers(r) ==
  /\ run[r].pc = "count"
  /\ \/ /\ ~ run[r].canceled
        /\ \A s \in document.selected : health[r][s] # "exited"
        /\ Goto(r, "poll")
     \/ DockerFails(r) /\ Fail(r)
     \/ (\E s \in document.selected : health[r][s] = "exited") /\ Fail(r)
  /\ Outside

\* Mutant of BeginPass: the deadline is not looked at.
BeginPassAnyway(r) ==
  /\ run[r].pc = "poll"
  /\ run' = [run EXCEPT ![r] =
        [@ EXCEPT !.pc = "inspect", !.left = document.selected, !.allHealthy = TRUE,
                  !.dead = {s \in document.selected : health[r][s] = "exited"}]]
  /\ Outside

\* waitHealthy: a pass over the services, unless the deadline has passed.
BeginPass(r) ==
  /\ run[r].pc = "poll"
  /\ \/ run[r].expired /\ Fail(r)
     \/ /\ ~ run[r].expired
        /\ run' = [run EXCEPT ![r] =
             [@ EXCEPT !.pc = "inspect", !.left = document.selected, !.allHealthy = TRUE,
                       !.dead = {s \in document.selected : health[r][s] = "exited"}]]
  /\ Outside

\* Mutant of HealthyWith: the last service decides.
HealthyAtLast(r, s) == health[r][s] = "healthy"

HealthyWith(r, s) == run[r].allHealthy /\ health[r][s] = "healthy"

InspectService(r) ==
  /\ run[r].pc = "inspect"
  /\ \E s \in run[r].left :
       \/ DockerFails(r) /\ Fail(r)
       \/ ~ run[r].canceled /\ health[r][s] = "exited" /\ Fail(r)
       \/ /\ ~ run[r].canceled /\ health[r][s] # "exited"
          /\ run' = [run EXCEPT ![r] = [@ EXCEPT !.left = run[r].left \ {s},
                                                 !.allHealthy = HealthyWith(r, s)]]
  /\ Outside

EndPass(r) ==
  /\ run[r].pc = "inspect" /\ run[r].left = {}
  /\ \/ run[r].allHealthy /\ Goto(r, "list")
     \/ ~ run[r].allHealthy /\ Goto(r, "poll")
     \/ ~ run[r].allHealthy /\ run[r].canceled /\ Fail(r)
  /\ Outside

\* Mutant of NetworksOf: only the networks of the project are listed.
NetworksOfProject(r) ==
  {p \in DOMAIN objects : p.kind = "network" /\ objects[p].project = r}

\* The networks of the project and those its services are attached to.
NetworksOf(r) ==
  {p \in DOMAIN objects : p.kind = "network" /\ objects[p].project = r}
    \union {p \in {Place(r, document, k) :
                     k \in UNION {UsedKeys(document, s) : s \in document.selected}} :
              p.kind = "network"}

ListResources(r) ==
  /\ run[r].pc = "list"
  /\ \/ /\ ~ run[r].canceled
        /\ run' = [run EXCEPT ![r] = [@ EXCEPT !.pc = "ready", !.registered = TRUE,
                                               !.networks = NetworksOf(r)]]
     \/ DockerFails(r) /\ Fail(r)
  /\ Outside

-----------------------------------------------------------------------------
\* The resource registerCompose registers: Remove and Exists.  Both run under
\* the context of cleanup, which no signal cancels.

BeginCleanup(r) ==
  /\ run[r].pc \in {"ready", "failed"}
  /\ Goto(r, IF run[r].registered THEN "down" ELSE "over")
  /\ Outside

\* docker compose down --volumes --remove-orphans: containers first.
DownRemoves(r) ==
  /\ run[r].pc = "down"
  /\ \E p \in Owned(r) :
       /\ (\E q \in Owned(r) : q.kind = "container") => p.kind = "container"
       /\ objects' = [q \in DOMAIN objects \ {p} |-> objects[q]]
       /\ health' = [health EXCEPT ![r] =
            [s \in Names |-> IF p = Of(r, "container", s) THEN "none" ELSE @[s]]]
  /\ UNCHANGED run

\* Compose passes by what is in use and exits with 0.
DownEnds(r) ==
  /\ run[r].pc = "down"
  /\ Owned(r) = {} \/ {"docker", "busy"} \intersect faults # {}
  /\ Goto(r, "images") /\ Outside

Verified == <<"container", "network", "volume", "image">>

\* The images with the label of the run are removed, one by one; an error does
\* not end the loop.
RemoveImages(r) ==
  /\ run[r].pc = "images"
  /\ LET images == {p \in DOMAIN objects : p.kind = "image" /\ objects[p].label = r}
     IN  \E kept \in SUBSET images :
           /\ kept # {} => "docker" \in faults
           /\ objects' = [p \in DOMAIN objects \ (images \ kept) |-> objects[p]]
  /\ run' = [run EXCEPT ![r] = [@ EXCEPT !.pc = "verify", !.kinds = Verified]]
  /\ UNCHANGED health

\* Mutant of Found: volumes are not looked for.
FoundButVolumes(r, kind) ==
  \E p \in DOMAIN objects :
    /\ p.kind = kind /\ kind # "volume"
    /\ IF kind = "image" THEN objects[p].label = r ELSE objects[p].project = r

\* Exists looks for containers, networks and volumes by project and for images
\* by the label of the run.
Found(r, kind) ==
  \E p \in DOMAIN objects :
    /\ p.kind = kind
    /\ IF kind = "image" THEN objects[p].label = r ELSE objects[p].project = r

VerifyGone(r) ==
  /\ run[r].pc = "verify"
  /\ \/ run[r].kinds = <<>> /\ Goto(r, "gone")
     \/ /\ run[r].kinds # <<>>
        /\ \/ Found(r, Head(run[r].kinds)) /\ Goto(r, "left")
           \/ ~ Found(r, Head(run[r].kinds)) /\ run' = [run EXCEPT ![r].kinds = Tail(@)]
           \/ "docker" \in faults /\ Goto(r, "left")
  /\ Outside

-----------------------------------------------------------------------------
\* The environment.

Program(r) ==
  /\ \/ Validate(r) \/ WriteOverride(r) \/ UpMakes(r) \/ UpEnds(r) \/ CountContainers(r)
     \/ BeginPass(r) \/ InspectService(r) \/ EndPass(r) \/ ListResources(r)
     \/ BeginCleanup(r) \/ DownRemoves(r) \/ DownEnds(r) \/ RemoveImages(r) \/ VerifyGone(r)
  /\ UNCHANGED <<document, faults, late>>

Starting(r) == run[r].pc \in {"override", "up", "count", "poll", "inspect", "list"}

Signal(r) ==
  /\ "signal" \in faults /\ Starting(r) /\ ~ run[r].canceled
  /\ run' = [run EXCEPT ![r].canceled = TRUE]
  /\ Outside /\ UNCHANGED <<document, faults, late>>

\* The deadline passes before a service that is slow or has no check is healthy.
Expire(r) ==
  /\ run[r].pc \in {"poll", "inspect"} /\ ~ run[r].expired
  /\ \/ "slow" \in faults
     \/ \E s \in document.selected : document.services[s].health = "inert"
  /\ run' = [run EXCEPT ![r].expired = TRUE]
  /\ Outside /\ UNCHANGED <<document, faults, late>>

BecomesHealthy(r, s) ==
  /\ health[r][s] = "starting" /\ document.services[s].health = "enabled"
  /\ health' = [health EXCEPT ![r][s] = "healthy"]
  /\ run' = [run EXCEPT ![r].answered = @ \union {s}]
  /\ UNCHANGED <<document, faults, objects, late>>

\* A service loses its health or exits.
Declines(r) ==
  /\ Starting(r)
  /\ \E s \in Names :
       \/ /\ "slow" \in faults /\ health[r][s] = "healthy"
          /\ health' = [health EXCEPT ![r][s] = "starting"]
       \/ /\ "exit" \in faults /\ health[r][s] \in {"starting", "healthy"}
          /\ health' = [health EXCEPT ![r][s] = "exited"]
  /\ UNCHANGED <<document, faults, run, objects, late>>

\* Docker answers the last request of an `up' that was killed.
Appears(r) ==
  /\ "late" \in faults /\ run[r].killed
  /\ \E p \in Pending(r) : ~ Exists(p) /\ Make(r, p) /\ late' = late \union {p}
  /\ run' = [run EXCEPT ![r].killed = FALSE]
  /\ UNCHANGED <<document, faults>>

Environment(r) ==
  \/ Signal(r) \/ Expire(r) \/ Declines(r) \/ Appears(r)
  \/ \E s \in Names : BecomesHealthy(r, s)

Terminated == (\A r \in Runs : run[r].pc \in {"over", "gone", "left"}) /\ UNCHANGED vars

Next == Terminated \/ \E r \in Runs : Program(r) \/ Environment(r)

Spec == Init /\ [][Next]_vars

\* Each program and its clock go on, and a check that runs comes to pass.
FairSpec ==
  /\ Spec
  /\ \A r \in Runs :
       /\ WF_vars(Program(r)) /\ WF_vars(Expire(r))
       /\ \A s \in Names : WF_vars(BecomesHealthy(r, s))

-----------------------------------------------------------------------------
\* Properties.

\* Every variable holds a value the code could have stored in it.
TypeOK ==
  /\ \E i \in Instances : document = i[1] /\ faults = i[2]
  /\ run \in [Runs -> RunState(document)]
  /\ health \in [Runs -> [Names -> {"none", "starting", "healthy", "exited"}]]
  /\ DOMAIN objects \subseteq Places /\ late \subseteq Places
  /\ \A p \in DOMAIN objects :
       objects[p] \in [project : Runs \union {"none"}, label : Runs \union {"none"}]

\* The names that Compose gives are all that is in the file: a name that is
\* written out and happens to be the generated one passes the validation.
Unnamed ==
  \A k \in DOMAIN document.resources : document.resources[k].name # "generated"

\* Two runs of one Compose file never meet: what one made is not removed before
\* its own cleanup, and what belongs to neither is never removed.
RunsAreApart ==
  [][Unnamed =>
       \A p \in DOMAIN objects \ DOMAIN objects' :
         \E r \in Runs : objects[p].project = r /\ run[r].pc \in {"down", "images"}]_vars

\* Whatever of a run Docker has, and whenever it came to be, carries the label of
\* the run, by which the manual recovery finds it.
AllIsLabelled ==
  \A p \in DOMAIN objects : objects[p].project # "none" =>
    objects[p].label = objects[p].project

\* The environment is ready only when every selected service has been healthy
\* and none of them had exited when the last pass over them began.
ReadyIsHealthy ==
  \A r \in Runs : run[r].pc = "ready" =>
    document.selected \subseteq run[r].answered /\ run[r].dead = {}

\* The components come to be attached to every network of the shared services,
\* unless another run can take one of them down by its name.
NetworksKnown ==
  \A r \in Runs : Unnamed /\ run[r].pc = "ready" =>
    \A s \in document.selected : \A k \in UsedKeys(document, s) :
      document.resources[k].kind = "network" =>
        Exists(Place(r, document, k)) /\ Place(r, document, k) \in run[r].networks

\* What Start hands to the components can be used: the services were up, and no
\* network that leads to them is missing.
ReadyIsUsable == ReadyIsHealthy /\ NetworksKnown

\* However Start ends, what was made is registered when it returns.
MadeIsRegistered ==
  \A r \in Runs : OfRun(r) # {} => Starting(r) \/ run[r].registered

\* Nothing that is made is lost: cleanup has it registered, or finds it by its
\* label.
MadeIsKnown == AllIsLabelled /\ MadeIsRegistered

\* A project that cleanup found gone left nothing, neither by its own label nor
\* by that of the run, but what Docker made after its client was killed.
GoneIsGone == \A r \in Runs : run[r].pc = "gone" => OfRun(r) \subseteq late

\* What the contract speaks of: the phase of each shared environment, the runs
\* that were interrupted, those of which Docker has something (what it made for a
\* client that was killed is not of the start any more), and the files whose
\* checks can all pass.
PhaseAt(pc) ==
  CASE pc = "validate" -> "idle"
    [] pc \in {"override", "up", "count", "poll", "inspect", "list"} -> "starting"
    [] pc \in {"down", "images", "verify"} -> "cleanup"
    [] OTHER -> pc

Phase == [r \in Runs |-> PhaseAt(run[r].pc)]

Interrupted == {r \in Runs : run[r].canceled}

Present == {r \in Runs : OfRun(r) \ late # {}}

Passable ==
  \A s \in document.selected \intersect DOMAIN document.services :
    document.services[s].health # "inert"

\* The shared environments as the orchestrators of the runs see them.
Contract ==
  INSTANCE SharedContract WITH passable <- Passable, apart <- Unnamed,
    canceled <- Interrupted, phase <- Phase, present <- Present

\* Each run can count on its own shared environment beside any other: it fails to
\* start only for a fault, an interruption or a check that cannot pass, nothing of
\* it comes to be or goes outside its start and its cleanup, and what its cleanup
\* says of it is so.
Promise == Contract!Spec

\* Under the deadline of waitHealthy Start returns, whatever the services do.
StartReturns == \A r \in Runs : Starting(r) ~> run[r].pc \in {"ready", "failed"}
=============================================================================
