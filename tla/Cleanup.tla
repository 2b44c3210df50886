------------------------------- MODULE Cleanup -------------------------------
(***************************************************************************)
(* The resources of one run: how the orchestrator creates and registers    *)
(* them, and what Registry.Cleanup and PreflightCleanup make of them.      *)
(*                                                                         *)
(* A resource is an application or hook container, an image, the service   *)
(* containers, networks or volumes of the Compose project, or the          *)
(* worktrees with their temporary root.  A registry entry is a label of    *)
(* the run, the Compose project, one image or one container.  What a call  *)
(* creates is pending until the call has returned and is registered.       *)
(* Docker creates nothing after the call that asked for it.                *)
(***************************************************************************)
EXTENDS Naturals, Sequences, Functions

CONSTANTS
  Containers,     \* the application and hook containers a run may create
  Images,         \* the images labelled with the run
  ServiceImages,  \* those `docker compose up --build' builds
  ImageOf,        \* the image a container runs
  KeepOnFailure,  \* --keep-on-failure
  Faults          \* what may go wrong

\* "call": a Docker call of the run fails, before or after its effect;
\* "panic": a call of the run panics; "removal": a call of the cleanup fails;
\* "silent": a removal leaves something and reports success; "deadline": the
\* cleanup context ends; "worktree": PreflightCleanup fails.
FaultKinds == {"call", "panic", "removal", "silent", "deadline", "worktree"}

Shared == {"services", "network", "volume"}
Labels == {"container-label", "image-label", "compose"}
Resources == Containers \union Images \union Shared \union {"worktree"}
Entries == Labels \union Containers \union Images

ASSUME NamesAssumption ==
  /\ Containers \intersect Images = {}
  /\ (Containers \union Images)
       \intersect (Shared \union Labels \union {"worktree"}) = {}
ASSUME ImagesAssumption ==
  /\ ServiceImages \subseteq Images
  /\ ImageOf \in [Containers -> Images \ ServiceImages]
ASSUME KeepAssumption == KeepOnFailure \in BOOLEAN
ASSUME FaultsAssumption == Faults \subseteq FaultKinds

VARIABLES
  pc,         \* where the run is
  exists,     \* the resources that exist
  running,    \* the containers that run
  created,    \* the containers and images the run has asked for
  registry,   \* Registry.resources
  pending,    \* what is registered when the current call returns
  expired,    \* the cleanup context has ended
  disturbed,  \* a panic or a fault of the cleanup itself has happened (history)
  cursor,     \* the index of the loop of Registry.Cleanup
  remaining,  \* the entries CleanupResult.Remaining names, by index
  worktree,   \* whether it names the worktrees
  status      \* CleanupResult.Status

docker == <<exists, running, created>>
owned  == <<registry, pending>>
trouble == <<expired, disturbed>>
result == <<remaining, worktree, status>>
vars   == <<pc, docker, owned, trouble, cursor, result>>

Points == {"build", "shared", "run", "finish", "remove", "verify", "done"}

TypeOK ==
  /\ pc \in Points
  /\ exists \subseteq Resources
  /\ running \subseteq (Containers \union {"services"}) \intersect exists
  /\ created \subseteq Containers \union Images
  /\ registry \in Seq(Entries) /\ pending \in Seq(Entries)
  /\ expired \in BOOLEAN /\ disturbed \in BOOLEAN /\ worktree \in BOOLEAN
  /\ cursor \in 0 .. Len(registry) /\ (pc = "verify" => cursor > 0)
  /\ remaining \subseteq 1 .. Len(registry)
  /\ status \in {"none", "PASS", "ERROR", "SKIPPED"}

\* registerRunLabeledResources; preflight has made the worktrees.
Init ==
  /\ pc = "build"
  /\ exists = {"worktree"} /\ running = {} /\ created = {}
  /\ registry = <<"container-label", "image-label">> /\ pending = <<>>
  /\ expired = FALSE /\ disturbed = FALSE /\ cursor = 0
  /\ remaining = {} /\ worktree = FALSE /\ status = "none"

-----------------------------------------------------------------------------
\* The run.

RunPoints == {"build", "shared", "run", "finish"}

\* A call that fails may have had its effect; it returns nothing to register.
Fails(effects) ==
  /\ "call" \in Faults
  /\ exists' \in {exists \union effect : effect \in effects}

\* What the current call created is registered when it has returned.
Returned ==
  /\ pending # <<>>
  /\ registry' = registry \o pending
  /\ pending' = <<>>
  /\ UNCHANGED <<pc, docker, trouble, cursor, result>>

\* execute recovers a panic; what was pending is never registered.
Panics ==
  /\ "panic" \in Faults /\ pc \in RunPoints
  /\ pc' = "finish" /\ pending' = <<>> /\ disturbed' = TRUE
  /\ UNCHANGED <<docker, registry, expired, cursor, result>>

BuildImage(image) ==
  /\ pc = "build" /\ pending = <<>>
  /\ image \notin created \union ServiceImages
  /\ created' = created \union {image}
  /\ \/ /\ exists' = exists \union {image}
        /\ pending' = <<image>> /\ UNCHANGED pc
     \/ Fails({{}, {image}}) /\ pc' = "finish" /\ UNCHANGED pending
  /\ UNCHANGED <<running, registry, trouble, cursor, result>>

Built ==
  /\ pc = "build" /\ pending = <<>>
  /\ Images \ ServiceImages \subseteq created
  /\ pc' = "shared"
  /\ UNCHANGED <<docker, owned, trouble, cursor, result>>

\* compose.Start.  The project is registered when its override was written,
\* whatever `up' has made of it; without an override nothing is started.
StartShared ==
  /\ pc = "shared" /\ pending = <<>>
  /\ \/ /\ exists' = exists \union Shared \union ServiceImages
        /\ pc' = "run" /\ pending' = <<"compose">>
     \/ /\ Fails(SUBSET (Shared \union ServiceImages))
        /\ pc' = "finish" /\ pending' = <<"compose">>
     \/ "call" \in Faults /\ pc' = "finish" /\ UNCHANGED <<exists, pending>>
  /\ running' = {"services"} \intersect exists'
  /\ UNCHANGED <<created, registry, trouble, cursor, result>>

\* docker create, of StartAll or a component hook.
CreateContainer(c) ==
  /\ pc = "run" /\ c \notin created /\ pending # <<"compose">>
  /\ created' = created \union {c}
  /\ \/ exists' = exists \union {c} /\ pending' = Append(pending, c)
     \/ Fails({{}, {c}}) /\ UNCHANGED pending
  /\ UNCHANGED <<pc, running, registry, trouble, cursor, result>>

\* docker start, after the networks of the project were connected.
StartContainer(c) ==
  /\ pc = "run" /\ pending # <<>> /\ pending[Len(pending)] = c
  /\ c \in exists
  /\ running' = running \union {c}
  /\ UNCHANGED <<pc, exists, created, owned, trouble, cursor, result>>

EndsItself(c) ==
  /\ c \in running
  /\ running' = running \ {c}
  /\ UNCHANGED <<pc, exists, created, owned, trouble, cursor, result>>

\* StopAll removes containers of the run early; they stay registered.
StopEarly(c) ==
  /\ pc = "run" /\ pending = <<>>
  /\ c \in exists /\ c \in Range(registry)
  /\ \/ exists' = exists \ {c}
     \/ "call" \in Faults /\ UNCHANGED exists
  /\ running' \in {running, running \ {c}} /\ running' \subseteq exists'
  /\ UNCHANGED <<pc, created, owned, trouble, cursor, result>>

-----------------------------------------------------------------------------
\* finish.

\* Mutant of Last: one beyond the end.
LastBeyond == Len(registry) + 1

\* The last registered resource is removed first.
Last == Len(registry)

\* The run ends where it is; a passing run is never kept.
Finish(passed) ==
  /\ pc \in RunPoints /\ pending = <<>>
  /\ \/ /\ KeepOnFailure /\ ~passed
        /\ pc' = "done" /\ status' = "SKIPPED"
        /\ remaining' = DOMAIN registry /\ worktree' = TRUE
        /\ UNCHANGED cursor
     \/ /\ ~(KeepOnFailure /\ ~passed)
        /\ pc' = "remove" /\ cursor' = Last
        /\ UNCHANGED result
  /\ UNCHANGED <<docker, owned, trouble>>

\* What the entry removes and what its Exists asks about.
Covers(entry) ==
  IF entry = "container-label" THEN Containers \union {"services"}
  ELSE IF entry = "image-label" THEN Images
  ELSE IF entry = "compose" THEN Shared \union Images
  ELSE {entry}

\* What Docker removes of an entry; what a container outside uses stays.
Uses(c, r) ==
  \/ c = "services" /\ r \in ServiceImages \union {"network", "volume"}
  \/ c # "services" /\ r \in {ImageOf[c], "network"}

Blocked(entry) ==
  {r \in Covers(entry) \intersect exists :
     \E c \in running \ Covers(entry) : Uses(c, r)}

\* Mutant of Tolerated: "no such" is an error, save for what a label lists.
Untolerated(entry) == entry \in Labels \/ entry \in exists

\* Whether the removal of a resource that is gone counts as done.
Tolerated(entry) == TRUE

Expire ==
  /\ "deadline" \in Faults /\ pc \in {"remove", "verify"}
  /\ expired' = TRUE /\ disturbed' = TRUE
  /\ UNCHANGED <<pc, docker, owned, cursor, result>>

Leave(kept) ==
  /\ exists' = (exists \ Covers(registry[cursor])) \union kept
  /\ running' = running \intersect exists'

\* One entry is removed.  A failed removal is named and not verified.
RemoveEntry ==
  LET entry == registry[cursor]
      targets == Covers(entry) \intersect exists
  IN
  /\ pc = "remove" /\ cursor > 0
  /\ \/ /\ ~expired /\ Blocked(entry) = {} /\ Tolerated(entry)
        /\ Leave({})
        /\ pc' = "verify" /\ UNCHANGED <<cursor, remaining, disturbed>>
     \/ /\ "silent" \in Faults /\ ~expired
        /\ \E kept \in SUBSET targets : Blocked(entry) \subseteq kept /\ Leave(kept)
        /\ pc' = "verify" /\ disturbed' = TRUE /\ UNCHANGED <<cursor, remaining>>
     \/ /\ "removal" \in Faults \/ expired \/ Blocked(entry) # {} \/ ~Tolerated(entry)
        /\ \E kept \in SUBSET targets :
             /\ Blocked(entry) \subseteq kept /\ (expired => kept = targets)
             /\ Leave(kept)
        /\ remaining' = remaining \union {cursor}
        /\ cursor' = cursor - 1 /\ UNCHANGED pc
        /\ disturbed' = IF Blocked(entry) = {} /\ Tolerated(entry) THEN TRUE ELSE disturbed
  /\ UNCHANGED <<created, owned, expired, worktree, status>>

\* Mutant of Found: the success of Remove is believed.
FoundNothing(entry) == FALSE

\* What Exists says of an entry after its removal.
Found(entry) == Covers(entry) \intersect exists # {}

VerifyEntry ==
  /\ pc = "verify"
  /\ \/ /\ ~expired
        /\ remaining' = IF Found(registry[cursor]) THEN remaining \union {cursor}
                                                   ELSE remaining
        /\ UNCHANGED disturbed
     \/ /\ "removal" \in Faults \/ expired
        /\ remaining' = remaining \union {cursor} /\ disturbed' = TRUE
  /\ cursor' = cursor - 1 /\ pc' = "remove"
  /\ UNCHANGED <<docker, owned, expired, worktree, status>>

\* PreflightCleanup has a context of its own, and its error overwrites a pass.
PreflightCleanup ==
  /\ pc = "remove" /\ cursor = 0
  /\ pc' = "done"
  /\ \/ /\ exists' = exists \ {"worktree"}
        /\ status' = IF remaining = {} THEN "PASS" ELSE "ERROR"
        /\ UNCHANGED <<worktree, disturbed>>
     \/ /\ "worktree" \in Faults
        /\ exists' \in {exists, exists \ {"worktree"}}
        /\ status' = "ERROR" /\ worktree' = TRUE /\ disturbed' = TRUE
  /\ UNCHANGED <<running, created, owned, expired, cursor, remaining>>

-----------------------------------------------------------------------------
Run ==
  \/ Returned \/ Panics \/ Built \/ StartShared
  \/ \E image \in Images : BuildImage(image)
  \/ \E c \in Containers : CreateContainer(c) \/ StartContainer(c) \/ StopEarly(c)
  \/ \E c \in Containers \union {"services"} : EndsItself(c)

FinishRun ==
  \/ \E passed \in BOOLEAN : Finish(passed)
  \/ RemoveEntry \/ VerifyEntry \/ PreflightCleanup

Done == pc = "done" /\ UNCHANGED vars

Next == Run \/ FinishRun \/ Expire \/ Done

Spec == Init /\ [][Next]_vars

-----------------------------------------------------------------------------
\* What Remaining names.
Named ==
  {r \in Resources :
     \/ worktree /\ r = "worktree"
     \/ \E i \in remaining : r \in Covers(registry[i])}

\* What no entry covers: a project whose registration a panic prevented.
Unregistered ==
  IF "compose" \in Range(registry) THEN {} ELSE {"network", "volume"}

\* Cleanup keeps its promise for everything the registry covers: whatever
\* call of the run or of the cleanup fails, whenever the cleanup context ends,
\* a PASS left nothing, an ERROR names what is left and is the cleanup's own or
\* that of a panic, and a kept run is untouched (registry.go: Cleanup;
\* lifecycle.go: finish).
Contract ==
  INSTANCE CleanupContract WITH
    mode  <- IF pc = "done" THEN "over"
             ELSE IF pc \in {"remove", "verify"} THEN "clean" ELSE "run",
    left  <- exists \ Unregistered,
    named <- IF pc = "done" THEN Named ELSE {},
    troubled <- disturbed

Promise == Contract!Spec

\* While Docker answers the cleanup and nothing panicked, no failure of the
\* run itself keeps it from passing: what a failed call left behind, what was
\* removed early and what never was registered is all found (registry.go:
\* Cleanup; lifecycle.go: registerContainer, registerRunLabeledResources,
\* registerCompose).
CleanUnlessCleanupFails ==
  pc = "done" /\ ~disturbed => status \in {"PASS", "SKIPPED"}
=============================================================================
