---------------------------- MODULE CleanupProofs ----------------------------
(***************************************************************************)
(* The cleanup of a run keeps its promise for every set of containers and  *)
(* images, every registry they lead to and every fault.  What a processed  *)
(* entry covers is gone or the entry is named, since cleanup only removes; *)
(* and what exists is covered by some entry.  A cleanup nothing disturbs   *)
(* passes, since containers are registered after, and so are removed       *)
(* before, the images, services and networks they use.                     *)
(***************************************************************************)
EXTENDS Cleanup, SequenceTheorems, TLAPS

\* The entries of the run's labels come first and stay.
Labelled ==
  /\ Len(registry) >= 2
  /\ registry[1] = "container-label" /\ registry[2] = "image-label"

\* Outside a running call nothing waits for its registration.
Settled == pc \notin RunPoints => pending = <<>>

\* Every entry the loop has passed is named, or nothing it covers is left.
Processed ==
  pc \in {"remove", "verify"} =>
    \A i \in 1 .. Len(registry) :
      i > cursor => i \in remaining \/ Covers(registry[i]) \intersect exists = {}

\* Until the end of the run nothing has been said of its resources.
Silent ==
  /\ pc \in RunPoints => remaining = {}
  /\ pc # "done" => ~worktree /\ status = "none"

\* At the end all that is left and covered is named.
Concluded ==
  pc = "done" =>
    /\ exists \ Unregistered \subseteq Named
    /\ status \in {"PASS", "ERROR", "SKIPPED"}
    /\ status = "PASS" => exists \ Unregistered = {}

IInv ==
  /\ TypeOK
  /\ Labelled
  /\ Settled
  /\ Processed
  /\ Silent
  /\ Concluded

USE DEF RunPoints, Points, Shared, Labels

-----------------------------------------------------------------------------
\* Entries and what they cover.

\* Everything but the worktrees and an unregistered project has an entry.
AllCovered ==
  \A r \in exists \ Unregistered :
    r # "worktree" => \E i \in 1 .. Len(registry) : r \in Covers(registry[i])

LEMMA Covered == TypeOK /\ Labelled => AllCovered
<1> SUFFICES ASSUME TypeOK, Labelled,
                    NEW r \in exists \ Unregistered, r # "worktree"
             PROVE  \E i \in 1 .. Len(registry) : r \in Covers(registry[i])
  BY DEF AllCovered
<1>1. Len(registry) \in Nat /\ DOMAIN registry = 1 .. Len(registry)
  BY LenProperties DEF TypeOK
<1>2. 1 \in 1 .. Len(registry) /\ 2 \in 1 .. Len(registry)
  BY <1>1 DEF Labelled
<1>3. CASE r \in Containers \union {"services"}
  BY <1>2, <1>3 DEF Covers, Labelled
<1>4. CASE r \in Images
  BY <1>2, <1>4 DEF Covers, Labelled
<1>5. CASE r \in {"network", "volume"}
  <2>1. "compose" \in Range(registry)
    BY <1>5 DEF Unregistered
  <2>2. PICK i \in 1 .. Len(registry) : registry[i] = "compose"
    BY <2>1, <1>1 DEF Range
  <2> QED BY <2>2, <1>5 DEF Covers
<1> QED BY <1>3, <1>4, <1>5 DEF TypeOK, Resources

-----------------------------------------------------------------------------
\* Type correctness.

LEMMA InitIInv == Init => IInv
<1> SUFFICES ASSUME Init PROVE IInv
  OBVIOUS
<1>1. registry \in Seq(Entries) /\ Len(registry) = 2
  BY DEF Init, Entries
<1>2. pending \in Seq(Entries)
  BY EmptySeq DEF Init
<1>3. TypeOK
  <2>1. cursor \in 0 .. Len(registry)
    BY <1>1 DEF Init
  <2>2. exists \subseteq Resources
    BY DEF Init, Resources
  <2>3. /\ pc \in Points /\ pc # "verify" /\ running = {} /\ created = {}
        /\ expired = FALSE /\ disturbed = FALSE /\ worktree = FALSE /\ remaining = {} /\ status = "none"
    BY DEF Init
  <2> QED BY <1>1, <1>2, <2>1, <2>2, <2>3 DEF TypeOK
<1>4. Labelled
  BY <1>1 DEF Init, Labelled
<1> QED BY <1>3, <1>4 DEF Init, IInv, Settled, Processed, Silent, Concluded

\* Every action a step can be.
LEMMA Actions ==
  ASSUME [Next]_vars
  PROVE  \/ Returned \/ Panics \/ Built \/ StartShared
         \/ (\E image \in Images : BuildImage(image))
         \/ (\E c \in Containers : CreateContainer(c))
         \/ (\E c \in Containers : StartContainer(c))
         \/ (\E c \in Containers : StopEarly(c))
         \/ (\E c \in Containers \union {"services"} : EndsItself(c))
         \/ (\E passed \in BOOLEAN : Finish(passed))
         \/ RemoveEntry \/ VerifyEntry \/ PreflightCleanup \/ Expire
         \/ UNCHANGED vars
BY DEF Next, Run, FinishRun, Done

LEMMA TypeStep == TypeOK /\ Labelled /\ [Next]_vars => TypeOK'
<1> SUFFICES ASSUME TypeOK, Labelled, [Next]_vars PROVE TypeOK'
  OBVIOUS
<1> USE DEF TypeOK
<1>0. Len(registry) \in Nat /\ DOMAIN registry = 1 .. Len(registry)
  BY LenProperties
<1>1. CASE Returned
  <2>1. registry \o pending \in Seq(Entries) /\ <<>> \in Seq(Entries)
    BY ConcatProperties, EmptySeq
  <2>2. Len(registry \o pending) >= Len(registry) /\ Len(registry \o pending) \in Nat
    BY ConcatProperties, LenProperties
  <2>3. cursor \in 0 .. Len(registry \o pending)
    BY <1>0, <2>2
  <2>4. remaining \subseteq 1 .. Len(registry \o pending)
    BY <1>0, <2>2
  <2> QED BY <1>1, <2>1, <2>3, <2>4 DEF Returned, docker, result, trouble
<1>2. CASE Panics
  BY <1>2, EmptySeq DEF Panics, docker, result, trouble
<1>3. CASE Built
  BY <1>3 DEF Built, docker, owned, result, trouble
<1>4. CASE StartShared
  <2>1. <<"compose">> \in Seq(Entries)
    BY DEF Entries
  <2>2. exists' \subseteq Resources
    <3>1. \/ exists' = exists \union Shared \union ServiceImages
          \/ \E part \in SUBSET (Shared \union ServiceImages) : exists' = exists \union part
          \/ exists' = exists
      BY <1>4 DEF StartShared, Fails
    <3> QED BY <3>1, ImagesAssumption DEF Resources
  <2>3. pending' \in Seq(Entries)
    BY <1>4, <2>1 DEF StartShared
  <2> QED BY <1>4, <2>2, <2>3 DEF StartShared, result, trouble
<1>5. ASSUME NEW image \in Images, BuildImage(image) PROVE TypeOK'
  <2>1. <<image>> \in Seq(Entries)
    BY DEF Entries
  <2> QED BY <1>5, <2>1 DEF BuildImage, Fails, result, trouble, Resources
<1>6. ASSUME NEW c \in Containers, CreateContainer(c) PROVE TypeOK'
  <2>1. c \in Entries
    BY DEF Entries
  <2>2. Append(pending, c) \in Seq(Entries)
    BY <2>1, AppendProperties
  <2> QED BY <1>6, <2>2 DEF CreateContainer, Fails, result, trouble, Resources
<1>7. ASSUME NEW c \in Containers, StartContainer(c) PROVE TypeOK'
  BY <1>7 DEF StartContainer, owned, result, trouble
<1>8. ASSUME NEW c \in Containers, StopEarly(c) PROVE TypeOK'
  <2>1. running' \subseteq running /\ running' \subseteq exists' /\ exists' \subseteq exists
    BY <1>8 DEF StopEarly
  <2>2. UNCHANGED <<pc, created, registry, pending, expired, disturbed, cursor, remaining, worktree, status>>
    BY <1>8 DEF StopEarly, owned, result, trouble
  <2> QED BY <2>1, <2>2
<1>9. ASSUME NEW c \in Containers \union {"services"}, EndsItself(c) PROVE TypeOK'
  BY <1>9 DEF EndsItself, owned, result, trouble
<1>10. ASSUME NEW passed \in BOOLEAN, Finish(passed) PROVE TypeOK'
  <2>1. UNCHANGED <<exists, running, created, registry, pending, expired, disturbed>>
    BY <1>10 DEF Finish, docker, owned, trouble
  <2>2. \/ /\ pc' = "done" /\ status' = "SKIPPED" /\ cursor' = cursor
           /\ remaining' = 1 .. Len(registry) /\ worktree' = TRUE
        \/ /\ pc' = "remove" /\ cursor' = Len(registry)
           /\ UNCHANGED <<remaining, worktree, status>>
    BY <1>10, <1>0 DEF Finish, Last, result, trouble
  <2>3. cursor' \in 0 .. Len(registry)
    <3>1. cursor' = cursor \/ cursor' = Len(registry)
      BY <2>2
    <3>2. cursor \in 0 .. Len(registry)
      OBVIOUS
    <3> QED BY <3>1, <3>2, <1>0
  <2>4. remaining' \subseteq 1 .. Len(registry)
    BY <2>2
  <2>5. /\ pc' \in {"done", "remove"} /\ worktree' \in BOOLEAN
        /\ status' \in {"none", "PASS", "ERROR", "SKIPPED"}
    BY <2>2
  <2> QED BY <2>1, <2>3, <2>4, <2>5
<1>11. CASE RemoveEntry
  <2>1. exists' \subseteq exists /\ running' = running \intersect exists'
    BY <1>11 DEF RemoveEntry, Leave
  <2>2. /\ cursor \in 1 .. Len(registry)
        /\ registry' = registry /\ pending' = pending
        /\ created' = created /\ expired' = expired
        /\ worktree' = worktree /\ status' = status
    BY <1>11, <1>0 DEF RemoveEntry, owned
  <2>6. disturbed' \in {disturbed, TRUE}
    BY <1>11 DEF RemoveEntry
  <2>3. \/ cursor' = cursor /\ remaining' = remaining /\ pc' = "verify"
        \/ cursor' = cursor - 1 /\ remaining' = remaining \union {cursor} /\ pc' = "remove"
    BY <1>11 DEF RemoveEntry
  <2>4. cursor' \in 0 .. Len(registry) /\ (pc' = "verify" => cursor' > 0)
    BY <2>2, <2>3, <1>0
  <2>5. remaining' \subseteq 1 .. Len(registry) /\ pc' \in {"remove", "verify"}
    BY <2>2, <2>3
  <2> QED BY <2>1, <2>2, <2>4, <2>5, <2>6
<1>12. CASE VerifyEntry
  <2>1. /\ UNCHANGED <<exists, running, created, registry, pending, expired, worktree, status>>
        /\ disturbed' \in BOOLEAN
    BY <1>12 DEF VerifyEntry, docker, owned
  <2>2. /\ cursor \in 1 .. Len(registry) /\ cursor' = cursor - 1 /\ pc' = "remove"
        /\ remaining' \subseteq remaining \union {cursor}
    BY <1>12, <1>0 DEF VerifyEntry
  <2> QED BY <2>1, <2>2, <1>0
<1>13. CASE PreflightCleanup
  <2>1. /\ UNCHANGED <<running, created, registry, pending, expired, cursor, remaining>>
        /\ pc' = "done" /\ status' \in {"PASS", "ERROR"} /\ worktree' \in BOOLEAN
        /\ disturbed' \in BOOLEAN
        /\ exists' \in {exists, exists \ {"worktree"}}
    BY <1>13 DEF PreflightCleanup, owned
  <2>2. running' \subseteq (Containers \union {"services"}) \intersect exists'
    BY <2>1, NamesAssumption
  <2> QED BY <2>1, <2>2
<1>14. CASE Expire
  BY <1>14 DEF Expire, docker, owned, result, trouble
<1>15. CASE UNCHANGED vars
  BY <1>15 DEF vars, docker, owned, result, trouble
<1> QED BY <1>1, <1>2, <1>3, <1>4, <1>5, <1>6, <1>7, <1>8, <1>9, <1>10, <1>11,
           <1>12, <1>13, <1>14, <1>15, Actions

-----------------------------------------------------------------------------
\* The invariant is inductive.

\* Registration appends; nothing else touches the registry.
LEMMA RegistryStep ==
  ASSUME TypeOK, [Next]_vars
  PROVE  registry' = registry \/ (Returned /\ registry' = registry \o pending)
BY Actions DEF Returned, Panics, Built, StartShared, BuildImage, CreateContainer,
   StartContainer, StopEarly, EndsItself, Finish, RemoveEntry, VerifyEntry,
   PreflightCleanup, Expire, vars, owned

LEMMA LabelledStep ==
  ASSUME TypeOK, Labelled, [Next]_vars
  PROVE  Labelled'
<1>1. CASE registry' = registry
  BY <1>1 DEF Labelled
<1>2. CASE registry' = registry \o pending
  <2>1. Len(registry) \in Nat /\ Len(pending) \in Nat
    BY LenProperties DEF TypeOK
  <2>2. /\ Len(registry \o pending) = Len(registry) + Len(pending)
        /\ \A i \in 1 .. Len(registry) + Len(pending) :
             (registry \o pending)[i] =
               IF i <= Len(registry) THEN registry[i] ELSE pending[i - Len(registry)]
    BY ConcatProperties DEF TypeOK
  <2>3. 1 \in 1 .. Len(registry) + Len(pending) /\ 2 \in 1 .. Len(registry) + Len(pending)
    BY <2>1 DEF Labelled
  <2>4. (registry \o pending)[1] = registry[1] /\ (registry \o pending)[2] = registry[2]
    BY <2>2, <2>3 DEF Labelled
  <2>5. Len(registry') >= 2
    BY <1>2, <2>1, <2>2 DEF Labelled
  <2> QED BY <1>2, <2>4, <2>5 DEF Labelled
<1> QED BY <1>1, <1>2, RegistryStep

LEMMA SettledStep ==
  ASSUME TypeOK, Settled, [Next]_vars
  PROVE  Settled'
BY Actions DEF TypeOK, Settled, Returned, Panics, Built, StartShared, BuildImage,
   CreateContainer, StartContainer, StopEarly, EndsItself, Finish, RemoveEntry,
   VerifyEntry, PreflightCleanup, Expire, vars, owned

LEMMA SilentStep ==
  ASSUME TypeOK, Settled, Silent, [Next]_vars
  PROVE  Silent'
<1>1. CASE pc' \in RunPoints
  <2>1. pc \in RunPoints /\ UNCHANGED <<remaining, worktree, status>>
    BY <1>1, Actions DEF Settled, Returned, Panics, Built, StartShared, BuildImage,
       CreateContainer, StartContainer, StopEarly, EndsItself, Finish, RemoveEntry,
       VerifyEntry, PreflightCleanup, Expire, vars, result
  <2> QED BY <1>1, <2>1 DEF Silent
<1>2. CASE pc' \in {"remove", "verify"}
  <2>1. pc # "done" /\ UNCHANGED <<worktree, status>>
    BY <1>2, Actions DEF Settled, Returned, Panics, Built, StartShared, BuildImage,
       CreateContainer, StartContainer, StopEarly, EndsItself, Finish, RemoveEntry,
       VerifyEntry, PreflightCleanup, Expire, vars, result
  <2> QED BY <1>2, <2>1 DEF Silent
<1>3. CASE pc' \notin RunPoints \union {"remove", "verify"}
  <2>1. pc' = "done"
    BY <1>3, Actions DEF TypeOK, Returned, Panics, Built, StartShared, BuildImage,
       CreateContainer, StartContainer, StopEarly, EndsItself, Finish, RemoveEntry,
       VerifyEntry, PreflightCleanup, Expire, vars
  <2> QED BY <2>1 DEF Silent
<1> QED BY <1>1, <1>2, <1>3

\* Once cleanup has begun nothing is created and the registry is fixed.
LEMMA CleaningStep ==
  ASSUME TypeOK, Settled, [Next]_vars, pc \in {"remove", "verify", "done"}
  PROVE  /\ exists' \subseteq exists
         /\ registry' = registry
         /\ pc' \in {"remove", "verify", "done"}
BY Actions DEF TypeOK, Settled, Returned, Panics, Built, StartShared, BuildImage,
   CreateContainer, StartContainer, StopEarly, EndsItself, Finish, RemoveEntry,
   VerifyEntry, PreflightCleanup, Expire, Leave, vars, docker, owned

LEMMA ProcessedStep ==
  ASSUME TypeOK, Settled, Processed, [Next]_vars
  PROVE  Processed'
<1>0. Len(registry) \in Nat
  BY LenProperties DEF TypeOK
<1>1. CASE pc \in RunPoints
  <2>1. pc' \in {"remove", "verify"} => cursor' = Len(registry) /\ registry' = registry
    BY <1>1, Actions DEF Returned, Panics, Built, StartShared, BuildImage,
       CreateContainer, StartContainer, StopEarly, EndsItself, Finish, Last, RemoveEntry,
       VerifyEntry, PreflightCleanup, Expire, vars, owned
  <2> QED BY <2>1, <1>0 DEF Processed
<1>2. CASE pc \in {"remove", "verify", "done"}
  <2> SUFFICES ASSUME pc' \in {"remove", "verify"},
                      NEW i \in 1 .. Len(registry), i > cursor'
               PROVE  i \in remaining' \/ Covers(registry[i]) \intersect exists' = {}
    BY <1>2, CleaningStep DEF Processed, Covers
  <2>1. exists' \subseteq exists
    BY <1>2, CleaningStep
  <2>2. CASE RemoveEntry /\ cursor' = cursor - 1
    <3>0. cursor' # cursor
      BY <2>2, <1>0 DEF TypeOK
    <3>1. remaining' = remaining \union {cursor}
      BY <2>2, <3>0 DEF RemoveEntry
    <3>2. i = cursor \/ i > cursor
      BY <2>2 DEF TypeOK
    <3> QED BY <2>1, <2>2, <3>1, <3>2 DEF Processed, RemoveEntry
  <2>3. CASE RemoveEntry /\ cursor' = cursor /\ remaining' = remaining
    BY <2>1, <2>3 DEF Processed, RemoveEntry
  <2>4. CASE VerifyEntry
    <3>1. /\ cursor' = cursor - 1 /\ remaining \subseteq remaining' /\ exists' = exists
          /\ cursor \in remaining' \/ Covers(registry[cursor]) \intersect exists = {}
      BY <2>4 DEF VerifyEntry, Found, docker
    <3>2. i = cursor \/ i > cursor
      BY <3>1 DEF TypeOK
    <3> QED BY <2>4, <3>1, <3>2 DEF Processed, VerifyEntry
  <2>5. CASE UNCHANGED <<pc, cursor, remaining>>
    BY <2>1, <2>5 DEF Processed
  <2>6. \/ RemoveEntry /\ cursor' = cursor - 1
        \/ RemoveEntry /\ cursor' = cursor /\ remaining' = remaining
        \/ VerifyEntry
        \/ UNCHANGED <<pc, cursor, remaining>>
    BY <1>2, Actions DEF Settled, Returned, Panics, Built, StartShared, BuildImage,
       CreateContainer, StartContainer, StopEarly, EndsItself, Finish, RemoveEntry,
       PreflightCleanup, Expire, vars, result
  <2> QED BY <2>2, <2>3, <2>4, <2>5, <2>6
<1> QED BY <1>1, <1>2 DEF TypeOK

LEMMA ConcludedStep ==
  ASSUME IInv, [Next]_vars, TypeOK', Labelled'
  PROVE  Concluded'
<1> SUFFICES ASSUME pc' = "done" PROVE Concluded'
  BY DEF Concluded
<1> USE DEF IInv
<1>1. CASE \E passed \in BOOLEAN : Finish(passed)
  <2>1. /\ remaining' = DOMAIN registry /\ worktree' = TRUE /\ status' = "SKIPPED"
        /\ registry' = registry
    BY <1>1 DEF Finish, owned
  <2>2. DOMAIN registry = 1 .. Len(registry)
    BY LenProperties DEF TypeOK
  <2>3. AllCovered'
    BY Covered, PTL
  <2>4. (exists \ Unregistered)' \subseteq Named'
    <3> SUFFICES ASSUME NEW r \in (exists \ Unregistered)' PROVE r \in Named'
      OBVIOUS
    <3>1. CASE r = "worktree"
      <4>1. worktree'
        BY <2>1, <3>1
      <4> QED BY <3>1, <4>1 DEF Named, Resources
    <3>2. CASE r # "worktree"
      <4>1. PICK i \in remaining' : r \in Covers(registry[i])'
        BY <2>1, <2>2, <2>3, <3>2 DEF AllCovered
      <4>2. r \in Resources
        BY DEF TypeOK
      <4> QED BY <4>1, <4>2 DEF Named
    <3> QED BY <3>1, <3>2
  <2> QED BY <2>1, <2>4 DEF Concluded
<1>2. CASE PreflightCleanup
  <2>1. /\ UNCHANGED <<registry, remaining>> /\ exists' \subseteq exists
        /\ cursor = 0 /\ pc = "remove"
        /\ \/ worktree' = TRUE /\ status' = "ERROR"
           \/ /\ "worktree" \notin exists' /\ status' \in {"PASS", "ERROR"}
              /\ status' = "PASS" => remaining = {}
    BY <1>2 DEF PreflightCleanup, owned
  <2>2. \A i \in 1 .. Len(registry) : i \in remaining \/ Covers(registry[i]) \intersect exists' = {}
    BY <2>1 DEF Processed
  <2>3. AllCovered'
    BY Covered, PTL
  <2>4. \A r \in (exists \ Unregistered)' : r # "worktree" =>
          \E i \in remaining : r \in Covers(registry[i])
    BY <2>1, <2>2, <2>3 DEF AllCovered, Covers
  <2>5. (exists \ Unregistered)' \subseteq Named'
    <3> SUFFICES ASSUME NEW r \in (exists \ Unregistered)' PROVE r \in Named'
      OBVIOUS
    <3>1. CASE r = "worktree"
      <4>1. worktree'
        BY <2>1, <3>1
      <4> QED BY <3>1, <4>1 DEF Named, Resources
    <3>2. CASE r # "worktree"
      <4>1. PICK i \in remaining' : r \in Covers(registry[i])'
        BY <2>1, <2>4, <3>2 DEF Covers
      <4>2. r \in Resources
        BY DEF TypeOK
      <4> QED BY <4>1, <4>2 DEF Named
    <3> QED BY <3>1, <3>2
  <2>6. status' = "PASS" => (exists \ Unregistered)' = {}
    BY <2>1, <2>4
  <2> QED BY <2>1, <2>5, <2>6 DEF Concluded
<1>3. CASE pc = "done"
  <2>1. UNCHANGED <<exists, registry, remaining, worktree, status>>
    BY <1>3, Actions DEF Settled, Returned, Panics, Built, StartShared, BuildImage,
       CreateContainer, StartContainer, StopEarly, EndsItself, Finish, RemoveEntry,
       VerifyEntry, PreflightCleanup, Expire, vars, docker, owned, result
  <2> QED BY <1>3, <2>1 DEF Concluded, Named, Unregistered, Covers
<1>4. pc = "done" \/ PreflightCleanup \/ \E passed \in BOOLEAN : Finish(passed)
  BY Actions DEF Returned, Panics, Built, StartShared, BuildImage,
     CreateContainer, StartContainer, StopEarly, EndsItself, RemoveEntry,
     VerifyEntry, Expire, vars
<1> QED BY <1>1, <1>2, <1>3, <1>4


LEMMA NextIInv == IInv /\ [Next]_vars => IInv'
BY TypeStep, LabelledStep, SettledStep, ProcessedStep, SilentStep, ConcludedStep DEF IInv

\* The invariant holds in every run.
THEOREM CleanupInvariant == Spec => []IInv
BY InitIInv, NextIInv, PTL DEF Spec

\* Every state of a run and its cleanup is of its type.
THEOREM CleanupTypes == Spec => []TypeOK
<1>1. IInv => TypeOK
  BY DEF IInv
<1> QED BY <1>1, CleanupInvariant, PTL

-----------------------------------------------------------------------------
(***************************************************************************)
(* A cleanup nothing disturbs.                                             *)
(***************************************************************************)

\* The entry is registered, or is when the current call returns.
Owned(entry) ==
  \/ \E i \in 1 .. Len(registry) : registry[i] = entry
  \/ \E i \in 1 .. Len(pending) : pending[i] = entry

\* No container is registered.
NoneYet == \A i \in 1 .. Len(registry) : registry[i] \notin Containers

\* Containers are registered after all they use.
Ordered ==
  /\ \A i, j \in 1 .. Len(registry) :
       registry[i] \notin Containers /\ registry[j] \in Containers => i < j
  /\ pc \in {"build", "shared"} => NoneYet /\ pending \in Seq(Entries \ Containers)
  /\ pending \in Seq(Containers) \/ (NoneYet /\ pending \in Seq(Entries \ Containers))
  /\ pc = "run" => pending \in Seq(Containers) \/ pending = <<"compose">>

\* The labels come first, and no image Compose builds is registered by itself.
Plain ==
  LET odd == ServiceImages \union {"container-label", "image-label"}
  IN  /\ \A i \in 1 .. Len(registry) : i > 2 => registry[i] \notin odd
      /\ \A i \in 1 .. Len(pending) : pending[i] \notin odd

\* What runs is owned, and the loop removes and finds what it should.
Calm ==
  ~disturbed =>
    /\ ~expired
    /\ pc \in {"build", "shared"} => exists \subseteq Images \union {"worktree"}
    /\ \A c \in running : IF c = "services" THEN Owned("compose") ELSE Owned(c)
    /\ pc \in {"remove", "verify"} => remaining = {}
    /\ pc = "verify" => Covers(registry[cursor]) \intersect exists = {}
    /\ pc = "done" => status \in {"PASS", "SKIPPED"}
\* What is owned stays owned until something disturbs the run.
LEMMA OwnedStep ==
  ASSUME TypeOK, [Next]_vars, ~ disturbed', NEW entry, Owned(entry)
  PROVE  Owned(entry)'
<1>0. Len(registry) \in Nat /\ Len(pending) \in Nat
  BY LenProperties DEF TypeOK
<1>1. CASE Returned
  <2>1. registry' = registry \o pending
    BY <1>1 DEF Returned
  <2>2. /\ Len(registry \o pending) = Len(registry) + Len(pending)
        /\ \A i \in 1 .. Len(registry) + Len(pending) :
             (registry \o pending)[i] =
               IF i <= Len(registry) THEN registry[i] ELSE pending[i - Len(registry)]
    BY ConcatProperties DEF TypeOK
  <2>3. CASE \E i \in 1 .. Len(registry) : registry[i] = entry
    <3>1. PICK i \in 1 .. Len(registry) : registry[i] = entry
      BY <2>3
    <3>2. i \in 1 .. Len(registry') /\ registry'[i] = entry
      BY <1>0, <2>1, <2>2, <3>1
    <3> QED BY <3>2 DEF Owned
  <2>4. CASE \E i \in 1 .. Len(pending) : pending[i] = entry
    <3>1. PICK i \in 1 .. Len(pending) : pending[i] = entry
      BY <2>4
    <3>2. Len(registry) + i \in 1 .. Len(registry') /\ registry'[Len(registry) + i] = entry
      BY <1>0, <2>1, <2>2, <3>1
    <3> QED BY <3>2 DEF Owned
  <2> QED BY <2>3, <2>4 DEF Owned
<1>2. CASE \E c \in Containers : CreateContainer(c)
  <2>1. PICK c \in Containers : CreateContainer(c)
    BY <1>2
  <2>2. registry' = registry /\ (pending' = pending \/ pending' = Append(pending, c))
    BY <2>1 DEF CreateContainer, Fails
  <2>3. c \in Entries
    BY DEF Entries
  <2>4. /\ Len(Append(pending, c)) = Len(pending) + 1
        /\ \A i \in 1 .. Len(pending) : Append(pending, c)[i] = pending[i]
    BY <2>3, AppendProperties DEF TypeOK
  <2> QED BY <1>0, <2>2, <2>4 DEF Owned
<1>3. CASE ~ Returned /\ ~ \E c \in Containers : CreateContainer(c)
  <2>1. registry' = registry
    BY <1>3, RegistryStep
  <2>2. pending' = pending \/ pending = <<>>
    BY <1>3, Actions DEF Panics, Built, StartShared, BuildImage, StartContainer, StopEarly,
       EndsItself, Finish, RemoveEntry, VerifyEntry, PreflightCleanup, Expire, vars, owned
  <2>3. pending = <<>> => Len(pending) = 0
    BY EmptySeq
  <2> QED BY <2>1, <2>2, <2>3 DEF Owned
<1> QED BY <1>1, <1>2, <1>3

\* No step registers a label again, or an image Compose builds.
LEMMA PlainStep ==
  ASSUME TypeOK, Labelled, Plain, [Next]_vars
  PROVE  Plain'
<1> DEFINE odd == ServiceImages \union {"container-label", "image-label"}
<1>0. Len(registry) \in Nat /\ Len(pending) \in Nat
  BY LenProperties DEF TypeOK
<1>1. CASE Returned
  <2>1. registry' = registry \o pending /\ pending' = <<>>
    BY <1>1 DEF Returned
  <2>2. /\ Len(registry \o pending) = Len(registry) + Len(pending)
        /\ \A i \in 1 .. Len(registry) + Len(pending) :
             (registry \o pending)[i] =
               IF i <= Len(registry) THEN registry[i] ELSE pending[i - Len(registry)]
    BY ConcatProperties DEF TypeOK
  <2>3. ASSUME NEW i \in 1 .. Len(registry'), i > 2
        PROVE  registry'[i] \notin odd
    <3>1. CASE i <= Len(registry)
      BY <1>0, <2>1, <2>2, <2>3, <3>1 DEF Plain
    <3>2. CASE i > Len(registry)
      <4>1. i - Len(registry) \in 1 .. Len(pending) /\ registry'[i] = pending[i - Len(registry)]
        BY <1>0, <2>1, <2>2, <2>3, <3>2
      <4> QED BY <4>1 DEF Plain
    <3> QED BY <1>0, <2>1, <2>2, <3>1, <3>2
  <2>4. Len(pending') = 0
    BY <2>1, EmptySeq
  <2> QED BY <2>3, <2>4 DEF Plain
<1>2. CASE \E c \in Containers : CreateContainer(c)
  <2>1. PICK c \in Containers : CreateContainer(c)
    BY <1>2
  <2>2. registry' = registry /\ (pending' = pending \/ pending' = Append(pending, c))
    BY <2>1 DEF CreateContainer, Fails
  <2>3. c \in Entries /\ c \notin odd
    BY NamesAssumption, ImagesAssumption DEF Entries
  <2>4. /\ Len(Append(pending, c)) = Len(pending) + 1
        /\ \A i \in 1 .. Len(pending) : Append(pending, c)[i] = pending[i]
        /\ Append(pending, c)[Len(pending) + 1] = c
    BY <2>3, AppendProperties DEF TypeOK
  <2> QED BY <1>0, <2>2, <2>3, <2>4 DEF Plain
<1>3. CASE \E image \in Images : BuildImage(image)
  <2>1. PICK image \in Images : BuildImage(image)
    BY <1>3
  <2>2. registry' = registry /\ (pending' = pending \/ pending' = <<image>>) /\ image \notin odd
    BY <2>1, NamesAssumption DEF BuildImage
  <2> QED BY <2>2 DEF Plain
<1>4. CASE StartShared
  <2>1. registry' = registry /\ (pending' = pending \/ pending' = <<"compose">>)
    BY <1>4 DEF StartShared
  <2>2. "compose" \notin odd
    BY NamesAssumption, ImagesAssumption
  <2> QED BY <2>1, <2>2 DEF Plain
<1>5. CASE /\ ~ Returned /\ ~ \E c \in Containers : CreateContainer(c)
           /\ ~ \E image \in Images : BuildImage(image)
           /\ ~ StartShared
  <2>1. registry' = registry
    BY <1>5, RegistryStep
  <2>2. pending' = pending \/ pending' = <<>>
    BY <1>5, Actions DEF Panics, Built, StartContainer, StopEarly,
       EndsItself, Finish, RemoveEntry, VerifyEntry, PreflightCleanup, Expire, vars, owned
  <2>3. pending' = <<>> => Len(pending') = 0
    BY EmptySeq
  <2> QED BY <2>1, <2>2, <2>3 DEF Plain
<1> QED BY <1>1, <1>2, <1>3, <1>4, <1>5

\* No step registers anything else after a container.
LEMMA OrderedStep ==
  ASSUME TypeOK, Labelled, Ordered, [Next]_vars
  PROVE  Ordered'
<1>0. Len(registry) \in Nat /\ Len(pending) \in Nat
  BY LenProperties DEF TypeOK
<1>1. CASE Returned
  <2>1. registry' = registry \o pending /\ pending' = <<>> /\ pc' = pc
    BY <1>1 DEF Returned
  <2>2. /\ Len(registry \o pending) = Len(registry) + Len(pending)
        /\ \A i \in 1 .. Len(registry) + Len(pending) :
             (registry \o pending)[i] =
               IF i <= Len(registry) THEN registry[i] ELSE pending[i - Len(registry)]
    BY ConcatProperties DEF TypeOK
  <2>3. pending' \in Seq(Containers)
    BY <2>1, EmptySeq
  <2>4. CASE pending \in Seq(Containers) /\ pc \notin {"build", "shared"}
    <3>1. \A i \in 1 .. Len(pending) : pending[i] \in Containers
      BY <2>4, ElementOfSeq
    <3>2. ASSUME NEW i \in 1 .. Len(registry'), NEW j \in 1 .. Len(registry'),
                 registry'[i] \notin Containers, registry'[j] \in Containers
          PROVE  i < j
      <4>1. i <= Len(registry) /\ registry[i] = registry'[i]
        <5>1. CASE i > Len(registry)
          <6>1. i - Len(registry) \in 1 .. Len(pending) /\ registry'[i] = pending[i - Len(registry)]
            BY <1>0, <2>1, <2>2, <3>2, <5>1
          <6> QED BY <3>1, <3>2, <6>1
        <5> QED BY <1>0, <2>1, <2>2, <5>1
      <4>2. CASE j <= Len(registry)
        BY <1>0, <2>1, <2>2, <3>2, <4>1, <4>2 DEF Ordered
      <4> QED BY <1>0, <2>1, <2>2, <4>1, <4>2
    <3>3. pc' \notin {"build", "shared"}
      BY <2>1, <2>4
    <3> QED BY <2>1, <2>3, <3>2, <3>3 DEF Ordered
  <2>5. CASE NoneYet /\ pending \in Seq(Entries \ Containers)
    <3>1. \A i \in 1 .. Len(pending) : pending[i] \notin Containers
      BY <2>5, ElementOfSeq
    <3>2. ASSUME NEW i \in 1 .. Len(registry')
          PROVE  registry'[i] \notin Containers
      <4>1. CASE i <= Len(registry)
        BY <1>0, <2>1, <2>2, <2>5, <4>1 DEF NoneYet
      <4>2. CASE i > Len(registry)
        <5>1. i - Len(registry) \in 1 .. Len(pending) /\ registry'[i] = pending[i - Len(registry)]
          BY <1>0, <2>1, <2>2, <4>2
        <5> QED BY <3>1, <5>1
      <4> QED BY <1>0, <2>1, <2>2, <4>1, <4>2
    <3>3. NoneYet'
      BY <3>2 DEF NoneYet
    <3>4. pending' \in Seq(Entries \ Containers)
      BY <2>1, EmptySeq
    <3> QED BY <2>1, <2>3, <3>2, <3>3, <3>4 DEF Ordered
  <2> QED BY <2>4, <2>5 DEF Ordered
<1>2. CASE \E c \in Containers : CreateContainer(c)
  <2>1. PICK c \in Containers : CreateContainer(c)
    BY <1>2
  <2>2. /\ registry' = registry /\ pc' = pc /\ pc = "run" /\ pending # <<"compose">>
        /\ pending' = pending \/ pending' = Append(pending, c)
    BY <2>1 DEF CreateContainer, Fails
  <2>3. pending \in Seq(Containers)
    BY <2>2 DEF Ordered
  <2>4. pending' \in Seq(Containers)
    BY <2>2, <2>3, AppendProperties
  <2> QED BY <2>2, <2>4 DEF Ordered
<1>3. CASE \E image \in Images : BuildImage(image)
  <2>1. PICK image \in Images : BuildImage(image)
    BY <1>3
  <2>2. /\ registry' = registry /\ pc = "build" /\ pc' \in {"build", "finish"}
        /\ pending' = pending \/ pending' = <<image>>
    BY <2>1 DEF BuildImage, Fails
  <2>3. image \in Entries \ Containers
    BY NamesAssumption DEF Entries
  <2>4. <<image>> \in Seq(Entries \ Containers)
    BY <2>3
  <2>5. pending' \in Seq(Entries \ Containers) /\ NoneYet
    BY <2>2, <2>4 DEF Ordered
  <2> QED BY <2>2, <2>5 DEF Ordered, NoneYet
<1>4. CASE StartShared
  <2>1. /\ registry' = registry /\ pc = "shared" /\ pc' \in {"run", "finish"}
        /\ pending = <<>> /\ (pending' = pending \/ pending' = <<"compose">>)
        /\ pc' = "run" => pending' = <<"compose">>
    BY <1>4 DEF StartShared
  <2>2. "compose" \in Entries \ Containers
    BY NamesAssumption DEF Entries
  <2>3. <<"compose">> \in Seq(Entries \ Containers)
    BY <2>2
  <2>4. pending' \in Seq(Entries \ Containers) /\ NoneYet
    BY <2>1, <2>3 DEF Ordered
  <2> QED BY <2>1, <2>4 DEF Ordered, NoneYet
<1>5. CASE Panics
  <2>1. pc' = "finish" /\ pending' = <<>> /\ registry' = registry
    BY <1>5 DEF Panics
  <2>2. pending' \in Seq(Containers)
    BY <2>1, EmptySeq
  <2> QED BY <2>1, <2>2 DEF Ordered
<1>6. CASE Built
  <2>1. pc = "build" /\ pc' = "shared" /\ UNCHANGED <<registry, pending>>
    BY <1>6 DEF Built, owned
  <2> QED BY <2>1 DEF Ordered, NoneYet
<1>7. CASE /\ ~ Returned /\ ~ \E c \in Containers : CreateContainer(c)
           /\ ~ \E image \in Images : BuildImage(image)
           /\ ~ StartShared /\ ~ Panics /\ ~ Built
  <2>1. registry' = registry /\ pending' = pending
    BY <1>7, Actions DEF StartContainer, StopEarly,
       EndsItself, Finish, RemoveEntry, VerifyEntry, PreflightCleanup, Expire, vars, owned
  <2>2. pc' = pc \/ pc' \in {"remove", "verify", "done"}
    BY <1>7, Actions DEF StartContainer, StopEarly,
       EndsItself, Finish, RemoveEntry, VerifyEntry, PreflightCleanup, Expire, vars
  <2> QED BY <2>1, <2>2 DEF Ordered, NoneYet
<1> QED BY <1>1, <1>2, <1>3, <1>4, <1>5, <1>6, <1>7

\* While nothing disturbs the cleanup, nothing that runs keeps an entry's
\* resources: containers go before what they use.
LEMMA Unblocked ==
  ASSUME IInv, Ordered, Plain, Calm, ~ disturbed, pc = "remove", cursor > 0
  PROVE  Blocked(registry[cursor]) = {}
<1>0. /\ Len(registry) \in Nat /\ cursor \in 1 .. Len(registry)
      /\ registry[cursor] \in Entries
  BY LenProperties, ElementOfSeq DEF IInv, TypeOK
<1>1. pending = <<>> /\ Len(pending) = 0
  BY EmptySeq DEF IInv, Settled
<1> DEFINE entry == registry[cursor]
<1> SUFFICES ASSUME NEW r \in Covers(entry) \intersect exists,
                    NEW c \in running \ Covers(entry), Uses(c, r)
             PROVE  FALSE
  BY DEF Blocked
<1>2. c \in Containers \union {"services"} /\ c \in exists
  BY DEF IInv, TypeOK
<1>3. ASSUME NEW i \in 1 .. Len(registry), c \in Covers(registry[i])
      PROVE  i < cursor
  <2>1. ~ (i > cursor)
    BY <1>2, <1>3 DEF IInv, Processed, Calm
  <2>2. i # cursor
    BY <1>3
  <2> QED BY <1>0, <2>1, <2>2
<1>4. entry # "container-label"
  BY <1>2 DEF Covers
<1>5. CASE c = "services"
  <2>1. PICK i \in 1 .. Len(registry) : registry[i] = "compose"
    BY <1>1, <1>5 DEF Calm, Owned
  <2>2. "services" \in Covers("compose")
    BY DEF Covers
  <2>3. i < cursor
    BY <1>3, <1>5, <2>1, <2>2
  <2>4. i # 1 /\ i # 2
    BY <2>1 DEF IInv, Labelled
  <2>5. cursor > 2
    BY <1>0, <2>3, <2>4
  <2>6. entry \notin ServiceImages \union {"container-label", "image-label"}
    BY <1>0, <2>5 DEF Plain
  <2>7. entry # "compose"
    BY <1>5, <2>2
  <2>8. entry \in Containers \union Images /\ r = entry
    BY <1>0, <2>6, <2>7 DEF Entries, Covers
  <2>9. r \in ServiceImages \union {"network", "volume"}
    BY <1>5 DEF Uses
  <2> QED BY <2>6, <2>8, <2>9, NamesAssumption
<1>6. CASE c # "services"
  <2>1. c \in Containers
    BY <1>2, <1>6
  <2>2. PICK i \in 1 .. Len(registry) : registry[i] = c
    BY <1>1, <1>6 DEF Calm, Owned
  <2>3. c \in Covers(registry[i])
    BY <2>1, <2>2, NamesAssumption DEF Covers
  <2>4. i < cursor
    BY <1>3, <2>3
  <2>5. entry \in Containers
    BY <1>0, <2>1, <2>2, <2>4 DEF Ordered
  <2>6. r \in Containers
    BY <2>5, NamesAssumption DEF Covers
  <2>7. r \in Images \union {"network"}
    BY <1>6, <2>1, ImagesAssumption DEF Uses
  <2> QED BY <2>6, <2>7, NamesAssumption
<1> QED BY <1>5, <1>6

\* Nothing but a fault of the cleanup or a panic makes it name an entry.
LEMMA CalmStep ==
  ASSUME IInv, Ordered, Plain, Calm, [Next]_vars, TypeOK'
  PROVE  Calm'
<1> SUFFICES ASSUME ~ disturbed' PROVE Calm'
  BY DEF Calm
<1>0. ~ disturbed /\ ~ Panics /\ ~ Expire
  BY Actions DEF IInv, TypeOK, Returned, Panics, Built, StartShared, BuildImage,
     CreateContainer, StartContainer, StopEarly, EndsItself, Finish, RemoveEntry,
     VerifyEntry, PreflightCleanup, Expire, vars, trouble
<1>1. ~ expired'
  BY <1>0, Actions DEF Calm, Returned, Built, StartShared, BuildImage,
     CreateContainer, StartContainer, StopEarly, EndsItself, Finish, RemoveEntry,
     VerifyEntry, PreflightCleanup, vars, trouble
<1>2. pc' \in {"build", "shared"} => exists' \subseteq Images \union {"worktree"}
  <2> SUFFICES ASSUME pc' \in {"build", "shared"} PROVE exists' \subseteq Images \union {"worktree"}
    OBVIOUS
  <2>1. CASE \E image \in Images : BuildImage(image)
    BY <1>0, <2>1 DEF Calm, BuildImage, Fails
  <2>2. CASE ~ \E image \in Images : BuildImage(image)
    <3>1. pc \in {"build", "shared"} /\ exists' \subseteq exists
      BY <1>0, <2>2, Actions DEF Returned, Built, StartShared,
         CreateContainer, StartContainer, StopEarly, EndsItself, Finish, RemoveEntry,
         VerifyEntry, PreflightCleanup, vars, docker
    <3> QED BY <1>0, <3>1 DEF Calm
  <2> QED BY <2>1, <2>2
<1>3. ASSUME NEW c \in running'
      PROVE  IF c = "services" THEN Owned("compose")' ELSE Owned(c)'
  <2>1. CASE c \in running
    BY <1>0, <2>1, OwnedStep DEF Calm, IInv
  <2>2. CASE c \notin running /\ StartShared
    <3>1. c = "services" /\ "services" \in exists'
      BY <1>3, <2>2 DEF StartShared
    <3>2. "services" \notin exists
      BY <1>0, <2>2, NamesAssumption DEF Calm, StartShared
    <3>3. pending' = <<"compose">>
      BY <2>2, <3>1, <3>2 DEF StartShared
    <3>4. 1 \in 1 .. Len(pending') /\ pending'[1] = "compose"
      BY <3>3
    <3> QED BY <3>1, <3>4 DEF Owned
  <2>3. CASE c \notin running /\ ~ StartShared
    <3>1. StartContainer(c) /\ c \in Containers
      BY <1>0, <1>3, <2>3, Actions DEF Returned, Built, BuildImage,
         CreateContainer, StartContainer, StopEarly, EndsItself, Finish, RemoveEntry, Leave,
         VerifyEntry, PreflightCleanup, vars, docker
    <3>2. Len(pending) \in 1 .. Len(pending) /\ pending[Len(pending)] = c
      BY <3>1, EmptySeq, LenProperties DEF StartContainer, IInv, TypeOK
    <3>3. Owned(c)
      BY <3>2 DEF Owned
    <3>4. c # "services"
      BY <3>1, NamesAssumption
    <3> QED BY <3>3, <3>4, OwnedStep DEF IInv
  <2> QED BY <2>1, <2>2, <2>3
<1>4. RemoveEntry => /\ pc' = "verify" /\ remaining' = remaining /\ cursor' = cursor
                     /\ exists' = exists \ Covers(registry[cursor]) /\ registry' = registry
  <2>1. RemoveEntry => Blocked(registry[cursor]) = {}
    BY <1>0, Unblocked DEF RemoveEntry
  <2> QED BY <1>0, <2>1 DEF RemoveEntry, Leave, Tolerated, owned, Calm
<1>5. pc' \in {"remove", "verify"} => remaining' = {}
  <2>1. CASE RemoveEntry
    BY <1>0, <1>4, <2>1 DEF Calm, RemoveEntry
  <2>2. CASE VerifyEntry
    BY <1>0, <2>2 DEF Calm, VerifyEntry, Found
  <2>3. CASE ~ RemoveEntry /\ ~ VerifyEntry
    <3> SUFFICES ASSUME pc' \in {"remove", "verify"} PROVE remaining' = {}
      OBVIOUS
    <3>1. remaining' = remaining /\ pc \in RunPoints \union {"remove", "verify"}
      BY <1>0, <2>3, Actions DEF Returned, Built, StartShared, BuildImage,
         CreateContainer, StartContainer, StopEarly, EndsItself, Finish,
         PreflightCleanup, vars, result
    <3> QED BY <1>0, <3>1 DEF Calm, IInv, Silent
  <2> QED BY <2>1, <2>2, <2>3
<1>6. pc' = "verify" => Covers(registry'[cursor']) \intersect exists' = {}
  <2>1. CASE RemoveEntry
    BY <1>4, <2>1 DEF Covers
  <2>2. CASE ~ RemoveEntry
    <3> SUFFICES ASSUME pc' = "verify" PROVE Covers(registry'[cursor']) \intersect exists' = {}
      OBVIOUS
    <3>1. pc = "verify" /\ UNCHANGED <<exists, registry, cursor>>
      BY <1>0, <2>2, Actions DEF IInv, Settled, Returned, Built, StartShared, BuildImage,
         CreateContainer, StartContainer, StopEarly, EndsItself, Finish,
         VerifyEntry, PreflightCleanup, vars, docker, owned, trouble, result
    <3> QED BY <1>0, <3>1 DEF Calm, Covers
  <2> QED BY <2>1, <2>2
<1>7. pc' = "done" => status' \in {"PASS", "SKIPPED"}
  <2> SUFFICES ASSUME pc' = "done" PROVE status' \in {"PASS", "SKIPPED"}
    OBVIOUS
  <2>1. CASE PreflightCleanup
    BY <1>0, <2>1 DEF Calm, PreflightCleanup
  <2>2. CASE \E passed \in BOOLEAN : Finish(passed)
    BY <2>2 DEF Finish
  <2>3. CASE ~ PreflightCleanup /\ ~ \E passed \in BOOLEAN : Finish(passed)
    <3>1. pc = "done" /\ status' = status
      BY <1>0, <2>3, Actions DEF Returned, Built, StartShared, BuildImage,
         CreateContainer, StartContainer, StopEarly, EndsItself, RemoveEntry,
         VerifyEntry, vars, result
    <3> QED BY <1>0, <3>1 DEF Calm
  <2> QED BY <2>1, <2>2, <2>3
<1> QED BY <1>1, <1>2, <1>3, <1>5, <1>6, <1>7 DEF Calm

\* A run begins calm.
LEMMA InitCalm == Init => Ordered /\ Plain /\ Calm
<1> SUFFICES ASSUME Init PROVE Ordered /\ Plain /\ Calm
  OBVIOUS
<1>1. /\ Len(registry) = 2 /\ registry[1] = "container-label" /\ registry[2] = "image-label"
      /\ pending = <<>> /\ Len(pending) = 0 /\ pending \in Seq(Entries \ Containers)
  BY EmptySeq DEF Init
<1>2. NoneYet
  BY <1>1, NamesAssumption DEF NoneYet
<1>3. Ordered
  BY <1>1, <1>2 DEF Ordered, NoneYet, Init
<1>4. Plain
  BY <1>1 DEF Plain
<1>5. Calm
  BY DEF Init, Calm
<1> QED BY <1>3, <1>4, <1>5

\* The invariant of a run that says what a cleanup nothing disturbs does.
CalmInv == IInv /\ Ordered /\ Plain /\ Calm

LEMMA NextCalm == CalmInv /\ [Next]_vars => CalmInv'
<1> SUFFICES ASSUME CalmInv, [Next]_vars PROVE CalmInv'
  OBVIOUS
<1> USE DEF CalmInv
<1>1. IInv'
  BY NextIInv
<1>2. Ordered' /\ Plain'
  BY OrderedStep, PlainStep DEF IInv
<1>3. Calm'
  BY <1>1, CalmStep DEF IInv
<1> QED BY <1>1, <1>2, <1>3

\* It holds in every run.
THEOREM CalmInvariant == Spec => []CalmInv
<1>1. Init => CalmInv
  BY InitIInv, InitCalm DEF CalmInv
<1> QED BY <1>1, NextCalm, PTL DEF Spec

\* A failure of the run alone, whatever it left behind, does not keep its
\* cleanup from passing.
THEOREM CalmCleanupPasses == Spec => []CleanUnlessCleanupFails
<1>1. CalmInv => CleanUnlessCleanupFails
  BY DEF CalmInv, Calm, CleanUnlessCleanupFails
<1> QED BY <1>1, CalmInvariant, PTL

-----------------------------------------------------------------------------
\* The run implements the contract.

\* What has disturbed a run or its cleanup is not undone.
LEMMA DisturbedStep ==
  ASSUME TypeOK, [Next]_vars
  PROVE  disturbed => disturbed'
BY Actions DEF TypeOK, Returned, Panics, Built, StartShared, BuildImage,
   CreateContainer, StartContainer, StopEarly, EndsItself, Finish, RemoveEntry,
   VerifyEntry, PreflightCleanup, Expire, vars, trouble

LEMMA ContractInit == Init => Contract!Init
BY InitIInv DEF Init, Contract!Init, IInv, TypeOK

\* A step of the run, its end, and the steps of its cleanup each have their
\* counterpart in the contract.
LEMMA ContractStep ==
  ASSUME IInv, IInv', Calm', [Next]_vars
  PROVE  Contract!Next \/ UNCHANGED Contract!vars
<1> USE DEF IInv
<1>0. disturbed => disturbed'
  BY DisturbedStep
<1>1. CASE pc \in RunPoints /\ pc' \in RunPoints
  <2>1. status' = status /\ exists' \subseteq Resources
    BY <1>1 DEF Silent, TypeOK
  <2>2. Contract!Work
    BY <1>0, <1>1, <2>1 DEF Contract!Work, Contract!Worsens
  <2> QED BY <2>2 DEF Contract!Next
<1>2. CASE pc \in RunPoints /\ pc' = "remove"
  <2>1. UNCHANGED <<exists, registry, status, disturbed>>
    BY <1>2, Actions DEF Returned, Panics, Built, StartShared, BuildImage,
       CreateContainer, StartContainer, StopEarly, EndsItself, Finish, RemoveEntry,
       VerifyEntry, PreflightCleanup, Expire, vars, docker, owned, trouble, result
  <2>2. Contract!Start
    BY <1>2, <2>1 DEF Contract!Start, Unregistered
  <2> QED BY <2>2 DEF Contract!Next
<1>3. CASE pc \in RunPoints /\ pc' = "done"
  <2>1. UNCHANGED <<exists, registry, disturbed>> /\ status' = "SKIPPED"
    BY <1>3, Actions DEF Returned, Panics, Built, StartShared, BuildImage,
       CreateContainer, StartContainer, StopEarly, EndsItself, Finish, RemoveEntry,
       VerifyEntry, PreflightCleanup, Expire, vars, docker, owned, trouble, result
  <2>2. (exists \ Unregistered)' = exists \ Unregistered
    BY <2>1 DEF Unregistered
  <2>3. (exists \ Unregistered)' \subseteq Named'
    BY <1>3 DEF Concluded
  <2>4. Named' \subseteq Resources
    BY DEF Named
  <2>5. Contract!Keep
    BY <1>3, <2>1, <2>2, <2>3, <2>4 DEF Contract!Keep
  <2> QED BY <2>5 DEF Contract!Next
<1>4. CASE pc \in {"remove", "verify"} /\ pc' \in {"remove", "verify"}
  <2>1. exists' \subseteq exists /\ registry' = registry
    BY <1>4, CleaningStep
  <2>2. status' = status
    BY <1>4 DEF Silent
  <2>3. (exists \ Unregistered)' \subseteq exists \ Unregistered
    BY <2>1 DEF Unregistered
  <2>4. Contract!Remove
    BY <1>0, <1>4, <2>2, <2>3 DEF Contract!Remove, Contract!Worsens
  <2> QED BY <2>4 DEF Contract!Next
<1>5. CASE pc \in {"remove", "verify"} /\ pc' = "done"
  <2>1. exists' \subseteq exists /\ registry' = registry
    BY <1>5, CleaningStep
  <2>2. (exists \ Unregistered)' \subseteq exists \ Unregistered
    BY <2>1 DEF Unregistered
  <2>3. status' \in {"PASS", "ERROR"}
    BY <1>5, Actions DEF Settled, Returned, Panics, Built, StartShared, BuildImage,
       CreateContainer, StartContainer, StopEarly, EndsItself, Finish, RemoveEntry,
       VerifyEntry, PreflightCleanup, Expire, vars
  <2>4. (exists \ Unregistered)' \subseteq Named' /\ (status' = "PASS" => (exists \ Unregistered)' = {})
    BY <1>5 DEF Concluded
  <2>5. Named' \subseteq Resources
    BY DEF Named
  <2>6. status' = "ERROR" => disturbed'
    BY <1>5 DEF Calm
  <2>7. Contract!MayEnd(status', (exists \ Unregistered)', disturbed')
    BY <2>2, <2>3, <2>4, <2>6 DEF Contract!MayEnd
  <2>8. Contract!Conclude
    BY <1>0, <1>5, <2>4, <2>5, <2>7 DEF Contract!Conclude, Contract!Worsens
  <2> QED BY <2>8 DEF Contract!Next
<1>6. CASE pc = "done"
  <2>1. UNCHANGED <<pc, exists, registry, remaining, worktree, status, disturbed>>
    BY <1>6, Actions DEF Settled, Returned, Panics, Built, StartShared, BuildImage,
       CreateContainer, StartContainer, StopEarly, EndsItself, Finish, RemoveEntry,
       VerifyEntry, PreflightCleanup, Expire, vars, docker, owned, trouble, result
  <2>2. UNCHANGED <<exists \ Unregistered, Named>>
    BY <2>1 DEF Unregistered, Named, Covers
  <2> QED BY <1>6, <2>1, <2>2 DEF Contract!vars
<1>7. pc \in {"remove", "verify", "done"} => pc' \in {"remove", "verify", "done"}
  BY CleaningStep
<1>8. \/ pc \in RunPoints /\ pc' # "verify"
      \/ pc \in {"remove", "verify", "done"}
  BY Actions DEF TypeOK, Returned, Panics, Built, StartShared, BuildImage,
     CreateContainer, StartContainer, StopEarly, EndsItself, Finish, RemoveEntry,
     VerifyEntry, PreflightCleanup, Expire, vars
<1>9. pc' \in Points
  BY DEF TypeOK
<1> QED BY <1>1, <1>2, <1>3, <1>4, <1>5, <1>6, <1>7, <1>8, <1>9

\* Whatever fails, in the run or in its cleanup, and whenever it does: a
\* cleanup that passed left nothing the registry covers, one that failed names
\* all that is left and did so for trouble of its own or a panic, and a kept run
\* is untouched and named.
THEOREM CleanupKeepsItsPromise == Spec => Promise
<1>1. Init => Contract!Init
  BY ContractInit
<1>2. CalmInv /\ CalmInv' /\ [Next]_vars => [Contract!Next]_(Contract!vars)
  BY ContractStep DEF CalmInv
<1> QED BY <1>1, <1>2, CalmInvariant, PTL DEF Spec, Promise, Contract!Spec
=============================================================================
