----------------------------- MODULE MCCompose ------------------------------
(* Compose files for Compose: one that is accepted and what departs from it. *)
EXTENDS Compose

MCNames == {"db", "cache"}

MCKeys == {"net", "data"}

DB == [health |-> "enabled", depends |-> {}, uses |-> MCKeys, build |-> FALSE,
       pinned |-> {}, unsafe |-> {}]

Cache == [DB EXCEPT !.depends = {"db"}, !.uses = {"net"}, !.build = TRUE]

Net == [kind |-> "network", name |-> "", external |-> FALSE, escapes |-> FALSE]

Data == [Net EXCEPT !.kind = "volume"]

Pair == [services |-> [s \in MCNames |-> IF s = "db" THEN DB ELSE Cache],
         resources |-> [k \in MCKeys |-> IF k = "net" THEN Net ELSE Data],
         selected |-> MCNames, allowUnsafe |-> FALSE]

Unsafe == [Pair EXCEPT !.allowUnsafe = TRUE]

\* Services that are not fit, or not there.
Services ==
  {[Pair EXCEPT !.services["db"].health = h] : h \in {"none", "disabled", "inert"}}
    \union {[d EXCEPT !.services["db"].pinned = {"restart"}] : d \in {Pair, Unsafe}}
    \union {[d EXCEPT !.services["db"].unsafe = {"bind"}] : d \in {Pair, Unsafe}}
    \union {[Pair EXCEPT !.selected = {s}] : s \in MCNames}
    \union {[Pair EXCEPT !.services = [s \in {"db"} |-> DB]]}

\* Names that are shared between projects.
Resources ==
  {[d EXCEPT !.resources[k].name = "other"] : d \in {Pair, Unsafe}, k \in MCKeys}
    \union {[d EXCEPT !.resources[k].external = TRUE, !.resources[k].name = "other"] :
            d \in {Pair, Unsafe}, k \in MCKeys}
    \union {[Pair EXCEPT !.resources[k].name = "generated"] : k \in MCKeys}
    \union {[Pair EXCEPT !.resources["data"].escapes = TRUE]}

\* A file of one service, for which two runs may fail at any point.
One == [Pair EXCEPT !.services = [s \in {"db"} |-> [DB EXCEPT !.build = TRUE]],
                    !.selected = {"db"}]

MCRuns == {"r1", "r2"}

\* Two runs of every file without a fault, and with every kind of fault two of
\* one service and one of two.
MCInstances ==
  {<<d, {}, MCRuns>> : d \in Services \union Resources}
    \union {<<One, {f}, MCRuns>> : f \in FaultKinds \ {"late"}}
    \union {<<One, {"signal", "late"}, MCRuns>>}
    \union {<<Pair, F, {"r1"}>> : F \in {{f} : f \in FaultKinds} \union {FaultKinds}}
=============================================================================
