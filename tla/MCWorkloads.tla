---------------------------- MODULE MCWorkloads -----------------------------
(* Documents for Workloads: one that is accepted and what departs from it. *)
EXTENDS Workloads

MCNames == {"a", "A", "b", "api", "worker"}

\* sanitize lowers the case of a name.
MCDirectory == [n \in MCNames |-> IF n = "A" THEN "a" ELSE n]

StepTo(name, role, component) ==
  [name |-> name, target |-> <<role, component>>, timeout |-> 0,
   revision |-> "", defects |-> {}]

Untargeted(name) == [StepTo(name, "base", "api") EXCEPT !.target = NoTarget]

OfSteps(name, steps) ==
  [name |-> name, mutates |-> FALSE, repeat |-> 0, steps |-> steps]

Base == StepTo("a", "base", "api")
Candidate == StepTo("b", "candidate", "api")

Document ==
  [components |-> << [name |-> "api", port |-> 8080, readiness |-> "http",
                      timeout |-> 0, defects |-> {}],
                     [name |-> "worker", port |-> 0, readiness |-> "command",
                      timeout |-> 0, defects |-> {}] >>,
   services |-> << <<"none", "b">> >>,
   hooks |-> [h \in HookLists |->
     << [name |-> "a", runner |-> "worker", timeout |-> 0, defects |-> {},
         revision |-> IF h = "bootstrap" THEN "base" ELSE "candidate"] >>],
   lists |-> [l \in Lists |->
     CASE l = "baseline" -> << OfSteps("a", <<Base>>), OfSteps("b", <<Untargeted("a")>>) >>
       [] l = "base_to_candidate" -> << OfSteps("a", <<Base, Candidate>>) >>
       [] l = "candidate_to_base" ->
            << [OfSteps("b", <<Candidate, Base>>) EXCEPT !.repeat = 2] >>
       [] l = "candidate_traffic" ->
            << [OfSteps("a", <<Candidate>>) EXCEPT !.mutates = TRUE] >>
       [] OTHER -> <<>>],
   reuse |-> [g \in Groups |-> TRUE],
   defaults |-> [timeout |-> 60, revision |-> "candidate"],
   logLimit |-> 1048576, startup |-> 120, shutdown |-> 30, defects |-> {}]

List(list, scenarios) == [Document EXCEPT !.lists[list] = scenarios]

\* Each kind of fault by itself, and all together.
Single == {{f} : f \in FaultKinds} \union {FaultKinds}

\* A list with one scenario, and the document that has it in place of reuse.
Own(group, steps) ==
  [Document EXCEPT !.reuse[group] = FALSE, !.lists[group] = <<OfSteps("a", steps)>>]

\* Both sides of every bound of a repeat count and a timeout.
Counts ==
  {List("baseline", <<[OfSteps("a", <<Base>>) EXCEPT !.repeat = n]>>) :
     n \in {-1, 0, 1, 2, MaxRepeat, MaxRepeat + 1}}
    \union {List("baseline", <<OfSteps("a", <<[Base EXCEPT !.timeout = n]>>)>>) :
            n \in {-1, MaxSeconds, MaxSeconds + 1}}
    \union {[Document EXCEPT !.defaults.timeout = n] : n \in {0, MaxSeconds}}
    \union {[Document EXCEPT !.logLimit = n] : n \in {4095, 4096, 104857601}}

\* A scenario of a base and a candidate step in either order, of one of the
\* roles, and of a component that is headless, in every list.
Targets ==
  LET shapes == {<<Base>>, <<Candidate>>, <<Base, Candidate>>, <<Candidate, Base>>,
                 <<StepTo("a", "base", "worker")>>, <<Untargeted("a")>>, <<>>}
  IN  {List(l, <<[OfSteps("a", s) EXCEPT !.mutates = TRUE]>>) :
         l \in Lists \ Groups, s \in shapes}
        \union {Own(g, s) : g \in Groups, s \in shapes}

\* Lists that are empty, groups that select both or neither, traffic that
\* mutates nothing, and hooks and components that do not fit.
Shapes ==
  {List(l, <<>>) : l \in Lists}
    \union {[Document EXCEPT !.reuse[g] = FALSE] : g \in Groups}
    \union {[Own(g, <<Base>>) EXCEPT !.reuse[g] = TRUE] : g \in Groups}
    \union {List("candidate_traffic", <<OfSteps("a", <<Candidate>>)>>),
            [Document EXCEPT !.defects = {"undecodable"}],
            [Document EXCEPT !.components[2].defects = {"reserved"}],
            [Document EXCEPT !.components[1].port = 0],
            [Document EXCEPT !.components[2].name = "api"],
            [Document EXCEPT !.services = << <<"base", "api">> >>],
            [Document EXCEPT !.hooks["bootstrap"][1].revision = "candidate"],
            [Document EXCEPT !.hooks["rollback"][1].runner = "b"],
            [Document EXCEPT !.hooks["rollback"][1].timeout = -1]}

\* Names that are equal, that differ in case only, and that are shared by two
\* lists of the coexistence stage.
Repeated ==
  {List("baseline", <<OfSteps("a", <<Base>>), OfSteps(n, <<Base>>)>>) : n \in {"a", "A"}}
    \union {List("baseline", <<OfSteps("a", <<Base, [Base EXCEPT !.name = n]>>)>>) :
            n \in {"a", "A"}}
    \union {List("candidate_to_base", <<OfSteps("a", <<Candidate, Base>>)>>)}

MCDocuments == Counts \union Targets \union Shapes \union Repeated
=============================================================================
