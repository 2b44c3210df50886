---------------------------- MODULE CallAnswers -----------------------------
(***************************************************************************)
(* What Runner.Run answers of one external command, as runHooks, runStep   *)
(* and buildImages read it.                                                *)
(***************************************************************************)

\* How the result is read, and Result.Launched.
Answer == [reading : {"pass", "fail", "error", "canceled"}, launched : BOOLEAN]

\* What a caller has to be prepared for: a command that may exit nonzero or run
\* into its timeout, a runner that may fail, and a context that is canceled.
Expected(fails, faulty, canceled) ==
  {a \in Answer :
     /\ a.reading \in {"pass", "fail"} => a.launched
     /\ a.reading = "fail" => fails
     /\ a.reading = "error" => faulty
     /\ a.reading = "canceled" => canceled}
=============================================================================
