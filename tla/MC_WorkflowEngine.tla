--------------------------- MODULE MC_WorkflowEngine ---------------------------
(* Small workflows that between them take every transition of the engine.      *)
EXTENDS WorkflowEngine

MCStepIds == {"a", "b", "c", "gone"}

Plain ==
  [loaded |-> TRUE, parallelGroupId |-> NoGroup, maxRetries |-> 0,
   continueOnError |-> FALSE, conditional |-> FALSE,
   breakCondition |-> {}, compensationStepId |-> NoStep,
   onSuccessStepId |-> NoStep, onFailureStepId |-> NoStep,
   onSkippedStepId |-> NoStep]

Steps(a, b, c) ==
  [s \in MCStepIds |-> CASE s = "a" -> a [] s = "b" -> b [] s = "c" -> c
                         [] OTHER -> Plain]

Flow(entry, order, steps) ==
  [entryStepId |-> entry, order |-> order, step |-> steps]

ABC == <<"a", "b", "c">>

\* From a, with a retry, to b, and on to one of the three; what undoes a is c,
\* which b shares, or b, or missing, and c may not be loaded.
Chains ==
  {Flow(NoStep, ABC,
        Steps([Plain EXCEPT !.onSuccessStepId = "b", !.maxRetries = 1,
                            !.compensationStepId = undo],
              [Plain EXCEPT !.continueOnError = soft, !.breakCondition = mask,
                            !.conditional = soft, !.compensationStepId = "c",
                            !.onSuccessStepId = next,
                            !.onSkippedStepId = IF loaded THEN NoStep ELSE "gone"],
              [Plain EXCEPT !.loaded = loaded, !.onSuccessStepId = "a",
                            !.onFailureStepId = IF soft THEN "b" ELSE NoStep]))
   : undo \in {"c", "b", "gone"}, next \in {"a", "b", "c"},
     mask \in {{}, {"BreakOnFail"}, {"BreakOnError"}},
     soft \in BOOLEAN, loaded \in BOOLEAN}

\* A group of a and b, which c follows or handles, and may lead back to.
Groups ==
  {Flow("a", ABC,
        Steps([Plain EXCEPT !.parallelGroupId = "a", !.onSuccessStepId = next,
                            !.onFailureStepId = handler,
                            !.compensationStepId = "c"],
              [Plain EXCEPT !.parallelGroupId = "a", !.continueOnError = soft,
                            !.conditional = soft],
              [Plain EXCEPT !.onSuccessStepId = back]))
   : next \in {NoStep, "c", "gone"}, handler \in {NoStep, "c", "gone"},
     soft \in BOOLEAN, back \in {NoStep, "b"}}

Refused ==
  {Flow(NoStep, <<>>, Steps(Plain, Plain, Plain)),
   Flow(NoStep, <<"a", "a">>, Steps(Plain, Plain, Plain)),
   Flow(NoStep, <<"a", NoStep>>, Steps(Plain, Plain, Plain)),
   Flow("gone", ABC, Steps(Plain, Plain, Plain))}

MCWorkflows == Chains \cup Groups \cup Refused
===============================================================================
