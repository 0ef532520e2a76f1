---------------------------- MODULE PluginPromise ----------------------------
(***************************************************************************)
(* What protoc and the build rule count on from a code generator plugin    *)
(* (CodeGenerator::Generate): it makes up its mind from the file and the   *)
(* parameter alone, before it opens an output; it then opens each output   *)
(* it owes once, and it always answers.                                    *)
(***************************************************************************)
CONSTANT Answers  \* what may be answered: records of a verdict and the files that go with it

VARIABLES
  possible,  \* the answers that are left
  files,     \* the outputs opened
  answered   \* Generate has returned, or crashed

vars == <<possible, files, answered>>

PromiseInit == possible \subseteq Answers /\ files = {} /\ answered = FALSE

\* More of the parameter has been read: no answer becomes possible that was not.
Learn ==
  /\ ~answered /\ files = {}
  /\ possible' \subseteq possible
  /\ UNCHANGED <<files, answered>>

Refuse(answer) ==
  /\ ~answered /\ files = {}
  /\ answer \in possible /\ answer.verdict # "done"
  /\ possible' = {answer} /\ answered' = TRUE
  /\ UNCHANGED files

\* The last output completes the answer.
Open(answer, f) ==
  /\ ~answered
  /\ possible = {answer} /\ answer.verdict = "done" /\ f \in answer.files \ files
  /\ files' = files \cup {f} /\ answered' = (files' = answer.files)
  /\ UNCHANGED possible

PromiseNext ==
  \/ Learn
  \/ \E answer \in possible : Refuse(answer) \/ \E f \in answer.files : Open(answer, f)

PromiseSafe == PromiseInit /\ [][PromiseNext]_vars
Returns == <>answered
=============================================================================
