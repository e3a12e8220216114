------------------------------- MODULE MCEnvelope -------------------------------
(* The crypto steps and their pages for TLC: how often the keys are generated. *)
EXTENDS StepPages

\* The AES key once more.
TwoSessionKeys == [rsa |-> 1, aes |-> 2]

\* Each key once.
FirstRun == [rsa |-> 1, aes |-> 1]
=============================================================================
