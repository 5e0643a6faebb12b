------------------------------ MODULE MCSignals ------------------------------
(* A portal page writes the base64 of an object that has a type, an older  *)
(* client plain text.                                                      *)
EXTENDS Signals

MCForms == {[base64 |-> TRUE, json |-> "typed"], [base64 |-> FALSE, json |-> "text"]}
=============================================================================
