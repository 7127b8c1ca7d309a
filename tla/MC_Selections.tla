----------------------------- MODULE MC_Selections -----------------------------
(* Two programs and another client, with one selection, or with two.          *)
EXTENDS X11Selection

ASSUME SelectionAssumption

\* The types of the variables; an owner of a selection holds the text that it
\* has set; and who reads gets the text of one that has owned it since.
SelectionsAreTrue == TypeOK /\ OwnerHasText /\ ReadsWhatWasCurrent
================================================================================
