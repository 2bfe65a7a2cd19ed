----------------------------- MODULE ContactSave -----------------------------
(***************************************************************************)
(* What a user of a contact form is promised: a save is validated first,   *)
(* then sent, once, or given back to the user; the answer of the server    *)
(* either ends the visit or gives the form back.  Only a duplicate warning *)
(* lets the form send the contact again without a validation; a save may   *)
(* leave it standing.  A form that was left can be opened again.           *)
(*                                                                         *)
(* A form may stay usable only while a contact is sent that the user kept  *)
(* although it is invalid.  A user who saves again before its answer has   *)
(* two saves at once, and of these nothing is promised.                    *)
(***************************************************************************)
VARIABLES phase, warned

vars == <<phase, warned>>

Init == phase = "editing" /\ warned = FALSE

Submit == phase = "editing" /\ phase' = "validating" /\ warned' \in {warned, FALSE}

Refuse == phase \in {"editing", "keeping"} /\ phase' = phase /\ warned' \in {warned, FALSE}

Ask == phase = "validating" /\ phase' = "asking" /\ UNCHANGED warned

Correct == phase = "asking" /\ phase' = "editing" /\ UNCHANGED warned

Send == phase \in {"validating", "asking"} /\ phase' = "saving" /\ UNCHANGED warned

Keep == phase = "asking" /\ phase' = "keeping" /\ UNCHANGED warned

SaveAgain == phase = "keeping" /\ phase' = "overlapping" /\ warned' \in {warned, FALSE}

Overlap ==
    phase = "overlapping" /\ phase' \in {"overlapping", "left"} /\ warned' \in BOOLEAN

SendDuplicate == phase = "editing" /\ warned /\ phase' = "saving" /\ UNCHANGED warned

GiveBack ==
    phase \in {"saving", "keeping"} /\ phase' = "editing" /\ warned' \in {warned, TRUE}

Finish == phase \in {"saving", "keeping"} /\ phase' = "left" /\ UNCHANGED warned

Reopen == phase = "left" /\ phase' = "editing" /\ UNCHANGED warned

Cancel == phase # "left" /\ phase' = "left" /\ UNCHANGED warned

Next == \/ Submit \/ Refuse \/ Ask \/ Correct \/ Send \/ SendDuplicate
        \/ Keep \/ SaveAgain \/ Overlap
        \/ GiveBack \/ Finish \/ Reopen \/ Cancel

Spec == Init /\ [][Next]_vars

=============================================================================
