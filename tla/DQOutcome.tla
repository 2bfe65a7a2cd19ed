----------------------------- MODULE DQOutcome -----------------------------
(***************************************************************************)
(* What a contact form expects of the validation component: a round it     *)
(* starts either reports once, on its own, or asks the user once; after    *)
(* the question the component reports invalid data or nothing, and is      *)
(* taken off the page.                                                     *)
(***************************************************************************)
EXTENDS Sequences

VARIABLES phase, reports

Init == phase = "idle" /\ reports = <<>>

Start == phase = "idle" /\ phase' = "validating" /\ UNCHANGED reports

Report ==
    /\ phase = "validating"
    /\ phase' = "idle"
    /\ \E o \in {"DQ_CALLOUT", "APIException"} : reports' = Append(reports, o)

Ask == phase = "validating" /\ phase' = "asking" /\ UNCHANGED reports

Correct == phase = "asking" /\ phase' = "closed" /\ UNCHANGED reports

Keep ==
    /\ phase = "asking"
    /\ phase' = "closed"
    /\ reports' = Append(reports, "invalidData")

Next == Start \/ Report \/ Ask \/ Correct \/ Keep

Spec == Init /\ [][Next]_<<phase, reports>>

=============================================================================
