--------------------------- MODULE MCAdoptProfile ---------------------------
(* Instances of AdoptProfile for TLC.                                        *)
EXTENDS AdoptProfile, TLC

CONSTANTS email, address, a, b

MCFields == {email, address}
MCValues == {a, b}
MCOtherTexts == {b}

(* Lists of different lengths, with another value in the same place.         *)
MCProfiles == {(email :> <<a, b>> @@ address :> <<b>>),
               (email :> <<b>> @@ address :> <<>>)}
=============================================================================
