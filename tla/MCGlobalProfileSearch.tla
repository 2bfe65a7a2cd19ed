------------------------ MODULE MCGlobalProfileSearch ------------------------
(* Instances of GlobalProfileSearch for TLC.                                 *)
EXTENDS GlobalProfileSearch

Lineage(id, here, readable, object) ==
    [id |-> id, here |-> here, readable |-> readable, object |-> object]

Individual(id, lineages) ==
    [id |-> id, lineages |-> lineages, phones |-> <<>>, emails |-> <<>>,
     addresses |-> <<>>]

Points(dates) == [i \in DOMAIN dates |-> [date |-> dates[i]]]

(* Its latest contact points come neither first nor last.                    *)
Moved == [id |-> "g1",
          lineages |-> <<Lineage("x1", FALSE, FALSE, "Contact")>>,
          phones |-> <<[type |-> "mobile", date |-> 1], [type |-> "home", date |-> 2],
                       [type |-> "home", date |-> 4], [type |-> "mobile", date |-> 3]>>,
          emails |-> Points(<<1, 3, 2>>),
          addresses |-> Points(<<2, 3, 1>>)]

Readable == Individual("g2", <<Lineage("c1", TRUE, TRUE, "Contact"),
                               Lineage("x2", FALSE, FALSE, "Contact")>>)
Hidden == Individual("g3", <<Lineage("c3", TRUE, FALSE, "Lead")>>)
OfAccount == Individual("g4", <<Lineage("a1", TRUE, TRUE, "Account")>>)

MCSources ==
    {[individuals |-> <<>>, locals |-> <<>>],
     [individuals |-> <<>>, locals |-> <<"c1">>],
     [individuals |-> <<Readable, Hidden, Moved>>, locals |-> <<"c1", "c2">>],
     [individuals |-> <<OfAccount>>, locals |-> <<>>]}

MCUsers ==
    {[contact |-> TRUE, lead |-> TRUE, types |-> {"A", "B"}],
     [contact |-> TRUE, lead |-> FALSE, types |-> {"A"}],
     [contact |-> FALSE, lead |-> TRUE, types |-> {"A"}],
     [contact |-> FALSE, lead |-> FALSE, types |-> {"A"}]}

ASSUME MergedSources == \A source \in Sources : MergedOnce(source)
=============================================================================
