-------------------------- MODULE GlobalProfileData --------------------------
(***************************************************************************)
(* What a search for global profiles answers,                              *)
(* force-app/main/default/classes/GlobalProfileData.cls: the individuals   *)
(* C360 knows, each with the records it was merged from, followed by the   *)
(* contacts and leads of this org that C360 does not know.                 *)
(*                                                                         *)
(* A source is what one search finds:                                      *)
(*   individuals  the results of the C360 API,                             *)
(*   locals       the contacts, then the leads, found in this org.         *)
(* An individual has lineages (where its data comes from) and dated        *)
(* contact points; a date is a natural number.                             *)
(***************************************************************************)
EXTENDS Naturals, SequencesExt

LaterPoint_ascending(p, q) == p.date < q.date
LaterPoint(p, q) == p.date > q.date

(* sortEmailAddresses, sortPhoneNumbers, sortAddresses: for each i, and each *)
(* j from i + 1, the later point is swapped to the front.                    *)
Compare(points, i, j) ==
    IF j > i /\ LaterPoint(points[j], points[i])
    THEN [points EXCEPT ![i] = points[j], ![j] = points[i]]
    ELSE points
SortPass(points, i) ==
    FoldLeftDomain(LAMBDA s, j : Compare(s, i, j), points, points)
sortPoints(points) == FoldLeftDomain(SortPass, points, points)

(* The access is read for the contacts and leads of this org only; of any    *)
(* other record of this org there is neither access nor id.                  *)
Unchecked(lineage) == lineage.here /\ lineage.object \notin {"Contact", "Lead"}

NoId == "null"

(* The source records of an individual; only a record of this org that the   *)
(* user can read is a link.                                                  *)
SourcePoint(lineage) ==
    [id |-> IF Unchecked(lineage) THEN NoId ELSE lineage.id,
     isSalesforceRecord |->
         lineage.here /\ lineage.readable /\ ~Unchecked(lineage)]

(* Create New is for individuals without a link.                             *)
canCreate(lineages) ==
    \A i \in DOMAIN lineages : ~SourcePoint(lineages[i]).isSalesforceRecord

parseIndividual(individual) ==
    [id |-> individual.id,
     points |-> [i \in DOMAIN individual.lineages |->
                    SourcePoint(individual.lineages[i])],
     canCreateContact |-> canCreate(individual.lineages),
     phoneNumbers |-> sortPoints(individual.phones),
     contactPointEmails |-> sortPoints(individual.emails),
     fullAddress |-> sortPoints(individual.addresses)]

(* A contact or lead of this org: its contact points are shown only, as no   *)
(* contact can be created from it (canCreateContact stays null).             *)
LocalProfile(id) ==
    [id |-> id, points |-> <<[id |-> id, isSalesforceRecord |-> TRUE]>>,
     canCreateContact |-> FALSE, phoneNumbers |-> <<>>,
     contactPointEmails |-> <<>>, fullAddress |-> <<>>]

Lists(profiles, id) ==
    \E i \in DOMAIN profiles :
        \E j \in DOMAIN profiles[i].points : profiles[i].points[j].id = id

appendLocal_always(profiles, id) == Append(profiles, LocalProfile(id))

(* appendLocalContactsToResponse, appendLocalLeadsToResponse.                *)
appendLocal(profiles, id) ==
    IF Lists(profiles, id) THEN profiles ELSE Append(profiles, LocalProfile(id))

(* buildFinalResponseList and appendLocalProfileDataInResponse.              *)
AllData(source) ==
    FoldLeft(appendLocal,
             [i \in DOMAIN source.individuals |->
                 parseIndividual(source.individuals[i])],
             source.locals)

(* A search finds lists: of individuals, each with lists of dated contact    *)
(* points, and of ids.                                                       *)
IsList(s) == s \in Seq(Range(s))
AreDated(points) ==
    IsList(points) /\ \A i \in DOMAIN points : points[i].date \in Nat
IsSource(source) ==
    /\ IsList(source.individuals) /\ IsList(source.locals)
    /\ \A i \in DOMAIN source.individuals :
          /\ AreDated(source.individuals[i].phones)
          /\ AreDated(source.individuals[i].emails)
          /\ AreDated(source.individuals[i].addresses)

TimedOut == [allData |-> <<>>, exceptionMessage |-> "Read timed out"]
Failed == [allData |-> <<>>, exceptionMessage |-> "other"]

(* getCustomer360Data: any exception becomes a message without data.  The    *)
(* condition on an access that was not read is false, or throws as its value *)
(* is null: which is up to the platform.                                     *)
Answers(source) ==
    {TimedOut, [allData |-> AllData(source), exceptionMessage |-> "none"]} \cup
    {Failed : i \in {i \in DOMAIN source.individuals :
                        \E j \in DOMAIN source.individuals[i].lineages :
                            Unchecked(source.individuals[i].lineages[j])}}
-----------------------------------------------------------------------------
(* C360 has merged a record into one individual, once.                       *)
MergedOnce(source) ==
    \A i, j \in DOMAIN source.individuals :
        \A k \in DOMAIN source.individuals[i].lineages,
           l \in DOMAIN source.individuals[j].lineages :
            SourcePoint(source.individuals[i].lineages[k]).id
                = SourcePoint(source.individuals[j].lineages[l]).id
                => \/ i = j /\ k = l
                   \/ SourcePoint(source.individuals[i].lineages[k]).id = NoId
=============================================================================
