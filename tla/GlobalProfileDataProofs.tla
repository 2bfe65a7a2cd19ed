----------------------- MODULE GlobalProfileDataProofs -----------------------
(***************************************************************************)
(* Proofs about GlobalProfileData: what its loops over lists compute, for  *)
(* lists of any length.                                                    *)
(*                                                                         *)
(* The loops are folds.  A fold is a function chosen to satisfy an         *)
(* equation over the subsets of the indices: FoldExists shows that there   *)
(* is such a function, and what it is on 1..k is the state of the loop     *)
(* after k rounds.  What holds after every round follows by SetInduction.  *)
(***************************************************************************)
EXTENDS GlobalProfileData, WellFoundedInduction, TLAPS

(* A set with 0 and the successors of its members has all natural numbers.   *)
LEMMA SetInduction ==
  ASSUME NEW S, 0 \in S, \A n \in Nat : n \in S => n + 1 \in S
  PROVE  Nat \subseteq S
<1> DEFINE T == Nat \ S
<1> SUFFICES ASSUME T # {} PROVE FALSE
  OBVIOUS
<1>1. PICK x \in T : \A y \in T : ~(<<y, x>> \in OpToRel(<, Nat))
  <2> HIDE DEF T
  <2>1. T \subseteq Nat
    BY DEF T
  <2> QED
    BY <2>1, NatLessThanWellFounded, WFMin
<1>2. \A y \in T : ~(y < x)
  BY <1>1 DEF OpToRel
<1>3. x \in Nat /\ x # 0
  OBVIOUS
<1>4. x - 1 \in Nat /\ x - 1 \notin T
  BY <1>2, <1>3
<1> QED
  BY <1>3, <1>4

(* The last and the first index of some indices.                             *)
LEMMA MaxOfIndices ==
  ASSUME NEW n \in Nat, NEW s \in SUBSET (1..n), s # {}
  PROVE  Max(s) \in s /\ \A y \in s : Max(s) >= y
<1> DEFINE Has == {m \in Nat : \A t \in SUBSET (1..m) : t # {} =>
                                   \E x \in t : \A y \in t : x >= y}
<1>1. 0 \in Has
  <2>1. 1..0 = {}
    OBVIOUS
  <2> QED
    BY <2>1
<1>2. ASSUME NEW m \in Nat, m \in Has PROVE m + 1 \in Has
  <2> SUFFICES ASSUME NEW t \in SUBSET (1..(m + 1)), t # {}
               PROVE  \E x \in t : \A y \in t : x >= y
    OBVIOUS
  <2>1. CASE m + 1 \in t
    BY <2>1
  <2>2. CASE m + 1 \notin t
    <3>1. t \in SUBSET (1..m)
      BY <2>2
    <3> QED
      BY <1>2, <3>1
  <2> QED
    BY <2>1, <2>2
<1>3. n \in Has
  <2>1. \A m \in Nat : m \in Has => m + 1 \in Has
    BY <1>2
  <2>2. Nat \subseteq Has
    <3> HIDE DEF Has
    <3> QED
      BY <1>1, <2>1, SetInduction
  <2> QED
    BY <2>2
<1>4. \E x \in s : \A y \in s : x >= y
  BY <1>3
<1> QED
  BY <1>4 DEF Max

LEMMA MaxIs ==
  ASSUME NEW s \in SUBSET Int, NEW k \in s, \A y \in s : k >= y
  PROVE  Max(s) = k
<1>1. \E x \in s : \A y \in s : x >= y
  OBVIOUS
<1>2. Max(s) \in s /\ \A y \in s : Max(s) >= y
  BY <1>1 DEF Max
<1>3. Max(s) \in Int /\ k \in Int /\ Max(s) >= k /\ k >= Max(s)
  BY <1>2
<1> QED
  BY <1>3

LEMMA MinOfIndices ==
  ASSUME NEW s \in SUBSET Nat, s # {}
  PROVE  Min(s) \in s /\ \A y \in s : Min(s) <= y
<1>1. PICK x \in s : \A y \in s : ~(<<y, x>> \in OpToRel(<, Nat))
  BY NatLessThanWellFounded, WFMin
<1>2. \A y \in s : ~(y < x)
  BY <1>1 DEF OpToRel
<1>3. \A y \in s : x <= y
  BY <1>2
<1> QED
  BY <1>3 DEF Min

-----------------------------------------------------------------------------
(* Folds.                                                                    *)

(* The equation of a fold over the sets of the indices 1..n, where a round   *)
(* is a function of the state and the index.                                 *)
Solves(it, base, round, n) ==
    \A s \in SUBSET (1..n) :
        it[s] = IF s = {} THEN base ELSE round[<<it[s \ {Max(s)}], Max(s)>>]

LEMMA FoldExists ==
  ASSUME NEW X, NEW base \in X, NEW n \in Nat, NEW round \in [X \X (1..n) -> X]
  PROVE  \E it \in [SUBSET (1..n) -> X] : Solves(it, base, round, n)
<1> DEFINE Found(m) == \E it \in [SUBSET (1..m) -> X] : Solves(it, base, round, m)
<1>1. Found(0)
  <2>1. SUBSET (1..0) = {{}}
    OBVIOUS
  <2>2. [s \in SUBSET (1..0) |-> base] \in [SUBSET (1..0) -> X]
    OBVIOUS
  <2>3. Solves([s \in SUBSET (1..0) |-> base], base, round, 0)
    BY <2>1 DEF Solves
  <2> QED
    BY <2>2, <2>3
<1>2. ASSUME NEW m \in Nat, m + 1 <= n, Found(m) PROVE Found(m + 1)
  <2>1. PICK it \in [SUBSET (1..m) -> X] : Solves(it, base, round, m)
    BY <1>2
  <2> DEFINE new == [s \in SUBSET (1..(m + 1)) |->
                        IF m + 1 \in s THEN round[<<it[s \ {m + 1}], m + 1>>] ELSE it[s]]
  <2>2. ASSUME NEW s \in SUBSET (1..(m + 1)), m + 1 \in s
        PROVE  /\ s \ {m + 1} \in SUBSET (1..m) /\ Max(s) = m + 1
               /\ it[s \ {m + 1}] = new[s \ {m + 1}]
               /\ new[s] \in X /\ new[s] = round[<<it[s \ {m + 1}], m + 1>>]
    <3>1. s \ {m + 1} \in SUBSET (1..m) /\ s \ {m + 1} \in SUBSET (1..(m + 1))
      OBVIOUS
    <3>2. s \in SUBSET Int /\ \A y \in s : m + 1 >= y
      OBVIOUS
    <3>3. Max(s) = m + 1
      BY <2>2, <3>2, MaxIs
    <3>4. it[s \ {m + 1}] \in X /\ m + 1 \in 1..n
      BY <1>2, <3>1
    <3>5. new[s] = round[<<it[s \ {m + 1}], m + 1>>] /\ new[s] \in X
      BY <2>2, <3>4
    <3> QED
      BY <3>1, <3>3, <3>5
  <2>3. ASSUME NEW s \in SUBSET (1..(m + 1)), m + 1 \notin s
        PROVE  s \in SUBSET (1..m) /\ new[s] = it[s]
    BY <2>3
  <2>4. new \in [SUBSET (1..(m + 1)) -> X]
    <3>1. \A s \in SUBSET (1..(m + 1)) : new[s] \in X
      BY <2>2, <2>3
    <3> QED
      BY <3>1
  <2>5. ASSUME NEW s \in SUBSET (1..(m + 1))
        PROVE  new[s] = IF s = {} THEN base ELSE round[<<new[s \ {Max(s)}], Max(s)>>]
    <3> HIDE DEF new
    <3>1. CASE m + 1 \in s
      BY <2>2, <3>1
    <3>2. CASE m + 1 \notin s
      <4>1. s \in SUBSET (1..m) /\ new[s] = it[s]
        BY <2>3, <3>2
      <4>2. it[s] = IF s = {} THEN base ELSE round[<<it[s \ {Max(s)}], Max(s)>>]
        BY <2>1, <4>1 DEF Solves
      <4>3. s \ {Max(s)} \in SUBSET (1..(m + 1)) /\ m + 1 \notin s \ {Max(s)}
        BY <3>2
      <4>4. new[s \ {Max(s)}] = it[s \ {Max(s)}]
        BY <2>3, <4>3
      <4> QED
        BY <4>1, <4>2, <4>4
    <3> QED
      BY <3>1, <3>2
  <2>6. Solves(new, base, round, m + 1)
    <3> HIDE DEF new
    <3> QED
      BY <2>5 DEF Solves
  <2> QED
    BY <2>4, <2>6
<1>3. Found(n)
  <2> DEFINE Has == {m \in Nat : m <= n => Found(m)}
  <2> HIDE DEF Found
  <2>1. 0 \in Has
    BY <1>1
  <2>2. \A m \in Nat : m \in Has => m + 1 \in Has
    BY <1>2
  <2>3. Nat \subseteq Has
    <3> HIDE DEF Has
    <3> QED
      BY <2>1, <2>2, SetInduction
  <2> QED
    BY <2>3
<1> QED
  BY <1>3

(* The indices up to k.                                                      *)
LEMMA FirstIndices ==
  ASSUME NEW n \in Nat, NEW k \in 1..n
  PROVE  /\ 1..k \in SUBSET (1..n) /\ 1..k # {}
         /\ Max(1..k) = k
         /\ (1..k) \ {k} = 1..(k - 1)
<1>1. 1..k \in SUBSET Int /\ k \in 1..k /\ \A y \in 1..k : k >= y
  OBVIOUS
<1>2. Max(1..k) = k
  BY <1>1, MaxIs
<1>3. 1..k \in SUBSET (1..n) /\ 1..k # {}
  OBVIOUS
<1>4. (1..k) \ {k} = 1..(k - 1)
  OBVIOUS
<1> QED
  BY <1>2, <1>3, <1>4

-----------------------------------------------------------------------------
(* appendLocalProfileDataInResponse.                                         *)

ParsedIndividuals(source) ==
    [i \in DOMAIN source.individuals |-> parseIndividual(source.individuals[i])]

(* What a search can answer with.                                            *)
Profiles(source) ==
    {parseIndividual(source.individuals[i]) : i \in DOMAIN source.individuals}
        \cup {LocalProfile(source.locals[k]) : k \in DOMAIN source.locals}

LEMMA ParsedIsList ==
  ASSUME NEW source, IsList(source.individuals)
  PROVE  /\ ParsedIndividuals(source) \in Seq(Profiles(source))
         /\ DOMAIN ParsedIndividuals(source) = DOMAIN source.individuals
<1>1. DOMAIN source.individuals = 1..Len(source.individuals) /\ Len(source.individuals) \in Nat
  BY DEF IsList
<1>2. \A i \in 1..Len(source.individuals) :
          parseIndividual(source.individuals[i]) \in Profiles(source)
  BY <1>1 DEF Profiles
<1>3. ParsedIndividuals(source) =
          [i \in 1..Len(source.individuals) |-> parseIndividual(source.individuals[i])]
  BY <1>1 DEF ParsedIndividuals
<1> QED
  BY <1>1, <1>2, <1>3

LEMMA AppendKeepsList ==
  ASSUME NEW Q, NEW profiles \in Seq(Q), NEW id, LocalProfile(id) \in Q
  PROVE  appendLocal(profiles, id) \in Seq(Q)
BY DEF appendLocal

(* The loop over the locals: run[k] is the list after k of them.             *)
AppendsLocals(run, source) ==
    /\ run[0] = ParsedIndividuals(source)
    /\ \A k \in 1..Len(source.locals) :
           run[k] = appendLocal(run[k - 1], source.locals[k])
    /\ AllData(source) = run[Len(source.locals)]

LEMMA AllDataRuns ==
  ASSUME NEW source, IsList(source.individuals), IsList(source.locals)
  PROVE  \E run : AppendsLocals(run, source)
<1> DEFINE locals == source.locals
           n == Len(locals)
           X == Seq(Profiles(source))
           base == ParsedIndividuals(source)
           round == [z \in X \X (1..n) |-> appendLocal(z[1], locals[z[2]])]
           Fold(it) == it = [s \in SUBSET DOMAIN locals |->
                                IF s = {} THEN base
                                ELSE appendLocal(it[s \ {Max(s)}], locals[Max(s)])]
           fold == CHOOSE it : Fold(it)
<1>1. n \in Nat /\ DOMAIN locals = 1..n
  BY DEF IsList
<1>2. base \in X
  BY ParsedIsList
<1>3. ASSUME NEW p \in X, NEW k \in 1..n PROVE appendLocal(p, locals[k]) \in X
  <2>1. LocalProfile(locals[k]) \in Profiles(source)
    BY <1>1 DEF Profiles
  <2> QED
    BY <2>1, AppendKeepsList
<1>4. round \in [X \X (1..n) -> X]
  BY <1>3
<1>5. ASSUME NEW p \in X, NEW k \in 1..n PROVE round[<<p, k>>] = appendLocal(p, locals[k])
  OBVIOUS
<1> HIDE DEF X, base, round
<1>6. PICK it \in [SUBSET (1..n) -> X] : Solves(it, base, round, n)
  BY <1>1, <1>2, <1>4, FoldExists
<1>7. ASSUME NEW s \in SUBSET (1..n), s # {}
      PROVE  it[s] = appendLocal(it[s \ {Max(s)}], locals[Max(s)])
  <2>1. Max(s) \in 1..n /\ s \ {Max(s)} \in SUBSET (1..n)
    BY <1>1, <1>7, MaxOfIndices
  <2>2. it[s] = round[<<it[s \ {Max(s)}], Max(s)>>]
    BY <1>6, <1>7 DEF Solves
  <2>3. it[s \ {Max(s)}] \in X
    BY <2>1
  <2> QED
    BY <1>5, <2>1, <2>2, <2>3
<1>8. it[{}] = base
  BY <1>6 DEF Solves
<1>9. Fold(it)
  BY <1>1, <1>7, <1>8
<1>10. Fold(fold)
  <2> HIDE DEF Fold
  <2> QED
    BY <1>9
<1>11. AllData(source) = fold[DOMAIN locals]
  BY Zenon DEF AllData, FoldLeft, MapThenFoldSet, base, ParsedIndividuals
<1> HIDE DEF fold, n
<1> DEFINE run == [k \in 0..n |-> fold[1..k]]
<1>12. run[0] = base
  <2>1. 1..0 = {} /\ {} \in SUBSET DOMAIN locals /\ 0 \in 0..n
    BY <1>1
  <2> QED
    BY <1>10, <2>1
<1>13. ASSUME NEW k \in 1..n PROVE run[k] = appendLocal(run[k - 1], locals[k])
  <2>1. /\ 1..k \in SUBSET DOMAIN locals /\ 1..k # {} /\ Max(1..k) = k
        /\ (1..k) \ {k} = 1..(k - 1)
    BY <1>1, FirstIndices
  <2>2. fold[1..k] = appendLocal(fold[1..(k - 1)], locals[k])
    BY <1>10, <2>1
  <2>3. k \in 0..n /\ k - 1 \in 0..n
    BY <1>1
  <2> QED
    BY <2>2, <2>3
<1>14. AllData(source) = run[n]
  BY <1>1, <1>11
<1> QED
  <2> HIDE DEF run
  <2>1. AppendsLocals(run, source)
    BY <1>12, <1>13, <1>14 DEF AppendsLocals, base, n
  <2> QED
    BY <2>1

(* What every round keeps holds of the answer.                               *)
LEMMA AllDataKeeps ==
  ASSUME NEW source, IsList(source.individuals), IsList(source.locals),
         NEW Good, ParsedIndividuals(source) \in Good,
         \A profiles \in Good : \A k \in DOMAIN source.locals :
             appendLocal(profiles, source.locals[k]) \in Good
  PROVE  AllData(source) \in Good
<1> DEFINE n == Len(source.locals)
<1>1. n \in Nat /\ DOMAIN source.locals = 1..n
  BY DEF IsList
<1>2. PICK run : AppendsLocals(run, source)
  BY AllDataRuns
<1> DEFINE Kept == {k \in Nat : k <= n => run[k] \in Good}
<1>3. 0 \in Kept
  BY <1>2 DEF AppendsLocals
<1>4. ASSUME NEW k \in Nat, k \in Kept, k + 1 <= n PROVE run[k + 1] \in Good
  <2>1. k + 1 \in 1..n /\ (k + 1) - 1 = k
    BY <1>1, <1>4
  <2>2. run[k + 1] = appendLocal(run[k], source.locals[k + 1])
    BY <1>2, <2>1 DEF AppendsLocals
  <2>3. run[k] \in Good
    BY <1>1, <1>4
  <2> QED
    BY <1>1, <2>1, <2>2, <2>3
<1>5. \A k \in Nat : k \in Kept => k + 1 \in Kept
  BY <1>4
<1>6. Nat \subseteq Kept
  <2> HIDE DEF Kept
  <2> QED
    BY <1>3, <1>5, SetInduction
<1>7. run[n] \in Good
  BY <1>1, <1>6
<1> QED
  BY <1>2, <1>7 DEF AppendsLocals

(* The answer is a list of parsed individuals and records of the org.        *)
LEMMA AllDataIsList ==
  ASSUME NEW source, IsList(source.individuals), IsList(source.locals)
  PROVE  AllData(source) \in Seq(Profiles(source))
<1>1. ParsedIndividuals(source) \in Seq(Profiles(source))
  BY ParsedIsList
<1>2. \A k \in DOMAIN source.locals : LocalProfile(source.locals[k]) \in Profiles(source)
  BY DEF Profiles
<1>3. \A profiles \in Seq(Profiles(source)) : \A k \in DOMAIN source.locals :
          appendLocal(profiles, source.locals[k]) \in Seq(Profiles(source))
  BY <1>2, AppendKeepsList
<1> QED
  BY <1>1, <1>3, AllDataKeeps

OnceIn(profiles) ==
    \A i, j \in DOMAIN profiles :
        \A k \in DOMAIN profiles[i].points, l \in DOMAIN profiles[j].points :
            profiles[i].points[k].id = profiles[j].points[l].id
                => (i = j /\ k = l) \/ profiles[i].points[k].id = NoId

LEMMA AppendKeepsOnce ==
  ASSUME NEW Q, NEW profiles \in Seq(Q), OnceIn(profiles), NEW id
  PROVE  OnceIn(appendLocal(profiles, id))
<1>1. CASE Lists(profiles, id)
  BY <1>1 DEF appendLocal
<1>2. CASE ~Lists(profiles, id)
  <2> DEFINE longer == Append(profiles, LocalProfile(id))
             n == Len(profiles)
  <2>1. /\ appendLocal(profiles, id) = longer
        /\ n \in Nat /\ DOMAIN profiles = 1..n /\ DOMAIN longer = 1..(n + 1)
        /\ \A i \in 1..n : longer[i] = profiles[i]
        /\ longer[n + 1] = LocalProfile(id)
    BY <1>2 DEF appendLocal
  <2>2. /\ DOMAIN longer[n + 1].points = {1}
        /\ longer[n + 1].points[1].id = id
    BY <2>1 DEF LocalProfile
  <2>3. \A i \in 1..n : \A k \in DOMAIN longer[i].points : longer[i].points[k].id # id
    BY <1>2, <2>1 DEF Lists
  <2>4. ASSUME NEW i \in 1..n, NEW j \in 1..n,
               NEW k \in DOMAIN longer[i].points, NEW l \in DOMAIN longer[j].points,
               longer[i].points[k].id = longer[j].points[l].id
        PROVE  (i = j /\ k = l) \/ longer[i].points[k].id = NoId
    BY <2>1, <2>4 DEF OnceIn
  <2> HIDE DEF longer, n
  <2>5. ASSUME NEW i \in 1..(n + 1), NEW j \in 1..(n + 1),
               NEW k \in DOMAIN longer[i].points, NEW l \in DOMAIN longer[j].points,
               longer[i].points[k].id = longer[j].points[l].id
        PROVE  (i = j /\ k = l) \/ longer[i].points[k].id = NoId
    <3>1. CASE i = n + 1 /\ j = n + 1
      BY <2>2, <3>1
    <3>2. CASE i = n + 1 /\ j \in 1..n
      BY <2>2, <2>3, <2>5, <3>2
    <3>3. CASE i \in 1..n /\ j = n + 1
      BY <2>2, <2>3, <2>5, <3>3
    <3>4. CASE i \in 1..n /\ j \in 1..n
      BY <2>4, <2>5, <3>4
    <3> QED
      BY <2>1, <3>1, <3>2, <3>3, <3>4
  <2>6. OnceIn(longer)
    BY <2>1, <2>5 DEF OnceIn
  <2> QED
    BY <2>1, <2>6
<1> QED
  BY <1>1, <1>2

(* Then no record is listed twice.                                           *)
LEMMA AllDataOnce ==
  ASSUME NEW source, IsList(source.individuals), IsList(source.locals),
         MergedOnce(source)
  PROVE  OnceIn(AllData(source))
<1> DEFINE Good == {profiles \in Seq(Profiles(source)) : OnceIn(profiles)}
<1>1. \A i \in DOMAIN source.individuals :
          ParsedIndividuals(source)[i].points =
              [k \in DOMAIN source.individuals[i].lineages |->
                  SourcePoint(source.individuals[i].lineages[k])]
  BY DEF ParsedIndividuals, parseIndividual
<1>2. OnceIn(ParsedIndividuals(source))
  <2> DEFINE parsed == ParsedIndividuals(source)
             Lineages(i) == source.individuals[i].lineages
  <2>1. DOMAIN parsed = DOMAIN source.individuals
    BY ParsedIsList
  <2>2. ASSUME NEW i \in DOMAIN source.individuals
        PROVE  /\ DOMAIN parsed[i].points = DOMAIN Lineages(i)
               /\ \A k \in DOMAIN Lineages(i) :
                     parsed[i].points[k].id = SourcePoint(Lineages(i)[k]).id
    BY <1>1
  <2> HIDE DEF parsed
  <2>3. OnceIn(parsed)
    BY <2>1, <2>2 DEF OnceIn, MergedOnce
  <2> QED
    BY <2>3 DEF parsed
<1>3. ParsedIndividuals(source) \in Good
  BY <1>2, ParsedIsList
<1>4. ASSUME NEW profiles \in Good, NEW k \in DOMAIN source.locals
      PROVE  appendLocal(profiles, source.locals[k]) \in Good
  <2>1. LocalProfile(source.locals[k]) \in Profiles(source)
    BY DEF Profiles
  <2>2. appendLocal(profiles, source.locals[k]) \in Seq(Profiles(source))
    BY <2>1, AppendKeepsList
  <2> QED
    BY <2>2, AppendKeepsOnce
<1>5. AllData(source) \in Good
  <2> HIDE DEF Good
  <2> QED
    BY <1>3, <1>4, AllDataKeeps
<1> QED
  BY <1>5

-----------------------------------------------------------------------------
(* The sorts.                                                                *)

LEMMA CompareKeepsPoints ==
  ASSUME NEW P, NEW n \in Nat, NEW s \in [1..n -> P], NEW i \in 1..n, NEW j \in 1..n
  PROVE  Compare(s, i, j) \in [1..n -> P]
BY DEF Compare

(* The inner loop: run[j] are the points after j comparisons with the front. *)
Compares(run, s, i, n) ==
    /\ run[0] = s
    /\ \A j \in 1..n : run[j] = Compare(run[j - 1], i, j)
    /\ SortPass(s, i) = run[n]

LEMMA SortPassRuns ==
  ASSUME NEW P, NEW n \in Nat, NEW s \in [1..n -> P], NEW i \in 1..n
  PROVE  \E run : Compares(run, s, i, n)
<1> DEFINE X == [1..n -> P]
           round == [z \in X \X (1..n) |-> Compare(z[1], i, z[2])]
           index == [j \in DOMAIN s |-> j]
           Fold(it) == it = [t \in SUBSET DOMAIN index |->
                                IF t = {} THEN s
                                ELSE Compare(it[t \ {Max(t)}], i, index[Max(t)])]
           fold == CHOOSE it : Fold(it)
<1>1. DOMAIN index = 1..n /\ \A j \in 1..n : index[j] = j
  OBVIOUS
<1>2. ASSUME NEW t \in X, NEW j \in 1..n PROVE Compare(t, i, j) \in X
  BY CompareKeepsPoints
<1>3. round \in [X \X (1..n) -> X]
  BY <1>2
<1>4. ASSUME NEW t \in X, NEW j \in 1..n PROVE round[<<t, j>>] = Compare(t, i, j)
  OBVIOUS
<1>5. s \in X
  OBVIOUS
<1>6. SortPass(s, i) = fold[DOMAIN index]
  BY Zenon DEF SortPass, FoldLeftDomain, FoldLeft, MapThenFoldSet
<1> HIDE DEF X, round, index
<1>7. PICK it \in [SUBSET (1..n) -> X] : Solves(it, s, round, n)
  BY <1>3, <1>5, FoldExists
<1>8. ASSUME NEW t \in SUBSET (1..n), t # {}
      PROVE  it[t] = Compare(it[t \ {Max(t)}], i, index[Max(t)])
  <2>1. Max(t) \in 1..n /\ t \ {Max(t)} \in SUBSET (1..n)
    BY <1>8, MaxOfIndices
  <2>2. it[t] = round[<<it[t \ {Max(t)}], Max(t)>>]
    BY <1>7, <1>8 DEF Solves
  <2>3. it[t \ {Max(t)}] \in X /\ index[Max(t)] = Max(t)
    BY <1>1, <2>1
  <2> QED
    BY <1>4, <2>1, <2>2, <2>3
<1>9. it[{}] = s
  BY <1>7 DEF Solves
<1>10. Fold(it)
  BY <1>1, <1>8, <1>9
<1>11. Fold(fold)
  <2> HIDE DEF Fold
  <2> QED
    BY <1>10
<1> HIDE DEF fold
<1> DEFINE run == [j \in 0..n |-> fold[1..j]]
<1>12. run[0] = s
  <2>1. 1..0 = {} /\ {} \in SUBSET DOMAIN index /\ 0 \in 0..n
    OBVIOUS
  <2> QED
    BY <1>11, <2>1
<1>13. ASSUME NEW j \in 1..n PROVE run[j] = Compare(run[j - 1], i, j)
  <2>1. /\ 1..j \in SUBSET DOMAIN index /\ 1..j # {} /\ Max(1..j) = j
        /\ (1..j) \ {j} = 1..(j - 1)
    BY <1>1, FirstIndices
  <2>2. fold[1..j] = Compare(fold[1..(j - 1)], i, index[j])
    BY <1>11, <2>1
  <2>3. j \in 0..n /\ j - 1 \in 0..n /\ index[j] = j
    BY <1>1
  <2> QED
    BY <2>2, <2>3
<1>14. SortPass(s, i) = run[n]
  BY <1>1, <1>6
<1> QED
  <2> HIDE DEF run
  <2>1. Compares(run, s, i, n)
    BY <1>12, <1>13, <1>14 DEF Compares
  <2> QED
    BY <2>1

(* After j comparisons the front is the latest of those up to j, and only    *)
(* points from the front on have moved.                                      *)
FrontLatest(t, s, i, j, P, n) ==
    /\ t \in [1..n -> P]
    /\ \A k \in 1..n : k < i => t[k] = s[k]
    /\ \A k \in i..n : \E m \in i..n : t[k] = s[m]
    /\ \A l \in 1..n : i < l /\ l <= j => t[i].date >= t[l].date

LEMMA CompareKeepsFront ==
  ASSUME NEW P, \A p \in P : p.date \in Nat,
         NEW n \in Nat, NEW s \in [1..n -> P], NEW i \in 1..n,
         NEW j \in Nat, j + 1 <= n, NEW t, FrontLatest(t, s, i, j, P, n)
  PROVE  FrontLatest(Compare(t, i, j + 1), s, i, j + 1, P, n)
<1> DEFINE new == Compare(t, i, j + 1)
<1>1. t \in [1..n -> P] /\ j + 1 \in 1..n
  BY DEF FrontLatest
<1>2. new \in [1..n -> P]
  BY <1>1, CompareKeepsPoints
<1>3. CASE j + 1 > i /\ LaterPoint(t[j + 1], t[i])
  <2>1. /\ new[i] = t[j + 1] /\ new[j + 1] = t[i]
        /\ \A k \in 1..n : k # i /\ k # j + 1 => new[k] = t[k]
        /\ t[j + 1].date > t[i].date
    BY <1>1, <1>3 DEF Compare, LaterPoint
  <2>2. t[j + 1].date \in Nat /\ t[i].date \in Nat
    BY <1>1
  <2> HIDE DEF new
  <2>3. \A k \in 1..n : k < i => new[k] = s[k]
    <3>1. \A k \in 1..n : k < i => t[k] = s[k]
      BY DEF FrontLatest
    <3>2. \A k \in 1..n : k < i => k # i /\ k # j + 1
      BY <1>3
    <3> QED
      BY <2>1, <3>1, <3>2
  <2>4. \A k \in i..n : \E m \in i..n : new[k] = s[m]
    <3>1. \A k \in i..n : \E o \in i..n : new[k] = t[o]
      <4> TAKE k \in i..n
      <4>1. i \in i..n /\ j + 1 \in i..n
        BY <1>1, <1>3
      <4>2. CASE k = i
        BY <2>1, <4>1, <4>2
      <4>3. CASE k = j + 1
        BY <2>1, <4>1, <4>3
      <4>4. CASE k # i /\ k # j + 1
        <5>1. k \in 1..n
          OBVIOUS
        <5> QED
          BY <2>1, <4>4, <5>1
      <4> QED
        BY <4>2, <4>3, <4>4
    <3>2. \A o \in i..n : \E m \in i..n : t[o] = s[m]
      BY DEF FrontLatest
    <3>3. ASSUME NEW k \in i..n PROVE \E m \in i..n : new[k] = s[m]
      <4>1. PICK o \in i..n : new[k] = t[o]
        BY <3>1
      <4>2. PICK m \in i..n : t[o] = s[m]
        BY <3>2
      <4>3. new[k] = s[m]
        BY <4>1, <4>2
      <4> QED
        BY <4>3
    <3> QED
      BY <3>3
  <2>5. ASSUME NEW l \in 1..n, i < l, l <= j + 1 PROVE new[i].date >= new[l].date
    <3>1. CASE l = j + 1
      BY <2>1, <2>2, <3>1
    <3>2. CASE l # j + 1
      <4>1. t[i].date >= t[l].date /\ t[l].date \in Nat
        BY <1>1, <2>5, <3>2 DEF FrontLatest
      <4>2. new[l] = t[l]
        BY <2>1, <2>5, <3>2
      <4> QED
        BY <2>1, <2>2, <4>1, <4>2
    <3> QED
      BY <3>1, <3>2
  <2> QED
    BY <1>2, <2>3, <2>4, <2>5 DEF FrontLatest, new
<1>4. CASE ~(j + 1 > i /\ LaterPoint(t[j + 1], t[i]))
  <2>1. new = t
    BY <1>4 DEF Compare
  <2>2. ASSUME NEW l \in 1..n, i < l, l <= j + 1 PROVE t[i].date >= t[l].date
    <3>1. t[l].date \in Nat /\ t[i].date \in Nat
      BY <1>1
    <3>2. CASE l = j + 1
      <4>1. ~LaterPoint(t[l], t[i])
        BY <1>4, <2>2, <3>2
      <4> QED
        BY <3>1, <4>1 DEF LaterPoint
    <3>3. CASE l # j + 1
      BY <2>2, <3>3 DEF FrontLatest
    <3> QED
      BY <3>2, <3>3
  <2>3. FrontLatest(t, s, i, j + 1, P, n)
    BY <2>2 DEF FrontLatest
  <2> QED
    BY <2>1, <2>3
<1> QED
  BY <1>3, <1>4

(* A pass brings the latest of the points from the front on to the front.    *)
LEMMA SortPassBringsLatest ==
  ASSUME NEW P, \A p \in P : p.date \in Nat,
         NEW n \in Nat, NEW s \in [1..n -> P], NEW i \in 1..n
  PROVE  FrontLatest(SortPass(s, i), s, i, n, P, n)
<1>1. PICK run : Compares(run, s, i, n)
  BY SortPassRuns
<1> DEFINE Kept == {j \in Nat : j <= n => FrontLatest(run[j], s, i, j, P, n)}
<1>2. 0 \in Kept
  <2>1. FrontLatest(s, s, i, 0, P, n)
    BY DEF FrontLatest
  <2> QED
    BY <1>1, <2>1 DEF Compares
<1>3. ASSUME NEW j \in Nat, j \in Kept, j + 1 <= n
      PROVE  FrontLatest(run[j + 1], s, i, j + 1, P, n)
  <2>1. FrontLatest(run[j], s, i, j, P, n)
    BY <1>3
  <2>2. j + 1 \in 1..n /\ (j + 1) - 1 = j
    BY <1>3
  <2>3. run[j + 1] = Compare(run[j], i, j + 1)
    BY <1>1, <2>2 DEF Compares
  <2> QED
    BY <1>3, <2>1, <2>3, CompareKeepsFront
<1>4. \A j \in Nat : j \in Kept => j + 1 \in Kept
  BY <1>3
<1>5. Nat \subseteq Kept
  <2> HIDE DEF Kept
  <2> QED
    BY <1>2, <1>4, SetInduction
<1>6. FrontLatest(run[n], s, i, n, P, n)
  BY <1>5
<1> QED
  BY <1>1, <1>6 DEF Compares

(* The outer loop: run[i] are the points after i passes.                     *)
Sorts(run, points, n) ==
    /\ run[0] = points
    /\ \A i \in 1..n : run[i] = SortPass(run[i - 1], i)
    /\ sortPoints(points) = run[n]

LEMMA SortRuns ==
  ASSUME NEW P, \A p \in P : p.date \in Nat,
         NEW n \in Nat, NEW points \in [1..n -> P]
  PROVE  \E run : Sorts(run, points, n)
<1> DEFINE X == [1..n -> P]
           round == [z \in X \X (1..n) |-> SortPass(z[1], z[2])]
           index == [i \in DOMAIN points |-> i]
           Fold(it) == it = [t \in SUBSET DOMAIN index |->
                                IF t = {} THEN points
                                ELSE SortPass(it[t \ {Max(t)}], index[Max(t)])]
           fold == CHOOSE it : Fold(it)
<1>1. DOMAIN index = 1..n /\ \A i \in 1..n : index[i] = i
  OBVIOUS
<1>2. ASSUME NEW s \in X, NEW i \in 1..n PROVE SortPass(s, i) \in X
  BY SortPassBringsLatest DEF FrontLatest
<1>3. round \in [X \X (1..n) -> X]
  BY <1>2
<1>4. ASSUME NEW s \in X, NEW i \in 1..n PROVE round[<<s, i>>] = SortPass(s, i)
  OBVIOUS
<1>5. points \in X
  OBVIOUS
<1>6. sortPoints(points) = fold[DOMAIN index]
  BY Zenon DEF sortPoints, FoldLeftDomain, FoldLeft, MapThenFoldSet
<1> HIDE DEF X, round, index
<1>7. PICK it \in [SUBSET (1..n) -> X] : Solves(it, points, round, n)
  BY <1>3, <1>5, FoldExists
<1>8. ASSUME NEW t \in SUBSET (1..n), t # {}
      PROVE  it[t] = SortPass(it[t \ {Max(t)}], index[Max(t)])
  <2>1. Max(t) \in 1..n /\ t \ {Max(t)} \in SUBSET (1..n)
    BY <1>8, MaxOfIndices
  <2>2. it[t] = round[<<it[t \ {Max(t)}], Max(t)>>]
    BY <1>7, <1>8 DEF Solves
  <2>3. it[t \ {Max(t)}] \in X /\ index[Max(t)] = Max(t)
    BY <1>1, <2>1
  <2> QED
    BY <1>4, <2>1, <2>2, <2>3
<1>9. it[{}] = points
  BY <1>7 DEF Solves
<1>10. Fold(it)
  BY <1>1, <1>8, <1>9
<1>11. Fold(fold)
  <2> HIDE DEF Fold
  <2> QED
    BY <1>10
<1> HIDE DEF fold
<1> DEFINE run == [i \in 0..n |-> fold[1..i]]
<1>12. run[0] = points
  <2>1. 1..0 = {} /\ {} \in SUBSET DOMAIN index /\ 0 \in 0..n
    OBVIOUS
  <2> QED
    BY <1>11, <2>1
<1>13. ASSUME NEW i \in 1..n PROVE run[i] = SortPass(run[i - 1], i)
  <2>1. /\ 1..i \in SUBSET DOMAIN index /\ 1..i # {} /\ Max(1..i) = i
        /\ (1..i) \ {i} = 1..(i - 1)
    BY <1>1, FirstIndices
  <2>2. fold[1..i] = SortPass(fold[1..(i - 1)], index[i])
    BY <1>11, <2>1
  <2>3. i \in 0..n /\ i - 1 \in 0..n /\ index[i] = i
    BY <1>1
  <2> QED
    BY <2>2, <2>3
<1>14. sortPoints(points) = run[n]
  BY <1>1, <1>6
<1> QED
  <2> HIDE DEF run
  <2>1. Sorts(run, points, n)
    BY <1>12, <1>13, <1>14 DEF Sorts
  <2> QED
    BY <2>1

(* After i passes the first i points are the latest, in order.               *)
SortedUpTo(s, i, n) ==
    \A k, l \in 1..n : k <= i /\ k < l => s[k].date >= s[l].date

LEMMA SortPassSortsOneMore ==
  ASSUME NEW P, \A p \in P : p.date \in Nat,
         NEW n \in Nat, NEW s \in [1..n -> P], NEW i \in Nat, i + 1 <= n,
         SortedUpTo(s, i, n)
  PROVE  SortedUpTo(SortPass(s, i + 1), i + 1, n)
<1> DEFINE t == SortPass(s, i + 1)
<1>1. i + 1 \in 1..n
  OBVIOUS
<1>2. FrontLatest(t, s, i + 1, n, P, n)
  BY <1>1, SortPassBringsLatest
<1> HIDE DEF t
<1>3. ASSUME NEW k \in 1..n, NEW l \in 1..n, k <= i + 1, k < l
      PROVE  t[k].date >= t[l].date
  <2>1. CASE k = i + 1
    BY <1>2, <1>3, <2>1 DEF FrontLatest
  <2>2. CASE k # i + 1
    <3>1. k <= i /\ t[k] = s[k]
      BY <1>2, <1>3, <2>2 DEF FrontLatest
    <3>2. \E m \in 1..n : k < m /\ t[l] = s[m]
      <4>1. CASE l < i + 1
        <5>1. t[l] = s[l]
          BY <1>2, <4>1 DEF FrontLatest
        <5> QED
          BY <1>3, <5>1
      <4>2. CASE l >= i + 1
        <5>1. PICK m \in (i + 1)..n : t[l] = s[m]
          <6>1. l \in (i + 1)..n
            BY <4>2
          <6> QED
            BY <1>2, <6>1 DEF FrontLatest
        <5>2. m \in 1..n /\ k < m
          BY <3>1
        <5> QED
          BY <5>1, <5>2
      <4> QED
        BY <4>1, <4>2
    <3>3. PICK m \in 1..n : k < m /\ t[l] = s[m]
      BY <3>2
    <3>4. s[k].date >= s[m].date
      BY <3>1, <3>3 DEF SortedUpTo
    <3> QED
      BY <3>1, <3>3, <3>4
  <2> QED
    BY <2>1, <2>2
<1>4. SortedUpTo(t, i + 1, n)
  BY <1>3 DEF SortedUpTo
<1> QED
  BY <1>4 DEF t

(* The latest point comes first.                                             *)
Sorted(points) ==
    /\ IsList(points)
    /\ \A k \in DOMAIN points : points[k].date \in Nat
    /\ \A k, l \in DOMAIN points : k < l => points[k].date >= points[l].date

LEMMA SortPointsSorts ==
  ASSUME NEW points, AreDated(points)
  PROVE  Sorted(sortPoints(points))
<1> DEFINE n == Len(points)
           P == Range(points)
<1>1. n \in Nat /\ points \in [1..n -> P] /\ DOMAIN points = 1..n
  BY DEF AreDated, IsList
<1>2. \A p \in P : p.date \in Nat
  BY DEF AreDated, Range
<1> HIDE DEF n, P
<1>3. PICK run : Sorts(run, points, n)
  BY <1>1, <1>2, SortRuns
<1> DEFINE Sofar(i) == run[i] \in [1..n -> P] /\ SortedUpTo(run[i], i, n)
           Kept == {i \in Nat : i <= n => Sofar(i)}
<1>4. 0 \in Kept
  <2>1. SortedUpTo(points, 0, n)
    BY DEF SortedUpTo
  <2> QED
    BY <1>1, <1>3, <2>1 DEF Sorts
<1>5. ASSUME NEW i \in Nat, i \in Kept, i + 1 <= n
      PROVE  Sofar(i + 1)
  <2>1. run[i] \in [1..n -> P] /\ SortedUpTo(run[i], i, n)
    BY <1>1, <1>5
  <2>2. i + 1 \in 1..n /\ (i + 1) - 1 = i
    BY <1>1, <1>5
  <2>3. run[i + 1] = SortPass(run[i], i + 1)
    BY <1>3, <2>2 DEF Sorts
  <2>4. FrontLatest(SortPass(run[i], i + 1), run[i], i + 1, n, P, n)
    BY <1>1, <1>2, <2>1, <2>2, SortPassBringsLatest
  <2>5. SortedUpTo(SortPass(run[i], i + 1), i + 1, n)
    BY <1>1, <1>2, <1>5, <2>1, SortPassSortsOneMore
  <2> QED
    BY <2>3, <2>4, <2>5 DEF FrontLatest
<1>6. \A i \in Nat : i \in Kept => i + 1 \in Kept
  <2> HIDE DEF Sofar
  <2> QED
    BY <1>5
<1>7. Nat \subseteq Kept
  <2> HIDE DEF Kept
  <2> QED
    BY <1>4, <1>6, SetInduction
<1> DEFINE s == sortPoints(points)
<1>8. s \in [1..n -> P] /\ SortedUpTo(s, n, n)
  <2>1. run[n] \in [1..n -> P] /\ SortedUpTo(run[n], n, n)
    BY <1>1, <1>7
  <2> QED
    BY <1>3, <2>1 DEF Sorts
<1> HIDE DEF s
<1>9. IsList(s)
  <2>1. DOMAIN s = 1..n /\ \A k \in 1..n : s[k] \in Range(s)
    BY <1>8 DEF Range
  <2>2. s = [k \in 1..n |-> s[k]]
    BY <1>8
  <2> QED
    BY <1>1, <2>1, <2>2 DEF IsList
<1>10. \A k \in DOMAIN s : s[k].date \in Nat
  BY <1>2, <1>8
<1>11. \A k, l \in DOMAIN s : k < l => s[k].date >= s[l].date
  BY <1>1, <1>8 DEF SortedUpTo
<1> QED
  BY <1>9, <1>10, <1>11 DEF Sorted, s

(* So the contact points of every profile are sorted.                        *)
LEMMA ProfilesAreSorted ==
  ASSUME NEW source, IsSource(source), NEW profile \in Profiles(source)
  PROVE  /\ Sorted(profile.phoneNumbers)
         /\ Sorted(profile.contactPointEmails)
         /\ Sorted(profile.fullAddress)
<1>1. Sorted(<<>>)
  BY DEF Sorted, IsList
<1>2. CASE \E i \in DOMAIN source.individuals :
               profile = parseIndividual(source.individuals[i])
  <2>1. PICK i \in DOMAIN source.individuals :
            profile = parseIndividual(source.individuals[i])
    BY <1>2
  <2>2. /\ profile.phoneNumbers = sortPoints(source.individuals[i].phones)
        /\ profile.contactPointEmails = sortPoints(source.individuals[i].emails)
        /\ profile.fullAddress = sortPoints(source.individuals[i].addresses)
    BY <2>1 DEF parseIndividual
  <2> QED
    BY <2>2, SortPointsSorts DEF IsSource
<1>3. CASE \E k \in DOMAIN source.locals : profile = LocalProfile(source.locals[k])
  BY <1>1, <1>3 DEF LocalProfile
<1> QED
  BY <1>2, <1>3 DEF Profiles

(* A list with the points of another in a different order: no point is lost  *)
(* and none is listed more often than before.                                *)
Rearranged(s, t, n) ==
    \E from \in [1..n -> 1..n] :
        /\ \A k, l \in 1..n : from[k] = from[l] => k = l
        /\ \A k \in 1..n : t[k] = s[from[k]]

LEMMA RearrangedTwice ==
  ASSUME NEW n \in Nat, NEW s, NEW t, NEW u, Rearranged(s, t, n), Rearranged(t, u, n)
  PROVE  Rearranged(s, u, n)
<1>1. PICK f \in [1..n -> 1..n] : /\ \A k, l \in 1..n : f[k] = f[l] => k = l
                                  /\ \A k \in 1..n : t[k] = s[f[k]]
  BY DEF Rearranged
<1>2. PICK g \in [1..n -> 1..n] : /\ \A k, l \in 1..n : g[k] = g[l] => k = l
                                  /\ \A k \in 1..n : u[k] = t[g[k]]
  BY DEF Rearranged
<1> DEFINE h == [k \in 1..n |-> f[g[k]]]
<1>3. h \in [1..n -> 1..n]
  OBVIOUS
<1>4. \A k, l \in 1..n : h[k] = h[l] => k = l
  BY <1>1, <1>2
<1>5. \A k \in 1..n : u[k] = s[h[k]]
  BY <1>1, <1>2
<1> QED
  <2> HIDE DEF h
  <2> QED
    BY <1>3, <1>4, <1>5 DEF Rearranged

LEMMA RearrangedNot ==
  ASSUME NEW n \in Nat, NEW s
  PROVE  Rearranged(s, s, n)
<1> DEFINE f == [k \in 1..n |-> k]
<1>1. /\ f \in [1..n -> 1..n]
      /\ \A k, l \in 1..n : f[k] = f[l] => k = l
      /\ \A k \in 1..n : s[k] = s[f[k]]
  OBVIOUS
<1> QED
  <2> HIDE DEF f
  <2> QED
    BY <1>1 DEF Rearranged

LEMMA CompareRearranges ==
  ASSUME NEW P, NEW n \in Nat, NEW s \in [1..n -> P], NEW i \in 1..n, NEW j \in 1..n
  PROVE  Rearranged(s, Compare(s, i, j), n)
<1>1. CASE j > i /\ LaterPoint(s[j], s[i])
  <2> DEFINE f == [k \in 1..n |-> IF k = j THEN i ELSE IF k = i THEN j ELSE k]
             t == Compare(s, i, j)
  <2>1. f \in [1..n -> 1..n] /\ \A k, l \in 1..n : f[k] = f[l] => k = l
    OBVIOUS
  <2>2. t = [s EXCEPT ![i] = s[j], ![j] = s[i]]
    BY <1>1 DEF Compare
  <2>3. \A k \in 1..n : t[k] = s[f[k]]
    <3> HIDE DEF t
    <3> QED
      BY <1>1, <2>2
  <2> QED
    <3> HIDE DEF f, t
    <3>1. Rearranged(s, t, n)
      BY <2>1, <2>3 DEF Rearranged
    <3> QED
      BY <3>1 DEF t
<1>2. CASE ~(j > i /\ LaterPoint(s[j], s[i]))
  BY <1>2, RearrangedNot DEF Compare
<1> QED
  BY <1>1, <1>2

LEMMA SortPassRearranges ==
  ASSUME NEW P, NEW n \in Nat, NEW s \in [1..n -> P], NEW i \in 1..n
  PROVE  Rearranged(s, SortPass(s, i), n)
<1>1. PICK run : Compares(run, s, i, n)
  BY SortPassRuns
<1> DEFINE Sofar(j) == run[j] \in [1..n -> P] /\ Rearranged(s, run[j], n)
           Kept == {j \in Nat : j <= n => Sofar(j)}
<1>2. 0 \in Kept
  BY <1>1, RearrangedNot DEF Compares
<1>3. ASSUME NEW j \in Nat, j \in Kept, j + 1 <= n PROVE Sofar(j + 1)
  <2>1. run[j] \in [1..n -> P] /\ Rearranged(s, run[j], n)
    BY <1>3
  <2>2. j + 1 \in 1..n /\ (j + 1) - 1 = j
    BY <1>3
  <2>3. run[j + 1] = Compare(run[j], i, j + 1)
    BY <1>1, <2>2 DEF Compares
  <2>4. run[j + 1] \in [1..n -> P]
    <3>1. Compare(run[j], i, j + 1) \in [1..n -> P]
      BY <2>1, <2>2, CompareKeepsPoints
    <3> QED
      BY <2>3, <3>1
  <2>5. Rearranged(run[j], run[j + 1], n)
    BY <2>1, <2>2, <2>3, CompareRearranges
  <2> QED
    BY <2>1, <2>4, <2>5, RearrangedTwice
<1>4. \A j \in Nat : j \in Kept => j + 1 \in Kept
  <2> HIDE DEF Sofar
  <2> QED
    BY <1>3
<1>5. Nat \subseteq Kept
  <2> HIDE DEF Kept
  <2> QED
    BY <1>2, <1>4, SetInduction
<1>6. Rearranged(s, run[n], n)
  BY <1>5
<1> QED
  BY <1>1, <1>6 DEF Compares

LEMMA SortRearranges ==
  ASSUME NEW P, \A p \in P : p.date \in Nat,
         NEW n \in Nat, NEW points \in [1..n -> P]
  PROVE  Rearranged(points, sortPoints(points), n)
<1>1. PICK run : Sorts(run, points, n)
  BY SortRuns
<1> DEFINE Sofar(i) == run[i] \in [1..n -> P] /\ Rearranged(points, run[i], n)
           Kept == {i \in Nat : i <= n => Sofar(i)}
<1>2. 0 \in Kept
  BY <1>1, RearrangedNot DEF Sorts
<1>3. ASSUME NEW i \in Nat, i \in Kept, i + 1 <= n PROVE Sofar(i + 1)
  <2>1. run[i] \in [1..n -> P] /\ Rearranged(points, run[i], n)
    BY <1>3
  <2>2. i + 1 \in 1..n /\ (i + 1) - 1 = i
    BY <1>3
  <2>3. run[i + 1] = SortPass(run[i], i + 1)
    BY <1>1, <2>2 DEF Sorts
  <2>4. run[i + 1] \in [1..n -> P]
    <3>1. FrontLatest(SortPass(run[i], i + 1), run[i], i + 1, n, P, n)
      BY <2>1, <2>2, SortPassBringsLatest
    <3> QED
      BY <2>3, <3>1 DEF FrontLatest
  <2>5. Rearranged(run[i], run[i + 1], n)
    BY <2>1, <2>2, <2>3, SortPassRearranges
  <2> QED
    BY <2>1, <2>4, <2>5, RearrangedTwice
<1>4. \A i \in Nat : i \in Kept => i + 1 \in Kept
  <2> HIDE DEF Sofar
  <2> QED
    BY <1>3
<1>5. Nat \subseteq Kept
  <2> HIDE DEF Kept
  <2> QED
    BY <1>2, <1>4, SetInduction
<1>6. Rearranged(points, run[n], n)
  BY <1>5
<1> QED
  BY <1>1, <1>6 DEF Sorts

(* The hand-written sorts sort: whatever the dates, the latest point comes   *)
(* first, and the points are those that were given.                          *)
THEOREM SortsByDate ==
  ASSUME NEW points, AreDated(points)
  PROVE  Sorted(sortPoints(points)) /\ Rearranged(points, sortPoints(points), Len(points))
<1>1. /\ Len(points) \in Nat /\ points \in [1..Len(points) -> Range(points)]
      /\ \A p \in Range(points) : p.date \in Nat
  BY DEF AreDated, IsList, Range
<1> QED
  BY <1>1, SortPointsSorts, SortRearranges
=============================================================================
