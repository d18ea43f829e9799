--------------------------- MODULE CatalogGrouping_proofs ---------------------------
(* Proofs about CatalogGrouping, for any finite set of Properties and any       *)
(* Listings, accounts and Operators: nothing stays behind at a merged Property,  *)
(* reviews stay apart, negative decisions hold, and the groups are sound; and    *)
(* about the jobs that keep the suggestions up, for any Properties, workers,     *)
(* tokens and page sizes (MatchMaintenance, MatchOperation).                     *)
EXTENDS CatalogGrouping, MatchJobs, FiniteSetTheorems, WellFoundedInduction, TLAPS

\* What keeps Listings and favourites at roots: they are moved with their Property.
HomeInv ==
    /\ alias \in [Property -> Property \union {Root, Unborn}]
    /\ home \in [Listing -> Property]
    /\ favorite \subseteq Account \X Property
    /\ NothingAtAliases

\* What keeps reviews apart: a comparison is of two Properties, a partition of one.
ClaimInv ==
    /\ claims \subseteq ClaimRow
    /\ \A c \in claims : IF c.kind = "match" THEN c.on \in Pair ELSE \E p \in Property : c.on = {p}
    /\ OneReviewPerProperty

-----------------------------------------------------------------------------
(* Listings and favourites.                                                  *)

LEMMA HomeInit == Init => HomeInv
  BY GroupingAssumption DEF Init, HomeInv, NothingAtAliases, Held

LEMMA HomeUnchanged ==
  HomeInv /\ UNCHANGED <<groups, favorite>> => HomeInv'
  BY DEF HomeInv, NothingAtAliases, groups

LEMMA MergeKeepsHome ==
  ASSUME HomeInv, NEW target \in Property, NEW duplicate \in Property, target # duplicate,
         alias[target] = Root, Merge(target, duplicate)
  PROVE  HomeInv'
  <1>1. /\ alias' \in [Property -> Property \union {Root, Unborn}]
        /\ home' \in [Listing -> Property]
        /\ favorite' \subseteq Account \X Property
    BY DEF HomeInv, Merge, FavoritesMerged
  <1>2. alias'[target] = Root /\ \A p \in Property \ {duplicate} : alias'[p] = alias[p]
    BY AliasAssumption DEF HomeInv, Merge
  <1>3. \A l \in Listing : alias'[home'[l]] = Root
    BY <1>2 DEF HomeInv, NothingAtAliases, Merge
  <1>4. \A f \in favorite' : alias'[f[2]] = Root
    <2> SUFFICES ASSUME NEW f \in favorite' PROVE alias'[f[2]] = Root
      OBVIOUS
    <2>1. PICK g \in favorite : f = IF g[2] = duplicate THEN <<g[1], target>> ELSE g
      BY DEF Merge, FavoritesMerged
    <2>2. g[2] \in Property /\ alias[g[2]] = Root
      BY DEF HomeInv, NothingAtAliases
    <2> QED
      BY <1>2, <2>1, <2>2
  <1> QED
    BY <1>1, <1>3, <1>4 DEF HomeInv, NothingAtAliases

\* The Property Listings are separated to is a root afterwards.
LEMMA SeparateKeepsHome ==
  ASSUME HomeInv, NEW c, NEW dest \in Property, NEW al, NEW f,
         al = alias \/ al = [alias EXCEPT ![dest] = Root], al[dest] = Root,
         Separate(c, dest, al, f)
  PROVE  HomeInv'
  <1>1. /\ alias' = al
        /\ home' = [l \in Listing |-> IF l \in c.listings THEN dest ELSE home[l]]
        /\ UNCHANGED favorite
    BY DEF Separate
  <1>2. /\ al \in [Property -> Property \union {Root, Unborn}]
        /\ \A p \in Property : alias[p] = Root => al[p] = Root
    BY AliasAssumption DEF HomeInv
  <1> QED
    BY <1>1, <1>2 DEF HomeInv, NothingAtAliases

LEMMA HomeCuration ==
  ASSUME HomeInv, Curation PROVE HomeInv'
  <1>1. CASE \E a \in Operator, pair \in Pair :
               \/ \E suggested \in BOOLEAN : ClaimMatch(a, pair, suggested)
               \/ RefreshStale(a, pair)
    BY <1>1, HomeUnchanged DEF ClaimMatch, RefreshStale
  <1>2. CASE \E a \in Operator, p \in Property, part \in SUBSET Listing : ClaimPartition(a, p, part)
    BY <1>2, HomeUnchanged DEF ClaimPartition
  <1>3. CASE \E c \in claims : ClaimExpires(c) \/ \E outcome \in {"rejected", "snoozed"} : Decide(c, outcome)
    BY <1>3, HomeUnchanged DEF ClaimExpires, Decide
  <1>4. ASSUME NEW c \in claims, NEW p \in Property, NEW q \in Property, NEW chosen \in Facts,
               p # q, Approve(c, p, q, chosen)
        PROVE  HomeInv'
    <2>1. alias[p] = Root
      BY <1>4 DEF Approve, Current, Roots
    <2>2. Merge(p, q)
      BY <1>4 DEF Approve
    <2> QED
      BY <1>4, <2>1, <2>2, MergeKeepsHome
  <1>5. ASSUME NEW c \in claims, NEW p \in Property, NEW q \in Property, PartitionRestore(c, p, q)
        PROVE  HomeInv'
    <2>1. [alias EXCEPT ![q] = Root][q] = Root
      BY DEF HomeInv
    <2>2. Separate(c, q, [alias EXCEPT ![q] = Root], facts)
      BY <1>5 DEF PartitionRestore
    <2> QED
      BY <2>1, <2>2, SeparateKeepsHome
  <1>6. ASSUME NEW c \in claims, NEW p \in Property, NEW q \in Property, NEW stated \in Facts,
               PartitionNew(c, p, q, stated)
        PROVE  HomeInv'
    <2>1. [alias EXCEPT ![q] = Root][q] = Root
      BY DEF HomeInv
    <2>2. Separate(c, q, [alias EXCEPT ![q] = Root], [facts EXCEPT ![q] = stated])
      BY <1>6 DEF PartitionNew
    <2> QED
      BY <2>1, <2>2, SeparateKeepsHome
  <1>7. ASSUME NEW c \in claims, NEW p \in Property, NEW q \in Property, PartitionExisting(c, p, q)
        PROVE  HomeInv'
    BY <1>7, SeparateKeepsHome DEF PartitionExisting, Roots
  <1> QED
    BY <1>1, <1>2, <1>3, <1>4, <1>5, <1>6, <1>7 DEF Curation

LEMMA HomeStep == HomeInv /\ [Next]_vars => HomeInv'
  <1> SUFFICES ASSUME HomeInv, [Next]_vars PROVE HomeInv'
    OBVIOUS
  <1>1. CASE \E pair \in Pair : SnoozeEnds(pair)
    BY <1>1, HomeUnchanged DEF SnoozeEnds
  <1>2. CASE \E p \in Property, persist \in BOOLEAN : \E q \in Candidates(p) : Measure({p, q}, persist)
    BY <1>2, HomeUnchanged DEF Measure
  <1>3. CASE Curation
    BY <1>3, HomeCuration
  <1>4. CASE NewScoring
    BY <1>4, HomeUnchanged DEF NewScoring
  <1>5. ASSUME NEW l \in Listing, NEW p \in Property, NEW stated \in Facts, Materialize(l, p, stated)
        PROVE  HomeInv'
    BY <1>5 DEF Materialize, HomeInv, NothingAtAliases
  <1>6. ASSUME NEW a \in Account, SaveAtRoot(a) PROVE HomeInv'
    <2>1. UNCHANGED groups /\ route[a] \in Property
      BY <1>6 DEF SaveAtRoot
    <2>2. \/ favorite' = favorite
          \/ alias[route[a]] = Root /\ favorite' = favorite \union {<<a, route[a]>>}
      BY <1>6 DEF SaveAtRoot
    <2> QED
      BY <2>1, <2>2 DEF HomeInv, NothingAtAliases, groups
  <1>7. ASSUME NEW a \in Account, NEW p \in Property, SaveFavorite(a, p) PROVE HomeInv'
    BY <1>7, HomeUnchanged DEF SaveFavorite
  <1>8. ASSUME NEW a \in Account, NEW p \in Property, Unsave(a, p) PROVE HomeInv'
    BY <1>8 DEF Unsave, HomeInv, NothingAtAliases, groups
  <1>9. CASE UNCHANGED vars
    BY <1>9, HomeUnchanged DEF vars, groups
  <1> QED
    BY <1>1, <1>2, <1>3, <1>4, <1>5, <1>6, <1>7, <1>8, <1>9 DEF Next

(* Merged Properties keep neither Listings nor favourites. *)
THEOREM NothingIsLeftBehind == Spec => []NothingAtAliases
  <1>1. HomeInv => NothingAtAliases
    BY DEF HomeInv
  <1> QED
    BY HomeInit, HomeStep, <1>1, PTL DEF Spec

-----------------------------------------------------------------------------
(* Claims.                                                                   *)

LEMMA MarkedStale ==
  ASSUME NEW d \in ClaimRow, NEW b \in BOOLEAN
  PROVE  /\ [d EXCEPT !.fresh = b] \in ClaimRow
         /\ [d EXCEPT !.fresh = b].on = d.on
         /\ [d EXCEPT !.fresh = b].kind = d.kind
        /\ [d EXCEPT !.fresh = b].listings = d.listings
        /\ [d EXCEPT !.fresh = b].fresh = b
  BY DEF ClaimRow

LEMMA MarkedSuggested ==
  ASSUME NEW d \in ClaimRow, NEW b \in BOOLEAN
  PROVE  /\ [d EXCEPT !.suggested = b] \in ClaimRow
         /\ [d EXCEPT !.suggested = b].on = d.on
         /\ [d EXCEPT !.suggested = b].kind = d.kind
        /\ [d EXCEPT !.suggested = b].listings = d.listings
        /\ [d EXCEPT !.suggested = b].fresh = d.fresh
  BY DEF ClaimRow

\* Ending claims keeps the others apart.
LEMMA FewerClaims == ClaimInv /\ claims' \subseteq claims => ClaimInv'
  BY DEF ClaimInv, OneReviewPerProperty

\* So does marking them, as long as each one stays on its Properties.
LEMMA MarkedClaims ==
  ASSUME ClaimInv, NEW mark \in [claims -> ClaimRow],
         \A c \in claims : mark[c].on = c.on /\ mark[c].kind = c.kind,
         claims' \subseteq {mark[c] : c \in claims}
  PROVE  ClaimInv'
  <1>1. \A e \in claims' : \E c \in claims : e = mark[c] /\ e.on = c.on /\ e.kind = c.kind
    OBVIOUS
  <1>2. claims' \subseteq ClaimRow
    OBVIOUS
  <1> QED
    BY <1>1, <1>2 DEF ClaimInv, OneReviewPerProperty

LEMMA AfterChange ==
  ASSUME ClaimInv, NEW touched, NEW listed, NEW ended,
         claims' \subseteq ClaimsAfter(touched, listed, ended)
  PROVE  ClaimInv'
  <1> DEFINE changed(c) == IF c.kind = "match" THEN touched ELSE touched \union listed
             still(c) == c.fresh /\ c.on \intersect changed(c) = {}
             mark == [c \in claims |-> [c EXCEPT !.fresh = still(c)]]
  <1>1. \A c \in claims : c \in ClaimRow /\ still(c) \in BOOLEAN
    BY DEF ClaimInv
  <1>2. /\ mark \in [claims -> ClaimRow]
        /\ \A c \in claims : mark[c].on = c.on /\ mark[c].kind = c.kind
    <2> HIDE DEF still
    <2> QED
      BY <1>1, MarkedStale
  <1>3. claims' \subseteq {mark[c] : c \in claims}
    <2>1. ClaimsAfter(touched, listed, ended) =
            {[c EXCEPT !.fresh = still(c)] : c \in {d \in claims : d.kind = "match" => d.on \notin ended}}
      BY DEF ClaimsAfter
    <2> HIDE DEF still
    <2> QED
      BY <2>1
  <1> HIDE DEF mark
  <1> QED
    BY <1>2, <1>3, MarkedClaims

\* A new review starts where there is no other one.
LEMMA AnotherClaim ==
  ASSUME ClaimInv, NEW m \in ClaimRow,
         IF m.kind = "match" THEN m.on \in Pair ELSE \E p \in Property : m.on = {p},
         claims' \subseteq claims \union {m},
         \A c \in claims \intersect claims' : c # m => c.on \intersect m.on = {}
  PROVE  ClaimInv'
  BY DEF ClaimInv, OneReviewPerProperty

LEMMA ClaimMatchStep ==
  ASSUME ClaimInv, NEW a \in Operator, NEW pair \in Pair, NEW suggested \in BOOLEAN,
         ClaimMatch(a, pair, suggested)
  PROVE  ClaimInv'
  <1> DEFINE m == MatchClaim(a, pair, suggested)
  <1>1. m \in ClaimRow /\ m.kind = "match" /\ m.on = pair
    BY DEF MatchClaim, ClaimRow, Pair
  <1>2. claims' = {c \in claims : ~(c.kind = "match" /\ c.by = a /\ c.on = pair)} \union {m}
    BY DEF ClaimMatch
  <1>3. \A c \in claims : c.on \intersect pair # {} => c.kind = "match" /\ c.by = a /\ c.on = pair
    BY DEF ClaimMatch, MatchAllowed, OpenOn
  <1> HIDE DEF m
  <1> QED
    BY <1>1, <1>2, <1>3, AnotherClaim

LEMMA ClaimPartitionStep ==
  ASSUME ClaimInv, NEW a \in Operator, NEW p \in Property, NEW part \in SUBSET Listing,
         ClaimPartition(a, p, part)
  PROVE  ClaimInv'
  <1> DEFINE m == PartitionClaim(a, p, part)
  <1>1. m \in ClaimRow /\ m.kind = "partition" /\ m.on = {p}
    BY DEF PartitionClaim, ClaimRow
  <1>2. claims' = {c \in claims : ~(c.kind = "partition" /\ c.by = a /\ c.on = {p})} \union {m}
    BY DEF ClaimPartition
  <1>3. \A c \in claims : c.on \intersect {p} # {} => c.kind = "partition" /\ c.by = a
    BY DEF ClaimPartition, OpenOn
  <1>4. \A c \in claims : c.on \intersect {p} # {} => c.on = {p}
    BY <1>3 DEF ClaimInv
  <1> HIDE DEF m
  <1> QED
    BY <1>1, <1>2, <1>3, <1>4, AnotherClaim

LEMMA RefreshStep ==
  ASSUME ClaimInv, NEW a \in Operator, NEW pair \in Pair, RefreshStale(a, pair)
  PROVE  ClaimInv'
  <1> DEFINE after == Evaluated(suggestion[pair], alias, facts, home, pair, TRUE)
             told(c) == c.suggested \/ c.on = pair
             mark == [c \in claims |-> [c EXCEPT !.suggested = told(c)]]
  <1>1. CASE after.state = "pending"
    <2>1. claims' = {[c EXCEPT !.suggested = told(c)] : c \in claims}
      BY <1>1 DEF RefreshStale
    <2>2. \A c \in claims : c \in ClaimRow /\ told(c) \in BOOLEAN
      BY DEF ClaimInv
    <2> HIDE DEF told, after
    <2>3. /\ mark \in [claims -> ClaimRow]
          /\ \A c \in claims : mark[c].on = c.on /\ mark[c].kind = c.kind
      BY <2>2, MarkedSuggested
    <2>4. claims' \subseteq {mark[c] : c \in claims}
      BY <2>1
    <2> HIDE DEF mark
    <2> QED
      BY <2>3, <2>4, MarkedClaims
  <1>2. CASE after.state # "pending"
    <2>1. claims' = ClaimsAfter({}, {}, {pair})
      BY <1>2 DEF RefreshStale
    <2> QED
      BY <2>1, AfterChange
  <1> QED
    BY <1>1, <1>2

LEMMA SeparateStep ==
  ASSUME ClaimInv, NEW c, NEW dest, NEW al, NEW f, Separate(c, dest, al, f)
  PROVE  ClaimInv'
  <1>1. PICK p, pair : claims' = {d \in ClaimsAfter(pair, {}, {pair}) : p \notin d.on}
    BY DEF Separate
  <1>2. claims' \subseteq ClaimsAfter(pair, {}, {pair})
    BY <1>1
  <1> QED
    BY <1>2, AfterChange

LEMMA ClaimCuration == ClaimInv /\ Curation => ClaimInv'
  <1> SUFFICES ASSUME ClaimInv, Curation PROVE ClaimInv'
    OBVIOUS
  <1>1. CASE \E a \in Operator, pair \in Pair :
               \/ \E suggested \in BOOLEAN : ClaimMatch(a, pair, suggested)
               \/ RefreshStale(a, pair)
    BY <1>1, ClaimMatchStep, RefreshStep
  <1>2. CASE \E a \in Operator, p \in Property, part \in SUBSET Listing : ClaimPartition(a, p, part)
    BY <1>2, ClaimPartitionStep
  <1>3. CASE \E c \in claims : ClaimExpires(c)
    BY <1>3, FewerClaims DEF ClaimExpires
  <1>4. CASE \E c \in claims, outcome \in {"rejected", "snoozed"} : Decide(c, outcome)
    BY <1>4, FewerClaims DEF Decide
  <1>5. ASSUME NEW c \in claims, NEW p \in Property, NEW q \in Property, NEW chosen \in Facts,
               Approve(c, p, q, chosen)
        PROVE  ClaimInv'
    <2>1. PICK listed, ended : claims' = ClaimsAfter({p, q}, listed, ended)
      BY <1>5 DEF Approve
    <2> QED
      BY <2>1, AfterChange
  <1>6. ASSUME NEW c \in claims, NEW p \in Property, NEW q \in Property,
               \/ PartitionRestore(c, p, q)
               \/ \E stated \in Facts : PartitionNew(c, p, q, stated)
               \/ PartitionExisting(c, p, q)
        PROVE  ClaimInv'
    BY <1>6, SeparateStep DEF PartitionRestore, PartitionNew, PartitionExisting
  <1> QED
    BY <1>1, <1>2, <1>3, <1>4, <1>5, <1>6 DEF Curation

LEMMA ClaimStep == ClaimInv /\ [Next]_vars => ClaimInv'
  <1> SUFFICES ASSUME ClaimInv, [Next]_vars PROVE ClaimInv'
    OBVIOUS
  <1>1. CASE \E pair \in Pair : SnoozeEnds(pair)
    BY <1>1, FewerClaims DEF SnoozeEnds
  <1>2. ASSUME NEW p, NEW persist, NEW q, Measure({p, q}, persist) PROVE ClaimInv'
    <2>1. PICK listed, ended : claims' = ClaimsAfter({}, listed, ended)
      BY <1>2 DEF Measure
    <2> QED
      BY <2>1, AfterChange
  <1>3. CASE Curation
    BY <1>3, ClaimCuration
  <1>4. CASE NewScoring
    BY <1>4, FewerClaims DEF NewScoring
  <1>5. ASSUME NEW l \in Listing, NEW p \in Property, NEW stated \in Facts, Materialize(l, p, stated)
        PROVE  ClaimInv'
    BY <1>5, AfterChange DEF Materialize
  <1>6. ASSUME NEW a \in Account, SaveAtRoot(a) PROVE ClaimInv'
    <2>1. claims' = claims \/ claims' = ClaimsAfter({}, {route[a]}, {})
      BY <1>6 DEF SaveAtRoot
    <2> QED
      BY <2>1, FewerClaims, AfterChange
  <1>7. ASSUME NEW a \in Account, NEW p \in Property, SaveFavorite(a, p) PROVE ClaimInv'
    BY <1>7, FewerClaims DEF SaveFavorite
  <1>8. ASSUME NEW a \in Account, NEW p \in Property, Unsave(a, p) PROVE ClaimInv'
    BY <1>8, AfterChange DEF Unsave
  <1>9. CASE UNCHANGED vars
    BY <1>9, FewerClaims DEF vars
  <1> QED
    BY <1>1, <1>2, <1>3, <1>4, <1>5, <1>6, <1>7, <1>8, <1>9 DEF Next

(* However comparisons and partitions are claimed, renewed, refreshed, marked   *)
(* stale and ended, no Property is under two reviews at once.                    *)
THEOREM ReviewsStayApart == Spec => []OneReviewPerProperty
  <1>1. Init => ClaimInv
    BY DEF Init, ClaimInv, OneReviewPerProperty
  <1>2. ClaimInv => OneReviewPerProperty
    BY DEF ClaimInv
  <1> QED
    BY <1>1, ClaimStep, <1>2, PTL DEF Spec

-----------------------------------------------------------------------------
(* Negative decisions.                                                       *)

RowShape(s) ==
    s = [state |-> s.state, seen |-> s.seen, quiet |-> s.quiet, version |-> s.version]

\* The shape of the suggestions is all this needs.
Shaped ==
    /\ suggestion = [pair \in Pair |-> suggestion[pair]]
    /\ \A pair \in Pair : RowShape(suggestion[pair])

\* The negative decision s is not reopened by t on its own evidence.
Kept(s, t) == s.state = "rejected" /\ t.state = "pending" => t.seen # s.quiet

LEMMA RowUpdates ==
  ASSUME NEW s, RowShape(s), NEW x
  PROVE  /\ RowShape([s EXCEPT !.state = x]) /\ [s EXCEPT !.state = x].state = x
         /\ RowShape([s EXCEPT !.quiet = x]) /\ [s EXCEPT !.quiet = x].state = s.state
         /\ RowShape([s EXCEPT !.seen = x]) /\ [s EXCEPT !.seen = x].state = s.state
         /\ RowShape([s EXCEPT !.version = x]) /\ [s EXCEPT !.version = x].state = s.state
  <1> DEFINE r(a, b, c, d) == [state |-> a, seen |-> b, quiet |-> c, version |-> d]
  <1>1. s = r(s.state, s.seen, s.quiet, s.version)
    BY DEF RowShape
  <1>2. /\ [s EXCEPT !.state = x] = r(x, s.seen, s.quiet, s.version)
        /\ [s EXCEPT !.quiet = x] = r(s.state, s.seen, x, s.version)
        /\ [s EXCEPT !.seen = x] = r(s.state, x, s.quiet, s.version)
        /\ [s EXCEPT !.version = x] = r(s.state, s.seen, s.quiet, x)
    BY <1>1
  <1> QED
    BY <1>2 DEF RowShape

LEMMA NewRow ==
  ASSUME NEW a, NEW b, NEW c, NEW d
  PROVE  RowShape([state |-> a, seen |-> b, quiet |-> c, version |-> d])
  BY DEF RowShape

LEMMA EvaluationShape ==
  ASSUME NEW s, RowShape(s), NEW al, NEW f, NEW h, NEW pair, NEW persist
  PROVE  RowShape(Evaluated(s, al, f, h, pair, persist))
  <1> DEFINE fp == Fingerprint(f, h, pair)
             e == Evaluated(s, al, f, h, pair, persist)
  <1>1. e = s \/ e = Measured(s, fp, Alike(f, pair))
    BY DEF Evaluated
  <1> HIDE DEF fp, e
  <1>2. \/ Measured(s, fp, Alike(f, pair)) = [s EXCEPT !.seen = fp, !.version = scoring]
        \/ \E a, c : Measured(s, fp, Alike(f, pair)) =
                        [state |-> a, seen |-> fp, quiet |-> c, version |-> scoring]
    BY DEF Measured
  <1>3. RowShape([s EXCEPT !.seen = fp, !.version = scoring])
    <2>1. RowShape([s EXCEPT !.seen = fp])
      BY RowUpdates
    <2>2. [s EXCEPT !.seen = fp, !.version = scoring] = [[s EXCEPT !.seen = fp] EXCEPT !.version = scoring]
      OBVIOUS
    <2> QED
      BY <2>1, <2>2, RowUpdates
  <1>4. RowShape(Measured(s, fp, Alike(f, pair)))
    BY <1>2, <1>3, NewRow
  <1> QED
    BY <1>1, <1>4 DEF e

LEMMA EvaluationKeeps ==
  ASSUME NEW s, NEW al, NEW f, NEW h, NEW pair, NEW persist
  PROVE  Kept(s, Evaluated(s, al, f, h, pair, persist))
  <1> DEFINE fp == Fingerprint(f, h, pair)
  <1> SUFFICES ASSUME s.state = "rejected",
                      Evaluated(s, al, f, h, pair, persist).state = "pending"
               PROVE  Evaluated(s, al, f, h, pair, persist).seen # s.quiet
    BY DEF Kept
  <1>1. Evaluated(s, al, f, h, pair, persist) # s
    OBVIOUS
  <1>2. Evaluated(s, al, f, h, pair, persist) = Measured(s, fp, Alike(f, pair))
    BY <1>1 DEF Evaluated
  <1> HIDE DEF fp
  <1>3. Measured(s, fp, Alike(f, pair)).state = "pending"
    BY <1>2
  <1>4. CASE fp \in parted
    <2>1. Measured(s, fp, Alike(f, pair)) =
            [state |-> "rejected", seen |-> fp, quiet |-> fp, version |-> scoring]
      BY <1>4 DEF Measured
    <2> QED
      BY <1>3, <2>1
  <1>5. CASE fp \notin parted /\ s.quiet # fp
    <2>1. Measured(s, fp, Alike(f, pair)).seen = fp
      BY <1>5 DEF Measured, KeepsQuiet
    <2> QED
      BY <1>2, <1>5, <2>1
  <1>6. CASE fp \notin parted /\ s.quiet = fp
    <2>1. Measured(s, fp, Alike(f, pair)) = [s EXCEPT !.seen = fp, !.version = scoring]
      BY <1>6 DEF Measured, KeepsQuiet
    <2>2. [s EXCEPT !.seen = fp, !.version = scoring].state = s.state
      OBVIOUS
    <2> QED
      BY <1>3, <2>1, <2>2
  <1> QED
    BY <1>4, <1>5, <1>6

\* A step keeps the shape and every negative decision.
StepKeeps == Shaped' /\ \A pair \in Pair : Kept(suggestion[pair], suggestion'[pair])

LEMMA SameKept == ASSUME NEW s PROVE Kept(s, s)
  BY DEF Kept

LEMMA OthersKept ==
  ASSUME Shaped, NEW pair, NEW after, pair \in Pair => Kept(suggestion[pair], after) /\ RowShape(after),
         suggestion' = [suggestion EXCEPT ![pair] = after]
  PROVE  StepKeeps
  <1> HIDE DEF Kept
  <1>1. \A q \in Pair : suggestion'[q] = IF q = pair THEN after ELSE suggestion[q]
    BY DEF Shaped
  <1>2. \A q \in Pair : Kept(suggestion[q], suggestion'[q])
    BY <1>1, SameKept
  <1>3. \A q \in Pair : RowShape(suggestion'[q])
    BY <1>1 DEF Shaped
  <1> QED
    BY <1>2, <1>3 DEF Shaped, StepKeeps

LEMMA UnchangedKept == Shaped /\ UNCHANGED suggestion => StepKeeps
  BY SameKept DEF StepKeeps, Shaped

\* A suggestion that is not pending afterwards keeps what it may.
LEMMA NotPendingKept == ASSUME NEW s, NEW t, t.state # "pending" PROVE Kept(s, t)
  BY DEF Kept

LEMMA RebasedKept ==
  ASSUME Shaped, NEW al, NEW f, NEW h, NEW merged, NEW pair \in Pair
  PROVE  /\ Kept(suggestion[pair], Rebased(al, f, h, merged)[pair])
         /\ RowShape(Rebased(al, f, h, merged)[pair])
  <1>1. \/ Rebased(al, f, h, merged)[pair] = Evaluated(suggestion[pair], al, f, h, pair, TRUE)
        \/ Rebased(al, f, h, merged)[pair] = [suggestion[pair] EXCEPT !.state = "superseded"]
        \/ Rebased(al, f, h, merged)[pair] = suggestion[pair]
    BY DEF Rebased
  <1>2. RowShape(suggestion[pair])
    BY DEF Shaped
  <1>3. /\ [suggestion[pair] EXCEPT !.state = "superseded"].state # "pending"
        /\ RowShape([suggestion[pair] EXCEPT !.state = "superseded"])
    <2>1. /\ [suggestion[pair] EXCEPT !.state = "superseded"].state = "superseded"
          /\ RowShape([suggestion[pair] EXCEPT !.state = "superseded"])
      BY <1>2, RowUpdates, Zenon
    <2> QED
      BY <2>1
  <1> QED
    BY <1>1, <1>2, <1>3, EvaluationKeeps, EvaluationShape, SameKept, NotPendingKept

LEMMA MeasureKept ==
  ASSUME Shaped, NEW pair \in Pair, NEW persist, Measure(pair, persist)
  PROVE  StepKeeps
  <1> DEFINE after == Evaluated(suggestion[pair], alias, facts, home, pair, persist)
  <1>1. suggestion' = [suggestion EXCEPT ![pair] = after]
    BY DEF Measure
  <1>2. Kept(suggestion[pair], after) /\ RowShape(after)
    BY EvaluationKeeps, EvaluationShape DEF Shaped
  <1> HIDE DEF after
  <1> QED
    BY <1>1, <1>2, OthersKept

LEMMA RefreshKept ==
  ASSUME Shaped, NEW a, NEW pair \in Pair, RefreshStale(a, pair)
  PROVE  StepKeeps
  <1> DEFINE after == Evaluated(suggestion[pair], alias, facts, home, pair, TRUE)
  <1>1. suggestion' = [suggestion EXCEPT ![pair] = after]
    BY DEF RefreshStale
  <1>2. Kept(suggestion[pair], after) /\ RowShape(after)
    BY EvaluationKeeps, EvaluationShape DEF Shaped
  <1> HIDE DEF after
  <1> QED
    BY <1>1, <1>2, OthersKept

LEMMA SnoozeEndsKept ==
  ASSUME Shaped, NEW pair \in Pair, SnoozeEnds(pair) PROVE StepKeeps
  <1> DEFINE after == [suggestion[pair] EXCEPT !.state = "due"]
  <1>1. suggestion' = [suggestion EXCEPT ![pair] = after]
    BY DEF SnoozeEnds
  <1>2. RowShape(after) /\ after.state = "due"
    BY RowUpdates, Zenon DEF Shaped
  <1>3. Kept(suggestion[pair], after)
    BY <1>2, NotPendingKept
  <1> HIDE DEF after
  <1> QED
    BY <1>1, <1>2, <1>3, OthersKept

LEMMA DecideKept ==
  ASSUME Shaped, NEW c, NEW outcome \in {"rejected", "snoozed"}, Decide(c, outcome)
  PROVE  StepKeeps
  <1> DEFINE pair == c.on
             s == suggestion[pair]
             after == [s EXCEPT !.state = outcome, !.quiet = Now(pair)]
  <1>1. suggestion' = [suggestion EXCEPT ![pair] = after]
    BY DEF Decide
  <1>2. pair \in Pair => RowShape(after) /\ after.state = outcome
    <2> SUFFICES ASSUME pair \in Pair PROVE RowShape(after) /\ after.state = outcome
      OBVIOUS
    <2>1. RowShape([s EXCEPT !.state = outcome]) /\ [s EXCEPT !.state = outcome].state = outcome
      BY RowUpdates, Zenon DEF Shaped
    <2>2. after = [[s EXCEPT !.state = outcome] EXCEPT !.quiet = Now(pair)]
      OBVIOUS
    <2> QED
      BY <2>1, <2>2, RowUpdates, Zenon
  <1>3. pair \in Pair => Kept(suggestion[pair], after)
    BY <1>2, NotPendingKept
  <1> HIDE DEF after
  <1> QED
    BY <1>1, <1>2, <1>3, OthersKept

LEMMA ApproveKept ==
  ASSUME Shaped, NEW c, NEW target \in Property, NEW duplicate \in Property, NEW chosen,
         Approve(c, target, duplicate, chosen)
  PROVE  StepKeeps
  <1> DEFINE pair == {target, duplicate}
             rebased == Rebased(alias', facts', home', pair)
             approved == [suggestion[pair] EXCEPT !.state = "approved"]
  <1>1. suggestion' = IF c.suggested THEN [rebased EXCEPT ![pair] = approved] ELSE rebased
    BY DEF Approve
  <1>2. rebased = [q \in Pair |-> rebased[q]]
    BY DEF Rebased
  <1>3. \A q \in Pair : Kept(suggestion[q], rebased[q]) /\ RowShape(rebased[q])
    BY RebasedKept
  <1>4. pair \in Pair => Kept(suggestion[pair], approved) /\ RowShape(approved)
    <2> SUFFICES ASSUME pair \in Pair PROVE Kept(suggestion[pair], approved) /\ RowShape(approved)
      OBVIOUS
    <2>1. RowShape(approved) /\ approved.state = "approved"
      BY RowUpdates, Zenon DEF Shaped
    <2> QED
      BY <2>1, NotPendingKept
  <1> HIDE DEF rebased, approved, pair
  <1>5. \A q \in Pair : suggestion'[q] = rebased[q] \/ (q = pair /\ suggestion'[q] = approved)
    BY <1>1, <1>2
  <1>6. suggestion' = [q \in Pair |-> suggestion'[q]]
    BY <1>1, <1>2
  <1> QED
    BY <1>3, <1>4, <1>5, <1>6 DEF StepKeeps, Shaped

LEMMA SeparateKept ==
  ASSUME Shaped, NEW c, NEW dest, NEW al, NEW f, Separate(c, dest, al, f)
  PROVE  StepKeeps
  <1>1. PICK pair, h :
          suggestion' = [suggestion EXCEPT ![pair] =
            [Evaluated(suggestion[pair], al, f, h, pair, TRUE) EXCEPT
               !.state = "rejected",
               !.quiet = Evaluated(suggestion[pair], al, f, h, pair, TRUE).seen]]
    BY DEF Separate
  <1> DEFINE after == Evaluated(suggestion[pair], al, f, h, pair, TRUE)
             parting == [after EXCEPT !.state = "rejected", !.quiet = after.seen]
  <1>2. pair \in Pair => RowShape(parting) /\ parting.state = "rejected"
    <2> SUFFICES ASSUME pair \in Pair PROVE RowShape(parting) /\ parting.state = "rejected"
      OBVIOUS
    <2>1. RowShape(after)
      BY EvaluationShape DEF Shaped
    <2> HIDE DEF after
    <2>2. RowShape([after EXCEPT !.state = "rejected"]) /\ [after EXCEPT !.state = "rejected"].state = "rejected"
      BY <2>1, RowUpdates, Zenon
    <2>3. parting = [[after EXCEPT !.state = "rejected"] EXCEPT !.quiet = after.seen]
      OBVIOUS
    <2> QED
      BY <2>2, <2>3, RowUpdates, Zenon
  <1>3. pair \in Pair => Kept(suggestion[pair], parting)
    BY <1>2, NotPendingKept
  <1>4. suggestion' = [suggestion EXCEPT ![pair] = parting]
    BY <1>1
  <1> HIDE DEF parting
  <1> QED
    BY <1>2, <1>3, <1>4, OthersKept

LEMMA CurationKept == Shaped /\ Curation => StepKeeps
  <1> SUFFICES ASSUME Shaped, Curation PROVE StepKeeps
    OBVIOUS
  <1>1. CASE \E a \in Operator, pair \in Pair :
               \/ \E suggested \in BOOLEAN : ClaimMatch(a, pair, suggested)
               \/ RefreshStale(a, pair)
    BY <1>1, RefreshKept, UnchangedKept DEF ClaimMatch
  <1>2. CASE \E a \in Operator, p \in Property, part \in SUBSET Listing : ClaimPartition(a, p, part)
    BY <1>2, UnchangedKept DEF ClaimPartition
  <1>3. CASE \E c \in claims : ClaimExpires(c)
    BY <1>3, UnchangedKept DEF ClaimExpires
  <1>4. CASE \E c \in claims, outcome \in {"rejected", "snoozed"} : Decide(c, outcome)
    BY <1>4, DecideKept
  <1>5. CASE \E c \in claims, p, q \in Property, chosen \in Facts : Approve(c, p, q, chosen)
    BY <1>5, ApproveKept
  <1>6. CASE \E c \in claims, p, q \in Property :
               \/ PartitionRestore(c, p, q)
               \/ \E stated \in Facts : PartitionNew(c, p, q, stated)
               \/ PartitionExisting(c, p, q)
    BY <1>6, SeparateKept DEF PartitionRestore, PartitionNew, PartitionExisting
  <1> QED
    BY <1>1, <1>2, <1>3, <1>4, <1>5, <1>6 DEF Curation

LEMMA TwoAreAPair ==
  ASSUME NEW p \in Property, NEW q \in Property, p # q PROVE {p, q} \in Pair
  <1>1. IsFiniteSet({p}) /\ Cardinality({p}) = 1
    BY FS_Singleton
  <1>2. Cardinality({p} \union {q}) = Cardinality({p}) + 1
    BY <1>1, FS_AddElement
  <1>3. {p} \union {q} = {p, q}
    OBVIOUS
  <1>4. Cardinality({p, q}) = 2
    BY <1>1, <1>2, <1>3
  <1> QED
    BY <1>4 DEF Pair

LEMMA EveryStepKeeps == Shaped /\ [Next]_vars => StepKeeps
  <1> SUFFICES ASSUME Shaped, [Next]_vars PROVE StepKeeps
    OBVIOUS
  <1>1. CASE \E pair \in Pair : SnoozeEnds(pair)
    BY <1>1, SnoozeEndsKept
  <1>2. ASSUME NEW p \in Property, NEW persist \in BOOLEAN, NEW q \in Candidates(p),
               Measure({p, q}, persist)
        PROVE  StepKeeps
    <2>1. p # q /\ q \in Property
      BY DEF Candidates
    <2>2. {p, q} \in Pair
      BY <2>1, TwoAreAPair
    <2> QED
      BY <1>2, <2>2, MeasureKept
  <1>3. CASE Curation
    BY <1>3, CurationKept
  <1>4. CASE NewScoring
    BY <1>4, UnchangedKept DEF NewScoring
  <1>5. CASE \E l \in Listing, p \in Property, stated \in Facts : Materialize(l, p, stated)
    BY <1>5, UnchangedKept DEF Materialize
  <1>6. CASE \E a \in Account : SaveAtRoot(a) \/ \E p \in Property : SaveFavorite(a, p) \/ Unsave(a, p)
    BY <1>6, UnchangedKept DEF SaveAtRoot, SaveFavorite, Unsave
  <1>7. CASE UNCHANGED vars
    BY <1>7, UnchangedKept DEF vars
  <1> QED
    BY <1>1, <1>2, <1>3, <1>4, <1>5, <1>6, <1>7 DEF Next

(* Measurements, merges next door and partitions reopen a rejected pair only    *)
(* on other evidence than that it was rejected on.                               *)
THEOREM NegativeDecisionsHold == Spec => RejectionHolds
  <1>1. Init => Shaped
    BY NewRow DEF Init, Shaped, NoSuggestion
  <1>2. Shaped /\ [Next]_vars => Shaped'
    BY EveryStepKeeps DEF StepKeeps
  <1>3. Shaped /\ [Next]_vars =>
          [\A pair \in Pair :
            suggestion[pair].state = "rejected" /\ suggestion'[pair].state = "pending" =>
              suggestion'[pair].seen # suggestion[pair].quiet]_vars
    BY EveryStepKeeps DEF StepKeeps, Kept
  <1> QED
    BY <1>1, <1>2, <1>3, PTL DEF Spec, RejectionHolds
-----------------------------------------------------------------------------
(* Following aliases. Follow is a recursive function: it exists, and it leads   *)
(* from a root or a Property next to one to the root.                           *)

LEMMA LeastNumber ==
  ASSUME NEW S, S \subseteq Nat, S # {}
  PROVE  \E n \in S : \A m \in S : n <= m
  <1> DEFINE Less == {ss \in Nat \X Nat : ss[1] < ss[2]}
  <1>1. IsWellFoundedOn(Less, Nat)
    BY NatLessThanWellFounded, Zenon DEF OpToRel
  <1>2. PICK n \in S : \A m \in S : ~ (<<m, n>> \in Less)
    <2> HIDE DEF Less
    <2> QED
      BY <1>1, WFMin
  <1>3. ASSUME NEW m \in S PROVE n <= m
    <2>1. n \in Nat /\ m \in Nat
      OBVIOUS
    <2>2. ~ (m < n)
      BY <1>2, <2>1
    <2> QED
      BY <2>1, <2>2
  <1> QED
    BY <1>3

\* One step along the aliases al, from wherever r leads.
StepUp(al, r) ==
    [p \in Property |-> LET q == r[p] IN IF al[q] \in Property THEN al[q] ELSE q]

Climb == [p \in Property |-> p]

\* g climbs k steps.
Climbs(al, g, k) ==
    /\ g = [n \in 0..k |-> g[n]]
    /\ g[0] = Climb
    /\ \A n \in 1..k : g[n] = StepUp(al, g[n - 1])

LEMMA ClimbExists ==
  ASSUME NEW al, NEW k \in Nat PROVE \E g : Climbs(al, g, k)
  <1> DEFINE S == {n \in Nat : ~ \E g : Climbs(al, g, n)}
  <1> SUFFICES ASSUME S # {} PROVE FALSE
    OBVIOUS
  <1>1. PICK n \in S : \A m \in S : n <= m
    BY LeastNumber
  <1>2. n # 0
    <2> DEFINE g == [i \in 0..0 |-> Climb]
    <2>1. Climbs(al, g, 0)
      BY DEF Climbs
    <2> QED
      BY <2>1
  <1>3. n - 1 \in Nat /\ n - 1 \notin S
    BY <1>1, <1>2
  <1>4. PICK g : Climbs(al, g, n - 1)
    BY <1>3
  <1> DEFINE up == StepUp(al, g[n - 1])
             h == [i \in 0..n |-> IF i = n THEN up ELSE g[i]]
  <1> HIDE DEF up
  <1>5. h[0] = Climb /\ h[n] = up /\ \A i \in 0..(n - 1) : h[i] = g[i]
    BY <1>2, <1>4 DEF Climbs
  <1>6. h = [i \in 0..n |-> h[i]]
    OBVIOUS
  <1> HIDE DEF h
  <1>7. ASSUME NEW i \in 1..n PROVE h[i] = StepUp(al, h[i - 1])
    <2>1. CASE i = n
      BY <1>3, <1>5, <2>1 DEF up
    <2>2. CASE i # n
      <3>1. i \in 1..(n - 1) /\ i - 1 \in 0..(n - 1) /\ i \in 0..(n - 1)
        BY <2>2
      <3>2. g[i] = StepUp(al, g[i - 1])
        BY <1>4, <3>1 DEF Climbs
      <3> QED
        BY <1>5, <3>1, <3>2
    <2> QED
      BY <2>1, <2>2
  <1>8. Climbs(al, h, n)
    BY <1>5, <1>6, <1>7 DEF Climbs
  <1> QED
    BY <1>8

LEMMA FollowClimbs ==
  ASSUME NEW al
  PROVE  \E g : Climbs(al, g, Cardinality(Property)) /\ Follow(al) = g[Cardinality(Property)]
  <1> DEFINE N == Cardinality(Property)
             body(g) == [n \in 0..N |-> IF n = 0 THEN Climb ELSE StepUp(al, g[n - 1])]
             up == CHOOSE g : g = body(g)
  <1>1. N \in Nat
    BY FS_CardinalityType, GroupingAssumption
  <1>2. PICK g : Climbs(al, g, N)
    BY <1>1, ClimbExists
  <1> HIDE DEF N
  <1>3. g = body(g)
    <2>1. ASSUME NEW n \in 0..N PROVE g[n] = IF n = 0 THEN Climb ELSE StepUp(al, g[n - 1])
      <3>1. n = 0 \/ n \in 1..N
        BY <1>1
      <3> QED
        BY <1>2, <3>1 DEF Climbs
    <2>2. g = [n \in 0..N |-> g[n]]
      BY <1>2 DEF Climbs
    <2> QED
      BY <2>1, <2>2
  <1>4. up = body(up)
    BY <1>3
  <1>5. Follow(al) = up[N]
    BY Zenon DEF Follow, Climb, StepUp, N
  <1> HIDE DEF up
  <1>6. Climbs(al, up, N)
    BY <1>1, <1>4 DEF Climbs
  <1> QED
    BY <1>5, <1>6 DEF N

\* Wherever aliases lead, it is to a Property.
LEMMA FollowType == ASSUME NEW al PROVE Follow(al) \in [Property -> Property]
  <1> DEFINE N == Cardinality(Property)
  <1>1. N \in Nat
    BY FS_CardinalityType, GroupingAssumption
  <1>2. PICK g : Climbs(al, g, N) /\ Follow(al) = g[N]
    BY FollowClimbs
  <1> HIDE DEF N
  <1> DEFINE S == {n \in 0..N : g[n] \notin [Property -> Property]}
  <1>3. S = {}
    <2> SUFFICES ASSUME S # {} PROVE FALSE
      OBVIOUS
    <2>1. PICK n \in S : \A m \in S : n <= m
      <3>1. S \subseteq Nat
        BY <1>1
      <3> QED
        BY <3>1, LeastNumber
    <2>2. n # 0
      BY <1>2 DEF Climbs, Climb
    <2>3. n \in 1..N /\ n - 1 \in 0..N /\ n - 1 \notin S
      BY <1>1, <2>1, <2>2
    <2>4. g[n] = StepUp(al, g[n - 1]) /\ g[n - 1] \in [Property -> Property]
      BY <1>2, <2>3 DEF Climbs
    <2> QED
      BY <2>1, <2>4 DEF StepUp
  <1>4. N \in 0..N
    BY <1>1
  <1> QED
    BY <1>2, <1>3, <1>4

\* From a root aliases lead nowhere else, and from next to a root to that root.
LEMMA FollowRoots ==
  ASSUME NEW al, NEW p \in Property, NEW q \in Property,
         p = q \/ al[p] = q, al[q] \notin Property
  PROVE  Follow(al)[p] = q
  <1> DEFINE N == Cardinality(Property)
  <1>1. N \in Nat /\ N # 0
    BY FS_CardinalityType, FS_EmptySet, GroupingAssumption
  <1>2. PICK g : Climbs(al, g, N) /\ Follow(al) = g[N]
    BY FollowClimbs
  <1> HIDE DEF N
  <1> DEFINE S == {n \in 1..N : g[n][p] # q}
  <1>3. S = {}
    <2> SUFFICES ASSUME S # {} PROVE FALSE
      OBVIOUS
    <2>1. PICK n \in S : \A m \in S : n <= m
      <3>1. S \subseteq Nat
        BY <1>1
      <3> QED
        BY <3>1, LeastNumber
    <2>2. g[n] = StepUp(al, g[n - 1])
      BY <1>2, <2>1 DEF Climbs
    <2>3. CASE n = 1
      <3>1. g[n - 1] = Climb
        BY <1>2, <2>3 DEF Climbs
      <3>2. g[n][p] = IF al[p] \in Property THEN al[p] ELSE p
        BY <2>2, <3>1 DEF StepUp, Climb
      <3> QED
        BY <2>1, <3>2
    <2>4. CASE n # 1
      <3>1. n - 1 \in 1..N /\ n - 1 \notin S
        BY <1>1, <2>1, <2>4
      <3>2. g[n - 1][p] = q
        BY <3>1
      <3> QED
        BY <2>1, <2>2, <3>2 DEF StepUp
    <2> QED
      BY <2>3, <2>4
  <1>4. N \in 1..N
    BY <1>1
  <1> QED
    BY <1>2, <1>3, <1>4

-----------------------------------------------------------------------------
(* Favourites.                                                               *)

\* What a step keeps of a favourite f.
Follows(f) == <<f[1], Follow(alias')[f[2]]>> \in favorite'

LEMMA AtRootsKept ==
  ASSUME HomeInv, \A p \in Property : alias[p] = Root => alias'[p] = Root,
         NEW f \in favorite, f \in favorite'
  PROVE  Follows(f)
  <1>1. f[2] \in Property /\ alias'[f[2]] = Root /\ f = <<f[1], f[2]>>
    BY DEF HomeInv, NothingAtAliases
  <1>2. Follow(alias')[f[2]] = f[2]
    BY <1>1, FollowRoots, AliasAssumption
  <1> QED
    BY <1>1, <1>2 DEF Follows

LEMMA MergeFollows ==
  ASSUME HomeInv, NEW target \in Property, NEW duplicate \in Property, target # duplicate,
         alias[target] = Root, Merge(target, duplicate), NEW f \in favorite
  PROVE  Follows(f)
  <1>1. f[2] \in Property /\ alias[f[2]] = Root /\ f = <<f[1], f[2]>>
    BY DEF HomeInv, NothingAtAliases
  <1>2. /\ alias'[target] = Root /\ alias'[duplicate] = target
        /\ \A p \in Property \ {duplicate} : alias'[p] = alias[p]
    BY AliasAssumption DEF HomeInv, Merge
  <1>3. CASE f[2] = duplicate
    <2>1. Follow(alias')[duplicate] = target
      BY <1>2, FollowRoots, AliasAssumption
    <2>2. <<f[1], target>> \in favorite'
      BY <1>3 DEF Merge, FavoritesMerged
    <2> QED
      BY <1>3, <2>1, <2>2 DEF Follows
  <1>4. CASE f[2] # duplicate
    <2>1. Follow(alias')[f[2]] = f[2]
      BY <1>1, <1>2, <1>4, FollowRoots, AliasAssumption
    <2>2. f \in favorite'
      BY <1>4 DEF Merge, FavoritesMerged
    <2> QED
      BY <1>1, <2>1, <2>2 DEF Follows
  <1> QED
    BY <1>3, <1>4

LEMMA SeparateFollows ==
  ASSUME HomeInv, NEW c, NEW dest \in Property, NEW al, NEW g,
         al = alias \/ al = [alias EXCEPT ![dest] = Root],
         Separate(c, dest, al, g), NEW f \in favorite
  PROVE  Follows(f)
  <1>1. alias' = al /\ favorite' = favorite
    BY DEF Separate
  <1>2. \A p \in Property : alias[p] = Root => alias'[p] = Root
    BY <1>1 DEF HomeInv
  <1> QED
    BY <1>1, <1>2, AtRootsKept

LEMMA UnchangedFollows ==
  ASSUME HomeInv, UNCHANGED <<groups, favorite>>, NEW f \in favorite
  PROVE  Follows(f)
  BY AtRootsKept DEF groups

LEMMA CurationFollows ==
  ASSUME HomeInv, Curation, NEW f \in favorite
  PROVE  Follows(f)
  <1>1. CASE \E a \in Operator, pair \in Pair :
               \/ \E suggested \in BOOLEAN : ClaimMatch(a, pair, suggested)
               \/ RefreshStale(a, pair)
    BY <1>1, UnchangedFollows DEF ClaimMatch, RefreshStale
  <1>2. CASE \E a \in Operator, p \in Property, part \in SUBSET Listing : ClaimPartition(a, p, part)
    BY <1>2, UnchangedFollows DEF ClaimPartition
  <1>3. CASE \E c \in claims : ClaimExpires(c) \/ \E outcome \in {"rejected", "snoozed"} : Decide(c, outcome)
    BY <1>3, UnchangedFollows DEF ClaimExpires, Decide
  <1>4. ASSUME NEW c \in claims, NEW p \in Property, NEW q \in Property, NEW chosen \in Facts,
               p # q, Approve(c, p, q, chosen)
        PROVE  Follows(f)
    <2>1. alias[p] = Root
      BY <1>4 DEF Approve, Current, Roots
    <2>2. Merge(p, q)
      BY <1>4 DEF Approve
    <2> QED
      BY <1>4, <2>1, <2>2, MergeFollows
  <1>5. ASSUME NEW c \in claims, NEW p \in Property, NEW q \in Property,
               \/ PartitionRestore(c, p, q)
               \/ \E stated \in Facts : PartitionNew(c, p, q, stated)
               \/ PartitionExisting(c, p, q)
        PROVE  Follows(f)
    BY <1>5, SeparateFollows DEF PartitionRestore, PartitionNew, PartitionExisting
  <1> QED
    BY <1>1, <1>2, <1>3, <1>4, <1>5 DEF Curation

LEMMA StepFollows ==
  ASSUME HomeInv, Next, NEW f \in favorite
  PROVE  Follows(f) \/ \E a \in Account, p \in Property : f = <<a, p>> /\ Unsave(a, p)
  <1>1. CASE \E pair \in Pair : SnoozeEnds(pair)
    BY <1>1, UnchangedFollows DEF SnoozeEnds
  <1>2. CASE \E p \in Property, persist \in BOOLEAN : \E q \in Candidates(p) : Measure({p, q}, persist)
    BY <1>2, UnchangedFollows DEF Measure
  <1>3. CASE Curation
    BY <1>3, CurationFollows
  <1>4. CASE NewScoring
    BY <1>4, UnchangedFollows DEF NewScoring
  <1>5. CASE \E l \in Listing, p \in Property, stated \in Facts : Materialize(l, p, stated)
    BY <1>5, AtRootsKept DEF Materialize
  <1>6. ASSUME NEW a \in Account, SaveAtRoot(a) PROVE Follows(f)
    <2>1. alias' = alias /\ favorite \subseteq favorite'
      BY <1>6 DEF SaveAtRoot, groups
    <2> QED
      BY <2>1, AtRootsKept
  <1>7. CASE \E a \in Account, p \in Property : SaveFavorite(a, p)
    BY <1>7, UnchangedFollows DEF SaveFavorite
  <1>8. ASSUME NEW a \in Account, NEW p \in Property, Unsave(a, p)
        PROVE  Follows(f) \/ f = <<a, p>>
    <2>1. alias' = alias /\ favorite' = favorite \ {<<a, p>>}
      BY <1>8 DEF Unsave, groups
    <2>2. CASE f # <<a, p>>
      BY <2>1, <2>2, AtRootsKept
    <2> QED
      BY <2>2
  <1> QED
    BY <1>1, <1>2, <1>3, <1>4, <1>5, <1>6, <1>7, <1>8 DEF Next

(* Whatever is merged and separated, an account finds what it saved under the  *)
(* current root, unless it removed it itself.                                   *)
THEOREM FavoritesGoAlong == Spec => FavoritesFollow
  <1>1. HomeInv /\ [Next]_vars =>
          [\A a \in Account, p \in Property :
              <<a, p>> \in favorite =>
                <<a, Follow(alias')[p]>> \in favorite' \/ Unsave(a, p)]_vars
    <2> SUFFICES ASSUME HomeInv, Next, NEW a \in Account, NEW p \in Property, <<a, p>> \in favorite
                 PROVE  <<a, Follow(alias')[p]>> \in favorite' \/ Unsave(a, p)
      OBVIOUS
    <2>1. Follows(<<a, p>>) \/ \E b \in Account, q \in Property : <<a, p>> = <<b, q>> /\ Unsave(b, q)
      BY StepFollows
    <2>2. \A b, q : <<a, p>> = <<b, q>> => a = b /\ p = q
      OBVIOUS
    <2>3. Follows(<<a, p>>) => <<a, Follow(alias')[p]>> \in favorite'
      BY DEF Follows
    <2> QED
      BY <2>1, <2>2, <2>3, Zenon
  <1> QED
    BY HomeInit, HomeStep, <1>1, PTL DEF Spec, FavoritesFollow

-----------------------------------------------------------------------------
(* What an Operator reviews before a partition is a proper part of the Listings *)
(* as long as the review is fresh.                                               *)

FreshParts ==
    \A c \in claims, p \in Property :
        c.kind = "partition" /\ c.fresh /\ c.on = {p} =>
            c.listings \subseteq Held(home, p) /\ c.listings \notin {{}, Held(home, p)}

LEMMA FewerFresh ==
  FreshParts /\ claims' \subseteq claims /\ home' = home => FreshParts'
  BY DEF FreshParts

\* A change leaves fresh what it does not touch.
LEMMA FreshAfterChange ==
  ASSUME ClaimInv, FreshParts, NEW touched, NEW listed, NEW ended,
         claims' \subseteq ClaimsAfter(touched, listed, ended),
         \A p \in Property \ touched : Held(home', p) = Held(home, p)
  PROVE  FreshParts'
  <1> DEFINE changed(c) == IF c.kind = "match" THEN touched ELSE touched \union listed
             still(c) == c.fresh /\ c.on \intersect changed(c) = {}
  <1>1. \A e \in claims' : \E c \in claims : e = [c EXCEPT !.fresh = still(c)]
    <2>1. ClaimsAfter(touched, listed, ended) =
            {[c EXCEPT !.fresh = still(c)] : c \in {d \in claims : d.kind = "match" => d.on \notin ended}}
      BY DEF ClaimsAfter
    <2> HIDE DEF still
    <2> QED
      BY <2>1
  <1>2. ASSUME NEW e \in claims', NEW p \in Property, e.kind = "partition", e.fresh, e.on = {p}
        PROVE  e.listings \subseteq Held(home', p) /\ e.listings \notin {{}, Held(home', p)}
    <2>1. PICK c \in claims : e = [c EXCEPT !.fresh = still(c)]
      BY <1>1
    <2>2. c \in ClaimRow /\ still(c) \in BOOLEAN
      BY DEF ClaimInv
    <2>3. c.on = e.on /\ c.kind = e.kind /\ c.listings = e.listings /\ e.fresh = still(c)
      <3> HIDE DEF still
      <3> QED
        BY <2>1, <2>2, MarkedStale
    <2>4. c.fresh /\ p \notin touched
      BY <1>2, <2>3
    <2>5. c.listings \subseteq Held(home, p) /\ c.listings \notin {{}, Held(home, p)}
      BY <1>2, <2>3, <2>4 DEF FreshParts
    <2>6. Held(home', p) = Held(home, p)
      BY <2>4
    <2> QED
      BY <2>3, <2>5, <2>6
  <1> QED
    BY <1>2 DEF FreshParts

LEMMA FreshMatch ==
  ASSUME FreshParts, NEW a \in Operator, NEW pair \in Pair, NEW suggested \in BOOLEAN,
         ClaimMatch(a, pair, suggested)
  PROVE  FreshParts'
  <1> DEFINE m == MatchClaim(a, pair, suggested)
  <1>1. m.kind = "match"
    BY DEF MatchClaim
  <1>2. claims' \subseteq claims \union {m} /\ home' = home
    BY DEF ClaimMatch, groups
  <1> HIDE DEF m
  <1> QED
    BY <1>1, <1>2 DEF FreshParts

LEMMA FreshPartition ==
  ASSUME FreshParts, NEW a \in Operator, NEW p \in Property, NEW part \in SUBSET Listing,
         ClaimPartition(a, p, part)
  PROVE  FreshParts'
  <1> DEFINE m == PartitionClaim(a, p, part)
  <1>1. m.on = {p} /\ m.listings = part
    BY DEF PartitionClaim
  <1>2. claims' \subseteq claims \union {m} /\ home' = home
    BY DEF ClaimPartition, groups
  <1>3. part \subseteq Held(home, p) /\ part \notin {{}, Held(home, p)}
    BY DEF ClaimPartition
  <1> HIDE DEF m
  <1> QED
    BY <1>1, <1>2, <1>3 DEF FreshParts

LEMMA FreshRefresh ==
  ASSUME ClaimInv, FreshParts, NEW a \in Operator, NEW pair \in Pair, RefreshStale(a, pair)
  PROVE  FreshParts'
  <1> DEFINE after == Evaluated(suggestion[pair], alias, facts, home, pair, TRUE)
             told(c) == c.suggested \/ c.on = pair
  <1>1. home' = home
    BY DEF RefreshStale, groups
  <1>2. CASE after.state = "pending"
    <2>1. claims' = {[c EXCEPT !.suggested = told(c)] : c \in claims}
      BY <1>2 DEF RefreshStale
    <2>2. \A c \in claims : c \in ClaimRow /\ told(c) \in BOOLEAN
      BY DEF ClaimInv
    <2> HIDE DEF told, after
    <2>3. ASSUME NEW e \in claims'
          PROVE  \E c \in claims :
                    e.on = c.on /\ e.kind = c.kind /\ e.listings = c.listings /\ e.fresh = c.fresh
      <3>1. PICK c \in claims : e = [c EXCEPT !.suggested = told(c)]
        BY <2>1
      <3>2. e.on = c.on /\ e.kind = c.kind /\ e.listings = c.listings /\ e.fresh = c.fresh
        BY <2>2, <3>1, MarkedSuggested
      <3> QED
        BY <3>2
    <2> QED
      BY <1>1, <2>3 DEF FreshParts
  <1>3. CASE after.state # "pending"
    <2>1. claims' = ClaimsAfter({}, {}, {pair})
      BY <1>3 DEF RefreshStale
    <2> QED
      BY <1>1, <2>1, FreshAfterChange
  <1> QED
    BY <1>2, <1>3

\* The Property and the part of its Listings that a partition is about.
LEMMA PartitioningPart ==
  ASSUME FreshParts, NEW c \in claims, NEW p \in Property, Partitioning(c, p)
  PROVE  /\ alias[p] = Root
         /\ (CHOOSE q \in Property : c.on = {q}) = p
         /\ c.listings \subseteq Held(home, p) /\ c.listings # {}
         /\ \E l \in Held(home, p) : l \notin c.listings
  <1>1. c.kind = "partition" /\ c.fresh /\ c.on = {p} /\ alias[p] = Root
    BY DEF Partitioning, Current, Roots
  <1>2. \A q \in Property : c.on = {q} => q = p
    BY <1>1
  <1>3. c.listings \subseteq Held(home, p) /\ c.listings \notin {{}, Held(home, p)}
    BY <1>1 DEF FreshParts
  <1> QED
    BY <1>1, <1>2, <1>3

LEMMA FreshSeparate ==
  ASSUME ClaimInv, HomeInv, FreshParts, NEW c \in claims, NEW p \in Property, Partitioning(c, p),
         NEW dest \in Property, NEW al, NEW f, Separate(c, dest, al, f)
  PROVE  FreshParts'
  <1>1. /\ claims' \subseteq ClaimsAfter({p, dest}, {}, {{p, dest}})
        /\ home' = [l \in Listing |-> IF l \in c.listings THEN dest ELSE home[l]]
    BY PartitioningPart DEF Separate
  <1>2. \A r \in Property \ {p, dest} : Held(home', r) = Held(home, r)
    BY <1>1, PartitioningPart DEF Held, HomeInv
  <1> QED
    BY <1>1, <1>2, FreshAfterChange

LEMMA FreshCuration ==
  ASSUME HomeInv, ClaimInv, FreshParts, Curation PROVE FreshParts'
  <1>1. CASE \E a \in Operator, pair \in Pair :
               \/ \E suggested \in BOOLEAN : ClaimMatch(a, pair, suggested)
               \/ RefreshStale(a, pair)
    BY <1>1, FreshMatch, FreshRefresh
  <1>2. CASE \E a \in Operator, p \in Property, part \in SUBSET Listing : ClaimPartition(a, p, part)
    BY <1>2, FreshPartition
  <1>3. CASE \E c \in claims : ClaimExpires(c) \/ \E outcome \in {"rejected", "snoozed"} : Decide(c, outcome)
    BY <1>3, FewerFresh DEF ClaimExpires, Decide, groups
  <1>4. ASSUME NEW c \in claims, NEW p \in Property, NEW q \in Property, NEW chosen \in Facts,
               p # q, Approve(c, p, q, chosen)
        PROVE  FreshParts'
    <2>1. PICK listed, ended : claims' = ClaimsAfter({p, q}, listed, ended)
      BY <1>4 DEF Approve
    <2>2. home' = [l \in Listing |-> IF home[l] = q THEN p ELSE home[l]]
      BY <1>4 DEF Approve, Merge
    <2>3. \A r \in Property \ {p, q} : Held(home', r) = Held(home, r)
      BY <2>2 DEF Held
    <2> QED
      BY <2>1, <2>3, FreshAfterChange
  <1>5. ASSUME NEW c \in claims, NEW p \in Property, NEW q \in Property,
               \/ PartitionRestore(c, p, q)
               \/ \E stated \in Facts : PartitionNew(c, p, q, stated)
               \/ PartitionExisting(c, p, q)
        PROVE  FreshParts'
    BY <1>5, FreshSeparate DEF PartitionRestore, PartitionNew, PartitionExisting
  <1> QED
    BY <1>1, <1>2, <1>3, <1>4, <1>5 DEF Curation

LEMMA FreshStep ==
  ASSUME HomeInv, ClaimInv, FreshParts, [Next]_vars PROVE FreshParts'
  <1>1. CASE \E pair \in Pair : SnoozeEnds(pair)
    BY <1>1, FewerFresh DEF SnoozeEnds, groups
  <1>2. ASSUME NEW p, NEW persist, NEW q, Measure({p, q}, persist) PROVE FreshParts'
    <2>1. PICK listed, ended : claims' = ClaimsAfter({}, listed, ended)
      BY <1>2 DEF Measure
    <2>2. home' = home
      BY <1>2 DEF Measure, groups
    <2> QED
      BY <2>1, <2>2, FreshAfterChange
  <1>3. CASE Curation
    BY <1>3, FreshCuration
  <1>4. CASE NewScoring
    BY <1>4, FewerFresh DEF NewScoring, groups
  <1>5. ASSUME NEW l \in Listing, NEW p \in Property, NEW stated \in Facts, Materialize(l, p, stated)
        PROVE  FreshParts'
    <2>1. claims' = ClaimsAfter({p, home[l]}, {}, {}) /\ home' = [home EXCEPT ![l] = p]
      BY <1>5 DEF Materialize
    <2>2. \A r \in Property \ {p, home[l]} : Held(home', r) = Held(home, r)
      BY <2>1 DEF Held, HomeInv
    <2> QED
      BY <2>1, <2>2, FreshAfterChange
  <1>6. ASSUME NEW a \in Account, SaveAtRoot(a) PROVE FreshParts'
    <2>1. /\ claims' = claims \/ claims' = ClaimsAfter({}, {route[a]}, {})
          /\ home' = home
      BY <1>6 DEF SaveAtRoot, groups
    <2> QED
      BY <2>1, FewerFresh, FreshAfterChange
  <1>7. ASSUME NEW a \in Account, NEW p \in Property, SaveFavorite(a, p) PROVE FreshParts'
    BY <1>7, FewerFresh DEF SaveFavorite, groups
  <1>8. ASSUME NEW a \in Account, NEW p \in Property, Unsave(a, p) PROVE FreshParts'
    BY <1>8, FreshAfterChange DEF Unsave, groups
  <1>9. CASE UNCHANGED vars
    BY <1>9, FewerFresh DEF vars, groups
  <1> QED
    BY <1>1, <1>2, <1>3, <1>4, <1>5, <1>6, <1>7, <1>8, <1>9 DEF Next

-----------------------------------------------------------------------------
(* Suggestions.                                                              *)

RowTyped(s, pair, v) ==
    /\ s.state \in Reviewable \union {"none", "approved", "superseded"}
    /\ s.version \in 0..v
    /\ DOMAIN s.seen \in {{}, pair}
    /\ s.state # "none" => DOMAIN s.seen = pair

\* What a suggestion s on a pair must be among aliases al and partitions parts.
SoundRow(s, pair, al, parts, v) ==
    /\ RowShape(s)
    /\ RowTyped(s, pair, v)
    /\ s.state \in Reviewable => pair \subseteq Roots(al)
    /\ s.state = "pending" => s.seen \notin parts

RowsInv ==
    /\ scoring \in Nat
    /\ suggestion = [pair \in Pair |-> suggestion[pair]]
    /\ \A pair \in Pair : SoundRow(suggestion[pair], pair, alias, parted, scoring)

Row(a, b, c, d) == [state |-> a, seen |-> b, quiet |-> c, version |-> d]

LEMMA RowOf ==
  ASSUME NEW a, NEW b, NEW c, NEW d
  PROVE  /\ RowShape(Row(a, b, c, d)) /\ Row(a, b, c, d).state = a
         /\ Row(a, b, c, d).seen = b /\ Row(a, b, c, d).version = d
  BY DEF Row, RowShape

LEMMA RowDecided ==
  ASSUME NEW s, RowShape(s), NEW x, NEW y
  PROVE  /\ [s EXCEPT !.state = x] = Row(x, s.seen, s.quiet, s.version)
         /\ [s EXCEPT !.state = x, !.quiet = y] = Row(x, s.seen, y, s.version)
  <1> DEFINE t == [s EXCEPT !.state = x]
  <1>1. s = Row(s.state, s.seen, s.quiet, s.version)
    BY DEF RowShape, Row
  <1>2. t = Row(x, s.seen, s.quiet, s.version)
    BY <1>1 DEF Row
  <1>3. [s EXCEPT !.state = x, !.quiet = y] = [t EXCEPT !.quiet = y]
    OBVIOUS
  <1> HIDE DEF t
  <1>4. [t EXCEPT !.quiet = y] = Row(x, s.seen, y, s.version)
    BY <1>2 DEF Row
  <1> QED
    BY <1>2, <1>3, <1>4 DEF t

LEMMA RowMeasured ==
  ASSUME NEW s, RowShape(s), NEW x, NEW y
  PROVE  [s EXCEPT !.seen = x, !.version = y] = Row(s.state, x, s.quiet, y)
  <1> DEFINE t == [s EXCEPT !.seen = x]
  <1>1. s = Row(s.state, s.seen, s.quiet, s.version)
    BY DEF RowShape, Row
  <1>2. t = Row(s.state, x, s.quiet, s.version)
    BY <1>1 DEF Row
  <1>3. [s EXCEPT !.seen = x, !.version = y] = [t EXCEPT !.version = y]
    OBVIOUS
  <1> HIDE DEF t
  <1>4. [t EXCEPT !.version = y] = Row(s.state, x, s.quiet, y)
    BY <1>2 DEF Row
  <1> QED
    BY <1>2, <1>3, <1>4 DEF t

\* A measurement leaves a pair as it is or makes a sound suggestion of it.
LEMMA EvaluationSound ==
  ASSUME NEW s, RowShape(s), NEW al, NEW f, NEW h, NEW pair \in SUBSET Property, NEW persist,
         scoring \in Nat
  PROVE  \/ Evaluated(s, al, f, h, pair, persist) = s
         \/ /\ SoundRow(Evaluated(s, al, f, h, pair, persist), pair, al, parted, scoring)
            /\ Evaluated(s, al, f, h, pair, persist).state # "none"
  <1> DEFINE fp == Fingerprint(f, h, pair)
             e == Evaluated(s, al, f, h, pair, persist)
             alike == Alike(f, pair)
             m == Measured(s, fp, alike)
             row(st, q) == Row(st, fp, q, scoring)
             kept == [s EXCEPT !.seen = fp, !.version = scoring]
  <1> SUFFICES ASSUME e # s PROVE SoundRow(e, pair, al, parted, scoring) /\ e.state # "none"
    OBVIOUS
  <1>1. e = m /\ Eligible(al, h, pair)
    BY DEF Evaluated
  <1>2. \A p \in pair : al[p] = Root
    BY <1>1 DEF Eligible
  <1>3. DOMAIN fp = pair
    BY DEF Fingerprint
  <1> HIDE DEF fp, alike, e
  <1>4. \/ m = row("rejected", fp)
        \/ m = row("superseded", NoEvidence)
        \/ m = row("pending", NoEvidence) /\ fp \notin parted
        \/ m = kept /\ s.state \in {"rejected", "snoozed"}
    BY DEF Measured, KeepsQuiet, Row
  <1>5. kept = row(s.state, s.quiet)
    BY RowMeasured, Zenon
  <1> HIDE DEF kept
  <1>6. /\ RowShape(m)
        /\ m.seen = fp /\ m.version = scoring
        /\ m.state \in {"rejected", "superseded", "pending", "snoozed"}
        /\ m.state = "pending" => fp \notin parted
    <2>1. PICK st, q : /\ m = row(st, q)
                       /\ st \in {"rejected", "superseded", "pending", "snoozed"}
                       /\ st = "pending" => fp \notin parted
      <3> HIDE DEF m, row
      <3> QED
        BY <1>4, <1>5
    <2> HIDE DEF m
    <2> QED
      BY <2>1, RowOf
  <1> HIDE DEF m
  <1>7. m.state \in Reviewable \union {"none", "approved", "superseded"} /\ m.state # "none"
    BY <1>6 DEF Reviewable
  <1>8. RowTyped(m, pair, scoring)
    BY <1>3, <1>6, <1>7 DEF RowTyped
  <1>9. pair \subseteq Roots(al)
    BY <1>2 DEF Roots
  <1> QED
    BY <1>1, <1>6, <1>7, <1>8, <1>9 DEF SoundRow

LEMMA RowSound ==
  ASSUME NEW a \in Reviewable \union {"approved", "superseded"}, NEW b, NEW c, NEW v, NEW d \in 0..v,
         NEW pair, DOMAIN b = pair, NEW al, NEW parts,
         a \in Reviewable => pair \subseteq Roots(al),
         a = "pending" => b \notin parts
  PROVE  SoundRow(Row(a, b, c, d), pair, al, parts, v)
  <1> DEFINE s == Row(a, b, c, d)
  <1>1. RowShape(s) /\ s.state = a /\ s.seen = b /\ s.version = d
    BY RowOf
  <1> HIDE DEF s
  <1> QED
    BY <1>1 DEF SoundRow, RowTyped, s

LEMMA RowsUnchanged ==
  ASSUME RowsInv, UNCHANGED <<suggestion, parted>>, Roots(alias) \subseteq Roots(alias'),
         scoring' \in Nat, scoring <= scoring'
  PROVE  RowsInv'
  <1>1. 0..scoring \subseteq 0..scoring'
    BY DEF RowsInv
  <1>2. ASSUME NEW pair \in Pair PROVE SoundRow(suggestion[pair], pair, alias', parted, scoring')
    BY <1>1 DEF RowsInv, SoundRow, RowTyped
  <1> QED
    BY <1>2 DEF RowsInv

\* One pair's suggestion changes.
LEMMA RowChanged ==
  ASSUME RowsInv, NEW pair \in Pair, NEW after, suggestion' = [suggestion EXCEPT ![pair] = after],
         SoundRow(after, pair, alias', parted', scoring), UNCHANGED scoring,
         Roots(alias) \subseteq Roots(alias'),
         \A q \in Pair \ {pair} : suggestion[q].seen \in parted' => suggestion[q].seen \in parted
                                                                   \/ suggestion[q].state # "pending"
  PROVE  RowsInv'
  <1>1. ASSUME NEW q \in Pair PROVE SoundRow(suggestion'[q], q, alias', parted', scoring)
    <2>1. CASE q = pair
      <3>1. suggestion'[q] = after
        BY <2>1 DEF RowsInv
      <3> QED
        BY <2>1, <3>1
    <2>2. CASE q # pair
      <3>1. suggestion'[q] = suggestion[q]
        BY <2>2 DEF RowsInv
      <3> QED
        BY <2>2, <3>1 DEF RowsInv, SoundRow
    <2> QED
      BY <2>1, <2>2
  <1>2. suggestion' = [q \in Pair |-> suggestion'[q]]
    BY DEF RowsInv
  <1> QED
    BY <1>1, <1>2 DEF RowsInv

LEMMA EvaluatedHere ==
  ASSUME RowsInv, NEW pair \in Pair, NEW persist
  PROVE  SoundRow(Evaluated(suggestion[pair], alias, facts, home, pair, persist),
                  pair, alias, parted, scoring)
  <1>1. /\ SoundRow(suggestion[pair], pair, alias, parted, scoring)
        /\ scoring \in Nat
    BY DEF RowsInv
  <1>2. RowShape(suggestion[pair])
    BY <1>1 DEF SoundRow
  <1>3. pair \in SUBSET Property
    BY DEF Pair
  <1> HIDE DEF SoundRow
  <1> QED
    BY <1>1, <1>2, <1>3, EvaluationSound

LEMMA SnoozeEndsSound ==
  ASSUME RowsInv, NEW pair \in Pair, SnoozeEnds(pair) PROVE RowsInv'
  <1> DEFINE s == suggestion[pair]
             after == [s EXCEPT !.state = "due"]
  <1>1. s.state = "snoozed" /\ suggestion' = [suggestion EXCEPT ![pair] = after]
    BY DEF SnoozeEnds
  <1>2. SoundRow(s, pair, alias, parted, scoring) /\ RowShape(s)
    BY DEF RowsInv, SoundRow
  <1>3. after = Row("due", s.seen, s.quiet, s.version)
    BY <1>2, RowDecided, Zenon
  <1>4. UNCHANGED <<alias, parted, scoring>>
    BY DEF SnoozeEnds, groups, bounds
  <1> HIDE DEF after, s
  <1>5. SoundRow(after, pair, alias, parted, scoring)
    <2>1. /\ "due" \in Reviewable \union {"approved", "superseded"} /\ "due" # "pending"
          /\ s.version \in 0..scoring /\ DOMAIN s.seen = pair /\ pair \subseteq Roots(alias)
      BY <1>1, <1>2 DEF SoundRow, RowTyped, Reviewable
    <2> QED
      BY <1>3, <2>1, RowSound
  <1> HIDE DEF SoundRow
  <1> QED
    BY <1>1, <1>4, <1>5, RowChanged

LEMMA MeasureSound ==
  ASSUME RowsInv, NEW pair \in Pair, NEW persist, Measure(pair, persist) PROVE RowsInv'
  <1> DEFINE after == Evaluated(suggestion[pair], alias, facts, home, pair, persist)
  <1>1. suggestion' = [suggestion EXCEPT ![pair] = after] /\ UNCHANGED <<alias, parted, scoring>>
    BY DEF Measure, groups, bounds
  <1>2. SoundRow(after, pair, alias, parted, scoring)
    BY EvaluatedHere
  <1> HIDE DEF after
  <1> QED
    BY <1>1, <1>2, RowChanged

LEMMA RefreshSound ==
  ASSUME RowsInv, NEW a, NEW pair \in Pair, RefreshStale(a, pair) PROVE RowsInv'
  <1> DEFINE after == Evaluated(suggestion[pair], alias, facts, home, pair, TRUE)
  <1>1. suggestion' = [suggestion EXCEPT ![pair] = after] /\ UNCHANGED <<alias, parted, scoring>>
    BY DEF RefreshStale, groups, bounds
  <1>2. SoundRow(after, pair, alias, parted, scoring)
    BY EvaluatedHere
  <1> HIDE DEF after
  <1> QED
    BY <1>1, <1>2, RowChanged

LEMMA DecideSound ==
  ASSUME RowsInv, ClaimInv, NEW c \in claims, NEW outcome \in {"rejected", "snoozed"},
         Decide(c, outcome)
  PROVE  RowsInv'
  <1> DEFINE pair == c.on
             s == suggestion[pair]
             after == [s EXCEPT !.state = outcome, !.quiet = Now(pair)]
  <1>1. /\ suggestion' = [suggestion EXCEPT ![pair] = after]
        /\ UNCHANGED <<alias, parted, scoring>>
        /\ s.state = "pending" /\ pair \subseteq Roots(alias)
    BY DEF Decide, Decided, groups, SuggestsNow, Current
  <1>2. pair \in Pair
    BY DEF ClaimInv, Decide
  <1>3. SoundRow(s, pair, alias, parted, scoring) /\ RowShape(s)
    BY <1>2 DEF RowsInv, SoundRow
  <1>4. after = Row(outcome, s.seen, Now(pair), s.version)
    BY <1>3, RowDecided, Zenon
  <1> HIDE DEF after, s, pair
  <1>5. SoundRow(after, pair, alias, parted, scoring)
    <2>1. /\ outcome \in Reviewable \union {"approved", "superseded"} /\ outcome # "pending"
          /\ s.version \in 0..scoring /\ DOMAIN s.seen = pair
      BY <1>1, <1>3 DEF SoundRow, RowTyped, Reviewable
    <2> QED
      BY <1>1, <1>4, <2>1, RowSound
  <1> HIDE DEF SoundRow
  <1> QED
    BY <1>1, <1>2, <1>5, RowChanged

\* After a merge what is suggested is about roots, or it is superseded.
LEMMA RebasedSound ==
  ASSUME RowsInv, NEW al, NEW f, NEW h, NEW merged, NEW pair \in Pair,
         \A p \in Property \ merged : alias[p] = Root => al[p] = Root
  PROVE  SoundRow(Rebased(al, f, h, merged)[pair], pair, al, parted, scoring)
  <1> DEFINE s == suggestion[pair]
             e == Evaluated(s, al, f, h, pair, TRUE)
             r == Rebased(al, f, h, merged)[pair]
  <1>1. \/ r = e /\ Eligible(al, h, pair)
        \/ r = [s EXCEPT !.state = "superseded"] /\ s.state \in Reviewable
        \/ r = s /\ (pair \intersect merged = {} \/ s.state \notin Reviewable)
    BY DEF Rebased
  <1>2. SoundRow(s, pair, alias, parted, scoring) /\ RowShape(s) /\ scoring \in Nat
    BY DEF RowsInv, SoundRow
  <1>3. pair \subseteq Property
    BY DEF Pair
  <1> SUFFICES SoundRow(r, pair, al, parted, scoring)
    OBVIOUS
  <1> HIDE DEF r
  <1>4. CASE r = e /\ Eligible(al, h, pair)
    <2>1. e = s \/ SoundRow(e, pair, al, parted, scoring)
      BY <1>2, <1>3, EvaluationSound
    <2>2. pair \subseteq Roots(al)
      BY <1>3, <1>4 DEF Eligible, Roots
    <2>3. SoundRow(s, pair, al, parted, scoring)
      BY <1>2, <2>2 DEF SoundRow
    <2> HIDE DEF e, SoundRow
    <2> QED
      BY <1>4, <2>1, <2>3
  <1>5. CASE r = [s EXCEPT !.state = "superseded"] /\ s.state \in Reviewable
    <2>1. r = Row("superseded", s.seen, s.quiet, s.version)
      BY <1>2, <1>5, RowDecided, Zenon
    <2>2. /\ "superseded" \notin Reviewable
          /\ s.version \in 0..scoring /\ DOMAIN s.seen = pair
      BY <1>2, <1>5 DEF SoundRow, RowTyped, Reviewable
    <2>3. "superseded" \in Reviewable \union {"approved", "superseded"} /\ "superseded" # "pending"
      OBVIOUS
    <2> HIDE DEF s
    <2> QED
      BY <2>1, <2>2, <2>3, RowSound
  <1>6. CASE r = s /\ (pair \intersect merged = {} \/ s.state \notin Reviewable)
    <2>1. pair \intersect merged = {} => (pair \subseteq Roots(alias) => pair \subseteq Roots(al))
      BY <1>3 DEF Roots
    <2>2. SoundRow(s, pair, al, parted, scoring)
      BY <1>2, <1>6, <2>1 DEF SoundRow, Reviewable
    <2> QED
      BY <1>6, <2>2
  <1> QED
    BY <1>1, <1>4, <1>5, <1>6

LEMMA ApproveSound ==
  ASSUME RowsInv, HomeInv, NEW c \in claims, NEW target \in Property, NEW duplicate \in Property,
         target # duplicate, NEW chosen, Approve(c, target, duplicate, chosen)
  PROVE  RowsInv'
  <1> DEFINE pair == {target, duplicate}
             rebased == Rebased(alias', facts', home', pair)
             s == suggestion[pair]
             approved == [s EXCEPT !.state = "approved"]
  <1>1. /\ suggestion' = IF c.suggested THEN [rebased EXCEPT ![pair] = approved] ELSE rebased
        /\ UNCHANGED <<parted, scoring>>
        /\ c.suggested => s.state = "pending"
    BY DEF Approve, Decided, SuggestsNow
  <1>2. alias' = [alias EXCEPT ![duplicate] = target]
    BY DEF Approve, Merge
  <1>3. \A p \in Property \ pair : alias[p] = Root => alias'[p] = Root
    BY <1>2 DEF HomeInv
  <1>4. \A q \in Pair : SoundRow(rebased[q], q, alias', parted, scoring)
    <2> HIDE DEF SoundRow, pair
    <2> QED
      BY <1>3, RebasedSound
  <1>5. rebased = [q \in Pair |-> rebased[q]]
    BY DEF Rebased
  <1>6. pair \in Pair
    BY TwoAreAPair
  <1>7. SoundRow(s, pair, alias, parted, scoring) /\ RowShape(s)
    BY <1>6 DEF RowsInv, SoundRow
  <1>8. c.suggested => SoundRow(approved, pair, alias', parted, scoring)
    <2> SUFFICES ASSUME c.suggested PROVE SoundRow(approved, pair, alias', parted, scoring)
      OBVIOUS
    <2>1. approved = Row("approved", s.seen, s.quiet, s.version)
      BY <1>7, RowDecided, Zenon
    <2>2. /\ "approved" \notin Reviewable
          /\ s.version \in 0..scoring /\ DOMAIN s.seen = pair
      BY <1>1, <1>7 DEF SoundRow, RowTyped, Reviewable
    <2> HIDE DEF s, approved, pair
    <2> QED
      BY <2>1, <2>2, RowSound
  <1> HIDE DEF rebased, approved, pair, SoundRow
  <1>9. \A q \in Pair : \/ suggestion'[q] = rebased[q]
                        \/ c.suggested /\ q = pair /\ suggestion'[q] = approved
    BY <1>1, <1>5
  <1>10. suggestion' = [q \in Pair |-> suggestion'[q]]
    BY <1>1, <1>5
  <1>11. \A q \in Pair : SoundRow(suggestion'[q], q, alias', parted', scoring')
    BY <1>1, <1>4, <1>8, <1>9
  <1>12. scoring' \in Nat
    BY <1>1 DEF RowsInv
  <1> QED
    BY <1>10, <1>11, <1>12 DEF RowsInv

\* A partition leaves the two it separates as roots with Listings, and rejected.
LEMMA SeparateSound ==
  ASSUME RowsInv, HomeInv, FreshParts, NEW c \in claims, NEW p \in Property, Partitioning(c, p),
         NEW dest \in Property, p # dest, NEW al, NEW f,
         al = alias \/ al = [alias EXCEPT ![dest] = Root], al[dest] = Root,
         Separate(c, dest, al, f)
  PROVE  RowsInv'
  <1> DEFINE pair == {p, dest}
             s == suggestion[pair]
             h == [l \in Listing |-> IF l \in c.listings THEN dest ELSE home[l]]
             fp == Fingerprint(f, h, pair)
             after == Evaluated(s, al, f, h, pair, TRUE)
             parting == [after EXCEPT !.state = "rejected", !.quiet = after.seen]
  <1>1. /\ alias' = al /\ UNCHANGED scoring
        /\ suggestion' = [suggestion EXCEPT ![pair] = parting]
        /\ parted' = parted \union {fp}
    BY PartitioningPart DEF Separate, Decided
  <1>2. pair \in Pair /\ pair \subseteq Property
    BY TwoAreAPair
  <1>3. /\ SoundRow(s, pair, alias, parted, scoring) /\ RowShape(s)
        /\ scoring \in Nat
    BY <1>2 DEF RowsInv, SoundRow
  <1>4. /\ Roots(alias) \subseteq Roots(al)
        /\ \A q \in pair : al[q] = Root
    BY PartitioningPart DEF HomeInv, Roots
  <1>5. Eligible(al, h, pair)
    <2>0. /\ c.listings \subseteq Held(home, p) /\ c.listings # {}
          /\ \E l \in Held(home, p) : l \notin c.listings
      BY PartitioningPart
    <2>1. Held(h, dest) # {}
      <3>1. PICK l : l \in c.listings
        BY <2>0
      <3>2. l \in Held(h, dest)
        BY <2>0, <3>1 DEF Held
      <3> QED
        BY <3>2
    <2>2. Held(h, p) # {}
      <3>1. PICK l \in Held(home, p) : l \notin c.listings
        BY <2>0
      <3>2. l \in Held(h, p)
        BY <3>1 DEF Held
      <3> QED
        BY <3>2
    <2> QED
      BY <1>4, <2>1, <2>2 DEF Eligible
  <1>6. pair \subseteq Roots(al)
    BY <1>2, <1>4 DEF Roots
  <1>7. after.state # "none" /\ SoundRow(after, pair, al, parted, scoring)
    <2>1. CASE after = s
      <3>1. s.state # "none"
        <4>1. s.state # "none" \/ after = Measured(s, fp, Alike(f, pair))
          BY <1>5 DEF Evaluated, Reusable
        <4>2. Measured(s, fp, Alike(f, pair)).state = "none" => s.state \in {"rejected", "snoozed"}
          BY DEF Measured, KeepsQuiet
        <4> QED
          BY <2>1, <4>1, <4>2
      <3>2. SoundRow(s, pair, al, parted, scoring)
        BY <1>3, <1>6 DEF SoundRow
      <3> QED
        BY <2>1, <3>1, <3>2
    <2>2. CASE after # s
      BY <1>2, <1>3, <2>2, EvaluationSound
    <2> QED
      BY <2>1, <2>2
  <1>8. SoundRow(parting, pair, al, parted', scoring)
    <2> HIDE DEF after
    <2>1. parting = Row("rejected", after.seen, after.seen, after.version)
      BY <1>7, RowDecided, Zenon DEF SoundRow
    <2>2. /\ "rejected" \in Reviewable \union {"approved", "superseded"} /\ "rejected" # "pending"
          /\ after.version \in 0..scoring /\ DOMAIN after.seen = pair
      BY <1>7 DEF SoundRow, RowTyped, Reviewable
    <2> HIDE DEF parting, pair
    <2> QED
      BY <1>6, <2>1, <2>2, RowSound
  <1>9. \A q \in Pair \ {pair} : suggestion[q].seen \in parted' =>
                                    \/ suggestion[q].seen \in parted
                                    \/ suggestion[q].state # "pending"
    <2>1. DOMAIN fp = pair
      BY DEF Fingerprint
    <2>2. \A q \in Pair : suggestion[q].state = "pending" => DOMAIN suggestion[q].seen = q
      BY DEF RowsInv, SoundRow, RowTyped
    <2> HIDE DEF fp, pair
    <2> QED
      BY <1>1, <2>1, <2>2
  <1> HIDE DEF parting, pair, SoundRow
  <1> QED
    BY <1>1, <1>2, <1>4, <1>8, <1>9, RowChanged

LEMMA CurationSound ==
  ASSUME RowsInv, HomeInv, ClaimInv, FreshParts, Curation PROVE RowsInv'
  <1>1. ASSUME NEW a \in Operator, NEW pair \in Pair, RefreshStale(a, pair) PROVE RowsInv'
    BY <1>1, RefreshSound
  <1>2. CASE \/ \E a \in Operator, pair \in Pair, suggested \in BOOLEAN : ClaimMatch(a, pair, suggested)
             \/ \E a \in Operator, p \in Property, part \in SUBSET Listing : ClaimPartition(a, p, part)
             \/ \E c \in claims : ClaimExpires(c)
    <2>1. UNCHANGED <<suggestion, parted, alias, scoring>> /\ scoring \in Nat
      BY <1>2 DEF ClaimMatch, ClaimPartition, ClaimExpires, groups, bounds, RowsInv
    <2> QED
      BY <2>1, RowsUnchanged
  <1>3. CASE \E c \in claims, outcome \in {"rejected", "snoozed"} : Decide(c, outcome)
    BY <1>3, DecideSound
  <1>4. CASE \E c \in claims, p, q \in Property, chosen \in Facts : p # q /\ Approve(c, p, q, chosen)
    BY <1>4, ApproveSound
  <1>5. ASSUME NEW c \in claims, NEW p \in Property, NEW q \in Property, PartitionRestore(c, p, q)
        PROVE  RowsInv'
    <2>1. Partitioning(c, p) /\ alias[q] = p
      BY <1>5 DEF PartitionRestore, Restorable
    <2>2. p # q
      BY <2>1, PartitioningPart, AliasAssumption DEF Partitioning, Current, Roots
    <2>3. /\ [alias EXCEPT ![q] = Root][q] = Root
          /\ Separate(c, q, [alias EXCEPT ![q] = Root], facts)
      BY <1>5 DEF HomeInv, PartitionRestore
    <2> QED
      BY <2>1, <2>2, <2>3, SeparateSound
  <1>6. ASSUME NEW c \in claims, NEW p \in Property, NEW q \in Property, NEW stated \in Facts,
               PartitionNew(c, p, q, stated)
        PROVE  RowsInv'
    <2>1. Partitioning(c, p) /\ alias[q] = Unborn
      BY <1>6 DEF PartitionNew
    <2>2. p # q
      BY <2>1 DEF Partitioning, Current, Roots, Root, Unborn
    <2>3. /\ [alias EXCEPT ![q] = Root][q] = Root
          /\ Separate(c, q, [alias EXCEPT ![q] = Root], [facts EXCEPT ![q] = stated])
      BY <1>6 DEF HomeInv, PartitionNew
    <2> QED
      BY <2>1, <2>2, <2>3, SeparateSound
  <1>7. ASSUME NEW c \in claims, NEW p \in Property, NEW q \in Property, PartitionExisting(c, p, q)
        PROVE  RowsInv'
    BY <1>7, SeparateSound DEF PartitionExisting, Roots
  <1> QED
    BY <1>1, <1>2, <1>3, <1>4, <1>5, <1>6, <1>7 DEF Curation

LEMMA RowsStep ==
  ASSUME RowsInv, HomeInv, ClaimInv, FreshParts, [Next]_vars PROVE RowsInv'
  <1>1. CASE \E pair \in Pair : SnoozeEnds(pair)
    BY <1>1, SnoozeEndsSound
  <1>2. ASSUME NEW p \in Property, NEW persist \in BOOLEAN, NEW q \in Candidates(p),
               Measure({p, q}, persist)
        PROVE  RowsInv'
    <2>1. p # q /\ q \in Property
      BY DEF Candidates
    <2>2. {p, q} \in Pair
      BY <2>1, TwoAreAPair
    <2> QED
      BY <1>2, <2>2, MeasureSound
  <1>3. CASE Curation
    BY <1>3, CurationSound
  <1>4. CASE NewScoring
    <2>1. UNCHANGED <<suggestion, parted, alias>> /\ scoring \in Nat /\ scoring' = scoring + 1
      BY <1>4 DEF NewScoring, groups, RowsInv
    <2> QED
      BY <2>1, RowsUnchanged
  <1>5. CASE \/ \E l \in Listing, p \in Property, stated \in Facts : Materialize(l, p, stated)
             \/ \E a \in Account : SaveAtRoot(a) \/ \E p \in Property : SaveFavorite(a, p) \/ Unsave(a, p)
             \/ UNCHANGED vars
    <2>1. UNCHANGED <<suggestion, parted, alias, scoring>> /\ scoring \in Nat
      BY <1>5 DEF Materialize, SaveAtRoot, SaveFavorite, Unsave, groups, bounds, vars, RowsInv
    <2> QED
      BY <2>1, RowsUnchanged
  <1> QED
    BY <1>1, <1>2, <1>3, <1>4, <1>5 DEF Next

-----------------------------------------------------------------------------
(* The rest of the types, and what holds of the groups together.             *)

Existing(al) == {p \in Property : al[p] # Unborn}

RestInv ==
    /\ origin \in [Listing -> Existing(alias) \union {None}]
    /\ facts \in [Property -> Facts]
    /\ route \in [Account -> Property \union {None}]
    /\ edits \in 0..MaxEdits /\ decisions \in 0..MaxDecisions /\ scoring \in 0..MaxVersion

LEMMA RestUnchanged ==
  RestInv /\ UNCHANGED <<alias, origin, facts, route, edits, decisions, scoring>> => RestInv'
  BY DEF RestInv, Existing

LEMMA MergeRest ==
  ASSUME RestInv, HomeInv, NEW target \in Property, NEW duplicate \in Property, target # duplicate,
         alias[duplicate] = Root, Merge(target, duplicate)
  PROVE  origin' \in [Listing -> Existing(alias') \union {None}]
  <1>1. \A p \in Property : alias[p] # Unborn => alias'[p] # Unborn
    BY AliasAssumption DEF HomeInv, Merge
  <1>2. alias'[duplicate] # Unborn
    BY AliasAssumption DEF HomeInv, Merge
  <1> QED
    BY <1>1, <1>2 DEF RestInv, Existing, Merge

LEMMA SeparateRest ==
  ASSUME RestInv, HomeInv, FreshParts, NEW c \in claims, NEW p \in Property, Partitioning(c, p),
         NEW dest \in Property, NEW al, NEW f, f \in [Property -> Facts],
         al = alias \/ al = [alias EXCEPT ![dest] = Root],
         Separate(c, dest, al, f)
  PROVE  RestInv'
  <1>1. /\ alias' = al /\ facts' = f
        /\ origin' = [l \in Listing |-> IF l \in c.listings /\ origin[l] = None THEN p ELSE origin[l]]
        /\ decisions < MaxDecisions /\ decisions' = decisions + 1
        /\ UNCHANGED <<edits, scoring, route>>
    BY PartitioningPart DEF Separate, Decided
  <1>2. \A q \in Property : alias[q] # Unborn => al[q] # Unborn
    BY DEF HomeInv, Root, Unborn
  <1>3. al[p] # Unborn
    BY <1>2, PartitioningPart DEF Root, Unborn
  <1>4. origin' \in [Listing -> Existing(alias') \union {None}]
    BY <1>1, <1>2, <1>3 DEF RestInv, Existing
  <1>5. decisions' \in 0..MaxDecisions
    BY <1>1, GroupingAssumption DEF RestInv
  <1> QED
    BY <1>1, <1>4, <1>5 DEF RestInv

LEMMA CurationRest ==
  ASSUME RestInv, HomeInv, FreshParts, Curation PROVE RestInv'
  <1>1. CASE \/ \E a \in Operator, pair \in Pair :
                   \/ \E suggested \in BOOLEAN : ClaimMatch(a, pair, suggested)
                   \/ RefreshStale(a, pair)
             \/ \E a \in Operator, p \in Property, part \in SUBSET Listing : ClaimPartition(a, p, part)
             \/ \E c \in claims : ClaimExpires(c)
    BY <1>1, RestUnchanged DEF ClaimMatch, RefreshStale, ClaimPartition, ClaimExpires, groups, bounds
  <1>2. ASSUME NEW c \in claims, NEW outcome \in {"rejected", "snoozed"}, Decide(c, outcome)
        PROVE  RestInv'
    BY <1>2, GroupingAssumption DEF Decide, Decided, groups, RestInv, Existing
  <1>3. ASSUME NEW c \in claims, NEW p \in Property, NEW q \in Property, NEW chosen \in Facts,
               p # q, Approve(c, p, q, chosen)
        PROVE  RestInv'
    <2>1. /\ Merge(p, q) /\ alias[q] = Root
          /\ facts' = [facts EXCEPT ![p] = chosen]
          /\ decisions < MaxDecisions /\ decisions' = decisions + 1
          /\ UNCHANGED <<edits, scoring, route>>
      BY <1>3 DEF Approve, Decided, Current, Roots
    <2>2. origin' \in [Listing -> Existing(alias') \union {None}]
      BY <1>3, <2>1, MergeRest
    <2>3. decisions' \in 0..MaxDecisions
      BY <2>1, GroupingAssumption DEF RestInv
    <2> QED
      BY <2>1, <2>2, <2>3 DEF RestInv
  <1>4. ASSUME NEW c \in claims, NEW p \in Property, NEW q \in Property,
               \/ PartitionRestore(c, p, q)
               \/ \E stated \in Facts : PartitionNew(c, p, q, stated)
               \/ PartitionExisting(c, p, q)
        PROVE  RestInv'
    <2>1. facts \in [Property -> Facts] /\ \A stated \in Facts : [facts EXCEPT ![q] = stated] \in [Property -> Facts]
      BY DEF RestInv
    <2> QED
      BY <1>4, <2>1, SeparateRest DEF PartitionRestore, PartitionNew, PartitionExisting
  <1> QED
    BY <1>1, <1>2, <1>3, <1>4 DEF Curation

LEMMA RestStep ==
  ASSUME RestInv, HomeInv, FreshParts, [Next]_vars PROVE RestInv'
  <1>1. CASE \E pair \in Pair : SnoozeEnds(pair)
    BY <1>1, RestUnchanged DEF SnoozeEnds, groups, bounds
  <1>2. CASE \E p \in Property, persist \in BOOLEAN : \E q \in Candidates(p) : Measure({p, q}, persist)
    BY <1>2, RestUnchanged DEF Measure, groups, bounds
  <1>3. CASE Curation
    BY <1>3, CurationRest
  <1>4. CASE NewScoring
    BY <1>4, GroupingAssumption DEF NewScoring, groups, RestInv, Existing
  <1>5. ASSUME NEW l \in Listing, NEW p \in Property, NEW stated \in Facts, Materialize(l, p, stated)
        PROVE  RestInv'
    BY <1>5, GroupingAssumption DEF Materialize, RestInv, Existing
  <1>6. ASSUME NEW a \in Account,
               \/ SaveAtRoot(a)
               \/ \E p \in Property : SaveFavorite(a, p)
        PROVE  RestInv'
    <2>1. \A p \in Property : RootOf(p) \in Property
      BY FollowType DEF RootOf
    <2>2. \E r \in Property \union {None} : route' = [route EXCEPT ![a] = r]
      BY <1>6, <2>1 DEF SaveAtRoot, SaveFavorite
    <2>3. UNCHANGED <<alias, origin, facts, edits, decisions, scoring>>
      BY <1>6 DEF SaveAtRoot, SaveFavorite, groups, bounds
    <2> QED
      BY <2>2, <2>3 DEF RestInv, Existing
  <1>7. CASE \E a \in Account, p \in Property : Unsave(a, p)
    BY <1>7, RestUnchanged DEF Unsave, groups, bounds
  <1>8. CASE UNCHANGED vars
    BY <1>8, RestUnchanged DEF vars
  <1> QED
    BY <1>1, <1>2, <1>3, <1>4, <1>5, <1>6, <1>7, <1>8 DEF Next

GroupInv == HomeInv /\ ClaimInv /\ FreshParts /\ RowsInv /\ RestInv

LEMMA GroupInit == Init => GroupInv
  <1> SUFFICES ASSUME Init PROVE GroupInv
    OBVIOUS
  <1>1. HomeInv
    BY HomeInit
  <1>2. ClaimInv /\ FreshParts
    BY DEF Init, ClaimInv, OneReviewPerProperty, FreshParts
  <1>3. RestInv
    BY GroupingAssumption DEF Init, RestInv, Facts
  <1>4. RowsInv
    <2>1. \A pair \in Pair : suggestion[pair] = Row("none", NoEvidence, NoEvidence, 0)
      BY DEF Init, NoSuggestion, Row
    <2>2. scoring = 0 /\ suggestion = [pair \in Pair |-> suggestion[pair]]
      BY DEF Init
    <2>3. DOMAIN NoEvidence = {}
      BY DEF NoEvidence
    <2>4. \A pair \in Pair : /\ RowShape(suggestion[pair])
                             /\ suggestion[pair].state = "none"
                             /\ suggestion[pair].seen = NoEvidence
                             /\ suggestion[pair].version = 0
      BY <2>1, RowOf
    <2> QED
      BY <2>2, <2>3, <2>4 DEF RowsInv, SoundRow, RowTyped, Reviewable
  <1> QED
    BY <1>1, <1>2, <1>3, <1>4 DEF GroupInv

LEMMA GroupStep == GroupInv /\ [Next]_vars => GroupInv'
  BY HomeStep, ClaimStep, FreshStep, RowsStep, RestStep DEF GroupInv

LEMMA GroupTypes == GroupInv => TypeOK
  <1> SUFFICES ASSUME GroupInv PROVE TypeOK
    OBVIOUS
  <1>1. home \in [Listing -> {p \in Property : alias[p] # Unborn}]
    BY DEF GroupInv, HomeInv, NothingAtAliases, Root, Unborn
  <1>2. /\ alias \in [Property -> Property \union {Root, Unborn}]
        /\ favorite \subseteq Saved
    BY DEF GroupInv, HomeInv, Saved
  <1>3. /\ origin \in [Listing -> {p \in Property : alias[p] # Unborn} \union {None}]
        /\ facts \in [Property -> Facts]
        /\ route \in [Account -> Property \union {None}]
        /\ edits \in 0..MaxEdits /\ decisions \in 0..MaxDecisions /\ scoring \in 0..MaxVersion
    BY DEF GroupInv, RestInv, Existing
  <1>4. \A pair \in Pair : RowTyped(suggestion[pair], pair, scoring)
    BY DEF GroupInv, RowsInv, SoundRow
  <1>5. claims \subseteq ClaimRow
    BY DEF GroupInv, ClaimInv
  <1>6. ASSUME NEW c \in claims PROVE Cardinality(c.on) = IF c.kind = "match" THEN 2 ELSE 1
    <2>1. CASE c.kind = "match"
      BY <2>1 DEF GroupInv, ClaimInv, Pair
    <2>2. CASE c.kind # "match"
      <3>1. PICK p \in Property : c.on = {p}
        BY <2>2 DEF GroupInv, ClaimInv
      <3> QED
        BY <2>2, <3>1, FS_Singleton
    <2> QED
      BY <2>1, <2>2
  <1> QED
    BY <1>1, <1>2, <1>3, <1>4, <1>5, <1>6 DEF TypeOK, RowTyped

(* However Properties are measured, merged and separated by Operators at once:  *)
(* the types hold, no Property is under two reviews, what waits for an Operator  *)
(* is about two roots, no pair is suggested on the evidence of a partition, and  *)
(* favourites go where the groups go.                                            *)
THEOREM GroupsStand == Spec => GroupsAreSound
  <1>1. GroupInv => TypeOK /\ OneReviewPerProperty /\ SuggestionsAreCurrent /\ PartitionHolds
    <2>1. GroupInv => SuggestionsAreCurrent /\ PartitionHolds
      BY DEF GroupInv, RowsInv, SoundRow, SuggestionsAreCurrent, PartitionHolds
    <2>2. GroupInv => OneReviewPerProperty
      BY DEF GroupInv, ClaimInv
    <2> QED
      BY <2>1, <2>2, GroupTypes
  <1>2. Spec => [](TypeOK /\ OneReviewPerProperty /\ SuggestionsAreCurrent /\ PartitionHolds)
    BY GroupInit, GroupStep, <1>1, PTL DEF Spec
  <1> QED
    BY <1>2, FavoritesGoAlong, PTL DEF GroupsAreSound

-----------------------------------------------------------------------------
(* MatchMaintenance: the jobs that compare changed Properties again.         *)

Step == {"none", "measure", "release", "look", "again", "enter", "fence"}
WorkerRow ==
    [task : {"none", "focused", "nightly"}, step : Step, target : Nat, seen : Nat,
     token : Token \union {NoToken}, after : Nat]
PageMessage == [token : Token, after : Nat]

JobTypes ==
    /\ identity \in [Target -> Nat] /\ measured \in [Target -> Nat]
    /\ \A p \in Target : measured[p] <= identity[p]
    /\ hook \in [Hook -> [target : Target \union {0}, step : {"none", "add", "mark"}]]
    /\ \A h \in Hook : hook[h].step # "none" => hook[h].target \in Target
    /\ key \subseteq Target /\ dirty \subseteq Target
    /\ queued \in [Target -> 0..MaxQueued]
    /\ worker \in [Worker -> WorkerRow]
    /\ \A w \in Worker :
          /\ worker[w].task = "focused" =>
                worker[w].target \in Target /\ worker[w].step \in {"measure", "release", "look", "again"}
          /\ worker[w].task = "nightly" =>
                worker[w].token \in Token /\ worker[w].step \in {"enter", "fence", "measure"}
          /\ worker[w].step = "measure" =>
                worker[w].target \in Target /\ worker[w].seen <= identity[worker[w].target]
          /\ worker[w].step = "fence" => worker[w].target > 0
    /\ lock \in Token \union {NoToken}
    /\ page \subseteq PageMessage /\ processing \subseteq PageMessage /\ completed \subseteq PageMessage

LEMMA RestingRow ==
  /\ Resting \in WorkerRow /\ Resting.task = "none" /\ Resting.step = "none"
  BY DEF Resting, WorkerRow, Step, NoToken

LEMMA RowStep ==
  ASSUME NEW r \in WorkerRow, NEW s \in Step
  PROVE  LET q == [r EXCEPT !.step = s]
         IN  /\ q \in WorkerRow /\ q.step = s /\ q.task = r.task /\ q.target = r.target
             /\ q.seen = r.seen /\ q.token = r.token /\ q.after = r.after
  BY DEF WorkerRow

LEMMA RowTarget ==
  ASSUME NEW r \in WorkerRow, NEW s \in Nat
  PROVE  LET q == [r EXCEPT !.target = s]
         IN  /\ q \in WorkerRow /\ q.step = r.step /\ q.task = r.task /\ q.target = s
             /\ q.seen = r.seen /\ q.token = r.token /\ q.after = r.after
  BY DEF WorkerRow

LEMMA RowSeen ==
  ASSUME NEW r \in WorkerRow, NEW s \in Nat
  PROVE  LET q == [r EXCEPT !.seen = s]
         IN  /\ q \in WorkerRow /\ q.step = r.step /\ q.task = r.task /\ q.target = r.target
             /\ q.seen = s /\ q.token = r.token /\ q.after = r.after
  BY DEF WorkerRow

\* A worker goes on: only its row changes.
Becomes(w, r) == worker' = [worker EXCEPT ![w] = r]

LEMMA WorkerBecomes ==
  ASSUME JobTypes, NEW w \in Worker, NEW r \in WorkerRow, Becomes(w, r)
  PROVE  /\ worker' \in [Worker -> WorkerRow]
         /\ worker'[w] = r
         /\ \A v \in Worker \ {w} : worker'[v] = worker[v]
  BY DEF JobTypes, Becomes

LEMMA RestBecomes ==
  ASSUME JobTypes, NEW w \in Worker, Rest(w)
  PROVE  /\ worker' \in [Worker -> WorkerRow]
         /\ worker'[w] = Resting /\ worker'[w].task = "none" /\ worker'[w].step = "none"
         /\ \A v \in Worker \ {w} : worker'[v] = worker[v]
  BY RestingRow, WorkerBecomes DEF Rest, Becomes

-----------------------------------------------------------------------------
(* What each action does to the row of its worker.                           *)

LEMMA StepBecomes ==
  ASSUME JobTypes, NEW w \in Worker, NEW s \in Step, worker' = [worker EXCEPT ![w].step = s]
  PROVE  /\ worker' \in [Worker -> WorkerRow]
         /\ worker'[w].step = s /\ worker'[w].task = worker[w].task
         /\ worker'[w].target = worker[w].target /\ worker'[w].seen = worker[w].seen
         /\ worker'[w].token = worker[w].token /\ worker'[w].after = worker[w].after
         /\ \A v \in Worker \ {w} : worker'[v] = worker[v]
  <1> DEFINE r == [worker[w] EXCEPT !.step = s]
  <1>1. worker[w] \in WorkerRow
    BY DEF JobTypes
  <1>2. Becomes(w, r)
    BY DEF Becomes
  <1>3. /\ r \in WorkerRow /\ r.step = s /\ r.task = worker[w].task /\ r.target = worker[w].target
        /\ r.seen = worker[w].seen /\ r.token = worker[w].token /\ r.after = worker[w].after
    BY <1>1, RowStep, Zenon
  <1> HIDE DEF r
  <1> QED
    BY <1>2, <1>3, WorkerBecomes

LEMMA TargetBecomes ==
  ASSUME JobTypes, NEW w \in Worker, NEW s \in Step, NEW t \in Nat,
         worker' = [worker EXCEPT ![w].step = s, ![w].target = t]
  PROVE  /\ worker' \in [Worker -> WorkerRow]
         /\ worker'[w].step = s /\ worker'[w].task = worker[w].task
         /\ worker'[w].target = t /\ worker'[w].seen = worker[w].seen
         /\ worker'[w].token = worker[w].token /\ worker'[w].after = worker[w].after
         /\ \A v \in Worker \ {w} : worker'[v] = worker[v]
  <1> DEFINE q == [worker[w] EXCEPT !.step = s]
             r == [q EXCEPT !.target = t]
  <1>1. worker[w] \in WorkerRow
    BY DEF JobTypes
  <1>2. Becomes(w, r)
    BY DEF JobTypes, Becomes
  <1>3. /\ q \in WorkerRow /\ q.step = s /\ q.task = worker[w].task /\ q.target = worker[w].target
        /\ q.seen = worker[w].seen /\ q.token = worker[w].token /\ q.after = worker[w].after
    BY <1>1, RowStep, Zenon
  <1> HIDE DEF q
  <1>4. /\ r \in WorkerRow /\ r.step = q.step /\ r.task = q.task /\ r.target = t
        /\ r.seen = q.seen /\ r.token = q.token /\ r.after = q.after
    BY <1>3, RowTarget, Zenon
  <1> HIDE DEF r
  <1> QED
    BY <1>2, <1>3, <1>4, WorkerBecomes

LEMMA SeenBecomes ==
  ASSUME JobTypes, NEW w \in Worker, NEW s \in Step, NEW t \in Nat,
         worker' = [worker EXCEPT ![w].step = s, ![w].seen = t]
  PROVE  /\ worker' \in [Worker -> WorkerRow]
         /\ worker'[w].step = s /\ worker'[w].task = worker[w].task
         /\ worker'[w].target = worker[w].target /\ worker'[w].seen = t
         /\ worker'[w].token = worker[w].token /\ worker'[w].after = worker[w].after
         /\ \A v \in Worker \ {w} : worker'[v] = worker[v]
  <1> DEFINE q == [worker[w] EXCEPT !.step = s]
             r == [q EXCEPT !.seen = t]
  <1>1. worker[w] \in WorkerRow
    BY DEF JobTypes
  <1>2. Becomes(w, r)
    BY DEF JobTypes, Becomes
  <1>3. /\ q \in WorkerRow /\ q.step = s /\ q.task = worker[w].task /\ q.target = worker[w].target
        /\ q.seen = worker[w].seen /\ q.token = worker[w].token /\ q.after = worker[w].after
    BY <1>1, RowStep, Zenon
  <1> HIDE DEF q
  <1>4. /\ r \in WorkerRow /\ r.step = q.step /\ r.task = q.task /\ r.target = q.target
        /\ r.seen = t /\ r.token = q.token /\ r.after = q.after
    BY <1>3, RowSeen, Zenon
  <1> HIDE DEF r
  <1> QED
    BY <1>2, <1>3, <1>4, WorkerBecomes

LEMMA PageBecomes ==
  ASSUME JobTypes, NEW w \in Worker, NEW m \in PageMessage, OnPage(w, m)
  PROVE  /\ worker' \in [Worker -> WorkerRow]
         /\ worker'[w].task = "nightly" /\ worker'[w].step = "enter"
         /\ worker'[w].token = m.token /\ worker'[w].after = m.after
         /\ \A v \in Worker \ {w} : worker'[v] = worker[v]
  <1> DEFINE r == [task |-> "nightly", step |-> "enter", target |-> 0, seen |-> 0,
                   token |-> m.token, after |-> m.after]
  <1>1. Becomes(w, r)
    BY DEF OnPage, Becomes
  <1>2. r \in WorkerRow
    BY DEF WorkerRow, PageMessage, Step
  <1> QED
    BY <1>1, <1>2, WorkerBecomes

LEMMA BeginBecomes ==
  ASSUME JobTypes, NEW w \in Worker, Begin(w)
  PROVE  \E p \in Target :
           /\ worker[w] = Resting /\ queued[p] > 0
           /\ queued' = [queued EXCEPT ![p] = @ - 1]
           /\ worker' \in [Worker -> WorkerRow]
           /\ worker'[w].task = "focused" /\ worker'[w].step = "measure"
           /\ worker'[w].target = p /\ worker'[w].seen = identity[p]
           /\ \A v \in Worker \ {w} : worker'[v] = worker[v]
           /\ UNCHANGED <<identity, measured, hook, key, dirty, missed, night, faults>>
  <1>1. PICK p \in Target :
          /\ worker[w] = Resting /\ queued[p] > 0
          /\ queued' = [queued EXCEPT ![p] = @ - 1]
          /\ worker' = [worker EXCEPT ![w] = [task |-> "focused", step |-> "measure", target |-> p,
                                              seen |-> identity[p], token |-> NoToken, after |-> 0]]
          /\ UNCHANGED <<identity, measured, hook, key, dirty, missed, night, faults>>
    BY DEF Begin
  <1> DEFINE r == [task |-> "focused", step |-> "measure", target |-> p, seen |-> identity[p],
                   token |-> NoToken, after |-> 0]
  <1>2. Becomes(w, r)
    BY <1>1 DEF Becomes
  <1>3. r \in WorkerRow
    BY MaintenanceAssumption DEF WorkerRow, Step, NoToken, JobTypes
  <1> QED
    BY <1>1, <1>2, <1>3, WorkerBecomes

-----------------------------------------------------------------------------
(* Focused measurements.                                                     *)

\* Whoever holds the key of a Property still has its measurement before him.
KeyHasJob ==
    \A p \in key \ missed :
       \/ queued[p] > 0
       \/ \E w \in Worker : /\ worker[w].task = "focused" /\ worker[w].target = p
                            /\ worker[w].step \in {"measure", "release"}

FocusInv == JobTypes /\ KeyHasJob /\ ChangesAreFollowedUp

HookRow == [target : Target \union {0}, step : {"none", "add", "mark"}]

LEMMA HookBecomes ==
  ASSUME JobTypes, NEW h \in Hook, NEW r \in HookRow, r.step # "none" => r.target \in Target,
         hook' = [hook EXCEPT ![h] = r]
  PROVE  /\ hook' \in [Hook -> HookRow] /\ \A g \in Hook : hook'[g].step # "none" => hook'[g].target \in Target
         /\ hook'[h] = r /\ \A g \in Hook \ {h} : hook'[g] = hook[g]
  BY DEF JobTypes, HookRow

LEMMA NoHookRow == NoHook \in HookRow /\ NoHook.step = "none" /\ NoHook.target = 0
  BY DEF NoHook, HookRow

LEMMA HookStep ==
  ASSUME FocusInv, NEW h \in Hook,
         \/ \E p \in Target : Change(h, p)
         \/ HookSends(h) \/ HookRefused(h) \/ HookFindsKey(h) \/ HookMarks(h) \/ HookLost(h)
  PROVE  FocusInv'
  <1>0. JobTypes /\ 0 \notin Target
    BY MaintenanceAssumption DEF FocusInv
  <1>1. ASSUME NEW p \in Target, Change(h, p) PROVE FocusInv'
    <2> DEFINE r == [target |-> p, step |-> "add"]
    <2>1. r \in HookRow /\ r.target = p
      BY DEF HookRow
    <2>2. /\ hook[h] = NoHook /\ hook' = [hook EXCEPT ![h] = r]
          /\ identity' = [identity EXCEPT ![p] = @ + 1]
          /\ UNCHANGED <<measured, key, dirty, queued, worker, missed, night>>
      BY <1>1 DEF Change
    <2> HIDE DEF r
    <2>3. /\ hook' \in [Hook -> HookRow] /\ \A g \in Hook : hook'[g].step # "none" => hook'[g].target \in Target
          /\ hook'[h] = r /\ \A g \in Hook \ {h} : hook'[g] = hook[g]
      BY <1>0, <2>1, <2>2, HookBecomes
    <2>4. /\ identity' \in [Target -> Nat] /\ \A q \in Target : identity[q] <= identity'[q]
          /\ \A q \in Target \ {p} : identity'[q] = identity[q]
      BY <1>0, <2>2 DEF JobTypes
    <2>5. JobTypes'
      BY <1>0, <2>2, <2>3, <2>4 DEF JobTypes, HookRow, night, WorkerRow
    <2>6. KeyHasJob'
      BY <2>2 DEF FocusInv, KeyHasJob
    <2>7. ChangesAreFollowedUp'
      BY <1>0, <2>1, <2>2, <2>3, <2>4, NoHookRow DEF FocusInv, ChangesAreFollowedUp, FollowsUp
    <2> QED
      BY <2>5, <2>6, <2>7 DEF FocusInv
  <1>2. ASSUME HookSends(h) PROVE FocusInv'
    <2> DEFINE p == hook[h].target
    <2>1. /\ hook[h].step = "add" /\ hook' = [hook EXCEPT ![h] = NoHook]
          /\ key' = key \union {p} /\ queued[p] < MaxQueued /\ queued' = [queued EXCEPT ![p] = @ + 1]
          /\ UNCHANGED <<identity, measured, dirty, worker, missed, night>>
      BY <1>2 DEF HookSends, Sent
    <2>2. p \in Target
      BY <1>0, <2>1 DEF JobTypes
    <2>3. /\ hook' \in [Hook -> HookRow] /\ \A g \in Hook : hook'[g].step # "none" => hook'[g].target \in Target
          /\ \A g \in Hook \ {h} : hook'[g] = hook[g]
      BY <1>0, <2>1, NoHookRow, HookBecomes
    <2> HIDE DEF p
    <2>4. /\ queued' \in [Target -> 0..MaxQueued] /\ queued'[p] > 0
          /\ \A q \in Target \ {p} : queued'[q] = queued[q]
      BY <1>0, <2>1, <2>2, MaintenanceAssumption DEF JobTypes
    <2>5. JobTypes'
      BY <1>0, <2>1, <2>2, <2>3, <2>4 DEF JobTypes, HookRow, night
    <2>6. KeyHasJob'
      BY <1>0, <2>1, <2>4 DEF FocusInv, KeyHasJob, JobTypes
    <2>7. ChangesAreFollowedUp'
      BY <2>1, <2>3, <2>4 DEF FocusInv, ChangesAreFollowedUp, FollowsUp, p
    <2> QED
      BY <2>5, <2>6, <2>7 DEF FocusInv
  <1>3. ASSUME HookRefused(h) \/ HookLost(h) PROVE FocusInv'
    <2> DEFINE p == hook[h].target
    <2>1. /\ hook' = [hook EXCEPT ![h] = NoHook] /\ missed' = missed \union {p}
          /\ key' = key \/ (p \in Target /\ key' = key \union {p})
          /\ UNCHANGED <<identity, measured, dirty, queued, worker, night>>
      BY <1>0, <1>3 DEF HookRefused, HookLost, JobTypes
    <2>2. /\ hook' \in [Hook -> HookRow] /\ \A g \in Hook : hook'[g].step # "none" => hook'[g].target \in Target
          /\ \A g \in Hook \ {h} : hook'[g] = hook[g]
      BY <1>0, <2>1, NoHookRow, HookBecomes
    <2> HIDE DEF p
    <2>3. JobTypes'
      BY <1>0, <2>1, <2>2 DEF JobTypes, HookRow, night
    <2>4. KeyHasJob'
      BY <2>1 DEF FocusInv, KeyHasJob
    <2>5. ChangesAreFollowedUp'
      BY <2>1, <2>2 DEF FocusInv, ChangesAreFollowedUp, FollowsUp, p
    <2> QED
      BY <2>3, <2>4, <2>5 DEF FocusInv
  <1>4. ASSUME HookFindsKey(h) PROVE FocusInv'
    <2> DEFINE r == [target |-> hook[h].target, step |-> "mark"]
    <2>1. /\ hook[h].step = "add" /\ hook' = [hook EXCEPT ![h].step = "mark"]
          /\ UNCHANGED <<identity, measured, key, dirty, queued, worker, missed, night>>
      BY <1>4 DEF HookFindsKey
    <2>2. hook[h].target \in Target /\ hook[h] \in HookRow
      BY <1>0, <2>1 DEF JobTypes, HookRow
    <2>3. r \in HookRow /\ r.target \in Target /\ [hook[h] EXCEPT !.step = "mark"] = r
      BY <2>2 DEF HookRow
    <2>4. /\ hook' \in [Hook -> HookRow] /\ \A g \in Hook : hook'[g].step # "none" => hook'[g].target \in Target
          /\ hook'[h] = r /\ \A g \in Hook \ {h} : hook'[g] = hook[g]
      BY <1>0, <2>1, <2>3, HookBecomes
    <2>5. \A g \in Hook : hook'[g].target = hook[g].target
      BY <2>4
    <2>6. JobTypes'
      BY <1>0, <2>1, <2>4 DEF JobTypes, HookRow, night
    <2>7. KeyHasJob' /\ ChangesAreFollowedUp'
      BY <2>1, <2>5 DEF FocusInv, KeyHasJob, ChangesAreFollowedUp, FollowsUp
    <2> QED
      BY <2>6, <2>7 DEF FocusInv
  <1>5. ASSUME HookMarks(h) PROVE FocusInv'
    <2>0. PICK p : p = hook[h].target
      OBVIOUS
    <2>1. /\ hook[h].step = "mark" /\ hook' = [hook EXCEPT ![h] = NoHook]
          /\ dirty' = dirty \union {p}
          /\ missed' = IF p \in key THEN missed ELSE missed \union {p}
          /\ UNCHANGED <<identity, measured, key, queued, worker, night>>
      BY <1>5, <2>0 DEF HookMarks
    <2>2. p \in Target
      BY <1>0, <2>0, <2>1 DEF JobTypes
    <2>3. /\ hook' \in [Hook -> HookRow] /\ \A g \in Hook : hook'[g].step # "none" => hook'[g].target \in Target
          /\ \A g \in Hook \ {h} : hook'[g] = hook[g]
      BY <1>0, <2>1, NoHookRow, HookBecomes
    <2>4. JobTypes'
      BY <1>0, <2>1, <2>2, <2>3 DEF JobTypes, HookRow, night
    <2>5. KeyHasJob'
      BY <2>1 DEF FocusInv, KeyHasJob
    <2>6. p \notin missed' => FollowsUp(p)'
      BY <2>1 DEF FocusInv, KeyHasJob, FollowsUp
    <2>7. ChangesAreFollowedUp'
      BY <2>0, <2>1, <2>3, <2>6 DEF FocusInv, ChangesAreFollowedUp, FollowsUp
    <2> QED
      BY <2>4, <2>5, <2>7 DEF FocusInv
  <1> QED
    BY <1>1, <1>2, <1>3, <1>4, <1>5, Zenon

LEMMA KeyExpiresStep ==
  ASSUME FocusInv, NEW p \in Target, KeyExpires(p) PROVE FocusInv'
  <1>1. /\ key' = key \ {p} /\ dirty' = dirty \ {p} /\ missed' = missed \union {p}
        /\ UNCHANGED <<identity, measured, hook, queued, worker, night>>
    BY DEF KeyExpires
  <1>2. JobTypes'
    BY <1>1 DEF FocusInv, JobTypes, night
  <1>3. KeyHasJob'
    BY <1>1 DEF FocusInv, KeyHasJob
  <1>4. ChangesAreFollowedUp'
    BY <1>1 DEF FocusInv, ChangesAreFollowedUp, FollowsUp
  <1> QED
    BY <1>2, <1>3, <1>4 DEF FocusInv

\* What a focused measurement leaves to the nights.
NightFrame ==
    /\ UNCHANGED night
    /\ \A v \in Worker : \/ worker'[v] = worker[v]
                         \/ worker[v].task # "nightly" /\ worker'[v].task # "nightly"

LEMMA BeginStep ==
  ASSUME FocusInv, NEW w \in Worker, Begin(w) PROVE FocusInv' /\ NightFrame
  <1>0. JobTypes
    BY DEF FocusInv
  <1>1. PICK p \in Target :
          /\ worker[w] = Resting /\ queued[p] > 0
          /\ queued' = [queued EXCEPT ![p] = @ - 1]
          /\ worker' \in [Worker -> WorkerRow]
          /\ worker'[w].task = "focused" /\ worker'[w].step = "measure"
          /\ worker'[w].target = p /\ worker'[w].seen = identity[p]
          /\ \A v \in Worker \ {w} : worker'[v] = worker[v]
          /\ UNCHANGED <<identity, measured, hook, key, dirty, missed, night, faults>>
    BY <1>0, BeginBecomes
  <1>2. worker[w].task = "none"
    BY <1>1, RestingRow
  <1>3. /\ queued' \in [Target -> 0..MaxQueued]
        /\ \A q \in Target \ {p} : queued'[q] = queued[q]
    BY <1>0, <1>1, MaintenanceAssumption DEF JobTypes
  <1>4. JobTypes'
    BY <1>0, <1>1, <1>3 DEF JobTypes, night
  <1>5. KeyHasJob'
    <2>1. \A q \in key \ missed : q # p => q \in Target
      BY <1>0 DEF JobTypes
    <2> QED
      BY <1>1, <1>2, <1>3, <2>1 DEF FocusInv, KeyHasJob
  <1>6. ChangesAreFollowedUp'
    BY <1>1, <1>2, <1>3 DEF FocusInv, ChangesAreFollowedUp, FollowsUp
  <1> QED
    BY <1>1, <1>2, <1>4, <1>5, <1>6 DEF FocusInv, NightFrame

LEMMA EvaluateStep ==
  ASSUME FocusInv, NEW w \in Worker, Evaluate(w) PROVE FocusInv' /\ NightFrame
  <1>0. JobTypes
    BY DEF FocusInv
  <1>p. PICK p : p = worker[w].target
    OBVIOUS
  <1>1. /\ worker[w].task = "focused" /\ worker[w].step = "measure"
        /\ measured' = [measured EXCEPT ![p] = Larger(measured[p], worker[w].seen)]
        /\ worker' = [worker EXCEPT ![w].step = "release"]
        /\ UNCHANGED <<identity, hook, key, dirty, queued, missed, night>>
    BY <1>p DEF Evaluate, ReleaseThenLook, focus
  <1>2. /\ worker' \in [Worker -> WorkerRow]
        /\ worker'[w].step = "release" /\ worker'[w].task = "focused"
        /\ worker'[w].target = p
        /\ \A v \in Worker \ {w} : worker'[v] = worker[v]
    BY <1>0, <1>p, <1>1, StepBecomes DEF Step
  <1>3. p \in Target /\ worker[w].seen <= identity[p] /\ worker[w].seen \in Nat
    BY <1>0, <1>p, <1>1 DEF JobTypes, WorkerRow
  <1>4. /\ measured' \in [Target -> Nat] /\ \A q \in Target : measured'[q] <= identity[q]
        /\ \A q \in Target \ {p} : measured'[q] = measured[q]
        /\ measured[p] = identity[p] \/ worker[w].seen = identity[p] => measured'[p] = identity[p]
    BY <1>0, <1>1, <1>3 DEF JobTypes, Larger
  <1>5. JobTypes'
    BY <1>0, <1>1, <1>2, <1>3, <1>4 DEF JobTypes, night
  <1>6. KeyHasJob'
    BY <1>1, <1>2, <1>p DEF FocusInv, KeyHasJob
  <1>7. ChangesAreFollowedUp'
    BY <1>1, <1>2, <1>3, <1>4, <1>p DEF FocusInv, ChangesAreFollowedUp, FollowsUp
  <1> QED
    BY <1>1, <1>2, <1>5, <1>6, <1>7 DEF FocusInv, NightFrame

LEMMA FailFocusedStep ==
  ASSUME FocusInv, NEW w \in Worker, FailFocused(w) PROVE FocusInv' /\ NightFrame
  <1>0. JobTypes
    BY DEF FocusInv
  <1>p. PICK p : p = worker[w].target
    OBVIOUS
  <1>1. /\ worker[w].task = "focused" /\ worker[w].step = "measure"
        /\ missed' = missed \union {p}
        /\ worker' = [worker EXCEPT ![w].step = "release"]
        /\ UNCHANGED <<identity, measured, hook, key, dirty, queued, night>>
    BY <1>p DEF FailFocused, ReleaseThenLook
  <1>2. /\ worker' \in [Worker -> WorkerRow]
        /\ worker'[w].step = "release" /\ worker'[w].task = "focused"
        /\ worker'[w].target = p
        /\ \A v \in Worker \ {w} : worker'[v] = worker[v]
    BY <1>0, <1>p, <1>1, StepBecomes DEF Step
  <1>3. p \in Target
    BY <1>0, <1>p, <1>1 DEF JobTypes
  <1>5. JobTypes'
    BY <1>0, <1>1, <1>2, <1>3 DEF JobTypes, night
  <1>6. KeyHasJob'
    BY <1>1, <1>2, <1>p DEF FocusInv, KeyHasJob
  <1>7. ChangesAreFollowedUp'
    BY <1>1, <1>2, <1>3, <1>p DEF FocusInv, ChangesAreFollowedUp, FollowsUp
  <1> QED
    BY <1>1, <1>2, <1>5, <1>6, <1>7 DEF FocusInv, NightFrame

LEMMA ReleaseStep ==
  ASSUME FocusInv, NEW w \in Worker, Release(w) PROVE FocusInv' /\ NightFrame
  <1>0. JobTypes
    BY DEF FocusInv
  <1>p. PICK p : p = worker[w].target
    OBVIOUS
  <1>1. /\ worker[w].task = "focused" /\ worker[w].step = "release"
        /\ key' = key \ {p}
        /\ worker' = [worker EXCEPT ![w].step = "look"]
        /\ UNCHANGED <<identity, measured, hook, dirty, queued, missed, night>>
    BY <1>p DEF Release, Doing, After, ReleaseThenLook
  <1>2. /\ worker' \in [Worker -> WorkerRow]
        /\ worker'[w].step = "look" /\ worker'[w].task = "focused"
        /\ worker'[w].target = p
        /\ \A v \in Worker \ {w} : worker'[v] = worker[v]
    BY <1>0, <1>p, <1>1, StepBecomes DEF Step
  <1>3. p \in Target
    BY <1>0, <1>p, <1>1 DEF JobTypes
  <1>5. JobTypes'
    BY <1>0, <1>1, <1>2, <1>3 DEF JobTypes, night
  <1>6. KeyHasJob'
    BY <1>1, <1>2, <1>p DEF FocusInv, KeyHasJob
  <1>7. ChangesAreFollowedUp'
    BY <1>1, <1>2, <1>3, <1>p DEF FocusInv, ChangesAreFollowedUp, FollowsUp
  <1> QED
    BY <1>1, <1>2, <1>5, <1>6, <1>7 DEF FocusInv, NightFrame

LEMMA LookStep ==
  ASSUME FocusInv, NEW w \in Worker, Look(w) PROVE FocusInv' /\ NightFrame
  <1>0. JobTypes
    BY DEF FocusInv
  <1>p. PICK p : p = worker[w].target
    OBVIOUS
  <1>1. /\ worker[w].task = "focused" /\ worker[w].step = "look"
        /\ dirty' = dirty \ {p}
        /\ IF p \in dirty THEN worker' = [worker EXCEPT ![w].step = "again"] ELSE Rest(w)
        /\ UNCHANGED <<identity, measured, hook, key, queued, missed, night>>
    BY <1>p DEF Look, Doing, After, ReleaseThenLook
  <1>3. p \in Target
    BY <1>0, <1>p, <1>1 DEF JobTypes
  <1>2. /\ worker' \in [Worker -> WorkerRow]
        /\ \A v \in Worker \ {w} : worker'[v] = worker[v]
        /\ \/ /\ p \in dirty
              /\ worker'[w].step = "again" /\ worker'[w].task = "focused" /\ worker'[w].target = p
           \/ p \notin dirty /\ worker'[w].step = "none" /\ worker'[w].task = "none"
    <2>1. CASE p \in dirty
      BY <1>0, <1>p, <1>1, <2>1, StepBecomes DEF Step
    <2>2. CASE p \notin dirty
      BY <1>0, <1>1, <2>2, RestBecomes
    <2> QED
      BY <2>1, <2>2
  <1>5. JobTypes'
    BY <1>0, <1>1, <1>2, <1>3 DEF JobTypes, night
  <1>6. KeyHasJob'
    BY <1>1, <1>2, <1>p DEF FocusInv, KeyHasJob
  <1>7. ChangesAreFollowedUp'
    BY <1>1, <1>2, <1>3, <1>p DEF FocusInv, ChangesAreFollowedUp, FollowsUp
  <1> QED
    BY <1>1, <1>2, <1>5, <1>6, <1>7 DEF FocusInv, NightFrame

LEMMA AgainStep ==
  ASSUME FocusInv, NEW w \in Worker, Again(w) PROVE FocusInv' /\ NightFrame
  <1>0. JobTypes
    BY DEF FocusInv
  <1>p. PICK p : p = worker[w].target
    OBVIOUS
  <1>1. /\ worker[w].task = "focused" /\ worker[w].step = "again"
        /\ \/ /\ key' = key \union {p} /\ queued[p] < MaxQueued
              /\ queued' = [queued EXCEPT ![p] = queued[p] + 1] /\ dirty' = dirty
           \/ p \in key /\ dirty' = dirty \union {p} /\ UNCHANGED <<key, queued>>
        /\ Rest(w)
        /\ UNCHANGED <<identity, measured, hook, missed, night>>
    BY <1>p DEF Again, Sent
  <1>2. /\ worker' \in [Worker -> WorkerRow]
        /\ worker'[w].task = "none" /\ worker'[w].step = "none"
        /\ \A v \in Worker \ {w} : worker'[v] = worker[v]
    BY <1>0, <1>1, RestBecomes
  <1>3. p \in Target
    BY <1>0, <1>p, <1>1 DEF JobTypes
  <1>4. CASE /\ key' = key \union {p} /\ queued[p] < MaxQueued
             /\ queued' = [queued EXCEPT ![p] = queued[p] + 1] /\ dirty' = dirty
    <2>1. /\ queued' \in [Target -> 0..MaxQueued] /\ queued'[p] > 0
          /\ \A q \in Target \ {p} : queued'[q] = queued[q]
      BY <1>0, <1>3, <1>4, MaintenanceAssumption DEF JobTypes
    <2>2. JobTypes'
      BY <1>0, <1>1, <1>2, <1>3, <1>4, <2>1 DEF JobTypes, night
    <2>3. KeyHasJob'
      BY <1>0, <1>1, <1>2, <1>4, <2>1 DEF FocusInv, KeyHasJob, JobTypes
    <2>4. ChangesAreFollowedUp'
      BY <1>1, <1>2, <1>3, <1>4, <1>p, <2>1 DEF FocusInv, ChangesAreFollowedUp, FollowsUp
    <2> QED
      BY <1>1, <1>2, <2>2, <2>3, <2>4 DEF FocusInv, NightFrame
  <1>5. CASE p \in key /\ dirty' = dirty \union {p} /\ UNCHANGED <<key, queued>>
    <2>2. JobTypes'
      BY <1>0, <1>1, <1>2, <1>3, <1>5 DEF JobTypes, night
    <2>3. KeyHasJob'
      BY <1>1, <1>2, <1>5 DEF FocusInv, KeyHasJob
    <2>4. p \notin missed' => FollowsUp(p)'
      BY <1>1, <1>2, <1>5 DEF FocusInv, KeyHasJob, FollowsUp
    <2>5. ChangesAreFollowedUp'
      BY <1>1, <1>2, <1>3, <1>5, <1>p, <2>4 DEF FocusInv, ChangesAreFollowedUp, FollowsUp
    <2> QED
      BY <1>1, <1>2, <2>2, <2>3, <2>5 DEF FocusInv, NightFrame
  <1> QED
    BY <1>1, <1>4, <1>5

-----------------------------------------------------------------------------
(* The nights.                                                               *)

\* Who is past the door with the lock's token, and what may come in with it.
Inside == {w \in Worker : /\ worker[w].task = "nightly" /\ worker[w].step \in {"fence", "measure"}
                          /\ worker[w].token = lock}
Pending == page \union {At(v) : v \in {u \in Worker : AtNight(u, "enter")}}
Waiting == {m \in Pending : m.token = lock /\ m \notin processing \union completed}

NightInv ==
    /\ \A w \in Worker : AtNight(w, "measure") => worker[w].token = lock
    /\ \A v, w \in Inside : v = w
    /\ \A w \in Inside : At(w) \in processing /\ Waiting = {}
    /\ \A m, n \in Waiting : m = n

JobInv == FocusInv /\ NightInv

\* What a night leaves to the focused measurements.
FocusFrame ==
    /\ UNCHANGED focus
    /\ \A p \in Target : measured[p] = identity[p] => measured'[p] = identity[p]
    /\ \A v \in Worker : \/ worker'[v] = worker[v]
                         \/ worker[v].task # "focused" /\ worker'[v].task # "focused"

LEMMA NightKeepsFocus ==
  ASSUME FocusInv, JobTypes', FocusFrame PROVE FocusInv'
  <1>1. KeyHasJob'
    BY DEF FocusInv, KeyHasJob, FocusFrame, focus
  <1>2. ChangesAreFollowedUp'
    BY DEF FocusInv, FocusFrame, focus, ChangesAreFollowedUp, FollowsUp
  <1> QED
    BY <1>1, <1>2 DEF FocusInv

LEMMA FocusKeepsNight ==
  ASSUME NightInv, NightFrame PROVE NightInv'
  <1>1. /\ lock' = lock /\ page' = page /\ processing' = processing /\ completed' = completed
        /\ \A v \in Worker : \/ worker'[v] = worker[v]
                             \/ worker[v].task # "nightly" /\ worker'[v].task # "nightly"
    BY DEF NightFrame, night
  <1>2. Inside' = Inside
    BY <1>1 DEF Inside
  <1>3. \A v \in Worker : /\ AtNight(v, "enter")' <=> AtNight(v, "enter")
                          /\ AtNight(v, "measure")' <=> AtNight(v, "measure")
    BY <1>1 DEF AtNight
  <1>4. \A v \in Worker : worker[v].task = "nightly" => At(v)' = At(v) /\ worker'[v] = worker[v]
    BY <1>1 DEF At
  <1>5. Pending' = Pending
    <2>1. {At(v)' : v \in {u \in Worker : AtNight(u, "enter")'}} = {At(v) : v \in {u \in Worker : AtNight(u, "enter")}}
      BY <1>3, <1>4 DEF AtNight
    <2> QED
      BY <1>1, <2>1 DEF Pending
  <1>6. Waiting' = Waiting
    BY <1>1, <1>5 DEF Waiting
  <1> QED
    BY <1>1, <1>2, <1>3, <1>4, <1>6 DEF NightInv, AtNight, Inside

LEMMA HookNight ==
  ASSUME NEW h \in Hook,
         \/ \E p \in Target : Change(h, p)
         \/ HookSends(h) \/ HookRefused(h) \/ HookFindsKey(h) \/ HookMarks(h) \/ HookLost(h)
  PROVE  NightFrame
  BY DEF NightFrame, Change, HookSends, HookRefused, HookFindsKey, HookMarks, HookLost

\* What comes in at the door is one of the pending pages.
LEMMA PendingPages ==
  ASSUME JobTypes
  PROVE  /\ \A m \in Pending : m \in PageMessage
         /\ \A v \in Worker : worker[v].task = "nightly" =>
               /\ At(v) \in PageMessage
               /\ At(v).token = worker[v].token /\ At(v).after = worker[v].after
         /\ \A v \in Worker : AtNight(v, "enter") => At(v) \in Pending
  BY DEF JobTypes, WorkerRow, PageMessage, At, AtNight, Pending

LEMMA StartNightStep ==
  ASSUME JobInv, NEW w \in Worker, NEW t \in Token, StartNight(w, t) PROVE JobInv'
  <1>0. JobTypes /\ FocusInv /\ NightInv
    BY DEF JobInv, FocusInv
  <1> DEFINE m == [token |-> t, after |-> 0]
  <1>m. m \in PageMessage /\ m.token = t
    BY DEF PageMessage
  <1>1. /\ worker[w] = Resting /\ lock = NoToken /\ Unused(t) /\ lock' = t
        /\ completed' = {n \in completed : n.token # t}
        /\ OnPage(w, m)
        /\ UNCHANGED <<focus, measured, page, processing>>
    BY DEF StartNight
  <1> HIDE DEF m
  <1>2. /\ worker' \in [Worker -> WorkerRow]
        /\ worker'[w].task = "nightly" /\ worker'[w].step = "enter"
        /\ worker'[w].token = t
        /\ \A v \in Worker \ {w} : worker'[v] = worker[v]
    BY <1>0, <1>1, <1>m, PageBecomes
  <1>3. worker[w].task = "none"
    BY <1>1, RestingRow
  <1>4. JobTypes'
    BY <1>0, <1>1, <1>2 DEF JobTypes, focus
  <1>5. FocusFrame
    BY <1>1, <1>2, <1>3 DEF FocusFrame
  <1>6. /\ \A v \in Worker \ {w} : worker[v].task = "nightly" => worker[v].token # t
        /\ \A n \in page \union processing : n.token # t
    BY <1>1 DEF Unused, OfToken
  <1>7. \A v \in Worker : ~ AtNight(v, "measure")
    BY <1>0, <1>1, MaintenanceAssumption DEF NightInv, JobTypes, AtNight, NoToken
  <1>8. Inside' = {}
    BY <1>1, <1>2, <1>6 DEF Inside
  <1>9. \A n \in Waiting' : n = At(w)'
    <2> SUFFICES ASSUME NEW n \in Waiting' PROVE n = At(w)'
      OBVIOUS
    <2>1. n.token = t /\ n \in Pending'
      BY <1>1 DEF Waiting
    <2>2. n \notin page'
      BY <1>1, <1>6, <2>1
    <2>3. PICK v \in Worker : AtNight(v, "enter")' /\ n = At(v)'
      BY <2>1, <2>2 DEF Pending
    <2>4. worker'[v].token = t
      BY <2>1, <2>3 DEF At
    <2>5. v = w
      BY <1>2, <1>6, <2>3, <2>4 DEF AtNight
    <2> QED
      BY <2>3, <2>5
  <1>10. NightInv'
    <2>1. \A v \in Worker : ~ AtNight(v, "measure")'
      BY <1>2, <1>7 DEF AtNight
    <2> QED
      BY <1>8, <1>9, <2>1 DEF NightInv
  <1> QED
    BY <1>0, <1>4, <1>5, <1>10, NightKeepsFocus DEF JobInv

\* Nobody comes nearer to the Properties, and no page is sent.
LEMMA NightInvFewer ==
  ASSUME NightInv, lock' = lock \/ lock' = NoToken, JobTypes, JobTypes',
         lock' # lock => \A v \in Worker : ~ AtNight(v, "measure")',
         Inside' \subseteq Inside, Waiting' \subseteq Waiting,
         \A v \in Inside' : At(v)' \in processing',
         \A v \in Worker : AtNight(v, "measure")' => worker'[v].token = lock
  PROVE  NightInv'
  BY DEF NightInv

\* Without a lock nothing is inside or waits.
LEMMA NoLockNight ==
  ASSUME JobTypes', lock' = NoToken, \A v \in Worker : ~ AtNight(v, "measure")'
  PROVE  NightInv'
  <1>1. Inside' = {}
    BY MaintenanceAssumption DEF Inside, JobTypes, NoToken
  <1>2. Waiting' = {}
    <2> SUFFICES ASSUME NEW n \in Waiting' PROVE FALSE
      OBVIOUS
    <2>1. n.token = lock' /\ n \in Pending'
      BY DEF Waiting
    <2>2. CASE n \in page'
      BY <2>1, <2>2, MaintenanceAssumption DEF JobTypes, PageMessage, NoToken
    <2>3. CASE n \notin page'
      <3>1. PICK v \in Worker : AtNight(v, "enter")' /\ n = At(v)'
        BY <2>1, <2>3 DEF Pending
      <3>2. worker'[v].token \in Token /\ n.token = worker'[v].token
        BY <3>1 DEF JobTypes, AtNight, At
      <3> QED
        BY <2>1, <3>2, MaintenanceAssumption DEF NoToken
    <2> QED
      BY <2>2, <2>3
  <1> QED
    BY <1>1, <1>2 DEF NightInv

LEMMA TakePageStep ==
  ASSUME JobInv, NEW w \in Worker, TakePage(w) PROVE JobInv'
  <1>0. JobTypes /\ FocusInv /\ NightInv
    BY DEF JobInv, FocusInv
  <1>1. PICK m \in page :
          /\ worker[w] = Resting /\ page' = page \ {m}
          /\ IF lock = m.token THEN OnPage(w, m) ELSE UNCHANGED worker
          /\ UNCHANGED <<focus, measured, lock, processing, completed>>
    BY DEF TakePage
  <1>m. m \in PageMessage /\ worker[w].task = "none"
    BY <1>0, <1>1, RestingRow DEF JobTypes
  <1>2. CASE lock = m.token
    <2>1. /\ worker' \in [Worker -> WorkerRow]
          /\ worker'[w].task = "nightly" /\ worker'[w].step = "enter"
          /\ worker'[w].token = m.token /\ worker'[w].after = m.after
          /\ \A v \in Worker \ {w} : worker'[v] = worker[v]
      BY <1>0, <1>1, <1>2, <1>m, PageBecomes
    <2>2. m.token \in Token
      BY <1>m DEF PageMessage
    <2>3. JobTypes'
      BY <1>0, <1>1, <2>1, <2>2 DEF JobTypes, focus
    <2>4. FocusFrame
      BY <1>1, <1>m, <2>1 DEF FocusFrame
    <2>5. At(w)' = m
      BY <1>m, <2>1 DEF At, PageMessage
    <2>6. Pending' \subseteq Pending
      <3> SUFFICES ASSUME NEW n \in Pending' PROVE n \in Pending
        OBVIOUS
      <3>1. CASE n \in page'
        BY <1>1, <3>1 DEF Pending
      <3>2. CASE n \notin page'
        <4>1. PICK v \in Worker : AtNight(v, "enter")' /\ n = At(v)'
          BY <3>2 DEF Pending
        <4>2. CASE v = w
          BY <1>1, <2>5, <4>1, <4>2 DEF Pending
        <4>3. CASE v # w
          <5>1. AtNight(v, "enter") /\ n = At(v)
            BY <2>1, <4>1, <4>3 DEF AtNight, At
          <5> QED
            BY <5>1 DEF Pending
        <4> QED
          BY <4>2, <4>3
      <3> QED
        BY <3>1, <3>2
    <2>7. Waiting' \subseteq Waiting
      BY <1>1, <2>6 DEF Waiting
    <2>8. Inside' \subseteq Inside /\ \A v \in Inside' : v # w
      BY <1>1, <2>1 DEF Inside
    <2>9. \A v \in Inside' : At(v)' \in processing'
      BY <1>0, <1>1, <2>1, <2>8 DEF NightInv, At, Inside
    <2>10. \A v \in Worker : AtNight(v, "measure")' => worker'[v].token = lock
      BY <1>0, <2>1 DEF NightInv, AtNight
    <2>11. NightInv'
      BY <1>0, <1>1, <2>3, <2>7, <2>8, <2>9, <2>10, NightInvFewer
    <2> QED
      BY <1>0, <2>3, <2>4, <2>11, NightKeepsFocus DEF JobInv
  <1>3. CASE lock # m.token
    <2>1. JobTypes' /\ FocusFrame
      BY <1>0, <1>1, <1>3 DEF JobTypes, FocusFrame, focus
    <2>2. Pending' \subseteq Pending /\ Inside' = Inside
      BY <1>1, <1>3 DEF Pending, Inside, AtNight, At
    <2>3. Waiting' \subseteq Waiting
      BY <1>1, <2>2 DEF Waiting
    <2>4. NightInv'
      BY <1>0, <1>1, <1>3, <2>1, <2>2, <2>3, NightInvFewer DEF NightInv, AtNight, At
    <2> QED
      BY <1>0, <2>1, <2>4, NightKeepsFocus DEF JobInv
  <1> QED
    BY <1>2, <1>3

\* What a worker at the door leaves when it goes.
LEMMA DoorCloses ==
  ASSUME NEW w \in Worker, page' = page, ~ AtNight(w, "enter")',
         \A v \in Worker \ {w} : worker'[v] = worker[v]
  PROVE  Pending' \subseteq Pending
  <1> SUFFICES ASSUME NEW n \in Pending' PROVE n \in Pending
    OBVIOUS
  <1>1. CASE n \in page'
    BY <1>1 DEF Pending
  <1>2. CASE n \notin page'
    <2>1. PICK v \in Worker : AtNight(v, "enter")' /\ n = At(v)'
      BY <1>2 DEF Pending
    <2>2. v # w
      BY <2>1
    <2>3. AtNight(v, "enter") /\ n = At(v)
      BY <2>1, <2>2 DEF AtNight, At
    <2> QED
      BY <2>3 DEF Pending
  <1> QED
    BY <1>1, <1>2

\* A worker of a night rests: nobody else is nearer to the Properties.
LEMMA NightRests ==
  ASSUME JobInv, NEW w \in Worker, worker[w].task = "nightly", Rest(w),
         UNCHANGED <<focus, measured>>,
         lock' \in Token \union {NoToken}, page' \subseteq PageMessage,
         processing' \subseteq PageMessage, completed' \subseteq PageMessage
  PROVE  /\ JobTypes' /\ FocusInv'
         /\ worker'[w].task = "none"
         /\ \A v \in Worker \ {w} : worker'[v] = worker[v]
         /\ lock' = lock => Inside' = Inside \ {w}
         /\ \A v \in Worker : AtNight(v, "measure")' => worker'[v].token = lock
         /\ AtNight(w, "measure") \/ w \in Inside => \A v \in Worker : ~ AtNight(v, "measure")'
  <1>0. JobTypes /\ FocusInv /\ NightInv
    BY DEF JobInv, FocusInv
  <1>1. /\ worker' \in [Worker -> WorkerRow]
        /\ worker'[w].task = "none" /\ worker'[w].step = "none"
        /\ \A v \in Worker \ {w} : worker'[v] = worker[v]
    BY <1>0, RestBecomes
  <1>2. JobTypes'
    BY <1>0, <1>1 DEF JobTypes, focus
  <1>3. FocusInv'
    BY <1>0, <1>1, <1>2, NightKeepsFocus DEF FocusFrame
  <1>4. lock' = lock => Inside' = Inside \ {w}
    BY <1>1 DEF Inside
  <1>5. \A v \in Worker : AtNight(v, "measure")' =>
          v # w /\ AtNight(v, "measure") /\ worker'[v] = worker[v] /\ worker[v].token = lock
    BY <1>0, <1>1 DEF AtNight, NightInv
  <1>6. AtNight(w, "measure") \/ w \in Inside => \A v \in Worker : ~ AtNight(v, "measure")'
    <2>1. AtNight(w, "measure") => w \in Inside
      BY <1>0 DEF AtNight, NightInv, Inside
    <2>2. \A v \in Worker : AtNight(v, "measure") => v \in Inside
      BY <1>0 DEF AtNight, NightInv, Inside
    <2> QED
      BY <1>0, <1>5, <2>1, <2>2 DEF NightInv
  <1> QED
    BY <1>1, <1>2, <1>3, <1>4, <1>5, <1>6

LEMMA EnterStep ==
  ASSUME JobInv, NEW w \in Worker, Enter(w) PROVE JobInv'
  <1>0. JobTypes /\ FocusInv /\ NightInv
    BY DEF JobInv, FocusInv
  <1>1. /\ worker[w].task = "nightly" /\ worker[w].step = "enter"
        /\ UNCHANGED <<focus, measured, lock, page, completed>>
    BY DEF Enter, AtNight
  <1>2. At(w) \in PageMessage /\ At(w) \in Pending /\ At(w).token = worker[w].token
    BY <1>0, <1>1, PendingPages DEF AtNight
  <1>3. CASE FirstDelivery(w)
    <2>1. PICK a : a = worker[w].after + 1
      OBVIOUS
    <2>2. processing' = processing \union {At(w)} /\ a \in Nat /\ a > 0
      BY <1>0, <1>1, <1>3, <2>1 DEF Enter, JobTypes, WorkerRow
    <2>3. worker' = [worker EXCEPT ![w].step = "fence", ![w].target = a]
      BY <1>3, <2>1 DEF Enter
    <2>4. /\ worker' \in [Worker -> WorkerRow]
          /\ worker'[w].step = "fence" /\ worker'[w].task = "nightly" /\ worker'[w].target = a
          /\ worker'[w].token = worker[w].token /\ worker'[w].after = worker[w].after
          /\ \A v \in Worker \ {w} : worker'[v] = worker[v]
      BY <1>0, <1>1, <2>2, <2>3, TargetBecomes DEF Step
    <2>5. JobTypes'
      BY <1>0, <1>1, <1>2, <2>2, <2>4 DEF JobTypes, focus
    <2>6. FocusFrame
      BY <1>1, <2>4 DEF FocusFrame
    <2>7. /\ At(w)' = At(w)
          /\ \A v \in Worker \ {w} : At(v)' = At(v)
      BY <2>4 DEF At
    <2>8. Pending' \subseteq Pending
      BY <1>1, <2>4, DoorCloses DEF AtNight
    <2>9. Waiting' \subseteq Waiting \ {At(w)}
      BY <1>1, <2>2, <2>8 DEF Waiting
    <2>10. \A v \in Worker : AtNight(v, "measure")' => worker'[v].token = lock
      BY <1>0, <2>4 DEF AtNight, NightInv
    <2>11. CASE worker[w].token = lock
      <3>1. At(w) \in Waiting
        BY <1>2, <1>3, <2>11 DEF Waiting, FirstDelivery
      <3>2. Inside = {} /\ Waiting' = {}
        BY <1>0, <2>9, <3>1 DEF NightInv
      <3>3. Inside' = {w}
        BY <1>1, <2>4, <2>11, <3>2 DEF Inside
      <3>4. NightInv'
        BY <1>1, <2>2, <2>7, <2>10, <3>2, <3>3 DEF NightInv
      <3> QED
        BY <1>0, <2>5, <2>6, <3>4, NightKeepsFocus DEF JobInv
    <2>12. CASE worker[w].token # lock
      <3>1. Inside' = Inside /\ w \notin Inside
        BY <1>1, <2>4, <2>12 DEF Inside
      <3>2. \A v \in Inside' : At(v)' \in processing'
        BY <1>0, <2>2, <2>7, <3>1 DEF NightInv, Inside
      <3>3. NightInv'
        BY <1>0, <1>1, <2>5, <2>9, <2>10, <3>1, <3>2, NightInvFewer
      <3> QED
        BY <1>0, <2>5, <2>6, <3>3, NightKeepsFocus DEF JobInv
    <2> QED
      BY <2>11, <2>12
  <1>4. CASE ~ FirstDelivery(w)
    <2>1. Rest(w) /\ UNCHANGED processing
      BY <1>4 DEF Enter
    <2>2. /\ JobTypes' /\ FocusInv'
          /\ worker'[w].task = "none"
          /\ \A v \in Worker \ {w} : worker'[v] = worker[v]
          /\ Inside' = Inside \ {w}
          /\ \A v \in Worker : AtNight(v, "measure")' => worker'[v].token = lock
      BY <1>0, <1>1, <2>1, NightRests DEF JobTypes
    <2>3. Pending' \subseteq Pending
      BY <1>1, <2>2, DoorCloses DEF AtNight
    <2>4. Waiting' \subseteq Waiting
      BY <1>1, <2>1, <2>3 DEF Waiting
    <2>5. \A v \in Inside' : At(v)' \in processing'
      BY <1>0, <2>1, <2>2 DEF NightInv, At, Inside
    <2>6. NightInv'
      BY <1>0, <1>1, <2>2, <2>4, <2>5, NightInvFewer
    <2> QED
      BY <2>2, <2>6 DEF JobInv
  <1> QED
    BY <1>3, <1>4

LEMMA FenceStep ==
  ASSUME JobInv, NEW w \in Worker, Fence(w) PROVE JobInv'
  <1>0. JobTypes /\ FocusInv /\ NightInv
    BY DEF JobInv, FocusInv
  <1>1. /\ worker[w].task = "nightly" /\ worker[w].step = "fence"
        /\ worker[w].target \in Target
        /\ UNCHANGED <<focus, measured, lock, page, processing, completed>>
    BY DEF Fence, AtNight, OnThePage, night
  <1>2. CASE lock = worker[w].token
    <2>1. PICK i : i = identity[worker[w].target]
      OBVIOUS
    <2>2. i \in Nat
      BY <1>0, <1>1, <2>1 DEF JobTypes
    <2>3. worker' = [worker EXCEPT ![w].step = "measure", ![w].seen = i]
      BY <1>2, <2>1 DEF Fence
    <2>4. /\ worker' \in [Worker -> WorkerRow]
          /\ worker'[w].step = "measure" /\ worker'[w].task = "nightly"
          /\ worker'[w].target = worker[w].target /\ worker'[w].seen = i
          /\ worker'[w].token = worker[w].token /\ worker'[w].after = worker[w].after
          /\ \A v \in Worker \ {w} : worker'[v] = worker[v]
      BY <1>0, <1>1, <2>2, <2>3, SeenBecomes DEF Step
    <2>5. JobTypes'
      BY <1>0, <1>1, <2>1, <2>2, <2>4 DEF JobTypes, focus
    <2>6. FocusFrame
      BY <1>1, <2>4 DEF FocusFrame
    <2>7. \A v \in Worker : At(v)' = At(v)
      BY <2>4 DEF At
    <2>8. Pending' \subseteq Pending
      BY <1>1, <2>4, DoorCloses DEF AtNight
    <2>9. Waiting' \subseteq Waiting
      BY <1>1, <2>8 DEF Waiting
    <2>10. \A v \in Worker : AtNight(v, "measure")' => worker'[v].token = lock
      BY <1>0, <1>2, <2>4 DEF AtNight, NightInv
    <2>11. Inside' = Inside
      BY <1>1, <2>4 DEF Inside
    <2>12. \A v \in Inside' : At(v)' \in processing'
      BY <1>0, <1>1, <2>7, <2>11 DEF NightInv, Inside
    <2>13. NightInv'
      BY <1>0, <1>1, <2>5, <2>9, <2>10, <2>11, <2>12, NightInvFewer
    <2> QED
      BY <1>0, <2>5, <2>6, <2>13, NightKeepsFocus DEF JobInv
  <1>3. CASE lock # worker[w].token
    <2>1. Rest(w)
      BY <1>3 DEF Fence
    <2>2. /\ JobTypes' /\ FocusInv'
          /\ worker'[w].task = "none"
          /\ \A v \in Worker \ {w} : worker'[v] = worker[v]
          /\ Inside' = Inside \ {w}
          /\ \A v \in Worker : AtNight(v, "measure")' => worker'[v].token = lock
      BY <1>0, <1>1, <2>1, NightRests DEF JobTypes
    <2>3. Pending' \subseteq Pending
      BY <1>1, <2>2, DoorCloses DEF AtNight
    <2>4. Waiting' \subseteq Waiting
      BY <1>1, <2>3 DEF Waiting
    <2>5. \A v \in Inside' : At(v)' \in processing'
      BY <1>0, <1>1, <2>2 DEF NightInv, At, Inside
    <2>6. NightInv'
      BY <1>0, <1>1, <2>2, <2>4, <2>5, NightInvFewer
    <2> QED
      BY <2>2, <2>6 DEF JobInv
  <1> QED
    BY <1>2, <1>3

LEMMA MeasureAtNightStep ==
  ASSUME JobInv, NEW w \in Worker, MeasureAtNight(w) PROVE JobInv'
  <1>0. JobTypes /\ FocusInv /\ NightInv
    BY DEF JobInv, FocusInv
  <1>p. PICK p : p = worker[w].target
    OBVIOUS
  <1>a. PICK a : a = p + 1
    OBVIOUS
  <1>1. /\ worker[w].task = "nightly" /\ worker[w].step = "measure"
        /\ measured' = [measured EXCEPT ![p] = Larger(measured[p], worker[w].seen)]
        /\ UNCHANGED <<focus, lock, page, processing, completed>>
    BY <1>p DEF MeasureAtNight, AtNight, night
  <1>2. p \in Target /\ worker[w].seen <= identity[p] /\ worker[w].seen \in Nat /\ a \in Nat /\ a > 0
    BY <1>0, <1>p, <1>a, <1>1 DEF JobTypes, WorkerRow
  <1>3. worker' = [worker EXCEPT ![w].step = "fence", ![w].target = a]
    BY <1>0, <1>p, <1>a DEF MeasureAtNight, JobTypes, WorkerRow
  <1>4. /\ worker' \in [Worker -> WorkerRow]
        /\ worker'[w].step = "fence" /\ worker'[w].task = "nightly" /\ worker'[w].target = a
        /\ worker'[w].token = worker[w].token /\ worker'[w].after = worker[w].after
        /\ \A v \in Worker \ {w} : worker'[v] = worker[v]
    BY <1>0, <1>1, <1>2, <1>3, TargetBecomes DEF Step
  <1>5. /\ measured' \in [Target -> Nat] /\ \A q \in Target : measured'[q] <= identity[q]
        /\ \A q \in Target : measured[q] = identity[q] => measured'[q] = identity[q]
    BY <1>0, <1>1, <1>2 DEF JobTypes, Larger
  <1>6. JobTypes'
    BY <1>0, <1>1, <1>2, <1>4, <1>5 DEF JobTypes, focus
  <1>7. FocusFrame
    BY <1>1, <1>4, <1>5 DEF FocusFrame
  <1>8. \A v \in Worker : At(v)' = At(v)
    BY <1>4 DEF At
  <1>9. Pending' \subseteq Pending
    BY <1>1, <1>4, DoorCloses DEF AtNight
  <1>10. Waiting' \subseteq Waiting
    BY <1>1, <1>9 DEF Waiting
  <1>11. \A v \in Worker : AtNight(v, "measure")' => worker'[v].token = lock
    BY <1>0, <1>4 DEF AtNight, NightInv
  <1>12. Inside' = Inside
    BY <1>1, <1>4 DEF Inside
  <1>13. \A v \in Inside' : At(v)' \in processing'
    BY <1>0, <1>1, <1>8, <1>12 DEF NightInv, Inside
  <1>14. NightInv'
    BY <1>0, <1>1, <1>6, <1>10, <1>11, <1>12, <1>13, NightInvFewer
  <1> QED
    BY <1>0, <1>6, <1>7, <1>14, NightKeepsFocus DEF JobInv

LEMMA EndPageStep ==
  ASSUME JobInv, NEW w \in Worker, NEW r \in BOOLEAN, EndPage(w, r) PROVE JobInv'
  <1>0. JobTypes /\ FocusInv /\ NightInv
    BY DEF JobInv, FocusInv
  <1> DEFINE n == [token |-> worker[w].token, after |-> worker[w].target - 1]
  <1>1. /\ worker[w].task = "nightly" /\ worker[w].step = "fence" /\ Rest(w)
        /\ UNCHANGED <<focus, measured>>
        /\ \/ lock # worker[w].token /\ UNCHANGED <<lock, page, processing, completed>>
           \/ /\ lock = worker[w].token
              /\ completed' = completed \union {At(w)}
              /\ processing' = processing \ {At(w)}
              /\ \/ page' = page \union {n} /\ lock' = lock
                 \/ lock' = NoToken /\ page' = page
    BY DEF EndPage, AtNight, night
  <1>2. worker[w].token \in Token /\ n \in PageMessage /\ At(w) \in PageMessage
    BY <1>0, <1>1, PendingPages DEF JobTypes, WorkerRow, PageMessage
  <1>3. /\ n.token = worker[w].token
    OBVIOUS
  <1> HIDE DEF n
  <1>4. /\ lock' \in Token \union {NoToken} /\ page' \subseteq PageMessage
        /\ processing' \subseteq PageMessage /\ completed' \subseteq PageMessage
    BY <1>0, <1>1, <1>2 DEF JobTypes
  <1>5. /\ JobTypes' /\ FocusInv'
        /\ worker'[w].task = "none"
        /\ \A v \in Worker \ {w} : worker'[v] = worker[v]
        /\ lock' = lock => Inside' = Inside \ {w}
        /\ \A v \in Worker : AtNight(v, "measure")' => worker'[v].token = lock
        /\ AtNight(w, "measure") \/ w \in Inside => \A v \in Worker : ~ AtNight(v, "measure")'
    BY <1>0, <1>1, <1>4, NightRests
  <1>6. CASE lock # worker[w].token
    <2>1. UNCHANGED <<lock, page, processing, completed>>
      BY <1>1, <1>6
    <2>2. Pending' \subseteq Pending
      BY <1>5, <2>1, DoorCloses DEF AtNight
    <2>3. Waiting' \subseteq Waiting
      BY <2>1, <2>2 DEF Waiting
    <2>4. \A v \in Inside' : At(v)' \in processing'
      BY <1>0, <1>5, <2>1 DEF NightInv, At, Inside
    <2>5. NightInv'
      BY <1>0, <1>5, <2>1, <2>3, <2>4, NightInvFewer
    <2> QED
      BY <1>5, <2>5 DEF JobInv
  <1>7. CASE lock = worker[w].token
    <2>1. w \in Inside
      BY <1>1, <1>7 DEF Inside
    <2>2. \A v \in Worker : ~ AtNight(v, "measure")'
      BY <1>5, <2>1
    <2>3. CASE lock' = NoToken
      BY <1>5, <2>2, <2>3, NoLockNight DEF JobInv
    <2>4. CASE page' = page \union {n} /\ lock' = lock
      <3>1. Inside' = {} /\ Waiting = {}
        BY <1>0, <1>5, <2>1, <2>4 DEF NightInv
      <3>2. \A m \in Pending' : m = n \/ m \in Pending
        <4> SUFFICES ASSUME NEW m \in Pending', m \notin page' PROVE m \in Pending
          BY <2>4 DEF Pending
        <4>1. PICK v \in Worker : AtNight(v, "enter")' /\ m = At(v)'
          BY DEF Pending
        <4>2. v # w
          BY <1>5, <4>1 DEF AtNight
        <4>3. AtNight(v, "enter") /\ m = At(v)
          BY <1>5, <4>1, <4>2 DEF AtNight, At
        <4> QED
          BY <4>3 DEF Pending
      <3>3. processing \union completed \subseteq processing' \union completed'
        BY <1>1, <1>7
      <3>4. \A m \in Waiting' : m = n
        BY <2>4, <3>1, <3>2, <3>3 DEF Waiting
      <3>5. NightInv'
        BY <2>2, <3>1, <3>4 DEF NightInv
      <3> QED
        BY <1>5, <3>5 DEF JobInv
    <2> QED
      BY <1>1, <1>7, <2>3, <2>4
  <1> QED
    BY <1>6, <1>7

LEMMA FailPageStep ==
  ASSUME JobInv, NEW w \in Worker, FailPage(w) PROVE JobInv'
  <1>0. JobTypes /\ FocusInv /\ NightInv
    BY DEF JobInv, FocusInv
  <1>1. /\ AtNight(w, "measure") /\ worker[w].task = "nightly"
        /\ processing' = processing \ {At(w)} /\ Rest(w)
        /\ lock' = IF lock = worker[w].token THEN NoToken ELSE lock
        /\ UNCHANGED <<focus, measured, page, completed>>
    BY DEF FailPage, AtNight
  <1>2. lock' = NoToken
    BY <1>0, <1>1 DEF NightInv
  <1>3. JobTypes' /\ FocusInv' /\ \A v \in Worker : ~ AtNight(v, "measure")'
    BY <1>0, <1>1, <1>2, NightRests DEF JobTypes
  <1> QED
    BY <1>2, <1>3, NoLockNight DEF JobInv

LEMMA LoseWorkerStep ==
  ASSUME JobInv, NEW w \in Worker, LoseWorker(w) PROVE JobInv'
  <1>0. JobTypes /\ FocusInv /\ NightInv
    BY DEF JobInv, FocusInv
  <1>1. /\ Rest(w)
        /\ UNCHANGED <<identity, measured, hook, key, dirty, missed, lock, processing, completed>>
    BY DEF LoseWorker
  <1>2. CASE /\ worker[w].task = "focused" /\ queued[worker[w].target] < MaxQueued
             /\ queued' = [queued EXCEPT ![worker[w].target] = queued[worker[w].target] + 1]
             /\ UNCHANGED page
    <2>p. PICK p : p = worker[w].target
      OBVIOUS
    <2>1. p \in Target
      BY <1>0, <1>2, <2>p DEF JobTypes
    <2>2. /\ worker' \in [Worker -> WorkerRow]
          /\ worker'[w].task = "none" /\ worker'[w].step = "none"
          /\ \A v \in Worker \ {w} : worker'[v] = worker[v]
      BY <1>0, <1>1, RestBecomes
    <2>3. /\ queued' \in [Target -> 0..MaxQueued] /\ queued'[p] > 0
          /\ \A q \in Target \ {p} : queued'[q] = queued[q]
      BY <1>0, <1>2, <2>p, <2>1, MaintenanceAssumption DEF JobTypes
    <2>4. JobTypes'
      BY <1>0, <1>1, <1>2, <2>2, <2>3 DEF JobTypes
    <2>5. KeyHasJob'
      BY <1>0, <1>1, <2>p, <2>2, <2>3 DEF FocusInv, KeyHasJob, JobTypes
    <2>f. ASSUME NEW q \in Target, FollowsUp(q) PROVE FollowsUp(q)'
      <3>1. CASE q = p
        BY <2>3, <3>1 DEF FollowsUp
      <3>2. CASE q # p
        BY <1>1, <2>p, <2>2, <2>3, <2>f, <3>2 DEF FollowsUp
      <3> QED
        BY <3>1, <3>2
    <2>6. ChangesAreFollowedUp'
      BY <1>0, <1>1, <2>f DEF FocusInv, ChangesAreFollowedUp, LoseWorker
    <2>7. NightFrame
      BY <1>1, <1>2, <2>2 DEF NightFrame, night
    <2> QED
      BY <1>0, <2>4, <2>5, <2>6, <2>7, FocusKeepsNight DEF JobInv, FocusInv
  <1>3. CASE /\ worker[w].task = "nightly" /\ UNCHANGED queued
             /\ page' = page \/ page' = page \union {At(w)}
    <2>1. At(w) \in PageMessage /\ At(w).token = worker[w].token /\ (AtNight(w, "enter") => At(w) \in Pending)
      BY <1>0, <1>3, PendingPages
    <2>2. /\ page' \subseteq PageMessage /\ UNCHANGED focus
          /\ lock' \in Token \union {NoToken} /\ processing' \subseteq PageMessage
          /\ completed' \subseteq PageMessage
      BY <1>0, <1>1, <1>3, <2>1 DEF JobTypes, focus
    <2>3. /\ JobTypes' /\ FocusInv'
          /\ worker'[w].task = "none"
          /\ \A v \in Worker \ {w} : worker'[v] = worker[v]
          /\ Inside' = Inside \ {w}
          /\ \A v \in Worker : AtNight(v, "measure")' => worker'[v].token = lock
      BY <1>0, <1>1, <1>3, <2>2, NightRests
    <2>4. \A m \in Pending' : m = At(w) \/ m \in Pending
      <3> SUFFICES ASSUME NEW m \in Pending', m # At(w) PROVE m \in Pending
        OBVIOUS
      <3>1. CASE m \in page'
        BY <1>3, <3>1 DEF Pending
      <3>2. CASE m \notin page'
        <4>1. PICK v \in Worker : AtNight(v, "enter")' /\ m = At(v)'
          BY <3>2 DEF Pending
        <4>2. v # w
          BY <2>3, <4>1 DEF AtNight
        <4>3. AtNight(v, "enter") /\ m = At(v)
          BY <2>3, <4>1, <4>2 DEF AtNight, At
        <4> QED
          BY <4>3 DEF Pending
      <3> QED
        BY <3>1, <3>2
    <2>5. At(w) \in Pending \/ At(w) \in processing \/ At(w).token # lock
      <3>1. CASE AtNight(w, "enter")
        BY <2>1, <3>1
      <3>2. CASE worker[w].step \in {"fence", "measure"}
        BY <1>0, <1>3, <2>1, <3>2 DEF NightInv, Inside
      <3> QED
        BY <1>0, <1>3, <3>1, <3>2 DEF JobTypes, AtNight
    <2>6. Waiting' \subseteq Waiting
      BY <1>1, <2>4, <2>5 DEF Waiting
    <2>7. \A v \in Inside' : At(v)' \in processing'
      BY <1>0, <1>1, <2>3 DEF NightInv, At, Inside
    <2>8. NightInv'
      BY <1>0, <1>1, <2>3, <2>6, <2>7, NightInvFewer
    <2> QED
      BY <2>3, <2>8 DEF JobInv
  <1> QED
    BY <1>2, <1>3 DEF LoseWorker

LEMMA RepeatPageStep ==
  ASSUME JobInv, NEW w \in Worker, RepeatPage(w) PROVE JobInv'
  <1>0. JobTypes /\ FocusInv /\ NightInv
    BY DEF JobInv, FocusInv
  <1>1. /\ worker[w].task = "nightly" /\ page' = page \union {At(w)}
        /\ UNCHANGED <<focus, measured, worker, lock, processing, completed>>
    BY DEF RepeatPage
  <1>2. At(w) \in PageMessage /\ At(w).token = worker[w].token /\ (AtNight(w, "enter") => At(w) \in Pending)
    BY <1>0, <1>1, PendingPages
  <1>3. JobTypes'
    BY <1>0, <1>1, <1>2 DEF JobTypes, focus
  <1>4. FocusFrame
    BY <1>1 DEF FocusFrame
  <1>5. /\ \A v \in Worker : /\ AtNight(v, "enter")' <=> AtNight(v, "enter")
                             /\ AtNight(v, "measure")' <=> AtNight(v, "measure")
                             /\ At(v)' = At(v)
        /\ Inside' = Inside
    BY <1>1 DEF AtNight, At, Inside
  <1>6. At(w) \in Pending \/ At(w) \in processing \/ At(w).token # lock
    <2>1. CASE AtNight(w, "enter")
      BY <1>2, <2>1
    <2>2. CASE worker[w].step \in {"fence", "measure"}
      BY <1>0, <1>1, <1>2, <2>2 DEF NightInv, Inside
    <2> QED
      BY <1>0, <1>1, <2>1, <2>2 DEF JobTypes, AtNight
  <1>7. \A m \in Pending' : m = At(w) \/ m \in Pending
    BY <1>1, <1>5 DEF Pending
  <1>8. Waiting' \subseteq Waiting
    BY <1>1, <1>6, <1>7 DEF Waiting
  <1>9. \A v \in Inside' : At(v)' \in processing'
    <2>1. \A v \in Inside : v \in Worker /\ At(v) \in processing
      BY <1>0 DEF NightInv, Inside
    <2> QED
      BY <1>1, <1>5, <2>1
  <1>10. \A v \in Worker : AtNight(v, "measure")' => worker'[v].token = lock
    BY <1>0, <1>1, <1>5 DEF NightInv
  <1>11. NightInv'
    BY <1>0, <1>1, <1>3, <1>5, <1>8, <1>9, <1>10, NightInvFewer
  <1> QED
    BY <1>0, <1>3, <1>4, <1>11, NightKeepsFocus DEF JobInv

LEMMA LapseStep ==
  ASSUME JobInv, LockLapses \/ AbandonedEnds PROVE JobInv'
  <1>0. JobTypes /\ FocusInv /\ NightInv
    BY DEF JobInv, FocusInv
  <1>1. /\ lock' = NoToken /\ processing' = {m \in processing : m.token # lock}
        /\ UNCHANGED <<focus, measured, worker, page, completed>>
        /\ \A v \in Worker : worker[v].task = "nightly" /\ worker[v].token = lock => worker[v].step = "enter"
    BY DEF LockLapses, AbandonedEnds, Lapse, OfToken
  <1>2. JobTypes'
    BY <1>0, <1>1 DEF JobTypes, focus
  <1>3. FocusFrame
    BY <1>1 DEF FocusFrame
  <1>4. \A v \in Worker : ~ AtNight(v, "measure")'
    BY <1>0, <1>1 DEF NightInv, AtNight
  <1>5. NightInv'
    BY <1>1, <1>2, <1>4, NoLockNight
  <1> QED
    BY <1>0, <1>2, <1>3, <1>5, NightKeepsFocus DEF JobInv

LEMMA PageKeysEndStep ==
  ASSUME JobInv, PageKeysEnd PROVE JobInv'
  <1>0. JobTypes /\ FocusInv /\ NightInv
    BY DEF JobInv, FocusInv
  <1>1. PICK m \in processing :
          /\ m.token # lock /\ processing' = processing \ {m}
          /\ UNCHANGED <<focus, measured, worker, lock, page, completed>>
    BY DEF PageKeysEnd
  <1>2. JobTypes'
    BY <1>0, <1>1 DEF JobTypes, focus
  <1>3. FocusFrame
    BY <1>1 DEF FocusFrame
  <1>5. /\ \A v \in Worker : /\ AtNight(v, "enter")' <=> AtNight(v, "enter")
                             /\ AtNight(v, "measure")' <=> AtNight(v, "measure")
                             /\ At(v)' = At(v)
        /\ Inside' = Inside
    BY <1>1 DEF AtNight, At, Inside
  <1>6. Pending' = Pending
    BY <1>1, <1>5 DEF Pending
  <1>7. Waiting' \subseteq Waiting
    BY <1>1, <1>6 DEF Waiting
  <1>8. \A v \in Inside' : At(v)' \in processing'
    <2>1. \A v \in Inside : v \in Worker /\ At(v).token = lock /\ At(v) \in processing
      BY <1>0 DEF NightInv, Inside, At
    <2> QED
      BY <1>1, <1>5, <2>1
  <1>9. \A v \in Worker : AtNight(v, "measure")' => worker'[v].token = lock
    BY <1>0, <1>1, <1>5 DEF NightInv
  <1>10. NightInv'
    BY <1>0, <1>1, <1>2, <1>5, <1>7, <1>8, <1>9, NightInvFewer
  <1> QED
    BY <1>0, <1>2, <1>3, <1>10, NightKeepsFocus DEF JobInv

-----------------------------------------------------------------------------

LEMMA JobStart == MaintenanceInit => JobInv
  <1> SUFFICES ASSUME MaintenanceInit PROVE JobInv
    OBVIOUS
  <1>1. JobTypes
    BY RestingRow, NoHookRow, MaintenanceAssumption
       DEF MaintenanceInit, JobTypes, HookRow
  <1>2. KeyHasJob /\ ChangesAreFollowedUp
    BY DEF MaintenanceInit, KeyHasJob, ChangesAreFollowedUp
  <1>3. NightInv
    <2>1. \A v \in Worker : worker[v].task = "none"
      BY RestingRow DEF MaintenanceInit
    <2>2. Inside = {} /\ Pending = {}
      BY <2>1 DEF MaintenanceInit, Inside, Pending, AtNight
    <2>3. Waiting = {}
      BY <2>2 DEF Waiting
    <2> QED
      BY <2>1, <2>2, <2>3 DEF NightInv, AtNight
  <1> QED
    BY <1>1, <1>2, <1>3 DEF JobInv, FocusInv

LEMMA JobStep == JobInv /\ [MaintenanceNext]_maintenanceVars => JobInv'
  <1> SUFFICES ASSUME JobInv, [MaintenanceNext]_maintenanceVars PROVE JobInv'
    OBVIOUS
  <1>0. FocusInv /\ NightInv /\ JobTypes
    BY DEF JobInv, FocusInv
  <1>1. ASSUME NEW h \in Hook,
               \/ \E p \in Target : Change(h, p)
               \/ HookSends(h) \/ HookRefused(h) \/ HookFindsKey(h) \/ HookMarks(h) \/ HookLost(h)
        PROVE JobInv'
    BY <1>0, <1>1, HookStep, HookNight, FocusKeepsNight DEF JobInv
  <1>2. ASSUME NEW p \in Target, KeyExpires(p) PROVE JobInv'
    <2>1. NightFrame
      BY <1>2 DEF KeyExpires, NightFrame, night
    <2> QED
      BY <1>0, <1>2, <2>1, KeyExpiresStep, FocusKeepsNight DEF JobInv
  <1>3. ASSUME NEW w \in Worker, Focused(w) \/ FailFocused(w) PROVE JobInv'
    <2>1. FocusInv' /\ NightFrame
      BY <1>0, <1>3, BeginStep, EvaluateStep, ReleaseStep, LookStep, AgainStep, FailFocusedStep DEF Focused
    <2> QED
      BY <1>0, <2>1, FocusKeepsNight DEF JobInv
  <1>4. ASSUME NEW w \in Worker, Nightly(w) \/ EndPage(w, TRUE) PROVE JobInv'
    BY <1>4, StartNightStep, TakePageStep, EnterStep, FenceStep, MeasureAtNightStep, EndPageStep DEF Nightly
  <1>5. ASSUME NEW w \in Worker, FailPage(w) \/ LoseWorker(w) \/ RepeatPage(w) PROVE JobInv'
    BY <1>5, FailPageStep, LoseWorkerStep, RepeatPageStep
  <1>6. CASE UNCHANGED maintenanceVars
    <2>1. NightFrame /\ FocusFrame /\ JobTypes'
      BY <1>0, <1>6 DEF maintenanceVars, focus, night, NightFrame, FocusFrame, JobTypes
    <2> QED
      BY <1>0, <2>1, FocusKeepsNight, NightKeepsFocus DEF JobInv
  <1> QED
    BY <1>1, <1>2, <1>3, <1>4, <1>5, <1>6, LapseStep, PageKeysEndStep DEF MaintenanceNext

LEMMA JobsInside ==
  ASSUME JobInv PROVE MaintenanceTypeOK /\ ChangesAreFollowedUp /\ ReconciledAlone
  <1>0. JobTypes /\ NightInv /\ ChangesAreFollowedUp
    BY DEF JobInv, FocusInv
  <1>1. MaintenanceTypeOK
    BY <1>0 DEF JobTypes, MaintenanceTypeOK, PageMessage
  <1>2. ReconciledAlone
    <2> DEFINE M == {w \in Worker : AtNight(w, "measure")}
    <2>1. \A v, w \in M : v = w
      BY <1>0 DEF NightInv, Inside, AtNight
    <2>2. M = {} \/ \E w : M = {w}
      BY <2>1
    <2>3. Cardinality(M) = 0 \/ Cardinality(M) = 1
      BY <2>2, FS_EmptySet, FS_Singleton
    <2> QED
      BY <2>3 DEF ReconciledAlone
  <1> QED
    BY <1>0, <1>1, <1>2

\* In every behaviour of the jobs a changed Property has something that will
\* compare it again unless the change was missed, and no two tasks of the
\* nights go through Properties at once (catalog/match_suggestion_signals.py,
\* catalog/tasks.py).
THEOREM ChangesStand ==
  MaintenanceSpec => [](MaintenanceTypeOK /\ ChangesAreFollowedUp /\ ReconciledAlone)
  <1>1. MaintenanceSpec => []JobInv
    BY JobStart, JobStep, PTL DEF MaintenanceSpec
  <1>2. JobInv => MaintenanceTypeOK /\ ChangesAreFollowedUp /\ ReconciledAlone
    BY JobsInside
  <1> QED
    BY <1>1, <1>2, PTL

-----------------------------------------------------------------------------
(* MatchOperation: pages of Properties in the order of their keys.           *)

LEMMA GreatestNumber ==
  ASSUME NEW S, S \subseteq Nat, IsFiniteSet(S), S # {}
  PROVE  \E n \in S : \A m \in S : m <= n
  <1> DEFINE Over(n) == {m \in S : m > n}
             T == {Over(n) : n \in S}
  <1>1. IsWellFoundedOn(StrictSubsetOrdering(S), FiniteSubsetsOf(S))
    BY FS_StrictSubsetOrderingWellFounded
  <1>2. T \subseteq FiniteSubsetsOf(S) /\ T # {}
    <2>1. \A n \in S : Over(n) \in SUBSET S
      OBVIOUS
    <2>2. \A U \in SUBSET S : IsFiniteSet(U)
      BY FS_Subset
    <2> QED
      BY <2>1, <2>2 DEF FiniteSubsetsOf
  <1>3. PICK U \in T : \A V \in T : ~ (<<V, U>> \in StrictSubsetOrdering(S))
    <2> HIDE DEF T
    <2> QED
      BY <1>1, <1>2, WFMin
  <1>4. PICK n \in S : U = Over(n)
    OBVIOUS
  <1>5. ASSUME NEW m \in S, ~ (m <= n) PROVE FALSE
    <2>0. m \in Nat /\ n \in Nat /\ m > n /\ \A x \in S : x \in Nat
      BY <1>5
    <2>1. m \in U /\ m \notin Over(m) /\ Over(m) \subseteq U
      <3>1. \A x \in Over(m) : x \in Over(n)
        BY <2>0
      <3>2. m \in Over(n) /\ m \notin Over(m)
        BY <2>0
      <3> HIDE DEF T, Over
      <3> QED
        BY <1>4, <3>1, <3>2
    <2>2. <<Over(m), U>> \in StrictSubsetOrdering(S)
      BY <1>4, <2>1 DEF StrictSubsetOrdering
    <2> QED
      BY <1>3, <2>2
  <1> QED
    BY <1>5

LEMMA MaxIs ==
  ASSUME NEW S, S \subseteq Subject, S # {}
  PROVE  Max(S) \in S /\ \A m \in S : m <= Max(S)
  <1>1. IsFiniteSet(S) /\ S \subseteq Nat
    BY OperationAssumption, FS_Subset
  <1>2. \E n \in S : \A m \in S : n >= m
    BY <1>1, GreatestNumber
  <1>3. Max(S) \in S /\ \A m \in S : Max(S) >= m
    BY <1>2, Zenon DEF Max
  <1> QED
    BY <1>1, <1>3

LEMMA MinIs ==
  ASSUME NEW S, S \subseteq Subject, S # {}
  PROVE  Min(S) \in S /\ \A m \in S : Min(S) <= m
  <1>1. S \subseteq Nat
    BY OperationAssumption
  <1>2. \E n \in S : \A m \in S : n <= m
    BY <1>1, LeastNumber
  <1> QED
    BY <1>2, Zenon DEF Min

LEMMA MaxOfTwo ==
  ASSUME NEW a \in Nat, NEW b \in Nat
  PROVE  Max({a, b}) = IF a >= b THEN a ELSE b
  <1>1. \E x \in {a, b} : \A y \in {a, b} : x >= y
    OBVIOUS
  <1>2. Max({a, b}) \in {a, b} /\ \A y \in {a, b} : Max({a, b}) >= y
    BY <1>1, Zenon DEF Max
  <1>3. PICK x : x = Max({a, b})
    OBVIOUS
  <1> QED
    BY <1>2, <1>3

\* A page holds the least keys, and it is all of them when it is not full.
LEMMA FirstIs ==
  ASSUME NEW S, S \subseteq Subject, NEW n \in Nat \ {0}
  PROVE  /\ First(S, n) \subseteq S
         /\ S # {} => First(S, n) # {}
         /\ \A m \in First(S, n), s \in S : s <= m => s \in First(S, n)
         /\ Cardinality(First(S, n)) # n => First(S, n) = S
  <1> DEFINE Under(r) == {s \in S : s < r}
             F == First(S, n)
  <1>1. S \subseteq Nat /\ IsFiniteSet(S) /\ \A x \in S : x \in Nat
    BY OperationAssumption, FS_Subset
  <1>2. ASSUME NEW r \in S
        PROVE  /\ Under(r) \in SUBSET S /\ IsFiniteSet(Under(r)) /\ Cardinality(Under(r)) \in Nat
               /\ r \in F <=> Cardinality(Under(r)) < n
    <2>1. Under(r) \in SUBSET S
      OBVIOUS
    <2>2. IsFiniteSet(Under(r))
      BY <1>1, <2>1, FS_Subset
    <2>3. Cardinality(Under(r)) \in Nat
      BY <2>2, FS_CardinalityType
    <2> QED
      BY <2>1, <2>2, <2>3 DEF First
  <1>3. F \subseteq S
    BY DEF First
  <1>4. ASSUME NEW m \in F, NEW s \in S, s <= m PROVE s \in F
    <2>1. m \in S /\ Cardinality(Under(m)) < n
      BY <1>2, <1>3
    <2>n. m \in Nat /\ s \in Nat /\ s <= m
      BY <1>1, <1>4, <2>1
    <2>2. Under(s) \in SUBSET Under(m)
      <3>1. \A x \in Under(s) : x \in Under(m)
        BY <1>1, <2>n
      <3> QED
        BY <3>1
    <2>3. Cardinality(Under(s)) <= Cardinality(Under(m))
      BY <1>2, <2>1, <2>2, FS_Subset
    <2>4. Cardinality(Under(s)) \in Nat /\ Cardinality(Under(m)) \in Nat
      BY <1>2, <2>1
    <2>5. Cardinality(Under(s)) < n
      BY <2>1, <2>3, <2>4
    <2> QED
      BY <1>2, <2>5
  <1>5. ASSUME S # {} PROVE F # {}
    <2>1. PICK r \in S : \A s \in S : r <= s
      BY <1>1, <1>5, LeastNumber
    <2>2. Under(r) = {}
      <3>1. \A x \in S : x \in Nat /\ r \in Nat /\ r <= x
        BY <1>1, <2>1
      <3> QED
        BY <3>1
    <2>3. Cardinality(Under(r)) = 0
      BY <2>2, FS_EmptySet
    <2> QED
      BY <1>2, <2>3
  <1>6. ASSUME F # S PROVE Cardinality(F) = n
    <2>f. IsFiniteSet(F) /\ Cardinality(F) \in Nat
      BY <1>1, <1>3, FS_Subset, FS_CardinalityType
    <2>1. PICK r \in S \ F : \A s \in S \ F : r <= s
      <3>1. S \ F \subseteq Nat /\ S \ F # {}
        BY <1>1, <1>3, <1>6
      <3> HIDE DEF F
      <3> QED
        BY <3>1, LeastNumber
    <2>2. Under(r) \in SUBSET F
      <3>1. \A x \in S : x \in Nat /\ r \in Nat
        BY <1>1, <2>1
      <3>2. \A x \in Under(r) : x \in F
        BY <2>1, <3>1
      <3> QED
        BY <3>2
    <2>3. Cardinality(Under(r)) <= Cardinality(F)
      BY <2>f, <2>2, FS_Subset
    <2>4. Cardinality(F) >= n
      BY <1>2, <2>1, <2>f, <2>3
    <2>5. F # {}
      BY <1>5, <1>6, <1>3
    <2>6. PICK m \in F : \A s \in F : s <= m
      <3>1. F \subseteq Nat
        BY <1>1, <1>3
      <3> HIDE DEF F
      <3> QED
        BY <2>f, <2>5, <3>1, GreatestNumber
    <2>7. F \ {m} \in SUBSET Under(m)
      <3>1. \A x \in F : x \in S /\ x \in Nat /\ m \in Nat /\ x <= m
        BY <1>1, <1>3, <2>6
      <3>2. \A x \in F \ {m} : x \in Under(m)
        BY <3>1
      <3> QED
        BY <3>2
    <2>8. Cardinality(F \ {m}) <= Cardinality(Under(m)) /\ Cardinality(Under(m)) < n /\ Cardinality(Under(m)) \in Nat
      BY <1>2, <1>3, <2>7, FS_Subset
    <2>9. Cardinality(F \ {m}) = Cardinality(F) - 1
      <3> HIDE DEF F
      <3> QED
        BY <2>f, FS_RemoveElement
    <2> QED
      BY <2>4, <2>8, <2>9, <2>f
  <1> QED
    BY <1>3, <1>4, <1>5, <1>6

-----------------------------------------------------------------------------
(* The checkpoint.                                                           *)

Phase == {"none", "candidates", "suggestions", "groups", "completed"}
Status == {"absent", "pending", "running", "failed", "completed"}
OperationRow ==
    [status : Status, phase : Phase, cursor : Subject \union {0}, candidate : Subject \union {0},
     generation : 0..MaxGeneration, version : 0..2]
ClerkRow ==
    [step : {"idle", "ensure", "page", "send", "look", "record"}, generation : 0..MaxGeneration,
     found : Status \union {"none"}]

OperationTypes ==
    /\ op \in OperationRow /\ deployed \in 1..2 /\ eligible \subseteq Subject
    /\ message \subseteq 0..MaxGeneration /\ clerk \in [Clerk -> ClerkRow]
    /\ owner \in Subject \union {0}
    /\ content \in [Subject -> Content] /\ current \in [Subject -> Measurement]
    /\ edit \in [Subject -> {"none", "written", "locked"}]

\* A measurement in force is of the group as it is: it is dropped under the
\* lock of the Property, before a change of the group commits.
MeasuredInv ==
    /\ ConsistencyIsCurrent
    /\ \A r \in Subject : /\ edit[r] # "none" => content[r] = 1
                          /\ edit[r] = "locked" => current[r] = Unmeasured

\* What a phase was at: el, ev, ca and ow are the Properties still there and
\* the histories.
PairsDone(el, ev, ca) == \A r, s \in el : r < s /\ r \notin ca => <<"pair", r, s>> \in ev
SuggestionsDone(el, ev) == \A r \in el : <<"suggestion", r, r>> \in ev
GroupsDone(el, ev) == \A r \in el : <<"group", r, r>> \in ev

AtCandidates(row, el, ev, ca, ow) ==
    /\ \A x \in ev : \E r, s \in Subject :
          /\ x = <<"pair", r, s>>
          /\ \/ r <= row.cursor
             \/ r \notin el
             \/ r = ow /\ row.candidate # 0 /\ s <= row.candidate
    /\ \A r, s \in el : r < s /\ r <= row.cursor /\ r \notin ca => <<"pair", r, s>> \in ev
    /\ row.candidate # 0 =>
          /\ ow > row.cursor
          /\ \A r \in el : r > row.cursor => r >= ow
          /\ ow \notin ca => \A s \in el : ow < s /\ s <= row.candidate => <<"pair", ow, s>> \in ev

AtSuggestions(row, el, ev) ==
    /\ \A x \in ev : \E r \in Subject : x = <<"suggestion", r, r>> /\ r <= row.cursor
    /\ \A r \in el : r <= row.cursor => <<"suggestion", r, r>> \in ev

AtGroups(row, el, ev, ca) ==
    /\ \A r \in Subject : <<"group", r, r>> \in ev => r <= row.cursor
    /\ \A r \in el : r <= row.cursor => <<"group", r, r>> \in ev
    /\ PairsDone(el, ev, ca) \/ SuggestionsDone(el, ev)

AtEnd(el, ev, ca) ==
    GroupsDone(el, ev) /\ (PairsDone(el, ev, ca) \/ SuggestionsDone(el, ev))

CoverOf(row, el, ev, ca, ow) ==
    /\ row.status = "completed" => row.phase = "completed"
    /\ row.phase = "none" => ev = {}
    /\ row.phase = "candidates" => AtCandidates(row, el, ev, ca, ow)
    /\ row.phase = "suggestions" => AtSuggestions(row, el, ev)
    /\ row.phase = "groups" => AtGroups(row, el, ev, ca)
    /\ row.phase = "completed" => AtEnd(el, ev, ca)

CoverInv == repeated = {} /\ CoverOf(op, eligible, evaluated, carried, owner)

OperationInv == OperationTypes /\ MeasuredInv /\ CoverInv

LEMMA OperationRows ==
  /\ Absent \in OperationRow /\ Absent.phase = "none" /\ Absent.status = "absent"
  /\ Absent.cursor = 0 /\ Absent.candidate = 0 /\ Absent.generation = 0
  /\ Idle \in ClerkRow /\ Idle.step = "idle" /\ Idle.generation = 0
  BY OperationAssumption DEF Absent, OperationRow, Status, Phase, Idle, ClerkRow

LEMMA RowStatus ==
  ASSUME NEW r \in OperationRow, NEW x \in Status
  PROVE  LET q == [r EXCEPT !.status = x]
         IN  /\ q \in OperationRow /\ q.status = x /\ q.phase = r.phase /\ q.cursor = r.cursor
             /\ q.candidate = r.candidate /\ q.generation = r.generation /\ q.version = r.version
  BY DEF OperationRow

LEMMA RowPhase ==
  ASSUME NEW r \in OperationRow, NEW x \in Phase
  PROVE  LET q == [r EXCEPT !.phase = x]
         IN  /\ q \in OperationRow /\ q.phase = x /\ q.status = r.status /\ q.cursor = r.cursor
             /\ q.candidate = r.candidate /\ q.generation = r.generation /\ q.version = r.version
  BY DEF OperationRow

LEMMA RowCursor ==
  ASSUME NEW r \in OperationRow, NEW x \in Subject \union {0}
  PROVE  LET q == [r EXCEPT !.cursor = x]
         IN  /\ q \in OperationRow /\ q.cursor = x /\ q.status = r.status /\ q.phase = r.phase
             /\ q.candidate = r.candidate /\ q.generation = r.generation /\ q.version = r.version
  BY DEF OperationRow

LEMMA RowCandidate ==
  ASSUME NEW r \in OperationRow, NEW x \in Subject \union {0}
  PROVE  LET q == [r EXCEPT !.candidate = x]
         IN  /\ q \in OperationRow /\ q.candidate = x /\ q.status = r.status /\ q.phase = r.phase
             /\ q.cursor = r.cursor /\ q.generation = r.generation /\ q.version = r.version
  BY DEF OperationRow

LEMMA RowGeneration ==
  ASSUME NEW r \in OperationRow, r.generation < MaxGeneration
  PROVE  LET q == [r EXCEPT !.generation = @ + 1]
         IN  /\ q \in OperationRow /\ q.generation = r.generation + 1 /\ q.status = r.status
             /\ q.phase = r.phase /\ q.cursor = r.cursor /\ q.candidate = r.candidate
             /\ q.version = r.version
  BY OperationAssumption DEF OperationRow

LEMMA RowGroups ==
  ASSUME NEW r \in OperationRow
  PROVE  LET q == Groups(r)
         IN  /\ q \in OperationRow /\ q.phase = "groups" /\ q.cursor = 0 /\ q.candidate = 0
             /\ q.status = r.status /\ q.generation = r.generation
  <1> DEFINE a == [r EXCEPT !.phase = "groups"]
             b == [a EXCEPT !.cursor = 0]
             q == [b EXCEPT !.candidate = 0]
  <1>0. 0 \in Subject \union {0}
    OBVIOUS
  <1>1. Groups(r) = q
    BY DEF Groups
  <1>2. /\ a \in OperationRow /\ a.phase = "groups" /\ a.status = r.status /\ a.generation = r.generation
    BY RowPhase, Zenon DEF Phase
  <1> HIDE DEF a
  <1>3. /\ b \in OperationRow /\ b.phase = a.phase /\ b.status = a.status /\ b.cursor = 0
        /\ b.generation = a.generation
    BY <1>0, <1>2, RowCursor, Zenon
  <1> HIDE DEF b
  <1>4. /\ q \in OperationRow /\ q.phase = b.phase /\ q.status = b.status /\ q.cursor = b.cursor
        /\ q.candidate = 0 /\ q.generation = b.generation
    BY <1>0, <1>3, RowCandidate, Zenon
  <1> HIDE DEF q
  <1> QED
    BY <1>1, <1>2, <1>3, <1>4

LEMMA RowAdvanced ==
  ASSUME NEW r \in OperationRow, r.generation < MaxGeneration
  PROVE  LET q == Advanced(r)
         IN  /\ q \in OperationRow /\ q.status = "running" /\ q.phase = r.phase
             /\ q.cursor = r.cursor /\ q.candidate = r.candidate /\ q.generation = r.generation + 1
  <1> DEFINE a == [r EXCEPT !.status = "running"]
             q == [a EXCEPT !.generation = @ + 1]
  <1>1. Advanced(r) = q
    BY DEF Advanced
  <1>2. /\ a \in OperationRow /\ a.status = "running" /\ a.phase = r.phase /\ a.cursor = r.cursor
        /\ a.candidate = r.candidate /\ a.generation = r.generation
    BY RowStatus, Zenon DEF Status
  <1> HIDE DEF a
  <1>3. /\ q \in OperationRow /\ q.generation = a.generation + 1 /\ q.status = a.status
        /\ q.phase = a.phase /\ q.cursor = a.cursor /\ q.candidate = a.candidate
    BY <1>2, RowGeneration, Zenon
  <1> HIDE DEF q
  <1> QED
    BY <1>1, <1>2, <1>3

LEMMA RowCompleted ==
  ASSUME NEW r \in OperationRow, r.generation < MaxGeneration
  PROVE  LET q == Completed(r)
         IN  /\ q \in OperationRow /\ q.status = "completed" /\ q.phase = "completed"
             /\ q.generation = r.generation + 1
  <1> DEFINE a == [r EXCEPT !.status = "completed"]
             b == [a EXCEPT !.phase = "completed"]
             c == [b EXCEPT !.cursor = 0]
             q == [c EXCEPT !.generation = @ + 1]
  <1>1. Completed(r) = q
    BY DEF Completed
  <1>2. a \in OperationRow /\ a.status = "completed" /\ a.generation = r.generation
    BY RowStatus, Zenon DEF Status
  <1> HIDE DEF a
  <1>3. b \in OperationRow /\ b.status = a.status /\ b.phase = "completed" /\ b.generation = a.generation
    BY <1>2, RowPhase, Zenon DEF Phase
  <1> HIDE DEF b
  <1>4. c \in OperationRow /\ c.status = b.status /\ c.phase = b.phase /\ c.generation = b.generation
    BY <1>3, RowCursor, Zenon
  <1> HIDE DEF c
  <1>5. /\ q \in OperationRow /\ q.status = c.status /\ q.phase = c.phase
        /\ q.generation = c.generation + 1
    BY <1>2, <1>3, <1>4, RowGeneration, Zenon
  <1> HIDE DEF q
  <1> QED
    BY <1>1, <1>2, <1>3, <1>4, <1>5

-----------------------------------------------------------------------------
(* A page.                                                                   *)

LEMMA RowNumbers ==
  ASSUME NEW row \in OperationRow
  PROVE  /\ row.cursor \in Subject \union {0} /\ row.candidate \in Subject \union {0}
         /\ row.cursor \in Nat /\ row.candidate \in Nat /\ row.generation \in Nat
  <1>1. /\ row.cursor \in Subject \union {0} /\ row.candidate \in Subject \union {0}
        /\ row.generation \in 0..MaxGeneration
    BY DEF OperationRow
  <1>2. \A x \in Subject \union {0} : x \in Nat
    BY OperationAssumption
  <1>3. row.generation \in Nat
    BY <1>1, OperationAssumption
  <1>4. row.cursor \in Nat /\ row.candidate \in Nat
    BY <1>1, <1>2, Zenon
  <1> QED
    BY <1>1, <1>3, <1>4

\* Beyond the cursor, whose least key is the Property that is at work.
LEMMA BeyondIs ==
  ASSUME OperationTypes, NEW n \in Nat
  PROVE  /\ Beyond(n) \subseteq Subject /\ Beyond(n) \subseteq eligible
         /\ \A r \in eligible : r \in Nat /\ r # 0 /\ (r \in Beyond(n) <=> r > n)
  BY OperationAssumption DEF OperationTypes, Beyond

LEMMA EnteredRow ==
  ASSUME OperationInv
  PROVE  /\ Entered \in OperationRow /\ Entered.generation = op.generation
         /\ op.status # "completed" => Entered.status # "completed"
         /\ CoverOf(Entered, eligible, evaluated, carried, owner)
         /\ Entered.phase \in {"candidates", "suggestions"} => Beyond(Entered.cursor) # {}
  <1>0. /\ op \in OperationRow /\ eligible \subseteq Subject /\ Subject \subseteq Nat \ {0}
        /\ CoverOf(op, eligible, evaluated, carried, owner)
    BY OperationAssumption DEF OperationInv, OperationTypes, CoverInv
  <1>1. CASE ~ (op.phase \in {"candidates", "suggestions"} /\ Beyond(op.cursor) = {})
    BY <1>0, <1>1 DEF Entered
  <1>2. CASE op.phase \in {"candidates", "suggestions"} /\ Beyond(op.cursor) = {}
    <2>1. Entered = Groups(op)
      BY <1>2 DEF Entered
    <2> PICK q : q = Groups(op)
      OBVIOUS
    <2>2. /\ q \in OperationRow /\ q.phase = "groups" /\ q.cursor = 0 /\ q.candidate = 0
          /\ q.status = op.status /\ q.generation = op.generation
      BY <1>0, RowGroups
    <2>3. op.cursor \in Nat /\ \A r \in eligible : r \in Nat /\ r # 0 /\ r <= op.cursor
      <3>1. op.cursor \in Nat
        BY <1>0, RowNumbers
      <3>2. \A r \in eligible : r \in Nat /\ r # 0 /\ (r \in Beyond(op.cursor) <=> r > op.cursor)
        BY <3>1, BeyondIs DEF OperationInv
      <3> QED
        BY <1>2, <3>1, <3>2
    <2>4. op.status # "completed"
      BY <1>0, <1>2 DEF CoverOf
    <2>5. \A r \in Subject : <<"group", r, r>> \notin evaluated
      BY <1>0, <1>2 DEF CoverOf, AtCandidates, AtSuggestions
    <2>6. PairsDone(eligible, evaluated, carried) \/ SuggestionsDone(eligible, evaluated)
      BY <1>0, <1>2, <2>3 DEF CoverOf, AtCandidates, AtSuggestions, PairsDone, SuggestionsDone
    <2>7. AtGroups(q, eligible, evaluated, carried)
      BY <2>2, <2>3, <2>5, <2>6 DEF AtGroups
    <2>8. CoverOf(q, eligible, evaluated, carried, owner)
      BY <2>2, <2>4, <2>7 DEF CoverOf
    <2> QED
      BY <2>1, <2>2, <2>4, <2>8
  <1> QED
    BY <1>1, <1>2

LEMMA CandidatesStep ==
  ASSUME OperationTypes, NEW row \in OperationRow, row.generation < MaxGeneration,
         row.candidate = op.candidate, row.phase = "candidates",
         CoverOf(row, eligible, evaluated, carried, owner), Beyond(row.cursor) # {},
         NEW r, r = Min(Beyond(row.cursor)),
         op' = Advanced(CandidatesTo(row, r)),
         Visit({<<"pair", r, s>> : s \in CandidatePage(r)}), repeated = {},
         carried' = (IF row.candidate # 0 /\ owner # r THEN carried \union {r} ELSE carried),
         owner' = r, eligible' = eligible
  PROVE  op' \in OperationRow /\ op'.status = "running" /\ op'.generation = row.generation + 1
         /\ owner' \in Subject /\ CoverInv'
  <1> DEFINE P == CandidatePage(r)
             C == CandidatesFrom(r)
  <1>1. /\ row.cursor \in Nat /\ row.candidate \in Nat /\ owner \in Nat /\ eligible \subseteq Subject
        /\ \A s \in eligible : s \in Nat /\ s # 0 /\ (s \in Beyond(row.cursor) <=> s > row.cursor)
        /\ Beyond(row.cursor) \subseteq eligible
    <2>1. row.cursor \in Nat /\ row.candidate \in Nat /\ owner \in Nat /\ eligible \subseteq Subject
      <3>1. owner \in Nat /\ eligible \subseteq Subject
        BY OperationAssumption DEF OperationTypes
      <3> QED
        BY <3>1, RowNumbers
    <2> QED
      BY <2>1, BeyondIs
  <1>2. /\ r \in eligible /\ r \in Nat /\ r > row.cursor
        /\ \A s \in eligible : s > row.cursor => r <= s
    BY <1>1, MinIs
  <1>3. AtCandidates(row, eligible, evaluated, carried, owner)
    BY DEF CoverOf
  <1>4. C \subseteq Subject /\ \A s \in eligible : s \in C <=> s > r /\ (row.candidate # 0 => s > row.candidate)
    BY <1>1, <1>2, MaxOfTwo DEF CandidatesFrom
  <1>5. /\ P \subseteq C
        /\ \A m \in P, s \in C : s <= m => s \in P
        /\ Cardinality(P) # Batch => P = C
    BY <1>4, FirstIs, OperationAssumption DEF CandidatePage
  <1>6. \A s \in P : s \in eligible /\ s \in Subject /\ s > r /\ (row.candidate # 0 => s > row.candidate)
    BY <1>1, <1>4, <1>5 DEF CandidatesFrom
  <1>7. row.candidate # 0 /\ owner # r => owner \notin eligible
    BY <1>1, <1>2, <1>3 DEF AtCandidates
  <1>8. /\ evaluated' = evaluated \union {<<"pair", r, s>> : s \in P}
        /\ repeated' = repeated \union (evaluated \intersect {<<"pair", r, s>> : s \in P})
    BY DEF Visit
  <1> HIDE DEF P, C
  <1>9. repeated' = {}
    <2>1. ASSUME NEW s \in P, <<"pair", r, s>> \in evaluated PROVE FALSE
      <3>1. /\ r <= row.cursor \/ r \notin eligible \/ (r = owner /\ row.candidate # 0 /\ s <= row.candidate)
        BY <1>3, <2>1 DEF AtCandidates
      <3>2. s \in Nat
        BY <1>1, <1>6
      <3> QED
        BY <1>1, <1>2, <1>6, <3>1, <3>2
    <2> QED
      BY <1>8, <2>1
  \* what was at work before, of the Property r or of one that is gone
  <1>10. ASSUME NEW s \in eligible, r < s, row.candidate # 0, s <= row.candidate, r \notin carried'
         PROVE  <<"pair", r, s>> \in evaluated
    BY <1>3, <1>10 DEF AtCandidates
  <1>11. ASSUME NEW s \in eligible, r < s, r \notin carried', s \in C => s \in P
         PROVE  <<"pair", r, s>> \in evaluated'
    BY <1>1, <1>4, <1>8, <1>10, <1>11
  <1>12. CASE Cardinality(P) = Batch
    <2>1. P # {}
      BY <1>12, FS_EmptySet, OperationAssumption
    <2>2. PICK m : m = Max(P)
      OBVIOUS
    <2>3. m \in P /\ \A s \in P : s <= m
      BY <1>4, <1>5, <2>1, <2>2, MaxIs
    <2>4. m \in Subject /\ m \in Nat /\ m # 0 /\ m > r
      BY <1>1, <1>6, <2>3
    <2>5. PICK q : q = [row EXCEPT !.candidate = m]
      OBVIOUS
    <2>6. /\ q \in OperationRow /\ q.candidate = m /\ q.phase = "candidates" /\ q.cursor = row.cursor
          /\ q.generation = row.generation
      BY <2>4, <2>5, RowCandidate, Zenon
    <2>7. op' = Advanced(q)
      BY <1>12, <2>2, <2>5 DEF CandidatesTo, P
    <2>8. /\ op' \in OperationRow /\ op'.status = "running" /\ op'.phase = "candidates"
          /\ op'.cursor = row.cursor /\ op'.candidate = m /\ op'.generation = row.generation + 1
      BY <2>6, <2>7, RowAdvanced
    <2>9. \A x \in evaluated' : \E a, b \in Subject :
            /\ x = <<"pair", a, b>>
            /\ a <= row.cursor \/ a \notin eligible \/ (a = r /\ b <= m)
      <3> SUFFICES ASSUME NEW x \in evaluated'
                   PROVE  \E a, b \in Subject :
                            /\ x = <<"pair", a, b>>
                            /\ a <= row.cursor \/ a \notin eligible \/ (a = r /\ b <= m)
        OBVIOUS
      <3>1. CASE x \in evaluated
        <4>1. PICK a, b \in Subject :
                /\ x = <<"pair", a, b>>
                /\ a <= row.cursor \/ a \notin eligible \/ (a = owner /\ row.candidate # 0 /\ b <= row.candidate)
          BY <1>3, <3>1 DEF AtCandidates
        <4>2. b \in Nat
          BY OperationAssumption
        <4>3. a = owner /\ row.candidate # 0 /\ b <= row.candidate => a \notin eligible \/ (a = r /\ b <= m)
          BY <1>1, <1>6, <1>7, <2>3, <2>4, <4>2
        <4> QED
          BY <4>1, <4>3
      <3>2. CASE x \notin evaluated
        <4>1. PICK s \in P : x = <<"pair", r, s>>
          BY <1>8, <3>2
        <4> QED
          BY <1>1, <1>2, <1>6, <2>3, <4>1
      <3> QED
        BY <3>1, <3>2
    <2>10. \A a, b \in eligible : a < b /\ a <= row.cursor /\ a \notin carried' => <<"pair", a, b>> \in evaluated'
      BY <1>3, <1>8 DEF AtCandidates
    <2>11. r \notin carried' => \A s \in eligible : r < s /\ s <= m => <<"pair", r, s>> \in evaluated'
      BY <1>5, <1>11, <2>3
    <2>12. AtCandidates(op', eligible', evaluated', carried', owner')
      <3>1. r > row.cursor /\ \A a \in eligible : a > row.cursor => a >= r
        BY <1>1, <1>2
      <3> QED
        BY <2>4, <2>8, <2>9, <2>10, <2>11, <3>1 DEF AtCandidates
    <2> QED
      BY <1>1, <1>2, <1>9, <2>8, <2>12 DEF CoverInv, CoverOf
  <1>13. CASE Cardinality(P) # Batch
    <2>1. P = C
      BY <1>5, <1>13
    <2>2. PICK p : p = [row EXCEPT !.cursor = r]
      OBVIOUS
    <2>3. PICK q : q = [p EXCEPT !.candidate = 0]
      OBVIOUS
    <2>4. /\ p \in OperationRow /\ p.cursor = r /\ p.phase = "candidates" /\ p.generation = row.generation
      <3>1. r \in Subject \union {0}
        BY <1>1, <1>2
      <3> QED
        BY <2>2, <3>1, RowCursor, Zenon
    <2>5. 0 \in Subject \union {0}
      OBVIOUS
    <2>6. /\ q \in OperationRow /\ q.candidate = 0 /\ q.phase = p.phase /\ q.cursor = p.cursor
          /\ q.generation = p.generation
      BY <2>3, <2>4, <2>5, RowCandidate, Zenon
    <2>7. op' = Advanced(q)
      BY <1>13, <2>2, <2>3 DEF CandidatesTo, P
    <2>8. /\ op' \in OperationRow /\ op'.status = "running" /\ op'.phase = "candidates"
          /\ op'.cursor = r /\ op'.candidate = 0 /\ op'.generation = row.generation + 1
      BY <2>4, <2>6, <2>7, RowAdvanced
    <2>9. \A x \in evaluated' : \E a, b \in Subject :
            x = <<"pair", a, b>> /\ (a <= r \/ a \notin eligible)
      <3> SUFFICES ASSUME NEW x \in evaluated'
                   PROVE  \E a, b \in Subject : x = <<"pair", a, b>> /\ (a <= r \/ a \notin eligible)
        OBVIOUS
      <3>1. CASE x \in evaluated
        <4>1. PICK a, b \in Subject :
                /\ x = <<"pair", a, b>>
                /\ a <= row.cursor \/ a \notin eligible \/ (a = owner /\ row.candidate # 0 /\ b <= row.candidate)
          BY <1>3, <3>1 DEF AtCandidates
        <4>2. a \in Nat
          BY OperationAssumption
        <4> QED
          BY <1>1, <1>2, <1>7, <4>1, <4>2
      <3>2. CASE x \notin evaluated
        <4>1. PICK s \in P : x = <<"pair", r, s>>
          BY <1>8, <3>2
        <4> QED
          BY <1>1, <1>2, <1>6, <4>1
      <3> QED
        BY <3>1, <3>2
    <2>10. \A a, b \in eligible : a < b /\ a <= r /\ a \notin carried' => <<"pair", a, b>> \in evaluated'
      <3> SUFFICES ASSUME NEW a \in eligible, NEW b \in eligible, a < b, a <= r, a \notin carried'
                   PROVE  <<"pair", a, b>> \in evaluated'
        OBVIOUS
      <3>1. CASE a <= row.cursor
        BY <1>3, <1>8, <3>1 DEF AtCandidates
      <3>2. CASE a = r
        BY <1>11, <2>1, <3>2
      <3> QED
        BY <1>1, <1>2, <3>1, <3>2
    <2>11. AtCandidates(op', eligible', evaluated', carried', owner')
      BY <2>8, <2>9, <2>10 DEF AtCandidates
    <2> QED
      BY <1>1, <1>2, <1>9, <2>8, <2>11 DEF CoverInv, CoverOf
  <1> QED
    BY <1>12, <1>13

\* A page of suggestions or of groups ends with its greatest key.
LEMMA PageIs ==
  ASSUME OperationTypes, NEW n \in Nat, Beyond(n) # {}, NEW P, P = First(Beyond(n), Batch)
  PROVE  /\ P # {} /\ P \subseteq Subject /\ P \subseteq eligible
         /\ Max(P) \in Subject /\ Max(P) \in Nat
         /\ \A r \in eligible : r <= Max(P) => r <= n \/ r \in P
         /\ \A r \in P : r \in Nat /\ r > n /\ r <= Max(P)
  <1>1. Beyond(n) \subseteq Subject /\ Beyond(n) \subseteq eligible
        /\ \A r \in eligible : r \in Nat /\ (r \in Beyond(n) <=> r > n)
    BY BeyondIs
  <1>2. /\ P \subseteq Beyond(n) /\ P # {}
        /\ \A m \in P, s \in Beyond(n) : s <= m => s \in P
    BY <1>1, FirstIs, OperationAssumption
  <1>3. P \subseteq Subject
    BY <1>1, <1>2
  <1>4. Max(P) \in P /\ \A m \in P : m <= Max(P)
    BY <1>2, <1>3, MaxIs
  <1>5. \A r \in P : r \in eligible /\ r \in Nat /\ r > n
    BY <1>1, <1>2
  <1>6. \A r \in eligible : r <= Max(P) => r <= n \/ r \in P
    BY <1>1, <1>2, <1>4
  <1> QED
    BY <1>2, <1>3, <1>4, <1>5, <1>6

LEMMA CursorRow ==
  ASSUME NEW row \in OperationRow, row.generation < MaxGeneration, NEW m \in Subject \union {0}
  PROVE  LET q == Advanced([row EXCEPT !.cursor = m])
         IN  /\ q \in OperationRow /\ q.status = "running" /\ q.phase = row.phase
             /\ q.cursor = m /\ q.generation = row.generation + 1
  <1> PICK p : p = [row EXCEPT !.cursor = m]
    OBVIOUS
  <1>1. p \in OperationRow /\ p.cursor = m /\ p.phase = row.phase /\ p.generation = row.generation
    BY RowCursor, Zenon
  <1> QED
    BY <1>1, RowAdvanced

LEMMA SuggestionsStep ==
  ASSUME OperationTypes, NEW row \in OperationRow, row.generation < MaxGeneration,
         row.phase = "suggestions",
         CoverOf(row, eligible, evaluated, carried, owner), Beyond(row.cursor) # {},
         NEW P, P = First(Beyond(row.cursor), Batch),
         op' = Advanced([row EXCEPT !.cursor = Max(P)]),
         Visit({<<"suggestion", r, r>> : r \in P}), repeated = {},
         carried' = carried, owner' = owner, eligible' = eligible
  PROVE  op' \in OperationRow /\ op'.status = "running" /\ op'.generation = row.generation + 1
         /\ CoverInv'
  <1>1. PICK m : m = Max(P)
    OBVIOUS
  <1>n. row.cursor \in Nat
    BY RowNumbers
  <1>2. /\ P \subseteq Subject /\ P \subseteq eligible
        /\ m \in Subject /\ m \in Nat
        /\ \A r \in eligible : r <= m => r <= row.cursor \/ r \in P
        /\ \A r \in P : r \in Nat /\ r > row.cursor /\ r <= m
        /\ P # {}
    BY <1>1, <1>n, PageIs
  <1>3. /\ op' \in OperationRow /\ op'.status = "running" /\ op'.phase = "suggestions"
        /\ op'.cursor = m /\ op'.generation = row.generation + 1
    BY <1>1, <1>2, CursorRow
  <1>4. /\ evaluated' = evaluated \union {<<"suggestion", r, r>> : r \in P}
        /\ repeated' = repeated \union (evaluated \intersect {<<"suggestion", r, r>> : r \in P})
    BY DEF Visit
  <1>5. AtSuggestions(row, eligible, evaluated)
    BY DEF CoverOf
  <1>6. repeated' = {}
    <2>1. ASSUME NEW r \in P, <<"suggestion", r, r>> \in evaluated PROVE FALSE
      <3>1. r <= row.cursor
        BY <1>5, <2>1 DEF AtSuggestions
      <3> QED
        BY <1>2, <1>n, <3>1
    <2> QED
      BY <1>4, <2>1
  <1>7. m > row.cursor
    BY <1>2, <1>n
  <1>8. \A x \in evaluated' : \E r \in Subject : x = <<"suggestion", r, r>> /\ r <= m
    <2> SUFFICES ASSUME NEW x \in evaluated' PROVE \E r \in Subject : x = <<"suggestion", r, r>> /\ r <= m
      OBVIOUS
    <2>1. CASE x \in evaluated
      <3>1. PICK r \in Subject : x = <<"suggestion", r, r>> /\ r <= row.cursor
        BY <1>5, <2>1 DEF AtSuggestions
      <3>2. r \in Nat
        BY OperationAssumption
      <3> QED
        BY <1>2, <1>n, <1>7, <3>1, <3>2
    <2>2. CASE x \notin evaluated
      <3>1. PICK r \in P : x = <<"suggestion", r, r>>
        BY <1>4, <2>2
      <3> QED
        BY <1>2, <3>1
    <2> QED
      BY <2>1, <2>2
  <1>9. \A r \in eligible : r <= m => <<"suggestion", r, r>> \in evaluated'
    BY <1>2, <1>4, <1>5 DEF AtSuggestions
  <1>10. AtSuggestions(op', eligible', evaluated')
    BY <1>3, <1>8, <1>9 DEF AtSuggestions
  <1> QED
    BY <1>3, <1>6, <1>10 DEF CoverInv, CoverOf

LEMMA GroupsStep ==
  ASSUME OperationTypes, NEW row \in OperationRow, row.generation < MaxGeneration,
         row.phase = "groups",
         CoverOf(row, eligible, evaluated, carried, owner),
         NEW P, P = First(Beyond(row.cursor), Batch), P # {},
         op' = Advanced([row EXCEPT !.cursor = Max(P)]),
         Visit({<<"group", r, r>> : r \in P}), repeated = {},
         carried' = carried, owner' = owner, eligible' = eligible
  PROVE  op' \in OperationRow /\ op'.status = "running" /\ op'.generation = row.generation + 1
         /\ CoverInv'
  <1>1. PICK m : m = Max(P)
    OBVIOUS
  <1>n. row.cursor \in Nat
    BY RowNumbers
  <1>b. Beyond(row.cursor) # {}
    BY DEF First
  <1>2. /\ P \subseteq Subject /\ P \subseteq eligible
        /\ m \in Subject /\ m \in Nat
        /\ \A r \in eligible : r <= m => r <= row.cursor \/ r \in P
        /\ \A r \in P : r \in Nat /\ r > row.cursor /\ r <= m
        /\ P # {}
    BY <1>1, <1>n, <1>b, PageIs
  <1>3. /\ op' \in OperationRow /\ op'.status = "running" /\ op'.phase = "groups"
        /\ op'.cursor = m /\ op'.generation = row.generation + 1
    BY <1>1, <1>2, CursorRow
  <1>4. /\ evaluated' = evaluated \union {<<"group", r, r>> : r \in P}
        /\ repeated' = repeated \union (evaluated \intersect {<<"group", r, r>> : r \in P})
    BY DEF Visit
  <1>5. AtGroups(row, eligible, evaluated, carried)
    BY DEF CoverOf
  <1>6. repeated' = {}
    <2>1. ASSUME NEW r \in P, <<"group", r, r>> \in evaluated PROVE FALSE
      <3>1. r <= row.cursor
        BY <1>2, <1>5, <2>1 DEF AtGroups
      <3> QED
        BY <1>2, <1>n, <3>1
    <2> QED
      BY <1>4, <2>1
  <1>7. m > row.cursor
    BY <1>2, <1>n
  <1>8. \A r \in Subject : <<"group", r, r>> \in evaluated' => r <= m
    <2> SUFFICES ASSUME NEW r \in Subject, <<"group", r, r>> \in evaluated' PROVE r <= m
      OBVIOUS
    <2>1. r \in Nat
      BY OperationAssumption
    <2>2. CASE <<"group", r, r>> \in evaluated
      BY <1>2, <1>n, <1>5, <1>7, <2>1, <2>2 DEF AtGroups
    <2>3. CASE <<"group", r, r>> \notin evaluated
      BY <1>2, <1>4, <2>3
    <2> QED
      BY <2>2, <2>3
  <1>9. \A r \in eligible : r <= m => <<"group", r, r>> \in evaluated'
    BY <1>2, <1>4, <1>5 DEF AtGroups
  <1>10. PairsDone(eligible, evaluated', carried) \/ SuggestionsDone(eligible, evaluated')
    BY <1>4, <1>5 DEF AtGroups, PairsDone, SuggestionsDone
  <1>11. AtGroups(op', eligible', evaluated', carried')
    BY <1>3, <1>8, <1>9, <1>10 DEF AtGroups
  <1> QED
    BY <1>3, <1>6, <1>11 DEF CoverInv, CoverOf

LEMMA EndStep ==
  ASSUME OperationTypes, NEW row \in OperationRow, row.generation < MaxGeneration,
         CoverOf(row, eligible, evaluated, carried, owner),
         \/ row.phase = "groups" /\ First(Beyond(row.cursor), Batch) = {}
         \/ row.phase = "completed",
         op' = Completed(row), repeated = {}, eligible' = eligible,
         UNCHANGED <<evaluated, repeated, carried, owner>>
  PROVE  op' \in OperationRow /\ op'.status = "completed" /\ op'.generation = row.generation + 1
         /\ CoverInv'
  <1>1. /\ op' \in OperationRow /\ op'.status = "completed" /\ op'.phase = "completed"
        /\ op'.generation = row.generation + 1
    BY RowCompleted
  <1>n. row.cursor \in Nat
    BY RowNumbers
  <1>2. AtEnd(eligible, evaluated, carried)
    <2>1. CASE row.phase = "completed"
      BY <2>1 DEF CoverOf
    <2>2. CASE row.phase = "groups" /\ First(Beyond(row.cursor), Batch) = {}
      <3>1. Beyond(row.cursor) = {}
        BY <1>n, <2>2, BeyondIs, FirstIs, OperationAssumption
      <3>2. \A r \in eligible : r <= row.cursor
        BY <1>n, <3>1, BeyondIs
      <3> QED
        BY <2>2, <3>2 DEF CoverOf, AtGroups, AtEnd, GroupsDone
    <2> QED
      BY <2>1, <2>2
  <1> QED
    BY <1>1, <1>2 DEF CoverInv, CoverOf

-----------------------------------------------------------------------------
(* The steps of the operation.                                               *)

\* What a page does to measurements: it takes those that are missing, of
\* Properties that no change has locked.
LEMMA PageMeasures ==
  ASSUME OperationInv,
         \/ UNCHANGED measurements
         \/ \E P : /\ Unlocked(P)
                   /\ current' = [r \in Subject |-> IF r \in P /\ current[r] = Unmeasured
                                                    THEN content[r] ELSE current[r]]
                   /\ UNCHANGED <<content, edit>>
  PROVE  /\ MeasuredInv'
         /\ content' \in [Subject -> Content] /\ current' \in [Subject -> Measurement]
         /\ edit' \in [Subject -> {"none", "written", "locked"}]
  <1>0. OperationTypes /\ MeasuredInv
    BY DEF OperationInv
  <1>1. CASE UNCHANGED measurements
    BY <1>0, <1>1 DEF measurements, MeasuredInv, ConsistencyIsCurrent, OperationTypes
  <1>2. ASSUME NEW P, Unlocked(P),
               current' = [r \in Subject |-> IF r \in P /\ current[r] = Unmeasured
                                             THEN content[r] ELSE current[r]],
               UNCHANGED <<content, edit>>
        PROVE  /\ MeasuredInv' /\ current' \in [Subject -> Measurement]
    BY <1>0, <1>2 DEF OperationTypes, MeasuredInv, ConsistencyIsCurrent, Measurement, Unlocked
  <1> QED
    BY <1>0, <1>1, <1>2 DEF OperationTypes

LEMMA PageStep ==
  ASSUME OperationInv, op.generation < MaxGeneration, op.status # "completed", Page,
         eligible' = eligible
  PROVE  /\ op' \in OperationRow /\ owner' \in Subject \union {0} /\ CoverInv'
         /\ MeasuredInv'
         /\ content' \in [Subject -> Content] /\ current' \in [Subject -> Measurement]
         /\ edit' \in [Subject -> {"none", "written", "locked"}]
         /\ op'.generation = op.generation + 1
  <1>0. OperationTypes /\ repeated = {}
    BY DEF OperationInv, CoverInv
  <1>1. PICK row : row = Entered
    OBVIOUS
  <1>2. /\ row \in OperationRow /\ row.generation = op.generation
        /\ CoverOf(row, eligible, evaluated, carried, owner)
        /\ row.phase \in {"candidates", "suggestions"} => Beyond(row.cursor) # {}
    BY <1>1, EnteredRow
  <1>3. PICK P : P = First(Beyond(row.cursor), Batch)
    OBVIOUS
  <1>4. CASE /\ row.phase = "candidates"
             /\ LET r == Min(Beyond(row.cursor)) IN
                /\ op' = Advanced(CandidatesTo(row, r))
                /\ Visit({<<"pair", r, s>> : s \in CandidatePage(r)})
                /\ carried' = IF row.candidate # 0 /\ owner # r THEN carried \union {r} ELSE carried
                /\ owner' = r
             /\ UNCHANGED measurements
    <2>1. row.candidate = op.candidate
      BY <1>1, <1>4 DEF Entered, Groups
    <2>2. PICK r : r = Min(Beyond(row.cursor))
      OBVIOUS
    <2>3. /\ op' = Advanced(CandidatesTo(row, r))
          /\ Visit({<<"pair", r, s>> : s \in CandidatePage(r)})
          /\ carried' = IF row.candidate # 0 /\ owner # r THEN carried \union {r} ELSE carried
          /\ owner' = r
      BY <1>4, <2>2
    <2>4. op' \in OperationRow /\ owner' \in Subject /\ CoverInv' /\ op'.generation = op.generation + 1
      BY <1>0, <1>2, <1>4, <2>1, <2>2, <2>3, CandidatesStep
    <2> QED
      BY <1>4, <2>4, PageMeasures
  <1>5. CASE /\ row.phase = "suggestions"
             /\ op' = Advanced([row EXCEPT !.cursor = Max(P)])
             /\ Visit({<<"suggestion", r, r>> : r \in P})
             /\ UNCHANGED <<carried, owner, measurements>>
    <2>1. op' \in OperationRow /\ CoverInv' /\ op'.generation = op.generation + 1
      BY <1>0, <1>2, <1>3, <1>5, SuggestionsStep
    <2> QED
      BY <1>0, <1>5, <2>1, PageMeasures DEF OperationTypes
  <1>6. CASE /\ row.phase = "groups" /\ P # {}
             /\ Unlocked(P)
             /\ op' = Advanced([row EXCEPT !.cursor = Max(P)])
             /\ current' = [r \in Subject |-> IF r \in P /\ current[r] = Unmeasured
                                              THEN content[r] ELSE current[r]]
             /\ Visit({<<"group", r, r>> : r \in P})
             /\ UNCHANGED <<carried, owner, content, edit>>
    <2>1. op' \in OperationRow /\ CoverInv' /\ op'.generation = op.generation + 1
      BY <1>0, <1>2, <1>3, <1>6, GroupsStep
    <2> QED
      BY <1>0, <1>6, <2>1, PageMeasures DEF OperationTypes
  <1>7. CASE /\ (row.phase = "groups" /\ P = {}) \/ row.phase = "completed"
             /\ op' = Completed(row)
             /\ UNCHANGED <<evaluated, repeated, carried, owner, measurements>>
    <2>1. op' \in OperationRow /\ CoverInv' /\ op'.generation = op.generation + 1
      BY <1>0, <1>2, <1>3, <1>7, EndStep
    <2> QED
      BY <1>0, <1>7, <2>1, PageMeasures DEF OperationTypes
  <1> QED
    BY <1>1, <1>3, <1>4, <1>5, <1>6, <1>7 DEF Page

LEMMA ClerkBecomes ==
  ASSUME OperationTypes, NEW c \in Clerk, NEW x \in ClerkRow, clerk' = [clerk EXCEPT ![c] = x]
  PROVE  clerk' \in [Clerk -> ClerkRow]
  BY DEF OperationTypes

LEMMA ClerkSteps ==
  ASSUME OperationTypes, NEW c \in Clerk,
         NEW x \in {"idle", "ensure", "page", "send", "look", "record"},
         clerk' = [clerk EXCEPT ![c].step = x]
  PROVE  clerk' \in [Clerk -> ClerkRow]
  <1>1. clerk[c] \in ClerkRow
    BY DEF OperationTypes
  <1>2. [clerk[c] EXCEPT !.step = x] \in ClerkRow
    BY <1>1 DEF ClerkRow
  <1>3. clerk' = [clerk EXCEPT ![c] = [clerk[c] EXCEPT !.step = x]]
    BY DEF OperationTypes
  <1> QED
    BY <1>2, <1>3, ClerkBecomes

LEMMA SendsType ==
  ASSUME OperationTypes, NEW c \in Clerk, NEW g \in 0..MaxGeneration, NEW s \in BOOLEAN,
         SendsOf(c, g, s)
  PROVE  clerk' \in [Clerk -> ClerkRow]
  <1>1. [step |-> "send", generation |-> g, found |-> "none"] \in ClerkRow
    BY DEF ClerkRow
  <1> QED
    BY <1>1, OperationRows, ClerkBecomes DEF SendsOf

\* The checkpoint and the measurements stay, and Properties only leave.
LEMMA CoverStays ==
  ASSUME CoverInv, OperationTypes, eligible' \subseteq eligible, UNCHANGED <<evaluated, repeated, carried, owner>>,
         op'.phase = op.phase, op'.cursor = op.cursor, op'.candidate = op.candidate,
         op'.status = "completed" => op.status = "completed"
  PROVE  CoverInv'
  <1>0. CoverOf(op, eligible, evaluated, carried, owner)
    BY DEF CoverInv
  <1>1. op'.phase = "candidates" => AtCandidates(op', eligible', evaluated', carried', owner')
    BY <1>0 DEF CoverOf, AtCandidates
  <1>2. op'.phase = "suggestions" => AtSuggestions(op', eligible', evaluated')
    BY <1>0 DEF CoverOf, AtSuggestions
  <1>3. op'.phase = "groups" => AtGroups(op', eligible', evaluated', carried')
    BY <1>0 DEF CoverOf, AtGroups, PairsDone, SuggestionsDone
  <1>4. op'.phase = "completed" => AtEnd(eligible', evaluated', carried')
    BY <1>0 DEF CoverOf, AtEnd, GroupsDone, PairsDone, SuggestionsDone
  <1> QED
    BY <1>0, <1>1, <1>2, <1>3, <1>4 DEF CoverInv, CoverOf

LEMMA MeasurementsStay ==
  ASSUME MeasuredInv, UNCHANGED measurements PROVE MeasuredInv'
  BY DEF MeasuredInv, ConsistencyIsCurrent, measurements

\* The steps that leave the checkpoint and the measurements alone.
LEMMA QuietStep ==
  ASSUME OperationInv, UNCHANGED <<checkpoint, measurements>>,
         deployed' \in 1..2, eligible' \subseteq eligible, message' \subseteq 0..MaxGeneration,
         clerk' \in [Clerk -> ClerkRow]
  PROVE  OperationInv'
  <1>0. OperationTypes /\ MeasuredInv /\ CoverInv
    BY DEF OperationInv
  <1>1. OperationTypes'
    BY <1>0 DEF OperationTypes, checkpoint, measurements
  <1>2. MeasuredInv'
    BY <1>0, MeasurementsStay
  <1>3. CoverInv'
    BY <1>0, CoverStays DEF checkpoint
  <1> QED
    BY <1>1, <1>2, <1>3 DEF OperationInv

LEMMA TakeMessageStep ==
  ASSUME OperationInv, NEW c \in Clerk, TakeMessage(c) PROVE OperationInv'
  <1>0. OperationTypes
    BY DEF OperationInv
  <1>1. PICK g \in message :
          /\ message' = message \ {g}
          /\ clerk' = [clerk EXCEPT ![c] = [step |-> "ensure", generation |-> g, found |-> "none"]]
          /\ UNCHANGED <<checkpoint, deployed, eligible, halted, troubles, measurements>>
    BY DEF TakeMessage
  <1>2. g \in 0..MaxGeneration
    BY <1>0 DEF OperationTypes
  <1>4. [step |-> "ensure", generation |-> g, found |-> "none"] \in ClerkRow
    BY <1>2 DEF ClerkRow
  <1>5. clerk' \in [Clerk -> ClerkRow]
    BY <1>0, <1>1, <1>4, ClerkBecomes
  <1> QED
    BY <1>0, <1>1, <1>5, QuietStep DEF OperationTypes

LEMMA EnsureStep ==
  ASSUME OperationInv, NEW c \in Clerk, Ensure(c) PROVE OperationInv'
  <1>0. OperationTypes /\ MeasuredInv /\ CoverInv
    BY DEF OperationInv
  <1>1. PICK ph \in {"candidates", "suggestions"} :
          /\ op' = IF op = Absent
                   THEN [Absent EXCEPT !.status = "pending", !.phase = ph, !.version = deployed]
                   ELSE op
          /\ clerk' = [clerk EXCEPT ![c].step = "page"]
          /\ UNCHANGED <<evaluated, repeated, carried, owner, deployed, eligible, message, measurements>>
    BY DEF Ensure
  <1>2. clerk' \in [Clerk -> ClerkRow]
    BY <1>0, <1>1, ClerkSteps
  <1>3. MeasuredInv'
    BY <1>0, <1>1, MeasurementsStay
  <1>4. CASE op = Absent
    <2> DEFINE q == [status |-> "pending", phase |-> ph, cursor |-> 0, candidate |-> 0,
                     generation |-> 0, version |-> deployed]
    <2>1. op' = q
      BY <1>1, <1>4 DEF Absent
    <2>2. deployed \in 0..2
      BY <1>0 DEF OperationTypes
    <2>3. q \in OperationRow
      BY <2>2, OperationAssumption DEF OperationRow, Status, Phase
    <2>4. op' \in OperationRow /\ op'.status = "pending" /\ op'.phase = ph /\ op'.cursor = 0 /\ op'.candidate = 0
      BY <2>1, <2>3
    <2>5. evaluated = {}
      BY <1>0, <1>4, OperationRows DEF CoverInv, CoverOf
    <2>6. \A r \in eligible : r \in Nat /\ r # 0
      BY <1>0, OperationAssumption DEF OperationTypes
    <2>7. AtCandidates(op', eligible', evaluated', carried', owner') /\ AtSuggestions(op', eligible', evaluated')
      BY <1>1, <2>4, <2>5, <2>6 DEF AtCandidates, AtSuggestions
    <2>8. CoverInv'
      BY <1>0, <1>1, <2>4, <2>7 DEF CoverInv, CoverOf
    <2>9. OperationTypes'
      BY <1>0, <1>1, <1>2, <2>4 DEF OperationTypes, measurements
    <2> QED
      BY <1>3, <2>8, <2>9 DEF OperationInv
  <1>5. CASE op # Absent
    <2>1. op' = op
      BY <1>1, <1>5
    <2>2. CoverInv'
      BY <1>0, <1>1, <2>1, CoverStays
    <2>3. OperationTypes'
      BY <1>0, <1>1, <1>2, <2>1 DEF OperationTypes, measurements
    <2> QED
      BY <1>3, <2>2, <2>3 DEF OperationInv
  <1> QED
    BY <1>4, <1>5

LEMMA ProcessStep ==
  ASSUME OperationInv, NEW c \in Clerk, Process(c) PROVE OperationInv'
  <1>0. OperationTypes /\ MeasuredInv /\ CoverInv
    BY DEF OperationInv
  <1>1. /\ op.generation < MaxGeneration /\ op.status # "completed"
        /\ SendsOf(c, op'.generation, op'.status = "running")
        /\ UNCHANGED <<deployed, eligible, message>>
    BY DEF Process
  <1>2. CASE op.version # deployed
    <2>1. op' = [op EXCEPT !.status = "failed"] /\ UNCHANGED <<evaluated, repeated, carried, owner, measurements>>
      BY <1>2 DEF Process
    <2>2. op \in OperationRow /\ "failed" \in Status
      BY <1>0 DEF OperationTypes, Status
    <2>3. /\ op' \in OperationRow /\ op'.status = "failed" /\ op'.phase = op.phase
          /\ op'.cursor = op.cursor /\ op'.candidate = op.candidate
      BY <2>1, <2>2, RowStatus, Zenon
    <2>4. op'.generation \in 0..MaxGeneration
      BY <2>3 DEF OperationRow
    <2>5. clerk' \in [Clerk -> ClerkRow]
      BY <1>0, <1>1, <2>4, SendsType
    <2>6. CoverInv'
      BY <1>0, <1>1, <2>1, <2>3, CoverStays
    <2>7. MeasuredInv'
      BY <1>0, <2>1, MeasurementsStay
    <2>8. OperationTypes'
      BY <1>0, <1>1, <2>1, <2>3, <2>5 DEF OperationTypes, measurements
    <2> QED
      BY <2>6, <2>7, <2>8 DEF OperationInv
  <1>3. CASE op.version = deployed
    <2>1. Page
      BY <1>3 DEF Process
    <2>2. /\ op' \in OperationRow /\ owner' \in Subject \union {0} /\ CoverInv' /\ MeasuredInv'
          /\ content' \in [Subject -> Content] /\ current' \in [Subject -> Measurement]
          /\ edit' \in [Subject -> {"none", "written", "locked"}]
      BY <1>1, <2>1, PageStep
    <2>3. op'.generation \in 0..MaxGeneration
      BY <2>2 DEF OperationRow
    <2>4. clerk' \in [Clerk -> ClerkRow]
      BY <1>0, <1>1, <2>3, SendsType
    <2>5. OperationTypes'
      BY <1>0, <1>1, <2>2, <2>4 DEF OperationTypes
    <2> QED
      BY <2>2, <2>5 DEF OperationInv
  <1> QED
    BY <1>2, <1>3

LEMMA LookUpStep ==
  ASSUME OperationInv, NEW c \in Clerk, LookUp(c) PROVE OperationInv'
  <1>0. OperationTypes
    BY DEF OperationInv
  <1>1. /\ clerk' = [clerk EXCEPT ![c].step = "record", ![c].found = op.status]
        /\ UNCHANGED <<checkpoint, deployed, eligible, message, measurements>>
    BY DEF LookUp
  <1>2. clerk[c] \in ClerkRow /\ op.status \in Status
    BY <1>0 DEF OperationTypes, OperationRow
  <1> DEFINE a == [clerk[c] EXCEPT !.step = "record"]
             b == [a EXCEPT !.found = op.status]
  <1>3. clerk' = [clerk EXCEPT ![c] = b]
    BY <1>0, <1>1 DEF OperationTypes
  <1>4. a \in ClerkRow
    BY <1>2 DEF ClerkRow
  <1> HIDE DEF a
  <1>5. b \in ClerkRow
    BY <1>2, <1>4 DEF ClerkRow
  <1> HIDE DEF b
  <1>6. clerk' \in [Clerk -> ClerkRow]
    BY <1>0, <1>3, <1>5, ClerkBecomes
  <1> QED
    BY <1>0, <1>1, <1>6, QuietStep DEF OperationTypes

LEMMA RecordStep ==
  ASSUME OperationInv, NEW c \in Clerk, Record(c) PROVE OperationInv'
  <1>0. OperationTypes /\ MeasuredInv /\ CoverInv
    BY DEF OperationInv
  <1>1. /\ op' = op \/ op' = [op EXCEPT !.status = "failed"]
        /\ clerk' = [clerk EXCEPT ![c] = Idle]
        /\ UNCHANGED <<evaluated, repeated, carried, owner, deployed, eligible, message, measurements>>
    BY DEF Record
  <1>2. op \in OperationRow /\ "failed" \in Status
    BY <1>0 DEF OperationTypes, Status
  <1>f. PICK q : q = [op EXCEPT !.status = "failed"]
    OBVIOUS
  <1>g. q \in OperationRow /\ q.status = "failed" /\ q.phase = op.phase
        /\ q.cursor = op.cursor /\ q.candidate = op.candidate
    BY <1>f, <1>2, RowStatus, Zenon
  <1>3. /\ op' \in OperationRow /\ op'.phase = op.phase
        /\ op'.cursor = op.cursor /\ op'.candidate = op.candidate
        /\ op'.status = "completed" => op.status = "completed"
    BY <1>1, <1>2, <1>f, <1>g
  <1>5. clerk' \in [Clerk -> ClerkRow]
    BY <1>0, <1>1, OperationRows, ClerkBecomes
  <1>6. CoverInv'
    BY <1>0, <1>1, <1>3, CoverStays
  <1>7. MeasuredInv'
    BY <1>0, <1>1, MeasurementsStay
  <1>8. OperationTypes'
    BY <1>0, <1>1, <1>3, <1>5 DEF OperationTypes, measurements
  <1> QED
    BY <1>6, <1>7, <1>8 DEF OperationInv

LEMMA ClerkQuietStep ==
  ASSUME OperationInv, NEW c \in Clerk,
         Refuse(c) \/ Send(c) \/ Error(c) \/ LoseClerk(c) \/ RepeatMessage(c)
  PROVE  OperationInv'
  <1>0. OperationTypes
    BY DEF OperationInv
  <1>1. op.generation \in 0..MaxGeneration /\ clerk[c] \in ClerkRow /\ clerk[c].generation \in 0..MaxGeneration
    BY <1>0 DEF OperationTypes, OperationRow, ClerkRow
  <1>2. CASE Refuse(c)
    <2>1. /\ SendsOf(c, op.generation, Overtaken(clerk[c].generation))
          /\ UNCHANGED <<checkpoint, deployed, eligible, message, measurements>>
      BY <1>2 DEF Refuse
    <2>2. Overtaken(clerk[c].generation) \in BOOLEAN
      BY DEF Overtaken
    <2>3. clerk' \in [Clerk -> ClerkRow]
      BY <1>0, <1>1, <2>1, <2>2, SendsType
    <2> QED
      BY <1>0, <2>1, <2>3, QuietStep DEF OperationTypes
  <1>3. CASE Send(c)
    <2>1. /\ clerk' = [clerk EXCEPT ![c] = Idle]
          /\ message' = message \union {clerk[c].generation}
          /\ UNCHANGED <<checkpoint, deployed, eligible, measurements>>
      BY <1>3 DEF Send
    <2>2. clerk' \in [Clerk -> ClerkRow]
      BY <1>0, <2>1, OperationRows, ClerkBecomes
    <2> QED
      BY <1>0, <1>1, <2>1, <2>2, QuietStep DEF OperationTypes
  <1>4. CASE Error(c)
    <2>1. /\ clerk' = [clerk EXCEPT ![c].step = "look"]
          /\ UNCHANGED <<checkpoint, deployed, eligible, message, measurements>>
      BY <1>4 DEF Error
    <2>2. clerk' \in [Clerk -> ClerkRow]
      BY <1>0, <2>1, ClerkSteps
    <2> QED
      BY <1>0, <2>1, <2>2, QuietStep DEF OperationTypes
  <1>5. CASE LoseClerk(c)
    <2>1. /\ clerk' = [clerk EXCEPT ![c] = Idle]
          /\ UNCHANGED <<checkpoint, deployed, eligible, measurements>>
          /\ \E g \in 0..clerk[c].generation : message' = message \union {g}
      BY <1>5 DEF LoseClerk
    <2>2. clerk' \in [Clerk -> ClerkRow]
      BY <1>0, <2>1, OperationRows, ClerkBecomes
    <2>3. \A g \in 0..clerk[c].generation : g \in 0..MaxGeneration
      BY <1>1, OperationAssumption
    <2> QED
      BY <1>0, <2>1, <2>2, <2>3, QuietStep DEF OperationTypes
  <1>6. CASE RepeatMessage(c)
    <2>1. /\ message' = message \union {clerk[c].generation}
          /\ UNCHANGED <<checkpoint, deployed, eligible, clerk, measurements>>
      BY <1>6 DEF RepeatMessage
    <2> QED
      BY <1>0, <1>1, <2>1, QuietStep DEF OperationTypes
  <1> QED
    BY <1>2, <1>3, <1>4, <1>5, <1>6

LEMMA SurroundingsStep ==
  ASSUME OperationInv, Command \/ Deploy \/ \E r \in Subject : Leave(r) PROVE OperationInv'
  <1>0. OperationTypes
    BY DEF OperationInv
  <1>1. op.generation \in 0..MaxGeneration
    BY <1>0 DEF OperationTypes, OperationRow
  <1>2. CASE Command
    <2>1. /\ message' = message \union {op.generation}
          /\ UNCHANGED <<checkpoint, deployed, eligible, clerk, measurements>>
      BY <1>2 DEF Command
    <2> QED
      BY <1>0, <1>1, <2>1, QuietStep DEF OperationTypes
  <1>3. CASE Deploy
    <2>1. /\ deployed' \in 1..2
          /\ UNCHANGED <<checkpoint, message, eligible, clerk, measurements>>
      BY <1>3 DEF Deploy
    <2> QED
      BY <1>0, <1>1, <2>1, QuietStep DEF OperationTypes
  <1>4. ASSUME NEW r \in Subject, Leave(r) PROVE OperationInv'
    <2>1. /\ eligible' \subseteq eligible
          /\ UNCHANGED <<checkpoint, deployed, message, clerk, measurements>>
      BY <1>4 DEF Leave
    <2> QED
      BY <1>0, <1>1, <2>1, QuietStep DEF OperationTypes
  <1> QED
    BY <1>2, <1>3, <1>4

LEMMA ChangeStep ==
  ASSUME OperationInv, NEW r \in Subject, Write(r) \/ Invalidate(r) \/ Commit(r) PROVE OperationInv'
  <1>0. OperationTypes /\ MeasuredInv /\ CoverInv
    BY DEF OperationInv
  <1>1. UNCHANGED <<checkpoint, deployed, eligible, message, clerk>>
    BY DEF Write, Invalidate, Commit
  <1>2. CoverInv'
    BY <1>0, <1>1, CoverStays DEF checkpoint
  <1>3. /\ MeasuredInv' /\ edit' \in [Subject -> {"none", "written", "locked"}]
        /\ content' \in [Subject -> Content] /\ current' \in [Subject -> Measurement]
    <2>1. CASE Write(r)
      BY <1>0, <2>1 DEF Write, OperationTypes, MeasuredInv, ConsistencyIsCurrent
    <2>2. CASE Invalidate(r)
      BY <1>0, <2>2 DEF Invalidate, OperationTypes, MeasuredInv, ConsistencyIsCurrent, Measurement
    <2>3. CASE Commit(r)
      <3>0. edit[r] = "locked" /\ content[r] = 1 /\ current[r] = Unmeasured
        BY <1>0, <2>3 DEF Commit, MeasuredInv
      <3>1. content' = [content EXCEPT ![r] = 2] /\ edit' = [edit EXCEPT ![r] = "none"]
            /\ current' = current /\ current[r] = Unmeasured
        BY <2>3, <3>0 DEF Commit
      <3> QED
        BY <1>0, <3>1 DEF OperationTypes, MeasuredInv, ConsistencyIsCurrent, Content
    <2> QED
      BY <2>1, <2>2, <2>3
  <1>4. OperationTypes'
    BY <1>0, <1>1, <1>3 DEF OperationTypes, checkpoint
  <1> QED
    BY <1>2, <1>3, <1>4 DEF OperationInv

LEMMA OperationStart == OperationInit => OperationInv
  <1> SUFFICES ASSUME OperationInit PROVE OperationInv
    OBVIOUS
  <1>1. OperationTypes
    BY OperationRows, OperationAssumption DEF OperationInit, OperationTypes, Content, Measurement
  <1>2. MeasuredInv
    BY DEF OperationInit, MeasuredInv, ConsistencyIsCurrent
  <1>3. CoverInv
    BY OperationRows DEF OperationInit, CoverInv, CoverOf
  <1> QED
    BY <1>1, <1>2, <1>3 DEF OperationInv

LEMMA OperationStep == OperationInv /\ [OperationNext]_operationVars => OperationInv'
  <1> SUFFICES ASSUME OperationInv, [OperationNext]_operationVars PROVE OperationInv'
    OBVIOUS
  <1>1. ASSUME NEW c \in Clerk, Serve(c) PROVE OperationInv'
    BY <1>1, TakeMessageStep, EnsureStep, ProcessStep, LookUpStep, RecordStep, ClerkQuietStep DEF Serve
  <1>2. CASE UNCHANGED operationVars
    <2>1. UNCHANGED <<checkpoint, deployed, eligible, message, clerk, measurements>>
      BY <1>2 DEF operationVars
    <2> QED
      BY <2>1, QuietStep DEF OperationInv, OperationTypes
  <1> QED
    BY <1>1, <1>2, ClerkQuietStep, SurroundingsStep, ChangeStep DEF OperationNext

LEMMA OperationInside ==
  ASSUME OperationInv PROVE OperationTypeOK /\ OperationCovers /\ ConsistencyIsCurrent
  <1>0. OperationTypes /\ MeasuredInv /\ CoverInv
    BY DEF OperationInv
  <1>1. OperationTypeOK
    BY <1>0 DEF OperationTypes, OperationTypeOK, OperationRow, Status, Phase
  <1>2. OperationCovers
    BY <1>0 DEF CoverInv, CoverOf, OperationCovers, AtEnd, GroupsDone, PairsDone, SuggestionsDone
  <1> QED
    BY <1>0, <1>1, <1>2 DEF MeasuredInv

\* In every behaviour of an operation on the whole catalog nothing is evaluated
\* twice, a completed operation was at every group and at every pair or
\* suggestion it owes, and no group keeps a measurement of what it was before
\* (curation/match_operations.py, curation/group_consistency.py).
THEOREM OperationsStand ==
  OperationSpec => [](OperationTypeOK /\ OperationCovers /\ ConsistencyIsCurrent)
  <1>1. OperationSpec => []OperationInv
    BY OperationStart, OperationStep, PTL DEF OperationSpec
  <1>2. OperationInv => OperationTypeOK /\ OperationCovers /\ ConsistencyIsCurrent
    BY OperationInside
  <1> QED
    BY <1>1, <1>2, PTL

\* Whenever jobs, nights and operations go on beside each other, changes are
\* followed up, nights work alone, and operations reach everything once and
\* leave no stale measurement (catalog/tasks.py, match_suggestion_signals.py,
\* curation/match_operations.py).
THEOREM JobsStand == JobsSpec => []JobsAreSound
  <1>1. /\ MaintenanceTypeOK /\ ChangesAreFollowedUp /\ ReconciledAlone
        /\ OperationTypeOK /\ OperationCovers /\ ConsistencyIsCurrent
        => JobsAreSound
    BY DEF JobsAreSound
  <1> QED
    BY <1>1, ChangesStand, OperationsStand, PTL DEF JobsSpec

=============================================================================
