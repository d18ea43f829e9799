------------------------------ MODULE CatalogGrouping ------------------------------
(* Which Listings are one Property (apps/catalog/services.py, curation/).      *)
(* Operators merge two Properties or partition one, under claims that reserve  *)
(* them; measurements suggest pairs; Submitters' approved edits and Renters'    *)
(* favourites go on meanwhile. A merged Property stays as an alias of the one   *)
(* it was merged into. Every operation but the saving of a favourite runs in    *)
(* one transaction that holds the locks of the Properties it touches.           *)
EXTENDS Naturals, FiniteSets

CONSTANTS
    Property,
    Listing,
    Account,        \* renters who save favourites
    Operator,
    None,
    SubmittedBy,    \* the Operator whose Direct Listing it is, None for the others
    FirstHomes,     \* what the Property of each Listing may be at the beginning
    MaxEdits,       \* bound: approved edits of facts or of a Listing's Property
    MaxDecisions,   \* bound: merges, partitions and negative decisions
    MaxVersion      \* bound: deployments that change how pairs are scored

ASSUME GroupingAssumption ==
    /\ None \notin Property \union Operator /\ IsFiniteSet(Property)
    /\ SubmittedBy \in [Listing -> Operator \union {None}]
    /\ FirstHomes \subseteq [Listing -> Property]
    /\ MaxEdits \in Nat /\ MaxDecisions \in Nat /\ MaxVersion \in Nat

Root == "root"
Unborn == "unborn"
ASSUME AliasAssumption == Root \notin Property /\ Unborn \notin Property

\* The facts of a Property that identify it, as far as they tell two apart.
Facts == {"plain", "other"}
Pair == {pair \in SUBSET Property : Cardinality(pair) = 2}

VARIABLES
    alias,          \* Property.merged_into: a Property, Root, or Unborn before it exists
    home,           \* Listing.property
    origin,         \* where the Listing's first grouping event moved it from
    facts,          \* the identity facts of each Property
    favorite,       \* Favorite: pairs of account and Property
    route,          \* save_favorite: the root it has read and is about to lock
    suggestion,     \* PropertyMatchSuggestion, by pair
    claims,         \* open rows of PropertyMatchClaim and PropertyPartitionClaim
    parted,         \* suppression fingerprints of partition decisions
    scoring,        \* SCORING_VERSION of the deployed code
    edits,
    decisions

vars == <<alias, home, origin, facts, favorite, route, suggestion, claims, parted, scoring,
          edits, decisions>>
groups == <<alias, home, origin>>
bounds == <<scoring, edits, decisions>>

(***************************************************************************)
(* Reading the catalogue.                                                  *)
(***************************************************************************)

\* current_property_id: follow the aliases of al from p to their root.
Follow(al) ==
    LET up[n \in 0..Cardinality(Property)] ==
            IF n = 0 THEN [p \in Property |-> p]
            ELSE [p \in Property |->
                    LET q == up[n - 1][p] IN IF al[q] \in Property THEN al[q] ELSE q]
    IN up[Cardinality(Property)]

RootOf(p) == Follow(alias)[p]
Roots(al) == {p \in Property : al[p] = Root}
Held(h, p) == {l \in Listing : h[l] = p}
Current == {p \in Roots(alias) : Held(home, p) # {}}

\* property_identity_revision of both: facts and Listings, whoever measured them.
Fingerprint(f, h, pair) == [p \in pair |-> [facts |-> f[p], listings |-> Held(h, p)]]
Now(pair) == Fingerprint(facts, home, pair)

\* compare_properties: two Properties are alike when their facts agree.
Alike(f, pair) == \A p, q \in pair : f[p] = f[q]

Saved == Account \X Property  \* rows of Favorite

NoEvidence == [p \in {} |-> {}]
NoSuggestion == [state |-> "none", seen |-> NoEvidence, quiet |-> NoEvidence, version |-> 0]
Reviewable == {"pending", "snoozed", "due", "rejected"}

\* A claim, and whether its Operator has reviewed what is there now.
ClaimRow == [kind : {"match", "partition"}, on : SUBSET Property, by : Operator,
             suggested : BOOLEAN, listings : SUBSET Listing, fresh : BOOLEAN]
MatchClaim(a, pair, suggested) ==
    [kind |-> "match", on |-> pair, by |-> a, suggested |-> suggested,
     listings |-> {}, fresh |-> TRUE]
PartitionClaim(a, p, part) ==
    [kind |-> "partition", on |-> {p}, by |-> a, suggested |-> FALSE,
     listings |-> part, fresh |-> TRUE]

Init ==
    /\ home \in FirstHomes
    /\ alias = [p \in Property |-> IF Held(home, p) # {} THEN Root ELSE Unborn]
    /\ origin = [l \in Listing |-> None]
    /\ facts \in [Property -> {"plain"}]
    /\ favorite = {}
    /\ route = [a \in Account |-> None]
    /\ suggestion = [pair \in Pair |-> NoSuggestion]
    /\ claims = {}
    /\ parted = {}
    /\ edits = 0 /\ decisions = 0 /\ scoring = 0

(***************************************************************************)
(* evaluate_property_pair. Facts f and homes h are those of the transaction *)
(* it runs in.                                                              *)
(***************************************************************************)

Eligible(al, h, pair) == \A p \in pair : al[p] = Root /\ Held(h, p) # {}

Reusable(s, fp) ==
    /\ s.state \notin {"none", "due"}
    /\ s.seen = fp /\ s.version = scoring
    /\ fp \in parted => s.state = "rejected"

\* Mutant: a negative decision is forgotten whenever the pair is measured again.
KeepsQuietNever(s, fp) == FALSE

\* A negative decision holds for the evidence it was made on.
KeepsQuiet(s, fp) == s.state \in {"rejected", "snoozed"} /\ s.quiet = fp

\* Mutant: what a partition has separated is suggested again at once.
MeasuredForgetting(s, fp, alike) ==
    CASE KeepsQuiet(s, fp) -> [s EXCEPT !.seen = fp, !.version = scoring]
      [] ~KeepsQuiet(s, fp) /\ alike ->
            [state |-> "pending", seen |-> fp, quiet |-> NoEvidence, version |-> scoring]
      [] OTHER -> [state |-> "superseded", seen |-> fp, quiet |-> NoEvidence, version |-> scoring]

Measured(s, fp, alike) ==
    CASE fp \in parted -> [state |-> "rejected", seen |-> fp, quiet |-> fp, version |-> scoring]
      [] fp \notin parted /\ KeepsQuiet(s, fp) -> [s EXCEPT !.seen = fp, !.version = scoring]
      [] fp \notin parted /\ ~KeepsQuiet(s, fp) /\ alike ->
            [state |-> "pending", seen |-> fp, quiet |-> NoEvidence, version |-> scoring]
      [] OTHER -> [state |-> "superseded", seen |-> fp, quiet |-> NoEvidence, version |-> scoring]

Evaluated(s, al, f, h, pair, persist) ==
    LET fp == Fingerprint(f, h, pair) IN
    IF \/ ~Eligible(al, h, pair)
       \/ Reusable(s, fp)
       \/ s.state = "none" /\ ~Alike(f, pair) /\ ~persist
    THEN s
    ELSE Measured(s, fp, Alike(f, pair))

\* Changed evidence, or another scoring of it, ends the open claim on the pair.
ChangedBy(s, t) == s.state # "none" /\ <<s.seen, s.version>> # <<t.seen, t.version>>

(* The claims after a transaction that changed what is reviewed of the touched *)
(* Properties, changed the favourites or pending suggestions of the listed      *)
(* ones, which only a partition's revision includes, and ended the match claims *)
(* on some pairs.                                                               *)
ClaimsAfter(touched, listed, ended) ==
    LET changed(c) == IF c.kind = "match" THEN touched ELSE touched \union listed
    IN {[c EXCEPT !.fresh = @ /\ c.on \intersect changed(c) = {}] :
            c \in {d \in claims : d.kind = "match" => d.on \notin ended}}

\* Of which Properties the pending suggestions are other ones after this.
Relisted(after) ==
    UNION {pair \in Pair : /\ after[pair] # suggestion[pair]
                           /\ "pending" \in {after[pair].state, suggestion[pair].state}}

(* candidate_property_ids: which of the other eligible roots its bounded index  *)
(* paths bring up hangs on facts that are not told apart here.                  *)
Candidates(p) == {q \in Property \ {p} : Eligible(alias, home, {p, q})}

\* measure_candidates_for_property, measure_indexed_candidate_page and rescoring.
Measure(pair, persist) ==
    LET after == Evaluated(suggestion[pair], alias, facts, home, pair, persist) IN
    /\ after # suggestion[pair]
    /\ suggestion' = [suggestion EXCEPT ![pair] = after]
    /\ claims' = ClaimsAfter({}, Relisted(suggestion'),
                             IF ChangedBy(suggestion[pair], after) THEN {pair} ELSE {})
    /\ UNCHANGED <<groups, facts, favorite, route, parted, bounds>>

\* snoozed_until passes.
SnoozeEnds(pair) ==
    /\ suggestion[pair].state = "snoozed"
    /\ suggestion' = [suggestion EXCEPT ![pair].state = "due"]
    /\ UNCHANGED <<groups, facts, favorite, route, claims, parted, bounds>>

(***************************************************************************)
(* Claims reserve Properties for one Operator and one review.              *)
(***************************************************************************)

\* _eligible: no Operator decides about his own Direct Listing.
Involved(a, S) == \E l \in Listing : home[l] \in S /\ SubmittedBy[l] = a

OpenOn(S) == {c \in claims : c.on \intersect S # {}}

\* _current_suggestion: pending, and measured on the evidence of now.
SuggestsNow(pair) ==
    suggestion[pair].state = "pending" /\ suggestion[pair].seen = Now(pair)

\* _validate_locked_claim_context and _existing_actor_claim_or_raise
MatchAllowed(a, pair, suggested) ==
    /\ pair \subseteq Current
    /\ ~Involved(a, pair)
    /\ \A c \in OpenOn(pair) : c.kind = "match" /\ c.by = a /\ c.on = pair
    /\ suggested => SuggestsNow(pair)

(* claim_comparison. The client's revision equals that of now, so the review  *)
(* starts fresh; an own open claim is renewed and may learn of the suggestion. *)
ClaimMatch(a, pair, suggested) ==
    /\ MatchAllowed(a, pair, suggested)
    /\ \A c \in OpenOn(pair) : c.suggested => suggested
    /\ claims' = {c \in claims : ~(c.kind = "match" /\ c.by = a /\ c.on = pair)}
                    \union {MatchClaim(a, pair, suggested)}
    /\ UNCHANGED <<groups, facts, favorite, route, suggestion, parted, bounds>>

(* _refresh_stale_suggestion_for_claim: a transaction of its own measures a    *)
(* stale pair again, and the Operator's open claim survives if it is pending.  *)
RefreshStale(a, pair) ==
    /\ pair \subseteq Current /\ ~Involved(a, pair)
    /\ suggestion[pair].state = "pending" /\ ~SuggestsNow(pair)
    /\ \A c \in OpenOn(pair) : c.kind = "match" /\ c.by = a /\ c.on = pair
    /\ LET after == Evaluated(suggestion[pair], alias, facts, home, pair, TRUE) IN
       /\ suggestion' = [suggestion EXCEPT ![pair] = after]
       /\ claims' = IF after.state = "pending"
                    THEN {[c EXCEPT !.suggested = @ \/ c.on = pair] : c \in claims}
                    ELSE ClaimsAfter({}, {}, {pair})
    /\ UNCHANGED <<groups, facts, favorite, route, parted, bounds>>

\* claim_partition, of a proper part of the Listings of p.
ClaimPartition(a, p, part) ==
    /\ p \in Current /\ part \subseteq Held(home, p) /\ part \notin {{}, Held(home, p)}
    /\ ~Involved(a, {p})
    /\ \A c \in OpenOn({p}) : c.kind = "partition" /\ c.by = a
    /\ claims' = {c \in claims : ~(c.kind = "partition" /\ c.by = a /\ c.on = {p})}
                    \union {PartitionClaim(a, p, part)}
    /\ UNCHANGED <<groups, facts, favorite, route, suggestion, parted, bounds>>

\* CLAIM_LIFETIME passes.
ClaimExpires(c) ==
    /\ claims' = claims \ {c}
    /\ UNCHANGED <<groups, facts, favorite, route, suggestion, parted, bounds>>

(***************************************************************************)
(* Decisions.                                                              *)
(***************************************************************************)

Decided ==
    /\ decisions < MaxDecisions
    /\ decisions' = decisions + 1
    /\ UNCHANGED <<edits, scoring>>

\* An account that saved the duplicate has saved the target, once.
FavoritesMerged(target, duplicate) ==
    {IF f[2] = duplicate THEN <<f[1], target>> ELSE f : f \in favorite}

(* rebase_suggestions_after_merge: what was suggested about either Property is *)
(* measured anew between the roots of now, or superseded.                      *)
Rebased(al, f, h, merged) ==
    LET root(pair) == {Follow(al)[p] : p \in pair}
        adjacent == {pair \in Pair : /\ pair \intersect merged # {}
                                     /\ suggestion[pair].state \in Reviewable}
        renewed == {root(pair) : pair \in {q \in adjacent : root(q) \in Pair}}
    IN [pair \in Pair |->
          IF pair \in renewed /\ Eligible(al, h, pair)
          THEN Evaluated(suggestion[pair], al, f, h, pair, TRUE)
          ELSE IF pair \in adjacent THEN [suggestion[pair] EXCEPT !.state = "superseded"]
          ELSE suggestion[pair]]

\* merge_properties: Listings, with an event each, and favourites go to the target.
Merge(target, duplicate) ==
    /\ alias' = [alias EXCEPT ![duplicate] = target]
    /\ home' = [l \in Listing |-> IF home[l] = duplicate THEN target ELSE home[l]]
    /\ origin' = [l \in Listing |-> IF home[l] = duplicate /\ origin[l] = None
                                    THEN duplicate ELSE origin[l]]
    /\ favorite' = FavoritesMerged(target, duplicate)

(* approve_comparison: the survivor takes the facts the Operator chose, and the *)
(* suggestion, if the review is of one, is approved.                             *)
Approve(c, target, duplicate, chosen) ==
    LET pair == {target, duplicate}
        rebased == Rebased(alias', facts', home', pair)
    IN
    /\ c.kind = "match" /\ c.on = pair
    /\ c.fresh /\ ~Involved(c.by, pair)
    /\ c.suggested => SuggestsNow(pair)
    /\ pair \subseteq Current /\ chosen \in {facts[target], facts[duplicate]}
    /\ facts' = [facts EXCEPT ![target] = chosen]
    /\ Merge(target, duplicate)
    /\ suggestion' = IF c.suggested
                     THEN [rebased EXCEPT ![pair] = [suggestion[pair] EXCEPT !.state = "approved"]]
                     ELSE rebased
    /\ claims' = ClaimsAfter(pair, Relisted(rebased),
                             {pair} \union {q \in Pair : rebased[q] # suggestion[q]})
    /\ Decided /\ UNCHANGED <<route, parted>>

\* decide_suggestion: not the same Property, or ask again later.
Decide(c, outcome) ==
    LET pair == c.on IN
    /\ c.kind = "match" /\ c.suggested
    /\ c.fresh /\ ~Involved(c.by, pair)
    /\ SuggestsNow(pair) /\ pair \subseteq Current
    /\ suggestion' = [suggestion EXCEPT ![pair] =
                        [suggestion[pair] EXCEPT !.state = outcome, !.quiet = Now(pair)]]
    /\ claims' = claims \ {c}
    /\ Decided /\ UNCHANGED <<groups, facts, favorite, route, parted>>

(* _historical_options: the empty Property all the chosen Listings were first  *)
(* moved from, if it was merged into this one.                                 *)
Restorable(p, part) ==
    {q \in Property : /\ \A l \in part : origin[l] = q
                      /\ alias[q] = p /\ Held(home, q) = {}}

(* confirm_partition moves the Listings to a Property that is restored, new, or *)
(* (in the administration) an existing group, and keeps the two apart.           *)
Separate(c, dest, al, f) ==
    LET p == CHOOSE q \in Property : c.on = {q}
        pair == {p, dest}
        h == [l \in Listing |-> IF l \in c.listings THEN dest ELSE home[l]]
        after == Evaluated(suggestion[pair], al, f, h, pair, TRUE)
    IN
    /\ alias' = al /\ home' = h /\ facts' = f
    /\ origin' = [l \in Listing |-> IF l \in c.listings /\ origin[l] = None
                                    THEN p ELSE origin[l]]
    /\ suggestion' = [suggestion EXCEPT ![pair] =
                        [after EXCEPT !.state = "rejected", !.quiet = after.seen]]
    /\ parted' = parted \union {Fingerprint(f, h, pair)}
    /\ claims' = {d \in ClaimsAfter(pair, {}, {pair}) : p \notin d.on}
    /\ Decided /\ UNCHANGED <<favorite, route>>

Partitioning(c, p) ==
    /\ c.kind = "partition" /\ c.on = {p}
    /\ c.fresh /\ ~Involved(c.by, {p}) /\ p \in Current

PartitionRestore(c, p, q) ==
    /\ Partitioning(c, p)
    /\ q \in Restorable(p, c.listings)
    /\ Separate(c, q, [alias EXCEPT ![q] = Root], facts)

PartitionNew(c, p, q, stated) ==
    /\ Partitioning(c, p)
    /\ alias[q] = Unborn
    /\ Separate(c, q, [alias EXCEPT ![q] = Root], [facts EXCEPT ![q] = stated])

\* administrative_reassign_listing: the other group is locked and looked at too.
PartitionExisting(c, p, q) ==
    /\ Partitioning(c, p)
    /\ q \in Roots(alias) \ {p} /\ ~Involved(c.by, {q})
    /\ Separate(c, q, alias, facts)

(***************************************************************************)
(* What else changes Properties and Listings.                              *)
(***************************************************************************)

(* materialize_direct_listing and materialize_external_listing: an approved or *)
(* extracted Listing brings the facts of its Property, and a reviewer may name *)
(* another current Property for a Direct one.                                  *)
Materialize(l, p, stated) ==
    /\ edits < MaxEdits
    /\ alias[p] = Root
    /\ p = home[l] \/ SubmittedBy[l] # None
    /\ edits' = edits + 1
    /\ home' = [home EXCEPT ![l] = p]
    /\ facts' = [facts EXCEPT ![p] = stated]
    /\ claims' = ClaimsAfter({p, home[l]}, {}, {})
    /\ UNCHANGED <<alias, origin, favorite, route, suggestion, parted, decisions, scoring>>

\* A deployment brings a new scoring of pairs.
NewScoring ==
    /\ scoring < MaxVersion
    /\ scoring' = scoring + 1
    /\ UNCHANGED <<groups, facts, favorite, route, suggestion, claims, parted, edits, decisions>>

\* save_favorite reads the root without a lock ...
SaveFavorite(a, p) ==
    /\ route[a] = None /\ alias[p] # Unborn
    /\ route' = [route EXCEPT ![a] = RootOf(p)]
    /\ UNCHANGED <<groups, facts, favorite, suggestion, claims, parted, bounds>>

\* Mutant: the Property is saved although it has been merged meanwhile.
SaveAtReadRoot(a) ==
    /\ route[a] \in Property
    /\ favorite' = favorite \union {<<a, route[a]>>}
    /\ route' = [route EXCEPT ![a] = None]
    /\ claims' = ClaimsAfter({}, {route[a]}, {})
    /\ UNCHANGED <<groups, facts, suggestion, parted, bounds>>

(* ... and _save_favorite_at_root looks again under it: a merged Property sends *)
(* it back to follow the alias, one without active Listings is not found.       *)
SaveAtRoot(a) ==
    /\ route[a] \in Property
    /\ IF alias[route[a]] # Root
       THEN route' = [route EXCEPT ![a] = RootOf(route[a])] /\ UNCHANGED <<favorite, claims>>
       ELSE /\ route' = [route EXCEPT ![a] = None]
            /\ favorite' = IF Held(home, route[a]) = {} THEN favorite
                           ELSE favorite \union {<<a, route[a]>>}
            /\ claims' = IF favorite' = favorite THEN claims
                         ELSE ClaimsAfter({}, {route[a]}, {})
    /\ UNCHANGED <<groups, facts, suggestion, parted, bounds>>

Unsave(a, p) ==
    /\ <<a, p>> \in favorite
    /\ favorite' = favorite \ {<<a, p>>}
    /\ claims' = ClaimsAfter({}, {p}, {})
    /\ UNCHANGED <<groups, facts, route, suggestion, parted, bounds>>

Curation ==
    \/ \E a \in Operator, pair \in Pair :
          \/ \E suggested \in BOOLEAN : ClaimMatch(a, pair, suggested)
          \/ RefreshStale(a, pair)
    \/ \E a \in Operator, p \in Property, part \in SUBSET Listing : ClaimPartition(a, p, part)
    \/ \E c \in claims :
          \/ ClaimExpires(c)
          \/ \E p, q \in Property, chosen \in Facts : p # q /\ Approve(c, p, q, chosen)
          \/ \E outcome \in {"rejected", "snoozed"} : Decide(c, outcome)
          \/ \E p, q \in Property :
                \/ PartitionRestore(c, p, q)
                \/ \E stated \in Facts : PartitionNew(c, p, q, stated)
                \/ PartitionExisting(c, p, q)

Next ==
    \/ \E pair \in Pair : SnoozeEnds(pair)
    \/ \E p \in Property, persist \in BOOLEAN : \E q \in Candidates(p) : Measure({p, q}, persist)
    \/ Curation
    \/ NewScoring
    \/ \E l \in Listing, p \in Property, stated \in Facts : Materialize(l, p, stated)
    \/ \E a \in Account : SaveAtRoot(a) \/ \E p \in Property : SaveFavorite(a, p) \/ Unsave(a, p)

Spec == Init /\ [][Next]_vars

-----------------------------------------------------------------------------

Evidence == UNION {[pair -> [facts : Facts, listings : SUBSET Listing]] : pair \in Pair \union {{}}}

TypeOK ==
    /\ alias \in [Property -> Property \union {Root, Unborn}]
    /\ home \in [Listing -> {p \in Property : alias[p] # Unborn}]
    /\ origin \in [Listing -> {p \in Property : alias[p] # Unborn} \union {None}]
    /\ facts \in [Property -> Facts]
    /\ favorite \subseteq Saved
    /\ route \in [Account -> Property \union {None}]
    /\ \A pair \in Pair :
          /\ suggestion[pair].state \in Reviewable \union {"none", "approved", "superseded"}
          /\ suggestion[pair].version \in 0..scoring
          /\ DOMAIN suggestion[pair].seen \in {{}, pair}
          /\ suggestion[pair].state # "none" => DOMAIN suggestion[pair].seen = pair
    /\ claims \subseteq ClaimRow
    /\ \A c \in claims : Cardinality(c.on) = IF c.kind = "match" THEN 2 ELSE 1
    /\ edits \in 0..MaxEdits /\ decisions \in 0..MaxDecisions /\ scoring \in 0..MaxVersion

(* No Listing and no favourite is left with a Property that is merged away,    *)
(* although favourites are saved to a root read before the lock.               *)
NothingAtAliases ==
    /\ \A l \in Listing : alias[home[l]] = Root
    /\ \A f \in favorite : alias[f[2]] = Root

(* Two reviews never go on about one Property at once, be they comparisons or  *)
(* partitions, of one Operator or of two.                                      *)
OneReviewPerProperty ==
    \A c, d \in claims : c.on \intersect d.on # {} => c = d

\* What waits for an Operator is about two Properties that exist as such.
SuggestionsAreCurrent ==
    \A pair \in Pair : suggestion[pair].state \in Reviewable => pair \subseteq Roots(alias)

(* Two Properties that an Operator separated are not suggested to be one again *)
(* on the very evidence of the separation.                                     *)
PartitionHolds ==
    \A pair \in Pair :
        suggestion[pair].state = "pending" => suggestion[pair].seen \notin parted

(* A negative decision is reopened only by other evidence, however often the   *)
(* pair is measured and whatever is merged around it.                          *)
RejectionHolds ==
    [][\A pair \in Pair :
          suggestion[pair].state = "rejected" /\ suggestion'[pair].state = "pending" =>
              suggestion'[pair].seen # suggestion[pair].quiet]_vars

(* What an account has saved it keeps under the Property's current root, unless *)
(* it removes it itself.                                                        *)
FavoritesFollow ==
    [][\A a \in Account, p \in Property :
          <<a, p>> \in favorite =>
              <<a, Follow(alias')[p]>> \in favorite' \/ Unsave(a, p)]_vars

(* What holds of the groups together: no Property is under two reviews, nothing *)
(* is suggested that the groups rule out, and favourites go where groups go.    *)
GroupsAreSound ==
    /\ [](TypeOK /\ OneReviewPerProperty /\ SuggestionsAreCurrent /\ PartitionHolds)
    /\ FavoritesFollow
=============================================================================
