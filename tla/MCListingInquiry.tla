------------------------- MODULE MCListingInquiry -------------------------
(* Instances of ListingInquiry.  a is the renter, b the submitter.           *)
EXTENDS ListingInquiry, TLC

CONSTANTS a, b, l1, l2
VARIABLE bound
mcvars == <<inquiryvars, bound>>

OwnedByB == [l \in Listing |-> b]

\* Reports, edits and decisions while both accounts go
Reporting == [listings |-> {l1}, messages |-> 2, reports |-> 2, restrict |-> FALSE]
\* Blocks and restrictions across two Listings
Restricting == [listings |-> {l1, l2}, messages |-> 2, reports |-> 1, restrict |-> TRUE]
Bounds == {Reporting, Restricting}

Within ==
    /\ \A i \in Inquiry : inquiry'[i] # "none" => i[2] \in bound.listings
    /\ \A i \in Inquiry : Len(message'[i]) <= bound.messages
    /\ Len(report') + Cardinality({t \in open' : t.kind = "report"}) <= bound.reports
    /\ bound.restrict \/ (blocked' = {} /\ suspended' = {} /\ Listing \ active' = {})
    /\ bound.restrict =>
           /\ \A t \in open' : t.kind # "edit"
           /\ \A i \in Inquiry : \A n \in DOMAIN message'[i] : message'[i][n].fresh

MCInit == InquiryInit /\ bound \in Bounds

MCSpec == MCInit /\ [][InquiryNext /\ Within /\ UNCHANGED bound]_mcvars
=============================================================================
