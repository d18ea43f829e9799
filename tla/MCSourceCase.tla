---------------------------- MODULE MCSourceCase ----------------------------
(* Instances of SourceCase, each with the bounds that its question needs.   *)
EXTENDS SourceRepairs, TLC

CONSTANTS c1, c2, s1, s2, h1, h2, o1, o2

VARIABLE bound  \* the instance

TwoSubmitters == (c1 :> s1) @@ (c2 :> s2)
OneSubmitter == (c1 :> s1) @@ (c2 :> s1)
AnOperatorsOwn == (c1 :> s1) @@ (c2 :> o2)
AllSubmitters == {TwoSubmitters, OneSubmitter, AnOperatorsOwn}

Smallest == [submitters |-> TwoSubmitters, cases |-> {c1}, hosts |-> {h1},
             operators |-> {o1}, revision |-> 1, transfers |-> 1, reservations |-> 1,
             versions |-> 1, generations |-> 0, repairs |-> 0, losses |-> FALSE]

\* Two cases want one host.
Competing == [Smallest EXCEPT !.cases = {c1, c2}, !.reservations = 2]
\* Discovery in slices, again after a failure
Discovering == [Smallest EXCEPT !.reservations = 2, !.generations = 1,
                                !.losses = TRUE]
\* Repairs during transfers
Repairing == [Smallest EXCEPT !.operators = {o1, o2}, !.transfers = 3, !.versions = 3,
                              !.repairs = 1]
\* A replacement of the approved profile and corrections, at another host
Replacing == [Smallest EXCEPT !.hosts = {h1, h2}, !.revision = 3, !.reservations = 2,
                              !.versions = 2]
\* Transfers while a replacement is reviewed
Transferring == [Smallest EXCEPT !.operators = {o1, o2}, !.transfers = 2, !.revision = 2,
                                 !.reservations = 2, !.versions = 2]
\* Two websites of one submitter in a row
Moving == [Smallest EXCEPT !.submitters = OneSubmitter, !.cases = {c1, c2}, !.revision = 2]
\* An operator who has a website
Serving == [Smallest EXCEPT !.submitters = AnOperatorsOwn, !.cases = {c2},
                            !.operators = {o1, o2}, !.transfers = 2]

CONSTANT Bounds
AllBounds == {Competing, Discovering, Repairing, Replacing, Transferring, Moving, Serving}

Within ==
    /\ submitter' = bound.submitters
    /\ \A c \in Case :
          /\ row'[c].state # "none" => c \in bound.cases
          /\ row'[c].host \in bound.hosts \cup {NoOne}
          /\ row'[c].responsible \in bound.operators \cup {NoOne}
          /\ row'[c].revision <= bound.revision
          /\ row'[c].transfers <= bound.transfers
    /\ Cardinality(Used') <= bound.reservations
    /\ Cardinality(Written') <= bound.versions
    /\ \A r \in Reservation : reservation'[r].generation <= bound.generations
    /\ Cardinality(repairs') <= bound.repairs
    \* which of the cases is introduced first makes no difference
    /\ row'[c2].state # "none" => c1 \notin bound.cases \/ row'[c1].state # "none"
    /\ bound.losses \/
          /\ \A r \in Used' : [reservation |-> r, generation |-> 0] \in broker'
          /\ \A m \in Message : fetching'[m] < fetching[m] => reservation' # reservation

MCInit == RepairsInit /\ bound \in Bounds /\ submitter = bound.submitters

MCSpec ==
    /\ MCInit
    /\ [][RepairsNext /\ Within /\ UNCHANGED bound]_<<repairVars, bound>>
    /\ Fairness
=============================================================================
