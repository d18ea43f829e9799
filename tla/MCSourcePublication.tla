------------------------ MODULE MCSourcePublication ------------------------
(* One page is extracted under changing authority.  No single set of bounds  *)
(* shows everything within reach, so a behaviour keeps to one of three:      *)
(* many requests under one authority, a long sequence of changes of          *)
(* authority, or one with more changes of the publication mode.              *)
EXTENDS SourcePublication

VARIABLE bound  \* the limits this behaviour keeps to

Bounds == {[requests |-> 3, versions |-> 1, processing |-> 0, modes |-> 0],
           [requests |-> 2, versions |-> 2, processing |-> 2, modes |-> 0],
           [requests |-> 2, versions |-> 1, processing |-> 1, modes |-> 2]}

Within ==
    /\ issued' <= bound.requests
    /\ source'.grant.version <= bound.versions
    /\ source'.grant.processing <= bound.processing
    /\ source'.grant.mode <= bound.modes

MCInit == Init /\ bound \in Bounds

MCSpec == MCInit /\ [][Next /\ Within /\ UNCHANGED bound]_<<vars, bound>>
=============================================================================
