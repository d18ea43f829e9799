------------------------- MODULE MCSubmissionImages -------------------------
(* The order of three images is the concern of the Submitter alone.  Images   *)
(* are worked on and cleaned up: two of them, or one that is uploaded anew    *)
(* while tasks fail and workers are lost.  A behaviour keeps to one of these; *)
(* in the first no time passes, so that the liveness property is about the    *)
(* others.                                                                    *)
EXTENDS SubmissionImages

VARIABLE bound  \* the limits this behaviour keeps to

Bounds == {[images |-> 3, uploads |-> 3, workers |-> {}, mishaps |-> 0],
           [images |-> 2, uploads |-> 2, workers |-> Worker, mishaps |-> 0],
           [images |-> 1, uploads |-> 3, workers |-> Worker, mishaps |-> 1]}

Within ==
    /\ Cardinality(Existing') <= bound.images
    /\ uploads' <= bound.uploads
    /\ \A w \in Worker \ bound.workers : UNCHANGED worker[w]
    /\ bound.workers = {} => \A i \in Image : jobs'[i] = 0 /\ ~image'[i].old
    /\ faults' + Cardinality(again') <= bound.mishaps

MCInit == ImagesInit /\ bound \in Bounds

MCSpec == MCInit /\ [][ImagesNext /\ Within /\ UNCHANGED bound]_<<imageVars, bound>> /\ Fairness
=============================================================================
