-------------------------- MODULE MCSupportRequest --------------------------
(***************************************************************************)
(* ann asks, bob handles Support, root is a superuser; bob's access may    *)
(* change.  A behaviour keeps to one of four sets of limits: the work with *)
(* its escalations, the thread with its edits, a shorter one with pages,   *)
(* or an account deletion with its records.                                *)
(***************************************************************************)
EXTENDS SupportRequest
CONSTANTS ann, bob, root

OneOperator(a) == CASE a = root -> Capability
                    [] a = bob -> {"handle_support"}
                    [] OTHER -> {}

Asked == {[by |-> ann, linked |-> l, kind |-> "general"] : l \in BOOLEAN}
AskedForDeletion == {[by |-> ann, linked |-> l, kind |-> "account_deletion"] : l \in BOOLEAN}
AllAsked == Asked \cup AskedForDeletion

VARIABLE bound  \* the limits this behaviour keeps to

Bounds ==
    LET Handling == [kinds |-> {"general"}, classes |-> {"unclassified", "privacy"},
                 without |-> {}, edits |-> FALSE, pages |-> FALSE,
                 events |-> 4, messages |-> 1, grants |-> 1]
        Talking == [Handling EXCEPT !.classes = {"unclassified"}, !.edits = TRUE,
                             !.without = {"escalated", "priority_changed", "note_added"},
                             !.messages = 3, !.grants = 0]
        Reading == [Talking EXCEPT !.pages = TRUE, !.events = 3, !.messages = 2]
        Deleting == [Talking EXCEPT !.kinds = {"account_deletion"}, !.edits = FALSE,
                                 !.classes = {"unclassified", "privacy", "account_deletion"},
                                 !.events = 5, !.messages = 1]
    IN {Handling, Talking, Reading, Deleting}

Within ==
    /\ Len(history') <= bound.events /\ Len(messages') <= bound.messages
    /\ grants' <= bound.grants /\ request'.classification \in bound.classes
    /\ \A i \in 1..Len(history') : history'[i].type \notin bound.without
    /\ \/ bound.pages
       \/ page' = None /\ (request'.read = 0 => request.read = 0)
    /\ \/ bound.edits \/ request'.public = request.public
       \/ Len(messages') > Len(messages) \/ Len(history') > Len(history)

MCInit ==
    /\ Init /\ bound \in Bounds /\ request.kind \in bound.kinds
    /\ bound.edits => request.linked

MCSpec == MCInit /\ [][Next /\ Within /\ UNCHANGED bound]_<<vars, bound>>
=============================================================================
