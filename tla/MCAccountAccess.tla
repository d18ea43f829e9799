--------------------------- MODULE MCAccountAccess ---------------------------
(***************************************************************************)
(* DecisionNotification and AccountAccess on small instances.  A behaviour *)
(* is about the mail of a decision, about codes for phones or about links  *)
(* and access; what it is not about rests in an initial state.             *)
(***************************************************************************)
EXTENDS DecisionNotification, AccountAccess

VARIABLE bound

(* codes: attempts side by side; two accounts that want one phone; codes   *)
(* that expire or never arrive; one account that asks for codes for two    *)
(* phones.  access: resets; access of two accounts.                        *)
Bounds ==
    {[part |-> "mail"],
     [part |-> "codes", accounts |-> {1}, phones |-> {1}, requests |-> {"q1", "q2"}, codes |-> 3,
      tries |-> {"t1", "t2"}, expire |-> FALSE, lost |-> FALSE, grants |-> FALSE],
     [part |-> "codes", accounts |-> {1, 2}, phones |-> {1}, requests |-> {"q1", "q2"},
      codes |-> 2, tries |-> {"t1"}, expire |-> FALSE, lost |-> FALSE, grants |-> FALSE],
     [part |-> "codes", accounts |-> {1}, phones |-> {1}, requests |-> {"q1"}, codes |-> 2,
      tries |-> {"t1", "t2"}, expire |-> TRUE, lost |-> TRUE, grants |-> FALSE],
     [part |-> "codes", accounts |-> {1}, phones |-> {1, 2}, requests |-> {"q1"}, codes |-> 2,
      tries |-> {"t1"}, expire |-> FALSE, lost |-> FALSE, grants |-> TRUE],
     [part |-> "access", accounts |-> {1}, links |-> Link],
     [part |-> "access", accounts |-> {1, 2}, links |-> {}]}

WithinCodes ==
    /\ \A a \in Account : /\ a \notin bound.accounts => UNCHANGED account[a]
                          /\ account'[a].submitter => account'[a].phoneAt
    /\ \A q \in CodeRequest : request'[q] # Nothing
          => /\ request'[q].phone \in bound.phones /\ q \in bound.requests
             /\ request'[q].grants => bound.grants
    /\ \A c \in Code : challenge'[c] # Nothing
          => /\ c <= bound.codes
             /\ bound.expire \/ challenge'[c].age # "expired"
             /\ bound.lost \/ challenge'[c].sent
    /\ \A t \in Try \ bound.tries : UNCHANGED attempt[t]

WithinAccess ==
    /\ \A a \in Account : /\ a \notin bound.accounts => UNCHANGED account[a]
                          /\ ~account'[a].submitter
                          /\ bound.links # {} \/ account'[a].logins = 0
    /\ \A l \in Link : link'[l] # Nothing => l \in bound.links

MCInit ==
    /\ bound \in Bounds
    /\ Init /\ AccountInit
    /\ bound.part # "mail" => status = "pending"
    /\ bound.part = "mail" => \A a \in Account : ~account[a].made
    /\ bound.part = "codes"
          => \A a \in Account : account[a].made => a = 1 /\ account[a].email = 1
    /\ bound.part = "access" => account[1].made

MCNext ==
    /\ UNCHANGED bound
    /\ \/ bound.part = "mail" /\ Next /\ UNCHANGED accountVars
       \/ bound.part = "codes" /\ CodeNext /\ WithinCodes /\ UNCHANGED vars
       \/ bound.part = "access" /\ AccessNext /\ WithinAccess /\ UNCHANGED vars

MCSpec == MCInit /\ [][MCNext]_<<vars, accountVars, bound>> /\ Fairness
=============================================================================
