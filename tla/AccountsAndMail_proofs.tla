------------------------- MODULE AccountsAndMail_proofs -------------------------
(***************************************************************************)
(* Proofs about the mail of a decision (DecisionNotification), for any     *)
(* number of retries, messages, dispatches and lost processes, about       *)
(* accounts (AccountAccess), for any accounts, codes and statements, and   *)
(* about what two accounts say to each other (ListingInquiry), for any     *)
(* accounts, Listings, messages and reports.                               *)
(***************************************************************************)
EXTENDS DecisionNotification, AccountAccess, ListingInquiry,
        FiniteSetTheorems, WellFoundedInduction, TLAPS

-----------------------------------------------------------------------------
(* The mail of a decision.                                                  *)

\* What a mail already out and not yet committed owes: a commit or a loss.
Uncommitted == IF tx.phase = "sent" THEN 1 ELSE 0

(* The inductive invariant: before a delivery is recorded every mail but the   *)
(* one being committed was paid for by a lost worker; after it the row is      *)
(* never locked for sending again.                                             *)
MailInv ==
    /\ TypeOK
    /\ status # "delivered" => mails <= losses + Uncommitted
    /\ status = "delivered" => mails > 0 /\ mails <= losses + 1 /\ kind = "none" /\ tx = NoTx
    /\ tx.phase = "none" => tx = NoTx
    /\ tx.phase = "sent" => mails > 0

LEMMA QueueTyped ==
    TypeOK => \A r \in Retries : Queue(r) \/ UNCHANGED messages
                                    => messages' \in [Retries -> 0..MaxMessages]
<1> SUFFICES ASSUME TypeOK, NEW r \in Retries, Queue(r) \/ UNCHANGED messages
             PROVE  messages' \in [Retries -> 0..MaxMessages]
  OBVIOUS
<1>1. messages[r] \in 0..MaxMessages
  BY DEF TypeOK
<1>2. messages[r] < MaxMessages => messages[r] + 1 \in 0..MaxMessages
  BY <1>1, NotificationAssumption DEF NotificationAssumption
<1>3. CASE Queue(r)
  BY <1>2, <1>3 DEF TypeOK, Queue
<1>4. CASE UNCHANGED messages
  BY <1>4 DEF TypeOK
<1> QED BY <1>3, <1>4

\* Initially nothing was mailed.
LEMMA InitMail == Init => MailInv
BY NotificationAssumption DEF NotificationAssumption, Init, MailInv, TypeOK, NoTx, Retries, Uncommitted

\* Every step keeps the account of mails.
LEMMA NextMail == MailInv /\ [Next]_vars => MailInv'
<1> SUFFICES ASSUME MailInv, [Next]_vars PROVE MailInv'
  OBVIOUS
<1> USE NotificationAssumption DEF NotificationAssumption
<1>1. MaxRetries \in Retries
  BY DEF Retries
<1>2. \A r \in Retries : Queue(r) \/ UNCHANGED messages
                             => messages' \in [Retries -> 0..MaxMessages]
  BY QueueTyped DEF MailInv
<1>3. CASE DispatchPending
  BY <1>3 DEF DispatchPending, MailInv, TypeOK, Uncommitted
<1>4. CASE Dispatch
  <2>1. messages' \in [Retries -> 0..MaxMessages]
    BY <1>1, <1>4, <1>2 DEF Dispatch
  <2> QED BY <1>4, <2>1 DEF Dispatch, MailInv, TypeOK, Uncommitted
<1>5. CASE Refuse
  <2>1. messages' \in [Retries -> 0..MaxMessages]
    BY <1>1, <1>5, <1>2 DEF Refuse
  <2> QED BY <1>5, <2>1 DEF Refuse, MailInv, TypeOK, Uncommitted
<1>6. CASE LoseCall
  BY <1>6 DEF LoseCall, MailInv, TypeOK, Uncommitted
<1>7. CASE Receive
  <2>1. PICK r \in Retries : Take(r)
    BY <1>7 DEF Receive
  <2>2. messages' \in [Retries -> 0..MaxMessages]
    BY <2>1 DEF Take, MailInv, TypeOK
  <2> QED BY <2>1, <2>2 DEF Take, Unlocked, MailInv, TypeOK, NoTx, Retries, Uncommitted
<1>8. CASE Send
  BY <1>8 DEF Send, MailInv, TypeOK, NoTx, Uncommitted
<1>9. CASE CommitDelivered
  BY <1>9 DEF CommitDelivered, MailInv, TypeOK, NoTx, Retries, Uncommitted
<1>10. CASE CommitFailed
  <2>1. messages' \in [Retries -> 0..MaxMessages]
    <3>1. CASE tx.retries > 0
      <4>1. tx.retries - 1 \in Retries
        BY <3>1 DEF MailInv, TypeOK, Retries
      <4> QED BY <1>10, <3>1, <4>1, <1>2 DEF CommitFailed
    <3>2. CASE ~(tx.retries > 0)
      BY <1>10, <3>2 DEF CommitFailed, MailInv, TypeOK
    <3> QED BY <3>1, <3>2
  <2> QED BY <1>10, <2>1 DEF CommitFailed, MailInv, TypeOK, NoTx, Retries, Uncommitted
<1>11. CASE LoseWorker
  <2>1. tx.retries \in Retries
    BY DEF MailInv, TypeOK
  <2>2. messages' \in [Retries -> 0..MaxMessages]
    BY <1>11, <2>1, <1>2 DEF LoseWorker
  <2> QED BY <1>11, <2>2 DEF LoseWorker, MailInv, TypeOK, NoTx, Retries, Uncommitted
<1>12. CASE Retry
  BY <1>12 DEF Retry, Unlocked, MailInv, TypeOK, NoTx, Uncommitted
<1>13. CASE UNCHANGED vars
  BY <1>13 DEF vars, MailInv, TypeOK, Uncommitted
<1> QED BY <1>3, <1>4, <1>5, <1>6, <1>7, <1>8, <1>9, <1>10, <1>11, <1>12, <1>13 DEF Next, Deliver

\* MailInv holds in every reachable state of the mail of a decision.
THEOREM MailInvariant == Spec => []MailInv
BY InitMail, NextMail, PTL DEF Spec

\* Row, messages and the delivery in progress have their types.
THEOREM TypeCorrect == Spec => []TypeOK
<1>1. MailInv => TypeOK
  BY DEF MailInv
<1> QED BY <1>1, MailInvariant, PTL

\* One mail, and one more for each worker lost between sending and committing.
THEOREM OneMail == Spec => []MailedOnce
<1>1. MailInv => MailedOnce
  BY NotificationAssumption DEF MailInv, TypeOK, MailedOnce, Uncommitted
<1> QED BY <1>1, MailInvariant, PTL

\* A delivered row was mailed and nothing is about to be sent for it.
THEOREM DeliveredWasMailed == Spec => []DeliveredIsMailed
<1>1. MailInv => DeliveredIsMailed
  BY DEF MailInv, DeliveredIsMailed
<1> QED BY <1>1, MailInvariant, PTL

\* Nothing is written or mailed after the delivery was recorded.
THEOREM DeliveredIsFinal == Spec => DeliveredStays
<1>1. MailInv /\ [Next]_vars => [status = "delivered" => UNCHANGED <<status, kind, mails>>]_vars
  <2> SUFFICES ASSUME MailInv, [Next]_vars, status = "delivered"
               PROVE  UNCHANGED <<status, kind, mails>>
    OBVIOUS
  <2>1. tx = NoTx
    BY DEF MailInv
  <2>2. \A r \in Retries : Take(r) => UNCHANGED <<status, kind, mails>>
    BY DEF Take
  <2> QED
    BY <2>1, <2>2 DEF vars, Next, DispatchPending, Dispatch, Refuse, LoseCall, Receive,
      Deliver, Send, CommitDelivered, CommitFailed, LoseWorker, Retry, NoTx
<1> QED BY <1>1, MailInvariant, PTL DEF Spec, DeliveredStays

\* A decision is mailed once but for lost workers, its row says delivered only
\* when it was mailed, and never says anything else again.
THEOREM DeliveryStands == Spec => DeliveryHolds
<1> QED
  BY OneMail, DeliveredWasMailed, DeliveredIsFinal, PTL DEF DeliveryHolds

-----------------------------------------------------------------------------
(* Accounts: types and the inductive invariant.                             *)

Row == [made : BOOLEAN, email : Email \cup {NoOne}, emailAt : BOOLEAN,
        phone : Phone \cup {NoOne}, phoneAt : BOOLEAN, submitter : BOOLEAN,
        active : BOOLEAN, granted : BOOLEAN, anonymized : BOOLEAN,
        password : Nat, logins : Nat]
Challenge == [user : Account, phone : Phone, grants : BOOLEAN, sent : BOOLEAN,
              age : {"new", "valid", "expired"}, attempts : 0..MaxAttempts, open : BOOLEAN]
Asked == [user : Account, phone : Phone, grants : BOOLEAN, phase : {"replace", "create"}]
Signature == [user : Account, password : Nat, logins : Nat, email : Email \cup {NoOne}]
Sent == [user : Account, active : BOOLEAN, granted : BOOLEAN]

AccountTypes ==
    /\ account \in [Account -> Row]
    /\ challenge \in [Code -> Challenge \cup {Nothing}]
    /\ request \in [CodeRequest -> Asked \cup {Nothing}]
    /\ attempt \in [Try -> Issued \cup {0}]
    /\ compared \in [Code -> Nat]
    /\ proved \subseteq Account \X Phone \X Code
    /\ link \in [Link -> Signature \cup {Nothing}]
    /\ used \in [Link -> {0, 1}]
    /\ accessForm \in [AccessForm -> Sent \cup {Nothing}]

\* Phones and addresses are one account's each, and of accounts there are.
RowsInv ==
    /\ \A a, b \in Account : a # b =>
          /\ account[a].phone = NoOne \/ account[a].phone # account[b].phone
          /\ account[a].email = NoOne \/ account[a].email # account[b].email
    /\ \A a \in Account :
          /\ account[a].active => account[a].made
          /\ account[a].phoneAt => /\ account[a].phone # NoOne
                                   /\ \E c \in Code : <<a, account[a].phone, c>> \in proved
    /\ \A q \in CodeRequest : request[q] # Nothing => account[request[q].user].made
    /\ \A f \in AccessForm : accessForm[f] # Nothing => account[accessForm[f].user].made

\* Challenges are numbered; a code that was held against one counts there, and
\* the right one closed it.
CodesInv ==
    /\ \E n \in 0..MaxCodes : Issued = 1..n
    /\ \A c \in Code : compared[c] > 0 => c \in Issued /\ compared[c] <= challenge[c].attempts
    /\ \A x \in proved : x[3] \in Issued /\ ~challenge[x[3]].open

\* A password since which a link was used
Since(l) ==
    LET row == account[link[l].user] IN
    \/ link[l].password < row.password
    \/ row.anonymized /\ row.password = 0 /\ link[l].password > 0

Spent == {l \in Link : used[l] > 0}

\* Passwords are numbered; a link that was used is older than its account's, and
\* no other that was used is signed for the same.
LinksInv ==
    /\ \A a \in Account :
          /\ account[a].password <= 1 + Cardinality(Spent)
          /\ account[a].made /\ ~account[a].anonymized => account[a].password > 0
    /\ \A l \in Link : link[l] # Nothing =>
          /\ account[link[l].user].made
          /\ link[l].password <= 1 + Cardinality(Spent)
          /\ ~account[link[l].user].anonymized => link[l].password > 0
    /\ \A l \in Spent : link[l] # Nothing /\ Since(l)
    /\ \A k, l \in Spent : link[k] = link[l] => k = l

AccountInv == AccountTypes /\ RowsInv /\ CodesInv /\ LinksInv

\* What differs from no row is a row.
LEMMA RowsAreThere ==
  ASSUME AccountTypes
  PROVE  /\ \A c \in Code : c \in Issued <=> challenge[c] \in Challenge
         /\ \A q \in CodeRequest : request[q] # Nothing <=> request[q] \in Asked
         /\ \A l \in Link : link[l] # Nothing <=> link[l] \in Signature
         /\ \A f \in AccessForm : accessForm[f] # Nothing <=> accessForm[f] \in Sent
<1>1. \A x : x.user \in Account => x # Nothing
  BY AccountAssumption DEF AccountAssumption, Nothing
<1>2. /\ \A x \in Challenge : x # Nothing
      /\ \A x \in Asked : x # Nothing
      /\ \A x \in Signature : x # Nothing
      /\ \A x \in Sent : x # Nothing
  BY <1>1 DEF Challenge, Asked, Signature, Sent
<1> QED
  BY <1>2 DEF AccountTypes, Issued

\* Two rows that differ in one field at most
Others(r, s, field) ==
    /\ field = "made" \/ s.made = r.made
    /\ field = "email" \/ s.email = r.email
    /\ field = "emailAt" \/ s.emailAt = r.emailAt
    /\ field = "phone" \/ s.phone = r.phone
    /\ field = "phoneAt" \/ s.phoneAt = r.phoneAt
    /\ field = "active" \/ s.active = r.active
    /\ field = "granted" \/ s.granted = r.granted
    /\ field = "anonymized" \/ s.anonymized = r.anonymized
    /\ field = "password" \/ s.password = r.password

\* A field of a row written
LEMMA FieldsOfRow ==
  ASSUME NEW r \in Row
  PROVE  /\ \A v \in BOOLEAN :
               /\ [r EXCEPT !.made = v] \in Row /\ [r EXCEPT !.made = v].made = v
               /\ Others(r, [r EXCEPT !.made = v], "made")
         /\ \A v \in Email \cup {NoOne} :
               /\ [r EXCEPT !.email = v] \in Row /\ [r EXCEPT !.email = v].email = v
               /\ Others(r, [r EXCEPT !.email = v], "email")
         /\ \A v \in BOOLEAN :
               /\ [r EXCEPT !.emailAt = v] \in Row /\ [r EXCEPT !.emailAt = v].emailAt = v
               /\ Others(r, [r EXCEPT !.emailAt = v], "emailAt")
         /\ \A v \in Phone \cup {NoOne} :
               /\ [r EXCEPT !.phone = v] \in Row /\ [r EXCEPT !.phone = v].phone = v
               /\ Others(r, [r EXCEPT !.phone = v], "phone")
         /\ \A v \in BOOLEAN :
               /\ [r EXCEPT !.phoneAt = v] \in Row /\ [r EXCEPT !.phoneAt = v].phoneAt = v
               /\ Others(r, [r EXCEPT !.phoneAt = v], "phoneAt")
         /\ \A v \in BOOLEAN :
               /\ [r EXCEPT !.submitter = v] \in Row /\ [r EXCEPT !.submitter = v].submitter = v
               /\ Others(r, [r EXCEPT !.submitter = v], "submitter")
         /\ \A v \in BOOLEAN :
               /\ [r EXCEPT !.active = v] \in Row /\ [r EXCEPT !.active = v].active = v
               /\ Others(r, [r EXCEPT !.active = v], "active")
         /\ \A v \in BOOLEAN :
               /\ [r EXCEPT !.granted = v] \in Row /\ [r EXCEPT !.granted = v].granted = v
               /\ Others(r, [r EXCEPT !.granted = v], "granted")
         /\ \A v \in BOOLEAN :
               /\ [r EXCEPT !.anonymized = v] \in Row /\ [r EXCEPT !.anonymized = v].anonymized = v
               /\ Others(r, [r EXCEPT !.anonymized = v], "anonymized")
         /\ \A v \in Nat :
               /\ [r EXCEPT !.password = v] \in Row /\ [r EXCEPT !.password = v].password = v
               /\ Others(r, [r EXCEPT !.password = v], "password")
         /\ \A v \in Nat :
               /\ [r EXCEPT !.logins = v] \in Row /\ [r EXCEPT !.logins = v].logins = v
               /\ Others(r, [r EXCEPT !.logins = v], "logins")
BY DEF Row, Others

LEMMA EmptyRow ==
  /\ NoRow \in Row
  /\ NoRow.email = NoOne /\ NoRow.phone = NoOne /\ ~NoRow.made /\ ~NoRow.phoneAt
  /\ ~NoRow.active /\ ~NoRow.granted /\ ~NoRow.anonymized /\ NoRow.password = 0
BY DEF NoRow, Row

\* A new row
LEMMA RegisteredRow ==
  ASSUME NEW e \in Email \cup {NoOne}, NEW p \in Phone \cup {NoOne}, NEW b \in BOOLEAN
  PROVE  /\ Registered(e, p, b) \in Row
         /\ Registered(e, p, b).email = e /\ Registered(e, p, b).phone = p
         /\ Registered(e, p, b).made /\ Registered(e, p, b).password = 1
         /\ ~Registered(e, p, b).phoneAt /\ ~Registered(e, p, b).granted
         /\ ~Registered(e, p, b).anonymized
<1> DEFINE r1 == [NoRow EXCEPT !.made = TRUE]
           r2 == [r1 EXCEPT !.email = e]
           r3 == [r2 EXCEPT !.phone = p]
           r4 == [r3 EXCEPT !.submitter = b]
           r5 == [r4 EXCEPT !.active = TRUE]
           r6 == [r5 EXCEPT !.password = 1]
<1>1. Registered(e, p, b) = r6
  BY DEF Registered
<1>2. r1 \in Row /\ r1.made = TRUE /\ Others(NoRow, r1, "made")
  BY EmptyRow, FieldsOfRow, Zenon
<1> HIDE DEF r1
<1>3. r2 \in Row /\ r2.email = e /\ Others(r1, r2, "email")
  BY <1>2, FieldsOfRow, Zenon
<1> HIDE DEF r2
<1>4. r3 \in Row /\ r3.phone = p /\ Others(r2, r3, "phone")
  BY <1>3, FieldsOfRow, Zenon
<1> HIDE DEF r3
<1>5. r4 \in Row /\ Others(r3, r4, "submitter")
  BY <1>4, FieldsOfRow, Zenon
<1> HIDE DEF r4
<1>6. r5 \in Row /\ Others(r4, r5, "active")
  BY <1>5, FieldsOfRow, Zenon
<1> HIDE DEF r5
<1>7. r6 \in Row /\ r6.password = 1 /\ Others(r5, r6, "password")
  <2>1. 1 \in Nat
    OBVIOUS
  <2> QED
    BY <1>6, <2>1, FieldsOfRow, Zenon
<1> HIDE DEF r6
<1> QED
  BY <1>1, <1>2, <1>3, <1>4, <1>5, <1>6, <1>7, EmptyRow DEF Others

LEMMA AccountStart == AccountInit => AccountInv
<1> SUFFICES ASSUME AccountInit PROVE AccountInv
  OBVIOUS
<1> DEFINE r(e) == [Registered(e, NoOne, FALSE) EXCEPT !.emailAt = TRUE]
<1>1. PICK S \in SUBSET Account, f \in [Account -> Email] :
         /\ \A a, b \in S : a # b => f[a] # f[b]
         /\ account = [a \in Account |-> IF a \in S THEN r(f[a]) ELSE NoRow]
  BY Zenon DEF AccountInit
<1>2. ASSUME NEW e \in Email
      PROVE  /\ r(e) \in Row /\ r(e).phone = NoOne /\ r(e).email = e
             /\ r(e).made /\ ~r(e).phoneAt /\ r(e).password = 1 /\ ~r(e).anonymized
  <2> DEFINE x == Registered(e, NoOne, FALSE)
  <2>1. /\ x \in Row /\ x.phone = NoOne /\ x.email = e
        /\ x.made /\ ~x.phoneAt /\ x.password = 1 /\ ~x.anonymized
    <3>1. e \in Email \cup {NoOne} /\ NoOne \in Phone \cup {NoOne} /\ FALSE \in BOOLEAN
      OBVIOUS
    <3> QED
      BY <3>1, RegisteredRow, Zenon
  <2> HIDE DEF x
  <2>2. r(e) \in Row /\ Others(x, r(e), "emailAt")
    BY <2>1, FieldsOfRow, Zenon DEF x
  <2> HIDE DEF r
  <2> QED
    BY <2>1, <2>2 DEF Others
<1> HIDE DEF r
<1>3. \A a \in Account : /\ account[a] \in Row
                         /\ account[a].phone = NoOne
                         /\ account[a].email = IF a \in S THEN f[a] ELSE NoOne
                         /\ account[a].active => account[a].made
                         /\ ~account[a].phoneAt
                         /\ account[a].password <= 1
                         /\ account[a].made => account[a].password > 0
  <2>1. ASSUME NEW a \in Account
        PROVE  account[a] = IF a \in S THEN r(f[a]) ELSE NoRow
    BY <1>1
  <2>2. /\ NoRow \in Row /\ NoRow.phone = NoOne /\ NoRow.email = NoOne /\ ~NoRow.active
        /\ ~NoRow.phoneAt /\ ~NoRow.made /\ NoRow.password = 0
    BY EmptyRow
  <2> QED
    BY <1>2, <2>1, <2>2
<1>4. account \in [Account -> Row]
  BY <1>1, <1>3
<1>5. /\ challenge = [c \in Code |-> Nothing]
      /\ request = [q \in CodeRequest |-> Nothing]
      /\ attempt = [t \in Try |-> 0]
      /\ proved = {} /\ compared = [c \in Code |-> 0]
      /\ link = [l \in Link |-> Nothing] /\ used = [l \in Link |-> 0]
      /\ accessForm = [g \in AccessForm |-> Nothing]
  BY Zenon DEF AccountInit
<1> HIDE DEF AccountInit
<1>6. AccountTypes
  BY <1>4, <1>5 DEF AccountTypes
<1>7. Issued = {} /\ Spent = {}
  BY <1>5 DEF Issued, Spent
<1>8. RowsInv
  BY <1>1, <1>3, <1>5, AccountAssumption DEF RowsInv, AccountAssumption
<1>9. CodesInv
  <2>1. 0 \in 0..MaxCodes /\ Issued = 1..0
    BY <1>7, AccountAssumption DEF AccountAssumption
  <2>2. \A c \in Code : compared[c] = 0
    BY <1>5
  <2>3. \A c \in Code : ~(compared[c] > 0)
    BY <2>2
  <2> QED
    BY <1>5, <2>1, <2>3 DEF CodesInv
<1>10. LinksInv
  <2>1. Cardinality(Spent) = 0
    BY <1>7, FS_EmptySet
  <2> QED
    BY <1>3, <1>5, <1>7, <2>1 DEF LinksInv, Row
<1> QED
  BY <1>6, <1>8, <1>9, <1>10 DEF AccountInv

-----------------------------------------------------------------------------
(* What the actions have in common.                                         *)

\* Changes that leave the accounts alone
LEMMA RowsStay ==
  ASSUME AccountInv, UNCHANGED <<account, proved>>,
         \A q \in CodeRequest : \/ request'[q] = Nothing \/ request'[q] = request[q]
                                \/ account[request'[q].user].made,
         \A f \in AccessForm : \/ accessForm'[f] = Nothing \/ accessForm'[f] = accessForm[f]
                               \/ account[accessForm'[f].user].made
  PROVE  RowsInv' /\ account' \in [Account -> Row]
BY DEF AccountInv, AccountTypes, RowsInv

\* One account's row is written.
LEMMA RowWritten ==
  ASSUME AccountInv, NEW a \in Account, NEW r \in Row, account' = [account EXCEPT ![a] = r],
         r.phone = NoOne \/ HoldsPhone(r.phone) \subseteq {a},
         r.email = NoOne \/ HoldsEmail(r.email) \subseteq {a},
         r.active => r.made, account[a].made => r.made,
         r.phoneAt => r.phone # NoOne /\ \E c \in Code : <<a, r.phone, c>> \in proved',
         proved \subseteq proved',
         \A q \in CodeRequest : \/ request'[q] = Nothing \/ request'[q] = request[q]
                                \/ request'[q].user = a /\ r.made,
         \A f \in AccessForm : accessForm'[f] = Nothing \/ accessForm'[f] = accessForm[f]
  PROVE  RowsInv' /\ account' \in [Account -> Row]
<1>1. account \in [Account -> Row] /\ RowsInv
  BY DEF AccountInv, AccountTypes
<1>2. account' \in [Account -> Row]
  BY <1>1
<1>3. account'[a] = r /\ \A b \in Account : b # a => account'[b] = account[b]
  BY <1>1
<1>4. \A b \in Account : b # a => /\ r.phone = NoOne \/ account[b].phone # r.phone
                                  /\ r.email = NoOne \/ account[b].email # r.email
  BY DEF HoldsPhone, HoldsEmail
<1>5. \A b, d \in Account : b # d =>
         /\ account'[b].phone = NoOne \/ account'[b].phone # account'[d].phone
         /\ account'[b].email = NoOne \/ account'[b].email # account'[d].email
  BY <1>1, <1>3, <1>4 DEF RowsInv
<1>6. \A b \in Account : account[b].made => account'[b].made
  BY <1>3
<1>7. \A q \in CodeRequest : request[q] # Nothing => request[q].user \in Account
  BY RowsAreThere DEF AccountInv, Asked
<1>8. \A f \in AccessForm : accessForm[f] # Nothing => accessForm[f].user \in Account
  BY RowsAreThere DEF AccountInv, Sent
<1>9. \A q \in CodeRequest : request'[q] # Nothing => account'[request'[q].user].made
  BY <1>1, <1>3, <1>6, <1>7 DEF RowsInv
<1>10. \A f \in AccessForm : accessForm'[f] # Nothing => account'[accessForm'[f].user].made
  BY <1>1, <1>3, <1>6, <1>8 DEF RowsInv
<1>11. \A b \in Account :
          /\ account'[b].active => account'[b].made
          /\ account'[b].phoneAt =>
                /\ account'[b].phone # NoOne
                /\ \E c \in Code : <<b, account'[b].phone, c>> \in proved'
  <2> SUFFICES ASSUME NEW b \in Account
               PROVE  /\ account'[b].active => account'[b].made
                      /\ account'[b].phoneAt =>
                            /\ account'[b].phone # NoOne
                            /\ \E c \in Code : <<b, account'[b].phone, c>> \in proved'
    OBVIOUS
  <2>1. CASE b = a
    BY <1>3, <2>1
  <2>2. CASE b # a
    BY <1>1, <1>3, <2>2 DEF RowsInv
  <2> QED
    BY <2>1, <2>2
<1> QED
  BY <1>2, <1>5, <1>9, <1>10, <1>11 DEF RowsInv

\* The links that were used stay older than the password.
LEMMA PasswordsKept ==
  ASSUME AccountInv, NEW a \in Account, NEW r \in Row, account' = [account EXCEPT ![a] = r],
         UNCHANGED <<link, used>>, account[a].made => r.made,
         \/ /\ r.password = account[a].password /\ r.anonymized = account[a].anonymized
            /\ r.made = account[a].made
         \/ ~account[a].made /\ r.password = 1 /\ ~r.anonymized
         \/ ~account[a].anonymized /\ r.anonymized /\ r.password = 0
  PROVE  LinksInv'
<1>1. account \in [Account -> Row] /\ LinksInv
  BY DEF AccountInv, AccountTypes
<1>2. account'[a] = r /\ \A b \in Account : b # a => account'[b] = account[b]
  BY <1>1
<1>3. Spent' = Spent
  BY DEF Spent
<1>4. Spent \subseteq Link /\ IsFiniteSet(Spent) /\ Cardinality(Spent) \in Nat
  BY AccountAssumption, FS_Subset, FS_CardinalityType DEF AccountAssumption, Spent
<1> DEFINE n == Cardinality(Spent)
<1>5. \A b \in Account : /\ account'[b].password <= 1 + n
                         /\ account'[b].made /\ ~account'[b].anonymized
                               => account'[b].password > 0
  <2> SUFFICES ASSUME NEW b \in Account
               PROVE  /\ account'[b].password <= 1 + n
                      /\ account'[b].made /\ ~account'[b].anonymized => account'[b].password > 0
    OBVIOUS
  <2>1. CASE b # a
    BY <1>1, <1>2, <2>1 DEF LinksInv
  <2>2. CASE b = a
    BY <1>1, <1>2, <1>4, <2>2 DEF LinksInv
  <2> QED
    BY <2>1, <2>2
<1>6. \A l \in Link : link[l] # Nothing => link[l] \in Signature /\ link[l].user \in Account
  BY RowsAreThere DEF AccountInv, Signature
<1>7. ASSUME NEW l \in Link, link[l] # Nothing
      PROVE  /\ account'[link[l].user].made
             /\ link[l].password <= 1 + n
             /\ ~account'[link[l].user].anonymized => link[l].password > 0
             /\ l \in Spent => Since(l)'
  <2> DEFINE b == link[l].user
  <2>1. b \in Account /\ account[b].made /\ link[l].password <= 1 + n
        /\ (~account[b].anonymized => link[l].password > 0)
        /\ (l \in Spent => Since(l))
    BY <1>1, <1>6, <1>7 DEF LinksInv
  <2>2. link'[l] = link[l] /\ link[l].password \in Nat
    BY <1>6, <1>7 DEF Signature
  <2>3. CASE b # a
    BY <1>2, <2>1, <2>2, <2>3 DEF Since
  <2>4. CASE b = a
    BY <1>2, <2>1, <2>2, <2>4 DEF Since
  <2> QED
    BY <2>3, <2>4
<1>8. n' = n /\ link' = link
  BY <1>3
<1>9. \A l \in Spent : l \in Link /\ link[l] # Nothing
  BY <1>1, <1>4 DEF LinksInv
<1>10. \A l \in Spent' : link'[l] # Nothing /\ Since(l)'
  BY <1>3, <1>7, <1>8, <1>9
<1>11. \A b \in Account :
          /\ account'[b].password <= 1 + Cardinality(Spent')
          /\ account'[b].made /\ ~account'[b].anonymized => account'[b].password > 0
  BY <1>3, <1>5, Zenon
<1>12. \A l \in Link : link'[l] # Nothing =>
          /\ account'[link'[l].user].made
          /\ link'[l].password <= 1 + Cardinality(Spent')
          /\ ~account'[link'[l].user].anonymized => link'[l].password > 0
  <2>1. TAKE l \in Link
  <2>2. HAVE link'[l] # Nothing
  <2>3. /\ account'[link[l].user].made
        /\ link[l].password <= 1 + n
        /\ ~account'[link[l].user].anonymized => link[l].password > 0
    BY <1>7, <1>8, <2>2
  <2> QED
    BY <1>3, <1>8, <2>3, Zenon
<1>13. \A k, l \in Spent' : link'[k] = link'[l] => k = l
  BY <1>1, <1>3, <1>8 DEF LinksInv
<1> QED
  BY <1>10, <1>11, <1>12, <1>13, Zenon DEF LinksInv

-----------------------------------------------------------------------------
(* Codes for a phone.                                                       *)

LEMMA LinksStay ==
  ASSUME AccountInv, UNCHANGED <<account, link, used>>
  PROVE  LinksInv'
<1>1. LinksInv /\ Spent' = Spent
  BY DEF AccountInv, Spent
<1>2. \A l \in Link : Since(l)' <=> Since(l)
  BY DEF Since
<1>3. Spent \subseteq Link
  BY DEF Spent
<1> QED
  BY <1>1, <1>2, <1>3 DEF LinksInv

\* Challenges that keep who they are about
LEMMA CodesStay ==
  ASSUME AccountInv, UNCHANGED <<challenge, proved, compared>>
  PROVE  CodesInv' /\ Issued' = Issued
BY DEF AccountInv, CodesInv, Issued

LEMMA RegisterPhoneKeeps ==
  ASSUME AccountInv, NEW q \in CodeRequest, NEW a \in Account, NEW p \in Phone,
         NEW b \in BOOLEAN, RegisterPhone(q, a, p, b)
  PROVE  AccountInv'
<1> DEFINE r == Registered(NoOne, p, b)
<1>1. /\ ~account[a].made /\ HoldsPhone(p) = {}
      /\ account' = [account EXCEPT ![a] = r]
      /\ request' = [request EXCEPT ![q] = Asking(a, p, FALSE)]
      /\ UNCHANGED <<challenge, attempt, proved, compared, mailed, link, used, accessForm>>
  BY Zenon DEF RegisterPhone
<1>2. /\ r \in Row /\ r.email = NoOne /\ r.phone = p /\ r.made /\ r.password = 1
      /\ ~r.phoneAt /\ ~r.anonymized
  <2>1. NoOne \in Email \cup {NoOne} /\ p \in Phone \cup {NoOne}
    OBVIOUS
  <2> QED
    BY <2>1, RegisteredRow, Zenon
<1> HIDE DEF r
<1>3. Asking(a, p, FALSE) \in Asked /\ Asking(a, p, FALSE).user = a
  BY DEF Asking, Asked
<1>4. AccountTypes
  BY DEF AccountInv
<1>5. request' \in [CodeRequest -> Asked \cup {Nothing}]
  BY <1>1, <1>3, <1>4 DEF AccountTypes
<1>6. \A k \in CodeRequest : \/ request'[k] = Nothing \/ request'[k] = request[k]
                             \/ request'[k].user = a /\ r.made
  BY <1>1, <1>2, <1>3, <1>4 DEF AccountTypes
<1>7. \A f \in AccessForm : accessForm'[f] = Nothing \/ accessForm'[f] = accessForm[f]
  BY <1>1
<1>8. RowsInv' /\ account' \in [Account -> Row]
  BY <1>1, <1>2, <1>6, <1>7, RowWritten
<1>9. LinksInv'
  BY <1>1, <1>2, PasswordsKept
<1>10. CodesInv' /\ Issued' = Issued
  BY <1>1, CodesStay
<1> QED
  BY <1>1, <1>4, <1>5, <1>8, <1>9, <1>10 DEF AccountInv, AccountTypes

LEMMA AskCodeKeeps ==
  ASSUME AccountInv, NEW q \in CodeRequest, NEW a \in Account, NEW p \in Phone,
         NEW b \in BOOLEAN, AskCode(q, a, p, b)
  PROVE  AccountInv'
<1>1. /\ account[a].made
      /\ request' = [request EXCEPT ![q] = Asking(a, p, b)]
      /\ UNCHANGED <<account, challenge, attempt, proved, compared, mailed, link, used,
                     accessForm>>
  BY Zenon DEF AskCode
<1>2. Asking(a, p, b) \in Asked /\ Asking(a, p, b).user = a
  BY DEF Asking, Asked
<1>3. AccountTypes
  BY DEF AccountInv
<1>4. request' \in [CodeRequest -> Asked \cup {Nothing}]
  BY <1>1, <1>2, <1>3 DEF AccountTypes
<1>5. \A k \in CodeRequest : \/ request'[k] = Nothing \/ request'[k] = request[k]
                             \/ account[request'[k].user].made
  BY <1>1, <1>2, <1>3 DEF AccountTypes
<1>6. RowsInv' /\ account' \in [Account -> Row]
  BY <1>1, <1>5, RowsStay
<1>7. LinksInv' /\ CodesInv' /\ Issued' = Issued
  BY <1>1, LinksStay, CodesStay
<1> QED
  BY <1>1, <1>3, <1>4, <1>6, <1>7 DEF AccountInv, AccountTypes

\* A code that is dropped before the next statement, or is on its way to it
LEMMA LoseRequestKeeps ==
  ASSUME AccountInv, NEW q \in CodeRequest, LoseRequest(q)
  PROVE  AccountInv'
<1>1. /\ request' = [request EXCEPT ![q] = Nothing]
      /\ UNCHANGED <<account, challenge, attempt, proved, compared, mailed, link, used,
                     accessForm>>
  BY DEF LoseRequest
<1>2. AccountTypes
  BY DEF AccountInv
<1>3. request' \in [CodeRequest -> Asked \cup {Nothing}]
  BY <1>1, <1>2 DEF AccountTypes
<1>4. RowsInv' /\ account' \in [Account -> Row]
  BY <1>1, <1>2, RowsStay DEF AccountTypes
<1>5. LinksInv' /\ CodesInv' /\ Issued' = Issued
  BY <1>1, LinksStay, CodesStay
<1> QED
  BY <1>1, <1>2, <1>3, <1>4, <1>5 DEF AccountInv, AccountTypes

\* Challenges are changed, but for the codes that they were held against.
LEMMA ChallengesChanged ==
  ASSUME AccountInv, challenge' \in [Code -> Challenge \cup {Nothing}],
         UNCHANGED <<account, proved, compared, link, used, accessForm, attempt>>,
         \A q \in CodeRequest : \/ request'[q] = Nothing
                                \/ request'[q].user = request[q].user /\ request[q] # Nothing,
         request' \in [CodeRequest -> Asked \cup {Nothing}],
         \A c \in Issued : /\ challenge'[c] # Nothing
                           /\ challenge'[c].attempts = challenge[c].attempts
                           /\ challenge'[c].open => challenge[c].open,
         \E n \in 0..MaxCodes : Issued' = 1..n
  PROVE  AccountInv'
<1>1. AccountTypes /\ RowsInv /\ CodesInv
  BY DEF AccountInv
<1>2. Issued \subseteq Issued' /\ Issued \subseteq Code
  BY DEF Issued
<1>3. attempt' \in [Try -> Issued' \cup {0}]
  BY <1>1, <1>2 DEF AccountTypes
<1>4. RowsInv'
  BY <1>1 DEF RowsInv
<1>5. CodesInv'
  <2>1. \A c \in Code : compared'[c] > 0 => c \in Issued' /\ compared'[c] <= challenge'[c].attempts
    BY <1>1, <1>2 DEF CodesInv
  <2>2. \A x \in proved' : x[3] \in Issued' /\ ~challenge'[x[3]].open
    BY <1>1, <1>2 DEF CodesInv
  <2> QED
    BY <2>1, <2>2 DEF CodesInv
<1>6. LinksInv'
  BY LinksStay
<1> QED
  BY <1>1, <1>3, <1>4, <1>5, <1>6 DEF AccountInv, AccountTypes

LEMMA ReplaceCodesKeeps ==
  ASSUME AccountInv, NEW q \in CodeRequest, ReplaceCodes(q)
  PROVE  AccountInv'
<1>1. /\ request[q] # Nothing
      /\ challenge' = [c \in Code |-> IF c \in Of(request[q].user, request[q].phone)
                                      THEN [challenge[c] EXCEPT !.open = FALSE]
                                      ELSE challenge[c]]
      /\ request' = [request EXCEPT ![q].phase = "create"]
      /\ UNCHANGED <<account, attempt, proved, compared, mailed, link, used, accessForm>>
  BY DEF ReplaceCodes
<1>2. AccountTypes
  BY DEF AccountInv
<1>3. ASSUME NEW c \in Code
      PROVE  /\ challenge'[c] = challenge[c]
                \/ /\ c \in Issued /\ challenge[c] \in Challenge /\ challenge'[c] \in Challenge
                   /\ challenge'[c].attempts = challenge[c].attempts
                   /\ challenge'[c].open = FALSE
  <2> DEFINE old == challenge[c]
  <2>1. CASE c \in Of(request[q].user, request[q].phone)
    <3>1. c \in Issued /\ old \in Challenge
      BY <1>2, <2>1, RowsAreThere DEF Of
    <3>2. challenge'[c] = [old EXCEPT !.open = FALSE]
      BY <1>1, <2>1
    <3> HIDE DEF old
    <3>3. \A v \in BOOLEAN : /\ [old EXCEPT !.open = v] \in Challenge
                             /\ [old EXCEPT !.open = v].attempts = old.attempts
                             /\ [old EXCEPT !.open = v].open = v
      BY <3>1 DEF Challenge
    <3>4. FALSE \in BOOLEAN
      OBVIOUS
    <3>5. /\ challenge'[c] \in Challenge /\ challenge'[c].attempts = old.attempts
          /\ challenge'[c].open = FALSE
      BY <3>2, <3>3, <3>4, Zenon
    <3> QED
      BY <3>1, <3>5 DEF old
  <2>2. CASE c \notin Of(request[q].user, request[q].phone)
    BY <1>1, <2>2
  <2> QED
    BY <2>1, <2>2
<1>4. challenge' \in [Code -> Challenge \cup {Nothing}]
  BY <1>1, <1>2, <1>3 DEF AccountTypes
<1>5. \A c \in Code : challenge'[c] # Nothing <=> challenge[c] # Nothing
  <2>1. \A x \in Challenge : x # Nothing
    BY AccountAssumption DEF AccountAssumption, Challenge, Nothing
  <2> QED
    BY <1>3, <2>1
<1>6. Issued' = Issued
  BY <1>5 DEF Issued
<1>7. \A c \in Issued : /\ challenge'[c] # Nothing
                        /\ challenge'[c].attempts = challenge[c].attempts
                        /\ challenge'[c].open => challenge[c].open
  BY <1>3, <1>5 DEF Issued
<1>8. request[q] \in Asked
  BY <1>1, <1>2, RowsAreThere
<1>9. [request[q] EXCEPT !.phase = "create"] \in Asked
      /\ [request[q] EXCEPT !.phase = "create"].user = request[q].user
  BY <1>8 DEF Asked
<1>10. request' \in [CodeRequest -> Asked \cup {Nothing}]
  BY <1>1, <1>2, <1>9 DEF AccountTypes
<1>11. \A k \in CodeRequest : \/ request'[k] = Nothing
                              \/ request'[k].user = request[k].user /\ request[k] # Nothing
  BY <1>1, <1>2, <1>9 DEF AccountTypes
<1>12. \E n \in 0..MaxCodes : Issued' = 1..n
  BY <1>6 DEF AccountInv, CodesInv
<1> QED
  BY <1>1, <1>4, <1>7, <1>10, <1>11, <1>12, ChallengesChanged

LEMMA CreateCodeKeeps ==
  ASSUME AccountInv, NEW q \in CodeRequest, NEW sent \in BOOLEAN, CreateCode(q, sent)
  PROVE  AccountInv'
<1> DEFINE c == Cardinality(Issued) + 1
           new == [user |-> request[q].user, phone |-> request[q].phone,
                   grants |-> request[q].grants, sent |-> sent,
                   age |-> "new", attempts |-> 0, open |-> TRUE]
<1>1. /\ request[q] # Nothing /\ c \in Code
      /\ challenge' = [challenge EXCEPT ![c] = new]
      /\ request' = [request EXCEPT ![q] = Nothing]
      /\ UNCHANGED <<account, attempt, proved, compared, mailed, link, used, accessForm>>
  BY DEF CreateCode
<1>2. AccountTypes /\ CodesInv
  BY DEF AccountInv
<1>3. new \in Challenge
  <2>1. request[q] \in Asked
    BY <1>1, <1>2, RowsAreThere
  <2>2. 0 \in 0..MaxAttempts
    BY AccountAssumption DEF AccountAssumption
  <2> QED
    BY <2>1, <2>2 DEF Asked, Challenge
<1>4. new # Nothing
  BY <1>3, AccountAssumption DEF AccountAssumption, Challenge, Nothing
<1>5. PICK n \in 0..MaxCodes : Issued = 1..n
  BY <1>2 DEF CodesInv
<1>6. c = n + 1
  <2>1. n \in Int
    BY <1>5
  <2>2. Cardinality(1..n) = IF 1 > n THEN 0 ELSE n - 1 + 1
    BY <2>1, FS_Interval
  <2> QED
    BY <1>5, <2>1, <2>2
<1> HIDE DEF c, new
<1>7. c \notin Issued
  BY <1>5, <1>6
<1>8. Issued' = Issued \cup {c}
  BY <1>1, <1>2, <1>4 DEF Issued, AccountTypes
<1>9. Issued' = 1..(n + 1) /\ n + 1 \in 0..MaxCodes
  BY <1>1, <1>5, <1>6, <1>8, AccountAssumption DEF AccountAssumption, Code
<1>10. challenge' \in [Code -> Challenge \cup {Nothing}]
  BY <1>1, <1>2, <1>3 DEF AccountTypes
<1>11. \A d \in Issued : challenge'[d] = challenge[d] /\ challenge'[d] # Nothing
  BY <1>1, <1>2, <1>7 DEF Issued, AccountTypes
<1>12. request' \in [CodeRequest -> Asked \cup {Nothing}]
  BY <1>1, <1>2 DEF AccountTypes
<1>13. \A k \in CodeRequest : \/ request'[k] = Nothing
                              \/ request'[k].user = request[k].user /\ request[k] # Nothing
  BY <1>1, <1>2 DEF AccountTypes
<1> QED
  BY <1>1, <1>9, <1>10, <1>11, <1>12, <1>13, ChallengesChanged

LEMMA GrowOlderKeeps ==
  ASSUME AccountInv, NEW c \in Code, GrowOlder(c)
  PROVE  AccountInv'
<1>1. /\ c \in Issued
      /\ challenge' = [challenge EXCEPT ![c].age = Older[@]]
      /\ UNCHANGED <<account, request, attempt, proved, compared, mailed, link, used, accessForm>>
  BY DEF GrowOlder
<1>2. AccountTypes /\ CodesInv
  BY DEF AccountInv
<1>3. challenge[c] \in Challenge
  BY <1>1, <1>2, RowsAreThere
<1> DEFINE new == [challenge[c] EXCEPT !.age = Older[@]]
<1>4. Older[challenge[c].age] \in {"new", "valid", "expired"}
  BY <1>3 DEF Challenge, Older
<1>5. /\ new \in Challenge /\ new.attempts = challenge[c].attempts
      /\ new.open = challenge[c].open
  BY <1>3, <1>4 DEF Challenge
<1>6. new # Nothing
  BY <1>5, AccountAssumption DEF AccountAssumption, Challenge, Nothing
<1>7. challenge'[c] = new /\ \A d \in Code : d # c => challenge'[d] = challenge[d]
  BY <1>1, <1>2 DEF AccountTypes
<1>8. challenge' \in [Code -> Challenge \cup {Nothing}]
  BY <1>1, <1>2, <1>5 DEF AccountTypes
<1> HIDE DEF new
<1>9. \A d \in Issued : /\ challenge'[d] # Nothing
                        /\ challenge'[d].attempts = challenge[d].attempts
                        /\ challenge'[d].open => challenge[d].open
  BY <1>5, <1>6, <1>7 DEF Issued
<1>10. Issued' = Issued
  BY <1>1, <1>6, <1>7 DEF Issued
<1>11. \E n \in 0..MaxCodes : Issued' = 1..n
  BY <1>2, <1>10 DEF CodesInv
<1>12. request' \in [CodeRequest -> Asked \cup {Nothing}]
  BY <1>1, <1>2 DEF AccountTypes
<1>13. \A k \in CodeRequest : \/ request'[k] = Nothing
                              \/ request'[k].user = request[k].user /\ request[k] # Nothing
  BY <1>1
<1> QED
  BY <1>1, <1>8, <1>9, <1>11, <1>12, <1>13, ChallengesChanged

-----------------------------------------------------------------------------
(* Attempts to verify a phone.                                              *)

LEMMA AttemptKeeps ==
  ASSUME AccountInv, attempt' \in [Try -> Issued \cup {0}],
         UNCHANGED <<account, challenge, request, proved, compared, mailed, link, used,
                     accessForm>>
  PROVE  AccountInv'
<1>1. AccountTypes
  BY DEF AccountInv
<1>2. RowsInv' /\ account' \in [Account -> Row]
  BY RowsStay
<1>3. LinksInv' /\ CodesInv' /\ Issued' = Issued
  BY LinksStay, CodesStay
<1> QED
  BY <1>1, <1>2, <1>3 DEF AccountInv, AccountTypes

\* The least of some numbers
LEMMA LeastNumber ==
  ASSUME NEW S, S \subseteq Nat, S # {}
  PROVE  \E n \in S : \A m \in S : n <= m
<1> DEFINE Less == {ss \in Nat \X Nat : ss[1] < ss[2]}
<1>0. IsWellFoundedOn(Less, Nat)
  BY NatLessThanWellFounded, Zenon DEF OpToRel
<1>1. PICK n \in S : \A m \in S : ~ (<<m, n>> \in Less)
  <2> HIDE DEF Less
  <2> QED
    BY <1>0, WFMin
<1>2. ASSUME NEW m \in S PROVE n <= m
  <2>1. n \in Nat /\ m \in Nat
    OBVIOUS
  <2>2. ~ (m < n)
    BY <1>1, <2>1
  <2> QED
    BY <2>1, <2>2
<1> QED
  BY <1>2

\* Open challenges for a phone have a newest.
LEMMA NewestIsOpen ==
  ASSUME AccountInv, NEW p \in Phone, OpenFor(p) # {}
  PROVE  Newest(OpenFor(p)) \in OpenFor(p)
<1> DEFINE S == OpenFor(p)
<1>1. S \subseteq 1..MaxCodes /\ MaxCodes \in Nat
  BY AccountAssumption DEF AccountAssumption, OpenFor, Issued, Code
<1> HIDE DEF S
<1> DEFINE T == {MaxCodes - m : m \in S}
<1>2. T \subseteq Nat /\ T # {}
  <2>1. \A m \in S : MaxCodes - m \in Nat
    BY <1>1
  <2>2. PICK m \in S : TRUE
    BY DEF S
  <2> QED
    BY <2>1, <2>2
<1> HIDE DEF T
<1>3. PICK t \in T : \A s \in T : t <= s
  BY <1>2, LeastNumber
<1> USE DEF T
<1>4. PICK k \in S : t = MaxCodes - k
  OBVIOUS
<1>5. ASSUME NEW m \in S PROVE m <= k
  <2>1. MaxCodes - k <= MaxCodes - m
    BY <1>3, <1>4
  <2> QED
    BY <1>1, <2>1
<1> QED
  BY <1>5 DEF Newest, S

\* A wait that ends
LEMMA AttemptEnds ==
  ASSUME AccountInv, NEW t \in Try, EndTry(t), Issued \subseteq Issued'
  PROVE  attempt' \in [Try -> Issued' \cup {0}]
BY DEF AccountInv, AccountTypes, EndTry

LEMMA StartTryKeeps ==
  ASSUME AccountInv, NEW t \in Try, NEW p \in Phone, StartTry(t, p)
  PROVE  AccountInv'
<1>1. /\ OpenFor(p) # {}
      /\ attempt' = [attempt EXCEPT ![t] = Newest(OpenFor(p))]
      /\ UNCHANGED <<account, challenge, request, proved, compared, mailed, link, used,
                     accessForm>>
  BY DEF StartTry
<1>2. Newest(OpenFor(p)) \in Issued
  BY <1>1, NewestIsOpen DEF OpenFor
<1>3. attempt' \in [Try -> Issued \cup {0}]
  BY <1>1, <1>2 DEF AccountInv, AccountTypes
<1> QED
  BY <1>1, <1>3, AttemptKeeps

LEMMA TryInVainKeeps ==
  ASSUME AccountInv, NEW t \in Try, TryInVain(t)
  PROVE  AccountInv'
<1>1. /\ EndTry(t)
      /\ UNCHANGED <<account, challenge, request, proved, compared, mailed, link, used,
                     accessForm>>
  BY DEF TryInVain
<1>2. Issued' = Issued
  BY <1>1 DEF Issued
<1>3. attempt' \in [Try -> Issued \cup {0}]
  BY <1>1, <1>2, AttemptEnds
<1> QED
  BY <1>1, <1>3, AttemptKeeps

\* A code is held against a challenge that bears it, which counts it.
LEMMA CodeCompared ==
  ASSUME AccountInv, NEW t \in Try, attempt[t] # 0, Bears(attempt[t]), EndTry(t),
         NEW new \in Challenge, new.attempts = challenge[attempt[t]].attempts + 1,
         challenge' = [challenge EXCEPT ![attempt[t]] = new],
         compared' = [compared EXCEPT ![attempt[t]] = @ + 1],
         \/ proved' = proved
         \/ /\ ~new.open
            /\ \E a \in Account, p \in Phone : proved' = proved \cup {<<a, p, attempt[t]>>}
  PROVE  /\ CodesInv' /\ Issued' = Issued
         /\ challenge' \in [Code -> Challenge \cup {Nothing}]
         /\ attempt' \in [Try -> Issued' \cup {0}]
         /\ compared' \in [Code -> Nat]
         /\ proved' \subseteq Account \X Phone \X Code
         /\ compared[attempt[t]] < MaxAttempts
         /\ \A x \in proved : x[3] # attempt[t]
<1> DEFINE c == attempt[t]
<1>1. AccountTypes /\ CodesInv
  BY DEF AccountInv
<1>2. c \in Issued /\ c \in Code
  BY <1>1 DEF AccountTypes, Issued
<1>3. challenge[c] \in Challenge
  BY <1>1, <1>2, RowsAreThere
<1>4. /\ c \in Code /\ c = attempt[t]
      /\ challenge' = [challenge EXCEPT ![c] = new]
      /\ compared' = [compared EXCEPT ![c] = @ + 1]
      /\ new.attempts = challenge[c].attempts + 1
      /\ challenge[c].open /\ challenge[c].attempts < MaxAttempts
  BY <1>2 DEF Bears
<1> HIDE DEF c
<1>5. /\ challenge'[c] = new /\ compared'[c] = compared[c] + 1
      /\ \A d \in Code : d # c => challenge'[d] = challenge[d] /\ compared'[d] = compared[d]
  BY <1>1, <1>4 DEF AccountTypes
<1>6. new # Nothing
  BY AccountAssumption DEF AccountAssumption, Challenge, Nothing
<1>7. Issued' = Issued
  BY <1>2, <1>5, <1>6 DEF Issued
<1>8. compared[c] \in Nat /\ compared[c] <= challenge[c].attempts /\ challenge[c].attempts \in Nat
  BY <1>1, <1>3, <1>4 DEF AccountTypes, CodesInv, Challenge
<1>9. \A x \in proved : x[3] # c
  BY <1>1, <1>4 DEF CodesInv
<1>10. challenge' \in [Code -> Challenge \cup {Nothing}] /\ compared' \in [Code -> Nat]
  BY <1>1, <1>4, <1>8 DEF AccountTypes
<1>11. attempt' \in [Try -> Issued' \cup {0}]
  BY <1>7, AttemptEnds
<1>12. proved' \subseteq Account \X Phone \X Code
  BY <1>1, <1>4 DEF AccountTypes
<1>13. \A d \in Code : compared'[d] > 0 => d \in Issued' /\ compared'[d] <= challenge'[d].attempts
  <2> SUFFICES ASSUME NEW d \in Code, compared'[d] > 0
               PROVE  d \in Issued' /\ compared'[d] <= challenge'[d].attempts
    OBVIOUS
  <2>1. CASE d = c
    BY <1>2, <1>4, <1>5, <1>7, <1>8, <2>1
  <2>2. CASE d # c
    BY <1>1, <1>5, <1>7, <2>2 DEF CodesInv
  <2> QED
    BY <2>1, <2>2
<1>14. \A x \in proved' : x[3] \in Issued' /\ ~challenge'[x[3]].open
  <2>1. \A x \in proved : x[3] \in Issued' /\ ~challenge'[x[3]].open
    <3>1. \A x \in proved : x[3] \in Issued /\ ~challenge[x[3]].open
      BY <1>1 DEF CodesInv
    <3> QED
      BY <1>5, <1>7, <1>9, <3>1 DEF Issued
  <2>2. CASE proved' = proved
    BY <2>1, <2>2
  <2>3. CASE ~new.open /\ \E a \in Account, p \in Phone : proved' = proved \cup {<<a, p, c>>}
    BY <1>2, <1>5, <1>7, <2>1, <2>3
  <2> QED
    BY <1>4, <2>2, <2>3
<1>15. \E n \in 0..MaxCodes : Issued' = 1..n
  BY <1>1, <1>7 DEF CodesInv
<1>16. compared[c] < MaxAttempts
  BY <1>4, <1>8, AccountAssumption DEF AccountAssumption
<1>17. CodesInv'
  BY <1>13, <1>14, <1>15 DEF CodesInv
<1> QED
  BY <1>4, <1>7, <1>9, <1>10, <1>11, <1>12, <1>16, <1>17

LEMMA TryWrongKeeps ==
  ASSUME AccountInv, NEW t \in Try, TryWrong(t)
  PROVE  /\ AccountInv'
         /\ compared[attempt[t]] < MaxAttempts /\ \A x \in proved : x[3] # attempt[t]
<1> DEFINE c == attempt[t]
           new == [challenge[c] EXCEPT !.attempts = @ + 1]
<1>1. /\ c # 0 /\ Bears(c) /\ EndTry(t)
      /\ challenge' = [challenge EXCEPT ![c] = new]
      /\ compared' = [compared EXCEPT ![c] = @ + 1]
      /\ UNCHANGED <<account, request, proved, mailed, link, used, accessForm>>
  BY DEF TryWrong
<1>2. AccountTypes
  BY DEF AccountInv
<1>3. challenge[c] \in Challenge
  BY <1>1, <1>2, RowsAreThere DEF AccountTypes, Issued
<1>4. challenge[c].attempts + 1 \in 0..MaxAttempts
  BY <1>1, <1>3, AccountAssumption DEF AccountAssumption, Challenge, Bears
<1>5. new \in Challenge /\ new.attempts = challenge[c].attempts + 1
  BY <1>3, <1>4 DEF Challenge
<1> HIDE DEF new
<1>6. /\ CodesInv' /\ Issued' = Issued
      /\ challenge' \in [Code -> Challenge \cup {Nothing}]
      /\ attempt' \in [Try -> Issued' \cup {0}]
      /\ compared' \in [Code -> Nat]
      /\ proved' \subseteq Account \X Phone \X Code
      /\ compared[c] < MaxAttempts /\ \A x \in proved : x[3] # c
  <2>1. proved' = proved
    BY <1>1
  <2> QED
    BY <1>1, <1>5, <2>1, CodeCompared
<1>7. RowsInv' /\ account' \in [Account -> Row]
  BY <1>1, RowsStay
<1>8. LinksInv'
  BY <1>1, LinksStay
<1>9. AccountTypes'
  BY <1>1, <1>2, <1>6, <1>7 DEF AccountTypes
<1> QED
  BY <1>6, <1>7, <1>8, <1>9 DEF AccountInv

\* The right code proves the phone of the account that asked for it.
LEMMA TryRightKeeps ==
  ASSUME AccountInv, NEW t \in Try, TryRight(t)
  PROVE  /\ AccountInv'
         /\ compared[attempt[t]] < MaxAttempts /\ \A x \in proved : x[3] # attempt[t]
         /\ \A a \in Account : account'[a].granted = account[a].granted
<1> DEFINE c == attempt[t]
           a == challenge[c].user
           p == challenge[c].phone
           n1 == [challenge[c] EXCEPT !.attempts = @ + 1]
           n2 == [n1 EXCEPT !.open = FALSE]
           r1 == [account[a] EXCEPT !.phone = p]
           r2 == [r1 EXCEPT !.phoneAt = TRUE]
           r3 == [r2 EXCEPT !.submitter = account[a].submitter \/ challenge[c].grants]
<1>1. /\ c # 0 /\ Bears(c) /\ EndTry(t) /\ HoldsPhone(p) \subseteq {a}
      /\ challenge' = [challenge EXCEPT ![c] = n2]
      /\ account' = [account EXCEPT ![a] = r3]
      /\ proved' = proved \cup {<<a, p, c>>}
      /\ compared' = [compared EXCEPT ![c] = @ + 1]
      /\ UNCHANGED <<request, mailed, link, used, accessForm>>
  BY DEF TryRight, WhoAsked
<1>2. AccountTypes
  BY DEF AccountInv
<1>3. c \in Code /\ challenge[c] \in Challenge
  BY <1>1, <1>2, RowsAreThere DEF AccountTypes, Issued
<1>4. challenge[c].attempts + 1 \in 0..MaxAttempts
  BY <1>1, <1>3, AccountAssumption DEF AccountAssumption, Challenge, Bears
<1>5. n1 \in Challenge /\ n1.attempts = challenge[c].attempts + 1
  BY <1>3, <1>4 DEF Challenge
<1> HIDE DEF n1
<1>6. n2 \in Challenge /\ n2.attempts = n1.attempts /\ n2.open = FALSE
  <2>1. \A v \in BOOLEAN : /\ [n1 EXCEPT !.open = v] \in Challenge
                           /\ [n1 EXCEPT !.open = v].attempts = n1.attempts
                           /\ [n1 EXCEPT !.open = v].open = v
    BY <1>5 DEF Challenge
  <2>2. FALSE \in BOOLEAN
    OBVIOUS
  <2> QED
    BY <2>1, <2>2, Zenon
<1> HIDE DEF n2
<1>7. a \in Account /\ p \in Phone /\ challenge[c].grants \in BOOLEAN
  BY <1>3 DEF Challenge
<1>8. account[a] \in Row
  BY <1>2, <1>7 DEF AccountTypes
<1>9. r1 \in Row /\ r1.phone = p /\ Others(account[a], r1, "phone")
  BY <1>7, <1>8, FieldsOfRow, Zenon
<1> HIDE DEF r1
<1>10. r2 \in Row /\ r2.phoneAt = TRUE /\ Others(r1, r2, "phoneAt")
  <2>1. TRUE \in BOOLEAN
    OBVIOUS
  <2> QED
    BY <1>9, <2>1, FieldsOfRow, Zenon
<1> HIDE DEF r2
<1>11. r3 \in Row /\ Others(r2, r3, "submitter")
  <2> DEFINE v == account[a].submitter \/ challenge[c].grants
  <2>1. v \in BOOLEAN
    OBVIOUS
  <2>2. r3 = [r2 EXCEPT !.submitter = v]
    OBVIOUS
  <2> HIDE DEF v, r3
  <2> QED
    BY <1>10, <2>1, <2>2, FieldsOfRow, Zenon
<1> HIDE DEF r3
<1>12. /\ r3 \in Row /\ r3.phone = p /\ r3.phoneAt = TRUE
       /\ r3.made = account[a].made /\ r3.email = account[a].email
       /\ r3.active = account[a].active /\ r3.granted = account[a].granted
       /\ r3.anonymized = account[a].anonymized /\ r3.password = account[a].password
  BY <1>9, <1>10, <1>11 DEF Others
<1>13. p # NoOne /\ <<a, p, c>> \in proved' /\ proved \subseteq proved'
  BY <1>1, <1>7, AccountAssumption DEF AccountAssumption
<1> HIDE DEF a, p
<1>14. r3.email = NoOne \/ HoldsEmail(r3.email) \subseteq {a}
  BY <1>2, <1>7, <1>12 DEF AccountInv, RowsInv, HoldsEmail
<1>15. RowsInv' /\ account' \in [Account -> Row]
  <2>1. r3.active => r3.made
    BY <1>7, <1>12 DEF AccountInv, RowsInv
  <2>2. r3.phone = NoOne \/ HoldsPhone(r3.phone) \subseteq {a}
    BY <1>1, <1>12
  <2>3. r3.phoneAt => r3.phone # NoOne /\ \E d \in Code : <<a, r3.phone, d>> \in proved'
    BY <1>3, <1>12, <1>13
  <2> QED
    BY <1>1, <1>7, <1>12, <1>13, <1>14, <2>1, <2>2, <2>3, RowWritten
<1>16. LinksInv'
  BY <1>1, <1>7, <1>12, PasswordsKept
<1>17. /\ CodesInv' /\ Issued' = Issued
       /\ challenge' \in [Code -> Challenge \cup {Nothing}]
       /\ attempt' \in [Try -> Issued' \cup {0}]
       /\ compared' \in [Code -> Nat]
       /\ proved' \subseteq Account \X Phone \X Code
       /\ compared[c] < MaxAttempts /\ \A x \in proved : x[3] # c
  <2>1. n2.attempts = challenge[c].attempts + 1 /\ ~n2.open
    BY <1>5, <1>6
  <2>2. \E b \in Account, o \in Phone : proved' = proved \cup {<<b, o, c>>}
    BY <1>1, <1>7
  <2> QED
    BY <1>1, <1>6, <2>1, <2>2, CodeCompared
<1>18. AccountTypes'
  BY <1>1, <1>2, <1>15, <1>17 DEF AccountTypes
<1>19. \A b \in Account : account'[b].granted = account[b].granted
  BY <1>1, <1>2, <1>12 DEF AccountTypes
<1> QED
  BY <1>15, <1>16, <1>17, <1>18, <1>19 DEF AccountInv

-----------------------------------------------------------------------------
(* E-mail, passwords and access.                                            *)

\* A row that keeps its phone and its password
LEMMA RowChanged ==
  ASSUME AccountInv, NEW a \in Account, NEW r \in Row, account' = [account EXCEPT ![a] = r],
         UNCHANGED <<challenge, request, attempt, proved, compared, link, used>>,
         accessForm' \in [AccessForm -> Sent \cup {Nothing}],
         \A f \in AccessForm : accessForm'[f] = Nothing \/ accessForm'[f] = accessForm[f],
         r.email = account[a].email \/ HoldsEmail(r.email) \subseteq {a},
         r.active => account[a].made,
         r.phone = account[a].phone, r.phoneAt = account[a].phoneAt,
         r.made = account[a].made, r.anonymized = account[a].anonymized,
         r.password = account[a].password
  PROVE  AccountInv'
<1>1. AccountTypes /\ RowsInv
  BY DEF AccountInv
<1>2. r.email = NoOne \/ HoldsEmail(r.email) \subseteq {a}
  BY <1>1 DEF RowsInv, HoldsEmail
<1>3. r.phone = NoOne \/ HoldsPhone(r.phone) \subseteq {a}
  BY <1>1 DEF RowsInv, HoldsPhone
<1>4. r.phoneAt => r.phone # NoOne /\ \E c \in Code : <<a, r.phone, c>> \in proved'
  BY <1>1 DEF RowsInv
<1>5. /\ proved \subseteq proved'
      /\ \A q \in CodeRequest : \/ request'[q] = Nothing \/ request'[q] = request[q]
                                \/ request'[q].user = a /\ r.made
  OBVIOUS
<1>6. RowsInv' /\ account' \in [Account -> Row]
  BY <1>2, <1>3, <1>4, <1>5, RowWritten
<1>7. LinksInv'
  BY PasswordsKept
<1>8. CodesInv' /\ Issued' = Issued
  BY CodesStay
<1> QED
  BY <1>1, <1>6, <1>7, <1>8 DEF AccountInv, AccountTypes

LEMMA OnboardKeeps ==
  ASSUME AccountInv, NEW a \in Account, Onboard(a)
  PROVE  AccountInv' /\ account'[a].granted = account[a].granted
<1> DEFINE r == [account[a] EXCEPT !.submitter = TRUE]
<1>1. /\ account[a].active /\ account' = [account EXCEPT ![a] = r]
      /\ UNCHANGED <<challenge, request, attempt, proved, compared, mailed, link, used, accessForm>>
  BY DEF Onboard, verifying
<1>2. AccountTypes /\ RowsInv
  BY DEF AccountInv
<1>3. account[a] \in Row /\ TRUE \in BOOLEAN
  BY <1>2 DEF AccountTypes
<1>4. r \in Row /\ Others(account[a], r, "submitter")
  BY <1>3, FieldsOfRow, Zenon
<1> HIDE DEF r
<1>5. r.active => account[a].made
  BY <1>1, <1>2 DEF RowsInv
<1>6. AccountInv'
  BY <1>1, <1>2, <1>4, <1>5, RowChanged DEF Others, AccountTypes
<1> QED
  BY <1>1, <1>2, <1>4, <1>6 DEF Others, AccountTypes

LEMMA VerifyEmailKeeps ==
  ASSUME AccountInv, NEW a \in Account, VerifyEmail(a)
  PROVE  AccountInv' /\ account'[a].granted = account[a].granted
<1> DEFINE r == [account[a] EXCEPT !.emailAt = TRUE]
<1>1. /\ account' = [account EXCEPT ![a] = r]
      /\ UNCHANGED <<challenge, request, attempt, proved, compared, mailed, link, used, accessForm>>
  BY DEF VerifyEmail, verifying
<1>2. AccountTypes /\ RowsInv
  BY DEF AccountInv
<1>3. account[a] \in Row /\ TRUE \in BOOLEAN
  BY <1>2 DEF AccountTypes
<1>4. r \in Row /\ Others(account[a], r, "emailAt")
  BY <1>3, FieldsOfRow, Zenon
<1> HIDE DEF r
<1>5. r.active => account[a].made
  BY <1>2, <1>4 DEF RowsInv, Others
<1>6. AccountInv'
  BY <1>1, <1>2, <1>4, <1>5, RowChanged DEF Others, AccountTypes
<1> QED
  BY <1>1, <1>2, <1>4, <1>6 DEF Others, AccountTypes

LEMMA LogInKeeps ==
  ASSUME AccountInv, NEW a \in Account, LogIn(a)
  PROVE  AccountInv' /\ account'[a].granted = account[a].granted
<1> DEFINE n == account[a].logins + 1
           r == [account[a] EXCEPT !.logins = n]
<1>1. /\ account' = [account EXCEPT ![a] = r]
      /\ UNCHANGED <<challenge, request, attempt, proved, compared, mailed, link, used, accessForm>>
  BY DEF LogIn, verifying
<1>2. AccountTypes /\ RowsInv
  BY DEF AccountInv
<1>3. account[a] \in Row /\ n \in Nat
  BY <1>2 DEF AccountTypes, Row
<1>4. r \in Row /\ Others(account[a], r, "logins")
  <2> HIDE DEF n
  <2> QED
    BY <1>3, FieldsOfRow, Zenon
<1> HIDE DEF r
<1>5. r.active => account[a].made
  BY <1>2, <1>4 DEF RowsInv, Others
<1>6. AccountInv'
  BY <1>1, <1>2, <1>4, <1>5, RowChanged DEF Others, AccountTypes
<1> QED
  BY <1>1, <1>2, <1>4, <1>6 DEF Others, AccountTypes

LEMMA RequestEmailKeeps ==
  ASSUME AccountInv, NEW a \in Account, NEW e \in Email, RequestEmail(a, e)
  PROVE  AccountInv' /\ account'[a].granted = account[a].granted
<1> DEFINE r1 == [account[a] EXCEPT !.email = e]
           r2 == [r1 EXCEPT !.emailAt = FALSE]
<1>1. /\ account[a].made /\ HoldsEmail(e) \subseteq {a}
      /\ account' = [account EXCEPT ![a] = r2]
      /\ UNCHANGED <<challenge, request, attempt, proved, compared, link, used, accessForm>>
  BY DEF RequestEmail, verifying
<1>2. AccountTypes
  BY DEF AccountInv
<1>3. account[a] \in Row /\ FALSE \in BOOLEAN /\ e \in Email \cup {NoOne}
  BY <1>2 DEF AccountTypes
<1>4. r1 \in Row /\ r1.email = e /\ Others(account[a], r1, "email")
  BY <1>3, FieldsOfRow, Zenon
<1> HIDE DEF r1
<1>5. r2 \in Row /\ Others(r1, r2, "emailAt")
  BY <1>3, <1>4, FieldsOfRow, Zenon
<1> HIDE DEF r2
<1>6. AccountInv'
  BY <1>1, <1>2, <1>4, <1>5, RowChanged DEF Others, AccountTypes
<1> QED
  BY <1>1, <1>2, <1>4, <1>5, <1>6 DEF Others, AccountTypes

LEMMA RegisterEmailKeeps ==
  ASSUME AccountInv, NEW a \in Account, NEW e \in Email, NEW b \in BOOLEAN,
         RegisterEmail(a, e, b)
  PROVE  AccountInv' /\ ~account'[a].granted
<1> DEFINE r == Registered(e, NoOne, b)
<1>1. /\ ~account[a].made /\ HoldsEmail(e) = {}
      /\ account' = [account EXCEPT ![a] = r]
      /\ UNCHANGED <<challenge, request, attempt, proved, compared, link, used, accessForm>>
  BY DEF RegisterEmail, verifying
<1>2. /\ r \in Row /\ r.email = e /\ r.phone = NoOne /\ r.made /\ r.password = 1
      /\ ~r.phoneAt /\ ~r.anonymized /\ ~r.granted
  <2>1. NoOne \in Phone \cup {NoOne} /\ e \in Email \cup {NoOne}
    OBVIOUS
  <2> QED
    BY <2>1, RegisteredRow, Zenon
<1> HIDE DEF r
<1>3. AccountTypes
  BY DEF AccountInv
<1>4. \A k \in CodeRequest : \/ request'[k] = Nothing \/ request'[k] = request[k]
                             \/ request'[k].user = a /\ r.made
  BY <1>1
<1>5. \A f \in AccessForm : accessForm'[f] = Nothing \/ accessForm'[f] = accessForm[f]
  BY <1>1
<1>6. RowsInv' /\ account' \in [Account -> Row]
  BY <1>1, <1>2, <1>4, <1>5, RowWritten
<1>7. LinksInv'
  BY <1>1, <1>2, PasswordsKept
<1>8. CodesInv' /\ Issued' = Issued
  BY <1>1, CodesStay
<1>9. account'[a] = r
  BY <1>1, <1>3 DEF AccountTypes
<1> QED
  BY <1>1, <1>2, <1>3, <1>6, <1>7, <1>8, <1>9 DEF AccountInv, AccountTypes

LEMMA SendAccessKeeps ==
  ASSUME AccountInv, NEW f \in AccessForm, NEW a \in Account, NEW on \in BOOLEAN,
         NEW granted \in BOOLEAN, SendAccess(f, a, on, granted)
  PROVE  AccountInv'
<1> DEFINE new == [user |-> a, active |-> on, granted |-> granted]
<1>1. /\ account[a].made
      /\ accessForm' = [accessForm EXCEPT ![f] = new]
      /\ UNCHANGED <<account, challenge, request, attempt, proved, compared, mailed, link, used>>
  BY DEF SendAccess, verifying
<1>2. AccountTypes
  BY DEF AccountInv
<1>3. new \in Sent /\ new.user = a
  BY DEF Sent
<1> HIDE DEF new
<1>4. accessForm' \in [AccessForm -> Sent \cup {Nothing}]
  BY <1>1, <1>2, <1>3 DEF AccountTypes
<1>5. \A g \in AccessForm : \/ accessForm'[g] = Nothing \/ accessForm'[g] = accessForm[g]
                            \/ account[accessForm'[g].user].made
  BY <1>1, <1>2, <1>3 DEF AccountTypes
<1>6. RowsInv' /\ account' \in [Account -> Row]
  BY <1>1, <1>5, RowsStay
<1>7. LinksInv' /\ CodesInv' /\ Issued' = Issued
  BY <1>1, LinksStay, CodesStay
<1> QED
  BY <1>1, <1>2, <1>4, <1>6, <1>7 DEF AccountInv, AccountTypes

\* Access is given to a verified address, with an active account.
LEMMA UpdateAccessKeeps ==
  ASSUME AccountInv, NEW f \in AccessForm, UpdateAccess(f)
  PROVE  /\ AccountInv'
         /\ \A a \in Account : account'[a].granted /\ ~account[a].granted
                                  => account[a].emailAt /\ account'[a].active
<1> DEFINE a == accessForm[f].user
           r1 == [account[a] EXCEPT !.active = accessForm[f].active]
           r2 == [r1 EXCEPT !.granted = accessForm[f].granted]
<1>1. /\ accessForm[f] # Nothing
      /\ accessForm' = [accessForm EXCEPT ![f] = Nothing]
      /\ IF Allowed(f) THEN account' = [account EXCEPT ![a] = r2] ELSE UNCHANGED account
      /\ UNCHANGED <<challenge, request, attempt, proved, compared, mailed, link, used>>
  BY DEF UpdateAccess, verifying
<1>2. AccountTypes /\ RowsInv
  BY DEF AccountInv
<1>3. accessForm[f] \in Sent
  BY <1>1, <1>2, RowsAreThere
<1>4. a \in Account /\ accessForm[f].active \in BOOLEAN /\ accessForm[f].granted \in BOOLEAN
  BY <1>3 DEF Sent
<1>5. account[a] \in Row /\ account[a].made
  BY <1>1, <1>2, <1>4 DEF AccountTypes, RowsInv
<1>6. r1 \in Row /\ r1.active = accessForm[f].active /\ Others(account[a], r1, "active")
  BY <1>4, <1>5, FieldsOfRow, Zenon
<1> HIDE DEF r1
<1>7. r2 \in Row /\ r2.granted = accessForm[f].granted /\ Others(r1, r2, "granted")
  BY <1>4, <1>6, FieldsOfRow, Zenon
<1> HIDE DEF r2
<1>8. accessForm' \in [AccessForm -> Sent \cup {Nothing}]
      /\ \A g \in AccessForm : accessForm'[g] = Nothing \/ accessForm'[g] = accessForm[g]
  BY <1>1, <1>2 DEF AccountTypes
<1>9. CASE Allowed(f)
  <2>1. account' = [account EXCEPT ![a] = r2]
    BY <1>1, <1>9
  <2>2. account'[a] = r2 /\ \A b \in Account : b # a => account'[b] = account[b]
    BY <1>2, <1>4, <2>1 DEF AccountTypes
  <2>3. accessForm[f].granted => accessForm[f].active /\ account[a].emailAt
    BY <1>9 DEF Allowed, MayHold
  <2>4. /\ r2.email = account[a].email /\ r2.phone = account[a].phone
        /\ r2.phoneAt = account[a].phoneAt /\ r2.made = account[a].made
        /\ r2.anonymized = account[a].anonymized /\ r2.password = account[a].password
        /\ r2.active = accessForm[f].active /\ r2.granted = accessForm[f].granted
    BY <1>6, <1>7 DEF Others
  <2> HIDE DEF a
  <2>5. AccountInv'
    BY <1>1, <1>4, <1>5, <1>7, <1>8, <2>1, <2>4, RowChanged
  <2>6. ASSUME NEW b \in Account, account'[b].granted, ~account[b].granted
        PROVE  account[b].emailAt /\ account'[b].active
    <3>1. b = a
      BY <2>2, <2>6
    <3> QED
      BY <2>2, <2>3, <2>4, <2>6, <3>1
  <2> QED
    BY <2>5, <2>6
<1>10. CASE ~Allowed(f)
  <2>1. UNCHANGED account
    BY <1>1, <1>10
  <2>2. RowsInv' /\ account' \in [Account -> Row]
    BY <1>1, <1>8, <2>1, RowsStay
  <2>3. LinksInv' /\ CodesInv' /\ Issued' = Issued
    BY <1>1, <2>1, LinksStay, CodesStay
  <2>4. AccountInv'
    BY <1>1, <1>2, <1>8, <2>2, <2>3 DEF AccountInv, AccountTypes
  <2> QED
    BY <2>1, <2>4
<1> QED
  BY <1>9, <1>10

LEMMA AnonymizeKeeps ==
  ASSUME AccountInv, NEW a \in Account, Anonymize(a)
  PROVE  AccountInv' /\ \A b \in Account : account'[b].granted => account[b].granted
<1> DEFINE r1 == [account[a] EXCEPT !.email = NoOne]
           r2 == [r1 EXCEPT !.emailAt = FALSE]
           r3 == [r2 EXCEPT !.active = FALSE]
           r4 == [r3 EXCEPT !.granted = FALSE]
           r5 == [r4 EXCEPT !.anonymized = TRUE]
           r6 == [r5 EXCEPT !.password = 0]
           r7 == [r6 EXCEPT !.logins = 0]
<1>1. /\ ~account[a].anonymized
      /\ account' = [account EXCEPT ![a] = r7]
      /\ UNCHANGED <<challenge, request, attempt, proved, compared, mailed, link, used, accessForm>>
  BY DEF Anonymize, verifying
<1>2. AccountTypes /\ RowsInv
  BY DEF AccountInv
<1>3. account[a] \in Row /\ FALSE \in BOOLEAN /\ TRUE \in BOOLEAN /\ NoOne \in Email \cup {NoOne}
      /\ 0 \in Nat
  BY <1>2 DEF AccountTypes
<1>4. r1 \in Row /\ r1.email = NoOne /\ Others(account[a], r1, "email")
  BY <1>3, FieldsOfRow, Zenon
<1> HIDE DEF r1
<1>5. r2 \in Row /\ Others(r1, r2, "emailAt")
  BY <1>3, <1>4, FieldsOfRow, Zenon
<1> HIDE DEF r2
<1>6. r3 \in Row /\ r3.active = FALSE /\ Others(r2, r3, "active")
  BY <1>3, <1>5, FieldsOfRow, Zenon
<1> HIDE DEF r3
<1>7. r4 \in Row /\ r4.granted = FALSE /\ Others(r3, r4, "granted")
  BY <1>3, <1>6, FieldsOfRow, Zenon
<1> HIDE DEF r4
<1>8. r5 \in Row /\ r5.anonymized = TRUE /\ Others(r4, r5, "anonymized")
  BY <1>3, <1>7, FieldsOfRow, Zenon
<1> HIDE DEF r5
<1>9. r6 \in Row /\ r6.password = 0 /\ Others(r5, r6, "password")
  BY <1>3, <1>8, FieldsOfRow, Zenon
<1> HIDE DEF r6
<1>10. r7 \in Row /\ Others(r6, r7, "logins")
  BY <1>3, <1>9, FieldsOfRow, Zenon
<1> HIDE DEF r7
<1>11. /\ r7.email = NoOne /\ r7.active = FALSE /\ r7.granted = FALSE /\ r7.anonymized = TRUE
       /\ r7.password = 0 /\ r7.made = account[a].made /\ r7.phone = account[a].phone
       /\ r7.phoneAt = account[a].phoneAt
  BY <1>4, <1>5, <1>6, <1>7, <1>8, <1>9, <1>10 DEF Others
<1>12. RowsInv' /\ account' \in [Account -> Row]
  <2>1. r7.phone = NoOne \/ HoldsPhone(r7.phone) \subseteq {a}
    BY <1>2, <1>11 DEF RowsInv, HoldsPhone
  <2>2. r7.phoneAt => r7.phone # NoOne /\ \E c \in Code : <<a, r7.phone, c>> \in proved'
    BY <1>1, <1>2, <1>11 DEF RowsInv
  <2>3. /\ proved \subseteq proved'
        /\ \A q \in CodeRequest : \/ request'[q] = Nothing \/ request'[q] = request[q]
                                  \/ request'[q].user = a /\ r7.made
        /\ \A f \in AccessForm : accessForm'[f] = Nothing \/ accessForm'[f] = accessForm[f]
    BY <1>1
  <2> QED
    BY <1>1, <1>10, <1>11, <2>1, <2>2, <2>3, RowWritten
<1>13. LinksInv'
  BY <1>1, <1>10, <1>11, PasswordsKept
<1>14. CodesInv' /\ Issued' = Issued
  BY <1>1, CodesStay
<1>15. \A b \in Account : account'[b].granted => account[b].granted
  BY <1>1, <1>2, <1>11 DEF AccountTypes
<1> QED
  BY <1>1, <1>2, <1>12, <1>13, <1>14, <1>15 DEF AccountInv, AccountTypes

LEMMA RequestResetKeeps ==
  ASSUME AccountInv, NEW l \in Link, NEW a \in Account, RequestReset(l, a)
  PROVE  AccountInv'
<1>1. /\ link[l] = Nothing /\ account[a].active
      /\ link' = [link EXCEPT ![l] = Signed(a)]
      /\ UNCHANGED <<account, challenge, request, attempt, proved, compared, mailed, used,
                     accessForm>>
  BY DEF RequestReset, verifying
<1>2. AccountTypes /\ RowsInv /\ LinksInv
  BY DEF AccountInv
<1>3. account[a] \in Row /\ account[a].made
  BY <1>1, <1>2 DEF AccountTypes, RowsInv
<1>4. /\ Signed(a) \in Signature /\ Signed(a).user = a
      /\ Signed(a).password = account[a].password
  BY <1>3 DEF Signed, Signature, Row
<1>5. link' \in [Link -> Signature \cup {Nothing}]
  BY <1>1, <1>2, <1>4 DEF AccountTypes
<1>6. link'[l] = Signed(a) /\ \A k \in Link : k # l => link'[k] = link[k]
  BY <1>1, <1>2 DEF AccountTypes
<1>7. Spent' = Spent /\ Spent \subseteq Link /\ l \notin Spent
  BY <1>1, <1>2 DEF Spent, LinksInv
<1>8. \A k \in Spent : link'[k] # Nothing /\ Since(k)'
  BY <1>1, <1>2, <1>6, <1>7 DEF LinksInv, Since
<1> DEFINE n == Cardinality(Spent)
<1>9. n' = n
  BY <1>7
<1>10. \A k \in Link : link'[k] # Nothing =>
          /\ account[link'[k].user].made
          /\ link'[k].password <= 1 + n
          /\ ~account[link'[k].user].anonymized => link'[k].password > 0
  BY <1>2, <1>3, <1>4, <1>6 DEF LinksInv
<1>11. \A b \in Account : /\ account[b].password <= 1 + n
                          /\ account[b].made /\ ~account[b].anonymized => account[b].password > 0
  BY <1>2 DEF LinksInv
<1>12. LinksInv'
  <2>1. \A j, k \in Spent' : link'[j] = link'[k] => j = k
    BY <1>2, <1>6, <1>7 DEF LinksInv
  <2> QED
    BY <1>1, <1>7, <1>8, <1>10, <1>11, <2>1 DEF LinksInv
<1>13. RowsInv' /\ account' \in [Account -> Row]
  BY <1>1, RowsStay
<1>14. CodesInv' /\ Issued' = Issued
  BY <1>1, CodesStay
<1> QED
  BY <1>1, <1>2, <1>5, <1>12, <1>13, <1>14 DEF AccountInv, AccountTypes

\* A link that was used is signed for a password that is no longer the one
\* that it was, so the link that resets it was not used.
LEMMA ResetKeeps ==
  ASSUME AccountInv, NEW l \in Link, Reset(l)
  PROVE  AccountInv' /\ \A b \in Account : account'[b].granted = account[b].granted
<1> DEFINE a == link[l].user
           n == Cardinality(Spent)
           r == [account[a] EXCEPT !.password = 2 + n]
<1>1. /\ Usable(l)
      /\ account' = [account EXCEPT ![a] = r]
      /\ used' = [used EXCEPT ![l] = @ + 1]
      /\ UNCHANGED <<challenge, request, attempt, proved, compared, mailed, link, accessForm>>
  BY DEF Reset, NewPassword, Spent, verifying
<1>2. AccountTypes /\ RowsInv /\ LinksInv
  BY DEF AccountInv
<1>3. link[l] \in Signature /\ a \in Account /\ link[l].password = account[a].password
  BY <1>1, <1>2, RowsAreThere DEF Usable, Signed, Signature
<1>4. account[a] \in Row
  BY <1>2, <1>3 DEF AccountTypes
<1>5. l \notin Spent
  BY <1>2, <1>3, <1>4 DEF LinksInv, Since, Row
<1>6. used[l] = 0
  BY <1>2, <1>5 DEF AccountTypes, Spent
<1>7. used' \in [Link -> {0, 1}] /\ Spent' = Spent \cup {l}
  BY <1>1, <1>2, <1>6 DEF AccountTypes, Spent
<1>8. IsFiniteSet(Spent) /\ n \in Nat
  BY AccountAssumption, FS_Subset, FS_CardinalityType DEF AccountAssumption, Spent
<1>9. Cardinality(Spent') = n + 1
  BY <1>5, <1>7, <1>8, FS_AddElement
<1> HIDE DEF n
<1>10. r \in Row /\ r.password = 2 + n /\ Others(account[a], r, "password")
  <2> DEFINE m == 2 + n
  <2>1. m \in Nat
    BY <1>8
  <2> HIDE DEF m
  <2>2. [account[a] EXCEPT !.password = m] \in Row
        /\ [account[a] EXCEPT !.password = m].password = m
        /\ Others(account[a], [account[a] EXCEPT !.password = m], "password")
    BY <1>4, <2>1, FieldsOfRow, Zenon
  <2> QED
    BY <2>2 DEF m
<1> HIDE DEF r, a
<1>11. account'[a] = r /\ \A b \in Account : b # a => account'[b] = account[b]
  BY <1>1, <1>2, <1>3 DEF AccountTypes
<1>12. /\ r.made = account[a].made /\ r.email = account[a].email /\ r.phone = account[a].phone
       /\ r.phoneAt = account[a].phoneAt /\ r.active = account[a].active
       /\ r.granted = account[a].granted /\ r.anonymized = account[a].anonymized
  BY <1>10 DEF Others
<1>13. RowsInv' /\ account' \in [Account -> Row]
  <2>1. /\ r.phone = NoOne \/ HoldsPhone(r.phone) \subseteq {a}
        /\ r.email = NoOne \/ HoldsEmail(r.email) \subseteq {a}
    BY <1>2, <1>3, <1>12 DEF RowsInv, HoldsPhone, HoldsEmail
  <2>2. r.phoneAt => r.phone # NoOne /\ \E c \in Code : <<a, r.phone, c>> \in proved'
    BY <1>1, <1>2, <1>3, <1>12 DEF RowsInv
  <2>3. r.active => r.made
    BY <1>2, <1>3, <1>12 DEF RowsInv
  <2>4. /\ proved \subseteq proved'
        /\ \A q \in CodeRequest : \/ request'[q] = Nothing \/ request'[q] = request[q]
                                  \/ request'[q].user = a /\ r.made
        /\ \A f \in AccessForm : accessForm'[f] = Nothing \/ accessForm'[f] = accessForm[f]
    BY <1>1
  <2> QED
    BY <1>1, <1>3, <1>10, <1>12, <2>1, <2>2, <2>3, <2>4, RowWritten
<1>14. LinksInv'
  <2>1. \A b \in Account : /\ account'[b].password <= 2 + n
                           /\ account'[b].made /\ ~account'[b].anonymized
                                 => account'[b].password > 0
    <3> SUFFICES ASSUME NEW b \in Account
                 PROVE  /\ account'[b].password <= 2 + n
                        /\ account'[b].made /\ ~account'[b].anonymized
                              => account'[b].password > 0
      OBVIOUS
    <3>1. CASE b = a
      BY <1>8, <1>10, <1>11, <3>1
    <3>2. CASE b # a
      <4>1. account[b].password \in Nat /\ account[b].password <= 1 + n
        BY <1>2 DEF AccountTypes, Row, LinksInv, n
      <4> QED
        BY <1>2, <1>8, <1>11, <3>2, <4>1 DEF LinksInv
    <3> QED
      BY <3>1, <3>2
  <2>2. \A k \in Link : link[k] # Nothing => link[k] \in Signature
    BY <1>2, RowsAreThere
  <2>3. ASSUME NEW k \in Link, link[k] # Nothing
        PROVE  /\ link[k].password \in Nat /\ link[k].password <= 1 + n
               /\ account'[link[k].user].made
               /\ ~account'[link[k].user].anonymized => link[k].password > 0
               /\ k \in Spent' => Since(k)'
    <3>1. /\ link[k].password \in Nat /\ link[k].user \in Account
          /\ link[k].password <= 1 + n
          /\ account[link[k].user].made
          /\ ~account[link[k].user].anonymized => link[k].password > 0
      BY <1>2, <2>2, <2>3 DEF Signature, LinksInv, n
    <3>2. CASE link[k].user = a
      <4>1. link[k].password < 2 + n
        BY <1>8, <3>1
      <4>2. link'[k] = link[k]
        BY <1>1
      <4>3. Since(k)'
        BY <1>10, <1>11, <3>2, <4>1, <4>2 DEF Since
      <4> QED
        BY <1>11, <1>12, <3>1, <3>2, <4>3
    <3>3. CASE link[k].user # a
      <4>1. k # l
        BY <3>3 DEF a
      <4>2. k \in Spent' => k \in Spent
        BY <1>7, <4>1
      <4>3. link'[k] = link[k] /\ account'[link[k].user] = account[link[k].user]
        BY <1>1, <1>11, <3>1, <3>3
      <4>4. k \in Spent => Since(k)
        BY <1>2 DEF LinksInv
      <4> QED
        BY <3>1, <4>2, <4>3, <4>4 DEF Since
    <3> QED
      BY <3>2, <3>3
  <2>4. link' = link /\ 1 + Cardinality(Spent') = 2 + n
    BY <1>1, <1>8, <1>9
  <2>5. \A k \in Spent' : k \in Link /\ link[k] # Nothing
    BY <1>1, <1>2, <1>7 DEF LinksInv, Usable, Spent
  <2>6. \A k \in Link : link'[k] # Nothing =>
           /\ account'[link'[k].user].made
           /\ link'[k].password <= 1 + Cardinality(Spent')
           /\ ~account'[link'[k].user].anonymized => link'[k].password > 0
    BY <1>8, <2>3, <2>4
  <2>7. \A b \in Account : /\ account'[b].password <= 1 + Cardinality(Spent')
                           /\ account'[b].made /\ ~account'[b].anonymized
                                 => account'[b].password > 0
    BY <2>1, <2>4
  <2>8. \A k \in Spent' : link'[k] # Nothing /\ Since(k)'
    BY <2>3, <2>4, <2>5
  <2>9. \A k \in Spent : link[k] # link[l]
    <3>1. \A k \in Spent : link[k] # Nothing /\ Since(k)
      BY <1>2 DEF LinksInv
    <3> QED
      BY <1>3, <1>4, <3>1 DEF Since, Row, a
  <2>10. \A j, k \in Spent' : link'[j] = link'[k] => j = k
    BY <1>2, <1>7, <2>4, <2>9 DEF LinksInv
  <2> QED
    BY <2>6, <2>7, <2>8, <2>10, Zenon DEF LinksInv
<1>15. CodesInv' /\ Issued' = Issued
  BY <1>1, CodesStay
<1>16. \A b \in Account : account'[b].granted = account[b].granted
  BY <1>11, <1>12
<1> QED
  BY <1>1, <1>2, <1>7, <1>13, <1>14, <1>15, <1>16 DEF AccountInv, AccountTypes

-----------------------------------------------------------------------------
(* Every step, and what follows.                                            *)

\* What CodesAreUsedUp and GrantsToVerified say of a step
HeldWhileOpen ==
    \A c \in Code : compared'[c] > compared[c]
                       => compared[c] < MaxAttempts /\ \A x \in proved : x[3] # c
GrantedWhileVerified ==
    \A a \in Account : account'[a].granted /\ ~account[a].granted
                          => account[a].emailAt /\ account'[a].active

LEMMA Unheld == ASSUME AccountInv, UNCHANGED compared PROVE HeldWhileOpen
<1>1. \A c \in Code : compared[c] \in Nat
  BY DEF AccountInv, AccountTypes
<1> QED
  BY <1>1 DEF HeldWhileOpen

\* The action that holds a code against a challenge
LEMMA HeldOnce ==
  ASSUME AccountInv, NEW t \in Try, compared' = [compared EXCEPT ![attempt[t]] = @ + 1],
         compared[attempt[t]] < MaxAttempts, \A x \in proved : x[3] # attempt[t]
  PROVE  HeldWhileOpen
<1>1. compared \in [Code -> Nat]
  BY DEF AccountInv, AccountTypes
<1>2. \A c \in Code : compared'[c] > compared[c] => c = attempt[t]
  BY <1>1
<1> QED
  BY <1>2 DEF HeldWhileOpen

LEMMA CodeStep ==
  ASSUME AccountInv, CodeNext
  PROVE  AccountInv' /\ HeldWhileOpen /\ GrantedWhileVerified
<1>0. account \in [Account -> Row]
  BY DEF AccountInv, AccountTypes
<1>1. ASSUME NEW q \in CodeRequest, NEW a \in Account, NEW p \in Phone, NEW b \in BOOLEAN,
             RegisterPhone(q, a, p, b)
      PROVE  AccountInv' /\ HeldWhileOpen /\ GrantedWhileVerified
  <2>1. UNCHANGED compared /\ account' = [account EXCEPT ![a] = Registered(NoOne, p, b)]
    BY <1>1, Zenon DEF RegisterPhone
  <2>2. ~Registered(NoOne, p, b).granted
    <3>1. NoOne \in Email \cup {NoOne} /\ p \in Phone \cup {NoOne}
      OBVIOUS
    <3> QED
      BY <3>1, RegisteredRow, Zenon
  <2> DEFINE r == Registered(NoOne, p, b)
  <2> HIDE DEF r
  <2>3. account' = [account EXCEPT ![a] = r] /\ ~r.granted
    BY <2>1, <2>2, Zenon DEF r
  <2>4. GrantedWhileVerified
    BY <1>0, <2>3 DEF GrantedWhileVerified
  <2> QED
    BY <1>1, <2>1, <2>4, RegisterPhoneKeeps, Unheld
<1>2. ASSUME NEW q \in CodeRequest, NEW a \in Account, NEW p \in Phone, NEW b \in BOOLEAN,
             AskCode(q, a, p, b)
      PROVE  AccountInv' /\ HeldWhileOpen /\ GrantedWhileVerified
  <2>1. UNCHANGED <<compared, account>>
    BY <1>2 DEF AskCode
  <2> QED
    BY <1>2, <2>1, AskCodeKeeps, Unheld DEF GrantedWhileVerified
<1>3. ASSUME NEW q \in CodeRequest, ReplaceCodes(q)
      PROVE  AccountInv' /\ HeldWhileOpen /\ GrantedWhileVerified
  <2>1. UNCHANGED <<compared, account>>
    BY <1>3 DEF ReplaceCodes
  <2> QED
    BY <1>3, <2>1, ReplaceCodesKeeps, Unheld DEF GrantedWhileVerified
<1>4. ASSUME NEW q \in CodeRequest, LoseRequest(q)
      PROVE  AccountInv' /\ HeldWhileOpen /\ GrantedWhileVerified
  <2>1. UNCHANGED <<compared, account>>
    BY <1>4 DEF LoseRequest
  <2> QED
    BY <1>4, <2>1, LoseRequestKeeps, Unheld DEF GrantedWhileVerified
<1>5. ASSUME NEW q \in CodeRequest, NEW sent \in BOOLEAN, CreateCode(q, sent)
      PROVE  AccountInv' /\ HeldWhileOpen /\ GrantedWhileVerified
  <2>1. UNCHANGED <<compared, account>>
    BY <1>5 DEF CreateCode
  <2> QED
    BY <1>5, <2>1, CreateCodeKeeps, Unheld DEF GrantedWhileVerified
<1>6. ASSUME NEW c \in Code, GrowOlder(c)
      PROVE  AccountInv' /\ HeldWhileOpen /\ GrantedWhileVerified
  <2>1. UNCHANGED <<compared, account>>
    BY <1>6 DEF GrowOlder
  <2> QED
    BY <1>6, <2>1, GrowOlderKeeps, Unheld DEF GrantedWhileVerified
<1>7. ASSUME NEW t \in Try, NEW p \in Phone, StartTry(t, p)
      PROVE  AccountInv' /\ HeldWhileOpen /\ GrantedWhileVerified
  <2>1. UNCHANGED <<compared, account>>
    BY <1>7 DEF StartTry
  <2> QED
    BY <1>7, <2>1, StartTryKeeps, Unheld DEF GrantedWhileVerified
<1>8. ASSUME NEW t \in Try, TryInVain(t)
      PROVE  AccountInv' /\ HeldWhileOpen /\ GrantedWhileVerified
  <2>1. UNCHANGED <<compared, account>>
    BY <1>8 DEF TryInVain
  <2> QED
    BY <1>8, <2>1, TryInVainKeeps, Unheld DEF GrantedWhileVerified
<1>9. ASSUME NEW t \in Try, TryWrong(t)
      PROVE  AccountInv' /\ HeldWhileOpen /\ GrantedWhileVerified
  <2>1. UNCHANGED account /\ compared' = [compared EXCEPT ![attempt[t]] = @ + 1]
    BY <1>9 DEF TryWrong
  <2> QED
    BY <1>9, <2>1, TryWrongKeeps, HeldOnce DEF GrantedWhileVerified
<1>10. ASSUME NEW t \in Try, TryRight(t)
       PROVE  AccountInv' /\ HeldWhileOpen /\ GrantedWhileVerified
  <2>1. compared' = [compared EXCEPT ![attempt[t]] = @ + 1]
    BY <1>10 DEF TryRight
  <2>2. /\ AccountInv'
        /\ compared[attempt[t]] < MaxAttempts /\ \A x \in proved : x[3] # attempt[t]
        /\ \A a \in Account : account'[a].granted = account[a].granted
    BY <1>10, TryRightKeeps
  <2> QED
    BY <2>1, <2>2, HeldOnce DEF GrantedWhileVerified
<1>11. ASSUME NEW a \in Account, Onboard(a)
       PROVE  AccountInv' /\ HeldWhileOpen /\ GrantedWhileVerified
  <2>1. UNCHANGED compared /\ \A b \in Account : b # a => account'[b] = account[b]
    BY <1>0, <1>11 DEF Onboard, verifying
  <2>2. AccountInv' /\ account'[a].granted = account[a].granted
    BY <1>11, OnboardKeeps
  <2> QED
    BY <2>1, <2>2, Unheld DEF GrantedWhileVerified
<1> QED
  BY <1>1, <1>2, <1>3, <1>4, <1>5, <1>6, <1>7, <1>8, <1>9, <1>10, <1>11 DEF CodeNext

LEMMA AccessStep ==
  ASSUME AccountInv, AccessNext
  PROVE  AccountInv' /\ HeldWhileOpen /\ GrantedWhileVerified
<1>0. account \in [Account -> Row]
  BY DEF AccountInv, AccountTypes
<1>1. ASSUME NEW a \in Account, NEW e \in Email, RequestEmail(a, e)
      PROVE  AccountInv' /\ HeldWhileOpen /\ GrantedWhileVerified
  <2>1. UNCHANGED compared /\ \A b \in Account : b # a => account'[b] = account[b]
    BY <1>0, <1>1 DEF RequestEmail, verifying
  <2>2. AccountInv' /\ account'[a].granted = account[a].granted
    BY <1>1, RequestEmailKeeps
  <2> QED
    BY <2>1, <2>2, Unheld DEF GrantedWhileVerified
<1>2. ASSUME NEW a \in Account, NEW e \in Email, NEW b \in BOOLEAN, RegisterEmail(a, e, b)
      PROVE  AccountInv' /\ HeldWhileOpen /\ GrantedWhileVerified
  <2>1. UNCHANGED compared /\ \A d \in Account : d # a => account'[d] = account[d]
    BY <1>0, <1>2 DEF RegisterEmail, verifying
  <2>2. AccountInv' /\ ~account'[a].granted
    BY <1>2, RegisterEmailKeeps
  <2> QED
    BY <2>1, <2>2, Unheld DEF GrantedWhileVerified
<1>3. ASSUME NEW a \in Account, VerifyEmail(a)
      PROVE  AccountInv' /\ HeldWhileOpen /\ GrantedWhileVerified
  <2>1. UNCHANGED compared /\ \A b \in Account : b # a => account'[b] = account[b]
    BY <1>0, <1>3 DEF VerifyEmail, verifying
  <2>2. AccountInv' /\ account'[a].granted = account[a].granted
    BY <1>3, VerifyEmailKeeps
  <2> QED
    BY <2>1, <2>2, Unheld DEF GrantedWhileVerified
<1>4. ASSUME NEW a \in Account, LogIn(a)
      PROVE  AccountInv' /\ HeldWhileOpen /\ GrantedWhileVerified
  <2>1. UNCHANGED compared /\ \A b \in Account : b # a => account'[b] = account[b]
    BY <1>0, <1>4 DEF LogIn, verifying
  <2>2. AccountInv' /\ account'[a].granted = account[a].granted
    BY <1>4, LogInKeeps
  <2> QED
    BY <2>1, <2>2, Unheld DEF GrantedWhileVerified
<1>5. ASSUME NEW a \in Account, Anonymize(a)
      PROVE  AccountInv' /\ HeldWhileOpen /\ GrantedWhileVerified
  <2>1. UNCHANGED compared
    BY <1>5 DEF Anonymize, verifying
  <2>2. AccountInv' /\ \A b \in Account : account'[b].granted => account[b].granted
    BY <1>5, AnonymizeKeeps
  <2> QED
    BY <2>1, <2>2, Unheld DEF GrantedWhileVerified
<1>6. ASSUME NEW l \in Link, Reset(l)
      PROVE  AccountInv' /\ HeldWhileOpen /\ GrantedWhileVerified
  <2>1. UNCHANGED compared
    BY <1>6 DEF Reset, verifying
  <2>2. AccountInv' /\ \A b \in Account : account'[b].granted = account[b].granted
    BY <1>6, ResetKeeps
  <2> QED
    BY <2>1, <2>2, Unheld DEF GrantedWhileVerified
<1>7. ASSUME NEW l \in Link, NEW a \in Account, RequestReset(l, a)
      PROVE  AccountInv' /\ HeldWhileOpen /\ GrantedWhileVerified
  <2>1. UNCHANGED <<compared, account>>
    BY <1>7 DEF RequestReset, verifying
  <2> QED
    BY <1>7, <2>1, RequestResetKeeps, Unheld DEF GrantedWhileVerified
<1>8. ASSUME NEW f \in AccessForm, UpdateAccess(f)
      PROVE  AccountInv' /\ HeldWhileOpen /\ GrantedWhileVerified
  <2>1. UNCHANGED compared
    BY <1>8 DEF UpdateAccess, verifying
  <2> QED
    BY <1>8, <2>1, UpdateAccessKeeps, Unheld DEF GrantedWhileVerified
<1>9. ASSUME NEW f \in AccessForm, NEW a \in Account, NEW on \in BOOLEAN,
             NEW granted \in BOOLEAN, SendAccess(f, a, on, granted)
      PROVE  AccountInv' /\ HeldWhileOpen /\ GrantedWhileVerified
  <2>1. UNCHANGED <<compared, account>>
    BY <1>9 DEF SendAccess, verifying
  <2> QED
    BY <1>9, <2>1, SendAccessKeeps, Unheld DEF GrantedWhileVerified
<1> QED
  BY <1>1, <1>2, <1>3, <1>4, <1>5, <1>6, <1>7, <1>8, <1>9 DEF AccessNext

LEMMA AccountStep ==
  AccountInv /\ [CodeNext \/ AccessNext]_accountVars
     => AccountInv' /\ HeldWhileOpen /\ GrantedWhileVerified
<1> SUFFICES ASSUME AccountInv, [CodeNext \/ AccessNext]_accountVars
             PROVE  AccountInv' /\ HeldWhileOpen /\ GrantedWhileVerified
  OBVIOUS
<1>1. CASE CodeNext
  BY <1>1, CodeStep
<1>2. CASE AccessNext
  BY <1>2, AccessStep
<1>3. CASE UNCHANGED accountVars
  <2>1. /\ UNCHANGED <<account, challenge, request, proved, compared, mailed, link, used,
                       accessForm>>
        /\ attempt' = attempt
    BY <1>3 DEF accountVars
  <2>2. attempt' \in [Try -> Issued \cup {0}]
    BY <2>1 DEF AccountInv, AccountTypes
  <2>3. AccountInv'
    BY <2>1, <2>2, AttemptKeeps
  <2> QED
    BY <2>1, <2>3, Unheld DEF GrantedWhileVerified
<1> QED
  BY <1>1, <1>2, <1>3

\* Phones, e-mail addresses, codes, links and access are as AccountInv says in
\* every reachable state.
THEOREM AccountInvariant == AccountSpec => []AccountInv
BY AccountStart, AccountStep, PTL DEF AccountSpec

\* Rows have their types and their unique columns (accounts/models.py), a phone
\* is verified by a code that was sent to it for the account, and one password
\* is replaced by a link once (reset_password).
THEOREM ProofsAreSound == AccountSpec => [](AccountTypeOK /\ PhoneIsProved /\ ResetOnce)
<1>1. AccountInv => AccountTypeOK
  <2> SUFFICES ASSUME AccountInv PROVE AccountTypeOK
    OBVIOUS
  <2>1. \A c \in Issued : challenge[c].attempts \in 0..MaxAttempts
    BY RowsAreThere DEF AccountInv, Challenge, Issued
  <2>2. \A t \in Try : attempt[t] \in Issued \cup {0}
    BY DEF AccountInv, AccountTypes
  <2> QED
    BY <2>1, <2>2 DEF AccountInv, RowsInv, AccountTypeOK
<1>2. AccountInv => PhoneIsProved
  BY DEF AccountInv, RowsInv, PhoneIsProved
<1>3. AccountInv => ResetOnce
  <2> SUFFICES ASSUME AccountInv, NEW k \in Link, NEW l \in Link, link[k] # Nothing,
                      link[k] = link[l], used[k] > 0, used[l] > 0
               PROVE  k = l /\ used[k] = 1
    BY DEF ResetOnce
  <2>1. k = l
    BY DEF AccountInv, LinksInv, Spent
  <2>2. used[k] \in {0, 1}
    BY DEF AccountInv, AccountTypes
  <2> QED
    BY <2>1, <2>2
<1>4. [](AccountInv => AccountTypeOK /\ PhoneIsProved /\ ResetOnce)
  BY <1>1, <1>2, <1>3, PTL
<1> QED
  BY <1>4, AccountInvariant, PTL

\* A challenge is held against no more codes than it bears, and none after the
\* right one (verify_phone), and access as an Operator is given to verified
\* addresses alone (update_operator_access).
THEOREM CodesAndAccess == AccountSpec => CodesAreUsedUp /\ GrantsToVerified
<1>1. AccountInv /\ [CodeNext \/ AccessNext]_accountVars
         => [HeldWhileOpen]_accountVars /\ [GrantedWhileVerified]_accountVars
  BY AccountStep
<1> QED
  BY <1>1, AccountInvariant, PTL
     DEF AccountSpec, CodesAreUsedUp, GrantsToVerified, HeldWhileOpen, GrantedWhileVerified

\* Phones, passwords and access are given only on the proof that each asks for,
\* and a proof serves once.
THEOREM AccountsStand == AccountSpec => AccountsAreSound
BY ProofsAreSound, CodesAndAccess, PTL DEF AccountsAreSound

-----------------------------------------------------------------------------
(* Inquiries between a renter and a submitter.                              *)

Said == [author : User, text : Text, fresh : BOOLEAN]

\* Rows whose type InquiryTypeOK tells only where they are.
TalkTyped ==
    /\ message \in [Inquiry -> Seq(Said)]
    /\ IsFiniteSet(recent) /\ IsFiniteSet(open)

\* An inquiry has messages as long as it is kept.
SaidWhileKept == \A i \in Inquiry : inquiry[i] = "kept" <=> message[i] # <<>>

\* What is still to be decided has not been retained by a decision.
PendingIsInvestigated ==
    \A r \in DOMAIN report : report[r].status = "pending" => report[r].retention = "investigation"

\* Who acts in a transaction is there, and takes part in its inquiry.
ActorsStay == \A t \in open : t.by \in Participants(t.inquiry) \cap accounts

\* What a start has read under the lock of its renter still holds.
StartsStand ==
    \A t \in Opened("start") :
        /\ t.by = Renter(t.inquiry) /\ inquiry[t.inquiry] = "none"
        /\ t.by \notin suspended /\ ~Blocked(t.inquiry)
        /\ Cardinality(ColdContacts(t.by)) < ColdLimit
        /\ \A u \in Opened("start") : u.by = t.by => u = t

\* What a reply or a report has read under the lock of its inquiry still holds.
AnswersStand ==
    \A t \in Opened("reply") \cup Opened("report") :
        /\ inquiry[t.inquiry] = "kept"
        /\ t.kind = "reply" => Len(message[t.inquiry]) < MaxPerInquiry
        /\ t.kind = "report" =>
               t.evidence # {} /\ {e[1] : e \in t.evidence} \subseteq Indices(t.inquiry)
        /\ \A u \in Opened("reply") \cup Opened("report") : u.inquiry = t.inquiry => u = t

\* What is being edited is not held.
EditsStand == \A t \in Opened("edit") : ~Held(t.inquiry, t.message)

ReportsFit == Len(report) + Cardinality(Opened("report")) <= MaxReports

InquiryInv ==
    /\ InquiryTypeOK /\ TalkTyped /\ SaidWhileKept
    /\ KeptByPurpose /\ EvidenceStands /\ PendingIsInvestigated /\ QuotaHolds
    /\ ActorsStay /\ StartsStand /\ AnswersStand /\ EditsStand /\ ReportsFit

-----------------------------------------------------------------------------

LEMMA InquiryFacts ==
    ASSUME NEW i \in Inquiry
    PROVE  /\ Renter(i) \in User /\ Submitter(i) \in User /\ i[2] \in Listing
           /\ Participants(i) \subseteq User
           /\ Renter(i) \in Participants(i) /\ Submitter(i) \in Participants(i)
<1>1. PICK a \in User, l \in Listing : i = <<a, l>>
  BY DEF Inquiry
<1> QED BY <1>1, OwnerAssumption DEF OwnerAssumption, Renter, Submitter, Participants

Transactions ==
    [kind : {"start", "reply", "edit", "report"}, by : User, inquiry : Inquiry,
     message : 0..MaxPerInquiry, evidence : Evidence]

\* What a transaction has read when it has taken its lock.
HasRead(t) ==
    /\ t \in Transactions
    /\ t.by \in Participants(t.inquiry) \cap accounts
    /\ t.kind = "start" =>
           /\ t.by = Renter(t.inquiry) /\ inquiry[t.inquiry] = "none"
           /\ t.by \notin suspended /\ ~Blocked(t.inquiry)
           /\ Cardinality(ColdContacts(t.by)) < ColdLimit
           /\ \A u \in Opened("start") : u.by # t.by
    /\ t.kind \in {"reply", "report"} =>
           /\ inquiry[t.inquiry] = "kept"
           /\ \A u \in Opened("reply") \cup Opened("report") : u.inquiry # t.inquiry
    /\ t.kind = "reply" => Len(message[t.inquiry]) < MaxPerInquiry /\ ~Blocked(t.inquiry)
    /\ t.kind = "edit" => ~Held(t.inquiry, t.message)
    /\ t.kind = "report" =>
           /\ t.evidence # {} /\ {e[1] : e \in t.evidence} \subseteq Indices(t.inquiry)
           /\ Len(report) + Cardinality(Opened("report")) < MaxReports

Begun(t) ==
    /\ HasRead(t) /\ open' = open \cup {t}
    /\ UNCHANGED <<accounts, active, talk, report, blocked, suspended>>

Beginning(a, i) ==
    \/ BeginStart(a, i) \/ BeginReply(a, i)
    \/ \E n \in Indices(i) : BeginEdit(a, i, n)
    \/ \E target \in {0} \cup Indices(i) : BeginReport(a, i, target)

LEMMA SaidTyped ==
    ASSUME InquiryInv, NEW i \in Inquiry
    PROVE  /\ message[i] \in Seq(Said) /\ Indices(i) = 1..Len(message[i])
           /\ Len(message[i]) \in Nat /\ Len(message[i]) <= MaxPerInquiry
           /\ Indices(i) \subseteq 1..MaxPerInquiry
           /\ \A n \in Indices(i) :
                  /\ n \in 1..MaxPerInquiry /\ message[i][n] \in Said
                  /\ message[i][n].author \in Participants(i)
<1>1. message[i] \in Seq(Said) /\ Len(message[i]) \in Nat /\ Len(message[i]) <= MaxPerInquiry
  BY DEF InquiryInv, TalkTyped, InquiryTypeOK
<1>2. Indices(i) = 1..Len(message[i])
  BY <1>1 DEF Indices
<1>3. Indices(i) \subseteq 1..MaxPerInquiry
  BY <1>1, <1>2, NumbersAssumption DEF NumbersAssumption
<1>4. \A n \in Indices(i) : message[i][n] \in [author : Participants(i), text : Text, fresh : BOOLEAN]
  BY DEF InquiryInv, InquiryTypeOK
<1>5. \A n \in Indices(i) : message[i][n] \in Said /\ message[i][n].author \in Participants(i)
  <2>1. Participants(i) \subseteq User
    BY InquiryFacts
  <2> QED BY <1>4, <2>1 DEF Said
<1> QED BY <1>1, <1>2, <1>3, <1>5

\* A transaction begins with what it has read under its lock.
LEMMA TransactionBegins ==
    ASSUME InquiryInv, NEW a \in User, NEW i \in Inquiry, Beginning(a, i)
    PROVE  \E t : Begun(t)
<1> USE NumbersAssumption DEF NumbersAssumption, Open, Transaction
<1>0. {} \in Evidence /\ 0 \in 0..MaxPerInquiry
  BY DEF Evidence
<1>1. CASE BeginStart(a, i)
  <2> DEFINE t == Transaction("start", a, i, 0, {})
  <2>1. HasRead(t)
    BY <1>0, <1>1, InquiryFacts DEF BeginStart, HasRead, Transactions, AccountLocked
  <2> QED BY <1>1, <2>1 DEF BeginStart, Begun
<1>2. CASE BeginReply(a, i)
  <2> DEFINE t == Transaction("reply", a, i, 0, {})
  <2>1. HasRead(t)
    BY <1>0, <1>2 DEF BeginReply, HasRead, Transactions, InquiryLocked, Unavailable
  <2> QED BY <1>2, <2>1 DEF BeginReply, Begun
<1>3. ASSUME NEW n \in Indices(i), BeginEdit(a, i, n) PROVE \E t : Begun(t)
  <2> DEFINE t == Transaction("edit", a, i, n, {})
  <2>1. n \in 0..MaxPerInquiry /\ a \in Participants(i)
    BY <1>3, SaidTyped DEF BeginEdit
  <2>2. HasRead(t)
    BY <1>0, <1>3, <2>1 DEF BeginEdit, HasRead, Transactions
  <2> QED BY <1>3, <2>2 DEF BeginEdit, Begun
<1>4. ASSUME NEW target \in {0} \cup Indices(i), BeginReport(a, i, target) PROVE \E t : Begun(t)
  <2> DEFINE evidence == {<<n, message[i][n].text>> : n \in Reported(i, target)}
             t == Transaction("report", a, i, 0, evidence)
  <2>1. Reported(i, target) \subseteq Indices(i)
    BY DEF Reported
  <2>2. Reported(i, target) # {}
    <3>1. CASE target = 0
      <4>1. message[i] # <<>>
        BY <1>4 DEF BeginReport, InquiryInv, SaidWhileKept
      <4>2. Len(message[i]) > 0
        BY <4>1, SaidTyped
      <4>3. 1 \in Indices(i)
        BY <4>2, SaidTyped
      <4> QED BY <3>1, <4>3 DEF Reported
    <3>2. CASE target # 0
      <4>1. target \in Indices(i) /\ target \in Nat
        BY <3>2, SaidTyped
      <4>2. target \in Reported(i, target)
        BY <3>2, <4>1 DEF Reported
      <4> QED BY <4>2
    <3> QED BY <3>1, <3>2
  <2>3. evidence \in Evidence
    BY <2>1, SaidTyped DEF Evidence, Said
  <2>4. evidence # {}
    BY <2>2
  <2>5. {e[1] : e \in evidence} \subseteq Indices(i)
    BY <2>1
  <2>6. HasRead(t)
    <3> HIDE DEF evidence
    <3> QED BY <1>0, <1>4, <2>3, <2>4, <2>5 DEF BeginReport, HasRead, Transactions, InquiryLocked
  <2> QED BY <1>4, <2>6 DEF BeginReport, Begun
<1> QED BY <1>1, <1>2, <1>3, <1>4 DEF Beginning

(* Decisions on reports, and the removal of inquiries.                      *)

\* What a decision or a release makes of a report.
Concluded(r) ==
    /\ r \in DOMAIN report /\ Needed(r)
    /\ report' \in Seq(Report) /\ Len(report') = Len(report) /\ DOMAIN report' = DOMAIN report
    /\ \A q \in DOMAIN report : q # r => report'[q] = report[q]
    /\ report'[r].inquiry = report[r].inquiry /\ report'[r].status # "pending"
    /\ \/ /\ report'[r].retention = "released"
          /\ report'[r].evidence = {} /\ report'[r].holds = {}
       \/ /\ report'[r].retention = "required"
          /\ report'[r].evidence = report[r].evidence /\ report'[r].holds = report[r].holds

LEMMA ReportTyped ==
    ASSUME InquiryInv
    PROVE  /\ report \in Seq(Report) /\ Len(report) \in Nat /\ DOMAIN report = 1..Len(report)
           /\ \A r \in DOMAIN report : report[r] \in Report
<1>1. report \in Seq(Report)
  BY DEF InquiryInv, InquiryTypeOK
<1> QED BY <1>1

LEMMA ReleasedAs ==
    ASSUME NEW reports \in Seq(Report), NEW r \in DOMAIN reports
    PROVE  /\ Released(reports, r) \in Seq(Report)
           /\ Len(Released(reports, r)) = Len(reports)
           /\ DOMAIN Released(reports, r) = DOMAIN reports
           /\ \A q \in DOMAIN reports : q # r => Released(reports, r)[q] = reports[q]
           /\ Released(reports, r)[r] =
                  [inquiry |-> reports[r].inquiry, status |-> reports[r].status,
                   retention |-> "released", evidence |-> {}, holds |-> {}]
<1> DEFINE row == [inquiry |-> reports[r].inquiry, status |-> reports[r].status,
                   retention |-> "released", evidence |-> {}, holds |-> {}]
<1>1. reports[r] \in Report
  OBVIOUS
<1>3. row \in Report
  BY <1>1 DEF Report, Evidence
<1>4. Released(reports, r) = [reports EXCEPT ![r] = row]
  BY DEF Released
<1> HIDE DEF row
<1>5. [reports EXCEPT ![r] = row] \in Seq(Report)
  BY <1>3
<1>6. /\ Len([reports EXCEPT ![r] = row]) = Len(reports)
      /\ DOMAIN [reports EXCEPT ![r] = row] = DOMAIN reports
  OBVIOUS
<1>7. \A q \in DOMAIN reports : [reports EXCEPT ![r] = row][q] = IF q = r THEN row ELSE reports[q]
  OBVIOUS
<1> QED BY <1>4, <1>5, <1>6, <1>7 DEF row

LEMMA ReleaseConcludes ==
    ASSUME InquiryInv, NEW r \in DOMAIN report, Release(r)
    PROVE  Concluded(r)
<1>1. report[r].retention = "required" /\ report' = Released(report, r)
  BY DEF Release
<1>2. report[r].status # "pending"
  BY <1>1 DEF InquiryInv, PendingIsInvestigated
<1>3. report \in Seq(Report)
  BY ReportTyped
<1>4. /\ report' \in Seq(Report) /\ Len(report') = Len(report) /\ DOMAIN report' = DOMAIN report
      /\ \A q \in DOMAIN report : q # r => report'[q] = report[q]
      /\ report'[r] = [inquiry |-> report[r].inquiry, status |-> report[r].status,
                       retention |-> "released", evidence |-> {}, holds |-> {}]
  BY <1>1, <1>3, ReleasedAs
<1> QED BY <1>1, <1>2, <1>4 DEF Concluded, Needed

LEMMA DecideConcludes ==
    ASSUME InquiryInv, NEW r \in DOMAIN report, NEW decision \in {"dismissed", "upheld"},
           NEW pairs, NEW suspend, Decide(r, decision, pairs, suspend)
    PROVE  Concluded(r)
<1>1. report[r].status = "pending" /\ report' = DecisionOf(r, decision)
  BY DEF Decide
<1>2. report[r] \in Report /\ report \in Seq(Report)
  BY ReportTyped
<1> DEFINE row == [inquiry |-> report[r].inquiry, status |-> decision,
                   retention |-> report[r].retention, evidence |-> report[r].evidence,
                   holds |-> report[r].holds]
           decided == [report EXCEPT ![r] = row]
<1>3. [report[r] EXCEPT !.status = decision] = row /\ row \in Report
  BY <1>2 DEF Report
<1>4. [report EXCEPT ![r].status = decision] = decided
  BY <1>3
<1>5. /\ decided \in Seq(Report) /\ Len(decided) = Len(report) /\ DOMAIN decided = DOMAIN report
      /\ decided[r] = row /\ \A q \in DOMAIN report : q # r => decided[q] = report[q]
  <2> HIDE DEF row
  <2> QED BY <1>2, <1>3
<1>6. CASE decision = "dismissed"
  <2>1. report' = Released(decided, r)
    BY <1>1, <1>4, <1>6 DEF DecisionOf
  <2> HIDE DEF decided
  <2>2. /\ report'[r] = [inquiry |-> decided[r].inquiry, status |-> decided[r].status,
                         retention |-> "released", evidence |-> {}, holds |-> {}]
        /\ report' \in Seq(Report) /\ Len(report') = Len(decided) /\ DOMAIN report' = DOMAIN decided
        /\ \A q \in DOMAIN decided : q # r => report'[q] = decided[q]
    BY <1>5, <2>1, ReleasedAs
  <2> QED BY <1>1, <1>5, <1>6, <2>2 DEF Concluded, Needed
<1>7. CASE decision # "dismissed"
  <2> DEFINE kept == [row EXCEPT !.retention = "required"]
  <2>1. kept = [inquiry |-> report[r].inquiry, status |-> decision, retention |-> "required",
                evidence |-> report[r].evidence, holds |-> report[r].holds]
    OBVIOUS
  <2>2. kept \in Report
    BY <1>2, <2>1 DEF Report
  <2>3. report' = [decided EXCEPT ![r] = kept]
    BY <1>1, <1>4, <1>5, <1>7 DEF DecisionOf
  <2>4. /\ report' \in Seq(Report) /\ Len(report') = Len(report) /\ DOMAIN report' = DOMAIN report
        /\ report'[r] = kept /\ \A q \in DOMAIN report : q # r => report'[q] = report[q]
    <3> HIDE DEF kept, decided
    <3> QED BY <1>5, <2>2, <2>3
  <2> QED BY <1>1, <1>7, <2>1, <2>4 DEF Concluded, Needed
<1> QED BY <1>6, <1>7

\* The inquiries that a step removes: they serve no purpose, nobody answers.
RemovedWell(I) ==
    /\ I \subseteq Inquiry /\ Remove(I)
    /\ \A i \in I :
           /\ inquiry[i] = "kept" /\ ~InquiryLocked(i) /\ Participants(i) \cap accounts' = {}
           /\ \A r \in DOMAIN report' : report'[r].inquiry = i =>
                  report'[r].status # "pending" /\ report'[r].holds = {}

\* A moderator's step: one report, what it restricts, what it removes.
Moderated(r) ==
    /\ Concluded(r) /\ UNCHANGED <<accounts, active, open>>
    /\ \E I : /\ RemovedWell(I)
              /\ ~InquiryLocked(report[r].inquiry)
              /\ I = {j \in {report[r].inquiry} : Removable(j, accounts, report')}

LEMMA ModerationSteps ==
    ASSUME InquiryInv, NEW r \in DOMAIN report, Moderate(r)
    PROVE  Moderated(r)
<1> DEFINE i == report[r].inquiry
           I == {j \in {i} : Removable(j, accounts, report')}
<1>1. i \in Inquiry
  BY ReportTyped DEF Report
<1>2. /\ Concluded(r) /\ ~InquiryLocked(i) /\ Remove(I) /\ UNCHANGED <<accounts, active, open>>
  <2>1. CASE Release(r)
    BY <2>1, ReleaseConcludes DEF Release
  <2>2. ASSUME NEW decision \in {"dismissed", "upheld"},
               NEW pairs \in SUBSET {Participants(report[r].inquiry)},
               NEW suspend \in {{}} \cup {{a} : a \in Participants(report[r].inquiry)},
               Decide(r, decision, pairs, suspend)
        PROVE <1>2
    <3>1. Concluded(r)
      BY <2>2, DecideConcludes
    <3> QED BY <2>2, <3>1 DEF Decide
  <2> QED BY <2>1, <2>2 DEF Moderate
<1>3. RemovedWell(I)
  BY <1>1, <1>2 DEF RemovedWell, Removable
<1> QED BY <1>2, <1>3 DEF Moderated

LEMMA DeletionRemoves ==
    ASSUME InquiryInv, NEW a \in User, Delete(a)
    PROVE  \E I : /\ RemovedWell(I)
                  /\ I = {i \in Inquiry : a \in Participants(i) /\ Removable(i, accounts', report')}
<1> DEFINE I == {i \in Inquiry : a \in Participants(i) /\ Removable(i, accounts', report)}
<1>1. Remove(I) /\ report' = report
  BY DEF Delete
<1>2. \A i \in I : ~InquiryLocked(i)
  BY DEF Delete
<1>3. RemovedWell(I)
  BY <1>1, <1>2 DEF RemovedWell, Removable
<1> QED BY <1>1, <1>3

-----------------------------------------------------------------------------
(* What a step makes of an inquiry and its messages.                        *)

Untouched(i) == inquiry'[i] = inquiry[i] /\ message'[i] = message[i]

FirstSaid(i) ==
    /\ inquiry[i] = "none" /\ inquiry'[i] = "kept" /\ Submitter(i) \in accounts'
    /\ \E t \in Opened("start") :
           /\ t.inquiry = i /\ open' = open \ {t}
           /\ message'[i] = <<[author |-> t.by, text |-> "first", fresh |-> TRUE]>>

Replied(i) ==
    /\ inquiry'[i] = inquiry[i]
    /\ \E t \in Opened("reply") :
           /\ t.inquiry = i /\ open' = open \ {t}
           /\ message'[i] = Append(message[i], [author |-> t.by, text |-> "first", fresh |-> TRUE])

Reworded(i) ==
    /\ inquiry'[i] = inquiry[i]
    /\ message'[i] \in Seq(Said) /\ Len(message'[i]) = Len(message[i])
    /\ \A n \in Indices(i) :
           /\ message'[i][n].author = message[i][n].author
           /\ message'[i][n].text = message[i][n].text \/ ~Held(i, n)

Vanishes(i) ==
    /\ inquiry[i] = "kept" /\ inquiry'[i] = "removed" /\ message'[i] = <<>>
    /\ ~InquiryLocked(i) /\ Participants(i) \cap accounts' = {}
    /\ \A r \in DOMAIN report' : report'[r].inquiry = i =>
           report'[r].status # "pending" /\ report'[r].holds = {}

InquiryMoves ==
    /\ inquiry' \in [Inquiry -> {"none", "kept", "removed"}] /\ message' = [j \in Inquiry |-> message'[j]]
    /\ \A i \in Inquiry : Untouched(i) \/ FirstSaid(i) \/ Replied(i) \/ Reworded(i) \/ Vanishes(i)

LEMMA RowsTyped ==
    ASSUME InquiryInv
    PROVE  /\ inquiry \in [Inquiry -> {"none", "kept", "removed"}]
           /\ message \in [Inquiry -> Seq(Said)] /\ open \subseteq Transactions
           /\ \A t \in open : t.inquiry \in Inquiry /\ t.by \in Participants(t.inquiry) \cap accounts
<1>1. open \subseteq Transactions
  BY DEF InquiryInv, InquiryTypeOK, Transactions
<1>2. \A t \in open : t.inquiry \in Inquiry
  BY <1>1 DEF Transactions
<1> QED BY <1>1, <1>2 DEF InquiryInv, InquiryTypeOK, TalkTyped, ActorsStay

LEMMA RemovalMoves ==
    ASSUME InquiryInv, NEW I, RemovedWell(I)
    PROVE  InquiryMoves /\ recent' \subseteq recent
<1>1. /\ inquiry' = [i \in Inquiry |-> IF i \in I THEN "removed" ELSE inquiry[i]]
      /\ message' = [i \in Inquiry |-> IF i \in I THEN <<>> ELSE message[i]]
      /\ recent' = recent \ I
  BY DEF RemovedWell, Remove
<1>2. inquiry' \in [Inquiry -> {"none", "kept", "removed"}]
  BY <1>1, RowsTyped
<1>3. ASSUME NEW i \in Inquiry PROVE Untouched(i) \/ Vanishes(i)
  BY <1>1 DEF Untouched, Vanishes, RemovedWell
<1> QED BY <1>1, <1>2, <1>3 DEF InquiryMoves

LEMMA RewordedAs ==
    ASSUME InquiryInv, NEW i \in Inquiry, NEW n \in Indices(i), NEW row \in Said,
           UNCHANGED inquiry,
           message' = [message EXCEPT ![i] = [message[i] EXCEPT ![n] = row]],
           row.author = message[i][n].author,
           row.text = message[i][n].text \/ ~Held(i, n)
    PROVE  InquiryMoves
<1>1. message[i] \in Seq(Said) /\ Indices(i) = 1..Len(message[i])
  BY SaidTyped
<1> DEFINE said == [message[i] EXCEPT ![n] = row]
<1>2. said \in Seq(Said) /\ Len(said) = Len(message[i])
  BY <1>1
<1>3. \A k \in Indices(i) : said[k] = IF k = n THEN row ELSE message[i][k]
  BY <1>1
<1>4. message'[i] = said /\ message' = [j \in Inquiry |-> message'[j]]
  BY RowsTyped
<1>5. Reworded(i)
  <2> HIDE DEF said
  <2> QED BY <1>2, <1>3, <1>4 DEF Reworded
<1>6. \A j \in Inquiry : j # i => Untouched(j)
  BY RowsTyped DEF Untouched
<1>7. inquiry' \in [Inquiry -> {"none", "kept", "removed"}]
  BY RowsTyped
<1> QED BY <1>4, <1>5, <1>6, <1>7 DEF InquiryMoves

LEMMA NothingMoves ==
    ASSUME InquiryInv, UNCHANGED <<inquiry, message>> PROVE InquiryMoves
BY RowsTyped DEF InquiryMoves, Untouched

\* Every step moves each inquiry in one of these ways.
LEMMA StepMoves == ASSUME InquiryInv, [InquiryNext]_inquiryvars PROVE InquiryMoves
<1>1. ASSUME NEW a \in User, NEW i \in Inquiry, Participate(a, i) PROVE InquiryMoves
  <2>1. CASE Beginning(a, i)
    BY <2>1, TransactionBegins, NothingMoves DEF Begun, talk
  <2>2. CASE Block(a, i)
    BY <2>2, NothingMoves DEF Block, talk
  <2> QED BY <1>1, <2>1, <2>2 DEF Participate, Beginning
<1>2. ASSUME NEW t \in open, CommitStart(t) PROVE InquiryMoves
  <2> DEFINE i == t.inquiry
  <2>1. i \in Inquiry /\ t \in Opened("start")
    BY <1>2, RowsTyped DEF CommitStart, Opened
  <2>2. inquiry[i] = "none"
    BY <2>1 DEF InquiryInv, StartsStand
  <2>3. FirstSaid(i)
    BY <1>2, <2>1, <2>2, RowsTyped DEF CommitStart, FirstSaid
  <2>4. \A j \in Inquiry : j # i => Untouched(j)
    BY <1>2, RowsTyped DEF CommitStart, Untouched
  <2>5. inquiry' \in [Inquiry -> {"none", "kept", "removed"}] /\ message' = [j \in Inquiry |-> message'[j]]
    BY <1>2, RowsTyped DEF CommitStart
  <2> QED BY <2>3, <2>4, <2>5 DEF InquiryMoves
<1>3. ASSUME NEW t \in open, CommitReply(t) PROVE InquiryMoves
  <2> DEFINE i == t.inquiry
  <2>1. i \in Inquiry /\ t \in Opened("reply")
    BY <1>3, RowsTyped DEF CommitReply, Opened
  <2>2. Replied(i)
    BY <1>3, <2>1, RowsTyped DEF CommitReply, Replied
  <2>3. \A j \in Inquiry : j # i => Untouched(j)
    BY <1>3, RowsTyped DEF CommitReply, Untouched
  <2>4. inquiry' \in [Inquiry -> {"none", "kept", "removed"}] /\ message' = [j \in Inquiry |-> message'[j]]
    BY <1>3, RowsTyped DEF CommitReply
  <2> QED BY <2>2, <2>3, <2>4 DEF InquiryMoves
<1>4. ASSUME NEW t \in open, CommitEdit(t) PROVE InquiryMoves
  <2> DEFINE i == t.inquiry
             n == t.message
  <2>1. i \in Inquiry /\ t \in Opened("edit")
    BY <1>4, RowsTyped DEF CommitEdit, Opened
  <2>2. ~Held(i, n)
    BY <2>1 DEF InquiryInv, EditsStand
  <2>3. message[i] \in Seq(Said) /\ UNCHANGED inquiry
    BY <1>4, <2>1, RowsTyped DEF CommitEdit
  <2>4. CASE n \in Indices(i)
    <3> DEFINE row == [author |-> message[i][n].author, text |-> "edited",
                       fresh |-> message[i][n].fresh]
    <3>1. message[i][n] \in Said
      BY <2>1, <2>4, SaidTyped
    <3>2. row \in Said /\ [message[i][n] EXCEPT !.text = "edited"] = row
      BY <3>1 DEF Said, Text
    <3>3. message' = [message EXCEPT ![i] = [message[i] EXCEPT ![n] = row]]
      BY <1>4, <3>2 DEF CommitEdit
    <3> HIDE DEF i, n
    <3> QED BY <2>1, <2>2, <2>3, <2>4, <3>2, <3>3, RewordedAs
  <2>5. CASE n \notin Indices(i)
    <3>1. \A row : [message[i] EXCEPT ![n] = row] = message[i]
      BY <2>3, <2>5 DEF Indices
    <3>2. message' = [message EXCEPT ![i] =
                         [message[i] EXCEPT ![n] = [message[i][n] EXCEPT !.text = "edited"]]]
      BY <1>4 DEF CommitEdit
    <3>3. message' = [message EXCEPT ![i] = message[i]]
      BY <3>1, <3>2
    <3>4. message' = message
      BY <2>1, <3>3, RowsTyped
    <3> QED BY <2>3, <3>4, NothingMoves
  <2> QED BY <2>4, <2>5
<1>5. ASSUME NEW t \in open, CommitReport(t) \/ Rollback(t) PROVE InquiryMoves
  BY <1>5, NothingMoves DEF CommitReport, Rollback, talk
<1>6. ASSUME NEW r \in DOMAIN report, Moderate(r) PROVE InquiryMoves
  BY <1>6, ModerationSteps, RemovalMoves DEF Moderated
<1>7. ASSUME NEW a \in User, Delete(a) PROVE InquiryMoves
  BY <1>7, DeletionRemoves, RemovalMoves
<1>8. ASSUME NEW l \in Listing, ListingChanges(l) PROVE InquiryMoves
  BY <1>8, NothingMoves DEF ListingChanges, talk
<1>9. ASSUME NEW i \in Inquiry, HourPasses(i) PROVE InquiryMoves
  BY <1>9, NothingMoves DEF HourPasses
<1>10. ASSUME NEW i \in Inquiry, NEW n \in Indices(i), EditWindowEnds(i, n) PROVE InquiryMoves
  <2> DEFINE row == [author |-> message[i][n].author, text |-> message[i][n].text, fresh |-> FALSE]
  <2>1. message[i][n] \in Said
    BY SaidTyped
  <2>2. row \in Said
    BY <2>1 DEF Said
  <2>4. [message[i][n] EXCEPT !.fresh = FALSE] = row
    <3> DEFINE m == message[i][n]
    <3>1. m \in [author : User, text : Text, fresh : BOOLEAN]
      BY <2>1 DEF Said
    <3> HIDE DEF m
    <3>2. [m EXCEPT !.fresh = FALSE] = [author |-> m.author, text |-> m.text, fresh |-> FALSE]
      <4>1. \A f \in BOOLEAN : [m EXCEPT !.fresh = f] = [author |-> m.author, text |-> m.text, fresh |-> f]
        BY <3>1
      <4> QED BY <4>1
    <3> QED BY <3>2 DEF m
  <2>3. message' = [message EXCEPT ![i] = [message[i] EXCEPT ![n] = row]] /\ UNCHANGED inquiry
    BY <1>10, <2>4 DEF EditWindowEnds
  <2> QED BY <2>2, <2>3, RewordedAs
<1>11. CASE UNCHANGED inquiryvars
  BY <1>11, NothingMoves DEF inquiryvars, talk
<1> QED BY <1>1, <1>2, <1>3, <1>4, <1>5, <1>6, <1>7, <1>8, <1>9, <1>10, <1>11 DEF InquiryNext

-----------------------------------------------------------------------------
(* Transactions, restrictions, reports and the hour of the quota.           *)

\* What a step does to the transactions that are open.
OpenMoves ==
    \/ \E t : Begun(t)
    \/ \E t \in open : open' = open \ {t}
    \/ open' = open

LEMMA StepOpens == ASSUME InquiryInv, [InquiryNext]_inquiryvars PROVE OpenMoves
<1>1. ASSUME NEW a \in User, NEW i \in Inquiry, Participate(a, i) PROVE OpenMoves
  <2>1. CASE Beginning(a, i)
    BY <2>1, TransactionBegins DEF OpenMoves
  <2>2. CASE Block(a, i)
    BY <2>2 DEF Block, OpenMoves
  <2> QED BY <1>1, <2>1, <2>2 DEF Participate, Beginning
<1>2. ASSUME NEW t \in open,
             CommitStart(t) \/ CommitReply(t) \/ CommitEdit(t) \/ CommitReport(t) \/ Rollback(t)
      PROVE OpenMoves
  BY <1>2 DEF CommitStart, CommitReply, CommitEdit, CommitReport, Rollback, OpenMoves
<1>3. ASSUME NEW r \in DOMAIN report, Moderate(r) PROVE OpenMoves
  BY <1>3, ModerationSteps DEF Moderated, OpenMoves
<1>4. ASSUME NEW a \in User, Delete(a) PROVE OpenMoves
  BY <1>4 DEF Delete, OpenMoves
<1>5. ASSUME NEW l \in Listing, ListingChanges(l) PROVE OpenMoves
  BY <1>5 DEF ListingChanges, OpenMoves
<1>6. ASSUME NEW i \in Inquiry, HourPasses(i) \/ \E n \in Indices(i) : EditWindowEnds(i, n)
      PROVE OpenMoves
  BY <1>6 DEF HourPasses, EditWindowEnds, OpenMoves
<1>7. CASE UNCHANGED inquiryvars
  BY <1>7 DEF inquiryvars, OpenMoves
<1> QED BY <1>1, <1>2, <1>3, <1>4, <1>5, <1>6, <1>7 DEF InquiryNext

\* A restriction is of accounts that are there, and waits for their starts.
RestrictionMoves ==
    /\ accounts' \subseteq accounts /\ active' \subseteq Listing
    /\ blocked' \subseteq Pairs /\ \A pair \in blocked' : pair \subseteq accounts'
    /\ suspended' \subseteq accounts'
    /\ \A pair \in blocked' \ blocked : \A x \in pair : ~AccountLocked(x)
    /\ \A x \in suspended' \ suspended : ~AccountLocked(x)
    /\ \A t \in open' : t.by \in accounts => t.by \in accounts'

LEMMA RestrictionsUnchanged ==
    ASSUME InquiryInv, active' \subseteq Listing, UNCHANGED <<accounts, blocked, suspended>>
    PROVE  RestrictionMoves
BY DEF InquiryInv, InquiryTypeOK, RestrictionMoves

LEMMA StepRestricts == ASSUME InquiryInv, [InquiryNext]_inquiryvars PROVE RestrictionMoves
<1>0. /\ active \subseteq Listing /\ blocked \subseteq Pairs /\ suspended \subseteq accounts
      /\ \A pair \in blocked : pair \subseteq accounts
  BY DEF InquiryInv, InquiryTypeOK
<1>1. ASSUME NEW a \in User, NEW i \in Inquiry, Participate(a, i) PROVE RestrictionMoves
  <2>1. CASE Beginning(a, i)
    BY <1>0, <2>1, TransactionBegins, RestrictionsUnchanged DEF Begun
  <2>2. CASE Block(a, i)
    BY <1>0, <2>2 DEF Block, RestrictionMoves, SomeoneDeleted, Pairs
  <2> QED BY <1>1, <2>1, <2>2 DEF Participate, Beginning
<1>2. ASSUME NEW t \in open,
             CommitStart(t) \/ CommitReply(t) \/ CommitEdit(t) \/ CommitReport(t) \/ Rollback(t)
      PROVE RestrictionMoves
  BY <1>0, <1>2, RestrictionsUnchanged DEF CommitStart, CommitReply, CommitEdit, CommitReport, Rollback
<1>3. ASSUME NEW r \in DOMAIN report, Moderate(r) PROVE RestrictionMoves
  <2>1. report[r].inquiry \in Inquiry
    BY ReportTyped DEF Report
  <2>2. CASE Release(r)
    BY <1>0, <2>2, RestrictionsUnchanged DEF Release
  <2>3. ASSUME NEW decision \in {"dismissed", "upheld"},
               NEW pairs \in SUBSET {Participants(report[r].inquiry)},
               NEW suspend \in {{}} \cup {{a} : a \in Participants(report[r].inquiry)},
               Decide(r, decision, pairs, suspend)
        PROVE RestrictionMoves
    <3>1. pairs \subseteq Pairs
      BY <2>1 DEF Pairs
    <3>2. \A pair \in pairs : pair \subseteq accounts /\ \A x \in pair : ~AccountLocked(x)
      BY <2>3 DEF Decide, SomeoneDeleted
    <3>3. \A x \in suspend : x \in accounts /\ ~AccountLocked(x)
      BY <2>3 DEF Decide
    <3>4. /\ UNCHANGED <<accounts, active, open>>
          /\ blocked' = blocked \cup pairs /\ suspended' = suspended \cup suspend
      BY <2>3 DEF Decide
    <3> QED BY <1>0, <3>1, <3>2, <3>3, <3>4 DEF RestrictionMoves
  <2> QED BY <1>3, <2>2, <2>3 DEF Moderate
<1>4. ASSUME NEW a \in User, Delete(a) PROVE RestrictionMoves
  <2>1. \A t \in open : t.by # a
    <3> SUFFICES ASSUME NEW t \in open PROVE t.by # a
      OBVIOUS
    <3>1. t.inquiry \in Inquiry /\ t.by \in Participants(t.inquiry) /\ t \in Transactions
      BY RowsTyped
    <3>2. CASE t.kind = "start"
      BY <1>4, <3>2 DEF Delete, AccountLocked, Opened
    <3>3. CASE t.kind \in {"reply", "report"}
      <4>1. InquiryLocked(t.inquiry)
        BY <3>3 DEF InquiryLocked, Opened
      <4> QED BY <1>4, <3>1, <4>1 DEF Delete
    <3>4. CASE t.kind = "edit"
      BY <1>4, <3>4 DEF Delete, Opened
    <3> QED BY <3>1, <3>2, <3>3, <3>4 DEF Transactions
  <2> QED BY <1>0, <1>4, <2>1 DEF Delete, RestrictionMoves
<1>5. ASSUME NEW l \in Listing, ListingChanges(l) PROVE RestrictionMoves
  BY <1>0, <1>5, RestrictionsUnchanged DEF ListingChanges
<1>6. ASSUME NEW i \in Inquiry, HourPasses(i) \/ \E n \in Indices(i) : EditWindowEnds(i, n)
      PROVE RestrictionMoves
  BY <1>0, <1>6, RestrictionsUnchanged DEF HourPasses, EditWindowEnds
<1>7. CASE UNCHANGED inquiryvars
  BY <1>0, <1>7, RestrictionsUnchanged DEF inquiryvars
<1> QED BY <1>1, <1>2, <1>3, <1>4, <1>5, <1>6, <1>7 DEF InquiryNext

\* A new report has what its transaction has read.
Filed(t) ==
    /\ t \in Opened("report") /\ open' = open \ {t}
    /\ report' = Append(report, [inquiry |-> t.inquiry, status |-> "pending",
                                 retention |-> "investigation", evidence |-> t.evidence,
                                 holds |-> {e[1] : e \in t.evidence}])
    /\ \A n \in {e[1] : e \in t.evidence} : ~MessageLocked(t.inquiry, n)
    /\ UNCHANGED <<accounts, active, talk, blocked, suspended>>

ReportMoves ==
    \/ \E t : Filed(t)
    \/ \E r \in DOMAIN report : Moderated(r)
    \/ \E a \in User : Delete(a)
    \/ UNCHANGED <<report, accounts>>

LEMMA StepReports == ASSUME InquiryInv, [InquiryNext]_inquiryvars PROVE ReportMoves
<1>1. ASSUME NEW a \in User, NEW i \in Inquiry, Participate(a, i) PROVE ReportMoves
  <2>1. CASE Beginning(a, i)
    BY <2>1, TransactionBegins DEF ReportMoves, Begun
  <2>2. CASE Block(a, i)
    BY <2>2 DEF Block, ReportMoves
  <2> QED BY <1>1, <2>1, <2>2 DEF Participate, Beginning
<1>2. ASSUME NEW t \in open, CommitStart(t) \/ CommitReply(t) \/ CommitEdit(t) \/ Rollback(t)
      PROVE ReportMoves
  BY <1>2 DEF CommitStart, CommitReply, CommitEdit, Rollback, ReportMoves
<1>3. ASSUME NEW t \in open, CommitReport(t) PROVE ReportMoves
  BY <1>3 DEF CommitReport, ReportMoves, Filed, Opened
<1>4. ASSUME NEW r \in DOMAIN report, Moderate(r) PROVE ReportMoves
  BY <1>4, ModerationSteps DEF ReportMoves
<1>5. ASSUME NEW a \in User, Delete(a) PROVE ReportMoves
  BY <1>5 DEF ReportMoves
<1>6. ASSUME NEW l \in Listing, ListingChanges(l) PROVE ReportMoves
  BY <1>6 DEF ListingChanges, ReportMoves
<1>7. ASSUME NEW i \in Inquiry, HourPasses(i) \/ \E n \in Indices(i) : EditWindowEnds(i, n)
      PROVE ReportMoves
  BY <1>7 DEF HourPasses, EditWindowEnds, ReportMoves
<1>8. CASE UNCHANGED inquiryvars
  BY <1>8 DEF inquiryvars, ReportMoves
<1> QED BY <1>1, <1>2, <1>3, <1>4, <1>5, <1>6, <1>7, <1>8 DEF InquiryNext

\* Only a commit of a start counts for the quota.
RecentMoves ==
    \/ recent' \subseteq recent
    \/ \E t \in Opened("start") : recent' = recent \cup {t.inquiry} /\ open' = open \ {t}

LEMMA StepCounts == ASSUME InquiryInv, [InquiryNext]_inquiryvars PROVE RecentMoves
<1>1. ASSUME NEW a \in User, NEW i \in Inquiry, Participate(a, i) PROVE RecentMoves
  <2>1. CASE Beginning(a, i)
    BY <2>1, TransactionBegins DEF RecentMoves, Begun, talk
  <2>2. CASE Block(a, i)
    BY <2>2 DEF Block, RecentMoves, talk
  <2> QED BY <1>1, <2>1, <2>2 DEF Participate, Beginning
<1>2. ASSUME NEW t \in open, CommitReply(t) \/ CommitEdit(t) \/ CommitReport(t) \/ Rollback(t)
      PROVE RecentMoves
  BY <1>2 DEF CommitReply, CommitEdit, CommitReport, Rollback, RecentMoves, talk
<1>3. ASSUME NEW t \in open, CommitStart(t) PROVE RecentMoves
  BY <1>3 DEF CommitStart, RecentMoves, Opened
<1>4. ASSUME NEW r \in DOMAIN report, Moderate(r) PROVE RecentMoves
  BY <1>4, ModerationSteps, RemovalMoves DEF Moderated, RecentMoves
<1>5. ASSUME NEW a \in User, Delete(a) PROVE RecentMoves
  BY <1>5, DeletionRemoves, RemovalMoves DEF RecentMoves
<1>6. ASSUME NEW l \in Listing, ListingChanges(l) PROVE RecentMoves
  BY <1>6 DEF ListingChanges, RecentMoves, talk
<1>7. ASSUME NEW i \in Inquiry, HourPasses(i) \/ \E n \in Indices(i) : EditWindowEnds(i, n)
      PROVE RecentMoves
  BY <1>7 DEF HourPasses, EditWindowEnds, RecentMoves
<1>8. CASE UNCHANGED inquiryvars
  BY <1>8 DEF inquiryvars, RecentMoves, talk
<1> QED BY <1>1, <1>2, <1>3, <1>4, <1>5, <1>6, <1>7, <1>8 DEF InquiryNext

-----------------------------------------------------------------------------
(* Each part of the invariant is kept.                                      *)

LEMMA OpenedFinite ==
    ASSUME InquiryInv, NEW sort
    PROVE  IsFiniteSet(Opened(sort)) /\ Cardinality(Opened(sort)) \in Nat
<1>1. Opened(sort) \subseteq open /\ IsFiniteSet(open)
  BY DEF Opened, InquiryInv, TalkTyped
<1> QED BY <1>1, FS_Subset, FS_CardinalityType

LEMMA ReportRowsStep ==
    ASSUME InquiryInv, [InquiryNext]_inquiryvars
    PROVE  report' \in Seq(Report) /\ ReportsFit'
<1> USE ReportTyped
<1>0. /\ IsFiniteSet(Opened("report")) /\ Cardinality(Opened("report")) \in Nat
      /\ MaxReports \in Nat /\ Len(report) \in Nat
      /\ Len(report) + Cardinality(Opened("report")) <= MaxReports
  BY OpenedFinite, NumbersAssumption DEF NumbersAssumption, InquiryInv, ReportsFit
<1>1. CASE \E t : Filed(t)
  <2>1. PICK t : Filed(t)
    BY <1>1
  <2> DEFINE row == [inquiry |-> t.inquiry, status |-> "pending", retention |-> "investigation",
                     evidence |-> t.evidence, holds |-> {e[1] : e \in t.evidence}]
  <2>2. t \in Transactions
    BY <2>1, RowsTyped DEF Filed, Opened
  <2>3. row \in Report
    <3>1. t.evidence \in Evidence /\ t.inquiry \in Inquiry
      BY <2>2 DEF Transactions
    <3>2. {e[1] : e \in t.evidence} \subseteq 1..MaxPerInquiry
      BY <3>1 DEF Evidence
    <3> QED BY <3>1, <3>2 DEF Report
  <2>4. report' = Append(report, row)
    BY <2>1 DEF Filed
  <2>5. report' \in Seq(Report) /\ Len(report') = Len(report) + 1
    <3> HIDE DEF row
    <3> QED BY <2>3, <2>4
  <2>6. t \in Opened("report") /\ Opened("report")' = Opened("report") \ {t}
    BY <2>1 DEF Filed, Opened
  <2>7. Cardinality(Opened("report") \ {t}) = Cardinality(Opened("report")) - 1
    BY <2>6, OpenedFinite, FS_RemoveElement
  <2>8. Cardinality(Opened("report")') = Cardinality(Opened("report")) - 1
    BY <2>6, <2>7
  <2>9. Len(report') + Cardinality(Opened("report")') <= MaxReports
    <3> DEFINE k == Cardinality(Opened("report")')
               l == Cardinality(Opened("report"))
    <3>1. l \in Nat /\ k = l - 1 /\ Len(report) + l <= MaxReports
      BY <1>0, <2>8
    <3> HIDE DEF k, l
    <3>2. Len(report') + k <= MaxReports
      BY <1>0, <2>5, <3>1
    <3> QED BY <3>2 DEF k
  <2> QED BY <2>5, <2>9 DEF ReportsFit
<1>2. CASE \E r \in DOMAIN report : Moderated(r)
  <2>1. report' \in Seq(Report) /\ Len(report') = Len(report) /\ open' = open
    BY <1>2 DEF Moderated, Concluded
  <2>2. Opened("report")' = Opened("report")
    BY <2>1 DEF Opened
  <2> QED BY <2>1, <2>2 DEF ReportsFit, InquiryInv
<1>3. CASE report' = report
  <2>1. CASE \E t : Begun(t)
    <3>1. PICK t : Begun(t)
      BY <2>1
    <3>2. CASE t.kind = "report"
      <4>1. Opened("report")' = Opened("report") \cup {t}
        BY <3>1, <3>2 DEF Begun, Opened
      <4>2. t \notin Opened("report")
        BY <3>1, <3>2 DEF Begun, HasRead
      <4>3. Cardinality(Opened("report") \cup {t}) = Cardinality(Opened("report")) + 1
        BY <4>2, OpenedFinite, FS_AddElement
      <4>4. Len(report) + Cardinality(Opened("report")) < MaxReports
        BY <3>1, <3>2 DEF Begun, HasRead
      <4>5. Len(report') + Cardinality(Opened("report")') <= MaxReports
        <5> DEFINE k == Cardinality(Opened("report")')
                   l == Cardinality(Opened("report"))
        <5>1. k = l + 1
          BY <4>1, <4>3
        <5>2. l \in Nat /\ Len(report) + l < MaxReports
          BY <1>0, <4>4
        <5> HIDE DEF k, l
        <5>3. Len(report') + k <= MaxReports
          BY <1>0, <1>3, <5>1, <5>2
        <5> QED BY <5>3 DEF k
      <4> QED BY <1>3, <4>5 DEF ReportsFit
    <3>3. CASE t.kind # "report"
      <4>1. Opened("report")' = Opened("report")
        BY <3>1, <3>3 DEF Begun, Opened
      <4> QED BY <1>3, <4>1 DEF ReportsFit, InquiryInv
    <3> QED BY <3>2, <3>3
  <2>2. CASE open' \subseteq open
    <3>1. Opened("report")' \subseteq Opened("report")
      BY <2>2 DEF Opened
    <3>2. /\ Cardinality(Opened("report")') <= Cardinality(Opened("report"))
          /\ Cardinality(Opened("report")') \in Nat
      BY <3>1, OpenedFinite, FS_Subset, FS_CardinalityType
    <3> QED BY <1>3, <3>2, OpenedFinite, NumbersAssumption
            DEF ReportsFit, InquiryInv, NumbersAssumption
  <2> QED BY <2>1, <2>2, StepOpens DEF OpenMoves
<1> QED BY <1>1, <1>2, <1>3, StepReports DEF ReportMoves, Delete

LEMMA MessagesStep ==
    ASSUME InquiryInv, [InquiryNext]_inquiryvars
    PROVE  /\ message' \in [Inquiry -> Seq(Said)]
           /\ \A i \in Inquiry : Len(message[i])' <= MaxPerInquiry /\ \A n \in Indices(i)' :
                  message'[i][n] \in [author : Participants(i), text : Text, fresh : BOOLEAN]
<1> DEFINE Utterance(i) == [author : Participants(i), text : Text, fresh : BOOLEAN]
<1>1. message' = [j \in Inquiry |-> message'[j]] /\ InquiryMoves
  BY StepMoves DEF InquiryMoves
<1>2. ASSUME NEW i \in Inquiry
      PROVE  /\ message'[i] \in Seq(Said) /\ Len(message'[i]) <= MaxPerInquiry
             /\ \A n \in DOMAIN message'[i] : message'[i][n].author \in Participants(i)
  <2> DEFINE First(t) == [author |-> t.by, text |-> "first", fresh |-> TRUE]
  <2>0. /\ message[i] \in Seq(Said) /\ Len(message[i]) \in Nat /\ Len(message[i]) <= MaxPerInquiry
        /\ DOMAIN message[i] = Indices(i) /\ Indices(i) = 1..Len(message[i])
        /\ \A n \in Indices(i) : message[i][n].author \in Participants(i)
    BY SaidTyped DEF Indices
  <2>1. ASSUME NEW t \in open, t.inquiry = i
        PROVE First(t) \in Said /\ First(t).author \in Participants(i)
    BY <2>1, RowsTyped, InquiryFacts DEF Said, Text
  <2>2. CASE Untouched(i)
    BY <2>0, <2>2 DEF Untouched
  <2>3. CASE FirstSaid(i)
    <3>1. PICK t \in open : t.inquiry = i /\ message'[i] = <<First(t)>>
      BY <2>3 DEF FirstSaid, Opened
    <3>2. First(t) \in Said /\ First(t).author \in Participants(i)
      BY <2>1, <3>1
    <3> HIDE DEF First
    <3> QED BY <3>1, <3>2, NumbersAssumption DEF NumbersAssumption
  <2>4. CASE Replied(i)
    <3>1. PICK t \in Opened("reply") : t.inquiry = i /\ message'[i] = Append(message[i], First(t))
      BY <2>4 DEF Replied
    <3>2. t \in open /\ t.kind = "reply" /\ Len(message[i]) < MaxPerInquiry
      BY <3>1 DEF InquiryInv, AnswersStand, Opened
    <3>3. First(t) \in Said /\ First(t).author \in Participants(i)
      BY <2>1, <3>1, <3>2
    <3> HIDE DEF First
    <3>4. /\ message'[i] \in Seq(Said) /\ Len(message'[i]) = Len(message[i]) + 1
          /\ DOMAIN message'[i] = 1..(Len(message[i]) + 1)
          /\ \A n \in 1..Len(message[i]) : message'[i][n] = message[i][n]
          /\ message'[i][Len(message[i]) + 1] = First(t)
      BY <2>0, <3>1, <3>3
    <3>5. \A n \in DOMAIN message'[i] : n \in 1..Len(message[i]) \/ n = Len(message[i]) + 1
      BY <2>0, <3>4
    <3> QED BY <2>0, <3>2, <3>3, <3>4, <3>5, NumbersAssumption DEF NumbersAssumption
  <2>5. CASE Reworded(i)
    <3>1. DOMAIN message'[i] = Indices(i)
      BY <2>0, <2>5 DEF Reworded
    <3> QED BY <2>0, <2>5, <3>1 DEF Reworded
  <2>6. CASE Vanishes(i)
    <3>1. message'[i] = <<>>
      BY <2>6 DEF Vanishes
    <3> QED BY <3>1, NumbersAssumption DEF NumbersAssumption
  <2> QED BY <1>1, <2>2, <2>3, <2>4, <2>5, <2>6 DEF InquiryMoves
<1>3. ASSUME NEW i \in Inquiry, NEW n \in DOMAIN message'[i] PROVE message'[i][n] \in Utterance(i)
  <2>1. message'[i][n] \in Said /\ message'[i][n].author \in Participants(i)
    BY <1>2, <1>3
  <2> QED BY <2>1 DEF Said
<1>4. message' \in [Inquiry -> Seq(Said)]
  BY <1>1, <1>2
<1> QED BY <1>2, <1>3, <1>4 DEF Indices

LEMMA OpenStep ==
    ASSUME InquiryInv, [InquiryNext]_inquiryvars
    PROVE  open' \subseteq Transactions /\ IsFiniteSet(open') /\ ActorsStay'
<1>1. open \subseteq Transactions /\ IsFiniteSet(open) /\ RestrictionMoves
  BY RowsTyped, StepRestricts DEF InquiryInv, TalkTyped
<1>2. CASE \E t : Begun(t)
  <2>1. PICK t : Begun(t)
    BY <1>2
  <2>2. IsFiniteSet(open \cup {t})
    BY <1>1, FS_AddElement
  <2> QED BY <1>1, <2>1, <2>2, RowsTyped DEF Begun, HasRead, ActorsStay, Participants, Renter, Submitter
<1>3. CASE open' \subseteq open
  <2>1. IsFiniteSet(open')
    BY <1>1, <1>3, FS_Subset
  <2> QED BY <1>1, <1>3, <2>1, RowsTyped DEF RestrictionMoves, ActorsStay, Participants, Renter, Submitter
<1> QED BY <1>2, <1>3, StepOpens DEF OpenMoves

LEMMA RecentStep ==
    ASSUME InquiryInv, [InquiryNext]_inquiryvars
    PROVE  recent' \subseteq Inquiry /\ IsFiniteSet(recent')
<1>1. recent \subseteq Inquiry /\ IsFiniteSet(recent)
  BY DEF InquiryInv, InquiryTypeOK, TalkTyped
<1>2. CASE recent' \subseteq recent
  BY <1>1, <1>2, FS_Subset
<1>3. ASSUME NEW t \in Opened("start"), recent' = recent \cup {t.inquiry}
      PROVE  recent' \subseteq Inquiry /\ IsFiniteSet(recent')
  <2>1. t.inquiry \in Inquiry
    BY <1>3, RowsTyped DEF Opened
  <2>2. IsFiniteSet(recent \cup {t.inquiry})
    BY <1>1, FS_AddElement
  <2> QED BY <1>1, <1>3, <2>1, <2>2
<1> QED BY <1>2, <1>3, StepCounts DEF RecentMoves

LEMMA InquiryTypesStep ==
    ASSUME InquiryInv, [InquiryNext]_inquiryvars
    PROVE  InquiryTypeOK' /\ TalkTyped'
<1>1. accounts' \subseteq User /\ active' \subseteq Listing
  BY StepRestricts DEF RestrictionMoves, InquiryInv, InquiryTypeOK
<1>2. inquiry' \in [Inquiry -> {"none", "kept", "removed"}]
  BY StepMoves DEF InquiryMoves
<1>3. Len(report') <= MaxReports
  <2>1. Cardinality(Opened("report")') \in Nat
    <3>1. Opened("report")' \subseteq open' /\ IsFiniteSet(open')
      BY OpenStep DEF Opened
    <3> QED BY <3>1, FS_Subset, FS_CardinalityType
  <2>2. Len(report') \in Nat /\ Len(report') + Cardinality(Opened("report")') <= MaxReports
    BY ReportRowsStep DEF ReportsFit
  <2> DEFINE k == Cardinality(Opened("report")')
  <2>3. k \in Nat /\ Len(report') + k <= MaxReports
    BY <2>1, <2>2
  <2> HIDE DEF k
  <2> QED BY <2>2, <2>3, NumbersAssumption DEF NumbersAssumption
<1>4. /\ blocked' \subseteq Pairs /\ suspended' \subseteq accounts'
      /\ \A pair \in blocked' : pair \subseteq accounts'
  BY StepRestricts DEF RestrictionMoves
<1> QED BY <1>1, <1>2, <1>3, <1>4, ReportRowsStep, MessagesStep, OpenStep, RecentStep
        DEF InquiryTypeOK, TalkTyped, Transactions, Indices

LEMMA SaidStep == ASSUME InquiryInv, [InquiryNext]_inquiryvars PROVE SaidWhileKept'
<1> SUFFICES ASSUME NEW i \in Inquiry PROVE inquiry'[i] = "kept" <=> message'[i] # <<>>
  BY DEF SaidWhileKept
<1>1. inquiry[i] = "kept" <=> message[i] # <<>>
  BY DEF InquiryInv, SaidWhileKept
<1>2. message[i] \in Seq(Said) /\ Len(message[i]) \in Nat
  BY SaidTyped
<1>3. CASE Untouched(i)
  BY <1>1, <1>3 DEF Untouched
<1>4. CASE FirstSaid(i)
  <2>1. PICK x : message'[i] = <<x>>
    BY <1>4 DEF FirstSaid
  <2>2. <<x>> # <<>>
    OBVIOUS
  <2> QED BY <1>4, <2>1, <2>2 DEF FirstSaid
<1>5. CASE Replied(i)
  <2>1. PICK t \in Opened("reply") : t.inquiry = i /\ \E x : message'[i] = Append(message[i], x)
    BY <1>5 DEF Replied
  <2>2. inquiry[i] = "kept"
    BY <2>1 DEF InquiryInv, AnswersStand
  <2>3. \A x : Append(message[i], x) # <<>>
    BY <1>2
  <2> QED BY <1>5, <2>1, <2>2, <2>3 DEF Replied
<1>6. CASE Reworded(i)
  <2>1. message'[i] \in Seq(Said) /\ Len(message'[i]) = Len(message[i])
    BY <1>6 DEF Reworded
  <2>2. message'[i] = <<>> <=> message[i] = <<>>
    BY <1>2, <2>1
  <2> QED BY <1>1, <1>6, <2>2 DEF Reworded
<1>7. CASE Vanishes(i)
  BY <1>7 DEF Vanishes
<1> QED BY <1>3, <1>4, <1>5, <1>6, <1>7, StepMoves DEF InquiryMoves

\* What a transaction under the lock of an inquiry has read stays.
LEMMA LockedStays ==
    ASSUME InquiryInv, [InquiryNext]_inquiryvars,
           NEW t \in Opened("reply") \cup Opened("report"), t \in open'
    PROVE  /\ inquiry'[t.inquiry] = "kept"
           /\ Len(message'[t.inquiry]) = Len(message[t.inquiry])
           /\ Indices(t.inquiry)' = Indices(t.inquiry)
<1> DEFINE i == t.inquiry
<1>1. t \in open /\ i \in Inquiry /\ InquiryLocked(i)
  BY RowsTyped DEF Opened, InquiryLocked
<1>2. inquiry[i] = "kept"
  BY DEF InquiryInv, AnswersStand
<1>3. message[i] \in Seq(Said) /\ Indices(i) = 1..Len(message[i])
  BY <1>1, SaidTyped
<1>4. CASE Untouched(i)
  BY <1>2, <1>4 DEF Untouched, Indices
<1>5. ~FirstSaid(i) /\ ~Vanishes(i)
  BY <1>1, <1>2 DEF FirstSaid, Vanishes
<1>6. ~Replied(i)
  <2>1. ASSUME NEW u \in Opened("reply"), u.inquiry = i PROVE u = t
    BY <2>1 DEF InquiryInv, AnswersStand
  <2> QED BY <2>1 DEF Replied
<1>7. CASE Reworded(i)
  <2>1. message'[i] \in Seq(Said) /\ Len(message'[i]) = Len(message[i])
    BY <1>7 DEF Reworded
  <2>2. DOMAIN message'[i] = 1..Len(message[i])
    BY <2>1
  <2> QED BY <1>2, <1>3, <1>7, <2>1, <2>2 DEF Reworded, Indices
<1> QED BY <1>1, <1>4, <1>5, <1>6, <1>7, StepMoves DEF InquiryMoves

\* What is said stays said as long as its inquiry is kept.
LEMMA IndicesGrow ==
    ASSUME InquiryInv, [InquiryNext]_inquiryvars, NEW i \in Inquiry, ~Vanishes(i)
    PROVE  Indices(i) \subseteq Indices(i)'
<1>1. message[i] \in Seq(Said) /\ Indices(i) = 1..Len(message[i]) /\ Len(message[i]) \in Nat
  BY SaidTyped
<1>2. CASE Untouched(i)
  BY <1>2 DEF Untouched, Indices
<1>3. CASE FirstSaid(i)
  <2>1. message[i] = <<>>
    BY <1>3 DEF FirstSaid, InquiryInv, SaidWhileKept
  <2>2. Len(message[i]) = 0
    BY <2>1
  <2>3. Indices(i) = {}
    BY <1>1, <2>2
  <2> QED BY <2>3
<1>4. CASE Replied(i)
  <2>1. PICK t \in Opened("reply") : /\ t.inquiry = i
            /\ message'[i] = Append(message[i], [author |-> t.by, text |-> "first", fresh |-> TRUE])
    BY <1>4 DEF Replied
  <2>2. DOMAIN message'[i] = 1..(Len(message[i]) + 1)
    BY <1>1, <2>1
  <2> QED BY <1>1, <2>2 DEF Indices
<1>5. CASE Reworded(i)
  <2>1. message'[i] \in Seq(Said) /\ Len(message'[i]) = Len(message[i])
    BY <1>5 DEF Reworded
  <2>2. DOMAIN message'[i] = 1..Len(message[i])
    BY <2>1
  <2> QED BY <1>1, <2>2 DEF Indices
<1> QED BY <1>2, <1>3, <1>4, <1>5, StepMoves DEF InquiryMoves

LEMMA AnswersStep == ASSUME InquiryInv, [InquiryNext]_inquiryvars PROVE AnswersStand'
<1> DEFINE Answering == Opened("reply") \cup Opened("report")
<1>0. /\ \A t \in Answering : t \in open /\ t.kind \in {"reply", "report"}
      /\ \A t \in Answering' : t \in open' /\ t.kind \in {"reply", "report"}
      /\ \A t \in open : t.kind \in {"reply", "report"} => t \in Answering
      /\ \A t \in Answering, u \in Answering : u.inquiry = t.inquiry => u = t
  BY DEF Opened, InquiryInv, AnswersStand
<1>1. CASE \E t : Begun(t)
  <2>1. PICK t : Begun(t)
    BY <1>1
  <2>2. open' = open \cup {t} /\ UNCHANGED <<inquiry, message, report>>
    BY <2>1 DEF Begun, talk
  <2>3. ASSUME NEW u \in Answering', u # t
        PROVE  /\ u \in Answering /\ inquiry'[u.inquiry] = "kept"
               /\ u.kind = "reply" => Len(message'[u.inquiry]) < MaxPerInquiry
               /\ u.kind = "report" =>
                      u.evidence # {} /\ {e[1] : e \in u.evidence} \subseteq Indices(u.inquiry)'
    <3>1. u \in Answering
      BY <1>0, <2>2, <2>3
    <3> QED BY <2>2, <3>1 DEF InquiryInv, AnswersStand, Indices
  <2>4. ASSUME t \in Answering'
        PROVE  /\ inquiry'[t.inquiry] = "kept"
               /\ t.kind = "reply" => Len(message'[t.inquiry]) < MaxPerInquiry
               /\ t.kind = "report" =>
                      t.evidence # {} /\ {e[1] : e \in t.evidence} \subseteq Indices(t.inquiry)'
               /\ \A u \in Answering : u.inquiry # t.inquiry
    BY <1>0, <2>1, <2>2, <2>4 DEF Begun, HasRead, Indices
  <2> QED BY <1>0, <2>3, <2>4 DEF AnswersStand
<1>2. CASE open' \subseteq open
  <2>1. ASSUME NEW u \in Answering'
        PROVE  /\ u \in Answering /\ inquiry'[u.inquiry] = "kept"
               /\ u.kind = "reply" => Len(message'[u.inquiry]) < MaxPerInquiry
               /\ u.kind = "report" =>
                      u.evidence # {} /\ {e[1] : e \in u.evidence} \subseteq Indices(u.inquiry)'
    <3>1. u \in Answering /\ u \in open'
      BY <1>0, <1>2
    <3>2. /\ inquiry'[u.inquiry] = "kept" /\ Len(message'[u.inquiry]) = Len(message[u.inquiry])
          /\ Indices(u.inquiry)' = Indices(u.inquiry)
      BY <3>1, LockedStays
    <3> QED BY <3>1, <3>2 DEF InquiryInv, AnswersStand
  <2> QED BY <1>0, <2>1 DEF AnswersStand
<1> QED BY <1>1, <1>2, StepOpens DEF OpenMoves

LEMMA ColdFinite ==
    ASSUME InquiryInv, NEW a
    PROVE  IsFiniteSet(ColdContacts(a)) /\ Cardinality(ColdContacts(a)) \in Nat
<1>1. ColdContacts(a) \subseteq recent /\ IsFiniteSet(recent)
  BY DEF ColdContacts, InquiryInv, TalkTyped
<1> QED BY <1>1, FS_Subset, FS_CardinalityType

\* Only the commit of its own start counts for an account.
LEMMA ColdContactsStep ==
    ASSUME InquiryInv, [InquiryNext]_inquiryvars, NEW a
    PROVE  \/ /\ Cardinality(ColdContacts(a)') <= Cardinality(ColdContacts(a))
              /\ Cardinality(ColdContacts(a)') \in Nat
           \/ \E t \in Opened("start") :
                  /\ t.by = a /\ open' = open \ {t}
                  /\ Cardinality(ColdContacts(a)') <= Cardinality(ColdContacts(a)) + 1
                  /\ Cardinality(ColdContacts(a)') \in Nat
<1>1. CASE recent' \subseteq recent
  <2>1. ColdContacts(a)' \subseteq ColdContacts(a)
    BY <1>1 DEF ColdContacts
  <2> QED BY <2>1, ColdFinite, FS_Subset, FS_CardinalityType
<1>2. ASSUME NEW t \in Opened("start"), recent' = recent \cup {t.inquiry}, open' = open \ {t}
      PROVE  \/ /\ Cardinality(ColdContacts(a)') <= Cardinality(ColdContacts(a))
                /\ Cardinality(ColdContacts(a)') \in Nat
             \/ /\ t.by = a /\ Cardinality(ColdContacts(a)') <= Cardinality(ColdContacts(a)) + 1
                /\ Cardinality(ColdContacts(a)') \in Nat
  <2>1. t.by = Renter(t.inquiry)
    BY DEF InquiryInv, StartsStand
  <2>2. CASE t.by # a
    <3>1. ColdContacts(a)' = ColdContacts(a)
      BY <1>2, <2>1, <2>2 DEF ColdContacts, Renter
    <3>2. Cardinality(ColdContacts(a)') = Cardinality(ColdContacts(a))
      BY <3>1
    <3> QED BY <3>2, ColdFinite
  <2>3. CASE t.by = a
    <3>1. ColdContacts(a)' = ColdContacts(a) \cup {t.inquiry}
      BY <1>2, <2>1, <2>3 DEF ColdContacts, Renter
    <3> DEFINE C == ColdContacts(a)
    <3>2. IsFiniteSet(C) /\ Cardinality(C) \in Nat
      BY ColdFinite
    <3>3. Cardinality(C \cup {t.inquiry}) <= Cardinality(C) + 1 /\ Cardinality(C \cup {t.inquiry}) \in Nat
      <4> HIDE DEF C
      <4>1. CASE t.inquiry \in C
        <5>1. C \cup {t.inquiry} = C
          BY <4>1
        <5> QED BY <3>2, <5>1
      <4>2. CASE t.inquiry \notin C
        <5>1. Cardinality(C \cup {t.inquiry}) = Cardinality(C) + 1
          BY <3>2, <4>2, FS_AddElement
        <5> QED BY <3>2, <5>1
      <4> QED BY <4>1, <4>2
    <3> QED BY <2>3, <3>1, <3>3
  <2> QED BY <2>2, <2>3
<1> QED BY <1>1, <1>2, StepCounts DEF RecentMoves

LEMMA QuotaStep == ASSUME InquiryInv, [InquiryNext]_inquiryvars PROVE QuotaHolds'
<1> SUFFICES ASSUME NEW a \in User PROVE Cardinality(ColdContacts(a)') <= ColdLimit
  BY DEF QuotaHolds
<1> DEFINE k == Cardinality(ColdContacts(a))
           l == Cardinality(ColdContacts(a)')
<1>1. k \in Nat /\ ColdLimit \in Nat /\ k <= ColdLimit
  BY ColdFinite, NumbersAssumption DEF NumbersAssumption, InquiryInv, QuotaHolds
<1>2. \/ l <= k /\ l \in Nat
      \/ l <= k + 1 /\ l \in Nat /\ \E t \in Opened("start") : t.by = a
  BY ColdContactsStep
<1>3. ASSUME NEW t \in Opened("start"), t.by = a PROVE k < ColdLimit
  BY <1>3 DEF InquiryInv, StartsStand
<1> HIDE DEF k, l
<1>4. l <= ColdLimit
  BY <1>1, <1>2, <1>3
<1> QED BY <1>4 DEF l

LEMMA StartsStep == ASSUME InquiryInv, [InquiryNext]_inquiryvars PROVE StartsStand'
<1>0. /\ \A t \in Opened("start")' : t \in open' /\ t.kind = "start"
      /\ \A t \in open : t.kind = "start" => t \in Opened("start")
      /\ Opened("start") \subseteq open
  BY DEF Opened
<1>1. ASSUME NEW t \in Opened("start"), t \in open'
      PROVE  /\ t.by = Renter(t.inquiry) /\ inquiry'[t.inquiry] = "none"
             /\ t.by \notin suspended' /\ ~Blocked(t.inquiry)'
             /\ Cardinality(ColdContacts(t.by)') < ColdLimit
  <2> DEFINE i == t.inquiry
  <2>1. /\ t.by = Renter(i) /\ inquiry[i] = "none" /\ t.by \notin suspended /\ ~Blocked(i)
        /\ Cardinality(ColdContacts(t.by)) < ColdLimit
        /\ \A u \in Opened("start") : u.by = t.by => u = t
    BY DEF InquiryInv, StartsStand
  <2>2. i \in Inquiry /\ AccountLocked(t.by) /\ t.by \in Participants(i)
    BY <1>0, RowsTyped DEF AccountLocked
  <2>3. ~FirstSaid(i)
    <3>1. \A u \in Opened("start") : u.inquiry = i => u.by = t.by
      BY <2>1 DEF InquiryInv, StartsStand
    <3>2. \A u \in Opened("start") : u.inquiry = i => u = t
      BY <2>1, <3>1
    <3> QED BY <1>1, <3>2 DEF FirstSaid
  <2>4. inquiry'[i] = "none"
    BY <2>1, <2>2, <2>3, StepMoves DEF InquiryMoves, Untouched, Replied, Reworded, Vanishes
  <2>5. t.by \notin suspended' /\ Participants(i) \notin blocked'
    BY <2>1, <2>2, StepRestricts DEF RestrictionMoves, Blocked
  <2>6. Blocked(i)' = (Participants(i) \in blocked')
    BY DEF Blocked, Participants, Renter, Submitter
  <2>7. Cardinality(ColdContacts(t.by)') < ColdLimit
    <3> DEFINE k == Cardinality(ColdContacts(t.by))
               l == Cardinality(ColdContacts(t.by)')
    <3>1. l <= k /\ l \in Nat
      BY <1>1, <2>1, ColdContactsStep
    <3>2. k \in Nat /\ ColdLimit \in Nat /\ k < ColdLimit
      BY <2>1, ColdFinite, NumbersAssumption DEF NumbersAssumption
    <3> HIDE DEF k, l
    <3>3. l < ColdLimit
      BY <3>1, <3>2
    <3> QED BY <3>3 DEF l
  <2> QED BY <2>1, <2>4, <2>5, <2>6, <2>7
<1>2. CASE \E t : Begun(t)
  <2>1. PICK t : Begun(t)
    BY <1>2
  <2>2. open' = open \cup {t} /\ UNCHANGED <<inquiry, recent, blocked, suspended>>
    BY <2>1 DEF Begun, talk
  <2>3. ASSUME t.kind = "start"
        PROVE  /\ t.by = Renter(t.inquiry) /\ inquiry'[t.inquiry] = "none"
               /\ t.by \notin suspended' /\ ~Blocked(t.inquiry)'
               /\ Cardinality(ColdContacts(t.by)') < ColdLimit
               /\ \A u \in Opened("start") : u.by # t.by
    <3>1. ColdContacts(t.by)' = ColdContacts(t.by) /\ Blocked(t.inquiry)' = Blocked(t.inquiry)
      BY <2>2 DEF ColdContacts, Blocked, Participants, Renter, Submitter
    <3> QED BY <2>1, <2>2, <2>3, <3>1 DEF Begun, HasRead
  <2>4. \A u \in Opened("start")' : u = t \/ u \in Opened("start")
    BY <1>0, <2>2
  <2>5. \A u, v \in Opened("start") : u.by = v.by => u = v
    BY DEF InquiryInv, StartsStand
  <2>6. \A u \in Opened("start")' :
            /\ u.by = Renter(u.inquiry) /\ inquiry'[u.inquiry] = "none"
            /\ u.by \notin suspended' /\ ~Blocked(u.inquiry)'
            /\ Cardinality(ColdContacts(u.by)') < ColdLimit
    BY <1>0, <1>1, <2>3, <2>4
  <2>7. \A u, v \in Opened("start")' : u.by = v.by => u = v
    BY <1>0, <2>3, <2>4, <2>5
  <2> QED BY <2>6, <2>7 DEF StartsStand, Renter
<1>3. CASE open' \subseteq open
  <2>1. \A u \in Opened("start")' : u \in Opened("start") /\ u \in open'
    BY <1>0, <1>3
  <2>2. \A u, v \in Opened("start") : u.by = v.by => u = v
    BY DEF InquiryInv, StartsStand
  <2> QED BY <1>1, <2>1, <2>2 DEF StartsStand, Renter
<1> QED BY <1>2, <1>3, StepOpens DEF OpenMoves

\* Nothing that is being edited comes to be held.
LEMMA EditsStep == ASSUME InquiryInv, [InquiryNext]_inquiryvars PROVE EditsStand'
<1>1. ASSUME NEW t \in Opened("edit") PROVE ~Held(t.inquiry, t.message)'
  <2>1. ~Held(t.inquiry, t.message)
    BY DEF InquiryInv, EditsStand
  <2>2. \A q \in DOMAIN report : report[q].inquiry = t.inquiry => t.message \notin report[q].holds
    BY <2>1 DEF Held
  <2>3. CASE \E u : Filed(u)
    <3>1. PICK u : Filed(u)
      BY <2>3
    <3> DEFINE row == [inquiry |-> u.inquiry, status |-> "pending", retention |-> "investigation",
                       evidence |-> u.evidence, holds |-> {e[1] : e \in u.evidence}]
    <3>2. report' = Append(report, row)
      BY <3>1 DEF Filed
    <3>3. t.inquiry = u.inquiry => t.message \notin {e[1] : e \in u.evidence}
      BY <3>1 DEF Filed, MessageLocked
    <3>4. \A q \in DOMAIN report' : report'[q] = row \/ (q \in DOMAIN report /\ report'[q] = report[q])
      <4> HIDE DEF row
      <4> QED BY <3>2, ReportTyped
    <3> QED BY <2>2, <3>3, <3>4 DEF Held
  <2>4. CASE \E r \in DOMAIN report : Moderated(r)
    <3>1. PICK r \in DOMAIN report : Concluded(r)
      BY <2>4 DEF Moderated
    <3> QED BY <2>2, <3>1 DEF Concluded, Held
  <2>5. CASE report' = report
    BY <2>1, <2>5 DEF Held
  <2> QED BY <2>3, <2>4, <2>5, StepReports DEF ReportMoves, Delete
<1>2. CASE \E t : Begun(t)
  <2>1. PICK t : Begun(t)
    BY <1>2
  <2>2. open' = open \cup {t} /\ report' = report
    BY <2>1 DEF Begun
  <2>3. t.kind = "edit" => ~Held(t.inquiry, t.message)'
    BY <2>1, <2>2 DEF Begun, HasRead, Held
  <2> QED BY <1>1, <2>2, <2>3 DEF EditsStand, Opened
<1>3. CASE open' \subseteq open
  BY <1>1, <1>3 DEF EditsStand, Opened
<1> QED BY <1>2, <1>3, StepOpens DEF OpenMoves

\* A report that is needed keeps its evidence, and the messages of it.
LEMMA EvidenceStep ==
    ASSUME InquiryInv, [InquiryNext]_inquiryvars PROVE EvidenceStands' /\ PendingIsInvestigated'
<1> DEFINE Sound(row) ==
               /\ row.holds = {e[1] : e \in row.evidence}
               /\ row.status = "pending" \/ row.retention = "required" <=> row.evidence # {}
               /\ row.status = "pending" => row.retention = "investigation"
<1>1. \A q \in DOMAIN report : Sound(report[q]) /\ report[q].holds \subseteq Indices(report[q].inquiry)
  BY DEF InquiryInv, EvidenceStands, PendingIsInvestigated, Needed
<1>2. \A q \in DOMAIN report : report[q].inquiry \in Inquiry
  BY ReportTyped DEF Report
<1>3. ASSUME NEW q \in DOMAIN report, q \in DOMAIN report',
             report'[q].inquiry = report[q].inquiry, report'[q].holds \subseteq report[q].holds
      PROVE  report'[q].holds \subseteq DOMAIN message'[report'[q].inquiry]
  <2> DEFINE i == report[q].inquiry
  <2>1. CASE Vanishes(i)
    <3>1. report'[q].holds = {}
      BY <1>3, <2>1 DEF Vanishes
    <3> QED BY <3>1
  <2>2. CASE ~Vanishes(i)
    <3>1. \A j \in Inquiry : ~Vanishes(j) => Indices(j) \subseteq DOMAIN message'[j]
      BY IndicesGrow DEF Indices
    <3>2. Indices(i) \subseteq DOMAIN message'[i]
      BY <1>2, <2>2, <3>1
    <3> QED BY <1>1, <1>3, <3>2
  <2> QED BY <2>1, <2>2
<1>4. ASSUME \A q \in DOMAIN report' : Sound(report'[q]) /\ report'[q].holds \subseteq DOMAIN message'[report'[q].inquiry]
      PROVE  EvidenceStands' /\ PendingIsInvestigated'
  BY <1>4 DEF EvidenceStands, PendingIsInvestigated, Needed, Indices
<1>5. CASE \E t : Filed(t)
  <2>1. PICK t : Filed(t)
    BY <1>5
  <2> DEFINE row == [inquiry |-> t.inquiry, status |-> "pending", retention |-> "investigation",
                     evidence |-> t.evidence, holds |-> {e[1] : e \in t.evidence}]
  <2>2. report' = Append(report, row)
    BY <2>1 DEF Filed
  <2>3. t \in Opened("report") /\ t.kind = "report"
    BY <2>1 DEF Filed, Opened
  <2>4. t.evidence # {} /\ {e[1] : e \in t.evidence} \subseteq Indices(t.inquiry)
    BY <2>3 DEF InquiryInv, AnswersStand
  <2>5. Sound(row)
    BY <2>4
  <2>6. DOMAIN message'[t.inquiry] = Indices(t.inquiry)
    BY <2>1 DEF Filed, talk, Indices
  <2>7. \A q \in DOMAIN report' : report'[q] = row \/ (q \in DOMAIN report /\ report'[q] = report[q])
    <3> HIDE DEF row
    <3> QED BY <2>2, ReportTyped
  <2>8. row.inquiry = t.inquiry /\ row.holds \subseteq DOMAIN message'[row.inquiry]
    BY <2>4, <2>6
  <2>9. ASSUME NEW q \in DOMAIN report'
        PROVE  Sound(report'[q]) /\ report'[q].holds \subseteq DOMAIN message'[report'[q].inquiry]
    <3> HIDE DEF row, Sound
    <3>1. CASE report'[q] = row
      BY <2>5, <2>8, <3>1
    <3>2. CASE q \in DOMAIN report /\ report'[q] = report[q]
      BY <1>1, <1>3, <3>2
    <3> QED BY <2>7, <3>1, <3>2
  <2> HIDE DEF Sound
  <2> QED BY <1>4, <2>9
<1>6. CASE \E r \in DOMAIN report : Moderated(r)
  <2>1. PICK r \in DOMAIN report : Concluded(r)
    BY <1>6 DEF Moderated
  <2>2. Sound(report[r]) /\ report[r].evidence # {}
    BY <1>1, <2>1 DEF Concluded, Needed
  <2>3. Sound(report'[r]) /\ report'[r].holds \subseteq report[r].holds
    BY <2>1, <2>2 DEF Concluded
  <2>4. /\ DOMAIN report' = DOMAIN report /\ report'[r].inquiry = report[r].inquiry
        /\ \A q \in DOMAIN report : q # r => report'[q] = report[q]
    BY <2>1 DEF Concluded
  <2> HIDE DEF Sound
  <2>5. ASSUME NEW q \in DOMAIN report'
        PROVE  Sound(report'[q]) /\ report'[q].holds \subseteq DOMAIN message'[report'[q].inquiry]
    BY <1>1, <1>3, <2>3, <2>4
  <2> QED BY <1>4, <2>5
<1>7. CASE report' = report
  <2> HIDE DEF Sound
  <2>1. ASSUME NEW q \in DOMAIN report'
        PROVE  Sound(report'[q]) /\ report'[q].holds \subseteq DOMAIN message'[report'[q].inquiry]
    BY <1>1, <1>3, <1>7
  <2> QED BY <1>4, <2>1
<1> QED BY <1>5, <1>6, <1>7, StepReports DEF ReportMoves, Delete

\* What is needed of an inquiry: an account that takes part, or a report.
Purpose(i) ==
    \/ Participants(i) \cap accounts # {}
    \/ \E r \in DOMAIN report : report[r].inquiry = i /\ Needed(r)

LEMMA PurposeStep == ASSUME InquiryInv, [InquiryNext]_inquiryvars PROVE KeptByPurpose'
<1> SUFFICES ASSUME NEW i \in Inquiry, inquiry'[i] # "none"
             PROVE  inquiry'[i] = "kept" <=> Purpose(i)'
  BY DEF KeptByPurpose, Purpose, Participants, Renter, Submitter
<1>0. /\ Purpose(i) <=> \/ Participants(i) \cap accounts # {}
                        \/ \E r \in DOMAIN report :
                               /\ report[r].inquiry = i
                               /\ report[r].status = "pending" \/ report[r].retention = "required"
      /\ Purpose(i)' <=> \/ Participants(i) \cap accounts' # {}
                         \/ \E r \in DOMAIN report' :
                                /\ report'[r].inquiry = i
                                /\ report'[r].status = "pending" \/ report'[r].retention = "required"
  BY DEF Purpose, Needed, Participants, Renter, Submitter
<1>1. \A r \in DOMAIN report' :
          report'[r].status = "pending" \/ report'[r].retention = "required" <=> report'[r].holds # {}
  <2>1. \A r \in DOMAIN report' :
            /\ report'[r].holds = {e[1] : e \in report'[r].evidence}
            /\ report'[r].status = "pending" \/ report'[r].retention = "required"
                  <=> report'[r].evidence # {}
    BY EvidenceStep DEF EvidenceStands, Needed
  <2>2. \A r \in DOMAIN report' : report'[r].holds # {} <=> report'[r].evidence # {}
    BY <2>1
  <2> QED BY <2>1, <2>2
<1>2. inquiry[i] # "none" => (inquiry[i] = "kept" <=> Purpose(i))
  BY DEF InquiryInv, KeptByPurpose, Purpose
<1>3. CASE Vanishes(i)
  BY <1>0, <1>1, <1>3 DEF Vanishes
<1>4. CASE FirstSaid(i)
  BY <1>0, <1>4 DEF FirstSaid, Participants
<1>5. CASE ~Vanishes(i) /\ ~FirstSaid(i)
  <2>1. inquiry'[i] = inquiry[i]
    BY <1>5, StepMoves DEF InquiryMoves, Untouched, Replied, Reworded
  <2>2. inquiry[i] = "kept" <=> Purpose(i)
    BY <1>2, <2>1
  <2>3. CASE \E t : Filed(t)
    <3>1. PICK t : Filed(t)
      BY <2>3
    <3> DEFINE row == [inquiry |-> t.inquiry, status |-> "pending", retention |-> "investigation",
                       evidence |-> t.evidence, holds |-> {e[1] : e \in t.evidence}]
    <3>2. accounts' = accounts /\ report' = Append(report, row)
      BY <3>1 DEF Filed
    <3>3. inquiry[t.inquiry] = "kept"
      BY <3>1 DEF Filed, InquiryInv, AnswersStand
    <3>4. /\ DOMAIN report \subseteq DOMAIN report'
          /\ \A q \in DOMAIN report : report'[q] = report[q]
          /\ \A q \in DOMAIN report' : q \in DOMAIN report \/ report'[q] = row
      <4> HIDE DEF row
      <4> QED BY <3>2, ReportTyped
    <3>5. CASE t.inquiry = i
      <4>1. inquiry[i] = "kept" /\ Purpose(i)
        BY <2>2, <3>3, <3>5
      <4> QED BY <1>0, <2>1, <3>2, <3>4, <4>1
    <3>6. CASE t.inquiry # i
      <4>1. row.inquiry # i
        BY <3>6
      <4> HIDE DEF row
      <4> QED BY <1>0, <2>1, <2>2, <3>2, <3>4, <4>1
    <3> QED BY <3>5, <3>6
  <2>4. CASE \E r \in DOMAIN report : Moderated(r)
    <3>1. PICK r \in DOMAIN report : Moderated(r)
      BY <2>4
    <3> DEFINE j == report[r].inquiry
    <3>2. /\ accounts' = accounts /\ Concluded(r)
          /\ Remove({x \in {j} : Removable(x, accounts, report')})
      BY <3>1 DEF Moderated, RemovedWell
    <3>3. CASE i # j
      <4>1. \A q \in DOMAIN report' : report'[q].inquiry = i => report'[q] = report[q]
        BY <3>2, <3>3 DEF Concluded
      <4>2. DOMAIN report' = DOMAIN report /\ report'[r].inquiry = j
        BY <3>2 DEF Concluded
      <4> QED BY <1>0, <2>1, <2>2, <3>2, <3>3, <4>1, <4>2 DEF Concluded
    <3>4. CASE i = j
      <4>1. Purpose(i)
        BY <1>0, <3>2, <3>4 DEF Concluded, Needed
      <4>2. inquiry[i] = "kept" /\ inquiry'[i] = "kept"
        BY <2>1, <2>2, <4>1
      <4>3. ~Removable(i, accounts, report')
        BY <3>2, <3>4, <4>2 DEF Remove
      <4> QED BY <1>0, <1>1, <3>2, <4>2, <4>3 DEF Removable
    <3> QED BY <3>3, <3>4
  <2>5. ASSUME NEW a \in User, Delete(a) PROVE inquiry'[i] = "kept" <=> Purpose(i)'
    <3>1. /\ accounts' = accounts \ {a} /\ report' = report
          /\ Remove({x \in Inquiry : a \in Participants(x) /\ Removable(x, accounts', report)})
      BY <2>5 DEF Delete
    <3>2. CASE inquiry[i] # "kept"
      BY <1>0, <2>1, <2>2, <3>1, <3>2
    <3>3. CASE inquiry[i] = "kept" /\ a \notin Participants(i)
      BY <1>0, <2>1, <2>2, <3>1, <3>3
    <3>4. CASE inquiry[i] = "kept" /\ a \in Participants(i)
      <4>1. ~Removable(i, accounts', report')
        BY <2>1, <3>1, <3>4 DEF Remove
      <4> QED BY <1>0, <1>1, <2>1, <3>4, <4>1 DEF Removable
    <3> QED BY <3>2, <3>3, <3>4
  <2>6. CASE UNCHANGED <<report, accounts>>
    BY <1>0, <2>1, <2>2, <2>6
  <2> QED BY <2>3, <2>4, <2>5, <2>6, StepReports DEF ReportMoves
<1> QED BY <1>3, <1>4, <1>5

-----------------------------------------------------------------------------

LEMMA InquiryInitially == InquiryInit => InquiryInv
<1> SUFFICES ASSUME InquiryInit PROVE InquiryInv
  OBVIOUS
<1> USE DEF InquiryInit
<1>1. /\ IsFiniteSet({}) /\ Cardinality({}) = 0
  BY FS_EmptySet
<1>2. /\ \A sort : Opened(sort) = {}
      /\ \A a : ColdContacts(a) = {}
  BY DEF Opened, ColdContacts
<1>3. /\ \A i \in Inquiry : message[i] = <<>> /\ Indices(i) = {}
      /\ Len(report) = 0 /\ DOMAIN report = {} /\ report \in Seq(Report)
      /\ message \in [Inquiry -> Seq(Said)]
  BY DEF Indices
<1>4. InquiryTypeOK /\ TalkTyped
  BY <1>1, <1>3, NumbersAssumption DEF NumbersAssumption, InquiryTypeOK, TalkTyped
<1>5. KeptByPurpose /\ EvidenceStands /\ PendingIsInvestigated /\ SaidWhileKept
  BY <1>3 DEF KeptByPurpose, EvidenceStands, PendingIsInvestigated, SaidWhileKept
<1>6. QuotaHolds /\ ReportsFit
  <2>1. Cardinality(Opened("report")) = 0 /\ \A a : Cardinality(ColdContacts(a)) = 0
    BY <1>1, <1>2
  <2>2. 0 <= ColdLimit /\ 0 + 0 <= MaxReports
    BY NumbersAssumption DEF NumbersAssumption
  <2>3. QuotaHolds
    BY <2>1, <2>2 DEF QuotaHolds
  <2>4. Len(report) + Cardinality(Opened("report")) = 0 + 0
    BY <1>3, <2>1
  <2> QED BY <2>2, <2>3, <2>4 DEF ReportsFit
<1>7. ActorsStay /\ StartsStand /\ AnswersStand /\ EditsStand
  BY <1>2 DEF ActorsStay, StartsStand, AnswersStand, EditsStand
<1> QED BY <1>4, <1>5, <1>6, <1>7 DEF InquiryInv

LEMMA InquirySteps == InquiryInv /\ [InquiryNext]_inquiryvars => InquiryInv'
<1> SUFFICES ASSUME InquiryInv, [InquiryNext]_inquiryvars PROVE InquiryInv'
  OBVIOUS
<1>1. InquiryTypeOK' /\ TalkTyped'
  BY InquiryTypesStep
<1>2. SaidWhileKept' /\ KeptByPurpose' /\ QuotaHolds'
  BY SaidStep, PurposeStep, QuotaStep
<1>3. EvidenceStands' /\ PendingIsInvestigated'
  BY EvidenceStep
<1>4. ActorsStay' /\ StartsStand' /\ AnswersStand' /\ EditsStand' /\ ReportsFit'
  BY OpenStep, StartsStep, AnswersStep, EditsStep, ReportRowsStep
<1> QED BY <1>1, <1>2, <1>3, <1>4 DEF InquiryInv

THEOREM InquiryInvariant == InquirySpec => []InquiryInv
BY InquiryInitially, InquirySteps, PTL DEF InquirySpec

\* An inquiry is kept exactly as long as an account that takes part or a report
\* needs it, the evidence of a needed report stands, and nobody starts more
\* inquiries in an hour than allowed (cleanup_listing_inquiry,
\* report_listing_inquiry, _enforce_cold_contact_quota).
THEOREM InquiriesStand == InquirySpec => []InquiriesAreSound
<1>1. InquiryInv => InquiriesAreSound
  BY DEF InquiryInv, InquiriesAreSound
<1> QED BY <1>1, InquiryInvariant, PTL

\* What is held as evidence is not edited (edit_listing_inquiry_message under
\* the lock of the message, report_listing_inquiry under that of the inquiry).
THEOREM HeldStaysFrozen == InquirySpec => HeldIsFrozen
<1>1. InquiryInv /\ [InquiryNext]_inquiryvars =>
        [\A i \in Inquiry : \A n \in Indices(i) :
            Held(i, n) /\ Held(i, n)' => message'[i][n].text = message[i][n].text]_inquiryvars
  <2> SUFFICES ASSUME InquiryInv, [InquiryNext]_inquiryvars,
                      NEW i \in Inquiry, NEW n \in Indices(i), Held(i, n), Held(i, n)'
               PROVE  message'[i][n].text = message[i][n].text
    OBVIOUS
  <2>0. message[i] \in Seq(Said) /\ Indices(i) = 1..Len(message[i]) /\ Len(message[i]) \in Nat
    BY SaidTyped
  <2>1. CASE Untouched(i)
    BY <2>1 DEF Untouched
  <2>2. ~FirstSaid(i)
    <3>1. message[i] # <<>>
      BY <2>0
    <3> QED BY <3>1 DEF FirstSaid, InquiryInv, SaidWhileKept
  <2>3. CASE Replied(i)
    <3>1. PICK x : message'[i] = Append(message[i], x)
      BY <2>3 DEF Replied
    <3> QED BY <2>0, <3>1
  <2>4. CASE Reworded(i)
    BY <2>4 DEF Reworded
  <2>5. ~Vanishes(i)
    BY DEF Vanishes, Held
  <2> QED BY <2>1, <2>2, <2>3, <2>4, <2>5, StepMoves DEF InquiryMoves
<1> QED BY <1>1, InquiryInvariant, PTL DEF InquirySpec, HeldIsFrozen

\* A suspension or a block is in force from its commit on, against starts and
\* replies that are under way, too (start_listing_inquiry and
\* reply_to_listing_inquiry under their locks, block_listing_inquiry_counterpart).
THEOREM RestrictionsStand == InquirySpec => RestrictionsHold
<1>1. InquiryInv /\ [InquiryNext]_inquiryvars =>
        [\A i \in Inquiry : inquiry[i] = "none" /\ inquiry'[i] = "kept" =>
            ~Blocked(i) /\ Renter(i) \notin suspended]_inquiryvars
  <2> SUFFICES ASSUME InquiryInv, [InquiryNext]_inquiryvars,
                      NEW i \in Inquiry, inquiry[i] = "none", inquiry'[i] = "kept"
               PROVE  ~Blocked(i) /\ Renter(i) \notin suspended
    OBVIOUS
  <2>1. FirstSaid(i)
    BY StepMoves DEF InquiryMoves, Untouched, Replied, Reworded, Vanishes
  <2>2. PICK t \in Opened("start") : t.inquiry = i
    BY <2>1 DEF FirstSaid
  <2> QED BY <2>2 DEF InquiryInv, StartsStand
<1>2. InquiryInv /\ [InquiryNext]_inquiryvars =>
        [\A i \in Inquiry : Silent(i) =>
            Len(message'[i]) <= Len(message[i]) /\ (Blocked(i)' => Silent(i)')]_inquiryvars
  <2> SUFFICES ASSUME InquiryInv, [InquiryNext]_inquiryvars, NEW i \in Inquiry, Silent(i)
               PROVE  Len(message'[i]) <= Len(message[i]) /\ (Blocked(i)' => Silent(i)')
    OBVIOUS
  <2>0. message[i] \in Seq(Said) /\ Len(message[i]) \in Nat
    BY SaidTyped
  <2>1. ~FirstSaid(i)
    BY DEF FirstSaid, Silent, InquiryInv, StartsStand
  <2>2. ~Replied(i)
    BY DEF Replied, Silent
  <2>3. Len(message'[i]) <= Len(message[i])
    <3>1. CASE Untouched(i) \/ Reworded(i)
      BY <2>0, <3>1 DEF Untouched, Reworded
    <3>2. CASE Vanishes(i)
      <4>1. Len(message'[i]) = 0
        BY <3>2 DEF Vanishes
      <4> QED BY <2>0, <4>1
    <3> QED BY <2>1, <2>2, <3>1, <3>2, StepMoves DEF InquiryMoves
  <2>4. ASSUME NEW t \in open', t.kind = "reply", t.inquiry = i PROVE FALSE
    <3>1. t \notin open
      BY <2>4 DEF Silent, Opened
    <3>2. Begun(t)
      BY <3>1, StepOpens DEF OpenMoves, Begun
    <3> QED BY <2>4, <3>2 DEF Begun, HasRead, Silent
  <2> QED BY <2>3, <2>4 DEF Silent, Opened
<1>3. /\ InquirySpec => RestrictedStartNothing
      /\ InquirySpec => BlockedFallSilent
  BY <1>1, <1>2, InquiryInvariant, PTL DEF InquirySpec, RestrictedStartNothing, BlockedFallSilent
<1> QED BY <1>3 DEF RestrictionsHold
=============================================================================
