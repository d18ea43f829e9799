---------------------------- MODULE AccountAccess ----------------------------
(***************************************************************************)
(* Accounts (apps/accounts/services.py): the codes that prove a phone, the *)
(* links that prove an e-mail address or reset a password, and the         *)
(* Operators' access that superusers give and take.                        *)
(*                                                                         *)
(* A code is issued by statements that commit one by one; everything else  *)
(* locks the row that it changes.  Addresses and phones are unique columns.*)
(* What a browser session is, throttling and the account's names are left  *)
(* out, and so are the full change form of the Django admin and permissions*)
(* given to an account directly.                                           *)
(***************************************************************************)
EXTENDS Naturals, FiniteSets

CONSTANTS
    Account, Phone, Email,
    CodeRequest,  \* requests for a code that may run at once
    Try,          \* attempts to verify a phone that may run at once
    AccessForm,   \* forms of Operator access that may be sent at once
    Link,         \* links to reset a password
    MaxAttempts,  \* wrong codes that a challenge bears: 5
    MaxCodes,     \* bound: challenges
    MaxLogins     \* bound: logins of an account

NoOne == 0

ASSUME AccountAssumption ==
    /\ NoOne \notin Account /\ NoOne \notin Phone /\ NoOne \notin Email
    /\ IsFiniteSet(Link)
    /\ MaxAttempts \in Nat \ {0} /\ MaxCodes \in Nat /\ MaxLogins \in Nat

Code == 1..MaxCodes   \* in the order of created_at

VARIABLES
    account,      \* User rows
    challenge,    \* PhoneVerificationChallenge rows
    request,      \* requests on their way through _issue_phone_otp
    attempt,      \* calls of verify_phone that wait for the challenge's lock
    proved,       \* history: <<account, phone, code>> of the codes that were right
    compared,     \* history: codes that were held against a challenge
    mailed,       \* accounts that a verification link was sent for
    link,         \* links to reset a password, with what they are signed for
    used,         \* history: passwords set with each link
    accessForm    \* access forms that passed their own check

accountVars == <<account, challenge, request, attempt, proved, compared, mailed, link, used,
                 accessForm>>
verifying == <<challenge, request, attempt, proved, compared>>

Nothing == [user |-> NoOne]
NoRow == [made |-> FALSE, email |-> NoOne, emailAt |-> FALSE, phone |-> NoOne,
          phoneAt |-> FALSE, submitter |-> FALSE, active |-> FALSE, granted |-> FALSE,
          anonymized |-> FALSE, password |-> 0, logins |-> 0]

\* _register_account: an account with an address or a phone
Registered(email, phone, submitter) ==
    [NoRow EXCEPT !.made = TRUE, !.email = email, !.phone = phone, !.submitter = submitter,
                  !.active = TRUE, !.password = 1]

(* Accounts that have verified their address, and such as do not exist yet. *)
AccountInit ==
    /\ \E S \in SUBSET Account, f \in [Account -> Email] :
          /\ \A a, b \in S : a # b => f[a] # f[b]
          /\ account = [a \in Account |->
                           IF a \in S
                           THEN [Registered(f[a], NoOne, FALSE) EXCEPT !.emailAt = TRUE]
                           ELSE NoRow]
    /\ challenge = [c \in Code |-> Nothing]
    /\ request = [q \in CodeRequest |-> Nothing]
    /\ attempt = [t \in Try |-> 0]
    /\ proved = {} /\ compared = [c \in Code |-> 0]
    /\ mailed = {}
    /\ link = [l \in Link |-> Nothing] /\ used = [l \in Link |-> 0]
    /\ accessForm = [f \in AccessForm |-> Nothing]

Issued == {c \in Code : challenge[c] # Nothing}
HoldsPhone(p) == {a \in Account : account[a].phone = p}
HoldsEmail(e) == {a \in Account : account[a].email = e}

-----------------------------------------------------------------------------
(* _issue_phone_otp.                                                        *)

Of(user, phone) == {c \in Issued : challenge[c].user = user /\ challenge[c].phone = phone}

\* the latest code for the phone is less than a minute old
CoolingDown(user, phone) == \E c \in Of(user, phone) : challenge[c].age = "new"

Asking(user, phone, grants) ==
    [user |-> user, phone |-> phone, grants |-> grants, phase |-> "replace"]

\* register_submitter and register_renter with a phone
RegisterPhone(q, a, p, submitter) ==
    /\ request[q] = Nothing /\ ~account[a].made /\ HoldsPhone(p) = {}
    /\ account' = [account EXCEPT ![a] = Registered(NoOne, p, submitter)]
    /\ request' = [request EXCEPT ![q] = Asking(a, p, FALSE)]
    /\ UNCHANGED <<challenge, attempt, proved, compared, mailed, link, used, accessForm>>

(* request_phone_verification, for the account that is signed in or, without *)
(* a session, for the one that has the phone and has not verified it.        *)
AskCode(q, a, p, grants) ==
    /\ request[q] = Nothing
    /\ account[a].made /\ ~account[a].phoneAt /\ HoldsPhone(p) \subseteq {a}
    /\ \/ account[a].active
       \/ account[a].phone = p /\ ~grants
    /\ ~CoolingDown(a, p)
    /\ request' = [request EXCEPT ![q] = Asking(a, p, grants)]
    /\ UNCHANGED <<account, challenge, attempt, proved, compared, mailed, link, used, accessForm>>

ReplaceCodes(q) ==
    /\ request[q] # Nothing /\ request[q].phase = "replace"
    /\ challenge' = [c \in Code |-> IF c \in Of(request[q].user, request[q].phone)
                                    THEN [challenge[c] EXCEPT !.open = FALSE]
                                    ELSE challenge[c]]
    /\ request' = [request EXCEPT ![q].phase = "create"]
    /\ UNCHANGED <<account, attempt, proved, compared, mailed, link, used, accessForm>>

(* The gateway may refuse the message about the code that was created.      *)
CreateCode(q, sent) ==
    LET c == Cardinality(Issued) + 1 IN
    /\ request[q] # Nothing /\ request[q].phase = "create" /\ c \in Code
    /\ challenge' = [challenge EXCEPT ![c] =
                        [user |-> request[q].user, phone |-> request[q].phone,
                         grants |-> request[q].grants, sent |-> sent,
                         age |-> "new", attempts |-> 0, open |-> TRUE]]
    /\ request' = [request EXCEPT ![q] = Nothing]
    /\ UNCHANGED <<account, attempt, proved, compared, mailed, link, used, accessForm>>

\* the process is lost between two statements
LoseRequest(q) ==
    /\ request[q] # Nothing
    /\ request' = [request EXCEPT ![q] = Nothing]
    /\ UNCHANGED <<account, challenge, attempt, proved, compared, mailed, link, used, accessForm>>

\* a minute, and then five, have passed
Older == [new |-> "valid", valid |-> "expired", expired |-> "expired"]

GrowOlder(c) ==
    /\ c \in Issued /\ challenge[c].age # "expired"
    /\ challenge' = [challenge EXCEPT ![c].age = Older[@]]
    /\ UNCHANGED <<account, request, attempt, proved, compared, mailed, link, used, accessForm>>

-----------------------------------------------------------------------------
(* verify_phone.                                                            *)

OpenFor(p) == {c \in Issued : challenge[c].phone = p /\ challenge[c].open}
Newest(C) == CHOOSE c \in C : \A d \in C : d <= c

(* The newest open challenge is found, and then its lock is waited for.     *)
StartTry(t, p) ==
    /\ attempt[t] = 0 /\ OpenFor(p) # {}
    /\ attempt' = [attempt EXCEPT ![t] = Newest(OpenFor(p))]
    /\ UNCHANGED <<account, challenge, request, proved, compared, mailed, link, used, accessForm>>

\* Mutant: a challenge that was used up meanwhile is not looked at again.
BearsConsumed(c) == challenge[c].age # "expired" /\ challenge[c].attempts < MaxAttempts

\* the query is made again for a row that changed while its lock was waited
\* for; then the challenge may have expired or be exhausted
Bears(c) == /\ challenge[c].open /\ challenge[c].age # "expired"
            /\ challenge[c].attempts < MaxAttempts

EndTry(t) == attempt' = [attempt EXCEPT ![t] = 0]

TryInVain(t) ==
    /\ attempt[t] # 0
    /\ ~Bears(attempt[t]) \/ HoldsPhone(challenge[attempt[t]].phone)
                                \ {challenge[attempt[t]].user} # {}
    /\ EndTry(t)
    /\ UNCHANGED <<account, challenge, request, proved, compared, mailed, link, used, accessForm>>

TryWrong(t) ==
    LET c == attempt[t] IN
    /\ c # 0 /\ Bears(c)
    /\ challenge' = [challenge EXCEPT ![c].attempts = @ + 1]
    /\ compared' = [compared EXCEPT ![c] = @ + 1]
    /\ EndTry(t)
    /\ UNCHANGED <<account, request, proved, mailed, link, used, accessForm>>

WhoAsked(c) == challenge[c].user

(* When another account got the phone first, the unique column makes the    *)
(* transaction fail as a whole (TryInVain).                                 *)
TryRight(t) ==
    LET c == attempt[t]
        a == WhoAsked(c)
    IN  /\ c # 0 /\ challenge[c].sent /\ Bears(c)
        /\ HoldsPhone(challenge[c].phone) \subseteq {a}
        /\ challenge' = [challenge EXCEPT ![c].attempts = @ + 1, ![c].open = FALSE]
        /\ account' = [account EXCEPT ![a] =
                          [@ EXCEPT !.phone = challenge[c].phone, !.phoneAt = TRUE,
                                    !.submitter = account[a].submitter \/ challenge[c].grants]]
        /\ proved' = proved \cup {<<challenge[c].user, challenge[c].phone, c>>}
        /\ compared' = [compared EXCEPT ![c] = @ + 1]
        /\ EndTry(t)
        /\ UNCHANGED <<request, mailed, link, used, accessForm>>

\* grant_submitter_eligibility in the onboarding
Onboard(a) ==
    /\ account[a].active /\ account[a].phoneAt /\ ~account[a].submitter
    /\ account' = [account EXCEPT ![a].submitter = TRUE]
    /\ UNCHANGED <<verifying, mailed, link, used, accessForm>>

-----------------------------------------------------------------------------
(* E-mail and password.                                                     *)

RegisterEmail(a, e, submitter) ==
    /\ ~account[a].made /\ HoldsEmail(e) = {}
    /\ account' = [account EXCEPT ![a] = Registered(e, NoOne, submitter)]
    /\ mailed' = mailed \cup {a}
    /\ UNCHANGED <<verifying, link, used, accessForm>>

(* Sent by an account that was active when it was sent.                     *)
RequestEmail(a, e) ==
    /\ account[a].made /\ HoldsEmail(e) \subseteq {a}
    /\ ~(account[a].email = e /\ account[a].emailAt)
    /\ account' = [account EXCEPT ![a] = [@ EXCEPT !.email = e, !.emailAt = FALSE]]
    /\ mailed' = mailed \cup {a}
    /\ UNCHANGED <<verifying, link, used, accessForm>>

VerifyEmail(a) ==
    /\ a \in mailed /\ ~account[a].emailAt
    /\ account' = [account EXCEPT ![a].emailAt = TRUE]
    /\ UNCHANGED <<verifying, mailed, link, used, accessForm>>

Verified(a) == (account[a].email # NoOne /\ account[a].emailAt) \/ account[a].phoneAt

\* start_session
LogIn(a) ==
    /\ account[a].active /\ Verified(a) /\ account[a].password # 0
    /\ account[a].logins < MaxLogins
    /\ account' = [account EXCEPT ![a].logins = @ + 1]
    /\ UNCHANGED <<verifying, mailed, link, used, accessForm>>

\* what default_token_generator signs
Signed(a) ==
    [user |-> a, password |-> account[a].password, logins |-> account[a].logins,
     email |-> account[a].email]

RequestReset(l, a) ==
    /\ link[l] = Nothing /\ account[a].active /\ account[a].email # NoOne
    /\ link' = [link EXCEPT ![l] = Signed(a)]
    /\ UNCHANGED <<account, verifying, mailed, used, accessForm>>

Usable(l) == /\ link[l] # Nothing /\ account[link[l].user].active
             /\ link[l] = Signed(link[l].user)

\* each password is another number
NewPassword == 2 + Cardinality({l \in Link : used[l] > 0})

\* reset_password
Reset(l) ==
    /\ Usable(l)
    /\ account' = [account EXCEPT ![link[l].user].password = NewPassword]
    /\ used' = [used EXCEPT ![l] = @ + 1]
    /\ UNCHANGED <<verifying, mailed, link, accessForm>>

-----------------------------------------------------------------------------
(* Superusers.                                                              *)

\* validate_operator_access_change
MayHold(a, active) == active /\ account[a].emailAt

\* OperatorAccessForm.clean reads the account without a lock
SendAccess(f, a, active, granted) ==
    /\ accessForm[f] = Nothing /\ account[a].made
    /\ granted => MayHold(a, active)
    /\ accessForm' = [accessForm EXCEPT ![f] = [user |-> a, active |-> active,
                                                granted |-> granted]]
    /\ UNCHANGED <<account, verifying, mailed, link, used>>

Allowed(f) ==
    accessForm[f].granted => MayHold(accessForm[f].user, accessForm[f].active)

\* update_operator_access
UpdateAccess(f) ==
    /\ accessForm[f] # Nothing
    /\ accessForm' = [accessForm EXCEPT ![f] = Nothing]
    /\ IF Allowed(f)
       THEN account' = [account EXCEPT ![accessForm[f].user] =
                          [@ EXCEPT !.active = accessForm[f].active,
                                    !.granted = accessForm[f].granted]]
       ELSE UNCHANGED account
    /\ UNCHANGED <<verifying, mailed, link, used>>

(* anonymize_operator_account: the new address is nobody's.                 *)
Anonymize(a) ==
    /\ account[a].granted /\ ~account[a].anonymized
    /\ account' = [account EXCEPT ![a] =
                      [@ EXCEPT !.email = NoOne, !.emailAt = FALSE, !.active = FALSE,
                                !.granted = FALSE, !.anonymized = TRUE, !.password = 0,
                                !.logins = 0]]
    /\ UNCHANGED <<verifying, mailed, link, used, accessForm>>

-----------------------------------------------------------------------------
CodeNext ==
    \/ \E q \in CodeRequest :
          \/ \E a \in Account, p \in Phone, b \in BOOLEAN :
                RegisterPhone(q, a, p, b) \/ AskCode(q, a, p, b)
          \/ ReplaceCodes(q) \/ LoseRequest(q)
          \/ \E sent \in BOOLEAN : CreateCode(q, sent)
    \/ \E c \in Code : GrowOlder(c)
    \/ \E t \in Try : \/ \E p \in Phone : StartTry(t, p)
                      \/ TryInVain(t) \/ TryWrong(t) \/ TryRight(t)
    \/ \E a \in Account : Onboard(a)

AccessNext ==
    \/ \E a \in Account, e \in Email :
          RequestEmail(a, e) \/ \E b \in BOOLEAN : RegisterEmail(a, e, b)
    \/ \E a \in Account : VerifyEmail(a) \/ LogIn(a) \/ Anonymize(a)
    \/ \E l \in Link : Reset(l) \/ \E a \in Account : RequestReset(l, a)
    \/ \E f \in AccessForm :
          \/ UpdateAccess(f)
          \/ \E a \in Account, active, granted \in BOOLEAN : SendAccess(f, a, active, granted)

AccountSpec == AccountInit /\ [][CodeNext \/ AccessNext]_accountVars

-----------------------------------------------------------------------------
(* Properties.                                                              *)

\* Rows have their types, phones and addresses their one account, and a
\* request for a code is about an account that exists.
AccountTypeOK ==
    /\ \A a, b \in Account : a # b =>
          /\ account[a].phone = NoOne \/ account[a].phone # account[b].phone
          /\ account[a].email = NoOne \/ account[a].email # account[b].email
    /\ \A a \in Account : account[a].phoneAt => account[a].phone # NoOne
    /\ \A c \in Issued : challenge[c].attempts \in 0..MaxAttempts
    /\ \A q \in CodeRequest : request[q] # Nothing => account[request[q].user].made
    /\ \A t \in Try : attempt[t] \in Issued \cup {0}

\* However many codes are sent at the same time, a challenge is held against no
\* more of them than it bears, and against none after the right one.
CodesAreUsedUp ==
    [][\A c \in Code :
          compared'[c] > compared[c]
             => compared[c] < MaxAttempts /\ \A x \in proved : x[3] # c]_accountVars

\* A phone counts as verified for an account only when a code that was sent to
\* that phone for that account was entered, whoever else asked for one or
\* registered with the phone meanwhile.
PhoneIsProved ==
    \A a \in Account :
       account[a].phoneAt => \E c \in Code : <<a, account[a].phone, c>> \in proved

\* One password is replaced by a link once, however many links were asked for.
ResetOnce ==
    \A k, l \in Link : link[k] # Nothing /\ link[k] = link[l] /\ used[k] > 0 /\ used[l] > 0
                          => k = l /\ used[k] = 1

\* An account gets access as an Operator only while its address is verified,
\* though it was changed, or the account anonymized, after the form was checked.
GrantsToVerified ==
    [][\A a \in Account :
          account'[a].granted /\ ~account[a].granted
             => account[a].emailAt /\ account'[a].active]_accountVars

\* Phones, passwords and access are given only on the proof that each asks for,
\* and a proof serves once.
AccountsAreSound ==
    /\ [](AccountTypeOK /\ PhoneIsProved /\ ResetOnce)
    /\ CodesAreUsedUp /\ GrantsToVerified
=============================================================================
