-------------------------- MODULE SourceCase_proofs --------------------------
(***************************************************************************)
(* Proofs about SourceCase: the rows of cases, hosts, claims, reservations *)
(* and assignments agree with each other, one worker at a time fetches for *)
(* a reservation, and late workers and repairs leave the case alone, for   *)
(* every number of cases, hosts and Operators and for every bound.         *)
(***************************************************************************)
EXTENDS SourceRepairs, FiniteSetTheorems, WellFoundedInduction, TLAPS

-----------------------------------------------------------------------------
(* Numbers of rows.                                                         *)

\* The least of some numbers
LEMMA LeastNumber ==
  ASSUME NEW S, S \subseteq Nat, S # {}
  PROVE  \E n \in S : \A m \in S : n <= m
<1> DEFINE Less == {ss \in Nat \X Nat : ss[1] < ss[2]}
<1>0. IsWellFoundedOn(Less, Nat)
  BY NatLessThanWellFounded, Zenon DEF OpToRel
<1>1. PICK n \in S : \A m \in S : ~ (<<m, n>> \in Less)
  <2> HIDE DEF Less
  <2> QED
    BY <1>0, WFMin
<1>2. ASSUME NEW m \in S PROVE n <= m
  <2>1. n \in Nat /\ m \in Nat
    OBVIOUS
  <2>2. ~ (m < n)
    BY <1>1, <2>1
  <2> QED
    BY <2>1, <2>2
<1> QED
  BY <1>2

\* Newest is the last row of some, 0 if there is none.
LEMMA NewestOfSome ==
  ASSUME NEW n \in Nat, NEW S \in SUBSET (1..n)
  PROVE  /\ S = {} => Newest(S) = 0
         /\ S # {} => Newest(S) \in S /\ \A m \in S : m <= Newest(S)
         /\ Newest(S) \in 0..n
         /\ Newest(S) # 0 => Newest(S) \in S
<1>1. CASE S = {}
  BY <1>1 DEF Newest
<1>2. CASE S # {}
  <2> DEFINE T == {n - m : m \in S}
  <2>1. T \subseteq Nat /\ T # {}
    <3>1. \A m \in S : n - m \in Nat
      OBVIOUS
    <3>2. PICK m \in S : TRUE
      BY <1>2
    <3> QED
      BY <3>1, <3>2
  <2> HIDE DEF T
  <2>2. PICK t \in T : \A s \in T : t <= s
    BY <2>1, LeastNumber
  <2> USE DEF T
  <2>3. PICK k \in S : t = n - k
    OBVIOUS
  <2>4. \A m \in S : m <= k
    <3> SUFFICES ASSUME NEW m \in S PROVE m <= k
      OBVIOUS
    <3>1. n - k <= n - m
      BY <2>2, <2>3
    <3> QED
      BY <3>1
  <2>5. Newest(S) = CHOOSE l \in S : \A m \in S : m <= l
    BY <1>2 DEF Newest
  <2>6. Newest(S) \in S /\ \A m \in S : m <= Newest(S)
    BY <2>4, <2>5
  <2>7. Newest(S) \in 1..n
    BY <2>6
  <2> QED
    BY <1>2, <2>6, <2>7
<1> QED
  BY <1>1, <1>2

\* The row that follows the others
LEMMA FollowingRow ==
  ASSUME NEW n \in Nat
  PROVE  Following(1..n) = n + 1
<1>1. Cardinality(1..n) = IF 1 > n THEN 0 ELSE n - 1 + 1
  BY FS_Interval
<1> QED
  BY <1>1 DEF Following

LEMMA FollowingSome ==
  ASSUME NEW n \in Nat, NEW S \in SUBSET (1..n)
  PROVE  Following(S) \in Nat \ {0}
<1>1. IsFiniteSet(S)
  <2>1. IsFiniteSet(1..n)
    BY FS_Interval
  <2> QED
    BY <2>1, FS_Subset
<1> QED
  BY <1>1, FS_CardinalityType DEF Following

-----------------------------------------------------------------------------
(* Types.                                                                   *)

Row == [state : States, discarded : BOOLEAN, revision : 1..MaxRevision,
        host : Host \cup {NoOne}, source : Host \cup {NoOne},
        responsible : Operator \cup {NoOne}, transfers : 0..MaxTransfers, stage : Stages]
Lease == [by : Operator \cup {NoOne}, revision : 0..MaxRevision]
Booking == [case : Case \cup {NoOne}, host : Host \cup {NoOne}, revision : 0..MaxRevision,
            released : BOOLEAN, expired : BOOLEAN, started : BOOLEAN, stale : BOOLEAN,
            completed : BOOLEAN, generation : 0..MaxGenerations, checkpoint : BOOLEAN]
Profile == [reservation : 0..MaxReservations, decided : BOOLEAN]

Rows == row \in [Case -> Row]
Leases == claim \in [Case -> Lease]
Bookings == reservation \in [Reservation -> Booking]
Profiles == version \in [1..MaxVersions -> Profile]
Hosts == /\ assignment \in [Host -> [case : Case \cup {NoOne}, version : 0..MaxVersions]]
         /\ active \in [Host -> 0..MaxVersions]
         /\ operator \in [Host -> Operator \cup {NoOne}]
Works == /\ repairs \subseteq Repair
         /\ broker \subseteq Message /\ fetching \in [Message -> Nat]

LEMMA TypeParts ==
  TypeOK <=> /\ submitter \in Submitters
             /\ Rows /\ Leases /\ Bookings /\ Profiles /\ Hosts /\ Works
BY DEF TypeOK, Rows, Row, Leases, Lease, Bookings, Booking, Profiles, Profile, Hosts, Works

LEMMA BookingFields ==
  ASSUME NEW x \in Booking
  PROVE  /\ \A v \in Case \cup {NoOne} : [x EXCEPT !.case = v] \in Booking
         /\ \A v \in Host \cup {NoOne} : [x EXCEPT !.host = v] \in Booking
         /\ \A v \in 0..MaxRevision : [x EXCEPT !.revision = v] \in Booking
         /\ \A v \in BOOLEAN : /\ [x EXCEPT !.released = v] \in Booking
                               /\ [x EXCEPT !.expired = v] \in Booking
                               /\ [x EXCEPT !.started = v] \in Booking
                               /\ [x EXCEPT !.stale = v] \in Booking
                               /\ [x EXCEPT !.completed = v] \in Booking
                               /\ [x EXCEPT !.checkpoint = v] \in Booking
         /\ \A v \in 0..MaxGenerations : [x EXCEPT !.generation = v] \in Booking
BY DEF Booking

\* The numbers that services read off the rows
LEMMA Numbers ==
  ASSUME Bookings, Profiles
  PROVE  /\ Used \subseteq Reservation /\ Written \subseteq 1..MaxVersions
         /\ Following(Used) \in Nat \ {0} /\ Following(Written) \in Nat \ {0}
         /\ \A c \in Case : /\ NewestReservation(c) \in 0..MaxReservations
                            /\ OfRevision(c) = {} => NewestReservation(c) = 0
                            /\ OfRevision(c) # {} =>
                                  /\ NewestReservation(c) \in OfRevision(c)
                                  /\ \A r \in OfRevision(c) : r <= NewestReservation(c)
         /\ \A R : /\ Newest(VersionsOf(R)) \in 0..MaxVersions
                   /\ VersionsOf(R) = {} => Newest(VersionsOf(R)) = 0
                   /\ VersionsOf(R) # {} =>
                          /\ Newest(VersionsOf(R)) \in VersionsOf(R)
                          /\ \A v \in VersionsOf(R) : v <= Newest(VersionsOf(R))
         /\ \A c \in Case : Proposed(c) \in 0..MaxVersions
<1>1. Used \subseteq Reservation /\ Written \subseteq 1..MaxVersions
  BY DEF Used, Written, Profiles
<1>2. MaxReservations \in Nat /\ MaxVersions \in Nat
  BY BoundsAssumption DEF BoundsAssumption
<1>3. Following(Used) \in Nat \ {0} /\ Following(Written) \in Nat \ {0}
  BY <1>1, <1>2, FollowingSome DEF Reservation
<1>4. ASSUME NEW c \in Case
      PROVE  /\ NewestReservation(c) \in 0..MaxReservations
             /\ OfRevision(c) = {} => NewestReservation(c) = 0
             /\ OfRevision(c) # {} =>
                   /\ NewestReservation(c) \in OfRevision(c)
                   /\ \A r \in OfRevision(c) : r <= NewestReservation(c)
  <2>1. OfRevision(c) \in SUBSET (1..MaxReservations)
    BY <1>1 DEF OfRevision, Reservation
  <2> QED
    BY <1>2, <2>1, NewestOfSome DEF NewestReservation
<1>5. ASSUME NEW R
      PROVE  /\ Newest(VersionsOf(R)) \in 0..MaxVersions
             /\ VersionsOf(R) = {} => Newest(VersionsOf(R)) = 0
             /\ VersionsOf(R) # {} =>
                   /\ Newest(VersionsOf(R)) \in VersionsOf(R)
                   /\ \A v \in VersionsOf(R) : v <= Newest(VersionsOf(R))
  <2>1. VersionsOf(R) \in SUBSET (1..MaxVersions)
    BY <1>1 DEF VersionsOf
  <2> QED
    BY <1>2, <2>1, NewestOfSome
<1>6. \A c \in Case : Proposed(c) \in 0..MaxVersions
  BY <1>2, <1>5 DEF Proposed
<1> QED
  BY <1>1, <1>3, <1>4, <1>5, <1>6

-----------------------------------------------------------------------------
(* What the shared operators do to the rows.                                *)

\* What no service takes back of a reservation
Same(a, b) ==
    /\ b.case = a.case /\ b.host = a.host /\ b.revision = a.revision
    /\ a.released => b.released

LEMMA ReleaseDoes ==
  ASSUME NEW rows \in [Reservation -> Booking], NEW c
  PROVE  /\ Release(rows, c) \in [Reservation -> Booking]
         /\ \A r \in Reservation :
               /\ Same(rows[r], Release(rows, c)[r])
               /\ rows[r].case = c => Release(rows, c)[r].released
               /\ rows[r].case # c => Release(rows, c)[r] = rows[r]
               /\ Release(rows, c)[r].started = rows[r].started
               /\ Release(rows, c)[r].generation = rows[r].generation
<1>1. Release(rows, c) = [r \in Reservation |-> Release(rows, c)[r]]
  BY DEF Release
<1> SUFFICES ASSUME NEW r \in Reservation
             PROVE  /\ Release(rows, c)[r] \in Booking
                    /\ Same(rows[r], Release(rows, c)[r])
                    /\ rows[r].case = c => Release(rows, c)[r].released
                    /\ rows[r].case # c => Release(rows, c)[r] = rows[r]
                    /\ Release(rows, c)[r].started = rows[r].started
                    /\ Release(rows, c)[r].generation = rows[r].generation
  BY <1>1
<1> DEFINE x == rows[r]
           y == [x EXCEPT !.released = TRUE, !.checkpoint = FALSE]
<1>2. x \in Booking /\ Release(rows, c)[r] = IF x.case = c /\ ~x.released THEN y ELSE x
  BY DEF Release
<1>3. /\ y \in Booking
      /\ y.case = x.case /\ y.host = x.host /\ y.revision = x.revision
      /\ y.started = x.started /\ y.generation = x.generation
      /\ y.released
  <2> DEFINE z == [x EXCEPT !.released = TRUE]
  <2>1. z \in Booking
    BY <1>2, BookingFields
  <2>2. y = [z EXCEPT !.checkpoint = FALSE]
    OBVIOUS
  <2> HIDE DEF z
  <2>3. y \in Booking
    BY <2>1, <2>2, BookingFields
  <2> USE DEF z
  <2> QED
    BY <1>2, <2>3 DEF Booking
<1> HIDE DEF x, y
<1>4. CASE x.case = c /\ ~x.released
  BY <1>2, <1>3, <1>4 DEF Same, x
<1>5. CASE ~(x.case = c /\ ~x.released)
  BY <1>2, <1>5 DEF Same, x
<1> QED
  BY <1>4, <1>5

\* A reservation made, and the expired ones of its host released
LEMMA ReservedDoes ==
  ASSUME Bookings, NEW h \in Host, NEW c \in Case, NEW n \in 1..MaxRevision
  PROVE  /\ Reserved(h, c, n) \in [Reservation -> Booking]
         /\ \A r \in Reservation :
               /\ r = Following(Used) =>
                     LET x == Reserved(h, c, n)[r]
                     IN  /\ x.case = c /\ x.host = h /\ x.revision = n
                         /\ ~x.released /\ ~x.expired /\ ~x.started /\ ~x.completed
               /\ r # Following(Used) =>
                     LET x == Reserved(h, c, n)[r]
                     IN  /\ Same(reservation[r], x)
                         /\ x.started = reservation[r].started
                         /\ x.generation = reservation[r].generation
                         /\ x.expired = reservation[r].expired
                         /\ x.completed = reservation[r].completed
                         /\ x = reservation[r] \/ (x.released /\ reservation[r].expired)
                         /\ reservation[r].host = h /\ reservation[r].expired => x.released
<1> DEFINE new == [NoReservation EXCEPT !.case = c, !.host = h, !.revision = n,
                                        !.released = FALSE]
<1>1. /\ new \in Booking /\ new.case = c /\ new.host = h /\ new.revision = n
      /\ ~new.released /\ ~new.expired /\ ~new.started /\ ~new.completed
  <2>1. NoReservation \in Booking
    BY BoundsAssumption DEF NoReservation, Booking, BoundsAssumption
  <2> DEFINE x1 == [NoReservation EXCEPT !.case = c]
             x2 == [x1 EXCEPT !.host = h]
             x3 == [x2 EXCEPT !.revision = n]
  <2>2. x1 \in Booking
    BY <2>1, BookingFields
  <2>3. x2 \in Booking
    <3> HIDE DEF x1
    <3> QED
      BY <2>2, BookingFields
  <2>4. x3 \in Booking
    <3> HIDE DEF x2
    <3> QED
      BY <2>3, BookingFields, BoundsAssumption DEF BoundsAssumption
  <2>5. [x3 EXCEPT !.released = FALSE] \in Booking
    <3> HIDE DEF x3
    <3> QED
      BY <2>4, BookingFields
  <2>6. new = [x3 EXCEPT !.released = FALSE]
    OBVIOUS
  <2> QED
    BY <2>5, <2>6 DEF NoReservation
<1> HIDE DEF new
<1> SUFFICES ASSUME NEW r \in Reservation
             PROVE  /\ Reserved(h, c, n)[r] \in Booking
                    /\ r = Following(Used) => Reserved(h, c, n)[r] = new
                    /\ r # Following(Used) =>
                          LET x == Reserved(h, c, n)[r]
                          IN  /\ Same(reservation[r], x)
                              /\ x.started = reservation[r].started
                              /\ x.generation = reservation[r].generation
                              /\ x.expired = reservation[r].expired
                              /\ x.completed = reservation[r].completed
                              /\ x = reservation[r] \/ (x.released /\ reservation[r].expired)
                              /\ reservation[r].host = h /\ reservation[r].expired => x.released
  BY <1>1 DEF Reserved
<1> DEFINE x == reservation[r]
           y == [x EXCEPT !.released = TRUE]
<1>2. /\ x \in Booking
      /\ Reserved(h, c, n)[r] = IF r = Following(Used) THEN new
                                ELSE IF x.host = h /\ x.expired THEN y ELSE x
  BY DEF Reserved, Bookings, new
<1>3. /\ y \in Booking
      /\ y.case = x.case /\ y.host = x.host /\ y.revision = x.revision
      /\ y.started = x.started /\ y.generation = x.generation
      /\ y.expired = x.expired /\ y.completed = x.completed
      /\ y.released
  <2>1. y \in Booking
    BY <1>2, BookingFields
  <2> QED
    BY <1>2, <2>1 DEF Booking
<1> HIDE DEF x, y
<1>4. CASE r = Following(Used)
  BY <1>1, <1>2, <1>4
<1>5. CASE r # Following(Used) /\ x.host = h /\ x.expired
  BY <1>2, <1>3, <1>5 DEF Same, x
<1>6. CASE r # Following(Used) /\ ~(x.host = h /\ x.expired)
  BY <1>2, <1>6 DEF Same, x
<1> QED
  BY <1>4, <1>5, <1>6

\* Another version, and a version decided
LEMMA ProfilesDo ==
  ASSUME Profiles
  PROVE  /\ \A r \in 0..MaxReservations :
               Room => /\ NewVersion(r) \in [1..MaxVersions -> Profile]
                       /\ NewVersion(r)[Following(Written)].reservation = r
                       /\ \A v \in 1..MaxVersions \ {Following(Written)} :
                             NewVersion(r)[v] = version[v]
         /\ \A v \in 0..MaxVersions :
               /\ Decided(v) \in [1..MaxVersions -> Profile]
               /\ v # 0 => Decided(v)[v].decided
               /\ \A w \in 1..MaxVersions :
                     /\ Decided(v)[w].reservation = version[w].reservation
                     /\ version[w].decided => Decided(v)[w].decided
<1>1. ASSUME NEW r \in 0..MaxReservations, Room
      PROVE  /\ NewVersion(r) \in [1..MaxVersions -> Profile]
             /\ NewVersion(r)[Following(Written)].reservation = r
             /\ \A v \in 1..MaxVersions \ {Following(Written)} : NewVersion(r)[v] = version[v]
  <2>1. Written \in SUBSET (1..MaxVersions) /\ MaxVersions \in Nat
    BY BoundsAssumption DEF Written, Profiles, BoundsAssumption
  <2>2. Following(Written) \in 1..MaxVersions
    <3>1. Following(Written) \in Nat \ {0}
      BY <2>1, FollowingSome
    <3> QED
      BY <1>1, <2>1, <3>1 DEF Room
  <2>3. [reservation |-> r, decided |-> FALSE] \in Profile
    BY DEF Profile
  <2> QED
    BY <2>2, <2>3 DEF NewVersion, Profiles
<1>2. ASSUME NEW v \in 0..MaxVersions
      PROVE  /\ Decided(v) \in [1..MaxVersions -> Profile]
             /\ v # 0 => Decided(v)[v].decided
             /\ \A w \in 1..MaxVersions :
                   /\ Decided(v)[w].reservation = version[w].reservation
                   /\ version[w].decided => Decided(v)[w].decided
  <2>1. CASE v = 0
    BY <2>1 DEF Decided, Profiles
  <2>2. CASE v # 0
    <3>1. v \in 1..MaxVersions /\ Decided(v) = [version EXCEPT ![v].decided = TRUE]
      BY <2>2, BoundsAssumption DEF Decided, BoundsAssumption
    <3>2. version[v] \in Profile
      BY <3>1 DEF Profiles
    <3>3. /\ [version[v] EXCEPT !.decided = TRUE] \in Profile
          /\ [version[v] EXCEPT !.decided = TRUE].decided
          /\ [version[v] EXCEPT !.decided = TRUE].reservation = version[v].reservation
      BY <3>2 DEF Profile
    <3> DEFINE x == [version[v] EXCEPT !.decided = TRUE]
    <3>4. Decided(v) = [version EXCEPT ![v] = x]
      BY <3>1
    <3> HIDE DEF x
    <3>5. /\ Decided(v) \in [1..MaxVersions -> Profile] /\ Decided(v)[v] = x
          /\ \A w \in 1..MaxVersions \ {v} : Decided(v)[w] = version[w]
      BY <3>1, <3>3, <3>4 DEF Profiles, x
    <3> QED
      BY <3>1, <3>3, <3>5 DEF x
  <2> QED
    BY <2>1, <2>2
<1> QED
  BY <1>1, <1>2

\* A claim renewed or made
Renewed(o, c, n) == \E new \in Claims(o, c, n) : claim' = [claim EXCEPT ![c] = new]

LEMMA LeasesDo ==
  ASSUME Leases, NEW o \in Operator, NEW c \in Case, NEW n \in 1..MaxRevision,
         Renewed(o, c, n)
  PROVE  /\ Leases' /\ \A d \in Case \ {c} : claim'[d] = claim[d]
         /\ claim'[c].by = o
         /\ claim'[c].revision = n \/ claim'[c] = claim[c]
<1>1. PICK new \in Claims(o, c, n) : claim' = [claim EXCEPT ![c] = new]
  BY DEF Renewed
<1>2. new = [by |-> o, revision |-> n] \/ (new = claim[c] /\ claim[c].by = o)
  BY DEF Claims
<1>3. new \in Lease /\ new.by = o /\ (new.revision = n \/ new = claim[c])
  BY <1>2, BoundsAssumption DEF Lease, Leases, BoundsAssumption
<1> QED
  BY <1>1, <1>3 DEF Leases

LEMMA LeaseEnded ==
  ASSUME Leases, NEW c \in Case, claim' = [claim EXCEPT ![c] = NoClaim]
  PROVE  Leases' /\ claim'[c] = NoClaim /\ \A d \in Case \ {c} : claim'[d] = claim[d]
<1>1. NoClaim \in Lease
  BY BoundsAssumption DEF NoClaim, Lease, BoundsAssumption
<1> QED
  BY <1>1 DEF Leases

-----------------------------------------------------------------------------
(* The inductive invariant.                                                 *)

\* Reservations and versions are numbered in the order in which they were made.
Counted ==
    /\ \E n \in 0..MaxReservations : Used = 1..n
    /\ \E n \in 0..MaxVersions : Written = 1..n

\* Only a case that waits for corrections is discarded; one that was never
\* introduced has seen no Discovery, and one that was is about a host.
CaseInv ==
    \A c \in Case :
        /\ row[c].discarded => row[c].state = "changes_requested"
        /\ row[c].state = "none" => row[c].stage = "awaiting_url"
        /\ row[c].state # "none" => row[c].host \in Host

\* A reservation is of a revision that the case has had; of the current one,
\* it is at the host that the case is about.
OfItsCase ==
    \A r \in Used :
        /\ reservation[r].case \in Case /\ reservation[r].host \in Host
        /\ row[reservation[r].case].state # "none"
        /\ reservation[r].revision <= row[reservation[r].case].revision
        /\ reservation[r].revision = row[reservation[r].case].revision =>
              /\ row[reservation[r].case].host = reservation[r].host
              /\ row[reservation[r].case].source = reservation[r].host

\* One that is not released is of the current revision of a case under review,
\* the last of its case, the only one at its host, and nobody else has the
\* assignment there.
Reserving ==
    \A r \in Used : ~reservation[r].released =>
        /\ row[reservation[r].case].state = "pending"
        /\ reservation[r].revision = row[reservation[r].case].revision
        /\ \A q \in Used : reservation[q].case = reservation[r].case => q <= r
        /\ \A q \in Used :
              reservation[q].host = reservation[r].host /\ ~reservation[q].released => q = r
        /\ assignment[reservation[r].host].case \in {NoOne, reservation[r].case}

VersionInv == \A v \in Written : version[v].reservation \in Used

\* What is assigned at a host, and the version in force there.
AssignedAt(h) ==
    assignment[h].case # NoOne =>
        /\ row[assignment[h].case].state # "none" /\ ~row[assignment[h].case].discarded
        /\ row[assignment[h].case].host = h /\ row[assignment[h].case].source = h
        /\ operator[h] = row[assignment[h].case].responsible
InForceAt(h) ==
    /\ active[h] = assignment[h].version
    /\ active[h] # 0 =>
          /\ assignment[h].case # NoOne
          /\ active[h] \in Written /\ version[active[h]].decided
          /\ reservation[version[active[h]].reservation].case = assignment[h].case
          /\ reservation[version[active[h]].reservation].host = h
          /\ reservation[version[active[h]].reservation].released
          /\ \A v \in VersionsOf({version[active[h]].reservation}) : v <= active[h]
AssignmentInv == \A h \in Host : AssignedAt(h) /\ InForceAt(h)

\* A claim is held by who is responsible for what is under review.
LeaseOf(c) ==
    claim[c] # NoClaim =>
        /\ claim[c].by \in Operator /\ claim[c].by = row[c].responsible
        /\ row[c].state = "pending" /\ claim[c].revision = row[c].revision
LeaseInv == \A c \in Case : LeaseOf(c)

\* The stage is that of the reservation that is live.
StageOf(c) ==
    row[c].state = "pending" =>
        /\ OfRevision(c) = {} => row[c].stage \in {"awaiting_url", "released"}
        /\ \A r \in OfRevision(c) : Live(r) =>
              row[c].stage = IF reservation[r].completed THEN "complete"
                             ELSE IF reservation[r].started THEN "running" ELSE "queued"
StageInv == \A c \in Case : StageOf(c)

\* Who fetches has begun the slice that the reservation is at.
FetchInv ==
    \A m \in Message :
        /\ fetching[m] \in {0, 1}
        /\ fetching[m] = 1 =>
              /\ m.reservation \in Used /\ reservation[m.reservation].started
              /\ reservation[m.reservation].generation = m.generation

(* Who reviews, reserves, assigns and discovers keep to the current revision *)
(* of their case; what has begun is released before the case moves on.       *)
Inv ==
    /\ TypeOK /\ Counted /\ CaseInv /\ OfItsCase /\ Reserving /\ VersionInv
    /\ AssignmentInv /\ LeaseInv /\ StageInv /\ FetchInv /\ OneCurrentWebsite

-----------------------------------------------------------------------------
(* What keeps each part.                                                    *)

LEMMA CaseStart == Init => Inv
<1> SUFFICES ASSUME Init PROVE Inv
  OBVIOUS
<1>0. /\ \A r \in Reservation : reservation[r].case = NoOne
      /\ \A v \in 1..MaxVersions : version[v].reservation = 0
      /\ DOMAIN version = 1..MaxVersions
      /\ \A c \in Case : row[c] = NotIntroduced /\ claim[c] = NoClaim
      /\ \A h \in Host : assignment[h] = NoAssignment /\ active[h] = 0
      /\ \A m \in Message : fetching[m] = 0
  BY DEF Init, NoReservation
<1>1. Used = {} /\ Written = {}
  BY <1>0 DEF Used, Written
<1>2. Counted
  BY <1>1, BoundsAssumption DEF Counted, BoundsAssumption
<1>3. TypeOK
  <2>1. NoReservation \in Booking /\ NoClaim \in Lease /\ [reservation |-> 0, decided |-> FALSE] \in Profile
        /\ NoAssignment \in [case : Case \cup {NoOne}, version : 0..MaxVersions]
    BY BoundsAssumption DEF NoReservation, Booking, NoClaim, Lease, Profile, NoAssignment,
       BoundsAssumption
  <2>2. NotIntroduced \in Row
    BY BoundsAssumption DEF NotIntroduced, Row, States, Stages, BoundsAssumption
  <2>3. Rows /\ Leases /\ Bookings /\ Profiles
    BY <2>1, <2>2 DEF Init, Rows, Leases, Bookings, Profiles
  <2>4. Hosts /\ Works
    BY <2>1, BoundsAssumption DEF Init, Hosts, Works, BoundsAssumption
  <2> QED
    BY <2>3, <2>4, TypeParts DEF Init
<1>4. CaseInv /\ LeaseInv /\ StageInv
  BY <1>0 DEF CaseInv, LeaseInv, LeaseOf, StageInv, StageOf, NotIntroduced
<1>5. OfItsCase /\ Reserving /\ VersionInv
  BY <1>1 DEF OfItsCase, Reserving, VersionInv
<1>6. AssignmentInv
  BY <1>0 DEF AssignmentInv, AssignedAt, InForceAt, NoAssignment
<1>7. FetchInv
  BY <1>0 DEF FetchInv
<1>8. OneCurrentWebsite
  <2>1. \A c \in Case : ~IsOpen(c)
    BY <1>0 DEF IsOpen, NotIntroduced
  <2>2. \A c \in Case : ~Assigned(c)
    BY <1>0, NoOneAssumption DEF Assigned, NoAssignment, NoOneAssumption
  <2> QED
    BY <2>1, <2>2 DEF OneCurrentWebsite
<1> QED
  BY <1>2, <1>3, <1>4, <1>5, <1>6, <1>7, <1>8 DEF Inv

\* A step of case c: rows of other cases, and their reservations, stay.
RowsOfOthersStay(c) == \A d \in Case \ {c} : row'[d] = row[d]
BookingsMove(c) ==
    \A r \in Reservation :
        /\ Same(reservation[r], reservation'[r])
        /\ reservation[r].case # c => reservation'[r] = reservation[r]

LEMMA BookingsKept ==
  ASSUME Inv, Bookings', NEW c \in Case, RowsOfOthersStay(c), BookingsMove(c),
         row'[c].revision \in Nat,
         row[c].state # "none" =>
            /\ row'[c].state # "none" /\ row'[c].revision >= row[c].revision
            /\ row'[c].revision = row[c].revision
                  => row'[c].host = row[c].host /\ row'[c].source = row[c].source,
         \A r \in Used : reservation[r].case = c /\ ~reservation'[r].released
            => row'[c].state = "pending" /\ row'[c].revision = row[c].revision,
         \A r \in Used : ~reservation'[r].released
            => assignment'[reservation[r].host].case \in {NoOne, reservation[r].case}
  PROVE  Used' = Used /\ OfItsCase' /\ Reserving'
<1>0. /\ OfItsCase /\ Reserving /\ Used \subseteq Reservation /\ row[c].revision \in Nat
      /\ \A d \in Case : row[d].revision \in 1..MaxRevision
      /\ \A r \in Used : reservation[r].revision \in Nat
  BY TypeParts, BoundsAssumption DEF Inv, Used, Rows, Row, Bookings, Booking, BoundsAssumption
<1>1. Used' = Used
  BY DEF Used, BookingsMove, Same
<1>2. OfItsCase'
  <2> SUFFICES ASSUME NEW r \in Used
               PROVE  /\ reservation'[r].case \in Case /\ reservation'[r].host \in Host
                      /\ row'[reservation'[r].case].state # "none"
                      /\ reservation'[r].revision <= row'[reservation'[r].case].revision
                      /\ reservation'[r].revision = row'[reservation'[r].case].revision =>
                            /\ row'[reservation'[r].case].host = reservation'[r].host
                            /\ row'[reservation'[r].case].source = reservation'[r].host
    BY <1>1 DEF OfItsCase
  <2>1. /\ reservation'[r].case = reservation[r].case
        /\ reservation'[r].host = reservation[r].host
        /\ reservation'[r].revision = reservation[r].revision
    BY <1>0 DEF BookingsMove, Same
  <2>2. CASE reservation[r].case = c
    BY <1>0, <2>1, <2>2 DEF OfItsCase
  <2>3. CASE reservation[r].case # c
    BY <1>0, <2>1, <2>3 DEF OfItsCase, RowsOfOthersStay
  <2> QED
    BY <2>2, <2>3
<1>3. Reserving'
  <2> SUFFICES ASSUME NEW r \in Used, ~reservation'[r].released
               PROVE  /\ row'[reservation'[r].case].state = "pending"
                      /\ reservation'[r].revision = row'[reservation'[r].case].revision
                      /\ \A q \in Used : reservation'[q].case = reservation'[r].case => q <= r
                      /\ \A q \in Used : reservation'[q].host = reservation'[r].host
                                           /\ ~reservation'[q].released => q = r
                      /\ assignment'[reservation'[r].host].case \in {NoOne, reservation'[r].case}
    BY <1>1 DEF Reserving
  <2>1. /\ \A q \in Used : /\ reservation'[q].case = reservation[q].case
                           /\ reservation'[q].host = reservation[q].host
                           /\ reservation'[q].revision = reservation[q].revision
                           /\ reservation[q].released => reservation'[q].released
        /\ ~reservation[r].released
    BY <1>0 DEF BookingsMove, Same
  <2>2. /\ row'[reservation[r].case].state = "pending"
        /\ reservation[r].revision = row'[reservation[r].case].revision
    <3>1. CASE reservation[r].case = c
      BY <1>0, <2>1, <3>1 DEF Reserving
    <3>2. CASE reservation[r].case # c
      BY <1>0, <2>1, <3>2 DEF Reserving, OfItsCase, RowsOfOthersStay
    <3> QED
      BY <3>1, <3>2
  <2> QED
    BY <1>0, <2>1, <2>2 DEF Reserving
<1> QED
  BY <1>1, <1>2, <1>3

\* Versions stay, and another one is only of a live reservation.
VersionsMove ==
    /\ \A v \in Written : /\ v \in Written' /\ version'[v].reservation = version[v].reservation
                          /\ version[v].decided => version'[v].decided
    /\ \A v \in Written' \ Written : Live(version'[v].reservation)

LEMMA InForceKept ==
  ASSUME Inv, NEW h \in Host, VersionsMove, \A r \in Used : Same(reservation[r], reservation'[r]),
         assignment'[h] = assignment[h], active'[h] = active[h]
  PROVE  InForceAt(h)'
<1> SUFFICES ASSUME active[h] # 0
             PROVE  /\ assignment'[h].case # NoOne
                    /\ active'[h] \in Written' /\ version'[active'[h]].decided
                    /\ reservation'[version'[active'[h]].reservation].case = assignment'[h].case
                    /\ reservation'[version'[active'[h]].reservation].host = h
                    /\ reservation'[version'[active'[h]].reservation].released
                    /\ \A v \in Written' :
                          version'[v].reservation = version'[active'[h]].reservation => v <= active'[h]
  BY DEF Inv, AssignmentInv, InForceAt, VersionsOf
<1> DEFINE a == active[h] r == version[a].reservation
<1>1. /\ assignment[h].case # NoOne /\ a \in Written /\ version[a].decided /\ r \in Used
      /\ reservation[r].case = assignment[h].case /\ reservation[r].host = h
      /\ reservation[r].released
      /\ \A v \in Written : version[v].reservation = r => v <= a
  BY DEF Inv, AssignmentInv, InForceAt, VersionsOf, VersionInv
<1>2. a \in Written' /\ version'[a].reservation = r /\ version'[a].decided
  BY <1>1 DEF VersionsMove
<1>3. /\ reservation'[r].case = assignment[h].case /\ reservation'[r].host = h
      /\ reservation'[r].released
  BY <1>1 DEF Same
<1>4. ASSUME NEW v \in Written', version'[v].reservation = r PROVE v <= a
  <2>1. v \in Written
    BY <1>1, <1>4 DEF VersionsMove, Live, Unreleased
  <2> QED
    BY <1>1, <1>4, <2>1 DEF VersionsMove
<1> HIDE DEF r
<1> QED
  BY <1>1, <1>2, <1>3, <1>4

LEMMA StageKept ==
  ASSUME Inv, NEW c \in Case, RowsOfOthersStay(c), BookingsMove(c), Bookings', StageOf(c)'
  PROVE  StageInv'
<1> SUFFICES ASSUME NEW d \in Case \ {c} PROVE StageOf(d)'
  BY DEF StageInv
<1>1. row'[d] = row[d] /\ StageOf(d)
  BY DEF RowsOfOthersStay, Inv, StageInv
<1>2. Used' = Used /\ Used \subseteq Reservation
  BY DEF Used, BookingsMove, Same
<1>3. OfRevision(d)' = OfRevision(d) /\ \A r \in OfRevision(d) : reservation'[r] = reservation[r]
  BY <1>1, <1>2 DEF OfRevision, BookingsMove, Same
<1>4. \A r \in OfRevision(d) : Live(r)' => Live(r)
  BY <1>2, <1>3 DEF OfRevision, Live, Unreleased
<1> QED
  BY <1>1, <1>3, <1>4 DEF StageOf

LEMMA FetchKept ==
  ASSUME FetchInv, UNCHANGED fetching,
         \A r \in Used : /\ r \in Used' /\ reservation'[r].started = reservation[r].started
                         /\ reservation'[r].generation = reservation[r].generation
  PROVE  FetchInv'
BY DEF FetchInv

LEMMA LeaseKept ==
  ASSUME LeaseInv, NEW c \in Case, RowsOfOthersStay(c), LeaseOf(c)',
         \A d \in Case \ {c} : claim'[d] = claim[d]
  PROVE  LeaseInv'
BY DEF LeaseInv, LeaseOf, RowsOfOthersStay

Current(c) == IsOpen(c) \/ Assigned(c)

LEMMA WebsiteKept ==
  ASSUME OneCurrentWebsite, UNCHANGED submitter, NEW c \in Case,
         \A d \in Case \ {c} : Current(d)' => Current(d),
         Current(c)' => Current(c) \/ OnlyWebsite(c)
  PROVE  OneCurrentWebsite'
<1>1. \A d, e \in Case : submitter[d] = submitter[e] /\ Current(d) /\ Current(e) => d = e
  BY DEF OneCurrentWebsite, Current
<1>2. OnlyWebsite(c) => \A d \in Case : submitter[d] = submitter[c] /\ Current(d) => d = c
  BY DEF OnlyWebsite, CurrentWebsite, Current
<1>3. ASSUME NEW d \in Case, NEW e \in Case, submitter[d] = submitter[e], Current(d)', Current(e)'
      PROVE  d = e
  BY <1>1, <1>2, <1>3
<1> QED
  BY <1>3 DEF OneCurrentWebsite, Current

\* The rows that services write
LEMMA RowChanges ==
  ASSUME NEW y \in Row
  PROVE  /\ \A a \in States, h \in Host : [y EXCEPT !.state = a, !.host = h] \in Row
         /\ \A a \in States, n \in 1..MaxRevision : [y EXCEPT !.state = a, !.revision = n] \in Row
         /\ \A a \in States, n \in 1..MaxRevision, h \in Host, g \in Stages :
               /\ [y EXCEPT !.state = a, !.revision = n, !.host = h, !.stage = g] \in Row
               /\ [y EXCEPT !.state = a, !.revision = n, !.source = h, !.stage = g] \in Row
         /\ \A h \in Host \cup {NoOne}, g \in Stages : [y EXCEPT !.source = h, !.stage = g] \in Row
         /\ \A o \in Operator \cup {NoOne}, n \in 0..MaxTransfers :
               [y EXCEPT !.responsible = o, !.transfers = n] \in Row
<1>1. ASSUME NEW x \in Row
      PROVE  /\ \A v \in States : [x EXCEPT !.state = v] \in Row
             /\ \A v \in 1..MaxRevision : [x EXCEPT !.revision = v] \in Row
             /\ \A v \in Host \cup {NoOne} : [x EXCEPT !.host = v] \in Row
             /\ \A v \in Host \cup {NoOne} : [x EXCEPT !.source = v] \in Row
             /\ \A v \in Operator \cup {NoOne} : [x EXCEPT !.responsible = v] \in Row
             /\ \A v \in 0..MaxTransfers : [x EXCEPT !.transfers = v] \in Row
             /\ \A v \in Stages : [x EXCEPT !.stage = v] \in Row
  BY DEF Row
<1>2. ASSUME NEW a \in States, NEW h \in Host
      PROVE  [y EXCEPT !.state = a, !.host = h] \in Row
  <2> DEFINE z == [y EXCEPT !.state = a]
  <2>1. z \in Row
    BY <1>1
  <2>2. [z EXCEPT !.host = h] \in Row
    <3> HIDE DEF z
    <3> QED
      BY <1>1, <2>1
  <2> QED
    BY <2>2
<1>3. ASSUME NEW a \in States, NEW n \in 1..MaxRevision
      PROVE  [y EXCEPT !.state = a, !.revision = n] \in Row
  <2> DEFINE z == [y EXCEPT !.state = a]
  <2>1. z \in Row
    BY <1>1
  <2>2. [z EXCEPT !.revision = n] \in Row
    <3> HIDE DEF z
    <3> QED
      BY <1>1, <2>1
  <2> QED
    BY <2>2
<1>4. ASSUME NEW a \in States, NEW n \in 1..MaxRevision, NEW h \in Host, NEW g \in Stages
      PROVE  /\ [y EXCEPT !.state = a, !.revision = n, !.host = h, !.stage = g] \in Row
             /\ [y EXCEPT !.state = a, !.revision = n, !.source = h, !.stage = g] \in Row
  <2> DEFINE z == [y EXCEPT !.state = a, !.revision = n]
             z1 == [z EXCEPT !.host = h]
             z2 == [z EXCEPT !.source = h]
  <2>1. z \in Row
    BY <1>3, Zenon
  <2>2. z1 \in Row /\ z2 \in Row
    <3> HIDE DEF z
    <3> QED
      BY <1>1, <2>1
  <2>3. [z1 EXCEPT !.stage = g] \in Row /\ [z2 EXCEPT !.stage = g] \in Row
    <3> HIDE DEF z1, z2
    <3> QED
      BY <1>1, <2>2
  <2> QED
    BY <2>3
<1>5. ASSUME NEW h \in Host \cup {NoOne}, NEW g \in Stages
      PROVE  [y EXCEPT !.source = h, !.stage = g] \in Row
  <2> DEFINE z == [y EXCEPT !.source = h]
  <2>1. z \in Row
    BY <1>1
  <2>2. [z EXCEPT !.stage = g] \in Row
    <3> HIDE DEF z
    <3> QED
      BY <1>1, <2>1
  <2> QED
    BY <2>2
<1>6. ASSUME NEW o \in Operator \cup {NoOne}, NEW n \in 0..MaxTransfers
      PROVE  [y EXCEPT !.responsible = o, !.transfers = n] \in Row
  <2> DEFINE z == [y EXCEPT !.responsible = o]
  <2>1. z \in Row
    BY <1>1
  <2>2. [z EXCEPT !.transfers = n] \in Row
    <3> HIDE DEF z
    <3> QED
      BY <1>1, <2>1
  <2> QED
    BY <2>2
<1> QED
  BY <1>2, <1>3, <1>4, <1>5, <1>6, Zenon

\* The facts about types that every step needs
LEMMA Typed ==
  ASSUME Inv
  PROVE  /\ Rows /\ Leases /\ Bookings /\ Profiles /\ Hosts /\ Works
         /\ submitter \in Submitters
         /\ MaxRevision \in Nat \ {0} /\ MaxTransfers \in Nat /\ MaxReservations \in Nat
         /\ MaxVersions \in Nat /\ MaxGenerations \in Nat
         /\ Used \subseteq Reservation
         /\ \A c \in Case : row[c] \in Row /\ row[c].revision \in 1..MaxRevision
                            /\ row[c].transfers \in 0..MaxTransfers
         /\ \A r \in Reservation : reservation[r] \in Booking /\ reservation[r].revision \in Nat
                                   /\ reservation[r].generation \in 0..MaxGenerations
<1>1. Rows /\ Leases /\ Bookings /\ Profiles /\ Hosts /\ Works /\ submitter \in Submitters
  BY TypeParts DEF Inv
<1>2. \A c \in Case : row[c] \in Row /\ row[c].revision \in 1..MaxRevision
                      /\ row[c].transfers \in 0..MaxTransfers
  BY <1>1 DEF Rows, Row
<1>3. MaxRevision \in Nat \ {0}
  BY BoundsAssumption DEF BoundsAssumption
<1>4. \A r \in Reservation : reservation[r] \in Booking /\ reservation[r].revision \in Nat
                             /\ reservation[r].generation \in 0..MaxGenerations
  BY <1>1, <1>3 DEF Bookings, Booking
<1>5. Used \subseteq Reservation
  BY DEF Used
<1> QED
  BY <1>1, <1>2, <1>4, <1>5, BoundsAssumption DEF BoundsAssumption

LEMMA TypesKept ==
  ASSUME submitter' \in Submitters, Rows', Leases', Bookings', Profiles', Hosts', Works'
  PROVE  TypeOK'
BY DEF TypeOK, Rows, Row, Leases, Lease, Bookings, Booking, Profiles, Profile, Hosts, Works

LEMMA RowMoves ==
  ASSUME Rows, NEW c \in Case, NEW x \in Row, row' = [row EXCEPT ![c] = x]
  PROVE  Rows' /\ row'[c] = x /\ RowsOfOthersStay(c)
BY DEF Rows, RowsOfOthersStay

\* Rows of versions are numbered, and each is of a reservation.
VersionsSound ==
    /\ \E n \in 0..MaxVersions : Written = 1..n
    /\ VersionInv

\* Versions stay, except that one is decided.
LEMMA VersionsStay ==
  ASSUME Inv, Used \subseteq Used',
         version' = version \/ \E v \in 0..MaxVersions : version' = Decided(v)
  PROVE  VersionsMove /\ VersionsSound' /\ Profiles'
<1>1. DOMAIN version = 1..MaxVersions /\ Profiles
  BY Typed DEF Profiles
<1>2. /\ Profiles'
      /\ \A w \in 1..MaxVersions : /\ version'[w].reservation = version[w].reservation
                                   /\ version[w].decided => version'[w].decided
  <2>1. CASE version' = version
    BY <1>1, <2>1 DEF Profiles
  <2>2. CASE \E v \in 0..MaxVersions : version' = Decided(v)
    BY <1>1, <2>2, ProfilesDo DEF Profiles
  <2> QED
    BY <2>1, <2>2
<1>3. DOMAIN version' = 1..MaxVersions
  BY <1>2 DEF Profiles
<1>4. Written' = Written
  BY <1>1, <1>2, <1>3 DEF Written
<1>5. Written \subseteq 1..MaxVersions
  BY <1>1 DEF Written
<1> QED
  BY <1>2, <1>4, <1>5 DEF VersionsMove, VersionsSound, VersionInv, Inv, Counted

\* Another version of a reservation that is live
LEMMA VersionAdded ==
  ASSUME Inv, Used \subseteq Used', NEW r \in Used, Live(r), Room, version' = NewVersion(r)
  PROVE  VersionsMove /\ VersionsSound' /\ Profiles'
<1> DEFINE f == Following(Written)
<1>1. PICK n \in 0..MaxVersions : Written = 1..n
  BY DEF Inv, Counted
<1>2. /\ DOMAIN version = 1..MaxVersions /\ Profiles /\ r \in Reservation
      /\ MaxVersions \in Nat /\ MaxReservations \in Nat
  BY Typed DEF Profiles
<1>3. n \in Nat /\ n <= MaxVersions
  BY <1>2
<1>4. f = n + 1 /\ f \in 1..MaxVersions
  <2>1. f = n + 1
    BY <1>1, <1>3, FollowingRow
  <2> QED
    BY <1>2, <1>3, <2>1 DEF Room
<1>5. /\ Profiles' /\ version'[f].reservation = r
      /\ \A v \in 1..MaxVersions \ {f} : version'[v] = version[v]
  BY <1>2, ProfilesDo DEF Profiles, Reservation
<1>6. DOMAIN version' = 1..MaxVersions /\ r # 0
  BY <1>2, <1>5 DEF Profiles, Reservation
<1> HIDE DEF f
<1>7. Written' = Written \cup {f}
  BY <1>2, <1>4, <1>5, <1>6 DEF Written
<1>8. Written' = 1..(n + 1) /\ n + 1 \in 0..MaxVersions
  <2>1. 1..(n + 1) = (1..n) \cup {n + 1}
    BY <1>3
  <2> QED
    BY <1>1, <1>2, <1>3, <1>4, <1>7, <2>1
<1>9. f \notin Written /\ Written \subseteq 1..MaxVersions
  BY <1>1, <1>2, <1>3, <1>4
<1>10. VersionsMove
  BY <1>5, <1>7, <1>9 DEF VersionsMove
<1>11. VersionInv'
  <2> SUFFICES ASSUME NEW v \in Written' PROVE version'[v].reservation \in Used
    BY DEF VersionInv
  <2>1. CASE v = f
    BY <1>5, <2>1
  <2>2. CASE v # f
    <3>1. v \in Written
      BY <1>7, <2>2
    <3> QED
      BY <1>5, <1>9, <2>2, <3>1 DEF Inv, VersionInv
  <2> QED
    BY <2>1, <2>2
<1>12. \E k \in 0..MaxVersions : Written' = 1..k
  BY <1>8
<1> QED
  BY <1>5, <1>10, <1>11, <1>12 DEF VersionsSound

\* A step of case c leaves the assignments, and the Source of c has its operator.
LEMMA HostsStay ==
  ASSUME Inv, NEW c \in Case, UNCHANGED <<assignment, active>>, RowsOfOthersStay(c), VersionsMove,
         \A r \in Used : Same(reservation[r], reservation'[r]),
         \A h \in Host : assignment[h].case # c => operator'[h] = operator[h],
         Assigned(c) => /\ row[c].state # "none" => row'[c].state # "none"
                        /\ row'[c].discarded => row[c].discarded
                        /\ row'[c].host = row[c].host /\ row'[c].source = row[c].source,
         \A h \in Host : assignment[h].case = c /\ row[c].source = h /\ operator[h] = row[c].responsible
            => operator'[h] = row'[c].responsible
  PROVE  AssignmentInv'
<1> SUFFICES ASSUME NEW h \in Host PROVE AssignedAt(h)' /\ InForceAt(h)'
  BY DEF AssignmentInv
<1>1. InForceAt(h)'
  BY InForceKept
<1>2. AssignedAt(h) /\ assignment[h].case \in Case \cup {NoOne}
  BY Typed DEF Inv, AssignmentInv, Hosts
<1>3. AssignedAt(h)'
  <2>1. CASE assignment[h].case = c
    BY <1>2, <2>1 DEF AssignedAt, Assigned
  <2>2. CASE assignment[h].case # c
    BY <1>2, <2>2 DEF AssignedAt, RowsOfOthersStay
  <2> QED
    BY <2>1, <2>2
<1> QED
  BY <1>1, <1>3

(* What a step of case c that makes no reservation has to meet              *)
LEMMA StepOfCase ==
  ASSUME Inv, TypeOK', UNCHANGED submitter, NEW c \in Case,
         RowsOfOthersStay(c), BookingsMove(c),
         row[c].state # "none" =>
            /\ row'[c].state # "none" /\ row'[c].revision >= row[c].revision
            /\ row'[c].revision = row[c].revision
                  => row'[c].host = row[c].host /\ row'[c].source = row[c].source,
         row'[c].discarded => row'[c].state = "changes_requested",
         row'[c].state = "none" => row'[c].stage = "awaiting_url",
         row'[c].state # "none" => row'[c].host \in Host,
         \A r \in Used : reservation[r].case = c /\ ~reservation'[r].released
            => row'[c].state = "pending" /\ row'[c].revision = row[c].revision,
         \A r \in Used : ~reservation'[r].released
            => assignment'[reservation[r].host].case \in {NoOne, reservation[r].case},
         VersionsSound', AssignmentInv',
         LeaseOf(c)', \A d \in Case \ {c} : claim'[d] = claim[d],
         StageOf(c)', FetchInv',
         \A d \in Case \ {c} : Assigned(d)' => Assigned(d),
         Current(c)' => Current(c) \/ OnlyWebsite(c)
  PROVE  Inv'
<1>1. Bookings' /\ row'[c].revision \in Nat
  BY BoundsAssumption DEF TypeOK, Bookings, Booking, BoundsAssumption
<1>2. Used' = Used /\ OfItsCase' /\ Reserving'
  BY <1>1, BookingsKept
<1>3. Counted' /\ VersionInv'
  BY <1>2 DEF Inv, Counted, VersionsSound
<1>4. CaseInv'
  BY DEF Inv, CaseInv, RowsOfOthersStay
<1>5. LeaseInv'
  BY LeaseKept DEF Inv
<1>6. StageInv'
  BY <1>1, StageKept
<1>7. OneCurrentWebsite'
  <2>1. \A d \in Case \ {c} : Current(d)' => Current(d)
    BY DEF Current, IsOpen, RowsOfOthersStay
  <2> QED
    BY <2>1, WebsiteKept DEF Inv
<1> QED
  BY <1>2, <1>3, <1>4, <1>5, <1>6, <1>7 DEF Inv

-----------------------------------------------------------------------------
(* The submitter, and responsibility.                                       *)

\* A new revision has no reservations; the rows of the old one stay its own.
LEMMA OfTheRevision ==
  ASSUME Inv, UNCHANGED reservation, NEW c \in Case
  PROVE  /\ row'[c].revision = row[c].revision => OfRevision(c)' = OfRevision(c)
         /\ row'[c].revision \in Nat /\ row'[c].revision > row[c].revision
               => OfRevision(c)' = {}
         /\ \A r \in Reservation : Live(r)' = Live(r)
<1>1. Used' = Used /\ \A r \in Reservation : Live(r)' = Live(r)
  BY DEF Used, Live, Unreleased
<1>2. \A r \in Used : reservation[r].case = c => reservation[r].revision <= row[c].revision
  BY DEF Inv, OfItsCase
<1>3. row[c].revision \in Nat /\ \A r \in Used : reservation[r].revision \in Nat
  BY Typed
<1>4. row'[c].revision \in Nat /\ row'[c].revision > row[c].revision => OfRevision(c)' = {}
  BY <1>1, <1>2, <1>3 DEF OfRevision
<1>5. row'[c].revision = row[c].revision => OfRevision(c)' = OfRevision(c)
  BY <1>1 DEF OfRevision
<1> QED
  BY <1>1, <1>4, <1>5

(* A step that writes a case, its claim and the operator of its Source      *)
LEMMA RowStep ==
  ASSUME Inv, NEW c \in Case, Rows', RowsOfOthersStay(c),
         UNCHANGED <<submitter, reservation, version, assignment, active, repairs, workVars>>,
         Leases', operator' \in [Host -> Operator \cup {NoOne}],
         row[c].state # "none" =>
            /\ row'[c].state # "none" /\ row'[c].revision >= row[c].revision
            /\ row'[c].revision = row[c].revision => row'[c].host = row[c].host /\ row'[c].source = row[c].source,
         row'[c].discarded => row'[c].state = "changes_requested",
         row'[c].state = "none" => row'[c].stage = "awaiting_url",
         row'[c].state # "none" => row'[c].host \in Host,
         \A r \in Used : reservation[r].case = c /\ ~reservation[r].released
            => row'[c].state = "pending" /\ row'[c].revision = row[c].revision,
         Assigned(c) => /\ row'[c].discarded => row[c].discarded
                        /\ row'[c].host = row[c].host /\ row'[c].source = row[c].source,
         \A h \in Host : assignment[h].case # c => operator'[h] = operator[h],
         \A h \in Host : assignment[h].case = c /\ row[c].source = h /\ operator[h] = row[c].responsible
            => operator'[h] = row'[c].responsible,
         LeaseOf(c)', \A d \in Case \ {c} : claim'[d] = claim[d],
         StageOf(c)', Current(c)' => Current(c) \/ OnlyWebsite(c)
  PROVE  Inv'
<1>2. TypeOK'
  <2>1. Bookings' /\ Profiles' /\ Works' /\ submitter' \in Submitters
    BY Typed DEF Bookings, Profiles, Works, workVars
  <2>2. Hosts'
    BY Typed DEF Hosts
  <2> QED
    BY <2>1, <2>2, TypesKept
<1>3. BookingsMove(c) /\ Used' = Used /\ Used \subseteq Reservation
  BY DEF BookingsMove, Same, Used
<1>4. VersionsMove /\ VersionsSound'
  BY <1>3, VersionsStay
<1>5. AssignmentInv'
  <2>1. \A r \in Used : Same(reservation[r], reservation'[r])
    BY DEF Same
  <2> QED
    BY <1>4, <2>1, HostsStay
<1>6. FetchInv'
  BY <1>3, FetchKept DEF Inv, workVars
<1>7. \A r \in Used : ~reservation'[r].released
         => assignment'[reservation[r].host].case \in {NoOne, reservation[r].case}
  BY DEF Inv, Reserving
<1>8. \A d \in Case \ {c} : Assigned(d)' => Assigned(d)
  BY DEF Assigned
<1> QED
  BY <1>2, <1>3, <1>4, <1>5, <1>6, <1>7, <1>8, StepOfCase

LEMMA IntroduceKeeps ==
  ASSUME Inv, NEW c \in Case, NEW h \in Host, Introduce(c, h)
  PROVE  Inv'
<1> DEFINE x == [row[c] EXCEPT !.state = "pending", !.host = h]
<1>1. row[c] \in Row /\ "pending" \in States
  BY Typed DEF States
<1>2. x \in Row
  BY <1>1, RowChanges, Zenon
<1>3. row' = [row EXCEPT ![c] = x]
  BY DEF Introduce
<1>4. /\ x.state = "pending" /\ x.stage = row[c].stage /\ x.discarded = row[c].discarded
      /\ x.revision = row[c].revision /\ x.responsible = row[c].responsible /\ x.host = h
  BY <1>1 DEF Row
<1> HIDE DEF x
<1>5. Rows' /\ row'[c] = x /\ RowsOfOthersStay(c)
  BY <1>2, <1>3, Typed, RowMoves
<1>6. /\ row[c].state = "none" /\ row[c].stage = "awaiting_url" /\ ~row[c].discarded
      /\ CurrentWebsite(submitter[c]) = {}
  BY DEF Introduce, Inv, CaseInv
<1>7. \A r \in Used : reservation[r].case # c
  BY <1>6 DEF Inv, OfItsCase
<1>8. ~Assigned(c) /\ claim[c] = NoClaim
  <2>1. ~Assigned(c)
    BY <1>6, NoOneAssumption DEF Inv, AssignmentInv, AssignedAt, Assigned, NoOneAssumption
  <2>2. claim[c] = NoClaim
    BY <1>6 DEF Inv, LeaseInv, LeaseOf
  <2> QED
    BY <2>1, <2>2
<1>9. StageOf(c)'
  <2>1. OfRevision(c)' = OfRevision(c) /\ OfRevision(c) = {}
    BY <1>4, <1>5, <1>7, OfTheRevision DEF Introduce, OfRevision
  <2> QED
    BY <1>4, <1>5, <1>6, <2>1 DEF StageOf
<1>10. LeaseOf(c)'
  BY <1>8 DEF Introduce, LeaseOf
<1>11. OnlyWebsite(c)
  BY <1>6 DEF OnlyWebsite
<1>12. Leases' /\ operator' \in [Host -> Operator \cup {NoOne}]
  BY Typed DEF Introduce, Leases, Hosts, hostVars
<1>13. UNCHANGED <<submitter, reservation, version, assignment, active, operator, claim, repairs, workVars>>
  BY DEF Introduce, hostVars
<1>14. \A g \in Host : assignment[g].case # c
  BY <1>8 DEF Assigned
<1> QED
  BY <1>4, <1>5, <1>6, <1>7, <1>8, <1>9, <1>10, <1>11, <1>12, <1>13, <1>14, RowStep

LEMMA ResubmitKeeps ==
  ASSUME Inv, NEW c \in Case, NEW h \in Host, Resubmit(c, h)
  PROVE  Inv'
<1> DEFINE n == row[c].revision + 1
           x == [row[c] EXCEPT !.state = "pending", !.revision = n, !.host = h,
                               !.stage = "awaiting_url"]
<1>1. row[c] \in Row /\ "pending" \in States /\ "awaiting_url" \in Stages
  BY Typed DEF States, Stages
<1>2. n \in 1..MaxRevision /\ row[c].revision \in Nat
  BY Typed DEF Resubmit
<1>3. x \in Row
  <2> HIDE DEF n
  <2> QED
    BY <1>1, <1>2, RowChanges, Zenon
<1>4. row' = [row EXCEPT ![c] = x]
  BY DEF Resubmit
<1>5. /\ x.state = "pending" /\ x.stage = "awaiting_url" /\ x.discarded = row[c].discarded
      /\ x.revision = row[c].revision + 1 /\ x.responsible = row[c].responsible
      /\ x.host = h /\ x.source = row[c].source
  BY <1>1 DEF Row
<1> HIDE DEF x, n
<1>6. Rows' /\ row'[c] = x /\ RowsOfOthersStay(c)
  BY <1>3, <1>4, Typed, RowMoves
<1>7. /\ row[c].state = "changes_requested" /\ ~row[c].discarded /\ OnlyWebsite(c)
      /\ \A g \in Host : assignment[g].case = c => g = h
  BY DEF Resubmit
<1>8. \A r \in Used : reservation[r].case = c => reservation[r].released
  BY <1>7 DEF Inv, Reserving
<1>9. claim[c] = NoClaim
  BY <1>7 DEF Inv, LeaseInv, LeaseOf
<1>10. Assigned(c) => x.host = row[c].host /\ x.source = row[c].source
  BY <1>5, <1>7, NoOneAssumption DEF Assigned, Inv, AssignmentInv, AssignedAt, NoOneAssumption
<1>11. StageOf(c)'
  <2>1. row'[c].revision \in Nat /\ row'[c].revision > row[c].revision
    BY <1>2, <1>5, <1>6
  <2>2. UNCHANGED reservation
    BY DEF Resubmit
  <2>3. OfRevision(c)' = {}
    BY <2>1, <2>2, OfTheRevision
  <2> QED
    BY <1>5, <1>6, <2>3 DEF StageOf
<1>12. LeaseOf(c)'
  BY <1>9 DEF Resubmit, LeaseOf
<1>13. Leases' /\ operator' \in [Host -> Operator \cup {NoOne}]
  BY Typed DEF Resubmit, Leases, Hosts, hostVars
<1>14. UNCHANGED <<submitter, reservation, version, assignment, active, operator, claim, repairs, workVars>>
  BY DEF Resubmit, hostVars
<1>15. /\ x.state # "none" /\ ~x.discarded /\ x.revision >= row[c].revision
       /\ x.revision # row[c].revision /\ x.host \in Host
  BY <1>2, <1>5, <1>7
<1>16. \A r \in Used : ~(reservation[r].case = c /\ ~reservation[r].released)
  BY <1>8
<1>17. /\ \A g \in Host : operator'[g] = operator[g]
       /\ x.responsible = row[c].responsible
       /\ \A d \in Case : claim'[d] = claim[d]
  BY <1>5, <1>14
<1> QED
  BY <1>6, <1>7, <1>10, <1>11, <1>12, <1>13, <1>14, <1>15, <1>16, <1>17, RowStep

LEMMA DiscardKeeps ==
  ASSUME Inv, NEW c \in Case, Discard(c)
  PROVE  Inv'
<1> DEFINE x == [row[c] EXCEPT !.discarded = TRUE]
<1>1. row[c] \in Row
  BY Typed
<1>2. x \in Row /\ row' = [row EXCEPT ![c] = x]
  BY <1>1 DEF Row, Discard
<1>3. /\ x.state = row[c].state /\ x.stage = row[c].stage
      /\ x.revision = row[c].revision /\ x.responsible = row[c].responsible
      /\ x.host = row[c].host /\ x.source = row[c].source
  BY <1>1 DEF Row
<1>4. x.discarded
  BY <1>1 DEF Row
<1> HIDE DEF x
<1>5. Rows' /\ row'[c] = x /\ RowsOfOthersStay(c)
  BY <1>2, Typed, RowMoves
<1>6. row[c].state = "changes_requested" /\ ~Assigned(c) /\ row[c].revision \in Nat
  BY Typed DEF Discard
<1>7. \A r \in Used : reservation[r].case = c => reservation[r].released
  BY <1>6 DEF Inv, Reserving
<1>8. claim[c] = NoClaim
  BY <1>6 DEF Inv, LeaseInv, LeaseOf
<1>9. StageOf(c)' /\ LeaseOf(c)'
  BY <1>3, <1>5, <1>6, <1>8 DEF StageOf, LeaseOf, Discard
<1>10. Leases' /\ operator' \in [Host -> Operator \cup {NoOne}]
  BY Typed DEF Discard, Leases, Hosts, hostVars
<1>11. UNCHANGED <<submitter, reservation, version, assignment, active, operator, claim, repairs, workVars>>
  BY DEF Discard, hostVars
<1>12. ~Current(c)'
  BY <1>4, <1>5, <1>6, <1>11 DEF Current, IsOpen, Assigned
<1>13. x.state = "changes_requested" /\ x.revision >= row[c].revision /\ x.host \in Host
  BY <1>3, <1>6 DEF Inv, CaseInv
<1>14. \A r \in Used : ~(reservation[r].case = c /\ ~reservation[r].released)
  BY <1>7
<1>15. /\ \A g \in Host : operator'[g] = operator[g]
       /\ \A d \in Case : claim'[d] = claim[d]
  BY <1>11
<1> QED
  BY <1>3, <1>5, <1>6, <1>9, <1>10, <1>11, <1>12, <1>13, <1>14, <1>15, RowStep

(* What a transfer does, however it came about                              *)
LEMMA TransferKeeps ==
  ASSUME Inv, NEW c \in Case, NEW o \in Operator \cup {NoOne}, row[c].state # "none",
         row[c].transfers < MaxTransfers,
         row' = Transferred(c, o), operator' = OperatorOf(c, o),
         UNCHANGED <<submitter, reservation, version, assignment, active, repairs, workVars>>,
         Leases', \A d \in Case \ {c} : claim'[d] = claim[d],
         claim'[c] # NoClaim => /\ claim'[c].by \in Operator /\ claim'[c].by = o
                                /\ row[c].state = "pending" /\ claim'[c].revision = row[c].revision
  PROVE  Inv'
<1> DEFINE n == row[c].transfers + 1
           x == [row[c] EXCEPT !.responsible = o, !.transfers = n]
<1>1. row[c] \in Row /\ row[c].revision \in Nat
  BY Typed
<1>2. n \in 0..MaxTransfers
  BY Typed
<1>3. x \in Row
  <2> HIDE DEF n
  <2> QED
    BY <1>1, <1>2, RowChanges, Zenon
<1>4. row' = [row EXCEPT ![c] = x]
  BY DEF Transferred
<1>5. /\ x.state = row[c].state /\ x.stage = row[c].stage /\ x.discarded = row[c].discarded
      /\ x.revision = row[c].revision /\ x.responsible = o
      /\ x.host = row[c].host /\ x.source = row[c].source
  BY <1>1 DEF Row
<1> HIDE DEF x, n
<1>6. Rows' /\ row'[c] = x /\ RowsOfOthersStay(c)
  BY <1>3, <1>4, Typed, RowMoves
<1>7. \A r \in Used : reservation[r].case = c /\ ~reservation[r].released
         => x.state = "pending" /\ x.revision = row[c].revision
  BY <1>5 DEF Inv, Reserving
<1>8. StageOf(c)'
  <2>1. /\ OfRevision(c)' = OfRevision(c)
        /\ \A r \in OfRevision(c) : Live(r)' = Live(r) /\ reservation'[r] = reservation[r]
    BY <1>5, <1>6, OfTheRevision DEF OfRevision, Used
  <2> QED
    BY <1>5, <1>6, <2>1 DEF StageOf, Inv, StageInv
<1>9. LeaseOf(c)'
  BY <1>5, <1>6 DEF LeaseOf, NoClaim
<1>10. operator' \in [Host -> Operator \cup {NoOne}]
  BY Typed DEF OperatorOf, Hosts
<1>11. /\ \A h \in Host : assignment[h].case # c => operator'[h] = operator[h]
       /\ \A h \in Host : assignment[h].case = c /\ row[c].source = h => operator'[h] = o
  BY DEF OperatorOf
<1>12. Current(c)' => Current(c)
  BY <1>5, <1>6 DEF Current, IsOpen, Assigned
<1>13. (x.discarded => x.state = "changes_requested") /\ (x.state = "none" => x.stage = "awaiting_url")
  BY <1>5 DEF Inv, CaseInv
<1>14. /\ x.state # "none" /\ x.revision >= row[c].revision
       /\ x.host = row[c].host /\ x.source = row[c].source
       /\ x.discarded => row[c].discarded
       /\ x.host \in Host
  BY <1>1, <1>5 DEF Inv, CaseInv
<1>15. /\ \A h \in Host : assignment[h].case # c => operator'[h] = operator[h]
       /\ \A h \in Host : assignment[h].case = c /\ row[c].source = h /\ operator[h] = row[c].responsible
             => operator'[h] = x.responsible
  BY <1>5, <1>11
<1> QED
  BY <1>6, <1>7, <1>8, <1>9, <1>10, <1>12, <1>13, <1>14, <1>15, RowStep

\* A case that somebody can take has nobody who holds its claim.
LEMMA Unclaimed ==
  ASSUME Inv, NEW c \in Case, row[c].responsible = NoOne
  PROVE  claim[c] = NoClaim
BY NoOneAssumption DEF Inv, LeaseInv, LeaseOf, NoOneAssumption

LEMMA TakeKeeps ==
  ASSUME Inv, NEW c \in Case, NEW o \in Operator, Take(c, o)
  PROVE  Inv'
<1>1. row[c].state # "none"
  BY NoOneAssumption DEF Take, Assigned, Inv, AssignmentInv, AssignedAt, NoOneAssumption
<1>2. claim[c] = NoClaim
  BY Unclaimed DEF Take
<1>3. Leases'
  BY Typed DEF Take, Leases
<1> QED
  BY <1>1, <1>2, <1>3, TransferKeeps DEF Take

LEMMA ClaimKeeps ==
  ASSUME Inv, NEW c \in Case, NEW o \in Operator, Claim(c, o)
  PROVE  Inv'
<1>1. row[c] \in Row /\ row[c].revision \in 1..MaxRevision /\ row[c].state = "pending"
      /\ ~row[c].discarded /\ row[c].host \in Host
  BY Typed DEF Claim, Inv, CaseInv
<1>2. /\ Leases' /\ \A d \in Case \ {c} : claim'[d] = claim[d]
      /\ claim'[c].by = o
      /\ claim'[c].revision = row[c].revision \/ claim'[c] = claim[c]
  <2>1. Leases /\ Renewed(o, c, row[c].revision)
    BY Typed DEF Claim, Renewed
  <2> QED
    BY <1>1, <2>1, LeasesDo
<1>3. claim'[c] = claim[c] => claim[c].revision = row[c].revision
  BY <1>2, NoOneAssumption DEF Inv, LeaseInv, LeaseOf, NoClaim, NoOneAssumption
<1>4. CASE row[c].responsible = o /\ UNCHANGED <<row, operator>>
  <2>1. Rows' /\ RowsOfOthersStay(c) /\ row'[c] = row[c]
    BY <1>4, Typed DEF Rows, RowsOfOthersStay
  <2>2. LeaseOf(c)'
    BY <1>1, <1>2, <1>3, <1>4 DEF LeaseOf
  <2>3. StageOf(c)'
    <3>1. /\ OfRevision(c)' = OfRevision(c)
          /\ \A r \in OfRevision(c) : Live(r)' = Live(r)
      BY <1>4, OfTheRevision DEF OfRevision, Used, Claim
    <3> QED
      BY <1>4, <3>1 DEF StageOf, Inv, StageInv, Claim
  <2>4. Current(c)' => Current(c)
    BY <1>4 DEF Current, IsOpen, Assigned, Claim
  <2>5. operator' \in [Host -> Operator \cup {NoOne}]
    BY <1>4, Typed DEF Hosts
  <2>6. \A r \in Used : reservation[r].case = c /\ ~reservation[r].released => row[c].state = "pending"
    BY <1>1
  <2>7. \A h \in Host : operator'[h] = operator[h]
    BY <1>4
  <2>8. UNCHANGED <<submitter, reservation, version, assignment, active, repairs, workVars>>
    BY DEF Claim
  <2>9. row[c].revision >= row[c].revision
    BY <1>1
  <2> QED
    BY <1>1, <1>2, <2>1, <2>2, <2>3, <2>4, <2>5, <2>6, <2>7, <2>8, <2>9, RowStep
<1>5. CASE /\ row[c].responsible = NoOne /\ row[c].transfers < MaxTransfers
           /\ row' = Transferred(c, o) /\ operator' = OperatorOf(c, o)
  <2>1. claim'[c].revision = row[c].revision
    BY <1>2, <1>3
  <2> QED
    BY <1>1, <1>2, <1>5, <2>1, TransferKeeps DEF Claim
<1> QED
  BY <1>4, <1>5 DEF Claim

LEMMA ReassignKeeps ==
  ASSUME Inv, NEW c \in Case, NEW o \in Operator \cup {NoOne}, Reassign(c, o)
  PROVE  Inv'
<1>1. Leases' /\ claim'[c] = NoClaim /\ \A d \in Case \ {c} : claim'[d] = claim[d]
  BY Typed, LeaseEnded DEF Reassign
<1> QED
  BY <1>1, TransferKeeps DEF Reassign

-----------------------------------------------------------------------------
(* Discovery, and what else moves reservations or versions of a case.       *)

\* The reservations that the stages of a Discovery write
LEMMA BookingChanges ==
  ASSUME NEW x \in Booking
  PROVE  /\ [x EXCEPT !.started = TRUE, !.stale = FALSE] \in Booking
         /\ \A n \in 0..MaxGenerations :
               [x EXCEPT !.generation = n, !.started = FALSE, !.checkpoint = TRUE] \in Booking
         /\ [x EXCEPT !.completed = TRUE, !.checkpoint = FALSE] \in Booking
         /\ [x EXCEPT !.completed = TRUE, !.released = TRUE, !.checkpoint = FALSE] \in Booking
<1>1. [x EXCEPT !.started = TRUE, !.stale = FALSE] \in Booking
  <2> DEFINE z == [x EXCEPT !.started = TRUE]
  <2>1. z \in Booking
    BY BookingFields
  <2>2. [z EXCEPT !.stale = FALSE] \in Booking
    <3> HIDE DEF z
    <3> QED
      BY <2>1, BookingFields
  <2> QED
    BY <2>2
<1>2. ASSUME NEW n \in 0..MaxGenerations
      PROVE  [x EXCEPT !.generation = n, !.started = FALSE, !.checkpoint = TRUE] \in Booking
  <2> DEFINE z == [x EXCEPT !.generation = n]
             y == [z EXCEPT !.started = FALSE]
  <2>1. z \in Booking
    BY BookingFields
  <2>2. y \in Booking
    <3> HIDE DEF z
    <3> QED
      BY <2>1, BookingFields
  <2>3. [y EXCEPT !.checkpoint = TRUE] \in Booking
    <3> HIDE DEF y
    <3> QED
      BY <2>2, BookingFields
  <2> QED
    BY <2>3
<1> DEFINE w == [x EXCEPT !.completed = TRUE]
           v == [w EXCEPT !.released = TRUE]
<1>3. w \in Booking
  BY BookingFields
<1>4. v \in Booking /\ [w EXCEPT !.checkpoint = FALSE] \in Booking
  <2> HIDE DEF w
  <2> QED
    BY <1>3, BookingFields
<1>5. [v EXCEPT !.checkpoint = FALSE] \in Booking
  <2> HIDE DEF v
  <2> QED
    BY <1>4, BookingFields
<1> QED
  BY <1>1, <1>2, <1>4, <1>5, Zenon

\* One reservation moves.
LEMMA OneMoves ==
  ASSUME Inv, NEW r \in Reservation, NEW y \in Booking, Same(reservation[r], y),
         reservation' = [reservation EXCEPT ![r] = y]
  PROVE  /\ Bookings' /\ BookingsMove(reservation[r].case) /\ Used' = Used
         /\ reservation'[r] = y /\ \A q \in Reservation \ {r} : reservation'[q] = reservation[q]
<1>1. Bookings' /\ reservation'[r] = y
      /\ \A q \in Reservation \ {r} : reservation'[q] = reservation[q]
  BY Typed DEF Bookings
<1> QED
  BY <1>1 DEF BookingsMove, Same, Used

\* The last reservation of a case is the only one that may hold a host.
LEMMA TheOnlyOne ==
  ASSUME Inv, NEW r \in Used, NEW q \in Used, ~reservation[r].released, ~reservation[q].released,
         reservation[q].case = reservation[r].case
  PROVE  q = r
<1>1. r <= q /\ q <= r /\ r \in Nat /\ q \in Nat
  BY Typed DEF Inv, Reserving, Reservation
<1> QED
  BY <1>1

\* Nothing of a case is written but its stage.
OnlyStage(c) ==
    /\ row'[c].state = row[c].state /\ row'[c].discarded = row[c].discarded
    /\ row'[c].revision = row[c].revision /\ row'[c].responsible = row[c].responsible
    /\ row'[c].host = row[c].host /\ row'[c].source = row[c].source

(* A step that writes reservations, versions, the stage or the claim of a case *)
LEMMA StageStep ==
  ASSUME Inv, NEW c \in Case, Rows', RowsOfOthersStay(c), OnlyStage(c),
         row[c].state = "none" => row'[c].stage = row[c].stage,
         Bookings', BookingsMove(c), UNCHANGED <<submitter, hostVars>>,
         Leases', \A d \in Case \ {c} : claim'[d] = claim[d], LeaseOf(c)',
         Profiles', VersionsMove, VersionsSound', Works', StageOf(c)', FetchInv'
  PROVE  Inv'
<1>1. TypeOK'
  <2>1. submitter' \in Submitters /\ Hosts'
    BY Typed DEF Hosts, hostVars
  <2> QED
    BY <2>1, TypesKept
<1>2. Used \subseteq Reservation /\ \A r \in Used : Same(reservation[r], reservation'[r])
  BY DEF BookingsMove, Used
<1>3. AssignmentInv'
  <2>1. row[c].state # "none" => row'[c].state # "none"
    BY DEF OnlyStage
  <2>2. \A h \in Host : operator[h] = row[c].responsible => operator'[h] = row'[c].responsible
    BY DEF OnlyStage, hostVars
  <2> QED
    BY <1>2, <2>1, <2>2, HostsStay DEF OnlyStage, hostVars
<1>4. \A r \in Used : ~reservation'[r].released => ~reservation[r].released
  BY <1>2 DEF Same
<1>5. \A r \in Used : reservation[r].case = c /\ ~reservation'[r].released
         => row'[c].state = "pending" /\ row'[c].revision = row[c].revision
  BY <1>4 DEF OnlyStage, Inv, Reserving
<1>6. \A r \in Used : ~reservation'[r].released
         => assignment'[reservation[r].host].case \in {NoOne, reservation[r].case}
  BY <1>4 DEF hostVars, Inv, Reserving
<1>7. /\ row[c].state # "none" =>
            /\ row'[c].state # "none" /\ row'[c].revision >= row[c].revision
            /\ row'[c].host = row[c].host /\ row'[c].source = row[c].source
      /\ row'[c].discarded => row'[c].state = "changes_requested"
      /\ row'[c].state = "none" => row'[c].stage = "awaiting_url"
      /\ row'[c].state # "none" => row'[c].host \in Host
  BY Typed DEF OnlyStage, Inv, CaseInv
<1>8. (\A d \in Case \ {c} : Assigned(d)' => Assigned(d)) /\ (Current(c)' => Current(c))
  BY DEF Assigned, Current, IsOpen, OnlyStage, hostVars
<1> QED
  BY <1>1, <1>3, <1>5, <1>6, <1>7, <1>8, StepOfCase

\* A step that does not touch the case or its reservations leaves the stage.
LEMMA StageStays ==
  ASSUME Inv, NEW c \in Case, UNCHANGED <<row, reservation>>
  PROVE  StageOf(c)'
<1>1. OfRevision(c)' = OfRevision(c) /\ \A r \in OfRevision(c) : Live(r)' = Live(r)
  BY OfTheRevision DEF OfRevision, Used
<1> QED
  BY <1>1 DEF StageOf, Inv, StageInv

\* The reservations of the current revision move with the others.
LEMMA RevisionStays ==
  ASSUME Inv, NEW c \in Case, BookingsMove(c), OnlyStage(c)
  PROVE  /\ Used' = Used /\ OfRevision(c)' = OfRevision(c)
         /\ \A r \in Used : Live(r)' => ~reservation[r].released
<1>1. Used' = Used /\ Used \subseteq Reservation
  BY DEF Used, BookingsMove, Same
<1>2. OfRevision(c)' = OfRevision(c)
  BY <1>1 DEF OfRevision, BookingsMove, Same, OnlyStage
<1>3. \A r \in Used : Live(r)' => ~reservation[r].released
  BY <1>1 DEF Live, Unreleased, BookingsMove, Same
<1> QED
  BY <1>1, <1>2, <1>3

\* Who fetches, fetches for a reservation that was made.
LEMMA Fetching ==
  ASSUME Inv, NEW m \in Message, fetching[m] > 0
  PROVE  /\ fetching[m] = 1 /\ m.reservation \in Used /\ m.reservation \in Reservation
         /\ reservation[m.reservation].started
         /\ reservation[m.reservation].generation = m.generation
         /\ reservation[m.reservation].case \in Case
         /\ row[reservation[m.reservation].case].state # "none"
<1>1. fetching[m] = 1
  BY DEF Inv, FetchInv
<1> QED
  BY <1>1, Typed DEF Inv, FetchInv, OfItsCase

LEMMA StageWritten ==
  ASSUME Rows, NEW c \in Case, NEW g \in Stages, row' = [row EXCEPT ![c].stage = g]
  PROVE  Rows' /\ RowsOfOthersStay(c) /\ OnlyStage(c) /\ row'[c].stage = g
<1> DEFINE x == [row[c] EXCEPT !.stage = g]
<1>1. row[c] \in Row /\ row' = [row EXCEPT ![c] = x]
  BY DEF Rows
<1>2. /\ x \in Row /\ x.stage = g
      /\ x.state = row[c].state /\ x.discarded = row[c].discarded
      /\ x.revision = row[c].revision /\ x.responsible = row[c].responsible
      /\ x.host = row[c].host /\ x.source = row[c].source
  BY <1>1 DEF Row
<1> HIDE DEF x
<1>3. Rows' /\ row'[c] = x /\ RowsOfOthersStay(c)
  BY <1>1, <1>2, RowMoves
<1> QED
  BY <1>2, <1>3 DEF OnlyStage

\* The rows stay.
LEMMA RowStays ==
  ASSUME Rows, UNCHANGED row, NEW c \in Case
  PROVE  Rows' /\ RowsOfOthersStay(c) /\ OnlyStage(c) /\ row'[c].stage = row[c].stage
BY DEF Rows, RowsOfOthersStay, OnlyStage

\* The claims stay.
LEMMA LeaseStays ==
  ASSUME Inv, UNCHANGED claim, NEW c \in Case, OnlyStage(c)
  PROVE  Leases' /\ LeaseOf(c)' /\ \A d \in Case \ {c} : claim'[d] = claim[d]
BY Typed DEF Leases, LeaseOf, OnlyStage, Inv, LeaseInv

\* The versions stay.
LEMMA ProfilesStay ==
  ASSUME Inv, UNCHANGED version, Used \subseteq Used'
  PROVE  Profiles' /\ VersionsMove /\ VersionsSound'
BY VersionsStay

LEMMA StartKeeps ==
  ASSUME Inv, NEW m \in Message, Start(m)
  PROVE  Inv'
<1> DEFINE r == m.reservation
           y == [reservation[r] EXCEPT !.started = TRUE, !.stale = FALSE]
<1>1. r \in Reservation /\ reservation[r] \in Booking
  BY Typed DEF Message
<1>2. /\ Live(r) /\ ~reservation[r].started /\ ~reservation[r].completed /\ r \in Used
      /\ reservation[r].generation = m.generation /\ ~reservation[r].released
  BY DEF Start, Live, Unreleased
<1>3. PICK c \in Case : c = reservation[r].case
  BY <1>2 DEF Inv, OfItsCase
<1>4. y \in Booking /\ y.started /\ y.completed = reservation[r].completed
      /\ y.generation = reservation[r].generation /\ Same(reservation[r], y)
  <2>1. y \in Booking
    BY <1>1, BookingChanges, Zenon
  <2> QED
    BY <1>1, <2>1 DEF Booking, Same
<1>5. reservation' = [reservation EXCEPT ![r] = y]
  BY <1>1 DEF Start
<1> HIDE DEF y
<1>6. /\ Bookings' /\ BookingsMove(c) /\ Used' = Used
      /\ reservation'[r] = y /\ \A q \in Reservation \ {r} : reservation'[q] = reservation[q]
  BY <1>3, <1>1, <1>4, <1>5, OneMoves
<1>7. c \in Case /\ row[c].state = "pending"
  BY <1>3, <1>2 DEF Inv, OfItsCase, Reserving
<1>8. Rows' /\ RowsOfOthersStay(c) /\ OnlyStage(c) /\ row'[c].stage = "running"
  <2>1. row' = [row EXCEPT ![c].stage = "running"] /\ "running" \in Stages
    BY <1>3 DEF Start, Stages
  <2> QED
    BY <1>7, <2>1, Typed, StageWritten
<1>9. UNCHANGED <<submitter, claim, version, hostVars, repairs, broker>>
  BY DEF Start
<1>10. Leases' /\ LeaseOf(c)' /\ \A d \in Case \ {c} : claim'[d] = claim[d]
  <2> QED
    BY <1>7, <1>8, <1>9, LeaseStays
<1>11. Profiles' /\ VersionsMove /\ VersionsSound'
  BY <1>6, <1>9, ProfilesStay
<1>12. fetching' = [fetching EXCEPT ![m] = @ + 1] /\ fetching \in [Message -> Nat]
  BY Typed DEF Start, Works
<1>13. Works'
  BY <1>9, <1>12, Typed DEF Works
<1>14. StageOf(c)'
  <2>1. OfRevision(c)' = OfRevision(c) /\ r \in OfRevision(c)
    BY <1>3, <1>2, <1>6, <1>7, <1>8, RevisionStays DEF OfRevision, Inv, Reserving
  <2>2. ASSUME NEW q \in OfRevision(c), Live(q)' PROVE q = r
    <3>1. q \in Used /\ reservation[q].case = c /\ ~reservation[q].released
      BY <1>6, <1>7, <1>8, <2>2, RevisionStays DEF OfRevision
    <3> QED
      BY <1>3, <1>2, <3>1, TheOnlyOne
  <2> QED
    BY <1>2, <1>4, <1>6, <1>8, <2>1, <2>2 DEF StageOf
<1>15. FetchInv'
  <2> SUFFICES ASSUME NEW k \in Message
               PROVE  /\ fetching'[k] \in {0, 1}
                      /\ fetching'[k] = 1 =>
                            /\ k.reservation \in Used /\ reservation'[k.reservation].started
                            /\ reservation'[k.reservation].generation = k.generation
    BY <1>6 DEF FetchInv
  <2>1. k.reservation \in Reservation
    BY DEF Message
  <2>2. /\ fetching[k] \in {0, 1}
        /\ fetching[k] = 1 => /\ k.reservation \in Used /\ reservation[k.reservation].started
                              /\ reservation[k.reservation].generation = k.generation
    BY DEF Inv, FetchInv
  <2>3. CASE k = m
    BY <1>2, <1>4, <1>6, <1>12, <2>2, <2>3
  <2>4. CASE k # m
    BY <1>2, <1>6, <1>12, <2>1, <2>2, <2>4
  <2> QED
    BY <2>3, <2>4
<1> QED
  BY <1>6, <1>7, <1>8, <1>9, <1>10, <1>11, <1>13, <1>14, <1>15, StageStep

\* A worker that ends leaves none at its reservation.
LEMMA WorkerEnds ==
  ASSUME Inv, NEW m \in Message, fetching[m] > 0, fetching' = [fetching EXCEPT ![m] = @ - 1],
         Used' = Used,
         \A q \in Used \ {m.reservation} : /\ reservation'[q].started = reservation[q].started
                                          /\ reservation'[q].generation = reservation[q].generation
  PROVE  FetchInv' /\ fetching' \in [Message -> Nat]
<1>1. fetching \in [Message -> Nat] /\ fetching[m] = 1
  BY Typed, Fetching DEF Works
<1>2. fetching' \in [Message -> Nat] /\ fetching'[m] = 0
      /\ \A k \in Message \ {m} : fetching'[k] = fetching[k]
  BY <1>1
<1>3. ASSUME NEW k \in Message \ {m}, fetching[k] = 1
      PROVE  k.reservation # m.reservation
  <2>1. k.reservation = m.reservation => k.generation = m.generation
    BY <1>1, <1>3 DEF Inv, FetchInv
  <2> QED
    BY <2>1 DEF Message
<1> SUFFICES ASSUME NEW k \in Message
             PROVE  /\ fetching'[k] \in {0, 1}
                    /\ fetching'[k] = 1 =>
                          /\ k.reservation \in Used /\ reservation'[k.reservation].started
                          /\ reservation'[k.reservation].generation = k.generation
  BY <1>2 DEF FetchInv
<1>4. /\ fetching[k] \in {0, 1}
      /\ fetching[k] = 1 => /\ k.reservation \in Used /\ reservation[k.reservation].started
                            /\ reservation[k.reservation].generation = k.generation
  BY DEF Inv, FetchInv
<1>5. CASE k = m
  BY <1>2, <1>5
<1>6. CASE k # m
  BY <1>2, <1>3, <1>4, <1>6
<1> QED
  BY <1>5, <1>6

LEMMA CheckpointKeeps ==
  ASSUME Inv, NEW m \in Message, Checkpoint(m)
  PROVE  Inv'
<1> DEFINE r == m.reservation
           n == reservation[r].generation + 1
           y == [reservation[r] EXCEPT !.generation = n, !.started = FALSE, !.checkpoint = TRUE]
<1>0. PICK c \in Case : c = reservation[r].case
  BY Fetching DEF Checkpoint
<1> DEFINE goes == /\ reservation[r].generation = m.generation /\ ~reservation[r].completed
                   /\ Live(r) /\ row[c].revision = reservation[r].revision
<1>1. r \in Reservation /\ reservation[r] \in Booking /\ r \in Used /\ row[c].state # "none"
  BY <1>0, Typed, Fetching DEF Message, Checkpoint
<1>2. UNCHANGED <<submitter, claim, version, hostVars, repairs>>
  BY DEF Checkpoint
<1>3. /\ BookingsMove(c) /\ Bookings' /\ Used' = Used
      /\ \A q \in Reservation \ {r} : reservation'[q] = reservation[q]
      /\ goes => ~reservation'[r].completed /\ ~reservation'[r].started
      /\ ~goes => UNCHANGED reservation
  <2>1. CASE goes
    <3>1. n \in 0..MaxGenerations
      BY <1>0, <2>1, Typed DEF Checkpoint, Message
    <3>2. y \in Booking
      <4> HIDE DEF n
      <4> QED
        BY <1>1, <3>1, BookingChanges, Zenon
    <3>3. y.completed = reservation[r].completed /\ ~y.started /\ Same(reservation[r], y)
      BY <1>1 DEF Booking, Same
    <3>4. reservation' = [reservation EXCEPT ![r] = y]
      BY <1>0, <2>1, <1>1 DEF Checkpoint
    <3> HIDE DEF y
    <3> QED
      BY <1>0, <1>1, <2>1, <3>2, <3>3, <3>4, OneMoves
  <2>2. CASE ~goes
    <3>1. UNCHANGED reservation
      BY <1>0, <2>2 DEF Checkpoint
    <3> QED
      BY <2>2, <3>1, Typed DEF Bookings, BookingsMove, Same, Used
  <2> QED
    BY <2>1, <2>2
<1>4. /\ Rows' /\ RowsOfOthersStay(c) /\ OnlyStage(c)
      /\ goes => row'[c].stage = "queued"
      /\ ~goes => UNCHANGED row
  <2>1. CASE goes
    <3>1. row' = [row EXCEPT ![c].stage = "queued"] /\ "queued" \in Stages
      BY <1>0, <2>1 DEF Checkpoint, Stages
    <3> QED
      BY <1>1, <2>1, <3>1, Typed, StageWritten
  <2>2. CASE ~goes
    <3>1. UNCHANGED row
      BY <1>0, <2>2 DEF Checkpoint
    <3> HIDE DEF goes
    <3> QED
      BY <1>1, <2>2, <3>1, Typed, RowStays
  <2> QED
    BY <2>1, <2>2
<1>5. Leases' /\ LeaseOf(c)' /\ \A d \in Case \ {c} : claim'[d] = claim[d]
  <2> QED
    BY <1>1, <1>2, <1>4, LeaseStays
<1>6. Profiles' /\ VersionsMove /\ VersionsSound'
  BY <1>2, <1>3, ProfilesStay
<1>7. FetchInv' /\ fetching' \in [Message -> Nat]
  BY <1>1, <1>3, WorkerEnds DEF Checkpoint, Used
<1>8. Works'
  <2>1. broker' \subseteq Message
    <3>1. CASE goes
      <4>1. m.generation + 1 \in 0..MaxGenerations
        BY <1>0, <3>1, Typed DEF Checkpoint, Message
      <4> QED
        BY <1>0, <1>1, <3>1, <4>1, Typed DEF Checkpoint, MaySend, Message, Works
    <3>2. CASE ~goes
      BY <1>0, <3>2, Typed DEF Checkpoint, Works
    <3> QED
      BY <3>1, <3>2
  <2> QED
    BY <1>2, <1>7, <2>1, Typed DEF Works
<1>9. StageOf(c)'
  <2>1. CASE goes
    <3>1. OfRevision(c)' = OfRevision(c) /\ r \in OfRevision(c)
      BY <1>0, <1>1, <1>3, <1>4, <2>1, RevisionStays DEF OfRevision
    <3>2. ASSUME NEW q \in OfRevision(c), Live(q)' PROVE q = r
      <4>1. q \in Used /\ reservation[q].case = c /\ ~reservation[q].released
        BY <1>1, <1>3, <1>4, <3>2, RevisionStays DEF OfRevision
      <4> QED
        BY <1>0, <1>1, <2>1, <4>1, TheOnlyOne DEF Live, Unreleased
    <3> QED
      BY <1>3, <1>4, <2>1, <3>1, <3>2 DEF StageOf
  <2>2. CASE ~goes
    <3> HIDE DEF goes
    <3> QED
      BY <1>1, <1>3, <1>4, <2>2, StageStays
  <2> QED
    BY <2>1, <2>2
<1> QED
  BY <1>1, <1>2, <1>3, <1>4, <1>5, <1>6, <1>7, <1>8, <1>9, StageStep

\* A reservation completed: nothing else of it moves.
Completed(r) == [reservation EXCEPT ![r] = [@ EXCEPT !.completed = TRUE, !.checkpoint = FALSE]]

LEMMA CompletedDoes ==
  ASSUME Inv, NEW r \in Reservation
  PROVE  /\ Completed(r) \in [Reservation -> Booking]
         /\ Completed(r)[r].completed
         /\ Completed(r)[r].expired = reservation[r].expired
         /\ \A q \in Reservation :
               /\ Same(reservation[q], Completed(r)[q])
               /\ Completed(r)[q].started = reservation[q].started
               /\ Completed(r)[q].generation = reservation[q].generation
               /\ Completed(r)[q].released = reservation[q].released
               /\ q # r => Completed(r)[q] = reservation[q]
<1> DEFINE y == [reservation[r] EXCEPT !.completed = TRUE, !.checkpoint = FALSE]
<1>1. reservation[r] \in Booking /\ reservation \in [Reservation -> Booking]
  BY Typed DEF Bookings
<1>2. y \in Booking
  BY <1>1, BookingChanges, Zenon
<1>3. /\ y.completed /\ Same(reservation[r], y) /\ y.expired = reservation[r].expired
      /\ y.started = reservation[r].started /\ y.generation = reservation[r].generation
      /\ y.released = reservation[r].released
  BY <1>1 DEF Booking, Same
<1>4. Completed(r) = [reservation EXCEPT ![r] = y]
  BY DEF Completed
<1> HIDE DEF y
<1>5. /\ Completed(r) \in [Reservation -> Booking] /\ Completed(r)[r] = y
      /\ \A q \in Reservation \ {r} : Completed(r)[q] = reservation[q]
  BY <1>1, <1>2, <1>4
<1> QED
  BY <1>3, <1>5 DEF Same

LEMMA FinishKeeps ==
  ASSUME Inv, NEW m \in Message, NEW outcome \in {"profile", "nothing", "failed"},
         Finish(m, outcome)
  PROVE  Inv'
<1> DEFINE r == m.reservation
<1>0. PICK c \in Case : c = reservation[r].case
  BY Fetching DEF Finish
<1> DEFINE mine == ~reservation[r].completed /\ reservation[r].generation = m.generation
           current == Live(r) /\ row[c].revision = reservation[r].revision
<1>1. r \in Reservation /\ reservation[r] \in Booking /\ r \in Used /\ row[c].state # "none"
  BY <1>0, Typed, Fetching DEF Message, Finish
<1>2. UNCHANGED <<submitter, claim, hostVars, repairs, broker>>
  BY DEF Finish
<1>3. /\ ~mine => UNCHANGED reservation
      /\ mine => reservation' = IF current /\ outcome = "failed" THEN Release(Completed(r), c)
                                ELSE Completed(r)
  BY <1>0 DEF Finish, Completed
<1>4. /\ Bookings'
      /\ \A q \in Reservation :
            /\ Same(reservation[q], reservation'[q])
            /\ reservation[q].case # c => reservation'[q] = reservation[q]
            /\ reservation'[q].started = reservation[q].started
            /\ reservation'[q].generation = reservation[q].generation
            /\ mine /\ current /\ outcome = "failed" /\ reservation[q].case = c
                  => reservation'[q].released
            /\ q # r /\ ~(mine /\ current /\ outcome = "failed") => reservation'[q] = reservation[q]
      /\ mine /\ ~(current /\ outcome = "failed") =>
            /\ reservation'[r].completed
            /\ reservation'[r].released = reservation[r].released
            /\ reservation'[r].expired = reservation[r].expired
  <2>1. CASE ~mine
    BY <1>3, <2>1, Typed DEF Bookings, Same
  <2>2. CASE mine /\ current /\ outcome = "failed"
    <3> DEFINE F == Completed(r)
    <3>1. /\ F \in [Reservation -> Booking]
          /\ \A q \in Reservation :
                /\ Same(reservation[q], F[q])
                /\ F[q].started = reservation[q].started
                /\ F[q].generation = reservation[q].generation
                /\ q # r => F[q] = reservation[q]
      BY <1>1, CompletedDoes
    <3> HIDE DEF F
    <3>2. /\ Release(F, c) \in [Reservation -> Booking]
          /\ \A q \in Reservation :
                /\ Same(F[q], Release(F, c)[q])
                /\ F[q].case = c => Release(F, c)[q].released
                /\ F[q].case # c => Release(F, c)[q] = F[q]
                /\ Release(F, c)[q].started = F[q].started
                /\ Release(F, c)[q].generation = F[q].generation
      BY <3>1, ReleaseDoes
    <3>3. reservation' = Release(F, c)
      BY <1>3, <2>2 DEF F
    <3> QED
      BY <1>0, <2>2, <3>1, <3>2, <3>3 DEF Same, Bookings
  <2>3. CASE mine /\ ~(current /\ outcome = "failed")
    <3>1. reservation' = Completed(r)
      BY <1>3, <2>3
    <3> QED
      BY <1>0, <1>1, <2>3, <3>1, CompletedDoes DEF Bookings
  <2> QED
    BY <2>1, <2>2, <2>3
<1>5. BookingsMove(c) /\ Used' = Used
  BY <1>4 DEF BookingsMove, Same, Used
<1>6. /\ Rows' /\ RowsOfOthersStay(c) /\ OnlyStage(c)
      /\ mine /\ current => row'[c].stage = IF outcome = "failed" THEN "failed" ELSE "complete"
      /\ ~(mine /\ current) => UNCHANGED row
  <2>1. CASE mine /\ current
    <3> DEFINE g == IF outcome = "failed" THEN "failed" ELSE "complete"
    <3>1. row' = [row EXCEPT ![c].stage = g] /\ g \in Stages
      BY <1>0, <2>1 DEF Finish, Stages
    <3> HIDE DEF g
    <3>2. Rows' /\ RowsOfOthersStay(c) /\ OnlyStage(c) /\ row'[c].stage = g
      BY <3>1, Typed, StageWritten
    <3> QED
      BY <2>1, <3>2 DEF g
  <2>2. CASE ~(mine /\ current)
    <3>1. UNCHANGED row
      BY <1>0, <2>2 DEF Finish
    <3> HIDE DEF mine, current
    <3> QED
      BY <2>2, <3>1, Typed, RowStays
  <2> QED
    BY <2>1, <2>2
<1>7. Leases' /\ LeaseOf(c)' /\ \A d \in Case \ {c} : claim'[d] = claim[d]
  BY <1>2, <1>6, LeaseStays
<1>8. Profiles' /\ VersionsMove /\ VersionsSound'
  <2>1. CASE mine /\ current /\ outcome = "profile"
    <3>1. version' = NewVersion(r) /\ Room /\ Live(r)
      BY <1>0, <2>1 DEF Finish
    <3> QED
      BY <1>1, <1>5, <3>1, VersionAdded
  <2>2. CASE ~(mine /\ current /\ outcome = "profile")
    <3>1. version' = version
      BY <1>0, <2>2 DEF Finish
    <3> QED
      BY <1>5, <3>1, ProfilesStay
  <2> QED
    BY <2>1, <2>2
<1>9. FetchInv' /\ fetching' \in [Message -> Nat]
  BY <1>4, <1>5, WorkerEnds DEF Finish, Used
<1>10. Works'
  BY <1>2, <1>9, Typed DEF Works
<1>11. OfRevision(c)' = OfRevision(c) /\ \A q \in Used : Live(q)' => ~reservation[q].released
  BY <1>5, <1>6, RevisionStays
<1>12. StageOf(c)'
  <2>1. CASE mine /\ current
    <3>1. r \in OfRevision(c)
      BY <1>0, <1>1, <2>1 DEF OfRevision
    <3>2. ASSUME NEW q \in OfRevision(c), Live(q)' PROVE q = r /\ outcome # "failed"
      <4>1. q \in Used /\ reservation[q].case = c /\ ~reservation[q].released /\ ~reservation'[q].released
        BY <1>11, <3>2 DEF OfRevision, Live, Unreleased
      <4>2. q = r
        BY <1>0, <1>1, <2>1, <4>1, TheOnlyOne DEF Live, Unreleased
      <4> QED
        BY <1>1, <1>4, <2>1, <4>1, <4>2
    <3> QED
      BY <1>4, <1>6, <1>11, <2>1, <3>1, <3>2 DEF StageOf
  <2>2. CASE mine /\ ~current
    <3>1. UNCHANGED row /\ \A q \in Reservation \ {r} : reservation'[q] = reservation[q]
      BY <1>4, <1>6, <2>2
    <3>2. ~Live(r)
      BY <1>0, <1>1, <2>2 DEF Inv, Reserving, Live, Unreleased
    <3>3. ~Live(r)'
      BY <1>1, <1>4, <1>5, <2>2, <3>2 DEF Live, Unreleased
    <3>4. \A q \in OfRevision(c) : Live(q)' => Live(q) /\ reservation'[q] = reservation[q]
      BY <1>5, <3>1, <3>3 DEF OfRevision, Live, Unreleased, Used
    <3> QED
      BY <1>11, <3>1, <3>4 DEF StageOf, Inv, StageInv
  <2>3. CASE ~mine
    <3>1. UNCHANGED <<row, reservation>>
      BY <1>3, <1>6, <2>3
    <3> HIDE DEF mine
    <3> QED
      BY <3>1, StageStays
  <2> QED
    BY <2>1, <2>2, <2>3
<1> QED
  BY <1>1, <1>2, <1>4, <1>5, <1>6, <1>7, <1>8, <1>9, <1>10, <1>12, StageStep

LEMMA LoseWorkerKeeps ==
  ASSUME Inv, NEW m \in Message, LoseWorker(m)
  PROVE  Inv'
<1>0. PICK c \in Case : c = reservation[m.reservation].case
  BY Fetching DEF LoseWorker
<1>1. UNCHANGED <<submitter, row, claim, reservation, version, hostVars, repairs, broker>>
  BY DEF LoseWorker, caseVars
<1>2. Bookings' /\ BookingsMove(c) /\ Used' = Used
  BY <1>1, Typed DEF Bookings, BookingsMove, Same, Used
<1>3. Rows' /\ RowsOfOthersStay(c) /\ OnlyStage(c) /\ row'[c].stage = row[c].stage
  BY <1>1, Typed, RowStays
<1>4. Leases' /\ LeaseOf(c)' /\ \A d \in Case \ {c} : claim'[d] = claim[d]
  BY <1>1, <1>3, LeaseStays
<1>5. Profiles' /\ VersionsMove /\ VersionsSound'
  BY <1>1, <1>2, ProfilesStay
<1>6. FetchInv' /\ fetching' \in [Message -> Nat]
  BY <1>1, <1>2, WorkerEnds DEF LoseWorker
<1>7. Works'
  BY <1>1, <1>6, Typed DEF Works
<1>8. StageOf(c)'
  BY <1>1, StageStays
<1> QED
  BY <1>1, <1>2, <1>3, <1>4, <1>5, <1>6, <1>7, <1>8, StageStep

-----------------------------------------------------------------------------
(* Deadlines and maintenance.                                               *)

(* A step that moves one reservation, leaves its slice to who fetches, and  *)
(* has no claim, version, host or message to write.                         *)
LEMMA DeadlineStep ==
  ASSUME Inv, NEW r \in Used, NEW y \in Booking, Same(reservation[r], y),
         y.started = reservation[r].started, y.generation = reservation[r].generation,
         reservation' = [reservation EXCEPT ![r] = y],
         NEW c \in Case, c = reservation[r].case,
         Rows', RowsOfOthersStay(c), OnlyStage(c),
         UNCHANGED <<submitter, claim, version, hostVars, repairs, workVars>>,
         StageOf(c)'
  PROVE  Inv'
<1>1. r \in Reservation /\ row[c].state # "none"
  BY Typed DEF Inv, OfItsCase
<1>2. /\ Bookings' /\ BookingsMove(c) /\ Used' = Used
      /\ reservation'[r] = y /\ \A q \in Reservation \ {r} : reservation'[q] = reservation[q]
  BY <1>1, OneMoves
<1>3. Leases' /\ LeaseOf(c)' /\ \A d \in Case \ {c} : claim'[d] = claim[d]
  BY LeaseStays
<1>4. Profiles' /\ VersionsMove /\ VersionsSound'
  BY <1>2, ProfilesStay
<1>5. FetchInv' /\ Works'
  <2>1. \A q \in Used : /\ reservation'[q].started = reservation[q].started
                        /\ reservation'[q].generation = reservation[q].generation
    BY <1>2 DEF Used
  <2> QED
    BY <1>2, <2>1, FetchKept, Typed DEF Inv, Works, workVars
<1> QED
  BY <1>1, <1>2, <1>3, <1>4, <1>5, StageStep

LEMMA GrowStaleKeeps ==
  ASSUME Inv, NEW r \in Reservation, GrowStale(r)
  PROVE  Inv'
<1> DEFINE y == [reservation[r] EXCEPT !.stale = TRUE]
<1>1. r \in Used /\ reservation[r] \in Booking
  BY Typed DEF GrowStale, Unreleased
<1>2. PICK c \in Case : c = reservation[r].case
  BY <1>1 DEF Inv, OfItsCase
<1>3. y \in Booking
  BY <1>1, BookingFields
<1>4. /\ Same(reservation[r], y) /\ y.started = reservation[r].started
      /\ y.generation = reservation[r].generation /\ y.completed = reservation[r].completed
      /\ y.released = reservation[r].released /\ y.expired = reservation[r].expired
  BY <1>1 DEF Booking, Same
<1>5. reservation' = [reservation EXCEPT ![r] = y]
  BY DEF GrowStale
<1> HIDE DEF y
<1>6. UNCHANGED <<submitter, row, claim, version, hostVars, repairs, workVars>>
  BY DEF GrowStale, caseVars
<1>7. Rows' /\ RowsOfOthersStay(c) /\ OnlyStage(c) /\ row'[c].stage = row[c].stage
  BY <1>6, Typed, RowStays
<1>8. /\ BookingsMove(c) /\ Used' = Used
      /\ reservation'[r] = y /\ \A q \in Reservation \ {r} : reservation'[q] = reservation[q]
  BY <1>2, <1>3, <1>4, <1>5, OneMoves
<1>9. StageOf(c)'
  <2>1. OfRevision(c)' = OfRevision(c)
    BY <1>7, <1>8, RevisionStays
  <2>2. \A q \in Used : /\ Live(q)' = Live(q)
                        /\ reservation'[q].completed = reservation[q].completed
                        /\ reservation'[q].started = reservation[q].started
    BY <1>4, <1>8 DEF Live, Unreleased, Used
  <2> QED
    BY <1>6, <2>1, <2>2 DEF StageOf, Inv, StageInv, OfRevision
<1> QED
  BY <1>1, <1>2, <1>3, <1>4, <1>5, <1>6, <1>7, <1>9, DeadlineStep

LEMMA ExpireKeeps ==
  ASSUME Inv, NEW r \in Reservation, Expire(r)
  PROVE  Inv'
<1> DEFINE y == [reservation[r] EXCEPT !.expired = TRUE]
<1>1. r \in Used /\ reservation[r] \in Booking
  BY Typed DEF Expire, Live, Unreleased
<1>2. PICK c \in Case : c = reservation[r].case
  BY <1>1 DEF Inv, OfItsCase
<1>3. y \in Booking
  BY <1>1, BookingFields
<1>4. /\ Same(reservation[r], y) /\ y.started = reservation[r].started
      /\ y.generation = reservation[r].generation /\ y.expired
  BY <1>1 DEF Booking, Same
<1>5. reservation' = [reservation EXCEPT ![r] = y]
  BY DEF Expire
<1> HIDE DEF y
<1>6. UNCHANGED <<submitter, row, claim, version, hostVars, repairs, workVars>>
  BY DEF Expire, caseVars
<1>7. Rows' /\ RowsOfOthersStay(c) /\ OnlyStage(c) /\ row'[c].stage = row[c].stage
  BY <1>6, Typed, RowStays
<1>8. /\ BookingsMove(c) /\ Used' = Used
      /\ reservation'[r] = y /\ \A q \in Reservation \ {r} : reservation'[q] = reservation[q]
  BY <1>2, <1>3, <1>4, <1>5, OneMoves
<1>9. StageOf(c)'
  <2>1. OfRevision(c)' = OfRevision(c)
    BY <1>7, <1>8, RevisionStays
  <2>2. \A q \in Used : Live(q)' => Live(q) /\ reservation'[q] = reservation[q]
    BY <1>4, <1>8 DEF Live, Unreleased, Used
  <2> QED
    BY <1>6, <2>1, <2>2 DEF StageOf, Inv, StageInv, OfRevision
<1> QED
  BY <1>1, <1>2, <1>3, <1>4, <1>5, <1>6, <1>7, <1>9, DeadlineStep

LEMMA RecoverKeeps ==
  ASSUME Inv, NEW r \in Reservation, Recover(r)
  PROVE  Inv'
<1> DEFINE y == [reservation[r] EXCEPT !.completed = TRUE, !.released = TRUE, !.checkpoint = FALSE]
<1>1. r \in Used /\ reservation[r] \in Booking /\ ~reservation[r].released
  BY Typed DEF Recover, Unreleased
<1>2. PICK c \in Case : c = reservation[r].case
  BY <1>1 DEF Inv, OfItsCase
<1>3. y \in Booking
  BY <1>1, BookingChanges, Zenon
<1>4. /\ Same(reservation[r], y) /\ y.started = reservation[r].started
      /\ y.generation = reservation[r].generation /\ y.released
  BY <1>1 DEF Booking, Same
<1>5. reservation' = [reservation EXCEPT ![r] = y]
  BY DEF Recover
<1> HIDE DEF y
<1>6. UNCHANGED <<submitter, claim, version, hostVars, repairs, workVars>>
  BY DEF Recover
<1>7. /\ row[c].state = "pending" /\ row[c].revision = reservation[r].revision
      /\ r \in OfRevision(c)
  BY <1>1, <1>2 DEF Inv, Reserving, OfRevision
<1>8. Rows' /\ RowsOfOthersStay(c) /\ OnlyStage(c) /\ row'[c].stage = "failed"
  <2>1. row' = [row EXCEPT ![c].stage = "failed"] /\ "failed" \in Stages
    BY <1>2, <1>7 DEF Recover, Stages
  <2> QED
    BY <2>1, Typed, StageWritten
<1>9. /\ BookingsMove(c) /\ Used' = Used
      /\ reservation'[r] = y /\ \A q \in Reservation \ {r} : reservation'[q] = reservation[q]
  BY <1>2, <1>3, <1>4, <1>5, OneMoves
<1>10. StageOf(c)'
  <2>1. OfRevision(c)' = OfRevision(c) /\ \A q \in Used : Live(q)' => ~reservation[q].released
    BY <1>8, <1>9, RevisionStays
  <2>2. ASSUME NEW q \in OfRevision(c), Live(q)' PROVE FALSE
    <3>1. q \in Used /\ reservation[q].case = c /\ ~reservation[q].released
      BY <2>1, <2>2 DEF OfRevision
    <3>2. q = r
      BY <1>1, <1>2, <3>1, TheOnlyOne
    <3> QED
      BY <1>4, <1>9, <2>2, <3>2 DEF Live, Unreleased
  <2> QED
    BY <1>7, <2>1, <2>2 DEF StageOf
<1> QED
  BY <1>1, <1>2, <1>3, <1>4, <1>5, <1>6, <1>8, <1>10, DeadlineStep

(* A step after which no reservation of the case is live                    *)
LEMMA ReleasingStep ==
  ASSUME Inv, NEW c \in Case, row[c].state # "none",
         row' = [row EXCEPT ![c].stage = "released"],
         Bookings', BookingsMove(c),
         \A q \in Used : reservation'[q].started = reservation[q].started
                         /\ reservation'[q].generation = reservation[q].generation,
         \A q \in Used : reservation[q].case = c => ~Live(q)',
         UNCHANGED <<submitter, version, hostVars, repairs, workVars>>,
         Leases', \A d \in Case \ {c} : claim'[d] = claim[d],
         claim'[c] = claim[c] \/ claim'[c] = NoClaim
  PROVE  Inv'
<1>1. Rows' /\ RowsOfOthersStay(c) /\ OnlyStage(c) /\ row'[c].stage = "released"
  BY Typed, StageWritten DEF Stages
<1>2. Used' = Used /\ OfRevision(c)' = OfRevision(c)
  BY <1>1, RevisionStays
<1>3. LeaseOf(c)'
  BY <1>1 DEF LeaseOf, OnlyStage, Inv, LeaseInv
<1>4. Profiles' /\ VersionsMove /\ VersionsSound'
  BY <1>2, ProfilesStay
<1>5. FetchInv' /\ Works'
  BY <1>2, FetchKept, Typed DEF Inv, Works, workVars
<1>6. StageOf(c)'
  BY <1>1, <1>2 DEF StageOf, OfRevision
<1> QED
  BY <1>1, <1>3, <1>4, <1>5, <1>6, StageStep

LEMMA ExpireReservationsKeeps ==
  ASSUME Inv, NEW c \in Case, ExpireReservations(c)
  PROVE  Inv'
<1>1. PICK r \in Used : reservation[r].case = c /\ Unreleased(r) /\ reservation[r].expired
  BY Zenon DEF ExpireReservations
<1>2. row[c].state # "none"
  BY <1>1 DEF Inv, OfItsCase
<1>3. \A q \in Reservation :
        reservation'[q] = IF reservation[q].case = c /\ Unreleased(q) /\ reservation[q].expired
                          THEN [reservation[q] EXCEPT !.released = TRUE, !.checkpoint = FALSE]
                          ELSE reservation[q]
  BY Zenon DEF ExpireReservations
<1>4. ASSUME NEW x \in Booking
      PROVE  /\ [x EXCEPT !.released = TRUE, !.checkpoint = FALSE] \in Booking
             /\ Same(x, [x EXCEPT !.released = TRUE, !.checkpoint = FALSE])
             /\ [x EXCEPT !.released = TRUE, !.checkpoint = FALSE].released
             /\ [x EXCEPT !.released = TRUE, !.checkpoint = FALSE].started = x.started
             /\ [x EXCEPT !.released = TRUE, !.checkpoint = FALSE].generation = x.generation
  <2> DEFINE z == [x EXCEPT !.released = TRUE]
  <2>1. z \in Booking
    BY BookingFields
  <2>2. [z EXCEPT !.checkpoint = FALSE] \in Booking
    <3> HIDE DEF z
    <3> QED
      BY <2>1, BookingFields
  <2> QED
    BY <2>2 DEF Booking, Same
<1>5. ASSUME NEW q \in Reservation
      PROVE  /\ reservation'[q] \in Booking /\ Same(reservation[q], reservation'[q])
             /\ reservation[q].case # c => reservation'[q] = reservation[q]
             /\ reservation[q].case = c /\ Unreleased(q) /\ reservation[q].expired
                   => reservation'[q].released
             /\ reservation'[q].started = reservation[q].started
             /\ reservation'[q].generation = reservation[q].generation
  <2> DEFINE x == reservation[q]
             y == [x EXCEPT !.released = TRUE, !.checkpoint = FALSE]
  <2>1. x \in Booking
    BY Typed
  <2>2. /\ y \in Booking /\ Same(x, y) /\ y.released
        /\ y.started = x.started /\ y.generation = x.generation
    <3> HIDE DEF x
    <3> QED
      BY <1>4, <2>1, Zenon
  <2>3. reservation'[q] = IF x.case = c /\ Unreleased(q) /\ x.expired THEN y ELSE x
    BY <1>3, Zenon
  <2>4. Same(x, x)
    BY DEF Same
  <2> HIDE DEF y
  <2> QED
    BY <2>1, <2>2, <2>3, <2>4
<1>6. reservation' = [q \in Reservation |-> reservation'[q]]
  BY Zenon DEF ExpireReservations
<1>7. Bookings' /\ BookingsMove(c)
  BY <1>5, <1>6 DEF Bookings, BookingsMove
<1>8. ASSUME NEW q \in Used, reservation[q].case = c PROVE ~Live(q)'
  <2>1. CASE reservation[q].released
    BY <1>5, <2>1, Typed DEF Live, Unreleased, Same
  <2>2. CASE ~reservation[q].released
    <3>1. q = r
      BY <1>1, <1>8, <2>2, TheOnlyOne DEF Unreleased
    <3> QED
      BY <1>1, <1>5, <3>1, Typed DEF Live, Unreleased
  <2> QED
    BY <2>1, <2>2
<1>9. UNCHANGED claim
  BY Zenon DEF ExpireReservations
<1>10. Leases' /\ \A d \in Case : claim'[d] = claim[d]
  BY <1>9, Typed DEF Leases
<1>11. UNCHANGED <<submitter, version, hostVars, repairs, workVars>>
       /\ row' = [row EXCEPT ![c].stage = "released"]
  BY Zenon DEF ExpireReservations
<1>12. \A q \in Used : reservation'[q].started = reservation[q].started
                       /\ reservation'[q].generation = reservation[q].generation
  BY <1>5 DEF Used
<1> QED
  BY <1>2, <1>7, <1>8, <1>10, <1>11, <1>12, ReleasingStep

LEMMA ReleaseCaseKeeps ==
  ASSUME Inv, NEW c \in Case, ReleaseCase(c)
  PROVE  Inv'
<1>1. /\ reservation' = Release(reservation, c) /\ row[c].state = "pending"
      /\ row' = [row EXCEPT ![c].stage = "released"] /\ claim' = [claim EXCEPT ![c] = NoClaim]
      /\ UNCHANGED <<submitter, version, hostVars, repairs, workVars>>
  BY DEF ReleaseCase
<1>2. /\ Bookings'
      /\ \A r \in Reservation :
            /\ Same(reservation[r], reservation'[r])
            /\ reservation[r].case = c => reservation'[r].released
            /\ reservation[r].case # c => reservation'[r] = reservation[r]
            /\ reservation'[r].started = reservation[r].started
            /\ reservation'[r].generation = reservation[r].generation
  BY <1>1, Typed, ReleaseDoes DEF Bookings
<1>3. BookingsMove(c)
  BY <1>2 DEF BookingsMove
<1>4. \A q \in Used : /\ reservation'[q].started = reservation[q].started
                      /\ reservation'[q].generation = reservation[q].generation
                      /\ reservation[q].case = c => ~Live(q)'
  BY <1>2 DEF Used, Live, Unreleased
<1>5. Leases' /\ claim'[c] = NoClaim /\ \A d \in Case \ {c} : claim'[d] = claim[d]
  BY <1>1, Typed, LeaseEnded
<1> QED
  BY <1>1, <1>2, <1>3, <1>4, <1>5, ReleasingStep

-----------------------------------------------------------------------------
(* The profile and the decision.                                            *)

\* The version under review is the last of the reservation that is live.
LEMMA UnderReview ==
  ASSUME Inv, NEW c \in Case, Proposed(c) # 0
  PROVE  LET r == NewestReservation(c) v == Proposed(c)
         IN  /\ r \in Used /\ r \in Reservation /\ r \in OfRevision(c) /\ Live(r)
             /\ ~reservation[r].released
             /\ reservation[r].case = c /\ reservation[r].revision = row[c].revision
             /\ reservation[r].host \in Host
             /\ row[c].host = reservation[r].host /\ row[c].source = reservation[r].host
             /\ v \in 1..MaxVersions /\ v \in Written /\ version[v].reservation = r
             /\ \A w \in VersionsOf({r}) : w <= v
<1> DEFINE r == NewestReservation(c)
           v == Proposed(c)
<1>1. r # 0 /\ Live(r) /\ v = Newest(VersionsOf({r})) /\ v # 0
  BY DEF Proposed
<1>2. r \in OfRevision(c)
  BY <1>1, Typed, Numbers
<1>3. r \in Used /\ reservation[r].case = c /\ reservation[r].revision = row[c].revision
      /\ ~reservation[r].released
  BY <1>1, <1>2 DEF OfRevision, Live, Unreleased
<1>4. /\ r \in Reservation /\ reservation[r].host \in Host
      /\ row[c].host = reservation[r].host /\ row[c].source = reservation[r].host
  BY <1>3, Typed DEF Inv, OfItsCase
<1>5. v \in VersionsOf({r}) /\ \A w \in VersionsOf({r}) : w <= v
  BY <1>1, Typed, Numbers
<1>6. v \in Written /\ version[v].reservation = r /\ v \in 1..MaxVersions
  BY <1>5, Typed, Numbers DEF VersionsOf
<1> QED
  BY <1>1, <1>2, <1>3, <1>4, <1>5, <1>6

LEMMA LeaseRenewed ==
  ASSUME Inv, NEW c \in Case, NEW o \in Operator, Reviews(o, c), UNCHANGED row,
         Renewed(o, c, row[c].revision)
  PROVE  Leases' /\ LeaseOf(c)' /\ \A d \in Case \ {c} : claim'[d] = claim[d]
<1>1. /\ Leases' /\ \A d \in Case \ {c} : claim'[d] = claim[d]
      /\ claim'[c].by = o
      /\ claim'[c].revision = row[c].revision \/ claim'[c] = claim[c]
  BY Typed, LeasesDo
<1>2. claim'[c] = claim[c] => claim[c].revision = row[c].revision
  BY <1>1, NoOneAssumption DEF Inv, LeaseInv, LeaseOf, NoClaim, NoOneAssumption
<1> QED
  BY <1>1, <1>2 DEF LeaseOf, Reviews

(* A step that writes versions, claims, repairs or messages                 *)
LEMMA ProposalStep ==
  ASSUME Inv, NEW c \in Case, UNCHANGED <<submitter, row, reservation, hostVars, fetching>>,
         broker' \subseteq Message, repairs' \subseteq Repair,
         Leases', LeaseOf(c)', \A d \in Case \ {c} : claim'[d] = claim[d],
         Profiles', VersionsMove, VersionsSound'
  PROVE  Inv'
<1>1. Bookings' /\ BookingsMove(c) /\ Used' = Used
  BY Typed DEF Bookings, BookingsMove, Same, Used
<1>2. Rows' /\ RowsOfOthersStay(c) /\ OnlyStage(c) /\ row'[c].stage = row[c].stage
  BY Typed, RowStays
<1>3. Works' /\ FetchInv'
  BY <1>1, Typed, FetchKept DEF Works, Inv
<1>4. StageOf(c)'
  BY StageStays
<1> QED
  BY <1>1, <1>2, <1>3, <1>4, StageStep

LEMMA RedeliverKeeps ==
  ASSUME Inv, NEW r \in Reservation, Redeliver(r)
  PROVE  Inv'
<1>1. PICK c \in Case : c = reservation[r].case
  BY DEF Redeliver, Live, Unreleased, Inv, OfItsCase
<1>2. UNCHANGED <<submitter, row, claim, reservation, version, hostVars, repairs, fetching>>
  BY DEF Redeliver, caseVars
<1>3. broker' \subseteq Message /\ repairs' \subseteq Repair
  BY <1>2, Typed DEF Redeliver, Works, Message
<1>4. OnlyStage(c)
  BY <1>2 DEF OnlyStage
<1>5. Leases' /\ LeaseOf(c)' /\ \A d \in Case \ {c} : claim'[d] = claim[d]
  BY <1>2, <1>4, LeaseStays
<1>6. Profiles' /\ VersionsMove /\ VersionsSound'
  BY <1>2, ProfilesStay DEF Used
<1> QED
  BY <1>2, <1>3, <1>5, <1>6, ProposalStep

LEMMA EditProfileKeeps ==
  ASSUME Inv, NEW c \in Case, NEW o \in Operator, EditProfile(c, o)
  PROVE  Inv'
<1>1. /\ Reviews(o, c) /\ Room /\ version' = NewVersion(NewestReservation(c))
      /\ Renewed(o, c, row[c].revision)
      /\ UNCHANGED <<submitter, row, reservation, hostVars, repairs, workVars>>
  BY DEF EditProfile, Renewed
<1>2. NewestReservation(c) \in Used /\ Live(NewestReservation(c))
  BY UnderReview DEF EditProfile, Reviewable
<1>3. Used \subseteq Used'
  BY <1>1 DEF Used
<1>4. Profiles' /\ VersionsMove /\ VersionsSound'
  BY <1>1, <1>2, <1>3, VersionAdded
<1>5. Leases' /\ LeaseOf(c)' /\ \A d \in Case \ {c} : claim'[d] = claim[d]
  BY <1>1, LeaseRenewed
<1>6. broker' \subseteq Message /\ repairs' \subseteq Repair /\ UNCHANGED fetching
  BY <1>1, Typed DEF Works, workVars
<1> QED
  BY <1>1, <1>4, <1>5, <1>6, ProposalStep

LEMMA BeginRepairKeeps ==
  ASSUME Inv, NEW c \in Case, NEW o \in Operator, BeginRepair(c, o)
  PROVE  Inv'
<1>1. /\ Reviews(o, c) /\ Renewed(o, c, row[c].revision)
      /\ UNCHANGED <<submitter, row, reservation, version, hostVars, workVars>>
  BY DEF BeginRepair, Renewed
<1>2. Proposed(c) \in 1..MaxVersions
  BY UnderReview DEF BeginRepair, Reviewable
<1>3. broker' \subseteq Message /\ repairs' \subseteq Repair /\ UNCHANGED fetching
  <2>1. repairs \subseteq Repair /\ broker \subseteq Message
        /\ row[c].revision \in 1..MaxRevision /\ row[c].transfers \in 0..MaxTransfers
    BY Typed DEF Works
  <2> QED
    BY <1>1, <1>2, <2>1 DEF BeginRepair, Repair, workVars
<1>4. Profiles' /\ VersionsMove /\ VersionsSound'
  BY <1>1, ProfilesStay DEF Used
<1>5. Leases' /\ LeaseOf(c)' /\ \A d \in Case \ {c} : claim'[d] = claim[d]
  BY <1>1, LeaseRenewed
<1> QED
  BY <1>1, <1>3, <1>4, <1>5, ProposalStep

LEMMA EndRepairKeeps ==
  ASSUME Inv, NEW p \in repairs, EndRepair(p)
  PROVE  Inv'
<1>1. p.case \in Case /\ p.by \in Operator /\ p.version \in 1..MaxVersions
      /\ broker \subseteq Message /\ repairs \subseteq Repair
  BY Typed DEF Works, Repair
<1> DEFINE c == p.case
           o == p.by
<1>2. /\ Reviews(o, c) /\ Room /\ version' = NewVersion(NewestReservation(c))
      /\ Proposed(c) # 0 /\ row[c].revision = p.revision
      /\ UNCHANGED <<submitter, row, reservation, hostVars, workVars>>
      /\ repairs' \subseteq repairs
  BY <1>1 DEF EndRepair, StillCurrent, Reviewable
<1>3. Renewed(o, c, row[c].revision)
  BY <1>2 DEF EndRepair, Renewed
<1>4. NewestReservation(c) \in Used /\ Live(NewestReservation(c))
  BY <1>1, <1>2, UnderReview
<1>5. Used \subseteq Used'
  BY <1>2 DEF Used
<1>6. Profiles' /\ VersionsMove /\ VersionsSound'
  BY <1>2, <1>4, <1>5, VersionAdded
<1>7. Leases' /\ LeaseOf(c)' /\ \A d \in Case \ {c} : claim'[d] = claim[d]
  BY <1>1, <1>2, <1>3, LeaseRenewed
<1>8. broker' \subseteq Message /\ repairs' \subseteq Repair /\ UNCHANGED fetching
  BY <1>1, <1>2 DEF workVars
<1> QED
  BY <1>1, <1>2, <1>6, <1>7, <1>8, ProposalStep

LEMMA FailRepairKeeps ==
  ASSUME Inv, NEW p \in repairs, FailRepair(p)
  PROVE  Inv'
<1>1. p.case \in Case /\ broker \subseteq Message /\ repairs \subseteq Repair
  BY Typed DEF Works, Repair
<1>2. UNCHANGED <<submitter, row, claim, reservation, version, hostVars, fetching, broker>>
      /\ repairs' \subseteq repairs
  BY DEF FailRepair, caseVars, workVars
<1>3. OnlyStage(p.case)
  BY <1>2 DEF OnlyStage
<1>4. Leases' /\ LeaseOf(p.case)' /\ \A d \in Case \ {p.case} : claim'[d] = claim[d]
  BY <1>1, <1>2, <1>3, LeaseStays
<1>5. Profiles' /\ VersionsMove /\ VersionsSound'
  BY <1>2, ProfilesStay DEF Used
<1>6. broker' \subseteq Message /\ repairs' \subseteq Repair
  BY <1>1, <1>2
<1> QED
  BY <1>1, <1>2, <1>4, <1>5, <1>6, ProposalStep

\* A decision releases what the case has reserved.
LEMMA ReleasedBy ==
  ASSUME Inv, NEW c \in Case, reservation' = Release(reservation, c)
  PROVE  /\ Bookings' /\ BookingsMove(c) /\ Used' = Used
         /\ \A r \in Used : /\ Same(reservation[r], reservation'[r])
                            /\ reservation'[r].started = reservation[r].started
                            /\ reservation'[r].generation = reservation[r].generation
                            /\ reservation[r].case = c => reservation'[r].released
                            /\ ~reservation'[r].released =>
                                  /\ reservation[r].case # c /\ ~reservation[r].released
                                  /\ reservation'[r] = reservation[r]
<1>1. /\ Bookings'
      /\ \A r \in Reservation :
            /\ Same(reservation[r], reservation'[r])
            /\ reservation[r].case = c => reservation'[r].released
            /\ reservation[r].case # c => reservation'[r] = reservation[r]
            /\ reservation'[r].started = reservation[r].started
            /\ reservation'[r].generation = reservation[r].generation
  BY Typed, ReleaseDoes DEF Bookings
<1>2. BookingsMove(c) /\ Used' = Used /\ Used \subseteq Reservation
  BY <1>1 DEF BookingsMove, Used, Same
<1> QED
  BY <1>1, <1>2 DEF Same

\* The row of a case decided
LEMMA RowDecided ==
  ASSUME Rows, NEW c \in Case, NEW a \in States, row' = [row EXCEPT ![c].state = a]
  PROVE  /\ Rows' /\ RowsOfOthersStay(c) /\ row'[c].state = a
         /\ row'[c].discarded = row[c].discarded /\ row'[c].revision = row[c].revision
         /\ row'[c].responsible = row[c].responsible /\ row'[c].stage = row[c].stage
         /\ row'[c].host = row[c].host /\ row'[c].source = row[c].source
<1> DEFINE x == [row[c] EXCEPT !.state = a]
<1>1. row[c] \in Row /\ row' = [row EXCEPT ![c] = x]
  BY DEF Rows
<1>2. /\ x \in Row /\ x.state = a /\ x.stage = row[c].stage
      /\ x.discarded = row[c].discarded
      /\ x.revision = row[c].revision /\ x.responsible = row[c].responsible
      /\ x.host = row[c].host /\ x.source = row[c].source
  BY <1>1 DEF Row
<1> HIDE DEF x
<1>3. Rows' /\ row'[c] = x /\ RowsOfOthersStay(c)
  BY <1>1, <1>2, RowMoves
<1> QED
  BY <1>2, <1>3

LEMMA DecideKeeps ==
  ASSUME Inv, NEW c \in Case, NEW o \in Operator,
         NEW outcome \in {"changes_requested", "rejected"}, Decide(c, o, outcome)
  PROVE  Inv'
<1> DEFINE v == Newest(VersionsOf(OfRevision(c)))
<1>1. /\ reservation' = Release(reservation, c) /\ row' = [row EXCEPT ![c].state = outcome]
      /\ version' = Decided(v) /\ claim' = [claim EXCEPT ![c] = NoClaim]
      /\ UNCHANGED <<submitter, hostVars, repairs, workVars>>
      /\ row[c].state = "pending"
  BY DEF Decide, Reviews
<1>2. v \in 0..MaxVersions
  BY Typed, Numbers
<1> HIDE DEF v
<1>3. /\ Bookings' /\ BookingsMove(c) /\ Used' = Used
      /\ \A r \in Used : /\ Same(reservation[r], reservation'[r])
                         /\ reservation'[r].started = reservation[r].started
                         /\ reservation'[r].generation = reservation[r].generation
                         /\ reservation[r].case = c => reservation'[r].released
                         /\ ~reservation'[r].released =>
                               reservation[r].case # c /\ ~reservation[r].released
  BY <1>1, ReleasedBy
<1>4. /\ Rows' /\ RowsOfOthersStay(c) /\ row'[c].state = outcome
      /\ row'[c].discarded = row[c].discarded /\ row'[c].revision = row[c].revision
      /\ row'[c].responsible = row[c].responsible
      /\ row'[c].host = row[c].host /\ row'[c].source = row[c].source
  BY <1>1, Typed, RowDecided DEF States
<1>5. /\ ~row'[c].discarded /\ row'[c].state \notin {"none", "pending"}
      /\ row[c].revision \in Nat /\ row'[c].host \in Host
  BY <1>1, <1>4, Typed DEF Inv, CaseInv
<1>6. Leases' /\ claim'[c] = NoClaim /\ \A d \in Case \ {c} : claim'[d] = claim[d]
  BY <1>1, Typed, LeaseEnded
<1>7. Profiles' /\ VersionsMove /\ VersionsSound'
  BY <1>1, <1>2, <1>3, VersionsStay
<1>8. TypeOK'
  <2>1. Hosts' /\ Works' /\ submitter' \in Submitters
    BY <1>1, Typed DEF Hosts, Works, hostVars, workVars
  <2> QED
    BY <1>3, <1>4, <1>6, <1>7, <2>1, TypesKept
<1>9. AssignmentInv'
  <2>1. UNCHANGED <<assignment, active, operator>>
    BY <1>1 DEF hostVars
  <2>2. \A h \in Host : operator[h] = row[c].responsible => operator'[h] = row'[c].responsible
    BY <1>4, <2>1
  <2> QED
    BY <1>3, <1>4, <1>5, <1>7, <2>1, <2>2, HostsStay
<1>10. StageOf(c)' /\ LeaseOf(c)'
  BY <1>5, <1>6 DEF StageOf, LeaseOf
<1>11. FetchInv'
  BY <1>1, <1>3, FetchKept DEF Inv, workVars
<1>12. (\A d \in Case : Assigned(d)' => Assigned(d)) /\ (Current(c)' => Current(c))
  <2>1. IsOpen(c)
    BY <1>1, <1>4, <1>5 DEF IsOpen
  <2> QED
    BY <1>1, <2>1 DEF Assigned, Current, hostVars
<1>13. \A r \in Used : ~reservation'[r].released
         => assignment'[reservation[r].host].case \in {NoOne, reservation[r].case}
  BY <1>1, <1>3 DEF hostVars, Inv, Reserving
<1> QED
  BY <1>1, <1>3, <1>4, <1>5, <1>6, <1>7, <1>8, <1>9, <1>10, <1>11, <1>12, <1>13, StepOfCase

LEMMA ApproveProfileKeeps ==
  ASSUME Inv, NEW c \in Case, NEW o \in Operator, ApproveProfile(c, o)
  PROVE  Inv'
<1>0. PICK v \in 0..MaxVersions : v = Proposed(c)
  BY Typed, Numbers
<1>1. PICK r \in Used : r = NewestReservation(c)
  BY UnderReview DEF ApproveProfile, Reviewable
<1>2. /\ ~reservation[r].released /\ r \in Reservation
      /\ reservation[r].case = c /\ reservation[r].host \in Host
      /\ row[c].host = reservation[r].host /\ row[c].source = reservation[r].host
      /\ v \in 1..MaxVersions /\ v \in Written /\ version[v].reservation = r
      /\ \A w \in VersionsOf({r}) : w <= v
  BY <1>0, <1>1, UnderReview DEF ApproveProfile, Reviewable
<1>3. PICK h \in Host : h = reservation[r].host
  BY <1>2
<1>4. /\ reservation' = Release(reservation, c) /\ row' = [row EXCEPT ![c].state = "approved"]
      /\ version' = Decided(v) /\ claim' = [claim EXCEPT ![c] = NoClaim]
      /\ UNCHANGED <<submitter, repairs, workVars>>
      /\ row[c].state = "pending" /\ row[c].responsible = o
      /\ OnlyWebsite(c) /\ assignment[h].case \in {NoOne, c}
      /\ active' = [active EXCEPT ![h] = v]
      /\ operator' = IF assignment[h].case = c THEN operator ELSE [operator EXCEPT ![h] = o]
      /\ assignment' = [assignment EXCEPT ![h] = [case |-> c, version |-> v]]
  BY <1>0, <1>1, <1>3 DEF ApproveProfile, Reviews
<1>5. /\ Bookings' /\ BookingsMove(c) /\ Used' = Used
      /\ \A q \in Used : /\ Same(reservation[q], reservation'[q])
                         /\ reservation'[q].started = reservation[q].started
                         /\ reservation'[q].generation = reservation[q].generation
                         /\ reservation[q].case = c => reservation'[q].released
                         /\ ~reservation'[q].released =>
                               reservation[q].case # c /\ ~reservation[q].released
  BY <1>4, ReleasedBy
<1>6. /\ Rows' /\ RowsOfOthersStay(c) /\ row'[c].state = "approved"
      /\ row'[c].discarded = row[c].discarded /\ row'[c].revision = row[c].revision
      /\ row'[c].responsible = row[c].responsible
      /\ row'[c].host = row[c].host /\ row'[c].source = row[c].source
  BY <1>4, Typed, RowDecided DEF States
<1>7. ~row[c].discarded /\ row[c].revision \in Nat /\ row[c].host \in Host
  BY <1>4, Typed DEF Inv, CaseInv
<1>8. Leases' /\ claim'[c] = NoClaim /\ \A d \in Case \ {c} : claim'[d] = claim[d]
  BY <1>4, Typed, LeaseEnded
<1>9. Profiles' /\ VersionsMove /\ VersionsSound'
  BY <1>4, <1>5, VersionsStay
<1>10. /\ Hosts'
       /\ assignment'[h] = [case |-> c, version |-> v] /\ active'[h] = v
       /\ \A g \in Host \ {h} : /\ assignment'[g] = assignment[g] /\ active'[g] = active[g]
                                /\ operator'[g] = operator[g]
       /\ assignment[h].case = c => operator'[h] = operator[h]
       /\ assignment[h].case # c => operator'[h] = o
  BY <1>4, Typed DEF Hosts
<1>11. TypeOK'
  <2>1. Works' /\ submitter' \in Submitters
    BY <1>4, Typed DEF Works, workVars
  <2> QED
    BY <1>5, <1>6, <1>8, <1>9, <1>10, <2>1, TypesKept
<1>12. AssignmentInv'
  <2> SUFFICES ASSUME NEW g \in Host PROVE AssignedAt(g)' /\ InForceAt(g)'
    BY DEF AssignmentInv
  <2>1. AssignedAt(g) /\ AssignedAt(h)
    BY DEF Inv, AssignmentInv
  <2>2. CASE g = h
    <3>1. AssignedAt(g)'
      <4>1. operator'[h] = row'[c].responsible
        BY <1>4, <1>6, <1>10, <2>1, NoOneAssumption DEF AssignedAt, NoOneAssumption
      <4> QED
        BY <1>2, <1>3, <1>6, <1>7, <1>10, <2>2, <4>1 DEF AssignedAt
    <3>2. /\ Written' = Written
          /\ \A w \in Written : version'[w].reservation = version[w].reservation
          /\ version'[v].decided
      <4>1. /\ \A w \in 1..MaxVersions : version'[w].reservation = version[w].reservation
            /\ version'[v].decided
        BY <1>2, <1>4, Typed, ProfilesDo
      <4>2. DOMAIN version = 1..MaxVersions /\ DOMAIN version' = 1..MaxVersions
        BY <1>9, Typed DEF Profiles
      <4> QED
        BY <4>1, <4>2 DEF Written
    <3>3. reservation'[r].case = c /\ reservation'[r].host = h /\ reservation'[r].released
      BY <1>2, <1>3, <1>5 DEF Same
    <3>4. InForceAt(g)'
      <4>1. c # NoOne
        BY NoOneAssumption DEF NoOneAssumption
      <4>2. \A w \in Written' : version'[w].reservation = r => w <= v
        BY <1>2, <3>2 DEF VersionsOf
      <4>3. version'[v].reservation = r /\ v \in Written'
        BY <1>2, <3>2
      <4> QED
        BY <1>10, <2>2, <3>2, <3>3, <4>1, <4>2, <4>3 DEF InForceAt, VersionsOf
    <3> QED
      BY <3>1, <3>4
  <2>3. CASE g # h
    <3>1. InForceAt(g)'
      BY <1>5, <1>9, <1>10, <2>3, InForceKept
    <3>2. assignment[g].case # c
      BY <1>2, <1>3, <2>1, <2>3, NoOneAssumption DEF AssignedAt, NoOneAssumption
    <3>3. assignment[g].case \in Case \cup {NoOne}
      BY Typed DEF Hosts
    <3>4. AssignedAt(g)'
      BY <1>6, <1>10, <2>1, <2>3, <3>2, <3>3 DEF AssignedAt, RowsOfOthersStay
    <3> QED
      BY <3>1, <3>4
  <2> QED
    BY <2>2, <2>3
<1>13. StageOf(c)' /\ LeaseOf(c)'
  BY <1>6, <1>8 DEF StageOf, LeaseOf
<1>14. FetchInv'
  BY <1>4, <1>5, FetchKept DEF Inv, workVars
<1>15. \A d \in Case \ {c} : Assigned(d)' => Assigned(d)
  BY <1>10 DEF Assigned
<1>16. \A q \in Used : ~reservation'[q].released
         => assignment'[reservation[q].host].case \in {NoOne, reservation[q].case}
  <2> SUFFICES ASSUME NEW q \in Used, ~reservation'[q].released
               PROVE  assignment'[reservation[q].host].case \in {NoOne, reservation[q].case}
    OBVIOUS
  <2>1. reservation[q].case # c /\ ~reservation[q].released /\ reservation[q].host \in Host
    BY <1>5 DEF Inv, OfItsCase
  <2>2. reservation[q].host # h
    BY <1>2, <1>3, <2>1 DEF Inv, Reserving
  <2> QED
    BY <1>10, <2>1, <2>2 DEF Inv, Reserving
<1> QED
  BY <1>4, <1>5, <1>6, <1>7, <1>8, <1>9, <1>11, <1>12, <1>13, <1>14, <1>15, <1>16, StepOfCase

LEMMA RevokeKeeps ==
  ASSUME Inv, NEW c \in Case, NEW o \in Operator, Revoke(c, o)
  PROVE  Inv'
<1>1. PICK h \in Host :
        /\ assignment[h].case = c /\ row[c].revision < MaxRevision
        /\ assignment' = [assignment EXCEPT ![h] = NoAssignment]
        /\ active' = [active EXCEPT ![h] = 0]
        /\ reservation' = Release(reservation, c) /\ claim' = [claim EXCEPT ![c] = NoClaim]
        /\ row' = [row EXCEPT ![c].state = "revoked", ![c].revision = @ + 1]
        /\ UNCHANGED <<submitter, version, operator, repairs, workVars>>
  BY DEF Revoke
<1>2. AssignedAt(h) /\ c # NoOne
  BY NoOneAssumption DEF Inv, AssignmentInv, NoOneAssumption
<1>3. /\ row[c].state # "none" /\ ~row[c].discarded
      /\ row[c].host = h /\ Assigned(c)
  BY <1>1, <1>2 DEF AssignedAt, Assigned
<1> DEFINE n == row[c].revision + 1
           x == [row[c] EXCEPT !.state = "revoked", !.revision = n]
<1>4. row[c] \in Row /\ n \in 1..MaxRevision /\ n > row[c].revision /\ row[c].revision \in Nat
  BY <1>1, Typed
<1>5. x \in Row
  <2>1. "revoked" \in States
    BY DEF States
  <2> HIDE DEF n
  <2> QED
    BY <1>4, <2>1, RowChanges, Zenon
<1>6. /\ x.state = "revoked" /\ x.revision = n /\ ~x.discarded
      /\ x.responsible = row[c].responsible
      /\ x.host = row[c].host /\ x.source = row[c].source
  BY <1>3, <1>4 DEF Row
<1>7. row' = [row EXCEPT ![c] = x]
  BY <1>1
<1> HIDE DEF x, n
<1>8. Rows' /\ row'[c] = x /\ RowsOfOthersStay(c)
  BY <1>5, <1>7, Typed, RowMoves
<1>9. /\ Bookings' /\ BookingsMove(c) /\ Used' = Used
      /\ \A q \in Used : /\ Same(reservation[q], reservation'[q])
                         /\ reservation'[q].started = reservation[q].started
                         /\ reservation'[q].generation = reservation[q].generation
                         /\ reservation[q].case = c => reservation'[q].released
                         /\ ~reservation'[q].released =>
                               reservation[q].case # c /\ ~reservation[q].released
  BY <1>1, ReleasedBy
<1>10. Leases' /\ claim'[c] = NoClaim /\ \A d \in Case \ {c} : claim'[d] = claim[d]
  BY <1>1, Typed, LeaseEnded
<1>11. Profiles' /\ VersionsMove /\ VersionsSound'
  BY <1>1, <1>9, ProfilesStay
<1>12. /\ Hosts'
       /\ assignment'[h] = NoAssignment /\ active'[h] = 0
       /\ \A g \in Host \ {h} : assignment'[g] = assignment[g] /\ active'[g] = active[g]
  <2>1. NoAssignment \in [case : Case \cup {NoOne}, version : 0..MaxVersions]
    BY Typed DEF NoAssignment
  <2> QED
    BY <1>1, <2>1, Typed DEF Hosts
<1>13. TypeOK'
  <2>1. Works' /\ submitter' \in Submitters
    BY <1>1, Typed DEF Works, workVars
  <2> QED
    BY <1>8, <1>9, <1>10, <1>11, <1>12, <2>1, TypesKept
<1>14. AssignmentInv'
  <2> SUFFICES ASSUME NEW g \in Host PROVE AssignedAt(g)' /\ InForceAt(g)'
    BY DEF AssignmentInv
  <2>1. CASE g = h
    BY <1>12, <2>1 DEF AssignedAt, InForceAt, NoAssignment
  <2>2. CASE g # h
    <3>1. InForceAt(g)'
      BY <1>9, <1>11, <1>12, <2>2, InForceKept
    <3>2. AssignedAt(g) /\ assignment[g].case \in Case \cup {NoOne}
      BY Typed DEF Inv, AssignmentInv, Hosts
    <3>3. assignment[g].case # c
      BY <1>2, <1>3, <2>2, <3>2 DEF AssignedAt
    <3>4. UNCHANGED operator
      BY <1>1
    <3>5. AssignedAt(g)'
      BY <1>8, <1>12, <2>2, <3>2, <3>3, <3>4 DEF AssignedAt, RowsOfOthersStay
    <3> QED
      BY <3>1, <3>5
  <2> QED
    BY <2>1, <2>2
<1>15. StageOf(c)' /\ LeaseOf(c)'
  BY <1>6, <1>8, <1>10 DEF StageOf, LeaseOf
<1>16. FetchInv'
  BY <1>1, <1>9, FetchKept DEF Inv, workVars
<1>17. (\A d \in Case \ {c} : Assigned(d)' => Assigned(d)) /\ Current(c)
  <2>1. \A g \in Host : assignment'[g].case \in {NoOne, assignment[g].case}
    BY <1>12 DEF NoAssignment
  <2> QED
    BY <1>3, <2>1, NoOneAssumption DEF Assigned, Current, NoOneAssumption
<1>18. \A q \in Used : ~reservation'[q].released
         => assignment'[reservation[q].host].case \in {NoOne, reservation[q].case}
  <2> SUFFICES ASSUME NEW q \in Used, ~reservation'[q].released
               PROVE  assignment'[reservation[q].host].case \in {NoOne, reservation[q].case}
    OBVIOUS
  <2>1. /\ ~reservation[q].released /\ reservation[q].host \in Host
        /\ assignment[reservation[q].host].case \in {NoOne, reservation[q].case}
    BY <1>9 DEF Inv, OfItsCase, Reserving
  <2> QED
    BY <1>12, <2>1 DEF NoAssignment
<1>19. /\ row'[c].revision >= row[c].revision /\ row'[c].revision # row[c].revision
       /\ row'[c].host \in Host
  BY <1>3, <1>4, <1>6, <1>8 DEF n
<1>20. \A q \in Used : ~(reservation[q].case = c /\ ~reservation'[q].released)
  BY <1>9
<1> QED
  BY <1>1, <1>6, <1>8, <1>9, <1>10, <1>11, <1>13, <1>14, <1>15, <1>16, <1>17, <1>18, <1>19, <1>20, StepOfCase

-----------------------------------------------------------------------------
(* The URL and its reservation.                                             *)

(* A reservation is made for the revision n of case c.                      *)
LEMMA ReservingStep ==
  ASSUME Inv, NEW c \in Case, NEW h \in Host, NEW n \in 1..MaxRevision,
         Following(Used) <= MaxReservations, reservation' = Reserved(h, c, n),
         ~\E r \in Used : Live(r) /\ reservation[r].case = c, Available(h, c), OnlyWebsite(c),
         row[c].state # "none", row[c].host = h, n >= row[c].revision,
         Rows', RowsOfOthersStay(c),
         /\ row'[c].state = "pending" /\ row'[c].revision = n /\ row'[c].stage = "queued"
         /\ row'[c].host = h /\ row'[c].source = h /\ ~row'[c].discarded
         /\ row'[c].responsible = row[c].responsible,
         ~row[c].discarded,
         Leases', LeaseOf(c)', \A d \in Case \ {c} : claim'[d] = claim[d],
         UNCHANGED <<submitter, version, hostVars, repairs, fetching>>, broker' \subseteq Message
  PROVE  Inv'
<1>1. PICK k \in 0..MaxReservations : Used = 1..k
  BY DEF Inv, Counted
<1>2. k \in Nat /\ MaxReservations \in Nat /\ Used \subseteq Reservation
      /\ row[c].revision \in Nat /\ n \in Nat
      /\ \A r \in Used : reservation[r].revision \in Nat /\ r \in Nat
  BY Typed DEF Reservation
<1> DEFINE f == k + 1
<1>3. f = Following(Used) /\ f \in Reservation
  <2>1. f = Following(Used)
    BY <1>1, <1>2, FollowingRow
  <2> QED
    BY <1>2, <2>1 DEF Reservation
<1>4. /\ Bookings'
      /\ reservation'[f].case = c /\ reservation'[f].host = h /\ reservation'[f].revision = n
      /\ ~reservation'[f].released /\ ~reservation'[f].expired
      /\ ~reservation'[f].started /\ ~reservation'[f].completed
      /\ \A r \in Reservation \ {f} :
            /\ Same(reservation[r], reservation'[r])
            /\ reservation'[r].started = reservation[r].started
            /\ reservation'[r].generation = reservation[r].generation
            /\ reservation'[r] = reservation[r] \/ reservation'[r].released
            /\ reservation[r].host = h /\ reservation[r].expired => reservation'[r].released
  BY <1>3, Typed, ReservedDoes DEF Bookings
<1>5. f \notin Used
  BY <1>1, <1>2
<1> HIDE DEF f
<1>6. Used' = Used \cup {f}
  <2>1. c # NoOne
    BY NoOneAssumption DEF NoOneAssumption
  <2> QED
    BY <1>2, <1>3, <1>4, <1>5, <2>1 DEF Used, Same
<1>7. Used' = 1..f /\ f \in 0..MaxReservations
  <2>1. 1..(k + 1) = (1..k) \cup {k + 1}
    BY <1>2
  <2>2. k + 1 \in 0..MaxReservations
    BY <1>2, <1>3 DEF f, Reservation
  <2> QED
    BY <1>1, <1>6, <2>1, <2>2 DEF f
<1>8. ASSUME NEW r \in Used
      PROVE  /\ r \in Reservation \ {f} /\ r <= f
             /\ reservation'[r].case = reservation[r].case
             /\ reservation'[r].host = reservation[r].host
             /\ reservation'[r].revision = reservation[r].revision
             /\ ~reservation'[r].released =>
                   /\ ~reservation[r].released /\ reservation'[r] = reservation[r]
                   /\ reservation[r].case # c /\ reservation[r].host # h
  <2>1. r \in Reservation \ {f} /\ r <= f
    BY <1>2, <1>5, <1>6, <1>7
  <2>2. Same(reservation[r], reservation'[r])
    BY <1>4, <2>1
  <2>3. ~reservation'[r].released => ~reservation[r].released /\ reservation'[r] = reservation[r]
    BY <1>4, <2>1, <2>2 DEF Same
  <2>4. reservation[r].host = h => reservation'[r].released
    <3> SUFFICES ASSUME reservation[r].host = h, ~reservation[r].released
                 PROVE  reservation[r].expired
      BY <1>4, <2>1, <2>2 DEF Same
    <3> QED
      BY DEF Available, Live, Unreleased
  <2>5. reservation[r].case = c => reservation'[r].released
    <3> SUFFICES ASSUME reservation[r].case = c, ~reservation[r].released
                 PROVE  reservation[r].host = h
      BY <2>2, <2>4 DEF Same
    <3> QED
      BY DEF Inv, Reserving, OfItsCase
  <2> QED
    BY <2>1, <2>2, <2>3, <2>4, <2>5 DEF Same
<1>9. Profiles' /\ VersionsMove /\ VersionsSound'
  BY <1>6, ProfilesStay
<1>10. TypeOK'
  <2>1. submitter' \in Submitters /\ Hosts' /\ Works'
    BY Typed DEF Hosts, Works, hostVars
  <2> QED
    BY <1>4, <1>9, <2>1, TypesKept
<1>11. Counted' /\ VersionInv'
  BY <1>7, <1>9 DEF Counted, VersionsSound
<1>12. CaseInv'
  BY DEF Inv, CaseInv, RowsOfOthersStay
<1>13. OfItsCase'
  <2> SUFFICES ASSUME NEW r \in Used'
               PROVE  /\ reservation'[r].case \in Case /\ reservation'[r].host \in Host
                      /\ row'[reservation'[r].case].state # "none"
                      /\ reservation'[r].revision <= row'[reservation'[r].case].revision
                      /\ reservation'[r].revision = row'[reservation'[r].case].revision =>
                            /\ row'[reservation'[r].case].host = reservation'[r].host
                            /\ row'[reservation'[r].case].source = reservation'[r].host
    BY DEF OfItsCase
  <2>1. CASE r = f
    BY <1>2, <1>4, <2>1
  <2>2. CASE r \in Used /\ reservation[r].case = c
    BY <1>2, <1>8, <2>2 DEF Inv, OfItsCase
  <2>3. CASE r \in Used /\ reservation[r].case # c
    BY <1>8, <2>3 DEF Inv, OfItsCase, RowsOfOthersStay
  <2> QED
    BY <1>6, <2>1, <2>2, <2>3
<1>14. Reserving'
  <2> SUFFICES ASSUME NEW r \in Used', ~reservation'[r].released
               PROVE  /\ row'[reservation'[r].case].state = "pending"
                      /\ reservation'[r].revision = row'[reservation'[r].case].revision
                      /\ \A q \in Used' : reservation'[q].case = reservation'[r].case => q <= r
                      /\ \A q \in Used' : reservation'[q].host = reservation'[r].host
                                           /\ ~reservation'[q].released => q = r
                      /\ assignment'[reservation'[r].host].case \in {NoOne, reservation'[r].case}
    BY DEF Reserving
  <2>1. CASE r = f
    <3>1. \A q \in Used' : q <= f
      BY <1>6, <1>7, <1>8
    <3>2. \A q \in Used' : reservation'[q].host = h /\ ~reservation'[q].released => q = f
      BY <1>6, <1>8
    <3>3. assignment'[h].case \in {NoOne, c}
      BY DEF Available, hostVars
    <3> QED
      BY <1>4, <2>1, <3>1, <3>2, <3>3
  <2>2. CASE r \in Used
    <3>1. /\ ~reservation[r].released /\ reservation'[r] = reservation[r]
          /\ reservation[r].case # c /\ reservation[r].host # h /\ reservation[r].case \in Case
      BY <1>8, <2>2 DEF Inv, OfItsCase
    <3>2. \A q \in Used' : reservation'[q].case = reservation[r].case => q <= r
      BY <1>4, <1>6, <1>8, <2>2, <3>1 DEF Inv, Reserving
    <3>3. \A q \in Used' : reservation'[q].host = reservation[r].host
                            /\ ~reservation'[q].released => q = r
      BY <1>4, <1>6, <1>8, <2>2, <3>1 DEF Inv, Reserving
    <3>4. row'[reservation[r].case] = row[reservation[r].case]
      BY <3>1 DEF RowsOfOthersStay
    <3> QED
      BY <2>2, <3>1, <3>2, <3>3, <3>4 DEF Inv, Reserving, hostVars
  <2> QED
    BY <1>6, <2>1, <2>2
<1>15. AssignmentInv'
  <2>1. \A r \in Used : Same(reservation[r], reservation'[r])
    BY <1>4, <1>8
  <2>2. Assigned(c) => row[c].source = h
    BY NoOneAssumption DEF Assigned, Inv, AssignmentInv, AssignedAt, NoOneAssumption
  <2>3. UNCHANGED <<assignment, active, operator>>
    BY DEF hostVars
  <2> QED
    BY <1>9, <2>1, <2>2, <2>3, HostsStay
<1>16. LeaseInv'
  BY LeaseKept DEF Inv
<1>17. StageInv'
  <2> SUFFICES ASSUME NEW d \in Case PROVE StageOf(d)'
    BY DEF StageInv
  <2>1. CASE d = c
    <3>1. f \in OfRevision(d)'
      BY <1>4, <1>6, <2>1 DEF OfRevision
    <3>2. ASSUME NEW r \in OfRevision(d)', Live(r)' PROVE r = f
      <4>1. r \in Used' /\ reservation'[r].case = c /\ ~reservation'[r].released
        BY <2>1, <3>2 DEF OfRevision, Live, Unreleased
      <4> QED
        BY <1>6, <1>8, <4>1
    <3> QED
      BY <1>4, <2>1, <3>1, <3>2 DEF StageOf
  <2>2. CASE d # c
    <3>1. row'[d] = row[d]
      BY <2>2 DEF RowsOfOthersStay
    <3>2. OfRevision(d)' = OfRevision(d)
      BY <1>4, <1>6, <1>8, <2>2, <3>1 DEF OfRevision
    <3>3. \A r \in OfRevision(d) : Live(r)' => Live(r) /\ reservation'[r] = reservation[r]
      BY <1>6, <1>8 DEF OfRevision, Live, Unreleased
    <3> QED
      BY <3>1, <3>2, <3>3 DEF StageOf, Inv, StageInv
  <2> QED
    BY <2>1, <2>2
<1>18. FetchInv'
  <2>1. \A r \in Used : /\ r \in Used' /\ reservation'[r].started = reservation[r].started
                        /\ reservation'[r].generation = reservation[r].generation
    BY <1>4, <1>6, <1>8
  <2> QED
    BY <2>1, FetchKept DEF Inv
<1>19. OneCurrentWebsite'
  <2>1. \A d \in Case \ {c} : Current(d)' => Current(d)
    BY DEF Current, IsOpen, Assigned, RowsOfOthersStay, hostVars
  <2> QED
    BY <2>1, WebsiteKept DEF Inv
<1> QED
  BY <1>10, <1>11, <1>12, <1>13, <1>14, <1>15, <1>16, <1>17, <1>18, <1>19 DEF Inv

\* The first message of a Discovery
LEMMA MessageSent ==
  ASSUME Inv, MaySend(Following(Used), 0), Following(Used) <= MaxReservations
  PROVE  broker' \subseteq Message
<1>1. Following(Used) \in Reservation /\ 0 \in 0..MaxGenerations /\ broker \subseteq Message
  BY Typed, Numbers DEF Reservation, Works
<1> QED
  BY <1>1 DEF MaySend, Message

LEMMA ApproveUrlKeeps ==
  ASSUME Inv, NEW c \in Case, NEW o \in Operator, ApproveUrl(c, o)
  PROVE  Inv'
<1>1. /\ OnlyWebsite(c) /\ row[c].state = "pending" /\ row[c].responsible = o
      /\ ~\E r \in Used : Live(r) /\ reservation[r].case = c
      /\ Available(row[c].host, c)
      /\ Following(Used) <= MaxReservations
      /\ reservation' = Reserved(row[c].host, c, row[c].revision)
      /\ Renewed(o, c, row[c].revision)
      /\ UNCHANGED <<submitter, version, hostVars, repairs, fetching>>
  BY DEF ApproveUrl, Reviews, Renewed
<1>2. row[c] \in Row /\ row[c].revision \in 1..MaxRevision /\ ~row[c].discarded
      /\ row[c].host \in Host
  BY <1>1, Typed DEF Inv, CaseInv
<1> DEFINE x == [row[c] EXCEPT !.source = row[c].host, !.stage = "queued"]
<1>3. x \in Row
  <2>1. "queued" \in Stages
    BY DEF Stages
  <2> QED
    BY <1>2, <2>1, RowChanges, Zenon
<1>4. row' = [row EXCEPT ![c] = x]
  BY Zenon DEF ApproveUrl
<1>5. /\ x.state = "pending" /\ x.stage = "queued" /\ ~x.discarded
      /\ x.revision = row[c].revision /\ x.responsible = row[c].responsible
      /\ x.host = row[c].host /\ x.source = row[c].host
  BY <1>1, <1>2 DEF Row
<1> HIDE DEF x
<1>6. Rows' /\ row'[c] = x /\ RowsOfOthersStay(c)
  BY <1>3, <1>4, Typed, RowMoves
<1>7. /\ Leases' /\ \A d \in Case \ {c} : claim'[d] = claim[d]
      /\ claim'[c].by = o
      /\ claim'[c].revision = row[c].revision \/ claim'[c] = claim[c]
  BY <1>1, <1>2, Typed, LeasesDo
<1>8. LeaseOf(c)'
  <2>1. claim'[c] = claim[c] => claim[c].revision = row[c].revision
    BY <1>7, NoOneAssumption DEF Inv, LeaseInv, LeaseOf, NoClaim, NoOneAssumption
  <2> QED
    BY <1>1, <1>5, <1>6, <1>7, <2>1 DEF LeaseOf
<1>9. broker' \subseteq Message
  BY MessageSent DEF ApproveUrl
<1>10. row[c].revision >= row[c].revision
  BY <1>2
<1> QED
  BY <1>1, <1>2, <1>5, <1>6, <1>7, <1>8, <1>9, <1>10, ReservingStep

LEMMA StartProfileReviewKeeps ==
  ASSUME Inv, NEW c \in Case, NEW o \in Operator, StartProfileReview(c, o)
  PROVE  Inv'
<1> DEFINE n == row[c].revision + 1
<1>1. /\ OnlyWebsite(c) /\ row[c].state = "approved" /\ row[c].responsible = o
      /\ row[c].revision < MaxRevision
      /\ ~\E r \in Used : Live(r) /\ reservation[r].case = c
      /\ Available(row[c].host, c)
      /\ Following(Used) <= MaxReservations
      /\ reservation' = Reserved(row[c].host, c, n)
      /\ Renewed(o, c, n)
      /\ UNCHANGED <<submitter, version, hostVars, repairs, fetching>>
  BY DEF StartProfileReview, Renewed
<1>2. row[c] \in Row /\ n \in 1..MaxRevision /\ n >= row[c].revision /\ ~row[c].discarded
      /\ row[c].host \in Host
  BY <1>1, Typed DEF Inv, CaseInv
<1> DEFINE x == [row[c] EXCEPT !.state = "pending", !.revision = n, !.source = row[c].host,
                               !.stage = "queued"]
<1>3. x \in Row
  <2>1. "queued" \in Stages /\ "pending" \in States
    BY DEF Stages, States
  <2> HIDE DEF n
  <2> QED
    BY <1>2, <2>1, RowChanges, Zenon
<1>4. row' = [row EXCEPT ![c] = x]
  BY DEF StartProfileReview
<1>5. /\ x.state = "pending" /\ x.stage = "queued" /\ ~x.discarded
      /\ x.revision = n /\ x.responsible = row[c].responsible
      /\ x.host = row[c].host /\ x.source = row[c].host
  BY <1>1, <1>2 DEF Row
<1> HIDE DEF x, n
<1>6. Rows' /\ row'[c] = x /\ RowsOfOthersStay(c)
  BY <1>3, <1>4, Typed, RowMoves
<1>7. claim[c] = NoClaim
  BY <1>1 DEF Inv, LeaseInv, LeaseOf
<1>8. /\ Leases' /\ \A d \in Case \ {c} : claim'[d] = claim[d]
      /\ claim'[c].by = o
      /\ claim'[c].revision = n \/ claim'[c] = claim[c]
  BY <1>1, <1>2, Typed, LeasesDo
<1>9. LeaseOf(c)'
  BY <1>1, <1>5, <1>6, <1>7, <1>8, NoOneAssumption DEF LeaseOf, NoClaim, NoOneAssumption
<1>10. broker' \subseteq Message
  BY MessageSent DEF StartProfileReview
<1> QED
  BY <1>1, <1>2, <1>5, <1>6, <1>8, <1>9, <1>10, ReservingStep

-----------------------------------------------------------------------------
(* The theorems.                                                            *)

LEMMA CaseStep == Inv /\ [Next]_vars => Inv'
<1> SUFFICES ASSUME Inv, [Next]_vars PROVE Inv'
  OBVIOUS
<1>1. ASSUME NEW c \in Case, NEW o \in Operator, Review(c, o) PROVE Inv'
  <2>1. CASE ApproveUrl(c, o)
    BY <2>1, ApproveUrlKeeps
  <2>2. CASE StartProfileReview(c, o)
    BY <2>2, StartProfileReviewKeeps
  <2>3. CASE EditProfile(c, o)
    BY <2>3, EditProfileKeeps
  <2>4. CASE BeginRepair(c, o)
    BY <2>4, BeginRepairKeeps
  <2>5. CASE ApproveProfile(c, o)
    BY <2>5, ApproveProfileKeeps
  <2>6. CASE Revoke(c, o)
    BY <2>6, RevokeKeeps
  <2>7. CASE \E outcome \in {"changes_requested", "rejected"} : Decide(c, o, outcome)
    BY <2>7, DecideKeeps
  <2> QED
    BY <1>1, <2>1, <2>2, <2>3, <2>4, <2>5, <2>6, <2>7 DEF Review
<1>2. ASSUME NEW c \in Case,
             \/ Discard(c) \/ ReleaseCase(c) \/ ExpireReservations(c) \/ Reassign(c, NoOne)
             \/ \E h \in Host : Introduce(c, h) \/ Resubmit(c, h)
             \/ \E o \in Operator : Take(c, o) \/ Claim(c, o) \/ Reassign(c, o) \/ Review(c, o)
      PROVE  Inv'
  <2>1. CASE Discard(c)
    BY <2>1, DiscardKeeps
  <2>2. CASE ReleaseCase(c)
    BY <2>2, ReleaseCaseKeeps
  <2>3. CASE ExpireReservations(c)
    BY <2>3, ExpireReservationsKeeps
  <2>4. CASE Reassign(c, NoOne)
    BY <2>4, ReassignKeeps
  <2>5. CASE \E h \in Host : Introduce(c, h) \/ Resubmit(c, h)
    BY <2>5, IntroduceKeeps, ResubmitKeeps
  <2>6. CASE \E o \in Operator : Take(c, o) \/ Claim(c, o) \/ Reassign(c, o) \/ Review(c, o)
    BY <1>1, <2>6, TakeKeeps, ClaimKeeps, ReassignKeeps
  <2> QED
    BY <1>2, <2>1, <2>2, <2>3, <2>4, <2>5, <2>6
<1>3. ASSUME NEW m \in Message, Start(m) \/ Checkpoint(m) \/ End(m) PROVE Inv'
  BY <1>3, StartKeeps, CheckpointKeeps, LoseWorkerKeeps, FinishKeeps DEF End
<1>4. ASSUME NEW r \in Reservation, GrowStale(r) \/ Recover(r) \/ Expire(r) \/ Redeliver(r)
      PROVE  Inv'
  BY <1>4, GrowStaleKeeps, RecoverKeeps, ExpireKeeps, RedeliverKeeps
<1>5. ASSUME NEW p \in repairs, EndRepair(p) \/ FailRepair(p) PROVE Inv'
  BY <1>5, EndRepairKeeps, FailRepairKeeps
<1>6. CASE UNCHANGED vars
  <2> USE <1>6 DEF vars, caseVars, hostVars, workVars
  <2>1. TypeOK'
    BY DEF Inv, TypeOK
  <2>2. Used' = Used /\ Written' = Written
    BY DEF Used, Written
  <2>3. Counted' /\ CaseInv' /\ OfItsCase' /\ Reserving' /\ VersionInv'
    BY <2>2 DEF Inv, Counted, CaseInv, OfItsCase, Reserving, VersionInv
  <2>4. AssignmentInv' /\ LeaseInv' /\ FetchInv'
    BY <2>2 DEF Inv, AssignmentInv, AssignedAt, InForceAt, VersionsOf, LeaseInv, LeaseOf, FetchInv
  <2>5. StageInv'
    BY StageStays DEF StageInv
  <2>6. OneCurrentWebsite'
    BY DEF Inv, OneCurrentWebsite, IsOpen, Assigned
  <2> QED
    BY <2>1, <2>3, <2>4, <2>5, <2>6 DEF Inv
<1> QED
  BY <1>2, <1>3, <1>4, <1>5, <1>6 DEF Next

\* The rows of cases, hosts, claims, reservations and assignments keep to each
\* other and to the current revision, whatever services, workers and deadlines
\* come between.
THEOREM CasesKeepInv == Spec => []Inv
BY CaseStart, CaseStep, PTL DEF Spec

\* What Inv says of the stage that is shown
LEMMA ShownStage == Inv => StageTellsDiscovery
<1> SUFFICES ASSUME Inv, NEW c \in Case, row[c].state = "pending",
                    NEW r, r = NewestReservation(c)
             PROVE  Shown(c) \in
                      CASE r = 0                     -> {"awaiting_url", "released"}
                        [] r # 0 /\ ~Live(r)         -> {"released", "failed"}
                        [] OTHER -> {IF reservation[r].completed THEN "complete"
                                     ELSE IF reservation[r].started THEN "running" ELSE "queued"}
  BY DEF StageTellsDiscovery
<1>1. /\ OfRevision(c) = {} => r = 0
      /\ OfRevision(c) # {} => r \in OfRevision(c)
      /\ 0 \notin Used
  BY Typed, Numbers DEF Reservation
<1>2. Shown(c) = IF row[c].state = "pending" /\ r # 0 /\ ~Live(r) /\ row[c].stage # "failed"
                 THEN "released" ELSE row[c].stage
  BY DEF Shown
<1>3. CASE r = 0
  <2>1. OfRevision(c) = {}
    BY <1>1, <1>3 DEF OfRevision
  <2>2. row[c].stage \in {"awaiting_url", "released"}
    BY <2>1 DEF Inv, StageInv, StageOf
  <2> QED
    BY <1>2, <1>3, <2>2
<1>4. CASE r # 0 /\ ~Live(r)
  BY <1>2, <1>4
<1>5. CASE r # 0 /\ Live(r)
  <2>1. r \in OfRevision(c)
    BY <1>1, <1>5
  <2>2. row[c].stage = IF reservation[r].completed THEN "complete"
                       ELSE IF reservation[r].started THEN "running" ELSE "queued"
    BY <1>5, <2>1 DEF Inv, StageInv, StageOf
  <2> QED
    BY <1>2, <1>5, <2>2
<1> QED
  BY <1>3, <1>4, <1>5

\* CasesAreSound: a submitter has one website, a host one case; claims, Sources
\* and active profiles follow responsibility and approval; what is reserved is
\* under review; the stage shown is that of the newest Discovery.
THEOREM CasesStand == Spec => []CasesAreSound
<1>1. Inv => CasesAreSound
  <2> SUFFICES ASSUME Inv PROVE CasesAreSound
    OBVIOUS
  <2>1. HostIsExclusive
    BY DEF Inv, Reserving, AssignmentInv, AssignedAt, HostIsExclusive, Unreleased
  <2>2. ClaimsFollowResponsibility
    BY DEF Inv, LeaseInv, LeaseOf, ClaimsFollowResponsibility
  <2>3. SourceKnowsItsOperator
    BY DEF Inv, AssignmentInv, AssignedAt, SourceKnowsItsOperator
  <2>4. ActiveIsApproved
    BY DEF Inv, AssignmentInv, InForceAt, ActiveIsApproved
  <2>5. ReservedForReview
    BY DEF Inv, Reserving, ReservedForReview, Unreleased
  <2> QED
    BY <2>1, <2>2, <2>3, <2>4, <2>5, ShownStage DEF Inv, CasesAreSound
<1> QED
  BY <1>1, CasesKeepInv, PTL

\* OneFetcher: however often the messages of a reservation are delivered, one
\* worker fetches for it.
THEOREM OneWorkerFetches == Spec => []OneFetcher
<1>1. Inv => OneFetcher
  <2> SUFFICES ASSUME Inv, NEW m \in Message, NEW n \in Message, m.reservation = n.reservation,
                      fetching[m] > 0, fetching[n] > 0
               PROVE  m = n /\ fetching[m] = 1
    BY DEF OneFetcher
  <2>1. fetching[m] = 1 /\ fetching[n] = 1 /\ m.generation = n.generation
    BY DEF Inv, FetchInv
  <2> QED
    BY <2>1 DEF Message
<1> QED
  BY <1>1, CasesKeepInv, PTL

\* LateWorkersLeaveTheCase: a worker whose reservation has ended or was taken
\* from it neither proposes a version nor writes the case.
THEOREM LateWorkers == Spec => LateWorkersLeaveTheCase
<1>1. Inv /\ [Next]_vars =>
        [\A m \in Message : fetching'[m] < fetching[m] /\ (row' # row \/ version' # version) =>
             /\ Live(m.reservation) /\ ~reservation[m.reservation].completed
             /\ row[reservation[m.reservation].case].state = "pending"]_vars
  <2> SUFFICES ASSUME Inv, Next, NEW m \in Message, fetching'[m] < fetching[m],
                      row' # row \/ version' # version
               PROVE  /\ Live(m.reservation) /\ ~reservation[m.reservation].completed
                      /\ row[reservation[m.reservation].case].state = "pending"
    OBVIOUS
  <2>1. fetching \in [Message -> Nat] /\ ~UNCHANGED fetching
    <3>1. fetching \in [Message -> Nat]
      BY Typed DEF Works
    <3> QED
      BY <3>1
  <2>2. \E k \in Message : Start(k) \/ Checkpoint(k) \/ End(k)
    <3>1. \A c \in Case, o \in Operator : ~Review(c, o)
      BY <2>1 DEF Review, ApproveUrl, StartProfileReview, EditProfile, BeginRepair,
         ApproveProfile, Revoke, Decide, workVars
    <3>2. \A c \in Case : ~Discard(c) /\ ~ReleaseCase(c)
      BY <2>1, Zenon DEF Discard, ReleaseCase, workVars
    <3>3. \A c \in Case, h \in Host : ~Introduce(c, h)
      BY <2>1, Zenon DEF Introduce, workVars
    <3>4. \A c \in Case, h \in Host : ~Resubmit(c, h)
      BY <2>1, Zenon DEF Resubmit, workVars
    <3>5. \A c \in Case : ~ExpireReservations(c)
      BY <2>1, Zenon DEF ExpireReservations, workVars
    <3>6. \A c \in Case, o \in Operator \cup {NoOne} : ~Take(c, o) /\ ~Claim(c, o) /\ ~Reassign(c, o)
      BY <2>1 DEF Take, Claim, Reassign, workVars
    <3>7. \A r \in Reservation : ~GrowStale(r) /\ ~Recover(r) /\ ~Expire(r) /\ ~Redeliver(r)
      BY <2>1 DEF GrowStale, Recover, Expire, Redeliver, workVars
    <3>8. \A p \in repairs : ~EndRepair(p) /\ ~FailRepair(p)
      BY <2>1 DEF EndRepair, FailRepair, workVars
    <3> QED
      BY <3>1, <3>2, <3>3, <3>4, <3>5, <3>6, <3>7, <3>8 DEF Next
  <2>3. PICK k \in Message : Start(k) \/ Checkpoint(k) \/ End(k)
    BY <2>2
  <2>4. ~Start(k)
    BY <2>1 DEF Start
  <2>5. ASSUME fetching' = [fetching EXCEPT ![k] = @ - 1] PROVE k = m
    BY <2>1, <2>5
  <2>6. Live(k.reservation) /\ ~reservation[k.reservation].completed /\ k = m
    <3>1. CASE Checkpoint(k)
      BY <2>5, <3>1 DEF Checkpoint
    <3>2. CASE LoseWorker(k)
      BY <3>2 DEF LoseWorker, caseVars
    <3>3. CASE \E outcome \in {"profile", "nothing", "failed"} : Finish(k, outcome)
      BY <2>5, <3>3 DEF Finish
    <3> QED
      BY <2>3, <2>4, <3>1, <3>2, <3>3 DEF End
  <2> QED
    BY <2>6 DEF Live, Unreleased, Inv, Reserving
<1> QED
  BY <1>1, CasesKeepInv, PTL DEF Spec, LateWorkersLeaveTheCase
-----------------------------------------------------------------------------
(* Repairs.                                                                 *)

\* Whoever gets a case counts as another transfer.
TransfersCount(c) ==
    \/ row'[c].transfers = row[c].transfers /\ row'[c].responsible = row[c].responsible
    \/ row'[c].transfers = row[c].transfers + 1

\* What keeps the row, or writes other columns of it, is no transfer.
LEMMA NoTransfer ==
  ASSUME Inv, NEW c \in Case,
         \/ row' = row
         \/ \E d \in Case, x \in Row :
               /\ row' = [row EXCEPT ![d] = x]
               /\ x.transfers = row[d].transfers /\ x.responsible = row[d].responsible
  PROVE  TransfersCount(c)
<1>1. row \in [Case -> Row]
  BY Typed DEF Rows
<1> QED
  BY <1>1 DEF TransfersCount

LEMMA Transfer ==
  ASSUME Inv, NEW c \in Case, NEW d \in Case, NEW o, row' = Transferred(d, o)
  PROVE  TransfersCount(c)
<1> DEFINE x == [row[d] EXCEPT !.responsible = o, !.transfers = row[d].transfers + 1]
<1>1. row \in [Case -> Row] /\ row[d] \in Row
  BY Typed DEF Rows
<1>2. x.transfers = row[d].transfers + 1
  BY <1>1 DEF Row
<1>3. row' = [row EXCEPT ![d] = x]
  BY DEF Transferred
<1> HIDE DEF x
<1> QED
  BY <1>1, <1>2, <1>3 DEF TransfersCount

LEMMA TransfersAreCounted ==
  ASSUME Inv, [Next]_vars, NEW c \in Case
  PROVE  TransfersCount(c)
<1>0. row \in [Case -> Row] /\ \A d \in Case : row[d] \in Row
  BY Typed DEF Rows
<1>1. ASSUME NEW d \in Case, NEW o \in Operator, Review(d, o) PROVE TransfersCount(c)
  <2>1. CASE ApproveUrl(d, o)
    <3> DEFINE x == [row[d] EXCEPT !.source = row[d].host, !.stage = "queued"]
    <3>1. row' = [row EXCEPT ![d] = x] /\ x.transfers = row[d].transfers
          /\ x.responsible = row[d].responsible
      BY <1>0, <2>1 DEF ApproveUrl, Row
    <3> HIDE DEF x
    <3> QED
      BY <1>0, <3>1 DEF TransfersCount
  <2>2. CASE StartProfileReview(d, o)
    <3> DEFINE x == [row[d] EXCEPT !.state = "pending", !.revision = @ + 1,
                                   !.source = row[d].host, !.stage = "queued"]
    <3>1. row' = [row EXCEPT ![d] = x] /\ x.transfers = row[d].transfers
          /\ x.responsible = row[d].responsible
      BY <1>0, <2>2 DEF StartProfileReview, Row
    <3> HIDE DEF x
    <3> QED
      BY <1>0, <3>1 DEF TransfersCount
  <2>3. CASE EditProfile(d, o) \/ BeginRepair(d, o)
    BY <2>3, NoTransfer DEF EditProfile, BeginRepair
  <2>4. ASSUME NEW s, row' = [row EXCEPT ![d].state = s] PROVE TransfersCount(c)
    <3> DEFINE x == [row[d] EXCEPT !.state = s]
    <3>1. row' = [row EXCEPT ![d] = x] /\ x.transfers = row[d].transfers
          /\ x.responsible = row[d].responsible
      BY <1>0, <2>4 DEF Row
    <3> HIDE DEF x
    <3> QED
      BY <1>0, <3>1 DEF TransfersCount
  <2>5. CASE ApproveProfile(d, o)
    BY <2>4, <2>5 DEF ApproveProfile
  <2>6. CASE Revoke(d, o)
    <3> DEFINE x == [row[d] EXCEPT !.state = "revoked", !.revision = @ + 1]
    <3>1. row' = [row EXCEPT ![d] = x] /\ x.transfers = row[d].transfers
          /\ x.responsible = row[d].responsible
      BY <1>0, <2>6 DEF Revoke, Row
    <3> HIDE DEF x
    <3> QED
      BY <1>0, <3>1 DEF TransfersCount
  <2>7. CASE \E outcome \in {"changes_requested", "rejected"} : Decide(d, o, outcome)
    BY <2>4, <2>7 DEF Decide
  <2> QED
    BY <1>1, <2>1, <2>2, <2>3, <2>5, <2>6, <2>7 DEF Review
<1>2. ASSUME NEW d \in Case, NEW g, row' = [row EXCEPT ![d].stage = g] PROVE TransfersCount(c)
  <2> DEFINE x == [row[d] EXCEPT !.stage = g]
  <2>1. row' = [row EXCEPT ![d] = x] /\ x.transfers = row[d].transfers
        /\ x.responsible = row[d].responsible
    BY <1>0, <1>2 DEF Row
  <2> HIDE DEF x
  <2> QED
    BY <1>0, <2>1 DEF TransfersCount
<1>3. ASSUME NEW d \in Case, NEW o \in Operator \cup {NoOne},
             Take(d, o) \/ Claim(d, o) \/ Reassign(d, o)
      PROVE  TransfersCount(c)
  BY <1>3, Transfer, NoTransfer DEF Take, Claim, Reassign
<1>4. ASSUME NEW d \in Case, NEW h \in Host, Introduce(d, h) \/ Resubmit(d, h)
      PROVE  TransfersCount(c)
  <2>1. CASE Introduce(d, h)
    <3> DEFINE x == [row[d] EXCEPT !.state = "pending", !.host = h]
    <3>1. row' = [row EXCEPT ![d] = x] /\ x.transfers = row[d].transfers
          /\ x.responsible = row[d].responsible
      BY <1>0, <2>1 DEF Introduce, Row
    <3> HIDE DEF x
    <3> QED
      BY <1>0, <3>1 DEF TransfersCount
  <2>2. CASE Resubmit(d, h)
    <3> DEFINE x == [row[d] EXCEPT !.state = "pending", !.revision = @ + 1, !.host = h,
                                   !.stage = "awaiting_url"]
    <3>1. row' = [row EXCEPT ![d] = x] /\ x.transfers = row[d].transfers
          /\ x.responsible = row[d].responsible
      BY <1>0, <2>2 DEF Resubmit, Row
    <3> HIDE DEF x
    <3> QED
      BY <1>0, <3>1 DEF TransfersCount
  <2> QED
    BY <1>4, <2>1, <2>2
<1>5. ASSUME NEW d \in Case, Discard(d) PROVE TransfersCount(c)
  <2> DEFINE x == [row[d] EXCEPT !.discarded = TRUE]
  <2>1. row' = [row EXCEPT ![d] = x] /\ x.transfers = row[d].transfers
        /\ x.responsible = row[d].responsible
    BY <1>0, <1>5 DEF Discard, Row
  <2> HIDE DEF x
  <2> QED
    BY <1>0, <2>1 DEF TransfersCount
<1>6. ASSUME NEW d \in Case, ReleaseCase(d) \/ ExpireReservations(d) PROVE TransfersCount(c)
  BY <1>2, <1>6 DEF ReleaseCase, ExpireReservations
\* A message may be about a reservation that was not made: then it is about no case.
<1>7. ASSUME NEW d, NEW g, row' = [row EXCEPT ![d].stage = g] PROVE TransfersCount(c)
  <2>1. CASE d \in Case
    BY <1>2, <1>7, <2>1
  <2>2. CASE d \notin Case
    BY <1>0, <1>7, <2>2 DEF TransfersCount
  <2> QED
    BY <2>1, <2>2
<1>8. ASSUME NEW m \in Message, Start(m) \/ Checkpoint(m) \/ End(m) PROVE TransfersCount(c)
  <2>1. CASE Start(m)
    BY <1>7, <2>1 DEF Start
  <2>2. CASE Checkpoint(m)
    BY <1>7, <2>2, NoTransfer DEF Checkpoint
  <2>3. CASE LoseWorker(m)
    BY <2>3, NoTransfer DEF LoseWorker, caseVars
  <2>4. CASE \E outcome \in {"profile", "nothing", "failed"} : Finish(m, outcome)
    BY <1>7, <2>4, NoTransfer DEF Finish
  <2> QED
    BY <1>8, <2>1, <2>2, <2>3, <2>4 DEF End
<1>9. ASSUME NEW r \in Reservation, GrowStale(r) \/ Recover(r) \/ Expire(r) \/ Redeliver(r)
      PROVE  TransfersCount(c)
  <2>1. CASE Recover(r)
    BY <1>7, <2>1, NoTransfer DEF Recover
  <2> QED
    BY <1>9, <2>1, NoTransfer DEF GrowStale, Expire, Redeliver, caseVars
<1>10. ASSUME NEW p \in repairs, EndRepair(p) \/ FailRepair(p) PROVE TransfersCount(c)
  BY <1>10, NoTransfer DEF EndRepair, FailRepair, caseVars
<1>11. CASE UNCHANGED vars
  BY <1>11, NoTransfer DEF vars, caseVars
<1> QED
  BY <1>1, <1>3, <1>4, <1>5, <1>6, <1>8, <1>9, <1>10, <1>11 DEF Next

(* A repair knows how often its case had been transferred: while that number *)
(* stands its operator is responsible, and it exceeds it once he was not.    *)
RepairFits(p) ==
    /\ p.transfers <= row[p.case].transfers
    /\ p.transfers = row[p.case].transfers => row[p.case].responsible = p.by
    /\ p \in estranged => p.transfers < row[p.case].transfers
RepairInv == Inv /\ estranged \subseteq repairs /\ \A p \in repairs : RepairFits(p)

\* Repairs come from BeginRepair.
LEMMA NewRepairs ==
  ASSUME [Next]_vars
  PROVE  \/ repairs' \subseteq repairs
         \/ \E c \in Case, o \in Operator : BeginRepair(c, o)
<1> SUFFICES ASSUME ~(repairs' \subseteq repairs)
             PROVE  \E c \in Case, o \in Operator : BeginRepair(c, o)
  OBVIOUS
<1>1. ~UNCHANGED repairs
  OBVIOUS
<1>2. \A c \in Case, o \in Operator : Review(c, o) => BeginRepair(c, o)
  BY <1>1 DEF Review, ApproveUrl, StartProfileReview, EditProfile, ApproveProfile, Revoke, Decide
<1>3. \A c \in Case : ~Discard(c) /\ ~ReleaseCase(c) /\ ~ExpireReservations(c)
  BY <1>1, Zenon DEF Discard, ReleaseCase, ExpireReservations
<1>4. \A c \in Case, h \in Host : ~Introduce(c, h) /\ ~Resubmit(c, h)
  BY <1>1, Zenon DEF Introduce, Resubmit
<1>5. \A c \in Case, o \in Operator \cup {NoOne} : ~Take(c, o) /\ ~Claim(c, o) /\ ~Reassign(c, o)
  BY <1>1, Zenon DEF Take, Claim, Reassign
<1>6. \A m \in Message : ~Start(m) /\ ~Checkpoint(m) /\ ~End(m)
  BY <1>1 DEF Start, Checkpoint, End, LoseWorker, Finish
<1>7. \A r \in Reservation : ~GrowStale(r) /\ ~Recover(r) /\ ~Expire(r) /\ ~Redeliver(r)
  BY <1>1, Zenon DEF GrowStale, Recover, Expire, Redeliver
<1>8. \A p \in repairs : ~EndRepair(p) /\ ~FailRepair(p)
  BY DEF EndRepair, FailRepair
<1>9. ~UNCHANGED vars
  BY <1>1 DEF vars
<1> QED
  BY <1>2, <1>3, <1>4, <1>5, <1>6, <1>7, <1>8, <1>9 DEF Next

LEMMA RepairStep == RepairInv /\ [RepairsNext]_repairVars => RepairInv'
<1> SUFFICES ASSUME RepairInv, [RepairsNext]_repairVars PROVE RepairInv'
  OBVIOUS
<1>1. Inv /\ [Next]_vars
  BY DEF RepairInv, RepairsNext, repairVars, vars
<1>2. Inv'
  BY <1>1, CaseStep
<1>3. /\ estranged' \subseteq repairs'
      /\ \A p \in repairs' : p \in estranged' =>
            p \in estranged \/ row'[p.case].responsible # p.by
  <2>1. CASE RepairsNext
    BY <2>1 DEF RepairsNext, Estrange
  <2>2. CASE UNCHANGED repairVars
    BY <2>2 DEF repairVars, vars, RepairInv
  <2> QED
    BY <2>1, <2>2
<1>4. \A p \in repairs' : /\ p.case \in Case /\ p.transfers \in Nat
                          /\ row'[p.case].transfers \in Nat
  <2>1. repairs' \subseteq Repair /\ row' \in [Case -> Row]
    BY <1>2 DEF Inv, TypeOK, Row
  <2>2. \A c \in Case : row'[c].transfers \in 0..MaxTransfers
    BY <2>1 DEF Row
  <2> QED
    BY <2>1, <2>2, BoundsAssumption DEF Repair, BoundsAssumption
<1>5. \A c \in Case : TransfersCount(c) /\ row[c].transfers \in Nat
  BY <1>1, TransfersAreCounted, Typed
<1>6. \A p \in repairs' : RepairFits(p) \/ /\ p.transfers = row[p.case].transfers
                                           /\ row[p.case].responsible = p.by
                                           /\ p \notin estranged
  <2>1. CASE repairs' \subseteq repairs
    BY <2>1 DEF RepairInv
  <2>2. ASSUME NEW c \in Case, NEW o \in Operator, BeginRepair(c, o),
               NEW p \in repairs', p \notin repairs
        PROVE  /\ p.transfers = row[p.case].transfers /\ row[p.case].responsible = p.by
               /\ p \notin estranged
    <3>1. p = [case |-> c, by |-> o, revision |-> row[c].revision,
               version |-> Proposed(c), transfers |-> row[c].transfers]
      BY <2>2 DEF BeginRepair
    <3>2. row[c].responsible = o
      BY <2>2 DEF BeginRepair, Reviews
    <3> HIDE DEF Proposed
    <3> QED
      BY <2>2, <3>1, <3>2 DEF RepairInv
  <2> QED
    BY <1>1, <2>1, <2>2, NewRepairs DEF RepairInv
<1>7. ASSUME NEW p \in repairs' PROVE RepairFits(p)'
  <2>1. /\ p.case \in Case /\ p.transfers \in Nat
        /\ row[p.case].transfers \in Nat /\ row'[p.case].transfers \in Nat
    BY <1>4, <1>5
  <2>2. /\ p.transfers <= row[p.case].transfers
        /\ p.transfers = row[p.case].transfers => row[p.case].responsible = p.by
        /\ p \in estranged => p.transfers < row[p.case].transfers
    BY <1>6, <2>1 DEF RepairFits
  <2>3. TransfersCount(p.case)
    BY <1>5, <2>1
  <2>4. p \in estranged' => p \in estranged \/ row'[p.case].responsible # p.by
    BY <1>3
  <2> QED
    BY <2>1, <2>2, <2>3, <2>4 DEF RepairFits, TransfersCount
<1> QED
  BY <1>2, <1>3, <1>7 DEF RepairInv

\* WorkersKeepToTheCase: besides late workers, an answer of the model that comes
\* after the case was with another operator changes no version, even if it is
\* the operator's again who asked.
THEOREM RepairsKeepToTheCase == RepairsSpec => WorkersKeepToTheCase
<1>1. RepairsInit => RepairInv
  <2>1. RepairsInit => Inv
    BY CaseStart DEF RepairsInit
  <2> QED
    BY <2>1 DEF RepairsInit, Init, RepairInv
<1>2. RepairInv /\ [RepairsNext]_repairVars =>
        [\A p \in repairs \ repairs' : version' # version => p \notin estranged]_repairVars
  <2> SUFFICES ASSUME RepairInv, RepairsNext, NEW p \in repairs \ repairs', version' # version
               PROVE  p \notin estranged
    OBVIOUS
  <2>1. Next /\ ~UNCHANGED repairs /\ ~UNCHANGED version
    BY DEF RepairsNext
  <2>2. EndRepair(p)
    <3>1. \A c \in Case, o \in Operator : ~Review(c, o)
      <4>1. \A c \in Case, o \in Operator : ~BeginRepair(c, o)
        BY <2>1 DEF BeginRepair
      <4> QED
        BY <2>1, <4>1 DEF Review, ApproveUrl, StartProfileReview, EditProfile, ApproveProfile,
           Revoke, Decide
    <3>2. \A c \in Case : ~Discard(c) /\ ~ReleaseCase(c) /\ ~ExpireReservations(c)
      BY <2>1, Zenon DEF Discard, ReleaseCase, ExpireReservations
    <3>3. \A c \in Case, h \in Host : ~Introduce(c, h) /\ ~Resubmit(c, h)
      BY <2>1, Zenon DEF Introduce, Resubmit
    <3>4. \A c \in Case, o \in Operator \cup {NoOne} :
             ~Take(c, o) /\ ~Claim(c, o) /\ ~Reassign(c, o)
      BY <2>1, Zenon DEF Take, Claim, Reassign
    <3>5. \A m \in Message : ~Start(m) /\ ~Checkpoint(m) /\ ~End(m)
      BY <2>1 DEF Start, Checkpoint, End, LoseWorker, Finish
    <3>6. \A r \in Reservation : ~GrowStale(r) /\ ~Recover(r) /\ ~Expire(r) /\ ~Redeliver(r)
      BY <2>1, Zenon DEF GrowStale, Recover, Expire, Redeliver
    <3>7. PICK q \in repairs : EndRepair(q) \/ FailRepair(q)
      BY <2>1, <3>1, <3>2, <3>3, <3>4, <3>5, <3>6 DEF Next
    <3>8. EndRepair(q)
      BY <2>1, <3>7 DEF FailRepair
    <3>9. repairs' = repairs \ {q}
      BY <3>8 DEF EndRepair
    <3> QED
      BY <3>8, <3>9
  <2>3. row[p.case].transfers = p.transfers
    BY <2>2 DEF EndRepair, StillCurrent
  <2>4. p.case \in Case /\ p.transfers \in Nat
    <3>1. Works
      BY Typed DEF RepairInv
    <3> QED
      BY <3>1, BoundsAssumption DEF Works, Repair, BoundsAssumption
  <2> QED
    BY <2>3, <2>4 DEF RepairInv, RepairFits
<1>3. RepairsSpec => Spec
  <2>1. RepairsInit => Init
    BY DEF RepairsInit
  <2>2. [RepairsNext]_repairVars => [Next]_vars
    BY DEF RepairsNext, repairVars, vars
  <2> QED
    BY <2>1, <2>2, PTL DEF RepairsSpec, Spec
<1> QED
  BY <1>1, <1>2, <1>3, RepairStep, LateWorkers, PTL
  DEF RepairsSpec, WorkersKeepToTheCase, RepairsKeepTheirReview

=============================================================================
