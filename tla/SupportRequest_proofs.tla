------------------------ MODULE SupportRequest_proofs ------------------------
(***************************************************************************)
(* Proofs about SupportRequest: the row, its history and what the          *)
(* requester is shown agree, work changes hands only to whoever may do it, *)
(* and what was redacted stays redacted.                                   *)
(***************************************************************************)
EXTENDS SupportRequest, SequenceTheorems, WellFoundedInduction, TLAPS

-----------------------------------------------------------------------------
(* The history.                                                             *)

Moves == {"assigned", "released", "reassigned", "escalated", "resolved", "reopened"}

Chained(h) == \A i \in 1..Len(h) : h[i].prior = IF i = 1 THEN "open" ELSE h[i-1].new
Standing(h) == IF h = <<>> THEN "open" ELSE h[Len(h)].new
Holder(h) == IF Latest(h, Moves) = 0 THEN None ELSE h[Latest(h, Moves)].after
Shown(h) ==
    IF Latest(h, PublicEvents) = 0 THEN "received" ELSE PublicStatusOf(h[Latest(h, PublicEvents)])

\* The least of some numbers
LEMMA LeastNumber ==
  ASSUME NEW S, S \subseteq Nat, S # {}
  PROVE  \E n \in S : \A m \in S : n <= m
<1> DEFINE Less == {ss \in Nat \X Nat : ss[1] < ss[2]}
<1>0. IsWellFoundedOn(Less, Nat)
  BY NatLessThanWellFounded, Zenon DEF OpToRel
<1>1. PICK n \in S : \A m \in S : ~ (<<m, n>> \in Less)
  <2> HIDE DEF Less
  <2> QED
    BY <1>0, WFMin
<1>2. ASSUME NEW m \in S PROVE n <= m
  <2>1. n \in Nat /\ m \in Nat
    OBVIOUS
  <2>2. ~ (m < n)
    BY <1>1, <2>1
  <2> QED
    BY <2>1, <2>2
<1> QED
  BY <1>2

\* The latest event of some types is one of them, and none of them is later.
LEMMA LatestOfSome ==
  ASSUME NEW h \in Seq(SupportRequestEvent), NEW types
  PROVE  /\ Latest(h, types) \in 0..Len(h)
         /\ Latest(h, types) # 0 => h[Latest(h, types)].type \in types
         /\ \A i \in 1..Len(h) : h[i].type \in types => i <= Latest(h, types)
<1> DEFINE I == {i \in 1..Len(h) : h[i].type \in types}
           S == I \cup {0}
           n == Len(h)
<1>1. n \in Nat /\ S \subseteq 0..n
  BY LenProperties
<1> HIDE DEF n, S
<1> DEFINE T == {n - m : m \in S}
<1>2. T \subseteq Nat /\ T # {}
  <2>1. \A m \in S : n - m \in Nat
    BY <1>1
  <2>2. 0 \in S
    BY DEF S
  <2> QED
    BY <2>1, <2>2
<1> HIDE DEF T
<1>3. PICK t \in T : \A s \in T : t <= s
  BY <1>2, LeastNumber
<1> USE DEF T
<1>4. PICK k \in S : t = n - k
  OBVIOUS
<1>5. ASSUME NEW m \in S PROVE m <= k
  <2>1. n - k <= n - m
    BY <1>3, <1>4
  <2> QED
    BY <1>1, <2>1
<1>6. Latest(h, types) = CHOOSE i \in S : \A j \in I : j <= i
  BY DEF Latest, S
<1>7. Latest(h, types) \in S /\ \A j \in I : j <= Latest(h, types)
  BY <1>5, <1>6 DEF S
<1> QED
  BY <1>1, <1>7 DEF S, n

\* An event added is the latest of its types.
LEMMA LatestOfMore ==
  ASSUME NEW h \in Seq(SupportRequestEvent), NEW e \in SupportRequestEvent, NEW types
  PROVE  Latest(Append(h, e), types) = IF e.type \in types THEN Len(h) + 1 ELSE Latest(h, types)
<1> DEFINE g == Append(h, e)
           I == {i \in 1..Len(h) : h[i].type \in types}
           J == {i \in 1..Len(g) : g[i].type \in types}
<1>1. /\ Len(h) \in Nat /\ Len(g) = Len(h) + 1
      /\ \A i \in 1..Len(h) : g[i] = h[i]
      /\ g[Len(h) + 1] = e
  BY AppendProperties, LenProperties
<1> HIDE DEF g
<1>2. CASE e.type \in types
  <2>1. J = I \cup {Len(h) + 1}
    BY <1>1, <1>2
  <2>2. \A i \in J \cup {0} : (\A j \in J : j <= i) <=> i = Len(h) + 1
    BY <1>1, <2>1
  <2>3. Latest(g, types) = CHOOSE i \in J \cup {0} : \A j \in J : j <= i
    BY DEF Latest
  <2> HIDE DEF J
  <2>4. Latest(g, types) = Len(h) + 1
    BY <2>1, <2>2, <2>3
  <2> QED
    BY <1>2, <2>4 DEF g
<1>3. CASE e.type \notin types
  <2>1. J = I
    BY <1>1, <1>3
  <2>2. Latest(g, types) = Latest(h, types)
    BY <2>1, Zenon DEF Latest
  <2> QED
    BY <1>3, <2>2 DEF g
<1> QED
  BY <1>2, <1>3

\* What one more event does to the history
LEMMA OneMore ==
  ASSUME NEW h \in Seq(SupportRequestEvent), Chained(h), NEW e \in SupportRequestEvent,
         e.prior = Standing(h)
  PROVE  /\ Append(h, e) \in Seq(SupportRequestEvent) /\ Chained(Append(h, e))
         /\ Standing(Append(h, e)) = e.new
         /\ Holder(Append(h, e)) = IF e.type \in Moves THEN e.after ELSE Holder(h)
         /\ Shown(Append(h, e)) = IF e.type \in PublicEvents THEN PublicStatusOf(e) ELSE Shown(h)
<1> DEFINE g == Append(h, e)
<1>1. /\ Len(h) \in Nat /\ Len(g) = Len(h) + 1
      /\ \A i \in 1..Len(h) : g[i] = h[i]
      /\ g[Len(h) + 1] = e /\ g \in Seq(SupportRequestEvent) /\ g # <<>>
  BY AppendProperties, LenProperties
<1>2. \A types : Latest(h, types) \in 0..Len(h)
  BY LatestOfSome
<1>3. \A types : Latest(g, types) = IF e.type \in types THEN Len(h) + 1 ELSE Latest(h, types)
  BY LatestOfMore
<1>4. h = <<>> <=> Len(h) = 0
  BY EmptySeq, LenProperties
<1> HIDE DEF g
<1>5. Chained(g)
  <2> SUFFICES ASSUME NEW i \in 1..Len(g)
               PROVE  g[i].prior = IF i = 1 THEN "open" ELSE g[i-1].new
    BY DEF Chained
  <2>1. CASE i = Len(h) + 1
    BY <1>1, <1>4, <2>1 DEF Standing
  <2>2. CASE i # Len(h) + 1
    <3>1. i \in 1..Len(h) /\ (i # 1 => i - 1 \in 1..Len(h))
      BY <1>1, <2>2
    <3> QED
      BY <1>1, <3>1 DEF Chained
  <2> QED
    BY <2>1, <2>2
<1>6. Standing(g) = e.new
  BY <1>1 DEF Standing
<1>7. Holder(g) = IF e.type \in Moves THEN e.after ELSE Holder(h)
  BY <1>1, <1>2, <1>3 DEF Holder
<1>8. Shown(g) = IF e.type \in PublicEvents THEN PublicStatusOf(e) ELSE Shown(h)
  <2>1. CASE e.type \in PublicEvents
    BY <1>1, <1>3, <2>1 DEF Shown
  <2>2. CASE e.type \notin PublicEvents
    <3>1. Latest(g, PublicEvents) = Latest(h, PublicEvents)
      BY <1>3, <2>2
    <3>2. Latest(h, PublicEvents) # 0 => g[Latest(h, PublicEvents)] = h[Latest(h, PublicEvents)]
      BY <1>1, <1>2
    <3> QED
      BY <2>2, <3>1, <3>2 DEF Shown
  <2> QED
    BY <2>1, <2>2
<1> QED
  BY <1>1, <1>5, <1>6, <1>7, <1>8 DEF g

-----------------------------------------------------------------------------
(* The row.                                                                 *)

\* Two rows that differ in some fields at most
Same(r, s, fields) ==
    /\ "submitter" \in fields \/ s.submitter = r.submitter
    /\ "contact" \in fields \/ s.contact = r.contact
    /\ "kind" \in fields \/ s.kind = r.kind
    /\ "linked" \in fields \/ s.linked = r.linked
    /\ "classification" \in fields \/ s.classification = r.classification
    /\ "priority" \in fields \/ s.priority = r.priority
    /\ "locked" \in fields \/ s.locked = r.locked
    /\ "status" \in fields \/ s.status = r.status
    /\ "assignee" \in fields \/ s.assignee = r.assignee
    /\ "required" \in fields \/ s.required = r.required
    /\ "resolvedBy" \in fields \/ s.resolvedBy = r.resolvedBy
    /\ "category" \in fields \/ s.category = r.category
    /\ "recent" \in fields \/ s.recent = r.recent
    /\ "personal" \in fields \/ s.personal = r.personal
    /\ "redacted" \in fields \/ s.redacted = r.redacted
    /\ "public" \in fields \/ s.public = r.public
    /\ "read" \in fields \/ s.read = r.read

\* A field of a row written: of its state
LEMMA FieldsOfRow ==
  ASSUME NEW r \in SupportRequestRow
  PROVE  /\ \A v \in Status :
               /\ [r EXCEPT !.status = v] \in SupportRequestRow /\ [r EXCEPT !.status = v].status = v
               /\ Same(r, [r EXCEPT !.status = v], {"status"})
         /\ \A v \in Someone :
               /\ [r EXCEPT !.assignee = v] \in SupportRequestRow /\ [r EXCEPT !.assignee = v].assignee = v
               /\ Same(r, [r EXCEPT !.assignee = v], {"assignee"})
         /\ \A v \in Someone :
               /\ [r EXCEPT !.resolvedBy = v] \in SupportRequestRow /\ [r EXCEPT !.resolvedBy = v].resolvedBy = v
               /\ Same(r, [r EXCEPT !.resolvedBy = v], {"resolvedBy"})
         /\ \A v \in {"action_completed", "answered_externally", None} :
               /\ [r EXCEPT !.category = v] \in SupportRequestRow /\ [r EXCEPT !.category = v].category = v
               /\ Same(r, [r EXCEPT !.category = v], {"category"})
         /\ \A v \in BOOLEAN :
               /\ [r EXCEPT !.recent = v] \in SupportRequestRow /\ [r EXCEPT !.recent = v].recent = v
               /\ Same(r, [r EXCEPT !.recent = v], {"recent"})
         /\ \A v \in Nat :
               /\ [r EXCEPT !.public = v] \in SupportRequestRow /\ [r EXCEPT !.public = v].public = v
               /\ Same(r, [r EXCEPT !.public = v], {"public"})
         /\ \A v \in Nat :
               /\ [r EXCEPT !.read = v] \in SupportRequestRow /\ [r EXCEPT !.read = v].read = v
               /\ Same(r, [r EXCEPT !.read = v], {"read"})
<1>1. \A v \in Status :
         /\ [r EXCEPT !.status = v] \in SupportRequestRow /\ [r EXCEPT !.status = v].status = v
         /\ Same(r, [r EXCEPT !.status = v], {"status"})
  BY DEF SupportRequestRow, Same
<1>2. \A v \in Someone :
         /\ [r EXCEPT !.assignee = v] \in SupportRequestRow /\ [r EXCEPT !.assignee = v].assignee = v
         /\ Same(r, [r EXCEPT !.assignee = v], {"assignee"})
  BY DEF SupportRequestRow, Same
<1>3. \A v \in Someone :
         /\ [r EXCEPT !.resolvedBy = v] \in SupportRequestRow /\ [r EXCEPT !.resolvedBy = v].resolvedBy = v
         /\ Same(r, [r EXCEPT !.resolvedBy = v], {"resolvedBy"})
  BY DEF SupportRequestRow, Same
<1>4. \A v \in {"action_completed", "answered_externally", None} :
         /\ [r EXCEPT !.category = v] \in SupportRequestRow /\ [r EXCEPT !.category = v].category = v
         /\ Same(r, [r EXCEPT !.category = v], {"category"})
  BY DEF SupportRequestRow, Same
<1>5. \A v \in BOOLEAN :
         /\ [r EXCEPT !.recent = v] \in SupportRequestRow /\ [r EXCEPT !.recent = v].recent = v
         /\ Same(r, [r EXCEPT !.recent = v], {"recent"})
  BY DEF SupportRequestRow, Same
<1>6. \A v \in Nat :
         /\ [r EXCEPT !.public = v] \in SupportRequestRow /\ [r EXCEPT !.public = v].public = v
         /\ Same(r, [r EXCEPT !.public = v], {"public"})
  BY DEF SupportRequestRow, Same
<1>7. \A v \in Nat :
         /\ [r EXCEPT !.read = v] \in SupportRequestRow /\ [r EXCEPT !.read = v].read = v
         /\ Same(r, [r EXCEPT !.read = v], {"read"})
  BY DEF SupportRequestRow, Same
<1> QED
  BY <1>1, <1>2, <1>3, <1>4, <1>5, <1>6, <1>7, Zenon

\* A field of a row written: of what it is about
LEMMA FieldsOfIntake ==
  ASSUME NEW r \in SupportRequestRow
  PROVE  /\ \A v \in Someone :
               /\ [r EXCEPT !.submitter = v] \in SupportRequestRow /\ [r EXCEPT !.submitter = v].submitter = v
               /\ Same(r, [r EXCEPT !.submitter = v], {"submitter"})
         /\ \A v \in Someone :
               /\ [r EXCEPT !.contact = v] \in SupportRequestRow /\ [r EXCEPT !.contact = v].contact = v
               /\ Same(r, [r EXCEPT !.contact = v], {"contact"})
         /\ \A v \in Classifications \cup {"unclassified"} :
               /\ [r EXCEPT !.classification = v] \in SupportRequestRow /\ [r EXCEPT !.classification = v].classification = v
               /\ Same(r, [r EXCEPT !.classification = v], {"classification"})
         /\ \A v \in Priorities \cup {"normal", "urgent"} :
               /\ [r EXCEPT !.priority = v] \in SupportRequestRow /\ [r EXCEPT !.priority = v].priority = v
               /\ Same(r, [r EXCEPT !.priority = v], {"priority"})
         /\ \A v \in Required \cup {None} :
               /\ [r EXCEPT !.required = v] \in SupportRequestRow /\ [r EXCEPT !.required = v].required = v
               /\ Same(r, [r EXCEPT !.required = v], {"required"})
         /\ \A v \in BOOLEAN :
               /\ [r EXCEPT !.personal = v] \in SupportRequestRow /\ [r EXCEPT !.personal = v].personal = v
               /\ Same(r, [r EXCEPT !.personal = v], {"personal"})
         /\ \A v \in BOOLEAN :
               /\ [r EXCEPT !.redacted = v] \in SupportRequestRow /\ [r EXCEPT !.redacted = v].redacted = v
               /\ Same(r, [r EXCEPT !.redacted = v], {"redacted"})
<1>1. \A v \in Someone :
         /\ [r EXCEPT !.submitter = v] \in SupportRequestRow /\ [r EXCEPT !.submitter = v].submitter = v
         /\ Same(r, [r EXCEPT !.submitter = v], {"submitter"})
  BY DEF SupportRequestRow, Same
<1>2. \A v \in Someone :
         /\ [r EXCEPT !.contact = v] \in SupportRequestRow /\ [r EXCEPT !.contact = v].contact = v
         /\ Same(r, [r EXCEPT !.contact = v], {"contact"})
  BY DEF SupportRequestRow, Same
<1>3. \A v \in Classifications \cup {"unclassified"} :
         /\ [r EXCEPT !.classification = v] \in SupportRequestRow /\ [r EXCEPT !.classification = v].classification = v
         /\ Same(r, [r EXCEPT !.classification = v], {"classification"})
  BY DEF SupportRequestRow, Same
<1>4. \A v \in Priorities \cup {"normal", "urgent"} :
         /\ [r EXCEPT !.priority = v] \in SupportRequestRow /\ [r EXCEPT !.priority = v].priority = v
         /\ Same(r, [r EXCEPT !.priority = v], {"priority"})
  BY DEF SupportRequestRow, Same
<1>5. \A v \in Required \cup {None} :
         /\ [r EXCEPT !.required = v] \in SupportRequestRow /\ [r EXCEPT !.required = v].required = v
         /\ Same(r, [r EXCEPT !.required = v], {"required"})
  BY DEF SupportRequestRow, Same
<1>6. \A v \in BOOLEAN :
         /\ [r EXCEPT !.personal = v] \in SupportRequestRow /\ [r EXCEPT !.personal = v].personal = v
         /\ Same(r, [r EXCEPT !.personal = v], {"personal"})
  BY DEF SupportRequestRow, Same
<1>7. \A v \in BOOLEAN :
         /\ [r EXCEPT !.redacted = v] \in SupportRequestRow /\ [r EXCEPT !.redacted = v].redacted = v
         /\ Same(r, [r EXCEPT !.redacted = v], {"redacted"})
  BY DEF SupportRequestRow, Same
<1> QED
  BY <1>1, <1>2, <1>3, <1>4, <1>5, <1>6, <1>7, Zenon

\* An update that the requester is told of
LEMMA AnnouncedRow ==
  ASSUME NEW r \in SupportRequestRow
  PROVE  /\ Announced(r) \in SupportRequestRow /\ Announced(r).public = r.public + 1
         /\ Same(r, Announced(r), {"public"})
<1> DEFINE n == r.public + 1
<1>1. n \in Nat
  BY DEF SupportRequestRow
<1>2. Announced(r) = [r EXCEPT !.public = n]
  BY DEF Announced
<1> HIDE DEF n
<1>3. /\ [r EXCEPT !.public = n] \in SupportRequestRow /\ [r EXCEPT !.public = n].public = n
      /\ Same(r, [r EXCEPT !.public = n], {"public"})
  BY <1>1, FieldsOfRow, Zenon
<1> QED
  BY <1>2, <1>3 DEF n

\* An update by the requester, who has read the thread
LEMMA ReadRow ==
  ASSUME NEW r \in SupportRequestRow, request \in SupportRequestRow, r.public = request.public
  PROVE  /\ ReadByRequester(r) \in SupportRequestRow
         /\ ReadByRequester(r).public = r.public + 1 /\ ReadByRequester(r).read = r.public + 1
         /\ Same(r, ReadByRequester(r), {"public", "read"})
<1> DEFINE n == r.public + 1
           s == [r EXCEPT !.public = n]
           t == [s EXCEPT !.read = n]
<1>1. n \in Nat
  BY DEF SupportRequestRow
<1>2. ReadByRequester(r) = t
  BY DEF ReadByRequester
<1> HIDE DEF n
<1>3. s \in SupportRequestRow /\ s.public = n /\ Same(r, s, {"public"})
  BY <1>1, FieldsOfRow, Zenon
<1> HIDE DEF s
<1>4. t \in SupportRequestRow /\ t.read = n /\ Same(s, t, {"read"})
  BY <1>1, <1>3, FieldsOfRow, Zenon
<1> HIDE DEF t
<1>5. t.public = n /\ Same(r, t, {"public", "read"})
  BY <1>3, <1>4 DEF Same
<1> QED
  BY <1>2, <1>4, <1>5 DEF n

\* A request that is reopened
LEMMA UnresolvedRow ==
  ASSUME NEW r \in SupportRequestRow
  PROVE  /\ Unresolved(r) \in SupportRequestRow
         /\ Unresolved(r).resolvedBy = None /\ Unresolved(r).category = None
         /\ Unresolved(r).recent = FALSE
         /\ Same(r, Unresolved(r), {"resolvedBy", "category", "recent"})
<1> DEFINE s == [r EXCEPT !.resolvedBy = None]
           t == [s EXCEPT !.category = None]
           u == [t EXCEPT !.recent = FALSE]
<1>1. None \in Someone /\ None \in {"action_completed", "answered_externally", None}
      /\ FALSE \in BOOLEAN
  BY DEF Someone
<1>2. Unresolved(r) = u
  BY DEF Unresolved
<1>3. s \in SupportRequestRow /\ s.resolvedBy = None /\ Same(r, s, {"resolvedBy"})
  BY <1>1, FieldsOfRow, Zenon
<1> HIDE DEF s
<1>4. t \in SupportRequestRow /\ t.category = None /\ Same(s, t, {"category"})
  BY <1>1, <1>3, FieldsOfRow, Zenon
<1> HIDE DEF t
<1>5. u \in SupportRequestRow /\ u.recent = FALSE /\ Same(t, u, {"recent"})
  BY <1>1, <1>4, FieldsOfRow, Zenon
<1> HIDE DEF u
<1>6. u.resolvedBy = None /\ u.category = None /\ Same(r, u, {"resolvedBy", "category", "recent"})
  BY <1>3, <1>4, <1>5 DEF Same
<1> QED
  BY <1>2, <1>5, <1>6

\* A status and an assignee written
LEMMA AssignedRow ==
  ASSUME NEW r \in SupportRequestRow, NEW s \in Status, NEW a \in Someone
  PROVE  LET t == [r EXCEPT !.status = s, !.assignee = a]
         IN  /\ t \in SupportRequestRow /\ t.status = s /\ t.assignee = a
             /\ Same(r, t, {"status", "assignee"})
<1> DEFINE u == [r EXCEPT !.status = s]
           t == [u EXCEPT !.assignee = a]
<1>1. u \in SupportRequestRow /\ u.status = s /\ Same(r, u, {"status"})
  BY FieldsOfRow, Zenon
<1> HIDE DEF u
<1>2. t \in SupportRequestRow /\ t.assignee = a /\ Same(u, t, {"assignee"})
  BY <1>1, FieldsOfRow, Zenon
<1> HIDE DEF t
<1>3. t.status = s /\ Same(r, t, {"status", "assignee"})
  BY <1>1, <1>2 DEF Same
<1> QED
  BY <1>2, <1>3 DEF t, u

-----------------------------------------------------------------------------
(* The inductive invariant.                                                 *)

MessageRow ==
    [author : Someone, kind : {"requester", "operator"}, initial : BOOLEAN, personal : BOOLEAN]

RequestTypes ==
    /\ request \in SupportRequestRow /\ history \in Seq(SupportRequestEvent)
    /\ messages \in Seq(MessageRow) /\ proofs \subseteq Proof
    /\ caps \in [Account -> SUBSET Capability]
    /\ settled \in 0..Len(messages)
    /\ page # None => page \in 0..request.public
    /\ creating \in [next : {"message", "mark", "nothing"}, by : Someone]

Consistent(r) ==
    /\ (r.status = "in_progress") <=> (r.assignee # None)
    /\ (r.status = "resolved") <=> (r.resolvedBy # None)
    /\ (r.category # None) <=> (r.status = "resolved")
    /\ r.recent => r.status = "resolved"
    /\ r.read <= r.public /\ 1 <= r.public

InWords(status) ==
    IF status = "resolved" THEN "resolved" ELSE IF status = "open" THEN "received" ELSE "in_progress"

\* The history tells where the request stands, who has it and what is shown.
ToldOf(r, h) ==
    /\ Chained(h) /\ r.status = Standing(h) /\ r.assignee = Holder(h)
    /\ Shown(h) = InWords(r.status)
Told == ToldOf(request, history)

\* A deletion classified as such after its request was resolved
Excused(h) ==
    \E i, j \in 1..Len(h) :
       /\ i < j /\ h[i].type = "resolved" /\ h[j].type = "classified"
       /\ \A k \in i+1..Len(h) : h[k].type \notin PublicEvents

Proven ==
    /\ "permanent" \in proofs => request.linked \/ "identity" \in proofs
    /\ (/\ request.status = "resolved" /\ request.category = "action_completed"
        /\ IsAccountDeletion(request) /\ "permanent" \notin proofs) => Excused(history)

\* Whatever is the requester's goes by the row's submitter.
OfRequester(h, submitter) == \A i \in 1..Len(h) : h[i].byRequester => h[i].actor = submitter
Private ==
    /\ \A i \in 1..Len(messages) : messages[i].initial => messages[i].kind = "requester"
    /\ OfRequester(history, request.submitter)
    /\ request.redacted => request.submitter = None /\ ~request.personal

RequestInv == RequestTypes /\ Consistent(request) /\ Told /\ Proven /\ Private

LEMMA NoneIsNobody ==
  /\ None \notin Account /\ None \in Someone /\ Account \subseteq Someone
  /\ None # "action_completed" /\ None # "answered_externally"
BY SupportAssumption DEF SupportAssumption, Someone

LEMMA InsertedRow ==
  ASSUME NEW s \in Someone, NEW c \in Someone, NEW kind \in Kind
  PROVE  /\ Row(s, c, kind) \in SupportRequestRow /\ Consistent(Row(s, c, kind))
         /\ Row(s, c, kind).status = "open" /\ Row(s, c, kind).assignee = None
         /\ Row(s, c, kind).submitter = s /\ ~Row(s, c, kind).redacted
<1> DEFINE linked == s # None
           priority == IF kind = "public_contact_removal" THEN "urgent" ELSE "normal"
           locked == kind = "public_contact_removal"
<1>1. /\ linked \in BOOLEAN /\ locked \in BOOLEAN
      /\ priority \in Priorities \cup {"normal", "urgent"}
  OBVIOUS
<1>2. Row(s, c, kind) =
         [submitter |-> s, contact |-> c, kind |-> kind,
          linked |-> linked, classification |-> "unclassified",
          priority |-> priority, locked |-> locked, status |-> "open",
          assignee |-> None, required |-> None, resolvedBy |-> None,
          category |-> None, recent |-> FALSE, personal |-> TRUE,
          redacted |-> FALSE, public |-> 1, read |-> 0]
  BY DEF Row
<1> HIDE DEF linked, priority, locked
<1>3. Row(s, c, kind) \in SupportRequestRow
  BY <1>1, <1>2, NoneIsNobody DEF SupportRequestRow, Status
<1> QED
  BY <1>2, <1>3 DEF Consistent

LEMMA RequestStart == Init => RequestInv
<1> SUFFICES ASSUME Init PROVE RequestInv
  OBVIOUS
<1>1. PICK row \in Rows : request = Row(IF row.linked THEN row.by ELSE None, row.by, row.kind)
  BY DEF Init
<1>2. /\ history = <<>> /\ messages = <<>> /\ settled = 0 /\ proofs = {} /\ page = None
      /\ caps = [a \in Account |-> Given(a)]
      /\ creating = [next |-> IF request.submitter = None THEN "nothing" ELSE "message",
                     by |-> request.submitter]
  BY DEF Init
<1>3. row.by \in Someone /\ (IF row.linked THEN row.by ELSE None) \in Someone /\ row.kind \in Kind
  BY SupportAssumption, NoneIsNobody DEF SupportAssumption
<1>4. /\ request \in SupportRequestRow /\ Consistent(request)
      /\ request.status = "open" /\ request.assignee = None /\ ~request.redacted
      /\ request.submitter \in Someone
  <2> DEFINE s == IF row.linked THEN row.by ELSE None
  <2>1. s \in Someone /\ request = Row(s, row.by, row.kind)
    BY <1>1, <1>3
  <2> HIDE DEF s
  <2> QED
    BY <1>3, <2>1, InsertedRow
<1>5. RequestTypes
  <2>1. caps \in [Account -> SUBSET Capability]
    BY <1>2, SupportAssumption DEF SupportAssumption
  <2>2. creating \in [next : {"message", "mark", "nothing"}, by : Someone]
    BY <1>2, <1>4
  <2>3. history \in Seq(SupportRequestEvent) /\ messages \in Seq(MessageRow) /\ Len(messages) = 0
    BY <1>2, EmptySeq
  <2> QED
    BY <1>2, <1>4, <2>1, <2>2, <2>3 DEF RequestTypes
<1>6. Told
  <2>1. Len(history) = 0 /\ \A types : Latest(history, types) = 0
    <3>1. Len(history) = 0 /\ history \in Seq(SupportRequestEvent)
      BY <1>2, EmptySeq
    <3>2. ASSUME NEW types PROVE Latest(history, types) \in 0..0
      BY <3>1, LatestOfSome
    <3> QED
      BY <3>1, <3>2
  <2> QED
    BY <1>2, <1>4, <2>1 DEF Told, ToldOf, Chained, Standing, Holder, Shown, InWords
<1>7. Proven
  BY <1>2, <1>4 DEF Proven
<1>8. Private
  <2>1. Len(history) = 0 /\ Len(messages) = 0
    BY <1>2, EmptySeq
  <2> QED
    BY <1>4, <2>1 DEF Private, OfRequester
<1> QED
  BY <1>4, <1>5, <1>6, <1>7, <1>8 DEF RequestInv

-----------------------------------------------------------------------------
(* What steps do to the history.                                            *)

LEMMA ToldStays ==
  ASSUME RequestInv, UNCHANGED history, request'.status = request.status,
         request'.assignee = request.assignee
  PROVE  Told'
BY DEF RequestInv, Told, ToldOf

\* The row follows the event that is recorded.
Follows(r, s, e) ==
    /\ e.prior = r.status /\ s.status = e.new
    /\ s.assignee = IF e.type \in Moves THEN e.after ELSE r.assignee
    /\ InWords(e.new) = IF e.type \in PublicEvents THEN PublicStatusOf(e) ELSE InWords(r.status)

LEMMA ToldMore ==
  ASSUME NEW r, NEW s, NEW h \in Seq(SupportRequestEvent), ToldOf(r, h),
         NEW e \in SupportRequestEvent, Follows(r, s, e)
  PROVE  ToldOf(s, Append(h, e)) /\ Append(h, e) \in Seq(SupportRequestEvent)
<1>1. e.prior = Standing(h) /\ Chained(h)
  BY DEF ToldOf, Follows
<1>2. /\ Append(h, e) \in Seq(SupportRequestEvent) /\ Chained(Append(h, e))
      /\ Standing(Append(h, e)) = e.new
      /\ Holder(Append(h, e)) = IF e.type \in Moves THEN e.after ELSE Holder(h)
      /\ Shown(Append(h, e)) = IF e.type \in PublicEvents THEN PublicStatusOf(e) ELSE Shown(h)
  BY <1>1, OneMore
<1> QED
  BY <1>2 DEF ToldOf, Follows

\* An event that the requester is not shown excuses nothing less.
LEMMA ExcusedMore ==
  ASSUME NEW h \in Seq(SupportRequestEvent), Excused(h), NEW e \in SupportRequestEvent,
         e.type \notin PublicEvents
  PROVE  Excused(Append(h, e))
<1> DEFINE g == Append(h, e)
<1>1. /\ Len(h) \in Nat /\ Len(g) = Len(h) + 1
      /\ \A i \in 1..Len(h) : g[i] = h[i]
      /\ g[Len(h) + 1] = e
  BY AppendProperties, LenProperties
<1> HIDE DEF g
<1>2. PICK i, j \in 1..Len(h) :
         /\ i < j /\ h[i].type = "resolved" /\ h[j].type = "classified"
         /\ \A k \in i+1..Len(h) : h[k].type \notin PublicEvents
  BY DEF Excused
<1>3. \A k \in i+1..Len(g) : g[k].type \notin PublicEvents
  BY <1>1, <1>2
<1> QED
  BY <1>1, <1>2, <1>3 DEF Excused, g

\* A classification after the request was resolved
LEMMA ExcusedNow ==
  ASSUME RequestInv, request.status = "resolved", NEW e \in SupportRequestEvent,
         e.type = "classified"
  PROVE  Excused(Append(history, e))
<1> DEFINE g == Append(history, e)
           i == Latest(history, PublicEvents)
           n == Len(history)
<1>1. history \in Seq(SupportRequestEvent) /\ Shown(history) = "resolved"
  BY DEF RequestInv, RequestTypes, Told, ToldOf, InWords
<1>2. /\ n \in Nat /\ Len(g) = n + 1
      /\ \A k \in 1..n : g[k] = history[k]
      /\ g[n + 1] = e
  BY <1>1, AppendProperties, LenProperties
<1>3. i \in 1..n /\ history[i].type = "resolved"
  <2>1. i \in 0..n
    BY <1>1, LatestOfSome
  <2>2. i # 0 /\ PublicStatusOf(history[i]) = "resolved"
    BY <1>1 DEF Shown
  <2> QED
    BY <2>1, <2>2 DEF PublicStatusOf
<1>4. \A k \in 1..n : history[k].type \in PublicEvents => k <= i
  BY <1>1, LatestOfSome
<1> HIDE DEF g, i, n
<1>5. \A k \in i+1..Len(g) : g[k].type \notin PublicEvents
  <2> SUFFICES ASSUME NEW k \in i+1..Len(g) PROVE g[k].type \notin PublicEvents
    OBVIOUS
  <2>1. CASE k = n + 1
    BY <1>2, <2>1 DEF PublicEvents
  <2>2. CASE k # n + 1
    BY <1>2, <1>3, <1>4, <2>2
  <2> QED
    BY <2>1, <2>2
<1>6. i \in 1..Len(g) /\ n + 1 \in 1..Len(g) /\ i < n + 1
  BY <1>2, <1>3
<1> QED
  BY <1>2, <1>3, <1>5, <1>6 DEF Excused, g

\* Nothing becomes an unproven deletion.
LEMMA ProvenStays ==
  ASSUME RequestInv, proofs \subseteq proofs', request'.linked = request.linked,
         "permanent" \in proofs' => "permanent" \in proofs \/ request.linked \/ "identity" \in proofs,
         \/ request'.status # "resolved"
         \/ /\ request.status = "resolved" /\ request'.category = request.category
            /\ request'.classification = request.classification /\ request'.kind = request.kind
            /\ \/ UNCHANGED history
               \/ \E e \in SupportRequestEvent :
                     e.type \notin PublicEvents /\ history' = Append(history, e)
  PROVE  Proven'
<1>1. Proven /\ history \in Seq(SupportRequestEvent)
  BY DEF RequestInv, RequestTypes
<1>2. "permanent" \in proofs' => request'.linked \/ "identity" \in proofs'
  BY <1>1 DEF Proven
<1>3. ASSUME request'.status = "resolved", request'.category = "action_completed",
             IsAccountDeletion(request'), "permanent" \notin proofs'
      PROVE  Excused(history')
  <2>1. Excused(history)
    BY <1>1, <1>3 DEF Proven, IsAccountDeletion
  <2> QED
    BY <1>1, <1>3, <2>1, ExcusedMore
<1> QED
  BY <1>2, <1>3 DEF Proven, IsAccountDeletion, Excused

LEMMA OfRequesterMore ==
  ASSUME NEW h \in Seq(SupportRequestEvent), NEW submitter, OfRequester(h, submitter),
         NEW e \in SupportRequestEvent, e.byRequester => e.actor = submitter
  PROVE  OfRequester(Append(h, e), submitter)
<1>1. /\ Len(h) \in Nat /\ Len(Append(h, e)) = Len(h) + 1
      /\ \A k \in 1..Len(h) : Append(h, e)[k] = h[k]
      /\ Append(h, e)[Len(h) + 1] = e
  BY AppendProperties, LenProperties
<1> QED
  BY <1>1 DEF OfRequester

\* One event is recorded.
LEMMA Recorded ==
  ASSUME NEW h \in Seq(SupportRequestEvent), NEW e \in SupportRequestEvent
  PROVE  /\ h \o <<e>> = Append(h, e)
         /\ Append(h, e)[Len(Append(h, e))] = e
BY AppendProperties, AppendIsConcat

-----------------------------------------------------------------------------
(* What the actions have in common.                                         *)

\* What AssigneesMayHandle and WorkIsNotTaken say of a step
HandedOn ==
    /\ request'.assignee \notin {None, request.assignee} => MayHandle(request', request'.assignee)
    /\ /\ request.assignee # None /\ request'.assignee # request.assignee
       /\ MayHandle(request, request.assignee)
       => LET last == history'[Len(history')]
          IN  last.type = "escalated" \/ last.actor = request.assignee

\* What RepliesAreHeard says of a step
Heard ==
    /\ Len(messages') > Len(messages)
    /\ messages'[Len(messages')].kind = "requester"
    /\ ~messages'[Len(messages')].initial
    => request'.status # "resolved"

\* What RedactionHolds says of a step
Withheld ==
    request'.redacted =>
      /\ request'.submitter = None /\ ~request'.personal
      /\ \A i \in 1..Len(history') : history'[i].byRequester => history'[i].actor = None
      /\ \A i \in 1..Len(messages') : Remains(messages'[i]) =>
            \/ creating.next = "message"
            \/ request.redacted /\ i \in 1..Len(messages) /\ Remains(messages[i])

LEMMA SameSelf == ASSUME NEW r, NEW fields PROVE Same(r, r, fields)
BY DEF Same

LEMMA SameMore == ASSUME NEW r, NEW s, NEW A, NEW B, Same(r, s, A), A \subseteq B PROVE Same(r, s, B)
BY DEF Same

\* The fields that an Operator's command writes
Worked ==
    {"status", "assignee", "required", "classification", "priority", "resolvedBy", "category",
     "recent", "public"}

\* Who may handle a request does not depend on who has it.
LEMMA HandlerStays ==
  ASSUME NEW r, NEW s, NEW a, MayHandle(r, a),
         Same(r, s, {"status", "assignee", "resolvedBy", "category", "recent", "public"})
  PROVE  MayHandle(s, a)
BY DEF MayHandle, OwnRequest, RequiresPrivacy, Same

\* A step that takes the request from nobody
LEMMA NotTaken == ASSUME request'.assignee = request.assignee PROVE HandedOn
BY DEF HandedOn

\* A step that leaves the messages alone
LEMMA ThreadStays ==
  ASSUME RequestInv, RequestInv', UNCHANGED messages, request'.redacted = request.redacted
  PROVE  Heard /\ Withheld
<1>1. Len(messages) \in Nat
  BY LenProperties DEF RequestInv, RequestTypes
<1>2. Heard
  BY <1>1 DEF Heard
<1>3. Withheld
  BY DEF Withheld, RequestInv, Private, OfRequester
<1> QED
  BY <1>2, <1>3

\* An Operator's command that is recorded
LEMMA Operated ==
  ASSUME RequestInv, request' \in SupportRequestRow, Consistent(request'),
         Same(request, request', Worked), request'.public >= request.public,
         history' \in Seq(SupportRequestEvent), Told', OfRequester(history', request.submitter),
         Proven', proofs' \subseteq Proof,
         UNCHANGED <<caps, messages, settled, creating, page>>
  PROVE  RequestInv' /\ Heard /\ Withheld
<1>1. RequestTypes /\ Private /\ request.public \in Nat /\ request'.public \in Nat
  BY DEF RequestInv, RequestTypes, SupportRequestRow
<1>2. /\ request'.submitter = request.submitter /\ request'.redacted = request.redacted
      /\ request'.personal = request.personal
  BY DEF Same, Worked
<1>3. page' # None => page' \in 0..request'.public
  BY <1>1 DEF RequestTypes
<1>4. RequestTypes'
  BY <1>1, <1>3 DEF RequestTypes
<1>5. Private'
  BY <1>1, <1>2 DEF Private
<1>6. RequestInv'
  BY <1>4, <1>5 DEF RequestInv
<1> QED
  BY <1>2, <1>6, ThreadStays

\* A command that adds one event, which follows the row
LEMMA OperatedOnce ==
  ASSUME RequestInv, request' \in SupportRequestRow, Consistent(request'),
         Same(request, request', Worked), request'.public >= request.public,
         NEW e \in SupportRequestEvent, ~e.byRequester, Record(<<e>>),
         Follows(request, request', e), Proven', proofs' \subseteq Proof,
         UNCHANGED <<caps, messages, settled, creating, page>>
  PROVE  /\ RequestInv' /\ Heard /\ Withheld
         /\ history' = Append(history, e) /\ history'[Len(history')] = e
<1>1. history \in Seq(SupportRequestEvent) /\ Told /\ OfRequester(history, request.submitter)
  BY DEF RequestInv, RequestTypes, Private
<1>2. history' = Append(history, e) /\ history'[Len(history')] = e
  BY <1>1, Recorded DEF Record
<1>3. ToldOf(request', Append(history, e)) /\ Append(history, e) \in Seq(SupportRequestEvent)
  BY <1>1, ToldMore DEF Told
<1>4. OfRequester(Append(history, e), request.submitter)
  BY <1>1, OfRequesterMore
<1>5. Told' /\ history' \in Seq(SupportRequestEvent) /\ OfRequester(history', request.submitter)
  BY <1>2, <1>3, <1>4 DEF Told
<1>6. RequestInv' /\ Heard /\ Withheld
  BY <1>5, Operated
<1> QED
  BY <1>2, <1>6

\* The row is touched, and nothing is recorded.
LEMMA Touched ==
  ASSUME RequestInv, request' \in SupportRequestRow, Consistent(request'),
         Same(request, request', {"public", "read", "recent"}),
         request'.public >= request.public,
         UNCHANGED <<history, messages, proofs>>,
         caps' \in [Account -> SUBSET Capability],
         settled' \in 0..Len(messages), page' # None => page' \in 0..request'.public,
         creating' \in [next : {"message", "mark", "nothing"}, by : Someone]
  PROVE  RequestInv' /\ HandedOn /\ Heard /\ Withheld
<1>1. RequestTypes'
  BY DEF RequestInv, RequestTypes
<1>2. /\ request'.submitter = request.submitter /\ request'.redacted = request.redacted
      /\ request'.personal = request.personal /\ request'.status = request.status
      /\ request'.assignee = request.assignee /\ request'.linked = request.linked
      /\ request'.category = request.category /\ request'.kind = request.kind
      /\ request'.classification = request.classification
  BY DEF Same
<1>3. Told'
  BY <1>2, ToldStays
<1>4. Proven'
  BY <1>2, ProvenStays
<1>5. Private'
  BY <1>2 DEF RequestInv, Private
<1>6. RequestInv'
  BY <1>1, <1>3, <1>4, <1>5 DEF RequestInv
<1> QED
  BY <1>2, <1>6, NotTaken, ThreadStays

-----------------------------------------------------------------------------
(* Reading, time and access.                                                *)

Kept == RequestInv' /\ HandedOn /\ Heard /\ Withheld

\* What the invariant says of numbers
LEMMA Numbers ==
  ASSUME RequestInv
  PROVE  /\ request \in SupportRequestRow /\ Consistent(request)
         /\ request.public \in Nat /\ request.read \in Nat /\ Len(messages) \in Nat
         /\ request.status \in Status /\ request.assignee \in Someone
         /\ settled \in 0..Len(messages) /\ (page # None => page \in 0..request.public)
BY LenProperties DEF RequestInv, RequestTypes, SupportRequestRow

LEMMA MarkCreatedKeeps == ASSUME RequestInv, MarkCreated PROVE Kept
<1> DEFINE t == [request EXCEPT !.read = 1]
<1>1. /\ request' = t /\ creating' = [creating EXCEPT !.next = "nothing"]
      /\ UNCHANGED <<caps, history, messages, settled, proofs, page, grants>>
  BY DEF MarkCreated
<1>2. 1 \in Nat /\ request \in SupportRequestRow
  BY Numbers
<1>3. t \in SupportRequestRow /\ t.read = 1 /\ Same(request, t, {"read"})
  BY <1>2, FieldsOfRow, Zenon
<1> HIDE DEF t
<1>4. Consistent(t) /\ t.public = request.public
  BY <1>3, Numbers DEF Consistent, Same
<1>5. Same(request, t, {"public", "read", "recent"})
  BY <1>3, SameMore
<1>6. creating' \in [next : {"message", "mark", "nothing"}, by : Someone]
  BY <1>1 DEF RequestInv, RequestTypes
<1>7. caps' \in [Account -> SUBSET Capability]
  BY <1>1 DEF RequestInv, RequestTypes
<1> QED
  BY <1>1, <1>3, <1>4, <1>5, <1>6, <1>7, Numbers, Touched DEF Kept

LEMMA MarkReadKeeps == ASSUME RequestInv, MarkRead PROVE Kept
<1>1. PICK at \in page..request.public : request' = [request EXCEPT !.read = at]
  BY DEF MarkRead
<1>2. /\ page # None /\ page' = None
      /\ UNCHANGED <<caps, history, messages, settled, proofs, creating, grants>>
  BY DEF MarkRead
<1>3. at \in Nat /\ at <= request.public /\ request \in SupportRequestRow
  BY <1>1, <1>2, Numbers
<1> DEFINE t == [request EXCEPT !.read = at]
<1>4. t \in SupportRequestRow /\ t.read = at /\ Same(request, t, {"read"})
  BY <1>3, FieldsOfRow, Zenon
<1>5. request' = t
  BY <1>1
<1> HIDE DEF t
<1>6. Consistent(t) /\ t.public = request.public
  BY <1>3, <1>4, Numbers DEF Consistent, Same
<1>7. Same(request, t, {"public", "read", "recent"})
  BY <1>4, SameMore
<1>8. /\ caps' \in [Account -> SUBSET Capability]
      /\ creating' \in [next : {"message", "mark", "nothing"}, by : Someone]
  BY <1>2 DEF RequestInv, RequestTypes
<1> QED
  BY <1>2, <1>4, <1>5, <1>6, <1>7, <1>8, Numbers, Touched DEF Kept

LEMMA MarkUnreadKeeps == ASSUME RequestInv, MarkUnread PROVE Kept
<1> DEFINE t == [request EXCEPT !.read = 0]
<1>1. /\ request' = t
      /\ UNCHANGED <<caps, history, messages, settled, proofs, creating, page, grants>>
  BY DEF MarkUnread
<1>2. 0 \in Nat /\ request \in SupportRequestRow
  BY Numbers
<1>3. t \in SupportRequestRow /\ t.read = 0 /\ Same(request, t, {"read"})
  BY <1>2, FieldsOfRow, Zenon
<1> HIDE DEF t
<1>4. Consistent(t) /\ t.public = request.public
  BY <1>3, Numbers DEF Consistent, Same
<1>5. Same(request, t, {"public", "read", "recent"})
  BY <1>3, SameMore
<1>6. /\ caps' \in [Account -> SUBSET Capability]
      /\ creating' \in [next : {"message", "mark", "nothing"}, by : Someone]
  BY <1>1 DEF RequestInv, RequestTypes
<1> QED
  BY <1>1, <1>3, <1>4, <1>5, <1>6, Numbers, Touched DEF Kept

LEMMA ReplyWindowKeeps == ASSUME RequestInv, ReplyWindowPasses PROVE Kept
<1> DEFINE t == [request EXCEPT !.recent = FALSE]
<1>1. /\ request' = t /\ settled' = Len(messages)
      /\ UNCHANGED <<caps, history, messages, proofs, creating, page, grants>>
  BY DEF ReplyWindowPasses
<1>2. FALSE \in BOOLEAN /\ request \in SupportRequestRow
  BY Numbers
<1>3. t \in SupportRequestRow /\ t.recent = FALSE /\ Same(request, t, {"recent"})
  BY <1>2, FieldsOfRow, Zenon
<1> HIDE DEF t
<1>4. Consistent(t) /\ t.public = request.public
  BY <1>3, Numbers DEF Consistent, Same
<1>5. Same(request, t, {"public", "read", "recent"})
  BY <1>3, SameMore
<1>6. /\ caps' \in [Account -> SUBSET Capability]
      /\ creating' \in [next : {"message", "mark", "nothing"}, by : Someone]
      /\ settled' \in 0..Len(messages)
  BY <1>1, Numbers DEF RequestInv, RequestTypes
<1> QED
  BY <1>1, <1>3, <1>4, <1>5, <1>6, Numbers, Touched DEF Kept

\* Steps that leave the row as it is
LEMMA RowUntouched ==
  ASSUME RequestInv, UNCHANGED <<request, history, messages, proofs, creating>>,
         caps' \in [Account -> SUBSET Capability], settled' \in 0..Len(messages),
         page' \in {page, request.public}
  PROVE  Kept
<1>1. /\ request' \in SupportRequestRow /\ Consistent(request')
      /\ Same(request, request', {"public", "read", "recent"})
      /\ request'.public >= request.public
      /\ (page' # None => page' \in 0..request'.public)
      /\ creating' \in [next : {"message", "mark", "nothing"}, by : Someone]
  BY Numbers, SameSelf DEF RequestInv, RequestTypes
<1> QED
  BY <1>1, Touched DEF Kept

LEMMA OpenPageKeeps == ASSUME RequestInv, OpenPage PROVE Kept
<1>1. /\ page' = request.public
      /\ UNCHANGED <<request, caps, history, messages, settled, proofs, creating>>
  BY DEF OpenPage
<1>2. caps' \in [Account -> SUBSET Capability] /\ settled' \in 0..Len(messages)
  BY <1>1 DEF RequestInv, RequestTypes
<1> QED
  BY <1>1, <1>2, RowUntouched

LEMMA EditWindowKeeps == ASSUME RequestInv, EditWindowPasses PROVE Kept
<1>1. /\ settled < Len(messages) /\ settled' = settled + 1
      /\ UNCHANGED <<request, caps, history, messages, proofs, creating, page>>
  BY DEF EditWindowPasses
<1>2. caps' \in [Account -> SUBSET Capability] /\ settled' \in 0..Len(messages)
  BY <1>1, Numbers DEF RequestInv, RequestTypes
<1> QED
  BY <1>1, <1>2, RowUntouched

LEMMA ChangeAccessKeeps ==
  ASSUME RequestInv, NEW a \in Account, NEW granted \in Grants, ChangeAccess(a, granted)
  PROVE  Kept
<1>1. /\ caps' = [caps EXCEPT ![a] = granted]
      /\ UNCHANGED <<request, history, messages, settled, proofs, creating, page>>
  BY DEF ChangeAccess
<1>2. caps' \in [Account -> SUBSET Capability]
  BY <1>1, SupportAssumption DEF RequestInv, RequestTypes, SupportAssumption
<1>3. settled' \in 0..Len(messages)
  BY <1>1, Numbers
<1> QED
  BY <1>1, <1>2, <1>3, RowUntouched

-----------------------------------------------------------------------------
(* Assignment.                                                              *)

LEMMA ClaimKeeps == ASSUME RequestInv, NEW a \in Account, Claim(a) PROVE Kept
<1> DEFINE t == [request EXCEPT !.status = "in_progress", !.assignee = a]
           e == Event("assigned", a, request.status, "in_progress", None, a)
<1>1. /\ MayHandle(request, a) /\ request.status \in {"open", "escalated"}
      /\ request.assignee = None /\ request' = Announced(t) /\ Record(<<e>>)
      /\ UNCHANGED <<caps, messages, settled, proofs, creating, page, grants>>
  BY DEF Claim
<1>2. /\ t \in SupportRequestRow /\ t.status = "in_progress" /\ t.assignee = a
      /\ Same(request, t, {"status", "assignee"})
  <2>1. request \in SupportRequestRow /\ "in_progress" \in Status /\ a \in Someone
    BY Numbers, NoneIsNobody DEF Status
  <2> QED
    BY <2>1, AssignedRow, Zenon
<1> HIDE DEF t
<1>3. /\ request' \in SupportRequestRow /\ request'.public = t.public + 1
      /\ Same(t, request', {"public"})
  BY <1>1, <1>2, AnnouncedRow
<1>4. Same(request, request', {"status", "assignee", "public"})
  BY <1>2, <1>3 DEF Same
<1>5. /\ request'.status = "in_progress" /\ request'.assignee = a
      /\ request'.public = request.public + 1
  BY <1>2, <1>3 DEF Same
<1>6. Consistent(request')
  BY <1>1, <1>4, <1>5, Numbers, NoneIsNobody DEF Consistent, Same
<1>7. /\ e \in SupportRequestEvent /\ e.type = "assigned" /\ e.prior = request.status
      /\ e.new = "in_progress" /\ e.after = a /\ ~e.byRequester
  BY Numbers, NoneIsNobody DEF Event, SupportRequestEvent, EventType, Status
<1> HIDE DEF e
<1>8. Follows(request, request', e)
  BY <1>5, <1>7 DEF Follows, Moves, InWords, PublicEvents, PublicStatusOf
<1>9. Proven'
  BY <1>1, <1>4, <1>5, ProvenStays DEF Same
<1>10. Same(request, request', Worked) /\ proofs' \subseteq Proof
  BY <1>1, <1>4, SameMore DEF Worked, RequestInv, RequestTypes
<1>11. RequestInv' /\ Heard /\ Withheld
  BY <1>1, <1>3, <1>5, <1>6, <1>7, <1>8, <1>9, <1>10, Numbers, OperatedOnce
<1>12. MayHandle(request', a)
  BY <1>1, <1>4, SameMore, HandlerStays
<1> QED
  BY <1>1, <1>5, <1>11, <1>12 DEF Kept, HandedOn

LEMMA ReleaseKeeps == ASSUME RequestInv, NEW a \in Account, Release(a) PROVE Kept
<1> DEFINE t == [request EXCEPT !.status = "open", !.assignee = None]
           e == Event("released", a, "in_progress", "open", a, None)
<1>1. /\ request.status = "in_progress" /\ request.assignee = a
      /\ request' = Announced(t) /\ Record(<<e>>)
      /\ UNCHANGED <<caps, messages, settled, proofs, creating, page, grants>>
  BY DEF Release, IsAssigned
<1>2. /\ t \in SupportRequestRow /\ t.status = "open" /\ t.assignee = None
      /\ Same(request, t, {"status", "assignee"})
  <2>1. request \in SupportRequestRow /\ "open" \in Status /\ None \in Someone
    BY Numbers, NoneIsNobody DEF Status
  <2> QED
    BY <2>1, AssignedRow, Zenon
<1> HIDE DEF t
<1>3. /\ request' \in SupportRequestRow /\ request'.public = t.public + 1
      /\ Same(t, request', {"public"})
  BY <1>1, <1>2, AnnouncedRow
<1>4. Same(request, request', {"status", "assignee", "public"})
  BY <1>2, <1>3 DEF Same
<1>5. /\ request'.status = "open" /\ request'.assignee = None
      /\ request'.public = request.public + 1
  BY <1>2, <1>3 DEF Same
<1>6. Consistent(request')
  BY <1>1, <1>4, <1>5, Numbers, NoneIsNobody DEF Consistent, Same
<1>7. /\ e \in SupportRequestEvent /\ e.type = "released" /\ e.prior = "in_progress"
      /\ e.new = "open" /\ e.after = None /\ ~e.byRequester /\ e.actor = a
  BY Numbers, NoneIsNobody DEF Event, SupportRequestEvent, EventType, Status
<1> HIDE DEF e
<1>8. Follows(request, request', e)
  BY <1>1, <1>5, <1>7 DEF Follows, Moves, InWords, PublicEvents, PublicStatusOf
<1>9. Proven'
  BY <1>1, <1>4, <1>5, ProvenStays DEF Same
<1>10. Same(request, request', Worked) /\ proofs' \subseteq Proof
  BY <1>1, <1>4, SameMore DEF Worked, RequestInv, RequestTypes
<1>11. RequestInv' /\ Heard /\ Withheld /\ history'[Len(history')] = e
  BY <1>1, <1>3, <1>5, <1>6, <1>7, <1>8, <1>9, <1>10, Numbers, OperatedOnce
<1> QED
  BY <1>1, <1>5, <1>7, <1>11 DEF Kept, HandedOn

\* A reassignment takes the request from somebody who may no longer handle it.
LEMMA ReassignKeeps ==
  ASSUME RequestInv, NEW a \in Account, NEW new \in Account, ReassignAbandoned(a, new)
  PROVE  Kept
<1> DEFINE e == Event("reassigned", a, "in_progress", "in_progress", request.assignee, new)
<1>1. /\ request.status = "in_progress" /\ request.assignee # None
      /\ ~MayHandle(request, request.assignee) /\ MayHandle(request, new)
      /\ request' = [request EXCEPT !.assignee = new] /\ Record(<<e>>)
      /\ UNCHANGED <<caps, messages, settled, proofs, creating, page, grants>>
  BY DEF ReassignAbandoned
<1>2. new \in Someone /\ request \in SupportRequestRow
  BY Numbers, NoneIsNobody
<1>3. /\ request' \in SupportRequestRow /\ request'.assignee = new
      /\ Same(request, request', {"assignee"})
  <2>1. /\ [request EXCEPT !.assignee = new] \in SupportRequestRow
        /\ [request EXCEPT !.assignee = new].assignee = new
        /\ Same(request, [request EXCEPT !.assignee = new], {"assignee"})
    BY <1>2, FieldsOfRow, Zenon
  <2> QED
    BY <1>1, <2>1
<1>4. request'.status = "in_progress" /\ request'.public = request.public
  BY <1>1, <1>3 DEF Same
<1>5. Consistent(request')
  BY <1>1, <1>3, <1>4, Numbers, NoneIsNobody DEF Consistent, Same
<1>6. /\ e \in SupportRequestEvent /\ e.type = "reassigned" /\ e.prior = "in_progress"
      /\ e.new = "in_progress" /\ e.after = new /\ ~e.byRequester
  BY Numbers, NoneIsNobody DEF Event, SupportRequestEvent, EventType, Status
<1> HIDE DEF e
<1>7. Follows(request, request', e)
  BY <1>1, <1>3, <1>4, <1>6 DEF Follows, Moves, InWords, PublicEvents, PublicStatusOf
<1>8. Proven'
  BY <1>1, <1>3, <1>4, ProvenStays DEF Same
<1>9. Same(request, request', Worked) /\ proofs' \subseteq Proof
  BY <1>1, <1>3, SameMore DEF Worked, RequestInv, RequestTypes
<1>10. RequestInv' /\ Heard /\ Withheld
  BY <1>1, <1>3, <1>4, <1>5, <1>6, <1>7, <1>8, <1>9, Numbers, OperatedOnce
<1>11. MayHandle(request', new)
  BY <1>1, <1>3, SameMore, HandlerStays
<1> QED
  BY <1>1, <1>3, <1>10, <1>11 DEF Kept, HandedOn

-----------------------------------------------------------------------------
(* Triage and the Operator's records.                                       *)

\* An event that moves nothing
LEMMA RemarkRow ==
  ASSUME RequestInv, NEW a \in Account, NEW type \in EventType, type \notin Moves,
         NEW s, s.status = request.status, s.assignee = request.assignee
  PROVE  /\ Remark(type, a) \in SupportRequestEvent /\ Remark(type, a).type = type
         /\ ~Remark(type, a).byRequester /\ Follows(request, s, Remark(type, a))
         /\ Remark(type, a).type \notin PublicEvents
<1> DEFINE e == Remark(type, a)
<1>1. request.status \in Status
  BY Numbers
<1>2. /\ e \in SupportRequestEvent /\ e.type = type /\ ~e.byRequester
      /\ e.prior = request.status /\ e.new = request.status
  BY <1>1, NoneIsNobody DEF Remark, Event, SupportRequestEvent
<1> HIDE DEF e
<1>3. type \notin PublicEvents
  BY DEF Moves, PublicEvents
<1>4. Follows(request, s, e)
  BY <1>2, <1>3 DEF Follows
<1> QED
  BY <1>2, <1>3, <1>4 DEF e

\* A command that records such an event
LEMMA RemarkKeeps ==
  ASSUME RequestInv, NEW a \in Account, NEW type \in EventType, type \notin Moves,
         Record(<<Remark(type, a)>>), request' \in SupportRequestRow,
         Same(request, request', {"classification", "priority"}),
         Proven', proofs' \subseteq Proof,
         UNCHANGED <<caps, messages, settled, creating, page>>
  PROVE  Kept
<1> DEFINE e == Remark(type, a)
<1>1. request'.status = request.status /\ request'.assignee = request.assignee
      /\ request'.public = request.public
  BY DEF Same
<1>2. e \in SupportRequestEvent /\ ~e.byRequester /\ Follows(request, request', e)
  BY <1>1, RemarkRow
<1>3. Record(<<e>>)
  OBVIOUS
<1> HIDE DEF e
<1>4. Consistent(request')
  BY Numbers DEF Consistent, Same
<1>5. Same(request, request', Worked)
  BY SameMore DEF Worked
<1>6. request'.public >= request.public
  BY <1>1, Numbers
<1>7. RequestInv' /\ Heard /\ Withheld
  BY <1>2, <1>3, <1>4, <1>5, <1>6, OperatedOnce
<1> QED
  BY <1>1, <1>7, NotTaken DEF Kept

\* A classification after the request was resolved excuses an unproven deletion.
LEMMA ClassifyKeeps ==
  ASSUME RequestInv, NEW a \in Account, NEW class \in Classifications, Classify(a, class)
  PROVE  Kept
<1> DEFINE t == [request EXCEPT !.classification = class]
<1>1. /\ request' = t /\ Record(<<Remark("classified", a)>>)
      /\ UNCHANGED <<caps, messages, settled, proofs, creating, page>>
  BY DEF Classify
<1>2. request \in SupportRequestRow /\ class \in Classifications \cup {"unclassified"}
  BY Numbers
<1>3. t \in SupportRequestRow /\ Same(request, t, {"classification"})
  BY <1>2, FieldsOfIntake, Zenon
<1> HIDE DEF t
<1>4. "classified" \in EventType /\ "classified" \notin Moves
  BY DEF EventType, Moves
<1>5. Same(request, request', {"classification", "priority"})
  BY <1>1, <1>3, SameMore
<1>6. request'.status = request.status /\ request'.linked = request.linked
      /\ request'.assignee = request.assignee
  BY <1>5 DEF Same
<1>7. Proven'
  <2>1. CASE request.status = "resolved"
    <3> DEFINE e == Remark("classified", a)
    <3>1. e \in SupportRequestEvent /\ e.type = "classified" /\ Record(<<e>>)
      BY <1>1, <1>4, <1>6, RemarkRow
    <3> HIDE DEF e
    <3>2. history \in Seq(SupportRequestEvent) /\ Proven
      BY DEF RequestInv, RequestTypes
    <3>3. history' = Append(history, e)
      BY <3>1, <3>2, Recorded DEF Record
    <3>4. Excused(history')
      BY <2>1, <3>1, <3>3, ExcusedNow
    <3> QED
      BY <1>1, <1>6, <3>2, <3>4 DEF Proven, Excused
  <2>2. CASE request.status # "resolved"
    BY <1>1, <1>6, <2>2, ProvenStays
  <2> QED
    BY <2>1, <2>2
<1>8. proofs' \subseteq Proof
  BY <1>1 DEF RequestInv, RequestTypes
<1> QED
  BY <1>1, <1>3, <1>4, <1>5, <1>7, <1>8, RemarkKeeps

\* The same classification, and what is recorded proves no less
LEMMA RemarkProven ==
  ASSUME RequestInv, NEW a \in Account, NEW type \in EventType, type \notin Moves,
         Record(<<Remark(type, a)>>), Same(request, request', {"priority"}),
         proofs \subseteq proofs',
         "permanent" \in proofs' => "permanent" \in proofs \/ request.linked \/ "identity" \in proofs
  PROVE  Proven'
<1> DEFINE e == Remark(type, a)
<1>1. /\ request'.status = request.status /\ request'.linked = request.linked
      /\ request'.category = request.category /\ request'.kind = request.kind
      /\ request'.classification = request.classification
      /\ request'.assignee = request.assignee
  BY DEF Same
<1>2. e \in SupportRequestEvent /\ e.type \notin PublicEvents /\ Record(<<e>>)
  BY <1>1, RemarkRow
<1> HIDE DEF e
<1>3. history' = Append(history, e)
  BY <1>2, Recorded DEF Record, RequestInv, RequestTypes
<1> QED
  BY <1>1, <1>2, <1>3, ProvenStays

LEMMA PrioritiseKeeps ==
  ASSUME RequestInv, NEW a \in Account, NEW priority \in Priorities, Prioritise(a, priority)
  PROVE  Kept
<1> DEFINE t == [request EXCEPT !.priority = priority]
<1>1. /\ request' = t /\ Record(<<Remark("priority_changed", a)>>)
      /\ UNCHANGED <<caps, messages, settled, proofs, creating, page>>
  BY DEF Prioritise
<1>2. request \in SupportRequestRow /\ priority \in Priorities \cup {"normal", "urgent"}
  BY Numbers
<1>3. t \in SupportRequestRow /\ Same(request, t, {"priority"})
  BY <1>2, FieldsOfIntake, Zenon
<1> HIDE DEF t
<1>4. "priority_changed" \in EventType /\ "priority_changed" \notin Moves
  BY DEF EventType, Moves
<1>5. Same(request, request', {"classification", "priority"})
  BY <1>1, <1>3, SameMore
<1>6. Proven'
  BY <1>1, <1>3, <1>4, RemarkProven
<1>7. proofs' \subseteq Proof
  BY <1>1 DEF RequestInv, RequestTypes
<1> QED
  BY <1>1, <1>3, <1>4, <1>5, <1>6, <1>7, RemarkKeeps

\* Commands that leave the row as it is
LEMMA NotedKeeps ==
  ASSUME RequestInv, NEW a \in Account, NEW type \in EventType, type \notin Moves,
         Record(<<Remark(type, a)>>), proofs \subseteq proofs', proofs' \subseteq Proof,
         "permanent" \in proofs' => "permanent" \in proofs \/ request.linked \/ "identity" \in proofs,
         UNCHANGED <<request, caps, messages, settled, creating, page>>
  PROVE  Kept
<1>1. /\ request' \in SupportRequestRow /\ Same(request, request', {"priority"})
      /\ Same(request, request', {"classification", "priority"})
  BY SameSelf, Numbers
<1>2. Proven'
  BY <1>1, RemarkProven
<1> QED
  BY <1>1, <1>2, RemarkKeeps

LEMMA AddNoteKeeps ==
  ASSUME RequestInv, NEW a \in Account, NEW type \in Remarks, AddNote(a, type)
  PROVE  Kept
<1>1. /\ Record(<<Remark(type, a)>>)
      /\ UNCHANGED <<request, caps, messages, settled, proofs, creating, page>>
  BY DEF AddNote
<1>2. type \in EventType /\ type \notin Moves /\ proofs' \subseteq Proof
  BY <1>1, SupportAssumption DEF SupportAssumption, EventType, Moves, RequestInv, RequestTypes
<1> QED
  BY <1>1, <1>2, NotedKeeps

LEMMA VerificationKeeps ==
  ASSUME RequestInv, NEW a \in Account, RecordIdentityVerification(a)
  PROVE  Kept
<1>1. /\ Record(<<Remark("identity_verified", a)>>) /\ proofs' = proofs \cup {"identity"}
      /\ UNCHANGED <<request, caps, messages, settled, creating, page>>
  BY DEF RecordIdentityVerification
<1>2. /\ "identity_verified" \in EventType /\ "identity_verified" \notin Moves
      /\ proofs \subseteq proofs' /\ proofs' \subseteq Proof
  BY <1>1 DEF EventType, Moves, RequestInv, RequestTypes, Proof
<1> QED
  BY <1>1, <1>2, NotedKeeps

LEMMA PrivacyActionKeeps ==
  ASSUME RequestInv, NEW a \in Account, NEW action, RecordPrivacyAction(a, action)
  PROVE  Kept
<1>1. /\ Record(<<Remark("privacy_action_recorded", a)>>)
      /\ proofs' = proofs \cup ({action} \cap {"permanent"})
      /\ action = "permanent" => request.linked \/ "identity" \in proofs
      /\ UNCHANGED <<request, caps, messages, settled, creating, page>>
  BY DEF RecordPrivacyAction
<1>2. /\ "privacy_action_recorded" \in EventType /\ "privacy_action_recorded" \notin Moves
      /\ proofs \subseteq proofs' /\ proofs' \subseteq Proof
  BY <1>1 DEF EventType, Moves, RequestInv, RequestTypes, Proof
<1> QED
  BY <1>1, <1>2, NotedKeeps

\* An escalation, with the classification that it may record first
LEMMA EscalateKeeps ==
  ASSUME RequestInv, NEW a \in Account,
         NEW class \in Classifications \cup {request.classification}, NEW required \in Required,
         Escalate(a, class, required)
  PROVE  Kept
<1> DEFINE s == [request EXCEPT !.status = "escalated", !.assignee = None]
           u == [s EXCEPT !.required = required]
           t == [u EXCEPT !.classification = class]
           d == Remark("classified", a)
           e == Event("escalated", a, request.status, "escalated", None, None)
           records == IF class = request.classification THEN <<e>> ELSE <<d, e>>
<1>1. /\ request.status \in {"open", "in_progress"} /\ request' = t /\ Record(records)
      /\ UNCHANGED <<caps, messages, settled, proofs, creating, page>>
  BY DEF Escalate
<1>2. /\ request \in SupportRequestRow /\ "escalated" \in Status /\ None \in Someone
      /\ class \in Classifications \cup {"unclassified"} /\ required \in Required \cup {None}
  BY Numbers, NoneIsNobody DEF Status, SupportRequestRow
<1>3. /\ s \in SupportRequestRow /\ s.status = "escalated" /\ s.assignee = None
      /\ Same(request, s, {"status", "assignee"})
  BY <1>2, AssignedRow, Zenon
<1> HIDE DEF s
<1>4. u \in SupportRequestRow /\ Same(s, u, {"required"})
  BY <1>2, <1>3, FieldsOfIntake, Zenon
<1> HIDE DEF u
<1>5. t \in SupportRequestRow /\ Same(u, t, {"classification"})
  BY <1>2, <1>4, FieldsOfIntake, Zenon
<1> HIDE DEF t
<1>6. /\ request' \in SupportRequestRow /\ request'.status = "escalated"
      /\ request'.assignee = None /\ request'.public = request.public
      /\ request'.linked = request.linked
      /\ Same(request, request', {"status", "assignee", "required", "classification"})
  BY <1>1, <1>3, <1>4, <1>5 DEF Same
<1>7. Consistent(request')
  BY <1>1, <1>6, Numbers DEF Consistent, Same
<1>8. /\ e \in SupportRequestEvent /\ e.type = "escalated" /\ e.prior = request.status
      /\ e.new = "escalated" /\ e.after = None /\ ~e.byRequester
  BY Numbers, NoneIsNobody DEF Event, SupportRequestEvent, EventType, Status
<1>9. "classified" \in EventType /\ "classified" \notin Moves
  BY DEF EventType, Moves
<1>10. d \in SupportRequestEvent /\ ~d.byRequester /\ Follows(request, request, d)
  BY <1>9, RemarkRow
<1> HIDE DEF d, e
<1>11. Follows(request, request', e)
  BY <1>6, <1>8 DEF Follows, Moves, InWords, PublicEvents, PublicStatusOf
<1>12. Proven' /\ proofs' \subseteq Proof
  BY <1>1, <1>6, ProvenStays DEF RequestInv, RequestTypes
<1>13. Same(request, request', Worked) /\ request'.public >= request.public
  BY <1>6, SameMore, Numbers DEF Worked
<1>14. RequestInv' /\ Heard /\ Withheld /\ history'[Len(history')] = e
  <2>1. CASE class = request.classification
    <3>1. Record(<<e>>)
      BY <1>1, <2>1
    <3> QED
      BY <1>1, <1>6, <1>7, <1>8, <1>11, <1>12, <1>13, <3>1, OperatedOnce
  <2>2. CASE class # request.classification
    <3>1. history' = history \o <<d, e>>
      BY <1>1, <2>2 DEF Record
    <3>2. history \in Seq(SupportRequestEvent) /\ Told /\ OfRequester(history, request.submitter)
      BY DEF RequestInv, RequestTypes, Private
    <3> DEFINE h == Append(history, d)
    <3>3. h \in Seq(SupportRequestEvent) /\ ToldOf(request, h) /\ OfRequester(h, request.submitter)
      BY <1>10, <3>2, ToldMore, OfRequesterMore DEF Told
    <3>4. history' = Append(h, e)
      BY <1>8, <1>10, <3>1, <3>2
    <3> HIDE DEF h
    <3>5. /\ Append(h, e) \in Seq(SupportRequestEvent) /\ ToldOf(request', Append(h, e))
          /\ OfRequester(Append(h, e), request.submitter)
      BY <1>8, <1>11, <3>3, ToldMore, OfRequesterMore
    <3>6. Told' /\ history' \in Seq(SupportRequestEvent) /\ OfRequester(history', request.submitter)
      BY <3>4, <3>5 DEF Told
    <3>7. history'[Len(history')] = e
      BY <1>8, <3>3, <3>4, Recorded
    <3>8. RequestInv' /\ Heard /\ Withheld
      BY <1>1, <1>6, <1>7, <1>12, <1>13, <3>6, Operated
    <3> QED
      BY <3>7, <3>8
  <2> QED
    BY <2>1, <2>2
<1> QED
  BY <1>6, <1>8, <1>14 DEF Kept, HandedOn

LEMMA ResolveKeeps ==
  ASSUME RequestInv, NEW a \in Account,
         NEW category \in {"action_completed", "answered_externally"}, Resolve(a, category)
  PROVE  Kept
<1> DEFINE s == [request EXCEPT !.status = "resolved", !.assignee = None]
           u == [s EXCEPT !.resolvedBy = a]
           v == [u EXCEPT !.category = category]
           t == [v EXCEPT !.recent = TRUE]
           e == Event("resolved", a, "in_progress", "resolved", a, None)
<1>1. /\ request.status = "in_progress" /\ request.assignee = a
      /\ category = "action_completed" /\ IsAccountDeletion(request) => "permanent" \in proofs
      /\ request' = Announced(t) /\ Record(<<e>>)
      /\ UNCHANGED <<caps, messages, settled, proofs, creating, page>>
  BY DEF Resolve, IsAssigned
<1>2. /\ request \in SupportRequestRow /\ "resolved" \in Status /\ None \in Someone
      /\ a \in Someone /\ category \in {"action_completed", "answered_externally", None}
      /\ TRUE \in BOOLEAN
  BY Numbers, NoneIsNobody DEF Status
<1>3. /\ s \in SupportRequestRow /\ s.status = "resolved" /\ s.assignee = None
      /\ Same(request, s, {"status", "assignee"})
  BY <1>2, AssignedRow, Zenon
<1> HIDE DEF s
<1>4. u \in SupportRequestRow /\ u.resolvedBy = a /\ Same(s, u, {"resolvedBy"})
  BY <1>2, <1>3, FieldsOfRow, Zenon
<1> HIDE DEF u
<1>5. v \in SupportRequestRow /\ v.category = category /\ Same(u, v, {"category"})
  <2>1. category \in {"action_completed", "answered_externally", None}
    OBVIOUS
  <2> QED
    BY <1>4, <2>1 DEF SupportRequestRow, Same
<1> HIDE DEF v
<1>6. t \in SupportRequestRow /\ t.recent = TRUE /\ Same(v, t, {"recent"})
  BY <1>2, <1>5, FieldsOfRow, Zenon
<1> HIDE DEF t
<1>7. /\ request' \in SupportRequestRow /\ request'.public = t.public + 1
      /\ Same(t, request', {"public"})
  BY <1>1, <1>6, AnnouncedRow
<1>8. /\ request'.status = "resolved" /\ request'.assignee = None
      /\ request'.public = request.public + 1 /\ request'.linked = request.linked
      /\ request'.resolvedBy = a /\ request'.category = category
  BY <1>3, <1>4, <1>5, <1>6, <1>7 DEF Same
<1>9. Same(request, request', {"status", "assignee", "resolvedBy", "category", "recent", "public"})
  BY <1>3, <1>4, <1>5, <1>6, <1>7 DEF Same
<1>10. Consistent(request')
  BY <1>1, <1>8, <1>9, Numbers, NoneIsNobody DEF Consistent, Same
<1>11. /\ e \in SupportRequestEvent /\ e.type = "resolved" /\ e.prior = "in_progress"
       /\ e.new = "resolved" /\ e.after = None /\ ~e.byRequester /\ e.actor = a
  BY NoneIsNobody DEF Event, SupportRequestEvent, EventType, Status
<1> HIDE DEF e
<1>12. Follows(request, request', e)
  BY <1>1, <1>8, <1>11 DEF Follows, Moves, InWords, PublicEvents, PublicStatusOf
<1>13. Proven'
  <2>1. IsAccountDeletion(request') => IsAccountDeletion(request)
    BY <1>9 DEF IsAccountDeletion, Same
  <2>2. "permanent" \in proofs => request.linked \/ "identity" \in proofs
    BY DEF RequestInv, Proven
  <2> QED
    BY <1>1, <1>8, <2>1, <2>2 DEF Proven
<1>14. Same(request, request', Worked) /\ proofs' \subseteq Proof
  BY <1>1, <1>9, SameMore DEF Worked, RequestInv, RequestTypes
<1>15. RequestInv' /\ Heard /\ Withheld /\ history'[Len(history')] = e
  BY <1>1, <1>7, <1>8, <1>10, <1>11, <1>12, <1>13, <1>14, Numbers, OperatedOnce
<1> QED
  BY <1>1, <1>8, <1>11, <1>15 DEF Kept, HandedOn

\* Whoever resolved the request last is somebody, or nobody ever has.
LEMMA LastResolverIsSomeone == ASSUME RequestInv PROVE LastResolver \in Someone
<1>1. history \in Seq(SupportRequestEvent)
  BY DEF RequestInv, RequestTypes
<1>2. Latest(history, {"resolved"}) \in 0..Len(history)
  BY <1>1, LatestOfSome
<1>3. ASSUME NEW i \in 1..Len(history) PROVE history[i].before \in Someone
  <2>1. history[i] \in SupportRequestEvent
    BY <1>1, ElementOfSeq
  <2> QED
    BY <2>1 DEF SupportRequestEvent
<1> QED
  BY <1>1, <1>2, <1>3, NoneIsNobody, LenProperties DEF LastResolver

LEMMA ReopenKeeps == ASSUME RequestInv, NEW a \in Account, Reopen(a) PROVE Kept
<1> DEFINE restored == IF LastResolver # None /\ MayHandle(request, LastResolver)
                       THEN LastResolver ELSE None
           status == IF restored = None THEN "open" ELSE "in_progress"
           s == [request EXCEPT !.status = status, !.assignee = restored]
           t == Unresolved(s)
           e == Event("reopened", a, "resolved", status, LastResolver, restored)
<1>1. /\ request.status = "resolved" /\ request' = Announced(t) /\ Record(<<e>>)
      /\ UNCHANGED <<caps, messages, settled, proofs, creating, page>>
  BY DEF Reopen
<1>2. /\ restored \in Someone /\ LastResolver \in Someone
      /\ restored # None => MayHandle(request, restored)
  BY LastResolverIsSomeone, NoneIsNobody
<1> HIDE DEF restored
<1>3. /\ request \in SupportRequestRow /\ status \in Status
      /\ (status = "in_progress" <=> restored # None) /\ status \in {"open", "in_progress"}
  BY Numbers DEF Status
<1> HIDE DEF status
<1>4. /\ s \in SupportRequestRow /\ s.status = status /\ s.assignee = restored
      /\ Same(request, s, {"status", "assignee"})
  BY <1>2, <1>3, AssignedRow, Zenon
<1> HIDE DEF s
<1>5. /\ t \in SupportRequestRow /\ t.resolvedBy = None /\ t.category = None /\ t.recent = FALSE
      /\ Same(s, t, {"resolvedBy", "category", "recent"})
  BY <1>4, UnresolvedRow
<1> HIDE DEF t
<1>6. /\ request' \in SupportRequestRow /\ request'.public = t.public + 1
      /\ Same(t, request', {"public"})
  BY <1>1, <1>5, AnnouncedRow
<1>7. /\ request'.status = status /\ request'.assignee = restored
      /\ request'.public = request.public + 1 /\ request'.linked = request.linked
      /\ request'.resolvedBy = None /\ request'.category = None /\ request'.recent = FALSE
  BY <1>4, <1>5, <1>6 DEF Same
<1>8. Same(request, request', {"status", "assignee", "resolvedBy", "category", "recent", "public"})
  BY <1>4, <1>5, <1>6 DEF Same
<1>9. Consistent(request')
  BY <1>3, <1>7, <1>8, Numbers DEF Consistent, Same
<1>10. /\ e \in SupportRequestEvent /\ e.type = "reopened" /\ e.prior = "resolved"
       /\ e.new = status /\ e.after = restored /\ ~e.byRequester
  <2>1. "reopened" \in EventType /\ "resolved" \in Status
    BY DEF EventType, Status
  <2> QED
    BY <1>2, <1>3, <2>1, NoneIsNobody DEF Event, SupportRequestEvent
<1> HIDE DEF e
<1>11. Follows(request, request', e)
  BY <1>1, <1>3, <1>7, <1>10 DEF Follows, Moves, InWords, PublicEvents, PublicStatusOf
<1>12. request'.status # "resolved"
  BY <1>3, <1>7
<1>13. Proven' /\ proofs' \subseteq Proof
  BY <1>1, <1>7, <1>12, ProvenStays DEF RequestInv, RequestTypes
<1>14. Same(request, request', Worked) /\ request'.public >= request.public
  BY <1>7, <1>8, SameMore, Numbers DEF Worked
<1>15. RequestInv' /\ Heard /\ Withheld
  BY <1>1, <1>6, <1>9, <1>10, <1>11, <1>13, <1>14, OperatedOnce
<1>16. restored # None => MayHandle(request', restored)
  BY <1>1, <1>2, <1>8, HandlerStays DEF MayHandle
<1>17. request.assignee = None
  BY <1>1, Numbers DEF Consistent
<1> QED
  BY <1>7, <1>15, <1>16, <1>17 DEF Kept, HandedOn

-----------------------------------------------------------------------------
(* The thread.                                                              *)

\* A message more
LEMMA ThreadMore ==
  ASSUME RequestInv, RequestInv', NEW m \in MessageRow, messages' = Append(messages, m),
         request'.redacted = request.redacted, request'.submitter = request.submitter,
         request'.personal = request.personal, request'.submitter = request.submitter,
         m.kind = "requester" => creating.next = "message" \/ request.submitter # None,
         m.kind = "requester" /\ ~m.initial => request'.status # "resolved"
  PROVE  Heard /\ Withheld
<1>1. /\ Len(messages) \in Nat /\ Len(messages') = Len(messages) + 1
      /\ \A i \in 1..Len(messages) : messages'[i] = messages[i]
      /\ messages'[Len(messages) + 1] = m
  BY AppendProperties, LenProperties DEF RequestInv, RequestTypes
<1>2. Heard
  BY <1>1 DEF Heard
<1>3. ASSUME request'.redacted PROVE request'.submitter = None /\ ~request'.personal
  BY <1>3 DEF RequestInv, Private
<1>4. ASSUME request'.redacted, NEW i \in 1..Len(messages'), Remains(messages'[i])
      PROVE  \/ creating.next = "message"
             \/ request.redacted /\ i \in 1..Len(messages) /\ Remains(messages[i])
  <2>1. request.submitter = None
    BY <1>3, <1>4
  <2>2. CASE i = Len(messages) + 1
    BY <1>1, <1>4, <2>1, <2>2 DEF Remains
  <2>3. CASE i # Len(messages) + 1
    BY <1>1, <1>4, <2>3
  <2> QED
    BY <2>2, <2>3
<1>5. Withheld
  BY <1>3, <1>4 DEF Withheld, RequestInv, Private, OfRequester
<1> QED
  BY <1>2, <1>5

\* What a message more leaves of the invariant's part about messages
LEMMA MessageMore ==
  ASSUME RequestInv, NEW m \in MessageRow, m.initial => m.kind = "requester",
         messages' = Append(messages, m), UNCHANGED settled
  PROVE  /\ messages' \in Seq(MessageRow) /\ settled' \in 0..Len(messages')
         /\ \A i \in 1..Len(messages') : messages'[i].initial => messages'[i].kind = "requester"
<1>1. /\ Len(messages) \in Nat /\ Len(messages') = Len(messages) + 1
      /\ \A i \in 1..Len(messages) : messages'[i] = messages[i]
      /\ messages'[Len(messages) + 1] = m /\ messages' \in Seq(MessageRow)
  BY AppendProperties, LenProperties DEF RequestInv, RequestTypes
<1>2. settled' \in 0..Len(messages')
  BY <1>1 DEF RequestInv, RequestTypes
<1>3. ASSUME NEW i \in 1..Len(messages') PROVE messages'[i].initial => messages'[i].kind = "requester"
  <2>1. CASE i = Len(messages) + 1
    BY <1>1, <2>1
  <2>2. CASE i # Len(messages) + 1
    BY <1>1, <2>2 DEF RequestInv, Private
  <2> QED
    BY <2>1, <2>2
<1> QED
  BY <1>1, <1>2, <1>3

\* A step that writes the thread, and of the row no more than its updates
LEMMA ThreadMoves ==
  ASSUME RequestInv, request' \in SupportRequestRow, Consistent(request'),
         Same(request, request', {"public", "read", "personal"}),
         request'.public >= request.public, request'.redacted => ~request'.personal,
         messages' \in Seq(MessageRow), settled' \in 0..Len(messages'),
         \A i \in 1..Len(messages') : messages'[i].initial => messages'[i].kind = "requester",
         creating' \in [next : {"message", "mark", "nothing"}, by : Someone],
         UNCHANGED <<caps, history, proofs, page>>
  PROVE  RequestInv' /\ HandedOn
<1>1. /\ request'.submitter = request.submitter /\ request'.redacted = request.redacted
      /\ request'.status = request.status
      /\ request'.assignee = request.assignee /\ request'.linked = request.linked
      /\ request'.category = request.category /\ request'.kind = request.kind
      /\ request'.classification = request.classification
  BY DEF Same
<1>2. request.public \in Nat /\ request'.public \in Nat
  BY DEF RequestInv, RequestTypes, SupportRequestRow
<1>3. RequestTypes'
  BY <1>2 DEF RequestInv, RequestTypes
<1>4. Told'
  BY <1>1, ToldStays
<1>5. Proven'
  BY <1>1, ProvenStays
<1>6. Private'
  BY <1>1 DEF RequestInv, Private, OfRequester
<1>7. RequestInv'
  BY <1>3, <1>4, <1>5, <1>6 DEF RequestInv
<1> QED
  BY <1>1, <1>7, NotTaken

LEMMA PostInitialKeeps == ASSUME RequestInv, PostInitialMessage PROVE Kept
<1> DEFINE m == Message(creating.by, "requester", TRUE)
<1>1. /\ creating.next = "message" /\ messages' = Append(messages, m)
      /\ creating' = [creating EXCEPT !.next = "mark"]
      /\ UNCHANGED <<request, caps, history, settled, proofs, page>>
  BY DEF PostInitialMessage
<1>2. /\ creating \in [next : {"message", "mark", "nothing"}, by : Someone]
      /\ creating' \in [next : {"message", "mark", "nothing"}, by : Someone]
  BY <1>1 DEF RequestInv, RequestTypes
<1>3. m \in MessageRow /\ m.kind = "requester" /\ m.initial
  BY <1>2 DEF Message, MessageRow
<1> HIDE DEF m
<1>4. /\ messages' \in Seq(MessageRow) /\ settled' \in 0..Len(messages')
      /\ \A i \in 1..Len(messages') : messages'[i].initial => messages'[i].kind = "requester"
  BY <1>1, <1>3, MessageMore
<1>5. /\ request' \in SupportRequestRow /\ Consistent(request')
      /\ Same(request, request', {"public", "read", "personal"})
      /\ request'.public >= request.public /\ (request'.redacted => ~request'.personal)
  BY <1>1, Numbers, SameSelf DEF RequestInv, Private
<1>6. RequestInv' /\ HandedOn
  BY <1>1, <1>2, <1>4, <1>5, ThreadMoves
<1>7. Heard /\ Withheld
  BY <1>1, <1>3, <1>6, ThreadMore
<1> QED
  BY <1>6, <1>7 DEF Kept

LEMMA OperatorReplyKeeps == ASSUME RequestInv, NEW a \in Account, OperatorReply(a) PROVE Kept
<1> DEFINE m == Message(a, "operator", FALSE)
<1>1. /\ messages' = Append(messages, m) /\ request' = Announced(request)
      /\ UNCHANGED <<caps, history, settled, proofs, creating, page>>
  BY DEF OperatorReply
<1>2. creating' \in [next : {"message", "mark", "nothing"}, by : Someone]
  BY <1>1 DEF RequestInv, RequestTypes
<1>3. m \in MessageRow /\ m.kind = "operator" /\ ~m.initial
  BY NoneIsNobody DEF Message, MessageRow
<1> HIDE DEF m
<1>4. /\ messages' \in Seq(MessageRow) /\ settled' \in 0..Len(messages')
      /\ \A i \in 1..Len(messages') : messages'[i].initial => messages'[i].kind = "requester"
  BY <1>1, <1>3, MessageMore
<1>5. /\ request' \in SupportRequestRow /\ request'.public = request.public + 1
      /\ Same(request, request', {"public"})
  BY <1>1, Numbers, AnnouncedRow
<1>6. Consistent(request')
  BY <1>5, Numbers DEF Consistent, Same
<1>7. /\ request'.redacted = request.redacted /\ request'.submitter = request.submitter
      /\ request'.personal = request.personal
  BY <1>5 DEF Same
<1>8. Same(request, request', {"public", "read", "personal"})
  BY <1>5, SameMore
<1>9. request'.public >= request.public /\ (request'.redacted => ~request'.personal)
  BY <1>5, <1>7, Numbers DEF RequestInv, Private
<1>10. RequestInv' /\ HandedOn
  BY <1>1, <1>2, <1>4, <1>5, <1>6, <1>8, <1>9, ThreadMoves
<1>11. Heard /\ Withheld
  BY <1>1, <1>3, <1>7, <1>10, ThreadMore
<1> QED
  BY <1>10, <1>11 DEF Kept

\* A reply of the requester, which reopens a request that was resolved
LEMMA RequesterReplyKeeps == ASSUME RequestInv, NEW a \in Account, RequesterReply(a) PROVE Kept
<1> DEFINE m == Message(a, "requester", FALSE)
<1>1. /\ request.submitter = a /\ messages' = Append(messages, m)
      /\ UNCHANGED <<caps, settled, proofs, creating, page>>
  BY DEF RequesterReply
<1>2. /\ creating' \in [next : {"message", "mark", "nothing"}, by : Someone]
      /\ request.submitter # None
  BY <1>1, NoneIsNobody DEF RequestInv, RequestTypes
<1>3. m \in MessageRow /\ m.kind = "requester" /\ ~m.initial
  BY NoneIsNobody DEF Message, MessageRow
<1> HIDE DEF m
<1>4. /\ messages' \in Seq(MessageRow) /\ settled' \in 0..Len(messages')
      /\ \A i \in 1..Len(messages') : messages'[i].initial => messages'[i].kind = "requester"
  BY <1>1, <1>3, MessageMore
<1>5. CASE request.status # "resolved" /\ request' = ReadByRequester(request) /\ history' = history
  <2>1. /\ request' \in SupportRequestRow /\ request'.public = request.public + 1
        /\ request'.read = request.public + 1 /\ Same(request, request', {"public", "read"})
    BY <1>5, Numbers, ReadRow
  <2>2. Consistent(request')
    BY <2>1, Numbers DEF Consistent, Same
  <2>3. /\ request'.redacted = request.redacted /\ request'.submitter = request.submitter
        /\ request'.personal = request.personal /\ request'.status = request.status
    BY <2>1 DEF Same
  <2>4. Same(request, request', {"public", "read", "personal"})
    BY <2>1, SameMore
  <2>5. request'.public >= request.public /\ (request'.redacted => ~request'.personal)
    BY <2>1, <2>3, Numbers DEF RequestInv, Private
  <2>6. RequestInv' /\ HandedOn
    BY <1>1, <1>2, <1>4, <1>5, <2>1, <2>2, <2>4, <2>5, ThreadMoves
  <2>7. Heard /\ Withheld
    BY <1>1, <1>2, <1>3, <1>5, <2>3, <2>6, ThreadMore
  <2> QED
    BY <2>6, <2>7 DEF Kept
<1> DEFINE s == [request EXCEPT !.status = "open", !.assignee = None]
           t == Unresolved(s)
           d == Event("reopened", a, "resolved", "open", None, None)
           e == [d EXCEPT !.byRequester = TRUE]
<1>6. CASE request.status = "resolved" /\ request' = ReadByRequester(t) /\ Record(<<e>>)
  <2>1. request \in SupportRequestRow /\ "open" \in Status /\ None \in Someone
    BY Numbers, NoneIsNobody DEF Status
  <2>2. /\ s \in SupportRequestRow /\ s.status = "open" /\ s.assignee = None
        /\ Same(request, s, {"status", "assignee"})
    BY <2>1, AssignedRow, Zenon
  <2> HIDE DEF s
  <2>3. /\ t \in SupportRequestRow /\ t.resolvedBy = None /\ t.category = None /\ t.recent = FALSE
        /\ Same(s, t, {"resolvedBy", "category", "recent"})
    BY <2>2, UnresolvedRow
  <2> HIDE DEF t
  <2>4. t.public = request.public
    BY <2>2, <2>3 DEF Same
  <2>5. /\ request' \in SupportRequestRow /\ request'.public = request.public + 1
        /\ request'.read = request.public + 1 /\ Same(t, request', {"public", "read"})
    BY <1>6, <2>1, <2>3, <2>4, ReadRow
  <2>6. /\ request'.status = "open" /\ request'.assignee = None /\ request'.resolvedBy = None
        /\ request'.category = None /\ request'.recent = FALSE
        /\ request'.linked = request.linked /\ request'.redacted = request.redacted
        /\ request'.submitter = request.submitter /\ request'.personal = request.personal
    BY <2>2, <2>3, <2>5 DEF Same
  <2>7. Consistent(request')
    BY <2>5, <2>6, Numbers DEF Consistent
  <2>8. /\ d \in SupportRequestEvent /\ d.type = "reopened" /\ d.prior = "resolved"
        /\ d.new = "open" /\ d.after = None /\ d.actor = a
    BY NoneIsNobody DEF Event, SupportRequestEvent, EventType, Status
  <2> HIDE DEF d
  <2>9. /\ e \in SupportRequestEvent /\ e.type = "reopened" /\ e.prior = "resolved"
        /\ e.new = "open" /\ e.after = None /\ e.actor = a
    BY <2>8 DEF SupportRequestEvent
  <2> HIDE DEF e
  <2>10. Follows(request, request', e)
    BY <1>6, <2>6, <2>9 DEF Follows, Moves, InWords, PublicEvents, PublicStatusOf
  <2>11. history \in Seq(SupportRequestEvent) /\ Told /\ OfRequester(history, request.submitter)
    BY DEF RequestInv, RequestTypes, Private
  <2>12. history' = Append(history, e)
    BY <1>6, <2>9, <2>11, Recorded DEF Record
  <2>13. /\ ToldOf(request', Append(history, e)) /\ Append(history, e) \in Seq(SupportRequestEvent)
         /\ OfRequester(Append(history, e), request.submitter)
    BY <1>1, <2>9, <2>10, <2>11, ToldMore, OfRequesterMore DEF Told
  <2>14. Told' /\ history' \in Seq(SupportRequestEvent) /\ OfRequester(history', request.submitter)
    BY <2>12, <2>13 DEF Told
  <2>15. request'.status # "resolved"
    BY <2>6
  <2>16. Proven'
    BY <1>1, <2>6, <2>15, ProvenStays
  <2>17. RequestTypes'
    BY <1>1, <1>2, <1>4, <2>5, <2>14, Numbers DEF RequestInv, RequestTypes
  <2>18. Private'
    BY <1>4, <2>6, <2>14 DEF RequestInv, Private
  <2>19. RequestInv'
    BY <2>7, <2>14, <2>16, <2>17, <2>18 DEF RequestInv
  <2>20. Heard /\ Withheld
    BY <1>1, <1>2, <1>3, <2>6, <2>15, <2>19, ThreadMore
  <2>21. HandedOn
    <3>1. request.assignee = None
      BY <1>6, Numbers DEF Consistent
    <3> QED
      BY <2>6, <3>1 DEF HandedOn
  <2> QED
    BY <2>19, <2>20, <2>21 DEF Kept
<1>7. \/ request.status # "resolved" /\ request' = ReadByRequester(request) /\ history' = history
      \/ request.status = "resolved" /\ request' = ReadByRequester(t) /\ Record(<<e>>)
  BY DEF RequesterReply
<1> QED
  BY <1>5, <1>6, <1>7

LEMMA EditKeeps ==
  ASSUME RequestInv, NEW a \in Account, NEW i \in 1..Len(messages), EditMessage(a, i)
  PROVE  Kept
<1> DEFINE personal == request.personal \/ messages[i].initial
           row == [request EXCEPT !.personal = personal]
<1>1. /\ messages' = [messages EXCEPT ![i].personal = TRUE]
      /\ messages[i].kind # "operator" => request.submitter = a
      /\ request' = IF messages[i].kind = "requester" THEN ReadByRequester(row) ELSE Announced(row)
      /\ UNCHANGED <<caps, history, settled, proofs, creating, page>>
  BY DEF EditMessage
<1>2. /\ messages \in Seq(MessageRow) /\ messages[i] \in MessageRow /\ Len(messages) \in Nat
      /\ messages[i].initial => messages[i].kind = "requester"
  BY ElementOfSeq, LenProperties DEF RequestInv, RequestTypes, Private
<1>3. messages[i].kind = "requester" => request.submitter # None
  BY <1>1, NoneIsNobody
<1>4. personal \in BOOLEAN /\ request \in SupportRequestRow
  BY <1>2, Numbers DEF MessageRow, SupportRequestRow
<1>5. /\ request.redacted => ~personal /\ messages[i].kind = "operator"
      /\ request.redacted => request.submitter = None
  BY <1>2, <1>3 DEF RequestInv, Private, MessageRow
<1> HIDE DEF personal
<1>6. row \in SupportRequestRow /\ row.personal = personal /\ Same(request, row, {"personal"})
  BY <1>4, FieldsOfIntake, Zenon
<1> HIDE DEF row
<1>7. row.public = request.public
  BY <1>6 DEF Same
<1>8. /\ request' \in SupportRequestRow /\ request'.public = request.public + 1
      /\ Same(row, request', {"public", "read"}) /\ request'.read \in {row.read, request.public + 1}
  <2>1. CASE messages[i].kind = "requester"
    BY <1>1, <1>4, <1>6, <1>7, <2>1, ReadRow
  <2>2. CASE messages[i].kind # "requester"
    <3>1. /\ request' \in SupportRequestRow /\ request'.public = request.public + 1
          /\ Same(row, request', {"public"})
      BY <1>1, <1>6, <1>7, <2>2, AnnouncedRow
    <3> QED
      BY <3>1, SameMore DEF Same
  <2> QED
    BY <2>1, <2>2
<1>9. Same(request, request', {"public", "read", "personal"}) /\ request'.personal = personal
  BY <1>6, <1>8 DEF Same
<1>10. Consistent(request')
  BY <1>6, <1>8, <1>9, Numbers DEF Consistent, Same
<1>11. request'.redacted = request.redacted /\ request'.submitter = request.submitter
  BY <1>9 DEF Same
<1>12. request'.public >= request.public /\ (request'.redacted => ~request'.personal)
  BY <1>5, <1>8, <1>9, <1>11, Numbers
<1>13. /\ Len(messages') = Len(messages) /\ messages' \in Seq(MessageRow)
       /\ \A j \in 1..Len(messages) : messages'[j].kind = messages[j].kind
                                      /\ messages'[j].initial = messages[j].initial
                                      /\ (j # i => messages'[j] = messages[j])
  <2> DEFINE m == [messages[i] EXCEPT !.personal = TRUE]
  <2>1. m \in MessageRow /\ m.kind = messages[i].kind /\ m.initial = messages[i].initial
    BY <1>2 DEF MessageRow
  <2>2. messages' = [messages EXCEPT ![i] = m]
    BY <1>1
  <2> HIDE DEF m
  <2> QED
    BY <1>2, <2>1, <2>2, ExceptSeq
<1>14. /\ settled' \in 0..Len(messages')
       /\ \A j \in 1..Len(messages') : messages'[j].initial => messages'[j].kind = "requester"
       /\ creating' \in [next : {"message", "mark", "nothing"}, by : Someone]
  BY <1>1, <1>13 DEF RequestInv, RequestTypes, Private
<1>15. RequestInv' /\ HandedOn
  BY <1>1, <1>8, <1>9, <1>10, <1>12, <1>13, <1>14, ThreadMoves
<1>16. Heard
  BY <1>2, <1>13 DEF Heard
<1>17. Withheld
  <2>1. ASSUME request'.redacted, NEW j \in 1..Len(messages'), Remains(messages'[j])
        PROVE  request.redacted /\ j \in 1..Len(messages) /\ Remains(messages[j])
    <3>1. messages[i].kind = "operator" /\ request.redacted
      BY <1>5, <1>11, <2>1
    <3> QED
      BY <1>13, <2>1, <3>1 DEF Remains
  <2> QED
    BY <1>1, <1>5, <1>11, <1>12, <2>1 DEF Withheld, RequestInv, Private, OfRequester
<1> QED
  BY <1>15, <1>16, <1>17 DEF Kept

-----------------------------------------------------------------------------
(* Redaction.                                                               *)

\* Two histories that differ in who acted, at most
LEMMA Alike ==
  ASSUME NEW h \in Seq(SupportRequestEvent), NEW g \in Seq(SupportRequestEvent), Len(g) = Len(h),
         \A i \in 1..Len(h) : /\ g[i].type = h[i].type /\ g[i].prior = h[i].prior
                              /\ g[i].new = h[i].new /\ g[i].after = h[i].after
  PROVE  /\ \A r : ToldOf(r, h) => ToldOf(r, g)
         /\ Excused(h) => Excused(g)
<1>1. Len(h) \in Nat /\ (h = <<>> <=> Len(h) = 0) /\ (g = <<>> <=> Len(g) = 0)
  BY EmptySeq, LenProperties
<1>2. ASSUME NEW types PROVE Latest(g, types) = Latest(h, types)
  <2>1. {i \in 1..Len(g) : g[i].type \in types} = {i \in 1..Len(h) : h[i].type \in types}
    OBVIOUS
  <2> QED
    BY <2>1, Zenon DEF Latest
<1>3. ASSUME NEW types PROVE Latest(h, types) \in 0..Len(h)
  BY LatestOfSome
<1>4. Chained(h) => Chained(g)
  BY <1>1 DEF Chained
<1>5. Standing(g) = Standing(h)
  BY <1>1 DEF Standing
<1>6. Holder(g) = Holder(h)
  BY <1>1, <1>2, <1>3 DEF Holder
<1>7. Shown(g) = Shown(h)
  BY <1>1, <1>2, <1>3 DEF Shown, PublicStatusOf
<1>8. Excused(h) => Excused(g)
  <2> SUFFICES ASSUME Excused(h) PROVE Excused(g)
    OBVIOUS
  <2>1. PICK i, j \in 1..Len(h) :
           /\ i < j /\ h[i].type = "resolved" /\ h[j].type = "classified"
           /\ \A k \in i+1..Len(h) : h[k].type \notin PublicEvents
    BY DEF Excused
  <2>2. \A k \in i+1..Len(g) : g[k].type \notin PublicEvents
    BY <1>1, <2>1
  <2> QED
    BY <2>1, <2>2 DEF Excused
<1> QED
  BY <1>4, <1>5, <1>6, <1>7, <1>8 DEF ToldOf

\* A sequence written place by place
LEMMA PlaceByPlace ==
  ASSUME NEW n \in Nat, NEW S, NEW g, g = [i \in 1..n |-> g[i]], \A i \in 1..n : g[i] \in S
  PROVE  g \in Seq(S) /\ Len(g) = n
<1>1. g \in [1..n -> S]
  OBVIOUS
<1> QED
  BY <1>1

\* An event without its requester
LEMMA UnnamedRow ==
  ASSUME NEW e \in SupportRequestEvent, e.byRequester => e.actor = request.submitter
  PROVE  /\ Unnamed(e) \in SupportRequestEvent /\ (Unnamed(e).byRequester => Unnamed(e).actor = None)
         /\ Unnamed(e).type = e.type /\ Unnamed(e).prior = e.prior
         /\ Unnamed(e).new = e.new /\ Unnamed(e).after = e.after
BY NoneIsNobody DEF Unnamed, SupportRequestEvent

\* A message without its requester
LEMMA EmptiedRow ==
  ASSUME NEW m \in MessageRow
  PROVE  /\ Emptied(m) \in MessageRow /\ Emptied(m).kind = m.kind /\ Emptied(m).initial = m.initial
         /\ ~Remains(Emptied(m))
<1> DEFINE f == [m EXCEPT !.personal = FALSE]
           author == IF m.kind = "requester" THEN None ELSE f.author
           n == [f EXCEPT !.author = author]
<1>1. Emptied(m) = n
  BY DEF Emptied
<1>2. /\ f \in MessageRow /\ f.personal = FALSE /\ f.kind = m.kind /\ f.initial = m.initial
  BY DEF MessageRow
<1> HIDE DEF f
<1>3. author \in Someone /\ (m.kind = "requester" => author = None)
  BY <1>2, NoneIsNobody DEF MessageRow
<1> HIDE DEF author
<1>4. /\ n \in MessageRow /\ n.personal = FALSE /\ n.kind = m.kind /\ n.initial = m.initial
      /\ n.author = author
  BY <1>2, <1>3 DEF MessageRow
<1> HIDE DEF n
<1> QED
  BY <1>1, <1>3, <1>4 DEF Remains

\* The history without its requester
LEMMA Forgotten ==
  ASSUME RequestInv, NEW g, g = [i \in 1..Len(history) |-> Unnamed(history[i])]
  PROVE  /\ g \in Seq(SupportRequestEvent) /\ Len(g) = Len(history)
         /\ OfRequester(g, None)
         /\ \A i \in 1..Len(history) : /\ g[i].type = history[i].type /\ g[i].prior = history[i].prior
                                       /\ g[i].new = history[i].new /\ g[i].after = history[i].after
<1>1. /\ history \in Seq(SupportRequestEvent) /\ OfRequester(history, request.submitter)
      /\ Len(history) \in Nat
  BY LenProperties DEF RequestInv, RequestTypes, Private
<1>2. ASSUME NEW i \in 1..Len(history)
      PROVE  /\ g[i] \in SupportRequestEvent /\ (g[i].byRequester => g[i].actor = None)
             /\ g[i].type = history[i].type /\ g[i].prior = history[i].prior
             /\ g[i].new = history[i].new /\ g[i].after = history[i].after
  <2>1. history[i] \in SupportRequestEvent /\ g[i] = Unnamed(history[i])
    BY <1>1, ElementOfSeq
  <2>2. history[i].byRequester => history[i].actor = request.submitter
    BY <1>1 DEF OfRequester
  <2> QED
    BY <2>1, <2>2, UnnamedRow
<1>3. g = [i \in 1..Len(history) |-> g[i]]
  OBVIOUS
<1>4. g \in Seq(SupportRequestEvent) /\ Len(g) = Len(history)
  BY <1>1, <1>2, <1>3, PlaceByPlace
<1> QED
  BY <1>2, <1>4 DEF OfRequester

\* The thread without its requester
LEMMA ThreadEmptied ==
  ASSUME RequestInv, NEW g, g = [i \in 1..Len(messages) |-> Emptied(messages[i])]
  PROVE  /\ g \in Seq(MessageRow) /\ Len(g) = Len(messages)
         /\ \A i \in 1..Len(g) : (g[i].initial => g[i].kind = "requester") /\ ~Remains(g[i])
<1>1. /\ messages \in Seq(MessageRow) /\ Len(messages) \in Nat
      /\ \A i \in 1..Len(messages) : messages[i].initial => messages[i].kind = "requester"
  BY LenProperties DEF RequestInv, RequestTypes, Private
<1>2. ASSUME NEW i \in 1..Len(messages)
      PROVE  /\ g[i] \in MessageRow /\ ~Remains(g[i])
             /\ g[i].initial => g[i].kind = "requester"
  <2>1. messages[i] \in MessageRow /\ g[i] = Emptied(messages[i])
    BY <1>1, ElementOfSeq
  <2> QED
    BY <1>1, <2>1, EmptiedRow
<1>3. g = [i \in 1..Len(messages) |-> g[i]]
  OBVIOUS
<1>4. g \in Seq(MessageRow) /\ Len(g) = Len(messages)
  BY <1>1, <1>2, <1>3, PlaceByPlace
<1> QED
  BY <1>2, <1>4

LEMMA RedactKeeps == ASSUME RequestInv, NEW a \in Account, Redact(a) PROVE Kept
<1> DEFINE g == [i \in 1..Len(history) |-> Unnamed(history[i])]
           e == Remark("personal_content_redacted", a)
           s == [request EXCEPT !.submitter = None]
           u == [s EXCEPT !.contact = None]
           v == [u EXCEPT !.personal = FALSE]
           t == [v EXCEPT !.redacted = TRUE]
<1>1. /\ request' = t /\ history' = Append(g, e)
      /\ messages' = [i \in 1..Len(messages) |-> Emptied(messages[i])]
      /\ UNCHANGED <<caps, settled, proofs, creating, page>>
  BY DEF Redact
<1>2. request \in SupportRequestRow /\ None \in Someone /\ FALSE \in BOOLEAN /\ TRUE \in BOOLEAN
  BY Numbers, NoneIsNobody
<1>3. s \in SupportRequestRow /\ s.submitter = None /\ Same(request, s, {"submitter"})
  BY <1>2, FieldsOfIntake, Zenon
<1> HIDE DEF s
<1>4. u \in SupportRequestRow /\ Same(s, u, {"contact"})
  BY <1>2, <1>3, FieldsOfIntake, Zenon
<1> HIDE DEF u
<1>5. v \in SupportRequestRow /\ v.personal = FALSE /\ Same(u, v, {"personal"})
  BY <1>2, <1>4, FieldsOfIntake, Zenon
<1> HIDE DEF v
<1>6. t \in SupportRequestRow /\ t.redacted = TRUE /\ Same(v, t, {"redacted"})
  BY <1>2, <1>5, FieldsOfIntake, Zenon
<1> HIDE DEF t
<1>7. /\ request' \in SupportRequestRow /\ request'.submitter = None /\ ~request'.personal
      /\ request'.redacted /\ Same(request, request', {"submitter", "contact", "personal", "redacted"})
  BY <1>1, <1>3, <1>4, <1>5, <1>6 DEF Same
<1>8. /\ request'.status = request.status /\ request'.assignee = request.assignee
      /\ request'.public = request.public /\ request'.linked = request.linked
      /\ request'.category = request.category /\ request'.kind = request.kind
      /\ request'.classification = request.classification
  BY <1>7 DEF Same
<1>9. Consistent(request')
  BY <1>7, Numbers DEF Consistent, Same
<1>10. /\ g \in Seq(SupportRequestEvent) /\ Len(g) = Len(history) /\ OfRequester(g, None)
       /\ \A i \in 1..Len(history) : /\ g[i].type = history[i].type /\ g[i].prior = history[i].prior
                                     /\ g[i].new = history[i].new /\ g[i].after = history[i].after
  BY Forgotten
<1> HIDE DEF g
<1>11. "personal_content_redacted" \in EventType /\ "personal_content_redacted" \notin Moves
  BY DEF EventType, Moves
<1>12. /\ e \in SupportRequestEvent /\ ~e.byRequester /\ Follows(request, request', e)
       /\ e.type \notin PublicEvents
  BY <1>8, <1>11, RemarkRow
<1> HIDE DEF e
<1>13. history \in Seq(SupportRequestEvent) /\ Told /\ Proven
  BY DEF RequestInv, RequestTypes
<1>14. ToldOf(request, g) /\ (Excused(history) => Excused(g))
  BY <1>10, <1>13, Alike DEF Told
<1>15. /\ ToldOf(request', Append(g, e)) /\ Append(g, e) \in Seq(SupportRequestEvent)
       /\ OfRequester(Append(g, e), None)
  BY <1>10, <1>12, <1>14, ToldMore, OfRequesterMore
<1>16. Excused(history) => Excused(Append(g, e))
  BY <1>10, <1>12, <1>14, ExcusedMore
<1>17. Told' /\ history' \in Seq(SupportRequestEvent) /\ OfRequester(history', None)
  BY <1>1, <1>15 DEF Told
<1>18. Proven'
  <2>1. Excused(history) => Excused(history')
    BY <1>1, <1>16
  <2>2. IsAccountDeletion(request') <=> IsAccountDeletion(request)
    BY <1>8 DEF IsAccountDeletion
  <2>3. Excused(history)' <=> Excused(history')
    BY DEF Excused
  <2> QED
    BY <1>1, <1>8, <1>13, <2>1, <2>2, <2>3 DEF Proven
<1>19. /\ messages' \in Seq(MessageRow) /\ Len(messages') = Len(messages)
       /\ \A i \in 1..Len(messages') : /\ messages'[i].initial => messages'[i].kind = "requester"
                                       /\ ~Remains(messages'[i])
  BY <1>1, ThreadEmptied
<1>20. RequestTypes'
  BY <1>1, <1>7, <1>8, <1>17, <1>19 DEF RequestInv, RequestTypes
<1>21. Private'
  BY <1>7, <1>17, <1>19 DEF Private
<1>22. RequestInv'
  BY <1>9, <1>17, <1>18, <1>20, <1>21 DEF RequestInv
<1>23. HandedOn
  BY <1>8, NotTaken
<1>24. Heard
  BY <1>19, Numbers DEF Heard
<1>25. Withheld
  BY <1>7, <1>17, <1>19 DEF Withheld, OfRequester
<1> QED
  BY <1>22, <1>23, <1>24, <1>25 DEF Kept

-----------------------------------------------------------------------------
(* Every step.                                                              *)

LEMMA RequestStep == ASSUME RequestInv, [Next]_vars PROVE Kept
<1>1. CASE UNCHANGED vars
  <2>1. caps' \in [Account -> SUBSET Capability] /\ settled' \in 0..Len(messages)
    BY <1>1, Numbers DEF vars, RequestInv, RequestTypes
  <2> QED
    BY <1>1, <2>1, RowUntouched DEF vars
<1>2. CASE RequesterStep
  BY <1>2, PostInitialKeeps, MarkCreatedKeeps, OpenPageKeeps, MarkReadKeeps, MarkUnreadKeeps,
     RequesterReplyKeeps DEF RequesterStep
<1>3. CASE Assignment
  BY <1>3, ClaimKeeps, ReleaseKeeps, ReopenKeeps, ReassignKeeps DEF Assignment
<1>4. CASE Triage
  BY <1>4, ClassifyKeeps, PrioritiseKeeps, EscalateKeeps DEF Triage
<1>5. CASE Work
  BY <1>5, OperatorReplyKeeps, EditKeeps, AddNoteKeeps, VerificationKeeps, PrivacyActionKeeps,
     ResolveKeeps DEF Work
<1>6. CASE Surroundings
  BY <1>6, EditWindowKeeps, ReplyWindowKeeps, RedactKeeps, ChangeAccessKeeps DEF Surroundings
<1> QED
  BY <1>1, <1>2, <1>3, <1>4, <1>5, <1>6 DEF Next

LEMMA InvImpliesSound == RequestInv => RequestIsSound
<1> SUFFICES ASSUME RequestInv PROVE RequestIsSound
  OBVIOUS
<1>1. RequestTypes /\ Consistent(request) /\ Told /\ Proven
  BY DEF RequestInv
<1>2. TypeOK
  BY <1>1 DEF TypeOK, RequestTypes, Consistent
<1>3. HistoryTellsTheState
  BY <1>1 DEF HistoryTellsTheState, Told, ToldOf, Chained, Standing, Holder, Moves
<1>4. PublicStatusIsTrue
  <2>1. PublicStatus = InWords(request.status)
    BY <1>1 DEF Told, ToldOf, Shown, PublicStatus
  <2> QED
    BY <2>1 DEF PublicStatusIsTrue, InWords
<1>5. DeletionsAreProven
  BY <1>1 DEF DeletionsAreProven, Proven, Excused
<1> QED
  BY <1>2, <1>3, <1>4, <1>5 DEF RequestIsSound

THEOREM RequestInductive == Spec => []RequestInv
<1>1. Init => RequestInv
  BY RequestStart
<1>2. RequestInv /\ [Next]_vars => RequestInv'
  BY RequestStep DEF Kept
<1> QED
  BY <1>1, <1>2, PTL DEF Spec

\* The row, its append-only history and what the requester is shown agree at
\* every moment, and no deletion counts as done without its proof, for any
\* accounts, capabilities, histories and threads.
THEOREM RequestSound == Spec => []RequestIsSound
<1>1. Spec => []RequestInv
  BY RequestInductive
<1>2. RequestInv => RequestIsSound
  BY InvImpliesSound
<1> QED
  BY <1>1, <1>2, PTL

\* A request reaches only whoever may handle it, and leaves an Operator who
\* still may only by his own command or by an escalation.
THEOREM HandOver == Spec => WorkIsHandedOn
<1>1. RequestInv /\ [Next]_vars =>
        [request'.assignee \notin {None, request.assignee} => MayHandle(request', request'.assignee)]_vars
  BY RequestStep DEF Kept, HandedOn
<1>2. RequestInv /\ [Next]_vars =>
        [ /\ request.assignee # None /\ request'.assignee # request.assignee
          /\ MayHandle(request, request.assignee)
          => LET last == history'[Len(history')]
             IN  last.type = "escalated" \/ last.actor = request.assignee ]_vars
  BY RequestStep DEF Kept, HandedOn
<1>3. Spec => AssigneesMayHandle
  BY <1>1, RequestInductive, PTL DEF Spec, AssigneesMayHandle
<1>4. Spec => WorkIsNotTaken
  BY <1>2, RequestInductive, PTL DEF Spec, WorkIsNotTaken
<1> QED
  BY <1>3, <1>4 DEF WorkIsHandedOn

\* A requester's reply never stays in a request that is resolved.
THEOREM Replies == Spec => RepliesAreHeard
<1>1. RequestInv /\ [Next]_vars =>
        [ /\ Len(messages') > Len(messages)
          /\ messages'[Len(messages')].kind = "requester"
          /\ ~messages'[Len(messages')].initial
          => request'.status # "resolved" ]_vars
  BY RequestStep DEF Kept, Heard
<1> QED
  BY <1>1, RequestInductive, PTL DEF Spec, RepliesAreHeard

\* Nothing of the requester comes back into a redacted request.
THEOREM Redaction == Spec => RedactionHolds
<1>1. RequestInv /\ [Next]_vars =>
        [ request'.redacted =>
            /\ request'.submitter = None /\ ~request'.personal
            /\ \A i \in 1..Len(history') : history'[i].byRequester => history'[i].actor = None
            /\ \A i \in 1..Len(messages') : Remains(messages'[i]) =>
                  \/ creating.next = "message"
                  \/ request.redacted /\ i \in 1..Len(messages) /\ Remains(messages[i]) ]_vars
  BY RequestStep DEF Kept, Withheld
<1> QED
  BY <1>1, RequestInductive, PTL DEF Spec, RedactionHolds

=============================================================================
