--------------------------- MODULE RecordsProofs ----------------------------
(*****************************************************************************)
(* Proofs about what the TypeScript services store, answer and say: the      *)
(* relations and the rows of customers, the tokens of the services, the      *)
(* screens of a reading, its interpretation and the reference data, for any  *)
(* number of calls, processes, clicks, words, services and clocks.           *)
(*****************************************************************************)
EXTENDS MCRecords, GatewayProofs

-----------------------------------------------------------------------------
(*****************************************************************************)
(* What belongs to a customer stays as its calls have left it, for any       *)
(* number of overlapping calls, contacts and decisions.                      *)
(*****************************************************************************)

\* Ids are drawn in order, so a new one is none that was removed; and what a
\* call has found exists or was removed since.
ContactsOK ==
  /\ contacts \union removed \subseteq 1 .. added
  /\ contacts \intersect removed = {}
  /\ charts \subseteq contacts \union removed
  /\ \A c \in Clients :
       pending[c].at \in {"updateContact", "removeContact", "createChart"} =>
         pending[c].id \in contacts \union removed

TagOK == tagWrites = IF tagged THEN 1 ELSE 0

\* Unless two decisions have overlapped, the one under way is the only one and
\* is later than the grant it may replace.
ConsentOK ==
  /\ \A c \in Clients : pending[c].at = "recordConsent" =>
       /\ pending[c].now \in 1 .. time
       /\ ~entangled /\ consent # NoConsent => consent.grantedAt < pending[c].now
  /\ ~entangled => \A b, c \in Clients :
       pending[b].at = "recordConsent" /\ pending[c].at = "recordConsent" => b = c
  /\ consent # NoConsent => consent.grantedAt <= time
  /\ ConsentTellsItsHistory

RelationsInv == RelationsTypeOK /\ ContactsOK /\ TagOK /\ ConsentOK

-----------------------------------------------------------------------------
\* The calls on contacts, the ones on tags, and those on consents.
ContactStep(c) ==
  \/ AddContact(c)
  \/ \E id \in ContactIds :
       \E op \in {"updateContact", "removeContact", "createChart"} :
         FindContact(c, op, id)
  \/ UpdateContact(c) \/ RemoveContact(c) \/ CreateChart(c)

TagStep(c) == CreateTag(c) \/ FindTag(c) \/ AssignTag(c) \/ RemoveTag(c)

ConsentStep(c) == (\E granted \in BOOLEAN : Decide(c, granted)) \/ RecordConsent(c)

\* Each step is one of these.
LEMMA StepKinds ==
  ASSUME RelationsNext
  PROVE  \E c \in Clients : ContactStep(c) \/ TagStep(c) \/ ConsentStep(c)
BY DEF RelationsNext, ContactStep, TagStep, ConsentStep

\* What the place of a pending call says of its other fields.
LEMMA PendingFields ==
  ASSUME RelationsTypeOK, NEW c \in Clients
  PROVE  /\ pending[c].at \in {"updateContact", "removeContact", "createChart"} =>
              pending[c].id \in ContactIds
         /\ pending[c].at = "recordConsent" =>
              pending[c].granted \in BOOLEAN /\ pending[c].now \in Times
<1>1. pending[c] \in Pendings \union {Waiting}
  BY DEF RelationsTypeOK
<1> QED BY <1>1 DEF Pendings, Waiting

\* The bounds are numbers, and so are the times.
LEMMA NumbersAre ==
  ASSUME RelationsTypeOK
  PROVE  /\ MaxContacts \in Nat /\ MaxDecisions \in Nat
         /\ added \in Nat /\ added <= MaxContacts
         /\ time \in Nat /\ time <= MaxDecisions /\ tagWrites \in Nat
BY CustomerRelationsAssumption DEF CustomerRelationsAssumption, RelationsTypeOK, Times, Never

-----------------------------------------------------------------------------
\* A step of contacts keeps every part of the invariant: a new contact's id is
\* beyond all others, and one that is removed moves from contacts to removed.
LEMMA ContactStepKeeps ==
  ASSUME RelationsInv, NEW c \in Clients, ContactStep(c)
  PROVE  RelationsInv'
<1>1. /\ RelationsTypeOK /\ ContactsOK /\ TagOK /\ ConsentOK
      /\ pending \in [Clients -> Pendings \union {Waiting}]
  BY DEF RelationsInv, RelationsTypeOK
<1>2. UNCHANGED <<tagVars, consentVars>>
  BY DEF ContactStep, AddContact, FindContact, UpdateContact, RemoveContact,
         CreateChart, consentVars, tagVars
<1>3. CASE AddContact(c)
  <2>1. /\ added < MaxContacts /\ added' = added + 1 /\ added' \in ContactIds
        /\ contacts' = contacts \union {added'}
        /\ UNCHANGED <<pending, charts, removed>>
    BY <1>1, <1>3, NumbersAre DEF AddContact, ContactIds
  <2>2. RelationsTypeOK'
    BY <1>1, <1>2, <2>1, NumbersAre DEF RelationsTypeOK, tagVars, consentVars, ContactIds
  <2>3. ContactsOK'
    <3>1. 1 .. added' = (1 .. added) \union {added'} /\ added' \notin 1 .. added
      BY <1>1, <2>1, NumbersAre
    <3> QED BY <1>1, <2>1, <3>1 DEF ContactsOK
  <2>4. TagOK' /\ ConsentOK'
    BY <1>1, <1>2, <2>1 DEF TagOK, ConsentOK, ConsentTellsItsHistory, tagVars, consentVars
  <2> QED BY <2>2, <2>3, <2>4 DEF RelationsInv
<1>4. ASSUME NEW id \in ContactIds,
             NEW op \in {"updateContact", "removeContact", "createChart"},
             FindContact(c, op, id)
      PROVE  RelationsInv'
  <2>1. /\ id \in contacts /\ UNCHANGED <<contacts, added, charts, removed>>
        /\ pending' = [pending EXCEPT ![c] = [at |-> op, id |-> id]]
    BY <1>4 DEF FindContact, Finds, contactVars
  <2>2. [at |-> op, id |-> id] \in Pendings
    BY DEF Pendings
  <2>3. \A b \in Clients : pending'[b] = IF b = c THEN [at |-> op, id |-> id]
                                         ELSE pending[b]
    BY <1>1, <2>1
  <2>4. RelationsTypeOK'
    BY <1>1, <1>2, <2>1, <2>2 DEF RelationsTypeOK, tagVars, consentVars
  <2>5. ContactsOK'
    BY <1>1, <2>1, <2>3 DEF ContactsOK
  <2>6. TagOK' /\ ConsentOK'
    BY <1>1, <1>2, <2>3 DEF TagOK, ConsentOK, ConsentTellsItsHistory, tagVars, consentVars
  <2> QED BY <2>4, <2>5, <2>6 DEF RelationsInv
<1>5. CASE UpdateContact(c) \/ RemoveContact(c) \/ CreateChart(c)
  <2>1. pending[c].id \in ContactIds /\ pending[c].id \in contacts \union removed
    BY <1>1, <1>5, PendingFields DEF ContactsOK, UpdateContact, RemoveContact, CreateChart
  <2>2. /\ pending' = [pending EXCEPT ![c] = Waiting]
        /\ UNCHANGED added
    BY <1>5 DEF UpdateContact, RemoveContact, CreateChart, Done, contactVars
  <2>3. \A b \in Clients : pending'[b] = IF b = c THEN Waiting ELSE pending[b]
    BY <1>1, <2>2
  <2>4. /\ contacts' \in SUBSET ContactIds /\ removed' \in SUBSET ContactIds
        /\ charts' \in SUBSET ContactIds
        /\ contacts' \union removed' = contacts \union removed
        /\ contacts' \intersect removed' = {}
        /\ charts' \subseteq contacts \union removed
    BY <1>1, <1>5, <2>1
       DEF UpdateContact, RemoveContact, CreateChart, contactVars, ContactsOK,
           RelationsTypeOK
  <2>5. RelationsTypeOK'
    BY <1>1, <1>2, <2>2, <2>4 DEF RelationsTypeOK, tagVars, consentVars
  <2>6. ContactsOK'
    <3>1. \A b \in Clients :
            pending'[b].at \in {"updateContact", "removeContact", "createChart"} =>
              pending'[b].id \in contacts' \union removed'
      BY <1>1, <2>3, <2>4 DEF ContactsOK, Waiting
    <3> QED BY <1>1, <2>2, <2>4, <3>1 DEF ContactsOK
  <2>7. TagOK' /\ ConsentOK'
    BY <1>1, <1>2, <2>3
       DEF TagOK, ConsentOK, ConsentTellsItsHistory, tagVars, consentVars, Waiting
  <2> QED BY <2>5, <2>6, <2>7 DEF RelationsInv
<1> QED BY <1>3, <1>4, <1>5 DEF ContactStep

-----------------------------------------------------------------------------
\* A step of tags counts the tag as often as the customer has it: the unique
\* pair refuses what the look-up of an overlapping call could not see.
LEMMA TagStepKeeps ==
  ASSUME RelationsInv, NEW c \in Clients, TagStep(c)
  PROVE  RelationsInv'
<1>1. /\ RelationsTypeOK /\ ContactsOK /\ TagOK /\ ConsentOK
      /\ pending \in [Clients -> Pendings \union {Waiting}]
  BY DEF RelationsInv, RelationsTypeOK
<1>2. UNCHANGED <<contactVars, consentVars>>
  BY DEF TagStep, CreateTag, FindTag, AssignTag, RemoveTag, contactVars, consentVars
<1>3. PICK its \in Pendings \union {Waiting} :
        /\ its.at \in {"assignTag", "removeTag", "waiting"}
        /\ pending' = [pending EXCEPT ![c] = its]
  <2>1. CASE CreateTag(c)
    <3>1. Waiting.at = "waiting" /\ pending[c] = Waiting /\ pending' = pending
      BY <2>1 DEF CreateTag, Waiting
    <3>2. pending' = [pending EXCEPT ![c] = Waiting]
      BY <1>1, <3>1
    <3> QED BY <3>1, <3>2
  <2>2. CASE FindTag(c)
    <3> DEFINE its == [at |-> IF tagged THEN "removeTag" ELSE "assignTag"]
    <3>1. its \in Pendings /\ its.at \in {"assignTag", "removeTag", "waiting"}
      BY DEF Pendings
    <3>2. pending' = [pending EXCEPT ![c] = its]
      BY <2>2 DEF FindTag, Finds
    <3> HIDE DEF its
    <3> QED BY <3>1, <3>2
  <2>3. CASE AssignTag(c) \/ RemoveTag(c)
    <3>1. Waiting.at = "waiting" /\ pending' = [pending EXCEPT ![c] = Waiting]
      BY <2>3 DEF AssignTag, RemoveTag, Done, Waiting
    <3> QED BY <3>1
  <2> QED BY <2>1, <2>2, <2>3 DEF TagStep
<1>4. \A b \in Clients : pending'[b] = IF b = c THEN its ELSE pending[b]
  BY <1>1, <1>3
<1>5. defined' \in BOOLEAN /\ tagged' \in BOOLEAN /\ TagOK' /\ tagWrites' \in Nat
  <2>1. CASE CreateTag(c) \/ FindTag(c)
    <3>1. defined' \in BOOLEAN
      BY <1>1, <2>1 DEF CreateTag, FindTag, tagVars, RelationsTypeOK
    <3>2. UNCHANGED <<tagged, tagWrites>>
      BY <2>1 DEF CreateTag, FindTag, tagVars
    <3> QED BY <1>1, <3>1, <3>2 DEF RelationsTypeOK, TagOK
  <2>2. CASE AssignTag(c)
    <3>1. tagged' = TRUE /\ defined' = defined
      BY <2>2 DEF AssignTag
    <3>2. tagWrites' = 1
      BY <1>1, <2>2 DEF AssignTag, TagOK
    <3> QED BY <1>1, <3>1, <3>2 DEF RelationsTypeOK, TagOK
  <2>3. CASE RemoveTag(c)
    <3>1. tagged' = FALSE /\ defined' = defined
      BY <2>3 DEF RemoveTag
    <3>2. tagWrites' = 0
      BY <1>1, <2>3 DEF RemoveTag, TagOK
    <3> QED BY <1>1, <3>1, <3>2 DEF RelationsTypeOK, TagOK
  <2> QED BY <2>1, <2>2, <2>3 DEF TagStep
<1>6. RelationsTypeOK'
  BY <1>1, <1>2, <1>3, <1>5 DEF RelationsTypeOK, contactVars, consentVars
<1>7. ContactsOK'
  BY <1>1, <1>2, <1>3, <1>4 DEF ContactsOK, contactVars
<1>8. ConsentOK'
  BY <1>1, <1>2, <1>3, <1>4 DEF ConsentOK, ConsentTellsItsHistory, consentVars
<1> QED BY <1>5, <1>6, <1>7, <1>8 DEF RelationsInv

-----------------------------------------------------------------------------
\* A step of consents: a decision is later than all that is stored, and the row
\* it writes tells of it.
LEMMA ConsentStepKeeps ==
  ASSUME RelationsInv, NEW c \in Clients, ConsentStep(c)
  PROVE  RelationsInv'
<1>1. /\ RelationsTypeOK /\ ContactsOK /\ TagOK /\ ConsentOK
      /\ pending \in [Clients -> Pendings \union {Waiting}]
  BY DEF RelationsInv, RelationsTypeOK
<1>2. UNCHANGED <<contactVars, tagVars>>
  BY DEF ConsentStep, Decide, RecordConsent, contactVars, tagVars
<1>3. TagOK'
  BY <1>1, <1>2 DEF TagOK, tagVars
<1>4. ASSUME NEW granted \in BOOLEAN, Decide(c, granted)
      PROVE  RelationsInv'
  <2> DEFINE its == [at |-> "recordConsent", granted |-> granted, now |-> time']
  <2>1. /\ time < MaxDecisions /\ time' = time + 1 /\ UNCHANGED consent
        /\ pending[c] = Waiting
        /\ pending' = [pending EXCEPT ![c] = its]
        /\ entangled' = (entangled \/ \E b \in Clients : pending[b].at = "recordConsent")
    BY <1>4 DEF Decide, Finds
  <2>2. time' \in Times /\ time' \in 1 .. time' /\ time \in Nat
    BY <1>1, <2>1, NumbersAre DEF Times, Never
  <2>3. its \in Pendings
    BY <2>2 DEF Pendings
  <2>4. its.at = "recordConsent" /\ its.now = time'
    OBVIOUS
  <2>5. \A b \in Clients : pending'[b] = IF b = c THEN its ELSE pending[b]
    BY <1>1, <2>1
  <2> HIDE DEF its
  <2>6. entangled' \in BOOLEAN
    BY <1>1, <2>1 DEF RelationsTypeOK
  <2>7. RelationsTypeOK'
    BY <1>1, <1>2, <2>1, <2>2, <2>3, <2>6 DEF RelationsTypeOK, contactVars, tagVars
  <2>8. ContactsOK'
    BY <1>1, <1>2, <2>4, <2>5 DEF ContactsOK, contactVars
  <2>9. ConsentOK'
    <3>1. ASSUME NEW b \in Clients, pending'[b].at = "recordConsent"
          PROVE  /\ pending'[b].now \in 1 .. time'
                 /\ ~entangled' /\ consent' # NoConsent =>
                      consent'.grantedAt < pending'[b].now
      <4>1. CASE b = c
        <5>1. pending'[b].now = time'
          BY <2>4, <2>5, <4>1
        <5>2. consent # NoConsent => consent.grantedAt <= time /\ consent \in Consents
          BY <1>1 DEF ConsentOK, RelationsTypeOK
        <5>3. consent # NoConsent => consent.grantedAt \in Nat
          BY <5>2 DEF Consents, Times, Never
        <5>4. pending'[b].now \in 1 .. time'
          BY <2>2, <5>1
        <5>5. consent # NoConsent => consent.grantedAt < time'
          BY <2>1, <2>2, <5>2, <5>3
        <5> QED BY <2>1, <5>1, <5>4, <5>5
      <4>2. CASE b # c
        <5>1. pending'[b] = pending[b] /\ pending[b].at = "recordConsent"
          BY <2>5, <3>1, <4>2
        <5>2. pending[b].now \in 1 .. time
          BY <1>1, <5>1 DEF ConsentOK
        <5>3. pending[b].now \in 1 .. time'
          BY <2>1, <2>2, <5>2
        <5>4. ~entangled /\ consent # NoConsent =>
                consent.grantedAt < pending[b].now
          BY <1>1, <5>1 DEF ConsentOK
        <5>5. consent' = consent /\ (~entangled' => ~entangled)
          BY <2>1
        <5> QED BY <5>1, <5>3, <5>4, <5>5
      <4> QED BY <4>1, <4>2
    <3>2. ~entangled' => \A a, b \in Clients :
            pending'[a].at = "recordConsent" /\ pending'[b].at = "recordConsent" => a = b
      BY <2>1, <2>5
    <3>3. consent' # NoConsent => consent'.grantedAt <= time'
      <4>1. consent # NoConsent => consent.grantedAt <= time /\ consent \in Consents
        BY <1>1 DEF ConsentOK, RelationsTypeOK
      <4>2. consent # NoConsent => consent.grantedAt \in Nat
        BY <4>1 DEF Consents, Times, Never
      <4> QED BY <2>1, <2>2, <4>1, <4>2
    <3>4. ConsentTellsItsHistory'
      BY <1>1, <2>1 DEF ConsentOK, ConsentTellsItsHistory
    <3> QED BY <3>1, <3>2, <3>3, <3>4 DEF ConsentOK
  <2> QED BY <1>3, <2>7, <2>8, <2>9 DEF RelationsInv
<1>5. CASE RecordConsent(c)
  <2> DEFINE g == pending[c].granted
             n == pending[c].now
             row == Consented(g, n)
  <2>1. /\ pending[c].at = "recordConsent"
        /\ pending' = [pending EXCEPT ![c] = Waiting]
        /\ consent' = row \/ (entangled /\ consent' = consent)
        /\ UNCHANGED <<time, entangled>>
    BY <1>5 DEF RecordConsent, Done
  <2>2. /\ g \in BOOLEAN /\ n \in Times /\ n \in 1 .. time /\ time \in Nat
        /\ ~entangled /\ consent # NoConsent => consent.grantedAt < n
    BY <1>1, <2>1, PendingFields, NumbersAre DEF ConsentOK
  <2>3. n \in Nat /\ n # Never /\ n <= time /\ Never < n
    BY <2>2 DEF Never
  <2>4. consent # NoConsent =>
          /\ consent \in Consents /\ consent.grantedAt \in Times
          /\ consent.grantedAt \in Nat /\ consent.grantedAt <= time
    <3>1. consent # NoConsent => consent \in Consents /\ consent.grantedAt <= time
      BY <1>1 DEF ConsentOK, RelationsTypeOK
    <3> QED BY <3>1 DEF Consents, Times, Never
  <2>5. \A b \in Clients : pending'[b] = IF b = c THEN Waiting ELSE pending[b]
    BY <1>1, <2>1
  <2> HIDE DEF g, n
  <2>6. /\ row.granted = g
        /\ row.grantedAt = IF g THEN n
                           ELSE IF consent = NoConsent THEN Never
                           ELSE consent.grantedAt
        /\ row.revokedAt = IF g THEN Never ELSE n
    BY DEF Consented
  <2>7. Never \in Times /\ Never <= time
    BY <1>1, <2>2, NumbersAre DEF Times, Never
  <2>8. row \in Consents
    <3>1. row = [granted |-> row.granted, grantedAt |-> row.grantedAt,
                 revokedAt |-> row.revokedAt]
      BY DEF Consented
    <3>2. row.granted \in BOOLEAN /\ row.grantedAt \in Times /\ row.revokedAt \in Times
      BY <2>2, <2>4, <2>6, <2>7
    <3> HIDE DEF row
    <3> QED BY <3>1, <3>2 DEF Consents
  <2> HIDE DEF row
  <2>9. row.grantedAt <= time
    BY <2>3, <2>4, <2>6, <2>7
  <2>10. /\ row.granted <=> row.revokedAt = Never
         /\ row.granted => row.grantedAt # Never
         /\ ~row.granted /\ ~entangled => row.grantedAt < row.revokedAt
    BY <2>2, <2>3, <2>6
  <2>11. RelationsTypeOK'
    <3>1. consent' \in Consents \union {NoConsent}
      BY <1>1, <2>1, <2>8 DEF RelationsTypeOK
    <3> QED BY <1>1, <1>2, <2>1, <3>1 DEF RelationsTypeOK, contactVars, tagVars
  <2>12. ContactsOK'
    BY <1>1, <1>2, <2>5 DEF ContactsOK, contactVars, Waiting
  <2>13. ConsentOK'
    <3>1. ~entangled => \A b \in Clients : pending'[b].at # "recordConsent"
      BY <1>1, <2>1, <2>5 DEF ConsentOK, Waiting
    <3>2. \A b \in Clients : pending'[b].at = "recordConsent" =>
            pending'[b].now \in 1 .. time'
      BY <1>1, <2>1, <2>5 DEF ConsentOK, Waiting
    <3>3. consent' # NoConsent => consent'.grantedAt <= time'
      BY <2>1, <2>4, <2>9
    <3>4. ConsentTellsItsHistory'
      BY <1>1, <2>1, <2>10 DEF ConsentOK, ConsentTellsItsHistory
    <3> QED BY <2>1, <3>1, <3>2, <3>3, <3>4 DEF ConsentOK
  <2> QED BY <1>3, <2>11, <2>12, <2>13 DEF RelationsInv
<1> QED BY <1>4, <1>5 DEF ConsentStep

-----------------------------------------------------------------------------
LEMMA RelationsInductive == RelationsSpec => []RelationsInv
<1>1. RelationsInit => RelationsInv
  <2> SUFFICES ASSUME RelationsInit
               PROVE  RelationsInv
    OBVIOUS
  <2>1. \A c \in Clients : pending[c] = Waiting /\ pending[c].at = "waiting"
    BY DEF RelationsInit, Waiting
  <2>2. 0 \in 0 .. MaxContacts /\ Never \in Times
    BY CustomerRelationsAssumption DEF CustomerRelationsAssumption, Times, Never
  <2>3. RelationsTypeOK
    BY <2>2 DEF RelationsInit, RelationsTypeOK
  <2>4. ContactsOK
    BY <2>1 DEF RelationsInit, ContactsOK
  <2>5. TagOK
    BY DEF RelationsInit, TagOK
  <2>6. ConsentOK
    BY <2>1 DEF RelationsInit, ConsentOK, ConsentTellsItsHistory
  <2> QED BY <2>3, <2>4, <2>5, <2>6 DEF RelationsInv
<1>2. RelationsInv /\ [RelationsNext]_relationVars => RelationsInv'
  <2>1. ASSUME RelationsInv, UNCHANGED relationVars
        PROVE  RelationsInv'
    BY <2>1 DEF RelationsInv, RelationsTypeOK, ContactsOK, TagOK, ConsentOK,
                ConsentTellsItsHistory, relationVars
  <2> QED BY <2>1, StepKinds, ContactStepKeeps, TagStepKeeps, ConsentStepKeeps
<1> QED BY <1>1, <1>2, PTL DEF RelationsSpec

\* No removed contact comes back, no tag is assigned twice, and the row of a
\* consent tells of its last decision unless two have overlapped.
THEOREM RelationsAlwaysHold == RelationsSpec => []RelationsHold
<1>1. RelationsInv => RelationsHold
  BY DEF RelationsInv, RelationsHold, NothingComesBack, ContactsOK, TagOK, ConsentOK
<1> QED BY <1>1, RelationsInductive, PTL

-----------------------------------------------------------------------------
(***************************************************************************)
(* A customer's row and its events.                                        *)
(***************************************************************************)

\* What the statement of a call makes of the tier and the status: the event it
\* is about to publish.
TierTold(input) == CASE input.op = "create" -> "free"
                     [] input.op = "update" -> input.tier
                     [] input.op = "softDelete" -> "undefined"
DeletionTold(input) == input.op = "softDelete"

\* The consumer will have the row when it is told of this tier and deletion.
Completes(tier, deletes) ==
  /\ customer.tier = IF tier = "undefined" THEN told.tier ELSE tier
  /\ (customer.status = "deleted") <=> (told.deleted \/ deletes)

\* A row is there once a statement has succeeded, and before that there is
\* nothing to tell; what has been looked up stays.
RowOfCommits ==
  /\ customer = NoRow => /\ commits = 0 /\ sending = {} /\ told = Untold
                         /\ \A c \in Callers : handling[c].at # "publish"
  /\ customer # NoRow => commits > 0
  /\ \A c \in Callers :
       handling[c].at = "write" /\ handling[c].input.op # "create" =>
         customer # NoRow

\* Until two events have crossed one is under way at most.
OneUnderWay ==
  /\ \A b, c \in Callers :
       handling[b].at = "publish" /\ handling[c].at = "publish" => b = c
  /\ \A c \in Callers : handling[c].at = "publish" => sending = {}
  /\ \A e, f \in sending : e = f

\* With it the consumer will have the row, however often it is sent.
LastEventCompletes ==
  /\ \A c \in Callers : handling[c].at = "publish" =>
       Completes(TierTold(handling[c].input), DeletionTold(handling[c].input))
  /\ \A e \in sending : Completes(e.tier, e.deletes)

EventsInv ==
  /\ RecordsTypeOK
  /\ RowOfCommits
  /\ dropped \/ unanswered \/ crossed \/ (OneUnderWay /\ LastEventCompletes)
  /\ EventsTellTheRow
  /\ DerivedFromTheDate
\* A call that is on its way has a request.
LEMMA CallFields ==
  ASSUME RecordsTypeOK, NEW c \in Callers
  PROVE  /\ handling[c].at \in {"idle", "find", "write", "publish"}
         /\ handling[c].at # "idle" => handling[c].input \in Inputs
         /\ \A there \in {"find", "write", "publish"} : handling[c].at # "idle" =>
              [handling[c] EXCEPT !.at = there]
                = [at |-> there, input |-> handling[c].input]
<1>1. handling[c] \in [at : {"idle"}]
                        \union [at : {"find", "write", "publish"}, input : Inputs]
  BY DEF RecordsTypeOK
<1>2. CASE handling[c] \in [at : {"idle"}]
  BY <1>2
<1>3. CASE handling[c] \in [at : {"find", "write", "publish"}, input : Inputs]
  BY <1>3
<1> QED BY <1>1, <1>2, <1>3

LEMMA InputFields ==
  ASSUME NEW input \in Inputs
  PROVE  /\ input.op \in {"create", "update", "softDelete"}
         /\ input.op \in {"create", "update"} =>
              input.birthDate \in BirthDates \union {"undefined"}
         /\ input.op = "create" => input.birthDate \in BirthDates
         /\ input.op = "update" => input.tier \in Tiers \union {"undefined"}
         /\ TierTold(input) \in Tiers \union {"undefined"}
         /\ DeletionTold(input) \in BOOLEAN
<1>1. input \in AllInputs
  BY CustomerRecordsAssumption DEF CustomerRecordsAssumption
<1>2. CASE input \in [op : {"create"}, birthDate : BirthDates]
  BY <1>2 DEF TierTold, DeletionTold, Tiers
<1>3. CASE input \in [op : {"update"}, birthDate : BirthDates \union {"undefined"},
                      tier : Tiers \union {"undefined"}]
  BY <1>3 DEF TierTold, DeletionTold, Tiers
<1>4. CASE input \in [op : {"softDelete"}]
  BY <1>4 DEF TierTold, DeletionTold, Tiers
<1> QED BY <1>1, <1>2, <1>3, <1>4 DEF AllInputs

\* What a statement leaves in the row, and how it tells of it.
LEMMA WrittenRow ==
  ASSUME customer \in Rows \union {NoRow}, NEW input \in Inputs,
         input.op # "create" => customer # NoRow
  PROVE  /\ Written(input) \in Rows /\ Written(input) # NoRow
         /\ input.op = "create" => /\ Written(input).tier = "free"
                                   /\ Written(input).status = "active"
         /\ input.op = "update" =>
              /\ Written(input).tier = IF input.tier = "undefined"
                                       THEN customer.tier ELSE input.tier
              /\ Written(input).status = customer.status
         /\ input.op = "softDelete" => /\ Written(input).tier = customer.tier
                                       /\ Written(input).status = "deleted"
<1>0. /\ input.op \in {"create", "update", "softDelete"}
      /\ NoRow \notin Rows
  BY InputFields DEF NoRow, Rows
<1>1. CASE input.op = "create"
  <2>1. Written(input) = [status |-> "active", tier |-> "free",
                          birthDate |-> input.birthDate,
                          derived |-> Derived(input.birthDate)]
    BY <1>1 DEF Written
  <2>2. /\ input.birthDate \in BirthDates
        /\ Derived(input.birthDate) \in {"null", "spring", "autumn"}
    BY <1>1, InputFields DEF Derived
  <2>3. Written(input) \in Rows
    BY <2>1, <2>2 DEF Rows, Tiers
  <2> QED BY <1>0, <1>1, <2>1, <2>3
<1>2. CASE input.op = "update"
  <2>1. customer \in Rows /\ Written(input) = Updated(customer, input)
    BY <1>2 DEF Written
  <2>2. /\ input.tier \in Tiers \union {"undefined"}
        /\ input.birthDate \in BirthDates \union {"undefined"}
    BY <1>2, InputFields
  <2>3. Derived(input.birthDate) \in {"null", "spring", "autumn"}
    BY DEF Derived
  <2> DEFINE t == IF input.tier = "undefined" THEN customer.tier ELSE input.tier
             b == IF input.birthDate = "undefined" THEN customer.birthDate
                  ELSE input.birthDate
             d == IF input.birthDate \in {"undefined", "month 13"}
                  THEN customer.derived ELSE Derived(input.birthDate)
  <2>4. Written(input) = [status |-> customer.status, tier |-> t,
                          birthDate |-> b, derived |-> d]
    BY <2>1 DEF Updated, Rows
  <2>7. /\ customer.status \in {"active", "deleted"} /\ t \in Tiers
        /\ b \in BirthDates /\ d \in {"null", "spring", "autumn"}
    BY <2>1, <2>2, <2>3 DEF Rows
  <2> HIDE DEF t, b, d
  <2>8. Written(input).status = customer.status /\ Written(input).tier = t
    BY <2>4
  <2>5. Written(input) \in Rows
    BY <2>4, <2>7 DEF Rows
  <2> USE DEF t
  <2>6. /\ Written(input).status = customer.status
        /\ Written(input).tier = IF input.tier = "undefined"
                                 THEN customer.tier ELSE input.tier
    BY <2>8
  <2> QED BY <1>0, <1>2, <2>5, <2>6
<1>3. CASE input.op = "softDelete"
  <2>1. customer \in Rows /\ Written(input) = [customer EXCEPT !.status = "deleted"]
    BY <1>3 DEF Written
  <2> QED BY <1>0, <1>3, <2>1 DEF Rows
<1> QED BY <1>0, <1>1, <1>2, <1>3

\* The derived fields follow the date through every statement.
LEMMA DateFollowed ==
  ASSUME customer \in Rows \union {NoRow}, NEW input \in Inputs,
         input.op # "create" => customer # NoRow,
         DerivedFromTheDate,
         customer' = Written(input)
  PROVE  DerivedFromTheDate'
<1>1. CASE input.op = "create"
  BY <1>1, InputFields DEF DerivedFromTheDate, Written, Derived, BirthDates
<1>2. CASE input.op = "update"
  <2>1. customer \in Rows /\ customer' = Updated(customer, input)
    BY <1>2 DEF Written
  <2>2. input.birthDate \in BirthDates \union {"undefined"}
    BY <1>2, InputFields
  <2>3. /\ customer'.birthDate = IF input.birthDate = "undefined"
                                 THEN customer.birthDate ELSE input.birthDate
        /\ customer'.derived = IF input.birthDate \in {"undefined", "month 13"}
                               THEN customer.derived ELSE Derived(input.birthDate)
    BY <2>1 DEF Updated, Rows
  <2> QED BY <1>2, <2>1, <2>2, <2>3 DEF DerivedFromTheDate
<1>3. CASE input.op = "softDelete"
  <2>1. customer \in Rows /\ customer' = [customer EXCEPT !.status = "deleted"]
    BY <1>3 DEF Written
  <2> QED BY <1>3, <2>1 DEF DerivedFromTheDate, Rows
<1> QED BY <1>1, <1>2, <1>3, InputFields

\* How a call goes on: with its request, or to its end.
LEMMA CallMoves ==
  ASSUME RecordsTypeOK, NEW c \in Callers, NEW input \in Inputs,
         NEW there \in {"find", "write", "publish"},
         handling' = [handling EXCEPT ![c] = [at |-> there, input |-> input]]
  PROVE  /\ handling' \in [Callers -> [at : {"idle"}]
              \union [at : {"find", "write", "publish"}, input : Inputs]]
         /\ handling'[c].at = there /\ handling'[c].input = input
         /\ \A b \in Callers \ {c} : handling'[b] = handling[b]
<1>1. [at |-> there, input |-> input]
        \in [at : {"find", "write", "publish"}, input : Inputs]
  OBVIOUS
<1> QED BY <1>1 DEF RecordsTypeOK

LEMMA CallGoesOn ==
  ASSUME RecordsTypeOK, NEW c \in Callers, handling[c].at # "idle",
         NEW there \in {"find", "write", "publish"}, Requested(c, there)
  PROVE  /\ handling' \in [Callers -> [at : {"idle"}]
              \union [at : {"find", "write", "publish"}, input : Inputs]]
         /\ handling'[c].at = there /\ handling'[c].input = handling[c].input
         /\ \A b \in Callers \ {c} : handling'[b] = handling[b]
<1>1. /\ handling[c].input \in Inputs
      /\ [handling[c] EXCEPT !.at = there]
           = [at |-> there, input |-> handling[c].input]
  BY CallFields
<1>2. handling' = [handling EXCEPT ![c] = [at |-> there, input |-> handling[c].input]]
  BY <1>1 DEF Requested
<1> QED BY <1>1, <1>2, CallMoves

LEMMA CallEnds ==
  ASSUME RecordsTypeOK, NEW c \in Callers, Over(c)
  PROVE  /\ handling' \in [Callers -> [at : {"idle"}]
              \union [at : {"find", "write", "publish"}, input : Inputs]]
         /\ handling'[c].at = "idle"
         /\ \A b \in Callers \ {c} : handling'[b] = handling[b]
<1>1. [at |-> "idle"] \in [at : {"idle"}]
  OBVIOUS
<1> QED BY <1>1 DEF RecordsTypeOK, Over

\* A step that touches no row, event or promise, and neither begins nor ends a
\* statement, changes none of what is known.
LEMMA NothingTold ==
  ASSUME EventsInv, NEW c \in Callers,
         UNCHANGED <<customer, commits, unanswered, crossed, producerVars>>,
         handling' \in [Callers -> [at : {"idle"}]
           \union [at : {"find", "write", "publish"}, input : Inputs]],
         \A b \in Callers \ {c} : handling'[b] = handling[b],
         handling[c].at # "publish", handling'[c].at # "publish",
         handling'[c].at = "write" /\ handling'[c].input.op # "create" =>
           customer # NoRow
  PROVE  EventsInv'
<1>1. \A b \in Callers : handling'[b].at = "publish" =>
        handling[b].at = "publish" /\ handling'[b] = handling[b]
  OBVIOUS
<1>2. \A b \in Callers : handling[b].at = "publish" => handling'[b].at = "publish"
  OBVIOUS
<1>3. RecordsTypeOK'
  BY DEF EventsInv, RecordsTypeOK, producerVars
<1>4. RowOfCommits'
  BY <1>1 DEF EventsInv, RowOfCommits, producerVars
<1>5. OneUnderWay => OneUnderWay'
  BY <1>1 DEF OneUnderWay, producerVars
<1>6. LastEventCompletes => LastEventCompletes'
  <2>1. UNCHANGED <<customer, told, sending>>
    BY DEF producerVars
  <2>2. \A tier, deletes : Completes(tier, deletes)' <=> Completes(tier, deletes)
    BY <2>1 DEF Completes
  <2> QED BY <1>1, <2>1, <2>2 DEF LastEventCompletes
<1>7. EventsTellTheRow'
  BY <1>2 DEF EventsInv, EventsTellTheRow, Told, Quiet, producerVars
<1>8. DerivedFromTheDate'
  BY DEF EventsInv, DerivedFromTheDate
<1>9. (dropped \/ unanswered \/ crossed \/ (OneUnderWay /\ LastEventCompletes))'
  BY <1>5, <1>6 DEF EventsInv, producerVars
<1> QED BY <1>3, <1>4, <1>7, <1>8, <1>9 DEF EventsInv

\* A statement: what it changes is the event that its caller is to publish, if
\* nothing else is under way.
LEMMA StatementTold ==
  ASSUME EventsInv, NEW c \in Callers, handling[c].at = "write",
         Commits(c), crossed' = (crossed \/ UnderWay(c)), Requested(c, "publish"),
         UNCHANGED <<unanswered, producerVars>>
  PROVE  EventsInv'
<1> DEFINE input == handling[c].input
<1>1. /\ input \in Inputs /\ (input.op # "create" => customer # NoRow)
      /\ RecordsTypeOK /\ customer \in Rows \union {NoRow}
      /\ commits \in 0 .. MaxCommits /\ MaxCommits \in Nat
      /\ input.op = "create" => customer = NoRow
      /\ commits < MaxCommits /\ commits' = commits + 1
      /\ customer' = Written(input)
  BY CallFields, CustomerRecordsAssumption
     DEF EventsInv, RowOfCommits, RecordsTypeOK, CustomerRecordsAssumption, Commits
<1>2. /\ handling' \in [Callers -> [at : {"idle"}]
              \union [at : {"find", "write", "publish"}, input : Inputs]]
      /\ handling'[c].at = "publish" /\ handling'[c].input = input
      /\ \A b \in Callers \ {c} : handling'[b] = handling[b]
  BY <1>1, CallGoesOn
<1>3. /\ customer' \in Rows /\ customer' # NoRow
  BY <1>1, WrittenRow
<1>4. RecordsTypeOK'
  <2>1. crossed' \in BOOLEAN
    <3>1. CASE crossed \/ UnderWay(c)
      BY <3>1
    <3>2. CASE ~(crossed \/ UnderWay(c))
      BY <3>2
    <3> QED BY <3>1, <3>2
  <2>2. commits' \in 0 .. MaxCommits
    BY <1>1
  <2> QED BY <1>1, <1>2, <1>3, <2>1, <2>2 DEF RecordsTypeOK, producerVars
<1>5. RowOfCommits'
  BY <1>1, <1>2, <1>3 DEF RowOfCommits
<1>6. EventsTellTheRow'
  BY <1>2 DEF EventsTellTheRow, Quiet
<1>7. DerivedFromTheDate'
  BY <1>1, DateFollowed DEF EventsInv
<1>8. ASSUME ~dropped', ~unanswered', ~crossed'
      PROVE  OneUnderWay' /\ LastEventCompletes'
  <2>1. sending = {} /\ \A b \in Callers \ {c} : handling[b].at # "publish"
    BY <1>8 DEF UnderWay
  <2>2. ~dropped /\ ~unanswered /\ ~crossed /\ sending' = {} /\ told' = told
    BY <1>8, <2>1 DEF producerVars
  <2>3. OneUnderWay'
    BY <1>2, <2>1, <2>2 DEF OneUnderWay
  <2>4. Quiet
    BY <2>1 DEF Quiet
  <2>5. customer # NoRow =>
          told.tier = customer.tier /\ (told.deleted <=> customer.status = "deleted")
    <3>1. customer # NoRow =>
            told = [tier |-> customer.tier, deleted |-> customer.status = "deleted"]
      BY <2>2, <2>4 DEF EventsInv, EventsTellTheRow, Told
    <3>2. ASSUME customer # NoRow
          PROVE  told.tier = customer.tier
                 /\ told.deleted = (customer.status = "deleted")
      <4> DEFINE gone == customer.status = "deleted"
      <4>1. told = [tier |-> customer.tier, deleted |-> gone]
        BY <3>1, <3>2
      <4> HIDE DEF gone
      <4>2. told.tier = customer.tier /\ told.deleted = gone
        BY <4>1
      <4> QED BY <4>2 DEF gone
    <3> QED BY <3>2
  <2>6. customer = NoRow => told.deleted = FALSE
    BY DEF EventsInv, RowOfCommits, Untold
  <2>7. /\ customer'.tier = IF TierTold(input) = "undefined"
                            THEN told'.tier ELSE TierTold(input)
        /\ (customer'.status = "deleted") <=> (told'.deleted \/ DeletionTold(input))
    <3>1. CASE input.op = "create"
      <4>1. customer'.tier = "free" /\ customer'.status = "active"
        BY <1>1, <3>1, WrittenRow
      <4>2. told'.deleted = FALSE
        BY <1>1, <2>2, <2>6, <3>1
      <4> QED BY <4>1, <4>2, <3>1 DEF TierTold, DeletionTold
    <3>2. CASE input.op = "update"
      <4>1. /\ customer'.tier = IF input.tier = "undefined"
                                THEN customer.tier ELSE input.tier
            /\ customer'.status = customer.status
            /\ customer # NoRow
        BY <1>1, <3>2, WrittenRow
      <4> QED BY <4>1, <2>2, <2>5, <3>2 DEF TierTold, DeletionTold
    <3>3. CASE input.op = "softDelete"
      <4>1. /\ customer'.tier = customer.tier /\ customer'.status = "deleted"
            /\ customer # NoRow
        BY <1>1, <3>3, WrittenRow
      <4> QED BY <4>1, <2>2, <2>5, <3>3 DEF TierTold, DeletionTold
    <3> QED BY <1>1, <3>1, <3>2, <3>3, InputFields
  <2>8. LastEventCompletes'
    <3> SUFFICES ASSUME NEW b \in Callers, handling'[b].at = "publish"
                 PROVE  /\ b = c
                        /\ customer'.tier
                             = IF TierTold(handling'[b].input) = "undefined"
                               THEN told'.tier ELSE TierTold(handling'[b].input)
                        /\ (customer'.status = "deleted") <=>
                             (told'.deleted \/ DeletionTold(handling'[b].input))
      BY <2>2 DEF LastEventCompletes, Completes
    <3>1. b = c
      BY <1>2, <2>1
    <3>2. handling'[b].input = input
      BY <1>2, <3>1
    <3> QED BY <2>7, <3>1, <3>2
  <2> QED BY <2>3, <2>8
<1> QED BY <1>4, <1>5, <1>6, <1>7, <1>8 DEF EventsInv

\* A statement whose answer is lost: it has no event, which the history tells.
LEMMA UnansweredTold ==
  ASSUME EventsInv, NEW c \in Callers, handling[c].at = "write",
         Commits(c), unanswered' = TRUE, Over(c),
         UNCHANGED <<crossed, producerVars>>
  PROVE  EventsInv'
<1> DEFINE input == handling[c].input
<1>1. /\ input \in Inputs /\ (input.op # "create" => customer # NoRow)
      /\ RecordsTypeOK /\ customer \in Rows \union {NoRow}
      /\ commits \in 0 .. MaxCommits /\ MaxCommits \in Nat
      /\ input.op = "create" => customer = NoRow
      /\ commits < MaxCommits /\ commits' = commits + 1
      /\ customer' = Written(input)
  BY CallFields, CustomerRecordsAssumption
     DEF EventsInv, RowOfCommits, RecordsTypeOK, CustomerRecordsAssumption, Commits
<1>2. /\ handling' \in [Callers -> [at : {"idle"}]
              \union [at : {"find", "write", "publish"}, input : Inputs]]
      /\ handling'[c].at = "idle"
      /\ \A b \in Callers \ {c} : handling'[b] = handling[b]
  BY <1>1, CallEnds
<1>3. /\ customer' \in Rows /\ customer' # NoRow
  BY <1>1, WrittenRow
<1>4. RecordsTypeOK'
  <2>1. commits' \in 0 .. MaxCommits
    BY <1>1
  <2> QED BY <1>1, <1>2, <1>3, <2>1 DEF RecordsTypeOK, producerVars
<1>5. RowOfCommits'
  BY <1>1, <1>2, <1>3 DEF RowOfCommits
<1>6. EventsTellTheRow'
  BY DEF EventsTellTheRow
<1>7. DerivedFromTheDate'
  BY <1>1, DateFollowed DEF EventsInv
<1> QED BY <1>4, <1>5, <1>6, <1>7 DEF EventsInv

\* The event of a statement is published: it takes its caller's place.
LEMMA EventTold ==
  ASSUME EventsInv, NEW c \in Callers, CustomerEvent(c)
  PROVE  EventsInv'
<1> DEFINE input == handling[c].input
           tier == TierTold(input)
           deletes == DeletionTold(input)
           at == IF connected THEN "send" ELSE "connect"
           event == [number |-> commits, tier |-> tier, deletes |-> deletes, at |-> at]
<1>1. /\ handling[c].at = "publish" /\ Over(c) /\ RecordsTypeOK
      /\ UNCHANGED <<customer, commits, connected, process, told, dropped>>
      /\ UNCHANGED <<unanswered, crossed>>
  BY DEF CustomerEvent, EventsInv
<1>2. sending' = sending \union {event}
  BY DEF CustomerEvent, TierTold, DeletionTold
<1>3. /\ input \in Inputs /\ tier \in Tiers \union {"undefined"} /\ deletes \in BOOLEAN
      /\ at \in {"connect", "send"}
  BY <1>1, CallFields, InputFields
<1>4. customer # NoRow /\ commits \in 1 .. MaxCommits
  BY <1>1, CustomerRecordsAssumption
     DEF EventsInv, RowOfCommits, RecordsTypeOK, CustomerRecordsAssumption
<1>5. /\ handling' \in [Callers -> [at : {"idle"}]
              \union [at : {"find", "write", "publish"}, input : Inputs]]
      /\ handling'[c].at = "idle"
      /\ \A b \in Callers \ {c} : handling'[b] = handling[b]
  BY <1>1, CallEnds
<1> HIDE DEF tier, deletes, at
<1>6. event \in Events /\ event.tier = tier /\ event.deletes = deletes
  BY <1>3, <1>4 DEF Events
<1> HIDE DEF event, input
<1>7. RecordsTypeOK'
  BY <1>1, <1>2, <1>5, <1>6 DEF RecordsTypeOK
<1>8. RowOfCommits'
  BY <1>1, <1>4, <1>5 DEF EventsInv, RowOfCommits
<1>9. EventsTellTheRow'
  BY <1>2 DEF EventsTellTheRow, Quiet
<1>10. DerivedFromTheDate'
  BY <1>1 DEF EventsInv, DerivedFromTheDate
<1>11. ASSUME OneUnderWay, LastEventCompletes
       PROVE  OneUnderWay' /\ LastEventCompletes'
  <2>1. sending = {} /\ \A b \in Callers \ {c} : handling[b].at # "publish"
    BY <1>1, <1>11 DEF OneUnderWay
  <2>2. sending' = {event} /\ \A b \in Callers : handling'[b].at # "publish"
    BY <1>2, <1>5, <2>1
  <2>3. Completes(tier, deletes)
    BY <1>1, <1>11 DEF LastEventCompletes, tier, deletes, input
  <2> QED BY <1>1, <1>6, <2>2, <2>3 DEF OneUnderWay, LastEventCompletes, Completes
<1> QED BY <1>1, <1>7, <1>8, <1>9, <1>10, <1>11 DEF EventsInv

\* The fields of an event, which is on its way to be sent.
LEMMA EventFields ==
  ASSUME RecordsTypeOK, NEW event \in sending
  PROVE  /\ event \in Events
         /\ event.tier \in Tiers \union {"undefined"} /\ event.deletes \in BOOLEAN
         /\ [event EXCEPT !.at = "send"] \in Events
         /\ [event EXCEPT !.at = "send"].tier = event.tier
         /\ [event EXCEPT !.at = "send"].deletes = event.deletes
<1>1. event \in Events
  BY DEF RecordsTypeOK
<1> QED BY <1>1 DEF Events

\* The promises of the producer: an event is sent, again, or dropped.
LEMMA PromiseTold ==
  ASSUME EventsInv, NEW event \in sending,
         Connect(event) \/ Send(event) \/ SendFails(event)
  PROVE  EventsInv'
<1>1. /\ UNCHANGED serviceVars /\ RecordsTypeOK /\ sending # {}
      /\ event \in Events
  BY EventFields DEF Connect, Send, SendFails, EventsInv
<1>2. /\ customer # NoRow /\ told.deleted \in BOOLEAN
      /\ told.tier \in Tiers \union {"undefined"}
  BY <1>1 DEF EventsInv, RowOfCommits, RecordsTypeOK
<1>3. Applied(event) \in [tier : Tiers \union {"undefined"}, deleted : BOOLEAN]
  <2>1. (told.deleted \/ event.deletes) \in BOOLEAN
    OBVIOUS
  <2> QED BY <1>2, <2>1, EventFields, <1>1 DEF Applied
<1>4. RowOfCommits'
  BY <1>1, <1>2 DEF EventsInv, RowOfCommits, serviceVars
<1>5. DerivedFromTheDate'
  BY <1>1 DEF EventsInv, DerivedFromTheDate, serviceVars
<1>6. CASE Connect(event) /\ connected'
  <2> DEFINE sent == [event EXCEPT !.at = "send"]
  <2>1. /\ sending' = (sending \ {event}) \union {sent}
        /\ connected' \in BOOLEAN
        /\ UNCHANGED <<process, told, dropped>>
    BY <1>1, <1>6 DEF Connect, RecordsTypeOK
  <2>2. sent \in Events /\ sent.tier = event.tier /\ sent.deletes = event.deletes
    BY <1>1, EventFields
  <2> HIDE DEF sent
  <2>3. RecordsTypeOK'
    BY <1>1, <2>1, <2>2 DEF RecordsTypeOK, serviceVars
  <2>4. EventsTellTheRow'
    BY <2>1 DEF EventsTellTheRow, Quiet
  <2>5. ASSUME OneUnderWay, LastEventCompletes
        PROVE  OneUnderWay' /\ LastEventCompletes'
    <3>1. /\ sending' = {sent}
          /\ \A b \in Callers : handling[b].at # "publish"
      BY <2>1, <2>5 DEF OneUnderWay
    <3>2. Completes(event.tier, event.deletes)
      BY <2>5 DEF LastEventCompletes
    <3> QED BY <1>1, <2>1, <2>2, <3>1, <3>2
            DEF OneUnderWay, LastEventCompletes, Completes, serviceVars
  <2> QED BY <1>1, <1>4, <1>5, <2>1, <2>3, <2>4, <2>5 DEF EventsInv, serviceVars
<1>7. CASE SendFails(event) \/ (Connect(event) /\ ~connected')
  <2>1. /\ sending' = sending \ {event} /\ dropped' = TRUE
        /\ UNCHANGED <<process, told>> /\ connected' \in BOOLEAN
    BY <1>1, <1>7 DEF Connect, SendFails, RecordsTypeOK
  <2> QED BY <1>1, <1>4, <1>5, <2>1
          DEF EventsInv, RecordsTypeOK, EventsTellTheRow, serviceVars
<1>8. CASE Send(event)
  <2>1. /\ told' = Applied(event)
        /\ sending' \in {sending, sending \ {event}}
        /\ UNCHANGED <<connected, process, dropped>>
    BY <1>8 DEF Send
  <2>2. RecordsTypeOK'
    BY <1>1, <1>3, <2>1 DEF RecordsTypeOK, serviceVars
  <2>3. /\ told'.tier = IF event.tier = "undefined" THEN told.tier ELSE event.tier
        /\ told'.deleted = (told.deleted \/ event.deletes)
    <3> DEFINE gone == told.deleted \/ event.deletes
    <3>1. told' = [tier |-> IF event.tier = "undefined" THEN told.tier ELSE event.tier,
                   deleted |-> gone]
      BY <2>1 DEF Applied
    <3> HIDE DEF gone
    <3>2. /\ told'.tier = IF event.tier = "undefined" THEN told.tier ELSE event.tier
          /\ told'.deleted = gone
      BY <3>1
    <3> QED BY <3>2 DEF gone
  <2>4. ASSUME OneUnderWay, LastEventCompletes
        PROVE  /\ OneUnderWay' /\ LastEventCompletes'
               /\ told' = [tier |-> customer.tier, deleted |-> customer.status = "deleted"]
    <3>1. /\ sending' \subseteq {event}
          /\ \A b \in Callers : handling[b].at # "publish"
      BY <2>1, <2>4 DEF OneUnderWay
    <3>2. /\ customer.tier = IF event.tier = "undefined" THEN told.tier ELSE event.tier
          /\ (customer.status = "deleted") <=> (told.deleted \/ event.deletes)
      BY <2>4 DEF LastEventCompletes, Completes
    <3>3. Completes(event.tier, event.deletes)'
      <4>1. customer'.tier = IF event.tier = "undefined" THEN told'.tier ELSE event.tier
        BY <1>1, <2>3, <3>2 DEF serviceVars
      <4>2. customer' = customer
        BY <1>1 DEF serviceVars
      <4>3. (customer'.status = "deleted") <=> (told'.deleted \/ event.deletes)
        BY <2>3, <3>2, <4>2, Zenon
      <4> QED BY <4>1, <4>3 DEF Completes
    <3>4. OneUnderWay' /\ LastEventCompletes'
      BY <1>1, <3>1, <3>3 DEF OneUnderWay, LastEventCompletes, serviceVars
    <3>5. told'.tier = customer.tier /\ told'.deleted = (customer.status = "deleted")
      BY <2>3, <3>2, Zenon
    <3>6. told' \in [tier : Tiers \union {"undefined"}, deleted : BOOLEAN]
      BY <1>3, <2>1
    <3>7. told' = [tier |-> told'.tier, deleted |-> told'.deleted]
      BY <3>6
    <3> QED BY <3>4, <3>5, <3>7, Zenon
  <2>5. EventsTellTheRow'
    BY <1>1, <2>1, <2>4 DEF EventsInv, EventsTellTheRow, Told, serviceVars
  <2> QED BY <1>1, <1>4, <1>5, <2>1, <2>2, <2>4, <2>5 DEF EventsInv, serviceVars
<1> QED BY <1>6, <1>7, <1>8

LEMMA EventsInductive == RecordsSpec => []EventsInv
<1>1. RecordsInit => EventsInv
  <2> SUFFICES ASSUME RecordsInit
               PROVE  EventsInv
    OBVIOUS
  <2>1. RecordsTypeOK
    <3>1. handling \in [Callers -> [at : {"idle"}]
            \union [at : {"find", "write", "publish"}, input : Inputs]]
      <4>1. [at |-> "idle"] \in [at : {"idle"}]
        OBVIOUS
      <4> QED BY <4>1 DEF RecordsInit
    <3>2. told \in [tier : Tiers \union {"undefined"}, deleted : BOOLEAN]
      BY DEF RecordsInit, Untold
    <3>3. commits \in 0 .. MaxCommits
      BY CustomerRecordsAssumption DEF RecordsInit, CustomerRecordsAssumption
    <3> QED BY <3>1, <3>2, <3>3 DEF RecordsInit, RecordsTypeOK
  <2>2. RowOfCommits /\ OneUnderWay /\ LastEventCompletes
    BY DEF RecordsInit, RowOfCommits, OneUnderWay, LastEventCompletes
  <2>3. EventsTellTheRow /\ DerivedFromTheDate
    BY DEF RecordsInit, EventsTellTheRow, DerivedFromTheDate
  <2> QED BY <2>1, <2>2, <2>3 DEF EventsInv
<1>2. EventsInv /\ [RecordsNext]_recordVars => EventsInv'
  <2> SUFFICES ASSUME EventsInv, [RecordsNext]_recordVars
               PROVE  EventsInv'
    OBVIOUS
  <2>1. RecordsTypeOK
    BY DEF EventsInv
  <2>2. ASSUME NEW c \in Callers, NEW input \in Inputs, Request(c, input)
        PROVE  EventsInv'
    <3> DEFINE there == IF input.op = "create" THEN "write" ELSE "find"
    <3>1. /\ handling[c].at = "idle" /\ there \in {"find", "write", "publish"}
          /\ handling' = [handling EXCEPT ![c] = [at |-> there, input |-> input]]
          /\ UNCHANGED <<customer, commits, unanswered, crossed, producerVars>>
      BY <2>2 DEF Request
    <3>2. /\ handling' \in [Callers -> [at : {"idle"}]
               \union [at : {"find", "write", "publish"}, input : Inputs]]
          /\ handling'[c].at = there /\ handling'[c].input = input
          /\ \A b \in Callers \ {c} : handling'[b] = handling[b]
      BY <2>1, <3>1, CallMoves
    <3> QED BY <3>1, <3>2, NothingTold
  <2>3. ASSUME NEW c \in Callers, FindUnique(c)
        PROVE  EventsInv'
    <3>1. /\ handling[c].at = "find"
          /\ UNCHANGED <<customer, commits, unanswered, crossed, producerVars>>
      BY <2>3 DEF FindUnique
    <3>2. CASE customer = NoRow
      <4>1. Over(c)
        BY <2>3, <3>2 DEF FindUnique
      <4> QED BY <2>1, <3>1, <4>1, CallEnds, NothingTold
    <3>3. CASE customer # NoRow
      <4>1. Requested(c, "write")
        BY <2>3, <3>3 DEF FindUnique
      <4> QED BY <2>1, <3>1, <3>3, <4>1, CallGoesOn, NothingTold
    <3> QED BY <3>2, <3>3
  <2>4. ASSUME NEW c \in Callers, WriteRow(c)
        PROVE  EventsInv'
    <3>1. handling[c].at = "write" /\ UNCHANGED producerVars
      BY <2>4 DEF WriteRow
    <3>2. CASE Over(c) /\ UNCHANGED <<customer, commits, unanswered, crossed>>
      BY <2>1, <3>1, <3>2, CallEnds, NothingTold
    <3>3. CASE /\ Commits(c) /\ crossed' = (crossed \/ UnderWay(c))
               /\ Requested(c, "publish") /\ UNCHANGED unanswered
      BY <3>1, <3>3, StatementTold
    <3>4. CASE Commits(c) /\ unanswered' = TRUE /\ Over(c) /\ UNCHANGED crossed
      BY <3>1, <3>4, UnansweredTold
    <3> QED BY <2>4, <3>2, <3>3, <3>4 DEF WriteRow
  <2>5. ASSUME NEW c \in Callers, CustomerEvent(c)
        PROVE  EventsInv'
    BY <2>5, EventTold
  <2>6. ASSUME NEW event \in sending,
               Connect(event) \/ Send(event) \/ SendFails(event)
        PROVE  EventsInv'
    BY <2>6, PromiseTold
  <2>7. CASE GracefulShutdown
    <3>1. /\ UNCHANGED <<serviceVars, sending, told, dropped>>
          /\ process' = "closing" /\ connected' \in BOOLEAN
      BY <2>1, <2>7 DEF GracefulShutdown, RecordsTypeOK
    <3> QED BY <3>1 DEF EventsInv, RecordsTypeOK, RowOfCommits, OneUnderWay,
                        LastEventCompletes, Completes, EventsTellTheRow, Told, Quiet,
                        DerivedFromTheDate, serviceVars
  <2>8. CASE Exit
    <3> DEFINE left == sending # {} \/ \E c \in Callers : handling[c].at = "publish"
    <3>1. /\ UNCHANGED <<serviceVars, sending, connected, told>>
          /\ process' = "exited" /\ dropped' = (dropped \/ left)
      BY <2>8 DEF Exit
    <3> HIDE DEF left
    <3>2. dropped' \in BOOLEAN /\ (dropped => dropped')
      <4>1. CASE dropped \/ left
        BY <3>1, <4>1
      <4>2. CASE ~(dropped \/ left)
        BY <3>1, <4>2
      <4> QED BY <4>1, <4>2
    <3> QED BY <3>1, <3>2
            DEF EventsInv, RecordsTypeOK, RowOfCommits, OneUnderWay,
                LastEventCompletes, Completes, EventsTellTheRow, Told, Quiet,
                DerivedFromTheDate, serviceVars
  <2>9. CASE UNCHANGED recordVars
    BY <2>9 DEF recordVars, EventsInv, RecordsTypeOK, RowOfCommits, OneUnderWay,
                LastEventCompletes, Completes, EventsTellTheRow, Told, Quiet,
                DerivedFromTheDate
  <2> QED BY <2>2, <2>3, <2>4, <2>5, <2>6, <2>7, <2>8, <2>9 DEF RecordsNext
<1> QED BY <1>1, <1>2, PTL DEF RecordsSpec

\* Whatever requests overlap, and however often an event is sent, a consumer has
\* the tier and the status of the row once nothing is under way, unless an event
\* was dropped, the answer of a statement was lost after it was done, or two
\* events had crossed (create, update and softDelete of customer.service.ts,
\* publishCustomerEvent).
THEOREM ConsumersHaveTheRow == RecordsSpec => []EventsTellTheRow
BY EventsInductive, PTL DEF EventsInv

\* The derived fields of a row are those of its birth date, but for a date that
\* cannot be calculated, for any requests and interleaving (update of
\* customer.service.ts).
THEOREM FieldsFollowTheDate == RecordsSpec => []DerivedFromTheDate
BY EventsInductive, PTL DEF EventsInv

-----------------------------------------------------------------------------
(*****************************************************************************)
(* A service lets in the tokens of its peers for their time, and no other,   *)
(* for every set of services, ttl and difference of clocks.                  *)
(*****************************************************************************)

\* Types, and what a header and the tokens made so far can be.
HeaderOK ==
  /\ ServiceTokensTypeOK
  /\ \A t \in made :
       /\ t.born <= seconds
       /\ t.timestamp = t.born + ahead[t.service]
       /\ t.signedWith = secret[t.service]
  /\ \A t \in header : t \in made \/ t.signedWith = "nothing"
  /\ \A t, u \in header : t = u

-----------------------------------------------------------------------------
\* Each bound is a number.
LEMMA BoundsAreNat ==
  /\ TtlSeconds \in Nat /\ MaxSkew \in Nat
  /\ MaxSeconds \in Nat /\ MaxTokens \in Nat
BY ServiceTokensAssumption DEF ServiceTokensAssumption

\* A clock shows a number.
LEMMA ClockIsNat ==
  ASSUME ServiceTokensTypeOK, NEW s \in Services
  PROVE  seconds \in Nat /\ ahead[s] \in 0 .. MaxSkew /\ Clock(s) \in Nat
<1>1. seconds \in 0 .. MaxSeconds /\ ahead[s] \in 0 .. MaxSkew
  BY DEF ServiceTokensTypeOK
<1> QED BY <1>1, BoundsAreNat DEF Clock

\* The state keeps its types: a timestamp is a clock's reading, and the header
\* of a request is at most one token.
LEMMA TypesKept ==
  ASSUME ServiceTokensTypeOK, [ServiceTokensNext]_tokenVars
  PROVE  ServiceTokensTypeOK'
<1> USE BoundsAreNat
<1>1. CASE UNCHANGED tokenVars
  BY <1>1 DEF ServiceTokensTypeOK, tokenVars
<1>2. ASSUME NEW s \in Services, GenerateToken(s)
      PROVE  ServiceTokensTypeOK'
  <2>1. Clock(s) \in Nat /\ seconds \in Nat /\ secret[s] \in Secrets
    BY ClockIsNat DEF ServiceTokensTypeOK
  <2>2. [service |-> s, timestamp |-> Clock(s), signedWith |-> secret[s],
         born |-> seconds] \in Tokens
    BY <2>1 DEF Tokens
  <2> QED BY <1>2, <2>2 DEF GenerateToken, ServiceTokensTypeOK
<1>3. ASSUME NEW s \in Services, CallService(s)
      PROVE  ServiceTokensTypeOK'
  <2>1. Forged[s] \in Tokens
    BY DEF Forged, Tokens
  <2>2. header' \subseteq Tokens
    BY <1>3, <2>1 DEF CallService, ServiceTokensTypeOK
  <2> QED BY <1>3, <2>2 DEF CallService, ServiceTokensTypeOK
<1>4. CASE CheckHeader
  BY <1>4 DEF CheckHeader, ServiceTokensTypeOK
<1>5. CASE SecondPasses
  <2>1. seconds' \in 0 .. MaxSeconds
    <3>1. seconds \in 0 .. MaxSeconds
      BY DEF ServiceTokensTypeOK
    <3>2. seconds < MaxSeconds /\ seconds' = seconds + 1
      BY <1>5 DEF SecondPasses
    <3> QED BY <3>1, <3>2
  <2>2. outcome' \in {"none", "asked", "missing", "invalid", "let in"}
    BY <1>5 DEF SecondPasses
  <2> QED BY <1>5, <2>1, <2>2 DEF SecondPasses, ServiceTokensTypeOK
<1> QED BY <1>1, <1>2, <1>3, <1>4, <1>5 DEF ServiceTokensNext

-----------------------------------------------------------------------------
\* No secret is "nothing", so what is forged is never made.
LEMMA HeaderKept ==
  ASSUME HeaderOK, [ServiceTokensNext]_tokenVars
  PROVE  HeaderOK'
<1> USE BoundsAreNat
<1>1. ServiceTokensTypeOK'
  BY TypesKept DEF HeaderOK
<1>2. CASE UNCHANGED tokenVars
  BY <1>1, <1>2 DEF HeaderOK, tokenVars
<1>3. ASSUME NEW s \in Services, GenerateToken(s)
      PROVE  HeaderOK'
  <2> DEFINE new == [service |-> s, timestamp |-> Clock(s),
                     signedWith |-> secret[s], born |-> seconds]
  <2>1. /\ new.born <= seconds
        /\ new.timestamp = new.born + ahead[new.service]
        /\ new.signedWith = secret[new.service]
    <3>1. seconds \in Nat
      BY ClockIsNat DEF HeaderOK
    <3> QED BY <3>1 DEF Clock
  <2>2. made' = made \union {new} /\ UNCHANGED <<seconds, ahead, secret, header>>
    BY <1>3 DEF GenerateToken
  <2> QED BY <1>1, <2>1, <2>2 DEF HeaderOK
<1>4. ASSUME NEW s \in Services, CallService(s)
      PROVE  HeaderOK'
  <2>1. Forged[s].signedWith = "nothing"
    BY DEF Forged
  <2>2. UNCHANGED <<seconds, ahead, secret, made>>
    BY <1>4 DEF CallService
  <2>3. /\ \A t \in header' : t \in made \/ t.signedWith = "nothing"
        /\ \A t, u \in header' : t = u
    BY <1>4, <2>1 DEF CallService
  <2> QED BY <1>1, <2>2, <2>3 DEF HeaderOK
<1>5. CASE CheckHeader
  BY <1>1, <1>5 DEF CheckHeader, HeaderOK
<1>6. CASE SecondPasses
  <2>1. seconds \in 0 .. MaxSeconds /\ seconds' = seconds + 1 /\ made \subseteq Tokens
    BY <1>6 DEF SecondPasses, HeaderOK, ServiceTokensTypeOK
  <2>2. \A t \in made : t.born <= seconds'
    BY <2>1 DEF HeaderOK, Tokens
  <2> QED BY <1>1, <1>6, <2>2 DEF SecondPasses, HeaderOK
<1> QED BY <1>2, <1>3, <1>4, <1>5, <1>6 DEF ServiceTokensNext

-----------------------------------------------------------------------------
\* What the verification decides, it decides by two clocks that differ by at
\* most MaxSkew.
LEMMA CheckedInTime ==
  ASSUME HeaderOK, CheckHeader
  PROVE  TokensLastTheirTime'
<1> USE BoundsAreNat
<1> SUFFICES ASSUME NEW t \in header
             PROVE  /\ outcome' = "let in" =>
                         /\ t \in made /\ secret[t.service] = secret[asked]
                         /\ seconds - t.born <= TtlSeconds + MaxSkew
                    /\ outcome' = "invalid" =>
                         \/ t \notin made \/ secret[t.service] # secret[asked]
                         \/ seconds - t.born > TtlSeconds - MaxSkew
  BY DEF CheckHeader, TokensLastTheirTime
<1>1. /\ t \in Tokens /\ asked \in Services /\ t.service \in Services
      /\ t.born \in Nat /\ seconds \in Nat
      /\ ahead[asked] \in 0 .. MaxSkew /\ ahead[t.service] \in 0 .. MaxSkew
      /\ secret[asked] \in Secrets
  <2>1. t \in Tokens /\ asked \in Services /\ secret[asked] \in Secrets
    BY DEF HeaderOK, ServiceTokensTypeOK
  <2>2. t.service \in Services /\ t.born \in Nat
    BY <2>1 DEF Tokens
  <2> QED BY <2>1, <2>2, ClockIsNat DEF HeaderOK
<1>2. outcome' = IF VerifyToken(asked, t) THEN "let in" ELSE "invalid"
  BY DEF CheckHeader, HeaderOK
<1>3. ASSUME t \in made
      PROVE  /\ t.signedWith = secret[t.service]
             /\ Clock(asked) - t.timestamp
                  = seconds - t.born + ahead[asked] - ahead[t.service]
  BY <1>1, <1>3 DEF HeaderOK, Clock
<1>4. CASE VerifyToken(asked, t)
  <2>1. t \in made
    BY <1>1, <1>4 DEF VerifyToken, HeaderOK, Secrets
  <2>2. ~(Clock(asked) - t.timestamp > TtlSeconds) /\ t.signedWith = secret[asked]
    BY <1>4 DEF VerifyToken, TokenExpired
  <2>3. seconds - t.born <= TtlSeconds + MaxSkew
    BY <1>1, <1>3, <2>1, <2>2
  <2> QED BY <1>2, <1>3, <1>4, <2>1, <2>2, <2>3
<1>5. CASE ~VerifyToken(asked, t)
  <2>1. ASSUME t \in made, secret[t.service] = secret[asked]
        PROVE  seconds - t.born > TtlSeconds - MaxSkew
    <3>1. Clock(asked) - t.timestamp > TtlSeconds
      BY <1>3, <1>5, <2>1 DEF VerifyToken, TokenExpired
    <3> QED BY <1>1, <1>3, <2>1, <3>1
  <2> QED BY <1>2, <1>5, <2>1
<1> QED BY <1>4, <1>5

-----------------------------------------------------------------------------
LEMMA TokensInductive == ServiceTokensSpec => [](HeaderOK /\ TokensLastTheirTime)
<1>1. ServiceTokensInit => HeaderOK /\ TokensLastTheirTime
  BY ServiceTokensAssumption
     DEF ServiceTokensAssumption, ServiceTokensInit, HeaderOK, ServiceTokensTypeOK,
         TokensLastTheirTime
<1>2. HeaderOK /\ TokensLastTheirTime /\ [ServiceTokensNext]_tokenVars
        => HeaderOK' /\ TokensLastTheirTime'
  <2> SUFFICES ASSUME HeaderOK, TokensLastTheirTime, [ServiceTokensNext]_tokenVars
               PROVE  TokensLastTheirTime'
    BY HeaderKept
  <2>1. CASE UNCHANGED tokenVars
    BY <2>1 DEF TokensLastTheirTime, tokenVars
  <2>2. ASSUME NEW s \in Services, GenerateToken(s)
        PROVE  TokensLastTheirTime'
    \* The one new token is none that the header holds and that was not made.
    <3>1. \A t \in header : t \in made' => t \in made
      <4>1. secret[s] \in Secrets
        BY DEF HeaderOK, ServiceTokensTypeOK
      <4> QED BY <2>2, <4>1 DEF GenerateToken, HeaderOK, Secrets
    <3>2. /\ UNCHANGED <<seconds, secret, asked, header, outcome>>
          /\ made \subseteq made'
      BY <2>2 DEF GenerateToken
    <3> QED BY <3>1, <3>2 DEF TokensLastTheirTime
  <2>3. ASSUME NEW s \in Services, CallService(s)
        PROVE  TokensLastTheirTime'
    BY <2>3 DEF CallService, TokensLastTheirTime
  <2>4. CASE CheckHeader
    BY <2>4, CheckedInTime
  <2>5. CASE SecondPasses
    BY <2>5 DEF SecondPasses, TokensLastTheirTime
  <2> QED BY <2>1, <2>2, <2>3, <2>4, <2>5 DEF ServiceTokensNext
<1> QED BY <1>1, <1>2, PTL DEF ServiceTokensSpec

\* A service lets in only tokens of its peers that are not too old, and turns
\* away none that is young enough, in every behaviour: shown again, forged, or
\* checked by a clock that differs.
THEOREM TokensAreTimed == ServiceTokensSpec => []TokensLastTheirTime
BY TokensInductive, PTL

-----------------------------------------------------------------------------
(***************************************************************************)
(* The screens of the reading page.                                        *)
(***************************************************************************)

\* Both hold of every step once the types do: a call begins only when none is
\* under way, at the stage that is to wait for it.
ScreenInv == ScreenTypeOK /\ WaitsForItsCall /\ EveryCardTurns

\* A layout has a place, and a timer, for every card the server draws.
LEMMA LayoutHasEveryCard ==
  ASSUME NEW s \in SpreadTypes
  PROVE  /\ DOMAIN SpreadLayout(s, CardCount(s)) = 1 .. CardCount(s)
         /\ CardCount(s) \in 0 .. 10
         /\ Placeholders(s) = CardCount(s)
<1>1. CASE s = "1-card"
  BY <1>1 DEF SpreadLayout, CardCount, Placeholders, SingleCardLayout
<1>2. CASE s = "3-card"
  BY <1>2 DEF SpreadLayout, CardCount, Placeholders, ThreeCardLayout
<1>3. CASE s = "7-card"
  BY <1>3 DEF SpreadLayout, CardCount, Placeholders, SevenCardLayout
<1>4. CASE s = "celtic-cross"
  <2> DEFINE cross == <<3, 6, 9, 15, 12, 18>>
             staff == [i \in 1 .. 4 |-> 21 + (i - 1) * 3]
  <2>1. cross \in Seq(Nat) /\ Len(cross) = 6
    OBVIOUS
  <2>2. staff \in Seq(Nat) /\ Len(staff) = 4
    <3>1. staff \in [1 .. 4 -> Nat]
      OBVIOUS
    <3> QED BY <3>1, LenProperties, SeqDef
  <2>3. DOMAIN (cross \o staff) = 1 .. 10
    <3> HIDE DEF cross, staff
    <3>1. cross \o staff \in Seq(Nat) /\ Len(cross \o staff) = 6 + 4
      <4>1. /\ cross \o staff \in Seq(Nat)
            /\ Len(cross \o staff) = Len(cross) + Len(staff)
        BY ONLY <2>1, <2>2, ConcatProperties
      <4> QED BY ONLY <2>1, <2>2, <4>1
    <3>2. DOMAIN (cross \o staff) = 1 .. Len(cross \o staff)
      BY ONLY <3>1, LenProperties
    <3> QED BY ONLY <3>1, <3>2
  <2> QED BY <1>4, <2>3
          DEF SpreadLayout, CardCount, Placeholders, CelticCrossLayout
<1> QED BY <1>1, <1>2, <1>3, <1>4 DEF SpreadTypes

\* A table without cards.
LEMMA TableCleared ==
  ASSUME NoTable
  PROVE  /\ dealt' \in 0 .. 10 /\ up' \in SUBSET (1 .. dealt')
         /\ timers' \in SUBSET (1 .. dealt') /\ expanded' \in Sections \union {""}
         /\ clicked' \in Seq(1 .. dealt')
<1>1. clicked' \in Seq(1 .. dealt')
  BY EmptySeq DEF NoTable
<1>2. dealt' \in 0 .. 10
  <2>1. 0 \in 0 .. 10
    OBVIOUS
  <2> QED BY <2>1, Zenon DEF NoTable
<1>3. up' \subseteq 1 .. dealt' /\ timers' \subseteq 1 .. dealt'
  BY DEF NoTable
<1>4. expanded' \in Sections \union {""}
  BY DEF NoTable
<1> QED BY <1>1, <1>2, <1>3, <1>4

\* Every call that is not under way leaves the table and the rest of the page.
LEMMA PageKept ==
  ASSUME ScreenInv,
         UNCHANGED <<stage, spread, dealt, level, submitting, loading, promises,
                     up, timers, clicked>>,
         {typed', banner', modalOpen'} \subseteq BOOLEAN,
         expanded' \in Sections \union {""}
  PROVE  ScreenInv'
BY DEF ScreenInv, ScreenTypeOK, WaitsForItsCall, EveryCardTurns

LEMMA ScreenInductive == ScreenSpec => []ScreenInv
<1>1. ScreenInit => ScreenInv
  <2> SUFFICES ASSUME ScreenInit
               PROVE  ScreenInv
    OBVIOUS
  <2>1. clicked \in Seq(1 .. dealt)
    BY EmptySeq DEF ScreenInit
  <2>2. ScreenTypeOK
    <3>0. 0 \in 0 .. 10
      OBVIOUS
    <3>1. dealt \in 0 .. 10 /\ up \subseteq 1 .. dealt /\ timers \subseteq 1 .. dealt
      BY <3>0, Zenon DEF ScreenInit
    <3>2. {typed, submitting, loading, banner, modalOpen} \subseteq BOOLEAN
      BY DEF ScreenInit
    <3>3. promises \in SUBSET Promises
      BY DEF ScreenInit
    <3> QED BY <2>1, <3>1, <3>2, <3>3 DEF ScreenInit, ScreenTypeOK
  <2>3. WaitsForItsCall
    BY DEF ScreenInit, WaitsForItsCall
  <2>4. EveryCardTurns
    BY DEF ScreenInit, EveryCardTurns
  <2> QED BY <2>2, <2>3, <2>4 DEF ScreenInv
<1>2. ScreenInv /\ [ScreenNext]_screenVars => ScreenInv'
  <2> SUFFICES ASSUME ScreenInv, [ScreenNext]_screenVars
               PROVE  ScreenInv'
    OBVIOUS
  <2>0. ScreenTypeOK /\ WaitsForItsCall /\ EveryCardTurns
    BY DEF ScreenInv
  <2>1. CASE TypeText \/ DismissBanner \/ DismissModal
    <3>1. {typed', banner', modalOpen'} \subseteq BOOLEAN
      BY <2>0, <2>1 DEF TypeText, DismissBanner, DismissModal, ScreenTypeOK
    <3> QED BY <2>0, <2>1, <3>1, PageKept
            DEF TypeText, DismissBanner, DismissModal, tableVars, ScreenTypeOK
  <2>2. CASE SubmitText
    <3> DEFINE its == [for |-> "session", resources |-> Resources(level)]
    <3>1. its \in Promises /\ its.for = "session"
      <4>1. Resources(level) \in BOOLEAN
        BY DEF Resources
      <4> QED BY <4>1 DEF Promises
    <3>2. promises = {} /\ promises' = {its}
      BY <2>0, <2>2 DEF SubmitText, WaitsForItsCall
    <3> HIDE DEF its
    <3>3. ScreenTypeOK'
      BY <2>0, <2>2, <3>1, <3>2 DEF SubmitText, ScreenTypeOK, tableVars
    <3>4. WaitsForItsCall'
      BY <2>0, <2>2, <3>1, <3>2 DEF SubmitText, WaitsForItsCall
    <3>5. EveryCardTurns'
      BY <2>0, <2>2 DEF SubmitText, EveryCardTurns
    <3> QED BY <3>3, <3>4, <3>5 DEF ScreenInv
  <2>3. ASSUME NEW s \in SpreadTypes, ChooseSpread(s)
        PROVE  ScreenInv'
    <3>1. CASE level = ""
      BY <2>0, <2>3, <3>1, PageKept DEF ChooseSpread, tableVars, ScreenTypeOK
    <3>2. CASE level # ""
      <4> DEFINE its == [for |-> "reading", spread |-> s]
      <4>1. its \in Promises /\ its.for = "reading" /\ its.spread = s
        BY DEF Promises
      <4>2. promises = {}
        BY <2>0, <2>3 DEF ChooseSpread, WaitsForItsCall, ScreenTypeOK, Promises
      <4>3. /\ promises' = {its} /\ stage' = "drawing" /\ spread' = s
            /\ loading' = TRUE /\ banner' = FALSE
            /\ UNCHANGED <<dealt, level, typed, submitting, modalOpen, tableVars>>
        BY <2>3, <3>2, <4>2 DEF ChooseSpread
      <4> HIDE DEF its
      <4>4. ScreenTypeOK'
        BY <2>0, <4>1, <4>3 DEF ScreenTypeOK, tableVars
      <4>5. WaitsForItsCall'
        BY <2>0, <3>2, <4>1, <4>2, <4>3, LayoutHasEveryCard DEF WaitsForItsCall
      <4>6. EveryCardTurns'
        BY <4>3 DEF EveryCardTurns
      <4> QED BY <4>4, <4>5, <4>6 DEF ScreenInv
    <3> QED BY <3>1, <3>2
  <2>4. ASSUME NEW promise \in promises, promises' = promises \ {promise},
               \/ \E l \in CrisisLevels : SessionCreated(promise, l)
               \/ SessionFails(promise)
        PROVE  ScreenInv'
    <3>1. /\ promises' = {} /\ promise.for = "session" /\ stage = "input"
      BY <2>0, <2>4 DEF WaitsForItsCall, SessionCreated, SessionFails
    <3>2. ASSUME NEW l \in CrisisLevels, SessionCreated(promise, l)
          PROVE  ScreenInv'
      <4>1. modalOpen' \in BOOLEAN
        <5>1. CASE modalOpen \/ promise.resources
          BY <3>2, <5>1 DEF SessionCreated
        <5>2. CASE ~(modalOpen \/ promise.resources)
          BY <3>2, <5>2 DEF SessionCreated
        <5> QED BY <5>1, <5>2
      <4>3. ScreenTypeOK'
        BY <2>0, <3>1, <3>2, <4>1, TableCleared DEF SessionCreated, ScreenTypeOK
      <4>4. WaitsForItsCall'
        BY <3>1, <3>2 DEF SessionCreated, WaitsForItsCall, CrisisLevels
      <4>5. EveryCardTurns'
        BY <3>2 DEF SessionCreated, EveryCardTurns
      <4> QED BY <4>3, <4>4, <4>5 DEF ScreenInv
    <3>3. CASE SessionFails(promise)
      <4>1. ScreenTypeOK'
        BY <2>0, <3>1, <3>3 DEF SessionFails, ScreenTypeOK, tableVars
      <4>2. WaitsForItsCall'
        BY <3>1, <3>3 DEF SessionFails, WaitsForItsCall
      <4>3. EveryCardTurns'
        BY <3>1, <3>3 DEF SessionFails, EveryCardTurns
      <4> QED BY <4>1, <4>2, <4>3 DEF ScreenInv
    <3> QED BY <2>4, <3>2, <3>3
  <2>5. ASSUME NEW promise \in promises, promises' = promises \ {promise},
               ReadingDrawn(promise) \/ ReadingFails(promise)
        PROVE  ScreenInv'
    <3>1. /\ promises' = {} /\ promise.for = "reading" /\ stage = "drawing"
          /\ spread = promise.spread /\ level # "" /\ submitting = FALSE
      BY <2>0, <2>5 DEF WaitsForItsCall, ReadingDrawn, ReadingFails
    <3>2. promise.spread \in SpreadTypes
      BY <2>0, <3>1 DEF ScreenTypeOK, Promises
    <3>3. CASE ReadingDrawn(promise)
      <4>1. /\ dealt' = CardCount(promise.spread) /\ dealt' \in 0 .. 10
            /\ timers' = 1 .. dealt' /\ up' = {} /\ clicked' = <<>>
        BY <3>2, <3>3, LayoutHasEveryCard DEF ReadingDrawn
      <4>2. clicked' \in Seq(1 .. dealt')
        BY <4>1, EmptySeq
      <4>3. ScreenTypeOK'
        BY <2>0, <3>1, <3>3, <4>1, <4>2 DEF ReadingDrawn, ScreenTypeOK
      <4>4. WaitsForItsCall'
        BY <3>1, <3>3 DEF ReadingDrawn, WaitsForItsCall
      <4>5. EveryCardTurns'
        BY <4>1 DEF EveryCardTurns
      <4> QED BY <4>3, <4>4, <4>5 DEF ScreenInv
    <3>4. CASE ReadingFails(promise)
      <4>3. ScreenTypeOK'
        BY <2>0, <3>1, <3>4, TableCleared DEF ReadingFails, ScreenTypeOK
      <4>4. WaitsForItsCall'
        BY <3>1, <3>4 DEF ReadingFails, WaitsForItsCall
      <4>5. EveryCardTurns'
        BY <3>4 DEF ReadingFails, EveryCardTurns
      <4> QED BY <4>3, <4>4, <4>5 DEF ScreenInv
    <3> QED BY <2>5, <3>3, <3>4
  <2>6. ASSUME NEW card \in 1 .. dealt, TurnCard(card)
        PROVE  ScreenInv'
    <3>1. ScreenTypeOK'
      BY <2>0, <2>6 DEF TurnCard, ScreenTypeOK
    <3>2. WaitsForItsCall'
      BY <2>0, <2>6 DEF TurnCard, WaitsForItsCall
    <3>3. EveryCardTurns'
      BY <2>0, <2>6 DEF TurnCard, EveryCardTurns
    <3> QED BY <3>1, <3>2, <3>3 DEF ScreenInv
  <2>7. ASSUME NEW card \in 1 .. dealt, ClickCard(card)
        PROVE  ScreenInv'
    <3>1. /\ clicked' = Append(clicked, card) /\ clicked \in Seq(1 .. dealt)
          /\ up' = (up \ {card}) \union ({card} \ up)
          /\ UNCHANGED <<stage, spread, dealt, level, typed, submitting, loading,
                         banner, modalOpen, promises, timers, expanded>>
      BY <2>0, <2>7 DEF ClickCard, ScreenTypeOK
    <3>2. /\ clicked' \in Seq(1 .. dealt) /\ card \in Range(clicked')
          /\ Range(clicked) \subseteq Range(clicked')
      <4>1. /\ Append(clicked, card) \in Seq(1 .. dealt)
            /\ Len(Append(clicked, card)) = Len(clicked) + 1
            /\ \A i \in 1 .. Len(clicked) : Append(clicked, card)[i] = clicked[i]
            /\ Append(clicked, card)[Len(clicked) + 1] = card
        BY <3>1, AppendProperties
      <4>2. /\ DOMAIN clicked = 1 .. Len(clicked) /\ Len(clicked) \in Nat
            /\ DOMAIN clicked' = 1 .. Len(clicked) + 1
        BY <3>1, <4>1, LenProperties
      <4> QED BY <3>1, <4>1, <4>2 DEF Range
    <3>3. ScreenTypeOK'
      BY <2>0, <3>1, <3>2 DEF ScreenTypeOK
    <3>4. WaitsForItsCall'
      BY <2>0, <3>1 DEF WaitsForItsCall
    <3>5. EveryCardTurns'
      BY <2>0, <3>1, <3>2 DEF EveryCardTurns
    <3> QED BY <3>3, <3>4, <3>5 DEF ScreenInv
  <2>8. ASSUME NEW section \in Sections, ToggleSection(section)
        PROVE  ScreenInv'
    BY <2>0, <2>8, PageKept DEF ToggleSection, ScreenTypeOK
  <2>9. CASE StartNewReading
    <3>1. promises = {}
      BY <2>0, <2>9 DEF StartNewReading, WaitsForItsCall, ScreenTypeOK, Promises
    <3>3. ScreenTypeOK'
      BY <2>0, <2>9, TableCleared DEF StartNewReading, ScreenTypeOK
    <3>4. WaitsForItsCall'
      BY <2>0, <2>9, <3>1 DEF StartNewReading, WaitsForItsCall
    <3>5. EveryCardTurns'
      BY <2>9 DEF StartNewReading, EveryCardTurns
    <3> QED BY <3>3, <3>4, <3>5 DEF ScreenInv
  <2>10. CASE LoadAgain
    <3>2. ScreenTypeOK'
      BY <2>0, <2>10, TableCleared DEF LoadAgain, ScreenTypeOK
    <3>3. WaitsForItsCall'
      BY <2>10 DEF LoadAgain, WaitsForItsCall
    <3>4. EveryCardTurns'
      BY <2>10 DEF LoadAgain, EveryCardTurns
    <3> QED BY <3>2, <3>3, <3>4 DEF ScreenInv
  <2>11. CASE UNCHANGED screenVars
    BY <2>0, <2>11, PageKept DEF screenVars, tableVars, ScreenTypeOK
  <2> QED BY <2>1, <2>2, <2>3, <2>4, <2>5, <2>6, <2>7, <2>8, <2>9, <2>10, <2>11
          DEF ScreenNext, PromiseEnds
<1> QED BY <1>1, <1>2, PTL DEF ScreenSpec

\* However clicks, answers, failures and reloads come, the page waits for its one
\* call at the right stage and for no other reason, and leaves no card face down
\* but by the user's hand, for any number of clicks (app/reading/page.tsx,
\* ChatInput.tsx, SpreadLayout.tsx).
THEOREM ScreenWaitsAndTurns == ScreenSpec => []ScreenFollowsItsCalls
BY ScreenInductive, PTL DEF ScreenInv, ScreenFollowsItsCalls

-----------------------------------------------------------------------------
(***************************************************************************)
(* The interpretation of a reading.                                        *)
(***************************************************************************)

\* Whatever the model answers or fails to answer, and however the generator was
\* constructed, an interpretation is what the model said or the complete one, and
\* has every part the page reads; not that a part is of its type, which the
\* validation does not ask (interpretation-generator.ts).
THEOREM InterpretationsCanBeRead == GuidanceSpec => []InterpretationCanBeRead
<1>1. GuidanceInit => InterpretationCanBeRead
  BY DEF GuidanceInit, InterpretationCanBeRead
<1>2. InterpretationCanBeRead /\ [GuidanceNext]_guidanceVars => InterpretationCanBeRead'
  <2> SUFFICES ASSUME InterpretationCanBeRead, [GuidanceNext]_guidanceVars
               PROVE  InterpretationCanBeRead'
    OBVIOUS
  <2>1. ASSUME NEW kind \in Keywords, WriteWord(kind)
        PROVE  InterpretationCanBeRead'
    BY <2>1 DEF WriteWord, InterpretationCanBeRead
  <2>2. CASE AnalyzeSentiment
    BY <2>2 DEF AnalyzeSentiment, InterpretationCanBeRead
  <2>3. CASE ReadingRequest
    BY <2>3 DEF ReadingRequest, InterpretationCanBeRead
  <2>4. CASE Generate
    BY <2>4 DEF Generate, AnswerReading, MockInterpretation, Complete,
                InterpretationCanBeRead
  <2>5. CASE CallLLM
    <3>1. reply' = reply /\ (interpretation' = Complete \/ interpretation' = interpretation)
      BY <2>5 DEF CallLLM, AnswerReading, FallbackInterpretation
    <3>2. CASE interpretation' = Complete
      BY <3>2 DEF Complete, InterpretationCanBeRead
    <3>3. CASE interpretation' = interpretation
      BY <3>1, <3>3 DEF InterpretationCanBeRead
    <3> QED BY <3>1, <3>2, <3>3
  <2>6. CASE ModelAnswers
    <3>1. /\ reply' \in Interpretations \union {NoJson}
          /\ interpretation' = IF Valid(reply') THEN reply' ELSE Complete
      BY <2>6 DEF ModelAnswers, AnswerReading, FallbackInterpretation
    <3> QED BY <3>1 DEF Valid, Complete, InterpretationCanBeRead
  <2>7. CASE ModelFails
    BY <2>7 DEF ModelFails, AnswerReading, FallbackInterpretation, Complete,
                InterpretationCanBeRead
  <2>8. CASE UNCHANGED guidanceVars
    BY <2>8 DEF guidanceVars, InterpretationCanBeRead
  <2> QED BY <2>1, <2>2, <2>3, <2>4, <2>5, <2>6, <2>7, <2>8 DEF GuidanceNext
<1> QED BY <1>1, <1>2, PTL DEF GuidanceSpec

\* What a quotient, and the rounded score, is at least or below.
LEMMA DivAtLeast ==
  ASSUME NEW n \in Nat, NEW d \in Nat \ {0}, NEW k \in Nat
  PROVE  n \div d >= k <=> n >= k * d
<1> DEFINE q == n \div d
<1>1. q \in Int /\ d * q <= n /\ n < d * (q + 1)
  OBVIOUS
<1> HIDE DEF q
<1>2. CASE q >= k
  <2>1. d * q >= d * k
    BY <1>1, <1>2
  <2> QED BY <1>1, <1>2, <2>1
<1>3. CASE q + 1 <= k
  <2>1. d * (q + 1) <= d * k
    BY <1>1, <1>3
  <2> QED BY <1>1, <1>3, <2>1
<1> QED BY <1>1, <1>2, <1>3 DEF q

LEMMA RatioBelow ==
  ASSUME NEW a \in Int, NEW b \in Nat \ {0}
  PROVE  /\ Ratio(a, b) < -50 <=> 200 * (-a) >= 101 * b
         /\ Ratio(a, b) < -70 <=> 200 * (-a) >= 141 * b
         /\ Ratio(a, b) \in Int
<1>1. CASE a < 0
  <2>1. 200 * (-a) + b \in Nat /\ 2 * b \in Nat \ {0}
    BY <1>1
  <2>2. /\ (200 * (-a) + b) \div (2 * b) >= 51 <=> 200 * (-a) + b >= 51 * (2 * b)
        /\ (200 * (-a) + b) \div (2 * b) >= 71 <=> 200 * (-a) + b >= 71 * (2 * b)
    BY <2>1, DivAtLeast
  <2> DEFINE q == (200 * (-a) + b) \div (2 * b)
  <2>3. q \in Int
    BY <2>1
  <2>4. Ratio(a, b) = -q
    BY <1>1 DEF Ratio
  <2> HIDE DEF q
  <2>5. /\ q >= 51 <=> 200 * (-a) >= 101 * b
        /\ q >= 71 <=> 200 * (-a) >= 141 * b
    BY <2>2 DEF q
  <2> QED BY <2>3, <2>4, <2>5
<1>2. CASE a >= 0
  <2>1. 200 * a + b \in Nat /\ 2 * b \in Nat \ {0}
    BY <1>2
  <2> DEFINE q == (200 * a + b) \div (2 * b)
  <2>2. q >= 0 <=> 200 * a + b >= 0 * (2 * b)
    BY <2>1, DivAtLeast
  <2>3. q \in Int
    BY <2>1
  <2>4. Ratio(a, b) = q
    BY <1>2 DEF Ratio
  <2> HIDE DEF q
  <2> QED BY <1>2, <2>1, <2>2, <2>3, <2>4
<1> QED BY <1>1, <1>2

WordsCounted == words \in [Keywords -> Nat]

\* The number of words of every list, and what one more word makes of it.
LEMMA NumberGrows ==
  ASSUME WordsCounted, NEW k \in Keywords, WriteWord(k), NEW kinds
  PROVE  /\ Number(kinds) \in Nat
         /\ Number(kinds)' = IF k \in kinds THEN Number(kinds) + 1 ELSE Number(kinds)
<1>1. words' = [words EXCEPT ![k] = @ + 1]
  BY DEF WriteWord
<1>2. Keywords = {"negative", "positive", "crisis", "overwhelmed", "hopeless",
                  "depressed", "no_hope"}
  BY DEF Keywords, NegativeKeywords, PositiveKeywords, CrisisKeywords, ModerateKeywords
<1>3. \A j \in Keywords : /\ words[j] \in Nat
                          /\ words'[j] = IF j = k THEN words[j] + 1 ELSE words[j]
  BY <1>1 DEF WordsCounted
<1> DEFINE before(j) == IF j \in kinds THEN words[j] ELSE 0
           after(j) == IF j \in kinds THEN words'[j] ELSE 0
           more == IF k \in kinds THEN 1 ELSE 0
<1>4. /\ Number(kinds) = before("negative") + before("positive") + before("crisis")
                           + before("overwhelmed") + before("hopeless")
                           + before("depressed") + before("no_hope")
      /\ Number(kinds)' = after("negative") + after("positive") + after("crisis")
                            + after("overwhelmed") + after("hopeless")
                            + after("depressed") + after("no_hope")
  BY DEF Number
<1>5. /\ more \in Nat
      /\ \A j \in Keywords :
           /\ before(j) \in Nat
           /\ after(j) = before(j) + (IF j = k THEN more ELSE 0)
  BY <1>3
<1> HIDE DEF before, after
<1>6. Number(kinds) \in Nat /\ Number(kinds)' = Number(kinds) + more
  <2> HIDE DEF more
  <2> QED BY <1>2, <1>4, <1>5
<1> QED BY <1>6

\* The score as the levels look at it.
LEMMA ScoreBelow ==
  ASSUME NEW n \in Nat, NEW p \in Nat
  PROVE  LET score == Ratio(p - n, IF n + p = 0 THEN 1 ELSE n + p)
         IN /\ score < -50 <=> 200 * (n - p) >= 101 * (n + p) /\ n + p > 0
            /\ score < -70 <=> 200 * (n - p) >= 141 * (n + p) /\ n + p > 0
<1> DEFINE total == IF n + p = 0 THEN 1 ELSE n + p
<1>1. total \in Nat \ {0} /\ p - n \in Int
  OBVIOUS
<1>2. /\ Ratio(p - n, total) < -50 <=> 200 * (-(p - n)) >= 101 * total
      /\ Ratio(p - n, total) < -70 <=> 200 * (-(p - n)) >= 141 * total
  BY <1>1, RatioBelow
<1>3. -(p - n) = n - p
  OBVIOUS
<1>4. CASE n + p = 0
  <2>1. total = 1 /\ n - p = 0
    BY <1>4
  <2> QED BY <1>2, <1>3, <1>4, <2>1
<1>5. CASE n + p > 0
  <2>1. total = n + p
    BY <1>5
  <2> QED BY <1>2, <1>3, <1>5, <2>1
<1> QED BY <1>4, <1>5

LEMMA RanksOfLevels ==
  /\ RankOf("none") = 1 /\ RankOf("moderate") = 2
  /\ RankOf("high") = 3 /\ RankOf("immediate") = 4
<1>1. \A i \in 1 .. 4 : i \in {1, 2, 3, 4}
  OBVIOUS
<1>2. /\ Levels[1] = "none" /\ Levels[2] = "moderate"
      /\ Levels[3] = "high" /\ Levels[4] = "immediate"
  BY DEF Levels
<1> HIDE DEF Levels
<1> QED BY <1>1, <1>2 DEF RankOf

LEMMA WordOfDistress ==
  ASSUME WordsCounted, NEW k \in Keywords \ {"positive"}, WriteWord(k)
  PROVE  RankOf(Detect(Analyze)') >= RankOf(Detect(Analyze))
<1> DEFINE n == Number(NegativeKeywords)
           p == Number(PositiveKeywords)
           c == Number(CrisisKeywords)
           m == Number(ModerateKeywords)
           high(x, y) == 200 * (x - y) >= 101 * (x + y) /\ x + y > 0
           low(x, y) == 200 * (x - y) >= 141 * (x + y) /\ x + y > 0
<1>1. /\ n \in Nat /\ p \in Nat /\ c \in Nat /\ m \in Nat
      /\ n' = IF k \in NegativeKeywords THEN n + 1 ELSE n
      /\ p' = IF k \in PositiveKeywords THEN p + 1 ELSE p
      /\ c' = IF k \in CrisisKeywords THEN c + 1 ELSE c
      /\ m' = IF k \in ModerateKeywords THEN m + 1 ELSE m
  BY NumberGrows
<1>2. /\ Analyze.score = Ratio(p - n, IF n + p = 0 THEN 1 ELSE n + p)
      /\ Analyze.score' = Ratio(p' - n', IF n' + p' = 0 THEN 1 ELSE n' + p')
  BY DEF Analyze
<1>3. n' \in Nat /\ p' \in Nat /\ c' \in Nat /\ m' \in Nat
  BY <1>1
<1>4. /\ Analyze.score < -50 <=> high(n, p)
      /\ Analyze.score < -70 <=> low(n, p)
      /\ Analyze.score' < -50 <=> high(n', p')
      /\ Analyze.score' < -70 <=> low(n', p')
  <2>1. \A x, y \in Nat :
          LET score == Ratio(y - x, IF x + y = 0 THEN 1 ELSE x + y)
          IN (score < -50 <=> high(x, y)) /\ (score < -70 <=> low(x, y))
    BY ScoreBelow
  <2> DEFINE ratio(x, y) == Ratio(y - x, IF x + y = 0 THEN 1 ELSE x + y)
  <2>2. \A x, y \in Nat : /\ ratio(x, y) < -50 <=> high(x, y)
                          /\ ratio(x, y) < -70 <=> low(x, y)
    BY <2>1
  <2>3. Analyze.score = ratio(n, p) /\ Analyze.score' = ratio(n', p')
    BY <1>2
  <2> HIDE DEF n, p, high, low, ratio
  <2>4. /\ ratio(n, p) < -50 <=> high(n, p)
        /\ ratio(n, p) < -70 <=> low(n, p)
    BY <1>1, <2>2
  <2>5. /\ ratio(n', p') < -50 <=> high(n', p')
        /\ ratio(n', p') < -70 <=> low(n', p')
    BY <1>3, <2>2
  <2> QED BY <2>3, <2>4, <2>5
<1>5. /\ Detect(Analyze) = IF c > 0 THEN "immediate"
                           ELSE IF m > 0 /\ Analyze.score < -50 THEN "high"
                           ELSE IF Analyze.score < -70 THEN "moderate" ELSE "none"
      /\ Detect(Analyze)' = IF c' > 0 THEN "immediate"
                            ELSE IF m' > 0 /\ Analyze.score' < -50 THEN "high"
                            ELSE IF Analyze.score' < -70 THEN "moderate" ELSE "none"
  BY DEF Detect
<1>6. k \in PositiveKeywords => k \in CrisisKeywords
  BY DEF PositiveKeywords, CrisisKeywords
<1> HIDE DEF n, p, c, m
<1>7. c' > 0 \/ (/\ c' = c /\ m' >= m /\ p' = p /\ n' >= n)
  BY <1>1, <1>6
<1>8. p' = p /\ n' >= n /\ high(n, p) => high(n', p')
  BY <1>1, <1>3
<1>9. p' = p /\ n' >= n /\ low(n, p) => low(n', p')
  BY <1>1, <1>3
<1> HIDE DEF high, low
<1> QED BY <1>1, <1>3, <1>4, <1>5, <1>7, <1>8, <1>9, RanksOfLevels

\* Words of distress never make a text look safer, however many words it has of
\* each list, and a text with a crisis keyword gets the resources even when the
\* analysis of its sentiment fails (crisis-detector.ts, sentiment-analyzer.ts).
THEOREM DistressIsNeverHidden == GuidanceSpec => DistressNeverHides
<1>1. GuidanceInit => WordsCounted
  <2>1. GuidanceInit => words = [k \in Keywords |-> 0]
    BY DEF GuidanceInit
  <2> QED BY <2>1 DEF WordsCounted
<1>2. WordsCounted /\ [GuidanceNext]_guidanceVars => WordsCounted'
  <2> SUFFICES ASSUME WordsCounted, [GuidanceNext]_guidanceVars
               PROVE  WordsCounted'
    OBVIOUS
  <2>1. ASSUME NEW kind \in Keywords, WriteWord(kind)
        PROVE  WordsCounted'
    <3>1. words' = [words EXCEPT ![kind] = @ + 1]
      BY <2>1 DEF WriteWord
    <3> QED BY <3>1 DEF WordsCounted
  <2>2. CASE AnalyzeSentiment
    BY <2>2 DEF AnalyzeSentiment, WordsCounted
  <2>3. CASE UNCHANGED words
    BY <2>3 DEF WordsCounted
  <2> QED BY <2>1, <2>2, <2>3 DEF GuidanceNext, guidanceVars, ReadingRequest,
             Generate, CallLLM, ModelAnswers, ModelFails
<1>3. WordsCounted => \A k \in Keywords \ {"positive"} : WriteWord(k) =>
        RankOf(Detect(Analyze)') >= RankOf(Detect(Analyze))
  BY WordOfDistress
<1>4. AnalyzeSentiment /\ Number(CrisisKeywords) > 0 => resources'
  <2> SUFFICES ASSUME AnalyzeSentiment, Number(CrisisKeywords) > 0
               PROVE  resources'
    OBVIOUS
  <2>1. PICK sentiment \in {Analyze, [score |-> 0, label |-> "neutral",
                                      confidence |-> 50, crisis_level |-> "none"]} :
          analysis' = [sentiment EXCEPT !.crisis_level = Detect(sentiment)]
    BY DEF AnalyzeSentiment
  <2>2. Detect(sentiment) = "immediate"
    BY DEF Detect
  <2>3. PICK a, b, d, e : sentiment = [score |-> a, label |-> b, confidence |-> d,
                                       crisis_level |-> e]
    BY <2>1 DEF Analyze
  <2>4. analysis'.crisis_level = "immediate"
    BY ONLY <2>1, <2>2, <2>3
  <2>5. resources' = (analysis'.crisis_level \in {"high", "immediate"})
    BY DEF AnalyzeSentiment, ShouldShowResources
  <2> QED BY <2>4, <2>5
<1> QED BY <1>1, <1>2, <1>3, <1>4, PTL DEF GuidanceSpec, DistressNeverHides

\* The score is a rounded share of the words.
LEMMA RatioInHundred ==
  ASSUME NEW a \in Int, NEW b \in Nat \ {0}, -b <= a, a <= b
  PROVE  Ratio(a, b) \in -100 .. 100
<1> DEFINE n == IF a < 0 THEN 200 * (-a) + b ELSE 200 * a + b
           q == n \div (2 * b)
<1>1. n \in Nat /\ 2 * b \in Nat \ {0} /\ n < 101 * (2 * b) /\ q \in Int
  OBVIOUS
<1>2. Ratio(a, b) = IF a < 0 THEN -q ELSE q
  BY DEF Ratio
<1> HIDE DEF n
<1>3. q >= 0 /\ ~(q >= 101)
  <2>1. /\ q >= 0 <=> n >= 0 * (2 * b)
        /\ q >= 101 <=> n >= 101 * (2 * b)
    BY <1>1, DivAtLeast
  <2> HIDE DEF q
  <2> QED BY <1>1, <2>1
<1> HIDE DEF q
<1> QED BY <1>1, <1>2, <1>3

\* A text has as many keywords as the bound allows.
WordsBounded == words \in [Keywords -> 0 .. MaxWords]

LEMMA NumbersAreNat ==
  ASSUME WordsBounded, NEW kinds
  PROVE  /\ Number(kinds) \in Nat
         /\ \A k \in Keywords \intersect kinds : words[k] <= Number(kinds)
<1>1. Keywords = {"negative", "positive", "crisis", "overwhelmed", "hopeless",
                  "depressed", "no_hope"}
  BY DEF Keywords, NegativeKeywords, PositiveKeywords, CrisisKeywords, ModerateKeywords
<1>2. \A k \in Keywords : words[k] \in Nat
  BY GuidanceAssumption DEF WordsBounded, GuidanceAssumption
<1> DEFINE of(k) == IF k \in kinds THEN words[k] ELSE 0
<1>3. Number(kinds) = of("negative") + of("positive") + of("crisis")
                        + of("overwhelmed") + of("hopeless") + of("depressed")
                        + of("no_hope")
  BY DEF Number
<1>4. \A k \in Keywords : of(k) \in Nat /\ (k \in kinds => of(k) = words[k])
  BY <1>2
<1> HIDE DEF of
<1>5. Number(kinds) \in Nat /\ \A k \in Keywords : of(k) <= Number(kinds)
  BY <1>1, <1>3, <1>4
<1> QED BY <1>4, <1>5

\* What the analysis of a text finds.
LEMMA AnalysisFound ==
  ASSUME WordsBounded, NEW sentiment,
         sentiment \in {Analyze, [score |-> 0, label |-> "neutral",
                                  confidence |-> 50, crisis_level |-> "none"]}
  PROVE  [sentiment EXCEPT !.crisis_level = Detect(sentiment)] \in Analyses
<1> DEFINE n == Number(NegativeKeywords)
           p == Number(PositiveKeywords)
           total == IF n + p = 0 THEN 1 ELSE n + p
           sure == IF 50 + 20 * (n + p) > 95 THEN 95 ELSE 50 + 20 * (n + p)
           label == IF 10 * (p - n) < -3 * total THEN "negative"
                    ELSE IF 10 * (p - n) > 3 * total THEN "positive" ELSE "neutral"
           ratio == Ratio(p - n, total)
<1>1. n \in Nat /\ p \in Nat
  BY NumbersAreNat
<1>2. Analyze = [score |-> ratio, label |-> label, confidence |-> sure,
                 crisis_level |-> "none"]
  BY DEF Analyze
<1>3. label \in {"negative", "neutral", "positive"}
  OBVIOUS
<1> HIDE DEF n, p, label
<1>4. /\ total \in Nat \ {0} /\ p - n \in Int /\ -total <= p - n /\ p - n <= total
      /\ sure \in 50 .. 95
  BY <1>1
<1> HIDE DEF total, sure
<1>5. ratio \in -100 .. 100
  BY <1>4, RatioInHundred
<1> HIDE DEF ratio
<1> DEFINE Found(a, b, c) ==
             [score |-> a, label |-> b, confidence |-> c, crisis_level |-> "none"]
           Right(a, b, c) == /\ a \in -100 .. 100
                             /\ b \in {"negative", "neutral", "positive"}
                             /\ c \in 50 .. 95
<1>6. PICK a, b, c : Right(a, b, c) /\ sentiment = Found(a, b, c)
  <2>1. Right(ratio, label, sure) /\ Right(0, "neutral", 50)
    BY <1>3, <1>4, <1>5
  <2>2. sentiment = Found(ratio, label, sure) \/ sentiment = Found(0, "neutral", 50)
    BY <1>2
  <2> HIDE DEF Right, Found
  <2> QED BY <2>1, <2>2
<1>7. Detect(sentiment) \in {"none", "moderate", "high", "immediate"}
  BY DEF Detect
<1>8. {Levels[i] : i \in 1 .. 4} = {"none", "moderate", "high", "immediate"}
  <2>1. /\ Levels[1] = "none" /\ Levels[2] = "moderate"
        /\ Levels[3] = "high" /\ Levels[4] = "immediate"
    BY DEF Levels
  <2>2. \A i \in 1 .. 4 : i \in {1, 2, 3, 4}
    OBVIOUS
  <2> HIDE DEF Levels
  <2> QED BY <2>1, <2>2
<1>9. [sentiment EXCEPT !.crisis_level = Detect(sentiment)] =
        [score |-> a, label |-> b, confidence |-> c, crisis_level |-> Detect(sentiment)]
  BY ONLY <1>6
<1> QED BY ONLY <1>6, <1>7, <1>8, <1>9 DEF Analyses

\* The variables of the interpretation have their types, for any bound on the words.
LEMMA GuidanceTypeCorrect == GuidanceSpec => []GuidanceTypeOK
<1>1. GuidanceInit => GuidanceTypeOK
  <2> SUFFICES ASSUME GuidanceInit PROVE GuidanceTypeOK
    OBVIOUS
  <2>1. 0 \in 0 .. MaxWords
    BY GuidanceAssumption DEF GuidanceAssumption
  <2>2. words \in [Keywords -> 0 .. MaxWords]
    BY <2>1 DEF GuidanceInit
  <2> QED BY <2>2 DEF GuidanceInit, GuidanceTypeOK
<1>2. GuidanceTypeOK /\ [GuidanceNext]_guidanceVars => GuidanceTypeOK'
  <2> SUFFICES ASSUME GuidanceTypeOK, [GuidanceNext]_guidanceVars
               PROVE  GuidanceTypeOK'
    OBVIOUS
  <2>1. WordsBounded
    BY DEF GuidanceTypeOK, WordsBounded
  <2>2. Complete \in Interpretations
    BY DEF Complete, Interpretations
  <2>3. ASSUME NEW kind \in Keywords, WriteWord(kind)
        PROVE  GuidanceTypeOK'
    <3>1. Number(Keywords) \in Nat /\ words[kind] <= Number(Keywords)
      BY <2>1, NumbersAreNat
    <3>2. words[kind] \in Nat /\ MaxWords \in Nat /\ Number(Keywords) < MaxWords
      <4>1. words[kind] \in 0 .. MaxWords
        BY <2>1 DEF WordsBounded
      <4>2. Number(Keywords) < MaxWords
        BY <2>3 DEF WriteWord
      <4> QED BY <4>1, <4>2, GuidanceAssumption DEF GuidanceAssumption
    <3>3. words[kind] + 1 \in 0 .. MaxWords
      BY ONLY <3>1, <3>2
    <3> QED BY <2>3, <3>3 DEF WriteWord, GuidanceTypeOK
  <2>4. CASE AnalyzeSentiment
    <3>1. analysis' \in Analyses
      BY <2>1, <2>4, AnalysisFound DEF AnalyzeSentiment
    <3>2. resources' \in BOOLEAN
      BY <2>4 DEF AnalyzeSentiment, ShouldShowResources
    <3>3. words' \in [Keywords -> 0 .. MaxWords]
      BY <2>4, GuidanceAssumption DEF AnalyzeSentiment, GuidanceAssumption
    <3> QED BY <2>4, <3>1, <3>2, <3>3 DEF AnalyzeSentiment, GuidanceTypeOK
  <2>5. CASE ReadingRequest
    BY <2>5 DEF ReadingRequest, GuidanceTypeOK
  <2>6. CASE Generate
    BY <2>2, <2>6 DEF Generate, AnswerReading, MockInterpretation, GuidanceTypeOK
  <2>7. CASE CallLLM
    BY <2>2, <2>7 DEF CallLLM, AnswerReading, FallbackInterpretation, BuildPrompt,
                      GuidanceTypeOK
  <2>8. CASE ModelAnswers
    <3>1. reply' # NoJson => reply' \in Interpretations
      BY <2>8 DEF ModelAnswers
    <3> QED BY <2>2, <2>8, <3>1 DEF ModelAnswers, Valid, AnswerReading,
                                 FallbackInterpretation, GuidanceTypeOK
  <2>9. CASE ModelFails
    BY <2>2, <2>9 DEF ModelFails, AnswerReading, FallbackInterpretation, GuidanceTypeOK
  <2>10. CASE UNCHANGED guidanceVars
    BY <2>10 DEF guidanceVars, GuidanceTypeOK
  <2> QED BY <2>3, <2>4, <2>5, <2>6, <2>7, <2>8, <2>9, <2>10 DEF GuidanceNext
<1> QED BY <1>1, <1>2, PTL DEF GuidanceSpec

-----------------------------------------------------------------------------
(***************************************************************************)
(* The seeds: what the places of the processes say of a table that is      *)
(* filled row by row.                                                      *)
(***************************************************************************)

Places == [Seeders -> Scripts \union {Ready, Ended}]

\* Process p is inserting rows, or has had its turn at the script.
Inserting(sd, p, seed) == sd[p].at = seed /\ sd[p].step = "insert"
Past(sd, p, seed) ==
  sd[p].at \in CASE seed = "cards" -> {"spreads", "plans", "ended"}
                 [] seed = "spreads" -> {"plans", "ended"}
                 [] seed = "plans" -> {"ended"}

\* The scripts that fill a table from a list.
Fills(seed, list) ==
  \/ seed = "spreads" /\ list = SPREADS
  \/ seed = "plans" /\ list = PLANS

\* A table with a row has them all or is being filled, one row after the other;
\* and whoever has had his turn has left a row.
FilledOrFilling(sd, seed, table, list) ==
  /\ \A p \in Seeders : Inserting(sd, p, seed) =>
       \A i \in 1 .. sd[p].row - 1 : table[list[i]] > 0
  /\ (\E row \in RowsOf(list) : table[row] > 0) =>
       \/ \A row \in RowsOf(list) : table[row] > 0
       \/ \E p \in Seeders : Inserting(sd, p, seed)
  /\ \A p \in Seeders : Past(sd, p, seed) =>
       \E row \in RowsOf(list) : table[row] > 0

\* No row is there twice, and those that are still to come not at all.
FilledSingly(sd, seed, table, list) ==
  /\ \A row \in RowsOf(list) : table[row] <= 1
  /\ \A p \in Seeders : Inserting(sd, p, seed) =>
       \A i \in sd[p].row .. Len(list) : table[list[i]] = 0

\* The lists name a row once.
LEMMA ListRows ==
  ASSUME NEW seed, NEW list, Fills(seed, list)
  PROVE  /\ Len(list) \in {3, 4} /\ DOMAIN list = 1 .. Len(list)
         /\ \A i, j \in 1 .. Len(list) : list[i] = list[j] => i = j
         /\ \A i \in 1 .. Len(list) : list[i] \in RowsOf(list)
         /\ \A row \in RowsOf(list) : \E i \in 1 .. Len(list) : row = list[i]
<1>1. CASE list = SPREADS
  BY <1>1 DEF SPREADS, RowsOf
<1>2. CASE list = PLANS
  BY <1>2 DEF PLANS, RowsOf
<1> QED BY <1>1, <1>2 DEF Fills

\* A process that is at another script, before or after this one, or that found
\* rows in the table, changes nothing of this.
LEMMA ElsewhereFilled ==
  ASSUME NEW seed, NEW list, Fills(seed, list),
         NEW sd \in Places, NEW p \in Seeders, NEW there,
         NEW table, NEW sd2, sd2 = [sd EXCEPT ![p] = there],
         ~Inserting(sd, p, seed), ~Inserting(sd2, p, seed),
         Past(sd2, p, seed) =>
           Past(sd, p, seed) \/ \E row \in RowsOf(list) : table[row] > 0
  PROVE  /\ FilledOrFilling(sd, seed, table, list) =>
              FilledOrFilling(sd2, seed, table, list)
         /\ FilledSingly(sd, seed, table, list) =>
              FilledSingly(sd2, seed, table, list)
<1>1. \A q \in Seeders \ {p} : sd2[q] = sd[q]
  BY DEF Places
<1>2. \A q \in Seeders : Inserting(sd2, q, seed) <=> Inserting(sd, q, seed)
  BY <1>1 DEF Inserting
<1>3. \A q \in Seeders : Inserting(sd2, q, seed) => sd2[q] = sd[q]
  BY <1>1
<1>4. \A q \in Seeders \ {p} : Past(sd2, q, seed) <=> Past(sd, q, seed)
  BY <1>1 DEF Past
<1>5. FilledOrFilling(sd, seed, table, list) =>
        FilledOrFilling(sd2, seed, table, list)
  BY <1>2, <1>3, <1>4 DEF FilledOrFilling
<1>6. FilledSingly(sd, seed, table, list) => FilledSingly(sd2, seed, table, list)
  BY <1>2, <1>3 DEF FilledSingly
<1> QED BY <1>5, <1>6

\* A process that stops in the middle leaves no row twice.
LEMMA StoppedSingly ==
  ASSUME NEW seed, NEW list, NEW table, NEW sd \in Places, NEW p \in Seeders,
         NEW sd2, sd2 = [sd EXCEPT ![p] = Ended], Fills(seed, list),
         FilledSingly(sd, seed, table, list)
  PROVE  FilledSingly(sd2, seed, table, list)
<1>1. \A q \in Seeders : Inserting(sd2, q, seed) =>
        sd2[q] = sd[q] /\ Inserting(sd, q, seed)
  BY DEF Places, Inserting, Ended, Fills
<1> QED BY <1>1 DEF FilledSingly

\* A process that has found no row begins with the first.
LEMMA FillingBegins ==
  ASSUME NEW seed, NEW list, Fills(seed, list),
         NEW sd \in Places, NEW p \in Seeders, NEW there,
         NEW table, NEW sd2, sd2 = [sd EXCEPT ![p] = there],
         there.at = seed, there.step = "insert", there.row = 1,
         ~Inserting(sd, p, seed),
         \A row \in RowsOf(list) : table[row] = 0
  PROVE  /\ FilledOrFilling(sd, seed, table, list) =>
              FilledOrFilling(sd2, seed, table, list)
         /\ FilledSingly(sd, seed, table, list) =>
              FilledSingly(sd2, seed, table, list)
<1>1. sd2[p] = there /\ \A q \in Seeders \ {p} : sd2[q] = sd[q]
  BY DEF Places
<1>2. \A q \in Seeders \ {p} : Inserting(sd2, q, seed) <=> Inserting(sd, q, seed)
  BY <1>1 DEF Inserting
<1>3. ~Past(sd2, p, seed)
  BY <1>1 DEF Past, Fills
<1>4. \A q \in Seeders \ {p} : Past(sd2, q, seed) <=> Past(sd, q, seed)
  BY <1>1 DEF Past
<1>5. FilledOrFilling(sd, seed, table, list) =>
        FilledOrFilling(sd2, seed, table, list)
  <2> SUFFICES ASSUME FilledOrFilling(sd, seed, table, list)
               PROVE  FilledOrFilling(sd2, seed, table, list)
    OBVIOUS
  <2>1. ASSUME NEW q \in Seeders, Inserting(sd2, q, seed),
               NEW i \in 1 .. sd2[q].row - 1
        PROVE  table[list[i]] > 0
    <3>1. q # p
      BY <1>1, <2>1
    <3> QED BY <1>1, <1>2, <2>1, <3>1 DEF FilledOrFilling
  <2>2. ASSUME NEW q \in Seeders, Past(sd2, q, seed)
        PROVE  \E row \in RowsOf(list) : table[row] > 0
    BY <1>3, <1>4, <2>2 DEF FilledOrFilling
  <2>3. ~\E row \in RowsOf(list) : table[row] > 0
    OBVIOUS
  <2> QED BY <2>1, <2>2, <2>3 DEF FilledOrFilling
<1>6. FilledSingly(sd, seed, table, list) => FilledSingly(sd2, seed, table, list)
  <2>1. Len(list) \in Nat /\ \A i \in 1 .. Len(list) : list[i] \in RowsOf(list)
    BY ListRows
  <2> SUFFICES ASSUME FilledSingly(sd, seed, table, list),
                      NEW q \in Seeders, Inserting(sd2, q, seed),
                      NEW i \in sd2[q].row .. Len(list)
               PROVE  table[list[i]] = 0
    BY DEF FilledSingly
  <2>2. CASE q = p
    BY <1>1, <2>1, <2>2
  <2>3. CASE q # p
    BY <1>1, <1>2, <2>3 DEF FilledSingly
  <2> QED BY <2>2, <2>3
<1> QED BY <1>5, <1>6

\* A row is inserted: the process goes on to the next, or has had its turn.
LEMMA RowInserted ==
  ASSUME NEW seed, NEW list, Fills(seed, list),
         NEW sd \in Places, NEW p \in Seeders,
         NEW table \in [RowsOf(list) -> Nat],
         NEW sd2, \A q \in Seeders \ {p} : sd2[q] = sd[q],
         Inserting(sd, p, seed),
         \A q \in Seeders : Inserting(sd, q, seed) => sd[q].row \in 1 .. Len(list),
         NEW table2, table2 = Inserted(table, list[sd[p].row]),
         \/ sd[p].row = Len(list) /\ ~Inserting(sd2, p, seed)
         \/ sd[p].row < Len(list) /\ sd2[p] = [sd[p] EXCEPT !.row = @ + 1],
         sd[p] \in Scripts
  PROVE  /\ table2 \in [RowsOf(list) -> Nat]
         /\ FilledOrFilling(sd, seed, table, list) =>
              FilledOrFilling(sd2, seed, table2, list)
         /\ FilledSingly(sd, seed, table, list) /\
              (\A q \in Seeders : Inserting(sd, q, seed) => q = p) =>
              FilledSingly(sd2, seed, table2, list)
<1> DEFINE r == sd[p].row
           row == list[r]
<1>1. /\ Len(list) \in {3, 4} /\ r \in 1 .. Len(list)
      /\ \A i, j \in 1 .. Len(list) : list[i] = list[j] => i = j
      /\ \A i \in 1 .. Len(list) : list[i] \in RowsOf(list)
      /\ \A v \in RowsOf(list) : \E i \in 1 .. Len(list) : v = list[i]
  BY ListRows
<1>2. row \in RowsOf(list) /\ row = list[r]
  BY <1>1
<1>3. /\ table2 \in [RowsOf(list) -> Nat]
      /\ table2[row] = table[row] + 1
      /\ \A v \in RowsOf(list) : v # row => table2[v] = table[v]
      /\ \A v \in RowsOf(list) : table[v] \in Nat /\ table2[v] \in Nat
  BY <1>2 DEF Inserted
<1>4. \A v \in RowsOf(list) : table[v] > 0 => table2[v] > 0
  BY <1>2, <1>3
<1>5. \A q \in Seeders \ {p} : sd2[q] = sd[q]
  OBVIOUS
<1>6. \A q \in Seeders \ {p} :
        /\ Inserting(sd2, q, seed) <=> Inserting(sd, q, seed)
        /\ Past(sd2, q, seed) <=> Past(sd, q, seed)
  BY <1>5 DEF Inserting, Past
<1>7. Inserting(sd2, p, seed) => r < Len(list) /\ sd2[p].row = r + 1
  <2>1. ASSUME r < Len(list), sd2[p] = [sd[p] EXCEPT !.row = @ + 1]
        PROVE  sd2[p].row = r + 1
    BY <2>1 DEF Scripts
  <2> QED BY <2>1
<1> HIDE DEF r, row
<1>8. r < Len(list) => Inserting(sd2, p, seed)
  <2>1. ASSUME sd2[p] = [sd[p] EXCEPT !.row = @ + 1]
        PROVE  sd2[p].at = seed /\ sd2[p].step = "insert"
    BY <2>1 DEF Inserting, Scripts
  <2> QED BY <1>1, <2>1 DEF Inserting, r
<1>9. ASSUME FilledOrFilling(sd, seed, table, list)
      PROVE  FilledOrFilling(sd2, seed, table2, list)
  <2>1. ASSUME NEW q \in Seeders, Inserting(sd2, q, seed),
               NEW i \in 1 .. sd2[q].row - 1, i \in 1 .. Len(list)
        PROVE  table2[list[i]] > 0
    <3>1. CASE q = p
      <4>1. i \in 1 .. r
        BY <1>1, <1>7, <2>1, <3>1
      <4>2. CASE i = r
        BY <1>2, <1>3, <4>2
      <4>3. CASE i # r
        <5>1. i \in 1 .. r - 1
          BY <1>1, <4>1, <4>3
        <5>2. table[list[i]] > 0
          BY <1>9, <5>1 DEF FilledOrFilling, r
        <5> QED BY <1>1, <1>4, <2>1, <5>2
      <4> QED BY <4>2, <4>3
    <3>2. CASE q # p
      <4>1. table[list[i]] > 0
        BY <1>5, <1>6, <1>9, <2>1, <3>2 DEF FilledOrFilling
      <4> QED BY <1>1, <1>4, <2>1, <4>1
    <3> QED BY <3>1, <3>2
  <2>2. ASSUME r = Len(list)
        PROVE  \A v \in RowsOf(list) : table2[v] > 0
    <3> SUFFICES ASSUME NEW i \in 1 .. Len(list)
                 PROVE  table2[list[i]] > 0
      BY <1>1
    <3>1. CASE i = r
      BY <1>2, <1>3, <3>1
    <3>2. CASE i # r
      <4>1. i \in 1 .. r - 1
        BY <1>1, <2>2, <3>2
      <4>2. table[list[i]] > 0
        BY <1>9, <4>1 DEF FilledOrFilling, r
      <4> QED BY <1>1, <1>4, <4>2
    <3> QED BY <3>1, <3>2
  <2>3. \/ \A v \in RowsOf(list) : table2[v] > 0
        \/ \E q \in Seeders : Inserting(sd2, q, seed)
    BY <1>1, <1>8, <2>2
  <2>4. \E v \in RowsOf(list) : table2[v] > 0
    BY <1>2, <1>3
  <2>5. ASSUME NEW q \in Seeders, Inserting(sd2, q, seed)
        PROVE  \A i \in 1 .. sd2[q].row - 1 : i \in 1 .. Len(list)
    <3>1. CASE q = p
      BY <1>1, <1>7, <2>5, <3>1
    <3>2. CASE q # p
      <4>1. sd2[q].row \in 1 .. Len(list)
        BY <1>5, <1>6, <2>5, <3>2
      <4> QED BY <1>1, <4>1
    <3> QED BY <3>1, <3>2
  <2> QED BY <2>1, <2>3, <2>4, <2>5 DEF FilledOrFilling
<1>10. ASSUME FilledSingly(sd, seed, table, list),
              \A q \in Seeders : Inserting(sd, q, seed) => q = p
       PROVE  FilledSingly(sd2, seed, table2, list)
  <2>1. table[row] = 0
    BY <1>1, <1>2, <1>10 DEF FilledSingly, r
  <2>2. \A v \in RowsOf(list) : table2[v] <= 1
    BY <1>3, <1>10, <2>1 DEF FilledSingly
  <2>3. ASSUME NEW q \in Seeders, Inserting(sd2, q, seed),
               NEW i \in sd2[q].row .. Len(list)
        PROVE  table2[list[i]] = 0
    <3>1. q = p
      BY <1>6, <1>10, <2>3
    <3>2. i \in r + 1 .. Len(list) /\ list[i] # row /\ i \in 1 .. Len(list)
      BY <1>1, <1>2, <1>7, <2>3, <3>1
    <3>3. table[list[i]] = 0
      BY <1>1, <1>10, <3>2 DEF FilledSingly, r
    <3> QED BY <1>1, <1>3, <3>2, <3>3
  <2> QED BY <2>2, <2>3 DEF FilledSingly
<1> QED BY <1>3, <1>9, <1>10

SeedTypes ==
  /\ cards \in Nat
  /\ spreads \in [RowsOf(SPREADS) -> Nat] /\ plans \in [RowsOf(PLANS) -> Nat]
  /\ seeder \in Places
  /\ cut \in BOOLEAN /\ overlapped \in BOOLEAN

\* A process counts before its first row, and inserts no row beyond its list.
RowsInList(sd) ==
  \A p \in Seeders : sd[p] \in Scripts =>
    /\ sd[p].step = "count" => sd[p].row = 1
    /\ sd[p].at = "plans" => sd[p].row <= Len(PLANS)

\* Until two have met, a script has one process at most.
OneEach(sd) ==
  \A p, q \in Seeders :
    sd[p].at = sd[q].at /\ sd[p].at \in {"cards", "spreads", "plans"} => p = q

\* Until a process was stopped, the tables are whole or being filled.
WholeInv ==
  ~cut =>
    /\ \A p \in Seeders : Past(seeder, p, "cards") => cards > 0
    /\ FilledOrFilling(seeder, "spreads", spreads, SPREADS)
    /\ FilledOrFilling(seeder, "plans", plans, PLANS)

\* Until two have met at a script, nothing is there twice.
SingleInv ==
  ~overlapped =>
    /\ OneEach(seeder)
    /\ cards <= 1 /\ \A p \in Seeders : Inserting(seeder, p, "cards") => cards = 0
    /\ FilledSingly(seeder, "spreads", spreads, SPREADS)
    /\ FilledSingly(seeder, "plans", plans, PLANS)

TablesInv == SeedTypes /\ RowsInList(seeder) /\ WholeInv /\ SingleInv

LEMMA PlaceFields ==
  ASSUME seeder \in Places, NEW p \in Seeders
  PROVE  /\ seeder[p] \in Scripts \/ seeder[p] = Ready \/ seeder[p] = Ended
         /\ seeder[p] \in Scripts <=> seeder[p].at \in {"cards", "spreads", "plans"}
         /\ seeder[p] \in Scripts => /\ seeder[p].row \in 1 .. 4
                                     /\ seeder[p].step \in {"count", "insert"}
         /\ seeder[p] = Ready <=> seeder[p].at = "ready"
         /\ seeder[p] = Ended <=> seeder[p].at = "ended"
<1>1. seeder[p] \in Scripts \union {Ready, Ended}
  BY DEF Places
<1>2. Len(SPREADS) = 4
  BY DEF SPREADS
<1>3. CASE seeder[p] \in Scripts
  BY <1>2, <1>3 DEF Scripts, Ready, Ended
<1>4. CASE seeder[p] = Ready
  BY <1>4 DEF Scripts, Ready, Ended
<1>5. CASE seeder[p] = Ended
  BY <1>5 DEF Scripts, Ready, Ended
<1> QED BY <1>1, <1>3, <1>4, <1>5

\* The places a process goes to.
LEMMA WhereToGo ==
  /\ \A seed \in {"cards", "spreads", "plans"} :
       /\ Script(seed) \in Scripts
       /\ Script(seed).at = seed /\ Script(seed).step = "count"
       /\ Script(seed).row = 1
  /\ After("cards") = Script("spreads") /\ After("spreads") = Script("plans")
  /\ After("plans") = Ended /\ Ended.at = "ended" /\ Ended \notin Scripts
<1>1. Len(SPREADS) = 4
  BY DEF SPREADS
<1> QED BY <1>1 DEF Script, Scripts, After, Ended

\* A process that goes on leaves the others where they are, and meets whoever is
\* at the script it goes to.
LEMMA ProcessGoes ==
  ASSUME SeedTypes, RowsInList(seeder), NEW p \in Seeders,
         NEW there \in Scripts \union {Ended}, Goes(p, there),
         there \in Scripts =>
           /\ there.step = "count" => there.row = 1
           /\ there.at = "plans" => there.row <= Len(PLANS)
  PROVE  /\ seeder' = [seeder EXCEPT ![p] = there] /\ seeder' \in Places
         /\ seeder'[p] = there /\ \A q \in Seeders \ {p} : seeder'[q] = seeder[q]
         /\ RowsInList(seeder')
         /\ cut' = cut /\ overlapped' \in BOOLEAN
         /\ ~overlapped' => ~overlapped
         /\ ~overlapped' /\ OneEach(seeder) => OneEach(seeder')
<1> DEFINE met == \E q \in Seeders \ {p} : there # Ended /\ seeder[q].at = there.at
<1>1. /\ seeder' = [seeder EXCEPT ![p] = there] /\ cut' = cut
      /\ overlapped' = (overlapped \/ met)
  BY DEF Goes
<1>2. /\ seeder' \in Places /\ seeder'[p] = there
      /\ \A q \in Seeders \ {p} : seeder'[q] = seeder[q]
  BY <1>1 DEF SeedTypes, Places
<1>3. ASSUME ~overlapped', OneEach(seeder)
      PROVE  OneEach(seeder')
  <2>1. ~met
    BY <1>1, <1>3
  <2>2. there # Ended => \A q \in Seeders \ {p} : seeder[q].at # there.at
    BY <2>1
  <2>3. there = Ended => there.at = "ended"
    BY WhereToGo
  <2> QED BY <1>2, <1>3, <2>2, <2>3 DEF OneEach
<1> HIDE DEF met
<1>4. overlapped' \in BOOLEAN /\ (~overlapped' => ~overlapped)
  <2>1. CASE overlapped \/ met
    BY <1>1, <2>1
  <2>2. CASE ~(overlapped \/ met)
    BY <1>1, <2>2
  <2> QED BY <2>1, <2>2
<1>5. RowsInList(seeder')
  BY <1>2, WhereToGo DEF RowsInList
<1> QED BY <1>1, <1>2, <1>3, <1>4, <1>5

\* What is left to show of a step of a process: what it does to each table.
LEMMA TablesFollow ==
  ASSUME TablesInv, NEW p \in Seeders, NEW there \in Scripts \union {Ended},
         Goes(p, there),
         there \in Scripts =>
           /\ there.step = "count" => there.row = 1
           /\ there.at = "plans" => there.row <= Len(PLANS),
         cards' \in {cards, cards + 1},
         spreads' \in [RowsOf(SPREADS) -> Nat], plans' \in [RowsOf(PLANS) -> Nat],
         ~cut /\ Past(seeder', p, "cards") => cards' > 0,
         ~overlapped /\ OneEach(seeder) => cards' <= 1,
         ~overlapped /\ OneEach(seeder) =>
           \A q \in Seeders : Inserting(seeder', q, "cards") => cards' = 0,
         FilledOrFilling(seeder, "spreads", spreads, SPREADS) =>
           FilledOrFilling(seeder', "spreads", spreads', SPREADS),
         FilledOrFilling(seeder, "plans", plans, PLANS) =>
           FilledOrFilling(seeder', "plans", plans', PLANS),
         OneEach(seeder) /\ FilledSingly(seeder, "spreads", spreads, SPREADS) =>
           FilledSingly(seeder', "spreads", spreads', SPREADS),
         OneEach(seeder) /\ FilledSingly(seeder, "plans", plans, PLANS) =>
           FilledSingly(seeder', "plans", plans', PLANS)
  PROVE  TablesInv'
<1>1. SeedTypes /\ RowsInList(seeder)
  BY DEF TablesInv
<1>2. /\ seeder' \in Places
      /\ seeder'[p] = there /\ \A q \in Seeders \ {p} : seeder'[q] = seeder[q]
      /\ RowsInList(seeder')
      /\ cut' = cut /\ overlapped' \in BOOLEAN
      /\ ~overlapped' => ~overlapped
      /\ ~overlapped' /\ OneEach(seeder) => OneEach(seeder')
  BY <1>1, ProcessGoes
<1>3. SeedTypes'
  BY <1>1, <1>2 DEF SeedTypes
<1>4. WholeInv'
  <2> SUFFICES ASSUME ~cut'
               PROVE  /\ \A q \in Seeders : Past(seeder', q, "cards") => cards' > 0
                      /\ FilledOrFilling(seeder', "spreads", spreads', SPREADS)
                      /\ FilledOrFilling(seeder', "plans", plans', PLANS)
    BY DEF WholeInv
  <2>1. ~cut
    BY <1>2
  <2>2. ASSUME NEW q \in Seeders \ {p}, Past(seeder', q, "cards")
        PROVE  cards' > 0
    <3>1. Past(seeder, q, "cards")
      BY <1>2, <2>2 DEF Past
    <3>2. cards > 0
      BY <2>1, <3>1 DEF TablesInv, WholeInv
    <3> QED BY <1>1, <3>2 DEF SeedTypes
  <2> QED BY <2>1, <2>2 DEF TablesInv, WholeInv
<1>5. SingleInv'
  BY <1>2 DEF TablesInv, SingleInv
<1> QED BY <1>2, <1>3, <1>4, <1>5 DEF TablesInv

\* A process that is at neither table of rows leaves both as they are.
LEMMA SeedAllKeeps ==
  ASSUME TablesInv, NEW p \in Seeders, SeedAll(p)
  PROVE  TablesInv'
<1> DEFINE there == Script("cards")
<1>1. SeedTypes /\ RowsInList(seeder) /\ seeder \in Places
  BY DEF TablesInv, SeedTypes
<1>2. /\ there \in Scripts /\ there.at = "cards" /\ there.step = "count"
      /\ there.row = 1
  BY WhereToGo
<1>3. Goes(p, there) /\ cards' = cards /\ spreads' = spreads /\ plans' = plans
  BY DEF SeedAll
<1>4. seeder[p].at = "ready"
  BY DEF SeedAll, Ready
<1> HIDE DEF there
<1>5. /\ seeder' = [seeder EXCEPT ![p] = there]
      /\ seeder'[p] = there /\ \A q \in Seeders \ {p} : seeder'[q] = seeder[q]
  BY <1>1, <1>2, <1>3, ProcessGoes
<1>6. \A seed \in {"cards", "spreads", "plans"} :
        ~Inserting(seeder, p, seed) /\ ~Inserting(seeder', p, seed)
  BY <1>2, <1>4, <1>5 DEF Inserting
<1>7. ~Past(seeder', p, "cards") /\ ~Past(seeder', p, "spreads")
      /\ ~Past(seeder', p, "plans")
  BY <1>2, <1>5 DEF Past
<1>8. /\ FilledOrFilling(seeder, "spreads", spreads, SPREADS) =>
           FilledOrFilling(seeder', "spreads", spreads, SPREADS)
      /\ FilledSingly(seeder, "spreads", spreads, SPREADS) =>
           FilledSingly(seeder', "spreads", spreads, SPREADS)
  BY <1>1, <1>5, <1>6, <1>7, ElsewhereFilled DEF Fills
<1>9. /\ FilledOrFilling(seeder, "plans", plans, PLANS) =>
           FilledOrFilling(seeder', "plans", plans, PLANS)
      /\ FilledSingly(seeder, "plans", plans, PLANS) =>
           FilledSingly(seeder', "plans", plans, PLANS)
  BY <1>1, <1>5, <1>6, <1>7, ElsewhereFilled DEF Fills
<1>10. ~overlapped /\ OneEach(seeder) =>
         /\ cards' <= 1
         /\ \A q \in Seeders : Inserting(seeder', q, "cards") => cards' = 0
  <2>1. \A q \in Seeders : Inserting(seeder', q, "cards") =>
          Inserting(seeder, q, "cards")
    BY <1>5, <1>6 DEF Inserting
  <2> QED BY <1>3, <2>1 DEF TablesInv, SingleInv
<1>11. cards' \in {cards, cards + 1} /\ spreads' \in [RowsOf(SPREADS) -> Nat]
       /\ plans' \in [RowsOf(PLANS) -> Nat]
  BY <1>1, <1>3 DEF SeedTypes
<1> QED BY <1>2, <1>3, <1>7, <1>8, <1>9, <1>10, <1>11, TablesFollow

LEMMA SeedCardsKeeps ==
  ASSUME TablesInv, NEW p \in Seeders, SeedCards(p)
  PROVE  TablesInv'
<1>1. /\ SeedTypes /\ RowsInList(seeder) /\ seeder \in Places
      /\ cards \in Nat /\ spreads' = spreads /\ plans' = plans
  BY DEF TablesInv, SeedTypes, SeedCards
<1>2. seeder[p].at = "cards" /\ seeder[p] \in Scripts
      /\ seeder[p].step \in {"count", "insert"}
  BY <1>1, PlaceFields DEF SeedCards, At
<1> DEFINE further == [seeder[p] EXCEPT !.step = "insert"]
           next == Script("spreads")
<1>3. next \in Scripts /\ next.at = "spreads" /\ next.step = "count" /\ next.row = 1
      /\ After("cards") = next
  BY WhereToGo
<1>4. further \in Scripts /\ further.at = "cards" /\ further.step = "insert"
  BY <1>2 DEF Scripts
<1> HIDE DEF further, next
<1>5. PICK there \in {further, next} :
        /\ Goes(p, there)
        /\ \/ /\ seeder[p].step = "count" /\ cards' = cards
              /\ there = IF cards > 0 THEN next ELSE further
           \/ seeder[p].step = "insert" /\ there = next /\ cards' = cards + 1
  BY <1>3 DEF SeedCards, At, further
<1>6. there \in Scripts /\ there.at \in {"cards", "spreads"}
      /\ (there.step = "count" => there.row = 1)
  BY <1>3, <1>4
<1>7. /\ seeder' = [seeder EXCEPT ![p] = there]
      /\ seeder'[p] = there /\ \A q \in Seeders \ {p} : seeder'[q] = seeder[q]
  BY <1>1, <1>5, <1>6, ProcessGoes
<1>8. \A seed \in {"spreads", "plans"} :
        /\ ~Inserting(seeder, p, seed) /\ ~Inserting(seeder', p, seed)
        /\ ~Past(seeder', p, seed)
  BY <1>2, <1>3, <1>4, <1>7 DEF Inserting, Past
<1>9. /\ FilledOrFilling(seeder, "spreads", spreads, SPREADS) =>
           FilledOrFilling(seeder', "spreads", spreads, SPREADS)
      /\ FilledSingly(seeder, "spreads", spreads, SPREADS) =>
           FilledSingly(seeder', "spreads", spreads, SPREADS)
  BY <1>1, <1>7, <1>8, ElsewhereFilled DEF Fills
<1>10. /\ FilledOrFilling(seeder, "plans", plans, PLANS) =>
            FilledOrFilling(seeder', "plans", plans, PLANS)
       /\ FilledSingly(seeder, "plans", plans, PLANS) =>
            FilledSingly(seeder', "plans", plans, PLANS)
  BY <1>1, <1>7, <1>8, ElsewhereFilled DEF Fills
<1>11. Past(seeder', p, "cards") => cards' > 0
  <2>1. there = next => cards' > 0
    BY <1>1, <1>3, <1>4, <1>5
  <2> QED BY <1>4, <1>5, <1>7, <2>1 DEF Past
<1>12. ASSUME ~overlapped, OneEach(seeder)
       PROVE  /\ cards' <= 1
              /\ \A q \in Seeders : Inserting(seeder', q, "cards") => cards' = 0
  <2>1. cards <= 1 /\ (Inserting(seeder, p, "cards") => cards = 0)
    BY <1>12 DEF TablesInv, SingleInv
  <2>2. \A q \in Seeders \ {p} : ~Inserting(seeder', q, "cards")
    BY <1>2, <1>7, <1>12 DEF Inserting, OneEach
  <2>3. CASE seeder[p].step = "count" /\ cards' = cards
             /\ there = IF cards > 0 THEN next ELSE further
    <3>1. Inserting(seeder', p, "cards") => cards' = 0
      BY <1>1, <1>3, <1>7, <2>3 DEF Inserting
    <3> QED BY <2>1, <2>2, <2>3, <3>1
  <2>4. CASE seeder[p].step = "insert" /\ there = next /\ cards' = cards + 1
    <3>1. cards = 0 /\ ~Inserting(seeder', p, "cards")
      BY <1>2, <1>3, <1>7, <2>1, <2>4 DEF Inserting
    <3> QED BY <2>2, <2>4, <3>1
  <2> QED BY <1>5, <2>3, <2>4
<1>13. cards' \in {cards, cards + 1}
  BY <1>5
<1>14. spreads' \in [RowsOf(SPREADS) -> Nat] /\ plans' \in [RowsOf(PLANS) -> Nat]
  BY <1>1 DEF SeedTypes
<1>15. there.at # "plans"
  BY <1>6
<1> QED BY <1>1, <1>5, <1>6, <1>9, <1>10, <1>11, <1>12, <1>13, <1>14, <1>15, TablesFollow

\* What process p, at a script with a list of n rows, makes of its table, and
\* where it goes.
ScriptStep(seed, list, n, table, table2, p, there, sd2) ==
  /\ Fills(seed, list) /\ n = Len(list) /\ table \in [RowsOf(list) -> Nat]
  /\ seeder[p].at = seed /\ sd2 = [seeder EXCEPT ![p] = there]
  /\ \/ /\ seeder[p].step = "count" /\ table2 = table
        /\ there = IF \E row \in DOMAIN table : table[row] > 0 THEN After(seed)
                   ELSE [seeder[p] EXCEPT !.step = "insert"]
     \/ /\ seeder[p].step = "insert"
        /\ table2 = Inserted(table, list[seeder[p].row])
        /\ there = IF seeder[p].row = n THEN After(seed)
                   ELSE [seeder[p] EXCEPT !.row = @ + 1]

\* A step of a script that fills its table row by row.
LEMMA TableFilled ==
  ASSUME SeedTypes, RowsInList(seeder), NEW p \in Seeders,
         NEW seed, NEW list, NEW n, NEW table, NEW table2, NEW there, NEW sd2,
         ScriptStep(seed, list, n, table, table2, p, there, sd2)
  PROVE  /\ there \in Scripts \union {Ended}
         /\ there \in Scripts =>
              /\ there.step = "count" => there.row = 1
              /\ there.at = "plans" => there.row <= Len(PLANS)
         /\ \/ there = After(seed)
            \/ there \in Scripts /\ there.at = seed /\ there.step = "insert"
         /\ table2 \in [RowsOf(list) -> Nat]
         /\ FilledOrFilling(seeder, seed, table, list) =>
              FilledOrFilling(sd2, seed, table2, list)
         /\ OneEach(seeder) /\ FilledSingly(seeder, seed, table, list) =>
              FilledSingly(sd2, seed, table2, list)
<1>0. /\ Fills(seed, list) /\ n = Len(list) /\ table \in [RowsOf(list) -> Nat]
      /\ seeder[p].at = seed /\ sd2 = [seeder EXCEPT ![p] = there]
  BY DEF ScriptStep
<1>1. /\ n \in {3, 4} /\ seed \in {"spreads", "plans"}
      /\ seed = "plans" => n = 3
      /\ seed = "spreads" => n = 4
  BY <1>0, <1>0 DEF Fills, SPREADS, PLANS
<1>9. Len(PLANS) = 3
  BY DEF PLANS
<1>2. seeder \in Places /\ seeder[p] \in Scripts /\ seeder[p].row \in 1 .. 4
  BY <1>0, <1>1, PlaceFields DEF SeedTypes
<1>3. \A q \in Seeders : Inserting(seeder, q, seed) =>
        seeder[q].row \in 1 .. n
  <2> SUFFICES ASSUME NEW q \in Seeders, seeder[q].at = seed
               PROVE  seeder[q].row \in 1 .. n
    BY DEF Inserting
  <2>1. seeder[q] \in Scripts /\ seeder[q].row \in 1 .. 4
    BY <1>0, <1>1, <1>2, PlaceFields DEF SeedTypes
  <2>2. CASE seed = "spreads"
    BY <1>0, <1>1, <2>1, <2>2
  <2>3. CASE seed = "plans"
    <3>1. seeder[q].row <= 3
      BY <1>0, <1>9, <2>1, <2>3 DEF RowsInList
    <3> QED BY <1>0, <1>1, <2>1, <2>3, <3>1
  <2> QED BY <1>0, <1>1, <2>2, <2>3
<1>4. /\ After(seed) \in Scripts \union {Ended} /\ After(seed).at # seed
      /\ After(seed) \in Scripts =>
           After(seed).step = "count" /\ After(seed).row = 1
      /\ After(seed).at # "spreads"
  BY <1>0, <1>1, WhereToGo
<1>5. sd2[p] = there
  BY <1>0, <1>2 DEF Places
<1>6. CASE /\ seeder[p].step = "count" /\ table2 = table
           /\ \E row \in DOMAIN table : table[row] > 0
           /\ there = After(seed)
  <2>1. ~Inserting(seeder, p, seed) /\ ~Inserting(sd2, p, seed)
    BY <1>0, <1>4, <1>5, <1>6 DEF Inserting
  <2>2. \E row \in RowsOf(list) : table[row] > 0
    BY <1>0, <1>6
  <2>3. /\ FilledOrFilling(seeder, seed, table, list) =>
             FilledOrFilling(sd2, seed, table, list)
        /\ FilledSingly(seeder, seed, table, list) =>
             FilledSingly(sd2, seed, table, list)
    BY <1>0, <1>2, <2>1, <2>2, ElsewhereFilled
  <2> QED BY <1>0, <1>4, <1>6, <1>9, <2>3
<1>7. CASE /\ seeder[p].step = "count" /\ table2 = table
           /\ ~\E row \in DOMAIN table : table[row] > 0
           /\ there = [seeder[p] EXCEPT !.step = "insert"]
  <2>1. seeder[p].row = 1
    BY <1>0, <1>2, <1>7 DEF RowsInList
  <2>2. there \in Scripts /\ there.at = seed /\ there.step = "insert" /\ there.row = 1
    BY <1>0, <1>2, <1>7, <2>1 DEF Scripts
  <2>3. \A row \in RowsOf(list) : table[row] = 0
    BY <1>0, <1>7
  <2>4. ~Inserting(seeder, p, seed)
    BY <1>0, <1>7 DEF Inserting
  <2>5. /\ FilledOrFilling(seeder, seed, table, list) =>
             FilledOrFilling(sd2, seed, table, list)
        /\ FilledSingly(seeder, seed, table, list) =>
             FilledSingly(sd2, seed, table, list)
    BY <1>0, <1>2, <2>2, <2>3, <2>4, FillingBegins
  <2> QED BY <1>0, <1>7, <1>9, <2>2, <2>5
<1>8. CASE /\ seeder[p].step = "insert"
           /\ table2 = Inserted(table, list[seeder[p].row])
           /\ there = IF seeder[p].row = n THEN After(seed)
                      ELSE [seeder[p] EXCEPT !.row = @ + 1]
  <2>1. Inserting(seeder, p, seed) /\ seeder[p].row \in 1 .. n
    BY <1>0, <1>3, <1>8 DEF Inserting
  <2>2. seeder[p].row = n => ~Inserting(sd2, p, seed)
    BY <1>0, <1>4, <1>5, <1>8 DEF Inserting
  <2>3. seeder[p].row # n =>
          /\ seeder[p].row < n
          /\ there = [seeder[p] EXCEPT !.row = @ + 1]
          /\ there \in Scripts /\ there.at = seed /\ there.step = "insert"
          /\ there.row <= n
    <3> SUFFICES ASSUME seeder[p].row # n
                 PROVE  /\ seeder[p].row < n
                        /\ there = [seeder[p] EXCEPT !.row = @ + 1]
                        /\ there \in Scripts /\ there.at = seed
                        /\ there.step = "insert" /\ there.row <= n
      OBVIOUS
    <3>1. seeder[p].row < n /\ seeder[p].row + 1 \in 1 .. 4
          /\ seeder[p].row + 1 <= n
      BY ONLY <1>1, <2>1, seeder[p].row # n
    <3>2. there = [seeder[p] EXCEPT !.row = @ + 1]
      BY <1>0, <1>8
    <3>3. there \in Scripts /\ there.at = seed /\ there.step = "insert"
          /\ there.row = seeder[p].row + 1
      BY <1>0, <1>1, <1>2, <1>8, <3>1, <3>2 DEF Scripts, SPREADS
    <3> QED BY <3>1, <3>2, <3>3
  <2>4. OneEach(seeder) => \A q \in Seeders : Inserting(seeder, q, seed) => q = p
    BY <1>0, <1>1 DEF Inserting, OneEach
  <2>5. /\ table2 \in [RowsOf(list) -> Nat]
        /\ FilledOrFilling(seeder, seed, table, list) =>
             FilledOrFilling(sd2, seed, table2, list)
        /\ FilledSingly(seeder, seed, table, list) /\
             (\A q \in Seeders : Inserting(seeder, q, seed) => q = p) =>
             FilledSingly(sd2, seed, table2, list)
    <3>1. \/ seeder[p].row = Len(list) /\ ~Inserting(sd2, p, seed)
          \/ /\ seeder[p].row < Len(list)
             /\ sd2[p] = [seeder[p] EXCEPT !.row = @ + 1]
      BY <1>0, <1>1, <1>5, <2>2, <2>3
    <3>2. table2 = Inserted(table, list[seeder[p].row])
      BY <1>0, <1>8
    <3>3. \A q \in Seeders : Inserting(seeder, q, seed) =>
            seeder[q].row \in 1 .. Len(list)
      BY <1>0, <1>1, <1>3
    <3>4. Inserting(seeder, p, seed) /\ seeder[p] \in Scripts /\ seeder \in Places
      BY <1>0, <1>2, <2>1
    <3>5. \A q \in Seeders \ {p} : sd2[q] = seeder[q]
      BY <1>0, <1>2 DEF Places
    <3>6. Fills(seed, list) /\ table \in [RowsOf(list) -> Nat]
      BY <1>0
    <3> QED BY ONLY <3>1, <3>2, <3>3, <3>4, <3>5, <3>6, RowInserted, p \in Seeders
  <2>6. there \in Scripts \union {Ended}
    BY <1>0, <1>1, <1>4, <1>8, <2>3
  <2>7. \/ there = After(seed)
        \/ there \in Scripts /\ there.at = seed /\ there.step = "insert"
    BY <1>0, <1>1, <1>8, <2>3
  <2>8. there \in Scripts =>
          /\ there.step = "count" => there.row = 1
          /\ there.at = "plans" => there.row <= Len(PLANS)
    <3>1. CASE seeder[p].row = n
      BY <1>0, <1>4, <1>8, <1>9, <3>1
    <3>2. CASE seeder[p].row # n
      BY <1>0, <1>1, <1>9, <2>3, <3>2
    <3> QED BY <3>1, <3>2
  <2> QED BY <1>0, <2>4, <2>5, <2>6, <2>7, <2>8
<1> QED BY <1>0, <1>6, <1>7, <1>8 DEF ScriptStep

LEMMA SeedSpreadsKeeps ==
  ASSUME TablesInv, NEW p \in Seeders, SeedSpreads(p)
  PROVE  TablesInv'
<1>1. /\ SeedTypes /\ RowsInList(seeder) /\ seeder \in Places
      /\ cards' = cards /\ plans' = plans
      /\ spreads \in [RowsOf(SPREADS) -> Nat] /\ plans \in [RowsOf(PLANS) -> Nat]
  BY DEF TablesInv, SeedTypes, SeedSpreads
<1>2. seeder[p].at = "spreads" /\ Len(SPREADS) = 4 /\ Fills("spreads", SPREADS)
      /\ Fills("plans", PLANS)
  BY DEF SeedSpreads, CountRows, InsertRow, At, SPREADS, Fills
<1>3. PICK there :
        /\ Goes(p, there)
        /\ ScriptStep("spreads", SPREADS, 4, spreads, spreads', p, there, seeder')
  BY <1>1, <1>2 DEF SeedSpreads, CountRows, InsertRow, At, Goes, ScriptStep
<1>4. /\ seeder' = [seeder EXCEPT ![p] = there]
      /\ there \in Scripts \union {Ended}
  BY <1>1, <1>3, TableFilled DEF Goes
<1>5. /\ there \in Scripts =>
           /\ there.step = "count" => there.row = 1
           /\ there.at = "plans" => there.row <= Len(PLANS)
      /\ \/ there = After("spreads")
         \/ there \in Scripts /\ there.at = "spreads" /\ there.step = "insert"
      /\ spreads' \in [RowsOf(SPREADS) -> Nat]
      /\ FilledOrFilling(seeder, "spreads", spreads, SPREADS) =>
           FilledOrFilling(seeder', "spreads", spreads', SPREADS)
      /\ OneEach(seeder) /\ FilledSingly(seeder, "spreads", spreads, SPREADS) =>
           FilledSingly(seeder', "spreads", spreads', SPREADS)
  BY <1>1, <1>3, TableFilled
<1>6. /\ seeder'[p] = there /\ \A q \in Seeders \ {p} : seeder'[q] = seeder[q]
  BY <1>1, <1>4 DEF Places
<1>7. /\ there.at \in {"spreads", "plans"}
      /\ ~Inserting(seeder, p, "plans") /\ ~Inserting(seeder', p, "plans")
      /\ Past(seeder', p, "plans") => Past(seeder, p, "plans")
  BY <1>2, <1>5, <1>6, WhereToGo DEF Inserting, Past
<1>8. /\ FilledOrFilling(seeder, "plans", plans, PLANS) =>
           FilledOrFilling(seeder', "plans", plans, PLANS)
      /\ FilledSingly(seeder, "plans", plans, PLANS) =>
           FilledSingly(seeder', "plans", plans, PLANS)
  BY <1>1, <1>2, <1>4, <1>7, ElsewhereFilled
<1>9. ASSUME ~cut
      PROVE  cards' > 0
  <2>1. Past(seeder, p, "cards")
    BY <1>2 DEF Past
  <2> QED BY <1>1, <1>9, <2>1 DEF TablesInv, WholeInv
<1>10. ASSUME ~overlapped
       PROVE  /\ cards' <= 1
              /\ \A q \in Seeders : Inserting(seeder', q, "cards") => cards' = 0
  <2>1. \A q \in Seeders : Inserting(seeder', q, "cards") =>
          Inserting(seeder, q, "cards")
    BY <1>6, <1>7 DEF Inserting
  <2> QED BY <1>1, <1>10, <2>1 DEF TablesInv, SingleInv
<1>11. cards' \in {cards, cards + 1}
  BY <1>1
<1> QED BY <1>1, <1>3, <1>4, <1>5, <1>8, <1>9, <1>10, <1>11, TablesFollow

LEMMA SeedPlansKeeps ==
  ASSUME TablesInv, NEW p \in Seeders, SeedPlans(p)
  PROVE  TablesInv'
<1>1. /\ SeedTypes /\ RowsInList(seeder) /\ seeder \in Places
      /\ cards' = cards /\ spreads' = spreads
      /\ spreads \in [RowsOf(SPREADS) -> Nat] /\ plans \in [RowsOf(PLANS) -> Nat]
  BY DEF TablesInv, SeedTypes, SeedPlans
<1>2. seeder[p].at = "plans" /\ Len(PLANS) = 3 /\ Fills("plans", PLANS)
      /\ Fills("spreads", SPREADS)
  BY DEF SeedPlans, CountRows, InsertRow, At, PLANS, Fills
<1>3. PICK there :
        /\ Goes(p, there)
        /\ ScriptStep("plans", PLANS, 3, plans, plans', p, there, seeder')
  BY <1>1, <1>2 DEF SeedPlans, CountRows, InsertRow, At, Goes, ScriptStep
<1>4. /\ seeder' = [seeder EXCEPT ![p] = there]
      /\ there \in Scripts \union {Ended}
  BY <1>1, <1>3, TableFilled DEF Goes
<1>5. /\ there \in Scripts =>
           /\ there.step = "count" => there.row = 1
           /\ there.at = "plans" => there.row <= Len(PLANS)
      /\ \/ there = After("plans")
         \/ there \in Scripts /\ there.at = "plans" /\ there.step = "insert"
      /\ plans' \in [RowsOf(PLANS) -> Nat]
      /\ FilledOrFilling(seeder, "plans", plans, PLANS) =>
           FilledOrFilling(seeder', "plans", plans', PLANS)
      /\ OneEach(seeder) /\ FilledSingly(seeder, "plans", plans, PLANS) =>
           FilledSingly(seeder', "plans", plans', PLANS)
  BY <1>1, <1>3, TableFilled
<1>6. /\ seeder'[p] = there /\ \A q \in Seeders \ {p} : seeder'[q] = seeder[q]
  BY <1>1, <1>4 DEF Places
<1>7. /\ there.at \in {"plans", "ended"}
      /\ ~Inserting(seeder, p, "spreads") /\ ~Inserting(seeder', p, "spreads")
      /\ Past(seeder', p, "spreads") => Past(seeder, p, "spreads")
  BY <1>2, <1>5, <1>6, WhereToGo DEF Inserting, Past
<1>8. /\ FilledOrFilling(seeder, "spreads", spreads, SPREADS) =>
           FilledOrFilling(seeder', "spreads", spreads, SPREADS)
      /\ FilledSingly(seeder, "spreads", spreads, SPREADS) =>
           FilledSingly(seeder', "spreads", spreads, SPREADS)
  BY <1>1, <1>2, <1>4, <1>7, ElsewhereFilled
<1>9. ASSUME ~cut
      PROVE  cards' > 0
  <2>1. Past(seeder, p, "cards")
    BY <1>2 DEF Past
  <2> QED BY <1>1, <1>9, <2>1 DEF TablesInv, WholeInv
<1>10. ASSUME ~overlapped
       PROVE  /\ cards' <= 1
              /\ \A q \in Seeders : Inserting(seeder', q, "cards") => cards' = 0
  <2>1. \A q \in Seeders : Inserting(seeder', q, "cards") =>
          Inserting(seeder, q, "cards")
    BY <1>6, <1>7 DEF Inserting
  <2> QED BY <1>1, <1>10, <2>1 DEF TablesInv, SingleInv
<1>11. cards' \in {cards, cards + 1}
  BY <1>1
<1> QED BY <1>1, <1>3, <1>4, <1>5, <1>8, <1>9, <1>10, <1>11, TablesFollow

\* What a process that stops leaves half full stays so, and is there once.
LEMMA SeedStopsKeeps ==
  ASSUME TablesInv, NEW p \in Seeders, SeedStops(p)
  PROVE  TablesInv'
<1>1. /\ SeedTypes /\ RowsInList(seeder) /\ seeder \in Places
      /\ seeder' = [seeder EXCEPT ![p] = Ended] /\ cut' = TRUE
      /\ cards' = cards /\ spreads' = spreads /\ plans' = plans
      /\ overlapped' = overlapped
  BY DEF TablesInv, SeedTypes, SeedStops, tables
<1>2. /\ seeder' \in Places /\ seeder'[p] = Ended
      /\ \A q \in Seeders \ {p} : seeder'[q] = seeder[q]
      /\ Ended \notin Scripts /\ Ended.at = "ended"
  BY <1>1, WhereToGo DEF Places
<1>3. SeedTypes' /\ WholeInv'
  BY <1>1, <1>2 DEF SeedTypes, WholeInv
<1>4. RowsInList(seeder')
  BY <1>1, <1>2 DEF RowsInList
<1>5. ASSUME ~overlapped
      PROVE  /\ OneEach(seeder')
             /\ cards' <= 1
             /\ \A q \in Seeders : Inserting(seeder', q, "cards") => cards' = 0
             /\ FilledSingly(seeder', "spreads", spreads', SPREADS)
             /\ FilledSingly(seeder', "plans", plans', PLANS)
  <2>1. /\ OneEach(seeder) /\ cards <= 1
        /\ \A q \in Seeders : Inserting(seeder, q, "cards") => cards = 0
        /\ FilledSingly(seeder, "spreads", spreads, SPREADS)
        /\ FilledSingly(seeder, "plans", plans, PLANS)
    BY <1>5 DEF TablesInv, SingleInv
  <2>2. OneEach(seeder')
    BY <1>2, <2>1 DEF OneEach
  <2>3. \A q \in Seeders : Inserting(seeder', q, "cards") => cards' = 0
    BY <1>1, <1>2, <2>1 DEF Inserting
  <2>4. FilledSingly(seeder', "spreads", spreads', SPREADS)
    BY <1>1, <2>1, StoppedSingly DEF Fills
  <2>5. FilledSingly(seeder', "plans", plans', PLANS)
    BY <1>1, <2>1, StoppedSingly DEF Fills
  <2> QED BY <1>1, <2>1, <2>2, <2>3, <2>4, <2>5
<1> QED BY <1>1, <1>3, <1>4, <1>5 DEF TablesInv, SingleInv

\* Tables that are made anew are empty, under whoever is at work.
LEMMA RunMigrationKeeps ==
  ASSUME TablesInv, NEW action, RunMigration(action)
  PROVE  TablesInv'
<1>1. SeedTypes /\ RowsInList(seeder) /\ seeder' = seeder /\ overlapped' = overlapped
  BY DEF TablesInv, RunMigration
<1>2. CASE UNCHANGED <<tables, cut>>
  BY <1>1, <1>2 DEF TablesInv, SeedTypes, WholeInv, SingleInv, tables
<1>3. CASE /\ cards' = 0 /\ spreads' = Empty(SPREADS) /\ plans' = Empty(PLANS)
           /\ cut' = (cut \/ \E p \in Seeders : seeder[p] # Ready)
  <2>1. cut' \in BOOLEAN /\ (~cut' => \A p \in Seeders : seeder[p] = Ready)
    <3>1. CASE cut \/ \E p \in Seeders : seeder[p] # Ready
      BY <1>3, <3>1
    <3>2. CASE ~(cut \/ \E p \in Seeders : seeder[p] # Ready)
      BY <1>3, <3>2
    <3> QED BY <3>1, <3>2
  <2>2. /\ \A row \in RowsOf(SPREADS) : spreads'[row] = 0
        /\ \A row \in RowsOf(PLANS) : plans'[row] = 0
        /\ spreads' \in [RowsOf(SPREADS) -> Nat]
        /\ plans' \in [RowsOf(PLANS) -> Nat]
    BY <1>3 DEF Empty
  <2>3. SeedTypes'
    BY <1>1, <1>3, <2>1, <2>2 DEF SeedTypes
  <2>4. WholeInv'
    <3> SUFFICES ASSUME ~cut' PROVE WholeInv'
      BY DEF WholeInv
    <3>1. \A p \in Seeders : seeder'[p].at = "ready"
      BY <1>1, <2>1 DEF Ready
    <3>2. \A p \in Seeders : \A seed \in {"cards", "spreads", "plans"} :
            ~Inserting(seeder', p, seed) /\ ~Past(seeder', p, seed)
      BY <3>1 DEF Inserting, Past
    <3> QED BY <2>2, <3>2 DEF WholeInv, FilledOrFilling
  <2>5. FilledSingly(seeder', "spreads", spreads', SPREADS)
        /\ FilledSingly(seeder', "plans", plans', PLANS)
    <3>1. ASSUME NEW seed, NEW list, Fills(seed, list), NEW table,
                 \A row \in RowsOf(list) : table[row] = 0
          PROVE  FilledSingly(seeder', seed, table, list)
      <4>1. \A p \in Seeders : Inserting(seeder', p, seed) =>
              seeder'[p].row \in 1 .. 4
        <5>1. seed \in {"cards", "spreads", "plans"}
          BY <3>1 DEF Fills
        <5> QED BY <1>1, <5>1, PlaceFields DEF SeedTypes, Inserting
      <4>2. \A i \in 1 .. Len(list) : list[i] \in RowsOf(list)
        BY <3>1, ListRows
      <4>3. PICK n \in {3, 4} : n = Len(list)
        BY <3>1, ListRows
      <4> QED BY <3>1, <4>1, <4>2, <4>3 DEF FilledSingly
    <3> QED BY <2>2, <3>1 DEF Fills
  <2>6. SingleInv'
    BY <1>1, <1>3, <2>5 DEF TablesInv, SingleInv
  <2> QED BY <1>1, <2>3, <2>4, <2>6 DEF TablesInv
<1> QED BY <1>2, <1>3 DEF RunMigration

LEMMA TablesBegin == SeedsInit => TablesInv
<1> SUFFICES ASSUME SeedsInit PROVE TablesInv
  OBVIOUS
<1>1. /\ \A p \in Seeders : seeder[p] = Ready /\ seeder[p].at = "ready"
      /\ seeder = [p \in Seeders |-> Ready]
  BY DEF SeedsInit, Ready
<1>2. /\ \A row \in RowsOf(SPREADS) : spreads[row] = 0
      /\ \A row \in RowsOf(PLANS) : plans[row] = 0
      /\ spreads \in [RowsOf(SPREADS) -> Nat] /\ plans \in [RowsOf(PLANS) -> Nat]
  BY DEF SeedsInit, Empty
<1>3. \A p \in Seeders : \A seed \in {"cards", "spreads", "plans"} :
        ~Inserting(seeder, p, seed) /\ ~Past(seeder, p, seed)
  BY <1>1 DEF Inserting, Past
<1>4. SeedTypes
  BY <1>1, <1>2 DEF SeedsInit, SeedTypes, Places
<1>5. RowsInList(seeder)
  <2>1. Ready \notin Scripts
    BY DEF Ready, Scripts
  <2> QED BY <1>1, <2>1 DEF RowsInList
<1>6. WholeInv
  BY <1>2, <1>3 DEF WholeInv, FilledOrFilling
<1>7. SingleInv
  BY <1>1, <1>2, <1>3 DEF SeedsInit, SingleInv, OneEach, FilledSingly
<1> QED BY <1>4, <1>5, <1>6, <1>7 DEF TablesInv

LEMMA TablesKept ==
  ASSUME TablesInv, UNCHANGED <<tables, seeder, cut, overlapped>>
  PROVE  TablesInv'
BY DEF TablesInv, SeedTypes, WholeInv, SingleInv, tables

LEMMA TablesInductive == TablesInv /\ [SeedsNext]_seedVars => TablesInv'
<1> SUFFICES ASSUME TablesInv, [SeedsNext]_seedVars
             PROVE  TablesInv'
  OBVIOUS
<1>1. ASSUME NEW p \in Seeders,
             SeedAll(p) \/ SeedCards(p) \/ SeedSpreads(p) \/ SeedPlans(p) \/ SeedStops(p)
      PROVE  TablesInv'
  BY <1>1, SeedAllKeeps, SeedCardsKeeps, SeedSpreadsKeeps, SeedPlansKeeps, SeedStopsKeeps
<1>2. ASSUME NEW action, RunMigration(action)
      PROVE  TablesInv'
  BY <1>2, RunMigrationKeeps
<1>3. CASE \/ \E ids \in SUBSET AskedIds : DrawCards(ids)
           \/ \E id \in AskedIds : GetCardDetails(id) \/ ExpireDetails(id)
  <2>1. UNCHANGED <<tables, seeder, cut, overlapped>>
    BY <1>3 DEF DrawCards, GetCardDetails, ExpireDetails
  <2> QED BY <2>1, TablesKept
<1>4. CASE UNCHANGED seedVars
  BY <1>4, TablesKept DEF seedVars, tables
<1> QED BY <1>1, <1>2, <1>3, <1>4 DEF SeedsNext

-----------------------------------------------------------------------------
(***************************************************************************)
(* The details of the cards that were drawn.                               *)
(***************************************************************************)

\* The card whose place in the deck is the one before its id.
IsCardOf(c, id) == c \in Cards /\ Order(c) = id - 1

DrawInv ==
  /\ draw \in [at : {"none", "drawing", "answered", "failed", "missing"},
               ids : SUBSET AskedIds, pending : SUBSET AskedIds,
               found : [AskedIds -> {0} \union Cards]]
  /\ details \in [AskedIds -> {0} \union Cards]
  /\ \A id \in AskedIds : details[id] # 0 => IsCardOf(details[id], id)
  /\ draw.at \in {"drawing", "answered"} =>
       \A id \in draw.ids \ draw.pending : IsCardOf(draw.found[id], id)
  /\ draw.at = "answered" => draw.pending = {}
  /\ draw.at = "missing" => draw.ids = {78}

\* The minors have a place each from 21 on: no card has the last.
LEMMA OrderOfCards ==
  /\ \A c \in Cards : Order(c) = IF c <= 22 THEN c - 1 ELSE c - 2
  /\ \A id \in Cards : id # 78 => \E c \in Cards : Order(c) = id - 1
<1>1. ASSUME NEW c \in Cards, c > 22
      PROVE  MinorOrder(c) = c - 2
  <2> DEFINE suit == (c - 23) \div 14
             i == (c - 23) % 14
  <2>1. MinorOrder(c) = 21 + 14 * suit + i
    BY DEF MinorOrder
  <2>2. CASE c - 23 \in 0 .. 13
    <3>1. suit = 0 /\ i = c - 23
      BY <2>2
    <3> HIDE DEF suit, i
    <3> QED BY <1>1, <2>1, <3>1 DEF Cards
  <2>3. CASE c - 23 \in 14 .. 27
    <3>1. suit = 1 /\ i = c - 23 - 14
      BY <2>3
    <3> HIDE DEF suit, i
    <3> QED BY <1>1, <2>1, <3>1 DEF Cards
  <2>4. CASE c - 23 \in 28 .. 41
    <3>1. suit = 2 /\ i = c - 23 - 28
      BY <2>4
    <3> HIDE DEF suit, i
    <3> QED BY <1>1, <2>1, <3>1 DEF Cards
  <2>5. CASE c - 23 \in 42 .. 55
    <3>1. suit = 3 /\ i = c - 23 - 42
      BY <2>5
    <3> HIDE DEF suit, i
    <3> QED BY <1>1, <2>1, <3>1 DEF Cards
  <2>6. c - 23 \in 0 .. 13 \union 14 .. 27 \union 28 .. 41 \union 42 .. 55
    BY <1>1 DEF Cards
  <2> QED BY <2>2, <2>3, <2>4, <2>5, <2>6
<1>2. \A c \in Cards : Order(c) = IF c <= 22 THEN c - 1 ELSE c - 2
  BY <1>1 DEF Order, MajorArcana, MajorOrder, Cards
<1>3. ASSUME NEW id \in Cards, id # 78
      PROVE  \E c \in Cards : Order(c) = id - 1
  <2>1. CASE id <= 22
    BY <1>2, <2>1 DEF Cards
  <2>2. CASE id > 22
    <3>1. id + 1 \in Cards /\ id + 1 > 22 /\ (id + 1) - 2 = id - 1
      BY <1>3, <2>2 DEF Cards
    <3>2. Order(id + 1) = (id + 1) - 2
      BY ONLY <1>2, <3>1, id \in Cards DEF Cards
    <3> QED BY <3>1, <3>2
  <2> QED BY <2>1, <2>2 DEF Cards
<1> QED BY <1>2, <1>3

LEMMA DrawFields ==
  ASSUME DrawInv
  PROVE  /\ draw.at \in {"none", "drawing", "answered", "failed", "missing"}
         /\ draw.ids \subseteq AskedIds /\ draw.pending \subseteq AskedIds
         /\ draw.found \in [AskedIds -> {0} \union Cards]
         /\ draw = [at |-> draw.at, ids |-> draw.ids, pending |-> draw.pending,
                    found |-> draw.found]
BY DEF DrawInv

\* A card is found: the last one answers the draw.
LEMMA CardFound ==
  ASSUME DrawInv, NEW id \in draw.pending, NEW c \in Cards, IsCardOf(c, id),
         DrawCardsWithDetails(id, c)
  PROVE  /\ draw' \in [at : {"none", "drawing", "answered", "failed", "missing"},
                       ids : SUBSET AskedIds, pending : SUBSET AskedIds,
                       found : [AskedIds -> {0} \union Cards]]
         /\ draw'.at \in {"drawing", "answered"} =>
              \A i \in draw'.ids \ draw'.pending : IsCardOf(draw'.found[i], i)
         /\ draw'.at = "answered" => draw'.pending = {}
         /\ draw'.at = "missing" => draw'.ids = {78}
<1> DEFINE left == draw.pending \ {id}
<1>1. id \in AskedIds
  BY DrawFields
<1>2. CASE draw.at # "drawing"
  <2>1. draw' = [at |-> draw.at, ids |-> draw.ids, pending |-> left,
                 found |-> draw.found]
    BY <1>2, DrawFields DEF DrawCardsWithDetails, LookedUp
  <2>2. draw.at # "answered"
    BY DEF DrawInv
  <2> QED BY <1>2, <2>1, <2>2, DrawFields DEF DrawInv
<1>3. CASE draw.at = "drawing"
  <2>1. draw' = [at |-> IF draw.pending = {id} THEN "answered" ELSE draw.at,
                 ids |-> draw.ids, pending |-> left,
                 found |-> [draw.found EXCEPT ![id] = c]]
    BY <1>3, DrawFields DEF DrawCardsWithDetails, LookedUp
  <2>2. \A i \in draw'.ids \ draw'.pending : IsCardOf(draw'.found[i], i)
    <3> SUFFICES ASSUME NEW i \in draw.ids \ left
                 PROVE  IsCardOf([draw.found EXCEPT ![id] = c][i], i)
      BY <2>1
    <3>1. CASE i = id
      BY <1>1, <3>1, DrawFields
    <3>2. CASE i # id
      <4>1. IsCardOf(draw.found[i], i)
        BY <1>3, <3>2 DEF DrawInv
      <4> QED BY <3>2, <4>1, DrawFields
    <3> QED BY <3>1, <3>2
  <2>3. draw'.at \in {"drawing", "answered"} /\ (draw'.at = "answered" => left = {})
    BY <1>3, <2>1
  <2>4. [draw.found EXCEPT ![id] = c] \in [AskedIds -> {0} \union Cards]
    BY DrawFields
  <2> QED BY <2>1, <2>2, <2>3, <2>4, DrawFields
<1> QED BY <1>2, <1>3

\* Nothing is found but at the place that no card has, or a statement failed.
LEMMA CardThrows ==
  ASSUME DrawInv, NEW id \in draw.pending, NEW how \in {"missing", "failed"},
         how = "missing" => id = 78, DrawThrows(id, how)
  PROVE  /\ draw' \in [at : {"none", "drawing", "answered", "failed", "missing"},
                       ids : SUBSET AskedIds, pending : SUBSET AskedIds,
                       found : [AskedIds -> {0} \union Cards]]
         /\ draw'.at \in {"drawing", "answered"} =>
              \A i \in draw'.ids \ draw'.pending : IsCardOf(draw'.found[i], i)
         /\ draw'.at = "answered" => draw'.pending = {}
         /\ draw'.at = "missing" => draw'.ids = {78}
<1> DEFINE left == draw.pending \ {id}
<1>1. id \in AskedIds
  BY DrawFields
<1>2. CASE draw.at # "drawing"
  <2>1. draw' = [at |-> draw.at, ids |-> draw.ids, pending |-> left,
                 found |-> draw.found]
    BY <1>2, DrawFields DEF DrawThrows, LookedUp
  <2>2. draw.at # "answered"
    BY DEF DrawInv
  <2> QED BY <1>2, <2>1, <2>2, DrawFields DEF DrawInv
<1>3. CASE draw.at = "drawing"
  <2>1. draw' = [at |-> how, ids |-> {id}, pending |-> left,
                 found |-> [i \in AskedIds |-> 0]]
    BY <1>3 DEF DrawThrows, NoDraw
  <2> QED BY <1>1, <2>1, DrawFields
<1> QED BY <1>2, <1>3

LEMMA DrawInductive == DrawInv /\ [SeedsNext]_seedVars => DrawInv'
<1> SUFFICES ASSUME DrawInv, [SeedsNext]_seedVars
             PROVE  DrawInv'
  OBVIOUS
<1>1. ASSUME UNCHANGED <<draw, details>>
      PROVE  DrawInv'
  BY <1>1 DEF DrawInv
<1>2. ASSUME NEW ids \in SUBSET AskedIds, DrawCards(ids)
      PROVE  DrawInv'
  <2>1. draw' = [at |-> "drawing", ids |-> ids, pending |-> ids,
                 found |-> [id \in AskedIds |-> 0]]
        /\ details' = details
    BY <1>2 DEF DrawCards, NoDraw
  <2> QED BY <2>1 DEF DrawInv
<1>3. ASSUME NEW id \in AskedIds, GetCardDetails(id)
      PROVE  DrawInv'
  <2>1. id \in draw.pending /\ id \in Cards
    BY <1>3, SeedsAssumption DEF GetCardDetails
  <2>2. \A c \in CardsAt(id - 1) : IsCardOf(c, id)
    BY DEF CardsAt, IsCardOf
  <2>3. details' = details => /\ details' \in [AskedIds -> {0} \union Cards]
                              /\ \A i \in AskedIds : details'[i] # 0 => IsCardOf(details'[i], i)
    BY DEF DrawInv
  <2>4. CASE \E c \in CacheGet(id) \ {0} :
               DrawCardsWithDetails(id, c) /\ UNCHANGED details
    <3>1. PICK c \in CacheGet(id) \ {0} :
            DrawCardsWithDetails(id, c) /\ UNCHANGED details
      BY <2>4
    <3>2. c \in Cards /\ IsCardOf(c, id)
      BY <3>1 DEF CacheGet, DrawInv, IsCardOf
    <3> QED BY <2>1, <2>3, <3>1, <3>2, CardFound DEF DrawInv
  <2>5. CASE \E c \in CardsAt(id - 1) :
               DrawCardsWithDetails(id, c) /\ details' \in CacheSet(id, c)
    <3>1. PICK c \in CardsAt(id - 1) :
            DrawCardsWithDetails(id, c) /\ details' \in CacheSet(id, c)
      BY <2>5
    <3>2. c \in Cards /\ IsCardOf(c, id)
      BY <2>2, <3>1 DEF IsCardOf
    <3>3. /\ details' \in [AskedIds -> {0} \union Cards]
          /\ \A i \in AskedIds : details'[i] # 0 => IsCardOf(details'[i], i)
      <4>1. CASE details' = [details EXCEPT ![id] = c]
        <5>1. details' \in [AskedIds -> {0} \union Cards]
          BY <3>2, <4>1 DEF DrawInv
        <5>2. \A i \in AskedIds : details'[i] = IF i = id THEN c ELSE details[i]
          BY <4>1 DEF DrawInv
        <5> QED BY <3>2, <5>1, <5>2 DEF DrawInv
      <4> QED BY <2>3, <3>1, <4>1 DEF CacheSet
    <3> QED BY <2>1, <3>1, <3>2, <3>3, CardFound DEF DrawInv
  <2>6. CASE /\ CardsAt(id - 1) = {} /\ cards > 0
             /\ DrawThrows(id, "missing") /\ UNCHANGED details
    <3>1. id = 78
      <4>1. cards # 0 => CardsAt(id - 1) = {c \in Cards : Order(c) = id - 1}
        BY DEF CardsAt
      <4>2. ~(cards > 0 /\ cards = 0)
        OBVIOUS
      <4> QED BY <2>1, <2>6, <4>1, <4>2, OrderOfCards
    <3> QED BY <2>1, <2>3, <2>6, <3>1, CardThrows DEF DrawInv
  <2>7. CASE DrawThrows(id, "failed") /\ UNCHANGED details
    BY <2>1, <2>3, <2>7, CardThrows DEF DrawInv
  <2> QED BY <1>3, <2>4, <2>5, <2>6, <2>7 DEF GetCardDetails
<1>4. ASSUME NEW id \in AskedIds, ExpireDetails(id)
      PROVE  DrawInv'
  <2>1. draw' = draw /\ details' = [details EXCEPT ![id] = 0]
    BY <1>4 DEF ExpireDetails
  <2>2. details' \in [AskedIds -> {0} \union Cards]
    BY <2>1 DEF DrawInv
  <2>3. \A i \in AskedIds : details'[i] # 0 => details'[i] = details[i]
    BY <2>1 DEF DrawInv
  <2> QED BY <2>1, <2>2, <2>3 DEF DrawInv
<1>5. CASE \/ \E p \in Seeders : SeedAll(p) \/ SeedCards(p) \/ SeedSpreads(p)
                                   \/ SeedPlans(p) \/ SeedStops(p)
           \/ \E action \in Applying \union {"reset"} : RunMigration(action)
           \/ UNCHANGED seedVars
  <2>1. UNCHANGED <<draw, details>>
    BY <1>5 DEF SeedAll, SeedCards, SeedSpreads, SeedPlans, CountRows, InsertRow,
                Goes, SeedStops, RunMigration, seedVars
  <2> QED BY <1>1, <2>1
<1> QED BY <1>2, <1>3, <1>4, <1>5 DEF SeedsNext

\* Once the processes of the seeds are over, each card, spread and plan is in its
\* table unless a process was stopped or undone, none is there twice unless two
\* met at a script, and a draw that is answered shows distinct cards.
THEOREM SeedsAreWhole == SeedsSpec => []SeedsWhole
<1>1. SeedsInit => TablesInv /\ DrawInv
  <2>1. SeedsInit => DrawInv
    BY DEF SeedsInit, DrawInv, NoDraw
  <2> QED BY <2>1, TablesBegin
<1>2. TablesInv /\ DrawInv /\ [SeedsNext]_seedVars => (TablesInv /\ DrawInv)'
  BY TablesInductive, DrawInductive
<1>3. TablesInv /\ DrawInv => SeedsWhole
  <2> SUFFICES ASSUME TablesInv, DrawInv PROVE SeedsWhole
    OBVIOUS
  <2>1. DOMAIN spreads = RowsOf(SPREADS) /\ DOMAIN plans = RowsOf(PLANS)
    BY DEF TablesInv, SeedTypes
  <2>2. SeedingOver /\ ~cut => cards > 0 /\ Whole(spreads) /\ Whole(plans)
    <3> SUFFICES ASSUME SeedingOver, ~cut
                 PROVE  cards > 0 /\ Whole(spreads) /\ Whole(plans)
      OBVIOUS
    <3>1. PICK p \in Seeders : seeder[p] = Ended
      BY DEF SeedingOver
    <3>2. Past(seeder, p, "cards") /\ Past(seeder, p, "spreads")
          /\ Past(seeder, p, "plans")
      BY <3>1 DEF Past, Ended
    <3>3. \A q \in Seeders : \A seed \in {"spreads", "plans"} :
            ~Inserting(seeder, q, seed)
      BY DEF SeedingOver, Inserting, Ready, Ended
    <3> QED BY <2>1, <3>2, <3>3 DEF TablesInv, WholeInv, FilledOrFilling, Whole
  <2>3. ~overlapped => cards <= 1 /\ Single(spreads) /\ Single(plans)
    BY <2>1 DEF TablesInv, SingleInv, FilledSingly, Single
  <2>4. draw.at = "answered" =>
          \A i, j \in draw.ids : /\ draw.found[i] \in Cards
                                 /\ i # j => draw.found[i] # draw.found[j]
    <3> SUFFICES ASSUME draw.at = "answered", NEW i \in draw.ids, NEW j \in draw.ids
                 PROVE  /\ draw.found[i] \in Cards
                        /\ i # j => draw.found[i] # draw.found[j]
      OBVIOUS
    <3>1. IsCardOf(draw.found[i], i) /\ IsCardOf(draw.found[j], j)
      BY DEF DrawInv
    <3>2. i \in Cards /\ j \in Cards
      BY DrawFields, SeedsAssumption
    <3> QED BY <3>1, <3>2 DEF IsCardOf, Cards
  <2> QED BY <2>2, <2>3, <2>4 DEF SeedsWhole, DrawInv
<1> QED BY <1>1, <1>2, <1>3, PTL DEF SeedsSpec

-----------------------------------------------------------------------------
(***************************************************************************)
(* No row is in a table more often than there are processes.               *)
(***************************************************************************)

\* A process at this place has inserted row i of the script, or will no more.
HasDone(place, seed, i) ==
  \/ place.at \in CASE seed = "cards" -> {"spreads", "plans", "ended"}
                    [] seed = "spreads" -> {"plans", "ended"}
                    [] seed = "plans" -> {"ended"}
  \/ place.at = seed /\ place.step = "insert" /\ place.row > i

Gone(sd, seed, i) == {p \in Seeders : HasDone(sd[p], seed, i)}

\* Each copy of a row is of a process of its own.  (The list of cards is inserted
\* at once: the script goes on after it.)
CopiesCounted ==
  /\ cards <= Cardinality(Gone(seeder, "cards", 4))
  /\ \A i \in 1 .. 4 : spreads[SPREADS[i]] <= Cardinality(Gone(seeder, "spreads", i))
  /\ \A i \in 1 .. 3 : plans[PLANS[i]] <= Cardinality(Gone(seeder, "plans", i))

SchemaOK == schema \in BOOLEAN

LEMMA SeedersCounted ==
  ASSUME NEW A, NEW B, A \subseteq B, B \subseteq Seeders
  PROVE  /\ Cardinality(A) \in Nat /\ Cardinality(B) \in Nat
         /\ Cardinality(A) <= Cardinality(B)
         /\ \A p \in B \ A : Cardinality(A) + 1 <= Cardinality(B)
<1>1. IsFiniteSet(B) /\ IsFiniteSet(A)
  BY SeedsAssumption, FS_Subset DEF SeedsAssumption
<1>2. /\ Cardinality(A) \in Nat /\ Cardinality(B) \in Nat
      /\ Cardinality(A) <= Cardinality(B)
  BY <1>1, FS_CardinalityType, FS_Subset
<1>3. ASSUME NEW p \in B \ A
      PROVE  Cardinality(A) + 1 <= Cardinality(B)
  <2>1. Cardinality(A \union {p}) = Cardinality(A) + 1
    BY <1>1, <1>3, FS_AddElement
  <2>2. A \union {p} \subseteq B
    BY <1>3
  <2>3. Cardinality(A \union {p}) <= Cardinality(B)
    BY <1>1, <2>2, FS_Subset
  <2> QED BY <2>1, <2>3
<1> QED BY <1>2, <1>3

\* A process that goes on has done what it had, and one that inserts a row has
\* done that.
LEMMA GoneGrows ==
  ASSUME seeder \in Places, NEW p \in Seeders, NEW there,
         NEW sd2, sd2 = [seeder EXCEPT ![p] = there], NEW seed, NEW i,
         HasDone(seeder[p], seed, i) => HasDone(there, seed, i),
         NEW n \in Nat, n <= Cardinality(Gone(seeder, seed, i))
  PROVE  /\ n <= Cardinality(Gone(sd2, seed, i))
         /\ ~HasDone(seeder[p], seed, i) /\ HasDone(there, seed, i)
              => n + 1 <= Cardinality(Gone(sd2, seed, i))
<1> DEFINE A == Gone(seeder, seed, i)
           B == Gone(sd2, seed, i)
<1>1. sd2[p] = there /\ \A q \in Seeders \ {p} : sd2[q] = seeder[q]
  BY DEF Places
<1>2. A \subseteq B /\ B \subseteq Seeders
  BY <1>1, Zenon DEF Gone
<1>3. ~HasDone(seeder[p], seed, i) /\ HasDone(there, seed, i) => p \in B \ A
  BY <1>1 DEF Gone
<1>4. /\ Cardinality(A) \in Nat /\ Cardinality(B) \in Nat
      /\ Cardinality(A) <= Cardinality(B)
      /\ \A q \in B \ A : Cardinality(A) + 1 <= Cardinality(B)
  BY <1>2, SeedersCounted
<1>5. n <= Cardinality(A)
  OBVIOUS
<1> HIDE DEF A, B
<1>6. n <= Cardinality(B)
  BY <1>4, <1>5
<1>7. p \in B \ A => n + 1 <= Cardinality(B)
  BY <1>4, <1>5
<1> QED BY <1>3, <1>6, <1>7 DEF B

\* So for the rows of a table: at most one is inserted by a step.
LEMMA TableCounted ==
  ASSUME seeder \in Places, NEW p \in Seeders, NEW there,
         NEW sd2, sd2 = [seeder EXCEPT ![p] = there],
         NEW seed, NEW list, Fills(seed, list), NEW table \in [RowsOf(list) -> Nat],
         NEW table2,
         \A i \in 1 .. Len(list) :
           HasDone(seeder[p], seed, i) => HasDone(there, seed, i),
         \A i \in 1 .. Len(list) : table[list[i]] <= Cardinality(Gone(seeder, seed, i)),
         \/ table2 = table
         \/ \E r \in 1 .. Len(list) :
              /\ table2 = Inserted(table, list[r])
              /\ ~HasDone(seeder[p], seed, r) /\ HasDone(there, seed, r)
  PROVE  \A i \in 1 .. Len(list) : table2[list[i]] <= Cardinality(Gone(sd2, seed, i))
<1> SUFFICES ASSUME NEW i \in 1 .. Len(list)
             PROVE  table2[list[i]] <= Cardinality(Gone(sd2, seed, i))
  OBVIOUS
<1>1. /\ \A j, k \in 1 .. Len(list) : list[j] = list[k] => j = k
      /\ \A j \in 1 .. Len(list) : list[j] \in RowsOf(list)
  BY ListRows
<1>2. table[list[i]] \in Nat
  BY <1>1
<1>3. table[list[i]] <= Cardinality(Gone(sd2, seed, i))
  BY <1>2, GoneGrows
<1>4. ASSUME NEW r \in 1 .. Len(list), table2 = Inserted(table, list[r]),
             ~HasDone(seeder[p], seed, r), HasDone(there, seed, r)
      PROVE  table2[list[i]] <= Cardinality(Gone(sd2, seed, i))
  <2>1. CASE i = r
    <3>1. table2[list[i]] = table[list[i]] + 1
      BY <1>1, <1>4, <2>1 DEF Inserted
    <3>2. table[list[i]] + 1 <= Cardinality(Gone(sd2, seed, i))
      BY <1>2, <1>4, <2>1, GoneGrows
    <3> QED BY <3>1, <3>2
  <2>2. CASE i # r
    <3>1. table2[list[i]] = table[list[i]]
      BY <1>1, <1>4, <2>2 DEF Inserted
    <3> QED BY <1>3, <3>1
  <2> QED BY <2>1, <2>2
<1> QED BY <1>3, <1>4

\* What is left to show of a step of a process.
LEMMA CopiesFollow ==
  ASSUME TablesInv, CopiesCounted, NEW p \in Seeders, NEW there,
         seeder' = [seeder EXCEPT ![p] = there],
         \A seed \in {"cards", "spreads", "plans"} : \A i \in 1 .. 4 :
           HasDone(seeder[p], seed, i) => HasDone(there, seed, i),
         \/ cards' = cards
         \/ /\ cards' = cards + 1
            /\ ~HasDone(seeder[p], "cards", 4) /\ HasDone(there, "cards", 4),
         \/ spreads' = spreads
         \/ \E r \in 1 .. 4 :
              /\ spreads' = Inserted(spreads, SPREADS[r])
              /\ ~HasDone(seeder[p], "spreads", r) /\ HasDone(there, "spreads", r),
         \/ plans' = plans
         \/ \E r \in 1 .. 3 :
              /\ plans' = Inserted(plans, PLANS[r])
              /\ ~HasDone(seeder[p], "plans", r) /\ HasDone(there, "plans", r)
  PROVE  CopiesCounted'
<1>1. /\ seeder \in Places /\ cards \in Nat
      /\ spreads \in [RowsOf(SPREADS) -> Nat] /\ plans \in [RowsOf(PLANS) -> Nat]
  BY DEF TablesInv, SeedTypes
<1>2. /\ Fills("spreads", SPREADS) /\ Fills("plans", PLANS)
      /\ Len(SPREADS) = 4 /\ Len(PLANS) = 3
  BY DEF Fills, SPREADS, PLANS
<1>3. cards' <= Cardinality(Gone(seeder', "cards", 4))
  <2>1. /\ cards <= Cardinality(Gone(seeder, "cards", 4))
        /\ HasDone(seeder[p], "cards", 4) => HasDone(there, "cards", 4)
    BY DEF CopiesCounted
  <2>2. /\ cards <= Cardinality(Gone(seeder', "cards", 4))
        /\ ~HasDone(seeder[p], "cards", 4) /\ HasDone(there, "cards", 4)
             => cards + 1 <= Cardinality(Gone(seeder', "cards", 4))
    BY <1>1, <2>1, GoneGrows
  <2> QED BY <2>2
<1>4. \A i \in 1 .. 4 : spreads'[SPREADS[i]] <= Cardinality(Gone(seeder', "spreads", i))
  <2>1. \A i \in 1 .. Len(SPREADS) :
          /\ HasDone(seeder[p], "spreads", i) => HasDone(there, "spreads", i)
          /\ spreads[SPREADS[i]] <= Cardinality(Gone(seeder, "spreads", i))
    BY <1>2 DEF CopiesCounted
  <2> QED BY <1>1, <1>2, <2>1, TableCounted
<1>5. \A i \in 1 .. 3 : plans'[PLANS[i]] <= Cardinality(Gone(seeder', "plans", i))
  <2>1. \A i \in 1 .. Len(PLANS) :
          /\ HasDone(seeder[p], "plans", i) => HasDone(there, "plans", i)
          /\ plans[PLANS[i]] <= Cardinality(Gone(seeder, "plans", i))
    BY <1>2 DEF CopiesCounted
  <2> QED BY <1>1, <1>2, <2>1, TableCounted
<1> QED BY <1>3, <1>4, <1>5 DEF CopiesCounted

LEMMA CopiesOfCards ==
  ASSUME TablesInv, CopiesCounted, NEW p \in Seeders, SeedAll(p) \/ SeedCards(p)
  PROVE  CopiesCounted'
<1>1. /\ seeder \in Places /\ seeder[p].at \in {"ready", "cards"}
      /\ spreads' = spreads /\ plans' = plans
  BY DEF TablesInv, SeedTypes, SeedAll, SeedCards, At, Ready
<1>2. seeder[p].at = "cards" => seeder[p].row \in 1 .. 4
  BY <1>1, PlaceFields
<1>3. \A seed \in {"cards", "spreads", "plans"} : \A i \in 1 .. 4 :
        HasDone(seeder[p], seed, i) => seed = "cards" /\ i # 4 /\ SeedCards(p)
  BY <1>1, <1>2 DEF HasDone, SeedAll, Ready
<1>4. CASE SeedAll(p)
  <2>1. seeder' = [seeder EXCEPT ![p] = Script("cards")] /\ cards' = cards
    BY <1>4 DEF SeedAll, Goes
  <2>2. seeder[p].at = "ready"
    BY <1>4 DEF SeedAll, Ready
  <2>3. \A seed \in {"cards", "spreads", "plans"} : \A i \in 1 .. 4 :
          ~HasDone(seeder[p], seed, i)
    BY <2>2 DEF HasDone
  <2> QED BY <1>1, <2>1, <2>3, CopiesFollow
<1>5. CASE SeedCards(p)
  <2>1. PICK there :
          /\ seeder' = [seeder EXCEPT ![p] = there]
          /\ \/ seeder[p].step = "count" /\ cards' = cards
             \/ seeder[p].step = "insert" /\ there = Script("spreads") /\ cards' = cards + 1
    BY <1>5, WhereToGo DEF SeedCards, At, Goes
  <2>2. seeder[p].at = "cards" /\ Script("spreads").at = "spreads"
    BY <1>5, WhereToGo DEF SeedCards, At
  <2>3. HasDone(Script("spreads"), "cards", 4) /\ ~HasDone(seeder[p], "cards", 4)
    BY <1>2, <2>2 DEF HasDone
  <2>4. ASSUME NEW seed \in {"cards", "spreads", "plans"}, NEW i \in 1 .. 4,
               HasDone(seeder[p], seed, i)
        PROVE  HasDone(there, seed, i)
    <3>1. seed = "cards" /\ seeder[p].step = "insert"
      BY <2>2, <2>4 DEF HasDone
    <3>2. there = Script("spreads")
      BY <2>1, <3>1
    <3> QED BY <2>2, <3>1, <3>2 DEF HasDone
  <2> QED BY <1>1, <2>1, <2>3, <2>4, CopiesFollow
<1> QED BY <1>4, <1>5

\* Where a script that inserts row by row goes on.
GoesOnWith(p, seed, list, there) ==
  \/ /\ seeder[p].step = "insert"
     /\ there = IF seeder[p].row = Len(list) THEN After(seed)
                ELSE [seeder[p] EXCEPT !.row = @ + 1]
  \/ /\ seeder[p].step = "count"
     /\ there = After(seed) \/ there = [seeder[p] EXCEPT !.step = "insert"]

LEMMA RowDone ==
  ASSUME seeder \in Places, NEW p \in Seeders, NEW seed, NEW list, Fills(seed, list),
         NEW there, seeder[p].at = seed, GoesOnWith(p, seed, list, there)
  PROVE  /\ \A s \in {"cards", "spreads", "plans"} : \A i \in 1 .. 4 :
              HasDone(seeder[p], s, i) => HasDone(there, s, i)
         /\ seeder[p].step = "insert" =>
              /\ ~HasDone(seeder[p], seed, seeder[p].row)
              /\ HasDone(there, seed, seeder[p].row)
<1>1. /\ seeder[p] \in Scripts /\ seeder[p].row \in 1 .. 4
      /\ seed \in {"spreads", "plans"}
  BY PlaceFields DEF Fills
<1>2. /\ After(seed).at = IF seed = "spreads" THEN "plans" ELSE "ended"
      /\ After(seed).at # seed
  BY <1>1, WhereToGo
<1> DEFINE next == [seeder[p] EXCEPT !.row = @ + 1]
           first == [seeder[p] EXCEPT !.step = "insert"]
<1>3. /\ next.at = seed /\ next.step = seeder[p].step /\ next.row = seeder[p].row + 1
      /\ first.at = seed
  BY <1>1 DEF Scripts
<1> HIDE DEF next, first
<1>4. ASSUME NEW s \in {"cards", "spreads", "plans"}, NEW i \in 1 .. 4,
             HasDone(seeder[p], s, i)
      PROVE  HasDone(there, s, i)
  <2>1. CASE there = After(seed)
    BY <1>1, <1>2, <1>4, <2>1 DEF HasDone
  <2>2. CASE there = next /\ seeder[p].step = "insert"
    BY <1>1, <1>3, <1>4, <2>2 DEF HasDone
  <2>3. CASE there = first /\ seeder[p].step = "count"
    BY <1>1, <1>3, <1>4, <2>3 DEF HasDone
  <2> QED BY <2>1, <2>2, <2>3 DEF GoesOnWith, next, first
<1>5. ASSUME seeder[p].step = "insert"
      PROVE  /\ ~HasDone(seeder[p], seed, seeder[p].row)
             /\ HasDone(there, seed, seeder[p].row)
  <2>1. ~HasDone(seeder[p], seed, seeder[p].row)
    BY <1>1 DEF HasDone
  <2>2. CASE there = After(seed)
    BY <1>1, <1>2, <2>1, <2>2 DEF HasDone
  <2>3. CASE there = next
    BY <1>1, <1>3, <1>5, <2>1, <2>3 DEF HasDone
  <2> QED BY <1>5, <2>1, <2>2, <2>3 DEF GoesOnWith, next
<1> QED BY <1>4, <1>5

LEMMA CopiesOfRows ==
  ASSUME TablesInv, CopiesCounted, NEW p \in Seeders, SeedSpreads(p) \/ SeedPlans(p)
  PROVE  CopiesCounted'
<1>1. seeder \in Places /\ RowsInList(seeder) /\ cards' = cards
  BY DEF TablesInv, SeedTypes, SeedSpreads, SeedPlans
<1>2. /\ Fills("spreads", SPREADS) /\ Fills("plans", PLANS)
      /\ Len(SPREADS) = 4 /\ Len(PLANS) = 3
  BY DEF Fills, SPREADS, PLANS
<1>3. CASE SeedSpreads(p)
  <2>1. seeder[p].at = "spreads" /\ plans' = plans
    BY <1>3 DEF SeedSpreads, CountRows, InsertRow, At
  <2>2. PICK there :
          /\ seeder' = [seeder EXCEPT ![p] = there]
          /\ \/ /\ seeder[p].step = "insert"
                /\ there = IF seeder[p].row = 4 THEN After("spreads")
                           ELSE [seeder[p] EXCEPT !.row = @ + 1]
                /\ spreads' = Inserted(spreads, SPREADS[seeder[p].row])
             \/ /\ seeder[p].step = "count" /\ spreads' = spreads
                /\ there = After("spreads") \/ there = [seeder[p] EXCEPT !.step = "insert"]
    BY <1>2, <1>3 DEF SeedSpreads, CountRows, InsertRow, At, Goes
  <2>3. /\ \A s \in {"cards", "spreads", "plans"} : \A i \in 1 .. 4 :
             HasDone(seeder[p], s, i) => HasDone(there, s, i)
        /\ seeder[p].step = "insert" =>
             /\ ~HasDone(seeder[p], "spreads", seeder[p].row)
             /\ HasDone(there, "spreads", seeder[p].row)
    <3>1. GoesOnWith(p, "spreads", SPREADS, there)
      BY <1>2, <2>2 DEF GoesOnWith
    <3> QED BY <1>1, <1>2, <2>1, <3>1, RowDone
  <2>4. seeder[p].row \in 1 .. 4
    BY <1>1, <2>1, PlaceFields
  <2> QED BY <1>1, <2>1, <2>2, <2>3, <2>4, CopiesFollow
<1>4. CASE SeedPlans(p)
  <2>1. seeder[p].at = "plans" /\ spreads' = spreads
    BY <1>4 DEF SeedPlans, CountRows, InsertRow, At
  <2>2. PICK there :
          /\ seeder' = [seeder EXCEPT ![p] = there]
          /\ \/ /\ seeder[p].step = "insert"
                /\ there = IF seeder[p].row = 3 THEN After("plans")
                           ELSE [seeder[p] EXCEPT !.row = @ + 1]
                /\ plans' = Inserted(plans, PLANS[seeder[p].row])
             \/ /\ seeder[p].step = "count" /\ plans' = plans
                /\ there = After("plans") \/ there = [seeder[p] EXCEPT !.step = "insert"]
    BY <1>2, <1>4 DEF SeedPlans, CountRows, InsertRow, At, Goes
  <2>3. /\ \A s \in {"cards", "spreads", "plans"} : \A i \in 1 .. 4 :
             HasDone(seeder[p], s, i) => HasDone(there, s, i)
        /\ seeder[p].step = "insert" =>
             /\ ~HasDone(seeder[p], "plans", seeder[p].row)
             /\ HasDone(there, "plans", seeder[p].row)
    <3>1. GoesOnWith(p, "plans", PLANS, there)
      BY <1>2, <2>2 DEF GoesOnWith
    <3> QED BY <1>1, <1>2, <2>1, <3>1, RowDone
  <2>4. seeder[p].row \in 1 .. 3
    <3>1. seeder[p] \in Scripts /\ seeder[p].row \in 1 .. 4
      BY <1>1, <2>1, PlaceFields
    <3>2. seeder[p].row <= 3
      BY <1>1, <1>2, <2>1, <3>1 DEF RowsInList
    <3> QED BY <3>1, <3>2
  <2> QED BY <1>1, <2>1, <2>2, <2>3, <2>4, CopiesFollow
<1> QED BY <1>3, <1>4

\* A table that is made anew, and one that is empty.
LEMMA NothingCounted ==
  ASSUME cards = 0, spreads = Empty(SPREADS), plans = Empty(PLANS)
  PROVE  CopiesCounted
<1>1. /\ \A i \in 1 .. 4 : SPREADS[i] \in RowsOf(SPREADS)
      /\ \A i \in 1 .. 3 : PLANS[i] \in RowsOf(PLANS)
  BY ListRows DEF Fills, SPREADS, PLANS
<1>2. \A seed, i : Cardinality(Gone(seeder, seed, i)) \in Nat
  BY SeedersCounted DEF Gone
<1>3. /\ \A i \in 1 .. 4 : spreads[SPREADS[i]] = 0
      /\ \A i \in 1 .. 3 : plans[PLANS[i]] = 0
  BY <1>1 DEF Empty
<1> QED BY <1>2, <1>3 DEF CopiesCounted

\* The variables of the seeds have their types: no row of a table is there more
\* often than there are processes.
LEMMA SeedsTypeCorrect == SeedsSpec => []SeedsTypeOK
<1>1. SeedsInit => TablesInv /\ DrawInv /\ CopiesCounted /\ SchemaOK
  <2>1. SeedsInit => DrawInv
    BY DEF SeedsInit, DrawInv, NoDraw
  <2>2. SeedsInit => CopiesCounted
    BY NothingCounted DEF SeedsInit
  <2>3. SeedsInit => SchemaOK
    BY DEF SeedsInit, SchemaOK
  <2> QED BY <2>1, <2>2, <2>3, TablesBegin
<1>2. TablesInv /\ CopiesCounted /\ [SeedsNext]_seedVars => CopiesCounted'
  <2> SUFFICES ASSUME TablesInv, CopiesCounted, [SeedsNext]_seedVars
               PROVE  CopiesCounted'
    OBVIOUS
  <2>1. ASSUME UNCHANGED <<tables, seeder>>
        PROVE  CopiesCounted'
    BY <2>1 DEF CopiesCounted, Gone, tables
  <2>2. ASSUME NEW p \in Seeders, SeedStops(p)
        PROVE  CopiesCounted'
    <3>1. /\ seeder' = [seeder EXCEPT ![p] = Ended]
          /\ cards' = cards /\ spreads' = spreads /\ plans' = plans
      BY <2>2 DEF SeedStops, tables
    <3>2. \A seed \in {"cards", "spreads", "plans"} : \A i \in 1 .. 4 :
            HasDone(Ended, seed, i)
      BY WhereToGo DEF HasDone
    <3> QED BY <3>1, <3>2, CopiesFollow
  <2>3. ASSUME NEW action, RunMigration(action)
        PROVE  CopiesCounted'
    <3>1. CASE UNCHANGED <<tables, cut>>
      BY <2>1, <2>3, <3>1 DEF RunMigration
    <3>2. CASE cards' = 0 /\ spreads' = Empty(SPREADS) /\ plans' = Empty(PLANS)
      <4>1. \A i \in 1 .. 4 : SPREADS[i] \in RowsOf(SPREADS)
        BY ListRows DEF Fills, SPREADS
      <4>2. \A i \in 1 .. 3 : PLANS[i] \in RowsOf(PLANS)
        BY ListRows DEF Fills, PLANS
      <4>3. \A seed, i : Cardinality(Gone(seeder', seed, i)) \in Nat
        BY SeedersCounted DEF Gone
      <4>4. /\ \A i \in 1 .. 4 : spreads'[SPREADS[i]] = 0
            /\ \A i \in 1 .. 3 : plans'[PLANS[i]] = 0
        BY <3>2, <4>1, <4>2 DEF Empty
      <4> QED BY <3>2, <4>3, <4>4 DEF CopiesCounted
    <3> QED BY <2>3, <3>1, <3>2 DEF RunMigration
  <2>4. CASE \/ \E ids \in SUBSET AskedIds : DrawCards(ids)
             \/ \E id \in AskedIds : GetCardDetails(id) \/ ExpireDetails(id)
             \/ UNCHANGED seedVars
    BY <2>1, <2>4 DEF DrawCards, GetCardDetails, ExpireDetails, seedVars, tables
  <2> QED BY <2>2, <2>3, <2>4, CopiesOfCards, CopiesOfRows DEF SeedsNext
<1>3. SchemaOK /\ [SeedsNext]_seedVars => SchemaOK'
  BY DEF SchemaOK, SeedsNext, SeedAll, SeedCards, SeedSpreads, SeedPlans, CountRows,
         InsertRow, Goes, SeedStops, RunMigration, DrawCards, GetCardDetails,
         ExpireDetails, seedVars
<1>4. TablesInv /\ DrawInv /\ CopiesCounted /\ SchemaOK => SeedsTypeOK
  <2> SUFFICES ASSUME TablesInv, DrawInv, CopiesCounted, SchemaOK
               PROVE  SeedsTypeOK
    OBVIOUS
  <2>1. /\ seeder \in Places /\ cards \in Nat
        /\ spreads \in [RowsOf(SPREADS) -> Nat] /\ plans \in [RowsOf(PLANS) -> Nat]
        /\ cut \in BOOLEAN /\ overlapped \in BOOLEAN
    BY DEF TablesInv, SeedTypes
  <2>2. ASSUME NEW n \in Nat, NEW seed, NEW i, n <= Cardinality(Gone(seeder, seed, i))
        PROVE  n \in Copies
    <3>1. /\ Cardinality(Gone(seeder, seed, i)) <= Cardinality(Seeders)
          /\ Cardinality(Gone(seeder, seed, i)) \in Nat /\ Cardinality(Seeders) \in Nat
      BY SeedersCounted DEF Gone
    <3> QED BY <2>2, <3>1 DEF Copies
  <2>3. cards \in Copies
    BY <2>1, <2>2 DEF CopiesCounted
  <2>4. spreads \in [RowsOf(SPREADS) -> Copies]
    <3>1. ASSUME NEW row \in RowsOf(SPREADS)
          PROVE  spreads[row] \in Copies
      <4>1. Len(SPREADS) = 4 /\ Fills("spreads", SPREADS)
        BY DEF SPREADS, Fills
      <4>2. PICK i \in 1 .. 4 : row = SPREADS[i]
        BY <4>1, ListRows
      <4> QED BY <2>1, <2>2, <4>2 DEF CopiesCounted
    <3> QED BY <2>1, <3>1
  <2>5. plans \in [RowsOf(PLANS) -> Copies]
    <3>1. ASSUME NEW row \in RowsOf(PLANS)
          PROVE  plans[row] \in Copies
      <4>1. Len(PLANS) = 3 /\ Fills("plans", PLANS)
        BY DEF PLANS, Fills
      <4>2. PICK i \in 1 .. 3 : row = PLANS[i]
        BY <4>1, ListRows
      <4> QED BY <2>1, <2>2, <4>2 DEF CopiesCounted
    <3> QED BY <2>1, <3>1
  <2> QED BY <2>1, <2>3, <2>4, <2>5 DEF DrawInv, Places, SchemaOK, SeedsTypeOK
<1> QED BY <1>1, <1>2, <1>3, <1>4, TablesInductive, DrawInductive, PTL DEF SeedsSpec

-----------------------------------------------------------------------------
(***************************************************************************)
(* The accounts of TarotReading and the requests of the page.              *)
(***************************************************************************)

\* A request, whatever its attempts and rows.
CallShapes ==
  [op : Ops, about : Users \union {NoCall.about}, valid : BOOLEAN, try : Nat,
   by : SUBSET JwtTokens,
   stage : AtRest \union {"attach", "sent", "verified", "handler", "create",
                        "answered"},
   user : SUBSET Users, status : {0, 200, 201, 401, 403, 404, 500},
   rows : Nat, lost : BOOLEAN, then : SUBSET Users]

OneAtMost(set) == \A a, b \in set : a = b

AccountTypes ==
  /\ day \in Nat
  /\ account \in [Users -> {"none", "active", "suspended"}]
  /\ script \in [ScriptRuns -> [for : Users, at : {"start", "create", "issue", "done", "failed"}]]
  /\ tokens \subseteq JwtTokens
  /\ stored \subseteq tokens /\ OneAtMost(stored)
  /\ held \subseteq tokens /\ OneAtMost(held)
  /\ feedback \in [Users -> Nat]
  /\ call \in CallShapes
  /\ call.by \subseteq tokens /\ OneAtMost(call.by)

\* A token is signed for a user whose row is there, and no row goes.
TokensHaveUsers ==
  /\ \A r \in ScriptRuns : script[r].at = "issue" => account[script[r].for] # "none"
  /\ \A t \in tokens : account[t.user] # "none"

\* What the middleware has established about a request at each of its stages.
Found(c) ==
  /\ c.by # {} /\ c.user = {t.user : t \in c.by} /\ c.user \subseteq c.then
  /\ \A t \in c.by : t.type = "access"

UserOK(c) ==
  /\ c.stage \in {"sent", "verified"} =>
       \A t \in c.by : account[t.user] = "active" => t.user \in c.then
  /\ c.stage = "verified" => c.by # {} /\ \A t \in c.by : t.type = "access"
  /\ c.stage \in {"handler", "create"} => Found(c)
  /\ c.stage = "answered" /\ c.status \in {200, 201} =>
       Found(c) /\ (c.op # "recent" => c.user = {c.about})

\* The rows of a request by the stage of its attempt.
RowsCounted(c) ==
  /\ c.rows <= c.try
  /\ c.stage \in {"attach", "sent", "verified", "handler", "create"} =>
       c.rows < c.try /\ (~c.lost => c.rows = 0)
  /\ c.stage = "create" =>
       c.op = "feedback" /\ c.valid /\ c.about \in read /\ c.user = {c.about}
  /\ c.stage = "answered" =>
       /\ c.status # 0
       /\ c.status # 201 /\ ~c.lost => c.rows = 0
       /\ c.op = "feedback" /\ c.status \in {200, 201} => c.rows >= 1
       /\ ~c.valid => c.status \notin {200, 201}
  /\ ~c.lost => c.rows <= 1
  /\ c.stage = "ok" /\ c.op = "feedback" => c.rows >= 1
  /\ c.stage = "refused" /\ ~c.lost => c.rows = 0
  /\ ~c.valid => c.op = "feedback" /\ c.rows = 0 /\ c.stage # "ok"

AccountsInv ==
  /\ AccountTypes /\ TokensHaveUsers /\ TokensEndWithTheirPair
  /\ UserOK(call) /\ RowsCounted(call)
  /\ \A u \in Users : feedback[u] > 0 => u \in read

Statuses == {0, 200, 201, 401, 403, 404, 500}
Stages == AtRest \union {"attach", "sent", "verified", "handler", "create", "answered"}

LEMMA CallShape ==
  ASSUME NEW c \in CallShapes
  PROVE  /\ c = [op |-> c.op, about |-> c.about, valid |-> c.valid, try |-> c.try,
                 by |-> c.by, stage |-> c.stage, user |-> c.user,
                 status |-> c.status, rows |-> c.rows, lost |-> c.lost,
                 then |-> c.then]
         /\ c.op \in Ops /\ c.about \in Users \union {NoCall.about}
         /\ c.valid \in BOOLEAN /\ c.try \in Nat /\ c.by \subseteq JwtTokens
         /\ c.stage \in Stages /\ c.user \subseteq Users /\ c.status \in Statuses
         /\ c.rows \in Nat /\ c.lost \in BOOLEAN /\ c.then \subseteq Users
<1> HIDE DEF NoCall
<1> QED BY DEF CallShapes, Statuses, Stages

\* A request is answered, with what the middleware knows of it.
LEMMA AnswerFields ==
  ASSUME NEW c \in CallShapes, NEW status \in Statuses
  PROVE  /\ Answered(c, status) \in CallShapes
         /\ Answered(c, status).stage = "answered"
         /\ Answered(c, status).status = status
         /\ Answered(c, status).op = c.op /\ Answered(c, status).about = c.about
         /\ Answered(c, status).valid = c.valid /\ Answered(c, status).try = c.try
         /\ Answered(c, status).by = c.by /\ Answered(c, status).user = c.user
         /\ Answered(c, status).rows = c.rows /\ Answered(c, status).lost = c.lost
         /\ Answered(c, status).then = c.then
<1> HIDE DEF NoCall
<1> DEFINE about == NoCall.about
<1> HIDE DEF about
<1>1. CallShapes =
  [op : Ops, about : Users \union {about}, valid : BOOLEAN, try : Nat,
   by : SUBSET JwtTokens, stage : Stages, user : SUBSET Users, status : Statuses,
   rows : Nat, lost : BOOLEAN, then : SUBSET Users]
  BY DEF CallShapes, Stages, Statuses, about
<1>2. "answered" \in Stages
  BY DEF Stages
<1> QED BY <1>1, <1>2 DEF Answered

\* It is over, or begins again.
LEMMA EndFields ==
  ASSUME NEW c \in CallShapes, NEW how \in Stages
  PROVE  /\ EndsAs(c, how) \in CallShapes
         /\ EndsAs(c, how).stage = how /\ EndsAs(c, how).status = 0
         /\ EndsAs(c, how).by = {} /\ EndsAs(c, how).user = {}
         /\ EndsAs(c, how).op = c.op /\ EndsAs(c, how).about = c.about
         /\ EndsAs(c, how).valid = c.valid /\ EndsAs(c, how).try = c.try
         /\ EndsAs(c, how).rows = c.rows /\ EndsAs(c, how).lost = c.lost
<1> HIDE DEF NoCall
<1> DEFINE about == NoCall.about
<1> HIDE DEF about
<1>1. CallShapes =
  [op : Ops, about : Users \union {about}, valid : BOOLEAN, try : Nat,
   by : SUBSET JwtTokens, stage : Stages, user : SUBSET Users, status : Statuses,
   rows : Nat, lost : BOOLEAN, then : SUBSET Users]
  BY DEF CallShapes, Stages, Statuses, about
<1>2. 0 \in Statuses
  BY DEF Statuses
<1> QED BY <1>1, <1>2 DEF EndsAs

LEMMA RetryFields ==
  ASSUME NEW c \in CallShapes
  PROVE  /\ RetryOrFail(c) \in CallShapes
         /\ \/ /\ RetryOrFail(c).stage = "attach" /\ RetryOrFail(c).try = c.try + 1
               /\ c.try < MaxTries
            \/ RetryOrFail(c).stage = "failed" /\ RetryOrFail(c).try = c.try
         /\ RetryOrFail(c).by = {} /\ RetryOrFail(c).user = {}
         /\ RetryOrFail(c).op = c.op /\ RetryOrFail(c).about = c.about
         /\ RetryOrFail(c).valid = c.valid
         /\ RetryOrFail(c).rows = c.rows /\ RetryOrFail(c).lost = c.lost
<1> HIDE DEF NoCall
<1> DEFINE about == NoCall.about
           d == EndsAs(c, "attach")
<1> HIDE DEF about
<1>1. CallShapes =
  [op : Ops, about : Users \union {about}, valid : BOOLEAN, try : Nat,
   by : SUBSET JwtTokens, stage : Stages, user : SUBSET Users, status : Statuses,
   rows : Nat, lost : BOOLEAN, then : SUBSET Users]
  BY DEF CallShapes, Stages, Statuses, about
<1>2. "attach" \in Stages /\ "failed" \in Stages
  BY DEF Stages, AtRest
<1>3. /\ d \in CallShapes /\ d.stage = "attach" /\ d.by = {} /\ d.user = {}
      /\ d.op = c.op /\ d.about = c.about /\ d.valid = c.valid /\ d.try = c.try
      /\ d.rows = c.rows /\ d.lost = c.lost
  BY <1>2, EndFields
<1> HIDE DEF d
<1>4. CASE c.try < MaxTries
  <2>1. RetryOrFail(c) = [d EXCEPT !.try = @ + 1]
    BY <1>4 DEF RetryOrFail, d
  <2>2. /\ RetryOrFail(c) \in CallShapes /\ RetryOrFail(c).try = d.try + 1
        /\ RetryOrFail(c).stage = d.stage /\ RetryOrFail(c).by = d.by
        /\ RetryOrFail(c).user = d.user /\ RetryOrFail(c).op = d.op
        /\ RetryOrFail(c).about = d.about /\ RetryOrFail(c).valid = d.valid
        /\ RetryOrFail(c).rows = d.rows /\ RetryOrFail(c).lost = d.lost
    BY <1>1, <1>3, <2>1
  <2> QED BY <1>3, <1>4, <2>2
<1>5. CASE ~(c.try < MaxTries)
  <2>1. RetryOrFail(c) = EndsAs(c, "failed")
    BY <1>5 DEF RetryOrFail
  <2> QED BY <1>2, <2>1, EndFields
<1> QED BY <1>4, <1>5

\* Its answer is lost, or a row is created for it.
LEMMA LossFields ==
  ASSUME NEW c \in CallShapes
  PROVE  /\ [c EXCEPT !.lost = TRUE] \in CallShapes
         /\ [c EXCEPT !.lost = TRUE].lost = TRUE
         /\ [c EXCEPT !.lost = TRUE].op = c.op
         /\ [c EXCEPT !.lost = TRUE].about = c.about
         /\ [c EXCEPT !.lost = TRUE].valid = c.valid
         /\ [c EXCEPT !.lost = TRUE].try = c.try
         /\ [c EXCEPT !.lost = TRUE].rows = c.rows
         /\ [c EXCEPT !.rows = @ + 1] \in CallShapes
         /\ [c EXCEPT !.rows = @ + 1].rows = c.rows + 1
         /\ [c EXCEPT !.rows = @ + 1].op = c.op
         /\ [c EXCEPT !.rows = @ + 1].about = c.about
         /\ [c EXCEPT !.rows = @ + 1].valid = c.valid
         /\ [c EXCEPT !.rows = @ + 1].try = c.try
         /\ [c EXCEPT !.rows = @ + 1].by = c.by
         /\ [c EXCEPT !.rows = @ + 1].user = c.user
         /\ [c EXCEPT !.rows = @ + 1].then = c.then
         /\ [c EXCEPT !.rows = @ + 1].lost = c.lost
<1> HIDE DEF NoCall
<1> DEFINE about == NoCall.about
<1> HIDE DEF about
<1>1. CallShapes =
  [op : Ops, about : Users \union {about}, valid : BOOLEAN, try : Nat,
   by : SUBSET JwtTokens, stage : Stages, user : SUBSET Users, status : Statuses,
   rows : Nat, lost : BOOLEAN, then : SUBSET Users]
  BY DEF CallShapes, Stages, Statuses, about
<1> DEFINE lost == [c EXCEPT !.lost = TRUE]
           more == [c EXCEPT !.rows = @ + 1]
<1>2. /\ lost \in CallShapes /\ lost.lost = TRUE
      /\ lost.op = c.op /\ lost.about = c.about /\ lost.valid = c.valid
      /\ lost.try = c.try /\ lost.rows = c.rows
  BY <1>1
<1>3. more \in CallShapes /\ more.rows = c.rows + 1
  BY <1>1
<1>4. /\ more.op = c.op /\ more.about = c.about /\ more.valid = c.valid
      /\ more.try = c.try /\ more.by = c.by /\ more.user = c.user
      /\ more.then = c.then /\ more.lost = c.lost
  BY <1>1
<1> QED BY <1>2, <1>3, <1>4

RunsOK(runs) ==
  runs \in [ScriptRuns -> [for : Users, at : {"start", "create", "issue", "done", "failed"}]]

LEMMA RunMoves ==
  ASSUME RunsOK(script), NEW r \in ScriptRuns,
         NEW goal \in {"create", "issue", "done", "failed"}, RunGoes(r, goal)
  PROVE  /\ RunsOK(script') /\ script[r].for \in Users
         /\ script'[r].for = script[r].for /\ script'[r].at = goal
         /\ \A q \in ScriptRuns \ {r} : script'[q] = script[q]
<1>1. script' = [script EXCEPT ![r] = [script[r] EXCEPT !.at = goal]]
  BY DEF RunGoes
<1>2. script[r] \in [for : Users, at : {"start", "create", "issue", "done", "failed"}]
  BY DEF RunsOK
<1>3. /\ [script[r] EXCEPT !.at = goal] \in
           [for : Users, at : {"start", "create", "issue", "done", "failed"}]
      /\ [script[r] EXCEPT !.at = goal].at = goal
      /\ [script[r] EXCEPT !.at = goal].for = script[r].for
      /\ script[r].for \in Users
  BY <1>2
<1> QED BY <1>1, <1>3 DEF RunsOK

\* What is left to show of a step of the users, the tokens and the clock.
LEMMA RequestRests ==
  ASSUME AccountsInv, UNCHANGED <<call, feedback>>,
         day' \in Nat, account' \in [Users -> {"none", "active", "suspended"}],
         RunsOK(script'), tokens' \subseteq JwtTokens, tokens \subseteq tokens',
         stored' \subseteq tokens' /\ OneAtMost(stored'),
         held' \subseteq tokens' /\ OneAtMost(held'),
         TokensHaveUsers', TokensEndWithTheirPair', read \subseteq read',
         \A t \in tokens : account'[t.user] = "active" => account[t.user] = "active"
  PROVE  AccountsInv'
<1>1. AccountTypes'
  BY DEF AccountsInv, AccountTypes, RunsOK
<1>2. UserOK(call)'
  <2>1. \A t \in call.by : account'[t.user] = "active" => account[t.user] = "active"
    BY DEF AccountsInv, AccountTypes
  <2> QED BY <2>1 DEF AccountsInv, UserOK, Found
<1>3. RowsCounted(call)'
  BY DEF AccountsInv, RowsCounted
<1> QED BY <1>1, <1>2, <1>3 DEF AccountsInv

LEMMA SignedToken ==
  ASSUME day \in Nat, NEW u \in Users, NEW type \in {"access", "refresh"}
  PROVE  /\ Sign(u, type) \in JwtTokens
         /\ Sign(u, type).user = u /\ Sign(u, type).type = type
         /\ type = "access" => Sign(u, type).until = day + AccessLife
         /\ AccessLife \in Nat
BY AccountsAssumption DEF AccountsAssumption, Sign, JwtTokens

LEMMA AccountSteps ==
  ASSUME AccountsInv,
         \/ \E r \in ScriptRuns : FindTestUser(r) \/ CreateTestUser(r)
                                    \/ GenerateTokenPair(r)
         \/ \E t \in tokens : RefreshAccessToken(t) \/ SetAuthToken(t)
         \/ \E u \in Users : Suspend(u) \/ DrawFor(u)
         \/ DayPasses \/ ClearAuthToken \/ StoredElsewhere \/ LoadPage
  PROVE  AccountsInv'
<1>1. /\ day \in Nat /\ account \in [Users -> {"none", "active", "suspended"}]
      /\ RunsOK(script) /\ tokens \subseteq JwtTokens
      /\ stored \subseteq tokens /\ OneAtMost(stored)
      /\ held \subseteq tokens /\ OneAtMost(held)
      /\ TokensHaveUsers /\ TokensEndWithTheirPair
  BY DEF AccountsInv, AccountTypes, RunsOK
<1>2. ASSUME NEW r \in ScriptRuns, FindTestUser(r)
      PROVE  AccountsInv'
  <2>1. /\ UNCHANGED <<day, account, read, tokens, stored, held, call, feedback>>
        /\ RunGoes(r, IF account[script[r].for] = "none" THEN "create" ELSE "issue")
    BY <1>2 DEF FindTestUser
  <2>2. RunsOK(script')
        /\ script'[r].for = script[r].for
        /\ (script'[r].at = "issue" => account[script[r].for] # "none")
        /\ \A q \in ScriptRuns \ {r} : script'[q] = script[q]
    <3>1. CASE account[script[r].for] = "none"
      BY <1>1, <2>1, <3>1, RunMoves
    <3>2. CASE account[script[r].for] # "none"
      BY <1>1, <2>1, <3>2, RunMoves
    <3> QED BY <3>1, <3>2
  <2>3. TokensHaveUsers'
    BY <1>1, <2>1, <2>2 DEF TokensHaveUsers
  <2>4. TokensEndWithTheirPair'
    BY <1>1, <2>1 DEF TokensEndWithTheirPair
  <2> QED BY <1>1, <2>1, <2>2, <2>3, <2>4, RequestRests
<1>3. ASSUME NEW r \in ScriptRuns, CreateTestUser(r)
      PROVE  AccountsInv'
  <2>1. /\ UNCHANGED <<day, read, tokens, stored, held, call, feedback>>
        /\ script[r].at = "create"
    BY <1>3 DEF CreateTestUser
  <2>2. TokensEndWithTheirPair'
    BY <1>1, <2>1 DEF TokensEndWithTheirPair
  <2>3. CASE /\ account[script[r].for] = "none" /\ RunGoes(r, "issue")
             /\ account' = [account EXCEPT ![script[r].for] = "active"]
    <3>1. RunsOK(script') /\ script[r].for \in Users
          /\ script'[r].for = script[r].for
          /\ \A q \in ScriptRuns \ {r} : script'[q] = script[q]
      BY <1>1, <2>3, RunMoves
    <3>2. \A u \in Users : account'[u] = IF u = script[r].for THEN "active" ELSE account[u]
      BY <1>1, <2>3
    <3>3. account' \in [Users -> {"none", "active", "suspended"}]
      BY <1>1, <2>3
    <3>4. \A q \in ScriptRuns : script[q].for \in Users
      BY <1>1 DEF RunsOK
    <3>5. \A t \in tokens : t.user \in Users
      BY <1>1 DEF JwtTokens
    <3>6. TokensHaveUsers'
      BY <1>1, <2>1, <3>1, <3>2, <3>4, <3>5 DEF TokensHaveUsers
    <3>7. \A t \in tokens : account'[t.user] = account[t.user]
      BY <1>1, <2>3, <3>2, <3>5 DEF TokensHaveUsers
    <3> QED BY <1>1, <2>1, <2>2, <3>1, <3>3, <3>6, <3>7, RequestRests
  <2>4. CASE RunGoes(r, "failed") /\ UNCHANGED account
    <3>1. RunsOK(script') /\ script'[r].at = "failed"
          /\ \A q \in ScriptRuns \ {r} : script'[q] = script[q]
      BY <1>1, <2>4, RunMoves
    <3>2. TokensHaveUsers'
      BY <1>1, <2>1, <2>4, <3>1 DEF TokensHaveUsers
    <3> QED BY <1>1, <2>1, <2>2, <2>4, <3>1, <3>2, RequestRests
  <2> QED BY <1>3, <2>3, <2>4 DEF CreateTestUser
<1>4. ASSUME NEW r \in ScriptRuns, GenerateTokenPair(r)
      PROVE  AccountsInv'
  <2> DEFINE u == script[r].for
             a == Sign(u, "access")
             p == Sign(u, "refresh")
  <2>1. /\ UNCHANGED <<day, account, read, stored, held, call, feedback>>
        /\ script[r].at = "issue" /\ RunGoes(r, "done")
        /\ tokens' = tokens \union {a, p}
    BY <1>4 DEF GenerateTokenPair
  <2>2. /\ RunsOK(script') /\ u \in Users /\ script'[r].at = "done"
        /\ \A q \in ScriptRuns \ {r} : script'[q] = script[q]
    BY <1>1, <2>1, RunMoves
  <2>3. /\ a \in JwtTokens /\ p \in JwtTokens /\ a.user = u /\ p.user = u
        /\ p.type = "refresh" /\ a.until = day + AccessLife
        /\ AccessLife \in Nat
    BY <1>1, <2>2, SignedToken
  <2>4. p.until = day + RefreshLife /\ RefreshLife \in Nat
    BY AccountsAssumption DEF AccountsAssumption, Sign
  <2> HIDE DEF a, p
  <2>5. TokensHaveUsers'
    BY <1>1, <2>1, <2>2, <2>3 DEF TokensHaveUsers
  <2>6. TokensEndWithTheirPair'
    <3>1. \A t \in tokens : t.until \in Nat
      BY <1>1 DEF JwtTokens
    <3>2. \A t \in tokens : \E k \in tokens' :
            k.user = t.user /\ k.type = "refresh" /\ t.until <= k.until + AccessLife
      BY <1>1, <2>1 DEF TokensEndWithTheirPair
    <3>3. a.until <= p.until + AccessLife /\ p.until <= p.until + AccessLife
      BY <1>1, <2>3, <2>4
    <3> QED BY <2>1, <2>3, <3>2, <3>3 DEF TokensEndWithTheirPair
  <2> QED BY <1>1, <2>1, <2>2, <2>3, <2>5, <2>6, RequestRests
<1>5. ASSUME NEW t \in tokens, RefreshAccessToken(t)
      PROVE  AccountsInv'
  <2> DEFINE a == Sign(t.user, "access")
  <2>1. /\ UNCHANGED <<day, account, script, read, stored, held, call, feedback>>
        /\ t.type = "refresh" /\ ~(day >= t.until)
        /\ tokens' = tokens \union {a}
    BY <1>5 DEF RefreshAccessToken, Expired
  <2>2. t \in JwtTokens /\ t.user \in Users /\ t.until \in Nat
    BY <1>1 DEF JwtTokens
  <2>3. /\ a \in JwtTokens /\ a.user = t.user /\ a.until = day + AccessLife
        /\ AccessLife \in Nat
    BY <1>1, <2>2, SignedToken
  <2> HIDE DEF a
  <2>4. TokensHaveUsers'
    BY <1>1, <2>1, <2>3 DEF TokensHaveUsers
  <2>5. TokensEndWithTheirPair'
    <3>1. a.until <= t.until + AccessLife
      BY <1>1, <2>1, <2>2, <2>3
    <3> QED BY <1>1, <2>1, <2>3, <3>1 DEF TokensEndWithTheirPair
  <2> QED BY <1>1, <2>1, <2>3, <2>4, <2>5, RequestRests
<1>6. ASSUME UNCHANGED <<script, tokens, call, feedback>>,
             day' \in Nat, read \subseteq read',
             account' \in [Users -> {"none", "active", "suspended"}],
             \A u \in Users : /\ account[u] # "none" => account'[u] # "none"
                              /\ account'[u] = "active" => account[u] = "active",
             stored' \subseteq tokens /\ OneAtMost(stored'),
             held' \subseteq tokens /\ OneAtMost(held')
      PROVE  AccountsInv'
  <2>1. \A t \in tokens : t.user \in Users
    BY <1>1 DEF JwtTokens
  <2>2. \A q \in ScriptRuns : script[q].for \in Users
    BY <1>1 DEF RunsOK
  <2>3. TokensHaveUsers'
    BY <1>1, <1>6, <2>1, <2>2 DEF TokensHaveUsers
  <2>4. TokensEndWithTheirPair'
    BY <1>1, <1>6 DEF TokensEndWithTheirPair
  <2> QED BY <1>1, <1>6, <2>1, <2>3, <2>4, RequestRests
<1>7. ASSUME NEW u \in Users, Suspend(u)
      PROVE  AccountsInv'
  <2>1. account' = [account EXCEPT ![u] = "suspended"]
        /\ UNCHANGED <<day, script, read, tokens, stored, held, call, feedback>>
    BY <1>7 DEF Suspend
  <2>2. \A v \in Users : account'[v] = IF v = u THEN "suspended" ELSE account[v]
    BY <1>1, <2>1
  <2> QED BY <1>1, <1>6, <2>1, <2>2
<1>8. CASE (\E u \in Users : DrawFor(u)) \/ DayPasses
  BY <1>1, <1>6, <1>8 DEF DrawFor, DayPasses
<1>9. CASE ClearAuthToken \/ LoadPage
  BY <1>1, <1>6, <1>9 DEF ClearAuthToken, LoadPage, OneAtMost
<1>10. CASE StoredElsewhere \/ \E t \in tokens : SetAuthToken(t)
  BY <1>1, <1>6, <1>10 DEF StoredElsewhere, SetAuthToken, OneAtMost
<1> QED BY <1>2, <1>3, <1>4, <1>5, <1>7, <1>8, <1>9, <1>10

\* What is left to show of a step of the request.
LEMMA RequestMoves ==
  ASSUME AccountsInv, UNCHANGED <<day, account, script, read, tokens, stored>>,
         held' \subseteq tokens /\ OneAtMost(held'),
         feedback' \in [Users -> Nat], \A u \in Users : feedback'[u] > 0 => u \in read,
         call' \in CallShapes, call'.by \subseteq tokens, OneAtMost(call'.by),
         UserOK(call)', RowsCounted(call)'
  PROVE  AccountsInv'
<1>1. AccountTypes'
  BY DEF AccountsInv, AccountTypes
<1>2. TokensHaveUsers' /\ TokensEndWithTheirPair'
  BY DEF AccountsInv, TokensHaveUsers, TokensEndWithTheirPair
<1> QED BY <1>1, <1>2 DEF AccountsInv

LEMMA CallNow ==
  ASSUME AccountsInv
  PROVE  /\ call \in CallShapes /\ call.by \subseteq tokens /\ OneAtMost(call.by)
         /\ held \subseteq tokens /\ OneAtMost(held)
         /\ stored \subseteq tokens /\ OneAtMost(stored)
         /\ feedback \in [Users -> Nat]
         /\ \A u \in Users : feedback[u] > 0 => u \in read
         /\ UserOK(call) /\ RowsCounted(call)
         /\ \A t \in tokens : t \in JwtTokens /\ t.user \in Users
BY DEF AccountsInv, AccountTypes, JwtTokens

LEMMA AskKeeps ==
  ASSUME AccountsInv, NEW op \in Ops, NEW about \in Users, NEW valid \in BOOLEAN,
         Ask(op, about, valid)
  PROVE  AccountsInv'
<1>1. /\ call' = [op |-> op, about |-> about, valid |-> valid, try |-> 1, by |-> {},
                  stage |-> "attach", user |-> {}, status |-> 0, rows |-> 0,
                  lost |-> FALSE, then |-> {}]
      /\ op # "feedback" => valid
      /\ UNCHANGED <<day, account, script, read, tokens, stored, held, feedback>>
  BY DEF Ask, NoCall
<1> HIDE DEF NoCall
<1>2. call' \in CallShapes
  BY <1>1 DEF CallShapes
<1>3. call'.by = {} /\ call'.stage = "attach" /\ call'.rows = 0 /\ call'.try = 1
      /\ call'.valid = valid /\ call'.op = op
  BY <1>1
<1>4. UserOK(call)'
  BY <1>3 DEF UserOK
<1>5. RowsCounted(call)'
  BY <1>1, <1>3 DEF RowsCounted
<1>6. OneAtMost(call'.by)
  BY <1>3 DEF OneAtMost
<1> QED BY <1>1, <1>2, <1>3, <1>4, <1>5, <1>6, CallNow, RequestMoves

LEMMA GetAuthTokenKeeps ==
  ASSUME AccountsInv, GetAuthToken
  PROVE  AccountsInv'
<1> DEFINE then == {t.user : t \in {k \in held' : account[k.user] = "active"}}
<1>1. /\ call.stage = "attach"
      /\ held' = IF held = {} THEN stored ELSE held
      /\ call' = [call EXCEPT !.stage = "sent", !.by = held', !.then = then]
      /\ UNCHANGED <<day, account, script, read, tokens, stored, feedback>>
  BY DEF GetAuthToken
<1>2. held' \subseteq tokens /\ OneAtMost(held')
  BY <1>1, CallNow
<1>3. then \subseteq Users /\ held' \subseteq JwtTokens
  BY <1>2, CallNow
<1>4. \A t \in held' : account[t.user] = "active" => t.user \in then
  OBVIOUS
<1> HIDE DEF then, NoCall
<1>5. call' = [op |-> call.op, about |-> call.about, valid |-> call.valid,
               try |-> call.try, by |-> held', stage |-> "sent", user |-> call.user,
               status |-> call.status, rows |-> call.rows, lost |-> call.lost,
               then |-> then]
  <2>1. call = [op |-> call.op, about |-> call.about, valid |-> call.valid,
               try |-> call.try, by |-> call.by, stage |-> call.stage,
               user |-> call.user, status |-> call.status, rows |-> call.rows,
               lost |-> call.lost, then |-> call.then]
    BY CallNow, CallShape
  <2> QED BY ONLY <2>1, <1>1
<1>6. call' \in CallShapes
  BY <1>3, <1>5, CallNow, CallShape DEF CallShapes, Statuses
<1>7. UserOK(call)'
  BY <1>1, <1>4, <1>5 DEF UserOK
<1>8. RowsCounted(call)'
  <2>1. /\ call'.stage = "sent" /\ call'.rows = call.rows /\ call'.try = call.try
        /\ call'.lost = call.lost /\ call'.valid = call.valid /\ call'.op = call.op
    BY <1>5
  <2> QED BY <1>1, <2>1, CallNow DEF RowsCounted
<1> QED BY <1>1, <1>2, <1>5, <1>6, <1>7, <1>8, CallNow, RequestMoves

\* Whoever is answered, not with success, has only to have his rows counted.
LEMMA Refused ==
  ASSUME AccountsInv, UNCHANGED <<day, account, script, read, tokens, stored, held>>,
         UNCHANGED feedback, NEW status \in {401, 403, 404, 500},
         call.stage \in {"sent", "verified", "handler", "create"},
         call' = Answered(call, status)
  PROVE  AccountsInv'
<1>1. /\ call' \in CallShapes /\ call'.stage = "answered" /\ call'.status = status
      /\ call'.by = call.by /\ call'.rows = call.rows /\ call'.try = call.try
      /\ call'.lost = call.lost /\ call'.valid = call.valid /\ call'.op = call.op
  BY CallNow, AnswerFields DEF Statuses
<1>2. UserOK(call)'
  BY <1>1 DEF UserOK
<1>3. RowsCounted(call)'
  BY <1>1, CallNow, CallShape DEF RowsCounted
<1> QED BY <1>1, <1>2, <1>3, CallNow, RequestMoves

\* Whoever is served was found, and asked about his own reading.
LEMMA ServedRight ==
  ASSUME AccountsInv, UNCHANGED <<day, account, script, read, tokens, stored, held>>,
         UNCHANGED feedback, call.stage = "handler",
         call.op # "feedback", call.op # "recent" => call.user = {call.about},
         call' = Answered(call, 200)
  PROVE  AccountsInv'
<1>1. /\ call' \in CallShapes /\ call'.stage = "answered" /\ call'.status = 200
      /\ call'.by = call.by /\ call'.rows = call.rows /\ call'.try = call.try
      /\ call'.lost = call.lost /\ call'.valid = call.valid /\ call'.op = call.op
      /\ call'.user = call.user /\ call'.then = call.then /\ call'.about = call.about
  BY CallNow, AnswerFields DEF Statuses
<1>2. UserOK(call)'
  BY <1>1, CallNow DEF UserOK, Found
<1>3. RowsCounted(call)'
  BY <1>1, CallNow, CallShape DEF RowsCounted
<1> QED BY <1>1, <1>2, <1>3, CallNow, RequestMoves

LEMMA VerifyKeeps ==
  ASSUME AccountsInv, Verify
  PROVE  AccountsInv'
<1>1. call.stage = "sent"
      /\ UNCHANGED <<day, account, script, read, tokens, stored, held, feedback>>
  BY DEF Verify
<1>2. CASE call' = Answered(call, 401)
  BY <1>1, <1>2, Refused
<1>3. CASE /\ call.by # {} /\ \A t \in call.by : t.type = "access"
           /\ call' = [call EXCEPT !.stage = "verified"]
  <2> HIDE DEF NoCall
  <2>1. call' = [op |-> call.op, about |-> call.about, valid |-> call.valid,
                 try |-> call.try, by |-> call.by, stage |-> "verified",
                 user |-> call.user, status |-> call.status, rows |-> call.rows,
                 lost |-> call.lost, then |-> call.then]
    BY <1>3, CallNow, CallShape
  <2>2. call' \in CallShapes
    BY <2>1, CallNow, CallShape DEF CallShapes, Statuses
  <2>3. UserOK(call)'
    BY <1>1, <1>3, <2>1, CallNow DEF UserOK
  <2>4. RowsCounted(call)'
    <3>1. /\ call'.stage = "verified" /\ call'.rows = call.rows /\ call'.try = call.try
          /\ call'.lost = call.lost /\ call'.valid = call.valid /\ call'.op = call.op
      BY <2>1
    <3> QED BY <1>1, <3>1, CallNow DEF RowsCounted
  <2> QED BY <1>1, <2>1, <2>2, <2>3, <2>4, CallNow, RequestMoves
<1> QED BY <1>2, <1>3 DEF Verify

LEMMA FindUserKeeps ==
  ASSUME AccountsInv, FindUser
  PROVE  AccountsInv'
<1>1. call.stage = "verified"
      /\ UNCHANGED <<day, account, script, read, tokens, stored, held, feedback>>
  BY DEF FindUser
<1>2. PICK t \in call.by :
        \/ call' = IF account[t.user] = "active"
                   THEN [call EXCEPT !.stage = "handler", !.user = {t.user}]
                   ELSE Answered(call, IF account[t.user] = "none" THEN 401 ELSE 403)
        \/ call' = Answered(call, 500)
  BY DEF FindUser
<1>3. CASE call' \in {Answered(call, 500), Answered(call, 401), Answered(call, 403)}
  BY <1>1, <1>3, Refused
<1>4. CASE /\ account[t.user] = "active"
           /\ call' = [call EXCEPT !.stage = "handler", !.user = {t.user}]
  <2> HIDE DEF NoCall
  <2>1. call' = [op |-> call.op, about |-> call.about, valid |-> call.valid,
                 try |-> call.try, by |-> call.by, stage |-> "handler",
                 user |-> {t.user}, status |-> call.status, rows |-> call.rows,
                 lost |-> call.lost, then |-> call.then]
    <3>1. call = [op |-> call.op, about |-> call.about, valid |-> call.valid,
               try |-> call.try, by |-> call.by, stage |-> call.stage,
               user |-> call.user, status |-> call.status, rows |-> call.rows,
               lost |-> call.lost, then |-> call.then]
      BY CallNow, CallShape
    <3> QED BY ONLY <3>1, <1>4
  <2>2. t.user \in Users
    BY CallNow
  <2>3. call' \in CallShapes
    BY <2>1, <2>2, CallNow, CallShape DEF CallShapes, Statuses
  <2>4. t.user \in call.then /\ \A k \in call.by : k.type = "access" /\ k = t
    BY <1>1, <1>4, CallNow DEF UserOK, OneAtMost
  <2>5. {t.user} = {k.user : k \in call.by}
    BY <2>4
  <2>6. UserOK(call)'
    BY <2>1, <2>4, <2>5 DEF UserOK, Found
  <2>7. RowsCounted(call)'
    <3>1. /\ call'.stage = "handler" /\ call'.rows = call.rows /\ call'.try = call.try
          /\ call'.lost = call.lost /\ call'.valid = call.valid /\ call'.op = call.op
      BY <2>1
    <3> QED BY <1>1, <3>1, CallNow DEF RowsCounted
  <2> QED BY <1>1, <2>1, <2>3, <2>6, <2>7, CallNow, RequestMoves
<1> QED BY <1>2, <1>3, <1>4

LEMMA HandlersKeepAccounts ==
  ASSUME AccountsInv, GetRecent \/ GetReading \/ SubmitFeedback
  PROVE  AccountsInv'
<1>1. /\ call.stage = "handler"
      /\ UNCHANGED <<day, account, script, read, tokens, stored, held, feedback>>
  BY DEF GetRecent, GetReading, SubmitFeedback
<1>2. /\ FindReading(call) \in {404, 403, 200}
      /\ FindReading(call) = 200 => call.about \in read /\ call.user = {call.about}
  BY DEF FindReading, errors
<1>3. CASE GetRecent
  <2>1. call.op = "recent" /\ call' \in {Answered(call, 200), Answered(call, 404)}
    BY <1>3 DEF GetRecent, errors
  <2>2. CASE call' = Answered(call, 200)
    BY <1>1, <2>1, <2>2, ServedRight
  <2>3. CASE call' = Answered(call, 404)
    BY <1>1, <2>3, Refused
  <2> QED BY <2>1, <2>2, <2>3
<1>4. CASE GetReading
  <2>1. call.op = "reading" /\ call' = Answered(call, FindReading(call))
    BY <1>4 DEF GetReading
  <2>2. CASE FindReading(call) = 200
    BY <1>1, <1>2, <2>1, <2>2, ServedRight
  <2>3. CASE FindReading(call) \in {404, 403}
    BY <1>1, <2>1, <2>3, Refused
  <2> QED BY <1>2, <2>2, <2>3
<1>5. CASE SubmitFeedback
  <2>1. call.op = "feedback"
    BY <1>5 DEF SubmitFeedback
  <2>2. CASE ~call.valid /\ call' = Answered(call, 500)
    BY <1>1, <2>2, Refused
  <2>3. CASE FindReading(call) # 200 /\ call' = Answered(call, FindReading(call))
    BY <1>1, <1>2, <2>3, Refused
  <2>4. CASE /\ call.valid /\ FindReading(call) = 200
             /\ call' = [call EXCEPT !.stage = "create"]
    <3> HIDE DEF NoCall
    <3>1. call' = [op |-> call.op, about |-> call.about, valid |-> call.valid,
                   try |-> call.try, by |-> call.by, stage |-> "create",
                   user |-> call.user, status |-> call.status, rows |-> call.rows,
                   lost |-> call.lost, then |-> call.then]
      <4>1. call = [op |-> call.op, about |-> call.about, valid |-> call.valid,
               try |-> call.try, by |-> call.by, stage |-> call.stage,
               user |-> call.user, status |-> call.status, rows |-> call.rows,
               lost |-> call.lost, then |-> call.then]
        BY CallNow, CallShape
      <4> QED BY ONLY <4>1, <2>4
    <3>2. call' \in CallShapes
      BY <3>1, CallNow, CallShape DEF CallShapes, Statuses
    <3>3. UserOK(call)'
      BY <1>1, <3>1, CallNow DEF UserOK, Found
    <3>4. RowsCounted(call)'
      <4>1. /\ call'.stage = "create" /\ call'.rows = call.rows /\ call'.try = call.try
            /\ call'.lost = call.lost /\ call'.valid = call.valid /\ call'.op = call.op
            /\ call'.about = call.about /\ call'.user = call.user
        BY <3>1
      <4> QED BY <1>1, <1>2, <2>1, <2>4, <4>1, CallNow DEF RowsCounted
    <3> QED BY <1>1, <3>1, <3>2, <3>3, <3>4, CallNow, RequestMoves
  <2> QED BY <1>5, <2>2, <2>3, <2>4 DEF SubmitFeedback
<1> QED BY <1>3, <1>4, <1>5

LEMMA CreateFeedbackKeeps ==
  ASSUME AccountsInv, CreateFeedback
  PROVE  AccountsInv'
<1>1. /\ call.stage = "create"
      /\ UNCHANGED <<day, account, script, read, tokens, stored, held>>
  BY DEF CreateFeedback
<1>2. CASE call' = Answered(call, 500) /\ UNCHANGED feedback
  BY <1>1, <1>2, Refused
<1>3. CASE /\ feedback' = [feedback EXCEPT ![call.about] = @ + 1]
           /\ call' = Answered([call EXCEPT !.rows = @ + 1], 201)
  <2> DEFINE c == [call EXCEPT !.rows = @ + 1]
  <2>1. /\ c \in CallShapes /\ c.rows = call.rows + 1
        /\ c.op = call.op /\ c.about = call.about /\ c.valid = call.valid
        /\ c.try = call.try /\ c.by = call.by /\ c.user = call.user
        /\ c.then = call.then /\ c.lost = call.lost
    BY CallNow, LossFields
  <2>2. call' = Answered(c, 201)
    BY <1>3
  <2> HIDE DEF c
  <2>3. /\ call' \in CallShapes /\ call'.stage = "answered" /\ call'.status = 201
        /\ call'.by = call.by /\ call'.rows = call.rows + 1 /\ call'.try = call.try
        /\ call'.lost = call.lost /\ call'.valid = call.valid /\ call'.op = call.op
        /\ call'.user = call.user /\ call'.then = call.then
        /\ call'.about = call.about
    BY <2>1, <2>2, AnswerFields DEF Statuses
  <2>4. /\ call.op = "feedback" /\ call.valid /\ call.about \in read
        /\ call.user = {call.about} /\ call.rows < call.try
        /\ call.rows \in Nat /\ call.try \in Nat
        /\ ~call.lost => call.rows = 0
        /\ Found(call)
    BY <1>1, CallNow, CallShape DEF RowsCounted, UserOK
  <2>5. UserOK(call)'
    BY <2>3, <2>4 DEF UserOK, Found
  <2>6. RowsCounted(call)'
    BY <2>3, <2>4 DEF RowsCounted
  <2>7. feedback' \in [Users -> Nat] /\ \A u \in Users : feedback'[u] > 0 => u \in read
    <3>1. \A u \in Users : feedback[u] \in Nat
                          /\ feedback'[u] = IF u = call.about THEN feedback[u] + 1
                                            ELSE feedback[u]
      BY <1>3, CallNow
    <3>2. feedback' = [u \in Users |-> IF u = call.about THEN feedback[u] + 1
                                       ELSE feedback[u]]
      <4>1. feedback = [u \in Users |-> feedback[u]]
        BY CallNow
      <4>2. feedback' = [feedback EXCEPT ![call.about] = @ + 1]
        BY <1>3
      <4> QED BY ONLY <4>1, <4>2
    <3>3. feedback' \in [Users -> Nat]
      BY ONLY <3>1, <3>2
    <3> QED BY <2>4, <3>1, <3>3, CallNow
  <2> QED BY <1>1, <2>3, <2>5, <2>6, <2>7, CallNow, RequestMoves
<1> QED BY <1>2, <1>3 DEF CreateFeedback

\* A request that is over or begins again has nothing but its rows to it.
LEMMA RequestEnds ==
  ASSUME AccountsInv, UNCHANGED <<day, account, script, read, tokens, stored, held>>,
         UNCHANGED feedback, call' \in CallShapes, call'.by = {},
         call'.stage \in {"attach", "ok", "refused", "failed"}, RowsCounted(call)'
  PROVE  AccountsInv'
<1>1. UserOK(call)'
  BY DEF UserOK
<1>2. OneAtMost(call'.by) /\ call'.by \subseteq tokens
  BY DEF OneAtMost
<1> QED BY <1>1, <1>2, CallNow, RequestMoves

\* The next attempt creates its own row.
LEMMA RetryKeeps ==
  ASSUME AccountsInv, UNCHANGED <<day, account, script, read, tokens, stored, held>>,
         UNCHANGED feedback, NEW c \in CallShapes, call' = RetryOrFail(c),
         c.op = call.op, c.valid = call.valid, c.rows = call.rows, c.try = call.try,
         call.stage \in {"sent", "verified", "handler", "create", "answered"},
         ~c.lost => c.rows = 0
  PROVE  AccountsInv'
<1>1. /\ call' \in CallShapes
      /\ \/ call'.stage = "attach" /\ call'.try = call.try + 1
         \/ call'.stage = "failed" /\ call'.try = call.try
      /\ call'.by = {} /\ call'.op = call.op /\ call'.valid = call.valid
      /\ call'.rows = call.rows /\ call'.lost = c.lost
  BY RetryFields
<1>2. /\ call.rows \in Nat /\ call.try \in Nat /\ call.rows <= call.try
      /\ ~call.valid => call.op = "feedback" /\ call.rows = 0
  BY CallNow, CallShape DEF RowsCounted
<1>3. RowsCounted(call)'
  BY <1>1, <1>2 DEF RowsCounted
<1> QED BY <1>1, <1>3, RequestEnds

LEMMA AnswersKeep ==
  ASSUME AccountsInv, AnswerComes \/ AnswerIsLost \/ ServerStops \/ AnswerIsLate
  PROVE  AccountsInv'
<1>1. /\ UNCHANGED <<day, account, script, read, tokens, stored, held, feedback>>
      /\ call.stage \in {"sent", "verified", "handler", "create", "answered"}
  BY DEF AnswerComes, AnswerIsLost, ServerStops, AnswerIsLate
<1>2. /\ call \in CallShapes /\ RowsCounted(call)
      /\ call.rows \in Nat /\ call.try \in Nat /\ call.status \in Statuses
  BY CallNow, CallShape
<1> DEFINE lost == [call EXCEPT !.lost = TRUE]
<1>3. /\ lost \in CallShapes /\ lost.lost = TRUE
      /\ lost.op = call.op /\ lost.valid = call.valid
      /\ lost.try = call.try /\ lost.rows = call.rows
  BY <1>2, LossFields
<1>4. (AnswerIsLost => call' = RetryOrFail(lost))
      /\ (AnswerIsLate => call' = EndsAs(lost, "failed"))
      /\ (ServerStops => \/ call' = RetryOrFail(lost)
                         \/ call.stage # "answered" /\ call' = Answered(call, 500))
  BY DEF AnswerIsLost, AnswerIsLate, ServerStops, errors
<1> HIDE DEF lost
<1>5. CASE call' = RetryOrFail(lost)
  BY <1>1, <1>3, <1>5, RetryKeeps
<1>6. CASE call.stage # "answered" /\ call' = Answered(call, 500)
  BY <1>1, <1>6, Refused
<1>7. CASE AnswerIsLate
  <2>1. "failed" \in Stages
    BY DEF Stages, AtRest
  <2>2. /\ call' \in CallShapes /\ call'.stage = "failed" /\ call'.by = {}
        /\ call'.op = call.op /\ call'.valid = call.valid /\ call'.try = call.try
        /\ call'.rows = call.rows /\ call'.lost = TRUE
    BY <1>3, <1>4, <1>7, <2>1, EndFields
  <2>3. RowsCounted(call)'
    BY <1>2, <2>2 DEF RowsCounted
  <2> QED BY <1>1, <2>2, <2>3, RequestEnds
<1>8. CASE AnswerComes
  <2>1. /\ call.stage = "answered" /\ call.status # 0
        /\ call' = IF call.status < 300 THEN EndsAs(call, "ok")
                   ELSE IF call.status < 500 THEN EndsAs(call, "refused")
                   ELSE RetryOrFail(call)
    BY <1>2, <1>8 DEF AnswerComes, RowsCounted
  <2>2. CASE call.status \in {200, 201}
    <3>1. call' = EndsAs(call, "ok") /\ "ok" \in Stages
      BY <2>1, <2>2 DEF Stages, AtRest
    <3>2. /\ call' \in CallShapes /\ call'.stage = "ok" /\ call'.by = {}
          /\ call'.op = call.op /\ call'.valid = call.valid /\ call'.try = call.try
          /\ call'.rows = call.rows /\ call'.lost = call.lost
      BY <1>2, <3>1, EndFields
    <3>3. RowsCounted(call)'
      BY <1>2, <2>1, <2>2, <3>2 DEF RowsCounted
    <3> QED BY <1>1, <3>2, <3>3, RequestEnds
  <2>3. CASE call.status \in {401, 403, 404}
    <3>1. call' = EndsAs(call, "refused") /\ "refused" \in Stages
      BY <2>1, <2>3 DEF Stages, AtRest
    <3>2. /\ call' \in CallShapes /\ call'.stage = "refused" /\ call'.by = {}
          /\ call'.op = call.op /\ call'.valid = call.valid /\ call'.try = call.try
          /\ call'.rows = call.rows /\ call'.lost = call.lost
      BY <1>2, <3>1, EndFields
    <3>3. RowsCounted(call)'
      BY <1>2, <2>1, <2>3, <3>2 DEF RowsCounted
    <3> QED BY <1>1, <3>2, <3>3, RequestEnds
  <2>4. CASE call.status = 500
    <3>1. call' = RetryOrFail(call)
      BY <2>1, <2>4
    <3>2. ~call.lost => call.rows = 0
      BY <1>2, <2>1, <2>4 DEF RowsCounted
    <3> QED BY <1>1, <1>2, <3>1, <3>2, RetryKeeps
  <2> QED BY <1>2, <2>1, <2>2, <2>3, <2>4 DEF Statuses
<1> QED BY <1>4, <1>5, <1>6, <1>7, <1>8

LEMMA AccountsInvariant == AccountsSpec => []AccountsInv
<1>1. AccountsInit => AccountsInv
  <2> SUFFICES ASSUME AccountsInit PROVE AccountsInv
    OBVIOUS
  <2>1. call.by = {} /\ call.stage = "free" /\ call.rows = 0 /\ call.try = 0
        /\ call.valid = TRUE /\ call.lost = FALSE
    BY DEF AccountsInit, NoCall
  <2>2. call \in CallShapes
    BY DEF AccountsInit, CallShapes, NoCall, Ops, AtRest
  <2>3. AccountTypes
    BY <2>1, <2>2 DEF AccountsInit, AccountTypes, OneAtMost
  <2>4. TokensHaveUsers /\ TokensEndWithTheirPair
    BY DEF AccountsInit, TokensHaveUsers, TokensEndWithTheirPair
  <2>5. UserOK(call) /\ RowsCounted(call)
    BY <2>1 DEF UserOK, RowsCounted
  <2>6. \A u \in Users : feedback[u] = 0
    BY DEF AccountsInit
  <2> QED BY <2>3, <2>4, <2>5, <2>6 DEF AccountsInv
<1>2. AccountsInv /\ [AccountsNext]_accountVars => AccountsInv'
  <2> SUFFICES ASSUME AccountsInv, [AccountsNext]_accountVars
               PROVE  AccountsInv'
    OBVIOUS
  <2>1. CASE UNCHANGED accountVars
    BY <2>1 DEF accountVars, AccountsInv, AccountTypes, TokensHaveUsers,
                TokensEndWithTheirPair, UserOK, Found, RowsCounted
  <2>2. ASSUME NEW op \in Ops, NEW about \in Users, NEW valid \in BOOLEAN,
               Ask(op, about, valid)
        PROVE  AccountsInv'
    BY <2>2, AskKeeps
  <2> QED BY <2>1, <2>2, AccountSteps, GetAuthTokenKeeps, VerifyKeeps,
             FindUserKeeps, HandlersKeepAccounts, CreateFeedbackKeeps, AnswersKeep
          DEF AccountsNext
<1> QED BY <1>1, <1>2, PTL DEF AccountsSpec

\* A request is served to a user who was active when it was sent, with an access
\* token and about his own reading; no token outlives the pair of its user by its
\* own life; and the rows of feedback are those of the attempts.  For any number
\* of users, tokens, attempts and lives, and with any suspension, loss of an
\* answer and stop of the server in between.
THEOREM AccountsServeTheirUsers == AccountsSpec => []AccountsAreServed
<1>1. AccountsInv => AccountsAreServed
  <2> SUFFICES ASSUME AccountsInv PROVE AccountsAreServed
    OBVIOUS
  <2>1. ServedToItsUser
    <3>1. Served => Found(call) /\ (call.op # "recent" => call.user = {call.about})
      BY CallNow DEF Served, UserOK
    <3> QED BY <3>1 DEF ServedToItsUser, Found
  <2>2. FeedbackIsAccountedFor
    BY CallNow DEF RowsCounted, FeedbackIsAccountedFor
  <2> QED BY <2>1, <2>2 DEF AccountsInv, AccountsAreServed
<1> QED BY <1>1, AccountsInvariant, PTL

\* The rows a request may still create.
ToCome == IF call.stage \in AtRest THEN 0 ELSE MaxTries - call.rows

\* What bounds the run: each attempt creates a row at most, and each request is
\* one of the events.
AccountBounds ==
  /\ day \in 0 .. MaxDays /\ events \in 0 .. MaxEvents /\ read \subseteq Users
  /\ call.about \in Users /\ call.try <= MaxTries
  /\ \A u \in Users : feedback[u] + ToCome <= MaxTries * events

LEMMA BudgetGrows ==
  ASSUME NEW n \in Nat, n + 1 <= MaxEvents
  PROVE  /\ MaxTries * n \in Nat /\ MaxTries \in Nat
         /\ MaxTries * (n + 1) = MaxTries * n + MaxTries
<1>1. MaxTries \in Nat
  BY AccountsAssumption DEF AccountsAssumption
<1>2. ASSUME NEW m \in Nat
      PROVE  m * n \in Nat /\ m * (n + 1) = m * n + m
  BY ONLY n \in Nat, m \in Nat
<1> QED BY <1>1, <1>2

\* What is left to show of a step that is none of the request's.
LEMMA BoundsRest ==
  ASSUME AccountsInv, AccountBounds, UNCHANGED <<call, feedback>>,
         day' \in 0 .. MaxDays, read' \subseteq Users,
         events' = events \/ (events < MaxEvents /\ events' = events + 1)
  PROVE  AccountBounds'
<1>1. events \in Nat /\ MaxEvents \in Nat /\ events <= MaxEvents
  BY AccountsAssumption DEF AccountsAssumption, AccountBounds
<1>2. events' \in 0 .. MaxEvents
  BY <1>1
<1>3. call.rows \in Nat /\ feedback \in [Users -> Nat]
  BY CallNow, CallShape
<1>4. MaxTries \in Nat /\ ToCome \in Int /\ ToCome' = ToCome
  BY <1>3, AccountsAssumption DEF AccountsAssumption, ToCome
<1>5. ASSUME NEW u \in Users
      PROVE  feedback'[u] + ToCome' <= MaxTries * events'
  <2>1. feedback[u] + ToCome <= MaxTries * events /\ feedback[u] \in Nat
    BY <1>3 DEF AccountBounds
  <2>2. CASE events' = events
    BY <1>4, <2>1, <2>2
  <2>3. CASE events < MaxEvents /\ events' = events + 1
    <3>1. MaxTries * events \in Nat /\ MaxTries * events' = MaxTries * events + MaxTries
      BY <1>1, <2>3, BudgetGrows
    <3> HIDE DEF ToCome
    <3> QED BY <1>4, <2>1, <3>1
  <2> QED BY <2>2, <2>3
<1> QED BY <1>2, <1>5 DEF AccountBounds

\* What is left to show of a step of the request that creates no row.
LEMMA BoundsMove ==
  ASSUME AccountsInv, AccountBounds, UNCHANGED <<day, read, feedback>>,
         events' = events \/ (events < MaxEvents /\ events' = events + 1),
         call.stage \notin AtRest, call'.about = call.about,
         call'.rows = call.rows, call'.try \in Nat, call'.try <= MaxTries
  PROVE  AccountBounds'
<1>1. events \in Nat /\ MaxEvents \in Nat /\ events <= MaxEvents
  BY AccountsAssumption DEF AccountsAssumption, AccountBounds
<1>2. events' \in 0 .. MaxEvents
  BY <1>1
<1>3. call.rows \in Nat /\ call.rows <= call.try /\ call.try \in Nat
      /\ call.try <= MaxTries /\ feedback \in [Users -> Nat]
  BY CallNow, CallShape DEF RowsCounted, AccountBounds
<1>4. MaxTries \in Nat /\ ToCome \in Int /\ ToCome' \in Int /\ ToCome' <= ToCome
  BY <1>3, AccountsAssumption DEF AccountsAssumption, ToCome
<1>5. ASSUME NEW u \in Users
      PROVE  feedback'[u] + ToCome' <= MaxTries * events'
  <2>1. feedback[u] + ToCome <= MaxTries * events /\ feedback[u] \in Nat
    BY <1>3 DEF AccountBounds
  <2> HIDE DEF ToCome
  <2>2. MaxTries * events \in Nat /\ MaxTries * events <= MaxTries * events'
    <3>1. CASE events' = events
      BY <1>1, <1>4, <3>1
    <3>2. CASE events < MaxEvents /\ events' = events + 1
      BY <1>1, <1>4, <3>2, BudgetGrows
    <3> QED BY <3>1, <3>2
  <2>3. MaxTries * events' \in Nat
    <3>1. events' \in Nat /\ MaxTries \in Nat
      BY <1>1, <1>4
    <3>2. \A m, n \in Nat : m * n \in Nat
      OBVIOUS
    <3> QED BY ONLY <3>1, <3>2
  <2> QED BY <1>4, <2>1, <2>2, <2>3
<1> QED BY <1>2, <1>5 DEF AccountBounds

LEMMA BoundsOfSteps ==
  ASSUME AccountsInv, AccountBounds,
         \/ \E r \in ScriptRuns : FindTestUser(r) \/ CreateTestUser(r)
                                    \/ GenerateTokenPair(r)
         \/ \E t \in tokens : RefreshAccessToken(t) \/ SetAuthToken(t)
         \/ \E u \in Users : Suspend(u) \/ DrawFor(u)
         \/ DayPasses \/ ClearAuthToken \/ StoredElsewhere \/ LoadPage
  PROVE  AccountBounds'
<1>1. UNCHANGED <<call, feedback>>
  BY DEF FindTestUser, CreateTestUser, GenerateTokenPair, RefreshAccessToken, SetAuthToken,
         Suspend, DrawFor, DayPasses, ClearAuthToken, StoredElsewhere, LoadPage
<1>2. events' = events \/ (events < MaxEvents /\ events' = events + 1)
  BY DEF FindTestUser, CreateTestUser, GenerateTokenPair, RefreshAccessToken, SetAuthToken,
         Suspend, DrawFor, DayPasses, ClearAuthToken, StoredElsewhere, LoadPage, Event
<1>3. read' \subseteq Users
  BY DEF FindTestUser, CreateTestUser, GenerateTokenPair, RefreshAccessToken, SetAuthToken,
         Suspend, DrawFor, DayPasses, ClearAuthToken, StoredElsewhere, LoadPage, AccountBounds
<1>4. day' = day \/ (day < MaxDays /\ day' = day + 1)
  BY DEF FindTestUser, CreateTestUser, GenerateTokenPair, RefreshAccessToken, SetAuthToken,
         Suspend, DrawFor, DayPasses, ClearAuthToken, StoredElsewhere, LoadPage
<1>5. day' \in 0 .. MaxDays
  <2>1. day \in 0 .. MaxDays /\ MaxDays \in Nat
    BY AccountsAssumption DEF AccountsAssumption, AccountBounds
  <2> QED BY <1>4, <2>1
<1> QED BY <1>1, <1>2, <1>3, <1>5, BoundsRest

\* A request under way has attempts to spare for the rows it may create.
LEMMA BoundsOfAsk ==
  ASSUME AccountsInv, AccountBounds,
         NEW op \in Ops, NEW about \in Users, NEW valid \in BOOLEAN,
         Ask(op, about, valid)
  PROVE  AccountBounds'
<1>1. /\ call' = [op |-> op, about |-> about, valid |-> valid, try |-> 1, by |-> {},
                  stage |-> "attach", user |-> {}, status |-> 0, rows |-> 0,
                  lost |-> FALSE, then |-> {}]
      /\ UNCHANGED <<day, read, feedback>>
      /\ call.stage \in AtRest /\ events < MaxEvents /\ events' = events + 1
  BY DEF Ask, Event, NoCall
<1>2. events \in Nat /\ MaxEvents \in Nat /\ MaxTries \in Nat /\ 1 <= MaxTries
  BY AccountsAssumption DEF AccountsAssumption, AccountBounds
<1>3. /\ call'.about \in Users /\ call'.try <= MaxTries
      /\ events' \in 0 .. MaxEvents
  BY <1>1, <1>2
<1>4. ToCome = 0 /\ ToCome' = MaxTries
  BY <1>1, <1>2 DEF ToCome, AtRest
<1>5. ASSUME NEW u \in Users
      PROVE  feedback'[u] + ToCome' <= MaxTries * events'
  <2>1. feedback[u] + 0 <= MaxTries * events /\ feedback[u] \in Nat
    BY <1>4, CallNow DEF AccountBounds
  <2>2. MaxTries * events \in Nat /\ MaxTries * events' = MaxTries * events + MaxTries
    BY <1>1, <1>2, BudgetGrows
  <2>3. feedback'[u] = feedback[u]
    BY <1>1
  <2> QED BY ONLY <1>2, <1>4, <2>1, <2>2, <2>3
<1> QED BY <1>1, <1>3, <1>5 DEF AccountBounds

LEMMA BoundsOfHandling ==
  ASSUME AccountsInv, AccountBounds,
         GetAuthToken \/ Verify \/ FindUser \/ GetRecent \/ GetReading \/ SubmitFeedback
  PROVE  AccountBounds'
<1>1. /\ UNCHANGED <<day, read, feedback, events>>
      /\ call.stage \in {"attach", "sent", "verified", "handler"}
  BY DEF GetAuthToken, Verify, FindUser, GetRecent, GetReading, SubmitFeedback
<1>2. /\ call \in CallShapes /\ call.try \in Nat /\ call.try <= MaxTries
      /\ call = [op |-> call.op, about |-> call.about, valid |-> call.valid,
                 try |-> call.try, by |-> call.by, stage |-> call.stage,
                 user |-> call.user, status |-> call.status, rows |-> call.rows,
                 lost |-> call.lost, then |-> call.then]
  BY CallNow, CallShape DEF AccountBounds
<1>3. /\ call'.about = call.about /\ call'.rows = call.rows /\ call'.try = call.try
  <2>1. \/ \E by, then : call' = [call EXCEPT !.stage = "sent", !.by = by, !.then = then]
        \/ call' = [call EXCEPT !.stage = "verified"]
        \/ \E whom : call' = [call EXCEPT !.stage = "handler", !.user = whom]
        \/ call' = [call EXCEPT !.stage = "create"]
        \/ \E status : call' = Answered(call, status)
    BY DEF GetAuthToken, Verify, FindUser, GetRecent, GetReading, SubmitFeedback
  <2> HIDE DEF NoCall
  <2> QED BY ONLY <1>2, <2>1 DEF Answered
<1>4. call.stage \notin AtRest
  BY <1>1 DEF AtRest
<1> QED BY <1>1, <1>2, <1>3, <1>4, BoundsMove

LEMMA BoundsOfFeedback ==
  ASSUME AccountsInv, AccountBounds, CreateFeedback
  PROVE  AccountBounds'
<1>1. /\ UNCHANGED <<day, read, events>> /\ call.stage = "create"
  BY DEF CreateFeedback
<1>2. /\ call \in CallShapes /\ call.try \in Nat /\ call.try <= MaxTries
      /\ call.rows \in Nat /\ call.rows < call.try /\ feedback \in [Users -> Nat]
      /\ events \in Nat /\ MaxTries \in Nat
  <2>1. call \in CallShapes /\ RowsCounted(call) /\ feedback \in [Users -> Nat]
    BY CallNow
  <2>2. call.try \in Nat /\ call.rows \in Nat
    BY <2>1, CallShape
  <2>3. call.rows < call.try
    BY <1>1, <2>1 DEF RowsCounted
  <2>4. call.try <= MaxTries /\ events \in Nat /\ MaxTries \in Nat
    BY AccountsAssumption DEF AccountBounds, AccountsAssumption
  <2> QED BY <2>1, <2>2, <2>3, <2>4
<1>3. call.stage \notin AtRest
  BY <1>1 DEF AtRest
<1>4. CASE call' = Answered(call, 500) /\ UNCHANGED feedback
  <2>1. /\ call'.about = call.about /\ call'.rows = call.rows /\ call'.try = call.try
    BY <1>2, <1>4, AnswerFields DEF Statuses
  <2> QED BY <1>1, <1>2, <1>3, <1>4, <2>1, BoundsMove
<1>5. CASE /\ feedback' = [feedback EXCEPT ![call.about] = @ + 1]
           /\ call' = Answered([call EXCEPT !.rows = @ + 1], 201)
  <2> DEFINE c == [call EXCEPT !.rows = @ + 1]
  <2>1. /\ c \in CallShapes /\ c.rows = call.rows + 1 /\ c.about = call.about
        /\ c.try = call.try
    BY <1>2, LossFields
  <2>2. call' = Answered(c, 201)
    BY <1>5
  <2> HIDE DEF c
  <2>3. /\ call'.stage = "answered" /\ call'.about = call.about
        /\ call'.rows = call.rows + 1 /\ call'.try = call.try
    BY <2>1, <2>2, AnswerFields DEF Statuses
  <2>4. ToCome = MaxTries - call.rows /\ ToCome' = MaxTries - (call.rows + 1)
    BY <1>3, <2>3 DEF ToCome, AtRest
  <2>5. ASSUME NEW u \in Users
        PROVE  feedback'[u] + ToCome' <= MaxTries * events'
    <3>1. /\ feedback[u] \in Nat /\ feedback[u] + (MaxTries - call.rows) <= MaxTries * events
      BY <1>2, <2>4 DEF AccountBounds
    <3>2. feedback'[u] = feedback[u] \/ feedback'[u] = feedback[u] + 1
      BY <1>2, <1>5
    <3>3. MaxTries * events \in Nat /\ events' = events
      BY <1>1, <1>2
    <3> QED BY ONLY <1>2, <2>4, <3>1, <3>2, <3>3
  <2> QED BY <1>1, <2>3, <2>5 DEF AccountBounds
<1> QED BY <1>4, <1>5 DEF CreateFeedback

LEMMA BoundsOfAnswers ==
  ASSUME AccountsInv, AccountBounds,
         AnswerComes \/ AnswerIsLost \/ ServerStops \/ AnswerIsLate
  PROVE  AccountBounds'
<1>1. /\ UNCHANGED <<day, read, feedback>>
      /\ events' = events \/ (events < MaxEvents /\ events' = events + 1)
      /\ call.stage \in {"sent", "verified", "handler", "create", "answered"}
  BY DEF AnswerComes, AnswerIsLost, ServerStops, AnswerIsLate, Event
<1>2. call \in CallShapes /\ call.try \in Nat /\ call.try <= MaxTries /\ MaxTries \in Nat
  BY CallNow, CallShape, AccountsAssumption DEF AccountBounds, AccountsAssumption
<1> DEFINE lost == [call EXCEPT !.lost = TRUE]
<1>3. /\ lost \in CallShapes /\ lost.about = call.about
      /\ lost.try = call.try /\ lost.rows = call.rows
  BY <1>2, LossFields
<1>4. \/ call' = RetryOrFail(lost) \/ call' = RetryOrFail(call)
      \/ call' = EndsAs(lost, "failed") \/ call' = EndsAs(call, "ok")
      \/ call' = EndsAs(call, "refused") \/ call' = Answered(call, 500)
  BY DEF AnswerComes, AnswerIsLost, ServerStops, AnswerIsLate, errors
<1> HIDE DEF lost
<1>5. ASSUME NEW c \in CallShapes, c.about = call.about, c.try = call.try,
             c.rows = call.rows,
             \/ call' = RetryOrFail(c)
             \/ \E how \in {"failed", "ok", "refused"} : call' = EndsAs(c, how)
             \/ call' = Answered(c, 500)
      PROVE  /\ call'.about = call.about /\ call'.rows = call.rows
             /\ call'.try \in Nat /\ call'.try <= MaxTries
  <2>1. CASE call' = RetryOrFail(c)
    BY <1>2, <1>5, <2>1, RetryFields
  <2>2. ASSUME NEW how \in {"failed", "ok", "refused"}, call' = EndsAs(c, how)
        PROVE  /\ call'.about = call.about /\ call'.rows = call.rows
               /\ call'.try = call.try
    <3>1. how \in Stages
      BY DEF Stages, AtRest
    <3> QED BY <1>5, <2>2, <3>1, EndFields
  <2>3. CASE call' = Answered(c, 500)
    BY <1>2, <1>5, <2>3, AnswerFields DEF Statuses
  <2> QED BY <1>2, <1>5, <2>1, <2>2, <2>3
<1>6. /\ call'.about = call.about /\ call'.rows = call.rows
      /\ call'.try \in Nat /\ call'.try <= MaxTries
  BY <1>2, <1>3, <1>4, <1>5
<1>7. call.stage \notin AtRest
  BY <1>1 DEF AtRest
<1> QED BY <1>1, <1>6, <1>7, BoundsMove

\* The bounds of the run keep every variable in its type: no request creates more
\* rows than it has attempts.
LEMMA AccountsTypeCorrect == AccountsSpec => []AccountsTypeOK
<1>1. AccountsInit => AccountBounds
  <2> SUFFICES ASSUME AccountsInit PROVE AccountBounds
    OBVIOUS
  <2>1. NoCall.about \in Users
    BY AccountsAssumption DEF AccountsAssumption, NoCall
  <2>2. /\ call.about = NoCall.about /\ call.try = 0 /\ call.stage = "free"
        /\ day = 0 /\ events = 0 /\ read = {} /\ \A u \in Users : feedback[u] = 0
    BY DEF AccountsInit, NoCall
  <2>3. ToCome = 0
    BY <2>2 DEF ToCome, AtRest
  <2> QED BY <2>1, <2>2, <2>3, AccountsAssumption
          DEF AccountsAssumption, AccountBounds
<1>2. AccountsInv /\ AccountBounds /\ [AccountsNext]_accountVars => AccountBounds'
  <2> SUFFICES ASSUME AccountsInv, AccountBounds, [AccountsNext]_accountVars
               PROVE  AccountBounds'
    OBVIOUS
  <2>1. CASE UNCHANGED accountVars
    BY <2>1 DEF accountVars, AccountBounds, ToCome
  <2>2. ASSUME NEW op \in Ops, NEW about \in Users, NEW valid \in BOOLEAN,
               Ask(op, about, valid)
        PROVE  AccountBounds'
    BY <2>2, BoundsOfAsk
  <2> QED BY <2>1, <2>2, BoundsOfSteps, BoundsOfHandling, BoundsOfFeedback,
             BoundsOfAnswers DEF AccountsNext
<1>3. AccountsInv /\ AccountBounds => AccountsTypeOK
  <2> SUFFICES ASSUME AccountsInv, AccountBounds PROVE AccountsTypeOK
    OBVIOUS
  <2>1. /\ call \in CallShapes /\ call.rows \in Nat /\ call.try \in Nat
        /\ call.rows <= call.try /\ call.try <= MaxTries /\ call.about \in Users
        /\ MaxTries \in Nat /\ MaxEvents \in Nat /\ events \in Nat /\ events <= MaxEvents
    BY CallNow, CallShape, AccountsAssumption
       DEF AccountBounds, RowsCounted, AccountsAssumption
  <2>2. call.rows \in 0 .. MaxTries /\ call.try \in 0 .. MaxTries
    BY <2>1
  <2>3. call \in Calls
    <3> HIDE DEF NoCall
    <3> QED BY <2>1, <2>2, CallShape DEF Calls, Statuses, Stages
  <2>4. ASSUME NEW u \in Users
        PROVE  feedback[u] \in 0 .. MaxTries * MaxEvents
    <3>1. /\ feedback[u] \in Nat /\ feedback[u] + ToCome <= MaxTries * events
      BY CallNow DEF AccountBounds
    <3>2. ToCome \in Nat
      BY <2>1 DEF ToCome
    <3>3. MaxTries * events \in Nat /\ MaxTries * events <= MaxTries * MaxEvents
          /\ MaxTries * MaxEvents \in Nat
      BY <2>1
    <3> QED BY <3>1, <3>2, <3>3
  <2>5. feedback \in [Users -> 0 .. MaxTries * MaxEvents]
    <3>1. feedback \in [Users -> Nat]
      BY CallNow
    <3> QED BY <2>4, <3>1
  <2> QED BY <2>3, <2>5 DEF AccountsInv, AccountTypes, AccountBounds, AccountsTypeOK
<1> QED BY <1>1, <1>2, <1>3, AccountsInvariant, PTL DEF AccountsSpec

-----------------------------------------------------------------------------
(*****************************************************************************)
(* The pages of a customer's ledger.                                         *)
(*****************************************************************************)

\* The rows of a page when there are n of them.
RowsOfPage(page, n) ==
  IF n <= Skip(page) THEN 0 ELSE Least(Limit, n - Skip(page))

\* They are what the number of pages beside them makes one expect.
LEMMA PagesFit ==
  ASSUME NEW page \in Nat \ {0}, NEW n \in Nat
  PROVE  CASE page < TotalPages(n) -> RowsOfPage(page, n) = Limit
           [] page > TotalPages(n) -> RowsOfPage(page, n) = 0
           [] OTHER -> RowsOfPage(page, n) = n - (page - 1) * Limit
<1> USE LedgerAssumption DEF LedgerAssumption
<1> DEFINE skip == (page - 1) * Limit
           pages == TotalPages(n)
<1>1. skip \in Nat /\ page * Limit = skip + Limit /\ (page + 1) * Limit = skip + 2 * Limit
  OBVIOUS
<1>2. n + Limit - 1 \in Nat /\ Limit \in Nat \ {0}
  OBVIOUS
<1>3. /\ pages >= page <=> n + Limit - 1 >= page * Limit
      /\ pages >= page + 1 <=> n + Limit - 1 >= (page + 1) * Limit
  BY <1>2, DivAtLeast DEF TotalPages
<1>4. pages \in Int
  BY <1>2 DEF TotalPages
<1>5. RowsOfPage(page, n) = IF n <= skip THEN 0
                            ELSE IF Limit < n - skip THEN Limit ELSE n - skip
  BY DEF RowsOfPage, Skip, Least
<1> HIDE DEF skip, pages
<1>6. /\ page < pages <=> n > skip + Limit
      /\ page > pages <=> n <= skip
  BY <1>1, <1>2, <1>3, <1>4
<1>7. CASE page < pages
  BY <1>1, <1>2, <1>5, <1>6, <1>7 DEF pages
<1>8. CASE page > pages
  BY <1>1, <1>2, <1>4, <1>5, <1>6, <1>8 DEF pages
<1>9. CASE page = pages
  <2>1. RowsOfPage(page, n) = n - skip
    BY <1>1, <1>2, <1>5, <1>6, <1>9
  <2> QED BY <1>4, <1>9, <2>1 DEF skip, pages
<1> QED BY <1>4, <1>7, <1>8, <1>9

\* Until a record comes between, both answers are about the same records.
ListingOK ==
  listing # NotListing =>
    /\ listing \in [page : 1 .. MaxRecords + 1, rows : 0 .. Unknown, total : 0 .. Unknown]
    /\ ~grew => /\ listing.rows # Unknown /\ listing.total = Unknown =>
                     listing.rows = RowsOfPage(listing.page, Len(ledger))
                /\ listing.rows = Unknown /\ listing.total # Unknown =>
                     listing.total = Len(ledger)
                /\ listing.rows # Unknown /\ listing.total # Unknown =>
                     listing.rows = RowsOfPage(listing.page, listing.total)

LedgerInv ==
  /\ ledger \in Seq(FinanceRecords) /\ Len(ledger) <= MaxRecords
  /\ grew \in BOOLEAN
  /\ ListingOK

\* The fields of a call to list, and its answers.
LEMMA ListingFields ==
  ASSUME NEW l \in [page : 1 .. MaxRecords + 1, rows : 0 .. Unknown, total : 0 .. Unknown],
         NEW n \in 0 .. MaxRecords
  PROVE  /\ l # NotListing
         /\ l.page \in Nat \ {0} /\ l.rows \in Nat /\ l.total \in Nat /\ Unknown \in Nat
         /\ [l EXCEPT !.rows = n] \in
              [page : 1 .. MaxRecords + 1, rows : 0 .. Unknown, total : 0 .. Unknown]
         /\ [l EXCEPT !.rows = n].rows = n /\ [l EXCEPT !.rows = n].page = l.page
         /\ [l EXCEPT !.rows = n].total = l.total
         /\ [l EXCEPT !.total = n] \in
              [page : 1 .. MaxRecords + 1, rows : 0 .. Unknown, total : 0 .. Unknown]
         /\ [l EXCEPT !.total = n].total = n /\ [l EXCEPT !.total = n].page = l.page
         /\ [l EXCEPT !.total = n].rows = l.rows
         /\ n # Unknown
<1> USE LedgerAssumption DEF LedgerAssumption
<1>1. l # NotListing
  BY DEF NotListing
<1>2. Unknown \in Nat /\ n \in 0 .. Unknown /\ n # Unknown
  BY DEF Unknown
<1> HIDE DEF Unknown
<1> QED BY <1>1, <1>2

LEMMA LedgerInductive == LedgerSpec => []LedgerInv
<1> USE LedgerAssumption DEF LedgerAssumption
<1>1. LedgerInit => LedgerInv
  <2> SUFFICES ASSUME LedgerInit PROVE LedgerInv
    OBVIOUS
  <2>1. ledger = <<>> /\ listing = NotListing /\ grew = FALSE
    BY DEF LedgerInit
  <2>2. ledger \in Seq(FinanceRecords) /\ Len(ledger) = 0
    BY ONLY <2>1, EmptySeq
  <2>3. Len(ledger) <= MaxRecords
    BY <2>2
  <2>4. grew \in BOOLEAN
    BY ONLY <2>1
  <2>5. ListingOK
    BY ONLY <2>1 DEF ListingOK
  <2> QED BY ONLY <2>2, <2>3, <2>4, <2>5 DEF LedgerInv
<1>2. LedgerInv /\ [LedgerNext]_ledgerVars => LedgerInv'
  <2> SUFFICES ASSUME LedgerInv, [LedgerNext]_ledgerVars
               PROVE  LedgerInv'
    OBVIOUS
  <2> DEFINE ListCalls == [page : 1 .. MaxRecords + 1, rows : 0 .. Unknown, total : 0 .. Unknown]
  <2>1. /\ ledger \in Seq(FinanceRecords) /\ Len(ledger) \in 0 .. MaxRecords
        /\ grew \in BOOLEAN /\ ListingOK
    BY DEF LedgerInv
  <2>2. ASSUME NEW record \in FinanceRecords, CreateRecord(record)
        PROVE  LedgerInv'
    <3>1. /\ Len(ledger) < MaxRecords /\ ledger' = Append(ledger, record)
          /\ grew' = (grew \/ HalfAnswered) /\ listing' = listing
      BY <2>2 DEF CreateRecord
    <3>2. ledger' \in Seq(FinanceRecords) /\ Len(ledger') <= MaxRecords
      BY <2>1, <3>1, AppendProperties
    <3>3. grew' \in BOOLEAN /\ (~grew' => ~grew /\ ~HalfAnswered)
      BY <2>1, <3>1
    <3>4. ListingOK'
      BY <2>1, <3>1, <3>3 DEF ListingOK, HalfAnswered
    <3> QED BY <3>2, <3>3, <3>4 DEF LedgerInv
  <2>3. ASSUME NEW page \in 1 .. MaxRecords + 1, List(page)
        PROVE  LedgerInv'
    <3>1. /\ listing' = [page |-> page, rows |-> Unknown, total |-> Unknown]
          /\ grew' = FALSE /\ UNCHANGED ledger
      BY <2>3 DEF List
    <3>2. Unknown \in 0 .. Unknown
      BY DEF Unknown
    <3> HIDE DEF Unknown
    <3>3. listing' \in ListCalls /\ listing'.rows = Unknown /\ listing'.total = Unknown
      BY <3>1, <3>2
    <3>4. ListingOK'
      BY <3>3 DEF ListingOK
    <3> QED BY <2>1, <3>1, <3>4 DEF LedgerInv
  <2>4. CASE FindPage
    <3> DEFINE n == RowsOfPage(listing.page, Len(ledger))
    <3>1. /\ listing # NotListing /\ listing.rows = Unknown
          /\ listing' = [listing EXCEPT !.rows = n]
          /\ UNCHANGED <<ledger, summary, grew>>
      BY <2>4 DEF FindPage, RowsOfPage
    <3>2. listing \in ListCalls
      BY <2>1, <3>1 DEF ListingOK
    <3>3. n \in 0 .. MaxRecords
      <4>1. listing.page \in Nat \ {0} /\ Len(ledger) \in Nat
        BY <2>1, <3>2
      <4>2. Skip(listing.page) \in Nat
        BY <4>1 DEF Skip
      <4> QED BY <2>1, <4>1, <4>2 DEF RowsOfPage, Least
    <3> HIDE DEF n
    <3>4. /\ listing' \in ListCalls /\ listing'.rows = n /\ listing'.page = listing.page
          /\ listing'.total = listing.total /\ n # Unknown
      BY <3>1, <3>2, <3>3, ListingFields
    <3>5. ListingOK'
      BY <2>1, <3>1, <3>4 DEF ListingOK, n
    <3> QED BY <2>1, <3>1, <3>5 DEF LedgerInv
  <2>5. CASE CountAll
    <3>1. /\ listing # NotListing /\ listing.total = Unknown
          /\ listing' = [listing EXCEPT !.total = Len(ledger)]
          /\ UNCHANGED <<ledger, summary, grew>>
      BY <2>5 DEF CountAll
    <3>2. listing \in ListCalls
      BY <2>1, <3>1 DEF ListingOK
    <3>4. /\ listing' \in ListCalls /\ listing'.total = Len(ledger)
          /\ listing'.page = listing.page
          /\ listing'.rows = listing.rows /\ Len(ledger) # Unknown
      BY <2>1, <3>1, <3>2, ListingFields
    <3>5. ListingOK'
      BY <2>1, <3>1, <3>4 DEF ListingOK
    <3> QED BY <2>1, <3>1, <3>5 DEF LedgerInv
  <2>6. CASE Listed
    BY <2>1, <2>6 DEF Listed, LedgerInv, ListingOK
  <2>7. CASE GetSummary \/ UNCHANGED ledgerVars
    <3>1. UNCHANGED <<ledger, listing, grew>>
      BY <2>7 DEF GetSummary, ledgerVars
    <3> QED BY <2>1, <3>1 DEF LedgerInv, ListingOK
  <2> QED BY <2>2, <2>3, <2>4, <2>5, <2>6, <2>7 DEF LedgerNext
<1> QED BY <1>1, <1>2, PTL DEF LedgerSpec

\* Unless a record came between the two queries of a call, the page and the
\* pagination beside it fit (finance.service.ts and customer.service.ts, list):
\* for every limit and every number of records.
THEOREM PagesFitTheirTotal == LedgerSpec => []PageFitsItsTotal
<1>1. LedgerInv => PageFitsItsTotal
  <2> SUFFICES ASSUME LedgerInv, listing # NotListing,
                      Unknown \notin {listing.rows, listing.total}, ~grew
               PROVE  CASE listing.page < TotalPages(listing.total) -> listing.rows = Limit
                        [] listing.page > TotalPages(listing.total) -> listing.rows = 0
                        [] OTHER -> listing.rows = listing.total - (listing.page - 1) * Limit
    BY DEF PageFitsItsTotal
  <2>1. /\ listing \in [page : 1 .. MaxRecords + 1, rows : 0 .. Unknown,
                        total : 0 .. Unknown]
        /\ listing.rows = RowsOfPage(listing.page, listing.total)
    BY DEF LedgerInv, ListingOK
  <2>2. listing.page \in Nat \ {0} /\ listing.total \in Nat
    BY <2>1
  <2> QED BY <2>1, <2>2, PagesFit
<1> QED BY <1>1, LedgerInductive, PTL

-----------------------------------------------------------------------------
(*****************************************************************************)
(* The summary of a customer's ledger.  What the loop over the records       *)
(* computes for a list of any length needs an induction, which goes here by  *)
(* the least counterexample: a set of numbers that is not empty has a first. *)
(*****************************************************************************)

\* A set of numbers that is not empty has a least one: what is false of some
\* number is false of a first one.
LEMMA FirstOf ==
  ASSUME NEW T \in SUBSET Nat, T # {}
  PROVE  \E m \in T : \A k \in T : m <= k
<1> DEFINE less == {ss \in Nat \X Nat : ss[1] < ss[2]}
<1>0. IsWellFoundedOn(less, Nat)
  BY NatLessThanWellFounded DEF OpToRel
<1> HIDE DEF less
<1>1. PICK m \in T : \A k \in T : ~(<<k, m>> \in less)
  BY <1>0, WFMin
<1>2. \A k \in T : ~(k < m)
  <2> SUFFICES ASSUME NEW k \in T, k < m PROVE FALSE
    OBVIOUS
  <2>1. <<k, m>> \in less
    BY DEF less
  <2> QED BY <1>1, <2>1
<1> QED BY <1>2

\* And one that is bounded has a greatest.
LEMMA GreatestOf ==
  ASSUME NEW n \in Nat, NEW t \in SUBSET (1 .. n), t # {}
  PROVE  Max(t) \in t
<1> DEFINE Above == {m \in Nat : \A x \in t : x <= m}
<1>1. n \in Above
  OBVIOUS
<1>2. PICK u \in Above : \A k \in Above : u <= k
  <2> HIDE DEF Above
  <2>1. Above \in SUBSET Nat
    BY DEF Above
  <2> QED BY <1>1, <2>1, FirstOf
<1>3. u \in t
  <2> SUFFICES ASSUME u \notin t PROVE FALSE
    OBVIOUS
  <2>1. \A x \in t : x \in Nat /\ x <= u /\ x # u /\ x >= 1
    OBVIOUS
  <2>2. u \in Nat /\ u >= 1
    <3>1. PICK x \in t : TRUE
      OBVIOUS
    <3>2. x \in Nat /\ x >= 1 /\ x <= u /\ u \in Nat
      BY <2>1
    <3> QED BY <3>2
  <2>3. u - 1 \in Nat /\ \A x \in t : x <= u - 1
    BY <2>1, <2>2
  <2>4. u - 1 \in Above
    BY <2>3
  <2> QED BY <1>2, <2>2, <2>4
<1>4. \A y \in t : u >= y
  BY <1>2
<1> QED BY <1>3, <1>4 DEF Max

LEMMA LastOf ==
  ASSUME NEW n \in Nat, NEW t \in SUBSET (1 .. n + 1), n + 1 \in t
  PROVE  Max(t) = n + 1
<1>1. \A x \in t : x <= n + 1 /\ x \in Nat
  OBVIOUS
<1>2. \A x \in t : (\A y \in t : x >= y) => x = n + 1
  BY <1>1
<1> QED BY <1>1, <1>2 DEF Max

\* The loop over records, begun with base: what the places of a set add to it.
Looped(h, t, records, base) ==
  IF t = {} THEN base ELSE Add(h[t \ {Max(t)}], records[Max(t)])
Loop(n, records, base) ==
  CHOOSE h : h = [t \in SUBSET (1 .. n) |-> Looped(h, t, records, base)]

LEMMA LoopExists ==
  ASSUME NEW records, NEW base
  PROVE  \A n \in Nat :
           \E h : h = [t \in SUBSET (1 .. n) |-> Looped(h, t, records, base)]
<1> DEFINE Is(h, n) == h = [t \in SUBSET (1 .. n) |-> Looped(h, t, records, base)]
           Not == {n \in Nat : ~ \E h : Is(h, n)}
<1> SUFFICES ASSUME Not # {} PROVE FALSE
  OBVIOUS
<1>1. PICK n \in Not : \A k \in Not : n <= k
  BY FirstOf
<1>2. n # 0
  <2> DEFINE h == [t \in SUBSET (1 .. 0) |-> base]
  <2>1. \A t \in SUBSET (1 .. 0) : t = {}
    OBVIOUS
  <2>2. Is(h, 0)
    BY <2>1 DEF Looped
  <2> QED BY <2>2
<1>3. n - 1 \in Nat /\ n - 1 \notin Not
  <2>1. n \in Nat
    OBVIOUS
  <2>2. n - 1 \in Nat /\ ~(n <= n - 1)
    BY <1>2, <2>1
  <2> HIDE DEF Not
  <2> QED BY <1>1, <2>2
<1>4. PICK h : Is(h, n - 1)
  BY <1>3
<1> DEFINE g == [t \in SUBSET (1 .. n) |->
                   IF n \in t THEN Add(h[t \ {n}], records[n]) ELSE h[t]]
<1>5. Is(g, n)
  <2> SUFFICES ASSUME NEW t \in SUBSET (1 .. n)
               PROVE  g[t] = Looped(g, t, records, base)
    OBVIOUS
  <2>1. CASE n \in t
    <3>1. Max(t) = n
      BY <1>3, <2>1, LastOf
    <3>2. t \ {n} \in SUBSET (1 .. n) /\ n \notin t \ {n}
      OBVIOUS
    <3>3. g[t \ {n}] = h[t \ {n}]
      BY <3>2
    <3> QED BY <2>1, <3>1, <3>3 DEF Looped
  <2>2. CASE n \notin t
    <3>1. t \in SUBSET (1 .. n - 1)
      BY <1>3, <2>2
    <3>2. h[t] = Looped(h, t, records, base)
      BY <1>4, <3>1
    <3>3. t # {} => Max(t) \in t /\ t \ {Max(t)} \in SUBSET (1 .. n) /\ n \notin t \ {Max(t)}
      BY <1>3, <2>2, <3>1, GreatestOf
    <3>4. t # {} => g[t \ {Max(t)}] = h[t \ {Max(t)}]
      BY <3>3
    <3> QED BY <2>2, <3>2, <3>4 DEF Looped
  <2> QED BY <2>1, <2>2
<1> QED BY <1>1, <1>5

LEMMA LoopIs ==
  ASSUME NEW records, NEW base, NEW n \in Nat, NEW t \in SUBSET (1 .. n)
  PROVE  Loop(n, records, base)[t] = Looped(Loop(n, records, base), t, records, base)
<1> DEFINE h == Loop(n, records, base)
<1>1. h = [s \in SUBSET (1 .. n) |-> Looped(h, s, records, base)]
  BY LoopExists DEF Loop
<1> QED BY <1>1

\* The loop of getSummary, as it is unfolded: the last record is added last.
LEMMA LoopGoesOn ==
  ASSUME NEW records, NEW base, NEW n \in Nat
  PROVE  /\ Loop(n, records, base)[{}] = base
         /\ \A k \in 0 .. n - 1 :
              Loop(n, records, base)[1 .. k + 1]
                = Add(Loop(n, records, base)[1 .. k], records[k + 1])
<1>1. Loop(n, records, base)[{}] = base
  BY LoopIs DEF Looped
<1>2. ASSUME NEW k \in 0 .. n - 1
      PROVE  Loop(n, records, base)[1 .. k + 1]
                = Add(Loop(n, records, base)[1 .. k], records[k + 1])
  <2>1. 1 .. k + 1 \in SUBSET (1 .. n) /\ 1 .. k + 1 # {} /\ k \in Nat
    OBVIOUS
  <2>2. Max(1 .. k + 1) = k + 1
    BY <2>1, LastOf
  <2>3. (1 .. k + 1) \ {k + 1} = 1 .. k
    OBVIOUS
  <2> DEFINE t == 1 .. k + 1
             s == 1 .. k
  <2>4. Loop(n, records, base)[t] = Looped(Loop(n, records, base), t, records, base)
    BY <2>1, LoopIs
  <2>5. t # {} /\ Max(t) = k + 1 /\ t \ {k + 1} = s
    BY <2>1, <2>2, <2>3
  <2> HIDE DEF t, s
  <2>6. Loop(n, records, base)[t] = Add(Loop(n, records, base)[s], records[k + 1])
    BY <2>4, <2>5 DEF Looped
  <2> QED BY <2>6 DEF t, s
<1> QED BY <1>1, <1>2

LEMMA FoldIsLoop ==
  ASSUME NEW records \in Seq(FinanceRecords), NEW base
  PROVE  FoldLeft(Add, base, records) = Loop(Len(records), records, base)[1 .. Len(records)]
<1>1. DOMAIN records = 1 .. Len(records)
  OBVIOUS
<1> QED BY <1>1 DEF FoldLeft, MapThenFoldSet, Loop, Looped

Summaries == [transactionCount : Nat, totalPurchases : Nat, totalRefunds : Nat, totalTopUps : Nat]
CompletedOf(records, n) == {i \in 1 .. n : records[i].status = Settled}

\* Each completed record is added to one sum.
LEMMA SumsAddUp ==
  ASSUME NEW records \in Seq(FinanceRecords), Amounts = {1}, NEW c \in Nat
  PROVE  LET sums == FoldLeft(Add, [transactionCount |-> c, totalPurchases |-> 0,
                                    totalRefunds |-> 0, totalTopUps |-> 0], records)
         IN  /\ sums \in Summaries
             /\ sums.transactionCount = c
             /\ sums.totalPurchases + sums.totalRefunds + sums.totalTopUps
                  = Cardinality(CompletedOf(records, Len(records)))
<1> DEFINE n == Len(records)
           zero == [transactionCount |-> c, totalPurchases |-> 0,
                                    totalRefunds |-> 0, totalTopUps |-> 0]
           loop == Loop(n, records, zero)
           Right(sums, k) ==
             /\ sums \in Summaries
             /\ sums.transactionCount = c
             /\ sums.totalPurchases + sums.totalRefunds + sums.totalTopUps
                  = Cardinality(CompletedOf(records, k))
           Wrong == {k \in 0 .. n : ~Right(loop[1 .. k], k)}
<1>1. FoldLeft(Add, zero, records) = loop[1 .. n]
  BY FoldIsLoop
<1>2. Right(loop[1 .. 0], 0)
  <2>1. 1 .. 0 = {}
    OBVIOUS
  <2>2. n \in Nat
    OBVIOUS
  <2> HIDE DEF n
  <2>3. loop[{}] = zero
    <3> HIDE DEF zero
    <3> QED BY <2>2, LoopGoesOn
  <2>4. CompletedOf(records, 0) = {}
    BY <2>1 DEF CompletedOf
  <2>5. Cardinality({}) = 0
    BY FS_EmptySet
  <2>6. Right(zero, 0)
    <3>1. zero \in Summaries /\ zero.transactionCount = c
          /\ zero.totalPurchases = 0 /\ zero.totalRefunds = 0 /\ zero.totalTopUps = 0
      BY DEF Summaries
    <3> HIDE DEF zero
    <3>2. zero.totalPurchases + zero.totalRefunds + zero.totalTopUps = 0
      BY <3>1
    <3>3. Cardinality(CompletedOf(records, 0)) = 0
      BY <2>4, <2>5
    <3> QED BY ONLY <3>1, <3>2, <3>3
  <2> HIDE DEF loop, zero
  <2> QED BY <2>1, <2>3, <2>6
<1>3. ASSUME NEW k \in 0 .. n - 1, Right(loop[1 .. k], k)
      PROVE  Right(loop[1 .. k + 1], k + 1)
  <2> DEFINE sums == loop[1 .. k]
             record == records[k + 1]
  <2>1. loop[1 .. k + 1] = Add(sums, record)
    <3>1. n \in Nat
      OBVIOUS
    <3> HIDE DEF zero, n
    <3> QED BY <3>1, LoopGoesOn
  <2>2. record \in FinanceRecords
    OBVIOUS
  <2>3. sums \in Summaries
    BY <1>3
  <2>4. IsFiniteSet(CompletedOf(records, k)) /\ k + 1 \notin CompletedOf(records, k)
    <3>1. IsFiniteSet(1 .. k)
      BY FS_Interval
    <3> QED BY <3>1, FS_Subset DEF CompletedOf
  <2>5. CASE record.status = Settled
    <3>1. CompletedOf(records, k + 1) = CompletedOf(records, k) \union {k + 1}
      BY <2>5 DEF CompletedOf
    <3>2. /\ Cardinality(CompletedOf(records, k + 1)) = Cardinality(CompletedOf(records, k)) + 1
          /\ Cardinality(CompletedOf(records, k)) \in Nat
      BY <2>4, <3>1, FS_AddElement, FS_CardinalityType
    <3>3. /\ Add(sums, record) \in Summaries
          /\ Add(sums, record).transactionCount = sums.transactionCount
          /\ Add(sums, record).totalPurchases + Add(sums, record).totalRefunds + Add(sums, record).totalTopUps
               = sums.totalPurchases + sums.totalRefunds + sums.totalTopUps + 1
      <4> HIDE DEF sums, record
      <4>1. PICK p, r, u \in Nat :
              sums = [transactionCount |-> sums.transactionCount, totalPurchases |-> p,
                      totalRefunds |-> r, totalTopUps |-> u]
        BY <2>3 DEF Summaries
      <4>2. sums.transactionCount \in Nat
        BY <2>3 DEF Summaries
      <4>3. record.type \in RecordTypes /\ record.amount = 1
        BY <2>2 DEF FinanceRecords
      <4>4. Add(sums, record) \in
              { [sums EXCEPT !.totalPurchases = @ + 1], [sums EXCEPT !.totalRefunds = @ + 1],
                [sums EXCEPT !.totalTopUps = @ + 1] }
        BY <2>5, <4>3 DEF Add, RecordTypes
      <4>5. sums.totalPurchases = p /\ sums.totalRefunds = r /\ sums.totalTopUps = u
        BY <4>1
      <4> DEFINE q == sums.transactionCount
      <4> HIDE DEF q
      <4>6. Add(sums, record) \in
              { [transactionCount |-> q, totalPurchases |-> p + 1, totalRefunds |-> r,
                 totalTopUps |-> u],
                [transactionCount |-> q, totalPurchases |-> p, totalRefunds |-> r + 1,
                 totalTopUps |-> u],
                [transactionCount |-> q, totalPurchases |-> p, totalRefunds |-> r,
                 totalTopUps |-> u + 1] }
        <5>1. sums = [transactionCount |-> q, totalPurchases |-> p, totalRefunds |-> r,
                      totalTopUps |-> u]
          BY <4>1 DEF q
        <5> QED BY ONLY <4>4, <5>1
      <4>7. q \in Nat /\ q = sums.transactionCount
        BY <4>2 DEF q
      <4> DEFINE a == Add(sums, record)
      <4> HIDE DEF a
      <4>8. PICK x, y, z \in Nat :
              /\ a = [transactionCount |-> q, totalPurchases |-> x, totalRefunds |-> y,
                      totalTopUps |-> z]
              /\ x + y + z = p + r + u + 1
        <5>1. p + 1 + r + u = p + r + u + 1 /\ p + (r + 1) + u = p + r + u + 1
              /\ p + r + (u + 1) = p + r + u + 1 /\ {p + 1, r + 1, u + 1} \subseteq Nat
          OBVIOUS
        <5> QED BY <4>6, <5>1 DEF a
      <4>9. a \in Summaries /\ a.transactionCount = q
            /\ a.totalPurchases = x /\ a.totalRefunds = y /\ a.totalTopUps = z
        BY <4>7, <4>8 DEF Summaries
      <4> QED BY <4>5, <4>7, <4>8, <4>9 DEF a
    <3> HIDE DEF sums, record, loop
    <3> QED BY <1>3, <2>1, <3>2, <3>3 DEF sums
  <2>6. CASE record.status # Settled
    <3>1. CompletedOf(records, k + 1) = CompletedOf(records, k)
      BY <2>6 DEF CompletedOf
    <3>2. Add(sums, record) = sums
      BY <2>6 DEF Add
    <3> QED BY <1>3, <2>1, <3>1, <3>2
  <2> QED BY <2>5, <2>6
<1>4. Wrong = {}
  <2> SUFFICES ASSUME Wrong # {} PROVE FALSE
    OBVIOUS
  <2>1. n \in Nat
    OBVIOUS
  <2> HIDE DEF n, Right, loop
  <2>2. Wrong \in SUBSET Nat /\ Wrong \subseteq 0 .. n
    BY <2>1
  <2>3. PICK m \in Wrong : \A k \in Wrong : m <= k
    <3> HIDE DEF Wrong
    <3> QED BY <2>2, FirstOf
  <2>4. m # 0 /\ m \in 0 .. n
    BY <1>2, <2>2, <2>3
  <2>5. m - 1 \in 0 .. n - 1 /\ m - 1 \in 0 .. n /\ m - 1 + 1 = m /\ ~(m <= m - 1)
    BY <2>1, <2>4
  <2>6. Right(loop[1 .. m - 1], m - 1)
    BY <2>3, <2>5
  <2>7. Right(loop[1 .. m], m)
    BY <1>3, <2>5, <2>6
  <2> QED BY <2>3, <2>7
<1>5. Right(loop[1 .. n], n)
  <2>1. n \in 0 .. n
    OBVIOUS
  <2> HIDE DEF n, Right, loop
  <2> QED BY <1>4, <2>1
<1> HIDE DEF loop
<1> QED BY <1>1, <1>5

\* The summary counts what its query found, and its sums are those of the loop.
LEMMA SummaryFound ==
  ASSUME ledger \in Seq(FinanceRecords), GetSummary, Amounts = {1}
  PROVE  SummaryAddsUp'
<1> DEFINE c == Cardinality(Completed)
           zero == [transactionCount |-> c, totalPurchases |-> 0,
                    totalRefunds |-> 0, totalTopUps |-> 0]
<1>1. Completed = CompletedOf(ledger, Len(ledger))
  BY DEF Completed, CompletedOf
<1>2. c \in Nat
  <2>1. IsFiniteSet(1 .. Len(ledger)) /\ CompletedOf(ledger, Len(ledger)) \subseteq 1 .. Len(ledger)
    BY FS_Interval DEF CompletedOf
  <2> QED BY <1>1, <2>1, FS_Subset, FS_CardinalityType
<1>3. summary' = FoldLeft(Add, zero, ledger)
  BY DEF GetSummary
<1> HIDE DEF c
<1>4. /\ summary'.transactionCount = c
      /\ summary'.totalPurchases + summary'.totalRefunds + summary'.totalTopUps
           = Cardinality(CompletedOf(ledger, Len(ledger)))
  BY <1>2, <1>3, SumsAddUp
<1> QED BY <1>1, <1>4 DEF SummaryAddsUp, c

\* Each completed record is in exactly one sum of the summary (getSummary of
\* finance.service.ts): for any number of records, in any order of their types.
THEOREM SummariesAddUp == LedgerSpec => []SummaryAddsUp
<1>1. LedgerInit => SummaryAddsUp
  BY DEF LedgerInit, SummaryAddsUp
<1>2. LedgerInv /\ SummaryAddsUp /\ [LedgerNext]_ledgerVars => SummaryAddsUp'
  <2> SUFFICES ASSUME LedgerInv, SummaryAddsUp, [LedgerNext]_ledgerVars, Amounts = {1}
               PROVE  SummaryAddsUp'
    BY DEF SummaryAddsUp
  <2>1. CASE GetSummary
    BY <2>1, SummaryFound DEF LedgerInv
  <2>2. CASE UNCHANGED summary
    BY <2>2 DEF SummaryAddsUp
  <2> QED BY <2>1, <2>2
          DEF LedgerNext, CreateRecord, List, FindPage, CountAll, Listed, ledgerVars
<1> QED BY <1>1, <1>2, LedgerInductive, PTL DEF LedgerSpec

-----------------------------------------------------------------------------
(*****************************************************************************)
(* The profile of a birth date.                                              *)
(*****************************************************************************)

\* The dates the server can take a request for.
OnCalendar(d) ==
  /\ d.year \in Nat /\ 1582 <= d.year /\ d.year <= 9998
  /\ d.month \in Nat /\ 1 <= d.month /\ d.month <= 12
  /\ d.day \in Nat /\ 1 <= d.day /\ d.day <= 31

LEMMA RequestFields ==
  ASSUME NEW b \in RequestDates, IsDate(b)
  PROVE  /\ OnCalendar(b) /\ 1583 <= b.year
         /\ b = [year |-> b.year, month |-> b.month, day |-> b.day]
<1>1. b.year \in BirthYears /\ b = [year |-> b.year, month |-> b.month, day |-> b.day]
  <2>1. b \in [year : BirthYears, month : 0 .. 13, day : 0 .. 32]
    BY DEF RequestDates
  <2> QED BY ONLY <2>1
<1>2. \A y \in BirthYears : y \in Nat /\ 1583 <= y /\ y <= 9998
  BY MetaphysicalAssumption DEF MetaphysicalAssumption
<1>3. b.month \in Nat /\ 1 <= b.month /\ b.month <= 12
  BY DEF IsDate
<1>4. b.day \in Nat /\ 1 <= b.day /\ b.day <= 31
  BY DEF IsDate
<1> QED BY <1>1, <1>2, <1>3, <1>4 DEF OnCalendar

\* The cycles of ten and of twelve years are those of sixty from 1984 on.
LEMMA CyclesAreOfSixty ==
  ASSUME NEW year \in Nat
  PROVE  /\ Stem(year) = ((year - 1984) % 60) % 10
         /\ Branch(year) = ((year - 1984) % 60) % 12
         /\ STEM_ELEMENTS[Stem(year) + 1] =
              <<"wood", "fire", "earth", "metal", "water">>[Stem(year) \div 2 + 1]
<1>1. Stem(year) = ((year - 1984) % 60) % 10
  BY DEF Stem
<1>2. Branch(year) = ((year - 1984) % 60) % 12
  BY DEF Branch
<1>3. Stem(year) \in 0 .. 9
  BY DEF Stem
<1>4. \A s \in 0 .. 9 : STEM_ELEMENTS[s + 1] =
        <<"wood", "fire", "earth", "metal", "water">>[s \div 2 + 1]
  BY DEF STEM_ELEMENTS
<1> QED BY <1>1, <1>2, <1>3, <1>4

LEMMA DivModTen ==
  ASSUME NEW n \in Nat
  PROVE  /\ n \div 10 \in Nat /\ n % 10 \in Nat
         /\ n % 10 <= 9 /\ n = 10 * (n \div 10) + (n % 10)
OBVIOUS

\* Adding the digits up leaves the remainder by nine.
LEMMA DigitsLeaveNines ==
  ASSUME NEW n \in Nat, n <= 9999
  PROVE  /\ DigitSum(n) \in Nat /\ DigitSum(n) <= 36
         /\ DigitSum(n) % 9 = n % 9
         /\ n > 0 => DigitSum(n) > 0
         /\ 10 <= n /\ n <= 36 => DigitSum(n) <= 11
         /\ n = 10 => DigitSum(n) = 1
<1> DEFINE a == n \div 10
           b == a \div 10
           c == b \div 10
           x == n % 10
           y == a % 10
           z == b % 10
<1>1. /\ \A k \in Nat, r \in Nat : r < 100 => (100 * k + r) \div 100 = k
      /\ \A k \in Nat, r \in Nat : r < 1000 => (1000 * k + r) \div 1000 = k
      /\ \A k \in Nat, r \in Nat : (r + 9 * k) % 9 = r % 9
  <2>1. \A k \in Nat, r \in Nat : r < 100 => (100 * k + r) \div 100 = k
    OBVIOUS
  <2>2. \A k \in Nat, r \in Nat : r < 1000 => (1000 * k + r) \div 1000 = k
    OBVIOUS
  <2>3. \A k \in Nat, r \in Nat : (r + 9 * k) % 9 = r % 9
    OBVIOUS
  <2> QED BY ONLY <2>1, <2>2, <2>3
<1>2. a \in Nat /\ x \in Nat /\ x <= 9 /\ n = 10 * a + x
  BY DivModTen
<1>3. b \in Nat /\ y \in Nat /\ y <= 9 /\ a = 10 * b + y
  BY <1>2, DivModTen
<1>4. c \in Nat /\ z \in Nat /\ z <= 9 /\ b = 10 * c + z
  BY <1>3, DivModTen
<1> HIDE DEF a, b, c, x, y, z
<1>5. n = 100 * b + (10 * y + x) /\ 10 * y + x \in Nat /\ 10 * y + x < 100
  BY <1>2, <1>3
<1>6. /\ n = 1000 * c + (100 * z + 10 * y + x)
      /\ 100 * z + 10 * y + x \in Nat /\ 100 * z + 10 * y + x < 1000
  BY <1>2, <1>3, <1>4
<1>7. n \div 100 = b
  BY ONLY <1>1, <1>3, <1>5
<1>8. n \div 1000 = c
  BY ONLY <1>1, <1>4, <1>6
<1>9. DigitSum(n) = x + y + z + c
  BY <1>7, <1>8 DEF DigitSum, a, x, y, z
<1>10. DigitSum(n) \in Nat /\ DigitSum(n) <= 36 /\ n = DigitSum(n) + 9 * (a + b + c)
  BY <1>2, <1>3, <1>4, <1>9
<1>11. DigitSum(n) % 9 = n % 9
  <2>1. a + b + c \in Nat
    BY <1>2, <1>3, <1>4
  <2> QED BY ONLY <1>1, <1>10, <2>1
<1>12. n > 0 => DigitSum(n) > 0
  BY <1>2, <1>3, <1>4, <1>9
<1>13. 10 <= n /\ n <= 36 => DigitSum(n) <= 11
  BY <1>2, <1>3, <1>4, <1>9
<1>14. n = 10 => DigitSum(n) = 1
  BY <1>2, <1>3, <1>4, <1>9
<1> QED BY ONLY <1>10, <1>11, <1>12, <1>13, <1>14

\* What is left is one digit or a master number, of the same remainder.
LEMMA ReducedToSingle ==
  ASSUME NEW n \in Nat, 0 < n, n <= 9999
  PROVE  /\ ReduceToSingle(n) \in 1 .. 9 \union Master
         /\ ReduceToSingle(n) % 9 = n % 9
<1> DEFINE Step(k) == IF k > 9 /\ k \notin Master THEN DigitSum(k) ELSE k
           IsSingle(k) == k \in Master \/ (1 <= k /\ k <= 9)
<1>1. ReduceToSingle(n) = Step(Step(Step(n)))
  BY DEF ReduceToSingle
<1>2. ASSUME NEW k \in Nat, 0 < k, k <= 9999
      PROVE  /\ Step(k) \in Nat /\ 0 < Step(k) /\ Step(k) <= 36 /\ Step(k) % 9 = k % 9
             /\ k <= 36 => Step(k) <= 11 \/ Step(k) \in Master
             /\ k <= 11 \/ k \in Master => IsSingle(Step(k))
  <2>1. CASE k <= 9 \/ k \in Master
    <3>1. Step(k) = k
      BY <1>2, <2>1
    <3> HIDE DEF Step
    <3> QED BY <1>2, <2>1, <3>1 DEF Master
  <2>2. CASE k > 9 /\ k \notin Master
    <3>1. Step(k) = DigitSum(k)
      BY <2>2
    <3>2. /\ DigitSum(k) \in Nat /\ DigitSum(k) <= 36 /\ DigitSum(k) % 9 = k % 9
          /\ DigitSum(k) > 0
          /\ 10 <= k /\ k <= 36 => DigitSum(k) <= 11
          /\ k = 10 => DigitSum(k) = 1
      BY <1>2, DigitsLeaveNines
    <3>3. k <= 36 => DigitSum(k) <= 11
      BY <1>2, <2>2, <3>2
    <3>4. k <= 11 \/ k \in Master => DigitSum(k) = 1
      BY <1>2, <2>2, <3>2 DEF Master
    <3> HIDE DEF Step
    <3> QED BY <1>2, <2>2, <3>1, <3>2, <3>3, <3>4
  <2> QED BY <1>2, <2>1, <2>2
<1> DEFINE a == Step(n)
           b == Step(a)
<1> HIDE DEF Step
<1>3. a \in Nat /\ 0 < a /\ a <= 36 /\ a % 9 = n % 9
  BY <1>2
<1> HIDE DEF a
<1>4. b \in Nat /\ 0 < b /\ b <= 36 /\ b % 9 = n % 9 /\ (b <= 11 \/ b \in Master)
  BY <1>2, <1>3
<1> HIDE DEF b
<1>5. IsSingle(Step(b)) /\ Step(b) \in Nat /\ Step(b) % 9 = n % 9
  BY <1>2, <1>4
<1> QED BY <1>1, <1>5 DEF a, b

LEMMA PathIsOfTheDate ==
  ASSUME NEW d, OnCalendar(d)
  PROVE  /\ CalculateLifePathNumber(d) \in 1 .. 9 \union Master
         /\ CalculateLifePathNumber(d) % 9 = (d.year + d.month + d.day) % 9
<1> DEFINE y == ReduceToSingle(d.year)
           m == ReduceToSingle(d.month)
           t == ReduceToSingle(d.day)
<1>1. y \in 1 .. 9 \union Master /\ y % 9 = d.year % 9
  BY ReducedToSingle DEF OnCalendar
<1>2. m \in 1 .. 9 \union Master /\ m % 9 = d.month % 9
  BY ReducedToSingle DEF OnCalendar
<1>3. t \in 1 .. 9 \union Master /\ t % 9 = d.day % 9
  BY ReducedToSingle DEF OnCalendar
<1>4. CalculateLifePathNumber(d) = ReduceToSingle(y + m + t)
  BY DEF CalculateLifePathNumber
<1> HIDE DEF y, m, t
<1>5. /\ y \in Nat /\ 1 <= y /\ y <= 33 /\ m \in Nat /\ 1 <= m /\ m <= 33
      /\ t \in Nat /\ 1 <= t /\ t <= 33
  BY <1>1, <1>2, <1>3 DEF Master
<1>6. y + m + t \in Nat /\ 0 < y + m + t /\ y + m + t <= 9999
  BY <1>5
<1>7. \A a, b, c, e, f, g \in Nat :
        a % 9 = e % 9 /\ b % 9 = f % 9 /\ c % 9 = g % 9 =>
          (a + b + c) % 9 = (e + f + g) % 9
  OBVIOUS
<1>8. (y + m + t) % 9 = (d.year + d.month + d.day) % 9
  BY <1>1, <1>2, <1>3, <1>5, <1>7 DEF OnCalendar
<1> DEFINE s == y + m + t
<1> HIDE DEF s
<1>9. ReduceToSingle(s) \in 1 .. 9 \union Master /\ ReduceToSingle(s) % 9 = s % 9
  BY <1>6, ReducedToSingle DEF s
<1> QED BY <1>4, <1>8, <1>9 DEF s

\* The day of each month on which a sign begins.
FirstDay == <<20, 19, 21, 20, 21, 21, 23, 23, 23, 23, 22, 22>>

LEMMA FirstDays ==
  \A m \in 1 .. 12 :
    /\ FirstDay[m] \in Nat /\ 19 <= FirstDay[m] /\ FirstDay[m] <= 23
    /\ 100 * m + FirstDay[m] \in Begins
  BY DEF FirstDay, Begins

\* The sign of the year a date is in, counted from January.
SignNumber(d) == IF d.day < FirstDay[d.month] THEN d.month ELSE d.month + 1

LEMMA SignNumberIsItsSign ==
  ASSUME NEW d, OnCalendar(d)
  PROVE  SignOn(d) = SignsOfTheYear[SignNumber(d)]
<1> DEFINE n == SignNumber(d) - 1
           key == 100 * d.month + d.day
           begun == {b \in Begins : b <= key}
           Start == [m \in 1 .. n |-> 100 * m + FirstDay[m]]
<1>1. d.month \in 1 .. 12 /\ d.day \in Nat /\ d.day >= 1 /\ d.day <= 31 /\ key \in Nat
  BY DEF OnCalendar
<1>2. n \in 0 .. 12 /\ n \in Nat
  BY <1>1, FirstDays DEF SignNumber
<1>3. \A m \in 1 .. 12 : 100 * m + FirstDay[m] <= key <=> m <= n
  BY <1>1, FirstDays DEF SignNumber
<1>4. \A b \in Begins : \E m \in 1 .. 12 : b = 100 * m + FirstDay[m]
  BY DEF Begins, FirstDay
<1> HIDE DEF n, key
<1>5. Start \in Bijection(1 .. n, begun)
  <2>1. \A m \in 1 .. n : m \in 1 .. 12 /\ Start[m] = 100 * m + FirstDay[m]
    BY <1>2
  <2> HIDE DEF Start
  <2>2. \A m \in 1 .. n : Start[m] \in begun
    BY <1>2, <1>3, <2>1, FirstDays
  <2>3. \A b \in begun : \E m \in 1 .. n : Start[m] = b
    BY <1>2, <1>3, <1>4, <2>1
  <2>4. \A k, m \in 1 .. n : Start[k] = Start[m] => k = m
    BY <2>1, FirstDays
  <2>5. Start \in [1 .. n -> begun]
    BY <2>2 DEF Start
  <2> QED BY ONLY <2>3, <2>4, <2>5
            DEF Bijection, Injection, Surjection, IsInjective
<1> HIDE DEF Start
<1>6. Cardinality(1 .. n) = n /\ IsFiniteSet(1 .. n)
  BY <1>2, FS_Interval
<1>7. Cardinality(begun) = n
  <2>1. ExistsBijection(1 .. n, begun)
    BY ONLY <1>5 DEF ExistsBijection
  <2> HIDE DEF begun
  <2> QED BY ONLY <1>6, <2>1, FS_Bijection
<1>8. n + 1 = SignNumber(d)
  BY <1>1 DEF n, SignNumber
<1> QED BY <1>7, <1>8 DEF SignOn, key

\* The ranges of the signs join and have no date in common.
LEMMA RangesJoin ==
  \A i \in 1 .. 12 :
    LET before == IF i = 1 THEN 12 ELSE i - 1
    IN /\ ZODIAC_RANGES[i][2] = before /\ ZODIAC_RANGES[i][3] = FirstDay[before]
       /\ ZODIAC_RANGES[i][4] = i /\ ZODIAC_RANGES[i][5] = FirstDay[i] - 1
       /\ ZODIAC_RANGES[i][1] = SignsOfTheYear[i]
       /\ i = 1 => SignsOfTheYear[13] = ZODIAC_RANGES[i][1]
  BY DEF ZODIAC_RANGES, FirstDay, SignsOfTheYear

LEMMA OneRangeHasTheDate ==
  ASSUME NEW d, OnCalendar(d)
  PROVE  CalculateZodiacSign(d) = SignsOfTheYear[SignNumber(d)]
<1> DEFINE k == IF SignNumber(d) = 13 THEN 1 ELSE SignNumber(d)
           found == {i \in 1 .. 12 : InRange(ZODIAC_RANGES[i], d)}
<1>1. d.month \in 1 .. 12 /\ d.day \in Nat
  BY DEF OnCalendar
<1>2. k \in 1 .. 12 /\ SignNumber(d) \in 1 .. 13
  BY <1>1 DEF SignNumber
<1>3. \A i \in 1 .. 12 : InRange(ZODIAC_RANGES[i], d) <=> i = k
  <2> TAKE i \in 1 .. 12
  <2> DEFINE before == IF i = 1 THEN 12 ELSE i - 1
  <2>1. InRange(ZODIAC_RANGES[i], d) <=>
          \/ d.month = before /\ d.day >= FirstDay[before]
          \/ d.month = i /\ d.day <= FirstDay[i] - 1
    BY RangesJoin DEF InRange
  <2>2. FirstDay[d.month] \in Nat
    BY <1>1, FirstDays
  <2> QED BY <1>1, <2>1, <2>2 DEF SignNumber
<1> HIDE DEF k
<1>4. found = {k}
  BY <1>2, <1>3
<1>5. (CHOOSE i \in found : \A j \in found : i <= j) = k
  BY <1>2, <1>4
<1>6. CalculateZodiacSign(d) = ZODIAC_RANGES[k][1]
  BY <1>4, <1>5 DEF CalculateZodiacSign
<1>7. ZODIAC_RANGES[k][1] = SignsOfTheYear[SignNumber(d)]
  BY <1>2, RangesJoin DEF k
<1> QED BY <1>6, <1>7

\* The profile CustomerManagement derives from a birth date is that of the
\* calendar (utils/metaphysical.ts), in whatever years: of the date in the
\* request itself, if it is one of the calendar and the server not behind UTC.
THEOREM ProfilesAreOfTheirDates ==
  MetaphysicalSpec => []ProfileIsOfItsDate
<1> DEFINE ProfileInv ==
             /\ west \in BOOLEAN /\ ProfileIsOfItsDate
<1>1. MetaphysicalInit => ProfileInv
  BY DEF MetaphysicalInit, ProfileIsOfItsDate
<1>2. ProfileInv /\ [MetaphysicalNext]_profileVars => ProfileInv'
  <2>1. ASSUME ProfileInv, UNCHANGED profileVars PROVE ProfileInv'
    BY <2>1 DEF profileVars, ProfileIsOfItsDate
  <2>2. ASSUME west \in BOOLEAN, CalculateAllMetaphysical PROVE ProfileInv'
    <3>1. birth' \in RequestDates /\ UNCHANGED west
      BY <2>2 DEF CalculateAllMetaphysical
    <3>2. CASE ~IsDate(birth')
      <4>1. profile' = NullProfile
        BY <2>2, <3>2 DEF CalculateAllMetaphysical
      <4>2. ~OfTheCalendar(birth')
        BY <3>2 DEF OfTheCalendar
      <4> QED BY <2>2, <3>1, <4>1, <4>2 DEF ProfileIsOfItsDate
    <3>3. CASE IsDate(birth')
      <4> SUFFICES ASSUME OfTheCalendar(birth'), ~west' PROVE ProfileInv'
        BY <2>2, <3>1, <3>3 DEF ProfileIsOfItsDate
      <4> DEFINE d == LocalDate(birth')
      <4>1. profile' = [sign |-> CalculateZodiacSign(d),
                        chinese |-> CalculateChineseZodiac(d),
                        element |-> CalculateFiveElement(d),
                        path |-> CalculateLifePathNumber(d)]
        BY <2>2, <3>3 DEF CalculateAllMetaphysical
      <4>3. d = birth'
        BY <3>1 DEF LocalDate, Rolled, OfTheCalendar
      <4>2. OnCalendar(d)
        BY <3>1, <3>3, <4>3, RequestFields
      <4> HIDE DEF d
      <4>4. PICK year \in Nat : year = d.year
        BY ONLY <4>2 DEF OnCalendar
      <4> DEFINE since == (year - 1984) % 60
      <4>5. profile'.sign = SignOn(d)
        <5>1. profile'.sign = CalculateZodiacSign(d)
          BY ONLY <4>1
        <5> QED BY ONLY <4>2, <5>1, OneRangeHasTheDate, SignNumberIsItsSign
      <4>6. profile'.chinese = <<since % 10, since % 12>>
        <5>1. profile'.chinese = <<Stem(year), Branch(year)>>
          BY ONLY <4>1, <4>4 DEF CalculateChineseZodiac
        <5>2. Stem(year) = since % 10
          BY CyclesAreOfSixty
        <5>3. Branch(year) = since % 12
          BY CyclesAreOfSixty
        <5> QED BY ONLY <5>1, <5>2, <5>3
      <4>7. profile'.element =
              <<"wood", "fire", "earth", "metal", "water">>[(since % 10) \div 2 + 1]
        <5>1. profile'.element = STEM_ELEMENTS[Stem(year) + 1]
          BY ONLY <4>1, <4>4 DEF CalculateFiveElement
        <5>2. Stem(year) = since % 10
          BY CyclesAreOfSixty
        <5>3. STEM_ELEMENTS[Stem(year) + 1] =
                <<"wood", "fire", "earth", "metal", "water">>[Stem(year) \div 2 + 1]
          BY CyclesAreOfSixty
        <5> QED BY ONLY <5>1, <5>2, <5>3
      <4>8. /\ profile'.path \in 1 .. 9 \union Master
            /\ profile'.path % 9 = (d.year + d.month + d.day) % 9
        <5>1. profile'.path = CalculateLifePathNumber(d)
          BY ONLY <4>1
        <5> QED BY ONLY <4>2, <5>1, PathIsOfTheDate
      <4> HIDE DEF since
      <4>9. profile' # NullProfile
        BY ONLY <4>1 DEF NullProfile
      <4> QED BY <2>2, <3>1, <3>3, <4>3, <4>4, <4>5, <4>6, <4>7, <4>8, <4>9
              DEF ProfileIsOfItsDate, since
    <3> QED BY <3>2, <3>3
  <2> QED BY <2>1, <2>2 DEF MetaphysicalNext
<1>3. ProfileInv => ProfileIsOfItsDate
  OBVIOUS
<1> QED BY <1>1, <1>2, <1>3, PTL DEF MetaphysicalSpec

-----------------------------------------------------------------------------
\* The components of MCRecords, run one at a time, each do what they do alone:
\* what is proved above of each holds of the composition the run checks.
THEOREM RecordsRunTheirParts ==
  Spec => /\ ScreenSpec /\ GuidanceSpec /\ SeedsSpec /\ MetaphysicalSpec
          /\ RecordsSpec /\ RelationsSpec /\ LedgerSpec /\ GatewaySpec
          /\ AccountsSpec /\ ServiceTokensSpec
<1>1. Init => /\ ScreenInit /\ GuidanceInit /\ SeedsInit /\ MetaphysicalInit
              /\ RecordsInit /\ RelationsInit /\ LedgerInit /\ GatewayInit
              /\ AccountsInit /\ ServiceTokensInit
  BY DEF Init
<1>2. [Next]_vars => /\ [ScreenNext]_screenVars /\ [GuidanceNext]_guidanceVars
                     /\ [SeedsNext]_seedVars /\ [MetaphysicalNext]_profileVars
                     /\ [RecordsNext]_recordVars /\ [RelationsNext]_relationVars
                     /\ [LedgerNext]_ledgerVars /\ [GatewayNext]_gatewayVars
                     /\ [AccountsNext]_accountVars
                     /\ [ServiceTokensNext]_tokenVars
  BY DEF Next, Rests, vars
<1> QED BY <1>1, <1>2, PTL
        DEF Spec, ScreenSpec, GuidanceSpec, SeedsSpec, MetaphysicalSpec, RecordsSpec,
            RelationsSpec, LedgerSpec, GatewaySpec, AccountsSpec, ServiceTokensSpec

\* Both what is derived from a birth date and what is stored of it follow the date.
THEOREM ProfilesAlwaysFollow == Spec => []ProfilesFollowTheDate
<1>1. ProfileIsOfItsDate /\ DerivedFromTheDate => ProfilesFollowTheDate
  BY DEF ProfilesFollowTheDate
<1> QED BY <1>1, RecordsRunTheirParts, ProfilesAreOfTheirDates, FieldsFollowTheDate, PTL

\* The pages and the summary of the finance records agree with the records.
THEOREM LedgerIsAlwaysRight == Spec => []LedgerIsRight
<1>1. PageFitsItsTotal /\ SummaryAddsUp => LedgerIsRight
  BY DEF LedgerIsRight
<1> QED BY <1>1, RecordsRunTheirParts, PagesFitTheirTotal, SummariesAddUp, PTL

\* A request reaches its operation and is told what became of it, and is served
\* only to whom its token stands for, and as long as it does.
THEOREM RequestsAreAlwaysAnswered == Spec => []RequestsAreAnswered
<1>1. /\ EndpointsAreServed /\ AnswersTellTheOutcome
      /\ AccountsAreServed /\ TokensLastTheirTime
      => RequestsAreAnswered
  BY DEF RequestsAreAnswered
<1> QED BY <1>1, RecordsRunTheirParts, RequestsReachTheirEndpoints, AnswersAreRight,
           AccountsServeTheirUsers, TokensAreTimed, PTL

\* The variables of every component have their types, for all constants: the
\* invariants above bound words, events, attempts and rows as the types do.
THEOREM RecordsTypeCorrect == Spec => []RecordsAllTypeOK
<1>1. /\ ScreenInv => ScreenTypeOK
      /\ EventsInv => RecordsTypeOK
      /\ RelationsInv => RelationsTypeOK
      /\ HeaderOK => ServiceTokensTypeOK
  BY DEF ScreenInv, EventsInv, RelationsInv, HeaderOK
<1>2. LedgerInv => LedgerTypeOK
  BY DEF LedgerInv, ListingOK, LedgerTypeOK
<1>3. /\ ScreenTypeOK /\ GuidanceTypeOK /\ SeedsTypeOK /\ RecordsTypeOK
      /\ RelationsTypeOK /\ LedgerTypeOK /\ GatewayTypeOK /\ AccountsTypeOK
      /\ ServiceTokensTypeOK
      => RecordsAllTypeOK
  BY DEF RecordsAllTypeOK
<1> QED BY <1>1, <1>2, <1>3, RecordsRunTheirParts, ScreenInductive, GuidanceTypeCorrect,
           SeedsTypeCorrect, EventsInductive, RelationsInductive, LedgerInductive,
           GatewayTypeCorrect, AccountsTypeCorrect, TokensInductive, PTL

=============================================================================
