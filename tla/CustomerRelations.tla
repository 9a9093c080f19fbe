------------------------- MODULE CustomerRelations -------------------------
(***************************************************************************)
(* What belongs to one customer in CustomerManagement: contacts            *)
(* (src/services/contact.service.ts), birth charts (birth-chart.service),  *)
(* tags (tag.service), consents and notes (compliance.service) and finance *)
(* records (finance.service).  Each call looks for the rows it needs and   *)
(* then changes one, in two statements without a transaction.              *)
(***************************************************************************)
EXTENDS Naturals, FiniteSets

CONSTANTS
  Clients,       \* the calls that may overlap
  MaxContacts,   \* bound: the contacts added, whose ids are 1, 2, ...
  MaxDecisions   \* bound: the consents recorded, which are the ticks of the clock

ASSUME CustomerRelationsAssumption ==
  MaxContacts \in Nat /\ MaxDecisions \in Nat

ContactIds == 1 .. MaxContacts
Never == 0
Times == Never .. MaxDecisions

VARIABLES
  contacts,   \* the contacts, by id
  added,      \* the ids drawn so far
  charts,     \* the contacts that birth charts refer to
  defined,    \* has the tag been created?
  tagged,     \* is the tag assigned to the customer?
  consent,    \* the row of one type of consent
  time,       \* the clock, which each decision advances
  pending,    \* each client's call, after its look-up
  removed,    \* history: the contacts removed
  tagWrites,  \* history: assignments made less those taken away
  entangled   \* history: two decisions overlapped

relationVars == <<contacts, added, charts, defined, tagged, consent, time, pending,
                  removed, tagWrites, entangled>>

NoConsent == [consent |-> "none"]
Consents == [granted : BOOLEAN, grantedAt : Times, revokedAt : Times]

Waiting == [at |-> "waiting"]
Pendings ==
        [at : {"updateContact", "removeContact", "createChart"}, id : ContactIds]
  \union [at : {"assignTag", "removeTag"}]
  \union [at : {"recordConsent"}, granted : BOOLEAN, now : Times]

RelationsTypeOK ==
  /\ contacts \in SUBSET ContactIds /\ removed \in SUBSET ContactIds
  /\ added \in 0 .. MaxContacts
  /\ charts \in SUBSET ContactIds
  /\ defined \in BOOLEAN /\ tagged \in BOOLEAN
  /\ consent \in Consents \union {NoConsent}
  /\ time \in Times
  /\ pending \in [Clients -> Pendings \union {Waiting}]
  /\ tagWrites \in Nat
  /\ entangled \in BOOLEAN

RelationsInit ==
  /\ contacts = {} /\ added = 0 /\ charts = {} /\ defined = FALSE /\ tagged = FALSE
  /\ consent = NoConsent /\ time = Never
  /\ pending = [c \in Clients |-> Waiting]
  /\ removed = {} /\ tagWrites = 0 /\ entangled = FALSE

contactVars == <<contacts, added, charts, removed>>
tagVars == <<defined, tagged, tagWrites>>
consentVars == <<consent, time, entangled>>

\* The look-up finds what it needs, and the call goes on.
Finds(c, call) == pending[c] = Waiting /\ pending' = [pending EXCEPT ![c] = call]
\* The call is over, answered or refused.
Done(c) == pending' = [pending EXCEPT ![c] = Waiting]

-----------------------------------------------------------------------------
(***************************************************************************)
(* Contacts and the charts about them.                                     *)
(***************************************************************************)

\* The customer is looked for and never deleted: its check finds it.
AddContact(c) ==
  /\ pending[c] = Waiting /\ UNCHANGED pending
  /\ added < MaxContacts
  /\ added' = added + 1
  /\ contacts' = contacts \union {added'}
  /\ UNCHANGED <<charts, removed, tagVars, consentVars>>

FindContact(c, op, id) ==
  /\ id \in contacts
  /\ Finds(c, [at |-> op, id |-> id])
  /\ UNCHANGED <<contactVars, tagVars, consentVars>>

\* A contact that has gone meanwhile is a P2025, answered with 404.
UpdateContact(c) ==
  /\ pending[c].at = "updateContact"
  /\ Done(c)
  /\ UNCHANGED <<contactVars, tagVars, consentVars>>

RemoveContact(c) ==
  /\ pending[c].at = "removeContact"
  /\ Done(c)
  /\ contacts' = contacts \ {pending[c].id}
  /\ removed' = removed \union {pending[c].id}
  /\ UNCHANGED <<added, charts, tagVars, consentVars>>

\* The chart's contactId is no foreign key: the contact may be gone.
CreateChart(c) ==
  /\ pending[c].at = "createChart"
  /\ Done(c)
  /\ charts' = charts \union {pending[c].id}
  /\ UNCHANGED <<contacts, added, removed, tagVars, consentVars>>

-----------------------------------------------------------------------------
(***************************************************************************)
(* Tags.  The pair of customer and tag is unique in its table.             *)
(***************************************************************************)
\* The name of a tag is unique too.
CreateTag(c) ==
  /\ pending[c] = Waiting /\ UNCHANGED pending
  /\ ~defined /\ defined' = TRUE
  /\ UNCHANGED <<contactVars, tagged, tagWrites, consentVars>>

FindTag(c) ==
  /\ defined
  /\ Finds(c, [at |-> IF tagged THEN "removeTag" ELSE "assignTag"])
  /\ UNCHANGED <<contactVars, tagVars, consentVars>>

\* The constraint refuses the second of two overlapping calls: a 409.
AssignTag(c) ==
  /\ pending[c].at = "assignTag"
  /\ Done(c)
  /\ tagged' = TRUE
  /\ tagWrites' = tagWrites + (IF tagged THEN 0 ELSE 1)
  /\ UNCHANGED <<contactVars, defined, consentVars>>

\* mutant: nothing but the look-up keeps the tag from being taken away twice.
RemoveAgain(c) ==
  /\ pending[c].at = "removeTag"
  /\ Done(c)
  /\ tagged' = FALSE /\ tagWrites' = tagWrites - 1
  /\ UNCHANGED <<contactVars, defined, consentVars>>

\* A row that is gone meanwhile is a P2025, answered with 404.
RemoveTag(c) ==
  /\ pending[c].at = "removeTag"
  /\ Done(c)
  /\ tagged' = FALSE
  /\ tagWrites' = tagWrites - (IF tagged THEN 1 ELSE 0)
  /\ UNCHANGED <<contactVars, defined, consentVars>>

-----------------------------------------------------------------------------
(***************************************************************************)
(* Consents: the time is taken before the statement.                       *)
(***************************************************************************)
Decide(c, granted) ==
  /\ time < MaxDecisions
  /\ time' = time + 1
  /\ Finds(c, [at |-> "recordConsent", granted |-> granted, now |-> time'])
  /\ entangled' = (entangled \/ \E b \in Clients : pending[b].at = "recordConsent")
  /\ UNCHANGED <<contactVars, tagVars, consent>>

\* mutant: a new grant keeps the date of the last revocation.
ConsentKept(granted, now) ==
  [granted |-> granted,
   grantedAt |-> IF granted THEN now
                 ELSE IF consent = NoConsent THEN Never ELSE consent.grantedAt,
   revokedAt |-> IF ~granted THEN now
                 ELSE IF consent = NoConsent THEN Never ELSE consent.revokedAt]

\* create, or update with grantedAt undefined: it stays.
Consented(granted, now) ==
  [granted |-> granted,
   grantedAt |-> IF granted THEN now
                 ELSE IF consent = NoConsent THEN Never ELSE consent.grantedAt,
   revokedAt |-> IF granted THEN Never ELSE now]

\* Of two upserts that both find no row, one may fail on the unique pair.
RecordConsent(c) ==
  /\ pending[c].at = "recordConsent"
  /\ Done(c)
  /\ \/ consent' = Consented(pending[c].granted, pending[c].now)
     \/ entangled /\ UNCHANGED consent
  /\ UNCHANGED <<contactVars, tagVars, time, entangled>>

-----------------------------------------------------------------------------
RelationsNext ==
  \E c \in Clients :
    \/ AddContact(c) \/ CreateTag(c) \/ FindTag(c)
    \/ \E id \in ContactIds :
         \E op \in {"updateContact", "removeContact", "createChart"} :
           FindContact(c, op, id)
    \/ UpdateContact(c) \/ RemoveContact(c) \/ CreateChart(c)
    \/ AssignTag(c) \/ RemoveTag(c)
    \/ \E granted \in BOOLEAN : Decide(c, granted)
    \/ RecordConsent(c)

RelationsSpec == RelationsInit /\ [][RelationsNext]_relationVars

-----------------------------------------------------------------------------
(***************************************************************************)
(* Properties                                                              *)
(***************************************************************************)

\* A contact that was removed does not come back, whatever updates had found it
\* before; a tag is on the customer once, however many calls assign it at once;
\* and a chart about a contact that is not there is about one that was.
NothingComesBack ==
  /\ contacts \intersect removed = {}
  /\ tagWrites = IF tagged THEN 1 ELSE 0
  /\ charts \subseteq contacts \union removed

\* The row of a consent tells of its last decision: a grant has no date of a
\* revocation, and a revocation is later than the grant before it, unless two
\* decisions overlapped and were stored in the other order.
ConsentTellsItsHistory ==
  consent # NoConsent =>
    /\ consent.granted <=> consent.revokedAt = Never
    /\ consent.granted => consent.grantedAt # Never
    /\ ~consent.granted /\ ~entangled => consent.grantedAt < consent.revokedAt

\* What belongs to a customer stays as its calls have left it.
RelationsHold == NothingComesBack /\ ConsentTellsItsHistory
=============================================================================
