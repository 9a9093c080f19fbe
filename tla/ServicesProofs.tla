--------------------------- MODULE ServicesProofs ---------------------------
(*****************************************************************************)
(* Proofs about a reading, from the shuffle to what the page shows, for      *)
(* every deck, spread, number of retries and of requests; and about the      *)
(* composition of MCServices, a behaviour of which is one of the sessions,   *)
(* the limiter, the addresses, the reading and the deck, so that what        *)
(* CustomerProofs and this module show of these holds of it.                 *)
(*****************************************************************************)
EXTENDS MCServices, CustomerProofs
-----------------------------------------------------------------------------
(*****************************************************************************)
(* The shuffle deals distinct cards.  A swap permutes the places, so the     *)
(* deck stays injective; the place behind the deck stays undefined as long   *)
(* as no index reaches it, and by injectivity no other place is undefined    *)
(* then.                                                                     *)
(*****************************************************************************)

\* No two places hold the same, and the place behind the deck is the one
\* without a card until an index reaches it.
DeckInv ==
  /\ DeckTypeOK
  /\ \A p, q \in Places : p # q => deck[p] # deck[q]
  /\ ~edge => deck[DeckSize] = Undefined
  /\ hand # {} =>
       /\ left = 0
       /\ \E n \in [1 .. Drawn -> RandomInts(2)] : hand = Dealt(n)

\* An index of randomInt is a place of the deck, or of the one behind it.
LEMMA IndexIsPlace ==
  ASSUME left \in 0 .. DeckSize - 1, seeded \in BOOLEAN,
         NEW j \in RandomInts(left + 1)
  PROVE  j \in Places /\ left \in Places /\ left # DeckSize
         /\ (j = DeckSize => j > left)
BY CardDeckAssumption DEF CardDeckAssumption, RandomInts, Places

\* DeckInv is inductive: it holds of the new deck, and every swap keeps it.
LEMMA DeckInductive == DeckSpec => []DeckInv
<1>1. ASSUME DeckInit PROVE DeckInv
  <2>1. deck = [p \in Places |-> IF p = DeckSize THEN Undefined ELSE p + 1]
    BY <1>1 DEF DeckInit
  <2>2. DeckTypeOK
    <3>1. \A p \in Places :
            (IF p = DeckSize THEN Undefined ELSE p + 1)
              \in {Undefined} \union (1 .. DeckSize)
      BY CardDeckAssumption DEF CardDeckAssumption, Places
    <3>2. deck \in [Places -> {Undefined} \union (1 .. DeckSize)]
      BY <2>1, <3>1
    <3>3. left \in 0 .. DeckSize - 1
      BY <1>1, CardDeckAssumption DEF DeckInit, CardDeckAssumption
    <3>4. seeded \in BOOLEAN /\ edge \in BOOLEAN
      BY <1>1, Zenon DEF DeckInit
    <3>5. hand \subseteq Hand
      BY <1>1 DEF DeckInit
    <3> QED BY <3>2, <3>3, <3>4, <3>5 DEF DeckTypeOK
  <2>3. \A p, q \in Places : p # q => deck[p] # deck[q]
    BY <2>1, CardDeckAssumption DEF CardDeckAssumption, Places, Undefined
  <2>4. deck[DeckSize] = Undefined
    BY <2>1, CardDeckAssumption DEF CardDeckAssumption, Places
  <2>5. hand = {}
    BY <1>1 DEF DeckInit
  <2> QED BY <2>2, <2>3, <2>4, <2>5 DEF DeckInv
<1>2. DeckInv /\ [DeckNext]_deckVars => DeckInv'
  <2> SUFFICES ASSUME DeckInv, [DeckNext]_deckVars PROVE DeckInv'
    OBVIOUS
  <2>1. ASSUME NEW j \in Places, Swap(j) PROVE DeckInv'
    <3> left > 0 /\ j \in RandomInts(left + 1) /\ deck' = Swapped(left, j)
        /\ left' = left - 1 /\ edge' = (edge \/ j > left) /\ seeded' = seeded
        /\ hand' = hand
      BY <2>1 DEF Swap
    <3> left \in 0 .. DeckSize - 1 /\ seeded \in BOOLEAN /\ edge \in BOOLEAN
        /\ deck \in [Places -> {Undefined} \union (1 .. DeckSize)]
      BY DEF DeckInv, DeckTypeOK
    <3>1. left \in Places /\ left # DeckSize /\ (j = DeckSize => j > left)
      BY IndexIsPlace
    <3>2. DeckTypeOK'
      <4>1. deck' \in [Places -> {Undefined} \union (1 .. DeckSize)]
        BY <3>1 DEF Swapped
      <4>2. left' \in 0 .. DeckSize - 1
        BY CardDeckAssumption DEF CardDeckAssumption
      <4>3. hand' \subseteq Hand
        BY DEF DeckInv, DeckTypeOK
      <4>4. seeded' \in BOOLEAN /\ edge' \in BOOLEAN
        OBVIOUS
      <4> QED BY <4>1, <4>2, <4>3, <4>4 DEF DeckTypeOK, Hand
    <3>3. (\A p, q \in Places : p # q => deck[p] # deck[q])'
      BY <3>1 DEF DeckInv, Swapped
    <3>4. (~edge => deck[DeckSize] = Undefined)'
      <4> SUFFICES ASSUME ~edge' PROVE deck'[DeckSize] = Undefined
        OBVIOUS
      <4>1. ~edge /\ ~(j > left)
        OBVIOUS
      <4>2. deck[DeckSize] = Undefined /\ j # DeckSize
        BY <3>1, <4>1 DEF DeckInv
      <4>3. DeckSize \in Places
        BY CardDeckAssumption DEF CardDeckAssumption, Places
      <4> QED BY <3>1, <4>2, <4>3 DEF Swapped
    <3>5. hand' = {}
      BY DEF DeckInv
    <3> QED BY <3>2, <3>3, <3>4, <3>5 DEF DeckInv
  <2>2. ASSUME DrawCards PROVE DeckInv'
    <3>1. PICK n \in [1 .. Drawn -> RandomInts(2)] : hand' = Dealt(n)
      BY <2>2 DEF DrawCards
    <3>2. left = 0 /\ UNCHANGED <<deck, left, seeded, edge>>
      BY <2>2 DEF DrawCards
    <3>3. hand' \subseteq Hand
      <4> SUFFICES ASSUME NEW p \in 1 .. Drawn
                   PROVE  deck[p - 1] \in {Undefined} \union (1 .. DeckSize)
        BY <3>1 DEF Dealt, Hand, RandomOrientation
      <4>1. p - 1 \in Places
        BY CardDeckAssumption DEF CardDeckAssumption, Places
      <4> QED BY <4>1 DEF DeckInv, DeckTypeOK
    <3>4. hand' = Dealt(n)' /\ n \in [1 .. Drawn -> RandomInts(2)']
      BY <3>1, <3>2 DEF Dealt, RandomInts
    <3>5. DeckTypeOK' /\ (\A p, q \in Places : p # q => deck[p] # deck[q])'
          /\ (~edge => deck[DeckSize] = Undefined)'
      BY <3>2, <3>3 DEF DeckInv, DeckTypeOK
    <3> QED BY <3>2, <3>4, <3>5 DEF DeckInv
  <2>3. CASE UNCHANGED deckVars
    <3>1. UNCHANGED <<deck, left, seeded, edge, hand>>
      BY <2>3 DEF deckVars
    <3>2. DeckTypeOK' /\ (\A p, q \in Places : p # q => deck[p] # deck[q])'
          /\ (~edge => deck[DeckSize] = Undefined)'
      BY <3>1 DEF DeckInv, DeckTypeOK
    <3>3. ASSUME NEW n PROVE Dealt(n)' = Dealt(n)
      BY <3>1 DEF Dealt
    <3>4. ASSUME hand' # {}
          PROVE  left' = 0 /\ \E n \in [1 .. Drawn -> RandomInts(2)'] : hand' = Dealt(n)'
      <4>1. PICK n \in [1 .. Drawn -> RandomInts(2)] : hand = Dealt(n)
        BY <3>1, <3>4 DEF DeckInv
      <4>2. hand' = Dealt(n)' /\ left' = 0
        BY <3>1, <3>3, <3>4, <4>1 DEF DeckInv
      <4>3. RandomInts(2)' = RandomInts(2)
        BY <3>1 DEF RandomInts
      <4> QED BY <4>1, <4>2, <4>3
    <3> QED BY <3>2, <3>4 DEF DeckInv
  <2> QED BY <2>1, <2>2, <2>3 DEF DeckNext
<1> QED BY <1>1, <1>2, PTL DEF DeckSpec

\* The cards dealt are distinct, and all exist unless the hash of a seed was the
\* largest one (TarotEngine.selectUniqueCards and randomInt).
THEOREM DealIsDistinctCards == DeckSpec => []DrawnAreCards
<1>1. DeckInv => DrawnAreCards
  <2> SUFFICES ASSUME DeckInv PROVE DrawnAreCards
    OBVIOUS
  <2>1. ASSUME ~edge, NEW p \in 0 .. Drawn - 1 PROVE deck[p] \in 1 .. DeckSize
    <3>1. p \in Places /\ DeckSize \in Places /\ p # DeckSize
      BY CardDeckAssumption DEF CardDeckAssumption, Places
    <3>2. deck[p] # Undefined
      BY <3>1, <2>1 DEF DeckInv
    <3> QED BY <3>1, <3>2 DEF DeckInv, DeckTypeOK
  <2>2. CASE hand = {}
    BY <2>1, <2>2 DEF DeckInv, DrawnAreCards
  <2>3. CASE hand # {}
    <3>1. PICK n \in [1 .. Drawn -> RandomInts(2)] : hand = Dealt(n)
      BY <2>3 DEF DeckInv
    <3>2. ASSUME NEW p \in 1 .. Drawn PROVE \E c \in hand : c.position = p
      <4> DEFINE c == [card_id |-> deck[p - 1], position |-> p,
                       orientation |-> RandomOrientation(n[p])]
      <4>1. c \in hand
        BY <3>1 DEF Dealt
      <4>2. c.position = p
        OBVIOUS
      <4> QED BY <4>1, <4>2
    <3>3. ASSUME NEW c \in hand, NEW d \in hand, c.card_id = d.card_id
          PROVE  c = d
      <4>1. PICK p \in 1 .. Drawn :
              c = [card_id |-> deck[p - 1], position |-> p,
                   orientation |-> RandomOrientation(n[p])]
        BY <3>1 DEF Dealt
      <4>2. PICK q \in 1 .. Drawn :
              d = [card_id |-> deck[q - 1], position |-> q,
                   orientation |-> RandomOrientation(n[q])]
        BY <3>1 DEF Dealt
      <4>3. deck[p - 1] = deck[q - 1]
        BY <3>3, <4>1, <4>2
      <4>4. p - 1 \in Places /\ q - 1 \in Places
        BY CardDeckAssumption DEF CardDeckAssumption, Places
      <4>5. p - 1 = q - 1
        BY <4>3, <4>4 DEF DeckInv
      <4>6. p = q
        BY <4>5, CardDeckAssumption DEF CardDeckAssumption
      <4> QED BY <4>1, <4>2, <4>6
    <3> QED BY <2>1, <3>2, <3>3 DEF DeckInv, DrawnAreCards
  <2> QED BY <2>2, <2>3
<1> QED BY <1>1, DeckInductive, PTL

-----------------------------------------------------------------------------
(***************************************************************************)
(* The reading flow.                                                       *)
(***************************************************************************)

\* What the handler of a request has done by the place where it is: a session
\* is created before its user is updated, a reading last of all.
RowOK(e) ==
  /\ e.at \in {"login", "ok"} => e.stored
  /\ e.ask.kind = "reading" =>
       (e.stored <=> e.at \in {"ok", "lost"}) /\ e.at # "login"
  /\ e.ask.kind = "session" /\ e.stored =>
       e.at \in {"login", "ok", "failed", "refused", "lost"}

\* Only the last request may be under way, and only a failure is told.
EndOK(f) ==
  /\ fetches[f].end = "told" => fetches[f].at \in {"failed", "refused", "lost"}
  /\ fetches[f].end = "open" => f = Current /\ client \in {"headers", "body"}

\* The page waits for its call, whose session stays the one of the page, and
\* only sleeps when an attempt is left.
CallOK ==
  /\ client # "idle" =>
       \/ asked.kind = "session" /\ page = "input"
       \/ /\ asked = [kind |-> "reading", session |-> session]
          /\ page = "drawing" /\ session # 0
  /\ client \in {"headers", "body"} =>
       Current # 0 /\ fetches[Current].ask = asked
  /\ client = "body" => fetches[Current].at \in {"ok", "refused", "failed", "lost"}
  /\ client = "sleep" => attempt < Retry

\* What the page holds is in the database; it goes on to another session only
\* when it shows no reading.
HeldOK ==
  /\ session # 0 =>
       fetches[session].ask.kind = "session" /\ fetches[session].stored
  /\ reading # 0 =>
       /\ page = "complete" /\ session # 0
       /\ fetches[reading].ask = [kind |-> "reading", session |-> session]
       /\ fetches[reading].stored

FlowInv ==
  /\ ReadingTypeOK
  /\ \A f \in Fetched : RowOK(fetches[f]) /\ EndOK(f)
  /\ CallOK
  /\ HeldOK

LEMMA FetchFields ==
  ASSUME NEW e \in Fetches
  PROVE  /\ e.ask \in Asks /\ e.ask.kind \in {"session", "reading"}
         /\ e.stored \in BOOLEAN
         /\ e.at \in {"sent", "drawing", "storing", "login",
                      "ok", "refused", "failed", "lost"}
         /\ e.end \in {"open", "cut", "told", "adopted"}
BY DEF Fetches, Asks

\* A handler goes on with its request: it names its row once it has created
\* it, and takes nothing back.
LEMMA HandlerKept ==
  ASSUME FlowInv, NEW f \in Fetched, NEW new \in Fetches,
         fetches' = [fetches EXCEPT ![f] = new],
         UNCHANGED <<pageVars, clientVars>>,
         new.ask = fetches[f].ask, new.end = fetches[f].end,
         fetches[f].at \in {"sent", "drawing", "storing", "login"},
         fetches[f].stored => new.stored, RowOK(new)
  PROVE  FlowInv'
<1>1. /\ ReadingTypeOK /\ fetches \in Seq(Fetches) /\ Current \in Nat
      /\ \A g \in Fetched : RowOK(fetches[g]) /\ EndOK(g)
      /\ CallOK /\ HeldOK
  BY DEF FlowInv, ReadingTypeOK, Current
<1>2. /\ fetches' \in Seq(Fetches) /\ Len(fetches') = Len(fetches)
      /\ fetches'[f] = new
      /\ \A g \in Fetched \ {f} : fetches'[g] = fetches[g]
  BY <1>1 DEF Fetched
<1>3. /\ UNCHANGED <<page, session, reading, modal, referred, client, attempt,
                     asked, closure>>
      /\ Fetched' = Fetched /\ Current' = Current
  BY <1>2 DEF pageVars, clientVars, Fetched, Current
<1>4. \A g \in Fetched : /\ fetches'[g].ask = fetches[g].ask
                         /\ fetches'[g].end = fetches[g].end
                         /\ fetches[g].stored => fetches'[g].stored
                         /\ fetches[g].at \in {"ok", "failed", "refused", "lost"} =>
                              fetches'[g] = fetches[g]
  BY <1>2
<1>5. ReadingTypeOK'
  BY <1>1, <1>2, <1>3 DEF ReadingTypeOK
<1>6. \A g \in Fetched : RowOK(fetches'[g])
  BY <1>1, <1>2
<1>7. \A g \in Fetched : EndOK(g)'
  BY <1>1, <1>3, <1>4 DEF EndOK
<1>8. CallOK'
  <2>1. Current # 0 => Current \in Fetched
    BY <1>1 DEF Fetched, Current
  <2>2. Current # 0 => /\ fetches'[Current].ask = fetches[Current].ask
                       /\ fetches[Current].at \in {"ok", "failed", "refused", "lost"} =>
                            fetches'[Current].at = fetches[Current].at
    BY <1>4, <2>1
  <2>3. CallOK
    BY <1>1
  <2> QED BY <1>3, <2>2, <2>3 DEF CallOK
<1>9. HeldOK'
  BY <1>1, <1>3, <1>4 DEF HeldOK, ReadingTypeOK
<1> QED BY <1>3, <1>5, <1>6, <1>7, <1>8, <1>9 DEF FlowInv

LEMMA HandlersKeep ==
  ASSUME FlowInv, NEW f \in Fetched, Handler(f)
  PROVE  FlowInv'
<1>1. /\ fetches \in Seq(Fetches) /\ fetches[f] \in Fetches
      /\ RowOK(fetches[f])
  BY DEF FlowInv, ReadingTypeOK, Fetched
<1>2. /\ fetches[f].ask \in Asks /\ fetches[f].ask.kind \in {"session", "reading"}
      /\ fetches[f].stored \in BOOLEAN
      /\ fetches[f].end \in {"open", "cut", "told", "adopted"}
  BY <1>1, FetchFields
<1>3. ASSUME NEW here \in {"sent", "drawing", "storing", "login"},
             NEW there \in {"drawing", "storing", "ok", "refused", "failed"},
             Handle(f, here, there),
             RowOK([fetches[f] EXCEPT !.at = there])
      PROVE  FlowInv'
  <2> DEFINE new == [fetches[f] EXCEPT !.at = there]
  <2>1. /\ new \in Fetches /\ new.ask = fetches[f].ask
        /\ new.end = fetches[f].end /\ new.stored = fetches[f].stored
    BY <1>1 DEF Fetches
  <2>2. /\ fetches' = [fetches EXCEPT ![f] = new] /\ fetches[f].at = here
        /\ UNCHANGED <<pageVars, clientVars>>
    BY <1>3 DEF Handle
  <2>3. RowOK(new)
    BY <1>3
  <2> HIDE DEF new
  <2> QED BY <2>1, <2>2, <2>3, HandlerKept
<1>4. \A there \in {"drawing", "storing", "ok", "refused", "failed"} :
        LET new == [fetches[f] EXCEPT !.at = there]
        IN new.at = there /\ new.ask = fetches[f].ask
           /\ new.stored = fetches[f].stored
  BY <1>1 DEF Fetches
<1>5. CASE Admit(f)
  <2>1. CASE fetches[f].ask.kind = "reading" /\ Handle(f, "sent", "drawing")
    BY <1>1, <1>2, <1>3, <1>4, <2>1 DEF Handle, RowOK
  <2>2. CASE fetches[f].ask.kind = "session" /\ Handle(f, "sent", "storing")
    BY <1>1, <1>2, <1>3, <1>4, <2>2 DEF Handle, RowOK
  <2> QED BY <1>5, <2>1, <2>2 DEF Admit
<1>6. CASE Refuse(f)
  BY <1>1, <1>2, <1>3, <1>4, <1>6 DEF Refuse, Handle, RowOK
<1>7. CASE ExecuteReading(f)
  BY <1>1, <1>2, <1>3, <1>4, <1>7 DEF ExecuteReading, Handle, RowOK
<1>8. CASE CreateRow(f)
  <2>a. PICK there \in {IF fetches[f].ask.kind = "session" THEN "login" ELSE "ok",
                        "lost"} :
          fetches' = [fetches EXCEPT ![f].stored = TRUE, ![f].at = there]
    BY <1>8 DEF CreateRow
  <2> DEFINE new == [fetches[f] EXCEPT !.stored = TRUE, !.at = there]
  <2>1. /\ new \in Fetches /\ new.ask = fetches[f].ask
        /\ new.end = fetches[f].end /\ new.stored /\ new.at = there
    BY <1>1 DEF Fetches
  <2>2. /\ fetches' = [fetches EXCEPT ![f] = new] /\ fetches[f].at = "storing"
        /\ UNCHANGED <<pageVars, clientVars>>
    BY <1>1, <1>8, <2>a DEF CreateRow, Fetches
  <2> HIDE DEF new
  <2>3. RowOK(new)
    BY <1>2, <2>1 DEF RowOK
  <2> QED BY <2>1, <2>2, <2>3, HandlerKept
<1>9. CASE UpdateUser(f)
  BY <1>1, <1>2, <1>3, <1>4, <1>9 DEF UpdateUser, Handle, RowOK
<1>10. CASE HandlerFails(f)
  <2>1. ASSUME NEW here \in {"sent", "drawing", "storing", "login"},
               NEW there \in {"refused", "failed"}, Handle(f, here, there)
        PROVE  FlowInv'
    <3>1. fetches[f].at = here
      BY <2>1 DEF Handle
    <3>2. RowOK([fetches[f] EXCEPT !.at = there])
      BY <1>1, <1>2, <1>4, <2>1, <3>1 DEF RowOK
    <3> QED BY <1>3, <2>1, <3>2
  <2> QED BY <1>10, <2>1 DEF HandlerFails
<1> QED BY <1>5, <1>6, <1>7, <1>8, <1>9, <1>10 DEF Handler

\* A step of the client that changes no row of the database.
SameRows ==
  /\ fetches' \in Seq(Fetches) /\ Len(fetches') = Len(fetches)
  /\ \A f \in Fetched : /\ fetches'[f].ask = fetches[f].ask
                        /\ fetches'[f].stored = fetches[f].stored
                        /\ fetches'[f].at = fetches[f].at

\* Ending a request changes no row.
LEMMA EndsFetch ==
  ASSUME FlowInv, client \in {"headers", "body"},
         NEW how \in {"cut", "told", "adopted"},
         fetches' = [fetches EXCEPT ![Current].end = how],
         how = "told" => fetches[Current].at \in {"failed", "refused", "lost"}
  PROVE  /\ SameRows /\ Current \in Fetched
         /\ \A f \in Fetched :
              /\ fetches'[f].end = "told" =>
                   fetches[f].at \in {"failed", "refused", "lost"}
              /\ fetches'[f].end # "open"
<1>1. /\ fetches \in Seq(Fetches) /\ Current \in Nat /\ Current # 0
      /\ \A g \in Fetched : EndOK(g)
  BY DEF FlowInv, ReadingTypeOK, Current, CallOK
<1>2. Current \in Fetched /\ fetches[Current] \in Fetches
  BY <1>1 DEF Fetched, Current
<1> DEFINE new == [fetches[Current] EXCEPT !.end = how]
<1>3. /\ new \in Fetches /\ new.ask = fetches[Current].ask /\ new.end = how
      /\ new.stored = fetches[Current].stored /\ new.at = fetches[Current].at
  BY <1>2 DEF Fetches
<1>4. fetches' = [fetches EXCEPT ![Current] = new]
  OBVIOUS
<1> HIDE DEF new
<1>5. /\ fetches' \in Seq(Fetches) /\ Len(fetches') = Len(fetches)
      /\ \A f \in Fetched :
           fetches'[f] = IF f = Current THEN new ELSE fetches[f]
  BY <1>1, <1>2, <1>3, <1>4 DEF Fetched
<1>6. SameRows
  BY <1>3, <1>5 DEF SameRows
<1>7. \A f \in Fetched :
        /\ fetches'[f].end = "told" =>
             fetches[f].at \in {"failed", "refused", "lost"}
        /\ fetches'[f].end # "open"
  BY <1>1, <1>3, <1>5 DEF EndOK
<1> QED BY <1>2, <1>6, <1>7

LEMMA RowsKept ==
  ASSUME FlowInv, SameRows
  PROVE  /\ Fetched' = Fetched /\ Current' = Current
         /\ \A f \in Fetched : RowOK(fetches'[f])
BY DEF FlowInv, SameRows, RowOK, Fetched, Current

\* The call is tried again, or ends with the session given up or the spread to
\* be chosen again.
LEMMA ThrowKept ==
  ASSUME FlowInv, client # "idle", SameRows, RetryOrThrow \/ CallThrows
  PROVE  /\ ReadingTypeOK' /\ CallOK' /\ HeldOK'
         /\ client' \in {"idle", "sleep"}
<1>1. /\ ReadingTypeOK /\ CallOK /\ HeldOK
  BY DEF FlowInv
<1>2. /\ fetches' \in Seq(Fetches) /\ Fetched' = Fetched
      /\ \A f \in Fetched : /\ fetches'[f].ask = fetches[f].ask
                            /\ fetches'[f].stored = fetches[f].stored
  BY RowsKept DEF SameRows
<1>3. reading = 0
  BY <1>1 DEF CallOK, HeldOK
<1>4. CASE attempt < Retry /\ client' = "sleep"
           /\ UNCHANGED <<pageVars, attempt, asked, closure>>
  <2>1. UNCHANGED <<page, session, reading, modal, referred, attempt, asked,
                    closure>>
    BY <1>4 DEF pageVars
  <2>2. ReadingTypeOK'
    BY <1>1, <1>2, <1>4, <2>1 DEF ReadingTypeOK
  <2>3. CallOK'
    BY <1>1, <1>4, <2>1 DEF CallOK
  <2>4. HeldOK'
    BY <1>1, <1>2, <1>3, <2>1 DEF HeldOK, ReadingTypeOK
  <2> QED BY <1>4, <2>2, <2>3, <2>4
<1>5. CASE CallThrows
  <2>1. /\ client' = "idle" /\ attempt' = 1 /\ asked' = NoAsk /\ closure' = 0
        /\ UNCHANGED <<reading, modal, referred>>
        /\ session' \in {0, session} /\ page' \in {page, "selecting"}
    BY <1>5 DEF CallThrows, CallOver
  <2>2. ReadingTypeOK'
    BY <1>1, <1>2, <2>1, ReadingFlowAssumption
    DEF ReadingTypeOK, ReadingFlowAssumption
  <2>3. CallOK'
    BY <2>1 DEF CallOK
  <2>4. HeldOK'
    BY <1>1, <1>2, <1>3, <2>1 DEF HeldOK, ReadingTypeOK
  <2> QED BY <2>1, <2>2, <2>3, <2>4
<1> QED BY <1>4, <1>5 DEF RetryOrThrow

\* The client: fetch, offline, break, abort, headers, body, back-off.
LEMMA ClientKeeps ==
  ASSUME FlowInv,
         \/ Fetch \/ Offline \/ Break \/ Abort \/ Headers \/ Told
         \/ Session \/ Reading \/ Wake
  PROVE  FlowInv'
<1>1. /\ ReadingTypeOK /\ CallOK /\ HeldOK
      /\ fetches \in Seq(Fetches) /\ Current \in Nat
      /\ \A f \in Fetched : RowOK(fetches[f]) /\ EndOK(f)
  BY DEF FlowInv, ReadingTypeOK, Current
<1>2. ASSUME NEW how \in {"cut", "told"}, client \in {"headers", "body"},
             Ends(how), RetryOrThrow \/ CallThrows,
             how = "told" => fetches[Current].at \in {"failed", "refused", "lost"}
      PROVE  FlowInv'
  <2>1. /\ SameRows
        /\ \A f \in Fetched :
             /\ fetches'[f].end = "told" =>
                  fetches[f].at \in {"failed", "refused", "lost"}
             /\ fetches'[f].end # "open"
    BY <1>2, EndsFetch DEF Ends
  <2>2. ReadingTypeOK' /\ CallOK' /\ HeldOK'
    BY <1>2, <2>1, ThrowKept
  <2>3. Fetched' = Fetched /\ \A f \in Fetched : RowOK(fetches'[f])
    BY <2>1, RowsKept
  <2>4. \A f \in Fetched : EndOK(f)'
    BY <2>1 DEF EndOK, SameRows
  <2> QED BY <2>2, <2>3, <2>4 DEF FlowInv
<1>3. CASE Fetch
  <2> DEFINE new == [ask |-> asked, stored |-> FALSE, at |-> "sent",
                     end |-> "open"]
  <2>1. /\ client = "fetch" /\ client' = "headers"
        /\ fetches' = Append(fetches, new)
        /\ UNCHANGED <<page, session, reading, modal, referred, attempt, asked,
                       closure>>
    BY <1>3 DEF Fetch, pageVars
  <2>2. asked \in Asks
    BY <1>1, <2>1 DEF ReadingTypeOK, CallOK, NoAsk
  <2>3. /\ new \in Fetches /\ new.ask = asked /\ RowOK(new)
        /\ new.end = "open"
    BY <2>2 DEF Fetches, RowOK
  <2> HIDE DEF new
  <2>4. /\ fetches' \in Seq(Fetches) /\ Current' = Current + 1
        /\ fetches'[Current + 1] = new
        /\ Fetched' = Fetched \union {Current + 1}
        /\ \A f \in Fetched : fetches'[f] = fetches[f] /\ f # Current + 1
    BY <1>1, <2>1, <2>3 DEF Fetched, Current
  <2>5. ReadingTypeOK'
    BY <1>1, <2>1, <2>4 DEF ReadingTypeOK
  <2>6. \A f \in Fetched' : RowOK(fetches'[f])
    BY <1>1, <2>3, <2>4
  <2>7. \A f \in Fetched' : EndOK(f)'
    BY <1>1, <2>1, <2>3, <2>4 DEF EndOK
  <2>8. CallOK'
    BY <1>1, <2>1, <2>3, <2>4 DEF CallOK
  <2>9. HeldOK'
    BY <1>1, <2>1, <2>4 DEF HeldOK, ReadingTypeOK
  <2> QED BY <2>5, <2>6, <2>7, <2>8, <2>9 DEF FlowInv
<1>4. CASE Offline
  <2>1. SameRows /\ client = "fetch" /\ UNCHANGED fetches
    BY <1>1, <1>4 DEF Offline, SameRows
  <2>2. ReadingTypeOK' /\ CallOK' /\ HeldOK'
    BY <1>4, <2>1, ThrowKept DEF Offline
  <2>3. Fetched' = Fetched /\ \A f \in Fetched : RowOK(fetches'[f])
    BY <2>1, RowsKept
  <2>4. \A f \in Fetched : EndOK(f)'
    BY <1>1, <2>1 DEF EndOK
  <2> QED BY <2>2, <2>3, <2>4 DEF FlowInv
<1>5. CASE Break
  BY <1>2, <1>5 DEF Break
<1>6. CASE Abort
  BY <1>2, <1>6 DEF Abort
<1>7. CASE Headers
  <2>1. /\ client = "headers" /\ client' = "body"
        /\ fetches[Current].at \in {"ok", "refused", "failed", "lost"}
        /\ UNCHANGED <<page, session, reading, modal, referred, attempt, asked,
                       closure, fetches, Fetched, Current>>
    BY <1>7 DEF Headers, pageVars, Fetched, Current
  <2>2. ReadingTypeOK'
    BY <1>1, <2>1 DEF ReadingTypeOK
  <2>3. \A f \in Fetched : RowOK(fetches'[f]) /\ EndOK(f)'
    BY <1>1, <2>1 DEF EndOK
  <2>4. CallOK' /\ HeldOK'
    BY <1>1, <2>1 DEF CallOK, HeldOK
  <2> QED BY <2>1, <2>2, <2>3, <2>4 DEF FlowInv
<1>12. CASE Told
  BY <1>2, <1>12 DEF Told
<1>8. ASSUME client = "body", fetches[Current].at = "ok", Ends("adopted"), CallOver
      PROVE  /\ Fetched' = Fetched /\ fetches' \in Seq(Fetches)
             /\ Current \in Fetched /\ fetches[Current].at = "ok"
             /\ fetches[Current].ask = asked /\ fetches[Current].stored
             /\ \A f \in Fetched : /\ RowOK(fetches'[f]) /\ EndOK(f)'
                                   /\ fetches'[f].ask = fetches[f].ask
                                   /\ fetches'[f].stored = fetches[f].stored
             /\ CallOK' /\ client' = "idle" /\ attempt' \in 1 .. Retry
             /\ asked' = NoAsk /\ closure' = 0
  <2>1. /\ SameRows /\ Current \in Fetched
        /\ \A f \in Fetched :
             /\ fetches'[f].end = "told" =>
                  fetches[f].at \in {"failed", "refused", "lost"}
             /\ fetches'[f].end # "open"
    BY <1>8, EndsFetch DEF Ends
  <2>2. Fetched' = Fetched /\ \A f \in Fetched : RowOK(fetches'[f])
    BY <2>1, RowsKept
  <2>3. \A f \in Fetched : EndOK(f)'
    BY <2>1 DEF EndOK, SameRows
  <2>4. /\ fetches[Current].at = "ok" /\ fetches[Current].ask = asked
        /\ fetches[Current].stored
    BY <1>1, <1>8, <2>1 DEF CallOK, RowOK
  <2>5. /\ client' = "idle" /\ attempt' \in 1 .. Retry /\ asked' = NoAsk
        /\ closure' = 0
    BY <1>8, ReadingFlowAssumption DEF CallOver, ReadingFlowAssumption
  <2>6. CallOK'
    BY <2>5 DEF CallOK
  <2> QED BY <2>1, <2>2, <2>3, <2>4, <2>5, <2>6 DEF SameRows
<1>9. CASE Session
  <2>1. /\ client = "body" /\ fetches[Current].at = "ok"
        /\ Ends("adopted") /\ CallOver
        /\ asked.kind = "session" /\ session' = Current
        /\ page' = "selecting" /\ UNCHANGED reading
        /\ modal' \in BOOLEAN /\ referred' \subseteq referred \union {Current}
    BY <1>1, <1>9 DEF Session, ReadingTypeOK, HasResources
  <2>2. reading = 0 /\ session' # 0
    BY <1>1, <1>8, <2>1 DEF CallOK, HeldOK
  <2>3. ReadingTypeOK'
    BY <1>1, <1>8, <2>1 DEF ReadingTypeOK
  <2>4. HeldOK'
    BY <1>8, <2>1, <2>2 DEF HeldOK
  <2> QED BY <1>8, <2>1, <2>3, <2>4 DEF FlowInv
<1>10. CASE Reading
  <2>1. /\ client = "body" /\ fetches[Current].at = "ok"
        /\ Ends("adopted") /\ CallOver
        /\ asked.kind = "reading" /\ reading' = Current
        /\ page' = "complete" /\ UNCHANGED <<session, modal, referred>>
    BY <1>10 DEF Reading
  <2>2. asked = [kind |-> "reading", session |-> session] /\ session # 0
    BY <1>1, <2>1 DEF CallOK
  <2>3. ReadingTypeOK'
    BY <1>1, <1>8, <2>1 DEF ReadingTypeOK
  <2>4. HeldOK'
    BY <1>1, <1>8, <2>1, <2>2 DEF HeldOK, ReadingTypeOK
  <2> QED BY <1>8, <2>1, <2>3, <2>4 DEF FlowInv
<1>11. CASE Wake
  <2>1. /\ client = "sleep" /\ client' = "fetch" /\ attempt' = attempt + 1
        /\ UNCHANGED <<page, session, reading, modal, referred, asked,
                       closure, fetches, Fetched, Current>>
    BY <1>11 DEF Wake, pageVars, Fetched, Current
  <2>2. ReadingTypeOK'
    <3>1. attempt' \in 1 .. Retry
      BY <1>1, <2>1, ReadingFlowAssumption
      DEF ReadingTypeOK, CallOK, ReadingFlowAssumption
    <3> QED BY <1>1, <2>1, <3>1 DEF ReadingTypeOK
  <2>3. \A f \in Fetched : RowOK(fetches'[f]) /\ EndOK(f)'
    BY <1>1, <2>1 DEF EndOK
  <2>4. CallOK' /\ HeldOK'
    BY <1>1, <2>1 DEF CallOK, HeldOK
  <2> QED BY <2>1, <2>2, <2>3, <2>4 DEF FlowInv
<1> QED BY <1>3, <1>4, <1>5, <1>6, <1>7, <1>9, <1>10, <1>11, <1>12

\* The page: its buttons start a call, or touch nothing of one.
LEMMA PageKeeps ==
  ASSUME FlowInv,
         \/ \E crisis \in BOOLEAN : SubmitInput(crisis)
         \/ SelectSpread \/ NewReading \/ CloseModal \/ Reload
  PROVE  FlowInv'
<1>1. /\ ReadingTypeOK /\ CallOK /\ HeldOK
      /\ fetches \in Seq(Fetches) /\ Current \in Nat
      /\ \A f \in Fetched : RowOK(fetches[f]) /\ EndOK(f)
  BY DEF FlowInv, ReadingTypeOK, Current
<1>2. ASSUME UNCHANGED fetches,
             {client, client'} \cap {"headers", "body"} = {}
      PROVE  /\ Fetched' = Fetched /\ Current' = Current
             /\ \A f \in Fetched : RowOK(fetches'[f]) /\ EndOK(f)'
  BY <1>1, <1>2 DEF Fetched, Current, EndOK
<1>3. ASSUME NEW crisis \in BOOLEAN, SubmitInput(crisis) PROVE FlowInv'
  <2> DEFINE ask == [kind |-> "session", crisis |-> crisis]
  <2>1. /\ page = "input" /\ client = "idle" /\ client' = "fetch"
        /\ attempt' = 1 /\ asked' = ask /\ closure' = session
        /\ UNCHANGED <<page, session, reading, modal, referred, fetches>>
    BY <1>3 DEF SubmitInput, Call, pageVars
  <2>2. ask \in Asks /\ ask.kind = "session"
    BY DEF Asks
  <2> HIDE DEF ask
  <2>3. Fetched' = Fetched /\ \A f \in Fetched : RowOK(fetches'[f]) /\ EndOK(f)'
    BY <1>2, <2>1
  <2>4. ReadingTypeOK'
    BY <1>1, <2>1, <2>2, <2>3, ReadingFlowAssumption
    DEF ReadingTypeOK, ReadingFlowAssumption
  <2>5. CallOK' /\ HeldOK'
    BY <1>1, <2>1, <2>2 DEF CallOK, HeldOK
  <2> QED BY <2>3, <2>4, <2>5 DEF FlowInv
<1>4. CASE SelectSpread
  <2> DEFINE ask == [kind |-> "reading", session |-> session]
  <2>1. /\ page = "selecting" /\ page' = "drawing" /\ session # 0
        /\ client = "idle" /\ client' = "fetch"
        /\ attempt' = 1 /\ asked' = ask
        /\ UNCHANGED <<session, reading, modal, closure, referred, fetches>>
    BY <1>4 DEF SelectSpread, Call
  <2>2. ask \in Asks
    BY <1>1 DEF Asks, ReadingTypeOK, Fetched
  <2>3. Fetched' = Fetched /\ \A f \in Fetched : RowOK(fetches'[f]) /\ EndOK(f)'
    BY <1>2, <2>1
  <2>4. ReadingTypeOK'
    BY <1>1, <2>1, <2>2, <2>3, ReadingFlowAssumption
    DEF ReadingTypeOK, ReadingFlowAssumption
  <2>5. CallOK' /\ HeldOK'
    BY <1>1, <2>1 DEF CallOK, HeldOK
  <2> QED BY <2>3, <2>4, <2>5 DEF FlowInv
<1>5. CASE NewReading
  <2>1. /\ page = "complete" /\ page' = "input" /\ reading' = 0
        /\ UNCHANGED <<session, modal, referred, client, attempt, asked,
                       closure, fetches>>
    BY <1>5 DEF NewReading, clientVars
  <2>2. client = "idle"
    BY <1>1, <2>1 DEF CallOK
  <2>3. Fetched' = Fetched /\ \A f \in Fetched : RowOK(fetches'[f]) /\ EndOK(f)'
    BY <1>2, <2>1, <2>2
  <2>4. ReadingTypeOK' /\ CallOK' /\ HeldOK'
    BY <1>1, <2>1, <2>2, <2>3 DEF ReadingTypeOK, CallOK, HeldOK
  <2> QED BY <2>3, <2>4 DEF FlowInv
<1>6. CASE CloseModal
  <2>1. /\ modal' = FALSE
        /\ UNCHANGED <<page, session, reading, referred, client, attempt, asked,
                       closure, fetches, Fetched, Current>>
    BY <1>6 DEF CloseModal, clientVars, Fetched, Current
  <2>2. ReadingTypeOK'
    BY <1>1, <2>1 DEF ReadingTypeOK
  <2>3. \A f \in Fetched : RowOK(fetches'[f]) /\ EndOK(f)'
    BY <1>1, <2>1 DEF EndOK
  <2>4. CallOK' /\ HeldOK'
    BY <1>1, <2>1 DEF CallOK, HeldOK
  <2> QED BY <2>1, <2>2, <2>3, <2>4 DEF FlowInv
<1>7. CASE Reload
  <2>1. /\ page' = "input" /\ reading' = 0 /\ modal' = FALSE
        /\ client' = "idle" /\ attempt' = 1 /\ asked' = NoAsk /\ closure' = 0
        /\ UNCHANGED <<session, referred>>
    BY <1>7 DEF Reload, CallOver
  <2>2. /\ Fetched' = Fetched /\ fetches' \in Seq(Fetches)
        /\ \A f \in Fetched : /\ RowOK(fetches'[f]) /\ EndOK(f)'
                              /\ fetches'[f].ask = fetches[f].ask
                              /\ fetches'[f].stored = fetches[f].stored
    <3>1. CASE client \in {"headers", "body"}
      <4>1. fetches' = [fetches EXCEPT ![Current].end = "cut"]
        BY <1>7, <3>1 DEF Reload
      <4>2. /\ SameRows
            /\ \A f \in Fetched :
                 /\ fetches'[f].end = "told" =>
                      fetches[f].at \in {"failed", "refused", "lost"}
                 /\ fetches'[f].end # "open"
        BY <3>1, <4>1, EndsFetch
      <4>3. Fetched' = Fetched /\ \A f \in Fetched : RowOK(fetches'[f])
        BY <4>2, RowsKept
      <4>4. \A f \in Fetched : EndOK(f)'
        BY <4>2 DEF EndOK, SameRows
      <4> QED BY <4>2, <4>3, <4>4 DEF SameRows
    <3>2. CASE client \notin {"headers", "body"}
      BY <1>1, <1>2, <1>7, <2>1, <3>2 DEF Reload
    <3> QED BY <3>1, <3>2
  <2>3. ReadingTypeOK'
    <3>1. Fetched' = Fetched /\ fetches' \in Seq(Fetches) /\ 1 \in 1 .. Retry
      BY <2>2, ReadingFlowAssumption DEF ReadingFlowAssumption
    <3> QED BY ONLY <1>1, <2>1, <3>1 DEF ReadingTypeOK
  <2>4. CallOK' /\ HeldOK'
    BY <1>1, <2>1, <2>2 DEF CallOK, HeldOK, ReadingTypeOK
  <2> QED BY <2>2, <2>3, <2>4 DEF FlowInv
<1> QED BY <1>3, <1>4, <1>5, <1>6, <1>7

LEMMA FlowInductive == ReadingSpec => []FlowInv
<1>1. ReadingInit => FlowInv
  <2> SUFFICES ASSUME ReadingInit PROVE FlowInv
    OBVIOUS
  <2>1. Fetched = {} /\ fetches \in Seq(Fetches)
    BY DEF ReadingInit, Fetched
  <2>2. 1 \in 1 .. Retry
    BY ReadingFlowAssumption DEF ReadingFlowAssumption
  <2>3. ReadingTypeOK
    BY <2>1, <2>2 DEF ReadingInit, ReadingTypeOK
  <2>4. CallOK /\ HeldOK
    BY DEF ReadingInit, CallOK, HeldOK
  <2> QED BY <2>1, <2>3, <2>4 DEF FlowInv
<1>2. FlowInv /\ [ReadingNext]_readingVars => FlowInv'
  <2> SUFFICES ASSUME FlowInv, [ReadingNext]_readingVars PROVE FlowInv'
    OBVIOUS
  <2>1. CASE UNCHANGED readingVars
    <3>1. UNCHANGED <<page, session, reading, modal, referred, client, attempt,
                      asked, closure, fetches, Fetched, Current>>
      BY <2>1 DEF readingVars, pageVars, clientVars, Fetched, Current
    <3>2. ReadingTypeOK' /\ CallOK' /\ HeldOK'
      BY <3>1 DEF FlowInv, ReadingTypeOK, CallOK, HeldOK
    <3>3. \A f \in Fetched : RowOK(fetches'[f]) /\ EndOK(f)'
      BY <3>1 DEF FlowInv, EndOK
    <3> QED BY <3>1, <3>2, <3>3 DEF FlowInv
  <2> QED BY <2>1, HandlersKeep, ClientKeeps, PageKeeps DEF ReadingNext
<1> QED BY <1>1, <1>2, PTL DEF ReadingSpec

\* Whatever is retried, aborted, reloaded or left half done, the reading on the
\* page is in the database under the session of the page, and a row that was
\* not shown has a request that was cut off, or is under way.  However many
\* attempts and requests there are.
THEOREM ShownIsWhatIsStored == ReadingSpec => []ReadingsAreStored
<1>1. FlowInv => ReadingsAreStored
  <2> SUFFICES ASSUME FlowInv PROVE ReadingsAreStored
    OBVIOUS
  <2>1. /\ ReadingTypeOK /\ HeldOK /\ fetches \in Seq(Fetches)
        /\ \A f \in Fetched : RowOK(fetches[f]) /\ EndOK(f)
    BY DEF FlowInv, ReadingTypeOK
  <2>2. ASSUME NEW f \in Fetched, fetches[f].stored
        PROVE  \/ fetches[f].end \in {"cut", "adopted"}
               \/ f = Current /\ fetches[f].end = "open"
               \/ fetches[f].at = "lost"
               \/ /\ fetches[f].ask.kind = "session"
                  /\ fetches[f].at \in {"failed", "refused"}
    <3>1. fetches[f] \in Fetches
      BY <2>1 DEF Fetched
    <3>2. /\ fetches[f].end \in {"open", "cut", "told", "adopted"}
          /\ fetches[f].ask.kind \in {"session", "reading"}
      BY <3>1, FetchFields
    <3> QED BY <2>1, <2>2, <3>2 DEF RowOK, EndOK
  <2>3. RowsAreAccountedFor
    BY <2>2 DEF RowsAreAccountedFor
  <2>4. ShownIsStored
    BY <2>1 DEF HeldOK, ShownIsStored
  <2> QED BY <2>3, <2>4 DEF ReadingsAreStored
<1> QED BY <1>1, FlowInductive, PTL

-----------------------------------------------------------------------------
\* The services, run one at a time, each do what they do alone.
THEOREM ServicesRunTheirParts ==
  Spec => /\ SessionsSpec /\ RateLimitSpec /\ AddressesSpec
          /\ ReadingSpec /\ DeckSpec
<1>1. Init => /\ SessionsInit /\ RateLimitInit /\ AddressesInit
              /\ ReadingInit /\ DeckInit
  BY DEF Init
<1>2. [Next]_vars => /\ [SessionsNext]_sessionVars
                     /\ [RateLimitNext]_limitVars
                     /\ [AddressesNext]_addressVars
                     /\ [ReadingNext]_readingVars
                     /\ [DeckNext]_deckVars
  BY DEF Next, vars
<1> QED BY <1>1, <1>2, PTL
        DEF Spec, SessionsSpec, RateLimitSpec, AddressesSpec, ReadingSpec, DeckSpec

\* In every state of that composition the variables of every component, the
\* four that rest included, have their types.
THEOREM ServicesTypeCorrect == Spec => []ServicesTypeOK
<1>1. /\ SessionsInv => SessionsTypeOK
      /\ LimiterInv => RateLimitTypeOK
      /\ AddressesInv => AddressesTypeOK
      /\ FlowInv => ReadingTypeOK
      /\ DeckInv => DeckTypeOK
  BY DEF SessionsInv, LimiterInv, AddressesInv, FlowInv, DeckInv
<1>2. SessionsTypeOK /\ RateLimitTypeOK /\ AddressesTypeOK /\ ReadingTypeOK
        /\ DeckTypeOK => ServicesTypeOK
  BY DEF ServicesTypeOK
<1> QED BY <1>1, <1>2, ServicesRunTheirParts, SessionsInvariant, LimiterInductive,
           AddressesInvariant, FlowInductive, DeckInductive, PTL
=============================================================================
