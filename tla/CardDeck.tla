------------------------------ MODULE CardDeck ------------------------------
(***************************************************************************)
(* The draw of cards (TarotReading/backend/src/services/tarot-engine.ts):  *)
(* a Fisher-Yates shuffle, one swap a step, and the first cards of the     *)
(* deck, each upright or reversed.  The random numbers are any numbers     *)
(* their generator may return.                                             *)
(***************************************************************************)
EXTENDS Naturals

CONSTANTS
  DeckSize,   \* the cards of a deck, 78
  Drawn       \* the cards of a spread: 1, 3, 7 or 10

ASSUME CardDeckAssumption ==
  /\ DeckSize \in Nat \ {0}
  /\ Drawn \in 1 .. DeckSize

\* The places of the deck, and the one behind it: reading it gives undefined,
\* and an assignment to it makes the array longer.
Places == 0 .. DeckSize
Undefined == 0

VARIABLES
  deck,     \* the card at each place
  left,     \* the loop's i, 0 when it has ended
  hand,     \* the cards drawn, none before the shuffle has ended
  seeded,   \* has the request a seed?
  edge      \* history: a hash of the seed was 2^32 - 1

deckVars == <<deck, left, hand, seeded, edge>>

Hand == [card_id : {Undefined} \union (1 .. DeckSize), position : 1 .. Drawn,
         orientation : {"upright", "reversed"}]

DeckTypeOK ==
  /\ deck \in [Places -> {Undefined} \union (1 .. DeckSize)]
  /\ left \in 0 .. DeckSize - 1
  /\ hand \subseteq Hand
  /\ seeded \in BOOLEAN
  /\ edge \in BOOLEAN

DeckInit ==
  /\ deck = [p \in Places |-> IF p = DeckSize THEN Undefined ELSE p + 1]
  /\ left = DeckSize - 1
  /\ hand = {}
  /\ seeded \in BOOLEAN
  /\ edge = FALSE

\* randomInt(0, n).  The bytes of the generator are taken modulo n; the hash of
\* a seed is divided by 2^32 - 1, which gives n itself for the largest hash.
RandomInts(n) == 0 .. (IF seeded THEN n ELSE n - 1)

\* mutant: the second assignment sees the first.
Overwritten(i, j) == [deck EXCEPT ![i] = deck[j]]

Swapped(i, j) == [deck EXCEPT ![i] = deck[j], ![j] = deck[i]]

Swap(j) ==
  /\ left > 0
  /\ j \in RandomInts(left + 1)
  /\ deck' = Swapped(left, j)
  /\ left' = left - 1
  /\ edge' = (edge \/ j > left)
  /\ UNCHANGED <<hand, seeded>>

RandomOrientation(n) == IF n = 0 THEN "upright" ELSE "reversed"

\* The random numbers of the orientations are n: each card has its own hash.
Dealt(n) ==
  {[card_id |-> deck[p - 1], position |-> p, orientation |-> RandomOrientation(n[p])] :
     p \in 1 .. Drawn}

DrawCards ==
  /\ left = 0 /\ hand = {}
  /\ \E n \in [1 .. Drawn -> RandomInts(2)] : hand' = Dealt(n)
  /\ UNCHANGED <<deck, left, seeded, edge>>

DeckNext == (\E j \in Places : Swap(j)) \/ DrawCards

DeckSpec == DeckInit /\ [][DeckNext]_deckVars

-----------------------------------------------------------------------------
(***************************************************************************)
(* Properties                                                              *)
(***************************************************************************)

\* At every step of the shuffle no card is twice in the deck and, unless the
\* hash of the seed was the largest one, none is missing from it: the draw is
\* of distinct cards that exist, one at each position, whatever the random
\* numbers are.
DrawnAreCards ==
  /\ \A p, q \in Places : p # q => deck[p] # deck[q]
  /\ ~edge => \A p \in 0 .. Drawn - 1 : deck[p] \in 1 .. DeckSize
  /\ hand # {} => \A p \in 1 .. Drawn : \E c \in hand : c.position = p
  /\ \A c, d \in hand : c.card_id = d.card_id => c = d

\* What the comments say of randomInt ("Maximum value (exclusive)", "Normalize to
\* [0, 1)"): every card that is drawn is one of the deck.
EveryCardExists == \A c \in hand : c.card_id \in 1 .. DeckSize
=============================================================================
