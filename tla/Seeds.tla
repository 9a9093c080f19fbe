------------------------------- MODULE Seeds -------------------------------
(***************************************************************************)
(* The reference data of TarotReading: the scripts that fill the tables of *)
(* cards, spreads and plans (backend/src/scripts/seed-all.ts, seed-cards,  *)
(* seed-spreads, seed-plans), each run by an operator or at a deployment,  *)
(* possibly twice at a time, and stopped at any statement; the migrations  *)
(* that make and empty those tables (scripts/migrate.ts); and a draw, with *)
(* the details of its cards looked up side by side by their places in the  *)
(* deck (services/tarot-engine.ts, lib/cache.ts).                          *)
(*                                                                         *)
(* A row is named by the element of the script's list it was made from: no *)
(* table has a unique column but its id, so that a row may be there twice. *)
(***************************************************************************)
EXTENDS Naturals, Sequences, FiniteSets

CONSTANTS
  Seeders,   \* the processes that run seed-all
  AskedIds   \* bound: the ids of cards whose details are asked for

\* The elements of TAROT_CARDS, and what getCardDetails is asked for.
Cards == 1 .. 78
MajorArcana == 1 .. 22

SPREADS == <<"1-card", "3-card", "7-card", "celtic-cross">>
PLANS == <<"free", "premium-monthly", "premium-yearly">>
RowsOf(list) == {list[i] : i \in DOMAIN list}
Empty(list) == [row \in RowsOf(list) |-> 0]

\* The majors carry their own place; the minors' orders begin at 21, 35, 49
\* and 63, fourteen of each suit.
MajorOrder(c) == c - 1
MinorOrder(c) ==
  LET suit == (c - 23) \div 14
      i == (c - 23) % 14
  IN 21 + 14 * suit + i
Order(c) == IF c \in MajorArcana THEN MajorOrder(c) ELSE MinorOrder(c)

ASSUME SeedsAssumption == IsFiniteSet(Seeders) /\ AskedIds \subseteq Cards

VARIABLES
  schema,    \* have the migrations made the tables?
  cards,     \* how often the list of cards was inserted
  spreads,   \* how often each spread was
  plans,     \* and each plan
  seeder,    \* where each process is: a script and what it has yet to insert
  details,   \* the card each id has in the cache, 0 for none
  draw,      \* the draw of cards: its ids, those yet to look up, what was found
             \* for each; or which of them made it fail
  cut,       \* history: a process stopped before its end, or was undone
  overlapped \* history: two were at the same script

seedVars ==
  <<schema, cards, spreads, plans, seeder, details, draw, cut, overlapped>>
tables == <<cards, spreads, plans>>

Copies == 0 .. Cardinality(Seeders)

\* row: what a loop inserts next; "count" is the check before it.
Scripts == [at : {"cards", "spreads", "plans"}, step : {"count", "insert"},
            row : 1 .. Len(SPREADS)]
Ready == [at |-> "ready"]
Ended == [at |-> "ended"]

NoDraw == [at |-> "none", ids |-> {}, pending |-> {}, found |-> [id \in AskedIds |-> 0]]

SeedsTypeOK ==
  /\ schema \in BOOLEAN
  /\ draw \in [at : {"none", "drawing", "answered", "failed", "missing"}, ids : SUBSET AskedIds,
               pending : SUBSET AskedIds, found : [AskedIds -> {0} \union Cards]]
  /\ cards \in Copies
  /\ spreads \in [RowsOf(SPREADS) -> Copies]
  /\ plans \in [RowsOf(PLANS) -> Copies]
  /\ seeder \in [Seeders -> Scripts \union {Ready, Ended}]
  /\ details \in [AskedIds -> {0} \union Cards]
  /\ cut \in BOOLEAN /\ overlapped \in BOOLEAN

SeedsInit ==
  /\ schema = FALSE /\ draw = NoDraw
  /\ cards = 0
  /\ spreads = Empty(SPREADS)
  /\ plans = Empty(PLANS)
  /\ seeder = [p \in Seeders |-> Ready]
  /\ details = [id \in AskedIds |-> 0]
  /\ cut = FALSE /\ overlapped = FALSE

-----------------------------------------------------------------------------
Script(script) == [at |-> script, step |-> "count", row |-> 1]

\* seedAll goes from script to script.
After(script) == CASE script = "cards" -> Script("spreads")
                   [] script = "spreads" -> Script("plans")
                   [] script = "plans" -> Ended

\* (Without its table the first statement throws: SeedStops.)
At(p, script, step) ==
  schema /\ seeder[p].at = script /\ seeder[p].step = step

Goes(p, there) ==
  /\ seeder' = [seeder EXCEPT ![p] = there]
  /\ overlapped' = (overlapped \/ \E q \in Seeders \ {p} :
                           there # Ended /\ seeder[q].at = there.at)
  /\ UNCHANGED <<schema, details, draw, cut>>

SeedAll(p) ==
  /\ seeder[p] = Ready
  /\ Goes(p, Script("cards"))
  /\ UNCHANGED <<cards, spreads, plans>>

\* One statement inserts the whole list.
SeedCards(p) ==
  /\ \/ /\ At(p, "cards", "count")
        /\ Goes(p, IF cards > 0 THEN After("cards")
                   ELSE [seeder[p] EXCEPT !.step = "insert"])
        /\ UNCHANGED cards
     \/ /\ At(p, "cards", "insert")
        /\ Goes(p, After("cards"))
        /\ cards' = cards + 1
  /\ UNCHANGED <<spreads, plans>>

\* The scripts that insert row by row, in the order of their list.
CountRows(p, script, table) ==
  /\ At(p, script, "count")
  /\ Goes(p, IF \E row \in DOMAIN table : table[row] > 0 THEN After(script)
             ELSE [seeder[p] EXCEPT !.step = "insert"])

\* mutant: the last row is left out.
InsertButLast(p, script, list) ==
  /\ At(p, script, "insert")
  /\ Goes(p, IF seeder[p].row >= Len(list) - 1 THEN After(script)
             ELSE [seeder[p] EXCEPT !.row = @ + 1])

InsertRow(p, script, list) ==
  /\ At(p, script, "insert")
  /\ Goes(p, IF seeder[p].row = Len(list) THEN After(script)
             ELSE [seeder[p] EXCEPT !.row = @ + 1])

Inserted(table, row) == [table EXCEPT ![row] = @ + 1]

SeedSpreads(p) ==
  /\ \/ CountRows(p, "spreads", spreads) /\ UNCHANGED spreads
     \/ /\ InsertRow(p, "spreads", SPREADS)
        /\ spreads' = Inserted(spreads, SPREADS[seeder[p].row])
  /\ UNCHANGED <<cards, plans>>

SeedPlans(p) ==
  /\ \/ CountRows(p, "plans", plans) /\ UNCHANGED plans
     \/ /\ InsertRow(p, "plans", PLANS)
        /\ plans' = Inserted(plans, PLANS[seeder[p].row])
  /\ UNCHANGED <<cards, spreads>>

\* A statement throws, or the process is stopped: nothing undoes the rows.
SeedStops(p) ==
  /\ seeder[p].at \notin {"ready", "ended"}
  /\ seeder' = [seeder EXCEPT ![p] = Ended]
  /\ cut' = TRUE
  /\ UNCHANGED <<schema, tables, details, draw, overlapped>>

\* What an operator has migrate.ts do.  Prisma makes the tables, or makes them
\* anew, whoever is at them; generate, down, revert and status leave them as they
\* are.  bound: they are emptied as long as a process has yet to begin.
Applying == {"up", "deploy", "dev"}

RunMigration(action) ==
  /\ \/ action \in Applying /\ ~schema /\ UNCHANGED <<tables, cut>>
     \/ /\ action = "reset"
        /\ \E p \in Seeders : seeder[p] = Ready
        /\ cards' = 0 /\ spreads' = Empty(SPREADS) /\ plans' = Empty(PLANS)
        /\ cut' = (cut \/ \E p \in Seeders : seeder[p] # Ready)
  /\ schema' = TRUE
  /\ UNCHANGED <<seeder, details, draw, overlapped>>

-----------------------------------------------------------------------------
\* A draw is of distinct cards (CardDeck).  bound: no draw begins before the
\* look-ups of the one before have ended.
DrawCards(ids) ==
  /\ draw.pending = {} /\ ids # {} /\ cards > 0
  /\ draw' = [NoDraw EXCEPT !.at = "drawing", !.ids = ids, !.pending = ids]
  /\ UNCHANGED <<schema, tables, seeder, details, cut, overlapped>>

\* findFirst takes any row of that order.
CardsAt(order) == IF cards = 0 THEN {} ELSE {c \in Cards : Order(c) = order}

\* Neither call of the cache throws: what Redis fails at counts as missing, or
\* is not kept.
CacheGet(id) == {details[id], 0}
CacheSet(id, c) == {details, [details EXCEPT ![id] = c]}

\* Promise.all: the draw is answered with its last card, and fails with the
\* first that throws, while the others go on.
LookedUp(id) == [draw EXCEPT !.pending = @ \ {id}]

DrawCardsWithDetails(id, c) ==
  draw' = IF draw.at # "drawing" THEN LookedUp(id)
          ELSE [LookedUp(id) EXCEPT !.found[id] = c,
                  !.at = IF draw.pending = {id} THEN "answered" ELSE @]
DrawThrows(id, how) ==
  draw' = IF draw.at # "drawing" THEN LookedUp(id)
          ELSE [NoDraw EXCEPT !.at = how, !.ids = {id}, !.pending = draw.pending \ {id}]

\* Card ids begin at 1 and orders at 0.  A card that is not found, or a
\* statement that fails, makes the whole draw throw; only what was found is
\* cached, for a day.
GetCardDetails(id) ==
  /\ id \in draw.pending
  /\ LET there == CardsAt(id - 1)
     IN \/ \E c \in CacheGet(id) \ {0} :
             DrawCardsWithDetails(id, c) /\ UNCHANGED details
        \/ /\ 0 \in CacheGet(id)
           /\ \E c \in there :
                DrawCardsWithDetails(id, c) /\ details' \in CacheSet(id, c)
        \/ /\ there = {} /\ cards > 0
           /\ DrawThrows(id, "missing") /\ UNCHANGED details
        \/ DrawThrows(id, "failed") /\ UNCHANGED details
  /\ UNCHANGED <<schema, tables, seeder, cut, overlapped>>

ExpireDetails(id) ==
  /\ details[id] # 0
  /\ details' = [details EXCEPT ![id] = 0]
  /\ UNCHANGED <<schema, tables, seeder, draw, cut, overlapped>>

SeedsNext ==
  \/ \E p \in Seeders :
       SeedAll(p) \/ SeedCards(p) \/ SeedSpreads(p) \/ SeedPlans(p)
         \/ SeedStops(p)
  \/ \E action \in Applying \union {"reset"} : RunMigration(action)
  \/ \E ids \in SUBSET AskedIds : DrawCards(ids)
  \/ \E id \in AskedIds : GetCardDetails(id) \/ ExpireDetails(id)

SeedsSpec == SeedsInit /\ [][SeedsNext]_seedVars

-----------------------------------------------------------------------------
(***************************************************************************)
(* Properties                                                              *)
(***************************************************************************)

SeedingOver ==
  /\ \E p \in Seeders : seeder[p] = Ended
  /\ \A p \in Seeders : seeder[p] \in {Ready, Ended}
Whole(table) == \A row \in DOMAIN table : table[row] > 0
Single(table) == \A row \in DOMAIN table : table[row] <= 1

\* However many runs of the scripts there were: once one has ended and none is
\* under way, every card, spread and plan is in its table unless some run was
\* stopped or the tables emptied; no row is there twice unless two runs were at
\* the same script at once; no card but the last is ever missing; and a draw
\* that is answered, from the cache, the table or both, while tables are filled
\* and emptied, shows a card for each of its ids, and none twice.  What the
\* repository says without these exceptions are the three properties below.
SeedsWhole ==
  /\ SeedingOver /\ ~cut => cards > 0 /\ Whole(spreads) /\ Whole(plans)
  /\ ~overlapped => cards <= 1 /\ Single(spreads) /\ Single(plans)
  /\ draw.at = "missing" => draw.ids = {78}
  /\ draw.at = "answered" =>
       \A i, j \in draw.ids : /\ draw.found[i] \in Cards
                             /\ i # j => draw.found[i] # draw.found[j]

\* The schema gives the cards the places 0 to 77, the comments of the list the
\* minors those from 22: once the cards are there every id of a draw has one.
\* The minors begin at 21, and nothing has the place 77: TLC finds it violated.
EveryCardHasItsPlace == draw.at # "missing"

\* "Spreads already seeded, skipping": a run that skips the spreads finds them
\* whole, if no other run was at them.  A run that was stopped between two rows
\* leaves a part, which every later run skips: TLC finds it violated.
SkippedIsSeeded ==
  [][\A p \in Seeders :
       /\ At(p, "spreads", "count") /\ seeder'[p] = After("spreads")
       /\ ~overlapped
       => Whole(spreads)]_seedVars

\* The documented tables have each card, spread and plan once, by their primary
\* keys.  Two runs may both find a table empty: TLC finds it violated.
RowsAreSingle == cards <= 1 /\ Single(spreads) /\ Single(plans)
=============================================================================
