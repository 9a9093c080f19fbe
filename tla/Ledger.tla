------------------------------- MODULE Ledger -------------------------------
(***************************************************************************)
(* The finance records of a customer in CustomerManagement                 *)
(* (src/services/finance.service.ts): recorded once and never changed,     *)
(* listed page by page as the customers themselves are                     *)
(* (customer.service.ts, list), and summed up by type.                     *)
(***************************************************************************)
EXTENDS Naturals, Sequences, SequencesExt

CONSTANTS
  Limit,       \* the rows of a page
  Amounts,     \* bound: the amounts recorded, in hundredths
  MaxRecords   \* bound: the records

ASSUME LedgerAssumption ==
  Limit \in Nat \ {0} /\ Amounts \subseteq Nat /\ MaxRecords \in Nat

RecordTypes == {"purchase", "refund", "top_up", "subscription"}
Settled == "completed"

VARIABLES
  ledger,     \* the records, oldest first
  listing,    \* the list call under way: its page and the results it has
  summary,    \* the last summary
  grew        \* history: a record was added between the two queries

ledgerVars == <<ledger, listing, summary, grew>>

FinanceRecords ==
  [type : RecordTypes, amount : Amounts, status : {"pending", Settled}]
NotListing == [page |-> 0]
Unknown == MaxRecords + 1
NoSummary == [transactionCount |-> Unknown]

LedgerTypeOK ==
  /\ ledger \in Seq(FinanceRecords) /\ Len(ledger) <= MaxRecords
  /\ listing \in {NotListing} \union
       [page : 1 .. MaxRecords + 1, rows : 0 .. Unknown, total : 0 .. Unknown]
  /\ grew \in BOOLEAN

LedgerInit ==
  /\ ledger = <<>>
  /\ listing = NotListing /\ grew = FALSE
  /\ summary = NoSummary

-----------------------------------------------------------------------------
\* One of the two queries has been answered.
HalfAnswered ==
  listing # NotListing /\ (listing.rows = Unknown <=> listing.total # Unknown)

CreateRecord(record) ==
  /\ Len(ledger) < MaxRecords
  /\ ledger' = Append(ledger, record)
  /\ grew' = (grew \/ HalfAnswered)
  /\ UNCHANGED <<listing, summary>>

\* Promise.all starts both queries; they are answered in any order.
List(page) ==
  /\ listing = NotListing
  /\ listing' = [page |-> page, rows |-> Unknown, total |-> Unknown]
  /\ grew' = FALSE
  /\ UNCHANGED <<ledger, summary>>

\* mutant: the first page is skipped.
SkipPage(page) == page * Limit

Skip(page) == (page - 1) * Limit

Least(a, b) == IF a < b THEN a ELSE b

\* findMany with skip and take.
FindPage ==
  /\ listing # NotListing /\ listing.rows = Unknown
  /\ LET skip == Skip(listing.page)
     IN listing' = [listing EXCEPT
          !.rows = IF Len(ledger) <= skip THEN 0
                   ELSE Least(Limit, Len(ledger) - skip)]
  /\ UNCHANGED <<ledger, summary, grew>>

CountAll ==
  /\ listing # NotListing /\ listing.total = Unknown
  /\ listing' = [listing EXCEPT !.total = Len(ledger)]
  /\ UNCHANGED <<ledger, summary, grew>>

TotalPages(total) == (total + Limit - 1) \div Limit

Listed ==
  /\ listing # NotListing /\ Unknown \notin {listing.rows, listing.total}
  /\ listing' = NotListing
  /\ UNCHANGED <<ledger, summary, grew>>

\* What the query finds, and the loop over it.
Completed == {i \in DOMAIN ledger : ledger[i].status = Settled}

Add(sums, record) ==
  CASE record.status # Settled -> sums
    [] record.status = Settled /\ record.type \in {"purchase", "subscription"} ->
         [sums EXCEPT !.totalPurchases = @ + record.amount]
    [] record.status = Settled /\ record.type = "refund" ->
         [sums EXCEPT !.totalRefunds = @ + record.amount]
    [] record.status = Settled /\ record.type = "top_up" ->
         [sums EXCEPT !.totalTopUps = @ + record.amount]

GetSummary ==
  /\ LET zero == [transactionCount |-> Cardinality(Completed), totalPurchases |-> 0,
                  totalRefunds |-> 0, totalTopUps |-> 0]
     IN summary' = FoldLeft(Add, zero, ledger)
  /\ UNCHANGED <<ledger, listing, grew>>

LedgerNext ==
  \/ \E record \in FinanceRecords : CreateRecord(record)
  \/ \E page \in 1 .. MaxRecords + 1 : List(page)
  \/ FindPage \/ CountAll \/ Listed \/ GetSummary

LedgerSpec == LedgerInit /\ [][LedgerNext]_ledgerVars

-----------------------------------------------------------------------------
(***************************************************************************)
(* Properties                                                              *)
(***************************************************************************)

\* The rows of a page and the pagination beside them fit: no page but the last
\* is short, none after the last has rows, and a page below it is full - unless
\* a record came between the two queries of the call.
PageFitsItsTotal ==
  listing # NotListing /\ Unknown \notin {listing.rows, listing.total} =>
    \/ grew
    \/ CASE listing.page < TotalPages(listing.total) -> listing.rows = Limit
         [] listing.page > TotalPages(listing.total) -> listing.rows = 0
         [] OTHER -> listing.rows = listing.total - (listing.page - 1) * Limit

\* Each completed record is in exactly one sum of the summary: those of records
\* of one unit add up to their number, whatever their types.
SummaryAddsUp ==
  summary # NoSummary /\ Amounts = {1} =>
    summary.totalPurchases + summary.totalRefunds + summary.totalTopUps
      = summary.transactionCount
=============================================================================
