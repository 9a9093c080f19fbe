---------------------------- MODULE Subscription ----------------------------
(***************************************************************************)
(* The Subscribe RPC of the data access layer: a goroutine reads a Redis   *)
(* stream with XREAD into a channel (internal/stream/redis_stream.go), the *)
(* handler sends what is on the channel to the client                      *)
(* (internal/server/grpc.go).  An entry of the stream is named by its      *)
(* position, which stands for its ID; what adds entries to the stream is   *)
(* in EventEmission.                                                       *)
(***************************************************************************)
EXTENDS Naturals, Sequences, FiniteSets, Functions, FiniteSetsExt

CONSTANTS
  MaxEntries,   \* bound: the entries added to the stream
  StreamMax,    \* the entries the stream keeps at least (MaxLen, 10000)
  ReadCount,    \* the entries one XREAD returns at most (100)
  ChanCap,      \* the capacity of the channel (64)
  MaxReadErrors \* bound: how often XREAD may fail

ASSUME SubscriptionAssumption ==
  /\ MaxEntries \in Nat
  /\ StreamMax \in Nat \ {0}
  /\ ReadCount \in Nat \ {0}
  /\ ChanCap \in Nat \ {0}
  /\ MaxReadErrors \in Nat

VARIABLES
  newest,     \* the position of the newest entry, 0 for an empty stream
  trimmed,    \* the entries Redis has dropped, from the oldest
  subscribed, \* is the client there?
  sub,        \* where the reading goroutine is
  lastID,     \* the position of the last entry it has taken, 0 for "$"
  from,       \* the position the pending XREAD waits beyond
  got,        \* the entries XREAD returned that are not yet on the channel
  ch,         \* the channel
  delivered,  \* history: the entries sent to the client
  since,      \* history: the position the first XREAD waited beyond
  readErrors  \* history: how often XREAD has failed

redis == <<newest, trimmed>>
subscriptionVars == <<redis, subscribed, sub, lastID, from, got, ch,
                      delivered, since, readErrors>>

Positions == 1 .. newest

SubscriptionTypeOK ==
  /\ newest \in 0 .. MaxEntries
  /\ trimmed \in 0 .. newest
  /\ subscribed \in BOOLEAN
  /\ sub \in {"none", "start", "loop", "xread", "push", "exited"}
  /\ lastID \in 0 .. newest
  /\ from \in 0 .. newest
  /\ got \in Seq(Positions)
  /\ ch \in Seq(Positions) /\ Len(ch) <= ChanCap
  /\ delivered \in Seq(Positions)
  /\ since \in 0 .. newest
  /\ readErrors \in 0 .. MaxReadErrors

SubscriptionInit ==
  /\ newest = 0
  /\ trimmed = 0
  /\ subscribed = FALSE
  /\ sub = "none"
  /\ lastID = 0
  /\ from = 0
  /\ got = <<>>
  /\ ch = <<>>
  /\ delivered = <<>>
  /\ since = 0
  /\ readErrors = 0

\* XADD with an approximate MaxLen: Redis may drop entries beyond it, and may
\* keep them.
AddEntry ==
  /\ newest < MaxEntries
  /\ newest' = newest + 1
  /\ trimmed' \in trimmed .. Max({trimmed, newest' - StreamMax})
  /\ UNCHANGED <<subscribed, sub, lastID, from, got, ch, delivered, since,
                 readErrors>>

\* The client calls Subscribe: the goroutine is started.
Subscribe ==
  /\ sub = "none"
  /\ subscribed' = TRUE
  /\ sub' = "start"
  /\ UNCHANGED <<redis, lastID, from, got, ch, delivered, since, readErrors>>

\* The client cancels, or Send fails and the handler returns: the context is
\* done, and nobody reads the channel any more.
Unsubscribe ==
  /\ subscribed
  /\ subscribed' = FALSE
  /\ UNCHANGED <<redis, sub, lastID, from, got, ch, delivered, since,
                 readErrors>>

-----------------------------------------------------------------------------
(***************************************************************************)
(* The reading goroutine.                                                  *)
(***************************************************************************)

\* mutant: "$" is passed to every XREAD.
BeyondNewest == newest

\* "$", as long as nothing was read, stands for the newest entry there is when
\* the call is made.
Beyond == IF lastID = 0 THEN newest ELSE lastID

\* The top of the loop.
ReadStream ==
  /\ sub \in {"start", "loop"}
  /\ \/ /\ subscribed
        /\ sub' = "xread"
        /\ from' = Beyond
        /\ since' = IF sub = "start" THEN Beyond ELSE since
     \/ /\ ~subscribed
        /\ sub' = "exited"
        /\ UNCHANGED <<from, since>>
  /\ UNCHANGED <<redis, subscribed, lastID, got, ch, delivered, readErrors>>

\* The entries the waiting XREAD can return.
Available == Max({from, trimmed}) + 1 .. newest

\* The first of a set of positions, as many as one XREAD returns.
FirstOf(S) ==
  [i \in 1 .. Min({Cardinality(S), ReadCount}) |-> Min(S) + i - 1]

\* XREAD returns with entries.
XReadReturns ==
  /\ sub = "xread"
  /\ Available # {}
  /\ got' = FirstOf(Available)
  /\ sub' = "push"
  /\ UNCHANGED <<redis, subscribed, lastID, from, ch, delivered, since,
                 readErrors>>

\* It returns redis.Nil after its block of 5 s, or the context's error, or
\* another one after which the goroutine backs off: back to the top.
XReadFails ==
  /\ sub = "xread"
  /\ \/ Available = {} /\ UNCHANGED readErrors
     \/ ~subscribed /\ UNCHANGED readErrors
     \/ readErrors < MaxReadErrors /\ readErrors' = readErrors + 1
  /\ sub' = "loop"
  /\ UNCHANGED <<redis, subscribed, lastID, from, got, ch, delivered, since>>

\* mutant: the channel has no bound.
PushUnbounded ==
  /\ sub = "push"
  /\ \/ got = <<>> /\ sub' = "loop" /\ UNCHANGED <<lastID, got, ch>>
     \/ /\ got # <<>>
        /\ lastID' = Head(got)
        /\ ch' = Append(ch, Head(got))
        /\ got' = Tail(got)
        /\ UNCHANGED sub
  /\ UNCHANGED <<redis, subscribed, from, delivered, since, readErrors>>

\* Each entry is put on the channel, or the context is done.
Push ==
  /\ sub = "push"
  /\ \/ got = <<>> /\ sub' = "loop" /\ UNCHANGED <<lastID, got, ch>>
     \/ /\ got # <<>> /\ Len(ch) < ChanCap
        /\ lastID' = Head(got)
        /\ ch' = Append(ch, Head(got))
        /\ got' = Tail(got)
        /\ UNCHANGED sub
     \/ /\ got # <<>> /\ ~subscribed
        /\ sub' = "exited"
        /\ UNCHANGED <<lastID, got, ch>>
  /\ UNCHANGED <<redis, subscribed, from, delivered, since, readErrors>>

\* The handler's loop over the channel.
Deliver ==
  /\ subscribed
  /\ ch # <<>>
  /\ delivered' = Append(delivered, Head(ch))
  /\ ch' = Tail(ch)
  /\ UNCHANGED <<redis, subscribed, sub, lastID, from, got, since, readErrors>>

-----------------------------------------------------------------------------
SubscriptionNext ==
  \/ AddEntry
  \/ Subscribe
  \/ Unsubscribe
  \/ ReadStream
  \/ XReadReturns
  \/ XReadFails
  \/ Push
  \/ Deliver

SubscriptionSpec == SubscriptionInit /\ [][SubscriptionNext]_subscriptionVars

\* Fairness: the goroutine and the handler run, XREAD does not block for more
\* than 5 s, and returns entries if there are any.  Nothing makes the client
\* subscribe or leave, or the stream grow.
SubscriptionFairness ==
  /\ WF_subscriptionVars(ReadStream)
  /\ WF_subscriptionVars(XReadReturns \/ XReadFails)
  /\ WF_subscriptionVars(Push)
  /\ WF_subscriptionVars(Deliver)

-----------------------------------------------------------------------------
(***************************************************************************)
(* Properties                                                              *)
(***************************************************************************)

\* What the client has been, and is about to be, given.
Flow == delivered \o ch \o got

\* The client receives entries in the order of the stream, none twice, and
\* misses one only if Redis trimmed it before it was read: between the first
\* entry a subscriber was given and the last one it has read there is no gap,
\* whatever XREAD timeouts and failures happen in between.
NoGapAfterFirst ==
  /\ \A i, j \in DOMAIN Flow : i < j => Flow[i] < Flow[j]
  /\ Flow # <<>> =>
       \A p \in Flow[1] .. Flow[Len(Flow)] :
         p \in Range(Flow) \/ p <= trimmed

\* A client that stays and has received something gets the newest entry
\* whenever the stream pauses, however often XREAD has failed.
CatchesUp ==
  []<>(subscribed /\ Flow # <<>> => newest \in Range(delivered))

\* The reading goroutine ends when its client has left, even if the channel
\* is full and nobody takes from it.
ReaderEnds == sub # "none" /\ ~subscribed ~> sub = "exited"

\* WBS.md: "Subscribe can receive changes as they happen".  From the moment
\* its first XREAD waits a subscriber is given every entry, as far as it has
\* read, that Redis has not trimmed.
NothingMissedWhileWaiting ==
  Flow # <<>> =>
    \A p \in since + 1 .. Flow[Len(Flow)] : p \in Range(Flow) \/ p <= trimmed
=============================================================================
